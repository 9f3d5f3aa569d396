------------------------- MODULE SiteServiceReplies -------------------------
(***************************************************************************)
(* The replies of the support team to one request of the site.  A reply is *)
(* a command: the operator writes it in the conversation tab, or, with the *)
(* legacy flag on, in two fields of the Bitrix24 card that a collector     *)
(* polls.  Agents of the site lease the commands, post each into the       *)
(* ticket and acknowledge it.  A handler of the API is one transaction     *)
(* that waits for the row of the case, so it is one step; the collector    *)
(* holds that row over several calls of Bitrix24, one step each.           *)
(* Replies have no attachments (their flag is off), and the clocks of the  *)
(* site and of the service agree.                                          *)
(***************************************************************************)
EXTENDS Naturals, Sequences

CONSTANTS
    None,
    Agents,        \* runs of the site's agent that may overlap
    Texts,         \* reply texts that pass the validation
    FirstTexts,    \* what the card's first SEND asks for, None: its text is empty
    ReplyTexts,    \* what is written in the conversation tab
    LegacyFields,  \* site_service_requests_legacy_field_replies_enabled
    MaxCommands, MaxSaves, MaxRetries,   \* bounds: commands, saves of the card, retries
    MaxFaults,     \* bound: crashes, lost answers, delays, refusals, damaged rows
    MaxLeases      \* bound: leases of a command that a wait for the lock may cost

RefusalCodes == {"ticket_not_found", "support_user_invalid"}
RETRYABLE == {"message_write_failed", "support_user_invalid"}
Errors == RefusalCodes \cup {"message_write_failed", "command_payload_invalid"}

ASSUME RepliesAssumption ==
    /\ None \notin Texts \cup Errors
    /\ FirstTexts \subseteq Texts \cup {None} /\ ReplyTexts \subseteq Texts
    /\ LegacyFields \in BOOLEAN
    /\ {MaxCommands, MaxSaves, MaxRetries, MaxFaults, MaxLeases} \subseteq Nat

CardStatuses == {"none", "pending", "sent", "error"}

VARIABLES
    cmds,     \* site_service_request_command of the case, by creation
    empty,    \* outbound_last_error_code of the case is reply_text_empty
    card,     \* the reply fields of the Bitrix24 card
    col,      \* the collector
    agents,   \* the runs of the site's agent
    ticket,   \* the support messages of the ticket
    wanted,   \* history: the text of the last SEND that still awaits its command
    saves, retries, faults   \* history: used up bounds

bounds == <<saves, retries, faults>>
vars == <<cmds, empty, card, col, agents, ticket, wanted, bounds>>

Commands == 1..MaxCommands
Known == DOMAIN cmds
Latest == Len(cmds)
Open(c) == cmds[c].status \in {"pending", "leased"}

Entry == [cmd : Commands, token : Nat]
Result == [err : Errors \cup {None}, message : Nat]
IdleAgent == [pc |-> "idle", batch |-> {}, cur |-> None, res |-> None]
IdleCollector == [pc |-> "idle", cmd |-> 0, seen |-> None, was |-> FALSE]

(* A pending command has no token, a leased one that of its last lease.      *)
CommandOK(c) ==
    /\ cmds[c] \in [text : Texts, ui : BOOLEAN, status : {"pending", "leased", "applied", "failed"},
                    attempts : Nat, token : Nat, live : BOOLEAN, message : Nat,
                    err : Errors \cup {None}, cleared : BOOLEAN, damaged : BOOLEAN]
    /\ cmds[c].token \in {0, cmds[c].attempts}
    /\ cmds[c].status = "pending" => cmds[c].token = 0
    /\ cmds[c].status = "leased" => cmds[c].token > 0
    /\ cmds[c].live => cmds[c].status = "leased"
    /\ (cmds[c].status = "failed") = (cmds[c].err # None)

TypeOK ==
    /\ Len(cmds) \in 0..MaxCommands
    /\ \A c \in Known : CommandOK(c)
    /\ empty \in BOOLEAN
    /\ card \in [text : Texts \cup {None}, send : BOOLEAN, status : CardStatuses]
    /\ col \in [pc : {"idle", "created", "clear", "restore", "report", "refuse"},
                cmd : 0..MaxCommands, seen : Texts \cup {None} \cup CardStatuses, was : BOOLEAN]
    /\ \A a \in Agents :
        /\ agents[a].pc \in {"idle", "next", "waiting", "writing", "report"}
        /\ agents[a].batch \in SUBSET Entry
        /\ agents[a].cur \in {None} \cup Entry
        /\ agents[a].res \in {None} \cup Result
    /\ ticket \in Seq([cmd : Commands, text : Texts])
    /\ wanted \in Texts \cup {None}
    /\ saves \in 0..MaxSaves /\ retries \in 0..MaxRetries /\ faults \in 0..MaxFaults

Init ==
    /\ cmds = <<>>
    /\ empty = FALSE
    /\ \E t \in FirstTexts :
        /\ card = [text |-> t, send |-> TRUE, status |-> "none"]
        /\ wanted = t
    /\ col = IdleCollector
    /\ agents = [a \in Agents |-> IdleAgent]
    /\ ticket = <<>>
    /\ saves = 0 /\ retries = 0 /\ faults = 0

Fault == faults < MaxFaults /\ faults' = faults + 1 /\ UNCHANGED <<saves, retries>>
NoFault == UNCHANGED bounds
FaultIf(p) == IF p THEN Fault ELSE NoFault

(***************************************************************************)
(* The tables                                                              *)
(***************************************************************************)
(* The row of the case is locked by the collector while it talks to Bitrix24. *)
MutNoCaseLock == FALSE
CaseLocked == col.pc \notin {"idle", "created"}

NewCommand(t, ui) ==
    [text |-> t, ui |-> ui, status |-> "pending", attempts |-> 0, token |-> 0, live |-> FALSE,
     message |-> 0, err |-> None, cleared |-> FALSE, damaged |-> FALSE]

MutOnlyPending(c) == cmds[c].status = "pending"
Available(c) == cmds[c].status = "pending" \/ (cmds[c].status = "leased" /\ ~cmds[c].live)

Leased(cmd) ==
    [cmd EXCEPT !.status = "leased", !.attempts = @ + 1, !.token = cmd.attempts + 1, !.live = TRUE]
Quarantined(cmd) ==
    [cmd EXCEPT !.status = "failed", !.attempts = @ + 1, !.token = 0, !.live = FALSE,
                !.cleared = TRUE, !.err = "command_payload_invalid"]
Acknowledged(cmd, res) ==
    [cmd EXCEPT !.status = IF res.err = None THEN "applied" ELSE "failed",
                !.message = res.message, !.err = res.err, !.live = FALSE]
MutRetryKeepsToken(cmd) == [cmd EXCEPT !.status = "pending", !.live = FALSE, !.err = None]
Retried(cmd) == [cmd EXCEPT !.status = "pending", !.token = 0, !.live = FALSE, !.err = None]

(***************************************************************************)
(* The operator and what befalls the rows                                  *)
(***************************************************************************)
create_ui_reply(t) ==
    /\ ~CaseLocked
    /\ Len(cmds) < MaxCommands
    /\ cmds' = Append(cmds, NewCommand(t, TRUE))
    /\ NoFault
    /\ UNCHANGED <<empty, card, col, agents, ticket, wanted>>

retry_ui_command(c) ==
    /\ ~CaseLocked
    /\ cmds[c].status = "failed" /\ cmds[c].err \in RETRYABLE
    /\ retries < MaxRetries /\ retries' = retries + 1
    /\ cmds' = [cmds EXCEPT ![c] = Retried(@)]
    /\ UNCHANGED <<empty, card, col, agents, ticket, wanted, saves, faults>>

(* The form of the card is saved; pressed: with SEND chosen in it.  A SEND   *)
(* that is still in the card stands for the new text as well.                *)
SaveCard(t, pressed) ==
    /\ LegacyFields
    /\ saves < MaxSaves /\ saves' = saves + 1
    /\ card.text # t \/ pressed
    /\ card' = [card EXCEPT !.text = t, !.send = @ \/ pressed]
    /\ wanted' = IF pressed THEN t ELSE None
    /\ UNCHANGED <<cmds, empty, col, agents, ticket, retries, faults>>

(* A row's payload no longer decrypts.                                        *)
Damage(c) ==
    /\ Open(c) /\ ~cmds[c].damaged
    /\ cmds' = [cmds EXCEPT ![c].damaged = TRUE]
    /\ Fault
    /\ UNCHANGED <<empty, card, col, agents, ticket, wanted>>

Held(a) == agents[a].batch \cup ({agents[a].cur} \ {None})
Carries(a, c) == [cmd |-> c, token |-> cmds[c].token] \in Held(a)
LeaseRunsOut(c) ==
    /\ cmds[c].live
    /\ cmds' = [cmds EXCEPT ![c].live = FALSE]
    /\ FaultIf(\E a \in Agents : Carries(a, c))
    /\ UNCHANGED <<empty, card, col, agents, ticket, wanted>>

(***************************************************************************)
(* The agent of the site                                                   *)
(***************************************************************************)
(* Damaged rows are put aside once another row proves the key; when nothing  *)
(* decrypts the poll fails and changes nothing.                              *)
get_commands(a, kept) ==
    LET leased == {c \in Known : Available(c) /\ ~cmds[c].damaged}
        damaged == {c \in Known : Available(c) /\ cmds[c].damaged}
        answer == {[cmd |-> c, token |-> cmds[c].attempts + 1] : c \in leased}
    IN  /\ agents[a].pc = "idle" /\ ~CaseLocked
        /\ leased # {}
        /\ cmds' = [c \in Known |-> IF c \in leased THEN Leased(cmds[c])
                                    ELSE IF c \in damaged THEN Quarantined(cmds[c]) ELSE cmds[c]]
        /\ empty' = (empty /\ Latest \notin damaged)
        /\ agents' = IF kept THEN [agents EXCEPT ![a].pc = "next", ![a].batch = answer] ELSE agents
        /\ FaultIf(~kept)
        /\ UNCHANGED <<card, col, ticket, wanted>>

Current(a) == agents[a].cur.cmd
RunOut(entry) == cmds[entry.cmd].token # entry.token \/ ~cmds[entry.cmd].live
Holder(c) == {a \in Agents : agents[a].pc = "writing" /\ Current(a) = c}
Aborted(a) == [agents EXCEPT ![a] = IdleAgent]
At(a, pc) == [agents EXCEPT ![a].pc = pc]
MutNoSearch(c) == {}
Found(c) == {m \in DOMAIN ticket : ticket[m].cmd = c}
Reports(a, err, message) ==
    [agents EXCEPT ![a].pc = "report", ![a].res = [err |-> err, message |-> message]]

(* The commands are taken in the order they came in.                         *)
deliver_command(a) ==
    /\ agents[a].pc = "next"
    /\ \E entry \in agents[a].batch :
        /\ \A other \in agents[a].batch : entry.cmd <= other.cmd
        /\ agents' = IF RunOut(entry) THEN Aborted(a)
                     ELSE [agents EXCEPT ![a].pc = "waiting", ![a].cur = entry,
                                         ![a].batch = @ \ {entry}]
    /\ NoFault
    /\ UNCHANGED <<cmds, empty, card, col, ticket, wanted>>

lock_unavailable(a) ==
    /\ agents[a].pc = "waiting"
    /\ Holder(Current(a)) # {}
    /\ cmds[Current(a)].attempts < MaxLeases
    /\ agents' = Aborted(a)
    /\ NoFault
    /\ UNCHANGED <<cmds, empty, card, col, ticket, wanted>>

(* GET_LOCK, the search for the marker and the second look at the lease; the *)
(* lock is held until the result is known.                                   *)
TooLate(a) == RunOut(agents[a].cur)
check_command(a, refusal) ==
    /\ agents[a].pc = "waiting" /\ Holder(Current(a)) = {}
    /\ \/ /\ refusal = None
          /\ \E m \in Found(Current(a)) :
              /\ \A n \in Found(Current(a)) : m <= n
              /\ agents' = Reports(a, None, m)
       \/ /\ Found(Current(a)) = {} /\ TooLate(a) /\ refusal = None
          /\ agents' = Aborted(a)
       \/ /\ Found(Current(a)) = {} /\ ~TooLate(a)
          /\ agents' = IF refusal = None THEN At(a, "writing") ELSE Reports(a, refusal, 0)
    /\ FaultIf(refusal # None)
    /\ UNCHANGED <<cmds, empty, card, col, ticket, wanted>>

(* CTicket::Set posts the message, or fails; the marker is searched again    *)
(* either way, so a failure after the insert counts as posted.               *)
MutSetFailsSilently(a) == Reports(a, None, Len(ticket) + 1)
SetFailed(a) == Reports(a, "message_write_failed", 0)
write_message(a, posted) ==
    LET c == Current(a)
    IN  /\ agents[a].pc = "writing"
        /\ ticket' = IF posted THEN Append(ticket, [cmd |-> c, text |-> cmds[c].text]) ELSE ticket
        /\ agents' = IF posted THEN Reports(a, None, Len(ticket) + 1) ELSE SetFailed(a)
        /\ FaultIf(~posted)
        /\ UNCHANGED <<cmds, empty, card, col, wanted>>

(* The acknowledgement is refused unless the token is the last one; a        *)
(* refusal or a lost answer ends the agent's run.                            *)
acknowledge(a, received, answered) ==
    LET c == Current(a)
        accepted == received /\ cmds[c].status # "pending" /\ cmds[c].token = agents[a].cur.token
    IN  /\ agents[a].pc = "report" /\ ~CaseLocked
        /\ answered => received
        /\ cmds' = IF accepted THEN [cmds EXCEPT ![c] = Acknowledged(@, agents[a].res)] ELSE cmds
        /\ empty' = (empty /\ ~(accepted /\ c = Latest))
        /\ agents' = IF accepted /\ answered /\ agents[a].batch # {}
                     THEN [agents EXCEPT ![a].pc = "next", ![a].cur = None, ![a].res = None]
                     ELSE Aborted(a)
        /\ FaultIf(~answered)
        /\ UNCHANGED <<card, col, ticket, wanted>>

(* The agent dies, or the database of the site fails it, at any step.        *)
Crash(a) ==
    /\ agents[a].pc # "idle"
    /\ agents' = Aborted(a)
    /\ Fault
    /\ UNCHANGED <<cmds, empty, card, col, ticket, wanted>>

(***************************************************************************)
(* The collector of the legacy fields                                      *)
(***************************************************************************)
Shown(c) ==
    CASE cmds[c].status = "applied" -> "sent"
      [] cmds[c].status = "failed" -> "error"
      [] OTHER -> "pending"
Uncleared == {c \in Known : ~cmds[c].cleared}
SameText(t) == {c \in Known : cmds[c].text = t}
Newest(c, set) == c \in set /\ \A d \in set : d <= c
(* The newest command with this text stands for a new SEND while it is under *)
(* way or its own SEND has not been cleared.                                 *)
StandsFor(c, t) == Newest(c, SameText(t)) /\ (~cmds[c].cleared \/ Open(c))

Goes(pc, c, seen) == col' = [pc |-> pc, cmd |-> c, seen |-> seen, was |-> FALSE]
Created(c, was) == col' = [pc |-> "created", cmd |-> c, seen |-> None, was |-> was]

(* The card is read, for a second time, before SEND is cleared.              *)
SameReply(c) == card.text = cmds[c].text
ReadAgain(c) ==
    IF SameReply(c) THEN Goes("clear", c, Shown(c)) ELSE Goes("restore", c, card.text)

(* Clearing SEND for c answers a SEND of the same text, also a second one.   *)
Answered(c) == IF wanted = cmds[c].text THEN None ELSE wanted

(* The card is read with the row of the case locked.                         *)
report_terminal ==
    /\ Uncleared = {} /\ cmds # <<>> /\ ~empty /\ ~card.send
    /\ ~Open(Latest) /\ card.status # Shown(Latest)
    /\ Goes("report", Latest, Shown(Latest))
    /\ UNCHANGED <<cmds, empty, wanted>>
refuse_empty ==
    /\ Uncleared = {} /\ card.send /\ card.text = None
    /\ card.status # "error" \/ ~empty
    /\ Goes("refuse", 0, None)
    /\ UNCHANGED <<cmds, empty, wanted>>
create_command ==
    /\ Uncleared = {} /\ card.send /\ card.text # None
    /\ \/ \E c \in Known :
            /\ StandsFor(c, card.text)
            /\ UNCHANGED cmds
            /\ Created(c, cmds[c].cleared)
       \/ /\ \A c \in Known : ~StandsFor(c, card.text)
          /\ Len(cmds) < MaxCommands
          /\ cmds' = Append(cmds, NewCommand(card.text, FALSE))
          /\ Created(Len(cmds) + 1, FALSE)
    /\ empty' = FALSE
    /\ wanted' = IF wanted = card.text THEN None ELSE wanted
resume_uncleared ==
    /\ \E c \in Uncleared : Newest(c, Uncleared) /\ ReadAgain(c)
    /\ UNCHANGED <<cmds, empty, wanted>>
collect_case ==
    /\ LegacyFields /\ col.pc = "idle"
    /\ report_terminal \/ refuse_empty \/ create_command \/ resume_uncleared
    /\ NoFault
    /\ UNCHANGED <<card, agents, ticket>>

(* The commit of the new command let go of the case; another transaction may *)
(* have settled its clearing meanwhile.                                      *)
relock_case ==
    /\ col.pc = "created"
    /\ IF cmds[col.cmd].cleared # col.was THEN col' = IdleCollector ELSE ReadAgain(col.cmd)
    /\ NoFault
    /\ UNCHANGED <<cmds, empty, card, agents, ticket, wanted>>

Cleared == [cmds EXCEPT ![col.cmd].cleared = TRUE]
MutNoGuard == TRUE
StillSame == SameReply(col.cmd)
clear_action ==
    /\ col.pc = "clear"
    /\ card' = [card EXCEPT !.send = FALSE, !.status = col.seen]
    /\ \/ /\ StillSame
          /\ cmds' = Cleared /\ col' = IdleCollector
          /\ wanted' = Answered(col.cmd)
       \/ /\ ~StillSame
          /\ Goes("restore", col.cmd, card.text)
          /\ UNCHANGED <<cmds, wanted>>
    /\ NoFault
    /\ UNCHANGED <<empty, agents, ticket>>

(* The readback of the restored SEND must still show the text it was for;    *)
(* otherwise the tick is rolled back and the command keeps its claim.        *)
restore_send ==
    /\ col.pc = "restore"
    /\ card' = [card EXCEPT !.send = TRUE, !.status = "pending"]
    /\ cmds' = IF card.text = col.seen THEN IF col.cmd = 0 THEN cmds ELSE Cleared ELSE cmds
    /\ col' = IdleCollector
    /\ NoFault
    /\ UNCHANGED <<empty, agents, ticket, wanted>>

write_status ==
    /\ col.pc = "report"
    /\ card' = [card EXCEPT !.status = col.seen]
    /\ col' = IdleCollector
    /\ NoFault
    /\ UNCHANGED <<cmds, empty, agents, ticket, wanted>>

write_refusal ==
    /\ col.pc = "refuse"
    /\ card' = [card EXCEPT !.status = "error"]
    /\ IF card.text = None
       THEN empty' = TRUE /\ col' = IdleCollector
       ELSE Goes("restore", 0, card.text) /\ UNCHANGED empty
    /\ NoFault
    /\ UNCHANGED <<cmds, agents, ticket, wanted>>

(* A call of Bitrix24 fails, before or after it took effect, or the          *)
(* collector dies; a failure it survives is recorded over the case's error.  *)
collector_fails(recorded, written) ==
    /\ col.pc # "idle"
    /\ col' = IdleCollector
    /\ empty' = (empty /\ ~recorded)
    /\ card' = IF ~written THEN card
               ELSE CASE col.pc = "clear" -> [card EXCEPT !.send = FALSE, !.status = col.seen]
                      [] col.pc = "restore" -> [card EXCEPT !.send = TRUE, !.status = "pending"]
                      [] col.pc = "report" -> [card EXCEPT !.status = col.seen]
                      [] col.pc = "refuse" -> [card EXCEPT !.status = "error"]
                      [] OTHER -> card
    /\ wanted' = IF written /\ col.pc = "clear" THEN Answered(col.cmd) ELSE wanted
    /\ Fault
    /\ UNCHANGED <<cmds, agents, ticket>>

(***************************************************************************)
(* The specification                                                       *)
(***************************************************************************)
Poll(a) == \E kept \in BOOLEAN : get_commands(a, kept)
AgentStep(a) ==
    \/ deliver_command(a)
    \/ \E refusal \in RefusalCodes \cup {None} : check_command(a, refusal)
    \/ \E posted \in BOOLEAN : write_message(a, posted)
    \/ \E received, answered \in BOOLEAN : acknowledge(a, received, answered)
CollectorStep ==
    \/ collect_case \/ relock_case \/ clear_action \/ restore_send
    \/ write_status \/ write_refusal

Next ==
    \/ \E t \in ReplyTexts : create_ui_reply(t)
    \/ \E c \in Known : retry_ui_command(c) \/ Damage(c) \/ LeaseRunsOut(c)
    \/ \E t \in Texts, pressed \in BOOLEAN : SaveCard(t, pressed)
    \/ \E a \in Agents : Poll(a) \/ AgentStep(a) \/ lock_unavailable(a) \/ Crash(a)
    \/ CollectorStep
    \/ \E recorded, written \in BOOLEAN : collector_fails(recorded, written)

Spec == Init /\ [][Next]_vars

(* The agent is a scheduled job of the site and the collector a timer of the *)
(* service; time passes, so leases run out.                                  *)
Fairness ==
    /\ \A a \in Agents : WF_vars(Poll(a)) /\ WF_vars(AgentStep(a))
    /\ WF_vars(CollectorStep)
    /\ \A c \in Commands : WF_vars(c \in Known /\ LeaseRunsOut(c))
FairSpec == Spec /\ Fairness

(***************************************************************************)
(* Properties                                                              *)
(***************************************************************************)
(* The customer reads a reply once: leasing a command again, an agent that   *)
(* overlaps another or outlives its lease, and a lost acknowledgement never  *)
(* post it twice.                                                            *)
OneMessagePerCommand == \A m, n \in DOMAIN ticket : ticket[m].cmd = ticket[n].cmd => m = n

Posted(c) == {m \in DOMAIN ticket : ticket[m].cmd = c}
(* What the service records about a reply is what the customer sees: applied *)
(* names the message of that command in the ticket, and a failure that the   *)
(* site reported means that no message of it is there.                       *)
RecordedAsDelivered ==
    \A c \in Known :
        /\ cmds[c].status = "applied" => cmds[c].message \in Posted(c)
        /\ cmds[c].status = "failed" /\ cmds[c].err # "command_payload_invalid" => Posted(c) = {}

(* The collector shows the operator the status the command has at that       *)
(* moment, although several calls lie between reading and writing it.        *)
ShownStatusIsCurrent ==
    [][col.pc \in {"clear", "report"} /\ card'.status # card.status
        => card'.status = Shown(col.cmd)]_vars

(* A SEND the operator gave is not lost, also when it falls between the      *)
(* collector's calls: until it has become a command it is in the card, or a  *)
(* command with another text is uncleared, so that a later tick restores it. *)
(* Two exceptions: the tick clears SEND on behalf of a command whose own     *)
(* SEND has been cleared before, because the operator had repeated it; and   *)
(* the command whose tick would restore SEND is put aside as unreadable.     *)
SendIsKept ==
    wanted # None =>
        /\ card.text = wanted
        /\ card.send \/ Uncleared # {}
SendIsLostOnlySo ==
    [][SendIsKept /\ ~SendIsKept' =>
          \/ col.pc = "clear" /\ cmds[col.cmd].cleared
          \/ \E c \in Uncleared : cmds[c].damaged /\ cmds'[c].cleared]_vars

(* A reply whose payload is readable is posted or reported as failed, however *)
(* agents die and answers are lost, and also behind an unreadable one: again *)
(* and again none is under way.                                              *)
EveryReplySettles == []<>(\A c \in Known : Open(c) => cmds[c].damaged)
=============================================================================
