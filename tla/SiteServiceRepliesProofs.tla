----------------------- MODULE SiteServiceRepliesProofs -----------------------
(***************************************************************************)
(* A reply is posted once and its recorded outcome is true, for any number *)
(* of agents, replies, leases and faults.                                  *)
(*                                                                         *)
(* The lock of a command is held only while an agent writes, the lease may *)
(* run out at any moment, and a retry opens a failed reply again.  What    *)
(* carries the proof is the token: a lease gives one agent a token that no *)
(* other agent ever holds (TokensIssued, LeasesApart), an agent starts to  *)
(* write only under the token of the row (OneWriter), so the report of a   *)
(* failure is accepted only if nobody else could have written meanwhile    *)
(* (ReportsTrue).                                                          *)
(***************************************************************************)
EXTENDS SiteServiceReplies, SequenceTheorems, TLAPS

CommandType ==
    [text : Texts, ui : BOOLEAN, status : {"pending", "leased", "applied", "failed"},
     attempts : Nat, token : Nat, live : BOOLEAN, message : Nat,
     err : Errors \cup {None}, cleared : BOOLEAN, damaged : BOOLEAN]
RowOK(x) ==
    /\ x \in CommandType
    /\ x.token \in {0, x.attempts}
    /\ x.status = "pending" => x.token = 0
    /\ x.status = "leased" => x.token > 0
    /\ x.live => x.status = "leased"
    /\ (x.status = "failed") = (x.err # None)
RowsOK ==
    /\ cmds \in Seq(CommandType) /\ Len(cmds) <= MaxCommands
    /\ \A c \in Known : RowOK(cmds[c])

AgentType ==
    [pc : {"idle", "next", "waiting", "writing", "report"},
     batch : SUBSET Entry, cur : {None} \cup Entry, res : {None} \cup Result]
Busy == {"waiting", "writing", "report"}
AgentsOK ==
    /\ agents \in [Agents -> AgentType]
    /\ \A a \in Agents :
        /\ agents[a].pc \in Busy => agents[a].cur \in Entry
        /\ agents[a].pc = "report" => agents[a].res \in Result

CollectorType ==
    [pc : {"idle", "created", "clear", "restore", "report", "refuse"},
     cmd : 0..MaxCommands, seen : Texts \cup {None} \cup CardStatuses, was : BOOLEAN]
CollectorOK ==
    /\ col \in CollectorType
    /\ col.pc \in {"clear", "report"} => col.seen \in CardStatuses
    /\ col.pc \in {"created", "clear", "report"} => col.cmd \in Known
    /\ col.pc = "restore" => col.cmd \in Known \cup {0}

CardType == [text : Texts \cup {None}, send : BOOLEAN, status : CardStatuses]
BoundsOK == saves \in 0..MaxSaves /\ retries \in 0..MaxRetries /\ faults \in 0..MaxFaults
RestOK ==
    /\ empty \in BOOLEAN
    /\ card \in CardType
    /\ ticket \in Seq([cmd : Commands, text : Texts])
    /\ wanted \in Texts \cup {None}
    /\ BoundsOK

(* What agent a still has to see to.                                         *)
Mine(a) == agents[a].batch \cup (IF agents[a].pc \in Busy THEN {agents[a].cur} ELSE {})

TokensIssued ==
    \A a \in Agents : \A e \in Mine(a) : e.cmd \in Known /\ e.token \in 1..cmds[e.cmd].attempts
LeasesApart == \A a, b \in Agents : a # b => Mine(a) \cap Mine(b) = {}

Writing(a, c) == agents[a].pc = "writing" /\ agents[a].cur.cmd = c
OneWriter ==
    /\ \A a \in Agents : agents[a].pc = "writing" => Found(Current(a)) = {}
    /\ \A a, b \in Agents : agents[a].pc = "writing" /\ Writing(b, Current(a)) => a = b

(* Nothing was posted for c and nobody is about to.                          *)
Untouched(c) == Found(c) = {} /\ \A b \in Agents : ~Writing(b, c)
ReportsTrue ==
    \A a \in Agents : agents[a].pc = "report" =>
        /\ agents[a].res.err = None => agents[a].res.message \in Found(Current(a))
        /\ agents[a].res.err # None /\ agents[a].cur.token = cmds[Current(a)].token =>
              Untouched(Current(a))

Reported(x) == x.status = "failed" /\ x.err # "command_payload_invalid"
RecordsTrue ==
    \A c \in Known :
        /\ cmds[c].status = "applied" => cmds[c].message \in Found(c)
        /\ Reported(cmds[c]) => Untouched(c)

Shape == RowsOK /\ AgentsOK /\ CollectorOK /\ RestOK
Safe ==
    /\ TokensIssued
    /\ LeasesApart
    /\ OneWriter
    /\ ReportsTrue
    /\ RecordsTrue
    /\ OneMessagePerCommand
IInv == Shape /\ Safe

------------------------------------------------------------------------------
(* Rows.                                                                     *)

(* A row may become y while nobody reports on it.                            *)
Moves(x, y) ==
    /\ RowOK(y)
    /\ x.attempts <= y.attempts
    /\ y.token = x.token \/ y.token = 0 \/ y.token > x.attempts
    /\ y.status = "applied" => x.status = "applied" /\ y.message = x.message
    /\ Reported(y) => Reported(x)

LEMMA RowsAreOK ==
    ASSUME Shape, NEW c \in Known
    PROVE  RowOK(cmds[c])
BY DEF Shape, RowsOK

LEMMA ShapeTypes ==
    ASSUME Shape
    PROVE  TypeOK
<1>1. Len(cmds) \in 0..MaxCommands
  BY RepliesAssumption, LenProperties DEF Shape, RowsOK
<1>2. \A c \in Known : CommandOK(c)
  BY DEF Shape, RowsOK, RowOK, CommandOK, CommandType
<1>3. /\ empty \in BOOLEAN /\ ticket \in Seq([cmd : Commands, text : Texts])
      /\ wanted \in Texts \cup {None}
      /\ saves \in 0..MaxSaves /\ retries \in 0..MaxRetries /\ faults \in 0..MaxFaults
  BY DEF Shape, RestOK, BoundsOK
<1>4. /\ card \in [text : Texts \cup {None}, send : BOOLEAN, status : CardStatuses]
      /\ col \in [pc : {"idle", "created", "clear", "restore", "report", "refuse"},
                  cmd : 0..MaxCommands, seen : Texts \cup {None} \cup CardStatuses,
                  was : BOOLEAN]
  BY DEF Shape, RestOK, CardType, CollectorOK, CollectorType
<1>5. \A a \in Agents :
        /\ agents[a].pc \in {"idle", "next", "waiting", "writing", "report"}
        /\ agents[a].batch \in SUBSET Entry
        /\ agents[a].cur \in {None} \cup Entry
        /\ agents[a].res \in {None} \cup Result
  BY DEF Shape, AgentsOK, AgentType
<1>6. QED BY <1>1, <1>2, <1>3, <1>4, <1>5 DEF TypeOK

LEMMA RowFields ==
    ASSUME NEW x \in CommandType
    PROVE  /\ x.attempts \in Nat /\ x.token \in Nat /\ x.err \in Errors \cup {None}
           /\ x.status \in {"pending", "leased", "applied", "failed"}
BY DEF CommandType

LEMMA OneColumn ==
    ASSUME NEW x \in CommandType
    PROVE  /\ \A v \in {"pending", "leased", "applied", "failed"} :
                 [x EXCEPT !.status = v] \in CommandType
           /\ \A v \in Nat : [x EXCEPT !.attempts = v] \in CommandType
           /\ \A v \in Nat : [x EXCEPT !.token = v] \in CommandType
           /\ \A v \in BOOLEAN : [x EXCEPT !.live = v] \in CommandType
           /\ \A v \in BOOLEAN : [x EXCEPT !.cleared = v] \in CommandType
           /\ \A v \in Errors \cup {None} : [x EXCEPT !.err = v] \in CommandType
BY DEF CommandType

LEMMA LeasedMoves ==
    ASSUME NEW x, RowOK(x), x.status \in {"pending", "leased"}
    PROVE  /\ Moves(x, Leased(x))
           /\ Leased(x).attempts = x.attempts + 1 /\ Leased(x).token = x.attempts + 1
<1>1. x \in CommandType BY DEF RowOK
<1>2. Leased(x) \in CommandType
  <2>1. x.attempts + 1 \in Nat BY <1>1, RowFields
  <2>2. [x EXCEPT !.status = "leased"] \in CommandType BY <1>1, OneColumn
  <2>3. [[x EXCEPT !.status = "leased"] EXCEPT !.attempts = x.attempts + 1] \in CommandType
    BY <2>1, <2>2, OneColumn
  <2>4. [[[x EXCEPT !.status = "leased"] EXCEPT !.attempts = x.attempts + 1]
            EXCEPT !.token = x.attempts + 1] \in CommandType
    BY <2>1, <2>3, OneColumn
  <2>5. QED BY <2>4, OneColumn DEF Leased
<1>3. /\ Leased(x).attempts = x.attempts + 1 /\ Leased(x).token = x.attempts + 1
      /\ Leased(x).status = "leased" /\ Leased(x).err = x.err
  BY <1>1 DEF CommandType, Leased
<1>4. x.attempts \in Nat BY <1>1, RowFields
<1>5. RowOK(Leased(x)) BY <1>2, <1>3, <1>4 DEF RowOK
<1>6. QED BY <1>3, <1>4, <1>5 DEF Moves, Reported

LEMMA QuarantinedMoves ==
    ASSUME NEW x, RowOK(x)
    PROVE  Moves(x, Quarantined(x))
<1>1. x \in CommandType BY DEF RowOK
<1>2. Quarantined(x) \in CommandType
  <2>1. x.attempts + 1 \in Nat /\ "command_payload_invalid" \in Errors
    BY <1>1, RowFields DEF Errors
  <2>2. [x EXCEPT !.status = "failed"] \in CommandType BY <1>1, OneColumn
  <2>3. [[x EXCEPT !.status = "failed"] EXCEPT !.attempts = x.attempts + 1] \in CommandType
    BY <2>1, <2>2, OneColumn
  <2>4. [[[[[x EXCEPT !.status = "failed"] EXCEPT !.attempts = x.attempts + 1]
            EXCEPT !.token = 0] EXCEPT !.live = FALSE] EXCEPT !.cleared = TRUE] \in CommandType
    BY <2>3, OneColumn
  <2>5. QED BY <2>1, <2>4, OneColumn DEF Quarantined
<1>3. /\ Quarantined(x).attempts = x.attempts + 1 /\ Quarantined(x).token = 0
      /\ Quarantined(x).status = "failed" /\ Quarantined(x).err = "command_payload_invalid"
      /\ Quarantined(x).live = FALSE
  BY <1>1 DEF CommandType, Quarantined
<1>4. x.attempts \in Nat BY <1>1, RowFields
<1>5. "command_payload_invalid" # None BY RepliesAssumption DEF Errors
<1>6. RowOK(Quarantined(x)) BY <1>2, <1>3, <1>5 DEF RowOK
<1>7. QED BY <1>3, <1>4, <1>6 DEF Moves, Reported

LEMMA RetriedMoves ==
    ASSUME NEW x, RowOK(x)
    PROVE  Moves(x, Retried(x))
<1>1. x \in CommandType BY DEF RowOK
<1>2. Retried(x) \in CommandType BY <1>1 DEF CommandType, Retried
<1>3. /\ Retried(x).attempts = x.attempts /\ Retried(x).token = 0
      /\ Retried(x).status = "pending" /\ Retried(x).err = None /\ Retried(x).live = FALSE
  BY <1>1 DEF CommandType, Retried
<1>4. x.attempts \in Nat BY <1>1, RowFields
<1>5. RowOK(Retried(x)) BY <1>2, <1>3 DEF RowOK
<1>6. QED BY <1>3, <1>4, <1>5 DEF Moves, Reported

(* Only columns outside the protocol change, or the lease runs out.          *)
LEMMA SameMoves ==
    ASSUME NEW x, RowOK(x), NEW y \in CommandType,
           y.attempts = x.attempts, y.token = x.token, y.status = x.status,
           y.err = x.err, y.message = x.message, y.live \in {x.live, FALSE}
    PROVE  Moves(x, y)
<1>1. x.attempts \in Nat BY RowFields DEF RowOK
<1>2. RowOK(y) BY DEF RowOK
<1>3. QED BY <1>1, <1>2 DEF Moves, Reported

LEMMA StaysMoves ==
    ASSUME NEW x, RowOK(x)
    PROVE  /\ Moves(x, x)
           /\ Moves(x, [x EXCEPT !.damaged = TRUE])
           /\ Moves(x, [x EXCEPT !.live = FALSE])
           /\ Moves(x, [x EXCEPT !.cleared = TRUE])
<1>1. x \in CommandType BY DEF RowOK
<1>2. Moves(x, x) BY <1>1, SameMoves
<1>3. Moves(x, [x EXCEPT !.damaged = TRUE])
  <2>1. [x EXCEPT !.damaged = TRUE] \in CommandType BY <1>1 DEF CommandType
  <2>2. QED BY <1>1, <2>1, SameMoves DEF CommandType
<1>4. Moves(x, [x EXCEPT !.live = FALSE])
  <2>1. [x EXCEPT !.live = FALSE] \in CommandType BY <1>1 DEF CommandType
  <2>2. QED BY <1>1, <2>1, SameMoves DEF CommandType
<1>5. Moves(x, [x EXCEPT !.cleared = TRUE])
  <2>1. [x EXCEPT !.cleared = TRUE] \in CommandType BY <1>1 DEF CommandType
  <2>2. QED BY <1>1, <2>1, SameMoves DEF CommandType
<1>6. QED BY <1>2, <1>3, <1>4, <1>5

LEMMA NewRowOK ==
    ASSUME NEW t \in Texts, NEW ui \in BOOLEAN
    PROVE  RowOK(NewCommand(t, ui)) /\ NewCommand(t, ui).status = "pending"
BY DEF RowOK, CommandType, NewCommand

LEMMA AcknowledgedOK ==
    ASSUME NEW x, RowOK(x), NEW res \in Result, x.status # "pending"
    PROVE  /\ RowOK(Acknowledged(x, res))
           /\ Acknowledged(x, res).attempts = x.attempts
           /\ Acknowledged(x, res).token = x.token
           /\ Acknowledged(x, res).status = IF res.err = None THEN "applied" ELSE "failed"
           /\ Acknowledged(x, res).err = res.err
           /\ Acknowledged(x, res).message = res.message
BY DEF RowOK, CommandType, Acknowledged, Result

------------------------------------------------------------------------------
(* Steps in which rows move and agents start, stop or wait.                  *)

RowsMove ==
    /\ Known \subseteq Known'
    /\ \A c \in Known : Moves(cmds[c], cmds'[c])
    /\ \A c \in Known' \ Known : cmds'[c].status = "pending"
Quiet(a) == agents'[a] = agents[a] \/ agents'[a].pc \in {"idle", "next", "waiting"}

LEMMA FoundKept ==
    ASSUME ticket' = ticket, NEW c
    PROVE  Found(c)' = Found(c)
BY DEF Found

LEMMA EntryFields ==
    ASSUME NEW e \in Entry
    PROVE  e.cmd \in Commands /\ e.token \in Nat
BY DEF Entry

LEMMA Belongs ==
    ASSUME AgentsOK, TokensIssued, NEW a \in Agents, agents[a].pc \in Busy
    PROVE  /\ agents[a].cur \in Mine(a) /\ agents[a].cur \in Entry
           /\ Current(a) \in Known
           /\ agents[a].cur.token \in 1..cmds[Current(a)].attempts
BY DEF AgentsOK, TokensIssued, Mine, Current

(* The report of b in the next state, without primes on Current.             *)
ReportHolds(b, c) ==
    /\ agents'[b].res.err = None => agents'[b].res.message \in Found(c)'
    /\ agents'[b].res.err # None /\ agents'[b].cur.token = cmds'[c].token => Untouched(c)'

LEMMA ReportsPrimed ==
    ASSUME \A b \in Agents : \A c :
               agents'[b].pc = "report" /\ c = agents'[b].cur.cmd => ReportHolds(b, c)
    PROVE  ReportsTrue'
BY DEF ReportsTrue, ReportHolds, Current, Found, Untouched, Writing

LEMMA QuietSafe ==
    ASSUME Shape, Safe, RowsMove, ticket' = ticket, \A a \in Agents : Quiet(a)
    PROVE  OneWriter' /\ ReportsTrue' /\ RecordsTrue' /\ OneMessagePerCommand'
<1>1. ASSUME NEW a \in Agents, agents'[a].pc \in {"writing", "report"}
      PROVE  agents'[a] = agents[a]
  BY <1>1 DEF Quiet
<1>2. ASSUME NEW c, Untouched(c)
      PROVE  Untouched(c)'
  BY <1>1, <1>2, FoundKept DEF Untouched, Writing
<1>3. OneWriter'
  <2>1. \A a \in Agents : agents'[a].pc = "writing" => agents'[a] = agents[a] BY <1>1
  <2>2. OneWriter BY DEF Safe
  <2>3. QED BY <2>1, <2>2 DEF OneWriter, Writing, Current, Found
<1>4. ReportsTrue'
  <2>1. SUFFICES ASSUME NEW a \in Agents, agents'[a].pc = "report",
                        NEW c, c = agents'[a].cur.cmd
                 PROVE  ReportHolds(a, c)
    BY ReportsPrimed
  <2>2. agents'[a] = agents[a] /\ c = Current(a)
    BY <1>1, <2>1 DEF Current
  <2>3. c \in Known /\ agents[a].cur.token \in 1..cmds[c].attempts
    BY <2>1, <2>2, Belongs DEF Shape, Safe, Busy
  <2>4. agents[a].res.err = None => agents[a].res.message \in Found(c)
    BY <2>1, <2>2 DEF ReportsTrue, Safe
  <2>5. ASSUME agents[a].res.err # None, agents[a].cur.token = cmds'[c].token
        PROVE  Untouched(c)'
    <3>1. Moves(cmds[c], cmds'[c]) BY <2>3 DEF RowsMove
    <3>2. cmds[c].attempts \in Nat BY <2>3, RowsAreOK, RowFields DEF RowOK
    <3>3. agents[a].cur.token = cmds[c].token
      BY <2>3, <2>5, <3>1, <3>2 DEF Moves
    <3>4. Untouched(c) BY <2>1, <2>2, <2>5, <3>3 DEF ReportsTrue, Safe
    <3>5. QED BY <1>2, <3>4
  <2>6. Found(c)' = Found(c) BY FoundKept
  <2>7. QED BY <2>2, <2>4, <2>5, <2>6 DEF ReportHolds
<1>5. RecordsTrue'
  <2>1. SUFFICES ASSUME NEW c \in Known'
                 PROVE  /\ cmds'[c].status = "applied" => cmds'[c].message \in Found(c)'
                        /\ Reported(cmds'[c]) => Untouched(c)'
    BY DEF RecordsTrue
  <2>2. CASE c \in Known
    <3>1. Moves(cmds[c], cmds'[c]) BY <2>2 DEF RowsMove
    <3>2. /\ cmds[c].status = "applied" => cmds[c].message \in Found(c)
          /\ Reported(cmds[c]) => Untouched(c)
      BY <2>2 DEF RecordsTrue, Safe
    <3>3. QED BY <1>2, <3>1, <3>2, FoundKept DEF Moves
  <2>3. CASE c \notin Known
    BY <2>1, <2>3 DEF RowsMove, Reported
  <2>4. QED BY <2>2, <2>3
<1>6. OneMessagePerCommand'
  BY DEF OneMessagePerCommand, Safe
<1>7. QED BY <1>3, <1>4, <1>5, <1>6

LEMMA TokensKept ==
    ASSUME Shape, Safe,
           Known \subseteq Known',
           \A c \in Known : cmds'[c].attempts \in Nat /\ cmds[c].attempts <= cmds'[c].attempts,
           \A a \in Agents : Mine(a)' \subseteq Mine(a)
    PROVE  TokensIssued' /\ LeasesApart'
<1>1. TokensIssued'
  <2>1. SUFFICES ASSUME NEW a \in Agents, NEW e \in Mine(a)'
                 PROVE  e.cmd \in Known' /\ e.token \in 1..cmds'[e.cmd].attempts
    BY DEF TokensIssued
  <2>2. e.cmd \in Known /\ e.token \in 1..cmds[e.cmd].attempts
    BY DEF TokensIssued, Safe
  <2>3. cmds[e.cmd].attempts \in Nat BY <2>2, RowsAreOK, RowFields DEF RowOK
  <2>4. QED BY <2>2, <2>3
<1>2. LeasesApart'
  BY DEF LeasesApart, Safe
<1>3. QED BY <1>1, <1>2

------------------------------------------------------------------------------
(* The shape of the next state.                                              *)

LEMMA OneRow ==
    ASSUME Shape, NEW c \in Known, NEW y, RowOK(y), cmds' = [cmds EXCEPT ![c] = y]
    PROVE  /\ RowsOK' /\ Known' = Known /\ Len(cmds') = Len(cmds)
           /\ cmds'[c] = y /\ \A d \in Known \ {c} : cmds'[d] = cmds[d]
<1>1. cmds \in Seq(CommandType) /\ Len(cmds) <= MaxCommands /\ y \in CommandType
  BY DEF Shape, RowsOK, RowOK
<1>2. /\ cmds' \in Seq(CommandType) /\ Len(cmds') = Len(cmds) /\ Known' = Known
  BY <1>1, LenProperties, ExceptSeq DEF Known
<1>3. cmds'[c] = y /\ \A d \in Known \ {c} : cmds'[d] = cmds[d]
  BY DEF Known
<1>4. \A d \in Known : RowOK(cmds'[d]) BY <1>3 DEF Shape, RowsOK
<1>5. QED BY <1>1, <1>2, <1>3, <1>4 DEF RowsOK

LEMMA OneRowMoves ==
    ASSUME Shape, NEW c \in Known, NEW y, Moves(cmds[c], y), cmds' = [cmds EXCEPT ![c] = y]
    PROVE  RowsOK' /\ RowsMove
<1>1. RowOK(y) BY DEF Moves
<1>2. \A d \in Known : Moves(cmds[d], cmds'[d])
  BY <1>1, OneRow, RowsAreOK, StaysMoves
<1>3. QED BY <1>1, <1>2, OneRow DEF RowsMove

LEMMA NewRowMoves ==
    ASSUME Shape, NEW t \in Texts, NEW ui \in BOOLEAN, Len(cmds) < MaxCommands,
           cmds' = Append(cmds, NewCommand(t, ui))
    PROVE  RowsOK' /\ RowsMove /\ Len(cmds') = Len(cmds) + 1
<1>1. /\ cmds \in Seq(CommandType) /\ MaxCommands \in Nat /\ Len(cmds) \in Nat
      /\ Known = 1..Len(cmds)
  BY RepliesAssumption, LenProperties DEF Shape, RowsOK, Known
<1>2. RowOK(NewCommand(t, ui)) /\ NewCommand(t, ui).status = "pending"
  BY NewRowOK
<1>3. NewCommand(t, ui) \in CommandType BY <1>2 DEF RowOK
<1>4. /\ cmds' \in Seq(CommandType) /\ Len(cmds') = Len(cmds) + 1
      /\ \A d \in 1..Len(cmds) : cmds'[d] = cmds[d]
      /\ cmds'[Len(cmds) + 1] = NewCommand(t, ui)
  BY <1>1, <1>3, AppendProperties
<1>5. Known' = 1..(Len(cmds) + 1) BY <1>4, LenProperties DEF Known
<1>6. \A d \in Known : cmds'[d] = cmds[d] /\ RowOK(cmds[d])
  BY <1>1, <1>4, RowsAreOK
<1>7. RowsOK'
  <2>1. \A d \in Known' : d \in Known \/ d = Len(cmds) + 1 BY <1>1, <1>5
  <2>2. \A d \in Known' : RowOK(cmds'[d]) BY <1>2, <1>4, <1>6, <2>1
  <2>3. Len(cmds') <= MaxCommands BY <1>1, <1>4
  <2>4. QED BY <1>4, <2>2, <2>3 DEF RowsOK
<1>8. RowsMove
  <2>1. \A d \in Known : Moves(cmds[d], cmds'[d]) BY <1>6, StaysMoves
  <2>2. Known \subseteq Known' /\ \A d \in Known' \ Known : d = Len(cmds) + 1
    BY <1>1, <1>5
  <2>3. QED BY <1>2, <1>4, <2>1, <2>2 DEF RowsMove
<1>9. QED BY <1>4, <1>7, <1>8

LEMMA SameRows ==
    ASSUME Shape, cmds' = cmds
    PROVE  RowsOK' /\ RowsMove
<1>1. RowsOK' BY DEF Shape, RowsOK, Known
<1>2. \A c \in Known : Moves(cmds[c], cmds'[c]) BY RowsAreOK, StaysMoves
<1>3. QED BY <1>1, <1>2 DEF RowsMove, Known

LEMMA OneAgent ==
    ASSUME AgentsOK, NEW a \in Agents, NEW v \in AgentType,
           v.pc \in Busy => v.cur \in Entry, v.pc = "report" => v.res \in Result,
           agents' = [agents EXCEPT ![a] = v]
    PROVE  AgentsOK' /\ agents'[a] = v /\ \A b \in Agents \ {a} : agents'[b] = agents[b]
BY DEF AgentsOK

LEMMA IdleIsAgent ==
    IdleAgent \in AgentType /\ IdleAgent.pc = "idle" /\ IdleAgent.batch = {}
BY DEF IdleAgent, AgentType

LEMMA BoundsKept ==
    ASSUME BoundsOK, Fault \/ NoFault
    PROVE  BoundsOK'
<1>1. MaxFaults \in Nat BY RepliesAssumption
<1>2. QED BY <1>1 DEF BoundsOK, Fault, NoFault, bounds

(* A step that moves rows and leaves agents and ticket alone.                *)
LEMMA RowStepSafe ==
    ASSUME Shape, Safe, RowsMove, agents' = agents, ticket' = ticket
    PROVE  Safe'
<1>1. OneWriter' /\ ReportsTrue' /\ RecordsTrue' /\ OneMessagePerCommand'
  BY QuietSafe DEF Quiet
<1>2. \A c \in Known : cmds'[c].attempts \in Nat /\ cmds[c].attempts <= cmds'[c].attempts
  BY RowFields DEF RowsMove, Moves, RowOK
<1>3. \A a \in Agents : Mine(a)' = Mine(a) BY DEF Mine
<1>4. TokensIssued' /\ LeasesApart' BY <1>2, <1>3, TokensKept DEF RowsMove
<1>5. QED BY <1>1, <1>4 DEF Safe

------------------------------------------------------------------------------
(* The operator, time and damage.                                            *)

LEMMA RowStep ==
    ASSUME IInv, RowsOK', RowsMove, agents' = agents, ticket' = ticket, CollectorOK', RestOK'
    PROVE  IInv'
<1>1. Safe' BY RowStepSafe DEF IInv
<1>2. AgentsOK' BY DEF AgentsOK, IInv, Shape
<1>3. QED BY <1>1, <1>2 DEF IInv, Shape

LEMMA CollectorKept ==
    ASSUME CollectorOK, col' = col, Known \subseteq Known'
    PROVE  CollectorOK'
BY DEF CollectorOK

LEMMA RestKept ==
    ASSUME RestOK, Fault \/ NoFault, UNCHANGED <<empty, card, ticket, wanted>>
    PROVE  RestOK'
BY BoundsKept DEF RestOK

LEMMA CreateUiReplyStep ==
    ASSUME IInv, NEW t \in ReplyTexts, create_ui_reply(t)
    PROVE  IInv'
<1>1. t \in Texts BY RepliesAssumption
<1>2. RowsOK' /\ RowsMove BY <1>1, NewRowMoves DEF create_ui_reply, IInv
<1>3. CollectorOK' BY <1>2, CollectorKept DEF create_ui_reply, IInv, Shape, RowsMove
<1>4. RestOK' BY RestKept DEF create_ui_reply, IInv, Shape
<1>5. QED BY <1>2, <1>3, <1>4, RowStep DEF create_ui_reply

LEMMA RetryStep ==
    ASSUME IInv, NEW c \in Known, retry_ui_command(c)
    PROVE  IInv'
<1>1. cmds' = [cmds EXCEPT ![c] = Retried(cmds[c])] BY DEF retry_ui_command
<1>2. Moves(cmds[c], Retried(cmds[c])) BY RowsAreOK, RetriedMoves DEF IInv
<1>3. RowsOK' /\ RowsMove BY <1>1, <1>2, OneRowMoves DEF IInv
<1>4. CollectorOK' BY <1>3, CollectorKept DEF retry_ui_command, IInv, Shape, RowsMove
<1>5. RestOK'
  <2>1. MaxRetries \in Nat BY RepliesAssumption
  <2>2. retries' \in 0..MaxRetries
    BY <2>1 DEF retry_ui_command, IInv, Shape, RestOK, BoundsOK
  <2>3. QED BY <2>2 DEF retry_ui_command, IInv, Shape, RestOK, BoundsOK
<1>6. QED BY <1>3, <1>4, <1>5, RowStep DEF retry_ui_command

LEMMA DamageStep ==
    ASSUME IInv, NEW c \in Known, Damage(c)
    PROVE  IInv'
<1>1. cmds' = [cmds EXCEPT ![c] = [cmds[c] EXCEPT !.damaged = TRUE]] BY DEF Damage
<1>2. RowsOK' /\ RowsMove BY <1>1, RowsAreOK, StaysMoves, OneRowMoves DEF IInv
<1>3. CollectorOK' BY <1>2, CollectorKept DEF Damage, IInv, Shape, RowsMove
<1>4. RestOK' BY RestKept DEF Damage, IInv, Shape
<1>5. QED BY <1>2, <1>3, <1>4, RowStep DEF Damage

LEMMA LeaseStep ==
    ASSUME IInv, NEW c \in Known, LeaseRunsOut(c)
    PROVE  IInv'
<1>1. cmds' = [cmds EXCEPT ![c] = [cmds[c] EXCEPT !.live = FALSE]] BY DEF LeaseRunsOut
<1>2. RowsOK' /\ RowsMove BY <1>1, RowsAreOK, StaysMoves, OneRowMoves DEF IInv
<1>3. CollectorOK' BY <1>2, CollectorKept DEF LeaseRunsOut, IInv, Shape, RowsMove
<1>4. Fault \/ NoFault BY DEF LeaseRunsOut, FaultIf
<1>5. RestOK' BY <1>4, RestKept DEF LeaseRunsOut, IInv, Shape
<1>6. QED BY <1>2, <1>3, <1>5, RowStep DEF LeaseRunsOut

LEMMA SaveCardStep ==
    ASSUME IInv, NEW t \in Texts, NEW pressed \in BOOLEAN, SaveCard(t, pressed)
    PROVE  IInv'
<1>1. RowsOK' /\ RowsMove BY SameRows DEF SaveCard, IInv
<1>2. CollectorOK' BY <1>1, CollectorKept DEF SaveCard, IInv, Shape, RowsMove
<1>3. RestOK'
  <2>1. saves' \in 0..MaxSaves
    BY RepliesAssumption DEF SaveCard, IInv, Shape, RestOK, BoundsOK
  <2>2. card' \in CardType BY DEF SaveCard, CardType, IInv, Shape, RestOK
  <2>3. wanted' \in Texts \cup {None} BY DEF SaveCard
  <2>4. QED BY <2>1, <2>2, <2>3 DEF SaveCard, IInv, Shape, RestOK, BoundsOK
<1>4. QED BY <1>1, <1>2, <1>3, RowStep DEF SaveCard

------------------------------------------------------------------------------
(* The collector: it moves rows, and its own state keeps its shape.          *)

LEMMA ClearedMoves ==
    ASSUME Shape, col.cmd \in Known, cmds' = Cleared
    PROVE  RowsOK' /\ RowsMove /\ Known' = Known
<1>1. cmds' = [cmds EXCEPT ![col.cmd] = [cmds[col.cmd] EXCEPT !.cleared = TRUE]]
  BY DEF Cleared
<1>2. Moves(cmds[col.cmd], [cmds[col.cmd] EXCEPT !.cleared = TRUE]) BY RowsAreOK, StaysMoves
<1>3. RowOK([cmds[col.cmd] EXCEPT !.cleared = TRUE]) BY <1>2 DEF Moves
<1>4. QED BY <1>1, <1>2, <1>3, OneRow, OneRowMoves

LEMMA ShownTypes ==
    ASSUME NEW c
    PROVE  Shown(c) \in CardStatuses
BY DEF Shown, CardStatuses

LEMMA KnownRange ==
    ASSUME Shape
    PROVE  /\ Known \subseteq 0..MaxCommands /\ Known \subseteq Commands
           /\ Known = 1..Len(cmds) /\ Len(cmds) \in Nat
BY RepliesAssumption, LenProperties DEF Shape, RowsOK, Known, Commands

(* A row's text is one of Texts.                                             *)
LEMMA TextTypes ==
    ASSUME Shape, NEW c \in Known
    PROVE  cmds[c].text \in Texts
BY RowsAreOK DEF RowOK, CommandType

LEMMA CollectorGoes ==
    ASSUME Shape, NEW pc, NEW c, NEW seen, Goes(pc, c, seen), Known \subseteq Known',
           \/ pc = "clear" /\ c \in Known /\ seen \in CardStatuses
           \/ pc = "report" /\ c \in Known /\ seen \in CardStatuses
           \/ pc = "restore" /\ c \in Known \cup {0} /\ seen \in Texts \cup {None}
           \/ pc = "refuse" /\ c = 0 /\ seen = None
    PROVE  CollectorOK'
<1>1. c \in 0..MaxCommands BY RepliesAssumption, KnownRange
<1>2. col' = [pc |-> pc, cmd |-> c, seen |-> seen, was |-> FALSE] BY DEF Goes
<1>3. col' \in CollectorType BY <1>1, <1>2 DEF CollectorType
<1>4. QED BY <1>2, <1>3 DEF CollectorOK

LEMMA CollectorIdle ==
    ASSUME col' = IdleCollector
    PROVE  CollectorOK'
BY RepliesAssumption DEF IdleCollector, CollectorOK, CollectorType

LEMMA CollectorReads ==
    ASSUME Shape, NEW c \in Known, ReadAgain(c), Known \subseteq Known'
    PROVE  CollectorOK'
<1>1. Shown(c) \in CardStatuses BY ShownTypes
<1>2. card.text \in Texts \cup {None} BY DEF Shape, RestOK, CardType
<1>3. Goes("clear", c, Shown(c)) \/ Goes("restore", c, card.text) BY DEF ReadAgain
<1>4. CASE Goes("clear", c, Shown(c)) BY <1>1, <1>4, CollectorGoes
<1>5. CASE Goes("restore", c, card.text) BY <1>2, <1>5, CollectorGoes
<1>6. QED BY <1>3, <1>4, <1>5

LEMMA CreateCommandStep ==
    ASSUME IInv, create_command, NoFault, UNCHANGED <<card, agents, ticket>>
    PROVE  IInv'
<1>1. card.text \in Texts
  BY DEF create_command, IInv, Shape, RestOK, CardType
<1>2. RestOK'
  <2>1. wanted' \in Texts \cup {None} /\ empty' \in BOOLEAN
    BY DEF create_command, IInv, Shape, RestOK
  <2>2. BoundsOK' BY BoundsKept DEF IInv, Shape, RestOK
  <2>3. QED BY <2>1, <2>2 DEF IInv, Shape, RestOK
<1>3. RowsOK' /\ RowsMove /\ CollectorOK'
  <2>1. CASE \E c \in Known :
                /\ StandsFor(c, card.text)
                /\ UNCHANGED cmds
                /\ Created(c, cmds[c].cleared)
    <3>1. PICK c \in Known : UNCHANGED cmds /\ Created(c, cmds[c].cleared) BY <2>1
    <3>2. RowsOK' /\ RowsMove BY <3>1, SameRows DEF IInv
    <3>3. cmds[c].cleared \in BOOLEAN /\ c \in 0..MaxCommands
      BY RowsAreOK, KnownRange DEF IInv, RowOK, CommandType
    <3>4. col' = [pc |-> "created", cmd |-> c, seen |-> None, was |-> cmds[c].cleared]
      BY <3>1 DEF Created
    <3>5. col' \in CollectorType BY <3>3, <3>4 DEF CollectorType
    <3>6. CollectorOK' BY <3>2, <3>4, <3>5 DEF CollectorOK, RowsMove
    <3>7. QED BY <3>2, <3>6
  <2>2. CASE /\ Len(cmds) < MaxCommands
             /\ cmds' = Append(cmds, NewCommand(card.text, FALSE))
             /\ Created(Len(cmds) + 1, FALSE)
    <3>1. RowsOK' /\ RowsMove /\ Len(cmds') = Len(cmds) + 1
      BY <1>1, <2>2, NewRowMoves DEF IInv
    <3>2. Len(cmds) + 1 \in 0..MaxCommands
      BY <2>2, RepliesAssumption, KnownRange DEF IInv
    <3>3. Len(cmds) + 1 \in Known'
      <4>1. cmds' \in Seq(CommandType) BY <3>1 DEF RowsOK
      <4>2. Known' = 1..Len(cmds') BY <4>1, LenProperties DEF Known
      <4>3. QED BY <3>1, <4>2, KnownRange DEF IInv
    <3>4. col' = [pc |-> "created", cmd |-> Len(cmds) + 1, seen |-> None, was |-> FALSE]
      BY <2>2 DEF Created
    <3>5. col' \in CollectorType BY <3>2, <3>4 DEF CollectorType
    <3>6. CollectorOK' BY <3>3, <3>4, <3>5 DEF CollectorOK
    <3>7. QED BY <3>1, <3>6
  <2>3. QED BY <2>1, <2>2 DEF create_command
<1>4. QED BY <1>2, <1>3, RowStep

LEMMA CollectCaseStep ==
    ASSUME IInv, collect_case
    PROVE  IInv'
<1>1. NoFault /\ UNCHANGED <<card, agents, ticket>> BY DEF collect_case
<1>2. CASE create_command BY <1>1, <1>2, CreateCommandStep
<1>3. CASE report_terminal \/ refuse_empty \/ resume_uncleared
  <2>1. UNCHANGED <<cmds, empty, wanted>>
    BY <1>3 DEF report_terminal, refuse_empty, resume_uncleared
  <2>2. RowsOK' /\ RowsMove BY <2>1, SameRows DEF IInv
  <2>3. Known \subseteq Known' BY <2>2 DEF RowsMove
  <2>4. RestOK' BY <1>1, <2>1, RestKept DEF IInv, Shape
  <2>5. CASE report_terminal
    <3>1. Latest \in Known
      <4>1. cmds # <<>> /\ cmds \in Seq(CommandType)
        BY <2>5 DEF report_terminal, IInv, Shape, RowsOK
      <4>2. Len(cmds) # 0 BY <4>1, EmptySeq
      <4>3. QED BY <4>2, KnownRange DEF IInv, Latest
    <3>2. Shown(Latest) \in CardStatuses BY ShownTypes
    <3>3. Goes("report", Latest, Shown(Latest)) BY <2>5 DEF report_terminal
    <3>4. CollectorOK' BY <2>3, <3>1, <3>2, <3>3, CollectorGoes DEF IInv
    <3>5. QED BY <1>1, <2>2, <2>4, <3>4, RowStep
  <2>6. CASE refuse_empty
    <3>1. Goes("refuse", 0, None) BY <2>6 DEF refuse_empty
    <3>2. CollectorOK' BY <2>3, <3>1, CollectorGoes DEF IInv
    <3>3. QED BY <1>1, <2>2, <2>4, <3>2, RowStep
  <2>7. CASE resume_uncleared
    <3>1. PICK c \in Known : ReadAgain(c) BY <2>7 DEF resume_uncleared, Uncleared
    <3>2. CollectorOK' BY <2>3, <3>1, CollectorReads DEF IInv
    <3>3. QED BY <1>1, <2>2, <2>4, <3>2, RowStep
  <2>8. QED BY <1>3, <2>5, <2>6, <2>7
<1>4. QED BY <1>2, <1>3 DEF collect_case

LEMMA RelockStep ==
    ASSUME IInv, relock_case
    PROVE  IInv'
<1>1. RowsOK' /\ RowsMove BY SameRows DEF relock_case, IInv
<1>2. RestOK' BY RestKept DEF relock_case, IInv, Shape
<1>3. col.cmd \in Known BY DEF relock_case, IInv, Shape, CollectorOK
<1>4. CollectorOK'
  <2>1. col' = IdleCollector \/ ReadAgain(col.cmd) BY DEF relock_case
  <2>2. Known \subseteq Known' BY <1>1 DEF RowsMove
  <2>3. QED BY <1>3, <2>1, <2>2, CollectorIdle, CollectorReads DEF IInv
<1>5. QED BY <1>1, <1>2, <1>4, RowStep DEF relock_case

(* What the calls of the collector make of the card.                         *)
LEMMA CardTypes ==
    ASSUME NEW x \in CardType
    PROVE  /\ \A v \in CardStatuses : [x EXCEPT !.status = v] \in CardType
           /\ \A v \in CardStatuses : [x EXCEPT !.send = FALSE, !.status = v] \in CardType
           /\ [x EXCEPT !.send = TRUE, !.status = "pending"] \in CardType
BY DEF CardType, CardStatuses

LEMMA RestWithCard ==
    ASSUME RestOK, Fault \/ NoFault, card' \in CardType, empty' \in BOOLEAN,
           wanted' \in {wanted, None}, ticket' = ticket
    PROVE  RestOK'
BY BoundsKept DEF RestOK

LEMMA ClearStep ==
    ASSUME IInv, clear_action
    PROVE  IInv'
<1>1. col.cmd \in Known /\ col.seen \in CardStatuses
  BY DEF clear_action, IInv, Shape, CollectorOK
<1>2. RestOK'
  <2>1. card \in CardType BY DEF IInv, Shape, RestOK
  <2>2. card' \in CardType BY <1>1, <2>1, CardTypes DEF clear_action
  <2>3. wanted' \in {wanted, None} /\ empty' = empty /\ ticket' = ticket /\ NoFault
    BY DEF clear_action, Answered
  <2>4. empty' \in BOOLEAN BY <2>3 DEF IInv, Shape, RestOK
  <2>5. QED BY <2>2, <2>3, <2>4, RestWithCard DEF IInv, Shape
<1>3. agents' = agents /\ ticket' = ticket BY DEF clear_action
<1>4. CASE cmds' = Cleared /\ col' = IdleCollector
  <2>1. RowsOK' /\ RowsMove BY <1>1, <1>4, ClearedMoves DEF IInv
  <2>2. CollectorOK' BY <1>4, CollectorIdle
  <2>3. QED BY <1>2, <1>3, <2>1, <2>2, RowStep
<1>5. CASE cmds' = cmds /\ Goes("restore", col.cmd, card.text)
  <2>1. RowsOK' /\ RowsMove BY <1>5, SameRows DEF IInv
  <2>2. card.text \in Texts \cup {None} BY DEF IInv, Shape, RestOK, CardType
  <2>3. CollectorOK' BY <1>1, <1>5, <2>1, <2>2, CollectorGoes DEF IInv, RowsMove
  <2>4. QED BY <1>2, <1>3, <2>1, <2>3, RowStep
<1>6. QED BY <1>4, <1>5 DEF clear_action

LEMMA RestoreStep ==
    ASSUME IInv, restore_send
    PROVE  IInv'
<1>1. col.cmd \in Known \cup {0} BY DEF restore_send, IInv, Shape, CollectorOK
<1>2. RestOK'
  <2>1. card \in CardType BY DEF IInv, Shape, RestOK
  <2>2. card' \in CardType BY <2>1, CardTypes DEF restore_send
  <2>3. wanted' = wanted /\ empty' = empty /\ ticket' = ticket /\ NoFault
    BY DEF restore_send
  <2>4. empty' \in BOOLEAN BY <2>3 DEF IInv, Shape, RestOK
  <2>5. QED BY <2>2, <2>3, <2>4, RestWithCard DEF IInv, Shape
<1>3. RowsOK' /\ RowsMove
  <2>1. cmds' = cmds \/ (cmds' = Cleared /\ col.cmd # 0) BY DEF restore_send
  <2>2. QED BY <1>1, <2>1, SameRows, ClearedMoves DEF IInv
<1>4. CollectorOK' BY CollectorIdle DEF restore_send
<1>5. QED BY <1>2, <1>3, <1>4, RowStep DEF restore_send

LEMMA WriteStatusStep ==
    ASSUME IInv, write_status
    PROVE  IInv'
<1>1. RowsOK' /\ RowsMove BY SameRows DEF write_status, IInv
<1>2. RestOK'
  <2>1. col.seen \in CardStatuses BY DEF write_status, IInv, Shape, CollectorOK
  <2>2. card \in CardType BY DEF IInv, Shape, RestOK
  <2>3. card' \in CardType BY <2>1, <2>2, CardTypes DEF write_status
  <2>4. wanted' = wanted /\ empty' = empty /\ ticket' = ticket /\ NoFault
    BY DEF write_status
  <2>5. empty' \in BOOLEAN BY <2>4 DEF IInv, Shape, RestOK
  <2>6. QED BY <2>3, <2>4, <2>5, RestWithCard DEF IInv, Shape
<1>3. CollectorOK' BY CollectorIdle DEF write_status
<1>4. QED BY <1>1, <1>2, <1>3, RowStep DEF write_status

LEMMA WriteRefusalStep ==
    ASSUME IInv, write_refusal
    PROVE  IInv'
<1>1. RowsOK' /\ RowsMove BY SameRows DEF write_refusal, IInv
<1>2. RestOK'
  <2>1. card \in CardType BY DEF IInv, Shape, RestOK
  <2>2. card' \in CardType BY <2>1, CardTypes DEF write_refusal, CardStatuses
  <2>3. wanted' = wanted /\ empty' \in {empty, TRUE} /\ ticket' = ticket /\ NoFault
    BY DEF write_refusal
  <2>4. empty' \in BOOLEAN BY <2>3 DEF IInv, Shape, RestOK
  <2>5. QED BY <2>2, <2>3, <2>4, RestWithCard DEF IInv, Shape
<1>3. CollectorOK'
  <2>1. col' = IdleCollector \/ Goes("restore", 0, card.text) BY DEF write_refusal
  <2>2. card.text \in Texts \cup {None} BY DEF IInv, Shape, RestOK, CardType
  <2>3. CASE col' = IdleCollector BY <2>3, CollectorIdle
  <2>4. CASE Goes("restore", 0, card.text)
    BY <1>1, <2>2, <2>4, CollectorGoes DEF IInv, RowsMove
  <2>5. QED BY <2>1, <2>3, <2>4
<1>4. QED BY <1>1, <1>2, <1>3, RowStep DEF write_refusal

LEMMA CollectorFailsStep ==
    ASSUME IInv, NEW recorded \in BOOLEAN, NEW written \in BOOLEAN,
           collector_fails(recorded, written)
    PROVE  IInv'
<1>1. RowsOK' /\ RowsMove BY SameRows DEF collector_fails, IInv
<1>2. RestOK'
  <2>1. card \in CardType BY DEF IInv, Shape, RestOK
  <2>2. col.pc \in {"clear", "report"} => col.seen \in CardStatuses
    BY DEF IInv, Shape, CollectorOK
  <2>3. card' \in CardType
    <3>1. "error" \in CardStatuses BY DEF CardStatuses
    <3>2. QED BY <2>1, <2>2, <3>1, CardTypes DEF collector_fails
  <2>4. wanted' \in {wanted, None} /\ empty' \in BOOLEAN /\ ticket' = ticket /\ Fault
    BY DEF collector_fails, Answered, IInv, Shape, RestOK
  <2>5. QED BY <2>3, <2>4, RestWithCard DEF IInv, Shape
<1>3. CollectorOK' BY CollectorIdle DEF collector_fails
<1>4. QED BY <1>1, <1>2, <1>3, RowStep DEF collector_fails

------------------------------------------------------------------------------
(* The agent, where it only waits, stops or looks.                           *)

(* Agent a goes on as v and the rows stay.                                   *)
LEMMA AgentShape ==
    ASSUME IInv, NEW a \in Agents, NEW v \in AgentType,
           v.pc \in Busy => v.cur \in Entry, v.pc = "report" => v.res \in Result,
           agents' = [agents EXCEPT ![a] = v], cmds' = cmds, ticket' = ticket,
           UNCHANGED <<empty, card, col, wanted>>, Fault \/ NoFault
    PROVE  /\ Shape' /\ RowsMove /\ Known' = Known
           /\ agents'[a] = v /\ \A b \in Agents \ {a} : agents'[b] = agents[b]
<1>1. RowsOK' /\ RowsMove BY SameRows DEF IInv
<1>2. CollectorOK' BY <1>1, CollectorKept DEF IInv, Shape, RowsMove
<1>3. RestOK' BY RestKept DEF IInv, Shape
<1>4. /\ AgentsOK' /\ agents'[a] = v /\ \A b \in Agents \ {a} : agents'[b] = agents[b]
  BY OneAgent DEF IInv, Shape
<1>5. QED BY <1>1, <1>2, <1>3, <1>4 DEF Shape, Known

(* What v sees to when an agent goes on as v.                                *)
Sees(v) == v.batch \cup (IF v.pc \in Busy THEN {v.cur} ELSE {})

LEMMA AgentTokens ==
    ASSUME IInv, NEW a \in Agents, NEW v, Sees(v) \subseteq Mine(a), cmds' = cmds,
           agents'[a] = v, \A b \in Agents \ {a} : agents'[b] = agents[b]
    PROVE  TokensIssued' /\ LeasesApart'
<1>1. \A b \in Agents : Mine(b)' \subseteq Mine(b) BY DEF Mine, Sees
<1>2. \A c \in Known : cmds'[c].attempts \in Nat /\ cmds[c].attempts <= cmds'[c].attempts
  BY RowsAreOK, RowFields DEF IInv, RowOK
<1>3. QED BY <1>1, <1>2, TokensKept DEF IInv, Known

LEMMA QuietAgentStep ==
    ASSUME IInv, NEW a \in Agents, NEW v \in AgentType,
           v.pc \in {"idle", "next", "waiting"}, v.pc = "waiting" => v.cur \in Entry,
           Sees(v) \subseteq Mine(a), agents' = [agents EXCEPT ![a] = v],
           cmds' = cmds, ticket' = ticket,
           UNCHANGED <<empty, card, col, wanted>>, Fault \/ NoFault
    PROVE  IInv'
<1>1. /\ Shape' /\ RowsMove /\ agents'[a] = v
      /\ \A b \in Agents \ {a} : agents'[b] = agents[b]
  BY AgentShape DEF Busy
<1>2. TokensIssued' /\ LeasesApart' BY <1>1, AgentTokens
<1>3. \A b \in Agents : Quiet(b) BY <1>1 DEF Quiet
<1>4. OneWriter' /\ ReportsTrue' /\ RecordsTrue' /\ OneMessagePerCommand'
  BY <1>1, <1>3, QuietSafe DEF IInv
<1>5. QED BY <1>1, <1>2, <1>4 DEF IInv, Safe

LEMMA AbortStep ==
    ASSUME IInv, NEW a \in Agents, agents' = Aborted(a), cmds' = cmds, ticket' = ticket,
           UNCHANGED <<empty, card, col, wanted>>, Fault \/ NoFault
    PROVE  IInv'
<1>1. Sees(IdleAgent) = {} BY IdleIsAgent DEF Sees, Busy
<1>2. agents' = [agents EXCEPT ![a] = IdleAgent] BY DEF Aborted
<1>3. QED BY <1>1, <1>2, IdleIsAgent, QuietAgentStep

LEMMA DeliverStep ==
    ASSUME IInv, NEW a \in Agents, deliver_command(a)
    PROVE  IInv'
<1>1. PICK entry \in agents[a].batch :
        agents' = IF RunOut(entry) THEN Aborted(a)
                  ELSE [agents EXCEPT ![a].pc = "waiting", ![a].cur = entry,
                                      ![a].batch = @ \ {entry}]
  BY DEF deliver_command
<1>2. cmds' = cmds /\ ticket' = ticket /\ UNCHANGED <<empty, card, col, wanted>> /\ NoFault
  BY DEF deliver_command
<1>3. CASE RunOut(entry) BY <1>1, <1>2, <1>3, AbortStep
<1>4. CASE ~RunOut(entry)
  <2> DEFINE v == [agents[a] EXCEPT !.pc = "waiting", !.cur = entry, !.batch = @ \ {entry}]
  <2>1. agents[a] \in AgentType /\ agents \in [Agents -> AgentType]
    BY DEF IInv, Shape, AgentsOK
  <2>2. agents' = [agents EXCEPT ![a] = v] BY <1>1, <1>4, <2>1
  <2>3. entry \in Entry /\ agents[a].batch \subseteq Entry BY <1>1, <2>1 DEF AgentType
  <2>4. /\ v \in AgentType /\ v.pc = "waiting" /\ v.cur = entry
        /\ v.batch = agents[a].batch \ {entry}
    BY <2>1, <2>3 DEF AgentType
  <2>5. Sees(v) \subseteq Mine(a) BY <1>1, <2>4 DEF Sees, Mine
  <2>6. QED BY <1>2, <2>2, <2>3, <2>4, <2>5, QuietAgentStep
<1>5. QED BY <1>3, <1>4

LEMMA LockUnavailableStep ==
    ASSUME IInv, NEW a \in Agents, lock_unavailable(a)
    PROVE  IInv'
BY AbortStep DEF lock_unavailable

LEMMA CrashStep ==
    ASSUME IInv, NEW a \in Agents, Crash(a)
    PROVE  IInv'
BY AbortStep DEF Crash

------------------------------------------------------------------------------
(* The agent, where it looks, writes and reports.                            *)

(* Agent a is no longer, or not yet, writing; the others stay.               *)
LEMMA NotWriting ==
    ASSUME IInv, NEW a \in Agents, ticket' = ticket, agents'[a].pc # "writing",
           \A b \in Agents \ {a} : agents'[b] = agents[b]
    PROVE  /\ \A c : Untouched(c) => Untouched(c)'
           /\ OneWriter' /\ OneMessagePerCommand'
<1>1. \A b \in Agents : agents'[b].pc = "writing" => agents'[b] = agents[b] OBVIOUS
<1>2. ASSUME NEW c, Untouched(c)
      PROVE  Untouched(c)'
  BY <1>1, <1>2, FoundKept DEF Untouched, Writing
<1>3. OneWriter'
  <2>1. OneWriter BY DEF IInv, Safe
  <2>2. QED BY <1>1, <2>1 DEF OneWriter, Writing, Current, Found
<1>4. OneMessagePerCommand' BY DEF OneMessagePerCommand, IInv, Safe
<1>5. QED BY <1>2, <1>3, <1>4

(* The reports of the other agents stay true.                                *)
LEMMA OtherReports ==
    ASSUME IInv, NEW b \in Agents, agents'[b].pc = "report", agents'[b] = agents[b],
           NEW c, c = agents'[b].cur.cmd, cmds'[c].token = cmds[c].token,
           ticket' = ticket, Untouched(c) => Untouched(c)'
    PROVE  ReportHolds(b, c)
BY FoundKept DEF ReportHolds, ReportsTrue, Current, IInv, Safe

LEMMA ReportStep ==
    ASSUME IInv, NEW a \in Agents, agents[a].pc \in Busy, NEW res \in Result,
           agents' = [agents EXCEPT ![a].pc = "report", ![a].res = res],
           cmds' = cmds, ticket' = ticket,
           UNCHANGED <<empty, card, col, wanted>>, Fault \/ NoFault,
           res.err = None => res.message \in Found(Current(a)),
           res.err # None => /\ Found(Current(a)) = {}
                             /\ \A b \in Agents \ {a} : ~Writing(b, Current(a))
    PROVE  IInv'
<1> DEFINE v == [agents[a] EXCEPT !.pc = "report", !.res = res]
<1>1. agents[a] \in AgentType /\ agents \in [Agents -> AgentType] /\ agents[a].cur \in Entry
  BY DEF IInv, Shape, AgentsOK
<1>2. agents' = [agents EXCEPT ![a] = v] BY <1>1
<1>3. /\ v \in AgentType /\ v.pc = "report" /\ v.cur = agents[a].cur /\ v.res = res
      /\ v.batch = agents[a].batch
  BY <1>1 DEF AgentType
<1>4. /\ Shape' /\ agents'[a] = v /\ \A b \in Agents \ {a} : agents'[b] = agents[b]
  BY <1>1, <1>2, <1>3, AgentShape
<1>5. TokensIssued' /\ LeasesApart'
  <2>1. Sees(v) \subseteq Mine(a) BY <1>3 DEF Sees, Mine, Busy
  <2>2. QED BY <1>4, <2>1, AgentTokens
<1>6. /\ \A c : Untouched(c) => Untouched(c)'
      /\ OneWriter' /\ OneMessagePerCommand'
  BY <1>3, <1>4, NotWriting
<1>7. ReportsTrue'
  <2>1. SUFFICES ASSUME NEW b \in Agents, agents'[b].pc = "report",
                        NEW c, c = agents'[b].cur.cmd
                 PROVE  ReportHolds(b, c)
    BY ReportsPrimed
  <2>2. CASE b # a BY <1>4, <1>6, <2>1, <2>2, OtherReports
  <2>3. CASE b = a
    <3>1. c = Current(a) /\ agents'[b].res = res BY <1>3, <1>4, <2>1, <2>3 DEF Current
    <3>2. Found(c)' = Found(c) BY FoundKept
    <3>3. \A d \in Agents : Writing(d, c)' => d # a /\ Writing(d, c)
      BY <1>3, <1>4 DEF Writing
    <3>4. QED BY <3>1, <3>2, <3>3 DEF ReportHolds, Untouched
  <2>4. QED BY <2>2, <2>3
<1>8. RecordsTrue' BY <1>6, FoundKept DEF RecordsTrue, IInv, Safe, Known
<1>9. QED BY <1>4, <1>5, <1>6, <1>7, <1>8 DEF IInv, Safe

(* The agent has the lock, its lease is the last one and has not run out.    *)
LEMMA StartsWriting ==
    ASSUME IInv, NEW a \in Agents, agents[a].pc = "waiting", Holder(Current(a)) = {},
           Found(Current(a)) = {}, ~TooLate(a), agents' = At(a, "writing"),
           cmds' = cmds, ticket' = ticket,
           UNCHANGED <<empty, card, col, wanted>>, Fault \/ NoFault
    PROVE  IInv'
<1> DEFINE v == [agents[a] EXCEPT !.pc = "writing"]
           c == agents[a].cur.cmd
<1>1. agents[a] \in AgentType /\ agents \in [Agents -> AgentType]
  BY DEF IInv, Shape, AgentsOK
<1>2. agents' = [agents EXCEPT ![a] = v] BY <1>1 DEF At
<1>3. /\ v \in AgentType /\ v.pc = "writing" /\ v.cur = agents[a].cur
      /\ v.batch = agents[a].batch
  BY <1>1 DEF AgentType
<1>4. /\ agents[a].cur \in Mine(a) /\ agents[a].cur \in Entry /\ c \in Known
      /\ c = Current(a)
  BY Belongs DEF Busy, IInv, Shape, Safe, Current
<1>5. /\ Shape' /\ agents'[a] = v /\ \A b \in Agents \ {a} : agents'[b] = agents[b]
  BY <1>2, <1>3, <1>4, AgentShape
<1>6. TokensIssued' /\ LeasesApart'
  <2>1. Sees(v) \subseteq Mine(a) BY <1>3 DEF Sees, Mine, Busy
  <2>2. QED BY <1>5, <2>1, AgentTokens
<1>7. agents[a].cur.token = cmds[c].token /\ cmds[c].status = "leased"
  <2>1. RowOK(cmds[c]) BY <1>4, RowsAreOK DEF IInv
  <2>2. QED BY <1>4, <2>1 DEF TooLate, RunOut, RowOK
<1>8. ASSUME NEW d, d # c, Untouched(d)
      PROVE  Untouched(d)'
  <2>1. ASSUME NEW b \in Agents, agents'[b].pc = "writing", agents'[b].cur.cmd = d
        PROVE  Writing(b, d)
    <3>1. b # a BY <1>3, <1>5, <1>8, <2>1
    <3>2. QED BY <1>5, <2>1, <3>1 DEF Writing
  <2>2. QED BY <1>8, <2>1, FoundKept DEF Untouched, Writing
<1>9. OneWriter'
  <2>1. \A b \in Agents : ~Writing(b, c) BY <1>4 DEF Holder, Writing, Current
  <2>2. \A b, d \in Agents : agents[b].pc = "writing" =>
           /\ Found(agents[b].cur.cmd) = {}
           /\ agents[d].pc = "writing" /\ agents[d].cur.cmd = agents[b].cur.cmd => b = d
    BY DEF OneWriter, Writing, Current, IInv, Safe
  <2>3. \A b \in Agents \ {a} : agents'[b] = agents[b] BY <1>5
  <2>4. agents'[a].pc = "writing" /\ agents'[a].cur.cmd = c BY <1>3, <1>5
  <2>5. \A b, d \in Agents : agents'[b].pc = "writing" =>
           /\ Found(agents'[b].cur.cmd) = {}
           /\ agents'[d].pc = "writing" /\ agents'[d].cur.cmd = agents'[b].cur.cmd => b = d
    <3> HIDE DEF c, v
    <3>1. Found(c) = {} BY <1>4
    <3>2. QED BY <2>1, <2>2, <2>3, <2>4, <3>1 DEF Writing
  <2>6. QED BY <2>5 DEF OneWriter, Writing, Current, Found
<1>10. ReportsTrue'
  <2>1. SUFFICES ASSUME NEW b \in Agents, agents'[b].pc = "report",
                        NEW d, d = agents'[b].cur.cmd
                 PROVE  ReportHolds(b, d)
    BY ReportsPrimed
  <2>2. b # a /\ agents'[b] = agents[b] BY <1>3, <1>5, <2>1
  <2>3. CASE d # c BY <1>8, <2>1, <2>2, <2>3, OtherReports
  <2>4. CASE d = c
    <3>1. agents[b].cur \in Mine(b) /\ agents[b].cur \in Entry
      BY <2>1, <2>2, Belongs DEF Busy, IInv, Shape, Safe
    <3>2. agents[b].cur # agents[a].cur
      BY <1>4, <2>2, <3>1 DEF LeasesApart, IInv, Safe
    <3>3. agents[b].cur.token # cmds[d].token
      BY <1>4, <1>7, <2>1, <2>2, <2>4, <3>1, <3>2 DEF Entry
    <3>4. agents[b].res.err = None => agents[b].res.message \in Found(d)
      BY <2>1, <2>2 DEF ReportsTrue, Current, IInv, Safe
    <3>5. QED BY <2>2, <3>3, <3>4, FoundKept DEF ReportHolds
  <2>5. QED BY <2>3, <2>4
<1>11. RecordsTrue'
  <2>1. ~Reported(cmds[c]) BY <1>7 DEF Reported
  <2>2. RecordsTrue BY DEF IInv, Safe
  <2>3. QED BY <1>8, <2>1, <2>2, FoundKept DEF RecordsTrue, Known
<1>12. OneMessagePerCommand' BY DEF OneMessagePerCommand, IInv, Safe
<1>13. QED BY <1>5, <1>6, <1>9, <1>10, <1>11, <1>12 DEF IInv, Safe

LEMMA CheckStep ==
    ASSUME IInv, NEW a \in Agents, NEW refusal \in RefusalCodes \cup {None},
           check_command(a, refusal)
    PROVE  IInv'
<1>1. /\ agents[a].pc = "waiting" /\ agents[a].pc \in Busy /\ Holder(Current(a)) = {}
      /\ cmds' = cmds /\ ticket' = ticket /\ UNCHANGED <<empty, card, col, wanted>>
      /\ Fault \/ NoFault
  BY DEF check_command, FaultIf, Busy
<1>2. CASE \E m \in Found(Current(a)) : agents' = Reports(a, None, m)
  <2>1. PICK m \in Found(Current(a)) : agents' = Reports(a, None, m) BY <1>2
  <2> DEFINE res == [err |-> None, message |-> m]
  <2>2. m \in Nat
    <3>1. ticket \in Seq([cmd : Commands, text : Texts]) BY DEF IInv, Shape, RestOK
    <3>2. DOMAIN ticket = 1..Len(ticket) BY <3>1, LenProperties
    <3>3. QED BY <3>2 DEF Found
  <2>3. res \in Result /\ res.err = None /\ res.message = m BY <2>2 DEF Result
  <2>4. agents' = [agents EXCEPT ![a].pc = "report", ![a].res = res] BY <2>1 DEF Reports
  <2>5. QED BY <1>1, <2>1, <2>3, <2>4, ReportStep
<1>3. CASE agents' = Aborted(a) BY <1>1, <1>3, AbortStep
<1>4. CASE /\ Found(Current(a)) = {} /\ ~TooLate(a) /\ refusal = None
           /\ agents' = At(a, "writing")
  BY <1>1, <1>4, StartsWriting
<1>5. CASE Found(Current(a)) = {} /\ refusal # None /\ agents' = Reports(a, refusal, 0)
  <2> DEFINE res == [err |-> refusal, message |-> 0]
  <2>1. res \in Result /\ res.err # None BY <1>5 DEF Result, Errors
  <2>2. \A b \in Agents : ~Writing(b, Current(a)) BY <1>1 DEF Holder, Writing, Current
  <2>3. agents' = [agents EXCEPT ![a].pc = "report", ![a].res = res] BY <1>5 DEF Reports
  <2>4. QED BY <1>1, <1>5, <2>1, <2>2, <2>3, ReportStep
<1>6. QED BY <1>2, <1>3, <1>4, <1>5 DEF check_command

(* The message is in the ticket, and no other agent was writing for it.      *)
LEMMA PostStep ==
    ASSUME IInv, NEW a \in Agents, agents[a].pc = "writing", write_message(a, TRUE),
           NEW c, c = agents[a].cur.cmd
    PROVE  IInv'
<1> DEFINE res == [err |-> None, message |-> Len(ticket) + 1]
           v == [agents[a] EXCEPT !.pc = "report", !.res = res]
           MessageType == [cmd : Commands, text : Texts]
<1>1. /\ cmds' = cmds /\ UNCHANGED <<empty, card, col, wanted>> /\ NoFault
      /\ ticket' = Append(ticket, [cmd |-> c, text |-> cmds[c].text])
      /\ agents' = [agents EXCEPT ![a].pc = "report", ![a].res = res]
  BY DEF write_message, FaultIf, Current, Reports
<1>2. agents[a] \in AgentType /\ agents \in [Agents -> AgentType]
  BY DEF IInv, Shape, AgentsOK
<1>3. agents[a].cur \in Mine(a) /\ agents[a].cur \in Entry /\ c \in Known /\ c = Current(a)
  BY Belongs DEF Busy, IInv, Shape, Safe, Current
<1>4. /\ ticket \in Seq(MessageType) /\ Len(ticket) \in Nat
      /\ DOMAIN ticket = 1..Len(ticket)
  BY LenProperties DEF IInv, Shape, RestOK
<1>5. [cmd |-> c, text |-> cmds[c].text] \in MessageType
  BY <1>3, TextTypes, EntryFields DEF IInv
<1>6. /\ ticket' \in Seq(MessageType) /\ DOMAIN ticket' = 1..(Len(ticket) + 1)
      /\ \A m \in 1..Len(ticket) : ticket'[m] = ticket[m]
      /\ ticket'[Len(ticket) + 1].cmd = c
  <2> DEFINE msg == [cmd |-> c, text |-> cmds[c].text]
  <2>1. msg.cmd = c OBVIOUS
  <2> HIDE DEF msg, MessageType
  <2>2. ticket' \in Seq(MessageType) /\ Len(ticket') = Len(ticket) + 1
    BY <1>1, <1>4, <1>5, AppendProperties DEF msg
  <2>3. /\ \A m \in 1..Len(ticket) : ticket'[m] = ticket[m]
        /\ ticket'[Len(ticket) + 1] = msg
    BY <1>1, <1>4, <1>5, AppendProperties DEF msg
  <2>4. DOMAIN ticket' = 1..(Len(ticket) + 1) BY <2>2, LenProperties
  <2>5. QED BY <2>1, <2>2, <2>3, <2>4
<1>7. /\ v \in AgentType /\ v.pc = "report" /\ v.cur = agents[a].cur /\ v.res = res
      /\ v.batch = agents[a].batch /\ res \in Result
  <2>1. res \in Result BY <1>4 DEF Result
  <2> HIDE DEF res
  <2>2. QED BY <1>2, <2>1 DEF AgentType
<1>8. agents' = [agents EXCEPT ![a] = v] BY <1>1, <1>2
<1> HIDE DEF v, res, MessageType
<1>9. /\ AgentsOK' /\ agents'[a] = v /\ \A b \in Agents \ {a} : agents'[b] = agents[b]
  BY <1>3, <1>7, <1>8, OneAgent DEF IInv, Shape
<1>10. Shape'
  <2>1. RowsOK' /\ RowsMove BY <1>1, SameRows DEF IInv
  <2>2. CollectorOK' BY <1>1, <2>1, CollectorKept DEF IInv, Shape, RowsMove
  <2>3. RestOK'
    BY <1>1, <1>6, BoundsKept DEF IInv, Shape, RestOK, MessageType
  <2>4. QED BY <1>9, <2>1, <2>2, <2>3 DEF Shape
<1>11. TokensIssued' /\ LeasesApart'
  <2>1. Sees(v) \subseteq Mine(a) BY <1>7 DEF Sees, Mine, Busy
  <2>2. QED BY <1>1, <1>9, <2>1, AgentTokens
<1>12. \A d : Found(d) \subseteq Found(d)'
  BY <1>4, <1>6 DEF Found
<1>13. ASSUME NEW d, d # c
       PROVE  Found(d)' = Found(d)
  BY <1>4, <1>6, <1>13 DEF Found
<1>14. Found(c) = {} /\ \A b \in Agents : Writing(b, c) => b = a
  BY <1>3 DEF OneWriter, IInv, Safe
<1>15. Len(ticket) + 1 \in Found(c)' BY <1>4, <1>6 DEF Found
<1>16. ASSUME NEW b \in Agents, agents'[b].pc = "writing"
       PROVE  agents'[b] = agents[b] /\ agents[b].cur.cmd # c
  <2>1. b # a BY <1>7, <1>9, <1>16
  <2>2. QED BY <1>9, <1>14, <1>16, <2>1 DEF Writing
<1>17. ASSUME NEW d, Untouched(d)
       PROVE  d # c /\ Untouched(d)'
  <2>1. d # c BY <1>17 DEF Untouched, Writing
  <2>2. ASSUME NEW b \in Agents, agents'[b].pc = "writing", agents'[b].cur.cmd = d
        PROVE  FALSE
    BY <1>16, <1>17, <2>2 DEF Untouched, Writing
  <2>3. Found(d)' = {} BY <1>13, <1>17, <2>1 DEF Untouched
  <2>4. QED BY <2>1, <2>2, <2>3 DEF Untouched, Writing
<1>18. OneWriter'
  <2>1. ASSUME NEW b \in Agents, agents'[b].pc = "writing",
               NEW d, d = agents'[b].cur.cmd
        PROVE  Found(d)' = {}
    <3>1. agents'[b] = agents[b] /\ d # c BY <1>16, <2>1
    <3>2. Found(d) = {} BY <2>1, <3>1 DEF OneWriter, Current, IInv, Safe
    <3>3. QED BY <1>13, <3>1, <3>2
  <2>2. ASSUME NEW b \in Agents, NEW e \in Agents, agents'[b].pc = "writing",
               agents'[e].pc = "writing", agents'[e].cur.cmd = agents'[b].cur.cmd
        PROVE  b = e
    <3>1. agents'[b] = agents[b] /\ agents'[e] = agents[e] BY <1>16, <2>2
    <3>2. QED BY <2>2, <3>1 DEF OneWriter, Writing, Current, IInv, Safe
  <2>3. QED BY <2>1, <2>2 DEF OneWriter, Writing, Current, Found
<1>19. ReportsTrue'
  <2>1. SUFFICES ASSUME NEW b \in Agents, agents'[b].pc = "report",
                        NEW d, d = agents'[b].cur.cmd
                 PROVE  ReportHolds(b, d)
    BY ReportsPrimed
  <2>2. CASE b = a
    <3>1. d = c /\ agents'[b].res = res BY <1>7, <1>9, <2>1, <2>2
    <3>2. res.err = None /\ res.message = Len(ticket) + 1 BY DEF res
    <3>3. QED BY <1>15, <3>1, <3>2 DEF ReportHolds
  <2>3. CASE b # a
    <3>1. agents'[b] = agents[b] /\ d = Current(b) BY <1>9, <2>1, <2>3 DEF Current
    <3>2. /\ agents[b].res.err = None => agents[b].res.message \in Found(d)
          /\ agents[b].res.err # None /\ agents[b].cur.token = cmds[d].token => Untouched(d)
      BY <2>1, <3>1 DEF ReportsTrue, IInv, Safe
    <3>3. QED BY <1>1, <1>12, <1>17, <3>1, <3>2 DEF ReportHolds
  <2>4. QED BY <2>2, <2>3
<1>20. RecordsTrue'
  BY <1>1, <1>12, <1>17 DEF RecordsTrue, IInv, Safe, Known
<1>21. OneMessagePerCommand'
  <2>1. SUFFICES ASSUME NEW m \in 1..(Len(ticket) + 1), NEW n \in 1..(Len(ticket) + 1),
                        ticket'[m].cmd = ticket'[n].cmd
                 PROVE  m = n
    BY <1>6 DEF OneMessagePerCommand
  <2>2. \A k \in 1..Len(ticket) : ticket[k].cmd # c BY <1>4, <1>14 DEF Found
  <2>3. QED BY <1>4, <1>6, <2>1, <2>2 DEF OneMessagePerCommand, IInv, Safe
<1>22. QED BY <1>10, <1>11, <1>18, <1>19, <1>20, <1>21 DEF IInv, Safe

LEMMA WriteStep ==
    ASSUME IInv, NEW a \in Agents, NEW posted \in BOOLEAN, write_message(a, posted)
    PROVE  IInv'
<1>1. agents[a].pc = "writing" BY DEF write_message
<1>2. CASE posted = TRUE BY <1>1, <1>2, PostStep
<1>3. CASE posted = FALSE
  <2> DEFINE res == [err |-> "message_write_failed", message |-> 0]
  <2>1. /\ agents' = [agents EXCEPT ![a].pc = "report", ![a].res = res]
        /\ cmds' = cmds /\ ticket' = ticket
        /\ UNCHANGED <<empty, card, col, wanted>> /\ Fault
    BY <1>3 DEF write_message, SetFailed, Reports, FaultIf
  <2>2. res \in Result /\ res.err # None BY RepliesAssumption DEF Result, Errors
  <2>3. agents[a].pc \in Busy BY <1>1 DEF Busy
  <2>4. /\ Found(Current(a)) = {}
        /\ \A b \in Agents \ {a} : ~Writing(b, Current(a))
    BY <1>1 DEF OneWriter, IInv, Safe
  <2>5. QED BY <2>1, <2>2, <2>3, <2>4, ReportStep
<1>4. QED BY <1>2, <1>3

LEMMA AcknowledgeStep ==
    ASSUME IInv, NEW a \in Agents, NEW received \in BOOLEAN, NEW answered \in BOOLEAN,
           acknowledge(a, received, answered), NEW c, c = Current(a)
    PROVE  IInv'
<1> DEFINE accepted == received /\ cmds[c].status # "pending" /\ cmds[c].token = agents[a].cur.token
           y == Acknowledged(cmds[c], agents[a].res)
<1>1. /\ agents[a].pc = "report" /\ UNCHANGED <<card, col, ticket, wanted>>
      /\ Fault \/ NoFault
      /\ cmds' = IF accepted THEN [cmds EXCEPT ![c] = y] ELSE cmds
      /\ empty' = (empty /\ ~(accepted /\ c = Latest))
      /\ \/ agents' = Aborted(a)
         \/ /\ accepted
            /\ agents' = [agents EXCEPT ![a].pc = "next", ![a].cur = None, ![a].res = None]
  BY DEF acknowledge, FaultIf
<1>2. /\ agents[a] \in AgentType /\ agents \in [Agents -> AgentType]
      /\ agents[a].res \in Result
  BY <1>1 DEF IInv, Shape, AgentsOK
<1>3. c \in Known /\ RowOK(cmds[c])
  BY <1>1, Belongs, RowsAreOK DEF Busy, IInv, Shape, Safe
<1>4. empty \in BOOLEAN /\ empty' \in BOOLEAN
  BY <1>1 DEF IInv, Shape, RestOK
<1>5. CASE ~accepted
  <2>1. empty' = empty BY <1>1, <1>4, <1>5
  <2>2. QED BY <1>1, <1>5, <2>1, AbortStep
<1>6. CASE accepted
  <2>1. /\ RowOK(y) /\ y.attempts = cmds[c].attempts /\ y.token = cmds[c].token
        /\ y.status = IF agents[a].res.err = None THEN "applied" ELSE "failed"
        /\ y.err = agents[a].res.err /\ y.message = agents[a].res.message
    BY <1>2, <1>3, <1>6, AcknowledgedOK
  <2>2. cmds[c].token = agents[a].cur.token /\ cmds' = [cmds EXCEPT ![c] = y]
    BY <1>1, <1>6
  <2> HIDE DEF y, accepted
  <2>3. /\ RowsOK' /\ Known' = Known /\ cmds'[c] = y
        /\ \A d \in Known \ {c} : cmds'[d] = cmds[d]
    BY <1>3, <2>1, <2>2, OneRow DEF IInv
  <2>4. \A d \in Known : cmds'[d].attempts = cmds[d].attempts /\ cmds'[d].token = cmds[d].token
    BY <2>1, <2>3
  <2>5. PICK v \in AgentType : /\ agents' = [agents EXCEPT ![a] = v]
                               /\ v.pc \in {"idle", "next"} /\ v.batch \subseteq agents[a].batch
    <3>1. CASE agents' = Aborted(a) BY <3>1, IdleIsAgent DEF Aborted
    <3>2. CASE agents' = [agents EXCEPT ![a].pc = "next", ![a].cur = None, ![a].res = None]
      <4> DEFINE w == [agents[a] EXCEPT !.pc = "next", !.cur = None, !.res = None]
      <4>1. agents' = [agents EXCEPT ![a] = w] BY <1>2, <3>2
      <4>2. w \in AgentType /\ w.pc = "next" /\ w.batch = agents[a].batch
        BY <1>2 DEF AgentType
      <4>3. QED BY <4>1, <4>2
    <3>3. QED BY <1>1, <3>1, <3>2
  <2>6. /\ AgentsOK' /\ agents'[a] = v /\ \A b \in Agents \ {a} : agents'[b] = agents[b]
    BY <2>5, OneAgent DEF Busy, IInv, Shape
  <2>7. Shape'
    <3>1. CollectorOK' BY <1>1, <2>3, CollectorKept DEF IInv, Shape
    <3>2. RestOK' BY <1>1, <1>4, BoundsKept DEF IInv, Shape, RestOK
    <3>3. QED BY <2>3, <2>6, <3>1, <3>2 DEF Shape
  <2>8. TokensIssued' /\ LeasesApart'
    <3>1. \A b \in Agents : Mine(b)' \subseteq Mine(b) BY <2>5, <2>6 DEF Mine, Busy
    <3>2. \A d \in Known : cmds'[d].attempts \in Nat /\ cmds[d].attempts <= cmds'[d].attempts
      BY <2>4, RowsAreOK, RowFields DEF IInv, RowOK
    <3>3. QED BY <2>3, <3>1, <3>2, TokensKept DEF IInv
  <2>9. /\ \A d : Untouched(d) => Untouched(d)'
        /\ OneWriter' /\ OneMessagePerCommand'
    BY <1>1, <2>5, <2>6, NotWriting
  <2>10. ReportsTrue'
    <3>1. SUFFICES ASSUME NEW b \in Agents, agents'[b].pc = "report",
                          NEW d, d = agents'[b].cur.cmd
                   PROVE  ReportHolds(b, d)
      BY ReportsPrimed
    <3>2. agents'[b] = agents[b] BY <2>5, <2>6, <3>1
    <3>3. d \in Known BY <3>1, <3>2, Belongs DEF Busy, Current, IInv, Shape, Safe
    <3>4. QED BY <1>1, <2>4, <2>9, <3>1, <3>2, <3>3, OtherReports
  <2>11. RecordsTrue'
    <3>1. SUFFICES ASSUME NEW d \in Known
                   PROVE  /\ cmds'[d].status = "applied" => cmds'[d].message \in Found(d)'
                          /\ Reported(cmds'[d]) => Untouched(d)'
      BY <2>3 DEF RecordsTrue
    <3>2. CASE d = c
      <4>1. /\ agents[a].res.err = None => agents[a].res.message \in Found(c)
            /\ agents[a].res.err # None => Untouched(c)
        BY <1>1, <2>2 DEF ReportsTrue, IInv, Safe
      <4>2. QED BY <1>1, <2>1, <2>3, <2>9, <3>2, <4>1, FoundKept DEF Reported
    <3>3. CASE d # c
      <4>1. cmds'[d] = cmds[d] BY <2>3, <3>3
      <4>2. QED BY <1>1, <2>9, <4>1, FoundKept DEF RecordsTrue, IInv, Safe
    <3>4. QED BY <3>2, <3>3
  <2>12. QED BY <2>7, <2>8, <2>9, <2>10, <2>11 DEF IInv, Safe
<1>7. QED BY <1>5, <1>6

(* A poll: new tokens exceed all that were issued before.                    *)
LEMMA PollStep ==
    ASSUME IInv, NEW a \in Agents, NEW kept \in BOOLEAN, get_commands(a, kept)
    PROVE  IInv'
<1> DEFINE leased == {c \in Known : Available(c) /\ ~cmds[c].damaged}
           damaged == {c \in Known : Available(c) /\ cmds[c].damaged}
           answer == {[cmd |-> c, token |-> cmds[c].attempts + 1] : c \in leased}
<1>1. /\ cmds' = [c \in Known |-> IF c \in leased THEN Leased(cmds[c])
                                   ELSE IF c \in damaged THEN Quarantined(cmds[c]) ELSE cmds[c]]
      /\ empty' = (empty /\ Latest \notin damaged)
      /\ agents' = IF kept THEN [agents EXCEPT ![a].pc = "next", ![a].batch = answer] ELSE agents
      /\ Fault \/ NoFault
      /\ UNCHANGED <<card, col, ticket, wanted>>
  BY DEF get_commands, FaultIf
<1>2. agents[a].pc = "idle" BY DEF get_commands
<1>3. \A c \in leased : c \in Known /\ cmds[c].status \in {"pending", "leased"}
  BY DEF Available
<1> HIDE DEF leased, damaged
<1>4. Known = 1..Len(cmds) /\ Len(cmds) \in Nat /\ Known \subseteq Commands
  BY KnownRange DEF IInv
<1>5. Known' = Known /\ \A c \in leased : cmds'[c] = Leased(cmds[c])
  BY <1>1, <1>3 DEF Known
<1>6. ASSUME NEW c \in Known
      PROVE  Moves(cmds[c], cmds'[c]) /\ cmds'[c].attempts \in Nat
             /\ cmds[c].attempts \in Nat /\ cmds[c].attempts <= cmds'[c].attempts
  <2>1. RowOK(cmds[c]) BY RowsAreOK DEF IInv
  <2>2. cmds'[c] \in {Leased(cmds[c]), Quarantined(cmds[c]), cmds[c]} BY <1>1
  <2>3. c \in leased => Moves(cmds[c], Leased(cmds[c])) BY <1>3, <2>1, LeasedMoves
  <2>4. Moves(cmds[c], Quarantined(cmds[c])) /\ Moves(cmds[c], cmds[c])
    BY <2>1, QuarantinedMoves, StaysMoves
  <2>5. Moves(cmds[c], cmds'[c]) BY <1>1, <2>3, <2>4
  <2>6. QED BY <2>1, <2>5, RowFields DEF Moves, RowOK
<1>7. RowsOK' /\ RowsMove
  <2>1. \A c \in Known : RowOK(cmds'[c]) /\ cmds'[c] \in CommandType
    BY <1>6 DEF Moves, RowOK
  <2>2. DOMAIN cmds' = Known /\ cmds' = [c \in Known |-> cmds'[c]] BY <1>1
  <2>3. cmds' \in [1..Len(cmds) -> CommandType] BY <1>4, <2>1, <2>2
  <2>4. cmds' \in Seq(CommandType) BY <1>4, <2>3, SeqDef
  <2>5. Len(cmds') = Len(cmds)
    <3>1. Len(cmds') \in Nat /\ DOMAIN cmds' = 1..Len(cmds') BY <2>4, LenProperties
    <3>2. 1..Len(cmds') = 1..Len(cmds) BY <1>4, <2>2, <3>1
    <3>3. QED BY <1>4, <3>1, <3>2
  <2>6. RowsOK' BY <1>5, <2>1, <2>4, <2>5 DEF RowsOK, IInv, Shape
  <2>7. QED BY <1>5, <1>6, <2>6 DEF RowsMove
<1>8. CollectorOK' BY <1>1, <1>5, CollectorKept DEF IInv, Shape
<1>9. RestOK' BY <1>1, BoundsKept DEF IInv, Shape, RestOK
<1>10. CASE ~kept
  <2>1. agents' = agents /\ ticket' = ticket BY <1>1, <1>10
  <2>2. QED BY <1>7, <1>8, <1>9, <2>1, RowStep
<1>11. CASE kept
  <2> DEFINE v == [agents[a] EXCEPT !.pc = "next", !.batch = answer]
  <2>1. agents[a] \in AgentType /\ agents \in [Agents -> AgentType]
    BY DEF IInv, Shape, AgentsOK
  <2>2. ASSUME NEW e \in answer
        PROVE  /\ e \in Entry /\ e.cmd \in Known /\ e.token = cmds[e.cmd].attempts + 1
               /\ e.token = cmds'[e.cmd].attempts
    <3>1. PICK c \in leased : e = [cmd |-> c, token |-> cmds[c].attempts + 1] OBVIOUS
    <3>2. c \in Known /\ cmds[c].attempts \in Nat BY <1>3, <1>6
    <3>3. cmds'[c].attempts = cmds[c].attempts + 1
      BY <1>3, <1>5, <3>2, LeasedMoves, RowsAreOK DEF IInv
    <3>4. QED BY <1>4, <3>1, <3>2, <3>3 DEF Entry
  <2> HIDE DEF answer
  <2>3. /\ v \in AgentType /\ v.pc = "next" /\ v.batch = answer
    BY <2>1, <2>2 DEF AgentType
  <2>4. agents' = [agents EXCEPT ![a] = v] BY <1>1, <1>11, <2>1
  <2> HIDE DEF v
  <2>5. /\ AgentsOK' /\ agents'[a] = v /\ \A b \in Agents \ {a} : agents'[b] = agents[b]
    BY <2>3, <2>4, OneAgent DEF Busy, IInv, Shape
  <2>6. Mine(a)' = answer /\ \A b \in Agents \ {a} : Mine(b)' = Mine(b)
    BY <2>3, <2>5 DEF Mine, Busy
  <2>7. ASSUME NEW b \in Agents, NEW e \in Mine(b)
        PROVE  /\ e.cmd \in Known /\ e.token \in Nat /\ 1 <= e.token
               /\ e.token <= cmds[e.cmd].attempts /\ cmds[e.cmd].attempts \in Nat
    BY <1>6 DEF TokensIssued, IInv, Safe
  <2>8. TokensIssued'
    <3>1. SUFFICES ASSUME NEW b \in Agents, NEW e \in Mine(b)'
                   PROVE  e.cmd \in Known' /\ e.token \in 1..cmds'[e.cmd].attempts
      BY DEF TokensIssued
    <3>2. CASE b = a
      <4>1. e \in answer BY <2>6, <3>1, <3>2
      <4>2. /\ e.cmd \in Known /\ e.token = cmds[e.cmd].attempts + 1
            /\ e.token = cmds'[e.cmd].attempts
        BY <2>2, <4>1
      <4>3. QED BY <1>5, <1>6, <4>2
    <3>3. CASE b # a
      <4>1. e \in Mine(b) BY <2>6, <3>1, <3>3
      <4>2. QED BY <1>5, <1>6, <2>7, <4>1
    <3>4. QED BY <3>2, <3>3
  <2>9. LeasesApart'
    <3>1. ASSUME NEW b \in Agents \ {a}, NEW e \in answer
          PROVE  e \notin Mine(b)
      BY <1>6, <2>2, <2>7
    <3>2. \A b \in Agents \ {a} : answer \cap Mine(b) = {} BY <3>1
    <3>3. QED BY <2>6, <3>2 DEF LeasesApart, IInv, Safe
  <2>10. \A b \in Agents : Quiet(b) BY <2>3, <2>5 DEF Quiet
  <2>11. OneWriter' /\ ReportsTrue' /\ RecordsTrue' /\ OneMessagePerCommand'
    BY <1>1, <1>7, <2>10, QuietSafe DEF IInv
  <2>12. QED BY <1>7, <1>8, <1>9, <2>5, <2>8, <2>9, <2>11 DEF IInv, Shape, Safe
<1>12. QED BY <1>10, <1>11

------------------------------------------------------------------------------
(* The theorems.                                                             *)

LEMMA InitIInv ==
    ASSUME Init
    PROVE  IInv
<1>1. cmds = <<>> /\ ticket = <<>> /\ agents = [a \in Agents |-> IdleAgent] /\ col = IdleCollector
  BY DEF Init
<1>2. Known = {} /\ Len(cmds) = 0 /\ cmds \in Seq(CommandType)
  BY <1>1, EmptySeq DEF Known
<1>3. \A a \in Agents : agents[a] = IdleAgent /\ agents[a].pc = "idle" /\ Mine(a) = {}
  BY <1>1, IdleIsAgent DEF Mine, Busy
<1>4. Shape
  <2>1. RowsOK BY <1>2, RepliesAssumption DEF RowsOK
  <2>2. AgentsOK BY <1>1, <1>3, IdleIsAgent DEF AgentsOK, Busy
  <2>3. CollectorOK
    BY <1>1, RepliesAssumption DEF CollectorOK, CollectorType, IdleCollector
  <2>4. RestOK
    <3>1. card \in CardType /\ wanted \in Texts \cup {None}
      BY RepliesAssumption DEF Init, CardType, CardStatuses
    <3>2. BoundsOK BY RepliesAssumption DEF Init, BoundsOK
    <3>3. ticket \in Seq([cmd : Commands, text : Texts]) BY <1>1
    <3>4. QED BY <3>1, <3>2, <3>3 DEF Init, RestOK
  <2>5. QED BY <2>1, <2>2, <2>3, <2>4 DEF Shape
<1>5. Safe
  <2>1. TokensIssued /\ LeasesApart BY <1>3 DEF TokensIssued, LeasesApart
  <2>2. OneWriter /\ ReportsTrue BY <1>3 DEF OneWriter, ReportsTrue
  <2>3. RecordsTrue BY <1>2 DEF RecordsTrue
  <2>4. OneMessagePerCommand BY <1>1 DEF OneMessagePerCommand
  <2>5. QED BY <2>1, <2>2, <2>3, <2>4 DEF Safe
<1>6. QED BY <1>4, <1>5 DEF IInv

LEMMA NextIInv ==
    ASSUME IInv, [Next]_vars
    PROVE  IInv'
<1>1. CASE UNCHANGED vars
  <2>1. /\ cmds' = cmds /\ agents' = agents /\ ticket' = ticket /\ col' = col
        /\ NoFault /\ UNCHANGED <<empty, card, wanted>>
    BY <1>1 DEF vars, NoFault
  <2>2. RowsOK' /\ RowsMove BY <2>1, SameRows DEF IInv
  <2>3. CollectorOK' BY <2>1, <2>2, CollectorKept DEF IInv, Shape, RowsMove
  <2>4. RestOK' BY <2>1, RestKept DEF IInv, Shape
  <2>5. QED BY <2>1, <2>2, <2>3, <2>4, RowStep
<1>2. ASSUME NEW t \in ReplyTexts, create_ui_reply(t)
      PROVE  IInv'
  BY <1>2, CreateUiReplyStep
<1>3. ASSUME NEW c \in Known, retry_ui_command(c) \/ Damage(c) \/ LeaseRunsOut(c)
      PROVE  IInv'
  BY <1>3, RetryStep, DamageStep, LeaseStep
<1>4. ASSUME NEW t \in Texts, NEW pressed \in BOOLEAN, SaveCard(t, pressed)
      PROVE  IInv'
  BY <1>4, SaveCardStep
<1>5. ASSUME NEW a \in Agents, Poll(a)
      PROVE  IInv'
  BY <1>5, PollStep DEF Poll
<1>6. ASSUME NEW a \in Agents, AgentStep(a)
      PROVE  IInv'
  <2>1. CASE deliver_command(a) BY <2>1, DeliverStep
  <2>2. ASSUME NEW refusal \in RefusalCodes \cup {None}, check_command(a, refusal)
        PROVE  IInv'
    BY <2>2, CheckStep
  <2>3. ASSUME NEW posted \in BOOLEAN, write_message(a, posted)
        PROVE  IInv'
    BY <2>3, WriteStep
  <2>4. ASSUME NEW received \in BOOLEAN, NEW answered \in BOOLEAN,
               acknowledge(a, received, answered)
        PROVE  IInv'
    BY <2>4, AcknowledgeStep
  <2>5. QED BY <1>6, <2>1, <2>2, <2>3, <2>4 DEF AgentStep
<1>7. ASSUME NEW a \in Agents, lock_unavailable(a) \/ Crash(a)
      PROVE  IInv'
  BY <1>7, LockUnavailableStep, CrashStep
<1>8. CASE CollectorStep
  BY <1>8, CollectCaseStep, RelockStep, ClearStep, RestoreStep, WriteStatusStep,
     WriteRefusalStep
     DEF CollectorStep
<1>9. ASSUME NEW recorded \in BOOLEAN, NEW written \in BOOLEAN,
             collector_fails(recorded, written)
      PROVE  IInv'
  BY <1>9, CollectorFailsStep
<1>10. QED BY <1>1, <1>2, <1>3, <1>4, <1>5, <1>6, <1>7, <1>8, <1>9 DEF Next

THEOREM InvariantHolds == Spec => []IInv
<1>1. Init => IInv BY InitIInv
<1>2. IInv /\ [Next]_vars => IInv' BY NextIInv
<1>3. QED BY <1>1, <1>2, PTL DEF Spec

(* The rows, the agents and the collector keep their types, whatever the     *)
(* number of agents, commands, leases and faults of the reply exchange.      *)
THEOREM TypeCorrect == Spec => []TypeOK
<1>1. IInv => TypeOK BY ShapeTypes DEF IInv
<1>2. QED BY <1>1, InvariantHolds, PTL

(* A reply is in the ticket at most once: agents that overlap, outlive their *)
(* lease or lose an answer never post a command a second time, because a     *)
(* token is held by one agent only and a post needs the lock and the marker. *)
THEOREM RepliedOnce == Spec => []OneMessagePerCommand
<1>1. IInv => OneMessagePerCommand BY DEF IInv, Safe
<1>2. QED BY <1>1, InvariantHolds, PTL

(* What the service records is what is in the ticket: an applied command     *)
(* names its message, and a reported failure means that nothing was posted.  *)
THEOREM OutcomesAreTrue == Spec => []RecordedAsDelivered
<1>1. IInv => RecordedAsDelivered
  BY DEF IInv, Safe, RecordsTrue, RecordedAsDelivered, Reported, Untouched, Found, Posted
<1>2. QED BY <1>1, InvariantHolds, PTL

------------------------------------------------------------------------------
(* The collector and the card.                                               *)

(* What the collector is about to write to the card.                         *)
SeenShown == col.pc \in {"clear", "report"} => col.seen = Shown(col.cmd)

(* While the collector holds the case no command changes its status.         *)
LEMMA StatusHeld ==
    ASSUME IInv, Next, CaseLocked, NEW c \in Known
    PROVE  cmds'[c].status = cmds[c].status
<1>1. cmds \in Seq(CommandType) /\ DOMAIN cmds = Known
  BY DEF IInv, Shape, RowsOK, Known
<1>2. \A x \in CommandType : /\ [x EXCEPT !.damaged = TRUE].status = x.status
                             /\ [x EXCEPT !.live = FALSE].status = x.status
                             /\ [x EXCEPT !.cleared = TRUE].status = x.status
  BY DEF CommandType
<1>3. cmds[c] \in CommandType BY RowsAreOK DEF IInv, RowOK
<1>4. CASE cmds' = cmds BY <1>4
<1>5. ASSUME NEW d \in Known, Damage(d) \/ LeaseRunsOut(d)
      PROVE  cmds'[c].status = cmds[c].status
  <2>1. \/ cmds' = [cmds EXCEPT ![d] = [cmds[d] EXCEPT !.damaged = TRUE]]
        \/ cmds' = [cmds EXCEPT ![d] = [cmds[d] EXCEPT !.live = FALSE]]
    BY <1>5 DEF Damage, LeaseRunsOut
  <2>2. \/ cmds'[c] \in {cmds[c], [cmds[c] EXCEPT !.damaged = TRUE]}
        \/ cmds'[c] \in {cmds[c], [cmds[c] EXCEPT !.live = FALSE]}
    BY <1>1, <2>1
  <2>3. /\ [cmds[c] EXCEPT !.damaged = TRUE].status = cmds[c].status
        /\ [cmds[c] EXCEPT !.live = FALSE].status = cmds[c].status
    BY <1>2, <1>3
  <2>4. QED BY <2>2, <2>3
<1>6. CASE cmds' = Cleared /\ col.cmd \in Known
  <2>1. cmds' = [cmds EXCEPT ![col.cmd] = [cmds[col.cmd] EXCEPT !.cleared = TRUE]]
    BY <1>6 DEF Cleared
  <2>2. cmds'[c] \in {cmds[c], [cmds[c] EXCEPT !.cleared = TRUE]} BY <1>1, <2>1
  <2>3. QED BY <1>2, <1>3, <2>2
<1>7. CASE CollectorStep
  <2>1. col.pc \notin {"idle", "created"} BY DEF CaseLocked
  <2>2. cmds' = cmds \/ (cmds' = Cleared /\ col.cmd \in Known)
    BY <1>7, <2>1 DEF CollectorStep, collect_case, relock_case, clear_action, restore_send,
       write_status, write_refusal, IInv, Shape, CollectorOK
  <2>3. QED BY <1>4, <1>6, <2>2
<1>8. CASE \E a \in Agents : Poll(a) \/ AgentStep(a) \/ lock_unavailable(a) \/ Crash(a)
  <2>1. cmds' = cmds
    BY <1>8 DEF Poll, AgentStep, get_commands, deliver_command, check_command, write_message,
       acknowledge, lock_unavailable, Crash
  <2>2. QED BY <1>4, <2>1
<1>9. CASE \/ \E t \in Texts, pressed \in BOOLEAN : SaveCard(t, pressed)
           \/ \E recorded, written \in BOOLEAN : collector_fails(recorded, written)
  BY <1>4, <1>9 DEF SaveCard, collector_fails
<1>10. QED
  BY <1>5, <1>7, <1>8, <1>9 DEF Next, create_ui_reply, retry_ui_command

LEMMA CollectorActs ==
    ASSUME IInv, Next, col' # col
    PROVE  \/ col'.pc \notin {"clear", "report"}
           \/ cmds' = cmds /\ col'.seen = Shown(col'.cmd)
<1>1. CASE collect_case
  <2>1. CASE report_terminal
    <3>1. cmds' = cmds /\ Goes("report", Latest, Shown(Latest)) BY <2>1 DEF report_terminal
    <3>2. col'.cmd = Latest /\ col'.seen = Shown(Latest) BY <3>1 DEF Goes
    <3>3. QED BY <3>1, <3>2
  <2>2. CASE refuse_empty BY <2>2 DEF refuse_empty, Goes
  <2>3. CASE create_command
    <3>1. PICK c, was : Created(c, was) BY <2>3 DEF create_command
    <3>2. QED BY <3>1 DEF Created
  <2>4. CASE resume_uncleared
    <3>1. PICK c \in Known : ReadAgain(c) /\ cmds' = cmds
      BY <2>4 DEF resume_uncleared, Uncleared
    <3>2. Goes("clear", c, Shown(c)) \/ col'.pc = "restore" BY <3>1 DEF ReadAgain, Goes
    <3>3. Goes("clear", c, Shown(c)) => col'.cmd = c /\ col'.seen = Shown(c) BY DEF Goes
    <3>4. QED BY <3>1, <3>2, <3>3
  <2>5. QED BY <1>1, <2>1, <2>2, <2>3, <2>4 DEF collect_case
<1>2. CASE relock_case
  <2> DEFINE c == col.cmd
  <2>1. cmds' = cmds /\ (col' = IdleCollector \/ ReadAgain(c)) BY <1>2 DEF relock_case
  <2>2. ReadAgain(c) => Goes("clear", c, Shown(c)) \/ col'.pc = "restore"
    BY DEF ReadAgain, Goes
  <2>3. Goes("clear", c, Shown(c)) => col'.cmd = c /\ col'.seen = Shown(c) BY DEF Goes
  <2>4. QED BY <2>1, <2>2, <2>3 DEF IdleCollector
<1>3. CASE clear_action BY <1>3 DEF clear_action, Goes, IdleCollector
<1>4. CASE restore_send \/ write_status BY <1>4 DEF restore_send, write_status, IdleCollector
<1>5. CASE write_refusal BY <1>5 DEF write_refusal, Goes, IdleCollector
<1>6. CASE \E recorded, written \in BOOLEAN : collector_fails(recorded, written)
  BY <1>6 DEF collector_fails, IdleCollector
<1>7. CASE \/ \E t \in ReplyTexts : create_ui_reply(t)
           \/ \E c \in Known : retry_ui_command(c) \/ Damage(c) \/ LeaseRunsOut(c)
           \/ \E t \in Texts, pressed \in BOOLEAN : SaveCard(t, pressed)
  BY <1>7 DEF create_ui_reply, retry_ui_command, Damage, LeaseRunsOut, SaveCard
<1>8. CASE \E a \in Agents : Poll(a) \/ AgentStep(a) \/ lock_unavailable(a) \/ Crash(a)
  BY <1>8 DEF Poll, AgentStep, get_commands, deliver_command, check_command, write_message,
     acknowledge, lock_unavailable, Crash
<1>9. QED
  BY <1>1, <1>2, <1>3, <1>4, <1>5, <1>6, <1>7, <1>8 DEF Next, CollectorStep

LEMMA SeenStep ==
    ASSUME IInv, SeenShown, [Next]_vars
    PROVE  SeenShown'
<1>1. CASE UNCHANGED vars BY <1>1 DEF vars, SeenShown, Shown
<1>2. CASE Next /\ col' # col
  <2>1. CASE col'.pc \notin {"clear", "report"} BY <2>1 DEF SeenShown
  <2>2. CASE cmds' = cmds /\ col'.seen = Shown(col'.cmd) BY <2>2 DEF SeenShown, Shown
  <2>3. QED BY <1>2, <2>1, <2>2, CollectorActs
<1>3. CASE Next /\ col' = col
  <2>1. CASE col.pc \notin {"clear", "report"} BY <1>3, <2>1 DEF SeenShown
  <2>2. CASE col.pc = "clear"
    <3>1. col.cmd \in Known /\ CaseLocked BY <2>2 DEF IInv, Shape, CollectorOK, CaseLocked
    <3>2. cmds'[col.cmd].status = cmds[col.cmd].status BY <1>3, <3>1, StatusHeld
    <3>3. QED BY <1>3, <2>2, <3>2 DEF SeenShown, Shown
  <2>3. CASE col.pc = "report"
    <3>1. CaseLocked BY <2>3 DEF CaseLocked
    <3>2. cmds'[col.cmd].status = cmds[col.cmd].status
      BY <1>3, <2>3, <3>1, StatusHeld DEF IInv, Shape, CollectorOK
    <3>3. QED BY <1>3, <2>3, <3>2 DEF SeenShown, Shown
  <2>4. QED BY <2>1, <2>2, <2>3
<1>4. QED BY <1>1, <1>2, <1>3

(* The status the collector writes is the one the command has at that        *)
(* moment, although it read it several calls earlier: the row of the case,   *)
(* which it keeps locked, holds off acknowledgements, polls and retries.     *)
THEOREM ShownAlwaysCurrent == Spec => ShownStatusIsCurrent
<1>1. Init => SeenShown BY DEF Init, IdleCollector, SeenShown
<1>2. Spec => [](IInv /\ SeenShown)
  BY <1>1, InvariantHolds, SeenStep, PTL DEF Spec
<1>3. ASSUME IInv, SeenShown, [Next]_vars
      PROVE  [col.pc \in {"clear", "report"} /\ card'.status # card.status
                  => card'.status = Shown(col.cmd)]_vars
  <2>1. SUFFICES ASSUME Next, col.pc \in {"clear", "report"}, card'.status # card.status
                 PROVE  card'.status = Shown(col.cmd)
    BY <1>3
  <2>2. card \in CardType BY <1>3 DEF IInv, Shape, RestOK
  <2>3. card'.status = col.seen
    BY <2>1, <2>2
       DEF Next, create_ui_reply, retry_ui_command, Damage, LeaseRunsOut, SaveCard, Poll,
           AgentStep, get_commands, deliver_command, check_command, write_message, acknowledge,
           lock_unavailable, Crash, CollectorStep, collect_case, relock_case, clear_action,
           restore_send, write_status, write_refusal, collector_fails, CardType
  <2>4. QED BY <1>3, <2>1, <2>3 DEF SeenShown
<1>4. QED BY <1>2, <1>3, PTL DEF Spec, ShownStatusIsCurrent

------------------------------------------------------------------------------
(* The SEND of the operator.                                                 *)

LEMMA ClearedColumn ==
    ASSUME NEW x \in CommandType
    PROVE  /\ Leased(x).cleared = x.cleared /\ Retried(x).cleared = x.cleared
           /\ \A res : Acknowledged(x, res).cleared = x.cleared
           /\ [x EXCEPT !.damaged = TRUE].cleared = x.cleared
           /\ [x EXCEPT !.live = FALSE].cleared = x.cleared
BY DEF CommandType, Leased, Retried, Acknowledged

(* A row that changes without its column cleared.                            *)
LEMMA OneRowUncleared ==
    ASSUME IInv, NEW c \in Known, NEW y, cmds' = [cmds EXCEPT ![c] = y],
           y.cleared = cmds[c].cleared
    PROVE  Uncleared \subseteq Uncleared'
<1>1. Known' = Known /\ \A d \in Known : cmds'[d] = IF d = c THEN y ELSE cmds[d]
  BY DEF Known
<1>2. QED BY <1>1 DEF Uncleared

LEMMA SendStays ==
    ASSUME SendIsKept, card' = card, wanted' \in {wanted, None}, Uncleared \subseteq Uncleared'
    PROVE  SendIsKept'
BY DEF SendIsKept

LEMMA SendPressed ==
    ASSUME card'.send, wanted' # None => card'.text = wanted'
    PROVE  SendIsKept'
BY DEF SendIsKept

(* Rows that are leased, retried, acknowledged or damaged stay uncleared.    *)
LEMMA RowsStepSend ==
    ASSUME IInv, SendIsKept,
           \/ \E c \in Known : retry_ui_command(c) \/ Damage(c) \/ LeaseRunsOut(c)
           \/ \E a \in Agents, received, answered \in BOOLEAN : acknowledge(a, received, answered)
    PROVE  SendIsKept'
<1>1. \A c \in Known : cmds[c] \in CommandType BY RowsAreOK DEF IInv, RowOK
<1>2. card' = card /\ wanted' = wanted
  BY DEF retry_ui_command, Damage, LeaseRunsOut, acknowledge
<1>3. ASSUME NEW c \in Known, retry_ui_command(c) \/ Damage(c) \/ LeaseRunsOut(c)
      PROVE  SendIsKept'
  <2>1. \/ cmds' = [cmds EXCEPT ![c] = Retried(cmds[c])]
        \/ cmds' = [cmds EXCEPT ![c] = [cmds[c] EXCEPT !.damaged = TRUE]]
        \/ cmds' = [cmds EXCEPT ![c] = [cmds[c] EXCEPT !.live = FALSE]]
    BY <1>3 DEF retry_ui_command, Damage, LeaseRunsOut
  <2>2. /\ Retried(cmds[c]).cleared = cmds[c].cleared
        /\ [cmds[c] EXCEPT !.damaged = TRUE].cleared = cmds[c].cleared
        /\ [cmds[c] EXCEPT !.live = FALSE].cleared = cmds[c].cleared
    BY <1>1, ClearedColumn
  <2>3. Uncleared \subseteq Uncleared' BY <2>1, <2>2, OneRowUncleared
  <2>4. QED BY <1>2, <2>3, SendStays
<1>4. ASSUME NEW a \in Agents, NEW received \in BOOLEAN, NEW answered \in BOOLEAN,
             acknowledge(a, received, answered)
      PROVE  SendIsKept'
  <2> DEFINE c == Current(a)
  <2>1. \/ cmds' = cmds
        \/ cmds' = [cmds EXCEPT ![c] = Acknowledged(cmds[c], agents[a].res)]
    BY <1>4 DEF acknowledge
  <2>2. c \in Known
    BY <1>4, Belongs DEF acknowledge, Busy, IInv, Shape, Safe
  <2>3. Acknowledged(cmds[c], agents[a].res).cleared = cmds[c].cleared
    BY <1>1, <2>2, ClearedColumn
  <2>4. cmds' = cmds => Uncleared' = Uncleared BY DEF Uncleared, Known
  <2> HIDE DEF c
  <2>5. Uncleared \subseteq Uncleared' BY <2>1, <2>2, <2>3, <2>4, OneRowUncleared
  <2>6. QED BY <1>2, <2>5, SendStays
<1>5. QED BY <1>3, <1>4

LEMMA PollSend ==
    ASSUME IInv, SendIsKept, NEW a \in Agents, Poll(a),
           \A c \in Uncleared : ~(cmds[c].damaged /\ cmds'[c].cleared)
    PROVE  SendIsKept'
<1>1. \A c \in Known : cmds[c] \in CommandType BY RowsAreOK DEF IInv, RowOK
<1>2. PICK kept \in BOOLEAN : get_commands(a, kept) BY DEF Poll
<1>3. card' = card /\ wanted' = wanted BY <1>2 DEF get_commands
<1>4. /\ Known' = Known
      /\ \A c \in Known : \/ cmds'[c] = Leased(cmds[c])
                          \/ cmds[c].damaged
                          \/ cmds'[c] = cmds[c]
  BY <1>2 DEF get_commands, Known
<1>5. ASSUME NEW c \in Uncleared
      PROVE  c \in Uncleared'
  <2>1. c \in Known /\ ~cmds[c].cleared BY <1>5 DEF Uncleared
  <2>2. Leased(cmds[c]).cleared = cmds[c].cleared BY <1>1, <2>1, ClearedColumn
  <2>3. ~cmds'[c].cleared BY <1>4, <1>5, <2>1, <2>2
  <2>4. QED BY <1>4, <2>1, <2>3 DEF Uncleared
<1>6. QED BY <1>3, <1>5, SendStays

(* The row the collector clears SEND for is uncleared, but for a repeat.     *)
LEMMA CollectorSend ==
    ASSUME IInv, SendIsKept,
           CollectorStep \/ \E recorded, written \in BOOLEAN : collector_fails(recorded, written),
           ~(col.pc = "clear" /\ cmds[col.cmd].cleared)
    PROVE  SendIsKept'
<1>1. card \in CardType BY DEF IInv, Shape, RestOK
<1>2. \A c \in Known : cmds[c] \in CommandType BY RowsAreOK DEF IInv, RowOK
<1>3. /\ [card EXCEPT !.status = col.seen].send = card.send
      /\ [card EXCEPT !.status = col.seen].text = card.text
      /\ [card EXCEPT !.status = "error"].send = card.send
      /\ [card EXCEPT !.status = "error"].text = card.text
      /\ [card EXCEPT !.send = TRUE, !.status = "pending"].send = TRUE
      /\ [card EXCEPT !.send = TRUE, !.status = "pending"].text = card.text
      /\ [card EXCEPT !.send = FALSE, !.status = col.seen].text = card.text
  BY <1>1 DEF CardType
<1>4. col.pc = "clear" => col.cmd \in Uncleared
  BY DEF Uncleared, IInv, Shape, CollectorOK
<1>5. ASSUME cmds' = cmds
      PROVE  Uncleared' = Uncleared
  BY <1>5 DEF Uncleared, Known
<1>6. ASSUME cmds' = cmds, wanted' \in {wanted, None}, card'.text = card.text,
             card.send => card'.send
      PROVE  SendIsKept'
  BY <1>5, <1>6 DEF SendIsKept
<1>7. ASSUME cmds' = cmds, wanted' \in {wanted, None}, card'.text = card.text,
             col.pc = "clear"
      PROVE  SendIsKept'
  BY <1>4, <1>5, <1>7 DEF SendIsKept
<1>8. CASE collect_case
  <2>1. card' = card BY <1>8 DEF collect_case
  <2>2. CASE create_command
    <3>1. wanted # None => wanted = card.text BY DEF SendIsKept
    <3>2. wanted' = None BY <2>2, <3>1 DEF create_command
    <3>3. QED BY <3>2 DEF SendIsKept
  <2>3. CASE report_terminal \/ refuse_empty \/ resume_uncleared
    BY <1>6, <2>1, <2>3 DEF report_terminal, refuse_empty, resume_uncleared
  <2>4. QED BY <1>8, <2>2, <2>3 DEF collect_case
<1>9. CASE relock_case BY <1>6, <1>9 DEF relock_case
<1>10. CASE clear_action
  <2>1. card'.text = card.text BY <1>3, <1>10 DEF clear_action
  <2>2. CASE StillSame /\ wanted' = Answered(col.cmd)
    <3>1. wanted # None => wanted = cmds[col.cmd].text
      BY <2>2 DEF SendIsKept, StillSame, SameReply
    <3>2. wanted' = None BY <2>2, <3>1 DEF Answered
    <3>3. QED BY <3>2 DEF SendIsKept
  <2>3. CASE cmds' = cmds /\ wanted' = wanted BY <1>7, <1>10, <2>1, <2>3 DEF clear_action
  <2>4. QED BY <1>10, <2>2, <2>3 DEF clear_action
<1>11. CASE restore_send
  <2>1. card'.send /\ card'.text = card.text /\ wanted' = wanted
    BY <1>3, <1>11 DEF restore_send
  <2>2. QED BY <2>1 DEF SendIsKept
<1>12. CASE write_status \/ write_refusal
  BY <1>3, <1>6, <1>12 DEF write_status, write_refusal
<1>13. ASSUME NEW recorded \in BOOLEAN, NEW written \in BOOLEAN,
              collector_fails(recorded, written)
       PROVE  SendIsKept'
  <2>1. cmds' = cmds /\ wanted' \in {wanted, None} BY <1>13 DEF collector_fails, Answered
  <2>2. \/ card' = card
        \/ col.pc = "clear" /\ card' = [card EXCEPT !.send = FALSE, !.status = col.seen]
        \/ card' = [card EXCEPT !.send = TRUE, !.status = "pending"]
        \/ card' = [card EXCEPT !.status = col.seen]
        \/ card' = [card EXCEPT !.status = "error"]
    BY <1>13 DEF collector_fails
  <2>3. QED BY <1>3, <1>6, <1>7, <2>1, <2>2
<1>14. QED
  BY <1>8, <1>9, <1>10, <1>11, <1>12, <1>13 DEF CollectorStep

LEMMA OtherSend ==
    ASSUME IInv, SendIsKept,
           \/ UNCHANGED vars
           \/ \E t \in ReplyTexts : create_ui_reply(t)
           \/ \E t \in Texts, pressed \in BOOLEAN : SaveCard(t, pressed)
           \/ \E a \in Agents : \/ deliver_command(a) \/ lock_unavailable(a) \/ Crash(a)
                               \/ \E refusal \in RefusalCodes \cup {None} : check_command(a, refusal)
                               \/ \E posted \in BOOLEAN : write_message(a, posted)
    PROVE  SendIsKept'
<1>1. ASSUME cmds' = cmds, card' = card, wanted' = wanted
      PROVE  SendIsKept'
  <2>1. Uncleared' = Uncleared BY <1>1 DEF Uncleared, Known
  <2>2. QED BY <1>1, <2>1, SendStays
<1>2. CASE UNCHANGED vars BY <1>1, <1>2 DEF vars
<1>3. ASSUME NEW t \in ReplyTexts, create_ui_reply(t)
      PROVE  SendIsKept'
  <2>1. cmds \in Seq(CommandType) /\ t \in Texts
    BY RepliesAssumption DEF IInv, Shape, RowsOK
  <2>2. card' = card /\ wanted' = wanted BY <1>3 DEF create_ui_reply
  <2>3. PICK row \in CommandType : cmds' = Append(cmds, row)
    BY <1>3, <2>1, NewRowOK DEF create_ui_reply, RowOK
  <2>4. /\ cmds' \in Seq(CommandType) /\ Len(cmds') = Len(cmds) + 1
        /\ \A d \in 1..Len(cmds) : cmds'[d] = cmds[d]
    BY <2>1, <2>3, AppendProperties
  <2>5. /\ Known = 1..Len(cmds) /\ Known' = 1..Len(cmds') /\ Len(cmds) \in Nat
    BY <2>1, <2>4, LenProperties DEF Known
  <2>6. Uncleared \subseteq Uncleared' BY <2>4, <2>5 DEF Uncleared
  <2>7. QED BY <2>2, <2>6, SendStays
<1>4. ASSUME NEW t \in Texts, NEW pressed \in BOOLEAN, SaveCard(t, pressed)
      PROVE  SendIsKept'
  <2>1. card \in CardType BY DEF IInv, Shape, RestOK
  <2>2. CASE pressed
    <3>1. card'.send /\ card'.text = t /\ wanted' = t
      BY <1>4, <2>1, <2>2 DEF SaveCard, CardType
    <3>2. QED BY <3>1, SendPressed
  <2>3. CASE ~pressed BY <1>4, <2>3 DEF SaveCard, SendIsKept
  <2>4. QED BY <2>2, <2>3
<1>5. CASE \E a \in Agents : \/ deliver_command(a) \/ lock_unavailable(a) \/ Crash(a)
                            \/ \E refusal \in RefusalCodes \cup {None} : check_command(a, refusal)
                            \/ \E posted \in BOOLEAN : write_message(a, posted)
  BY <1>1, <1>5 DEF deliver_command, lock_unavailable, Crash, check_command, write_message
<1>6. QED BY <1>2, <1>3, <1>4, <1>5

(* No step loses a SEND the operator gave but the two the property names: a  *)
(* second clearing for a repeated SEND, and the quarantine of the row whose  *)
(* tick would restore it.  Crashes and lost answers of Bitrix24 included.    *)
THEOREM NoOtherStepLosesSend == Spec => SendIsLostOnlySo
<1>1. ASSUME IInv, [Next]_vars
      PROVE  [SendIsKept /\ ~SendIsKept' =>
                 \/ col.pc = "clear" /\ cmds[col.cmd].cleared
                 \/ \E c \in Uncleared : cmds[c].damaged /\ cmds'[c].cleared]_vars
  <2>1. SUFFICES ASSUME Next, SendIsKept, ~(col.pc = "clear" /\ cmds[col.cmd].cleared),
                        \A c \in Uncleared : ~(cmds[c].damaged /\ cmds'[c].cleared)
                 PROVE  SendIsKept'
    BY <1>1
  <2>2. CASE CollectorStep \/ \E recorded, written \in BOOLEAN : collector_fails(recorded, written)
    BY <1>1, <2>1, <2>2, CollectorSend
  <2>3. CASE \E c \in Known : retry_ui_command(c) \/ Damage(c) \/ LeaseRunsOut(c)
    BY <1>1, <2>1, <2>3, RowsStepSend
  <2>4. CASE \/ \E t \in ReplyTexts : create_ui_reply(t)
             \/ \E t \in Texts, pressed \in BOOLEAN : SaveCard(t, pressed)
    BY <1>1, <2>1, <2>4, OtherSend
  <2>5. ASSUME NEW a \in Agents, Poll(a)
        PROVE  SendIsKept'
    BY <1>1, <2>1, <2>5, PollSend
  <2>6. ASSUME NEW a \in Agents, AgentStep(a) \/ lock_unavailable(a) \/ Crash(a)
        PROVE  SendIsKept'
    BY <1>1, <2>1, <2>6, OtherSend, RowsStepSend DEF AgentStep
  <2>7. QED BY <2>1, <2>2, <2>3, <2>4, <2>5, <2>6 DEF Next
<1>2. QED BY <1>1, InvariantHolds, PTL DEF Spec, SendIsLostOnlySo

==============================================================================
