-------------------------- MODULE MCSiteServiceReplies --------------------------
(* Replies to one request of the site, on small instances.                   *)
EXTENDS SiteServiceReplies
==============================================================================
