------------------------------ MODULE MCSession -----------------------------
(***************************************************************************)
(* A bound on Session for TLC.  A client that retries does not also        *)
(* acknowledge; and when another client has committed too, it retries      *)
(* either on the connection it has or on one that it opened, from a cursor *)
(* the mailbox knows, after the handler of the one before had ended.       *)
(***************************************************************************)
EXTENDS Session

Joined == \E n \in DOMAIN published : ~published[n].own
Reconnected ==
  \A c \in Conns : job[c].cursor # Stale /\ (c < current => pc[c] = "end")

FewMessages == (acks > 0 => tries <= 1) /\ (tries > 1 /\ Joined => Reconnected)
=============================================================================
