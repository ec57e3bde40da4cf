---------------------------- MODULE MCRedisServer ---------------------------
(***************************************************************************)
(* RedisServer with symbolic operations: an operation remembers what it    *)
(* was transformed over, a document what was applied to it, so that every  *)
(* confusion of two records shows.                                         *)
(***************************************************************************)
EXTENDS RedisServer, TLC

CONSTANTS n1, n2, p1, p2, alice, bob, edit, cut, none

Op(sub) == [sub |-> sub, over |-> <<>>]
MCNoOp == Op(none)
MCApply(doc, op) == Append(IF doc = Nil THEN <<>> ELSE doc, op.sub)

\* Two that cut the same thing leave nothing of the second.
MCTransform(op, base) ==
  IF op.sub \in {none, cut} /\ base.sub = op.sub THEN MCNoOp
  ELSE [op EXCEPT !.over = Append(@, base.sub)]

Request(kind, base, source, seq, payload) ==
  [kind |-> kind, base |-> base, source |-> source, seq |-> seq,
   payload |-> payload]
Plain(kind, base) == Request(kind, base, NoSource, 0, MCNoOp)

New == Request("create", 0, NoSource, 0, <<>>)

\* Two clients edit and cut, one retries, and the document comes and goes.
LifecycleRequests ==
  { New, Request("submit", 0, alice, 1, Op(edit)), Request("submit", 0, bob, 1, Op(cut)),
    Plain("delete", 0), Plain("delete", 1), Plain("snapshot", 0) }
\* An edit, another after the document came anew, and a third behind it.
RecreateRequests ==
  { New, Request("submit", 0, NoSource, 0, Op(edit)),
    Request("submit", 0, NoSource, 0, Op(cut)), Plain("delete", 1) }

\* Nothing is claimed of what follows an overrun.
Serial == ~overrun

OnNodes == (p1 :> n1) @@ (p2 :> n2)
=============================================================================
