---------------------------- MODULE MCDocServer -----------------------------
(***************************************************************************)
(* DocServer with the OT functions of ListOT, on small sets of requests.   *)
(***************************************************************************)
EXTENDS DocServer, TLC

OT == INSTANCE ListOT

MCApply(doc, op) == OT!Apply(doc, op)
MCTransform(op, base) == OT!Transform(op, base)
MCInvert(op) == OT!Invert(op)
MCCompose(op, other) == OT!Compose(op, other)
MCIsEmpty(op) == OT!IsEmpty(op)
MCNoOp == OT!NoOperation

CONSTANTS x, y, z, alice, bob, p1, p2, s1

Request(kind, base, source, seq, payload) ==
  [kind |-> kind, base |-> base, to |-> base + 1, source |-> source,
   seq |-> seq, payload |-> payload]
Plain(kind, base) == Request(kind, base, NoSource, 0, MCNoOp)

New == Request("create", 0, NoSource, 0, <<x>>)
Delx == <<OT!Delete(0, x)>>
Addy == <<OT!Insert(0, y)>>
Addz == <<OT!Insert(0, z)>>
Addyz == <<OT!Insert(0, y), OT!Insert(1, z)>>

\* A bit of everything: an edit, its retry, a conflicting reuse of its identity,
\* a concurrent edit, a deletion, a rollback and reads of old versions.
AllRequests ==
  { New, Request("submit", 0, alice, 1, Addy), Request("submit", 0, alice, 1, Delx),
    Request("submit", 0, bob, 1, Addz), Plain("delete", 1), Plain("rollback", 0),
    Plain("snapshotAt", 0), Plain("getOps", 0) }

\* What changes the document, on bases near and far: edits that move or cancel
\* one another, one of several components, one without identity, a bad version,
\* a bad payload, and deletions between them.
WriterRequests ==
  { New,
    Request("submit", 0, alice, 1, Delx), Request("submit", 0, bob, 1, Delx),
    Request("submit", 1, bob, 2, Addyz),  Request("submit", 0, NoSource, 0, Addz),
    Request("submit", -1, bob, 3, Addz),  Request("submit", 0, bob, 4, Malformed),
    Plain("delete", 0), Plain("delete", 2) }

\* Reads of old versions, and rollbacks to them, next to edits.
HistoryRequests ==
  { New, Request("submit", 0, alice, 1, Delx), Request("submit", 0, bob, 1, Addy),
    Plain("snapshotAt", 0), Plain("snapshotAt", 1), Plain("rollback", 0),
    Plain("getOps", 1) }

\* Old versions are read while the document is deleted and created again.
RecreateRequests ==
  { New, Request("submit", 0, NoSource, 0, Addy),
    Request("submit", 0, NoSource, 0, <<OT!Insert(1, z)>>),
    Plain("delete", 1), Plain("snapshotAt", 0) }
RecreateSubmitRequests ==
  { New, Request("submit", 0, NoSource, 0, Addy),
    Request("submit", 0, NoSource, 0, Delx), Plain("delete", 1),
    Plain("snapshotAt", 0) }

\* Insertions at the head of the list and rollbacks to the beginning.
RepeatedRollbackRequests ==
  { New, Request("submit", 0, NoSource, 0, Addy),
    Request("submit", 1, NoSource, 0, Addz), Plain("rollback", 0) }

Workers2 == Permutations({p1, p2})
=============================================================================
