---------------------------- MODULE VersionedDoc ----------------------------
(***************************************************************************)
(* What sharedb.Server promises its callers about one document: creating,  *)
(* submitting, rolling back and deleting each take effect in one step on a *)
(* log of operations and on the documents they produced.                   *)
(***************************************************************************)
EXTENDS Integers, Sequences

CONSTANTS
  Requests, MaxRebaseGap, Err, Malformed, NoSource,
  IsEmptyOp(_), ApplyOp(_, _), TransformOp(_, _)

VARIABLES
  log,      \* the committed operation records
  docs      \* the document at version 0, 1, ..., empty when there is none

absVars == <<log, docs>>

Version == Len(log)
Current == docs[Len(docs)]

\* op rebased over the records of l after version base, oldest first.
RebaseOver(op, l, base) ==
  LET over[v \in base..Len(l)] ==
        IF v = base THEN op
        ELSE IF over[v - 1] = Err THEN Err
        ELSE TransformOp(over[v - 1], l[v].op)
  IN  over[Len(l)]

Unseen(r) ==
  r.source # NoSource /\ r.seq > 0 =>
    \A v \in DOMAIN log : log[v].source # r.source \/ log[v].seq # r.seq

Create(r) ==
  /\ r.kind = "create" /\ docs = <<>>
  /\ log' = <<>> /\ docs' = <<r.payload>>

Extend(entry, doc) ==
  /\ log' = Append(log, entry)
  /\ docs' = Append(docs, doc)

Submit(r) ==
  /\ r.kind = "submit" /\ docs # <<>>
  /\ r.base \in 0..Version
  /\ MaxRebaseGap > 0 => Version - r.base <= MaxRebaseGap
  /\ r.payload # Malformed
  /\ Unseen(r)
  /\ LET op == RebaseOver(r.payload, log, r.base)
     IN  /\ op # Err /\ ~IsEmptyOp(op) /\ ApplyOp(Current, op) # Err
         /\ Extend([version |-> Version + 1, base |-> r.base,
                    source |-> r.source, seq |-> r.seq,
                    sub |-> r.payload, op |-> op],
                   ApplyOp(Current, op))

\* Some operation that takes the document back to what it was at version base.
Rollback(r) ==
  /\ r.kind = "rollback" /\ docs # <<>>
  /\ r.base \in 0..(Version - 1)
  /\ Len(log') = Len(log) + 1
  /\ LET op == log'[Version + 1].op
     IN  /\ ApplyOp(Current, op) = docs[r.base + 1]
         /\ Extend([version |-> Version + 1, base |-> Version,
                    source |-> r.source, seq |-> 0, sub |-> op, op |-> op],
                   docs[r.base + 1])

Delete(r) ==
  /\ r.kind = "delete" /\ docs # <<>> /\ r.base = Version
  /\ log' = <<>> /\ docs' = <<>>

Init == log = <<>> /\ docs = <<>>
Next == \E r \in Requests : Create(r) \/ Submit(r) \/ Rollback(r) \/ Delete(r)
Spec == Init /\ [][Next]_absVars
=============================================================================
