------------------------------- MODULE Mailbox ------------------------------
(***************************************************************************)
(* MemoryMailboxStore for one session, and the replay decision made on it. *)
(* A mailbox is a sequence of envelopes with an id each; a cursor is an    *)
(* id, or NoCursor for the empty string.                                   *)
(***************************************************************************)
EXTENDS Integers, Sequences, FiniteSetsExt

NoCursor == 0
NotFound == -1

Ids(box) == { box[i].id : i \in DOMAIN box }

\* The place of a cursor: 0 before the first envelope, NotFound for an unknown.
Place(box, cursor) ==
  IF cursor = NoCursor THEN 0
  ELSE IF cursor \in Ids(box) THEN CHOOSE i \in DOMAIN box : box[i].id = cursor
  ELSE NotFound

\* Append refuses an ID that is taken.
MayAppend(box, env) == env.id \notin Ids(box)

\* ReplayAfter: at most limit envelopes behind the cursor, which is known.
ReplayAfter(box, cursor, limit) ==
  LET start == Place(box, cursor)
      end   == IF limit > 0 /\ start + limit < Len(box) THEN start + limit ELSE Len(box)
  IN  SubSeq(box, start + 1, end)

\* ReplaySessionMailbox: a cursor that is not found asks for a resync.
RequiresResync(box, cursor) == Place(box, cursor) = NotFound
Replay(box, cursor, limit) ==
  IF RequiresResync(box, cursor) THEN <<>> ELSE ReplayAfter(box, cursor, limit)

\* Mutant of AckThrough: the last acknowledgement to arrive wins.
AckThrough_Last(box, acked, id) == IF Place(box, id) >= 0 THEN id ELSE acked

\* AckThrough moves the cursor forward only; an unknown ID is an error.
AckThrough(box, acked, id) ==
  IF id # NoCursor /\ Place(box, id) > Place(box, acked) THEN id ELSE acked

\* maxReplayEnvelopeVersion
MaxVersion(envs) == Max({0} \cup { envs[i].version : i \in DOMAIN envs })
=============================================================================
