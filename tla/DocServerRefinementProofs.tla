---------------------- MODULE DocServerRefinementProofs ----------------------
(***************************************************************************)
(* What the calls of DocServer come to, for every value of its constants:  *)
(* the stored document is the replay of the log, and the server implements *)
(* VersionedDoc.  A rollback commits as an operation the composition of    *)
(* inverses, which need not lead to the document it commits; that it does  *)
(* is a hypothesis of the theorems here.                                   *)
(***************************************************************************)
EXTENDS DocServerHistoryProofs

\* The operation a rollback is about to commit leads to the document it is about
\* to commit.
RollbacksReplay ==
  \A p \in Procs :
    pc[p] = "commit" /\ Kind(p) = "rollback" /\ stored # NoDoc =>
      ApplyOp(stored.doc, acc[p].op) = acc[p].doc

\* And what it has undone could be undone.
RollbacksUndo ==
  \A p \in Procs :
    pc[p] = "commit" /\ Kind(p) = "rollback" /\ stored # NoDoc => Undoable(p)

-----------------------------------------------------------------------------
(***************************************************************************)
(* What a call has checked on its way to its write.                        *)
(***************************************************************************)

Prepared(p) ==
  /\ Kind(p) = "submit" /\ pc[p] \in {"work", "fill", "commit"} =>
       ~TooStale(p) /\ req[p].payload # Malformed
  /\ Kind(p) = "submit" /\ pc[p] = "commit" =>
       /\ acc[p].doc = ApplyOp(rec[p].doc, acc[p].op)
       /\ acc[p].doc # Err /\ ~IsEmptyOp(acc[p].op)
  /\ Kind(p) = "rollback" /\ pc[p] \in Deciding => req[p].base < rec[p].version
  /\ pc[p] = "delete" => req[p].base = rec[p].version

\* The copy of the document a writer works on is the stored document.
CopiedDoc(p) ==
  Kind(p) \in {"submit", "rollback"} /\ pc[p] \in Deciding => rec[p].doc = stored.doc

\* The checks of a call's own steps.
LEMMA PreparedOwn ==
  ASSUME TypeOK, NEW p \in Procs, Prepared(p), Call(p) \/ Lock(p) \/ Step(p)
  PROVE  Prepared(p)'
<1> USE DEF TypeOK, ControlOK, LocalsOK, Fail, Return, Goto, Prepared, Kind, Kinds, Deciding,
            TooStale, localVars
<1> USE LabelsByKind
<1>1. CASE Call(p)
  <2>1. pc'[p] \in {"lock", "snapDoc", "opsDoc"} /\ (pc'[p] = "opsDoc" => Kind(p)' = "getOps")
    BY <1>1, RequestAssumption DEF Call, Locking
  <2> QED
    BY <2>1
<1>2. CASE Lock(p) \/ Unlock(p) \/ Create(p)
  BY <1>2 DEF Lock, Unlock, Create
<1>3. CASE ReadForDelete(p)
  BY <1>3 DEF ReadForDelete, Snapshot
<1>4. CASE Delete(p) \/ Clear(p)
  BY <1>4 DEF Delete, Clear
<1>5. CASE ReadForSubmit(p)
  BY <1>5 DEF ReadForSubmit
<1>6. CASE Dedup(p)
  BY <1>6 DEF Dedup
<1>7. CASE Parse(p)
  BY <1>7 DEF Parse
<1>8. CASE ReadForRollback(p)
  <2>1. Kind(p)' = "rollback" /\ req' = req /\ pc'[p] # "delete"
    BY <1>8 DEF ReadForRollback
  <2>2. pc'[p] \in Deciding => req[p].base < stored.version /\ rec'[p].version = stored.version
    <3> SUFFICES ASSUME pc'[p] \in Deciding
                 PROVE  req[p].base < stored.version /\ rec'[p].version = stored.version
      OBVIOUS
    <3>1. /\ stored # NoDoc /\ rec' = [rec EXCEPT ![p] = Snapshot]
          /\ ~(req[p].base > stored.version) /\ req[p].base # stored.version
      BY <1>8 DEF ReadForRollback
    <3>2. stored.version \in Nat /\ req[p].base \in Int
      BY <3>1 DEF StoredOK
    <3>3. rec'[p].version = stored.version
      BY <3>1 DEF Snapshot
    <3> QED
      BY <3>1, <3>2, <3>3
  <2> QED
    BY <2>1, <2>2
<1>9. CASE ReadForSnapshot(p)
  BY <1>9 DEF ReadForSnapshot
<1>10. CASE CheckRange(p) \/ FetchRange(p)
  BY <1>10 DEF CheckRange, FetchRange
<1>11. CASE Hit(p) \/ Miss(p) \/ Fill(p)
  BY <1>11 DEF Hit, Miss, Fill, Absorb
<1>12. CASE Finish(p)
  <2>1. UNCHANGED <<rec, req>> /\ pc[p] = "work" /\ pc'[p] \in {"commit", "unlock", "idle"}
    <3>1. UNCHANGED <<rec, req>> /\ pc[p] = "work"
      BY <1>12 DEF Finish
    <3>2. (\E result : Return(p, result)) \/ Goto(p, "commit")
      BY <1>12, FinishFacts
    <3> QED
      BY <3>1, <3>2
  <2>2. Kind(p) = "submit" /\ pc'[p] = "commit" =>
          /\ acc'[p].doc = ApplyOp(rec[p].doc, acc'[p].op)
          /\ acc'[p].doc # Err /\ ~IsEmptyOp(acc'[p].op)
    <3> SUFFICES ASSUME Kind(p) = "submit", pc'[p] = "commit"
                 PROVE  /\ acc'[p].doc = ApplyOp(rec[p].doc, acc'[p].op)
                        /\ acc'[p].doc # Err /\ ~IsEmptyOp(acc'[p].op)
      OBVIOUS
    <3>1. PICK doc : doc = ApplyOp(rec[p].doc, acc[p].op)
      OBVIOUS
    <3>2. ~IsEmptyOp(acc[p].op) /\ doc # Err /\ acc' = [acc EXCEPT ![p].doc = doc]
      BY <1>12, <3>1 DEF Finish
    <3>3. acc'[p].doc = doc /\ acc'[p].op = acc[p].op
      BY <3>2
    <3> QED
      BY <3>1, <3>2, <3>3
  <2> QED
    BY <2>1, <2>2
<1>13. CASE Commit(p) \/ CacheCommitted(p) \/ Announce(p)
  BY <1>13 DEF Commit, CacheCommitted, Announce
<1> QED
  BY <1>1, <1>2, <1>3, <1>4, <1>5, <1>6, <1>7, <1>8, <1>9, <1>10, <1>11, <1>12, <1>13 DEF Step

\* The copies of a call's own steps.
LEMMA CopiedOwn ==
  ASSUME TypeOK, NEW p \in Procs, CopiedDoc(p), Call(p) \/ Lock(p) \/ Step(p)
  PROVE  CopiedDoc(p)'
<1> USE DEF TypeOK, ControlOK, LocalsOK, Fail, Return, Goto, CopiedDoc, Kind, Kinds, Deciding,
            localVars, backendVars
<1> USE LabelsByKind
<1>1. CASE Call(p)
  <2>1. pc'[p] \in {"lock", "snapDoc", "opsDoc"} /\ (pc'[p] = "opsDoc" => Kind(p)' = "getOps")
    BY <1>1, RequestAssumption DEF Call, Locking
  <2> QED
    BY <2>1
<1>2. CASE Lock(p) \/ Unlock(p) \/ Create(p)
  BY <1>2 DEF Lock, Unlock, Create
<1>3. CASE ReadForDelete(p) \/ Delete(p) \/ Clear(p)
  BY <1>3 DEF ReadForDelete, Delete, Clear
<1>4. CASE ReadForSubmit(p)
  BY <1>4 DEF ReadForSubmit, Snapshot
<1>5. CASE Dedup(p) \/ Parse(p)
  BY <1>5 DEF Dedup, Parse
<1>6. CASE ReadForRollback(p)
  BY <1>6 DEF ReadForRollback, Snapshot
<1>7. CASE ReadForSnapshot(p) \/ CheckRange(p) \/ FetchRange(p)
  BY <1>7 DEF ReadForSnapshot, CheckRange, FetchRange
<1>8. CASE Hit(p) \/ Miss(p) \/ Fill(p)
  BY <1>8 DEF Hit, Miss, Fill, Absorb
<1>9. CASE Finish(p)
  BY <1>9 DEF Finish
<1>10. CASE Commit(p) \/ CacheCommitted(p) \/ Announce(p)
  BY <1>10 DEF Commit, CacheCommitted, Announce
<1> QED
  BY <1>1, <1>2, <1>3, <1>4, <1>5, <1>6, <1>7, <1>8, <1>9, <1>10 DEF Step

\* What another call does leaves them as they are: a writer that decides is alone
\* in writing.
LEMMA PreparedOthers ==
  ASSUME Inv, NEW p \in Procs, NEW q \in Procs, q # p, Prepared(q), CopiedDoc(q),
         Call(p) \/ Lock(p) \/ Step(p)
  PROVE  Prepared(q)' /\ CopiedDoc(q)'
<1>1. /\ pc'[q] = pc[q] /\ req'[q] = req[q] /\ rec'[q] = rec[q] /\ acc'[q] = acc[q]
  BY StepFrame DEF Others, Inv
<1>2. Prepared(q)'
  BY <1>1 DEF Prepared, Kind, TooStale
<1>3. CASE UNCHANGED backendVars
  BY <1>1, <1>2, <1>3 DEF CopiedDoc, Kind, backendVars
<1>4. CASE ~UNCHANGED backendVars
  <2>1. Create(p) \/ Delete(p) \/ Commit(p)
    BY <1>4
    DEF Call, Lock, Step, Unlock, ReadForDelete, Clear, ReadForSubmit, Dedup, Parse,
        ReadForRollback, ReadForSnapshot, CheckRange, FetchRange, Hit, Miss, Fill, Finish,
        CacheCommitted, Announce
  <2>2. ~(Kind(q) \in {"submit", "rollback"} /\ pc[q] \in Deciding)
    BY <2>1, WriterAlone DEF Reader
  <2> QED
    BY <1>1, <1>2, <2>2 DEF CopiedDoc, Kind
<1> QED
  BY <1>3, <1>4

\* What the stored document is, and what a writer is about to write.
WriterInv ==
  /\ Inv /\ Writes /\ TrailOK
  /\ \A p \in Procs : Prepared(p) /\ CopiedDoc(p)

\* A server nobody has called is about to write nothing.
LEMMA WriterInit == Init => WriterInv
  BY HistoryInit
  DEF HistoryInv, WriterInv, Init, Prepared, CopiedDoc, Kind, Deciding

\* Every step keeps a writer's checks and its copy good.
LEMMA WriterNext == ASSUME NoDocIsNoRecord PROVE WriterInv /\ [Next]_vars => WriterInv'
<1> SUFFICES ASSUME WriterInv, [Next]_vars PROVE WriterInv'
  OBVIOUS
<1>1. Inv' /\ Writes' /\ TrailOK'
  BY InvNext, WritesNext, TrailNext DEF WriterInv
<1>2. ASSUME NEW q \in Procs PROVE Prepared(q)' /\ CopiedDoc(q)'
  <2>1. Inv /\ Prepared(q) /\ CopiedDoc(q) /\ TypeOK
    BY DEF WriterInv, Inv
  <2>2. ASSUME UNCHANGED <<stored, pc, req, rec, acc>> PROVE Prepared(q)' /\ CopiedDoc(q)'
    BY <2>1, <2>2 DEF Prepared, CopiedDoc, Kind, TooStale
  <2>3. ASSUME NEW p \in Procs, Call(p) \/ Lock(p) \/ Step(p)
        PROVE  Prepared(q)' /\ CopiedDoc(q)'
    <3>1. CASE p = q
      BY <2>1, <2>3, <3>1, PreparedOwn, CopiedOwn
    <3>2. CASE p # q
      BY <2>1, <2>3, <3>2, PreparedOthers
    <3> QED
      BY <3>1, <3>2
  <2>4. ASSUME NEW s \in Subs, SubscriberStep(s) PROVE Prepared(q)' /\ CopiedDoc(q)'
    <3>1. UNCHANGED <<stored, pc, req, rec, acc>>
      BY <2>4 DEF SubscriberStep, SubscribeCheck, Subscribe, Cancel, Receive, backendVars,
                  localVars
    <3> QED
      BY <2>2, <3>1
  <2> QED
    BY <2>2, <2>3, <2>4 DEF Next, Terminated, vars
<1> QED
  BY <1>1, <1>2 DEF WriterInv

-----------------------------------------------------------------------------
(* The stored document is the replay of the log *)

\* A commit stores the document its operation leads to.
LEMMA CommitReplays ==
  ASSUME NoDocIsNoRecord, WriterInv, RollbacksReplay, NEW p \in Procs, Commit(p)
  PROVE  /\ stored # NoDoc /\ rec[p].version = stored.version
         /\ acc[p].doc = ApplyOp(trail[stored.version + 1], acc[p].op)
<1>1. Kind(p) \in {"submit", "rollback"} /\ pc[p] = "commit"
  BY LabelsByKind DEF Commit, Kinds, WriterInv, Inv, TypeOK, ControlOK
<1>2. stored # NoDoc /\ rec[p].version = stored.version
  BY WritesCommit DEF WriterInv
<1>3. stored.doc = trail[stored.version + 1]
  BY <1>2 DEF WriterInv, TrailOK
<1>4. CASE Kind(p) = "submit"
  <2>1. acc[p].doc = ApplyOp(rec[p].doc, acc[p].op) /\ rec[p].doc = stored.doc
    BY <1>1, <1>4 DEF WriterInv, Prepared, CopiedDoc, Deciding
  <2> QED
    BY <1>2, <1>3, <2>1
<1>5. CASE Kind(p) = "rollback"
  BY <1>1, <1>2, <1>3, <1>5 DEF RollbacksReplay
<1> QED
  BY <1>1, <1>2, <1>4, <1>5

\* So a step that writes leaves the document the replay of the log.
LEMMA ReplayNext ==
  ASSUME NoDocIsNoRecord, WriterInv, RollbacksReplay, SnapshotIsReplay, [Next]_vars
  PROVE  SnapshotIsReplay'
<1>1. CASE UNCHANGED backendVars
  BY <1>1 DEF backendVars, SnapshotIsReplay
<1>2. ASSUME NEW p \in Procs, Create(p), ~UNCHANGED backendVars PROVE SnapshotIsReplay'
  <2>1. CreateDoc(req[p].payload)
    BY <1>2 DEF Create
  <2>2. stored'.doc = req[p].payload /\ trail' = <<req[p].payload>> /\ stored'.ops = <<>>
    BY <2>1 DEF CreateDoc
  <2>3. /\ Len(trail') = 1 /\ trail'[1] = req[p].payload
        /\ Len(stored'.ops) = 0 /\ DOMAIN stored'.ops = {}
    BY <2>2, EmptyIsSeq
  <2> QED
    BY <2>2, <2>3 DEF SnapshotIsReplay
<1>3. ASSUME NEW p \in Procs, Delete(p) PROVE SnapshotIsReplay'
  <2>1. stored' = NoDoc
    BY <1>3, WritesDelete DEF WriterInv
  <2> QED
    BY <2>1 DEF SnapshotIsReplay
<1>4. ASSUME NEW p \in Procs, Commit(p) PROVE SnapshotIsReplay'
  <2> DEFINE log == stored.ops
             docs == trail
             n == stored.version
  <2>1. PICK e, doc : e = Entry(p) /\ doc = acc[p].doc
    OBVIOUS
  <2>2. /\ n \in Nat /\ IsSeq(log) /\ Len(log) = n /\ stored'.ops = Append(log, e)
        /\ trail' = Append(docs, doc) /\ stored'.doc = doc
        /\ IsSeq(docs) /\ Len(docs) = n + 1
    BY <1>4, <2>1, CommitGrows DEF WriterInv, TrailOK
  <2>3. doc = ApplyOp(docs[n + 1], e.op) /\ stored # NoDoc
    BY <1>4, <2>1, CommitReplays DEF Entry
  <2>4. \A v \in DOMAIN log : docs[v + 1] = ApplyOp(docs[v], log[v].op)
    BY <2>3 DEF SnapshotIsReplay
  <2> HIDE DEF log, docs, n
  <2>5. /\ DOMAIN Append(log, e) = 1..(n + 1) /\ DOMAIN log = 1..n
        /\ Len(Append(log, e)) = n + 1
        /\ (\A i \in 1..n : Append(log, e)[i] = log[i]) /\ Append(log, e)[n + 1] = e
    BY <2>2, AppendFacts, IsSeqFacts
  <2>6. /\ Len(Append(docs, doc)) = n + 2 /\ DOMAIN docs = 1..(n + 1)
        /\ (\A i \in 1..(n + 1) : Append(docs, doc)[i] = docs[i])
        /\ Append(docs, doc)[n + 2] = doc
    <3>1. Len(Append(docs, doc)) = Len(docs) + 1 /\ Append(docs, doc)[Len(docs) + 1] = doc
      BY <2>2, AppendFacts
    <3>2. Len(docs) + 1 = n + 2
      BY <2>2
    <3> QED
      BY <2>2, <3>1, <3>2, AppendFacts, IsSeqFacts
  <2>7. ASSUME NEW v \in 1..(n + 1)
        PROVE  Append(docs, doc)[v + 1] = ApplyOp(Append(docs, doc)[v], Append(log, e)[v].op)
    <3>1. CASE v = n + 1
      <4>1. v + 1 = n + 2 /\ v \in 1..(n + 1)
        BY <2>2, <3>1
      <4> QED
        BY <2>3, <2>5, <2>6, <3>1, <4>1
    <3>2. CASE v \in 1..n
      <4>1. v + 1 \in 1..(n + 1) /\ v \in 1..(n + 1)
        BY <2>2, <3>2
      <4> QED
        BY <2>4, <2>5, <2>6, <3>2, <4>1
    <3> QED
      BY <2>2, <3>1, <3>2
  <2>8. /\ Len(trail') = Len(stored'.ops) + 1 /\ stored'.doc = trail'[Len(trail')]
        /\ \A v \in DOMAIN stored'.ops : trail'[v + 1] = ApplyOp(trail'[v], stored'.ops[v].op)
    <3>1. n + 2 = (n + 1) + 1
      BY <2>2
    <3> QED
      BY <2>2, <2>5, <2>6, <2>7, <3>1
  <2> QED
    BY <2>8 DEF SnapshotIsReplay
<1> QED
  BY <1>1, <1>2, <1>3, <1>4, BackendStep

\* The stored document is what applying the logged operations to the created one
\* gives, as long as every rollback commits an operation that leads to the
\* document it commits: whatever the submissions, retries and deletions around.
THEOREM SnapshotIsReplayCorrect ==
  ASSUME NoDocIsNoRecord PROVE Spec /\ []RollbacksReplay => []SnapshotIsReplay
<1>1. Init => SnapshotIsReplay
  BY DEF Init, SnapshotIsReplay
<1>2. WriterInv /\ RollbacksReplay /\ SnapshotIsReplay /\ [Next]_vars => SnapshotIsReplay'
  BY ReplayNext
<1>3. WriterInv /\ [Next]_vars => WriterInv'
  BY WriterNext
<1> QED
  BY <1>1, <1>2, <1>3, WriterInit, PTL DEF Spec

\* Which is so when nobody rolls back.
THEOREM SubmissionsReplay ==
  ASSUME NoDocIsNoRecord, NoRollbacks PROVE Spec => []SnapshotIsReplay
<1>1. Init => InRequests
  BY DEF Init, InRequests
<1>2. WriterInv /\ InRequests /\ [Next]_vars => InRequests'
  BY RequestsNext DEF WriterInv, Inv
<1>3. InRequests => RollbacksReplay
  BY DEF InRequests, RollbacksReplay, NoRollbacks, Kind
<1>4. WriterInv /\ [Next]_vars => WriterInv'
  BY WriterNext
<1>5. Spec => []RollbacksReplay
  BY <1>1, <1>2, <1>3, <1>4, WriterInit, PTL DEF Spec
<1> QED
  BY <1>5, SnapshotIsReplayCorrect, PTL

-----------------------------------------------------------------------------
(***************************************************************************)
(* The refinement.  A creation, a commit and the removal of a document are *)
(* steps of VersionedDoc; all others are stutters.                         *)
(***************************************************************************)

\* The abstract log and documents, of a state with a document.
LEMMA Mapped ==
  ASSUME WriterInv, stored # NoDoc
  PROVE  /\ History!Version = stored.version /\ History!Current = stored.doc
         /\ trail # <<>> /\ stored.version \in Nat
         /\ IsSeq(stored.ops) /\ Len(stored.ops) = stored.version
<1>1. /\ stored.version \in Nat /\ Len(stored.ops) = stored.version /\ IsSeq(stored.ops)
      /\ IsSeq(trail) /\ Len(trail) = stored.version + 1
      /\ stored.doc = trail[stored.version + 1]
  BY DEF WriterInv, Inv, TypeOK, StoredOK, LogMatchesVersion, TrailOK
<1>2. trail # <<>>
  BY <1>1, EmptyIsSeq
<1> QED
  BY <1>1, <1>2 DEF History!Version, History!Current

\* The whole of a log is its own prefix.
LEMMA WholeLog == ASSUME NEW l, IsSeq(l) PROVE SubSeq(l, 1, Len(l)) = l
<1>1. PICK n \in Nat : n = Len(l)
  BY IsSeqFacts
<1>2. n \in 0..Len(l) /\ 0..Len(l) = 0..n
  BY <1>1
<1>3. /\ IsSeq(SubSeq(l, 1, n)) /\ Len(SubSeq(l, 1, n)) = n
      /\ \A i \in 1..n : SubSeq(l, 1, n)[i] = l[i]
  BY <1>2, PrefixAppend, Zenon
<1> QED
  BY <1>1, <1>3, IsSeqEqual

\* What a commit appends to the abstract log and documents.
LEMMA CommitExtends ==
  ASSUME NoDocIsNoRecord, WriterInv, NEW p \in Procs, Commit(p)
  PROVE  History!Extend(Entry(p), acc[p].doc)
<1>1. /\ stored # NoDoc /\ stored' # NoDoc
      /\ stored'.ops = Append(stored.ops, Entry(p)) /\ trail' = Append(trail, acc[p].doc)
  BY CommitGrows DEF WriterInv
<1> QED
  BY <1>1 DEF History!Extend

\* The commit of a submission is the abstract submission.
LEMMA SubmitRefines ==
  ASSUME NoDocIsNoRecord, HistoryInv, WriterInv, NEW p \in Procs, RebaseOK(p),
         Commit(p), Kind(p) = "submit"
  PROVE  req[p] \in Requests /\ History!Submit(req[p])
<1>1. pc[p] = "commit" /\ req[p] \in Requests /\ req[p].kind = "submit"
  BY DEF Commit, HistoryInv, InRequests, Kind
<1>2. Working(p) /\ CopyOK(p) /\ ops[p] = <<>>
  BY <1>1 DEF Working, Reader, Deciding, HistoryInv, ReadOK, SliceOK
<1>3. stored # NoDoc /\ rec[p].version = stored.version
  BY WritesCommit DEF HistoryInv
<1>4. /\ History!Version = stored.version /\ History!Current = stored.doc
      /\ trail # <<>> /\ stored.version \in Nat
      /\ IsSeq(stored.ops) /\ Len(stored.ops) = stored.version
  BY <1>3, Mapped
<1>5. /\ ~TooStale(p) /\ req[p].payload # Malformed /\ ~IsEmptyOp(acc[p].op)
      /\ acc[p].doc = ApplyOp(stored.doc, acc[p].op) /\ acc[p].doc # Err
  BY <1>1 DEF WriterInv, Prepared, CopiedDoc, Deciding
<1>6. req[p].base \in 0..History!Version
  BY <1>2, <1>3, <1>4 DEF CopyOK
<1>7. MaxRebaseGap > 0 => History!Version - req[p].base <= MaxRebaseGap
  <2>1. stored.version - req[p].base \in Int /\ MaxRebaseGap \in Int
    BY <1>4, <1>6, BoundsAssumption
  <2> QED
    BY <1>3, <1>4, <1>5, <2>1 DEF TooStale
<1>8. History!Unseen(req[p])
  <2>1. HasID(req[p]) => \A i \in DOMAIN stored.ops : ~SameID(stored.ops[i], req[p])
    BY <1>1 DEF WriterInv, Inv, LockedView, StillFresh, Deciding
  <2> QED
    BY <1>3, <2>1 DEF History!Unseen, HasID, SameID
<1>9. acc[p].op = History!RebaseOver(req[p].payload, stored.ops, req[p].base) /\ acc[p].op # Err
  <2>1. Entry(p).op = acc[p].op /\ Entry(p).sub = req[p].payload /\ Entry(p).base = req[p].base
    BY DEF Entry
  <2>2. acc[p].op =
          History!RebaseOver(req[p].payload, SubSeq(stored.ops, 1, stored.version), req[p].base)
    BY <2>1, RebaseCommitted
  <2>3. SubSeq(stored.ops, 1, stored.version) = stored.ops
    BY <1>4, WholeLog
  <2>4. acc[p].op # Err
    BY <1>2 DEF RebaseOK
  <2> QED
    BY <2>2, <2>3, <2>4
<1>10. Entry(p) = [version |-> History!Version + 1, base |-> req[p].base,
                   source |-> req[p].source, seq |-> req[p].seq,
                   sub |-> req[p].payload, op |-> acc[p].op]
  BY <1>3, <1>4 DEF Entry
<1>11. History!Extend([version |-> History!Version + 1, base |-> req[p].base,
                       source |-> req[p].source, seq |-> req[p].seq,
                       sub |-> req[p].payload, op |-> acc[p].op],
                      ApplyOp(History!Current, acc[p].op))
  BY <1>4, <1>5, <1>10, CommitExtends
<1> QED
  <2>1. acc[p].op = History!RebaseOver(req[p].payload,
                                       IF stored = NoDoc THEN <<>> ELSE stored.ops,
                                       req[p].base)
    BY <1>3, <1>9
  <2>2. ApplyOp(History!Current, acc[p].op) # Err
    BY <1>4, <1>5
  <2> QED
    BY <1>1, <1>4, <1>5, <1>6, <1>7, <1>8, <1>9, <1>11, <2>1, <2>2 DEF History!Submit

\* The commit of a rollback is the abstract rollback.
LEMMA RollbackRefines ==
  ASSUME NoDocIsNoRecord, HistoryInv, WriterInv, NEW p \in Procs, UndoOK(p),
         RollbacksReplay, RollbacksUndo, Commit(p), Kind(p) = "rollback"
  PROVE  req[p] \in Requests /\ History!Rollback(req[p])
<1>1. pc[p] = "commit" /\ req[p] \in Requests /\ req[p].kind = "rollback"
  BY DEF Commit, HistoryInv, InRequests, Kind
<1>2. Working(p) /\ CopyOK(p) /\ SliceOK(p) /\ ops[p] = <<>>
  BY <1>1 DEF Working, Reader, Deciding, HistoryInv, ReadOK, SliceOK
<1>3. stored # NoDoc /\ rec[p].version = stored.version
  BY WritesCommit DEF HistoryInv
<1>4. /\ History!Version = stored.version /\ History!Current = stored.doc
      /\ trail # <<>> /\ stored.version \in Nat
      /\ IsSeq(stored.ops) /\ Len(stored.ops) = stored.version
  BY <1>3, Mapped
<1>5. req[p].base \in 0..(History!Version - 1)
  <2>1. req[p].base < rec[p].version
    BY <1>1 DEF WriterInv, Prepared, Deciding
  <2> QED
    BY <1>2, <1>3, <1>4, <2>1 DEF CopyOK
<1>6. acc[p].doc = trail[req[p].base + 1]
  <2>1. acc[p].doc = trail[First(p) + Len(ops[p]) + 1]
    BY <1>1, <1>2, <1>3 DEF RollbacksUndo, UndoOK
  <2>2. First(p) + Len(ops[p]) + 1 = req[p].base + 1
    <3>1. Len(ops[p]) = 0 /\ First(p) = req[p].base
      BY <1>2, EmptyIsSeq DEF First
    <3> QED
      BY <1>4, <1>5, <3>1
  <2> QED
    BY <2>1, <2>2
<1>7. ApplyOp(History!Current, acc[p].op) = trail[req[p].base + 1]
  BY <1>1, <1>3, <1>4, <1>6 DEF RollbacksReplay
<1>8. Entry(p) = [version |-> History!Version + 1, base |-> History!Version,
                  source |-> req[p].source, seq |-> 0, sub |-> acc[p].op, op |-> acc[p].op]
  BY <1>3, <1>4 DEF Entry
<1>9. stored' # NoDoc /\ stored'.ops = Append(stored.ops, Entry(p))
  BY CommitGrows DEF WriterInv
<1>10. /\ Len(stored'.ops) = Len(stored.ops) + 1
       /\ stored'.ops[History!Version + 1].op = acc[p].op
  <2>1. stored'.ops[Len(stored.ops) + 1] = Entry(p) /\ Len(stored'.ops) = Len(stored.ops) + 1
    BY <1>4, <1>9, AppendFacts
  <2> QED
    BY <1>4, <1>8, <2>1
<1>11. History!Extend([version |-> History!Version + 1, base |-> History!Version,
                       source |-> req[p].source, seq |-> 0, sub |-> acc[p].op, op |-> acc[p].op],
                      trail[req[p].base + 1])
  BY <1>6, <1>8, CommitExtends
<1> QED
  BY <1>1, <1>3, <1>4, <1>5, <1>7, <1>9, <1>10, <1>11 DEF History!Rollback

\* Every step of the server is a step of VersionedDoc or a stutter.
LEMMA StepRefines ==
  ASSUME NoDocIsNoRecord, HistoryInv, WriterInv, \A p \in Procs : RebaseOK(p) /\ UndoOK(p),
         RollbacksReplay, RollbacksUndo, [Next]_vars
  PROVE  [History!Next]_(History!absVars)
<1>1. CASE UNCHANGED backendVars
  BY <1>1 DEF backendVars, History!absVars
<1>2. ASSUME NEW p \in Procs, Create(p), ~UNCHANGED backendVars PROVE History!Next
  <2>1. stored = NoDoc /\ CreateDoc(req[p].payload)
    BY <1>2 DEF Create
  <2>2. trail = <<>> /\ trail' = <<req[p].payload>> /\ stored' # NoDoc /\ stored'.ops = <<>>
    BY <2>1 DEF CreateDoc, NoDocIsNoRecord, WriterInv, TrailOK
  <2>3. Kind(p) = "create" /\ req[p] \in Requests
    BY <1>2, LabelsByKind
    DEF Create, Kinds, HistoryInv, InRequests, Inv, TypeOK, ControlOK
  <2>4. History!Create(req[p])
    BY <2>2, <2>3 DEF History!Create, Kind
  <2> QED
    BY <2>3, <2>4 DEF History!Next
<1>3. ASSUME NEW p \in Procs, Delete(p) PROVE History!Next
  <2>1. Kind(p) = "delete" /\ req[p] \in Requests /\ pc[p] = "delete"
    BY <1>3, LabelsByKind
    DEF Delete, Kinds, HistoryInv, InRequests, Inv, TypeOK, ControlOK
  <2>2. stored # NoDoc /\ rec[p].version = stored.version /\ stored' = NoDoc
    BY <1>3, WritesDelete DEF HistoryInv
  <2>3. req[p].base = History!Version /\ trail # <<>> /\ trail' = <<>>
    BY <1>3, <2>1, <2>2, Mapped DEF WriterInv, Prepared, Delete, DeleteDoc
  <2>4. History!Delete(req[p])
    BY <2>1, <2>2, <2>3 DEF History!Delete, Kind
  <2> QED
    BY <2>1, <2>4 DEF History!Next
<1>4. ASSUME NEW p \in Procs, Commit(p) PROVE History!Next
  <2>1. Kind(p) \in {"submit", "rollback"}
    BY <1>4, LabelsByKind DEF Commit, Kinds, HistoryInv, Inv, TypeOK, ControlOK
  <2> QED
    BY <1>4, <2>1, SubmitRefines, RollbackRefines DEF History!Next
<1> QED
  BY <1>1, <1>2, <1>3, <1>4, BackendStep

\* The server implements VersionedDoc: creations, submissions, rollbacks and
\* deletions take effect in one step each, on one log, unless GetSnapshotAt and
\* DeleteDocument are both called, and as long as a rollback commits an operation
\* that leads to the document it restores.
THEOREM ImplementsVersionedDocCorrect ==
  ASSUME NoDocIsNoRecord, NoStaleReads
  PROVE  Spec /\ []RollbacksReplay /\ []RollbacksUndo => ImplementsVersionedDoc
<1> DEFINE WorkInv == \A p \in Procs : RebaseOK(p) /\ UndoOK(p)
<1>1. Init => History!Init
  BY DEF Init, History!Init
<1>2. Init => WorkInv
  BY DEF Init, RebaseOK, UndoOK, Working, Reader, Deciding
<1>3. HistoryInv /\ WorkInv /\ [Next]_vars => WorkInv'
  <2> SUFFICES ASSUME HistoryInv, WorkInv, [Next]_vars, NEW p \in Procs
               PROVE  RebaseOK(p)' /\ UndoOK(p)'
    OBVIOUS
  <2> QED
    BY RebaseNext, UndoNext
<1>4. WriterInv /\ [Next]_vars => WriterInv'
  BY WriterNext
<1>5. HistoryInv /\ WriterInv /\ WorkInv /\ RollbacksReplay /\ RollbacksUndo /\ [Next]_vars
        => [History!Next]_(History!absVars)
  BY StepRefines
<1>6. Spec => []HistoryInv
  BY HistoryInvCorrect
<1> HIDE DEF WorkInv
<1> QED
  BY <1>1, <1>2, <1>3, <1>4, <1>5, <1>6, WriterInit, PTL
  DEF Spec, ImplementsVersionedDoc, History!Spec

\* So it does when nobody rolls back.
THEOREM SubmissionsImplementVersionedDoc ==
  ASSUME NoDocIsNoRecord, NoStaleReads, NoRollbacks PROVE Spec => ImplementsVersionedDoc
<1>1. HistoryInv => RollbacksReplay /\ RollbacksUndo
  BY DEF HistoryInv, InRequests, RollbacksReplay, RollbacksUndo, NoRollbacks, Kind
<1>2. Spec => []HistoryInv
  BY HistoryInvCorrect
<1> QED
  BY <1>1, <1>2, ImplementsVersionedDocCorrect, PTL
=============================================================================
