--------------------------- MODULE DocServerProofs --------------------------
(***************************************************************************)
(* Theorems about DocServer, for every value of its constants.             *)
(***************************************************************************)
EXTENDS DocServer, AnySeqTheorems, TLAPS

-----------------------------------------------------------------------------
(* The type invariant *)

\* What a successful GetOps hands out are records of the log.
LEMMA GetOpsFacts ==
  ASSUME StoredOK, NEW from \in Int, NEW to \in Int,
         GetOps(from, to) # Err
  PROVE  /\ IsSeq(GetOps(from, to))
         /\ \A i \in DOMAIN GetOps(from, to) :
              GetOps(from, to)[i].version \in Nat
<1>0. stored # NoDoc
  BY DEF GetOps
<1>1. CASE from = to
  <2>1. GetOps(from, to) = <<>>
    BY <1>0, <1>1 DEF GetOps
  <2> QED BY <2>1, EmptyIsSeq
<1>2. CASE from # to
  <2>1. /\ GetOps(from, to) = SubSeq(stored.ops, from + 1, to)
        /\ 0 <= from /\ to <= Len(stored.ops)
    BY <1>0, <1>2, IsSeqFacts DEF GetOps, StoredOK
  <2>2. IsSeq(stored.ops) /\ \A i \in DOMAIN stored.ops : stored.ops[i].version \in Nat
    BY <1>0 DEF StoredOK
  <2> DEFINE s == stored.ops
  <2> HIDE DEF s
  <2>3. /\ IsSeq(s) /\ \A i \in DOMAIN s : s[i].version \in Nat
        /\ from + 1 \in Int /\ 1 <= from + 1 /\ to <= Len(s)
        /\ GetOps(from, to) = SubSeq(s, from + 1, to)
    BY <2>1, <2>2 DEF s
  <2>4. /\ IsSeq(SubSeq(s, from + 1, to))
        /\ \A i \in DOMAIN SubSeq(s, from + 1, to) :
             SubSeq(s, from + 1, to)[i].version \in Nat
    <3>1. /\ IsSeq(SubSeq(s, from + 1, to))
          /\ \A i \in DOMAIN SubSeq(s, from + 1, to) :
               /\ (from + 1) + i - 1 \in DOMAIN s
               /\ SubSeq(s, from + 1, to)[i] = s[(from + 1) + i - 1]
      BY <2>3, SubSeqFacts
    <3> QED BY <2>3, <3>1
  <2> QED BY <2>3, <2>4
<1> QED BY <1>1, <1>2

\* The labels of each kind of call, one by one.
LEMMA LabelsByKind ==
  /\ Labels["create"] = {"lock", "create", "unlock"}
  /\ Labels["delete"] = {"lock", "read", "delete", "clear", "publish", "unlock"}
  /\ Labels["submit"] = {"lock", "read", "dedup", "parse", "work", "fill",
                         "commit", "store", "publish", "unlock"}
  /\ Labels["rollback"] = {"lock", "read", "opsDoc", "opsGet", "work", "fill",
                           "commit", "store", "publish", "unlock"}
  /\ Labels["snapshotAt"] = {"snapDoc", "opsDoc", "opsGet", "work", "fill"}
  /\ Labels["getOps"] = {"opsDoc", "opsGet"}
  BY DEF Labels

\* A new server, with no document and idle goroutines, has the shape of TypeOK.
THEOREM TypeInit == Init => TypeOK
  BY LabelsByKind, BoundsAssumption, EmptyIsSeq
  DEF Init, TypeOK, StoredOK, ControlOK, LocalsOK, FillOK, SubscribersOK, Kinds,
      Kind, EmptyCache

\* A jump to a label of the call, and a return, keep the control state typed.
LEMMA GotoControl ==
  ASSUME ControlOK, NEW p \in Procs, NEW l \in Labels[Kind(p)] \cup {"idle"},
         Goto(p, l), UNCHANGED req
  PROVE  ControlOK'
  BY DEF ControlOK, Goto, Kind

\* A return, which a locking call ends at its deferred unlock, keeps it typed too.
LEMMA ReturnControl ==
  ASSUME ControlOK, NEW p \in Procs, NEW result, Return(p, result), UNCHANGED req
  PROVE  ControlOK'
  BY LabelsByKind DEF ControlOK, Return, Kind, Kinds, Locking

\* Only Miss sends a goroutine to "fill".
LEMMA OtherFill ==
  ASSUME ControlOK, FillOK, NEW p \in Procs, NEW l, l # "fill",
         pc' = [pc EXCEPT ![p] = l], DOMAIN ops = Procs,
         \A q \in Procs : q # p => ops'[q] = ops[q]
  PROVE  FillOK'
  BY DEF ControlOK, FillOK

\* A call starts at the first label of its kind.
LEMMA TypeCall == ASSUME TypeOK, NEW p \in Procs, Call(p) PROVE TypeOK'
  BY LabelsByKind, BoundsAssumption, RequestAssumption
  DEF Call, TypeOK, StoredOK, ControlOK, LocalsOK, FillOK, SubscribersOK, Kinds,
      Kind, Locking, backendVars, pubVars, localVars

\* MemoryLocker.Lock hands the mutex to a goroutine of Procs.
LEMMA TypeLock == ASSUME TypeOK, NEW p \in Procs, Lock(p) PROVE TypeOK'
<1>1. ControlOK'
  BY LabelsByKind, GotoControl, ReturnControl
  DEF Lock, Fail, TypeOK, ControlOK, Kinds, Locking, Kind
<1>2. FillOK'
  BY OtherFill DEF Lock, Fail, Goto, Return, TypeOK, LocalsOK, localVars
<1> QED
  BY <1>1, <1>2
  DEF Lock, TypeOK, StoredOK, LocalsOK, SubscribersOK, backendVars, pubVars, localVars

\* The deferred unlock frees the mutex.
LEMMA TypeUnlock == ASSUME TypeOK, NEW p \in Procs, Unlock(p) PROVE TypeOK'
<1>1. ControlOK'
  BY LabelsByKind, GotoControl, ReturnControl
  DEF Unlock, Fail, TypeOK, ControlOK, Kinds
<1>2. FillOK'
  BY OtherFill DEF Unlock, Fail, Goto, Return, TypeOK, LocalsOK, localVars
<1> QED
  BY <1>1, <1>2
  DEF Unlock, TypeOK, StoredOK, LocalsOK, SubscribersOK, backendVars, pubVars, localVars

\* CreateDocument stores an empty log at version 0.
LEMMA TypeCreate == ASSUME TypeOK, NEW p \in Procs, Create(p) PROVE TypeOK'
<1>1. ControlOK'
  BY LabelsByKind, GotoControl, ReturnControl
  DEF Create, Fail, TypeOK, ControlOK, Kinds
<1>2. FillOK'
  BY OtherFill DEF Create, Fail, Goto, Return, TypeOK, LocalsOK, localVars
<1> QED
  BY <1>1, <1>2, EmptyIsSeq
  DEF Create, CreateDoc, TypeOK, StoredOK, LocalsOK, SubscribersOK, backendVars, pubVars, localVars

\* DeleteDocument copies a record whose version is a number.
LEMMA TypeReadForDelete == ASSUME TypeOK, NEW p \in Procs, ReadForDelete(p) PROVE TypeOK'
<1>1. ControlOK'
  BY LabelsByKind, GotoControl, ReturnControl
  DEF ReadForDelete, Fail, TypeOK, ControlOK, Kinds
<1>2. FillOK'
  BY OtherFill DEF ReadForDelete, Fail, Goto, Return, TypeOK, LocalsOK, localVars
<1>3. LocalsOK'
  <2>1. \/ UNCHANGED rec
        \/ stored # NoDoc /\ rec' = [rec EXCEPT ![p] = Snapshot]
    BY DEF ReadForDelete
  <2>2. stored # NoDoc => Snapshot.version \in Nat
    BY DEF Snapshot, TypeOK, StoredOK
  <2> QED
    BY <2>1, <2>2 DEF ReadForDelete, TypeOK, LocalsOK
<1> QED
  BY <1>1, <1>2, <1>3
  DEF ReadForDelete, TypeOK, StoredOK, SubscribersOK, backendVars, pubVars

\* DeleteDoc removes the record.
LEMMA TypeDelete == ASSUME TypeOK, NEW p \in Procs, Delete(p) PROVE TypeOK'
<1>1. ControlOK'
  BY LabelsByKind, GotoControl, ReturnControl
  DEF Delete, Fail, TypeOK, ControlOK, Kinds
<1>2. FillOK'
  BY OtherFill DEF Delete, Fail, Goto, Return, TypeOK, LocalsOK, localVars
<1> QED
  BY <1>1, <1>2
  DEF Delete, DeleteDoc, TypeOK, StoredOK, LocalsOK, SubscribersOK, backendVars, pubVars, localVars

\* DeleteDocument drops the cached operations.
LEMMA TypeClear == ASSUME TypeOK, NEW p \in Procs, Clear(p) PROVE TypeOK'
<1>1. ControlOK'
  BY LabelsByKind, GotoControl, ReturnControl
  DEF Clear, Fail, TypeOK, ControlOK, Kinds
<1>2. FillOK'
  BY OtherFill DEF Clear, Fail, Goto, Return, TypeOK, LocalsOK, localVars
<1> QED
  BY <1>1, <1>2
  DEF Clear, ClearCache, EmptyCache, TypeOK, StoredOK, LocalsOK, SubscribersOK, backendVars, pubVars, localVars

\* submitCore copies a record whose version is a number.
LEMMA TypeReadForSubmit == ASSUME TypeOK, NEW p \in Procs, ReadForSubmit(p) PROVE TypeOK'
<1>1. ControlOK'
  BY LabelsByKind, GotoControl, ReturnControl
  DEF ReadForSubmit, Fail, TypeOK, ControlOK, Kinds
<1>2. FillOK'
  BY OtherFill DEF ReadForSubmit, Fail, Goto, Return, TypeOK, LocalsOK, localVars
<1>3. LocalsOK'
  <2>1. \/ UNCHANGED rec
        \/ stored # NoDoc /\ rec' = [rec EXCEPT ![p] = Snapshot]
    BY DEF ReadForSubmit
  <2>2. stored # NoDoc => Snapshot.version \in Nat
    BY DEF Snapshot, TypeOK, StoredOK
  <2> QED
    BY <2>1, <2>2 DEF ReadForSubmit, TypeOK, LocalsOK
<1> QED
  BY <1>1, <1>2, <1>3
  DEF ReadForSubmit, TypeOK, StoredOK, SubscribersOK, backendVars, pubVars

\* The idempotency check only moves on or returns.
LEMMA TypeDedup == ASSUME TypeOK, NEW p \in Procs, Dedup(p) PROVE TypeOK'
<1>1. ControlOK'
  BY LabelsByKind, GotoControl, ReturnControl
  DEF Dedup, Fail, TypeOK, ControlOK, Kinds
<1>2. FillOK'
  BY OtherFill DEF Dedup, Fail, Goto, Return, TypeOK, LocalsOK, localVars
<1> QED
  BY <1>1, <1>2
  DEF Dedup, TypeOK, StoredOK, LocalsOK, SubscribersOK, backendVars, pubVars, localVars

\* submitCore keeps the records since its base version, each with a version.
LEMMA TypeParse == ASSUME TypeOK, NEW p \in Procs, Parse(p) PROVE TypeOK'
<1>1. ControlOK'
  BY LabelsByKind, GotoControl, ReturnControl
  DEF Parse, Fail, TypeOK, ControlOK, Kinds
<1>2. FillOK'
  BY OtherFill DEF Parse, Fail, Goto, Return, TypeOK, LocalsOK, localVars
<1>3. LocalsOK'
  <2> DEFINE since == GetOps(req[p].base, rec[p].version)
  <2>1. rec[p].version \in Int /\ req[p].base \in Int
    BY DEF TypeOK, LocalsOK, ControlOK
  <2>2. since # Err => IsSeq(since) /\ \A i \in DOMAIN since : since[i].version \in Nat
    BY <2>1, GetOpsFacts DEF TypeOK
  <2> HIDE DEF since
  <2>3. CASE UNCHANGED <<ops, acc>>
    BY <2>3 DEF Parse, TypeOK, LocalsOK
  <2>4. CASE /\ acc' = [acc EXCEPT ![p] = [op  |-> req[p].payload, doc |-> rec[p].doc]]
             /\ \/ ops' = [ops EXCEPT ![p] = <<>>]
                \/ since # Err /\ ops' = [ops EXCEPT ![p] = since]
    BY <2>2, <2>4, EmptyIsSeq DEF Parse, TypeOK, LocalsOK
  <2> QED
    BY <2>3, <2>4 DEF Parse, since
<1> QED
  BY <1>1, <1>2, <1>3 DEF Parse, TypeOK, StoredOK, SubscribersOK, backendVars, pubVars

\* RollbackToVersion copies a record whose version is a number.
LEMMA TypeReadForRollback == ASSUME TypeOK, NEW p \in Procs, ReadForRollback(p) PROVE TypeOK'
<1>1. ControlOK'
  BY LabelsByKind, GotoControl, ReturnControl
  DEF ReadForRollback, Fail, TypeOK, ControlOK, Kinds
<1>2. FillOK'
  BY OtherFill DEF ReadForRollback, Fail, Goto, Return, TypeOK, LocalsOK, localVars
<1>3. LocalsOK'
  <2>1. \/ UNCHANGED rec
        \/ stored # NoDoc /\ rec' = [rec EXCEPT ![p] = Snapshot]
    BY DEF ReadForRollback
  <2>2. stored # NoDoc => Snapshot.version \in Nat
    BY DEF Snapshot, TypeOK, StoredOK
  <2> QED
    BY <2>1, <2>2 DEF ReadForRollback, TypeOK, LocalsOK
<1> QED
  BY <1>1, <1>2, <1>3
  DEF ReadForRollback, TypeOK, StoredOK, SubscribersOK, backendVars, pubVars

\* GetSnapshotAt copies a record whose version is a number.
LEMMA TypeReadForSnapshot == ASSUME TypeOK, NEW p \in Procs, ReadForSnapshot(p) PROVE TypeOK'
<1>1. ControlOK'
  BY LabelsByKind, GotoControl, ReturnControl
  DEF ReadForSnapshot, Fail, TypeOK, ControlOK, Kinds
<1>2. FillOK'
  BY OtherFill DEF ReadForSnapshot, Fail, Goto, Return, TypeOK, LocalsOK, localVars
<1>3. LocalsOK'
  <2>1. \/ UNCHANGED rec
        \/ stored # NoDoc /\ rec' = [rec EXCEPT ![p] = Snapshot]
    BY DEF ReadForSnapshot
  <2>2. stored # NoDoc => Snapshot.version \in Nat
    BY DEF Snapshot, TypeOK, StoredOK
  <2> QED
    BY <2>1, <2>2 DEF ReadForSnapshot, TypeOK, LocalsOK
<1> QED
  BY <1>1, <1>2, <1>3
  DEF ReadForSnapshot, TypeOK, StoredOK, SubscribersOK, backendVars, pubVars

\* The range check of GetOperations only moves on or returns.
LEMMA TypeCheckRange == ASSUME TypeOK, NEW p \in Procs, CheckRange(p) PROVE TypeOK'
<1>1. ControlOK'
  BY LabelsByKind, GotoControl, ReturnControl
  DEF CheckRange, Fail, TypeOK, ControlOK, Kinds
<1>2. FillOK'
  BY OtherFill DEF CheckRange, Fail, Goto, Return, TypeOK, LocalsOK, localVars
<1> QED
  BY <1>1, <1>2
  DEF CheckRange, TypeOK, StoredOK, LocalsOK, SubscribersOK, backendVars, pubVars, localVars

\* GetOperations keeps or returns records of the log, each with a version.
LEMMA TypeFetchRange == ASSUME TypeOK, NEW p \in Procs, FetchRange(p) PROVE TypeOK'
<1>1. ControlOK'
  BY LabelsByKind, GotoControl, ReturnControl
  DEF FetchRange, Fail, TypeOK, ControlOK, Kinds
<1>2. FillOK'
  BY OtherFill DEF FetchRange, Fail, Goto, Return, TypeOK, LocalsOK, localVars
<1>3. LocalsOK'
  <2> DEFINE found == GetOps(From(p), To(p))
  <2>1. From(p) \in Int /\ To(p) \in Int
    BY DEF From, To, TypeOK, LocalsOK, ControlOK
  <2>2. found # Err => IsSeq(found) /\ \A i \in DOMAIN found : found[i].version \in Nat
    BY <2>1, GetOpsFacts DEF TypeOK
  <2> HIDE DEF found
  <2>3. CASE UNCHANGED <<ops, acc>>
    BY <2>3 DEF FetchRange, TypeOK, LocalsOK
  <2>4. CASE /\ acc' = [acc EXCEPT ![p] = [op |-> NoOp, doc |-> rec[p].doc]]
             /\ found # Err /\ ops' = [ops EXCEPT ![p] = found]
    BY <2>2, <2>4 DEF FetchRange, TypeOK, LocalsOK
  <2> QED
    BY <2>3, <2>4 DEF FetchRange, found
<1> QED
  BY <1>1, <1>2, <1>3 DEF FetchRange, TypeOK, StoredOK, SubscribersOK, backendVars, pubVars

\* CommitOp stores a numbered record and version.
LEMMA TypeCommit == ASSUME TypeOK, NEW p \in Procs, Commit(p) PROVE TypeOK'
<1>1. ControlOK'
  BY LabelsByKind, GotoControl, ReturnControl
  DEF Commit, Fail, TypeOK, ControlOK, Kinds
<1>2. FillOK'
  BY OtherFill DEF Commit, Fail, Goto, Return, TypeOK, LocalsOK, localVars
<1>3. StoredOK'
  <2>1. CASE stored = NoDoc
    BY <2>1 DEF Commit, TypeOK, StoredOK, backendVars
  <2>2. CASE stored # NoDoc
    <3>1. Entry(p).version \in Nat /\ Entry(p).seq \in Nat
      BY DEF Entry, TypeOK, LocalsOK, ControlOK
    <3>2. stored' = [version |-> Entry(p).version, doc |-> acc[p].doc,
                     ops |-> Append(stored.ops, Entry(p))]
      BY <2>2 DEF Commit, CommitOp
    <3> QED
      BY <2>2, <3>1, <3>2, AppendFacts, IsSeqFacts DEF TypeOK, StoredOK
  <2> QED BY <2>1, <2>2
<1> QED
  BY <1>1, <1>2, <1>3
  DEF Commit, CommitOp, TypeOK, LocalsOK, SubscribersOK, backendVars, pubVars, localVars

\* cacheCommittedOperation stores under a version number.
LEMMA TypeCacheCommitted == ASSUME TypeOK, NEW p \in Procs, CacheCommitted(p) PROVE TypeOK'
<1>1. ControlOK'
  BY LabelsByKind, GotoControl, ReturnControl
  DEF CacheCommitted, Fail, TypeOK, ControlOK, Kinds
<1>2. FillOK'
  BY OtherFill DEF CacheCommitted, Fail, Goto, Return, TypeOK, LocalsOK, localVars
<1> QED
  BY <1>1, <1>2
  DEF CacheCommitted, Store, TypeOK, StoredOK, LocalsOK, SubscribersOK, backendVars, pubVars, localVars

\* Publish never overfills a channel.
LEMMA TypeAnnounce == ASSUME TypeOK, NEW p \in Procs, Announce(p) PROVE TypeOK'
<1>1. ControlOK'
  BY LabelsByKind, GotoControl, ReturnControl
  DEF Announce, Fail, TypeOK, ControlOK, Kinds
<1>2. FillOK'
  BY OtherFill DEF Announce, Fail, Goto, Return, TypeOK, LocalsOK, localVars
<1>3. PICK event : Publish(event)
  BY DEF Announce
<1>4. SubscribersOK'
  <2> SUFFICES ASSUME NEW s \in Subs
               PROVE  IsSeq(ch'[s]) /\ Len(ch'[s]) <= Buffer
    BY <1>3 DEF Publish, TypeOK, SubscribersOK
  <2> QED
    BY <1>3, AppendFacts, IsSeqFacts, BoundsAssumption
    DEF Publish, TypeOK, SubscribersOK
<1> QED
  BY <1>1, <1>2, <1>4 DEF Announce, TypeOK, StoredOK, LocalsOK, backendVars, localVars

\* The two ways through getOrParseCommittedOperation end in the same step.
LEMMA TypeAbsorb ==
  ASSUME TypeOK, NEW p \in Procs, NEW op, Absorb(p, op),
         pc[p] \in {"work", "fill"}, ops[p] # <<>>, UNCHANGED <<rec, req>>
  PROVE  ControlOK' /\ LocalsOK' /\ FillOK'
<1>1. ControlOK'
  BY LabelsByKind, GotoControl, ReturnControl
  DEF Absorb, Fail, TypeOK, ControlOK, Kinds
<1>2. FillOK'
  BY OtherFill DEF Absorb, Fail, Goto, Return, TypeOK, LocalsOK
<1>3. LocalsOK'
  <2>1. IsSeq(ops[p]) /\ \A i \in DOMAIN ops[p] : ops[p][i].version \in Nat
    BY DEF TypeOK, LocalsOK
  <2>2. IsSeq(OtherOps(p)) /\ \A i \in DOMAIN OtherOps(p) : OtherOps(p)[i].version \in Nat
    BY <2>1, IsSeqFacts, SubSeqFacts, TailFacts DEF OtherOps
  <2> QED
    BY <2>2 DEF Absorb, Fail, Return, Goto, TypeOK, LocalsOK
<1> QED
  BY <1>1, <1>2, <1>3

\* A cache hit takes one record off those left.
LEMMA TypeHit == ASSUME TypeOK, NEW p \in Procs, Hit(p) PROVE TypeOK'
<1>1. ControlOK' /\ LocalsOK' /\ FillOK'
  BY TypeAbsorb DEF Hit
<1> QED
  BY <1>1 DEF Hit, TypeOK, StoredOK, SubscribersOK, backendVars, pubVars

\* A cache miss leaves a record to parse.
LEMMA TypeMiss == ASSUME TypeOK, NEW p \in Procs, Miss(p) PROVE TypeOK'
<1>1. ControlOK'
  BY LabelsByKind, GotoControl DEF Miss, TypeOK, ControlOK, Kinds
<1> QED
  BY <1>1 DEF Miss, Goto, TypeOK, StoredOK, LocalsOK, FillOK, SubscribersOK,
              backendVars, pubVars, localVars

\* A filled cache entry is keyed by the version of a record.
LEMMA TypeFill == ASSUME TypeOK, NEW p \in Procs, Fill(p) PROVE TypeOK'
<1>1. ops[p] # <<>>
  BY DEF Fill, TypeOK, FillOK
<1>2. ControlOK' /\ LocalsOK' /\ FillOK'
  BY <1>1, TypeAbsorb DEF Fill
<1>3. NextOp(p).version \in Nat
  BY <1>1, IsSeqFacts DEF NextOp, TypeOK, LocalsOK
<1> QED
  BY <1>2, <1>3 DEF Fill, Store, TypeOK, StoredOK, SubscribersOK, backendVars, pubVars

\* Finish returns or goes on to the commit.
LEMMA FinishFacts ==
  ASSUME TypeOK, NEW p \in Procs, Finish(p)
  PROVE  /\ Kind(p) \in {"submit", "rollback", "snapshotAt"}
         /\ \/ \E result : Return(p, result)
            \/ Kind(p) # "snapshotAt" /\ Goto(p, "commit")
         /\ DOMAIN acc' = DOMAIN acc
<1>1. Kind(p) \in {"submit", "rollback", "snapshotAt"}
  BY LabelsByKind DEF Finish, TypeOK, ControlOK, Kinds
<1> QED
  BY <1>1 DEF Finish, Fail

\* The last transformed or undone record leads to a return or to the commit.
LEMMA TypeFinish == ASSUME TypeOK, NEW p \in Procs, Finish(p) PROVE TypeOK'
<1>1. ControlOK'
  BY FinishFacts, LabelsByKind, GotoControl, ReturnControl DEF Finish, TypeOK
<1>2. FillOK'
  BY FinishFacts, OtherFill DEF Finish, Goto, Return, TypeOK, LocalsOK
<1> QED
  BY <1>1, <1>2, FinishFacts
  DEF Finish, TypeOK, StoredOK, LocalsOK, SubscribersOK, backendVars, pubVars

\* Subscribing, cancelling and receiving keep the channels within their buffer.
LEMMA TypeSubscriber ==
  ASSUME TypeOK, NEW s \in Subs, SubscriberStep(s) PROVE TypeOK'
<1>1. StoredOK' /\ ControlOK' /\ LocalsOK' /\ FillOK'
  BY DEF SubscriberStep, SubscribeCheck, Subscribe, Cancel, Receive, TypeOK, StoredOK,
         ControlOK, LocalsOK, FillOK, Kind, backendVars, localVars
<1>2. SubscribersOK'
  <2>1. CASE SubscribeCheck(s) \/ Subscribe(s) \/ Cancel(s)
    BY <2>1 DEF SubscribeCheck, Subscribe, Cancel, TypeOK, SubscribersOK
  <2>2. CASE Receive(s)
    <3>1. IsSeq(Tail(ch[s])) /\ Len(Tail(ch[s])) <= Buffer
      BY <2>2, TailFacts, IsSeqFacts, BoundsAssumption DEF Receive, TypeOK, SubscribersOK
    <3>2. IsSeq(Append(got[s], Head(ch[s])))
      BY AppendFacts DEF TypeOK, SubscribersOK
    <3> QED
      BY <2>2, <3>1, <3>2 DEF Receive, TypeOK, SubscribersOK
  <2> QED
    BY <2>1, <2>2 DEF SubscriberStep
<1> QED
  BY <1>1, <1>2
  DEF SubscriberStep, SubscribeCheck, Subscribe, Cancel, Receive, TypeOK, backendVars

\* Every step keeps the shape of TypeOK.
THEOREM TypeNext == TypeOK /\ [Next]_vars => TypeOK'
<1> SUFFICES ASSUME TypeOK, [Next]_vars PROVE TypeOK'
  OBVIOUS
<1>1. CASE UNCHANGED vars
  BY <1>1 DEF vars, TypeOK, StoredOK, ControlOK, LocalsOK, FillOK, SubscribersOK, Kind
<1>2. ASSUME NEW p \in Procs, Call(p) \/ Lock(p) \/ Step(p) PROVE TypeOK'
  BY <1>2, TypeCall, TypeLock, TypeUnlock, TypeCreate, TypeReadForDelete, TypeDelete,
     TypeClear, TypeReadForSubmit, TypeDedup, TypeParse, TypeReadForRollback,
     TypeReadForSnapshot, TypeCheckRange, TypeFetchRange, TypeHit, TypeMiss, TypeFill,
     TypeFinish, TypeCommit, TypeCacheCommitted, TypeAnnounce
  DEF Step
<1> QED
  BY <1>1, <1>2, TypeSubscriber DEF Next, Terminated

\* Every reachable state has the shape of TypeOK.
THEOREM TypeCorrect == Spec => []TypeOK
  BY TypeInit, TypeNext, PTL DEF Spec

-----------------------------------------------------------------------------
(***************************************************************************)
(* The log.  LogMatchesVersion and AtMostOnce are not inductive alone: the *)
(* record a commit appends is numbered and checked from what the call read *)
(* earlier, so they need LockedView, which says that this is still so.     *)
(***************************************************************************)
Inv == TypeOK /\ LockedView /\ LogMatchesVersion /\ AtMostOnce

\* A server without a document satisfies Inv: there is no log and no call.
THEOREM InvInit == Init => Inv
  BY TypeInit
  DEF Init, Inv, LockedView, HoldsLock, Critical, ViewIsCurrent, StillFresh,
      LogMatchesVersion, AtMostOnce, Deciding, Kind

\* The mutex: two calls are never both past Lock and not yet past Unlock.
LEMMA OneCritical ==
  ASSUME HoldsLock, NEW p \in Procs, NEW q \in Procs, Critical(p), Critical(q)
  PROVE  p = q
  BY DEF HoldsLock

\* Every step of a goroutine but Lock and Unlock leaves the lock alone.
LEMMA HoldsLockNext == ASSUME TypeOK, HoldsLock, [Next]_vars PROVE HoldsLock'
<1> USE DEF TypeOK, ControlOK
<1>1. CASE UNCHANGED vars
  BY <1>1 DEF vars, HoldsLock, Critical, Kind
<1>2. ASSUME NEW p \in Procs, Call(p) PROVE HoldsLock'
  BY <1>2 DEF Call, HoldsLock, Critical, Kind, Locking
<1>3. ASSUME NEW p \in Procs, Lock(p) PROVE HoldsLock'
  BY <1>3, FreeAssumption DEF Lock, MayLock, Goto, HoldsLock, Critical, Kind
<1>4. ASSUME NEW p \in Procs, Unlock(p) PROVE HoldsLock'
  <2>1. Critical(p)
    BY <1>4, LabelsByKind DEF Unlock, Critical, Locking, Kinds
  <2> QED
    BY <1>4, <2>1, OneCritical DEF Unlock, Goto, HoldsLock, Critical, Kind
<1>5. ASSUME NEW p \in Procs, NEW l, pc' = [pc EXCEPT ![p] = l],
             pc[p] \notin {"idle", "lock"}, UNCHANGED <<lock, req>>
      PROVE  HoldsLock'
  BY <1>5 DEF HoldsLock, Critical, Kind
<1>6. ASSUME NEW p \in Procs, Step(p) PROVE HoldsLock'
  <2>1. CASE Create(p) \/ ReadForDelete(p) \/ Delete(p) \/ Clear(p)
    BY <2>1, <1>5 DEF Create, ReadForDelete, Delete, Clear, Fail, Return, Goto
  <2>2. CASE ReadForSubmit(p) \/ Dedup(p) \/ Parse(p)
    BY <2>2, <1>5 DEF ReadForSubmit, Dedup, Parse, Fail, Return, Goto
  <2>3. CASE ReadForRollback(p) \/ ReadForSnapshot(p) \/ CheckRange(p) \/ FetchRange(p)
    BY <2>3, <1>5
    DEF ReadForRollback, ReadForSnapshot, CheckRange, FetchRange, Fail, Return, Goto
  <2>4. CASE Hit(p) \/ Miss(p) \/ Fill(p)
    BY <2>4, <1>5 DEF Hit, Miss, Fill, Absorb, Fail, Return, Goto
  <2>5. CASE Finish(p)
    BY <2>5, <1>5, FinishFacts DEF Finish, Return, Goto
  <2>6. CASE Commit(p) \/ CacheCommitted(p) \/ Announce(p)
    BY <2>6, <1>5 DEF Commit, CacheCommitted, Announce, Fail, Return, Goto
  <2> QED
    BY <1>4, <1>6, <2>1, <2>2, <2>3, <2>4, <2>5, <2>6 DEF Step
<1>7. ASSUME NEW s \in Subs, SubscriberStep(s) PROVE HoldsLock'
  BY <1>7 DEF SubscriberStep, SubscribeCheck, Subscribe, Cancel, Receive, HoldsLock,
              Critical, Kind
<1> QED
  BY <1>1, <1>2, <1>3, <1>6, <1>7 DEF Next, Terminated

\* A step that changes neither the backend nor the call's copy of it, and
\* enters no later part of the call, leaves what was read and checked valid.
LEMMA CalmStep ==
  ASSUME ViewIsCurrent, StillFresh, DOMAIN pc = Procs, NEW p \in Procs, NEW l,
         pc' = [pc EXCEPT ![p] = l], UNCHANGED <<stored, rec, req>>,
         Kind(p) \in {"submit", "rollback"} /\ l \in Deciding =>
           /\ pc[p] \in Deciding
           /\ pc[p] = "dedup" => l = "dedup"
  PROVE  ViewIsCurrent' /\ StillFresh'
  BY DEF ViewIsCurrent, StillFresh, Kind

\* Who writes to the backend holds the lock and has nothing left to decide, so
\* nobody else's reads and checks are affected.
LEMMA WriterStep ==
  ASSUME HoldsLock, DOMAIN pc = Procs, NEW p \in Procs, Critical(p), NEW l,
         pc' = [pc EXCEPT ![p] = l], l \notin Deciding, UNCHANGED <<rec, req>>
  PROVE  ViewIsCurrent' /\ StillFresh'
<1>1. \A q \in Procs : Kind(q) \in {"submit", "rollback"} /\ pc[q] \in Deciding => q = p
  BY OneCritical DEF Critical, Locking, Deciding
<1> QED
  BY <1>1 DEF ViewIsCurrent, StillFresh, Kind

\* Reading the record makes the call's copy of it current.
LEMMA ReadStep ==
  ASSUME TypeOK, ViewIsCurrent, StillFresh, NEW p \in Procs, NEW l,
         pc' = [pc EXCEPT ![p] = l], UNCHANGED <<stored, req>>,
         \/ UNCHANGED rec
         \/ stored # NoDoc /\ rec' = [rec EXCEPT ![p] = Snapshot],
         l \in Deciding => rec' = [rec EXCEPT ![p] = Snapshot] /\ stored # NoDoc,
         Kind(p) = "submit" /\ HasID(req[p]) /\ l \in Deciding \ {"dedup"} =>
           \A i \in DOMAIN stored.ops : ~SameID(stored.ops[i], req[p])
  PROVE  ViewIsCurrent' /\ StillFresh'
  BY DEF ViewIsCurrent, StillFresh, Kind, Snapshot, TypeOK, ControlOK, LocalsOK

\* The scan of the idempotency check covers the whole log.
LEMMA DedupScan ==
  ASSUME TypeOK, LockedView, LogMatchesVersion, NEW p \in Procs, pc[p] = "dedup",
         GetOps(0, rec[p].version) # Err,
         Twins(GetOps(0, rec[p].version), req[p]) = {}
  PROVE  \A i \in DOMAIN stored.ops : ~SameID(stored.ops[i], req[p])
<1>1. stored # NoDoc /\ rec[p].version = Len(stored.ops) /\ IsSeq(stored.ops)
  <2>1. Kind(p) = "submit"
    BY LabelsByKind DEF TypeOK, ControlOK, Kinds
  <2> QED
    BY <2>1 DEF LockedView, ViewIsCurrent, Deciding, LogMatchesVersion, TypeOK, StoredOK
<1>2. DOMAIN stored.ops = 1..Len(stored.ops) /\ Len(stored.ops) \in Nat
  BY <1>1, IsSeqFacts
<1>3. CASE Len(stored.ops) = 0
  BY <1>2, <1>3
<1>4. CASE Len(stored.ops) # 0
  <2>1. GetOps(0, rec[p].version) = SubSeq(stored.ops, 1, Len(stored.ops))
    BY <1>1, <1>2, <1>4 DEF GetOps
  <2>2. SubSeq(stored.ops, 1, Len(stored.ops)) = stored.ops
    BY <1>1, SubSeqFull DEF IsSeq
  <2> QED
    BY <2>1, <2>2 DEF Twins
<1> QED
  BY <1>3, <1>4

\* No step of any goroutine makes stale what a writer has read and checked.
LEMMA ViewNext ==
  ASSUME TypeOK, LockedView, LogMatchesVersion, [Next]_vars
  PROVE  ViewIsCurrent' /\ StillFresh'
<1> USE DEF TypeOK, ControlOK, LockedView
<1>1. CASE UNCHANGED vars
  BY <1>1 DEF vars, ViewIsCurrent, StillFresh, Kind
<1>2. ASSUME NEW p \in Procs, Call(p) PROVE ViewIsCurrent' /\ StillFresh'
  <2>1. PICK r \in Requests :
          /\ req' = [req EXCEPT ![p] = r]
          /\ pc' = [pc EXCEPT ![p] = CASE r.kind \in Locking    -> "lock"
                                       [] r.kind = "snapshotAt" -> "snapDoc"
                                       [] r.kind = "getOps"     -> "opsDoc"]
    BY <1>2 DEF Call
  <2>2. pc'[p] \in Deciding => r.kind = "getOps"
    BY <2>1, RequestAssumption DEF Kinds, Locking, Deciding
  <2> QED
    BY <1>2, <2>1, <2>2 DEF Call, backendVars, localVars, ViewIsCurrent, StillFresh, Kind
<1>3. ASSUME NEW p \in Procs, Lock(p) \/ Unlock(p) \/ Clear(p) \/ CacheCommitted(p)
      PROVE  ViewIsCurrent' /\ StillFresh'
  <2>1. PICK l \in {"create", "read", "idle", "publish"} :
          pc' = [pc EXCEPT ![p] = l] /\ UNCHANGED <<stored, rec, req>>
    BY <1>3 DEF Lock, Unlock, Clear, CacheCommitted, Goto, backendVars, localVars
  <2> QED
    BY <2>1, CalmStep DEF Deciding
<1>4. ASSUME NEW p \in Procs, Announce(p) PROVE ViewIsCurrent' /\ StillFresh'
  BY <1>4, CalmStep DEF Announce, Return, Deciding, backendVars, localVars
<1>5. ASSUME NEW p \in Procs, Create(p) \/ Delete(p) \/ Commit(p)
      PROVE  ViewIsCurrent' /\ StillFresh'
  <2>1. Critical(p)
    BY <1>5, LabelsByKind DEF Create, Delete, Commit, Critical, Locking, Kinds
  <2>2. PICK l \in {"unlock", "clear", "store"} :
          pc' = [pc EXCEPT ![p] = l] /\ UNCHANGED <<rec, req>>
    BY <1>5, <2>1
    DEF Create, Delete, Commit, Fail, Return, Goto, localVars, Critical
  <2> QED
    BY <2>1, <2>2, WriterStep DEF Deciding
<1>6. ASSUME NEW p \in Procs, ReadForDelete(p) \/ ReadForRollback(p) \/ ReadForSnapshot(p)
      PROVE  ViewIsCurrent' /\ StillFresh'
  <2>1. Kind(p) # "submit"
    BY <1>6, LabelsByKind DEF ReadForDelete, ReadForRollback, ReadForSnapshot, Kinds
  <2>2. PICK l \in {"unlock", "idle", "delete", "opsDoc"} :
          /\ pc' = [pc EXCEPT ![p] = l] /\ UNCHANGED <<stored, req>>
          /\ UNCHANGED rec \/ (stored # NoDoc /\ rec' = [rec EXCEPT ![p] = Snapshot])
          /\ l = "opsDoc" => stored # NoDoc /\ rec' = [rec EXCEPT ![p] = Snapshot]
    BY <1>6 DEF ReadForDelete, ReadForRollback, ReadForSnapshot, Fail, Return, Goto,
                backendVars
  <2> QED
    BY <2>1, <2>2, ReadStep DEF Deciding
<1>7. ASSUME NEW p \in Procs, ReadForSubmit(p) PROVE ViewIsCurrent' /\ StillFresh'
  <2>1. PICK l \in {"unlock", "idle", "dedup", "parse"} :
          /\ pc' = [pc EXCEPT ![p] = l] /\ UNCHANGED <<stored, req>>
          /\ UNCHANGED rec \/ (stored # NoDoc /\ rec' = [rec EXCEPT ![p] = Snapshot])
          /\ l \in {"dedup", "parse"} =>
               stored # NoDoc /\ rec' = [rec EXCEPT ![p] = Snapshot]
          /\ l = "parse" => ~HasID(req[p]) \/ ~(stored.version > 0)
    BY <1>7 DEF ReadForSubmit, Fail, Return, Goto, backendVars
  <2>2. l = "parse" /\ HasID(req[p]) => DOMAIN stored.ops = {}
    BY <2>1, IsSeqFacts DEF LogMatchesVersion, StoredOK
  <2> QED
    BY <2>1, <2>2, ReadStep DEF Deciding
<1>8. ASSUME NEW p \in Procs, Dedup(p) PROVE ViewIsCurrent' /\ StillFresh'
  <2>1. PICK l \in {"unlock", "idle", "parse"} :
          /\ pc' = [pc EXCEPT ![p] = l] /\ UNCHANGED <<stored, rec, req>>
          /\ l = "parse" => \A i \in DOMAIN stored.ops : ~SameID(stored.ops[i], req[p])
    BY <1>8, DedupScan DEF Dedup, Fail, Return, Goto, backendVars, localVars
  <2> QED
    BY <1>8, <2>1 DEF Dedup, ViewIsCurrent, StillFresh, Deciding, Kind
<1>9. ASSUME NEW p \in Procs, Parse(p) \/ CheckRange(p) \/ FetchRange(p)
      PROVE  ViewIsCurrent' /\ StillFresh'
  <2>1. PICK l \in {"unlock", "idle", "work", "opsGet"} :
          pc' = [pc EXCEPT ![p] = l] /\ UNCHANGED <<stored, rec, req>>
    BY <1>9 DEF Parse, CheckRange, FetchRange, Fail, Return, Goto, backendVars, localVars
  <2> QED
    BY <1>9, <2>1, CalmStep DEF Parse, CheckRange, FetchRange, Deciding
<1>10. ASSUME NEW p \in Procs, Hit(p) \/ Miss(p) \/ Fill(p)
       PROVE  ViewIsCurrent' /\ StillFresh'
  <2>1. PICK l \in {"unlock", "idle", "work", "fill"} :
          pc' = [pc EXCEPT ![p] = l] /\ UNCHANGED <<stored, rec, req>>
    BY <1>10 DEF Hit, Miss, Fill, Absorb, Fail, Return, Goto, backendVars, localVars
  <2> QED
    BY <1>10, <2>1, CalmStep DEF Hit, Miss, Fill, Deciding
<1>11. ASSUME NEW p \in Procs, Finish(p) PROVE ViewIsCurrent' /\ StillFresh'
  BY <1>11, FinishFacts, CalmStep DEF Finish, Return, Goto, Deciding, backendVars
<1>12. ASSUME NEW s \in Subs, SubscriberStep(s) PROVE ViewIsCurrent' /\ StillFresh'
  BY <1>12 DEF SubscriberStep, SubscribeCheck, Subscribe, Cancel, Receive, backendVars,
               localVars, ViewIsCurrent, StillFresh, Kind
<1> QED
  BY <1>1, <1>2, <1>3, <1>4, <1>5, <1>6, <1>7, <1>8, <1>9, <1>10, <1>11, <1>12
  DEF Next, Step, Terminated

\* Only creating, deleting and committing write the record of the document.
LEMMA StoredStep ==
  ASSUME NEW p \in Procs, Step(p), stored' # stored
  PROVE  Create(p) \/ Delete(p) \/ Commit(p)
  BY DEF Step, Unlock, ReadForDelete, Clear, ReadForSubmit, Dedup, Parse,
         ReadForRollback, ReadForSnapshot, CheckRange, FetchRange, Hit, Miss, Fill,
         Finish, CacheCommitted, Announce, backendVars

\* A commit appends one record, numbered after the last, whose identity is new
\* to the log (CommitOp as submitCore and RollbackToVersion call it).
LEMMA CommitFacts ==
  ASSUME TypeOK, LockedView, LogMatchesVersion, NEW p \in Procs, Commit(p),
         stored' # stored
  PROVE  /\ stored # NoDoc
         /\ stored' = [version |-> Len(stored.ops) + 1, doc |-> acc[p].doc,
                       ops |-> Append(stored.ops, Entry(p))]
         /\ Entry(p).version = Len(stored.ops) + 1
         /\ HasID(Entry(p)) =>
              \A i \in DOMAIN stored.ops : ~SameID(stored.ops[i], Entry(p))
<1>1. stored # NoDoc /\ CommitOp(acc[p].doc, Entry(p))
  BY DEF Commit, backendVars
<1>2. Kind(p) \in {"submit", "rollback"} /\ pc[p] = "commit"
  BY LabelsByKind DEF Commit, TypeOK, ControlOK, Kinds
<1>3. rec[p].version = Len(stored.ops)
  BY <1>1, <1>2 DEF LockedView, ViewIsCurrent, Deciding, LogMatchesVersion
<1>4. ASSUME HasID(Entry(p))
      PROVE  \A i \in DOMAIN stored.ops : ~SameID(stored.ops[i], Entry(p))
  <2>1. Kind(p) = "submit" /\ HasID(req[p])
    BY <1>2, <1>4 DEF HasID, Entry
  <2>2. \A i \in DOMAIN stored.ops : ~SameID(stored.ops[i], req[p])
    BY <1>2, <2>1 DEF LockedView, StillFresh, Deciding
  <2> QED
    BY <2>1, <2>2 DEF SameID, Entry
<1> QED
  BY <1>1, <1>3, <1>4 DEF CommitOp, Entry

\* A commit keeps the log numbered and its identities distinct (CommitOp).
LEMMA CommitLog ==
  ASSUME TypeOK, LockedView, LogMatchesVersion, AtMostOnce,
         NEW p \in Procs, Commit(p), stored' # stored
  PROVE  LogMatchesVersion' /\ AtMostOnce'
<1> DEFINE e == Entry(p)
           n == Len(stored.ops)
<1>1. /\ stored # NoDoc /\ IsSeq(stored.ops)
      /\ stored'.version = n + 1 /\ stored'.ops = Append(stored.ops, e)
      /\ e.version = n + 1
      /\ HasID(e) => \A i \in DOMAIN stored.ops : ~SameID(stored.ops[i], e)
  BY CommitFacts DEF TypeOK, StoredOK
<1> HIDE DEF e
<1>2. /\ n \in Nat /\ Len(stored'.ops) = n + 1
      /\ DOMAIN stored'.ops = DOMAIN stored.ops \cup {n + 1}
      /\ \A i \in DOMAIN stored.ops : stored'.ops[i] = stored.ops[i]
      /\ stored'.ops[n + 1] = e
  BY <1>1, AppendFacts, IsSeqFacts
<1>3. LogMatchesVersion'
  BY <1>1, <1>2 DEF LogMatchesVersion
<1>4. AtMostOnce'
  <2> SUFFICES ASSUME NEW i \in DOMAIN stored'.ops, NEW j \in DOMAIN stored'.ops,
                      HasID(stored'.ops[i]), SameID(stored'.ops[i], stored'.ops[j])
               PROVE  i = j
    BY DEF AtMostOnce, HasID, SameID
  <2>1. CASE i \in DOMAIN stored.ops /\ j \in DOMAIN stored.ops
    BY <1>1, <1>2, <2>1 DEF AtMostOnce
  <2>2. CASE i = n + 1 /\ j \in DOMAIN stored.ops
    BY <1>1, <1>2, <2>2 DEF HasID, SameID
  <2>3. CASE i \in DOMAIN stored.ops /\ j = n + 1
    BY <1>1, <1>2, <2>3 DEF HasID, SameID
  <2> QED
    BY <1>2, <2>1, <2>2, <2>3
<1> QED
  BY <1>3, <1>4

\* So does every other step of the server.
LEMMA LogNext ==
  ASSUME Inv, [Next]_vars
  PROVE  LogMatchesVersion' /\ AtMostOnce'
<1> USE DEF Inv
<1>1. CASE UNCHANGED stored
  BY <1>1 DEF LogMatchesVersion, AtMostOnce
<1>2. CASE stored' # stored
  <2>1. PICK p \in Procs : Create(p) \/ Delete(p) \/ Commit(p)
    BY <1>2, StoredStep
    DEF Next, Terminated, Call, Lock, SubscriberStep, SubscribeCheck, Subscribe,
        Cancel, Receive, vars, backendVars
  <2>2. CASE Create(p)
    BY <1>2, <2>2 DEF Create, CreateDoc, backendVars, LogMatchesVersion, AtMostOnce
  <2>3. CASE Delete(p)
    BY <1>2, <2>3 DEF Delete, DeleteDoc, backendVars, LogMatchesVersion, AtMostOnce
  <2>4. CASE Commit(p)
    BY <1>2, <2>4, CommitLog
  <2> QED
    BY <2>1, <2>2, <2>3, <2>4
<1> QED
  BY <1>1, <1>2

\* Inv is inductive.
THEOREM InvNext == Inv /\ [Next]_vars => Inv'
  BY TypeNext, HoldsLockNext, ViewNext, LogNext DEF Inv, LockedView

\* What a writer read and checked under the lock still holds when it commits.
THEOREM LockedViewCorrect == Spec => []LockedView
<1>1. Inv => LockedView
  BY DEF Inv
<1> QED
  BY <1>1, InvInit, InvNext, PTL DEF Spec

\* The version of the stored document is the number of records in its log, and
\* every record carries its own place (CommitOp).
THEOREM LogMatchesVersionCorrect == Spec => []LogMatchesVersion
<1>1. Inv => LogMatchesVersion
  BY DEF Inv
<1> QED
  BY <1>1, InvInit, InvNext, PTL DEF Spec

\* A retried submission leaves at most one record (the scan in submitCore).
THEOREM AtMostOnceCorrect == Spec => []AtMostOnce
<1>1. Inv => AtMostOnce
  BY DEF Inv
<1> QED
  BY <1>1, InvInit, InvNext, PTL DEF Spec

\* A step from a living document to a living document either leaves it alone
\* or appends one record to its log and raises its version by one.
LEMMA HistoryStep ==
  ASSUME Inv, Next, stored # NoDoc, stored' # NoDoc, stored' # stored
  PROVE  /\ stored'.version = stored.version + 1
         /\ Len(stored'.ops) = Len(stored.ops) + 1
         /\ \A i \in DOMAIN stored.ops : stored'.ops[i] = stored.ops[i]
<1> USE DEF Inv
<1>1. PICK p \in Procs : Create(p) \/ Delete(p) \/ Commit(p)
  BY StoredStep
  DEF Next, Terminated, Call, Lock, SubscriberStep, SubscribeCheck, Subscribe,
      Cancel, Receive, vars, backendVars
<1>2. Commit(p)
  BY <1>1 DEF Create, Delete, DeleteDoc, backendVars
<1>3. /\ stored'.version = Len(stored.ops) + 1
      /\ stored'.ops = Append(stored.ops, Entry(p))
  BY <1>2, CommitFacts
<1>4. IsSeq(stored.ops) /\ stored.version = Len(stored.ops)
  BY DEF TypeOK, StoredOK, LogMatchesVersion
<1> QED
  BY <1>3, <1>4, AppendFacts

\* The log of a living document is append-only (CommitOp).
THEOREM HistoryAppendOnlyCorrect == Spec => HistoryAppendOnly
<1>1. Inv /\ [Next]_vars =>
        [stored # NoDoc /\ stored' # NoDoc /\ stored' # stored =>
           /\ stored'.version = stored.version + 1
           /\ Len(stored'.ops) = Len(stored.ops) + 1
           /\ \A i \in DOMAIN stored.ops : stored'.ops[i] = stored.ops[i]]_vars
  BY HistoryStep DEF vars
<1> QED
  BY <1>1, InvInit, InvNext, PTL DEF Spec, HistoryAppendOnly
=============================================================================
