-------------------------- MODULE RedisServerProofs -------------------------
(***************************************************************************)
(* Theorems about RedisServer, for every value of its constants.           *)
(***************************************************************************)
EXTENDS RedisServer, AnySeqTheorems, TLAPS

-----------------------------------------------------------------------------
(* The type invariant *)

\* The labels of each kind of call, one by one.
LEMMA LabelsByKind ==
  /\ Labels["create"] = {"lock", "create", "content", "unlock"}
  /\ Labels["delete"] = {"lock", "read", "delete", "publish", "unlock"}
  /\ Labels["submit"] = {"lock", "read", "dedup", "since", "commit", "publish", "unlock"}
  /\ Labels["snapshot"] = {"snapshot"}
  BY DEF Labels

\* A goroutine goes to a label of its call.
Moves(p, l) == pc' = [pc EXCEPT ![p] = l] /\ UNCHANGED req

\* An early return goes to the deferred unlock of a call that got the lock.
LEMMA ReturnMoves ==
  ASSUME ControlOK, NEW p \in Procs, NEW result, Return(p, result), UNCHANGED req,
         pc[p] # "idle"
  PROVE  /\ \E l \in {"idle", "unlock"} \cap ({"idle"} \cup Labels[Kind(p)]) : Moves(p, l)
         /\ DOMAIN ret' = Procs
  BY LabelsByKind DEF ControlOK, Kinds, Return, Moves

\* So does every other step, along the labels of its kind.
LEMMA GotoMoves ==
  ASSUME ControlOK, NEW p \in Procs, NEW l \in {"idle"} \cup Labels[Kind(p)],
         Goto(p, l), UNCHANGED req
  PROVE  (\E m \in {"idle"} \cup Labels[Kind(p)] : Moves(p, m)) /\ DOMAIN ret' = Procs
  BY DEF ControlOK, Goto, Moves

\* No step leaves the labels of its call.
LEMMA StepMoves ==
  ASSUME ControlOK, NEW p \in Procs, CommandFails(p) \/ Step(p)
  PROVE  (\E l \in {"idle"} \cup Labels[Kind(p)] : Moves(p, l)) /\ DOMAIN ret' = Procs
<1> USE LabelsByKind, ReturnMoves, GotoMoves DEF Fail, Faulty
<1> DEFINE Ok == (\E l \in {"idle"} \cup Labels[Kind(p)] : Moves(p, l)) /\ DOMAIN ret' = Procs
<1>0. Kind(p) \in Kinds /\ pc[p] \in {"idle"} \cup Labels[Kind(p)]
  BY DEF ControlOK
<1>1. ASSUME CommandFails(p) \/ GiveUp(p) \/ GetSnapshot(p) PROVE Ok
  BY <1>1 DEF CommandFails, GiveUp, GetSnapshot
<1>2. ASSUME Lock(p) PROVE Ok
  BY <1>0, <1>2 DEF Lock, Kinds
<1>3. ASSUME Unlock(p) PROVE Ok
  BY <1>3 DEF Unlock
<1>4. ASSUME Create(p) \/ CreateContent(p) PROVE Ok
  BY <1>0, <1>4 DEF Create, CreateContent, Kinds
<1>5. ASSUME ReadForDelete(p) \/ Delete(p) PROVE Ok
  BY <1>0, <1>5 DEF ReadForDelete, Delete, Kinds
<1>6. ASSUME ReadForSubmit(p) PROVE Ok
  BY <1>0, <1>6 DEF ReadForSubmit, Kinds
<1>7. ASSUME Dedup(p) PROVE Ok
  BY <1>0, <1>7 DEF Dedup, Kinds
<1>8. ASSUME Since(p) PROVE Ok
  BY <1>0, <1>8 DEF Since, Kinds
<1>9. ASSUME Commit(p) \/ Announce(p) PROVE Ok
  BY <1>0, <1>9 DEF Commit, Announce, Kinds
<1> QED
  BY <1>1, <1>2, <1>3, <1>4, <1>5, <1>6, <1>7, <1>8, <1>9 DEF Step

\* The control state stays typed.
LEMMA ControlNext == ASSUME ControlOK, [Next]_vars PROVE ControlOK'
<1>1. CASE UNCHANGED vars
  BY <1>1 DEF vars, ControlOK, Kind
<1>2. ASSUME NEW p \in Procs, Call(p) PROVE ControlOK'
  BY <1>2, LabelsByKind, RequestAssumption DEF Call, ControlOK, Kind, Kinds, Locking
<1>3. ASSUME NEW p \in Procs, CommandFails(p) \/ Step(p) PROVE ControlOK'
  BY <1>3, StepMoves DEF Moves, ControlOK, Kind
<1>4. ASSUME NEW n \in Nodes, Crash(n) PROVE ControlOK'
  BY <1>4 DEF Crash, ControlOK, Kind
<1>5. ASSUME NEW n \in Watchers, Subscribe(n) \/ Cancel(n) \/ Listen(n) \/ Receive(n)
      PROVE  ControlOK'
  BY <1>5 DEF Subscribe, Cancel, Listen, Receive, ControlOK, Kind
<1> QED
  BY <1>1, <1>2, <1>3, <1>4, <1>5 DEF Next, Expire, Terminated, ControlOK, Kind

\* What Redis and the caches hold stays typed (CreateDoc, CommitOp, DeleteDoc).
LEMMA CreateStore ==
  ASSUME TypeOK, NEW p \in Procs, Create(p) \/ CreateContent(p) PROVE StoreOK'
<1>1. \/ UNCHANGED snap
      \/ snap' = [version |-> 0, doc |-> snap.doc]
      \/ snap' = [version |-> snap.version, doc |-> req[p].payload]
  BY DEF Create, CreateContent, TypeOK, StoreOK, storeVars
<1>2. overrun' \in BOOLEAN
  BY DEF Create, CreateContent, Overruns, TypeOK, StoreOK, storeVars
<1>3. UNCHANGED <<oplist, cache>> /\ life' \in Nat
  BY DEF Create, CreateContent, TypeOK, StoreOK, storeVars
<1> QED
  BY <1>1, <1>2, <1>3 DEF TypeOK, StoreOK

\* A commit stores a record with a number for its version.
LEMMA CommitStore ==
  ASSUME TypeOK, NEW p \in Procs, Commit(p) PROVE StoreOK'
<1>1. Entry(p).version = rec[p].version + 1 /\ rec[p].version \in Nat
  BY DEF Entry, TypeOK, LocalsOK
<1>2. /\ snap' = [version |-> snap'.version, doc |-> snap'.doc]
      /\ snap'.version \in Nat \cup {Nil}
      /\ IsSeq(oplist') /\ \A i \in DOMAIN oplist' : oplist'[i].version \in Nat
  <2>1. CASE snap = Absent
    BY <2>1 DEF Commit, CommitOp, TypeOK, StoreOK
  <2>2. CASE snap # Absent
    <3>1. /\ snap' = [version |-> Entry(p).version, doc |-> acc[p].doc]
          /\ oplist' = Append(oplist, Entry(p)) /\ IsSeq(oplist)
      BY <2>2 DEF Commit, CommitOp, TypeOK, StoreOK
    <3>2. IsSeq(oplist') /\ DOMAIN oplist' = DOMAIN oplist \cup {Len(oplist) + 1}
          /\ (\A i \in DOMAIN oplist : oplist'[i] = oplist[i])
          /\ oplist'[Len(oplist) + 1] = Entry(p)
      BY <3>1, AppendFacts
    <3> QED
      BY <1>1, <3>1, <3>2 DEF TypeOK, StoreOK
  <2> QED
    BY <2>1, <2>2
<1>3. DOMAIN cache' = Nodes /\ \A n \in Nodes : DOMAIN cache'[n] \subseteq Nat
  BY <1>1 DEF Commit, TypeOK, StoreOK
<1> QED
  BY <1>2, <1>3 DEF Commit, Overruns, TypeOK, StoreOK

\* What LRANGE hands out are records of the list, in their order.
LEMMA GetOpsFacts ==
  ASSUME StoreOK, NEW from \in Nat, NEW to \in Nat
  PROVE  /\ IsSeq(GetOps(from, to))
         /\ \A i \in DOMAIN GetOps(from, to) : GetOps(from, to)[i].version \in Nat
<1> DEFINE end == IF to > Len(oplist) THEN Len(oplist) ELSE to
<1>1. Len(oplist) \in Nat /\ DOMAIN oplist = 1..Len(oplist) /\ IsSeq(oplist)
  BY IsSeqFacts DEF StoreOK
<1>2. end \in Int /\ end <= Len(oplist) /\ from + 1 \in Int /\ 1 <= from + 1
  BY <1>1
<1>3. GetOps(from, to) = SubSeq(oplist, from + 1, end)
  BY DEF GetOps
<1> HIDE DEF end
<1>4. /\ IsSeq(SubSeq(oplist, from + 1, end))
      /\ \A i \in DOMAIN SubSeq(oplist, from + 1, end) :
           /\ (from + 1) + i - 1 \in DOMAIN oplist
           /\ SubSeq(oplist, from + 1, end)[i] = oplist[(from + 1) + i - 1]
  BY <1>1, <1>2, SubSeqFacts
<1> QED
  BY <1>3, <1>4 DEF StoreOK

\* Rebasing caches the operations of records of the list.
LEMMA SinceStore ==
  ASSUME TypeOK, NEW p \in Procs, Since(p) PROVE StoreOK'
<1> DEFINE entries == GetOps(req[p].base, rec[p].version)
           set == { entries[i] : i \in DOMAIN entries }
<1>1. \A i \in DOMAIN entries : entries[i].version \in Nat
  BY GetOpsFacts DEF Since, TypeOK, LocalsOK
<1>2. cache' = [cache EXCEPT ![NodeOf[p]] = Store(NodeOf[p], set)]
  BY DEF Since
<1>3. NodeOf[p] \in Nodes
  BY ConstantAssumption
<1>4. DOMAIN Store(NodeOf[p], set) \subseteq Nat
  <2>1. \A e \in set : e.version \in Nat
    BY <1>1
  <2> HIDE DEF set
  <2> QED
    BY <1>3, <2>1 DEF Store, TypeOK, StoreOK
<1> QED
  BY <1>2, <1>3, <1>4 DEF Since, TypeOK, StoreOK, storeVars

\* So do the other commands, and crashes.
LEMMA StoreNext == ASSUME TypeOK, [Next]_vars PROVE StoreOK'
<1>1. CASE UNCHANGED <<storeVars, cache>>
  BY <1>1 DEF TypeOK, StoreOK, storeVars
<1>2. ASSUME NEW p \in Procs, Delete(p) PROVE StoreOK'
  <2>1. IsSeq(<<>>) /\ Absent = [version |-> Nil, doc |-> Nil] /\ DOMAIN EmptyCache = {}
    BY EmptyIsSeq DEF Absent, EmptyCache
  <2>2. \/ UNCHANGED <<snap, oplist, overrun>>
        \/ snap' = Absent /\ oplist' = <<>> /\ overrun' \in BOOLEAN
    BY <1>2 DEF Delete, Overruns, TypeOK, StoreOK, storeVars
  <2>3. UNCHANGED cache \/ cache' = [cache EXCEPT ![NodeOf[p]] = EmptyCache]
    BY <1>2 DEF Delete
  <2>4. UNCHANGED life
    BY <1>2 DEF Delete, storeVars
  <2> QED
    BY <2>1, <2>2, <2>3, <2>4 DEF TypeOK, StoreOK
<1>3. ASSUME NEW p \in Procs, Announce(p) PROVE StoreOK'
  BY <1>3 DEF Announce, Overruns, TypeOK, StoreOK
<1>4. ASSUME NEW n \in Nodes, Crash(n) PROVE StoreOK'
  BY <1>4 DEF Crash, EmptyCache, TypeOK, StoreOK, storeVars
<1>5. ASSUME NEW p \in Procs,
             \/ Call(p) \/ CommandFails(p) \/ Lock(p) \/ GiveUp(p) \/ Unlock(p)
             \/ GetSnapshot(p) \/ ReadForDelete(p) \/ ReadForSubmit(p) \/ Dedup(p)
      PROVE  UNCHANGED <<storeVars, cache>>
  BY <1>5 DEF Call, CommandFails, Lock, GiveUp, Unlock, GetSnapshot, ReadForDelete,
              ReadForSubmit, Dedup
<1>6. ASSUME NEW n \in Watchers, Subscribe(n) \/ Cancel(n) \/ Listen(n) \/ Receive(n)
      PROVE  UNCHANGED <<storeVars, cache>>
  BY <1>6 DEF Subscribe, Cancel, Listen, Receive
<1>7. ASSUME Expire \/ Terminated \/ UNCHANGED vars PROVE UNCHANGED <<storeVars, cache>>
  BY <1>7 DEF Expire, Terminated, vars, storeVars
<1> QED
  BY <1>1, <1>2, <1>3, <1>4, <1>5, <1>6, <1>7, CreateStore, CommitStore, SinceStore
  DEF Next, Step

\* A call's copy of the snapshot carries a version it can do arithmetic with.
LEMMA LocalsNext == ASSUME TypeOK, [Next]_vars PROVE LocalsOK'
<1> USE DEF TypeOK, LocalsOK
<1>1. ASSUME NEW p \in Procs, NEW l, Moves(p, l), UNCHANGED localVars,
             l \in {"dedup", "since", "commit"} => pc[p] \in {"dedup", "since", "commit"}
      PROVE  LocalsOK'
  BY <1>1 DEF Moves, localVars, ControlOK
<1>2. CASE UNCHANGED <<pc, req, localVars>>
  BY <1>2 DEF localVars
<1>3. ASSUME NEW p \in Procs, Call(p) PROVE LocalsOK'
  <2>1. PICK l \in {"lock", "snapshot"} : pc' = [pc EXCEPT ![p] = l]
    BY <1>3 DEF Call
  <2>2. \A q \in Procs : q # p => req'[q] = req[q]
    BY <1>3 DEF Call, ControlOK
  <2> QED
    BY <1>3, <2>1, <2>2 DEF Call, localVars, ControlOK
<1>4. ASSUME NEW p \in Procs,
             CommandFails(p) \/ Lock(p) \/ GiveUp(p) \/ GetSnapshot(p) \/ Create(p)
             \/ CreateContent(p) \/ Delete(p) \/ Announce(p) \/ Dedup(p) \/ Commit(p)
      PROVE  LocalsOK'
  <2>1. PICK l \in {"unlock", "idle", "create", "read", "content", "publish", "since"} :
          /\ Moves(p, l)
          /\ l = "since" => pc[p] = "dedup"
    BY <1>4 DEF CommandFails, Lock, GiveUp, GetSnapshot, Create, CreateContent, Delete,
                Announce, Dedup, Commit, Faulty, Fail, Return, Goto, Moves
  <2>2. UNCHANGED localVars
    BY <1>4 DEF CommandFails, Lock, GiveUp, GetSnapshot, Create, CreateContent, Delete,
                Announce, Dedup, Commit
  <2>3. l \in {"dedup", "since", "commit"} => pc[p] \in {"dedup", "since", "commit"}
    BY <2>1
  <2> QED
    BY <1>1, <2>1, <2>2, <2>3
<1>5. ASSUME NEW p \in Procs, Unlock(p) PROVE LocalsOK'
  BY <1>5 DEF Unlock, Goto, NoRecord, ControlOK
<1>6. ASSUME NEW p \in Procs, ReadForDelete(p) \/ ReadForSubmit(p) PROVE LocalsOK'
  <2>1. snap.version # Nil => snap.version \in Nat
    BY DEF StoreOK
  <2>2. PICK l \in {"unlock", "delete", "dedup", "since"} :
          /\ Moves(p, l)
          /\ UNCHANGED rec \/ (snap.version # Nil /\ rec' = [rec EXCEPT ![p] = snap])
          /\ l \in {"dedup", "since"} =>
               /\ snap.version # Nil /\ rec' = [rec EXCEPT ![p] = snap]
               /\ req[p].base \in 0..snap.version
    BY <1>6 DEF ReadForDelete, ReadForSubmit, Fail, Return, Goto, Moves
  <2> QED
    BY <1>6, <2>1, <2>2 DEF ReadForDelete, ReadForSubmit, Moves, ControlOK
<1>7. ASSUME NEW p \in Procs, Since(p) PROVE LocalsOK'
  <2>1. PICK l \in {"unlock", "commit"} : Moves(p, l)
    BY <1>7 DEF Since, Fail, Return, Goto, Moves
  <2>2. UNCHANGED rec /\ DOMAIN acc' = Procs /\ pc[p] = "since"
    BY <1>7 DEF Since
  <2> QED
    BY <2>1, <2>2 DEF Moves, ControlOK
<1>8. ASSUME NEW n \in Nodes, Crash(n) PROVE LocalsOK'
  BY <1>8 DEF Crash, NoRecord, ControlOK
<1>9. ASSUME NEW n \in Watchers, Subscribe(n) \/ Cancel(n) \/ Listen(n) \/ Receive(n)
      PROVE  UNCHANGED <<pc, req, localVars>>
  BY <1>9 DEF Subscribe, Cancel, Listen, Receive
<1>10. ASSUME Expire \/ Terminated \/ UNCHANGED vars PROVE UNCHANGED <<pc, req, localVars>>
  BY <1>10 DEF Expire, Terminated, vars, localVars
<1> QED
  BY <1>2, <1>3, <1>4, <1>5, <1>6, <1>7, <1>8, <1>9, <1>10 DEF Next, Step

\* The listener and the subscriber keep to their queues and to the buffer.
LEMMA WatchersNext == ASSUME TypeOK, [Next]_vars PROVE WatchersOK'
<1> USE DEF TypeOK, WatchersOK
<1>1. CASE UNCHANGED pubVars
  BY <1>1 DEF pubVars
<1>2. ASSUME NEW p \in Procs, Announce(p) PROVE WatchersOK'
  <2>1. PICK event : Publish(event)
    BY <1>2 DEF Announce
  <2> QED
    BY <1>2, <2>1, AppendFacts DEF Announce, Publish
<1>3. ASSUME NEW n \in Watchers, Subscribe(n) \/ Cancel(n) PROVE WatchersOK'
  <2>1. on' \in [Watchers -> BOOLEAN] /\ DOMAIN wire' = Watchers
        /\ DOMAIN ch' = Watchers /\ DOMAIN got' = Watchers
    BY <1>3 DEF Subscribe, Cancel
  <2>2. Len(<<>>) <= Buffer /\ Len(<<>>) <= 1
    BY ConstantAssumption
  <2> QED
    BY <1>3, <2>1, <2>2, EmptyIsSeq DEF Subscribe, Cancel
<1>4. ASSUME NEW n \in Watchers, Listen(n) PROVE WatchersOK'
  <2>1. IsSeq(Tail(wire[n]))
    BY <1>4, TailFacts DEF Listen
  <2>2. /\ IsSeq(Append(ch[n], Head(wire[n])))
        /\ Len(ch[n]) < Buffer => Len(Append(ch[n], Head(wire[n]))) <= Buffer
    BY AppendFacts, IsSeqFacts, ConstantAssumption
  <2> QED
    BY <1>4, <2>1, <2>2 DEF Listen
<1>5. ASSUME NEW n \in Watchers, Receive(n) PROVE WatchersOK'
  <2>1. IsSeq(Tail(ch[n])) /\ Len(Tail(ch[n])) <= Buffer
    BY <1>5, TailFacts, IsSeqFacts, ConstantAssumption DEF Receive
  <2>2. IsSeq(<<Head(ch[n])>>) /\ Len(<<Head(ch[n])>>) <= 1
    BY DEF IsSeq
  <2> QED
    BY <1>5, <2>1, <2>2 DEF Receive
<1>6. ASSUME NEW n \in Nodes, Crash(n) PROVE WatchersOK'
  BY <1>6, EmptyIsSeq, ConstantAssumption DEF Crash
<1>7. ASSUME NEW p \in Procs,
             \/ Call(p) \/ CommandFails(p) \/ Lock(p) \/ GiveUp(p) \/ Unlock(p)
             \/ GetSnapshot(p) \/ ReadForDelete(p) \/ ReadForSubmit(p) \/ Dedup(p)
             \/ Create(p) \/ CreateContent(p) \/ Delete(p) \/ Since(p) \/ Commit(p)
      PROVE  UNCHANGED pubVars
  BY <1>7 DEF Call, CommandFails, Lock, GiveUp, Unlock, GetSnapshot, ReadForDelete,
              ReadForSubmit, Dedup, Create, CreateContent, Delete, Since, Commit
<1>8. ASSUME Expire \/ Terminated \/ UNCHANGED vars PROVE UNCHANGED pubVars
  BY <1>8 DEF Expire, Terminated, vars, pubVars
<1> QED
  BY <1>1, <1>2, <1>3, <1>4, <1>5, <1>6, <1>7, <1>8 DEF Next, Step

\* The lock, the expired locks and the counts of calls and faults.
LEMMA CountsNext ==
  ASSUME TypeOK, [Next]_vars
  PROVE  /\ lock' \in Procs \cup {Free} /\ expired' \subseteq Procs
         /\ calls' \in 0..MaxCalls /\ faults' \in 0..MaxFaults
<1> USE ConstantAssumption DEF TypeOK
<1> DEFINE Ok == /\ lock' \in Procs \cup {Free} /\ expired' \subseteq Procs
                 /\ calls' \in 0..MaxCalls /\ faults' \in 0..MaxFaults
<1>1. CASE UNCHANGED <<lockVars, calls, faults>>
  BY <1>1 DEF lockVars
<1>2. ASSUME NEW p \in Procs, Call(p) PROVE Ok
  BY <1>2 DEF Call, lockVars
<1>3. ASSUME NEW p \in Procs, Lock(p) PROVE Ok
  BY <1>3 DEF Lock, Faulty
<1>4. ASSUME NEW p \in Procs, Unlock(p) PROVE Ok
  BY <1>4 DEF Unlock, ReleaseLock
<1>5. CASE Expire
  BY <1>5 DEF Expire, countVars
<1>6. ASSUME NEW n \in Nodes, Crash(n) PROVE Ok
  BY <1>6 DEF Crash
<1>7. ASSUME NEW p \in Procs,
             \/ CommandFails(p) \/ Create(p) \/ CreateContent(p) \/ Delete(p) \/ Commit(p)
             \/ Announce(p)
      PROVE  Ok
  BY <1>7 DEF CommandFails, Create, CreateContent, Delete, Commit, Announce, Publish,
              Faulty, lockVars
<1>8. ASSUME NEW p \in Procs,
             \/ GiveUp(p) \/ GetSnapshot(p) \/ ReadForDelete(p) \/ ReadForSubmit(p)
             \/ Dedup(p) \/ Since(p)
      PROVE  UNCHANGED <<lockVars, calls, faults>>
  BY <1>8 DEF GiveUp, GetSnapshot, ReadForDelete, ReadForSubmit, Dedup, Since, countVars
<1>9. ASSUME NEW n \in Watchers, Subscribe(n) \/ Cancel(n) \/ Listen(n) \/ Receive(n)
      PROVE  UNCHANGED <<lockVars, calls, faults>>
  BY <1>9 DEF Subscribe, Cancel, Listen, Receive, countVars
<1>10. ASSUME Terminated \/ UNCHANGED vars PROVE UNCHANGED <<lockVars, calls, faults>>
  BY <1>10 DEF Terminated, vars, lockVars
<1> QED
  BY <1>1, <1>2, <1>3, <1>4, <1>5, <1>6, <1>7, <1>8, <1>9, <1>10 DEF Next, Step

\* Idle nodes on an empty Redis have the shape of TypeOK.
THEOREM TypeInit == Init => TypeOK
<1> SUFFICES ASSUME Init PROVE TypeOK
  OBVIOUS
<1>1. StoreOK
  <2>1. snap = [version |-> Nil, doc |-> Nil] /\ oplist = <<>> /\ overrun = FALSE
        /\ life = 0 /\ cache = [n \in Nodes |-> EmptyCache] /\ DOMAIN EmptyCache = {}
    BY DEF Init, Absent, EmptyCache
  <2> QED
    BY <2>1, EmptyIsSeq DEF StoreOK
<1>2. ControlOK
  BY LabelsByKind DEF Init, ControlOK, Kinds, Kind
<1>3. LocalsOK
  BY DEF Init, LocalsOK, NoRecord
<1>4. WatchersOK
  <2>1. Len(<<>>) <= Buffer /\ Len(<<>>) <= 1
    BY ConstantAssumption
  <2> QED
    BY <2>1, EmptyIsSeq DEF Init, WatchersOK
<1> QED
  BY <1>1, <1>2, <1>3, <1>4, ConstantAssumption DEF Init, TypeOK

\* Every step keeps the shape of TypeOK.
THEOREM TypeNext == TypeOK /\ [Next]_vars => TypeOK'
  BY StoreNext, ControlNext, LocalsNext, WatchersNext, CountsNext DEF TypeOK

\* Every reachable state has the shape of TypeOK.
THEOREM TypeCorrect == Spec => []TypeOK
  BY TypeInit, TypeNext, PTL DEF Spec

-----------------------------------------------------------------------------
(***************************************************************************)
(* The lock and what a call does under it.                                 *)
(***************************************************************************)

\* A lock that expires, a crash and a late unlock take the lock from nobody
\* whose key is still there (the token of RedisLocker).
LEMMA HoldsLockNext == ASSUME TypeOK, HoldsLock, [Next]_vars PROVE HoldsLock'
<1> USE DEF TypeOK, ControlOK, HoldsLock, Holding, Critical
<1>1. CASE UNCHANGED <<pc, lockVars>>
  BY <1>1 DEF lockVars
<1>2. ASSUME NEW p \in Procs, NEW l, pc' = [pc EXCEPT ![p] = l], UNCHANGED lockVars,
             Critical(p) \/ l \in {"idle", "lock", "snapshot"}
      PROVE  HoldsLock'
  BY <1>2 DEF lockVars
<1>3. ASSUME NEW p \in Procs, Lock(p) PROVE HoldsLock'
  <2>1. lock = Free /\ Free \notin Procs /\ lock' = p /\ UNCHANGED expired
    BY <1>3, ConstantAssumption DEF Lock, LockFree
  <2>2. PICK l : pc' = [pc EXCEPT ![p] = l]
    BY <1>3 DEF Lock, Goto, Faulty, Fail, Return
  <2> QED
    BY <2>1, <2>2
<1>4. ASSUME NEW p \in Procs, Unlock(p) PROVE HoldsLock'
  <2>1. pc' = [pc EXCEPT ![p] = "idle"] /\ expired' = expired \ {p}
        /\ (lock' = lock \/ (lock = p /\ lock' = Free))
    BY <1>4 DEF Unlock, Goto, ReleaseLock
  <2> QED
    BY <2>1
<1>5. CASE Expire
  BY <1>5 DEF Expire
<1>6. ASSUME NEW n \in Nodes, Crash(n) PROVE HoldsLock'
  BY <1>6 DEF Crash
<1>7. ASSUME NEW p \in Procs, Call(p) PROVE HoldsLock'
  <2>1. PICK l \in {"lock", "snapshot"} : pc' = [pc EXCEPT ![p] = l]
    BY <1>7 DEF Call
  <2> QED
    BY <1>2, <1>7, <2>1 DEF Call
<1>8. ASSUME NEW p \in Procs, CommandFails(p) \/ GiveUp(p) \/ GetSnapshot(p)
      PROVE  HoldsLock'
  <2>1. PICK l : /\ pc' = [pc EXCEPT ![p] = l]
                 /\ l = IF pc[p] \in {"lock", "snapshot"} THEN "idle" ELSE "unlock"
    BY <1>8 DEF CommandFails, GiveUp, GetSnapshot, Faulty, Fail, Return
  <2>2. UNCHANGED lockVars /\ pc[p] # "idle"
    BY <1>8 DEF CommandFails, GiveUp, GetSnapshot
  <2> QED
    BY <1>2, <2>1, <2>2
<1>9. ASSUME NEW p \in Procs,
             \/ Create(p) \/ CreateContent(p) \/ ReadForDelete(p) \/ Delete(p)
             \/ ReadForSubmit(p) \/ Dedup(p) \/ Since(p) \/ Commit(p) \/ Announce(p)
      PROVE  HoldsLock'
  <2>1. PICK l : pc' = [pc EXCEPT ![p] = l]
    BY <1>9 DEF Create, CreateContent, ReadForDelete, Delete, ReadForSubmit, Dedup,
                Since, Commit, Announce, Faulty, Fail, Return, Goto
  <2>2. UNCHANGED lockVars /\ Critical(p)
    BY <1>9 DEF Create, CreateContent, ReadForDelete, Delete, ReadForSubmit, Dedup,
                Since, Commit, Announce
  <2> QED
    BY <1>2, <2>1, <2>2
<1>10. ASSUME NEW n \in Watchers, Subscribe(n) \/ Cancel(n) \/ Listen(n) \/ Receive(n)
       PROVE  UNCHANGED <<pc, lockVars>>
  BY <1>10 DEF Subscribe, Cancel, Listen, Receive
<1>11. ASSUME Terminated \/ UNCHANGED vars PROVE UNCHANGED <<pc, lockVars>>
  BY <1>11 DEF Terminated, vars, lockVars
<1> QED
  BY <1>1, <1>3, <1>4, <1>5, <1>6, <1>7, <1>8, <1>9, <1>10, <1>11 DEF Next, Step

\* What a call knows that works under its own lock.
View(p) ==
  /\ CopyIsCurrent(p) /\ StillFresh(p) /\ HasApplied(p)
  /\ HasCreated(p) /\ HasCommitted(p) /\ HasDeleted(p)
Views == ~overrun => \A p \in Procs : Holding(p) => View(p)

\* A document that is missing has no content (CreateDoc writes the version first).
NoHalfDeleted == ~overrun /\ snap.version = Nil => snap = Absent

\* Labels with nothing read yet, or nothing left to do but to unlock.
Outside == {"idle", "lock", "snapshot", "create", "read", "unlock"}

\* A call that has read nothing yet, or is about to unlock, knows nothing.
LEMMA OutsideView == ASSUME NEW p, pc[p] \in Outside PROVE View(p)
  BY DEF View, Outside, CopyIsCurrent, StillFresh, HasApplied, HasCreated, HasCommitted,
         HasDeleted

\* A call whose locals and the store stay as they are keeps what it knows.
LEMMA ViewFrame ==
  ASSUME NEW q \in Procs, View(q), UNCHANGED storeVars,
         pc'[q] = pc[q], req'[q] = req[q], rec'[q] = rec[q], acc'[q] = acc[q]
  PROVE  View(q)'
  BY DEF View, CopyIsCurrent, StillFresh, HasApplied, HasCreated, HasCommitted,
         HasDeleted, storeVars, Kind

\* A step of one call that writes nothing leaves the others' views alone.
LEMMA CalmStep ==
  ASSUME TypeOK, Views, NEW p \in Procs, UNCHANGED <<storeVars, expired>>,
         \A q \in Procs \ {p} : /\ pc'[q] = pc[q] /\ req'[q] = req[q]
                                /\ rec'[q] = rec[q] /\ acc'[q] = acc[q],
         ~overrun /\ Holding(p)' => View(p)'
  PROVE  Views'
<1> SUFFICES ASSUME ~overrun', NEW q \in Procs, Holding(q)' PROVE View(q)'
  BY DEF Views
<1>1. CASE q = p
  BY <1>1 DEF storeVars
<1>2. CASE q # p
  <2>1. Holding(q) /\ ~overrun
    BY <1>2 DEF Holding, Critical, storeVars
  <2> QED
    BY <1>2, <2>1, ViewFrame DEF Views
<1> QED
  BY <1>1, <1>2

\* A call that writes while its lock is its own is the only one of that kind.
LEMMA WriterStep ==
  ASSUME TypeOK, HoldsLock, Views, NEW p \in Procs, Critical(p), UNCHANGED lockVars,
         overrun' = (overrun \/ p \in expired),
         \A q \in Procs \ {p} : pc'[q] = pc[q],
         ~overrun /\ Holding(p) => View(p)'
  PROVE  Views'
<1> SUFFICES ASSUME ~overrun', NEW q \in Procs, Holding(q)' PROVE View(q)'
  BY DEF Views
<1>1. Holding(p) /\ ~overrun
  BY DEF Holding, Critical
<1>2. q = p
  BY <1>1 DEF HoldsLock, Holding, Critical, lockVars
<1> QED
  BY <1>1, <1>2

\* The scan of the idempotency check covers the whole list (LRANGE 0 version-1).
LEMMA DedupScan ==
  ASSUME TypeOK, SerialVersions, ~overrun, snap.version # Nil
  PROVE  GetOps(0, snap.version) = oplist
<1>1. IsSeq(oplist) /\ snap.version = Len(oplist) /\ Len(oplist) \in Nat
  BY IsSeqFacts DEF SerialVersions, TypeOK, StoreOK
<1>2. GetOps(0, snap.version) = SubSeq(oplist, 1, Len(oplist))
  BY <1>1 DEF GetOps
<1> QED
  BY <1>1, <1>2, SubSeqFull DEF IsSeq

\* Reading: the copy is current, and an empty list holds no twin.
LEMMA ReadViews ==
  ASSUME TypeOK, HoldsLock, Views, SerialVersions, NEW p \in Procs,
         ReadForDelete(p) \/ ReadForSubmit(p)
  PROVE  Views'
<1>1. /\ UNCHANGED <<storeVars, expired>>
      /\ \A q \in Procs \ {p} : /\ pc'[q] = pc[q] /\ req'[q] = req[q]
                                /\ rec'[q] = rec[q] /\ acc'[q] = acc[q]
  BY DEF ReadForDelete, ReadForSubmit, Fail, Return, Goto, lockVars, TypeOK, ControlOK,
         LocalsOK
<1>2. PICK l \in {"unlock", "delete", "dedup", "since"} :
        /\ Moves(p, l)
        /\ l # "unlock" => snap.version # Nil /\ rec' = [rec EXCEPT ![p] = snap]
        /\ l = "since" => ~(HasID(req[p]) /\ snap.version > 0)
  BY DEF ReadForDelete, ReadForSubmit, Fail, Return, Goto, Moves
<1>3. ASSUME ~overrun PROVE View(p)'
  <2>1. pc'[p] = l /\ Kind(p)' = Kind(p) /\ req' = req
    BY <1>2 DEF Moves, TypeOK, ControlOK, Kind
  <2>2. CASE l = "unlock"
    BY <2>1, <2>2, OutsideView DEF Outside, View, CopyIsCurrent, StillFresh, HasApplied,
       HasCreated, HasCommitted, HasDeleted
  <2>3. CASE l # "unlock"
    <3>1. CopyIsCurrent(p)'
      BY <1>1, <1>2, <2>3 DEF CopyIsCurrent, storeVars, TypeOK, LocalsOK
    <3>2. StillFresh(p)'
      <4>1. CASE l = "since"
        <5>1. HasID(req[p]) => oplist = <<>>
          <6>1. snap.version \in Nat /\ snap.version = Len(oplist) /\ IsSeq(oplist)
            BY <1>2, <1>3, <4>1 DEF SerialVersions, TypeOK, StoreOK
          <6> QED
            BY <1>2, <4>1, <6>1 DEF IsSeq
        <5> QED
          BY <1>1, <2>1, <5>1, EmptyIsSeq DEF StillFresh, storeVars
      <4>2. CASE l # "since"
        BY <1>2, <2>1, <4>2 DEF StillFresh
      <4> QED
        BY <4>1, <4>2
    <3> QED
      BY <1>2, <2>1, <3>1, <3>2 DEF View, HasApplied, HasCreated, HasCommitted, HasDeleted
  <2> QED
    BY <2>2, <2>3
<1> QED
  BY <1>1, <1>3, CalmStep

\* The scan, the rebasing and the application rely on the copy read before.
LEMMA ComputeViews ==
  ASSUME TypeOK, HoldsLock, Views, SerialVersions, NEW p \in Procs, Dedup(p) \/ Since(p)
  PROVE  Views'
<1>1. /\ UNCHANGED <<storeVars, expired>> /\ UNCHANGED <<req, rec>>
      /\ \A q \in Procs \ {p} : pc'[q] = pc[q] /\ acc'[q] = acc[q]
  BY DEF Dedup, Since, Fail, Return, Goto, lockVars, localVars, TypeOK, ControlOK,
         LocalsOK
<1>2. PICK l \in {"unlock", "since", "commit"} : pc' = [pc EXCEPT ![p] = l]
  BY DEF Dedup, Since, Fail, Return, Goto
<1>3. pc'[p] = l /\ Kind(p)' = Kind(p)
  BY <1>1, <1>2 DEF TypeOK, ControlOK, Kind
<1>4. ASSUME ~overrun, Holding(p)' PROVE View(p)'
  <2>1. Holding(p) /\ CopyIsCurrent(p) /\ StillFresh(p) /\ pc[p] \in {"dedup", "since"}
    BY <1>1, <1>4 DEF Views, View, Dedup, Since, Holding, Critical
  <2>2. snap.version # Nil /\ rec[p] = snap
    BY <2>1 DEF CopyIsCurrent
  <2>3. CopyIsCurrent(p)'
    BY <1>1, <2>2 DEF CopyIsCurrent, storeVars
  <2>4. StillFresh(p)'
    <3>1. CASE Dedup(p)
      <4>1. l = "since" => Twins(oplist, req[p]) = {}
        BY <1>2, <1>4, <2>2, <3>1, DedupScan, <1>3 DEF Dedup, Fail, Return, Goto, TypeOK, ControlOK
      <4>2. l # "commit"
        BY <1>3, <3>1 DEF Dedup, Fail, Return, Goto, TypeOK, ControlOK
      <4> QED
        BY <1>1, <1>3, <4>1, <4>2 DEF StillFresh, Twins, storeVars
    <3>2. CASE Since(p)
      BY <1>1, <2>1, <3>2 DEF StillFresh, Since, storeVars
    <3> QED
      BY <3>1, <3>2
  <2>5. HasApplied(p)'
    <3>1. CASE l = "commit"
      <4>1. Since(p)
        BY <1>3, <3>1 DEF Dedup, Fail, Return, Goto, TypeOK, ControlOK
      <4>2. PICK op : /\ acc' = [acc EXCEPT ![p] = [op |-> op, doc |-> ApplyOp(rec[p].doc, op)]]
                      /\ rec[p].doc # Nil
        BY <1>3, <3>1, <4>1 DEF Since, Fail, Return, Goto, Parses, TypeOK, ControlOK
      <4> QED
        BY <1>1, <4>2 DEF HasApplied, TypeOK, LocalsOK
    <3>2. CASE l # "commit"
      BY <1>3, <3>2 DEF HasApplied
    <3> QED
      BY <3>1, <3>2
  <2> QED
    BY <1>3, <2>3, <2>4, <2>5 DEF View, HasCreated, HasCommitted, HasDeleted
<1> QED
  BY <1>1, <1>4, CalmStep

\* The two commands of a creation: the first makes the document, without content.
LEMMA CreateViews ==
  ASSUME TypeOK, HoldsLock, Views, NoHalfDeleted, NEW p \in Procs,
         Create(p) \/ CreateContent(p)
  PROVE  Views'
<1>0. Critical(p) /\ UNCHANGED <<req, rec, acc, oplist>> /\ UNCHANGED lockVars
  BY DEF Create, CreateContent, Critical, localVars, storeVars
<1>1. PICK l \in {"unlock", "content"} :
        /\ pc' = [pc EXCEPT ![p] = l]
        /\ l = "content" => /\ snap.version = Nil
                            /\ snap' = [version |-> 0, doc |-> snap.doc] /\ initial' = Nil
  BY <1>0 DEF Create, CreateContent, Faulty, Fail, Return, Goto, Critical
<1>2. pc'[p] = l /\ \A q \in Procs \ {p} : pc'[q] = pc[q]
  BY <1>1 DEF TypeOK, ControlOK
<1>3. ASSUME ~overrun PROVE View(p)'
  <2>1. l = "content" => HasCreated(p)'
    BY <1>1, <1>2, <1>3 DEF HasCreated, NoHalfDeleted, Absent
  <2>2. l # "content" => HasCreated(p)'
    BY <1>2 DEF HasCreated
  <2> QED
    BY <1>2, <2>1, <2>2 DEF View, CopyIsCurrent, StillFresh, HasApplied, HasCommitted,
                            HasDeleted
<1>4. CASE UNCHANGED storeVars
  <2>1. \A q \in Procs \ {p} : req'[q] = req[q] /\ rec'[q] = rec[q] /\ acc'[q] = acc[q]
    BY <1>0
  <2> QED
    BY <1>0, <1>2, <1>3, <1>4, <2>1, CalmStep DEF lockVars
<1>5. CASE Overruns(p)
  BY <1>0, <1>2, <1>3, <1>5, WriterStep DEF Overruns
<1> QED
  BY <1>4, <1>5 DEF Create, CreateContent

\* A deletion leaves nothing; who publishes it knows that.
LEMMA DeleteViews ==
  ASSUME TypeOK, HoldsLock, Views, NEW p \in Procs, Delete(p) PROVE Views'
<1>0. /\ Critical(p) /\ UNCHANGED <<req, rec, acc>> /\ UNCHANGED lockVars
      /\ Kind(p) = "delete" /\ Kind(p)' = "delete"
  BY LabelsByKind DEF Delete, Critical, localVars, Kind, TypeOK, ControlOK, Kinds
<1>1. PICK l \in {"unlock", "publish"} :
        pc' = [pc EXCEPT ![p] = l] /\ (l = "publish" => snap' = Absent)
  BY DEF Delete, Faulty, Fail, Return, Goto
<1>2. pc'[p] = l /\ \A q \in Procs \ {p} : pc'[q] = pc[q]
  BY <1>1 DEF TypeOK, ControlOK
<1>3. View(p)'
  BY <1>0, <1>1, <1>2 DEF View, CopyIsCurrent, StillFresh, HasApplied, HasCreated,
                          HasCommitted, HasDeleted, Absent
<1>4. CASE UNCHANGED storeVars
  <2>1. \A q \in Procs \ {p} : req'[q] = req[q] /\ rec'[q] = rec[q] /\ acc'[q] = acc[q]
    BY <1>0
  <2> QED
    BY <1>0, <1>2, <1>3, <1>4, <2>1, CalmStep DEF lockVars
<1>5. CASE Overruns(p)
  BY <1>0, <1>2, <1>3, <1>5, WriterStep DEF Overruns
<1> QED
  BY <1>4, <1>5 DEF Delete

\* What a commit appends under an unexpired lock, and what it stores.
LEMMA CommitFacts ==
  ASSUME TypeOK, HoldsLock, Views, SerialVersions, NEW p \in Procs, Commit(p),
         ~overrun, p \notin expired
  PROVE  /\ snap # Absent /\ snap.version # Nil /\ rec[p] = snap
         /\ snap.version = Len(oplist) /\ Len(oplist) \in Nat /\ IsSeq(oplist)
         /\ snap' = [version |-> Len(oplist) + 1, doc |-> ApplyOp(snap.doc, acc[p].op)]
         /\ snap.doc # Nil
         /\ oplist' = Append(oplist, Entry(p))
         /\ Entry(p).version = Len(oplist) + 1
         /\ HasID(req[p]) => \A i \in DOMAIN oplist : ~SameID(oplist[i], req[p])
<1>1. Holding(p) /\ pc[p] = "commit"
  BY DEF Commit, Holding, Critical
<1>2. /\ snap.version # Nil /\ rec[p] = snap /\ rec[p].doc # Nil
      /\ acc[p].doc = ApplyOp(rec[p].doc, acc[p].op)
      /\ HasID(req[p]) => \A i \in DOMAIN oplist : ~SameID(oplist[i], req[p])
  BY <1>1 DEF Views, View, CopyIsCurrent, StillFresh, HasApplied
<1>3. snap # Absent
  BY <1>2 DEF Absent
<1>4. /\ snap' = [version |-> Entry(p).version, doc |-> acc[p].doc]
      /\ oplist' = Append(oplist, Entry(p))
  BY <1>3 DEF Commit, CommitOp
<1>5. Entry(p).version = rec[p].version + 1
  BY DEF Entry
<1>6. snap.version = Len(oplist) /\ IsSeq(oplist) /\ Len(oplist) \in Nat
  BY <1>2, IsSeqFacts DEF SerialVersions, TypeOK, StoreOK
<1> QED
  BY <1>2, <1>3, <1>4, <1>5, <1>6

\* Who publishes a submission knows its record.
LEMMA CommitViews ==
  ASSUME TypeOK, HoldsLock, Views, SerialVersions, NEW p \in Procs, Commit(p)
  PROVE  Views'
<1>0. /\ Critical(p) /\ UNCHANGED <<req, rec, acc>> /\ UNCHANGED lockVars
      /\ Kind(p) = "submit" /\ Kind(p)' = "submit"
  BY LabelsByKind DEF Commit, Critical, localVars, Kind, TypeOK, ControlOK, Kinds
<1>1. PICK l \in {"unlock", "publish"} : pc' = [pc EXCEPT ![p] = l]
  BY DEF Commit, Faulty, Fail, Return, Goto
<1>2. pc'[p] = l /\ \A q \in Procs \ {p} : pc'[q] = pc[q]
  BY <1>1 DEF TypeOK, ControlOK
<1>3. ASSUME ~overrun, Holding(p) PROVE View(p)'
  <2>1. /\ rec[p].version = Len(oplist) /\ Len(oplist) \in Nat /\ IsSeq(oplist)
        /\ snap'.version = Len(oplist) + 1
        /\ oplist' = Append(oplist, Entry(p))
    BY <1>3, CommitFacts DEF Holding
  <2>2. Len(oplist) + 1 \in DOMAIN oplist' /\ oplist'[Len(oplist) + 1] = Entry(p)
    BY <2>1, AppendFacts
  <2>3. SameID(Entry(p), req[p]) /\ Entry(p).sub = req[p].payload
    BY DEF SameID, Entry
  <2>4. HasCommitted(p)'
    BY <1>0, <2>1, <2>2, <2>3 DEF HasCommitted, SameID
  <2> QED
    BY <1>0, <1>1, <1>2, <2>4 DEF View, CopyIsCurrent, StillFresh, HasApplied, HasCreated,
                                  HasDeleted
<1>4. overrun' = (overrun \/ p \in expired)
  BY DEF Commit, Overruns
<1> QED
  BY <1>0, <1>2, <1>3, <1>4, WriterStep

\* Steps after which a call has nothing to rely on: calls, the lock, early
\* returns, publishing and unlocking.
LEMMA OutsideViews ==
  ASSUME TypeOK, Views, NEW p \in Procs,
         \/ Call(p) \/ CommandFails(p) \/ Lock(p) \/ GiveUp(p) \/ Unlock(p)
         \/ GetSnapshot(p) \/ Announce(p)
  PROVE  Views'
<1>1. PICK l \in Outside : pc' = [pc EXCEPT ![p] = l]
  BY DEF Call, CommandFails, Lock, GiveUp, Unlock, GetSnapshot, Announce, Faulty, Fail,
         Return, Goto, Outside
<1>2. pc'[p] = l /\ \A q \in Procs \ {p} : pc'[q] = pc[q]
  BY <1>1 DEF TypeOK, ControlOK
<1>3. \A q \in Procs \ {p} : req'[q] = req[q] /\ rec'[q] = rec[q] /\ acc'[q] = acc[q]
  BY DEF Call, CommandFails, Lock, GiveUp, Unlock, GetSnapshot, Announce, TypeOK, ControlOK,
         LocalsOK, localVars
<1>4. UNCHANGED <<snap, oplist, initial, life>>
  BY DEF Call, CommandFails, Lock, GiveUp, Unlock, GetSnapshot, Announce, storeVars
<1>5. overrun => overrun'
  BY DEF Call, CommandFails, Lock, GiveUp, Unlock, GetSnapshot, Announce, storeVars,
         Overruns
<1>6. UNCHANGED expired \/ expired' = expired \ {p}
  BY DEF Call, CommandFails, Lock, GiveUp, Unlock, GetSnapshot, Announce, lockVars
<1> SUFFICES ASSUME ~overrun', NEW q \in Procs, Holding(q)' PROVE View(q)'
  BY DEF Views
<1>7. CASE q = p
  BY <1>1, <1>2, <1>7 DEF View, Outside, CopyIsCurrent, StillFresh, HasApplied, HasCreated,
                          HasCommitted, HasDeleted
<1>8. CASE q # p
  <2>1. Holding(q) /\ ~overrun
    BY <1>2, <1>8, <1>5, <1>6 DEF Holding, Critical
  <2>2. View(q)
    BY <2>1 DEF Views
  <2> QED
    BY <1>2, <1>3, <1>4, <1>8, <2>2
    DEF View, CopyIsCurrent, StillFresh, HasApplied, HasCreated, HasCommitted, HasDeleted, Kind
<1> QED
  BY <1>7, <1>8

\* Nothing another goroutine, node, subscriber or clock does makes stale what a
\* call knows whose lock is its own.
LEMMA ViewsNext ==
  ASSUME TypeOK, HoldsLock, Views, SerialVersions, NoHalfDeleted, [Next]_vars
  PROVE  Views'
<1>1. ASSUME UNCHANGED <<storeVars, localVars, req>>,
             \A q \in Procs : Holding(q)' => Holding(q) /\ pc'[q] = pc[q]
      PROVE  Views'
  BY <1>1, ViewFrame DEF Views, storeVars, localVars
<1>2. CASE Expire
  <2>1. lock \in Procs => lock \notin expired \/ lock \in expired'
    BY <1>2 DEF Expire
  <2>2. \A q \in Procs : Holding(q)' => Holding(q) /\ pc'[q] = pc[q]
    BY <1>2 DEF Expire, Holding, Critical
  <2> QED
    BY <1>1, <1>2, <2>2 DEF Expire, localVars
<1>3. ASSUME NEW n \in Nodes, Crash(n) PROVE Views'
  <2>1. \A q \in Procs : Holding(q)' =>
          Holding(q) /\ pc'[q] = pc[q] /\ rec'[q] = rec[q] /\ acc'[q] = acc[q]
    BY <1>3 DEF Crash, Holding, Critical
  <2>2. UNCHANGED <<storeVars, req>>
    BY <1>3 DEF Crash
  <2> QED
    BY <2>1, <2>2, ViewFrame DEF Views, storeVars
<1>4. ASSUME NEW n \in Watchers, Subscribe(n) \/ Cancel(n) \/ Listen(n) \/ Receive(n)
      PROVE  Views'
  BY <1>1, <1>4 DEF Subscribe, Cancel, Listen, Receive, Holding, Critical, lockVars, localVars
<1>5. ASSUME Terminated \/ UNCHANGED vars PROVE Views'
  BY <1>1, <1>5 DEF Terminated, vars, Holding, Critical, storeVars, localVars
<1> QED
  BY <1>2, <1>3, <1>4, <1>5, OutsideViews, ReadViews, ComputeViews, CreateViews,
     DeleteViews, CommitViews DEF Next, Step

-----------------------------------------------------------------------------
(***************************************************************************)
(* The list.  A commit numbers and checks its record by what its call read *)
(* before, so SerialVersions and AtMostOnce need Views to be inductive.    *)
(***************************************************************************)

\* Only the four commands of a call that write the document change it.
LEMMA StoreStep ==
  ASSUME [Next]_vars, ~ UNCHANGED <<snap, oplist, initial, life>>
  PROVE  \E p \in Procs :
           /\ Create(p) \/ CreateContent(p) \/ Delete(p) \/ Commit(p)
           /\ Critical(p) /\ overrun' = (overrun \/ p \in expired)
<1>1. PICK p \in Procs : Create(p) \/ CreateContent(p) \/ Delete(p) \/ Commit(p)
  BY DEF Next, Step, Call, CommandFails, Lock, GiveUp, Unlock, GetSnapshot, ReadForDelete,
         ReadForSubmit, Dedup, Since, Announce, Expire, Crash, Subscribe, Cancel, Listen,
         Receive, Terminated, vars, storeVars
<1>2. Critical(p) /\ overrun' = (overrun \/ p \in expired)
  BY <1>1 DEF Create, CreateContent, Delete, Commit, Critical, Overruns, storeVars
<1> QED
  BY <1>1, <1>2

\* An overrun is never taken back.
LEMMA OverrunStays == ASSUME [Next]_vars, overrun PROVE overrun'
  BY DEF Next, Step, Call, CommandFails, Lock, GiveUp, Unlock, GetSnapshot, ReadForDelete,
         ReadForSubmit, Dedup, Since, Announce, Expire, Crash, Subscribe, Cancel, Listen,
         Receive, Terminated, vars, storeVars, Overruns, Create, CreateContent, Delete, Commit

\* Who writes without an overrun has a lock of its own.
LEMMA WriterHolds ==
  ASSUME ~overrun', NEW p \in Procs,
         Create(p) \/ CreateContent(p) \/ Delete(p) \/ Commit(p),
         overrun' = (overrun \/ p \in expired)
  PROVE  ~overrun /\ p \notin expired /\ Holding(p)
  BY DEF Create, CreateContent, Delete, Commit, Holding, Critical

\* The document appears with its version and goes with its list; a commit puts
\* version n + 1 behind n records.
LEMMA SerialNext ==
  ASSUME TypeOK, HoldsLock, Views, NoHalfDeleted, SerialVersions, [Next]_vars
  PROVE  NoHalfDeleted' /\ SerialVersions'
<1> SUFFICES ASSUME ~overrun' PROVE NoHalfDeleted' /\ SerialVersions'
  BY DEF NoHalfDeleted, SerialVersions
<1>0. ~overrun
  BY OverrunStays
<1>1. CASE UNCHANGED <<snap, oplist, initial, life>>
  BY <1>0, <1>1 DEF NoHalfDeleted, SerialVersions
<1>2. CASE ~ UNCHANGED <<snap, oplist, initial, life>>
  <2>1. PICK p \in Procs : /\ Create(p) \/ CreateContent(p) \/ Delete(p) \/ Commit(p)
                           /\ overrun' = (overrun \/ p \in expired)
    BY <1>2, StoreStep
  <2>2. p \notin expired /\ Holding(p)
    BY <2>1, WriterHolds
  <2>3. CASE Create(p)
    <3>1. snap.version = Nil /\ snap' = [version |-> 0, doc |-> snap.doc] /\ UNCHANGED oplist
      BY <1>2, <2>3 DEF Create, storeVars
    <3>2. oplist = <<>> /\ 0 # Nil
      BY <1>0, <3>1, ConstantAssumption DEF SerialVersions
    <3> QED
      BY <3>1, <3>2, EmptyIsSeq DEF NoHalfDeleted, SerialVersions
  <2>4. CASE CreateContent(p)
    <3>1. snap.version = 0
      BY <1>0, <2>2, <2>4 DEF Views, View, HasCreated, CreateContent
    <3>2. snap'.version = snap.version /\ UNCHANGED oplist /\ 0 # Nil
      BY <2>4, ConstantAssumption DEF CreateContent
    <3> QED
      BY <1>0, <3>1, <3>2 DEF NoHalfDeleted, SerialVersions
  <2>5. CASE Delete(p)
    BY <1>2, <2>5, EmptyIsSeq DEF Delete, storeVars, NoHalfDeleted, SerialVersions, Absent
  <2>6. CASE Commit(p)
    <3>1. /\ Len(oplist) \in Nat /\ IsSeq(oplist) /\ snap'.version = Len(oplist) + 1
          /\ oplist' = Append(oplist, Entry(p)) /\ Entry(p).version = Len(oplist) + 1
      BY <1>0, <2>2, <2>6, CommitFacts
    <3>2. snap'.version # Nil
      BY <3>1, ConstantAssumption
    <3>3. /\ Len(oplist') = Len(oplist) + 1
          /\ \A i \in DOMAIN oplist' : oplist'[i].version = i
      BY <1>0, <3>1, AppendFacts DEF SerialVersions
    <3> QED
      BY <3>1, <3>2, <3>3 DEF NoHalfDeleted, SerialVersions
  <2> QED
    BY <2>1, <2>3, <2>4, <2>5, <2>6
<1> QED
  BY <1>1, <1>2

\* The scan found no twin, and none came in between.
LEMMA AtMostOnceNext ==
  ASSUME TypeOK, HoldsLock, Views, SerialVersions, AtMostOnce, [Next]_vars
  PROVE  AtMostOnce'
<1> SUFFICES ASSUME ~overrun' PROVE AtMostOnce'
  BY DEF AtMostOnce
<1>0. ~overrun
  BY OverrunStays
<1>1. CASE UNCHANGED oplist
  BY <1>0, <1>1 DEF AtMostOnce
<1>2. CASE ~ UNCHANGED oplist
  <2>1. PICK p \in Procs : /\ Create(p) \/ CreateContent(p) \/ Delete(p) \/ Commit(p)
                           /\ overrun' = (overrun \/ p \in expired)
    BY <1>2, StoreStep
  <2>2. CASE Commit(p)
    <3>1. p \notin expired
      BY <2>1, WriterHolds
    <3>2. /\ IsSeq(oplist) /\ oplist' = Append(oplist, Entry(p))
          /\ HasID(req[p]) => \A i \in DOMAIN oplist : ~SameID(oplist[i], req[p])
      BY <1>0, <2>2, <3>1, CommitFacts
    <3>3. Entry(p).source = req[p].source /\ Entry(p).seq = req[p].seq
      BY DEF Entry
    <3>4. /\ DOMAIN oplist' = DOMAIN oplist \cup {Len(oplist) + 1}
          /\ \A i \in DOMAIN oplist : oplist'[i] = oplist[i]
          /\ oplist'[Len(oplist) + 1] = Entry(p)
      BY <3>2, AppendFacts
    <3> QED
      BY <1>0, <3>2, <3>3, <3>4 DEF AtMostOnce, HasID, SameID
  <2>3. CASE Delete(p)
    BY <1>2, <2>3, EmptyIsSeq DEF Delete, storeVars, AtMostOnce
  <2>4. CASE Create(p) \/ CreateContent(p)
    BY <1>2, <2>4 DEF Create, CreateContent, storeVars
  <2> QED
    BY <2>1, <2>2, <2>3, <2>4
<1> QED
  BY <1>1, <1>2

-----------------------------------------------------------------------------
(* The inductive invariant *)
Inv ==
  /\ TypeOK /\ HoldsLock /\ Views /\ NoHalfDeleted
  /\ SerialVersions /\ AtMostOnce

\* Initially nobody has a lock and the list is empty.
LEMMA InvInit == Init => Inv
<1> SUFFICES ASSUME Init PROVE Inv
  OBVIOUS
<1>1. TypeOK
  BY TypeInit
<1>2. \A p \in Procs : ~Holding(p)
  BY DEF Init, Holding, Critical
<1>3. snap = Absent /\ snap.version = Nil /\ oplist = <<>>
  BY DEF Init, Absent
<1> QED
  BY <1>1, <1>2, <1>3, EmptyIsSeq DEF Inv, HoldsLock, Views, NoHalfDeleted, SerialVersions,
                                      AtMostOnce

\* Every step preserves the inductive invariant.
LEMMA InvNext == Inv /\ [Next]_vars => Inv'
  BY TypeNext, HoldsLockNext, ViewsNext, SerialNext, AtMostOnceNext DEF Inv

\* The inductive invariant holds in every reachable state.
LEMMA InvCorrect == Spec => []Inv
  BY InvInit, InvNext, PTL DEF Spec

\* A call whose lock has not expired works under a lock that is its own, on the
\* document as it has read it: for every number of nodes and goroutines,
\* whatever crashes, fails or loses its reply (RedisLocker, submitCore).
THEOREM LockedViewCorrect == Spec => []LockedView
<1>1. Inv => LockedView
  BY DEF Inv, Views, View, LockedView
<1> QED
  BY <1>1, InvCorrect, PTL

\* The version in the hash is the number of records in the list, and the i-th
\* of them made version i (CommitOp, which compares no versions itself).
THEOREM SerialVersionsCorrect == Spec => []SerialVersions
  BY InvCorrect, PTL DEF Inv

\* No request is committed twice, on whatever node it is retried (submitCore).
THEOREM AtMostOnceCorrect == Spec => []AtMostOnce
  BY InvCorrect, PTL DEF Inv

-----------------------------------------------------------------------------
(***************************************************************************)
(* Answers.  Who is told that a submission was committed finds its record  *)
(* as long as the document lives.                                          *)
(***************************************************************************)

\* The two answers: what a call returns that has written the document.
Answer(q) ==
  \/ CreateContent(q) /\ ret'[q] = [status |-> "ok", version |-> 0, life |-> life]
  \/ Announce(q) /\ ret'[q] = [status |-> "ok", version |-> Event(q).version, life |-> life]

\* Only CreateContent and Announce answer a call that writes.
LEMMA Answers ==
  ASSUME TypeOK, [Next]_vars, NEW q \in Procs
  PROVE  \/ ret'[q] = ret[q] /\ Kind(q)' = Kind(q) /\ req'[q] = req[q]
         \/ ret'[q].status # "ok"
         \/ Kind(q)' = "snapshot"
         \/ Answer(q) /\ UNCHANGED req /\ Kind(q)' = Kind(q)
<1> USE DEF TypeOK, ControlOK, Kind
<1>1. CASE UNCHANGED <<ret, req>>
  BY <1>1
<1>2. ASSUME NEW p \in Procs, p # q, Call(p) \/ CommandFails(p) \/ Step(p)
      PROVE  ret'[q] = ret[q] /\ req'[q] = req[q]
  BY <1>2 DEF Step, Call, CommandFails, Lock, GiveUp, Unlock, GetSnapshot, ReadForDelete,
     ReadForSubmit, Dedup, Since, Announce, Create, CreateContent, Delete, Commit, Faulty,
     Fail, Return, Goto
<1>3. ASSUME Call(q) \/ CommandFails(q) \/ GiveUp(q)
      PROVE  ret'[q].status # "ok"
  BY <1>3 DEF Call, CommandFails, GiveUp, Faulty, Fail, Return
<1>4. ASSUME \/ Lock(q) \/ Unlock(q) \/ ReadForDelete(q) \/ ReadForSubmit(q)
             \/ Dedup(q) \/ Since(q) \/ Create(q) \/ Delete(q) \/ Commit(q)
      PROVE  UNCHANGED req /\ (UNCHANGED ret \/ ret'[q].status # "ok")
  BY <1>4 DEF Lock, Unlock, ReadForDelete, ReadForSubmit, Dedup, Since, Create, Delete,
     Commit, Faulty, Fail, Return, Goto, Unreadable
<1>5. CASE GetSnapshot(q)
  BY <1>5, LabelsByKind DEF GetSnapshot, Kinds
<1>6. CASE CreateContent(q)
  BY <1>6 DEF CreateContent, Faulty, Fail, Return, Answer
<1>7. CASE Announce(q)
  BY <1>7 DEF Announce, Return, Answer
<1>8. ASSUME NEW n \in Nodes, Crash(n)
      PROVE  UNCHANGED req /\ (ret'[q] = ret[q] \/ ret'[q].status # "ok")
  BY <1>8 DEF Crash
<1>9. ASSUME NEW n \in Watchers, Subscribe(n) \/ Cancel(n) \/ Listen(n) \/ Receive(n)
      PROVE  UNCHANGED <<ret, req>>
  BY <1>9 DEF Subscribe, Cancel, Listen, Receive
<1>10. ASSUME Expire \/ Terminated \/ UNCHANGED vars PROVE UNCHANGED <<ret, req>>
  BY <1>10 DEF Expire, Terminated, vars
<1> QED
  BY <1>1, <1>2, <1>3, <1>4, <1>5, <1>6, <1>7, <1>8, <1>9, <1>10 DEF Next, Step

\* An answer names a life of the document that has begun.
AnsweredOf(p) ==
  ret[p].status = "ok" /\ Kind(p) # "snapshot" => ret[p].life \in Nat /\ ret[p].life <= life

\* What an answer promises while the document it speaks of is there.
Kept(p) ==
  ret[p].status = "ok" /\ Kind(p) # "snapshot" /\ ret[p].life = life /\ snap # Absent =>
    /\ Kind(p) = "create" => Whole
    /\ Kind(p) = "submit" =>
         /\ ret[p].version \in DOMAIN oplist
         /\ SameID(oplist[ret[p].version], req[p])
         /\ oplist[ret[p].version].sub = req[p].payload
AllKept ==
  /\ \A p \in Procs : AnsweredOf(p)
  /\ ~overrun => \A p \in Procs : Kept(p)

\* Applying an operation to a document leaves a document.
ApplyYieldsContent == \A d, o : d # Nil => ApplyOp(d, o) # Nil

\* The life of a document changes only with its creation.
LEMMA LifeStep ==
  ASSUME TypeOK, [Next]_vars
  PROVE  \/ UNCHANGED life
         \/ life' = life + 1 /\ \E p \in Procs : Create(p) /\ snap.version = Nil
<1>1. CASE UNCHANGED <<snap, oplist, initial, life>>
  BY <1>1
<1>2. CASE ~ UNCHANGED <<snap, oplist, initial, life>>
  BY <1>2, StoreStep DEF Create, CreateContent, Delete, Commit, storeVars
<1> QED
  BY <1>1, <1>2

\* What is promised stays so when others write the document.
LEMMA KeptByWriters ==
  ASSUME Inv, ApplyYieldsContent, [Next]_vars, ~overrun', NEW q \in Procs,
         AnsweredOf(q), Kept(q), UNCHANGED <<Kind(q), ret[q], req[q]>>
  PROVE  Kept(q)'
<1> USE DEF Inv
<1>0. ~overrun
  BY OverrunStays
<1>1. CASE UNCHANGED <<snap, oplist, initial, life>>
  BY <1>1 DEF Kept, Whole
<1>2. CASE ~ UNCHANGED <<snap, oplist, initial, life>>
  <2>1. PICK p \in Procs : /\ Create(p) \/ CreateContent(p) \/ Delete(p) \/ Commit(p)
                           /\ overrun' = (overrun \/ p \in expired)
    BY <1>2, StoreStep
  <2>2. p \notin expired /\ Holding(p)
    BY <2>1, WriterHolds
  <2>3. CASE Create(p)
    <3>1. life' = life + 1 /\ life \in Nat
      BY <1>2, <2>3 DEF Create, storeVars, TypeOK, StoreOK
    <3> QED
      BY <3>1 DEF Kept, AnsweredOf
  <2>4. CASE CreateContent(p)
    <3>1. snap # Absent /\ snap.version # Nil
      BY <1>0, <2>2, <2>4, ConstantAssumption
      DEF Views, View, HasCreated, CreateContent, Absent
    <3>2. req[p].payload # Nil
      BY <2>4, LabelsByKind DEF CreateContent, TypeOK, ControlOK, Kinds
    <3> QED
      BY <2>4, <3>1, <3>2 DEF CreateContent, Kept, Whole
  <2>5. CASE Delete(p)
    BY <1>2, <2>5 DEF Delete, storeVars, Kept
  <2>6. CASE Commit(p)
    <3>1. /\ Len(oplist) \in Nat /\ IsSeq(oplist)
          /\ snap' = [version |-> Len(oplist) + 1, doc |-> ApplyOp(snap.doc, acc[p].op)]
          /\ snap.doc # Nil /\ snap # Absent
          /\ oplist' = Append(oplist, Entry(p))
      BY <1>0, <2>2, <2>6, CommitFacts
    <3>2. Whole'
      BY <3>1, ConstantAssumption DEF Whole, ApplyYieldsContent
    <3>3. /\ DOMAIN oplist \subseteq DOMAIN oplist'
          /\ \A i \in DOMAIN oplist : oplist'[i] = oplist[i]
      BY <3>1, AppendFacts
    <3>4. UNCHANGED life
      BY <2>6 DEF Commit
    <3> QED
      BY <3>1, <3>2, <3>3, <3>4 DEF Kept, SameID
  <2> QED
    BY <2>1, <2>3, <2>4, <2>5, <2>6
<1> QED
  BY <1>1, <1>2

\* What an answer promises is so when it is given.
LEMMA KeptWhenAnswered ==
  ASSUME Inv, ~overrun', NEW q \in Procs, Answer(q),
         UNCHANGED req, Kind(q)' = Kind(q)
  PROVE  Kept(q)'
<1> USE DEF Inv
<1>1. ~overrun /\ q \notin expired /\ Holding(q)
  BY DEF Answer, CreateContent, Announce, Overruns, Holding, Critical
<1>2. CASE CreateContent(q)
  <2>1. Kind(q) = "create" /\ req[q].payload # Nil
    BY <1>2, LabelsByKind DEF CreateContent, TypeOK, ControlOK, Kinds
  <2>2. snap'.version = 0 /\ snap'.doc # Nil /\ 0 # Nil
    BY <1>1, <1>2, <2>1, ConstantAssumption DEF Views, View, HasCreated, CreateContent
  <2> QED
    BY <2>1, <2>2 DEF Kept, Whole
<1>3. CASE Announce(q)
  <2>1. /\ UNCHANGED <<snap, oplist>> /\ pc[q] = "publish"
        /\ ret'[q] = [status |-> "ok", version |-> Event(q).version, life |-> life]
    BY <1>3 DEF Announce, CreateContent, Answer
  <2>2. HasCommitted(q)
    BY <1>1 DEF Views, View
  <2>3. Kind(q) # "create"
    BY <2>1, LabelsByKind DEF TypeOK, ControlOK, Kinds
  <2>4. Kind(q) = "submit" => Event(q).version = rec[q].version + 1
    BY DEF Event
  <2> QED
    BY <2>1, <2>2, <2>3, <2>4 DEF Kept, HasCommitted, SameID
<1> QED
  BY <1>2, <1>3 DEF Answer

\* Answers are kept by every step.
LEMMA AllKeptNext ==
  ASSUME Inv, ApplyYieldsContent, AllKept, [Next]_vars PROVE AllKept'
<1>0. life \in Nat /\ life' \in Nat /\ life <= life'
  BY LifeStep DEF Inv, TypeOK, StoreOK
<1>1. ASSUME NEW q \in Procs PROVE AnsweredOf(q)'
  <2>1. AnsweredOf(q)
    BY DEF AllKept
  <2>2. \/ ret'[q] = ret[q] /\ Kind(q)' = Kind(q)
        \/ ret'[q].status # "ok"
        \/ Kind(q)' = "snapshot"
        \/ Answer(q)
    <3>1. TypeOK
      BY DEF Inv
    <3> QED
      BY <3>1, Answers
  <2>3. Answer(q) => ret'[q].life = life
    BY DEF Answer
  <2> QED
    BY <1>0, <2>1, <2>2, <2>3 DEF AnsweredOf, Kind
<1>2. ASSUME ~overrun', NEW q \in Procs PROVE Kept(q)'
  <2>1. AnsweredOf(q) /\ Kept(q)
    BY <1>2, OverrunStays DEF AllKept
  <2>2. CASE ret'[q] = ret[q] /\ Kind(q)' = Kind(q) /\ req'[q] = req[q]
    BY <1>2, <2>1, <2>2, KeptByWriters
  <2>3. CASE ret'[q].status # "ok" \/ Kind(q)' = "snapshot"
    BY <2>3 DEF Kept
  <2> QED
    BY <1>2, <2>2, <2>3, Answers, KeptWhenAnswered DEF Inv
<1> QED
  BY <1>1, <1>2 DEF AllKept

\* What was acknowledged is kept until the document is deleted, whichever nodes
\* crash afterwards: applying an operation must leave a document
\* (ApplyYieldsContent), as Value.Apply does.
THEOREM AcknowledgedCorrect ==
  ASSUME ApplyYieldsContent PROVE Spec => []AcknowledgedIsKept
<1>1. Init => AllKept
  BY DEF Init, AllKept, AnsweredOf, Kept
<1>2. Inv /\ AllKept /\ [Next]_vars => AllKept'
  BY AllKeptNext
<1>3. AllKept => AcknowledgedIsKept
  BY DEF AllKept, Kept, AcknowledgedIsKept
<1> QED
  BY <1>1, <1>2, <1>3, InvCorrect, PTL DEF Spec

-----------------------------------------------------------------------------
(***************************************************************************)
(* The document.  Replay is defined by recursion over the list, so what it *)
(* does with a record more is shown by the least number for which it would *)
(* not be so.                                                              *)
(***************************************************************************)

\* f holds the documents that the first n records of log make of doc.
Unrolls(f, doc, log, n) ==
  f = [i \in 0..n |-> IF i = 0 THEN doc ELSE ApplyOp(f[i - 1], log[i].op)]

\* The recursion of Replay has a solution, of any length.
LEMMA ReplayExists ==
  ASSUME NEW doc, NEW log, NEW n \in Nat PROVE \E f : Unrolls(f, doc, log, n)
<1> USE DEF Unrolls
<1> DEFINE T == { k \in Nat : ~ \E f : Unrolls(f, doc, log, k) }
<1> SUFFICES ASSUME T # {} PROVE FALSE
  OBVIOUS
<1>1. PICK k \in T : \A j \in T : k <= j
  <2>1. T \subseteq Nat
    OBVIOUS
  <2> HIDE DEF T
  <2> QED
    BY <2>1, LeastNat
<1>2. k # 0
  <2>1. Unrolls([i \in 0..0 |-> doc], doc, log, 0)
    OBVIOUS
  <2> QED
    BY <2>1
<1>3. PICK g : Unrolls(g, doc, log, k - 1)
  BY <1>1, <1>2
<1> DEFINE h == [i \in 0..k |-> IF i = k THEN ApplyOp(g[k - 1], log[k].op) ELSE g[i]]
<1>4. Unrolls(h, doc, log, k)
  <2>1. \A i \in 0..k : h[i] = IF i = 0 THEN doc ELSE ApplyOp(h[i - 1], log[i].op)
    BY <1>1, <1>2, <1>3
  <2> QED
    BY <2>1
<1> QED
  BY <1>1, <1>4

\* Two solutions agree on what they both cover.
LEMMA ReplayUnique ==
  ASSUME NEW doc, NEW log, NEW m \in Nat, NEW n \in Nat, m <= n, NEW f, NEW g,
         Unrolls(f, doc, log, m), Unrolls(g, doc, log, n)
  PROVE  f[m] = g[m]
<1> DEFINE T == { k \in 0..m : f[k] # g[k] }
<1> SUFFICES ASSUME T # {} PROVE FALSE
  <2>1. m \in 0..m
    OBVIOUS
  <2> QED
    BY <2>1
<1>1. PICK k \in T : \A j \in T : k <= j
  <2>1. T \subseteq Nat
    OBVIOUS
  <2> HIDE DEF T
  <2> QED
    BY <2>1, LeastNat
<1>2. k # 0
  BY <1>1 DEF Unrolls
<1>3. k - 1 \in 0..m /\ k - 1 < k
  BY <1>1, <1>2
<1>4. f[k - 1] = g[k - 1]
  <2>1. k - 1 \notin T
    BY <1>1, <1>3
  <2> QED
    BY <1>3, <2>1
<1> QED
  BY <1>1, <1>2, <1>4 DEF Unrolls

\* Replay follows its recursion.
LEMMA ReplayUnrolls ==
  ASSUME NEW doc, NEW log, Len(log) \in Nat
  PROVE  \E f : Unrolls(f, doc, log, Len(log)) /\ Replay(doc, log) = f[Len(log)]
<1> DEFINE F == CHOOSE f : f = [i \in 0..Len(log) |->
                                  IF i = 0 THEN doc ELSE ApplyOp(f[i - 1], log[i].op)]
<1>1. \E f : f = [i \in 0..Len(log) |->
                 IF i = 0 THEN doc ELSE ApplyOp(f[i - 1], log[i].op)]
  <2>1. PICK f : Unrolls(f, doc, log, Len(log))
    BY ReplayExists
  <2> QED
    BY <2>1 DEF Unrolls
<1>2. F = [i \in 0..Len(log) |-> IF i = 0 THEN doc ELSE ApplyOp(F[i - 1], log[i].op)]
  BY <1>1
<1>3. Replay(doc, log) = F[Len(log)]
  BY DEF Replay
<1> QED
  BY <1>2, <1>3 DEF Unrolls

\* A new document has its initial content.
LEMMA ReplayNothing == ASSUME NEW doc PROVE Replay(doc, <<>>) = doc
  BY ReplayUnrolls, EmptyIsSeq DEF Unrolls

\* A record more is an application more.
LEMMA ReplayAppend ==
  ASSUME NEW doc, NEW log, IsSeq(log), NEW e
  PROVE  Replay(doc, Append(log, e)) = ApplyOp(Replay(doc, log), e.op)
<1> DEFINE n == Len(log)
           more == Append(log, e)
<1>1. /\ n \in Nat /\ Len(more) = n + 1 /\ more[n + 1] = e
      /\ \A i \in 1..n : more[i] = log[i]
  BY IsSeqFacts, AppendFacts
<1> HIDE DEF more, n
<1>2. PICK f : Unrolls(f, doc, log, n) /\ Replay(doc, log) = f[n]
  BY <1>1, ReplayUnrolls DEF n
<1>3. PICK g : Unrolls(g, doc, more, n + 1) /\ Replay(doc, more) = g[n + 1]
  BY <1>1, ReplayUnrolls
<1>4. Unrolls(f, doc, more, n)
  BY <1>1, <1>2 DEF Unrolls
<1>5. f[n] = g[n]
  BY <1>1, <1>3, <1>4, ReplayUnique
<1>6. g[n + 1] = ApplyOp(g[n], e.op)
  BY <1>1, <1>3 DEF Unrolls
<1> QED
  BY <1>2, <1>3, <1>5, <1>6 DEF more

\* The document is what the list makes of its initial content; there is no list
\* without one.
IsReplay ==
  ~overrun =>
    /\ snap # Absent => snap.doc = Replay(initial, oplist)
    /\ oplist # <<>> => initial # Nil

\* A commit applies its operation to the document it appends it for.
LEMMA IsReplayNext == ASSUME Inv, IsReplay, [Next]_vars PROVE IsReplay'
<1> SUFFICES ASSUME ~overrun' PROVE IsReplay'
  BY DEF IsReplay
<1> USE DEF Inv
<1>0. ~overrun
  BY OverrunStays
<1>1. CASE UNCHANGED <<snap, oplist, initial, life>>
  BY <1>0, <1>1 DEF IsReplay
<1>2. CASE ~ UNCHANGED <<snap, oplist, initial, life>>
  <2>1. PICK p \in Procs : /\ Create(p) \/ CreateContent(p) \/ Delete(p) \/ Commit(p)
                           /\ overrun' = (overrun \/ p \in expired)
    BY <1>2, StoreStep
  <2>2. p \notin expired /\ Holding(p)
    BY <2>1, WriterHolds
  <2>3. CASE Create(p)
    <3>1. /\ snap.version = Nil /\ snap' = [version |-> 0, doc |-> snap.doc]
          /\ UNCHANGED oplist /\ initial' = Nil
      BY <1>2, <2>3 DEF Create, storeVars
    <3>2. oplist = <<>> /\ snap.doc = Nil
      BY <1>0, <3>1 DEF SerialVersions, NoHalfDeleted, Absent
    <3> QED
      BY <3>1, <3>2, ReplayNothing DEF IsReplay
  <2>4. CASE CreateContent(p)
    <3>1. snap.version = 0
      BY <1>0, <2>2, <2>4 DEF Views, View, HasCreated, CreateContent
    <3>2. oplist = <<>>
      <4>1. Len(oplist) = 0 /\ IsSeq(oplist)
        BY <1>0, <3>1, ConstantAssumption DEF SerialVersions, TypeOK, StoreOK
      <4> QED
        BY <4>1 DEF IsSeq
    <3>3. snap'.doc = initial' /\ UNCHANGED oplist
      BY <2>4 DEF CreateContent
    <3> QED
      BY <3>2, <3>3, ReplayNothing DEF IsReplay
  <2>5. CASE Delete(p)
    BY <1>2, <2>5 DEF Delete, storeVars, IsReplay
  <2>6. CASE Commit(p)
    <3>1. /\ IsSeq(oplist) /\ snap'.doc = ApplyOp(snap.doc, acc[p].op)
          /\ snap.doc # Nil /\ snap # Absent
          /\ oplist' = Append(oplist, Entry(p)) /\ UNCHANGED initial
      BY <1>0, <2>2, <2>6, CommitFacts DEF Commit
    <3>2. snap.doc = Replay(initial, oplist)
      BY <1>0, <3>1 DEF IsReplay
    <3>3. initial # Nil
      <4>1. CASE oplist = <<>>
        BY <3>1, <3>2, <4>1, ReplayNothing
      <4>2. CASE oplist # <<>>
        BY <1>0, <4>2 DEF IsReplay
      <4> QED
        BY <4>1, <4>2
    <3>4. Entry(p).op = acc[p].op
      BY DEF Entry
    <3> QED
      BY <3>1, <3>2, <3>3, <3>4, ReplayAppend DEF IsReplay
  <2> QED
    BY <2>1, <2>3, <2>4, <2>5, <2>6
<1> QED
  BY <1>1, <1>2

\* The stored document is its initial content with the listed operations
\* applied in their order, for every ApplyOp (CreateDoc, CommitOp).
THEOREM SnapshotIsReplayCorrect == Spec => []SnapshotIsReplay
<1>1. Init => IsReplay
  BY DEF Init, IsReplay
<1>2. Inv /\ IsReplay /\ [Next]_vars => IsReplay'
  BY IsReplayNext
<1>3. Inv /\ IsReplay => SnapshotIsReplay
  <2> SUFFICES ASSUME Inv, IsReplay, ~overrun, oplist # <<>>
               PROVE  initial # Nil /\ snap.doc = Replay(initial, oplist)
    BY DEF SnapshotIsReplay
  <2>1. snap # Absent
    BY DEF Inv, SerialVersions, Absent
  <2> QED
    BY <2>1 DEF IsReplay
<1> QED
  BY <1>1, <1>2, <1>3, InvCorrect, PTL DEF Spec

-----------------------------------------------------------------------------
(***************************************************************************)
(* Events.  What is on its way to a subscriber, in its channel and         *)
(* received is ordered, lies behind the state of the document, and comes   *)
(* before the event of a call that is about to publish under its lock.     *)
(***************************************************************************)

\* An event comes after those before it, in one queue and from one to the next.
Ordered(s) == \A i, j \in DOMAIN s : i < j => After(s[i], s[j])
Before(s, t) == \A e \in Elems(s), f \in Elems(t) : After(e, f)
StreamOK(n) ==
  /\ Ordered(got[n]) /\ Ordered(ch[n]) /\ Ordered(wire[n])
  /\ Before(got[n], ch[n]) /\ Before(got[n], wire[n]) /\ Before(ch[n], wire[n])
Seen(n) == Elems(got[n]) \cup Elems(ch[n]) \cup Elems(wire[n])

\* Events of what the document was or is; the next one comes after them all.
Behind(e) ==
  /\ e.life \in Nat /\ e.version \in Nat
  /\ \/ e.life < life
     \/ e.life = life /\ snap = Absent
     \/ e.life = life /\ e.type # "delete" /\ e.version <= snap.version
Publishing(p) == Holding(p) /\ pc[p] = "publish"
Known(e) == Behind(e) /\ \A p \in Procs : Publishing(p) => After(e, Event(p))
InOrder == ~overrun => \A n \in Watchers : StreamOK(n) /\ \A e \in Seen(n) : Known(e)

\* An event lies behind the document for ever.
LEMMA BehindNext ==
  ASSUME Inv, [Next]_vars, ~overrun', NEW e, Behind(e) PROVE Behind(e)'
<1> USE DEF Inv
<1>0. ~overrun /\ life \in Nat
  BY OverrunStays DEF TypeOK, StoreOK
<1>1. CASE UNCHANGED <<snap, oplist, initial, life>>
  BY <1>1 DEF Behind
<1>2. CASE ~ UNCHANGED <<snap, oplist, initial, life>>
  <2>1. PICK p \in Procs : /\ Create(p) \/ CreateContent(p) \/ Delete(p) \/ Commit(p)
                           /\ overrun' = (overrun \/ p \in expired)
    BY <1>2, StoreStep
  <2>2. p \notin expired /\ Holding(p)
    BY <2>1, WriterHolds
  <2>3. CASE Create(p)
    <3>1. life' = life + 1
      BY <1>2, <2>3 DEF Create, storeVars
    <3> QED
      BY <1>0, <3>1 DEF Behind
  <2>4. CASE CreateContent(p)
    <3>1. snap.version = 0 /\ 0 # Nil
      BY <1>0, <2>2, <2>4, ConstantAssumption DEF Views, View, HasCreated, CreateContent
    <3>2. snap'.version = snap.version /\ UNCHANGED life /\ snap # Absent
      BY <2>4, <3>1 DEF CreateContent, Absent
    <3> QED
      BY <3>2 DEF Behind
  <2>5. CASE Delete(p)
    BY <1>2, <2>5 DEF Delete, storeVars, Behind
  <2>6. CASE Commit(p)
    <3>1. /\ snap # Absent /\ snap'.version = snap.version + 1 /\ snap.version \in Nat
          /\ UNCHANGED life
      BY <1>0, <2>2, <2>6, CommitFacts DEF Commit
    <3> QED
      BY <3>1 DEF Behind
  <2> QED
    BY <2>1, <2>3, <2>4, <2>5, <2>6
<1> QED
  BY <1>1, <1>2

\* Who is about to publish was so before or has just written; in between nobody
\* else has.
LEMMA PublishingNext ==
  ASSUME Inv, [Next]_vars, ~overrun', NEW q \in Procs, Publishing(q)'
  PROVE  \/ Publishing(q) /\ Event(q)' = Event(q)
         \/ Delete(q) /\ snap # Absent /\ Holding(q) /\ Event(q)' = Event(q)
         \/ Commit(q) /\ snap # Absent /\ Holding(q) /\ Event(q)' = Event(q)
<1> USE DEF Inv
<1>0. ~overrun
  BY OverrunStays
<1>1. CASE UNCHANGED <<pc, req, rec, life, expired>>
  BY <1>1 DEF Publishing, Holding, Critical, Event, Kind
<1>2. ASSUME NEW p \in Procs, Call(p) \/ CommandFails(p) \/ Step(p), p # q,
             UNCHANGED life
      PROVE  Publishing(q) /\ Event(q)' = Event(q)
  <2>1. pc'[q] = pc[q] /\ req'[q] = req[q] /\ rec'[q] = rec[q]
    BY <1>2 DEF Step, Call, CommandFails, Lock, GiveUp, Unlock, GetSnapshot, ReadForDelete,
       ReadForSubmit, Dedup, Since, Announce, Create, CreateContent, Delete, Commit, Faulty,
       Fail, Return, Goto, localVars, TypeOK, ControlOK, LocalsOK
  <2>2. q \in expired' \/ q \notin expired
    BY <1>2 DEF Step, Call, CommandFails, Lock, GiveUp, Unlock, GetSnapshot, ReadForDelete,
       ReadForSubmit, Dedup, Since, Announce, Create, CreateContent, Delete, Commit, lockVars
  <2> QED
    BY <1>2, <2>1, <2>2 DEF Publishing, Holding, Critical, Event, Kind
<1>3. ASSUME NEW p \in Procs, Create(p), ~UNCHANGED life PROVE FALSE
  <2>1. p \notin expired /\ Holding(p) /\ UNCHANGED lockVars /\ pc[p] = "create"
    BY <1>3, WriterHolds DEF Create, Overruns, storeVars
  <2>2. \E l \in {"content", "unlock"} : pc' = [pc EXCEPT ![p] = l]
    BY <1>3 DEF Create, Goto, Faulty, Fail, Return
  <2>3. q # p /\ Holding(q)
    BY <2>1, <2>2 DEF Publishing, Holding, Critical, lockVars, TypeOK, ControlOK
  <2> QED
    BY <2>1, <2>3 DEF HoldsLock
<1>4. ASSUME Call(q) \/ CommandFails(q) \/ Step(q), UNCHANGED life
      PROVE  /\ Delete(q) \/ Commit(q)
             /\ snap # Absent /\ Holding(q) /\ Event(q)' = Event(q)
  <2>1. pc'[q] = "publish"
    BY DEF Publishing
  <2>2. Delete(q) \/ Commit(q)
    BY <1>4, <2>1 DEF Step, Call, CommandFails, Lock, GiveUp, Unlock, GetSnapshot,
       ReadForDelete, ReadForSubmit, Dedup, Since, Announce, Create, CreateContent, Faulty,
       Fail, Return, Goto, TypeOK, ControlOK
  <2>3. snap # Absent
    BY <2>1, <2>2 DEF Delete, Commit, Fail, Return, TypeOK, ControlOK
  <2>4. Holding(q) /\ UNCHANGED <<req, rec>>
    BY <2>2 DEF Publishing, Holding, Critical, Delete, Commit, lockVars, localVars
  <2> QED
    BY <1>4, <2>2, <2>3, <2>4 DEF Event, Kind
<1>5. ASSUME NEW n \in Nodes, Crash(n) PROVE Publishing(q) /\ Event(q)' = Event(q)
  BY <1>5 DEF Crash, storeVars, Publishing, Holding, Critical, Event, Kind, TypeOK, LocalsOK
<1>6. CASE Expire
  BY <1>6 DEF Expire, storeVars, localVars, Publishing, Holding, Critical, Event, Kind
<1>7. ASSUME NEW n \in Watchers, Subscribe(n) \/ Cancel(n) \/ Listen(n) \/ Receive(n)
      PROVE  UNCHANGED <<pc, req, rec, life, expired>>
  BY <1>7 DEF Subscribe, Cancel, Listen, Receive, storeVars, localVars, lockVars
<1>8. ASSUME Terminated \/ UNCHANGED vars PROVE UNCHANGED <<pc, req, rec, life, expired>>
  BY <1>8 DEF Terminated, vars
<1>9. UNCHANGED life \/ \E p \in Procs : Create(p)
  BY LifeStep
<1> QED
  BY <1>1, <1>2, <1>3, <1>4, <1>5, <1>6, <1>7, <1>8, <1>9 DEF Next

\* So an event that was known stays so.
LEMMA KnownNext ==
  ASSUME Inv, [Next]_vars, ~overrun', NEW e, Known(e) PROVE Known(e)'
<1> USE DEF Inv
<1>0. ~overrun /\ Behind(e)
  BY OverrunStays DEF Known
<1>1. Behind(e)'
  BY <1>0, BehindNext
<1>2. ASSUME NEW q \in Procs, Publishing(q)' PROVE After(e, Event(q))'
  <2>1. CASE Publishing(q) /\ Event(q)' = Event(q)
    BY <2>1 DEF Known, After
  <2>2. CASE Delete(q) /\ snap # Absent /\ Holding(q) /\ Event(q)' = Event(q)
    <3>1. Kind(q) = "delete" /\ pc[q] = "delete"
      BY <2>2, LabelsByKind DEF Delete, TypeOK, ControlOK, Kinds
    <3>2. rec[q] = snap
      BY <1>0, <2>2, <3>1 DEF Views, View, CopyIsCurrent
    <3>3. Event(q) = [type |-> "delete", life |-> life, version |-> snap.version]
      BY <3>1, <3>2 DEF Event
    <3>4. snap.version \in Nat /\ life \in Nat
      BY <3>2 DEF TypeOK, LocalsOK, StoreOK
    <3> QED
      BY <1>0, <2>2, <3>3, <3>4 DEF Behind, After
  <2>3. CASE Commit(q) /\ snap # Absent /\ Holding(q) /\ Event(q)' = Event(q)
    <3>1. Kind(q) = "submit" /\ pc[q] = "commit"
      BY <2>3, LabelsByKind DEF Commit, TypeOK, ControlOK, Kinds
    <3>2. rec[q] = snap
      BY <1>0, <2>3, <3>1 DEF Views, View, CopyIsCurrent
    <3>3. Event(q).life = life /\ Event(q).version = snap.version + 1
      BY <3>1, <3>2 DEF Event
    <3>4. snap.version \in Nat /\ life \in Nat
      BY <3>2 DEF TypeOK, LocalsOK, StoreOK
    <3> QED
      BY <1>0, <2>3, <3>3, <3>4 DEF Behind, After
  <2> QED
    BY <1>2, <2>1, <2>2, <2>3, PublishingNext
<1> QED
  BY <1>1, <1>2 DEF Known

\* The event that is published is known from then on.
LEMMA PublishedKnown ==
  ASSUME Inv, InOrder, NEW p \in Procs, Announce(p), ~overrun'
  PROVE  /\ ~overrun
         /\ \A n \in Watchers : \A e \in Seen(n) : After(e, Event(p))
         /\ Known(Event(p))'
<1> USE DEF Inv
<1>1. ~overrun /\ Publishing(p) /\ Holding(p) /\ pc[p] = "publish"
  BY DEF Announce, Overruns, Publishing, Holding, Critical
<1>2. \A n \in Watchers : \A e \in Seen(n) : After(e, Event(p))
  BY <1>1 DEF InOrder, Known
<1>3. UNCHANGED <<snap, life, req, rec, expired>> /\ Event(p)' = Event(p)
  BY DEF Announce, localVars, lockVars, Event, Kind
<1>4. Behind(Event(p))
  <2>1. HasCommitted(p) /\ HasDeleted(p)
    BY <1>1 DEF Views, View
  <2>2. Kind(p) \in {"submit", "delete"}
    BY <1>1, LabelsByKind DEF TypeOK, ControlOK, Kinds
  <2>3. life \in Nat /\ rec[p].version \in Nat
    BY DEF TypeOK, StoreOK, LocalsOK
  <2> QED
    BY <1>1, <2>1, <2>2, <2>3 DEF HasCommitted, HasDeleted, Event, Behind
<1>5. ASSUME NEW q \in Procs, Publishing(q)' PROVE FALSE
  <2>1. pc'[p] = "unlock" /\ (q # p => pc'[q] = pc[q])
    BY <1>1 DEF Announce, Return, TypeOK, ControlOK
  <2>2. q # p /\ Holding(q)
    BY <1>3, <1>5, <2>1 DEF Publishing, Holding, Critical
  <2> QED
    BY <1>1, <2>2 DEF HoldsLock
<1> QED
  BY <1>1, <1>2, <1>3, <1>4, <1>5 DEF Known, Behind

\* The first of an ordered sequence comes before the rest, and the rest is ordered.
LEMMA OrderedTail ==
  ASSUME NEW s, IsSeq(s), s # <<>>, Ordered(s)
  PROVE  Ordered(Tail(s)) /\ \A e \in Elems(Tail(s)) : After(Head(s), e)
<1>1. Head(s) = s[1] /\ 1 \in DOMAIN s
  <2>1. PICK R : s \in Seq(R)
    BY DEF IsSeq
  <2> QED
    BY <2>1
<1>2. /\ \A i \in DOMAIN Tail(s) : i + 1 \in DOMAIN s /\ Tail(s)[i] = s[i + 1]
      /\ DOMAIN s \subseteq Int /\ DOMAIN Tail(s) \subseteq Nat \ {0}
  BY TailFacts, IsSeqFacts
<1>3. Ordered(Tail(s))
  BY <1>2 DEF Ordered
<1>4. \A i \in DOMAIN Tail(s) : After(s[1], s[i + 1])
  BY <1>1, <1>2 DEF Ordered
<1> QED
  BY <1>1, <1>2, <1>3, <1>4 DEF Elems

\* An ordered sequence stays so with an element behind all of its own.
LEMMA OrderedAppend ==
  ASSUME NEW s, IsSeq(s), Ordered(s), NEW f, \A e \in Elems(s) : After(e, f)
  PROVE  Ordered(Append(s, f))
<1>1. \A i \in DOMAIN s : After(s[i], f)
  BY DEF Elems
<1> QED
  BY <1>1, AppendFacts, IsSeqFacts DEF Ordered

\* The queues of a subscriber through every step: what it loses keeps the order
\* of the rest, and what it gets comes last.
LEMMA InOrderNext == ASSUME Inv, InOrder, [Next]_vars PROVE InOrder'
<1> SUFFICES ASSUME ~overrun', NEW n \in Watchers
             PROVE  (StreamOK(n) /\ \A e \in Seen(n) : Known(e))'
  BY DEF InOrder
<1>0. /\ ~overrun /\ StreamOK(n) /\ \A e \in Seen(n) : Known(e)
      /\ IsSeq(got[n]) /\ IsSeq(ch[n]) /\ IsSeq(wire[n])
  BY OverrunStays DEF InOrder, Inv, TypeOK, WatchersOK
<1>1. \A e : Known(e) => Known(e)'
  BY KnownNext
<1>2. CASE got'[n] = got[n] /\ ch'[n] = ch[n] /\ wire'[n] = wire[n]
  <2>1. StreamOK(n)' /\ Seen(n)' = Seen(n)
    BY <1>0, <1>2 DEF StreamOK, Ordered, Before, Seen, After
  <2> QED
    BY <1>0, <1>1, <2>1
<1>3. ASSUME NEW p \in Procs, Announce(p)
      PROVE  (StreamOK(n) /\ \A e \in Seen(n) : Known(e))'
  <2>0. PICK f : f = Event(p)
    OBVIOUS
  <2>1. (\A e \in Seen(n) : After(e, f)) /\ Known(f)'
    <3>1. UNCHANGED <<life, req, rec>>
      BY <1>3 DEF Announce, localVars
    <3>2. Event(p)' = Event(p)
      BY <3>1 DEF Event, Kind
    <3> QED
      BY <1>3, <2>0, <3>2, PublishedKnown DEF Known, Behind, After
  <2>2. /\ UNCHANGED <<got, ch>>
        /\ wire'[n] = wire[n] \/ wire'[n] = Append(wire[n], f)
    BY <1>3, <2>0 DEF Announce, Publish
  <2>3. CASE wire'[n] = Append(wire[n], f)
    <3>1. Elems(wire'[n]) = Elems(wire[n]) \cup {f}
      BY <1>0, <2>3, ElemsAppend
    <3>2. Seen(n)' = Seen(n) \cup {f}
      BY <2>2, <3>1 DEF Seen
    <3>3. Ordered(wire'[n])
      BY <1>0, <2>1, <2>3, OrderedAppend DEF StreamOK, Seen
    <3>4. Before(got[n], wire'[n]) /\ Before(ch[n], wire'[n])
      BY <1>0, <2>1, <3>1 DEF StreamOK, Before, Seen
    <3>5. StreamOK(n)'
      BY <1>0, <2>2, <3>3, <3>4 DEF StreamOK, Ordered, Before, After
    <3>6. ASSUME NEW e \in Seen(n)' PROVE Known(e)'
      BY <1>0, <1>1, <2>1, <3>2, <3>6
    <3> QED
      BY <3>5, <3>6
  <2> QED
    BY <1>2, <2>2, <2>3
<1>4. CASE Listen(n)
  <2> DEFINE h == Head(wire[n])
  <2>1. /\ wire[n] # <<>> /\ wire'[n] = Tail(wire[n]) /\ UNCHANGED got
        /\ ch'[n] = ch[n] \/ ch'[n] = Append(ch[n], h)
    BY <1>4 DEF Listen, Inv, TypeOK, WatchersOK
  <2>2. Elems(wire'[n]) \subseteq Elems(wire[n]) /\ h \in Elems(wire[n])
    BY <1>0, <2>1, ElemsTail
  <2>3. Ordered(wire'[n]) /\ \A e \in Elems(wire'[n]) : After(h, e)
    BY <1>0, <2>1, OrderedTail DEF StreamOK
  <2> HIDE DEF h
  <2>4. Elems(ch'[n]) = Elems(ch[n]) \/ Elems(ch'[n]) = Elems(ch[n]) \cup {h}
    BY <1>0, <2>1, ElemsAppend
  <2>5. Ordered(ch'[n])
    <3>1. \A e \in Elems(ch[n]) : After(e, h)
      BY <1>0, <2>2 DEF StreamOK, Before
    <3>2. CASE ch'[n] = Append(ch[n], h)
      BY <1>0, <3>1, <3>2, OrderedAppend DEF StreamOK
    <3>3. CASE ch'[n] = ch[n]
      BY <1>0, <3>3 DEF StreamOK, Ordered
    <3> QED
      BY <2>1, <3>2, <3>3
  <2>6. Before(got[n], ch'[n]) /\ Before(got[n], wire'[n]) /\ Before(ch'[n], wire'[n])
    BY <1>0, <2>2, <2>3, <2>4 DEF StreamOK, Before
  <2>7. Seen(n)' \subseteq Seen(n)
    BY <2>1, <2>2, <2>4 DEF Seen
  <2> QED
    BY <1>0, <1>1, <2>1, <2>3, <2>5, <2>6, <2>7 DEF StreamOK, Ordered, Before, After
<1>5. CASE Receive(n)
  <2> DEFINE h == Head(ch[n])
  <2>1. /\ ch[n] # <<>> /\ ch'[n] = Tail(ch[n]) /\ UNCHANGED wire /\ got'[n] = <<h>>
    BY <1>5 DEF Receive, Inv, TypeOK, WatchersOK
  <2>2. Elems(ch'[n]) \subseteq Elems(ch[n]) /\ h \in Elems(ch[n])
    BY <1>0, <2>1, ElemsTail
  <2>3. Ordered(ch'[n]) /\ \A e \in Elems(ch'[n]) : After(h, e)
    BY <1>0, <2>1, OrderedTail DEF StreamOK
  <2> HIDE DEF h
  <2>4. Elems(got'[n]) = {h} /\ Ordered(got'[n])
    BY <2>1, ElemsOfShort DEF Ordered
  <2>5. Before(got'[n], ch'[n]) /\ Before(got'[n], wire[n]) /\ Before(ch'[n], wire[n])
    BY <1>0, <2>2, <2>3, <2>4 DEF StreamOK, Before
  <2>6. Seen(n)' \subseteq Seen(n)
    BY <2>1, <2>2, <2>4 DEF Seen
  <2> QED
    BY <1>0, <1>1, <2>1, <2>3, <2>4, <2>5, <2>6 DEF StreamOK, Ordered, Before, After
<1>6. ASSUME got'[n] = <<>>, ch'[n] = <<>>, wire'[n] = wire[n] \/ wire'[n] = <<>>
      PROVE  (StreamOK(n) /\ \A e \in Seen(n) : Known(e))'
  <2>1. Elems(<<>>) = {} /\ DOMAIN <<>> = {}
    BY EmptyIsSeq DEF Elems
  <2>2. StreamOK(n)'
    BY <1>0, <1>6, <2>1 DEF StreamOK, Ordered, Before, After
  <2>3. Seen(n)' \subseteq Seen(n)
    BY <1>6, <2>1 DEF Seen
  <2> QED
    BY <1>0, <1>1, <2>2, <2>3
<1>7. CASE Subscribe(n)
  BY <1>6, <1>7 DEF Subscribe, Inv, TypeOK, WatchersOK
<1>8. ASSUME NEW m \in Nodes, Crash(m)
      PROVE  (StreamOK(n) /\ \A e \in Seen(n) : Known(e))'
  BY <1>2, <1>6, <1>8 DEF Crash
<1>9. ASSUME NEW m \in Watchers, m # n, Subscribe(m) \/ Listen(m) \/ Receive(m)
      PROVE  got'[n] = got[n] /\ ch'[n] = ch[n] /\ wire'[n] = wire[n]
  BY <1>9 DEF Subscribe, Listen, Receive, Inv, TypeOK, WatchersOK
<1>10. ASSUME NEW m \in Watchers, Cancel(m)
       PROVE  got'[n] = got[n] /\ ch'[n] = ch[n] /\ wire'[n] = wire[n]
  BY <1>10 DEF Cancel
<1>11. ASSUME NEW p \in Procs, Call(p) \/ CommandFails(p) \/ Step(p), ~Announce(p)
       PROVE  UNCHANGED pubVars
  BY <1>11 DEF Step, Call, CommandFails, Lock, GiveUp, Unlock, GetSnapshot, ReadForDelete,
     ReadForSubmit, Dedup, Since, Create, CreateContent, Delete, Commit
<1>12. ASSUME Expire \/ Terminated \/ UNCHANGED vars PROVE UNCHANGED pubVars
  BY <1>12 DEF Expire, Terminated, vars, pubVars
<1>13. UNCHANGED pubVars => got'[n] = got[n] /\ ch'[n] = ch[n] /\ wire'[n] = wire[n]
  BY DEF pubVars
<1> QED
  BY <1>2, <1>3, <1>4, <1>5, <1>7, <1>8, <1>9, <1>10, <1>11, <1>12, <1>13 DEF Next

\* Ordered parts that come one before the other make an ordered whole.
LEMMA OrderedConcat ==
  ASSUME NEW s, NEW t, IsSeq(s), IsSeq(t), Ordered(s), Ordered(t), Before(s, t)
  PROVE  IsSeq(s \o t) /\ Ordered(s \o t) /\ Elems(s \o t) \subseteq Elems(s) \cup Elems(t)
<1>1. /\ IsSeq(s \o t)
      /\ \A i \in DOMAIN s : (s \o t)[i] = s[i]
      /\ \A i \in DOMAIN (s \o t) :
           i \notin DOMAIN s => i - Len(s) \in DOMAIN t /\ (s \o t)[i] = t[i - Len(s)]
  BY ConcatFacts
<1>2. DOMAIN s = 1..Len(s) /\ Len(s) \in Nat /\ DOMAIN (s \o t) \subseteq Nat \ {0}
      /\ DOMAIN t \subseteq Nat
  BY <1>1, IsSeqFacts
<1> DEFINE whole == s \o t
<1> HIDE DEF whole
<1>3. \A e \in Elems(whole) : e \in Elems(s) \/ e \in Elems(t)
  BY <1>1, <1>2 DEF Elems, whole
<1>4. ASSUME NEW i \in DOMAIN whole, NEW j \in DOMAIN whole, i < j
      PROVE  After(whole[i], whole[j])
  <2>1. CASE i \in DOMAIN s /\ j \in DOMAIN s
    BY <1>1, <1>4, <2>1 DEF Ordered, whole
  <2>2. CASE i \in DOMAIN s /\ j \notin DOMAIN s
    BY <1>1, <1>4, <2>2 DEF Before, Elems, whole
  <2>3. CASE i \notin DOMAIN s /\ j \notin DOMAIN s
    <3>1. /\ i - Len(s) \in DOMAIN t /\ whole[i] = t[i - Len(s)]
          /\ j - Len(s) \in DOMAIN t /\ whole[j] = t[j - Len(s)]
      BY <1>1, <2>3 DEF whole
    <3>2. i - Len(s) < j - Len(s)
      BY <1>2, <1>4 DEF whole
    <3> QED
      BY <3>1, <3>2 DEF Ordered
  <2> QED
    BY <1>2, <1>4, <2>1, <2>2, <2>3 DEF whole
<1> QED
  BY <1>1, <1>3, <1>4 DEF Ordered, whole

\* Every subscriber on every node gets the events of one document in the order
\* of their commits, over deletions and new creations, whatever is lost on the
\* way (Publish in Submit and DeleteDocument, the listener of RedisPublisher).
THEOREM StreamInOrderCorrect == Spec => []StreamInOrder
<1>1. Init => InOrder
  BY EmptyIsSeq DEF Init, InOrder, StreamOK, Ordered, Before, Seen, Elems
<1>2. Inv /\ InOrder /\ [Next]_vars => InOrder'
  BY InOrderNext
<1>3. Inv /\ InOrder => StreamInOrder
  <2> SUFFICES ASSUME Inv, InOrder, ~overrun, NEW n \in Watchers
               PROVE  Ordered(got[n] \o ch[n] \o wire[n])
                      /\ IsSeq(got[n] \o ch[n] \o wire[n])
    <3>1. ASSUME NEW s, Ordered(s), IsSeq(s)
          PROVE  \A i \in 1..(Len(s) - 1) : After(s[i], s[i + 1])
      BY <3>1, IsSeqFacts DEF Ordered
    <3> QED
      BY <3>1 DEF StreamInOrder
  <2>1. IsSeq(got[n]) /\ IsSeq(ch[n]) /\ IsSeq(wire[n]) /\ StreamOK(n)
    BY DEF Inv, TypeOK, WatchersOK, InOrder
  <2>2. /\ IsSeq(got[n] \o ch[n]) /\ Ordered(got[n] \o ch[n])
        /\ Elems(got[n] \o ch[n]) \subseteq Elems(got[n]) \cup Elems(ch[n])
    BY <2>1, OrderedConcat DEF StreamOK
  <2>3. Before(got[n] \o ch[n], wire[n])
    BY <2>1, <2>2 DEF StreamOK, Before
  <2> QED
    BY <2>1, <2>2, <2>3, OrderedConcat DEF StreamOK
<1> QED
  BY <1>1, <1>2, <1>3, InvCorrect, PTL DEF Spec
-----------------------------------------------------------------------------
(***************************************************************************)
(* Rebasing.  RebaseOver and VersionedDoc's operator of that name are      *)
(* defined by recursion, the one over a sequence of operations, the other  *)
(* over the versions of a log; that they agree is shown, as for Replay, by *)
(* the least number for which they would not.                              *)
(***************************************************************************)

\* f holds what op becomes over the first n operations of over.
Rebases(f, op, over, n) ==
  f = [i \in 0..n |-> IF i = 0 THEN op ELSE TransformOp(f[i - 1], over[i])]

\* The recursion of RebaseOver has a solution, of any length.
LEMMA RebaseExists ==
  ASSUME NEW op, NEW over, NEW n \in Nat PROVE \E f : Rebases(f, op, over, n)
<1> USE DEF Rebases
<1> DEFINE T == { k \in Nat : ~ \E f : Rebases(f, op, over, k) }
<1> SUFFICES ASSUME T # {} PROVE FALSE
  OBVIOUS
<1>1. PICK k \in T : \A j \in T : k <= j
  <2>1. T \subseteq Nat
    OBVIOUS
  <2> HIDE DEF T
  <2> QED
    BY <2>1, LeastNat
<1>2. k # 0
  <2>1. Rebases([i \in 0..0 |-> op], op, over, 0)
    OBVIOUS
  <2> QED
    BY <2>1
<1>3. PICK g : Rebases(g, op, over, k - 1)
  BY <1>1, <1>2
<1> DEFINE h == [i \in 0..k |-> IF i = k THEN TransformOp(g[k - 1], over[k]) ELSE g[i]]
<1>4. Rebases(h, op, over, k)
  <2>1. \A i \in 0..k : h[i] = IF i = 0 THEN op ELSE TransformOp(h[i - 1], over[i])
    BY <1>1, <1>2, <1>3
  <2> QED
    BY <2>1
<1> QED
  BY <1>1, <1>4

\* RebaseOver follows its recursion.
LEMMA RebaseUnrolls ==
  ASSUME NEW op, NEW over, Len(over) \in Nat
  PROVE  \E f : Rebases(f, op, over, Len(over)) /\ RebaseOver(op, over) = f[Len(over)]
<1> DEFINE F == CHOOSE f : f = [i \in 0..Len(over) |->
                                  IF i = 0 THEN op ELSE TransformOp(f[i - 1], over[i])]
<1>1. \E f : f = [i \in 0..Len(over) |->
                    IF i = 0 THEN op ELSE TransformOp(f[i - 1], over[i])]
  <2>1. PICK f : Rebases(f, op, over, Len(over))
    BY RebaseExists
  <2> QED
    BY <2>1 DEF Rebases
<1>2. F = [i \in 0..Len(over) |-> IF i = 0 THEN op ELSE TransformOp(F[i - 1], over[i])]
  BY <1>1
<1>3. RebaseOver(op, over) = F[Len(over)]
  BY DEF RebaseOver
<1> QED
  BY <1>2, <1>3 DEF Rebases

\* Transforming an operation gives one, which may be NoOp; Nil stands for none.
TransformYieldsOp == \A op, over : op # Nil => TransformOp(op, over) # Nil

\* So every operation on the way is one.
LEMMA RebasesOps ==
  ASSUME TransformYieldsOp, NEW op, op # Nil, NEW over, NEW n \in Nat, NEW f,
         Rebases(f, op, over, n)
  PROVE  \A i \in 0..n : f[i] # Nil
<1> DEFINE T == { k \in 0..n : f[k] = Nil }
<1> SUFFICES ASSUME T # {} PROVE FALSE
  OBVIOUS
<1>1. PICK k \in T : \A j \in T : k <= j
  <2>1. T \subseteq Nat
    OBVIOUS
  <2> HIDE DEF T
  <2> QED
    BY <2>1, LeastNat
<1>2. k # 0
  BY <1>1 DEF Rebases
<1>3. k - 1 \in 0..n /\ k - 1 \notin T
  BY <1>1, <1>2
<1>4. f[k] = TransformOp(f[k - 1], over[k])
  BY <1>1, <1>2 DEF Rebases
<1> QED
  BY <1>1, <1>3, <1>4 DEF TransformYieldsOp

\* The operations l holds after version base.
OpsAfter(l, base) == [i \in 1..(Len(l) - base) |-> l[base + i].op]

\* VersionedDoc rebases over the same operations as RebaseOver.
LEMMA RebaseAgrees ==
  ASSUME TransformYieldsOp, NEW op, op # Nil, NEW l, IsSeq(l), NEW base \in 0..Len(l)
  PROVE  History!RebaseOver(op, l, base) = RebaseOver(op, OpsAfter(l, base))
<1>1. PICK n \in Nat : n = Len(l)
  BY IsSeqFacts
<1>2. base \in Nat /\ base <= n /\ n - base \in Nat
  BY <1>1
<1>3. PICK over : over = OpsAfter(l, base)
  OBVIOUS
<1>4. /\ Len(over) = n - base
      /\ \A i \in 1..(n - base) : over[i] = l[base + i].op
  BY <1>1, <1>2, <1>3 DEF OpsAfter
<1>5. PICK f : Rebases(f, op, over, n - base) /\ RebaseOver(op, over) = f[n - base]
  BY <1>2, <1>4, RebaseUnrolls
<1>6. \A i \in 0..(n - base) : f[i] # Nil
  BY <1>2, <1>5, RebasesOps
<1> DEFINE IsOver(g) == g = [v \in base..Len(l) |->
                               IF v = base THEN op
                               ELSE IF g[v - 1] = Nil THEN Nil
                               ELSE TransformOp(g[v - 1], l[v].op)]
           G == CHOOSE g : IsOver(g)
           h == [v \in base..n |-> f[v - base]]
<1>7. IsOver(h)
  <2>1. \A v \in base..n : h[v] = IF v = base THEN op
                                  ELSE IF h[v - 1] = Nil THEN Nil
                                  ELSE TransformOp(h[v - 1], l[v].op)
    <3> SUFFICES ASSUME NEW v \in base..n
                 PROVE  h[v] = IF v = base THEN op
                               ELSE IF h[v - 1] = Nil THEN Nil
                               ELSE TransformOp(h[v - 1], l[v].op)
      OBVIOUS
    <3>1. CASE v = base
      BY <1>2, <1>5, <3>1 DEF Rebases
    <3>2. CASE v # base
      <4>1. /\ v - 1 \in base..n /\ (v - 1) - base = (v - base) - 1
            /\ v - base \in 1..(n - base) /\ base + (v - base) = v
        BY <1>2, <3>2
      <4>2. h[v] = f[v - base] /\ h[v - 1] = f[(v - base) - 1]
        BY <4>1
      <4>3. f[v - base] = TransformOp(f[(v - base) - 1], over[v - base])
        BY <1>2, <1>5, <4>1 DEF Rebases
      <4>4. over[v - base] = l[v].op
        BY <1>4, <4>1
      <4>5. f[(v - base) - 1] # Nil
        BY <1>2, <1>6, <4>1
      <4> QED
        BY <3>2, <4>2, <4>3, <4>4, <4>5
    <3> QED
      BY <3>1, <3>2
  <2> QED
    BY <1>1, <2>1
<1>8. IsOver(G)
  <2> HIDE DEF h, IsOver
  <2> QED
    BY <1>7
<1>9. History!RebaseOver(op, l, base) = G[n]
  BY <1>1 DEF History!RebaseOver
<1> HIDE DEF G
<1>10. \A k \in 0..(n - base) : G[base + k] = f[k]
  <2> DEFINE T == { k \in 0..(n - base) : G[base + k] # f[k] }
  <2> SUFFICES ASSUME T # {} PROVE FALSE
    OBVIOUS
  <2>1. PICK k \in T : \A j \in T : k <= j
    <3>1. T \subseteq Nat
      OBVIOUS
    <3> HIDE DEF T
    <3> QED
      BY <3>1, LeastNat
  <2>2. k # 0
    BY <1>1, <1>2, <1>5, <1>8, <2>1 DEF Rebases
  <2>3. /\ k - 1 \in 0..(n - base) /\ k - 1 \notin T /\ k \in 1..(n - base)
        /\ base + (k - 1) = (base + k) - 1 /\ base + k \in base..n /\ base + k # base
    BY <1>2, <2>1, <2>2
  <2>4. G[(base + k) - 1] = f[k - 1] /\ f[k - 1] # Nil
    BY <1>6, <2>3
  <2>5. G[base + k] = TransformOp(f[k - 1], l[base + k].op)
    BY <1>1, <1>8, <2>3, <2>4
  <2>6. f[k] = TransformOp(f[k - 1], over[k])
    BY <1>5, <2>3 DEF Rebases
  <2>7. over[k] = l[base + k].op
    BY <1>4, <2>3
  <2> QED
    BY <2>1, <2>5, <2>6, <2>7
<1>11. G[n] = f[n - base]
  <2>1. n - base \in 0..(n - base) /\ base + (n - base) = n
    BY <1>2
  <2> QED
    BY <1>10, <2>1
<1> QED
  BY <1>3, <1>5, <1>9, <1>11
-----------------------------------------------------------------------------
(* What a call has checked on its way to its write. *)

Prepared(p) ==
  /\ pc[p] # "idle" => req[p] \in Requests
  /\ pc[p] = "commit" => acc[p].op # NoOp
  /\ pc[p] = "delete" => req[p].base = rec[p].version

\* The checks of its own steps.
LEMMA PreparedOwn ==
  ASSUME TypeOK, NEW p \in Procs, Prepared(p), Call(p) \/ CommandFails(p) \/ Step(p)
  PROVE  Prepared(p)'
<1> USE DEF TypeOK, ControlOK, LocalsOK, Prepared, Faulty, Fail, Return, Goto, localVars
<1>1. CASE Call(p)
  BY <1>1 DEF Call
<1>2. CASE CommandFails(p) \/ Lock(p) \/ GiveUp(p) \/ Unlock(p) \/ GetSnapshot(p)
  BY <1>2 DEF CommandFails, Lock, GiveUp, Unlock, GetSnapshot
<1>3. CASE Create(p) \/ CreateContent(p) \/ Delete(p) \/ Commit(p) \/ Announce(p) \/ Dedup(p)
  BY <1>3 DEF Create, CreateContent, Delete, Commit, Announce, Dedup
<1>4. CASE ReadForDelete(p) \/ ReadForSubmit(p)
  BY <1>4 DEF ReadForDelete, ReadForSubmit
<1>5. CASE Since(p)
  <2>1. PICK op : \/ Goto(p, "unlock") \/ Fail(p, "empty") \/ Fail(p, "unparsable")
                  \/ /\ op # NoOp /\ acc' = [acc EXCEPT ![p] = [op |-> op, doc |-> ApplyOp(rec[p].doc, op)]]
                     /\ Goto(p, "commit")
    BY <1>5 DEF Since
  <2> QED
    BY <1>5, <2>1 DEF Since
<1> QED
  BY <1>1, <1>2, <1>3, <1>4, <1>5 DEF Step

\* Nobody else touches them.
LEMMA PreparedNext ==
  ASSUME TypeOK, [Next]_vars, NEW q \in Procs, Prepared(q) PROVE Prepared(q)'
<1>1. ASSUME NEW p \in Procs, p # q, Call(p) \/ CommandFails(p) \/ Step(p) PROVE Prepared(q)'
  <2>1. pc'[q] = pc[q] /\ req'[q] = req[q] /\ rec'[q] = rec[q] /\ acc'[q] = acc[q]
    BY <1>1 DEF Step, Call, CommandFails, Lock, GiveUp, Unlock, GetSnapshot, ReadForDelete,
       ReadForSubmit, Dedup, Since, Announce, Create, CreateContent, Delete, Commit, Faulty,
       Fail, Return, Goto, localVars, TypeOK, ControlOK, LocalsOK
  <2> QED
    BY <2>1 DEF Prepared
<1>2. ASSUME NEW n \in Nodes, Crash(n) PROVE Prepared(q)'
  BY <1>2 DEF Crash, Prepared
<1>3. ASSUME NEW n \in Watchers, Subscribe(n) \/ Cancel(n) \/ Listen(n) \/ Receive(n)
      PROVE  UNCHANGED <<pc, req, localVars>>
  BY <1>3 DEF Subscribe, Cancel, Listen, Receive
<1>4. ASSUME Expire \/ Terminated \/ UNCHANGED vars PROVE UNCHANGED <<pc, req, localVars>>
  BY <1>4 DEF Expire, Terminated, vars, localVars
<1>5. UNCHANGED <<pc, req, localVars>> => Prepared(q)'
  BY DEF Prepared, localVars
<1> QED
  BY <1>1, <1>2, <1>3, <1>4, <1>5, PreparedOwn DEF Next

-----------------------------------------------------------------------------
(***************************************************************************)
(* The caches.  In its first life a document's list only grows until it is *)
(* deleted, so what a node once cached stays what the list holds; and no   *)
(* node has cached a version that is still to come, which a later commit   *)
(* could make with another operation.                                      *)
(***************************************************************************)

Unmade == ~overrun /\ life = 0 => snap = Absent
CachesOK ==
  FirstLife =>
    \A n \in Nodes : \A v \in DOMAIN cache[n] :
      /\ life = 1
      /\ snap # Absent => v \in DOMAIN oplist
      /\ v \in DOMAIN oplist => cache[n][v] = oplist[v].op

\* What LRANGE hands out of a serial list.
LEMMA GetOpsRecords ==
  ASSUME StoreOK, NEW from \in Nat, NEW to \in Nat
  PROVE  /\ \A i \in DOMAIN GetOps(from, to) :
              from + i \in DOMAIN oplist /\ GetOps(from, to)[i] = oplist[from + i]
         /\ from <= to /\ to = Len(oplist) => DOMAIN GetOps(from, to) = 1..(to - from)
<1> DEFINE end == IF to > Len(oplist) THEN Len(oplist) ELSE to
<1>1. Len(oplist) \in Nat /\ DOMAIN oplist = 1..Len(oplist) /\ IsSeq(oplist)
  BY IsSeqFacts DEF StoreOK
<1>2. end \in Int /\ end <= Len(oplist) /\ from + 1 \in Int /\ 1 <= from + 1
  BY <1>1
<1>3. GetOps(from, to) = SubSeq(oplist, from + 1, end)
  BY DEF GetOps
<1>4. to = Len(oplist) => end = to
  BY <1>1
<1> HIDE DEF end
<1>5. /\ IsSeq(SubSeq(oplist, from + 1, end))
      /\ Len(SubSeq(oplist, from + 1, end)) = IF from + 1 <= end THEN end - (from + 1) + 1 ELSE 0
      /\ \A i \in DOMAIN SubSeq(oplist, from + 1, end) :
           /\ (from + 1) + i - 1 \in DOMAIN oplist
           /\ SubSeq(oplist, from + 1, end)[i] = oplist[(from + 1) + i - 1]
  BY <1>1, <1>2, SubSeqFacts
<1>6. DOMAIN SubSeq(oplist, from + 1, end) = 1..Len(SubSeq(oplist, from + 1, end))
  BY <1>5, IsSeqFacts
<1>7. \A i \in DOMAIN SubSeq(oplist, from + 1, end) : i \in Nat /\ (from + 1) + i - 1 = from + i
  BY <1>2, <1>5, <1>6
<1>8. \A i \in DOMAIN SubSeq(oplist, from + 1, end) :
        from + i \in DOMAIN oplist /\ SubSeq(oplist, from + 1, end)[i] = oplist[from + i]
  BY <1>5, <1>7
<1>9. from <= to /\ to = Len(oplist) => Len(SubSeq(oplist, from + 1, end)) = to - from
  BY <1>2, <1>4, <1>5
<1> QED
  BY <1>3, <1>6, <1>8, <1>9

\* What a call has fetched since its base version, and where it stores it.
Fetched(p) == GetOps(req[p].base, rec[p].version)

\* A fetch finds records of the list, each under its version, or nothing.
LEMMA FetchedRecords ==
  ASSUME Inv, ~overrun, NEW p \in Procs, pc[p] = "since", NEW i \in DOMAIN Fetched(p)
  PROVE  /\ Fetched(p)[i].version = req[p].base + i
         /\ req[p].base + i \in DOMAIN oplist
         /\ Fetched(p)[i] = oplist[req[p].base + i]
<1>1. req[p].base \in Nat /\ rec[p].version \in Nat /\ StoreOK
  BY DEF Inv, TypeOK, LocalsOK
<1>2. req[p].base + i \in DOMAIN oplist /\ Fetched(p)[i] = oplist[req[p].base + i]
  BY <1>1, GetOpsRecords DEF Fetched
<1> QED
  BY <1>2 DEF Inv, SerialVersions

\* So a call caches nothing but what the list holds.
LEMMA SinceCaches ==
  ASSUME Inv, Unmade, CachesOK, NEW p \in Procs, Since(p), FirstLife PROVE CachesOK'
<1>1. PICK E : E = { Fetched(p)[i] : i \in DOMAIN Fetched(p) }
  OBVIOUS
<1>2. \A e \in E : e.version \in DOMAIN oplist /\ e = oplist[e.version]
  BY <1>1, FetchedRecords DEF Since, FirstLife
<1>3. cache' = [cache EXCEPT ![NodeOf[p]] = Store(NodeOf[p], E)]
  BY <1>1 DEF Since, Fetched
<1>4. NodeOf[p] \in Nodes /\ DOMAIN cache = Nodes
  BY ConstantAssumption DEF Inv, TypeOK, StoreOK
<1>5. UNCHANGED <<snap, oplist, life, overrun>>
  BY DEF Since, storeVars
<1>6. E # {} => life = 1
  <2>1. E # {} => oplist # <<>>
    BY <1>2, EmptyIsSeq
  <2>2. life \in Nat
    BY DEF Inv, TypeOK, StoreOK
  <2> QED
    BY <2>1, <2>2 DEF Unmade, FirstLife, Inv, SerialVersions, Absent
<1>7. ASSUME NEW v \in DOMAIN Store(NodeOf[p], E)
      PROVE  \/ v \in DOMAIN cache[NodeOf[p]] /\ Store(NodeOf[p], E)[v] = cache[NodeOf[p]][v]
             \/ /\ E # {} /\ v \in DOMAIN oplist
                /\ Store(NodeOf[p], E)[v] = oplist[v].op
  <2>1. CASE v \in DOMAIN cache[NodeOf[p]]
    BY <2>1 DEF Store
  <2>2. CASE v \notin DOMAIN cache[NodeOf[p]]
    <3>1. \E e \in E : e.version = v
      BY <2>2 DEF Store
    <3>2. PICK e : e = CHOOSE d \in E : d.version = v
      OBVIOUS
    <3>3. e \in E /\ e.version = v
      BY <3>1, <3>2
    <3>4. Store(NodeOf[p], E)[v] = e.op
      BY <2>2, <3>2, <3>3 DEF Store
    <3> QED
      BY <1>2, <3>3, <3>4
  <2> QED
    BY <2>1, <2>2
<1> SUFFICES ASSUME NEW n \in Nodes, NEW v \in DOMAIN cache'[n]
             PROVE  /\ life = 1
                    /\ snap # Absent => v \in DOMAIN oplist
                    /\ v \in DOMAIN oplist => cache'[n][v] = oplist[v].op
  BY <1>5 DEF CachesOK
<1>8. CASE v \in DOMAIN cache[n] /\ cache'[n][v] = cache[n][v]
  BY <1>8 DEF CachesOK
<1>9. CASE E # {} /\ v \in DOMAIN oplist /\ cache'[n][v] = oplist[v].op
  BY <1>6, <1>9
<1> QED
  BY <1>3, <1>4, <1>7, <1>8, <1>9

\* The document is there once it has been created.
LEMMA UnmadeNext == ASSUME Inv, Unmade, [Next]_vars PROVE Unmade'
<1> SUFFICES ASSUME ~overrun', life' = 0 PROVE snap' = Absent
  BY DEF Unmade
<1>0. ~overrun /\ life \in Nat
  BY OverrunStays DEF Inv, TypeOK, StoreOK
<1>1. CASE UNCHANGED <<snap, oplist, initial, life>>
  BY <1>0, <1>1 DEF Unmade
<1>2. CASE ~ UNCHANGED <<snap, oplist, initial, life>>
  <2>1. PICK p \in Procs : /\ Create(p) \/ CreateContent(p) \/ Delete(p) \/ Commit(p)
                           /\ overrun' = (overrun \/ p \in expired)
    BY <1>2, StoreStep
  <2>2. p \notin expired /\ Holding(p)
    BY <2>1, WriterHolds
  <2>3. ~Create(p)
    BY <1>0, <1>2 DEF Create, storeVars
  <2>4. life = 0 /\ snap = Absent
    BY <1>0, <2>1, <2>3 DEF Unmade, CreateContent, Delete, Commit, storeVars
  <2>5. ~CreateContent(p)
    <3>1. CreateContent(p) => snap.version = 0 /\ 0 # Nil
      BY <1>0, <2>2, ConstantAssumption DEF Inv, Views, View, HasCreated, CreateContent
    <3> QED
      BY <2>4, <3>1 DEF Absent
  <2>6. ~Delete(p) /\ ~Commit(p)
    BY <1>2, <2>4 DEF Delete, Commit, CommitOp, storeVars
  <2> QED
    BY <2>1, <2>3, <2>5, <2>6
<1> QED
  BY <1>1, <1>2
\* The caches keep to the list when it grows, goes, and is lost from sight.
LEMMA CachesNext == ASSUME Inv, Unmade, CachesOK, [Next]_vars PROVE CachesOK'
<1> SUFFICES ASSUME FirstLife' PROVE CachesOK'
  BY DEF CachesOK
<1>0. ~overrun /\ life \in Nat /\ DOMAIN cache = Nodes
  BY OverrunStays DEF Inv, TypeOK, StoreOK, FirstLife
<1>1. ASSUME UNCHANGED <<snap, oplist, life, overrun, cache>> PROVE CachesOK'
  BY <1>1 DEF CachesOK, FirstLife
<1>2. ASSUME NEW p \in Procs, Since(p) PROVE CachesOK'
  <2>1. FirstLife
    BY <1>2 DEF Since, storeVars, FirstLife
  <2> QED
    BY <1>2, <2>1, SinceCaches
<1>3. ASSUME NEW n \in Nodes, Crash(n) PROVE CachesOK'
  <2>1. UNCHANGED <<snap, oplist, life, overrun>> /\ cache' = [cache EXCEPT ![n] = EmptyCache]
    BY <1>3 DEF Crash, storeVars
  <2>2. DOMAIN EmptyCache = {}
    BY DEF EmptyCache
  <2> QED
    BY <1>0, <2>1, <2>2 DEF CachesOK, FirstLife
<1>4. ASSUME NEW p \in Procs, Create(p) PROVE CachesOK'
  <2>1. \/ UNCHANGED <<snap, oplist, life, overrun, cache>>
        \/ life' = life + 1 /\ UNCHANGED cache
    BY <1>4 DEF Create, storeVars
  <2>2. ASSUME life' = life + 1, UNCHANGED cache PROVE CachesOK'
    <3>1. life = 0 /\ FirstLife
      BY <1>0, <2>2 DEF FirstLife
    <3>2. \A n \in Nodes : DOMAIN cache[n] = {}
      BY <3>1 DEF CachesOK
    <3> QED
      BY <2>2, <3>2 DEF CachesOK
  <2> QED
    BY <1>1, <2>1, <2>2
<1>5. ASSUME NEW p \in Procs, CreateContent(p) PROVE CachesOK'
  <2>1. overrun' = (overrun \/ p \in expired) /\ ~overrun'
    BY <1>5 DEF CreateContent, Overruns, FirstLife
  <2>2. Holding(p)
    BY <1>5, <2>1, WriterHolds
  <2>3. snap.version = 0 /\ 0 # Nil
    BY <1>0, <1>5, <2>2, ConstantAssumption
    DEF Inv, Views, View, HasCreated, CreateContent
  <2>4. snap # Absent /\ UNCHANGED <<oplist, life, cache>>
    BY <1>5, <2>3 DEF CreateContent, Absent
  <2>5. FirstLife
    BY <1>0, <2>4 DEF FirstLife
  <2> QED
    BY <2>4, <2>5 DEF CachesOK
<1>6. ASSUME NEW p \in Procs, Delete(p) PROVE CachesOK'
  <2>1. \/ UNCHANGED <<snap, oplist, life, overrun, cache>>
        \/ /\ snap' = Absent /\ oplist' = <<>> /\ UNCHANGED life
           /\ UNCHANGED cache \/ cache' = [cache EXCEPT ![NodeOf[p]] = EmptyCache]
    BY <1>6 DEF Delete, storeVars
  <2>2. ASSUME snap' = Absent, oplist' = <<>>, UNCHANGED life,
               UNCHANGED cache \/ cache' = [cache EXCEPT ![NodeOf[p]] = EmptyCache]
        PROVE  CachesOK'
    <3>1. FirstLife
      BY <1>0, <2>2 DEF FirstLife
    <3>2. \A n \in Nodes : DOMAIN cache'[n] \subseteq DOMAIN cache[n]
      BY <1>0, <2>2 DEF EmptyCache
    <3>3. DOMAIN oplist' = {}
      BY <2>2
    <3> QED
      BY <2>2, <3>1, <3>2, <3>3 DEF CachesOK
  <2> QED
    BY <1>1, <2>1, <2>2
<1>7. ASSUME NEW p \in Procs, Commit(p) PROVE CachesOK'
  <2>1. CASE snap = Absent
    <3>1. UNCHANGED <<snap, oplist, life, cache>>
      BY <1>7, <2>1 DEF Commit, CommitOp
    <3>2. FirstLife
      BY <1>0, <3>1 DEF FirstLife
    <3> QED
      BY <3>1, <3>2 DEF CachesOK
  <2>2. CASE snap # Absent
    <3>1. overrun' = (overrun \/ p \in expired) /\ ~overrun'
      BY <1>7 DEF Commit, Overruns, FirstLife
    <3>2. p \notin expired
      BY <1>7, <3>1, WriterHolds
    <3>3. /\ IsSeq(oplist) /\ oplist' = Append(oplist, Entry(p))
          /\ Entry(p).version = Len(oplist) + 1 /\ UNCHANGED life
      BY <1>0, <1>7, <3>2, CommitFacts DEF Inv, Commit
    <3>4. /\ DOMAIN oplist' = DOMAIN oplist \cup {Len(oplist) + 1}
          /\ \A i \in DOMAIN oplist : oplist'[i] = oplist[i]
          /\ oplist'[Len(oplist) + 1] = Entry(p)
      BY <3>3, AppendFacts
    <3>5. FirstLife
      BY <1>0, <3>3 DEF FirstLife
    <3>6. life = 1
      BY <1>0, <2>2, <3>5 DEF Unmade, FirstLife
    <3>7. Entry(p).op = acc[p].op
      BY DEF Entry
    <3>8. \/ UNCHANGED cache
          \/ cache' = [cache EXCEPT ![NodeOf[p]] =
                         [v \in DOMAIN @ \cup {Entry(p).version} |->
                            IF v = Entry(p).version THEN acc[p].op ELSE @[v]]]
      BY <1>7 DEF Commit
    <3>9. ASSUME NEW n \in Nodes, NEW v \in DOMAIN cache'[n]
          PROVE  \/ v \in DOMAIN cache[n] /\ cache'[n][v] = cache[n][v]
                 \/ v = Len(oplist) + 1 /\ cache'[n][v] = acc[p].op
      BY <1>0, <3>3, <3>8
    <3> SUFFICES ASSUME NEW n \in Nodes, NEW v \in DOMAIN cache'[n]
                 PROVE  v \in DOMAIN oplist' /\ cache'[n][v] = oplist'[v].op
      BY <3>3, <3>6 DEF CachesOK
    <3>10. CASE v \in DOMAIN cache[n] /\ cache'[n][v] = cache[n][v]
      <4>1. v \in DOMAIN oplist /\ cache[n][v] = oplist[v].op
        BY <2>2, <3>5, <3>10 DEF CachesOK
      <4> QED
        BY <3>4, <3>10, <4>1
    <3>11. CASE v = Len(oplist) + 1 /\ cache'[n][v] = acc[p].op
      BY <3>4, <3>7, <3>11
    <3> QED
      BY <3>9, <3>10, <3>11
  <2> QED
    BY <2>1, <2>2
<1>8. ASSUME NEW p \in Procs,
             \/ Call(p) \/ CommandFails(p) \/ Lock(p) \/ GiveUp(p) \/ Unlock(p)
             \/ GetSnapshot(p) \/ ReadForDelete(p) \/ ReadForSubmit(p) \/ Dedup(p)
      PROVE  UNCHANGED <<snap, oplist, life, overrun, cache>>
  BY <1>8 DEF Call, CommandFails, Lock, GiveUp, Unlock, GetSnapshot, ReadForDelete,
              ReadForSubmit, Dedup, storeVars
<1>9. ASSUME NEW p \in Procs, Announce(p) PROVE CachesOK'
  <2>1. UNCHANGED <<snap, oplist, life, cache>>
    BY <1>9 DEF Announce
  <2>2. FirstLife
    BY <1>0, <2>1 DEF FirstLife
  <2> QED
    BY <2>1, <2>2 DEF CachesOK
<1>10. ASSUME NEW n \in Watchers, Subscribe(n) \/ Cancel(n) \/ Listen(n) \/ Receive(n)
      PROVE  UNCHANGED <<snap, oplist, life, overrun, cache>>
  BY <1>10 DEF Subscribe, Cancel, Listen, Receive, storeVars
<1>11. ASSUME Expire \/ Terminated \/ UNCHANGED vars
      PROVE  UNCHANGED <<snap, oplist, life, overrun, cache>>
  BY <1>11 DEF Expire, Terminated, vars, storeVars
<1> QED
  BY <1>1, <1>2, <1>3, <1>4, <1>5, <1>6, <1>7, <1>8, <1>9, <1>10, <1>11 DEF Next, Step

\* In the document's first life no node's cache differs from the list: for any
\* nodes, faults and requests, also when other nodes delete the document
\* (getOrParseCommittedOperation, parsedOpCache.Store).
THEOREM CachesCurrentCorrect == Spec => []CachesCurrent
<1>1. Init => Unmade /\ CachesOK
  BY DEF Init, Unmade, CachesOK, EmptyCache
<1>2. Inv /\ Unmade /\ CachesOK /\ [Next]_vars => Unmade' /\ CachesOK'
  BY UnmadeNext, CachesNext
<1>3. CachesOK => CachesCurrent
  BY DEF CachesOK, CachesCurrent
<1> QED
  BY <1>1, <1>2, <1>3, InvCorrect, PTL DEF Spec
-----------------------------------------------------------------------------
(***************************************************************************)
(* The operations.  What a call under its own lock is about to commit is   *)
(* its submission rebased over the list from its base on; the lock keeps   *)
(* others from adding to the list before it is committed.                  *)
(***************************************************************************)

CachesMatch ==
  \A n \in Nodes : \A v \in DOMAIN cache[n] \cap DOMAIN oplist :
    cache[n][v] = oplist[v].op
Rebased(p) ==
  Holding(p) /\ pc[p] = "commit" =>
    acc[p].op = RebaseOver(req[p].payload, OpsAfter(oplist, req[p].base))
ListRebased ==
  \A v \in DOMAIN oplist :
    /\ oplist[v].base \in 0..(v - 1)
    /\ oplist[v].op = RebaseOver(oplist[v].sub,
                                 [i \in 1..(v - 1 - oplist[v].base) |->
                                    oplist[oplist[v].base + i].op])
AllRebased == ListRebased /\ \A p \in Procs : Rebased(p)

\* Rebasing over what was fetched, cached or not, is rebasing over the list.
LEMMA SinceRebases ==
  ASSUME Inv, CachesMatch, ~overrun, NEW p \in Procs, Since(p), Holding(p),
         pc'[p] = "commit"
  PROVE  acc'[p].op = RebaseOver(req[p].payload, OpsAfter(oplist, req[p].base))
<1> DEFINE over == [i \in DOMAIN Fetched(p) |-> Cached(NodeOf[p], Fetched(p)[i])]
<1>0. pc[p] = "since"
  BY DEF Since
<1>1. rec[p] = snap /\ snap.version # Nil
  BY <1>0 DEF Inv, Views, View, CopyIsCurrent
<1>2. /\ rec[p].version = Len(oplist) /\ Len(oplist) \in Nat
      /\ req[p].base \in Nat /\ req[p].base <= Len(oplist) /\ StoreOK
  BY <1>0, <1>1 DEF Inv, SerialVersions, TypeOK, LocalsOK
<1>3. DOMAIN Fetched(p) = 1..(Len(oplist) - req[p].base)
  BY <1>2, GetOpsRecords DEF Fetched
<1>4. ASSUME NEW i \in DOMAIN Fetched(p)
      PROVE  Cached(NodeOf[p], Fetched(p)[i]) = oplist[req[p].base + i].op
  <2>1. /\ Fetched(p)[i].version = req[p].base + i
        /\ req[p].base + i \in DOMAIN oplist
        /\ Fetched(p)[i] = oplist[req[p].base + i]
    BY <1>0, <1>4, FetchedRecords
  <2>2. NodeOf[p] \in Nodes
    BY ConstantAssumption
  <2> QED
    BY <2>1, <2>2 DEF Cached, CachesMatch
<1>5. over = OpsAfter(oplist, req[p].base)
  BY <1>3, <1>4 DEF OpsAfter
<1>6. PICK op : op = RebaseOver(req[p].payload, over)
  OBVIOUS
<1>7. \/ Fail(p, "empty") \/ Fail(p, "unparsable")
      \/ acc' = [acc EXCEPT ![p] = [op |-> op, doc |-> ApplyOp(rec[p].doc, op)]]
  BY <1>6 DEF Since, Fetched
<1> HIDE DEF over
<1>8. acc'[p].op = op
  BY <1>0, <1>7 DEF Fail, Return, Inv, TypeOK, ControlOK, LocalsOK
<1> QED
  BY <1>5, <1>6, <1>8

\* Who is about to commit has just rebased, or was about to commit before, and
\* nobody has added to the list since.
LEMMA CommittingNext ==
  ASSUME Inv, [Next]_vars, ~overrun', NEW q \in Procs, Holding(q)', pc'[q] = "commit"
  PROVE  \/ Since(q) /\ Holding(q) /\ UNCHANGED <<oplist, req, life, overrun>>
         \/ /\ Holding(q) /\ pc[q] = "commit" /\ UNCHANGED oplist
            /\ req'[q] = req[q] /\ acc'[q] = acc[q]
<1> USE DEF Inv
<1>1. ASSUME NEW p \in Procs, p # q, Call(p) \/ CommandFails(p) \/ Step(p)
      PROVE  Holding(q) /\ pc[q] = "commit" /\ req'[q] = req[q] /\ acc'[q] = acc[q]
  <2>1. pc'[q] = pc[q] /\ req'[q] = req[q] /\ acc'[q] = acc[q]
    BY <1>1 DEF Step, Call, CommandFails, Lock, GiveUp, Unlock, GetSnapshot, ReadForDelete,
       ReadForSubmit, Dedup, Since, Announce, Create, CreateContent, Delete, Commit, Faulty,
       Fail, Return, Goto, localVars, TypeOK, ControlOK, LocalsOK
  <2>2. q \in expired' \/ q \notin expired
    BY <1>1 DEF Step, Call, CommandFails, Lock, GiveUp, Unlock, GetSnapshot, ReadForDelete,
       ReadForSubmit, Dedup, Since, Announce, Create, CreateContent, Delete, Commit, lockVars
  <2> QED
    BY <2>1, <2>2 DEF Holding, Critical
<1>2. ASSUME Call(q) \/ CommandFails(q) \/ Step(q)
      PROVE  Since(q) /\ Holding(q) /\ UNCHANGED <<oplist, req, life, overrun>>
  <2>1. Since(q)
    BY <1>2 DEF Step, Call, CommandFails, Lock, GiveUp, Unlock, GetSnapshot, ReadForDelete,
       ReadForSubmit, Dedup, Announce, Create, CreateContent, Delete, Commit, Faulty,
       Fail, Return, Goto, TypeOK, ControlOK
  <2> QED
    BY <2>1 DEF Since, Holding, Critical, storeVars, lockVars
<1>3. ASSUME NEW n \in Nodes, Crash(n)
      PROVE  Holding(q) /\ pc[q] = "commit" /\ req'[q] = req[q] /\ acc'[q] = acc[q]
  BY <1>3 DEF Crash, Holding, Critical
<1>4. CASE Expire
  BY <1>4 DEF Expire, storeVars, localVars, Holding, Critical
<1>5. ASSUME NEW n \in Watchers, Subscribe(n) \/ Cancel(n) \/ Listen(n) \/ Receive(n)
      PROVE  Holding(q) /\ pc[q] = "commit" /\ req'[q] = req[q] /\ acc'[q] = acc[q]
  BY <1>5 DEF Subscribe, Cancel, Listen, Receive, storeVars, localVars, lockVars, Holding,
              Critical
<1>6. ASSUME Terminated \/ UNCHANGED vars
      PROVE  Holding(q) /\ pc[q] = "commit" /\ req'[q] = req[q] /\ acc'[q] = acc[q]
  BY <1>6 DEF Terminated, vars, Holding, Critical
<1>7. ASSUME Holding(q), pc[q] = "commit", acc'[q] = acc[q] PROVE UNCHANGED oplist
  <2> SUFFICES ASSUME ~ UNCHANGED <<snap, oplist, initial, life>> PROVE FALSE
    OBVIOUS
  <2>1. PICK p \in Procs : /\ Create(p) \/ CreateContent(p) \/ Delete(p) \/ Commit(p)
                           /\ overrun' = (overrun \/ p \in expired)
    BY StoreStep
  <2>2. Holding(p)
    BY <2>1, WriterHolds
  <2>3. p = q
    BY <1>7, <2>2 DEF HoldsLock
  <2>4. pc'[p] # "commit"
    BY <2>1 DEF Create, CreateContent, Delete, Commit, Faulty, Fail, Return, Goto, TypeOK,
                ControlOK
  <2> QED
    BY <2>3, <2>4
<1> QED
  BY <1>1, <1>2, <1>3, <1>4, <1>5, <1>6, <1>7 DEF Next

\* So what is about to be committed stays the rebased submission.
LEMMA RebasedNext ==
  ASSUME Inv, CachesMatch, [Next]_vars, ~overrun', NEW q \in Procs, Rebased(q)
  PROVE  Rebased(q)'
<1> SUFFICES ASSUME Holding(q)', pc'[q] = "commit"
             PROVE  acc'[q].op = RebaseOver(req'[q].payload, OpsAfter(oplist', req'[q].base))
  BY DEF Rebased
<1>1. ~overrun
  BY OverrunStays
<1>2. CASE Since(q) /\ Holding(q) /\ UNCHANGED <<oplist, req, life, overrun>>
  BY <1>1, <1>2, SinceRebases
<1>3. CASE /\ Holding(q) /\ pc[q] = "commit" /\ UNCHANGED oplist
           /\ req'[q] = req[q] /\ acc'[q] = acc[q]
  BY <1>3 DEF Rebased
<1> QED
  BY <1>2, <1>3, CommittingNext

\* A commit appends it; what is in the list stays as it is.
LEMMA ListRebasedNext ==
  ASSUME Inv, AllRebased, [Next]_vars, ~overrun' PROVE ListRebased'
<1> USE DEF AllRebased
<1>0. ~overrun
  BY OverrunStays
<1>1. CASE UNCHANGED oplist
  BY <1>0, <1>1 DEF ListRebased
<1>2. CASE ~ UNCHANGED oplist
  <2>1. PICK p \in Procs : /\ Create(p) \/ CreateContent(p) \/ Delete(p) \/ Commit(p)
                           /\ overrun' = (overrun \/ p \in expired)
    BY <1>2, StoreStep
  <2>2. p \notin expired /\ Holding(p)
    BY <1>0, <2>1, WriterHolds
  <2>3. ~Create(p) /\ ~CreateContent(p)
    BY <1>2 DEF Create, CreateContent, storeVars
  <2>4. CASE Delete(p)
    BY <1>2, <2>4 DEF Delete, storeVars, ListRebased
  <2>5. CASE Commit(p)
    <3> DEFINE n == Len(oplist)
    <3>1. /\ IsSeq(oplist) /\ n \in Nat /\ rec[p] = snap /\ snap.version = n
          /\ oplist' = Append(oplist, Entry(p))
      BY <1>0, <2>2, <2>5, CommitFacts DEF Inv
    <3>2. /\ DOMAIN oplist = 1..n /\ DOMAIN oplist' = 1..(n + 1)
          /\ \A i \in 1..n : oplist'[i] = oplist[i]
          /\ oplist'[n + 1] = Entry(p)
      BY <3>1, AppendFacts, IsSeqFacts
    <3>3. req[p].base \in 0..n
      BY <2>5, <3>1 DEF Commit, Inv, TypeOK, LocalsOK
    <3>4. acc[p].op = RebaseOver(req[p].payload, OpsAfter(oplist, req[p].base))
      BY <1>0, <2>2, <2>5 DEF Rebased, Commit
    <3>5. /\ Entry(p).base = req[p].base /\ Entry(p).sub = req[p].payload
          /\ Entry(p).op = acc[p].op
      BY DEF Entry
    <3>6. OpsAfter(oplist, req[p].base) =
            [i \in 1..(n - req[p].base) |-> oplist[req[p].base + i].op]
      BY DEF OpsAfter
    <3> HIDE DEF n
    <3> SUFFICES ASSUME NEW v \in 1..(n + 1)
                 PROVE  /\ oplist'[v].base \in 0..(v - 1)
                        /\ oplist'[v].op =
                             RebaseOver(oplist'[v].sub,
                                        [i \in 1..(v - 1 - oplist'[v].base) |->
                                           oplist'[oplist'[v].base + i].op])
      BY <3>2 DEF ListRebased
    <3>7. PICK b : b = oplist'[v].base
      OBVIOUS
    <3>8. CASE v \in 1..n
      <4>1. /\ b = oplist[v].base /\ b \in 0..(v - 1) /\ oplist'[v] = oplist[v]
            /\ oplist[v].op =
                 RebaseOver(oplist[v].sub, [i \in 1..(v - 1 - b) |-> oplist[b + i].op])
        BY <1>0, <3>2, <3>7, <3>8 DEF ListRebased
      <4>2. \A i \in 1..(v - 1 - b) : b + i \in 1..n
        BY <3>1, <3>8, <4>1
      <4>3. [i \in 1..(v - 1 - b) |-> oplist'[b + i].op] =
              [i \in 1..(v - 1 - b) |-> oplist[b + i].op]
        BY <3>2, <4>2
      <4> QED
        BY <3>7, <4>1, <4>3
    <3>9. CASE v = n + 1
      <4>1. b = req[p].base /\ b \in 0..n /\ v - 1 = n
        BY <3>1, <3>2, <3>3, <3>5, <3>7, <3>9
      <4>2. \A i \in 1..(n - b) : b + i \in 1..n
        BY <3>1, <4>1
      <4>3. [i \in 1..(n - b) |-> oplist'[b + i].op] = [i \in 1..(n - b) |-> oplist[b + i].op]
        BY <3>2, <4>2
      <4>4. oplist'[v].op = acc[p].op /\ oplist'[v].sub = req[p].payload
        BY <3>2, <3>5, <3>9
      <4>5. v - 1 - oplist'[v].base = n - b /\ oplist'[v].base = b
        BY <3>7, <4>1
      <4>6. [i \in 1..(v - 1 - oplist'[v].base) |-> oplist'[oplist'[v].base + i].op] =
              OpsAfter(oplist, req[p].base)
        BY <3>6, <4>1, <4>3, <4>5
      <4>7. oplist'[v].base \in 0..(v - 1)
        BY <4>1, <4>5
      <4> QED
        BY <3>4, <4>4, <4>6, <4>7
    <3>10. v \in 1..n \/ v = n + 1
      BY <3>1
    <3> QED
      BY <3>8, <3>9, <3>10, Zenon
  <2> QED
    BY <2>1, <2>3, <2>4, <2>5
<1> QED
  BY <1>1, <1>2

\* Both, as long as the caches are right.
LEMMA AllRebasedNext ==
  ASSUME Inv, CachesMatch, AllRebased, [Next]_vars, ~overrun' PROVE AllRebased'
<1>1. ListRebased'
  BY ListRebasedNext
<1>2. \A p \in Procs : Rebased(p)'
  BY RebasedNext DEF AllRebased
<1> QED
  BY <1>1, <1>2 DEF AllRebased

\* Nothing is rebased at first.
LEMMA AllRebasedInit == Init => AllRebased
  BY DEF Init, AllRebased, ListRebased, Rebased

\* What RebasedOverList says.
LEMMA ListIsRebased == ListRebased => RebasedOverList
  BY DEF ListRebased, RebasedOverList

\* A step out of which the first life comes was made in it.
LEMMA FirstLifeBefore ==
  ASSUME Inv, [Next]_vars, FirstLife' PROVE FirstLife /\ ~overrun'
<1>1. UNCHANGED life \/ life' = life + 1
  BY LifeStep DEF Inv
<1> QED
  BY <1>1, OverrunStays DEF FirstLife, Inv, TypeOK, StoreOK

FirstLifeInv == Unmade /\ CachesOK /\ (FirstLife => AllRebased)

\* In the first life the caches are right.
LEMMA FirstLifeInvNext == ASSUME Inv, FirstLifeInv, [Next]_vars PROVE FirstLifeInv'
<1>1. Unmade' /\ CachesOK'
  BY UnmadeNext, CachesNext DEF FirstLifeInv
<1>2. ASSUME FirstLife' PROVE AllRebased'
  <2>1. FirstLife /\ ~overrun'
    BY <1>2, FirstLifeBefore
  <2>2. CachesMatch
    BY <2>1 DEF FirstLifeInv, CachesOK, CachesMatch
  <2> QED
    BY <2>1, <2>2, AllRebasedNext DEF FirstLifeInv
<1> QED
  BY <1>1, <1>2 DEF FirstLifeInv

\* And so it is in every reachable state.
LEMMA FirstLifeInvCorrect == Spec => []FirstLifeInv
<1>1. Init => FirstLifeInv
  <2>1. Init => Unmade /\ CachesOK
    BY DEF Init, Unmade, CachesOK, EmptyCache
  <2> QED
    BY <2>1, AllRebasedInit DEF FirstLifeInv
<1>2. Inv /\ FirstLifeInv /\ [Next]_vars => FirstLifeInv'
  BY FirstLifeInvNext
<1> QED
  BY <1>1, <1>2, InvCorrect, PTL DEF Spec

\* Every operation in the list is the submitted one transformed over what the
\* list holds from its base on, whatever each node has cached, in the document's
\* first life (submitCore; the claim of redis.go's header).
THEOREM RebasedInFirstLifeCorrect == Spec => []RebasedInFirstLife
<1>1. Inv /\ FirstLifeInv => RebasedInFirstLife
  BY ListIsRebased
  DEF FirstLifeInv, AllRebased, RebasedInFirstLife, RebasedOverList, FirstLife
<1> QED
  BY <1>1, InvCorrect, FirstLifeInvCorrect, PTL

RightCaches == ~overrun => CachesMatch

\* So it is in every later life as long as no node's cache differs from the list:
\* what DeleteDocument leaves in the caches of other nodes is the only way for a
\* submission to be rebased over anything else (parsedOpCache, submitCore).
THEOREM RebasedWithRightCaches == Spec /\ []RightCaches => []RebasedOverList
<1> DEFINE RInv == ~overrun => AllRebased
<1>1. Init => RInv
  BY AllRebasedInit
<1>2. Inv /\ RInv /\ RightCaches /\ [Next]_vars => RInv'
  BY AllRebasedNext, OverrunStays DEF RightCaches
<1>3. RInv => RebasedOverList
  BY ListIsRebased DEF AllRebased, RebasedOverList
<1> HIDE DEF RInv
<1> QED
  BY <1>1, <1>2, <1>3, InvCorrect, PTL DEF Spec

-----------------------------------------------------------------------------
(***************************************************************************)
(* The refinement.  The second command of a creation, the commit script    *)
(* and the script of a deletion are the steps of VersionedDoc; all others  *)
(* are stutters, the first command of a creation among them.               *)
(***************************************************************************)

\* Operations make documents of a document.
LEMMA ReplayYields ==
  ASSUME ApplyYieldsContent, NEW doc, doc # Nil, NEW log, Len(log) \in Nat
  PROVE  Replay(doc, log) # Nil
<1>1. PICK f : Unrolls(f, doc, log, Len(log)) /\ Replay(doc, log) = f[Len(log)]
  BY ReplayUnrolls
<1>2. PICK n \in Nat : n = Len(log)
  OBVIOUS
<1> DEFINE T == { k \in 0..n : f[k] = Nil }
<1> SUFFICES ASSUME T # {} PROVE FALSE
  <2>1. n \in 0..n
    BY <1>2
  <2> QED
    BY <1>1, <1>2, <2>1
<1>3. PICK k \in T : \A j \in T : k <= j
  <2>1. T \subseteq Nat
    BY <1>2
  <2> HIDE DEF T
  <2> QED
    BY <2>1, LeastNat
<1>4. k # 0
  BY <1>1, <1>2, <1>3 DEF Unrolls
<1>5. k - 1 \in 0..n /\ k - 1 \notin T
  BY <1>2, <1>3, <1>4
<1>6. f[k] = ApplyOp(f[k - 1], log[k].op)
  BY <1>1, <1>2, <1>3, <1>4 DEF Unrolls
<1> QED
  BY <1>3, <1>5, <1>6 DEF ApplyYieldsContent

\* What the refinement rests on, besides what is rebased.
RefineInv == Inv /\ IsReplay /\ \A p \in Procs : Prepared(p)

\* Every step preserves it.
LEMMA RefineInvNext == ASSUME RefineInv, [Next]_vars PROVE RefineInv'
  BY InvNext, IsReplayNext, PreparedNext DEF RefineInv, Inv

\* It holds in every reachable state.
LEMMA RefineInvCorrect == Spec => []RefineInv
<1>1. Init => RefineInv
  BY InvInit DEF Init, RefineInv, IsReplay, Prepared
<1>2. RefineInv /\ [Next]_vars => RefineInv'
  BY RefineInvNext
<1> QED
  BY <1>1, <1>2, PTL DEF Spec

\* The abstract log and documents, where there is a document.
LEMMA Mapped ==
  ASSUME RefineInv, ~overrun, Whole
  PROVE  /\ IsSeq(oplist) /\ Len(oplist) \in Nat
         /\ History!Version = Len(oplist) /\ snap.version = Len(oplist)
         /\ IsSeq(Documents) /\ Len(Documents) = Len(oplist) + 1
         /\ \A i \in 1..(Len(oplist) + 1) :
              Documents[i] = Replay(initial, SubSeq(oplist, 1, i - 1))
         /\ History!Current = snap.doc /\ Documents # <<>>
<1> DEFINE n == Len(oplist)
<1>1. IsSeq(oplist) /\ n \in Nat /\ snap.version = n /\ snap # Absent
  BY IsSeqFacts DEF RefineInv, Inv, TypeOK, StoreOK, SerialVersions, Whole, Absent
<1>2. Documents = [i \in 1..(n + 1) |-> Replay(initial, SubSeq(oplist, 1, i - 1))]
  BY DEF Documents
<1> HIDE DEF n
<1>3. /\ Documents \in Seq({ Documents[i] : i \in 1..(n + 1) })
      /\ Len(Documents) = n + 1
  <2>1. PICK D : D = Documents
    OBVIOUS
  <2>2. D = [i \in 1..(n + 1) |-> D[i]]
    BY <1>2, <2>1
  <2>3. PICK R : R = { D[i] : i \in 1..(n + 1) }
    OBVIOUS
  <2>4. n + 1 \in Nat /\ D \in [1..(n + 1) -> R]
    BY <1>1, <2>2, <2>3
  <2>5. D \in Seq(R) /\ Len(D) = n + 1
    BY <2>4
  <2> QED
    BY <2>1, <2>3, <2>5
<1>4. IsSeq(Documents)
  BY <1>3, SeqIsSeq
<1>5. \A i \in 1..(n + 1) : Documents[i] = Replay(initial, SubSeq(oplist, 1, i - 1))
  BY <1>2
<1>6. Documents[n + 1] = Replay(initial, oplist)
  <2>1. SubSeq(oplist, 1, n) = oplist
    BY <1>1, SubSeqFull DEF IsSeq, n
  <2>2. n + 1 \in 1..(n + 1) /\ (n + 1) - 1 = n
    BY <1>1
  <2> QED
    BY <1>5, <2>1, <2>2
<1>7. snap.doc = Replay(initial, oplist)
  BY <1>1 DEF RefineInv, IsReplay
<1>8. Documents # <<>>
  BY <1>1, <1>3, EmptyIsSeq
<1> QED
  BY <1>1, <1>3, <1>4, <1>5, <1>6, <1>7, <1>8 DEF n, History!Version, History!Current

\* Without content there is no operation.
LEMMA NothingYet ==
  ASSUME ApplyYieldsContent, RefineInv, ~overrun, ~Whole PROVE oplist = <<>> /\ Documents = <<>>
<1>1. Documents = <<>>
  BY DEF Documents
<1>2. CASE snap.version = Nil
  BY <1>1, <1>2 DEF RefineInv, Inv, SerialVersions
<1>3. CASE snap.version # Nil
  <2> SUFFICES ASSUME oplist # <<>> PROVE FALSE
    BY <1>1
  <2>1. snap.doc = Nil /\ snap # Absent
    BY <1>3 DEF Whole, Absent
  <2>2. initial # Nil /\ snap.doc = Replay(initial, oplist)
    BY <2>1 DEF RefineInv, IsReplay
  <2>3. Len(oplist) \in Nat
    BY IsSeqFacts DEF RefineInv, Inv, TypeOK, StoreOK
  <2> QED
    BY <2>1, <2>2, <2>3, ReplayYields
<1> QED
  BY <1>2, <1>3

\* The first command of a creation changes nothing a caller can see.
LEMMA CreateStutters ==
  ASSUME ApplyYieldsContent, RefineInv, ~overrun, NEW p \in Procs, Create(p)
  PROVE  UNCHANGED History!absVars
<1>1. CASE UNCHANGED storeVars
  BY <1>1 DEF storeVars, History!absVars, Documents, Whole
<1>2. CASE ~ UNCHANGED storeVars
  <2>1. snap.version = Nil /\ snap'.doc = snap.doc /\ UNCHANGED oplist
    BY <1>2 DEF Create
  <2>2. snap.doc = Nil
    BY <2>1 DEF RefineInv, Inv, NoHalfDeleted, Absent
  <2>3. ~Whole /\ ~Whole'
    BY <2>1, <2>2 DEF Whole
  <2> QED
    BY <2>1, <2>3 DEF History!absVars, Documents
<1> QED
  BY <1>1, <1>2

\* The second makes the document.
LEMMA CreateRefines ==
  ASSUME ApplyYieldsContent, RefineInv, ~overrun, NEW p \in Procs, CreateContent(p), Holding(p)
  PROVE  History!Next
<1>1. req[p] \in Requests /\ req[p].kind = "create"
  BY LabelsByKind
  DEF CreateContent, RefineInv, Prepared, Inv, TypeOK, ControlOK, Kind, Kinds
<1>2. snap = [version |-> 0, doc |-> Nil] /\ ~Whole /\ 0 # Nil
  BY ConstantAssumption DEF RefineInv, Inv, Views, View, HasCreated, CreateContent, Whole
<1>3. oplist = <<>> /\ Documents = <<>>
  BY <1>2, NothingYet
<1>4. /\ snap' = [version |-> 0, doc |-> req[p].payload]
      /\ initial' = req[p].payload /\ oplist' = <<>>
  BY <1>2, <1>3 DEF CreateContent
<1>5. Whole'
  BY <1>1, <1>2, <1>4, RequestAssumption DEF Whole
<1>6. Documents' = <<req[p].payload>>
  <2>1. Len(oplist') + 1 = 1
    BY <1>4
  <2>2. SubSeq(oplist', 1, 1 - 1) = <<>>
    BY <1>4
  <2>3. Documents' = [i \in 1..1 |-> Replay(initial', SubSeq(oplist', 1, i - 1))]
    BY <1>5, <2>1 DEF Documents
  <2>4. Replay(initial', SubSeq(oplist', 1, 1 - 1)) = req[p].payload
    BY <1>4, <2>2, ReplayNothing
  <2>5. Documents' = [i \in 1..1 |-> req[p].payload]
    BY <2>3, <2>4
  <2> QED
    BY <2>5
<1>7. History!Create(req[p])
  BY <1>1, <1>3, <1>4, <1>6 DEF History!Create
<1> QED
  BY <1>1, <1>7 DEF History!Next

\* A deletion takes the log and the documents, or what was no document yet.
LEMMA DeleteRefines ==
  ASSUME ApplyYieldsContent, RefineInv, ~overrun, NEW p \in Procs, Delete(p), Holding(p)
  PROVE  History!Next \/ UNCHANGED History!absVars
<1>1. req[p] \in Requests /\ req[p].kind = "delete" /\ req[p].base = rec[p].version
  BY LabelsByKind DEF Delete, RefineInv, Prepared, Inv, TypeOK, ControlOK, Kind, Kinds
<1>2. rec[p] = snap /\ snap.version # Nil
  BY DEF RefineInv, Inv, Views, View, CopyIsCurrent, Delete
<1>3. snap' = Absent /\ oplist' = <<>>
  BY <1>2 DEF Delete, Absent
<1>4. Documents' = <<>>
  BY <1>3 DEF Documents, Whole, Absent
<1>5. CASE Whole
  <2>1. req[p].base = History!Version /\ Documents # <<>>
    BY <1>1, <1>2, <1>5, Mapped
  <2>2. History!Delete(req[p])
    BY <1>1, <1>3, <1>4, <2>1 DEF History!Delete
  <2> QED
    BY <1>1, <2>2 DEF History!Next
<1>6. CASE ~Whole
  BY <1>3, <1>4, <1>6, NothingYet DEF History!absVars
<1> QED
  BY <1>5, <1>6

\* What a commit adds to the documents is what its operation makes of the last.
LEMMA CommitExtends ==
  ASSUME ApplyYieldsContent, RefineInv, ~overrun, NEW p \in Procs, Commit(p), p \notin expired
  PROVE  /\ Whole /\ History!Extend(Entry(p), ApplyOp(snap.doc, acc[p].op))
<1> DEFINE n == Len(oplist)
           e == Entry(p)
           d == ApplyOp(snap.doc, acc[p].op)
<1>1. /\ snap.version # Nil /\ snap.doc # Nil /\ n \in Nat /\ IsSeq(oplist)
      /\ snap' = [version |-> n + 1, doc |-> d]
      /\ oplist' = Append(oplist, e) /\ UNCHANGED initial
  BY CommitFacts DEF RefineInv, Inv, Commit
<1>2. Whole /\ d # Nil
  BY <1>1 DEF Whole, ApplyYieldsContent
<1>3. e.op = acc[p].op
  BY DEF Entry
<1> HIDE DEF e, d
<1>4. Whole'
  <2>1. n + 1 # Nil
    BY <1>1, ConstantAssumption
  <2> QED
    BY <1>1, <1>2, <2>1 DEF Whole
<1>5. /\ IsSeq(Documents) /\ Len(Documents) = n + 1
      /\ \A i \in 1..(n + 1) : Documents[i] = Replay(initial, SubSeq(oplist, 1, i - 1))
  BY <1>2, Mapped
<1>6. PICK more : more = Append(Documents, d)
  OBVIOUS
<1>7. /\ DOMAIN more = 1..(n + 2) /\ Len(more) = n + 2 /\ IsSeq(more)
      /\ \A i \in 1..(n + 1) : more[i] = Documents[i]
      /\ more[n + 2] = d
  <2>1. /\ IsSeq(more) /\ Len(more) = (n + 1) + 1
        /\ \A i \in DOMAIN Documents : more[i] = Documents[i]
        /\ more[(n + 1) + 1] = d /\ DOMAIN Documents = 1..(n + 1)
    BY <1>5, <1>6, AppendFacts, IsSeqFacts
  <2>2. (n + 1) + 1 = n + 2
    BY <1>1
  <2> QED
    BY <2>1, <2>2, IsSeqFacts
<1>8. Len(oplist') = n + 1
  BY <1>1, AppendFacts
<1>9. \A i \in 1..(n + 2) : more[i] = Replay(initial', SubSeq(oplist', 1, i - 1))
  <2> SUFFICES ASSUME NEW i \in 1..(n + 2)
               PROVE  more[i] = Replay(initial', SubSeq(oplist', 1, i - 1))
    OBVIOUS
  <2>1. CASE i \in 1..(n + 1)
    <3>1. i - 1 \in 0..n
      BY <1>1, <2>1
    <3>2. SubSeq(oplist', 1, i - 1) = SubSeq(oplist, 1, i - 1)
      BY <1>1, <3>1, PrefixAppend
    <3> QED
      BY <1>1, <1>5, <1>7, <2>1, <3>2
  <2>2. CASE i = n + 2
    <3>1. i - 1 = n + 1
      BY <1>1, <2>2
    <3>2. IsSeq(oplist')
      BY <1>1, AppendFacts
    <3>3. SubSeq(oplist', 1, n + 1) = oplist'
      BY <1>8, <3>2, SubSeqFull DEF IsSeq
    <3>4. Replay(initial, oplist') = ApplyOp(Replay(initial, oplist), acc[p].op)
      BY <1>1, <1>3, ReplayAppend
    <3>5. snap.doc = Replay(initial, oplist)
      BY <1>1 DEF RefineInv, IsReplay, Absent
    <3> QED
      BY <1>1, <1>7, <2>2, <3>1, <3>3, <3>4, <3>5 DEF d
  <2>3. i \in 1..(n + 1) \/ i = n + 2
    BY <1>1
  <2> QED
    BY <2>1, <2>2, <2>3
<1>10. Documents' = more
  <2>1. Documents' = [i \in 1..((n + 1) + 1) |-> Replay(initial', SubSeq(oplist', 1, i - 1))]
    BY <1>4, <1>8 DEF Documents
  <2>2. (n + 1) + 1 = n + 2
    BY <1>1
  <2>3. more = [i \in 1..(n + 2) |-> more[i]]
    BY <1>7, IsSeqFacts DEF IsSeq
  <2> QED
    BY <1>9, <2>1, <2>2, <2>3
<1> QED
  BY <1>1, <1>2, <1>6, <1>10 DEF History!Extend, e, d

\* The commit script is the abstract submission.
LEMMA CommitRefines ==
  ASSUME ApplyYieldsContent, TransformYieldsOp, RefineInv, AllRebased, ~overrun, NEW p \in Procs,
         Commit(p), Holding(p)
  PROVE  History!Next
<1>1. pc[p] = "commit" /\ p \notin expired
  BY DEF Commit, Holding
<1>2. req[p] \in Requests /\ req[p].kind = "submit" /\ acc[p].op # NoOp
  BY <1>1, LabelsByKind DEF RefineInv, Prepared, Inv, TypeOK, ControlOK, Kind, Kinds
<1>3. /\ Whole /\ rec[p] = snap /\ snap.doc # Nil
      /\ HasID(req[p]) => \A i \in DOMAIN oplist : ~SameID(oplist[i], req[p])
  BY <1>1, CommitFacts, CommitExtends DEF RefineInv, Inv
<1>4. /\ History!Version = Len(oplist) /\ snap.version = Len(oplist)
      /\ History!Current = snap.doc /\ Documents # <<>> /\ IsSeq(oplist)
  BY <1>1, <1>3, Mapped
<1>5. req[p].base \in 0..Len(oplist)
  BY <1>1, <1>3, <1>4 DEF RefineInv, Inv, TypeOK, LocalsOK
<1>6. req[p].payload # Nil
  BY <1>2, RequestAssumption
<1>7. acc[p].op = History!RebaseOver(req[p].payload, oplist, req[p].base)
  <2>1. acc[p].op = RebaseOver(req[p].payload, OpsAfter(oplist, req[p].base))
    BY <1>1 DEF AllRebased, Rebased
  <2> QED
    BY <1>4, <1>5, <1>6, <2>1, RebaseAgrees
<1>8. acc[p].op # Nil
  <2>1. PICK over : over = OpsAfter(oplist, req[p].base)
    OBVIOUS
  <2>2. Len(over) \in Nat
    BY <1>4, <1>5, <2>1, IsSeqFacts DEF OpsAfter
  <2>3. PICK f : /\ Rebases(f, req[p].payload, over, Len(over))
                 /\ RebaseOver(req[p].payload, over) = f[Len(over)]
    BY <2>2, RebaseUnrolls
  <2>4. f[Len(over)] # Nil
    <3>1. \A i \in 0..Len(over) : f[i] # Nil
      BY <1>6, <2>2, <2>3, RebasesOps
    <3>2. Len(over) \in 0..Len(over)
      BY <2>2
    <3> QED
      BY <3>1, <3>2
  <2>5. Rebased(p)
    BY DEF AllRebased
  <2>6. acc[p].op = RebaseOver(req[p].payload, OpsAfter(oplist, req[p].base))
    BY <1>1, <2>5 DEF Rebased
  <2> QED
    BY <2>1, <2>3, <2>4, <2>6
<1>9. ApplyOp(snap.doc, acc[p].op) # Nil
  BY <1>3 DEF ApplyYieldsContent
<1>10. Entry(p) = [version |-> History!Version + 1, base |-> req[p].base,
                   source |-> req[p].source, seq |-> req[p].seq,
                   sub |-> req[p].payload, op |-> acc[p].op]
  BY <1>3, <1>4 DEF Entry
<1>11. History!Extend([version |-> History!Version + 1, base |-> req[p].base,
                       source |-> req[p].source, seq |-> req[p].seq,
                       sub |-> req[p].payload, op |-> acc[p].op],
                      ApplyOp(History!Current, acc[p].op))
  BY <1>1, <1>4, <1>10, CommitExtends
<1>12. History!Unseen(req[p])
  BY <1>3 DEF History!Unseen, HasID, SameID
<1>13. ~IsNoOp(acc[p].op)
  BY <1>2 DEF IsNoOp
<1>14. History!Submit(req[p])
  BY <1>2, <1>4, <1>5, <1>6, <1>7, <1>8, <1>9, <1>11, <1>12, <1>13 DEF History!Submit
<1> QED
  BY <1>2, <1>14 DEF History!Next

\* Every step of the nodes is one of VersionedDoc or none.
LEMMA StepRefines ==
  ASSUME ApplyYieldsContent, TransformYieldsOp, RefineInv, AllRebased, [Next]_vars, ~overrun'
  PROVE  History!Next \/ UNCHANGED History!absVars
<1>0. ~overrun
  BY OverrunStays
<1>1. CASE UNCHANGED <<snap, oplist, initial, life>>
  BY <1>1 DEF History!absVars, Documents, Whole
<1>2. CASE ~ UNCHANGED <<snap, oplist, initial, life>>
  <2>1. PICK p \in Procs : /\ Create(p) \/ CreateContent(p) \/ Delete(p) \/ Commit(p)
                           /\ overrun' = (overrun \/ p \in expired)
    BY <1>2, StoreStep
  <2>2. Holding(p)
    BY <2>1, WriterHolds
  <2> QED
    BY <1>0, <2>1, <2>2, CreateStutters, CreateRefines, DeleteRefines, CommitRefines
<1> QED
  BY <1>1, <1>2

\* Without a document there is no abstract one.
LEMMA RefinesInit == Init => History!Init
  BY DEF Init, History!Init, Documents, Whole, Absent

\* Several nodes on one Redis implement VersionedDoc: creations, submissions and
\* deletions take effect in one command each, for any nodes, requests and faults,
\* in the document's first life and until someone whose lock expired writes.
THEOREM ImplementsVersionedDocCorrect ==
  ASSUME ApplyYieldsContent, TransformYieldsOp PROVE Spec => ImplementsVersionedDoc
<1>1. RefineInv /\ FirstLifeInv /\ [Next]_vars
        => [FirstLife' => History!Next]_(History!absVars)
  <2> SUFFICES ASSUME RefineInv, FirstLifeInv, [Next]_vars, FirstLife'
               PROVE  History!Next \/ UNCHANGED History!absVars
    OBVIOUS
  <2>1. FirstLife /\ ~overrun'
    BY FirstLifeBefore DEF RefineInv
  <2> QED
    BY <2>1, StepRefines DEF FirstLifeInv
<1> QED
  BY <1>1, RefinesInit, RefineInvCorrect, FirstLifeInvCorrect, PTL
  DEF Spec, ImplementsVersionedDoc

\* They do so over deletions and new creations as long as no node's cache differs
\* from the list (parsedOpCache, DeleteDocument, CreateDocument).
THEOREM ImplementsWithRightCaches ==
  ASSUME ApplyYieldsContent, TransformYieldsOp
  PROVE  Spec /\ []RightCaches =>
           History!Init /\ [][~overrun' => History!Next]_(History!absVars)
<1> DEFINE RInv == ~overrun => AllRebased
<1>1. Init => RInv
  BY AllRebasedInit
<1>2. RefineInv /\ RInv /\ RightCaches /\ [Next]_vars => RInv'
  BY AllRebasedNext, OverrunStays DEF RightCaches, RefineInv
<1>3. RefineInv /\ RInv /\ [Next]_vars => [~overrun' => History!Next]_(History!absVars)
  BY StepRefines, OverrunStays
<1> HIDE DEF RInv
<1> QED
  BY <1>1, <1>2, <1>3, RefinesInit, RefineInvCorrect, PTL DEF Spec
-----------------------------------------------------------------------------
(***************************************************************************)
(* Two ways to run the server under which no condition is left: the TTL is *)
(* longer than any call takes, and documents are not deleted.              *)
(***************************************************************************)

\* Nobody's lock expires during a call whose TTL is longer, and nobody writes
\* under one that has (RedisLocker's ttl, Lock).
THEOREM NoOverrunUnderLongTTL == ASSUME ~EarlyExpiry PROVE Spec => []~overrun
<1> DEFINE Q == expired = {} /\ ~overrun
<1>1. Init => Q
  BY DEF Init
<1>2. TypeOK /\ Q /\ [Next]_vars => Q'
  <2> SUFFICES ASSUME TypeOK, Q, [Next]_vars PROVE Q'
    OBVIOUS
  <2>1. CASE Expire
    BY <2>1 DEF Expire, MayExpire, Orphaned, storeVars
  <2>2. CASE ~Expire
    <3>1. expired' \subseteq expired
      BY <2>2 DEF Next, Step, Call, CommandFails, Lock, GiveUp, Unlock, GetSnapshot,
         ReadForDelete, ReadForSubmit, Dedup, Since, Announce, Crash, Subscribe, Cancel,
         Listen, Receive, Terminated, vars, lockVars, Create, CreateContent, Delete, Commit
    <3>2. UNCHANGED overrun \/ \E p \in Procs : Overruns(p)
      BY <2>2 DEF Next, Step, Call, CommandFails, Lock, GiveUp, Unlock, GetSnapshot,
         ReadForDelete, ReadForSubmit, Dedup, Since, Announce, Crash, Subscribe, Cancel,
         Listen, Receive, Terminated, vars, storeVars, Create, CreateContent, Delete, Commit
    <3>3. ~overrun'
      BY <3>2, Zenon DEF Overruns
    <3>4. expired' = {}
      BY <3>1
    <3> QED
      BY <3>3, <3>4
  <2> QED
    BY <2>1, <2>2
<1> HIDE DEF Q
<1>3. Q => ~overrun
  BY DEF Q
<1> QED
  BY <1>1, <1>2, <1>3, TypeCorrect, PTL DEF Spec

\* Nobody calls DeleteDocument.
NoDeletes == \A r \in Requests : r.kind # "delete"

MadeOnce == life = 0 \/ (life = 1 /\ snap.version # Nil)

\* Then a document that has been created stays.
LEMMA MadeOnceNext ==
  ASSUME NoDeletes, RefineInv, MadeOnce, [Next]_vars PROVE MadeOnce'
<1> USE DEF RefineInv, Inv
<1>1. CASE UNCHANGED <<snap, oplist, initial, life>>
  BY <1>1 DEF MadeOnce
<1>2. CASE ~ UNCHANGED <<snap, oplist, initial, life>>
  <2>1. PICK p \in Procs : Create(p) \/ CreateContent(p) \/ Delete(p) \/ Commit(p)
    BY <1>2, StoreStep
  <2>2. CASE Create(p)
    <3>1. snap.version = Nil /\ snap'.version = 0 /\ life' = life + 1 /\ 0 # Nil
      BY <1>2, <2>2, ConstantAssumption DEF Create, storeVars
    <3> QED
      BY <3>1 DEF MadeOnce
  <2>3. CASE CreateContent(p)
    BY <2>3 DEF CreateContent, MadeOnce
  <2>4. CASE Delete(p)
    <3>1. req[p] \in Requests /\ req[p].kind = "delete"
      BY <2>4, LabelsByKind DEF Delete, Prepared, TypeOK, ControlOK, Kind, Kinds
    <3> QED
      BY <3>1 DEF NoDeletes
  <2>5. CASE Commit(p)
    <3>1. snap'.version = rec[p].version + 1 /\ UNCHANGED life
      BY <1>2, <2>5 DEF Commit, CommitOp, Entry
    <3>2. snap'.version # Nil
      BY <3>1, ConstantAssumption DEF TypeOK, LocalsOK
    <3> QED
      BY <1>2, <2>5, <3>1, <3>2 DEF Commit, CommitOp, MadeOnce
  <2> QED
    BY <2>1, <2>2, <2>3, <2>4, <2>5
<1> QED
  BY <1>1, <1>2

\* With both, several nodes are VersionedDoc without any condition on the run:
\* no crash, lost reply or failed command and no order of calls on any number of
\* nodes shows (submitCore, CreateDoc, CommitOp, RedisLocker).
THEOREM NodesImplementVersionedDoc ==
  ASSUME ApplyYieldsContent, TransformYieldsOp, NoDeletes, ~EarlyExpiry
  PROVE  Spec => History!Spec
<1>1. Init => MadeOnce
  BY DEF Init, MadeOnce
<1>2. RefineInv /\ MadeOnce /\ [Next]_vars => MadeOnce'
  BY MadeOnceNext
<1>3. MadeOnce' /\ ~overrun' => FirstLife'
  BY DEF MadeOnce, FirstLife
<1>4. Spec => []MadeOnce
  BY <1>1, <1>2, RefineInvCorrect, PTL DEF Spec
<1> QED
  BY <1>3, <1>4, ImplementsVersionedDocCorrect, NoOverrunUnderLongTTL, PTL
  DEF ImplementsVersionedDoc, History!Spec
=============================================================================
