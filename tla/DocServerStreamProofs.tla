------------------------ MODULE DocServerStreamProofs -----------------------
(***************************************************************************)
(* What subscribers are told, for every value of the constants of          *)
(* DocServer: StreamInOrder and StreamUpToDate.                            *)
(***************************************************************************)
EXTENDS DocServerProofs

\* The absence of a document, which memDoc's map tells by a missing entry, is not
\* a document.
NoDocIsNoRecord == \A v, d, o : NoDoc # [version |-> v, doc |-> d, ops |-> o]

-----------------------------------------------------------------------------
(***************************************************************************)
(* Neither property is inductive alone.  Both speak of what a subscription *)
(* was sent; a step that publishes sends what a call wrote some steps      *)
(* before.  Latest relates the two: the last event is that of the stored   *)
(* record, or, while a call has written what it did not publish yet, that  *)
(* of the record before.  A subscription that missed events has no such    *)
(* last event; that its last one is not from the future, Past, is what     *)
(* keeps its events in order.                                              *)
(***************************************************************************)

\* A call between its write and its publication, and what it wrote.
Pending(p) ==
  \/ Kind(p) \in {"submit", "rollback"} /\ pc[p] \in {"store", "publish"}
  \/ Kind(p) = "delete" /\ pc[p] \in {"clear", "publish"}
Written(p) ==
  IF Kind(p) = "delete" THEN stored = NoDoc
  ELSE /\ stored # NoDoc /\ stored.version = rec[p].version + 1
       /\ stored.ops[stored.version].op = acc[p].op

\* A deletion is about to remove the record it has read.
Erasing(p) == pc[p] = "delete" => stored # NoDoc /\ rec[p].version = stored.version

Writes == \A p \in Procs : (Pending(p) => Written(p)) /\ Erasing(p)

\* The event tells of the stored record; of a record of version v.
CaughtUp(e) ==
  IF stored = NoDoc THEN e.type = "delete"
  ELSE IF e.type = "delete" THEN stored.version = 0
  ELSE e = [type |-> "op", life |-> life, version |-> stored.version,
            op |-> stored.ops[stored.version].op]
UpTo(e, v) == IF e.type = "delete" THEN v = 0 ELSE e.type = "op" /\ e.version = v

Latest(e) ==
  /\ \A p \in Procs : Pending(p) => UpTo(e, rec[p].version)
  /\ (\A p \in Procs : ~Pending(p)) => CaughtUp(e)

\* The event tells of nothing newer than the stored record, and what a call is
\* about to publish comes after it.
Past(e) ==
  /\ e.life \in Nat /\ e.version \in Nat
  /\ e.life <= life
  /\ e.life = life /\ stored # NoDoc => e.type = "op" /\ e.version <= stored.version
  /\ \A p \in Procs : Pending(p) => After(e, Event(p))

Ordered(x) == \A i \in 1..(Len(x) - 1) : After(x[i], x[i + 1])
Linked(x) == \A i \in 1..(Len(x) - 1) : Follows(x[i], x[i + 1])
Last(x) == x[Len(x)]

StreamOK(s) ==
  /\ sub[s] \in {"off", "checked"} => got[s] = <<>> /\ ch[s] = <<>>
  /\ Ordered(Stream(s))
  /\ Stream(s) # <<>> => Past(Last(Stream(s)))
  /\ ~lost[s] => Linked(Stream(s))
  /\ Listening(s) /\ ~lost[s] /\ Stream(s) # <<>> => Latest(Last(Stream(s)))

StreamInv == Inv /\ Writes /\ \A s \in Subs : StreamOK(s)

\* A server nobody has called has told nobody anything.
LEMMA StreamInit == Init => StreamInv
<1>1. Init => Inv
  BY InvInit
<1>2. Init => Writes
  BY DEF Init, Writes, Pending, Erasing, Kind
<1>3. ASSUME Init, NEW s \in Subs PROVE StreamOK(s)
  <2>1. Stream(s) = <<>>
    BY <1>3 DEF Init, Stream
  <2> QED
    BY <1>3, <2>1 DEF Init, StreamOK, Linked, Ordered
<1> QED
  BY <1>1, <1>2, <1>3 DEF StreamInv

-----------------------------------------------------------------------------
(* Whose variables a step changes *)

\* A goroutine changes no variable of another one.
Others(p) ==
  \A q \in Procs : q # p =>
    /\ pc'[q] = pc[q] /\ req'[q] = req[q]
    /\ rec'[q] = rec[q] /\ ops'[q] = ops[q] /\ acc'[q] = acc[q]

\* Every step of a goroutine is its own affair, shared state aside.
LEMMA StepFrame ==
  ASSUME TypeOK, NEW p \in Procs, Call(p) \/ Lock(p) \/ Step(p)
  PROVE  Others(p)
<1> USE DEF TypeOK, ControlOK, LocalsOK, Others, Goto, Fail, Return, localVars
<1>1. CASE Call(p) \/ Lock(p) \/ Unlock(p) \/ Create(p)
  BY <1>1 DEF Call, Lock, Unlock, Create
<1>2. CASE ReadForDelete(p) \/ Delete(p) \/ Clear(p) \/ ReadForSubmit(p)
  BY <1>2 DEF ReadForDelete, Delete, Clear, ReadForSubmit
<1>3. CASE Dedup(p) \/ Parse(p) \/ ReadForRollback(p) \/ ReadForSnapshot(p)
  BY <1>3 DEF Dedup, Parse, ReadForRollback, ReadForSnapshot
<1>4. CASE CheckRange(p) \/ FetchRange(p)
  BY <1>4 DEF CheckRange, FetchRange
<1>5. CASE Hit(p) \/ Miss(p) \/ Fill(p)
  BY <1>5 DEF Hit, Miss, Fill, Absorb
<1>6. CASE Finish(p)
  BY <1>6, FinishFacts DEF Finish
<1>7. CASE Commit(p) \/ CacheCommitted(p) \/ Announce(p)
  BY <1>7 DEF Commit, CacheCommitted, Announce
<1> QED
  BY <1>1, <1>2, <1>3, <1>4, <1>5, <1>6, <1>7 DEF Step

\* A call that has written holds the lock.
LEMMA PendingAlone ==
  ASSUME HoldsLock, NEW p \in Procs, Pending(p) \/ pc[p] = "delete" \/ pc[p] = "commit",
         ControlOK
  PROVE  Critical(p) /\ \A q \in Procs : Pending(q) \/ pc[q] = "delete" => q = p
<1>1. ASSUME NEW q \in Procs, Pending(q) \/ pc[q] = "delete" \/ pc[q] = "commit"
      PROVE  Critical(q)
  BY <1>1, LabelsByKind DEF Pending, Critical, Locking, ControlOK, Kinds
<1> QED
  BY <1>1, OneCritical

\* Only creations, deletions, commits and publications bear on what subscribers
\* are told.
Ordinary(p) ==
  \/ Call(p) \/ Lock(p) \/ Unlock(p) \/ ReadForDelete(p) \/ Clear(p)
  \/ ReadForSubmit(p) \/ Dedup(p) \/ Parse(p)
  \/ ReadForRollback(p) \/ ReadForSnapshot(p) \/ CheckRange(p) \/ FetchRange(p)
  \/ Hit(p) \/ Miss(p) \/ Fill(p) \/ Finish(p) \/ CacheCommitted(p)

\* A step that writes nothing and publishes nothing leaves unpublished what was.
LEMMA OrdinaryStep ==
  ASSUME TypeOK, NEW p \in Procs, Ordinary(p)
  PROVE  /\ UNCHANGED <<stored, life>> /\ UNCHANGED pubVars
         /\ Pending(p)' <=> Pending(p)
         /\ Pending(p) => UNCHANGED <<rec, acc, req>>
         /\ pc'[p] = "delete" => stored # NoDoc /\ rec'[p].version = stored.version
<1> USE DEF TypeOK, ControlOK, LocalsOK, Goto, Fail, Return, localVars, backendVars,
            Pending, Kind, Kinds
<1> USE LabelsByKind
<1>1. CASE Call(p)
  BY <1>1, RequestAssumption DEF Call, Locking
<1>2. CASE Lock(p) \/ Unlock(p)
  BY <1>2 DEF Lock, Unlock
<1>3. CASE ReadForDelete(p)
  BY <1>3 DEF ReadForDelete, Snapshot, Locking
<1>4. CASE Clear(p) \/ CacheCommitted(p)
  BY <1>4 DEF Clear, CacheCommitted
<1>5. CASE ReadForSubmit(p)
  BY <1>5 DEF ReadForSubmit, Locking
<1>6. CASE ReadForRollback(p) \/ ReadForSnapshot(p)
  BY <1>6 DEF ReadForRollback, ReadForSnapshot, Locking
<1>7. CASE Dedup(p) \/ Parse(p)
  BY <1>7 DEF Dedup, Parse, Locking
<1>8. CASE CheckRange(p) \/ FetchRange(p)
  BY <1>8 DEF CheckRange, FetchRange, Locking
<1>9. CASE Hit(p) \/ Miss(p) \/ Fill(p)
  BY <1>9 DEF Hit, Miss, Fill, Absorb, Locking
<1>10. CASE Finish(p)
  BY <1>10, FinishFacts DEF Finish, Locking
<1> QED
  BY <1>1, <1>2, <1>3, <1>4, <1>5, <1>6, <1>7, <1>8, <1>9, <1>10 DEF Ordinary

-----------------------------------------------------------------------------
(* Writes is preserved *)

\* While one call is past Lock, no other has anything to publish or to delete.
LEMMA CriticalStep ==
  ASSUME HoldsLock, ControlOK, NEW p \in Procs, Critical(p), Others(p)
  PROVE  \A q \in Procs : q # p =>
           /\ ~Pending(q) /\ ~Pending(q)' /\ pc[q] # "delete" /\ pc'[q] # "delete"
<1> SUFFICES ASSUME NEW q \in Procs, q # p
             PROVE  ~Pending(q) /\ ~Pending(q)' /\ pc[q] # "delete" /\ pc'[q] # "delete"
  OBVIOUS
<1>1. ~Critical(q)
  BY OneCritical
<1>2. ~Pending(q) /\ pc[q] # "delete"
  BY <1>1, PendingAlone
<1> QED
  BY <1>2 DEF Others, Pending, Kind

\* A step other than Ordinary is one of a call that holds the lock.
LEMMA WritingStep ==
  ASSUME Inv, NEW p \in Procs, Create(p) \/ Delete(p) \/ Commit(p) \/ Announce(p)
  PROVE  \A q \in Procs : q # p =>
           /\ ~Pending(q) /\ ~Pending(q)' /\ pc[q] # "delete" /\ pc'[q] # "delete"
<1>1. Critical(p)
  BY LabelsByKind
  DEF Create, Delete, Commit, Announce, Critical, Locking, Kinds, Inv, TypeOK, ControlOK
<1>2. Others(p)
  BY StepFrame DEF Step, Inv
<1> QED
  BY <1>1, <1>2, CriticalStep DEF Inv, LockedView, TypeOK

\* A creation publishes nothing.
LEMMA WritesCreate ==
  ASSUME Inv, NEW p \in Procs, Create(p)
  PROVE  ~Pending(p) /\ ~Pending(p)' /\ pc'[p] # "delete"
  BY LabelsByKind
  DEF Create, Fail, Return, Pending, Kind, Kinds, Locking, Inv, TypeOK, ControlOK

\* A deletion has yet to publish that of the version it erased.
LEMMA WritesDelete ==
  ASSUME Inv, Writes, NEW p \in Procs, Delete(p)
  PROVE  /\ ~Pending(p) /\ pc'[p] # "delete" /\ UNCHANGED pubVars
         /\ Pending(p)' => Written(p)'
         /\ stored # NoDoc /\ rec'[p].version = rec[p].version
         /\ rec[p].version = stored.version /\ stored' = NoDoc /\ UNCHANGED life
<1>1. Kind(p) = "delete" /\ pc[p] = "delete" /\ stored # NoDoc
      /\ rec[p].version = stored.version
  BY LabelsByKind DEF Delete, Writes, Erasing, Kinds, Inv, TypeOK, ControlOK
<1>2. stored' = NoDoc /\ pc' = [pc EXCEPT ![p] = "clear"] /\ UNCHANGED <<req, rec, life, pubVars>>
  BY <1>1 DEF Delete, DeleteDoc, Goto, localVars
<1> QED
  BY <1>1, <1>2 DEF Pending, Written, Kind, Inv, TypeOK, ControlOK

\* A commit has yet to publish the record it appended.
LEMMA WritesCommit ==
  ASSUME NoDocIsNoRecord, Inv, NEW p \in Procs, Commit(p)
  PROVE  /\ ~Pending(p) /\ pc'[p] # "delete" /\ UNCHANGED pubVars
         /\ Pending(p)' => Written(p)'
         /\ stored # NoDoc /\ rec'[p].version = rec[p].version
         /\ rec[p].version = stored.version
         /\ stored'.version = stored.version + 1 /\ UNCHANGED life
<1>1. Kind(p) \in {"submit", "rollback"} /\ pc[p] = "commit"
  BY LabelsByKind DEF Commit, Kinds, Inv, TypeOK, ControlOK
<1>2. stored # NoDoc /\ rec[p].version = stored.version /\ stored.version = Len(stored.ops)
      /\ IsSeq(stored.ops)
  BY <1>1 DEF ViewIsCurrent, Deciding, LockedView, LogMatchesVersion, StoredOK, TypeOK, Inv
<1>3. /\ pc' = [pc EXCEPT ![p] = "store"] /\ UNCHANGED <<req, rec, acc, life, pubVars>>
      /\ stored'.ops = Append(stored.ops, Entry(p)) /\ stored'.version = Entry(p).version
      /\ stored' = [version |-> Entry(p).version, doc |-> acc[p].doc,
                    ops |-> Append(stored.ops, Entry(p))]
  BY <1>2 DEF Commit, CommitOp, Goto, localVars
<1>4. stored'.ops[Len(stored.ops) + 1] = Entry(p)
  BY <1>2, <1>3, AppendFacts
<1>5. Entry(p).version = rec[p].version + 1 /\ Entry(p).op = acc[p].op
  BY DEF Entry
<1>6. stored' # NoDoc
  BY <1>3 DEF NoDocIsNoRecord
<1>7. stored'.version \in Nat /\ stored'.version = Len(stored.ops) + 1
  BY <1>2, <1>3, <1>5, IsSeqFacts
<1> HIDE DEF NoDocIsNoRecord
<1>8. stored'.ops[stored'.version].op = acc'[p].op /\ stored'.version = rec'[p].version + 1
  BY <1>2, <1>3, <1>4, <1>5, <1>7
<1> QED
  BY <1>1, <1>2, <1>3, <1>5, <1>6, <1>8 DEF Pending, Written, Kind, Inv, TypeOK, ControlOK

\* A publication is the last thing a call does before its deferred unlock.
LEMMA WritesAnnounce ==
  ASSUME Inv, NEW p \in Procs, Announce(p)
  PROVE  /\ Pending(p) /\ ~Pending(p)' /\ pc'[p] # "delete"
         /\ Publish(Event(p)) /\ UNCHANGED <<stored, life>>
<1>1. Kind(p) \in {"submit", "rollback", "delete"} /\ pc[p] = "publish"
  BY LabelsByKind DEF Announce, Kinds, Inv, TypeOK, ControlOK
<1>2. pc' = [pc EXCEPT ![p] = "unlock"] /\ UNCHANGED <<req, stored, life>>
  BY <1>1 DEF Announce, Return, Locking, backendVars
<1> QED
  BY <1>1, <1>2 DEF Announce, Pending, Kind, Inv, TypeOK, ControlOK

\* What a call has written and not yet published, nobody overwrites.
LEMMA WritesNext == ASSUME NoDocIsNoRecord, Inv, Writes, [Next]_vars PROVE Writes'
<1>1. CASE UNCHANGED <<stored, pc, req, rec, acc>>
  BY <1>1 DEF Writes, Pending, Written, Erasing, Kind
<1>2. ASSUME NEW p \in Procs, Ordinary(p) PROVE Writes'
  <2>1. Others(p)
    BY <1>2, StepFrame DEF Ordinary, Step, Inv
  <2>2. /\ UNCHANGED stored
        /\ Pending(p)' <=> Pending(p)
        /\ Pending(p) => UNCHANGED <<rec, acc, req>>
        /\ pc'[p] = "delete" => stored # NoDoc /\ rec'[p].version = stored.version
    BY <1>2, OrdinaryStep DEF Inv
  <2>3. ASSUME NEW q \in Procs, q # p PROVE (Pending(q)' => Written(q)') /\ Erasing(q)'
    BY <2>1, <2>2, <2>3 DEF Others, Writes, Pending, Written, Erasing, Kind
  <2>4. (Pending(p)' => Written(p)') /\ Erasing(p)'
    BY <2>2 DEF Writes, Written, Erasing, Kind
  <2> QED
    BY <2>3, <2>4 DEF Writes
<1>3. ASSUME NEW p \in Procs, Create(p) \/ Delete(p) \/ Commit(p) \/ Announce(p)
      PROVE  Writes'
  <2>1. ASSUME NEW q \in Procs, q # p PROVE (Pending(q)' => Written(q)') /\ Erasing(q)'
    BY <1>3, <2>1, WritingStep DEF Erasing
  <2>2. (Pending(p)' => Written(p)') /\ Erasing(p)'
    BY <1>3, WritesCreate, WritesDelete, WritesCommit, WritesAnnounce DEF Erasing
  <2> QED
    BY <2>1, <2>2 DEF Writes
<1>4. ASSUME NEW s \in Subs, SubscriberStep(s) PROVE UNCHANGED <<stored, pc, req, rec, acc>>
  BY <1>4 DEF SubscriberStep, SubscribeCheck, Subscribe, Cancel, Receive, backendVars,
              localVars
<1> QED
  BY <1>1, <1>2, <1>3, <1>4 DEF Next, Step, Ordinary, Terminated, vars

-----------------------------------------------------------------------------
(* Latest is preserved *)

\* The last event stays the latest while nobody publishes.
LEMMA LatestStays ==
  ASSUME NoDocIsNoRecord, Inv, Writes, NEW p \in Procs, NEW e, Latest(e),
         Ordinary(p) \/ Create(p) \/ Delete(p) \/ Commit(p)
  PROVE  Latest(e)'
<1>1. CASE Ordinary(p)
  <2>1. Others(p)
    BY <1>1, StepFrame DEF Ordinary, Step, Inv
  <2>2. /\ UNCHANGED <<stored, life>>
        /\ Pending(p)' <=> Pending(p)
        /\ Pending(p) => UNCHANGED <<rec, acc, req>>
    BY <1>1, OrdinaryStep DEF Inv
  <2>3. ASSUME NEW q \in Procs
        PROVE  (Pending(q)' <=> Pending(q)) /\ (Pending(q) => rec'[q] = rec[q])
    BY <2>1, <2>2 DEF Others, Pending, Kind
  <2> QED
    BY <2>2, <2>3 DEF Latest, CaughtUp, UpTo
<1>2. CASE Create(p) \/ Delete(p) \/ Commit(p)
  <2>1. \A q \in Procs : q # p => ~Pending(q) /\ ~Pending(q)'
    BY <1>2, WritingStep
  <2>2. ~Pending(p)
    BY <1>2, WritesCreate, WritesDelete, WritesCommit
  <2>3. CaughtUp(e)
    BY <2>1, <2>2 DEF Latest
  <2>4. CASE Create(p)
    <3>1. ~Pending(p)'
      BY <2>4, WritesCreate
    <3>2. \/ UNCHANGED <<stored, life>>
          \/ stored = NoDoc /\ stored'.version = 0
      BY <2>4 DEF Create, CreateDoc, backendVars
    <3>3. CaughtUp(e)'
      BY <2>3, <3>2 DEF CaughtUp
    <3> QED
      BY <2>1, <3>1, <3>3 DEF Latest
  <2>5. CASE Delete(p) \/ Commit(p)
    <3>1. /\ stored # NoDoc /\ rec'[p].version = rec[p].version
          /\ rec[p].version = stored.version
      BY <2>5, WritesDelete, WritesCommit
    <3>2. UpTo(e, rec'[p].version)
      BY <2>3, <3>1 DEF CaughtUp, UpTo
    <3>3. Pending(p)'
      <4>1. CASE Delete(p)
        <5>1. Kind(p) = "delete"
          BY <4>1, LabelsByKind DEF Delete, Kinds, Inv, TypeOK, ControlOK
        <5> QED
          BY <3>1, <4>1, <5>1 DEF Delete, Goto, Pending, Kind, Inv, TypeOK, ControlOK
      <4>2. CASE Commit(p)
        <5>1. Kind(p) \in {"submit", "rollback"}
          BY <4>2, LabelsByKind DEF Commit, Kinds, Inv, TypeOK, ControlOK
        <5> QED
          BY <3>1, <4>2, <5>1 DEF Commit, Goto, Pending, Kind, Inv, TypeOK, ControlOK
      <4> QED
        BY <2>5, <4>1, <4>2
    <3> QED
      BY <2>1, <3>2, <3>3 DEF Latest
  <2> QED
    BY <1>2, <2>4, <2>5
<1> QED
  BY <1>1, <1>2

\* What is published next follows the latest event, and becomes the latest.
LEMMA LatestPublished ==
  ASSUME Inv, Writes, NEW p \in Procs, Announce(p)
  PROVE  /\ \A e : Latest(e) => Follows(e, Event(p))
         /\ \A f : f = Event(p) => Latest(f)'
<1>1. Pending(p) /\ ~Pending(p)' /\ UNCHANGED <<stored, life>>
  BY WritesAnnounce
<1>2. \A q \in Procs : ~Pending(q)'
  BY <1>1, WritingStep
<1>3. Written(p)
  BY <1>1 DEF Writes
<1>4. ASSUME NEW e, Latest(e) PROVE Follows(e, Event(p))
  <2>1. UpTo(e, rec[p].version) /\ rec[p].version \in Nat
    BY <1>1, <1>4 DEF Latest, Inv, TypeOK, LocalsOK
  <2> QED
    BY <2>1 DEF UpTo, Follows, Event
<1>5. ASSUME NEW f, f = Event(p) PROVE CaughtUp(f)'
  <2>1. CaughtUp(f)
    BY <1>3, <1>5 DEF CaughtUp, Written, Event
  <2> QED
    BY <1>1, <2>1 DEF CaughtUp
<1> QED
  BY <1>2, <1>4, <1>5 DEF Latest

-----------------------------------------------------------------------------
(* Past is preserved *)

\* What was published stays in the past while nobody publishes.
LEMMA SentStaysPast ==
  ASSUME NoDocIsNoRecord, Inv, Writes, NEW p \in Procs, NEW e, Past(e),
         Ordinary(p) \/ Create(p) \/ Delete(p) \/ Commit(p)
  PROVE  Past(e)'
<1> USE DEF Inv, TypeOK
<1>1. CASE Ordinary(p)
  <2>1. Others(p)
    BY <1>1, StepFrame DEF Ordinary, Step
  <2>2. /\ UNCHANGED <<stored, life>>
        /\ Pending(p)' <=> Pending(p)
        /\ Pending(p) => UNCHANGED <<rec, acc, req>>
    BY <1>1, OrdinaryStep
  <2>3. ASSUME NEW q \in Procs, Pending(q)' PROVE Pending(q) /\ Event(q)' = Event(q)
    BY <2>1, <2>2, <2>3 DEF Others, Pending, Event, Kind
  <2>4. ASSUME NEW q \in Procs, Pending(q)' PROVE After(e, Event(q)')
    BY <2>3, <2>4 DEF Past
  <2> QED
    BY <2>2, <2>4 DEF Past, After
<1>2. CASE Create(p) \/ Delete(p) \/ Commit(p)
  <2>1. \A q \in Procs : q # p => ~Pending(q)'
    BY <1>2, WritingStep
  <2>2. CASE Create(p)
    <3>1. ~Pending(p)'
      BY <2>2, WritesCreate
    <3>2. UNCHANGED <<stored, life>> \/ life' = life + 1
      BY <2>2 DEF Create, CreateDoc, backendVars
    <3> QED
      BY <2>1, <3>1, <3>2 DEF Past
  <2>3. CASE Delete(p)
    <3>1. /\ stored # NoDoc /\ rec'[p].version = rec[p].version
          /\ rec[p].version = stored.version /\ stored' = NoDoc /\ UNCHANGED life
      BY <2>3, WritesDelete
    <3>2. Kind(p)' = "delete"
      BY <2>3, LabelsByKind DEF Delete, Kind, Kinds, ControlOK
    <3>3. Event(p)'.life = life /\ Event(p)'.version = stored.version
          /\ Event(p)'.type = "delete"
      BY <3>1, <3>2 DEF Event, Kind
    <3>4. After(e, Event(p))'
      BY <3>1, <3>3 DEF Past, After, StoredOK
    <3> QED
      BY <2>1, <3>1, <3>4 DEF Past
  <2>4. CASE Commit(p)
    <3>1. /\ stored # NoDoc /\ rec'[p].version = rec[p].version
          /\ rec[p].version = stored.version
          /\ stored'.version = stored.version + 1 /\ UNCHANGED life
      BY <2>4, WritesCommit
    <3>2. Kind(p)' # "delete"
      BY <2>4, LabelsByKind DEF Commit, Kind, Kinds, ControlOK
    <3>3. Event(p)'.life = life /\ Event(p)'.version = stored.version + 1
          /\ Event(p)'.type = "op"
      BY <3>1, <3>2 DEF Event, Kind
    <3>4. After(e, Event(p))'
      BY <3>1, <3>3 DEF Past, After, StoredOK
    <3> QED
      BY <2>1, <3>1, <3>4 DEF Past, StoredOK
  <2> QED
    BY <1>2, <2>2, <2>3, <2>4
<1> QED
  BY <1>1, <1>2

\* An event that is published comes after those of the past and joins them, which
\* stay there.
LEMMA PastPublished ==
  ASSUME Inv, Writes, NEW p \in Procs, Announce(p)
  PROVE  /\ \A e : Past(e) => After(e, Event(p)) /\ Past(e)'
         /\ \A f : f = Event(p) => Past(f)'
<1>1. Pending(p) /\ ~Pending(p)' /\ UNCHANGED <<stored, life>>
  BY WritesAnnounce
<1>2. \A q \in Procs : ~Pending(q)'
  BY <1>1, WritingStep
<1>3. Written(p)
  BY <1>1 DEF Writes
<1>4. ASSUME NEW e, Past(e) PROVE After(e, Event(p)) /\ Past(e)'
  BY <1>1, <1>2, <1>4 DEF Past
<1>5. ASSUME NEW f, f = Event(p) PROVE Past(f)'
  <2>1. f.life = life /\ life \in Nat /\ f.version \in Nat
    BY <1>5 DEF Event, Inv, TypeOK, LocalsOK
  <2>2. stored # NoDoc => f.type = "op" /\ f.version = stored.version
    BY <1>3, <1>5 DEF Event, Written
  <2> QED
    BY <1>1, <1>2, <2>1, <2>2 DEF Past
<1> QED
  BY <1>4, <1>5

-----------------------------------------------------------------------------
(* What each subscription was sent *)

\* The neighbours in a stream to which an event was added: those of before, and
\* the last one with the event.
LEMMA AppendedPairs ==
  ASSUME NEW x, IsSeq(x), NEW e, NEW i \in 1..(Len(Append(x, e)) - 1)
  PROVE  \/ /\ i \in 1..(Len(x) - 1)
            /\ Append(x, e)[i] = x[i] /\ Append(x, e)[i + 1] = x[i + 1]
         \/ /\ x # <<>>
            /\ Append(x, e)[i] = Last(x) /\ Append(x, e)[i + 1] = e
<1> DEFINE y == Append(x, e)
<1>1. /\ Len(x) \in Nat /\ DOMAIN x = 1..Len(x)
      /\ Len(y) = Len(x) + 1 /\ \A j \in DOMAIN x : y[j] = x[j]
      /\ y[Len(x) + 1] = e
  BY AppendFacts, IsSeqFacts
<1>2. Len(x) # 0 => x # <<>>
  BY EmptyIsSeq
<1> HIDE DEF y
<1>3. CASE i = Len(x)
  BY <1>1, <1>2, <1>3 DEF Last, y
<1>4. CASE i # Len(x)
  <2>1. PICK n \in Nat : n = Len(x) /\ Len(y) = n + 1 /\ DOMAIN x = 1..n
    BY <1>1
  <2>2. i \in 1..n
    BY <2>1 DEF y
  <2>3. i \in DOMAIN x /\ i + 1 \in DOMAIN x /\ i \in 1..(Len(x) - 1)
    BY <1>4, <2>1, <2>2
  <2> QED
    BY <1>1, <2>3 DEF y
<1> QED
  BY <1>3, <1>4

\* An event put at the end of a stream is its last one ...
LEMMA LastAppended ==
  ASSUME NEW x, IsSeq(x), NEW e
  PROVE  Last(Append(x, e)) = e /\ Append(x, e) # <<>>
<1>1. /\ Len(x) \in Nat /\ Len(Append(x, e)) = Len(x) + 1
      /\ Append(x, e)[Len(x) + 1] = e
  BY AppendFacts, IsSeqFacts
<1> QED
  BY <1>1, EmptyIsSeq DEF Last

\* ... and continues it, if it comes after or follows the last one there was.
LEMMA OrderedAppend ==
  ASSUME NEW x, IsSeq(x), Ordered(x), NEW e, x # <<>> => After(Last(x), e)
  PROVE  Ordered(Append(x, e))
  BY AppendedPairs DEF Ordered

LEMMA LinkedAppend ==
  ASSUME NEW x, IsSeq(x), Linked(x), NEW e, x # <<>> => Follows(Last(x), e)
  PROVE  Linked(Append(x, e))
  BY AppendedPairs DEF Linked

\* A publication ends every stream it reaches with the event, and is missed by
\* the subscriptions whose channel is full.
LEMMA StreamPublish ==
  ASSUME TypeOK, NEW e, Publish(e), NEW s \in Subs
  PROVE  /\ UNCHANGED <<sub, got>>
         /\ \/ UNCHANGED <<ch[s], lost[s]>> /\ ~Listening(s)
            \/ lost'[s] /\ UNCHANGED ch[s] /\ Listening(s)
            \/ Listening(s) /\ ch'[s] # <<>> /\ Stream(s)' = Append(Stream(s), e) /\ UNCHANGED lost[s]
<1>1. /\ ch' = [t \in Subs |-> IF Listening(t) /\ Len(ch[t]) < Buffer
                               THEN Append(ch[t], e) ELSE ch[t]]
      /\ lost' = [t \in Subs |-> lost[t] \/ (Listening(t) /\ Len(ch[t]) >= Buffer)]
      /\ UNCHANGED <<sub, got>>
  BY DEF Publish
<1>2. IsSeq(ch[s]) /\ IsSeq(got[s]) /\ Len(ch[s]) \in Nat /\ lost[s] \in BOOLEAN /\ Buffer \in Nat
  BY IsSeqFacts, BoundsAssumption DEF TypeOK, SubscribersOK
<1>3. CASE ~Listening(s)
  <2>1. ch'[s] = ch[s]
    BY <1>1, <1>3
  <2>2. lost'[s] = (lost[s] \/ FALSE)
    BY <1>1, <1>3
  <2>3. lost'[s] = lost[s]
    BY <1>2, <2>2
  <2> QED
    BY <1>1, <1>3, <2>1, <2>3
<1>4. CASE Listening(s) /\ Len(ch[s]) >= Buffer
  <2>1. lost'[s]
    BY <1>1, <1>4
  <2>2. ~(Len(ch[s]) < Buffer)
    BY <1>2, <1>4
  <2>3. ch'[s] = ch[s]
    BY <1>1, <2>2
  <2> QED
    BY <1>1, <1>4, <2>1, <2>3
<1>5. CASE Listening(s) /\ Len(ch[s]) < Buffer
  <2>1. ch'[s] = Append(ch[s], e)
    BY <1>1, <1>5
  <2>2. Stream(s)' = Append(Stream(s), e)
    <3>1. \A a, b : IsSeq(a) /\ IsSeq(b) => a \o Append(b, e) = Append(a \o b, e)
      BY ConcatAppend, SMT
    <3>3. got[s] \o Append(ch[s], e) = Append(got[s] \o ch[s], e)
      BY <1>2, <3>1, Zenon
    <3>2. Stream(s)' = got[s] \o Append(ch[s], e)
      BY <1>1, <2>1 DEF Stream
    <3> QED
      BY <3>2, <3>3 DEF Stream
  <2>3. ~(Len(ch[s]) >= Buffer)
    BY <1>2, <1>5
  <2>4. lost'[s] = (lost[s] \/ FALSE)
    BY <1>1, <1>5, <2>3
  <2>5. lost'[s] = lost[s]
    BY <1>2, <2>4
  <2>6. ch'[s] # <<>>
    BY <1>2, <2>1, AppendFacts, EmptyIsSeq
  <2> QED
    BY <1>1, <1>5, <2>2, <2>5, <2>6
<1> QED
  BY <1>2, <1>3, <1>4, <1>5

\* What a subscriber does itself changes nothing of what it was sent.
LEMMA StreamSubscriber ==
  ASSUME TypeOK, NEW s \in Subs, SubscriberStep(s), NEW t \in Subs,
         sub[t] \in {"off", "checked"} => got[t] = <<>> /\ ch[t] = <<>>
  PROVE  /\ UNCHANGED <<stored, life, pc, req, rec, acc, lost>>
         /\ Stream(t)' = Stream(t)
         /\ sub'[t] \in {"off", "checked"} =>
              sub[t] \in {"off", "checked"} /\ UNCHANGED <<got[t], ch[t]>>
         /\ Listening(t)' => Listening(t) \/ Stream(t) = <<>>
<1> USE DEF TypeOK, SubscribersOK
<1>1. UNCHANGED <<stored, life, pc, req, rec, acc, lost>>
  BY DEF SubscriberStep, SubscribeCheck, Subscribe, Cancel, Receive, backendVars,
         localVars
<1>2. CASE SubscribeCheck(s) \/ Subscribe(s) \/ Cancel(s)
  <2>1. UNCHANGED <<got, ch>>
    BY <1>2 DEF SubscribeCheck, Subscribe, Cancel
  <2>2. Stream(t)' = Stream(t)
    BY <2>1 DEF Stream
  <2>3. sub'[t] \in {"off", "checked"} => sub[t] \in {"off", "checked"}
    BY <1>2 DEF SubscribeCheck, Subscribe, Cancel
  <2>4. ASSUME Listening(t)' PROVE Listening(t) \/ Stream(t) = <<>>
    <3>1. Listening(t) \/ sub[t] = "checked"
      BY <1>2, <2>4 DEF SubscribeCheck, Subscribe, Cancel, Listening
    <3>2. CASE sub[t] = "checked"
      BY <3>2 DEF Stream
    <3> QED
      BY <3>1, <3>2
  <2> QED
    BY <1>1, <2>1, <2>2, <2>3, <2>4
<1>3. CASE Receive(s)
  <2>1. ch[s] # <<>> /\ UNCHANGED sub
        /\ got' = [got EXCEPT ![s] = Append(got[s], Head(ch[s]))]
        /\ ch' = [ch EXCEPT ![s] = Tail(ch[s])]
    BY <1>3 DEF Receive
  <2>2. Stream(t)' = Stream(t)
    <3>1. CASE t = s
      <4>1. Append(got[s], Head(ch[s])) \o Tail(ch[s]) = got[s] \o ch[s]
        BY <2>1, ConcatMove
      <4> QED
        BY <2>1, <3>1, <4>1 DEF Stream
    <3>2. CASE t # s
      BY <2>1, <3>2 DEF Stream
    <3> QED
      BY <3>1, <3>2
  <2>3. sub[t] \in {"off", "checked"} => t # s
    BY <2>1
  <2>4. (Listening(t)' => Listening(t)) /\ (sub'[t] \in {"off", "checked"} => t # s)
    BY <2>1, <2>3 DEF Listening
  <2>5. t # s => UNCHANGED <<got[t], ch[t]>>
    BY <2>1
  <2> QED
    BY <1>1, <2>1, <2>2, <2>4, <2>5
<1> QED
  BY <1>2, <1>3 DEF SubscriberStep

\* Steps that publish nothing send nothing.
LEMMA SilentStep ==
  ASSUME Inv, Writes, NEW p \in Procs, Ordinary(p) \/ Create(p) \/ Delete(p) \/ Commit(p)
  PROVE  UNCHANGED pubVars
<1>1. CASE Ordinary(p)
  BY <1>1, OrdinaryStep DEF Inv
<1>2. CASE Create(p)
  BY <1>2 DEF Create
<1>3. CASE Delete(p) \/ Commit(p)
  BY <1>3 DEF Delete, Commit
<1> QED
  BY <1>1, <1>2, <1>3

\* Every step keeps every subscription's stream in order, linked and up to date.
LEMMA StreamNext ==
  ASSUME NoDocIsNoRecord, StreamInv, [Next]_vars, NEW t \in Subs
  PROVE  StreamOK(t)'
<1> USE DEF StreamInv
<1>1. CASE UNCHANGED vars
  BY <1>1 DEF vars, StreamOK, Stream, Listening, Latest, Past, Pending, CaughtUp, Kind, Event
<1>2. PICK x : x = Stream(t)
  OBVIOUS
<1>3. PICK l : l = Last(x)
  OBVIOUS
<1>4. /\ Ordered(x) /\ (x # <<>> => Past(l)) /\ (~lost[t] => Linked(x))
      /\ Listening(t) /\ ~lost[t] /\ x # <<>> => Latest(l)
      /\ sub[t] \in {"off", "checked"} => got[t] = <<>> /\ ch[t] = <<>>
  BY <1>2, <1>3 DEF StreamOK
<1>5. ASSUME Stream(t)' = x, UNCHANGED lost, Past(l) => Past(l)', Latest(l) => Latest(l)',
             Listening(t)' => Listening(t) \/ x = <<>>,
             sub'[t] \in {"off", "checked"} => got'[t] = <<>> /\ ch'[t] = <<>>
      PROVE  StreamOK(t)'
  <2>1. Last(Stream(t))' = l
    BY <1>3, <1>5 DEF Last
  <2>2. Ordered(Stream(t))' /\ (~lost'[t] => Linked(Stream(t))')
    BY <1>4, <1>5 DEF Ordered, Linked
  <2>3. x # <<>> => Past(l)'
    BY <1>4, <1>5
  <2>4. Listening(t)' /\ ~lost'[t] /\ x # <<>> => Latest(l)'
    BY <1>4, <1>5
  <2> QED
    BY <1>5, <2>1, <2>2, <2>3, <2>4 DEF StreamOK
<1>6. ASSUME NEW p \in Procs, Ordinary(p) \/ Create(p) \/ Delete(p) \/ Commit(p)
      PROVE  StreamOK(t)'
  <2>1. UNCHANGED <<sub, ch, got, lost>>
    BY <1>6, SilentStep DEF pubVars
  <2>2. Stream(t)' = x /\ (Listening(t)' <=> Listening(t))
    BY <1>2, <2>1 DEF Stream, Listening
  <2>3. (Past(l) => Past(l)') /\ (Latest(l) => Latest(l)')
    BY <1>6, LatestStays, SentStaysPast
  <2> QED
    BY <1>4, <1>5, <2>1, <2>2, <2>3
<1>7. ASSUME NEW p \in Procs, Announce(p) PROVE StreamOK(t)'
  <2>1. PICK e : e = Event(p)
    OBVIOUS
  <2>2. /\ Publish(e) /\ Latest(e)' /\ (Latest(l) => Follows(l, e))
        /\ Past(e)' /\ (Past(l) => Past(l)' /\ After(l, e))
    BY <1>7, <2>1, WritesAnnounce, LatestPublished, PastPublished
  <2>3. /\ UNCHANGED <<sub, got>>
        /\ \/ UNCHANGED <<ch[t], lost[t]>> /\ ~Listening(t)
           \/ lost'[t] /\ UNCHANGED ch[t] /\ Listening(t)
           \/ /\ Listening(t) /\ ch'[t] # <<>> /\ UNCHANGED lost[t]
              /\ Stream(t)' = Append(x, e)
    BY <1>2, <2>2, StreamPublish DEF Inv
  <2>4. CASE UNCHANGED <<ch[t], lost[t]>> /\ ~Listening(t)
    <3>1. Stream(t)' = x /\ ~Listening(t)' /\ Last(Stream(t))' = l
      BY <1>2, <1>3, <2>3, <2>4 DEF Stream, Listening, Last
    <3> QED
      BY <1>4, <2>2, <2>3, <2>4, <3>1 DEF StreamOK, Ordered, Linked
  <2>5. CASE lost'[t] /\ UNCHANGED ch[t] /\ Listening(t)
    <3>1. Stream(t)' = x /\ Last(Stream(t))' = l
      BY <1>2, <1>3, <2>3, <2>5 DEF Stream, Last
    <3>2. ~(sub'[t] \in {"off", "checked"})
      BY <2>3, <2>5 DEF Listening
    <3> QED
      BY <1>4, <2>2, <2>5, <3>1, <3>2 DEF StreamOK, Ordered
  <2>6. CASE /\ Listening(t) /\ ch'[t] # <<>> /\ UNCHANGED lost[t]
             /\ Stream(t)' = Append(x, e)
    <3>1. IsSeq(x)
      BY <1>2, ConcatFacts DEF Stream, Inv, TypeOK, SubscribersOK
    <3>2. Ordered(Append(x, e))
      BY <1>3, <1>4, <2>2, <3>1, OrderedAppend
    <3>3. ~lost[t] => Linked(Append(x, e))
      BY <1>3, <1>4, <2>2, <2>6, <3>1, LinkedAppend
    <3>4. Last(Append(x, e)) = e
      BY <3>1, LastAppended
    <3>5. Ordered(Stream(t))' /\ (~lost'[t] => Linked(Stream(t))') /\ Last(Stream(t))' = e
      BY <2>6, <3>2, <3>3, <3>4 DEF Ordered, Linked, Last
    <3>6. ~(sub'[t] \in {"off", "checked"})
      BY <2>3, <2>6 DEF Listening
    <3> QED
      BY <2>2, <3>5, <3>6 DEF StreamOK
  <2> QED
    BY <2>3, <2>4, <2>5, <2>6
<1>8. ASSUME NEW s \in Subs, SubscriberStep(s) PROVE StreamOK(t)'
  <2>1. /\ UNCHANGED <<stored, life, pc, req, rec, acc, lost>>
        /\ Stream(t)' = x
        /\ sub'[t] \in {"off", "checked"} =>
             sub[t] \in {"off", "checked"} /\ UNCHANGED <<got[t], ch[t]>>
        /\ Listening(t)' => Listening(t) \/ x = <<>>
    BY <1>2, <1>4, <1>8, StreamSubscriber DEF Inv
  <2>2. (Latest(l) => Latest(l)') /\ (Past(l) => Past(l)')
    BY <2>1 DEF Latest, Past, CaughtUp, Pending, Kind, Event
  <2> QED
    BY <1>4, <1>5, <2>1, <2>2
<1> QED
  BY <1>1, <1>6, <1>7, <1>8 DEF Next, Step, Ordinary, Terminated

\* StreamInv is inductive.
THEOREM StreamInvNext == ASSUME NoDocIsNoRecord PROVE StreamInv /\ [Next]_vars => StreamInv'
  BY InvNext, WritesNext, StreamNext DEF StreamInv

\* Whatever a full channel made it miss, a subscription gets its events in commit
\* order, each at most once, and while it missed none, every one: the publication
\* is made before the deferred unlock and drops what a channel cannot take.
THEOREM StreamInOrderCorrect == ASSUME NoDocIsNoRecord PROVE Spec => []StreamInOrder
<1>1. StreamInv => StreamInOrder
  BY DEF StreamInv, StreamOK, StreamInOrder, Linked, Ordered
<1>2. StreamInv /\ [Next]_vars => StreamInv'
  BY StreamInvNext
<1> QED
  BY <1>1, <1>2, StreamInit, PTL DEF Spec

\* When no call is between its commit and its publication, a subscription that
\* has seen an event and missed none was told of the stored version.
THEOREM StreamUpToDateCorrect == ASSUME NoDocIsNoRecord PROVE Spec => []StreamUpToDate
<1>1. StreamInv => StreamUpToDate
  <2> SUFFICES ASSUME StreamInv, lock = Free, stored # NoDoc, stored.version > 0,
                      NEW s \in Subs, Listening(s), ~lost[s], Stream(s) # <<>>
               PROVE  Last(Stream(s)) = [type |-> "op", life |-> life,
                                         version |-> stored.version,
                                         op |-> stored.ops[stored.version].op]
    BY DEF StreamUpToDate, Last
  <2>1. \A p \in Procs : ~Critical(p)
    BY FreeAssumption DEF StreamInv, Inv, LockedView, HoldsLock
  <2>2. \A p \in Procs : ~Pending(p)
    BY <2>1, PendingAlone DEF StreamInv, Inv, LockedView, TypeOK
  <2>3. CaughtUp(Last(Stream(s)))
    BY <2>2 DEF StreamInv, StreamOK, Latest
  <2>4. stored.version # 0
    OBVIOUS
  <2> QED
    BY <2>3, <2>4 DEF CaughtUp
<1>2. StreamInv /\ [Next]_vars => StreamInv'
  BY StreamInvNext
<1> QED
  BY <1>1, <1>2, StreamInit, PTL DEF Spec
=============================================================================
