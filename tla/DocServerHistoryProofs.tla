----------------------- MODULE DocServerHistoryProofs -----------------------
(***************************************************************************)
(* What the log of DocServer is worth, for every value of its constants:   *)
(* the cache agrees with it, submissions are rebased over it, rollbacks go *)
(* back along it, and the server implements VersionedDoc.  None of this is *)
(* so of every set of requests: the theorems say which they are about.     *)
(***************************************************************************)
EXTENDS DocServerStreamProofs

\* GetSnapshotAt takes no lock: what it fetched before a deletion may reach the
\* cache after it.  It is not called, or nothing is ever deleted.
NoStaleReads ==
  \/ \A r \in Requests : r.kind # "snapshotAt"
  \/ \A r \in Requests : r.kind # "delete"

\* RollbackToVersion is not called: what it commits as an operation need not be
\* the one that leads to the document it commits.
NoRollbacks == \A r \in Requests : r.kind # "rollback"

-----------------------------------------------------------------------------
(***************************************************************************)
(* What a call that works on a copy of the record, with or without lock,   *)
(* has of the log.                                                         *)
(***************************************************************************)

\* The calls there are.
InRequests == \A p \in Procs : pc[p] # "idle" => req[p] \in Requests

\* The documents since the creation end with the stored one.
TrailOK ==
  IF stored = NoDoc THEN trail = <<>>
  ELSE /\ IsSeq(trail) /\ Len(trail) = stored.version + 1
       /\ stored.doc = trail[stored.version + 1]

\* A call with a copy of the record, and one with the operations it needs.
Reader(p) == Kind(p) \in {"submit", "rollback", "snapshotAt"} /\ pc[p] \in Deciding
Working(p) == Reader(p) /\ pc[p] \in {"work", "fill", "commit"}

\* The copy is of the document's own past.
CopyOK(p) ==
  /\ stored # NoDoc /\ rec[p].version <= stored.version
  /\ rec[p].doc = trail[rec[p].version + 1]
  /\ req[p].base \in 0..rec[p].version

\* The records left to go through follow the record of version First(p).
First(p) ==
  IF Kind(p) = "submit" THEN rec[p].version - Len(ops[p]) ELSE req[p].base
SliceOK(p) ==
  /\ req[p].base <= First(p) /\ First(p) + Len(ops[p]) <= rec[p].version
  /\ \A i \in DOMAIN ops[p] : ops[p][i] = stored.ops[First(p) + i]
  /\ pc[p] = "commit" => ops[p] = <<>>

ReadOK(p) == (Reader(p) => CopyOK(p)) /\ (Working(p) => SliceOK(p))

\* The cache holds nothing but operations of the log.
CacheExact ==
  IF stored = NoDoc THEN (\A p \in Procs : pc[p] # "clear") => DOMAIN cache = {}
  ELSE \A v \in DOMAIN cache : v \in DOMAIN stored.ops /\ cache[v] = stored.ops[v].op

HistoryInv ==
  /\ Inv /\ Writes
  /\ InRequests /\ TrailOK /\ CacheExact /\ \A p \in Procs : ReadOK(p)

\* A server nobody has called has no log to agree with.
LEMMA HistoryInit == Init => HistoryInv
<1>1. Init => Inv /\ Writes
  BY StreamInit DEF StreamInv
<1> QED
  BY <1>1 DEF Init, HistoryInv, InRequests, TrailOK, CacheExact, ReadOK, Reader, Working,
              EmptyCache, Kind, Deciding

\* Calls are made of Requests and keep their request until they return.
LEMMA RequestsNext == ASSUME TypeOK, InRequests, [Next]_vars PROVE InRequests'
<1>1. CASE UNCHANGED vars
  BY <1>1 DEF vars, InRequests
<1>2. ASSUME NEW p \in Procs, Call(p) PROVE InRequests'
  BY <1>2 DEF Call, InRequests, TypeOK, ControlOK
<1>3. ASSUME NEW p \in Procs, Lock(p) \/ Step(p) PROVE InRequests'
  <2>1. UNCHANGED req /\ pc[p] # "idle"
    BY <1>3
    DEF Lock, Step, Unlock, Create, ReadForDelete, Delete, Clear, ReadForSubmit, Dedup, Parse,
        ReadForRollback, ReadForSnapshot, CheckRange, FetchRange, Hit, Miss, Fill, Finish,
        Commit, CacheCommitted, Announce
  <2>2. Others(p)
    BY <1>3, StepFrame
  <2> QED
    BY <2>1, <2>2 DEF InRequests, Others
<1>4. ASSUME NEW s \in Subs, SubscriberStep(s) PROVE InRequests'
  BY <1>4 DEF SubscriberStep, SubscribeCheck, Subscribe, Cancel, Receive, InRequests
<1> QED
  BY <1>1, <1>2, <1>3, <1>4 DEF Next, Terminated

-----------------------------------------------------------------------------
(* The documents since the creation *)

\* Nothing but a creation, a deletion and a commit writes to the backend.
LEMMA BackendStep ==
  ASSUME [Next]_vars
  PROVE  \/ UNCHANGED backendVars
         \/ \E p \in Procs : Create(p) \/ Delete(p) \/ Commit(p)
<1>1. CASE UNCHANGED vars
  BY <1>1 DEF vars, backendVars
<1>2. ASSUME NEW p \in Procs, Call(p) \/ Lock(p)
      PROVE  UNCHANGED backendVars
  BY <1>2 DEF Call, Lock
<1>3. ASSUME NEW p \in Procs, Step(p), ~(Create(p) \/ Delete(p) \/ Commit(p))
      PROVE  UNCHANGED backendVars
  BY <1>3
  DEF Step, Unlock, ReadForDelete, Clear, ReadForSubmit, Dedup, Parse, ReadForRollback,
      ReadForSnapshot, CheckRange, FetchRange, Hit, Miss, Fill, Finish, CacheCommitted,
      Announce
<1>4. ASSUME NEW s \in Subs, SubscriberStep(s) PROVE UNCHANGED backendVars
  BY <1>4 DEF SubscriberStep, SubscribeCheck, Subscribe, Cancel, Receive
<1> QED
  BY <1>1, <1>2, <1>3, <1>4 DEF Next, Terminated

\* A commit adds one record and one document.
LEMMA CommitGrows ==
  ASSUME NoDocIsNoRecord, Inv, TrailOK, NEW p \in Procs, Commit(p)
  PROVE  /\ stored # NoDoc /\ stored' # NoDoc
         /\ stored.version \in Nat /\ stored'.version = stored.version + 1
         /\ IsSeq(stored.ops) /\ Len(stored.ops) = stored.version
         /\ stored'.ops = Append(stored.ops, Entry(p))
         /\ trail' = Append(trail, acc[p].doc) /\ stored'.doc = acc[p].doc
         /\ held' = held \cup {[version |-> stored.version + 1, doc |-> acc[p].doc]}
<1>1. stored # NoDoc /\ rec[p].version = stored.version
  BY WritesCommit
<1>2. stored.version \in Nat /\ IsSeq(stored.ops) /\ Len(stored.ops) = stored.version
  BY <1>1 DEF Inv, TypeOK, StoredOK, LogMatchesVersion
<1>3. CommitOp(acc[p].doc, Entry(p)) /\ Entry(p).version = stored.version + 1
  BY <1>1 DEF Commit, Entry
<1>4. stored' # NoDoc
  BY <1>3 DEF CommitOp, NoDocIsNoRecord
<1> QED
  BY <1>1, <1>2, <1>3, <1>4 DEF CommitOp

\* The last document of the trail is always the stored one.
LEMMA TrailNext ==
  ASSUME NoDocIsNoRecord, Inv, Writes, TrailOK, [Next]_vars PROVE TrailOK'
<1>1. CASE UNCHANGED backendVars
  BY <1>1 DEF backendVars, TrailOK
<1>2. ASSUME NEW p \in Procs, Create(p) PROVE TrailOK'
  <2>1. CASE UNCHANGED backendVars
    BY <2>1 DEF backendVars, TrailOK
  <2>2. CASE CreateDoc(req[p].payload)
    <3>1. trail' = <<req[p].payload>> /\ stored'.version = 0 /\ stored'.doc = req[p].payload
          /\ stored' # NoDoc
      BY <2>2 DEF CreateDoc, NoDocIsNoRecord
    <3>2. <<req[p].payload>> \in Seq({req[p].payload}) /\ Len(<<req[p].payload>>) = 1
      OBVIOUS
    <3>3. IsSeq(<<req[p].payload>>)
      BY <3>2, SeqIsSeq
    <3> QED
      BY <3>1, <3>2, <3>3 DEF TrailOK
  <2> QED
    BY <1>2, <2>1, <2>2 DEF Create
<1>3. ASSUME NEW p \in Procs, Delete(p) PROVE TrailOK'
  BY <1>3, WritesDelete DEF Delete, DeleteDoc, TrailOK
<1>4. ASSUME NEW p \in Procs, Commit(p) PROVE TrailOK'
  <2>1. IsSeq(trail) /\ Len(trail) = stored.version + 1
    BY <1>4, CommitGrows DEF TrailOK
  <2>2. /\ stored' # NoDoc /\ stored'.version = stored.version + 1 /\ stored.version \in Nat
        /\ trail' = Append(trail, acc[p].doc) /\ stored'.doc = acc[p].doc
    BY <1>4, CommitGrows
  <2>3. IsSeq(trail') /\ Len(trail') = Len(trail) + 1 /\ trail'[Len(trail) + 1] = acc[p].doc
    BY <2>1, <2>2, AppendFacts
  <2> QED
    BY <2>1, <2>2, <2>3 DEF TrailOK
<1> QED
  BY <1>1, <1>2, <1>3, <1>4, BackendStep

-----------------------------------------------------------------------------
(* Whose past is left alone *)

\* The document lives on, and its log and trail keep what they have.
Grows ==
  /\ stored' # NoDoc /\ stored.version <= stored'.version /\ stored'.version \in Nat
  /\ \A i \in 1..stored.version : stored'.ops[i] = stored.ops[i]
  /\ \A i \in 1..(stored.version + 1) : trail'[i] = trail[i]

\* A writer that decides is alone in writing.
LEMMA WriterAlone ==
  ASSUME Inv, NEW p \in Procs, NEW q \in Procs, q # p, Reader(q), Kind(q) # "snapshotAt",
         Create(p) \/ Delete(p) \/ Commit(p) \/ Clear(p) \/ CacheCommitted(p)
  PROVE  FALSE
<1>1. Critical(p)
  BY LabelsByKind
  DEF Create, Delete, Commit, Clear, CacheCommitted, Critical, Locking, Kinds, Inv, TypeOK,
      ControlOK
<1>2. Critical(q)
  BY DEF Reader, Critical, Locking, Deciding
<1> QED
  BY <1>1, <1>2, OneCritical DEF Inv, LockedView

\* A deletion and a lockless reader do not meet.
LEMMA NoDeleteUnderReader ==
  ASSUME NoStaleReads, HistoryInv, NEW p \in Procs, NEW q \in Procs, q # p, Reader(q),
         Delete(p) \/ Clear(p)
  PROVE  FALSE
<1>1. Kind(q) = "snapshotAt"
  BY WriterAlone DEF HistoryInv
<1>2. Kind(p) = "delete" /\ pc[p] # "idle"
  BY LabelsByKind DEF Delete, Clear, Kinds, HistoryInv, Inv, TypeOK, ControlOK
<1>3. pc[q] # "idle"
  BY DEF Reader, Deciding
<1> QED
  BY <1>1, <1>2, <1>3 DEF NoStaleReads, HistoryInv, InRequests, Kind

\* What another call does leaves a reader's past alone.
LEMMA ReaderGrows ==
  ASSUME NoDocIsNoRecord, NoStaleReads, HistoryInv, NEW p \in Procs, NEW q \in Procs, q # p,
         Reader(q), Call(p) \/ Lock(p) \/ Step(p)
  PROVE  Grows /\ (Kind(q) = "snapshotAt" \/ UNCHANGED <<stored, trail>>)
<1>1. stored # NoDoc /\ stored.version \in Nat
  BY DEF HistoryInv, ReadOK, CopyOK, Inv, TypeOK, StoredOK
<1>2. CASE UNCHANGED backendVars
  BY <1>1, <1>2 DEF backendVars, Grows
<1>3. CASE Create(p)
  BY <1>1, <1>2, <1>3 DEF Create
<1>4. CASE Delete(p)
  BY <1>4, NoDeleteUnderReader
<1>5. CASE Commit(p)
  <2>1. Kind(q) = "snapshotAt"
    BY <1>5, WriterAlone DEF HistoryInv
  <2>2. /\ stored' # NoDoc /\ stored'.version = stored.version + 1
        /\ IsSeq(stored.ops) /\ Len(stored.ops) = stored.version
        /\ stored'.ops = Append(stored.ops, Entry(p))
        /\ trail' = Append(trail, acc[p].doc)
        /\ IsSeq(trail) /\ Len(trail) = stored.version + 1
    BY <1>5, CommitGrows DEF HistoryInv, TrailOK
  <2>3. \A i \in 1..stored.version : stored'.ops[i] = stored.ops[i]
    BY <2>2, AppendFacts, IsSeqFacts
  <2>4. \A i \in 1..(stored.version + 1) : trail'[i] = trail[i]
    BY <2>2, AppendFacts, IsSeqFacts
  <2> QED
    BY <1>1, <2>1, <2>2, <2>3, <2>4 DEF Grows
<1> QED
  BY <1>2, <1>3, <1>4, <1>5
  DEF Call, Lock, Step, Unlock, ReadForDelete, Clear, ReadForSubmit, Dedup, Parse,
      ReadForRollback, ReadForSnapshot, CheckRange, FetchRange, Hit, Miss, Fill, Finish,
      CacheCommitted, Announce

\* A reader's copy and its records stay what they are while others move.
LEMMA ReadOthers ==
  ASSUME NoDocIsNoRecord, NoStaleReads, HistoryInv, NEW p \in Procs, NEW q \in Procs, q # p,
         Call(p) \/ Lock(p) \/ Step(p)
  PROVE  ReadOK(q)'
<1>1. /\ pc'[q] = pc[q] /\ req'[q] = req[q] /\ rec'[q] = rec[q] /\ ops'[q] = ops[q]
  BY StepFrame DEF Others, HistoryInv, Inv
<1>2. (Reader(q)' <=> Reader(q)) /\ (Working(q)' <=> Working(q)) /\ First(q)' = First(q)
  BY <1>1 DEF Reader, Working, First, Kind
<1>3. ASSUME Reader(q) PROVE CopyOK(q)'
  <2>1. Grows /\ CopyOK(q)
    BY <1>3, ReaderGrows DEF HistoryInv, ReadOK
  <2>2. rec[q].version + 1 \in 1..(stored.version + 1) /\ stored.version \in Nat
    BY <2>1 DEF CopyOK, HistoryInv, Inv, TypeOK, LocalsOK, StoredOK
  <2>3. rec[q].version \in Nat
    BY DEF HistoryInv, Inv, TypeOK, LocalsOK
  <2> QED
    BY <1>1, <2>1, <2>2, <2>3 DEF CopyOK, Grows
<1>4. ASSUME Working(q) PROVE SliceOK(q)'
  <2>1. Grows /\ CopyOK(q) /\ SliceOK(q)
    BY <1>4, ReaderGrows DEF Working, HistoryInv, ReadOK
  <2>2. stored.version \in Nat /\ IsSeq(ops[q]) /\ rec[q].version \in Nat /\ req[q].base \in Int
    BY <2>1 DEF CopyOK, HistoryInv, Inv, TypeOK, LocalsOK, StoredOK, ControlOK
  <2>3. First(q) \in Int /\ 0 <= First(q)
    BY <2>1, <2>2, IsSeqFacts DEF First, SliceOK, CopyOK
  <2>4. ASSUME NEW i \in DOMAIN ops[q] PROVE First(q) + i \in 1..stored.version
    BY <2>1, <2>2, <2>3, IsSeqFacts DEF SliceOK, CopyOK
  <2>5. \A i \in DOMAIN ops'[q] : ops'[q][i] = stored'.ops[First(q)' + i]
    BY <1>1, <1>2, <2>1, <2>4 DEF SliceOK, Grows
  <2> QED
    BY <1>1, <1>2, <2>1, <2>5 DEF SliceOK
<1> QED
  BY <1>2, <1>3, <1>4 DEF ReadOK

-----------------------------------------------------------------------------
(* A call's own steps *)

\* What GetOps returns for a range of the log is that range.
LEMMA GetOpsSlice ==
  ASSUME Inv, stored # NoDoc, NEW from \in Nat, NEW to \in Nat, from <= to,
         to <= stored.version
  PROVE  /\ IsSeq(GetOps(from, to)) /\ Len(GetOps(from, to)) = to - from
         /\ \A i \in DOMAIN GetOps(from, to) : GetOps(from, to)[i] = stored.ops[from + i]
<1>1. IsSeq(stored.ops) /\ stored.version = Len(stored.ops)
  BY DEF Inv, TypeOK, StoredOK, LogMatchesVersion
<1>2. CASE from = to
  <2>1. GetOps(from, to) = <<>>
    BY <1>2 DEF GetOps
  <2> QED
    BY <1>2, <2>1, EmptyIsSeq
<1>3. CASE from # to
  <2>1. GetOps(from, to) = SubSeq(stored.ops, from + 1, to)
    BY <1>1, <1>3 DEF GetOps
  <2> DEFINE l == stored.ops
  <2> HIDE DEF l
  <2>2. IsSeq(l) /\ 1 <= from + 1 /\ to <= Len(l) /\ from + 1 \in Int /\ to \in Int
    BY <1>1 DEF l
  <2>3. /\ IsSeq(SubSeq(l, from + 1, to)) /\ Len(SubSeq(l, from + 1, to)) = to - from
        /\ \A i \in DOMAIN SubSeq(l, from + 1, to) :
             SubSeq(l, from + 1, to)[i] = l[(from + 1) + i - 1]
    <3>1. Len(SubSeq(l, from + 1, to)) = to - (from + 1) + 1
      BY <1>3, <2>2, SubSeqFacts
    <3> QED
      BY <2>2, <3>1, SubSeqFacts
  <2>4. \A i \in DOMAIN SubSeq(l, from + 1, to) : SubSeq(l, from + 1, to)[i] = l[from + i]
    BY <2>3, IsSeqFacts
  <2> QED
    BY <2>1, <2>3, <2>4 DEF l
<1> QED
  BY <1>2, <1>3

\* A copy just taken is of the latest version.
LEMMA CopyTaken ==
  ASSUME HistoryInv, NEW p \in Procs, stored # NoDoc, rec' = [rec EXCEPT ![p] = Snapshot],
         UNCHANGED <<stored, trail, req>>, req[p].base \in 0..stored.version
  PROVE  CopyOK(p)'
<1>1. rec'[p] = Snapshot /\ stored.version \in Nat
  BY DEF HistoryInv, Inv, TypeOK, LocalsOK, StoredOK
<1>2. rec'[p].version = stored.version /\ rec'[p].doc = stored.doc
  BY <1>1 DEF Snapshot
<1> QED
  BY <1>1, <1>2 DEF CopyOK, HistoryInv, TrailOK

\* A call that reads the record has a copy of it.
LEMMA ReadTaking ==
  ASSUME HistoryInv, NEW p \in Procs,
         ReadForSubmit(p) \/ ReadForRollback(p) \/ ReadForSnapshot(p)
  PROVE  ReadOK(p)'
<1> USE DEF HistoryInv, Inv, TypeOK, ControlOK
<1>1. UNCHANGED <<stored, trail, req>>
  BY DEF ReadForSubmit, ReadForRollback, ReadForSnapshot, backendVars
<1>2. PICK l \in {"unlock", "idle", "dedup", "parse", "opsDoc"} : pc' = [pc EXCEPT ![p] = l]
  BY DEF ReadForSubmit, ReadForRollback, ReadForSnapshot, Fail, Return, Goto
<1>3. ~Working(p)'
  BY <1>2 DEF Working
<1>4. ASSUME Reader(p)' PROVE CopyOK(p)'
  <2>1. l \in {"dedup", "parse", "opsDoc"}
    BY <1>2, <1>4 DEF Reader, Deciding
  <2>2. /\ stored # NoDoc /\ rec' = [rec EXCEPT ![p] = Snapshot]
        /\ ~(req[p].base < 0) /\ ~(req[p].base > stored.version)
    BY <1>2, <2>1 DEF ReadForSubmit, ReadForRollback, ReadForSnapshot, Fail, Return, Goto
  <2>3. req[p].base \in 0..stored.version
    BY <2>2 DEF StoredOK
  <2> QED
    BY <1>1, <2>2, <2>3, CopyTaken
<1> QED
  BY <1>3, <1>4 DEF ReadOK

\* A call that checks something keeps its copy.
LEMMA ReadChecking ==
  ASSUME HistoryInv, NEW p \in Procs, Dedup(p) \/ CheckRange(p) \/ Miss(p)
  PROVE  ReadOK(p)'
<1> USE DEF HistoryInv, Inv, TypeOK, ControlOK
<1>1. UNCHANGED <<stored, trail, req, rec, ops>>
  BY DEF Dedup, CheckRange, Miss, backendVars, localVars
<1>2. PICK l \in {"unlock", "idle", "parse", "opsGet", "fill"} :
        /\ pc' = [pc EXCEPT ![p] = l]
        /\ l = "fill" => pc[p] = "work" /\ ops[p] # <<>>
        /\ l \in Deciding => pc[p] \in Deciding
  BY DEF Dedup, CheckRange, Miss, Fail, Return, Goto, Deciding
<1>3. Reader(p)' => Reader(p)
  BY <1>1, <1>2 DEF Reader, Kind
<1>4. Working(p)' => Working(p)
  BY <1>1, <1>2, <1>3 DEF Working
<1>5. CopyOK(p) => CopyOK(p)'
  BY <1>1 DEF CopyOK
<1>6. SliceOK(p) => (pc'[p] # "commit" => SliceOK(p)')
  BY <1>1 DEF SliceOK, First, Kind
<1>7. pc'[p] # "commit"
  BY <1>2
<1> QED
  BY <1>3, <1>4, <1>5, <1>6, <1>7 DEF ReadOK

\* A call that fetches the records it needs gets those of the range it asked for.
LEMMA ReadFetching ==
  ASSUME HistoryInv, NEW p \in Procs, Parse(p) \/ FetchRange(p)
  PROVE  ReadOK(p)'
<1> USE DEF HistoryInv, Inv, TypeOK, ControlOK
<1>1. UNCHANGED <<stored, trail, req, rec>>
  BY DEF Parse, FetchRange, backendVars
<1>2. PICK l \in {"unlock", "idle", "work"} :
        pc' = [pc EXCEPT ![p] = l] /\ pc[p] \in Deciding
  BY DEF Parse, FetchRange, Fail, Return, Goto, Deciding
<1>3. Reader(p)' => Reader(p)
  BY <1>1, <1>2 DEF Reader, Kind
<1>4. CopyOK(p) => CopyOK(p)'
  BY <1>1 DEF CopyOK
<1>5. ASSUME Working(p)' PROVE SliceOK(p)'
  <2>1. Reader(p) /\ CopyOK(p) /\ pc'[p] = "work"
    BY <1>2, <1>3, <1>5 DEF ReadOK, Working
  <2> DEFINE n == rec[p].version
             b == req[p].base
             found == GetOps(b, n)
  <2>2. n \in Nat /\ b \in Nat /\ b <= n /\ n <= stored.version
    BY <2>1 DEF CopyOK, LocalsOK
  <2>3. /\ IsSeq(found) /\ Len(found) = n - b
        /\ \A i \in DOMAIN found : found[i] = stored.ops[b + i]
    BY <2>1, <2>2, GetOpsSlice DEF CopyOK
  <2>4. ops'[p] = found \/ (Kind(p) = "submit" /\ b = n /\ ops'[p] = <<>>)
    <3>1. CASE Parse(p)
      <4>1. Kind(p) = "submit"
        BY <3>1, LabelsByKind DEF Parse, Kinds
      <4>2. ops' = [ops EXCEPT ![p] = IF b < n THEN found ELSE <<>>]
        BY <1>2, <2>1, <3>1 DEF Parse, Fail, Return, Goto
      <4> QED
        BY <2>2, <4>1, <4>2 DEF LocalsOK
    <3>2. CASE FetchRange(p)
      <4>1. Kind(p) # "getOps"
        BY <2>1 DEF Reader
      <4>2. ops' = [ops EXCEPT ![p] = found]
        BY <1>2, <2>1, <3>2, <4>1 DEF FetchRange, Fail, Return, Goto, From, To
      <4> QED
        BY <4>2 DEF LocalsOK
    <3> QED
      BY <3>1, <3>2
  <2> HIDE DEF found
  <2>5. Len(ops'[p]) = n - b /\ \A i \in DOMAIN ops'[p] : ops'[p][i] = stored.ops[b + i]
    <3> HIDE DEF HistoryInv, Inv, TypeOK, ControlOK
    <3>1. CASE ops'[p] = found
      BY <2>3, <3>1
    <3>2. CASE b = n /\ ops'[p] = <<>>
      BY <2>2, <3>2, EmptyIsSeq
    <3> QED
      BY <2>4, <3>1, <3>2
  <2>6. First(p)' = b
    BY <1>1, <2>2, <2>5 DEF First, Kind
  <2> QED
    BY <1>1, <2>1, <2>2, <2>5, <2>6 DEF SliceOK
<1> QED
  BY <1>3, <1>4, <1>5 DEF ReadOK

\* The version of the record a call goes through next.
NextVersion(p) ==
  IF Kind(p) = "submit" THEN First(p) + 1 ELSE First(p) + Len(ops[p])

\* That record is the log's, and it says so.
LEMMA NextFacts ==
  ASSUME HistoryInv, NEW p \in Procs, Working(p), ops[p] # <<>>
  PROVE  /\ CopyOK(p) /\ SliceOK(p)
         /\ First(p) \in Nat /\ Len(ops[p]) \in Nat \ {0}
         /\ NextVersion(p) \in 1..rec[p].version /\ NextVersion(p) \in DOMAIN stored.ops
         /\ NextOp(p) = stored.ops[NextVersion(p)]
         /\ NextOp(p).version = NextVersion(p)
<1> USE DEF HistoryInv, Inv, TypeOK
<1>1. CopyOK(p) /\ SliceOK(p)
  BY DEF Working, ReadOK
<1>2. /\ IsSeq(ops[p]) /\ rec[p].version \in Nat /\ req[p].base \in Nat
      /\ IsSeq(stored.ops) /\ stored.version = Len(stored.ops) /\ stored.version \in Nat
      /\ rec[p].version <= stored.version
  BY <1>1 DEF LocalsOK, CopyOK, StoredOK, LogMatchesVersion
<1>3. PICK n : n = Len(ops[p])
  OBVIOUS
<1>4. n \in Nat \ {0} /\ DOMAIN ops[p] = 1..n
  <2>1. n \in Nat /\ DOMAIN ops[p] = 1..n
    BY <1>2, <1>3, IsSeqFacts
  <2>2. n # 0
    BY <1>2, <1>3 DEF IsSeq
  <2> QED
    BY <2>1, <2>2
<1>5. First(p) \in Nat /\ First(p) + n <= rec[p].version
  BY <1>1, <1>2, <1>3, <1>4 DEF First, SliceOK
<1>6. PICK i \in 1..n : NextOp(p) = ops[p][i] /\ NextVersion(p) = First(p) + i
  <2>1. CASE Kind(p) = "submit"
    <3>1. Head(ops[p]) = ops[p][1]
      BY <1>2, <1>3, <1>4 DEF IsSeq
    <3> QED
      BY <1>4, <2>1, <3>1 DEF NextOp, NextVersion
  <2>2. CASE Kind(p) # "submit"
    BY <1>3, <1>4, <2>2 DEF NextOp, NextVersion
  <2> QED
    BY <2>1, <2>2
<1>7. NextVersion(p) \in 1..rec[p].version /\ NextVersion(p) \in 1..stored.version
  BY <1>2, <1>4, <1>5, <1>6
<1>8. NextVersion(p) \in DOMAIN stored.ops
  BY <1>2, <1>7, IsSeqFacts
<1>9. ops[p][i] = stored.ops[First(p) + i]
  BY <1>1, <1>4, <1>6 DEF SliceOK
<1>10. NextOp(p) = stored.ops[NextVersion(p)]
  BY <1>6, <1>9
<1>11. stored.ops[NextVersion(p)].version = NextVersion(p)
  BY <1>1, <1>8 DEF LogMatchesVersion, CopyOK
<1> QED
  BY <1>1, <1>3, <1>4, <1>5, <1>7, <1>8, <1>10, <1>11

\* Cached or parsed, the operation a call takes in is the log's.
LEMMA AbsorbedOp ==
  ASSUME HistoryInv, NEW p \in Procs, Hit(p) \/ Fill(p)
  PROVE  /\ Working(p) /\ ops[p] # <<>> /\ pc[p] # "commit"
         /\ Absorb(p, stored.ops[NextVersion(p)].op)
         /\ UNCHANGED <<stored, trail, rec, req>>
         /\ \/ UNCHANGED cache
            \/ cache' = Store(NextVersion(p), stored.ops[NextVersion(p)].op)
<1>1. pc[p] \in {"work", "fill"} /\ ops[p] # <<>>
  BY DEF Hit, Fill, HistoryInv, Inv, TypeOK, FillOK
<1>2. Working(p)
  BY <1>1, LabelsByKind
  DEF Working, Reader, Deciding, HistoryInv, Inv, TypeOK, ControlOK, Kinds
<1>3. NextOp(p) = stored.ops[NextVersion(p)] /\ NextOp(p).version = NextVersion(p)
      /\ stored # NoDoc
  BY <1>1, <1>2, NextFacts DEF CopyOK
<1>4. CASE Hit(p)
  <2>1. cache[NextVersion(p)] = stored.ops[NextVersion(p)].op
    BY <1>3, <1>4 DEF Hit, HistoryInv, CacheExact
  <2> QED
    BY <1>1, <1>2, <1>3, <1>4, <2>1 DEF Hit, backendVars
<1>5. CASE Fill(p)
  BY <1>1, <1>2, <1>3, <1>5 DEF Fill, backendVars
<1> QED
  BY <1>4, <1>5

\* The records left after one more are a slice still.
LEMMA AbsorbedSlice ==
  ASSUME HistoryInv, NEW p \in Procs, Working(p), ops[p] # <<>>,
         ops' = [ops EXCEPT ![p] = OtherOps(p)], UNCHANGED <<stored, rec, req>>
  PROVE  /\ First(p)' = IF Kind(p) = "submit" THEN First(p) + 1 ELSE First(p)
         /\ Len(ops'[p]) = Len(ops[p]) - 1
         /\ pc'[p] # "commit" => SliceOK(p)'
<1>1. PICK n : n = Len(ops[p])
  OBVIOUS
<1>2. PICK f : f = First(p)
  OBVIOUS
<1>3. /\ SliceOK(p) /\ f \in Nat /\ n \in Nat \ {0} /\ rec[p].version \in Nat
      /\ IsSeq(ops[p]) /\ DOMAIN ops[p] = 1..n /\ ops'[p] = OtherOps(p)
      /\ req[p].base \in Int
  BY <1>1, <1>2, NextFacts, IsSeqFacts DEF HistoryInv, Inv, TypeOK, LocalsOK, ControlOK
<1>4. /\ req[p].base <= f /\ f + n <= rec[p].version
      /\ \A i \in 1..n : ops[p][i] = stored.ops[f + i]
  BY <1>1, <1>2, <1>3 DEF SliceOK
<1>5. CASE Kind(p) = "submit"
  <2> DEFINE rest == Tail(ops[p])
  <2>1. /\ IsSeq(rest) /\ Len(rest) = n - 1
        /\ \A i \in DOMAIN rest : i + 1 \in DOMAIN ops[p] /\ rest[i] = ops[p][i + 1]
    BY <1>1, <1>3, TailFacts
  <2>2. ops'[p] = rest
    BY <1>3, <1>5 DEF OtherOps
  <2> HIDE DEF rest
  <2>3. Len(ops'[p]) = n - 1 /\ f = rec[p].version - n
    BY <1>1, <1>2, <1>5, <2>1, <2>2 DEF First
  <2>4. First(p)' = f + 1
    <3>1. First(p)' = rec[p].version - (n - 1)
      BY <1>5, <2>3 DEF First, Kind
    <3> QED
      BY <1>3, <2>3, <3>1
  <2>5. ASSUME NEW i \in DOMAIN rest PROVE rest[i] = stored.ops[(f + 1) + i]
    <3>1. i \in Int
      BY <2>1, IsSeqFacts
    <3>2. i + 1 \in 1..n /\ rest[i] = ops[p][i + 1]
      BY <1>3, <2>1
    <3>3. rest[i] = stored.ops[f + (i + 1)]
      BY <1>4, <3>2
    <3>4. f + (i + 1) = (f + 1) + i
      BY <1>3, <3>1
    <3> QED
      BY <3>3, <3>4
  <2>6. /\ req'[p].base <= f + 1 /\ (f + 1) + Len(ops'[p]) <= rec'[p].version
    <3>1. req[p].base <= f + 1 /\ (f + 1) + (n - 1) <= rec[p].version
      BY <1>3, <1>4
    <3> QED
      BY <2>3, <3>1
  <2>7. \A i \in DOMAIN ops'[p] : ops'[p][i] = stored'.ops[First(p)' + i]
    BY <2>2, <2>4, <2>5
  <2>8. pc'[p] # "commit" => SliceOK(p)'
    BY <2>4, <2>6, <2>7 DEF SliceOK
  <2> QED
    BY <1>1, <1>2, <1>5, <2>3, <2>4, <2>8
<1>6. CASE Kind(p) # "submit"
  <2> DEFINE front == SubSeq(ops[p], 1, n - 1)
  <2>1. /\ Len(front) = n - 1
        /\ \A i \in DOMAIN front : 1 + i - 1 \in DOMAIN ops[p] /\ front[i] = ops[p][1 + i - 1]
    <3>1. 1 \in Int /\ n - 1 \in Int /\ 1 <= 1 /\ n - 1 <= Len(ops[p])
      BY <1>1, <1>3
    <3>2. Len(front) = IF 1 <= n - 1 THEN (n - 1) - 1 + 1 ELSE 0
      BY <1>3, <3>1, SubSeqFacts
    <3> QED
      BY <1>3, <3>1, <3>2, SubSeqFacts
  <2>2. IsSeq(front)
    <3>1. 1 \in Int /\ n - 1 \in Int /\ 1 <= 1 /\ n - 1 <= Len(ops[p])
      BY <1>1, <1>3
    <3> QED
      BY <1>3, <3>1, SubSeqFacts
  <2> HIDE DEF front
  <2>3. ops'[p] = front
    BY <1>1, <1>3, <1>6 DEF OtherOps, front
  <2>4. First(p)' = f
    BY <1>2, <1>6 DEF First, Kind
  <2>5. ASSUME NEW i \in DOMAIN ops'[p] PROVE ops'[p][i] = stored.ops[f + i]
    <3>1. i \in Int
      BY <2>2, <2>3, IsSeqFacts
    <3>2. i \in 1..n /\ ops'[p][i] = ops[p][i]
      BY <1>3, <2>1, <2>3, <3>1
    <3> QED
      BY <1>4, <3>2
  <2> QED
    BY <1>1, <1>2, <1>3, <1>4, <1>6, <2>1, <2>3, <2>4, <2>5 DEF SliceOK
<1> QED
  BY <1>5, <1>6

\* Taking in a record, a call goes on with the others or gives up.
LEMMA ReadAbsorbing ==
  ASSUME HistoryInv, NEW p \in Procs, Hit(p) \/ Fill(p)
  PROVE  ReadOK(p)'
<1>1. /\ Working(p) /\ ops[p] # <<>>
      /\ Absorb(p, stored.ops[NextVersion(p)].op) /\ UNCHANGED <<stored, trail, rec, req>>
  BY AbsorbedOp
<1>2. CASE \E why : Fail(p, why)
  <2>1. pc'[p] \in {"unlock", "idle"}
    BY <1>2 DEF Fail, Return, HistoryInv, Inv, TypeOK, ControlOK
  <2> QED
    BY <2>1 DEF ReadOK, Working, Reader, Deciding
<1>3. CASE /\ ops' = [ops EXCEPT ![p] = OtherOps(p)] /\ Goto(p, "work")
  <2>1. CopyOK(p)'
    BY <1>1, NextFacts DEF CopyOK
  <2>2. pc'[p] = "work"
    BY <1>3 DEF Goto, HistoryInv, Inv, TypeOK, ControlOK
  <2>3. SliceOK(p)'
    BY <1>1, <1>3, <2>2, AbsorbedSlice
  <2> QED
    BY <2>1, <2>3 DEF ReadOK
<1> QED
  BY <1>1, <1>2, <1>3 DEF Absorb

\* The last record dealt with, nothing is left to go through.
LEMMA ReadFinishing ==
  ASSUME HistoryInv, NEW p \in Procs, Finish(p)
  PROVE  ReadOK(p)'
<1>1. /\ UNCHANGED <<stored, trail, rec, ops, req>> /\ pc[p] = "work" /\ ops[p] = <<>>
      /\ pc'[p] \in {"unlock", "idle", "commit"}
  BY FinishFacts DEF Finish, Return, Goto, backendVars, HistoryInv, Inv, TypeOK, ControlOK
<1>2. Reader(p)' => Working(p) /\ Reader(p)
  BY <1>1 DEF Reader, Working, Kind, Deciding
<1>3. Reader(p)' => CopyOK(p)'
  BY <1>1, <1>2 DEF HistoryInv, ReadOK, CopyOK
<1>4. Reader(p)' => SliceOK(p)'
  BY <1>1, <1>2 DEF HistoryInv, ReadOK, SliceOK, First, Kind
<1> QED
  BY <1>3, <1>4 DEF ReadOK, Working

\* No other step of a call leaves it with a copy it works on.
LEMMA ReadNot ==
  ASSUME TypeOK, NEW p \in Procs,
         \/ Call(p) \/ Lock(p) \/ Unlock(p) \/ Create(p) \/ ReadForDelete(p) \/ Delete(p)
         \/ Clear(p) \/ Commit(p) \/ CacheCommitted(p) \/ Announce(p)
  PROVE  ~Reader(p)'
<1> USE DEF TypeOK, ControlOK, Reader, Deciding, Kind, Fail, Return, Goto
<1>1. CASE Call(p)
  BY <1>1, RequestAssumption DEF Call, Locking, Kinds
<1>2. CASE Lock(p) \/ Unlock(p)
  BY <1>2 DEF Lock, Unlock
<1>3. CASE Create(p) \/ ReadForDelete(p) \/ Delete(p) \/ Clear(p)
  BY <1>3, LabelsByKind DEF Create, ReadForDelete, Delete, Clear, Kinds
<1>4. CASE Commit(p) \/ CacheCommitted(p) \/ Announce(p)
  BY <1>4 DEF Commit, CacheCommitted, Announce
<1> QED
  BY <1>1, <1>2, <1>3, <1>4

\* What calls work on stays of the document's past.
LEMMA ReadNext ==
  ASSUME NoDocIsNoRecord, NoStaleReads, HistoryInv, [Next]_vars, NEW q \in Procs
  PROVE  ReadOK(q)'
<1>1. ASSUME UNCHANGED <<stored, trail, pc, req, rec, ops>> PROVE ReadOK(q)'
  BY <1>1 DEF HistoryInv, ReadOK, CopyOK, SliceOK, Reader, Working, First, Kind
<1>2. ASSUME NEW p \in Procs, p # q, Call(p) \/ Lock(p) \/ Step(p) PROVE ReadOK(q)'
  BY <1>2, ReadOthers
<1>3. ASSUME Call(q) \/ Lock(q) \/ Step(q) PROVE ReadOK(q)'
  <2>1. CASE ReadForSubmit(q) \/ ReadForRollback(q) \/ ReadForSnapshot(q)
    BY <2>1, ReadTaking
  <2>2. CASE Dedup(q) \/ CheckRange(q) \/ Miss(q)
    BY <2>2, ReadChecking
  <2>3. CASE Parse(q) \/ FetchRange(q)
    BY <2>3, ReadFetching
  <2>4. CASE Hit(q) \/ Fill(q)
    BY <2>4, ReadAbsorbing
  <2>5. CASE Finish(q)
    BY <2>5, ReadFinishing
  <2>6. CASE \/ Call(q) \/ Lock(q) \/ Unlock(q) \/ Create(q) \/ ReadForDelete(q) \/ Delete(q)
             \/ Clear(q) \/ Commit(q) \/ CacheCommitted(q) \/ Announce(q)
    <3>1. ~Reader(q)'
      BY <2>6, ReadNot DEF HistoryInv, Inv
    <3> QED
      BY <3>1 DEF ReadOK, Working
  <2> QED
    BY <1>3, <2>1, <2>2, <2>3, <2>4, <2>5, <2>6 DEF Step
<1>4. ASSUME NEW s \in Subs, SubscriberStep(s) PROVE ReadOK(q)'
  <2>1. UNCHANGED <<stored, trail, pc, req, rec, ops>>
    BY <1>4 DEF SubscriberStep, SubscribeCheck, Subscribe, Cancel, Receive, backendVars,
                localVars
  <2> QED
    BY <2>1, <1>1
<1> QED
  BY <1>1, <1>2, <1>3, <1>4 DEF Next, Terminated, vars

-----------------------------------------------------------------------------
(* The cache *)

\* Only a filling, a commit and a deletion write to the cache.
LEMMA CacheStep ==
  ASSUME [Next]_vars
  PROVE  UNCHANGED cache \/ \E p \in Procs : Fill(p) \/ CacheCommitted(p) \/ Clear(p)
<1>1. CASE UNCHANGED vars
  BY <1>1 DEF vars
<1>2. ASSUME NEW p \in Procs, Call(p) \/ Lock(p) PROVE UNCHANGED cache
  BY <1>2 DEF Call, Lock
<1>3. ASSUME NEW p \in Procs, Step(p), ~(Fill(p) \/ CacheCommitted(p) \/ Clear(p))
      PROVE  UNCHANGED cache
  BY <1>3
  DEF Step, Unlock, Create, ReadForDelete, Delete, ReadForSubmit, Dedup, Parse,
      ReadForRollback, ReadForSnapshot, CheckRange, FetchRange, Hit, Miss, Finish, Commit,
      Announce
<1>4. ASSUME NEW s \in Subs, SubscriberStep(s) PROVE UNCHANGED cache
  BY <1>4 DEF SubscriberStep, SubscribeCheck, Subscribe, Cancel, Receive
<1> QED
  BY <1>1, <1>2, <1>3, <1>4 DEF Next, Terminated

\* The operation of a record of the log may be cached for its version.
LEMMA CacheStored ==
  ASSUME CacheExact, stored # NoDoc, NEW v \in DOMAIN stored.ops, UNCHANGED stored,
         cache' = Store(v, stored.ops[v].op)
  PROVE  CacheExact'
<1>1. DOMAIN cache' = DOMAIN cache \cup {v}
      /\ \A w \in DOMAIN cache' : cache'[w] = IF w = v THEN stored.ops[v].op ELSE cache[w]
  BY DEF Store
<1> QED
  BY <1>1 DEF CacheExact

\* A deletion stays to be cleared until it clears the cache.
LEMMA ClearStays ==
  ASSUME TypeOK, NEW p \in Procs, pc[p] = "clear", [Next]_vars, ~Clear(p)
  PROVE  pc'[p] = "clear"
<1>1. ~Call(p) /\ ~Lock(p) /\ ~Step(p)
  BY DEF Call, Lock, Step, Unlock, Create, ReadForDelete, Delete, ReadForSubmit, Dedup,
         Parse, ReadForRollback, ReadForSnapshot, CheckRange, FetchRange, Hit, Miss, Fill,
         Finish, Commit, CacheCommitted, Announce
<1>2. ASSUME NEW q \in Procs, q # p, Call(q) \/ Lock(q) \/ Step(q) PROVE pc'[p] = pc[p]
  BY <1>2, StepFrame DEF Others
<1>3. ASSUME NEW s \in Subs, SubscriberStep(s) PROVE UNCHANGED pc
  BY <1>3 DEF SubscriberStep, SubscribeCheck, Subscribe, Cancel, Receive
<1> QED
  BY <1>1, <1>2, <1>3 DEF Next, Terminated, vars

\* The cache holds operations of the log and nothing else after every step.
LEMMA CacheNext ==
  ASSUME NoDocIsNoRecord, NoStaleReads, HistoryInv, [Next]_vars PROVE CacheExact'
<1> USE DEF HistoryInv
<1>1. ASSUME NEW p \in Procs, Clear(p) PROVE CacheExact'
  <2>1. DOMAIN cache' = {}
    BY <1>1 DEF Clear, ClearCache, EmptyCache
  <2> QED
    BY <2>1 DEF CacheExact
<1>2. ASSUME NEW p \in Procs, Fill(p) PROVE CacheExact'
  <2>1. /\ Working(p) /\ ops[p] # <<>> /\ UNCHANGED stored
        /\ NextOp(p) = stored.ops[NextVersion(p)] /\ NextOp(p).version = NextVersion(p)
        /\ NextVersion(p) \in DOMAIN stored.ops /\ stored # NoDoc
    BY <1>2, AbsorbedOp, NextFacts DEF CopyOK
  <2>2. cache' = Store(NextVersion(p), stored.ops[NextVersion(p)].op)
    BY <1>2, <2>1 DEF Fill
  <2> QED
    BY <2>1, <2>2, CacheStored
<1>3. ASSUME NEW p \in Procs, CacheCommitted(p) PROVE CacheExact'
  <2>1. Kind(p) \in {"submit", "rollback"} /\ pc[p] = "store"
    BY <1>3, LabelsByKind DEF CacheCommitted, Kinds, Inv, TypeOK, ControlOK
  <2>2. /\ stored # NoDoc /\ stored.version = rec[p].version + 1
        /\ stored.ops[stored.version].op = acc[p].op
    BY <2>1 DEF Pending, Written, Writes
  <2>3. stored.version \in DOMAIN stored.ops
    <3>1. rec[p].version \in Nat /\ stored.version = Len(stored.ops) /\ IsSeq(stored.ops)
      BY <2>2 DEF Inv, TypeOK, LocalsOK, StoredOK, LogMatchesVersion
    <3>2. DOMAIN stored.ops = 1..stored.version /\ stored.version \in 1..stored.version
      BY <2>2, <3>1, IsSeqFacts
    <3> QED
      BY <3>2
  <2>4. UNCHANGED stored /\ cache' = Store(stored.version, stored.ops[stored.version].op)
    BY <1>3, <2>2 DEF CacheCommitted, backendVars
  <2> QED
    BY <2>2, <2>3, <2>4, CacheStored
<1>4. ASSUME UNCHANGED cache, \A p \in Procs : ~Clear(p) PROVE CacheExact'
  <2>1. (\A q \in Procs : pc'[q] # "clear") => (\A q \in Procs : pc[q] # "clear")
    BY <1>4, ClearStays DEF Inv
  <2>2. CASE UNCHANGED backendVars
    BY <1>4, <2>1, <2>2 DEF backendVars, CacheExact
  <2>3. ASSUME NEW p \in Procs, Create(p), ~UNCHANGED backendVars PROVE CacheExact'
    <3>1. stored = NoDoc
      BY <2>3 DEF Create
    <3>2. ASSUME NEW q \in Procs PROVE pc[q] # "clear"
      <4>1. Critical(p)
        BY <2>3, LabelsByKind DEF Create, Critical, Locking, Kinds, Inv, TypeOK, ControlOK
      <4>2. pc[q] = "clear" => Critical(q)
        BY LabelsByKind DEF Critical, Locking, Kinds, Inv, TypeOK, ControlOK
      <4>3. pc[p] = "create"
        BY <2>3 DEF Create
      <4> QED
        BY <4>1, <4>2, <4>3, OneCritical DEF Inv, LockedView
    <3>3. DOMAIN cache' = {}
      BY <1>4, <3>1, <3>2 DEF CacheExact
    <3> QED
      BY <3>3 DEF CacheExact
  <2>4. ASSUME NEW p \in Procs, Delete(p) PROVE CacheExact'
    <3>1. stored # NoDoc /\ stored' = NoDoc
      BY <2>4, WritesDelete
    <3>2. pc'[p] = "clear"
      BY <2>4, <3>1 DEF Delete, Goto, Inv, TypeOK, ControlOK
    <3> QED
      BY <3>1, <3>2 DEF CacheExact
  <2>5. ASSUME NEW p \in Procs, Commit(p) PROVE CacheExact'
    <3>1. /\ stored # NoDoc /\ stored' # NoDoc /\ IsSeq(stored.ops)
          /\ stored'.ops = Append(stored.ops, Entry(p))
      BY <2>5, CommitGrows
    <3>2. DOMAIN stored.ops \subseteq DOMAIN stored'.ops
          /\ \A v \in DOMAIN stored.ops : stored'.ops[v] = stored.ops[v]
      BY <3>1, AppendFacts
    <3> QED
      BY <1>4, <3>1, <3>2 DEF CacheExact
  <2> QED
    BY <2>2, <2>3, <2>4, <2>5, BackendStep
<1> QED
  BY <1>1, <1>2, <1>3, <1>4, CacheStep

\* HistoryInv is inductive where no stale operation can reach the cache.
THEOREM HistoryInvNext ==
  ASSUME NoDocIsNoRecord, NoStaleReads
  PROVE  HistoryInv /\ [Next]_vars => HistoryInv'
<1> SUFFICES ASSUME HistoryInv, [Next]_vars PROVE HistoryInv'
  OBVIOUS
<1>1. Inv' /\ Writes' /\ TrailOK' /\ InRequests'
  BY InvNext, WritesNext, TrailNext, RequestsNext DEF HistoryInv, Inv
<1>2. CacheExact' /\ \A p \in Procs : ReadOK(p)'
  BY CacheNext, ReadNext
<1> QED
  BY <1>1, <1>2 DEF HistoryInv

\* ... and so it always holds.
THEOREM HistoryInvCorrect ==
  ASSUME NoDocIsNoRecord, NoStaleReads PROVE Spec => []HistoryInv
<1>1. HistoryInv /\ [Next]_vars => HistoryInv'
  BY HistoryInvNext
<1> QED
  BY <1>1, HistoryInit, PTL DEF Spec

\* What getOrParseCommittedOperation finds in the cache is the operation of the
\* record, unless GetSnapshotAt and DeleteDocument are both called.
THEOREM CacheCoherentCorrect ==
  ASSUME NoDocIsNoRecord, NoStaleReads PROVE Spec => []CacheCoherent
<1>1. HistoryInv => CacheCoherent
  BY DEF HistoryInv, CacheExact, CacheCoherent
<1> QED
  BY <1>1, HistoryInvCorrect, PTL

-----------------------------------------------------------------------------
(***************************************************************************)
(* Rebasing.  VersionedDoc defines it by recursion over the log; a record  *)
(* more is one transformation more, which is shown by the least number for *)
(* which it would not be so.                                               *)
(***************************************************************************)

\* g holds op rebased over the records of l from version base on, up to n.
Rebases(g, op, l, base, n) ==
  g = [v \in base..n |-> IF v = base THEN op
                         ELSE IF g[v - 1] = Err THEN Err
                         ELSE TransformOp(g[v - 1], l[v].op)]

\* The recursion has a solution, however far.
LEMMA RebaseExists ==
  ASSUME NEW op, NEW l, NEW base \in Nat, NEW n \in Nat, base <= n
  PROVE  \E g : Rebases(g, op, l, base, n)
<1> DEFINE T == { k \in Nat : base <= k /\ ~ \E g : Rebases(g, op, l, base, k) }
<1> SUFFICES ASSUME T # {} PROVE FALSE
  OBVIOUS
<1>1. PICK k \in T : \A j \in T : k <= j
  <2>1. T \subseteq Nat
    OBVIOUS
  <2> HIDE DEF T
  <2> QED
    BY <2>1, LeastNat
<1>2. k # base
  <2>1. Rebases([v \in base..base |-> op], op, l, base, base)
    BY DEF Rebases
  <2> QED
    BY <1>1, <2>1
<1>3. PICK g : Rebases(g, op, l, base, k - 1)
  <2>1. k - 1 \in Nat /\ base <= k - 1 /\ k - 1 \notin T
    BY <1>1, <1>2
  <2> QED
    BY <2>1
<1> DEFINE h == [v \in base..k |-> IF v = k THEN IF g[k - 1] = Err THEN Err
                                                  ELSE TransformOp(g[k - 1], l[k].op)
                                   ELSE g[v]]
<1>4. ASSUME NEW v \in base..k
      PROVE  h[v] = IF v = base THEN op
                    ELSE IF h[v - 1] = Err THEN Err ELSE TransformOp(h[v - 1], l[v].op)
  <2>1. k \in Nat /\ base < k
    BY <1>1, <1>2
  <2>2. CASE v = k
    <3>1. h[v - 1] = g[k - 1] /\ v # base
      BY <2>1, <2>2
    <3> QED
      BY <2>2, <3>1
  <2>3. CASE v # k
    <3>1. v \in base..(k - 1) /\ h[v] = g[v] /\ (v # base => h[v - 1] = g[v - 1])
      BY <2>1, <2>3
    <3>2. g[v] = IF v = base THEN op
                 ELSE IF g[v - 1] = Err THEN Err ELSE TransformOp(g[v - 1], l[v].op)
      BY <1>3, <3>1 DEF Rebases
    <3> QED
      BY <3>1, <3>2
  <2> QED
    BY <2>2, <2>3
<1>5. Rebases(h, op, l, base, k)
  BY <1>4 DEF Rebases
<1> QED
  BY <1>1, <1>5

\* Two solutions agree on what they both cover, if the records they go through do.
LEMMA RebaseUnique ==
  ASSUME NEW op, NEW l, NEW m, NEW base \in Nat, NEW i \in Nat, NEW j \in Nat,
         base <= i, i <= j, \A v \in (base + 1)..i : l[v] = m[v],
         NEW f, NEW g, Rebases(f, op, l, base, i), Rebases(g, op, m, base, j)
  PROVE  f[i] = g[i]
<1> DEFINE T == { k \in base..i : f[k] # g[k] }
<1> SUFFICES ASSUME T # {} PROVE FALSE
  <2>1. i \in base..i
    OBVIOUS
  <2> QED
    BY <2>1
<1>1. PICK k \in T : \A x \in T : k <= x
  <2>1. T \subseteq Nat
    OBVIOUS
  <2> HIDE DEF T
  <2> QED
    BY <2>1, LeastNat
<1>2. k # base
  BY <1>1 DEF Rebases
<1>3. k - 1 \in base..i /\ k - 1 < k
  BY <1>1, <1>2
<1>4. f[k - 1] = g[k - 1]
  <2>1. k - 1 \notin T
    BY <1>1, <1>3
  <2> QED
    BY <1>3, <2>1
<1>5. l[k] = m[k] /\ k \in base..i /\ k \in base..j
  BY <1>1, <1>2
<1>6. f[k] = IF f[k - 1] = Err THEN Err ELSE TransformOp(f[k - 1], l[k].op)
  BY <1>2, <1>5 DEF Rebases
<1>7. g[k] = IF g[k - 1] = Err THEN Err ELSE TransformOp(g[k - 1], m[k].op)
  BY <1>2, <1>5 DEF Rebases
<1> QED
  BY <1>1, <1>4, <1>5, <1>6, <1>7

\* RebaseOver follows its recursion.
LEMMA RebaseUnrolls ==
  ASSUME NEW op, NEW l, NEW base \in Nat, Len(l) \in Nat, base <= Len(l)
  PROVE  \E g : Rebases(g, op, l, base, Len(l))
                /\ History!RebaseOver(op, l, base) = g[Len(l)]
<1> DEFINE F == CHOOSE g : g = [v \in base..Len(l) |->
                                  IF v = base THEN op
                                  ELSE IF g[v - 1] = Err THEN Err
                                  ELSE TransformOp(g[v - 1], l[v].op)]
<1>1. \E g : g = [v \in base..Len(l) |->
                    IF v = base THEN op
                    ELSE IF g[v - 1] = Err THEN Err
                    ELSE TransformOp(g[v - 1], l[v].op)]
  <2>1. PICK g : Rebases(g, op, l, base, Len(l))
    BY RebaseExists
  <2> QED
    BY <2>1 DEF Rebases
<1>2. F = [v \in base..Len(l) |-> IF v = base THEN op
                                  ELSE IF F[v - 1] = Err THEN Err
                                  ELSE TransformOp(F[v - 1], l[v].op)]
  BY <1>1
<1>3. History!RebaseOver(op, l, base) = F[Len(l)]
  BY DEF History!RebaseOver
<1> QED
  BY <1>2, <1>3 DEF Rebases

\* Nothing to rebase over leaves the operation as it is.
LEMMA RebaseNothing ==
  ASSUME NEW op, NEW l, Len(l) \in Nat
  PROVE  History!RebaseOver(op, l, Len(l)) = op
<1>1. PICK g : Rebases(g, op, l, Len(l), Len(l)) /\ History!RebaseOver(op, l, Len(l)) = g[Len(l)]
  BY RebaseUnrolls
<1> QED
  BY <1>1 DEF Rebases

\* A record more is a transformation more.
LEMMA RebaseOnce ==
  ASSUME NEW op, NEW l, NEW m, NEW base \in Nat, IsSeq(l), IsSeq(m),
         base <= Len(l), Len(m) = Len(l) + 1, \A v \in 1..Len(l) : m[v] = l[v]
  PROVE  History!RebaseOver(op, m, base) =
           IF History!RebaseOver(op, l, base) = Err THEN Err
           ELSE TransformOp(History!RebaseOver(op, l, base), m[Len(m)].op)
<1>1. PICK n \in Nat : n = Len(l)
  BY IsSeqFacts
<1>2. PICK f : Rebases(f, op, l, base, n) /\ History!RebaseOver(op, l, base) = f[n]
  BY <1>1, RebaseUnrolls
<1>3. PICK g : Rebases(g, op, m, base, n + 1) /\ History!RebaseOver(op, m, base) = g[n + 1]
  <2>1. Len(m) = n + 1 /\ Len(m) \in Nat /\ base <= Len(m)
    BY <1>1
  <2> QED
    BY <2>1, RebaseUnrolls
<1>4. f[n] = g[n]
  BY <1>1, <1>2, <1>3, RebaseUnique
<1>5. g[n + 1] = IF g[n] = Err THEN Err ELSE TransformOp(g[n], m[n + 1].op)
  BY <1>1, <1>3 DEF Rebases
<1> QED
  BY <1>1, <1>2, <1>3, <1>4, <1>5

\* What a submission has made of its payload: it is rebased over the log from
\* its base version up to the first record it has still to go through.
RebaseOK(p) ==
  Working(p) /\ Kind(p) = "submit" =>
    /\ acc[p].op # Err
    /\ acc[p].op = History!RebaseOver(req[p].payload, SubSeq(stored.ops, 1, First(p)),
                                      req[p].base)

\* A payload is rebased over nothing when the records are fetched ...
LEMMA RebaseStarts ==
  ASSUME HistoryInv, NEW p \in Procs, Parse(p) PROVE RebaseOK(p)'
<1> USE DEF HistoryInv, Inv, TypeOK, ControlOK, LocalsOK
<1> SUFFICES ASSUME Working(p)'
             PROVE  /\ acc'[p].op # Err
                    /\ acc'[p].op = History!RebaseOver(req[p].payload,
                                      SubSeq(stored.ops, 1, First(p)'), req[p].base)
  BY DEF RebaseOK, Parse, backendVars
<1>1. /\ pc[p] = "parse" /\ Kind(p) = "submit" /\ Reader(p) /\ CopyOK(p)
      /\ UNCHANGED <<stored, rec, req>>
  BY LabelsByKind DEF Parse, Kinds, Reader, Deciding, ReadOK, backendVars
<1>2. pc'[p] = "work"
  BY DEF Parse, Fail, Return, Goto, Working, Reader, Deciding
<1>3. /\ acc' = [acc EXCEPT ![p] = [op |-> req[p].payload, doc |-> rec[p].doc]]
      /\ ops' = [ops EXCEPT ![p] = IF req[p].base < rec[p].version
                                   THEN GetOps(req[p].base, rec[p].version) ELSE <<>>]
  BY <1>1, <1>2 DEF Parse, Fail, Return, Goto
<1>4. req[p].payload # Err
  BY <1>1, RequestAssumption DEF InRequests
<1>5. req[p].base \in Nat /\ rec[p].version \in Nat /\ req[p].base <= rec[p].version
      /\ rec[p].version <= stored.version /\ stored # NoDoc
  BY <1>1 DEF CopyOK
<1>6. Len(ops'[p]) = rec[p].version - req[p].base
  <2>1. CASE req[p].base < rec[p].version
    <3>1. ops'[p] = GetOps(req[p].base, rec[p].version)
      BY <1>3, <2>1
    <3> QED
      BY <1>5, <3>1, GetOpsSlice
  <2>2. CASE req[p].base = rec[p].version
    <3>1. ops'[p] = <<>>
      BY <1>3, <1>5, <2>2
    <3> QED
      BY <1>5, <2>2, <3>1, EmptyIsSeq
  <2> QED
    BY <1>5, <2>1, <2>2
<1>7. First(p)' = req[p].base
  BY <1>1, <1>5, <1>6 DEF First, Kind
<1>8. Len(SubSeq(stored.ops, 1, req[p].base)) = req[p].base
  <2>1. IsSeq(stored.ops) /\ req[p].base \in 0..Len(stored.ops)
    BY <1>5, IsSeqFacts DEF StoredOK, LogMatchesVersion
  <2> QED
    BY <2>1, PrefixAppend
<1>9. History!RebaseOver(req[p].payload, SubSeq(stored.ops, 1, req[p].base), req[p].base)
        = req[p].payload
  BY <1>5, <1>8, RebaseNothing
<1> QED
  BY <1>3, <1>4, <1>7, <1>9

\* ... and over one record more with every record taken in.
LEMMA RebaseGoesOn ==
  ASSUME HistoryInv, NEW p \in Procs, RebaseOK(p), Hit(p) \/ Fill(p)
  PROVE  RebaseOK(p)'
<1> USE DEF HistoryInv, Inv, TypeOK, ControlOK, LocalsOK
<1>1. /\ Working(p) /\ ops[p] # <<>>
      /\ Absorb(p, stored.ops[NextVersion(p)].op) /\ UNCHANGED <<stored, rec, req>>
  BY AbsorbedOp
<1> SUFFICES ASSUME Working(p)', Kind(p) = "submit"
             PROVE  /\ acc'[p].op # Err
                    /\ acc'[p].op = History!RebaseOver(req[p].payload,
                                      SubSeq(stored.ops, 1, First(p)'), req[p].base)
  BY <1>1 DEF RebaseOK, Kind
<1>2. PICK f : f = First(p)
  OBVIOUS
<1>3. /\ f \in Nat /\ NextVersion(p) = f + 1 /\ f + 1 \in 1..Len(stored.ops)
      /\ stored # NoDoc /\ IsSeq(stored.ops) /\ req[p].base \in Nat /\ req[p].base <= f
  <2>1. CopyOK(p) /\ SliceOK(p) /\ First(p) \in Nat /\ NextVersion(p) \in DOMAIN stored.ops
    BY <1>1, NextFacts
  <2>2. IsSeq(stored.ops) /\ stored # NoDoc
    BY <2>1 DEF CopyOK, StoredOK
  <2> QED
    BY <1>2, <2>1, <2>2, IsSeqFacts DEF CopyOK, SliceOK, NextVersion
<1>4. Rebase(p, stored.ops[f + 1].op) # Err
      /\ acc' = [acc EXCEPT ![p] = Rebase(p, stored.ops[f + 1].op)]
      /\ ops' = [ops EXCEPT ![p] = OtherOps(p)]
  <2>1. pc'[p] \notin {"unlock", "idle"}
    BY DEF Working, Reader, Deciding
  <2>2. ~ \E why : Fail(p, why)
    BY <2>1 DEF Fail, Return
  <2> QED
    BY <1>1, <1>3, <2>2 DEF Absorb
<1>5. LET transformed == TransformOp(acc[p].op, stored.ops[f + 1].op)
      IN  transformed # Err /\ acc'[p].op = transformed
  BY <1>4 DEF Rebase
<1>6. First(p)' = f + 1
  BY <1>1, <1>2, <1>4, AbsorbedSlice
<1> DEFINE l == SubSeq(stored.ops, 1, f)
           m == SubSeq(stored.ops, 1, f + 1)
<1>7. /\ IsSeq(l) /\ Len(l) = f /\ IsSeq(m) /\ Len(m) = f + 1
      /\ (\A v \in 1..f : l[v] = stored.ops[v]) /\ (\A v \in 1..(f + 1) : m[v] = stored.ops[v])
  <2>1. f \in 0..Len(stored.ops) /\ f + 1 \in 0..Len(stored.ops)
    BY <1>3
  <2> QED
    BY <1>3, <2>1, PrefixAppend
<1>8. acc[p].op # Err /\ acc[p].op = History!RebaseOver(req[p].payload, l, req[p].base)
  BY <1>1, <1>2 DEF RebaseOK
<1> HIDE DEF l, m
<1>9. \A v \in 1..Len(l) : m[v] = l[v]
  BY <1>3, <1>7
<1>10. m[Len(m)] = stored.ops[f + 1]
  BY <1>3, <1>7
<1>11. History!RebaseOver(req[p].payload, m, req[p].base)
         = TransformOp(acc[p].op, stored.ops[f + 1].op)
  <2>1. PICK b \in Nat : b = req[p].base /\ b <= Len(l) /\ Len(m) = Len(l) + 1
    BY <1>3, <1>7
  <2>2. PICK op : op = req[p].payload
    OBVIOUS
  <2>3. History!RebaseOver(op, m, b) =
          IF History!RebaseOver(op, l, b) = Err THEN Err
          ELSE TransformOp(History!RebaseOver(op, l, b), m[Len(m)].op)
    <3>1. IsSeq(l) /\ IsSeq(m) /\ b <= Len(l) /\ Len(m) = Len(l) + 1
      BY <1>7, <2>1
    <3> QED
      BY <1>9, <3>1, RebaseOnce, Zenon
  <2>4. acc[p].op # Err /\ acc[p].op = History!RebaseOver(op, l, b)
    BY <1>8, <2>1, <2>2
  <2>5. History!RebaseOver(op, m, b) = TransformOp(acc[p].op, m[Len(m)].op)
    BY <2>3, <2>4
  <2>6. History!RebaseOver(op, m, b) = TransformOp(acc[p].op, stored.ops[f + 1].op)
    BY <1>10, <2>5
  <2> QED
    BY <2>1, <2>2, <2>6
<1> QED
  BY <1>5, <1>6, <1>11 DEF m

\* What another call does leaves a submission's work alone.
LEMMA RebaseOthers ==
  ASSUME NoDocIsNoRecord, NoStaleReads, HistoryInv, NEW p \in Procs, NEW q \in Procs, q # p,
         RebaseOK(q), Call(p) \/ Lock(p) \/ Step(p)
  PROVE  RebaseOK(q)'
<1>1. /\ pc'[q] = pc[q] /\ req'[q] = req[q] /\ rec'[q] = rec[q] /\ ops'[q] = ops[q]
      /\ acc'[q] = acc[q]
  BY StepFrame DEF Others, HistoryInv, Inv
<1>2. (Working(q)' <=> Working(q)) /\ First(q)' = First(q)
  BY <1>1 DEF Reader, Working, First, Kind
<1>3. Working(q) /\ Kind(q) = "submit" => UNCHANGED stored
  BY ReaderGrows DEF Working
<1> QED
  BY <1>1, <1>2, <1>3 DEF RebaseOK, Kind

\* Every step leaves a submission's operation rebased up to where it is.
LEMMA RebaseNext ==
  ASSUME NoDocIsNoRecord, NoStaleReads, HistoryInv, [Next]_vars, NEW q \in Procs, RebaseOK(q)
  PROVE  RebaseOK(q)'
<1>1. ASSUME UNCHANGED <<stored, pc, req, rec, ops, acc>> PROVE RebaseOK(q)'
  BY <1>1 DEF RebaseOK, Reader, Working, First, Kind
<1>2. ASSUME NEW p \in Procs, p # q, Call(p) \/ Lock(p) \/ Step(p) PROVE RebaseOK(q)'
  BY <1>2, RebaseOthers
<1>3. ASSUME Call(q) \/ Lock(q) \/ Step(q) PROVE RebaseOK(q)'
  <2> USE DEF HistoryInv, Inv, TypeOK, ControlOK, LocalsOK
  <2>1. CASE ReadForSubmit(q) \/ ReadForRollback(q) \/ ReadForSnapshot(q) \/ Dedup(q) \/ CheckRange(q)
    <3>1. pc'[q] \in {"unlock", "idle", "dedup", "parse", "opsDoc", "opsGet"}
      BY <2>1 DEF ReadForSubmit, ReadForRollback, ReadForSnapshot, Dedup, CheckRange, Fail,
                  Return, Goto
    <3> QED
      BY <3>1 DEF RebaseOK, Working
  <2>2. CASE Parse(q)
    BY <2>2, RebaseStarts
  <2>3. CASE FetchRange(q)
    <3>1. Kind(q)' = Kind(q) /\ Kind(q) # "submit"
      BY <2>3, LabelsByKind DEF FetchRange, Kind, Kinds
    <3> QED
      BY <3>1 DEF RebaseOK
  <2>4. CASE Hit(q) \/ Fill(q)
    BY <2>4, RebaseGoesOn
  <2>5. CASE Miss(q)
    <3>1. /\ UNCHANGED <<stored, req, rec, ops, acc>> /\ pc[q] = "work" /\ pc'[q] = "fill"
      BY <2>5 DEF Miss, Goto, backendVars, localVars
    <3> QED
      BY <3>1 DEF RebaseOK, Working, Reader, Deciding, First, Kind
  <2>6. CASE Finish(q)
    <3>1. /\ UNCHANGED <<stored, req, rec, ops>> /\ pc[q] = "work"
      BY <2>6 DEF Finish, backendVars
    <3>2. Kind(q) = "submit" => acc'[q].op = acc[q].op
      <4>1. \/ UNCHANGED acc
            \/ \E doc : acc' = [acc EXCEPT ![q].doc = doc]
            \/ Kind(q) # "submit"
        BY <2>6 DEF Finish
      <4>2. ASSUME NEW doc, acc' = [acc EXCEPT ![q].doc = doc] PROVE acc'[q].op = acc[q].op
        BY <4>2
      <4> QED
        BY <4>1, <4>2
    <3>3. Kind(q) = "submit" => Working(q)
      BY <3>1 DEF Working, Reader, Deciding
    <3> QED
      BY <3>1, <3>2, <3>3 DEF RebaseOK, First, Kind
  <2>7. CASE \/ Call(q) \/ Lock(q) \/ Unlock(q) \/ Create(q) \/ ReadForDelete(q) \/ Delete(q)
             \/ Clear(q) \/ Commit(q) \/ CacheCommitted(q) \/ Announce(q)
    <3>1. ~Reader(q)'
      BY <2>7, ReadNot
    <3> QED
      BY <3>1 DEF RebaseOK, Working
  <2> QED
    BY <1>3, <2>1, <2>2, <2>3, <2>4, <2>5, <2>6, <2>7 DEF Step
<1>4. ASSUME NEW s \in Subs, SubscriberStep(s) PROVE RebaseOK(q)'
  <2>1. UNCHANGED <<stored, pc, req, rec, ops, acc>>
    BY <1>4 DEF SubscriberStep, SubscribeCheck, Subscribe, Cancel, Receive, backendVars,
                localVars
  <2> QED
    BY <2>1, <1>1
<1> QED
  BY <1>1, <1>2, <1>3, <1>4 DEF Next, Terminated, vars

\* What a submission commits is its payload rebased over the whole log since
\* its base version; what a rollback commits is rebased over nothing.
LEMMA RebaseCommitted ==
  ASSUME NoDocIsNoRecord, HistoryInv, NEW p \in Procs, RebaseOK(p), Commit(p)
  PROVE  LET e == Entry(p)
         IN  e.op = History!RebaseOver(e.sub, SubSeq(stored.ops, 1, stored.version), e.base)
<1> USE DEF HistoryInv, Inv, TypeOK, ControlOK, LocalsOK
<1>1. /\ stored # NoDoc /\ rec[p].version = stored.version /\ stored.version = Len(stored.ops)
      /\ IsSeq(stored.ops) /\ stored.version \in Nat
  BY WritesCommit DEF StoredOK, LogMatchesVersion
<1>2. Kind(p) \in {"submit", "rollback"} /\ pc[p] = "commit"
  BY LabelsByKind DEF Commit, Kinds
<1>3. CASE Kind(p) = "submit"
  <2>1. Working(p) /\ ops[p] = <<>>
    BY <1>2 DEF Working, Reader, Deciding, ReadOK, SliceOK
  <2>2. First(p) = stored.version
    BY <1>1, <1>3, <2>1 DEF First
  <2>3. acc[p].op = History!RebaseOver(req[p].payload, SubSeq(stored.ops, 1, stored.version),
                                       req[p].base)
    BY <1>3, <2>1, <2>2 DEF RebaseOK
  <2> QED
    BY <1>3, <2>3 DEF Entry
<1>4. CASE Kind(p) = "rollback"
  <2> DEFINE l == SubSeq(stored.ops, 1, stored.version)
  <2>1. Len(l) = stored.version
    BY <1>1, PrefixAppend
  <2> HIDE DEF l
  <2>2. \A op : History!RebaseOver(op, l, stored.version) = op
    BY <1>1, <2>1, RebaseNothing
  <2>3. Entry(p).op = acc[p].op /\ Entry(p).sub = acc[p].op /\ Entry(p).base = stored.version
    BY <1>1, <1>4 DEF Entry
  <2> QED
    BY <2>2, <2>3 DEF l
<1> QED
  BY <1>2, <1>3, <1>4

\* So the log keeps the property with every record.
LEMMA RebasedNext ==
  ASSUME NoDocIsNoRecord, HistoryInv, \A p \in Procs : RebaseOK(p), RebasedOverLog,
         [Next]_vars
  PROVE  RebasedOverLog'
<1>1. CASE UNCHANGED backendVars
  BY <1>1 DEF backendVars, RebasedOverLog
<1>2. ASSUME NEW p \in Procs, Create(p), ~UNCHANGED backendVars PROVE RebasedOverLog'
  <2>1. stored'.ops = <<>>
    BY <1>2 DEF Create, CreateDoc
  <2>2. DOMAIN stored'.ops = {}
    BY <2>1, EmptyIsSeq
  <2> QED
    BY <2>2 DEF RebasedOverLog
<1>3. ASSUME NEW p \in Procs, Delete(p) PROVE RebasedOverLog'
  <2>1. stored' = NoDoc
    BY <1>3, WritesDelete DEF HistoryInv
  <2> QED
    BY <2>1 DEF RebasedOverLog
<1>4. ASSUME NEW p \in Procs, Commit(p) PROVE RebasedOverLog'
  <2> DEFINE log == stored.ops
             n == stored.version
  <2>1. PICK e : e = Entry(p)
    OBVIOUS
  <2>2. /\ stored # NoDoc /\ n \in Nat /\ IsSeq(log) /\ Len(log) = n
        /\ stored'.ops = Append(log, e)
    BY <1>4, <2>1, CommitGrows DEF HistoryInv
  <2>3. e.op = History!RebaseOver(e.sub, SubSeq(log, 1, n), e.base)
    BY <1>4, <2>1, RebaseCommitted
  <2>4. \A v \in DOMAIN log :
          log[v].op = History!RebaseOver(log[v].sub, SubSeq(log, 1, v - 1), log[v].base)
    BY <2>2 DEF RebasedOverLog
  <2> HIDE DEF log, n
  <2> DEFINE more == Append(log, e)
  <2>5. /\ DOMAIN more = DOMAIN log \cup {n + 1} /\ DOMAIN log = 1..n
        /\ (\A i \in DOMAIN log : more[i] = log[i]) /\ more[n + 1] = e
    BY <2>2, AppendFacts, IsSeqFacts
  <2>6. \A k \in 0..n : SubSeq(more, 1, k) = SubSeq(log, 1, k)
    BY <2>2, PrefixAppend
  <2> HIDE DEF more
  <2>7. ASSUME NEW v \in DOMAIN more
        PROVE  more[v].op =
                 History!RebaseOver(more[v].sub, SubSeq(more, 1, v - 1), more[v].base)
    <3>1. CASE v = n + 1
      <4>1. v - 1 = n /\ n \in 0..n
        BY <2>2, <3>1
      <4>2. SubSeq(more, 1, v - 1) = SubSeq(log, 1, n) /\ more[v] = e
        BY <2>5, <2>6, <3>1, <4>1
      <4> QED
        BY <2>3, <4>2
    <3>2. CASE v \in DOMAIN log
      <4>1. v - 1 \in 0..n
        BY <2>2, <2>5, <3>2
      <4>2. SubSeq(more, 1, v - 1) = SubSeq(log, 1, v - 1) /\ more[v] = log[v]
        BY <2>5, <2>6, <3>2, <4>1
      <4> QED
        BY <2>4, <3>2, <4>2
    <3> QED
      BY <2>5, <3>1, <3>2
  <2>8. stored'.ops = more
    BY <2>2 DEF more
  <2> QED
    BY <2>7, <2>8 DEF RebasedOverLog
<1> QED
  BY <1>1, <1>2, <1>3, <1>4, BackendStep

\* Submissions are transformed, in order, over exactly the records between their
\* base version and their own, unless GetSnapshotAt and DeleteDocument are both
\* called: whatever is in the cache, and whoever else submits meanwhile.
THEOREM RebasedOverLogCorrect ==
  ASSUME NoDocIsNoRecord, NoStaleReads PROVE Spec => []RebasedOverLog
<1> DEFINE RebaseInv == (\A p \in Procs : RebaseOK(p)) /\ RebasedOverLog
<1>1. Init => RebaseInv
  BY DEF Init, RebaseOK, Working, Reader, Deciding, RebasedOverLog
<1>2. HistoryInv /\ RebaseInv /\ [Next]_vars => RebaseInv'
  <2> SUFFICES ASSUME HistoryInv, RebaseInv, [Next]_vars PROVE RebaseInv'
    OBVIOUS
  <2>1. \A p \in Procs : RebaseOK(p)'
    BY RebaseNext
  <2>2. RebasedOverLog'
    BY RebasedNext
  <2> QED
    BY <2>1, <2>2
<1>3. RebaseInv => RebasedOverLog
  OBVIOUS
<1>4. Spec => []HistoryInv
  BY HistoryInvCorrect
<1> HIDE DEF RebaseInv
<1> QED
  BY <1>1, <1>2, <1>3, <1>4, PTL DEF Spec

-----------------------------------------------------------------------------
(***************************************************************************)
(* Undoing.  Where the inverse of every record undoes it, going back along *)
(* the log from a copy of the document leads to the documents it was.      *)
(***************************************************************************)

\* The records a call undoes can be undone.
Undoable(p) ==
  \A v \in (req[p].base + 1)..rec[p].version :
    ApplyOp(trail[v + 1], InvertOp(stored.ops[v].op)) = trail[v]

\* How far back a call has got.
UndoOK(p) ==
  Working(p) /\ Kind(p) # "submit" /\ Undoable(p) =>
    acc[p].doc = trail[First(p) + Len(ops[p]) + 1]

\* The way back starts at the document of the copy ...
LEMMA UndoStarts ==
  ASSUME HistoryInv, NEW p \in Procs, FetchRange(p) PROVE UndoOK(p)'
<1> USE DEF HistoryInv, Inv, TypeOK, ControlOK, LocalsOK
<1>1. UNCHANGED <<stored, trail, req, rec>> /\ pc[p] = "opsGet"
  BY DEF FetchRange, backendVars
<1> SUFFICES ASSUME Working(p)', Kind(p) # "submit"
             PROVE  acc'[p].doc = trail[First(p)' + Len(ops'[p]) + 1]
  BY <1>1 DEF UndoOK, Kind
<1>2. pc'[p] = "work"
  BY DEF FetchRange, Fail, Return, Goto, Working, Reader, Deciding
<1>3. Reader(p) /\ CopyOK(p)
  BY <1>1 DEF Working, Reader, Deciding, Kind, ReadOK
<1>4. Kind(p) # "getOps" /\ From(p) = req[p].base /\ To(p) = rec[p].version
  BY <1>3 DEF Reader, From, To
<1>5. /\ acc' = [acc EXCEPT ![p] = [op |-> NoOp, doc |-> rec[p].doc]]
      /\ ops' = [ops EXCEPT ![p] = GetOps(req[p].base, rec[p].version)]
  BY <1>2, <1>4 DEF FetchRange, Fail, Return, Goto
<1>6. Len(ops'[p]) = rec[p].version - req[p].base
      /\ rec[p].version \in Nat /\ req[p].base \in Nat
  <2>1. /\ stored # NoDoc /\ req[p].base \in Nat /\ rec[p].version \in Nat
        /\ req[p].base <= rec[p].version /\ rec[p].version <= stored.version
    BY <1>3 DEF CopyOK
  <2> QED
    BY <1>5, <2>1, GetOpsSlice
<1>7. First(p)' = req[p].base
  BY <1>1 DEF First, Kind
<1>8. First(p)' + Len(ops'[p]) + 1 = rec[p].version + 1
  BY <1>6, <1>7
<1> QED
  BY <1>3, <1>5, <1>8 DEF CopyOK

\* ... and goes one document back with every record.
LEMMA UndoGoesOn ==
  ASSUME HistoryInv, NEW p \in Procs, UndoOK(p), Hit(p) \/ Fill(p)
  PROVE  UndoOK(p)'
<1> USE DEF HistoryInv, Inv, TypeOK, ControlOK, LocalsOK
<1>1. /\ Working(p) /\ ops[p] # <<>>
      /\ Absorb(p, stored.ops[NextVersion(p)].op) /\ UNCHANGED <<stored, trail, rec, req>>
  BY AbsorbedOp
<1>2. Undoable(p)' <=> Undoable(p)
  BY <1>1 DEF Undoable
<1> SUFFICES ASSUME Working(p)', Kind(p) # "submit", Undoable(p)
             PROVE  acc'[p].doc = trail[First(p)' + Len(ops'[p]) + 1]
  BY <1>1, <1>2 DEF UndoOK, Kind
<1>3. PICK v : v = NextVersion(p)
  OBVIOUS
<1>4. /\ v \in Nat /\ v \in (req[p].base + 1)..rec[p].version
      /\ v = First(p) + Len(ops[p]) /\ First(p) \in Nat /\ Len(ops[p]) \in Nat
  <2>1. /\ SliceOK(p) /\ First(p) \in Nat /\ Len(ops[p]) \in Nat \ {0}
        /\ v \in 1..rec[p].version
    BY <1>1, <1>3, NextFacts
  <2>2. v = First(p) + Len(ops[p]) /\ First(p) = req[p].base
    BY <1>3 DEF NextVersion, First
  <2> QED
    BY <2>1, <2>2
<1>5. Undo(p, stored.ops[v].op) # Err
      /\ acc' = [acc EXCEPT ![p] = Undo(p, stored.ops[v].op)]
      /\ ops' = [ops EXCEPT ![p] = OtherOps(p)]
  <2>1. pc'[p] \notin {"unlock", "idle"}
    BY DEF Working, Reader, Deciding
  <2>2. ~ \E why : Fail(p, why)
    BY <2>1 DEF Fail, Return
  <2> QED
    BY <1>1, <1>3, <2>2 DEF Absorb
<1>6. acc'[p].doc = ApplyOp(acc[p].doc, InvertOp(stored.ops[v].op))
  BY <1>5 DEF Undo
<1>7. First(p)' = First(p) /\ Len(ops'[p]) = Len(ops[p]) - 1
  BY <1>1, <1>5, AbsorbedSlice
<1>8. acc[p].doc = trail[v + 1]
  BY <1>1, <1>4 DEF UndoOK
<1>9. ApplyOp(trail[v + 1], InvertOp(stored.ops[v].op)) = trail[v]
  BY <1>4 DEF Undoable
<1>10. First(p)' + Len(ops'[p]) + 1 = v
  BY <1>4, <1>7
<1> QED
  BY <1>6, <1>8, <1>9, <1>10

\* What another call does leaves the way back alone.
LEMMA UndoOthers ==
  ASSUME NoDocIsNoRecord, NoStaleReads, HistoryInv, NEW p \in Procs, NEW q \in Procs, q # p,
         UndoOK(q), Call(p) \/ Lock(p) \/ Step(p)
  PROVE  UndoOK(q)'
<1> USE DEF HistoryInv, Inv, TypeOK, ControlOK, LocalsOK
<1>1. /\ pc'[q] = pc[q] /\ req'[q] = req[q] /\ rec'[q] = rec[q] /\ ops'[q] = ops[q]
      /\ acc'[q] = acc[q]
  BY StepFrame DEF Others
<1>2. (Working(q)' <=> Working(q)) /\ First(q)' = First(q) /\ Kind(q)' = Kind(q)
  BY <1>1 DEF Reader, Working, First, Kind
<1> SUFFICES ASSUME Working(q), Kind(q) # "submit", Undoable(q)'
             PROVE  acc[q].doc = trail'[First(q) + Len(ops[q]) + 1]
  BY <1>1, <1>2 DEF UndoOK
<1>3. Grows /\ CopyOK(q) /\ SliceOK(q)
  BY ReaderGrows DEF Working, ReadOK
<1>4. /\ rec[q].version \in Nat /\ rec[q].version <= stored.version /\ req[q].base \in Nat
      /\ stored.version \in Nat
  BY <1>3 DEF CopyOK, StoredOK
<1>5. Undoable(q)
  <2>1. ASSUME NEW v \in (req[q].base + 1)..rec[q].version
        PROVE  ApplyOp(trail[v + 1], InvertOp(stored.ops[v].op)) = trail[v]
    <3>1. v \in 1..stored.version /\ v + 1 \in 1..(stored.version + 1)
          /\ v \in 1..(stored.version + 1)
      BY <1>4
    <3>2. stored'.ops[v] = stored.ops[v] /\ trail'[v + 1] = trail[v + 1] /\ trail'[v] = trail[v]
      BY <1>3, <3>1 DEF Grows
    <3>3. ApplyOp(trail'[v + 1], InvertOp(stored'.ops[v].op)) = trail'[v]
      BY <1>1 DEF Undoable
    <3> QED
      BY <3>2, <3>3
  <2> QED
    BY <2>1 DEF Undoable
<1>6. acc[q].doc = trail[First(q) + Len(ops[q]) + 1]
  BY <1>5 DEF UndoOK
<1>7. First(q) + Len(ops[q]) + 1 \in 1..(stored.version + 1)
  <2>1. Len(ops[q]) \in Nat
    BY IsSeqFacts
  <2>2. First(q) = req[q].base /\ First(q) + Len(ops[q]) <= rec[q].version
    BY <1>3 DEF First, SliceOK
  <2> QED
    BY <1>4, <2>1, <2>2
<1> QED
  BY <1>3, <1>6, <1>7 DEF Grows

\* Every step keeps a call on its way back.
LEMMA UndoNext ==
  ASSUME NoDocIsNoRecord, NoStaleReads, HistoryInv, [Next]_vars, NEW q \in Procs, UndoOK(q)
  PROVE  UndoOK(q)'
<1>1. ASSUME UNCHANGED <<stored, trail, pc, req, rec, ops, acc>> PROVE UndoOK(q)'
  BY <1>1 DEF UndoOK, Undoable, Reader, Working, First, Kind
<1>2. ASSUME NEW p \in Procs, p # q, Call(p) \/ Lock(p) \/ Step(p) PROVE UndoOK(q)'
  BY <1>2, UndoOthers
<1>3. ASSUME Call(q) \/ Lock(q) \/ Step(q) PROVE UndoOK(q)'
  <2> USE DEF HistoryInv, Inv, TypeOK, ControlOK, LocalsOK
  <2>1. CASE ReadForSubmit(q) \/ ReadForRollback(q) \/ ReadForSnapshot(q) \/ Dedup(q) \/ CheckRange(q)
    <3>1. pc'[q] \in {"unlock", "idle", "dedup", "parse", "opsDoc", "opsGet"}
      BY <2>1 DEF ReadForSubmit, ReadForRollback, ReadForSnapshot, Dedup, CheckRange, Fail,
                  Return, Goto
    <3> QED
      BY <3>1 DEF UndoOK, Working
  <2>2. CASE Parse(q)
    <3>1. Kind(q)' = Kind(q) /\ Kind(q) = "submit"
      BY <2>2, LabelsByKind DEF Parse, Kind, Kinds
    <3> QED
      BY <3>1 DEF UndoOK
  <2>3. CASE FetchRange(q)
    BY <2>3, UndoStarts
  <2>4. CASE Hit(q) \/ Fill(q)
    BY <2>4, UndoGoesOn
  <2>5. CASE Miss(q)
    <3>1. /\ UNCHANGED <<stored, trail, req, rec, ops, acc>> /\ pc[q] = "work"
          /\ pc'[q] = "fill"
      BY <2>5 DEF Miss, Goto, backendVars, localVars
    <3> QED
      BY <3>1 DEF UndoOK, Undoable, Working, Reader, Deciding, First, Kind
  <2>6. CASE Finish(q)
    <3>1. /\ UNCHANGED <<stored, trail, req, rec, ops>> /\ pc[q] = "work"
      BY <2>6 DEF Finish, backendVars
    <3>2. Kind(q) # "submit" /\ Working(q)' => UNCHANGED acc /\ Working(q)
      <4>1. Working(q)' => Working(q)
        BY <3>1 DEF Working, Reader, Deciding, Kind
      <4>2. Kind(q) # "submit" /\ Working(q) => UNCHANGED acc
        BY <2>6 DEF Finish, Working, Reader
      <4> QED
        BY <4>1, <4>2
    <3> QED
      BY <3>1, <3>2 DEF UndoOK, Undoable, First, Kind
  <2>7. CASE \/ Call(q) \/ Lock(q) \/ Unlock(q) \/ Create(q) \/ ReadForDelete(q) \/ Delete(q)
             \/ Clear(q) \/ Commit(q) \/ CacheCommitted(q) \/ Announce(q)
    <3>1. ~Reader(q)'
      BY <2>7, ReadNot
    <3> QED
      BY <3>1 DEF UndoOK, Working
  <2> QED
    BY <1>3, <2>1, <2>2, <2>3, <2>4, <2>5, <2>6, <2>7 DEF Step
<1>4. ASSUME NEW s \in Subs, SubscriberStep(s) PROVE UndoOK(q)'
  <2>1. UNCHANGED <<stored, trail, pc, req, rec, ops, acc>>
    BY <1>4 DEF SubscriberStep, SubscribeCheck, Subscribe, Cancel, Receive, backendVars,
                localVars
  <2> QED
    BY <2>1, <1>1
<1> QED
  BY <1>1, <1>2, <1>3, <1>4 DEF Next, Terminated, vars

\* How far every call has got on its way back, in every state.
LEMMA UndoInvariant ==
  ASSUME NoDocIsNoRecord, NoStaleReads
  PROVE  Spec => [](HistoryInv /\ \A p \in Procs : UndoOK(p))
<1> DEFINE UndoInv == \A p \in Procs : UndoOK(p)
<1>1. Init => UndoInv
  BY DEF Init, UndoOK, Working, Reader, Deciding
<1>2. HistoryInv /\ UndoInv /\ [Next]_vars => UndoInv'
  <2> SUFFICES ASSUME HistoryInv, UndoInv, [Next]_vars, NEW p \in Procs PROVE UndoOK(p)'
    OBVIOUS
  <2> QED
    BY UndoNext
<1>3. Spec => []HistoryInv
  BY HistoryInvCorrect
<1> HIDE DEF UndoInv
<1>4. Spec => [](HistoryInv /\ UndoInv)
  BY <1>1, <1>2, <1>3, PTL DEF Spec
<1> QED
  BY <1>4 DEF UndoInv

\* A rollback commits the document of its target version, when the inverse of
\* every record in between undoes that record: whoever submits, reads or fills
\* the cache meanwhile (RollbackToVersion).
THEOREM RollbackRestoresCorrect ==
  ASSUME NoDocIsNoRecord, NoStaleReads PROVE Spec => []RollbackRestores
<1>1. HistoryInv /\ (\A p \in Procs : UndoOK(p)) => RollbackRestores
  <2> SUFFICES ASSUME HistoryInv, \A p \in Procs : UndoOK(p), NEW p \in Procs,
                      pc[p] = "commit", Kind(p) = "rollback", Undoable(p)
               PROVE  acc[p].doc = trail[req[p].base + 1]
    BY DEF RollbackRestores, Undoable
  <2>1. Working(p) /\ SliceOK(p) /\ req[p].base \in Int
    BY DEF Working, Reader, Deciding, HistoryInv, ReadOK, Inv, TypeOK, ControlOK
  <2>2. Len(ops[p]) = 0 /\ First(p) = req[p].base
    BY <2>1, EmptyIsSeq DEF SliceOK, First
  <2>3. acc[p].doc = trail[First(p) + Len(ops[p]) + 1]
    BY <2>1 DEF UndoOK
  <2>4. First(p) + Len(ops[p]) + 1 = req[p].base + 1
    BY <2>1, <2>2
  <2> QED
    BY <2>3, <2>4
<1> QED
  BY <1>1, UndoInvariant, PTL

-----------------------------------------------------------------------------
(***************************************************************************)
(* Snapshots of the past.  A document that is never deleted keeps its log, *)
(* and GetSnapshotAt, which takes no lock, goes back along it.             *)
(***************************************************************************)

\* DeleteDocument is not called.
NoDeletes == \A r \in Requests : r.kind # "delete"

\* The inverse of every record of the log undoes that record.
LogUndoable ==
  stored # NoDoc =>
    \A v \in 1..stored.version : ApplyOp(trail[v + 1], InvertOp(stored.ops[v].op)) = trail[v]

\* Every document of the trail was stored.
HeldOK ==
  stored # NoDoc =>
    \A v \in 0..stored.version : [version |-> v, doc |-> trail[v + 1]] \in held

\* A document that is not deleted keeps what it has been.
LEMMA PastStays ==
  ASSUME NoDocIsNoRecord, NoDeletes, HistoryInv, [Next]_vars
  PROVE  /\ held \subseteq held'
         /\ HeldOK => HeldOK'
         /\ LogUndoable' => LogUndoable
<1> USE DEF HistoryInv, Inv, TypeOK
<1>1. CASE UNCHANGED backendVars
  BY <1>1 DEF backendVars, HeldOK, LogUndoable
<1>2. ASSUME NEW p \in Procs, Create(p), ~UNCHANGED backendVars
      PROVE  held \subseteq held' /\ (HeldOK => HeldOK') /\ LogUndoable
  <2>1. stored = NoDoc /\ CreateDoc(req[p].payload)
    BY <1>2 DEF Create
  <2>2. stored'.version = 0 /\ trail'[1] = req[p].payload
        /\ held' = held \cup {[version |-> 0, doc |-> req[p].payload]}
    BY <2>1 DEF CreateDoc
  <2> QED
    BY <2>1, <2>2 DEF HeldOK, LogUndoable
<1>3. ASSUME NEW p \in Procs, Delete(p) PROVE FALSE
  <2>1. Kind(p) = "delete" /\ req[p] \in Requests
    BY <1>3, LabelsByKind DEF Delete, Kinds, InRequests, ControlOK
  <2> QED
    BY <2>1 DEF NoDeletes, Kind
<1>4. ASSUME NEW p \in Procs, Commit(p)
      PROVE  held \subseteq held' /\ (HeldOK => HeldOK') /\ (LogUndoable' => LogUndoable)
  <2>1. /\ stored # NoDoc /\ stored' # NoDoc
        /\ stored.version \in Nat /\ stored'.version = stored.version + 1
        /\ IsSeq(stored.ops) /\ Len(stored.ops) = stored.version
        /\ stored'.ops = Append(stored.ops, Entry(p))
        /\ trail' = Append(trail, acc[p].doc)
        /\ held' = held \cup {[version |-> stored.version + 1, doc |-> acc[p].doc]}
        /\ IsSeq(trail) /\ Len(trail) = stored.version + 1
    BY <1>4, CommitGrows DEF TrailOK
  <2>2. \A i \in 1..stored.version : stored'.ops[i] = stored.ops[i]
    BY <2>1, AppendFacts, IsSeqFacts
  <2>3. /\ \A i \in 1..(stored.version + 1) : trail'[i] = trail[i]
        /\ trail'[stored.version + 2] = acc[p].doc
    <3>1. trail'[Len(trail) + 1] = acc[p].doc
      BY <2>1, AppendFacts
    <3>2. Len(trail) + 1 = stored.version + 2
      BY <2>1
    <3> QED
      BY <2>1, <3>1, <3>2, AppendFacts, IsSeqFacts
  <2>4. HeldOK => HeldOK'
    <3> SUFFICES ASSUME HeldOK, NEW v \in 0..stored'.version
                 PROVE  [version |-> v, doc |-> trail'[v + 1]] \in held'
      BY DEF HeldOK
    <3>1. CASE v \in 0..stored.version
      BY <2>1, <2>3, <3>1 DEF HeldOK
    <3>2. CASE v = stored.version + 1
      <4>1. v + 1 = stored.version + 2
        BY <2>1, <3>2
      <4> QED
        BY <2>1, <2>3, <3>2, <4>1
    <3> QED
      BY <2>1, <3>1, <3>2
  <2>5. ASSUME LogUndoable' PROVE LogUndoable
    <3>1. ASSUME NEW v \in 1..stored.version
          PROVE  ApplyOp(trail[v + 1], InvertOp(stored.ops[v].op)) = trail[v]
      <4>1. v \in 1..stored'.version /\ v + 1 \in 1..(stored.version + 1)
            /\ v \in 1..(stored.version + 1)
        BY <2>1
      <4>2. ApplyOp(trail'[v + 1], InvertOp(stored'.ops[v].op)) = trail'[v]
        BY <2>1, <2>5, <4>1 DEF LogUndoable
      <4> QED
        BY <2>2, <2>3, <4>1, <4>2
    <3> QED
      BY <3>1 DEF LogUndoable
  <2> QED
    BY <2>1, <2>4, <2>5
<1> QED
  BY <1>1, <1>2, <1>3, <1>4, BackendStep

\* GetSnapshotAt answers at once, with the stored document, or when it has gone
\* all the way back.
LEMMA Answered ==
  ASSUME TypeOK, NEW p \in Procs, Call(p) \/ Lock(p) \/ Step(p),
         Kind(p)' = "snapshotAt", ret'[p].status = "ok"
  PROVE  \/ Kind(p) = "snapshotAt" /\ UNCHANGED ret
         \/ /\ ReadForSnapshot(p) /\ stored # NoDoc
            /\ ret'[p].version = stored.version /\ ret'[p].doc = stored.doc
         \/ /\ Finish(p) /\ Kind(p) = "snapshotAt"
            /\ ret'[p].version = req[p].base /\ ret'[p].doc = acc[p].doc
<1> USE DEF TypeOK, ControlOK, Fail, Return, Goto
<1>1. ~Call(p)
  BY DEF Call
<1>2. Kind(p) = "snapshotAt"
  BY <1>1 DEF Kind, Lock, Step, Unlock, Create, ReadForDelete, Delete, Clear, ReadForSubmit,
              Dedup, Parse, ReadForRollback, ReadForSnapshot, CheckRange, FetchRange, Hit,
              Miss, Fill, Finish, Commit, CacheCommitted, Announce
<1>3. pc[p] \in {"idle", "snapDoc", "opsDoc", "opsGet", "work", "fill"}
  <2>1. pc[p] \in {"idle"} \cup Labels["snapshotAt"]
    BY <1>2
  <2> QED
    BY <2>1, LabelsByKind
<1>4. CASE ReadForSnapshot(p)
  <2>1. CASE UNCHANGED ret
    BY <1>2, <2>1
  <2>2. CASE ret' = [ret EXCEPT ![p] = Answer("ok", stored.version,
                                             [op |-> NoOp, doc |-> stored.doc])]
             /\ stored # NoDoc
    BY <1>4, <2>2 DEF Answer
  <2> QED
    BY <1>4, <2>1, <2>2 DEF ReadForSnapshot
<1>5. CASE CheckRange(p)
  BY <1>2, <1>5 DEF CheckRange
<1>6. CASE FetchRange(p)
  BY <1>2, <1>6 DEF FetchRange
<1>7. CASE Hit(p) \/ Miss(p) \/ Fill(p)
  BY <1>2, <1>7 DEF Hit, Miss, Fill, Absorb
<1>8. CASE Finish(p)
  BY <1>2, <1>8 DEF Finish, Answer
<1> QED
  BY <1>1, <1>2, <1>3, <1>4, <1>5, <1>6, <1>7, <1>8
  DEF Lock, Step, Unlock, Create, ReadForDelete, Delete, Clear, ReadForSubmit, Dedup, Parse,
      ReadForRollback, Commit, CacheCommitted, Announce

\* A call's answer is its own affair.
LEMMA AnswerFrame ==
  ASSUME TypeOK, NEW p \in Procs, NEW q \in Procs, q # p, Call(p) \/ Lock(p) \/ Step(p)
  PROVE  ret'[q] = ret[q] /\ Kind(q)' = Kind(q)
<1>1. Kind(q)' = Kind(q)
  BY StepFrame DEF Others, Kind
<1>2. UNCHANGED ret \/ \E r : ret' = [ret EXCEPT ![p] = r]
  <2> USE DEF Fail, Return, Goto
  <2>1. CASE Call(p) \/ Lock(p) \/ Unlock(p) \/ Create(p)
    BY <2>1 DEF Call, Lock, Unlock, Create
  <2>2. CASE ReadForDelete(p) \/ Delete(p) \/ Clear(p) \/ ReadForSubmit(p)
    BY <2>2 DEF ReadForDelete, Delete, Clear, ReadForSubmit
  <2>3. CASE Dedup(p) \/ Parse(p) \/ ReadForRollback(p) \/ ReadForSnapshot(p)
    BY <2>3 DEF Dedup, Parse, ReadForRollback, ReadForSnapshot
  <2>4. CASE CheckRange(p) \/ FetchRange(p)
    BY <2>4 DEF CheckRange, FetchRange
  <2>5. CASE Hit(p) \/ Miss(p) \/ Fill(p)
    BY <2>5 DEF Hit, Miss, Fill, Absorb
  <2>6. CASE Finish(p)
    BY <2>6, FinishFacts DEF Finish
  <2>7. CASE Commit(p) \/ CacheCommitted(p) \/ Announce(p)
    BY <2>7 DEF Commit, CacheCommitted, Announce
  <2> QED
    BY <2>1, <2>2, <2>3, <2>4, <2>5, <2>6, <2>7 DEF Step
<1> QED
  BY <1>1, <1>2 DEF TypeOK, ControlOK

\* A complete way back ends at a document of the past.
LEMMA HistoricalFinish ==
  ASSUME HistoryInv, HeldOK, LogUndoable, NEW p \in Procs, UndoOK(p), Finish(p),
         Kind(p) = "snapshotAt"
  PROVE  [version |-> req[p].base, doc |-> acc[p].doc] \in held
<1>1. Working(p) /\ ops[p] = <<>>
  BY DEF Finish, Working, Reader, Deciding
<1>2. CopyOK(p) /\ req[p].base \in Nat /\ rec[p].version \in Nat /\ stored.version \in Nat
  BY <1>1 DEF Working, HistoryInv, ReadOK, CopyOK, Inv, TypeOK, StoredOK, LocalsOK
<1>3. Undoable(p)
  <2>1. \A v \in (req[p].base + 1)..rec[p].version : v \in 1..stored.version
    BY <1>2 DEF CopyOK
  <2> QED
    BY <1>2, <2>1 DEF LogUndoable, Undoable, CopyOK
<1>4. acc[p].doc = trail[First(p) + Len(ops[p]) + 1]
  BY <1>1, <1>3 DEF UndoOK
<1>5. First(p) + Len(ops[p]) + 1 = req[p].base + 1 /\ req[p].base \in 0..stored.version
  <2>1. Len(ops[p]) = 0 /\ First(p) = req[p].base
    BY <1>1, EmptyIsSeq DEF First
  <2> QED
    BY <1>2, <2>1 DEF CopyOK
<1> QED
  BY <1>2, <1>4, <1>5 DEF HeldOK, CopyOK

\* Every step keeps what was answered a document of the past.
LEMMA HistoricalNext ==
  ASSUME NoDocIsNoRecord, NoDeletes, HistoryInv, \A p \in Procs : UndoOK(p), HeldOK,
         LogUndoable => SnapshotAtIsHistorical, [Next]_vars
  PROVE  LogUndoable' => SnapshotAtIsHistorical'
<1> SUFFICES ASSUME LogUndoable', NEW q \in Procs, Kind(q)' = "snapshotAt",
                    ret'[q].status = "ok"
             PROVE  [version |-> ret'[q].version, doc |-> ret'[q].doc] \in held'
  BY DEF SnapshotAtIsHistorical
<1> USE DEF HistoryInv, Inv
<1>1. LogUndoable /\ held \subseteq held' /\ SnapshotAtIsHistorical
  BY PastStays
<1>2. ASSUME UNCHANGED <<req, ret>>
      PROVE  [version |-> ret'[q].version, doc |-> ret'[q].doc] \in held'
  BY <1>1, <1>2 DEF SnapshotAtIsHistorical, Kind
<1>3. ASSUME NEW p \in Procs, p # q, Call(p) \/ Lock(p) \/ Step(p)
      PROVE  [version |-> ret'[q].version, doc |-> ret'[q].doc] \in held'
  <2>1. ret'[q] = ret[q] /\ Kind(q)' = Kind(q)
    BY <1>3, AnswerFrame
  <2> QED
    BY <1>1, <2>1 DEF SnapshotAtIsHistorical
<1>4. ASSUME Call(q) \/ Lock(q) \/ Step(q)
      PROVE  [version |-> ret'[q].version, doc |-> ret'[q].doc] \in held'
  <2>1. CASE Kind(q) = "snapshotAt" /\ UNCHANGED ret
    BY <1>1, <2>1 DEF SnapshotAtIsHistorical
  <2>2. CASE stored # NoDoc /\ ret'[q].version = stored.version /\ ret'[q].doc = stored.doc
    <3>1. stored.version \in 0..stored.version /\ stored.doc = trail[stored.version + 1]
      BY <2>2 DEF TypeOK, StoredOK, TrailOK
    <3> QED
      BY <1>1, <2>2, <3>1 DEF HeldOK
  <2>3. CASE /\ Finish(q) /\ Kind(q) = "snapshotAt"
             /\ ret'[q].version = req[q].base /\ ret'[q].doc = acc[q].doc
    BY <1>1, <2>3, HistoricalFinish
  <2> QED
    BY <1>4, <2>1, <2>2, <2>3, Answered
<1>5. ASSUME NEW s \in Subs, SubscriberStep(s)
      PROVE  [version |-> ret'[q].version, doc |-> ret'[q].doc] \in held'
  <2>1. UNCHANGED <<req, ret>>
    BY <1>5 DEF SubscriberStep, SubscribeCheck, Subscribe, Cancel, Receive
  <2> QED
    BY <1>2, <2>1
<1> QED
  BY <1>2, <1>3, <1>4, <1>5 DEF Next, Terminated, vars

\* A snapshot returned by GetSnapshotAt is one the document really had at that
\* version, however the calls that write interleave with the lockless reads, if
\* nothing is deleted and the inverse of every record undoes it.
THEOREM SnapshotAtIsHistoricalCorrect ==
  ASSUME NoDocIsNoRecord, NoDeletes
  PROVE  Spec => [](LogUndoable => SnapshotAtIsHistorical)
<1> DEFINE UndoInv == HistoryInv /\ \A p \in Procs : UndoOK(p)
           Good == HeldOK /\ (LogUndoable => SnapshotAtIsHistorical)
<1>1. Init => Good
  BY DEF Init, HeldOK, SnapshotAtIsHistorical
<1>2. UndoInv /\ Good /\ [Next]_vars => Good'
  <2> SUFFICES ASSUME UndoInv, Good, [Next]_vars PROVE Good'
    OBVIOUS
  <2>1. HeldOK'
    BY PastStays
  <2>2. LogUndoable' => SnapshotAtIsHistorical'
    BY HistoricalNext
  <2> QED
    BY <2>1, <2>2
<1>3. NoStaleReads
  BY DEF NoStaleReads, NoDeletes
<1>4. Spec => []UndoInv
  BY <1>3, UndoInvariant
<1>5. Good => (LogUndoable => SnapshotAtIsHistorical)
  OBVIOUS
<1> HIDE DEF UndoInv, Good
<1> QED
  BY <1>1, <1>2, <1>4, <1>5, PTL DEF Spec
=============================================================================
