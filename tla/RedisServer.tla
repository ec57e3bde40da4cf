----------------------------- MODULE RedisServer ----------------------------
(***************************************************************************)
(* Servers of several nodes on one Redis (NewRedisServer), and one         *)
(* document of theirs: RedisBackend, RedisLocker and RedisPublisher under  *)
(* CreateDocument, SubmitWithRequest, DeleteDocument and GetSnapshot.      *)
(*                                                                         *)
(* A step is one Redis command or script with the local computation that   *)
(* follows it.  A command can fail, or take effect and lose its reply; a   *)
(* node can crash between two commands; a lock can expire.  What DocServer *)
(* shows in detail is coarser here: payloads parse, transformations do not *)
(* fail, and a node's cache is read and filled with the command before it. *)
(***************************************************************************)
EXTENDS AnySeq

CONSTANTS
  Nodes,         \* server processes
  Watchers,      \* those with a subscriber of the document
  Procs,         \* goroutines that call a server
  NodeOf,        \* the node a goroutine runs on
  Requests,      \* the calls they may make
  MaxCalls,      \* bound: calls made in a behaviour
  MaxFaults,     \* bound: failed commands, lost replies and crashes
  EarlyExpiry,   \* may a lock expire while its holder is at work?
  Buffer,        \* capacity of a subscriber's channel
  Free, Nil, NoSource, NoOp,
  ApplyOp(_, _), TransformOp(_, _)

Kinds == {"create", "submit", "delete", "snapshot"}
ASSUME RequestAssumption ==
  \A r \in Requests :
    /\ DOMAIN r = {"kind", "base", "source", "seq", "payload"}
    /\ r.kind \in Kinds /\ r.base \in Int /\ r.seq \in Nat
    /\ r.payload # Nil
ASSUME ConstantAssumption ==
  /\ MaxCalls \in Nat /\ MaxFaults \in Nat /\ Buffer \in Nat
  /\ EarlyExpiry \in BOOLEAN /\ Watchers \subseteq Nodes
  /\ NodeOf \in [Procs -> Nodes]
  /\ Free \notin Procs /\ Nil \notin Int

VARIABLES
  snap,     \* the snapshot hash: its fields version and doc, Nil when absent
  oplist,   \* the list of operation records
  lock,     \* the lock key: whose token it holds, or Free
  cache,    \* each node's parsedOps
  wire,     \* events on their way to a node's listener
  ch,       \* the channel of a node's subscriber
  on,       \* whether it is subscribed
  pc, req,  \* where a goroutine is, and in which call
  rec,      \* the record it read
  acc,      \* the operation and the document it will commit
  ret,      \* what its last call returned
  calls, faults,
  initial,  \* history variable: the content it was created with
  life,     \* history variable: how often the document was created
  expired,  \* history variable: whose locks expired during their call
  overrun,  \* history variable: whether one of those went on all the same
  got       \* history variable: the last event a subscriber has received

storeVars == <<snap, oplist, initial, life, overrun>>
lockVars == <<lock, expired>>
pubVars == <<wire, ch, on, got>>
localVars == <<rec, acc>>
countVars == <<calls, faults>>
vars == <<snap, oplist, lock, cache, wire, ch, on, pc, req, rec, acc, ret,
          calls, faults, initial, life, expired, overrun, got>>

-----------------------------------------------------------------------------
(* RedisBackend *)

Absent == [version |-> Nil, doc |-> Nil]
Whole == snap.version # Nil /\ snap.doc # Nil

\* Mutant of GetOps: LRANGE's end is inclusive and was taken as exclusive.
GetOps_EndExclusive(from, to) ==
  SubSeq(oplist, from + 1, IF to > Len(oplist) THEN Len(oplist) ELSE to - 1)

\* LRANGE from to-1: what is there of the range; it never fails on one.
GetOps(from, to) ==
  SubSeq(oplist, from + 1, IF to > Len(oplist) THEN Len(oplist) ELSE to)

\* Writing or publishing in a call whose lock has expired.
Overruns(p) == overrun' = (overrun \/ p \in expired)

\* Mutant of CommitOp: the record goes to the other end of the list.
CommitOp_LeftPush(p, entry, doc) ==
  IF snap = Absent THEN UNCHANGED <<snap, oplist>>
  ELSE /\ snap' = [version |-> entry.version, doc |-> doc]
       /\ oplist' = <<entry>> \o oplist

\* The script of CommitOp: the hash has to exist, its version is not compared.
CommitOp(p, entry, doc) ==
  IF snap = Absent THEN UNCHANGED <<snap, oplist>>
  ELSE /\ snap' = [version |-> entry.version, doc |-> doc]
       /\ oplist' = Append(oplist, entry)

(* parsedOpCache *)

EmptyCache == [v \in {} |-> NoOp]
Cached(n, e) == IF e.version \in DOMAIN cache[n] THEN cache[n][e.version] ELSE e.op
Store(n, entries) ==
  LET new == { e.version : e \in entries } \ DOMAIN cache[n]
  IN  [v \in DOMAIN cache[n] \cup new |->
         IF v \in new THEN (CHOOSE e \in entries : e.version = v).op
         ELSE cache[n][v]]

(* RedisPublisher *)

\* PUBLISH reaches the nodes that are connected; an error is ignored.
Publish(event) ==
  \E reached \in SUBSET Watchers :
    /\ wire' = [n \in Watchers |-> IF n \in reached THEN Append(wire[n], event)
                                ELSE wire[n]]
    /\ IF reached = Watchers THEN UNCHANGED faults
       ELSE faults < MaxFaults /\ faults' = faults + 1

-----------------------------------------------------------------------------
(* Control *)

Kind(p) == req[p].kind
Locking == Kinds \ {"snapshot"}

\* The labels a call goes through, by its kind.
Labels == [
  create   |-> {"lock", "create", "content", "unlock"},
  delete   |-> {"lock", "read", "delete", "publish", "unlock"},
  submit   |-> {"lock", "read", "dedup", "since", "commit", "publish", "unlock"},
  snapshot |-> {"snapshot"}]

Goto(p, label) == pc' = [pc EXCEPT ![p] = label] /\ UNCHANGED ret

\* A return, through the deferred unlock of a call that got the lock.
Return(p, result) ==
  /\ ret' = [ret EXCEPT ![p] = result]
  /\ pc' = [pc EXCEPT ![p] = IF @ \in {"lock", "snapshot"} THEN "idle" ELSE "unlock"]
Fail(p, why) == Return(p, [status |-> why])

\* A fault: the command has done its work or not, and the call fails.
Faulty(p) == faults < MaxFaults /\ faults' = faults + 1 /\ Fail(p, "failed")

\* A call past Lock and not yet past Unlock.
Critical(p) == pc[p] \notin {"idle", "lock", "snapshot"}

HasID(r) == r.source # NoSource /\ r.seq > 0
SameID(e, r) == e.source = r.source /\ e.seq = r.seq

\* Local variables out of scope.
NoRecord == [version |-> 0, doc |-> Nil]
NoResult == [op |-> NoOp, doc |-> Nil]

Entry(p) ==
  [version |-> rec[p].version + 1, base |-> req[p].base, source |-> req[p].source,
   seq |-> req[p].seq, sub |-> req[p].payload, op |-> acc[p].op]

Call(p) ==
  /\ pc[p] = "idle" /\ calls < MaxCalls
  /\ \E r \in Requests :
       /\ req' = [req EXCEPT ![p] = r]
       /\ pc' = [pc EXCEPT ![p] = IF r.kind \in Locking THEN "lock" ELSE "snapshot"]
  /\ calls' = calls + 1
  /\ ret' = [ret EXCEPT ![p] = [status |-> "pending"]]
  /\ UNCHANGED <<storeVars, lockVars, cache, pubVars, localVars, faults>>

\* A command that fails without effect.
CommandFails(p) ==
  /\ pc[p] \notin {"idle", "publish", "unlock"}
  /\ pc[p] = "since" => req[p].base < rec[p].version
  /\ Faulty(p)
  /\ UNCHANGED <<storeVars, lockVars, cache, pubVars, localVars, req, calls>>

-----------------------------------------------------------------------------
(* RedisLocker *)

\* Mutant of LockFree: the lock is given away while its holder publishes.
LockFree_DuringPublish == lock # Free => pc[lock] = "publish"

LockFree == lock = Free

\* SET NX; a reply that is lost leaves the key behind.
Lock(p) ==
  /\ pc[p] = "lock" /\ LockFree
  /\ lock' = p
  /\ \/ Goto(p, IF Kind(p) = "create" THEN "create" ELSE "read") /\ UNCHANGED faults
     \/ Faulty(p)
  /\ UNCHANGED <<storeVars, expired, cache, pubVars, localVars, req, calls>>

\* The lock stayed taken for maxRetries attempts.
GiveUp(p) ==
  /\ pc[p] = "lock" /\ ~LockFree
  /\ Fail(p, "locked")
  /\ UNCHANGED <<storeVars, lockVars, cache, pubVars, localVars, req, countVars>>

\* Mutant of ReleaseLock: it deletes the key whatever token it holds.
ReleaseLock_AnyToken(p) == Free

\* The unlock script: the key is deleted if it still holds the call's token.
ReleaseLock(p) == IF lock = p THEN Free ELSE lock

\* The unlock script's errors are ignored.
Unlock(p) ==
  /\ pc[p] = "unlock"
  /\ \/ lock' = ReleaseLock(p) /\ UNCHANGED faults
     \/ faults < MaxFaults /\ faults' = faults + 1 /\ UNCHANGED lock
  /\ Goto(p, "idle")
  /\ expired' = expired \ {p}
  /\ rec' = [rec EXCEPT ![p] = NoRecord] /\ acc' = [acc EXCEPT ![p] = NoResult]
  /\ UNCHANGED <<storeVars, cache, pubVars, req, calls>>

\* Mutant of MayExpire: the key is set without a TTL.
MayExpire_Never == FALSE

\* The TTL runs out: on a lock nobody will release, and, if the TTL is shorter
\* than a call can take, under its holder.
Orphaned == lock # Free /\ ~Critical(lock)
MayExpire == Orphaned \/ EarlyExpiry

Expire ==
  /\ lock # Free /\ MayExpire
  /\ lock' = Free
  /\ expired' = IF Critical(lock) THEN expired \cup {lock} ELSE expired
  /\ UNCHANGED <<storeVars, cache, pubVars, localVars, pc, req, ret, countVars>>

-----------------------------------------------------------------------------
(* CreateDocument: two commands, HSETNX of the version and HSET of the rest. *)

Create(p) ==
  /\ pc[p] = "create"
  /\ IF snap.version = Nil
     THEN /\ snap' = [version |-> 0, doc |-> snap.doc]
          /\ life' = life + 1 /\ initial' = Nil /\ Overruns(p) /\ UNCHANGED oplist
          /\ \/ Goto(p, "content") /\ UNCHANGED faults
             \/ Faulty(p)
     ELSE Fail(p, "exists") /\ UNCHANGED <<storeVars, faults>>
  /\ UNCHANGED <<lockVars, cache, pubVars, localVars, req, calls>>

CreateContent(p) ==
  /\ pc[p] = "content"
  /\ snap' = [version |-> snap.version, doc |-> req[p].payload]
  /\ initial' = req[p].payload
  /\ Overruns(p)
  /\ \/ Return(p, [status |-> "ok", version |-> 0, life |-> life])
        /\ UNCHANGED faults
     \/ Faulty(p)
  /\ UNCHANGED <<oplist, life, lockVars, cache, pubVars, localVars, req, calls>>

-----------------------------------------------------------------------------
(* GetSnapshot, without a lock, and DeleteDocument *)

\* HGETALL: GetDoc fails when nothing is there or the version is missing.
Unreadable == IF snap = Absent THEN "notFound" ELSE "corrupt"

GetSnapshot(p) ==
  /\ pc[p] = "snapshot"
  /\ IF snap.version = Nil THEN Fail(p, Unreadable)
     ELSE Return(p, [status |-> "ok", version |-> snap.version, doc |-> snap.doc])
  /\ UNCHANGED <<storeVars, lockVars, cache, pubVars, localVars, req, countVars>>

ReadForDelete(p) ==
  /\ pc[p] = "read" /\ Kind(p) = "delete"
  /\ IF snap.version = Nil THEN Fail(p, Unreadable) /\ UNCHANGED rec
     ELSE /\ rec' = [rec EXCEPT ![p] = snap]
          /\ IF req[p].base # snap.version THEN Fail(p, "invalidVersion")
             ELSE Goto(p, "delete")
  /\ UNCHANGED <<storeVars, lockVars, cache, pubVars, acc, req, countVars>>

\* The script deletes both keys; the cache of this node is cleared behind it.
Delete(p) ==
  /\ pc[p] = "delete"
  /\ IF snap = Absent
     THEN Fail(p, "notFound") /\ UNCHANGED <<storeVars, cache, faults>>
     ELSE /\ snap' = Absent /\ oplist' = <<>> /\ Overruns(p)
          /\ UNCHANGED <<initial, life>>
          /\ \/ /\ cache' = [cache EXCEPT ![NodeOf[p]] = EmptyCache]
                /\ Goto(p, "publish") /\ UNCHANGED faults
             \/ Faulty(p) /\ UNCHANGED cache
  /\ UNCHANGED <<lockVars, pubVars, localVars, req, calls>>

-----------------------------------------------------------------------------
(* SubmitWithRequest *)

ReadForSubmit(p) ==
  /\ pc[p] = "read" /\ Kind(p) = "submit"
  /\ IF snap.version = Nil THEN Fail(p, Unreadable) /\ UNCHANGED rec
     ELSE /\ rec' = [rec EXCEPT ![p] = snap]
          /\ IF req[p].base \notin 0..snap.version THEN Fail(p, "invalidVersion")
             ELSE Goto(p, IF HasID(req[p]) /\ snap.version > 0
                          THEN "dedup" ELSE "since")
  /\ UNCHANGED <<storeVars, lockVars, cache, pubVars, acc, req, countVars>>

Twins(log, r) == { i \in DOMAIN log : SameID(log[i], r) }

Dedup(p) ==
  /\ pc[p] = "dedup"
  /\ LET log   == GetOps(0, rec[p].version)
         twins == Twins(log, req[p])
     IN  IF twins = {} THEN Goto(p, "since")
         ELSE LET e == log[CHOOSE i \in twins : \A j \in twins : i <= j]
              IN  Fail(p, IF e.sub = req[p].payload THEN "duplicate" ELSE "conflict")
  /\ UNCHANGED <<storeVars, lockVars, cache, pubVars, localVars, req, countVars>>

\* op transformed in turn over a sequence of operations.
RebaseOver(op, over) ==
  LET upTo[i \in 0..Len(over)] ==
        IF i = 0 THEN op ELSE TransformOp(upTo[i - 1], over[i])
  IN  upTo[Len(over)]

\* Mutant of Parses: nothing is read as an empty document.
Parses_Always(doc) == TRUE

\* UnmarshalValue fails on a document without content.
Parses(doc) == doc # Nil

\* Fetch the records since the base version, if it is behind; rebase and apply.
Since(p) ==
  /\ pc[p] = "since"
  /\ LET entries == GetOps(req[p].base, rec[p].version)
         n   == NodeOf[p]
         op  == RebaseOver(req[p].payload,
                           [i \in DOMAIN entries |-> Cached(n, entries[i])])
     IN  /\ cache' = [cache EXCEPT ![n] =
                        Store(n, { entries[i] : i \in DOMAIN entries })]
         /\ IF op = NoOp THEN Fail(p, "empty") /\ UNCHANGED acc
            ELSE IF ~Parses(rec[p].doc) THEN Fail(p, "unparsable") /\ UNCHANGED acc
            ELSE /\ acc' = [acc EXCEPT ![p] =
                              [op |-> op, doc |-> ApplyOp(rec[p].doc, op)]]
                 /\ Goto(p, "commit")
  /\ UNCHANGED <<storeVars, lockVars, pubVars, rec, req, countVars>>

\* The script of CommitOp, after which the operation is cached.
Commit(p) ==
  /\ pc[p] = "commit"
  /\ CommitOp(p, Entry(p), acc[p].doc)
  /\ Overruns(p)
  /\ IF snap = Absent THEN Fail(p, "notFound") /\ UNCHANGED <<cache, faults>>
     ELSE \/ /\ cache' = [cache EXCEPT ![NodeOf[p]] =
                 [v \in DOMAIN @ \cup {Entry(p).version} |->
                    IF v = Entry(p).version THEN acc[p].op ELSE @[v]]]
             /\ Goto(p, "publish") /\ UNCHANGED faults
          \/ Faulty(p) /\ UNCHANGED cache
  /\ UNCHANGED <<initial, life, lockVars, pubVars, localVars, req, calls>>

\* The event of a submission or a deletion: the document's last version.
Event(p) ==
  [type |-> Kind(p), life |-> life,
   version |-> IF Kind(p) = "delete" THEN rec[p].version ELSE rec[p].version + 1]

\* The event is published before the deferred unlock runs.
Announce(p) ==
  /\ pc[p] = "publish"
  /\ Publish(Event(p))
  /\ Return(p, [status |-> "ok", version |-> Event(p).version, life |-> life])
  /\ Overruns(p)
  /\ UNCHANGED <<snap, oplist, initial, life, lockVars, cache, ch, on, got, localVars,
                 req, calls>>

-----------------------------------------------------------------------------
(* The listener and the subscriber of a node *)

Subscribe(n) ==
  /\ ~on[n] /\ snap.version # Nil
  /\ on' = [on EXCEPT ![n] = TRUE]
  /\ ch' = [ch EXCEPT ![n] = <<>>] /\ got' = [got EXCEPT ![n] = <<>>]
  /\ UNCHANGED <<storeVars, lockVars, cache, wire, localVars, pc, req, ret,
                 countVars>>

\* The channel is closed; what it holds can be read.
Cancel(n) ==
  /\ on[n]
  /\ on' = [on EXCEPT ![n] = FALSE]
  /\ UNCHANGED <<storeVars, lockVars, cache, wire, ch, got, localVars, pc, req,
                 ret, countVars>>

\* Mutant of Listen: the listener appends whether there is room or not.
Listen_Unbounded(n) ==
  /\ wire[n] # <<>>
  /\ wire' = [wire EXCEPT ![n] = Tail(@)]
  /\ ch' = [ch EXCEPT ![n] = IF on[n] THEN Append(@, Head(wire[n])) ELSE @]
  /\ UNCHANGED <<storeVars, lockVars, cache, on, got, localVars, pc, req, ret,
                 countVars>>

\* The listener takes an event off the wire; a full channel drops it.
Listen(n) ==
  /\ wire[n] # <<>>
  /\ wire' = [wire EXCEPT ![n] = Tail(@)]
  /\ ch' = [ch EXCEPT ![n] = IF on[n] /\ Len(@) < Buffer
                             THEN Append(@, Head(wire[n])) ELSE @]
  /\ UNCHANGED <<storeVars, lockVars, cache, on, got, localVars, pc, req, ret,
                 countVars>>

Receive(n) ==
  /\ ch[n] # <<>>
  /\ got' = [got EXCEPT ![n] = <<Head(ch[n])>>]
  /\ ch' = [ch EXCEPT ![n] = Tail(@)]
  /\ UNCHANGED <<storeVars, lockVars, cache, wire, on, localVars, pc, req, ret,
                 countVars>>

\* A node stops and starts again: its calls, cache, subscriber and connection
\* are gone; the lock key of a call it was in stays until its TTL runs out.
Crash(n) ==
  /\ faults < MaxFaults /\ faults' = faults + 1
  /\ \E p \in Procs : NodeOf[p] = n /\ pc[p] # "idle"
  /\ pc' = [p \in Procs |-> IF NodeOf[p] = n THEN "idle" ELSE pc[p]]
  /\ ret' = [p \in Procs |-> IF NodeOf[p] = n THEN [status |-> "crashed"] ELSE ret[p]]
  /\ cache' = [cache EXCEPT ![n] = EmptyCache]
  /\ wire' = [w \in Watchers |-> IF w = n THEN <<>> ELSE wire[w]]
  /\ ch' = [w \in Watchers |-> IF w = n THEN <<>> ELSE ch[w]]
  /\ got' = [w \in Watchers |-> IF w = n THEN <<>> ELSE got[w]]
  /\ on' = [w \in Watchers |-> on[w] /\ w # n]
  /\ rec' = [p \in Procs |-> IF NodeOf[p] = n THEN NoRecord ELSE rec[p]]
  /\ acc' = [p \in Procs |-> IF NodeOf[p] = n THEN NoResult ELSE acc[p]]
  /\ expired' = { p \in expired : NodeOf[p] # n }
  /\ UNCHANGED <<storeVars, lock, req, calls>>

-----------------------------------------------------------------------------
Init ==
  /\ snap = Absent /\ oplist = <<>> /\ lock = Free
  /\ cache = [n \in Nodes |-> EmptyCache]
  /\ wire = [n \in Watchers |-> <<>>] /\ ch = [n \in Watchers |-> <<>>]
  /\ on = [n \in Watchers |-> FALSE] /\ got = [n \in Watchers |-> <<>>]
  /\ pc = [p \in Procs |-> "idle"]
  /\ req = [p \in Procs |-> [kind |-> "snapshot", base |-> 0, source |-> NoSource,
                             seq |-> 0, payload |-> NoOp]]
  /\ rec = [p \in Procs |-> NoRecord]
  /\ acc = [p \in Procs |-> NoResult]
  /\ ret = [p \in Procs |-> [status |-> "none"]]
  /\ calls = 0 /\ faults = 0
  /\ initial = Nil /\ life = 0 /\ expired = {} /\ overrun = FALSE

Step(p) ==
  \/ Lock(p) \/ GiveUp(p) \/ Unlock(p) \/ Create(p) \/ CreateContent(p)
  \/ GetSnapshot(p) \/ ReadForDelete(p) \/ Delete(p)
  \/ ReadForSubmit(p) \/ Dedup(p) \/ Since(p) \/ Commit(p) \/ Announce(p)

\* Every call allowed by the bound has returned and no lock is left to expire.
Terminated ==
  /\ calls = MaxCalls /\ \A p \in Procs : pc[p] = "idle"
  /\ lock = Free /\ UNCHANGED vars

Next ==
  \/ \E p \in Procs : Call(p) \/ CommandFails(p) \/ Step(p)
  \/ \E n \in Watchers : Subscribe(n) \/ Cancel(n) \/ Listen(n) \/ Receive(n)
  \/ \E n \in Nodes : Crash(n)
  \/ Expire
  \/ Terminated

Spec == Init /\ [][Next]_vars

\* A goroutine that can run is run, and the TTL of a lock that nobody will release
\* runs out.  No lock is assumed to expire under its holder.
FairSpec ==
  Spec /\ (\A p \in Procs : WF_vars(Step(p))) /\ WF_vars(Orphaned /\ Expire)

-----------------------------------------------------------------------------
(* Properties *)

\* Where a goroutine may be, and with which request.
ControlOK ==
  /\ DOMAIN pc = Procs /\ DOMAIN req = Procs /\ DOMAIN ret = Procs
  /\ \A p \in Procs :
       /\ Kind(p) \in Kinds /\ req[p].base \in Int
       /\ Kind(p) = "create" => req[p].payload # Nil
       /\ pc[p] \in {"idle"} \cup Labels[Kind(p)]

LocalsOK ==
  /\ DOMAIN rec = Procs /\ DOMAIN acc = Procs
  /\ \A p \in Procs :
       /\ rec[p].version \in Nat
       /\ pc[p] \in {"dedup", "since", "commit"} => req[p].base \in 0..rec[p].version

StoreOK ==
  /\ snap = [version |-> snap.version, doc |-> snap.doc]
  /\ snap.version \in Nat \cup {Nil}
  /\ IsSeq(oplist) /\ \A i \in DOMAIN oplist : oplist[i].version \in Nat
  /\ DOMAIN cache = Nodes /\ \A n \in Nodes : DOMAIN cache[n] \subseteq Nat
  /\ overrun \in BOOLEAN /\ life \in Nat

WatchersOK ==
  /\ on \in [Watchers -> BOOLEAN]
  /\ DOMAIN wire = Watchers /\ DOMAIN ch = Watchers /\ DOMAIN got = Watchers
  /\ \A n \in Watchers :
       /\ IsSeq(wire[n]) /\ IsSeq(ch[n]) /\ Len(ch[n]) <= Buffer
       /\ IsSeq(got[n]) /\ Len(got[n]) <= 1

\* The shape of the state (the keys of redis.go, the fields of Server).
TypeOK ==
  /\ StoreOK /\ ControlOK /\ LocalsOK /\ WatchersOK
  /\ lock \in Procs \cup {Free} /\ expired \subseteq Procs
  /\ calls \in 0..MaxCalls /\ faults \in 0..MaxFaults

\* A call past Lock and not yet past Unlock whose lock has not expired.
Holding(p) == Critical(p) /\ p \notin expired
HoldsLock == \A p \in Procs : Holding(p) => lock = p

\* What such a call has read, checked, computed or written so far.
CopyIsCurrent(p) ==
  pc[p] \in {"dedup", "since", "commit", "delete"} =>
    snap.version # Nil /\ rec[p] = snap
StillFresh(p) ==
  pc[p] \in {"since", "commit"} /\ HasID(req[p]) =>
    \A i \in DOMAIN oplist : ~SameID(oplist[i], req[p])
HasApplied(p) ==
  pc[p] = "commit" =>
    rec[p].doc # Nil /\ acc[p].doc = ApplyOp(rec[p].doc, acc[p].op)
HasCreated(p) ==
  pc[p] = "content" => snap = [version |-> 0, doc |-> Nil] /\ initial = Nil
HasCommitted(p) ==
  pc[p] = "publish" /\ Kind(p) = "submit" =>
    /\ snap.version = rec[p].version + 1 /\ snap.version \in DOMAIN oplist
    /\ SameID(oplist[snap.version], req[p])
    /\ oplist[snap.version].sub = req[p].payload
HasDeleted(p) == pc[p] = "publish" /\ Kind(p) = "delete" => snap = Absent

\* As long as a call's lock has not expired, the call has it, and what it has
\* read and done is still so at its next command, whatever other nodes do, with
\* crashes, lost replies and locks that expire under others (RedisLocker).
LockedView ==
  /\ HoldsLock
  /\ ~overrun =>
       \A p \in Procs : Holding(p) =>
         /\ CopyIsCurrent(p) /\ StillFresh(p) /\ HasApplied(p)
         /\ HasCreated(p) /\ HasCommitted(p) /\ HasDeleted(p)

\* Versions stay serial across nodes: the hash's version is the length of the
\* list, whose i-th record made version i, until someone whose lock expired
\* during its call writes; no crash, lost reply or failed command and no
\* expiry as such does that (CommitOp, DeleteDoc and the lock's token).
SerialVersions ==
  ~overrun =>
    /\ snap.version # Nil => snap.version = Len(oplist)
    /\ snap.version = Nil => oplist = <<>>
    /\ \A i \in DOMAIN oplist : oplist[i].version = i

\* A submission retried after a crash or a lost reply, on any node, is not
\* committed twice (the scan of submitCore over LRANGE).
AtMostOnce ==
  ~overrun =>
    \A i, j \in DOMAIN oplist : HasID(oplist[i]) /\ SameID(oplist[i], oplist[j]) => i = j

\* What was acknowledged is kept, whatever happens to the nodes, as long as the
\* document is not deleted: a submission is in the list at the version of its
\* answer, a created document has content (submitCore, CreateDocument).
AcknowledgedIsKept ==
  ~overrun =>
    \A p \in Procs :
      LET r == ret[p]
          stands == Kind(p) # "snapshot" /\ r.status = "ok" /\ snap # Absent /\ r.life = life
      IN  /\ Kind(p) = "create" /\ stands => Whole
          /\ Kind(p) = "submit" /\ stands =>
               /\ r.version \in DOMAIN oplist
               /\ SameID(oplist[r.version], req[p])
               /\ oplist[r.version].sub = req[p].payload

\* The document is its initial content with the listed operations applied one
\* after the other; one whose creation has not got past its first
\* command takes no operation (CreateDoc, submitCore).
Replay(doc, log) ==
  LET upTo[i \in 0..Len(log)] ==
        IF i = 0 THEN doc ELSE ApplyOp(upTo[i - 1], log[i].op)
  IN  upTo[Len(log)]
SnapshotIsReplay ==
  ~overrun /\ oplist # <<>> =>
    initial # Nil /\ snap.doc = Replay(initial, oplist)

\* Every operation is the submitted one transformed over what the list holds
\* from its base on ("enabling correct OT transforms across horizontal
\* replicas", the header of redis.go).
RebasedOverList ==
  ~overrun =>
    \A v \in DOMAIN oplist :
      oplist[v].op =
        RebaseOver(oplist[v].sub,
                   [i \in 1..(v - 1 - oplist[v].base) |->
                      oplist[oplist[v].base + i].op])

\* As long as the document is not created a second time, and until someone whose
\* lock expired writes.
FirstLife == ~overrun /\ life <= 1

\* Until then no node, whatever it lost or missed, has in its cache another
\* operation than the list has at that version (getOrParseCommittedOperation,
\* parsedOpCache.Store).
CachesCurrent ==
  FirstLife =>
    \A n \in Nodes : \A v \in DOMAIN cache[n] \cap DOMAIN oplist :
      cache[n][v] = oplist[v].op

\* Until then the header's claim is true on every node.
RebasedInFirstLife == life <= 1 => RebasedOverList

\* VersionedDoc on what Redis holds: a document whose creation has not got past
\* its first command is none yet, and one that has is the replay of its list.
Documents ==
  IF Whole
  THEN [i \in 1..(Len(oplist) + 1) |-> Replay(initial, SubSeq(oplist, 1, i - 1))]
  ELSE <<>>
IsNoOp(op) == op = NoOp
History ==
  INSTANCE VersionedDoc WITH log <- oplist, docs <- Documents, MaxRebaseGap <- 0,
                             Err <- Nil, Malformed <- Nil, IsEmptyOp <- IsNoOp

\* Several nodes on one Redis are one sharedb.Server: whatever commands fail or
\* lose their reply and whichever nodes crash, each call takes effect in one of
\* its commands or not at all, on the document as the calls before left it, the
\* deletion included, until the document is created a second time or someone
\* whose lock expired writes.
ImplementsVersionedDoc ==
  /\ History!Init
  /\ [][FirstLife' => History!Next]_(History!absVars)

\* A subscriber never sees events of one document out of order or twice, also
\* when some are lost: a gap shows in the versions (Publish under the lock,
\* listen).
After(e, f) ==
  \/ f.life > e.life
  \/ f.life = e.life /\ f.version > e.version
  \/ f.life = e.life /\ f.version = e.version /\ f.type = "delete"
StreamInOrder ==
  ~overrun =>
    \A n \in Watchers :
      LET stream == got[n] \o ch[n] \o wire[n]
      IN  \A i \in 1..(Len(stream) - 1) : After(stream[i], stream[i + 1])

\* The lock comes free again and again: its holder gets to its release, on every
\* path and whatever the other node does, and the lock of a call that crashed,
\* whose SetNX reply was lost or whose release failed does not stay (the TTL).
LockComesFree == []<>(lock = Free)
=============================================================================
