------------------------------ MODULE DocServer -----------------------------
(***************************************************************************)
(* sharedb.Server on one document, with its in-memory Backend, Locker and  *)
(* Publisher.  Every piece of their state is keyed by the document ID and  *)
(* no operation names two documents, so one document is all there is.      *)
(*                                                                         *)
(* A goroutine (a member of Procs) runs one server call at a time.  A step *)
(* is one access to shared state (the lock, the backend, the parsed-op     *)
(* cache or the publisher) with the local computation that follows it; the *)
(* calls that take no lock interleave with the ones that do at every step. *)
(*                                                                         *)
(* The OT functions are parameters: the server treats operations and       *)
(* documents as opaque.  Err stands for a Go error returned by one of them.*)
(***************************************************************************)
EXTENDS AnySeq

CONSTANTS
  Procs,            \* goroutines that call the server
  Subs,             \* subscribers
  Requests,         \* the calls they may make, see RequestAssumption
  MaxCalls,         \* bound: calls made in a behaviour
  MaxRebaseGap,     \* Server.maxRebaseGap, 0 when there is no limit
  Buffer,           \* capacity of a subscriber's channel
  Free, NoDoc, Err, Malformed, NoSource,
  NoOp, IsEmptyOp(_), ApplyOp(_, _), TransformOp(_, _), InvertOp(_),
  ComposeOp(_, _)

Kinds == {"create", "submit", "delete", "rollback", "snapshotAt", "getOps"}

\* A request: base is BaseVersion, the target version or fromVersion; to is
\* GetOperations' toVersion; payload is the operation or the initial document,
\* never an error.
ASSUME RequestAssumption ==
  \A r \in Requests :
    /\ DOMAIN r = {"kind", "base", "to", "source", "seq", "payload"}
    /\ r.kind \in Kinds
    /\ r.base \in Int /\ r.to \in Int /\ r.seq \in Nat
    /\ r.payload # Err
ASSUME BoundsAssumption ==
  MaxCalls \in Nat /\ MaxRebaseGap \in Int /\ Buffer \in Nat \ {0}
ASSUME FreeAssumption == Free \notin Procs

VARIABLES
  stored,   \* the backend's record of the document, or NoDoc
  lock,     \* the holder of the document's mutex, or Free
  cache,    \* Server.parsedOps: versions to operations
  sub,      \* a subscriber's progress
  ch,       \* its channel
  pc, req,  \* where a goroutine is, and in which call
  rec,      \* its copy of the backend record (version and document)
  ops,      \* the operation records it has still to go through
  acc,      \* the operation and the document it is computing
  ret,      \* what its last call returned
  calls,    \* how many calls were made
  trail,    \* history variable: the documents since the last create, by version
  held,     \* history variable: every version and document ever stored
  life,     \* history variable: how often the document was created
  got,      \* history variable: what a subscriber has received
  lost      \* history variable: whether it has missed an event

backendVars == <<stored, trail, held, life>>
pubVars == <<sub, ch, got, lost>>
localVars == <<rec, ops, acc>>
vars == <<stored, lock, cache, sub, ch, pc, req, rec, ops, acc, ret, calls,
          trail, held, life, got, lost>>

-----------------------------------------------------------------------------
(* MemoryBackend *)

Snapshot == [version |-> stored.version, doc |-> stored.doc]

\* Mutant of GetOps: the records come newest first.
GetOps_NewestFirst(from, to) ==
  IF stored = NoDoc THEN Err
  ELSE IF from = to THEN <<>>
  ELSE IF from < 0 \/ to > Len(stored.ops) THEN Err
  ELSE [i \in 1..(to - from) |-> stored.ops[to + 1 - i]]

\* GetOps(from, to): a sequence of operation records, or Err.
GetOps(from, to) ==
  IF stored = NoDoc THEN Err
  ELSE IF from = to THEN <<>>
  ELSE IF from < 0 \/ to > Len(stored.ops) THEN Err
  ELSE SubSeq(stored.ops, from + 1, to)

CommitOp(doc, entry) ==
  /\ stored' = [version |-> entry.version, doc |-> doc,
                ops |-> Append(stored.ops, entry)]
  /\ held' = held \cup {[version |-> entry.version, doc |-> doc]}
  /\ trail' = Append(trail, doc)
  /\ UNCHANGED life

CreateDoc(doc) ==
  /\ stored' = [version |-> 0, doc |-> doc, ops |-> <<>>]
  /\ held' = held \cup {[version |-> 0, doc |-> doc]}
  /\ trail' = <<doc>>
  /\ life' = life + 1

DeleteDoc == stored' = NoDoc /\ trail' = <<>> /\ UNCHANGED <<held, life>>

(* parsedOpCache *)

EmptyCache == [v \in {} |-> NoOp]

Store(v, op) ==
  [w \in DOMAIN cache \cup {v} |-> IF w = v THEN op ELSE cache[w]]

\* Mutant of ClearCache: a deleted document's operations stay cached.
ClearCache_Forgotten == cache

ClearCache == EmptyCache

(* MemoryPublisher *)

Listening(s) == sub[s] = "on"

\* Mutant of Publish: a channel takes one event at a time.
Publish_Unbuffered(event) ==
  /\ ch' = [s \in Subs |-> IF Listening(s) /\ ch[s] = <<>>
                           THEN Append(ch[s], event) ELSE ch[s]]
  /\ lost' = [s \in Subs |-> lost[s] \/ (Listening(s) /\ Len(ch[s]) >= Buffer)]
  /\ UNCHANGED <<sub, got>>

Publish(event) ==
  /\ ch' = [s \in Subs |-> IF Listening(s) /\ Len(ch[s]) < Buffer
                           THEN Append(ch[s], event) ELSE ch[s]]
  /\ lost' = [s \in Subs |-> lost[s] \/ (Listening(s) /\ Len(ch[s]) >= Buffer)]
  /\ UNCHANGED <<sub, got>>

-----------------------------------------------------------------------------
(* Control *)

Locking == {"create", "submit", "delete", "rollback"}

\* The labels a call goes through, by its kind.
Labels == [
  create     |-> {"lock", "create", "unlock"},
  delete     |-> {"lock", "read", "delete", "clear", "publish", "unlock"},
  submit     |-> {"lock", "read", "dedup", "parse", "work", "fill", "commit",
                  "store", "publish", "unlock"},
  rollback   |-> {"lock", "read", "opsDoc", "opsGet", "work", "fill", "commit",
                  "store", "publish", "unlock"},
  snapshotAt |-> {"snapDoc", "opsDoc", "opsGet", "work", "fill"},
  getOps     |-> {"opsDoc", "opsGet"}]

Kind(p) == req[p].kind
Goto(p, label) == pc' = [pc EXCEPT ![p] = label] /\ UNCHANGED ret

\* Mutant of Return: calls that took no lock unlock too.
Return_AlwaysUnlocks(p, result) ==
  /\ ret' = [ret EXCEPT ![p] = result]
  /\ pc' = [pc EXCEPT ![p] = "unlock"]

\* A return: the deferred unlock is a step of its own.
Return(p, result) ==
  /\ ret' = [ret EXCEPT ![p] = result]
  /\ pc' = [pc EXCEPT ![p] = IF Kind(p) \in Locking THEN "unlock" ELSE "idle"]
Fail(p, why) == Return(p, [status |-> why])

Answer(status, version, a) ==
  [status |-> status, version |-> version, op |-> a.op, doc |-> a.doc]

\* Mutant of Entry: the record is numbered from the version the client knew.
Entry_NumberedFromBase(p) ==
  [version |-> req[p].base + 1, base |-> req[p].base, source |-> req[p].source,
   seq |-> req[p].seq, sub |-> req[p].payload, op |-> acc[p].op]

Entry(p) ==
  LET submitting == Kind(p) = "submit"
  IN  [version |-> rec[p].version + 1,
       base    |-> IF submitting THEN req[p].base ELSE rec[p].version,
       source  |-> req[p].source,
       seq     |-> IF submitting THEN req[p].seq ELSE 0,
       sub     |-> IF submitting THEN req[p].payload ELSE acc[p].op,
       op      |-> acc[p].op]

HasID(r) == r.source # NoSource /\ r.seq > 0
SameID(e, r) == e.source = r.source /\ e.seq = r.seq

Call(p) ==
  /\ pc[p] = "idle"
  /\ calls < MaxCalls
  /\ \E r \in Requests :
       /\ req' = [req EXCEPT ![p] = r]
       /\ pc' = [pc EXCEPT ![p] = CASE r.kind \in Locking    -> "lock"
                                    [] r.kind = "snapshotAt" -> "snapDoc"
                                    [] r.kind = "getOps"     -> "opsDoc"]
  /\ calls' = calls + 1
  /\ ret' = [ret EXCEPT ![p] = [status |-> "pending"]]
  /\ UNCHANGED <<backendVars, lock, cache, pubVars, localVars>>

\* Mutants of MayLock: there is no mutex; it is free from the publication on.
MayLock_Always(p) == TRUE
MayLock_DuringPublish(p) == lock # Free => pc[lock] = "publish"

\* MemoryLocker: the document's mutex.
MayLock(p) == lock = Free

Lock(p) ==
  /\ pc[p] = "lock"
  /\ MayLock(p)
  /\ lock' = p
  /\ Goto(p, IF Kind(p) = "create" THEN "create" ELSE "read")
  /\ UNCHANGED <<backendVars, cache, pubVars, localVars, req, calls>>

Unlock(p) ==
  /\ pc[p] = "unlock"
  /\ lock' = Free
  /\ Goto(p, "idle")
  /\ UNCHANGED <<backendVars, cache, pubVars, localVars, req, calls>>

-----------------------------------------------------------------------------
(* CreateDocument and DeleteDocument *)

Create(p) ==
  /\ pc[p] = "create"
  /\ IF stored = NoDoc
     THEN /\ CreateDoc(req[p].payload)
          /\ Return(p, Answer("ok", 0, [op |-> NoOp, doc |-> req[p].payload]))
     ELSE Fail(p, "exists") /\ UNCHANGED backendVars
  /\ UNCHANGED <<lock, cache, pubVars, localVars, req, calls>>

\* DeleteDocument: the version must be the one the caller knows.
ReadForDelete(p) ==
  /\ pc[p] = "read" /\ Kind(p) = "delete"
  /\ IF stored = NoDoc THEN Fail(p, "notFound") /\ UNCHANGED rec
     ELSE /\ rec' = [rec EXCEPT ![p] = Snapshot]
          /\ IF req[p].base # stored.version THEN Fail(p, "invalidVersion")
             ELSE Goto(p, "delete")
  /\ UNCHANGED <<backendVars, lock, cache, pubVars, ops, acc, req, calls>>

Delete(p) ==
  /\ pc[p] = "delete"
  /\ IF stored = NoDoc THEN Fail(p, "notFound") /\ UNCHANGED backendVars
     ELSE DeleteDoc /\ Goto(p, "clear")
  /\ UNCHANGED <<lock, cache, pubVars, localVars, req, calls>>

Clear(p) ==
  /\ pc[p] = "clear"
  /\ cache' = ClearCache
  /\ Goto(p, "publish")
  /\ UNCHANGED <<backendVars, lock, pubVars, localVars, req, calls>>

-----------------------------------------------------------------------------
(* SubmitWithRequest *)

ReadForSubmit(p) ==
  /\ pc[p] = "read" /\ Kind(p) = "submit"
  /\ IF stored = NoDoc THEN Fail(p, "notFound") /\ UNCHANGED rec
     ELSE /\ rec' = [rec EXCEPT ![p] = Snapshot]
          /\ IF req[p].base < 0 \/ req[p].base > stored.version
             THEN Fail(p, "invalidVersion")
             ELSE Goto(p, IF HasID(req[p]) /\ stored.version > 0
                          THEN "dedup" ELSE "parse")
  /\ UNCHANGED <<backendVars, lock, cache, pubVars, ops, acc, req, calls>>

\* Mutant of Twins: a retry is one that also carries the same payload.
Twins_SamePayload(log, r) ==
  { i \in DOMAIN log : SameID(log[i], r) /\ log[i].sub = r.payload }

\* The records of the log that carry the request's source and sequence.
Twins(log, r) == { i \in DOMAIN log : SameID(log[i], r) }

\* The idempotency check: scan the whole log for the request's identity.
Dedup(p) ==
  /\ pc[p] = "dedup"
  /\ LET log   == GetOps(0, rec[p].version)
         twins == Twins(log, req[p])
     IN  IF log = Err THEN Fail(p, "failed")
         ELSE IF twins = {} THEN Goto(p, "parse")
         ELSE LET e == log[CHOOSE i \in twins : \A j \in twins : i <= j]
              IN  IF e.sub # req[p].payload THEN Fail(p, "conflict")
                  ELSE Return(p, Answer("duplicate", rec[p].version,
                                        [op |-> e.op, doc |-> rec[p].doc]))
  /\ UNCHANGED <<backendVars, lock, cache, pubVars, localVars, req, calls>>

\* Mutant of TooStale: off by one.
TooStale_OneMore(p) ==
  MaxRebaseGap > 0 /\ rec[p].version - req[p].base > MaxRebaseGap + 1

TooStale(p) ==
  MaxRebaseGap > 0 /\ rec[p].version - req[p].base > MaxRebaseGap

\* Parse the payload; a stale base needs the operations committed since.
Parse(p) ==
  /\ pc[p] = "parse"
  /\ LET since == GetOps(req[p].base, rec[p].version)
     IN  IF req[p].payload = Malformed
         THEN Fail(p, "malformed") /\ UNCHANGED <<ops, acc>>
         ELSE IF TooStale(p) THEN Fail(p, "stale") /\ UNCHANGED <<ops, acc>>
         ELSE IF req[p].base < rec[p].version /\ since = Err
         THEN Fail(p, "failed") /\ UNCHANGED <<ops, acc>>
         ELSE /\ acc' = [acc EXCEPT ![p] = [op  |-> req[p].payload,
                                            doc |-> rec[p].doc]]
              /\ ops' = [ops EXCEPT ![p] = IF req[p].base < rec[p].version
                                           THEN since ELSE <<>>]
              /\ Goto(p, "work")
  /\ UNCHANGED <<backendVars, lock, cache, pubVars, rec, req, calls>>

-----------------------------------------------------------------------------
(* GetSnapshotAt, RollbackToVersion and GetOperations *)

ReadForRollback(p) ==
  /\ pc[p] = "read" /\ Kind(p) = "rollback"
  /\ IF stored = NoDoc THEN Fail(p, "notFound") /\ UNCHANGED rec
     ELSE /\ rec' = [rec EXCEPT ![p] = Snapshot]
          /\ IF req[p].base < 0 \/ req[p].base > stored.version
             THEN Fail(p, "invalidVersion")
             ELSE IF req[p].base = stored.version
             THEN Return(p, Answer("empty", stored.version,
                                   [op |-> NoOp, doc |-> stored.doc]))
             ELSE Goto(p, "opsDoc")
  /\ UNCHANGED <<backendVars, lock, cache, pubVars, ops, acc, req, calls>>

\* GetSnapshotAt takes no lock.
ReadForSnapshot(p) ==
  /\ pc[p] = "snapDoc"
  /\ IF stored = NoDoc THEN Fail(p, "notFound") /\ UNCHANGED rec
     ELSE /\ rec' = [rec EXCEPT ![p] = Snapshot]
          /\ IF req[p].base < 0 \/ req[p].base > stored.version
             THEN Fail(p, "invalidVersion")
             ELSE IF req[p].base = stored.version
             THEN Return(p, Answer("ok", stored.version,
                                   [op |-> NoOp, doc |-> stored.doc]))
             ELSE Goto(p, "opsDoc")
  /\ UNCHANGED <<backendVars, lock, cache, pubVars, ops, acc, req, calls>>

\* Mutants: the range includes its lower bound; it ends at the version of now,
\* not at that of the copied document.
From_Inclusive(p) == IF Kind(p) = "getOps" THEN req[p].base ELSE req[p].base + 1
To_Latest(p) == IF Kind(p) = "getOps" THEN req[p].to ELSE stored.version

\* The range of versions GetOperations is asked for.
From(p) == req[p].base
To(p) == IF Kind(p) = "getOps" THEN req[p].to ELSE rec[p].version

\* Mutant of CheckRange: it waits for versions that do not exist yet.
CheckRange_Waits(p) ==
  /\ pc[p] = "opsDoc"
  /\ IF stored = NoDoc THEN Fail(p, "notFound")
     ELSE IF From(p) < 0 \/ To(p) < From(p) \/ To(p) > stored.version
     THEN Goto(p, "opsDoc")
     ELSE Goto(p, "opsGet")
  /\ UNCHANGED <<backendVars, lock, cache, pubVars, localVars, req, calls>>

\* GetOperations reads the record once more, to check the range ...
CheckRange(p) ==
  /\ pc[p] = "opsDoc"
  /\ IF stored = NoDoc THEN Fail(p, "notFound")
     ELSE IF From(p) < 0 \/ To(p) < From(p) \/ To(p) > stored.version
     THEN Fail(p, "invalidVersion")
     ELSE Goto(p, "opsGet")
  /\ UNCHANGED <<backendVars, lock, cache, pubVars, localVars, req, calls>>

\* ... and then fetches the records.
FetchRange(p) ==
  /\ pc[p] = "opsGet"
  /\ LET found == GetOps(From(p), To(p))
     IN  IF found = Err THEN Fail(p, "failed") /\ UNCHANGED <<ops, acc>>
         ELSE IF Len(found) # To(p) - From(p)
         THEN Fail(p, "incomplete") /\ UNCHANGED <<ops, acc>>
         ELSE IF Kind(p) = "getOps"
         THEN Return(p, [status |-> "ok", ops |-> found]) /\ UNCHANGED <<ops, acc>>
         ELSE /\ ops' = [ops EXCEPT ![p] = found]
              /\ acc' = [acc EXCEPT ![p] = [op |-> NoOp, doc |-> rec[p].doc]]
              /\ Goto(p, "work")
  /\ UNCHANGED <<backendVars, lock, cache, pubVars, rec, req, calls>>

-----------------------------------------------------------------------------
(* Going through the fetched records: Submit transforms over them from the *)
(* oldest to the newest, the other two undo them from the newest back.     *)

NextOp(p) == IF Kind(p) = "submit" THEN Head(ops[p]) ELSE ops[p][Len(ops[p])]
OtherOps(p) ==
  IF Kind(p) = "submit" THEN Tail(ops[p]) ELSE SubSeq(ops[p], 1, Len(ops[p]) - 1)

\* inverseOperation and Apply, and for a rollback Compose.
Undo(p, op) ==
  LET inverse == InvertOp(op)
      undone  == ApplyOp(acc[p].doc, inverse)
  IN  IF inverse = Err \/ undone = Err THEN Err
      ELSE [doc |-> undone,
            op  |-> IF Kind(p) = "rollback" THEN ComposeOp(acc[p].op, inverse)
                    ELSE acc[p].op]

Rebase(p, op) ==
  LET transformed == TransformOp(acc[p].op, op)
  IN  IF transformed = Err THEN Err
      ELSE [acc[p] EXCEPT !.op = transformed]

Absorb(p, op) ==
  LET next == IF Kind(p) = "submit" THEN Rebase(p, op) ELSE Undo(p, op)
  IN  IF next = Err THEN Fail(p, "failed") /\ UNCHANGED <<ops, acc>>
      ELSE /\ acc' = [acc EXCEPT ![p] = next]
           /\ ops' = [ops EXCEPT ![p] = OtherOps(p)]
           /\ Goto(p, "work")

\* getOrParseCommittedOperation: the cached operation if there is one ...
Hit(p) ==
  /\ pc[p] = "work" /\ ops[p] # <<>>
  /\ NextOp(p).version \in DOMAIN cache
  /\ Absorb(p, cache[NextOp(p).version])
  /\ UNCHANGED <<backendVars, lock, cache, pubVars, rec, req, calls>>

Miss(p) ==
  /\ pc[p] = "work" /\ ops[p] # <<>>
  /\ NextOp(p).version \notin DOMAIN cache
  /\ Goto(p, "fill")
  /\ UNCHANGED <<backendVars, lock, cache, pubVars, localVars, req, calls>>

\* ... else the parsed record, which goes into the cache.
Fill(p) ==
  /\ pc[p] = "fill"
  /\ cache' = Store(NextOp(p).version, NextOp(p).op)
  /\ Absorb(p, NextOp(p).op)
  /\ UNCHANGED <<backendVars, lock, pubVars, rec, req, calls>>

\* All records are dealt with: a snapshot is complete, an operation that
\* became empty has nothing to commit, any other is applied.
Finish(p) ==
  /\ pc[p] = "work" /\ ops[p] = <<>>
  /\ CASE Kind(p) = "snapshotAt" ->
            Return(p, Answer("ok", req[p].base, acc[p])) /\ UNCHANGED acc
       [] Kind(p) = "rollback" -> Goto(p, "commit") /\ UNCHANGED acc
       [] Kind(p) = "submit" ->
            LET doc == ApplyOp(rec[p].doc, acc[p].op)
            IN  IF IsEmptyOp(acc[p].op)
                THEN Return(p, Answer("empty", rec[p].version, acc[p]))
                     /\ UNCHANGED acc
                ELSE IF doc = Err THEN Fail(p, "failed") /\ UNCHANGED acc
                ELSE acc' = [acc EXCEPT ![p].doc = doc] /\ Goto(p, "commit")
  /\ UNCHANGED <<backendVars, lock, cache, pubVars, rec, ops, req, calls>>

Commit(p) ==
  /\ pc[p] = "commit"
  /\ IF stored = NoDoc THEN Fail(p, "notFound") /\ UNCHANGED backendVars
     ELSE CommitOp(acc[p].doc, Entry(p)) /\ Goto(p, "store")
  /\ UNCHANGED <<lock, cache, pubVars, localVars, req, calls>>

\* Mutant of CacheCommitted: the operation as it was submitted is cached.
CacheCommitted_Submitted(p) ==
  /\ pc[p] = "store"
  /\ cache' = Store(rec[p].version + 1, req[p].payload)
  /\ Goto(p, "publish")
  /\ UNCHANGED <<backendVars, lock, pubVars, localVars, req, calls>>

CacheCommitted(p) ==
  /\ pc[p] = "store"
  /\ cache' = Store(rec[p].version + 1, acc[p].op)
  /\ Goto(p, "publish")
  /\ UNCHANGED <<backendVars, lock, pubVars, localVars, req, calls>>

\* The event of a submission, a rollback or a deletion.  (life is no field of
\* the code's Event: it tells apart the versions of two documents of one ID.)
Event(p) ==
  IF Kind(p) = "delete"
  THEN [type |-> "delete", life |-> life, version |-> rec[p].version, op |-> NoOp]
  ELSE [type |-> "op", life |-> life, version |-> rec[p].version + 1, op |-> acc[p].op]

\* The event is published before the deferred unlock runs.
Announce(p) ==
  /\ pc[p] = "publish"
  /\ Publish(Event(p))
  /\ Return(p, IF Kind(p) = "delete" THEN [status |-> "ok"]
               ELSE Answer("ok", rec[p].version + 1, acc[p]))
  /\ UNCHANGED <<backendVars, lock, cache, localVars, req, calls>>

-----------------------------------------------------------------------------
(* Subscribers: Subscribe checks that the document exists, then registers. *)

SubscribeCheck(s) ==
  /\ sub[s] = "off" /\ stored # NoDoc
  /\ sub' = [sub EXCEPT ![s] = "checked"]
  /\ UNCHANGED <<backendVars, lock, cache, ch, got, lost, pc, req, localVars,
                 ret, calls>>

Subscribe(s) ==
  /\ sub[s] = "checked"
  /\ sub' = [sub EXCEPT ![s] = "on"]
  /\ UNCHANGED <<backendVars, lock, cache, ch, got, lost, pc, req, localVars,
                 ret, calls>>

\* A cancelled subscription's channel is closed; what it holds can be read.
Cancel(s) ==
  /\ sub[s] = "on"
  /\ sub' = [sub EXCEPT ![s] = "cancelled"]
  /\ UNCHANGED <<backendVars, lock, cache, ch, got, lost, pc, req, localVars,
                 ret, calls>>

Receive(s) ==
  /\ ch[s] # <<>>
  /\ got' = [got EXCEPT ![s] = Append(@, Head(ch[s]))]
  /\ ch' = [ch EXCEPT ![s] = Tail(@)]
  /\ UNCHANGED <<backendVars, lock, cache, sub, lost, pc, req, localVars,
                 ret, calls>>

-----------------------------------------------------------------------------
\* No document; goroutines idle; req, rec and acc hold no meaning yet.
Init ==
  /\ stored = NoDoc /\ trail = <<>> /\ held = {} /\ life = 0
  /\ lock = Free /\ cache = EmptyCache
  /\ sub = [s \in Subs |-> "off"] /\ ch = [s \in Subs |-> <<>>]
  /\ got = [s \in Subs |-> <<>>] /\ lost = [s \in Subs |-> FALSE]
  /\ pc = [p \in Procs |-> "idle"]
  /\ req = [p \in Procs |-> [kind |-> "getOps", base |-> 0, to |-> 0,
                             source |-> NoSource, seq |-> 0, payload |-> NoOp]]
  /\ rec = [p \in Procs |-> [version |-> 0, doc |-> Err]]
  /\ ops = [p \in Procs |-> <<>>]
  /\ acc = [p \in Procs |-> [op |-> NoOp, doc |-> Err]]
  /\ ret = [p \in Procs |-> [status |-> "none"]]
  /\ calls = 0

\* What a goroutine does on its own once it holds what it needs.
Step(p) ==
  \/ Unlock(p) \/ Create(p) \/ ReadForDelete(p) \/ Delete(p) \/ Clear(p)
  \/ ReadForSubmit(p) \/ Dedup(p) \/ Parse(p)
  \/ ReadForRollback(p) \/ ReadForSnapshot(p) \/ CheckRange(p) \/ FetchRange(p)
  \/ Hit(p) \/ Miss(p) \/ Fill(p) \/ Finish(p)
  \/ Commit(p) \/ CacheCommitted(p) \/ Announce(p)

SubscriberStep(s) ==
  SubscribeCheck(s) \/ Subscribe(s) \/ Cancel(s) \/ Receive(s)

\* Every call allowed by the bound has returned.
Terminated ==
  calls = MaxCalls /\ (\A p \in Procs : pc[p] = "idle") /\ UNCHANGED vars

Next ==
  \/ \E p \in Procs : Call(p) \/ Lock(p) \/ Step(p)
  \/ \E s \in Subs : SubscriberStep(s)
  \/ Terminated

Spec == Init /\ [][Next]_vars

\* A goroutine that can run is run; a sync.Mutex is handed to a waiter that
\* has waited long, so no one waits for ever while others come and go.
Fairness == \A p \in Procs : WF_vars(Step(p)) /\ SF_vars(Lock(p))
FairSpec == Spec /\ Fairness

-----------------------------------------------------------------------------
(* Properties *)

\* Where a goroutine may be, and with which request.
ControlOK ==
  /\ DOMAIN pc = Procs /\ DOMAIN req = Procs /\ DOMAIN ret = Procs
  /\ \A p \in Procs :
       /\ Kind(p) \in Kinds
       /\ req[p].base \in Int /\ req[p].to \in Int /\ req[p].seq \in Nat
       /\ pc[p] \in {"idle"} \cup Labels[Kind(p)]

\* A goroutine's copies of what it has read.
LocalsOK ==
  /\ DOMAIN rec = Procs /\ DOMAIN ops = Procs /\ DOMAIN acc = Procs
  /\ \A p \in Procs :
       /\ rec[p].version \in Nat
       /\ IsSeq(ops[p])
       /\ \A i \in DOMAIN ops[p] : ops[p][i].version \in Nat
FillOK == \A p \in Procs : pc[p] = "fill" => ops[p] # <<>>

StoredOK ==
  stored # NoDoc =>
    /\ stored.version \in Nat /\ IsSeq(stored.ops)
    /\ \A i \in DOMAIN stored.ops :
         stored.ops[i].version \in Nat /\ stored.ops[i].seq \in Nat

SubscribersOK ==
  /\ sub \in [Subs -> {"off", "checked", "on", "cancelled"}]
  /\ DOMAIN ch = Subs /\ DOMAIN got = Subs /\ lost \in [Subs -> BOOLEAN]
  /\ \A s \in Subs : IsSeq(got[s]) /\ IsSeq(ch[s]) /\ Len(ch[s]) <= Buffer

\* The shape of the whole state; operations and documents are opaque.  (The
\* fields of Server, memDoc, MemoryLocker and MemoryPublisher.)
TypeOK ==
  /\ StoredOK /\ ControlOK /\ LocalsOK /\ FillOK /\ SubscribersOK
  /\ lock \in Procs \cup {Free}
  /\ DOMAIN cache \subseteq Nat
  /\ calls \in 0..MaxCalls /\ life \in Nat

\* A call past Lock and not yet past Unlock.
Critical(p) == Kind(p) \in Locking /\ pc[p] \notin {"idle", "lock"}
HoldsLock == \A p \in Procs : Critical(p) => lock = p

\* Between its read and its commit, a writer's copy of the record is current.
Deciding == {"dedup", "parse", "opsDoc", "opsGet", "work", "fill", "commit"}
ViewIsCurrent ==
  \A p \in Procs :
    Kind(p) \in {"submit", "rollback"} /\ pc[p] \in Deciding =>
      stored # NoDoc /\ rec[p].version = stored.version

\* Between the idempotency check and the commit, nobody commits its identity.
StillFresh ==
  \A p \in Procs :
    /\ Kind(p) = "submit" /\ pc[p] \in Deciding \ {"dedup"}
    /\ HasID(req[p])
    => \A i \in DOMAIN stored.ops : ~SameID(stored.ops[i], req[p])

\* What a call has read and checked under the lock is still true when it acts
\* on it, with lockless readers, deletions and rollbacks around (the sections
\* between Lock and unlock of submitCore and RollbackToVersion).
LockedView == HoldsLock /\ ViewIsCurrent /\ StillFresh

\* The snapshot version and the op log advance together: version v means v
\* records, the i-th of which says it made version i (CommitOp, submitCore).
LogMatchesVersion ==
  stored # NoDoc =>
    /\ stored.version = Len(stored.ops)
    /\ \A i \in DOMAIN stored.ops : stored.ops[i].version = i

\* A retried submission is never committed twice: no two records of the log
\* carry the same source and sequence (the scan of submitCore under the lock).
AtMostOnce ==
  stored # NoDoc =>
    \A i, j \in DOMAIN stored.ops :
      HasID(stored.ops[i]) /\ SameID(stored.ops[i], stored.ops[j]) => i = j

\* Applying the logged operations one after the other to the document as it
\* was created gives the stored document (Apply and CommitOp in submitCore).
SnapshotIsReplay ==
  stored # NoDoc =>
    /\ stored.doc = trail[Len(trail)]
    /\ Len(trail) = Len(stored.ops) + 1
    /\ \A v \in DOMAIN stored.ops :
         trail[v + 1] = ApplyOp(trail[v], stored.ops[v].op)

\* What getOrParseCommittedOperation finds in the cache for a version of the
\* log is the operation of that version's record.
CacheCoherent ==
  stored # NoDoc =>
    \A v \in DOMAIN cache \cap DOMAIN stored.ops : cache[v] = stored.ops[v].op

\* A snapshot returned by GetSnapshotAt is one the document really had at
\* that version.
SnapshotAtIsHistorical ==
  \A p \in Procs :
    Kind(p) = "snapshotAt" /\ ret[p].status = "ok" =>
      [version |-> ret[p].version, doc |-> ret[p].doc] \in held

\* Everything a subscription was sent, read or not.
Stream(s) == got[s] \o ch[s]

\* The event that may follow e on a subscription that missed none.
Follows(e, f) ==
  f.version = CASE e.type = "op" /\ f.type = "op" -> e.version + 1
                [] e.type = "op" /\ f.type = "delete" -> e.version
                [] e.type = "delete" /\ f.type = "op" -> 1
                [] e.type = "delete" /\ f.type = "delete" -> 0

\* f was published after e: in a later life of the document, or for a later
\* version, or it is the deletion of e's version.
After(e, f) ==
  \/ f.life > e.life
  \/ f.life = e.life /\ f.version > e.version
  \/ f.life = e.life /\ f.version = e.version /\ e.type = "op" /\ f.type = "delete"

\* Whatever a full channel made it miss, a subscription gets its events in commit
\* order, over deletions and re-creations too, each at most once; as long as it
\* missed none it gets every one (Publish runs before the unlock of submitCore
\* and drops what a channel cannot take).
StreamInOrder ==
  \A s \in Subs : \A i \in 1..(Len(Stream(s)) - 1) :
    /\ After(Stream(s)[i], Stream(s)[i + 1])
    /\ ~lost[s] => Follows(Stream(s)[i], Stream(s)[i + 1])

\* When no call is between its commit and its publication, a subscription that
\* has seen an event and missed none was told of the current version.
StreamUpToDate ==
  lock = Free /\ stored # NoDoc /\ stored.version > 0 =>
    \A s \in Subs : Listening(s) /\ ~lost[s] /\ Stream(s) # <<>> =>
      Stream(s)[Len(Stream(s))] =
        [type |-> "op", life |-> life, version |-> stored.version,
         op |-> stored.ops[stored.version].op]

\* The log of a living document only grows, by one record and one version at
\* a time, and no record in it ever changes (CommitOp).
HistoryAppendOnly ==
  [][stored # NoDoc /\ stored' # NoDoc /\ stored' # stored =>
       /\ stored'.version = stored.version + 1
       /\ Len(stored'.ops) = Len(stored.ops) + 1
       /\ \A i \in DOMAIN stored.ops : stored'.ops[i] = stored.ops[i]]_vars

\* Every server call returns: the lock is always released.
EveryCallReturns == \A p \in Procs : pc[p] # "idle" ~> pc[p] = "idle"

\* When every record between the target version and the current one is undone
\* by its inverse, RollbackToVersion commits the document of the target version.
RollbackRestores ==
  \A p \in Procs :
    LET undone == (req[p].base + 1)..rec[p].version
    IN  pc[p] = "commit" /\ Kind(p) = "rollback" /\ stored # NoDoc
        /\ (\A v \in undone :
              ApplyOp(trail[v + 1], InvertOp(stored.ops[v].op)) = trail[v])
        => acc[p].doc = trail[req[p].base + 1]

\* VersionedDoc on the state of the backend.
History ==
  INSTANCE VersionedDoc WITH log  <- IF stored = NoDoc THEN <<>> ELSE stored.ops,
                             docs <- trail

\* The operation of a submission's record is the submitted operation rebased,
\* in order, over exactly the records between its base version and its own
\* (steps 2 and 3 of Submit).
RebasedOverLog ==
  stored # NoDoc =>
    \A v \in DOMAIN stored.ops :
      stored.ops[v].op =
        History!RebaseOver(stored.ops[v].sub, SubSeq(stored.ops, 1, v - 1),
                           stored.ops[v].base)

\* The server implements VersionedDoc: each call takes effect in one step, as
\* if submissions, deletions and creations were made one after the other.
ImplementsVersionedDoc == History!Spec
=============================================================================
