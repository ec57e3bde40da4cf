------------------------------- MODULE Session ------------------------------
(***************************************************************************)
(* One client session on one document: its websocket connections one after *)
(* the other (ClientConn), the SessionManager's entry, the handlers of     *)
(* NewSessionInboundHandler, the live relays and the session's mailbox.    *)
(*                                                                         *)
(* The client reconnects when it likes; the server may notice the end of   *)
(* the old connection before, while or after it serves the new one, and a  *)
(* connection can break at every step.  The server and the publisher are   *)
(* reduced to a version and the events they publish: DocServer and         *)
(* RedisServer have their details.  "connected" and the replay that        *)
(* follows it are one message.                                             *)
(***************************************************************************)
EXTENDS Mailbox

CONSTANTS
  MaxConns,      \* bound: connections, numbered in the order they are opened
  MaxCommits,    \* bound: operations other clients commit
  MaxSubmits,    \* bound: submissions of this session, with sequence 1, 2, ...
  MaxTries,      \* bound: submit messages, retries included
  MaxDeletes,    \* bound: deletions of the document
  MaxAcks,       \* bound: acknowledgement messages
  LiveBuffer,    \* liveSubscribeBuffer
  SendBuffer,    \* capacity of a connection's send queue
  ReplayLimit,   \* defaultReplayLimit
  Stale,         \* a cursor the mailbox does not know
  None

ASSUME BoundsAssumption ==
  /\ {MaxCommits, MaxSubmits, MaxTries, MaxDeletes, MaxAcks, MaxConns} \subseteq Nat
  /\ {LiveBuffer, SendBuffer} \subseteq Nat \ {0} /\ ReplayLimit \in Nat
  /\ None \notin Nat /\ Stale \in Nat \ {NoCursor}

Conns == 1..MaxConns

VARIABLES
  version,    \* the document's version, or None when it is deleted
  published,  \* every event so far: type, version and whether it is our own
  seqs,       \* which event a submission of this session became
  box, acked, \* the mailbox, and the cursor acknowledged
  active,     \* SessionManager: the session's connection, or None
  pc, job,    \* where a connection's read loop is, and its handler's locals
  closed,     \* ClientConn.closed, and its context done
  hooked,     \* is Unregister among its close hooks?
  out,        \* its send queue: the ID of the last envelope of each message
  sub, ch,    \* is it subscribed, and the events on its subscription
  relay,      \* its live relay
  seen,       \* history of an open connection: what it was sent, and when
  current,    \* the client's newest connection, or 0
  known,      \* the client's cursor: the last envelope it received
  tries, acks

docVars == <<version, published, seqs>>
boxVars == <<box, acked>>
handlerVars == <<pc, job>>
closeVars == <<active, closed, hooked, seen>>
openVars == <<closeVars, out>>
liveVars == <<sub, ch, relay>>
clientVars == <<current, known, tries, acks>>
vars == <<docVars, boxVars, handlerVars, openVars, liveVars, clientVars>>

-----------------------------------------------------------------------------
(* The publisher *)

Publish(event) ==
  LET n == Len(published) + 1
      room(c) == Len(ch[c]) < LiveBuffer
  IN  /\ published' = Append(published, event)
      /\ ch' = [c \in Conns |-> IF sub[c] /\ room(c) THEN Append(ch[c], n)
                                ELSE ch[c]]
      /\ seen' = [c \in Conns |-> IF sub[c] /\ ~room(c) /\ ~closed[c]
                                  THEN [seen[c] EXCEPT !.overflow = TRUE]
                                  ELSE seen[c]]

\* Another client commits an operation, deletes the document or creates it.
Commit ==
  /\ version # None
  /\ Cardinality({ n \in DOMAIN published : ~published[n].own }) < MaxCommits
  /\ version' = version + 1
  /\ Publish([type |-> "op", version |-> version + 1, own |-> FALSE])
  /\ UNCHANGED <<seqs, boxVars, handlerVars, active, closed, hooked, out, sub,
                 relay, clientVars>>

Deletions == { n \in DOMAIN published : published[n].type = "delete" }
DeleteDocument ==
  /\ version # None /\ Cardinality(Deletions) < MaxDeletes
  /\ version' = None
  /\ Publish([type |-> "delete", version |-> version, own |-> FALSE])
  /\ UNCHANGED <<seqs, boxVars, handlerVars, active, closed, hooked, out, sub,
                 relay, clientVars>>
CreateDocument ==
  /\ version = None
  /\ version' = 0 /\ seqs' = <<>>
  /\ UNCHANGED <<published, boxVars, handlerVars, openVars, liveVars, clientVars>>

-----------------------------------------------------------------------------
(* ClientConn and SessionManager *)

NoJob == [cursor |-> NoCursor, replay |-> <<>>, skip |-> 0, item |-> None, version |-> 0]
NotSeen == [rangedAt |-> 0, replayed |-> {}, live |-> <<>>, overflow |-> FALSE]

\* A relay is off, idle, or has an event in hand whose envelope is to be
\* appended (it has no ID yet) or to be sent; skip is skipThroughVersion.
Off == [at |-> "off", event |-> 0, id |-> NoCursor, skip |-> 0]
Idle(v) == [Off EXCEPT !.at = "idle", !.skip = v]

Goto(c, label) == pc' = [pc EXCEPT ![c] = label]
Return(c) == Goto(c, "ready") /\ job' = [job EXCEPT ![c] = NoJob]
Cancel(c) == sub' = [sub EXCEPT ![c] = FALSE] /\ ch' = [ch EXCEPT ![c] = <<>>]

\* Close: the context is done and the close hooks run; Unregister removes the
\* connection if it is the active one.
Close(c) ==
  /\ closed' = [closed EXCEPT ![c] = TRUE]
  /\ hooked' = [hooked EXCEPT ![c] = FALSE]
  /\ active' = IF active = c /\ hooked[c] THEN None ELSE active
  /\ seen' = [seen EXCEPT ![c] = NotSeen]

\* An error from the handler: the read loop closes the connection and ends.
Fail(c) ==
  /\ Close(c)
  /\ Goto(c, "end") /\ job' = [job EXCEPT ![c] = NoJob]

\* Mutants of CanSend: a full queue is waited for whether or not the connection
\* closes; a full queue takes more.
CanSend_Blocks(c) == Len(out[c]) < SendBuffer
CanSend_Overfull(c) == TRUE

\* Enqueue waits for room in the queue or for the end of the connection.
CanSend(c) == closed[c] \/ Len(out[c]) < SendBuffer
Send(c, id) == out' = [out EXCEPT ![c] = Append(@, id)]

\* The client opens a connection and asks to connect from its cursor, or from
\* one the mailbox does not know.
Dial(c) ==
  /\ c = current + 1
  /\ Goto(c, "connect")
  /\ current' = c
  /\ \E id \in {known, Stale} : job' = [job EXCEPT ![c].cursor = id]
  /\ UNCHANGED <<docVars, boxVars, openVars, liveVars, known, tries, acks>>

\* The connection breaks, or a write fails.
Break(c) ==
  /\ pc[c] # "none" /\ ~closed[c]
  /\ Close(c)
  /\ UNCHANGED <<docVars, boxVars, handlerVars, out, liveVars, clientVars>>

\* The read loop of a closed connection ends.
ReadEnds(c) ==
  /\ pc[c] = "ready" /\ closed[c]
  /\ Goto(c, "end")
  /\ UNCHANGED <<docVars, boxVars, job, openVars, liveVars, clientVars>>

\* The write loop; only the client's newest connection reaches the client.
Write(c) ==
  /\ out[c] # <<>> /\ ~closed[c]
  /\ out' = [out EXCEPT ![c] = Tail(@)]
  /\ known' = IF current = c /\ Head(out[c]) # NoCursor THEN Head(out[c]) ELSE known
  /\ UNCHANGED <<docVars, boxVars, handlerVars, active, closed, hooked, seen,
                 liveVars, current, tries, acks>>

-----------------------------------------------------------------------------
(* HandleConnectAndAttachLive *)

\* Subscribe, before anything is replayed.
Attach(c) ==
  /\ pc[c] = "connect"
  /\ IF closed[c] \/ version = None THEN Fail(c) /\ UNCHANGED sub
     ELSE /\ sub' = [sub EXCEPT ![c] = TRUE]
          /\ Goto(c, "replay") /\ UNCHANGED <<job, closeVars>>
  /\ UNCHANGED <<docVars, boxVars, out, ch, relay, clientVars>>

\* The first read of the mailbox, for the replay ...
ReadReplay(c) ==
  /\ pc[c] = "replay"
  /\ job' = [job EXCEPT ![c].replay = Replay(box, job[c].cursor, ReplayLimit)]
  /\ Goto(c, "hello")
  /\ UNCHANGED <<docVars, boxVars, openVars, liveVars, clientVars>>

\* ... which is sent; a failure cancels the subscription.
SendReplay(c) ==
  /\ pc[c] = "hello" /\ CanSend(c)
  /\ IF closed[c] THEN Fail(c) /\ Cancel(c) /\ UNCHANGED out
     ELSE LET envs == job[c].replay
          IN  /\ Send(c, IF envs = <<>> THEN NoCursor ELSE envs[Len(envs)].id)
              /\ seen' = [seen EXCEPT ![c].replayed =
                            { envs[i].event : i \in DOMAIN envs }]
              /\ Goto(c, "range") /\ job' = [job EXCEPT ![c].replay = <<>>]
              /\ UNCHANGED <<active, closed, hooked, sub, ch>>
  /\ UNCHANGED <<docVars, boxVars, relay, clientVars>>

\* Mutants of SkipThrough: nothing is skipped, or one version too many.
SkipThrough_Nothing(c) == 0
SkipThrough_OneMore(c) == MaxVersion(Replay(box, job[c].cursor, ReplayLimit)) + 1

\* The second read, for the version up to which live events were replayed.
SkipThrough(c) == MaxVersion(Replay(box, job[c].cursor, ReplayLimit))

ReadRange(c) ==
  /\ pc[c] = "range"
  /\ job' = [job EXCEPT ![c] = [NoJob EXCEPT !.skip = SkipThrough(c)]]
  /\ seen' = [seen EXCEPT ![c].rangedAt = IF closed[c] THEN 0 ELSE Len(published)]
  /\ Goto(c, "register")
  /\ UNCHANGED <<docVars, boxVars, active, closed, hooked, out, liveVars, clientVars>>

\* Register: a closed connection is refused; else the close hook is added (one
\* that closes in between runs it at once) ...
Register(c) ==
  /\ pc[c] = "register"
  /\ IF closed[c] THEN Fail(c) /\ Cancel(c)
     ELSE /\ hooked' = [hooked EXCEPT ![c] = TRUE]
          /\ Goto(c, "install")
          /\ UNCHANGED <<job, active, closed, seen, sub, ch>>
  /\ UNCHANGED <<docVars, boxVars, out, relay, clientVars>>

\* ... the connection is installed ...
Install(c) ==
  /\ pc[c] = "install"
  /\ active' = c
  /\ job' = [job EXCEPT ![c].item = active]
  /\ Goto(c, "evict")
  /\ UNCHANGED <<docVars, boxVars, closed, hooked, out, seen, liveVars, clientVars>>

Replaced(c) == job[c].item

\* Mutant of Evicts: the old connection is left open.
Evicts_Nobody(c) == UNCHANGED closeVars

\* ... and the one it replaces is closed.
Evicts(c) ==
  IF Replaced(c) \in Conns \ {c} THEN Close(Replaced(c)) ELSE UNCHANGED closeVars

\* startLiveRelay does nothing when the connection has closed meanwhile: then
\* nobody cancels the subscription.
StartRelay(c) ==
  /\ pc[c] = "evict"
  /\ Evicts(c)
  /\ relay' = [relay EXCEPT ![c] = IF closed[c] THEN Off ELSE Idle(job[c].skip)]
  /\ Return(c)
  /\ UNCHANGED <<docVars, boxVars, out, sub, ch, clientVars>>

-----------------------------------------------------------------------------
(* The relay of startLiveRelay *)

\* Mutant of Skips: the session's own operations come back as events.
Skips_NotOwn(c, n) == published[n].version <= relay[c].skip

\* Events of versions already replayed, and of the session itself, are skipped.
Skips(c, n) == published[n].version <= relay[c].skip \/ published[n].own

TakeEvent(c) ==
  /\ relay[c].at = "idle" /\ ch[c] # <<>>
  /\ ch' = [ch EXCEPT ![c] = Tail(@)]
  /\ relay' = IF Skips(c, Head(ch[c])) THEN relay
              ELSE [relay EXCEPT ![c].at = "append", ![c].event = Head(ch[c])]
  /\ UNCHANGED <<docVars, boxVars, handlerVars, openVars, sub, clientVars>>

\* An envelope with a fresh ID, of an event or of none.
NoEvent == 0
Envelope(kind, n, v) ==
  [id |-> Len(box) + 1, kind |-> kind, event |-> n, version |-> v]

\* EnvelopeForSession and Append, whether or not the connection has closed.
AppendEvent(c) ==
  /\ relay[c].at = "append"
  /\ LET n   == relay[c].event
         env == Envelope("event", n, published[n].version)
     IN  /\ MayAppend(box, env)
         /\ box' = Append(box, env)
         /\ relay' = [relay EXCEPT ![c].at = "send", ![c].id = env.id]
  /\ UNCHANGED <<docVars, acked, handlerVars, openVars, sub, ch, clientVars>>

\* The envelope is sent; on a closed connection the relay gives up.
SendEvent(c) ==
  /\ relay[c].at = "send" /\ CanSend(c)
  /\ IF closed[c]
     THEN /\ relay' = [relay EXCEPT ![c] = Off]
          /\ Cancel(c) /\ UNCHANGED <<out, seen>>
     ELSE /\ Send(c, relay[c].id)
          /\ seen' = [seen EXCEPT ![c].live = Append(@, relay[c].event)]
          /\ relay' = [relay EXCEPT ![c] = Idle(@.skip)]
          /\ UNCHANGED <<sub, ch>>
  /\ UNCHANGED <<docVars, boxVars, handlerVars, active, closed, hooked, clientVars>>

\* The connection's context is done: the relay cancels the subscription.
RelayEnds(c) ==
  /\ relay[c].at = "idle" /\ closed[c]
  /\ relay' = [relay EXCEPT ![c] = Off] /\ Cancel(c)
  /\ UNCHANGED <<docVars, boxVars, handlerVars, openVars, clientVars>>

-----------------------------------------------------------------------------
(* Submissions and acknowledgements *)

\* A message of the client: only the session's active connection is served.
Serve(c, item, label) ==
  IF active = c
  THEN /\ job' = [job EXCEPT ![c].item = item]
       /\ Goto(c, label) /\ UNCHANGED closeVars
  ELSE Fail(c)

SubmitMessage(c) ==
  /\ pc[c] = "ready" /\ tries < MaxTries /\ tries' = tries + 1
  /\ \E s \in 1..MaxSubmits : Serve(c, s, "submit")
  /\ UNCHANGED <<docVars, boxVars, out, liveVars, current, known, acks>>

\* An acknowledgement of any envelope the client has received so far.
AckMessage(c) ==
  /\ pc[c] = "ready" /\ acks < MaxAcks /\ acks' = acks + 1
  /\ \E id \in 1..known : Serve(c, id, "ack")
  /\ UNCHANGED <<docVars, boxVars, out, liveVars, current, known, tries>>

\* Mutant of AlreadyDone: a retry is committed again.
AlreadyDone_Never(s) == FALSE

\* SubmitWithRequest finds the session's sequence number in the log.
AlreadyDone(s) == s \in DOMAIN seqs

\* SubmitWithRequest returns an error or finds a duplicate ...
Refused(c) ==
  /\ Goto(c, "answer") /\ job' = [job EXCEPT ![c] = NoJob]
  /\ UNCHANGED <<docVars, ch, seen>>

Acknowledges(c, n, v) ==
  Goto(c, "envelope") /\ job' = [job EXCEPT ![c].item = n, ![c].version = v]

\* ... or a new submission has nothing left after its transformation: nothing is
\* committed or published, and nothing remembers that it was made ...
Emptied(c) ==
  /\ version # None /\ ~AlreadyDone(job[c].item)
  /\ Acknowledges(c, NoEvent, version)
  /\ UNCHANGED <<docVars, ch, seen>>

\* ... or it is committed and published.
Committed(c) ==
  /\ version # None /\ ~AlreadyDone(job[c].item)
  /\ LET s == job[c].item
         n == Len(published) + 1
     IN  /\ version' = version + 1
         /\ Publish([type |-> "op", version |-> version + 1, own |-> TRUE])
         /\ seqs' = [t \in DOMAIN seqs \cup {s} |-> IF t = s THEN n ELSE seqs[t]]
         /\ Acknowledges(c, n, version + 1)

Submit(c) ==
  /\ pc[c] = "submit"
  /\ Refused(c) \/ Emptied(c) \/ Committed(c)
  /\ UNCHANGED <<boxVars, active, closed, hooked, out, sub, relay, clientVars>>

\* The acknowledgement of a submission that is neither a duplicate nor refused
\* goes into the mailbox, whether or not something was committed ...
AppendAck(c) ==
  /\ pc[c] = "envelope"
  /\ LET env == Envelope("ack", job[c].item, job[c].version)
     IN  /\ MayAppend(box, env)
         /\ box' = Append(box, env)
         /\ job' = [job EXCEPT ![c].item = env.id]
  /\ Goto(c, "answer")
  /\ UNCHANGED <<docVars, acked, openVars, liveVars, clientVars>>

\* ... and to the client; a duplicate and an error are answered without one.
Answer(c) ==
  /\ pc[c] = "answer" /\ CanSend(c)
  /\ IF closed[c] THEN Fail(c) /\ UNCHANGED out
     ELSE /\ Send(c, IF job[c].item = None THEN NoCursor ELSE job[c].item)
          /\ Return(c) /\ UNCHANGED <<active, closed, hooked, seen>>
  /\ UNCHANGED <<docVars, boxVars, liveVars, clientVars>>

\* HandleAckEnvelope
Ack(c) ==
  /\ pc[c] = "ack"
  /\ acked' = AckThrough(box, acked, job[c].item)
  /\ Return(c)
  /\ UNCHANGED <<docVars, box, openVars, liveVars, clientVars>>

-----------------------------------------------------------------------------
Init ==
  /\ version = 0 /\ published = <<>> /\ seqs = <<>>
  /\ box = <<>> /\ acked = NoCursor /\ active = None
  /\ pc = [c \in Conns |-> "none"] /\ job = [c \in Conns |-> NoJob]
  /\ closed = [c \in Conns |-> FALSE] /\ hooked = [c \in Conns |-> FALSE]
  /\ sub = [c \in Conns |-> FALSE] /\ ch = [c \in Conns |-> <<>>]
  /\ relay = [c \in Conns |-> Off] /\ out = [c \in Conns |-> <<>>]
  /\ seen = [c \in Conns |-> NotSeen]
  /\ current = 0 /\ known = NoCursor /\ tries = 0 /\ acks = 0

\* What the goroutines of a connection do on their own.
Handler(c) ==
  \/ Attach(c) \/ ReadReplay(c) \/ SendReplay(c) \/ ReadRange(c)
  \/ Register(c) \/ Install(c) \/ StartRelay(c)
  \/ Submit(c) \/ AppendAck(c) \/ Answer(c) \/ Ack(c) \/ ReadEnds(c)
Relay(c) == TakeEvent(c) \/ AppendEvent(c) \/ SendEvent(c) \/ RelayEnds(c)

Next ==
  \/ Commit \/ DeleteDocument \/ CreateDocument
  \/ \E c \in Conns :
       \/ Dial(c) \/ Break(c) \/ Write(c) \/ SubmitMessage(c) \/ AckMessage(c)
       \/ Handler(c) \/ Relay(c)

Spec == Init /\ [][Next]_vars
\* The goroutines of a handler and of a relay run when they can; nothing is
\* assumed of the client, of the network or of the write loop.
FairSpec == Spec /\ \A c \in Conns : WF_vars(Handler(c)) /\ WF_vars(Relay(c))

-----------------------------------------------------------------------------
(* Properties *)

Labels == {"none", "connect", "replay", "hello", "range", "register", "install",
           "evict", "ready", "submit", "envelope", "answer", "ack", "end"}
Events == [type : {"op", "delete"}, version : Nat, own : BOOLEAN]
Envelopes == [id : Nat, kind : {"event", "ack"}, event : Nat, version : Nat]
Jobs == [cursor : Nat, replay : Seq(Envelopes), skip : Nat, item : Nat \cup {None},
         version : Nat]
Relays == [at : {"off", "idle", "append", "send"}, event : Nat, id : Nat, skip : Nat]
Histories == [rangedAt : Nat, replayed : SUBSET Nat, live : Seq(Nat), overflow : BOOLEAN]

DocOK ==
  /\ version \in Nat \cup {None} /\ published \in Seq(Events)
  /\ DOMAIN seqs \subseteq 1..MaxSubmits
  /\ \A s \in DOMAIN seqs : seqs[s] \in DOMAIN published
MailboxOK ==
  /\ box \in Seq(Envelopes)
  /\ acked \in 0..Len(box) /\ known \in 0..Len(box)
ConnsOK ==
  /\ active \in Conns \cup {None} /\ current \in 0..MaxConns
  /\ pc \in [Conns -> Labels] /\ job \in [Conns -> Jobs]
  /\ relay \in [Conns -> Relays] /\ seen \in [Conns -> Histories]
  /\ {closed, hooked, sub} \subseteq [Conns -> BOOLEAN]
  /\ {out, ch} \subseteq [Conns -> Seq(Nat)]

\* The shape of the state (ClientConn, SessionManager, MemoryMailboxStore), with
\* channels and queues within their capacities.
TypeOK ==
  /\ DocOK /\ MailboxOK /\ ConnsOK
  /\ \A c \in Conns :
       /\ Len(out[c]) <= SendBuffer /\ Len(ch[c]) <= LiveBuffer
       /\ pc[c] = "submit" => job[c].item \in 1..MaxSubmits
       /\ pc[c] \in {"envelope", "ack"} => job[c].item \in Nat

\* Once a connection is installed, every other one that has been is closed, or
\* will be by the registration that replaced it (Register).
Evicting == { Replaced(c) : c \in { d \in Conns : pc[d] = "evict" } }
Attached(c) == pc[c] \in {"evict", "ready", "submit", "envelope", "answer", "ack"}
OneLiveConnection ==
  \A c, d \in Conns :
    c # d /\ Attached(c) /\ Attached(d) =>
      closed[c] \/ closed[d] \/ c \in Evicting \/ d \in Evicting

\* A connection is never sent live what was replayed to it, and live events
\* come once and in order (skipThroughVersion).
LiveAfterReplay ==
  \A c \in Conns :
    LET live == seen[c].live
    IN  /\ \A i \in DOMAIN live : live[i] \notin seen[c].replayed
        /\ \A i, j \in DOMAIN live : i < j => live[i] < live[j]

\* Which of the events behind number n a connection was not sent and will not be.
Missed(c, n) ==
  { m \in n + 1..Len(published) :
      /\ ~published[m].own
      /\ m \notin seen[c].replayed \cup {relay[c].event}
      /\ \A i \in DOMAIN seen[c].live : m # seen[c].live[i]
      /\ \A i \in DOMAIN ch[c] : m # ch[c][i] }
Relaying(c) == relay[c].at # "off" /\ ~closed[c] /\ ~seen[c].overflow

\* While a connection is open and its subscription has not overflowed, every
\* event from the second read of the mailbox on is sent to it or on its way,
\* as long as the document is not deleted (maxReplayEnvelopeVersion and
\* startLiveRelay).
AttachedMissesNothing ==
  Deletions = {} =>
    \A c \in Conns : Relaying(c) => Missed(c, seen[c].rangedAt) = {}

\* "Existing subscribers receive a delete event" (DeleteDocument): a client that
\* was attached and relaying at the time, after an operation was replayed to it,
\* does.
Replayed(c) == { m \in seen[c].replayed \ {NoEvent} : published[m].type = "op" }
DeletionIsRelayed ==
  \A c \in Conns :
    Relaying(c) /\ Replayed(c) # {} =>
      Missed(c, seen[c].rangedAt) \cap Deletions = {}

\* What a submission committed is in the mailbox once, as an acknowledgement and
\* never as an event, however often and on whichever connection it is retried and
\* whatever is relayed meanwhile.  (One that was emptied is acknowledged again at
\* every try.)
OwnSubmissionOnce ==
  \A i, j \in DOMAIN box :
    LET n == box[i].event
    IN  n # NoEvent /\ published[n].own =>
          box[i].kind = "ack" /\ (box[j].event = n => i = j)

\* A submission is committed once, however often it is retried and on whichever
\* connection (SubmitWithRequest).
OneSubmissionPerSequence ==
  Deletions = {} =>
    Cardinality({ n \in DOMAIN published : published[n].own }) <= MaxSubmits

\* Acknowledgements that overtake one another on two connections never move the
\* cursor back (AckThrough).
AckNeverBack == [][acked' >= acked]_vars

\* The handler and the relay of a connection that has closed come to an end,
\* also when its send queue is full (Enqueue, Wait).
ClosedConnectionEnds ==
  \A c \in Conns : closed[c] ~> pc[c] = "end" /\ relay[c].at = "off"
=============================================================================
