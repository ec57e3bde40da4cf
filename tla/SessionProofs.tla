---------------------------- MODULE SessionProofs ----------------------------
(***************************************************************************)
(* Theorems about Session, for any number of connections, commits,         *)
(* submissions, retries and deletions, and any size of the channels and    *)
(* queues.                                                                 *)
(***************************************************************************)
EXTENDS Session, AnySeqTheorems, FiniteSetTheorems, TLAPS

-----------------------------------------------------------------------------
(***************************************************************************)
(* The inductive invariant.  The log of envelopes and that of events, ...  *)
(***************************************************************************)

\* An envelope, or an acknowledgement about to be one, tells of an event and its
\* version, or of no event and a version that some event has reached.
TellsOf(n, v) ==
  /\ n = NoEvent \/ (n \in DOMAIN published /\ v = published[n].version)
  /\ v <= Len(published)

\* An envelope's ID is its place in the mailbox.
BoxOK == \A i \in DOMAIN box : box[i].id = i /\ TellsOf(box[i].event, box[i].version)

\* Versions do not run ahead of the events; without a deletion they are the
\* numbers of the events.
VersionsOK ==
  /\ version # None => version <= Len(published)
  /\ \A n \in DOMAIN published : published[n].version <= n
  /\ Deletions = {} =>
       /\ version = Len(published)
       /\ \A n \in DOMAIN published : published[n].version = n

\* IDs a connection holds are those of envelopes in the mailbox, and numbers of
\* events those of published ones.
InHand(c) == relay[c].at \in {"append", "send"}
IdsOK(c) ==
  /\ \A i \in DOMAIN out[c] : out[c][i] \in 0..Len(box)
  /\ relay[c].id \in 0..Len(box)
  /\ pc[c] = "answer" => job[c].item \in {None} \cup 1..Len(box)
  /\ \A i \in DOMAIN job[c].replay : job[c].replay[i].id \in 0..Len(box)
  /\ \A i \in DOMAIN ch[c] : ch[c][i] \in DOMAIN published
  /\ InHand(c) => relay[c].event \in DOMAIN published
  /\ pc[c] = "envelope" => TellsOf(job[c].item, job[c].version)

\* ... a connection and its registration, ...
Waiting == {"none", "connect", "replay", "hello", "range", "register", "install"}
RegistryOK(c) ==
  /\ c > current => pc[c] = "none"
  /\ pc[c] \in Waiting => active # c
  /\ pc[c] = "evict" => job[c].item # c
  /\ Attached(c) /\ ~closed[c] => active = c \/ c \in Evicting

\* ... what was replayed to it, ...
Behind(i, cursor) ==
  i > cursor /\ (ReplayLimit > 0 => i <= cursor + ReplayLimit)
ReplayOK(c) ==
  /\ closed[c] => seen[c] = NotSeen
  /\ pc[c] \in {"none", "connect", "replay", "hello"} => seen[c].replayed = {}
  /\ pc[c] = "hello" =>
       \A i \in DOMAIN job[c].replay :
         LET env == job[c].replay[i]
         IN  env.id \in DOMAIN box /\ env = box[env.id] /\ Behind(env.id, job[c].cursor)
  /\ pc[c] = "range" =>
       \A n \in seen[c].replayed :
         \E i \in DOMAIN box : box[i].event = n /\ Behind(i, job[c].cursor)
  /\ pc[c] \in {"register", "install", "evict"} =>
       \A n \in seen[c].replayed \ {NoEvent} :
         n \in DOMAIN published /\ published[n].version <= job[c].skip

\* ... and what is relayed to it.
Increasing(x) == \A i, j \in DOMAIN x : i < j => x[i] < x[j]
Before(x, n) == \A i \in DOMAIN x : x[i] < n
RelayOK(c) ==
  /\ pc[c] \in Waiting \cup {"evict"} => relay[c] = Off
  /\ relay[c].at = "off" => seen[c].live = <<>>
  /\ relay[c].at # "off" =>
       \A n \in seen[c].replayed \ {NoEvent} :
         n \in DOMAIN published /\ published[n].version <= relay[c].skip
  /\ \A i \in DOMAIN seen[c].live :
       LET n == seen[c].live[i]
       IN  n \in DOMAIN published /\ published[n].version > relay[c].skip
  /\ InHand(c) =>
       LET n == relay[c].event
       IN  published[n].version > relay[c].skip /\ ~published[n].own
  /\ Increasing(seen[c].live) /\ Increasing(ch[c])
  /\ \A i \in DOMAIN ch[c] : Before(seen[c].live, ch[c][i])
  /\ InHand(c) =>
       /\ Before(seen[c].live, relay[c].event)
       /\ \A i \in DOMAIN ch[c] : relay[c].event < ch[c][i]

\* An open connection whose subscription has not overflowed has every event since
\* the second read of the mailbox, until the relay takes them.
Listening == {"replay", "hello", "range", "register", "install", "evict"}
SubscribedOK(c) ==
  /\ sub[c] \/ ch[c] = <<>>
  /\ pc[c] \in Listening \/ relay[c].at # "off" => sub[c]
  /\ ~InHand(c) => relay[c].event = 0
Ranged(c) == pc[c] \in {"register", "install", "evict"} \/ relay[c].at # "off"
SkipOf(c) == IF relay[c].at # "off" THEN relay[c].skip ELSE job[c].skip
KeptOK(c) ==
  Deletions = {} /\ ~closed[c] /\ ~seen[c].overflow /\ Ranged(c) =>
    SkipOf(c) <= seen[c].rangedAt /\ Missed(c, seen[c].rangedAt) = {}

\* The acknowledgement of a submission is on its way once, or in the mailbox once.
Acknowledging(c) == pc[c] = "envelope" /\ job[c].item # NoEvent
AckOK ==
  /\ \A c \in Conns : Acknowledging(c) =>
       /\ published[job[c].item].own
       /\ \A i \in DOMAIN box : box[i].event # job[c].item
       /\ \A d \in Conns : Acknowledging(d) /\ job[d].item = job[c].item => d = c
  /\ OwnSubmissionOnce

\* Without a deletion, the session's own events are those of its submissions.
OwnOK ==
  Deletions = {} =>
    { n \in DOMAIN published : published[n].own } = { seqs[s] : s \in DOMAIN seqs }

-----------------------------------------------------------------------------
(* The mailbox *)

\* The maximum of a bounded set of numbers is one of them (maxReplayEnvelopeVersion).
LEMMA MaxBounded ==
  ASSUME NEW S, S \subseteq Nat, S # {}, NEW B \in Nat, \A x \in S : x <= B
  PROVE  Max(S) \in S /\ \A x \in S : x <= Max(S)
<1> DEFINE T == { b \in 0..B : \A x \in S : x <= b }
<1>1. B \in T
  OBVIOUS
<1>2. PICK m \in T : \A b \in T : m <= b
  <2>1. T \subseteq Nat /\ T # {}
    BY <1>1
  <2> HIDE DEF T
  <2> QED
    BY <2>1, LeastNat
<1>3. m \in S
  <2>1. SUFFICES ASSUME m \notin S PROVE FALSE
    OBVIOUS
  <2>2. \A x \in S : x < m
    BY <2>1
  <2>3. m - 1 \in 0..B /\ \A x \in S : x <= m - 1
    <3>1. PICK x \in S : x < m
      BY <2>2
    <3> QED
      BY <2>2, <3>1
  <2> QED
    BY <1>2, <2>3
<1>4. \A x \in S : m >= x
  OBVIOUS
<1> QED
  BY <1>3, <1>4 DEF Max

\* The place of an envelope is its ID (ReplayAfter and AckThrough look it up).
LEMMA PlaceIs ==
  ASSUME NEW b \in Seq(Envelopes), \A i \in DOMAIN b : b[i].id = i, NEW cursor \in Nat
  PROVE  Place(b, cursor) = IF cursor \in 0..Len(b) THEN cursor ELSE NotFound
<1>1. DOMAIN b = 1..Len(b) /\ Len(b) \in Nat
  OBVIOUS
<1>2. cursor \in Ids(b) <=> cursor \in 1..Len(b)
  BY <1>1 DEF Ids
<1>3. CASE cursor \in 1..Len(b)
  BY <1>1, <1>2, <1>3 DEF Place, NoCursor
<1>4. CASE cursor \notin 1..Len(b)
  BY <1>1, <1>2, <1>4 DEF Place, NoCursor
<1> QED
  BY <1>3, <1>4

\* A replay is what the mailbox has behind the cursor, up to the limit.
LEMMA ReplayIs ==
  ASSUME NEW b \in Seq(Envelopes), \A i \in DOMAIN b : b[i].id = i, NEW cursor \in Nat
  PROVE  LET r == Replay(b, cursor, ReplayLimit)
         IN  /\ r \in Seq(Envelopes)
             /\ \A i \in DOMAIN r :
                  /\ r[i].id \in DOMAIN b /\ r[i] = b[r[i].id]
                  /\ Behind(r[i].id, cursor)
             /\ \A k \in DOMAIN b : Behind(k, cursor) => \E i \in DOMAIN r : r[i] = b[k]
<1> DEFINE r == Replay(b, cursor, ReplayLimit)
           last == IF ReplayLimit > 0 /\ cursor + ReplayLimit < Len(b)
                   THEN cursor + ReplayLimit ELSE Len(b)
<1>1. DOMAIN b = 1..Len(b) /\ Len(b) \in Nat /\ ReplayLimit \in Nat
  BY BoundsAssumption
<1>2. CASE cursor \in 0..Len(b)
  <2>1. Place(b, cursor) = cursor /\ cursor # NotFound
    BY <1>2, PlaceIs DEF NotFound
  <2>2. r = SubSeq(b, cursor + 1, last)
    BY <2>1 DEF Replay, RequiresResync, ReplayAfter
  <2>3. last \in Nat /\ cursor <= last /\ last <= Len(b)
    BY <1>1, <1>2
  <2>4. \A k \in DOMAIN b : Behind(k, cursor) <=> cursor < k /\ k <= last
    BY <1>1, <1>2 DEF Behind
  <2> HIDE DEF r, last
  <2>5. /\ r \in Seq(Envelopes) /\ Len(r) = last - cursor
        /\ \A i \in 1..(last - cursor) : r[i] = b[cursor + i]
    <3>1. CASE cursor = last
      BY <2>2, <2>3, <3>1
    <3>2. CASE cursor < last
      <4>1. cursor + 1 \in 1..Len(b) /\ last \in (cursor + 1)..Len(b)
        BY <1>2, <2>3, <3>2
      <4>2. \A i \in 1..Len(b) : b[i] \in Envelopes
        BY <1>1
      <4>3. r \in Seq(Envelopes) /\ Len(r) = last - (cursor + 1) + 1
        BY <2>2, <2>3, <4>1, <4>2, <1>1
      <4>4. \A i \in 1..(last - cursor) : r[i] = b[(cursor + 1) + i - 1]
        BY <2>2, <2>3, <4>1, <1>1
      <4> QED
        BY <1>2, <2>3, <4>3, <4>4
    <3> QED
      BY <1>2, <2>3, <3>1, <3>2
  <2>6. \A i \in DOMAIN r : cursor + i \in DOMAIN b /\ r[i] = b[cursor + i] /\ cursor + i <= last
    BY <1>1, <1>2, <2>3, <2>5
  <2>7. \A k \in DOMAIN b : cursor < k /\ k <= last => k - cursor \in DOMAIN r /\ r[k - cursor] = b[k]
    BY <1>1, <1>2, <2>3, <2>5
  <2>8. \A i \in DOMAIN r : r[i].id = cursor + i /\ i > 0
    BY <2>5, <2>6
  <2> QED
    BY <1>1, <1>2, <2>4, <2>5, <2>6, <2>7, <2>8 DEF r
<1>3. CASE cursor \notin 0..Len(b)
  <2>1. r = <<>>
    BY <1>3, PlaceIs DEF Replay, RequiresResync
  <2>2. \A k \in DOMAIN b : ~Behind(k, cursor)
    BY <1>1, <1>3 DEF Behind
  <2> QED
    BY <2>1, <2>2
<1> QED
  BY <1>2, <1>3

-----------------------------------------------------------------------------
(* The type invariant *)

TypeInv == TypeOK /\ BoxOK /\ VersionsOK /\ \A c \in Conns : IdsOK(c)

\* What the client and the goroutines of one connection do.
Acts(c) ==
  \/ Dial(c) \/ Break(c) \/ Write(c) \/ SubmitMessage(c) \/ AckMessage(c)
  \/ Handler(c) \/ Relay(c)

\* An event joins those published and the channels that have room (Publish).
LEMMA PublishFacts ==
  ASSUME TypeOK, NEW e \in Events, Publish(e)
  PROVE  /\ published' \in Seq(Events) /\ Len(published') = Len(published) + 1
         /\ DOMAIN published' = DOMAIN published \cup {Len(published) + 1}
         /\ \A n \in DOMAIN published : published'[n] = published[n]
         /\ published'[Len(published) + 1] = e
         /\ ch' \in [Conns -> Seq(Nat)] /\ \A c \in Conns : Len(ch'[c]) <= LiveBuffer
         /\ seen' \in [Conns -> Histories]
<1> DEFINE n == Len(published) + 1
<1>1. published \in Seq(Events) /\ n \in Nat
  BY DEF TypeOK, DocOK
<1>2. /\ published' = Append(published, e)
      /\ ch' = [c \in Conns |-> IF sub[c] /\ Len(ch[c]) < LiveBuffer
                                THEN Append(ch[c], n) ELSE ch[c]]
      /\ seen' = [c \in Conns |-> IF sub[c] /\ ~(Len(ch[c]) < LiveBuffer) /\ ~closed[c]
                                  THEN [seen[c] EXCEPT !.overflow = TRUE] ELSE seen[c]]
  BY DEF Publish
<1>3. /\ published' \in Seq(Events) /\ Len(published') = Len(published) + 1
      /\ DOMAIN published' = DOMAIN published \cup {Len(published) + 1}
      /\ \A i \in DOMAIN published : published'[i] = published[i]
      /\ published'[Len(published) + 1] = e
  BY <1>1, <1>2
<1> HIDE DEF n
<1>4. ch' \in [Conns -> Seq(Nat)] /\ \A c \in Conns : Len(ch'[c]) <= LiveBuffer
  <2> SUFFICES ASSUME NEW c \in Conns PROVE ch'[c] \in Seq(Nat) /\ Len(ch'[c]) <= LiveBuffer
    BY <1>2
  <2>1. ch[c] \in Seq(Nat) /\ Len(ch[c]) <= LiveBuffer /\ LiveBuffer \in Nat
    BY BoundsAssumption DEF TypeOK, ConnsOK
  <2>2. CASE sub[c] /\ Len(ch[c]) < LiveBuffer
    BY <1>1, <1>2, <2>1, <2>2
  <2>3. CASE ~(sub[c] /\ Len(ch[c]) < LiveBuffer)
    BY <1>2, <2>1, <2>3
  <2> QED
    BY <2>2, <2>3
<1>5. seen' \in [Conns -> Histories]
  BY <1>2 DEF TypeOK, ConnsOK, Histories
<1> QED
  BY <1>3, <1>4, <1>5

\* The steps that publish: other clients' and the session's own (CommitOp and
\* DeleteDocument end in a Publish).
LEMMA Publishers ==
  ASSUME TypeOK
  PROVE  /\ Commit => \E e \in Events :
              Publish(e) /\ ~e.own /\ version' = e.version /\ e.version = version + 1
         /\ DeleteDocument => \E e \in Events : Publish(e) /\ ~e.own /\ e.type = "delete"
         /\ \A c \in Conns : Submit(c) =>
              \/ UNCHANGED <<docVars, ch, seen>>
              \/ \E e \in Events :
                   /\ Publish(e) /\ e.own /\ version' = e.version /\ e.version = version + 1
                   /\ pc'[c] = "envelope" /\ job'[c].item = Len(published) + 1
                   /\ job'[c].version = e.version
<1>0. /\ version # None => version \in Nat /\ version + 1 \in Nat
      /\ pc \in [Conns -> Labels] /\ job \in [Conns -> Jobs]
  BY DEF TypeOK, DocOK, ConnsOK
<1>1. ASSUME Commit
      PROVE  \E e \in Events :
               Publish(e) /\ ~e.own /\ version' = e.version /\ e.version = version + 1
  <2> DEFINE e == [type |-> "op", version |-> version + 1, own |-> FALSE]
  <2>1. Publish(e) /\ version # None /\ version' = version + 1
    BY <1>1 DEF Commit
  <2>2. e \in Events /\ ~e.own /\ e.version = version + 1
    BY <1>0, <2>1 DEF Events
  <2> HIDE DEF e
  <2> QED
    BY <2>1, <2>2
<1>2. ASSUME DeleteDocument
      PROVE  \E e \in Events : Publish(e) /\ ~e.own /\ e.type = "delete"
  <2> DEFINE e == [type |-> "delete", version |-> version, own |-> FALSE]
  <2>1. Publish(e) /\ version # None
    BY <1>2 DEF DeleteDocument
  <2>2. e \in Events /\ ~e.own /\ e.type = "delete"
    BY <1>0, <2>1 DEF Events
  <2> HIDE DEF e
  <2> QED
    BY <2>1, <2>2
<1>3. ASSUME NEW c \in Conns, Submit(c), ~UNCHANGED <<docVars, ch, seen>>
      PROVE  \E e \in Events :
               /\ Publish(e) /\ e.own /\ version' = e.version /\ e.version = version + 1
               /\ pc'[c] = "envelope" /\ job'[c].item = Len(published) + 1
               /\ job'[c].version = e.version
  <2> DEFINE e == [type |-> "op", version |-> version + 1, own |-> TRUE]
  <2>1. /\ Publish(e) /\ version # None /\ version' = version + 1
        /\ Goto(c, "envelope")
        /\ job' = [job EXCEPT ![c].item = Len(published) + 1, ![c].version = version + 1]
    BY <1>3 DEF Submit, Refused, Emptied, Committed, Acknowledges
  <2>2. e \in Events /\ e.own /\ e.version = version + 1
    BY <1>0, <2>1 DEF Events
  <2> HIDE DEF e
  <2>3. /\ pc'[c] = "envelope" /\ job'[c].item = Len(published) + 1
        /\ job'[c].version = version + 1
    BY <1>0, <2>1 DEF Goto, Jobs
  <2> QED
    BY <2>1, <2>2, <2>3
<1> QED
  BY <1>1, <1>2, <1>3

\* The events, the version and the log stay typed, and no event is lost.
LEMMA DocNext ==
  ASSUME TypeOK, VersionsOK, [Next]_vars
  PROVE  /\ DocOK' /\ VersionsOK'
         /\ Len(published) <= Len(published')
         /\ \A n \in DOMAIN published : n \in DOMAIN published' /\ published'[n] = published[n]
<1> DEFINE Ok == /\ DocOK' /\ VersionsOK'
                 /\ Len(published) <= Len(published')
                 /\ \A n \in DOMAIN published :
                      n \in DOMAIN published' /\ published'[n] = published[n]
<1>0. /\ published \in Seq(Events) /\ Len(published) \in Nat
      /\ DOMAIN published = 1..Len(published) /\ None \notin Nat
  BY BoundsAssumption DEF TypeOK, DocOK
<1>1. ASSUME UNCHANGED docVars PROVE Ok
  <2>1. UNCHANGED version /\ UNCHANGED published /\ UNCHANGED seqs
    BY <1>1 DEF docVars
  <2>2. DocOK'
    BY <2>1 DEF DocOK, TypeOK
  <2>3. VersionsOK'
    BY <2>1 DEF VersionsOK, Deletions
  <2>4. /\ Len(published) <= Len(published')
        /\ \A n \in DOMAIN published : n \in DOMAIN published' /\ published'[n] = published[n]
    BY <1>0, <2>1
  <2> QED
    BY <2>2, <2>3, <2>4
<1>2. ASSUME NEW e \in Events, Publish(e), version # None, e.type = "op",
             version' = version + 1, e.version = version + 1,
             DOMAIN seqs' \subseteq 1..MaxSubmits,
             \A s \in DOMAIN seqs' : \/ s \in DOMAIN seqs /\ seqs'[s] = seqs[s]
                                     \/ seqs'[s] = Len(published) + 1
      PROVE  Ok
  <2>1. /\ published' \in Seq(Events) /\ Len(published') = Len(published) + 1
        /\ DOMAIN published' = DOMAIN published \cup {Len(published) + 1}
        /\ \A n \in DOMAIN published : published'[n] = published[n]
        /\ published'[Len(published) + 1] = e
    BY <1>2, PublishFacts
  <2>2. DocOK'
    BY <1>0, <1>2, <2>1 DEF DocOK, TypeOK
  <2>3. version \in Nat
    BY <1>2 DEF TypeOK, DocOK
  <2>4. Deletions' = {} => Deletions = {}
    BY <2>1 DEF Deletions
  <2>5. version <= Len(published) /\ \A n \in DOMAIN published : published[n].version <= n
    BY <1>2 DEF VersionsOK
  <2>6. version' <= Len(published')
    BY <1>0, <1>2, <2>1, <2>3, <2>5
  <2>7. \A n \in DOMAIN published' : published'[n].version <= n
    BY <1>0, <1>2, <2>1, <2>3, <2>5
  <2>8. ASSUME Deletions' = {}
        PROVE  version' = Len(published') /\ \A n \in DOMAIN published' : published'[n].version = n
    BY <1>0, <1>2, <2>1, <2>3, <2>4, <2>8 DEF VersionsOK
  <2> QED
    BY <1>0, <2>1, <2>2, <2>8, <2>6, <2>7 DEF VersionsOK
<1>3. ASSUME Commit PROVE Ok
  <2> DEFINE e == [type |-> "op", version |-> version + 1, own |-> FALSE]
  <2>1. version \in Nat
    BY <1>3 DEF Commit, TypeOK, DocOK
  <2>2. e \in Events /\ e.type = "op" /\ e.version = version + 1
    BY <2>1 DEF Events
  <2>3. Publish(e) /\ version # None /\ version' = version + 1 /\ seqs' = seqs
    BY <1>3 DEF Commit
  <2> HIDE DEF e
  <2> QED
    BY <1>2, <2>2, <2>3 DEF TypeOK, DocOK
<1>4. ASSUME NEW c \in Conns, Submit(c) PROVE Ok
  <2>1. CASE UNCHANGED docVars
    BY <1>1, <2>1
  <2>2. CASE ~UNCHANGED docVars
    <3> DEFINE e == [type |-> "op", version |-> version + 1, own |-> TRUE]
               s == job[c].item
    <3>1. /\ version # None /\ version' = version + 1 /\ Publish(e) /\ s \in 1..MaxSubmits
          /\ seqs' = [t \in DOMAIN seqs \cup {s} |->
                        IF t = s THEN Len(published) + 1 ELSE seqs[t]]
      BY <1>4, <2>2 DEF Submit, Refused, Emptied, Committed, TypeOK
    <3>2. e \in Events /\ e.type = "op" /\ e.version = version + 1
      BY <3>1 DEF Events, TypeOK, DocOK
    <3> HIDE DEF e, s
    <3> QED
      BY <1>2, <3>1, <3>2 DEF TypeOK, DocOK
  <2> QED
    BY <2>1, <2>2
<1>5. ASSUME DeleteDocument PROVE Ok
  <2> DEFINE e == [type |-> "delete", version |-> version, own |-> FALSE]
  <2>1. version \in Nat /\ version' = None /\ Publish(e) /\ seqs' = seqs
    BY <1>5 DEF DeleteDocument, TypeOK, DocOK
  <2>2. e \in Events /\ e.type = "delete" /\ e.version = version
    BY <2>1 DEF Events
  <2> HIDE DEF e
  <2>3. /\ published' \in Seq(Events) /\ Len(published') = Len(published) + 1
        /\ DOMAIN published' = DOMAIN published \cup {Len(published) + 1}
        /\ \A n \in DOMAIN published : published'[n] = published[n]
        /\ published'[Len(published) + 1] = e
    BY <2>1, <2>2, PublishFacts
  <2>4. DocOK'
    BY <1>0, <2>1, <2>3 DEF DocOK, TypeOK
  <2>5. Deletions' # {}
    <3>1. Len(published) + 1 \in Deletions'
      BY <2>2, <2>3 DEF Deletions
    <3> QED
      BY <3>1
  <2>6. version <= Len(published) /\ \A n \in DOMAIN published : published[n].version <= n
    BY <1>0, <2>1 DEF VersionsOK
  <2>7. \A n \in DOMAIN published' : published'[n].version <= n
    BY <1>0, <2>1, <2>2, <2>3, <2>6
  <2>8. VersionsOK'
    BY <2>1, <2>5, <2>7 DEF VersionsOK
  <2>9. /\ Len(published) <= Len(published')
        /\ \A n \in DOMAIN published : n \in DOMAIN published' /\ published'[n] = published[n]
    BY <1>0, <2>3
  <2> QED
    BY <2>4, <2>8, <2>9
<1>6. ASSUME CreateDocument PROVE Ok
  <2>1. /\ version = None /\ version' = 0 /\ seqs' = <<>> /\ UNCHANGED published
    BY <1>6 DEF CreateDocument
  <2>2. Deletions # {} /\ Deletions' = Deletions
    BY <1>0, <2>1 DEF VersionsOK, Deletions
  <2>3. DOMAIN seqs' = {}
    BY <2>1
  <2>4. DocOK'
    BY <2>1, <2>3 DEF DocOK, TypeOK
  <2>5. VersionsOK'
    <3>1. \A n \in DOMAIN published : published[n].version <= n
      BY DEF VersionsOK
    <3>2. version' = 0
      BY <2>1
    <3>3. version' <= Len(published')
      BY <1>0, <2>1, <3>2
    <3> QED
      BY <2>1, <2>2, <3>1, <3>3 DEF VersionsOK
  <2>6. /\ Len(published) <= Len(published')
        /\ \A n \in DOMAIN published : n \in DOMAIN published' /\ published'[n] = published[n]
    BY <1>0, <2>1
  <2> QED
    BY <2>4, <2>5, <2>6
<1>7. ASSUME NEW c \in Conns, Acts(c) PROVE Ok
  <2>1. Submit(c) \/ UNCHANGED docVars
    BY <1>7 DEF Acts, Handler, Relay, Dial, Break, Write, SubmitMessage, AckMessage,
                Attach, ReadReplay, SendReplay, ReadRange, Register, Install, StartRelay,
                AppendAck, Answer, Ack, ReadEnds, TakeEvent, AppendEvent, SendEvent, RelayEnds
  <2> QED
    BY <1>1, <1>4, <2>1
<1> HIDE DEF Ok
<1>8. Ok
  BY <1>1, <1>3, <1>5, <1>6, <1>7 DEF Next, Acts, vars, docVars
<1> QED
  BY <1>8 DEF Ok

\* An envelope added to the mailbox gets its place for an ID, and none is lost
\* (MemoryMailboxStore.Append).
LEMMA BoxAppend ==
  ASSUME TypeOK, BoxOK, NEW kind \in {"event", "ack"}, NEW n \in Nat, NEW v \in Nat,
         TellsOf(n, v), box' = Append(box, Envelope(kind, n, v)),
         UNCHANGED <<published, acked, known>>
  PROVE  MailboxOK' /\ BoxOK' /\ Len(box') = Len(box) + 1
<1> DEFINE env == Envelope(kind, n, v)
<1>1. /\ box \in Seq(Envelopes) /\ Len(box) \in Nat /\ DOMAIN box = 1..Len(box)
      /\ published \in Seq(Events)
  BY DEF TypeOK, MailboxOK, DocOK
<1>3. /\ env \in Envelopes /\ env.id = Len(box) + 1 /\ env.event = n
      /\ env.version = v
  BY <1>1 DEF Envelope, Envelopes
<1> HIDE DEF env
<1>4. /\ box' \in Seq(Envelopes) /\ Len(box') = Len(box) + 1
      /\ \A i \in 1..Len(box) : box'[i] = box[i]
      /\ box'[Len(box) + 1] = env
  BY <1>1, <1>3 DEF env
<1>5. MailboxOK'
  BY <1>1, <1>4 DEF MailboxOK, TypeOK
<1>6. BoxOK'
  BY <1>1, <1>3, <1>4 DEF BoxOK, TellsOf
<1> QED
  BY <1>4, <1>5, <1>6

\* What the relay and the handler put into the mailbox (AppendEvent, AppendAck).
LEMMA EnvelopeTells ==
  ASSUME TypeInv, NEW c \in Conns
  PROVE  /\ AppendEvent(c) => \E n, v \in Nat :
              /\ n = relay[c].event /\ n \in DOMAIN published /\ TellsOf(n, v)
              /\ box' = Append(box, Envelope("event", n, v))
         /\ AppendAck(c) => \E n, v \in Nat :
              /\ n = job[c].item /\ TellsOf(n, v)
              /\ box' = Append(box, Envelope("ack", n, v))
<1> USE DEF TypeInv
<1>0. /\ published \in Seq(Events) /\ DOMAIN published = 1..Len(published)
      /\ Len(published) \in Nat /\ job \in [Conns -> Jobs]
  BY DEF TypeOK, DocOK, ConnsOK
<1>1. ASSUME AppendEvent(c)
      PROVE  \E n, v \in Nat :
               /\ n = relay[c].event /\ n \in DOMAIN published /\ TellsOf(n, v)
               /\ box' = Append(box, Envelope("event", n, v))
  <2>1. /\ relay[c].event \in DOMAIN published
        /\ box' = Append(box, Envelope("event", relay[c].event, published[relay[c].event].version))
    BY <1>1 DEF AppendEvent, IdsOK, InHand
  <2>2. published[relay[c].event] \in Events /\ relay[c].event \in Nat
    BY <1>0, <2>1
  <2>3. published[relay[c].event].version \in Nat
    BY <2>2 DEF Events
  <2>4. published[relay[c].event].version <= Len(published)
    BY <1>0, <2>1, <2>3 DEF VersionsOK
  <2> QED
    BY <2>1, <2>2, <2>3, <2>4 DEF TellsOf
<1>2. ASSUME AppendAck(c)
      PROVE  \E n, v \in Nat :
               n = job[c].item /\ TellsOf(n, v) /\ box' = Append(box, Envelope("ack", n, v))
  <2>1. /\ job[c].item \in Nat /\ TellsOf(job[c].item, job[c].version)
        /\ box' = Append(box, Envelope("ack", job[c].item, job[c].version))
    BY <1>2 DEF AppendAck, IdsOK, TypeOK
  <2>2. job[c].version \in Nat
    BY <1>0 DEF Jobs
  <2> QED
    BY <2>1, <2>2
<1> QED
  BY <1>1, <1>2

\* What an envelope tells of stays so: events are only added.
LEMMA TellsStays ==
  ASSUME TypeOK, VersionsOK, [Next]_vars, NEW n \in Nat, NEW v \in Nat, TellsOf(n, v)
  PROVE  /\ n = NoEvent \/ (n \in DOMAIN published' /\ v = published'[n].version)
         /\ v <= Len(published')
<1>1. /\ Len(published) <= Len(published')
      /\ \A m \in DOMAIN published : m \in DOMAIN published' /\ published'[m] = published[m]
      /\ Len(published) \in Nat /\ Len(published') \in Nat
  BY DocNext DEF TypeOK, DocOK
<1> QED
  BY <1>1 DEF TellsOf

\* The mailbox and the cursors into it stay typed, and no envelope is lost.
LEMMA BoxNext ==
  ASSUME TypeInv, [Next]_vars
  PROVE  /\ MailboxOK' /\ BoxOK'
         /\ Len(box) <= Len(box') /\ \A i \in DOMAIN box : i \in DOMAIN box' /\ box'[i] = box[i]
<1> USE DEF TypeInv
<1> DEFINE Ok == /\ MailboxOK' /\ BoxOK' /\ Len(box) <= Len(box')
                 /\ \A i \in DOMAIN box : i \in DOMAIN box' /\ box'[i] = box[i]
<1>0. /\ box \in Seq(Envelopes) /\ Len(box) \in Nat /\ DOMAIN box = 1..Len(box)
      /\ acked \in 0..Len(box) /\ known \in 0..Len(box)
  BY DEF TypeOK, MailboxOK
<1>1. ASSUME UNCHANGED box, acked' \in 0..Len(box), known' \in 0..Len(box) PROVE Ok
  <2>1. ASSUME NEW i \in DOMAIN box PROVE (box[i].id = i /\ TellsOf(box[i].event, box[i].version))'
    <3>0. box[i] \in Envelopes
      BY <1>0
    <3>1. box[i].event \in Nat /\ box[i].version \in Nat
      BY <3>0 DEF Envelopes
    <3>2. box[i].id = i /\ TellsOf(box[i].event, box[i].version)
      BY DEF BoxOK
    <3> QED
      BY <1>1, <3>1, <3>2, TellsStays DEF TellsOf
  <2>2. BoxOK'
    BY <1>1, <2>1 DEF BoxOK
  <2> QED
    BY <1>0, <1>1, <2>2 DEF MailboxOK
<1>2. ASSUME NEW c \in Conns, Write(c) PROVE Ok
  <2>1. known' \in 0..Len(box)
    <3>1. out[c] \in Seq(Nat) /\ out[c] # <<>> /\ \A i \in DOMAIN out[c] : out[c][i] \in 0..Len(box)
      BY <1>2 DEF Write, TypeOK, ConnsOK, IdsOK
    <3>2. Head(out[c]) \in 0..Len(box)
      BY <3>1
    <3> QED
      BY <1>0, <1>2, <3>2 DEF Write
  <2> QED
    BY <1>0, <1>1, <1>2, <2>1 DEF Write, boxVars
<1>3. ASSUME NEW c \in Conns, Ack(c) PROVE Ok
  <2>1. acked' \in 0..Len(box)
    <3>1. /\ acked' = AckThrough(box, acked, job[c].item) /\ job[c].item \in Nat
          /\ \A i \in DOMAIN box : box[i].id = i
      BY <1>3 DEF Ack, TypeOK, BoxOK
    <3>2. Place(box, acked) = acked /\ acked \in Nat
      BY <1>0, <3>1, PlaceIs
    <3>3. Place(box, job[c].item) > acked => job[c].item \in 0..Len(box)
      BY <1>0, <3>1, <3>2, PlaceIs DEF NotFound
    <3> QED
      BY <1>0, <3>1, <3>2, <3>3 DEF AckThrough
  <2> QED
    BY <1>0, <1>1, <1>3, <2>1 DEF Ack, clientVars
<1>4. ASSUME NEW c \in Conns, AppendEvent(c) \/ AppendAck(c) PROVE Ok
  <2>1. PICK kind \in {"event", "ack"}, n \in Nat, v \in Nat :
          TellsOf(n, v) /\ box' = Append(box, Envelope(kind, n, v))
    BY <1>4, EnvelopeTells
  <2>2. UNCHANGED <<published, acked, known>>
    BY <1>4 DEF AppendEvent, AppendAck, docVars, clientVars
  <2>3. MailboxOK' /\ BoxOK' /\ Len(box') = Len(box) + 1
    BY <2>1, <2>2, BoxAppend
  <2>4. \A i \in 1..Len(box) : box'[i] = box[i] /\ i \in 1..Len(box')
    <3> DEFINE env == Envelope(kind, n, v)
    <3>1. box' = Append(box, env)
      BY <2>1
    <3> HIDE DEF env
    <3> QED
      BY <1>0, <2>3, <3>1
  <2>5. DOMAIN box' = 1..Len(box')
    BY <2>3 DEF MailboxOK
  <2> QED
    BY <1>0, <2>3, <2>4, <2>5
<1>5. ASSUME NEW c \in Conns, Acts(c) PROVE Ok
  <2>1. \/ Write(c) \/ Ack(c) \/ AppendEvent(c) \/ AppendAck(c)
        \/ UNCHANGED <<box, acked, known>>
    BY <1>5 DEF Acts, Handler, Relay, Dial, Break, SubmitMessage, AckMessage,
                Attach, ReadReplay, SendReplay, ReadRange, Register, Install, StartRelay,
                Submit, Answer, ReadEnds, TakeEvent, SendEvent, RelayEnds,
                boxVars, clientVars
  <2> QED
    BY <1>0, <1>1, <1>2, <1>3, <1>4, <2>1
<1> HIDE DEF Ok
<1>6. Ok
  BY <1>0, <1>1, <1>5 DEF Next, Acts, Commit, DeleteDocument, CreateDocument, vars, boxVars, clientVars
<1> QED
  BY <1>6 DEF Ok

\* Closing a connection keeps the registry and its flags typed (Close, Unregister).
LEMMA CloseTypes ==
  ASSUME TypeOK, NEW c \in Conns, Close(c)
  PROVE  /\ active' \in Conns \cup {None} /\ seen' \in [Conns -> Histories]
         /\ {closed', hooked'} \subseteq [Conns -> BOOLEAN]
<1>1. NotSeen \in Histories
  BY DEF NotSeen, Histories
<1> QED
  BY <1>1 DEF Close, TypeOK, ConnsOK

\* A send keeps the queue within its capacity (Enqueue).
LEMMA SendTypes ==
  ASSUME TypeOK, NEW c \in Conns, NEW id \in Nat, CanSend(c), ~closed[c], Send(c, id)
  PROVE  out' \in [Conns -> Seq(Nat)] /\ \A d \in Conns : Len(out'[d]) <= SendBuffer
<1>1. SendBuffer \in Nat /\ out \in [Conns -> Seq(Nat)] /\ \A d \in Conns : Len(out[d]) <= SendBuffer
  BY BoundsAssumption DEF TypeOK, ConnsOK
<1>2. Len(out[c]) < SendBuffer /\ out' = [out EXCEPT ![c] = Append(out[c], id)]
  BY DEF CanSend, Send
<1>3. ASSUME NEW d \in Conns PROVE out'[d] \in Seq(Nat) /\ Len(out'[d]) <= SendBuffer
  <2>1. CASE d = c
    <3>1. out'[d] = Append(out[c], id) /\ out[c] \in Seq(Nat)
      BY <1>1, <1>2, <2>1
    <3>2. Append(out[c], id) \in Seq(Nat) /\ Len(Append(out[c], id)) = Len(out[c]) + 1
      BY <3>1
    <3> QED
      BY <1>1, <1>2, <3>1, <3>2
  <2>2. CASE d # c
    BY <1>1, <1>2, <2>2
  <2> QED
    BY <2>1, <2>2
<1> QED
  BY <1>1, <1>2, <1>3

\* The handlers' locals.
JobOK(c) ==
  /\ pc[c] = "submit" => job[c].item \in 1..MaxSubmits
  /\ pc[c] \in {"envelope", "ack"} => job[c].item \in Nat
HandlersOK == pc \in [Conns -> Labels] /\ job \in [Conns -> Jobs] /\ \A c \in Conns : JobOK(c)

\* A handler that goes on or returns keeps its locals typed.
LEMMA GotoTypes ==
  ASSUME TypeOK, NEW c \in Conns, NEW l \in Labels, Goto(c, l), NEW j \in Jobs,
         job' = [job EXCEPT ![c] = j],
         l = "submit" => j.item \in 1..MaxSubmits,
         l \in {"envelope", "ack"} => j.item \in Nat
  PROVE  HandlersOK'
  BY DEF TypeOK, ConnsOK, Goto, HandlersOK, JobOK

\* The locals of a handler that ends, and of one that is asked to serve.
LEMMA JobTypes ==
  /\ NoJob \in Jobs
  /\ \A j \in Jobs : \A i \in Nat \cup {None} : [j EXCEPT !.item = i] \in Jobs
<1>1. <<>> \in Seq(Envelopes)
  OBVIOUS
<1>2. NoJob \in Jobs
  BY <1>1 DEF NoJob, Jobs, NoCursor
<1>3. \A j \in Jobs : \A i \in Nat \cup {None} : [j EXCEPT !.item = i] \in Jobs
  BY DEF Jobs
<1> QED
  BY <1>2, <1>3

\* The second read of the mailbox yields a version some event has, and no event
\* replayed from it is of a later one (SkipThrough).
LEMMA SkipIs ==
  ASSUME TypeInv, NEW c \in Conns
  PROVE  /\ SkipThrough(c) \in 0..Len(published)
         /\ \A k \in DOMAIN box : Behind(k, job[c].cursor) => box[k].version <= SkipThrough(c)
<1> USE DEF TypeInv
<1> DEFINE r == Replay(box, job[c].cursor, ReplayLimit)
           S == {0} \cup { r[i].version : i \in DOMAIN r }
<1>1. /\ job[c].cursor \in Nat /\ box \in Seq(Envelopes) /\ \A i \in DOMAIN box : box[i].id = i
      /\ Len(published) \in Nat
  BY DEF Jobs, TypeOK, ConnsOK, MailboxOK, BoxOK, DocOK
<1>2. /\ \A i \in DOMAIN r : r[i].id \in DOMAIN box /\ r[i] = box[r[i].id]
      /\ \A k \in DOMAIN box : Behind(k, job[c].cursor) => \E i \in DOMAIN r : r[i] = box[k]
  BY <1>1, ReplayIs
<1>3. ASSUME NEW i \in DOMAIN box
      PROVE  box[i].version \in Nat /\ box[i].version <= Len(published)
  <2>1. box[i] \in Envelopes
    BY <1>1
  <2> QED
    BY <2>1 DEF Envelopes, BoxOK, TellsOf
<1> HIDE DEF r
<1>4. S \subseteq Nat /\ S # {} /\ \A x \in S : x <= Len(published)
  BY <1>1, <1>2, <1>3
<1>5. \A i \in DOMAIN r : r[i].version \in S
  OBVIOUS
<1> HIDE DEF S
<1>6. Max(S) \in S /\ \A x \in S : x <= Max(S)
  BY <1>1, <1>4, MaxBounded
<1>7. SkipThrough(c) = Max(S)
  BY DEF SkipThrough, MaxVersion, S, r
<1>8. \A k \in DOMAIN box : Behind(k, job[c].cursor) => box[k].version \in S
  BY <1>2, <1>5
<1>9. Max(S) \in 0..Len(published)
  <2>1. \A x \in S : x \in 0..Len(published)
    BY <1>1, <1>4
  <2> QED
    BY <1>6, <2>1
<1>10. \A k \in DOMAIN box : Behind(k, job[c].cursor) => box[k].version <= Max(S)
  BY <1>6, <1>8
<1> QED
  BY <1>7, <1>9, <1>10

\* The handlers stay typed.
LEMMA HandlersNext == ASSUME TypeInv, [Next]_vars PROVE HandlersOK'
<1> USE DEF TypeInv
<1>0. /\ \A c \in Conns : job[c] \in Jobs /\ [job EXCEPT ![c] = job[c]] = job
      /\ NoJob \in Jobs /\ \A j \in Jobs : \A i \in Nat \cup {None} : [j EXCEPT !.item = i] \in Jobs
  BY JobTypes DEF TypeOK, ConnsOK
<1>1. ASSUME UNCHANGED handlerVars PROVE HandlersOK'
  BY <1>1 DEF TypeOK, ConnsOK, HandlersOK, JobOK, handlerVars
<1> USE DEF Labels
<1>2. ASSUME NEW c \in Conns, Fail(c) PROVE HandlersOK'
  BY <1>0, <1>2, GotoTypes DEF Fail
<1>3. ASSUME NEW c \in Conns, Return(c) PROVE HandlersOK'
  BY <1>0, <1>3, GotoTypes DEF Return
<1>4. ASSUME NEW c \in Conns, NEW l \in Labels \ {"submit", "envelope", "ack"}, Goto(c, l), job' = job
      PROVE  HandlersOK'
  BY <1>0, <1>4, GotoTypes
<1>5. ASSUME NEW c \in Conns, Dial(c) PROVE HandlersOK'
  <2>1. PICK id \in {known, Stale} : job' = [job EXCEPT ![c].cursor = id]
    BY <1>5 DEF Dial
  <2> DEFINE j == [job[c] EXCEPT !.cursor = id]
  <2>2. job' = [job EXCEPT ![c] = j] /\ Goto(c, "connect")
    BY <1>5, <2>1 DEF Dial
  <2>3. id \in Nat
    BY BoundsAssumption DEF TypeOK, MailboxOK
  <2>4. j \in Jobs
    BY <1>0, <2>3 DEF Jobs
  <2> HIDE DEF j
  <2> QED
    BY <2>2, <2>4, GotoTypes
<1>6. ASSUME NEW c \in Conns, SubmitMessage(c) \/ AckMessage(c) PROVE HandlersOK'
  <2>1. PICK i \in Nat, l \in {"submit", "ack"} :
          Serve(c, i, l) /\ (l = "submit" => i \in 1..MaxSubmits)
    <3>1. known \in Nat /\ 1..known \subseteq Nat /\ MaxSubmits \in Nat /\ 1..MaxSubmits \subseteq Nat
      BY BoundsAssumption DEF TypeOK, MailboxOK
    <3> QED
      BY <1>6, <3>1 DEF SubmitMessage, AckMessage
  <2>2. CASE Fail(c)
    BY <1>2, <2>2
  <2>3. CASE ~Fail(c)
    <3> DEFINE j == [job[c] EXCEPT !.item = i]
    <3>1. job' = [job EXCEPT ![c] = j] /\ Goto(c, l)
      BY <2>1, <2>3 DEF Serve
    <3>2. j \in Jobs /\ j.item = i
      BY <1>0 DEF Jobs
    <3> HIDE DEF j
    <3> QED
      BY <2>1, <3>1, <3>2, GotoTypes
  <2> QED
    BY <2>2, <2>3
<1>7. ASSUME NEW c \in Conns, Attach(c) \/ Register(c) PROVE HandlersOK'
  BY <1>2, <1>4, <1>7 DEF Attach, Register
<1>8. ASSUME NEW c \in Conns, ReadReplay(c) PROVE HandlersOK'
  <2> DEFINE r == Replay(box, job[c].cursor, ReplayLimit)
             j == [job[c] EXCEPT !.replay = r]
  <2>1. r \in Seq(Envelopes)
    <3>1. job[c].cursor \in Nat /\ box \in Seq(Envelopes) /\ \A i \in DOMAIN box : box[i].id = i
      BY <1>0 DEF Jobs, TypeOK, MailboxOK, BoxOK
    <3> QED
      BY <3>1, ReplayIs
  <2>2. job' = [job EXCEPT ![c] = j] /\ Goto(c, "hello")
    BY <1>8 DEF ReadReplay
  <2>3. j \in Jobs
    BY <1>0, <2>1 DEF Jobs
  <2> HIDE DEF j
  <2> QED
    BY <2>2, <2>3, GotoTypes
<1>9. ASSUME NEW c \in Conns, SendReplay(c) PROVE HandlersOK'
  <2> DEFINE j == [job[c] EXCEPT !.replay = <<>>]
  <2>1. Fail(c) \/ (Goto(c, "range") /\ job' = [job EXCEPT ![c] = j])
    BY <1>9 DEF SendReplay
  <2>2. j \in Jobs
    <3>1. <<>> \in Seq(Envelopes) /\ job[c] \in Jobs
      BY <1>0
    <3> QED
      BY <3>1 DEF Jobs
  <2> HIDE DEF j
  <2>3. CASE Fail(c)
    BY <1>2, <2>3
  <2>4. CASE Goto(c, "range") /\ job' = [job EXCEPT ![c] = j]
    BY <2>2, <2>4, GotoTypes
  <2> QED
    BY <2>1, <2>3, <2>4
<1>10. ASSUME NEW c \in Conns, ReadRange(c) PROVE HandlersOK'
  <2> DEFINE j == [NoJob EXCEPT !.skip = SkipThrough(c)]
  <2>1. SkipThrough(c) \in Nat
    BY SkipIs
  <2>2. job' = [job EXCEPT ![c] = j] /\ Goto(c, "register")
    BY <1>10 DEF ReadRange
  <2>3. j \in Jobs
    BY <1>0, <2>1 DEF Jobs
  <2> HIDE DEF j
  <2> QED
    BY <2>2, <2>3, GotoTypes
<1>11. ASSUME NEW c \in Conns, Install(c) PROVE HandlersOK'
  <2> DEFINE j == [job[c] EXCEPT !.item = active]
  <2>1. job' = [job EXCEPT ![c] = j] /\ Goto(c, "evict")
    BY <1>11 DEF Install
  <2>2. active \in Nat \cup {None}
    BY DEF TypeOK, ConnsOK, Conns
  <2>3. j \in Jobs
    BY <1>0, <2>2
  <2> HIDE DEF j
  <2> QED
    BY <2>1, <2>3, GotoTypes
<1>12. ASSUME NEW c \in Conns, Submit(c) PROVE HandlersOK'
  <2>1. CASE Refused(c)
    BY <1>0, <2>1, GotoTypes DEF Refused
  <2>2. CASE Emptied(c) \/ Committed(c)
    <3>1. PICK n, v \in Nat : Acknowledges(c, n, v)
      <4>1. /\ version # None => version \in Nat /\ version + 1 \in Nat
            /\ NoEvent \in Nat /\ Len(published) + 1 \in Nat
        BY DEF TypeOK, DocOK, NoEvent
      <4> QED
        BY <2>2, <4>1 DEF Emptied, Committed
    <3> DEFINE j == [job[c] EXCEPT !.item = n, !.version = v]
    <3>2. job' = [job EXCEPT ![c] = j] /\ Goto(c, "envelope")
      BY <3>1 DEF Acknowledges
    <3>3. j \in Jobs /\ j.item \in Nat
      BY <1>0 DEF Jobs
    <3> HIDE DEF j
    <3> QED
      BY <3>2, <3>3, GotoTypes
  <2> QED
    BY <1>12, <2>1, <2>2 DEF Submit
<1>13. ASSUME NEW c \in Conns, AppendAck(c) PROVE HandlersOK'
  <2> DEFINE j == [job[c] EXCEPT !.item = Len(box) + 1]
  <2>1. job' = [job EXCEPT ![c] = j] /\ Goto(c, "answer")
    BY <1>13 DEF AppendAck, Envelope
  <2>2. j \in Jobs
    <3>1. Len(box) + 1 \in Nat
      BY DEF TypeOK, MailboxOK
    <3> QED
      BY <1>0, <3>1
  <2> HIDE DEF j
  <2> QED
    BY <2>1, <2>2, GotoTypes
<1>14. ASSUME NEW c \in Conns, StartRelay(c) \/ Answer(c) \/ Ack(c) \/ ReadEnds(c) PROVE HandlersOK'
  BY <1>2, <1>3, <1>4, <1>14 DEF StartRelay, Answer, Ack, ReadEnds
<1>15. ASSUME NEW c \in Conns, Relay(c) \/ Break(c) \/ Write(c) PROVE HandlersOK'
  BY <1>1, <1>15 DEF Relay, TakeEvent, AppendEvent, SendEvent, RelayEnds, Break, Write
<1>16. ASSUME Commit \/ DeleteDocument \/ CreateDocument \/ UNCHANGED vars PROVE HandlersOK'
  BY <1>1, <1>16 DEF Commit, DeleteDocument, CreateDocument, vars
<1> QED
  BY <1>5, <1>6, <1>7, <1>8, <1>9, <1>10, <1>11, <1>12, <1>13, <1>14, <1>15, <1>16
     DEF Next, Handler

\* The registry, the close hooks and the histories, ...
CloseOK ==
  /\ active \in Conns \cup {None} /\ seen \in [Conns -> Histories]
  /\ {closed, hooked} \subseteq [Conns -> BOOLEAN]
\* ... the subscriptions, ...
SubsOK ==
  /\ sub \in [Conns -> BOOLEAN] /\ ch \in [Conns -> Seq(Nat)]
  /\ \A c \in Conns : Len(ch[c]) <= LiveBuffer
\* ... and the relays and the send queues.
SendsOK ==
  /\ relay \in [Conns -> Relays] /\ out \in [Conns -> Seq(Nat)]
  /\ \A c \in Conns : Len(out[c]) <= SendBuffer

\* Closing, installing and publishing keep the registry typed.
LEMMA CloseNext == ASSUME TypeInv, [Next]_vars PROVE CloseOK'
<1> USE DEF TypeInv
<1>0. CloseOK
  BY DEF CloseOK, TypeOK, ConnsOK
<1>1. ASSUME UNCHANGED <<active, closed, hooked>>, seen' \in [Conns -> Histories] PROVE CloseOK'
  BY <1>0, <1>1 DEF CloseOK
<1>2. ASSUME UNCHANGED closeVars PROVE CloseOK'
  BY <1>0, <1>1, <1>2 DEF closeVars, CloseOK
<1>3. ASSUME NEW c \in Conns, Close(c) PROVE CloseOK'
  BY <1>3, CloseTypes DEF CloseOK
<1>4. ASSUME NEW e \in Events, Publish(e), UNCHANGED <<active, closed, hooked>> PROVE CloseOK'
  BY <1>1, <1>4, PublishFacts
<1>5. ASSUME Commit \/ DeleteDocument PROVE CloseOK'
  BY <1>4, <1>5, Publishers DEF Commit, DeleteDocument
<1>6. ASSUME NEW c \in Conns, Submit(c) PROVE CloseOK'
  BY <1>2, <1>4, <1>6, Publishers DEF Submit, closeVars
<1>7. ASSUME NEW c \in Conns, SendReplay(c) PROVE CloseOK'
  <2>1. CASE closed[c]
    BY <1>3, <1>7, <2>1 DEF SendReplay, Fail
  <2>2. CASE ~closed[c]
    <3> DEFINE events == { job[c].replay[i].event : i \in DOMAIN job[c].replay }
    <3>1. events \subseteq Nat
      <4>1. job[c].replay \in Seq(Envelopes)
        BY DEF TypeOK, ConnsOK, Jobs
      <4>2. \A i \in DOMAIN job[c].replay : job[c].replay[i] \in Envelopes
        BY <4>1
      <4> QED
        BY <4>2 DEF Envelopes
    <3>2. seen' = [seen EXCEPT ![c].replayed = events] /\ UNCHANGED <<active, closed, hooked>>
      BY <1>7, <2>2 DEF SendReplay
    <3> HIDE DEF events
    <3>3. seen' \in [Conns -> Histories]
      BY <3>1, <3>2, <1>0 DEF CloseOK, Histories
    <3> QED
      BY <1>1, <3>2, <3>3
  <2> QED
    BY <2>1, <2>2
<1>8. ASSUME NEW c \in Conns, ReadRange(c) PROVE CloseOK'
  <2>1. (IF closed[c] THEN 0 ELSE Len(published)) \in Nat
    BY DEF TypeOK, DocOK
  <2>2. seen' \in [Conns -> Histories]
    BY <1>0, <1>8, <2>1 DEF ReadRange, CloseOK, Histories
  <2> QED
    BY <1>1, <1>8, <2>2 DEF ReadRange
<1>9. ASSUME NEW c \in Conns, Register(c) \/ Install(c) PROVE CloseOK'
  BY <1>0, <1>3, <1>9 DEF Register, Install, Fail, CloseOK
<1>10. ASSUME NEW c \in Conns, StartRelay(c) PROVE CloseOK'
  BY <1>2, <1>3, <1>10 DEF StartRelay, Evicts
<1>11. ASSUME NEW c \in Conns, SendEvent(c) PROVE CloseOK'
  <2>1. CASE closed[c]
    BY <1>1, <1>0, <1>11, <2>1 DEF SendEvent, CloseOK
  <2>2. CASE ~closed[c]
    <3>1. relay[c].event \in Nat /\ seen[c].live \in Seq(Nat)
      BY DEF TypeOK, ConnsOK, Relays, Histories
    <3>2. Append(seen[c].live, relay[c].event) \in Seq(Nat)
      BY <3>1
    <3>3. seen' = [seen EXCEPT ![c].live = Append(seen[c].live, relay[c].event)]
      BY <1>0, <1>11, <2>2 DEF SendEvent, CloseOK
    <3>4. seen' \in [Conns -> Histories]
      BY <1>0, <3>2, <3>3 DEF CloseOK, Histories
    <3> QED
      BY <1>1, <1>11, <3>4 DEF SendEvent
  <2> QED
    BY <2>1, <2>2
<1>12. ASSUME NEW c \in Conns, Attach(c) \/ Answer(c) \/ SubmitMessage(c) \/ AckMessage(c) \/ Break(c)
       PROVE  CloseOK'
  <2>1. Close(c) \/ UNCHANGED closeVars
    BY <1>12 DEF Attach, Answer, SubmitMessage, AckMessage, Break, Serve, Fail, closeVars, Return
  <2> QED
    BY <1>2, <1>3, <2>1
<1>13. ASSUME NEW c \in Conns, Dial(c) \/ Write(c) \/ ReadReplay(c) \/ AppendAck(c) \/ Ack(c)
                \/ ReadEnds(c) \/ TakeEvent(c) \/ AppendEvent(c) \/ RelayEnds(c)
       PROVE  CloseOK'
  BY <1>2, <1>13 DEF Dial, Write, ReadReplay, AppendAck, Ack, ReadEnds, TakeEvent, AppendEvent,
                     RelayEnds, openVars, closeVars
<1>14. ASSUME CreateDocument \/ UNCHANGED vars PROVE CloseOK'
  BY <1>2, <1>14 DEF CreateDocument, vars, openVars
<1> QED
  BY <1>5, <1>6, <1>7, <1>8, <1>9, <1>10, <1>11, <1>12, <1>13, <1>14 DEF Next, Handler, Relay

\* The channels stay within their capacity.
LEMMA SubsNext == ASSUME TypeInv, [Next]_vars PROVE SubsOK'
<1> USE DEF TypeInv
<1>0. SubsOK /\ LiveBuffer \in Nat
  BY BoundsAssumption DEF SubsOK, TypeOK, ConnsOK
<1>1. ASSUME UNCHANGED <<sub, ch>> PROVE SubsOK'
  BY <1>0, <1>1 DEF SubsOK
<1>2. ASSUME NEW e \in Events, Publish(e), UNCHANGED sub PROVE SubsOK'
  BY <1>0, <1>2, PublishFacts DEF SubsOK
<1>3. ASSUME Commit \/ DeleteDocument PROVE SubsOK'
  BY <1>2, <1>3, Publishers DEF Commit, DeleteDocument
<1>4. ASSUME NEW c \in Conns, Submit(c) PROVE SubsOK'
  BY <1>1, <1>2, <1>4, Publishers DEF Submit
<1>5. ASSUME NEW c \in Conns, Cancel(c) PROVE SubsOK'
  <2>1. <<>> \in Seq(Nat) /\ Len(<<>>) = 0
    OBVIOUS
  <2> QED
    BY <1>0, <1>5, <2>1 DEF Cancel, SubsOK
<1>6. ASSUME NEW c \in Conns, TakeEvent(c) PROVE SubsOK'
  <2>1. ch[c] \in Seq(Nat) /\ ch[c] # <<>> /\ ch' = [ch EXCEPT ![c] = Tail(ch[c])] /\ UNCHANGED sub
    BY <1>0, <1>6 DEF TakeEvent, SubsOK
  <2>2. Tail(ch[c]) \in Seq(Nat) /\ Len(Tail(ch[c])) = Len(ch[c]) - 1 /\ Len(ch[c]) \in Nat
    BY <2>1
  <2> QED
    BY <1>0, <2>1, <2>2 DEF SubsOK
<1>7. ASSUME NEW c \in Conns, Attach(c) PROVE SubsOK'
  BY <1>0, <1>7 DEF Attach, SubsOK
<1>8. ASSUME NEW c \in Conns, SendReplay(c) \/ Register(c) \/ SendEvent(c) \/ RelayEnds(c) PROVE SubsOK'
  <2>1. Cancel(c) \/ UNCHANGED <<sub, ch>>
    BY <1>8 DEF SendReplay, Register, SendEvent, RelayEnds
  <2> QED
    BY <1>1, <1>5, <2>1
<1>9. ASSUME NEW c \in Conns, Dial(c) \/ Break(c) \/ Write(c) \/ SubmitMessage(c) \/ AckMessage(c)
               \/ ReadReplay(c) \/ ReadRange(c) \/ Install(c) \/ StartRelay(c)
               \/ AppendAck(c) \/ Answer(c) \/ Ack(c) \/ ReadEnds(c) \/ AppendEvent(c)
      PROVE  SubsOK'
  BY <1>1, <1>9 DEF Dial, Break, Write, SubmitMessage, AckMessage, ReadReplay, ReadRange, Install,
                    StartRelay, AppendAck, Answer, Ack, ReadEnds, AppendEvent, liveVars
<1>10. ASSUME CreateDocument \/ UNCHANGED vars PROVE SubsOK'
  BY <1>1, <1>10 DEF CreateDocument, vars, liveVars
<1> QED
  BY <1>3, <1>4, <1>6, <1>7, <1>8, <1>9, <1>10 DEF Next, Handler, Relay

-----------------------------------------------------------------------------
(* What the other connections and the other clients do to a connection *)

\* Its goroutines, its subscription and its queue are its own; ...
Same(c) ==
  /\ pc'[c] = pc[c] /\ job'[c] = job[c] /\ relay'[c] = relay[c]
  /\ sub'[c] = sub[c] /\ out'[c] = out[c]

\* ... nothing happens to it, or it is closed, or it hears of an event.
Quiet(c) ==
  UNCHANGED published /\ ch'[c] = ch[c] /\ seen'[c] = seen[c] /\ closed'[c] = closed[c]
Evicted(c) == UNCHANGED published /\ ch'[c] = ch[c] /\ seen'[c] = NotSeen /\ closed'[c]
Hears(c) == UNCHANGED <<closed, sub, relay>> /\ \E e \in Events : Publish(e)

\* Close touches one connection.
LEMMA CloseFrame ==
  ASSUME TypeOK, NEW c \in Conns, NEW d \in Conns, Close(d) \/ UNCHANGED closeVars,
         UNCHANGED <<published, ch>>
  PROVE  Quiet(c) \/ (c = d /\ Evicted(c))
  BY DEF TypeOK, ConnsOK, Close, closeVars, Quiet, Evicted

\* A step of one connection, as the others see it (Register closes one of them).
LEMMA OthersFrame ==
  ASSUME TypeOK, NEW c \in Conns, NEW d \in Conns, c # d, Acts(d)
  PROVE  Same(c) /\ (Quiet(c) \/ Evicted(c) \/ Hears(c))
<1> DEFINE Ok == Quiet(c) \/ Evicted(c) \/ Hears(c)
<1>0. ConnsOK
  BY DEF TypeOK
<1> USE DEF Goto, Return, Fail, Cancel, Send
<1>1. ASSUME Dial(d) \/ ReadReplay(d) \/ Install(d) \/ ReadEnds(d) PROVE Same(c) /\ Ok
  BY <1>0, <1>1 DEF Dial, ReadReplay, Install, ReadEnds, ConnsOK, Same, Quiet, docVars, openVars,
                    closeVars, liveVars
<1>2. ASSUME AppendAck(d) \/ Ack(d) \/ AppendEvent(d) PROVE Same(c) /\ Ok
  BY <1>0, <1>2 DEF AppendAck, Ack, AppendEvent, ConnsOK, Same, Quiet, docVars, handlerVars,
                    openVars, closeVars, liveVars
<1>3. ASSUME TakeEvent(d) \/ RelayEnds(d) \/ Write(d) PROVE Same(c) /\ Ok
  BY <1>0, <1>3 DEF TakeEvent, RelayEnds, Write, ConnsOK, Same, Quiet, docVars, handlerVars,
                    openVars, closeVars, liveVars
<1>4. ASSUME ReadRange(d) PROVE Same(c) /\ Ok
  BY <1>0, <1>4 DEF ReadRange, ConnsOK, Same, Quiet, docVars, liveVars
<1>5. ASSUME SendEvent(d) PROVE Same(c) /\ Ok
  BY <1>0, <1>5 DEF SendEvent, ConnsOK, Same, Quiet, docVars, handlerVars
<1>6. ASSUME SendReplay(d) PROVE Same(c) /\ Ok
  BY <1>0, <1>6 DEF SendReplay, Close, ConnsOK, Same, Quiet, docVars
<1>7. ASSUME Register(d) PROVE Same(c) /\ Ok
  BY <1>0, <1>7 DEF Register, Close, ConnsOK, Same, Quiet, docVars
<1>8. ASSUME Break(d) \/ Attach(d) PROVE Same(c) /\ Ok
  BY <1>0, <1>8 DEF Break, Attach, Close, ConnsOK, Same, Quiet, docVars, handlerVars, closeVars,
                    liveVars
<1>9. ASSUME SubmitMessage(d) \/ AckMessage(d) PROVE Same(c) /\ Ok
  BY <1>0, <1>9 DEF SubmitMessage, AckMessage, Serve, Close, ConnsOK, Same, Quiet, docVars,
                    closeVars, liveVars
<1>10. ASSUME Answer(d) PROVE Same(c) /\ Ok
  BY <1>0, <1>10 DEF Answer, Close, ConnsOK, Same, Quiet, docVars, liveVars
<1>11. ASSUME StartRelay(d) PROVE Same(c) /\ Ok
  <2>1. Same(c) /\ UNCHANGED <<published, ch>>
    BY <1>0, <1>11 DEF StartRelay, ConnsOK, Same, docVars
  <2>2. PICK o \in Conns : Close(o) \/ UNCHANGED closeVars
    BY <1>11 DEF StartRelay, Evicts
  <2> QED
    BY <2>1, <2>2, CloseFrame
<1>12. ASSUME Submit(d) PROVE Same(c) /\ Ok
  <2>1. Same(c)
    BY <1>0, <1>12 DEF Submit, Refused, Emptied, Committed, Acknowledges, ConnsOK, Same
  <2>2. CASE UNCHANGED <<docVars, ch, seen>>
    BY <1>12, <2>1, <2>2 DEF Submit, Quiet, docVars
  <2>3. CASE \E e \in Events : Publish(e)
    BY <1>12, <2>1, <2>3 DEF Submit, Hears
  <2> QED
    BY <1>12, <2>2, <2>3, Publishers
<1> QED
  BY <1>1, <1>2, <1>3, <1>4, <1>5, <1>6, <1>7, <1>8, <1>9, <1>10, <1>11, <1>12
     DEF Acts, Handler, Relay

\* The steps of the other clients.
LEMMA ServerFrame ==
  ASSUME TypeOK, NEW c \in Conns, Commit \/ DeleteDocument \/ CreateDocument \/ UNCHANGED vars
  PROVE  Same(c) /\ (Quiet(c) \/ Hears(c))
<1>1. ASSUME Commit \/ DeleteDocument PROVE Same(c) /\ Hears(c)
  BY <1>1, Publishers DEF Commit, DeleteDocument, Same, Hears, handlerVars
<1>2. ASSUME CreateDocument \/ UNCHANGED vars PROVE Same(c) /\ Quiet(c)
  BY <1>2 DEF CreateDocument, vars, docVars, handlerVars, openVars, closeVars, liveVars, Same, Quiet
<1> QED
  BY <1>1, <1>2

\* What is left of a step of the system, for one connection.
LEMMA StepOf ==
  ASSUME TypeOK, NEW c \in Conns, [Next]_vars
  PROVE  Acts(c) \/ (Same(c) /\ (Quiet(c) \/ Evicted(c) \/ Hears(c)))
  BY OthersFrame, ServerFrame DEF Next, Acts

\* What a connection hears of an event: it has room for it, or it overflows, or
\* it is not subscribed.
LEMMA HearsFacts ==
  ASSUME TypeOK, NEW c \in Conns, Hears(c)
  PROVE  /\ \/ /\ sub[c] /\ ch'[c] = Append(ch[c], Len(published) + 1) /\ seen'[c] = seen[c]
            \/ /\ sub[c] /\ ~closed[c] /\ ch'[c] = ch[c]
               /\ seen'[c] = [seen[c] EXCEPT !.overflow = TRUE]
            \/ /\ ~sub[c] \/ closed[c]
               /\ ch'[c] = ch[c] /\ seen'[c] = seen[c]
         /\ closed'[c] = closed[c] /\ sub'[c] = sub[c] /\ relay'[c] = relay[c]
         /\ Len(published') = Len(published) + 1
         /\ DOMAIN published = 1..Len(published) /\ DOMAIN published' = 1..(Len(published) + 1)
         /\ \A n \in DOMAIN published : published'[n] = published[n]
<1>1. PICK e \in Events : Publish(e)
  BY DEF Hears
<1>2. /\ ch' = [d \in Conns |-> IF sub[d] /\ Len(ch[d]) < LiveBuffer
                                THEN Append(ch[d], Len(published) + 1) ELSE ch[d]]
      /\ seen' = [d \in Conns |-> IF sub[d] /\ ~(Len(ch[d]) < LiveBuffer) /\ ~closed[d]
                                  THEN [seen[d] EXCEPT !.overflow = TRUE] ELSE seen[d]]
  BY <1>1 DEF Publish
<1>3. /\ Len(published') = Len(published) + 1
      /\ DOMAIN published' = DOMAIN published \cup {Len(published) + 1}
      /\ \A n \in DOMAIN published : published'[n] = published[n]
  BY <1>1, PublishFacts
<1>4. DOMAIN published = 1..Len(published) /\ Len(published) \in Nat
  BY DEF TypeOK, DocOK
<1>5. DOMAIN published' = 1..(Len(published) + 1)
  BY <1>3, <1>4
<1> HIDE DEF Publish
<1>6. sub[c] \in BOOLEAN /\ closed[c] \in BOOLEAN
  BY DEF TypeOK, ConnsOK
<1>7. closed'[c] = closed[c] /\ sub'[c] = sub[c] /\ relay'[c] = relay[c]
  BY DEF Hears
<1> QED
  BY <1>2, <1>3, <1>4, <1>5, <1>6, <1>7

-----------------------------------------------------------------------------
(* The type invariant, concluded *)

\* A connection's own steps keep its relay and its queue typed.
LEMMA SendsOwn ==
  ASSUME TypeInv, NEW c \in Conns, Acts(c)
  PROVE  relay'[c] \in Relays /\ out'[c] \in Seq(Nat) /\ Len(out'[c]) <= SendBuffer
<1> USE DEF TypeInv
<1> DEFINE Ok == relay'[c] \in Relays /\ out'[c] \in Seq(Nat) /\ Len(out'[c]) <= SendBuffer
<1>0. /\ relay \in [Conns -> Relays] /\ out \in [Conns -> Seq(Nat)] /\ Len(out[c]) <= SendBuffer
      /\ job[c] \in Jobs /\ Off \in Relays /\ \A v \in Nat : Idle(v) \in Relays
  BY DEF TypeOK, ConnsOK, Off, Idle, Relays, NoCursor
<1>1. ASSUME relay'[c] \in Relays, UNCHANGED out PROVE Ok
  BY <1>0, <1>1
<1>2. ASSUME NEW id \in Nat, CanSend(c), ~closed[c], Send(c, id), relay'[c] \in Relays PROVE Ok
  BY <1>2, SendTypes
<1>3. ASSUME Write(c) PROVE Ok
  <2>1. /\ relay'[c] \in Relays /\ out'[c] = Tail(out[c])
        /\ out[c] \in Seq(Nat) /\ out[c] # <<>>
    BY <1>0, <1>3 DEF Write, liveVars
  <2>2. Tail(out[c]) \in Seq(Nat) /\ Len(Tail(out[c])) = Len(out[c]) - 1 /\ Len(out[c]) \in Nat
    BY <2>1
  <2>3. SendBuffer \in Nat
    BY BoundsAssumption
  <2> QED
    BY <1>0, <2>1, <2>2, <2>3
<1>4. ASSUME SendReplay(c) PROVE Ok
  <2>1. CASE closed[c]
    BY <1>0, <1>1, <1>4, <2>1 DEF SendReplay
  <2>2. CASE ~closed[c]
    <3> DEFINE envs == job[c].replay
               id == IF envs = <<>> THEN NoCursor ELSE envs[Len(envs)].id
    <3>1. id \in Nat
      <4>1. envs \in Seq(Envelopes)
        BY <1>0 DEF Jobs
      <4>2. CASE envs = <<>>
        BY <4>2 DEF NoCursor
      <4>3. CASE envs # <<>>
        <5>1. envs[Len(envs)] \in Envelopes
          BY <4>1, <4>3
        <5> QED
          BY <4>3, <5>1 DEF Envelopes
      <4> QED
        BY <4>2, <4>3
    <3>2. Send(c, id) /\ CanSend(c) /\ relay' = relay
      BY <1>4, <2>2 DEF SendReplay
    <3> HIDE DEF id
    <3> QED
      BY <1>0, <1>2, <2>2, <3>1, <3>2
  <2> QED
    BY <2>1, <2>2
<1>5. ASSUME Answer(c) PROVE Ok
  <2>1. CASE closed[c]
    BY <1>0, <1>1, <1>5, <2>1 DEF Answer, liveVars
  <2>2. CASE ~closed[c]
    <3> DEFINE id == IF job[c].item = None THEN NoCursor ELSE job[c].item
    <3>1. id \in Nat
      BY <1>0 DEF NoCursor, Jobs
    <3>2. Send(c, id) /\ CanSend(c) /\ relay' = relay
      BY <1>5, <2>2 DEF Answer, liveVars
    <3> HIDE DEF id
    <3> QED
      BY <1>0, <1>2, <2>2, <3>1, <3>2
  <2> QED
    BY <2>1, <2>2
<1>6. ASSUME SendEvent(c) PROVE Ok
  <2>1. CASE closed[c]
    BY <1>0, <1>1, <1>6, <2>1 DEF SendEvent
  <2>2. CASE ~closed[c]
    <3>1. relay[c].id \in Nat /\ relay[c].skip \in Nat
      BY <1>0 DEF Relays
    <3>2. Send(c, relay[c].id) /\ CanSend(c) /\ relay'[c] = Idle(relay[c].skip)
      BY <1>0, <1>6, <2>2 DEF SendEvent
    <3> QED
      BY <1>0, <1>2, <2>2, <3>1, <3>2
  <2> QED
    BY <2>1, <2>2
<1>7. ASSUME StartRelay(c) PROVE Ok
  <2>1. job[c].skip \in Nat
    BY <1>0 DEF Jobs
  <2>2. relay'[c] = Off \/ relay'[c] = Idle(job[c].skip)
    BY <1>0, <1>7 DEF StartRelay
  <2> QED
    BY <1>0, <1>1, <1>7, <2>1, <2>2 DEF StartRelay
<1>8. ASSUME TakeEvent(c) PROVE Ok
  <2>1. ch[c] \in Seq(Nat) /\ ch[c] # <<>>
    BY <1>8 DEF TakeEvent, TypeOK, ConnsOK
  <2>2. Head(ch[c]) \in Nat
    BY <2>1
  <2>3. \/ relay'[c] = relay[c]
        \/ relay' = [relay EXCEPT ![c].at = "append", ![c].event = Head(ch[c])]
    BY <1>8 DEF TakeEvent
  <2> DEFINE r == [[relay[c] EXCEPT !.at = "append"] EXCEPT !.event = Head(ch[c])]
  <2>4. r \in Relays
    BY <1>0, <2>2 DEF Relays
  <2>5. relay'[c] = relay[c] \/ relay'[c] = r
    BY <1>0, <2>3
  <2> QED
    BY <1>0, <1>1, <1>8, <2>4, <2>5 DEF TakeEvent, openVars
<1>9. ASSUME AppendEvent(c) PROVE Ok
  <2>1. Len(box) + 1 \in Nat
    BY DEF TypeOK, MailboxOK
  <2>2. relay' = [relay EXCEPT ![c].at = "send", ![c].id = Len(box) + 1]
    BY <1>9 DEF AppendEvent, Envelope
  <2>3. relay'[c] \in Relays
    BY <1>0, <2>1, <2>2 DEF Relays
  <2> QED
    BY <1>1, <1>9, <2>3 DEF AppendEvent, openVars
<1>10. ASSUME RelayEnds(c) PROVE Ok
  BY <1>0, <1>1, <1>10 DEF RelayEnds, openVars
<1>11. ASSUME \/ Dial(c) \/ Break(c) \/ SubmitMessage(c) \/ AckMessage(c) \/ Attach(c)
              \/ ReadReplay(c) \/ ReadRange(c) \/ Register(c) \/ Install(c)
              \/ Submit(c) \/ AppendAck(c) \/ Ack(c) \/ ReadEnds(c)
       PROVE  Ok
  <2>1. relay' = relay /\ out' = out
    BY <1>11 DEF Dial, Break, SubmitMessage, AckMessage, Attach, ReadReplay, ReadRange,
                 Register, Install, Submit, AppendAck, Ack, ReadEnds, openVars, liveVars
  <2> QED
    BY <1>0, <2>1
<1> QED
  BY <1>3, <1>4, <1>5, <1>6, <1>7, <1>8, <1>9, <1>10, <1>11 DEF Acts, Handler, Relay

\* relay and out stay functions over the connections.
LEMMA SendsDomain ==
  ASSUME TypeOK, [Next]_vars
  PROVE  /\ DOMAIN relay' = Conns /\ relay' = [c \in Conns |-> relay'[c]]
         /\ DOMAIN out' = Conns /\ out' = [c \in Conns |-> out'[c]]
<1> DEFINE Ok == /\ DOMAIN relay' = Conns /\ relay' = [c \in Conns |-> relay'[c]]
                 /\ DOMAIN out' = Conns /\ out' = [c \in Conns |-> out'[c]]
<1>0. relay \in [Conns -> Relays] /\ out \in [Conns -> Seq(Nat)]
  BY DEF TypeOK, ConnsOK
<1>1. ASSUME NEW c \in Conns, Acts(c) PROVE Ok
  <2>1. \/ UNCHANGED relay
        \/ \E r : relay' = [relay EXCEPT ![c] = r]
    BY <1>0, <1>1 DEF Acts, Handler, Relay, Dial, Break, Write, SubmitMessage, AckMessage,
                Attach, ReadReplay, SendReplay, ReadRange, Register, Install, StartRelay,
                Submit, AppendAck, Answer, Ack, ReadEnds, TakeEvent, AppendEvent, SendEvent,
                RelayEnds, liveVars
  <2>2. \/ UNCHANGED out
        \/ \E o : out' = [out EXCEPT ![c] = o]
    BY <1>0, <1>1 DEF Acts, Handler, Relay, Dial, Break, Write, SubmitMessage, AckMessage,
                Attach, ReadReplay, SendReplay, ReadRange, Register, Install, StartRelay,
                Submit, AppendAck, Answer, Ack, ReadEnds, TakeEvent, AppendEvent, SendEvent,
                RelayEnds, openVars, Send
  <2> QED
    BY <1>0, <2>1, <2>2
<1>2. ASSUME Commit \/ DeleteDocument \/ CreateDocument \/ UNCHANGED vars PROVE Ok
  BY <1>0, <1>2 DEF Commit, DeleteDocument, CreateDocument, vars, openVars, liveVars
<1> QED
  BY <1>1, <1>2 DEF Next, Acts

\* So the relays and the queues stay typed.
LEMMA SendsNext == ASSUME TypeInv, [Next]_vars PROVE SendsOK'
<1>1. ASSUME NEW c \in Conns
      PROVE  relay'[c] \in Relays /\ out'[c] \in Seq(Nat) /\ Len(out'[c]) <= SendBuffer
  <2>1. CASE Acts(c)
    BY <2>1, SendsOwn
  <2>2. CASE Same(c)
    BY <2>2 DEF Same, TypeInv, TypeOK, ConnsOK
  <2> QED
    BY <2>1, <2>2, StepOf DEF TypeInv
<1>2. DOMAIN relay' = Conns /\ relay' = [c \in Conns |-> relay'[c]]
      /\ DOMAIN out' = Conns /\ out' = [c \in Conns |-> out'[c]]
  BY SendsDomain DEF TypeInv
<1> QED
  BY <1>1, <1>2 DEF SendsOK

\* The channel holds numbers of published events only, whatever is published.
LEMMA HearsChannel ==
  ASSUME TypeInv, NEW c \in Conns, Hears(c)
  PROVE  /\ Len(published) + 1 \in DOMAIN published'
         /\ \A i \in DOMAIN ch'[c] : ch'[c][i] \in DOMAIN published'
<1> DEFINE n == Len(published) + 1
<1>1. n \in Nat /\ ch[c] \in Seq(Nat)
  BY DEF TypeInv, TypeOK, DocOK, ConnsOK
<1>2. DOMAIN published' = 1..n /\ DOMAIN published = 1..Len(published)
  BY HearsFacts DEF TypeInv
<1>3. ch'[c] = ch[c] \/ ch'[c] = Append(ch[c], n)
  BY HearsFacts DEF TypeInv
<1>4. n \in DOMAIN published' /\ \A m \in DOMAIN published : m \in DOMAIN published'
  BY <1>1, <1>2 DEF TypeInv, TypeOK, DocOK
<1>5. \A i \in DOMAIN ch[c] : ch[c][i] \in DOMAIN published'
  BY <1>4 DEF TypeInv, IdsOK
<1> HIDE DEF n
<1>6. CASE ch'[c] = ch[c]
  BY <1>4, <1>5, <1>6 DEF n
<1>7. CASE ch'[c] = Append(ch[c], n)
  <2>1. \A i \in DOMAIN ch'[c] : ch'[c][i] \in DOMAIN published'
    BY <1>1, <1>4, <1>5, <1>7
  <2> QED
    BY <1>4, <2>1 DEF n
<1> QED
  BY <1>3, <1>6, <1>7

\* What a handler is to acknowledge is still so after another step.
LEMMA AboutToTell ==
  ASSUME TypeInv, [Next]_vars, NEW c \in Conns, pc[c] = "envelope"
  PROVE  LET n == job[c].item
             v == job[c].version
         IN  /\ n = NoEvent \/ (n \in DOMAIN published' /\ v = published'[n].version)
             /\ v <= Len(published')
<1> DEFINE n == job[c].item
           v == job[c].version
<1>1. job[c] \in Jobs /\ n \in Nat /\ TellsOf(n, v)
  BY DEF TypeInv, TypeOK, ConnsOK, IdsOK
<1>2. v \in Nat
  BY <1>1 DEF Jobs
<1> HIDE DEF n, v
<1>3. /\ n = NoEvent \/ (n \in DOMAIN published' /\ v = published'[n].version)
      /\ v <= Len(published')
  BY <1>1, <1>2, TellsStays DEF TypeInv
<1> QED
  BY <1>3 DEF n, v

\* What is known to the other connections' steps stays known: the logs only grow.
LEMMA IdsOthers ==
  ASSUME TypeInv, [Next]_vars, NEW c \in Conns, Same(c), ch'[c] = ch[c] \/ Hears(c)
  PROVE  IdsOK(c)'
<1> USE DEF TypeInv
<1>0. /\ Len(box) \in Nat /\ Len(box') \in Nat /\ Len(box) <= Len(box')
      /\ \A n \in DOMAIN published : n \in DOMAIN published'
  BY BoxNext, DocNext DEF TypeOK, MailboxOK
<1>1. 0..Len(box) \subseteq 0..Len(box') /\ 1..Len(box) \subseteq 1..Len(box')
  BY <1>0
<1>2. \A i \in DOMAIN ch'[c] : ch'[c][i] \in DOMAIN published'
  <2>1. \A i \in DOMAIN ch[c] : ch[c][i] \in DOMAIN published'
    BY <1>0 DEF IdsOK
  <2> QED
    BY <2>1, HearsChannel
<1>3. IdsOK(c)
  OBVIOUS
<1>4. pc'[c] = "envelope" => TellsOf(job[c].item, job[c].version)'
  BY AboutToTell DEF Same, TellsOf
<1> QED
  BY <1>0, <1>1, <1>2, <1>3, <1>4 DEF IdsOK, Same, InHand

\* Nor does a connection's own step make an ID or a number up.
LEMMA IdsOwn ==
  ASSUME TypeInv, [Next]_vars, NEW c \in Conns, Acts(c)
  PROVE  IdsOK(c)'
<1> USE DEF TypeInv
<1> DEFINE OutOK == \A i \in DOMAIN out'[c] : out'[c][i] \in 0..Len(box')
           RelayIdOK == relay'[c].id \in 0..Len(box')
           AnswerOK == pc'[c] = "answer" => job'[c].item \in {None} \cup 1..Len(box')
           ReplayIdOK == \A i \in DOMAIN job'[c].replay : job'[c].replay[i].id \in 0..Len(box')
           ChannelOK == \A i \in DOMAIN ch'[c] : ch'[c][i] \in DOMAIN published'
           HandOK == relay'[c].at \in {"append", "send"} => relay'[c].event \in DOMAIN published'
           EnvelopeOK == pc'[c] = "envelope" =>
             LET n == job'[c].item
                 v == job'[c].version
             IN  /\ n = NoEvent \/ (n \in DOMAIN published' /\ v = published'[n].version)
                 /\ v <= Len(published')
           Ok == IdsOK(c)'
<1>0. /\ Len(box) \in Nat /\ Len(box') \in Nat /\ Len(box) <= Len(box')
      /\ \A n \in DOMAIN published : n \in DOMAIN published'
      /\ 0..Len(box) \subseteq 0..Len(box') /\ 1..Len(box) \subseteq 1..Len(box')
      /\ DOMAIN box = 1..Len(box)
  <2>1. /\ Len(box) \in Nat /\ Len(box') \in Nat /\ Len(box) <= Len(box')
        /\ \A n \in DOMAIN published : n \in DOMAIN published' /\ DOMAIN box = 1..Len(box)
    BY BoxNext, DocNext DEF TypeOK, MailboxOK
  <2> QED
    BY <2>1 DEF TypeOK, MailboxOK
<1>1. /\ \A i \in DOMAIN out[c] : out[c][i] \in 0..Len(box')
      /\ relay[c].id \in 0..Len(box')
      /\ pc[c] = "answer" => job[c].item \in {None} \cup 1..Len(box')
      /\ \A i \in DOMAIN job[c].replay : job[c].replay[i].id \in 0..Len(box')
      /\ \A i \in DOMAIN ch[c] : ch[c][i] \in DOMAIN published'
      /\ relay[c].at \in {"append", "send"} => relay[c].event \in DOMAIN published'
  BY <1>0 DEF IdsOK, InHand
<1>2. /\ pc \in [Conns -> Labels] /\ job \in [Conns -> Jobs] /\ relay \in [Conns -> Relays]
      /\ out \in [Conns -> Seq(Nat)] /\ ch \in [Conns -> Seq(Nat)]
  BY DEF TypeOK, ConnsOK
<1>3. ASSUME OutOK, RelayIdOK, AnswerOK, ReplayIdOK, ChannelOK, HandOK, EnvelopeOK PROVE Ok
  BY <1>3 DEF IdsOK, InHand, TellsOf
<1>4. ASSUME UNCHANGED out PROVE OutOK
  BY <1>1, <1>4
<1>5. ASSUME NEW id \in 0..Len(box'), Send(c, id) PROVE OutOK
  <2>1. out'[c] = Append(out[c], id) /\ out[c] \in Seq(Nat)
    BY <1>2, <1>5 DEF Send
  <2> QED
    BY <1>1, <2>1
<1>6. ASSUME UNCHANGED relay PROVE RelayIdOK /\ HandOK
  BY <1>1, <1>6
<1>7. ASSUME relay'[c] = Off PROVE RelayIdOK /\ HandOK
  BY <1>0, <1>7 DEF Off, NoCursor
<1>8. ASSUME UNCHANGED ch PROVE ChannelOK
  BY <1>1, <1>8
<1>9. ASSUME ch' = [ch EXCEPT ![c] = <<>>] PROVE ChannelOK
  BY <1>2, <1>9
<1>10. ASSUME UNCHANGED handlerVars PROVE AnswerOK /\ ReplayIdOK /\ EnvelopeOK
  BY <1>1, <1>10, AboutToTell DEF handlerVars
<1>11. ASSUME Fail(c) \/ Return(c) PROVE AnswerOK /\ ReplayIdOK /\ EnvelopeOK
  <2>1. job'[c] = NoJob /\ pc'[c] \in {"end", "ready"}
    BY <1>2, <1>11 DEF Fail, Return, Goto
  <2> QED
    BY <2>1 DEF NoJob
<1>12. ASSUME NEW l \in Labels \ {"answer", "envelope"}, Goto(c, l),
              job'[c].replay = job[c].replay \/ job'[c].replay = <<>>
       PROVE  AnswerOK /\ ReplayIdOK /\ EnvelopeOK
  BY <1>1, <1>2, <1>12 DEF Goto
<1> HIDE DEF Ok, OutOK, RelayIdOK, AnswerOK, ReplayIdOK, ChannelOK, HandOK, EnvelopeOK
<1> USE DEF Labels
<1>20. ASSUME Dial(c) \/ ReadEnds(c) \/ Install(c) PROVE Ok
  <2>1. \E l \in Labels \ {"answer", "envelope"} : Goto(c, l)
    BY <1>20 DEF Dial, ReadEnds, Install
  <2>2. job'[c].replay = job[c].replay /\ UNCHANGED <<out, relay, ch>>
    BY <1>2, <1>20 DEF Dial, ReadEnds, Install, Jobs, openVars, liveVars
  <2> QED
    BY <1>3, <1>4, <1>6, <1>8, <1>12, <2>1, <2>2
<1>21. ASSUME Break(c) \/ Write(c) PROVE Ok
  <2>1. UNCHANGED <<handlerVars, relay, ch>>
    BY <1>21 DEF Break, Write, liveVars
  <2>2. OutOK
    <3>1. CASE Break(c)
      BY <1>4, <3>1 DEF Break
    <3>2. CASE Write(c)
      <4>1. out'[c] = Tail(out[c]) /\ out[c] # <<>> /\ out[c] \in Seq(Nat)
        BY <1>2, <3>2 DEF Write
      <4> QED
        BY <1>1, <4>1 DEF OutOK
    <3> QED
      BY <1>21, <3>1, <3>2
  <2> QED
    BY <1>3, <1>6, <1>8, <1>10, <2>1, <2>2
<1>22. ASSUME SubmitMessage(c) \/ AckMessage(c) PROVE Ok
  <2>1. \E i : \E l \in {"submit", "ack"} : Serve(c, i, l)
    BY <1>22 DEF SubmitMessage, AckMessage
  <2>4. PICK i : \E l \in {"submit", "ack"} : Serve(c, i, l)
    BY <2>1
  <2>5. PICK l \in {"submit", "ack"} : Serve(c, i, l)
    BY <2>4
  <2>2. AnswerOK /\ ReplayIdOK /\ EnvelopeOK
    <3>1. CASE Fail(c)
      BY <1>11, <3>1
    <3>2. CASE ~Fail(c)
      <4>1. Goto(c, l) /\ job' = [job EXCEPT ![c].item = i]
        BY <2>5, <3>2 DEF Serve
      <4>2. job'[c].replay = job[c].replay
        BY <1>2, <4>1 DEF Jobs
      <4> QED
        BY <1>12, <4>1, <4>2
    <3> QED
      BY <3>1, <3>2
  <2>3. UNCHANGED <<out, relay, ch>>
    BY <1>22 DEF SubmitMessage, AckMessage, liveVars
  <2> QED
    BY <1>3, <1>4, <1>6, <1>8, <2>2, <2>3
<1>23. ASSUME Attach(c) \/ Register(c) PROVE Ok
  <2>1. UNCHANGED <<out, relay>> /\ ChannelOK
    BY <1>8, <1>9, <1>23 DEF Attach, Register, Cancel
  <2>2. AnswerOK /\ ReplayIdOK /\ EnvelopeOK
    <3>1. Fail(c) \/ (job' = job /\ \E l \in {"replay", "install"} : Goto(c, l))
      BY <1>23 DEF Attach, Register
    <3> QED
      BY <1>11, <1>12, <3>1
  <2> QED
    BY <1>3, <1>4, <1>6, <2>1, <2>2
<1>24. ASSUME ReadReplay(c) PROVE Ok
  <2> DEFINE r == Replay(box, job[c].cursor, ReplayLimit)
  <2>1. \A i \in DOMAIN r : r[i].id \in DOMAIN box
    <3>1. job[c].cursor \in Nat /\ box \in Seq(Envelopes) /\ \A i \in DOMAIN box : box[i].id = i
      BY <1>2 DEF Jobs, TypeOK, MailboxOK, BoxOK
    <3> QED
      BY <3>1, ReplayIs
  <2>2. job'[c].replay = r /\ pc'[c] = "hello"
    BY <1>2, <1>24 DEF ReadReplay, Goto, Jobs
  <2> HIDE DEF r
  <2>3. AnswerOK /\ ReplayIdOK /\ EnvelopeOK
    BY <1>0, <2>1, <2>2 DEF AnswerOK, ReplayIdOK, EnvelopeOK
  <2> QED
    BY <1>3, <1>4, <1>6, <1>8, <1>24, <2>3 DEF ReadReplay, openVars, liveVars
<1>25. ASSUME SendReplay(c) PROVE Ok
  <2>1. CASE closed[c]
    BY <1>3, <1>4, <1>6, <1>9, <1>11, <1>25, <2>1 DEF SendReplay, Cancel
  <2>2. CASE ~closed[c]
    <3> DEFINE envs == job[c].replay
               id == IF envs = <<>> THEN NoCursor ELSE envs[Len(envs)].id
    <3>1. id \in 0..Len(box')
      <4>1. envs \in Seq(Envelopes) /\ \A i \in DOMAIN envs : envs[i].id \in 0..Len(box')
        BY <1>1, <1>2 DEF Jobs
      <4>2. CASE envs = <<>>
        BY <1>0, <4>2 DEF NoCursor
      <4>3. CASE envs # <<>>
        BY <4>1, <4>3
      <4> QED
        BY <4>2, <4>3
    <3>2. /\ Send(c, id) /\ Goto(c, "range") /\ job' = [job EXCEPT ![c].replay = <<>>]
          /\ UNCHANGED <<relay, ch>>
      BY <1>25, <2>2 DEF SendReplay
    <3>3. job'[c].replay = <<>>
      BY <1>2, <3>2 DEF Jobs
    <3> HIDE DEF id
    <3> QED
      BY <1>3, <1>5, <1>6, <1>8, <1>12, <3>1, <3>2, <3>3
  <2> QED
    BY <2>1, <2>2
<1>26. ASSUME ReadRange(c) PROVE Ok
  <2>1. job'[c].replay = <<>> /\ Goto(c, "register") /\ UNCHANGED <<out, relay, ch>>
    BY <1>2, <1>26 DEF ReadRange, NoJob, liveVars
  <2> QED
    BY <1>3, <1>4, <1>6, <1>8, <1>12, <2>1
<1>27. ASSUME StartRelay(c) PROVE Ok
  <2>1. Return(c) /\ UNCHANGED <<out, ch>>
    BY <1>27 DEF StartRelay
  <2>2. relay'[c] = Off \/ relay'[c] = Idle(job[c].skip)
    BY <1>2, <1>27 DEF StartRelay
  <2>3. relay'[c] = Idle(job[c].skip) => RelayIdOK /\ HandOK
    BY <1>0 DEF RelayIdOK, HandOK, Off, Idle, NoCursor
  <2> QED
    BY <1>3, <1>4, <1>7, <1>8, <1>11, <2>1, <2>2, <2>3
<1>28. ASSUME Submit(c) PROVE Ok
  <2>1. UNCHANGED <<out, relay>>
    BY <1>28 DEF Submit
  <2>2. CASE Refused(c)
    <3>1. pc'[c] = "answer" /\ job'[c] = NoJob /\ UNCHANGED ch
      BY <1>2, <2>2 DEF Refused, Goto
    <3>2. AnswerOK /\ ReplayIdOK /\ EnvelopeOK
      BY <3>1 DEF AnswerOK, ReplayIdOK, EnvelopeOK, NoJob
    <3> QED
      BY <1>3, <1>4, <1>6, <1>8, <2>1, <3>1, <3>2
  <2>3. CASE Emptied(c)
    <3>1. /\ pc'[c] = "envelope" /\ job'[c].item = NoEvent /\ job'[c].version = version
          /\ job'[c].replay = job[c].replay /\ UNCHANGED <<ch, published>> /\ version # None
      BY <1>2, <2>3 DEF Emptied, Acknowledges, Goto, Jobs, docVars
    <3>2. version <= Len(published')
      BY <3>1 DEF VersionsOK
    <3>3. AnswerOK /\ ReplayIdOK /\ EnvelopeOK
      BY <1>1, <3>1, <3>2 DEF AnswerOK, ReplayIdOK, EnvelopeOK
    <3> QED
      BY <1>3, <1>4, <1>6, <1>8, <2>1, <3>1, <3>3
  <2>4. CASE Committed(c)
    <3> DEFINE e == [type |-> "op", version |-> version + 1, own |-> TRUE]
    <3>1. /\ pc'[c] = "envelope" /\ job'[c].item = Len(published) + 1
          /\ job'[c].version = version + 1 /\ job'[c].replay = job[c].replay
          /\ version # None /\ Publish(e)
      BY <1>2, <2>4 DEF Committed, Acknowledges, Goto, Jobs
    <3>2. version \in Nat /\ version <= Len(published) /\ Len(published) \in Nat
      BY <3>1 DEF TypeOK, DocOK, VersionsOK
    <3>3. e \in Events /\ e.version = version + 1
      BY <3>2 DEF Events
    <3> HIDE DEF e
    <3>4. Hears(c)
      BY <1>28, <3>1, <3>3 DEF Hears, Submit
    <3>5. /\ Len(published') = Len(published) + 1 /\ Len(published) + 1 \in DOMAIN published'
          /\ published'[Len(published) + 1] = e
      BY <3>1, <3>3, <3>4, PublishFacts, HearsChannel
    <3>6. ChannelOK
      BY <3>4, HearsChannel DEF ChannelOK
    <3>7. version + 1 <= Len(published')
      BY <3>2, <3>5
    <3>8. AnswerOK /\ ReplayIdOK /\ EnvelopeOK
      BY <1>1, <3>1, <3>3, <3>5, <3>7 DEF AnswerOK, ReplayIdOK, EnvelopeOK
    <3> QED
      BY <1>3, <1>4, <1>6, <2>1, <3>6, <3>8
  <2> QED
    BY <1>28, <2>2, <2>3, <2>4 DEF Submit
<1>29. ASSUME AppendAck(c) PROVE Ok
  <2>1. /\ box' = Append(box, Envelope("ack", job[c].item, job[c].version))
        /\ job' = [job EXCEPT ![c].item = Len(box) + 1] /\ Goto(c, "answer")
        /\ UNCHANGED <<out, relay, ch>>
    BY <1>29 DEF AppendAck, Envelope, openVars, liveVars
  <2>2. Len(box') = Len(box) + 1
    BY <2>1 DEF TypeOK, MailboxOK
  <2>3. pc'[c] = "answer" /\ job'[c].item = Len(box) + 1 /\ job'[c].replay = job[c].replay
    BY <1>2, <2>1 DEF Goto, Jobs
  <2>4. AnswerOK /\ ReplayIdOK /\ EnvelopeOK
    <3>1. Len(box) + 1 \in 1..Len(box')
      BY <1>0, <2>2
    <3> QED
      BY <1>1, <2>3, <3>1 DEF AnswerOK, ReplayIdOK, EnvelopeOK
  <2> QED
    BY <1>3, <1>4, <1>6, <1>8, <2>1, <2>4
<1>30. ASSUME Answer(c) PROVE Ok
  <2>1. CASE closed[c]
    BY <1>3, <1>4, <1>6, <1>8, <1>11, <1>30, <2>1 DEF Answer, liveVars
  <2>2. CASE ~closed[c]
    <3> DEFINE id == IF job[c].item = None THEN NoCursor ELSE job[c].item
    <3>1. id \in 0..Len(box')
      BY <1>0, <1>1, <1>30 DEF Answer, NoCursor
    <3>2. Send(c, id) /\ Return(c) /\ UNCHANGED <<relay, ch>>
      BY <1>30, <2>2 DEF Answer, liveVars
    <3> HIDE DEF id
    <3> QED
      BY <1>3, <1>5, <1>6, <1>8, <1>11, <3>1, <3>2
  <2> QED
    BY <2>1, <2>2
<1>31. ASSUME Ack(c) PROVE Ok
  BY <1>3, <1>4, <1>6, <1>8, <1>11, <1>31 DEF Ack, openVars, liveVars
<1>32. ASSUME TakeEvent(c) PROVE Ok
  <2>1. /\ ch[c] \in Seq(Nat) /\ ch[c] # <<>> /\ ch'[c] = Tail(ch[c])
        /\ UNCHANGED <<handlerVars, out>>
    BY <1>2, <1>32 DEF TakeEvent, openVars
  <2>2. ChannelOK
    BY <1>1, <2>1 DEF ChannelOK
  <2>3. Head(ch[c]) \in DOMAIN published'
    BY <1>1, <2>1
  <2>4. \/ relay'[c] = relay[c]
        \/ relay'[c] = [[relay[c] EXCEPT !.at = "append"] EXCEPT !.event = Head(ch[c])]
    BY <1>2, <1>32 DEF TakeEvent
  <2>5. RelayIdOK /\ HandOK
    BY <1>1, <1>2, <2>3, <2>4 DEF RelayIdOK, HandOK, Relays
  <2> QED
    BY <1>3, <1>4, <1>10, <2>1, <2>2, <2>5
<1>33. ASSUME AppendEvent(c) PROVE Ok
  <2>1. /\ box' = Append(box, Envelope("event", relay[c].event, published[relay[c].event].version))
        /\ relay'[c] = [[relay[c] EXCEPT !.at = "send"] EXCEPT !.id = Len(box) + 1]
        /\ UNCHANGED <<handlerVars, out, ch>> /\ relay[c].at = "append"
    BY <1>2, <1>33 DEF AppendEvent, Envelope, openVars
  <2>2. Len(box') = Len(box) + 1
    BY <2>1 DEF TypeOK, MailboxOK
  <2>3. Len(box) + 1 \in 0..Len(box')
    BY <1>0, <2>2
  <2>4. RelayIdOK /\ HandOK
    BY <1>1, <1>2, <2>1, <2>3 DEF RelayIdOK, HandOK, Relays
  <2> QED
    BY <1>3, <1>4, <1>8, <1>10, <2>1, <2>4
<1>34. ASSUME SendEvent(c) PROVE Ok
  <2>1. CASE closed[c]
    BY <1>2, <1>3, <1>4, <1>7, <1>9, <1>10, <1>34, <2>1 DEF SendEvent, Cancel
  <2>2. CASE ~closed[c]
    <3>1. Send(c, relay[c].id) /\ UNCHANGED <<handlerVars, ch>> /\ relay'[c] = Idle(relay[c].skip)
      BY <1>2, <1>34, <2>2 DEF SendEvent
    <3>2. RelayIdOK /\ HandOK
      BY <1>0, <3>1 DEF RelayIdOK, HandOK, Idle, Off, NoCursor
    <3> QED
      BY <1>1, <1>3, <1>5, <1>8, <1>10, <3>1, <3>2
  <2> QED
    BY <2>1, <2>2
<1>35. ASSUME RelayEnds(c) PROVE Ok
  BY <1>2, <1>3, <1>4, <1>7, <1>9, <1>10, <1>35 DEF RelayEnds, Cancel, openVars
<1>36. Ok
  BY <1>20, <1>21, <1>22, <1>23, <1>24, <1>25, <1>26, <1>27, <1>28, <1>29, <1>30, <1>31, <1>32,
     <1>33, <1>34, <1>35 DEF Acts, Handler, Relay
<1> QED
  BY <1>36 DEF Ok

\* Every step keeps the type invariant.
LEMMA TypeNext == ASSUME TypeInv, [Next]_vars PROVE TypeInv'
<1>1. DocOK' /\ VersionsOK' /\ MailboxOK' /\ BoxOK' /\ HandlersOK' /\ CloseOK' /\ SubsOK' /\ SendsOK'
  BY DocNext, BoxNext, HandlersNext, CloseNext, SubsNext, SendsNext DEF TypeInv
<1>2. current' \in 0..MaxConns
  <2>1. current \in 0..MaxConns /\ MaxConns \in Nat
    BY BoundsAssumption DEF TypeInv, TypeOK, ConnsOK
  <2>2. current' = current \/ current' \in Conns
    BY DEF Next, Handler, Relay, Commit, DeleteDocument, CreateDocument, Dial, Break, Write,
           SubmitMessage, AckMessage, Attach, ReadReplay, SendReplay, ReadRange, Register,
           Install, StartRelay, Submit, AppendAck, Answer, Ack, ReadEnds, TakeEvent,
           AppendEvent, SendEvent, RelayEnds, vars, clientVars
  <2> QED
    BY <2>1, <2>2 DEF Conns
<1>3. \A c \in Conns : IdsOK(c)'
  <2> SUFFICES ASSUME NEW c \in Conns PROVE IdsOK(c)'
    OBVIOUS
  <2>1. Acts(c) \/ (Same(c) /\ (ch'[c] = ch[c] \/ Hears(c)))
    BY StepOf DEF TypeInv, Quiet, Evicted
  <2> QED
    BY <2>1, IdsOwn, IdsOthers
<1>4. TypeOK'
  BY <1>1, <1>2 DEF TypeOK, ConnsOK, HandlersOK, CloseOK, SubsOK, SendsOK, JobOK
<1> QED
  BY <1>1, <1>3, <1>4 DEF TypeInv

\* So does the start.
LEMMA TypeInit == Init => TypeInv
<1> SUFFICES ASSUME Init PROVE TypeInv
  OBVIOUS
<1>1. DocOK /\ MailboxOK
  BY DEF Init, DocOK, MailboxOK, NoCursor
<1>2. NoJob \in Jobs /\ Off \in Relays /\ NotSeen \in Histories
  BY JobTypes DEF Off, Relays, NotSeen, Histories, NoCursor
<1>3. ConnsOK
  <2>1. MaxConns \in Nat /\ <<>> \in Seq(Nat) /\ <<>> \in Seq(Events)
    BY BoundsAssumption
  <2> QED
    BY <1>2, <2>1 DEF Init, ConnsOK, Labels
<1>4. TypeOK
  <2>1. SendBuffer \in Nat /\ LiveBuffer \in Nat /\ Len(<<>>) = 0
    BY BoundsAssumption
  <2> QED
    BY <1>1, <1>3, <2>1 DEF Init, TypeOK
<1>5. BoxOK /\ VersionsOK
  BY DEF Init, BoxOK, VersionsOK, Deletions
<1>6. \A c \in Conns : IdsOK(c)
  BY DEF Init, IdsOK, InHand, NoJob, Off, NoCursor
<1> QED
  BY <1>4, <1>5, <1>6 DEF TypeInv

\* The state has its shape and channels and queues are within their capacities,
\* whatever the capacities, the connections, the retries and the deletions
\* (ClientConn.Enqueue, SessionManager, MemoryMailboxStore).
THEOREM TypeCorrect == Spec => []TypeOK
<1>1. TypeInv => TypeOK
  BY DEF TypeInv
<1> QED
  BY <1>1, TypeInit, TypeNext, PTL DEF Spec

\* The cursor of the session moves forward only, even when acknowledgements
\* overtake one another on two connections (AckThrough).
THEOREM AckNeverBackCorrect == Spec => AckNeverBack
<1>1. ASSUME TypeInv, [Next]_vars PROVE [acked' >= acked]_vars
  <2>1. box \in Seq(Envelopes) /\ acked \in 0..Len(box) /\ Len(box) \in Nat
        /\ \A i \in DOMAIN box : box[i].id = i
    BY <1>1 DEF TypeInv, TypeOK, MailboxOK, BoxOK
  <2>2. ASSUME NEW c \in Conns, Ack(c) PROVE acked' >= acked
    <3>1. acked' = AckThrough(box, acked, job[c].item) /\ job[c].item \in Nat
      BY <1>1, <2>2 DEF Ack, TypeInv, TypeOK
    <3>2. Place(box, acked) = acked /\ acked \in Nat
      BY <2>1, PlaceIs
    <3>3. Place(box, job[c].item) > acked => job[c].item > acked
      BY <2>1, <3>1, <3>2, PlaceIs DEF NotFound
    <3> QED
      BY <3>1, <3>2, <3>3 DEF AckThrough
  <2>3. UNCHANGED acked => acked' >= acked
    BY <2>1
  <2>4. UNCHANGED acked \/ \E c \in Conns : Ack(c)
    BY <1>1 DEF Next, Handler, Relay, Commit, DeleteDocument, CreateDocument, Dial, Break, Write,
           SubmitMessage, AckMessage, Attach, ReadReplay, SendReplay, ReadRange, Register,
           Install, StartRelay, Submit, AppendAck, Answer, ReadEnds, TakeEvent,
           AppendEvent, SendEvent, RelayEnds, vars, boxVars
  <2> QED
    BY <2>2, <2>3, <2>4
<1> QED
  BY <1>1, TypeInit, TypeNext, PTL DEF Spec, AckNeverBack

-----------------------------------------------------------------------------
(* One live connection *)

Registry == \A c \in Conns : RegistryOK(c)

\* Where a connection's own step takes its read loop.
LEMMA LoopOwn ==
  ASSUME TypeInv, Registry, NEW c \in Conns, Acts(c)
  PROVE  /\ pc'[c] \in Waiting => pc[c] \in Waiting
         /\ Attached(c)' => Attached(c) \/ Install(c)
         /\ pc'[c] = "evict" => Install(c) \/ (pc[c] = "evict" /\ job'[c] = job[c])
         /\ pc[c] = "evict" => StartRelay(c) \/ (pc'[c] = "evict" /\ job'[c] = job[c])
         /\ pc[c] = "none" => Dial(c) \/ pc'[c] = "none"
<1> DEFINE Ok == /\ pc'[c] \in Waiting => pc[c] \in Waiting
                 /\ Attached(c)' => Attached(c) \/ Install(c)
                 /\ pc'[c] = "evict" => Install(c) \/ (pc[c] = "evict" /\ job'[c] = job[c])
                 /\ pc[c] = "evict" => StartRelay(c) \/ (pc'[c] = "evict" /\ job'[c] = job[c])
                 /\ pc[c] = "none" => Dial(c) \/ pc'[c] = "none"
<1>0. /\ pc \in [Conns -> Labels] /\ job \in [Conns -> Jobs]
  BY DEF TypeInv, TypeOK, ConnsOK
<1>1. ASSUME Dial(c) PROVE Ok
  <2>1. pc'[c] = "connect"
    BY <1>0, <1>1 DEF Dial, Goto
  <2>2. pc[c] = "none"
    <3>1. c > current
      BY <1>1 DEF Dial, TypeInv, TypeOK, ConnsOK, Conns
    <3> QED
      BY <3>1 DEF Registry, RegistryOK
  <2> QED
    BY <1>1, <2>1, <2>2 DEF Waiting, Attached
<1>2. ASSUME Attach(c) \/ ReadReplay(c) \/ SendReplay(c) \/ ReadRange(c) \/ Register(c)
      PROVE  Ok
  BY <1>0, <1>2 DEF Attach, ReadReplay, SendReplay, ReadRange, Register, Fail, Goto, Waiting, Attached
<1>3. ASSUME Install(c) \/ StartRelay(c) PROVE Ok
  BY <1>0, <1>3 DEF Install, StartRelay, Return, Goto, Waiting, Attached
<1>4. ASSUME SubmitMessage(c) \/ AckMessage(c) PROVE Ok
  BY <1>0, <1>4 DEF SubmitMessage, AckMessage, Serve, Fail, Goto, Waiting, Attached
<1>5. ASSUME Submit(c) \/ AppendAck(c) \/ Answer(c) \/ Ack(c) \/ ReadEnds(c) PROVE Ok
  BY <1>0, <1>5 DEF Submit, Refused, Emptied, Committed, Acknowledges, AppendAck, Answer, Ack,
              ReadEnds, Fail, Return, Goto, Waiting, Attached
<1>6. ASSUME UNCHANGED handlerVars PROVE Ok
  BY <1>6 DEF handlerVars, Attached
<1>7. ASSUME Relay(c) \/ Write(c) \/ Break(c) PROVE Ok
  BY <1>6, <1>7 DEF Relay, Write, Break, TakeEvent, AppendEvent, SendEvent, RelayEnds
<1> HIDE DEF Ok
<1>8. Ok
  BY <1>1, <1>2, <1>3, <1>4, <1>5, <1>7 DEF Acts, Handler
<1> QED
  BY <1>8 DEF Ok

\* A closed connection stays closed.
LEMMA ClosedStays ==
  ASSUME TypeInv, [Next]_vars, NEW c \in Conns, closed[c] PROVE closed'[c]
<1>0. closed \in [Conns -> BOOLEAN]
  BY DEF TypeInv, TypeOK, ConnsOK
<1>1. CASE Same(c) /\ (Quiet(c) \/ Evicted(c) \/ Hears(c))
  BY <1>1 DEF Quiet, Evicted, Hears
<1>2. ASSUME NEW d \in Conns, Close(d) PROVE closed'[c]
  BY <1>0, <1>2 DEF Close
<1>3. CASE Acts(c)
  <2>1. UNCHANGED closed \/ \E d \in Conns : Close(d)
    BY <1>3 DEF Acts, Handler, Relay, Dial, Break, Write, SubmitMessage, AckMessage, Serve,
         Attach, ReadReplay, SendReplay, ReadRange, Register, Install, StartRelay, Evicts,
         Submit, AppendAck, Answer, Ack, ReadEnds, TakeEvent, AppendEvent, SendEvent, RelayEnds,
         Fail, openVars, closeVars
  <2> QED
    BY <1>2, <2>1
<1> QED
  BY <1>1, <1>3, StepOf DEF TypeInv

\* The manager's entry changes when a connection is installed and when the one
\* it names is closed (Register, Unregister).
LEMMA ActiveMoves ==
  ASSUME TypeInv, [Next]_vars
  PROVE  \/ UNCHANGED active
         \/ \E d \in Conns : Install(d)
         \/ \E d \in Conns : active = d /\ closed'[d] /\ active' = None
<1> DEFINE Ok == \/ UNCHANGED active
                 \/ \E d \in Conns : Install(d)
                 \/ \E d \in Conns : active = d /\ closed'[d] /\ active' = None
<1>0. closed \in [Conns -> BOOLEAN]
  BY DEF TypeInv, TypeOK, ConnsOK
<1>1. ASSUME NEW d \in Conns, Close(d) PROVE Ok
  BY <1>0, <1>1 DEF Close
<1>2. ASSUME NEW c \in Conns, Acts(c) PROVE Ok
  <2>1. UNCHANGED active \/ Install(c) \/ \E d \in Conns : Close(d)
    BY <1>2 DEF Acts, Handler, Relay, Dial, Break, Write, SubmitMessage, AckMessage, Serve,
         Attach, ReadReplay, SendReplay, ReadRange, Register, StartRelay, Evicts,
         Submit, AppendAck, Answer, Ack, ReadEnds, TakeEvent, AppendEvent, SendEvent, RelayEnds,
         Fail, openVars, closeVars
  <2> QED
    BY <1>1, <2>1
<1> HIDE DEF Ok
<1>3. Ok
  <2>1. Commit \/ DeleteDocument \/ CreateDocument \/ UNCHANGED vars => Ok
    BY DEF Commit, DeleteDocument, CreateDocument, vars, openVars, closeVars, Ok
  <2> QED
    BY <1>2, <2>1 DEF Next, Acts
<1> QED
  BY <1>3 DEF Ok

\* A connection that is about to be closed by the one that replaced it still is,
\* or is closed (Register).
LEMMA EvictingStays ==
  ASSUME TypeInv, Registry, [Next]_vars, NEW c \in Conns, c \in Evicting
  PROVE  c \in Evicting' \/ closed'[c]
<1>1. PICK d \in Conns : pc[d] = "evict" /\ job[d].item = c
  BY DEF Evicting, Replaced
<1>2. CASE pc'[d] = "evict" /\ job'[d] = job[d]
  BY <1>1, <1>2 DEF Evicting, Replaced
<1>3. CASE StartRelay(d)
  <2>1. c # d
    BY <1>1 DEF Registry, RegistryOK
  <2>2. Close(c)
    BY <1>1, <1>3, <2>1 DEF StartRelay, Evicts, Replaced
  <2> QED
    BY <2>2 DEF Close, TypeInv, TypeOK, ConnsOK
<1> QED
  BY <1>1, <1>2, <1>3, StepOf, LoopOwn DEF Same, TypeInv

\* The registry stays in order: a connection is installed before it is served,
\* and replaced before another one is.
LEMMA RegistryNext == ASSUME TypeInv, Registry, [Next]_vars PROVE Registry'
<1> SUFFICES ASSUME NEW c \in Conns PROVE RegistryOK(c)'
  BY DEF Registry
<1>0. /\ pc \in [Conns -> Labels] /\ job \in [Conns -> Jobs] /\ current \in 0..MaxConns
      /\ c \in Nat /\ None \notin Nat /\ RegistryOK(c)
  BY BoundsAssumption DEF TypeInv, TypeOK, ConnsOK, Registry, Conns
<1>1. ASSUME NEW d \in Conns, Install(d)
      PROVE  /\ active' = d /\ pc'[d] = "evict" /\ job'[d].item = active /\ pc[d] = "install"
             /\ active # d
  BY <1>0, <1>1 DEF Install, Goto, Jobs, Registry, RegistryOK, Waiting
<1>2. c > current' => pc'[c] = "none"
  <2>1. current' = current \/ \E d \in Conns : Dial(d)
    BY DEF Next, Handler, Relay, Commit, DeleteDocument, CreateDocument, Break, Write,
           SubmitMessage, AckMessage, Attach, ReadReplay, SendReplay, ReadRange, Register,
           Install, StartRelay, Submit, AppendAck, Answer, Ack, ReadEnds, TakeEvent,
           AppendEvent, SendEvent, RelayEnds, vars, clientVars
  <2>2. current' = current \/ current' = current + 1
    BY <2>1 DEF Dial
  <2>3. ASSUME c > current' PROVE pc[c] = "none"
    BY <1>0, <2>2, <2>3 DEF RegistryOK
  <2>4. Dial(c) => current' = c
    BY DEF Dial
  <2> QED
    BY <1>0, <2>3, <2>4, StepOf, LoopOwn DEF Same, TypeInv
<1>3. pc'[c] \in Waiting => active' # c
  <2>1. SUFFICES ASSUME pc'[c] \in Waiting, active' = c PROVE FALSE
    OBVIOUS
  <2>2. pc[c] \in Waiting
    BY <2>1, StepOf, LoopOwn DEF Same, TypeInv
  <2>3. active # c
    BY <1>0, <2>2 DEF RegistryOK
  <2>4. PICK d \in Conns : Install(d)
    BY <1>0, <2>1, <2>3, ActiveMoves
  <2> QED
    BY <1>1, <2>1, <2>4 DEF Waiting
<1>4. pc'[c] = "evict" => job'[c].item # c
  <2>1. CASE Install(c)
    BY <1>1, <2>1
  <2>2. CASE ~Install(c)
    BY <1>0, <2>2, StepOf, LoopOwn DEF Same, TypeInv, RegistryOK
  <2> QED
    BY <2>1, <2>2
<1>5. ASSUME Attached(c)', ~closed'[c] PROVE active' = c \/ c \in Evicting'
  <2>1. CASE Install(c)
    BY <1>1, <2>1
  <2>2. CASE ~Install(c)
    <3>1. Attached(c) /\ ~closed[c]
      BY <1>5, <2>2, StepOf, LoopOwn, ClosedStays DEF Same, TypeInv, Attached
    <3>2. CASE c \in Evicting
      BY <1>5, <3>2, EvictingStays
    <3>3. CASE active = c
      <4>1. CASE UNCHANGED active
        BY <3>3, <4>1
      <4>2. ASSUME NEW d \in Conns, Install(d) PROVE c \in Evicting'
        BY <1>1, <3>3, <4>2 DEF Evicting, Replaced
      <4>3. ~ \E d \in Conns : active = d /\ closed'[d] /\ active' = None
        BY <1>5, <3>3
      <4> QED
        BY <4>1, <4>2, <4>3, ActiveMoves
    <3> QED
      BY <1>0, <3>1, <3>2, <3>3 DEF RegistryOK
  <2> QED
    BY <2>1, <2>2
<1> QED
  BY <1>2, <1>3, <1>4, <1>5 DEF RegistryOK

\* The registry is in order at the start.
LEMMA RegistryInit == Init => Registry
  BY BoundsAssumption DEF Init, Registry, RegistryOK, Attached, Conns

\* Of two connections that have been installed one is closed, or about to be by
\* the registration that replaced it (Register).
THEOREM OneLiveConnectionCorrect == Spec => []OneLiveConnection
<1>1. Registry => OneLiveConnection
  BY DEF Registry, RegistryOK, OneLiveConnection
<1> QED
  BY <1>1, TypeInit, TypeNext, RegistryInit, RegistryNext, PTL DEF Spec

-----------------------------------------------------------------------------
(* What is replayed, and what is live *)

\* What a connection's own step does to what it was sent.
LEMMA SeenOwn ==
  ASSUME TypeOK, NEW c \in Conns, Acts(c)
  PROVE  \/ seen'[c] = seen[c] /\ closed'[c] = closed[c]
         \/ seen'[c] = NotSeen /\ closed'[c]
         \/ SendReplay(c) /\ ~closed[c]
         \/ ReadRange(c)
         \/ SendEvent(c) /\ ~closed[c]
         \/ Submit(c) /\ Hears(c)
<1> DEFINE Ok == \/ seen'[c] = seen[c] /\ closed'[c] = closed[c]
                 \/ seen'[c] = NotSeen /\ closed'[c]
                 \/ SendReplay(c) /\ ~closed[c]
                 \/ ReadRange(c)
                 \/ SendEvent(c) /\ ~closed[c]
                 \/ Submit(c) /\ Hears(c)
<1>0. seen \in [Conns -> Histories] /\ closed \in [Conns -> BOOLEAN]
  BY DEF TypeOK, ConnsOK
<1>1. ASSUME Close(c) PROVE Ok
  BY <1>0, <1>1 DEF Close
<1>2. ASSUME UNCHANGED <<seen, closed>> PROVE Ok
  BY <1>2
<1>3. ASSUME StartRelay(c) PROVE Ok
  BY <1>0, <1>3 DEF StartRelay, Evicts, Close, closeVars
<1>4. ASSUME Submit(c) PROVE Ok
  <2>1. CASE UNCHANGED <<docVars, ch, seen>>
    BY <1>2, <1>4, <2>1 DEF Submit
  <2>2. CASE \E e \in Events : Publish(e)
    BY <1>4, <2>2 DEF Submit, Hears
  <2> QED
    BY <1>4, <2>1, <2>2, Publishers
<1>5. \/ UNCHANGED <<seen, closed>>
      \/ Close(c) \/ ReadRange(c) \/ StartRelay(c) \/ Submit(c)
      \/ SendReplay(c) /\ ~closed[c]
      \/ SendEvent(c) /\ ~closed[c]
  BY DEF Acts, Handler, Relay, Dial, Break, Write, SubmitMessage, AckMessage, Serve,
         Attach, ReadReplay, SendReplay, Register, Install,
         AppendAck, Answer, Ack, ReadEnds, TakeEvent, AppendEvent, SendEvent, RelayEnds,
         Fail, Return, openVars, closeVars
<1> HIDE DEF Ok
<1>6. Ok
  <2>1. (SendReplay(c) /\ ~closed[c]) \/ ReadRange(c) \/ (SendEvent(c) /\ ~closed[c]) => Ok
    BY DEF Ok
  <2> QED
    BY <1>1, <1>2, <1>3, <1>4, <1>5, <2>1
<1> QED
  BY <1>6 DEF Ok

\* The handler of a connection that is not installed yet.
Replays == \A c \in Conns : ReplayOK(c)

\* Nothing changes what was replayed to a connection whose handler does not
\* move, but its end.
LEMMA ReplayOthers ==
  ASSUME TypeInv, [Next]_vars, NEW c \in Conns, ReplayOK(c), closed[c] => closed'[c],
         pc'[c] = pc[c], job'[c] = job[c],
         \/ /\ seen'[c].replayed = seen[c].replayed /\ closed'[c] = closed[c]
            /\ closed[c] => seen'[c] = seen[c]
         \/ seen'[c] = NotSeen
  PROVE  ReplayOK(c)'
<1>0. /\ \A i \in DOMAIN box : i \in DOMAIN box' /\ box'[i] = box[i]
      /\ \A n \in DOMAIN published : n \in DOMAIN published' /\ published'[n] = published[n]
  BY BoxNext, DocNext DEF TypeInv
<1>1. closed'[c] => seen'[c] = NotSeen
  BY DEF ReplayOK
<1>2. seen'[c].replayed \subseteq seen[c].replayed
  BY DEF NotSeen
<1>3. pc'[c] \in {"none", "connect", "replay", "hello"} => seen'[c].replayed = {}
  BY <1>2 DEF ReplayOK
<1>4. pc'[c] = "hello" =>
        \A i \in DOMAIN job'[c].replay :
          /\ job'[c].replay[i].id \in DOMAIN box'
          /\ job'[c].replay[i] = box'[job'[c].replay[i].id]
          /\ Behind(job'[c].replay[i].id, job'[c].cursor)
  BY <1>0 DEF ReplayOK
<1>5. pc'[c] = "range" =>
        \A n \in seen'[c].replayed :
          \E i \in DOMAIN box' : box'[i].event = n /\ Behind(i, job'[c].cursor)
  BY <1>0, <1>2 DEF ReplayOK
<1>6. pc'[c] \in {"register", "install", "evict"} =>
        \A n \in seen'[c].replayed \ {NoEvent} :
          n \in DOMAIN published' /\ published'[n].version <= job'[c].skip
  BY <1>0, <1>2 DEF ReplayOK
<1> QED
  BY <1>1, <1>3, <1>4, <1>5, <1>6 DEF ReplayOK, Behind

\* The history of a connection ends with it.
LEMMA ClosedNotSeen ==
  ASSUME TypeInv, NEW c \in Conns, ReplayOK(c), Acts(c), closed'[c]
  PROVE  seen'[c] = NotSeen
<1>0. /\ seen \in [Conns -> Histories] /\ closed \in [Conns -> BOOLEAN]
      /\ closed[c] => seen[c] = NotSeen
  BY DEF TypeInv, TypeOK, ConnsOK, ReplayOK
<1>1. CASE ReadRange(c)
  <2>1. closed[c] /\ seen' = [seen EXCEPT ![c].rangedAt = 0] /\ seen[c] = NotSeen
    BY <1>0, <1>1 DEF ReadRange
  <2>2. seen'[c] = [NotSeen EXCEPT !.rangedAt = 0]
    BY <1>0, <2>1
  <2> QED
    BY <2>2 DEF NotSeen
<1>2. CASE Submit(c) /\ Hears(c)
  BY <1>0, <1>2, HearsFacts DEF TypeInv
<1>3. CASE (SendReplay(c) \/ SendEvent(c)) /\ ~closed[c]
  BY <1>0, <1>3 DEF SendReplay, SendEvent
<1> QED
  BY <1>0, <1>1, <1>2, <1>3, SeenOwn DEF TypeInv

\* The replay sent is of envelopes behind the cursor, and the second read covers
\* them (ReplaySessionMailbox, maxReplayEnvelopeVersion).
LEMMA ReplayOwn ==
  ASSUME TypeInv, Registry, [Next]_vars, NEW c \in Conns, ReplayOK(c), Acts(c)
  PROVE  ReplayOK(c)'
<1> DEFINE Ok == ReplayOK(c)'
<1>0. /\ pc \in [Conns -> Labels] /\ job \in [Conns -> Jobs] /\ seen \in [Conns -> Histories]
      /\ closed \in [Conns -> BOOLEAN]
      /\ \A i \in DOMAIN box : i \in DOMAIN box' /\ box'[i] = box[i]
      /\ \A n \in DOMAIN published : n \in DOMAIN published' /\ published'[n] = published[n]
      /\ closed'[c] => seen'[c] = NotSeen
  BY BoxNext, DocNext, ClosedNotSeen DEF TypeInv, TypeOK, ConnsOK
<1>1. ASSUME pc'[c] \in Labels \ {"none", "connect", "replay", "hello", "range", "register",
                                  "install", "evict"}
      PROVE  Ok
  BY <1>0, <1>1 DEF ReplayOK
<1>2. ASSUME pc'[c] \in {"connect", "replay"}, seen'[c].replayed = {} PROVE Ok
  BY <1>0, <1>2 DEF ReplayOK
<1>3. ASSUME Fail(c) PROVE Ok
  BY <1>0, <1>1, <1>3 DEF Fail, Goto, Labels
<1>4. ASSUME UNCHANGED handlerVars,
             \/ /\ seen'[c].replayed = seen[c].replayed /\ closed'[c] = closed[c]
                /\ closed[c] => seen'[c] = seen[c]
             \/ seen'[c] = NotSeen
      PROVE Ok
  <2>1. pc'[c] = pc[c] /\ job'[c] = job[c]
    BY <1>4 DEF handlerVars
  <2>2. closed[c] => closed'[c]
    BY ClosedStays
  <2> QED
    BY <1>4, <2>1, <2>2, ReplayOthers
<1>5. ASSUME Break(c) \/ Write(c) \/ Relay(c) PROVE Ok
  <2>1. UNCHANGED handlerVars
    BY <1>5 DEF Break, Write, Relay, TakeEvent, AppendEvent, SendEvent, RelayEnds
  <2>2. \/ UNCHANGED <<seen, closed>>
        \/ Close(c)
        \/ /\ ~closed[c] /\ UNCHANGED closed
           /\ seen' = [seen EXCEPT ![c].live = Append(@, relay[c].event)]
    BY <1>5 DEF Break, Write, Relay, TakeEvent, AppendEvent, SendEvent, RelayEnds, openVars,
                closeVars
  <2>3. CASE UNCHANGED <<seen, closed>>
    BY <1>4, <2>1, <2>3
  <2>4. CASE Close(c)
    BY <1>0, <1>4, <2>1, <2>4 DEF Close
  <2>5. CASE /\ ~closed[c] /\ UNCHANGED closed
             /\ seen' = [seen EXCEPT ![c].live = Append(@, relay[c].event)]
    <3>1. seen'[c].replayed = seen[c].replayed
      BY <1>0, <2>5 DEF Histories
    <3> QED
      BY <1>4, <2>1, <2>5, <3>1
  <2> QED
    BY <2>2, <2>3, <2>4, <2>5
<1>6. ASSUME Dial(c) PROVE Ok
  <2>1. pc'[c] = "connect" /\ UNCHANGED seen /\ c > current
    BY <1>0, <1>6 DEF Dial, Goto, openVars, closeVars, TypeInv, TypeOK, ConnsOK, Conns
  <2>2. pc[c] = "none"
    BY <2>1 DEF Registry, RegistryOK
  <2>3. seen'[c].replayed = {}
    BY <2>1, <2>2 DEF ReplayOK
  <2> QED
    BY <1>2, <2>1, <2>3
<1>7. ASSUME Attach(c) PROVE Ok
  <2>1. CASE ~Fail(c)
    <3>1. pc'[c] = "replay" /\ UNCHANGED seen /\ pc[c] = "connect"
      BY <1>0, <1>7, <2>1 DEF Attach, Goto, closeVars
    <3>2. seen'[c].replayed = {}
      BY <3>1 DEF ReplayOK
    <3> QED
      BY <1>2, <3>1, <3>2
  <2> QED
    BY <1>3, <2>1
<1>8. ASSUME ReadReplay(c) PROVE Ok
  <2> DEFINE r == Replay(box, job[c].cursor, ReplayLimit)
  <2>1. /\ pc'[c] = "hello" /\ pc[c] = "replay" /\ UNCHANGED <<seen, box>>
        /\ job'[c].replay = r /\ job'[c].cursor = job[c].cursor
    BY <1>0, <1>8 DEF ReadReplay, Goto, Jobs, openVars, closeVars, boxVars
  <2>2. seen'[c].replayed = {}
    BY <2>1 DEF ReplayOK
  <2>3. \A i \in DOMAIN r :
          r[i].id \in DOMAIN box /\ r[i] = box[r[i].id] /\ Behind(r[i].id, job[c].cursor)
    <3>1. job[c].cursor \in Nat /\ box \in Seq(Envelopes) /\ \A i \in DOMAIN box : box[i].id = i
      BY <1>0 DEF Jobs, TypeInv, TypeOK, MailboxOK, BoxOK
    <3> QED
      BY <3>1, ReplayIs
  <2> HIDE DEF r
  <2> QED
    BY <1>0, <2>1, <2>2, <2>3 DEF ReplayOK, Behind
<1>9. ASSUME SendReplay(c) PROVE Ok
  <2>1. CASE ~closed[c]
    <3> DEFINE envs == job[c].replay
               events == { envs[i].event : i \in DOMAIN envs }
    <3>1. /\ pc'[c] = "range" /\ pc[c] = "hello" /\ UNCHANGED box
          /\ job'[c].cursor = job[c].cursor /\ seen' = [seen EXCEPT ![c].replayed = events]
      BY <1>0, <1>9, <2>1 DEF SendReplay, Goto, Jobs, boxVars
    <3>2. seen'[c].replayed = events
      BY <1>0, <3>1 DEF Histories
    <3>3. \A i \in DOMAIN envs :
            /\ envs[i].id \in DOMAIN box /\ envs[i] = box[envs[i].id]
            /\ Behind(envs[i].id, job[c].cursor)
      BY <3>1 DEF ReplayOK
    <3>4. \A n \in events : \E i \in DOMAIN box : box[i].event = n /\ Behind(i, job[c].cursor)
      BY <3>3
    <3> HIDE DEF events
    <3> QED
      BY <1>0, <3>1, <3>2, <3>4 DEF ReplayOK, Behind
  <2>2. CASE closed[c]
    BY <1>3, <1>9, <2>2 DEF SendReplay
  <2> QED
    BY <2>1, <2>2
<1>10. ASSUME ReadRange(c) PROVE Ok
  <2>1. /\ pc'[c] = "register" /\ pc[c] = "range" /\ UNCHANGED published
        /\ job'[c].skip = SkipThrough(c)
    BY <1>0, <1>10 DEF ReadRange, Goto, NoJob, docVars
  <2>2. seen'[c].replayed = seen[c].replayed
    BY <1>0, <1>10 DEF ReadRange, Histories
  <2>3. ASSUME NEW n \in seen[c].replayed \ {NoEvent}
        PROVE  n \in DOMAIN published /\ published[n].version <= SkipThrough(c)
    <3>1. PICK i \in DOMAIN box : box[i].event = n /\ Behind(i, job[c].cursor)
      BY <2>1, <2>3 DEF ReplayOK
    <3>2. n \in DOMAIN published /\ box[i].version = published[n].version
      BY <2>3, <3>1 DEF TypeInv, BoxOK, TellsOf
    <3> QED
      BY <3>1, <3>2, SkipIs
  <2> QED
    BY <1>0, <2>1, <2>2, <2>3 DEF ReplayOK
<1>11. ASSUME Register(c) \/ Install(c) PROVE Ok
  <2>1. CASE ~Fail(c)
    <3>1. /\ pc'[c] \in {"install", "evict"} /\ pc[c] \in {"register", "install"}
          /\ job'[c].skip = job[c].skip /\ UNCHANGED seen
      BY <1>0, <1>11, <2>1 DEF Register, Install, Goto, Jobs
    <3>2. \A n \in seen[c].replayed \ {NoEvent} :
            n \in DOMAIN published /\ published[n].version <= job[c].skip
      BY <3>1 DEF ReplayOK
    <3> QED
      BY <1>0, <3>1, <3>2 DEF ReplayOK
  <2> QED
    BY <1>3, <2>1
<1>12. ASSUME StartRelay(c) \/ SubmitMessage(c) \/ AckMessage(c) \/ Submit(c) \/ AppendAck(c)
              \/ Answer(c) \/ Ack(c) \/ ReadEnds(c)
       PROVE  Ok
  <2>1. pc'[c] \in {"ready", "submit", "ack", "answer", "envelope", "end"}
    BY <1>0, <1>12 DEF StartRelay, SubmitMessage, AckMessage, Serve, Submit, Refused, Emptied,
              Committed, Acknowledges, AppendAck, Answer, Ack, ReadEnds, Fail, Return, Goto
  <2> QED
    BY <1>1, <2>1 DEF Labels
<1> HIDE DEF Ok
<1>13. Ok
  BY <1>5, <1>6, <1>7, <1>8, <1>9, <1>10, <1>11, <1>12 DEF Acts, Handler
<1> QED
  BY <1>13 DEF Ok

\* So every connection's replay stays in order.
LEMMA ReplaysNext == ASSUME TypeInv, Registry, Replays, [Next]_vars PROVE Replays'
<1> SUFFICES ASSUME NEW c \in Conns PROVE ReplayOK(c)'
  BY DEF Replays
<1>0. ReplayOK(c) /\ (closed[c] => closed'[c]) /\ seen[c] \in Histories
  BY ClosedStays DEF Replays, TypeInv, TypeOK, ConnsOK
<1>1. CASE Same(c) /\ (Quiet(c) \/ Evicted(c))
  BY <1>0, <1>1, ReplayOthers DEF Same, Quiet, Evicted
<1>2. CASE Same(c) /\ Hears(c)
  <2>1. /\ closed'[c] = closed[c]
        /\ \/ seen'[c] = seen[c]
           \/ ~closed[c] /\ seen'[c] = [seen[c] EXCEPT !.overflow = TRUE]
    BY <1>2, HearsFacts DEF TypeInv
  <2>2. seen'[c].replayed = seen[c].replayed /\ (closed[c] => seen'[c] = seen[c])
    BY <1>0, <2>1 DEF Histories
  <2> QED
    BY <1>0, <1>2, <2>1, <2>2, ReplayOthers DEF Same
<1> QED
  BY <1>0, <1>1, <1>2, StepOf, ReplayOwn DEF TypeInv

\* Nothing is replayed at the start.
LEMMA ReplaysInit == Init => Replays
  BY DEF Init, Replays, ReplayOK, NotSeen

RelaysOK == \A c \in Conns : RelayOK(c)

\* Nothing is relayed at the start.
LEMMA RelaysInit == Init => RelaysOK
  BY DEF Init, RelaysOK, RelayOK, NotSeen, Off, Increasing, Before, InHand

\* A number that is published now is behind all those in a channel.
LEMMA IncreasingAppend ==
  ASSUME NEW s \in Seq(Nat), Increasing(s), NEW n \in Nat, Before(s, n)
  PROVE  /\ Increasing(Append(s, n))
         /\ \A i \in DOMAIN Append(s, n) : Append(s, n)[i] = n \/
              (i \in DOMAIN s /\ Append(s, n)[i] = s[i])
<1> DEFINE t == Append(s, n)
<1>1. /\ Len(s) \in Nat /\ DOMAIN s = 1..Len(s) /\ DOMAIN t = 1..(Len(s) + 1)
      /\ \A i \in 1..Len(s) : t[i] = s[i] /\ s[i] \in Nat
      /\ t[Len(s) + 1] = n
  OBVIOUS
<1> HIDE DEF t
<1>2. \A i \in DOMAIN t : t[i] = n \/ (i \in DOMAIN s /\ t[i] = s[i])
  BY <1>1
<1>3. ASSUME NEW i \in DOMAIN t, NEW j \in DOMAIN t, i < j PROVE t[i] < t[j]
  <2>1. i \in 1..Len(s)
    BY <1>1, <1>3
  <2>2. CASE j = Len(s) + 1
    BY <1>1, <2>1, <2>2 DEF Before
  <2>3. CASE j \in 1..Len(s)
    BY <1>1, <1>3, <2>1, <2>3 DEF Increasing
  <2> QED
    BY <1>1, <2>2, <2>3
<1>4. Increasing(t)
  BY <1>3 DEF Increasing
<1> QED
  BY <1>2, <1>4 DEF t

\* What is left of an increasing sequence is, and is behind what was taken.
LEMMA IncreasingTail ==
  ASSUME NEW s \in Seq(Nat), Increasing(s), s # <<>>
  PROVE  /\ Head(s) \in Nat /\ Increasing(Tail(s)) /\ Tail(s) \in Seq(Nat)
         /\ \A i \in DOMAIN Tail(s) : Head(s) < Tail(s)[i]
         /\ \A i \in DOMAIN Tail(s) : i + 1 \in DOMAIN s /\ Tail(s)[i] = s[i + 1]
         /\ 1 \in DOMAIN s /\ Head(s) = s[1]
<1> DEFINE t == Tail(s)
<1>1. /\ Len(s) \in Nat /\ Len(s) > 0 /\ DOMAIN s = 1..Len(s) /\ DOMAIN t = 1..(Len(s) - 1)
      /\ \A i \in 1..(Len(s) - 1) : t[i] = s[i + 1]
      /\ Head(s) = s[1] /\ s[1] \in Nat /\ t \in Seq(Nat)
  OBVIOUS
<1> HIDE DEF t
<1>2. Increasing(t)
  <2> SUFFICES ASSUME NEW i \in DOMAIN t, NEW j \in DOMAIN t, i < j PROVE t[i] < t[j]
    BY DEF Increasing
  <2>1. i + 1 \in DOMAIN s /\ j + 1 \in DOMAIN s /\ i + 1 < j + 1
    <3>1. /\ i \in 1..(Len(s) - 1) /\ j \in 1..(Len(s) - 1) /\ Len(s) \in Nat
          /\ DOMAIN s = 1..Len(s)
      BY <1>1
    <3> QED
      BY <3>1
  <2>2. s[i + 1] < s[j + 1]
    BY <2>1 DEF Increasing
  <2>3. t[i] = s[i + 1] /\ t[j] = s[j + 1]
    BY <1>1
  <2> QED
    BY <2>2, <2>3
<1>3. \A i \in DOMAIN t : s[1] < t[i]
  <2> SUFFICES ASSUME NEW i \in DOMAIN t PROVE s[1] < t[i]
    OBVIOUS
  <2>1. 1 \in DOMAIN s /\ i + 1 \in DOMAIN s /\ 1 < i + 1
    BY <1>1
  <2> QED
    BY <1>1, <2>1 DEF Increasing
<1> QED
  BY <1>1, <1>2, <1>3 DEF t

\* A relay that does not move keeps its order while the channel gets new events
\* or is cancelled.
LEMMA RelayKept ==
  ASSUME TypeInv, [Next]_vars, NEW c \in Conns, RelayOK(c), relay'[c] = relay[c],
         pc'[c] \in Waiting \cup {"evict"} => pc[c] \in Waiting \cup {"evict"},
         \/ seen'[c] = NotSeen
         \/ /\ seen'[c].live = seen[c].live
            /\ seen'[c].replayed = seen[c].replayed \/ relay[c].at = "off",
         \/ ch'[c] = ch[c]
         \/ ch'[c] = <<>>
         \/ /\ ch'[c] = Append(ch[c], Len(published) + 1)
  PROVE  RelayOK(c)'
<1>0. /\ \A n \in DOMAIN published : n \in DOMAIN published' /\ published'[n] = published[n]
      /\ DOMAIN published = 1..Len(published) /\ Len(published) \in Nat
      /\ ch[c] \in Seq(Nat) /\ \A i \in DOMAIN ch[c] : ch[c][i] \in DOMAIN published
      /\ InHand(c) => relay[c].event \in DOMAIN published
      /\ seen[c].live \in Seq(Nat) /\ relay[c] \in Relays
  BY DocNext DEF TypeInv, TypeOK, DocOK, ConnsOK, IdsOK, Histories
<1>1. seen'[c].live = <<>> \/ seen'[c].live = seen[c].live
  BY DEF NotSeen
<1>2. seen'[c].replayed \subseteq seen[c].replayed \/ relay[c].at = "off"
  BY DEF NotSeen
<1>3. \A i \in DOMAIN seen'[c].live : i \in DOMAIN seen[c].live /\ seen'[c].live[i] = seen[c].live[i]
  BY <1>1
<1>4. \A i \in DOMAIN seen[c].live : seen[c].live[i] \in DOMAIN published
  BY DEF RelayOK
<1>5. /\ Increasing(ch'[c])
      /\ \A i \in DOMAIN ch'[c] :
           \/ \E j \in DOMAIN ch[c] : ch'[c][i] = ch[c][j]
           \/ ch'[c][i] = Len(published) + 1
  <2>1. Increasing(ch[c])
    BY DEF RelayOK
  <2>2. CASE ch'[c] = Append(ch[c], Len(published) + 1)
    <3> DEFINE n == Len(published) + 1
    <3>1. n \in Nat /\ Before(ch[c], n)
      BY <1>0 DEF Before
    <3>2. ch'[c] = Append(ch[c], n)
      BY <2>2
    <3> HIDE DEF n
    <3>3. /\ Increasing(ch'[c])
          /\ \A i \in DOMAIN ch'[c] : ch'[c][i] = n \/ (i \in DOMAIN ch[c] /\ ch'[c][i] = ch[c][i])
      BY <1>0, <2>1, <3>1, <3>2, IncreasingAppend
    <3> QED
      BY <3>3 DEF n
  <2>3. CASE ch'[c] = <<>>
    BY <2>3 DEF Increasing
  <2>4. CASE ch'[c] = ch[c]
    BY <2>1, <2>4
  <2> QED
    BY <2>2, <2>3, <2>4
<1>6. \A m \in DOMAIN published : m < Len(published) + 1
  BY <1>0
<1>7. /\ pc'[c] \in Waiting \cup {"evict"} => relay'[c] = Off
      /\ relay'[c].at = "off" => seen'[c].live = <<>>
      /\ relay'[c].at # "off" =>
           \A n \in seen'[c].replayed \ {NoEvent} :
             n \in DOMAIN published' /\ published'[n].version <= relay'[c].skip
  BY <1>0, <1>1, <1>2 DEF RelayOK
<1>8. \A i \in DOMAIN seen'[c].live :
        /\ seen'[c].live[i] \in DOMAIN published'
        /\ published'[seen'[c].live[i]].version > relay'[c].skip
  BY <1>0, <1>3 DEF RelayOK
<1>9. InHand(c) => published'[relay'[c].event].version > relay'[c].skip /\ ~published'[relay'[c].event].own
  BY <1>0 DEF RelayOK
<1>10. Increasing(seen'[c].live)
  BY <1>1 DEF RelayOK, Increasing
<1>11. \A i \in DOMAIN ch'[c] : Before(seen'[c].live, ch'[c][i])
  BY <1>3, <1>4, <1>5, <1>6 DEF RelayOK, Before
<1>12. InHand(c) =>
         /\ Before(seen'[c].live, relay'[c].event)
         /\ \A i \in DOMAIN ch'[c] : relay'[c].event < ch'[c][i]
  BY <1>0, <1>3, <1>5, <1>6 DEF RelayOK, Before
<1> QED
  BY <1>5, <1>7, <1>8, <1>9, <1>10, <1>11, <1>12 DEF RelayOK, InHand

\* The relay takes an event, skips it or sends it, in order (startLiveRelay).
LEMMA RelayTakes ==
  ASSUME TypeInv, [Next]_vars, NEW c \in Conns, RelayOK(c), TakeEvent(c)
  PROVE  RelayOK(c)'
<1>0. /\ UNCHANGED <<published, seen, pc>>
      /\ DOMAIN published = 1..Len(published) /\ Len(published) \in Nat /\ published \in Seq(Events)
      /\ ch[c] \in Seq(Nat) /\ ch[c] # <<>> /\ ch'[c] = Tail(ch[c])
      /\ \A i \in DOMAIN ch[c] : ch[c][i] \in DOMAIN published
      /\ relay \in [Conns -> Relays] /\ relay[c].at = "idle"
  BY DEF TakeEvent, TypeInv, TypeOK, DocOK, ConnsOK, IdsOK, docVars, handlerVars, openVars, closeVars
<1>1. /\ Increasing(ch[c]) /\ Increasing(seen[c].live)
      /\ \A i \in DOMAIN ch[c] : Before(seen[c].live, ch[c][i])
      /\ relay[c] # Off
  BY <1>0 DEF RelayOK, Off
<1> DEFINE n == Head(ch[c])
           t == Tail(ch[c])
<1>2. /\ n \in DOMAIN published /\ Increasing(t) /\ \A i \in DOMAIN t : n < t[i]
      /\ \A i \in DOMAIN t : Before(seen[c].live, t[i])
      /\ Before(seen[c].live, n)
  <2>1. /\ Increasing(t) /\ \A i \in DOMAIN t : n < t[i]
        /\ \A i \in DOMAIN t : i + 1 \in DOMAIN ch[c] /\ t[i] = ch[c][i + 1]
        /\ 1 \in DOMAIN ch[c] /\ n = ch[c][1]
    BY <1>0, <1>1, IncreasingTail
  <2> QED
    BY <1>0, <1>1, <2>1
<1>3. CASE relay' = relay
  BY <1>0, <1>1, <1>2, <1>3 DEF RelayOK, InHand
<1>4. CASE ~Skips(c, n)
  <2>1. relay'[c] = [[relay[c] EXCEPT !.at = "append"] EXCEPT !.event = n]
    BY <1>0, <1>4 DEF TakeEvent
  <2>2. relay'[c].at = "append" /\ relay'[c].event = n /\ relay'[c].skip = relay[c].skip
    BY <1>0, <2>1 DEF Relays
  <2>3. published[n].version > relay[c].skip /\ ~published[n].own
    <3>1. published[n].version \in Nat /\ relay[c].skip \in Nat
      <4>1. published[n] \in Events /\ relay[c] \in Relays
        BY <1>0, <1>2
      <4> QED
        BY <4>1 DEF Events, Relays
    <3> QED
      BY <1>4, <3>1 DEF Skips
  <2> HIDE DEF n, t
  <2>4. ch'[c] = t
    BY <1>0 DEF t
  <2>5. pc[c] \notin Waiting \cup {"evict"}
    BY <1>1 DEF RelayOK
  <2>6. /\ \A m \in seen[c].replayed \ {NoEvent} : m \in DOMAIN published /\ published[m].version <= relay[c].skip
        /\ \A i \in DOMAIN seen[c].live :
             seen[c].live[i] \in DOMAIN published /\ published[seen[c].live[i]].version > relay[c].skip
    BY <1>0 DEF RelayOK
  <2> QED
    BY <1>0, <1>1, <1>2, <2>2, <2>3, <2>4, <2>5, <2>6 DEF RelayOK, InHand
<1> QED
  BY <1>3, <1>4 DEF TakeEvent

\* What was sent last is behind what was sent before.
LEMMA RelaySends ==
  ASSUME TypeInv, [Next]_vars, NEW c \in Conns, ReplayOK(c), RelayOK(c), SendEvent(c)
  PROVE  RelayOK(c)'
<1>0. /\ UNCHANGED <<published, pc>> /\ relay[c].at = "send"
      /\ relay \in [Conns -> Relays] /\ seen \in [Conns -> Histories] /\ ch \in [Conns -> Seq(Nat)]
      /\ relay[c] \in Relays /\ seen[c] \in Histories
  BY DEF SendEvent, TypeInv, TypeOK, ConnsOK, docVars, handlerVars
<1>1. CASE closed[c]
  <2>1. /\ relay'[c] = Off /\ seen'[c] = NotSeen /\ ch'[c] = <<>>
    BY <1>0, <1>1 DEF SendEvent, Cancel, ReplayOK
  <2> QED
    BY <2>1 DEF RelayOK, NotSeen, Off, InHand, Increasing, Before
<1>2. CASE ~closed[c]
  <2> DEFINE n == relay[c].event
             live == seen[c].live
  <2>1. /\ seen' = [seen EXCEPT ![c].live = Append(live, n)]
        /\ relay'[c] = Idle(relay[c].skip) /\ UNCHANGED ch
    BY <1>0, <1>2 DEF SendEvent
  <2>2. seen'[c].live = Append(live, n) /\ seen'[c].replayed = seen[c].replayed
    BY <1>0, <2>1 DEF Histories
  <2>3. relay'[c].at = "idle" /\ relay'[c].skip = relay[c].skip
    BY <2>1 DEF Idle, Off
  <2>4. /\ n \in DOMAIN published /\ published[n].version > relay[c].skip
        /\ Before(live, n) /\ \A i \in DOMAIN ch[c] : n < ch[c][i]
        /\ Increasing(live) /\ Increasing(ch[c])
        /\ \A i \in DOMAIN ch[c] : Before(live, ch[c][i])
        /\ relay[c] # Off
    BY <1>0 DEF RelayOK, InHand, TypeInv, IdsOK, Off
  <2>5. live \in Seq(Nat) /\ n \in Nat
    BY <1>0 DEF Histories, Relays
  <2>6. pc[c] \notin Waiting \cup {"evict"}
    BY <2>4 DEF RelayOK
  <2>7. /\ \A m \in seen[c].replayed \ {NoEvent} : m \in DOMAIN published /\ published[m].version <= relay[c].skip
        /\ \A i \in DOMAIN live :
             live[i] \in DOMAIN published /\ published[live[i]].version > relay[c].skip
    BY <1>0 DEF RelayOK
  <2> HIDE DEF n, live
  <2>8. /\ Increasing(Append(live, n))
        /\ \A i \in DOMAIN Append(live, n) :
             Append(live, n)[i] = n \/ (i \in DOMAIN live /\ Append(live, n)[i] = live[i])
    BY <2>4, <2>5, IncreasingAppend
  <2>9. \A i \in DOMAIN ch'[c] : Before(seen'[c].live, ch'[c][i])
    BY <2>1, <2>2, <2>4, <2>8 DEF Before
  <2>10. \A i \in DOMAIN seen'[c].live :
           /\ seen'[c].live[i] \in DOMAIN published'
           /\ published'[seen'[c].live[i]].version > relay'[c].skip
    BY <1>0, <2>2, <2>3, <2>4, <2>7, <2>8
  <2> QED
    BY <1>0, <2>1, <2>2, <2>3, <2>4, <2>6, <2>7, <2>8, <2>9, <2>10 DEF RelayOK, InHand
<1> QED
  BY <1>1, <1>2

\* Every relay keeps its order.
LEMMA RelayOwn ==
  ASSUME TypeInv, Registry, [Next]_vars, NEW c \in Conns, ReplayOK(c), RelayOK(c), Acts(c)
  PROVE  RelayOK(c)'
<1>0. /\ pc \in [Conns -> Labels] /\ job \in [Conns -> Jobs] /\ seen \in [Conns -> Histories]
      /\ relay \in [Conns -> Relays] /\ ch \in [Conns -> Seq(Nat)]
      /\ closed'[c] => seen'[c] = NotSeen
  BY ClosedNotSeen DEF TypeInv, TypeOK, ConnsOK
<1>1. CASE TakeEvent(c)
  BY <1>1, RelayTakes
<1>2. CASE SendEvent(c)
  BY <1>2, RelaySends
<1>3. CASE AppendEvent(c)
  <2>1. /\ relay[c].at = "append" /\ UNCHANGED <<published, pc, seen, ch>>
        /\ relay'[c] = [[relay[c] EXCEPT !.at = "send"] EXCEPT !.id = Len(box) + 1]
    BY <1>0, <1>3 DEF AppendEvent, Envelope, docVars, handlerVars, openVars, closeVars
  <2>2. relay'[c].at = "send" /\ relay'[c].event = relay[c].event /\ relay'[c].skip = relay[c].skip
    BY <1>0, <2>1 DEF Relays
  <2>3. pc[c] \notin Waiting \cup {"evict"}
    BY <2>1 DEF RelayOK, Off
  <2> QED
    BY <2>1, <2>2, <2>3 DEF RelayOK, InHand
<1>4. CASE RelayEnds(c)
  <2>1. /\ relay'[c] = Off /\ ch'[c] = <<>> /\ seen'[c] = NotSeen
    BY <1>0, <1>4 DEF RelayEnds, Cancel, ReplayOK, openVars, closeVars
  <2> QED
    BY <2>1 DEF RelayOK, NotSeen, Off, InHand, Increasing, Before
<1>5. CASE StartRelay(c)
  <2>1. /\ pc[c] = "evict" /\ pc'[c] = "ready" /\ UNCHANGED <<published, ch>>
        /\ relay'[c] = IF closed[c] THEN Off ELSE Idle(job[c].skip)
    BY <1>0, <1>5 DEF StartRelay, Return, Goto, docVars
  <2>2. seen[c].live = <<>> /\ Increasing(ch[c])
    BY <2>1 DEF RelayOK, Off
  <2>3. \/ seen'[c] = NotSeen
        \/ seen'[c] = seen[c]
    <3>1. relay[c].at = "off"
      BY <2>1 DEF RelayOK, Off
    <3>2. ~SendReplay(c) /\ ~ReadRange(c) /\ ~Submit(c) /\ ~SendEvent(c)
      BY <2>1, <3>1 DEF SendReplay, ReadRange, Submit, SendEvent
    <3> QED
      BY <3>2, SeenOwn DEF TypeInv
  <2>4. seen'[c].live = <<>> /\ seen'[c].replayed \subseteq seen[c].replayed
    BY <2>2, <2>3 DEF NotSeen
  <2>5. \A n \in seen[c].replayed \ {NoEvent} : n \in DOMAIN published /\ published[n].version <= job[c].skip
    BY <2>1 DEF ReplayOK
  <2>6. CASE closed[c]
    BY <2>1, <2>2, <2>4, <2>6 DEF RelayOK, InHand, Off, Waiting, Before, Increasing
  <2>7. CASE ~closed[c]
    <3>1. relay'[c].at = "idle" /\ relay'[c].skip = job[c].skip
      BY <2>1, <2>7 DEF Idle, Off
    <3> QED
      BY <2>1, <2>2, <2>4, <2>5, <3>1 DEF RelayOK, InHand, Waiting, Before, Increasing
  <2> QED
    BY <2>6, <2>7
<1>6. CASE relay' = relay /\ ~SendEvent(c) /\ ~TakeEvent(c)
  <2>1. pc'[c] \in Waiting \cup {"evict"} => pc[c] \in Waiting \cup {"evict"}
    BY LoopOwn DEF Install, Waiting
  <2>2. \/ ch'[c] = ch[c] \/ ch'[c] = <<>>
        \/ ch'[c] = Append(ch[c], Len(published) + 1)
    <3>1. CASE Submit(c)
      <4>1. UNCHANGED ch \/ Hears(c)
        BY <3>1, Publishers DEF Submit, Hears, TypeInv
      <4> QED
        BY <4>1, HearsFacts DEF TypeInv
    <3>2. CASE ~Submit(c)
      <4>1. UNCHANGED ch \/ Cancel(c)
        BY <1>6, <3>2 DEF Acts, Handler, Relay, Dial, Break, Write, SubmitMessage, AckMessage,
             Attach, ReadReplay, SendReplay, ReadRange, Register, Install, StartRelay,
             AppendAck, Answer, Ack, ReadEnds, AppendEvent, SendEvent, RelayEnds, liveVars
      <4> QED
        BY <1>0, <4>1 DEF Cancel
    <3> QED
      BY <3>1, <3>2
  <2>3. \/ seen'[c] = NotSeen
        \/ /\ seen'[c].live = seen[c].live
           /\ seen'[c].replayed = seen[c].replayed \/ relay[c].at = "off"
    <3>1. CASE SendReplay(c) /\ ~closed[c]
      <4>1. pc[c] = "hello" /\ seen'[c].live = seen[c].live
        BY <1>0, <3>1 DEF SendReplay, Histories
      <4> QED
        BY <4>1 DEF RelayOK, Waiting, Off
    <3>2. CASE ReadRange(c)
      BY <1>0, <3>2 DEF ReadRange, Histories
    <3>3. CASE Submit(c) /\ Hears(c)
      <4>1. seen'[c] = seen[c] \/ seen'[c] = [seen[c] EXCEPT !.overflow = TRUE]
        BY <3>3, HearsFacts DEF TypeInv
      <4> QED
        BY <1>0, <4>1 DEF Histories
    <3> QED
      BY <1>6, <3>1, <3>2, <3>3, SeenOwn DEF TypeInv
  <2> QED
    BY <1>6, <2>1, <2>2, <2>3, RelayKept
<1>7. \/ relay' = relay \/ TakeEvent(c) \/ AppendEvent(c) \/ SendEvent(c) \/ RelayEnds(c)
      \/ StartRelay(c)
  BY DEF Acts, Handler, Relay, Dial, Break, Write, SubmitMessage, AckMessage,
         Attach, ReadReplay, SendReplay, ReadRange, Register, Install,
         Submit, AppendAck, Answer, Ack, ReadEnds, liveVars
<1> QED
  BY <1>1, <1>2, <1>3, <1>4, <1>5, <1>6, <1>7

\* So all relays do.
LEMMA RelaysNext ==
  ASSUME TypeInv, Registry, Replays, RelaysOK, [Next]_vars
  PROVE  RelaysOK'
<1> SUFFICES ASSUME NEW c \in Conns PROVE RelayOK(c)'
  BY DEF RelaysOK
<1>0. ReplayOK(c) /\ RelayOK(c) /\ seen[c] \in Histories
  BY DEF Replays, RelaysOK, TypeInv, TypeOK, ConnsOK
<1>1. CASE Same(c) /\ (Quiet(c) \/ Evicted(c))
  BY <1>0, <1>1, RelayKept DEF Same, Quiet, Evicted
<1>2. CASE Same(c) /\ Hears(c)
  <2>1. /\ seen'[c] = seen[c] \/ seen'[c] = [seen[c] EXCEPT !.overflow = TRUE]
        /\ ch'[c] = ch[c] \/ ch'[c] = Append(ch[c], Len(published) + 1)
    BY <1>2, HearsFacts DEF TypeInv
  <2>2. seen'[c].live = seen[c].live /\ seen'[c].replayed = seen[c].replayed
    BY <1>0, <2>1 DEF Histories
  <2> QED
    BY <1>0, <1>2, <2>1, <2>2, RelayKept DEF Same
<1> QED
  BY <1>0, <1>1, <1>2, StepOf, RelayOwn DEF TypeInv

\* An event replayed to a connection is never sent to it live as well, and live
\* events come once and in order, though the replay and the relay are filled by
\* two reads of the mailbox and a subscription older than both.
THEOREM LiveAfterReplayCorrect == Spec => []LiveAfterReplay
<1>1. TypeInv /\ RelaysOK => LiveAfterReplay
  <2> SUFFICES ASSUME TypeInv, RelaysOK, NEW c \in Conns
               PROVE  /\ \A i \in DOMAIN seen[c].live : seen[c].live[i] \notin seen[c].replayed
                      /\ Increasing(seen[c].live)
    BY DEF LiveAfterReplay, Increasing
  <2>1. RelayOK(c) /\ published \in Seq(Events) /\ relay[c] \in Relays
    BY DEF RelaysOK, TypeInv, TypeOK, DocOK, ConnsOK
  <2>2. \A n \in DOMAIN published : published[n].version \in Nat
    <3>1. \A n \in DOMAIN published : published[n] \in Events
      BY <2>1
    <3> QED
      BY <3>1 DEF Events
  <2>3. relay[c].skip \in Nat
    BY <2>1 DEF Relays
  <2>4. CASE relay[c].at = "off"
    BY <2>1, <2>4 DEF RelayOK
  <2>5. CASE relay[c].at # "off"
    <3>1. ASSUME NEW n \in DOMAIN published, n \in seen[c].replayed
          PROVE  published[n].version <= relay[c].skip
      BY <2>1, <2>5, <3>1 DEF RelayOK, NoEvent
    <3> QED
      BY <2>1, <2>2, <2>3, <3>1 DEF RelayOK
  <2> QED
    BY <2>4, <2>5
<1> QED
  BY <1>1, TypeInit, TypeNext, RegistryInit, RegistryNext, ReplaysInit, ReplaysNext,
     RelaysInit, RelaysNext, PTL DEF Spec

-----------------------------------------------------------------------------
(* No gap between the replay and the relay *)

Subscriptions == \A c \in Conns : SubscribedOK(c)

\* A connection that has been subscribed is, until its relay ends.
LEMMA SubscriptionsNext ==
  ASSUME TypeInv, Registry, RelaysOK, Subscriptions, [Next]_vars
  PROVE  Subscriptions'
<1> SUFFICES ASSUME NEW c \in Conns PROVE SubscribedOK(c)'
  BY DEF Subscriptions
<1>0. /\ pc \in [Conns -> Labels] /\ relay \in [Conns -> Relays] /\ sub \in [Conns -> BOOLEAN]
      /\ ch \in [Conns -> Seq(Nat)] /\ RelayOK(c) /\ SubscribedOK(c)
  BY DEF TypeInv, TypeOK, ConnsOK, RelaysOK, Subscriptions
<1> DEFINE Ok == SubscribedOK(c)'
<1>1. ASSUME Same(c), Quiet(c) \/ Evicted(c) \/ Hears(c) PROVE Ok
  <2>1. ch'[c] = ch[c] \/ (sub[c] /\ Hears(c))
    BY <1>1, HearsFacts DEF TypeInv, Quiet, Evicted
  <2> QED
    BY <1>0, <1>1, <2>1 DEF Same, SubscribedOK, InHand
<1>2. ASSUME UNCHANGED <<sub, ch, relay>>, pc'[c] \in Listening => pc[c] \in Listening PROVE Ok
  BY <1>0, <1>2 DEF SubscribedOK, InHand
<1>3. ASSUME Cancel(c), pc'[c] \notin Listening,
             relay'[c] = Off \/ (relay'[c] = relay[c] /\ relay[c].at = "off") PROVE Ok
  BY <1>0, <1>3 DEF Cancel, SubscribedOK, InHand, Off
<1>4. CASE Attach(c)
  <2>1. CASE Fail(c) /\ UNCHANGED sub
    BY <1>0, <1>2, <1>4, <2>1 DEF Attach, Fail, Goto, Listening
  <2>2. CASE sub' = [sub EXCEPT ![c] = TRUE]
    BY <1>0, <1>4, <2>2 DEF Attach, SubscribedOK, InHand
  <2> QED
    BY <1>4, <2>1, <2>2 DEF Attach
<1>5. CASE SendReplay(c) \/ Register(c)
  <2>1. relay[c].at = "off" /\ pc[c] \in Listening /\ relay' = relay
    BY <1>0, <1>5 DEF SendReplay, Register, RelayOK, Waiting, Off, Listening
  <2>2. (Fail(c) /\ Cancel(c)) \/ UNCHANGED <<sub, ch>>
    BY <1>5 DEF SendReplay, Register
  <2>3. CASE Fail(c) /\ Cancel(c)
    BY <1>0, <1>3, <2>1, <2>3 DEF Fail, Goto, Listening
  <2> QED
    BY <1>2, <2>1, <2>2, <2>3
<1>6. CASE StartRelay(c)
  <2>1. /\ relay'[c] = Off \/ relay'[c] = Idle(job[c].skip)
        /\ sub[c] /\ UNCHANGED <<sub, ch>>
    BY <1>0, <1>6 DEF StartRelay, SubscribedOK, Listening
  <2>2. relay'[c].event = 0 /\ relay'[c].at \in {"off", "idle"}
    <3>1. \A v : Idle(v).event = 0 /\ Idle(v).at = "idle"
      BY DEF Idle, Off
    <3>2. Off.event = 0 /\ Off.at = "off"
      BY DEF Off
    <3> QED
      BY <2>1, <3>1, <3>2
  <2> QED
    BY <2>1, <2>2 DEF SubscribedOK, InHand
<1>7. CASE TakeEvent(c)
  <2>1. /\ sub[c] /\ UNCHANGED sub /\ relay[c].at = "idle" /\ relay[c].event = 0
        /\ relay' = relay \/ relay'[c] = [[relay[c] EXCEPT !.at = "append"] EXCEPT !.event = Head(ch[c])]
    BY <1>0, <1>7 DEF TakeEvent, SubscribedOK, InHand
  <2>2. (relay'[c].at = "idle" /\ relay'[c].event = 0) \/ relay'[c].at = "append"
    BY <1>0, <2>1 DEF Relays
  <2> QED
    BY <2>1, <2>2 DEF SubscribedOK, InHand
<1>8. CASE AppendEvent(c)
  <2>1. /\ relay[c].at = "append" /\ sub[c] /\ UNCHANGED <<sub, ch>>
        /\ relay'[c] = [[relay[c] EXCEPT !.at = "send"] EXCEPT !.id = Len(box) + 1]
    BY <1>0, <1>8 DEF AppendEvent, Envelope, SubscribedOK
  <2>2. relay'[c].at = "send"
    BY <1>0, <2>1 DEF Relays
  <2> QED
    BY <2>1, <2>2 DEF SubscribedOK, InHand
<1>9. CASE SendEvent(c)
  <2>1. relay[c].at = "send" /\ sub[c] /\ pc' = pc /\ pc[c] \notin Listening
    BY <1>0, <1>9 DEF SendEvent, SubscribedOK, handlerVars, RelayOK, Waiting, Off, Listening
  <2>2. CASE closed[c]
    BY <1>0, <1>3, <1>9, <2>1, <2>2 DEF SendEvent
  <2>3. CASE ~closed[c]
    <3>1. relay'[c] = Idle(relay[c].skip) /\ UNCHANGED <<sub, ch>>
      BY <1>0, <1>9, <2>3 DEF SendEvent
    <3> QED
      BY <2>1, <3>1 DEF SubscribedOK, InHand, Idle, Off
  <2> QED
    BY <2>2, <2>3
<1>10. CASE RelayEnds(c)
  <2>1. relay[c].at = "idle" /\ pc' = pc /\ relay'[c] = Off /\ Cancel(c)
    BY <1>0, <1>10 DEF RelayEnds, handlerVars
  <2>2. pc[c] \notin Listening
    BY <1>0, <2>1 DEF RelayOK, Waiting, Off, Listening
  <2> QED
    BY <1>3, <2>1, <2>2
<1>11. CASE Submit(c)
  <2>1. pc'[c] \notin Listening /\ UNCHANGED <<sub, relay>>
    BY <1>0, <1>11 DEF Submit, Refused, Emptied, Committed, Acknowledges, Goto, Listening
  <2>2. ch' = ch \/ Hears(c)
    BY <1>11, Publishers DEF Submit, Hears, TypeInv
  <2>3. ch'[c] = ch[c] \/ sub[c]
    BY <2>2, HearsFacts DEF TypeInv
  <2> QED
    BY <1>0, <2>1, <2>3 DEF SubscribedOK, InHand
<1>12. ASSUME Dial(c) \/ ReadReplay(c) \/ ReadRange(c) \/ Install(c) \/ AppendAck(c) \/ Answer(c)
              \/ Ack(c) \/ ReadEnds(c) \/ SubmitMessage(c) \/ AckMessage(c)
       PROVE  Ok
  <2>1. UNCHANGED <<sub, ch, relay>>
    BY <1>12 DEF Dial, ReadReplay, ReadRange, Install, AppendAck, Answer, Ack, ReadEnds,
                 SubmitMessage, AckMessage, liveVars
  <2>2. pc'[c] \in Listening => pc[c] \in Listening
    BY <1>0, <1>12 DEF Dial, ReadReplay, ReadRange, Install, AppendAck, Answer, Ack, ReadEnds,
                 SubmitMessage, AckMessage, Serve, Fail, Return, Goto, Listening
  <2> QED
    BY <1>2, <2>1, <2>2
<1>13. ASSUME Break(c) \/ Write(c) PROVE Ok
  BY <1>2, <1>13 DEF Break, Write, handlerVars, liveVars
<1> QED
  BY <1>1, <1>4, <1>5, <1>6, <1>7, <1>8, <1>9, <1>10, <1>11, <1>12, <1>13, StepOf
     DEF Acts, Handler, Relay, TypeInv

\* Nobody is subscribed at the start.
LEMMA SubscriptionsInit == Init => Subscriptions
  BY DEF Init, Subscriptions, SubscribedOK, InHand, Off, Listening

Kept == \A c \in Conns : KeptOK(c)

\* An event reaches a connection: it was replayed or sent, it is in the relay's
\* hand or in the channel.
Reaches(c, m) ==
  \/ m \in seen[c].replayed \/ m = relay[c].event
  \/ m \in Elems(seen[c].live) \/ m \in Elems(ch[c])
Gapless(c, n) == \A m \in n + 1..Len(published) : published[m].own \/ Reaches(c, m)

\* Nothing is missed when everything reaches it.
LEMMA MissedIs ==
  ASSUME TypeOK, NEW c \in Conns, NEW n \in Nat
  PROVE  Missed(c, n) = {} <=> Gapless(c, n)
<1>1. \A m : m \in Elems(seen[c].live) <=> \E i \in DOMAIN seen[c].live : m = seen[c].live[i]
  BY DEF Elems
<1>2. \A m : m \in Elems(ch[c]) <=> \E i \in DOMAIN ch[c] : m = ch[c][i]
  BY DEF Elems
<1>3. \A m \in n + 1..Len(published) : m \in Missed(c, n) <=> ~(published[m].own \/ Reaches(c, m))
  BY <1>1, <1>2 DEF Missed, Reaches
<1>4. Missed(c, n) \subseteq n + 1..Len(published)
  BY DEF Missed
<1> QED
  BY <1>3, <1>4 DEF Gapless

\* The condition under which nothing may be missed, and that nothing is.
Holds(c) == Deletions = {} /\ ~closed[c] /\ ~seen[c].overflow /\ Ranged(c)
Complete(c) == SkipOf(c) <= seen[c].rangedAt /\ Gapless(c, seen[c].rangedAt)

\* Together they are what is kept ...
LEMMA KeptIs ==
  ASSUME TypeOK, NEW c \in Conns
  PROVE  KeptOK(c) <=> (Holds(c) => Complete(c))
<1>1. seen[c].rangedAt \in Nat
  BY DEF TypeOK, ConnsOK, Histories
<1> QED
  BY <1>1, MissedIs DEF KeptOK, Holds, Complete

\* ... in the next state as in this one.
LEMMA KeptIsNext ==
  ASSUME NEW c \in Conns
  PROVE  (TypeOK => (KeptOK(c) <=> (Holds(c) => Complete(c))))'
<1>1. TypeOK => (KeptOK(c) <=> (Holds(c) => Complete(c)))
  BY KeptIs
<1> QED
  BY <1>1, PTL

\* Nothing that reached a connection is lost while its relay does not move, and
\* what is published reaches it.
LEMMA KeptStays ==
  ASSUME TypeInv, [Next]_vars, NEW c \in Conns, SubscribedOK(c), KeptOK(c), Ranged(c),
         relay'[c] = relay[c], relay[c].at = "off" => job'[c].skip = job[c].skip,
         Hears(c) \/ (UNCHANGED published /\ seen'[c] = seen[c] /\ ch'[c] = ch[c]),
         closed'[c] = closed[c], Holds(c)'
  PROVE  Complete(c)'
<1>0. /\ Len(published) \in Nat /\ DOMAIN published = 1..Len(published)
      /\ Deletions = {} /\ sub[c] /\ ch[c] \in Seq(Nat)
      /\ seen[c] \in Histories /\ seen[c].rangedAt \in Nat
  <2>1. Deletions = {}
    BY DocNext DEF Holds, Deletions, TypeInv
  <2> QED
    BY <2>1 DEF Ranged, SubscribedOK, Listening, TypeInv, TypeOK, DocOK, ConnsOK, Histories
<1>1. CASE UNCHANGED published /\ seen'[c] = seen[c] /\ ch'[c] = ch[c]
  <2>1. Complete(c)
    BY <1>0, <1>1, KeptIs DEF Holds, TypeInv
  <2> QED
    BY <1>1, <2>1 DEF Complete, SkipOf, Gapless, Reaches
<1>2. CASE Hears(c)
  <2>0. PICK n \in Nat : n = Len(published) + 1
    BY <1>0
  <2>1. ch'[c] = Append(ch[c], n) /\ seen'[c] = seen[c]
    <3>1. \/ ch'[c] = Append(ch[c], n) /\ seen'[c] = seen[c]
          \/ seen'[c] = [seen[c] EXCEPT !.overflow = TRUE]
      BY <1>0, <1>2, <2>0, HearsFacts DEF TypeInv, Holds
    <3>2. seen'[c] # [seen[c] EXCEPT !.overflow = TRUE]
      BY <1>0 DEF Holds, Histories
    <3> QED
      BY <3>1, <3>2
  <2>2. Complete(c)
    BY <1>0, <2>1, KeptIs DEF Holds, TypeInv
  <2>3. /\ Len(published') = n
        /\ \A m \in 1..Len(published) : published'[m] = published[m]
    <3>1. Len(published') = Len(published) + 1
      BY <1>2, HearsFacts DEF TypeInv
    <3>2. \A m \in DOMAIN published : published'[m] = published[m]
      BY <1>2, HearsFacts DEF TypeInv
    <3> QED
      BY <1>0, <2>0, <3>1, <3>2
  <2>4. n \in Elems(ch'[c]) /\ Elems(ch[c]) \subseteq Elems(ch'[c])
    <3>1. IsSeq(ch[c])
      BY <1>0, SeqIsSeq
    <3> QED
      BY <2>1, <3>1, ElemsAppend
  <2>5. \A m : Reaches(c, m) => Reaches(c, m)'
    BY <2>1, <2>4 DEF Reaches
  <2>6. Reaches(c, n)'
    BY <2>4 DEF Reaches
  <2>7. ASSUME NEW m \in seen[c].rangedAt + 1..Len(published')
        PROVE  published'[m].own \/ Reaches(c, m)'
    <3>1. CASE m = n
      BY <2>6, <3>1
    <3>2. CASE m # n
      <4>1. m \in seen[c].rangedAt + 1..Len(published) /\ m \in 1..Len(published)
        BY <1>0, <2>0, <2>3, <3>2
      <4>2. published[m].own \/ Reaches(c, m)
        BY <2>2, <4>1 DEF Complete, Gapless
      <4> QED
        BY <2>3, <2>5, <4>1, <4>2
    <3> QED
      BY <3>1, <3>2
  <2>8. Gapless(c, seen[c].rangedAt)'
    BY <2>1, <2>7 DEF Gapless
  <2>9. SkipOf(c)' = SkipOf(c)
    BY DEF SkipOf
  <2> QED
    BY <2>1, <2>2, <2>8, <2>9 DEF Complete
<1> QED
  BY <1>1, <1>2

\* The relay hands on what it took (startLiveRelay).
LEMMA KeptRelay ==
  ASSUME TypeInv, [Next]_vars, NEW c \in Conns, RelayOK(c), SubscribedOK(c), KeptOK(c),
         TakeEvent(c) \/ AppendEvent(c) \/ SendEvent(c), Holds(c)', ~closed[c]
  PROVE  Complete(c)'
<1>0. /\ UNCHANGED published /\ relay[c].at # "off" /\ relay \in [Conns -> Relays]
      /\ seen \in [Conns -> Histories] /\ ch \in [Conns -> Seq(Nat)] /\ Off.at = "off"
      /\ seen[c].rangedAt \in Nat /\ relay[c].skip \in Nat
      /\ published \in Seq(Events) /\ DOMAIN published = 1..Len(published) /\ Len(published) \in Nat
      /\ seen[c].live \in Seq(Nat)
  BY DEF TakeEvent, AppendEvent, SendEvent, TypeInv, TypeOK, DocOK, ConnsOK, docVars, Off,
         Histories, Relays
<1>1. Complete(c)
  <2>1. Deletions = {}
    BY DocNext DEF Holds, Deletions, TypeInv
  <2>2. ~seen[c].overflow
    <3>1. seen' = seen \/ seen' = [seen EXCEPT ![c].live = Append(@, relay[c].event)]
      BY DEF TakeEvent, AppendEvent, SendEvent, openVars, closeVars
    <3> QED
      BY <1>0, <3>1 DEF Holds, Histories
  <2> QED
    BY <1>0, <2>1, <2>2, KeptIs DEF Holds, Ranged, TypeInv
<1>2. relay[c].skip <= seen[c].rangedAt /\ Gapless(c, seen[c].rangedAt)
  BY <1>0, <1>1 DEF Complete, SkipOf
<1>3. ASSUME relay'[c].at # "off", relay'[c].skip = relay[c].skip,
             seen'[c].rangedAt = seen[c].rangedAt,
             \A m \in seen[c].rangedAt + 1..Len(published) :
               Reaches(c, m) => published[m].own \/ Reaches(c, m)'
      PROVE  Complete(c)'
  BY <1>0, <1>2, <1>3 DEF Complete, SkipOf, Gapless
<1>4. CASE AppendEvent(c)
  <2>1. /\ UNCHANGED <<seen, ch>>
        /\ relay'[c] = [[relay[c] EXCEPT !.at = "send"] EXCEPT !.id = Len(box) + 1]
    BY <1>0, <1>4 DEF AppendEvent, Envelope, openVars, closeVars
  <2>2. relay'[c].at = "send" /\ relay'[c].skip = relay[c].skip /\ relay'[c].event = relay[c].event
    BY <1>0, <2>1 DEF Relays
  <2> QED
    BY <1>3, <2>1, <2>2 DEF Reaches
<1>5. CASE SendEvent(c)
  <2>1. /\ seen' = [seen EXCEPT ![c].live = Append(seen[c].live, relay[c].event)]
        /\ relay'[c] = Idle(relay[c].skip) /\ UNCHANGED ch
    BY <1>0, <1>5 DEF SendEvent
  <2>2. relay'[c].at = "idle" /\ relay'[c].skip = relay[c].skip
    BY <2>1 DEF Idle, Off
  <2>3. /\ seen'[c].rangedAt = seen[c].rangedAt /\ seen'[c].replayed = seen[c].replayed
        /\ seen'[c].live = Append(seen[c].live, relay[c].event)
    BY <1>0, <2>1 DEF Histories
  <2>4. Elems(seen'[c].live) = Elems(seen[c].live) \cup {relay[c].event}
    <3>1. IsSeq(seen[c].live)
      BY <1>0, SeqIsSeq
    <3> QED
      BY <2>3, <3>1, ElemsAppend
  <2>5. \A m : Reaches(c, m) => Reaches(c, m)'
    BY <2>1, <2>3, <2>4 DEF Reaches
  <2> QED
    BY <1>3, <2>2, <2>3, <2>5
<1>6. CASE TakeEvent(c)
  <2>1. /\ UNCHANGED seen /\ relay[c].at = "idle" /\ ch[c] \in Seq(Nat) /\ ch[c] # <<>>
        /\ ch'[c] = Tail(ch[c]) /\ relay[c].event = 0
    BY <1>0, <1>6 DEF TakeEvent, openVars, closeVars, SubscribedOK, InHand
  <2>2. PICK n : n = Head(ch[c])
    OBVIOUS
  <2>3. \A m \in Elems(ch[c]) : m = n \/ m \in Elems(ch'[c])
    <3>1. /\ DOMAIN ch[c] = 1..Len(ch[c]) /\ Len(ch[c]) \in Nat /\ n = ch[c][1]
          /\ DOMAIN Tail(ch[c]) = 1..(Len(ch[c]) - 1)
          /\ \A i \in 1..(Len(ch[c]) - 1) : Tail(ch[c])[i] = ch[c][i + 1]
      BY <2>1, <2>2
    <3>2. ASSUME NEW i \in DOMAIN ch[c], i # 1 PROVE ch[c][i] \in Elems(Tail(ch[c]))
      <4>1. i - 1 \in 1..(Len(ch[c]) - 1) /\ (i - 1) + 1 = i
        BY <3>1, <3>2
      <4>2. Tail(ch[c])[i - 1] = ch[c][i]
        BY <3>1, <4>1
      <4>3. i - 1 \in DOMAIN Tail(ch[c])
        BY <3>1, <4>1
      <4> QED
        BY <4>2, <4>3 DEF Elems
    <3> QED
      BY <2>1, <3>1, <3>2 DEF Elems
  <2>4. CASE relay' = relay /\ Skips(c, n)
    <3>1. ASSUME NEW m \in seen[c].rangedAt + 1..Len(published), Reaches(c, m)
          PROVE  published[m].own \/ Reaches(c, m)'
      <4>1. CASE m = n
        <5>1. m \in DOMAIN published /\ published[m].version = m /\ m \in Nat
          BY <1>0 DEF TypeInv, VersionsOK, Holds, Deletions
        <5>2. ~(published[m].version <= relay[c].skip)
          BY <1>0, <1>2, <5>1
        <5> QED
          BY <2>4, <4>1, <5>2 DEF Skips
      <4>2. CASE m # n
        BY <2>1, <2>3, <2>4, <3>1, <4>2 DEF Reaches
      <4> QED
        BY <4>1, <4>2
    <3> QED
      BY <1>0, <1>3, <2>1, <2>4, <3>1
  <2>5. CASE relay'[c] = [[relay[c] EXCEPT !.at = "append"] EXCEPT !.event = n]
    <3>1. relay'[c].at = "append" /\ relay'[c].event = n /\ relay'[c].skip = relay[c].skip
      BY <1>0, <2>5 DEF Relays
    <3>2. ASSUME NEW m \in seen[c].rangedAt + 1..Len(published), Reaches(c, m)
          PROVE  Reaches(c, m)'
      <4>1. m # 0
        BY <1>0
      <4> QED
        BY <2>1, <2>3, <3>1, <3>2, <4>1 DEF Reaches
    <3> QED
      BY <1>3, <2>1, <3>1, <3>2
  <2> QED
    BY <1>0, <1>6, <2>2, <2>4, <2>5 DEF TakeEvent
<1> QED
  BY <1>4, <1>5, <1>6

\* The second read of the mailbox starts the account, and the start of the relay
\* continues it.
LEMMA KeptOwn ==
  ASSUME TypeInv, Registry, [Next]_vars, NEW c \in Conns, RelayOK(c), SubscribedOK(c),
         KeptOK(c), Acts(c), Holds(c)'
  PROVE  Complete(c)'
<1>0. /\ pc \in [Conns -> Labels] /\ job \in [Conns -> Jobs] /\ relay \in [Conns -> Relays]
      /\ seen \in [Conns -> Histories] /\ closed \in [Conns -> BOOLEAN]
      /\ Len(published) \in Nat /\ ~closed'[c] /\ ~closed[c] /\ closed'[c] = closed[c]
  <2>1. closed \in [Conns -> BOOLEAN] /\ closed' \in [Conns -> BOOLEAN]
    BY TypeNext DEF TypeInv, TypeOK, ConnsOK
  <2>2. ~closed'[c] /\ ~closed[c]
    BY ClosedStays DEF Holds
  <2>3. closed'[c] = closed[c]
    BY <2>1, <2>2
  <2> QED
    BY <2>1, <2>2, <2>3 DEF TypeInv, TypeOK, DocOK, ConnsOK
<1>1. CASE TakeEvent(c) \/ AppendEvent(c) \/ SendEvent(c)
  BY <1>0, <1>1, KeptRelay
<1>2. CASE ReadRange(c)
  <2>1. /\ pc[c] = "range" /\ UNCHANGED <<published, relay>>
        /\ job'[c].skip = SkipThrough(c) /\ seen'[c].rangedAt = Len(published)
    BY <1>0, <1>2 DEF ReadRange, NoJob, docVars, liveVars, Histories
  <2>2. relay'[c].at = "off"
    BY <2>1 DEF RelayOK, Waiting, Off
  <2>3. SkipOf(c)' <= seen'[c].rangedAt
    BY <1>0, <2>1, <2>2, SkipIs DEF SkipOf
  <2>4. seen'[c].rangedAt + 1..Len(published') = {}
    BY <1>0, <2>1
  <2> QED
    BY <2>3, <2>4 DEF Complete, Gapless
<1>3. CASE StartRelay(c)
  <2>1. /\ pc[c] = "evict" /\ UNCHANGED <<published, ch>> /\ relay[c] = Off
        /\ relay'[c] = Idle(job[c].skip)
    BY <1>0, <1>3 DEF StartRelay, docVars, RelayOK
  <2>2. seen'[c] = seen[c]
    <3>1. ~SendReplay(c) /\ ~ReadRange(c) /\ ~Submit(c) /\ ~SendEvent(c)
      BY <2>1 DEF SendReplay, ReadRange, Submit, SendEvent, Off
    <3> QED
      BY <1>0, <3>1, SeenOwn DEF TypeInv
  <2>3. /\ relay[c].at = "off" /\ relay[c].event = 0 /\ relay'[c].at = "idle"
        /\ relay'[c].event = 0 /\ relay'[c].skip = job[c].skip
    BY <2>1 DEF Idle, Off
  <2>4. Complete(c)
    <3>1. Holds(c)
      BY <1>0, <2>1, <2>2, DocNext DEF Holds, Ranged, Deletions, TypeInv
    <3> QED
      BY <3>1, KeptIs DEF TypeInv
  <2> QED
    BY <2>1, <2>2, <2>3, <2>4 DEF Complete, SkipOf, Gapless, Reaches
<1>4. CASE RelayEnds(c)
  BY <1>0, <1>4 DEF RelayEnds
<1>5. CASE /\ ~TakeEvent(c) /\ ~AppendEvent(c) /\ ~SendEvent(c) /\ ~ReadRange(c)
           /\ ~StartRelay(c) /\ ~RelayEnds(c)
  <2>1. relay' = relay
    BY <1>5 DEF Acts, Handler, Relay, Dial, Break, Write, SubmitMessage, AckMessage,
         Attach, ReadReplay, SendReplay, Register, Install,
         Submit, AppendAck, Answer, Ack, ReadEnds, liveVars
  <2>2. Ranged(c) /\ ~SendReplay(c) /\ (relay[c].at = "off" => job'[c].skip = job[c].skip)
    <3>1. CASE relay[c].at # "off"
      BY <3>1 DEF Ranged, SendReplay, RelayOK, Waiting, Off
    <3>2. CASE relay[c].at = "off"
      <4>1. pc'[c] \in {"register", "install", "evict"}
        BY <2>1, <3>2 DEF Holds, Ranged
      <4>2. \/ pc'[c] = pc[c] /\ job'[c] = job[c]
            \/ pc[c] \in {"register", "install"} /\ job'[c].skip = job[c].skip
        <5>1. Register(c) \/ Install(c) \/ UNCHANGED handlerVars
          BY <1>0, <1>5, <4>1 DEF Acts, Handler, Relay, Dial, Break, Write, SubmitMessage,
               AckMessage, Serve, Attach, ReadReplay, SendReplay, Submit, Refused, Emptied,
               Committed, Acknowledges, AppendAck, Answer, Ack, ReadEnds, Fail, Return, Goto
        <5> QED
          BY <1>0, <4>1, <5>1 DEF Register, Install, Fail, Goto, Jobs, handlerVars
      <4> QED
        BY <3>2, <4>1, <4>2 DEF Ranged, SendReplay
    <3> QED
      BY <3>1, <3>2
  <2>3. Hears(c) \/ (UNCHANGED published /\ seen'[c] = seen[c] /\ ch'[c] = ch[c])
    <3>1. CASE Submit(c)
      <4>1. UNCHANGED <<docVars, ch, seen>> \/ Hears(c)
        BY <3>1, Publishers DEF Submit, Hears, TypeInv
      <4> QED
        BY <4>1 DEF docVars
    <3>2. CASE ~Submit(c)
      <4>1. seen'[c] = seen[c]
        BY <1>0, <1>5, <2>2, <3>2, SeenOwn DEF TypeInv
      <4>2. UNCHANGED published /\ UNCHANGED ch
        BY <1>0, <1>5, <2>2, <3>2 DEF Acts, Handler, Relay, Dial, Break, Write, SubmitMessage,
             AckMessage, Attach, ReadReplay, Register, Install,
             AppendAck, Answer, Ack, ReadEnds, docVars, liveVars
      <4> QED
        BY <4>1, <4>2
    <3> QED
      BY <3>1, <3>2
  <2> QED
    BY <1>0, <2>1, <2>2, <2>3, KeptStays
<1> QED
  BY <1>1, <1>2, <1>3, <1>4, <1>5

\* So every connection keeps what it is owed.
LEMMA KeptNext ==
  ASSUME TypeInv, Registry, RelaysOK, Subscriptions, Kept, [Next]_vars
  PROVE  Kept'
<1> SUFFICES ASSUME NEW c \in Conns, Holds(c)' PROVE Complete(c)'
  BY KeptIsNext, TypeNext DEF Kept, TypeInv
<1>0. RelayOK(c) /\ SubscribedOK(c) /\ KeptOK(c)
  BY DEF RelaysOK, Subscriptions, Kept
<1>1. CASE Same(c) /\ (Quiet(c) \/ Evicted(c) \/ Hears(c))
  <2>1. /\ Hears(c) \/ (UNCHANGED published /\ seen'[c] = seen[c] /\ ch'[c] = ch[c])
        /\ closed'[c] = closed[c] /\ Ranged(c)
    BY <1>1, HearsFacts DEF Same, Quiet, Evicted, Holds, Ranged, TypeInv
  <2> QED
    BY <1>0, <1>1, <2>1, KeptStays DEF Same
<1> QED
  BY <1>0, <1>1, StepOf, KeptOwn DEF TypeInv

\* There is nothing to miss at the start.
LEMMA KeptInit == Init => Kept
  BY DEF Init, Kept, KeptOK, Ranged, Off

\* While a connection is open and its subscription has not overflowed, no event
\* falls between its replay and its relay: what is published from the second
\* read of the mailbox on is sent to it or on its way.
THEOREM AttachedMissesNothingCorrect == Spec => []AttachedMissesNothing
<1>1. Kept => AttachedMissesNothing
  BY DEF Kept, KeptOK, Ranged, AttachedMissesNothing, Relaying
<1> QED
  BY <1>1, TypeInit, TypeNext, RegistryInit, RegistryNext, ReplaysInit, ReplaysNext,
     RelaysInit, RelaysNext, SubscriptionsInit, SubscriptionsNext, KeptInit, KeptNext,
     PTL DEF Spec

-----------------------------------------------------------------------------
(* The session's own submissions *)

\* A handler comes to the point where it acknowledges by a submission, and leaves
\* it by acknowledging.
LEMMA EnvelopeMoves ==
  ASSUME TypeInv, [Next]_vars, NEW c \in Conns, pc'[c] = "envelope"
  PROVE  (pc[c] = "envelope" /\ job'[c] = job[c] /\ ~AppendAck(c)) \/ Submit(c)
<1>0. pc \in [Conns -> Labels]
  BY DEF TypeInv, TypeOK, ConnsOK
<1>1. CASE Same(c) /\ ~Acts(c)
  BY <1>1 DEF Same, Acts, Handler
<1>2. CASE Acts(c) /\ ~Submit(c)
  <2>1. UNCHANGED handlerVars /\ ~AppendAck(c)
    BY <1>0, <1>2 DEF Acts, Handler, Relay, Dial, Break, Write, SubmitMessage, AckMessage, Serve,
         Attach, ReadReplay, SendReplay, ReadRange, Register, Install, StartRelay,
         AppendAck, Answer, Ack, ReadEnds, TakeEvent, AppendEvent, SendEvent, RelayEnds,
         Fail, Return, Goto, handlerVars
  <2> QED
    BY <2>1 DEF handlerVars
<1> QED
  BY <1>1, <1>2, StepOf DEF TypeInv

\* What a submission publishes is acknowledged by no envelope yet.
LEMMA SubmitNew ==
  ASSUME TypeInv, [Next]_vars, NEW c \in Conns, Submit(c), Acknowledging(c)'
  PROVE  /\ UNCHANGED box /\ job'[c].item = Len(published) + 1
         /\ published'[Len(published) + 1].own
         /\ Len(published) + 1 \notin DOMAIN published
         /\ \A d \in Conns : d # c => pc'[d] = pc[d] /\ job'[d] = job[d]
<1>0. /\ pc \in [Conns -> Labels] /\ job \in [Conns -> Jobs] /\ published \in Seq(Events)
      /\ pc'[c] = "envelope" /\ job'[c].item # NoEvent
  BY DEF TypeInv, TypeOK, ConnsOK, DocOK, Acknowledging
<1>1. ~Refused(c)
  BY <1>0 DEF Refused, Goto
<1>2. ~Emptied(c)
  BY <1>0 DEF Emptied, Acknowledges, Jobs
<1>3. Committed(c) /\ UNCHANGED box
  BY <1>1, <1>2 DEF Submit, boxVars
<1> DEFINE e == [type |-> "op", version |-> version + 1, own |-> TRUE]
<1>4. /\ Publish(e) /\ version # None /\ Goto(c, "envelope")
      /\ job' = [job EXCEPT ![c].item = Len(published) + 1, ![c].version = version + 1]
  BY <1>3 DEF Committed, Acknowledges
<1>5. e \in Events /\ e.own
  BY <1>4 DEF Events, TypeInv, TypeOK, DocOK
<1> HIDE DEF e
<1>6. published'[Len(published) + 1] = e
  BY <1>4, <1>5, PublishFacts DEF TypeInv
<1>7. job'[c].item = Len(published) + 1
  BY <1>0, <1>4 DEF Jobs
<1>8. Len(published) + 1 \notin DOMAIN published
  BY <1>0
<1>9. \A d \in Conns : d # c => pc'[d] = pc[d] /\ job'[d] = job[d]
  BY <1>0, <1>4 DEF Goto
<1> QED
  BY <1>3, <1>5, <1>6, <1>7, <1>8, <1>9

\* The mailbox grows by an event that is not the session's own, or by the
\* acknowledgement of a submission.
LEMMA BoxMoves ==
  ASSUME TypeInv, RelaysOK, [Next]_vars
  PROVE  \/ UNCHANGED box
         \/ /\ Len(box') = Len(box) + 1 /\ UNCHANGED published
            /\ LET env == box'[Len(box) + 1]
               IN  \/ env.event \in DOMAIN published /\ ~published[env.event].own
                   \/ \E c \in Conns :
                        AppendAck(c) /\ env.kind = "ack" /\ env.event = job[c].item
<1> DEFINE env == box'[Len(box) + 1]
           Ok == \/ UNCHANGED box
                 \/ /\ Len(box') = Len(box) + 1 /\ UNCHANGED published
                    /\ \/ env.event \in DOMAIN published /\ ~published[env.event].own
                       \/ \E c \in Conns :
                            AppendAck(c) /\ env.kind = "ack" /\ env.event = job[c].item
<1>0. box \in Seq(Envelopes)
  BY DEF TypeInv, TypeOK, MailboxOK
<1>1. ASSUME NEW kind, NEW n, NEW v, box' = Append(box, Envelope(kind, n, v))
      PROVE  Len(box') = Len(box) + 1 /\ env.kind = kind /\ env.event = n
  <2> DEFINE new == Envelope(kind, n, v)
  <2>1. new.kind = kind /\ new.event = n /\ box' = Append(box, new)
    BY <1>1 DEF Envelope
  <2> HIDE DEF new
  <2> QED
    BY <1>0, <2>1
<1>2. ASSUME NEW c \in Conns, AppendEvent(c) PROVE Ok
  <2>1. PICK n, v \in Nat : /\ n = relay[c].event /\ n \in DOMAIN published
                            /\ box' = Append(box, Envelope("event", n, v))
    BY <1>2, EnvelopeTells
  <2>2. ~published[n].own /\ UNCHANGED published
    BY <1>2, <2>1 DEF AppendEvent, RelaysOK, RelayOK, InHand, docVars
  <2> QED
    BY <1>1, <2>1, <2>2
<1>3. ASSUME NEW c \in Conns, AppendAck(c) PROVE Ok
  <2>1. PICK n, v \in Nat : n = job[c].item /\ box' = Append(box, Envelope("ack", n, v))
    BY <1>3, EnvelopeTells
  <2>2. UNCHANGED published
    BY <1>3 DEF AppendAck, docVars
  <2> QED
    BY <1>1, <1>3, <2>1, <2>2
<1>4. ASSUME NEW c \in Conns, Acts(c) PROVE Ok
  <2>1. UNCHANGED box \/ AppendEvent(c) \/ AppendAck(c)
    BY <1>4 DEF Acts, Handler, Relay, Dial, Break, Write, SubmitMessage, AckMessage,
         Attach, ReadReplay, SendReplay, ReadRange, Register, Install, StartRelay,
         Submit, Answer, Ack, ReadEnds, TakeEvent, SendEvent, RelayEnds, boxVars
  <2> QED
    BY <1>2, <1>3, <2>1
<1> HIDE DEF Ok
<1>5. Ok
  <2>1. Commit \/ DeleteDocument \/ CreateDocument \/ UNCHANGED vars => Ok
    BY DEF Commit, DeleteDocument, CreateDocument, vars, boxVars, Ok
  <2> QED
    BY <1>4, <2>1 DEF Next, Acts
<1> QED
  BY <1>5 DEF Ok

\* A submission is acknowledged once.
LEMMA AckNext == ASSUME TypeInv, RelaysOK, AckOK, [Next]_vars PROVE AckOK'
<1>0. /\ Len(box) \in Nat /\ DOMAIN box = 1..Len(box) /\ NoEvent \notin DOMAIN published
      /\ \A n \in DOMAIN published : n \in DOMAIN published' /\ published'[n] = published[n]
      /\ \A i \in DOMAIN box :
           box[i].event \in {NoEvent} \cup DOMAIN published /\ box'[i] = box[i]
      /\ \A c \in Conns : Acknowledging(c) => job[c].item \in DOMAIN published
      /\ box' \in Seq(Envelopes)
  BY DocNext, BoxNext
     DEF TypeInv, TypeOK, MailboxOK, DocOK, BoxOK, IdsOK, TellsOf, Acknowledging, NoEvent
<1>1. ASSUME NEW c \in Conns, Acknowledging(c)', pc[c] # "envelope" \/ job'[c] # job[c]
      PROVE  /\ published'[job'[c].item].own
             /\ \A i \in DOMAIN box' : box'[i].event # job'[c].item
             /\ \A d \in Conns : Acknowledging(d)' /\ job'[d].item = job'[c].item => d = c
  <2>1. Submit(c)
    BY <1>1, EnvelopeMoves DEF Acknowledging
  <2>2. /\ UNCHANGED box /\ job'[c].item = Len(published) + 1
        /\ published'[Len(published) + 1].own
        /\ Len(published) + 1 \notin DOMAIN published
        /\ \A d \in Conns : d # c => pc'[d] = pc[d] /\ job'[d] = job[d]
    BY <1>1, <2>1, SubmitNew
  <2>3. Len(published) + 1 # NoEvent
    BY DEF NoEvent, TypeInv, TypeOK, DocOK
  <2> QED
    BY <1>0, <2>2, <2>3 DEF Acknowledging
<1>2. ASSUME NEW c \in Conns, Acknowledging(c)', pc[c] = "envelope", job'[c] = job[c]
      PROVE  /\ published'[job'[c].item].own
             /\ \A i \in DOMAIN box' : box'[i].event # job'[c].item
             /\ \A d \in Conns : Acknowledging(d)' /\ job'[d].item = job'[c].item => d = c
  <2>0. Acknowledging(c) /\ pc'[c] = "envelope"
    BY <1>2 DEF Acknowledging
  <2>1. /\ published[job[c].item].own /\ \A i \in DOMAIN box : box[i].event # job[c].item
        /\ \A d \in Conns : Acknowledging(d) /\ job[d].item = job[c].item => d = c
        /\ job[c].item \in DOMAIN published
    BY <1>0, <2>0 DEF AckOK
  <2>2. \A i \in DOMAIN box' : box'[i].event # job'[c].item
    <3>1. CASE UNCHANGED box
      BY <1>2, <2>1, <3>1
    <3>2. CASE ~UNCHANGED box
      <4> DEFINE n == box'[Len(box) + 1].event
      <4>1. /\ Len(box') = Len(box) + 1
            /\ \/ ~published[n].own
               \/ \E d \in Conns : AppendAck(d) /\ n = job[d].item
        BY <3>2, BoxMoves
      <4> HIDE DEF n
      <4>2. n # job[c].item
        <5>1. ASSUME NEW d \in Conns, AppendAck(d), n = job[d].item PROVE n # job[c].item
          <6>1. pc[d] = "envelope" /\ pc'[d] # "envelope"
            BY <5>1 DEF AppendAck, Goto, TypeInv, TypeOK, ConnsOK
          <6>2. job[d].item = job[c].item => d = c
            BY <2>0, <2>1, <6>1 DEF Acknowledging
          <6> QED
            BY <2>0, <5>1, <6>1, <6>2
        <5> QED
          BY <2>1, <4>1, <5>1
      <4>3. \A i \in DOMAIN box' : i \in DOMAIN box \/ i = Len(box) + 1
        BY <1>0, <4>1
      <4> QED
        BY <1>0, <1>2, <2>1, <4>2, <4>3 DEF n
    <3> QED
      BY <3>1, <3>2
  <2>3. ASSUME NEW d \in Conns, Acknowledging(d)', job'[d].item = job'[c].item PROVE d = c
    <3>1. CASE pc[d] = "envelope" /\ job'[d] = job[d]
      BY <1>2, <2>1, <2>3, <3>1 DEF Acknowledging
    <3>2. CASE pc[d] # "envelope" \/ job'[d] # job[d]
      BY <1>1, <1>2, <2>3, <3>2
    <3> QED
      BY <3>1, <3>2
  <2> QED
    BY <1>0, <1>2, <2>1, <2>2, <2>3
<1>3. ASSUME NEW i \in DOMAIN box', NEW j \in DOMAIN box',
             box'[i].event # NoEvent, published'[box'[i].event].own
      PROVE  box'[i].kind = "ack" /\ (box'[j].event = box'[i].event => i = j)
  <2>1. ASSUME NEW k \in DOMAIN box, box[k].event # NoEvent, published'[box[k].event].own
        PROVE  /\ box[k].kind = "ack"
               /\ \A l \in DOMAIN box : box[l].event = box[k].event => k = l
    BY <1>0, <2>1 DEF AckOK, OwnSubmissionOnce
  <2>2. CASE UNCHANGED box
    BY <1>3, <2>1, <2>2
  <2>3. CASE ~UNCHANGED box
    <3> DEFINE new == Len(box) + 1
               n == box'[new].event
    <3>1. /\ Len(box') = new
          /\ \/ n \in DOMAIN published /\ ~published[n].own
             \/ \E d \in Conns : AppendAck(d) /\ box'[new].kind = "ack" /\ n = job[d].item
      BY <2>3, BoxMoves
    <3>2. /\ \A k \in DOMAIN box' : k \in DOMAIN box \/ k = new
          /\ new \notin DOMAIN box
      BY <1>0, <3>1
    <3> HIDE DEF new, n
    <3>3. CASE n \in DOMAIN published /\ ~published[n].own
      <4>1. n # NoEvent => ~published'[n].own
        BY <1>0, <3>3
      <4>2. i \in DOMAIN box
        BY <1>3, <3>2, <4>1 DEF n
      <4>3. box'[j].event = box'[i].event => j \in DOMAIN box
        BY <1>3, <3>2, <4>1 DEF n
      <4> QED
        BY <1>0, <1>3, <2>1, <4>2, <4>3
    <3>4. ASSUME NEW d \in Conns, AppendAck(d), box'[new].kind = "ack", n = job[d].item
          PROVE  box'[i].kind = "ack" /\ (box'[j].event = box'[i].event => i = j)
      <4>1. n # NoEvent => \A k \in DOMAIN box : box[k].event # n
        BY <3>4 DEF AckOK, AppendAck, Acknowledging
      <4>2. CASE i \in DOMAIN box
        <5>1. box'[j].event = box'[i].event => j \in DOMAIN box
          BY <1>0, <1>3, <3>2, <4>1, <4>2 DEF n
        <5> QED
          BY <1>0, <1>3, <2>1, <4>2, <5>1
      <4>3. CASE i = new
        BY <1>0, <1>3, <3>2, <3>4, <4>1, <4>3 DEF n
      <4> QED
        BY <3>2, <4>2, <4>3
    <3> QED
      BY <3>1, <3>3, <3>4
  <2> QED
    BY <2>2, <2>3
<1>4. OwnSubmissionOnce'
  BY <1>3 DEF OwnSubmissionOnce
<1> QED
  BY <1>1, <1>2, <1>4 DEF AckOK, Acknowledging

\* The mailbox is empty and no handler is at an acknowledgement at the start.
LEMMA AckInit == Init => AckOK
  BY DEF Init, AckOK, Acknowledging, OwnSubmissionOnce

\* What a submission committed is in the mailbox once, as an acknowledgement and
\* never as an event, however often and on whichever connection it is retried,
\* through deletions too: the relay skips it, and only the handler that committed
\* it appends an envelope for it.
THEOREM OwnSubmissionOnceCorrect == Spec => []OwnSubmissionOnce
<1>1. AckOK => OwnSubmissionOnce
  BY DEF AckOK
<1> QED
  BY <1>1, TypeInit, TypeNext, RegistryInit, RegistryNext, ReplaysInit, ReplaysNext,
     RelaysInit, RelaysNext, AckInit, AckNext, PTL DEF Spec

\* What a session submits is what its sequence numbers are registered for: the
\* event and the number are added in one commit (CommitOp).
LEMMA OwnNext == ASSUME TypeInv, OwnOK, [Next]_vars PROVE OwnOK'
<1> DEFINE Own == { n \in DOMAIN published : published[n].own }
           Become == { seqs[s] : s \in DOMAIN seqs }
<1>0. /\ TypeOK /\ published \in Seq(Events) /\ Len(published) \in Nat
      /\ DOMAIN published = 1..Len(published)
  BY DEF TypeInv, TypeOK, DocOK
<1>1. ASSUME UNCHANGED docVars PROVE OwnOK'
  BY <1>1 DEF docVars, OwnOK, Deletions
<1>2. ASSUME NEW e \in Events, Publish(e)
      PROVE  /\ Deletions' = {} => Deletions = {} /\ e.type # "delete"
             /\ Own' = Own \cup (IF e.own THEN {Len(published) + 1} ELSE {})
  <2>1. /\ DOMAIN published' = DOMAIN published \cup {Len(published) + 1}
        /\ \A n \in DOMAIN published : published'[n] = published[n]
        /\ published'[Len(published) + 1] = e
    BY <1>0, <1>2, PublishFacts
  <2> QED
    BY <1>0, <2>1 DEF Deletions
<1>3. ASSUME Commit PROVE OwnOK'
  <2>1. PICK e \in Events : Publish(e) /\ ~e.own
    BY <1>0, <1>3, Publishers
  <2>2. Become' = Become
    BY <1>3 DEF Commit
  <2>3. Own' = Own /\ (Deletions' = {} => Deletions = {})
    BY <1>2, <2>1
  <2> QED
    BY <2>2, <2>3 DEF OwnOK
<1>4. ASSUME DeleteDocument PROVE OwnOK'
  <2>1. PICK e \in Events : Publish(e) /\ e.type = "delete"
    BY <1>0, <1>4, Publishers
  <2>2. Deletions' # {}
    BY <1>2, <2>1
  <2> QED
    BY <2>2 DEF OwnOK
<1>5. ASSUME CreateDocument PROVE OwnOK'
  <2>1. Deletions # {} /\ Deletions' = Deletions
    <3>1. version = None /\ UNCHANGED published /\ None # Len(published)
      BY <1>0, <1>5, BoundsAssumption DEF CreateDocument
    <3> QED
      BY <3>1 DEF TypeInv, VersionsOK, Deletions
  <2> QED
    BY <2>1 DEF OwnOK
<1>6. ASSUME NEW c \in Conns, Submit(c) PROVE OwnOK'
  <2>1. CASE UNCHANGED docVars
    BY <1>1, <2>1
  <2>2. CASE ~UNCHANGED docVars
    <3> DEFINE e == [type |-> "op", version |-> version + 1, own |-> TRUE]
               s == job[c].item
               m == Len(published) + 1
    <3>1. /\ version # None /\ Publish(e) /\ s \notin DOMAIN seqs
          /\ seqs' = [t \in DOMAIN seqs \cup {s} |-> IF t = s THEN m ELSE seqs[t]]
      BY <1>6, <2>2 DEF Submit, Refused, Emptied, Committed, AlreadyDone
    <3>2. e \in Events /\ e.own
      BY <3>1 DEF Events, TypeInv, TypeOK, DocOK
    <3> HIDE DEF e, s
    <3>3. Own' = Own \cup {m} /\ (Deletions' = {} => Deletions = {})
      BY <1>2, <3>1, <3>2
    <3>4. Become' = Become \cup {m}
      <4> HIDE DEF m
      <4>1. \A t \in DOMAIN seqs : t \in DOMAIN seqs' /\ seqs'[t] = seqs[t]
        BY <3>1
      <4>2. s \in DOMAIN seqs' /\ seqs'[s] = m /\ DOMAIN seqs' = DOMAIN seqs \cup {s}
        BY <3>1
      <4> QED
        BY <4>1, <4>2
    <3> QED
      BY <3>3, <3>4 DEF OwnOK
  <2> QED
    BY <2>1, <2>2
<1>7. ASSUME NEW c \in Conns, Acts(c) PROVE OwnOK'
  <2>1. Submit(c) \/ UNCHANGED docVars
    BY <1>7 DEF Acts, Handler, Relay, Dial, Break, Write, SubmitMessage, AckMessage,
                Attach, ReadReplay, SendReplay, ReadRange, Register, Install, StartRelay,
                AppendAck, Answer, Ack, ReadEnds, TakeEvent, AppendEvent, SendEvent, RelayEnds
  <2> QED
    BY <1>1, <1>6, <2>1
<1> QED
  BY <1>1, <1>3, <1>4, <1>5, <1>7 DEF Next, Acts, vars

\* Nothing is submitted at the start.
LEMMA OwnInit == Init => OwnOK
  BY DEF Init, OwnOK

\* A session's submission is committed at most once for each sequence number it
\* uses, however often it is retried (SubmitWithRequest).
THEOREM OneSubmissionPerSequenceCorrect == Spec => []OneSubmissionPerSequence
<1>1. TypeInv /\ OwnOK => OneSubmissionPerSequence
  <2> SUFFICES ASSUME TypeInv, OwnOK, Deletions = {}
               PROVE  Cardinality({ n \in DOMAIN published : published[n].own }) <= MaxSubmits
    BY DEF OneSubmissionPerSequence
  <2> DEFINE S == DOMAIN seqs
             T == { seqs[s] : s \in S }
             f == [s \in S |-> seqs[s]]
  <2>1. MaxSubmits \in Nat /\ S \in SUBSET (1..MaxSubmits)
    BY BoundsAssumption DEF TypeInv, TypeOK, DocOK
  <2>2. IsFiniteSet(1..MaxSubmits) /\ Cardinality(1..MaxSubmits) = MaxSubmits
    BY <2>1, FS_Interval
  <2>3. f \in Surjection(S, T)
    BY DEF Surjection
  <2> HIDE DEF S, T, f
  <2>4. IsFiniteSet(S) /\ Cardinality(S) <= MaxSubmits
    BY <2>1, <2>2, FS_Subset
  <2>5. IsFiniteSet(T) /\ Cardinality(T) <= Cardinality(S)
    BY <2>3, <2>4, FS_Surjection
  <2>6. Cardinality(S) \in Nat /\ Cardinality(T) \in Nat
    BY <2>4, <2>5, FS_CardinalityType
  <2>7. Cardinality(T) <= MaxSubmits
    BY <2>1, <2>4, <2>5, <2>6
  <2> QED
    BY <2>7 DEF OwnOK, T, S
<1> QED
  BY <1>1, TypeInit, TypeNext, OwnInit, OwnNext, PTL DEF Spec
=============================================================================
