--------------------------- MODULE ChannelProofs ---------------------------
(***************************************************************************)
(* Proofs of the safety of Channel, for any tasks, channels and bounds,    *)
(* and that it implements Rendezvous.                                      *)
(***************************************************************************)
EXTENDS Channel, SequenceTheorems, FiniteSetTheorems, TLAPS

-----------------------------------------------------------------------------
(* The inductive invariant.  Nobody is twice in the queue, and all that is *)
(* in it has the same endpoint, which the field 'expected' complements.    *)
QueueInv ==
  /\ \A i, j \in DOMAIN sync.queue : sync.queue[i] = sync.queue[j] => i = j
  /\ \A w \in Waiters : InQueue(w) =>
       /\ end[w] # {} /\ sync.expected = Expected(end[w])
       /\ \A v \in Waiters : InQueue(v) /\ v # w => end[v] \cap sync.expected = {}

(* A state that is matching someone does nothing else. *)
StepInv ==
  \A s \in States :
    /\ step[s].pc = "none" => step[s] = NoStep
    /\ step[s].pc # "none" => run[s] \in {"running", "matching"}
    /\ step[s].pc = "swap" => step[s].match \in Waiters
    /\ step[s].pc = "swap" <=> step[s].on # {}
    /\ step[s].pc = "count" => step[s].match \in Chans /\ Home[step[s].match] \in Tasks
    /\ step[s].pc = "resume" => step[s].match \in Tasks
    /\ s \in Tasks /\ run[s] = "matching" /\ step[s].pc = "none" => end[s] # {}

(* A channel that waits is in one place: in the queue, with the one that   *)
(* matched it, or notified.                                                *)
ChanInv ==
  \A c \in Chans :
    /\ InQueue(c) => chan[c] \in {"await", "lost"} /\ c \notin sent
    /\ c \in sent => chan[c] \in InUse
    /\ \A s \in States : c \in Matching(s) =>
         /\ chan[c] \in InUse /\ ~InQueue(c) /\ c \notin sent
         /\ \A r \in States \ {s} : c \notin Matching(r)
    /\ chan[c] \in {"await", "canceled"} =>
         InQueue(c) \/ c \in sent \/ \E s \in States : c \in Matching(s)

(* The task that s matched, or is to be resumed by s. *)
Takes(s, t) == step[s].pc \in {"swap", "resume"} /\ step[s].match = t

(* So is a task: in the queue, or suspended, or with the one to resume it. *)
TaskInv ==
  \A t \in Tasks :
    /\ InQueue(t) => run[t] = "waiting"
    /\ t \in held => run[t] = "suspended" /\ wakes[t] = 0
    /\ run[t] = "waiting" => InQueue(t) \/ \E s \in States : Takes(s, t)
    /\ run[t] = "suspended" => t \in held \/ \E s \in States : Takes(s, t)
    /\ \A s \in States : Takes(s, t) =>
         /\ ~InQueue(t) /\ t \notin held /\ run[t] \in {"waiting", "suspended"}
         /\ step[s].pc = "swap" => run[t] = "waiting"
         /\ \A r \in States \ {s} : ~Takes(r, t)

(* Values are only with who was matched. *)
GotInv ==
  /\ \A c \in Chans : got[c] # None => c \in sent \/ \E s \in States : c \in Matching(s)
  /\ \A s \in States : got[s] # None =>
       step[s].pc # "none" \/ run[s] \in {"waiting", "ready", "free"}
  /\ \A t \in Tasks : InQueue(t) => got[t] = None

Inv ==
  /\ TypeOK /\ QueueInv /\ StepInv /\ ChanInv /\ TaskInv /\ GotInv
  /\ WakesExact /\ RefcountExact /\ BusyThreads <= MaxThreads

-----------------------------------------------------------------------------
(* The queue of a lcu_ChannelSync. *)
Unique == \A i, j \in DOMAIN sync.queue : sync.queue[i] = sync.queue[j] => i = j

SyncType ==
  [alive: BOOLEAN, refcount: Nat, expected: SUBSET {"in", "out"}, queue: Seq(Waiters)]

LEMMA QueueTyped ==
  ASSUME TypeOK
  PROVE  /\ sync \in SyncType
         /\ sync.queue \in Seq(Waiters) /\ Len(sync.queue) \in Nat
         /\ DOMAIN sync.queue = 1..Len(sync.queue)
         /\ \A i \in DOMAIN sync.queue : sync.queue[i] \in Waiters
         /\ \A w : InQueue(w) => w \in Waiters /\ sync.queue # <<>>
  <1>1. sync \in SyncType /\ sync.queue \in Seq(Waiters)
    BY DEF TypeOK, SyncType
  <1>2. QED
    BY <1>1, LenProperties, ElementOfSeq DEF InQueue

(* What is at place i leaves a sequence, and nothing else does. *)
LEMMA RemoveAtSeq ==
  ASSUME NEW S, NEW q \in Seq(S), NEW i \in 1..Len(q)
  PROVE  LET r == RemoveAt(q, i)
         IN  /\ r = SubSeq(q, 1, i - 1) \o SubSeq(q, i + 1, Len(q))
             /\ r \in Seq(S) /\ Len(r) = Len(q) - 1
             /\ \A j \in 1..Len(r) : r[j] = IF j < i THEN q[j] ELSE q[j + 1]
  <1> DEFINE a == SubSeq(q, 1, i - 1)
             b == SubSeq(q, i + 1, Len(q))
             r == RemoveAt(q, i)
  <1>0. Len(q) \in Nat /\ \A j \in 1..Len(q) : q[j] \in S
    BY ElementOfSeq
  <1>1. /\ a \in Seq(S) /\ Len(a) = i - 1
        /\ \A j \in 1..i - 1 : a[j] = q[j]
    <2>1. \A j \in 1..i - 1 : q[j] \in S
      BY <1>0
    <2>2. 1 \in Int /\ i - 1 \in Int /\ i - 1 - 1 + 1 = i - 1
      OBVIOUS
    <2>3. /\ a \in Seq(S) /\ Len(a) = IF 1 <= i - 1 THEN i - 1 - 1 + 1 ELSE 0
          /\ \A j \in 1..i - 1 - 1 + 1 : a[j] = q[1 + j - 1]
      BY <2>1, <2>2, SubSeqProperties
    <2>4. QED
      BY <2>3
  <1>2. /\ b \in Seq(S) /\ Len(b) = Len(q) - i
        /\ \A j \in 1..Len(q) - i : b[j] = q[i + j]
    <2>1. \A j \in i + 1..Len(q) : q[j] \in S
      BY <1>0
    <2>2. i + 1 \in Int /\ Len(q) \in Int
      BY <1>0
    <2>3. /\ b \in Seq(S)
          /\ Len(b) = IF i + 1 <= Len(q) THEN Len(q) - (i + 1) + 1 ELSE 0
          /\ \A j \in 1..Len(q) - (i + 1) + 1 : b[j] = q[i + 1 + j - 1]
      BY <2>1, <2>2, SubSeqProperties
    <2>4. QED
      BY <1>0, <2>3
  <1>3. r = a \o b
    BY DEF RemoveAt
  <1> HIDE DEF a, b, r
  <1>4. /\ r \in Seq(S) /\ Len(r) = Len(q) - 1
        /\ \A j \in 1..Len(r) : r[j] = IF j < i THEN q[j] ELSE q[j + 1]
    <2>1. /\ a \o b \in Seq(S) /\ Len(a \o b) = Len(a) + Len(b)
          /\ \A j \in 1..Len(a) + Len(b) : (a \o b)[j] =
               IF j <= Len(a) THEN a[j] ELSE b[j - Len(a)]
      <3>1. a \in Seq(S) /\ b \in Seq(S)
        BY <1>1, <1>2
      <3>2. a \o b \in Seq(S) /\ Len(a \o b) = Len(a) + Len(b)
        BY <3>1
      <3>3. \A j \in 1..Len(a) + Len(b) : (a \o b)[j] =
               IF j <= Len(a) THEN a[j] ELSE b[j - Len(a)]
        BY <3>1
      <3>4. QED
        BY <3>2, <3>3
    <2>2. Len(a) + Len(b) = Len(q) - 1 /\ Len(a) \in Nat
      BY <1>0, <1>1, <1>2
    <2>3. ASSUME NEW j \in 1..Len(q) - 1
          PROVE  r[j] = IF j < i THEN q[j] ELSE q[j + 1]
      <3>1. CASE j < i
        BY <1>0, <1>1, <1>3, <2>1, <2>2, <3>1
      <3>2. CASE ~(j < i)
        <4>1. r[j] = b[j - (i - 1)] /\ j - (i - 1) \in 1..Len(q) - i
          BY <1>0, <1>1, <1>3, <2>1, <2>2, <3>2
        <4>2. i + (j - (i - 1)) = j + 1
          BY <2>2
        <4>3. QED
          BY <1>2, <3>2, <4>1, <4>2
      <3>3. QED
        BY <3>1, <3>2
    <2>4. QED
      BY <1>3, <2>1, <2>2, <2>3
  <1>5. QED
    BY <1>3, <1>4 DEF a, b, r

(* The state of w leaves the place i of the queue, and nobody else. *)
LEMMA RemoveAtEffect ==
  ASSUME NEW q \in Seq(Waiters), NEW i \in 1..Len(q),
         \A j, k \in 1..Len(q) : q[j] = q[k] => j = k
  PROVE  LET r == RemoveAt(q, i)
         IN  /\ r \in Seq(Waiters) /\ Len(r) = Len(q) - 1
             /\ \A j \in 1..Len(r) : r[j] = IF j < i THEN q[j] ELSE q[j + 1]
             /\ \A j, k \in 1..Len(r) : r[j] = r[k] => j = k
             /\ \A w : (\E j \in 1..Len(r) : r[j] = w) <=>
                      w # q[i] /\ \E j \in 1..Len(q) : q[j] = w
  <1> DEFINE r == RemoveAt(q, i)
  <1>0. Len(q) \in Nat /\ \A j \in 1..Len(q) : q[j] \in Waiters
    BY ElementOfSeq
  <1>1. /\ r \in Seq(Waiters) /\ Len(r) = Len(q) - 1
        /\ \A j \in 1..Len(r) : r[j] = IF j < i THEN q[j] ELSE q[j + 1]
    BY RemoveAtSeq
  <1> HIDE DEF r
  <1>2. \A j, k \in 1..Len(r) : r[j] = r[k] => j = k
    BY <1>0, <1>1
  <1>3. ASSUME NEW w
        PROVE  (\E j \in 1..Len(r) : r[j] = w) <=>
                 w # q[i] /\ \E j \in 1..Len(q) : q[j] = w
    <2>1. ASSUME NEW j \in 1..Len(r), r[j] = w
          PROVE  w # q[i] /\ \E k \in 1..Len(q) : q[k] = w
      BY <1>0, <1>1, <2>1
    <2>2. ASSUME NEW j \in 1..Len(q), q[j] = w, w # q[i]
          PROVE  \E k \in 1..Len(r) : r[k] = w
      <3>1. CASE j < i
        BY <1>0, <1>1, <2>2, <3>1
      <3>2. CASE j > i
        <4>1. j - 1 \in 1..Len(r) /\ r[j - 1] = w
          BY <1>0, <1>1, <2>2, <3>2
        <4>2. QED
          BY <4>1
      <3>3. QED
        BY <1>0, <2>2, <3>1, <3>2
    <2>3. QED
      BY <2>1, <2>2
  <1>4. QED
    BY <1>1, <1>2, <1>3 DEF r

(* The effect of each operation on who is in the queue. *)
LEMMA DequeueQueue ==
  ASSUME TypeOK, Unique, NEW s, NEW e, Dequeue(s, e)
  PROVE  /\ Head(sync.queue) \in Waiters /\ InQueue(Head(sync.queue))
         /\ sync' = [sync EXCEPT !.queue = Tail(@)] /\ sync'.queue = Tail(sync.queue)
         /\ Unique' /\ sync' \in SyncType
         /\ \A w : InQueue(w)' <=> InQueue(w) /\ w # Head(sync.queue)
  <1> DEFINE q == sync.queue
             n == Len(q)
             r == Tail(q)
  <1>1. q \in Seq(Waiters) /\ n \in Nat /\ DOMAIN q = 1..n /\ sync \in SyncType
    BY QueueTyped
  <1>2. q # <<>> /\ sync' = [sync EXCEPT !.queue = r]
    BY DEF Dequeue, Matched
  <1>3. sync' \in SyncType /\ sync'.queue = r
    BY <1>1, <1>2, HeadTailProperties DEF SyncType
  <1>4. Head(q) = q[1] /\ n >= 1 /\ Head(q) \in Waiters
    BY <1>1, <1>2, HeadTailProperties, EmptySeq
  <1>5. Len(r) = n - 1 /\ DOMAIN r = 1..n - 1 /\ \A j \in 1..n - 1 : r[j] = q[j + 1]
    <2>1. r \in Seq(Waiters) /\ Len(r) = n - 1 /\ \A j \in 1..Len(r) : r[j] = q[j + 1]
      BY <1>1, <1>2, HeadTailProperties
    <2>2. QED
      BY <2>1, LenProperties
  <1>6. \A i, j \in 1..n : q[i] = q[j] => i = j
    BY <1>1 DEF Unique
  <1> HIDE DEF q, n, r
  <1>7. Unique'
    BY <1>1, <1>3, <1>5, <1>6 DEF Unique
  <1>8. ASSUME NEW w
        PROVE  InQueue(w)' <=> InQueue(w) /\ w # Head(q)
    <2>1. InQueue(w) <=> \E i \in 1..n : q[i] = w
      BY <1>1 DEF InQueue, q
    <2>2. InQueue(w)' <=> \E i \in 1..n - 1 : q[i + 1] = w
      BY <1>3, <1>5 DEF InQueue
    <2>3. ASSUME NEW i \in 1..n - 1, q[i + 1] = w
          PROVE  InQueue(w) /\ w # Head(q)
      BY <1>1, <1>4, <1>6, <2>1, <2>3
    <2>4. ASSUME NEW i \in 1..n, q[i] = w, w # Head(q)
          PROVE  InQueue(w)'
      <3>1. i - 1 \in 1..n - 1 /\ q[i - 1 + 1] = w
        BY <1>1, <1>4, <2>4
      <3>2. QED
        BY <2>2, <3>1
    <2>5. QED
      BY <2>1, <2>2, <2>3, <2>4
  <1>9. InQueue(Head(q))
    BY <1>1, <1>4 DEF InQueue, q
  <1>10. QED
    BY <1>2, <1>3, <1>4, <1>7, <1>8, <1>9 DEF q, r

LEMMA EnqueueQueue ==
  ASSUME TypeOK, Unique, NEW w \in Waiters, NEW e \in Ends, Enqueue(w, e), ~InQueue(w)
  PROVE  /\ sync'.queue = Append(sync.queue, w)
         /\ UNCHANGED <<sync.alive, sync.refcount>>
         /\ sync'.expected = IF sync.queue = <<>> THEN Expected(e) ELSE sync.expected
         /\ Unique' /\ sync' \in SyncType
         /\ \A v : InQueue(v)' <=> InQueue(v) \/ v = w
  <1> DEFINE q == sync.queue
             n == Len(q)
             r == Append(q, w)
  <1>1. q \in Seq(Waiters) /\ n \in Nat /\ DOMAIN q = 1..n /\ sync \in SyncType
    BY QueueTyped
  <1>2. sync' = [Expecting(sync, e) EXCEPT !.queue = Append(@, w)]
    BY DEF Enqueue
  <1>3. /\ Expecting(sync, e) \in SyncType
        /\ Expecting(sync, e).queue = q
        /\ Expecting(sync, e).alive = sync.alive
        /\ Expecting(sync, e).refcount = sync.refcount
        /\ Expecting(sync, e).expected = IF q = <<>> THEN Expected(e) ELSE sync.expected
    BY <1>1 DEF Expecting, Expected, SyncType, Ends
  <1>4. /\ sync' \in SyncType /\ sync'.queue = r
        /\ UNCHANGED <<sync.alive, sync.refcount>>
        /\ sync'.expected = IF q = <<>> THEN Expected(e) ELSE sync.expected
    BY <1>1, <1>2, <1>3, AppendProperties DEF SyncType
  <1>5. /\ DOMAIN r = 1..n + 1 /\ r[n + 1] = w /\ \A j \in 1..n : r[j] = q[j]
    <2>1. r \in Seq(Waiters) /\ Len(r) = n + 1 /\ r[n + 1] = w
          /\ \A j \in 1..n : r[j] = q[j]
      BY <1>1, AppendProperties
    <2>2. QED
      BY <2>1, LenProperties
  <1>6. \A i, j \in 1..n : q[i] = q[j] => i = j
    BY <1>1 DEF Unique
  <1>7. \A v : InQueue(v) <=> \E i \in 1..n : q[i] = v
    BY <1>1 DEF InQueue, q
  <1> HIDE DEF q, n, r
  <1>8. Unique'
    <2>1. \A i, j \in 1..n + 1 : r[i] = r[j] => i = j
      BY <1>1, <1>5, <1>6, <1>7
    <2>2. QED
      BY <1>4, <1>5, <2>1 DEF Unique
  <1>9. \A v : InQueue(v)' <=> InQueue(v) \/ v = w
    <2>1. \A v : InQueue(v)' <=> \E i \in 1..n + 1 : r[i] = v
      BY <1>4, <1>5 DEF InQueue
    <2>2. QED
      BY <1>1, <1>5, <1>7, <2>1
  <1>10. QED
    BY <1>4, <1>8, <1>9 DEF q, r

LEMMA RemoveQueue ==
  ASSUME TypeOK, Unique, NEW w, RemoveStateQ(w)
  PROVE  /\ \E i \in DOMAIN sync.queue :
               sync.queue[i] = w /\ sync'.queue = RemoveAt(sync.queue, i)
         /\ end' = [end EXCEPT ![w] = {}]
         /\ UNCHANGED <<sync.alive, sync.refcount, sync.expected>>
         /\ Unique' /\ sync' \in SyncType
         /\ InQueue(w) /\ \A v : InQueue(v)' <=> InQueue(v) /\ v # w
  <1> DEFINE q == sync.queue
             n == Len(q)
  <1>1. q \in Seq(Waiters) /\ n \in Nat /\ DOMAIN q = 1..n /\ sync \in SyncType
    BY QueueTyped
  <1>2. PICK i \in 1..n : /\ q[i] = w /\ sync' = [sync EXCEPT !.queue = RemoveAt(@, i)]
                          /\ end' = [end EXCEPT ![w] = {}]
    BY <1>1 DEF RemoveStateQ
  <1> DEFINE r == RemoveAt(q, i)
  <1>3. \A j, k \in 1..n : q[j] = q[k] => j = k
    BY <1>1 DEF Unique
  <1>q. q = sync.queue
    OBVIOUS
  <1> HIDE DEF q
  <1>4. /\ r \in Seq(Waiters) /\ DOMAIN r = 1..Len(r)
        /\ \A j, k \in 1..Len(r) : r[j] = r[k] => j = k
        /\ \A v : (\E j \in 1..Len(r) : r[j] = v) <=>
                 v # q[i] /\ \E j \in 1..n : q[j] = v
    <2>1. /\ r \in Seq(Waiters)
          /\ \A j, k \in 1..Len(r) : r[j] = r[k] => j = k
          /\ \A v : (\E j \in 1..Len(r) : r[j] = v) <=>
                   v # q[i] /\ \E j \in 1..n : q[j] = v
      BY <1>1, <1>3, RemoveAtEffect
    <2>2. QED
      BY <2>1, LenProperties
  <1> HIDE DEF r
  <1>5. sync' \in SyncType /\ sync'.queue = r
        /\ UNCHANGED <<sync.alive, sync.refcount, sync.expected>>
    BY <1>q, <1>1, <1>2, <1>4 DEF SyncType, r
  <1>6. Unique'
    BY <1>4, <1>5 DEF Unique
  <1>7. InQueue(w) /\ \A v : InQueue(v)' <=> InQueue(v) /\ v # w
    <2>1. \A v : InQueue(v)' <=> \E j \in 1..Len(r) : r[j] = v
      BY <1>4, <1>5 DEF InQueue
    <2>2. \A v : InQueue(v) <=> \E j \in 1..n : q[j] = v
      BY <1>1, <1>q DEF InQueue
    <2>3. QED
      BY <1>2, <1>4, <2>1, <2>2
  <1>8. QED
    BY <1>q, <1>1, <1>2, <1>5, <1>6, <1>7 DEF r

-----------------------------------------------------------------------------
(* The queue, and what is expected of it, do not change. *)
SameQueue ==
  /\ sync'.queue = sync.queue
  /\ sync.queue = <<>> \/ sync'.expected = sync.expected

LEMMA SameInQueue ==
  ASSUME SameQueue
  PROVE  \A w : InQueue(w)' <=> InQueue(w)
  BY DEF SameQueue, InQueue

LEMMA SameQueueInv ==
  ASSUME TypeOK, QueueInv, SameQueue, \A w \in Waiters : InQueue(w) => end'[w] = end[w]
  PROVE  QueueInv'
  <1>1. \A w \in Waiters : InQueue(w) => sync.queue # <<>>
    BY QueueTyped
  <1>2. Unique'
    BY DEF QueueInv, Unique, SameQueue
  <1>3. QED
    BY <1>1, <1>2, SameInQueue DEF QueueInv, Unique, SameQueue

(* References are got and released without changing the queue.             *)
LEMMA GetQueue ==
  ASSUME TypeOK, RefcountExact, sync' = GetChSync(sync)
  PROVE  /\ SameQueue /\ sync' \in SyncType
         /\ sync'.refcount = sync.refcount + 1 /\ sync'.alive = TRUE
  <1>1. sync \in SyncType
    BY QueueTyped
  <1>2. CASE sync.alive
    BY <1>1, <1>2 DEF GetChSync, SyncType, SameQueue
  <1>3. CASE ~sync.alive
    <2>1. sync.refcount = 0 /\ sync.queue = <<>>
      BY <1>1, <1>3 DEF SyncType, RefcountExact
    <2>2. sync' = [alive |-> TRUE, refcount |-> 1, expected |-> {}, queue |-> <<>>]
      BY <1>3 DEF GetChSync, NoSync
    <2>3. QED
      BY <2>1, <2>2 DEF SyncType, SameQueue
  <1>4. QED
    BY <1>2, <1>3

LEMMA FreeQueue ==
  ASSUME TypeOK, RefcountExact, sync' = FreeChSync(sync), sync.refcount > 0
  PROVE  /\ SameQueue /\ sync' \in SyncType
         /\ sync'.refcount = sync.refcount - 1
         /\ sync'.alive <=> (sync'.refcount > 0 \/ sync'.queue # <<>>)
  BY QueueTyped DEF FreeChSync, NoSync, SyncType, SameQueue, RefcountExact

-----------------------------------------------------------------------------
(* Counting references and threads. *)
Users == {t \in Tasks : UsesThread(t)}

LEMMA Counted ==
  ASSUME TypeOK
  PROVE  /\ IsFiniteSet(OpenChans) /\ Cardinality(OpenChans) \in Nat
         /\ IsFiniteSet(Matchers) /\ Cardinality(Matchers) \in Nat
         /\ IsFiniteSet(Users) /\ Cardinality(Users) \in Nat
         /\ IsFiniteSet(Unreleased) /\ Cardinality(Unreleased) \in Nat
         /\ References \in Nat
         /\ BusyThreads = Cardinality(Users) + Cardinality(Unreleased)
  <1>1. IsFiniteSet(OpenChans) /\ IsFiniteSet(Matchers) /\ IsFiniteSet(Users)
    <2>1. OpenChans \subseteq Chans /\ Matchers \subseteq Tasks /\ Users \subseteq Tasks
      BY DEF OpenChans, Matchers, Users
    <2>2. QED
      BY <2>1, ConstantsAssumption, FS_Subset
  <1>2. IsFiniteSet(Unreleased)
    <2>1. IsFiniteSet(1..MaxThreads)
      BY ConstantsAssumption, FS_Interval
    <2>2. IsFiniteSet(Tasks \X (1..MaxThreads))
      BY <2>1, ConstantsAssumption, FS_Product
    <2>3. Unreleased \subseteq Tasks \X (1..MaxThreads)
      BY ConstantsAssumption DEF Unreleased, TypeOK
    <2>4. QED
      BY <2>2, <2>3, FS_Subset
  <1>3. QED
    BY <1>1, <1>2, FS_CardinalityType DEF References, BusyThreads, Users

(* A thread is left to release the reference of t, and releases it. *)
LEMMA LateMore ==
  ASSUME TypeOK, NEW t \in Tasks, late' = [late EXCEPT ![t] = @ + 1]
  PROVE  Cardinality(Unreleased)' = Cardinality(Unreleased) + 1
  <1> DEFINE x == <<t, late[t] + 1>>
  <1>1. late \in [Tasks -> Nat]
    BY ConstantsAssumption DEF TypeOK
  <1>2. Unreleased' = Unreleased \cup {x} /\ x \notin Unreleased
    <2>1. \A u \in Tasks : \A n : n \in 1..late'[u] <=>
             n \in 1..late[u] \/ (u = t /\ n = late[t] + 1)
      BY <1>1
    <2>2. late[t] + 1 \notin 1..late[t]
      BY <1>1
    <2>3. QED
      BY <2>1, <2>2 DEF Unreleased
  <1>3. QED
    BY <1>2, Counted, FS_AddElement

LEMMA LateLess ==
  ASSUME TypeOK, NEW t \in Tasks, late[t] > 0, late' = [late EXCEPT ![t] = @ - 1]
  PROVE  /\ Cardinality(Unreleased)' = Cardinality(Unreleased) - 1
         /\ Cardinality(Unreleased) > 0
  <1> DEFINE x == <<t, late[t]>>
  <1>1. late \in [Tasks -> Nat]
    BY ConstantsAssumption DEF TypeOK
  <1>2. Unreleased' = Unreleased \ {x} /\ x \in Unreleased
    <2>1. \A u \in Tasks : \A n : n \in 1..late'[u] <=>
             n \in 1..late[u] /\ ~(u = t /\ n = late[t])
      BY <1>1
    <2>2. late[t] \in 1..late[t]
      BY <1>1
    <2>3. QED
      BY <2>1, <2>2 DEF Unreleased
  <1>3. Cardinality(Unreleased) # 0
    BY <1>2, Counted, FS_EmptySet
  <1>4. Cardinality(Unreleased)' = Cardinality(Unreleased) - 1
    BY <1>2, Counted, FS_RemoveElement
  <1>5. QED
    BY <1>3, <1>4, Counted

(* A task has no more threads to release its references than there are.    *)
LEMMA LateBound ==
  ASSUME TypeOK, NEW t \in Tasks
  PROVE  late[t] <= Cardinality(Unreleased)
  <1> DEFINE S == {t} \X (1..late[t])
  <1>1. late[t] \in Nat
    BY ConstantsAssumption DEF TypeOK
  <1>2. IsFiniteSet(1..late[t]) /\ Cardinality(1..late[t]) = late[t]
    BY <1>1, FS_Interval
  <1>3. Cardinality(S) = 1 * late[t]
    <2>1. IsFiniteSet({t}) /\ Cardinality({t}) = 1
      BY FS_Singleton
    <2>2. QED
      BY <1>2, <2>1, FS_Product
  <1>4. S \subseteq Unreleased
    BY DEF Unreleased
  <1>5. Cardinality(S) <= Cardinality(Unreleased)
    BY <1>4, Counted, FS_Subset
  <1>6. QED
    BY <1>1, <1>3, <1>5

-----------------------------------------------------------------------------
(* The types of the variables, but for 'sync'. *)
RestTyped ==
  /\ chan \in [Chans -> InUse \cup {"closed", "unused", "closing"}]
  /\ end \in [Waiters -> Ends \cup {{}}]
  /\ got \in [Waiters \cup States -> Waiters \cup States \cup {None}]
  /\ sent \subseteq Chans
  /\ run \in [States -> RunStates]
  /\ step \in [States -> [pc: {"none", "swap", "count", "resume"},
                          match: Waiters \cup {None}, on: Ends \cup {{}}]]
  /\ wakes \in [Tasks -> Int]
  /\ held \subseteq Tasks
  /\ late \in [Tasks -> 0..MaxThreads]
  /\ leaked \in 0..MaxLeaks

LEMMA TypeParts ==
  /\ TypeOK <=> sync \in SyncType /\ RestTyped
  /\ TypeOK' <=> sync' \in SyncType /\ RestTyped'
  BY DEF TypeOK, SyncType, RestTyped

LEMMA Domains ==
  /\ Chans \subseteq Waiters /\ Tasks \subseteq Waiters /\ Tasks \subseteq States
  /\ Chans \cap States = {} /\ Chans \cap Tasks = {} /\ Main \in States
  /\ None \notin Waiters /\ None \notin States
  /\ Home \in [Chans -> States]
  BY ConstantsAssumption DEF Waiters, States

(* The parts of the invariant that do not depend on what changed. *)
LEMMA Frames ==
  ASSUME Inv, \A w : InQueue(w)' <=> InQueue(w)
  PROVE  /\ UNCHANGED <<step, run, end>> => StepInv'
         /\ UNCHANGED <<step, chan, sent>> => ChanInv'
         /\ UNCHANGED <<step, run, held, wakes>> => TaskInv'
         /\ UNCHANGED <<step, run, got, sent>> => GotInv'
  <1>1. ASSUME UNCHANGED <<step, run, end>>
        PROVE  StepInv'
    BY <1>1 DEF Inv, StepInv
  <1>2. ASSUME UNCHANGED <<step, chan, sent>>
        PROVE  ChanInv'
    BY <1>2 DEF Inv, ChanInv, Matching
  <1>3. ASSUME UNCHANGED <<step, run, held, wakes>>
        PROVE  TaskInv'
    BY <1>3 DEF Inv, TaskInv, Takes
  <1>4. ASSUME UNCHANGED <<step, run, got, sent>>
        PROVE  GotInv'
    BY <1>4 DEF Inv, GotInv, Matching
  <1>5. QED
    BY <1>1, <1>2, <1>3, <1>4

LEMMA CountFrames ==
  ASSUME Inv
  PROVE  /\ UNCHANGED <<step, sent, wakes>> => WakesExact'
         /\ UNCHANGED <<run, late>> => (BusyThreads <= MaxThreads)'
  <1>1. ASSUME UNCHANGED <<step, sent, wakes>>
        PROVE  WakesExact'
    BY <1>1 DEF Inv, WakesExact, Counting
  <1>2. ASSUME UNCHANGED <<run, late>>
        PROVE  (BusyThreads <= MaxThreads)'
    BY <1>2 DEF Inv, BusyThreads, UsesThread, Unreleased
  <1>3. QED
    BY <1>1, <1>2

(* The number of references does not change. *)
LEMMA SameReferences ==
  ASSUME Inv, UNCHANGED <<sync.refcount, sync.alive, late, leaked>>,
         \A c \in Chans : chan'[c] = "closed" <=> chan[c] = "closed",
         \A t \in Tasks : run'[t] \in {"matching", "free"} <=> run[t] \in {"matching", "free"},
         sync.refcount > 0 \/ sync'.queue = sync.queue
  PROVE  RefcountExact'
  <1>1. OpenChans' = OpenChans /\ Matchers' = Matchers /\ Unreleased' = Unreleased
    BY DEF OpenChans, Matchers, Unreleased
  <1>2. sync'.refcount = References' + leaked'
    BY <1>1 DEF Inv, RefcountExact, References
  <1>3. sync'.alive <=> (sync'.refcount > 0 \/ sync'.queue # <<>>)
    BY DEF Inv, RefcountExact
  <1>4. QED
    BY <1>2, <1>3 DEF RefcountExact

(* Who is in the queue has a reference, or is matched by who has one. *)
LEMMA Referenced ==
  ASSUME Inv
  PROVE  /\ sync.refcount \in Nat /\ leaked \in Nat
         /\ \A c \in Chans : chan[c] # "closed" =>
              sync.refcount > 0 /\ Cardinality(OpenChans) > 0
         /\ \A t \in Tasks : run[t] \in {"matching", "free"} =>
              sync.refcount > 0 /\ Cardinality(Matchers) > 0
         /\ \A t \in Tasks : late[t] > 0 => sync.refcount > 0
  <1>1. TypeOK /\ sync.refcount = References + leaked
    BY DEF Inv, RefcountExact
  <1>2. sync.refcount \in Nat /\ leaked \in Nat
    BY <1>1, QueueTyped, ConstantsAssumption DEF SyncType, TypeOK
  <1>3. ASSUME NEW c \in Chans, chan[c] # "closed"
        PROVE  Cardinality(OpenChans) # 0
    BY <1>1, <1>3, Counted, FS_EmptySet DEF OpenChans
  <1>4. ASSUME NEW t \in Tasks, run[t] \in {"matching", "free"}
        PROVE  Cardinality(Matchers) # 0
    BY <1>1, <1>4, Counted, FS_EmptySet DEF Matchers
  <1>5. ASSUME NEW t \in Tasks, late[t] > 0
        PROVE  Cardinality(Unreleased) # 0
    <2>1. late[t] \in Nat /\ late[t] <= Cardinality(Unreleased)
      BY <1>1, LateBound, ConstantsAssumption DEF TypeOK
    <2>2. QED
      BY <1>1, <1>5, <2>1, Counted
  <1>6. References > 0 => sync.refcount > 0
    BY <1>1, <1>2, Counted
  <1>7. QED
    BY <1>1, <1>2, <1>3, <1>4, <1>5, <1>6, Counted DEF References

-----------------------------------------------------------------------------
(* Channels are created and closed. *)
LEMMA CreateInv ==
  ASSUME Inv, NEW c \in Chans, Create(c)
  PROVE  Inv'
  <1> TypeOK /\ RefcountExact
    BY DEF Inv
  <1>1. /\ sync' = GetChSync(sync) /\ chan[c] = "closed"
        /\ chan' = [chan EXCEPT ![c] = "unused"]
        /\ UNCHANGED <<end, got, sent, run, step, leaked, wakes, held, late>>
    BY DEF Create, taskVars
  <1>2. SameQueue /\ sync' \in SyncType /\ sync'.refcount = sync.refcount + 1 /\ sync'.alive
    BY <1>1, GetQueue
  <1>3. \A w : InQueue(w)' <=> InQueue(w)
    BY <1>2, SameInQueue
  <1>4. TypeOK'
    BY <1>1, <1>2, TypeParts DEF RestTyped
  <1>5. QueueInv'
    BY <1>1, <1>2, SameQueueInv DEF Inv
  <1>6. ChanInv'
    BY <1>1, <1>3 DEF Inv, ChanInv, Matching, InUse, TypeOK
  <1>7. RefcountExact'
    <2>1. OpenChans' = OpenChans \cup {c} /\ c \notin OpenChans
      BY <1>1 DEF OpenChans, TypeOK
    <2>2. Cardinality(OpenChans)' = Cardinality(OpenChans) + 1
      BY <2>1, Counted, FS_AddElement
    <2>3. Matchers' = Matchers /\ Unreleased' = Unreleased
      BY <1>1 DEF Matchers, Unreleased
    <2>4. References' = References + 1 /\ References \in Nat
      BY <2>2, <2>3, Counted DEF References
    <2>5. sync.refcount = References + leaked /\ sync.refcount \in Nat /\ leaked \in Nat
      BY Referenced DEF RefcountExact
    <2>6. sync'.refcount = References' + leaked'
      BY <1>1, <1>2, <2>4, <2>5
    <2>7. sync'.alive <=> (sync'.refcount > 0 \/ sync'.queue # <<>>)
      BY <1>2, <2>5
    <2>8. QED
      BY <2>6, <2>7 DEF RefcountExact
  <1>8. QED
    BY <1>1, <1>3, <1>4, <1>5, <1>6, <1>7, Frames, CountFrames DEF Inv

LEMMA CloseInv ==
  ASSUME Inv, NEW c \in Chans, Close(c)
  PROVE  Inv'
  <1> TypeOK /\ RefcountExact
    BY DEF Inv
  <1>1. /\ sync' = FreeChSync(sync) /\ chan[c] \in {"unused", "closing"}
        /\ chan' = [chan EXCEPT ![c] = "closed"]
        /\ UNCHANGED <<end, got, sent, run, step, leaked, wakes, held, late>>
    BY DEF Close, taskVars
  <1>2. /\ SameQueue /\ sync' \in SyncType /\ sync'.refcount = sync.refcount - 1
        /\ sync'.alive <=> (sync'.refcount > 0 \/ sync'.queue # <<>>)
    BY <1>1, FreeQueue, Referenced
  <1>3. \A w : InQueue(w)' <=> InQueue(w)
    BY <1>2, SameInQueue
  <1>4. TypeOK'
    BY <1>1, <1>2, TypeParts DEF RestTyped
  <1>5. QueueInv'
    BY <1>1, <1>2, SameQueueInv DEF Inv
  <1>6. ChanInv'
    BY <1>1, <1>3 DEF Inv, ChanInv, Matching, InUse, TypeOK
  <1>7. RefcountExact'
    <2>1. OpenChans' = OpenChans \ {c} /\ c \in OpenChans
      BY <1>1 DEF OpenChans, TypeOK
    <2>2. Cardinality(OpenChans)' = Cardinality(OpenChans) - 1
      BY <2>1, Counted, FS_RemoveElement
    <2>3. Matchers' = Matchers /\ Unreleased' = Unreleased
      BY <1>1 DEF Matchers, Unreleased
    <2>4. References' = References - 1 /\ References \in Nat
      BY <2>2, <2>3, Counted DEF References
    <2>5. sync.refcount = References + leaked /\ sync.refcount \in Nat /\ leaked \in Nat
      BY Referenced DEF RefcountExact
    <2>6. sync'.refcount = References' + leaked'
      BY <1>1, <1>2, <2>4, <2>5
    <2>7. sync'.alive <=> (sync'.refcount > 0 \/ sync'.queue # <<>>)
      BY <1>2
    <2>8. QED
      BY <2>6, <2>7 DEF RefcountExact
  <1>8. QED
    BY <1>1, <1>3, <1>4, <1>5, <1>6, <1>7, Frames, CountFrames DEF Inv

(* A channel in use leaves the queue: to be closed, or since its coroutine *)
(* was resumed by others.                                                  *)
LEMMA WithdrawInv ==
  ASSUME Inv, NEW c \in Chans, RemoveStateQ(c), NEW k \in {"closing", "unused"},
         chan' = [chan EXCEPT ![c] = k],
         UNCHANGED <<got, sent, run, step, leaked, wakes, held, late>>
  PROVE  Inv'
  <1> TypeOK
    BY DEF Inv
  <1>1. /\ end' = [end EXCEPT ![c] = {}]
        /\ UNCHANGED <<sync.alive, sync.refcount, sync.expected>>
        /\ Unique' /\ sync' \in SyncType
        /\ InQueue(c) /\ \A v : InQueue(v)' <=> InQueue(v) /\ v # c
    BY RemoveQueue DEF Inv, QueueInv, Unique
  <1>2. chan[c] \in {"await", "lost"} /\ c \notin sent /\ \A s \in States : c \notin Matching(s)
    BY <1>1 DEF Inv, ChanInv
  <1>3. TypeOK'
    BY <1>1, TypeParts DEF RestTyped
  <1>4. QueueInv'
    <2>1. \A w \in Waiters : InQueue(w)' => InQueue(w) /\ end'[w] = end[w]
      BY <1>1 DEF TypeOK
    <2>2. QED
      BY <1>1, <2>1 DEF Inv, QueueInv, Unique
  <1>5. StepInv'
    BY <1>1, Domains DEF Inv, StepInv, TypeOK
  <1>6. ChanInv'
    BY <1>1, <1>2 DEF Inv, ChanInv, Matching, InUse, TypeOK
  <1>7. TaskInv'
    BY <1>1, Domains DEF Inv, TaskInv, Takes
  <1>8. GotInv'
    BY <1>1, Domains DEF Inv, GotInv, Matching
  <1>9. RefcountExact'
    BY <1>1, <1>2, SameReferences, Referenced DEF TypeOK
  <1>10. QED
    BY <1>3, <1>4, <1>5, <1>6, <1>7, <1>8, <1>9, CountFrames DEF Inv

(* The state of a channel in use changes, but it remains where it is. *)
LEMMA UsedInv ==
  ASSUME Inv, NEW c \in Chans, NEW k \in {"canceled", "lost"},
         chan[c] = "await", k = "canceled" => ~InQueue(c),
         chan' = [chan EXCEPT ![c] = k],
         UNCHANGED <<sync, end, got, sent, run, step, leaked, wakes, held, late>>
  PROVE  Inv'
  <1>1. SameQueue /\ \A w : InQueue(w)' <=> InQueue(w)
    BY DEF SameQueue, InQueue
  <1>2. TypeOK'
    BY TypeParts DEF Inv, RestTyped, InUse
  <1>3. QueueInv'
    BY <1>1, SameQueueInv DEF Inv
  <1>4. ChanInv'
    BY <1>1 DEF Inv, ChanInv, Matching, InUse, TypeOK
  <1>5. RefcountExact'
    BY SameReferences DEF Inv, TypeOK
  <1>6. QED
    BY <1>1, <1>2, <1>3, <1>4, <1>5, Frames, CountFrames DEF Inv

LEMMA CancelSyncedInv ==
  ASSUME Inv, NEW c \in Chans, CancelSynced(c)
  PROVE  Inv'
  <1>1. CASE RemoveStateQ(c) /\ chan' = [chan EXCEPT ![c] = "unused"]
    BY <1>1, WithdrawInv DEF CancelSynced, taskVars
  <1>2. CASE /\ ~InQueue(c) /\ chan' = [chan EXCEPT ![c] = "canceled"]
             /\ UNCHANGED <<sync, end>>
    <2>1. chan[c] = "await" /\ UNCHANGED <<got, sent, run, step, leaked, wakes, held, late>>
      BY DEF CancelSynced, taskVars
    <2>2. QED
      BY <1>2, <2>1, UsedInv
  <1>3. QED
    BY <1>1, <1>2 DEF CancelSynced

LEMMA CloseInUseInv ==
  ASSUME Inv, NEW c \in Chans, CloseInUse(c)
  PROVE  Inv'
  BY WithdrawInv DEF CloseInUse, taskVars

LEMMA CloseCoInv ==
  ASSUME Inv, NEW c \in Chans, CloseCo(c)
  PROVE  Inv'
  BY UsedInv DEF CloseCo, taskVars

-----------------------------------------------------------------------------
(* The state s matches the first of the queue. *)
LEMMA DequeueInv ==
  ASSUME Inv, NEW s \in States, NEW e \in Ends, Dequeue(s, e),
         step[s].pc = "none", run[s] \in {"running", "matching"}, sync.refcount > 0,
         UNCHANGED <<chan, sent, run, leaked, wakes, held, late>>
  PROVE  Inv'
  <1> TypeOK /\ Unique
    BY DEF Inv, QueueInv, Unique
  <1> DEFINE w == Head(sync.queue)
  <1>1. /\ w \in Waiters /\ InQueue(w)
        /\ sync' = [sync EXCEPT !.queue = Tail(@)]
        /\ Unique' /\ sync' \in SyncType
        /\ \A v : InQueue(v)' <=> InQueue(v) /\ v # w
    BY DequeueQueue
  <1>2. /\ step' = [step EXCEPT ![s] = [pc |-> "swap", match |-> w, on |-> e]]
        /\ got' = [got EXCEPT ![s] = w, ![w] = s]
        /\ end' = [x \in Waiters |-> IF x \in {s, w} THEN {} ELSE end[x]]
    BY DEF Dequeue
  <1>3. UNCHANGED <<sync.alive, sync.refcount, sync.expected>>
    BY <1>1, QueueTyped DEF SyncType
  <1> HIDE DEF w
  <1>4. /\ w \in Chans => /\ chan[w] \in {"await", "lost"} /\ w \notin sent
                          /\ \A r \in States : w \notin Matching(r)
        /\ w \in Tasks => /\ run[w] = "waiting" /\ w \notin held
                          /\ \A r \in States : ~Takes(r, w)
        /\ w # s /\ w # None /\ ~InQueue(s)
    BY <1>1, Domains, QueueTyped DEF Inv, ChanInv, TaskInv, Waiters
  <1>5. TypeOK'
    <2>1. step' \in [States -> [pc: {"none", "swap", "count", "resume"},
                                match: Waiters \cup {None}, on: Ends \cup {{}}]]
      BY <1>1, <1>2 DEF TypeOK
    <2>2. got' \in [Waiters \cup States -> Waiters \cup States \cup {None}]
      BY <1>1, <1>2 DEF TypeOK
    <2>3. end' \in [Waiters -> Ends \cup {{}}]
      BY <1>2 DEF TypeOK
    <2>4. QED
      BY <1>1, <2>1, <2>2, <2>3, TypeParts DEF RestTyped
  <1>6. QueueInv'
    <2>1. \A v \in Waiters : InQueue(v)' => InQueue(v) /\ end'[v] = end[v]
      BY <1>1, <1>2, <1>4
    <2>2. QED
      BY <1>1, <1>3, <2>1 DEF Inv, QueueInv, Unique
  <1>7. StepInv'
    <2>1. step'[s] = [pc |-> "swap", match |-> w, on |-> e] /\ e # {}
      BY <1>2 DEF TypeOK, Ends
    <2>2. \A r \in States \ {s} : step'[r] = step[r]
      BY <1>2 DEF TypeOK
    <2>3. \A t \in Tasks \ {s} : run[t] = "matching" => end'[t] = end[t]
      BY <1>2, <1>4, Domains
    <2>4. QED
      BY <1>1, <2>1, <2>2, <2>3 DEF Inv, StepInv
  <1>8. ChanInv'
    <2>1. \A r \in States : Matching(r)' = IF r = s THEN {w} ELSE Matching(r)
      BY <1>2 DEF Matching, TypeOK
    <2>2. Matching(s) = {}
      BY DEF Matching
    <2>3. QED
      BY <1>1, <1>4, <2>1, <2>2 DEF Inv, ChanInv, InUse
  <1>9. TaskInv'
    <2>1. \A r \in States, t \in Tasks : Takes(r, t)' <=> Takes(r, t) \/ (r = s /\ t = w)
      BY <1>2 DEF Takes, TypeOK
    <2>2. step'[s].pc = "swap" /\ \A r \in States \ {s} : step'[r] = step[r]
      BY <1>2 DEF TypeOK
    <2>3. \A t \in Tasks : ~Takes(s, t)
      BY DEF Takes
    <2>4. QED
      BY <1>1, <1>4, <2>1, <2>2, <2>3 DEF Inv, TaskInv
  <1>10. GotInv'
    <2>1. \A r \in States : step'[r].pc = IF r = s THEN "swap" ELSE step[r].pc
      BY <1>2 DEF TypeOK
    <2>2. \A r \in States : Matching(r)' = IF r = s THEN {w} ELSE Matching(r)
      BY <1>2 DEF Matching, TypeOK
    <2>3. Matching(s) = {}
      BY DEF Matching
    <2>4. \A v \in Waiters \cup States : v \notin {s, w} => got'[v] = got[v]
      BY <1>2 DEF TypeOK
    <2>5. \A c \in Chans : got'[c] # None => c \in sent \/ \E r \in States : c \in Matching(r)'
      <3>1. ASSUME NEW c \in Chans, got'[c] # None
            PROVE  c \in sent \/ \E r \in States : c \in Matching(r)'
        <4>1. c # s
          BY Domains
        <4>2. c = w \/ got[c] # None
          BY <2>4, <3>1, <4>1, Domains
        <4>3. QED
          BY <2>2, <2>3, <4>2 DEF Inv, GotInv
      <3>2. QED
        BY <3>1
    <2>6. ASSUME NEW r \in States, got'[r] # None
          PROVE  step'[r].pc # "none" \/ run[r] \in {"waiting", "ready", "free"}
      <3>1. CASE r = w
        BY <1>1, <1>4, <3>1, Domains DEF Waiters
      <3>2. CASE r # w /\ r # s
        BY <2>1, <2>4, <2>6, <3>2 DEF Inv, GotInv
      <3>3. QED
        BY <2>1, <3>1, <3>2
    <2>7. \A t \in Tasks : InQueue(t)' => got'[t] = None
      BY <1>1, <1>4, <2>4, Domains DEF Inv, GotInv
    <2>8. QED
      BY <2>5, <2>6, <2>7 DEF GotInv
  <1>11. WakesExact'
    <2>1. \A t \in Tasks : Counting(t)' = Counting(t)
      BY <1>2 DEF Counting, TypeOK
    <2>2. QED
      BY <2>1 DEF Inv, WakesExact
  <1>12. RefcountExact'
    BY <1>3, SameReferences
  <1>13. QED
    BY <1>5, <1>6, <1>7, <1>8, <1>9, <1>10, <1>11, <1>12, CountFrames DEF Inv

(* What is expected of an empty queue changes. *)
LEMMA ExpectInv ==
  ASSUME Inv, NEW e \in Ends, sync' = Expecting(sync, e),
         UNCHANGED <<chan, end, got, sent, run, step, leaked, wakes, held, late>>
  PROVE  Inv'
  <1> TypeOK
    BY DEF Inv
  <1>1. /\ sync' \in SyncType /\ SameQueue /\ UNCHANGED <<sync.alive, sync.refcount>>
    BY QueueTyped DEF SyncType, Expecting, Expected, Ends, SameQueue
  <1>2. TypeOK'
    BY <1>1, TypeParts DEF RestTyped
  <1>3. QueueInv'
    BY <1>1, SameQueueInv DEF Inv
  <1>4. RefcountExact'
    BY <1>1, SameReferences DEF SameQueue
  <1>5. QED
    BY <1>1, <1>2, <1>3, <1>4, SameInQueue, Frames, CountFrames DEF Inv

(* Everyone in the queue has the endpoint of who comes to it. *)
LEMMA EnqueueEnds ==
  ASSUME TypeOK, QueueInv, NEW w \in Waiters, NEW e \in Ends, Enqueue(w, e), ~InQueue(w)
  PROVE  QueueInv'
  <1>1. /\ sync'.queue = Append(sync.queue, w)
        /\ sync'.expected = IF sync.queue = <<>> THEN Expected(e) ELSE sync.expected
        /\ Unique' /\ \A v : InQueue(v)' <=> InQueue(v) \/ v = w
    BY EnqueueQueue DEF QueueInv, Unique
  <1>2. /\ end'[w] = e /\ \A v \in Waiters \ {w} : end'[v] = end[v]
        /\ sync.queue = <<>> \/ sync.expected \cap e = {}
    BY DEF Enqueue, Matched, TypeOK
  <1>3. CASE sync.queue = <<>>
    <2>1. \A v \in Waiters : ~InQueue(v)
      BY <1>3, QueueTyped
    <2>2. e # {}
      BY DEF Ends
    <2>3. QED
      BY <1>1, <1>2, <1>3, <2>1, <2>2 DEF QueueInv, Unique
  <1>4. CASE sync.queue # <<>>
    <2>1. PICK v \in Waiters : InQueue(v)
      <3>1. 1 \in DOMAIN sync.queue
        BY <1>4, QueueTyped, EmptySeq
      <3>2. QED
        BY <3>1, QueueTyped DEF InQueue
    <2>2. end[v] \in Ends /\ sync.expected = Expected(end[v])
      BY <2>1 DEF QueueInv, TypeOK
    <2>3. sync.expected = Expected(e)
      BY <1>2, <1>4, <2>2 DEF Ends, Expected
    <2>4. \A u \in Waiters : InQueue(u) => end[u] \cap sync.expected = {}
      <3>1. ASSUME NEW u \in Waiters, InQueue(u)
            PROVE  end[u] \cap sync.expected = {}
        <4>1. end[u] \in Ends /\ sync.expected = Expected(end[u])
          BY <3>1 DEF QueueInv, TypeOK
        <4>2. QED
          BY <1>2, <1>4, <4>1 DEF Ends, Expected
      <3>2. QED
        BY <3>1
    <2>5. e # {}
      BY DEF Ends
    <2>6. QED
      BY <1>1, <1>2, <1>4, <2>3, <2>4, <2>5 DEF QueueInv, Unique
  <1>5. QED
    BY <1>3, <1>4

(* A channel waits in the queue. *)
LEMMA EnqueueChanInv ==
  ASSUME Inv, NEW c \in Chans, NEW e \in Ends, Enqueue(c, e), chan[c] = "unused",
         chan' = [chan EXCEPT ![c] = "await"],
         UNCHANGED <<got, sent, run, step, leaked, wakes, held, late>>
  PROVE  Inv'
  <1> TypeOK /\ QueueInv /\ Unique /\ c \in Waiters
    BY Domains DEF Inv, QueueInv, Unique
  <1>1. ~InQueue(c) /\ c \notin sent /\ \A s \in States : c \notin Matching(s)
    BY DEF Inv, ChanInv, InUse
  <1>2. /\ UNCHANGED <<sync.alive, sync.refcount>> /\ sync' \in SyncType
        /\ \A v : InQueue(v)' <=> InQueue(v) \/ v = c
    BY <1>1, EnqueueQueue
  <1>3. end' = [end EXCEPT ![c] = e]
    BY DEF Enqueue
  <1>4. TypeOK'
    BY <1>2, <1>3, TypeParts DEF RestTyped, InUse
  <1>5. QueueInv'
    BY <1>1, EnqueueEnds
  <1>6. StepInv'
    BY <1>3, Domains DEF Inv, StepInv, TypeOK
  <1>7. ChanInv'
    BY <1>1, <1>2 DEF Inv, ChanInv, Matching, InUse, TypeOK
  <1>8. TaskInv'
    BY <1>2, Domains DEF Inv, TaskInv, Takes
  <1>9. GotInv'
    BY <1>2, Domains DEF Inv, GotInv, Matching
  <1>10. RefcountExact'
    BY <1>2, SameReferences, Referenced DEF TypeOK
  <1>11. QED
    BY <1>4, <1>5, <1>6, <1>7, <1>8, <1>9, <1>10, CountFrames DEF Inv

LEMMA AwaitChInv ==
  ASSUME Inv, NEW c \in Chans, NEW e \in Ends, AwaitCh(c, e)
  PROVE  Inv'
  <1>1. /\ step[Home[c]].pc = "none" /\ run[Home[c]] = "running" /\ Home[c] \in States
        /\ chan[c] = "unused" /\ UNCHANGED <<sent, run, leaked, wakes, held, late>>
    BY Domains DEF AwaitCh, Lua, taskVars
  <1>2. CASE Dequeue(Home[c], e) /\ UNCHANGED chan
    BY <1>1, <1>2, DequeueInv, Referenced
  <1>3. CASE /\ Enqueue(c, e) /\ chan' = [chan EXCEPT ![c] = "await"]
             /\ UNCHANGED <<got, step>>
    BY <1>1, <1>3, EnqueueChanInv
  <1>4. CASE sync' = Expecting(sync, e) /\ UNCHANGED <<chan, end, got, step>>
    BY <1>1, <1>4, ExpectInv
  <1>5. QED
    BY <1>2, <1>3, <1>4 DEF AwaitCh

LEMMA ChannelSyncInv ==
  ASSUME Inv, NEW c \in Chans, NEW e \in Ends, ChannelSync(c, e)
  PROVE  Inv'
  <1>1. /\ step[Home[c]].pc = "none" /\ run[Home[c]] = "running" /\ Home[c] \in States
        /\ chan[c] # "closed" /\ UNCHANGED <<chan, sent, run, leaked, wakes, held, late>>
    BY Domains DEF ChannelSync, Lua, taskVars
  <1>2. CASE Dequeue(Home[c], e)
    BY <1>1, <1>2, DequeueInv, Referenced
  <1>3. CASE sync' = Expecting(sync, e) /\ UNCHANGED <<end, got, step>>
    BY <1>1, <1>3, ExpectInv
  <1>4. QED
    BY <1>2, <1>3 DEF ChannelSync

-----------------------------------------------------------------------------
(* A state that is not matching, nor waiting, goes from a step to another. *)
Moves(s, k) ==
  /\ step[s].pc = "none" /\ run[s] \notin {"waiting", "suspended"}
  /\ run' = [run EXCEPT ![s] = k]
  /\ SameQueue
  /\ UNCHANGED <<step, sent, chan, wakes, held>>

LEMMA MovesInv ==
  ASSUME Inv, NEW s \in States, NEW k \in RunStates \ {"waiting", "suspended"}, Moves(s, k),
         end' \in [Waiters -> Ends \cup {{}}],
         \A w \in Waiters \ {s} : end'[w] = end[w],
         k = "matching" /\ s \in Tasks => end'[s] # {},
         got' = got \/ got' = [got EXCEPT ![s] = None],
         run[s] \in {"ready", "free"} => k \in {"ready", "free"} \/ got'[s] = None
  PROVE  /\ QueueInv' /\ StepInv' /\ ChanInv' /\ TaskInv' /\ GotInv' /\ WakesExact'
         /\ run' \in [States -> RunStates]
         /\ got' \in [Waiters \cup States -> Waiters \cup States \cup {None}]
  <1> TypeOK
    BY DEF Inv
  <1>1. /\ run'[s] = k /\ \A r \in States \ {s} : run'[r] = run[r]
        /\ run' \in [States -> RunStates]
    BY DEF Moves, TypeOK
  <1>2. \A w : InQueue(w)' <=> InQueue(w)
    BY SameInQueue DEF Moves
  <1>3. ~InQueue(s) /\ s \notin held /\ \A r \in States : s \in Tasks => ~Takes(r, s)
    BY QueueTyped, Domains DEF Inv, TaskInv, Moves, TypeOK, Waiters
  <1>4. QueueInv'
    <2>1. \A w \in Waiters : InQueue(w) => end'[w] = end[w]
      BY <1>3
    <2>2. QED
      BY <2>1, SameQueueInv DEF Inv, Moves
  <1>5. StepInv'
    BY <1>1, Domains DEF Inv, StepInv, Moves
  <1>6. ChanInv'
    BY <1>2, Frames DEF Moves
  <1>7. TaskInv'
    BY <1>1, <1>2, <1>3, Domains DEF Inv, TaskInv, Takes, Moves
  <1>8. GotInv'
    <2>1. /\ \A v \in (Waiters \cup States) \ {s} : got'[v] = got[v]
          /\ got'[s] # None => got[s] # None
      BY DEF TypeOK
    <2>2. \A c \in Chans : c # s /\ c \in Waiters
      BY Domains
    <2>3. \A c \in Chans : got'[c] # None => c \in sent' \/ \E r \in States : c \in Matching(r)'
      BY <2>1, <2>2 DEF Inv, GotInv, Matching, Moves
    <2>4. \A r \in States : got'[r] # None =>
            step'[r].pc # "none" \/ run'[r] \in {"waiting", "ready", "free"}
      BY <1>1, <2>1 DEF Inv, GotInv, Moves
    <2>5. \A t \in Tasks : InQueue(t)' => got'[t] = None
      BY <1>2, <1>3, <2>1, Domains DEF Inv, GotInv
    <2>6. QED
      BY <2>3, <2>4, <2>5 DEF GotInv
  <1>9. WakesExact'
    BY CountFrames DEF Moves
  <1>10. got' \in [Waiters \cup States -> Waiters \cup States \cup {None}]
    BY DEF TypeOK
  <1>11. QED
    BY <1>1, <1>4, <1>5, <1>6, <1>7, <1>8, <1>9, <1>10

(* Threads are not taken. *)
LEMMA SameThreads ==
  ASSUME TypeOK, BusyThreads <= MaxThreads, UNCHANGED late,
         \A t \in Tasks : UsesThread(t)' => UsesThread(t)
  PROVE  (BusyThreads <= MaxThreads)'
  <1>1. Users' \subseteq Users /\ Unreleased' = Unreleased
    BY DEF Users, Unreleased
  <1>2. Cardinality(Users') <= Cardinality(Users) /\ Cardinality(Users') \in Nat
    BY <1>1, Counted, FS_Subset, FS_CardinalityType
  <1>3. BusyThreads' = Cardinality(Users') + Cardinality(Unreleased)
    BY <1>1 DEF BusyThreads, Users
  <1>4. QED
    BY <1>2, <1>3, Counted, ConstantsAssumption

(* The steps that only move a state. *)
LEMMA OnlyMovesInv ==
  ASSUME Inv, NEW s \in States, NEW k \in {"stopping", "lookup", "ending", "dead", "hung"},
         run[s] \in {"running", "stopping", "ending"},
         Moves(s, k), UNCHANGED <<sync, got, late, leaked>>,
         end' \in [Waiters -> Ends \cup {{}}],
         \A w \in Waiters \ {s} : end'[w] = end[w]
  PROVE  Inv'
  <1>1. /\ QueueInv' /\ StepInv' /\ ChanInv' /\ TaskInv' /\ GotInv' /\ WakesExact'
        /\ run' \in [States -> RunStates]
    BY MovesInv DEF RunStates
  <1>2. TypeOK'
    BY <1>1, TypeParts DEF Inv, RestTyped, Moves
  <1>3. \A r \in States : run'[r] = IF r = s THEN k ELSE run[r]
    BY DEF Moves, Inv, TypeOK
  <1>4. RefcountExact'
    BY <1>3, SameReferences, Domains DEF Moves
  <1>5. (BusyThreads <= MaxThreads)'
    BY <1>3, SameThreads, Domains DEF Inv, UsesThread
  <1>6. QED
    BY <1>1, <1>2, <1>4, <1>5 DEF Inv

LEMMA RunStepsInv ==
  ASSUME Inv, NEW t \in Tasks, StopRun(t) \/ EndChunk(t) \/ CloseState(t)
  PROVE  Inv'
  <1>1. t \in States /\ UNCHANGED <<sync, got, step, leaked, chan, end, sent, wakes, held, late>>
    BY Domains DEF StopRun, EndChunk, CloseState, objVars, taskVars
  <1>2. step[t].pc = "none" /\ run[t] \in {"running", "ending"}
    BY Domains DEF StopRun, EndChunk, CloseState, Lua, Inv, StepInv
  <1>3. PICK k \in {"stopping", "ending", "dead"} : run' = [run EXCEPT ![t] = k]
    BY DEF StopRun, EndChunk, CloseState
  <1>4. Moves(t, k)
    BY <1>1, <1>2, <1>3 DEF Moves, SameQueue
  <1>5. QED
    BY <1>1, <1>2, <1>4, OnlyMovesInv DEF Inv, TypeOK

LEMMA CloseHangsInv ==
  ASSUME Inv, NEW c \in Chans, CloseHangs(c)
  PROVE  Inv'
  <1>1. /\ Home[c] \in States
        /\ UNCHANGED <<sync, got, step, leaked, chan, end, sent, wakes, held, late>>
        /\ run' = [run EXCEPT ![Home[c]] = "hung"]
    BY Domains DEF CloseHangs, objVars, taskVars
  <1>2. step[Home[c]].pc = "none" /\ run[Home[c]] \in {"running", "ending"}
    BY <1>1 DEF CloseHangs, Collected, Lua, Inv, StepInv
  <1>3. Moves(Home[c], "hung")
    BY <1>1, <1>2 DEF Moves, SameQueue
  <1>4. QED
    BY <1>1, <1>2, <1>3, OnlyMovesInv DEF Inv, TypeOK

LEMMA YieldNameInv ==
  ASSUME Inv, NEW t \in Tasks, NEW e \in Ends \cup {{}}, YieldName(t, e)
  PROVE  Inv'
  <1>1. /\ t \in States /\ step[t].pc = "none" /\ run[t] = "running"
        /\ UNCHANGED <<sync, got, step, leaked, chan, sent, wakes, held, late>>
        /\ run' = [run EXCEPT ![t] = "lookup"] /\ end' = [end EXCEPT ![t] = e]
    BY Domains DEF YieldName, Lua, taskVars
  <1>2. Moves(t, "lookup")
    BY <1>1 DEF Moves, SameQueue
  <1>3. end' \in [Waiters -> Ends \cup {{}}] /\ \A w \in Waiters \ {t} : end'[w] = end[w]
    BY <1>1 DEF Inv, TypeOK
  <1>4. QED
    BY <1>1, <1>2, <1>3, OnlyMovesInv

-----------------------------------------------------------------------------
(* The thread of a task that yielded the name of a channel. *)
LEMMA LookUpInv ==
  ASSUME Inv, NEW t \in Tasks, LookUp(t)
  PROVE  Inv'
  <1> TypeOK /\ RefcountExact /\ t \in States /\ t \in Waiters
    BY Domains DEF Inv
  <1> DEFINE k == IF end[t] = {} THEN "free" ELSE "matching"
  <1>1. /\ sync' = GetChSync(sync) /\ run[t] = "lookup" /\ run' = [run EXCEPT ![t] = k]
        /\ UNCHANGED <<got, step, leaked, chan, end, sent, wakes, held, late>>
    BY DEF LookUp, objVars, taskVars
  <1>2. SameQueue /\ sync' \in SyncType /\ sync'.refcount = sync.refcount + 1 /\ sync'.alive
    BY <1>1, GetQueue
  <1>3. step[t].pc = "none"
    BY <1>1 DEF Inv, StepInv
  <1>4. Moves(t, k)
    BY <1>1, <1>2, <1>3 DEF Moves
  <1>5. /\ QueueInv' /\ StepInv' /\ ChanInv' /\ TaskInv' /\ GotInv' /\ WakesExact'
        /\ run' \in [States -> RunStates]
    BY <1>1, <1>4, MovesInv DEF RunStates, TypeOK
  <1>6. TypeOK'
    BY <1>1, <1>2, <1>5, TypeParts DEF RestTyped
  <1>7. \A r \in States : run'[r] = IF r = t THEN k ELSE run[r]
    BY <1>1 DEF TypeOK
  <1>8. RefcountExact'
    <2>1. Matchers' = Matchers \cup {t} /\ t \notin Matchers
      BY <1>1, <1>7, Domains DEF Matchers
    <2>2. Cardinality(Matchers)' = Cardinality(Matchers) + 1
      BY <2>1, Counted, FS_AddElement
    <2>3. OpenChans' = OpenChans /\ Unreleased' = Unreleased
      BY <1>1 DEF OpenChans, Unreleased
    <2>4. References' = References + 1 /\ References \in Nat
      BY <2>2, <2>3, Counted DEF References
    <2>5. sync.refcount = References + leaked /\ sync.refcount \in Nat /\ leaked \in Nat
      BY Referenced DEF RefcountExact
    <2>6. sync'.refcount = References' + leaked'
      BY <1>1, <1>2, <2>4, <2>5
    <2>7. sync'.alive <=> (sync'.refcount > 0 \/ sync'.queue # <<>>)
      BY <1>2, <2>5
    <2>8. QED
      BY <2>6, <2>7 DEF RefcountExact
  <1>9. (BusyThreads <= MaxThreads)'
    BY <1>1, <1>7, SameThreads, Domains DEF Inv, UsesThread
  <1>10. QED
    BY <1>5, <1>6, <1>8, <1>9 DEF Inv

LEMMA FreeTaskInv ==
  ASSUME Inv, NEW t \in Tasks, FreeTask(t)
  PROVE  Inv'
  <1> TypeOK /\ RefcountExact /\ t \in States /\ t \in Waiters
    BY Domains DEF Inv
  <1>1. /\ sync' = FreeChSync(sync) /\ run[t] = "free" /\ run' = [run EXCEPT ![t] = "ready"]
        /\ UNCHANGED <<got, step, leaked, chan, end, sent, wakes, held, late>>
    BY DEF FreeTask, objVars, taskVars
  <1>2. /\ SameQueue /\ sync' \in SyncType /\ sync'.refcount = sync.refcount - 1
        /\ sync'.alive <=> (sync'.refcount > 0 \/ sync'.queue # <<>>)
    BY <1>1, FreeQueue, Referenced
  <1>3. step[t].pc = "none"
    BY <1>1 DEF Inv, StepInv
  <1>4. Moves(t, "ready")
    BY <1>1, <1>2, <1>3 DEF Moves
  <1>5. /\ QueueInv' /\ StepInv' /\ ChanInv' /\ TaskInv' /\ GotInv' /\ WakesExact'
        /\ run' \in [States -> RunStates]
    BY <1>1, <1>4, MovesInv DEF RunStates, TypeOK
  <1>6. TypeOK'
    BY <1>1, <1>2, <1>5, TypeParts DEF RestTyped
  <1>7. \A r \in States : run'[r] = IF r = t THEN "ready" ELSE run[r]
    BY <1>1 DEF TypeOK
  <1>8. RefcountExact'
    <2>1. Matchers' = Matchers \ {t} /\ t \in Matchers
      BY <1>1, <1>7, Domains DEF Matchers
    <2>2. Cardinality(Matchers)' = Cardinality(Matchers) - 1
      BY <2>1, Counted, FS_RemoveElement
    <2>3. OpenChans' = OpenChans /\ Unreleased' = Unreleased
      BY <1>1 DEF OpenChans, Unreleased
    <2>4. References' = References - 1 /\ References \in Nat
      BY <2>2, <2>3, Counted DEF References
    <2>5. sync.refcount = References + leaked /\ sync.refcount \in Nat /\ leaked \in Nat
      BY Referenced DEF RefcountExact
    <2>6. sync'.refcount = References' + leaked'
      BY <1>1, <1>2, <2>4, <2>5
    <2>7. sync'.alive <=> (sync'.refcount > 0 \/ sync'.queue # <<>>)
      BY <1>2
    <2>8. QED
      BY <2>6, <2>7 DEF RefcountExact
  <1>9. (BusyThreads <= MaxThreads)'
    BY <1>1, <1>7, SameThreads, Domains DEF Inv, UsesThread
  <1>10. QED
    BY <1>5, <1>6, <1>8, <1>9 DEF Inv

LEMMA FreeLateInv ==
  ASSUME Inv, NEW t \in Tasks, FreeLate(t)
  PROVE  Inv'
  <1> TypeOK /\ RefcountExact
    BY DEF Inv
  <1>1. /\ late[t] > 0 /\ late' = [late EXCEPT ![t] = @ - 1]
        /\ UNCHANGED <<got, run, step, wakes, held, chan, end, sent>>
    BY DEF FreeLate, objVars
  <1>2. /\ Cardinality(Unreleased)' = Cardinality(Unreleased) - 1
        /\ OpenChans' = OpenChans /\ Matchers' = Matchers /\ Users' = Users
    BY <1>1, LateLess DEF OpenChans, Matchers, Users, UsesThread
  <1>3. /\ SameQueue /\ sync' \in SyncType
        /\ leaked' \in 0..MaxLeaks
        /\ sync'.refcount - leaked' = sync.refcount - leaked - 1
        /\ sync'.alive <=> (sync'.refcount > 0 \/ sync'.queue # <<>>)
    <2>1. CASE sync' = FreeChSync(sync) /\ UNCHANGED leaked
      <3>1. /\ SameQueue /\ sync' \in SyncType /\ sync'.refcount = sync.refcount - 1
            /\ sync'.alive <=> (sync'.refcount > 0 \/ sync'.queue # <<>>)
        BY <1>1, <2>1, FreeQueue, Referenced
      <3>2. sync'.refcount - leaked' = sync.refcount - leaked - 1
        BY <2>1, <3>1, Referenced
      <3>3. QED
        BY <2>1, <3>1, <3>2 DEF TypeOK
    <2>2. CASE leaked < MaxLeaks /\ leaked' = leaked + 1 /\ UNCHANGED sync
      BY <2>2, Referenced, QueueTyped, ConstantsAssumption DEF SameQueue, RefcountExact
    <2>3. QED
      BY <2>1, <2>2 DEF FreeLate
  <1>4. late' \in [Tasks -> 0..MaxThreads]
    BY <1>1, ConstantsAssumption DEF TypeOK
  <1>5. TypeOK'
    BY <1>1, <1>3, <1>4, TypeParts DEF RestTyped
  <1>6. QueueInv'
    BY <1>1, <1>3, SameQueueInv DEF Inv
  <1>7. RefcountExact'
    <2>1. sync'.refcount \in Nat /\ leaked' \in Nat
      BY <1>3, ConstantsAssumption DEF SyncType
    <2>2. References' = References - 1
      BY <1>2, Counted DEF References
    <2>3. References \in Nat /\ sync.refcount \in Nat /\ leaked \in Nat
      BY Counted, Referenced
    <2>4. sync.refcount = References + leaked
      BY DEF RefcountExact
    <2>5. sync'.refcount = References' + leaked'
      BY <1>3, <2>1, <2>2, <2>3, <2>4
    <2>6. QED
      BY <1>3, <2>5 DEF RefcountExact
  <1>8. (BusyThreads <= MaxThreads)'
    <2>1. BusyThreads' = Cardinality(Users)' + Cardinality(Unreleased)'
      BY DEF BusyThreads, Users
    <2>2. BusyThreads' = BusyThreads - 1
      BY <1>2, <2>1, Counted
    <2>3. QED
      BY <2>2, Counted, ConstantsAssumption DEF Inv
  <1>9. QED
    BY <1>1, <1>3, <1>5, <1>6, <1>7, <1>8, SameInQueue, Frames, CountFrames DEF Inv

(* A task waits in the queue, and its thread is to release the reference.  *)
LEMMA EnqueueTaskInv ==
  ASSUME Inv, NEW t \in Tasks, Enqueue(t, end[t]), run[t] = "matching", step[t].pc = "none",
         run' = [run EXCEPT ![t] = "waiting"], late' = [late EXCEPT ![t] = @ + 1],
         UNCHANGED <<step, got, chan, sent, leaked, wakes, held>>
  PROVE  Inv'
  <1> TypeOK /\ QueueInv /\ Unique /\ t \in Waiters /\ t \in States
    BY Domains DEF Inv, QueueInv, Unique
  <1>1. /\ end[t] \in Ends /\ ~InQueue(t) /\ got[t] = None
        /\ \A s \in States : ~Takes(s, t)
    BY DEF Inv, StepInv, TaskInv, GotInv, TypeOK
  <1>2. /\ UNCHANGED <<sync.alive, sync.refcount>> /\ sync' \in SyncType
        /\ \A v : InQueue(v)' <=> InQueue(v) \/ v = t
    BY <1>1, EnqueueQueue
  <1>3. end' = end
    BY DEF Enqueue, TypeOK
  <1>4. /\ run' \in [States -> RunStates]
        /\ \A r \in States : run'[r] = IF r = t THEN "waiting" ELSE run[r]
    BY DEF TypeOK, RunStates
  <1>5. QueueInv'
    BY <1>1, EnqueueEnds
  <1>6. StepInv'
    BY <1>3, <1>4 DEF Inv, StepInv
  <1>7. ChanInv'
    BY <1>2, Domains DEF Inv, ChanInv, Matching
  <1>8. TaskInv'
    BY <1>1, <1>2, <1>4, Domains DEF Inv, TaskInv, Takes
  <1>9. GotInv'
    BY <1>1, <1>2, <1>4, Domains DEF Inv, GotInv, Matching
  <1>10. Cardinality(Unreleased)' = Cardinality(Unreleased) + 1
    BY LateMore
  <1>11. RefcountExact'
    <2>1. Matchers' = Matchers \ {t} /\ t \in Matchers /\ OpenChans' = OpenChans
      BY <1>4, Domains DEF Matchers, OpenChans
    <2>2. Cardinality(Matchers)' = Cardinality(Matchers) - 1
      BY <2>1, Counted, FS_RemoveElement
    <2>3. References' = References
      BY <1>10, <2>1, <2>2, Counted DEF References
    <2>4. QED
      BY <1>2, <2>3, Referenced DEF Inv, RefcountExact
  <1>12. BusyThreads' = BusyThreads /\ Cardinality(Users) # 0
    <2>1. Users' = Users \ {t} /\ t \in Users
      BY <1>4, Domains DEF Users, UsesThread
    <2>2. Cardinality(Users)' = Cardinality(Users) - 1 /\ Cardinality(Users) # 0
      BY <2>1, Counted, FS_RemoveElement, FS_EmptySet
    <2>3. QED
      BY <1>10, <2>2, Counted DEF BusyThreads, Users
  <1>13. TypeOK'
    <2>1. late[t] + 1 \in 0..MaxThreads
      <3>1. late[t] <= Cardinality(Unreleased) /\ late[t] \in Nat
        BY LateBound, ConstantsAssumption DEF TypeOK
      <3>2. Cardinality(Users) + Cardinality(Unreleased) <= MaxThreads
        BY Counted DEF Inv
      <3>3. QED
        BY <1>12, <3>1, <3>2, Counted, ConstantsAssumption
    <2>2. late' \in [Tasks -> 0..MaxThreads]
      BY <2>1 DEF TypeOK
    <2>3. QED
      BY <1>2, <1>3, <1>4, <2>2, TypeParts DEF RestTyped
  <1>14. QED
    BY <1>5, <1>6, <1>7, <1>8, <1>9, <1>11, <1>12, <1>13, CountFrames, ConstantsAssumption
       DEF Inv

LEMMA MatchTaskInv ==
  ASSUME Inv, NEW t \in Tasks, MatchTask(t)
  PROVE  Inv'
  <1>1. /\ t \in States /\ run[t] = "matching" /\ step[t].pc = "none"
        /\ UNCHANGED <<chan, sent, leaked, wakes, held>>
    BY Domains DEF MatchTask
  <1>2. end[t] \in Ends
    BY <1>1, Domains DEF Inv, StepInv, TypeOK
  <1>3. CASE Dequeue(t, end[t]) /\ UNCHANGED <<run, late>>
    BY <1>1, <1>2, <1>3, DequeueInv, Referenced
  <1>4. CASE /\ Enqueue(t, end[t]) /\ run' = [run EXCEPT ![t] = "waiting"]
             /\ late' = [late EXCEPT ![t] = @ + 1] /\ UNCHANGED <<step, got>>
    BY <1>1, <1>4, EnqueueTaskInv
  <1>5. QED
    BY <1>3, <1>4 DEF MatchTask

-----------------------------------------------------------------------------
(* Tasks are taken by threads, and suspended. *)
LEMMA PickInv ==
  ASSUME Inv, NEW t \in Tasks, Pick(t)
  PROVE  Inv'
  <1> TypeOK /\ t \in States /\ t \in Waiters
    BY Domains DEF Inv
  <1>1. /\ run[t] = "ready" /\ BusyThreads < MaxThreads
        /\ run' = [run EXCEPT ![t] = "running"] /\ got' = [got EXCEPT ![t] = None]
        /\ UNCHANGED <<sync, step, leaked, chan, end, sent, wakes, held, late>>
    BY DEF Pick, objVars, taskVars
  <1>2. step[t].pc = "none" /\ got'[t] = None
    BY <1>1 DEF Inv, StepInv, TypeOK
  <1>3. Moves(t, "running")
    BY <1>1, <1>2 DEF Moves, SameQueue
  <1>4. /\ QueueInv' /\ StepInv' /\ ChanInv' /\ TaskInv' /\ GotInv' /\ WakesExact'
        /\ run' \in [States -> RunStates]
        /\ got' \in [Waiters \cup States -> Waiters \cup States \cup {None}]
    BY <1>1, <1>2, <1>3, MovesInv DEF RunStates, TypeOK
  <1>5. TypeOK'
    BY <1>1, <1>4, TypeParts DEF RestTyped
  <1>6. \A r \in States : run'[r] = IF r = t THEN "running" ELSE run[r]
    BY <1>1 DEF TypeOK
  <1>7. RefcountExact'
    BY <1>1, <1>6, SameReferences, Domains
  <1>8. (BusyThreads <= MaxThreads)'
    <2>1. Users' = Users \cup {t} /\ t \notin Users /\ Unreleased' = Unreleased
      BY <1>1, <1>6, Domains DEF Users, UsesThread, Unreleased
    <2>2. Cardinality(Users)' = Cardinality(Users) + 1
      BY <2>1, Counted, FS_AddElement
    <2>3. BusyThreads' = Cardinality(Users)' + Cardinality(Unreleased)'
      BY DEF BusyThreads, Users
    <2>4. QED
      BY <1>1, <2>1, <2>2, <2>3, Counted, ConstantsAssumption
  <1>9. QED
    BY <1>4, <1>5, <1>7, <1>8 DEF Inv

LEMMA SuspendedInv ==
  ASSUME Inv, NEW t \in Tasks, SuspendedChTask(t)
  PROVE  Inv'
  <1> TypeOK /\ t \in States /\ t \in Waiters
    BY Domains DEF Inv
  <1>1. /\ run[t] = "stopping"
        /\ UNCHANGED <<sync, got, step, leaked, chan, end, sent, wakes, late>>
    BY DEF SuspendedChTask, objVars
  <1>2. /\ step[t].pc = "none" /\ got[t] = None /\ ~InQueue(t) /\ t \notin held
        /\ \A s \in States : ~Takes(s, t)
    BY <1>1 DEF Inv, StepInv, TaskInv, GotInv
  <1>3. SameQueue /\ \A w : InQueue(w)' <=> InQueue(w)
    BY <1>1 DEF SameQueue, InQueue
  <1>4. PICK k \in {"suspended", "ready"} :
          /\ run' = [run EXCEPT ![t] = k]
          /\ k = "suspended" => wakes[t] = 0 /\ held' = held \cup {t}
          /\ k = "ready" => held' = held
    BY DEF SuspendedChTask
  <1>5. /\ run' \in [States -> RunStates]
        /\ \A r \in States : run'[r] = IF r = t THEN k ELSE run[r]
    BY <1>4 DEF TypeOK, RunStates
  <1>6. TypeOK'
    <2>1. held' \subseteq Tasks
      BY <1>4 DEF TypeOK
    <2>2. QED
      BY <1>1, <1>5, <2>1, TypeParts DEF RestTyped
  <1>7. QueueInv'
    BY <1>1, <1>3, SameQueueInv DEF Inv
  <1>8. StepInv'
    BY <1>1, <1>2, <1>5, Domains DEF Inv, StepInv
  <1>9. TaskInv'
    BY <1>1, <1>2, <1>3, <1>4, <1>5, Domains DEF Inv, TaskInv, Takes
  <1>10. GotInv'
    BY <1>1, <1>2, <1>3, <1>5 DEF Inv, GotInv, Matching
  <1>11. RefcountExact'
    BY <1>1, <1>5, SameReferences, Domains
  <1>12. (BusyThreads <= MaxThreads)'
    BY <1>1, <1>5, SameThreads, Domains DEF Inv, UsesThread
  <1>13. QED
    BY <1>1, <1>3, <1>6, <1>7, <1>8, <1>9, <1>10, <1>11, <1>12, Frames, CountFrames DEF Inv

-----------------------------------------------------------------------------
(* Callbacks of the channels of task t that are due. *)
Due(t) == {c \in sent : Home[c] = t}

LEMMA WakesCounted ==
  ASSUME TypeOK, NEW t
  PROVE  /\ IsFiniteSet(Due(t)) /\ Cardinality(Due(t)) \in Nat
         /\ IsFiniteSet(Counting(t)) /\ Cardinality(Counting(t)) \in Nat
  <1>1. IsFiniteSet(States)
    BY ConstantsAssumption, FS_AddElement DEF States
  <1>2. Due(t) \subseteq Chans /\ Counting(t) \subseteq States
    BY DEF Due, Counting, TypeOK
  <1>3. QED
    BY <1>1, <1>2, ConstantsAssumption, FS_Subset, FS_CardinalityType

LEMMA OnSyncedInv ==
  ASSUME Inv, NEW c \in Chans, OnSynced(c)
  PROVE  Inv'
  <1> DEFINE h == Home[c]
  <1> TypeOK /\ h \in States /\ c \in Waiters
    BY Domains DEF Inv
  <1>1. /\ c \in sent /\ sent' = sent \ {c}
        /\ wakes' = IF h \in Tasks THEN [wakes EXCEPT ![h] = @ - 1] ELSE wakes
        /\ chan' = IF chan[c] = "lost" THEN chan ELSE [chan EXCEPT ![c] = "unused"]
        /\ got' = [got EXCEPT ![c] = None]
        /\ UNCHANGED <<sync, end, run, step, leaked, held, late>>
        /\ run[h] \in {"running", "stopping", "ending", "hung"}
    BY DEF OnSynced, Lua
  <1>2. SameQueue /\ \A w : InQueue(w)' <=> InQueue(w)
    BY <1>1 DEF SameQueue, InQueue
  <1>3. chan[c] \in InUse /\ ~InQueue(c) /\ \A s \in States : c \notin Matching(s)
    BY <1>1 DEF Inv, ChanInv
  <1>4. /\ chan' \in [Chans -> InUse \cup {"closed", "unused", "closing"}]
        /\ \A d \in Chans \ {c} : chan'[d] = chan[d]
        /\ chan'[c] \in {"lost", "unused"}
    BY <1>1 DEF TypeOK
  <1>5. TypeOK'
    <2>1. wakes' \in [Tasks -> Int]
      BY <1>1 DEF TypeOK
    <2>2. got' \in [Waiters \cup States -> Waiters \cup States \cup {None}]
      BY <1>1 DEF TypeOK
    <2>3. QED
      BY <1>1, <1>4, <2>1, <2>2, TypeParts DEF RestTyped
  <1>6. QueueInv'
    BY <1>1, <1>2, SameQueueInv DEF Inv
  <1>7. StepInv'
    BY <1>1, <1>2, Frames
  <1>8. ChanInv'
    BY <1>1, <1>2, <1>3, <1>4 DEF Inv, ChanInv, Matching
  <1>9. TaskInv'
    <2>1. h \in Tasks => h \notin held
      BY <1>1 DEF Inv, TaskInv
    <2>2. \A t \in Tasks \ {h} : wakes'[t] = wakes[t]
      BY <1>1 DEF TypeOK
    <2>3. QED
      BY <1>1, <1>2, <2>1, <2>2 DEF Inv, TaskInv, Takes
  <1>10. GotInv'
    <2>1. \A w \in (Waiters \cup States) \ {c} : got'[w] = got[w]
      BY <1>1 DEF TypeOK
    <2>2. got'[c] = None
      BY <1>1 DEF TypeOK
    <2>3. QED
      BY <1>1, <1>2, <2>1, <2>2, Domains DEF Inv, GotInv, Matching
  <1>11. WakesExact'
    <2>1. ASSUME NEW t \in Tasks
          PROVE  wakes'[t] = Cardinality(Due(t)') - Cardinality(Counting(t)')
      <3>1. Counting(t)' = Counting(t) /\ wakes[t] \in Int
        BY <1>1 DEF Counting, TypeOK
      <3>2. wakes[t] = Cardinality(Due(t)) - Cardinality(Counting(t))
        BY DEF Inv, WakesExact, Due
      <3>3. CASE t = h
        <4>1. Due(t)' = Due(t) \ {c} /\ c \in Due(t)
          BY <1>1, <3>3 DEF Due
        <4>2. Cardinality(Due(t)') = Cardinality(Due(t)) - 1
          BY <4>1, WakesCounted, FS_RemoveElement
        <4>3. wakes'[t] = wakes[t] - 1
          BY <1>1, <3>3 DEF TypeOK
        <4>4. QED
          BY <3>1, <3>2, <4>2, <4>3, WakesCounted
      <3>4. CASE t # h
        <4>1. Due(t)' = Due(t) /\ wakes'[t] = wakes[t]
          BY <1>1, <3>4 DEF Due, TypeOK
        <4>2. QED
          BY <3>1, <3>2, <4>1
      <3>5. QED
        BY <3>3, <3>4
    <2>2. QED
      BY <2>1 DEF WakesExact, Due
  <1>12. RefcountExact'
    BY <1>1, <1>3, <1>4, SameReferences DEF InUse
  <1>13. QED
    BY <1>1, <1>5, <1>6, <1>7, <1>8, <1>9, <1>10, <1>11, <1>12, CountFrames DEF Inv

-----------------------------------------------------------------------------
(* The rest of the matching done by s, that goes to step x.  When it is    *)
(* over, a coroutine goes on with the values, or a thread with its task.   *)
StepTo(s, x) == step' = [step EXCEPT ![s] = x]
Over(s) ==
  /\ run' \in [States -> RunStates]
  /\ \A r \in States : r # s => run'[r] = run[r] \/ step[s] = [pc |-> "resume", match |-> r, on |-> {}]
  /\ \/ run[s] = "matching" /\ run'[s] = "free" /\ got' = got
     \/ run[s] = "running" /\ run'[s] = "running" /\ got' = [got EXCEPT ![s] = None]

LEMMA MatchEndsOver ==
  ASSUME Inv, NEW s \in States, step[s].pc # "none", MatchEnds(s)
  PROVE  StepTo(s, NoStep) /\ Over(s) /\ \A r \in States : r # s => run'[r] = run[r]
  <1>1. run[s] \in {"running", "matching"} /\ run \in [States -> RunStates]
    BY DEF Inv, StepInv, TypeOK
  <1>2. StepTo(s, NoStep)
    BY DEF MatchEnds, StepTo
  <1>3. CASE run[s] = "matching"
    BY <1>1, <1>2, <1>3 DEF MatchEnds, Over, RunStates
  <1>4. CASE run[s] = "running"
    BY <1>1, <1>2, <1>4 DEF MatchEnds, Over
  <1>5. QED
    BY <1>1, <1>3, <1>4

(* What the steps of a matching have in common. *)
LEMMA MatchStepInv ==
  ASSUME Inv, NEW s \in States, step[s].pc # "none",
         NEW x \in [pc: {"none", "count", "resume"}, match: Waiters \cup {None}, on: {{}}],
         StepTo(s, x), x.pc = "none" => x = NoStep,
         x.pc = "count" => x.match \in Chans /\ Home[x.match] \in Tasks,
         x.pc = "resume" => x.match \in Tasks,
         (x.pc # "none" /\ UNCHANGED <<run, got>>) \/ (x.pc = "none" /\ Over(s)),
         \A t \in Tasks : UsesThread(t)' => UsesThread(t),
         \A t \in Tasks : run'[t] \in {"matching", "free"} <=> run[t] \in {"matching", "free"},
         \A t \in Tasks : run'[t] = "matching" => run'[t] = run[t],
         UNCHANGED <<sync, chan, end, late, leaked>>
  PROVE  /\ QueueInv' /\ StepInv' /\ RefcountExact' /\ (BusyThreads <= MaxThreads)'
         /\ run' \in [States -> RunStates]
         /\ got' \in [Waiters \cup States -> Waiters \cup States \cup {None}]
         /\ step' \in [States -> [pc: {"none", "swap", "count", "resume"},
                                  match: Waiters \cup {None}, on: Ends \cup {{}}]]
         /\ step'[s] = x /\ \A r \in States \ {s} : step'[r] = step[r]
         /\ \A w : InQueue(w)' <=> InQueue(w)
  <1> TypeOK
    BY DEF Inv
  <1>1. SameQueue /\ \A w : InQueue(w)' <=> InQueue(w)
    BY DEF SameQueue, InQueue
  <1>2. QueueInv'
    BY <1>1, SameQueueInv DEF Inv
  <1>3. RefcountExact'
    BY SameReferences
  <1>4. (BusyThreads <= MaxThreads)'
    BY SameThreads DEF Inv
  <1>5. run' \in [States -> RunStates]
    BY DEF Over, TypeOK
  <1>6. got' \in [Waiters \cup States -> Waiters \cup States \cup {None}]
    BY DEF Over, TypeOK
  <1>7. /\ step' \in [States -> [pc: {"none", "swap", "count", "resume"},
                                 match: Waiters \cup {None}, on: Ends \cup {{}}]]
        /\ step'[s] = x /\ \A r \in States \ {s} : step'[r] = step[r]
    BY DEF StepTo, TypeOK
  <1>8. StepInv'
    <2>1. run[s] \in {"running", "matching"}
      BY DEF Inv, StepInv
    <2>2. x.on = {} /\ x.pc \in {"none", "count", "resume"}
      OBVIOUS
    <2>3. x.pc # "none" => run'[s] \in {"running", "matching"}
      BY <2>1
    <2>4. x.pc = "none" => run'[s] # "matching"
      BY DEF Over
    <2>5. ASSUME NEW r \in States \ {s}, step[r].pc # "none"
          PROVE  run'[r] \in {"running", "matching"}
      <3>1. run[r] \in {"running", "matching"}
        BY <2>5 DEF Inv, StepInv
      <3>2. step[s].pc = "resume" /\ step[s].match = r => FALSE
        <4>1. step[s].pc = "resume" /\ step[s].match = r => r \in Tasks /\ Takes(s, r)
          BY DEF Inv, StepInv, Takes
        <4>2. QED
          BY <3>1, <4>1 DEF Inv, TaskInv
      <3>3. step[s] # [pc |-> "resume", match |-> r, on |-> {}]
        BY <3>2
      <3>4. r \in States /\ r # s
        OBVIOUS
      <3>5. CASE UNCHANGED run
        BY <3>1, <3>5
      <3>6. CASE Over(s)
        BY <3>1, <3>3, <3>4, <3>6 DEF Over
      <3>7. QED
        BY <3>5, <3>6
    <2>6. \A r \in Tasks \ {s} : run'[r] = "matching" => run[r] = "matching"
      OBVIOUS
    <2>7. QED
      BY <1>7, <2>2, <2>3, <2>4, <2>5, <2>6 DEF Inv, StepInv
  <1>9. QED
    BY <1>1, <1>2, <1>3, <1>4, <1>5, <1>6, <1>7, <1>8

LEMMA StepToGoes ==
  ASSUME TypeOK, NEW s \in States, NEW p,
         step' = [step EXCEPT ![s].pc = p, ![s].on = {}]
  PROVE  StepTo(s, [pc |-> p, match |-> step[s].match, on |-> {}])
  <1> DEFINE a == [step EXCEPT ![s].pc = p]
             y == [pc |-> p, match |-> step[s].match, on |-> step[s].on]
             x == [pc |-> p, match |-> step[s].match, on |-> {}]
  <1>1. step \in [States -> [pc: {"none", "swap", "count", "resume"},
                             match: Waiters \cup {None}, on: Ends \cup {{}}]]
    BY DEF TypeOK
  <1>2. step[s] \in [pc: {"none", "swap", "count", "resume"},
                     match: Waiters \cup {None}, on: Ends \cup {{}}]
    BY <1>1
  <1>3. [step[s] EXCEPT !.pc = p] = y
    BY <1>2
  <1>4. a = [step EXCEPT ![s] = y]
    BY <1>3
  <1>5. a[s] = y /\ DOMAIN a = States
    BY <1>1, <1>4
  <1>6. [y EXCEPT !.on = {}] = x
    OBVIOUS
  <1>7. step' = [a EXCEPT ![s] = [a[s] EXCEPT !.on = {}]]
    OBVIOUS
  <1> HIDE DEF a, x, y
  <1>8. step' = [a EXCEPT ![s] = x]
    BY <1>5, <1>6, <1>7
  <1>9. step' = [step EXCEPT ![s] = x]
    BY <1>1, <1>4, <1>8
  <1>10. QED
    BY <1>9 DEF StepTo, x

LEMMA SwapValuesInv ==
  ASSUME Inv, NEW s \in States, SwapValues(s)
  PROVE  Inv'
  <1> DEFINE w == step[s].match
  <1> TypeOK
    BY DEF Inv
  <1>1. /\ step[s].pc = "swap" /\ w \in Waiters /\ Matching(s) = {w}
        /\ UNCHANGED <<sync, chan, end, leaked, wakes, held, late>>
    BY DEF SwapValues, taskVars, Matching, Inv, StepInv
  <1>2. step[s] \in [pc: {"none", "swap", "count", "resume"},
                     match: Waiters \cup {None}, on: Ends \cup {{}}]
    BY DEF TypeOK
  <1>3. \A r \in States \ {s} : w \in Chans => w \notin Matching(r)
    BY <1>1 DEF Inv, ChanInv
  <1>4. CASE w \in Tasks
    <2> DEFINE x == [pc |-> "resume", match |-> w, on |-> {}]
    <2>1. StepTo(s, x) /\ UNCHANGED <<sent, got, run>>
      <3>1. w \notin Chans
        BY <1>4, ConstantsAssumption
      <3>2. UNCHANGED <<sent, got, run>>
            /\ step' = [step EXCEPT ![s].pc = "resume", ![s].on = {}]
        BY <3>1 DEF SwapValues
      <3>3. QED
        BY <3>2, StepToGoes
    <2>2. x \in [pc: {"none", "count", "resume"}, match: Waiters \cup {None}, on: {{}}]
      BY <1>1
    <2>3. x.pc = "resume" /\ x.match = w
      OBVIOUS
    <2> HIDE DEF x
    <2>4. /\ QueueInv' /\ StepInv' /\ RefcountExact' /\ (BusyThreads <= MaxThreads)'
          /\ step' \in [States -> [pc: {"none", "swap", "count", "resume"},
                                   match: Waiters \cup {None}, on: Ends \cup {{}}]]
          /\ step'[s] = x /\ \A r \in States \ {s} : step'[r] = step[r]
          /\ \A v : InQueue(v)' <=> InQueue(v)
      BY <1>1, <1>4, <2>1, <2>2, <2>3, MatchStepInv DEF UsesThread
    <2>5. TypeOK'
      BY <1>1, <2>1, <2>4, TypeParts DEF RestTyped
    <2>6. ChanInv'
      <3>1. \A r \in States, c \in Chans : c \in Matching(r)' <=> c \in Matching(r)
        BY <1>1, <1>4, <2>3, <2>4, ConstantsAssumption DEF Matching
      <3>2. QED
        BY <1>1, <2>1, <2>4, <3>1 DEF Inv, ChanInv
    <2>7. \A r \in States, t \in Tasks : Takes(r, t)' <=> Takes(r, t)
      BY <1>1, <2>3, <2>4 DEF Takes
    <2>8. TaskInv'
      BY <1>1, <2>1, <2>3, <2>4, <2>7 DEF Inv, TaskInv
    <2>9. GotInv'
      <3>1. \A r \in States, c \in Chans : c \in Matching(r)' <=> c \in Matching(r)
        BY <1>1, <1>4, <2>3, <2>4, ConstantsAssumption DEF Matching
      <3>2. \A r \in States : step'[r].pc = "none" <=> step[r].pc = "none"
        BY <1>1, <2>3, <2>4
      <3>3. QED
        BY <2>1, <2>4, <3>1, <3>2 DEF Inv, GotInv
    <2>10. WakesExact'
      <3>1. \A t \in Tasks : Counting(t)' = Counting(t)
        BY <1>1, <2>3, <2>4 DEF Counting
      <3>2. QED
        BY <1>1, <2>1, <3>1 DEF Inv, WakesExact
    <2>11. QED
      BY <2>4, <2>5, <2>6, <2>8, <2>9, <2>10 DEF Inv
  <1>5. CASE w \in Chans
    <2>1. PICK x \in [pc: {"none", "count"}, match: Waiters \cup {None}, on: {{}}] :
            /\ StepTo(s, x)
            /\ x.pc = "none" => x = NoStep /\ Home[w] \notin Tasks /\ MatchEnds(s)
            /\ x.pc = "count" => x.match = w /\ Home[w] \in Tasks /\ UNCHANGED <<run, got>>
      <3>1. CASE Home[w] \in Tasks
        <4> DEFINE x == [pc |-> "count", match |-> w, on |-> {}]
        <4>1. UNCHANGED <<got, run>>
              /\ step' = [step EXCEPT ![s].pc = "count", ![s].on = {}]
          BY <1>5, <3>1, ConstantsAssumption DEF SwapValues
        <4>2. StepTo(s, x)
          BY <4>1, StepToGoes
        <4>3. x \in [pc: {"none", "count"}, match: Waiters \cup {None}, on: {{}}]
          BY <1>1
        <4>4. x.pc = "count" /\ x.match = w
          OBVIOUS
        <4> HIDE DEF x
        <4>5. QED
          BY <3>1, <4>1, <4>2, <4>3, <4>4
      <3>2. CASE Home[w] \notin Tasks
        <4>1. MatchEnds(s)
          BY <1>5, <3>2, ConstantsAssumption DEF SwapValues
        <4>2. StepTo(s, NoStep)
          BY <1>1, <4>1, MatchEndsOver
        <4>3. NoStep \in [pc: {"none", "count"}, match: Waiters \cup {None}, on: {{}}]
              /\ NoStep.pc = "none"
          BY DEF NoStep
        <4>4. QED
          BY <3>2, <4>1, <4>2, <4>3
      <3>3. QED
        BY <3>1, <3>2
    <2>2. sent' = sent \cup {w}
      BY <1>5, ConstantsAssumption DEF SwapValues
    <2>3. /\ \A r \in States : r # s => run'[r] = run[r]
          /\ run'[s] = run[s] \/ (run[s] = "matching" /\ run'[s] = "free")
          /\ x.pc = "none" => Over(s)
      BY <1>1, <2>1, MatchEndsOver DEF Over
    <2>4. /\ QueueInv' /\ StepInv' /\ RefcountExact' /\ (BusyThreads <= MaxThreads)'
          /\ run' \in [States -> RunStates]
          /\ got' \in [Waiters \cup States -> Waiters \cup States \cup {None}]
          /\ step' \in [States -> [pc: {"none", "swap", "count", "resume"},
                                   match: Waiters \cup {None}, on: Ends \cup {{}}]]
          /\ step'[s] = x /\ \A r \in States \ {s} : step'[r] = step[r]
          /\ \A v : InQueue(v)' <=> InQueue(v)
      <3>1. x \in [pc: {"none", "count", "resume"}, match: Waiters \cup {None}, on: {{}}]
            /\ x.pc # "resume" /\ x.pc \in {"none", "count"}
        BY <2>1
      <3>2. \A t \in Tasks :
              /\ UsesThread(t)' => UsesThread(t)
              /\ run'[t] \in {"matching", "free"} <=> run[t] \in {"matching", "free"}
              /\ run'[t] = "matching" => run'[t] = run[t]
        BY <2>3, Domains DEF UsesThread
      <3>3. (x.pc # "none" /\ UNCHANGED <<run, got>>) \/ (x.pc = "none" /\ Over(s))
        BY <2>1, <2>3, <3>1
      <3>4. x.pc = "count" => x.match \in Chans /\ Home[x.match] \in Tasks
        BY <1>5, <2>1
      <3>5. QED
        BY <1>1, <2>1, <3>1, <3>2, <3>3, <3>4, MatchStepInv
    <2>5. TypeOK'
      <3>1. sent' \subseteq Chans
        BY <1>5, <2>2 DEF TypeOK
      <3>2. QED
        BY <1>1, <2>4, <3>1, TypeParts DEF RestTyped
    <2>6. \A r \in States : Matching(r)' = IF r = s THEN {} ELSE Matching(r)
      BY <2>1, <2>4 DEF Matching
    <2>7. ChanInv'
      BY <1>1, <1>3, <1>5, <2>2, <2>4, <2>6 DEF Inv, ChanInv
    <2>8. \A r \in States, t \in Tasks : Takes(r, t)' <=> Takes(r, t)
      BY <1>1, <1>5, <2>1, <2>4, ConstantsAssumption DEF Takes
    <2>9. TaskInv'
      <3>1. \A t \in Tasks : run'[t] = run[t] \/ (run[t] = "matching" /\ run'[t] = "free")
        BY <2>3, Domains
      <3>2. QED
        BY <1>1, <2>1, <2>4, <2>8, <3>1 DEF Inv, TaskInv
    <2>10. GotInv'
      <3>1. \A c \in Chans : got'[c] = got[c]
        BY <1>5, <2>1, Domains, ConstantsAssumption DEF MatchEnds, TypeOK
      <3>2. \A r \in States : r # s => got'[r] = got[r]
        BY <2>1, Domains DEF MatchEnds, TypeOK
      <3>3. got'[s] # None => step'[s].pc # "none" \/ run'[s] = "free"
        BY <2>1, <2>3, <2>4 DEF Over, TypeOK
      <3>4. \A t \in Tasks : InQueue(t) => t # s
        BY <1>1 DEF Inv, StepInv, TaskInv
      <3>5. \A c \in Chans : c \in Matching(s) => c \in sent'
        BY <1>1, <2>2
      <3>6. \A c \in Chans :
              got'[c] # None => c \in sent' \/ \E r \in States : c \in Matching(r)'
        BY <2>2, <2>6, <3>1, <3>5 DEF Inv, GotInv
      <3>7. \A r \in States : got'[r] # None =>
              step'[r].pc # "none" \/ run'[r] \in {"waiting", "ready", "free"}
        BY <2>3, <2>4, <3>2, <3>3 DEF Inv, GotInv
      <3>8. \A t \in Tasks : InQueue(t)' => got'[t] = None
        BY <2>4, <3>2, <3>4, Domains DEF Inv, GotInv
      <3>9. QED
        BY <3>6, <3>7, <3>8 DEF GotInv
    <2>11. WakesExact'
      <3>1. ASSUME NEW t \in Tasks
            PROVE  wakes'[t] = Cardinality(Due(t)') - Cardinality(Counting(t)')
        <4>1. wakes[t] = Cardinality(Due(t)) - Cardinality(Counting(t)) /\ wakes'[t] = wakes[t]
          BY <1>1 DEF Inv, WakesExact, Due
        <4>2. CASE t = Home[w]
          <5>1. x.pc = "count" /\ x.match = w
            BY <2>1, <4>2
          <5>2. Due(t)' = Due(t) \cup {w} /\ w \notin Due(t)
            BY <1>1, <1>5, <2>2, <4>2 DEF Due, Inv, ChanInv
          <5>3. Counting(t)' = Counting(t) \cup {s} /\ s \notin Counting(t)
            BY <1>1, <2>4, <4>2, <5>1 DEF Counting
          <5>4. /\ Cardinality(Due(t)') = Cardinality(Due(t)) + 1
                /\ Cardinality(Counting(t)') = Cardinality(Counting(t)) + 1
            BY <5>2, <5>3, WakesCounted, FS_AddElement
          <5>5. QED
            BY <4>1, <5>4, WakesCounted
        <4>3. CASE t # Home[w]
          <5>1. Due(t)' = Due(t)
            BY <2>2, <4>3 DEF Due
          <5>2. Counting(t)' = Counting(t)
            BY <1>1, <2>1, <2>4, <4>3 DEF Counting
          <5>3. QED
            BY <4>1, <5>1, <5>2
        <4>4. QED
          BY <4>2, <4>3
      <3>2. QED
        BY <3>1 DEF WakesExact, Due
    <2>12. QED
      BY <2>4, <2>5, <2>7, <2>9, <2>10, <2>11 DEF Inv
  <1>6. QED
    BY <1>1, <1>4, <1>5 DEF Waiters

LEMMA CountWakeInv ==
  ASSUME Inv, NEW s \in States, CountWake(s)
  PROVE  Inv'
  <1> DEFINE t == Home[step[s].match]
  <1> TypeOK
    BY DEF Inv
  <1>1. /\ step[s].pc = "count" /\ t \in Tasks
        /\ wakes' = [wakes EXCEPT ![t] = @ + 1] /\ held' = held \ {t}
        /\ UNCHANGED <<sync, chan, end, sent, leaked, late>>
    BY DEF CountWake, objVars, Inv, StepInv
  <1>2. PICK x \in [pc: {"none", "resume"}, match: Waiters \cup {None}, on: {{}}] :
          /\ StepTo(s, x)
          /\ x.pc = "none" => x = NoStep /\ t \notin held /\ MatchEnds(s)
          /\ x.pc = "resume" => x.match = t /\ t \in held /\ UNCHANGED <<run, got>>
    <2>1. CASE t \in held
      <3> DEFINE x == [pc |-> "resume", match |-> t, on |-> {}]
      <3>1. UNCHANGED <<got, run>> /\ StepTo(s, x)
        BY <2>1 DEF CountWake, StepTo
      <3>2. x \in [pc: {"none", "resume"}, match: Waiters \cup {None}, on: {{}}]
        BY <1>1, Domains
      <3>3. x.pc = "resume" /\ x.match = t
        OBVIOUS
      <3> HIDE DEF x
      <3>4. QED
        BY <2>1, <3>1, <3>2, <3>3
    <2>2. CASE t \notin held
      <3>1. MatchEnds(s)
        BY <2>2 DEF CountWake
      <3>2. StepTo(s, NoStep)
        BY <1>1, <3>1, MatchEndsOver
      <3>3. NoStep \in [pc: {"none", "resume"}, match: Waiters \cup {None}, on: {{}}]
            /\ NoStep.pc = "none"
        BY DEF NoStep
      <3>4. QED
        BY <2>2, <3>1, <3>2, <3>3
    <2>3. QED
      BY <2>1, <2>2
  <1> HIDE DEF t
  <1>3. /\ \A r \in States : r # s => run'[r] = run[r]
        /\ run'[s] = run[s] \/ (run[s] = "matching" /\ run'[s] = "free")
        /\ x.pc = "none" => Over(s)
    BY <1>1, <1>2, MatchEndsOver DEF Over
  <1>4. /\ QueueInv' /\ StepInv' /\ RefcountExact' /\ (BusyThreads <= MaxThreads)'
        /\ run' \in [States -> RunStates]
        /\ got' \in [Waiters \cup States -> Waiters \cup States \cup {None}]
        /\ step' \in [States -> [pc: {"none", "swap", "count", "resume"},
                                 match: Waiters \cup {None}, on: Ends \cup {{}}]]
        /\ step'[s] = x /\ \A r \in States \ {s} : step'[r] = step[r]
        /\ \A v : InQueue(v)' <=> InQueue(v)
    <2>1. x \in [pc: {"none", "count", "resume"}, match: Waiters \cup {None}, on: {{}}]
          /\ x.pc # "count" /\ x.pc \in {"none", "resume"}
      BY <1>2
    <2>2. \A u \in Tasks :
            /\ UsesThread(u)' => UsesThread(u)
            /\ run'[u] \in {"matching", "free"} <=> run[u] \in {"matching", "free"}
            /\ run'[u] = "matching" => run'[u] = run[u]
      BY <1>3, Domains DEF UsesThread
    <2>3. (x.pc # "none" /\ UNCHANGED <<run, got>>) \/ (x.pc = "none" /\ Over(s))
      BY <1>2, <1>3, <2>1
    <2>4. x.pc = "resume" => x.match \in Tasks
      BY <1>1, <1>2
    <2>5. QED
      BY <1>1, <1>2, <2>1, <2>2, <2>3, <2>4, MatchStepInv
  <1>5. TypeOK'
    <2>1. wakes' \in [Tasks -> Int] /\ held' \subseteq Tasks
      BY <1>1 DEF TypeOK
    <2>2. QED
      BY <1>1, <1>4, <2>1, TypeParts DEF RestTyped
  <1>6. \A r \in States : Matching(r)' = Matching(r)
    BY <1>1, <1>2, <1>4 DEF Matching
  <1>7. ChanInv'
    BY <1>1, <1>4, <1>6 DEF Inv, ChanInv
  <1>8. TaskInv'
    <2>1. /\ \A r \in States \ {s}, u \in Tasks : Takes(r, u)' <=> Takes(r, u)
          /\ \A u \in Tasks : ~Takes(s, u) /\ (Takes(s, u)' <=> u = t /\ t \in held)
      BY <1>1, <1>2, <1>4 DEF Takes, NoStep
    <2>2. \A u \in Tasks : run'[u] = run[u] \/ (run[u] = "matching" /\ run'[u] = "free")
      BY <1>3, Domains
    <2>3. \A u \in Tasks : u # t => wakes'[u] = wakes[u]
      BY <1>1 DEF TypeOK
    <2>4. t \in held => run[t] = "suspended" /\ ~InQueue(t) /\ \A r \in States : ~Takes(r, t)
      BY <1>1 DEF Inv, TaskInv
    <2>5. \A r \in States : step'[r].pc = "swap" <=> step[r].pc = "swap"
      BY <1>1, <1>2, <1>4
    <2>6. ASSUME NEW u \in Tasks
          PROVE  /\ InQueue(u)' => run'[u] = "waiting"
                 /\ u \in held' => run'[u] = "suspended" /\ wakes'[u] = 0
                 /\ run'[u] = "waiting" => InQueue(u)' \/ \E r \in States : Takes(r, u)'
                 /\ run'[u] = "suspended" => u \in held' \/ \E r \in States : Takes(r, u)'
      BY <1>1, <1>4, <2>1, <2>2, <2>3, <2>4 DEF Inv, TaskInv
    <2>7. ASSUME NEW u \in Tasks, NEW r \in States, Takes(r, u)'
          PROVE  /\ ~InQueue(u)' /\ u \notin held' /\ run'[u] \in {"waiting", "suspended"}
                 /\ step'[r].pc = "swap" => run'[u] = "waiting"
                 /\ \A q \in States \ {r} : ~Takes(q, u)'
      <3>1. CASE r = s
        BY <1>1, <1>4, <2>1, <2>2, <2>4, <2>5, <2>7, <3>1
      <3>2. CASE r # s
        <4>1. Takes(r, u) /\ ~(u = t /\ t \in held)
          BY <2>1, <2>4, <2>7, <3>2
        <4>2. QED
          BY <1>1, <1>4, <2>1, <2>2, <2>5, <4>1 DEF Inv, TaskInv
      <3>3. QED
        BY <3>1, <3>2
    <2>8. QED
      BY <2>6, <2>7 DEF TaskInv
  <1>9. GotInv'
    <2>1. \A c \in Chans : got'[c] = got[c]
      BY <1>2, Domains, ConstantsAssumption DEF MatchEnds, TypeOK, States
    <2>2. \A r \in States : r # s => got'[r] = got[r]
      BY <1>2, Domains DEF MatchEnds, TypeOK
    <2>3. got'[s] # None => step'[s].pc # "none" \/ run'[s] = "free"
      BY <1>2, <1>3, <1>4 DEF Over, TypeOK
    <2>4. \A u \in Tasks : InQueue(u) => u # s
      BY <1>1 DEF Inv, StepInv, TaskInv
    <2>5. \A c \in Chans :
            got'[c] # None => c \in sent' \/ \E r \in States : c \in Matching(r)'
      BY <1>1, <1>6, <2>1 DEF Inv, GotInv
    <2>6. \A r \in States : got'[r] # None =>
            step'[r].pc # "none" \/ run'[r] \in {"waiting", "ready", "free"}
      BY <1>3, <1>4, <2>2, <2>3 DEF Inv, GotInv
    <2>7. \A u \in Tasks : InQueue(u)' => got'[u] = None
      BY <1>4, <2>2, <2>4, Domains DEF Inv, GotInv
    <2>8. QED
      BY <2>5, <2>6, <2>7 DEF GotInv
  <1>10. WakesExact'
    <2>1. ASSUME NEW u \in Tasks
          PROVE  wakes'[u] = Cardinality(Due(u)') - Cardinality(Counting(u)')
      <3>1. /\ wakes[u] = Cardinality(Due(u)) - Cardinality(Counting(u))
            /\ Due(u)' = Due(u)
        BY <1>1 DEF Inv, WakesExact, Due
      <3>2. CASE u = t
        <4>1. Counting(u)' = Counting(u) \ {s} /\ s \in Counting(u)
          BY <1>1, <1>2, <1>4, <3>2 DEF Counting, t
        <4>2. Cardinality(Counting(u)') = Cardinality(Counting(u)) - 1
          BY <4>1, WakesCounted, FS_RemoveElement
        <4>3. wakes'[u] = wakes[u] + 1
          BY <1>1, <3>2 DEF TypeOK
        <4>4. QED
          BY <3>1, <4>2, <4>3, WakesCounted
      <3>3. CASE u # t
        <4>1. s \notin Counting(u) /\ s \notin Counting(u)'
          BY <1>1, <1>2, <1>4, <3>3 DEF Counting, t
        <4>2. \A r \in States \ {s} : r \in Counting(u)' <=> r \in Counting(u)
          BY <1>4 DEF Counting
        <4>3. Counting(u)' = Counting(u)
          BY <4>1, <4>2 DEF Counting
        <4>4. wakes'[u] = wakes[u]
          BY <1>1, <3>3 DEF TypeOK
        <4>5. QED
          BY <3>1, <4>3, <4>4
      <3>4. QED
        BY <3>2, <3>3
    <2>2. QED
      BY <2>1 DEF WakesExact, Due
  <1>11. QED
    BY <1>4, <1>5, <1>7, <1>8, <1>9, <1>10 DEF Inv

LEMMA ResumeTaskInv ==
  ASSUME Inv, NEW s \in States, ResumeTask(s)
  PROVE  Inv'
  <1> DEFINE t == step[s].match
             free == run[s] = "matching"
  <1> TypeOK
    BY DEF Inv
  <1>1. /\ step[s].pc = "resume" /\ t \in Tasks /\ StepTo(s, NoStep)
        /\ run' = [r \in States |-> IF r = t THEN "ready"
                                    ELSE IF r = s /\ free THEN "free" ELSE run[r]]
        /\ got' = IF free THEN got ELSE [got EXCEPT ![s] = None]
        /\ UNCHANGED <<sync, chan, end, sent, leaked, wakes, held, late>>
    BY DEF ResumeTask, objVars, taskVars, Inv, StepInv, StepTo
  <1>2. /\ run[s] \in {"running", "matching"} /\ Takes(s, t)
        /\ run[t] \in {"waiting", "suspended"} /\ ~InQueue(t) /\ t \notin held /\ t # s
        /\ \A r \in States \ {s} : ~Takes(r, t)
    <2>1. run[s] \in {"running", "matching"} /\ Takes(s, t)
      BY <1>1 DEF Inv, StepInv, Takes
    <2>2. QED
      BY <1>1, <2>1 DEF Inv, TaskInv
  <1> HIDE DEF t
  <1>3. /\ run'[t] = "ready" /\ \A r \in States \ {s, t} : run'[r] = run[r]
        /\ run'[s] = IF free THEN "free" ELSE "running"
    BY <1>1, <1>2, Domains
  <1>4. Over(s)
    <2>1. run' \in [States -> RunStates]
      BY <1>1 DEF TypeOK, RunStates
    <2>2. step[s] = [pc |-> "resume", match |-> t, on |-> {}]
      <3>1. step[s] \in [pc: {"none", "swap", "count", "resume"},
                         match: Waiters \cup {None}, on: Ends \cup {{}}]
        BY DEF TypeOK
      <3>2. step[s].on = {}
        BY <1>1 DEF Inv, StepInv
      <3>3. QED
        BY <1>1, <3>1, <3>2 DEF t
    <2>3. \A r \in States : r # s =>
            run'[r] = run[r] \/ step[s] = [pc |-> "resume", match |-> r, on |-> {}]
      BY <1>3, <2>2
    <2>4. \/ run[s] = "matching" /\ run'[s] = "free" /\ got' = got
          \/ run[s] = "running" /\ run'[s] = "running" /\ got' = [got EXCEPT ![s] = None]
      BY <1>1, <1>2, <1>3
    <2>5. QED
      BY <2>1, <2>3, <2>4 DEF Over
  <1>5. /\ QueueInv' /\ StepInv' /\ RefcountExact' /\ (BusyThreads <= MaxThreads)'
        /\ run' \in [States -> RunStates]
        /\ got' \in [Waiters \cup States -> Waiters \cup States \cup {None}]
        /\ step' \in [States -> [pc: {"none", "swap", "count", "resume"},
                                 match: Waiters \cup {None}, on: Ends \cup {{}}]]
        /\ step'[s] = NoStep /\ \A r \in States \ {s} : step'[r] = step[r]
        /\ \A v : InQueue(v)' <=> InQueue(v)
    <2>1. NoStep \in [pc: {"none", "count", "resume"}, match: Waiters \cup {None}, on: {{}}]
          /\ NoStep.pc = "none"
      BY DEF NoStep
    <2>2. \A u \in Tasks :
            /\ UsesThread(u)' => UsesThread(u)
            /\ run'[u] \in {"matching", "free"} <=> run[u] \in {"matching", "free"}
            /\ run'[u] = "matching" => run'[u] = run[u]
      BY <1>2, <1>3, Domains DEF UsesThread
    <2>3. QED
      BY <1>1, <1>4, <2>1, <2>2, MatchStepInv
  <1>6. TypeOK'
    BY <1>1, <1>5, TypeParts DEF RestTyped
  <1>7. NoStep.pc = "none"
    BY DEF NoStep
  <1>8. \A r \in States : Matching(r)' = Matching(r)
    BY <1>1, <1>5, <1>7 DEF Matching
  <1>9. ChanInv'
    BY <1>1, <1>5, <1>8 DEF Inv, ChanInv
  <1>10. TaskInv'
    <2>1. /\ \A r \in States \ {s}, u \in Tasks : Takes(r, u)' <=> Takes(r, u)
          /\ \A u \in Tasks : ~Takes(s, u)' /\ (Takes(s, u) => u = t)
      BY <1>1, <1>5, <1>7 DEF Takes, t
    <2>2. \A u \in Tasks \ {t} : run'[u] = run[u] \/ (run[u] = "matching" /\ run'[u] = "free")
      BY <1>2, <1>3, Domains
    <2>3. \A r \in States : step'[r].pc = "swap" <=> step[r].pc = "swap"
      BY <1>1, <1>5, <1>7
    <2>4. QED
      BY <1>1, <1>2, <1>3, <1>5, <2>1, <2>2, <2>3 DEF Inv, TaskInv
  <1>11. GotInv'
    <2>1. \A c \in Chans : got'[c] = got[c]
      BY <1>1, Domains, ConstantsAssumption DEF TypeOK, States
    <2>2. \A r \in States : r # s => got'[r] = got[r]
      BY <1>1, Domains DEF TypeOK
    <2>3. got'[s] # None => run'[s] = "free"
      BY <1>1, <1>2, <1>3 DEF TypeOK
    <2>4. \A u \in Tasks : InQueue(u) => u # s
      BY <1>1 DEF Inv, StepInv, TaskInv
    <2>5. \A c \in Chans :
            got'[c] # None => c \in sent' \/ \E r \in States : c \in Matching(r)'
      BY <1>1, <1>8, <2>1 DEF Inv, GotInv
    <2>6. \A r \in States : got'[r] # None =>
            step'[r].pc # "none" \/ run'[r] \in {"waiting", "ready", "free"}
      BY <1>3, <1>5, <2>2, <2>3 DEF Inv, GotInv
    <2>7. \A u \in Tasks : InQueue(u)' => got'[u] = None
      BY <1>5, <2>2, <2>4, Domains DEF Inv, GotInv
    <2>8. QED
      BY <2>5, <2>6, <2>7 DEF GotInv
  <1>12. WakesExact'
    <2>1. ASSUME NEW u \in Tasks
          PROVE  Counting(u)' = Counting(u)
      BY <1>1, <1>5, <1>7 DEF Counting
    <2>2. QED
      BY <1>1, <2>1 DEF Inv, WakesExact
  <1>13. QED
    BY <1>5, <1>6, <1>9, <1>10, <1>11, <1>12 DEF Inv

-----------------------------------------------------------------------------
LEMMA InitInv == Init => Inv
  <1> SUFFICES ASSUME Init PROVE Inv
    OBVIOUS
  <1>1. /\ sync.queue = <<>> /\ sync.refcount = 0 /\ ~sync.alive /\ sync.expected = {}
        /\ sync \in SyncType
    BY DEF Init, NoSync, SyncType
  <1>2. DOMAIN sync.queue = {} /\ \A w : ~InQueue(w)
    BY <1>1 DEF InQueue
  <1>3. \A s \in States : step[s] = NoStep /\ step[s].pc = "none" /\ Matching(s) = {}
    BY DEF Init, NoStep, Matching
  <1>4. TypeOK
    <2>1. NoStep \in [pc: {"none", "swap", "count", "resume"},
                      match: Waiters \cup {None}, on: Ends \cup {{}}]
      BY DEF NoStep
    <2>2. late \in [Tasks -> 0..MaxThreads] /\ leaked \in 0..MaxLeaks
      BY ConstantsAssumption DEF Init
    <2>3. QED
      BY <1>1, <2>1, <2>2 DEF Init, TypeOK, SyncType, RunStates
  <1>5. QueueInv /\ ChanInv /\ TaskInv
    <2>1. QueueInv
      BY <1>2 DEF QueueInv
    <2>2. ChanInv
      BY <1>2, <1>3 DEF ChanInv, Init
    <2>3. \A t \in Tasks : run[t] = "ready"
      BY ConstantsAssumption DEF Init, States
    <2>4. TaskInv
      BY <1>2, <1>3, <2>3 DEF TaskInv, Takes, Init
    <2>5. QED
      BY <2>1, <2>2, <2>4
  <1>6. StepInv
    <2>1. \A s \in Tasks : run[s] = "ready"
      BY ConstantsAssumption DEF Init, States
    <2>2. NoStep.on = {}
      BY DEF NoStep
    <2>3. QED
      BY <1>3, <2>1, <2>2 DEF StepInv
  <1>7. GotInv
    BY Domains DEF Init, GotInv
  <1>8. WakesExact
    <2>1. \A t \in Tasks : Counting(t) = {} /\ Due(t) = {} /\ wakes[t] = 0
      BY <1>3 DEF Counting, Due, Init
    <2>2. QED
      BY <2>1, FS_EmptySet DEF WakesExact, Due
  <1>9. Unreleased = {}
    <2>1. \A t \in Tasks : 1..late[t] = {}
      BY DEF Init
    <2>2. QED
      BY <2>1 DEF Unreleased
  <1>10. \A t \in Tasks : run[t] = "ready"
    BY ConstantsAssumption DEF Init, States
  <1>11. RefcountExact
    <2>1. OpenChans = {} /\ Matchers = {} /\ leaked = 0
      BY <1>10 DEF OpenChans, Matchers, Init
    <2>2. QED
      BY <1>1, <1>9, <2>1, FS_EmptySet DEF RefcountExact, References
  <1>12. BusyThreads <= MaxThreads
    <2>1. {t \in Tasks : UsesThread(t)} = {}
      BY <1>10 DEF UsesThread
    <2>2. QED
      BY <1>9, <2>1, FS_EmptySet, ConstantsAssumption DEF BusyThreads
  <1>13. QED
    BY <1>4, <1>5, <1>6, <1>7, <1>8, <1>11, <1>12 DEF Inv

LEMMA NextInv ==
  ASSUME Inv, [Next]_vars
  PROVE  Inv'
  <1>1. CASE UNCHANGED vars
    <2>1. UNCHANGED <<sync, got, run, step, leaked, chan, end, sent, wakes, held, late>>
      BY <1>1 DEF vars, objVars, taskVars
    <2>2. TypeOK' /\ QueueInv' /\ StepInv' /\ ChanInv' /\ TaskInv' /\ GotInv'
      <3>1. TypeOK'
        BY <2>1 DEF Inv, TypeOK
      <3>2. SameQueue /\ \A w : InQueue(w)' <=> InQueue(w)
        BY <2>1 DEF SameQueue, InQueue
      <3>3. QueueInv'
        BY <2>1, <3>2, SameQueueInv DEF Inv
      <3>4. GotInv'
        BY <2>1, <3>2 DEF Inv, GotInv, Matching
      <3>5. QED
        BY <2>1, <3>1, <3>2, <3>3, <3>4, Frames
    <2>3. WakesExact' /\ RefcountExact' /\ (BusyThreads <= MaxThreads)'
      BY <2>1 DEF Inv, WakesExact, Counting, RefcountExact, References, OpenChans, Matchers,
                  Unreleased, BusyThreads, UsesThread
    <2>4. QED
      BY <2>2, <2>3 DEF Inv
  <1>2. ASSUME NEW c \in Chans, Create(c) \/ Close(c) \/ CloseInUse(c) \/ CloseHangs(c)
        PROVE  Inv'
    BY <1>2, CreateInv, CloseInv, CloseInUseInv, CloseHangsInv
  <1>3. ASSUME NEW c \in Chans, NEW e \in Ends, AwaitCh(c, e) \/ ChannelSync(c, e)
        PROVE  Inv'
    BY <1>3, AwaitChInv, ChannelSyncInv
  <1>4. ASSUME NEW c \in Chans, CancelSynced(c) \/ CloseCo(c) \/ OnSynced(c)
        PROVE  Inv'
    BY <1>4, CancelSyncedInv, CloseCoInv, OnSyncedInv
  <1>5. ASSUME NEW s \in States, MatchStep(s)
        PROVE  Inv'
    BY <1>5, SwapValuesInv, CountWakeInv, ResumeTaskInv DEF MatchStep
  <1>6. ASSUME NEW t \in Tasks, NEW e \in Ends \cup {{}}, YieldName(t, e)
        PROVE  Inv'
    BY <1>6, YieldNameInv
  <1>7. ASSUME NEW t \in Tasks, ThreadStep(t) \/ FreeLate(t)
        PROVE  Inv'
    BY <1>7, LookUpInv, MatchTaskInv, FreeTaskInv, SuspendedInv, PickInv, FreeLateInv
       DEF ThreadStep
  <1>8. ASSUME NEW t \in Tasks, StopRun(t) \/ EndChunk(t) \/ CloseState(t)
        PROVE  Inv'
    BY <1>8, RunStepsInv
  <1>9. QED
    BY <1>1, <1>2, <1>3, <1>4, <1>5, <1>6, <1>7, <1>8 DEF Next

LEMMA SpecInv == Spec => []Inv
  <1>1. QED
    BY InitInv, NextInv, PTL DEF Spec

-----------------------------------------------------------------------------
(* Theorems. *)

(* Each variable holds what the fields of src/lchaux.c can hold; in        *)
(* particular no more than MaxThreads threads are yet to release a channel.*)
THEOREM Typed == Spec => []TypeOK
  <1>1. Inv => TypeOK
    BY DEF Inv
  <1>2. QED
    BY <1>1, SpecInv, PTL

(* The field 'refcount' is the number of references that were not          *)
(* released, however the threads that get and free the lcu_ChannelSync     *)
(* interleave: it is freed by the last one, and only with an empty queue.  *)
THEOREM ReferencesCounted == Spec => []RefcountExact
  <1>1. Inv => RefcountExact
    BY DEF Inv
  <1>2. QED
    BY <1>1, SpecInv, PTL

(* Nobody waits in the queue of lcuCS_matchchsync for an endpoint that     *)
(* another one in it offers.                                               *)
THEOREM MatchesFound == Spec => []NoMissedMatch
  <1>1. ASSUME Inv
        PROVE  NoMissedMatch
    <2>1. \A i \in DOMAIN sync.queue : sync.queue[i] \in Waiters /\ InQueue(sync.queue[i])
      BY <1>1, QueueTyped DEF Inv, InQueue
    <2>2. ASSUME NEW i \in DOMAIN sync.queue
          PROVE  sync.expected = Expected(end[sync.queue[i]])
      BY <1>1, <2>1 DEF Inv, QueueInv
    <2>3. ASSUME NEW i \in DOMAIN sync.queue, NEW j \in DOMAIN sync.queue, i # j
          PROVE  end[sync.queue[j]] \cap Expected(end[sync.queue[i]]) = {}
      <3>1. sync.queue[i] # sync.queue[j]
        BY <1>1, <2>3 DEF Inv, QueueInv
      <3>2. QED
        BY <1>1, <2>1, <2>2, <3>1 DEF Inv, QueueInv
    <2>4. QED
      BY <2>2, <2>3 DEF NoMissedMatch
  <1>2. QED
    BY <1>1, SpecInv, PTL

(* Whoever waits in a channel is in one place, in which its state is kept: *)
(* in the queue, with the one thread that matched it, or notified.         *)
THEOREM WaitersSafe == Spec => []WaitersKept
  <1>1. ASSUME Inv
        PROVE  WaitersKept
    <2>1. \A s \in States : \A w \in Matching(s) :
            w \in Waiters /\ step[s].pc = "swap" /\ step[s].match = w
      BY <1>1 DEF Matching, Inv, StepInv
    <2>2. MatchedOnce
      <3>1. \A i, j \in DOMAIN sync.queue : sync.queue[i] = sync.queue[j] => i = j
        BY <1>1 DEF Inv, QueueInv
      <3>2. \A c \in sent : c \in Chans /\ ~InQueue(c)
        BY <1>1 DEF Inv, TypeOK, ChanInv
      <3>3. ASSUME NEW s \in States, NEW w \in Matching(s)
            PROVE  /\ ~InQueue(w) /\ w \notin sent
                   /\ \A r \in States \ {s} : w \notin Matching(r)
        <4>1. CASE w \in Chans
          BY <1>1, <3>3, <4>1 DEF Inv, ChanInv
        <4>2. CASE w \in Tasks
          <5>1. Takes(s, w) /\ \A r \in States : w \in Matching(r) => Takes(r, w)
            BY <2>1, <3>3 DEF Takes
          <5>2. w \notin sent
            BY <3>2, <4>2, Domains
          <5>3. QED
            BY <1>1, <4>2, <5>1, <5>2 DEF Inv, TaskInv
        <4>3. QED
          BY <2>1, <4>1, <4>2 DEF Waiters
      <3>4. QED
        BY <3>1, <3>2, <3>3 DEF MatchedOnce
    <2>3. NoLostWaiter
      <3>1. \A t \in Tasks, s \in States : Takes(s, t) => step[s].match = t
        BY DEF Takes
      <3>2. QED
        BY <1>1, <3>1 DEF Inv, ChanInv, TaskInv, NoLostWaiter
    <2>4. StateNotShared
      BY <1>1 DEF Inv, ChanInv, StateNotShared, InUse
    <2>5. QED
      BY <2>2, <2>3, <2>4 DEF WaitersKept
  <1>2. QED
    BY <1>1, SpecInv, PTL

(* A task suspended by lcuCS_suspendedchtask is given back to the pool     *)
(* once, by the thread of getsuspendedtask that finds it suspended, and it *)
(* is not left suspended with a callback to be called.                     *)
THEOREM TasksWoken == Spec => []TaskWakes
  <1>1. ASSUME Inv
        PROVE  TaskWakes
    <2> TypeOK
      BY <1>1 DEF Inv
    <2>1. WakesExact
      BY <1>1 DEF Inv
    <2>2. \A s \in States, t \in Tasks : Takes(s, t) /\ run[t] = "suspended" =>
            step[s] = [pc |-> "resume", match |-> t, on |-> {}]
      <3> SUFFICES ASSUME NEW s \in States, NEW t \in Tasks,
                          Takes(s, t), run[t] = "suspended"
                   PROVE  step[s] = [pc |-> "resume", match |-> t, on |-> {}]
        OBVIOUS
      <3>1. step[s].pc = "resume" /\ step[s].match = t
        BY <1>1 DEF Takes, Inv, TaskInv
      <3>2. step[s].on = {}
        BY <1>1, <3>1 DEF Inv, StepInv
      <3>3. step[s] \in [pc: {"none", "swap", "count", "resume"},
                         match: Waiters \cup {None}, on: Ends \cup {{}}]
        BY DEF TypeOK
      <3>4. QED
        BY <3>1, <3>2, <3>3
    <2>3. NoLostWake
      <3>1. ASSUME NEW t \in Tasks, run[t] = "suspended", NEW c \in sent, Home[c] = t,
                   t \in held
            PROVE  Counting(t) # {}
        <4>1. 0 = Cardinality(Due(t)) - Cardinality(Counting(t))
          BY <1>1, <2>1, <3>1 DEF WakesExact, Due, Inv, TaskInv
        <4>2. Due(t) # {}
          BY <3>1 DEF Due
        <4>3. Cardinality(Due(t)) # 0
          BY <4>2, WakesCounted, FS_EmptySet
        <4>4. Cardinality(Counting(t)) # 0
          BY <4>1, <4>3, WakesCounted
        <4>5. QED
          BY <4>4, FS_EmptySet
      <3>2. ASSUME NEW t \in Tasks, run[t] = "suspended", t \notin held
            PROVE  \E s \in States : step[s] = [pc |-> "resume", match |-> t, on |-> {}]
        <4>1. PICK s \in States : Takes(s, t)
          BY <1>1, <3>2 DEF Inv, TaskInv
        <4>2. QED
          BY <2>2, <3>2, <4>1
      <3>3. QED
        BY <3>1, <3>2 DEF NoLostWake
    <2>4. ResumedOnce
      <3>1. ASSUME NEW s \in States, step[s].pc = "resume"
            PROVE  LET t == step[s].match
                   IN  /\ t \in Tasks /\ t \notin held
                       /\ run[t] = "suspended" \/ (run[t] = "waiting" /\ ~InQueue(t))
                       /\ \A r \in States \ {s} : ~(step[r].pc = "resume" /\ step[r].match = t)
        <4> DEFINE t == step[s].match
        <4>1. t \in Tasks
          BY <1>1, <3>1 DEF Inv, StepInv
        <4>2. Takes(s, t)
          BY <3>1 DEF Takes
        <4> HIDE DEF t
        <4>3. /\ t \notin held /\ ~InQueue(t) /\ run[t] \in {"waiting", "suspended"}
              /\ \A r \in States \ {s} : ~Takes(r, t)
          BY <1>1, <4>1, <4>2 DEF Inv, TaskInv
        <4>4. QED
          BY <4>1, <4>3 DEF Takes, t
      <3>2. QED
        BY <3>1 DEF ResumedOnce
    <2>5. QED
      BY <2>1, <2>3, <2>4 DEF TaskWakes
  <1>2. QED
    BY <1>1, SpecInv, PTL

-----------------------------------------------------------------------------
(* The rendezvous that is implemented. *)
Asked == [s \in States |-> step[s].on]
OfferType == [who: Waiters, end: Ends \cup {{}}]

OffersShape ==
  /\ Offers \in Seq(OfferType)
  /\ Len(Offers) = Len(sync.queue) /\ DOMAIN Offers = 1..Len(sync.queue)
  /\ \A i \in 1..Len(sync.queue) :
       Offers[i] = [who |-> sync.queue[i], end |-> end[sync.queue[i]]]

LEMMA OffersTyped == TypeOK => OffersShape
  <1> SUFFICES ASSUME TypeOK PROVE OffersShape
    OBVIOUS
  <1>1. /\ sync.queue \in Seq(Waiters) /\ Len(sync.queue) \in Nat
        /\ DOMAIN sync.queue = 1..Len(sync.queue)
        /\ \A i \in DOMAIN sync.queue : sync.queue[i] \in Waiters
    BY QueueTyped
  <1>2. Offers \in [1..Len(sync.queue) -> OfferType]
    BY <1>1 DEF Offers, OfferType, TypeOK
  <1>3. Offers \in Seq(OfferType) /\ Len(Offers) = Len(sync.queue)
    BY <1>1, <1>2, SeqDef, LenProperties
  <1>4. QED
    BY <1>1, <1>2, <1>3 DEF Offers, OffersShape

LEMMA NextOffersTyped == TypeOK' => OffersShape'
  BY OffersTyped, PTL

LEMMA SameOffers ==
  ASSUME TypeOK, sync'.queue = sync.queue,
         \A w \in Waiters : InQueue(w) => end'[w] = end[w]
  PROVE  Offers' = Offers
  <1>1. \A i \in DOMAIN sync.queue : end'[sync.queue[i]] = end[sync.queue[i]]
    BY QueueTyped DEF InQueue
  <1>2. QED
    BY <1>1 DEF Offers

(* Steps in which values are used, or nothing happens, in the rendezvous.  *)
LEMMA Uses ==
  ASSUME Inv, sync'.queue = sync.queue,
         \A w \in Waiters : InQueue(w) => end'[w] = end[w],
         Asked' = Asked, NEW w \in Waiters \cup States,
         got' \in {got, [got EXCEPT ![w] = None]}
  PROVE  [R!Next]_<<Offers, Asked, got>>
  <1>1. Offers' = Offers
    BY SameOffers DEF Inv
  <1>2. CASE got' = got
    BY <1>1, <1>2
  <1>3. CASE got[w] = None
    <2>1. got' = got
      BY <1>3 DEF Inv, TypeOK
    <2>2. QED
      BY <1>1, <2>1
  <1>4. CASE got' = [got EXCEPT ![w] = None] /\ got[w] # None
    <2>1. R!Use(w)
      BY <1>1, <1>4 DEF R!Use, Asked
    <2>2. QED
      BY <2>1 DEF R!Next, R!Parties
  <1>5. QED
    BY <1>2, <1>3, <1>4

LEMMA Idle ==
  ASSUME Inv, sync'.queue = sync.queue,
         \A w \in Waiters : InQueue(w) => end'[w] = end[w], UNCHANGED <<step, got>>
  PROVE  [R!Next]_<<Offers, Asked, got>>
  <1>1. Offers' = Offers
    BY SameOffers DEF Inv
  <1>2. Asked' = Asked
    BY DEF Asked
  <1>3. QED
    BY <1>1, <1>2

(* lcuCS_matchchsync leaves w in the queue. *)
LEMMA EnqueueOffers ==
  ASSUME Inv, Inv', NEW w \in Waiters, NEW e \in Ends, Enqueue(w, e), ~InQueue(w),
         got[w] = None, UNCHANGED <<step, got>>
  PROVE  R!Next
  <1> TypeOK /\ TypeOK' /\ Unique
    BY DEF Inv, QueueInv, Unique
  <1> DEFINE q == sync.queue
             n == Len(q)
             x == [who |-> w, end |-> e]
  <1>1. q \in Seq(Waiters) /\ n \in Nat /\ DOMAIN q = 1..n
        /\ \A i \in 1..n : q[i] \in Waiters /\ InQueue(q[i])
    BY QueueTyped DEF InQueue
  <1>2. sync'.queue = Append(q, w)
    BY EnqueueQueue
  <1>3. Len(Append(q, w)) = n + 1 /\ Append(q, w)[n + 1] = w
        /\ \A i \in 1..n : Append(q, w)[i] = q[i]
    BY <1>1, AppendProperties
  <1>4. end'[w] = e /\ \A v \in Waiters \ {w} : end'[v] = end[v]
    BY DEF Enqueue, TypeOK
  <1>5. /\ Offers \in Seq(OfferType) /\ Len(Offers) = n /\ DOMAIN Offers = 1..n
        /\ \A i \in 1..n : Offers[i] = [who |-> q[i], end |-> end[q[i]]]
    BY OffersTyped DEF OffersShape
  <1>6. /\ Offers' \in Seq(OfferType) /\ Len(Offers') = n + 1 /\ DOMAIN Offers' = 1..n + 1
        /\ \A i \in 1..n + 1 :
             Offers'[i] = [who |-> Append(q, w)[i], end |-> end'[Append(q, w)[i]]]
    BY <1>2, <1>3, NextOffersTyped DEF OffersShape
  <1> HIDE DEF q, n
  <1>7. Offers' = Append(Offers, x)
    <2>1. x \in OfferType
      BY DEF OfferType
    <2>2. /\ Append(Offers, x) \in Seq(OfferType) /\ Len(Append(Offers, x)) = n + 1
          /\ Append(Offers, x)[n + 1] = x
          /\ \A i \in 1..n : Append(Offers, x)[i] = Offers[i]
      BY <1>5, <2>1, AppendProperties
    <2>3. \A i \in 1..n : Offers'[i] = Offers[i]
      BY <1>1, <1>3, <1>4, <1>5, <1>6
    <2>4. Offers'[n + 1] = x
      BY <1>1, <1>3, <1>4, <1>6
    <2>5. \A i \in 1..n + 1 : Offers'[i] = Append(Offers, x)[i]
      BY <1>1, <2>2, <2>3, <2>4
    <2>6. QED
      BY <1>6, <2>2, <2>5, SeqEqual
  <1>8. \A i \in 1..n : Offers[i].who # w
    BY <1>1, <1>5
  <1>9. ASSUME NEW i \in 1..n
        PROVE  ~R!Complements(Offers[i].end, e)
    <2>1. sync.expected = Expected(end[q[i]])
      BY <1>1 DEF Inv, QueueInv
    <2>2. sync.expected \cap e = {}
      BY <1>1, EmptySeq DEF Enqueue, Matched, q, n
    <2>3. QED
      BY <1>5, <2>1, <2>2 DEF R!Complements, R!Opposite, Expected
  <1>10. R!Offer(w, e)
    BY <1>5, <1>7, <1>8, <1>9 DEF R!Offer
  <1>11. QED
    BY <1>10 DEF R!Next, R!Ends, Ends

(* Whoever is not matched has no values. *)
LEMMA NoValues ==
  ASSUME Inv
  PROVE  /\ \A s \in States : step[s].pc = "none" /\ run[s] \in {"running", "matching"}
                                => got[s] = None /\ ~InQueue(s)
         /\ \A w \in Waiters : InQueue(w) => got[w] = None
         /\ \A c \in Chans : chan[c] = "unused" => got[c] = None /\ ~InQueue(c)
  <1>1. \A c \in Chans : InQueue(c) \/ chan[c] = "unused" => got[c] = None
    BY DEF Inv, ChanInv, GotInv, InUse
  <1>2. \A c \in Chans : chan[c] = "unused" => ~InQueue(c)
    BY DEF Inv, ChanInv
  <1>3. \A s \in States : run[s] \in {"running", "matching"} => ~InQueue(s)
    <2>1. \A s \in States : InQueue(s) => s \in Waiters
      BY QueueTyped DEF Inv
    <2>2. QED
      BY <2>1, Domains DEF Inv, TaskInv, Waiters
  <1>4. \A s \in States : step[s].pc = "none" /\ run[s] \in {"running", "matching"}
                            => got[s] = None
    BY DEF Inv, GotInv
  <1>5. QED
    BY <1>1, <1>2, <1>3, <1>4 DEF Inv, GotInv, Waiters

(* lcuCS_matchchsync takes the first of the queue. *)
LEMMA DequeueMeets ==
  ASSUME Inv, Inv', NEW s \in States, NEW e \in Ends, Dequeue(s, e),
         step[s].pc = "none", run[s] \in {"running", "matching"}
  PROVE  R!Next
  <1> TypeOK /\ TypeOK' /\ Unique
    BY DEF Inv, QueueInv, Unique
  <1> DEFINE q == sync.queue
             n == Len(q)
             w == Head(q)
  <1>1. q \in Seq(Waiters) /\ n \in Nat /\ DOMAIN q = 1..n
        /\ \A i \in 1..n : q[i] \in Waiters /\ InQueue(q[i])
    BY QueueTyped DEF InQueue
  <1>2. /\ q # <<>> /\ sync'.queue = Tail(q) /\ w \in Waiters /\ InQueue(w)
        /\ \A v : InQueue(v)' <=> InQueue(v) /\ v # w
    BY DequeueQueue DEF Dequeue, Matched
  <1>3. n >= 1 /\ w = q[1] /\ Len(Tail(q)) = n - 1
        /\ \A i \in 1..n - 1 : Tail(q)[i] = q[i + 1]
    BY <1>1, <1>2, HeadTailProperties, EmptySeq
  <1>4. s # w /\ got[s] = None /\ got[w] = None /\ ~InQueue(s)
    BY <1>2, NoValues
  <1>5. \A v \in Waiters \ {s, w} : end'[v] = end[v]
    BY DEF Dequeue
  <1>6. /\ Offers \in Seq(OfferType) /\ Len(Offers) = n /\ DOMAIN Offers = 1..n
        /\ \A i \in 1..n : Offers[i] = [who |-> q[i], end |-> end[q[i]]]
    BY OffersTyped DEF OffersShape
  <1>7. /\ Offers' \in Seq(OfferType) /\ Len(Offers') = n - 1
        /\ \A i \in 1..n - 1 : Offers'[i] = [who |-> Tail(q)[i], end |-> end'[Tail(q)[i]]]
    BY <1>2, <1>3, NextOffersTyped DEF OffersShape
  <1>8. ASSUME NEW i \in 1..n - 1 PROVE q[i + 1] # w
    <2>1. \A j, k \in 1..n : q[j] = q[k] => j = k
      BY <1>1 DEF Unique
    <2>2. i + 1 \in 1..n /\ 1 \in 1..n /\ i + 1 # 1
      BY <1>1, <1>3
    <2> HIDE DEF q, n, w
    <2>3. QED
      BY <1>3, <2>1, <2>2
  <1> HIDE DEF q, n, w
  <1>9. Offers' = Tail(Offers)
    <2>1. Offers # <<>>
      BY <1>3, <1>6, EmptySeq
    <2>2. /\ Tail(Offers) \in Seq(OfferType) /\ Len(Tail(Offers)) = n - 1
          /\ \A i \in 1..n - 1 : Tail(Offers)[i] = Offers[i + 1]
      BY <1>6, <2>1, HeadTailProperties
    <2>3. ASSUME NEW i \in 1..n - 1
          PROVE  Offers'[i] = Tail(Offers)[i]
      <3>1. i + 1 \in 1..n /\ Tail(q)[i] = q[i + 1] /\ q[i + 1] \in Waiters
        BY <1>1, <1>3
      <3>2. q[i + 1] # w /\ q[i + 1] # s
        BY <1>1, <1>4, <1>8, <3>1
      <3>3. end'[q[i + 1]] = end[q[i + 1]]
        BY <1>5, <3>1, <3>2
      <3>4. Tail(Offers)[i] = Offers[i + 1]
        BY <2>2
      <3>5. Offers[i + 1] = [who |-> q[i + 1], end |-> end[q[i + 1]]]
        BY <1>6, <3>1
      <3>6. Offers'[i] = [who |-> q[i + 1], end |-> end'[q[i + 1]]]
        BY <1>7, <3>1
      <3>7. QED
        BY <3>3, <3>4, <3>5, <3>6
    <2>4. QED
      BY <1>7, <2>2, <2>3, SeqEqual
  <1>10. Offers # <<>> /\ Head(Offers).who = w /\ Head(Offers).end = end[w]
    <2>1. Offers # <<>>
      BY <1>3, <1>6, EmptySeq
    <2>2. Head(Offers) = Offers[1]
      BY <1>6, <2>1, HeadTailProperties
    <2>3. QED
      BY <1>1, <1>3, <1>6, <2>1, <2>2
  <1>11. R!Complements(end[w], e)
    <2>1. sync.expected = Expected(end[w]) /\ sync.expected \cap e # {}
      BY <1>2 DEF Inv, QueueInv, Dequeue, Matched
    <2>2. QED
      BY <2>1 DEF R!Complements, R!Opposite, Expected
  <1>12. Asked' = [Asked EXCEPT ![s] = e]
    <2>1. step' = [step EXCEPT ![s] = [pc |-> "swap", match |-> w, on |-> e]]
      BY DEF Dequeue, w, q
    <2>2. QED
      BY <2>1 DEF Asked, TypeOK
  <1>13. got' = [got EXCEPT ![s] = w, ![w] = s]
    BY DEF Dequeue, w, q
  <1>14. R!Meet(s, e)
    BY <1>4, <1>9, <1>10, <1>11, <1>12, <1>13 DEF R!Meet, Asked
  <1>15. QED
    BY <1>14 DEF R!Next, R!Ends, Ends

(* lcuCS_removestateq takes w out of the queue. *)
LEMMA RemoveWithdraws ==
  ASSUME Inv, Inv', NEW w \in Waiters, RemoveStateQ(w), UNCHANGED <<step, got>>
  PROVE  R!Next
  <1> TypeOK /\ TypeOK' /\ Unique
    BY DEF Inv, QueueInv, Unique
  <1> DEFINE q == sync.queue
             n == Len(q)
  <1>1. q \in Seq(Waiters) /\ n \in Nat /\ DOMAIN q = 1..n
        /\ \A i \in 1..n : q[i] \in Waiters
    BY QueueTyped
  <1>2. PICK i \in 1..n : q[i] = w /\ sync'.queue = RemoveAt(q, i)
    BY <1>1, RemoveQueue
  <1>3. \A j \in 1..n : j # i => q[j] # w
    BY <1>1, <1>2 DEF Unique
  <1>4. \A v \in Waiters \ {w} : end'[v] = end[v]
    BY RemoveQueue DEF TypeOK
  <1>5. /\ Len(RemoveAt(q, i)) = n - 1
        /\ \A j \in 1..n - 1 : RemoveAt(q, i)[j] = IF j < i THEN q[j] ELSE q[j + 1]
    BY <1>1, RemoveAtSeq
  <1>6. /\ Offers \in Seq(OfferType) /\ Len(Offers) = n /\ DOMAIN Offers = 1..n
        /\ \A j \in 1..n : Offers[j] = [who |-> q[j], end |-> end[q[j]]]
    BY OffersTyped DEF OffersShape
  <1>7. /\ Offers' \in Seq(OfferType) /\ Len(Offers') = n - 1
        /\ \A j \in 1..n - 1 : Offers'[j] =
             [who |-> RemoveAt(q, i)[j], end |-> end'[RemoveAt(q, i)[j]]]
    BY <1>2, <1>5, NextOffersTyped DEF OffersShape
  <1> DEFINE o == RemoveAt(Offers, i)
  <1>8. /\ o = SubSeq(Offers, 1, i - 1) \o SubSeq(Offers, i + 1, Len(Offers))
        /\ o \in Seq(OfferType) /\ Len(o) = n - 1
        /\ \A j \in 1..n - 1 : o[j] = IF j < i THEN Offers[j] ELSE Offers[j + 1]
    <2>1. i \in 1..Len(Offers)
      BY <1>6
    <2>2. /\ o = SubSeq(Offers, 1, i - 1) \o SubSeq(Offers, i + 1, Len(Offers))
          /\ o \in Seq(OfferType) /\ Len(o) = Len(Offers) - 1
          /\ \A j \in 1..Len(o) : o[j] = IF j < i THEN Offers[j] ELSE Offers[j + 1]
      BY <1>6, <2>1, RemoveAtSeq
    <2> HIDE DEF o
    <2>3. QED
      BY <1>6, <2>2
  <1> HIDE DEF q, n, o
  <1>9. ASSUME NEW j \in 1..n - 1
        PROVE  Offers'[j] = o[j]
    <2> DEFINE k == IF j < i THEN j ELSE j + 1
    <2>1. k \in 1..n /\ k # i
      BY <1>1
    <2>2. RemoveAt(q, i)[j] = q[k] /\ o[j] = Offers[k]
      BY <1>5, <1>8
    <2> HIDE DEF k
    <2>3. end'[q[k]] = end[q[k]]
      BY <1>1, <1>3, <1>4, <2>1
    <2>4. QED
      BY <1>6, <1>7, <2>1, <2>2, <2>3
  <1>10. Offers' = o
    BY <1>7, <1>8, <1>9, SeqEqual
  <1>11. R!Withdraw(i)
    BY <1>8, <1>10 DEF R!Withdraw
  <1>12. QED
    BY <1>6, <1>11 DEF R!Next

(* Every step of a channel is a step of the rendezvous, or none of it. *)
LEMMA MatchStepMet ==
  ASSUME Inv, NEW s \in States, MatchStep(s)
  PROVE  [R!Next]_<<Offers, Asked, got>>
  <1> TypeOK /\ s \in Waiters \cup States
    BY DEF Inv
  <1>1. /\ UNCHANGED <<sync, end>> /\ step[s].pc # "none"
        /\ got' \in {got, [got EXCEPT ![s] = None]}
    BY DEF MatchStep, SwapValues, CountWake, ResumeTask, MatchEnds, objVars
  <1>2. Asked' = [Asked EXCEPT ![s] = {}]
    <2>1. NoStep.on = {}
      BY DEF NoStep
    <2>2. step'[s].on = {} /\ \A r \in States \ {s} : step'[r] = step[r]
      <3>1. CASE SwapValues(s) /\ step' = [step EXCEPT ![s] = NoStep]
        BY <2>1, <3>1 DEF TypeOK
      <3>2. CASE \E p : step' = [step EXCEPT ![s].pc = p, ![s].on = {}]
        <4>1. PICK p : step' = [step EXCEPT ![s].pc = p, ![s].on = {}]
          BY <3>2
        <4>2. StepTo(s, [pc |-> p, match |-> step[s].match, on |-> {}])
          BY <4>1, StepToGoes
        <4>3. QED
          BY <4>2 DEF StepTo, TypeOK
      <3>3. CASE CountWake(s) \/ ResumeTask(s)
        BY <2>1, <3>3 DEF CountWake, ResumeTask, MatchEnds, TypeOK
      <3>4. QED
        BY <3>1, <3>2, <3>3 DEF MatchStep, SwapValues, MatchEnds
    <2>3. QED
      BY <2>2 DEF Asked
  <1>3. CASE Asked[s] # {}
    <2>1. Offers' = Offers
      BY <1>1, SameOffers
    <2>2. R!Met(s)
      BY <1>1, <1>2, <1>3, <2>1 DEF R!Met, Asked
    <2>3. QED
      BY <2>2 DEF R!Next
  <1>4. CASE Asked[s] = {}
    <2>1. Asked' = Asked
      BY <1>2, <1>4 DEF Asked
    <2>2. QED
      BY <1>1, <2>1, Uses
  <1>5. QED
    BY <1>3, <1>4

LEMMA NextMeets ==
  ASSUME Inv, Inv', [Next]_vars
  PROVE  [R!Next]_<<Offers, Asked, got>>
  <1> TypeOK /\ RefcountExact /\ Chans \subseteq Waiters /\ Tasks \subseteq States
    BY Domains DEF Inv
  <1>1. CASE UNCHANGED vars
    BY <1>1, Idle DEF vars, objVars
  <1>2. ASSUME NEW c \in Chans, Create(c) \/ Close(c) \/ CloseHangs(c) \/ CloseCo(c)
        PROVE  [R!Next]_<<Offers, Asked, got>>
    <2>1. UNCHANGED <<end, step, got>>
      BY <1>2 DEF Create, Close, CloseHangs, CloseCo, objVars
    <2>2. sync'.queue = sync.queue
      <3>1. CASE Create(c)
        BY <3>1, GetQueue DEF Create, SameQueue
      <3>2. CASE Close(c)
        BY <3>2, FreeQueue, Referenced DEF Close, SameQueue
      <3>3. QED
        BY <1>2, <3>1, <3>2 DEF CloseHangs, CloseCo
    <2>3. QED
      BY <2>1, <2>2, Idle
  <1>3. ASSUME NEW c \in Chans, CloseInUse(c) \/ CancelSynced(c)
        PROVE  [R!Next]_<<Offers, Asked, got>>
    <2>1. UNCHANGED <<step, got>> /\ (RemoveStateQ(c) \/ UNCHANGED <<sync, end>>)
      BY <1>3 DEF CloseInUse, CancelSynced
    <2>2. QED
      BY <2>1, RemoveWithdraws, Idle
  <1>4. ASSUME NEW c \in Chans, NEW e \in Ends, AwaitCh(c, e) \/ ChannelSync(c, e)
        PROVE  [R!Next]_<<Offers, Asked, got>>
    <2>1. Home[c] \in States /\ step[Home[c]].pc = "none" /\ run[Home[c]] = "running"
      BY <1>4, Domains DEF AwaitCh, ChannelSync, Lua
    <2>2. CASE Dequeue(Home[c], e)
      BY <2>1, <2>2, DequeueMeets
    <2>3. CASE Enqueue(c, e) /\ chan[c] = "unused" /\ UNCHANGED <<got, step>>
      BY <2>3, EnqueueOffers, NoValues
    <2>4. CASE sync' = Expecting(sync, e) /\ UNCHANGED <<end, got, step>>
      <3>1. sync'.queue = sync.queue
        BY <2>4, QueueTyped DEF Expecting, SyncType
      <3>2. QED
        BY <2>4, <3>1, Idle
    <2>5. QED
      BY <1>4, <2>2, <2>3, <2>4 DEF AwaitCh, ChannelSync
  <1>5. ASSUME NEW c \in Chans, OnSynced(c)
        PROVE  [R!Next]_<<Offers, Asked, got>>
    <2>1. UNCHANGED <<sync, end, step>> /\ got' = [got EXCEPT ![c] = None]
      BY <1>5 DEF OnSynced
    <2>2. Asked' = Asked
      BY <2>1 DEF Asked
    <2>3. QED
      BY <2>1, <2>2, Uses
  <1>6. ASSUME NEW s \in States, MatchStep(s)
        PROVE  [R!Next]_<<Offers, Asked, got>>
    BY <1>6, MatchStepMet
  <1>7. ASSUME NEW t \in Tasks, NEW e \in Ends \cup {{}}, YieldName(t, e)
        PROVE  [R!Next]_<<Offers, Asked, got>>
    <2>1. /\ UNCHANGED <<sync, step, got>> /\ end' = [end EXCEPT ![t] = e]
          /\ run[t] = "running" /\ step[t].pc = "none"
      BY <1>7 DEF YieldName, Lua
    <2>2. ~InQueue(t)
      BY <2>1, NoValues
    <2>3. \A w \in Waiters : InQueue(w) => end'[w] = end[w]
      BY <2>1, <2>2 DEF TypeOK
    <2>4. QED
      BY <2>1, <2>3, Idle
  <1>8. ASSUME NEW t \in Tasks, ThreadStep(t) \/ FreeLate(t)
        PROVE  [R!Next]_<<Offers, Asked, got>>
    <2>1. CASE LookUp(t)
      BY <2>1, GetQueue, Idle DEF LookUp, objVars, SameQueue
    <2>2. CASE FreeTask(t)
      <3>1. sync.refcount > 0
        BY <2>2, Referenced DEF FreeTask
      <3>2. QED
        BY <2>2, <3>1, FreeQueue, Idle DEF FreeTask, objVars, SameQueue
    <2>3. CASE FreeLate(t)
      <3>1. UNCHANGED <<end, step, got>> /\ late[t] > 0
        BY <2>3 DEF FreeLate, objVars
      <3>2. sync.refcount > 0
        BY <3>1, Referenced
      <3>3. sync'.queue = sync.queue
        BY <2>3, <3>2, FreeQueue DEF FreeLate, SameQueue
      <3>4. QED
        BY <3>1, <3>3, Idle
    <2>4. CASE SuspendedChTask(t)
      BY <2>4, Idle DEF SuspendedChTask, objVars
    <2>5. CASE Pick(t)
      <3>1. UNCHANGED <<sync, end, step>> /\ got' = [got EXCEPT ![t] = None]
        BY <2>5 DEF Pick, objVars
      <3>2. Asked' = Asked
        BY <3>1 DEF Asked
      <3>3. QED
        BY <3>1, <3>2, Uses
    <2>6. CASE MatchTask(t)
      <3>1. run[t] = "matching" /\ step[t].pc = "none" /\ end[t] \in Ends /\ t \in Waiters
        BY <2>6, Domains DEF MatchTask, Inv, StepInv, TypeOK
      <3>2. got[t] = None /\ ~InQueue(t)
        BY <3>1, NoValues
      <3>3. CASE Dequeue(t, end[t])
        BY <3>1, <3>3, DequeueMeets
      <3>4. CASE Enqueue(t, end[t]) /\ UNCHANGED <<step, got>>
        BY <3>1, <3>2, <3>4, EnqueueOffers
      <3>5. QED
        BY <2>6, <3>3, <3>4 DEF MatchTask
    <2>7. QED
      BY <1>8, <2>1, <2>2, <2>3, <2>4, <2>5, <2>6 DEF ThreadStep
  <1>9. ASSUME NEW t \in Tasks, StopRun(t) \/ EndChunk(t) \/ CloseState(t)
        PROVE  [R!Next]_<<Offers, Asked, got>>
    BY <1>9, Idle DEF StopRun, EndChunk, CloseState, objVars
  <1>10. QED
    BY <1>1, <1>2, <1>3, <1>4, <1>5, <1>6, <1>7, <1>8, <1>9 DEF Next

(* The channel implements the rendezvous: the queue of src/lchaux.c holds  *)
(* the offers, and lcuCS_matchchsync, split in its critical section and    *)
(* what follows it, makes parties meet in pairs, in the order they came.   *)
THEOREM Implements == Spec => ImplementsRendezvous
  <1>1. Init => R!Init
    <2> SUFFICES ASSUME Init PROVE R!Init
      OBVIOUS
    <2>1. sync.queue = <<>>
      BY DEF Init, NoSync
    <2>2. Offers = <<>>
      BY <2>1 DEF Offers
    <2>3. \A s \in States : step[s].on = {}
      BY DEF Init, NoStep
    <2>4. QED
      BY <2>2, <2>3 DEF Init, R!Init, R!Parties
  <1>2. Inv /\ Inv' /\ [Next]_vars => [R!Next]_<<Offers, [s \in States |-> step[s].on], got>>
    BY NextMeets DEF Asked
  <1>3. QED
    BY <1>1, <1>2, SpecInv, PTL DEF Spec, ImplementsRendezvous, R!Spec

=============================================================================
