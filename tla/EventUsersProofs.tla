------------------------- MODULE EventUsersProofs --------------------------
(***************************************************************************)
(* Proof that nobody awaits what already happened, for any coroutines and  *)
(* values, and any bound of stored events.                                 *)
(***************************************************************************)
EXTENDS EventUsers, FiniteSetTheorems, SequenceTheorems, TLAPS

(* What NoMissedEvent compares. *)
Shape ==
  /\ DOMAIN listof = Events
  /\ fulfilled \subseteq Promises
  /\ stored \in [Queues -> Nat]

Inv == Shape /\ NoMissedEvent

(* In this step only values of E get a list. *)
Opens(E) ==
  /\ DOMAIN listof' = Events
  /\ \A e \in Events \ E : listof[e] = None => listof'[e] = None

-----------------------------------------------------------------------------
(* What each operation of coutil.event does to the values without a list.  *)

(* removethread makes no list. *)
LEMMA WithoutOpens ==
  ASSUME NEW lists, NEW c
  PROVE  /\ DOMAIN ListsWithout(lists, c) = Events
         /\ \A e \in Events : lists[e] = None => ListsWithout(lists, c)[e] = None
  <1>1. Kept(removethread(None, c)) = None
    BY DEF Kept, removethread, InList
  <1>2. QED
    BY <1>1 DEF ListsWithout

(* A coroutine that awaits makes lists only of the events it awaits. *)
LEMMA AwaitOpens ==
  ASSUME NEW c, NEW E, NEW how, Await(c, E, how)
  PROVE  Opens(E)
  BY DEF Await, Opens

(* The coroutine that gets an event makes no list. *)
LEMMA DeliverOpens ==
  ASSUME NEW h, NEW lists, NEW s, Deliver(h, lists, s),
         DOMAIN lists = Events,
         \A e \in Events : listof[e] = None => lists[e] = None
  PROVE  Opens({})
  <1>1. CASE listof' = lists
    BY <1>1 DEF Opens
  <1>2. CASE listof' = ListsWithout(lists, h)
    BY <1>2, WithoutOpens DEF Opens
  <1>3. QED
    BY <1>1, <1>2 DEF Deliver

LEMMA EmitOneOpens ==
  ASSUME Shape, NEW c, NEW e, EmitOne(c, e)
  PROVE  Opens({})
  <1> DEFINE lists == [listof EXCEPT ![e] = Kept(WithoutHead(@))]
  <1>1. Deliver(HeadOf(listof[e]), lists, stack)
    BY DEF EmitOne
  <1>2. DOMAIN lists = Events /\ \A x \in Events : listof[x] = None => lists[x] = None
    <2>1. listof[e] # None
      BY DEF EmitOne
    <2>2. QED
      BY <2>1 DEF Shape
  <1> HIDE DEF lists
  <1>3. QED
    BY <1>1, <1>2, DeliverOpens

LEMMA EmitAllOpens ==
  ASSUME Shape, NEW c, NEW e, EmitAll(c, e)
  PROVE  Opens({})
  BY DEF EmitAll, Opens, Shape

LEMMA EmitStepOpens ==
  ASSUME Shape, EmitNext \/ EmitReturns
  PROVE  Opens({})
  <1>1. CASE EmitNext
    BY <1>1, DeliverOpens DEF EmitNext, Shape
  <1>2. CASE EmitReturns
    BY <1>2 DEF EmitReturns, eventVars, Opens, Shape
  <1>3. QED
    BY <1>1, <1>2

LEMMA CancelOpens ==
  ASSUME Shape, NEW c, NEW d, CancelAwait(c, d) \/ CloseAwait(c, d)
  PROVE  Opens({})
  <1>1. CASE CancelAwait(c, d)
    BY <1>1, WithoutOpens DEF CancelAwait, Opens
  <1>2. CASE CloseAwait(c, d)
    BY <1>2 DEF CloseAwait, eventVars, Opens, Shape
  <1>3. QED
    BY <1>1, <1>2

(* A step that does not change the lists. *)
LEMMA SameOpens ==
  ASSUME Shape, UNCHANGED eventVars
  PROVE  Opens({})
  BY DEF eventVars, Opens, Shape

-----------------------------------------------------------------------------
(* The invariant is kept by a step that neither fulfills nor stores, and   *)
(* that awaits nothing that already happened.                              *)
LEMMA OpensInv ==
  ASSUME Inv, NEW E, Opens(E), UNCHANGED <<fulfilled, stored>>,
         E \cap fulfilled = {}, \A q \in E \cap Queues : ~(stored[q] > 0)
  PROVE  Inv'
  <1>1. Shape'
    BY DEF Inv, Shape, Opens
  <1>2. fulfilled \subseteq Events /\ Queues \subseteq Events
    BY UsersAssumption DEF Inv, Shape
  <1>3. \A p \in fulfilled' : listof'[p] = None
    BY <1>2 DEF Inv, NoMissedEvent, Opens
  <1>4. \A q \in Queues : stored'[q] > 0 => listof'[q] = None
    BY <1>2 DEF Inv, NoMissedEvent, Opens
  <1>5. QED
    BY <1>1, <1>3, <1>4 DEF Inv, NoMissedEvent

(* The values of mutexes and plain events are not promises, and are not    *)
(* stored.                                                                 *)
LEMMA OthersInv ==
  ASSUME Inv, NEW E \in SUBSET (Plain \cup Mutexes), Opens(E),
         UNCHANGED <<fulfilled, stored>>
  PROVE  Inv'
  <1>1. E \cap fulfilled = {} /\ E \cap Queues = {}
    BY UsersAssumption DEF Inv, Shape
  <1>2. QED
    BY <1>1, OpensInv

LEMMA MutexInv ==
  ASSUME Inv, NEW c \in Coros, MutexNext(c)
  PROVE  Inv'
  <1>1. PICK m \in Mutexes : \/ Lock(c, m) /\ UNCHANGED <<fulfilled, stored>>
                             \/ Unlock(c, m) /\ UNCHANGED <<fulfilled, stored>>
    BY DEF MutexNext
  <1>2. Shape
    BY DEF Inv
  <1>3. CASE UNCHANGED eventVars
    BY <1>1, <1>2, <1>3, SameOpens, OthersInv
  <1>4. CASE Await(c, {m}, "any")
    BY <1>1, <1>4, AwaitOpens, OthersInv
  <1>5. CASE EmitOne(c, m)
    BY <1>1, <1>2, <1>5, EmitOneOpens, OthersInv
  <1>6. QED
    BY <1>1, <1>3, <1>4, <1>5 DEF Lock, Unlock

LEMMA PromiseInv ==
  ASSUME Inv, NEW c \in Coros, PromiseNext(c), UNCHANGED <<insideof, locking, stored>>
  PROVE  Inv'
  <1>1. Shape
    BY DEF Inv
  <1>2. ASSUME NEW P \in SUBSET Promises, PromiseAny(c, P) \/ PromiseAll(c, P),
               UNCHANGED fulfilled
        PROVE  Inv'
    <2>1. PICK E \in SUBSET Promises : E \cap fulfilled = {} /\ Opens(E)
      BY <1>2, AwaitOpens DEF PromiseAny, PromiseAll
    <2>2. E \cap Queues = {}
      BY <2>1, UsersAssumption
    <2>3. QED
      BY <1>2, <2>1, <2>2, OpensInv
  <1>3. ASSUME NEW p \in Promises, Fulfill(c, p)
        PROVE  Inv'
    <2>1. Opens({}) /\ listof'[p] = None
      <3>1. CASE listof[p] = None
        BY <1>1, <1>3, <3>1, SameOpens DEF Fulfill, eventVars
      <3>2. CASE EmitAll(c, p)
        <4>1. listof'[p] = None
          BY <1>1, <3>2, UsersAssumption DEF EmitAll, Shape
        <4>2. QED
          BY <1>1, <3>2, <4>1, EmitAllOpens
      <3>3. QED
        BY <1>3, <3>1, <3>2 DEF Fulfill
    <2>2. fulfilled' = fulfilled \cup {p}
      BY <1>3 DEF Fulfill
    <2>3. Shape'
      BY <1>1, <2>1, <2>2 DEF Shape, Opens
    <2>4. \A x \in fulfilled' : listof'[x] = None
      BY <2>1, <2>2, UsersAssumption DEF Inv, Shape, NoMissedEvent, Opens
    <2>5. \A q \in Queues : stored'[q] > 0 => listof'[q] = None
      BY <2>1, UsersAssumption DEF Inv, NoMissedEvent, Opens
    <2>6. QED
      BY <2>3, <2>4, <2>5 DEF Inv, NoMissedEvent
  <1>4. QED
    BY <1>2, <1>3 DEF PromiseNext

-----------------------------------------------------------------------------
(* Storing and consuming.  E has the values whose list is made. *)
LEMMA StoredInv ==
  ASSUME Inv, NEW E \in SUBSET Queues, Opens(E), UNCHANGED fulfilled,
         stored' \in [Queues -> Nat],
         \A q \in Queues : stored'[q] > 0 => q \notin E /\ listof[q] = None
  PROVE  Inv'
  <1>1. Shape'
    BY DEF Inv, Shape, Opens
  <1>2. \A p \in fulfilled' : listof'[p] = None
    BY UsersAssumption DEF Inv, Shape, NoMissedEvent, Opens
  <1>3. \A q \in Queues : stored'[q] > 0 => listof'[q] = None
    BY UsersAssumption DEF Opens
  <1>4. QED
    BY <1>1, <1>2, <1>3 DEF Inv, NoMissedEvent

(* Events are consumed only where they are stored. *)
LEMMA ConsumeEffect ==
  ASSUME Inv, NEW Q \in SUBSET Queues, NEW C \in SUBSET Stored(Q), Consume(C)
  PROVE  /\ stored' \in [Queues -> Nat]
         /\ \A q \in Queues : stored'[q] > 0 => listof[q] = None
         /\ \A q \in Queues \ C : stored'[q] = stored[q]
  BY DEF Inv, Shape, NoMissedEvent, Stored, Consume

LEMMA QueuedInv ==
  ASSUME Inv, NEW c \in Coros, QueuedNext(c), UNCHANGED <<insideof, locking, fulfilled>>
  PROVE  Inv'
  <1>1. Shape
    BY DEF Inv
  <1>2. ASSUME NEW q \in Queues, QueuedEmit(c, q)
        PROVE  Inv'
    <2>1. CASE (EmitOne(c, q) \/ EmitAll(c, q)) /\ UNCHANGED stored
      BY <1>1, <2>1, EmitOneOpens, EmitAllOpens, OpensInv
    <2>2. CASE /\ listof[q] = None /\ UNCHANGED eventVars
               /\ stored' = [stored EXCEPT ![q] = @ + 1]
      <3>1. Opens({})
        BY <1>1, <2>2, SameOpens
      <3>2. stored' \in [Queues -> Nat]
        BY <1>1, <2>2 DEF Shape
      <3>3. \A x \in Queues : stored'[x] > 0 => x \notin {} /\ listof[x] = None
        BY <2>2 DEF Inv, Shape, NoMissedEvent
      <3>4. QED
        BY <3>1, <3>2, <3>3, StoredInv
    <2>3. QED
      BY <1>2, <2>1, <2>2 DEF QueuedEmit
  <1>3. ASSUME NEW Q \in SUBSET Queues, QueuedAny(c, Q)
        PROVE  Inv'
    <2>1. CASE UNCHANGED eventVars /\ \E q \in Stored(Q) : Consume({q})
      <3>1. PICK q \in Stored(Q) : Consume({q})
        BY <2>1
      <3>2. {q} \in SUBSET Stored(Q)
        BY <3>1
      <3>3. stored' \in [Queues -> Nat] /\ \A x \in Queues : stored'[x] > 0 => listof[x] = None
        BY <3>1, <3>2, ConsumeEffect
      <3>4. Opens({})
        BY <1>1, <2>1, SameOpens
      <3>5. QED
        BY <3>3, <3>4, StoredInv
    <2>2. CASE Stored(Q) = {} /\ Await(c, Q, "any") /\ UNCHANGED stored
      <3>1. Opens(Q)
        BY <2>2, AwaitOpens
      <3>2. Q \cap fulfilled = {}
        BY <1>1, UsersAssumption DEF Shape
      <3>3. \A q \in Q \cap Queues : ~(stored[q] > 0)
        BY <2>2 DEF Stored
      <3>4. QED
        BY <2>2, <3>1, <3>2, <3>3, OpensInv
    <2>3. QED
      BY <1>3, <2>1, <2>2 DEF QueuedAny
  <1>4. ASSUME NEW Q \in SUBSET Queues, QueuedAll(c, Q)
        PROVE  Inv'
    <2> DEFINE S == Stored(Q)
    <2>1. /\ stored' \in [Queues -> Nat]
          /\ \A q \in Queues : stored'[q] > 0 => listof[q] = None
          /\ \A q \in Queues \ S : stored'[q] = stored[q]
      BY <1>4, ConsumeEffect DEF QueuedAll
    <2>2. CASE UNCHANGED eventVars
      BY <1>1, <2>1, <2>2, SameOpens, StoredInv
    <2>3. CASE Await(c, Q \ S, "all")
      <3>1. Opens(Q \ S) /\ Q \ S \in SUBSET Queues
        BY <2>3, AwaitOpens
      <3>2. \A q \in Queues : stored'[q] > 0 => q \notin Q \ S
        BY <2>1 DEF Stored
      <3>3. QED
        BY <2>1, <3>1, <3>2, StoredInv
    <2>4. QED
      BY <1>4, <2>2, <2>3 DEF QueuedAll
  <1>5. QED
    BY <1>2, <1>3, <1>4 DEF QueuedNext

LEMMA EventInv ==
  ASSUME Inv, NEW c \in Coros, EventNext(c), UNCHANGED userVars
  PROVE  Inv'
  <1>1. Shape /\ UNCHANGED <<fulfilled, stored>>
    BY DEF Inv, userVars
  <1>2. \E E \in SUBSET (Plain \cup Mutexes) : Opens(E)
    <2>1. ASSUME NEW E \in SUBSET Plain, NEW how, Await(c, E, how)
          PROVE  Opens(E)
      BY <2>1, AwaitOpens
    <2>2. ASSUME NEW e, EmitOne(c, e) \/ EmitAll(c, e)
          PROVE  Opens({})
      BY <1>1, <2>2, EmitOneOpens, EmitAllOpens
    <2>3. ASSUME NEW d, CancelAwait(c, d) \/ CloseAwait(c, d)
          PROVE  Opens({})
      BY <1>1, <2>3, CancelOpens
    <2>4. QED
      BY <2>1, <2>2, <2>3 DEF EventNext
  <1>3. QED
    BY <1>1, <1>2, OthersInv

-----------------------------------------------------------------------------
LEMMA NextInv ==
  ASSUME Inv, [Next]_vars
  PROVE  Inv'
  <1>1. Shape
    BY DEF Inv
  <1>2. CASE UNCHANGED <<eventVars, userVars>>
    BY <1>1, <1>2, SameOpens, OthersInv DEF userVars
  <1>3. CASE (EmitNext \/ EmitReturns) /\ UNCHANGED userVars
    BY <1>1, <1>3, EmitStepOpens, OthersInv DEF userVars
  <1>4. CASE \E c \in Coros :
               \/ MutexNext(c)
               \/ EventNext(c) /\ UNCHANGED userVars
               \/ PromiseNext(c) /\ UNCHANGED <<insideof, locking, stored>>
               \/ QueuedNext(c) /\ UNCHANGED <<insideof, locking, fulfilled>>
    BY <1>4, MutexInv, EventInv, PromiseInv, QueuedInv
  <1>5. QED
    BY <1>2, <1>3, <1>4 DEF Next, vars

(* Nobody awaits a promise that is fulfilled or an event that is stored    *)
(* (promise.lua, queued.lua), whoever emits, cancels or closes meanwhile.  *)
THEOREM NothingMissed == Spec => []NoMissedEvent
  <1>1. Init => Inv
    BY UsersAssumption DEF Init, EventInit, Inv, Shape, NoMissedEvent
  <1>2. Inv /\ [Next]_vars => Inv'
    BY NextInv
  <1>3. Inv => NoMissedEvent
    BY DEF Inv
  <1>4. QED
    BY <1>1, <1>2, <1>3, PTL DEF Spec

-----------------------------------------------------------------------------
(* The lists are circular: every coroutine of a list is reached from any   *)
(* other one, and by a single coroutine.                                   *)
Members(l) == {c \in Coros : l.next[c] # None}

Closed(l, S) == \A x \in S : l.next[x] \in S

Ring(l) ==
  /\ l.tail \in Members(l)
  /\ Closed(l, Members(l))
  /\ \A x \in Members(l) : \E p \in Members(l) : l.next[p] = x
  /\ \A x, y \in Members(l) : l.next[x] = l.next[y] => x = y
  /\ \A S \in SUBSET Members(l) : S # {} /\ Closed(l, S) => S = Members(l)

Rings == {l \in Lists : Ring(l)}
Linked(l) == l = EmptyList \/ l \in Rings

LEMMA ListFacts ==
  /\ None \notin Coros /\ None \notin Lists
  /\ EmptyList \in Lists /\ \A c \in Coros : ~InList(EmptyList, c)
  /\ \A l \in Lists : /\ l.tail \in Coros \cup {None}
                      /\ l.next \in [Coros -> Coros \cup {None}]
                      /\ l = [tail |-> l.tail, next |-> l.next]
  /\ \A l \in Lists, c \in Coros : InList(l, c) <=> c \in Members(l)
  /\ \A l \in Lists : Members(l) \subseteq Coros
  BY CorosAssumption, EventsAssumption DEF EmptyList, InList, Members, Lists

LEMMA OneMember ==
  ASSUME NEW l \in Rings, NEW c \in Members(l), l.next[c] = c
  PROVE  Members(l) = {c}
  <1>1. {c} \in SUBSET Members(l) /\ {c} # {} /\ Closed(l, {c})
    BY DEF Closed
  <1>2. QED
    BY <1>1 DEF Rings, Ring

(* A coroutine added to a list. *)
LEMMA AddMembers ==
  ASSUME NEW l \in Rings \cup {None}, NEW c \in Coros
  PROVE  /\ addthread(l, c) \in Rings
         /\ \A x \in Coros : InList(addthread(l, c), x) <=> (InList(l, x) \/ x = c)
  <1> DEFINE r == addthread(l, c)
  <1>1. CASE l = None
    <2>1. r = [tail |-> c, next |-> [x \in Coros |-> IF x = c THEN c ELSE None]]
      BY <1>1 DEF addthread, EmptyList
    <2> HIDE DEF r
    <2>2. /\ r \in Lists /\ r.tail = c
          /\ \A x \in Coros : r.next[x] = IF x = c THEN c ELSE None
      BY <2>1, CorosAssumption DEF Lists
    <2>3. Members(r) = {c} /\ r.next[c] = c
      BY <2>2, CorosAssumption DEF Members
    <2>4. Ring(r)
      BY <2>2, <2>3 DEF Ring, Closed
    <2>5. QED
      BY <1>1, <2>2, <2>3, <2>4, ListFacts DEF Rings, InList, r
  <1>2. CASE l \in Rings /\ InList(l, c)
    BY <1>2, ListFacts DEF addthread, Rings
  <1>3. CASE l \in Rings /\ ~InList(l, c)
    <2> DEFINE M == Members(l)
               t == l.tail
    <2>1. l \in Lists /\ Ring(l) /\ l # None
      BY <1>3, ListFacts DEF Rings
    <2>2. c \notin M /\ t \in M /\ t \in Coros /\ l.next[t] \in M /\ M \subseteq Coros
      BY <1>3, <2>1, ListFacts DEF Ring, Closed
    <2>3. r = [tail |-> c, next |-> [l.next EXCEPT ![c] = l.next[t], ![t] = c]]
      BY <1>3, <2>1 DEF addthread
    <2>4. /\ r \in Lists /\ r.tail = c
          /\ r.next[c] = l.next[t] /\ r.next[t] = c
          /\ \A x \in Coros \ {c, t} : r.next[x] = l.next[x]
      BY <2>1, <2>2, <2>3, ListFacts DEF Lists
    <2> HIDE DEF r
    <2>5. Members(r) = M \cup {c}
      BY <2>2, <2>4, CorosAssumption DEF Members
    <2>6. Closed(r, Members(r))
      BY <2>1, <2>2, <2>4, <2>5 DEF Closed, Ring
    <2>7. ASSUME NEW x \in Members(r)
          PROVE  \E p \in Members(r) : r.next[p] = x
      <3>1. CASE x = c
        BY <2>2, <2>4, <2>5, <3>1
      <3>2. CASE x = l.next[t]
        BY <2>4, <2>5, <3>2
      <3>3. CASE x # c /\ x # l.next[t]
        <4>1. PICK p \in M : l.next[p] = x
          BY <2>1, <2>5, <3>3 DEF Ring
        <4>2. p \in Coros \ {c, t}
          BY <2>2, <3>3, <4>1
        <4>3. QED
          BY <2>4, <2>5, <4>1, <4>2
      <3>4. QED
        BY <3>1, <3>2, <3>3
    <2>8. \A x, y \in Members(r) : r.next[x] = r.next[y] => x = y
      BY <2>1, <2>2, <2>4, <2>5 DEF Ring, Closed
    <2>9. ASSUME NEW S \in SUBSET Members(r), S # {}, Closed(r, S)
          PROVE  S = Members(r)
      <3>1. CASE c \in S
        <4>1. PICK T \in SUBSET M : T = S \ {c}
          BY <2>5, <2>9
        <4>2. l.next[t] \in T
          BY <2>2, <2>4, <2>9, <3>1, <4>1 DEF Closed
        <4>3. ASSUME NEW x \in T PROVE l.next[x] \in T
          <5>1. CASE x = t
            BY <4>2, <5>1
          <5>2. CASE x # t
            <6>1. r.next[x] = l.next[x] /\ r.next[x] \in S
              BY <2>2, <2>4, <2>9, <4>1, <5>2 DEF Closed
            <6>2. l.next[x] \in M
              BY <2>1 DEF Ring, Closed
            <6>3. QED
              BY <2>2, <4>1, <6>1, <6>2
          <5>3. QED
            BY <5>1, <5>2
        <4>4. Closed(l, T) /\ T # {}
          BY <4>2, <4>3 DEF Closed
        <4>5. T = M
          BY <2>1, <4>4 DEF Ring
        <4>6. QED
          BY <2>5, <3>1, <4>1, <4>5
      <3>2. CASE c \notin S
        <4>1. t \notin S /\ S \in SUBSET M
          BY <2>4, <2>5, <2>9, <3>2 DEF Closed
        <4>2. Closed(l, S)
          BY <2>2, <2>4, <2>9, <3>2, <4>1 DEF Closed
        <4>3. QED
          BY <2>1, <2>2, <2>9, <4>1, <4>2 DEF Ring
      <3>3. QED
        BY <3>1, <3>2
    <2>10. Ring(r)
      BY <2>4, <2>5, <2>6, <2>7, <2>8, <2>9 DEF Ring
    <2>11. \A x \in Coros : InList(r, x) <=> (InList(l, x) \/ x = c)
      BY <2>1, <2>4, <2>5, ListFacts
    <2>12. QED
      BY <2>4, <2>10, <2>11 DEF Rings, r
  <1>4. QED
    BY <1>1, <1>2, <1>3

(* A coroutine of a list of others, and the one before it. *)
LEMMA PreviousMember ==
  ASSUME NEW l \in Rings, NEW c \in Members(l), l.next[c] # c,
         NEW p, p = CHOOSE q \in Coros : l.next[q] = c
  PROVE  /\ p \in Members(l) /\ p # c /\ l.next[p] = c
         /\ \A q \in Members(l) : l.next[q] = c => q = p
  <1>1. l \in Lists /\ Ring(l) /\ c # None
    BY ListFacts DEF Rings, Members
  <1>2. \E q \in Coros : l.next[q] = c
    BY <1>1, ListFacts DEF Ring
  <1>3. p \in Coros /\ l.next[p] = c
    BY <1>2
  <1>4. p \in Members(l)
    BY <1>1, <1>3 DEF Members
  <1>5. QED
    BY <1>1, <1>3, <1>4 DEF Ring

LEMMA RemovedRing ==
  ASSUME NEW l \in Rings, NEW c \in Members(l), l.next[c] # c,
         NEW p \in Members(l), p # c, l.next[p] = c,
         NEW r \in Lists, r.tail = (IF l.tail = c THEN p ELSE l.tail),
         r.next = [l.next EXCEPT ![p] = l.next[c], ![c] = None]
  PROVE  Ring(r) /\ Members(r) = Members(l) \ {c}
  <1> DEFINE M == Members(l)
  <1>1. l \in Lists /\ Ring(l) /\ M \subseteq Coros /\ l.next \in [Coros -> Coros \cup {None}]
    BY ListFacts DEF Rings
  <1>2. /\ r.next[p] = l.next[c] /\ r.next[c] = None
        /\ \A x \in Coros \ {c, p} : r.next[x] = l.next[x]
    BY <1>1
  <1>3. l.next[c] \in M /\ l.next[c] # None
    BY <1>1, CorosAssumption DEF Ring, Closed
  <1>4. Members(r) = M \ {c}
    BY <1>1, <1>2, <1>3 DEF Members
  <1>5. \A x \in M : l.next[x] = c => x = p
    BY <1>1 DEF Ring
  <1>6. Closed(r, M \ {c})
    BY <1>1, <1>2, <1>3, <1>5 DEF Closed, Ring
  <1>7. r.tail \in M \ {c}
    BY <1>1 DEF Ring
  <1>8. ASSUME NEW x \in M \ {c}
        PROVE  \E q \in M \ {c} : r.next[q] = x
    <2>1. PICK q \in M : l.next[q] = x
      BY <1>1 DEF Ring
    <2>2. CASE q = c
      BY <1>2, <2>1, <2>2
    <2>3. CASE q # c
      <3>1. q # p
        BY <2>1
      <3>2. QED
        BY <1>1, <1>2, <2>1, <2>3, <3>1
    <2>4. QED
      BY <2>2, <2>3
  <1>9. \A x, y \in M \ {c} : r.next[x] = r.next[y] => x = y
    BY <1>1, <1>2, <1>5 DEF Ring
  <1>10. ASSUME NEW S \in SUBSET (M \ {c}), S # {}, Closed(r, S)
         PROVE  S = M \ {c}
    <2>1. CASE p \in S
      <3>1. PICK T \in SUBSET M : T = S \cup {c}
        OBVIOUS
      <3>2. ASSUME NEW x \in T PROVE l.next[x] \in T
        <4>1. CASE x = c
          BY <1>2, <1>10, <2>1, <3>1, <4>1 DEF Closed
        <4>2. CASE x = p
          BY <3>1, <4>2
        <4>3. CASE x # c /\ x # p
          <5>1. r.next[x] = l.next[x] /\ x \in S
            BY <1>1, <1>2, <3>1, <4>3
          <5>2. QED
            BY <1>10, <3>1, <5>1 DEF Closed
        <4>4. QED
          BY <4>1, <4>2, <4>3
      <3>3. Closed(l, T) /\ T # {}
        BY <3>1, <3>2 DEF Closed
      <3>4. T = M
        BY <1>1, <3>3 DEF Ring
      <3>5. QED
        BY <3>1, <3>4
    <2>2. CASE p \notin S
      <3>1. Closed(l, S)
        BY <1>1, <1>2, <1>10, <2>2 DEF Closed
      <3>2. S = M
        BY <1>1, <1>10, <3>1 DEF Ring
      <3>3. QED
        BY <2>2, <3>2
    <2>3. QED
      BY <2>1, <2>2
  <1>11. QED
    BY <1>4, <1>6, <1>7, <1>8, <1>9, <1>10 DEF Ring

LEMMA RemoveMembers ==
  ASSUME NEW l, Linked(l) \/ l = None, NEW c \in Coros
  PROVE  /\ l # None => Linked(removethread(l, c))
         /\ l = None => removethread(l, c) = None
         /\ \A x \in Coros : InList(removethread(l, c), x) <=> (InList(l, x) /\ x # c)
  <1>1. CASE ~InList(l, c)
    BY <1>1 DEF removethread
  <1>2. CASE InList(l, c) /\ l.next[c] = c
    <2>1. l \in Rings /\ l \in Lists /\ l # None /\ removethread(l, c) = EmptyList
      BY <1>2, ListFacts DEF removethread, InList, Linked, Rings
    <2>2. Members(l) = {c}
      BY <1>2, <2>1, ListFacts, OneMember
    <2>3. QED
      BY <2>1, <2>2, ListFacts DEF Linked
  <1>3. CASE InList(l, c) /\ l.next[c] # c
    <2>1. l \in Rings /\ l \in Lists /\ l # None /\ c \in Members(l)
      BY <1>3, ListFacts DEF InList, Linked, Rings
    <2>2. PICK p : p = CHOOSE q \in Coros : l.next[q] = c
      OBVIOUS
    <2>3. p \in Members(l) /\ p # c /\ l.next[p] = c
      BY <1>3, <2>1, <2>2, PreviousMember
    <2>4. PICK r : r = [tail |-> IF l.tail = c THEN p ELSE l.tail,
                        next |-> [l.next EXCEPT ![p] = l.next[c], ![c] = None]]
      OBVIOUS
    <2>5. removethread(l, c) = r
      BY <1>3, <2>2, <2>4 DEF removethread
    <2>6. /\ r \in Lists /\ r.tail = (IF l.tail = c THEN p ELSE l.tail)
          /\ r.next = [l.next EXCEPT ![p] = l.next[c], ![c] = None]
      BY <2>1, <2>3, <2>4, ListFacts DEF Lists
    <2>7. Ring(r) /\ Members(r) = Members(l) \ {c}
      BY <1>3, <2>1, <2>3, <2>6, RemovedRing
    <2>8. QED
      BY <2>1, <2>5, <2>6, <2>7, ListFacts DEF Linked, Rings
  <1>4. QED
    BY <1>1, <1>2, <1>3

(* The head of a list is one of its coroutines, removed as any other one.  *)
LEMMA HeadMember ==
  ASSUME NEW l \in Rings
  PROVE  /\ HeadOf(l) \in Coros /\ InList(l, HeadOf(l))
         /\ WithoutHead(l) = removethread(l, HeadOf(l))
  <1> DEFINE h == HeadOf(l)
             t == l.tail
  <1>1. l \in Lists /\ l # None /\ Ring(l) /\ l = [tail |-> t, next |-> l.next]
        /\ l.next \in [Coros -> Coros \cup {None}]
    BY ListFacts DEF Rings
  <1>2. h \in Members(l) /\ t \in Members(l) /\ l.next[t] = h /\ Members(l) \subseteq Coros
    BY <1>1, ListFacts DEF Ring, Closed, HeadOf
  <1>3. InList(l, h)
    BY <1>1, <1>2, ListFacts
  <1> HIDE DEF h
  <1>4. CASE h = t
    BY <1>2, <1>3, <1>4 DEF WithoutHead, removethread, h
  <1>5. CASE h # t
    <2>1. l.next[h] # h
      BY <1>1, <1>2, <1>5 DEF Ring
    <2>2. PICK p : p = CHOOSE q \in Coros : l.next[q] = h
      OBVIOUS
    <2>3. p = t
      BY <1>2, <2>1, <2>2, PreviousMember
    <2>4. removethread(l, h) = [tail |-> IF t = h THEN p ELSE t,
                                next |-> [l.next EXCEPT ![p] = l.next[h], ![h] = None]]
      BY <1>3, <2>1, <2>2 DEF removethread
    <2>5. removethread(l, h) = [tail |-> t,
                                next |-> [l.next EXCEPT ![t] = l.next[h], ![h] = None]]
      BY <1>5, <2>3, <2>4
    <2>6. WithoutHead(l) = [l EXCEPT !.next[t] = l.next[h], !.next[h] = None]
      BY <1>5 DEF WithoutHead, h
    <2>7. WithoutHead(l) = [tail |-> t, next |-> [l.next EXCEPT ![t] = l.next[h], ![h] = None]]
      BY <1>1, <1>2, <1>5, <2>6
    <2>8. QED
      BY <1>2, <1>3, <2>5, <2>7 DEF h
  <1>6. QED
    BY <1>2, <1>3, <1>4, <1>5 DEF h

(* An empty list is not kept. *)
LEMMA KeptMembers ==
  ASSUME NEW l, Linked(l) \/ l = None
  PROVE  /\ Kept(l) \in Rings \cup {None}
         /\ \A x \in Coros : InList(Kept(l), x) <=> InList(l, x)
  BY ListFacts DEF Kept, Linked, Rings, InList

-----------------------------------------------------------------------------
(* All the lists, and the stack of calls. *)
Frames == [at: {"lua"}, co: Coros] \cup [at: {"emitall"}, event: Events, list: Lists]

GoodLists(lists) == lists \in [Events -> Rings \cup {None}]
GoodCalls(s) ==
  /\ s \in Seq(Frames)
  /\ \A i \in DOMAIN s : s[i].at = "emitall" => Linked(s[i].list)

ListsIn(lists, c) == {e \in Events : InList(lists[e], c)}
TakenIn(s, c) == {i \in DOMAIN s : s[i].at = "emitall" /\ InList(s[i].list, c)}

(* Calls that differ only in their lists. *)
SameCall(f, g) ==
  /\ f.at = g.at
  /\ f.at = "lua" => f.co = g.co
  /\ f.at = "emitall" => f.event = g.event
SameCalls(s, u) == Len(s) = Len(u) /\ \A i \in DOMAIN s : SameCall(s[i], u[i])

LEMMA FrameFacts ==
  /\ \A f \in Frames :
       \/ f.at = "lua" /\ f.co \in Coros
       \/ f.at = "emitall" /\ f.event \in Events /\ f.list \in Lists
  /\ \A c \in Coros : Lua(c) \in Frames /\ Lua(c).at = "lua" /\ Lua(c).co = c
  /\ \A e \in Events, l \in Lists :
       LET f == EmitAllCall(e, l)
       IN  f \in Frames /\ f.at = "emitall" /\ f.event = e /\ f.list = l
  BY DEF Frames, Lua, EmitAllCall

LEMMA LuaFrame ==
  ASSUME NEW f \in Frames, NEW c \in Coros
  PROVE  f = Lua(c) <=> (f.at = "lua" /\ f.co = c)
  <1>1. CASE f \in [at: {"lua"}, co: Coros]
    BY <1>1 DEF Lua
  <1>2. CASE f \in [at: {"emitall"}, event: Events, list: Lists]
    BY <1>2, FrameFacts
  <1>3. QED
    BY <1>1, <1>2 DEF Frames

LEMMA LinkedLists ==
  ASSUME NEW l, Linked(l)
  PROVE  l \in Lists /\ l # None
  BY ListFacts DEF Linked, Rings

LEMMA ListsWithoutSets ==
  ASSUME NEW lists, GoodLists(lists), NEW c \in Coros
  PROVE  /\ GoodLists(ListsWithout(lists, c))
         /\ ListsIn(ListsWithout(lists, c), c) = {}
         /\ \A x \in Coros \ {c} : ListsIn(ListsWithout(lists, c), x) = ListsIn(lists, x)
  <1> DEFINE new == ListsWithout(lists, c)
  <1>1. ASSUME NEW e \in Events
        PROVE  /\ new[e] \in Rings \cup {None}
               /\ \A x \in Coros : InList(new[e], x) <=> (InList(lists[e], x) /\ x # c)
    <2>1. Linked(lists[e]) \/ lists[e] = None
      BY DEF GoodLists, Linked
    <2>2. PICK l : l = removethread(lists[e], c)
      OBVIOUS
    <2>3. Linked(l) \/ l = None
      BY <2>1, <2>2, RemoveMembers
    <2>4. \A x \in Coros : InList(l, x) <=> (InList(lists[e], x) /\ x # c)
      BY <2>1, <2>2, RemoveMembers
    <2>5. new[e] = Kept(l)
      BY <2>2 DEF ListsWithout
    <2>6. QED
      BY <2>3, <2>4, <2>5, KeptMembers
  <1>2. new \in [Events -> Rings \cup {None}]
    <2>1. new = [e \in Events |-> new[e]]
      BY DEF ListsWithout
    <2> HIDE DEF new
    <2>2. QED
      BY <1>1, <2>1
  <1> HIDE DEF new
  <1>3. GoodLists(new)
    BY <1>2 DEF GoodLists
  <1>4. ListsIn(new, c) = {} /\ \A x \in Coros \ {c} : ListsIn(new, x) = ListsIn(lists, x)
    BY <1>1 DEF ListsIn
  <1>5. QED
    BY <1>3, <1>4 DEF new

LEMMA CallsWithoutSets ==
  ASSUME NEW s, GoodCalls(s), NEW c \in Coros
  PROVE  /\ GoodCalls(CallsWithout(s, c)) /\ SameCalls(s, CallsWithout(s, c))
         /\ TakenIn(CallsWithout(s, c), c) = {}
         /\ \A x \in Coros \ {c} : TakenIn(CallsWithout(s, c), x) = TakenIn(s, x)
  <1>1. PICK u : u = CallsWithout(s, c)
    OBVIOUS
  <1>2. s \in Seq(Frames) /\ DOMAIN s = 1..Len(s) /\ Len(s) \in Nat
    BY DEF GoodCalls
  <1>3. /\ u = [i \in 1..Len(s) |-> u[i]] /\ DOMAIN u = 1..Len(s)
        /\ \A i \in DOMAIN s :
             u[i] = IF s[i].at = "emitall" THEN [s[i] EXCEPT !.list = removethread(@, c)]
                    ELSE s[i]
    BY <1>1, <1>2 DEF CallsWithout
  <1>4. ASSUME NEW i \in DOMAIN s
        PROVE  /\ u[i] \in Frames /\ SameCall(s[i], u[i])
               /\ u[i].at = "emitall" =>
                    /\ Linked(u[i].list)
                    /\ \A x \in Coros : InList(u[i].list, x) <=> (InList(s[i].list, x) /\ x # c)
    <2>1. s[i] \in Frames
      BY <1>2
    <2>2. CASE s[i].at # "emitall"
      BY <1>3, <2>1, <2>2 DEF SameCall
    <2>3. CASE s[i].at = "emitall"
      <3>1. PICK l : l = removethread(s[i].list, c)
        OBVIOUS
      <3>2. Linked(s[i].list) /\ s[i].list # None
        BY <2>3, LinkedLists DEF GoodCalls
      <3>3. /\ Linked(l) /\ l \in Lists
            /\ \A x \in Coros : InList(l, x) <=> (InList(s[i].list, x) /\ x # c)
        BY <3>1, <3>2, RemoveMembers, LinkedLists
      <3>4. s[i] \in [at: {"emitall"}, event: Events, list: Lists]
        BY <2>1, <2>3 DEF Frames
      <3>5. u[i] = [s[i] EXCEPT !.list = l]
        BY <1>3, <2>3, <3>1
      <3>6. u[i] = EmitAllCall(s[i].event, l) /\ s[i].event \in Events
        BY <3>4, <3>5 DEF EmitAllCall
      <3>7. u[i] \in Frames /\ u[i].at = "emitall" /\ u[i].event = s[i].event /\ u[i].list = l
        BY <3>3, <3>6, FrameFacts
      <3>8. QED
        BY <2>3, <3>3, <3>7 DEF SameCall
    <2>4. QED
      BY <2>2, <2>3
  <1>5. u \in Seq(Frames) /\ Len(u) = Len(s)
    BY <1>2, <1>3, <1>4
  <1>6. GoodCalls(u) /\ SameCalls(s, u)
    BY <1>2, <1>3, <1>4, <1>5 DEF GoodCalls, SameCalls
  <1>7. TakenIn(u, c) = {} /\ \A x \in Coros \ {c} : TakenIn(u, x) = TakenIn(s, x)
    BY <1>2, <1>3, <1>4 DEF TakenIn, SameCall
  <1>8. QED
    BY <1>1, <1>6, <1>7

(* Calls that start and end. *)
Grown(u, s) ==
  /\ GoodCalls(u) /\ Len(u) = Len(s) + 1 /\ Len(s) \in Nat
  /\ DOMAIN s = 1..Len(s) /\ DOMAIN u = 1..Len(u)
  /\ \A i \in DOMAIN s : u[i] = s[i]

LuaGrown(u, s, c) ==
  /\ Grown(u, s)
  /\ u[Len(u)].at = "lua" /\ u[Len(u)].co = c
  /\ \A x \in Coros : TakenIn(u, x) = TakenIn(s, x)

CallGrown(u, s, e, l) ==
  /\ Grown(u, s)
  /\ u[Len(u)].at = "emitall" /\ u[Len(u)].event = e /\ u[Len(u)].list = l
  /\ \A x \in Coros :
       TakenIn(u, x) = TakenIn(s, x) \cup (IF InList(l, x) THEN {Len(u)} ELSE {})

LEMMA AppendLua ==
  ASSUME NEW s, GoodCalls(s), NEW c \in Coros
  PROVE  LuaGrown(Append(s, Lua(c)), s, c)
  <1>0. PICK u : u = Append(s, Lua(c))
    OBVIOUS
  <1>1. /\ s \in Seq(Frames) /\ u \in Seq(Frames) /\ Len(u) = Len(s) + 1 /\ Len(s) \in Nat
        /\ DOMAIN s = 1..Len(s) /\ DOMAIN u = 1..Len(u)
        /\ \A i \in DOMAIN s : u[i] = s[i]
        /\ u[Len(u)] = Lua(c)
    BY <1>0, FrameFacts DEF GoodCalls
  <1>2. u[Len(u)].at = "lua" /\ u[Len(u)].co = c
    BY <1>1, FrameFacts
  <1>3. \A i \in DOMAIN u : i \in DOMAIN s \/ i = Len(u)
    BY <1>1
  <1>4. GoodCalls(u) /\ \A x \in Coros : TakenIn(u, x) = TakenIn(s, x)
    BY <1>1, <1>2, <1>3 DEF GoodCalls, TakenIn
  <1>5. LuaGrown(u, s, c)
    BY <1>1, <1>2, <1>4 DEF LuaGrown, Grown
  <1>6. QED
    BY <1>0, <1>5

LEMMA AppendCall ==
  ASSUME NEW s, GoodCalls(s), NEW e \in Events, NEW l, Linked(l)
  PROVE  CallGrown(Append(s, EmitAllCall(e, l)), s, e, l)
  <1>a. PICK u : u = Append(s, EmitAllCall(e, l))
    OBVIOUS
  <1>0. l \in Lists
    BY LinkedLists
  <1>1. /\ s \in Seq(Frames) /\ u \in Seq(Frames) /\ Len(u) = Len(s) + 1 /\ Len(s) \in Nat
        /\ DOMAIN s = 1..Len(s) /\ DOMAIN u = 1..Len(u)
        /\ \A i \in DOMAIN s : u[i] = s[i]
        /\ u[Len(u)] = EmitAllCall(e, l)
    BY <1>a, <1>0, FrameFacts DEF GoodCalls
  <1>2. u[Len(u)].at = "emitall" /\ u[Len(u)].event = e /\ u[Len(u)].list = l
    BY <1>0, <1>1, FrameFacts
  <1>3. /\ \A i \in DOMAIN u : i \in DOMAIN s \/ i = Len(u)
        /\ Len(u) \in DOMAIN u /\ DOMAIN s \subseteq DOMAIN u
    BY <1>1
  <1>4. GoodCalls(u)
    BY <1>1, <1>2, <1>3 DEF GoodCalls
  <1>5. \A x \in Coros :
          TakenIn(u, x) = TakenIn(s, x) \cup (IF InList(l, x) THEN {Len(u)} ELSE {})
    BY <1>1, <1>2, <1>3 DEF TakenIn
  <1>6. CallGrown(u, s, e, l)
    BY <1>1, <1>2, <1>4, <1>5 DEF CallGrown, Grown
  <1>7. QED
    BY <1>a, <1>6

LEMMA BelowCalls ==
  ASSUME GoodCalls(stack), ~Idle
  PROVE  /\ GoodCalls(Below) /\ Grown(stack, Below)
         /\ \A x \in Coros : TakenIn(Below, x) = TakenIn(stack, x) \ {Len(stack)}
  <1>1. PICK u : u = Below
    OBVIOUS
  <1>2. stack \in Seq(Frames) /\ Len(stack) \in Nat \ {0} /\ DOMAIN stack = 1..Len(stack)
    BY DEF GoodCalls, Idle
  <1>3. /\ u \in Seq(Frames) /\ Len(u) = Len(stack) - 1 /\ DOMAIN u = 1..Len(u)
        /\ \A i \in 1..Len(u) : u[i] = stack[i]
    BY <1>1, <1>2 DEF Below
  <1>4. \A i \in DOMAIN stack : i # Len(stack) <=> i \in DOMAIN u
    BY <1>2, <1>3
  <1>5. DOMAIN u \subseteq DOMAIN stack
    BY <1>2, <1>3
  <1>6. GoodCalls(u)
    BY <1>2, <1>3, <1>5 DEF GoodCalls
  <1>7. \A x \in Coros : TakenIn(u, x) = TakenIn(stack, x) \ {Len(stack)}
    BY <1>2, <1>3, <1>4, <1>5 DEF TakenIn
  <1>8. QED
    BY <1>1, <1>2, <1>3, <1>6, <1>7 DEF Grown

-----------------------------------------------------------------------------
(* The invariant of coutil.event.  Only the coroutines in the stack are    *)
(* running, each one in a single call.                                     *)
StackInv ==
  \A i, j \in DOMAIN stack : stack[i].at = "lua" =>
    /\ co[stack[i].co] = "running"
    /\ stack[j].at = "lua" /\ stack[j].co = stack[i].co => i = j

ThreadTypes ==
  /\ co \in [Coros -> {"suspended", "running", "await", "dead"}]
  /\ wait \in [Coros -> [how: {"any", "all"}, left: 0..Cardinality(Events)]]
  /\ wasted \subseteq Events

EventsInv ==
  /\ ThreadTypes
  /\ GoodLists(listof) /\ GoodCalls(stack)
  /\ StackInv
  /\ ListsHoldWaiters

(* ListsHoldWaiters of a coroutine. *)
Holds(c) ==
  /\ co[c] = "await" => Cardinality(ListsOf(c)) + Cardinality(TakenOf(c)) = wait[c].left
  /\ co[c] \in {"suspended", "running"} => ListsOf(c) = {} /\ TakenOf(c) = {}
  /\ \A i \in TakenOf(c) : stack[i].event \notin ListsOf(c)

LEMMA HoldsAll ==
  /\ ListsHoldWaiters <=> \A c \in Coros : Holds(c)
  /\ ListsHoldWaiters' <=> \A c \in Coros : Holds(c)'
  BY DEF ListsHoldWaiters, Holds

LEMMA OfIn ==
  ASSUME NEW c
  PROVE  /\ ListsOf(c) = ListsIn(listof, c) /\ TakenOf(c) = TakenIn(stack, c)
         /\ ListsOf(c)' = ListsIn(listof', c) /\ TakenOf(c)' = TakenIn(stack', c)
  BY DEF ListsOf, TakenOf, ListsIn, TakenIn

LEMMA SameHolds ==
  ASSUME NEW c, Holds(c), co'[c] = co[c], wait'[c] = wait[c],
         ListsIn(listof', c) = ListsIn(listof, c), TakenIn(stack', c) = TakenIn(stack, c),
         \A i \in TakenIn(stack, c) : stack'[i].event = stack[i].event
  PROVE  Holds(c)'
  BY OfIn DEF Holds

LEMMA DeadHolds ==
  ASSUME NEW c, Holds(c), co'[c] = "dead",
         ListsIn(listof', c) \subseteq ListsIn(listof, c),
         TakenIn(stack', c) \subseteq TakenIn(stack, c),
         \A i \in TakenIn(stack, c) : stack'[i].event = stack[i].event
  PROVE  Holds(c)'
  BY OfIn DEF Holds

LEMMA NoneHolds ==
  ASSUME NEW c, co'[c] # "await",
         ListsIn(listof', c) = {}, TakenIn(stack', c) = {}
  PROVE  Holds(c)'
  BY OfIn DEF Holds

(* Finite sets of lists. *)
LEMMA FiniteLists ==
  ASSUME NEW lists, NEW c
  PROVE  /\ IsFiniteSet(ListsIn(lists, c)) /\ ListsIn(lists, c) \subseteq Events
         /\ Cardinality(ListsIn(lists, c)) \in Nat
  <1>1. ListsIn(lists, c) \subseteq Events
    BY DEF ListsIn
  <1>2. QED
    BY <1>1, EventsAssumption, FS_Subset, FS_CardinalityType

LEMMA FiniteTaken ==
  ASSUME NEW s, GoodCalls(s), NEW c
  PROVE  IsFiniteSet(TakenIn(s, c)) /\ Cardinality(TakenIn(s, c)) \in Nat
  <1>1. Len(s) \in Nat /\ DOMAIN s = 1..Len(s)
    BY DEF GoodCalls
  <1>2. IsFiniteSet(1..Len(s)) /\ TakenIn(s, c) \subseteq 1..Len(s)
    BY <1>1, FS_Interval DEF TakenIn
  <1>3. QED
    BY <1>2, FS_Subset, FS_CardinalityType

LEMMA OneLess ==
  ASSUME NEW S, NEW T, NEW x \in S, IsFiniteSet(S), T = S \ {x}
  PROVE  Cardinality(S) \in Nat /\ Cardinality(T) = Cardinality(S) - 1
  BY FS_RemoveElement, FS_CardinalityType

(* The coroutine that executes. *)
LEMMA RunningTop ==
  ASSUME GoodCalls(stack), NEW c \in Coros
  PROVE  Running(c) <=> (~Idle /\ stack[Len(stack)].at = "lua" /\ stack[Len(stack)].co = c)
  <1>1. CASE Idle
    BY <1>1 DEF Running
  <1>2. CASE ~Idle
    <2>1. stack[Len(stack)] \in Frames
      BY <1>2 DEF GoodCalls, Idle
    <2>2. QED
      BY <1>2, <2>1, LuaFrame DEF Running, Top
  <1>3. QED
    BY <1>1, <1>2

LEMMA RunningNext ==
  ASSUME GoodCalls(stack)', NEW c \in Coros, ~Idle',
         stack'[Len(stack')].at = "lua", stack'[Len(stack')].co = c
  PROVE  Running(c)'
  <1>1. stack'[Len(stack')] \in Frames
    BY DEF GoodCalls, Idle
  <1>2. QED
    BY <1>1, LuaFrame DEF Running, Top

LEMMA RunningFacts ==
  ASSUME EventsInv, NEW c \in Coros, Running(c)
  PROVE  /\ ~Idle /\ Len(stack) \in DOMAIN stack
         /\ stack[Len(stack)].at = "lua" /\ stack[Len(stack)].co = c
         /\ co[c] = "running"
         /\ ListsIn(listof, c) = {} /\ TakenIn(stack, c) = {}
  <1>1. GoodCalls(stack) /\ StackInv /\ Holds(c)
    BY HoldsAll DEF EventsInv
  <1>2. ~Idle /\ stack[Len(stack)].at = "lua" /\ stack[Len(stack)].co = c
    BY <1>1, RunningTop
  <1>3. Len(stack) \in DOMAIN stack
    BY <1>1, <1>2 DEF GoodCalls, Idle
  <1>4. co[c] = "running"
    BY <1>1, <1>2, <1>3 DEF StackInv
  <1>5. QED
    BY <1>1, <1>2, <1>3, <1>4, OfIn DEF Holds

LEMMA SameEventsInv ==
  ASSUME EventsInv, UNCHANGED <<co, stack, listof, wait, wasted>>
  PROVE  EventsInv'
  <1>1. \A c \in Coros : Holds(c)'
    BY HoldsAll, SameHolds DEF EventsInv
  <1>2. ThreadTypes' /\ GoodLists(listof)' /\ GoodCalls(stack)'
    BY DEF EventsInv, ThreadTypes
  <1>3. StackInv'
    BY DEF EventsInv, StackInv
  <1>4. QED
    BY <1>1, <1>2, <1>3, HoldsAll DEF EventsInv

-----------------------------------------------------------------------------
(* A coroutine is resumed. *)
LEMMA EnterInv ==
  ASSUME EventsInv, NEW h \in Coros, co[h] \in {"suspended", "await"},
         NEW s, Enter(h, s), GoodCalls(s), SameCalls(stack, s),
         GoodLists(listof'), ThreadTypes',
         ListsIn(listof', h) = {}, TakenIn(s, h) = {},
         \A x \in Coros \ {h} :
           /\ ListsIn(listof', x) = ListsIn(listof, x)
           /\ TakenIn(s, x) = TakenIn(stack, x)
           /\ wait'[x] = wait[x]
  PROVE  EventsInv'
  <1>1. /\ co \in [Coros -> {"suspended", "running", "await", "dead"}]
        /\ GoodCalls(stack) /\ StackInv /\ \A c \in Coros : Holds(c)
    BY HoldsAll DEF EventsInv, ThreadTypes
  <1>2. stack' = Append(s, Lua(h)) /\ co' = [co EXCEPT ![h] = "running"]
    BY DEF Enter
  <1>3. /\ GoodCalls(stack') /\ Len(stack') = Len(s) + 1 /\ Len(s) \in Nat
        /\ DOMAIN s = 1..Len(s) /\ DOMAIN stack' = 1..Len(stack')
        /\ stack'[Len(stack')].at = "lua" /\ stack'[Len(stack')].co = h
        /\ \A i \in DOMAIN s : stack'[i] = s[i]
        /\ \A x \in Coros : TakenIn(stack', x) = TakenIn(s, x)
    BY <1>2, AppendLua DEF LuaGrown, Grown
  <1>4. DOMAIN stack = DOMAIN s /\ \A i \in DOMAIN s : SameCall(stack[i], stack'[i])
    <2>1. Len(stack) = Len(s) /\ DOMAIN stack = 1..Len(stack)
      BY <1>1 DEF SameCalls, GoodCalls
    <2>2. QED
      BY <1>3, <2>1 DEF SameCalls
  <1>5. \A i \in DOMAIN stack' : i \in DOMAIN s \/ i = Len(stack')
    BY <1>3
  <1>6. \A i \in DOMAIN s : stack'[i].at = "lua" =>
          stack[i].at = "lua" /\ stack'[i].co = stack[i].co /\ stack[i].co \in Coros
    BY <1>1, <1>4, FrameFacts DEF SameCall, GoodCalls
  <1>7. StackInv'
    BY <1>1, <1>2, <1>3, <1>4, <1>5, <1>6 DEF StackInv
  <1>8. ASSUME NEW x \in Coros PROVE Holds(x)'
    <2>1. CASE x = h
      BY <1>1, <1>2, <1>3, <2>1, NoneHolds
    <2>2. CASE x # h
      <3>1. \A i \in TakenIn(stack, x) : stack'[i].event = stack[i].event
        BY <1>4 DEF TakenIn, SameCall
      <3>2. co'[x] = co[x]
        BY <1>1, <1>2, <2>2
      <3>3. QED
        BY <1>1, <1>3, <2>2, <3>1, <3>2, SameHolds
    <2>3. QED
      BY <2>1, <2>2
  <1>9. ListsHoldWaiters'
    BY <1>8, HoldsAll
  <1>10. GoodCalls(stack)' /\ GoodLists(listof)'
    BY <1>3
  <1>11. QED
    BY <1>7, <1>9, <1>10 DEF EventsInv

(* The coroutine that executes is suspended. *)
LEMMA ExitInv ==
  ASSUME EventsInv, NEW c \in Coros, Running(c), NEW k, Exit(c, k), k # "running",
         GoodLists(listof'), ThreadTypes',
         \A x \in Coros \ {c} : /\ ListsIn(listof', x) = ListsIn(listof, x)
                                /\ wait'[x] = wait[x],
         TakenIn(stack', c) = {} => Holds(c)'
  PROVE  EventsInv'
  <1>1. /\ co \in [Coros -> {"suspended", "running", "await", "dead"}]
        /\ GoodCalls(stack) /\ StackInv /\ \A x \in Coros : Holds(x)
    BY HoldsAll DEF EventsInv, ThreadTypes
  <1>2. stack' = Below /\ co' = [co EXCEPT ![c] = k]
    BY DEF Exit
  <1>3. /\ ~Idle /\ Len(stack) \in DOMAIN stack
        /\ stack[Len(stack)].at = "lua" /\ stack[Len(stack)].co = c
        /\ TakenIn(stack, c) = {}
    BY RunningFacts
  <1>4. /\ GoodCalls(stack') /\ Len(stack) = Len(stack') + 1 /\ Len(stack') \in Nat
        /\ DOMAIN stack = 1..Len(stack) /\ DOMAIN stack' = 1..Len(stack')
        /\ \A i \in DOMAIN stack' : stack'[i] = stack[i]
        /\ \A x \in Coros : TakenIn(stack', x) = TakenIn(stack, x) \ {Len(stack)}
    BY <1>1, <1>2, <1>3, BelowCalls DEF Grown
  <1>5. \A x \in Coros : TakenIn(stack', x) = TakenIn(stack, x)
    BY <1>3, <1>4 DEF TakenIn
  <1>6. \A i \in DOMAIN stack' : i \in DOMAIN stack /\ i # Len(stack)
    BY <1>4
  <1>7. \A i \in DOMAIN stack' : stack'[i].at = "lua" => stack'[i].co # c /\ stack'[i].co \in Coros
    BY <1>1, <1>3, <1>4, <1>6, FrameFacts DEF StackInv, GoodCalls
  <1>8. StackInv'
    BY <1>1, <1>2, <1>4, <1>6, <1>7 DEF StackInv
  <1>9. ASSUME NEW x \in Coros PROVE Holds(x)'
    <2>1. CASE x = c
      BY <1>3, <1>5, <2>1
    <2>2. CASE x # c
      <3>1. \A i \in TakenIn(stack, x) : stack'[i].event = stack[i].event
        BY <1>4, <1>5 DEF TakenIn
      <3>2. co'[x] = co[x]
        BY <1>1, <1>2, <2>2
      <3>3. QED
        BY <1>1, <1>5, <2>2, <3>1, <3>2, SameHolds
    <2>3. QED
      BY <2>1, <2>2
  <1>10. ListsHoldWaiters'
    BY <1>9, HoldsAll
  <1>11. GoodCalls(stack)' /\ GoodLists(listof)'
    BY <1>4
  <1>12. QED
    BY <1>8, <1>10, <1>11 DEF EventsInv

LEMMA StartInv ==
  ASSUME EventsInv, NEW d \in Coros, co[d] = "suspended", Enter(d, stack), UNCHANGED eventVars
  PROVE  EventsInv'
  <1>1. ThreadTypes /\ GoodLists(listof) /\ GoodCalls(stack) /\ Holds(d)
    BY HoldsAll DEF EventsInv
  <1>2. SameCalls(stack, stack)
    BY DEF SameCalls, SameCall
  <1>3. UNCHANGED <<listof, wait, wasted>> /\ co' = [co EXCEPT ![d] = "running"]
    BY DEF eventVars, Enter
  <1>4. ThreadTypes' /\ GoodLists(listof')
    BY <1>1, <1>3 DEF ThreadTypes
  <1>5. ListsIn(listof, d) = {} /\ TakenIn(stack, d) = {}
    BY <1>1, OfIn DEF Holds
  <1>6. QED
    BY <1>1, <1>2, <1>3, <1>4, <1>5, EnterInv

LEMMA YieldInv ==
  ASSUME EventsInv, NEW c \in Coros, Yield(c), UNCHANGED eventVars
  PROVE  EventsInv'
  <1>1. Running(c) /\ Exit(c, "suspended") /\ co' = [co EXCEPT ![c] = "suspended"]
    BY DEF Yield, Exit
  <1>2. ThreadTypes /\ GoodLists(listof) /\ UNCHANGED <<listof, wait, wasted>>
    BY DEF EventsInv, eventVars
  <1>3. ThreadTypes' /\ GoodLists(listof')
    BY <1>1, <1>2 DEF ThreadTypes
  <1>4. ListsIn(listof', c) = {} /\ co'[c] = "suspended"
    BY <1>1, <1>2, RunningFacts DEF ThreadTypes
  <1>5. TakenIn(stack', c) = {} => Holds(c)'
    BY <1>4, NoneHolds
  <1>6. QED
    BY <1>1, <1>2, <1>3, <1>5, ExitInv

LEMMA AwaitInv ==
  ASSUME EventsInv, NEW c \in Coros, NEW E \in SUBSET Events,
         NEW how \in {"any", "all"}, Await(c, E, how)
  PROVE  /\ EventsInv'
         /\ ListsIn(listof', c) = E
         /\ \A x \in Coros \ {c} : ListsIn(listof', x) = ListsIn(listof, x)
  <1>1. /\ Running(c) /\ Exit(c, "await") /\ co' = [co EXCEPT ![c] = "await"]
        /\ wait' = [wait EXCEPT ![c] = [how |-> how, left |-> Cardinality(E)]]
        /\ wasted' = wasted
    BY DEF Await, Exit
  <1>2. ThreadTypes /\ GoodLists(listof)
    BY DEF EventsInv
  <1>3. /\ IsFiniteSet(E) /\ Cardinality(E) \in Nat
        /\ Cardinality(Events) \in Nat /\ Cardinality(E) <= Cardinality(Events)
    BY EventsAssumption, FS_Subset, FS_CardinalityType
  <1>4. ThreadTypes'
    <2>1. wait' \in [Coros -> [how: {"any", "all"}, left: 0..Cardinality(Events)]]
      <3>1. Cardinality(E) \in 0..Cardinality(Events)
        BY <1>3
      <3>2. [how |-> how, left |-> Cardinality(E)] \in [how: {"any", "all"}, left: 0..Cardinality(Events)]
        BY <3>1
      <3>3. QED
        BY <1>1, <1>2, <3>2 DEF ThreadTypes
    <2>2. QED
      BY <1>1, <1>2, <2>1 DEF ThreadTypes
  <1>5. listof' = [e \in Events |-> IF e \in E THEN addthread(listof[e], c) ELSE listof[e]]
    BY DEF Await
  <1>6. \A e \in Events : listof[e] \in Rings \cup {None}
    BY <1>2 DEF GoodLists
  <1>7. ASSUME NEW e \in Events
        PROVE  /\ listof'[e] \in Rings \cup {None}
               /\ \A x \in Coros : InList(listof'[e], x) <=> (InList(listof[e], x) \/ (e \in E /\ x = c))
    <2>1. CASE e \in E
      <3>1. listof'[e] = addthread(listof[e], c)
        BY <1>5, <2>1
      <3>2. QED
        BY <1>6, <2>1, <3>1, AddMembers
    <2>2. CASE e \notin E
      BY <1>5, <1>6, <2>2
    <2>3. QED
      BY <2>1, <2>2
  <1>8. GoodLists(listof')
    <2>1. listof' = [e \in Events |-> listof'[e]]
      BY <1>5
    <2>2. QED
      BY <1>7, <2>1 DEF GoodLists
  <1>9. ListsIn(listof, c) = {}
    BY <1>1, RunningFacts
  <1>10. /\ ListsIn(listof', c) = E
         /\ \A x \in Coros \ {c} : ListsIn(listof', x) = ListsIn(listof, x)
    BY <1>7, <1>9 DEF ListsIn
  <1>11. ASSUME TakenIn(stack', c) = {} PROVE Holds(c)'
    <2>1. co'[c] = "await" /\ wait'[c].left = Cardinality(E)
      BY <1>1, <1>2 DEF ThreadTypes
    <2>2. Cardinality({}) = 0
      BY FS_EmptySet
    <2>3. Cardinality(ListsIn(listof', c)) + Cardinality(TakenIn(stack', c)) = wait'[c].left
      BY <1>3, <1>10, <1>11, <2>1, <2>2
    <2>4. QED
      BY <1>11, <2>1, <2>3, OfIn DEF Holds
  <1>12. \A x \in Coros \ {c} : wait'[x] = wait[x]
    BY <1>1, <1>2 DEF ThreadTypes
  <1>13. EventsInv'
    BY <1>1, <1>4, <1>8, <1>10, <1>11, <1>12, ExitInv
  <1>14. QED
    BY <1>10, <1>13

-----------------------------------------------------------------------------
(* What a step does to the lists that the coroutines other than h are in,  *)
(* when s are the calls that remain.                                       *)
OthersSame(h, lists, s) ==
  /\ GoodLists(lists) /\ GoodCalls(s) /\ SameCalls(stack, s)
  /\ \A x \in Coros \ {h} : /\ ListsIn(lists, x) = ListsIn(listof, x)
                            /\ TakenIn(s, x) = TakenIn(stack, x)

(* h was taken from one of its lists. *)
TakenOnce(h, lists, s) ==
  /\ OthersSame(h, lists, s)
  /\ ListsIn(lists, h) \subseteq ListsIn(listof, h)
  /\ TakenIn(s, h) \subseteq TakenIn(stack, h)
  /\ Cardinality(ListsIn(lists, h)) + Cardinality(TakenIn(s, h)) =
     Cardinality(ListsIn(listof, h)) + Cardinality(TakenIn(stack, h)) - 1

(* h is resumed, and leaves all the lists. *)
Resumed(h) ==
  /\ co[h] = "await" /\ co' = [co EXCEPT ![h] = "running"]
  /\ \E s : OthersSame(h, listof', s) /\ LuaGrown(stack', s, h)
  /\ ListsIn(listof', h) = {} /\ TakenIn(stack', h) = {}
  /\ \A x \in Coros \ {h} : wait'[x] = wait[x]

(* h is not resumed. *)
Skipped(h) ==
  /\ OthersSame(h, listof', stack') /\ co' = co
  /\ ListsIn(listof', h) \subseteq ListsIn(listof, h)
  /\ TakenIn(stack', h) \subseteq TakenIn(stack, h)
  /\ \A x \in Coros \ {h} : wait'[x] = wait[x]
  /\ \/ co[h] = "dead"
     \/ co[h] = "await" /\ wait[h].how = "all" /\ wait'[h].how = "all"

LEMMA SkipInv ==
  ASSUME EventsInv, NEW h \in Coros, OthersSame(h, listof', stack'), co' = co,
         ThreadTypes', \A x \in Coros \ {h} : wait'[x] = wait[x],
         (\A i \in TakenIn(stack, h) : stack'[i].event = stack[i].event) => Holds(h)'
  PROVE  EventsInv'
  <1>1. GoodCalls(stack) /\ StackInv /\ \A x \in Coros : Holds(x)
    BY HoldsAll DEF EventsInv
  <1>2. GoodLists(listof') /\ GoodCalls(stack') /\ SameCalls(stack, stack')
    BY DEF OthersSame
  <1>3. DOMAIN stack = DOMAIN stack' /\ \A i \in DOMAIN stack : SameCall(stack[i], stack'[i])
    BY <1>1, <1>2 DEF SameCalls, GoodCalls
  <1>4. StackInv'
    BY <1>1, <1>3 DEF StackInv, SameCall
  <1>5. \A x \in Coros : \A i \in TakenIn(stack, x) : stack'[i].event = stack[i].event
    BY <1>3 DEF TakenIn, SameCall
  <1>6. \A x \in Coros \ {h} : Holds(x)'
    BY <1>1, <1>5, SameHolds DEF OthersSame
  <1>7. ListsHoldWaiters'
    BY <1>5, <1>6, HoldsAll
  <1>8. QED
    BY <1>2, <1>4, <1>7 DEF EventsInv

LEMMA DeliverInv ==
  ASSUME EventsInv, NEW h \in Coros, NEW lists, NEW s, TakenOnce(h, lists, s),
         Deliver(h, lists, s), wasted' \subseteq Events
  PROVE  /\ EventsInv' /\ (Skipped(h) \/ Resumed(h))
         /\ wait[h].how = "any" /\ co[h] = "await" => Resumed(h)
  <1>1. /\ ThreadTypes /\ GoodCalls(stack) /\ Holds(h)
        /\ co \in [Coros -> {"suspended", "running", "await", "dead"}]
        /\ wait \in [Coros -> [how: {"any", "all"}, left: 0..Cardinality(Events)]]
    BY HoldsAll DEF EventsInv, ThreadTypes
  <1>2. OthersSame(h, lists, s)
    BY DEF TakenOnce
  <1>3. ASSUME co[h] = "dead", listof' = lists, stack' = s, UNCHANGED <<co, wait>>
        PROVE  EventsInv' /\ Skipped(h)
    <2>1. OthersSame(h, listof', stack') /\ ThreadTypes'
      BY <1>1, <1>2, <1>3 DEF ThreadTypes
    <2>2. /\ ListsIn(listof', h) \subseteq ListsIn(listof, h)
          /\ TakenIn(stack', h) \subseteq TakenIn(stack, h)
      BY <1>3 DEF TakenOnce
    <2>3. (\A i \in TakenIn(stack, h) : stack'[i].event = stack[i].event) => Holds(h)'
      BY <1>1, <1>3, <2>2, DeadHolds
    <2>4. EventsInv'
      BY <1>3, <2>1, <2>3, SkipInv
    <2>5. QED
      BY <1>3, <2>1, <2>2, <2>4 DEF Skipped
  <1>4. ASSUME co[h] = "await", wait[h].how = "all", wait[h].left > 1,
               wait' = [wait EXCEPT ![h].left = @ - 1],
               listof' = lists, stack' = s, UNCHANGED co
        PROVE  EventsInv' /\ Skipped(h)
    <2>1. PICK n \in 0..Cardinality(Events) : n = wait[h].left
      BY <1>1
    <2>2. Cardinality(Events) \in Nat
      BY EventsAssumption, FS_CardinalityType
    <2>3. n - 1 \in 0..Cardinality(Events) /\ n \in Nat
      BY <1>4, <2>1, <2>2
    <2>4. wait' = [wait EXCEPT ![h] = [how |-> "all", left |-> n - 1]]
      <3>1. wait[h] = [how |-> "all", left |-> n]
        BY <1>1, <1>4, <2>1
      <3>2. [wait[h] EXCEPT !.left = @ - 1] = [how |-> "all", left |-> n - 1]
        BY <3>1
      <3>3. wait' = [wait EXCEPT ![h] = [wait[h] EXCEPT !.left = @ - 1]]
        BY <1>1, <1>4
      <3>4. QED
        BY <3>2, <3>3
    <2>5. [how |-> "all", left |-> n - 1] \in [how: {"any", "all"}, left: 0..Cardinality(Events)]
      BY <2>3
    <2>6. /\ wait' \in [Coros -> [how: {"any", "all"}, left: 0..Cardinality(Events)]]
          /\ wait'[h].left = n - 1 /\ wait'[h].how = "all"
          /\ \A x \in Coros \ {h} : wait'[x] = wait[x]
      BY <1>1, <2>4, <2>5
    <2>7. OthersSame(h, listof', stack') /\ ThreadTypes'
      BY <1>1, <1>2, <1>4, <2>6 DEF ThreadTypes
    <2>8. /\ ListsIn(listof', h) \subseteq ListsIn(listof, h)
          /\ TakenIn(stack', h) \subseteq TakenIn(stack, h)
      BY <1>4 DEF TakenOnce
    <2>9. Cardinality(ListsIn(listof', h)) + Cardinality(TakenIn(stack', h)) = wait'[h].left
      <3>1. Cardinality(ListsIn(listof, h)) + Cardinality(TakenIn(stack, h)) = n
        BY <1>1, <1>4, <2>1, OfIn DEF Holds
      <3>2. Cardinality(ListsIn(listof', h)) + Cardinality(TakenIn(stack', h)) =
            Cardinality(ListsIn(listof, h)) + Cardinality(TakenIn(stack, h)) - 1
        BY <1>4 DEF TakenOnce
      <3>3. /\ Cardinality(ListsIn(listof, h)) \in Nat /\ Cardinality(TakenIn(stack, h)) \in Nat
            /\ Cardinality(ListsIn(lists, h)) \in Nat /\ Cardinality(TakenIn(s, h)) \in Nat
        BY <1>1, <1>2, FiniteLists, FiniteTaken DEF OthersSame
      <3>4. Cardinality(ListsIn(lists, h)) + Cardinality(TakenIn(s, h)) = n - 1
        BY <1>4, <2>3, <3>1, <3>2, <3>3
      <3>5. QED
        BY <1>4, <2>6, <3>4
    <2>10. (\A i \in TakenIn(stack, h) : stack'[i].event = stack[i].event) => Holds(h)'
      BY <1>1, <1>4, <2>8, <2>9, OfIn DEF Holds
    <2>11. EventsInv'
      BY <1>4, <2>6, <2>7, <2>10, SkipInv
    <2>12. QED
      BY <1>4, <2>6, <2>7, <2>8, <2>11 DEF Skipped
  <1>5. ASSUME co[h] = "await", listof' = ListsWithout(lists, h),
               wait' = [wait EXCEPT ![h] = NotAwaiting],
               Enter(h, CallsWithout(s, h))
        PROVE  EventsInv' /\ Resumed(h)
    <2>1. PICK u : u = CallsWithout(s, h)
      OBVIOUS
    <2>2. /\ GoodCalls(u) /\ SameCalls(s, u) /\ TakenIn(u, h) = {}
          /\ \A x \in Coros \ {h} : TakenIn(u, x) = TakenIn(s, x)
      BY <1>2, <2>1, CallsWithoutSets DEF OthersSame
    <2>3. /\ GoodLists(listof') /\ ListsIn(listof', h) = {}
          /\ \A x \in Coros \ {h} : ListsIn(listof', x) = ListsIn(lists, x)
      BY <1>2, <1>5, ListsWithoutSets DEF OthersSame
    <2>4. SameCalls(stack, u)
      <3>1. SameCalls(stack, s) /\ GoodCalls(s)
        BY <1>2 DEF OthersSame
      <3>2. DOMAIN stack = DOMAIN s
        BY <1>1, <3>1 DEF SameCalls, GoodCalls
      <3>3. QED
        BY <2>2, <3>1, <3>2 DEF SameCalls, SameCall
    <2>5. OthersSame(h, listof', u)
      BY <1>2, <2>2, <2>3, <2>4 DEF OthersSame
    <2>6. Enter(h, u) /\ co' = [co EXCEPT ![h] = "running"] /\ stack' = Append(u, Lua(h))
      BY <1>5, <2>1 DEF Enter
    <2>7. NotAwaiting \in [how: {"any", "all"}, left: 0..Cardinality(Events)]
      BY EventsAssumption, FS_CardinalityType DEF NotAwaiting
    <2>8. ThreadTypes' /\ \A x \in Coros \ {h} : wait'[x] = wait[x]
      BY <1>1, <1>5, <2>6, <2>7 DEF ThreadTypes
    <2>9. EventsInv'
      BY <1>5, <2>2, <2>3, <2>5, <2>6, <2>8, EnterInv DEF OthersSame
    <2>10. LuaGrown(stack', u, h)
      BY <2>2, <2>6, AppendLua
    <2>11. TakenIn(stack', h) = {}
      BY <2>2, <2>10 DEF LuaGrown
    <2>12. QED
      BY <1>5, <2>3, <2>5, <2>6, <2>8, <2>9, <2>10, <2>11 DEF Resumed
  <1>6. QED
    BY <1>3, <1>4, <1>5 DEF Deliver

-----------------------------------------------------------------------------
(* emitone takes the first coroutine of the list. *)
LEMMA EmitOneInv ==
  ASSUME EventsInv, NEW c \in Coros, NEW e \in Events, EmitOne(c, e)
  PROVE  \E h \in Coros :
           /\ EventsInv' /\ (Skipped(h) \/ Resumed(h))
           /\ wait[h].how = "any" /\ co[h] = "await" => Resumed(h)
           /\ e \in ListsIn(listof, h)
           /\ wasted' = IF co[h] = "dead" THEN wasted \cup {e} ELSE wasted
  <1>1. GoodLists(listof) /\ GoodCalls(stack) /\ wasted \subseteq Events
    BY DEF EventsInv, ThreadTypes
  <1>2. PICK l : l = listof[e]
    OBVIOUS
  <1>3. PICK h : h = HeadOf(l)
    OBVIOUS
  <1>4. l \in Rings /\ Linked(l)
    BY <1>1, <1>2 DEF EmitOne, GoodLists, Linked
  <1>5. h \in Coros /\ InList(l, h) /\ WithoutHead(l) = removethread(l, h)
    BY <1>3, <1>4, HeadMember
  <1>6. PICK k : k = Kept(removethread(l, h))
    OBVIOUS
  <1>7. k \in Rings \cup {None} /\ \A x \in Coros : InList(k, x) <=> (InList(l, x) /\ x # h)
    <2>1. PICK r : r = removethread(l, h)
      OBVIOUS
    <2>2. Linked(r) /\ \A x \in Coros : InList(r, x) <=> (InList(l, x) /\ x # h)
      BY <1>4, <1>5, <2>1, LinkedLists, RemoveMembers
    <2>3. QED
      BY <1>6, <2>1, <2>2, KeptMembers
  <1>8. PICK lists : lists = [listof EXCEPT ![e] = Kept(WithoutHead(@))]
    OBVIOUS
  <1>9. lists = [listof EXCEPT ![e] = k]
    BY <1>2, <1>5, <1>6, <1>8
  <1>10. /\ Deliver(h, lists, stack)
         /\ wasted' = IF co[h] = "dead" THEN wasted \cup {e} ELSE wasted
    BY <1>2, <1>3, <1>8 DEF EmitOne
  <1>11. GoodLists(lists)
    BY <1>1, <1>7, <1>9 DEF GoodLists
  <1>12. /\ \A x \in Coros \ {h} : ListsIn(lists, x) = ListsIn(listof, x)
         /\ ListsIn(lists, h) = ListsIn(listof, h) \ {e} /\ e \in ListsIn(listof, h)
    BY <1>1, <1>2, <1>5, <1>7, <1>9 DEF ListsIn, GoodLists
  <1>13. SameCalls(stack, stack)
    BY DEF SameCalls, SameCall
  <1>14. OthersSame(h, lists, stack)
    BY <1>1, <1>11, <1>12, <1>13 DEF OthersSame
  <1>15. TakenOnce(h, lists, stack)
    <2>1. /\ Cardinality(ListsIn(lists, h)) = Cardinality(ListsIn(listof, h)) - 1
          /\ Cardinality(ListsIn(listof, h)) \in Nat
      BY <1>12, FiniteLists, OneLess
    <2>2. Cardinality(TakenIn(stack, h)) \in Nat
      BY <1>1, FiniteTaken
    <2>3. Cardinality(ListsIn(lists, h)) + Cardinality(TakenIn(stack, h)) =
          Cardinality(ListsIn(listof, h)) + Cardinality(TakenIn(stack, h)) - 1
      BY <2>1, <2>2
    <2>4. QED
      BY <1>12, <1>14, <2>3 DEF TakenOnce
  <1>16. wasted' \subseteq Events
    BY <1>1, <1>10
  <1>17. QED
    BY <1>5, <1>10, <1>12, <1>15, <1>16, DeliverInv

(* The loop of emitall takes the first coroutine of its list. *)
LEMMA EmitNextInv ==
  ASSUME EventsInv, EmitNext
  PROVE  /\ ~Idle /\ Len(stack) \in DOMAIN stack /\ stack[Len(stack)].at = "emitall"
         /\ \E h \in Coros :
              /\ EventsInv' /\ (Skipped(h) \/ Resumed(h))
              /\ wait[h].how = "any" /\ co[h] = "await" => Resumed(h)
              /\ Len(stack) \in TakenIn(stack, h) /\ wasted' = wasted
  <1>1. GoodLists(listof) /\ GoodCalls(stack) /\ wasted \subseteq Events
    BY DEF EventsInv, ThreadTypes
  <1>2. ~Idle /\ Top = stack[Len(stack)] /\ Top.at = "emitall" /\ Top.list # EmptyList
    BY DEF EmitNext, Emitting, Top
  <1>3. Grown(stack, Below) /\ GoodCalls(Below)
    BY <1>1, <1>2, BelowCalls
  <1>4. /\ Len(stack) = Len(Below) + 1 /\ Len(Below) \in Nat
        /\ DOMAIN stack = 1..Len(stack) /\ DOMAIN Below = 1..Len(Below)
        /\ \A i \in DOMAIN Below : Below[i] = stack[i]
        /\ \A x \in Coros : TakenIn(Below, x) = TakenIn(stack, x) \ {Len(stack)}
    BY <1>1, <1>2, <1>3, BelowCalls DEF Grown
  <1>5. Len(stack) \in DOMAIN stack
    BY <1>4
  <1>6. PICK l : l = Top.list
    OBVIOUS
  <1>7. PICK e : e = Top.event
    OBVIOUS
  <1>8. l \in Rings /\ Linked(l) /\ e \in Events
    BY <1>1, <1>2, <1>5, <1>6, <1>7, FrameFacts DEF GoodCalls, Linked
  <1>9. PICK h : h = HeadOf(l)
    OBVIOUS
  <1>10. h \in Coros /\ InList(l, h) /\ WithoutHead(l) = removethread(l, h)
    BY <1>8, <1>9, HeadMember
  <1>11. PICK k : k = WithoutHead(l)
    OBVIOUS
  <1>12. Linked(k) /\ \A x \in Coros : InList(k, x) <=> (InList(l, x) /\ x # h)
    BY <1>8, <1>10, <1>11, LinkedLists, RemoveMembers
  <1>13. PICK s : s = Append(Below, EmitAllCall(e, k))
    OBVIOUS
  <1>14. CallGrown(s, Below, e, k)
    BY <1>3, <1>8, <1>12, <1>13, AppendCall
  <1>15. /\ GoodCalls(s) /\ Len(s) = Len(stack) /\ DOMAIN s = DOMAIN stack
         /\ \A i \in DOMAIN Below : s[i] = stack[i]
         /\ s[Len(stack)].at = "emitall" /\ s[Len(stack)].event = e
         /\ \A x \in Coros :
              TakenIn(s, x) = TakenIn(Below, x) \cup (IF InList(k, x) THEN {Len(stack)} ELSE {})
    BY <1>4, <1>14 DEF CallGrown, Grown
  <1>16. SameCalls(stack, s)
    <2>1. \A i \in DOMAIN stack : i \in DOMAIN Below \/ i = Len(stack)
      BY <1>4
    <2>2. QED
      BY <1>2, <1>7, <1>15, <2>1 DEF SameCalls, SameCall
  <1>17. \A x \in Coros : Len(stack) \in TakenIn(stack, x) <=> InList(l, x)
    BY <1>2, <1>5, <1>6 DEF TakenIn
  <1>18. \A x \in Coros : TakenIn(s, x) =
           (TakenIn(stack, x) \ {Len(stack)}) \cup (IF InList(k, x) THEN {Len(stack)} ELSE {})
    BY <1>4, <1>15
  <1>19. ASSUME NEW x \in Coros \ {h} PROVE TakenIn(s, x) = TakenIn(stack, x)
    <2>1. InList(k, x) <=> Len(stack) \in TakenIn(stack, x)
      BY <1>12, <1>17
    <2>2. CASE InList(k, x)
      BY <1>18, <2>1, <2>2
    <2>3. CASE ~InList(k, x)
      BY <1>18, <2>1, <2>3
    <2>4. QED
      BY <2>2, <2>3
  <1>20. TakenIn(s, h) = TakenIn(stack, h) \ {Len(stack)} /\ Len(stack) \in TakenIn(stack, h)
    BY <1>10, <1>12, <1>17, <1>18
  <1>21. OthersSame(h, listof, s)
    BY <1>1, <1>15, <1>16, <1>19 DEF OthersSame
  <1>22. TakenOnce(h, listof, s)
    <2>1. /\ Cardinality(TakenIn(s, h)) = Cardinality(TakenIn(stack, h)) - 1
          /\ Cardinality(TakenIn(stack, h)) \in Nat
      BY <1>1, <1>20, FiniteTaken, OneLess
    <2>2. Cardinality(ListsIn(listof, h)) \in Nat
      BY FiniteLists
    <2>3. Cardinality(ListsIn(listof, h)) + Cardinality(TakenIn(s, h)) =
          Cardinality(ListsIn(listof, h)) + Cardinality(TakenIn(stack, h)) - 1
      BY <2>1, <2>2
    <2>4. QED
      BY <1>20, <1>21, <2>3 DEF TakenOnce
  <1>23. Deliver(h, listof, s) /\ wasted' = wasted
    BY <1>6, <1>7, <1>9, <1>11, <1>13 DEF EmitNext
  <1>24. QED
    BY <1>1, <1>2, <1>5, <1>10, <1>20, <1>22, <1>23, DeliverInv

(* emitall takes the whole list. *)
LEMMA EmitAllInv ==
  ASSUME EventsInv, NEW c \in Coros, NEW e \in Events, EmitAll(c, e)
  PROVE  /\ EventsInv' /\ UNCHANGED <<co, wait, wasted>>
         /\ CallGrown(stack', stack, e, listof[e])
         /\ \A x \in Coros :
              /\ ListsIn(listof', x) = ListsIn(listof, x) \ {e}
              /\ TakenIn(stack', x) = TakenIn(stack, x) \cup
                   (IF e \in ListsIn(listof, x) THEN {Len(stack')} ELSE {})
  <1>1. /\ ThreadTypes /\ GoodLists(listof) /\ GoodCalls(stack) /\ StackInv
        /\ \A x \in Coros : Holds(x)
    BY HoldsAll DEF EventsInv
  <1>2. /\ UNCHANGED <<co, wait, wasted>> /\ listof[e] # None
        /\ listof' = [listof EXCEPT ![e] = None]
        /\ stack' = Append(stack, EmitAllCall(e, listof[e]))
    BY DEF EmitAll
  <1>3. PICK l : l = listof[e]
    OBVIOUS
  <1>4. l \in Rings /\ Linked(l)
    BY <1>1, <1>2, <1>3 DEF GoodLists, Linked
  <1>5. CallGrown(stack', stack, e, l)
    BY <1>1, <1>2, <1>3, <1>4, AppendCall
  <1>6. /\ GoodCalls(stack') /\ Len(stack') = Len(stack) + 1 /\ Len(stack) \in Nat
        /\ DOMAIN stack = 1..Len(stack) /\ DOMAIN stack' = 1..Len(stack')
        /\ \A i \in DOMAIN stack : stack'[i] = stack[i]
        /\ stack'[Len(stack')].at = "emitall" /\ stack'[Len(stack')].event = e
    BY <1>5 DEF CallGrown, Grown
  <1>7. GoodLists(listof')
    BY <1>1, <1>2 DEF GoodLists
  <1>8. \A x \in Coros : ListsIn(listof', x) = ListsIn(listof, x) \ {e}
    BY <1>1, <1>2 DEF ListsIn, GoodLists, InList
  <1>9. \A x \in Coros : e \in ListsIn(listof, x) <=> InList(l, x)
    BY <1>3 DEF ListsIn
  <1>10. \A x \in Coros : TakenIn(stack', x) = TakenIn(stack, x) \cup
           (IF e \in ListsIn(listof, x) THEN {Len(stack')} ELSE {})
    BY <1>5, <1>9 DEF CallGrown
  <1>11. /\ \A i \in DOMAIN stack' : i \in DOMAIN stack \/ i = Len(stack')
         /\ Len(stack') \notin DOMAIN stack
    BY <1>6
  <1>12. StackInv'
    BY <1>1, <1>2, <1>6, <1>11 DEF StackInv
  <1>13. ASSUME NEW x \in Coros PROVE Holds(x)'
    <2>1. /\ ListsOf(x) = ListsIn(listof, x) /\ TakenOf(x) = TakenIn(stack, x)
          /\ ListsOf(x)' = ListsIn(listof', x) /\ TakenOf(x)' = TakenIn(stack', x)
      BY OfIn
    <2>2. \A i \in TakenIn(stack, x) : i \in DOMAIN stack
      BY DEF TakenIn
    <2>3. CASE e \notin ListsIn(listof, x)
      <3>1. ListsIn(listof', x) = ListsIn(listof, x) /\ TakenIn(stack', x) = TakenIn(stack, x)
        BY <1>8, <1>10, <2>3
      <3>2. \A i \in TakenIn(stack, x) : stack'[i].event = stack[i].event
        BY <1>6, <2>2
      <3>3. QED
        BY <1>1, <1>2, <3>1, <3>2, SameHolds
    <2>4. CASE e \in ListsIn(listof, x)
      <3>1. /\ ListsIn(listof', x) = ListsIn(listof, x) \ {e}
            /\ TakenIn(stack', x) = TakenIn(stack, x) \cup {Len(stack')}
        BY <1>8, <1>10, <2>4
      <3>2. Len(stack') \notin TakenIn(stack, x)
        BY <1>11, <2>2
      <3>3. /\ Cardinality(ListsIn(listof', x)) = Cardinality(ListsIn(listof, x)) - 1
            /\ Cardinality(ListsIn(listof, x)) \in Nat
        BY <2>4, <3>1, FiniteLists, OneLess
      <3>4. /\ Cardinality(TakenIn(stack', x)) = Cardinality(TakenIn(stack, x)) + 1
            /\ Cardinality(TakenIn(stack, x)) \in Nat
        BY <1>1, <3>1, <3>2, FiniteTaken, FS_AddElement
      <3>5. Cardinality(ListsIn(listof', x)) + Cardinality(TakenIn(stack', x)) =
            Cardinality(ListsIn(listof, x)) + Cardinality(TakenIn(stack, x))
        BY <3>3, <3>4
      <3>6. \A i \in TakenIn(stack', x) : stack'[i].event \notin ListsIn(listof', x)
        <4>1. \A i \in TakenIn(stack, x) : stack[i].event \notin ListsIn(listof, x)
          BY <1>1, <2>1 DEF Holds
        <4>2. QED
          BY <1>6, <2>2, <3>1, <4>1
      <3>7. co[x] \notin {"suspended", "running"}
        BY <1>1, <2>1, <2>4 DEF Holds
      <3>8. co[x] = "await" =>
              Cardinality(ListsIn(listof, x)) + Cardinality(TakenIn(stack, x)) = wait[x].left
        BY <1>1, <2>1 DEF Holds
      <3>9. QED
        BY <1>2, <2>1, <3>5, <3>6, <3>7, <3>8 DEF Holds
    <2>5. QED
      BY <2>3, <2>4
  <1>14. ListsHoldWaiters'
    BY <1>13, HoldsAll
  <1>15. ThreadTypes'
    BY <1>1, <1>2 DEF ThreadTypes
  <1>16. EventsInv'
    BY <1>6, <1>7, <1>12, <1>14, <1>15 DEF EventsInv
  <1>17. QED
    BY <1>2, <1>3, <1>5, <1>8, <1>10, <1>16

LEMMA EmitReturnsInv ==
  ASSUME EventsInv, EmitReturns
  PROVE  /\ EventsInv' /\ UNCHANGED <<co, eventVars>> /\ ~Idle
         /\ stack[Len(stack)].at = "emitall" /\ Grown(stack, stack')
         /\ \A x \in Coros : TakenIn(stack', x) = TakenIn(stack, x)
  <1>1. /\ ThreadTypes /\ GoodLists(listof) /\ GoodCalls(stack) /\ StackInv
        /\ \A x \in Coros : Holds(x)
    BY HoldsAll DEF EventsInv
  <1>2. /\ ~Idle /\ stack[Len(stack)].at = "emitall" /\ stack[Len(stack)].list = EmptyList
        /\ stack' = Below /\ UNCHANGED <<co, eventVars>>
    BY DEF EmitReturns, Emitting, Top
  <1>3. /\ GoodCalls(stack') /\ Grown(stack, stack')
        /\ \A x \in Coros : TakenIn(stack', x) = TakenIn(stack, x) \ {Len(stack)}
    BY <1>1, <1>2, BelowCalls
  <1>4. \A x \in Coros : TakenIn(stack', x) = TakenIn(stack, x)
    BY <1>2, <1>3, ListFacts DEF TakenIn
  <1>5. DOMAIN stack' \subseteq DOMAIN stack /\ \A i \in DOMAIN stack' : stack'[i] = stack[i]
    BY <1>3 DEF Grown
  <1>6. StackInv'
    BY <1>1, <1>2, <1>5 DEF StackInv
  <1>7. \A x \in Coros : \A i \in TakenIn(stack, x) : stack'[i].event = stack[i].event
    <2>1. \A x \in Coros : \A i \in TakenIn(stack', x) : i \in DOMAIN stack'
      BY DEF TakenIn
    <2>2. QED
      BY <1>4, <1>5, <2>1
  <1>8. \A x \in Coros : Holds(x)'
    BY <1>1, <1>2, <1>4, <1>7, SameHolds DEF eventVars
  <1>9. ThreadTypes' /\ GoodLists(listof)' /\ ListsHoldWaiters'
    BY <1>1, <1>2, <1>8, HoldsAll DEF ThreadTypes, eventVars
  <1>10. EventsInv'
    BY <1>3, <1>6, <1>9 DEF EventsInv
  <1>11. QED
    BY <1>2, <1>3, <1>4, <1>10

(* A coroutine that awaits is resumed by others, or closed. *)
LEMMA CancelInv ==
  ASSUME EventsInv, NEW c \in Coros, NEW d \in Coros, CancelAwait(c, d)
  PROVE  EventsInv' /\ Resumed(d) /\ wasted' = wasted
  <1>1. /\ ThreadTypes /\ GoodLists(listof) /\ GoodCalls(stack)
        /\ co \in [Coros -> {"suspended", "running", "await", "dead"}]
        /\ wait \in [Coros -> [how: {"any", "all"}, left: 0..Cardinality(Events)]]
    BY DEF EventsInv, ThreadTypes
  <1>2. PICK s : s = CallsWithout(stack, d)
    OBVIOUS
  <1>3. /\ co[d] = "await" /\ listof' = ListsWithout(listof, d)
        /\ wait' = [wait EXCEPT ![d] = NotAwaiting]
        /\ Enter(d, s) /\ wasted' = wasted
    BY <1>2 DEF CancelAwait
  <1>4. /\ GoodCalls(s) /\ SameCalls(stack, s) /\ TakenIn(s, d) = {}
        /\ \A x \in Coros \ {d} : TakenIn(s, x) = TakenIn(stack, x)
    BY <1>1, <1>2, CallsWithoutSets
  <1>5. /\ GoodLists(listof') /\ ListsIn(listof', d) = {}
        /\ \A x \in Coros \ {d} : ListsIn(listof', x) = ListsIn(listof, x)
    BY <1>1, <1>3, ListsWithoutSets
  <1>6. co' = [co EXCEPT ![d] = "running"] /\ stack' = Append(s, Lua(d))
    BY <1>3 DEF Enter
  <1>7. NotAwaiting \in [how: {"any", "all"}, left: 0..Cardinality(Events)]
    BY EventsAssumption, FS_CardinalityType DEF NotAwaiting
  <1>8. ThreadTypes' /\ \A x \in Coros \ {d} : wait'[x] = wait[x]
    BY <1>1, <1>3, <1>6, <1>7 DEF ThreadTypes
  <1>9. OthersSame(d, listof', s)
    BY <1>4, <1>5 DEF OthersSame
  <1>10. EventsInv'
    BY <1>3, <1>4, <1>5, <1>8, EnterInv
  <1>11. LuaGrown(stack', s, d)
    BY <1>4, <1>6, AppendLua
  <1>12. TakenIn(stack', d) = {}
    BY <1>4, <1>11 DEF LuaGrown
  <1>13. QED
    BY <1>3, <1>5, <1>6, <1>8, <1>9, <1>10, <1>11, <1>12 DEF Resumed

LEMMA CloseInv ==
  ASSUME EventsInv, NEW c \in Coros, NEW d \in Coros, CloseAwait(c, d)
  PROVE  EventsInv'
  <1>1. /\ ThreadTypes /\ GoodLists(listof) /\ GoodCalls(stack) /\ StackInv
        /\ \A x \in Coros : Holds(x)
        /\ co \in [Coros -> {"suspended", "running", "await", "dead"}]
    BY HoldsAll DEF EventsInv, ThreadTypes
  <1>2. /\ co[d] = "await" /\ co' = [co EXCEPT ![d] = "dead"]
        /\ UNCHANGED <<stack, listof, wait, wasted>>
    BY DEF CloseAwait, eventVars
  <1>3. StackInv'
    <2>1. \A i \in DOMAIN stack : stack[i].at = "lua" => stack[i].co \in Coros /\ stack[i].co # d
      BY <1>1, <1>2, FrameFacts DEF StackInv, GoodCalls
    <2>2. QED
      BY <1>1, <1>2, <2>1 DEF StackInv
  <1>4. ASSUME NEW x \in Coros PROVE Holds(x)'
    <2>1. /\ ListsIn(listof', x) = ListsIn(listof, x) /\ TakenIn(stack', x) = TakenIn(stack, x)
          /\ \A i \in TakenIn(stack, x) : stack'[i].event = stack[i].event
      BY <1>2
    <2>2. CASE x = d
      BY <1>1, <1>2, <2>1, <2>2, DeadHolds
    <2>3. CASE x # d
      BY <1>1, <1>2, <2>1, <2>3, SameHolds
    <2>4. QED
      BY <2>2, <2>3
  <1>5. ThreadTypes' /\ GoodLists(listof)' /\ GoodCalls(stack)'
    BY <1>1, <1>2 DEF ThreadTypes
  <1>6. QED
    BY <1>3, <1>4, <1>5, HoldsAll DEF EventsInv

-----------------------------------------------------------------------------
(* The invariant of mutex.lua.  A coroutine in mutex.lock executes, or     *)
(* awaits only the event of the mutex; only coroutines in mutex.lock await *)
(* that event; and the coroutines taken by emitall from the list of a      *)
(* mutex just await it again, because the mutex has an owner.              *)
Awaits(c, e) ==
  \/ e \in ListsIn(listof, c)
  \/ \E i \in TakenIn(stack, c) : stack[i].event = e

Locker(c) ==
  /\ locking[c] # None =>
       /\ co[c] # "suspended"
       /\ co[c] = "running" => Running(c)
       /\ co[c] = "await" => wait[c].how = "any" /\ Awaits(c, locking[c])
  /\ \A m \in Mutexes : co[c] = "await" /\ Awaits(c, m) => locking[c] = m

TakenLock(c) ==
  \A i \in TakenIn(stack, c) :
    co[c] = "await" /\ stack[i].event \in Mutexes \ wasted =>
      /\ insideof[stack[i].event] # None
      /\ \/ i = Len(stack)
         \/ /\ i + 1 = Len(stack)
            /\ \E d \in Coros : Running(d) /\ locking[d] = stack[i].event

Handed(c) ==
  locking[c] # None /\ co[c] # "dead" =>
    /\ insideof[locking[c]] # c
    /\ insideof[locking[c]] = None /\ locking[c] \notin wasted =>
         \E d \in Coros : Running(d) /\ locking[d] = locking[c]

LockTypes ==
  /\ insideof \in [Mutexes -> Coros \cup {None}]
  /\ locking \in [Coros -> Mutexes \cup {None}]

LockInv == LockTypes /\ \A c \in Coros : Locker(c) /\ TakenLock(c) /\ Handed(c)

(* No coroutine in mutex.lock executes. *)
Free == \A d \in Coros : Running(d) => locking[d] = None

(* What a step does to a coroutine that it neither resumes nor suspends.   *)
Stays(x) ==
  /\ co'[x] = co[x] /\ wait'[x] = wait[x]
  /\ ListsIn(listof', x) = ListsIn(listof, x) /\ TakenIn(stack', x) = TakenIn(stack, x)
  /\ \A i \in TakenIn(stack, x) : stack'[i].event = stack[i].event

LEMMA OneRunning ==
  ASSUME GoodCalls(stack), NEW c \in Coros, NEW d \in Coros, Running(c), Running(d)
  PROVE  c = d
  BY RunningTop

LEMMA StaysAwaits ==
  ASSUME NEW x, Stays(x)
  PROVE  \A e : Awaits(x, e)' <=> Awaits(x, e)
  BY DEF Stays, Awaits

(* The cases in which the invariant of a coroutine is kept. *)
LEMMA LockerKept ==
  ASSUME NEW x \in Coros, Locker(x), locking'[x] = locking[x],
         \/ /\ co'[x] = co[x] /\ wait'[x].how = wait[x].how
            /\ \A e : Awaits(x, e)' <=> Awaits(x, e)
            /\ Running(x) => locking[x] = None
         \/ co'[x] = "running" /\ (locking[x] = None \/ Running(x)')
         \/ co'[x] = "dead"
         \/ co'[x] = "suspended" /\ locking[x] = None
         \/ co'[x] = "await" /\ locking[x] = None /\ \A m \in Mutexes : ~Awaits(x, m)'
  PROVE  Locker(x)'
  BY DEF Locker

(* What the invariant says when no coroutine in mutex.lock executes. *)
LEMMA FreeFacts ==
  ASSUME EventsInv, LockInv, Free
  PROVE  /\ \A x \in Coros : locking[x] # None /\ co[x] # "dead" =>
              /\ insideof[locking[x]] # x
              /\ insideof[locking[x]] # None \/ locking[x] \in wasted
         /\ \A x \in Coros : \A i \in TakenIn(stack, x) :
              co[x] = "await" /\ stack[i].event \in Mutexes \ wasted =>
                insideof[stack[i].event] # None /\ i = Len(stack)
         /\ None \notin Mutexes
  <1>1. None \notin Mutexes
    BY UsersAssumption, EventsAssumption
  <1>2. QED
    BY <1>1 DEF LockInv, Handed, TakenLock, Free

(* Lua code executes, or nothing: emitall is resuming no coroutine in      *)
(* mutex.lock.                                                             *)
LEMMA NoneTaken ==
  ASSUME EventsInv, LockInv, Free, Idle \/ stack[Len(stack)].at = "lua"
  PROVE  \A x \in Coros : \A i \in TakenIn(stack, x) :
           ~(co[x] = "await" /\ stack[i].event \in Mutexes \ wasted)
  <1>1. \A x \in Coros : \A i \in TakenIn(stack, x) : i \in DOMAIN stack /\ stack[i].at = "emitall"
    BY DEF TakenIn
  <1>2. Idle => DOMAIN stack = {}
    BY DEF Idle
  <1>3. QED
    BY <1>1, <1>2, FreeFacts

LEMMA HandedKept ==
  ASSUME EventsInv, LockInv, Free, UNCHANGED <<insideof, locking>>, wasted \subseteq wasted',
         NEW x \in Coros, co[x] = "dead" => co'[x] = "dead"
  PROVE  Handed(x)'
  BY FreeFacts DEF Handed

(* A step of Lua code that changes h, and takes no coroutine from lists    *)
(* but h.                                                                  *)
LEMMA LuaStepLockers ==
  ASSUME EventsInv, LockInv, Free, Idle \/ stack[Len(stack)].at = "lua",
         locking' = locking, wasted \subseteq wasted',
         NEW h \in Coros, \A x \in Coros \ {h} : Stays(x), Locker(h)',
         \/ TakenIn(stack', h) = {}
         \/ co'[h] = "dead"
         \/ /\ co[h] = "await" /\ TakenIn(stack', h) \subseteq TakenIn(stack, h)
            /\ \A i \in TakenIn(stack, h) : stack'[i].event = stack[i].event
  PROVE  \A x \in Coros : Locker(x)' /\ TakenLock(x)'
  <1>1. \A x \in Coros \ {h} : Locker(x)'
    <2>1. \A x \in Coros : Locker(x) /\ (Running(x) => locking[x] = None)
      BY DEF LockInv, Free
    <2>2. QED
      BY <2>1, StaysAwaits, LockerKept DEF Stays
  <1>2. ASSUME NEW x \in Coros PROVE TakenLock(x)'
    <2>1. ASSUME NEW i \in TakenIn(stack', x), co'[x] = "await",
                 stack'[i].event \in Mutexes \ wasted'
          PROVE  FALSE
      <3>1. i \in TakenIn(stack, x) /\ co[x] = "await" /\ stack'[i].event = stack[i].event
        BY <2>1 DEF Stays
      <3>2. QED
        BY <2>1, <3>1, NoneTaken
    <2>2. QED
      BY <2>1 DEF TakenLock
  <1>3. QED
    BY <1>1, <1>2

LEMMA LuaStep ==
  ASSUME EventsInv, LockInv, Free, Idle \/ stack[Len(stack)].at = "lua",
         UNCHANGED <<insideof, locking>>, wasted \subseteq wasted',
         NEW h \in Coros, \A x \in Coros \ {h} : Stays(x),
         Locker(h)', co[h] = "dead" => co'[h] = "dead",
         \/ TakenIn(stack', h) = {}
         \/ co'[h] = "dead"
         \/ /\ co[h] = "await" /\ TakenIn(stack', h) \subseteq TakenIn(stack, h)
            /\ \A i \in TakenIn(stack, h) : stack'[i].event = stack[i].event
  PROVE  LockInv'
  <1>1. \A x \in Coros : Locker(x)' /\ TakenLock(x)'
    BY LuaStepLockers
  <1>2. \A x \in Coros : Handed(x)'
    BY HandedKept DEF Stays
  <1>3. LockTypes'
    BY DEF LockInv, LockTypes
  <1>4. QED
    BY <1>1, <1>2, <1>3 DEF LockInv

-----------------------------------------------------------------------------
(* The coroutines that the operations neither resume nor suspend. *)
LEMMA SameCallsEvents ==
  ASSUME NEW s, SameCalls(stack, s), GoodCalls(stack), GoodCalls(s)
  PROVE  /\ DOMAIN stack = DOMAIN s
         /\ \A x : \A i \in TakenIn(stack, x) : i \in DOMAIN s /\ s[i].event = stack[i].event
  <1>1. DOMAIN stack = DOMAIN s
    BY DEF SameCalls, GoodCalls
  <1>2. QED
    BY <1>1 DEF SameCalls, SameCall, TakenIn

LEMMA ResumedStays ==
  ASSUME EventsInv, EventsInv', NEW h \in Coros, Resumed(h)
  PROVE  /\ \A x \in Coros \ {h} : Stays(x)
         /\ co'[h] = "running" /\ Running(h)' /\ TakenIn(stack', h) = {}
         /\ Len(stack') = Len(stack) + 1 /\ Len(stack) \in Nat
  <1>1. /\ co \in [Coros -> {"suspended", "running", "await", "dead"}]
        /\ GoodCalls(stack) /\ GoodCalls(stack)'
    BY DEF EventsInv, ThreadTypes
  <1>2. PICK s : OthersSame(h, listof', s) /\ LuaGrown(stack', s, h)
    BY DEF Resumed
  <1>3. /\ Len(stack') = Len(s) + 1 /\ Len(s) \in Nat /\ GoodCalls(s) /\ SameCalls(stack, s)
        /\ stack'[Len(stack')].at = "lua" /\ stack'[Len(stack')].co = h
        /\ \A i \in DOMAIN s : stack'[i] = s[i]
        /\ \A x \in Coros : TakenIn(stack', x) = TakenIn(s, x)
    BY <1>2 DEF OthersSame, LuaGrown, Grown
  <1>4. Running(h)'
    <2>1. ~Idle'
      BY <1>3 DEF Idle
    <2>2. QED
      BY <1>1, <1>3, <2>1, RunningNext
  <1>5. \A x \in Coros \ {h} : \A i \in TakenIn(stack, x) : stack'[i].event = stack[i].event
    BY <1>1, <1>3, SameCallsEvents
  <1>6. \A x \in Coros \ {h} : Stays(x)
    BY <1>1, <1>2, <1>3, <1>5 DEF Resumed, OthersSame, Stays
  <1>7. QED
    BY <1>1, <1>3, <1>4, <1>6 DEF Resumed, SameCalls

LEMMA SkippedStays ==
  ASSUME EventsInv, EventsInv', NEW h \in Coros, Skipped(h)
  PROVE  /\ \A x \in Coros \ {h} : Stays(x)
         /\ TakenIn(stack', h) \subseteq TakenIn(stack, h)
         /\ \A i \in TakenIn(stack, h) : stack'[i].event = stack[i].event
         /\ Len(stack') = Len(stack)
  <1>1. GoodCalls(stack) /\ GoodCalls(stack') /\ SameCalls(stack, stack')
    BY DEF EventsInv, Skipped, OthersSame
  <1>2. \A x \in Coros : \A i \in TakenIn(stack, x) : stack'[i].event = stack[i].event
    BY <1>1, SameCallsEvents
  <1>3. QED
    BY <1>1, <1>2 DEF Skipped, OthersSame, Stays, SameCalls

LEMMA StartStays ==
  ASSUME EventsInv, NEW d \in Coros, Enter(d, stack), UNCHANGED eventVars
  PROVE  /\ \A x \in Coros \ {d} : Stays(x)
         /\ co'[d] = "running" /\ TakenIn(stack', d) = TakenIn(stack, d)
  <1>1. /\ co \in [Coros -> {"suspended", "running", "await", "dead"}]
        /\ GoodCalls(stack)
    BY DEF EventsInv, ThreadTypes
  <1>2. /\ stack' = Append(stack, Lua(d)) /\ co' = [co EXCEPT ![d] = "running"]
        /\ UNCHANGED <<listof, wait>>
    BY DEF Enter, eventVars
  <1>3. LuaGrown(stack', stack, d)
    BY <1>1, <1>2, AppendLua
  <1>4. \A x \in Coros : \A i \in TakenIn(stack, x) : i \in DOMAIN stack
    BY DEF TakenIn
  <1>5. QED
    BY <1>1, <1>2, <1>3, <1>4 DEF LuaGrown, Grown, Stays

LEMMA ExitStays ==
  ASSUME EventsInv, NEW c \in Coros, Running(c), NEW k, Exit(c, k),
         \A x \in Coros \ {c} : /\ ListsIn(listof', x) = ListsIn(listof, x)
                                /\ wait'[x] = wait[x]
  PROVE  /\ \A x \in Coros \ {c} : Stays(x)
         /\ co'[c] = k /\ TakenIn(stack', c) = {} /\ Len(stack) = Len(stack') + 1
  <1>1. /\ co \in [Coros -> {"suspended", "running", "await", "dead"}]
        /\ GoodCalls(stack)
    BY DEF EventsInv, ThreadTypes
  <1>2. stack' = Below /\ co' = [co EXCEPT ![c] = k]
    BY DEF Exit
  <1>3. ~Idle /\ stack[Len(stack)].at = "lua" /\ TakenIn(stack, c) = {}
    BY RunningFacts
  <1>4. /\ Grown(stack, stack')
        /\ \A x \in Coros : TakenIn(stack', x) = TakenIn(stack, x) \ {Len(stack)}
    BY <1>1, <1>2, <1>3, BelowCalls
  <1>5. \A x \in Coros : TakenIn(stack', x) = TakenIn(stack, x)
    BY <1>3, <1>4 DEF TakenIn
  <1>6. \A x \in Coros : \A i \in TakenIn(stack', x) : i \in DOMAIN stack'
    BY DEF TakenIn
  <1>7. \A x \in Coros : \A i \in TakenIn(stack, x) : stack'[i] = stack[i]
    BY <1>4, <1>5, <1>6 DEF Grown
  <1>8. QED
    BY <1>1, <1>2, <1>3, <1>4, <1>5, <1>7 DEF Grown, Stays

-----------------------------------------------------------------------------
(* The operations keep the invariant of mutex.lua. *)
LEMMA LuaFree ==
  ASSUME EventsInv, NEW c \in Coros, Running(c), locking[c] = None
  PROVE  Free /\ stack[Len(stack)].at = "lua"
  <1>1. GoodCalls(stack)
    BY DEF EventsInv
  <1>2. QED
    BY <1>1, OneRunning, RunningFacts DEF Free

LEMMA StartLock ==
  ASSUME EventsInv, LockInv, NEW d \in Coros, co[d] = "suspended", Enter(d, stack),
         Free, Idle \/ stack[Len(stack)].at = "lua",
         UNCHANGED eventVars, UNCHANGED <<insideof, locking>>
  PROVE  EventsInv' /\ LockInv'
  <1>1. EventsInv'
    BY StartInv
  <1>2. (\A x \in Coros \ {d} : Stays(x)) /\ co'[d] = "running" /\ TakenIn(stack', d) = {}
    <2>1. TakenIn(stack, d) = {}
      BY HoldsAll, OfIn DEF EventsInv, Holds
    <2>2. QED
      BY <2>1, StartStays
  <1>3. Locker(d) /\ locking[d] = None /\ wasted' = wasted
    BY DEF LockInv, Locker, eventVars
  <1>4. Locker(d)'
    BY <1>2, <1>3, LockerKept
  <1>5. QED
    BY <1>1, <1>2, <1>3, <1>4, LuaStep

LEMMA YieldLock ==
  ASSUME EventsInv, LockInv, NEW c \in Coros, Yield(c), locking[c] = None,
         UNCHANGED eventVars, UNCHANGED <<insideof, locking>>
  PROVE  EventsInv' /\ LockInv'
  <1>1. EventsInv' /\ Running(c) /\ Exit(c, "suspended")
    BY YieldInv DEF Yield
  <1>2. (\A x \in Coros \ {c} : Stays(x)) /\ co'[c] = "suspended" /\ TakenIn(stack', c) = {}
    BY <1>1, ExitStays DEF eventVars
  <1>3. Locker(c) /\ wasted' = wasted /\ co[c] = "running"
    BY <1>1, RunningFacts DEF LockInv, eventVars
  <1>4. Locker(c)'
    BY <1>2, <1>3, LockerKept
  <1>5. QED
    BY <1>1, <1>2, <1>3, <1>4, LuaFree, LuaStep

LEMMA AwaitLock ==
  ASSUME EventsInv, LockInv, NEW c \in Coros, NEW E \in SUBSET (Events \ Mutexes),
         NEW how \in {"any", "all"}, Await(c, E, how), locking[c] = None,
         UNCHANGED <<insideof, locking>>
  PROVE  EventsInv' /\ LockInv'
  <1>1. /\ Running(c) /\ Exit(c, "await") /\ wasted' = wasted
        /\ wait' = [wait EXCEPT ![c] = [how |-> how, left |-> Cardinality(E)]]
    BY DEF Await
  <1>2. E \in SUBSET Events
    OBVIOUS
  <1>3. /\ EventsInv' /\ ListsIn(listof', c) = E
        /\ \A x \in Coros \ {c} : ListsIn(listof', x) = ListsIn(listof, x)
    BY <1>2, AwaitInv
  <1>4. \A x \in Coros \ {c} : wait'[x] = wait[x]
    BY <1>1 DEF EventsInv, ThreadTypes
  <1>5. (\A x \in Coros \ {c} : Stays(x)) /\ co'[c] = "await" /\ TakenIn(stack', c) = {}
    BY <1>1, <1>3, <1>4, ExitStays
  <1>6. Locker(c) /\ co[c] = "running"
    BY <1>1, RunningFacts DEF LockInv
  <1>7. \A m \in Mutexes : ~Awaits(c, m)'
    BY <1>3, <1>5 DEF Awaits
  <1>8. Locker(c)'
    BY <1>5, <1>6, <1>7, LockerKept
  <1>9. QED
    BY <1>1, <1>3, <1>5, <1>6, <1>8, LuaFree, LuaStep

(* The coroutine that an event is delivered to. *)
LEMMA DeliverLocker ==
  ASSUME EventsInv, EventsInv', LockInv, NEW h \in Coros, Skipped(h) \/ Resumed(h),
         locking' = locking
  PROVE  /\ Locker(h)' /\ \A x \in Coros \ {h} : Stays(x)
         /\ co[h] = "dead" => co'[h] = "dead"
         /\ \/ TakenIn(stack', h) = {}
            \/ co'[h] = "dead"
            \/ /\ co[h] = "await" /\ TakenIn(stack', h) \subseteq TakenIn(stack, h)
               /\ \A i \in TakenIn(stack, h) : stack'[i].event = stack[i].event
  <1>1. Locker(h) /\ None \notin Mutexes
    BY UsersAssumption, EventsAssumption DEF LockInv
  <1>2. CASE Resumed(h)
    <2>1. /\ \A x \in Coros \ {h} : Stays(x)
          /\ co'[h] = "running" /\ Running(h)' /\ TakenIn(stack', h) = {}
      BY <1>2, ResumedStays
    <2>2. Locker(h)'
      BY <1>1, <2>1, LockerKept
    <2>3. co[h] = "await"
      BY <1>2 DEF Resumed
    <2>4. QED
      BY <2>1, <2>2, <2>3
  <1>3. CASE Skipped(h)
    <2>1. /\ \A x \in Coros \ {h} : Stays(x)
          /\ TakenIn(stack', h) \subseteq TakenIn(stack, h)
          /\ \A i \in TakenIn(stack, h) : stack'[i].event = stack[i].event
      BY <1>3, SkippedStays
    <2>2. /\ co' = co /\ ListsIn(listof', h) \subseteq ListsIn(listof, h)
          /\ \/ co[h] = "dead"
             \/ co[h] = "await" /\ wait[h].how = "all"
      BY <1>3 DEF Skipped
    <2>3. Locker(h)'
      <3>1. CASE co[h] = "dead"
        BY <1>1, <2>2, <3>1, LockerKept
      <3>2. CASE co[h] = "await" /\ wait[h].how = "all"
        <4>1. locking[h] = None
          BY <1>1, <3>2 DEF Locker
        <4>2. \A m \in Mutexes : ~Awaits(h, m)
          BY <1>1, <3>2, <4>1 DEF Locker
        <4>3. \A m \in Mutexes : ~Awaits(h, m)'
          BY <2>1, <2>2, <4>2 DEF Awaits
        <4>4. QED
          BY <1>1, <2>2, <3>2, <4>1, <4>3, LockerKept
      <3>3. QED
        BY <2>2, <3>1, <3>2
    <2>4. QED
      BY <2>1, <2>2, <2>3
  <1>4. QED
    BY <1>2, <1>3

LEMMA EmitOneLock ==
  ASSUME EventsInv, LockInv, NEW c \in Coros, NEW e \in Events, EmitOne(c, e),
         locking[c] = None, UNCHANGED <<insideof, locking>>
  PROVE  EventsInv' /\ LockInv'
  <1>1. PICK h \in Coros :
          /\ EventsInv' /\ (Skipped(h) \/ Resumed(h))
          /\ wasted' = IF co[h] = "dead" THEN wasted \cup {e} ELSE wasted
    BY EmitOneInv
  <1>2. wasted \subseteq wasted' /\ Running(c)
    BY <1>1 DEF EmitOne
  <1>3. Free /\ stack[Len(stack)].at = "lua"
    BY <1>2, LuaFree
  <1>4. QED
    BY <1>1, <1>2, <1>3, DeliverLocker, LuaStep

LEMMA CancelLock ==
  ASSUME EventsInv, LockInv, NEW c \in Coros, NEW d \in Coros, CancelAwait(c, d),
         locking[c] = None, UNCHANGED <<insideof, locking>>
  PROVE  EventsInv' /\ LockInv'
  <1>1. EventsInv' /\ Resumed(d) /\ wasted' = wasted
    BY CancelInv
  <1>2. Free /\ stack[Len(stack)].at = "lua"
    BY LuaFree DEF CancelAwait
  <1>3. QED
    BY <1>1, <1>2, DeliverLocker, LuaStep

LEMMA CloseLock ==
  ASSUME EventsInv, LockInv, NEW c \in Coros, NEW d \in Coros, CloseAwait(c, d),
         locking[c] = None, UNCHANGED <<insideof, locking>>
  PROVE  EventsInv' /\ LockInv'
  <1>1. EventsInv'
    BY CloseInv
  <1>2. Free /\ stack[Len(stack)].at = "lua"
    BY LuaFree DEF CloseAwait
  <1>3. co' = [co EXCEPT ![d] = "dead"] /\ UNCHANGED <<stack, listof, wait, wasted>>
    BY DEF CloseAwait, eventVars
  <1>4. (\A x \in Coros \ {d} : Stays(x)) /\ co'[d] = "dead"
    BY <1>3 DEF EventsInv, ThreadTypes, Stays
  <1>5. Locker(d)'
    BY <1>4, LockerKept DEF LockInv
  <1>6. QED
    BY <1>1, <1>2, <1>3, <1>4, <1>5, LuaStep

LEMMA EmitAllLock ==
  ASSUME EventsInv, LockInv, NEW c \in Coros, NEW e \in Events, EmitAll(c, e),
         locking[c] = None, UNCHANGED <<insideof, locking>>
  PROVE  EventsInv' /\ LockInv'
  <1>1. /\ EventsInv' /\ UNCHANGED <<co, wait, wasted>>
        /\ CallGrown(stack', stack, e, listof[e])
        /\ \A x \in Coros :
             /\ ListsIn(listof', x) = ListsIn(listof, x) \ {e}
             /\ TakenIn(stack', x) = TakenIn(stack, x) \cup
                  (IF e \in ListsIn(listof, x) THEN {Len(stack')} ELSE {})
    BY EmitAllInv
  <1>2. Free /\ stack[Len(stack)].at = "lua"
    BY LuaFree DEF EmitAll
  <1>3. /\ stack'[Len(stack')].event = e
        /\ \A i \in DOMAIN stack : stack'[i] = stack[i] /\ i # Len(stack')
    BY <1>1 DEF CallGrown, Grown
  <1>4. \A x \in Coros : \A i \in TakenIn(stack, x) : i \in DOMAIN stack
    BY DEF TakenIn
  <1>5. \A x \in Coros : \A a : Awaits(x, a)' <=> Awaits(x, a)
    <2>1. ASSUME NEW x \in Coros, NEW a PROVE Awaits(x, a)' <=> Awaits(x, a)
      <3>1. CASE e \in ListsIn(listof, x)
        <4>1. /\ ListsIn(listof', x) = ListsIn(listof, x) \ {e}
              /\ TakenIn(stack', x) = TakenIn(stack, x) \cup {Len(stack')}
          BY <1>1, <3>1
        <4>2. QED
          BY <1>3, <1>4, <3>1, <4>1 DEF Awaits
      <3>2. CASE e \notin ListsIn(listof, x)
        <4>1. /\ ListsIn(listof', x) = ListsIn(listof, x)
              /\ TakenIn(stack', x) = TakenIn(stack, x)
          BY <1>1, <3>2
        <4>2. QED
          BY <1>3, <1>4, <4>1 DEF Awaits
      <3>3. QED
        BY <3>1, <3>2
    <2>2. QED
      BY <2>1
  <1>6. \A x \in Coros : Locker(x)'
    <2>1. \A x \in Coros : Locker(x) /\ (Running(x) => locking[x] = None)
      BY <1>2 DEF LockInv, Free
    <2>2. QED
      BY <1>1, <1>5, <2>1, LockerKept
  <1>7. \A x \in Coros : Handed(x)'
    BY <1>1, <1>2, HandedKept
  <1>8. ASSUME NEW x \in Coros PROVE TakenLock(x)'
    <2>1. ASSUME NEW i \in TakenIn(stack', x), co'[x] = "await",
                 stack'[i].event \in Mutexes \ wasted'
          PROVE  insideof'[stack'[i].event] # None /\ i = Len(stack')
      <3>1. CASE i \in TakenIn(stack, x)
        BY <1>1, <1>2, <1>3, <1>4, <2>1, <3>1, NoneTaken
      <3>2. CASE i \notin TakenIn(stack, x)
        <4>1. i = Len(stack') /\ e \in ListsIn(listof, x) /\ e \in Mutexes \ wasted
          BY <1>1, <1>3, <2>1, <3>2
        <4>2. locking[x] = e /\ co[x] = "await"
          BY <1>1, <2>1, <4>1 DEF LockInv, Locker, Awaits
        <4>3. insideof[e] # None
          BY <1>2, <4>1, <4>2, FreeFacts
        <4>4. QED
          BY <1>3, <4>1, <4>3
      <3>3. QED
        BY <3>1, <3>2
    <2>2. QED
      BY <2>1 DEF TakenLock
  <1>9. LockTypes'
    BY DEF LockInv, LockTypes
  <1>10. QED
    BY <1>1, <1>6, <1>7, <1>8, <1>9 DEF LockInv

LEMMA EmitNextLock ==
  ASSUME EventsInv, LockInv, EmitNext, UNCHANGED <<insideof, locking>>
  PROVE  EventsInv' /\ LockInv'
  <1>1. ~Idle /\ Len(stack) \in DOMAIN stack /\ stack[Len(stack)].at = "emitall"
    BY EmitNextInv
  <1>2. PICK h \in Coros :
          /\ EventsInv' /\ (Skipped(h) \/ Resumed(h))
          /\ Len(stack) \in TakenIn(stack, h) /\ wasted' = wasted
    BY EmitNextInv
  <1>3. Free
    BY <1>1, RunningFacts DEF Free
  <1>4. /\ Locker(h)' /\ \A x \in Coros \ {h} : Stays(x)
        /\ co[h] = "dead" => co'[h] = "dead"
    BY <1>2, DeliverLocker
  <1>5. \A x \in Coros : Handed(x)'
    BY <1>2, <1>3, <1>4, HandedKept DEF Stays
  <1>6. \A x \in Coros \ {h} : Locker(x)'
    <2>1. \A x \in Coros : Locker(x) /\ (Running(x) => locking[x] = None)
      BY <1>3 DEF LockInv, Free
    <2>2. QED
      BY <1>4, <2>1, StaysAwaits, LockerKept DEF Stays
  <1>7. ASSUME NEW x \in Coros PROVE TakenLock(x)'
    <2>1. ASSUME NEW i \in TakenIn(stack', x), co'[x] = "await",
                 stack'[i].event \in Mutexes \ wasted'
          PROVE  /\ insideof'[stack'[i].event] # None
                 /\ \/ i = Len(stack')
                    \/ /\ i + 1 = Len(stack')
                       /\ \E d \in Coros : Running(d)' /\ locking'[d] = stack'[i].event
      <3>1. CASE Skipped(h)
        <4>1. /\ i \in TakenIn(stack, x) /\ stack'[i].event = stack[i].event
              /\ Len(stack') = Len(stack) /\ co' = co
          BY <1>2, <1>4, <2>1, <3>1, SkippedStays DEF Stays, Skipped
        <4>2. QED
          BY <1>2, <1>3, <2>1, <4>1, FreeFacts
      <3>2. CASE Resumed(h)
        <4>1. /\ TakenIn(stack', h) = {} /\ Running(h)'
              /\ Len(stack') = Len(stack) + 1 /\ Len(stack) \in Nat
          BY <1>2, <3>2, ResumedStays
        <4>2. i \in TakenIn(stack, x) /\ stack'[i].event = stack[i].event /\ co[x] = "await"
          BY <1>4, <2>1, <4>1 DEF Stays
        <4>3. insideof[stack[i].event] # None /\ i = Len(stack)
          BY <1>2, <1>3, <2>1, <4>2, FreeFacts
        <4>4. locking[h] = stack[i].event
          BY <1>2, <2>1, <3>2, <4>2, <4>3 DEF Resumed, LockInv, Locker, Awaits
        <4>5. QED
          BY <4>1, <4>2, <4>3, <4>4
      <3>3. QED
        BY <1>2, <3>1, <3>2
    <2>2. QED
      BY <2>1 DEF TakenLock
  <1>8. LockTypes'
    BY DEF LockInv, LockTypes
  <1>9. QED
    BY <1>2, <1>4, <1>5, <1>6, <1>7, <1>8 DEF LockInv

LEMMA EmitReturnsLock ==
  ASSUME EventsInv, LockInv, EmitReturns, UNCHANGED <<insideof, locking>>
  PROVE  EventsInv' /\ LockInv'
  <1>1. /\ EventsInv' /\ UNCHANGED <<co, listof, wait, wasted>> /\ ~Idle
        /\ stack[Len(stack)].at = "emitall" /\ Grown(stack, stack')
        /\ \A x \in Coros : TakenIn(stack', x) = TakenIn(stack, x)
    BY EmitReturnsInv DEF eventVars
  <1>2. Free
    BY <1>1, RunningFacts DEF Free
  <1>3. \A x \in Coros : \A i \in TakenIn(stack', x) : i \in DOMAIN stack'
    BY DEF TakenIn
  <1>4. \A x \in Coros : \A i \in TakenIn(stack, x) : stack'[i] = stack[i] /\ i # Len(stack)
    BY <1>1, <1>3 DEF Grown
  <1>5. \A x \in Coros : Stays(x)
    BY <1>1, <1>4 DEF Stays
  <1>6. \A x \in Coros : Locker(x)'
    <2>1. \A x \in Coros : Locker(x) /\ (Running(x) => locking[x] = None)
      BY <1>2 DEF LockInv, Free
    <2>2. QED
      BY <1>5, <2>1, StaysAwaits, LockerKept DEF Stays
  <1>7. \A x \in Coros : Handed(x)'
    BY <1>1, <1>2, HandedKept
  <1>8. \A x \in Coros : TakenLock(x)'
    BY <1>1, <1>2, <1>4, FreeFacts DEF TakenLock
  <1>9. LockTypes'
    BY DEF LockInv, LockTypes
  <1>10. QED
    BY <1>1, <1>6, <1>7, <1>8, <1>9 DEF LockInv

(* mutex.unlock: the event is given to a coroutine in mutex.lock, if any.  *)
LEMMA UnlockLock ==
  ASSUME EventsInv, LockInv, NEW c \in Coros, NEW m \in Mutexes, Unlock(c, m),
         locking[c] = None, locking' = locking
  PROVE  EventsInv' /\ LockInv'
  <1>1. /\ Running(c) /\ insideof' = [insideof EXCEPT ![m] = None]
        /\ IF listof[m] # None THEN EmitOne(c, m) ELSE UNCHANGED <<threadVars, eventVars>>
    BY DEF Unlock
  <1>2. Free /\ stack[Len(stack)].at = "lua"
    BY <1>1, LuaFree
  <1>3. LockTypes /\ m \in Events /\ None \notin Coros
    BY UsersAssumption, CorosAssumption DEF LockInv
  <1>4. /\ LockTypes' /\ insideof'[m] = None
        /\ \A n \in Mutexes \ {m} : insideof'[n] = insideof[n]
    BY <1>1, <1>3 DEF LockTypes
  <1>5. ASSUME NEW x \in Coros, co[x] = "dead" => co'[x] = "dead", wasted \subseteq wasted',
               locking[x] = m /\ co[x] # "dead" =>
                 \/ m \in wasted'
                 \/ \E d \in Coros : Running(d)' /\ locking[d] = m
        PROVE  Handed(x)'
    <2>1. CASE locking[x] = m
      BY <1>3, <1>4, <1>5, <2>1 DEF Handed
    <2>2. CASE locking[x] # m
      <3>1. locking[x] # None => insideof'[locking[x]] = insideof[locking[x]]
        BY <1>3, <1>4, <2>2 DEF LockTypes
      <3>2. QED
        BY <1>2, <1>5, <3>1, FreeFacts DEF Handed
    <2>3. QED
      BY <2>1, <2>2
  <1>6. CASE listof[m] = None
    <2>1. UNCHANGED <<co, stack, listof, wait, wasted>>
      BY <1>1, <1>6 DEF threadVars, eventVars
    <2>2. \A x \in Coros : Stays(x)
      BY <2>1 DEF Stays
    <2>3. EventsInv'
      BY <2>1, SameEventsInv
    <2>4. \A x \in Coros : Locker(x)'
      <3>1. \A x \in Coros : Locker(x) /\ (Running(x) => locking[x] = None)
        BY <1>2 DEF LockInv, Free
      <3>2. QED
        BY <2>2, <3>1, StaysAwaits, LockerKept DEF Stays
    <2>5. TakenIn(stack', c) = {}
      BY <1>1, <2>1, RunningFacts
    <2>6. \A x \in Coros : TakenLock(x)'
      BY <1>2, <2>1, <2>2, <2>4, <2>5, LuaStepLockers
    <2>7. ASSUME NEW x \in Coros, locking[x] = m, co[x] # "dead"
          PROVE  m \in wasted
      <3>1. locking[x] # None
        BY <2>7, EventsAssumption, <1>3
      <3>2. co[x] # "suspended" /\ co[x] # "running"
        BY <1>2, <2>7, <3>1 DEF LockInv, Locker, Free
      <3>3. co[x] = "await"
        BY <2>7, <3>2 DEF EventsInv, ThreadTypes
      <3>4. Awaits(x, m)
        BY <2>7, <3>1, <3>3 DEF LockInv, Locker
      <3>5. m \notin ListsIn(listof, x)
        BY <1>6 DEF ListsIn, InList
      <3>6. QED
        BY <1>2, <3>3, <3>4, <3>5, NoneTaken DEF Awaits
    <2>8. \A x \in Coros : Handed(x)'
      BY <1>5, <2>1, <2>7
    <2>9. QED
      BY <1>4, <2>3, <2>4, <2>6, <2>8 DEF LockInv
  <1>7. CASE EmitOne(c, m)
    <2>1. PICK h \in Coros :
            /\ EventsInv' /\ (Skipped(h) \/ Resumed(h))
            /\ wait[h].how = "any" /\ co[h] = "await" => Resumed(h)
            /\ m \in ListsIn(listof, h)
            /\ wasted' = IF co[h] = "dead" THEN wasted \cup {m} ELSE wasted
      BY <1>3, <1>7, EmitOneInv
    <2>2. wasted \subseteq wasted'
      BY <2>1
    <2>3. /\ Locker(h)' /\ \A x \in Coros \ {h} : Stays(x)
          /\ co[h] = "dead" => co'[h] = "dead"
          /\ \/ TakenIn(stack', h) = {}
             \/ co'[h] = "dead"
             \/ /\ co[h] = "await" /\ TakenIn(stack', h) \subseteq TakenIn(stack, h)
                /\ \A i \in TakenIn(stack, h) : stack'[i].event = stack[i].event
      BY <2>1, DeliverLocker
    <2>4. \A x \in Coros : Locker(x)' /\ TakenLock(x)'
      BY <1>2, <2>2, <2>3, LuaStepLockers
    <2>5. m \in wasted' \/ (Running(h)' /\ locking[h] = m)
      <3>1. CASE co[h] = "dead"
        BY <2>1, <3>1
      <3>2. CASE co[h] # "dead"
        <4>1. co[h] = "await"
          BY <2>1, <3>2 DEF Skipped, Resumed
        <4>2. locking[h] = m /\ locking[h] # None
          BY <1>3, <2>1, <4>1, EventsAssumption DEF LockInv, Locker, Awaits
        <4>3. wait[h].how = "any"
          BY <4>1, <4>2 DEF LockInv, Locker
        <4>4. Running(h)'
          BY <2>1, <4>1, <4>3, ResumedStays
        <4>5. QED
          BY <4>2, <4>4
      <3>3. QED
        BY <3>1, <3>2
    <2>6. \A x \in Coros : Handed(x)'
      BY <1>5, <2>2, <2>3, <2>5 DEF Stays
    <2>7. QED
      BY <1>4, <2>1, <2>4, <2>6 DEF LockInv
  <1>8. QED
    BY <1>1, <1>6, <1>7

(* mutex.lock *)
LEMMA LockLock ==
  ASSUME EventsInv, LockInv, NEW c \in Coros, NEW m \in Mutexes, Lock(c, m)
  PROVE  EventsInv' /\ LockInv'
  <1>1. Running(c) /\ locking[c] \in {None, m} /\ insideof[m] # c
    BY DEF Lock
  <1>2. LockTypes /\ m \in Events /\ None \notin Coros /\ None \notin Mutexes /\ GoodCalls(stack)
    BY UsersAssumption, EventsAssumption, CorosAssumption DEF LockInv, EventsInv
  <1>3. \A d \in Coros : Running(d) => d = c
    BY <1>1, <1>2, OneRunning
  <1>4. ~Idle /\ stack[Len(stack)].at = "lua" /\ co[c] = "running" /\ TakenIn(stack, c) = {}
    BY <1>1, RunningFacts
  (* The other mutexes without an owner have no waiter. *)
  <1>5. ASSUME NEW x \in Coros, x # c, locking[x] # None, co[x] # "dead", locking[x] # m
        PROVE  /\ insideof[locking[x]] # x
               /\ insideof[locking[x]] # None \/ locking[x] \in wasted
    BY <1>1, <1>3, <1>5 DEF LockInv, Handed
  <1>6. ASSUME NEW x \in Coros, NEW i \in TakenIn(stack, x), co[x] = "await",
               stack[i].event \in Mutexes \ wasted
        PROVE  stack[i].event = m /\ insideof[m] # None /\ i + 1 = Len(stack)
    <2>1. i # Len(stack)
      BY <1>4, <1>6 DEF TakenIn
    <2>2. /\ insideof[stack[i].event] # None /\ i + 1 = Len(stack)
          /\ locking[c] = stack[i].event
      BY <1>3, <1>6, <2>1 DEF LockInv, TakenLock
    <2>3. QED
      BY <1>1, <1>2, <1>6, <2>2
  <1>7. CASE insideof[m] = None
    <2>1. /\ insideof' = [insideof EXCEPT ![m] = c] /\ locking' = [locking EXCEPT ![c] = None]
          /\ UNCHANGED <<co, stack, listof, wait, wasted>>
      BY <1>7 DEF Lock, threadVars, eventVars
    <2>2. /\ LockTypes' /\ insideof'[m] = c /\ \A n \in Mutexes \ {m} : insideof'[n] = insideof[n]
          /\ locking'[c] = None /\ \A x \in Coros \ {c} : locking'[x] = locking[x]
      BY <1>2, <2>1 DEF LockTypes
    <2>3. \A x \in Coros : Stays(x)
      BY <2>1 DEF Stays
    <2>4. EventsInv'
      BY <2>1, SameEventsInv
    <2>5. \A x \in Coros : Locker(x)'
      <3>1. \A x \in Coros \ {c} : Locker(x)'
        <4>1. \A x \in Coros \ {c} : Locker(x) /\ ~Running(x)
          BY <1>3 DEF LockInv
        <4>2. QED
          BY <2>2, <2>3, <4>1, StaysAwaits, LockerKept DEF Stays
      <3>2. Locker(c)'
        BY <1>4, <2>1, <2>2 DEF Locker
      <3>3. QED
        BY <3>1, <3>2
    <2>6. \A x \in Coros : TakenLock(x)'
      BY <1>6, <1>7, <2>1 DEF TakenLock
    <2>7. ASSUME NEW x \in Coros PROVE Handed(x)'
      <3>1. CASE x = c
        BY <2>2, <3>1 DEF Handed
      <3>2. CASE x # c /\ locking[x] = m
        BY <1>2, <2>2, <3>2 DEF Handed
      <3>3. CASE x # c /\ locking[x] # m
        <4>1. locking[x] # None => insideof'[locking[x]] = insideof[locking[x]]
          BY <1>2, <2>2, <3>3 DEF LockTypes
        <4>2. QED
          BY <1>5, <2>1, <2>2, <3>3, <4>1 DEF Handed
      <3>4. QED
        BY <3>1, <3>2, <3>3
    <2>8. QED
      BY <2>2, <2>4, <2>5, <2>6, <2>7 DEF LockInv
  <1>8. CASE insideof[m] # None
    <2>1. /\ Await(c, {m}, "any") /\ locking' = [locking EXCEPT ![c] = m] /\ insideof' = insideof
      BY <1>8 DEF Lock
    <2>2. /\ LockTypes' /\ locking'[c] = m /\ \A x \in Coros \ {c} : locking'[x] = locking[x]
      BY <1>2, <2>1 DEF LockTypes
    <2>3. /\ EventsInv' /\ ListsIn(listof', c) = {m}
          /\ \A x \in Coros \ {c} : ListsIn(listof', x) = ListsIn(listof, x)
      BY <1>2, <2>1, AwaitInv
    <2>4. /\ Exit(c, "await") /\ wasted' = wasted
          /\ wait' = [wait EXCEPT ![c] = [how |-> "any", left |-> Cardinality({m})]]
      BY <2>1 DEF Await
    <2>5. (\A x \in Coros \ {c} : wait'[x] = wait[x]) /\ wait'[c].how = "any"
      BY <2>4 DEF EventsInv, ThreadTypes
    <2>6. /\ \A x \in Coros \ {c} : Stays(x)
          /\ co'[c] = "await" /\ TakenIn(stack', c) = {} /\ Len(stack) = Len(stack') + 1
      BY <1>1, <2>3, <2>4, <2>5, ExitStays
    <2>7. Len(stack') \in Nat
      BY <2>3 DEF EventsInv, GoodCalls
    <2>8. \A x \in Coros : Locker(x)'
      <3>1. \A x \in Coros \ {c} : Locker(x)'
        <4>1. \A x \in Coros \ {c} : Locker(x) /\ ~Running(x)
          BY <1>3 DEF LockInv
        <4>2. QED
          BY <2>2, <2>6, <4>1, StaysAwaits, LockerKept DEF Stays
      <3>2. \A e : Awaits(c, e)' <=> e = m
        BY <2>3, <2>6 DEF Awaits
      <3>3. Locker(c)'
        BY <2>2, <2>5, <2>6, <3>2 DEF Locker
      <3>4. QED
        BY <3>1, <3>3
    <2>9. ASSUME NEW x \in Coros PROVE TakenLock(x)'
      <3>1. ASSUME NEW i \in TakenIn(stack', x), co'[x] = "await",
                   stack'[i].event \in Mutexes \ wasted'
            PROVE  insideof'[stack'[i].event] # None /\ i = Len(stack')
        <4>1. /\ i \in TakenIn(stack, x) /\ co[x] = "await"
              /\ stack'[i].event = stack[i].event
          BY <2>6, <3>1 DEF Stays
        <4>2. stack[i].event = m /\ i + 1 = Len(stack) /\ i \in Nat
          <5>1. i \in Nat
            BY <1>2, <4>1 DEF TakenIn, GoodCalls
          <5>2. QED
            BY <1>6, <2>4, <3>1, <4>1, <5>1
        <4>3. QED
          BY <1>8, <2>1, <2>6, <2>7, <4>1, <4>2
      <3>2. QED
        BY <3>1 DEF TakenLock
    <2>10. ASSUME NEW x \in Coros PROVE Handed(x)'
      <3>1. CASE x = c
        BY <1>1, <1>8, <2>1, <2>2, <3>1 DEF Handed
      <3>2. CASE x # c /\ locking[x] = m
        <4>1. Handed(x) /\ co'[x] = co[x]
          BY <2>6, <3>2 DEF LockInv, Stays
        <4>2. QED
          BY <1>2, <1>8, <2>1, <2>2, <3>2, <4>1 DEF Handed
      <3>3. CASE x # c /\ locking[x] # m
        <4>1. co'[x] = co[x]
          BY <2>6, <3>3 DEF Stays
        <4>2. QED
          BY <1>5, <2>1, <2>2, <2>4, <3>3, <4>1 DEF Handed
      <3>4. QED
        BY <3>1, <3>2, <3>3
    <2>11. QED
      BY <2>2, <2>3, <2>8, <2>9, <2>10 DEF LockInv
  <1>9. QED
    BY <1>7, <1>8

-----------------------------------------------------------------------------
(* The three invariants together. *)
UsersTypes ==
  /\ fulfilled \subseteq Promises
  /\ stored \in [Queues -> 0..MaxStored]

UsersInv == EventsInv /\ LockInv /\ UsersTypes

LEMMA InvTypeOK == UsersInv => TypeOK
  <1>1. ASSUME UsersInv PROVE TypeOK
    <2>1. listof \in [Events -> Lists \cup {None}]
      BY <1>1 DEF UsersInv, EventsInv, GoodLists, Rings
    <2>2. stack \in Seq([at: {"lua"}, co: Coros] \cup
                        [at: {"emitall"}, event: Events, list: Lists])
      BY <1>1 DEF UsersInv, EventsInv, GoodCalls, Frames
    <2>3. QED
      BY <1>1, <2>1, <2>2
      DEF UsersInv, EventsInv, ThreadTypes, LockInv, LockTypes, UsersTypes, TypeOK
  <1>2. QED
    BY <1>1

LEMMA InvHanded == UsersInv => LockHandedOver
  BY DEF UsersInv, LockInv, Handed, LockHandedOver

LEMMA InitUsers == Init => UsersInv
  <1>1. ASSUME Init PROVE UsersInv
    <2>1. /\ co = [c \in Coros |-> "suspended"] /\ stack = <<>>
          /\ listof = [e \in Events |-> None] /\ wait = [c \in Coros |-> NotAwaiting]
          /\ wasted = {} /\ insideof = [m \in Mutexes |-> None]
          /\ locking = [c \in Coros |-> None] /\ fulfilled = {}
          /\ stored = [q \in Queues |-> 0]
      BY <1>1 DEF Init, ThreadsInit, EventInit
    <2>2. NotAwaiting \in [how: {"any", "all"}, left: 0..Cardinality(Events)]
      BY EventsAssumption, FS_CardinalityType DEF NotAwaiting
    <2>3. ThreadTypes
      BY <2>1, <2>2 DEF ThreadTypes
    <2>4. GoodLists(listof) /\ GoodCalls(stack) /\ StackInv /\ DOMAIN stack = {}
      BY <2>1 DEF GoodLists, GoodCalls, StackInv
    <2>5. \A c \in Coros : ListsIn(listof, c) = {} /\ TakenIn(stack, c) = {}
      BY <2>1, <2>4 DEF ListsIn, TakenIn, InList
    <2>6. ListsHoldWaiters
      <3>1. \A c \in Coros : Holds(c)
        BY <2>1, <2>5, OfIn DEF Holds
      <3>2. QED
        BY <3>1, HoldsAll
    <2>7. LockInv
      BY <2>1, <2>5 DEF LockInv, LockTypes, Locker, TakenLock, Handed, Awaits
    <2>8. UsersTypes
      BY <2>1, UsersAssumption DEF UsersTypes
    <2>9. QED
      BY <2>3, <2>4, <2>6, <2>7, <2>8 DEF UsersInv, EventsInv
  <1>2. QED
    BY <1>1

(* Steps that leave the mutexes alone. *)
LEMMA OtherUsers ==
  ASSUME EventsInv, LockInv, UNCHANGED <<co, stack, listof, wait, wasted>>,
         UNCHANGED <<insideof, locking>>
  PROVE  EventsInv' /\ LockInv'
  <1>1. EventsInv'
    BY SameEventsInv
  <1>2. \A x \in Coros : (Locker(x)' <=> Locker(x)) /\ (TakenLock(x)' <=> TakenLock(x))
    BY DEF Locker, TakenLock, Awaits, ListsIn, TakenIn, Running, Idle, Top
  <1>3. \A x \in Coros : Handed(x)' <=> Handed(x)
    BY DEF Handed, Running, Idle, Top
  <1>4. LockTypes'
    BY DEF LockInv, LockTypes
  <1>5. QED
    BY <1>1, <1>2, <1>3, <1>4 DEF LockInv

LEMMA EventUsersInv ==
  ASSUME UsersInv, NEW c \in Coros, EventNext(c), locking[c] = None, UNCHANGED userVars
  PROVE  UsersInv'
  <1>1. EventsInv /\ LockInv /\ UNCHANGED <<insideof, locking>> /\ UsersTypes'
    BY DEF UsersInv, userVars, UsersTypes
  <1>2. ASSUME NEW E \in SUBSET Plain, NEW how \in {"any", "all"}, Await(c, E, how)
        PROVE  EventsInv' /\ LockInv'
    <2>1. E \in SUBSET (Events \ Mutexes)
      BY UsersAssumption
    <2>2. QED
      BY <1>1, <1>2, <2>1, AwaitLock
  <1>3. ASSUME NEW e \in Events, EmitOne(c, e) \/ EmitAll(c, e)
        PROVE  EventsInv' /\ LockInv'
    BY <1>1, <1>3, EmitOneLock, EmitAllLock
  <1>4. ASSUME NEW d \in Coros, CancelAwait(c, d) \/ CloseAwait(c, d)
        PROVE  EventsInv' /\ LockInv'
    BY <1>1, <1>4, CancelLock, CloseLock
  <1>5. QED
    BY <1>1, <1>2, <1>3, <1>4 DEF EventNext, UsersInv

LEMMA PromiseUsersInv ==
  ASSUME UsersInv, NEW c \in Coros, PromiseNext(c), locking[c] = None,
         UNCHANGED <<insideof, locking, stored>>
  PROVE  UsersInv'
  <1>1. EventsInv /\ LockInv /\ UNCHANGED <<insideof, locking>> /\ UsersTypes
    BY DEF UsersInv
  <1>2. ASSUME NEW P \in SUBSET Promises, PromiseAny(c, P) \/ PromiseAll(c, P),
               UNCHANGED fulfilled
        PROVE  UsersInv'
    <2>1. P \in SUBSET (Events \ Mutexes) /\ P \ fulfilled \in SUBSET (Events \ Mutexes)
      BY UsersAssumption
    <2>2. PICK E \in SUBSET (Events \ Mutexes), how \in {"any", "all"} : Await(c, E, how)
      BY <1>2, <2>1 DEF PromiseAny, PromiseAll
    <2>3. EventsInv' /\ LockInv'
      BY <1>1, <2>2, AwaitLock
    <2>4. QED
      BY <1>1, <1>2, <2>3 DEF UsersInv, UsersTypes
  <1>3. ASSUME NEW p \in Promises, Fulfill(c, p)
        PROVE  UsersInv'
    <2>1. fulfilled' = fulfilled \cup {p} /\ p \in Events
      BY <1>3, UsersAssumption DEF Fulfill
    <2>2. CASE EmitAll(c, p)
      BY <1>1, <2>1, <2>2, EmitAllLock DEF UsersInv, UsersTypes
    <2>3. CASE UNCHANGED <<threadVars, eventVars>>
      BY <1>1, <2>1, <2>3, OtherUsers DEF UsersInv, UsersTypes, threadVars, eventVars
    <2>4. QED
      BY <1>3, <2>2, <2>3 DEF Fulfill
  <1>4. QED
    BY <1>2, <1>3 DEF PromiseNext

LEMMA QueuedUsersInv ==
  ASSUME UsersInv, NEW c \in Coros, QueuedNext(c), locking[c] = None,
         UNCHANGED <<insideof, locking, fulfilled>>
  PROVE  UsersInv'
  <1>1. EventsInv /\ LockInv /\ UNCHANGED <<insideof, locking>> /\ UsersTypes
        /\ stored \in [Queues -> 0..MaxStored] /\ MaxStored \in Nat
    BY UsersAssumption DEF UsersInv, UsersTypes
  <1>2. UNCHANGED <<threadVars, eventVars>> => EventsInv' /\ LockInv'
    BY <1>1, OtherUsers DEF threadVars, eventVars
  <1>3. stored' \in [Queues -> 0..MaxStored] => UsersTypes'
    BY <1>1 DEF UsersTypes
  <1>4. ASSUME NEW Q \in SUBSET Queues, NEW C \in SUBSET Stored(Q), Consume(C)
        PROVE  stored' \in [Queues -> 0..MaxStored]
    <2>1. \A q \in Queues : (IF q \in C THEN stored[q] - 1 ELSE stored[q]) \in 0..MaxStored
      BY <1>1, <1>4 DEF Stored
    <2>2. QED
      BY <1>4, <2>1 DEF Consume
  <1>5. ASSUME NEW q \in Queues, QueuedEmit(c, q)
        PROVE  UsersInv'
    <2>1. q \in Events
      BY UsersAssumption
    <2>2. CASE (EmitOne(c, q) \/ EmitAll(c, q)) /\ UNCHANGED stored
      BY <1>1, <1>3, <2>1, <2>2, EmitOneLock, EmitAllLock DEF UsersInv
    <2>3. CASE /\ stored[q] < MaxStored /\ stored' = [stored EXCEPT ![q] = @ + 1]
               /\ UNCHANGED <<threadVars, eventVars>>
      <3>1. stored' \in [Queues -> 0..MaxStored]
        BY <1>1, <2>3
      <3>2. QED
        BY <1>2, <1>3, <2>3, <3>1 DEF UsersInv
    <2>4. QED
      BY <1>5, <2>2, <2>3 DEF QueuedEmit
  <1>6. ASSUME NEW Q \in SUBSET Queues, QueuedAny(c, Q) \/ QueuedAll(c, Q)
        PROVE  UsersInv'
    <2>1. \A E \in SUBSET Q : E \in SUBSET (Events \ Mutexes)
      BY UsersAssumption
    <2>2. /\ stored' \in [Queues -> 0..MaxStored]
          /\ \/ UNCHANGED <<threadVars, eventVars>>
             \/ \E E \in SUBSET (Events \ Mutexes), how \in {"any", "all"} : Await(c, E, how)
      <3>1. CASE QueuedAny(c, Q)
        <4>1. CASE (\E q \in Stored(Q) : Consume({q})) /\ UNCHANGED <<threadVars, eventVars>>
          BY <1>4, <4>1
        <4>2. CASE Await(c, Q, "any") /\ UNCHANGED stored
          BY <1>1, <2>1, <4>2
        <4>3. QED
          BY <3>1, <4>1, <4>2 DEF QueuedAny
      <3>2. CASE QueuedAll(c, Q)
        BY <1>4, <2>1, <3>2 DEF QueuedAll
      <3>3. QED
        BY <1>6, <3>1, <3>2
    <2>3. EventsInv' /\ LockInv'
      BY <1>1, <1>2, <2>2, AwaitLock
    <2>4. QED
      BY <1>3, <2>2, <2>3 DEF UsersInv
  <1>7. QED
    BY <1>5, <1>6 DEF QueuedNext

LEMMA MutexUsersInv ==
  ASSUME UsersInv, NEW c \in Coros, MutexNext(c)
  PROVE  UsersInv'
  <1>1. EventsInv /\ LockInv /\ UsersTypes
    BY DEF UsersInv
  <1>2. PICK m \in Mutexes :
          /\ \/ Lock(c, m)
             \/ Unlock(c, m) /\ locking[c] = None /\ locking' = locking
          /\ UNCHANGED <<fulfilled, stored>>
    BY DEF MutexNext
  <1>3. EventsInv' /\ LockInv'
    BY <1>1, <1>2, LockLock, UnlockLock
  <1>4. QED
    BY <1>1, <1>2, <1>3 DEF UsersInv, UsersTypes

LEMMA NextUsersInv ==
  ASSUME UsersInv, [Next]_vars
  PROVE  UsersInv'
  <1>1. EventsInv /\ LockInv /\ UsersTypes
    BY DEF UsersInv
  <1>2. ASSUME UNCHANGED userVars, EventsInv' /\ LockInv'
        PROVE  UsersInv'
    BY <1>1, <1>2 DEF UsersInv, UsersTypes, userVars
  <1>3. CASE UNCHANGED vars
    BY <1>1, <1>3, <1>2, OtherUsers DEF vars, userVars, threadVars, eventVars
  <1>4. ASSUME NEW c \in Coros, Start(c), UNCHANGED <<eventVars, userVars>>
        PROVE  UsersInv'
    <2>1. Idle /\ co[c] = "suspended" /\ Enter(c, stack) /\ Free
      BY <1>4 DEF Start, Free, Running
    <2>2. EventsInv' /\ LockInv'
      BY <1>1, <1>4, <2>1, StartLock DEF userVars
    <2>3. QED
      BY <1>2, <1>4, <2>2
  <1>5. ASSUME NEW c \in Coros, locking[c] = None, Yield(c), UNCHANGED <<eventVars, userVars>>
        PROVE  UsersInv'
    BY <1>1, <1>2, <1>5, YieldLock DEF userVars
  <1>6. ASSUME NEW c \in Coros, locking[c] = None, NEW d \in Coros, Resume(c, d),
               UNCHANGED <<eventVars, userVars>>
        PROVE  UsersInv'
    <2>1. Running(c) /\ co[d] = "suspended" /\ Enter(d, stack)
      BY <1>6 DEF Resume
    <2>2. Free /\ stack[Len(stack)].at = "lua"
      BY <1>1, <1>6, <2>1, LuaFree
    <2>3. EventsInv' /\ LockInv'
      BY <1>1, <1>6, <2>1, <2>2, StartLock DEF userVars
    <2>4. QED
      BY <1>2, <1>6, <2>3
  <1>7. CASE (EmitNext \/ EmitReturns) /\ UNCHANGED userVars
    BY <1>1, <1>2, <1>7, EmitNextLock, EmitReturnsLock DEF userVars
  <1>8. QED
    BY <1>3, <1>4, <1>5, <1>6, <1>7, MutexUsersInv, EventUsersInv, PromiseUsersInv,
       QueuedUsersInv DEF Next

LEMMA AlwaysUsersInv == Spec => []UsersInv
  <1>1. UsersInv /\ [Next]_vars => UsersInv'
    BY NextUsersInv
  <1>2. QED
    BY <1>1, InitUsers, PTL DEF Spec

(* The state of coutil.event and of the modules built on it is well typed: *)
(* the lists have only coroutines, a coroutine awaits at most as many      *)
(* events as there are, and no queue exceeds its bound.                    *)
THEOREM Typed == Spec => []TypeOK
  BY AlwaysUsersInv, InvTypeOK, PTL

(* A coroutine that awaits is in the list of each event it still has to    *)
(* receive, in 'listof' or taken by a call of emitall, and in no other;    *)
(* one that executes is in no list (event.lua), whoever is resumed,        *)
(* canceled or closed while emitall goes on.                               *)
THEOREM WaitersInLists == Spec => []ListsHoldWaiters
  <1>1. UsersInv => ListsHoldWaiters
    BY DEF UsersInv, EventsInv
  <1>2. QED
    BY <1>1, AlwaysUsersInv, PTL

(* mutex.unlock hands the mutex over: nobody waits for a mutex without an  *)
(* owner, unless a coroutine is about to take it or the event was given to *)
(* a coroutine that was closed; and the owner does not wait (mutex.lua).   *)
THEOREM MutexHandedOver == Spec => []LockHandedOver
  BY AlwaysUsersInv, InvHanded, PTL

=============================================================================
