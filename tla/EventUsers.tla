---------------------------- MODULE EventUsers -----------------------------
(***************************************************************************)
(* The modules of lua/coutil built on events: mutex.lua, promise.lua and   *)
(* queued.lua.  A value is used with only one of the modules, but any Lua  *)
(* code may emit events on any value.                                      *)
(***************************************************************************)
EXTENDS Event

CONSTANTS
  Plain,      \* values used with coutil.event
  Mutexes,    \* with coutil.mutex
  Promises,   \* promises
  Queues,     \* with coutil.queued
  MaxStored   \* bound of the events stored for a value

ASSUME UsersAssumption ==
  /\ Events = Plain \cup Mutexes \cup Promises \cup Queues
  /\ Mutexes \cap Promises = {} /\ Queues \cap (Mutexes \cup Promises) = {}
  /\ Plain \cap (Mutexes \cup Promises \cup Queues) = {}
  /\ MaxStored \in Nat

VARIABLES
  insideof,   \* owner of each mutex
  locking,    \* the mutex a coroutine in mutex.lock awaits
  fulfilled,  \* promises with results
  stored      \* number of events in the queue of each value (see nextof)

userVars == <<insideof, locking, fulfilled, stored>>
vars == <<threadVars, eventVars, userVars>>

Init ==
  /\ ThreadsInit /\ EventInit
  /\ insideof = [m \in Mutexes |-> None]
  /\ locking = [c \in Coros |-> None]
  /\ fulfilled = {}
  /\ stored = [q \in Queues |-> 0]

-----------------------------------------------------------------------------
(* mutex.lua *)

(* One turn of the loop of mutex.lock. *)
Lock(c, m) ==
  /\ Running(c) /\ locking[c] \in {None, m} /\ insideof[m] # c
  /\ IF insideof[m] = None
       THEN /\ insideof' = [insideof EXCEPT ![m] = c]
            /\ locking' = [locking EXCEPT ![c] = None]
            /\ UNCHANGED <<threadVars, eventVars>>
       ELSE /\ Await(c, {m}, "any")
            /\ locking' = [locking EXCEPT ![c] = m]
            /\ UNCHANGED insideof

(* Mutant: nobody is resumed. *)
Unlock_Silent(c, m) ==
  /\ Running(c) /\ insideof[m] = c
  /\ insideof' = [insideof EXCEPT ![m] = None]
  /\ UNCHANGED <<threadVars, eventVars>>

Unlock(c, m) ==
  /\ Running(c) /\ insideof[m] = c
  /\ insideof' = [insideof EXCEPT ![m] = None]
  /\ IF listof[m] # None THEN EmitOne(c, m) ELSE UNCHANGED <<threadVars, eventVars>>

MutexNext(c) ==
  \E m \in Mutexes :
    \/ Lock(c, m) /\ UNCHANGED <<fulfilled, stored>>
    \/ Unlock(c, m) /\ locking[c] = None /\ UNCHANGED <<locking, fulfilled, stored>>

-----------------------------------------------------------------------------
(* promise.lua *)

(* A call of a promise, and promise.awaitany. *)
PromiseAny(c, P) == P \cap fulfilled = {} /\ Await(c, P, "any")

(* promise.awaitall *)
PromiseAll(c, P) == Await(c, P \ fulfilled, "all")

(* The first call of a fulfillment function; the others do not emit.       *)
Fulfill(c, p) ==
  /\ Running(c) /\ p \notin fulfilled
  /\ fulfilled' = fulfilled \cup {p}
  /\ IF listof[p] # None THEN EmitAll(c, p) ELSE UNCHANGED <<threadVars, eventVars>>

PromiseNext(c) ==
  \/ \E P \in SUBSET Promises :
       (PromiseAny(c, P) \/ PromiseAll(c, P)) /\ UNCHANGED fulfilled
  \/ \E p \in Promises : Fulfill(c, p)

-----------------------------------------------------------------------------
(* queued.lua *)

(* Mutant: an empty queue is taken as one with an event. *)
Stored_Empty(Q) == {q \in Q : stored[q] >= 0}

Stored(Q) == {q \in Q : stored[q] > 0}
Consume(Q) == stored' = [q \in Queues |-> IF q \in Q THEN stored[q] - 1 ELSE stored[q]]

(* Mutant: the event is stored even if a coroutine was resumed. *)
QueuedEmit_Kept(c, q) ==
  \/ /\ listof[q] # None /\ stored[q] < MaxStored
     /\ EmitOne(c, q) \/ EmitAll(c, q)
     /\ stored' = [stored EXCEPT ![q] = @ + 1]
  \/ /\ Running(c) /\ listof[q] = None /\ stored[q] < MaxStored
     /\ stored' = [stored EXCEPT ![q] = @ + 1]
     /\ UNCHANGED <<threadVars, eventVars>>

(* queued.emitone and queued.emitall store an event that nobody awaits. *)
QueuedEmit(c, q) ==
  \/ /\ EmitOne(c, q) \/ EmitAll(c, q)
     /\ UNCHANGED stored
  \/ /\ Running(c) /\ listof[q] = None /\ stored[q] < MaxStored
     /\ stored' = [stored EXCEPT ![q] = @ + 1]
     /\ UNCHANGED <<threadVars, eventVars>>

(* queued.await and queued.awaitany consume the leftmost stored event: any *)
(* of them, since the order of the arguments is not represented.           *)
QueuedAny(c, Q) ==
  \/ /\ Running(c)
     /\ \E q \in Stored(Q) : Consume({q})
     /\ UNCHANGED <<threadVars, eventVars>>
  \/ /\ Stored(Q) = {}
     /\ Await(c, Q, "any")
     /\ UNCHANGED stored

(* queued.awaitall consumes what is stored, and awaits the other events. *)
QueuedAll(c, Q) ==
  /\ Running(c)
  /\ Consume(Stored(Q))
  /\ IF Q \subseteq Stored(Q) THEN UNCHANGED <<threadVars, eventVars>>
     ELSE Await(c, Q \ Stored(Q), "all")

QueuedNext(c) ==
  \/ \E q \in Queues : QueuedEmit(c, q)
  \/ \E Q \in SUBSET Queues : QueuedAny(c, Q) \/ QueuedAll(c, Q)

-----------------------------------------------------------------------------
(* Lua code that is not in mutex.lock, and uses coutil.event. *)
EventNext(c) ==
  \/ \E E \in SUBSET Plain, how \in {"any", "all"} : Await(c, E, how)
  \/ \E e \in Events : EmitOne(c, e) \/ EmitAll(c, e)
  \/ \E d \in Coros : CancelAwait(c, d) \/ CloseAwait(c, d)

Next ==
  \/ \E c \in Coros :
       \/ MutexNext(c)
       \/ /\ locking[c] = None
          /\ \/ Yield(c) /\ UNCHANGED <<eventVars, userVars>>
             \/ \E d \in Coros : Resume(c, d) /\ UNCHANGED <<eventVars, userVars>>
             \/ EventNext(c) /\ UNCHANGED userVars
             \/ PromiseNext(c) /\ UNCHANGED <<insideof, locking, stored>>
             \/ QueuedNext(c) /\ UNCHANGED <<insideof, locking, fulfilled>>
       \/ Start(c) /\ UNCHANGED <<eventVars, userVars>>
  \/ (EmitNext \/ EmitReturns) /\ UNCHANGED userVars

Spec == Init /\ [][Next]_vars

-----------------------------------------------------------------------------
(* Type correctness of the state. *)
TypeOK ==
  /\ co \in [Coros -> {"suspended", "running", "await", "dead"}]
  /\ stack \in Seq([at: {"lua"}, co: Coros] \cup
                   [at: {"emitall"}, event: Events, list: Lists])
  /\ listof \in [Events -> Lists \cup {None}]
  /\ wait \in [Coros -> [how: {"any", "all"}, left: 0..Cardinality(Events)]]
  /\ wasted \subseteq Events
  /\ insideof \in [Mutexes -> Coros \cup {None}]
  /\ locking \in [Coros -> Mutexes \cup {None}]
  /\ fulfilled \subseteq Promises
  /\ stored \in [Queues -> 0..MaxStored]

(* The lists that a coroutine is in, in 'listof' or taken by emitall. *)
ListsOf(c) == {e \in Events : InList(listof[e], c)}
TakenOf(c) == {i \in DOMAIN stack : stack[i].at = "emitall" /\ InList(stack[i].list, c)}

(* A coroutine that awaits is in the lists of the events it still has to   *)
(* receive, and in no other; one that executes, or is suspended elsewhere, *)
(* is in no list: emitone and emitall never resume a coroutine that does   *)
(* not await the event.                                                    *)
ListsHoldWaiters ==
  \A c \in Coros :
    /\ co[c] = "await" =>
         Cardinality(ListsOf(c)) + Cardinality(TakenOf(c)) = wait[c].left
    /\ co[c] \in {"suspended", "running"} => ListsOf(c) = {} /\ TakenOf(c) = {}
    /\ \A i \in TakenOf(c) : stack[i].event \notin ListsOf(c)

(* mutex.unlock hands the mutex over: nobody waits for a mutex without an  *)
(* owner unless someone is about to take it, or an event of the mutex was  *)
(* ever given to a coroutine that was closed, when emitone resumes nobody; *)
(* and the owner does not wait.                                            *)
LockHandedOver ==
  \A c \in Coros : locking[c] # None /\ co[c] # "dead" =>
    /\ insideof[locking[c]] # c
    /\ insideof[locking[c]] = None /\ locking[c] \notin wasted =>
         \E d \in Coros : Running(d) /\ locking[d] = locking[c]

(* Nobody awaits what already happened: a fulfilled promise, even if the   *)
(* coroutine awaits while its fulfillment is being emitted, or an event of *)
(* which there is one stored.                                              *)
NoMissedEvent ==
  /\ \A p \in fulfilled : listof[p] = None
  /\ \A q \in Queues : stored[q] > 0 => listof[q] = None

-----------------------------------------------------------------------------
(* The circular lists implement queues. *)
QueueOf(l) ==
  LET size == Cardinality({c \in Coros : InList(l, c)})
  IN  CHOOSE q \in [1..size -> Coros] :
        \A i \in 1..size : q[i] = IF i = 1 THEN HeadOf(l) ELSE l.next[q[i - 1]]

(* Where the calls of emitall are in the stack. *)
Calls == {i \in DOMAIN stack : stack[i].at = "emitall"}

Fifo == INSTANCE EventQueues WITH
  queue <- [e \in Events |-> QueueOf(listof[e])],
  taken <- [i \in Calls |-> QueueOf(stack[i].list)]

(* Coroutines leave the lists in the order they came, or when canceled;    *)
(* emitall resumes exactly who awaited when it was called.                 *)
ImplementsQueues == Fifo!Spec

=============================================================================
