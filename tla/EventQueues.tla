---------------------------- MODULE EventQueues ----------------------------
(***************************************************************************)
(* What coutil.event promises of the order of coroutines (doc/manual.md,   *)
(* Events): "Resumes all coroutines awaiting for event e in the same order *)
(* they were suspended", the ones "awaiting event e at the moment its call *)
(* is initiated".                                                          *)
(***************************************************************************)
EXTENDS Naturals, SequencesExt

CONSTANTS Coros, Events

VARIABLES
  queue,  \* coroutines that await each event, in order
  taken   \* for each call of emitall that did not return, the ones it has
          \* yet to resume; the deeper the call, the larger its number

vars == <<queue, taken>>

Init == queue = [e \in Events |-> <<>>] /\ taken = <<>>

(* A coroutine is in a queue at most once. *)
Without(c, q) ==
  IF \E i \in DOMAIN q : q[i] = c THEN RemoveAt(q, CHOOSE i \in DOMAIN q : q[i] = c) ELSE q

(* A coroutine leaves the queues, and its place in every emission. *)
Leave(c, queues, emissions) ==
  /\ queue' = [e \in Events |-> Without(c, queues[e])]
  /\ taken' = [i \in DOMAIN emissions |-> Without(c, emissions[i])]

(* The coroutine c is given an event: it leaves, unless it awaits others.  *)
Give(c, queues, emissions) ==
  \/ queue' = queues /\ taken' = emissions
  \/ Leave(c, queues, emissions)

(* The coroutine c comes to the end of some of the queues. *)
Come(c) ==
  /\ \A e \in Events : \/ queue'[e] = queue[e]
                       \/ /\ queue'[e] = Append(queue[e], c)
                          /\ \A i \in DOMAIN queue[e] : queue[e][i] # c
  /\ UNCHANGED taken

One(e) ==
  /\ queue[e] # <<>>
  /\ Give(Head(queue[e]), [queue EXCEPT ![e] = Tail(@)], taken)

All(e) ==
  /\ queue[e] # <<>>
  /\ queue' = [queue EXCEPT ![e] = <<>>]
  /\ \E d \in DOMAIN taken' :
       /\ \A i \in DOMAIN taken : i < d
       /\ taken' = [i \in DOMAIN taken \cup {d} |-> IF i = d THEN queue[e] ELSE taken[i]]

(* The last emission called gives its event to the next coroutine, or ends. *)
Emission ==
  \E d \in DOMAIN taken :
    /\ \A i \in DOMAIN taken : i <= d
    /\ \/ /\ taken[d] # <<>>
          /\ Give(Head(taken[d]), queue, [taken EXCEPT ![d] = Tail(@)])
       \/ /\ taken[d] = <<>>
          /\ taken' = [i \in DOMAIN taken \ {d} |-> taken[i]]
          /\ UNCHANGED queue

Next ==
  \/ \E c \in Coros : Come(c) \/ Leave(c, queue, taken)
  \/ \E e \in Events : One(e) \/ All(e)
  \/ Emission

Spec == Init /\ [][Next]_vars

=============================================================================
