------------------------------- MODULE Event -------------------------------
(***************************************************************************)
(* The module coutil.event (lua/coutil/event.lua): coroutines await events *)
(* on values, and are resumed when events are emitted on them.             *)
(*                                                                         *)
(* The coroutines that await an event are in a circular linked list, where *)
(* the last one ('tail') is followed by the first.  emitall takes the list *)
(* out of 'listof' before it resumes the first coroutine of the list.      *)
(***************************************************************************)
EXTENDS LuaThreads, FiniteSets

CONSTANT
  Events  \* values on which events are awaited

(* A list has the last coroutine, and the one that follows each of its     *)
(* coroutines.                                                             *)
Lists == [tail: Coros \cup {None}, next: [Coros -> Coros \cup {None}]]

ASSUME EventsAssumption == IsFiniteSet(Events) /\ None \notin Events \cup Lists

VARIABLES
  listof,  \* the list of each event, None if nobody awaits it
  wait,    \* how a coroutine awaits: "any" or "all" of its events, and the
           \* events still to be emitted for it to be resumed
  wasted   \* events that emitone gave to a coroutine already closed

eventVars == <<listof, wait, wasted>>

-----------------------------------------------------------------------------
(* The lists. *)

(* A list after emitall or a cancellation took its last coroutine. *)
EmptyList == [tail |-> None, next |-> [c \in Coros |-> None]]

InList(l, c) == l # None /\ l.next[c] # None

(* Mutant: the last coroutine is not followed by the first. *)
addthread_Open(l, c) ==
  IF l = None THEN [tail |-> c, next |-> [EmptyList.next EXCEPT ![c] = c]]
  ELSE IF InList(l, c) THEN l
  ELSE [tail |-> c, next |-> [l.next EXCEPT ![l.tail] = c, ![c] = l.tail]]

addthread(l, c) ==
  IF l = None THEN [tail |-> c, next |-> [EmptyList.next EXCEPT ![c] = c]]
  ELSE IF InList(l, c) THEN l
  ELSE [tail |-> c, next |-> [l.next EXCEPT ![c] = l.next[l.tail], ![l.tail] = c]]

removethread(l, c) ==
  IF ~InList(l, c) THEN l
  ELSE IF l.next[c] = c THEN EmptyList
  ELSE LET previous == CHOOSE p \in Coros : l.next[p] = c
       IN  [tail |-> IF l.tail = c THEN previous ELSE l.tail,
            next |-> [l.next EXCEPT ![previous] = l.next[c], ![c] = None]]

(* The first coroutine, and the list without it. *)
HeadOf(l) == l.next[l.tail]
WithoutHead(l) ==
  IF HeadOf(l) = l.tail THEN EmptyList
  ELSE [l EXCEPT !.next[l.tail] = l.next[HeadOf(l)], !.next[HeadOf(l)] = None]

(* An empty list is not kept in 'listof'. *)
Kept(l) == IF l = EmptyList THEN None ELSE l

-----------------------------------------------------------------------------
(* A call of emitall, and the list it took. *)
EmitAllCall(e, l) == [at |-> "emitall", event |-> e, list |-> l]
Emitting == ~Idle /\ Top.at = "emitall"

(* Lists and calls without c, which leaves all the lists it is in. *)
ListsWithout(lists, c) == [e \in Events |-> Kept(removethread(lists[e], c))]
CallsWithout(s, c) ==
  [i \in DOMAIN s |-> IF s[i].at = "emitall"
                        THEN [s[i] EXCEPT !.list = removethread(@, c)] ELSE s[i]]

NotAwaiting == [how |-> "any", left |-> 0]

EventInit ==
  /\ listof = [e \in Events |-> None]
  /\ wait = [c \in Coros |-> NotAwaiting]
  /\ wasted = {}

-----------------------------------------------------------------------------
(* awaitany and await (how = "any"), and awaitall (how = "all"): the       *)
(* coroutine is added to the list of each event, and yields.               *)
Await(c, E, how) ==
  /\ Running(c) /\ E # {}
  /\ listof' = [e \in Events |-> IF e \in E THEN addthread(listof[e], c) ELSE listof[e]]
  /\ wait' = [wait EXCEPT ![c] = [how |-> how, left |-> Cardinality(E)]]
  /\ Exit(c, "await")
  /\ UNCHANGED wasted

(* resume(h, listof, event, ...) of a coroutine taken from a list, with the *)
(* lists and the calls that remain: it fails if h was closed; h yields     *)
(* again if it awaits other events; otherwise it leaves the other lists.   *)
Deliver(h, lists, s) ==
  \/ /\ co[h] = "dead"
     /\ listof' = lists /\ stack' = s
     /\ UNCHANGED <<co, wait>>
  \/ /\ co[h] = "await" /\ wait[h].how = "all" /\ wait[h].left > 1
     /\ wait' = [wait EXCEPT ![h].left = @ - 1]
     /\ listof' = lists /\ stack' = s
     /\ UNCHANGED co
  \/ /\ co[h] = "await" /\ (wait[h].how = "any" \/ wait[h].left = 1)
     /\ listof' = ListsWithout(lists, h)
     /\ wait' = [wait EXCEPT ![h] = NotAwaiting]
     /\ Enter(h, CallsWithout(s, h))

(* emitone, when somebody awaits. *)
EmitOne(c, e) ==
  /\ Running(c) /\ listof[e] # None
  /\ LET h == HeadOf(listof[e])
     IN  /\ Deliver(h, [listof EXCEPT ![e] = Kept(WithoutHead(@))], stack)
         /\ wasted' = IF co[h] = "dead" THEN wasted \cup {e} ELSE wasted

(* emitall, when somebody awaits. *)
EmitAll(c, e) ==
  /\ Running(c) /\ listof[e] # None
  /\ listof' = [listof EXCEPT ![e] = None]
  /\ stack' = Append(stack, EmitAllCall(e, listof[e]))
  /\ UNCHANGED <<co, wait, wasted>>

(* The body of the loop of emitall. *)
EmitNext ==
  /\ Emitting /\ Top.list # EmptyList
  /\ Deliver(HeadOf(Top.list), listof,
             Append(Below, EmitAllCall(Top.event, WithoutHead(Top.list))))
  /\ UNCHANGED wasted

EmitReturns ==
  /\ Emitting /\ Top.list = EmptyList
  /\ stack' = Below
  /\ UNCHANGED <<co, eventVars>>

(* Mutant: a canceled coroutine remains in the lists taken by emitall. *)
CancelAwait_Taken(c, d) ==
  /\ Running(c) /\ co[d] = "await"
  /\ listof' = ListsWithout(listof, d)
  /\ wait' = [wait EXCEPT ![d] = NotAwaiting]
  /\ Enter(d, stack)
  /\ UNCHANGED wasted

(* coroutine.resume of a coroutine that awaits: 'cancel' takes it from all *)
(* its lists, the ones taken by emitall included.                          *)
CancelAwait(c, d) ==
  /\ Running(c) /\ co[d] = "await"
  /\ listof' = ListsWithout(listof, d)
  /\ wait' = [wait EXCEPT ![d] = NotAwaiting]
  /\ Enter(d, CallsWithout(stack, d))
  /\ UNCHANGED wasted

(* coroutine.close of a coroutine that awaits: it remains in the lists. *)
CloseAwait(c, d) ==
  /\ Running(c) /\ co[d] = "await"
  /\ co' = [co EXCEPT ![d] = "dead"]
  /\ UNCHANGED <<stack, eventVars>>

=============================================================================
