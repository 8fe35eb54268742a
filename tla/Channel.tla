------------------------------ MODULE Channel ------------------------------
(***************************************************************************)
(* Channels (src/lchaux.c, src/lchannem.c and, in src/lthpool.c, the part  *)
(* of threadmain that suspends a task on a channel).                       *)
(*                                                                         *)
(* The channels with one name share a lcu_ChannelSync: a queue of states   *)
(* that wait for a match.  A coroutine that calls system.awaitch waits in  *)
(* the queue as the state of its LuaChannel, and is notified by a libuv    *)
(* async; the chunk of a task waits by yielding the name of the channel,   *)
(* as the state of the task itself, and is given back to its pool.  A task *)
(* that only has coroutines in awaitch is suspended in lcu_ChannelTask     *)
(* until one of them is matched.                                           *)
(*                                                                         *)
(* Each state is executed by one system thread, and all of them share the  *)
(* queue.  One critical section is one action.                             *)
(***************************************************************************)
EXTENDS Integers, Sequences, FiniteSets, SequencesExt

CONSTANTS
  Tasks, Main,   \* Lua states: tasks of a pool, and the main one
  Chans, Home,   \* LuaChannel objects, and the state of each one
  CloseCoros,    \* is coroutine.close called on coroutines that await?
  MaxThreads,    \* system threads of the pool
  MaxLeaks,      \* bound of 'leaked'
  None

States == Tasks \cup {Main}
Waiters == Chans \cup Tasks

ASSUME ConstantsAssumption ==
  /\ IsFiniteSet(Tasks) /\ IsFiniteSet(Chans)
  /\ Main \notin Tasks \cup Chans /\ None \notin States \cup Chans
  /\ Tasks \cap Chans = {}
  /\ Home \in [Chans -> States]
  /\ CloseCoros \in BOOLEAN
  /\ MaxThreads \in Nat /\ MaxLeaks \in Nat

VARIABLES
  sync,     \* the lcu_ChannelSync of the name
  chan,     \* state of each LuaChannel
  end,      \* the endpoint each waiter waits on, {} if none
  got,      \* whose values 'swapvalues' put in the stack of each one
  sent,     \* channels whose async was sent and not handled yet
  run,      \* what each state is doing
  step,     \* progress of the matching done by each state
  wakes,    \* field 'wakes' of the lcu_ChannelTask of each task
  held,     \* tasks in field 'L' of their lcu_ChannelTask
  late,     \* system threads yet to release the channel a task yielded on
  leaked    \* references that were not released

objVars  == <<chan, end, sent>>
taskVars == <<wakes, held, late>>
vars     == <<sync, got, run, step, leaked, objVars, taskVars>>

-----------------------------------------------------------------------------
(* LCU_CHSYNCIN, LCU_CHSYNCOUT and LCU_CHSYNCANY as sets of bits. *)
Ends == {{"in"}, {"out"}, {"in", "out"}}

NoSync == [alive |-> FALSE, refcount |-> 0, expected |-> {}, queue |-> <<>>]

(* A LuaChannel is closed, not in use, or has a handle: its coroutine      *)
(* awaits, was resumed by others after it was matched, or was closed.      *)
InUse == {"await", "canceled", "lost"}

(* "stopping" is in system.run, which will yield; "lookup", "matching" and *)
(* "free" are the steps of a thread whose task yielded a channel name.     *)
RunStates == {"running", "stopping", "lookup", "matching", "free", "waiting",
              "suspended", "ready", "ending", "dead", "hung"}

NoStep == [pc |-> "none", match |-> None, on |-> {}]

TypeOK ==
  /\ sync \in [alive: BOOLEAN, refcount: Nat, expected: SUBSET {"in", "out"},
               queue: Seq(Waiters)]
  /\ chan \in [Chans -> InUse \cup {"closed", "unused", "closing"}]
  /\ end \in [Waiters -> Ends \cup {{}}]
  /\ got \in [Waiters \cup States -> Waiters \cup States \cup {None}]
  /\ sent \subseteq Chans
  /\ run \in [States -> RunStates]
  /\ step \in [States -> [pc: {"none", "swap", "count", "resume"},
                          match: Waiters \cup {None}, on: Ends \cup {{}}]]
  /\ wakes \in [Tasks -> Int]
  /\ held \subseteq Tasks
  /\ late \in [Tasks -> 0..MaxThreads]
  /\ leaked \in 0..MaxLeaks

Init ==
  /\ sync = NoSync
  /\ chan = [c \in Chans |-> "closed"]
  /\ end = [w \in Waiters |-> {}]
  /\ got = [w \in Waiters \cup States |-> None]
  /\ sent = {}
  /\ run = [s \in States |-> IF s = Main THEN "running" ELSE "ready"]
  /\ step = [s \in States |-> NoStep]
  /\ wakes = [t \in Tasks |-> 0] /\ held = {}
  /\ late = [t \in Tasks |-> 0] /\ leaked = 0

-----------------------------------------------------------------------------
(* Operations on lcu_ChannelSync. *)

(* lcuCS_getchsync and lcuCS_freechsync, with the mutex of the map. *)
GetChSync(y) ==
  IF y.alive THEN [y EXCEPT !.refcount = @ + 1]
  ELSE [NoSync EXCEPT !.alive = TRUE, !.refcount = 1]

FreeChSync(y) ==
  IF y.refcount = 1 /\ y.queue = <<>> THEN NoSync
  ELSE [y EXCEPT !.refcount = @ - 1]

(* The endpoints that match e. *)
Expected(e) == IF e = {"in", "out"} THEN e ELSE {"in", "out"} \ e

(* Mutant: the endpoint is not compared. *)
Matched_Any(y, e) == y.queue # <<>>

(* lcuCS_matchchsync, with the mutex of the channel: either the first      *)
(* waiter is matched, or there is none to be matched.                      *)
Matched(y, e) == y.queue # <<>> /\ y.expected \cap e # {}
(* Mutant: the expected endpoint is set only once. *)
Expecting_Once(y, e) ==
  IF y.expected = {} THEN [y EXCEPT !.expected = Expected(e)] ELSE y

Expecting(y, e) == IF y.queue = <<>> THEN [y EXCEPT !.expected = Expected(e)] ELSE y

Dequeue(s, e) ==
  LET w == Head(sync.queue)
  IN  /\ Matched(sync, e)
      /\ sync' = [sync EXCEPT !.queue = Tail(@)]
      /\ step' = [step EXCEPT ![s] = [pc |-> "swap", match |-> w, on |-> e]]
      /\ got' = [got EXCEPT ![s] = w, ![w] = s]
      /\ end' = [x \in Waiters |-> IF x \in {s, w} THEN {} ELSE end[x]]

Enqueue(w, e) ==
  /\ ~Matched(sync, e)
  /\ sync' = [Expecting(sync, e) EXCEPT !.queue = Append(@, w)]
  /\ end' = [end EXCEPT ![w] = e]

(* lcuCS_removestateq. *)
InQueue(w) == \E i \in DOMAIN sync.queue : sync.queue[i] = w
RemoveStateQ(w) ==
  \E i \in DOMAIN sync.queue :
    /\ sync.queue[i] = w
    /\ sync' = [sync EXCEPT !.queue = RemoveAt(@, i)]
    /\ end' = [end EXCEPT ![w] = {}]

-----------------------------------------------------------------------------
(* Lua code of a state, or the loop of its system.run. *)
Lua(s) ==
  /\ run[s] = "running" /\ step[s].pc = "none"
  /\ \A c \in Chans : Home[c] = s => chan[c] # "closing"

(* channel.create. *)
Create(c) ==
  /\ Lua(Home[c])
  /\ chan[c] = "closed"
  /\ chan' = [chan EXCEPT ![c] = "unused"]
  /\ sync' = GetChSync(sync)
  /\ UNCHANGED <<end, got, sent, run, step, leaked, taskVars>>

(* Mutant: a closed channel can be closed again. *)
Close_Again(c) ==
  /\ Lua(Home[c]) \/ run[Home[c]] = "ending" \/ chan[c] = "closing"
  /\ chan[c] \in {"unused", "closing", "closed"}
  /\ chan' = [chan EXCEPT ![c] = "closed"]
  /\ sync' = FreeChSync(sync)
  /\ UNCHANGED <<end, got, sent, run, step, leaked, taskVars>>

(* channelclose of a channel that is not in use: channel.close, and the    *)
(* collection of the channel.                                              *)
Close(c) ==
  /\ Lua(Home[c]) \/ run[Home[c]] = "ending" \/ chan[c] = "closing"
  /\ chan[c] \in {"unused", "closing"}
  /\ chan' = [chan EXCEPT ![c] = "closed"]
  /\ sync' = FreeChSync(sync)
  /\ UNCHANGED <<end, got, sent, run, step, leaked, taskVars>>

(* channel_gc of a channel in use: when the whole state is being closed,   *)
(* when the coroutine was closed and nobody else refers to the channel, and *)
(* as '__close' of a variable, whoever awaits in the channel.              *)
Collected(c) ==
  /\ run[Home[c]] = "ending" \/ Lua(Home[c])
  /\ chan[c] \in InUse

(* Whoever awaited in a channel closed by '__close' is left suspended.     *)
CloseInUse(c) ==
  /\ Collected(c)
  /\ RemoveStateQ(c)
  /\ chan' = [chan EXCEPT ![c] = "closing"]
  /\ UNCHANGED <<got, sent, run, step, leaked, taskVars>>

(* The channel was already matched: channelclose runs the loop until its   *)
(* callback clears 'handle', which for a closed coroutine never happens.   *)
CloseHangs(c) ==
  /\ Collected(c)
  /\ chan[c] = "lost" /\ ~InQueue(c)
  /\ run' = [run EXCEPT ![Home[c]] = "hung"]
  /\ UNCHANGED <<sync, got, step, leaked, objVars, taskVars>>

(* k_setupsynced: system.awaitch is matched, waits, or fails in armsynced. *)
AwaitCh(c, e) ==
  /\ Lua(Home[c])
  /\ chan[c] = "unused"
  /\ \/ /\ Dequeue(Home[c], e)
        /\ UNCHANGED chan
     \/ /\ Enqueue(c, e)
        /\ chan' = [chan EXCEPT ![c] = "await"]
        /\ UNCHANGED <<got, step>>
     \/ /\ ~Matched(sync, e)
        /\ sync' = Expecting(sync, e)
        /\ UNCHANGED <<chan, end, got, step>>
  /\ UNCHANGED <<sent, run, leaked, taskVars>>

(* channel.sync, on a channel that may be in use, does not wait. *)
ChannelSync(c, e) ==
  /\ Lua(Home[c])
  /\ chan[c] # "closed"
  /\ \/ /\ Dequeue(Home[c], e)
     \/ /\ ~Matched(sync, e)
        /\ sync' = Expecting(sync, e)
        /\ UNCHANGED <<end, got, step>>
  /\ UNCHANGED <<chan, sent, run, leaked, taskVars>>

(* Mutant: the state is not removed from the queue. *)
CancelSynced_Left(c) ==
  /\ Lua(Home[c])
  /\ chan[c] = "await"
  /\ chan' = [chan EXCEPT ![c] = IF InQueue(c) THEN "unused" ELSE "canceled"]
  /\ UNCHANGED <<sync, end, got, sent, run, step, leaked, taskVars>>

(* cancelsynced: the coroutine that awaits is resumed by others. *)
CancelSynced(c) ==
  /\ Lua(Home[c])
  /\ chan[c] = "await"
  /\ \/ /\ RemoveStateQ(c)
        /\ chan' = [chan EXCEPT ![c] = "unused"]
     \/ /\ ~InQueue(c)
        /\ chan' = [chan EXCEPT ![c] = "canceled"]
        /\ UNCHANGED <<sync, end>>
  /\ UNCHANGED <<got, sent, run, step, leaked, taskVars>>

(* coroutine.close on a coroutine that awaits. *)
CloseCo(c) ==
  /\ CloseCoros
  /\ Lua(Home[c])
  /\ chan[c] = "await"
  /\ chan' = [chan EXCEPT ![c] = "lost"]
  /\ UNCHANGED <<sync, end, got, sent, run, step, leaked, taskVars>>

(* uv_onsynced, in the loop of system.run or of channelclose, followed by  *)
(* returnsynced or restorechannel.                                         *)
OnSynced(c) ==
  LET h == Home[c]
  IN  /\ Lua(h) \/ run[h] \in {"stopping", "ending", "hung"}
      /\ c \in sent
      /\ sent' = sent \ {c}
      /\ wakes' = IF h \in Tasks THEN [wakes EXCEPT ![h] = @ - 1] ELSE wakes
      /\ chan' = IF chan[c] = "lost" THEN chan ELSE [chan EXCEPT ![c] = "unused"]
      /\ got' = [got EXCEPT ![c] = None]
      /\ UNCHANGED <<sync, end, run, step, leaked, held, late>>

-----------------------------------------------------------------------------
(* The rest of lcuCS_matchchsync, without the mutex of the channel.        *)

(* The matching is over: the coroutine goes on with the values it got, or  *)
(* the thread of a task that yielded goes on.                              *)
MatchEnds(s) ==
  /\ step' = [step EXCEPT ![s] = NoStep]
  /\ \/ /\ run[s] = "matching"
        /\ run' = [run EXCEPT ![s] = "free"]
        /\ UNCHANGED got
     \/ /\ run[s] # "matching"
        /\ got' = [got EXCEPT ![s] = None]
        /\ UNCHANGED run

(* swapvalues, and uv_async_send if the match is a channel. *)
SwapValues(s) ==
  LET w == step[s].match
  IN  /\ step[s].pc = "swap"
      /\ \/ /\ w \in Tasks
            /\ step' = [step EXCEPT ![s].pc = "resume", ![s].on = {}]
            /\ UNCHANGED <<sent, got, run>>
         \/ /\ w \in Chans
            /\ sent' = sent \cup {w}
            /\ IF Home[w] \in Tasks
               THEN /\ step' = [step EXCEPT ![s].pc = "count", ![s].on = {}]
                    /\ UNCHANGED <<got, run>>
               ELSE MatchEnds(s)
      /\ UNCHANGED <<sync, chan, end, leaked, taskVars>>

(* getsuspendedtask, with the mutex of the lcu_ChannelTask. *)
CountWake(s) ==
  LET t == Home[step[s].match]
  IN  /\ step[s].pc = "count"
      /\ wakes' = [wakes EXCEPT ![t] = @ + 1]
      /\ held' = held \ {t}
      /\ IF t \in held
         THEN /\ step' = [step EXCEPT ![s] = [pc |-> "resume", match |-> t, on |-> {}]]
              /\ UNCHANGED <<got, run>>
         ELSE MatchEnds(s)
      /\ UNCHANGED <<sync, leaked, objVars, late>>

(* lcuTP_resumetask, of a pool that is not closed. *)
ResumeTask(s) ==
  LET t == step[s].match
      free == run[s] = "matching"
  IN  /\ step[s].pc = "resume"
      /\ step' = [step EXCEPT ![s] = NoStep]
      /\ run' = [r \in States |-> IF r = t THEN "ready"
                                  ELSE IF r = s /\ free THEN "free" ELSE run[r]]
      /\ got' = IF free THEN got ELSE [got EXCEPT ![s] = None]
      /\ UNCHANGED <<sync, leaked, objVars, taskVars>>

-----------------------------------------------------------------------------
(* The rest of a round of threadmain, when the chunk of task t yields. *)

(* It yields the name of a channel; {} is an endpoint that is not valid.   *)
YieldName(t, e) ==
  /\ Lua(t)
  /\ run' = [run EXCEPT ![t] = "lookup"]
  /\ end' = [end EXCEPT ![t] = e]
  /\ UNCHANGED <<sync, chan, got, sent, step, leaked, taskVars>>

LookUp(t) ==
  /\ run[t] = "lookup"
  /\ sync' = GetChSync(sync)
  /\ run' = [run EXCEPT ![t] = IF end[t] = {} THEN "free" ELSE "matching"]
  /\ UNCHANGED <<got, step, leaked, objVars, taskVars>>

MatchTask(t) ==
  /\ run[t] = "matching" /\ step[t].pc = "none"
  /\ \/ /\ Dequeue(t, end[t])
        /\ UNCHANGED <<run, late>>
     \/ /\ Enqueue(t, end[t])
        /\ run' = [run EXCEPT ![t] = "waiting"]
        /\ late' = [late EXCEPT ![t] = @ + 1]
        /\ UNCHANGED <<step, got>>
  /\ UNCHANGED <<chan, sent, leaked, wakes, held>>

(* Mutant: the reference is not released when the endpoint is not valid. *)
FreeTask_Valid(t) ==
  /\ run[t] = "free"
  /\ sync' = IF got[t] = None THEN sync ELSE FreeChSync(sync)
  /\ run' = [run EXCEPT ![t] = "ready"]
  /\ UNCHANGED <<got, step, leaked, objVars, taskVars>>

(* lcuCS_freechsync of a task that is still of this thread, which puts it  *)
(* in the queue of the pool.                                               *)
FreeTask(t) ==
  /\ run[t] = "free"
  /\ sync' = FreeChSync(sync)
  /\ run' = [run EXCEPT ![t] = "ready"]
  /\ UNCHANGED <<got, step, leaked, objVars, taskVars>>

(* lcuCS_freechsync after the task was left in the queue of the channel.   *)
(* The name is a string of the task: once the task is matched it may be    *)
(* collected, and then it names no channel.                                *)
FreeLate(t) ==
  /\ late[t] > 0
  /\ late' = [late EXCEPT ![t] = @ - 1]
  /\ \/ /\ sync' = FreeChSync(sync)
        /\ UNCHANGED leaked
     \/ /\ ~InQueue(t) \/ late[t] > 1
        /\ leaked < MaxLeaks
        /\ leaked' = leaked + 1
        /\ UNCHANGED sync
  /\ UNCHANGED <<got, run, step, wakes, held, objVars>>

(* system.run decides to yield, with coroutines in awaitch; the callbacks  *)
(* of the iteration are still called before.                               *)
StopRun(t) ==
  /\ Lua(t)
  /\ \E c \in Chans : Home[c] = t /\ chan[c] \in InUse
  /\ run' = [run EXCEPT ![t] = "stopping"]
  /\ UNCHANGED <<sync, got, step, leaked, objVars, taskVars>>

(* Mutant: the task is suspended whatever happened since system.run yielded. *)
SuspendedChTask_Unchecked(t) ==
  /\ run[t] = "stopping"
  /\ held' = held \cup {t}
  /\ run' = [run EXCEPT ![t] = "suspended"]
  /\ UNCHANGED <<sync, got, step, leaked, objVars, wakes, late>>

(* lcuCS_suspendedchtask. *)
SuspendedChTask(t) ==
  /\ run[t] = "stopping"
  /\ IF wakes[t] = 0
     THEN /\ held' = held \cup {t}
          /\ run' = [run EXCEPT ![t] = "suspended"]
     ELSE /\ run' = [run EXCEPT ![t] = "ready"]
          /\ UNCHANGED held
  /\ UNCHANGED <<sync, got, step, leaked, objVars, wakes, late>>

(* A thread of the pool takes the task. *)
UsesThread(s) == run[s] \notin {"waiting", "suspended", "ready", "dead"}
Unreleased == UNION {{<<t, n>> : n \in 1..late[t]} : t \in Tasks}
BusyThreads == Cardinality({t \in Tasks : UsesThread(t)}) + Cardinality(Unreleased)

Pick(t) ==
  /\ run[t] = "ready"
  /\ BusyThreads < MaxThreads
  /\ run' = [run EXCEPT ![t] = "running"]
  /\ got' = [got EXCEPT ![t] = None]
  /\ UNCHANGED <<sync, step, leaked, objVars, taskVars>>

(* The chunk ends, and its state is closed: lua_close.  *)
EndChunk(t) ==
  /\ Lua(t)
  /\ run' = [run EXCEPT ![t] = "ending"]
  /\ UNCHANGED <<sync, got, step, leaked, objVars, taskVars>>

CloseState(t) ==
  /\ run[t] = "ending"
  /\ \A c \in Chans : Home[c] = t => chan[c] = "closed"
  /\ run' = [run EXCEPT ![t] = "dead"]
  /\ UNCHANGED <<sync, got, step, leaked, objVars, taskVars>>

-----------------------------------------------------------------------------
MatchStep(s) == SwapValues(s) \/ CountWake(s) \/ ResumeTask(s)
ThreadStep(t) ==
  \/ LookUp(t) \/ MatchTask(t) \/ FreeTask(t) \/ SuspendedChTask(t) \/ Pick(t)

Next ==
  \/ \E c \in Chans : Create(c) \/ Close(c) \/ CloseInUse(c) \/ CloseHangs(c)
  \/ \E c \in Chans, e \in Ends : AwaitCh(c, e) \/ ChannelSync(c, e)
  \/ \E c \in Chans : CancelSynced(c) \/ CloseCo(c)
  \/ \E c \in Chans : OnSynced(c)
  \/ \E s \in States : MatchStep(s)
  \/ \E t \in Tasks, e \in Ends \cup {{}} : YieldName(t, e)
  \/ \E t \in Tasks : ThreadStep(t)
  \/ \E t \in Tasks : FreeLate(t)
  \/ \E t \in Tasks : StopRun(t) \/ EndChunk(t) \/ CloseState(t)

Spec == Init /\ [][Next]_vars

(* System threads keep executing, the pool takes its tasks, and the code   *)
(* of a state returns to the loop of system.run, which calls the callbacks *)
(* that are due.                                                           *)
FairSpec ==
  /\ Spec
  /\ \A s \in States : WF_vars(MatchStep(s))
  /\ \A t \in Tasks : WF_vars(FreeLate(t)) /\ SF_vars(ThreadStep(t))
  /\ \A c \in Chans : SF_vars(OnSynced(c))

-----------------------------------------------------------------------------
(* Safety. *)

(* Who holds a reference to the lcu_ChannelSync: the open channels, and    *)
(* the threads between getchsync and freechsync.                           *)
OpenChans == {c \in Chans : chan[c] # "closed"}
Matchers == {t \in Tasks : run[t] \in {"matching", "free"}}
References == Cardinality(OpenChans) + Cardinality(Matchers) + Cardinality(Unreleased)

(* The lcu_ChannelSync exists while someone refers to it, or waits in it:  *)
(* no thread uses it after freechsync releases it, and no waiter is lost.  *)
RefcountExact ==
  /\ sync.refcount = References + leaked
  /\ sync.alive <=> (sync.refcount > 0 \/ sync.queue # <<>>)

(* Whoever waits is not complemented by another one that waits: a single   *)
(* field 'expected' stands for the endpoints of the whole queue.           *)
NoMissedMatch ==
  \A i \in DOMAIN sync.queue :
    /\ sync.expected = Expected(end[sync.queue[i]])
    /\ \A j \in DOMAIN sync.queue :
         i # j => end[sync.queue[j]] \cap Expected(end[sync.queue[i]]) = {}

(* Who is being matched by s: out of the queue, and not notified yet. *)
Matching(s) == IF step[s].pc = "swap" THEN {step[s].match} ELSE {}

(* A waiter is matched once: it is in the queue, or being matched by one   *)
(* thread, or notified.                                                    *)
MatchedOnce ==
  /\ \A i, j \in DOMAIN sync.queue : sync.queue[i] = sync.queue[j] => i = j
  /\ \A s \in States : \A w \in Matching(s) :
       /\ ~InQueue(w) /\ w \notin sent
       /\ \A r \in States \ {s} : w \notin Matching(r)
  /\ \A c \in sent : ~InQueue(c)

(* Whoever waits can still be found: it is in the queue, or a thread has   *)
(* it, or it was notified.                                                 *)
NoLostWaiter ==
  /\ \A c \in Chans : chan[c] \in {"await", "canceled"} =>
       InQueue(c) \/ c \in sent \/ \E s \in States : c \in Matching(s)
  /\ \A t \in Tasks : run[t] = "waiting" =>
       InQueue(t) \/ \E s \in States : step[s].match = t

(* The state of a LuaChannel is not closed nor reused, and its handle not  *)
(* released, while another thread may write in it or notify it.            *)
StateNotShared ==
  /\ \A c \in Chans : InQueue(c) \/ c \in sent => chan[c] \in InUse
  /\ \A s \in States : \A w \in Matching(s) \cap Chans : chan[w] \in InUse

(* Whoever waits in a channel is in exactly one place, where its state is  *)
(* kept for the thread that will match it.                                 *)
WaitersKept == MatchedOnce /\ NoLostWaiter /\ StateNotShared

(* The field 'wakes' is the number of callbacks yet to be called, but for  *)
(* the ones of matches that were not counted yet; it may be negative.      *)
Counting(t) == {s \in States : step[s].pc = "count" /\ Home[step[s].match] = t}
WakesExact ==
  \A t \in Tasks :
    wakes[t] = Cardinality({c \in sent : Home[c] = t}) - Cardinality(Counting(t))

(* A task is not left suspended with a callback to be called: whoever      *)
(* matched it is still to resume it.                                       *)
NoLostWake ==
  \A t \in Tasks : run[t] = "suspended" /\ (\E c \in sent : Home[c] = t) =>
    \/ t \in held /\ Counting(t) # {}
    \/ \E s \in States : step[s] = [pc |-> "resume", match |-> t, on |-> {}]

(* Only a task that no thread has is given back to the pool, by one thread.*)
ResumedOnce ==
  \A s \in States : step[s].pc = "resume" =>
    LET t == step[s].match
    IN  /\ t \in Tasks /\ t \notin held
        /\ run[t] = "suspended" \/ (run[t] = "waiting" /\ ~InQueue(t))
        /\ \A r \in States \ {s} : ~(step[r].pc = "resume" /\ step[r].match = t)

(* A task suspended in system.run is resumed once for the matches of its   *)
(* channels, by the thread that finds it suspended.                        *)
TaskWakes == WakesExact /\ NoLostWake /\ ResumedOnce

(* The channel implements the rendezvous. *)
Offers == [i \in DOMAIN sync.queue |->
             [who |-> sync.queue[i], end |-> end[sync.queue[i]]]]
R == INSTANCE Rendezvous
       WITH Callers <- States, Nobody <- None, offers <- Offers,
            asked <- [s \in States |-> step[s].on]

ImplementsRendezvous == R!Spec

(* Liveness.  Who was matched gets the values, unless it is a coroutine of *)
(* a task whose chunk waits on a channel.                                  *)
Delivered ==
  \A w \in Waiters \cup States :
    (got[w] # None) ~> (got[w] = None \/ (w \in Chans /\ InQueue(Home[w])))

=============================================================================
