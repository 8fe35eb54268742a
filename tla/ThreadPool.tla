----------------------------- MODULE ThreadPool -----------------------------
(***************************************************************************)
(* The thread pool of coutil.threads (src/lthpool.c, src/lthreadm.c).      *)
(*                                                                         *)
(* A pool is a structure shared by its system threads ('threadmain'), by   *)
(* the Lua state that created it (its owner) and by every system thread    *)
(* that matches a channel on which one of its tasks is suspended.  All     *)
(* accesses to the structure are made with pool->mutex locked, so a        *)
(* critical section is one action; the code between two critical sections  *)
(* (a task running, a state being closed) is a program-counter value.      *)
(***************************************************************************)
EXTENDS Integers, Sequences, FiniteSets

CONSTANTS
  Tasks,         \* identities of the Lua states added to the pool
  Workers,       \* identities of system threads (the number the OS grants)
  Sizes,         \* values given to threads.create and threads.resize
  CreateModes,   \* values of the 'create' argument of threads.resize
  ThreadErrors,  \* may uv_thread_create fail?
  NoTask, NoThread

ASSUME ConstantsAssumption ==
  /\ IsFiniteSet(Tasks) /\ IsFiniteSet(Workers)
  /\ Sizes \subseteq Nat
  /\ CreateModes \subseteq BOOLEAN
  /\ ThreadErrors \in BOOLEAN
  /\ NoTask \notin Tasks /\ NoThread \notin Workers

VARIABLES
  pool,             \* the fields of struct lcu_ThreadPool
  last_terminated,  \* thread to be joined (JOIN_PENDING), or NoThread
  wpc,              \* where each system thread is
  wtask,            \* the task a system thread got from the queue
  tstate,           \* where each task is
  owner,            \* where the owner of the pool is
  local,            \* locals 'tasks' and 'queue' of lcuTP_closetpool
  freed             \* has lcuTP_destroytpool released the structure?

vars == <<pool, last_terminated, wpc, wtask, tstate, owner, local, freed>>

-----------------------------------------------------------------------------
(* States of a system thread.  A thread in Locking is about to lock the    *)
(* mutex: it was just created, was woken while waiting on 'onwork', or     *)
(* returns from a task that is to be queued again, that was left suspended *)
(* on a channel, or that is over.  "published" is a thread whose task is   *)
(* already suspended on a channel, but that did not finish with its state. *)
Locking == {"start", "wake", "requeue", "left", "done"}
Idle    == {"wait", "wake"}
Busy    == {"run", "published", "left", "requeue", "done"}
Live    == {"start"} \cup Idle \cup Busy
WorkerStates == Live \cup {"none", "ended"}

(* States of a task.  Tasks in Counted are the ones in pool->tasks.        *)
Counted == {"pending", "run", "susp", "over", "closing"}
TaskStates == Counted \cup {"new", "destroy", "dead"}

OwnerStates == {"new", "open", "failed", "termwait", "termwake",
                "closed", "drain", "destroy", "gone"}

(* The threads, or tasks, that f places in one of the states of S. *)
In(f, S) == {x \in DOMAIN f : f[x] \in S}

Elements(q) == {q[i] : i \in DOMAIN q}
Distinct(q) == \A i, j \in DOMAIN q : q[i] = q[j] => i = j

PoolType ==
  [status: {"OPEN", "CLOSING", "CLOSED"}, size: Nat, threads: Int, idle: Int,
   tasks: Int, running: Int, pending: Int, queue: Seq(Tasks)]

TypeOK ==
  /\ pool \in PoolType
  /\ {pool.threads, pool.idle, pool.tasks, pool.running, pool.pending}
       \subseteq Nat
  /\ last_terminated \in Workers \cup {NoThread}
  /\ wpc \in [Workers -> WorkerStates]
  /\ wtask \in [Workers -> Tasks \cup {NoTask}]
  /\ tstate \in [Tasks -> TaskStates]
  /\ owner \in OwnerStates
  /\ local \in [tasks: Int, queue: Seq(Tasks)]
  /\ freed \in BOOLEAN

Init ==
  /\ pool = [status |-> "OPEN", size |-> 0, threads |-> 0, idle |-> 0,
             tasks |-> 0, running |-> 0, pending |-> 0, queue |-> <<>>]
  /\ last_terminated = NoThread
  /\ wpc = [w \in Workers |-> "none"]
  /\ wtask = [w \in Workers |-> NoTask]
  /\ tstate = [t \in Tasks |-> "new"]
  /\ owner = "new"
  /\ local = [tasks |-> 0, queue |-> <<>>]
  /\ freed = FALSE

-----------------------------------------------------------------------------
(* Condition variables: a signal wakes one waiting thread, if there is any.*)
(* A woken thread is still counted in pool->idle until it locks the mutex. *)
Signal(pc) ==
  IF In(pc, {"wait"}) = {} THEN {pc}
  ELSE {[pc EXCEPT ![w] = "wake"] : w \in In(pc, {"wait"})}

Broadcast(pc) == [w \in Workers |-> IF pc[w] = "wait" THEN "wake" ELSE pc[w]]

(* Sets of threads that k calls of uv_thread_create may start, where the   *)
(* calls stop at the first that fails.                                     *)
Started(k) ==
  {S \in SUBSET In(wpc, {"none"}) :
     Cardinality(S) = k \/ (ThreadErrors /\ Cardinality(S) < k)}

Start(pc, S) == [w \in Workers |-> IF w \in S THEN "start" ELSE pc[w]]

HasExtraIdle(p) == p.threads > p.size /\ p.idle > 0

Halted(p) == p.tasks = 0 /\ p.size > 0
CheckHalted(p) == IF Halted(p) THEN [p EXCEPT !.size = 0] ELSE p
(* Mutant: no uv_cond_broadcast. *)
WakeHalted_NoBroadcast(p, pc) == pc

WakeHalted(p, pc) == IF Halted(p) THEN Broadcast(pc) ELSE pc

(* Mutant: the task is placed in front of the queue. *)
Enqueue_Front(p, t) == [p EXCEPT !.queue = <<t>> \o @, !.pending = @ + 1]

Enqueue(p, t) == [p EXCEPT !.queue = Append(@, t), !.pending = @ + 1]

(* First part of addthread_mx: get a thread for a new pending task, unless *)
(* the threads starting or leaving a task suffice.  n threads are started. *)
GetThread(n) ==
  LET coming == pool.threads - pool.running - pool.idle
  IN  \/ /\ coming > pool.pending
         /\ n = 0 /\ wpc' = wpc
      \/ /\ coming <= pool.pending /\ pool.idle > 0
         /\ n = 0 /\ wpc' \in Signal(wpc)
      \/ /\ coming <= pool.pending /\ pool.idle <= 0
         /\ pool.threads >= pool.size
         /\ n = 0 /\ wpc' = wpc
      \/ /\ coming <= pool.pending /\ pool.idle <= 0
         /\ pool.threads < pool.size
         /\ \E S \in Started(1) : n = Cardinality(S) /\ wpc' = Start(wpc, S)

-----------------------------------------------------------------------------
(* Operations of the library, called by the owner or by a running task     *)
(* that got a reference to its pool with threads.create().                 *)
CanCall == owner = "open" \/ \E w \in Workers : wpc[w] = "run"

(* threads.create(n): createtpool followed by resizetpool(pool, n, 1). *)
Create(n) ==
  /\ owner = "new"
  /\ \E S \in Started(n) :
       /\ pool' = [pool EXCEPT !.size = n, !.threads = Cardinality(S)]
       /\ wpc' = Start(wpc, S)
       /\ owner' = IF Cardinality(S) < n THEN "failed" ELSE "open"
  /\ UNCHANGED <<last_terminated, wtask, tstate, local, freed>>

(* lcuTP_addtpooltask, which asserts that the pool is not CLOSED. *)
AddedTask(t) ==
  /\ pool.status # "CLOSED"
  /\ \E n \in {0, 1} :
       /\ GetThread(n)
       /\ pool' = [Enqueue(pool, t) EXCEPT !.threads = @ + n, !.tasks = @ + 1]

(* threads.dostring and threads.dofile, of a chunk that can be loaded and  *)
(* whose arguments can be transferred.                                     *)
AddTask(t) ==
  /\ CanCall
  /\ tstate[t] = "new"
  /\ AddedTask(t)
  /\ tstate' = [tstate EXCEPT ![t] = "pending"]
  /\ UNCHANGED <<last_terminated, wtask, owner, local, freed>>

(* Threads that resizetpool tries to create. *)
NewThreads(n, create) ==
  LET extra == n - pool.size
  IN  IF ~create /\ extra > pool.pending THEN pool.pending ELSE extra

Resize(n, create) ==
  /\ CanCall
  /\ \/ /\ n > pool.size
        /\ \E S \in Started(NewThreads(n, create)) :
             /\ pool' = [pool EXCEPT !.size = n, !.threads = @ + Cardinality(S)]
             /\ wpc' = Start(wpc, S)
     \/ /\ n <= pool.size
        /\ pool' = [pool EXCEPT !.size = n]
        /\ wpc' \in IF HasExtraIdle(pool') THEN Signal(wpc) ELSE {wpc}
  /\ UNCHANGED <<last_terminated, wtask, tstate, owner, local, freed>>

-----------------------------------------------------------------------------
(* Mutant: addthread_mx does not test for STATUS_CLOSED. *)
ResumeTask_Unchecked(t) ==
  /\ tstate[t] = "susp"
  /\ \E n \in {0, 1} :
       /\ GetThread(n)
       /\ pool' = Enqueue([pool EXCEPT !.threads = @ + n], t)
  /\ tstate' = [tstate EXCEPT ![t] = "pending"]
  /\ UNCHANGED <<last_terminated, wtask, owner, local, freed>>

(* A suspended task whose channel is matched, by any system thread.  The   *)
(* thread calls lcuTP_resumetask, and closes the state of the task when    *)
(* the pool does not take it back.                                         *)
ResumeTask(t) ==
  /\ tstate[t] = "susp"
  /\ \E n \in {0, 1} :
       /\ GetThread(n)
       /\ LET p == [pool EXCEPT !.threads = @ + n]
          IN  pool' = IF pool.status = "CLOSED" THEN p ELSE Enqueue(p, t)
  /\ tstate' = [tstate EXCEPT ![t] =
                  IF pool.status = "CLOSED" THEN "closing" ELSE "pending"]
  /\ UNCHANGED <<last_terminated, wtask, owner, local, freed>>

(* The channels are collected when the owner's state is closed, after its  *)
(* pools; the states of the tasks suspended on them are closed.            *)
DiscardTask(t) ==
  /\ owner = "gone"
  /\ tstate[t] = "susp"
  /\ tstate' = [tstate EXCEPT ![t] = "closing"]
  /\ UNCHANGED <<pool, last_terminated, wpc, wtask, owner, local, freed>>

(* Mutant: the test of 'tasks' precedes its decrement. *)
Collected_Stale(t) ==
  /\ pool' = [pool EXCEPT !.tasks = @ - 1]
  /\ tstate' = [tstate EXCEPT ![t] =
                  IF pool.status = "CLOSED" /\ pool.tasks = 0
                  THEN "destroy" ELSE "dead"]

(* collectthreadpool: finalizer of the pool reference in a task's state. *)
Collected(t) ==
  /\ pool' = [pool EXCEPT !.tasks = @ - 1]
  /\ tstate' = [tstate EXCEPT ![t] =
                  IF pool.status = "CLOSED" /\ pool.tasks - 1 = 0
                  THEN "destroy" ELSE "dead"]

CollectTask(t) ==
  /\ tstate[t] = "closing"
  /\ Collected(t)
  /\ UNCHANGED <<last_terminated, wpc, wtask, owner, local, freed>>

(* lcuTP_destroytpool, called by closetpool or by collectthreadpool. *)
Destroyed ==
  /\ freed' = TRUE
  /\ wpc' = IF last_terminated = NoThread THEN wpc
            ELSE [wpc EXCEPT ![last_terminated] = "none"]
  /\ last_terminated' = NoThread
  /\ UNCHANGED <<pool, wtask, local>>

DestroyByTask(t) ==
  /\ tstate[t] = "destroy"
  /\ Destroyed
  /\ tstate' = [tstate EXCEPT ![t] = "dead"]
  /\ UNCHANGED owner

DestroyByOwner ==
  /\ owner = "destroy"
  /\ Destroyed
  /\ owner' = "gone"
  /\ UNCHANGED tstate

-----------------------------------------------------------------------------
(* Mutant: only idle threads are waited for. *)
AwaitThreads_OnlyIdle(p) ==
  \/ /\ p.idle > 0
     /\ pool' = CheckHalted(p)
     /\ wpc' = WakeHalted(p, wpc)
     /\ owner' = "termwait"
     /\ UNCHANGED local
  \/ /\ p.idle <= 0
     /\ local' = [tasks |-> p.tasks, queue |-> p.queue]
     /\ pool' = [p EXCEPT !.pending = 0, !.queue = <<>>, !.status = "CLOSED"]
     /\ owner' = "closed"
     /\ UNCHANGED wpc

(* lcuTP_closetpool: wait on 'onterm' until there are no threads, and take *)
(* the tasks that were left in the queue.                                  *)
AwaitThreads(p) ==
  \/ /\ p.threads > 0
     /\ pool' = CheckHalted(p)
     /\ wpc' = WakeHalted(p, wpc)
     /\ owner' = "termwait"
     /\ UNCHANGED local
  \/ /\ p.threads <= 0
     /\ local' = [tasks |-> p.tasks, queue |-> p.queue]
     /\ pool' = [p EXCEPT !.pending = 0, !.queue = <<>>, !.status = "CLOSED"]
     /\ owner' = "closed"
     /\ UNCHANGED wpc

Close ==
  /\ owner \in {"open", "failed"}
  /\ AwaitThreads([pool EXCEPT !.status = "CLOSING"])
  /\ UNCHANGED <<last_terminated, wtask, tstate, freed>>

CloseWoken ==
  /\ owner = "termwake"
  /\ AwaitThreads(pool)
  /\ UNCHANGED <<last_terminated, wtask, tstate, freed>>

(* Mutant: 'tasks' is read after the mutex is unlocked. *)
CloseEnd_Reread ==
  /\ owner = "closed"
  /\ owner' = IF pool.tasks = 0 THEN "destroy"
              ELSE IF local.queue # <<>> THEN "drain" ELSE "gone"
  /\ UNCHANGED <<pool, last_terminated, wpc, wtask, tstate, local, freed>>

(* Destroy the condition variables, and then the pool if it has no tasks.  *)
CloseEnd ==
  /\ owner = "closed"
  /\ owner' = IF local.tasks = 0 THEN "destroy"
              ELSE IF local.queue # <<>> THEN "drain" ELSE "gone"
  /\ UNCHANGED <<pool, last_terminated, wpc, wtask, tstate, local, freed>>

(* Close the state of one of the tasks left in the queue. *)
Drain ==
  /\ owner = "drain"
  /\ Collected(Head(local.queue))
  /\ local' = [local EXCEPT !.queue = Tail(@)]
  /\ owner' = IF Len(local.queue) = 1 THEN "gone" ELSE "drain"
  /\ UNCHANGED <<last_terminated, wpc, wtask, freed>>

-----------------------------------------------------------------------------
(* Mutant: 'tasks' is decremented whenever the task is not queued again. *)
Locked_NotYielded(w) ==
  CASE wpc[w] = "start"   -> pool
    [] wpc[w] = "wake"    -> [pool EXCEPT !.idle = @ - 1]
    [] wpc[w] = "requeue" -> Enqueue([pool EXCEPT !.running = @ - 1], wtask[w])
    [] OTHER -> [pool EXCEPT !.running = @ - 1, !.tasks = @ - 1]

(* Mutant: 'idle' is not decremented after the wait. *)
Locked_StillIdle(w) ==
  CASE wpc[w] \in {"start", "wake"} -> pool
    [] wpc[w] = "requeue" -> Enqueue([pool EXCEPT !.running = @ - 1], wtask[w])
    [] wpc[w] = "left"    -> [pool EXCEPT !.running = @ - 1]
    [] wpc[w] = "done"    -> [pool EXCEPT !.running = @ - 1, !.tasks = @ - 1]

(* Mutant: a task that yields is queued again even if it was suspended. *)
Locked_AlwaysQueued(w) ==
  CASE wpc[w] = "start"   -> pool
    [] wpc[w] = "wake"    -> [pool EXCEPT !.idle = @ - 1]
    [] wpc[w] = "done"    -> [pool EXCEPT !.running = @ - 1, !.tasks = @ - 1]
    [] OTHER -> Enqueue([pool EXCEPT !.running = @ - 1], wtask[w])

(* threadmain.  The pool just after thread w locks the mutex: it leaves    *)
(* the wait on 'onwork', or accounts for the task it was running.          *)
Locked(w) ==
  CASE wpc[w] = "start"   -> pool
    [] wpc[w] = "wake"    -> [pool EXCEPT !.idle = @ - 1]
    [] wpc[w] = "requeue" -> Enqueue([pool EXCEPT !.running = @ - 1], wtask[w])
    [] wpc[w] = "left"    -> [pool EXCEPT !.running = @ - 1]
    [] wpc[w] = "done"    -> [pool EXCEPT !.running = @ - 1, !.tasks = @ - 1]

LockedTasks(w) ==
  CASE wpc[w] = "requeue" -> [tstate EXCEPT ![wtask[w]] = "pending"]
    [] wpc[w] = "done"    -> [tstate EXCEPT ![wtask[w]] = "dead"]
    [] OTHER              -> tstate

LockPool(w) == ~freed /\ wpc[w] \in Locking

(* Get the first pending task and unlock the mutex to run it. *)
TakeTask(w) ==
  /\ LockPool(w)
  /\ LET p == Locked(w)
         t == Head(p.queue)
     IN  /\ p.threads <= p.size
         /\ p.pending > 0
         /\ pool' = [p EXCEPT !.queue = Tail(@), !.pending = @ - 1,
                              !.running = @ + 1]
         /\ wpc' = [wpc EXCEPT ![w] = "run"]
         /\ wtask' = [wtask EXCEPT ![w] = t]
         /\ tstate' = [LockedTasks(w) EXCEPT ![t] = "run"]
  /\ UNCHANGED <<last_terminated, owner, local, freed>>

NoMoreTasks(p) == p.status = "CLOSING" /\ p.tasks = 0

WaitForWork(w) ==
  /\ LockPool(w)
  /\ LET p == Locked(w)
     IN  /\ p.threads <= p.size
         /\ p.pending = 0
         /\ ~NoMoreTasks(p)
         /\ pool' = [p EXCEPT !.idle = @ + 1]
  /\ wpc' = [wpc EXCEPT ![w] = "wait"]
  /\ wtask' = [wtask EXCEPT ![w] = NoTask]
  /\ tstate' = LockedTasks(w)
  /\ UNCHANGED <<last_terminated, owner, local, freed>>

(* Mutant: the thread that ended before is not joined. *)
ThreadEnd_NoJoin(w, p) ==
  LET q == [p EXCEPT !.threads = @ - 1]
      pc == [wpc EXCEPT ![w] = "ended"]
  IN  /\ pool' = q
      /\ wpc' \in IF HasExtraIdle(q) THEN Signal(pc) ELSE {pc}
      /\ owner' = IF owner = "termwait" THEN "termwake" ELSE owner
      /\ last_terminated' = w

(* thread_end: wake another thread in excess, or the owner closing the     *)
(* pool; and join the thread that ended before.                            *)
ThreadEnd(w, p) ==
  LET q == [p EXCEPT !.threads = @ - 1]
      pc == [v \in Workers |-> IF v = w THEN "ended"
                               ELSE IF v = last_terminated THEN "none"
                               ELSE wpc[v]]
  IN  /\ \/ /\ HasExtraIdle(q)
            /\ pool' = q /\ wpc' \in Signal(pc) /\ owner' = owner
         \/ /\ ~HasExtraIdle(q) /\ q.status # "CLOSING"
            /\ pool' = q /\ wpc' = pc /\ owner' = owner
         \/ /\ ~HasExtraIdle(q) /\ q.status = "CLOSING" /\ q.threads = 0
            /\ pool' = q /\ wpc' = pc
            /\ owner' = IF owner = "termwait" THEN "termwake" ELSE owner
         \/ /\ ~HasExtraIdle(q) /\ q.status = "CLOSING" /\ q.threads # 0
            /\ pool' = CheckHalted(q) /\ wpc' = WakeHalted(q, pc)
            /\ owner' = owner
      /\ last_terminated' = w

(* End thread w, either because it exceeds the size of the pool or because *)
(* it finds that there are no more tasks in a pool being closed.           *)
EndThread(w) ==
  /\ LockPool(w)
  /\ LET p == Locked(w)
     IN  \/ /\ p.threads > p.size
            /\ ThreadEnd(w, p)
         \/ /\ p.threads <= p.size /\ p.pending = 0 /\ NoMoreTasks(p)
            /\ ThreadEnd(w, [p EXCEPT !.size = 0])
  /\ wtask' = [wtask EXCEPT ![w] = NoTask]
  /\ tstate' = LockedTasks(w)
  /\ UNCHANGED <<local, freed>>

SpuriousWakeup ==
  /\ \/ \E w \in Workers : /\ wpc[w] = "wait"
                           /\ wpc' = [wpc EXCEPT ![w] = "wake"]
                           /\ UNCHANGED owner
     \/ owner = "termwait" /\ owner' = "termwake" /\ UNCHANGED wpc
  /\ UNCHANGED <<pool, last_terminated, wtask, tstate, local, freed>>

-----------------------------------------------------------------------------
(* threadmain with the mutex unlocked: the outcomes of lua_resume.         *)

(* The task yields without suspending on a channel (another thread is      *)
(* already waiting there, or the arguments are invalid).                   *)
Yield(w) ==
  /\ wpc[w] = "run"
  /\ wpc' = [wpc EXCEPT ![w] = "requeue"]
  /\ UNCHANGED <<pool, last_terminated, wtask, tstate, owner, local, freed>>

(* The task is suspended on a channel, from where other threads can get it.*)
Suspend(w) ==
  /\ wpc[w] = "run"
  /\ wpc' = [wpc EXCEPT ![w] = "published"]
  /\ tstate' = [tstate EXCEPT ![wtask[w]] = "susp"]
  /\ UNCHANGED <<pool, last_terminated, wtask, owner, local, freed>>

(* Last uses of the state of the suspended task: lcuCS_freechsync with a   *)
(* name in its stack, or the reset of its stack.                           *)
Leave(w) ==
  /\ wpc[w] = "published"
  /\ wpc' = [wpc EXCEPT ![w] = "left"]
  /\ UNCHANGED <<pool, last_terminated, wtask, tstate, owner, local, freed>>

(* The task ends, or raises an error: its state is closed without calling  *)
(* the finalizer 'collectthreadpool'.                                      *)
Finish(w) ==
  /\ wpc[w] = "run"
  /\ wpc' = [wpc EXCEPT ![w] = "done"]
  /\ tstate' = [tstate EXCEPT ![wtask[w]] = "over"]
  /\ UNCHANGED <<pool, last_terminated, wtask, owner, local, freed>>

-----------------------------------------------------------------------------
Resizing == \E n \in Sizes, create \in CreateModes : Resize(n, create)
WorkerStep(w) == TakeTask(w) \/ WaitForWork(w) \/ EndThread(w) \/ Leave(w)
TaskStep(w) == Yield(w) \/ Suspend(w) \/ Finish(w)
OwnerStep == CloseWoken \/ CloseEnd \/ Drain \/ DestroyByOwner
CollectStep(t) == CollectTask(t) \/ DestroyByTask(t)

Next ==
  \/ \E n \in Sizes : Create(n)
  \/ \E t \in Tasks : AddTask(t)
  \/ Resizing
  \/ \E t \in Tasks : ResumeTask(t)
  \/ \E t \in Tasks : DiscardTask(t)
  \/ \E t \in Tasks : CollectStep(t)
  \/ Close
  \/ OwnerStep
  \/ \E w \in Workers : WorkerStep(w)
  \/ \E w \in Workers : TaskStep(w)
  \/ SpuriousWakeup

Spec == Init /\ [][Next]_vars

(* System threads and the closing owner keep running, and the code of a    *)
(* task eventually returns or yields.                                      *)
FairSpec ==
  /\ Spec
  /\ \A w \in Workers : WF_vars(WorkerStep(w)) /\ WF_vars(TaskStep(w))
  /\ \A t \in Tasks : WF_vars(CollectStep(t))
  /\ WF_vars(OwnerStep)
-----------------------------------------------------------------------------
(* Safety.  Destroyers are the calls of lcuTP_destroytpool about to happen. *)
Destroyers == In(tstate, {"destroy"}) \cup (IF owner = "destroy" THEN {NoTask} ELSE {})

(* The counters of lcu_ThreadPool are what their comments say: 'threads'   *)
(* are all threads alive, 'idle' the ones waiting on 'onwork' (or woken    *)
(* but still without the mutex), 'running' the ones busy with a task,      *)
(* 'pending' the length of the queue, 'tasks' the tasks not yet closed.    *)
(* The decisions of addthread_mx and of closing rest on them.              *)
CountersExact ==
  /\ pool.threads = Cardinality(In(wpc, Live))
  /\ pool.idle = Cardinality(In(wpc, Idle))
  /\ pool.running = Cardinality(In(wpc, Busy))
  /\ pool.pending = Len(pool.queue)
  /\ pool.tasks = Cardinality(In(tstate, Counted))

(* A task is in one place: it is run by exactly one thread (a lua_State    *)
(* must never be resumed by two), or it is once in the queue of pending    *)
(* tasks (or in the queue taken by lcuTP_closetpool).                      *)
Holding == {"run", "requeue", "done"}
OnePlace ==
  /\ \A v, w \in In(wpc, Holding) : wtask[v] = wtask[w] => v = w
  /\ In(tstate, {"run"}) = {wtask[w] : w \in In(wpc, {"run", "requeue"})}
  /\ In(tstate, {"over"}) = {wtask[w] : w \in In(wpc, {"done"})}
  /\ In(tstate, {"pending"}) = Elements(pool.queue) \cup Elements(local.queue)
  /\ Distinct(pool.queue) /\ Distinct(local.queue)
  /\ pool.queue = <<>> \/ local.queue = <<>>

(* assert(added) of lcuTP_addtpooltask: whoever can add a task finds the   *)
(* pool not CLOSED, since closing does not end while a thread runs a task. *)
AddAsserted == CanCall => pool.status # "CLOSED"

(* The structure is released once, only by a CLOSED pool, and when no task *)
(* still refers to it.                                                     *)
DestroyOnce ==
  /\ Cardinality(Destroyers) <= 1
  /\ Destroyers # {} => ~freed
  /\ freed \/ Destroyers # {} =>
       pool.status = "CLOSED" /\ In(tstate, Counted) = {}

(* Assertions of lcuTP_destroytpool: nothing of the pool remains when it   *)
(* is released.                                                            *)
Quiescent ==
  /\ pool.status = "CLOSED"
  /\ pool.threads = 0 /\ pool.idle = 0 /\ pool.running = 0
  /\ pool.tasks = 0 /\ pool.pending = 0 /\ pool.queue = <<>>

(* They hold for a pool closed when its threads were ended for having no   *)
(* more tasks or by threads.resize(pool, 0), which leave it with size 0.   *)
DestroyQuiescent == Destroyers # {} /\ pool.size = 0 => Quiescent

(* The assertions of src/lthpool.c hold, but for a pool released with a    *)
(* size other than 0 (see DestroyAsserted).                                *)
AssertionsHold == AddAsserted /\ DestroyQuiescent

(* Every ended thread is joined: at most the last one that ended waits to  *)
(* be joined, and none does once the pool is released.                     *)
AllJoined ==
  /\ In(wpc, {"ended"}) = {last_terminated} \ {NoThread}
  /\ freed => last_terminated = NoThread

(* A CLOSED pool only winds down: no task runs, and no task is added.      *)
ClosedWindsDown ==
  [][pool.status = "CLOSED" =>
       /\ pool'.status = "CLOSED" /\ pool'.tasks <= pool.tasks
       /\ pool'.queue = <<>> /\ In(wpc, Busy)' = {}]_vars

-----------------------------------------------------------------------------
(* Liveness. *)

(* No wakeup of 'onwork' or 'onterm' is missed while closing: once there   *)
(* are no more tasks, the threads end and lcuTP_closetpool returns.        *)
CloseCompletes ==
  (pool.status = "CLOSING" /\ pool.tasks = 0) ~> (owner = "gone")

(* When the pool is no longer resized, a pending task is taken by a thread *)
(* unless the pool has size zero, when only lcuTP_closetpool takes it.     *)
(* (Resized forever, a pool can go on ending one thread and creating       *)
(* another without any of them getting a task.)                            *)
PendingServed ==
  <>[][~Resizing]_vars =>
    \A t \in Tasks :
      (tstate[t] = "pending") ~> (tstate[t] # "pending" \/ pool.size = 0)

(* Once a CLOSED pool has no tasks its memory is released. *)
ClosedReleased ==
  (pool.status = "CLOSED" /\ pool.tasks = 0) ~> freed

-----------------------------------------------------------------------------
(* The assertions of lcuTP_destroytpool for any pool, which do not hold. *)
DestroyAsserted == Destroyers # {} => Quiescent

=============================================================================
