# Verification of coutil

coutil is a Lua library, written in C over libuv and in Lua, of multithreaded
and asynchronous operations for coroutines.  This directory holds TLA+ models
of its parts, the TLC configurations that check them on small instances, and
proofs, checked by TLAPS, of their main properties for instances of any size.
Source paths are those of the repository (`src/lthpool.c`, `lua/coutil/event.lua`).

## 1. Inventory

| part | state | operations | hard behaviour | what makes it correct |
|---|---|---|---|---|
| thread pool (`lthpool.c`, `lthreadm.c`) | `lcu_ThreadPool`: status, size, counters, queue of pending states; one system thread per `threadmain` | create, resize, dostring/dofile/loadfile, count, close; resumption of a task by any thread | decisions made from counters that other threads are about to change; missed wakeups; who destroys the pool | counters are exact; a state is run by one thread; closing ends; the pool is released once, with nothing left in it |
| coroutine operations (`loperaux.c`, `ltimef.c`, `lprocesf.c`, `lchannem.c`, `lcommunf.c`) | per coroutine: a union of a libuv request and a libuv handle, with flags REQUEST (R), THRSAVED (S), PENDING (P), CLEANUP (C); scheduler counters `nasync`, `nactive` | start, complete, reset, cancel, close | the coroutine is resumed by someone else while its operation is pending, and starts another; late callbacks of canceled requests; a handle being closed | the asserted flags; a callback resumes only the coroutine that waits for it; a thread is saved while libuv refers to it |
| system.run, halt (`lscheduf.c`) | the libuv loop and its counters | run in modes loop, step, ready; halt; awaitch suspension of a task in a pool | all pending operations being `awaitch` of a task | a task suspends only if nothing else could make it run |
| channels (`lchaux.c`, `lchannem.c`) | per name: reference count, mutex, a queue of waiting states and the end they wait on | create, close, sync, getnames, awaitch, suspension of a task | matching from two system threads; a wait canceled while it is being matched; freeing a channel in use | endpoints are matched once, with the complementary end; nothing waits on a freed channel |
| userdata operations (`loperaux.c`, used by `lcommunf.c`, `lfilef.c`) | the operation is kept by an object (socket, file) | read, accept, receive; close of the object | close while a coroutine waits | each waiting coroutine is resumed once |
| state coroutines (`lcoroutm.c`) | a Lua state, a uv_work request | load, resume, close, status | resume by a worker thread while the object is closed or collected | one thread uses the state at a time |
| network, files, processes, standard files, information (`lcommunf.c`, `lfilef.c`, `lprocesf.c`, `lstdiof.c`, `linfof.c`) | objects over libuv handles | wrappers over the operations above | those of the operations they are built on | those of the operations they are built on |
| events (`event.lua`) | for each event, a circular, singly linked list of waiting coroutines (`listof`) | await, awaitall, awaitany, emitall, emitone | threads that await several events, resumed by others, emitting while being resumed | every waiter of an emission is resumed once; no stale waiter is left |
| queued events (`queued.lua`) | emissions kept until they are awaited | await, awaitall, awaitany, emitall, emitone, queued | emissions with and without waiters mixed | no emission is lost or consumed twice |
| mutexes (`mutex.lua`) | owner of each mutex | lock, unlock, islocked, ownlock | a waiter resumed by someone else | mutual exclusion, hand-over in order |
| promises (`promise.lua`) | results of each promise | create, fulfill, awaitall, awaitany, onlypending | awaiting after fulfilling | every await returns the results |
| spawn (`spawn.lua`) | none | catch, trap, call | none | none |
| module support (`lmodaux.c`, `lsystemm.c`) | none | positions in buffers, errors, transfer of values between states | boundaries of positions | access inside the buffer |

The parts interact as follows.  A *task* of a pool is a Lua state.  While it
runs, the pool's mutex is unlocked.  It stops running by yielding, by ending,
or by suspending on a channel (`lcuCS_suspendedchtask`); whoever matches that
channel gives it back with `lcuTP_resumetask`.  A *coroutine* of any state
waits with an operation (`loperaux.c`) until `system.run` gets the callback
of libuv; `system.awaitch` is such an operation, woken with `uv_async_send` by
the thread that matches the channel.  Events, queued events, mutexes and
promises are plain coroutine code in one state.  A socket, a pipe or a terminal
is an object with a handle that outlives the calls: the coroutine that awaits in
it is kept in the object, not the object in the coroutine.  A state coroutine is
an object with a request, and a Lua state that a thread of libuv executes.  A
file is an object with a descriptor, given to the requests of the coroutines that
use it.

## 2. Plan

| order | module | what it models | status |
|---|---|---|---|
| 1 | `ThreadPool`, `MCThreadPool`, `ThreadPoolProofs` | the thread pool | checked and proved |
| 2 | `CoOperation`, `MCCoOperation`, `CoOperationProofs` | life cycle of the operation of a coroutine, `system.run` | checked and proved |
| 3 | `Channel`, `Rendezvous`, `MCChannel`, `ChannelProofs` | queues of a channel shared by system threads, with awaitch and suspended tasks; the abstract rendezvous they implement | checked and proved |
| 4 | `LuaThreads` | coroutines that resume each other, and the calls that wait for them | used by 5-7 |
| 5 | `Event`, `EventUsers`, `EventQueues`, `MCEventUsers`, `EventUsersProofs`, `EventQueuesProofs` | the Lua modules: events, and mutexes, promises and queued events over them; the abstract queues the lists implement | checked and proved |
| 6 | `LoopThreads`, `UdataHandle`, `UdataRequest`, `UdataOperation`, `MCUdataOperation`, `UdataOperationProofs` | operations kept by objects: sockets and pipes, state coroutines, and both together | checked and proved |
| 7 | `FileObject`, `MCFileObject`, `FileObjectProofs` | files and their descriptors | checked and proved |
| 8 | `Tasks` | composition of `Channel` and `ThreadPool` | planned |

Abstract specifications: a channel as a rendezvous of two ends (`Rendezvous`) and
the lists of events as queues (`EventQueues`) are stated, and the detailed modules
are proved to implement them.  Every safety property that a passing run checks but
`ActiveNotMissed` is also a theorem; the table of what is proved, and from what, is
in section 9.  Where the code disagrees with what a document, a comment or a test
of the repository says, it is said under "Disagreements met" of each section; three
of these are runs, whose property is what the document says and is violated.  For
the others the section gives the formula with which TLC finds the disagreement.

## 3. Thread pool

`ThreadPool.tla` has one variable, `pool`, for `struct lcu_ThreadPool`, and
program counters for those who use it.  Every access to the structure is made
with its mutex locked, so one critical section is one action; what happens
between two of them is a state of a system thread (`wpc`), of a task (`tstate`)
or of the owner (`owner`).  `uv_cond_wait` is the state "wait", which a signal
turns to "wake": the thread still has to lock the mutex, is still counted in
`idle`, and anything may happen before.  Wakeups may be spurious.

| action | code |
|---|---|
| `Create`, `Resize`, `AddTask`, `Close` | `threads.create`, `resize`, `dostring`/`dofile`, `close`, called by the owner or (but for close) by a running task |
| `TakeTask`, `WaitForWork`, `EndThread` | one round of `threadmain` with the mutex locked: accounting for the task it was running (`Locked`), then the choice of lines 74-88 |
| `Yield`, `Suspend`, `Leave`, `Finish` | the outcomes of `lua_resume` in `threadmain` |
| `ResumeTask` | `lcuTP_resumetask`, by the thread that matched the channel |
| `CloseWoken`, `CloseEnd`, `Drain`, `DestroyByOwner` | the steps of `lcuTP_closetpool`, before and after it unlocks |
| `DiscardTask`, `CollectTask`, `DestroyByTask` | closing the state of a suspended task: `channelmap_gc`, `collectthreadpool` |
| `SpuriousWakeup` | `uv_cond_wait` |

What a task computes, and its channels, are abstracted to the ways it can stop
running.  `Start` and `Started` give `uv_thread_create` a fixed set of thread
identities, any number of calls may fail when `ThreadErrors` is TRUE.  Finalizers
executed by the `lua_close` of a task may call `dostring` on its pool, also when it
is CLOSED, where they meet the assertion of `lcuTP_addtpooltask`: `CanCall` leaves
out the code of finalizers, and `AssertionsHold` is not about it.

### Runs

| run | instance | shows |
|---|---|---|
| `pool_safety` | 3 tasks, 4 threads, sizes 0-3, failing creations, symmetry | the seven safety properties below |
| `pool_live` | 2 tasks, 3 threads, sizes 0-2, fairness, no symmetry | `CloseCompletes`, `PendingServed`, `ClosedReleased` |
| `pool_assert` | 1 task, 2 threads | a counterexample of `DestroyAsserted` |

Three tasks and four threads let the counters disagree in every way the code
compares them: more and fewer threads than the size, than the pending tasks and
than the threads about to lock the mutex, with one thread ending, one waking
and one leaving a task.  Deadlock is not checked: a pool may stop, either
released or waiting for tasks that are suspended forever.

Safety: `CountersExact` (the counters count what their comments say),
`OnePlace` (a task is run by one thread or is once in a queue), `AssertionsHold`
(the assertion of `lcuTP_addtpooltask`, and those of `lcuTP_destroytpool` for a
pool closed with size zero), `DestroyOnce`, `AllJoined`, `ClosedWindsDown` (an action property), and `TypeOK`.

Fairness: `FairSpec` assumes that each system thread, the closing owner and the
closing of a state keep running (weak fairness of `WorkerStep`, `OwnerStep` and
`CollectStep`: the mutex is free between critical sections, and the operating
system schedules every thread) and that the code of a task returns or yields
(`TaskStep`).  Nothing is assumed of the library's callers or of
channel matches: `CloseCompletes` starts from a pool that has no more tasks.
`PendingServed` also supposes that the pool is not resized forever: a pool
resized over and over may end threads and create others none of which takes a
task before it is told to end.

### Disagreements met

* `DestroyAsserted`.  `lcuTP_destroytpool` asserts that the pool has no
  threads.  `resize(0)` with a suspended task, a lazy `resize(n)` and `close`
  leave a CLOSED pool with `size > threads`.  When the task is resumed,
  `addthread_mx` creates a thread before it finds that the pool is CLOSED.

Two more are not runs of their own.  `threads.count` may give -1 suspended tasks
(`doc/manual.md:232`): a task that was resumed before its last thread locked the
mutex is counted both in `running` and in `pending`.  And `resize(n, true)`
creates `n - size` threads, not `n - threads` (`doc/manual.md:221`): the threads
missing from an earlier lazy resizing are not created.

### Proofs

`ThreadPoolProofs.tla` proves the seven safety properties, and the parts of `AssertionsHold` by themselves, for any finite sets
of tasks and threads and any set of sizes, from `ConstantsAssumption` alone.

The properties are not inductive by themselves: that counters are exact depends
on which thread holds which task, and that the pool is destroyed once depends
on what the owner read before it unlocked.  The inductive invariant `IInv` is
the conjunction of

* `WorkersCounted`, `TasksCounted`: counters are cardinalities of sets of
  threads and tasks;
* `Held`: threads that hold a task hold different ones, and each task being run
  is held by a thread;
* `Queued`: pending tasks are those in the pool's queue or in the one taken by
  `lcuTP_closetpool`, once each, and one of the queues is empty;
* `Phases`: where the owner is determines the status; a CLOSED pool has no busy
  thread, and no thread at all if its size is zero;
* `Destruction`: who is about to destroy the pool is alone, and no task is left;
* `Joined`: the only ended thread not joined is `last_terminated`.

These are operators over values, not over variables, so that they can be stated
of the pool in the middle of a critical section: `LockedEffect` proves the
invariant for the pool as a thread finds it after accounting for its task, and
`TakeGood`, `RestGood` and `ThreadEndInv` start from there.  `CountUpdate` (one
thread that changes its state changes one count by one) carries all of the
counting.  `GetThreadEffect` and `StartEffect` summarise `addthread_mx` and
`uv_thread_create`.  There is one lemma per action.

The three liveness properties are only model-checked: they depend on fairness.

## 4. Coroutine operations and system.run

`CoOperation.tla` models one Lua state: its coroutines, the `lcu_Operation` of
each one and the loop of `system.run`.  Everything happens in one system
thread; the hard part is that coroutines are resumed by whoever has a reference
to them, so that a coroutine may start an operation while the memory of its
previous one is still used by libuv.  `op[c]` has the four flags of the code, the
type of the request or handle, and whether `uv_close` was called for it.  `kf[c]`
is where the coroutine is: executing Lua code, in a setup function, suspended by
`coroutine.yield` ("normal"), or suspended in the continuations `k_endop`
and `k_resetopk`.  `resumer` is the stack of resumes.

| action | code |
|---|---|
| `Await` | an await function: `lcuT_resetcoreqk`/`lcuT_resetcohdlk` with `checkreset`, up to the call of the setup function or the yield of `yieldresetk` |
| `SetupYield`, `SetupReturn`, `SetupFails`, `SetupError` | the setup function with `startedopk`: it succeeds, fails before or after arming the operation, or raises an error |
| `Resume`, `CloseCo`, `Yield`, `Finish` | Lua code; resuming a coroutine that awaits continues `k_endop` or `k_resetopk` with arguments that are not the ones of the scheduler |
| `RequestDone` | `lcuU_endcoreq` |
| `HandleReady`, `Synced` | `lcuU_endcohdl` in `uv_ontimer`, `uv_onidle`, `uv_onsignal`, `uv_procexited`, and in `uv_onsynced` |
| `Closed` | `closedhdl` |
| `ReqResumed`, `HdlResumed` | the rest of `lcuU_resumecoreq` and `lcuU_resumecohdl`, after the coroutine stops |
| `Run`, `Halt`, `RunReturns`, `TaskResumed` | `lcuM_run`, `lcuM_halt`, `k_resumeall` |
| `NextPhase`, `Trigger` | libuv: the phases of an iteration; another system thread matches a channel, a process ends |

Kinds of operations differ by what the code tells apart: requests (which always
get their callback), handles that fire by themselves (idle, timer, signal),
processes (fire once, never reused) and `awaitch` (fires when matched, counted
in `nasync`, cannot be canceled once it is matched).

Abstractions: an operation gets at most one callback in a phase (`fired`), and
the handles closed in an iteration are the ones that were closing when it got
to that phase; the arguments and results of operations are left out; the main
chunk of a task does not call await functions itself; operations kept by objects
are not counted in `nactive`; memory errors are not modelled.

### Runs

| run | instance | shows |
|---|---|---|
| `op_safety` | 2 coroutines, all kinds, state of a task, symmetry | the five safety properties below |
| `op_live` | 2 coroutines, requests and `awaitch`, fairness | `ResetServed`, `Released` |

Operations do not share memory: coroutines interact by resuming one another
(two are enough to resume, close and be resumed by each other inside a callback)
and by the counters, which are proved for any number of them.  No length of
executions is bounded.  Deadlock is not checked: a program may end.

Safety: `DocumentedStates` (flags, continuation and next callback are a row of
the table of `doc/devnotes.md`), `AssertionsHold` (`SetupAsserted`, the assertions
on the flags, and `AwaitedIsArmed`, results are never those of a previous
operation), `Accounted` (`SavedWhileInUse`, the coroutine is in the registry
exactly while libuv refers to it, and `SchedCounters`), `MatchedIsOpen`
(`uv_async_send` is never called on a closed handle), and `TypeOK`.

Fairness: `uv_run` goes on from phase to phase, callbacks that are due are
called, setup functions return, and Lua code does not execute forever.
Strong fairness is used where the step is only possible in one phase of the
iteration (`RequestDone`, `Synced`), or is interrupted by resuming another
coroutine (`LuaEnds`); libuv collects all that is ready in each iteration.
Nothing is assumed of timers and signals, or of the callers of `system.run`:
both properties say "or system.run returns".

### Disagreements met

The manual (`doc/manual.md:569-571`) says when `system.run` of a task suspends it:
when only `awaitch` operations are pending.  Neither direction holds of the code;
TLC shows it on this module with the invariants
`phase = "yielded" => ShallSuspend(nasync, nactive)` and its converse for
`uv_run` blocked.  They are not runs of the project.

* The decision to suspend a task is left in the stack
  by `lcuU_checksuspend`, and used by `k_resumeall` (`lscheduf.c:12`) after the other callbacks of
  the iteration, which may have started operations that are not `awaitch`.
* `closedhdl` (`loperaux.c:195`) decrements `nactive` without the check that
  the other places do: if the handle was the last operation that is not an
  `awaitch`, the task waits in `uv_run`, holding its thread of the pool.

`coroutine.close` on a coroutine that awaits leaves its operation pending: its
callback finds a dead coroutine, and the handle stays open while `system.run`
goes on.  The table of `doc/devnotes.md` does not have that state, so
`DocumentedStates` is stated for coroutines that were not closed; the other
properties include the closed ones.

### Proofs

`CoOperationProofs.tla` proves the five safety properties, and the parts of `AssertionsHold` and `Accounted` by themselves, for any finite set
of coroutines, any kinds of operations, in a task or not, from
`ConstantsAssumption`.  The inductive invariant `Inv` is the conjunction of

* `Typed`, `ControlTyped`: `TypeOK`, except for what `SchedCounters` gives;
* `CoInv(c)` for each coroutine: `FlagsInv` (flags that go together: a handle has
  no S, a request in use has it), `WaitInv` (where the coroutine is suspended
  determines P, and the operation it waits for) and `EventInv` (who is in a
  channel's queue has an open handle; C only if it was matched).  It covers dead
  coroutines too, which `DocumentedStates` excludes;
* `StackInv`: only `current` and the coroutines below it in the stack are
  executing, and a callback goes on only while the one it resumed is in it;
* `SchedCounters`, kept by `CountChange`: a step that changes one operation
  changes each count by what that operation changed.

A step changes the operation of one coroutine at most.  `BecomesInv` reduces the
invariant of all to that of the one that changes, and `KeepsInv` is for steps
that change no operation; there is one lemma per action.  The two liveness
properties depend on fairness and are only model-checked.

## 5. Channels

`Channel.tla` models the channels with one name: names are independent, but for
the mutex of the map, which is only held to look them up.  The states that
use them are tasks of a pool and the main state, each one executed by one system
thread at a time.  `sync` is the `lcu_ChannelSync`; `chan[c]` says if a
`LuaChannel` is closed, unused or in use, and in this case if its coroutine
awaits ("await"), was resumed by others after the match ("canceled") or was
closed ("lost").  `run[s]` is what the thread of a state is doing, `step[s]` how
far it is in `lcuCS_matchchsync` after it unlocks the channel.

| action | code |
|---|---|
| `Create`, `Close`, `CloseInUse`, `CloseHangs` | `channel.create`; `channelclose`, by `channel.close`, the collection of the channel, its `__close` or the end of its state |
| `AwaitCh`, `ChannelSync` | `system.awaitch` (`k_setupsynced`, `armsynced`) and `channel.sync`, up to the end of the critical section |
| `CancelSynced`, `CloseCo` | the coroutine is resumed by others, or closed |
| `SwapValues`, `CountWake`, `ResumeTask` | the rest of `lcuCS_matchchsync`: `swapvalues` and `uv_async_send`, `getsuspendedtask`, `lcuTP_resumetask` |
| `OnSynced` | `uv_onsynced` with `returnsynced` or `restorechannel` |
| `YieldName`, `LookUp`, `MatchTask`, `FreeTask`, `FreeLate` | the chunk of a task yields the name of a channel: `threadmain` |
| `StopRun`, `SuspendedChTask` | `system.run` of a task yields: `lcuCS_suspendedchtask` |
| `Pick`, `EndChunk`, `CloseState` | the pool executes the task; it ends |

Values are abstracted to whose they are (`got`), which is set when the pair is
formed; `swapvalues` may fail to convert a value, and both sides get the error.
`end` keeps the endpoint of who waits, which the code does not: it has only
`expected`.  `channelname` (lthpool.c:115) belongs to a task that may already be
executed elsewhere: `FreeLate` may find a string that was collected, and then the
reference is not released (`leaked`, bounded by `MaxLeaks`, which
`RefcountExact` sets apart: it does not cover that leak).  `channel_gc` is also
the `__close` of a channel (lchannem.c:348): `CloseInUse` closes a channel in which
a coroutine awaits from any Lua code of its state.  The coroutine is then
stranded: nothing notifies it, and if other Lua code resumes it `cancelsynced`
uses a state that was closed; the model does not go on with that coroutine.  When
the channel was already matched `channelclose` runs the loop inside the loop of
`system.run`, where `assert(loop->data == NULL)` (lchannem.c:37) does not hold;
the model takes the callback as called by either loop.  Not modelled:
memory errors, the closing of the main state (see `DiscardTask` of
`ThreadPool`), a pool closed while a task is resumed (`ThreadPool`), and Lua
code executed by finalizers while a state is closed.  The life cycle of the
operation of an `awaitch` is in `CoOperation`, for which `OnSynced` and the
matching are `Synced` and `Trigger`.

### Runs

| run | instance | shows |
|---|---|---|
| `chan_safety` | 2 tasks and the main state, 1 channel in the main state and 1 in a task, 2 pool threads | the safety properties below, and `ImplementsRendezvous` |
| `chan_live` | 1 task and the main state, 2 channels, collected names, fairness | `Delivered` |

Two tasks and the main state give two threads that match the channel of a third
one at once, which is what the order of `uv_async_send` and `wakes++` is exposed
to; the queue has up to four waiters on either end.  Deadlock is not checked:
everyone may wait for a match.

Safety: `RefcountExact` (a channel exists exactly while someone refers to it
or waits in it), `NoMissedMatch` (one field `expected` is right for all who
wait), `WaitersKept` (who waits is matched once, is not lost, and nobody reuses or
releases a state that another thread is writing to), `TaskWakes` (`wakes` is
exact; a task is never left suspended with a callback due; it is given back
once, and only if no thread has it), and `TypeOK`.
`ImplementsRendezvous` says that all this is the protocol of `Rendezvous.tla`:
pairs meet on complementary endpoints, in order, each with the values of the
other, and an offer that was met is not withdrawn.

Fairness: threads go on with a match and with `threadmain` (weak fairness of
`MatchStep` and `FreeLate`); the pool takes the tasks that are ready, and the
loop of a state calls the callbacks that are due (strong fairness of
`ThreadStep` and `OnSynced`: they are disabled while other threads are busy or
other code of the state is executed, but libuv calls all callbacks due in each
iteration and the queue of the pool is served in order, as `PendingServed` of
`ThreadPool` shows).  Nothing is assumed of who calls the library.  `Delivered`
excludes coroutines of a task whose chunk waits itself on a channel.

### Disagreements met

* The manual (`doc/manual.md:300`) says that channels are closed when they are
  collected.  `coroutine.close` on a coroutine in `awaitch` makes its channel
  collectable while it is in use; if it was matched, `channelclose` runs the loop
  until a callback that finds the coroutine dead, and never clears the handle.  This
  is the action `CloseHangs`: TLC violates `\A s \in States : run[s] # "hung"`.

Also met, with no document to compare with: `getsuspendedtask` locks a mutex of
the task after `uv_async_send`, when the task may have been notified, ended and
released.  The model keeps that memory.

### Proofs

`ChannelProofs.tla` proves the five safety properties, and that `Channel`
implements `Rendezvous`, for any finite sets of tasks and channels, any
distribution of channels among states and any number of threads, from
`ConstantsAssumption`.  None of the properties is inductive by itself.  That the
single field `expected` is right for all who wait depends on each waiter being
once in the queue; that a waiter is in one place depends on what every thread is
doing after it unlocked the channel; and that a task is given back once depends on
the callbacks it is yet to get.  The inductive invariant `Inv` is `TypeOK`,
`RefcountExact` and the conjunction of

* `QueueInv`: nobody is twice in the queue, and no two of those in it complement
  each other;
* `StepInv`: how far a thread is in `lcuCS_matchchsync` determines what it refers
  to, and it does nothing else meanwhile;
* `ChanInv`, `TaskInv`: a channel or a task that waits is in the queue, or with
  the one thread that matched it, or notified, and in only one of these places;
* `GotInv`: values are only with who was matched;
* `WakesExact` (the part of `TaskWakes` about the counter) and a bound of the
  threads of the pool that are busy, which `TypeOK` needs.

The counters are cardinalities (`Referenced`, `WakesCounted`, `LateMore`,
`LateLess`), and the queue is handled by lemmas about its three operations
(`DequeueQueue`, `EnqueueQueue`, `RemoveQueue`), which the actions share.
`Implements` has one more lemma for each operation (`EnqueueOffers`,
`DequeueMeets`, `RemoveWithdraws`): a critical section that enqueues is an offer, one
that dequeues is a meeting, the removal of a canceled one is a withdrawal, and the
steps made after the unlock are the end of a meeting or change nothing.

`Delivered` depends on fairness and is only model-checked.

## 6. Events, mutexes, promises and queued events

`LuaThreads.tla` is what modules 6 to 8 have in common: `co[c]` is what a
coroutine is suspended in, and `stack` the calls of the system thread that did
not return.  A function that resumes a coroutine (`emitall`, a callback) stays in
the stack, and goes on when that coroutine stops; meanwhile any Lua code may run,
resume others and call the same functions again.  Any coroutine that is suspended
may be resumed by the one that is executing, wherever it is suspended.

`Event.tla` has the circular lists of `event.lua` as they are: `tail` and `next`.
`emitall` takes the list out of `listof` first, so its frame of the stack keeps
it.  `EventUsers.tla` adds the three modules built on events.

| action | code |
|---|---|
| `Await` | `await`, `awaitany`, `awaitall`: add the coroutine to each list, and yield |
| `EmitOne`, `EmitAll`, `EmitNext`, `EmitReturns` | `emitone`, `emitall` and its loop, with `Deliver`: what the coroutine resumed with an event does |
| `CancelAwait`, `CloseAwait` | `coroutine.resume` of a coroutine that awaits (`cancel`), `coroutine.close` |
| `Lock`, `Unlock` | `mutex.lock`, one turn of its loop, and `mutex.unlock` |
| `PromiseAny`, `PromiseAll`, `Fulfill` | calls of a promise, `promise.awaitany`, `promise.awaitall`, the fulfillment function |
| `QueuedEmit`, `QueuedAny`, `QueuedAll` | `queued.emitone` and `emitall`; `await` and `awaitany`; `awaitall` |

Abstractions: values sent with events, and results of promises, are left out; the
queue of a value is the number of its events; a value is used with one of the
modules, but anyone may emit plain events on it; a coroutine that ends is replaced
by another one.  The order of the arguments of `awaitany` is not represented, so
any stored event may be consumed.

Run `event`: three coroutines, two plain events, one mutex, one promise and two
queued values with at most one stored event (`MaxStored`), with symmetry of the
coroutines.  Three coroutines give lists with a first, a middle and a last, and
one that emits to two others that await.  Deadlock is not checked: everyone may
await.

* `ListsHoldWaiters`: a coroutine is in exactly the lists of the events it still
  has to receive, counting the lists taken by `emitall`; one that does not await
  is in none.
* `LockHandedOver`: nobody waits for a free mutex, unless someone is about to
  take it, or an event of that mutex was given to a closed coroutine (`wasted`).
* `NoMissedEvent`: nobody awaits a fulfilled promise, or an event that is stored.
* `ImplementsQueues`: the lists are the queues of `EventQueues.tla`, which says
  what the manual says of the order of coroutines.

The case left out of `LockHandedOver` is a disagreement with the manual
(`doc/manual.md:451`), which says that `mutex.unlock` resumes one of the coroutines that
await the mutex.  A coroutine that was closed stays in the lists, so `emitone` gives
it the event and nobody gets it: the mutex is left free with coroutines waiting for
it.  TLC shows it with `LockHandedOver` without the condition on `wasted`.

Met while modelling, with no property against them:

* a queued event given to a coroutine that was closed is lost in the same way;
* `queued.awaitall` consumes stored events before it awaits the others, and they
  are lost if it is canceled;
* a plain event emitted on a promise that was not fulfilled satisfies
  `promise.awaitall`; a second call of the fulfillment function replaces the results;
* the manual names `queued.isqueued`, which the code calls `queued.queued`.

### Proofs

`EventUsersProofs.tla` and `EventQueuesProofs.tla` prove the five properties of the
run for any coroutines, any finite set of values and any bound of stored events,
from `UsersAssumption` (each kind of value is used with one module),
`EventsAssumption` and `CorosAssumption`.

`NoMissedEvent` needs only the domain of `listof` and the type of `stored`
(`Shape`), and one summary of a step, `Opens(E)`: only values of E get a list.
`emitone`, `emitall` and cancellations open none, however a coroutine is resumed;
`await` opens the events it awaits, which were checked not to have happened.

The other properties rest on the invariant `UsersInv`:

* `GoodLists`, `GoodCalls`: every list in `listof` is a ring, and so is every list
  taken by a call of `emitall` that has coroutines left.  `Ring` says that
  each coroutine of the list has one successor and one predecessor in it, and that
  no part of it is closed under `next`: this is what makes the removal of the
  first, of the last or of the only one right (`RemovedRing`);
* `StackInv`: the coroutines in the stack are running, and in it once;
* `ListsHoldWaiters` itself, coroutine by coroutine (`Holds`);
* for mutexes, `Locker` (a coroutine in the loop of `mutex.lock` executes or awaits
  the mutex, and nobody else awaits it), `TakenLock` (while `emitall` on a mutex has
  waiters left, the mutex has an owner, and the call is on top of the stack or under
  the coroutine it just resumed, still in `mutex.lock`; unless the event of
  an `unlock` was wasted) and `Handed`, which is `LockHandedOver` of one
  coroutine.  `TakenLock` is needed because any Lua code may call
  `event.emitall` on a mutex, and its waiters are then in no list of `listof`.

A step resumes or suspends one coroutine: `Resumed`, `Skipped` and `Stays` say what
the emission of an event, or a cancellation, does to that one and to the others.

`Implements` (`Spec => ImplementsQueues`) adds `OrderInv`: the coroutines of each
list are, in the order of `next` from the one after `tail`, a sequence without
repetitions (`Ordered`).  `QueueIs` proves that this sequence is the only one, hence
the `QueueOf` of the refinement mapping: two that differ would differ first at
some place, which is found with the well-foundedness of the naturals.
`OrderedAdd` and `OrderedRemove` are what `addthread` and `removethread` do to it, and
there is one lemma per operation (`AwaitStep`, `EmitOneStep`, `EmitNextStep`, ...).
In the mapping a call of `emitall` is known by its place in the stack, so
`EventQueues` only supposes that deeper calls have larger numbers.

## 7. Operations kept by objects

`UdataHandle.tla` is one object with a libuv handle (`lcu_UdataHandle`): `closed`,
`stop`, `data` and `saved` are the flag, the fields and the place in the registry;
`uv` and `active` are the handle in libuv and `held` whether Lua code refers to
the object.  `UdataRequest.tla` is one state coroutine.  `UdataOperation.tla` has
both in one Lua state, so that the callback of one runs Lua code that uses the
other.

| action | code |
|---|---|
| `Create` | `system.socket`, and the streams of `accept` |
| `Read`, `ReadError`, `ResetHandle`, `StopHandle` | `read`, `receive`: `lcuT_resetudhdlk`, `scheduleudhdlk`, `stopudhdl` |
| `Received`, `ReadFailed`, `EndOfStream`, `CallbackReturns` | `uv_onrecvdata` (with data, with an error, with UV_EOF), `uv_onudprecv`, with the end of `lcuU_resumeudhdl` |
| `HaltHandle` | `k_endudhdlk` of a coroutine that others resumed |
| `Close`, `CloseResumes`, `CloseReturns`, `Closed`, `Forget`, `Collect` | `lcu_closeudhdl` before and after the coroutine it resumes, `closedudhdl`, the collector |
| `Listen`, `AcceptCounted`, `AcceptAwaits`, `CountConnection`, `Connection` | `listen`, `accept`, `uv_onconnection`; the counter kept in the flags |
| `Write`, `Written`, `HaltWrite` | `write` and `shutdown`, with the request of the coroutine |
| `SystemResume`, `Working`, `Worked`, `WorkResumes`, `WorkDiscarded`, `RequestReturns` | `system.resume` and `k_setupwork`, `uv_onworking`, `uv_onworked`, `lcuU_resumeudreq` |
| `HaltRequest`, `CloseWaiter`, `CloseState` | `k_endudreq` of a coroutine that others resumed, `coroutine.close`, `coroutine_gc` of the state coroutine |

What Lua code may do is a parameter.  With `Reentrant` TRUE it may do anything in
the callbacks and in the `close` of the object: halt the operation of the object in
its own callback, use or close it when resumed by its `close`.  With `Reentrant` FALSE
it does neither.  With `Reclose` FALSE it does not drop a state coroutine that it
has just resumed again in its callback.

| run | Lua code | shows |
|---|---|---|
| `udata` | `Reentrant` and `Reclose` FALSE, fairness | the properties below |
| `udata_close` | `Reentrant` TRUE | a counterexample of `ClosesOpenHandle` |

Run `udata` has two coroutines, the three classes of objects and at most two
connections counted (`MaxConns`).  Two coroutines are enough to have one awaiting
while the other uses, closes or replaces it, in or out of a callback; an object has
one waiter.  `nactive` is wrong in a case below, each time by one more:
`MaxActive` bounds it.  The bound is above what two coroutines, one handle and one
work count, so that it only stops errors that pile up.  Deadlock is not checked:
everyone may await.  `DocumentedHandle`, `NoConnectionLost` and `TypeOK` hold with
`Reentrant` TRUE too, which is what is proved.

* `DocumentedHandle`: the columns "started" and "pending" of the table of
  `doc/devnotes.md` agree: between callbacks `stop` is defined exactly while a
  coroutine awaits, and libuv reads from no object but one whose `stop` is defined.
* `SavedWhileUsed`: the object is in the registry while libuv uses its memory, and
  not longer.
* `ActiveNotMissed`: `nactive` is not less than the number of started handles,
  requests and works.
* `NoConnectionLost`: the connection that libuv holds is counted, so the next
  `accept` gets it.
* `StateExclusive`: a state is never closed while another thread executes it or is
  about to.
* `ResumeServed`: who awaits a state coroutine is resumed.

Fairness (`FairSpec`): the loop runs and calls what is due (strong, since other
callbacks come first, but libuv takes all that is ready in each iteration), the
threads of libuv work, and coroutines do not execute forever.  Nothing is assumed
of data and connections that come from outside.

### Disagreements met

* `ClosesOpenHandle` (`test/stream.lua:28`): `lcu_closeudhdl` resumes the coroutine
  that awaits before it marks the object as closed; if that coroutine closes it, the
  handle is closed twice.
* `loperaux.c:18` says that `nactive` is the "number of all active handles".  A read
  called in the callback of the end of the stream counts the handle for the second
  time (`lcommunf.c:1198`), and it stays counted, so `system.run` of a task no longer
  suspends it as `doc/manual.md:569-571` says.  TLC violates
  `Idle => nactive <= Started`, the converse of `ActiveNotMissed`, on the instance of
  `udata`.
* The same comment, in the other direction: an operation halted inside the callback
  of the same object is stopped twice, and `nactive` decremented twice.  TLC violates
  `ActiveNotMissed` when `Reentrant` is TRUE.
* The table of `doc/devnotes.md:456` says that the callback of the handle is pending
  while a coroutine awaits.  After a read error other than the end of stream libuv
  stops reading, and `stop` is left defined (`ReadFailed`, `CallbackReturns`); a
  coroutine that reads again in that callback awaits in a handle that nobody reads
  from.  TLC violates `Idle /\ data # None => active` on the instance of `udata`.
  This is why `DocumentedHandle` says `active => stop`, and not the converse.

Also met, with no property against them:

* `coroutine.close` on a coroutine that awaits in a handle leaves `data` referring
  to it (not modelled: its memory may be collected);
* a failed connection is counted as a connection, and `accept` gets an error;
* a state coroutine resumed again in its own callback and then dropped is closed
  by the end of that callback while a thread executes it (`Reclose`).

### Proofs

`UdataOperationProofs.tla` proves five properties, from `HandleAssumption` and
`CorosAssumption`, for any coroutines and bounds:

* `TypeOK`, with Lua code that does anything (`Reentrant` and `Reclose` of any
  value);
* `NoConnectionLost`, the same, strengthened with `Connections`: only a passive object
  that was put to listen counts connections;
* `DocumentedHandle`, the same, from `DocInv`: `CorosInv` (a coroutine is once in the
  stack, and is running) and `AwaitInv`, which adds to the property what holds inside
  the callbacks of the object, where `stop` may be defined though nobody awaits.
  `InCallbackHas` and the lemmas on the stack say that this is so only until the
  last of those callbacks returns, however they are nested;
* `StateExclusive`, if `Reclose` is FALSE, strengthened with `Exclusive`: in the
  callback of a request, a state that was resumed again is not marked to be freed.
  That needs to know which steps put a callback in the stack: `Calls(S)` says that
  a step calls no C function but those of S, and there is a lemma for each way
  that coroutines enter and leave the stack;
* `SavedWhileUsed`, if `Reentrant` is FALSE, from `UdataInv`: `StackInv` (a coroutine
  is once in the stack, and at most one C function of the object is in it) and
  `HandleInv` (where the object is in the registry, also while a callback or a
  `close` of the object is in the stack).

`ActiveNotMissed` and `ResumeServed` are only model-checked.

## 8. Files

`FileObject.tla` has files as objects with a descriptor (`desc`), the descriptors
of the system (`os`, which gives those that were closed to other files) and the
request of each coroutine.  A request has the descriptor its file had at the
setup.  Threads of libuv execute requests in any order (`Work`), and the callback
comes later (`Completed`, `TempCompleted`, `NextSource`, `Discarded`, `Deferred`).

| action | code |
|---|---|
| `OpenFile`, `OpenBlocking`, `MakeTemp` | `system.openfile`, `system.maketemp` |
| `ReadOrWrite`, `InfoOrTouch` | `file:read`, `write`, `resize`, `flush`, `info`, `touch`, `own`, `grant` |
| `CloseFile`, `CloseBlocking`, `Collect`, `CollectClosed` | `file:close`, also without yielding and as `__close`; `file_gc` |
| `FileInfo`, `TouchFile`, `LinkFile`, `MakeDir` | operations on paths |
| `Halt`, `HaltDeferred` | `coroutine.resume` of a coroutine that awaits: `uv_cancel` |

The contents of files, and which operation on an open file is made, are left out.
`coroutine.close` of a coroutine that awaits a request is in `CoOperation`.

A write may have another file as the source of its data; its descriptor is in the
request too (`srcfd`) and, as in the code, is not checked.  A close in the calling
thread may fail: the object keeps its number, while the system frees it (as Linux
does on EIO).  `failed` is a history variable that says if that happened.

| run | shows |
|---|---|
| `file` | `TypeOK`, `DescriptorsOwned`, `UsesOwnFile`, `LostByCanceled` |
| `file_close` | a counterexample of `OneOwner` |

The instances have two coroutines, two files and two descriptors, with symmetry.
Objects that are collected leave their place to new ones, and executions are not
bounded: a descriptor is reused while a request with it is pending, files are
opened when there is none left, and one file is written to another or to itself.
Deadlock is checked: there is always something to do.

* `DescriptorsOwned`: until a close in the calling thread fails, a descriptor is
  closed once, by the only one that has it, and an object has the descriptor of its
  own file.
* `UsesOwnFile`: until then, who awaits an operation uses that file, and the source of
  a write too, as long as the program does not close it meanwhile.
* `LostByCanceled`, an action property with no condition: a step that leaves an open
  descriptor to nobody is the cancellation of a request to close it, or the callback
  of a canceled request that opened it.

### Disagreements met

* `OneOwner` (`doc/manual.md:1348`, files are closed when they are collected, and
  `test/file.lua:653`, a closed file is not closed again): after a close in the calling
  thread that fails, two files may have the same descriptor, and the second close of
  one, or its collection, closes the other.  This is why the first two properties
  have the condition `~failed`.  With that condition `OneOwner` is violated too: a
  canceled `system.openfile` or `system.maketemp` leaves its descriptor open, and a
  canceled `file:close` never closes it.  `LostByCanceled` says that there is no other
  way to lose one.
* `doc/manual.md:1383` says that the data of a write may be "a file opened for
  reading".  `callwrite` uses the number of the source without `openedfile`, so it is
  -1 if the source was closed: TLC finds requests with `src # None` and
  `srcfd = None`.

Also met: a request that waits for a thread while the program closes its file runs
on whatever file gets the descriptor next, which `UsesOwnFile` excludes; the buffer of
a read that was canceled may be collected while a thread reads into it.

### Proofs

`FileObjectProofs.tla` proves the four properties of the run `file` for any coroutines,
files and descriptors, from `FilesAssumption` and `CorosAssumption`.  The inductive
invariant is `Inv`: `Core`, and `Held` if no close in the calling thread failed.  `Core` is
the conjunction of

* `Types`, the types of the state;
* `Objects`: an object has a descriptor exactly while it is open;
* `Fresh`: the object that a request will open is not open, and no other request will
  open it;
* `ReqsOK`: an open that was not done has no descriptor;

and `Held` of

* `HeldByReqs`, `HeldByFiles`: a descriptor is in the object it was opened for, or in
  the one request that opened it or will close it;
* `Awaiting`: the objects of an awaited request still have the descriptors of the
  request, unless the program closed them;

with `Pending`, by itself: a coroutine in `k_resetopk` has something to request.
The lemmas are one per effect on the state (`SetupKeeps`, `ReleaseKeeps`,
`StageKeeps`, `CloseStageKeeps`, `OpenKeeps`, `CompletedKeeps`, ...), which the
actions share.  `LostByCanceled` follows from `Core` and `Pending`, by the same cases
(`SetupLoses`, `ReleaseLoses`, ...): `KeepsOwners` is for the steps after which every
owner is still one.

## 9. What is proved

| module | theorems | from | inductive invariant |
|---|---|---|---|
| `ThreadPoolProofs` | the seven properties of `pool_safety` | `ConstantsAssumption` | `IInv` |
| `CoOperationProofs` | the five properties of `op_safety` | `ConstantsAssumption` | `Inv` |
| `ChannelProofs` | the five invariants of `chan_safety`, and `ImplementsRendezvous` | `ConstantsAssumption` | `Inv` |
| `UdataOperationProofs` | the invariants of `udata` but `ActiveNotMissed` | `HandleAssumption`, `CorosAssumption`; `~Reclose` for `StateExclusive`, `~Reentrant` for `SavedWhileUsed` | `Connections`, `Exclusive`, `DocInv`, `UdataInv` |
| `EventUsersProofs` | the four invariants of `event` | `UsersAssumption`, `EventsAssumption`, `CorosAssumption` | `UsersInv`, `Shape` |
| `EventQueuesProofs` | `ImplementsQueues` | the same | `UsersInv` and `OrderInv` |
| `FileObjectProofs` | the four properties of `file` | `FilesAssumption`, `CorosAssumption` | `Inv` |

Only model-checked: the liveness properties (`CloseCompletes`, `PendingServed`,
`ClosedReleased`, `ResetServed`, `Released`, `Delivered`, `ResumeServed`), which depend
on fairness and so on `ENABLED`, and `ActiveNotMissed`, a count of three sorts of
operations.  The properties of the runs that expect a violation are false of the code.

## 10. Not modelled

* `connect`, and the `write` of datagrams: libuv accepts their setup on a handle
  that was closed while the coroutine waited, and what follows is not defined by
  this repository.
* Addresses, name resolution, options of sockets and terminals: data and calls that
  do not outlive them.  `pipe:read` that receives a handle, which creates
  another object.
* `system.listdir`: an object with a request that is resumed once; its iteration
  reads a result that is already complete.
* `k_resetudreqk`: a request of an object is never awaited to be free by the
  functions of `lcoroutm.c`.
* `spawn.lua` (no state), `lstdiof.c` (opens the standard streams once),
  `linfof.c` (reads values of the system), `lmodaux.c` and buffers (arguments and
  results).
* Memory errors, and the closing of the main state while operations are pending.
