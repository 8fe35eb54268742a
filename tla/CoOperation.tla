---------------------------- MODULE CoOperation ----------------------------
(***************************************************************************)
(* Operations of coroutines and the loop of system.run (src/loperaux.c,    *)
(* src/lscheduf.c; used by ltimef.c, lprocesf.c, lchannem.c, lcommunf.c,   *)
(* lfilef.c and linfof.c).                                                 *)
(*                                                                         *)
(* Each coroutine that calls an await function has one lcu_Operation, a    *)
(* union of a libuv request and a libuv handle.  The coroutine is resumed  *)
(* by the callback of libuv, but any Lua code can resume it before, and it *)
(* may then call another await function while libuv still refers to the    *)
(* operation.  All this happens in one system thread; only the events that *)
(* make a callback due come from elsewhere.                                *)
(***************************************************************************)
EXTENDS Integers, FiniteSets

CONSTANTS
  Threads,           \* coroutines of the Lua state
  Kinds,             \* kinds of operations they start
  InTask,            \* is it the state of a task of a thread pool?
  Main, Loop, None   \* the main chunk, the code of system.run, nobody

Handles == {"idle", "timer", "signal", "process", "async"}

ASSUME ConstantsAssumption ==
  /\ IsFiniteSet(Threads)
  /\ Kinds \subseteq Handles \cup {"request"}
  /\ InTask \in BOOLEAN
  /\ Main \notin Threads /\ Loop \notin Threads /\ None \notin Threads
  /\ Main # Loop /\ Main # None /\ Loop # None

VARIABLES
  op,        \* lcu_Operation of each coroutine
  want,      \* the await function whose 'results', 'cancel' and 'setup' it has
  saved,     \* coroutines in the registry, which are not collected
  nasync, nactive,  \* counters of lcu_Scheduler
  expected,  \* coroutines whose event was not triggered yet: the state of an
             \* awaitch is in the queue of its channel, a process is running
  due,       \* coroutines whose event was triggered, and not yet handled
  kf,        \* what each coroutine is executing, or is suspended at
  current,   \* who is executing
  resumer,   \* who resumed each coroutine, and who called system.run
  phase,     \* phase of the iteration of the loop
  once,      \* is it called with mode "step" or "ready"?
  stop,      \* was uv_stop called?
  token,     \* is there an userdata in the stack of k_resumeall?
  cb,        \* the callback that resumed a coroutine
  fired      \* callbacks already called in this phase

opVars   == <<op, want, saved, nasync, nactive>>
evVars   == <<expected, due>>
luaVars  == <<kf, current, resumer>>
loopVars == <<phase, once, stop, token, cb, fired>>
vars     == <<opVars, evVars, luaVars, loopVars>>

-----------------------------------------------------------------------------
(* FLAG_REQUEST, FLAG_THRSAVED, FLAG_PENDING and FLAG_CLEANUP are fields R, *)
(* S, P and C; a request that is not in use has type UV_UNKNOWN_REQ.       *)
OpType ==
  [R: BOOLEAN, S: BOOLEAN, P: BOOLEAN, C: BOOLEAN, closing: BOOLEAN,
   type: Handles \cup {"request", "unknown"}]

(* A coroutine is suspended by other Lua code ("normal"), in k_endop or in *)
(* k_resetopk; or it is executing Lua code or the setup of an operation.   *)
Suspended == {"normal", "endop", "reset"}
Executing == {"running", "setup"}

Phases == {"off", "timers", "idle", "poll", "closing", "yielded"}

NoCallback == [kind |-> "none", thread |-> None]

TypeOK ==
  /\ op \in [Threads -> OpType]
  /\ want \in [Threads -> Kinds \cup {"none"}]
  /\ saved \subseteq Threads
  /\ nasync \in Nat /\ nactive \in Nat
  /\ expected \subseteq Threads /\ due \subseteq Threads
  /\ kf \in [Threads -> Suspended \cup Executing \cup {"dead"}]
  /\ current \in Threads \cup {Main, Loop}
  /\ resumer \in [Threads \cup {Loop} -> Threads \cup {Main, Loop, None}]
  /\ phase \in Phases
  /\ {once, stop, token} \subseteq BOOLEAN
  /\ cb \in [kind: {"none", "req", "hdl"}, thread: Threads \cup {None}]
  /\ fired \subseteq Threads

Init ==
  /\ op = [c \in Threads |-> [R |-> TRUE, S |-> FALSE, P |-> FALSE, C |-> FALSE,
                              closing |-> FALSE, type |-> "unknown"]]
  /\ want = [c \in Threads |-> "none"]
  /\ saved = {} /\ nasync = 0 /\ nactive = 0
  /\ expected = {} /\ due = {}
  /\ kf = [c \in Threads |-> "normal"]
  /\ current = Main
  /\ resumer = [x \in Threads \cup {Loop} |-> None]
  /\ phase = "off" /\ once = FALSE /\ stop = FALSE /\ token = FALSE
  /\ cb = NoCallback /\ fired = {}

-----------------------------------------------------------------------------
(* Operations on lcu_Operation. *)

(* The handle is one that uv_close was not called for. *)
Open(o) == ~o.R /\ ~o.closing

(* The callbacks that libuv may call for the operation of c. *)
RequestCallback(c) == op[c].R /\ op[c].type = "request"
HandleCallback(c)  == Open(op[c])
CloseCallback(c)   == ~op[c].R /\ op[c].closing

(* cancelop: uv_cancel never prevents the callback of a request, it only   *)
(* hastens it; a handle is closed.                                         *)
CancelOp(o) == IF Open(o) THEN [o EXCEPT !.closing = TRUE] ELSE o

(* Mutant: a handle already being closed is counted again. *)
AsyncClosed_Again(o) == IF ~o.R /\ o.type = "async" THEN 1 ELSE 0

(* What closehdl subtracts from nasync. *)
AsyncClosed(o) == IF Open(o) /\ o.type = "async" THEN 1 ELSE 0

(* The operation of c becomes o, and is canceled.  A process that is no    *)
(* longer watched does not trigger its event.                              *)
Canceled(c, o) ==
  /\ op' = [op EXCEPT ![c] = CancelOp(o)]
  /\ nasync' = nasync - AsyncClosed(o)
  /\ expected' = IF o.type = "process" THEN expected \ {c} ELSE expected
  /\ due' = IF o.type = "process" THEN due \ {c} ELSE due

ShallSuspend(na, nc) == na > 0 /\ na = nc

(* lcuU_checksuspend: stop the loop of a task when the only operations are *)
(* calls of awaitch.                                                       *)
CheckSuspend ==
  LET halt == InTask /\ ShallSuspend(nasync', nactive')
  IN  stop' = (stop \/ halt) /\ token' = (token \/ halt)

(* Coroutine c starts executing k, resumed by x; it stops executing at k.  *)
Enter(c, k, x) ==
  /\ kf' = [kf EXCEPT ![c] = k]
  /\ current' = c
  /\ resumer' = [resumer EXCEPT ![c] = x]

Exit(c, k) ==
  /\ kf' = [kf EXCEPT ![c] = k]
  /\ current' = resumer[c]
  /\ resumer' = [resumer EXCEPT ![c] = None]

-----------------------------------------------------------------------------
(* Lua code: of the main chunk, or of the coroutine being executed. *)
Lua == current = Main \/ (current \in Threads /\ kf[current] = "running")

(* Mutant: the cancel function is not called. *)
EndOpHalted_NoCancel(c) == Canceled(c, [op[c] EXCEPT !.P = FALSE])

(* Mutant: cancelop is not called. *)
EndOpHalted_Kept(c) ==
  /\ op' = [op EXCEPT ![c].P = FALSE]
  /\ UNCHANGED <<nasync, expected, due>>

(* k_endop when the coroutine was not resumed by the scheduler.  The only  *)
(* cancel function is cancelsynced, which fails to remove from the channel *)
(* a state that was already matched.                                       *)
EndOpHalted(c) ==
  LET o == [op[c] EXCEPT !.P = FALSE]
  IN  \/ /\ want[c] = "async" /\ c \notin expected
         /\ op' = [op EXCEPT ![c] = [o EXCEPT !.C = TRUE]]
         /\ UNCHANGED <<nasync, expected, due>>
      \/ /\ want[c] = "async" /\ c \in expected
         /\ op' = [op EXCEPT ![c] = CancelOp(o)]
         /\ nasync' = nasync - AsyncClosed(o)
         /\ expected' = expected \ {c} /\ UNCHANGED due
      \/ /\ want[c] # "async"
         /\ Canceled(c, o)

(* coroutine.resume(c), which cancels the operation c awaits. *)
Resume(c) ==
  /\ Lua
  /\ kf[c] \in Suspended
  /\ \/ /\ kf[c] = "normal"
        /\ UNCHANGED <<op, nasync, expected, due>>
     \/ /\ kf[c] = "reset"
        /\ op' = [op EXCEPT ![c].P = FALSE]
        /\ UNCHANGED <<nasync, expected, due>>
     \/ /\ kf[c] = "endop"
        /\ EndOpHalted(c)
  /\ Enter(c, "running", current)
  /\ UNCHANGED <<want, saved, nactive, loopVars>>

(* coroutine.close(c), which the operation of c is not aware of. *)
CloseCo(c) ==
  /\ Lua
  /\ kf[c] \in Suspended
  /\ kf' = [kf EXCEPT ![c] = "dead"]
  /\ UNCHANGED <<opVars, evVars, current, resumer, loopVars>>

(* coroutine.yield, and the end of the function of the coroutine. *)
Yield(c) ==
  /\ current = c /\ kf[c] = "running"
  /\ Exit(c, "normal")
  /\ UNCHANGED <<opVars, evVars, loopVars>>

Finish(c) ==
  /\ current = c /\ kf[c] = "running"
  /\ Exit(c, "dead")
  /\ UNCHANGED <<opVars, evVars, loopVars>>

(* Mutant: the type of the handle is not compared. *)
SameOp_AnyType(o, k) == Open(o) /\ ~o.C /\ k \in Handles \ {"process"}

(* checkreset: the operation is free, is a handle of the same type that    *)
(* can go on being used, or has to be waited for.                          *)
FreeOp(o) == o.R /\ o.type = "unknown"
SameOp(o, k) == Open(o) /\ ~o.C /\ o.type = k /\ k # "process"
WaitOp(o, k) == ~FreeOp(o) /\ ~SameOp(o, k)

(* Mutant: checkreset does not close the handle. *)
Await_NotClosed(c, k) ==
  LET o == op[c]
  IN  /\ current = c /\ kf[c] = "running"
      /\ want' = [want EXCEPT ![c] = k]
      /\ \/ /\ FreeOp(o) \/ SameOp(o, k)
            /\ kf' = [kf EXCEPT ![c] = "setup"]
            /\ UNCHANGED <<op, current, resumer>>
         \/ /\ WaitOp(o, k)
            /\ op' = [op EXCEPT ![c].P = TRUE]
            /\ Exit(c, "reset")
      /\ UNCHANGED <<saved, nasync, nactive, evVars, loopVars>>

(* lcuT_resetcoreqk and lcuT_resetcohdlk. *)
Await(c, k) ==
  LET o == op[c]
  IN  /\ current = c /\ kf[c] = "running"
      /\ want' = [want EXCEPT ![c] = k]
      /\ \/ /\ FreeOp(o) \/ SameOp(o, k)
            /\ kf' = [kf EXCEPT ![c] = "setup"]
            /\ UNCHANGED <<op, nasync, expected, due, current, resumer>>
         \/ /\ WaitOp(o, k)
            /\ IF o.C THEN /\ op' = [op EXCEPT ![c].P = TRUE]
                           /\ UNCHANGED <<nasync, expected, due>>
                      ELSE Canceled(c, [o EXCEPT !.P = TRUE])
            /\ Exit(c, "reset")
      /\ UNCHANGED <<saved, nactive, loopVars>>

-----------------------------------------------------------------------------
(* The setup function of an operation, followed by startedopk. *)
SettingUp(c) == current = c /\ kf[c] = "setup"

(* lcuT_armcoreq and lcuT_armcohdl after libuv accepts the request or      *)
(* initializes the handle: the thread is saved, unless it already is.      *)
Armed(o, k) ==
  IF k = "request"
  THEN [o EXCEPT !.type = k, !.S = TRUE]
  ELSE [o EXCEPT !.type = k, !.R = FALSE, !.S = FALSE]

Arm(c, k) ==
  /\ saved' = IF op[c].S THEN saved ELSE saved \cup {c}
  /\ nactive' = nactive + 1
  /\ nasync' = IF k = "async" THEN nasync + 1 ELSE nasync

(* The setup succeeds, and the coroutine awaits the callback.  A handle    *)
(* that is reused is not armed again.                                      *)
SetupYield(c) ==
  LET k == want[c]
  IN  /\ SettingUp(c)
      /\ \/ /\ FreeOp(op[c])
            /\ op' = [op EXCEPT ![c] = [Armed(op[c], k) EXCEPT !.P = TRUE]]
            /\ Arm(c, k)
         \/ /\ ~FreeOp(op[c])
            /\ op' = [op EXCEPT ![c].P = TRUE]
            /\ UNCHANGED <<saved, nasync, nactive>>
      /\ expected' = IF k \in {"async", "process"} THEN expected \cup {c}
                     ELSE expected
      /\ Exit(c, "endop")
      /\ UNCHANGED <<want, due, loopVars>>

(* It fails before arming the operation, or it finds the channel already   *)
(* matched: a handle that would be reused is closed.                       *)
SetupReturn(c) ==
  /\ SettingUp(c)
  /\ Canceled(c, op[c])
  /\ kf' = [kf EXCEPT ![c] = "running"]
  /\ UNCHANGED <<want, saved, nactive, current, resumer, loopVars>>

(* It fails to start the handle that it armed (uv_spawn, uv_signal_start). *)
SetupFails(c) ==
  LET k == want[c]
  IN  /\ SettingUp(c)
      /\ k \in {"process", "signal"} /\ FreeOp(op[c])
      /\ op' = [op EXCEPT ![c] = CancelOp(Armed(op[c], k))]
      /\ Arm(c, k)
      /\ kf' = [kf EXCEPT ![c] = "running"]
      /\ UNCHANGED <<want, evVars, current, resumer, loopVars>>

(* It raises a Lua error (an invalid argument, a channel in use) that the  *)
(* code of the coroutine catches.                                          *)
SetupError(c) ==
  /\ SettingUp(c)
  /\ kf' = [kf EXCEPT ![c] = "running"]
  /\ UNCHANGED <<opVars, evVars, current, resumer, loopVars>>

-----------------------------------------------------------------------------
(* system.run and system.halt. *)

(* The run of the main chunk of a task yields the task, instead of blocking*)
(* its system thread.                                                      *)
Yieldable == InTask /\ resumer[Loop] = Main /\ ~once

Run(m) ==
  /\ Lua
  /\ phase = "off"
  /\ once' = m
  /\ resumer' = [resumer EXCEPT ![Loop] = current]
  /\ current' = Loop
  /\ phase' = IF InTask /\ current = Main /\ ~m /\ ShallSuspend(nasync, nactive)
              THEN "yielded" ELSE "timers"
  /\ fired' = {}
  /\ UNCHANGED <<opVars, evVars, kf, stop, token, cb>>

Halt ==
  /\ Lua
  /\ phase # "off"
  /\ stop' = TRUE
  /\ UNCHANGED <<opVars, evVars, luaVars, phase, once, token, cb, fired>>

Looping == current = Loop /\ cb.kind = "none"

(* uv_run goes to the next phase of its iteration; there is always another *)
(* one while there are operations and it is not stopped.  The handles      *)
(* closed in an iteration are all the ones that were closing before.       *)
NextPhase ==
  /\ Looping
  /\ phase' = CASE phase = "timers" -> "idle"
                [] phase = "idle" -> "poll"
                [] phase = "poll" -> "closing"
                [] phase = "closing" -> "timers"
                [] OTHER -> phase
  /\ phase \in {"timers", "idle", "poll", "closing"}
  /\ phase = "closing" => fired = Threads /\ nactive > 0 /\ ~stop /\ ~once
  /\ fired' = IF phase = "poll" THEN {c \in Threads : ~CloseCallback(c)} ELSE {}
  /\ UNCHANGED <<opVars, evVars, luaVars, once, stop, token, cb>>

(* uv_run returns to k_resumeall, or to lcuM_run. *)
RunReturns ==
  /\ Looping
  /\ phase = "closing" /\ fired = Threads
  /\ nactive = 0 \/ stop \/ once
  /\ stop' = FALSE /\ token' = FALSE /\ fired' = {}
  /\ \/ /\ Yieldable /\ nactive > 0 /\ token
        /\ phase' = "yielded"
        /\ UNCHANGED <<current, resumer, once>>
     \/ /\ ~(Yieldable /\ nactive > 0 /\ token)
        /\ phase' = "off"
        /\ current' = resumer[Loop]
        /\ resumer' = [resumer EXCEPT ![Loop] = None]
        /\ once' = FALSE
  /\ UNCHANGED <<opVars, evVars, kf, cb>>

(* The pool resumes the task when an awaitch is matched. *)
TaskResumed ==
  /\ phase = "yielded"
  /\ \E c \in due : op[c].type = "async"
  /\ phase' = "timers"
  /\ UNCHANGED <<opVars, evVars, luaVars, once, stop, token, cb, fired>>

(* Another system thread matches a channel, or a process ends. *)
Trigger(c) ==
  /\ c \in expected
  /\ expected' = expected \ {c}
  /\ due' = due \cup {c}
  /\ UNCHANGED <<opVars, luaVars, loopVars>>

-----------------------------------------------------------------------------
(* Callbacks of libuv. *)
Ready(c, p) == Looping /\ phase = p /\ c \notin fired

(* resumethread: continue k_endop, or k_resetopk.  A coroutine that was    *)
(* closed is not executed.                                                 *)
ResumeThread(c, kind) ==
  /\ \/ kf[c] = "endop" /\ Enter(c, "running", Loop)
     \/ kf[c] = "reset" /\ Enter(c, "setup", Loop)
     \/ kf[c] = "dead" /\ UNCHANGED luaVars
  /\ cb' = [kind |-> kind, thread |-> c]
  /\ UNCHANGED <<stop, token>>

Resumed(o, c) == IF kf[c] = "dead" THEN o ELSE [o EXCEPT !.P = FALSE]

(* lcuU_endcoreq, by the callback of a request, followed by resumecoreq.   *)
RequestDone(c) ==
  LET o == [op[c] EXCEPT !.type = "unknown"]
  IN  /\ Ready(c, "poll")
      /\ RequestCallback(c)
      /\ fired' = fired \cup {c}
      /\ nactive' = nactive - 1
      /\ \/ /\ o.P
            /\ op' = [op EXCEPT ![c] = Resumed(o, c)]
            /\ ResumeThread(c, "req")
            /\ UNCHANGED <<saved, nasync>>
         \/ /\ ~o.P
            /\ op' = [op EXCEPT ![c] = [o EXCEPT !.S = FALSE, !.C = FALSE]]
            /\ saved' = saved \ {c}
            /\ UNCHANGED <<nasync, luaVars, cb>>
            /\ CheckSuspend
      /\ UNCHANGED <<want, evVars, phase, once>>

(* Mutant: nactive is only decremented when the thread is released. *)
Closed_Counted(c) ==
  LET o == [op[c] EXCEPT !.R = TRUE, !.S = TRUE, !.closing = FALSE,
                         !.type = "unknown"]
  IN  /\ Ready(c, "closing")
      /\ CloseCallback(c)
      /\ fired' = fired \cup {c}
      /\ \/ /\ o.P
            /\ op' = [op EXCEPT ![c] = Resumed(o, c)]
            /\ ResumeThread(c, "req")
            /\ UNCHANGED <<saved, nactive>>
         \/ /\ ~o.P
            /\ op' = [op EXCEPT ![c] = [o EXCEPT !.S = FALSE]]
            /\ saved' = saved \ {c}
            /\ nactive' = nactive - 1
            /\ UNCHANGED <<luaVars, stop, token, cb>>
      /\ UNCHANGED <<want, nasync, evVars, phase, once>>

(* closedhdl: the operation becomes a free request. *)
Closed(c) ==
  LET o == [op[c] EXCEPT !.R = TRUE, !.S = TRUE, !.closing = FALSE,
                         !.type = "unknown"]
  IN  /\ Ready(c, "closing")
      /\ CloseCallback(c)
      /\ fired' = fired \cup {c}
      /\ nactive' = nactive - 1
      /\ \/ /\ o.P
            /\ op' = [op EXCEPT ![c] = Resumed(o, c)]
            /\ ResumeThread(c, "req")
            /\ UNCHANGED saved
         \/ /\ ~o.P
            /\ op' = [op EXCEPT ![c] = [o EXCEPT !.S = FALSE]]
            /\ saved' = saved \ {c}
            /\ UNCHANGED <<luaVars, stop, token, cb>>
      /\ UNCHANGED <<want, nasync, evVars, phase, once>>

PhaseOf(k) == CASE k = "timer" -> "timers" [] k = "idle" -> "idle" [] OTHER -> "poll"

(* Callbacks uv_ontimer, uv_onidle, uv_onsignal and uv_procexited.  *)
HandleReady(c) ==
  LET o == op[c]
  IN  /\ Open(o) /\ o.type # "async"
      /\ Ready(c, PhaseOf(o.type))
      /\ o.type = "process" => c \in due
      /\ fired' = fired \cup {c}
      /\ due' = due \ {c}
      /\ op' = [op EXCEPT ![c] = Resumed(o, c)]
      /\ ResumeThread(c, "hdl")
      /\ UNCHANGED <<want, saved, nasync, nactive, expected, phase, once>>

(* uv_onsynced, with lcuU_endcohdl. *)
Synced(c) ==
  LET o == op[c]
  IN  /\ Open(o) /\ o.type = "async"
      /\ Ready(c, "poll")
      /\ c \in due
      /\ fired' = fired \cup {c}
      /\ due' = due \ {c}
      /\ \/ /\ o.P /\ ~o.C
            /\ op' = [op EXCEPT ![c] = Resumed(o, c)]
            /\ ResumeThread(c, "hdl")
            /\ UNCHANGED <<nasync, nactive>>
         \/ /\ ~o.P \/ o.C
            /\ op' = [op EXCEPT ![c] = CancelOp([o EXCEPT !.C = FALSE])]
            /\ nasync' = nasync - AsyncClosed(o)
            /\ UNCHANGED <<nactive, luaVars, cb>>
            /\ CheckSuspend
      /\ UNCHANGED <<want, saved, expected, phase, once>>

(* The resumed coroutine is suspended again: the end of lcuU_resumecoreq   *)
(* or of lcuU_resumecohdl.                                                 *)
ReqResumed(c) ==
  /\ current = Loop
  /\ cb = [kind |-> "req", thread |-> c]
  /\ \/ /\ FreeOp(op[c])
        /\ op' = [op EXCEPT ![c].S = FALSE]
        /\ saved' = saved \ {c}
     \/ /\ ~FreeOp(op[c])
        /\ UNCHANGED <<op, saved>>
  /\ cb' = NoCallback
  /\ UNCHANGED <<nasync, nactive>>
  /\ CheckSuspend
  /\ UNCHANGED <<want, evVars, luaVars, phase, once, fired>>

(* Mutant: a handle that is no longer awaited is not canceled. *)
HdlResumed_Kept(c) ==
  /\ current = Loop
  /\ cb = [kind |-> "hdl", thread |-> c]
  /\ cb' = NoCallback
  /\ UNCHANGED <<op, nasync, nactive>>
  /\ CheckSuspend
  /\ UNCHANGED <<want, saved, evVars, luaVars, phase, once, fired>>

HdlResumed(c) ==
  /\ current = Loop
  /\ cb = [kind |-> "hdl", thread |-> c]
  /\ \/ /\ ~op[c].P /\ ~op[c].C
        /\ Canceled(c, op[c])
     \/ /\ op[c].P \/ op[c].C
        /\ UNCHANGED <<op, nasync, expected, due>>
  /\ cb' = NoCallback
  /\ UNCHANGED nactive
  /\ CheckSuspend
  /\ UNCHANGED <<want, saved, luaVars, phase, once, fired>>

-----------------------------------------------------------------------------
LuaStep(c) == Resume(c) \/ CloseCo(c) \/ \E k \in Kinds : Await(c, k)
LuaEnds(c) == Yield(c) \/ Finish(c)
SetupStep(c) ==
  SetupYield(c) \/ SetupReturn(c) \/ SetupFails(c) \/ SetupError(c)
CallbackEnds(c) == ReqResumed(c) \/ HdlResumed(c)
LoopStep == NextPhase \/ RunReturns

Next ==
  \/ \E c \in Threads : LuaStep(c)
  \/ \E c \in Threads : LuaEnds(c)
  \/ \E c \in Threads : SetupStep(c)
  \/ \E m \in BOOLEAN : Run(m)
  \/ Halt
  \/ LoopStep
  \/ TaskResumed
  \/ \E c \in Threads : Trigger(c)
  \/ \E c \in Threads : RequestDone(c)
  \/ \E c \in Threads : Closed(c)
  \/ \E c \in Threads : HandleReady(c)
  \/ \E c \in Threads : Synced(c)
  \/ \E c \in Threads : CallbackEnds(c)

Spec == Init /\ [][Next]_vars

(* The loop goes on, libuv calls the callbacks of requests, of triggered   *)
(* events and of closed handles, and Lua code does not execute forever.    *)
FairSpec ==
  /\ Spec
  /\ WF_vars(LoopStep)
  /\ \A c \in Threads :
       /\ WF_vars(CallbackEnds(c)) /\ WF_vars(SetupStep(c)) /\ WF_vars(Closed(c))
       /\ SF_vars(LuaEnds(c))
       /\ SF_vars(RequestDone(c)) /\ SF_vars(Synced(c))

-----------------------------------------------------------------------------
(* Safety.  libuv refers to the operation unless it is free. *)
Flags(o) == <<o.R, o.S, o.P, o.C>>
InCallback(c, kind) == cb = [kind |-> kind, thread |-> c]

(* The states of an operation are the ones of the table 'Coroutine         *)
(* Operation' of doc/devnotes.md: flags, function that continues the       *)
(* coroutine (other than k_endop and k_resetopk only when it is not        *)
(* pending) and callback to be called.  A coroutine closed while awaiting  *)
(* is not in the table.                                                    *)
DocumentedState(c) ==
  LET o == op[c]
      idle == kf[c] \notin {"endop", "reset"}
      is(r, s, p, x) == Flags(o) = <<r, s, p, x>>
  IN  \/ is(TRUE, FALSE, FALSE, FALSE) /\ idle /\ FreeOp(o)
      \/ is(TRUE, TRUE, TRUE, FALSE) /\ kf[c] = "endop" /\ RequestCallback(c)
      \/ is(TRUE, TRUE, FALSE, FALSE) /\ idle /\ FreeOp(o) /\ InCallback(c, "req")
      \/ is(TRUE, TRUE, FALSE, FALSE) /\ idle /\ RequestCallback(c)
      \/ is(TRUE, TRUE, TRUE, FALSE) /\ kf[c] = "reset" /\ RequestCallback(c)
      \/ is(FALSE, FALSE, TRUE, FALSE) /\ kf[c] = "endop" /\ HandleCallback(c)
      \/ is(FALSE, FALSE, FALSE, FALSE) /\ idle /\ HandleCallback(c)
           /\ InCallback(c, "hdl")
      \/ is(FALSE, FALSE, FALSE, TRUE) /\ idle /\ HandleCallback(c)
      \/ is(FALSE, FALSE, TRUE, TRUE) /\ kf[c] = "reset" /\ HandleCallback(c)
      \/ is(FALSE, FALSE, FALSE, FALSE) /\ idle /\ CloseCallback(c)
      \/ is(FALSE, FALSE, TRUE, FALSE) /\ kf[c] = "reset" /\ CloseCallback(c)

DocumentedStates == \A c \in Threads : kf[c] # "dead" => DocumentedState(c)

(* The assertions of startedopk, k_resetopk, k_setupproc and yieldresetk:  *)
(* whoever sets up an operation has it free, or is in the callback of the  *)
(* handle it reuses; and an executing coroutine has nothing pending.       *)
SetupAsserted ==
  \A c \in Threads : kf[c] \in Executing =>
    /\ ~op[c].P
    /\ kf[c] = "setup" => /\ ~op[c].C
                          /\ \/ FreeOp(op[c])
                             \/ SameOp(op[c], want[c]) /\ InCallback(c, "hdl")

(* A coroutine that awaits in k_endop has armed the operation it last      *)
(* called: the results it gets are never the ones of a previous one.       *)
AwaitedIsArmed ==
  \A c \in Threads : kf[c] = "endop" =>
    op[c].type = want[c] /\ op[c].P /\ ~op[c].C /\ ~op[c].closing

(* What src/loperaux.c asserts or relies on when it sets up an operation   *)
(* and when it yields its results.                                         *)
AssertionsHold == SetupAsserted /\ AwaitedIsArmed

(* The thread is in the registry while libuv refers to its operation, so   *)
(* that it is not collected, and no longer.                                *)
SavedWhileInUse ==
  saved = {c \in Threads : ~FreeOp(op[c]) \/ InCallback(c, "req")}

(* The counters of the scheduler, from which it decides to suspend a task. *)
SchedCounters ==
  /\ nactive = Cardinality({c \in Threads : ~FreeOp(op[c])})
  /\ nasync = Cardinality({c \in Threads : Open(op[c]) /\ op[c].type = "async"})

(* Each operation in use is accounted for, in the registry and in the      *)
(* counters.                                                               *)
Accounted == SavedWhileInUse /\ SchedCounters

(* No channel refers to a handle that was closed (uv_async_send would use  *)
(* the memory of another operation), and a canceled awaitch that was left  *)
(* to its callback has been matched: the callback will come.               *)
MatchedIsOpen ==
  /\ \A c \in expected \cup due : Open(op[c]) /\ op[c].type \in {"async", "process"}
  /\ \A c \in Threads : op[c].C => c \in due /\ op[c].type = "async"

-----------------------------------------------------------------------------
(* Liveness. *)

(* A coroutine that waits for its operation to be free gets to start the   *)
(* next one, unless system.run returns.                                    *)
ResetServed ==
  \A c \in Threads :
    (kf[c] = "reset") ~> (kf[c] # "reset" \/ phase \in {"off", "yielded"})

(* The operation of a coroutine that is not awaiting is released, unless   *)
(* the coroutine executes again or system.run returns.                     *)
Released ==
  \A c \in Threads :
    (kf[c] = "normal" /\ c \in saved) ~>
      (kf[c] # "normal" \/ c \notin saved \/ phase \in {"off", "yielded"})

=============================================================================
