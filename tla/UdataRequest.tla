--------------------------- MODULE UdataRequest ----------------------------
(***************************************************************************)
(* A state coroutine: an object with a libuv request that executes a Lua   *)
(* state in another system thread (lcu_UdataRequest of src/loperaux.c,     *)
(* used by src/lcoroutm.c; the requests of system.listdir in src/lfilef.c  *)
(* are resumed only once).                                                 *)
(***************************************************************************)
EXTENDS LoopThreads

CONSTANT
  Reclose  \* may Lua code leave the scope of the state coroutine in the
           \* callback of its request, after resuming it again?

ASSUME RequestAssumption == Reclose \in BOOLEAN

VARIABLES
  type,      \* request.type: "unknown" (UV_UNKNOWN_REQ) when it is free, "max"
             \* (UV_REQ_TYPE_MAX) in its callback, "work" (UV_WORK) in use
  thread,    \* request.data: the coroutine in system.resume
  freeing,   \* is the field 'cancel' the function freepending?
  anchored,  \* is the object in the registry?
  work,      \* the work in the threads of libuv
  state      \* the independent state: "closed" after freestate

requestVars == <<type, thread, freeing, anchored, work, state>>

RequestTypeOK ==
  /\ type \in {"unknown", "max", "work"}
  /\ thread \in Coros \cup {None}
  /\ {freeing, anchored} \subseteq BOOLEAN
  /\ work \in {"none", "queued", "running", "done", "canceled"}
  /\ state \in {"suspended", "dead", "closed"}

(* lcuT_createudreq *)
CreateRequest ==
  /\ type = "unknown" /\ thread = None
  /\ freeing = FALSE /\ anchored = FALSE

(* coroutine.load and coroutine.loadfile. *)
RequestInit ==
  /\ CreateRequest
  /\ work = "none" /\ state = "suspended"

-----------------------------------------------------------------------------
FreeRequest ==
  /\ type' = "unknown" /\ thread' = None /\ anchored' = FALSE

(* lcuT_resetudreqk: the request is free, or it is in its callback. *)
ResetRequest(c) ==
  /\ thread = None /\ type # "work"
  /\ type' = "work" /\ thread' = c /\ anchored' = TRUE

(* startedudreqk, when the setup succeeds. *)
StartedRequest(c) ==
  /\ freeing' = FALSE
  /\ nactive' = nactive + 1
  /\ Exit(c, "request")

(* freestate, at the end of uv_onworked. *)
FreePending ==
  /\ state' = IF freeing THEN "closed" ELSE state
  /\ freeing' = FALSE

(* system.resume and k_setupwork. *)
SystemResume(c) ==
  /\ Running(c)
  /\ type # "work" /\ state = "suspended" /\ thread = None
  /\ \/ /\ ResetRequest(c)
        /\ work' = "queued"
        /\ StartedRequest(c)
     \/ (* an argument is not transferable, or uv_queue_work fails *)
        /\ FreeRequest
        /\ UNCHANGED <<freeing, work, loopVars>>
  /\ UNCHANGED state

(* uv_onworking, in a thread of libuv. *)
Working ==
  /\ work = "queued"
  /\ work' = "running"
  /\ UNCHANGED <<type, thread, freeing, anchored, state, loopVars>>

Worked ==
  /\ work = "running"
  /\ work' = "done"
  /\ state' \in {"suspended", "dead"}
  /\ UNCHANGED <<type, thread, freeing, anchored, loopVars>>

(* coroutine.resume of the coroutine in system.resume: k_endudreq cancels  *)
(* the work if it was not started, and leaves it otherwise.                *)
HaltRequest(c, d) ==
  /\ Running(c) /\ co[d] = "request"
  /\ thread' = None
  /\ work' = IF work = "queued" THEN "canceled" ELSE work
  /\ Enter(d, stack)
  /\ UNCHANGED <<type, freeing, anchored, state, nactive>>

(* coroutine.close of the coroutine in system.resume. *)
CloseWaiter(c, d) ==
  /\ Running(c) /\ co[d] = "request"
  /\ co' = [co EXCEPT ![d] = "dead"]
  /\ UNCHANGED <<stack, nactive, requestVars>>

(* Mutant: the state is closed while it is executed. *)
CloseState_Running(c) ==
  /\ Running(c)
  /\ state' = "closed"
  /\ UNCHANGED <<type, thread, freeing, anchored, work, loopVars>>

(* coroutine_gc, called by coroutine.close unless the state is executing,  *)
(* and when a to-be-closed variable goes out of scope.                     *)
CloseState(c) ==
  /\ Running(c)
  /\ \/ /\ type # "work"
        /\ state' = "closed"
        /\ UNCHANGED freeing
     \/ /\ type = "work"
        /\ Reclose \/ ~Within("request callback")
        /\ freeing' = TRUE
        /\ UNCHANGED state
  /\ UNCHANGED <<type, thread, anchored, work, loopVars>>

(* The end of uv_onworked: lcuU_resumeudreq frees an object that was not   *)
(* resumed again.                                                          *)
RequestReturns ==
  /\ Returning("request callback")
  /\ stack' = Below
  /\ IF type = "max" THEN FreeRequest ELSE UNCHANGED <<type, thread, anchored>>
  /\ FreePending
  /\ UNCHANGED <<work, co, nactive>>

(* Mutant: the object is freed without resuming its coroutine. *)
WorkResumes_Lost ==
  /\ Idle /\ work \in {"done", "canceled"}
  /\ thread # None /\ co[thread] = "request"
  /\ FreeRequest
  /\ work' = "none"
  /\ nactive' = nactive - 1
  /\ UNCHANGED <<freeing, state, co, stack>>

(* uv_onworked when a coroutine awaits: lcuU_endudreq, and k_endudreq      *)
(* returns the results to the coroutine.                                   *)
WorkResumes ==
  /\ Idle /\ work \in {"done", "canceled"}
  /\ thread # None /\ co[thread] = "request"
  /\ type' = "max" /\ work' = "none"
  /\ nactive' = nactive - 1
  /\ thread' = None
  /\ Enter(thread, Append(stack, Call("request callback")))
  /\ UNCHANGED <<freeing, anchored, state>>

(* uv_onworked when the coroutine was resumed, or was closed and cannot be *)
(* resumed; a new coroutine takes the place of a closed one.               *)
WorkDiscarded ==
  /\ Idle /\ work \in {"done", "canceled"}
  /\ thread # None => co[thread] = "dead"
  /\ FreeRequest
  /\ work' = "none"
  /\ nactive' = nactive - 1
  /\ FreePending
  /\ co' = [c \in Coros |-> IF c = thread THEN "suspended" ELSE co[c]]
  /\ UNCHANGED stack

-----------------------------------------------------------------------------
RequestLua(c) ==
  \/ SystemResume(c) \/ CloseState(c)
  \/ \E d \in Coros : HaltRequest(c, d) \/ CloseWaiter(c, d)

RequestCallbacks == WorkResumes \/ WorkDiscarded

RequestNext ==
  \/ \E c \in Coros : RequestLua(c)
  \/ RequestCallbacks \/ RequestReturns \/ Working \/ Worked

=============================================================================
