---------------------------- MODULE UdataHandle ----------------------------
(***************************************************************************)
(* An object with a libuv handle: sockets, pipes and terminals             *)
(* (lcu_UdataHandle of src/loperaux.c, used by src/lcommunf.c).            *)
(*                                                                         *)
(* One coroutine at a time awaits in a 'read' or an 'accept' of the object; *)
(* the handle is left started between calls made in its own callback.      *)
(* Coroutines also write to it, each with the request of its own operation *)
(* (see CoOperation).  libuv is modelled from how the code uses it.        *)
(***************************************************************************)
EXTENDS LoopThreads, FiniteSets

CONSTANTS
  HandleKinds,  \* classes of objects
  Reentrant,    \* may Lua code end the operation of an object in the callback
                \* of the object, or use it when resumed by its 'close'?
  MaxConns,     \* bound of the connections counted in the flags
  MaxActive     \* bound of the errors of nactive

ASSUME HandleAssumption ==
  /\ HandleKinds \subseteq {"stream", "datagram", "passive"}
  /\ Reentrant \in BOOLEAN
  /\ MaxConns \in Nat /\ MaxActive \in Nat

VARIABLES
  kind,       \* class of the object
  closed,     \* LCU_HANDLECLOSEDFLAG
  data,       \* handle.data: the coroutine that awaits in the object
  stop,       \* is the field 'stop' defined, that is, was the handle started?
  saved,      \* is the object in the registry?
  held,       \* does the program still refer to the object?
  uv,         \* life of the handle in libuv, and of its memory
  active,     \* is the handle started in libuv (for a passive one, referenced)?
  listening,  \* was it put to listen?
  conns,      \* connections counted in the flags, besides the mark of listening
  slot,       \* does libuv hold a connection not accepted?
  writes      \* coroutines whose write request is in libuv

readVars   == <<kind, listening, conns, slot>>
handleVars == <<closed, data, stop, saved, held, uv, active, readVars, writes>>

(* "freed" memory was released by the garbage collector. *)
UvStates == {"none", "open", "closing", "closed", "freed"}

HandleTypeOK ==
  /\ kind \in HandleKinds
  /\ data \in Coros \cup {None}
  /\ {closed, stop, saved, held, active, listening, slot} \subseteq BOOLEAN
  /\ uv \in UvStates
  /\ conns \in 0..MaxConns
  /\ writes \subseteq Coros

(* lcuT_createudhdl: the object is born closed. *)
HandleInit ==
  /\ kind \in HandleKinds
  /\ closed = TRUE /\ data = None /\ stop = FALSE
  /\ saved = FALSE /\ held = FALSE
  /\ uv = "none" /\ active = FALSE
  /\ listening = FALSE /\ conns = 0 /\ slot = FALSE
  /\ writes = {}

-----------------------------------------------------------------------------
(* Lua code that uses the object. *)
Uses(c) == Running(c) /\ held /\ (Reentrant \/ ~Within("closing"))

InCallback ==
  Within("handle callback") \/ Within("error callback") \/ Within("eof callback")

(* Lua code may halt the operation of the object. *)
Halts == Reentrant \/ ~(InCallback \/ Within("closing"))

(* The coroutine that awaits goes on; whoever resumed it is in fs. *)
Wake(fs) ==
  /\ data' = None
  /\ Enter(data, stack \o fs)

-----------------------------------------------------------------------------
(* system.socket, and the streams created by 'accept': the object is open  *)
(* only if libuv initialized its handle.                                   *)
Create(c) ==
  /\ Running(c) /\ uv = "none"
  /\ uv' = "open" /\ closed' = FALSE /\ held' = TRUE
  /\ UNCHANGED <<data, stop, saved, active, readVars, writes, loopVars>>

(* uv_close, which also stops the handle, and what surrounds it. *)
UvClose ==
  /\ saved' = TRUE
  /\ uv' = "closing" /\ active' = FALSE
  /\ closed' = TRUE

(* Mutant: the object is not released when it is stopped. *)
StopHandle_Kept ==
  /\ stop' = FALSE
  /\ nactive' = nactive - 1
  /\ active' = (active /\ ~stop)
  /\ UNCHANGED <<saved, closed, uv>>

(* stopudhdl.  'stop' does not fail in libuv, so the object is not closed. *)
(* What it does to an object that is not in the registry is undefined (it  *)
(* sets a user value of nil); here it has no other effect.                 *)
StopHandle ==
  /\ stop' = FALSE
  /\ nactive > -MaxActive /\ nactive' = nactive - 1
  /\ active' = (active /\ ~stop)
  /\ saved' = (saved /\ closed)
  /\ UNCHANGED <<closed, uv>>

(* lcuT_resetudhdlk and scheduleudhdlk: a handle already started, that is, *)
(* whose 'stop' is defined, is not started again.                          *)
ResetHandle(c) ==
  /\ data = None
  /\ \/ /\ ~stop
        /\ saved' = TRUE /\ active' = TRUE /\ stop' = TRUE
        /\ nactive < MaxActive /\ nactive' = nactive + 1
     \/ /\ stop
        /\ UNCHANGED <<saved, active, stop, nactive>>
  /\ data' = c
  /\ Exit(c, "handle")

(* 'read' of sockets, pipes and terminals. *)
Read(c) ==
  /\ Uses(c) /\ ~closed /\ kind # "passive"
  /\ ResetHandle(c)
  /\ UNCHANGED <<closed, held, uv, readVars, writes>>

(* 'start' fails, and lcuT_resetudhdlk undoes the premature setup.  It does *)
(* not fail for a stream that ended, the case of a saved object.           *)
ReadError(c) ==
  /\ Uses(c) /\ ~closed /\ kind # "passive"
  /\ data = None /\ ~stop /\ ~saved
  /\ data' = None /\ saved' = FALSE
  /\ UNCHANGED <<closed, stop, held, uv, active, readVars, writes, loopVars>>

(* uv_onudprecv and uv_onrecvdata: k_endudhdlk calls 'step', which returns *)
(* the data to the coroutine, or the error of a datagram.                  *)
Received ==
  /\ Idle /\ active /\ uv = "open" /\ kind # "passive"
  /\ data # None
  /\ Wake(<<Call("handle callback")>>)
  /\ UNCHANGED <<closed, stop, saved, held, uv, active, readVars, writes, nactive>>

(* uv_onrecvdata with any error but UV_EOF: 'stop' is left as it is, and   *)
(* libuv stops the handle of a stream after the callback.                  *)
ReadFailed ==
  /\ Idle /\ active /\ uv = "open" /\ kind = "stream"
  /\ data # None
  /\ Wake(<<Call("error callback")>>)
  /\ UNCHANGED <<closed, stop, saved, held, uv, active, readVars, writes, nactive>>

(* Mutant: the handle is also uncounted, before the end of the callback.   *)
EndOfStream_Uncounted ==
  /\ Idle /\ active /\ uv = "open" /\ kind = "stream"
  /\ data # None
  /\ stop' = FALSE /\ active' = FALSE /\ nactive' = nactive - 1
  /\ Wake(<<Call("eof callback")>>)
  /\ UNCHANGED <<closed, saved, held, uv, readVars, writes>>

(* uv_onrecvdata with UV_EOF: libuv already stopped the handle. *)
EndOfStream ==
  /\ Idle /\ active /\ uv = "open" /\ kind = "stream"
  /\ data # None
  /\ stop' = FALSE /\ active' = FALSE
  /\ Wake(<<Call("eof callback")>>)
  /\ UNCHANGED <<closed, saved, held, uv, readVars, writes, nactive>>

ReturningCallback ==
  \/ Returning("handle callback") \/ Returning("error callback")
  \/ Returning("eof callback")

(* Mutant: the handle is stopped even if a coroutine awaits in it again. *)
CallbackReturns_Stops ==
  /\ ReturningCallback
  /\ stack' = Below
  /\ StopHandle
  /\ UNCHANGED <<co, data, held, readVars, writes>>

(* The end of lcuU_resumeudhdl.  After an error libuv stops the handle,    *)
(* though a coroutine awaits in it again.                                  *)
CallbackReturns ==
  /\ ReturningCallback
  /\ stack' = Below
  /\ \/ data = None /\ StopHandle
     \/ /\ data # None
        /\ active' = (active /\ ~Returning("error callback"))
        /\ UNCHANGED <<stop, nactive, saved, closed, uv>>
  /\ UNCHANGED <<co, data, held, readVars, writes>>

(* coroutine.resume of the coroutine that awaits in the object: k_endudhdlk *)
(* finds it was halted.                                                    *)
HaltHandle(c) ==
  /\ Running(c) /\ data # None /\ Halts
  /\ StopHandle
  /\ Wake(<<>>)
  /\ UNCHANGED <<held, readVars, writes>>

-----------------------------------------------------------------------------
(* object:close, when no coroutine awaits in it. *)
Close(c) ==
  /\ Uses(c) /\ ~closed
  /\ data = None
  /\ UvClose
  /\ UNCHANGED <<data, stop, held, readVars, writes, loopVars>>

(* object:close resumes the coroutine that awaits in it, before the object *)
(* is marked as closed.                                                    *)
CloseResumes(c) ==
  /\ Uses(c) /\ ~closed
  /\ data # None /\ Halts
  /\ StopHandle
  /\ Wake(<<Call("closing")>>)
  /\ UNCHANGED <<held, readVars, writes>>

(* The rest of lcu_closeudhdl. *)
CloseReturns ==
  /\ Returning("closing")
  /\ stack' = Below
  /\ UvClose
  /\ UNCHANGED <<co, nactive, data, stop, held, readVars, writes>>

(* closedudhdl, which libuv calls after the callbacks of the writes. *)
Closed ==
  /\ Idle /\ uv = "closing" /\ writes = {}
  /\ uv' = "closed" /\ saved' = FALSE
  /\ UNCHANGED <<closed, data, stop, held, active, readVars, writes, loopVars>>

(* The program no longer refers to the object. *)
Forget(c) ==
  /\ Running(c) /\ held
  /\ held' = FALSE
  /\ UNCHANGED <<closed, data, stop, saved, uv, active, readVars, writes, loopVars>>

(* The object is garbage: it is not in the registry, nor in the stack of   *)
(* its 'close' or of a coroutine that writes to it.                        *)
Garbage ==
  /\ ~held /\ ~saved /\ ~Within("closing")
  /\ \A c \in Coros : co[c] \notin {"write", "deferred"}

(* object_gc closes an open object; the memory of a closed one is released. *)
Collect ==
  /\ Garbage /\ uv \notin {"none", "freed"}
  /\ \/ /\ ~closed
        /\ UvClose
     \/ /\ closed
        /\ uv' = "freed"
        /\ UNCHANGED <<saved, active, closed>>
  /\ UNCHANGED <<data, stop, held, readVars, writes, loopVars>>

-----------------------------------------------------------------------------
(* passive:listen.  The handle remains unreferenced while nobody accepts.  *)
Listen(c) ==
  /\ Uses(c) /\ ~closed /\ kind = "passive" /\ ~listening
  /\ listening' = TRUE
  /\ UNCHANGED <<kind, conns, slot, closed, data, stop, saved, held, uv, active,
                 writes, loopVars>>

(* Mutant: the connection is not put back if the stream is not created. *)
AcceptStream_Dropped(n) ==
  \/ conns' = n /\ n < MaxConns /\ UNCHANGED slot
  \/ conns' = n /\ slot' = FALSE

(* k_acceptstream: the new stream fails to be initialized and the connection *)
(* is left for another call, or uv_accept takes the connection if there is *)
(* any (otherwise it returns an error).                                    *)
AcceptStream(n) ==
  \/ conns' = n + 1 /\ n < MaxConns /\ UNCHANGED slot
  \/ conns' = n /\ slot' = FALSE

(* Mutant: the mark of listening is taken as a connection. *)
AcceptCounted_Mark(c) ==
  /\ Uses(c) /\ ~closed /\ listening
  /\ AcceptStream(conns - 1)
  /\ UNCHANGED <<kind, listening, closed, data, stop, saved, held, uv, active,
                 writes, loopVars>>

(* passive:accept, when a connection was counted. *)
AcceptCounted(c) ==
  /\ Uses(c) /\ ~closed /\ listening /\ conns > 0
  /\ AcceptStream(conns - 1)
  /\ UNCHANGED <<kind, listening, closed, data, stop, saved, held, uv, active,
                 writes, loopVars>>

(* passive:accept, when it awaits a connection. *)
AcceptAwaits(c) ==
  /\ Uses(c) /\ ~closed /\ listening /\ conns = 0
  /\ ResetHandle(c)
  /\ UNCHANGED <<closed, held, uv, readVars, writes>>

(* uv_onconnection without a coroutine: errors are counted too.  libuv has *)
(* no other connection until the one in its slot is accepted.              *)
CountConnection ==
  /\ Idle /\ listening /\ uv = "open" /\ ~slot
  /\ data = None /\ conns < MaxConns
  /\ conns' = conns + 1
  /\ slot' \in BOOLEAN
  /\ UNCHANGED <<kind, listening, closed, data, stop, saved, held, uv, active,
                 writes, loopVars>>

(* uv_onconnection resumes the coroutine in 'accept': k_acceptstream gets  *)
(* the connection, or the error.                                           *)
Connection ==
  /\ Idle /\ listening /\ uv = "open" /\ ~slot
  /\ data # None
  /\ \/ conns' = conns /\ slot' = FALSE
     \/ conns' = conns + 1 /\ conns < MaxConns /\ slot' = TRUE
  /\ Wake(<<Call("handle callback")>>)
  /\ UNCHANGED <<kind, listening, closed, stop, saved, held, uv, active, writes,
                 nactive>>

-----------------------------------------------------------------------------
(* 'write' and 'shutdown': the coroutine starts a request, or waits for    *)
(* its previous one in k_resetopk.                                         *)
Write(c) ==
  /\ Uses(c) /\ ~closed /\ kind = "stream"
  /\ \/ /\ c \notin writes
        /\ writes' = writes \cup {c} /\ nactive' = nactive + 1
        /\ Exit(c, "write")
     \/ /\ c \in writes
        /\ Exit(c, "deferred")
        /\ UNCHANGED <<writes, nactive>>
  /\ UNCHANGED <<closed, data, stop, saved, held, uv, active, readVars>>

(* completereqop: the callback of the request of c.  The setup of the next *)
(* request may fail; it does not check if the object was closed while c    *)
(* waited, but it always fails then.                                       *)
Written(c) ==
  /\ Idle /\ c \in writes
  /\ \/ /\ co[c] = "deferred" /\ uv = "open"
        /\ co' = [co EXCEPT ![c] = "write"]
        /\ UNCHANGED <<writes, nactive, stack>>
     \/ /\ co[c] \in {"write", "deferred"}
        /\ writes' = writes \ {c} /\ nactive' = nactive - 1
        /\ Enter(c, stack)
     \/ /\ co[c] \notin {"write", "deferred"}
        /\ writes' = writes \ {c} /\ nactive' = nactive - 1
        /\ UNCHANGED <<co, stack>>
  /\ UNCHANGED <<closed, data, stop, saved, held, uv, active, readVars>>

(* coroutine.resume of a coroutine that writes: its request goes on. *)
HaltWrite(c, d) ==
  /\ Running(c) /\ co[d] \in {"write", "deferred"}
  /\ Enter(d, stack)
  /\ UNCHANGED <<nactive, handleVars>>

-----------------------------------------------------------------------------
HandleLua(c) ==
  \/ Create(c) \/ Read(c) \/ ReadError(c) \/ HaltHandle(c)
  \/ Close(c) \/ CloseResumes(c) \/ Forget(c)
  \/ Listen(c) \/ AcceptCounted(c) \/ AcceptAwaits(c) \/ Write(c)

HandleCallbacks ==
  \/ Received \/ ReadFailed \/ EndOfStream \/ CountConnection \/ Connection \/ Closed
  \/ \E c \in Coros : Written(c)

HandleReturns == CallbackReturns \/ CloseReturns

HandleNext ==
  \/ \E c \in Coros : HandleLua(c)
  \/ \E c, d \in Coros : HaltWrite(c, d)
  \/ HandleCallbacks \/ HandleReturns \/ Collect

=============================================================================
