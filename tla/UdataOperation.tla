-------------------------- MODULE UdataOperation ---------------------------
(***************************************************************************)
(* An object with a handle and a state coroutine used by the coroutines of *)
(* the same Lua state: what runs in the callback of one, or in its 'close', *)
(* uses the other.                                                         *)
(***************************************************************************)
EXTENDS UdataHandle, UdataRequest

vars == <<handleVars, requestVars, loopVars>>

Init == HandleInit /\ RequestInit /\ ThreadsInit /\ nactive = 0

Next ==
  \/ LuaNext /\ UNCHANGED <<nactive, handleVars, requestVars>>
  \/ HandleNext /\ UNCHANGED requestVars
  \/ RequestNext /\ UNCHANGED handleVars

Spec == Init /\ [][Next]_vars

(* The loop calls every callback that remains due, the threads of libuv    *)
(* work, and coroutines do not execute forever.                            *)
Fairness ==
  /\ \A c \in Coros : SF_vars(Yield(c) /\ UNCHANGED <<nactive, handleVars, requestVars>>)
  /\ WF_vars(HandleReturns /\ UNCHANGED requestVars)
  /\ WF_vars(RequestReturns /\ UNCHANGED handleVars)
  /\ WF_vars(Working /\ UNCHANGED handleVars) /\ WF_vars(Worked /\ UNCHANGED handleVars)
  /\ SF_vars(RequestCallbacks /\ UNCHANGED handleVars)
  /\ SF_vars(Closed /\ UNCHANGED requestVars)
  /\ \A c \in Coros : SF_vars(Written(c) /\ UNCHANGED requestVars)

FairSpec == Spec /\ Fairness

-----------------------------------------------------------------------------
(* Type correctness of the state. *)
TypeOK ==
  /\ HandleTypeOK /\ RequestTypeOK
  /\ co \in [Coros -> {"suspended", "running", "handle", "write", "deferred",
                       "request", "dead"}]
  /\ stack \in Seq([at: CFunctions \cup {"lua"}, co: Coros \cup {None}])
  /\ nactive \in Int

(* uv_close is called at most once for a handle, when it is open: a second *)
(* object:close raises "closed object".                                    *)
ClosesOpenHandle == Returning("closing") => uv = "open"

(* Between callbacks the columns "started" and "pending" of the table of   *)
(* doc/devnotes.md agree: 'stop' is defined exactly while a coroutine      *)
(* awaits, it is the one in handle.data, and libuv uses no handle but that *)
(* of an open object whose 'stop' is defined, whatever Lua code does in    *)
(* the callbacks and in the 'close' of the object.                         *)
DocumentedHandle ==
  /\ Idle => (stop <=> data # None)
  /\ active => stop /\ ~closed
  /\ \A c \in Coros : co[c] = "handle" <=> data = c

(* The object is in the registry as long as libuv or a callback uses it:   *)
(* the memory of the handle is not released before closedudhdl, and what   *)
(* is collected has no pending requests.                                   *)
SavedWhileUsed ==
  /\ data # None \/ active \/ InCallback \/ uv = "closing" => saved
  /\ uv = "freed" => writes = {}
  /\ Idle /\ saved => data # None \/ uv = "closing"

(* The requests, the works and the handles that were started. *)
Started ==
  Cardinality(writes) + (IF stop THEN 1 ELSE 0) + (IF type = "work" THEN 1 ELSE 0)

(* What is active is counted in nactive, otherwise lcuU_checksuspend would *)
(* suspend a task whose coroutines await other things than channels.       *)
ActiveNotMissed == Idle => nactive >= Started

(* A connection that libuv holds is counted, so that the next accept gets  *)
(* it, and nobody awaits while there is a connection counted.              *)
NoConnectionLost ==
  /\ slot => conns > 0
  /\ data # None => conns = 0

(* A state is not closed while it is executed, or waits to be executed, by *)
(* another thread; and a request in use is never started again.            *)
StateExclusive ==
  /\ work # "none" => state # "closed"
  /\ type = "work" <=> work # "none"
  /\ work # "none" => anchored

(* Whoever awaits a state coroutine is resumed. *)
ResumeServed ==
  \A c \in Coros : co[c] = "request" ~> co[c] # "request"

=============================================================================
