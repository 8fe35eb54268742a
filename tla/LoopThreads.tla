---------------------------- MODULE LoopThreads ----------------------------
(***************************************************************************)
(* The coroutines of a Lua state with the C functions of src/loperaux.c    *)
(* and src/lcoroutm.c that resume them, and the counter of lcu_Scheduler.  *)
(***************************************************************************)
EXTENDS LuaThreads

VARIABLE
  nactive  \* "number of all active handles" of lcu_Scheduler

loopVars == <<threadVars, nactive>>

(* Calls of the stack that are not coroutines. *)
CFunctions ==
  {"handle callback", "error callback", "eof callback", "closing", "request callback"}
Call(f) == [at |-> f, co |-> None]

Returning(f) == ~Idle /\ Top = Call(f)
Within(f) == \E i \in DOMAIN stack : stack[i] = Call(f)

=============================================================================
