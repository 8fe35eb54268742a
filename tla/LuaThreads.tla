---------------------------- MODULE LuaThreads -----------------------------
(***************************************************************************)
(* The coroutines of a Lua state and the stack of calls of the system      *)
(* thread that executes them.                                              *)
(*                                                                         *)
(* A function that resumes a coroutine (a callback of libuv, emitall of    *)
(* coutil.event) goes on when the coroutine stops: in the meantime it runs *)
(* any Lua code, which resumes other coroutines and calls the same         *)
(* functions again.                                                        *)
(***************************************************************************)
EXTENDS Integers, Sequences

CONSTANTS
  Coros,  \* coroutines of the Lua state
  None    \* nil, or NULL

ASSUME CorosAssumption == None \notin Coros

VARIABLES
  co,     \* what each coroutine is doing, or what it is suspended in
  stack   \* the calls that did not return, the last one is executing

threadVars == <<co, stack>>

-----------------------------------------------------------------------------
(* A coroutine being executed is a call of lua_resume; the other calls of  *)
(* the stack are functions that resumed the coroutine above them.          *)
Lua(c) == [at |-> "lua", co |-> c]

Idle == stack = <<>>
Top == stack[Len(stack)]
Below == SubSeq(stack, 1, Len(stack) - 1)
Running(c) == ~Idle /\ Top = Lua(c)

(* lua_resume of c over the calls of s. *)
Enter(c, s) ==
  /\ stack' = Append(s, Lua(c))
  /\ co' = [co EXCEPT ![c] = "running"]

(* lua_yield of c, which is then suspended in k. *)
Exit(c, k) ==
  /\ stack' = Below
  /\ co' = [co EXCEPT ![c] = k]

ThreadsInit ==
  /\ co = [c \in Coros |-> "suspended"]
  /\ stack = <<>>

-----------------------------------------------------------------------------
(* The main chunk, or the callback of another operation, resumes c. *)
Start(c) ==
  /\ Idle /\ co[c] = "suspended"
  /\ Enter(c, stack)

(* coroutine.resume(d) called by c; d does not await anything. *)
Resume(c, d) ==
  /\ Running(c) /\ co[d] = "suspended"
  /\ Enter(d, stack)

(* coroutine.yield, or the end of the coroutine: nothing refers to a       *)
(* coroutine that ended, and another one takes its place.                  *)
Yield(c) ==
  /\ Running(c)
  /\ Exit(c, "suspended")

LuaNext ==
  \/ \E c \in Coros : Start(c) \/ Yield(c)
  \/ \E c, d \in Coros : Resume(c, d)

=============================================================================
