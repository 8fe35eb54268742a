-------------------------- MODULE CoOperationProofs -------------------------
(***************************************************************************)
(* Proofs of the safety of CoOperation for any number of coroutines, any   *)
(* kinds of operations, in a task or not.                                  *)
(***************************************************************************)
EXTENDS CoOperation, FiniteSetTheorems, TLAPS

-----------------------------------------------------------------------------
(* The inductive invariant.  Types of the variables; that the counters are *)
(* not negative follows from SchedCounters.                                *)
ControlTyped ==
  /\ want \in [Threads -> Kinds \cup {"none"}]
  /\ saved \subseteq Threads /\ expected \subseteq Threads /\ due \subseteq Threads
  /\ kf \in [Threads -> Suspended \cup Executing \cup {"dead"}]
  /\ current \in Threads \cup {Main, Loop}
  /\ resumer \in [Threads \cup {Loop} -> Threads \cup {Main, Loop, None}]
  /\ phase \in Phases
  /\ once \in BOOLEAN /\ stop \in BOOLEAN /\ token \in BOOLEAN
  /\ cb \in [kind: {"none", "req", "hdl"}, thread: Threads \cup {None}]
  /\ fired \subseteq Threads

Typed ==
  /\ op \in [Threads -> OpType]
  /\ nasync \in Int /\ nactive \in Int
  /\ ControlTyped

(* The flags of an operation and what they say of libuv. *)
FlagsInv(c) ==
  /\ op[c].R => /\ ~op[c].closing /\ ~op[c].C
                /\ op[c].type \in {"unknown", "request"}
  /\ ~op[c].R => ~op[c].S /\ op[c].type \in Handles
  /\ op[c].type = "request" => op[c].S
  /\ FreeOp(op[c]) => (op[c].S <=> InCallback(c, "req"))
  /\ op[c].C => Open(op[c]) /\ op[c].type = "async" /\ c \in due
  /\ Open(op[c]) /\ ~op[c].P /\ ~op[c].C => InCallback(c, "hdl")
  /\ InCallback(c, "hdl") => ~op[c].R /\ ~op[c].C
  /\ c \in saved <=> ~FreeOp(op[c]) \/ InCallback(c, "req")

(* What the coroutine is executing, or waiting for. *)
WaitInv(c) ==
  /\ kf[c] = "endop" => /\ op[c].P /\ ~op[c].C /\ ~op[c].closing
                        /\ op[c].type = want[c] /\ op[c].type # "unknown"
                        /\ op[c].type = "async" => c \in expected \cup due
  /\ kf[c] = "reset" => /\ want[c] \in Kinds /\ op[c].P /\ ~FreeOp(op[c])
                        /\ Open(op[c]) => op[c].C
  /\ kf[c] \notin {"endop", "reset", "dead"} => ~op[c].P
  /\ kf[c] = "setup" => /\ want[c] \in Kinds /\ ~op[c].C
                        /\ \/ FreeOp(op[c])
                           \/ SameOp(op[c], want[c]) /\ InCallback(c, "hdl")

(* The events of channels and processes. *)
EventInv(c) ==
  c \in expected \cup due =>
    /\ Open(op[c]) /\ op[c].type \in {"async", "process"}
    /\ c \in expected => c \notin due /\ op[c].P /\ ~op[c].C
    /\ op[c].P \/ op[c].C

CoInv == \A c \in Threads : FlagsInv(c) /\ WaitInv(c) /\ EventInv(c)

(* Who is executing: the coroutine resumed by a callback executes, or is   *)
(* resumed by who executes, until the callback goes on.                    *)
StackInv ==
  /\ \A c \in Threads : kf[c] \in Executing => resumer[c] # None
  /\ \A c \in Threads : kf[c] \in Executing /\ resumer[c] = Loop =>
       cb.kind # "none" /\ cb.thread = c
  /\ cb.kind = "none" <=> cb.thread = None
  /\ cb.kind # "none" =>
       /\ current = Loop => kf[cb.thread] \notin Executing
       /\ current # Loop => /\ kf[cb.thread] \in Executing
                            /\ resumer[cb.thread] = Loop
  /\ phase = "off" => current # Loop /\ cb.kind = "none"
  /\ phase # "off" => resumer[Loop] \in Threads \cup {Main}

Inv == Typed /\ CoInv /\ StackInv /\ SchedCounters

(* Initially all operations are free. *)
LEMMA InitInv == Init => Inv
  <1> SUFFICES ASSUME Init PROVE Inv
    OBVIOUS
  <1> USE ConstantsAssumption DEF Init
  <1>1. Typed
    <2>1. op \in [Threads -> OpType]
      BY DEF OpType
    <2>2. cb \in [kind: {"none", "req", "hdl"}, thread: Threads \cup {None}]
      BY DEF NoCallback
    <2>3. kf \in [Threads -> Suspended \cup Executing \cup {"dead"}]
      BY DEF Suspended
    <2>4. resumer \in [Threads \cup {Loop} -> Threads \cup {Main, Loop, None}]
      OBVIOUS
    <2>5. want \in [Threads -> Kinds \cup {"none"}]
      OBVIOUS
    <2>6. /\ {} \subseteq Threads /\ 0 \in Int /\ "off" \in Phases
          /\ Main \in Threads \cup {Main, Loop} /\ FALSE \in BOOLEAN
      BY DEF Phases
    <2> QED
      BY <2>1, <2>2, <2>3, <2>4, <2>5, <2>6 DEF Typed, ControlTyped
  <1>2. CoInv
    BY DEF CoInv, FlagsInv, WaitInv, EventInv, FreeOp, Open, InCallback, NoCallback
  <1>3. StackInv
    BY DEF StackInv, Executing, NoCallback
  <1>4. SchedCounters
    <2>1. {c \in Threads : ~FreeOp(op[c])} = {}
      BY DEF FreeOp
    <2>2. {c \in Threads : Open(op[c]) /\ op[c].type = "async"} = {}
      BY DEF Open
    <2> QED
      BY <2>1, <2>2, FS_EmptySet DEF SchedCounters
  <1> QED
    BY <1>1, <1>2, <1>3, <1>4 DEF Inv

(* The step changes nothing of the other coroutines. *)
Others(c) ==
  \A d \in Threads \ {c} :
    /\ op'[d] = op[d] /\ kf'[d] = kf[d] /\ want'[d] = want[d]
    /\ d \in saved' <=> d \in saved
    /\ d \in expected' <=> d \in expected
    /\ d \in due' <=> d \in due
    /\ \A k \in {"req", "hdl"} : InCallback(d, k)' <=> InCallback(d, k)

(* The invariant of the other coroutines is kept. *)
LEMMA OthersKept ==
  ASSUME CoInv, NEW c \in Threads, Others(c),
         FlagsInv(c)', WaitInv(c)', EventInv(c)'
  PROVE  CoInv'
  <1>1. SUFFICES ASSUME NEW d \in Threads, d # c
                 PROVE  FlagsInv(d)' /\ WaitInv(d)' /\ EventInv(d)'
    BY DEF CoInv
  <1>2. FlagsInv(d) /\ WaitInv(d) /\ EventInv(d)
    BY DEF CoInv
  <1>3. /\ op'[d] = op[d] /\ kf'[d] = kf[d] /\ want'[d] = want[d]
        /\ d \in saved' <=> d \in saved
        /\ d \in expected' <=> d \in expected
        /\ d \in due' <=> d \in due
        /\ InCallback(d, "req")' <=> InCallback(d, "req")
        /\ InCallback(d, "hdl")' <=> InCallback(d, "hdl")
    BY <1>1 DEF Others
  <1>4. FlagsInv(d)'
    BY <1>2, <1>3 DEF FlagsInv, FreeOp, Open
  <1>5. WaitInv(d)'
    BY <1>2, <1>3 DEF WaitInv, FreeOp, Open, SameOp
  <1>6. EventInv(d)'
    BY <1>2, <1>3 DEF EventInv, Open
  <1> QED
    BY <1>4, <1>5, <1>6

-----------------------------------------------------------------------------
(* Operators on operations. *)

(* cancelop only sets that a handle is being closed. *)
LEMMA CancelFields ==
  ASSUME NEW o \in OpType
  PROVE  /\ CancelOp(o) \in OpType
         /\ CancelOp(o).R = o.R /\ CancelOp(o).S = o.S /\ CancelOp(o).P = o.P
         /\ CancelOp(o).C = o.C /\ CancelOp(o).type = o.type
         /\ CancelOp(o).closing <=> (o.closing \/ ~o.R)
         /\ ~Open(CancelOp(o))
         /\ FreeOp(CancelOp(o)) <=> FreeOp(o)
         /\ AsyncClosed(o) = IF Open(o) /\ o.type = "async" THEN 1 ELSE 0
  <1>1. CASE Open(o)
    <2>1. CancelOp(o) = [o EXCEPT !.closing = TRUE]
      BY <1>1 DEF CancelOp
    <2> QED
      BY <1>1, <2>1 DEF OpType, Open, FreeOp, AsyncClosed
  <1>2. CASE ~Open(o)
    <2>1. CancelOp(o) = o
      BY <1>2 DEF CancelOp
    <2> QED
      BY <1>2, <2>1 DEF OpType, Open, FreeOp, AsyncClosed
  <1> QED
    BY <1>1, <1>2

(* Setting the flag of a pending coroutine, or of a cleanup. *)
LEMMA FlagFields ==
  ASSUME NEW o \in OpType, NEW b \in BOOLEAN
  PROVE  /\ [o EXCEPT !.P = b] \in OpType /\ [o EXCEPT !.P = b].P = b
         /\ [o EXCEPT !.P = b].R = o.R /\ [o EXCEPT !.P = b].S = o.S
         /\ [o EXCEPT !.P = b].C = o.C /\ [o EXCEPT !.P = b].type = o.type
         /\ [o EXCEPT !.P = b].closing = o.closing
         /\ [o EXCEPT !.C = b] \in OpType /\ [o EXCEPT !.C = b].C = b
         /\ [o EXCEPT !.C = b].R = o.R /\ [o EXCEPT !.C = b].S = o.S
         /\ [o EXCEPT !.C = b].P = o.P /\ [o EXCEPT !.C = b].type = o.type
         /\ [o EXCEPT !.C = b].closing = o.closing
  BY DEF OpType

(* The operation of c becomes o, with the counters it implies. *)
Bit(b) == IF b THEN 1 ELSE 0
InUse(o) == ~FreeOp(o)
AsyncOpen(o) == Open(o) /\ o.type = "async"
Becomes(c, o) ==
  /\ op' = [op EXCEPT ![c] = o]
  /\ nactive' = nactive + Bit(InUse(o)) - Bit(InUse(op[c]))
  /\ nasync' = nasync + Bit(AsyncOpen(o)) - Bit(AsyncOpen(op[c]))

(* The counters agree with a change that uv_close makes. *)
LEMMA CancelBecomes ==
  ASSUME nasync \in Int, nactive \in Int, NEW c \in Threads, op[c] \in OpType,
         NEW o \in OpType, FreeOp(o) <=> FreeOp(op[c]), Open(o) <=> Open(op[c]),
         o.type = op[c].type, op' = [op EXCEPT ![c] = CancelOp(o)],
         nasync' = nasync - AsyncClosed(o), nactive' = nactive
  PROVE  Becomes(c, CancelOp(o))
  <1>1. ~Open(CancelOp(o)) /\ (FreeOp(CancelOp(o)) <=> FreeOp(o))
    BY CancelFields
  <1>2. AsyncClosed(o) = Bit(AsyncOpen(op[c]))
    <2>1. CASE Open(o)
      BY <2>1 DEF AsyncClosed, Bit, AsyncOpen
    <2>2. CASE ~Open(o)
      BY <2>2 DEF AsyncClosed, Bit, AsyncOpen
    <2> QED
      BY <2>1, <2>2
  <1>3. Bit(AsyncOpen(CancelOp(o))) = 0
    BY <1>1 DEF Bit, AsyncOpen
  <1>4. Bit(InUse(CancelOp(o))) = Bit(InUse(op[c]))
    BY <1>1, Zenon DEF Bit, InUse
  <1>5. Bit(InUse(op[c])) \in Int /\ Bit(AsyncOpen(op[c])) \in Int
    BY DEF Bit
  <1>6. /\ nactive' = nactive + Bit(InUse(CancelOp(o))) - Bit(InUse(op[c]))
        /\ nasync' = nasync + Bit(AsyncOpen(CancelOp(o))) - Bit(AsyncOpen(op[c]))
    BY <1>2, <1>3, <1>4, <1>5
  <1> QED
    BY <1>6 DEF Becomes

(* Only the operation of c changes. *)
LEMMA BecomesOp ==
  ASSUME op \in [Threads -> OpType], NEW c \in Threads, NEW o \in OpType,
         Becomes(c, o)
  PROVE  /\ op' \in [Threads -> OpType] /\ op'[c] = o
         /\ \A d \in Threads \ {c} : op'[d] = op[d]
  BY DEF Becomes

(* Sets that only differ in c. *)
LEMMA CountChange ==
  ASSUME NEW A, NEW B, NEW c, IsFiniteSet(A), IsFiniteSet(B), A \ {c} = B \ {c}
  PROVE  Cardinality(B) = Cardinality(A) + Bit(c \in B) - Bit(c \in A)
  <1>1. /\ Cardinality(A) \in Nat /\ Cardinality(B) \in Nat
    BY FS_CardinalityType
  <1>2. Cardinality(A \ {c}) = Cardinality(A) - Bit(c \in A)
    BY <1>1, FS_RemoveElement DEF Bit
  <1>3. Cardinality(B \ {c}) = Cardinality(B) - Bit(c \in B)
    BY <1>1, FS_RemoveElement DEF Bit
  <1>4. Cardinality(A \ {c}) = Cardinality(B \ {c})
    BY Zenon
  <1> QED
    BY <1>1, <1>2, <1>3, <1>4 DEF Bit

(* The counters go on being right. *)
LEMMA BecomesCounters ==
  ASSUME Typed, SchedCounters, NEW c \in Threads, NEW o \in OpType, Becomes(c, o)
  PROVE  SchedCounters' /\ nactive' \in Int /\ nasync' \in Int
  <1> DEFINE A == {d \in Threads : ~FreeOp(op[d])}
             B == {d \in Threads : Open(op[d]) /\ op[d].type = "async"}
  <1>1. op'[c] = o /\ \A d \in Threads \ {c} : op'[d] = op[d]
    BY BecomesOp DEF Typed
  <1>2. /\ A \subseteq Threads /\ A' \subseteq Threads
        /\ B \subseteq Threads /\ B' \subseteq Threads
    OBVIOUS
  <1>3. IsFiniteSet(A) /\ IsFiniteSet(A') /\ IsFiniteSet(B) /\ IsFiniteSet(B')
    BY <1>2, FS_Subset, ConstantsAssumption
  <1>4. A \ {c} = A' \ {c} /\ B \ {c} = B' \ {c}
    BY <1>1
  <1>5. /\ c \in A <=> InUse(op[c])
        /\ c \in A' <=> InUse(o)
        /\ c \in B <=> AsyncOpen(op[c])
        /\ c \in B' <=> AsyncOpen(o)
    BY <1>1 DEF InUse, AsyncOpen
  <1>6. nactive = Cardinality(A) /\ nasync = Cardinality(B)
    BY DEF SchedCounters
  <1> HIDE DEF A, B
  <1>7. Cardinality(A') = Cardinality(A) + Bit(c \in A') - Bit(c \in A)
    BY <1>3, <1>4, CountChange
  <1>8. Cardinality(B') = Cardinality(B) + Bit(c \in B') - Bit(c \in B)
    BY <1>3, <1>4, CountChange
  <1>9. /\ Bit(c \in A) = Bit(InUse(op[c])) /\ Bit(c \in A') = Bit(InUse(o))
        /\ Bit(c \in B) = Bit(AsyncOpen(op[c])) /\ Bit(c \in B') = Bit(AsyncOpen(o))
    BY <1>5, Zenon DEF Bit
  <1>10. nactive' = Cardinality(A') /\ nasync' = Cardinality(B')
    BY <1>6, <1>7, <1>8, <1>9 DEF Becomes
  <1>11. SchedCounters'
    BY <1>10 DEF SchedCounters, A, B
  <1>12. Cardinality(A') \in Nat /\ Cardinality(B') \in Nat
    BY <1>3, FS_CardinalityType
  <1> QED
    BY <1>10, <1>11, <1>12

(* A step that changes the operation of c keeps the invariant when it      *)
(* keeps what the invariant says of c and of the control.                  *)
LEMMA BecomesInv ==
  ASSUME Inv, NEW c \in Threads, NEW o \in OpType, Becomes(c, o), Others(c),
         FlagsInv(c)', WaitInv(c)', EventInv(c)', ControlTyped', StackInv'
  PROVE  Inv'
  <1>1. Typed /\ CoInv /\ SchedCounters
    BY DEF Inv
  <1>2. SchedCounters' /\ nactive' \in Int /\ nasync' \in Int
    BY <1>1, BecomesCounters
  <1>3. op' \in [Threads -> OpType]
    BY <1>1, BecomesOp DEF Typed
  <1>4. CoInv'
    BY <1>1, OthersKept
  <1> QED
    BY <1>2, <1>3, <1>4 DEF Inv, Typed

(* And so does one that does not change it. *)
LEMMA KeepsInv ==
  ASSUME Inv, NEW c \in Threads, UNCHANGED <<op, nactive, nasync>>, Others(c),
         FlagsInv(c)', WaitInv(c)', EventInv(c)', ControlTyped', StackInv'
  PROVE  Inv'
  <1>1. CoInv'
    BY OthersKept DEF Inv
  <1>2. SchedCounters'
    BY DEF Inv, SchedCounters
  <1>3. Typed'
    BY DEF Inv, Typed
  <1> QED
    BY <1>1, <1>2, <1>3 DEF Inv

-----------------------------------------------------------------------------
(* Lua code. *)

(* k_endop of a coroutine that other Lua code resumes. *)
LEMMA EndOpHaltedStep ==
  ASSUME Inv, NEW c \in Threads, kf[c] = "endop", EndOpHalted(c), nactive' = nactive
  PROVE  \E o \in OpType :
           /\ Becomes(c, o)
           /\ o.R = op[c].R /\ o.S = op[c].S /\ ~o.P /\ o.type = op[c].type
           /\ \/ /\ op[c].type = "async" /\ c \notin expected /\ o.C /\ ~o.closing
                 /\ expected' = expected /\ due' = due
              \/ /\ op[c].type = "async" /\ ~o.C
                 /\ o.closing <=> ~o.R
                 /\ expected' = expected \ {c} /\ due' = due /\ c \in expected
              \/ /\ op[c].type = "process" /\ ~o.C
                 /\ o.closing <=> ~o.R
                 /\ expected' = expected \ {c} /\ due' = due \ {c}
              \/ /\ op[c].type \notin {"async", "process"} /\ ~o.C
                 /\ o.closing <=> ~o.R
                 /\ expected' = expected /\ due' = due
  <1> DEFINE o == [op[c] EXCEPT !.P = FALSE]
  <1>1. op[c] \in OpType /\ nasync \in Int /\ nactive \in Int
    BY DEF Inv, Typed
  <1>2. FlagsInv(c) /\ WaitInv(c) /\ EventInv(c)
    BY DEF Inv, CoInv
  <1>3. /\ o \in OpType /\ ~o.P /\ o.R = op[c].R /\ o.S = op[c].S
        /\ o.C = op[c].C /\ o.type = op[c].type /\ o.closing = op[c].closing
    BY <1>1, FlagFields
  <1>4. /\ op[c].type = want[c] /\ ~op[c].C /\ ~op[c].closing /\ ~FreeOp(op[c])
        /\ op[c].type = "async" => ~op[c].R
    BY <1>2 DEF WaitInv, FlagsInv, FreeOp
  <1>5. /\ FreeOp(o) <=> FreeOp(op[c])
        /\ Open(o) <=> Open(op[c])
    BY <1>3 DEF FreeOp, Open
  <1>6. \/ /\ want[c] = "async" /\ c \notin expected
           /\ op' = [op EXCEPT ![c] = [o EXCEPT !.C = TRUE]]
           /\ nasync' = nasync /\ expected' = expected /\ due' = due
        \/ /\ want[c] = "async" /\ c \in expected
           /\ op' = [op EXCEPT ![c] = CancelOp(o)]
           /\ nasync' = nasync - AsyncClosed(o)
           /\ expected' = expected \ {c} /\ due' = due
        \/ /\ want[c] # "async"
           /\ Canceled(c, o)
    BY DEF EndOpHalted
  <1> HIDE DEF o
  <1>7. CASE want[c] = "async" /\ c \notin expected
    <2> DEFINE x == [o EXCEPT !.C = TRUE]
    <2>1. /\ x \in OpType /\ ~x.P /\ x.R = o.R /\ x.S = o.S
          /\ x.C /\ x.type = o.type /\ x.closing = o.closing
      BY <1>3, FlagFields
    <2>2. op' = [op EXCEPT ![c] = x]
      BY <1>6, <1>7
    <2>3. nasync' = nasync /\ expected' = expected /\ due' = due
      BY <1>6, <1>7
    <2> HIDE DEF x
    <2>4. Becomes(c, x)
      BY <1>1, <1>3, <1>5, <2>1, <2>2, <2>3
         DEF Becomes, Bit, InUse, AsyncOpen, FreeOp, Open
    <2> QED
      BY <1>3, <1>4, <1>7, <2>1, <2>3, <2>4
  <1>8. CASE ~(want[c] = "async" /\ c \notin expected)
    <2> DEFINE x == CancelOp(o)
    <2>1. /\ x \in OpType /\ x.P = o.P /\ x.R = o.R /\ x.S = o.S
          /\ x.C = o.C /\ x.type = o.type /\ (x.closing <=> (o.closing \/ ~o.R))
          /\ ~Open(x) /\ (FreeOp(x) <=> FreeOp(o))
          /\ AsyncClosed(o) = IF Open(o) /\ o.type = "async" THEN 1 ELSE 0
      BY <1>3, CancelFields
    <2>2. op' = [op EXCEPT ![c] = x] /\ nasync' = nasync - AsyncClosed(o)
      BY <1>6, <1>8 DEF Canceled
    <2>3. /\ want[c] = "async" => expected' = expected \ {c} /\ due' = due
          /\ want[c] = "process" => expected' = expected \ {c} /\ due' = due \ {c}
          /\ want[c] \notin {"async", "process"} => expected' = expected /\ due' = due
      BY <1>3, <1>4, <1>6, <1>8 DEF Canceled
    <2> HIDE DEF x
    <2>4. Becomes(c, x)
      BY <1>1, <1>3, <1>5, <2>2, CancelBecomes DEF x
    <2>5. /\ op[c].type = "async" => c \in expected
          /\ o.R \in BOOLEAN /\ (x.closing <=> ~x.R)
      BY <1>3, <1>4, <1>8, <2>1 DEF OpType
    <2>6. ~x.P /\ ~x.C
      BY <1>3, <1>4, <2>1
    <2>7. x.R = op[c].R /\ x.S = op[c].S /\ x.type = op[c].type
      BY <1>3, <2>1
    <2>8. \/ /\ op[c].type = "async" /\ expected' = expected \ {c}
             /\ due' = due /\ c \in expected
          \/ /\ op[c].type = "process" /\ expected' = expected \ {c}
             /\ due' = due \ {c}
          \/ /\ op[c].type \notin {"async", "process"}
             /\ expected' = expected /\ due' = due
      BY <1>4, <2>3, <2>5
    <2> QED
      BY <2>1, <2>4, <2>5, <2>6, <2>7, <2>8
  <1> QED
    BY <1>7, <1>8

(* coroutine.resume keeps the invariant, whatever the coroutine awaits. *)
LEMMA ResumeInv ==
  ASSUME Inv, NEW c \in Threads, Resume(c)
  PROVE  Inv'
  <1> USE ConstantsAssumption
  <1>1. /\ Lua /\ kf[c] \in Suspended
        /\ kf' = [kf EXCEPT ![c] = "running"]
        /\ current' = c /\ resumer' = [resumer EXCEPT ![c] = current]
        /\ want' = want /\ saved' = saved /\ nactive' = nactive
        /\ phase' = phase /\ once' = once /\ stop' = stop /\ token' = token
        /\ cb' = cb /\ fired' = fired
    BY DEF Resume, Enter, loopVars
  <1>2. Typed /\ ControlTyped /\ CoInv /\ StackInv
    BY DEF Inv, Typed
  <1>3. /\ FlagsInv(c) /\ WaitInv(c) /\ EventInv(c) /\ op[c] \in OpType
        /\ op \in [Threads -> OpType]
    BY <1>2 DEF CoInv, Typed
  <1>4. ~InCallback(c, "req") /\ ~InCallback(c, "hdl") /\ current # Loop
    BY <1>1, <1>2 DEF StackInv, Lua, InCallback, Suspended, Executing
  <1>5. /\ ~InCallback(c, "req")' /\ ~InCallback(c, "hdl")'
        /\ kf'[c] = "running" /\ want'[c] = want[c]
    BY <1>1, <1>2, <1>4 DEF InCallback, ControlTyped
  <1>6. StackInv'
    BY <1>1, <1>2, <1>4 DEF StackInv, ControlTyped, Executing, Lua, Suspended
  <1>7. ASSUME expected' \subseteq expected, due' \subseteq due
        PROVE  ControlTyped'
    BY <1>1, <1>2, <1>4, <1>7 DEF ControlTyped, Executing
  <1>8. ASSUME \A d \in Threads \ {c} : op'[d] = op[d],
               expected' \in {expected, expected \ {c}}, due' \in {due, due \ {c}}
        PROVE  Others(c)
    BY <1>1, <1>2, <1>8 DEF Others, InCallback, ControlTyped
  <1>9. CASE kf[c] = "normal"
    <2>1. op' = op /\ nasync' = nasync /\ expected' = expected /\ due' = due
      BY <1>9 DEF Resume
    <2>2. FlagsInv(c)'
      BY <1>1, <1>3, <1>4, <1>5, <2>1 DEF FlagsInv, FreeOp, Open
    <2>3. WaitInv(c)'
      BY <1>3, <1>5, <1>9, <2>1 DEF WaitInv
    <2>4. EventInv(c)'
      BY <1>3, <2>1 DEF EventInv
    <2>5. ControlTyped' /\ Others(c)
      BY <1>7, <1>8, <2>1
    <2> QED
      BY <1>1, <1>6, <2>1, <2>2, <2>3, <2>4, <2>5, KeepsInv
  <1>10. CASE kf[c] = "reset"
    <2> DEFINE o == [op[c] EXCEPT !.P = FALSE]
    <2>1. /\ o \in OpType /\ ~o.P /\ o.R = op[c].R /\ o.S = op[c].S
          /\ o.C = op[c].C /\ o.type = op[c].type /\ o.closing = op[c].closing
      BY <1>3, FlagFields
    <2>2. op' = [op EXCEPT ![c] = o] /\ nasync' = nasync
      BY <1>10 DEF Resume
    <2> HIDE DEF o
    <2>3. expected' = expected /\ due' = due
      BY <1>10 DEF Resume
    <2>4. Becomes(c, o)
      BY <1>1, <1>2, <2>1, <2>2 DEF Becomes, Bit, InUse, AsyncOpen, FreeOp, Open, Typed
    <2>5. op'[c] = o /\ \A d \in Threads \ {c} : op'[d] = op[d]
      BY <1>3, <2>1, <2>4, BecomesOp
    <2>6. FlagsInv(c)'
      BY <1>1, <1>3, <1>4, <1>5, <1>10, <2>1, <2>3, <2>5
         DEF FlagsInv, WaitInv, FreeOp, Open
    <2>7. WaitInv(c)'
      BY <1>5, <2>1, <2>5 DEF WaitInv
    <2>8. EventInv(c)'
      BY <1>3, <1>10, <2>1, <2>3, <2>5 DEF EventInv, WaitInv, Open
    <2>9. ControlTyped' /\ Others(c)
      BY <1>7, <1>8, <2>3, <2>5
    <2> QED
      BY <1>6, <2>1, <2>4, <2>6, <2>7, <2>8, <2>9, BecomesInv
  <1>11. CASE kf[c] = "endop"
    <2>1. PICK o \in OpType :
           /\ Becomes(c, o)
           /\ o.R = op[c].R /\ o.S = op[c].S /\ ~o.P /\ o.type = op[c].type
           /\ \/ /\ op[c].type = "async" /\ c \notin expected /\ o.C /\ ~o.closing
                 /\ expected' = expected /\ due' = due
              \/ /\ op[c].type = "async" /\ ~o.C
                 /\ o.closing <=> ~o.R
                 /\ expected' = expected \ {c} /\ due' = due /\ c \in expected
              \/ /\ op[c].type = "process" /\ ~o.C
                 /\ o.closing <=> ~o.R
                 /\ expected' = expected \ {c} /\ due' = due \ {c}
              \/ /\ op[c].type \notin {"async", "process"} /\ ~o.C
                 /\ o.closing <=> ~o.R
                 /\ expected' = expected /\ due' = due
      BY <1>1, <1>11, EndOpHaltedStep DEF Resume
    <2>2. op'[c] = o /\ \A d \in Threads \ {c} : op'[d] = op[d]
      BY <1>3, <2>1, BecomesOp
    <2>3. FlagsInv(c)'
      BY <1>1, <1>3, <1>4, <1>5, <1>11, <2>1, <2>2
         DEF FlagsInv, WaitInv, EventInv, FreeOp, Open, OpType
    <2>4. WaitInv(c)'
      BY <1>5, <2>1, <2>2 DEF WaitInv
    <2>5. EventInv(c)'
      BY <1>3, <1>11, <2>1, <2>2 DEF EventInv, WaitInv, FlagsInv, Open, OpType
    <2>6. ControlTyped' /\ Others(c)
      BY <1>7, <1>8, <2>1, <2>2
    <2> QED
      BY <1>6, <2>1, <2>3, <2>4, <2>5, <2>6, BecomesInv
  <1> QED
    BY <1>1, <1>9, <1>10, <1>11 DEF Suspended

(* What the control becomes when the coroutine being executed stops. *)
LEMMA ExitControl ==
  ASSUME ControlTyped, StackInv, NEW c \in Threads, NEW k \in Suspended \cup {"dead"},
         current = c, kf[c] \in Executing, Exit(c, k), cb' = cb, phase' = phase
  PROVE  /\ StackInv'
         /\ kf' \in [Threads -> Suspended \cup Executing \cup {"dead"}]
         /\ current' \in Threads \cup {Main, Loop}
         /\ resumer' \in [Threads \cup {Loop} -> Threads \cup {Main, Loop, None}]
         /\ kf'[c] = k /\ \A d \in Threads \ {c} : kf'[d] = kf[d]
  <1> USE ConstantsAssumption
  <1>1. /\ kf' = [kf EXCEPT ![c] = k] /\ current' = resumer[c]
        /\ resumer' = [resumer EXCEPT ![c] = None]
    BY DEF Exit
  <1>2. /\ kf'[c] = k /\ \A d \in Threads \ {c} : kf'[d] = kf[d]
        /\ \A d \in (Threads \cup {Loop}) \ {c} : resumer'[d] = resumer[d]
        /\ k \notin Executing
    BY <1>1 DEF ControlTyped, Suspended, Executing
  <1>3. /\ kf' \in [Threads -> Suspended \cup Executing \cup {"dead"}]
        /\ resumer' \in [Threads \cup {Loop} -> Threads \cup {Main, Loop, None}]
    BY <1>1 DEF ControlTyped
  <1>4. resumer[c] \in Threads \cup {Main, Loop}
    BY DEF ControlTyped, StackInv
  <1>5. resumer[c] = Loop <=> cb.kind # "none" /\ cb.thread = c
    BY DEF StackInv
  <1>6. StackInv'
    BY <1>1, <1>2, <1>4, <1>5 DEF StackInv, ControlTyped
  <1> QED
    BY <1>1, <1>2, <1>3, <1>4, <1>6

(* What it becomes when it goes on executing. *)
LEMMA GoesOnControl ==
  ASSUME ControlTyped, StackInv, NEW c \in Threads, NEW k \in Executing,
         kf[c] \in Executing, kf' = [kf EXCEPT ![c] = k],
         current' = current, resumer' = resumer, cb' = cb, phase' = phase
  PROVE  /\ StackInv'
         /\ kf' \in [Threads -> Suspended \cup Executing \cup {"dead"}]
         /\ current' \in Threads \cup {Main, Loop}
         /\ resumer' \in [Threads \cup {Loop} -> Threads \cup {Main, Loop, None}]
         /\ kf'[c] = k /\ \A d \in Threads \ {c} : kf'[d] = kf[d]
  BY DEF StackInv, ControlTyped

(* coroutine.close leaves the operation as it is. *)
LEMMA CloseCoInv ==
  ASSUME Inv, NEW c \in Threads, CloseCo(c)
  PROVE  Inv'
  <1> USE ConstantsAssumption
  <1>1. /\ Lua /\ kf[c] \in Suspended
        /\ kf' = [kf EXCEPT ![c] = "dead"]
        /\ op' = op /\ want' = want /\ saved' = saved
        /\ nasync' = nasync /\ nactive' = nactive
        /\ expected' = expected /\ due' = due
        /\ current' = current /\ resumer' = resumer
        /\ phase' = phase /\ once' = once /\ stop' = stop /\ token' = token
        /\ cb' = cb /\ fired' = fired
    BY DEF CloseCo, opVars, evVars, loopVars
  <1>2. ControlTyped /\ StackInv /\ FlagsInv(c) /\ WaitInv(c) /\ EventInv(c)
    BY DEF Inv, Typed, CoInv
  <1>3. kf'[c] = "dead" /\ \A d \in Threads \ {c} : kf'[d] = kf[d]
    BY <1>1, <1>2 DEF ControlTyped
  <1>4. ControlTyped'
    BY <1>1, <1>2 DEF ControlTyped
  <1>5. current # Loop
    BY <1>1 DEF Lua
  <1>6. StackInv'
    BY <1>1, <1>2, <1>3, <1>5 DEF StackInv, Executing, Suspended
  <1>7. FlagsInv(c)' /\ EventInv(c)'
    BY <1>1, <1>2 DEF FlagsInv, EventInv, InCallback
  <1>8. WaitInv(c)'
    BY <1>3 DEF WaitInv
  <1>9. Others(c)
    BY <1>1, <1>3 DEF Others, InCallback
  <1> QED
    BY <1>1, <1>4, <1>6, <1>7, <1>8, <1>9, KeepsInv

(* coroutine.yield, or the end of the coroutine. *)
LEMMA LuaEndsInv ==
  ASSUME Inv, NEW c \in Threads, LuaEnds(c)
  PROVE  Inv'
  <1>1. PICK k \in {"normal", "dead"} :
        /\ current = c /\ kf[c] = "running" /\ Exit(c, k)
        /\ op' = op /\ want' = want /\ saved' = saved
        /\ nasync' = nasync /\ nactive' = nactive
        /\ expected' = expected /\ due' = due
        /\ phase' = phase /\ once' = once /\ stop' = stop /\ token' = token
        /\ cb' = cb /\ fired' = fired
    BY DEF LuaEnds, Yield, Finish, opVars, evVars, loopVars
  <1>2. ControlTyped /\ StackInv /\ FlagsInv(c) /\ WaitInv(c) /\ EventInv(c)
    BY DEF Inv, Typed, CoInv
  <1>3. /\ StackInv'
        /\ kf' \in [Threads -> Suspended \cup Executing \cup {"dead"}]
        /\ current' \in Threads \cup {Main, Loop}
        /\ resumer' \in [Threads \cup {Loop} -> Threads \cup {Main, Loop, None}]
        /\ kf'[c] = k /\ \A d \in Threads \ {c} : kf'[d] = kf[d]
    <2>1. k \in Suspended \cup {"dead"} /\ kf[c] \in Executing
      BY <1>1 DEF Suspended, Executing
    <2> QED
      BY <1>1, <1>2, <2>1, ExitControl
  <1>4. ControlTyped'
    BY <1>1, <1>2, <1>3 DEF ControlTyped
  <1>5. FlagsInv(c)' /\ EventInv(c)'
    BY <1>1, <1>2 DEF FlagsInv, EventInv, InCallback
  <1>6. WaitInv(c)'
    BY <1>1, <1>2, <1>3 DEF WaitInv
  <1>7. Others(c)
    BY <1>1, <1>3 DEF Others, InCallback
  <1> QED
    BY <1>1, <1>3, <1>4, <1>5, <1>6, <1>7, KeepsInv

(* An await function: it sets up the operation, or waits for it to be free.*)
LEMMA AwaitInv ==
  ASSUME Inv, NEW c \in Threads, NEW k \in Kinds, Await(c, k)
  PROVE  Inv'
  <1>1. /\ current = c /\ kf[c] = "running"
        /\ want' = [want EXCEPT ![c] = k]
        /\ saved' = saved /\ nactive' = nactive
        /\ phase' = phase /\ once' = once /\ stop' = stop /\ token' = token
        /\ cb' = cb /\ fired' = fired
    BY DEF Await, loopVars
  <1>2. /\ Typed /\ ControlTyped /\ StackInv /\ FlagsInv(c) /\ WaitInv(c)
        /\ EventInv(c) /\ op \in [Threads -> OpType] /\ op[c] \in OpType
        /\ nasync \in Int /\ nactive \in Int
    BY DEF Inv, Typed, CoInv
  <1>3. /\ want' \in [Threads -> Kinds \cup {"none"}] /\ want'[c] = k
        /\ \A d \in Threads \ {c} : want'[d] = want[d]
    BY <1>1, <1>2 DEF ControlTyped
  <1>4. ~op[c].P /\ c \notin expected /\ (c \in due => op[c].C)
    BY <1>1, <1>2 DEF WaitInv, EventInv
  <1>5. kf[c] \in Executing
    BY <1>1 DEF Executing
  <1>6. /\ InCallback(c, "req")' <=> InCallback(c, "req")
        /\ InCallback(c, "hdl")' <=> InCallback(c, "hdl")
    BY <1>1 DEF InCallback
  <1>7. CASE FreeOp(op[c]) \/ SameOp(op[c], k)
    <2>1. /\ kf' = [kf EXCEPT ![c] = "setup"]
          /\ op' = op /\ nasync' = nasync /\ expected' = expected /\ due' = due
          /\ current' = current /\ resumer' = resumer
      BY <1>7 DEF Await, WaitOp
    <2>2. /\ StackInv'
          /\ kf' \in [Threads -> Suspended \cup Executing \cup {"dead"}]
          /\ current' \in Threads \cup {Main, Loop}
          /\ resumer' \in [Threads \cup {Loop} -> Threads \cup {Main, Loop, None}]
          /\ kf'[c] = "setup" /\ \A d \in Threads \ {c} : kf'[d] = kf[d]
      <3>1. "setup" \in Executing
        BY DEF Executing
      <3> QED
        BY <1>1, <1>2, <1>5, <2>1, <3>1, GoesOnControl
    <2>3. ControlTyped'
      BY <1>1, <1>2, <1>3, <2>1, <2>2 DEF ControlTyped
    <2>4. FlagsInv(c)' /\ EventInv(c)'
      BY <1>1, <1>2, <2>1 DEF FlagsInv, EventInv, InCallback
    <2>5. WaitInv(c)'
      BY <1>2, <1>3, <1>4, <1>6, <1>7, <2>1, <2>2
         DEF WaitInv, FlagsInv, FreeOp, SameOp, Open
    <2>6. Others(c)
      BY <1>1, <1>3, <2>1, <2>2 DEF Others, InCallback
    <2> QED
      BY <1>1, <2>1, <2>2, <2>3, <2>4, <2>5, <2>6, KeepsInv
  <1>8. CASE WaitOp(op[c], k)
    <2> DEFINE o == [op[c] EXCEPT !.P = TRUE]
    <2>1. /\ o \in OpType /\ o.P /\ o.R = op[c].R /\ o.S = op[c].S
          /\ o.C = op[c].C /\ o.type = op[c].type /\ o.closing = op[c].closing
      BY <1>2, FlagFields
    <2>2. /\ Exit(c, "reset")
          /\ op[c].C => /\ op' = [op EXCEPT ![c] = o]
                        /\ nasync' = nasync /\ expected' = expected /\ due' = due
          /\ ~op[c].C => Canceled(c, o)
      BY <1>8 DEF Await, WaitOp
    <2> HIDE DEF o
    <2>3. /\ StackInv'
          /\ kf' \in [Threads -> Suspended \cup Executing \cup {"dead"}]
          /\ current' \in Threads \cup {Main, Loop}
          /\ resumer' \in [Threads \cup {Loop} -> Threads \cup {Main, Loop, None}]
          /\ kf'[c] = "reset" /\ \A d \in Threads \ {c} : kf'[d] = kf[d]
      <3>1. "reset" \in Suspended \cup {"dead"}
        BY DEF Suspended
      <3> QED
        BY <1>1, <1>2, <1>5, <2>2, <3>1, ExitControl
    <2>4. expected' = expected /\ due' = due
      <3>1. ~op[c].C => c \notin due /\ c \notin expected
        BY <1>4
      <3> QED
        BY <2>2, <3>1 DEF Canceled
    <2>5. PICK x \in OpType :
            /\ Becomes(c, x) /\ x.P /\ x.R = op[c].R /\ x.S = op[c].S
            /\ x.C = op[c].C /\ x.type = op[c].type
            /\ op[c].C => x.closing = op[c].closing
            /\ ~op[c].C => (x.closing <=> (op[c].closing \/ ~op[c].R))
      <3>1. /\ FreeOp(o) <=> FreeOp(op[c])
            /\ Open(o) <=> Open(op[c])
        BY <2>1 DEF FreeOp, Open
      <3>2. CASE op[c].C
        <4>1. Becomes(c, o)
          BY <1>1, <1>2, <2>1, <2>2, <3>2
             DEF Becomes, Bit, InUse, AsyncOpen, FreeOp, Open
        <4> QED
          BY <2>1, <3>2, <4>1
      <3>3. CASE ~op[c].C
        <4>1. op' = [op EXCEPT ![c] = CancelOp(o)] /\ nasync' = nasync - AsyncClosed(o)
          BY <2>2, <3>3 DEF Canceled
        <4>2. Becomes(c, CancelOp(o))
          BY <1>1, <1>2, <2>1, <3>1, <4>1, CancelBecomes
        <4>3. /\ CancelOp(o) \in OpType
              /\ CancelOp(o).R = o.R /\ CancelOp(o).S = o.S /\ CancelOp(o).P = o.P
              /\ CancelOp(o).C = o.C /\ CancelOp(o).type = o.type
              /\ CancelOp(o).closing <=> (o.closing \/ ~o.R)
          BY <2>1, CancelFields
        <4> QED
          BY <2>1, <3>3, <4>2, <4>3
      <3> QED
        BY <3>2, <3>3
    <2>6. op'[c] = x /\ \A d \in Threads \ {c} : op'[d] = op[d]
      BY <1>2, <2>5, BecomesOp
    <2>7. FlagsInv(c)'
      BY <1>1, <1>2, <1>4, <1>6, <2>4, <2>5, <2>6 DEF FlagsInv, FreeOp, Open, OpType
    <2>8. WaitInv(c)'
      BY <1>2, <1>3, <1>8, <2>3, <2>5, <2>6 DEF WaitInv, WaitOp, FreeOp, Open
    <2>9. EventInv(c)'
      BY <1>2, <1>4, <2>4, <2>5, <2>6 DEF EventInv, Open, FlagsInv
    <2>10. ControlTyped'
      BY <1>1, <1>2, <1>3, <2>3, <2>4 DEF ControlTyped
    <2>11. Others(c)
      BY <1>1, <1>3, <2>3, <2>4, <2>6 DEF Others, InCallback
    <2> QED
      BY <2>3, <2>5, <2>7, <2>8, <2>9, <2>10, <2>11, BecomesInv
  <1> QED
    BY <1>7, <1>8 DEF WaitOp

-----------------------------------------------------------------------------
(* The setup of an operation. *)

(* The fields of an operation that was armed. *)
LEMMA ArmedFields ==
  ASSUME NEW o \in OpType, NEW k \in Kinds
  PROVE  /\ Armed(o, k) \in OpType /\ Armed(o, k).type = k
         /\ Armed(o, k).P = o.P /\ Armed(o, k).C = o.C
         /\ Armed(o, k).closing = o.closing
         /\ k = "request" => Armed(o, k).S /\ Armed(o, k).R = o.R
         /\ k # "request" => ~Armed(o, k).S /\ ~Armed(o, k).R
  <1>1. k \in Handles \cup {"request"}
    BY ConstantsAssumption
  <1>2. CASE k = "request"
    BY <1>2 DEF Armed, OpType
  <1>3. CASE k # "request"
    BY <1>1, <1>3 DEF Armed, OpType
  <1> QED
    BY <1>2, <1>3

(* What holds of a coroutine that sets up an operation. *)
LEMMA SettingUpFacts ==
  ASSUME Inv, NEW c \in Threads, SettingUp(c)
  PROVE  /\ Typed /\ ControlTyped /\ StackInv /\ FlagsInv(c) /\ WaitInv(c)
         /\ EventInv(c) /\ op \in [Threads -> OpType] /\ op[c] \in OpType
         /\ nasync \in Int /\ nactive \in Int
         /\ current = c /\ kf[c] = "setup" /\ kf[c] \in Executing
         /\ want[c] \in Kinds /\ ~op[c].P /\ ~op[c].C
         /\ c \notin expected /\ c \notin due
         /\ \/ FreeOp(op[c])
            \/ SameOp(op[c], want[c]) /\ InCallback(c, "hdl") /\ ~FreeOp(op[c])
  <1>1. /\ Typed /\ ControlTyped /\ StackInv /\ FlagsInv(c) /\ WaitInv(c)
        /\ EventInv(c) /\ op \in [Threads -> OpType] /\ op[c] \in OpType
        /\ nasync \in Int /\ nactive \in Int
    BY DEF Inv, Typed, CoInv
  <1>2. current = c /\ kf[c] = "setup" /\ kf[c] \in Executing
    BY DEF SettingUp, Executing
  <1>3. /\ want[c] \in Kinds /\ ~op[c].P /\ ~op[c].C
        /\ FreeOp(op[c]) \/ (SameOp(op[c], want[c]) /\ InCallback(c, "hdl"))
    BY <1>1, <1>2 DEF WaitInv
  <1>4. c \notin expected /\ c \notin due
    BY <1>1, <1>3 DEF EventInv
  <1> QED
    BY <1>1, <1>2, <1>3, <1>4 DEF SameOp, FreeOp, Open

(* The setup succeeds. *)
LEMMA SetupYieldInv ==
  ASSUME Inv, NEW c \in Threads, SetupYield(c)
  PROVE  Inv'
  <1> DEFINE k == want[c]
  <1>1. /\ SettingUp(c)
        /\ want' = want /\ due' = due
        /\ phase' = phase /\ once' = once /\ stop' = stop /\ token' = token
        /\ cb' = cb /\ fired' = fired
        /\ Exit(c, "endop")
    BY DEF SetupYield, loopVars
  <1>2. /\ Typed /\ ControlTyped /\ StackInv /\ FlagsInv(c) /\ WaitInv(c)
        /\ EventInv(c) /\ op \in [Threads -> OpType] /\ op[c] \in OpType
        /\ nasync \in Int /\ nactive \in Int
        /\ current = c /\ kf[c] = "setup" /\ kf[c] \in Executing
        /\ k \in Kinds /\ ~op[c].P /\ ~op[c].C
        /\ c \notin expected /\ c \notin due
        /\ \/ FreeOp(op[c])
           \/ SameOp(op[c], k) /\ InCallback(c, "hdl") /\ ~FreeOp(op[c])
    BY <1>1, SettingUpFacts
  <1>3. /\ StackInv'
        /\ kf' \in [Threads -> Suspended \cup Executing \cup {"dead"}]
        /\ current' \in Threads \cup {Main, Loop}
        /\ resumer' \in [Threads \cup {Loop} -> Threads \cup {Main, Loop, None}]
        /\ kf'[c] = "endop" /\ \A d \in Threads \ {c} : kf'[d] = kf[d]
    <2>1. "endop" \in Suspended \cup {"dead"}
      BY DEF Suspended
    <2> QED
      BY <1>1, <1>2, <2>1, ExitControl
  <1>4. /\ k \in {"async", "process"} => expected' = expected \cup {c}
        /\ k \notin {"async", "process"} => expected' = expected
    BY DEF SetupYield
  <1>5. /\ InCallback(c, "req")' <=> InCallback(c, "req")
        /\ InCallback(c, "hdl")' <=> InCallback(c, "hdl")
    BY <1>1 DEF InCallback
  <1>6. k \in Handles \cup {"request"} /\ k # "unknown" /\ "request" \notin Handles
    BY <1>2, ConstantsAssumption DEF Handles
  <1>7. \E x \in OpType :
          /\ Becomes(c, x) /\ x.P /\ ~x.C /\ ~x.closing /\ x.type = k
          /\ x.R <=> k = "request"
          /\ x.S <=> k = "request"
          /\ c \in saved' /\ saved' \in {saved, saved \cup {c}}
          /\ ~InCallback(c, "hdl") \/ k # "request"
    <2>1. CASE FreeOp(op[c])
      <3> DEFINE a == Armed(op[c], k)
                 x == [a EXCEPT !.P = TRUE]
      <3>1. /\ op' = [op EXCEPT ![c] = x]
            /\ Arm(c, k)
        BY <2>1 DEF SetupYield
      <3>2. /\ a \in OpType /\ a.type = k
            /\ a.C = op[c].C /\ a.closing = op[c].closing
            /\ k = "request" => a.S /\ a.R = op[c].R
            /\ k # "request" => ~a.S /\ ~a.R
        BY <1>2, ArmedFields
      <3> HIDE DEF a
      <3>3. /\ x \in OpType /\ x.P /\ x.R = a.R /\ x.S = a.S
            /\ x.C = a.C /\ x.type = a.type /\ x.closing = a.closing
        BY <3>2, FlagFields
      <3> HIDE DEF x
      <3>4. ~op[c].closing /\ op[c].R /\ op[c].type = "unknown"
        BY <1>2, <2>1 DEF FreeOp, FlagsInv
      <3>5. /\ nactive' = nactive + 1
            /\ nasync' = nasync + Bit(k = "async")
        BY <1>2, <3>1 DEF Arm, Bit
      <3>6. ~InUse(op[c]) /\ ~AsyncOpen(op[c])
        BY <3>4 DEF InUse, FreeOp, AsyncOpen, Open
      <3>7. InUse(x) /\ (AsyncOpen(x) <=> k = "async")
        BY <1>2, <1>6, <3>2, <3>3, <3>4 DEF InUse, FreeOp, AsyncOpen, Open
      <3>8. Becomes(c, x)
        BY <1>2, <3>1, <3>5, <3>6, <3>7 DEF Becomes, Bit
      <3>9. c \in saved' /\ saved' \in {saved, saved \cup {c}}
        BY <1>2, <2>1, <3>1 DEF Arm, FlagsInv
      <3>10. ~InCallback(c, "hdl")
        BY <1>2, <3>4 DEF FlagsInv
      <3> QED
        BY <1>2, <3>2, <3>3, <3>4, <3>8, <3>9, <3>10
    <2>2. CASE ~FreeOp(op[c])
      <3> DEFINE x == [op[c] EXCEPT !.P = TRUE]
      <3>1. /\ op' = [op EXCEPT ![c] = x]
            /\ saved' = saved /\ nasync' = nasync /\ nactive' = nactive
        BY <2>2 DEF SetupYield
      <3>2. /\ x \in OpType /\ x.P /\ x.R = op[c].R /\ x.S = op[c].S
            /\ x.C = op[c].C /\ x.type = op[c].type /\ x.closing = op[c].closing
        BY <1>2, FlagFields
      <3> HIDE DEF x
      <3>3. SameOp(op[c], k)
        BY <1>2, <2>2
      <3>4. ~op[c].R /\ ~op[c].closing /\ op[c].type = k /\ ~op[c].S /\ k # "request"
        BY <1>2, <1>6, <3>3 DEF SameOp, Open, FlagsInv
      <3>5. Becomes(c, x)
        BY <1>2, <3>1, <3>2 DEF Becomes, Bit, InUse, AsyncOpen, FreeOp, Open
      <3>6. c \in saved
        BY <1>2, <2>2 DEF FlagsInv
      <3> QED
        BY <1>2, <3>1, <3>2, <3>4, <3>5, <3>6
    <2> QED
      BY <2>1, <2>2
  <1>8. PICK x \in OpType :
          /\ Becomes(c, x) /\ x.P /\ ~x.C /\ ~x.closing /\ x.type = k
          /\ x.R <=> k = "request"
          /\ x.S <=> k = "request"
          /\ c \in saved' /\ saved' \in {saved, saved \cup {c}}
          /\ ~InCallback(c, "hdl") \/ k # "request"
    BY <1>7
  <1>9. op'[c] = x /\ \A d \in Threads \ {c} : op'[d] = op[d]
    BY <1>2, <1>8, BecomesOp
  <1> HIDE DEF k
  <1>10. FlagsInv(c)'
    BY <1>1, <1>5, <1>6, <1>8, <1>9 DEF FlagsInv, FreeOp, Open
  <1>11. WaitInv(c)'
    <2>1. want'[c] = k
      BY <1>1 DEF k
    <2> QED
      BY <1>3, <1>4, <1>6, <1>8, <1>9, <2>1 DEF WaitInv
  <1>12. EventInv(c)'
    BY <1>1, <1>2, <1>4, <1>8, <1>9 DEF EventInv, Open
  <1>13. ControlTyped'
    BY <1>1, <1>2, <1>3, <1>4, <1>8 DEF ControlTyped
  <1>14. Others(c)
    BY <1>1, <1>3, <1>4, <1>8, <1>9 DEF Others, InCallback
  <1> QED
    BY <1>3, <1>8, <1>10, <1>11, <1>12, <1>13, <1>14, BecomesInv

(* The setup returns to the coroutine, without an operation. *)
LEMMA SetupReturnInv ==
  ASSUME Inv, NEW c \in Threads, SetupReturn(c)
  PROVE  Inv'
  <1>1. /\ SettingUp(c) /\ Canceled(c, op[c])
        /\ kf' = [kf EXCEPT ![c] = "running"]
        /\ want' = want /\ saved' = saved /\ nactive' = nactive
        /\ current' = current /\ resumer' = resumer
        /\ phase' = phase /\ once' = once /\ stop' = stop /\ token' = token
        /\ cb' = cb /\ fired' = fired
    BY DEF SetupReturn, loopVars
  <1>2. /\ Typed /\ ControlTyped /\ StackInv /\ FlagsInv(c) /\ WaitInv(c)
        /\ EventInv(c) /\ op \in [Threads -> OpType] /\ op[c] \in OpType
        /\ nasync \in Int /\ nactive \in Int
        /\ current = c /\ kf[c] = "setup" /\ kf[c] \in Executing
        /\ want[c] \in Kinds /\ ~op[c].P /\ ~op[c].C
        /\ c \notin expected /\ c \notin due
        /\ \/ FreeOp(op[c])
           \/ SameOp(op[c], want[c]) /\ InCallback(c, "hdl") /\ ~FreeOp(op[c])
    BY <1>1, SettingUpFacts
  <1>3. /\ StackInv'
        /\ kf' \in [Threads -> Suspended \cup Executing \cup {"dead"}]
        /\ current' \in Threads \cup {Main, Loop}
        /\ resumer' \in [Threads \cup {Loop} -> Threads \cup {Main, Loop, None}]
        /\ kf'[c] = "running" /\ \A d \in Threads \ {c} : kf'[d] = kf[d]
    <2>1. "running" \in Executing
      BY DEF Executing
    <2> QED
      BY <1>1, <1>2, <2>1, GoesOnControl
  <1>4. expected' = expected /\ due' = due
    BY <1>1, <1>2 DEF Canceled
  <1> DEFINE x == CancelOp(op[c])
  <1>5. /\ x \in OpType /\ x.R = op[c].R /\ x.S = op[c].S /\ x.P = op[c].P
        /\ x.C = op[c].C /\ x.type = op[c].type
        /\ x.closing <=> (op[c].closing \/ ~op[c].R)
    BY <1>2, CancelFields
  <1>6. Becomes(c, x)
    BY <1>1, <1>2, CancelBecomes DEF Canceled
  <1> HIDE DEF x
  <1>7. op'[c] = x /\ \A d \in Threads \ {c} : op'[d] = op[d]
    BY <1>2, <1>5, <1>6, BecomesOp
  <1>8. /\ InCallback(c, "req")' <=> InCallback(c, "req")
        /\ InCallback(c, "hdl")' <=> InCallback(c, "hdl")
    BY <1>1 DEF InCallback
  <1>9. FlagsInv(c)'
    BY <1>1, <1>2, <1>4, <1>5, <1>7, <1>8 DEF FlagsInv, FreeOp, Open, OpType
  <1>10. WaitInv(c)'
    BY <1>2, <1>3, <1>5, <1>7 DEF WaitInv
  <1>11. EventInv(c)'
    BY <1>2, <1>4 DEF EventInv
  <1>12. ControlTyped'
    BY <1>1, <1>2, <1>3, <1>4 DEF ControlTyped
  <1>13. Others(c)
    BY <1>1, <1>3, <1>4, <1>7 DEF Others, InCallback
  <1> QED
    BY <1>3, <1>5, <1>6, <1>9, <1>10, <1>11, <1>12, <1>13, BecomesInv

(* The setup fails to start the handle, and closes it. *)
LEMMA SetupFailsInv ==
  ASSUME Inv, NEW c \in Threads, SetupFails(c)
  PROVE  Inv'
  <1> DEFINE k == want[c]
             a == Armed(op[c], k)
             x == CancelOp(a)
  <1>1. /\ SettingUp(c) /\ k \in {"process", "signal"} /\ FreeOp(op[c])
        /\ op' = [op EXCEPT ![c] = x] /\ Arm(c, k)
        /\ kf' = [kf EXCEPT ![c] = "running"]
        /\ want' = want /\ expected' = expected /\ due' = due
        /\ current' = current /\ resumer' = resumer
        /\ phase' = phase /\ once' = once /\ stop' = stop /\ token' = token
        /\ cb' = cb /\ fired' = fired
    BY DEF SetupFails, loopVars, evVars
  <1>2. /\ Typed /\ ControlTyped /\ StackInv /\ FlagsInv(c) /\ WaitInv(c)
        /\ EventInv(c) /\ op \in [Threads -> OpType] /\ op[c] \in OpType
        /\ nasync \in Int /\ nactive \in Int
        /\ current = c /\ kf[c] = "setup" /\ kf[c] \in Executing
        /\ k \in Kinds /\ ~op[c].P /\ ~op[c].C
        /\ c \notin expected /\ c \notin due
    BY <1>1, SettingUpFacts
  <1>3. /\ StackInv'
        /\ kf' \in [Threads -> Suspended \cup Executing \cup {"dead"}]
        /\ current' \in Threads \cup {Main, Loop}
        /\ resumer' \in [Threads \cup {Loop} -> Threads \cup {Main, Loop, None}]
        /\ kf'[c] = "running" /\ \A d \in Threads \ {c} : kf'[d] = kf[d]
    <2>1. "running" \in Executing
      BY DEF Executing
    <2> QED
      BY <1>1, <1>2, <2>1, GoesOnControl
  <1>4. /\ a \in OpType /\ a.type = k /\ a.C = op[c].C /\ a.P = op[c].P
        /\ ~a.S /\ ~a.R
    BY <1>1, <1>2, ArmedFields
  <1> HIDE DEF a
  <1>5. /\ x \in OpType /\ x.R = a.R /\ x.S = a.S /\ x.P = a.P
        /\ x.C = a.C /\ x.type = a.type
        /\ x.closing <=> (a.closing \/ ~a.R)
    BY <1>4, CancelFields
  <1> HIDE DEF x
  <1>6. Becomes(c, x)
    <2>1. nactive' = nactive + 1 /\ nasync' = nasync
      BY <1>1 DEF Arm
    <2>2. ~InUse(op[c]) /\ ~AsyncOpen(op[c])
      BY <1>1 DEF InUse, FreeOp, AsyncOpen, Open
    <2>3. InUse(x) /\ ~AsyncOpen(x)
      BY <1>4, <1>5 DEF InUse, FreeOp, AsyncOpen, Open
    <2> QED
      BY <1>1, <1>2, <2>1, <2>2, <2>3 DEF Becomes, Bit
  <1>7. op'[c] = x /\ \A d \in Threads \ {c} : op'[d] = op[d]
    BY <1>2, <1>5, <1>6, BecomesOp
  <1>8. /\ InCallback(c, "req")' <=> InCallback(c, "req")
        /\ InCallback(c, "hdl")' <=> InCallback(c, "hdl")
    BY <1>1 DEF InCallback
  <1>9. c \in saved' /\ saved' \in {saved, saved \cup {c}}
    BY <1>1, <1>2 DEF Arm, FlagsInv
  <1>10. FlagsInv(c)'
    <2>1. k \in Handles /\ k # "request"
      BY <1>1 DEF Handles
    <2>2. ~InCallback(c, "hdl")
      BY <1>1, <1>2 DEF FlagsInv, FreeOp
    <2> QED
      BY <1>2, <1>4, <1>5, <1>7, <1>8, <1>9, <2>1, <2>2 DEF FlagsInv, FreeOp, Open
  <1>11. WaitInv(c)'
    BY <1>2, <1>3, <1>4, <1>5, <1>7 DEF WaitInv
  <1>12. EventInv(c)'
    BY <1>1, <1>2 DEF EventInv
  <1>13. ControlTyped'
    BY <1>1, <1>2, <1>3, <1>9 DEF ControlTyped
  <1>14. Others(c)
    BY <1>1, <1>3, <1>7, <1>9 DEF Others, InCallback
  <1> QED
    BY <1>3, <1>5, <1>6, <1>10, <1>11, <1>12, <1>13, <1>14, BecomesInv

(* The setup raises an error. *)
LEMMA SetupErrorInv ==
  ASSUME Inv, NEW c \in Threads, SetupError(c)
  PROVE  Inv'
  <1>1. /\ SettingUp(c)
        /\ kf' = [kf EXCEPT ![c] = "running"]
        /\ op' = op /\ want' = want /\ saved' = saved
        /\ nasync' = nasync /\ nactive' = nactive
        /\ expected' = expected /\ due' = due
        /\ current' = current /\ resumer' = resumer
        /\ phase' = phase /\ once' = once /\ stop' = stop /\ token' = token
        /\ cb' = cb /\ fired' = fired
    BY DEF SetupError, opVars, evVars, loopVars
  <1>2. /\ ControlTyped /\ StackInv /\ FlagsInv(c) /\ EventInv(c)
        /\ kf[c] \in Executing /\ ~op[c].P
    BY <1>1, SettingUpFacts
  <1>3. /\ StackInv'
        /\ kf' \in [Threads -> Suspended \cup Executing \cup {"dead"}]
        /\ kf'[c] = "running" /\ \A d \in Threads \ {c} : kf'[d] = kf[d]
    <2>1. "running" \in Executing
      BY DEF Executing
    <2> QED
      BY <1>1, <1>2, <2>1, GoesOnControl
  <1>4. ControlTyped'
    BY <1>1, <1>2, <1>3 DEF ControlTyped
  <1>5. FlagsInv(c)' /\ EventInv(c)'
    BY <1>1, <1>2 DEF FlagsInv, EventInv, InCallback
  <1>6. WaitInv(c)'
    BY <1>1, <1>2, <1>3 DEF WaitInv
  <1>7. Others(c)
    BY <1>1, <1>3 DEF Others, InCallback
  <1> QED
    BY <1>1, <1>3, <1>4, <1>5, <1>6, <1>7, KeepsInv

-----------------------------------------------------------------------------
(* The loop, and the events of other threads. *)

(* Steps of the loop only change the control. *)
LEMMA ControlStepInv ==
  ASSUME Inv, op' = op, want' = want, saved' = saved, nasync' = nasync,
         nactive' = nactive, expected' = expected, due' = due, kf' = kf, cb' = cb,
         ControlTyped', StackInv'
  PROVE  Inv'
  <1>1. Typed' /\ SchedCounters'
    BY DEF Inv, Typed, SchedCounters
  <1>2. CoInv'
    <2>1. SUFFICES ASSUME NEW c \in Threads
                   PROVE  FlagsInv(c)' /\ WaitInv(c)' /\ EventInv(c)'
      BY DEF CoInv
    <2>2. FlagsInv(c) /\ WaitInv(c) /\ EventInv(c)
      BY DEF Inv, CoInv
    <2> QED
      BY <2>2 DEF FlagsInv, WaitInv, EventInv, InCallback
  <1> QED
    BY <1>1, <1>2 DEF Inv

(* system.run. *)
LEMMA RunInv ==
  ASSUME Inv, NEW m \in BOOLEAN, Run(m)
  PROVE  Inv'
  <1> USE ConstantsAssumption
  <1>1. /\ Lua /\ phase = "off" /\ once' = m
        /\ resumer' = [resumer EXCEPT ![Loop] = current] /\ current' = Loop
        /\ phase' \in {"yielded", "timers"} /\ fired' = {}
        /\ op' = op /\ want' = want /\ saved' = saved /\ nasync' = nasync
        /\ nactive' = nactive /\ expected' = expected /\ due' = due /\ kf' = kf
        /\ stop' = stop /\ token' = token /\ cb' = cb
    BY DEF Run, opVars, evVars
  <1>2. ControlTyped /\ StackInv
    BY DEF Inv, Typed
  <1>3. current \in Threads \cup {Main}
    BY <1>1, <1>2 DEF Lua
  <1>4. ControlTyped'
    BY <1>1, <1>2, <1>3 DEF ControlTyped, Phases
  <1>5. StackInv'
    BY <1>1, <1>2, <1>3 DEF StackInv, ControlTyped
  <1> QED
    BY <1>1, <1>4, <1>5, ControlStepInv

(* system.halt, the phases of uv_run, and a task that is resumed. *)
LEMMA PhaseInv ==
  ASSUME Inv, Halt \/ NextPhase \/ TaskResumed
  PROVE  Inv'
  <1>1. /\ op' = op /\ want' = want /\ saved' = saved /\ nasync' = nasync
        /\ nactive' = nactive /\ expected' = expected /\ due' = due /\ kf' = kf
        /\ current' = current /\ resumer' = resumer
        /\ once' = once /\ token' = token /\ cb' = cb
    BY DEF Halt, NextPhase, TaskResumed, opVars, evVars, luaVars
  <1>2. ControlTyped /\ StackInv
    BY DEF Inv, Typed
  <1>3. /\ phase # "off" /\ phase' # "off" /\ phase' \in Phases
        /\ fired' \subseteq Threads /\ stop' \in BOOLEAN
    BY <1>2 DEF Halt, NextPhase, TaskResumed, ControlTyped, Phases
  <1>4. ControlTyped'
    BY <1>1, <1>2, <1>3 DEF ControlTyped
  <1>5. StackInv'
    BY <1>1, <1>2, <1>3 DEF StackInv
  <1> QED
    BY <1>1, <1>4, <1>5, ControlStepInv

(* uv_run returns. *)
LEMMA RunReturnsInv ==
  ASSUME Inv, RunReturns
  PROVE  Inv'
  <1> USE ConstantsAssumption
  <1>1. /\ Looping /\ phase = "closing"
        /\ op' = op /\ want' = want /\ saved' = saved /\ nasync' = nasync
        /\ nactive' = nactive /\ expected' = expected /\ due' = due /\ kf' = kf
        /\ stop' = FALSE /\ token' = FALSE /\ cb' = cb /\ fired' = {}
    BY DEF RunReturns, opVars, evVars
  <1>2. ControlTyped /\ StackInv
    BY DEF Inv, Typed
  <1>3. \/ /\ phase' = "yielded" /\ current' = current /\ resumer' = resumer
           /\ once' = once
        \/ /\ phase' = "off" /\ current' = resumer[Loop]
           /\ resumer' = [resumer EXCEPT ![Loop] = None] /\ once' = FALSE
    BY DEF RunReturns
  <1>4. resumer[Loop] \in Threads \cup {Main} /\ cb.kind = "none"
    BY <1>1, <1>2 DEF StackInv, Looping
  <1>5. ControlTyped'
    BY <1>1, <1>2, <1>3, <1>4 DEF ControlTyped, Phases
  <1>6. StackInv'
    BY <1>1, <1>2, <1>3, <1>4 DEF StackInv, ControlTyped, Looping
  <1> QED
    BY <1>1, <1>5, <1>6, ControlStepInv

(* A channel is matched, or a process ends. *)
LEMMA TriggerInv ==
  ASSUME Inv, NEW c \in Threads, Trigger(c)
  PROVE  Inv'
  <1>1. /\ c \in expected /\ expected' = expected \ {c} /\ due' = due \cup {c}
        /\ op' = op /\ want' = want /\ saved' = saved /\ nasync' = nasync
        /\ nactive' = nactive /\ kf' = kf /\ current' = current
        /\ resumer' = resumer /\ phase' = phase /\ once' = once /\ stop' = stop
        /\ token' = token /\ cb' = cb /\ fired' = fired
    BY DEF Trigger, opVars, luaVars, loopVars
  <1>2. ControlTyped /\ StackInv /\ FlagsInv(c) /\ WaitInv(c) /\ EventInv(c)
    BY DEF Inv, Typed, CoInv
  <1>3. ControlTyped' /\ StackInv'
    BY <1>1, <1>2 DEF ControlTyped, StackInv
  <1>4. FlagsInv(c)'
    BY <1>1, <1>2 DEF FlagsInv, InCallback
  <1>5. WaitInv(c)'
    BY <1>1, <1>2 DEF WaitInv, InCallback
  <1>6. EventInv(c)'
    BY <1>1, <1>2 DEF EventInv
  <1>7. Others(c)
    BY <1>1 DEF Others, InCallback
  <1> QED
    BY <1>1, <1>3, <1>4, <1>5, <1>6, <1>7, KeepsInv

-----------------------------------------------------------------------------
(* The callbacks of libuv. *)

(* lcuU_checksuspend only stops the loop. *)
LEMMA CheckSuspendType == CheckSuspend => stop' \in BOOLEAN /\ token' \in BOOLEAN
  BY DEF CheckSuspend

(* What holds when the loop calls a callback of the operation of c. *)
LEMMA LoopingFacts ==
  ASSUME Inv, NEW c \in Threads, Looping
  PROVE  /\ Typed /\ ControlTyped /\ StackInv /\ FlagsInv(c) /\ WaitInv(c)
         /\ EventInv(c) /\ op \in [Threads -> OpType] /\ op[c] \in OpType
         /\ nasync \in Int /\ nactive \in Int
         /\ current = Loop /\ cb.kind = "none" /\ phase # "off"
         /\ \A d \in Threads : /\ ~InCallback(d, "req") /\ ~InCallback(d, "hdl")
                               /\ kf[d] \in Executing => resumer[d] # Loop
         /\ op[c].P => kf[c] \in {"endop", "reset", "dead"}
         /\ kf[c] = "setup" => FreeOp(op[c])
  <1>1. /\ Typed /\ ControlTyped /\ StackInv /\ FlagsInv(c) /\ WaitInv(c)
        /\ EventInv(c) /\ op \in [Threads -> OpType] /\ op[c] \in OpType
        /\ nasync \in Int /\ nactive \in Int
    BY DEF Inv, Typed, CoInv
  <1>2. current = Loop /\ cb.kind = "none" /\ phase # "off"
    BY <1>1 DEF Looping, StackInv
  <1>3. \A d \in Threads : /\ ~InCallback(d, "req") /\ ~InCallback(d, "hdl")
                           /\ kf[d] \in Executing => resumer[d] # Loop
    BY <1>1, <1>2 DEF InCallback, StackInv
  <1>4. /\ op[c].P => kf[c] \in {"endop", "reset", "dead"}
        /\ kf[c] = "setup" => FreeOp(op[c])
    BY <1>1, <1>3 DEF WaitInv
  <1> QED
    BY <1>1, <1>2, <1>3, <1>4

(* The coroutine that a callback resumes is executed, unless it was closed.*)
LEMMA ResumeThreadControl ==
  ASSUME Inv, NEW c \in Threads, NEW kind \in {"req", "hdl"}, Looping,
         ResumeThread(c, kind), phase' = phase
  PROVE  /\ StackInv'
         /\ kf' \in [Threads -> Suspended \cup Executing \cup {"dead"}]
         /\ current' \in Threads \cup {Main, Loop}
         /\ resumer' \in [Threads \cup {Loop} -> Threads \cup {Main, Loop, None}]
         /\ cb' \in [kind: {"none", "req", "hdl"}, thread: Threads \cup {None}]
         /\ stop' = stop /\ token' = token
         /\ \A d \in Threads \ {c} : kf'[d] = kf[d]
         /\ \A d \in Threads, k \in {"req", "hdl"} :
              InCallback(d, k)' <=> d = c /\ k = kind
         /\ \/ kf[c] = "endop" /\ kf'[c] = "running"
            \/ kf[c] = "reset" /\ kf'[c] = "setup"
            \/ kf[c] = "dead" /\ kf'[c] = "dead"
  <1> USE ConstantsAssumption
  <1>1. /\ cb' = [kind |-> kind, thread |-> c] /\ stop' = stop /\ token' = token
    BY DEF ResumeThread
  <1>2. /\ ControlTyped /\ StackInv /\ current = Loop /\ cb.kind = "none"
        /\ phase # "off"
        /\ \A d \in Threads : kf[d] \in Executing => resumer[d] # Loop
    BY LoopingFacts
  <1>3. /\ cb'.kind = kind /\ cb'.thread = c
        /\ cb' \in [kind: {"none", "req", "hdl"}, thread: Threads \cup {None}]
        /\ \A d \in Threads, k \in {"req", "hdl"} :
             InCallback(d, k)' <=> d = c /\ k = kind
    BY <1>1 DEF InCallback
  <1>4. \/ \E k \in Executing :
             /\ kf' = [kf EXCEPT ![c] = k] /\ current' = c
             /\ resumer' = [resumer EXCEPT ![c] = Loop]
             /\ <<kf[c], k>> \in {<<"endop", "running">>, <<"reset", "setup">>}
        \/ /\ kf[c] = "dead" /\ kf' = kf /\ current' = current /\ resumer' = resumer
    BY DEF ResumeThread, Enter, Executing, luaVars
  <1>5. CASE \E k \in Executing :
             /\ kf' = [kf EXCEPT ![c] = k] /\ current' = c
             /\ resumer' = [resumer EXCEPT ![c] = Loop]
             /\ <<kf[c], k>> \in {<<"endop", "running">>, <<"reset", "setup">>}
    <2>1. PICK k \in Executing :
             /\ kf' = [kf EXCEPT ![c] = k] /\ current' = c
             /\ resumer' = [resumer EXCEPT ![c] = Loop]
             /\ <<kf[c], k>> \in {<<"endop", "running">>, <<"reset", "setup">>}
      BY <1>5
    <2>2. /\ kf' \in [Threads -> Suspended \cup Executing \cup {"dead"}]
          /\ resumer' \in [Threads \cup {Loop} -> Threads \cup {Main, Loop, None}]
          /\ \A d \in Threads \ {c} : kf'[d] = kf[d]
          /\ \A d \in (Threads \cup {Loop}) \ {c} : resumer'[d] = resumer[d]
          /\ kf'[c] = k /\ resumer'[c] = Loop /\ current' = c
      BY <1>2, <2>1 DEF ControlTyped
    <2>3. StackInv'
      BY <1>2, <1>3, <2>2 DEF StackInv
    <2> QED
      BY <1>1, <1>3, <2>1, <2>2, <2>3
  <1>6. CASE kf[c] = "dead" /\ kf' = kf /\ current' = current /\ resumer' = resumer
    <2>1. StackInv'
      BY <1>2, <1>3, <1>6 DEF StackInv, Executing
    <2> QED
      BY <1>1, <1>2, <1>3, <1>6, <2>1 DEF ControlTyped
  <1> QED
    BY <1>4, <1>5, <1>6

(* The flag of a pending coroutine is cleared by the function it continues.*)
LEMMA ResumedFields ==
  ASSUME NEW o \in OpType, NEW c \in Threads
  PROVE  /\ Resumed(o, c) \in OpType
         /\ Resumed(o, c).R = o.R /\ Resumed(o, c).S = o.S
         /\ Resumed(o, c).C = o.C /\ Resumed(o, c).type = o.type
         /\ Resumed(o, c).closing = o.closing
         /\ kf[c] # "dead" => ~Resumed(o, c).P
         /\ kf[c] = "dead" => Resumed(o, c).P = o.P
  <1>1. CASE kf[c] = "dead"
    BY <1>1 DEF Resumed
  <1>2. CASE kf[c] # "dead"
    <2>1. Resumed(o, c) = [o EXCEPT !.P = FALSE]
      BY <1>2 DEF Resumed
    <2> DEFINE x == [o EXCEPT !.P = FALSE]
    <2>2. /\ x \in OpType /\ ~x.P /\ x.R = o.R /\ x.S = o.S
          /\ x.C = o.C /\ x.type = o.type /\ x.closing = o.closing
      BY FlagFields
    <2> HIDE DEF x
    <2>3. Resumed(o, c) = x
      BY <2>1 DEF x
    <2> QED
      BY <1>2, <2>2, <2>3
  <1> QED
    BY <1>1, <1>2

(* An operation becomes the free request x, in the callback of a request   *)
(* or of uv_close, and the coroutine that waits for it is resumed.         *)
LEMMA FreedResumed ==
  ASSUME Inv, NEW c \in Threads, NEW o \in OpType, Looping, ~FreeOp(op[c]), ~op[c].C,
         ~Open(op[c]), o.R, o.S, ~o.C, ~o.closing, o.type = "unknown", op[c].P,
         op' = [op EXCEPT ![c] = Resumed(o, c)], nactive' = nactive - 1,
         nasync' = nasync, ResumeThread(c, "req"), fired' = fired \cup {c},
         saved' = saved, want' = want, expected' = expected, due' = due,
         phase' = phase, once' = once
  PROVE  Inv'
  <1> DEFINE x == Resumed(o, c)
  <1>1. /\ x \in OpType /\ x.R /\ x.S /\ ~x.C /\ ~x.closing /\ x.type = "unknown"
        /\ kf[c] # "dead" => ~x.P
    BY ResumedFields
  <1>2. /\ ControlTyped /\ StackInv /\ FlagsInv(c) /\ WaitInv(c)
        /\ EventInv(c) /\ op \in [Threads -> OpType] /\ op[c] \in OpType
        /\ nasync \in Int /\ nactive \in Int
        /\ \A d \in Threads : ~InCallback(d, "req") /\ ~InCallback(d, "hdl")
    BY LoopingFacts
  <1>3. /\ StackInv'
        /\ kf' \in [Threads -> Suspended \cup Executing \cup {"dead"}]
        /\ current' \in Threads \cup {Main, Loop}
        /\ resumer' \in [Threads \cup {Loop} -> Threads \cup {Main, Loop, None}]
        /\ cb' \in [kind: {"none", "req", "hdl"}, thread: Threads \cup {None}]
        /\ stop' = stop /\ token' = token
        /\ \A d \in Threads \ {c} : kf'[d] = kf[d]
        /\ \A d \in Threads, k \in {"req", "hdl"} :
             InCallback(d, k)' <=> d = c /\ k = "req"
        /\ \/ kf[c] = "endop" /\ kf'[c] = "running"
           \/ kf[c] = "reset" /\ kf'[c] = "setup"
           \/ kf[c] = "dead" /\ kf'[c] = "dead"
    BY ResumeThreadControl
  <1> HIDE DEF x
  <1>4. Becomes(c, x)
    <2>1. FreeOp(x) /\ ~Open(x)
      BY <1>1 DEF FreeOp, Open
    <2> QED
      BY <1>2, <2>1 DEF Becomes, Bit, InUse, AsyncOpen, x
  <1>5. op'[c] = x /\ \A d \in Threads \ {c} : op'[d] = op[d]
    BY <1>1, <1>2, <1>4, BecomesOp
  <1>6. /\ InCallback(c, "req")' /\ ~InCallback(c, "hdl")'
        /\ \A d \in Threads \ {c} : ~InCallback(d, "req")' /\ ~InCallback(d, "hdl")'
    BY <1>3
  <1>7. c \in saved
    BY <1>2 DEF FlagsInv
  <1>8. FlagsInv(c)'
    BY <1>1, <1>5, <1>6, <1>7 DEF FlagsInv, FreeOp, Open
  <1>9. WaitInv(c)'
    BY <1>1, <1>2, <1>3, <1>5 DEF WaitInv, FreeOp
  <1>10. EventInv(c)'
    BY <1>2 DEF EventInv
  <1>11. ControlTyped'
    BY <1>2, <1>3 DEF ControlTyped
  <1>12. Others(c)
    BY <1>2, <1>3, <1>5, <1>6 DEF Others
  <1> QED
    BY <1>1, <1>3, <1>4, <1>8, <1>9, <1>10, <1>11, <1>12, BecomesInv

(* An operation becomes a free request, and nobody waits for it. *)
LEMMA FreedReleased ==
  ASSUME Inv, NEW c \in Threads, NEW x \in OpType, Looping, ~FreeOp(op[c]), ~op[c].C,
         ~Open(op[c]), x.R, ~x.S, ~x.C, ~x.closing, x.type = "unknown",
         ~op[c].P, ~x.P,
         op' = [op EXCEPT ![c] = x], nactive' = nactive - 1, nasync' = nasync,
         kf' = kf, current' = current, resumer' = resumer, cb' = cb,
         stop' \in BOOLEAN, token' \in BOOLEAN, fired' = fired \cup {c},
         saved' = saved \ {c}, want' = want, expected' = expected, due' = due,
         phase' = phase, once' = once
  PROVE  Inv'
  <1>1. /\ ControlTyped /\ StackInv /\ FlagsInv(c) /\ WaitInv(c)
        /\ EventInv(c) /\ op \in [Threads -> OpType] /\ op[c] \in OpType
        /\ nasync \in Int /\ nactive \in Int
        /\ \A d \in Threads : ~InCallback(d, "req") /\ ~InCallback(d, "hdl")
    BY LoopingFacts
  <1>2. Becomes(c, x)
    <2>1. FreeOp(x) /\ ~Open(x)
      BY DEF FreeOp, Open
    <2> QED
      BY <1>1, <2>1 DEF Becomes, Bit, InUse, AsyncOpen
  <1>3. op'[c] = x /\ \A d \in Threads \ {c} : op'[d] = op[d]
    BY <1>1, <1>2, BecomesOp
  <1>4. \A d \in Threads : ~InCallback(d, "req")' /\ ~InCallback(d, "hdl")'
    BY <1>1 DEF InCallback
  <1>5. FlagsInv(c)'
    BY <1>3, <1>4 DEF FlagsInv, FreeOp, Open
  <1>6. WaitInv(c)'
    BY <1>1, <1>3 DEF WaitInv, FreeOp
  <1>7. EventInv(c)'
    BY <1>1 DEF EventInv
  <1>8. ControlTyped' /\ StackInv'
    BY <1>1 DEF ControlTyped, StackInv
  <1>9. Others(c)
    BY <1>1, <1>3, <1>4 DEF Others
  <1> QED
    BY <1>2, <1>5, <1>6, <1>7, <1>8, <1>9, BecomesInv

(* The callback of a request. *)
LEMMA RequestDoneInv ==
  ASSUME Inv, NEW c \in Threads, RequestDone(c)
  PROVE  Inv'
  <1> DEFINE o == [op[c] EXCEPT !.type = "unknown"]
  <1>1. /\ Looping /\ RequestCallback(c) /\ fired' = fired \cup {c}
        /\ nactive' = nactive - 1 /\ nasync' = nasync
        /\ want' = want /\ expected' = expected /\ due' = due
        /\ phase' = phase /\ once' = once
        /\ \/ /\ o.P /\ op' = [op EXCEPT ![c] = Resumed(o, c)]
              /\ ResumeThread(c, "req") /\ saved' = saved
           \/ /\ ~o.P /\ op' = [op EXCEPT ![c] = [o EXCEPT !.S = FALSE, !.C = FALSE]]
              /\ saved' = saved \ {c} /\ kf' = kf /\ current' = current
              /\ resumer' = resumer /\ cb' = cb /\ CheckSuspend
    BY DEF RequestDone, Ready, evVars, luaVars
  <1>2. FlagsInv(c) /\ op[c] \in OpType
    BY <1>1, LoopingFacts
  <1>3. /\ op[c].R /\ op[c].type = "request" /\ op[c].S /\ ~op[c].C /\ ~op[c].closing
        /\ ~FreeOp(op[c]) /\ ~Open(op[c])
    BY <1>1, <1>2 DEF RequestCallback, FlagsInv, FreeOp, Open
  <1>4. /\ o \in OpType /\ o.R = op[c].R /\ o.S = op[c].S /\ o.P = op[c].P
        /\ o.C = op[c].C /\ o.closing = op[c].closing /\ o.type = "unknown"
    BY <1>2 DEF OpType
  <1> HIDE DEF o
  <1>5. CASE o.P
    BY <1>1, <1>3, <1>4, <1>5, FreedResumed
  <1>6. CASE ~o.P
    <2> DEFINE x == [o EXCEPT !.S = FALSE, !.C = FALSE]
    <2>1. /\ x \in OpType /\ x.R = o.R /\ ~x.S /\ x.P = o.P
          /\ ~x.C /\ x.closing = o.closing /\ x.type = o.type
      BY <1>4 DEF OpType
    <2>2. op' = [op EXCEPT ![c] = x]
      BY <1>1, <1>6
    <2> HIDE DEF x
    <2>3. stop' \in BOOLEAN /\ token' \in BOOLEAN
      BY <1>1, <1>6, CheckSuspendType
    <2>4. /\ saved' = saved \ {c} /\ kf' = kf /\ current' = current
          /\ resumer' = resumer /\ cb' = cb
      BY <1>1, <1>6
    <2>5. x.R /\ ~x.closing /\ x.type = "unknown" /\ ~x.P /\ ~op[c].P
      BY <1>3, <1>4, <1>6, <2>1
    <2> QED
      BY <1>1, <1>3, <2>1, <2>2, <2>3, <2>4, <2>5, FreedReleased
  <1> QED
    BY <1>5, <1>6

(* The callback of uv_close. *)
LEMMA ClosedInv ==
  ASSUME Inv, NEW c \in Threads, Closed(c)
  PROVE  Inv'
  <1> DEFINE o == [op[c] EXCEPT !.R = TRUE, !.S = TRUE, !.closing = FALSE,
                                !.type = "unknown"]
  <1>1. /\ Looping /\ CloseCallback(c) /\ fired' = fired \cup {c}
        /\ nactive' = nactive - 1 /\ nasync' = nasync
        /\ want' = want /\ expected' = expected /\ due' = due
        /\ phase' = phase /\ once' = once
        /\ \/ /\ o.P /\ op' = [op EXCEPT ![c] = Resumed(o, c)]
              /\ ResumeThread(c, "req") /\ saved' = saved
           \/ /\ ~o.P /\ op' = [op EXCEPT ![c] = [o EXCEPT !.S = FALSE]]
              /\ saved' = saved \ {c} /\ kf' = kf /\ current' = current
              /\ resumer' = resumer /\ cb' = cb /\ stop' = stop /\ token' = token
    BY DEF Closed, Ready, evVars, luaVars
  <1>2. /\ FlagsInv(c) /\ op[c] \in OpType /\ stop \in BOOLEAN /\ token \in BOOLEAN
    BY <1>1, LoopingFacts DEF ControlTyped
  <1>3. ~op[c].R /\ op[c].closing /\ ~op[c].C /\ ~FreeOp(op[c]) /\ ~Open(op[c])
    BY <1>1, <1>2 DEF CloseCallback, FlagsInv, FreeOp, Open
  <1>4. /\ o \in OpType /\ o.R /\ o.S /\ o.P = op[c].P
        /\ o.C = op[c].C /\ ~o.closing /\ o.type = "unknown"
    BY <1>2 DEF OpType
  <1> HIDE DEF o
  <1>5. CASE o.P
    BY <1>1, <1>3, <1>4, <1>5, FreedResumed
  <1>6. CASE ~o.P
    <2> DEFINE x == [o EXCEPT !.S = FALSE]
    <2>1. /\ x \in OpType /\ x.R = o.R /\ ~x.S /\ x.P = o.P
          /\ x.C = o.C /\ x.closing = o.closing /\ x.type = o.type
      BY <1>4 DEF OpType
    <2>2. op' = [op EXCEPT ![c] = x]
      BY <1>1, <1>6
    <2> HIDE DEF x
    <2>3. /\ saved' = saved \ {c} /\ kf' = kf /\ current' = current
          /\ resumer' = resumer /\ cb' = cb /\ stop' \in BOOLEAN /\ token' \in BOOLEAN
      BY <1>1, <1>2, <1>6
    <2>4. x.R /\ ~x.closing /\ x.type = "unknown" /\ ~x.P /\ ~op[c].P /\ ~x.C
      BY <1>3, <1>4, <1>6, <2>1
    <2> QED
      BY <1>1, <1>3, <2>1, <2>2, <2>3, <2>4, FreedReleased
  <1> QED
    BY <1>5, <1>6

(* A callback of a handle resumes the coroutine that awaits it. *)
LEMMA HandleResumed ==
  ASSUME Inv, NEW c \in Threads, Looping, Open(op[c]), op[c].P, ~op[c].C,
         c \notin expected,
         op' = [op EXCEPT ![c] = Resumed(op[c], c)], nactive' = nactive,
         nasync' = nasync, ResumeThread(c, "hdl"), fired' = fired \cup {c},
         saved' = saved, want' = want, expected' = expected, due' = due \ {c},
         phase' = phase, once' = once
  PROVE  Inv'
  <1> DEFINE x == Resumed(op[c], c)
  <1>1. /\ ControlTyped /\ StackInv /\ FlagsInv(c) /\ WaitInv(c)
        /\ EventInv(c) /\ op \in [Threads -> OpType] /\ op[c] \in OpType
        /\ nasync \in Int /\ nactive \in Int
        /\ \A d \in Threads : ~InCallback(d, "req") /\ ~InCallback(d, "hdl")
    BY LoopingFacts
  <1>2. /\ x \in OpType /\ x.R = op[c].R /\ x.S = op[c].S /\ x.C = op[c].C
        /\ x.closing = op[c].closing /\ x.type = op[c].type
        /\ kf[c] # "dead" => ~x.P
    BY <1>1, ResumedFields
  <1>3. /\ StackInv'
        /\ kf' \in [Threads -> Suspended \cup Executing \cup {"dead"}]
        /\ current' \in Threads \cup {Main, Loop}
        /\ resumer' \in [Threads \cup {Loop} -> Threads \cup {Main, Loop, None}]
        /\ cb' \in [kind: {"none", "req", "hdl"}, thread: Threads \cup {None}]
        /\ stop' = stop /\ token' = token
        /\ \A d \in Threads \ {c} : kf'[d] = kf[d]
        /\ \A d \in Threads, k \in {"req", "hdl"} :
             InCallback(d, k)' <=> d = c /\ k = "hdl"
        /\ \/ kf[c] = "endop" /\ kf'[c] = "running"
           \/ kf[c] = "reset" /\ kf'[c] = "setup"
           \/ kf[c] = "dead" /\ kf'[c] = "dead"
    BY ResumeThreadControl
  <1> HIDE DEF x
  <1>4. Becomes(c, x)
    BY <1>1, <1>2 DEF Becomes, Bit, InUse, AsyncOpen, FreeOp, Open, x
  <1>5. op'[c] = x /\ \A d \in Threads \ {c} : op'[d] = op[d]
    BY <1>1, <1>2, <1>4, BecomesOp
  <1>6. /\ ~InCallback(c, "req")' /\ InCallback(c, "hdl")'
        /\ \A d \in Threads \ {c} : ~InCallback(d, "req")' /\ ~InCallback(d, "hdl")'
    BY <1>3
  <1>7. FlagsInv(c)'
    BY <1>1, <1>2, <1>5, <1>6 DEF FlagsInv, FreeOp, Open
  <1>8. WaitInv(c)'
    BY <1>1, <1>2, <1>3, <1>5 DEF WaitInv
  <1>9. EventInv(c)'
    BY DEF EventInv
  <1>10. ControlTyped'
    BY <1>1, <1>3 DEF ControlTyped
  <1>11. Others(c)
    BY <1>1, <1>3, <1>5, <1>6 DEF Others
  <1> QED
    BY <1>2, <1>3, <1>4, <1>7, <1>8, <1>9, <1>10, <1>11, BecomesInv

(* The callbacks of timers, idles, signals and processes. *)
LEMMA HandleReadyInv ==
  ASSUME Inv, NEW c \in Threads, HandleReady(c)
  PROVE  Inv'
  <1>1. /\ Looping /\ Open(op[c]) /\ op[c].type # "async"
        /\ op[c].type = "process" => c \in due
        /\ fired' = fired \cup {c} /\ due' = due \ {c}
        /\ op' = [op EXCEPT ![c] = Resumed(op[c], c)] /\ ResumeThread(c, "hdl")
        /\ want' = want /\ saved' = saved /\ nasync' = nasync /\ nactive' = nactive
        /\ expected' = expected /\ phase' = phase /\ once' = once
    BY DEF HandleReady, Ready
  <1>2. FlagsInv(c) /\ EventInv(c) /\ ~InCallback(c, "hdl")
    BY <1>1, LoopingFacts
  <1>3. op[c].P /\ ~op[c].C /\ c \notin expected
    BY <1>1, <1>2 DEF FlagsInv, EventInv
  <1> QED
    BY <1>1, <1>3, HandleResumed

(* The callback of awaitch. *)
LEMMA SyncedInv ==
  ASSUME Inv, NEW c \in Threads, Synced(c)
  PROVE  Inv'
  <1>1. /\ Looping /\ Open(op[c]) /\ op[c].type = "async" /\ c \in due
        /\ fired' = fired \cup {c} /\ due' = due \ {c}
        /\ want' = want /\ saved' = saved /\ nactive' = nactive
        /\ expected' = expected /\ phase' = phase /\ once' = once
        /\ \/ /\ op[c].P /\ ~op[c].C /\ op' = [op EXCEPT ![c] = Resumed(op[c], c)]
              /\ ResumeThread(c, "hdl") /\ nasync' = nasync
           \/ /\ ~op[c].P \/ op[c].C
              /\ op' = [op EXCEPT ![c] = CancelOp([op[c] EXCEPT !.C = FALSE])]
              /\ nasync' = nasync - AsyncClosed(op[c])
              /\ kf' = kf /\ current' = current /\ resumer' = resumer /\ cb' = cb
              /\ CheckSuspend
    BY DEF Synced, Ready, luaVars
  <1>2. /\ ControlTyped /\ StackInv /\ FlagsInv(c) /\ WaitInv(c)
        /\ EventInv(c) /\ op \in [Threads -> OpType] /\ op[c] \in OpType
        /\ nasync \in Int /\ nactive \in Int
        /\ \A d \in Threads : ~InCallback(d, "req") /\ ~InCallback(d, "hdl")
        /\ kf[c] = "setup" => FreeOp(op[c])
    BY <1>1, LoopingFacts
  <1>3. c \notin expected
    BY <1>1, <1>2 DEF EventInv
  <1>4. CASE op[c].P /\ ~op[c].C
    BY <1>1, <1>3, <1>4, HandleResumed
  <1>5. CASE ~op[c].P \/ op[c].C
    <2> DEFINE o == [op[c] EXCEPT !.C = FALSE]
               x == CancelOp(o)
    <2>1. /\ o \in OpType /\ ~o.C /\ o.R = op[c].R /\ o.S = op[c].S
          /\ o.P = op[c].P /\ o.type = op[c].type /\ o.closing = op[c].closing
      BY <1>2, FlagFields
    <2>2. /\ op' = [op EXCEPT ![c] = x] /\ nasync' = nasync - AsyncClosed(op[c])
          /\ kf' = kf /\ current' = current /\ resumer' = resumer /\ cb' = cb
          /\ CheckSuspend
      BY <1>1, <1>5
    <2> HIDE DEF o
    <2>3. /\ FreeOp(o) <=> FreeOp(op[c])
          /\ Open(o) <=> Open(op[c])
      BY <2>1 DEF FreeOp, Open
    <2>4. AsyncClosed(o) = AsyncClosed(op[c])
      BY <1>1, <2>1, <2>3 DEF AsyncClosed
    <2>5. Becomes(c, x)
      BY <1>1, <1>2, <2>1, <2>2, <2>3, <2>4, CancelBecomes
    <2>6. /\ x \in OpType /\ x.R = o.R /\ x.S = o.S /\ x.P = o.P
          /\ x.C = o.C /\ x.type = o.type
          /\ x.closing <=> (o.closing \/ ~o.R)
          /\ ~Open(x)
      BY <2>1, CancelFields
    <2> HIDE DEF x
    <2>7. op'[c] = x /\ \A d \in Threads \ {c} : op'[d] = op[d]
      BY <1>2, <2>5, <2>6, BecomesOp
    <2>8. \A d \in Threads : ~InCallback(d, "req")' /\ ~InCallback(d, "hdl")'
      BY <1>2, <2>2 DEF InCallback
    <2>9. ~x.R /\ ~x.S /\ ~x.C /\ x.type = "async" /\ x.closing /\ ~FreeOp(x)
      BY <1>1, <1>2, <2>1, <2>6 DEF FlagsInv, Open, FreeOp
    <2>10. FlagsInv(c)'
      BY <1>1, <1>2, <2>7, <2>8, <2>9 DEF FlagsInv, Open, FreeOp, Handles
    <2>11. WaitInv(c)'
      BY <1>1, <1>2, <1>5, <2>1, <2>2, <2>6, <2>7, <2>9 DEF WaitInv, FreeOp, Open
    <2>12. EventInv(c)'
      BY <1>1, <1>3 DEF EventInv
    <2>13. stop' \in BOOLEAN /\ token' \in BOOLEAN
      BY <2>2, CheckSuspendType
    <2>14. ControlTyped' /\ StackInv'
      BY <1>1, <1>2, <2>2, <2>13 DEF ControlTyped, StackInv
    <2>15. Others(c)
      BY <1>1, <1>2, <2>2, <2>7, <2>8 DEF Others
    <2> QED
      BY <2>5, <2>6, <2>10, <2>11, <2>12, <2>14, <2>15, BecomesInv
  <1> QED
    BY <1>4, <1>5

(* The callback that resumed a coroutine goes on: nobody is in a callback. *)
LEMMA CallbackEndsControl ==
  ASSUME Inv, NEW c \in Threads, NEW kind \in {"req", "hdl"}, current = Loop,
         cb = [kind |-> kind, thread |-> c], cb' = NoCallback, CheckSuspend,
         kf' = kf, current' = current, resumer' = resumer, phase' = phase
  PROVE  /\ StackInv'
         /\ stop' \in BOOLEAN /\ token' \in BOOLEAN
         /\ cb' \in [kind: {"none", "req", "hdl"}, thread: Threads \cup {None}]
         /\ \A d \in Threads : ~InCallback(d, "req")' /\ ~InCallback(d, "hdl")'
         /\ \A d \in Threads, k \in {"req", "hdl"} :
              InCallback(d, k) <=> d = c /\ k = kind
         /\ kf[c] \notin Executing
  <1> USE ConstantsAssumption
  <1>1. ControlTyped /\ StackInv
    BY DEF Inv, Typed
  <1>2. cb.kind = kind /\ cb.thread = c /\ kind # "none"
    OBVIOUS
  <1>3. cb'.kind = "none" /\ cb'.thread = None
    BY DEF NoCallback
  <1>4. kf[c] \notin Executing /\ phase # "off"
    BY <1>1, <1>2 DEF StackInv
  <1>5. StackInv'
    BY <1>1, <1>2, <1>3, <1>4 DEF StackInv
  <1>6. stop' \in BOOLEAN /\ token' \in BOOLEAN
    BY CheckSuspendType
  <1>7. \A d \in Threads : ~InCallback(d, "req")' /\ ~InCallback(d, "hdl")'
    BY <1>3 DEF InCallback
  <1>8. \A d \in Threads, k \in {"req", "hdl"} : InCallback(d, k) <=> d = c /\ k = kind
    BY DEF InCallback
  <1>9. cb' \in [kind: {"none", "req", "hdl"}, thread: Threads \cup {None}]
    BY DEF NoCallback
  <1> QED
    BY <1>4, <1>5, <1>6, <1>7, <1>8, <1>9

(* The end of lcuU_resumecoreq. *)
LEMMA ReqResumedInv ==
  ASSUME Inv, NEW c \in Threads, ReqResumed(c)
  PROVE  Inv'
  <1>1. /\ current = Loop /\ cb = [kind |-> "req", thread |-> c] /\ cb' = NoCallback
        /\ CheckSuspend /\ nasync' = nasync /\ nactive' = nactive
        /\ want' = want /\ expected' = expected /\ due' = due
        /\ kf' = kf /\ current' = current /\ resumer' = resumer
        /\ phase' = phase /\ once' = once /\ fired' = fired
        /\ \/ /\ FreeOp(op[c]) /\ op' = [op EXCEPT ![c] = [op[c] EXCEPT !.S = FALSE]]
              /\ saved' = saved \ {c}
           \/ ~FreeOp(op[c]) /\ op' = op /\ saved' = saved
    BY DEF ReqResumed, evVars, luaVars
  <1>2. /\ ControlTyped /\ StackInv /\ FlagsInv(c) /\ WaitInv(c)
        /\ EventInv(c) /\ op \in [Threads -> OpType] /\ op[c] \in OpType
        /\ nasync \in Int /\ nactive \in Int
    BY DEF Inv, Typed, CoInv
  <1>3. /\ StackInv'
        /\ stop' \in BOOLEAN /\ token' \in BOOLEAN
        /\ cb' \in [kind: {"none", "req", "hdl"}, thread: Threads \cup {None}]
        /\ \A d \in Threads : ~InCallback(d, "req")' /\ ~InCallback(d, "hdl")'
        /\ \A d \in Threads, k \in {"req", "hdl"} :
             InCallback(d, k) <=> d = c /\ k = "req"
        /\ kf[c] \notin Executing
    BY <1>1, CallbackEndsControl
  <1>4. ~InCallback(c, "hdl") /\ InCallback(c, "req")
    BY <1>3
  <1>5. ControlTyped'
    BY <1>1, <1>2, <1>3 DEF ControlTyped
  <1>7. \A d \in Threads \ {c} : ~InCallback(d, "req") /\ ~InCallback(d, "hdl")
    BY <1>3
  <1>8. CASE FreeOp(op[c])
    <2> DEFINE x == [op[c] EXCEPT !.S = FALSE]
    <2>1. /\ x \in OpType /\ x.R = op[c].R /\ ~x.S /\ x.P = op[c].P
          /\ x.C = op[c].C /\ x.closing = op[c].closing /\ x.type = op[c].type
      BY <1>2 DEF OpType
    <2>2. op' = [op EXCEPT ![c] = x] /\ saved' = saved \ {c}
      BY <1>1, <1>8
    <2> HIDE DEF x
    <2>3. Becomes(c, x)
      BY <1>1, <1>2, <2>1, <2>2 DEF Becomes, Bit, InUse, AsyncOpen, FreeOp, Open
    <2>4. op'[c] = x /\ \A d \in Threads \ {c} : op'[d] = op[d]
      BY <1>2, <2>1, <2>3, BecomesOp
    <2>5. FlagsInv(c)'
      BY <1>2, <1>3, <1>8, <2>1, <2>2, <2>4 DEF FlagsInv, FreeOp, Open
    <2>6. WaitInv(c)'
      BY <1>1, <1>2, <1>3, <1>8, <2>1, <2>4 DEF WaitInv, FreeOp, Open, Executing
    <2>7. EventInv(c)'
      BY <1>1, <1>2, <1>8 DEF EventInv, FreeOp, Open
    <2>8. Others(c)
      BY <1>1, <1>3, <1>7, <2>2, <2>4 DEF Others
    <2> QED
      BY <1>3, <1>5, <2>1, <2>3, <2>5, <2>6, <2>7, <2>8, BecomesInv
  <1>9. CASE ~FreeOp(op[c])
    <2>1. op' = op /\ saved' = saved
      BY <1>1, <1>9
    <2>2. FlagsInv(c)'
      BY <1>1, <1>2, <1>3, <1>4, <1>9, <2>1 DEF FlagsInv
    <2>3. WaitInv(c)'
      BY <1>1, <1>2, <1>3, <2>1 DEF WaitInv, Executing
    <2>4. EventInv(c)'
      BY <1>1, <1>2, <2>1 DEF EventInv
    <2>5. Others(c)
      BY <1>1, <1>3, <1>7, <2>1 DEF Others
    <2> QED
      BY <1>1, <1>3, <1>5, <2>1, <2>2, <2>3, <2>4, <2>5, KeepsInv
  <1> QED
    BY <1>8, <1>9

(* The end of lcuU_resumecohdl. *)
LEMMA HdlResumedInv ==
  ASSUME Inv, NEW c \in Threads, HdlResumed(c)
  PROVE  Inv'
  <1>1. /\ current = Loop /\ cb = [kind |-> "hdl", thread |-> c] /\ cb' = NoCallback
        /\ CheckSuspend /\ nactive' = nactive /\ want' = want /\ saved' = saved
        /\ kf' = kf /\ current' = current /\ resumer' = resumer
        /\ phase' = phase /\ once' = once /\ fired' = fired
        /\ \/ ~op[c].P /\ ~op[c].C /\ Canceled(c, op[c])
           \/ /\ op[c].P \/ op[c].C
              /\ op' = op /\ nasync' = nasync /\ expected' = expected /\ due' = due
    BY DEF HdlResumed, luaVars
  <1>2. /\ ControlTyped /\ StackInv /\ FlagsInv(c) /\ WaitInv(c)
        /\ EventInv(c) /\ op \in [Threads -> OpType] /\ op[c] \in OpType
        /\ nasync \in Int /\ nactive \in Int
    BY DEF Inv, Typed, CoInv
  <1>3. /\ StackInv'
        /\ stop' \in BOOLEAN /\ token' \in BOOLEAN
        /\ cb' \in [kind: {"none", "req", "hdl"}, thread: Threads \cup {None}]
        /\ \A d \in Threads : ~InCallback(d, "req")' /\ ~InCallback(d, "hdl")'
        /\ \A d \in Threads, k \in {"req", "hdl"} :
             InCallback(d, k) <=> d = c /\ k = "hdl"
        /\ kf[c] \notin Executing
    BY <1>1, CallbackEndsControl
  <1>4. InCallback(c, "hdl") /\ ~InCallback(c, "req")
    BY <1>3
  <1>5. \A d \in Threads \ {c} : ~InCallback(d, "req") /\ ~InCallback(d, "hdl")
    BY <1>3
  <1>6. ~op[c].R /\ ~FreeOp(op[c]) /\ c \in saved
    BY <1>2, <1>4 DEF FlagsInv, FreeOp
  <1>7. expected' = expected /\ due' = due
    <2>1. ~op[c].P /\ ~op[c].C => c \notin expected /\ c \notin due
      BY <1>2 DEF EventInv
    <2> QED
      BY <1>1, <2>1 DEF Canceled
  <1>8. ControlTyped'
    BY <1>1, <1>2, <1>3, <1>7 DEF ControlTyped
  <1>9. CASE ~op[c].P /\ ~op[c].C
    <2> DEFINE x == CancelOp(op[c])
    <2>1. /\ x \in OpType /\ x.R = op[c].R /\ x.S = op[c].S /\ x.P = op[c].P
          /\ x.C = op[c].C /\ x.type = op[c].type
          /\ x.closing <=> (op[c].closing \/ ~op[c].R)
      BY <1>2, CancelFields
    <2>2. op' = [op EXCEPT ![c] = x] /\ nasync' = nasync - AsyncClosed(op[c])
      BY <1>1, <1>9 DEF Canceled
    <2>3. Becomes(c, x)
      BY <1>1, <1>2, <2>2, CancelBecomes
    <2> HIDE DEF x
    <2>4. op'[c] = x /\ \A d \in Threads \ {c} : op'[d] = op[d]
      BY <1>2, <2>1, <2>3, BecomesOp
    <2>5. FlagsInv(c)'
      BY <1>1, <1>2, <1>3, <1>6, <1>9, <2>1, <2>4 DEF FlagsInv, FreeOp, Open
    <2>6. WaitInv(c)'
      BY <1>1, <1>2, <1>3, <1>9, <2>1, <2>4 DEF WaitInv, Executing
    <2>7. EventInv(c)'
      BY <1>2, <1>7, <1>9 DEF EventInv
    <2>8. Others(c)
      BY <1>1, <1>3, <1>5, <1>7, <2>4 DEF Others
    <2> QED
      BY <1>3, <1>8, <2>1, <2>3, <2>5, <2>6, <2>7, <2>8, BecomesInv
  <1>10. CASE op[c].P \/ op[c].C
    <2>1. op' = op /\ nasync' = nasync
      BY <1>1, <1>10
    <2>2. FlagsInv(c)'
      BY <1>1, <1>2, <1>3, <1>4, <1>6, <1>7, <1>10, <2>1 DEF FlagsInv
    <2>3. WaitInv(c)'
      BY <1>1, <1>2, <1>3, <1>7, <2>1 DEF WaitInv, Executing
    <2>4. EventInv(c)'
      BY <1>2, <1>7, <2>1 DEF EventInv
    <2>5. Others(c)
      BY <1>1, <1>3, <1>5, <1>7, <2>1 DEF Others
    <2> QED
      BY <1>1, <1>3, <1>8, <2>1, <2>2, <2>3, <2>4, <2>5, KeepsInv
  <1> QED
    BY <1>9, <1>10

-----------------------------------------------------------------------------
(* Every step keeps the invariant. *)
LEMMA NextInv == Inv /\ [Next]_vars => Inv'
  <1> SUFFICES ASSUME Inv, [Next]_vars PROVE Inv'
    OBVIOUS
  <1>1. ASSUME NEW c \in Threads, LuaStep(c) PROVE Inv'
    BY <1>1, ResumeInv, CloseCoInv, AwaitInv DEF LuaStep
  <1>2. ASSUME NEW c \in Threads, SetupStep(c) PROVE Inv'
    BY <1>2, SetupYieldInv, SetupReturnInv, SetupFailsInv, SetupErrorInv DEF SetupStep
  <1>3. ASSUME NEW c \in Threads, CallbackEnds(c) PROVE Inv'
    BY <1>3, ReqResumedInv, HdlResumedInv DEF CallbackEnds
  <1>4. CASE LoopStep
    BY <1>4, PhaseInv, RunReturnsInv DEF LoopStep
  <1>5. CASE UNCHANGED vars
    <2>1. /\ op' = op /\ want' = want /\ saved' = saved /\ nasync' = nasync
          /\ nactive' = nactive /\ expected' = expected /\ due' = due /\ kf' = kf
          /\ current' = current /\ resumer' = resumer /\ phase' = phase
          /\ once' = once /\ stop' = stop /\ token' = token /\ cb' = cb
          /\ fired' = fired
      BY <1>5 DEF vars, opVars, evVars, luaVars, loopVars
    <2>2. ControlTyped' /\ StackInv'
      BY <2>1 DEF Inv, Typed, ControlTyped, StackInv
    <2> QED
      BY <2>1, <2>2, ControlStepInv
  <1> QED
    BY <1>1, <1>2, <1>3, <1>4, <1>5, LuaEndsInv, RunInv, PhaseInv, TriggerInv,
       RequestDoneInv, ClosedInv, HandleReadyInv, SyncedInv DEF Next

(* The invariant of any behaviour. *)
LEMMA InvHolds == Spec => []Inv
  BY InitInv, NextInv, PTL DEF Spec

(* The types of the variables of loperaux.c and lscheduf.c: in particular, *)
(* the counters of the scheduler never become negative.                    *)
THEOREM TypeCorrect == Spec => []TypeOK
  <1>1. Inv => TypeOK
    <2> SUFFICES ASSUME Inv PROVE TypeOK
      OBVIOUS
    <2>1. Typed /\ ControlTyped /\ SchedCounters
      BY DEF Inv, Typed
    <2>2. /\ IsFiniteSet({c \in Threads : ~FreeOp(op[c])})
          /\ IsFiniteSet({c \in Threads : Open(op[c]) /\ op[c].type = "async"})
      BY ConstantsAssumption, FS_Subset
    <2>3. nactive \in Nat /\ nasync \in Nat
      BY <2>1, <2>2, FS_CardinalityType DEF SchedCounters
    <2>4. {once, stop, token} \subseteq BOOLEAN
      BY <2>1 DEF ControlTyped
    <2> QED
      BY <2>1, <2>3, <2>4 DEF TypeOK, Typed, ControlTyped
  <1> QED
    BY <1>1, InvHolds, PTL

(* The operation of a coroutine that was not closed is always in a state   *)
(* of the table of doc/devnotes.md.                                        *)
THEOREM StatesAreDocumented == Spec => []DocumentedStates
  <1>1. Inv => DocumentedStates
    <2> SUFFICES ASSUME Inv, NEW c \in Threads, kf[c] # "dead"
                 PROVE  DocumentedState(c)
      BY DEF DocumentedStates
    <2>1. /\ FlagsInv(c) /\ WaitInv(c) /\ op[c] \in OpType
      BY DEF Inv, Typed, CoInv
    <2>2. /\ op[c].R \in BOOLEAN /\ op[c].S \in BOOLEAN /\ op[c].P \in BOOLEAN
          /\ op[c].C \in BOOLEAN /\ op[c].closing \in BOOLEAN
      BY <2>1 DEF OpType
    <2>3. CASE FreeOp(op[c])
      <3>1. /\ op[c].R = TRUE /\ op[c].C = FALSE /\ op[c].P = FALSE
            /\ kf[c] \notin {"endop", "reset"}
            /\ op[c].S <=> InCallback(c, "req")
        BY <2>1, <2>2, <2>3 DEF FlagsInv, WaitInv, FreeOp
      <3>2. CASE op[c].S = TRUE
        BY <2>3, <3>1, <3>2 DEF DocumentedState, Flags
      <3>3. CASE op[c].S = FALSE
        BY <2>3, <3>1, <3>3 DEF DocumentedState, Flags
      <3> QED
        BY <2>2, <3>2, <3>3
    <2>4. CASE ~FreeOp(op[c]) /\ op[c].R
      <3>1. /\ op[c].R = TRUE /\ op[c].C = FALSE /\ op[c].S = TRUE
            /\ op[c].type = "request" /\ RequestCallback(c)
        BY <2>1, <2>2, <2>4 DEF FlagsInv, FreeOp, RequestCallback
      <3>2. CASE op[c].P = TRUE
        <4>1. kf[c] \in {"endop", "reset"}
          BY <2>1, <3>2 DEF WaitInv
        <4> QED
          BY <3>1, <3>2, <4>1 DEF DocumentedState, Flags
      <3>3. CASE op[c].P = FALSE
        <4>1. kf[c] \notin {"endop", "reset"}
          BY <2>1, <3>3 DEF WaitInv
        <4> QED
          BY <3>1, <3>3, <4>1 DEF DocumentedState, Flags
      <3> QED
        BY <2>2, <3>2, <3>3
    <2>5. CASE ~op[c].R /\ op[c].closing
      <3>1. op[c].R = FALSE /\ op[c].S = FALSE /\ op[c].C = FALSE /\ CloseCallback(c)
        BY <2>1, <2>2, <2>5 DEF FlagsInv, Open, CloseCallback
      <3>2. CASE op[c].P = TRUE
        <4>1. kf[c] = "reset"
          BY <2>1, <2>5, <3>2 DEF WaitInv
        <4> QED
          BY <3>1, <3>2, <4>1 DEF DocumentedState, Flags
      <3>3. CASE op[c].P = FALSE
        <4>1. kf[c] \notin {"endop", "reset"}
          BY <2>1, <3>3 DEF WaitInv
        <4> QED
          BY <3>1, <3>3, <4>1 DEF DocumentedState, Flags
      <3> QED
        BY <2>2, <3>2, <3>3
    <2>6. CASE Open(op[c])
      <3>1. op[c].R = FALSE /\ op[c].S = FALSE /\ HandleCallback(c)
        BY <2>1, <2>2, <2>6 DEF FlagsInv, Open, HandleCallback
      <3>2. CASE op[c].C = TRUE /\ op[c].P = TRUE
        <4>1. kf[c] = "reset"
          BY <2>1, <3>2 DEF WaitInv
        <4> QED
          BY <3>1, <3>2, <4>1 DEF DocumentedState, Flags
      <3>3. CASE op[c].C = TRUE /\ op[c].P = FALSE
        <4>1. kf[c] \notin {"endop", "reset"}
          BY <2>1, <3>3 DEF WaitInv
        <4> QED
          BY <3>1, <3>3, <4>1 DEF DocumentedState, Flags
      <3>4. CASE op[c].C = FALSE /\ op[c].P = TRUE
        <4>1. kf[c] = "endop"
          BY <2>1, <2>6, <3>4 DEF WaitInv
        <4> QED
          BY <3>1, <3>4, <4>1 DEF DocumentedState, Flags
      <3>5. CASE op[c].C = FALSE /\ op[c].P = FALSE
        <4>1. kf[c] \notin {"endop", "reset"} /\ InCallback(c, "hdl")
          BY <2>1, <2>6, <3>5 DEF WaitInv, FlagsInv
        <4> QED
          BY <3>1, <3>5, <4>1 DEF DocumentedState, Flags
      <3> QED
        BY <2>2, <3>2, <3>3, <3>4, <3>5
    <2> QED
      BY <2>2, <2>3, <2>4, <2>5, <2>6 DEF Open
  <1> QED
    BY <1>1, InvHolds, PTL

(* The assertions of startedopk, k_resetopk and of the setup functions.    *)
THEOREM SetupsAreAsserted == Spec => []SetupAsserted
  <1>1. Inv => SetupAsserted
    <2> SUFFICES ASSUME Inv, NEW c \in Threads, kf[c] \in Executing
                 PROVE  /\ ~op[c].P
                        /\ kf[c] = "setup" =>
                             /\ ~op[c].C
                             /\ \/ FreeOp(op[c])
                                \/ SameOp(op[c], want[c]) /\ InCallback(c, "hdl")
      BY DEF SetupAsserted
    <2>1. WaitInv(c)
      BY DEF Inv, CoInv
    <2> QED
      BY <2>1 DEF WaitInv, Executing
  <1> QED
    BY <1>1, InvHolds, PTL

(* A coroutine awaits, in k_endop, the operation it called last.           *)
THEOREM AwaitsItsOperation == Spec => []AwaitedIsArmed
  <1>1. Inv => AwaitedIsArmed
    BY DEF Inv, CoInv, WaitInv, AwaitedIsArmed
  <1> QED
    BY <1>1, InvHolds, PTL

(* A coroutine is in the registry exactly while libuv refers to it.        *)
THEOREM SavedExactly == Spec => []SavedWhileInUse
  <1>1. Inv => SavedWhileInUse
    BY DEF Inv, Typed, ControlTyped, CoInv, FlagsInv, SavedWhileInUse
  <1> QED
    BY <1>1, InvHolds, PTL

(* nactive and nasync count the operations in use, and the ones that are   *)
(* calls of awaitch.                                                       *)
THEOREM CountersAreExact == Spec => []SchedCounters
  <1>1. Inv => SchedCounters
    BY DEF Inv
  <1> QED
    BY <1>1, InvHolds, PTL

(* A handle that a channel refers to is open.                              *)
THEOREM MatchedHandlesAreOpen == Spec => []MatchedIsOpen
  <1>1. Inv => MatchedIsOpen
    <2> SUFFICES ASSUME Inv PROVE MatchedIsOpen
      OBVIOUS
    <2>1. \A c \in expected \cup due :
            Open(op[c]) /\ op[c].type \in {"async", "process"}
      BY DEF Inv, Typed, ControlTyped, CoInv, EventInv
    <2>2. \A c \in Threads : op[c].C => c \in due /\ op[c].type = "async"
      BY DEF Inv, CoInv, FlagsInv
    <2> QED
      BY <2>1, <2>2 DEF MatchedIsOpen
  <1> QED
    BY <1>1, InvHolds, PTL

(* Whoever sets up an operation finds it as src/loperaux.c asserts, and     *)
(* whoever awaits one gets the results of its own call.                     *)
THEOREM OperationAssertionsHold == Spec => []AssertionsHold
  <1>1. SetupAsserted /\ AwaitedIsArmed => AssertionsHold
    BY DEF AssertionsHold
  <1> QED
    BY <1>1, SetupsAreAsserted, AwaitsItsOperation, PTL

(* Each operation in use is in the registry and in the counters of the      *)
(* scheduler, and no other.                                                 *)
THEOREM OperationsAreAccounted == Spec => []Accounted
  <1>1. SavedWhileInUse /\ SchedCounters => Accounted
    BY DEF Accounted
  <1> QED
    BY <1>1, SavedExactly, CountersAreExact, PTL

=============================================================================
