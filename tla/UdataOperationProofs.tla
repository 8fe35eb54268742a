----------------------- MODULE UdataOperationProofs ------------------------
(***************************************************************************)
(* Proofs of the safety of UdataOperation for any number of coroutines and *)
(* of connections.                                                         *)
(***************************************************************************)
EXTENDS UdataOperation, SequenceTheorems, TLAPS

-----------------------------------------------------------------------------
(* The coroutines and the stack of calls. *)
CoStates ==
  {"suspended", "running", "handle", "write", "deferred", "request", "dead"}
Frames == [at: CFunctions \cup {"lua"}, co: Coros \cup {None}]
Stacked == co \in [Coros -> CoStates] /\ stack \in Seq(Frames)

(* A step that calls no C function but those of S. *)
Calls(S) ==
  /\ Stacked'
  /\ \A f \in CFunctions \ S : Within(f)' => Within(f)

LEMMA FramesTyped ==
  /\ \A c \in Coros : Lua(c) \in Frames
  /\ \A f \in CFunctions : Call(f) \in Frames
  /\ \A c \in Coros : \A f \in CFunctions : Lua(c) # Call(f)
  /\ \A f, g \in CFunctions : Call(f) = Call(g) => f = g
  BY DEF Frames, Lua, Call, CFunctions

(* lua_resume of c over the stack. *)
LEMMA EnterCalls ==
  ASSUME Stacked, NEW c \in Coros, Enter(c, stack)
  PROVE  Calls({})
  <1>1. Stacked'
    BY FramesTyped DEF Stacked, Enter, CoStates
  <1>2. \A f \in CFunctions : Within(f)' => Within(f)
    BY FramesTyped DEF Stacked, Enter, Within
  <1>3. QED
    BY <1>1, <1>2 DEF Calls

(* lua_resume of c by a C function, that goes on when c stops. *)
LEMMA EnterOverCalls ==
  ASSUME Stacked, NEW c \in Coros, NEW g \in CFunctions,
         Enter(c, Append(stack, Call(g)))
  PROVE  Calls({g})
  <1>1. Append(stack, Call(g)) \in Seq(Frames)
    BY FramesTyped DEF Stacked
  <1>2. Stacked'
    BY <1>1, FramesTyped DEF Stacked, Enter, CoStates
  <1>3. ASSUME NEW f \in CFunctions \ {g}, Within(f)'
        PROVE  Within(f)
    <2>1. PICK i \in DOMAIN stack' : stack'[i] = Call(f)
      BY <1>3 DEF Within, Call
    <2>2. stack' = Append(Append(stack, Call(g)), Lua(c))
      BY DEF Enter
    <2>3. i \in 1..Len(stack) + 2
      BY <2>1, <2>2, <1>1, FramesTyped DEF Stacked
    <2>4. i \in 1..Len(stack) /\ stack'[i] = stack[i]
      BY <2>1, <2>2, <2>3, FramesTyped DEF Stacked
    <2>5. QED
      BY <2>1, <2>4 DEF Within, Stacked
  <1>4. QED
    BY <1>2, <1>3 DEF Calls

(* The call on top of the stack returns. *)
LEMMA BelowCalls ==
  ASSUME Stacked, ~Idle, stack' = Below, co' \in [Coros -> CoStates]
  PROVE  Calls({})
  <1> DEFINE n == Len(stack) - 1
  <1>1. n \in Nat /\ stack' = SubSeq(stack, 1, n)
    BY DEF Idle, Stacked, Below
  <1>2. \A i \in 1..n : i \in DOMAIN stack /\ stack[i] \in Frames
    BY DEF Stacked
  <1> HIDE DEF n
  <1>3. /\ stack' \in Seq(Frames) /\ Len(stack') = n
        /\ \A i \in 1..n : stack'[i] = stack[i]
    BY <1>1, <1>2, SubSeqProperties
  <1>4. DOMAIN stack' = 1..n
    BY <1>1, <1>3
  <1>5. QED
    BY <1>2, <1>3, <1>4 DEF Calls, Stacked, Within

LEMMA ExitCalls ==
  ASSUME Stacked, NEW c \in Coros, NEW k \in CoStates, Running(c), Exit(c, k)
  PROVE  Calls({})
  BY BelowCalls DEF Exit, Running, Stacked

LEMMA SameCalls ==
  ASSUME Stacked, UNCHANGED stack, co' \in [Coros -> CoStates]
  PROVE  Calls({})
  BY DEF Stacked, Calls, Within

LEMMA LuaCalls ==
  ASSUME Stacked, LuaNext
  PROVE  Calls({})
  <1>1. ASSUME NEW c \in Coros, Start(c)
        PROVE  Calls({})
    BY <1>1, EnterCalls DEF Start
  <1>2. ASSUME NEW c \in Coros, Yield(c)
        PROVE  Calls({})
    BY <1>2, ExitCalls DEF Yield, CoStates
  <1>3. ASSUME NEW c \in Coros, NEW d \in Coros, Resume(c, d)
        PROVE  Calls({})
    BY <1>3, EnterCalls DEF Resume
  <1>4. QED
    BY <1>1, <1>2, <1>3 DEF LuaNext

-----------------------------------------------------------------------------
(* Steps of the object with a handle, and the calls they make. *)
HandleCalls ==
  Calls({"handle callback", "error callback", "eof callback", "closing"})

LEMMA CallsWeaken ==
  ASSUME Calls({})
  PROVE  HandleCalls
  BY DEF Calls, HandleCalls

(* The coroutine that awaits in the object is resumed by one of them. *)
LEMMA WakeCalls ==
  ASSUME Stacked, data \in Coros,
         NEW g \in {"handle callback", "error callback", "eof callback", "closing"},
         Wake(<<Call(g)>>)
  PROVE  HandleCalls
  <1>1. stack \o <<Call(g)>> = Append(stack, Call(g))
    <2>1. Call(g) \in Frames
      BY FramesTyped DEF CFunctions
    <2>2. QED
      BY <2>1, AppendIsConcat DEF Stacked
  <1>2. Calls({g})
    BY <1>1, EnterOverCalls DEF Wake, CFunctions
  <1>3. QED
    BY <1>2 DEF Calls, HandleCalls

LEMMA WakeAlone ==
  ASSUME Stacked, data \in Coros, Wake(<<>>)
  PROVE  HandleCalls
  <1>1. stack \o <<>> = stack
    BY DEF Stacked
  <1>2. QED
    BY <1>1, EnterCalls, CallsWeaken DEF Wake

LEMMA HandleLuaCalls ==
  ASSUME TypeOK, NEW c \in Coros, HandleLua(c)
  PROVE  HandleCalls
  <1> Stacked
    BY DEF TypeOK, Stacked, CoStates, Frames
  <1>1. CASE UNCHANGED loopVars
    BY <1>1, SameCalls, CallsWeaken DEF loopVars, threadVars, Stacked
  <1>2. CASE Read(c) \/ AcceptAwaits(c)
    BY <1>2, ExitCalls, CallsWeaken DEF Read, AcceptAwaits, Uses, ResetHandle, CoStates
  <1>3. CASE Write(c)
    BY <1>3, ExitCalls, CallsWeaken DEF Write, Uses, CoStates
  <1>4. CASE HaltHandle(c)
    BY <1>4, WakeAlone DEF HaltHandle, TypeOK, HandleTypeOK
  <1>5. CASE CloseResumes(c)
    BY <1>5, WakeCalls DEF CloseResumes, TypeOK, HandleTypeOK
  <1>6. QED
    BY <1>1, <1>2, <1>3, <1>4, <1>5
       DEF HandleLua, Create, ReadError, Close, Forget, Listen, AcceptCounted

LEMMA HandleNextCalls ==
  ASSUME TypeOK, HandleNext
  PROVE  HandleCalls
  <1> Stacked
    BY DEF TypeOK, Stacked, CoStates, Frames
  <1>1. CASE \E c \in Coros : HandleLua(c)
    BY <1>1, HandleLuaCalls
  <1>2. ASSUME NEW c \in Coros, NEW d \in Coros, HaltWrite(c, d)
        PROVE  HandleCalls
    BY <1>2, EnterCalls, CallsWeaken DEF HaltWrite
  <1>3. CASE Received \/ ReadFailed \/ EndOfStream \/ Connection
    BY <1>3, WakeCalls
       DEF Received, ReadFailed, EndOfStream, Connection, TypeOK, HandleTypeOK
  <1>4. CASE CountConnection \/ Closed \/ Collect
    BY <1>4, SameCalls, CallsWeaken
       DEF CountConnection, Closed, Collect, loopVars, threadVars, Stacked
  <1>5. ASSUME NEW c \in Coros, Written(c)
        PROVE  HandleCalls
    <2>1. CASE co' = [co EXCEPT ![c] = "write"] /\ UNCHANGED stack
      BY <2>1, SameCalls, CallsWeaken DEF Stacked, CoStates
    <2>2. CASE Enter(c, stack)
      BY <2>2, EnterCalls, CallsWeaken
    <2>3. CASE UNCHANGED <<co, stack>>
      BY <2>3, SameCalls, CallsWeaken DEF Stacked
    <2>4. QED
      BY <1>5, <2>1, <2>2, <2>3 DEF Written
  <1>6. CASE CallbackReturns \/ CloseReturns
    <2>1. ~Idle /\ stack' = Below /\ UNCHANGED co
      BY <1>6 DEF CallbackReturns, ReturningCallback, CloseReturns, Returning
    <2>2. QED
      BY <2>1, BelowCalls, CallsWeaken DEF Stacked
  <1>7. QED
    BY <1>1, <1>2, <1>3, <1>4, <1>5, <1>6 DEF HandleNext, HandleCallbacks, HandleReturns

(* Steps of the state coroutine: only its callback resumes a coroutine. *)
LEMMA RequestNextCalls ==
  ASSUME TypeOK, RequestNext
  PROVE  /\ Calls({"request callback"})
         /\ ~WorkResumes => Calls({})
  <1> Stacked
    BY DEF TypeOK, Stacked, CoStates, Frames
  <1>1. ASSUME UNCHANGED loopVars
        PROVE  Calls({})
    BY <1>1, SameCalls DEF loopVars, threadVars, Stacked
  <1>2. ASSUME NEW c \in Coros, StartedRequest(c), Running(c)
        PROVE  Calls({})
    BY <1>2, ExitCalls DEF StartedRequest, CoStates
  <1>3. ASSUME NEW c \in Coros, NEW d \in Coros, HaltRequest(c, d)
        PROVE  Calls({})
    BY <1>3, EnterCalls DEF HaltRequest
  <1>4. ASSUME NEW c \in Coros, NEW d \in Coros, CloseWaiter(c, d)
        PROVE  Calls({})
    BY <1>4, SameCalls DEF CloseWaiter, Stacked, CoStates
  <1>5. ASSUME WorkDiscarded
        PROVE  Calls({})
    BY <1>5, SameCalls DEF WorkDiscarded, Stacked, CoStates
  <1>6. ASSUME RequestReturns
        PROVE  Calls({})
    BY <1>6, BelowCalls DEF RequestReturns, Returning, Stacked
  <1>7. ASSUME WorkResumes
        PROVE  Calls({"request callback"})
    <2>1. thread \in Coros /\ Enter(thread, Append(stack, Call("request callback")))
      BY <1>7 DEF WorkResumes, TypeOK, RequestTypeOK
    <2>2. QED
      BY <2>1, EnterOverCalls DEF CFunctions
  <1>8. ~WorkResumes => Calls({})
    BY <1>1, <1>2, <1>3, <1>4, <1>5, <1>6
       DEF RequestNext, RequestLua, RequestCallbacks, SystemResume, CloseState,
           Working, Worked
  <1>9. Calls({}) => Calls({"request callback"})
    BY DEF Calls
  <1>10. QED
    BY <1>7, <1>8, <1>9

-----------------------------------------------------------------------------
(* Types. *)
LEMMA CallsTyped ==
  ASSUME NEW S, Calls(S), HandleTypeOK', RequestTypeOK', nactive' \in Int
  PROVE  TypeOK'
  BY DEF Calls, Stacked, TypeOK, CoStates, Frames

(* The types of a handle, in two parts: the Boolean fields and the rest. *)
Flags ==
  /\ closed \in BOOLEAN /\ stop \in BOOLEAN /\ saved \in BOOLEAN /\ held \in BOOLEAN
  /\ active \in BOOLEAN /\ listening \in BOOLEAN /\ slot \in BOOLEAN
Fields ==
  /\ kind \in HandleKinds
  /\ data \in Coros \cup {None}
  /\ uv \in UvStates
  /\ conns \in 0..MaxConns
  /\ writes \subseteq Coros
  /\ nactive \in Int

LEMMA HandleParts ==
  /\ HandleTypeOK /\ nactive \in Int => Flags /\ Fields
  /\ Flags' /\ Fields' => HandleTypeOK' /\ nactive' \in Int
  BY DEF HandleTypeOK, Flags, Fields

LEMMA HandleLuaTyped ==
  ASSUME TypeOK, NEW c \in Coros, HandleLua(c)
  PROVE  HandleTypeOK' /\ nactive' \in Int
  <1>h. Flags /\ Fields
    BY HandleParts DEF TypeOK
  <1> USE DEF readVars, loopVars
  <1>1. CASE Create(c) \/ Forget(c)
    <2>1. Flags'
      BY <1>h, <1>1 DEF Flags, Create, Forget
    <2>2. Fields'
      BY <1>h, <1>1 DEF Fields, UvStates, Create, Forget
    <2>3. QED
      BY <2>1, <2>2, HandleParts
  <1>2. CASE Read(c) \/ AcceptAwaits(c)
    <2>1. ResetHandle(c) /\ UNCHANGED <<closed, held, uv, readVars, writes>>
      BY <1>2 DEF Read, AcceptAwaits
    <2>2. Flags'
      BY <1>h, <2>1 DEF Flags, ResetHandle
    <2>3. nactive' \in Int /\ data' \in Coros \cup {None}
      <3>1. data' = c /\ (nactive' = nactive \/ nactive' = nactive + 1)
        BY <2>1, Zenon DEF ResetHandle
      <3>2. QED
        BY <1>h, <3>1 DEF Fields
    <2>4. Fields'
      BY <1>h, <2>1, <2>3 DEF Fields
    <2>5. QED
      BY <2>2, <2>4, HandleParts
  <1>3. CASE ReadError(c) \/ Close(c)
    <2>1. Flags'
      BY <1>h, <1>3 DEF Flags, ReadError, Close, UvClose
    <2>2. Fields'
      BY <1>h, <1>3 DEF Fields, UvStates, ReadError, Close, UvClose
    <2>3. QED
      BY <2>1, <2>2, HandleParts
  <1>4. CASE HaltHandle(c) \/ CloseResumes(c)
    <2>1. StopHandle /\ data' = None /\ UNCHANGED <<held, readVars, writes>>
      BY <1>4 DEF HaltHandle, CloseResumes, Wake
    <2>2. Flags'
      BY <1>h, <2>1, Zenon DEF Flags, StopHandle
    <2>3. Fields'
      BY <1>h, <2>1 DEF Fields, StopHandle
    <2>4. QED
      BY <2>2, <2>3, HandleParts
  <1>5. CASE Listen(c) \/ AcceptCounted(c)
    <2>1. Flags'
      BY <1>h, <1>5 DEF Flags, Listen, AcceptCounted, AcceptStream
    <2>2. Fields'
      BY <1>h, <1>5, HandleAssumption DEF Fields, Listen, AcceptCounted, AcceptStream
    <2>3. QED
      BY <2>1, <2>2, HandleParts
  <1>6. CASE Write(c)
    <2>1. Flags'
      BY <1>h, <1>6 DEF Flags, Write
    <2>2. Fields'
      BY <1>h, <1>6 DEF Fields, Write
    <2>3. QED
      BY <2>1, <2>2, HandleParts
  <1>7. QED
    BY <1>1, <1>2, <1>3, <1>4, <1>5, <1>6 DEF HandleLua

LEMMA HandleNextTyped ==
  ASSUME TypeOK, HandleNext
  PROVE  HandleTypeOK' /\ nactive' \in Int
  <1>h. Flags /\ Fields
    BY HandleParts DEF TypeOK
  <1>1. CASE \E c \in Coros : HandleLua(c)
    BY <1>1, HandleLuaTyped
  <1> USE DEF readVars, loopVars, handleVars
  <1>2. CASE (\E c, d \in Coros : HaltWrite(c, d)) \/ \E c \in Coros : Written(c)
    <2>1. Flags'
      BY <1>h, <1>2 DEF Flags, HaltWrite, Written
    <2>2. Fields'
      BY <1>h, <1>2 DEF Fields, HaltWrite, Written
    <2>3. QED
      BY <2>1, <2>2, HandleParts
  <1>3. CASE Received \/ ReadFailed \/ EndOfStream
    <2>1. Flags'
      BY <1>h, <1>3 DEF Flags, Received, ReadFailed, EndOfStream
    <2>2. Fields'
      BY <1>h, <1>3 DEF Fields, Received, ReadFailed, EndOfStream, Wake
    <2>3. QED
      BY <2>1, <2>2, HandleParts
  <1>4. CASE Connection \/ CountConnection
    <2>1. Flags'
      BY <1>h, <1>4 DEF Flags, Connection, CountConnection
    <2>2. Fields'
      <3>1. /\ conns' = conns \/ (conns' = conns + 1 /\ conns < MaxConns)
            /\ data' = None /\ UNCHANGED <<kind, uv, writes, nactive>>
        BY <1>4, Zenon DEF Connection, CountConnection, Wake, threadVars
      <3>2. QED
        BY <1>h, <3>1, HandleAssumption DEF Fields
    <2>3. QED
      BY <2>1, <2>2, HandleParts
  <1>5. CASE Closed \/ Collect \/ CloseReturns
    <2>1. Flags'
      BY <1>h, <1>5 DEF Flags, Closed, Collect, CloseReturns, UvClose
    <2>2. Fields'
      BY <1>h, <1>5 DEF Fields, UvStates, Closed, Collect, CloseReturns, UvClose
    <2>3. QED
      BY <2>1, <2>2, HandleParts
  <1>6. CASE CallbackReturns
    <2>1. /\ \/ StopHandle
             \/ /\ active' = (active /\ ~Returning("error callback"))
                /\ UNCHANGED <<stop, nactive, saved, closed, uv>>
          /\ UNCHANGED <<data, held, readVars, writes>>
      BY <1>6 DEF CallbackReturns
    <2>2. Flags'
      BY <1>h, <2>1, Zenon DEF Flags, StopHandle
    <2>3. nactive' = nactive \/ nactive' = nactive - 1
      BY <2>1, Zenon DEF StopHandle
    <2>4. UNCHANGED <<kind, data, uv, conns, writes>>
      BY <2>1, Zenon DEF StopHandle
    <2>5. Fields'
      BY <1>h, <2>3, <2>4 DEF Fields
    <2>6. QED
      BY <2>2, <2>5, HandleParts
  <1>7. QED
    BY <1>1, <1>2, <1>3, <1>4, <1>5, <1>6
       DEF HandleNext, HandleCallbacks, HandleReturns

LEMMA RequestNextTyped ==
  ASSUME TypeOK, RequestNext
  PROVE  RequestTypeOK' /\ nactive' \in Int
  <1>1. RequestTypeOK /\ nactive \in Int
    BY DEF TypeOK
  <1>2. nactive' \in Int
    <2>1. nactive' = nactive \/ nactive' = nactive + 1 \/ nactive' = nactive - 1
      BY DEF RequestNext, RequestLua, RequestCallbacks, SystemResume, StartedRequest,
             CloseState, HaltRequest, CloseWaiter, WorkResumes, WorkDiscarded,
             RequestReturns, Working, Worked, loopVars
    <2>2. QED
      BY <1>1, <2>1
  <1>3. freeing' \in BOOLEAN /\ anchored' \in BOOLEAN
    BY <1>1 DEF RequestTypeOK, RequestNext, RequestLua, RequestCallbacks, SystemResume,
             StartedRequest, ResetRequest, FreeRequest, FreePending, requestVars,
             CloseState, HaltRequest, CloseWaiter, WorkResumes, WorkDiscarded,
             RequestReturns, Working, Worked, loopVars
  <1>4. type' \in {"unknown", "max", "work"} /\ thread' \in Coros \cup {None}
    BY <1>1 DEF RequestTypeOK, RequestNext, RequestLua, RequestCallbacks, SystemResume,
             StartedRequest, ResetRequest, FreeRequest, FreePending, requestVars,
             CloseState, HaltRequest, CloseWaiter, WorkResumes, WorkDiscarded,
             RequestReturns, Working, Worked
  <1>5. work' \in {"none", "queued", "running", "done", "canceled"}
    BY <1>1 DEF RequestTypeOK, RequestNext, RequestLua, RequestCallbacks, SystemResume,
             requestVars, CloseState, HaltRequest, CloseWaiter, WorkResumes,
             WorkDiscarded, RequestReturns, Working, Worked
  <1>6. state' \in {"suspended", "dead", "closed"}
    BY <1>1 DEF RequestTypeOK, RequestNext, RequestLua, RequestCallbacks, SystemResume,
             FreePending, requestVars, CloseState, HaltRequest, CloseWaiter, WorkResumes,
             WorkDiscarded, RequestReturns, Working, Worked
  <1>7. QED
    BY <1>2, <1>3, <1>4, <1>5, <1>6 DEF RequestTypeOK

LEMMA NextTyped ==
  ASSUME TypeOK, [Next]_vars
  PROVE  TypeOK'
  <1>1. CASE LuaNext /\ UNCHANGED <<nactive, handleVars, requestVars>>
    <2>1. HandleTypeOK' /\ RequestTypeOK' /\ nactive' \in Int
      BY <1>1 DEF TypeOK, HandleTypeOK, RequestTypeOK, handleVars, requestVars, readVars
    <2>2. Calls({})
      BY <1>1, LuaCalls DEF TypeOK, Stacked, CoStates, Frames
    <2>3. QED
      BY <2>1, <2>2, CallsTyped
  <1>2. CASE HandleNext /\ UNCHANGED requestVars
    <2>1. RequestTypeOK'
      BY <1>2 DEF TypeOK, RequestTypeOK, requestVars
    <2>2. QED
      BY <1>2, <2>1, HandleNextTyped, HandleNextCalls, CallsTyped DEF HandleCalls
  <1>3. CASE RequestNext /\ UNCHANGED handleVars
    <2>1. HandleTypeOK'
      BY <1>3 DEF TypeOK, HandleTypeOK, handleVars, readVars
    <2>2. QED
      BY <1>3, <2>1, RequestNextTyped, RequestNextCalls, CallsTyped
  <1>4. CASE UNCHANGED vars
    BY <1>4 DEF vars, loopVars, threadVars, handleVars, requestVars, readVars,
                TypeOK, HandleTypeOK, RequestTypeOK
  <1>5. QED
    BY <1>1, <1>2, <1>3, <1>4 DEF Next

LEMMA InitTyped ==
  ASSUME Init
  PROVE  TypeOK
  <1>1. HandleTypeOK
    <2>1. Flags
      BY DEF Init, HandleInit, Flags
    <2>2. Fields
      BY HandleAssumption DEF Init, HandleInit, Fields, UvStates
    <2>3. QED
      BY <2>1, <2>2 DEF Flags, Fields, HandleTypeOK
  <1>2. RequestTypeOK
    BY DEF Init, RequestInit, CreateRequest, RequestTypeOK
  <1>3. stack \in Seq([at: CFunctions \cup {"lua"}, co: Coros \cup {None}])
    BY DEF Init, ThreadsInit
  <1>4. QED
    BY <1>1, <1>2, <1>3 DEF Init, ThreadsInit, TypeOK

(* The state is well typed, whatever Lua code does in callbacks.           *)
THEOREM UdataTypeCorrect == Spec => []TypeOK
  BY InitTyped, NextTyped, PTL DEF Spec

-----------------------------------------------------------------------------
(* Connections: only what was put to listen counts them. *)
Connections ==
  /\ listening => kind = "passive"
  /\ conns > 0 => listening
  /\ NoConnectionLost

LEMMA ConnectionsKept ==
  ASSUME TypeOK, Connections, [Next]_vars
  PROVE  Connections'
  <1> conns \in Nat
    BY HandleAssumption DEF TypeOK, HandleTypeOK
  <1> USE DEF Connections, NoConnectionLost
  <1>1. CASE UNCHANGED <<kind, listening, conns, slot, data>>
    BY <1>1
  <1>2. CASE UNCHANGED <<kind, listening, conns, slot>> /\ data' = None
    BY <1>2
  <1>3. ASSUME NEW c \in Coros, Read(c) \/ AcceptAwaits(c)
        PROVE  Connections'
    BY <1>3 DEF Read, AcceptAwaits, readVars
  <1>4. ASSUME NEW c \in Coros, Listen(c) \/ AcceptCounted(c)
        PROVE  Connections'
    BY <1>4 DEF Listen, AcceptCounted, AcceptStream
  <1>5. CASE CountConnection \/ Connection
    <2>1. /\ listening /\ data' = None /\ UNCHANGED <<kind, listening>>
          /\ (conns' = conns /\ slot' = FALSE) \/ conns' = conns + 1
      BY <1>5, Zenon DEF CountConnection, Connection, Wake
    <2>2. QED
      BY <2>1
  <1>6. CASE HandleNext
    <2> USE DEF readVars, handleVars
    <2>1. ASSUME NEW c \in Coros, HandleLua(c)
          PROVE  Connections'
      BY <1>1, <1>2, <1>3, <1>4, <2>1
         DEF HandleLua, Create, ReadError, HaltHandle, Close, CloseResumes, Forget,
             Write, Wake
    <2>2. CASE HandleCallbacks
      BY <1>1, <1>2, <1>5, <2>2
         DEF HandleCallbacks, Received, ReadFailed, EndOfStream, Closed, Written, Wake
    <2>3. CASE HandleReturns \/ Collect \/ \E c, d \in Coros : HaltWrite(c, d)
      BY <1>1, <2>3 DEF HandleReturns, CallbackReturns, CloseReturns, Collect, HaltWrite
    <2>4. QED
      BY <1>6, <2>1, <2>2, <2>3 DEF HandleNext
  <1>7. QED
    BY <1>1, <1>6 DEF Next, vars, handleVars, readVars

(* A connection that libuv holds is always counted, and nobody awaits in   *)
(* accept while there is one counted (uv_onconnection, passive_accept).    *)
THEOREM ConnectionsAreKept == Spec => []NoConnectionLost
  <1>1. Init => TypeOK /\ Connections
    <2>1. Init => listening = FALSE /\ slot = FALSE /\ data = None /\ conns = 0
      BY DEF Init, HandleInit
    <2>2. QED
      BY <2>1, InitTyped DEF Connections, NoConnectionLost
  <1>2. TypeOK /\ Connections /\ [Next]_vars => (TypeOK /\ Connections)'
    BY NextTyped, ConnectionsKept
  <1>3. Connections => NoConnectionLost
    BY DEF Connections
  <1>4. QED
    BY <1>1, <1>2, <1>3, PTL DEF Spec

-----------------------------------------------------------------------------
(* The state of a state coroutine that was resumed again in the callback   *)
(* is not to be closed at its end.                                         *)
Exclusive ==
  /\ StateExclusive
  /\ Within("request callback") /\ work # "none" => ~freeing

LEMMA ExclusiveKept ==
  ASSUME ~Reclose, TypeOK, Exclusive, [Next]_vars
  PROVE  Exclusive'
  <1> DEFINE in == Within("request callback")
  <1>1. ASSUME UNCHANGED requestVars, in' => in
        PROVE  Exclusive'
    BY <1>1 DEF Exclusive, StateExclusive, requestVars
  <1>s. Stacked
    BY DEF TypeOK, Stacked, CoStates, Frames
  <1>2. CASE LuaNext /\ UNCHANGED requestVars
    BY <1>1, <1>2, <1>s, LuaCalls DEF Calls, CFunctions
  <1>3. CASE HandleNext /\ UNCHANGED requestVars
    BY <1>1, <1>3, HandleNextCalls DEF HandleCalls, Calls, CFunctions
  <1>4. CASE RequestNext
    <2>1. CASE WorkResumes
      BY <2>1 DEF WorkResumes, Exclusive, StateExclusive
    <2>2. CASE ~WorkResumes
      <3>1. in' => in
        BY <1>4, <2>2, RequestNextCalls DEF Calls, CFunctions
      <3> HIDE DEF in
      <3> USE DEF StateExclusive
      <3>2. ASSUME NEW c \in Coros, SystemResume(c)
            PROVE  Exclusive'
        BY <3>2 DEF SystemResume, ResetRequest, StartedRequest, FreeRequest, Exclusive
      <3>3. ASSUME NEW c \in Coros, CloseState(c)
            PROVE  Exclusive'
        BY <3>1, <3>3 DEF CloseState, Exclusive, in
      <3>4. ASSUME NEW c \in Coros, NEW d \in Coros, HaltRequest(c, d)
            PROVE  Exclusive'
        BY <3>1, <3>4 DEF HaltRequest, Exclusive, in
      <3>5. ASSUME NEW c \in Coros, NEW d \in Coros, CloseWaiter(c, d)
            PROVE  Exclusive'
        BY <1>1, <3>1, <3>5 DEF CloseWaiter
      <3>6. CASE Working \/ Worked
        <4>1. /\ work # "none" /\ work' # "none" /\ UNCHANGED <<type, freeing, anchored>>
              /\ state' = state \/ state' \in {"suspended", "dead"}
          BY <3>6 DEF Working, Worked
        <4>2. state' # "closed"
          BY <4>1 DEF Exclusive
        <4>3. QED
          BY <3>1, <4>1, <4>2 DEF Exclusive, in
      <3>7. CASE WorkDiscarded
        BY <3>7 DEF WorkDiscarded, FreeRequest, FreePending, Exclusive
      <3>8. CASE RequestReturns
        <4>1. in
          <5>1. stack # <<>> /\ stack[Len(stack)] = Call("request callback")
            BY <3>8, Zenon DEF RequestReturns, Returning, Idle, Top
          <5>2. Len(stack) \in DOMAIN stack
            <6>1. stack \in Seq(Frames)
              BY <1>s DEF Stacked
            <6>2. Len(stack) # 0
              BY <5>1, <6>1, EmptySeq
            <6>3. QED
              BY <6>1, <6>2, LenProperties
          <5>3. QED
            BY <5>1, <5>2 DEF Within, in
        <4>2. work # "none" => ~freeing
          BY <4>1 DEF Exclusive, in
        <4>3. QED
          BY <3>8, <4>2 DEF RequestReturns, FreeRequest, FreePending, Exclusive
      <3>9. QED
        BY <1>4, <2>2, <3>2, <3>3, <3>4, <3>5, <3>6, <3>7, <3>8
           DEF RequestNext, RequestLua, RequestCallbacks
    <2>3. QED
      BY <2>1, <2>2
  <1>5. CASE UNCHANGED vars
    BY <1>1, <1>5 DEF vars, loopVars, threadVars, Within
  <1>6. QED
    BY <1>2, <1>3, <1>4, <1>5 DEF Next

(* A Lua state is not closed while a thread of libuv executes it, or is    *)
(* about to, and its request is not reused (lcoroutm.c), as long as Lua    *)
(* code does not leave the scope of the state coroutine in the callback in *)
(* which it resumed it again.                                              *)
THEOREM StatesAreExclusive ==
  ASSUME ~Reclose
  PROVE  Spec => []StateExclusive
  <1>1. Init => TypeOK /\ Exclusive
    BY InitTyped DEF Init, RequestInit, CreateRequest, Exclusive, StateExclusive
  <1>2. TypeOK /\ Exclusive /\ [Next]_vars => (TypeOK /\ Exclusive)'
    BY NextTyped, ExclusiveKept
  <1>3. Exclusive => StateExclusive
    BY DEF Exclusive
  <1>4. QED
    BY <1>1, <1>2, <1>3, PTL DEF Spec

-----------------------------------------------------------------------------
(* The stack of calls: what is in it is there once, its coroutines are     *)
(* running, and it has one call of the object at most.                     *)
In(x) == \E i \in DOMAIN stack : stack[i] = x
Unique == \A i, j \in DOMAIN stack : stack[i] = stack[j] => i = j
HandleCFunctions == {"handle callback", "error callback", "eof callback", "closing"}

StackInv ==
  /\ Unique
  /\ \A c \in Coros : In(Lua(c)) => co[c] = "running"
  /\ \A f, g \in HandleCFunctions : Within(f) /\ Within(g) => f = g

(* The object, when Lua code does not end its operation in its callback,   *)
(* nor uses it while it is being closed.  In its callback the handle       *)
(* remains started, so that 'stop' is defined though nobody awaits.        *)
HandleInv ==
  /\ \A c \in Coros : co[c] = "handle" <=> data = c
  /\ closed <=> uv # "open"
  /\ saved => uv \in {"open", "closing"}
  /\ uv = "closing" => saved
  /\ data # None \/ active => saved /\ ~closed
  /\ data # None => stop
  /\ uv \in {"closed", "freed"} => writes = {}
  /\ active => stop
  /\ IF Within("handle callback") \/ Within("error callback")
     THEN stop
     ELSE stop <=> data # None
  /\ InCallback => saved
  /\ saved /\ ~InCallback => data # None \/ uv = "closing"
  /\ Within("closing") => ~closed /\ ~saved

UdataInv == TypeOK /\ StackInv /\ HandleInv

-----------------------------------------------------------------------------
(* The stack grows and shrinks. *)
LEMMA StackTyped ==
  ASSUME Stacked
  PROVE  /\ stack \in Seq(Frames) /\ Len(stack) \in Nat /\ DOMAIN stack = 1..Len(stack)
         /\ Idle => \A x : ~In(x)
         /\ ~Idle => Len(stack) >= 1 /\ In(Top)
  <1>1. stack \in Seq(Frames) /\ Len(stack) \in Nat /\ DOMAIN stack = 1..Len(stack)
    BY LenProperties DEF Stacked
  <1>2. Idle => \A x : ~In(x)
    BY DEF Idle, In
  <1>3. ~Idle => Len(stack) >= 1
    BY <1>1, EmptySeq DEF Idle
  <1>4. ~Idle => In(Top)
    BY <1>1, <1>3 DEF In, Top
  <1>5. QED
    BY <1>1, <1>2, <1>3, <1>4

LEMMA EnterStack ==
  ASSUME Stacked, Unique, NEW c \in Coros, ~In(Lua(c)), stack' = Append(stack, Lua(c))
  PROVE  Unique' /\ \A x : In(x)' <=> In(x) \/ x = Lua(c)
  <1> DEFINE n == Len(stack)
             r == Append(stack, Lua(c))
  <1>1. stack \in Seq(Frames) /\ n \in Nat /\ DOMAIN stack = 1..n /\ Lua(c) \in Frames
    BY StackTyped, FramesTyped
  <1>2. DOMAIN r = 1..n + 1 /\ r[n + 1] = Lua(c) /\ \A i \in 1..n : r[i] = stack[i]
    <2>1. r \in Seq(Frames) /\ Len(r) = n + 1 /\ r[n + 1] = Lua(c)
          /\ \A i \in 1..n : r[i] = stack[i]
      BY <1>1, AppendProperties
    <2>2. QED
      BY <2>1, LenProperties
  <1>3. \A i, j \in 1..n : stack[i] = stack[j] => i = j
    BY <1>1 DEF Unique
  <1>4. \A x : In(x) <=> \E i \in 1..n : stack[i] = x
    BY <1>1 DEF In
  <1>5. stack' = r
    OBVIOUS
  <1> HIDE DEF n, r
  <1>6. Unique'
    <2>1. \A i, j \in 1..n + 1 : r[i] = r[j] => i = j
      BY <1>1, <1>2, <1>3, <1>4
    <2>2. QED
      BY <1>2, <1>5, <2>1 DEF Unique
  <1>7. \A x : In(x)' <=> \E i \in 1..n + 1 : r[i] = x
    BY <1>2, <1>5 DEF In
  <1>8. QED
    BY <1>1, <1>2, <1>4, <1>6, <1>7

LEMMA EnterOverStack ==
  ASSUME Stacked, Unique, NEW c \in Coros, ~In(Lua(c)),
         NEW g \in CFunctions, ~In(Call(g)), stack' = Append(Append(stack, Call(g)), Lua(c))
  PROVE  Unique' /\ \A x : In(x)' <=> In(x) \/ x = Lua(c) \/ x = Call(g)
  <1> DEFINE n == Len(stack)
             r == Append(Append(stack, Call(g)), Lua(c))
  <1>1. stack \in Seq(Frames) /\ n \in Nat /\ DOMAIN stack = 1..n
        /\ Lua(c) \in Frames /\ Call(g) \in Frames /\ Lua(c) # Call(g)
    BY StackTyped, FramesTyped
  <1>2. /\ DOMAIN r = 1..n + 2 /\ r[n + 2] = Lua(c) /\ r[n + 1] = Call(g)
        /\ \A i \in 1..n : r[i] = stack[i]
    <2> DEFINE p == Append(stack, Call(g))
    <2>1. p \in Seq(Frames) /\ Len(p) = n + 1 /\ p[n + 1] = Call(g)
          /\ \A i \in 1..n : p[i] = stack[i]
      BY <1>1, AppendProperties
    <2>2. r = Append(p, Lua(c))
      OBVIOUS
    <2> HIDE DEF p, r
    <2>3. r \in Seq(Frames) /\ Len(r) = Len(p) + 1 /\ r[Len(p) + 1] = Lua(c)
          /\ \A i \in 1..Len(p) : r[i] = p[i]
      BY <1>1, <2>1, <2>2, AppendProperties
    <2>4. n + 1 + 1 = n + 2 /\ DOMAIN r = 1..Len(r)
      BY <1>1, <2>3, LenProperties
    <2>5. QED
      BY <1>1, <2>1, <2>3, <2>4
  <1>3. \A i, j \in 1..n : stack[i] = stack[j] => i = j
    BY <1>1 DEF Unique
  <1>4. \A x : In(x) <=> \E i \in 1..n : stack[i] = x
    BY <1>1 DEF In
  <1>5. stack' = r
    OBVIOUS
  <1> HIDE DEF n, r
  <1>6. Unique'
    <2>1. \A i \in 1..n : r[i] # Lua(c) /\ r[i] # Call(g)
      BY <1>2, <1>4
    <2>2. \A i \in 1..n + 2 : i \in 1..n \/ i = n + 1 \/ i = n + 2
      BY <1>1
    <2>3. \A i, j \in 1..n + 2 : r[i] = r[j] => i = j
      BY <1>1, <1>2, <1>3, <2>1, <2>2
    <2>4. QED
      BY <1>2, <1>5, <2>3 DEF Unique
  <1>7. \A x : In(x)' <=> \E i \in 1..n + 2 : r[i] = x
    BY <1>2, <1>5 DEF In
  <1>8. \A i : i \in 1..n + 2 <=> i \in 1..n \/ i = n + 1 \/ i = n + 2
    BY <1>1
  <1>9. QED
    BY <1>2, <1>4, <1>6, <1>7, <1>8

LEMMA BelowStack ==
  ASSUME Stacked, Unique, ~Idle, stack' = Below
  PROVE  Unique' /\ In(Top) /\ \A x : In(x)' <=> In(x) /\ x # Top
  <1> DEFINE n == Len(stack) - 1
             r == SubSeq(stack, 1, n)
  <1>1. stack \in Seq(Frames) /\ n \in Nat /\ DOMAIN stack = 1..n + 1 /\ Top = stack[n + 1]
        /\ In(Top)
    BY StackTyped DEF Top
  <1>2. stack' = r
    BY DEF Below
  <1>3. \A i \in 1..n : stack[i] \in Frames
    BY <1>1, ElementOfSeq
  <1> HIDE DEF n
  <1>4. DOMAIN r = 1..n /\ \A i \in 1..n : r[i] = stack[i]
    <2>1. r \in Seq(Frames) /\ Len(r) = n /\ \A i \in 1..n : r[i] = stack[i]
      BY <1>1, <1>3, SubSeqProperties
    <2>2. QED
      BY <2>1, LenProperties
  <1> HIDE DEF r
  <1>5. \A i, j \in 1..n + 1 : stack[i] = stack[j] => i = j
    BY <1>1 DEF Unique
  <1>6. \A x : In(x) <=> \E i \in 1..n + 1 : stack[i] = x
    BY <1>1 DEF In
  <1>7. \A x : In(x)' <=> \E i \in 1..n : r[i] = x
    BY <1>2, <1>4 DEF In
  <1>8. Unique'
    BY <1>1, <1>2, <1>4, <1>5 DEF Unique
  <1>9. \A i : i \in 1..n + 1 <=> i \in 1..n \/ i = n + 1
    BY <1>1
  <1>10. n + 1 \notin 1..n /\ n + 1 \in 1..n + 1
    BY <1>1
  <1>11. QED
    BY <1>1, <1>4, <1>5, <1>6, <1>7, <1>8, <1>9, <1>10

-----------------------------------------------------------------------------
(* The effect of each call on the stack and on the functions within it. *)
Keeps == StackInv' /\ \A f \in CFunctions : Within(f)' <=> Within(f)
Begins(g) == StackInv' /\ \A f \in CFunctions : Within(f)' <=> Within(f) \/ f = g
Ends(g) ==
  /\ StackInv' /\ Within(g) /\ \A f \in CFunctions : Within(f)' <=> Within(f) /\ f # g

LEMMA WithinIn ==
  \A f : (Within(f) <=> In(Call(f))) /\ (Within(f)' <=> In(Call(f))')
  BY DEF Within, In, Call

LEMMA HandleFunctions == HandleCFunctions \subseteq CFunctions
  BY DEF HandleCFunctions, CFunctions

LEMMA EnterKeeps ==
  ASSUME Stacked, StackInv, NEW c \in Coros, co[c] # "running", Enter(c, stack)
  PROVE  Keeps
  <1>1. ~In(Lua(c))
    BY DEF StackInv
  <1>2. Unique' /\ \A x : In(x)' <=> In(x) \/ x = Lua(c)
    BY <1>1, EnterStack DEF StackInv, Enter
  <1>3. \A f \in CFunctions : Within(f)' <=> Within(f)
    BY <1>2, WithinIn, FramesTyped
  <1>4. \A d \in Coros : In(Lua(d))' => co'[d] = "running"
    <2>1. \A d \in Coros : Lua(d) = Lua(c) => d = c
      BY DEF Lua
    <2>2. QED
      BY <1>2, <2>1 DEF StackInv, Stacked, Enter
  <1>5. QED
    BY <1>2, <1>3, <1>4, HandleFunctions DEF Keeps, StackInv

LEMMA EnterBegins ==
  ASSUME Stacked, StackInv, NEW c \in Coros, co[c] # "running", NEW g \in CFunctions,
         ~Within(g), g \in HandleCFunctions => \A f \in HandleCFunctions : ~Within(f),
         Enter(c, Append(stack, Call(g)))
  PROVE  Begins(g)
  <1>1. ~In(Lua(c)) /\ ~In(Call(g))
    BY WithinIn DEF StackInv
  <1>2. Unique' /\ \A x : In(x)' <=> In(x) \/ x = Lua(c) \/ x = Call(g)
    BY <1>1, EnterOverStack DEF StackInv, Enter
  <1>3. \A f \in CFunctions : Within(f)' <=> Within(f) \/ f = g
    BY <1>2, WithinIn, FramesTyped
  <1>4. \A d \in Coros : In(Lua(d))' => co'[d] = "running"
    <2>1. \A d \in Coros : Lua(d) = Lua(c) => d = c
      BY DEF Lua
    <2>2. QED
      BY <1>2, <2>1, FramesTyped DEF StackInv, Stacked, Enter
  <1>5. \A f, h \in HandleCFunctions : Within(f)' /\ Within(h)' => f = h
    BY <1>3, HandleFunctions DEF StackInv
  <1>6. QED
    BY <1>2, <1>3, <1>4, <1>5 DEF Begins, StackInv

LEMMA ExitKeeps ==
  ASSUME Stacked, StackInv, NEW c \in Coros, NEW k, Running(c), Exit(c, k)
  PROVE  Keeps /\ co[c] = "running"
  <1>1. ~Idle /\ Top = Lua(c) /\ stack' = Below
    BY DEF Running, Exit
  <1>2. Unique' /\ In(Lua(c)) /\ \A x : In(x)' <=> In(x) /\ x # Lua(c)
    BY <1>1, BelowStack DEF StackInv
  <1>3. \A f \in CFunctions : Within(f)' <=> Within(f)
    BY <1>2, WithinIn, FramesTyped
  <1>4. \A d \in Coros : In(Lua(d))' => co'[d] = "running"
    BY <1>2 DEF StackInv, Stacked, Exit
  <1>5. QED
    BY <1>2, <1>3, <1>4, HandleFunctions DEF Keeps, StackInv

LEMMA ReturnEnds ==
  ASSUME Stacked, StackInv, NEW g \in CFunctions, Returning(g), stack' = Below, UNCHANGED co
  PROVE  Ends(g)
  <1>1. ~Idle /\ Top = Call(g)
    BY DEF Returning
  <1>2. Unique' /\ In(Call(g)) /\ \A x : In(x)' <=> In(x) /\ x # Call(g)
    BY <1>1, BelowStack DEF StackInv
  <1>3. \A f \in CFunctions : Within(f)' <=> Within(f) /\ f # g
    BY <1>2, WithinIn, FramesTyped
  <1>4. QED
    BY <1>2, <1>3, WithinIn, HandleFunctions DEF Ends, StackInv

LEMMA SameKeeps ==
  ASSUME StackInv, UNCHANGED stack, \A c \in Coros : co[c] = "running" => co'[c] = "running"
  PROVE  Keeps
  <1>1. \A x : In(x)' <=> In(x)
    BY DEF In
  <1>2. Unique'
    BY DEF StackInv, Unique
  <1>3. QED
    BY <1>1, <1>2, WithinIn, HandleFunctions DEF Keeps, StackInv

-----------------------------------------------------------------------------
(* The parts of the invariant that do not depend on what changed. *)
SameWithin == \A f \in HandleCFunctions : Within(f)' <=> Within(f)

LEMMA KeepsWithin ==
  /\ Keeps => StackInv' /\ SameWithin
  /\ SameWithin => /\ Within("handle callback")' <=> Within("handle callback")
                   /\ Within("error callback")' <=> Within("error callback")
                   /\ Within("eof callback")' <=> Within("eof callback")
                   /\ Within("closing")' <=> Within("closing")
                   /\ InCallback' <=> InCallback
  BY HandleFunctions DEF Keeps, SameWithin, HandleCFunctions, InCallback

LEMMA HandleFrame ==
  ASSUME HandleInv, SameWithin, UNCHANGED <<closed, data, stop, saved, uv, active>>,
         writes' \subseteq writes \/ uv = "open",
         \A c \in Coros : co'[c] = "handle" <=> co[c] = "handle"
  PROVE  HandleInv'
  BY KeepsWithin DEF HandleInv

(* Steps that change no field of the object but 'writes'. *)
LEMMA FrameStep ==
  ASSUME UdataInv, Keeps, UNCHANGED handleVars,
         \A c \in Coros : co'[c] = "handle" <=> co[c] = "handle"
  PROVE  StackInv' /\ HandleInv'
  <1>1. StackInv' /\ SameWithin
    BY KeepsWithin
  <1>2. HandleInv'
    BY <1>1, HandleFrame DEF UdataInv, handleVars
  <1>3. QED
    BY <1>1, <1>2

LEMMA InvStacked ==
  ASSUME UdataInv
  PROVE  /\ Stacked /\ StackInv
         /\ \A c \in Coros : Running(c) => co[c] = "running"
         /\ data # None => data \in Coros /\ co[data] = "handle"
  <1>1. Stacked /\ StackInv
    BY DEF UdataInv, TypeOK, Stacked, CoStates, Frames
  <1>2. \A c \in Coros : Running(c) => In(Lua(c))
    BY <1>1, StackTyped DEF Running
  <1>3. QED
    BY <1>1, <1>2 DEF StackInv, UdataInv, HandleInv, TypeOK, HandleTypeOK

LEMMA LuaInv ==
  ASSUME UdataInv, LuaNext, UNCHANGED <<nactive, handleVars, requestVars>>
  PROVE  StackInv' /\ HandleInv'
  <1> USE InvStacked
  <1>1. ASSUME NEW c \in Coros, Start(c)
        PROVE  Keeps /\ \A d \in Coros : co'[d] = "handle" <=> co[d] = "handle"
    BY <1>1, EnterKeeps DEF Start, Enter, Stacked
  <1>2. ASSUME NEW c \in Coros, Yield(c)
        PROVE  Keeps /\ \A d \in Coros : co'[d] = "handle" <=> co[d] = "handle"
    BY <1>2, ExitKeeps DEF Yield, Exit, Stacked
  <1>3. ASSUME NEW b \in Coros, NEW c \in Coros, Resume(b, c)
        PROVE  Keeps /\ \A d \in Coros : co'[d] = "handle" <=> co[d] = "handle"
    BY <1>3, EnterKeeps DEF Resume, Enter, Stacked
  <1>4. QED
    BY <1>1, <1>2, <1>3, FrameStep DEF LuaNext, requestVars

(* Steps of the state coroutine. *)
LEMMA RequestInv ==
  ASSUME UdataInv, RequestNext, UNCHANGED handleVars
  PROVE  StackInv' /\ HandleInv'
  <1> USE InvStacked
  <1> DEFINE same == \A d \in Coros : co'[d] = "handle" <=> co[d] = "handle"
  <1>1. StackInv' /\ SameWithin /\ same
    <2>1. CASE UNCHANGED loopVars
      BY <2>1, SameKeeps, KeepsWithin DEF loopVars, threadVars
    <2>2. ASSUME NEW c \in Coros, Running(c), StartedRequest(c)
          PROVE  StackInv' /\ SameWithin /\ same
      BY <2>2, ExitKeeps, KeepsWithin DEF StartedRequest, Exit, Stacked
    <2>3. ASSUME NEW c \in Coros, NEW d \in Coros, HaltRequest(c, d)
          PROVE  StackInv' /\ SameWithin /\ same
      BY <2>3, EnterKeeps, KeepsWithin DEF HaltRequest, Enter, Stacked
    <2>4. ASSUME NEW c \in Coros, NEW d \in Coros, CloseWaiter(c, d)
          PROVE  StackInv' /\ SameWithin /\ same
      <3>1. /\ UNCHANGED stack /\ same
            /\ \A b \in Coros : co[b] = "running" => co'[b] = "running"
        BY <2>4 DEF CloseWaiter, Stacked
      <3>2. QED
        BY <3>1, SameKeeps, KeepsWithin
    <2>5. CASE WorkDiscarded
      <3>1. /\ UNCHANGED stack /\ same
            /\ \A b \in Coros : co[b] = "running" => co'[b] = "running"
        BY <2>5, CorosAssumption DEF WorkDiscarded
      <3>2. QED
        BY <3>1, SameKeeps, KeepsWithin
    <2>6. CASE RequestReturns
      <3>1. Ends("request callback") /\ same
        BY <2>6, ReturnEnds DEF RequestReturns, CFunctions
      <3>2. QED
        BY <3>1, HandleFunctions DEF Ends, SameWithin, HandleCFunctions
    <2>7. CASE WorkResumes
      <3>1. thread \in Coros /\ co[thread] = "request" /\ Idle
            /\ Enter(thread, Append(stack, Call("request callback")))
        BY <2>7 DEF WorkResumes, UdataInv, TypeOK, RequestTypeOK
      <3>2. ~Within("request callback")
        BY <3>1, StackTyped, WithinIn
      <3>3. Begins("request callback") /\ same
        BY <3>1, <3>2, EnterBegins DEF CFunctions, HandleCFunctions, Enter, Stacked
      <3>4. QED
        BY <3>3, HandleFunctions DEF Begins, SameWithin, HandleCFunctions
    <2>8. QED
      BY <2>1, <2>2, <2>3, <2>4, <2>5, <2>6, <2>7
         DEF RequestNext, RequestLua, RequestCallbacks, SystemResume, CloseState, Working, Worked
  <1>2. HandleInv'
    BY <1>1, HandleFrame DEF UdataInv, handleVars
  <1>3. QED
    BY <1>1, <1>2

-----------------------------------------------------------------------------
(* Steps of the object. *)
LEMMA BooleanFlags ==
  ASSUME UdataInv
  PROVE  /\ closed \in BOOLEAN /\ stop \in BOOLEAN /\ saved \in BOOLEAN /\ active \in BOOLEAN
         /\ uv \in UvStates
  BY DEF UdataInv, TypeOK, HandleTypeOK

(* Nothing is called, and no coroutine is resumed nor suspended. *)
LEMMA QuietInv ==
  ASSUME UdataInv, UNCHANGED <<co, stack>>,
         (SameWithin /\ StackInv') => HandleInv'
  PROVE  StackInv' /\ HandleInv'
  <1>1. StackInv' /\ SameWithin
    BY InvStacked, SameKeeps, KeepsWithin
  <1>2. QED
    BY <1>1

LEMMA CreateInv ==
  ASSUME UdataInv, NEW c \in Coros, Create(c), UNCHANGED requestVars
  PROVE  StackInv' /\ HandleInv'
  <1>1. /\ uv = "none" /\ uv' = "open" /\ ~closed'
        /\ UNCHANGED <<co, stack, nactive, data, stop, saved, active, writes>>
    BY DEF Create, loopVars, threadVars
  <1>2. closed /\ ~saved /\ data = None /\ ~active /\ ~InCallback /\ ~Within("closing")
    BY <1>1 DEF UdataInv, HandleInv
  <1>3. SameWithin => HandleInv'
    BY <1>1, <1>2, KeepsWithin DEF UdataInv, HandleInv, InCallback
  <1>4. QED
    BY <1>1, <1>3, QuietInv

(* ReadError, Forget, Listen, AcceptCounted and CountConnection. *)
LEMMA UnchangedInv ==
  ASSUME UdataInv, UNCHANGED requestVars,
         UNCHANGED <<co, stack, nactive, closed, data, stop, saved, uv, active, writes>>
  PROVE  StackInv' /\ HandleInv'
  <1>1. SameWithin => HandleInv'
    BY HandleFrame DEF UdataInv
  <1>2. QED
    BY <1>1, QuietInv

(* uv_close of an open object in which nobody awaits. *)
LEMMA UvCloseInv ==
  ASSUME UdataInv, ~closed, data = None, ~Within("closing"), UvClose, UNCHANGED requestVars,
         UNCHANGED <<co, stack, nactive, data, stop, writes>>
  PROVE  StackInv' /\ HandleInv'
  <1>1. saved' /\ uv' = "closing" /\ ~active' /\ closed'
    BY DEF UvClose
  <1>2. SameWithin => HandleInv'
    BY <1>1, KeepsWithin, CorosAssumption DEF UdataInv, HandleInv
  <1>3. QED
    BY <1>2, QuietInv

LEMMA ClosedInv ==
  ASSUME UdataInv, Closed, UNCHANGED requestVars
  PROVE  StackInv' /\ HandleInv'
  <1>1. /\ Idle /\ uv = "closing" /\ writes = {} /\ uv' = "closed" /\ ~saved'
        /\ UNCHANGED <<co, stack, nactive, closed, data, stop, active, writes>>
    BY DEF Closed, loopVars, threadVars
  <1>2. ~Within("closing") /\ ~InCallback
    BY <1>1, InvStacked, StackTyped, WithinIn DEF InCallback
  <1>3. SameWithin => HandleInv'
    BY <1>1, <1>2, KeepsWithin DEF UdataInv, HandleInv
  <1>4. QED
    BY <1>1, <1>3, QuietInv

LEMMA CollectInv ==
  ASSUME UdataInv, Collect, UNCHANGED requestVars
  PROVE  StackInv' /\ HandleInv'
  <1>1. /\ ~saved /\ ~Within("closing") /\ uv \notin {"none", "freed"}
        /\ UNCHANGED <<co, stack, nactive, data, stop, writes>>
    BY DEF Collect, Garbage, loopVars, threadVars
  <1>2. data = None
    BY <1>1 DEF UdataInv, HandleInv
  <1>3. CASE ~closed /\ UvClose
    BY <1>1, <1>2, <1>3, UvCloseInv
  <1>4. CASE closed /\ uv' = "freed" /\ UNCHANGED <<saved, active, closed>>
    <2>1. uv = "closed"
      BY <1>1, <1>4, BooleanFlags DEF UdataInv, HandleInv, UvStates
    <2>2. SameWithin => HandleInv'
      BY <1>1, <1>4, <2>1, KeepsWithin DEF UdataInv, HandleInv
    <2>3. QED
      BY <1>1, <1>4, <2>2, QuietInv
  <1>5. QED
    BY <1>3, <1>4 DEF Collect

(* lcuT_resetudhdlk. *)
LEMMA ResetInv ==
  ASSUME UdataInv, NEW c \in Coros, Running(c), ~closed, ~Within("closing"), ResetHandle(c),
         UNCHANGED <<closed, uv, writes, requestVars>>
  PROVE  StackInv' /\ HandleInv'
  <1>1. data = None /\ data' = c /\ Exit(c, "handle")
    BY DEF ResetHandle
  <1>2. StackInv' /\ SameWithin /\ co[c] = "running"
    BY <1>1, InvStacked, ExitKeeps, KeepsWithin
  <1>3. \A d \in Coros : co'[d] = IF d = c THEN "handle" ELSE co[d]
    BY <1>1, InvStacked DEF Exit, Stacked
  <1>4. uv = "open"
    BY DEF UdataInv, HandleInv
  <1>5. saved' /\ stop'
    <2>1. CASE ~stop
      BY <2>1 DEF ResetHandle
    <2>2. CASE stop
      <3>1. Within("handle callback") \/ Within("error callback")
        BY <1>1, <2>2 DEF UdataInv, HandleInv
      <3>2. saved
        BY <3>1 DEF UdataInv, HandleInv, InCallback
      <3>3. QED
        BY <2>2, <3>2 DEF ResetHandle
    <2>3. QED
      BY <2>1, <2>2
  <1>6. c # None
    BY CorosAssumption
  <1>7. HandleInv'
    <2>1. \A d \in Coros : co'[d] = "handle" <=> data' = d
      BY <1>1, <1>2, <1>3, <1>6, CorosAssumption DEF UdataInv, HandleInv
    <2>2. QED
      BY <1>1, <1>2, <1>4, <1>5, <1>6, <2>1, KeepsWithin DEF HandleInv
  <1>8. QED
    BY <1>2, <1>7

(* Requests of the object. *)
LEMMA WriteInv ==
  ASSUME UdataInv, NEW c \in Coros, Write(c) \/ Written(c), UNCHANGED requestVars
  PROVE  StackInv' /\ HandleInv'
  <1> USE InvStacked
  <1> DEFINE same == \A d \in Coros : co'[d] = "handle" <=> co[d] = "handle"
  <1>1. UNCHANGED <<closed, data, stop, saved, held, uv, active, readVars>>
    BY DEF Write, Written
  <1>2. StackInv' /\ SameWithin /\ same
    <2>1. CASE Write(c)
      <3>1. PICK k \in {"write", "deferred"} : Running(c) /\ Exit(c, k)
        BY <2>1 DEF Write, Uses
      <3>2. Keeps /\ co[c] = "running"
        BY <3>1, ExitKeeps
      <3>3. same
        BY <3>1, <3>2 DEF Exit, Stacked
      <3>4. QED
        BY <3>2, <3>3, KeepsWithin
    <2>2. CASE Written(c)
      <3>1. CASE co[c] \in {"write", "deferred"} /\ Enter(c, stack)
        <4>1. Keeps
          BY <3>1, EnterKeeps
        <4>2. same
          BY <3>1 DEF Enter, Stacked
        <4>3. QED
          BY <4>1, <4>2, KeepsWithin
      <3>2. CASE co[c] = "deferred" /\ co' = [co EXCEPT ![c] = "write"] /\ UNCHANGED stack
        <4>1. same /\ \A d \in Coros : co[d] = "running" => co'[d] = "running"
          BY <3>2 DEF Stacked
        <4>2. QED
          BY <3>2, <4>1, SameKeeps, KeepsWithin
      <3>3. CASE UNCHANGED <<co, stack>>
        BY <3>3, SameKeeps, KeepsWithin
      <3>4. QED
        BY <2>2, <3>1, <3>2, <3>3 DEF Written
    <2>3. QED
      BY <2>1, <2>2
  <1>3. HandleInv'
    <2>1. writes' \subseteq writes \/ uv = "open"
      BY DEF Write, Written, UdataInv, HandleInv
    <2>2. QED
      BY <1>1, <1>2, <2>1, HandleFrame DEF UdataInv
  <1>4. QED
    BY <1>2, <1>3

LEMMA HaltWriteInv ==
  ASSUME UdataInv, NEW c \in Coros, NEW d \in Coros, HaltWrite(c, d), UNCHANGED requestVars
  PROVE  StackInv' /\ HandleInv'
  <1>1. co[d] \in {"write", "deferred"} /\ Enter(d, stack) /\ UNCHANGED <<nactive, handleVars>>
    BY DEF HaltWrite
  <1>2. Keeps
    BY <1>1, InvStacked, EnterKeeps
  <1>3. \A b \in Coros : co'[b] = "handle" <=> co[b] = "handle"
    BY <1>1, InvStacked DEF Enter, Stacked
  <1>4. QED
    BY <1>1, <1>2, <1>3, FrameStep DEF requestVars

(* The coroutine that awaits is resumed. *)
LEMMA WakeInv ==
  ASSUME UdataInv, data # None, NEW g \in HandleCFunctions,
         \A f \in HandleCFunctions : ~Within(f), Wake(<<Call(g)>>)
  PROVE  /\ Begins(g) /\ data' = None
         /\ \A c \in Coros : co'[c] # "handle"
  <1> Stacked /\ StackInv /\ data \in Coros /\ co[data] = "handle" /\ g \in CFunctions
    BY InvStacked, HandleFunctions
  <1>1. stack \o <<Call(g)>> = Append(stack, Call(g))
    <2>1. Call(g) \in Frames
      BY FramesTyped
    <2>2. QED
      BY <2>1, AppendIsConcat DEF Stacked
  <1>2. Enter(data, Append(stack, Call(g))) /\ data' = None
    BY <1>1 DEF Wake
  <1>3. Begins(g)
    BY <1>2, EnterBegins
  <1>4. \A c \in Coros : co'[c] # "handle"
    BY <1>2 DEF Enter, Stacked, UdataInv, HandleInv
  <1>5. QED
    BY <1>2, <1>3, <1>4

LEMMA WakeAloneInv ==
  ASSUME UdataInv, data # None, Wake(<<>>)
  PROVE  /\ StackInv' /\ SameWithin /\ data' = None
         /\ \A c \in Coros : co'[c] # "handle"
  <1> Stacked /\ StackInv /\ data \in Coros /\ co[data] = "handle"
    BY InvStacked
  <1>1. stack \o <<>> = stack
    BY DEF Stacked
  <1>2. Enter(data, stack) /\ data' = None
    BY <1>1 DEF Wake
  <1>3. StackInv' /\ SameWithin
    BY <1>2, EnterKeeps, KeepsWithin
  <1>4. \A c \in Coros : co'[c] # "handle"
    BY <1>2 DEF Enter, Stacked, UdataInv, HandleInv
  <1>5. QED
    BY <1>2, <1>3, <1>4

(* stopudhdl, out of the callbacks of the object. *)
LEMMA StopEffect ==
  ASSUME UdataInv, data # None, ~InCallback, StopHandle
  PROVE  /\ stop /\ ~closed /\ uv = "open"
         /\ ~stop' /\ ~active' /\ ~saved' /\ ~closed' /\ uv' = "open" /\ nactive' = nactive - 1
  <1>1. stop /\ ~closed /\ uv = "open"
    BY DEF UdataInv, HandleInv, InCallback
  <1>2. QED
    BY <1>1 DEF StopHandle

LEMMA StoppedInv ==
  ASSUME UdataInv, data # None, ~InCallback, StopHandle, data' = None, StackInv',
         ~InCallback', \A c \in Coros : co'[c] # "handle",
         UNCHANGED <<writes, requestVars>>
  PROVE  HandleInv'
  <1>1. /\ stop /\ ~closed /\ uv = "open"
        /\ ~stop' /\ ~active' /\ ~saved' /\ ~closed' /\ uv' = "open" /\ nactive' = nactive - 1
    BY StopEffect
  <1>2. ~Within("handle callback")' /\ ~Within("error callback")'
    BY DEF InCallback
  <1>3. QED
    BY <1>1, <1>2, CorosAssumption DEF HandleInv

LEMMA HaltHandleInv ==
  ASSUME UdataInv, ~Reentrant, NEW c \in Coros, HaltHandle(c), UNCHANGED requestVars
  PROVE  StackInv' /\ HandleInv'
  <1>1. data # None /\ ~InCallback /\ StopHandle /\ Wake(<<>>) /\ UNCHANGED <<writes>>
    BY DEF HaltHandle, Halts
  <1>2. /\ StackInv' /\ SameWithin /\ data' = None
        /\ \A d \in Coros : co'[d] # "handle"
    BY <1>1, WakeAloneInv
  <1>3. ~InCallback'
    BY <1>1, <1>2, KeepsWithin
  <1>4. QED
    BY <1>1, <1>2, <1>3, StoppedInv

LEMMA CloseResumesInv ==
  ASSUME UdataInv, ~Reentrant, NEW c \in Coros, CloseResumes(c), UNCHANGED requestVars
  PROVE  StackInv' /\ HandleInv'
  <1>1. /\ data # None /\ ~InCallback /\ ~Within("closing") /\ StopHandle
        /\ Wake(<<Call("closing")>>) /\ UNCHANGED <<writes>>
    BY DEF CloseResumes, Halts
  <1>2. \A f \in HandleCFunctions : ~Within(f)
    BY <1>1 DEF HandleCFunctions, InCallback
  <1>3. "closing" \in HandleCFunctions
    BY DEF HandleCFunctions
  <1>4. /\ Begins("closing") /\ data' = None
        /\ \A d \in Coros : co'[d] # "handle"
    BY <1>1, <1>2, <1>3, WakeInv
  <1>5. StackInv' /\ ~InCallback'
    BY <1>1, <1>4 DEF Begins, CFunctions, InCallback
  <1>6. QED
    BY <1>1, <1>4, <1>5, StoppedInv

(* The callbacks of the handle. *)
LEMMA CallbackInv ==
  ASSUME UdataInv, Received \/ ReadFailed \/ Connection \/ EndOfStream
  PROVE  StackInv' /\ HandleInv'
  <1>1. Idle /\ data # None /\ UNCHANGED <<closed, saved, uv, writes>>
    BY DEF Received, ReadFailed, Connection, EndOfStream
  <1>2. \A f \in CFunctions : ~Within(f)
    BY <1>1, InvStacked, StackTyped, WithinIn
  <1>3. stop /\ saved /\ ~closed /\ uv = "open"
    BY <1>1 DEF UdataInv, HandleInv
  <1>4. PICK g \in {"handle callback", "error callback", "eof callback"} :
          /\ Wake(<<Call(g)>>)
          /\ IF g = "eof callback" THEN ~stop' /\ ~active' ELSE UNCHANGED <<stop, active>>
    BY DEF Received, ReadFailed, Connection, EndOfStream
  <1>5. Begins(g) /\ data' = None /\ \A c \in Coros : co'[c] # "handle"
    BY <1>1, <1>2, <1>4, WakeInv, HandleFunctions DEF HandleCFunctions
  <1>6. /\ StackInv' /\ InCallback' /\ ~Within("closing")'
        /\ Within("handle callback")' <=> g = "handle callback"
        /\ Within("error callback")' <=> g = "error callback"
    BY <1>2, <1>5 DEF Begins, CFunctions, InCallback
  <1>7. HandleInv'
    BY <1>1, <1>3, <1>4, <1>5, <1>6, CorosAssumption DEF UdataInv, HandleInv
  <1>8. QED
    BY <1>6, <1>7

LEMMA CallbackReturnsInv ==
  ASSUME UdataInv, CallbackReturns
  PROVE  StackInv' /\ HandleInv'
  <1>1. PICK g \in {"handle callback", "error callback", "eof callback"} : Returning(g)
    BY DEF CallbackReturns, ReturningCallback
  <1>2. stack' = Below /\ UNCHANGED <<co, data, writes>>
    BY DEF CallbackReturns
  <1>3. Ends(g)
    BY <1>1, <1>2, InvStacked, ReturnEnds DEF CFunctions
  <1>4. /\ StackInv' /\ ~InCallback' /\ InCallback
        /\ ~Within("handle callback")' /\ ~Within("error callback")' /\ ~Within("closing")'
    <2>1. \A f \in HandleCFunctions : Within(f) => f = g
      BY <1>1, <1>3, InvStacked DEF Ends, StackInv, HandleCFunctions
    <2>2. QED
      BY <1>1, <1>3, <2>1 DEF Ends, CFunctions, HandleCFunctions, InCallback
  <1>5. saved /\ (closed <=> uv # "open") /\ (data # None => stop) /\ (active => stop)
    BY <1>4 DEF UdataInv, HandleInv
  <1>6. CASE data = None
    <2>1. /\ ~stop' /\ UNCHANGED <<closed, uv>>
          /\ active' = (active /\ ~stop) /\ saved' = (saved /\ closed)
      BY <1>6 DEF CallbackReturns, StopHandle
    <2>2. ~active' /\ (saved' <=> closed)
      BY <1>5, <2>1
    <2>3. HandleInv'
      BY <1>2, <1>4, <1>5, <1>6, <2>1, <2>2 DEF UdataInv, HandleInv
    <2>4. QED
      BY <1>4, <2>3
  <1>7. CASE data # None
    <2>1. UNCHANGED <<stop, saved, closed, uv>> /\ (active' => active)
      BY <1>7 DEF CallbackReturns
    <2>2. HandleInv'
      BY <1>2, <1>4, <1>5, <1>7, <2>1 DEF UdataInv, HandleInv
    <2>3. QED
      BY <1>4, <2>2
  <1>8. QED
    BY <1>6, <1>7

LEMMA CloseReturnsInv ==
  ASSUME UdataInv, CloseReturns
  PROVE  StackInv' /\ HandleInv'
  <1>1. /\ Returning("closing") /\ stack' = Below /\ UvClose
        /\ UNCHANGED <<co, data, stop, writes>>
    BY DEF CloseReturns
  <1>2. Ends("closing")
    BY <1>1, InvStacked, ReturnEnds DEF CFunctions
  <1>3. /\ StackInv' /\ Within("closing") /\ ~Within("closing")' /\ ~InCallback'
        /\ ~Within("handle callback")' /\ ~Within("error callback")'
        /\ ~Within("handle callback") /\ ~Within("error callback")
    <2>1. \A f \in HandleCFunctions : Within(f) => f = "closing"
      BY <1>2, InvStacked DEF Ends, StackInv, HandleCFunctions
    <2>2. QED
      BY <1>2, <2>1 DEF Ends, CFunctions, HandleCFunctions, InCallback
  <1>4. ~closed /\ ~saved /\ uv = "open" /\ data = None /\ ~active /\ ~stop
    BY <1>3 DEF UdataInv, HandleInv
  <1>5. saved' /\ uv' = "closing" /\ ~active' /\ closed'
    BY <1>1 DEF UvClose
  <1>6. HandleInv'
    BY <1>1, <1>3, <1>4, <1>5 DEF UdataInv, HandleInv
  <1>7. QED
    BY <1>3, <1>6

LEMMA HandleStepInv ==
  ASSUME UdataInv, ~Reentrant, HandleNext, UNCHANGED requestVars
  PROVE  StackInv' /\ HandleInv'
  <1> USE DEF loopVars, threadVars
  <1>1. ASSUME NEW c \in Coros, Create(c)
        PROVE  StackInv' /\ HandleInv'
    BY <1>1, CreateInv
  <1>2. ASSUME NEW c \in Coros, Read(c) \/ AcceptAwaits(c)
        PROVE  StackInv' /\ HandleInv'
    BY <1>2, ResetInv DEF Read, AcceptAwaits, Uses
  <1>3. ASSUME NEW c \in Coros, ReadError(c)
        PROVE  StackInv' /\ HandleInv'
    <2>1. UNCHANGED <<data, saved>>
      BY <1>3, BooleanFlags DEF ReadError
    <2>2. QED
      BY <1>3, <2>1, UnchangedInv DEF ReadError
  <1>4. ASSUME NEW c \in Coros, Forget(c) \/ Listen(c) \/ AcceptCounted(c)
        PROVE  StackInv' /\ HandleInv'
    BY <1>4, UnchangedInv DEF Forget, Listen, AcceptCounted
  <1>5. ASSUME NEW c \in Coros, Close(c)
        PROVE  StackInv' /\ HandleInv'
    BY <1>5, UvCloseInv DEF Close, Uses
  <1>6. ASSUME NEW c \in Coros, HaltHandle(c) \/ CloseResumes(c)
        PROVE  StackInv' /\ HandleInv'
    BY <1>6, HaltHandleInv, CloseResumesInv
  <1>7. ASSUME NEW c \in Coros, Write(c) \/ Written(c)
        PROVE  StackInv' /\ HandleInv'
    BY <1>7, WriteInv
  <1>8. ASSUME NEW c \in Coros, NEW d \in Coros, HaltWrite(c, d)
        PROVE  StackInv' /\ HandleInv'
    BY <1>8, HaltWriteInv
  <1>9. CASE Received \/ ReadFailed \/ EndOfStream \/ Connection
    BY <1>9, CallbackInv
  <1>10. CASE CountConnection
    BY <1>10, UnchangedInv DEF CountConnection
  <1>11. CASE Closed \/ Collect
    BY <1>11, ClosedInv, CollectInv
  <1>12. CASE CallbackReturns \/ CloseReturns
    BY <1>12, CallbackReturnsInv, CloseReturnsInv
  <1>13. QED
    BY <1>1, <1>2, <1>3, <1>4, <1>5, <1>6, <1>7, <1>8, <1>9, <1>10, <1>11, <1>12
       DEF HandleNext, HandleLua, HandleCallbacks, HandleReturns

-----------------------------------------------------------------------------
LEMMA InitUdataInv == Init => UdataInv
  <1> SUFFICES ASSUME Init PROVE UdataInv
    OBVIOUS
  <1>1. TypeOK
    BY InitTyped
  <1>2. stack = <<>> /\ Idle /\ Stacked
    BY <1>1 DEF Init, ThreadsInit, Idle, TypeOK, Stacked, CoStates, Frames
  <1>3. (\A x : ~In(x)) /\ \A f : ~Within(f)
    BY <1>2, StackTyped, WithinIn
  <1>4. StackInv
    <2>1. Unique
      BY <1>2 DEF Unique
    <2>2. QED
      BY <1>3, <2>1 DEF StackInv
  <1>5. HandleInv
    BY <1>3, CorosAssumption DEF HandleInv, InCallback, Init, HandleInit, ThreadsInit
  <1>6. QED
    BY <1>1, <1>4, <1>5 DEF UdataInv

LEMMA NextUdataInv ==
  ASSUME ~Reentrant, UdataInv, [Next]_vars
  PROVE  UdataInv'
  <1>1. TypeOK'
    BY NextTyped DEF UdataInv
  <1>2. StackInv' /\ HandleInv'
    <2>1. CASE LuaNext /\ UNCHANGED <<nactive, handleVars, requestVars>>
      BY <2>1, LuaInv
    <2>2. CASE HandleNext /\ UNCHANGED requestVars
      BY <2>2, HandleStepInv
    <2>3. CASE RequestNext /\ UNCHANGED handleVars
      BY <2>3, RequestInv
    <2>4. CASE UNCHANGED vars
      <3>1. UNCHANGED <<co, stack, nactive, handleVars, requestVars>>
        BY <2>4 DEF vars, loopVars, threadVars
      <3>2. QED
        BY <3>1, UnchangedInv DEF handleVars
    <2>5. QED
      BY <2>1, <2>2, <2>3, <2>4 DEF Next
  <1>3. QED
    BY <1>1, <1>2 DEF UdataInv

LEMMA SpecUdataInv ==
  ASSUME ~Reentrant
  PROVE  Spec => []UdataInv
  <1>1. UdataInv /\ [Next]_vars => UdataInv'
    BY NextUdataInv
  <1>2. QED
    BY <1>1, InitUdataInv, PTL DEF Spec

(* The object stays in the registry while libuv or a callback uses it, and *)
(* leaves it afterwards (lcuT_resetudhdlk, stopudhdl, closedudhdl), as     *)
(* long as Lua code does not end the operation of the object in its        *)
(* callback, nor uses it when resumed by its 'close'.                      *)
THEOREM UsedObjectsAreSaved ==
  ASSUME ~Reentrant
  PROVE  Spec => []SavedWhileUsed
  <1>1. ASSUME UdataInv
        PROVE  SavedWhileUsed
    <2>1. Idle => ~InCallback
      BY <1>1, InvStacked, StackTyped, WithinIn DEF InCallback
    <2>2. QED
      BY <1>1, <2>1 DEF UdataInv, HandleInv, SavedWhileUsed
  <1>2. QED
    BY <1>1, SpecUdataInv, PTL

-----------------------------------------------------------------------------
(* What is in a sequence of calls. *)
Has(s, x) == \E i \in DOMAIN s : s[i] = x
Once(s, x) == \A i, j \in DOMAIN s : s[i] = x /\ s[j] = x => i = j

LEMMA Push ==
  ASSUME NEW s \in Seq(Frames), NEW f \in Frames
  PROVE  /\ Append(s, f) \in Seq(Frames)
         /\ \A x : Has(Append(s, f), x) <=> Has(s, x) \/ x = f
         /\ \A x : Once(s, x) /\ (x # f \/ ~Has(s, x)) => Once(Append(s, f), x)
  <1> DEFINE n == Len(s)
             r == Append(s, f)
  <1>1. n \in Nat /\ DOMAIN s = 1..n
    BY LenProperties
  <1>2. /\ r \in Seq(Frames) /\ DOMAIN r = 1..n + 1 /\ r[n + 1] = f
        /\ \A i \in 1..n : r[i] = s[i]
    <2>1. r \in Seq(Frames) /\ Len(r) = n + 1 /\ r[n + 1] = f /\ \A i \in 1..n : r[i] = s[i]
      BY AppendProperties
    <2>2. QED
      BY <2>1, LenProperties
  <1> HIDE DEF n, r
  <1>3. \A i : i \in 1..n + 1 <=> i \in 1..n \/ i = n + 1
    BY <1>1
  <1>4. \A x : Has(r, x) <=> Has(s, x) \/ x = f
    BY <1>1, <1>2, <1>3 DEF Has
  <1>5. ASSUME NEW x, Once(s, x), x # f \/ ~Has(s, x)
        PROVE  Once(r, x)
    BY <1>1, <1>2, <1>3, <1>5 DEF Once, Has
  <1>6. QED
    BY <1>2, <1>4, <1>5 DEF r

LEMMA Pop ==
  ASSUME NEW s \in Seq(Frames), s # <<>>
  PROVE  LET r == SubSeq(s, 1, Len(s) - 1)
             f == s[Len(s)]
         IN  /\ \A x : Has(r, x) => Has(s, x)
             /\ \A x : Has(s, x) /\ x # f => Has(r, x)
             /\ \A x : Once(s, x) => Once(r, x)
             /\ Has(s, f) /\ (Once(s, f) => ~Has(r, f))
  <1> DEFINE n == Len(s) - 1
             r == SubSeq(s, 1, n)
             f == s[Len(s)]
  <1>1. n \in Nat /\ Len(s) = n + 1 /\ DOMAIN s = 1..n + 1 /\ f = s[n + 1]
    BY LenProperties, EmptySeq
  <1>2. \A i \in 1..n : s[i] \in Frames
    BY <1>1, ElementOfSeq
  <1> HIDE DEF n, f
  <1>3. DOMAIN r = 1..n /\ \A i \in 1..n : r[i] = s[i]
    <2>1. r \in Seq(Frames) /\ Len(r) = n /\ \A i \in 1..n : r[i] = s[i]
      BY <1>1, <1>2, SubSeqProperties
    <2>2. QED
      BY <2>1, LenProperties
  <1> HIDE DEF r
  <1>4. /\ \A i : i \in 1..n + 1 <=> i \in 1..n \/ i = n + 1
        /\ n + 1 \notin 1..n
    BY <1>1
  <1>5. \A x : Has(r, x) => Has(s, x)
    BY <1>1, <1>3, <1>4 DEF Has
  <1>6. \A x : Has(s, x) /\ x # f => Has(r, x)
    BY <1>1, <1>3, <1>4 DEF Has
  <1>7. \A x : Once(s, x) => Once(r, x)
    BY <1>1, <1>3, <1>4 DEF Once
  <1>8. Has(s, f) /\ (Once(s, f) => ~Has(r, f))
    BY <1>1, <1>3, <1>4 DEF Has, Once
  <1>9. QED
    BY <1>5, <1>6, <1>7, <1>8 DEF r, n, f

-----------------------------------------------------------------------------
(* The object whatever Lua code does.  A coroutine is in the stack once,   *)
(* but a call of 'close' may be there many times.                          *)
CorosInv ==
  /\ \A c \in Coros : Once(stack, Lua(c))
  /\ \A c \in Coros : Has(stack, Lua(c)) => co[c] = "running"

(* In a callback of the object 'stop' may be defined though nobody awaits; *)
(* the end of the callback clears it.                                      *)
AwaitInv ==
  /\ \A c \in Coros : co[c] = "handle" <=> data = c
  /\ data # None => stop
  /\ active => stop /\ ~closed
  /\ stop /\ data = None => InCallback

DocInv == TypeOK /\ CorosInv /\ AwaitInv

LEMMA DocFacts ==
  ASSUME DocInv
  PROVE  /\ Stacked
         /\ \A c \in Coros : Running(c) => co[c] = "running"
         /\ data # None => data \in Coros /\ co[data] = "handle"
         /\ Idle => ~InCallback
  <1>1. Stacked
    BY DEF DocInv, TypeOK, Stacked, CoStates, Frames
  <1>2. \A c \in Coros : Running(c) => Has(stack, Lua(c))
    BY <1>1, Pop DEF Running, Idle, Top, Stacked
  <1>3. Idle => ~InCallback
    BY DEF Idle, InCallback, Within
  <1>4. QED
    BY <1>1, <1>2, <1>3 DEF DocInv, CorosInv, AwaitInv, TypeOK, HandleTypeOK

LEMMA InCallbackHas ==
  /\ InCallback <=> \E f \in {"handle callback", "error callback", "eof callback"} :
                       Has(stack, Call(f))
  /\ InCallback' <=> \E f \in {"handle callback", "error callback", "eof callback"} :
                       Has(stack', Call(f))
  BY DEF InCallback, Within, Has

(* lua_resume of c, by the function that calls fs or by none. *)
LEMMA EnterDoc ==
  ASSUME DocInv, NEW c \in Coros, co[c] # "running",
         Enter(c, stack) \/ \E g \in CFunctions : Enter(c, Append(stack, Call(g)))
  PROVE  /\ CorosInv' /\ (InCallback => InCallback')
         /\ \A f \in CFunctions : Enter(c, Append(stack, Call(f))) => Within(f)'
  <1>1. Stacked /\ Lua(c) \in Frames
    BY DocFacts, FramesTyped
  <1>2. PICK s \in Seq(Frames) :
          /\ Enter(c, s)
          /\ \A x : Has(stack, x) => Has(s, x)
          /\ \A d \in Coros : Has(s, Lua(d)) => Has(stack, Lua(d))
          /\ \A d \in Coros : Once(stack, Lua(d)) => Once(s, Lua(d))
    <2>1. CASE Enter(c, stack)
      BY <1>1, <2>1 DEF Stacked
    <2>2. ASSUME NEW g \in CFunctions, Enter(c, Append(stack, Call(g)))
          PROVE  \E s \in Seq(Frames) :
                   /\ Enter(c, s)
                   /\ \A x : Has(stack, x) => Has(s, x)
                   /\ \A d \in Coros : Has(s, Lua(d)) => Has(stack, Lua(d))
                   /\ \A d \in Coros : Once(stack, Lua(d)) => Once(s, Lua(d))
      <3>1. PICK s : s = Append(stack, Call(g))
        OBVIOUS
      <3>2. /\ s \in Seq(Frames)
            /\ \A x : Has(s, x) <=> Has(stack, x) \/ x = Call(g)
            /\ \A x : Once(stack, x) /\ x # Call(g) => Once(s, x)
        BY <1>1, <3>1, FramesTyped, Push DEF Stacked
      <3>3. \A d \in Coros : Lua(d) # Call(g)
        BY FramesTyped
      <3>4. QED
        BY <2>2, <3>1, <3>2, <3>3
    <2>3. QED
      BY <2>1, <2>2
  <1>3. /\ stack' = Append(s, Lua(c)) /\ co' = [co EXCEPT ![c] = "running"]
        /\ \A x : Has(stack', x) <=> Has(s, x) \/ x = Lua(c)
        /\ \A x : Once(s, x) /\ (x # Lua(c) \/ ~Has(s, x)) => Once(stack', x)
    BY <1>1, <1>2, Push DEF Enter
  <1>4. ~Has(s, Lua(c)) /\ \A d \in Coros : Lua(d) = Lua(c) => d = c
    <2>1. ~Has(s, Lua(c))
      BY <1>2 DEF DocInv, CorosInv
    <2>2. \A d \in Coros : Lua(d) = Lua(c) => d = c
      BY DEF Lua
    <2>3. QED
      BY <2>1, <2>2
  <1>5. CorosInv'
    BY <1>1, <1>2, <1>3, <1>4 DEF DocInv, CorosInv, Stacked
  <1>6. InCallback => InCallback'
    BY <1>2, <1>3, InCallbackHas
  <1>7. ASSUME NEW f \in CFunctions, Enter(c, Append(stack, Call(f)))
        PROVE  Within(f)'
    <2>1. PICK r : r = Append(stack, Call(f))
      OBVIOUS
    <2>2. Has(r, Call(f)) /\ r \in Seq(Frames)
      BY <1>1, <2>1, FramesTyped, Push DEF Stacked
    <2>3. stack' = Append(r, Lua(c))
      BY <1>7, <2>1 DEF Enter
    <2>4. Has(stack', Call(f))
      BY <1>1, <2>2, <2>3, Push
    <2>5. QED
      BY <2>4 DEF Has, Within
  <1>8. QED
    BY <1>5, <1>6, <1>7

(* The call on top of the stack returns. *)
LEMMA ReturnDoc ==
  ASSUME DocInv, ~Idle, stack' = Below,
         \A d \in Coros : co'[d] = co[d] \/ Top = Lua(d)
  PROVE  /\ CorosInv'
         /\ ~ReturningCallback /\ InCallback => InCallback'
  <1>1. stack \in Seq(Frames) /\ stack # <<>>
    BY DocFacts DEF Stacked, Idle
  <1>2. /\ \A x : Has(stack', x) => Has(stack, x)
        /\ \A x : Has(stack, x) /\ x # Top => Has(stack', x)
        /\ \A x : Once(stack, x) => Once(stack', x)
        /\ Once(stack, Top) => ~Has(stack', Top)
    BY <1>1, Pop DEF Below, Top
  <1>3. CorosInv'
    BY <1>2 DEF DocInv, CorosInv
  <1>4. ~ReturningCallback /\ InCallback => InCallback'
    BY <1>2, InCallbackHas DEF ReturningCallback, Returning
  <1>5. QED
    BY <1>3, <1>4

LEMMA ExitDoc ==
  ASSUME DocInv, NEW c \in Coros, NEW k, Running(c), Exit(c, k)
  PROVE  /\ CorosInv' /\ (InCallback => InCallback')
         /\ co[c] = "running" /\ co' = [co EXCEPT ![c] = k]
  <1>1. ~Idle /\ stack' = Below /\ Top = Lua(c) /\ co' = [co EXCEPT ![c] = k]
    BY DEF Running, Exit
  <1>2. ~ReturningCallback
    <2>1. \A f \in {"handle callback", "error callback", "eof callback"} : Lua(c) # Call(f)
      BY FramesTyped DEF CFunctions
    <2>2. QED
      BY <1>1, <2>1 DEF ReturningCallback, Returning
  <1>3. \A d \in Coros : co'[d] = co[d] \/ Top = Lua(d)
    BY <1>1, DocFacts DEF Stacked
  <1>4. QED
    BY <1>1, <1>2, <1>3, ReturnDoc, DocFacts

LEMMA SameDoc ==
  ASSUME DocInv, UNCHANGED stack,
         \A c \in Coros : co[c] = "running" => co'[c] = "running"
  PROVE  CorosInv' /\ (InCallback => InCallback')
  BY InCallbackHas DEF DocInv, CorosInv

(* Steps that do not change whether the handle is started. *)
AwaitSame ==
  /\ UNCHANGED <<data, stop, active, closed>>
  /\ \A c \in Coros : co'[c] = "handle" <=> co[c] = "handle"

LEMMA AwaitFrame ==
  ASSUME DocInv, AwaitSame, InCallback => InCallback'
  PROVE  AwaitInv'
  BY DEF DocInv, AwaitInv, AwaitSame

(* Coroutines, and the state coroutine, which do not use the object. *)
LEMMA OthersDoc ==
  ASSUME DocInv, LuaNext \/ RequestNext, UNCHANGED handleVars
  PROVE  CorosInv' /\ AwaitInv'
  <1> Stacked
    BY DocFacts
  <1> DEFINE kept == CorosInv' /\ (InCallback => InCallback')
             same == \A d \in Coros : co'[d] = "handle" <=> co[d] = "handle"
  <1>1. ASSUME NEW c \in Coros, co[c] \notin {"running", "handle"},
               Enter(c, stack) \/ Enter(c, Append(stack, Call("request callback")))
        PROVE  kept /\ same
    <2>1. kept
      BY <1>1, EnterDoc DEF CFunctions
    <2>2. co' = [co EXCEPT ![c] = "running"]
      BY <1>1 DEF Enter
    <2>3. QED
      BY <1>1, <2>1, <2>2 DEF Stacked
  <1>2. ASSUME NEW c \in Coros, NEW k \in CoStates \ {"handle"}, Running(c), Exit(c, k)
        PROVE  kept /\ same
    BY <1>2, ExitDoc DEF Stacked
  <1>3. ASSUME UNCHANGED stack,
               \A d \in Coros : co'[d] # co[d] =>
                 co[d] \in {"request", "dead"} /\ co'[d] # "handle"
        PROVE  kept /\ same
    BY <1>3, SameDoc
  <1>4. CASE LuaNext
    <2>1. ASSUME NEW c \in Coros, Start(c) \/ Yield(c)
          PROVE  kept /\ same
      BY <1>1, <1>2, <2>1 DEF Start, Yield, CoStates
    <2>2. ASSUME NEW c \in Coros, NEW d \in Coros, Resume(c, d)
          PROVE  kept /\ same
      BY <1>1, <2>2 DEF Resume
    <2>3. QED
      BY <1>4, <2>1, <2>2, AwaitFrame DEF LuaNext, AwaitSame, handleVars
  <1>5. CASE RequestNext
    <2>1. ASSUME UNCHANGED loopVars
          PROVE  kept /\ same
      BY <1>3, <2>1 DEF loopVars, threadVars
    <2>2. ASSUME NEW c \in Coros, Running(c), StartedRequest(c)
          PROVE  kept /\ same
      BY <1>2, <2>2 DEF StartedRequest, CoStates
    <2>3. ASSUME NEW c \in Coros, NEW d \in Coros, HaltRequest(c, d)
          PROVE  kept /\ same
      BY <1>1, <2>3 DEF HaltRequest
    <2>4. ASSUME NEW c \in Coros, NEW d \in Coros, CloseWaiter(c, d)
          PROVE  kept /\ same
      BY <1>3, <2>4 DEF CloseWaiter, Stacked
    <2>5. ASSUME WorkDiscarded
          PROVE  kept /\ same
      <3>1. \A d \in Coros : co'[d] # co[d] => co[d] = "dead" /\ co'[d] # "handle"
        BY <2>5, CorosAssumption DEF WorkDiscarded
      <3>2. QED
        BY <1>3, <2>5, <3>1 DEF WorkDiscarded
    <2>6. ASSUME WorkResumes
          PROVE  kept /\ same
      BY <1>1, <2>6 DEF WorkResumes, DocInv, TypeOK, RequestTypeOK
    <2>7. ASSUME RequestReturns
          PROVE  kept /\ same
      <3>1. ~Idle /\ stack' = Below /\ Top = Call("request callback") /\ UNCHANGED co
        BY <2>7 DEF RequestReturns, Returning
      <3>2. ~ReturningCallback
        BY <3>1, FramesTyped DEF ReturningCallback, Returning, CFunctions
      <3>3. QED
        BY <3>1, <3>2, ReturnDoc
    <2>8. QED
      BY <1>5, <2>1, <2>2, <2>3, <2>4, <2>5, <2>6, <2>7, AwaitFrame
         DEF RequestNext, RequestLua, RequestCallbacks, SystemResume, CloseState,
             Working, Worked, AwaitSame, handleVars
  <1>6. QED
    BY <1>4, <1>5

(* The coroutine that awaits in the object goes on. *)
LEMMA WakeDoc ==
  ASSUME DocInv, data # None,
         Wake(<<>>) \/ \E g \in CFunctions : Wake(<<Call(g)>>)
  PROVE  /\ CorosInv' /\ data' = None
         /\ \A c \in Coros : co'[c] # "handle"
         /\ \A f \in CFunctions : Wake(<<Call(f)>>) => Within(f)'
  <1>1. Stacked /\ data \in Coros /\ co[data] = "handle" /\ data' = None
    BY DocFacts DEF Wake
  <1>2. stack \o <<>> = stack
    BY <1>1 DEF Stacked
  <1>3. \A g \in CFunctions : stack \o <<Call(g)>> = Append(stack, Call(g))
    <2>1. \A g \in CFunctions : Call(g) \in Frames
      BY FramesTyped
    <2>2. QED
      BY <1>1, <2>1, AppendIsConcat DEF Stacked
  <1>4. Enter(data, stack) \/ \E g \in CFunctions : Enter(data, Append(stack, Call(g)))
    BY <1>2, <1>3 DEF Wake
  <1>5. /\ CorosInv'
        /\ \A f \in CFunctions : Enter(data, Append(stack, Call(f))) => Within(f)'
    BY <1>1, <1>4, EnterDoc
  <1>6. \A f \in CFunctions : Wake(<<Call(f)>>) => Within(f)'
    BY <1>3, <1>5 DEF Wake
  <1>7. co' = [co EXCEPT ![data] = "running"]
    BY <1>4 DEF Enter
  <1>8. \A c \in Coros : co'[c] # "handle"
    BY <1>1, <1>7 DEF DocInv, AwaitInv, Stacked
  <1>9. QED
    BY <1>1, <1>5, <1>6, <1>8

(* stopudhdl, when nobody awaits any more. *)
LEMMA StopDoc ==
  ASSUME DocInv, StopHandle, data' = None, \A c \in Coros : co'[c] # "handle"
  PROVE  AwaitInv'
  <1>1. ~stop' /\ ~active'
    BY DEF StopHandle, DocInv, AwaitInv
  <1>2. QED
    BY <1>1, CorosAssumption DEF AwaitInv

LEMMA HandleLuaDoc ==
  ASSUME DocInv, NEW c \in Coros, HandleLua(c)
  PROVE  CorosInv' /\ AwaitInv'
  <1> Stacked
    BY DocFacts
  <1>1. CASE Create(c) \/ ReadError(c) \/ Close(c) \/ Forget(c) \/ Listen(c) \/ AcceptCounted(c)
    <2>1. UNCHANGED <<co, stack, stop>> /\ data' = data
      BY <1>1 DEF Create, ReadError, Close, Forget, Listen, AcceptCounted, loopVars, threadVars
    <2>2. active' => active /\ ~closed'
      <3>1. CASE Close(c)
        BY <3>1 DEF Close, UvClose
      <3>2. CASE Create(c)
        BY <3>2 DEF Create, DocInv, AwaitInv
      <3>3. CASE ReadError(c) \/ Forget(c) \/ Listen(c) \/ AcceptCounted(c)
        BY <3>3 DEF ReadError, Forget, Listen, AcceptCounted, DocInv, AwaitInv
      <3>4. QED
        BY <1>1, <3>1, <3>2, <3>3
    <2>3. CorosInv' /\ (InCallback => InCallback')
      BY <2>1, SameDoc
    <2>4. QED
      BY <2>1, <2>2, <2>3 DEF DocInv, AwaitInv
  <1>2. CASE Read(c) \/ AcceptAwaits(c)
    <2>1. ~closed /\ Running(c) /\ ResetHandle(c) /\ closed' = closed
      BY <1>2 DEF Read, AcceptAwaits, Uses
    <2>2. data = None /\ data' = c /\ Exit(c, "handle")
      BY <2>1 DEF ResetHandle
    <2>3. stop' /\ ~closed'
      BY <2>1 DEF ResetHandle
    <2>4. CorosInv' /\ co' = [co EXCEPT ![c] = "handle"]
      BY <2>1, <2>2, ExitDoc
    <2>5. \A d \in Coros : co'[d] = "handle" <=> data' = d
      BY <2>2, <2>4, CorosAssumption DEF DocInv, AwaitInv, Stacked
    <2>6. QED
      BY <2>2, <2>3, <2>4, <2>5, CorosAssumption DEF AwaitInv
  <1>3. CASE HaltHandle(c) \/ CloseResumes(c)
    <2>1. /\ data # None /\ StopHandle
          /\ Wake(<<>>) \/ Wake(<<Call("closing")>>)
      BY <1>3 DEF HaltHandle, CloseResumes
    <2>2. CorosInv' /\ data' = None /\ \A d \in Coros : co'[d] # "handle"
      BY <2>1, WakeDoc DEF CFunctions
    <2>3. QED
      BY <2>1, <2>2, StopDoc
  <1>4. CASE Write(c)
    <2>1. PICK k \in {"write", "deferred"} : Running(c) /\ Exit(c, k)
      BY <1>4 DEF Write, Uses
    <2>2. /\ CorosInv' /\ (InCallback => InCallback')
          /\ co[c] = "running" /\ co' = [co EXCEPT ![c] = k]
      BY <2>1, ExitDoc
    <2>3. AwaitSame
      BY <1>4, <2>2 DEF Write, AwaitSame, Stacked
    <2>4. QED
      BY <2>2, <2>3, AwaitFrame
  <1>5. QED
    BY <1>1, <1>2, <1>3, <1>4 DEF HandleLua

LEMMA HandleDoc ==
  ASSUME DocInv, HandleNext
  PROVE  CorosInv' /\ AwaitInv'
  <1> Stacked
    BY DocFacts
  <1>1. CASE \E c \in Coros : HandleLua(c)
    BY <1>1, HandleLuaDoc
  <1>2. ASSUME NEW c \in Coros, NEW d \in Coros, HaltWrite(c, d)
        PROVE  CorosInv' /\ AwaitInv'
    <2>1. co[d] \in {"write", "deferred"} /\ Enter(d, stack)
      BY <1>2 DEF HaltWrite
    <2>2. CorosInv' /\ (InCallback => InCallback')
      BY <2>1, EnterDoc
    <2>3. co' = [co EXCEPT ![d] = "running"]
      BY <2>1 DEF Enter
    <2>4. AwaitSame
      BY <1>2, <2>1, <2>3 DEF HaltWrite, handleVars, AwaitSame, Stacked
    <2>5. QED
      BY <2>2, <2>4, AwaitFrame
  <1>3. CASE Received \/ ReadFailed \/ Connection \/ EndOfStream
    <2>1. PICK g \in {"handle callback", "error callback", "eof callback"} :
            /\ data # None /\ Wake(<<Call(g)>>)
            /\ UNCHANGED <<active, closed, stop>> \/ ~active'
      BY <1>3 DEF Received, ReadFailed, Connection, EndOfStream
    <2>2. /\ CorosInv' /\ data' = None /\ \A d \in Coros : co'[d] # "handle"
          /\ Within(g)'
      BY <2>1, WakeDoc DEF CFunctions
    <2>3. InCallback'
      BY <2>2 DEF InCallback
    <2>4. active' => stop' /\ ~closed'
      <3>1. active => stop /\ ~closed
        BY DEF DocInv, AwaitInv
      <3>2. CASE ~active'
        BY <3>2
      <3>3. CASE active' = active /\ closed' = closed /\ stop' = stop
        BY <3>1, <3>3, Zenon
      <3>4. QED
        BY <2>1, <3>2, <3>3
    <2>5. QED
      BY <2>2, <2>3, <2>4, CorosAssumption DEF AwaitInv
  <1>4. CASE CountConnection \/ Closed \/ Collect
    <2>1. UNCHANGED <<co, stack, data, stop>> /\ (active' => active /\ closed' = closed)
      BY <1>4 DEF CountConnection, Closed, Collect, UvClose, loopVars, threadVars
    <2>2. CorosInv' /\ (InCallback => InCallback')
      BY <2>1, SameDoc
    <2>3. QED
      BY <2>1, <2>2 DEF DocInv, AwaitInv
  <1>5. ASSUME NEW c \in Coros, Written(c)
        PROVE  CorosInv' /\ AwaitInv'
    <2>1. CorosInv' /\ (InCallback => InCallback')
          /\ \A d \in Coros : co'[d] = "handle" <=> co[d] = "handle"
      <3>1. CASE co[c] = "deferred" /\ co' = [co EXCEPT ![c] = "write"] /\ UNCHANGED stack
        BY <3>1, SameDoc DEF Stacked
      <3>2. CASE co[c] \in {"write", "deferred"} /\ Enter(c, stack)
        BY <3>2, EnterDoc DEF Enter, Stacked
      <3>3. CASE UNCHANGED <<co, stack>>
        BY <3>3, SameDoc
      <3>4. QED
        BY <1>5, <3>1, <3>2, <3>3 DEF Written
    <2>2. QED
      BY <1>5, <2>1, AwaitFrame DEF Written, AwaitSame
  <1>6. CASE CallbackReturns
    <2>1. ~Idle /\ stack' = Below /\ UNCHANGED <<co, data>>
      BY <1>6 DEF CallbackReturns, ReturningCallback, Returning
    <2>2. CorosInv'
      BY <2>1, ReturnDoc
    <2>3. CASE data = None
      <3>1. StopHandle
        BY <1>6, <2>3 DEF CallbackReturns
      <3>2. \A c \in Coros : co'[c] # "handle"
        BY <2>1, <2>3, CorosAssumption DEF DocInv, AwaitInv
      <3>3. QED
        BY <2>1, <2>2, <2>3, <3>1, <3>2, StopDoc
    <2>4. CASE data # None
      <3>1. (active' => active) /\ UNCHANGED <<stop, closed>>
        BY <1>6, <2>4 DEF CallbackReturns
      <3>2. AwaitInv'
        BY <2>1, <2>4, <3>1 DEF DocInv, AwaitInv
      <3>3. QED
        BY <2>2, <3>2
    <2>5. QED
      BY <2>3, <2>4
  <1>7. CASE CloseReturns
    <2>1. /\ ~Idle /\ stack' = Below /\ Top = Call("closing") /\ ~active'
          /\ UNCHANGED <<co, data, stop>>
      BY <1>7 DEF CloseReturns, Returning, UvClose
    <2>2. ~ReturningCallback
      BY <2>1, FramesTyped DEF ReturningCallback, Returning, CFunctions
    <2>3. CorosInv' /\ (InCallback => InCallback')
      BY <2>1, <2>2, ReturnDoc
    <2>4. QED
      BY <2>1, <2>3 DEF DocInv, AwaitInv
  <1>8. QED
    BY <1>1, <1>2, <1>3, <1>4, <1>5, <1>6, <1>7 DEF HandleNext, HandleCallbacks, HandleReturns

LEMMA InitDocInv ==
  ASSUME Init
  PROVE  DocInv
  <1>1. TypeOK
    BY InitTyped
  <1>2. CorosInv
    BY DEF Init, ThreadsInit, CorosInv, Once, Has
  <1>3. AwaitInv
    BY CorosAssumption DEF Init, HandleInit, ThreadsInit, AwaitInv
  <1>4. QED
    BY <1>1, <1>2, <1>3 DEF DocInv

LEMMA NextDocInv ==
  ASSUME DocInv, [Next]_vars
  PROVE  DocInv'
  <1>1. TypeOK'
    BY NextTyped DEF DocInv
  <1>2. CorosInv' /\ AwaitInv'
    <2>1. CASE LuaNext /\ UNCHANGED <<nactive, handleVars, requestVars>>
      BY <2>1, OthersDoc
    <2>2. CASE HandleNext
      BY <2>2, HandleDoc
    <2>3. CASE RequestNext /\ UNCHANGED handleVars
      BY <2>3, OthersDoc
    <2>4. CASE UNCHANGED vars
      <3>1. UNCHANGED <<co, stack, data, stop, active, closed>>
        BY <2>4 DEF vars, loopVars, threadVars, handleVars
      <3>2. QED
        BY <3>1, SameDoc, AwaitFrame DEF AwaitSame
    <2>5. QED
      BY <2>1, <2>2, <2>3, <2>4 DEF Next
  <1>3. QED
    BY <1>1, <1>2 DEF DocInv

(* Between callbacks 'stop' is defined exactly while a coroutine awaits in *)
(* the object, it is the one in handle.data, and libuv uses the handle of  *)
(* open objects only: for any Lua code, also one that halts the operation  *)
(* of the object in its callback or uses it when resumed by its 'close',   *)
(* after read errors and after the end of the stream.                      *)
THEOREM HandlesAreDocumented == Spec => []DocumentedHandle
  <1>1. ASSUME DocInv
        PROVE  DocumentedHandle
    BY <1>1, DocFacts DEF DocInv, AwaitInv, DocumentedHandle
  <1>2. DocInv /\ [Next]_vars => DocInv'
    BY NextDocInv
  <1>3. QED
    BY <1>1, <1>2, InitDocInv, PTL DEF Spec

=============================================================================
