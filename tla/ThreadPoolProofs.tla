-------------------------- MODULE ThreadPoolProofs --------------------------
(***************************************************************************)
(* Proofs of the safety of ThreadPool for any number of tasks, of system   *)
(* threads and of sizes, and whether or not thread creation fails.         *)
(***************************************************************************)
EXTENDS ThreadPool, FiniteSetTheorems, TLAPS

-----------------------------------------------------------------------------
(* Counting the threads or tasks in some states. *)

(* The elements of a finite domain that are in some states are finitely many. *)
LEMMA InFinite ==
  ASSUME NEW D, IsFiniteSet(D), NEW f, DOMAIN f = D, NEW S
  PROVE  /\ In(f, S) \subseteq D
         /\ IsFiniteSet(In(f, S))
         /\ Cardinality(In(f, S)) \in Nat
  <1>1. In(f, S) \in SUBSET D
    BY DEF In
  <1>2. IsFiniteSet(In(f, S))
    BY <1>1, FS_Subset
  <1> QED
    BY <1>1, <1>2, FS_CardinalityType

(* What an element in state v contributes to the count of states S. *)
Weight(v, S) == IF v \in S THEN 1 ELSE 0

(* f and g place alike every element of D but x. *)
DifferAt(D, x, f, g) ==
  /\ IsFiniteSet(D) /\ x \in D
  /\ DOMAIN f = D /\ DOMAIN g = D
  /\ \A y \in D : y # x => g[y] = f[y]

(* One element that changes its state changes the count of a set of states *)
(* by leaving it or by entering it.                                        *)
LEMMA CountUpdate ==
  ASSUME NEW D, NEW x, NEW f, NEW g, NEW S, DifferAt(D, x, f, g)
  PROVE  Cardinality(In(g, S))
           = Cardinality(In(f, S)) + Weight(g[x], S)
                                   - Weight(f[x], S)
  <1> USE DEF DifferAt
  <1>1. IsFiniteSet(In(f, S)) /\ Cardinality(In(f, S)) \in Nat
    BY InFinite
  <1>2. CASE g[x] \in S /\ f[x] \in S
    <2>1. In(g, S) = In(f, S)
      BY <1>2 DEF In
    <2> QED
      BY <1>1, <1>2, <2>1 DEF Weight
  <1>3. CASE g[x] \in S /\ f[x] \notin S
    <2>1. In(g, S) = In(f, S) \cup {x} /\ x \notin In(f, S)
      BY <1>3 DEF In
    <2>2. Cardinality(In(f, S) \cup {x}) = Cardinality(In(f, S)) + 1
      BY <1>1, <2>1, FS_AddElement
    <2>3. Cardinality(In(g, S)) = Cardinality(In(f, S)) + 1
      BY <2>1, <2>2, Zenon
    <2> QED
      BY <1>1, <1>3, <2>3 DEF Weight
  <1>4. CASE g[x] \notin S /\ f[x] \in S
    <2>1. In(g, S) = In(f, S) \ {x} /\ x \in In(f, S)
      BY <1>4 DEF In
    <2>2. Cardinality(In(f, S) \ {x}) = Cardinality(In(f, S)) - 1
      BY <1>1, <2>1, FS_RemoveElement
    <2>3. Cardinality(In(g, S)) = Cardinality(In(f, S)) - 1
      BY <2>1, <2>2, Zenon
    <2> QED
      BY <1>1, <1>4, <2>3 DEF Weight
  <1>5. CASE g[x] \notin S /\ f[x] \notin S
    <2>1. In(g, S) = In(f, S)
      BY <1>5 DEF In
    <2> QED
      BY <1>1, <1>5, <2>1 DEF Weight
  <1> QED
    BY <1>2, <1>3, <1>4, <1>5

(* A set of states counts zero when nothing is in any of them. *)
LEMMA CountZero ==
  ASSUME NEW D, IsFiniteSet(D), NEW f, DOMAIN f = D, NEW S
  PROVE  Cardinality(In(f, S)) = 0 <=> \A x \in D : f[x] \notin S
  <1>1. Cardinality(In(f, S)) = 0 <=> In(f, S) = {}
    BY InFinite, FS_EmptySet
  <1>2. In(f, S) = {} <=> \A x \in D : f[x] \notin S
    BY DEF In
  <1> QED
    BY <1>1, <1>2

-----------------------------------------------------------------------------
(* The queue of pending tasks. *)

(* A new task is put in the queue after the others. *)
LEMMA AppendElements ==
  ASSUME NEW q \in Seq(Tasks), NEW t \in Tasks
  PROVE  /\ Append(q, t) \in Seq(Tasks)
         /\ Len(Append(q, t)) = Len(q) + 1
         /\ Elements(Append(q, t)) = Elements(q) \cup {t}
         /\ Distinct(q) /\ t \notin Elements(q) => Distinct(Append(q, t))
  <1>1. /\ Append(q, t) \in Seq(Tasks)
        /\ Len(Append(q, t)) = Len(q) + 1
        /\ Len(q) \in Nat
        /\ DOMAIN q = 1 .. Len(q)
        /\ DOMAIN Append(q, t) = 1 .. (Len(q) + 1)
        /\ \A i \in 1 .. Len(q) : Append(q, t)[i] = q[i]
        /\ Append(q, t)[Len(q) + 1] = t
    OBVIOUS
  <1>2. Elements(Append(q, t)) = Elements(q) \cup {t}
    <2>1. ASSUME NEW e \in Elements(Append(q, t))
          PROVE  e \in Elements(q) \cup {t}
      BY <1>1, <2>1 DEF Elements
    <2>2. ASSUME NEW e \in Elements(q)
          PROVE  e \in Elements(Append(q, t))
      BY <1>1, <2>2 DEF Elements
    <2>3. t \in Elements(Append(q, t))
      BY <1>1 DEF Elements
    <2> QED
      BY <2>1, <2>2, <2>3
  <1>3. Distinct(q) /\ t \notin Elements(q) => Distinct(Append(q, t))
    BY <1>1 DEF Distinct, Elements
  <1> QED
    BY <1>1, <1>2, <1>3

(* The first task leaves the queue, and the others remain in it. *)
LEMMA TailElements ==
  ASSUME NEW q \in Seq(Tasks), q # <<>>
  PROVE  /\ Tail(q) \in Seq(Tasks) /\ Head(q) \in Tasks
         /\ Len(Tail(q)) = Len(q) - 1
         /\ Head(q) \in Elements(q)
         /\ Distinct(q) => /\ Distinct(Tail(q))
                           /\ Elements(Tail(q)) = Elements(q) \ {Head(q)}
  <1>1. /\ Tail(q) \in Seq(Tasks) /\ Head(q) \in Tasks
        /\ Len(q) \in Nat /\ Len(q) > 0
        /\ Len(Tail(q)) = Len(q) - 1
        /\ DOMAIN q = 1 .. Len(q)
        /\ DOMAIN Tail(q) = 1 .. (Len(q) - 1)
        /\ \A i \in 1 .. (Len(q) - 1) : Tail(q)[i] = q[i + 1]
        /\ Head(q) = q[1]
    OBVIOUS
  <1>2. Head(q) \in Elements(q)
    BY <1>1 DEF Elements
  <1>3. ASSUME Distinct(q)
        PROVE  Distinct(Tail(q))
    BY <1>1, <1>3 DEF Distinct
  <1>4. ASSUME Distinct(q)
        PROVE  Elements(Tail(q)) = Elements(q) \ {Head(q)}
    <2>1. ASSUME NEW e \in Elements(Tail(q))
          PROVE  e \in Elements(q) \ {Head(q)}
      <3>1. PICK i \in 1 .. (Len(q) - 1) : e = Tail(q)[i]
        BY <1>1, <2>1 DEF Elements
      <3>2. e = q[i + 1] /\ i + 1 \in DOMAIN q /\ 1 \in DOMAIN q /\ i + 1 # 1
        BY <1>1, <3>1
      <3> QED
        BY <1>1, <1>4, <3>2 DEF Distinct, Elements
    <2>2. ASSUME NEW e \in Elements(q) \ {Head(q)}
          PROVE  e \in Elements(Tail(q))
      <3>1. PICK i \in 1 .. Len(q) : e = q[i]
        BY <1>1, <2>2 DEF Elements
      <3>2. i # 1 /\ i - 1 \in 1 .. (Len(q) - 1) /\ (i - 1) + 1 = i
        BY <1>1, <2>2, <3>1
      <3>3. e = Tail(q)[i - 1]
        BY <1>1, <3>1, <3>2
      <3> QED
        BY <1>1, <3>2, <3>3 DEF Elements
    <2> QED
      BY <2>1, <2>2
  <1> QED
    BY <1>1, <1>2, <1>3, <1>4

(* Nothing is in an empty queue, and only in it. *)
LEMMA EmptyElements ==
  /\ Elements(<<>>) = {} /\ Distinct(<<>>) /\ Len(<<>>) = 0 /\ <<>> \in Seq(Tasks)
  BY DEF Elements, Distinct

-----------------------------------------------------------------------------
(* The structure of a pool with the given fields. *)
Pool(st, sz, th, id, ta, ru, pe, qu) ==
  [status |-> st, size |-> sz, threads |-> th, idle |-> id, tasks |-> ta,
   running |-> ru, pending |-> pe, queue |-> qu]

-----------------------------------------------------------------------------
(* The inductive invariant, as predicates of the values it relates, so     *)
(* that they can also be stated of the values in the middle of a step.     *)
Types(p, pc, wt, ts, ow, lo, fr) ==
  /\ p \in PoolType
  /\ pc \in [Workers -> WorkerStates]
  /\ wt \in [Workers -> Tasks \cup {NoTask}]
  /\ ts \in [Tasks -> TaskStates]
  /\ ow \in OwnerStates
  /\ lo \in [tasks: Int, queue: Seq(Tasks)]
  /\ fr \in BOOLEAN

WorkersCounted(p, pc) ==
  /\ p.threads = Cardinality(In(pc, Live))
  /\ p.idle = Cardinality(In(pc, Idle))
  /\ p.running = Cardinality(In(pc, Busy))

TasksCounted(p, ts) ==
  /\ p.pending = Len(p.queue)
  /\ p.tasks = Cardinality(In(ts, Counted))

Held(pc, wt, ts) ==
  /\ \A v, w \in Workers :
       pc[v] \in Holding /\ pc[w] \in Holding /\ wt[v] = wt[w] => v = w
  /\ \A w \in Workers :
       /\ pc[w] \in {"run", "requeue"} => wt[w] \in Tasks /\ ts[wt[w]] = "run"
       /\ pc[w] = "done" => wt[w] \in Tasks /\ ts[wt[w]] = "over"
  /\ \A t \in Tasks :
       /\ ts[t] = "run" =>
            \E w \in Workers : pc[w] \in {"run", "requeue"} /\ wt[w] = t
       /\ ts[t] = "over" => \E w \in Workers : pc[w] = "done" /\ wt[w] = t

Queued(q, r, ts) ==
  /\ \A t \in Tasks : ts[t] = "pending" <=> t \in Elements(q) \cup Elements(r)
  /\ Distinct(q) /\ Distinct(r)
  /\ q = <<>> \/ r = <<>>

(* Where the owner is determines the status of the pool; only a pool being *)
(* CLOSED leaves pending tasks to its owner; a CLOSED pool has no thread   *)
(* with a task, and no thread at all if its size is zero.                  *)
Phases(p, pc, ts, ow, lo) ==
  /\ ow \in {"new", "open", "failed"} <=> p.status = "OPEN"
  /\ ow \in {"termwait", "termwake"} <=> p.status = "CLOSING"
  /\ ow = "new" => /\ \A w \in Workers : pc[w] = "none"
                  /\ \A t \in Tasks : ts[t] = "new"
                  /\ p.size = 0
  /\ p.status = "CLOSED" => /\ p.queue = <<>>
                            /\ \A w \in Workers : pc[w] \notin Busy
  /\ p.status = "CLOSED" /\ p.size = 0 => \A w \in Workers : pc[w] \notin Live
  /\ lo.queue # <<>> => ow \in {"closed", "drain"}
  /\ ow = "drain" => lo.queue # <<>>

(* The call that destroys the pool is the last use of it by a task. *)
Destruction(p, ts, ow, lo, fr) ==
  /\ (fr \/ ow = "destroy" \/ (ow = "closed" /\ lo.tasks = 0)
        \/ \E t \in Tasks : ts[t] = "destroy")
      => p.status = "CLOSED" /\ \A t \in Tasks : ts[t] \notin Counted
  /\ (ow = "destroy" \/ (ow = "closed" /\ lo.tasks = 0))
      => ~fr /\ \A t \in Tasks : ts[t] # "destroy"
  /\ \A t, u \in Tasks :
       ts[t] = "destroy" => ~fr /\ (ts[u] = "destroy" => t = u)

Good(p, pc, wt, ts, ow, lo, fr) ==
  /\ Types(p, pc, wt, ts, ow, lo, fr)
  /\ WorkersCounted(p, pc)
  /\ TasksCounted(p, ts)
  /\ Held(pc, wt, ts)
  /\ Queued(p.queue, lo.queue, ts)
  /\ Phases(p, pc, ts, ow, lo)
  /\ Destruction(p, ts, ow, lo, fr)

(* The only thread that ended and was not joined is last_terminated. *)
Joined(pc, lt, fr) ==
  /\ lt \in Workers \cup {NoThread}
  /\ \A w \in Workers : pc[w] = "ended" <=> w = lt
  /\ fr => lt = NoThread

IInv ==
  /\ Good(pool, wpc, wtask, tstate, owner, local, freed)
  /\ Joined(wpc, last_terminated, freed)

-----------------------------------------------------------------------------
(* Steps of threads that do not change what they count for. *)
Same(pc, qc) ==
  /\ qc \in [Workers -> WorkerStates]
  /\ \A w \in Workers :
       /\ pc[w] \in Live <=> qc[w] \in Live
       /\ pc[w] \in Idle <=> qc[w] \in Idle
       /\ pc[w] \in Busy \/ qc[w] \in Busy => qc[w] = pc[w]

(* Threads that change between states that count alike leave the counters *)
(* exact, and the tasks held.                                             *)
LEMMA SameCounts ==
  ASSUME NEW pc \in [Workers -> WorkerStates], NEW qc, Same(pc, qc),
         NEW p, WorkersCounted(p, pc)
  PROVE  WorkersCounted(p, qc)
  <1>1. In(pc, Live) = In(qc, Live)
    BY DEF Same, In
  <1>2. In(pc, Idle) = In(qc, Idle)
    BY DEF Same, In
  <1>3. In(pc, Busy) = In(qc, Busy)
    BY DEF Same, In
  <1> QED
    BY <1>1, <1>2, <1>3, Zenon DEF WorkersCounted

(* Such steps do not change which task a thread holds. *)
LEMMA SameHeld ==
  ASSUME NEW pc \in [Workers -> WorkerStates], NEW qc, NEW wt, NEW ts,
         \A w \in Workers : pc[w] \in Busy \/ qc[w] \in Busy => qc[w] = pc[w],
         Held(pc, wt, ts)
  PROVE  Held(qc, wt, ts)
  BY DEF Held, Busy, Holding

(* A thread that is woken still counts as idle. *)
LEMMA SignalSame ==
  ASSUME NEW pc \in [Workers -> WorkerStates], NEW qc \in Signal(pc)
  PROVE  Same(pc, qc)
  <1>1. CASE qc = pc
    BY <1>1 DEF Same
  <1>2. CASE \E w \in In(pc, {"wait"}) : qc = [pc EXCEPT ![w] = "wake"]
    BY <1>2 DEF Same, In, Live, Idle, Busy, WorkerStates
  <1> QED
    BY <1>1, <1>2 DEF Signal

(* uv_cond_broadcast only turns waiting threads into woken ones. *)
LEMMA BroadcastSame ==
  ASSUME NEW pc \in [Workers -> WorkerStates]
  PROVE  Same(pc, Broadcast(pc)) /\ Same(pc, pc)
  BY DEF Broadcast, Same, In, Live, Idle, Busy, WorkerStates

(* A signal or a broadcast ends no thread. *)
LEMMA WakeEnded ==
  ASSUME NEW pc \in [Workers -> WorkerStates], NEW qc,
         qc \in Signal(pc) \/ qc = Broadcast(pc) \/ qc = pc
  PROVE  Same(pc, qc) /\ \A w \in Workers : qc[w] = "ended" <=> pc[w] = "ended"
  <1>1. CASE qc = pc
    BY <1>1, BroadcastSame
  <1>2. CASE qc = Broadcast(pc)
    <2>1. \A w \in Workers : qc[w] = "ended" <=> pc[w] = "ended"
      BY <1>2 DEF Broadcast
    <2> QED
      BY <1>2, <2>1, BroadcastSame
  <1>3. CASE qc \in Signal(pc)
    <2>1. Same(pc, qc)
      BY <1>3, SignalSame
    <2>2. qc = pc \/ \E w \in Workers : pc[w] = "wait" /\ qc = [pc EXCEPT ![w] = "wake"]
      BY <1>3 DEF Signal, In
    <2> QED
      BY <2>1, <2>2
  <1> QED
    BY <1>1, <1>2, <1>3

(* Started threads are the only new ones, and count for nothing else. *)
LEMMA StartEffect ==
  ASSUME IsFiniteSet(Workers), NEW pc \in [Workers -> WorkerStates],
         NEW S \in SUBSET In(pc, {"none"}), NEW qc, qc = Start(pc, S)
  PROVE  /\ qc \in [Workers -> WorkerStates]
         /\ Cardinality(S) \in Nat
         /\ Cardinality(In(qc, Live)) = Cardinality(In(pc, Live)) + Cardinality(S)
         /\ In(qc, Idle) = In(pc, Idle)
         /\ In(qc, Busy) = In(pc, Busy)
         /\ \A w \in Workers : pc[w] \in Busy \/ qc[w] \in Busy => qc[w] = pc[w]
         /\ \A w \in Workers : pc[w] = "ended" <=> qc[w] = "ended"
         /\ S = {} => qc = pc
  <1>1. /\ qc \in [Workers -> WorkerStates]
        /\ \A w \in Workers : pc[w] \in Busy \/ qc[w] \in Busy => qc[w] = pc[w]
        /\ \A w \in Workers : pc[w] = "ended" <=> qc[w] = "ended"
        /\ S = {} => qc = pc
    BY DEF Start, In, Live, Idle, Busy, WorkerStates
  <1>2. In(qc, Idle) = In(pc, Idle)
    BY DEF Start, In, Live, Idle, Busy, WorkerStates
  <1>3. In(qc, Busy) = In(pc, Busy)
    BY DEF Start, In, Live, Idle, Busy, WorkerStates
  <1>4. In(qc, Live) = In(pc, Live) \cup S /\ In(pc, Live) \cap S = {}
    BY DEF Start, In, Live, Idle, Busy, WorkerStates
  <1>5. /\ IsFiniteSet(In(pc, Live)) /\ IsFiniteSet(S)
        /\ Cardinality(In(pc, Live)) \in Nat /\ Cardinality(S) \in Nat
    <2>1. IsFiniteSet(In(pc, {"none"}))
      BY InFinite
    <2> QED
      BY <2>1, InFinite, FS_Subset, FS_CardinalityType
  <1>6. Cardinality(In(pc, Live) \cup S)
          = Cardinality(In(pc, Live)) + Cardinality(S) - Cardinality({})
    BY <1>4, <1>5, FS_Union, Zenon
  <1>7. Cardinality(In(qc, Live))
          = Cardinality(In(pc, Live)) + Cardinality(S) - Cardinality({})
    BY <1>4, <1>6, Zenon
  <1>8. Cardinality(In(qc, Live)) = Cardinality(In(pc, Live)) + Cardinality(S)
    BY <1>5, <1>7, FS_EmptySet
  <1> QED
    BY <1>1, <1>2, <1>3, <1>5, <1>8

(* addthread_mx keeps the counters of threads exact, and starts a thread   *)
(* only in a pool with fewer threads than its size.                        *)
LEMMA GetThreadEffect ==
  ASSUME IInv, NEW n \in {0, 1}, GetThread(n)
  PROVE  /\ wpc' \in [Workers -> WorkerStates]
         /\ WorkersCounted([pool EXCEPT !.threads = @ + n], wpc')
         /\ \A w \in Workers : wpc[w] \in Busy \/ wpc'[w] \in Busy => wpc'[w] = wpc[w]
         /\ \A w \in Workers : wpc'[w] = "ended" <=> wpc[w] = "ended"
         /\ n = 0 => Same(wpc, wpc')
         /\ n = 1 => pool.threads < pool.size
  <1> USE ConstantsAssumption
  <1>1. /\ pool \in PoolType /\ wpc \in [Workers -> WorkerStates]
        /\ WorkersCounted(pool, wpc)
    BY DEF IInv, Good, Types
  <1>2. ASSUME Same(wpc, wpc'), n = 0
        PROVE  /\ wpc' \in [Workers -> WorkerStates]
               /\ WorkersCounted([pool EXCEPT !.threads = @ + n], wpc')
               /\ \A w \in Workers :
                    wpc[w] \in Busy \/ wpc'[w] \in Busy => wpc'[w] = wpc[w]
    <2>1. WorkersCounted(pool, wpc')
      BY <1>1, <1>2, SameCounts
    <2>2. WorkersCounted([pool EXCEPT !.threads = @ + n], wpc')
      BY <1>1, <1>2, <2>1 DEF WorkersCounted, PoolType
    <2> QED
      BY <1>2, <2>2 DEF Same
  <1>3. CASE wpc' = wpc /\ n = 0
    <2>1. Same(wpc, wpc') /\ \A w \in Workers : wpc'[w] = "ended" <=> wpc[w] = "ended"
      BY <1>1, <1>3 DEF Same
    <2> QED
      BY <1>2, <1>3, <2>1
  <1>4. CASE wpc' \in Signal(wpc) /\ n = 0
    <2>1. Same(wpc, wpc') /\ \A w \in Workers : wpc'[w] = "ended" <=> wpc[w] = "ended"
      BY <1>1, <1>4, WakeEnded
    <2> QED
      BY <1>2, <1>4, <2>1
  <1>5. CASE /\ pool.threads < pool.size
             /\ \E S \in Started(1) : n = Cardinality(S) /\ wpc' = Start(wpc, S)
    <2>1. PICK S \in SUBSET In(wpc, {"none"}) :
             n = Cardinality(S) /\ wpc' = Start(wpc, S)
      BY <1>5 DEF Started
    <2>2. /\ wpc' \in [Workers -> WorkerStates]
          /\ Cardinality(In(wpc', Live)) = Cardinality(In(wpc, Live)) + n
          /\ In(wpc', Idle) = In(wpc, Idle)
          /\ In(wpc', Busy) = In(wpc, Busy)
          /\ \A w \in Workers : wpc[w] \in Busy \/ wpc'[w] \in Busy => wpc'[w] = wpc[w]
          /\ S = {} => wpc' = wpc
          /\ \A w \in Workers : wpc'[w] = "ended" <=> wpc[w] = "ended"
      BY <1>1, <2>1, StartEffect
    <2>3. /\ Cardinality(In(wpc', Idle)) = Cardinality(In(wpc, Idle))
          /\ Cardinality(In(wpc', Busy)) = Cardinality(In(wpc, Busy))
      BY <2>2, Zenon
    <2>4. WorkersCounted([pool EXCEPT !.threads = @ + n], wpc')
      BY <1>1, <2>2, <2>3 DEF WorkersCounted, PoolType
    <2>5. n = 0 => S = {}
      <3>1. IsFiniteSet(S)
        <4>1. IsFiniteSet(In(wpc, {"none"}))
          BY <1>1, InFinite
        <4> QED
          BY <4>1, FS_Subset
      <3> QED
        BY <2>1, <3>1, FS_EmptySet
    <2>6. n = 0 => Same(wpc, wpc')
      BY <1>1, <2>2, <2>5 DEF Same
    <2> QED
      BY <1>5, <2>2, <2>4, <2>6
  <1> QED
    BY <1>3, <1>4, <1>5 DEF GetThread

(* The counters of a pool after one of its threads changes its state. *)
LEMMA WorkerMoved ==
  ASSUME NEW pc, NEW w, NEW qc, DifferAt(Workers, w, pc, qc),
         NEW p \in PoolType, NEW q \in PoolType, WorkersCounted(p, pc),
         q.threads = p.threads + Weight(qc[w], Live) - Weight(pc[w], Live),
         q.idle = p.idle + Weight(qc[w], Idle) - Weight(pc[w], Idle),
         q.running = p.running + Weight(qc[w], Busy) - Weight(pc[w], Busy)
  PROVE  WorkersCounted(q, qc)
  <1>1. Cardinality(In(qc, Live))
          = Cardinality(In(pc, Live)) + Weight(qc[w], Live) - Weight(pc[w], Live)
    BY CountUpdate
  <1>2. Cardinality(In(qc, Idle))
          = Cardinality(In(pc, Idle)) + Weight(qc[w], Idle) - Weight(pc[w], Idle)
    BY CountUpdate
  <1>3. Cardinality(In(qc, Busy))
          = Cardinality(In(pc, Busy)) + Weight(qc[w], Busy) - Weight(pc[w], Busy)
    BY CountUpdate
  <1> QED
    BY <1>1, <1>2, <1>3 DEF WorkersCounted

(* The number of tasks of a pool after one of them changes its state. *)
LEMMA TaskMoved ==
  ASSUME NEW ts, NEW t, NEW us, DifferAt(Tasks, t, ts, us),
         NEW p \in PoolType, NEW q \in PoolType, TasksCounted(p, ts),
         q.pending = Len(q.queue),
         q.tasks = p.tasks + Weight(us[t], Counted) - Weight(ts[t], Counted)
  PROVE  TasksCounted(q, us)
  <1>1. Cardinality(In(us, Counted))
          = Cardinality(In(ts, Counted)) + Weight(us[t], Counted)
                                         - Weight(ts[t], Counted)
    BY CountUpdate
  <1> QED
    BY <1>1 DEF TasksCounted

(* An element that changes its state. *)
LEMMA Moved ==
  ASSUME NEW D, IsFiniteSet(D), NEW R, NEW f \in [D -> R], NEW x \in D, NEW v \in R
  PROVE  /\ [f EXCEPT ![x] = v] \in [D -> R]
         /\ DifferAt(D, x, f, [f EXCEPT ![x] = v])
         /\ [f EXCEPT ![x] = v][x] = v
  BY DEF DifferAt

(* A thread that locks the mutex leaves the pool as if it were just        *)
(* starting: it is no longer idle nor busy, and holds no task.             *)
LEMMA LockedEffect ==
  ASSUME IInv, NEW w \in Workers, LockPool(w),
         NEW p, p = Locked(w), NEW pc, pc = [wpc EXCEPT ![w] = "start"],
         NEW ts, ts = LockedTasks(w)
  PROVE  Good(p, pc, wtask, ts, owner, local, freed)
  <1> USE ConstantsAssumption
  <1>1. /\ Types(pool, wpc, wtask, tstate, owner, local, freed)
        /\ WorkersCounted(pool, wpc)
        /\ TasksCounted(pool, tstate)
        /\ Held(wpc, wtask, tstate)
        /\ Queued(pool.queue, local.queue, tstate)
        /\ Phases(pool, wpc, tstate, owner, local)
        /\ Destruction(pool, tstate, owner, local, freed)
    BY DEF IInv, Good
  <1>2. wpc[w] \in Locking
    BY DEF LockPool
  <1>3. /\ pool \in PoolType /\ wpc \in [Workers -> WorkerStates]
        /\ wtask \in [Workers -> Tasks \cup {NoTask}]
        /\ tstate \in [Tasks -> TaskStates]
    BY <1>1 DEF Types
  <1>4. p \in PoolType /\ p.size = pool.size /\ p.status = pool.status
    <2>1. CASE wpc[w] = "requeue"
      <3>1. wtask[w] \in Tasks
        BY <1>1, <2>1 DEF Held
      <3>2. pool.queue \in Seq(Tasks)
        BY <1>3 DEF PoolType
      <3>3. Append(pool.queue, wtask[w]) \in Seq(Tasks)
        BY <3>1, <3>2, AppendElements
      <3>4. p = Pool(pool.status, pool.size, pool.threads, pool.idle, pool.tasks,
                     pool.running - 1, pool.pending + 1,
                     Append(pool.queue, wtask[w]))
        BY <1>3, <2>1 DEF Locked, Enqueue, PoolType, Pool
      <3> QED
        BY <1>3, <3>3, <3>4 DEF PoolType, Pool
    <2>2. CASE wpc[w] = "start"
      BY <1>3, <2>2 DEF Locked
    <2>3. CASE wpc[w] = "wake"
      <3>1. p = [pool EXCEPT !.idle = @ - 1]
        BY <2>3 DEF Locked
      <3>2. QED
        BY <1>3, <3>1 DEF PoolType
    <2>4. CASE wpc[w] = "left"
      <3>1. p = [pool EXCEPT !.running = @ - 1]
        BY <2>4 DEF Locked
      <3>2. QED
        BY <1>3, <3>1 DEF PoolType
    <2>5. CASE wpc[w] = "done"
      <3>1. p = Pool(pool.status, pool.size, pool.threads, pool.idle, pool.tasks - 1,
                     pool.running - 1, pool.pending, pool.queue)
        BY <1>3, <2>5 DEF Locked, PoolType, Pool
      <3> QED
        BY <1>3, <3>1 DEF PoolType, Pool
    <2> QED
      BY <1>2, <2>1, <2>2, <2>3, <2>4, <2>5 DEF Locking
  <1>5. WorkersCounted(p, pc) /\ pc \in [Workers -> WorkerStates]
    <2>1. /\ pc \in [Workers -> WorkerStates] /\ pc[w] = "start"
          /\ DifferAt(Workers, w, wpc, pc)
      BY <1>3 DEF WorkerStates, Live, DifferAt
    <2>2. /\ p.threads = pool.threads + Weight(pc[w], Live) - Weight(wpc[w], Live)
          /\ p.idle = pool.idle + Weight(pc[w], Idle) - Weight(wpc[w], Idle)
          /\ p.running = pool.running + Weight(pc[w], Busy) - Weight(wpc[w], Busy)
      BY <1>2, <1>3, <2>1
      DEF Locked, Enqueue, PoolType, Locking, Live, Idle, Busy, Weight
    <2> QED
      BY <1>1, <1>3, <1>4, <2>1, <2>2, WorkerMoved
  <1>6. CASE wpc[w] \in {"start", "wake", "left"}
    <2>1. ts = tstate /\ p.queue = pool.queue /\ p.pending = pool.pending /\ p.tasks = pool.tasks
      BY <1>3, <1>6 DEF Locked, LockedTasks, PoolType
    <2>2. Held(pc, wtask, ts)
      BY <1>1, <1>3, <1>6, <2>1 DEF Held, Holding
    <2>3. Phases(p, pc, ts, owner, local)
      <3>1. p.status = "CLOSED" /\ p.size = 0 => \A v \in Workers : pc[v] \notin Live
        BY <1>1, <1>2, <1>3, <1>4 DEF Phases, Locking, Live, Idle, Busy
      <3>2. p.status = "CLOSED" => \A v \in Workers : pc[v] \notin Busy
        BY <1>1, <1>3, <1>4 DEF Phases, Busy
      <3>3. owner # "new"
        BY <1>1, <1>2 DEF Phases, Locking
      <3> QED
        BY <1>1, <1>4, <2>1, <3>1, <3>2, <3>3 DEF Phases
    <2>4. Destruction(p, ts, owner, local, freed)
      BY <1>1, <1>4, <2>1 DEF Destruction
    <2>5. TasksCounted(p, ts) /\ Queued(p.queue, local.queue, ts)
      BY <1>1, <2>1, Zenon DEF TasksCounted
    <2> QED
      BY <1>1, <1>3, <1>4, <1>5, <2>1, <2>2, <2>3, <2>4, <2>5 DEF Good, Types
  <1>7. CASE wpc[w] = "requeue"
    <2>1. /\ wtask[w] \in Tasks /\ tstate[wtask[w]] = "run"
          /\ ts = [tstate EXCEPT ![wtask[w]] = "pending"]
          /\ ts \in [Tasks -> TaskStates] /\ ts[wtask[w]] = "pending"
          /\ \A t \in Tasks : t # wtask[w] => ts[t] = tstate[t]
          /\ DifferAt(Tasks, wtask[w], tstate, ts)
      BY <1>1, <1>3, <1>7 DEF Held, LockedTasks, TaskStates, Counted, DifferAt
    <2>2. /\ p.queue = Append(pool.queue, wtask[w]) /\ p.pending = pool.pending + 1
          /\ p.tasks = pool.tasks
      BY <1>3, <1>7 DEF Locked, Enqueue, PoolType
    <2>3. pool.queue \in Seq(Tasks)
      BY <1>3 DEF PoolType
    <2>4. pool.status # "CLOSED" /\ owner # "new"
      BY <1>1, <1>7 DEF Phases, Busy
    <2>5. local.queue = <<>>
      BY <1>1, <2>4 DEF Phases, Types, PoolType
    <2>6. TasksCounted(p, ts)
      <3>1. p.pending = Len(p.queue)
        BY <1>1, <2>1, <2>2, <2>3, AppendElements DEF TasksCounted
      <3>2. p.tasks = pool.tasks + Weight(ts[wtask[w]], Counted)
                                 - Weight(tstate[wtask[w]], Counted)
        BY <1>3, <2>1, <2>2 DEF Weight, Counted, PoolType
      <3> QED
        BY <1>1, <1>3, <1>4, <2>1, <3>1, <3>2, TaskMoved
    <2>7. Held(pc, wtask, ts)
      BY <1>1, <1>3, <1>7, <2>1 DEF Held, Holding
    <2>8. Queued(p.queue, local.queue, ts)
      <3>1. wtask[w] \notin Elements(pool.queue)
        BY <1>1, <2>1 DEF Queued
      <3>2. /\ Elements(p.queue) = Elements(pool.queue) \cup {wtask[w]}
            /\ Distinct(p.queue)
        BY <1>1, <2>1, <2>2, <2>3, <3>1, AppendElements DEF Queued
      <3> QED
        BY <1>1, <2>1, <2>5, <3>2, EmptyElements DEF Queued
    <2>9. Phases(p, pc, ts, owner, local)
      BY <1>1, <1>4, <2>4, <2>5 DEF Phases
    <2>10. Destruction(p, ts, owner, local, freed)
      BY <1>1, <1>4, <2>1, <2>4 DEF Destruction
    <2> QED
      BY <1>1, <1>3, <1>4, <1>5, <2>1, <2>6, <2>7, <2>8, <2>9, <2>10 DEF Good, Types
  <1>8. CASE wpc[w] = "done"
    <2>1. /\ wtask[w] \in Tasks /\ tstate[wtask[w]] = "over"
          /\ ts \in [Tasks -> TaskStates] /\ ts[wtask[w]] = "dead"
          /\ \A t \in Tasks : t # wtask[w] => ts[t] = tstate[t]
          /\ DifferAt(Tasks, wtask[w], tstate, ts)
      BY <1>1, <1>3, <1>8 DEF Held, LockedTasks, TaskStates, DifferAt
    <2>2. p.queue = pool.queue /\ p.pending = pool.pending /\ p.tasks = pool.tasks - 1
      BY <1>3, <1>8 DEF Locked, PoolType
    <2>4. pool.status # "CLOSED" /\ owner # "new"
      BY <1>1, <1>8 DEF Phases, Busy
    <2>6. TasksCounted(p, ts)
      <3>1. p.pending = Len(p.queue)
        BY <1>1, <2>2 DEF TasksCounted
      <3>2. p.tasks = pool.tasks + Weight(ts[wtask[w]], Counted)
                                 - Weight(tstate[wtask[w]], Counted)
        BY <1>3, <2>1, <2>2 DEF Weight, Counted, PoolType
      <3> QED
        BY <1>1, <1>3, <1>4, <2>1, <3>1, <3>2, TaskMoved
    <2>7. Held(pc, wtask, ts)
      BY <1>1, <1>3, <1>8, <2>1 DEF Held, Holding
    <2>8. Queued(p.queue, local.queue, ts)
      BY <1>1, <2>1, <2>2 DEF Queued
    <2>9. Phases(p, pc, ts, owner, local)
      BY <1>1, <1>4, <2>2, <2>4 DEF Phases
    <2>10. Destruction(p, ts, owner, local, freed)
      BY <1>1, <1>4, <2>1, <2>4 DEF Destruction
    <2> QED
      BY <1>1, <1>3, <1>4, <1>5, <2>1, <2>6, <2>7, <2>8, <2>9, <2>10 DEF Good, Types
  <1> QED
    BY <1>2, <1>6, <1>7, <1>8 DEF Locking

-----------------------------------------------------------------------------
(* Changes of a pool that several steps make. *)

(* Threads are woken, or joined. *)
LEMMA SameGood ==
  ASSUME NEW p, NEW pc, NEW wt, NEW ts, NEW ow, NEW lo, NEW fr, NEW qc,
         Good(p, pc, wt, ts, ow, lo, fr), Same(pc, qc), ow # "new"
  PROVE  Good(p, qc, wt, ts, ow, lo, fr)
  <1>1. /\ Types(p, pc, wt, ts, ow, lo, fr) /\ WorkersCounted(p, pc)
        /\ Held(pc, wt, ts) /\ Phases(p, pc, ts, ow, lo)
    BY DEF Good
  <1>2. Types(p, qc, wt, ts, ow, lo, fr) /\ pc \in [Workers -> WorkerStates]
    BY <1>1 DEF Types, Same
  <1>3. WorkersCounted(p, qc)
    BY <1>1, <1>2, SameCounts
  <1>4. Held(qc, wt, ts)
    BY <1>1, <1>2, SameHeld DEF Same
  <1>5. Phases(p, qc, ts, ow, lo)
    BY <1>1 DEF Phases, Same
  <1> QED
    BY <1>2, <1>3, <1>4, <1>5 DEF Good

(* Two such changes in a row are one. *)
LEMMA SameTransitive ==
  ASSUME NEW pc, NEW qc, NEW rc, Same(pc, qc), Same(qc, rc)
  PROVE  Same(pc, rc)
  BY DEF Same

(* Threads are created in, or the size is changed of, a pool not CLOSED. *)
LEMMA ThreadsChanged ==
  ASSUME NEW p, NEW pc, NEW wt, NEW ts, NEW ow, NEW lo, NEW fr,
         Good(p, pc, wt, ts, ow, lo, fr), p.status # "CLOSED",
         NEW q \in PoolType, NEW qc \in [Workers -> WorkerStates], NEW ov,
         q.tasks = p.tasks, q.pending = p.pending, q.queue = p.queue,
         WorkersCounted(q, qc),
         \A w \in Workers : pc[w] \in Busy \/ qc[w] \in Busy => qc[w] = pc[w],
         \/ ov \in {"open", "failed"} /\ q.status = "OPEN"
         \/ ov \in {"termwait", "termwake"} /\ q.status = "CLOSING"
  PROVE  Good(q, qc, wt, ts, ov, lo, fr)
  <1>1. /\ Types(p, pc, wt, ts, ow, lo, fr) /\ TasksCounted(p, ts)
        /\ Held(pc, wt, ts) /\ Queued(p.queue, lo.queue, ts)
        /\ Phases(p, pc, ts, ow, lo) /\ Destruction(p, ts, ow, lo, fr)
    BY DEF Good
  <1>2. Types(q, qc, wt, ts, ov, lo, fr) /\ pc \in [Workers -> WorkerStates]
    BY <1>1 DEF Types, OwnerStates
  <1>3. TasksCounted(q, ts) /\ Queued(q.queue, lo.queue, ts)
    BY <1>1 DEF TasksCounted
  <1>4. Held(qc, wt, ts)
    BY <1>1, <1>2, SameHeld
  <1>5. lo.queue = <<>>
    BY <1>1 DEF Phases, Types, PoolType
  <1>6. Phases(q, qc, ts, ov, lo)
    BY <1>5 DEF Phases
  <1>7. Destruction(q, ts, ov, lo, fr)
    BY <1>1 DEF Destruction
  <1> QED
    BY <1>2, <1>3, <1>4, <1>6, <1>7 DEF Good

(* A thread gets the first pending task. *)
LEMMA TakeGood ==
  ASSUME NEW p, NEW pc, NEW wt, NEW ts, NEW ow, NEW lo, NEW fr,
         Good(p, pc, wt, ts, ow, lo, fr),
         NEW w \in Workers, pc[w] = "start", p.pending > 0,
         NEW t, t = Head(p.queue),
         NEW q, q = Pool(p.status, p.size, p.threads, p.idle, p.tasks,
                         p.running + 1, p.pending - 1, Tail(p.queue)),
         NEW qc \in [Workers -> WorkerStates], DifferAt(Workers, w, pc, qc),
         qc[w] = "run",
         NEW us \in [Tasks -> TaskStates], DifferAt(Tasks, t, ts, us),
         us[t] = "run",
         NEW ut, ut = [wt EXCEPT ![w] = t]
  PROVE  Good(q, qc, ut, us, ow, lo, fr)
  <1> USE ConstantsAssumption
  <1>1. /\ Types(p, pc, wt, ts, ow, lo, fr) /\ WorkersCounted(p, pc)
        /\ TasksCounted(p, ts) /\ Held(pc, wt, ts)
        /\ Queued(p.queue, lo.queue, ts)
        /\ Phases(p, pc, ts, ow, lo) /\ Destruction(p, ts, ow, lo, fr)
    BY DEF Good
  <1>2. /\ p \in PoolType /\ pc \in [Workers -> WorkerStates]
        /\ wt \in [Workers -> Tasks \cup {NoTask}] /\ ts \in [Tasks -> TaskStates]
        /\ p.queue \in Seq(Tasks) /\ p.queue # <<>>
    BY <1>1, EmptyElements DEF Types, TasksCounted, PoolType
  <1>3. /\ Tail(p.queue) \in Seq(Tasks) /\ t \in Tasks
        /\ Len(Tail(p.queue)) = Len(p.queue) - 1 /\ t \in Elements(p.queue)
        /\ Distinct(Tail(p.queue)) /\ Elements(Tail(p.queue)) = Elements(p.queue) \ {t}
    BY <1>1, <1>2, TailElements DEF Queued
  <1>4. p.status # "CLOSED" /\ ow # "new" /\ lo.queue = <<>>
    BY <1>1, <1>2 DEF Phases, PoolType
  <1>5. /\ p.status \in {"OPEN", "CLOSING", "CLOSED"} /\ p.size \in Nat
        /\ p.threads \in Int /\ p.idle \in Int /\ p.tasks \in Int
        /\ p.running + 1 \in Int /\ p.pending - 1 \in Int
    BY <1>2 DEF PoolType
  <1>6. /\ q \in PoolType /\ q.status = p.status /\ q.size = p.size
        /\ q.threads = p.threads /\ q.idle = p.idle /\ q.running = p.running + 1
        /\ q.tasks = p.tasks /\ q.pending = p.pending - 1 /\ q.queue = Tail(p.queue)
    <2>1. q \in PoolType
      BY <1>3, <1>5 DEF Pool, PoolType
    <2> QED
      BY <2>1 DEF Pool
  <1>8. ts[t] = "pending" /\ \A u \in Tasks : u # t => us[u] = ts[u]
    BY <1>1, <1>2, <1>3 DEF DifferAt, Queued
  <1>9. WorkersCounted(q, qc)
    <2>1. /\ q.threads = p.threads + Weight(qc[w], Live) - Weight(pc[w], Live)
          /\ q.idle = p.idle + Weight(qc[w], Idle) - Weight(pc[w], Idle)
          /\ q.running = p.running + Weight(qc[w], Busy) - Weight(pc[w], Busy)
      <3>1. /\ Weight(qc[w], Live) = 1 /\ Weight(pc[w], Live) = 1
            /\ Weight(qc[w], Idle) = 0 /\ Weight(pc[w], Idle) = 0
            /\ Weight(qc[w], Busy) = 1 /\ Weight(pc[w], Busy) = 0
        BY DEF Live, Idle, Busy, Weight
      <3>2. p.threads \in Int /\ p.idle \in Int /\ p.running \in Int
        BY <1>2 DEF PoolType
      <3>3. QED
        BY <1>6, <3>1, <3>2
    <2> QED
      BY <1>1, <1>2, <1>6, <2>1, WorkerMoved
  <1>10. TasksCounted(q, us)
    <2>1. /\ q.pending = Len(q.queue)
          /\ q.tasks = p.tasks + Weight(us[t], Counted) - Weight(ts[t], Counted)
      <3>1. p.pending = Len(p.queue) /\ Len(q.queue) = Len(p.queue) - 1
        BY <1>1, <1>3, <1>6 DEF TasksCounted
      <3>2. Weight(us[t], Counted) = 1 /\ Weight(ts[t], Counted) = 1
        BY <1>8 DEF Weight, Counted
      <3>3. p.tasks \in Int
        BY <1>2 DEF PoolType
      <3>4. QED
        BY <1>6, <3>1, <3>2, <3>3
    <2> QED
      BY <1>1, <1>2, <1>6, <1>8, <2>1, TaskMoved
  <1>11. Held(qc, ut, us)
    <2>1. \A v \in Workers : v # w => qc[v] = pc[v] /\ ut[v] = wt[v]
      BY <1>2 DEF DifferAt
    <2>2. ut[w] = t
      BY <1>2
    <2> QED
      BY <1>1, <1>3, <1>8, <2>1, <2>2 DEF Held, Holding
  <1>12. Queued(q.queue, lo.queue, us)
    BY <1>1, <1>3, <1>4, <1>6, <1>8, EmptyElements DEF Queued
  <1>13. Phases(q, qc, us, ow, lo)
    BY <1>1, <1>4, <1>6 DEF Phases
  <1>14. Destruction(q, us, ow, lo, fr)
    BY <1>1, <1>4, <1>6, <1>8 DEF Destruction
  <1>15. Types(q, qc, ut, us, ow, lo, fr)
    BY <1>1, <1>2, <1>3, <1>6, <1>8 DEF Types
  <1> QED
    BY <1>9, <1>10, <1>11, <1>12, <1>13, <1>14, <1>15 DEF Good

(* A thread that holds no task waits for one, or ends. *)
LEMMA RestGood ==
  ASSUME NEW p, NEW pc, NEW wt, NEW ts, NEW ow, NEW lo, NEW fr,
         Good(p, pc, wt, ts, ow, lo, fr),
         NEW w \in Workers, pc[w] = "start",
         NEW q \in PoolType, q.status = p.status, q.tasks = p.tasks,
         q.pending = p.pending, q.queue = p.queue,
         q.size = p.size \/ p.status = "CLOSING",
         NEW qc \in [Workers -> WorkerStates], DifferAt(Workers, w, pc, qc),
         qc[w] \in {"wait", "ended"},
         q.threads = p.threads + Weight(qc[w], Live) - Weight(pc[w], Live),
         q.idle = p.idle + Weight(qc[w], Idle) - Weight(pc[w], Idle),
         q.running = p.running,
         NEW ut, ut = [wt EXCEPT ![w] = NoTask]
  PROVE  Good(q, qc, ut, ts, ow, lo, fr)
  <1>1. /\ Types(p, pc, wt, ts, ow, lo, fr) /\ WorkersCounted(p, pc)
        /\ TasksCounted(p, ts) /\ Held(pc, wt, ts)
        /\ Queued(p.queue, lo.queue, ts)
        /\ Phases(p, pc, ts, ow, lo) /\ Destruction(p, ts, ow, lo, fr)
    BY DEF Good
  <1>2. /\ p \in PoolType /\ pc \in [Workers -> WorkerStates]
        /\ wt \in [Workers -> Tasks \cup {NoTask}]
    BY <1>1 DEF Types
  <1>3. WorkersCounted(q, qc)
    <2>1. q.running = p.running + Weight(qc[w], Busy) - Weight(pc[w], Busy)
      BY <1>2 DEF PoolType, Busy, Weight
    <2> QED
      BY <1>1, <1>2, <2>1, WorkerMoved
  <1>4. \A v \in Workers : v # w => qc[v] = pc[v] /\ ut[v] = wt[v]
    BY <1>2 DEF DifferAt
  <1>5. Held(qc, ut, ts)
    BY <1>1, <1>4 DEF Held, Holding
  <1>6. TasksCounted(q, ts) /\ Queued(q.queue, lo.queue, ts)
    BY <1>1 DEF TasksCounted
  <1>7. Phases(q, qc, ts, ow, lo)
    <2>1. ow # "new" /\ ~(p.status = "CLOSED" /\ p.size = 0)
      BY <1>1 DEF Phases, Live
    <2>2. q.status = "CLOSED" => \A v \in Workers : qc[v] \notin Busy
      BY <1>1, <1>4 DEF Phases, Busy
    <2> QED
      BY <1>1, <2>1, <2>2 DEF Phases
  <1>8. Destruction(q, ts, ow, lo, fr)
    BY <1>1 DEF Destruction
  <1>9. Types(q, qc, ut, ts, ow, lo, fr)
    BY <1>1, <1>2 DEF Types
  <1> QED
    BY <1>1, <1>3, <1>5, <1>6, <1>7, <1>8, <1>9 DEF Good

(* The closing owner is woken. *)
LEMMA WokenGood ==
  ASSUME NEW p, NEW pc, NEW wt, NEW ts, NEW lo, NEW fr,
         Good(p, pc, wt, ts, "termwait", lo, fr)
  PROVE  Good(p, pc, wt, ts, "termwake", lo, fr)
  BY DEF Good, Types, Phases, Destruction, OwnerStates

-----------------------------------------------------------------------------
(* Steps of a system thread. *)

(* threadmain: taking a pending task keeps the invariant. *)
LEMMA TakeTaskInv ==
  ASSUME IInv, NEW w \in Workers, TakeTask(w)
  PROVE  IInv'
  <1> DEFINE p == Locked(w)
             pc == [wpc EXCEPT ![w] = "start"]
             ts == LockedTasks(w)
             t == Head(p.queue)
  <1>1. /\ LockPool(w) /\ p.pending > 0
        /\ pool' = [p EXCEPT !.queue = Tail(@), !.pending = @ - 1, !.running = @ + 1]
        /\ wpc' = [wpc EXCEPT ![w] = "run"]
        /\ wtask' = [wtask EXCEPT ![w] = t]
        /\ tstate' = [ts EXCEPT ![t] = "run"]
        /\ UNCHANGED <<last_terminated, owner, local, freed>>
    BY DEF TakeTask
  <1>2. Good(p, pc, wtask, ts, owner, local, freed)
    BY <1>1, LockedEffect
  <1>3. wpc \in [Workers -> WorkerStates] /\ wpc[w] # "ended"
    BY <1>1 DEF IInv, Good, Types, LockPool, Locking
  <1>4. /\ pc[w] = "start"
        /\ wpc' \in [Workers -> WorkerStates] /\ wpc'[w] = "run"
        /\ DifferAt(Workers, w, pc, wpc')
    BY <1>1, <1>3, ConstantsAssumption DEF DifferAt, WorkerStates, Live, Busy
  <1>5. Joined(wpc', last_terminated', freed')
    BY <1>1, <1>3 DEF IInv, Joined
  <1> HIDE DEF p, pc, ts
  <1>6. /\ p \in PoolType /\ p.queue \in Seq(Tasks) /\ ts \in [Tasks -> TaskStates]
        /\ p.pending = Len(p.queue)
    BY <1>2 DEF Good, Types, PoolType, TasksCounted
  <1>7. t \in Tasks
    BY <1>1, <1>6, EmptyElements, TailElements
  <1>8. pool' = Pool(p.status, p.size, p.threads, p.idle, p.tasks,
                     p.running + 1, p.pending - 1, Tail(p.queue))
    BY <1>1, <1>6 DEF PoolType, Pool
  <1>9. /\ tstate' \in [Tasks -> TaskStates] /\ tstate'[t] = "run"
        /\ DifferAt(Tasks, t, ts, tstate')
    BY <1>1, <1>6, <1>7, ConstantsAssumption DEF DifferAt, TaskStates, Counted
  <1>10. Good(pool', wpc', wtask', tstate', owner, local, freed)
    BY <1>1, <1>2, <1>4, <1>8, <1>9, TakeGood
  <1> QED
    BY <1>1, <1>5, <1>10 DEF IInv

(* threadmain: waiting on 'onwork' keeps the invariant. *)
LEMMA WaitForWorkInv ==
  ASSUME IInv, NEW w \in Workers, WaitForWork(w)
  PROVE  IInv'
  <1> DEFINE p == Locked(w)
             pc == [wpc EXCEPT ![w] = "start"]
             ts == LockedTasks(w)
  <1>1. /\ LockPool(w)
        /\ pool' = [p EXCEPT !.idle = @ + 1]
        /\ wpc' = [wpc EXCEPT ![w] = "wait"]
        /\ wtask' = [wtask EXCEPT ![w] = NoTask]
        /\ tstate' = ts
        /\ UNCHANGED <<last_terminated, owner, local, freed>>
    BY DEF WaitForWork
  <1>2. Good(p, pc, wtask, ts, owner, local, freed)
    BY <1>1, LockedEffect
  <1>3. wpc \in [Workers -> WorkerStates] /\ wpc[w] # "ended"
    BY <1>1 DEF IInv, Good, Types, LockPool, Locking
  <1>4. /\ pc[w] = "start"
        /\ wpc' \in [Workers -> WorkerStates] /\ wpc'[w] = "wait"
        /\ DifferAt(Workers, w, pc, wpc')
    BY <1>1, <1>3, ConstantsAssumption DEF DifferAt, WorkerStates, Live, Idle
  <1>5. Joined(wpc', last_terminated', freed')
    BY <1>1, <1>3 DEF IInv, Joined
  <1> HIDE DEF p, pc, ts
  <1>6. p \in PoolType
    BY <1>2 DEF Good, Types
  <1>7. /\ pool' \in PoolType /\ pool'.status = p.status /\ pool'.size = p.size
        /\ pool'.tasks = p.tasks /\ pool'.pending = p.pending
        /\ pool'.queue = p.queue /\ pool'.running = p.running
        /\ pool'.threads = p.threads + Weight(wpc'[w], Live) - Weight(pc[w], Live)
        /\ pool'.idle = p.idle + Weight(wpc'[w], Idle) - Weight(pc[w], Idle)
    <2>1. /\ pool' \in PoolType /\ pool'.status = p.status /\ pool'.size = p.size
          /\ pool'.tasks = p.tasks /\ pool'.pending = p.pending
          /\ pool'.queue = p.queue /\ pool'.running = p.running
          /\ pool'.threads = p.threads /\ pool'.idle = p.idle + 1
      BY <1>1, <1>6 DEF PoolType
    <2> QED
      BY <1>4, <1>6, <2>1 DEF PoolType, Weight, Live, Idle, Busy
  <1>8. Good(pool', wpc', wtask', ts, owner, local, freed)
    BY <1>1, <1>2, <1>4, <1>7, RestGood
  <1> QED
    BY <1>1, <1>5, <1>8 DEF IInv

(* thread_end: the end of a thread keeps the invariant. *)
LEMMA ThreadEndInv ==
  ASSUME IInv, NEW w \in Workers, LockPool(w), NEW r,
         \/ r = Locked(w)
         \/ r = [Locked(w) EXCEPT !.size = 0] /\ Locked(w).status = "CLOSING",
         ThreadEnd(w, r), wtask' = [wtask EXCEPT ![w] = NoTask],
         tstate' = LockedTasks(w), UNCHANGED <<local, freed>>
  PROVE  IInv'
  <1> DEFINE p == Locked(w)
             pc == [wpc EXCEPT ![w] = "start"]
             ts == LockedTasks(w)
             q == [r EXCEPT !.threads = @ - 1]
             ec == [pc EXCEPT ![w] = "ended"]
             jc == [v \in Workers |-> IF v = w THEN "ended"
                                      ELSE IF v = last_terminated THEN "none"
                                      ELSE wpc[v]]
  <1>1. /\ pool' = q \/ (q.status = "CLOSING" /\ pool' = CheckHalted(q))
        /\ wpc' \in Signal(jc) \/ wpc' = jc \/ wpc' = Broadcast(jc)
        /\ owner' = owner \/ (owner = "termwait" /\ owner' = "termwake")
        /\ last_terminated' = w
    BY DEF ThreadEnd, WakeHalted
  <1>2. Good(p, pc, wtask, ts, owner, local, freed)
    BY LockedEffect
  <1>3. wpc \in [Workers -> WorkerStates] /\ wpc[w] # "ended" /\ ~freed /\ freed' = freed
    BY DEF IInv, Good, Types, LockPool, Locking
  <1>4. /\ pc \in [Workers -> WorkerStates] /\ pc[w] = "start"
        /\ ec \in [Workers -> WorkerStates] /\ ec[w] = "ended"
        /\ jc \in [Workers -> WorkerStates]
        /\ \A v \in Workers : jc[v] = "ended" <=> v = w
        /\ DifferAt(Workers, w, pc, ec)
    BY <1>3, ConstantsAssumption
    DEF DifferAt, WorkerStates, Live, IInv, Joined
  <1>5. Same(ec, jc)
    <2>1. \A v \in Workers : jc[v] = ec[v] \/ (ec[v] = "ended" /\ jc[v] = "none")
      BY <1>3 DEF IInv, Joined
    <2> QED
      BY <1>4, <2>1 DEF Same, Live, Idle, Busy
  <1>6. Same(ec, wpc') /\ \A v \in Workers : wpc'[v] = "ended" <=> v = w
    <2>1. Same(jc, wpc') /\ \A v \in Workers : wpc'[v] = "ended" <=> jc[v] = "ended"
      <3> HIDE DEF jc
      <3> QED
        BY <1>1, <1>4, WakeEnded
    <2>2. Same(ec, wpc')
      <3> HIDE DEF ec, jc
      <3> QED
        BY <1>5, <2>1, SameTransitive
    <2> QED
      BY <1>4, <2>1, <2>2
  <1>7. Joined(wpc', last_terminated', freed')
    BY <1>1, <1>3, <1>6 DEF Joined
  <1>8. owner # "new"
    BY <1>3 DEF IInv, Good, Phases, LockPool, Locking
  <1>9. /\ pool' \in PoolType /\ p \in PoolType /\ pool'.status = p.status
        /\ pool'.size = p.size \/ p.status = "CLOSING"
        /\ pool'.tasks = p.tasks /\ pool'.pending = p.pending
        /\ pool'.queue = p.queue /\ pool'.running = p.running
        /\ pool'.threads = p.threads - 1 /\ pool'.idle = p.idle
    <2> HIDE DEF p, pc, ts, ec, jc
    <2>1. p \in PoolType
      BY <1>2 DEF Good, Types
    <2>2. /\ r \in PoolType /\ r.status = p.status
          /\ r.size = p.size \/ p.status = "CLOSING"
          /\ r.tasks = p.tasks /\ r.pending = p.pending
          /\ r.queue = p.queue /\ r.running = p.running
          /\ r.threads = p.threads /\ r.idle = p.idle
      <3>1. CASE r = p
        BY <2>1, <3>1
      <3>2. CASE r = [p EXCEPT !.size = 0] /\ p.status = "CLOSING"
        BY <2>1, <3>2 DEF PoolType
      <3> QED
        BY <3>1, <3>2 DEF p
    <2>3. /\ q \in PoolType /\ q.status = p.status
          /\ q.size = p.size \/ p.status = "CLOSING"
          /\ q.tasks = p.tasks /\ q.pending = p.pending
          /\ q.queue = p.queue /\ q.running = p.running
          /\ q.threads = p.threads - 1 /\ q.idle = p.idle
      BY <2>2 DEF PoolType
    <2> HIDE DEF q
    <2>4. CASE pool' = q
      BY <2>1, <2>3, <2>4
    <2>5. CASE q.status = "CLOSING" /\ pool' = [q EXCEPT !.size = 0]
      BY <2>1, <2>3, <2>5 DEF PoolType
    <2> QED
      BY <1>1, <2>4, <2>5 DEF CheckHalted
  <1>10. /\ pool'.threads = p.threads + Weight(ec[w], Live) - Weight(pc[w], Live)
         /\ pool'.idle = p.idle + Weight(ec[w], Idle) - Weight(pc[w], Idle)
    <2> HIDE DEF p, pc, ts, ec, jc
    <2> QED
      BY <1>4, <1>9 DEF PoolType, Weight, Live, Idle, Busy
  <1>11. Good(pool', ec, wtask', ts, owner, local, freed)
    <2> HIDE DEF p, pc, ts, ec, jc, q
    <2>1. /\ pc[w] = "start" /\ ec[w] \in {"wait", "ended"}
          /\ ec \in [Workers -> WorkerStates] /\ DifferAt(Workers, w, pc, ec)
      BY <1>4
    <2> QED
      BY <1>2, <1>9, <1>10, <2>1, RestGood
  <1>12. Good(pool', wpc', wtask', ts, owner', local, freed)
    <2> HIDE DEF p, pc, ts, ec, jc
    <2>1. Good(pool', wpc', wtask', ts, owner, local, freed)
      BY <1>6, <1>8, <1>11, SameGood
    <2>2. CASE owner' = owner
      BY <2>1, <2>2
    <2>3. CASE owner = "termwait" /\ owner' = "termwake"
      BY <2>1, <2>3, WokenGood
    <2> QED
      BY <1>1, <2>2, <2>3
  <1> QED
    BY <1>3, <1>7, <1>12 DEF IInv

(* threadmain: either reason to end keeps the invariant. *)
LEMMA EndThreadInv ==
  ASSUME IInv, NEW w \in Workers, EndThread(w)
  PROVE  IInv'
  <1>1. /\ LockPool(w)
        /\ wtask' = [wtask EXCEPT ![w] = NoTask]
        /\ tstate' = LockedTasks(w)
        /\ UNCHANGED <<local, freed>>
    BY DEF EndThread
  <1>2. \/ ThreadEnd(w, Locked(w))
        \/ /\ Locked(w).status = "CLOSING"
           /\ ThreadEnd(w, [Locked(w) EXCEPT !.size = 0])
    BY DEF EndThread, NoMoreTasks
  <1> QED
    BY <1>1, <1>2, ThreadEndInv

-----------------------------------------------------------------------------
(* Steps of a running task. *)

(* A thread busy with a task remains so: what it counts for, and what it   *)
(* implies of the pool, does not change.                                   *)
LEMMA BusyGood ==
  ASSUME IInv, NEW w \in Workers, wpc[w] \in Busy,
         NEW s \in Busy, wpc' = [wpc EXCEPT ![w] = s],
         pool' = pool, last_terminated' = last_terminated, freed' = freed
  PROVE  /\ wpc' \in [Workers -> WorkerStates] /\ wpc'[w] = s
         /\ \A v \in Workers : v # w => wpc'[v] = wpc[v]
         /\ pool.status # "CLOSED" /\ owner # "new"
         /\ WorkersCounted(pool', wpc')
         /\ Joined(wpc', last_terminated', freed')
  <1>1. /\ pool \in PoolType /\ wpc \in [Workers -> WorkerStates]
        /\ WorkersCounted(pool, wpc) /\ Phases(pool, wpc, tstate, owner, local)
    BY DEF IInv, Good, Types
  <1>2. /\ wpc' \in [Workers -> WorkerStates] /\ wpc'[w] = s
        /\ \A v \in Workers : v # w => wpc'[v] = wpc[v]
        /\ DifferAt(Workers, w, wpc, wpc')
    BY <1>1, ConstantsAssumption DEF WorkerStates, Live, DifferAt
  <1>3. pool.status # "CLOSED" /\ owner # "new"
    BY <1>1 DEF Phases, Busy
  <1>4. WorkersCounted(pool, wpc')
    <2>1. /\ pool.threads = pool.threads + Weight(wpc'[w], Live) - Weight(wpc[w], Live)
          /\ pool.idle = pool.idle + Weight(wpc'[w], Idle) - Weight(wpc[w], Idle)
          /\ pool.running = pool.running + Weight(wpc'[w], Busy) - Weight(wpc[w], Busy)
      BY <1>1, <1>2 DEF PoolType, Weight, Live, Idle, Busy
    <2> QED
      BY <1>1, <1>2, <2>1, WorkerMoved
  <1>5. Joined(wpc', last_terminated', freed')
    BY <1>2 DEF IInv, Joined, Busy
  <1> QED
    BY <1>2, <1>3, <1>4, <1>5

(* A task that yields, or whose thread lets it go, keeps the invariant. *)
LEMMA YieldInv ==
  ASSUME IInv, NEW w \in Workers, Yield(w) \/ Leave(w)
  PROVE  IInv'
  <1>1. /\ UNCHANGED <<pool, last_terminated, wtask, tstate, owner, local, freed>>
        /\ \/ wpc[w] = "run" /\ wpc' = [wpc EXCEPT ![w] = "requeue"]
           \/ wpc[w] = "published" /\ wpc' = [wpc EXCEPT ![w] = "left"]
    BY DEF Yield, Leave
  <1>2. /\ wpc' \in [Workers -> WorkerStates]
        /\ \A v \in Workers : v # w => wpc'[v] = wpc[v]
        /\ pool.status # "CLOSED" /\ owner # "new"
        /\ WorkersCounted(pool', wpc')
        /\ Joined(wpc', last_terminated', freed')
        /\ \/ wpc[w] = "run" /\ wpc'[w] = "requeue"
           \/ wpc[w] = "published" /\ wpc'[w] = "left"
    <2>1. CASE wpc[w] = "run" /\ wpc' = [wpc EXCEPT ![w] = "requeue"]
      BY <1>1, <2>1, BusyGood DEF Busy
    <2>2. CASE wpc[w] = "published" /\ wpc' = [wpc EXCEPT ![w] = "left"]
      BY <1>1, <2>2, BusyGood DEF Busy
    <2> QED
      BY <1>1, <2>1, <2>2
  <1>3. /\ Types(pool, wpc, wtask, tstate, owner, local, freed)
        /\ TasksCounted(pool, tstate) /\ Held(wpc, wtask, tstate)
        /\ Queued(pool.queue, local.queue, tstate)
        /\ Phases(pool, wpc, tstate, owner, local)
        /\ Destruction(pool, tstate, owner, local, freed)
    BY DEF IInv, Good
  <1>4. Held(wpc', wtask, tstate)
    BY <1>2, <1>3 DEF Held, Holding
  <1>5. Phases(pool, wpc', tstate, owner, local)
    BY <1>2, <1>3 DEF Phases
  <1>6. Types(pool, wpc', wtask, tstate, owner, local, freed)
    BY <1>2, <1>3 DEF Types
  <1>7. Good(pool, wpc', wtask, tstate, owner, local, freed)
    BY <1>1, <1>2, <1>3, <1>4, <1>5, <1>6 DEF Good
  <1> QED
    BY <1>1, <1>2, <1>7 DEF IInv

(* A task that suspends on a channel, or that ends, keeps the invariant. *)
LEMMA SuspendInv ==
  ASSUME IInv, NEW w \in Workers, Suspend(w) \/ Finish(w)
  PROVE  IInv'
  <1> DEFINE t == wtask[w]
  <1>1. /\ UNCHANGED <<pool, last_terminated, wtask, owner, local, freed>>
        /\ wpc[w] = "run"
        /\ \/ /\ wpc' = [wpc EXCEPT ![w] = "published"]
              /\ tstate' = [tstate EXCEPT ![t] = "susp"]
           \/ /\ wpc' = [wpc EXCEPT ![w] = "done"]
              /\ tstate' = [tstate EXCEPT ![t] = "over"]
    BY DEF Suspend, Finish
  <1>2. /\ wpc' \in [Workers -> WorkerStates]
        /\ \A v \in Workers : v # w => wpc'[v] = wpc[v]
        /\ pool.status # "CLOSED" /\ owner # "new"
        /\ WorkersCounted(pool', wpc')
        /\ Joined(wpc', last_terminated', freed')
        /\ \/ wpc'[w] = "published" /\ tstate' = [tstate EXCEPT ![t] = "susp"]
           \/ wpc'[w] = "done" /\ tstate' = [tstate EXCEPT ![t] = "over"]
    <2>1. CASE /\ wpc' = [wpc EXCEPT ![w] = "published"]
               /\ tstate' = [tstate EXCEPT ![t] = "susp"]
      BY <1>1, <2>1, BusyGood DEF Busy
    <2>2. CASE /\ wpc' = [wpc EXCEPT ![w] = "done"]
               /\ tstate' = [tstate EXCEPT ![t] = "over"]
      BY <1>1, <2>2, BusyGood DEF Busy
    <2> QED
      BY <1>1, <2>1, <2>2
  <1>3. /\ Types(pool, wpc, wtask, tstate, owner, local, freed)
        /\ TasksCounted(pool, tstate) /\ Held(wpc, wtask, tstate)
        /\ Queued(pool.queue, local.queue, tstate)
        /\ Phases(pool, wpc, tstate, owner, local)
        /\ Destruction(pool, tstate, owner, local, freed)
    BY DEF IInv, Good
  <1>4. /\ t \in Tasks /\ tstate[t] = "run" /\ tstate \in [Tasks -> TaskStates]
        /\ pool \in PoolType
    BY <1>1, <1>3 DEF Held, Types
  <1>5. /\ tstate' \in [Tasks -> TaskStates]
        /\ \A u \in Tasks : u # t => tstate'[u] = tstate[u]
        /\ \/ wpc'[w] = "published" /\ tstate'[t] = "susp"
           \/ wpc'[w] = "done" /\ tstate'[t] = "over"
    BY <1>2, <1>4 DEF TaskStates, Counted
  <1>6. DifferAt(Tasks, t, tstate, tstate')
    BY <1>4, <1>5, ConstantsAssumption DEF DifferAt
  <1>7. TasksCounted(pool, tstate')
    <2>1. /\ pool.pending = Len(pool.queue)
          /\ pool.tasks = pool.tasks + Weight(tstate'[t], Counted)
                                     - Weight(tstate[t], Counted)
      BY <1>3, <1>4, <1>5 DEF TasksCounted, PoolType, Weight, Counted
    <2> QED
      BY <1>3, <1>4, <1>6, <2>1, TaskMoved
  <1>8. Held(wpc', wtask, tstate')
    BY <1>1, <1>2, <1>3, <1>4, <1>5 DEF Held, Holding
  <1>9. Queued(pool.queue, local.queue, tstate')
    BY <1>3, <1>4, <1>5 DEF Queued
  <1>10. Phases(pool, wpc', tstate', owner, local)
    BY <1>2, <1>3 DEF Phases
  <1>11. Destruction(pool, tstate', owner, local, freed)
    BY <1>2, <1>3, <1>5 DEF Destruction
  <1>12. Types(pool, wpc', wtask, tstate', owner, local, freed)
    BY <1>2, <1>3, <1>5 DEF Types
  <1>13. Good(pool, wpc', wtask, tstate', owner, local, freed)
    BY <1>1, <1>2, <1>7, <1>8, <1>9, <1>10, <1>11, <1>12 DEF Good
  <1> QED
    BY <1>1, <1>2, <1>13 DEF IInv

-----------------------------------------------------------------------------
(* Operations of the library that change the size of the pool. *)

(* Threads are created, up to the number asked. *)
LEMMA StartGood ==
  ASSUME IInv, NEW S \in SUBSET In(wpc, {"none"}), wpc' = Start(wpc, S),
         NEW n \in Nat,
         pool' = [pool EXCEPT !.size = n, !.threads = @ + Cardinality(S)]
  PROVE  /\ pool' \in PoolType /\ wpc' \in [Workers -> WorkerStates]
         /\ pool'.status = pool.status /\ pool'.tasks = pool.tasks
         /\ pool'.pending = pool.pending /\ pool'.queue = pool.queue
         /\ WorkersCounted(pool', wpc')
         /\ \A w \in Workers : wpc[w] \in Busy \/ wpc'[w] \in Busy => wpc'[w] = wpc[w]
         /\ \A w \in Workers : wpc'[w] = "ended" <=> wpc[w] = "ended"
  <1>1. /\ pool \in PoolType /\ wpc \in [Workers -> WorkerStates]
        /\ WorkersCounted(pool, wpc) /\ IsFiniteSet(Workers)
    BY ConstantsAssumption DEF IInv, Good, Types
  <1>2. /\ wpc' \in [Workers -> WorkerStates]
        /\ Cardinality(S) \in Nat
        /\ Cardinality(In(wpc', Live)) = Cardinality(In(wpc, Live)) + Cardinality(S)
        /\ In(wpc', Idle) = In(wpc, Idle)
        /\ In(wpc', Busy) = In(wpc, Busy)
        /\ \A w \in Workers : wpc[w] \in Busy \/ wpc'[w] \in Busy => wpc'[w] = wpc[w]
        /\ \A w \in Workers : wpc'[w] = "ended" <=> wpc[w] = "ended"
    BY <1>1, StartEffect
  <1>3. /\ pool' \in PoolType
        /\ pool'.status = pool.status /\ pool'.tasks = pool.tasks
        /\ pool'.pending = pool.pending /\ pool'.queue = pool.queue
        /\ pool'.threads = pool.threads + Cardinality(S)
        /\ pool'.idle = pool.idle /\ pool'.running = pool.running
    <2>1. pool' = Pool(pool.status, n, pool.threads + Cardinality(S), pool.idle,
                       pool.tasks, pool.running, pool.pending, pool.queue)
      BY <1>1, <1>2 DEF PoolType, Pool
    <2>2. pool' \in PoolType
      BY <1>1, <1>2, <2>1 DEF PoolType, Pool
    <2> QED
      BY <2>1, <2>2 DEF Pool
  <1>4. /\ Cardinality(In(wpc', Idle)) = Cardinality(In(wpc, Idle))
        /\ Cardinality(In(wpc', Busy)) = Cardinality(In(wpc, Busy))
    BY <1>2, Zenon
  <1>5. WorkersCounted(pool', wpc')
    BY <1>1, <1>2, <1>3, <1>4 DEF WorkersCounted
  <1> QED
    BY <1>2, <1>3, <1>5

(* threads.create keeps the invariant, whatever threads are created. *)
LEMMA CreateInv ==
  ASSUME IInv, NEW n \in Sizes, Create(n)
  PROVE  IInv'
  <1>1. PICK S \in SUBSET In(wpc, {"none"}) :
          /\ pool' = [pool EXCEPT !.size = n, !.threads = Cardinality(S)]
          /\ wpc' = Start(wpc, S)
          /\ owner' \in {"open", "failed"}
    BY DEF Create, Started
  <1>2. owner = "new" /\ UNCHANGED <<last_terminated, wtask, tstate, local, freed>>
    BY DEF Create
  <1>3. /\ pool \in PoolType /\ wpc \in [Workers -> WorkerStates]
        /\ WorkersCounted(pool, wpc) /\ pool.status = "OPEN"
        /\ \A w \in Workers : wpc[w] = "none"
    BY <1>2 DEF IInv, Good, Types, Phases
  <1>4. pool.threads = 0
    <2>1. \A w \in Workers : wpc[w] \notin Live
      BY <1>3 DEF Live, Idle, Busy
    <2> QED
      BY <1>3, <2>1, CountZero, ConstantsAssumption DEF WorkersCounted
  <1>5. pool' = [pool EXCEPT !.size = n, !.threads = @ + Cardinality(S)]
    <2>1. IsFiniteSet(S)
      <3>1. IsFiniteSet(In(wpc, {"none"}))
        BY <1>3, InFinite, ConstantsAssumption
      <3> QED
        BY <3>1, FS_Subset
    <2>2. Cardinality(S) \in Nat
      BY <2>1, FS_CardinalityType
    <2>3. pool.threads + Cardinality(S) = Cardinality(S)
      BY <1>4, <2>2
    <2> QED
      BY <1>1, <1>3, <2>3 DEF PoolType
  <1>6. n \in Nat
    BY ConstantsAssumption
  <1>7. /\ pool' \in PoolType /\ wpc' \in [Workers -> WorkerStates]
        /\ pool'.status = "OPEN" /\ pool'.tasks = pool.tasks
        /\ pool'.pending = pool.pending /\ pool'.queue = pool.queue
        /\ WorkersCounted(pool', wpc')
        /\ \A w \in Workers : wpc[w] \in Busy \/ wpc'[w] \in Busy => wpc'[w] = wpc[w]
        /\ \A w \in Workers : wpc'[w] = "ended" <=> wpc[w] = "ended"
    BY <1>1, <1>3, <1>5, <1>6, StartGood
  <1>8. Good(pool', wpc', wtask, tstate, owner', local, freed)
    <2>1. Good(pool, wpc, wtask, tstate, owner, local, freed)
      BY DEF IInv
    <2>2. owner' \in {"open", "failed"} /\ pool.status # "CLOSED"
      BY <1>1, <1>3
    <2> QED
      BY <1>7, <2>1, <2>2, ThreadsChanged
  <1> QED
    BY <1>2, <1>7, <1>8 DEF IInv, Joined

(* Whoever calls the library finds the pool not CLOSED. *)
LEMMA CanCallOpen ==
  ASSUME IInv, CanCall
  PROVE  /\ pool.status # "CLOSED"
         /\ \/ owner \in {"open", "failed"} /\ pool.status = "OPEN"
            \/ owner \in {"termwait", "termwake"} /\ pool.status = "CLOSING"
  <1>1. pool \in PoolType /\ Phases(pool, wpc, tstate, owner, local)
    BY DEF IInv, Good, Types
  <1>2. pool.status # "CLOSED" /\ owner # "new"
    BY <1>1 DEF CanCall, Phases, Busy
  <1> QED
    BY <1>1, <1>2 DEF Phases, PoolType

(* threads.resize keeps the invariant, whatever threads are created. *)
LEMMA ResizeInv ==
  ASSUME IInv, NEW n \in Sizes, NEW create \in CreateModes, Resize(n, create)
  PROVE  IInv'
  <1>1. /\ pool.status # "CLOSED"
        /\ \/ owner \in {"open", "failed"} /\ pool.status = "OPEN"
           \/ owner \in {"termwait", "termwake"} /\ pool.status = "CLOSING"
    BY CanCallOpen DEF Resize
  <1>2. /\ pool \in PoolType /\ wpc \in [Workers -> WorkerStates] /\ n \in Nat
        /\ Good(pool, wpc, wtask, tstate, owner, local, freed)
        /\ UNCHANGED <<last_terminated, wtask, tstate, owner, local, freed>>
    BY ConstantsAssumption DEF IInv, Good, Types, Resize
  <1>3. /\ pool' \in PoolType /\ wpc' \in [Workers -> WorkerStates]
        /\ pool'.status = pool.status /\ pool'.tasks = pool.tasks
        /\ pool'.pending = pool.pending /\ pool'.queue = pool.queue
        /\ WorkersCounted(pool', wpc')
        /\ \A w \in Workers : wpc[w] \in Busy \/ wpc'[w] \in Busy => wpc'[w] = wpc[w]
        /\ \A w \in Workers : wpc'[w] = "ended" <=> wpc[w] = "ended"
    <2>1. CASE \E S \in SUBSET In(wpc, {"none"}) :
                 /\ pool' = [pool EXCEPT !.size = n, !.threads = @ + Cardinality(S)]
                 /\ wpc' = Start(wpc, S)
      BY <1>2, <2>1, StartGood
    <2>2. CASE /\ pool' = [pool EXCEPT !.size = n]
               /\ wpc' \in Signal(wpc) \/ wpc' = wpc
      <3>1. Same(wpc, wpc') /\ \A w \in Workers : wpc'[w] = "ended" <=> wpc[w] = "ended"
        BY <1>2, <2>2, WakeEnded
      <3>2. WorkersCounted(pool, wpc')
        BY <1>2, <3>1, SameCounts DEF Good
      <3>3. /\ pool' \in PoolType
            /\ pool'.status = pool.status /\ pool'.tasks = pool.tasks
            /\ pool'.pending = pool.pending /\ pool'.queue = pool.queue
            /\ pool'.threads = pool.threads
            /\ pool'.idle = pool.idle /\ pool'.running = pool.running
        BY <1>2, <2>2 DEF PoolType
      <3>4. WorkersCounted(pool', wpc')
        BY <3>2, <3>3 DEF WorkersCounted
      <3> QED
        BY <3>1, <3>3, <3>4 DEF Same
    <2> QED
      BY <2>1, <2>2 DEF Resize, Started
  <1>4. Good(pool', wpc', wtask, tstate, owner, local, freed)
    BY <1>1, <1>2, <1>3, ThreadsChanged
  <1> QED
    BY <1>2, <1>3, <1>4 DEF IInv, Joined

-----------------------------------------------------------------------------
(* Tasks that enter the queue. *)

(* addthread_mx puts a new or a resumed task in the queue of a pool that   *)
(* is not CLOSED.                                                          *)
LEMMA QueuedGood ==
  ASSUME IInv, NEW t \in Tasks, tstate[t] \in {"new", "susp"},
         pool.status # "CLOSED", owner # "new", NEW n \in {0, 1}, GetThread(n),
         pool' = Pool(pool.status, pool.size, pool.threads + n, pool.idle,
                      pool.tasks + Weight("pending", Counted)
                                 - Weight(tstate[t], Counted),
                      pool.running, pool.pending + 1, Append(pool.queue, t)),
         tstate' = [tstate EXCEPT ![t] = "pending"],
         UNCHANGED <<last_terminated, wtask, owner, local, freed>>
  PROVE  IInv'
  <1>1. /\ Types(pool, wpc, wtask, tstate, owner, local, freed)
        /\ TasksCounted(pool, tstate) /\ Held(wpc, wtask, tstate)
        /\ Queued(pool.queue, local.queue, tstate)
        /\ Phases(pool, wpc, tstate, owner, local)
        /\ Destruction(pool, tstate, owner, local, freed)
        /\ Joined(wpc, last_terminated, freed)
    BY DEF IInv, Good
  <1>2. /\ pool \in PoolType /\ wpc \in [Workers -> WorkerStates]
        /\ tstate \in [Tasks -> TaskStates] /\ pool.queue \in Seq(Tasks)
    BY <1>1 DEF Types, PoolType
  <1>3. /\ wpc' \in [Workers -> WorkerStates]
        /\ WorkersCounted([pool EXCEPT !.threads = @ + n], wpc')
        /\ \A w \in Workers : wpc[w] \in Busy \/ wpc'[w] \in Busy => wpc'[w] = wpc[w]
        /\ \A w \in Workers : wpc'[w] = "ended" <=> wpc[w] = "ended"
    BY GetThreadEffect
  <1>4. /\ tstate' \in [Tasks -> TaskStates] /\ tstate'[t] = "pending"
        /\ \A u \in Tasks : u # t => tstate'[u] = tstate[u]
        /\ DifferAt(Tasks, t, tstate, tstate')
    BY <1>2, ConstantsAssumption DEF TaskStates, Counted, DifferAt
  <1>5. /\ Append(pool.queue, t) \in Seq(Tasks)
        /\ Len(Append(pool.queue, t)) = Len(pool.queue) + 1
        /\ Elements(Append(pool.queue, t)) = Elements(pool.queue) \cup {t}
        /\ Distinct(Append(pool.queue, t))
    <2>1. t \notin Elements(pool.queue) /\ Distinct(pool.queue)
      BY <1>1 DEF Queued
    <2> QED
      BY <1>2, <2>1, AppendElements
  <1>6. Weight("pending", Counted) \in Int /\ Weight(tstate[t], Counted) \in Int
    BY DEF Weight
  <1>7. /\ pool' \in PoolType /\ pool'.status = pool.status
        /\ pool'.size = pool.size /\ pool'.threads = pool.threads + n
        /\ pool'.idle = pool.idle /\ pool'.running = pool.running
        /\ pool'.tasks = pool.tasks + Weight("pending", Counted)
                                    - Weight(tstate[t], Counted)
        /\ pool'.pending = pool.pending + 1
        /\ pool'.queue = Append(pool.queue, t)
    <2>1. pool' \in PoolType
      BY <1>2, <1>5, <1>6 DEF Pool, PoolType
    <2> QED
      BY <2>1 DEF Pool
  <1>8. WorkersCounted(pool', wpc')
    BY <1>2, <1>3, <1>7 DEF WorkersCounted, PoolType
  <1>9. TasksCounted(pool', tstate')
    <2>1. pool'.pending = Len(pool'.queue)
      BY <1>1, <1>5, <1>7 DEF TasksCounted
    <2>2. pool'.tasks = pool.tasks + Weight(tstate'[t], Counted)
                                   - Weight(tstate[t], Counted)
      BY <1>4, <1>7
    <2> QED
      BY <1>1, <1>2, <1>4, <1>7, <2>1, <2>2, TaskMoved
  <1>10. Held(wpc', wtask, tstate')
    <2>1. Held(wpc', wtask, tstate)
      BY <1>1, <1>2, <1>3, SameHeld
    <2> QED
      BY <2>1, <1>4 DEF Held
  <1>11. local.queue = <<>>
    BY <1>1, <1>2 DEF Phases, PoolType
  <1>12. Queued(pool'.queue, local.queue, tstate')
    BY <1>1, <1>4, <1>5, <1>7, <1>11, EmptyElements DEF Queued
  <1>13. Phases(pool', wpc', tstate', owner, local)
    BY <1>1, <1>7, <1>11 DEF Phases
  <1>14. Destruction(pool', tstate', owner, local, freed)
    BY <1>1, <1>4, <1>7 DEF Destruction
  <1>15. Types(pool', wpc', wtask, tstate', owner, local, freed)
    BY <1>1, <1>3, <1>4, <1>7 DEF Types
  <1>16. Good(pool', wpc', wtask, tstate', owner, local, freed)
    BY <1>8, <1>9, <1>10, <1>12, <1>13, <1>14, <1>15 DEF Good
  <1> QED
    BY <1>1, <1>3, <1>16 DEF IInv, Joined

(* lcuTP_addtpooltask keeps the invariant. *)
LEMMA AddTaskInv ==
  ASSUME IInv, NEW t \in Tasks, AddTask(t)
  PROVE  IInv'
  <1>1. PICK n \in {0, 1} :
          /\ GetThread(n)
          /\ pool' = [Enqueue(pool, t) EXCEPT !.threads = @ + n, !.tasks = @ + 1]
    BY DEF AddTask, AddedTask
  <1>2. /\ CanCall /\ tstate[t] = "new"
        /\ tstate' = [tstate EXCEPT ![t] = "pending"]
        /\ UNCHANGED <<last_terminated, wtask, owner, local, freed>>
    BY DEF AddTask
  <1>3. pool.status # "CLOSED" /\ owner # "new" /\ pool \in PoolType
    BY <1>2, CanCallOpen DEF IInv, Good, Types
  <1>4. pool' = Pool(pool.status, pool.size, pool.threads + n, pool.idle,
                     pool.tasks + 1,
                     pool.running, pool.pending + 1, Append(pool.queue, t))
    BY <1>1, <1>3 DEF Pool, PoolType, Enqueue
  <1>5. pool.tasks + Weight("pending", Counted) - Weight(tstate[t], Counted)
          = pool.tasks + 1
    BY <1>2, <1>3 DEF PoolType, Weight, Counted
  <1> QED
    BY <1>1, <1>2, <1>3, <1>4, <1>5, QueuedGood

(* lcuTP_resumetask keeps the invariant, the pool being CLOSED or not. *)
LEMMA ResumeTaskInv ==
  ASSUME IInv, NEW t \in Tasks, ResumeTask(t)
  PROVE  IInv'
  <1>1. PICK n \in {0, 1} :
          /\ GetThread(n)
          /\ pool' = IF pool.status = "CLOSED" THEN [pool EXCEPT !.threads = @ + n]
                     ELSE Enqueue([pool EXCEPT !.threads = @ + n], t)
    BY DEF ResumeTask
  <1>2. /\ tstate[t] = "susp"
        /\ tstate' = [tstate EXCEPT ![t] =
                        IF pool.status = "CLOSED" THEN "closing" ELSE "pending"]
        /\ UNCHANGED <<last_terminated, wtask, owner, local, freed>>
    BY DEF ResumeTask
  <1>3. /\ Types(pool, wpc, wtask, tstate, owner, local, freed)
        /\ TasksCounted(pool, tstate) /\ Held(wpc, wtask, tstate)
        /\ Queued(pool.queue, local.queue, tstate)
        /\ Phases(pool, wpc, tstate, owner, local)
        /\ Destruction(pool, tstate, owner, local, freed)
        /\ Joined(wpc, last_terminated, freed)
    BY DEF IInv, Good
  <1>4. /\ pool \in PoolType /\ wpc \in [Workers -> WorkerStates] /\ owner # "new"
        /\ tstate \in [Tasks -> TaskStates]
    BY <1>2, <1>3 DEF Types, Phases
  <1>5. CASE pool.status # "CLOSED"
    <2>1. pool' = Pool(pool.status, pool.size, pool.threads + n, pool.idle,
                       pool.tasks, pool.running, pool.pending + 1,
                       Append(pool.queue, t))
      BY <1>1, <1>4, <1>5 DEF Pool, PoolType, Enqueue
    <2>2. pool.tasks + Weight("pending", Counted) - Weight(tstate[t], Counted)
            = pool.tasks
      BY <1>2, <1>4 DEF PoolType, Weight, Counted
    <2>3. tstate' = [tstate EXCEPT ![t] = "pending"] /\ tstate[t] \in {"new", "susp"}
      BY <1>2, <1>5
    <2> QED
      BY <1>1, <1>2, <1>4, <1>5, <2>1, <2>2, <2>3, QueuedGood
  <1>6. CASE pool.status = "CLOSED"
    <2>1. /\ wpc' \in [Workers -> WorkerStates]
          /\ WorkersCounted([pool EXCEPT !.threads = @ + n], wpc')
          /\ \A w \in Workers : wpc[w] \in Busy \/ wpc'[w] \in Busy => wpc'[w] = wpc[w]
          /\ \A w \in Workers : wpc'[w] = "ended" <=> wpc[w] = "ended"
          /\ n = 0 => Same(wpc, wpc')
          /\ n = 1 => pool.threads < pool.size
      BY <1>1, GetThreadEffect
    <2>2. WorkersCounted(pool', wpc')
      BY <1>1, <1>6, <2>1
    <2>3. /\ pool' \in PoolType /\ pool'.status = pool.status
          /\ pool'.size = pool.size /\ pool'.tasks = pool.tasks
          /\ pool'.pending = pool.pending /\ pool'.queue = pool.queue
      BY <1>1, <1>4, <1>6 DEF PoolType
    <2>4. /\ tstate' \in [Tasks -> TaskStates] /\ tstate'[t] = "closing"
          /\ \A u \in Tasks : u # t => tstate'[u] = tstate[u]
          /\ DifferAt(Tasks, t, tstate, tstate')
      BY <1>2, <1>4, <1>6, ConstantsAssumption DEF TaskStates, Counted, DifferAt
    <2>5. TasksCounted(pool', tstate')
      <3>1. /\ pool'.pending = Len(pool'.queue)
            /\ pool'.tasks = pool.tasks + Weight(tstate'[t], Counted)
                                        - Weight(tstate[t], Counted)
        BY <1>2, <1>3, <1>4, <2>3, <2>4 DEF TasksCounted, PoolType, Weight, Counted
      <3> QED
        BY <1>3, <1>4, <2>3, <2>4, <3>1, TaskMoved
    <2>6. Held(wpc', wtask, tstate')
      <3>1. Held(wpc', wtask, tstate)
        BY <1>3, <1>4, <2>1, SameHeld
      <3> QED
        BY <3>1, <1>2, <2>4 DEF Held
    <2>7. Queued(pool'.queue, local.queue, tstate')
      BY <1>2, <1>3, <2>3, <2>4 DEF Queued
    <2>8. Phases(pool', wpc', tstate', owner, local)
      <3>1. \A w \in Workers : wpc'[w] \notin Busy
        BY <1>3, <1>6, <2>1 DEF Phases
      <3>2. pool.size = 0 => \A w \in Workers : wpc'[w] \notin Live
        <4>1. ASSUME pool.size = 0
              PROVE  n = 0
          <5>1. \A w \in Workers : wpc[w] \notin Live
            BY <1>3, <1>6, <4>1 DEF Phases
          <5>2. pool.threads = 0
            BY <1>4, <5>1, CountZero, ConstantsAssumption DEF IInv, Good, WorkersCounted
          <5> QED
            BY <2>1, <4>1, <5>2
        <4> QED
          BY <1>3, <1>6, <2>1, <4>1 DEF Phases, Same
      <3> QED
        BY <1>3, <1>4, <1>6, <2>3, <3>1, <3>2 DEF Phases
    <2>9. Destruction(pool', tstate', owner, local, freed)
      BY <1>2, <1>3, <2>3, <2>4 DEF Destruction, Counted
    <2>10. Types(pool', wpc', wtask, tstate', owner, local, freed)
      BY <1>3, <2>1, <2>3, <2>4 DEF Types
    <2>11. Good(pool', wpc', wtask, tstate', owner, local, freed)
      BY <2>2, <2>5, <2>6, <2>7, <2>8, <2>9, <2>10 DEF Good
    <2> QED
      BY <1>2, <1>3, <2>1, <2>11 DEF IInv, Joined
  <1> QED
    BY <1>5, <1>6

-----------------------------------------------------------------------------
(* Tasks that are closed, and the destruction of the pool. *)

(* The collection of a channel with a suspended task keeps the invariant. *)
LEMMA DiscardTaskInv ==
  ASSUME IInv, NEW t \in Tasks, DiscardTask(t)
  PROVE  IInv'
  <1>1. /\ tstate[t] = "susp" /\ tstate' = [tstate EXCEPT ![t] = "closing"]
        /\ UNCHANGED <<pool, last_terminated, wpc, wtask, owner, local, freed>>
    BY DEF DiscardTask
  <1>2. /\ Types(pool, wpc, wtask, tstate, owner, local, freed)
        /\ WorkersCounted(pool, wpc)
        /\ TasksCounted(pool, tstate) /\ Held(wpc, wtask, tstate)
        /\ Queued(pool.queue, local.queue, tstate)
        /\ Phases(pool, wpc, tstate, owner, local)
        /\ Destruction(pool, tstate, owner, local, freed)
    BY DEF IInv, Good
  <1>3. pool \in PoolType /\ tstate \in [Tasks -> TaskStates]
    BY <1>2 DEF Types
  <1>4. /\ tstate' \in [Tasks -> TaskStates] /\ tstate'[t] = "closing"
        /\ \A u \in Tasks : u # t => tstate'[u] = tstate[u]
        /\ DifferAt(Tasks, t, tstate, tstate')
    BY <1>1, <1>3, ConstantsAssumption DEF TaskStates, Counted, DifferAt
  <1>5. TasksCounted(pool, tstate')
    <2>1. /\ pool.pending = Len(pool.queue)
          /\ pool.tasks = pool.tasks + Weight(tstate'[t], Counted)
                                     - Weight(tstate[t], Counted)
      BY <1>1, <1>2, <1>3, <1>4 DEF TasksCounted, PoolType, Weight, Counted
    <2> QED
      BY <1>2, <1>3, <1>4, <2>1, TaskMoved
  <1>6. Held(wpc, wtask, tstate')
    BY <1>1, <1>2, <1>4 DEF Held
  <1>7. Queued(pool.queue, local.queue, tstate')
    BY <1>1, <1>2, <1>4 DEF Queued
  <1>8. Phases(pool, wpc, tstate', owner, local)
    BY <1>1, <1>2 DEF Phases
  <1>9. Destruction(pool, tstate', owner, local, freed)
    BY <1>1, <1>2, <1>4 DEF Destruction, Counted
  <1>10. Types(pool, wpc, wtask, tstate', owner, local, freed)
    BY <1>2, <1>4 DEF Types
  <1>11. Good(pool, wpc, wtask, tstate', owner, local, freed)
    BY <1>2, <1>5, <1>6, <1>7, <1>8, <1>9, <1>10 DEF Good
  <1> QED
    BY <1>1, <1>11 DEF IInv

(* collectthreadpool destroys the pool after its last task, and only then. *)
LEMMA CollectedGood ==
  ASSUME IInv, NEW t \in Tasks, tstate[t] \in {"closing", "pending"}, Collected(t)
  PROVE  /\ pool' \in PoolType /\ pool'.status = pool.status
         /\ pool'.size = pool.size /\ pool'.queue = pool.queue
         /\ WorkersCounted(pool', wpc)
         /\ tstate' \in [Tasks -> TaskStates] /\ tstate'[t] \in {"dead", "destroy"}
         /\ \A u \in Tasks : u # t => tstate'[u] = tstate[u]
         /\ TasksCounted(pool', tstate')
         /\ Held(wpc, wtask, tstate')
         /\ Destruction(pool', tstate', owner, local, freed)
  <1>1. /\ Types(pool, wpc, wtask, tstate, owner, local, freed)
        /\ WorkersCounted(pool, wpc)
        /\ TasksCounted(pool, tstate) /\ Held(wpc, wtask, tstate)
        /\ Destruction(pool, tstate, owner, local, freed)
    BY DEF IInv, Good
  <1>2. pool \in PoolType /\ tstate \in [Tasks -> TaskStates]
    BY <1>1 DEF Types
  <1>3. /\ pool' \in PoolType /\ pool'.status = pool.status
        /\ pool'.size = pool.size /\ pool'.queue = pool.queue
        /\ pool'.tasks = pool.tasks - 1 /\ pool'.pending = pool.pending
        /\ pool'.threads = pool.threads /\ pool'.idle = pool.idle
        /\ pool'.running = pool.running
    BY <1>2 DEF Collected, PoolType
  <1>4. /\ tstate' \in [Tasks -> TaskStates]
        /\ tstate'[t] = IF pool.status = "CLOSED" /\ pool.tasks - 1 = 0
                        THEN "destroy" ELSE "dead"
        /\ \A u \in Tasks : u # t => tstate'[u] = tstate[u]
    BY <1>2 DEF Collected, TaskStates
  <1>5. DifferAt(Tasks, t, tstate, tstate')
    BY <1>2, <1>4, ConstantsAssumption DEF DifferAt
  <1>6. TasksCounted(pool', tstate')
    <2>1. /\ pool'.pending = Len(pool'.queue)
          /\ pool'.tasks = pool.tasks + Weight(tstate'[t], Counted)
                                      - Weight(tstate[t], Counted)
      BY <1>1, <1>2, <1>3, <1>4 DEF TasksCounted, PoolType, Weight, Counted
    <2> QED
      BY <1>1, <1>2, <1>3, <1>5, <2>1, TaskMoved
  <1>7. Held(wpc, wtask, tstate')
    BY <1>1, <1>4 DEF Held
  <1>8. WorkersCounted(pool', wpc)
    BY <1>1, <1>3 DEF WorkersCounted
  <1>9. Destruction(pool', tstate', owner, local, freed)
    <2>1. /\ ~freed /\ owner # "destroy" /\ ~(owner = "closed" /\ local.tasks = 0)
          /\ \A u \in Tasks : tstate[u] # "destroy"
      BY <1>1 DEF Destruction, Counted
    <2>2. ASSUME tstate'[t] = "destroy"
          PROVE  pool'.status = "CLOSED" /\ \A u \in Tasks : tstate'[u] \notin Counted
      <3>1. pool.status = "CLOSED" /\ pool'.tasks = 0
        BY <1>3, <1>4, <2>2
      <3>2. Cardinality(In(tstate', Counted)) = 0
        BY <1>6, <3>1 DEF TasksCounted
      <3> QED
        BY <1>3, <1>4, <3>1, <3>2, CountZero, ConstantsAssumption
    <2> QED
      BY <1>4, <2>1, <2>2 DEF Destruction
  <1> QED
    BY <1>3, <1>4, <1>6, <1>7, <1>8, <1>9

(* collectthreadpool keeps the invariant. *)
LEMMA CollectTaskInv ==
  ASSUME IInv, NEW t \in Tasks, CollectTask(t)
  PROVE  IInv'
  <1>1. /\ tstate[t] = "closing" /\ Collected(t)
        /\ UNCHANGED <<last_terminated, wpc, wtask, owner, local, freed>>
    BY DEF CollectTask
  <1>2. /\ pool' \in PoolType /\ pool'.status = pool.status
        /\ pool'.size = pool.size /\ pool'.queue = pool.queue
        /\ WorkersCounted(pool', wpc)
        /\ tstate' \in [Tasks -> TaskStates] /\ tstate'[t] \in {"dead", "destroy"}
        /\ \A u \in Tasks : u # t => tstate'[u] = tstate[u]
        /\ TasksCounted(pool', tstate')
        /\ Held(wpc, wtask, tstate')
        /\ Destruction(pool', tstate', owner, local, freed)
    BY <1>1, CollectedGood
  <1>3. /\ Types(pool, wpc, wtask, tstate, owner, local, freed)
        /\ Queued(pool.queue, local.queue, tstate)
        /\ Phases(pool, wpc, tstate, owner, local)
    BY DEF IInv, Good
  <1>4. Queued(pool'.queue, local.queue, tstate')
    BY <1>1, <1>2, <1>3 DEF Queued
  <1>5. Phases(pool', wpc, tstate', owner, local)
    BY <1>1, <1>2, <1>3 DEF Phases
  <1>6. Types(pool', wpc, wtask, tstate', owner, local, freed)
    BY <1>2, <1>3 DEF Types
  <1>7. Good(pool', wpc, wtask, tstate', owner, local, freed)
    BY <1>2, <1>4, <1>5, <1>6 DEF Good
  <1> QED
    BY <1>1, <1>7 DEF IInv

(* The thread that ended last is joined when the pool is destroyed. *)
LEMMA DestroyedSame ==
  ASSUME IInv, Destroyed
  PROVE  Same(wpc, wpc') /\ Joined(wpc', last_terminated', freed')
  <1>1. /\ wpc \in [Workers -> WorkerStates] /\ Joined(wpc, last_terminated, freed)
        /\ NoThread \notin Workers
    BY ConstantsAssumption DEF IInv, Good, Types
  <1>2. /\ freed' = TRUE /\ last_terminated' = NoThread
        /\ wpc' = IF last_terminated = NoThread THEN wpc
                  ELSE [wpc EXCEPT ![last_terminated] = "none"]
    BY DEF Destroyed
  <1>3. /\ wpc' \in [Workers -> WorkerStates]
        /\ \A w \in Workers : \/ wpc'[w] = wpc[w] /\ wpc[w] # "ended"
                              \/ wpc'[w] = "none" /\ wpc[w] = "ended"
    BY <1>1, <1>2 DEF Joined, WorkerStates
  <1>4. Same(wpc, wpc')
    BY <1>3 DEF Same, Live, Idle, Busy
  <1>5. Joined(wpc', last_terminated', freed')
    BY <1>1, <1>2, <1>3 DEF Joined
  <1> QED
    BY <1>4, <1>5

(* The destruction of the pool by its last task keeps the invariant. *)
LEMMA DestroyByTaskInv ==
  ASSUME IInv, NEW t \in Tasks, DestroyByTask(t)
  PROVE  IInv'
  <1>1. /\ tstate[t] = "destroy" /\ tstate' = [tstate EXCEPT ![t] = "dead"]
        /\ UNCHANGED <<pool, wtask, owner, local>> /\ freed' = TRUE
    BY DEF DestroyByTask, Destroyed
  <1>2. Same(wpc, wpc') /\ Joined(wpc', last_terminated', freed')
    BY DestroyedSame DEF DestroyByTask
  <1>3. /\ Types(pool, wpc, wtask, tstate, owner, local, freed)
        /\ TasksCounted(pool, tstate) /\ Held(wpc, wtask, tstate)
        /\ Queued(pool.queue, local.queue, tstate)
        /\ Phases(pool, wpc, tstate, owner, local)
        /\ Destruction(pool, tstate, owner, local, freed)
    BY DEF IInv, Good
  <1>4. owner # "new"
    BY <1>1, <1>3 DEF Phases
  <1>5. Good(pool, wpc', wtask, tstate, owner, local, freed)
    BY <1>2, <1>4, SameGood DEF IInv
  <1>6. pool \in PoolType /\ tstate \in [Tasks -> TaskStates]
    BY <1>3 DEF Types
  <1>7. /\ tstate' \in [Tasks -> TaskStates] /\ tstate'[t] = "dead"
        /\ \A u \in Tasks : u # t => tstate'[u] = tstate[u]
        /\ DifferAt(Tasks, t, tstate, tstate')
    BY <1>1, <1>6, ConstantsAssumption DEF TaskStates, DifferAt
  <1>8. TasksCounted(pool, tstate')
    <2>1. /\ pool.pending = Len(pool.queue)
          /\ pool.tasks = pool.tasks + Weight(tstate'[t], Counted)
                                     - Weight(tstate[t], Counted)
      BY <1>1, <1>3, <1>6, <1>7 DEF TasksCounted, PoolType, Weight, Counted
    <2> QED
      BY <1>3, <1>6, <1>7, <2>1, TaskMoved
  <1>9. Held(wpc', wtask, tstate')
    BY <1>1, <1>5, <1>7 DEF Good, Held
  <1>10. Queued(pool.queue, local.queue, tstate')
    BY <1>1, <1>3, <1>7 DEF Queued
  <1>11. Phases(pool, wpc', tstate', owner, local)
    BY <1>4, <1>5 DEF Good, Phases
  <1>12. Destruction(pool, tstate', owner, local, freed')
    BY <1>1, <1>3, <1>7 DEF Destruction, Counted
  <1>13. Types(pool, wpc', wtask, tstate', owner, local, freed')
    BY <1>1, <1>5, <1>7 DEF Good, Types
  <1>14. Good(pool, wpc', wtask, tstate', owner, local, freed')
    BY <1>5, <1>8, <1>9, <1>10, <1>11, <1>12, <1>13 DEF Good
  <1> QED
    BY <1>1, <1>2, <1>14 DEF IInv

(* The destruction of the pool by its owner keeps the invariant. *)
LEMMA DestroyByOwnerInv ==
  ASSUME IInv, DestroyByOwner
  PROVE  IInv'
  <1>1. /\ owner = "destroy" /\ owner' = "gone" /\ freed' = TRUE
        /\ UNCHANGED <<pool, wtask, tstate, local>>
    BY DEF DestroyByOwner, Destroyed
  <1>2. Same(wpc, wpc') /\ Joined(wpc', last_terminated', freed')
    BY DestroyedSame DEF DestroyByOwner
  <1>3. Good(pool, wpc', wtask, tstate, owner, local, freed)
    BY <1>1, <1>2, SameGood DEF IInv
  <1>4. Good(pool, wpc', wtask, tstate, owner', local, freed')
    <2>1. Types(pool, wpc', wtask, tstate, owner', local, freed')
      BY <1>1, <1>3 DEF Good, Types, OwnerStates
    <2>2. Phases(pool, wpc', tstate, owner', local)
      BY <1>1, <1>3 DEF Good, Phases
    <2>3. Destruction(pool, tstate, owner', local, freed')
      BY <1>1, <1>3 DEF Good, Destruction
    <2> QED
      BY <1>3, <2>1, <2>2, <2>3 DEF Good
  <1> QED
    BY <1>1, <1>2, <1>4 DEF IInv

-----------------------------------------------------------------------------
(* Steps of lcuTP_closetpool. *)

(* Waiting for the threads, or taking their queue, keeps the invariant. *)
LEMMA AwaitThreadsInv ==
  ASSUME IInv, owner \in {"open", "failed", "termwake"},
         NEW p, p = [pool EXCEPT !.status = "CLOSING"], AwaitThreads(p),
         UNCHANGED <<last_terminated, wtask, tstate, freed>>
  PROVE  IInv'
  <1>1. /\ Types(pool, wpc, wtask, tstate, owner, local, freed)
        /\ WorkersCounted(pool, wpc)
        /\ TasksCounted(pool, tstate) /\ Held(wpc, wtask, tstate)
        /\ Queued(pool.queue, local.queue, tstate)
        /\ Phases(pool, wpc, tstate, owner, local)
        /\ Destruction(pool, tstate, owner, local, freed)
        /\ Joined(wpc, last_terminated, freed)
        /\ Good(pool, wpc, wtask, tstate, owner, local, freed)
    BY DEF IInv, Good
  <1>2. /\ pool \in PoolType /\ wpc \in [Workers -> WorkerStates]
        /\ tstate \in [Tasks -> TaskStates] /\ pool.queue \in Seq(Tasks)
        /\ pool.status # "CLOSED" /\ local.queue = <<>>
    BY <1>1 DEF Types, PoolType, Phases
  <1>3. /\ p \in PoolType /\ p.status = "CLOSING" /\ p.size = pool.size
        /\ p.threads = pool.threads /\ p.idle = pool.idle
        /\ p.running = pool.running /\ p.tasks = pool.tasks
        /\ p.pending = pool.pending /\ p.queue = pool.queue
    BY <1>2 DEF PoolType
  <1>4. CASE /\ pool' = CheckHalted(p) /\ wpc' = WakeHalted(p, wpc)
             /\ owner' = "termwait" /\ UNCHANGED local
    <2>1. Same(wpc, wpc') /\ \A w \in Workers : wpc'[w] = "ended" <=> wpc[w] = "ended"
      BY <1>2, <1>4, WakeEnded DEF WakeHalted
    <2>2. /\ pool' \in PoolType /\ pool'.status = "CLOSING"
          /\ pool'.threads = pool.threads /\ pool'.idle = pool.idle
          /\ pool'.running = pool.running /\ pool'.tasks = pool.tasks
          /\ pool'.pending = pool.pending /\ pool'.queue = pool.queue
      BY <1>3, <1>4 DEF CheckHalted, PoolType
    <2>3. WorkersCounted(pool', wpc')
      <3>1. WorkersCounted(pool, wpc')
        BY <1>1, <1>2, <2>1, SameCounts
      <3> QED
        BY <2>2, <3>1 DEF WorkersCounted
    <2>4. /\ wpc' \in [Workers -> WorkerStates]
          /\ \A w \in Workers : wpc[w] \in Busy \/ wpc'[w] \in Busy => wpc'[w] = wpc[w]
          /\ owner' \in {"termwait", "termwake"}
      BY <1>4, <2>1 DEF Same
    <2>5. Good(pool', wpc', wtask, tstate, owner', local, freed)
      BY <1>1, <1>2, <2>2, <2>3, <2>4, ThreadsChanged
    <2> QED
      BY <1>1, <1>4, <2>1, <2>5 DEF IInv, Joined
  <1>5. CASE /\ p.threads <= 0
             /\ local' = [tasks |-> p.tasks, queue |-> p.queue]
             /\ pool' = [p EXCEPT !.pending = 0, !.queue = <<>>, !.status = "CLOSED"]
             /\ owner' = "closed" /\ UNCHANGED wpc
    <2>1. pool' = Pool("CLOSED", pool.size, pool.threads, pool.idle, pool.tasks,
                       pool.running, 0, <<>>)
      BY <1>3, <1>5 DEF PoolType, Pool
    <2>2. /\ pool' \in PoolType /\ pool'.status = "CLOSED"
          /\ pool'.size = pool.size /\ pool'.threads = pool.threads
          /\ pool'.idle = pool.idle /\ pool'.running = pool.running
          /\ pool'.tasks = pool.tasks /\ pool'.pending = 0 /\ pool'.queue = <<>>
      <3>1. pool' \in PoolType
        BY <1>2, <2>1, EmptyElements DEF PoolType, Pool
      <3> QED
        BY <2>1, <3>1 DEF Pool
    <2>3. /\ local' \in [tasks: Int, queue: Seq(Tasks)]
          /\ local'.tasks = pool.tasks /\ local'.queue = pool.queue
      BY <1>2, <1>3, <1>5 DEF PoolType
    <2>4. \A w \in Workers : wpc[w] \notin Live
      <3>1. Cardinality(In(wpc, Live)) \in Nat
        BY <1>2, InFinite, ConstantsAssumption
      <3>2. Cardinality(In(wpc, Live)) = 0
        BY <1>1, <1>3, <1>5, <3>1 DEF WorkersCounted
      <3> QED
        BY <1>2, <3>2, CountZero, ConstantsAssumption
    <2>5. WorkersCounted(pool', wpc)
      BY <1>1, <2>2 DEF WorkersCounted
    <2>6. TasksCounted(pool', tstate)
      BY <1>1, <2>2, EmptyElements DEF TasksCounted
    <2>7. Queued(pool'.queue, local'.queue, tstate)
      BY <1>1, <1>2, <2>2, <2>3, EmptyElements DEF Queued
    <2>8. Phases(pool', wpc, tstate, owner', local')
      BY <1>5, <2>2, <2>4 DEF Phases, Live
    <2>9. Destruction(pool', tstate, owner', local', freed)
      <3>1. ~freed /\ \A t \in Tasks : tstate[t] # "destroy"
        BY <1>1, <1>2 DEF Destruction
      <3>2. ASSUME local'.tasks = 0
            PROVE  \A t \in Tasks : tstate[t] \notin Counted
        <4>1. Cardinality(In(tstate, Counted)) = 0
          BY <1>1, <2>3, <3>2 DEF TasksCounted
        <4> QED
          BY <1>2, <4>1, CountZero, ConstantsAssumption
      <3> QED
        BY <1>5, <2>2, <3>1, <3>2 DEF Destruction
    <2>10. Types(pool', wpc, wtask, tstate, owner', local', freed)
      BY <1>1, <1>5, <2>2, <2>3 DEF Types, OwnerStates
    <2>11. Good(pool', wpc, wtask, tstate, owner', local', freed)
      BY <1>1, <2>5, <2>6, <2>7, <2>8, <2>9, <2>10 DEF Good
    <2> QED
      BY <1>1, <1>5, <2>11 DEF IInv
  <1> QED
    BY <1>4, <1>5 DEF AwaitThreads

(* The first and the later rounds of the wait keep the invariant. *)
LEMMA CloseInv ==
  ASSUME IInv, Close \/ CloseWoken
  PROVE  IInv'
  <1>1. CASE Close
    BY <1>1, AwaitThreadsInv DEF Close
  <1>2. CASE CloseWoken
    <2>1. owner = "termwake" /\ AwaitThreads(pool)
          /\ UNCHANGED <<last_terminated, wtask, tstate, freed>>
      BY <1>2 DEF CloseWoken
    <2>2. pool \in PoolType /\ pool.status = "CLOSING"
      BY <2>1 DEF IInv, Good, Types, Phases
    <2>3. pool = [pool EXCEPT !.status = "CLOSING"]
      BY <2>2 DEF PoolType
    <2> QED
      BY <2>1, <2>3, AwaitThreadsInv
  <1> QED
    BY <1>1, <1>2

(* lcuTP_closetpool after it unlocks the mutex keeps the invariant. *)
LEMMA CloseEndInv ==
  ASSUME IInv, CloseEnd
  PROVE  IInv'
  <1>1. /\ owner = "closed"
        /\ owner' = IF local.tasks = 0 THEN "destroy"
                    ELSE IF local.queue # <<>> THEN "drain" ELSE "gone"
        /\ UNCHANGED <<pool, last_terminated, wpc, wtask, tstate, local, freed>>
    BY DEF CloseEnd
  <1>2. /\ Good(pool, wpc, wtask, tstate, owner, local, freed)
        /\ Types(pool, wpc, wtask, tstate, owner, local, freed)
        /\ TasksCounted(pool, tstate) /\ Queued(pool.queue, local.queue, tstate)
        /\ Phases(pool, wpc, tstate, owner, local)
        /\ Destruction(pool, tstate, owner, local, freed)
    BY DEF IInv, Good
  <1>3. local.tasks = 0 => local.queue = <<>>
    <2>1. ASSUME local.queue # <<>>, local.tasks = 0
          PROVE  FALSE
      <3>1. local.queue \in Seq(Tasks)
        BY <1>2 DEF Types
      <3>2. Head(local.queue) \in Elements(local.queue) /\ Head(local.queue) \in Tasks
        BY <2>1, <3>1, TailElements
      <3>3. tstate[Head(local.queue)] = "pending"
        BY <1>2, <3>2 DEF Queued
      <3> QED
        BY <1>1, <1>2, <2>1, <3>2, <3>3 DEF Destruction, Counted
    <2> QED
      BY <2>1
  <1>4. Types(pool, wpc, wtask, tstate, owner', local, freed)
    BY <1>1, <1>2 DEF Types, OwnerStates
  <1>5. Phases(pool, wpc, tstate, owner', local)
    BY <1>1, <1>2, <1>3 DEF Phases
  <1>6. Destruction(pool, tstate, owner', local, freed)
    BY <1>1, <1>2 DEF Destruction
  <1>7. Good(pool, wpc, wtask, tstate, owner', local, freed)
    BY <1>2, <1>4, <1>5, <1>6 DEF Good
  <1> QED
    BY <1>1, <1>7 DEF IInv

(* Closing a task left in the queue keeps the invariant. *)
LEMMA DrainInv ==
  ASSUME IInv, Drain
  PROVE  IInv'
  <1> DEFINE t == Head(local.queue)
  <1>1. /\ owner = "drain" /\ Collected(t)
        /\ local' = [local EXCEPT !.queue = Tail(@)]
        /\ owner' = IF Len(local.queue) = 1 THEN "gone" ELSE "drain"
        /\ UNCHANGED <<last_terminated, wpc, wtask, freed>>
    BY DEF Drain
  <1>2. /\ Types(pool, wpc, wtask, tstate, owner, local, freed)
        /\ Queued(pool.queue, local.queue, tstate)
        /\ Phases(pool, wpc, tstate, owner, local)
    BY DEF IInv, Good
  <1>3. /\ local \in [tasks: Int, queue: Seq(Tasks)] /\ local.queue \in Seq(Tasks)
        /\ local.queue # <<>> /\ pool.queue = <<>>
    BY <1>1, <1>2 DEF Types, Phases, Queued
  <1>4. /\ Tail(local.queue) \in Seq(Tasks) /\ t \in Tasks
        /\ Len(Tail(local.queue)) = Len(local.queue) - 1
        /\ t \in Elements(local.queue) /\ Distinct(Tail(local.queue))
        /\ Elements(Tail(local.queue)) = Elements(local.queue) \ {t}
    BY <1>2, <1>3, TailElements DEF Queued
  <1>5. tstate[t] = "pending"
    BY <1>2, <1>4 DEF Queued
  <1>6. /\ pool' \in PoolType /\ pool'.status = pool.status
        /\ pool'.size = pool.size /\ pool'.queue = pool.queue
        /\ WorkersCounted(pool', wpc)
        /\ tstate' \in [Tasks -> TaskStates] /\ tstate'[t] \in {"dead", "destroy"}
        /\ \A u \in Tasks : u # t => tstate'[u] = tstate[u]
        /\ TasksCounted(pool', tstate')
        /\ Held(wpc, wtask, tstate')
        /\ Destruction(pool', tstate', owner, local, freed)
    BY <1>1, <1>4, <1>5, CollectedGood
  <1>7. /\ local' \in [tasks: Int, queue: Seq(Tasks)]
        /\ local'.queue = Tail(local.queue)
    BY <1>1, <1>3, <1>4
  <1>8. Queued(pool'.queue, local'.queue, tstate')
    BY <1>2, <1>3, <1>4, <1>6, <1>7, EmptyElements DEF Queued
  <1>9. Phases(pool', wpc, tstate', owner', local')
    <2>1. Len(local.queue) \in Nat /\ Len(local.queue) > 0
      BY <1>3
    <2>2. owner' = "gone" => local'.queue = <<>>
      BY <1>1, <1>3, <1>4, <1>7, <2>1
    <2>3. owner' = "drain" => local'.queue # <<>>
      <3>1. ASSUME local'.queue = <<>>
            PROVE  Len(local.queue) = 1
        <4>1. Len(Tail(local.queue)) = 0
          BY <1>7, <3>1, EmptyElements, Zenon
        <4> QED
          BY <1>4, <2>1, <4>1
      <3> QED
        BY <1>1, <3>1
    <2> QED
      BY <1>1, <1>2, <1>6, <2>2, <2>3 DEF Phases
  <1>10. Destruction(pool', tstate', owner', local', freed)
    BY <1>1, <1>6 DEF Destruction
  <1>11. Types(pool', wpc, wtask, tstate', owner', local', freed)
    BY <1>1, <1>2, <1>6, <1>7 DEF Types, OwnerStates
  <1>12. Good(pool', wpc, wtask, tstate', owner', local', freed)
    BY <1>6, <1>8, <1>9, <1>10, <1>11 DEF Good
  <1> QED
    BY <1>1, <1>12 DEF IInv

(* A spurious wakeup keeps the invariant. *)
LEMMA SpuriousWakeupInv ==
  ASSUME IInv, SpuriousWakeup
  PROVE  IInv'
  <1>1. UNCHANGED <<pool, last_terminated, wtask, tstate, local, freed>>
    BY DEF SpuriousWakeup
  <1>2. CASE \E w \in Workers : /\ wpc[w] = "wait" /\ UNCHANGED owner
                                /\ wpc' = [wpc EXCEPT ![w] = "wake"]
    <2>1. wpc \in [Workers -> WorkerStates] /\ owner # "new"
      BY <1>2 DEF IInv, Good, Types, Phases
    <2>2. wpc' \in Signal(wpc)
      BY <1>2, <2>1 DEF Signal, In
    <2>3. Same(wpc, wpc') /\ \A w \in Workers : wpc'[w] = "ended" <=> wpc[w] = "ended"
      BY <2>1, <2>2, WakeEnded
    <2>4. Good(pool, wpc', wtask, tstate, owner, local, freed)
      BY <2>1, <2>3, SameGood DEF IInv
    <2> QED
      BY <1>1, <1>2, <2>3, <2>4 DEF IInv, Joined
  <1>3. CASE owner = "termwait" /\ owner' = "termwake" /\ UNCHANGED wpc
    <2>1. Good(pool, wpc, wtask, tstate, "termwait", local, freed)
      BY <1>3 DEF IInv
    <2>2. Good(pool, wpc, wtask, tstate, "termwake", local, freed)
      BY <2>1, WokenGood
    <2> QED
      BY <1>1, <1>3, <2>2 DEF IInv
  <1> QED
    BY <1>2, <1>3 DEF SpuriousWakeup

-----------------------------------------------------------------------------
(* The inductive invariant holds of every behavior of the pool. *)

(* A pool that was not created yet satisfies the invariant. *)
LEMMA InitInv ==
  Init => IInv
  <1> SUFFICES ASSUME Init PROVE IInv
    OBVIOUS
  <1> USE ConstantsAssumption
  <1>1. /\ pool.status = "OPEN" /\ pool.size = 0 /\ pool.threads = 0
        /\ pool.idle = 0 /\ pool.tasks = 0 /\ pool.running = 0
        /\ pool.pending = 0 /\ pool.queue = <<>> /\ pool \in PoolType
    BY EmptyElements DEF Init, PoolType
  <1>2. /\ wpc \in [Workers -> WorkerStates] /\ \A w \in Workers : wpc[w] = "none"
        /\ tstate \in [Tasks -> TaskStates] /\ \A t \in Tasks : tstate[t] = "new"
        /\ wtask \in [Workers -> Tasks \cup {NoTask}]
        /\ local \in [tasks: Int, queue: Seq(Tasks)] /\ local.queue = <<>>
        /\ owner = "new" /\ freed = FALSE /\ last_terminated = NoThread
    BY EmptyElements DEF Init, WorkerStates, TaskStates
  <1>3. WorkersCounted(pool, wpc)
    <2>1. /\ Cardinality(In(wpc, Live)) = 0
          /\ Cardinality(In(wpc, Idle)) = 0
          /\ Cardinality(In(wpc, Busy)) = 0
      <3>1. \A w \in Workers : wpc[w] \notin Live /\ wpc[w] \notin Idle /\ wpc[w] \notin Busy
        BY <1>2 DEF Live, Idle, Busy
      <3> QED
        BY <1>2, <3>1, CountZero
    <2> QED
      BY <1>1, <2>1 DEF WorkersCounted
  <1>4. TasksCounted(pool, tstate)
    <2>1. \A t \in Tasks : tstate[t] \notin Counted
      BY <1>2 DEF Counted
    <2>2. Cardinality(In(tstate, Counted)) = 0
      BY <1>2, <2>1, CountZero
    <2> QED
      BY <1>1, <2>2, EmptyElements DEF TasksCounted
  <1>5. Held(wpc, wtask, tstate)
    BY <1>2 DEF Held, Holding
  <1>6. Queued(pool.queue, local.queue, tstate)
    BY <1>1, <1>2, EmptyElements DEF Queued
  <1>7. Phases(pool, wpc, tstate, owner, local)
    BY <1>1, <1>2 DEF Phases
  <1>8. Destruction(pool, tstate, owner, local, freed)
    BY <1>2 DEF Destruction
  <1>9. Types(pool, wpc, wtask, tstate, owner, local, freed)
    BY <1>1, <1>2 DEF Types, OwnerStates
  <1>10. Joined(wpc, last_terminated, freed)
    BY <1>2 DEF Joined
  <1> QED
    BY <1>3, <1>4, <1>5, <1>6, <1>7, <1>8, <1>9, <1>10 DEF IInv, Good

(* Every step keeps the invariant. *)
LEMMA NextInv ==
  IInv /\ [Next]_vars => IInv'
  <1> SUFFICES ASSUME IInv, [Next]_vars PROVE IInv'
    OBVIOUS
  <1>1. CASE UNCHANGED vars
    BY <1>1 DEF vars, IInv, Good, Types, WorkersCounted, TasksCounted, Held, Queued,
                Phases, Destruction, Joined
  <1>2. CASE \E n \in Sizes : Create(n)
    BY <1>2, CreateInv
  <1>3. CASE \E t \in Tasks : AddTask(t)
    BY <1>3, AddTaskInv
  <1>4. CASE Resizing
    BY <1>4, ResizeInv DEF Resizing
  <1>5. CASE \E t \in Tasks : ResumeTask(t)
    BY <1>5, ResumeTaskInv
  <1>6. CASE \E t \in Tasks : DiscardTask(t)
    BY <1>6, DiscardTaskInv
  <1>7. CASE \E t \in Tasks : CollectStep(t)
    BY <1>7, CollectTaskInv, DestroyByTaskInv DEF CollectStep
  <1>8. CASE Close
    BY <1>8, CloseInv
  <1>9. CASE OwnerStep
    BY <1>9, CloseInv, CloseEndInv, DrainInv, DestroyByOwnerInv DEF OwnerStep
  <1>10. CASE \E w \in Workers : WorkerStep(w)
    BY <1>10, TakeTaskInv, WaitForWorkInv, EndThreadInv, YieldInv DEF WorkerStep
  <1>11. CASE \E w \in Workers : TaskStep(w)
    BY <1>11, YieldInv, SuspendInv DEF TaskStep
  <1>12. CASE SpuriousWakeup
    BY <1>12, SpuriousWakeupInv
  <1> QED
    BY <1>1, <1>2, <1>3, <1>4, <1>5, <1>6, <1>7, <1>8, <1>9, <1>10, <1>11, <1>12
    DEF Next

(* What is counted, held and queued in a pool is always consistent with    *)
(* where its threads, its tasks and its owner are.                         *)
THEOREM Invariance ==
  Spec => []IInv
  BY InitInv, NextInv, PTL DEF Spec

(* The fields of the pool keep their types; no counter is ever negative.   *)
THEOREM TypeCorrect ==
  Spec => []TypeOK
  <1>1. IInv => TypeOK
    <2> SUFFICES ASSUME IInv PROVE TypeOK
      OBVIOUS
    <2>1. /\ Types(pool, wpc, wtask, tstate, owner, local, freed)
          /\ WorkersCounted(pool, wpc) /\ TasksCounted(pool, tstate)
          /\ Joined(wpc, last_terminated, freed)
      BY DEF IInv, Good
    <2>2. DOMAIN wpc = Workers /\ DOMAIN tstate = Tasks /\ pool.queue \in Seq(Tasks)
      BY <2>1 DEF Types, PoolType
    <2>3. /\ Cardinality(In(wpc, Live)) \in Nat
          /\ Cardinality(In(wpc, Idle)) \in Nat
          /\ Cardinality(In(wpc, Busy)) \in Nat
          /\ Cardinality(In(tstate, Counted)) \in Nat
      BY <2>2, InFinite, ConstantsAssumption
    <2>4. Len(pool.queue) \in Nat
      BY <2>2
    <2>5. /\ pool.threads \in Nat /\ pool.idle \in Nat /\ pool.running \in Nat
          /\ pool.pending \in Nat /\ pool.tasks \in Nat
      BY <2>1, <2>3, <2>4 DEF WorkersCounted, TasksCounted
    <2>6. {pool.threads, pool.idle, pool.tasks, pool.running, pool.pending}
            \subseteq Nat
      BY <2>5
    <2> QED
      BY <2>1, <2>6 DEF TypeOK, Types, Joined
  <1> QED
    BY <1>1, Invariance, PTL

(* The counters that addthread_mx, thread_end and closetpool decide upon   *)
(* are always exact.                                                       *)
THEOREM CountersAreExact ==
  Spec => []CountersExact
  <1>1. IInv => CountersExact
    BY DEF IInv, Good, WorkersCounted, TasksCounted, CountersExact
  <1> QED
    BY <1>1, Invariance, PTL

(* No task is run by two threads, or both run and pending, or pending twice. *)
THEOREM TasksInOnePlace ==
  Spec => []OnePlace
  <1>1. IInv => OnePlace
    <2> SUFFICES ASSUME IInv PROVE OnePlace
      OBVIOUS
    <2>1. /\ Types(pool, wpc, wtask, tstate, owner, local, freed)
          /\ Held(wpc, wtask, tstate)
          /\ Queued(pool.queue, local.queue, tstate)
      BY DEF IInv, Good
    <2>2. /\ DOMAIN wpc = Workers /\ DOMAIN tstate = Tasks
          /\ pool.queue \in Seq(Tasks) /\ local.queue \in Seq(Tasks)
      BY <2>1 DEF Types, PoolType
    <2>3. \A v, w \in In(wpc, Holding) : wtask[v] = wtask[w] => v = w
      BY <2>1, <2>2 DEF In, Held
    <2>4. In(tstate, {"run"}) = {wtask[w] : w \in In(wpc, {"run", "requeue"})}
      BY <2>1, <2>2 DEF In, Held
    <2>5. In(tstate, {"over"}) = {wtask[w] : w \in In(wpc, {"done"})}
      BY <2>1, <2>2 DEF In, Held
    <2>6. Elements(pool.queue) \subseteq Tasks /\ Elements(local.queue) \subseteq Tasks
      BY <2>2 DEF Elements
    <2>7. In(tstate, {"pending"}) = Elements(pool.queue) \cup Elements(local.queue)
      BY <2>1, <2>2, <2>6 DEF In, Queued
    <2> QED
      BY <2>1, <2>3, <2>4, <2>5, <2>7 DEF OnePlace, Queued
  <1> QED
    BY <1>1, Invariance, PTL

(* The assertion of lcuTP_addtpooltask never fails. *)
THEOREM AddNeverFails ==
  Spec => []AddAsserted
  <1>1. IInv => AddAsserted
    BY CanCallOpen DEF AddAsserted
  <1> QED
    BY <1>1, Invariance, PTL

(* Every thread that ended was joined but the last, and all of them once   *)
(* the pool is destroyed.                                                  *)
THEOREM ThreadsJoined ==
  Spec => []AllJoined
  <1>1. IInv => AllJoined
    BY ConstantsAssumption DEF IInv, Good, Types, Joined, AllJoined, In
  <1> QED
    BY <1>1, Invariance, PTL

(* The pool is destroyed at most once, after its last task is closed. *)
THEOREM DestroyedOnce ==
  Spec => []DestroyOnce
  <1>1. IInv => DestroyOnce
    <2> SUFFICES ASSUME IInv PROVE DestroyOnce
      OBVIOUS
    <2>1. /\ Destruction(pool, tstate, owner, local, freed)
          /\ DOMAIN tstate = Tasks /\ NoTask \notin Tasks
      BY ConstantsAssumption DEF IInv, Good, Types
    <2>2. \A d \in Destroyers : \/ d \in Tasks /\ tstate[d] = "destroy"
                                \/ d = NoTask /\ owner = "destroy"
      BY <2>1 DEF Destroyers, In
    <2>3. \A d, e \in Destroyers : d = e
      BY <2>1, <2>2 DEF Destruction
    <2>4. Cardinality(Destroyers) <= 1
      <3>1. CASE Destroyers = {}
        BY <3>1, FS_EmptySet
      <3>2. CASE Destroyers # {}
        <4>1. PICK d : d \in Destroyers
          BY <3>2
        <4>2. Destroyers = {d}
          BY <2>3, <4>1
        <4>3. Cardinality({d}) = 1
          BY FS_Singleton
        <4>4. Cardinality(Destroyers) = 1
          BY <4>2, <4>3, Zenon
        <4> QED
          BY <4>4
      <3> QED
        BY <3>1, <3>2
    <2>5. Destroyers # {} => ~freed
      BY <2>1, <2>2 DEF Destruction
    <2>6. freed \/ Destroyers # {} =>
            pool.status = "CLOSED" /\ \A t \in Tasks : tstate[t] \notin Counted
      BY <2>1, <2>2 DEF Destruction
    <2>7. (\A t \in Tasks : tstate[t] \notin Counted) => In(tstate, Counted) = {}
      BY <2>1 DEF In
    <2> QED
      BY <2>4, <2>5, <2>6, <2>7 DEF DestroyOnce
  <1> QED
    BY <1>1, Invariance, PTL

(* The assertions of lcuTP_destroytpool hold of a pool closed with size 0. *)
THEOREM DestroyedQuiescent ==
  Spec => []DestroyQuiescent
  <1>1. IInv => DestroyQuiescent
    <2> SUFFICES ASSUME IInv, Destroyers # {}, pool.size = 0
                 PROVE  Quiescent
      BY DEF DestroyQuiescent
    <2>1. /\ Destruction(pool, tstate, owner, local, freed)
          /\ Phases(pool, wpc, tstate, owner, local)
          /\ WorkersCounted(pool, wpc) /\ TasksCounted(pool, tstate)
          /\ DOMAIN tstate = Tasks /\ DOMAIN wpc = Workers
          /\ IsFiniteSet(Tasks) /\ IsFiniteSet(Workers)
      BY ConstantsAssumption DEF IInv, Good, Types
    <2>2. pool.status = "CLOSED" /\ \A t \in Tasks : tstate[t] \notin Counted
      BY <2>1 DEF Destroyers, In, Destruction
    <2>3. \A w \in Workers : /\ wpc[w] \notin Live /\ wpc[w] \notin Idle
                             /\ wpc[w] \notin Busy
      BY <2>1, <2>2 DEF Phases, Live
    <2>4. /\ Cardinality(In(wpc, Live)) = 0 /\ Cardinality(In(wpc, Idle)) = 0
          /\ Cardinality(In(wpc, Busy)) = 0 /\ Cardinality(In(tstate, Counted)) = 0
      BY <2>1, <2>2, <2>3, CountZero
    <2>5. pool.queue = <<>> /\ pool.pending = 0
      BY <2>1, <2>2, EmptyElements DEF Phases, TasksCounted
    <2> QED
      BY <2>1, <2>2, <2>4, <2>5 DEF Quiescent, WorkersCounted, TasksCounted
  <1> QED
    BY <1>1, Invariance, PTL

(* A thread that locks a CLOSED pool was not busy, and leaves its tasks.   *)
LEMMA LockedClosed ==
  ASSUME IInv, pool.status = "CLOSED", NEW w \in Workers, LockPool(w)
  PROVE  /\ Locked(w) \in PoolType
         /\ Locked(w).status = "CLOSED" /\ Locked(w).tasks = pool.tasks
  <1>1. pool \in PoolType /\ wpc[w] \notin Busy
    BY DEF IInv, Good, Types, Phases
  <1>2. wpc[w] = "start" \/ wpc[w] = "wake"
    BY <1>1 DEF LockPool, Locking, Busy
  <1> QED
    BY <1>1, <1>2 DEF Locked, PoolType

(* Once CLOSED a pool only winds down. *)
THEOREM ClosedOnlyWindsDown ==
  Spec => ClosedWindsDown
  <1> DEFINE Down == /\ pool'.status = "CLOSED" /\ pool'.tasks <= pool.tasks
  <1>1. ASSUME IInv, Next, pool.status = "CLOSED"
        PROVE  Down
    <2>1. /\ pool \in PoolType /\ Phases(pool, wpc, tstate, owner, local)
          /\ pool.tasks \in Int
      BY <1>1 DEF IInv, Good, Types, PoolType
    <2>2. CASE pool' = pool
      BY <1>1, <2>1, <2>2
    <2>3. CASE \E n \in Sizes : Create(n)
      BY <1>1, <2>1, <2>3 DEF Create, Phases
    <2>4. CASE \E t \in Tasks : AddTask(t)
      BY <1>1, <2>4 DEF AddTask, AddedTask
    <2>5. CASE Resizing
      BY <1>1, <2>5, CanCallOpen DEF Resizing, Resize
    <2>6. CASE \E t \in Tasks : ResumeTask(t)
      <3>1. PICK n \in {0, 1} : pool' = [pool EXCEPT !.threads = @ + n]
        BY <1>1, <2>6 DEF ResumeTask
      <3> QED
        BY <1>1, <2>1, <3>1 DEF PoolType
    <2>7. CASE \E t \in Tasks : Collected(t)
      BY <1>1, <2>1, <2>7 DEF Collected, PoolType
    <2>8. CASE Close \/ CloseWoken
      BY <1>1, <2>1, <2>8 DEF Close, CloseWoken, Phases
    <2>9. CASE \E w \in Workers : TakeTask(w) \/ WaitForWork(w) \/ EndThread(w)
      <3>1. PICK w \in Workers : TakeTask(w) \/ WaitForWork(w) \/ EndThread(w)
        BY <2>9
      <3>2. /\ Locked(w) \in PoolType
            /\ Locked(w).status = "CLOSED" /\ Locked(w).tasks = pool.tasks
        BY <1>1, <3>1, LockedClosed DEF TakeTask, WaitForWork, EndThread
      <3> DEFINE p == Locked(w)
      <3>3. \/ pool' = [p EXCEPT !.queue = Tail(@), !.pending = @ - 1, !.running = @ + 1]
            \/ pool' = [p EXCEPT !.idle = @ + 1]
            \/ pool' = [p EXCEPT !.threads = @ - 1]
        <4>1. CASE TakeTask(w)
          BY <4>1 DEF TakeTask
        <4>2. CASE WaitForWork(w)
          BY <4>2 DEF WaitForWork
        <4>3. CASE EndThread(w)
          <5>1. ThreadEnd(w, p)
            BY <3>2, <4>3 DEF EndThread, NoMoreTasks
          <5>2. [p EXCEPT !.threads = @ - 1].status = "CLOSED"
            <6> HIDE DEF p
            <6> QED
              BY <3>2 DEF PoolType, p
          <5> QED
            BY <5>1, <5>2 DEF ThreadEnd
        <4> QED
          BY <3>1, <4>1, <4>2, <4>3
      <3>4. p \in PoolType /\ p.status = "CLOSED" /\ p.tasks = pool.tasks
        BY <3>2
      <3> HIDE DEF p
      <3>5. pool'.status = "CLOSED" /\ pool'.tasks = pool.tasks
        BY <3>3, <3>4 DEF PoolType
      <3> QED
        BY <2>1, <3>5
    <2>10. CASE \E t \in Tasks : DiscardTask(t) \/ DestroyByTask(t)
      BY <2>2, <2>10 DEF DiscardTask, DestroyByTask, Destroyed
    <2>11. CASE CloseEnd \/ DestroyByOwner \/ SpuriousWakeup
      BY <2>2, <2>11 DEF CloseEnd, DestroyByOwner, Destroyed, SpuriousWakeup
    <2>12. CASE Drain
      <3>1. pool' = [pool EXCEPT !.tasks = @ - 1]
        BY <2>12 DEF Drain, Collected
      <3> QED
        BY <1>1, <2>1, <3>1 DEF PoolType
    <2>13. CASE \E w \in Workers : TaskStep(w) \/ Leave(w)
      BY <2>2, <2>13 DEF TaskStep, Yield, Suspend, Finish, Leave
    <2>14. CASE \E t \in Tasks : CollectTask(t)
      BY <2>7, <2>14 DEF CollectTask
    <2> HIDE DEF Down
    <2> QED
      BY <1>1, <2>3, <2>4, <2>5, <2>6, <2>8, <2>9, <2>10, <2>11, <2>12, <2>13, <2>14
      DEF Next, OwnerStep, CollectStep, WorkerStep
  <1>2. IInv /\ IInv' /\ [Next]_vars =>
          [pool.status = "CLOSED" =>
             /\ pool'.status = "CLOSED" /\ pool'.tasks <= pool.tasks
             /\ pool'.queue = <<>> /\ In(wpc, Busy)' = {}]_vars
    <2> SUFFICES ASSUME IInv, IInv', Next, pool.status = "CLOSED"
                 PROVE  /\ pool'.status = "CLOSED" /\ pool'.tasks <= pool.tasks
                        /\ pool'.queue = <<>> /\ In(wpc, Busy)' = {}
      OBVIOUS
    <2>1. pool'.status = "CLOSED" /\ pool'.tasks <= pool.tasks
      BY <1>1
    <2>2. /\ pool'.queue = <<>> /\ \A w \in Workers : wpc'[w] \notin Busy
          /\ DOMAIN wpc' = Workers
      BY <2>1 DEF IInv, Good, Types, Phases
    <2>3. In(wpc, Busy)' = {}
      BY <2>2 DEF In
    <2> QED
      BY <2>1, <2>2, <2>3
  <1> QED
    BY <1>2, InitInv, NextInv, PTL DEF Spec, ClosedWindsDown


(* The assertions of src/lthpool.c hold for every pool that is not released *)
(* with a size other than 0.                                               *)
THEOREM PoolAssertionsHold ==
  Spec => []AssertionsHold
  <1>1. AddAsserted /\ DestroyQuiescent => AssertionsHold
    BY DEF AssertionsHold
  <1> QED
    BY <1>1, AddNeverFails, DestroyedQuiescent, PTL

=============================================================================
