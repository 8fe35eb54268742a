------------------------- MODULE EventQueuesProofs -------------------------
(***************************************************************************)
(* Proof that the circular lists of coutil.event implement queues, for any *)
(* coroutines and values.                                                  *)
(***************************************************************************)
EXTENDS EventUsersProofs, WellFoundedInduction

(* The coroutines of list l are the ones of s, in that order. *)
Ordered(l, s) ==
  /\ l \in Lists /\ s \in Seq(Coros)
  /\ \A i, j \in 1..Len(s) : s[i] = s[j] => i = j
  /\ \A c \in Coros : InList(l, c) <=> \E i \in 1..Len(s) : s[i] = c
  /\ Len(s) = 0 => l = EmptyList
  /\ Len(s) > 0 => l.tail = s[Len(s)] /\ l.next[s[Len(s)]] = s[1]
  /\ \A i \in 1..Len(s) : i < Len(s) => l.next[s[i]] = s[i + 1]

(* Every set of naturals has a least element. *)
LEMMA Least ==
  ASSUME NEW D \in SUBSET Nat, D # {}
  PROVE  \E k \in D : \A j \in D : k <= j
  <1>1. PICK k \in D : \A j \in D : ~ (<<j, k>> \in OpToRel(<, Nat))
    BY WFMin, NatLessThanWellFounded
  <1>2. \A j \in D : ~ (j < k)
    BY <1>1 DEF OpToRel
  <1>3. QED
    BY <1>2

-----------------------------------------------------------------------------
(* QueueOf gives the coroutines of a list in order. *)
Follows(l, n, q) == \A i \in 1..n : q[i] = IF i = 1 THEN HeadOf(l) ELSE l.next[q[i - 1]]

LEMMA SizeOfOrdered ==
  ASSUME NEW l, NEW s, Ordered(l, s)
  PROVE  Cardinality({c \in Coros : InList(l, c)}) = Len(s) /\ Len(s) \in Nat
  <1> DEFINE M == {c \in Coros : InList(l, c)}
  <1>1. Len(s) \in Nat /\ s \in [1..Len(s) -> Coros]
    BY DEF Ordered
  <1>2. s \in Bijection(1..Len(s), M)
    <2>1. s \in [1..Len(s) -> M] /\ \A c \in M : \E i \in 1..Len(s) : s[i] = c
      BY <1>1 DEF Ordered
    <2>2. \A i, j \in 1..Len(s) : s[i] = s[j] => i = j
      BY DEF Ordered
    <2>3. QED
      BY <2>1, <2>2 DEF Bijection, Injection, Surjection, IsInjective
  <1>3. ExistsBijection(1..Len(s), M)
    BY <1>2 DEF ExistsBijection
  <1> HIDE DEF M
  <1>4. Cardinality(M) = Len(s)
    BY <1>1, <1>3, FS_CountingElements
  <1>5. QED
    BY <1>1, <1>4 DEF M

LEMMA FollowsUnique ==
  ASSUME NEW l, NEW n \in Nat, NEW q \in [1..n -> Coros], NEW s \in [1..n -> Coros],
         Follows(l, n, q), Follows(l, n, s)
  PROVE  q = s
  <1>1. SUFFICES ASSUME q # s PROVE FALSE
    OBVIOUS
  <1>2. PICK D \in SUBSET (1..n) : D = {i \in 1..n : q[i] # s[i]}
    OBVIOUS
  <1>3. D # {} /\ D \in SUBSET Nat
    BY <1>1, <1>2
  <1>4. PICK k \in D : \A j \in D : k <= j
    BY <1>3, Least
  <1>5. k \in 1..n /\ q[k] # s[k]
    BY <1>2, <1>4
  <1>6. CASE k = 1
    BY <1>5, <1>6 DEF Follows
  <1>7. CASE k # 1
    <2>1. k - 1 \in 1..n /\ ~(k <= k - 1)
      BY <1>5, <1>7
    <2>2. q[k - 1] = s[k - 1]
      BY <1>2, <1>4, <2>1
    <2>3. QED
      BY <1>5, <1>7, <2>2 DEF Follows
  <1>8. QED
    BY <1>6, <1>7

LEMMA QueueIs ==
  ASSUME NEW l, NEW s, Ordered(l, s)
  PROVE  QueueOf(l) = s
  <1>1. PICK n \in Nat : n = Len(s) /\ n = Cardinality({c \in Coros : InList(l, c)})
    BY SizeOfOrdered
  <1>2. s \in [1..n -> Coros]
    <2>1. s \in Seq(Coros)
      BY DEF Ordered
    <2>2. s \in [1..Len(s) -> Coros]
      BY <2>1
    <2>3. QED
      BY <1>1, <2>2
  <1>3. Follows(l, n, s)
    <2>1. ASSUME NEW i \in 1..n
          PROVE  s[i] = IF i = 1 THEN HeadOf(l) ELSE l.next[s[i - 1]]
      <3>1. CASE i = 1
        <4>1. Len(s) > 0 /\ Len(s) \in Nat
          BY <1>1, <3>1
        <4>2. l.tail = s[Len(s)] /\ l.next[s[Len(s)]] = s[1]
          BY <4>1 DEF Ordered
        <4>3. HeadOf(l) = s[1]
          BY <4>2 DEF HeadOf
        <4>4. QED
          BY <3>1, <4>3
      <3>2. CASE i # 1
        <4>1. i - 1 \in 1..Len(s) /\ i - 1 < Len(s) /\ (i - 1) + 1 = i
          BY <1>1, <3>2
        <4>2. QED
          BY <3>2, <4>1 DEF Ordered
      <3>3. QED
        BY <3>1, <3>2
    <2>2. QED
      BY <2>1 DEF Follows
  <1>4. QueueOf(l) = CHOOSE q \in [1..n -> Coros] : Follows(l, n, q)
    BY <1>1 DEF QueueOf, Follows
  <1>5. QueueOf(l) \in [1..n -> Coros] /\ Follows(l, n, QueueOf(l))
    BY <1>2, <1>3, <1>4
  <1>6. QED
    BY <1>2, <1>3, <1>5, FollowsUnique

LEMMA NoQueue == QueueOf(None) = <<>> /\ Ordered(EmptyList, <<>>)
  <1>1. {c \in Coros : InList(None, c)} = {}
    BY DEF InList
  <1>2. Cardinality({c \in Coros : InList(None, c)}) = 0
    BY <1>1, FS_EmptySet
  <1>3. PICK n : n = Cardinality({c \in Coros : InList(None, c)})
    OBVIOUS
  <1>4. n = 0 /\ 1..n = {}
    <2>1. n = 0
      BY <1>2, <1>3, Zenon
    <2>2. 1..0 = {}
      OBVIOUS
    <2>3. QED
      BY <2>1, <2>2, Zenon
  <1>5. QueueOf(None) = CHOOSE q \in [1..n -> Coros] : Follows(None, n, q)
    BY <1>3 DEF QueueOf, Follows
  <1>6. PICK f : f = [i \in 1..n |-> None]
    OBVIOUS
  <1>7. f \in [1..n -> Coros] /\ Follows(None, n, f)
    BY <1>4, <1>6 DEF Follows
  <1>8. QueueOf(None) \in [1..n -> Coros]
    BY <1>5, <1>7
  <1>9. QueueOf(None) = <<>>
    BY <1>4, <1>8
  <1>10. Ordered(EmptyList, <<>>)
    BY ListFacts DEF Ordered
  <1>11. QED
    BY <1>9, <1>10

-----------------------------------------------------------------------------
(* addthread appends. *)
LEMMA OrderedFirst ==
  ASSUME NEW c \in Coros
  PROVE  Ordered(addthread(None, c), <<c>>)
  <1>1. PICK r : r = [tail |-> c, next |-> [x \in Coros |-> IF x = c THEN c ELSE None]]
    OBVIOUS
  <1>2. addthread(None, c) = r
    BY <1>1 DEF addthread, EmptyList
  <1>3. /\ r \in Lists /\ r.tail = c
        /\ \A x \in Coros : r.next[x] = IF x = c THEN c ELSE None
    BY <1>1, CorosAssumption DEF Lists
  <1>4. \A x \in Coros : InList(r, x) <=> x = c
    BY <1>3, ListFacts DEF InList
  <1>5. PICK s : s = <<c>>
    OBVIOUS
  <1>6. s \in Seq(Coros) /\ Len(s) = 1 /\ s[1] = c
    BY <1>5
  <1>7. Ordered(r, s)
    BY <1>3, <1>4, <1>6 DEF Ordered
  <1>8. QED
    BY <1>2, <1>5, <1>7

LEMMA OrderedAdd ==
  ASSUME NEW l, NEW s, Ordered(l, s), l \in Rings, NEW c \in Coros, ~InList(l, c)
  PROVE  Ordered(addthread(l, c), Append(s, c))
  <1>1. /\ l \in Lists /\ s \in Seq(Coros) /\ Len(s) \in Nat
        /\ \A i \in 1..Len(s) : s[i] \in Coros
    BY DEF Ordered
  <1>2. l # None /\ l.tail \in Members(l) /\ l.next \in [Coros -> Coros \cup {None}]
    BY <1>1, ListFacts DEF Rings, Ring
  <1>3. Len(s) > 0
    <2>1. InList(l, l.tail) /\ l.tail \in Coros
      BY <1>1, <1>2, ListFacts
    <2>2. QED
      BY <1>1, <2>1 DEF Ordered
  <1>4. /\ l.tail = s[Len(s)] /\ l.next[s[Len(s)]] = s[1]
        /\ \A i \in 1..Len(s) : i < Len(s) => l.next[s[i]] = s[i + 1]
        /\ \A i, j \in 1..Len(s) : s[i] = s[j] => i = j
        /\ \A x \in Coros : InList(l, x) <=> \E i \in 1..Len(s) : s[i] = x
    BY <1>3 DEF Ordered
  <1>5. \A i \in 1..Len(s) : s[i] # c
    BY <1>4
  <1>6. PICK t \in Coros : t = l.tail /\ t # c
    BY <1>1, <1>3, <1>4, <1>5
  <1>7. PICK r : r = [tail |-> c, next |-> [l.next EXCEPT ![c] = l.next[t], ![t] = c]]
    OBVIOUS
  <1>8. addthread(l, c) = r
    BY <1>2, <1>6, <1>7 DEF addthread
  <1>9. /\ r \in Lists /\ r.tail = c
        /\ r.next[c] = l.next[t] /\ r.next[t] = c
        /\ \A x \in Coros \ {c, t} : r.next[x] = l.next[x]
    BY <1>2, <1>6, <1>7, CorosAssumption DEF Lists
  <1>10. \A x \in Coros : InList(r, x) <=> (InList(l, x) \/ x = c)
    BY <1>8, AddMembers
  <1>11. PICK u : u = Append(s, c)
    OBVIOUS
  <1>12. /\ u \in Seq(Coros) /\ Len(u) = Len(s) + 1 /\ u[Len(u)] = c
         /\ \A i \in 1..Len(s) : u[i] = s[i]
         /\ \A i \in 1..Len(u) : i \in 1..Len(s) \/ i = Len(u)
    BY <1>1, <1>11
  <1>13. ASSUME NEW i \in 1..Len(u), NEW j \in 1..Len(u), u[i] = u[j] PROVE i = j
    <2>1. CASE i = Len(u) /\ j \in 1..Len(s)
      BY <1>5, <1>12, <1>13, <2>1
    <2>2. CASE j = Len(u) /\ i \in 1..Len(s)
      BY <1>5, <1>12, <1>13, <2>2
    <2>3. CASE i \in 1..Len(s) /\ j \in 1..Len(s)
      BY <1>4, <1>12, <1>13, <2>3
    <2>4. QED
      BY <1>12, <2>1, <2>2, <2>3
  <1>14. \A x \in Coros : InList(r, x) <=> \E i \in 1..Len(u) : u[i] = x
    <2>1. ASSUME NEW x \in Coros, InList(r, x) PROVE \E i \in 1..Len(u) : u[i] = x
      <3>1. CASE x = c
        BY <1>1, <1>12, <3>1
      <3>2. CASE x # c
        <4>1. PICK i \in 1..Len(s) : s[i] = x
          BY <1>4, <1>10, <2>1, <3>2
        <4>2. i \in 1..Len(u) /\ u[i] = x
          BY <1>1, <1>12, <4>1
        <4>3. QED
          BY <4>2
      <3>3. QED
        BY <3>1, <3>2
    <2>2. ASSUME NEW i \in 1..Len(u) PROVE InList(r, u[i])
      BY <1>1, <1>4, <1>10, <1>12
    <2>3. QED
      BY <2>1, <2>2
  <1>15. r.next[u[Len(u)]] = u[1]
    <2>1. u[1] = s[1]
      BY <1>1, <1>3, <1>12
    <2>2. QED
      BY <1>4, <1>6, <1>9, <1>12, <2>1
  <1>16. ASSUME NEW i \in 1..Len(u), i < Len(u) PROVE r.next[u[i]] = u[i + 1]
    <2>1. i \in 1..Len(s) /\ u[i] = s[i] /\ s[i] # c /\ s[i] \in Coros
      BY <1>1, <1>5, <1>12, <1>16
    <2>2. CASE i = Len(s)
      BY <1>4, <1>6, <1>9, <1>12, <2>1, <2>2
    <2>3. CASE i # Len(s)
      <3>1. i < Len(s) /\ i + 1 \in 1..Len(s) /\ Len(s) \in 1..Len(s)
        BY <1>1, <2>1, <2>3
      <3>2. s[i] # t
        BY <1>4, <1>6, <2>1, <2>3, <3>1
      <3>3. r.next[s[i]] = s[i + 1]
        BY <1>4, <1>9, <2>1, <3>1, <3>2
      <3>4. QED
        BY <1>12, <2>1, <3>1, <3>3
    <2>4. QED
      BY <2>2, <2>3
  <1>17. Ordered(r, u)
    BY <1>1, <1>9, <1>12, <1>13, <1>14, <1>15, <1>16 DEF Ordered
  <1>18. QED
    BY <1>8, <1>11, <1>17

-----------------------------------------------------------------------------
(* removethread takes a coroutine out, and the ones after it come forward. *)
LEMMA WithoutIs ==
  ASSUME NEW s \in Seq(Coros), \A i, j \in 1..Len(s) : s[i] = s[j] => i = j,
         NEW k \in 1..Len(s)
  PROVE  /\ Fifo!Without(s[k], s) \in Seq(Coros)
         /\ Len(Fifo!Without(s[k], s)) = Len(s) - 1
         /\ \A i \in 1..(Len(s) - 1) :
              Fifo!Without(s[k], s)[i] = IF i < k THEN s[i] ELSE s[i + 1]
  <1>1. Len(s) \in Nat /\ DOMAIN s = 1..Len(s)
    OBVIOUS
  <1>2. k = CHOOSE i \in DOMAIN s : s[i] = s[k]
    BY <1>1
  <1>3. Fifo!Without(s[k], s) = SubSeq(s, 1, k - 1) \o SubSeq(s, k + 1, Len(s))
    BY <1>1, <1>2 DEF Fifo!Without, Fifo!RemoveAt
  <1>4. PICK a : a = SubSeq(s, 1, k - 1)
    OBVIOUS
  <1>5. a \in Seq(Coros) /\ Len(a) = k - 1 /\ \A i \in 1..(k - 1) : a[i] = s[i]
    BY <1>1, <1>4
  <1>6. PICK b : b = SubSeq(s, k + 1, Len(s))
    OBVIOUS
  <1>7. b \in Seq(Coros) /\ Len(b) = Len(s) - k /\ \A i \in 1..(Len(s) - k) : b[i] = s[i + k]
    <2>1. k + 1 \in Nat /\ k \in Nat /\ k <= Len(s) /\ 1 <= k
      BY <1>1
    <2>2. PICK p \in Nat : p = Len(s) - k
      <3>1. Len(s) - k \in Nat
        BY <1>1, <2>1
      <3>2. QED
        BY <3>1, Zenon
    <2>3. b = [i \in 1..(1 + Len(s) - (k + 1)) |-> s[i + (k + 1) - 1]]
      BY <1>1, <1>6, <2>1 DEF SubSeq
    <2>4. 1 + Len(s) - (k + 1) = p
      BY <1>1, <2>1, <2>2
    <2>5. \A i \in 1..p : i + (k + 1) - 1 = i + k /\ i + k \in 1..Len(s)
      BY <1>1, <2>1, <2>2
    <2>6. b = [i \in 1..p |-> s[i + (k + 1) - 1]]
      BY <2>3, <2>4
    <2>7. \A i \in 1..p : b[i] = s[i + k] /\ b[i] \in Coros
      BY <1>1, <2>5, <2>6
    <2>8. b \in [1..p -> Coros]
      BY <2>6, <2>7
    <2>9. b \in Seq(Coros) /\ Len(b) = p
      BY <2>8, SeqDef, LenProperties
    <2>10. QED
      BY <2>2, <2>7, <2>9
  <1>8. PICK u : u = a \o b
    OBVIOUS
  <1>9. /\ u \in Seq(Coros) /\ Len(u) = Len(s) - 1
        /\ \A i \in 1..(Len(s) - 1) : u[i] = IF i <= k - 1 THEN a[i] ELSE b[i - (k - 1)]
    <2>1. k - 1 \in Nat /\ Len(s) - k \in Nat /\ (k - 1) + (Len(s) - k) = Len(s) - 1
      BY <1>1
    <2>2. PICK m \in Nat : m = k - 1
      BY <2>1
    <2>3. PICK n \in Nat : n = Len(s) - k
      BY <2>1
    <2>4. Len(a) = m /\ Len(b) = n /\ m + n = Len(s) - 1
      BY <1>5, <1>7, <2>1, <2>2, <2>3
    <2>5. /\ u \in Seq(Coros) /\ Len(u) = Len(a) + Len(b)
          /\ \A i \in 1..Len(a) + Len(b) : u[i] = IF i <= Len(a) THEN a[i] ELSE b[i - Len(a)]
      <3>1. a \in Seq(Coros) /\ b \in Seq(Coros)
        BY <1>5, <1>7
      <3>2. /\ a \o b \in Seq(Coros) /\ Len(a \o b) = Len(a) + Len(b)
            /\ \A i \in 1..Len(a) + Len(b) :
                 (a \o b)[i] = IF i <= Len(a) THEN a[i] ELSE b[i - Len(a)]
        BY <3>1, ConcatProperties
      <3>3. QED
        BY <1>8, <3>2, Zenon
    <2>6. QED
      BY <2>2, <2>4, <2>5
  <1>10. ASSUME NEW i \in 1..(Len(s) - 1)
         PROVE  u[i] = IF i < k THEN s[i] ELSE s[i + 1]
    <2>1. CASE i < k
      BY <1>1, <1>5, <1>9, <2>1
    <2>2. CASE ~(i < k)
      <3>1. i - (k - 1) \in 1..(Len(s) - k) /\ (i - (k - 1)) + k = i + 1 /\ ~(i <= k - 1)
        BY <1>1, <2>2
      <3>2. QED
        BY <1>7, <1>9, <2>2, <3>1
    <2>3. QED
      BY <2>1, <2>2
  <1>11. QED
    BY <1>3, <1>4, <1>6, <1>8, <1>9, <1>10

LEMMA WithoutNone ==
  ASSUME NEW s \in Seq(Coros), NEW c, \A i \in 1..Len(s) : s[i] # c
  PROVE  Fifo!Without(c, s) = s
  BY DEF Fifo!Without

(* The coroutine that follows the one at i. *)
Following(s, i) == IF i = Len(s) THEN 1 ELSE i + 1

LEMMA OrderedFollowing ==
  ASSUME NEW l, NEW s, Ordered(l, s)
  PROVE  \A i \in 1..Len(s) : l.next[s[i]] = s[Following(s, i)] /\ Following(s, i) \in 1..Len(s)
  <1>1. Len(s) \in Nat
    BY DEF Ordered
  <1>2. ASSUME NEW i \in 1..Len(s)
        PROVE  l.next[s[i]] = s[Following(s, i)] /\ Following(s, i) \in 1..Len(s)
    <2>1. CASE i = Len(s)
      BY <1>1, <2>1 DEF Ordered, Following
    <2>2. CASE i # Len(s)
      BY <1>1, <2>2 DEF Ordered, Following
    <2>3. QED
      BY <2>1, <2>2
  <1>3. QED
    BY <1>2

LEMMA OrderedRemove ==
  ASSUME NEW l, NEW s, Ordered(l, s), Linked(l), NEW c \in Coros
  PROVE  Ordered(removethread(l, c), Fifo!Without(c, s))
  <1>1. /\ l \in Lists /\ l # None /\ s \in Seq(Coros) /\ Len(s) \in Nat
        /\ \A i \in 1..Len(s) : s[i] \in Coros
        /\ \A i, j \in 1..Len(s) : s[i] = s[j] => i = j
        /\ \A x \in Coros : InList(l, x) <=> \E i \in 1..Len(s) : s[i] = x
    BY LinkedLists DEF Ordered
  <1>2. CASE ~InList(l, c)
    BY <1>1, <1>2, WithoutNone DEF removethread
  <1>3. CASE InList(l, c)
    <2>1. PICK k \in 1..Len(s) : s[k] = c
      BY <1>1, <1>3
    <2>2. PICK n : n = Len(s) - 1
      OBVIOUS
    <2>3. PICK u : u = Fifo!Without(c, s)
      OBVIOUS
    <2>4. /\ n \in Nat /\ Len(s) = n + 1 /\ u \in Seq(Coros) /\ Len(u) = n
          /\ \A i \in 1..n : u[i] = IF i < k THEN s[i] ELSE s[i + 1]
      <3>1. n \in Nat /\ Len(s) = n + 1
        BY <1>1, <2>1, <2>2
      <3>2. /\ u \in Seq(Coros) /\ Len(u) = Len(s) - 1
            /\ \A i \in 1..(Len(s) - 1) : u[i] = IF i < k THEN s[i] ELSE s[i + 1]
        <4>1. s \in Seq(Coros) /\ \A i, j \in 1..Len(s) : s[i] = s[j] => i = j
          BY <1>1
        <4>2. u = Fifo!Without(s[k], s)
          BY <2>1, <2>3
        <4>3. /\ Fifo!Without(s[k], s) \in Seq(Coros)
              /\ Len(Fifo!Without(s[k], s)) = Len(s) - 1
              /\ \A i \in 1..(Len(s) - 1) :
                   Fifo!Without(s[k], s)[i] = IF i < k THEN s[i] ELSE s[i + 1]
          BY <4>1, WithoutIs
        <4>4. QED
          BY <4>2, <4>3
      <3>3. QED
        BY <2>2, <3>1, <3>2
    <2>5. \A i \in 1..Len(s) : l.next[s[i]] = s[Following(s, i)] /\ Following(s, i) \in 1..Len(s)
      BY OrderedFollowing
    <2>6. l \in Rings /\ c \in Members(l)
      BY <1>1, <1>3, ListFacts DEF Linked
    <2>7. CASE n = 0
      <3>1. l.next[c] = c
        BY <2>1, <2>4, <2>5, <2>7 DEF Following
      <3>2. removethread(l, c) = EmptyList
        BY <1>3, <3>1 DEF removethread
      <3>3. u = <<>>
        BY <2>4, <2>7
      <3>4. QED
        BY <2>3, <3>2, <3>3, NoQueue
    <2>8. CASE n # 0
      <3>1. l.next[c] # c
        <4>1. Following(s, k) # k
          BY <1>1, <2>1, <2>4, <2>8 DEF Following
        <4>2. QED
          BY <1>1, <2>1, <2>5, <4>1
      <3>2. PICK j \in 1..Len(s) : j = IF k = 1 THEN Len(s) ELSE k - 1
        <4>1. CASE k = 1
          <5>1. Len(s) \in 1..Len(s)
            BY <1>1, <2>1
          <5>2. QED
            BY <4>1, <5>1
        <4>2. CASE k # 1
          <5>1. k - 1 \in 1..Len(s)
            BY <1>1, <2>1, <4>2
          <5>2. QED
            BY <4>2, <5>1
        <4>3. QED
          BY <4>1, <4>2
      <3>3. Following(s, j) = k /\ j # k
        BY <1>1, <2>1, <2>4, <2>8, <3>2 DEF Following
      <3>4. PICK p : p = CHOOSE q \in Coros : l.next[q] = c
        OBVIOUS
      <3>5. p = s[j] /\ p # c /\ p \in Members(l)
        <4>1. l.next[s[j]] = c /\ InList(l, s[j]) /\ s[j] \in Members(l)
          BY <1>1, <2>1, <2>5, <3>3, ListFacts
        <4>2. QED
          BY <2>6, <3>1, <3>4, <4>1, PreviousMember
      <3>6. PICK r : r = [tail |-> IF l.tail = c THEN p ELSE l.tail,
                          next |-> [l.next EXCEPT ![p] = l.next[c], ![c] = None]]
        OBVIOUS
      <3>7. removethread(l, c) = r
        BY <1>3, <3>1, <3>4, <3>6 DEF removethread
      <3>8. /\ r \in Lists /\ r.tail = (IF l.tail = c THEN p ELSE l.tail)
            /\ r.next[p] = l.next[c]
            /\ \A x \in Coros \ {p, c} : r.next[x] = l.next[x]
        BY <1>1, <2>6, <3>5, <3>6, ListFacts DEF Lists, Members
      <3>9. \A x \in Coros : InList(r, x) <=> (InList(l, x) /\ x # c)
        BY <3>7, RemoveMembers
      (* The coroutine at i in u is at Old(i) in s. *)
      <3> DEFINE Old(i) == IF i < k THEN i ELSE i + 1
      <3>10. /\ \A i \in 1..n : Old(i) \in 1..Len(s) /\ Old(i) # k /\ u[i] = s[Old(i)]
             /\ \A i, m \in 1..n : Old(i) = Old(m) => i = m
             /\ \A m \in 1..Len(s) : m # k => \E i \in 1..n : Old(i) = m
        <4>1. ASSUME NEW m \in 1..Len(s), m # k PROVE \E i \in 1..n : Old(i) = m
          <5>1. CASE m < k
            <6>1. m \in 1..n /\ Old(m) = m
              BY <1>1, <2>1, <2>4, <5>1
            <6>2. QED
              BY <6>1
          <5>2. CASE ~(m < k)
            <6>1. m - 1 \in 1..n /\ Old(m - 1) = m
              BY <1>1, <2>1, <2>4, <4>1, <5>2
            <6>2. QED
              BY <6>1
          <5>3. QED
            BY <5>1, <5>2
        <4>2. \A i \in 1..n : Old(i) \in 1..Len(s) /\ Old(i) # k /\ u[i] = s[Old(i)]
          BY <1>1, <2>1, <2>4
        <4>3. \A i, m \in 1..n : Old(i) = Old(m) => i = m
          BY <2>1, <2>4
        <4>4. QED
          BY <4>1, <4>2, <4>3
      <3>11. \A i \in 1..n : Following(s, Old(i)) = IF Old(i) = j THEN k
                                                    ELSE Old(Following(u, i))
        BY <1>1, <2>1, <2>4, <2>8, <3>2 DEF Following
      <3>12. \A i \in 1..n : Old(i) = j => Following(s, k) = Old(Following(u, i))
        BY <1>1, <2>1, <2>4, <2>8, <3>2 DEF Following
      <3>13. \A i \in 1..n : Following(u, i) \in 1..n
        BY <2>4, <2>8 DEF Following
      <3>14. r.tail = u[n]
        <4>1. l.tail = s[Len(s)]
          BY <2>4, <2>8 DEF Ordered
        <4>2. CASE k = Len(s)
          <5>1. l.tail = c /\ j = n /\ Old(n) = n
            BY <2>1, <2>4, <2>8, <3>2, <4>1, <4>2
          <5>2. QED
            BY <2>4, <2>8, <3>5, <3>8, <3>10, <5>1
        <4>3. CASE k # Len(s)
          <5>1. l.tail # c /\ Old(n) = Len(s)
            BY <1>1, <2>1, <2>4, <2>8, <4>1, <4>3
          <5>2. QED
            BY <2>4, <2>8, <3>8, <3>10, <4>1, <5>1
        <4>4. QED
          BY <4>2, <4>3
      <3> HIDE DEF Old
      <3>15. ASSUME NEW i \in 1..n PROVE r.next[u[i]] = u[Following(u, i)]
        <4>1. u[i] = s[Old(i)] /\ Old(i) \in 1..Len(s) /\ Old(i) # k
              /\ u[Following(u, i)] = s[Old(Following(u, i))]
          BY <3>10, <3>13
        <4>2. CASE Old(i) = j
          BY <2>1, <2>5, <3>5, <3>8, <3>12, <4>1, <4>2
        <4>3. CASE Old(i) # j
          <5>1. u[i] # p /\ u[i] # c /\ u[i] \in Coros
            BY <1>1, <2>1, <3>5, <4>1, <4>3
          <5>2. r.next[u[i]] = l.next[u[i]]
            BY <3>8, <5>1
          <5>3. l.next[u[i]] = s[Following(s, Old(i))]
            BY <2>5, <4>1
          <5>4. QED
            BY <3>11, <4>1, <4>3, <5>2, <5>3
        <4>4. QED
          BY <4>2, <4>3
      <3>16. \A i, m \in 1..n : u[i] = u[m] => i = m
        BY <1>1, <3>10
      <3>17. \A x \in Coros : InList(r, x) <=> \E i \in 1..n : u[i] = x
        <4>1. ASSUME NEW x \in Coros, InList(r, x) PROVE \E i \in 1..n : u[i] = x
          <5>1. PICK m \in 1..Len(s) : s[m] = x /\ m # k
            BY <1>1, <2>1, <3>9, <4>1
          <5>2. QED
            BY <3>10, <5>1
        <4>2. ASSUME NEW i \in 1..n PROVE InList(r, u[i])
          BY <1>1, <2>1, <3>9, <3>10
        <4>3. QED
          BY <4>1, <4>2
      <3>18. r.next[u[n]] = u[1] /\ \A i \in 1..n : i < n => r.next[u[i]] = u[i + 1]
        BY <2>4, <2>8, <3>15 DEF Following
      <3>19. Ordered(r, u)
        BY <2>4, <2>8, <3>8, <3>14, <3>16, <3>17, <3>18 DEF Ordered
      <3>20. QED
        BY <2>3, <3>7, <3>19
    <2>9. QED
      BY <2>7, <2>8
  <1>4. QED
    BY <1>2, <1>3

-----------------------------------------------------------------------------
(* What the operations on lists do to the queues. *)
Listed(l) == Linked(l) /\ Ordered(l, QueueOf(l))

LEMMA ListedIs ==
  ASSUME NEW l, Linked(l), NEW s, Ordered(l, s)
  PROVE  Listed(l) /\ QueueOf(l) = s
  BY QueueIs DEF Listed

LEMMA EmptyListed == Listed(EmptyList) /\ QueueOf(EmptyList) = <<>> /\ QueueOf(None) = <<>>
  BY NoQueue, ListedIs DEF Linked

(* The coroutines of a queue are the ones of the list. *)
LEMMA ListedFacts ==
  ASSUME NEW l, Listed(l)
  PROVE  /\ QueueOf(l) \in Seq(Coros)
         /\ \A i, j \in 1..Len(QueueOf(l)) : QueueOf(l)[i] = QueueOf(l)[j] => i = j
         /\ \A c \in Coros : ~InList(l, c) => \A i \in DOMAIN QueueOf(l) : QueueOf(l)[i] # c
         /\ l # EmptyList => Len(QueueOf(l)) > 0 /\ HeadOf(l) = QueueOf(l)[1]
  <1>1. PICK q : q = QueueOf(l)
    OBVIOUS
  <1>2. Ordered(l, q)
    BY <1>1 DEF Listed
  <1>3. q \in Seq(Coros) /\ Len(q) \in Nat /\ DOMAIN q = 1..Len(q)
    BY <1>2 DEF Ordered
  <1>4. \A i, j \in 1..Len(q) : q[i] = q[j] => i = j
    BY <1>2 DEF Ordered
  <1>5. \A c \in Coros : ~InList(l, c) => \A i \in DOMAIN q : q[i] # c
    BY <1>2, <1>3 DEF Ordered
  <1>6. l # EmptyList => Len(q) > 0 /\ HeadOf(l) = q[1]
    BY <1>2, <1>3 DEF Ordered, HeadOf
  <1>7. QED
    BY <1>1, <1>3, <1>4, <1>5, <1>6

LEMMA QueueAdd ==
  ASSUME NEW l, l = None \/ (Listed(l) /\ l \in Rings), NEW c \in Coros, ~InList(l, c)
  PROVE  /\ Listed(addthread(l, c)) /\ QueueOf(addthread(l, c)) = Append(QueueOf(l), c)
         /\ \A i \in DOMAIN QueueOf(l) : QueueOf(l)[i] # c
  <1>1. Linked(addthread(l, c))
    BY AddMembers DEF Linked
  <1>2. CASE l = None
    <2>1. Ordered(addthread(None, c), <<c>>)
      BY OrderedFirst
    <2>2. Append(<<>>, c) = <<c>> /\ DOMAIN <<>> = {}
      OBVIOUS
    <2>3. QED
      BY <1>1, <1>2, <2>1, <2>2, ListedIs, EmptyListed
  <1>3. CASE Listed(l) /\ l \in Rings
    <2>1. Ordered(addthread(l, c), Append(QueueOf(l), c))
      BY <1>3, OrderedAdd DEF Listed
    <2>2. QED
      BY <1>1, <1>3, <2>1, ListedIs, ListedFacts
  <1>4. QED
    BY <1>2, <1>3

LEMMA QueueRemove ==
  ASSUME NEW l, Listed(l), NEW c \in Coros
  PROVE  /\ Listed(removethread(l, c))
         /\ QueueOf(removethread(l, c)) = Fifo!Without(c, QueueOf(l))
  <1>1. Linked(removethread(l, c))
    BY RemoveMembers, LinkedLists DEF Listed
  <1>2. Ordered(removethread(l, c), Fifo!Without(c, QueueOf(l)))
    BY OrderedRemove DEF Listed
  <1>3. QED
    BY <1>1, <1>2, ListedIs

LEMMA QueueKept ==
  ASSUME NEW l, Listed(l)
  PROVE  QueueOf(Kept(l)) = QueueOf(l) /\ (Kept(l) = None \/ Listed(Kept(l)))
  BY EmptyListed DEF Kept

LEMMA QueueHead ==
  ASSUME NEW l, Listed(l), l # EmptyList
  PROVE  /\ QueueOf(l) # <<>> /\ HeadOf(l) = Head(QueueOf(l)) /\ HeadOf(l) \in Coros
         /\ Listed(WithoutHead(l)) /\ QueueOf(WithoutHead(l)) = Tail(QueueOf(l))
  <1>1. PICK q : q = QueueOf(l)
    OBVIOUS
  <1>2. /\ q \in Seq(Coros) /\ \A i, j \in 1..Len(q) : q[i] = q[j] => i = j
        /\ Len(q) > 0 /\ HeadOf(l) = q[1]
    BY <1>1, ListedFacts
  <1>3. 1 \in 1..Len(q) /\ Len(q) \in Nat /\ q # <<>> /\ q[1] \in Coros
    BY <1>2
  <1>4. Head(q) = q[1]
    BY <1>2, <1>3
  <1>5. PICK t : t = Tail(q)
    OBVIOUS
  <1>6. t \in Seq(Coros) /\ Len(t) = Len(q) - 1 /\ \A i \in 1..(Len(q) - 1) : t[i] = q[i + 1]
    BY <1>2, <1>3, <1>5
  <1>7. PICK u : u = Fifo!Without(q[1], q)
    OBVIOUS
  <1>8. /\ u \in Seq(Coros) /\ Len(u) = Len(q) - 1
        /\ \A i \in 1..(Len(q) - 1) : u[i] = IF i < 1 THEN q[i] ELSE q[i + 1]
    BY <1>2, <1>3, <1>7, WithoutIs
  <1>9. \A i \in 1..(Len(q) - 1) : u[i] = t[i]
    BY <1>3, <1>6, <1>8
  <1>10. u = t
    <2>1. PICK n \in Nat : n = Len(q) - 1
      <3>1. Len(q) - 1 \in Nat
        BY <1>2, <1>3
      <3>2. QED
        BY <3>1, Zenon
    <2>2. u \in [1..n -> Coros] /\ t \in [1..n -> Coros]
      BY <1>6, <1>8, <2>1, LenProperties
    <2>3. QED
      BY <1>9, <2>1, <2>2
  <1>11. l \in Rings
    BY DEF Listed, Linked
  <1>12. WithoutHead(l) = removethread(l, q[1])
    BY <1>2, <1>11, HeadMember
  <1>13. /\ Listed(removethread(l, q[1]))
         /\ QueueOf(removethread(l, q[1])) = Fifo!Without(q[1], q)
    BY <1>1, <1>3, QueueRemove
  <1>14. Listed(WithoutHead(l)) /\ QueueOf(WithoutHead(l)) = t
    BY <1>7, <1>10, <1>12, <1>13, Zenon
  <1>15. q # <<>> /\ HeadOf(l) = Head(q) /\ HeadOf(l) \in Coros
    BY <1>2, <1>3, <1>4, Zenon
  <1>16. QED
    BY <1>1, <1>5, <1>14, <1>15, Zenon

-----------------------------------------------------------------------------
(* The queues of all the lists, and of the calls in a stack. *)
CallsIn(s) == {i \in DOMAIN s : s[i].at = "emitall"}
QueuesOf(lists) == [e \in Events |-> QueueOf(lists[e])]
QueuesTaken(s) == [i \in CallsIn(s) |-> QueueOf(s[i].list)]

OrderedLists(lists) == \A e \in Events : lists[e] = None \/ Listed(lists[e])
OrderedCalls(s) == \A i \in CallsIn(s) : Listed(s[i].list)

(* The queues without c. *)
QueuesWithout(c, q) == [e \in Events |-> Fifo!Without(c, q[e])]
TakenWithout(c, t) == [i \in DOMAIN t |-> Fifo!Without(c, t[i])]

LEMMA ListsQueues ==
  ASSUME NEW lists, OrderedLists(lists), NEW c \in Coros
  PROVE  /\ OrderedLists(ListsWithout(lists, c))
         /\ QueuesOf(ListsWithout(lists, c)) = QueuesWithout(c, QueuesOf(lists))
  <1>1. PICK new : new = ListsWithout(lists, c)
    OBVIOUS
  <1>2. ASSUME NEW e \in Events
        PROVE  /\ new[e] = None \/ Listed(new[e])
               /\ QueueOf(new[e]) = Fifo!Without(c, QueueOf(lists[e]))
    <2>1. new[e] = Kept(removethread(lists[e], c))
      BY <1>1 DEF ListsWithout
    <2>2. CASE lists[e] = None
      <3>1. new[e] = None
        BY <2>1, <2>2, ListFacts DEF removethread, InList, Kept
      <3>2. Fifo!Without(c, <<>>) = <<>>
        BY DEF Fifo!Without
      <3>3. QED
        BY <2>2, <3>1, <3>2, EmptyListed
    <2>3. CASE Listed(lists[e])
      BY <2>1, <2>3, QueueRemove, QueueKept
    <2>4. QED
      BY <2>2, <2>3 DEF OrderedLists
  <1>3. OrderedLists(new)
    BY <1>2 DEF OrderedLists
  <1>4. QueuesOf(new) = QueuesWithout(c, QueuesOf(lists))
    BY <1>2 DEF QueuesOf, QueuesWithout
  <1>5. QED
    BY <1>1, <1>3, <1>4

LEMMA CallsQueues ==
  ASSUME NEW s, GoodCalls(s), OrderedCalls(s), NEW c \in Coros
  PROVE  /\ OrderedCalls(CallsWithout(s, c))
         /\ QueuesTaken(CallsWithout(s, c)) = TakenWithout(c, QueuesTaken(s))
  <1>1. PICK u : u = CallsWithout(s, c)
    OBVIOUS
  <1>2. /\ DOMAIN u = DOMAIN s
        /\ \A i \in DOMAIN s :
             u[i] = IF s[i].at = "emitall" THEN [s[i] EXCEPT !.list = removethread(@, c)]
                    ELSE s[i]
    BY <1>1 DEF CallsWithout
  <1>3. ASSUME NEW i \in DOMAIN s
        PROVE  /\ u[i].at = s[i].at
               /\ s[i].at = "emitall" => u[i].list = removethread(s[i].list, c)
    <2>1. s[i] \in Frames
      BY DEF GoodCalls
    <2>2. CASE s[i].at = "emitall"
      <3>1. s[i] \in [at: {"emitall"}, event: Events, list: Lists]
        BY <2>1, <2>2 DEF Frames
      <3>2. QED
        BY <1>2, <2>2, <3>1
    <2>3. CASE s[i].at # "emitall"
      BY <1>2, <2>3
    <2>4. QED
      BY <2>2, <2>3
  <1>4. CallsIn(u) = CallsIn(s)
    BY <1>2, <1>3 DEF CallsIn
  <1>5. ASSUME NEW i \in CallsIn(s)
        PROVE  Listed(u[i].list) /\ QueueOf(u[i].list) = Fifo!Without(c, QueueOf(s[i].list))
    <2>1. u[i].list = removethread(s[i].list, c)
      BY <1>3 DEF CallsIn
    <2>2. Listed(s[i].list)
      BY DEF OrderedCalls
    <2>3. QED
      BY <2>1, <2>2, QueueRemove
  <1>6. OrderedCalls(u)
    BY <1>4, <1>5 DEF OrderedCalls
  <1>7. QueuesTaken(u) = TakenWithout(c, QueuesTaken(s))
    BY <1>4, <1>5 DEF QueuesTaken, TakenWithout
  <1>8. QED
    BY <1>1, <1>6, <1>7

(* A stack with the same calls of emitall. *)
LEMMA SameQueues ==
  ASSUME NEW s, NEW u, CallsIn(s) = CallsIn(u), \A i \in CallsIn(s) : s[i] = u[i]
  PROVE  /\ OrderedCalls(s) <=> OrderedCalls(u)
         /\ QueuesTaken(s) = QueuesTaken(u)
  BY DEF OrderedCalls, QueuesTaken

LEMMA LuaQueues ==
  ASSUME NEW s, NEW u, Grown(u, s), u[Len(u)].at = "lua"
  PROVE  /\ OrderedCalls(s) <=> OrderedCalls(u)
         /\ QueuesTaken(s) = QueuesTaken(u)
  <1>1. /\ Len(u) = Len(s) + 1 /\ Len(s) \in Nat
        /\ DOMAIN s = 1..Len(s) /\ DOMAIN u = 1..Len(u)
        /\ \A i \in DOMAIN s : u[i] = s[i]
    BY DEF Grown
  <1>2. \A i : i \in DOMAIN u <=> (i \in DOMAIN s \/ i = Len(u))
    BY <1>1
  <1>3. CallsIn(s) = CallsIn(u)
    BY <1>1, <1>2 DEF CallsIn
  <1>4. \A i \in CallsIn(s) : s[i] = u[i]
    BY <1>1 DEF CallsIn
  <1>5. QED
    BY <1>3, <1>4, SameQueues

(* A call of emitall on top of the stack. *)
LEMMA CallQueues ==
  ASSUME NEW s, NEW u, Grown(u, s), u[Len(u)].at = "emitall"
  PROVE  /\ CallsIn(u) = CallsIn(s) \cup {Len(u)} /\ Len(u) \notin CallsIn(s)
         /\ \A i \in CallsIn(s) : i < Len(u) /\ u[i] = s[i]
         /\ OrderedCalls(u) <=> OrderedCalls(s) /\ Listed(u[Len(u)].list)
         /\ QueuesTaken(u) =
              [i \in CallsIn(s) \cup {Len(u)} |->
                 IF i = Len(u) THEN QueueOf(u[Len(u)].list) ELSE QueuesTaken(s)[i]]
  <1>1. /\ Len(u) = Len(s) + 1 /\ Len(s) \in Nat
        /\ DOMAIN s = 1..Len(s) /\ DOMAIN u = 1..Len(u)
        /\ \A i \in DOMAIN s : u[i] = s[i]
    BY DEF Grown
  <1>2. /\ \A i : i \in DOMAIN u <=> (i \in DOMAIN s \/ i = Len(u))
        /\ \A i \in DOMAIN s : i < Len(u) /\ i # Len(u)
    BY <1>1
  <1>3. CallsIn(u) = CallsIn(s) \cup {Len(u)}
    BY <1>1, <1>2 DEF CallsIn
  <1>4. \A i \in CallsIn(s) : i < Len(u) /\ i # Len(u) /\ u[i] = s[i]
    BY <1>1, <1>2 DEF CallsIn
  <1>5. OrderedCalls(u) <=> OrderedCalls(s) /\ Listed(u[Len(u)].list)
    BY <1>3, <1>4 DEF OrderedCalls
  <1>6. QueuesTaken(u) =
          [i \in CallsIn(s) \cup {Len(u)} |->
             IF i = Len(u) THEN QueueOf(u[Len(u)].list) ELSE QueuesTaken(s)[i]]
    BY <1>3, <1>4 DEF QueuesTaken
  <1>7. QED
    BY <1>3, <1>4, <1>5, <1>6

-----------------------------------------------------------------------------
(* Each step of the lists is a step of the queues. *)
OrderInv == OrderedLists(listof) /\ OrderedCalls(stack)

(* The queues after c was given an event, from q and t. *)
Gives(c, q, t) ==
  \/ QueuesOf(listof') = q /\ QueuesTaken(stack') = t
  \/ /\ QueuesOf(listof') = QueuesWithout(c, q)
     /\ QueuesTaken(stack') = TakenWithout(c, t)

Stutters == QueuesOf(listof') = QueuesOf(listof) /\ QueuesTaken(stack') = QueuesTaken(stack)

LEMMA FifoStutter ==
  ASSUME Stutters
  PROVE  UNCHANGED Fifo!vars
  BY DEF Stutters, QueuesOf, QueuesTaken, CallsIn, Calls, Fifo!vars

LEMMA FifoGive ==
  ASSUME NEW c, NEW q, NEW t, Gives(c, q, t)
  PROVE  Fifo!Give(c, q, t)
  BY DEF Gives, QueuesWithout, TakenWithout, QueuesOf, QueuesTaken, CallsIn, Calls,
         Fifo!Give, Fifo!Leave

LEMMA FifoLeave ==
  ASSUME NEW c \in Coros, QueuesOf(listof') = QueuesWithout(c, QueuesOf(listof)),
         QueuesTaken(stack') = TakenWithout(c, QueuesTaken(stack))
  PROVE  Fifo!Next
  <1>1. Fifo!Leave(c, QueuesOf(listof), QueuesTaken(stack))
    BY DEF QueuesWithout, TakenWithout, QueuesOf, QueuesTaken, CallsIn, Calls, Fifo!Leave
  <1>2. QED
    BY <1>1 DEF QueuesOf, QueuesTaken, CallsIn, Calls, Fifo!Next

LEMMA FifoCome ==
  ASSUME NEW c \in Coros, QueuesTaken(stack') = QueuesTaken(stack),
         \A e \in Events :
           \/ QueueOf(listof'[e]) = QueueOf(listof[e])
           \/ /\ QueueOf(listof'[e]) = Append(QueueOf(listof[e]), c)
              /\ \A i \in DOMAIN QueueOf(listof[e]) : QueueOf(listof[e])[i] # c
  PROVE  Fifo!Next
  <1>1. Fifo!Come(c)
    BY DEF QueuesTaken, CallsIn, Calls, Fifo!Come
  <1>2. QED
    BY <1>1 DEF Fifo!Next

LEMMA FifoOne ==
  ASSUME NEW e \in Events, QueueOf(listof[e]) # <<>>,
         Gives(Head(QueueOf(listof[e])),
               [QueuesOf(listof) EXCEPT ![e] = Tail(QueueOf(listof[e]))], QueuesTaken(stack))
  PROVE  Fifo!Next
  <1>1. Fifo!Give(Head(QueueOf(listof[e])),
                  [QueuesOf(listof) EXCEPT ![e] = Tail(QueueOf(listof[e]))], QueuesTaken(stack))
    BY FifoGive
  <1>2. QueuesOf(listof)[e] = QueueOf(listof[e])
    BY DEF QueuesOf
  <1>3. Fifo!Give(Head(QueuesOf(listof)[e]),
                  [QueuesOf(listof) EXCEPT ![e] = Tail(QueuesOf(listof)[e])], QueuesTaken(stack))
    BY <1>1, <1>2
  <1>4. Fifo!One(e)
    BY <1>2, <1>3 DEF QueuesOf, QueuesTaken, CallsIn, Calls, Fifo!One
  <1>5. QED
    BY <1>4 DEF Fifo!Next

LEMMA FifoAll ==
  ASSUME NEW e \in Events, QueueOf(listof[e]) # <<>>,
         QueuesOf(listof') = [QueuesOf(listof) EXCEPT ![e] = <<>>],
         NEW d, \A i \in CallsIn(stack) : i < d,
         QueuesTaken(stack') = [i \in CallsIn(stack) \cup {d} |->
                                  IF i = d THEN QueueOf(listof[e]) ELSE QueuesTaken(stack)[i]]
  PROVE  Fifo!Next
  <1>1. QueuesOf(listof)[e] = QueueOf(listof[e]) /\ DOMAIN QueuesTaken(stack) = CallsIn(stack)
    BY DEF QueuesOf, QueuesTaken
  <1>2. /\ QueuesOf(listof)[e] # <<>>
        /\ d \in DOMAIN QueuesTaken(stack')
        /\ \A i \in DOMAIN QueuesTaken(stack) : i < d
        /\ QueuesTaken(stack') =
             [i \in DOMAIN QueuesTaken(stack) \cup {d} |->
                IF i = d THEN QueuesOf(listof)[e] ELSE QueuesTaken(stack)[i]]
    BY <1>1
  <1>3. Fifo!All(e)
    BY <1>2 DEF QueuesOf, QueuesTaken, CallsIn, Calls, Fifo!All
  <1>4. QED
    BY <1>3 DEF Fifo!Next

LEMMA FifoEmission ==
  ASSUME NEW d \in CallsIn(stack), \A i \in CallsIn(stack) : i <= d,
         \/ /\ QueueOf(stack[d].list) # <<>>
            /\ Gives(Head(QueueOf(stack[d].list)), QueuesOf(listof),
                     [QueuesTaken(stack) EXCEPT ![d] = Tail(QueueOf(stack[d].list))])
         \/ /\ QueueOf(stack[d].list) = <<>>
            /\ QueuesTaken(stack') = [i \in CallsIn(stack) \ {d} |-> QueuesTaken(stack)[i]]
            /\ QueuesOf(listof') = QueuesOf(listof)
  PROVE  Fifo!Next
  <1>1. QueuesTaken(stack)[d] = QueueOf(stack[d].list) /\ DOMAIN QueuesTaken(stack) = CallsIn(stack)
    BY DEF QueuesTaken
  <1>2. \/ /\ QueuesTaken(stack)[d] # <<>>
           /\ Fifo!Give(Head(QueuesTaken(stack)[d]), QueuesOf(listof),
                        [QueuesTaken(stack) EXCEPT ![d] = Tail(QueuesTaken(stack)[d])])
        \/ /\ QueuesTaken(stack)[d] = <<>>
           /\ QueuesTaken(stack') =
                [i \in DOMAIN QueuesTaken(stack) \ {d} |-> QueuesTaken(stack)[i]]
           /\ QueuesOf(listof') = QueuesOf(listof)
    BY <1>1, FifoGive
  <1>3. d \in DOMAIN QueuesTaken(stack) /\ \A i \in DOMAIN QueuesTaken(stack) : i <= d
    BY <1>1
  <1>4. Fifo!Emission
    BY <1>2, <1>3 DEF QueuesOf, QueuesTaken, CallsIn, Calls, Fifo!Emission
  <1>5. QED
    BY <1>4 DEF Fifo!Next

-----------------------------------------------------------------------------
(* The operations. *)
QueueStep == OrderInv' /\ (Stutters \/ Fifo!Next)

LEMMA SameStep ==
  ASSUME OrderInv, UNCHANGED <<listof, stack>>
  PROVE  QueueStep
  BY DEF QueueStep, OrderInv, Stutters

LEMMA EnterStep ==
  ASSUME EventsInv, OrderInv, NEW d \in Coros, Enter(d, stack), listof' = listof
  PROVE  QueueStep
  <1>1. LuaGrown(stack', stack, d)
    BY AppendLua DEF Enter, EventsInv
  <1>2. QED
    BY <1>1, LuaQueues DEF LuaGrown, QueueStep, OrderInv, Stutters

LEMMA ExitStack ==
  ASSUME EventsInv, OrderInv, NEW c \in Coros, Running(c), NEW k, Exit(c, k)
  PROVE  OrderedCalls(stack') /\ QueuesTaken(stack') = QueuesTaken(stack)
  <1>1. ~Idle /\ stack[Len(stack)].at = "lua" /\ stack' = Below
    BY RunningFacts DEF Exit
  <1>2. Grown(stack, stack')
    BY <1>1, BelowCalls DEF EventsInv
  <1>3. QED
    BY <1>1, <1>2, LuaQueues DEF OrderInv

LEMMA AwaitStep ==
  ASSUME EventsInv, OrderInv, NEW c \in Coros, NEW E, NEW how, Await(c, E, how)
  PROVE  QueueStep
  <1>1. /\ Running(c) /\ Exit(c, "await")
        /\ \A e \in Events :
             listof'[e] = IF e \in E THEN addthread(listof[e], c) ELSE listof[e]
    BY DEF Await
  <1>2. OrderedCalls(stack') /\ QueuesTaken(stack') = QueuesTaken(stack)
    BY <1>1, ExitStack
  <1>3. \A e \in Events : ~InList(listof[e], c)
    BY <1>1, RunningFacts DEF ListsIn
  <1>4. ASSUME NEW e \in Events
        PROVE  /\ listof'[e] = None \/ Listed(listof'[e])
               /\ \/ QueueOf(listof'[e]) = QueueOf(listof[e])
                  \/ /\ QueueOf(listof'[e]) = Append(QueueOf(listof[e]), c)
                     /\ \A i \in DOMAIN QueueOf(listof[e]) : QueueOf(listof[e])[i] # c
    <2>1. listof[e] = None \/ (Listed(listof[e]) /\ listof[e] \in Rings)
      BY DEF OrderInv, OrderedLists, EventsInv, GoodLists
    <2>2. CASE e \in E
      <3>1. listof'[e] = addthread(listof[e], c)
        BY <1>1, <2>2
      <3>2. PICK l : l = listof[e]
        OBVIOUS
      <3>3. /\ Listed(addthread(l, c)) /\ QueueOf(addthread(l, c)) = Append(QueueOf(l), c)
            /\ \A i \in DOMAIN QueueOf(l) : QueueOf(l)[i] # c
        BY <1>3, <2>1, <3>2, QueueAdd
      <3>4. QED
        BY <3>1, <3>2, <3>3
    <2>3. CASE e \notin E
      BY <1>1, <2>1, <2>3
    <2>4. QED
      BY <2>2, <2>3
  <1>5. OrderedLists(listof')
    BY <1>4 DEF OrderedLists
  <1>6. Fifo!Next
    BY <1>2, <1>4, FifoCome
  <1>7. QED
    BY <1>2, <1>5, <1>6 DEF QueueStep, OrderInv

LEMMA DeliverStep ==
  ASSUME NEW h \in Coros, NEW lists, NEW s, OrderedLists(lists), GoodCalls(s),
         OrderedCalls(s), Deliver(h, lists, s)
  PROVE  OrderInv' /\ Gives(h, QueuesOf(lists), QueuesTaken(s))
  <1>1. CASE listof' = lists /\ stack' = s
    BY <1>1 DEF OrderInv, Gives
  <1>2. CASE listof' = ListsWithout(lists, h) /\ Enter(h, CallsWithout(s, h))
    <2>1. PICK u : u = CallsWithout(s, h)
      OBVIOUS
    <2>2. OrderedCalls(u) /\ QueuesTaken(u) = TakenWithout(h, QueuesTaken(s))
      BY <2>1, CallsQueues
    <2>3. GoodCalls(u)
      BY <2>1, CallsWithoutSets
    <2>4. LuaGrown(stack', u, h)
      BY <1>2, <2>1, <2>3, AppendLua DEF Enter
    <2>5. OrderedCalls(stack') /\ QueuesTaken(stack') = QueuesTaken(u)
      BY <2>2, <2>4, LuaQueues DEF LuaGrown
    <2>6. OrderedLists(listof') /\ QueuesOf(listof') = QueuesWithout(h, QueuesOf(lists))
      BY <1>2, ListsQueues
    <2>7. QED
      BY <2>2, <2>5, <2>6 DEF OrderInv, Gives
  <1>3. QED
    BY <1>1, <1>2 DEF Deliver

LEMMA EmitOneStep ==
  ASSUME EventsInv, OrderInv, NEW c, NEW e \in Events, EmitOne(c, e)
  PROVE  QueueStep
  <1>1. PICK l : l = listof[e]
    OBVIOUS
  <1>2. l # None /\ l \in Rings /\ Listed(l)
    BY <1>1 DEF EmitOne, EventsInv, GoodLists, OrderInv, OrderedLists
  <1>3. l # EmptyList
    BY <1>2, HeadMember, ListFacts
  <1>4. PICK q : q = QueueOf(l)
    OBVIOUS
  <1>5. /\ q # <<>> /\ HeadOf(l) = Head(q) /\ HeadOf(l) \in Coros
        /\ Listed(WithoutHead(l)) /\ QueueOf(WithoutHead(l)) = Tail(q)
    BY <1>2, <1>3, <1>4, QueueHead
  <1>6. PICK m : m = Kept(WithoutHead(l))
    OBVIOUS
  <1>7. QueueOf(m) = Tail(q) /\ (m = None \/ Listed(m))
    BY <1>5, <1>6, QueueKept
  <1>8. PICK lists : lists = [listof EXCEPT ![e] = m]
    OBVIOUS
  <1>9. DOMAIN listof = Events
    BY DEF EventsInv, GoodLists
  <1>10. OrderedLists(lists)
    BY <1>7, <1>8, <1>9 DEF OrderInv, OrderedLists
  <1>11. QueuesOf(lists) = [QueuesOf(listof) EXCEPT ![e] = Tail(q)]
    <2>1. \A x \in Events : QueueOf(lists[x]) = IF x = e THEN Tail(q) ELSE QueueOf(listof[x])
      BY <1>7, <1>8, <1>9
    <2>2. QED
      BY <2>1 DEF QueuesOf
  <1>12. Deliver(Head(q), lists, stack)
    BY <1>1, <1>5, <1>6, <1>8 DEF EmitOne
  <1>13. OrderInv' /\ Gives(Head(q), QueuesOf(lists), QueuesTaken(stack))
    BY <1>5, <1>10, <1>12, DeliverStep DEF EventsInv, OrderInv
  <1>14. Fifo!Next
    BY <1>1, <1>4, <1>5, <1>11, <1>13, FifoOne
  <1>15. QED
    BY <1>13, <1>14 DEF QueueStep

LEMMA EmitAllStep ==
  ASSUME EventsInv, OrderInv, NEW c \in Coros, NEW e \in Events, EmitAll(c, e)
  PROVE  QueueStep
  <1>1. PICK l : l = listof[e]
    OBVIOUS
  <1>2. l # None /\ l \in Rings /\ Listed(l) /\ DOMAIN listof = Events
    BY <1>1 DEF EmitAll, EventsInv, GoodLists, OrderInv, OrderedLists
  <1>3. l # EmptyList
    BY <1>2, HeadMember, ListFacts
  <1>4. QueueOf(l) # <<>>
    BY <1>2, <1>3, QueueHead
  <1>5. CallGrown(stack', stack, e, l)
    BY <1>1, EmitAllInv
  <1>6. PICK d : d = Len(stack')
    OBVIOUS
  <1>7. Grown(stack', stack) /\ stack'[d].at = "emitall" /\ stack'[d].list = l
    BY <1>5, <1>6 DEF CallGrown
  <1>8. /\ \A i \in CallsIn(stack) : i < d
        /\ OrderedCalls(stack') <=> OrderedCalls(stack) /\ Listed(l)
        /\ QueuesTaken(stack') =
             [i \in CallsIn(stack) \cup {d} |->
                IF i = d THEN QueueOf(l) ELSE QueuesTaken(stack)[i]]
    <2>1. Grown(stack', stack) /\ stack'[Len(stack')].at = "emitall"
      BY <1>6, <1>7
    <2>2. /\ \A i \in CallsIn(stack) : i < Len(stack')
          /\ OrderedCalls(stack') <=> OrderedCalls(stack) /\ Listed(stack'[Len(stack')].list)
          /\ QueuesTaken(stack') =
               [i \in CallsIn(stack) \cup {Len(stack')} |->
                  IF i = Len(stack') THEN QueueOf(stack'[Len(stack')].list)
                  ELSE QueuesTaken(stack)[i]]
      BY <2>1, CallQueues, Zenon
    <2>3. QED
      BY <1>6, <1>7, <2>2, Zenon
  <1>9. \A x \in Events : listof'[x] = IF x = e THEN None ELSE listof[x]
    BY <1>2 DEF EmitAll
  <1>10. OrderedLists(listof')
    BY <1>9 DEF OrderInv, OrderedLists
  <1>11. QueuesOf(listof') = [QueuesOf(listof) EXCEPT ![e] = <<>>]
    BY <1>9, EmptyListed DEF QueuesOf
  <1>12. Fifo!Next
    BY <1>1, <1>4, <1>8, <1>11, FifoAll
  <1>13. QED
    BY <1>2, <1>8, <1>10, <1>12 DEF QueueStep, OrderInv

(* The stack of a call of emitall. *)
LEMMA EmittingStack ==
  ASSUME EventsInv, OrderInv, Emitting
  PROVE  /\ ~Idle /\ Top = stack[Len(stack)] /\ Top.event \in Events
         /\ Grown(stack, Below) /\ GoodCalls(Below) /\ stack[Len(stack)].at = "emitall"
         /\ Len(stack) \in CallsIn(stack) /\ Len(stack) \notin CallsIn(Below)
         /\ \A i \in CallsIn(stack) : i <= Len(stack)
         /\ CallsIn(Below) = CallsIn(stack) \ {Len(stack)}
         /\ OrderedCalls(Below) /\ Listed(Top.list)
         /\ QueuesTaken(Below) = [i \in CallsIn(stack) \ {Len(stack)} |-> QueuesTaken(stack)[i]]
         /\ QueuesTaken(stack) =
              [i \in CallsIn(Below) \cup {Len(stack)} |->
                 IF i = Len(stack) THEN QueueOf(Top.list) ELSE QueuesTaken(Below)[i]]
  <1>1. ~Idle /\ Top = stack[Len(stack)] /\ stack[Len(stack)].at = "emitall"
    BY DEF Emitting, Top
  <1>2. Grown(stack, Below) /\ GoodCalls(Below) /\ GoodCalls(stack)
    BY <1>1, BelowCalls DEF EventsInv
  <1>3. /\ CallsIn(stack) = CallsIn(Below) \cup {Len(stack)} /\ Len(stack) \notin CallsIn(Below)
        /\ \A i \in CallsIn(Below) : i < Len(stack) /\ stack[i] = Below[i]
        /\ OrderedCalls(stack) <=> OrderedCalls(Below) /\ Listed(stack[Len(stack)].list)
        /\ QueuesTaken(stack) =
             [i \in CallsIn(Below) \cup {Len(stack)} |->
                IF i = Len(stack) THEN QueueOf(stack[Len(stack)].list) ELSE QueuesTaken(Below)[i]]
    BY <1>1, <1>2, CallQueues, Zenon
  <1>4. Len(stack) \in Nat /\ Len(stack) \in DOMAIN stack /\ \A i \in DOMAIN stack : i <= Len(stack)
    BY <1>1, <1>2 DEF Grown, Idle
  <1>5. Top.event \in Events
    BY <1>1, <1>2, <1>4, FrameFacts DEF GoodCalls
  <1>6. \A i \in CallsIn(stack) : i <= Len(stack)
    BY <1>4 DEF CallsIn
  <1>7. CallsIn(Below) = CallsIn(stack) \ {Len(stack)} /\ Len(stack) \in CallsIn(stack)
    BY <1>3
  <1>8. QueuesTaken(Below) = [i \in CallsIn(stack) \ {Len(stack)} |-> QueuesTaken(stack)[i]]
    <2>1. \A i \in CallsIn(Below) : QueuesTaken(stack)[i] = QueueOf(Below[i].list)
      BY <1>3 DEF QueuesTaken
    <2>2. QED
      BY <1>7, <2>1 DEF QueuesTaken
  <1>9. OrderedCalls(Below) /\ Listed(Top.list)
    BY <1>1, <1>3 DEF OrderInv
  <1>10. QED
    BY <1>1, <1>2, <1>3, <1>5, <1>6, <1>7, <1>8, <1>9, Zenon

LEMMA EmitReturnsStep ==
  ASSUME EventsInv, OrderInv, EmitReturns
  PROVE  QueueStep
  <1>1. /\ Emitting /\ Top.list = EmptyList /\ stack' = Below /\ listof' = listof
    BY DEF EmitReturns, eventVars
  <1>2. PICK d : d = Len(stack)
    OBVIOUS
  <1>3. /\ d \in CallsIn(stack) /\ \A i \in CallsIn(stack) : i <= d
        /\ stack[d].list = EmptyList /\ OrderedCalls(Below)
        /\ QueuesTaken(Below) = [i \in CallsIn(stack) \ {d} |-> QueuesTaken(stack)[i]]
    BY <1>1, <1>2, EmittingStack, Zenon
  <1>4. QueueOf(stack[d].list) = <<>>
    BY <1>3, EmptyListed
  <1>5. Fifo!Next
    BY <1>1, <1>3, <1>4, FifoEmission
  <1>6. QED
    BY <1>1, <1>3, <1>5 DEF QueueStep, OrderInv

LEMMA EmitNextStep ==
  ASSUME EventsInv, OrderInv, EmitNext
  PROVE  QueueStep
  <1>1. PICK l : l = Top.list
    OBVIOUS
  <1>2. PICK d : d = Len(stack)
    OBVIOUS
  <1>3. Emitting /\ l # EmptyList
    BY <1>1 DEF EmitNext
  <1>4. /\ d \in CallsIn(stack) /\ \A i \in CallsIn(stack) : i <= d
        /\ stack[d].list = l /\ Listed(l) /\ OrderedCalls(Below) /\ d \notin CallsIn(Below)
        /\ CallsIn(Below) = CallsIn(stack) \ {d}
        /\ QueuesTaken(stack) =
             [i \in CallsIn(Below) \cup {d} |->
                IF i = d THEN QueueOf(l) ELSE QueuesTaken(Below)[i]]
    BY <1>1, <1>2, <1>3, EmittingStack, Zenon
  <1>5. PICK q : q = QueueOf(l)
    OBVIOUS
  <1>6. PICK m : m = WithoutHead(l)
    OBVIOUS
  <1>7. /\ q # <<>> /\ HeadOf(l) = Head(q) /\ HeadOf(l) \in Coros
        /\ Listed(m) /\ QueueOf(m) = Tail(q)
    BY <1>3, <1>4, <1>5, <1>6, QueueHead
  <1>8. PICK s : s = Append(Below, EmitAllCall(Top.event, m))
    OBVIOUS
  <1>9. CallGrown(s, Below, Top.event, m)
    BY <1>3, <1>7, <1>8, EmittingStack, AppendCall DEF Listed
  <1>10. Grown(s, Below) /\ s[Len(s)].at = "emitall" /\ s[Len(s)].list = m
    BY <1>9 DEF CallGrown
  <1>11. GoodCalls(s) /\ Len(s) = d
    <2>1. Grown(stack, Below)
      BY <1>3, EmittingStack
    <2>2. QED
      BY <1>2, <1>10, <2>1 DEF Grown
  <1>12. /\ OrderedCalls(s)
         /\ QueuesTaken(s) = [i \in CallsIn(Below) \cup {d} |->
                                IF i = d THEN Tail(q) ELSE QueuesTaken(Below)[i]]
    <2>1. /\ OrderedCalls(s) <=> OrderedCalls(Below) /\ Listed(s[Len(s)].list)
          /\ QueuesTaken(s) =
               [i \in CallsIn(Below) \cup {Len(s)} |->
                  IF i = Len(s) THEN QueueOf(s[Len(s)].list) ELSE QueuesTaken(Below)[i]]
      BY <1>10, CallQueues, Zenon
    <2>2. QED
      BY <1>4, <1>7, <1>10, <1>11, <2>1, Zenon
  <1>13. QueuesTaken(s) = [QueuesTaken(stack) EXCEPT ![d] = Tail(q)]
    <2>1. PICK B : B = QueuesTaken(Below)
      OBVIOUS
    <2>2. PICK C : C = CallsIn(Below)
      OBVIOUS
    <2>3. PICK t : t = Tail(q)
      OBVIOUS
    <2>4. /\ QueuesTaken(stack) = [i \in C \cup {d} |-> IF i = d THEN q ELSE B[i]]
          /\ QueuesTaken(s) = [i \in C \cup {d} |-> IF i = d THEN t ELSE B[i]]
      BY <1>4, <1>5, <1>12, <2>1, <2>2, <2>3, Zenon
    <2>5. [i \in C \cup {d} |-> IF i = d THEN t ELSE B[i]] =
          [[i \in C \cup {d} |-> IF i = d THEN q ELSE B[i]] EXCEPT ![d] = t]
      OBVIOUS
    <2>6. QED
      BY <2>3, <2>4, <2>5, Zenon
  <1>14. Deliver(Head(q), listof, s)
    BY <1>1, <1>6, <1>7, <1>8 DEF EmitNext
  <1>15. OrderInv' /\ Gives(Head(q), QueuesOf(listof), QueuesTaken(s))
    BY <1>7, <1>11, <1>12, <1>14, DeliverStep DEF OrderInv
  <1>16. QueueOf(stack[d].list) = q
    BY <1>4, <1>5
  <1>17. Fifo!Next
    <2>1. /\ QueueOf(stack[d].list) # <<>>
          /\ Gives(Head(QueueOf(stack[d].list)), QueuesOf(listof),
                   [QueuesTaken(stack) EXCEPT ![d] = Tail(QueueOf(stack[d].list))])
      BY <1>7, <1>13, <1>15, <1>16
    <2>2. QED
      BY <1>4, <2>1, FifoEmission
  <1>18. QED
    BY <1>15, <1>17 DEF QueueStep

LEMMA CancelStep ==
  ASSUME EventsInv, OrderInv, NEW c, NEW d \in Coros, CancelAwait(c, d)
  PROVE  QueueStep
  <1>1. listof' = ListsWithout(listof, d) /\ Enter(d, CallsWithout(stack, d))
    BY DEF CancelAwait
  <1>2. OrderedLists(listof') /\ QueuesOf(listof') = QueuesWithout(d, QueuesOf(listof))
    BY <1>1, ListsQueues DEF OrderInv
  <1>3. PICK u : u = CallsWithout(stack, d)
    OBVIOUS
  <1>4. /\ OrderedCalls(u) /\ QueuesTaken(u) = TakenWithout(d, QueuesTaken(stack))
        /\ GoodCalls(u)
    BY <1>3, CallsQueues, CallsWithoutSets DEF OrderInv, EventsInv
  <1>5. LuaGrown(stack', u, d)
    BY <1>1, <1>3, <1>4, AppendLua DEF Enter
  <1>6. OrderedCalls(stack') /\ QueuesTaken(stack') = QueuesTaken(u)
    BY <1>4, <1>5, LuaQueues DEF LuaGrown
  <1>7. Fifo!Next
    BY <1>2, <1>4, <1>6, FifoLeave
  <1>8. QED
    BY <1>2, <1>6, <1>7 DEF QueueStep, OrderInv

-----------------------------------------------------------------------------
(* The modules built on events. *)
LEMMA MutexStep ==
  ASSUME EventsInv, OrderInv, NEW c \in Coros, MutexNext(c)
  PROVE  QueueStep
  <1>1. PICK m \in Mutexes : Lock(c, m) \/ Unlock(c, m)
    BY DEF MutexNext
  <1>2. m \in Events
    BY UsersAssumption
  <1>3. \/ Await(c, {m}, "any") \/ EmitOne(c, m)
        \/ UNCHANGED <<threadVars, eventVars>>
    BY <1>1 DEF Lock, Unlock
  <1>4. QED
    BY <1>2, <1>3, AwaitStep, EmitOneStep, SameStep DEF threadVars, eventVars

LEMMA PromiseStep ==
  ASSUME EventsInv, OrderInv, NEW c \in Coros, PromiseNext(c)
  PROVE  QueueStep
  <1>1. ASSUME NEW P, PromiseAny(c, P) \/ PromiseAll(c, P)
        PROVE  QueueStep
    BY <1>1, AwaitStep DEF PromiseAny, PromiseAll
  <1>2. ASSUME NEW p \in Promises, Fulfill(c, p)
        PROVE  QueueStep
    <2>1. p \in Events /\ (EmitAll(c, p) \/ UNCHANGED <<threadVars, eventVars>>)
      BY <1>2, UsersAssumption DEF Fulfill
    <2>2. QED
      BY <2>1, EmitAllStep, SameStep DEF threadVars, eventVars
  <1>3. QED
    BY <1>1, <1>2 DEF PromiseNext

LEMMA QueuedStep ==
  ASSUME EventsInv, OrderInv, NEW c \in Coros, QueuedNext(c)
  PROVE  QueueStep
  <1>1. UNCHANGED <<threadVars, eventVars>> => QueueStep
    BY SameStep DEF threadVars, eventVars
  <1>2. ASSUME NEW q \in Queues, QueuedEmit(c, q)
        PROVE  QueueStep
    <2>1. /\ q \in Events
          /\ EmitOne(c, q) \/ EmitAll(c, q) \/ UNCHANGED <<threadVars, eventVars>>
      BY <1>2, UsersAssumption DEF QueuedEmit
    <2>2. QED
      BY <1>1, <2>1, EmitOneStep, EmitAllStep
  <1>3. ASSUME NEW Q, QueuedAny(c, Q) \/ QueuedAll(c, Q)
        PROVE  QueueStep
    <2>1. (\E E, how : Await(c, E, how)) \/ UNCHANGED <<threadVars, eventVars>>
      BY <1>3 DEF QueuedAny, QueuedAll
    <2>2. QED
      BY <1>1, <2>1, AwaitStep
  <1>4. QED
    BY <1>2, <1>3 DEF QueuedNext

LEMMA EventStep ==
  ASSUME EventsInv, OrderInv, NEW c \in Coros, EventNext(c)
  PROVE  QueueStep
  <1>1. ASSUME NEW d \in Coros, CloseAwait(c, d)
        PROVE  QueueStep
    BY <1>1, SameStep DEF CloseAwait, eventVars
  <1>2. QED
    BY <1>1, AwaitStep, EmitOneStep, EmitAllStep, CancelStep DEF EventNext

LEMMA NextStep ==
  ASSUME EventsInv, OrderInv, [Next]_vars
  PROVE  QueueStep
  <1>1. CASE UNCHANGED vars
    BY <1>1, SameStep DEF vars, threadVars, eventVars
  <1>2. ASSUME NEW d \in Coros, Enter(d, stack), UNCHANGED <<eventVars, userVars>>
        PROVE  QueueStep
    BY <1>2, EnterStep DEF eventVars
  <1>3. ASSUME NEW c \in Coros, Yield(c), UNCHANGED <<eventVars, userVars>>
        PROVE  QueueStep
    <2>1. OrderedCalls(stack') /\ QueuesTaken(stack') = QueuesTaken(stack)
      BY <1>3, ExitStack DEF Yield
    <2>2. QED
      BY <1>3, <2>1 DEF eventVars, QueueStep, OrderInv, Stutters
  <1>4. QED
    BY <1>1, <1>2, <1>3, MutexStep, EventStep, PromiseStep, QueuedStep, EmitNextStep,
       EmitReturnsStep DEF Next, Start, Resume

LEMMA InitQueues ==
  ASSUME Init
  PROVE  OrderInv /\ Fifo!Init
  <1>1. listof = [e \in Events |-> None] /\ stack = <<>>
    BY DEF Init, EventInit, ThreadsInit
  <1>2. Calls = {} /\ CallsIn(stack) = {}
    BY <1>1 DEF Calls, CallsIn
  <1>3. OrderInv
    BY <1>1, <1>2 DEF OrderInv, OrderedLists, OrderedCalls
  <1>4. [e \in Events |-> QueueOf(listof[e])] = [e \in Events |-> <<>>]
    BY <1>1, EmptyListed
  <1>5. [i \in Calls |-> QueueOf(stack[i].list)] = <<>>
    <2>1. [i \in {} |-> QueueOf(stack[i].list)] = <<>>
      OBVIOUS
    <2>2. QED
      BY <1>2, <2>1, Zenon
  <1>6. QED
    BY <1>3, <1>4, <1>5 DEF Fifo!Init

(* The circular lists of event.lua are queues: coroutines leave them in    *)
(* the order they came, or when canceled, and emitall resumes exactly the  *)
(* ones that awaited when it was called, whatever the ones it resumes do.  *)
THEOREM Implements == Spec => ImplementsQueues
  <1>1. Init => OrderInv /\ Fifo!Init
    BY InitQueues
  <1>2. EventsInv /\ OrderInv /\ [Next]_vars => OrderInv' /\ [Fifo!Next]_(Fifo!vars)
    BY NextStep, FifoStutter DEF QueueStep
  <1>3. UsersInv => EventsInv
    BY DEF UsersInv
  <1>4. QED
    BY <1>1, <1>2, <1>3, AlwaysUsersInv, PTL DEF Spec, ImplementsQueues, Fifo!Spec

=============================================================================
