----------------------------- MODULE Rendezvous -----------------------------
(***************************************************************************)
(* What a channel promises (doc/manual.md, system.awaitch): parties meet   *)
(* in pairs, on complementary endpoints, in the order of their offers, and *)
(* each one gets the values of the other; an offer is only kept while no   *)
(* other offer complements it; and only one not yet met is withdrawn.      *)
(***************************************************************************)
EXTENDS Sequences, Naturals

CONSTANTS
  Callers,  \* those who may complement an offer
  Waiters,  \* those who may offer and wait
  Nobody

VARIABLES
  offers,   \* offers that wait: who, and on which endpoints
  asked,    \* the endpoints of the callers that are meeting someone
  got       \* whose values each party got, and has not used yet

Parties == Callers \cup Waiters

(* Endpoint "any" is both ends.  It complements every other one. *)
Ends == {{"in"}, {"out"}, {"in", "out"}}
Opposite(e) == IF e = {"in", "out"} THEN e ELSE {"in", "out"} \ e
Complements(e, f) == Opposite(e) \cap f # {}

Init ==
  /\ offers = <<>>
  /\ asked = [x \in Callers |-> {}]
  /\ got = [w \in Parties |-> Nobody]

Offer(w, e) ==
  /\ got[w] = Nobody
  /\ \A i \in DOMAIN offers : offers[i].who # w
  /\ \A i \in DOMAIN offers : ~Complements(offers[i].end, e)
  /\ offers' = Append(offers, [who |-> w, end |-> e])
  /\ UNCHANGED <<asked, got>>

Meet(x, e) ==
  /\ offers # <<>>
  /\ Complements(Head(offers).end, e)
  /\ got[x] = Nobody
  /\ got[Head(offers).who] = Nobody
  /\ x # Head(offers).who
  /\ offers' = Tail(offers)
  /\ asked' = [asked EXCEPT ![x] = e]
  /\ got' = [got EXCEPT ![x] = Head(offers).who, ![Head(offers).who] = x]

Withdraw(i) ==
  /\ offers' = SubSeq(offers, 1, i - 1) \o SubSeq(offers, i + 1, Len(offers))
  /\ UNCHANGED <<asked, got>>

(* The meeting of x is over: it may use the values at once, or later. *)
Met(x) ==
  /\ asked[x] # {}
  /\ asked' = [asked EXCEPT ![x] = {}]
  /\ got' \in {got, [got EXCEPT ![x] = Nobody]}
  /\ UNCHANGED offers

Use(w) ==
  /\ got[w] # Nobody
  /\ got' = [got EXCEPT ![w] = Nobody]
  /\ UNCHANGED <<asked, offers>>

Next ==
  \/ \E w \in Waiters, e \in Ends : Offer(w, e)
  \/ \E x \in Callers, e \in Ends : Meet(x, e)
  \/ \E x \in Callers : Met(x)
  \/ \E i \in DOMAIN offers : Withdraw(i)
  \/ \E w \in Parties : Use(w)

Spec == Init /\ [][Next]_<<offers, asked, got>>
=============================================================================
