--------------------------- MODULE ReserverProofs ---------------------------
(***************************************************************************)
(* Proofs about Reserver, for any addresses, handles and uses.             *)
(*                                                                         *)
(* Ownership and the counters support each other: an address is given back *)
(* when its counter reaches one, which is right only because the counter   *)
(* is the number of uses, and a counter is only changed by the owner.  A   *)
(* handle that does not count needs that its pool never uses one address   *)
(* for two things (PlainUsesDisjoint).                                     *)
(***************************************************************************)
EXTENDS Reserver, FiniteSetTheorems, TLAPS

PlainUsesDisjoint ==
    \A u, v \in uses :
        u # v /\ u.handle = v.handle /\ u.handle \notin Counting => u.addrs \cap v.addrs = {}

ReserverInv == TypeOK /\ OwnedExactlyWhileUsed /\ CountsUses /\ PlainUsesDisjoint

(* The uses of an address are finitely many.                               *)
LEMMA UsesFinite ==
    ASSUME WellFormed, TypeOK, NEW h, NEW a
    PROVE  IsFiniteSet(UsesOf(h, a))
<1>1. UsesOf(h, a) \subseteq Use
  BY DEF UsesOf, TypeOK
<1> QED BY <1>1, FS_Subset DEF WellFormed

(* Before the first Hold nothing is owned.                                 *)
LEMMA ReserverInit == ASSUME WellFormed, Init PROVE ReserverInv
<1>1. \A h, a : UsesOf(h, a) = {}
  BY DEF Init, UsesOf
<1>2. TypeOK
  BY DEF Init, TypeOK
<1>3. OwnedExactlyWhileUsed
  BY <1>1 DEF Init, OwnedExactlyWhileUsed, WellFormed
<1>4. CountsUses
  BY <1>1, FS_EmptySet DEF Init, CountsUses, WellFormed
<1> QED BY <1>2, <1>3, <1>4 DEF ReserverInv, PlainUsesDisjoint, Init

(* A Hold that succeeds makes the pool the owner and counts the use.       *)
LEMMA HoldStep ==
    ASSUME WellFormed, ReserverInv, NEW u \in Use, HoldUse(u)
    PROVE  ReserverInv'
<1> USE DEF WellFormed
<1>1. /\ u \notin uses /\ uses' = uses \cup {u}
      /\ u.handle \in Handle /\ u.addrs \subseteq Address
      /\ \A a \in u.addrs : accounts[a] \in {Free, u.handle}
      /\ accounts' = [a \in Address |-> IF a \in u.addrs THEN u.handle ELSE accounts[a]]
      /\ refsCounter' = [k \in Counting |-> [a \in Address |->
            IF k = u.handle /\ a \in u.addrs THEN refsCounter[k][a] + 1 ELSE refsCounter[k][a]]]
  BY DEF HoldUse, Hold, canHold
<1>2. TypeOK'
  BY <1>1 DEF ReserverInv, TypeOK
<1>3. ASSUME NEW h, NEW a
      PROVE  UsesOf(h, a)' = IF h = u.handle /\ a \in u.addrs THEN UsesOf(h, a) \cup {u}
                             ELSE UsesOf(h, a)
  BY <1>1 DEF UsesOf
<1>4. OwnedExactlyWhileUsed'
  <2> SUFFICES ASSUME NEW a \in Address, NEW h \in Handle
               PROVE  accounts'[a] = h <=> UsesOf(h, a)' # {}
    BY DEF OwnedExactlyWhileUsed
  <2>1. accounts[a] = h <=> UsesOf(h, a) # {}
    BY DEF ReserverInv, OwnedExactlyWhileUsed
  <2>2. CASE a \notin u.addrs
    BY <1>1, <1>3, <2>1, <2>2
  <2>3. CASE a \in u.addrs
    <3>1. accounts'[a] = u.handle
      BY <1>1, <2>3
    <3>2. CASE h = u.handle
      BY <1>3, <2>3, <3>1, <3>2
    <3>3. CASE h # u.handle
      <4>1. accounts[a] # h
        BY <1>1, <2>3, <3>3
      <4> QED BY <1>3, <2>1, <3>1, <3>3, <4>1
    <3> QED BY <3>2, <3>3
  <2> QED BY <2>2, <2>3
<1>5. CountsUses'
  <2> SUFFICES ASSUME NEW h \in Counting, NEW a \in Address
               PROVE  refsCounter'[h][a] = Cardinality(UsesOf(h, a)')
    BY DEF CountsUses
  <2>1. refsCounter[h][a] = Cardinality(UsesOf(h, a)) /\ IsFiniteSet(UsesOf(h, a))
    BY UsesFinite DEF ReserverInv, CountsUses
  <2>2. CASE h = u.handle /\ a \in u.addrs
    <3>1. u \notin UsesOf(h, a)
      BY <1>1 DEF UsesOf
    <3>2. Cardinality(UsesOf(h, a) \cup {u}) = Cardinality(UsesOf(h, a)) + 1
      BY <2>1, <3>1, FS_AddElement
    <3> QED BY <1>1, <1>3, <2>1, <2>2, <3>2
  <2>3. CASE ~(h = u.handle /\ a \in u.addrs)
    BY <1>1, <1>3, <2>1, <2>3
  <2> QED BY <2>2, <2>3
<1>6. PlainUsesDisjoint'
  BY <1>1 DEF ReserverInv, PlainUsesDisjoint, HoldUse
<1> QED BY <1>2, <1>4, <1>5, <1>6 DEF ReserverInv

(* The pool owns every address of a use, and the counter tells whether it  *)
(* is the only one.                                                        *)
LEMMA LastUse ==
    ASSUME WellFormed, ReserverInv, NEW u \in uses, NEW a \in u.addrs
    PROVE  /\ a \in Address /\ u.handle \in Handle
           /\ accounts[a] = u.handle
           /\ LastReference(u.handle, a) <=> UsesOf(u.handle, a) \ {u} = {}
           /\ u.handle \in Counting =>
                 /\ refsCounter[u.handle][a] \in Nat
                 /\ Cardinality(UsesOf(u.handle, a) \ {u}) = refsCounter[u.handle][a] - 1
<1>1. u \in Use /\ a \in Address /\ u.handle \in Handle
  BY DEF ReserverInv, TypeOK, WellFormed
<1>2. u \in UsesOf(u.handle, a)
  BY DEF UsesOf
<1>3. accounts[a] = u.handle
  BY <1>1, <1>2 DEF ReserverInv, OwnedExactlyWhileUsed
<1>4. CASE u.handle \in Counting
  <2> DEFINE S == UsesOf(u.handle, a)
  <2>1. IsFiniteSet(S) /\ refsCounter[u.handle][a] = Cardinality(S)
    BY <1>1, <1>4, UsesFinite DEF ReserverInv, CountsUses
  <2>2. /\ Cardinality(S) \in Nat /\ IsFiniteSet(S \ {u})
        /\ Cardinality(S \ {u}) = Cardinality(S) - 1
    BY <1>2, <2>1, FS_CardinalityType, FS_RemoveElement
  <2>3. Cardinality(S \ {u}) = 0 <=> S \ {u} = {}
    BY <2>2, FS_EmptySet
  <2>4. Cardinality(S \ {u}) \in Nat
    BY <2>2, FS_CardinalityType
  <2> HIDE DEF S
  <2>5. Cardinality(S) <= 1 <=> S \ {u} = {}
    BY <2>2, <2>3, <2>4
  <2> QED BY <1>1, <1>3, <1>4, <2>1, <2>2, <2>5 DEF LastReference, S
<1>5. CASE u.handle \notin Counting
  <2>1. UsesOf(u.handle, a) \ {u} = {}
    BY <1>5 DEF UsesOf, ReserverInv, PlainUsesDisjoint
  <2> QED BY <1>1, <1>3, <1>5, <2>1 DEF LastReference
<1> QED BY <1>4, <1>5

(* A Release gives back exactly the addresses of which it was the last     *)
(* use; it is never refused.                                               *)
LEMMA ReleaseStep ==
    ASSUME WellFormed, ReserverInv, NEW u \in Use, ReleaseUse(u)
    PROVE  ReserverInv'
<1> DEFINE k == u.handle
<1>1. u \in uses /\ uses' = uses \ {u}
  BY DEF ReleaseUse
<1>2. \A a \in u.addrs : canRelease(k, a)
  BY <1>1, LastUse DEF canRelease
<1>3. /\ accounts' = [a \in Address |->
            IF a \in u.addrs /\ LastReference(k, a) THEN Free ELSE accounts[a]]
      /\ refsCounter' = [h \in Counting |-> [a \in Address |->
            IF h # k \/ a \notin u.addrs THEN refsCounter[h][a]
            ELSE IF LastReference(k, a) THEN 0 ELSE refsCounter[h][a] - 1]]
  BY <1>2 DEF ReleaseUse, Release
<1>4. ASSUME NEW h, NEW a
      PROVE  UsesOf(h, a)' = IF h = k /\ a \in u.addrs THEN UsesOf(h, a) \ {u}
                             ELSE UsesOf(h, a)
  BY <1>1 DEF UsesOf
<1>5. OwnedExactlyWhileUsed'
  <2> SUFFICES ASSUME NEW a \in Address, NEW h \in Handle
               PROVE  accounts'[a] = h <=> UsesOf(h, a)' # {}
    BY DEF OwnedExactlyWhileUsed
  <2>1. accounts[a] = h <=> UsesOf(h, a) # {}
    BY DEF ReserverInv, OwnedExactlyWhileUsed
  <2>2. CASE a \notin u.addrs
    BY <1>3, <1>4, <2>1, <2>2
  <2>3. CASE a \in u.addrs
    <3>1. accounts[a] = k /\ (LastReference(k, a) <=> UsesOf(k, a) \ {u} = {})
      BY <1>1, <2>3, LastUse
    <3>2. CASE h = k
      BY <1>3, <1>4, <2>3, <3>1, <3>2 DEF WellFormed
    <3>3. CASE h # k
      <4>1. UsesOf(h, a)' = {}
        BY <1>4, <2>1, <3>1, <3>3
      <4>2. accounts'[a] \in {Free, k}
        BY <1>3, <3>1
      <4> QED BY <3>3, <4>1, <4>2 DEF WellFormed
    <3> QED BY <3>2, <3>3
  <2> QED BY <2>2, <2>3
<1>6. ASSUME NEW h \in Counting, NEW a \in Address
      PROVE  refsCounter'[h][a] = Cardinality(UsesOf(h, a)') /\ refsCounter'[h][a] \in Nat
  <2>1. refsCounter[h][a] = Cardinality(UsesOf(h, a)) /\ refsCounter[h][a] \in Nat
    BY DEF ReserverInv, CountsUses, TypeOK
  <2>2. CASE h = k /\ a \in u.addrs
    <3>1. /\ LastReference(k, a) <=> UsesOf(k, a) \ {u} = {}
          /\ Cardinality(UsesOf(k, a) \ {u}) = refsCounter[k][a] - 1
      BY <1>1, <2>2, LastUse
    <3>2. UsesOf(h, a)' = UsesOf(k, a) \ {u}
      BY <1>4, <2>2
    <3>3. CASE LastReference(k, a)
      <4>1. refsCounter'[h][a] = 0
        BY <1>3, <2>2, <3>3
      <4> QED BY <3>1, <3>2, <3>3, <4>1, FS_EmptySet
    <3>4. CASE ~LastReference(k, a)
      <4>1. refsCounter'[h][a] = refsCounter[k][a] - 1
        BY <1>3, <2>2, <3>4
      <4>2. refsCounter[k][a] > 1
        BY <2>1, <2>2, <3>4 DEF LastReference
      <4> QED BY <2>1, <2>2, <3>1, <3>2, <4>1, <4>2
    <3> QED BY <3>3, <3>4
  <2>3. CASE ~(h = k /\ a \in u.addrs)
    BY <1>3, <1>4, <2>1, <2>3
  <2> QED BY <2>2, <2>3
<1>7. TypeOK'
  <2>1. accounts' \in [Address -> Handle \cup {Free}] /\ uses' \subseteq Use
    BY <1>1, <1>3 DEF ReserverInv, TypeOK
  <2>2. refsCounter' \in [Counting -> [Address -> Nat]]
    <3>1. ASSUME NEW h \in Counting PROVE refsCounter'[h] \in [Address -> Nat]
      <4>1. refsCounter'[h] = [a \in Address |-> refsCounter'[h][a]]
        BY <1>3
      <4> QED BY <1>6, <4>1
    <3>2. refsCounter' = [h \in Counting |-> refsCounter'[h]]
      BY <1>3
    <3> QED BY <3>1, <3>2
  <2> QED BY <2>1, <2>2 DEF TypeOK
<1>8. CountsUses'
  BY <1>6 DEF CountsUses
<1>9. PlainUsesDisjoint'
  BY <1>1 DEF ReserverInv, PlainUsesDisjoint
<1> QED BY <1>5, <1>7, <1>8, <1>9 DEF ReserverInv

(* Every step of either pool preserves ReserverInv.                        *)
LEMMA ReserverStep ==
    ASSUME WellFormed, ReserverInv, [Next]_vars
    PROVE  ReserverInv'
<1>1. CASE Next
  BY <1>1, HoldStep, ReleaseStep DEF Next
<1>2. CASE UNCHANGED vars
  BY <1>2 DEF vars, ReserverInv, TypeOK, OwnedExactlyWhileUsed, CountsUses,
     PlainUsesDisjoint, UsesOf
<1> QED BY <1>1, <1>2

(* No reservation leaks and none is given back too early, for any number   *)
(* of pools, addresses and transactions: an address is owned exactly by    *)
(* the pool that uses it.                                                  *)
THEOREM OwnedExactly ==
    ASSUME WellFormed
    PROVE  Spec => []OwnedExactlyWhileUsed
<1>1. Init => ReserverInv
  BY ReserverInit
<1>2. ReserverInv /\ [Next]_vars => ReserverInv'
  BY ReserverStep
<1>3. ReserverInv => OwnedExactlyWhileUsed
  BY DEF ReserverInv
<1> QED BY <1>1, <1>2, <1>3, PTL DEF Spec

(* The reference counter of a handle is the number of its uses, and never  *)
(* negative.                                                               *)
THEOREM CountersExact ==
    ASSUME WellFormed
    PROVE  Spec => []CountsUses
<1>1. Init => ReserverInv
  BY ReserverInit
<1>2. ReserverInv /\ [Next]_vars => ReserverInv'
  BY ReserverStep
<1>3. ReserverInv => CountsUses
  BY DEF ReserverInv
<1> QED BY <1>1, <1>2, <1>3, PTL DEF Spec
=============================================================================
