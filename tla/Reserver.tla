------------------------------ MODULE Reserver ------------------------------
(***************************************************************************)
(* The reservation of sender addresses (mempool/reserver): an address that *)
(* has a transaction in one sub-pool is refused to the others.  The EVM    *)
(* pool holds an address once, for as long as the address has transactions *)
(* in it; the pool of Cosmos transactions holds an address once for every  *)
(* transaction it signed, through a handle that counts.                    *)
(*                                                                         *)
(* Hold and Release run under the lock of the tracker and are one step.    *)
(* uses is the view of the pools: what each of them has held and not yet   *)
(* released.                                                               *)
(***************************************************************************)
EXTENDS Naturals, FiniteSets

CONSTANTS
    Address,
    Handle,     \* the handles: one of each pool
    Counting,   \* those made WithRefCounter
    Use,        \* what a pool holds addresses for: [handle, addrs, id]
    Free        \* "no owner"

(* What the pools ask for: addresses, through one of the handles.          *)
WellFormed ==
    /\ Counting \subseteq Handle /\ Free \notin Handle
    /\ IsFiniteSet(Use)
    /\ \A u \in Use : u.handle \in Handle /\ u.addrs \subseteq Address

VARIABLES
    accounts,    \* ReservationTracker.accounts: the owner of each address
    refsCounter, \* refsCounter of each counting handle, 0 when absent
    uses         \* the uses whose Hold succeeded and that were not released

vars == <<accounts, refsCounter, uses>>

Init ==
    /\ accounts = [a \in Address |-> Free]
    /\ refsCounter = [h \in Counting |-> [a \in Address |-> 0]]
    /\ uses = {}

-----------------------------------------------------------------------------
canHold(h, a) == accounts[a] \in {Free, h}

canRelease(h, a) == accounts[a] = h

(* Has: another pool has reserved the address.                             *)
Has(h, a) == accounts[a] \notin {Free, h}

(* Hold when it succeeds; else it changes nothing.                         *)
Hold(h, addrs) ==
    /\ \A a \in addrs : canHold(h, a)
    /\ accounts' = [a \in Address |-> IF a \in addrs THEN h ELSE accounts[a]]
    /\ refsCounter' = [k \in Counting |-> [a \in Address |->
          IF k = h /\ a \in addrs THEN refsCounter[k][a] + 1 ELSE refsCounter[k][a]]]

(* Whether Release gives the address back: the last reference, or a handle *)
(* that does not count.                                                    *)
LastReference(h, a) == h \in Counting => refsCounter[h][a] <= 1

(* Release when it succeeds; else it changes nothing.                      *)
Release(h, addrs) ==
    /\ \A a \in addrs : canRelease(h, a)
    /\ accounts' = [a \in Address |->
          IF a \in addrs /\ LastReference(h, a) THEN Free ELSE accounts[a]]
    /\ refsCounter' = [k \in Counting |-> [a \in Address |->
          IF k # h \/ a \notin addrs THEN refsCounter[k][a]
          ELSE IF LastReference(h, a) THEN 0 ELSE refsCounter[k][a] - 1]]

-----------------------------------------------------------------------------
(* The pools.  A pool whose handle does not count asks for an address only *)
(* when it does not use it yet; an error of Release is only logged.        *)
HoldUse(u) ==
    /\ u \notin uses
    /\ u.handle \in Counting
          \/ \A v \in uses : v.handle = u.handle => v.addrs \cap u.addrs = {}
    /\ Hold(u.handle, u.addrs)
    /\ uses' = uses \cup {u}

ReleaseUse(u) ==
    /\ u \in uses
    /\ IF \A a \in u.addrs : canRelease(u.handle, a)
       THEN Release(u.handle, u.addrs)
       ELSE UNCHANGED <<accounts, refsCounter>>
    /\ uses' = uses \ {u}

Next == \E u \in Use : HoldUse(u) \/ ReleaseUse(u)

Spec == Init /\ [][Next]_vars

-----------------------------------------------------------------------------
(* Properties *)

(* Owners are handles, and counters never become negative.                 *)
TypeOK ==
    /\ accounts \in [Address -> Handle \cup {Free}]
    /\ refsCounter \in [Counting -> [Address -> Nat]]
    /\ uses \subseteq Use

UsesOf(h, a) == {u \in uses : u.handle = h /\ a \in u.addrs}

(* An address is owned by a pool exactly while the pool uses it: no        *)
(* reservation leaks, none is given back too early, and two pools never    *)
(* use one address at the same time.                                       *)
OwnedExactlyWhileUsed ==
    \A a \in Address, h \in Handle : accounts[a] = h <=> UsesOf(h, a) # {}

(* The reference counter of an address is the number of its uses, also     *)
(* after holds that were refused and releases in any order.                *)
CountsUses ==
    \A h \in Counting, a \in Address : refsCounter[h][a] = Cardinality(UsesOf(h, a))
=============================================================================
