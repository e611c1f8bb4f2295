-------------------------- MODULE HeightSyncProofs --------------------------
(***************************************************************************)
(* Proofs about HeightSync, for any number of readers, heights and stores. *)
(*                                                                         *)
(* A reader leaves the lock with a channel and uses it later, when any     *)
(* number of heights may have begun.  What makes this right is that a      *)
(* store, once made, keeps its height (StoresKept), so that what the       *)
(* reader saw under the lock is still true of the store it holds.          *)
(***************************************************************************)
EXTENDS HeightSync, SequenceTheorems, TLAPS

(* A reader on a channel holds a store that was made.                      *)
ChannelsMade ==
    \A r \in Reader : reader[r].pc \in {"done", "changed"} => reader[r].chan \in 1..Current

Inv == TypeOK /\ OlderStoresEnded /\ WaitsForTarget /\ ChannelsMade

(* What a step may do to the stores: each keeps its height, and one that   *)
(* is ended stays so.                                                      *)
StoresKept ==
    /\ Current <= Len(stores')
    /\ \A i \in 1..Current :
          /\ stores'[i].height = stores[i].height
          /\ stores[i].ended => stores'[i].ended

(* A step of the producer that makes no store.                             *)
SameStores == reader' = reader /\ panicked' \in BOOLEAN /\ stores' \in Seq(Store) \ {<<>>}
              /\ Current' = Current /\ StoresKept

(* There always is a current store.                                        *)
LEMMA StoreTypes ==
    ASSUME TypeOK
    PROVE  stores \in Seq(Store) /\ Current \in Nat \ {0} /\ stores[Current] \in Store
<1>1. stores \in Seq(Store) /\ stores # <<>>
  BY DEF TypeOK
<1>2. Len(stores) \in Nat \ {0}
  BY <1>1, EmptySeq
<1> QED BY <1>1, <1>2 DEF Current

(* Every field of a reader's state, and the record as a whole, has a type. *)
LEMMA ReaderTypes ==
    ASSUME TypeOK, NEW r \in Reader
    PROVE  /\ reader[r] \in ReaderState
           /\ reader[r].chan \in Nat /\ reader[r].result \in Nat
           /\ Current \in Nat \ {0} /\ stores[Current] \in Store
<1>1. Current \in Nat \ {0} /\ stores[Current] \in Store
  BY StoreTypes
<1>2. reader[r] \in ReaderState
  BY DEF TypeOK
<1> QED BY <1>1, <1>2 DEF ReaderState

(* At the start there is one store, ended, and nobody reads.               *)
LEMMA InvInit == ASSUME Height \subseteq Nat, Init PROVE Inv
<1>1. PICK h \in Height : InitAt(h)
  BY DEF Init
<1>2. PICK s \in Store : s = NewStore(h, TRUE)
  BY DEF NewStore, Store
<1>3. stores \in Seq(Store) /\ stores # <<>> /\ Current = 1
  <2>1. stores = <<s>>
    BY <1>1, <1>2 DEF InitAt
  <2> QED BY <2>1 DEF Current
<1>4. Idle(0, FALSE) \in ReaderState
  BY DEF Idle, ReaderState
<1>5. reader \in [Reader -> {Idle(0, FALSE)}] /\ panicked = FALSE
  BY <1>1 DEF InitAt
<1>6. \A r \in Reader : reader[r].pc = "idle" /\ reader[r].chan = 0 /\ reader[r].result = 0
  BY <1>5 DEF Idle
<1>7. TypeOK
  <2>1. reader \in [Reader -> ReaderState]
    BY <1>4, <1>5
  <2>2. \A r \in Reader : reader[r].chan <= Current /\ reader[r].result <= Current
    <3>1. 0 <= Current
      BY <1>3
    <3> QED BY <1>6, <3>1
  <2> QED BY <1>3, <1>5, <2>1, <2>2 DEF TypeOK
<1> QED BY <1>3, <1>5, <1>6, <1>7 DEF Inv, OlderStoresEnded, WaitsForTarget, ChannelsMade

(* Whatever the producer does under the lock keeps Inv and the stores.     *)
LEMMA ProducerStep ==
    ASSUME Height \subseteq Nat, Inv, Producer
    PROVE  Inv' /\ StoresKept /\ reader' = reader
<1>1. Current \in Nat \ {0} /\ stores \in Seq(Store) /\ stores[Current] \in Store
  BY StoreTypes DEF Inv
<1>2. ASSUME NEW h \in Height, isHeightEnded, StartNewHeight(h)
      PROVE  /\ reader' = reader /\ panicked' = FALSE
             /\ stores' \in Seq(Store) \ {<<>>} /\ Current' = Current + 1
             /\ \A i \in 1..Current : stores'[i] = stores[i] /\ stores[i].ended
  <2>1. PICK s \in Store : s = NewStore(h, FALSE)
    BY DEF NewStore, Store
  <2>2. stores' = Append(stores, s) /\ reader' = reader /\ panicked' = FALSE
    BY <1>2, <2>1 DEF StartNewHeight
  <2>3. \A i \in 1..Current : stores[i].ended
    BY <1>1, <1>2 DEF Inv, OlderStoresEnded, isHeightEnded
  <2> QED BY <1>1, <2>2, <2>3 DEF Current
<1>3. ASSUME NEW s \in Store, stores' = [stores EXCEPT ![Current] = s],
             s.height = stores[Current].height, stores[Current].ended => s.ended,
             reader' = reader, panicked' \in BOOLEAN
      PROVE  SameStores
  <2>1. stores' \in Seq(Store) /\ Len(stores') = Len(stores)
    BY <1>1, <1>3, ExceptSeq DEF Current
  <2>2. \A i \in 1..Current : stores'[i] = IF i = Current THEN s ELSE stores[i]
    BY <1>1, <1>3 DEF Current
  <2>3. stores' # <<>>
    BY <1>1, <2>1 DEF Current
  <2>4. ASSUME NEW i \in 1..Current
        PROVE  stores'[i].height = stores[i].height /\ (stores[i].ended => stores'[i].ended)
    <3>1. CASE i = Current
      BY <1>3, <2>2, <3>1
    <3>2. CASE i # Current
      BY <2>2, <3>2
    <3> QED BY <3>1, <3>2
  <2>5. StoresKept
    BY <1>1, <2>1, <2>4 DEF StoresKept, Current
  <2> QED BY <1>3, <2>1, <2>3, <2>5 DEF SameStores, Current
<1>4. ASSUME EndCurrentHeight PROVE SameStores
  <2>1. PICK s \in Store : s = [stores[Current] EXCEPT !.ended = TRUE]
    BY <1>1 DEF Store
  <2>2. s.height = stores[Current].height /\ s.ended /\ stores[Current].ended \in BOOLEAN
    BY <1>1, <2>1 DEF Store
  <2>3. stores' = [stores EXCEPT ![Current] = s] /\ reader' = reader /\ panicked' \in BOOLEAN
    BY <1>4, <2>1, <2>2 DEF EndCurrentHeight, isHeightEnded
  <2> QED BY <1>3, <2>2, <2>3
<1>5. ASSUME NEW t \in Tx, Do(stores[Current].txs \cup {t}) PROVE SameStores
  <2>1. PICK s \in Store : s = [stores[Current] EXCEPT !.txs = stores[Current].txs \cup {t}]
    BY <1>1 DEF Store
  <2>2. s.height = stores[Current].height /\ s.ended = stores[Current].ended
    BY <1>1, <2>1 DEF Store
  <2>3. stores' = [stores EXCEPT ![Current] = s] /\ reader' = reader /\ panicked' \in BOOLEAN
    BY <1>5, <2>1 DEF Do, Inv, TypeOK
  <2> QED BY <1>3, <2>2, <2>3
<1>6. ASSUME reader' = reader, panicked' \in BOOLEAN, stores' \in Seq(Store) \ {<<>>},
             StoresKept, Current' \in Nat, \A i \in 1..Current' - 1 : stores'[i].ended
      PROVE  Inv'
  <2>1. \A r \in Reader : reader[r].chan \in Nat /\ reader[r].result \in Nat
    BY ReaderTypes DEF Inv
  <2>2. Current <= Current'
    BY <1>6 DEF StoresKept, Current
  <2>3. \A r \in Reader : reader[r].chan <= Current' /\ reader[r].result <= Current'
    BY <1>1, <1>6, <2>1, <2>2 DEF Inv, TypeOK
  <2>4. TypeOK'
    BY <1>6, <2>3 DEF Inv, TypeOK
  <2>5. WaitsForTarget' /\ ChannelsMade'
    BY <1>1, <1>6, <2>1, <2>2 DEF Inv, WaitsForTarget, ChannelsMade, StoresKept
  <2> QED BY <1>6, <2>4, <2>5 DEF Inv, OlderStoresEnded
<1>7. CASE \E h \in Height : isHeightEnded /\ StartNewHeight(h)
  <2>1. /\ reader' = reader /\ panicked' = FALSE /\ stores' \in Seq(Store) \ {<<>>}
        /\ Current' = Current + 1
        /\ \A i \in 1..Current : stores'[i] = stores[i] /\ stores[i].ended
    BY <1>2, <1>7
  <2>2. StoresKept
    BY <1>1, <2>1 DEF StoresKept, Current
  <2>3. Current' \in Nat /\ \A i \in 1..Current' - 1 : stores'[i].ended
    <3>1. Current' \in Nat /\ Current' - 1 = Current
      BY <1>1, <2>1
    <3> QED BY <2>1, <3>1
  <2>4. Inv'
    BY <1>6, <2>1, <2>2, <2>3
  <2> QED BY <2>1, <2>2, <2>4
<1>8. CASE SameStores
  <2>1. \A i \in 1..Current' - 1 : stores'[i].ended
    BY <1>1, <1>8 DEF Inv, OlderStoresEnded, SameStores, StoresKept
  <2>2. Inv'
    BY <1>1, <1>6, <1>8, <2>1 DEF SameStores
  <2> QED BY <1>8, <2>2 DEF SameStores
<1>9. ASSUME NEW h \in Height, ~isHeightEnded, StartNewHeight(h) PROVE SameStores
  <2>1. stores' = stores /\ reader' = reader /\ panicked' = TRUE
    BY <1>9 DEF StartNewHeight
  <2> QED BY <1>1, <2>1 DEF SameStores, StoresKept, Current, Inv, TypeOK
<1> QED BY <1>4, <1>5, <1>7, <1>8, <1>9 DEF Producer

(* What the state of a reader says of the stores.                          *)
Placed(s) ==
    /\ s.chan <= Current /\ s.result <= Current
    /\ s.pc \in {"done", "changed"} => s.chan \in 1..Current
    /\ s.pc = "done" => stores[s.chan].height = s.target

(* A step of a reader changes its own state only; it keeps Inv when the    *)
(* new state has its type and its channel.                                 *)
LEMMA ReaderKeepsInv ==
    ASSUME Inv, NEW r \in Reader, NEW s \in ReaderState,
           reader' = [reader EXCEPT ![r] = s], UNCHANGED <<stores, panicked>>,
           Placed(s)
    PROVE  Inv'
<1>1. Current' = Current /\ stores' = stores /\ panicked' = panicked
  BY DEF Current
<1>2. reader \in [Reader -> ReaderState]
  BY DEF Inv, TypeOK
<1>3. \A q \in Reader : reader'[q] = IF q = r THEN s ELSE reader[q]
  BY <1>2
<1>4. TypeOK'
  BY <1>1, <1>2, <1>3 DEF Inv, TypeOK, Placed
<1> QED
  BY <1>1, <1>3, <1>4 DEF Inv, OlderStoresEnded, WaitsForTarget, ChannelsMade, Placed

(* What GetStore has done when it returns.                                 *)
Returned(r) ==
    LET i == reader'[r].result
    IN  /\ i # 0 => stores[i].height = reader[r].target
        /\ i = 0 => reader[r].expired
        /\ reader'[r].complete => i # 0 /\ stores[i].ended

GoodStep(r) ==
    /\ Inv' /\ stores' = stores
    /\ \A q \in Reader : q # r => reader'[q] = reader[q]
    /\ reader[r].pc \notin {"idle", "panic"} /\ reader'[r].pc = "idle" => Returned(r)

(* Every step of a reader keeps Inv, and returns the store it should.      *)
LEMMA ReaderStep ==
    ASSUME Height \subseteq Nat, Inv, NEW r \in Reader,
           Step(r) \/ Expire(r) \/ \E h \in Height : Call(r, h)
    PROVE  GoodStep(r)
<1> DEFINE old == reader[r]
<1>1. /\ old \in ReaderState /\ old.chan \in Nat /\ old.result \in Nat
      /\ Current \in Nat \ {0} /\ stores[Current] \in Store
      /\ old.chan <= Current /\ old.result <= Current
      /\ old.pc \in {"done", "changed"} => old.chan \in 1..Current
      /\ old.pc = "done" => stores[old.chan].height = old.target
      /\ reader \in [Reader -> ReaderState]
  BY ReaderTypes DEF Inv, TypeOK, ChannelsMade, WaitsForTarget
<1> HIDE DEF old
<1> DEFINE Right(s) == s.pc = "idle" =>
                            /\ s.result # 0 => stores[s.result].height = old.target
                            /\ s.result = 0 => old.expired
                            /\ s.complete => s.result # 0 /\ stores[s.result].ended
<1>2. ASSUME NEW s \in ReaderState, Placed(s), old.pc \notin {"idle", "panic"} => Right(s),
             reader' = [reader EXCEPT ![r] = s], UNCHANGED <<stores, panicked>>
      PROVE  GoodStep(r)
  <2>1. Inv'
    BY <1>2, ReaderKeepsInv
  <2>2. \A q \in Reader : reader'[q] = IF q = r THEN s ELSE reader[q]
    BY <1>1, <1>2
  <2> QED BY <1>2, <2>1, <2>2 DEF GoodStep, Returned, old
<1>3. \A n \in Nat, b \in BOOLEAN :
         /\ Idle(n, b) \in ReaderState /\ Idle(n, b).pc = "idle"
         /\ Idle(n, b).chan = 0 /\ Idle(n, b).result = n /\ Idle(n, b).complete = b
  BY DEF Idle, ReaderState
<1>4. ASSUME NEW h \in Height, Call(r, h) PROVE GoodStep(r)
  <2>1. PICK s \in ReaderState : s = [Idle(0, FALSE) EXCEPT !.pc = "look", !.target = h]
    BY DEF Idle, ReaderState
  <2>2. s.pc = "look" /\ s.chan = 0 /\ s.result = 0 /\ 0 <= Current
    BY <1>1, <2>1 DEF Idle
  <2>3. Placed(s)
    BY <1>4, <2>1, <2>2 DEF Call, Placed
  <2>4. old.pc \notin {"idle", "panic"} => Right(s)
    BY <1>4, <2>1, <2>2 DEF Call
  <2> HIDE DEF Right
  <2> QED BY <1>2, <1>4, <2>1, <2>2, <2>3, <2>4 DEF Call
<1>5. ASSUME Look(r) PROVE GoodStep(r)
  <2> DEFINE new ==
          IF currentHeight > old.target THEN [old EXCEPT !.pc = "panic"]
          ELSE IF currentHeight < old.target THEN [old EXCEPT !.pc = "changed", !.chan = Current]
          ELSE IF currentHeight = 0 THEN Idle(Current, FALSE)
          ELSE [old EXCEPT !.pc = "done", !.chan = Current]
  <2>1. /\ old.pc = "look" /\ UNCHANGED <<stores, panicked>>
        /\ reader' = [reader EXCEPT ![r] = new]
    BY <1>5 DEF Look, old
  <2>2. currentHeight \in Nat /\ old.target \in Nat
    <3>1. stores[Current].height \in Height
      BY <1>1 DEF Store
    <3>2. old.target \in Height \cup {0}
      BY <1>1 DEF ReaderState
    <3>3. stores[Current].height \in Nat /\ old.target \in Nat
      <4>1. \A h \in Height \cup {0} : h \in Nat
        OBVIOUS
      <4> QED BY <3>1, <3>2, <4>1, Zenon
    <3> QED BY <3>3 DEF currentHeight
  <2>3. CASE currentHeight > old.target
    <3>1. PICK s \in ReaderState : s = [old EXCEPT !.pc = "panic"]
      BY <1>1 DEF ReaderState
    <3>2. s.pc = "panic" /\ s.chan = old.chan /\ s.result = old.result
      BY <1>1, <3>1 DEF ReaderState
    <3>3. Placed(s)
      BY <1>1, <2>1, <2>3, <3>1, <3>2 DEF Placed
    <3>4. old.pc \notin {"idle", "panic"} => Right(s)
      BY <1>1, <2>1, <2>3, <3>1, <3>2
    <3> HIDE DEF Right
    <3> QED BY <1>2, <1>1, <2>1, <2>3, <3>1, <3>2, <3>3, <3>4
  <2>4. CASE currentHeight < old.target
    <3>1. PICK s \in ReaderState : s = [old EXCEPT !.pc = "changed", !.chan = Current]
      BY <1>1 DEF ReaderState
    <3>2. s.pc = "changed" /\ s.chan = Current /\ s.result = old.result
      BY <1>1, <3>1 DEF ReaderState
    <3>3. reader' = [reader EXCEPT ![r] = s]
      <4>1. new = s
        BY <2>2, <2>4, <3>1
      <4> HIDE DEF new
      <4> QED BY <2>1, <4>1
    <3>4. Placed(s)
      BY <1>1, <2>1, <3>2, <3>3 DEF Placed
    <3>5. old.pc \notin {"idle", "panic"} => Right(s)
      BY <1>1, <2>1, <3>2, <3>3
    <3> HIDE DEF Right
    <3> QED BY <1>2, <1>1, <2>1, <3>2, <3>3, <3>4, <3>5
  <2>5. CASE currentHeight = old.target /\ currentHeight = 0
    <3>1. PICK s \in ReaderState : s = Idle(Current, FALSE)
      BY <1>1, <1>3
    <3>2. s.pc = "idle" /\ s.chan = 0 /\ s.result = Current /\ s.complete = FALSE
      BY <1>1, <1>3, <3>1
    <3>3. reader' = [reader EXCEPT ![r] = s]
      <4>1. new = s
        BY <2>2, <2>5, <3>1
      <4> HIDE DEF new
      <4> QED BY <2>1, <4>1
    <3>4. stores[Current].height = old.target
      BY <2>5 DEF currentHeight
    <3>5. Placed(s)
      BY <1>1, <2>1, <3>2, <3>3, <3>4 DEF Placed
    <3>6. old.pc \notin {"idle", "panic"} => Right(s)
      BY <1>1, <2>1, <3>2, <3>3, <3>4
    <3> HIDE DEF Right
    <3> QED BY <1>2, <1>1, <2>1, <3>2, <3>3, <3>4, <3>5, <3>6
  <2>6. CASE currentHeight = old.target /\ currentHeight # 0
    <3>1. PICK s \in ReaderState : s = [old EXCEPT !.pc = "done", !.chan = Current]
      BY <1>1 DEF ReaderState
    <3>2. s.pc = "done" /\ s.chan = Current /\ s.result = old.result /\ s.target = old.target
      BY <1>1, <3>1 DEF ReaderState
    <3>3. reader' = [reader EXCEPT ![r] = s]
      <4>1. new = s
        BY <2>2, <2>6, <3>1
      <4> HIDE DEF new
      <4> QED BY <2>1, <4>1
    <3>4. stores[Current].height = old.target
      BY <2>6 DEF currentHeight
    <3>5. Placed(s)
      BY <1>1, <2>1, <3>2, <3>3, <3>4 DEF Placed
    <3>6. old.pc \notin {"idle", "panic"} => Right(s)
      BY <1>1, <2>1, <3>2, <3>3, <3>4
    <3> HIDE DEF Right
    <3> QED BY <1>2, <1>1, <2>1, <3>2, <3>3, <3>4, <3>5, <3>6
  <2> QED BY <2>2, <2>3, <2>4, <2>5, <2>6
<1>6. ASSUME WakeDone(r) PROVE GoodStep(r)
  <2>1. /\ old.pc = "done" /\ stores[old.chan].ended /\ UNCHANGED <<stores, panicked>>
        /\ reader' = [reader EXCEPT ![r] = Idle(old.chan, TRUE)]
    BY <1>6 DEF WakeDone, old
  <2>2. PICK s \in ReaderState : s = Idle(old.chan, TRUE)
    BY <1>1, <1>3
  <2>3. s.pc = "idle" /\ s.chan = 0 /\ s.result = old.chan
    BY <1>1, <1>3, <2>2
  <2>4. Placed(s)
    <3>1. 0 <= Current /\ old.chan <= Current
      BY <1>1
    <3> QED BY <2>3, <3>1 DEF Placed
  <2>5. old.pc \notin {"idle", "panic"} => Right(s)
    <3>1. old.chan # 0 /\ stores[old.chan].height = old.target
      BY <1>1, <2>1
    <3> QED BY <2>1, <2>3, <3>1
  <2> HIDE DEF Right
  <2> QED BY <1>2, <1>1, <2>1, <2>2, <2>3, <2>4, <2>5
<1>7. ASSUME WakeChanged(r) PROVE GoodStep(r)
  <2>1. PICK s \in ReaderState : s = [old EXCEPT !.pc = "look"]
    BY <1>1 DEF ReaderState
  <2>2. s.pc = "look" /\ s.chan = old.chan /\ s.result = old.result
    BY <1>1, <2>1 DEF ReaderState
  <2>3. reader' = [reader EXCEPT ![r] = s] /\ UNCHANGED <<stores, panicked>>
    BY <1>1, <1>7, <2>1 DEF WakeChanged, old
  <2>4. Placed(s)
    BY <1>1, <2>2, <2>3 DEF Placed
  <2>5. old.pc \notin {"idle", "panic"} => Right(s)
    BY <1>1, <2>2, <2>3
  <2> HIDE DEF Right
  <2> QED BY <1>2, <1>1, <2>2, <2>3, <2>4, <2>5
<1>8. ASSUME Expire(r) PROVE GoodStep(r)
  <2>1. PICK s \in ReaderState : s = [old EXCEPT !.expired = TRUE]
    BY <1>1 DEF ReaderState
  <2>2. s.pc = old.pc /\ s.chan = old.chan /\ s.result = old.result /\ s.target = old.target
    BY <1>1, <2>1 DEF ReaderState
  <2>3. reader' = [reader EXCEPT ![r] = s] /\ UNCHANGED <<stores, panicked>> /\ old.pc # "idle"
    BY <1>1, <1>8, <2>1 DEF Expire, old
  <2>4. Placed(s)
    BY <1>1, <1>8, <2>2, <2>3 DEF Expire, old, Placed
  <2>5. old.pc \notin {"idle", "panic"} => Right(s)
    BY <1>1, <1>8, <2>2, <2>3 DEF Expire, old
  <2> HIDE DEF Right
  <2> QED BY <1>2, <1>1, <1>8, <2>2, <2>3, <2>4, <2>5 DEF Expire, old
<1>9. ASSUME GiveUp(r) PROVE GoodStep(r)
  <2>1. CASE old.pc = "done"
    <3>1. PICK s \in ReaderState : s = Idle(old.chan, FALSE)
      BY <1>1, <1>3
    <3>2. s.pc = "idle" /\ s.chan = 0 /\ s.result = old.chan /\ s.complete = FALSE
      BY <1>1, <1>3, <3>1
    <3>3. reader' = [reader EXCEPT ![r] = s] /\ UNCHANGED <<stores, panicked>>
      BY <1>9, <2>1, <3>1 DEF GiveUp, old
    <3>4. Placed(s)
      BY <1>1, <2>1, <3>2, <3>3 DEF Placed
    <3>5. old.pc \notin {"idle", "panic"} => Right(s)
      BY <1>1, <2>1, <3>2, <3>3
    <3> HIDE DEF Right
    <3> QED BY <1>2, <1>1, <2>1, <3>2, <3>3, <3>4, <3>5
  <2>2. CASE old.pc = "changed"
    <3>1. PICK s \in ReaderState : s = Idle(0, FALSE)
      BY <1>3
    <3>2. s.pc = "idle" /\ s.chan = 0 /\ s.result = 0 /\ s.complete = FALSE
      BY <1>3, <3>1
    <3>3. reader' = [reader EXCEPT ![r] = s] /\ UNCHANGED <<stores, panicked>> /\ old.expired
      BY <1>9, <2>2, <3>1 DEF GiveUp, old
    <3>4. Placed(s)
      BY <1>1, <2>2, <3>2, <3>3 DEF Placed
    <3>5. old.pc \notin {"idle", "panic"} => Right(s)
      BY <1>1, <2>2, <3>2, <3>3
    <3> HIDE DEF Right
    <3> QED BY <1>2, <1>1, <2>2, <3>2, <3>3, <3>4, <3>5
  <2> QED BY <1>9, <2>1, <2>2 DEF GiveUp, old
<1> QED BY <1>4, <1>5, <1>6, <1>7, <1>8, <1>9 DEF Step

(* Every step keeps Inv, and whoever returns gets what they asked for.     *)
LEMMA NextStep ==
    ASSUME Height \subseteq Nat, Inv, [Next]_vars
    PROVE  /\ Inv'
           /\ \A r \in Reader : reader[r].pc \notin {"idle", "panic"} /\ reader'[r].pc = "idle"
                 => Returned(r)
<1>1. CASE Producer
  <2>1. Inv' /\ reader' = reader
    BY <1>1, ProducerStep
  <2> QED BY <2>1
<1>2. ASSUME NEW r \in Reader, Step(r) \/ Expire(r) \/ \E h \in Height : Call(r, h)
      PROVE  /\ Inv'
             /\ \A q \in Reader :
                   reader[q].pc \notin {"idle", "panic"} /\ reader'[q].pc = "idle" => Returned(q)
  <2>1. GoodStep(r)
    BY <1>2, ReaderStep
  <2> QED BY <2>1 DEF GoodStep
<1>3. CASE UNCHANGED vars
  BY <1>3 DEF vars, Inv, TypeOK, OlderStoresEnded, WaitsForTarget, ChannelsMade, Current
<1> QED BY <1>1, <1>2, <1>3 DEF Next

-----------------------------------------------------------------------------
(* Only the newest store can be unfinished, for any number of heights and  *)
(* any order of StartNewHeight, Do and EndCurrentHeight, since a start     *)
(* before the end panics instead of making a store.                        *)
THEOREM OldStoresComplete ==
    ASSUME Height \subseteq Nat
    PROVE  Spec => []OlderStoresEnded
<1>1. Init => Inv
  BY InvInit
<1>2. Inv /\ [Next]_vars => Inv'
  BY NextStep
<1>3. Inv => OlderStoresEnded
  BY DEF Inv
<1> QED BY <1>1, <1>2, <1>3, PTL DEF Spec

(* GetStore returns the store of the height asked for or, when its context *)
(* ended, nil, and calls a store complete only when its height was ended,  *)
(* for any number of readers and however many heights begin meanwhile.     *)
THEOREM TargetServed ==
    ASSUME Height \subseteq Nat
    PROVE  Spec => ServesTarget
<1>1. Init => Inv
  BY InvInit
<1>2. Inv /\ [Next]_vars => Inv'
  BY NextStep
<1>3. Inv /\ [Next]_vars =>
         [\A r \in Reader :
            reader[r].pc \notin {"idle", "panic"} /\ reader'[r].pc = "idle" =>
              LET i == reader'[r].result
              IN  /\ i # 0 => stores[i].height = reader[r].target
                  /\ i = 0 => reader[r].expired
                  /\ reader'[r].complete => i # 0 /\ stores[i].ended]_vars
  BY NextStep DEF Returned
<1> QED BY <1>1, <1>2, <1>3, PTL DEF Spec, ServesTarget
=============================================================================
