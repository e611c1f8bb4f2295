----------------------------- MODULE HeightSync -----------------------------
(***************************************************************************)
(* The per-height store of checked transactions                            *)
(* (mempool/internal/heightsync): one goroutine starts and ends heights    *)
(* and fills the store, block builders read it with GetStore, which blocks *)
(* on channels and gives up when its context ends.                         *)
(*                                                                         *)
(* Every StartNewHeight makes a new store and two new channels.  They are  *)
(* represented together by their position in stores: done of the store at  *)
(* position i is closed when stores[i].ended, heightChanged when there is  *)
(* a later store.  A step is what happens under one acquisition of the     *)
(* lock or at one channel operation.                                       *)
(***************************************************************************)
EXTENDS Naturals, Sequences

CONSTANTS
    Reader,     \* the goroutines that call GetStore
    Height,     \* the heights there may be
    Tx,         \* what is put into stores
    MaxStarts   \* bound: how many stores are made

VARIABLES
    stores,     \* every store made: its height, its contents, whether done is closed
    reader,     \* the state of each reader
    panicked    \* whether StartNewHeight or EndCurrentHeight has panicked

vars == <<stores, reader, panicked>>

Current == Len(stores)
currentHeight == stores[Current].height
isHeightEnded == stores[Current].ended

(* What New, and reset in StartNewHeight, put in place.                    *)
NewStore(h, ended) == [height |-> h, txs |-> {}, ended |-> ended]

(* A reader that is not inside GetStore, with the outcome of its last      *)
(* call: a store, or 0 for nil, and whether it was told the store is       *)
(* complete.                                                               *)
Idle(result, complete) ==
    [pc |-> "idle", target |-> 0, chan |-> 0, expired |-> FALSE,
     result |-> result, complete |-> complete]

InitAt(h) ==
    /\ stores = <<NewStore(h, TRUE)>>
    /\ reader = [r \in Reader |-> Idle(0, FALSE)]
    /\ panicked = FALSE

-----------------------------------------------------------------------------
(* The producer *)

StartNewHeight(h) ==
    /\ panicked' = ~isHeightEnded
    /\ stores' = IF isHeightEnded THEN Append(stores, NewStore(h, FALSE)) ELSE stores
    /\ UNCHANGED reader

EndCurrentHeight ==
    /\ panicked' = isHeightEnded
    /\ stores' = [stores EXCEPT ![Current].ended = TRUE]
    /\ UNCHANGED reader

(* Do, with a function that changes the contents of the current store.     *)
Do(contents) ==
    /\ stores' = [stores EXCEPT ![Current].txs = contents]
    /\ UNCHANGED <<reader, panicked>>

-----------------------------------------------------------------------------
(* GetStore *)

Call(r, h) ==
    /\ reader[r].pc = "idle"
    /\ reader' = [reader EXCEPT ![r] = [Idle(0, FALSE) EXCEPT !.pc = "look", !.target = h]]
    /\ UNCHANGED <<stores, panicked>>

(* One turn of the loop, under the read lock.                              *)
Look(r) ==
    /\ reader[r].pc = "look"
    /\ reader' = [reader EXCEPT ![r] =
          IF currentHeight > @.target THEN [@ EXCEPT !.pc = "panic"]
          ELSE IF currentHeight < @.target THEN [@ EXCEPT !.pc = "changed", !.chan = Current]
          ELSE IF currentHeight = 0 THEN Idle(Current, FALSE)
          ELSE [@ EXCEPT !.pc = "done", !.chan = Current]]
    /\ UNCHANGED <<stores, panicked>>

(* The channel done of the store the reader has taken is closed.           *)
WakeDone(r) ==
    /\ reader[r].pc = "done" /\ stores[reader[r].chan].ended
    /\ reader' = [reader EXCEPT ![r] = Idle(@.chan, TRUE)]
    /\ UNCHANGED <<stores, panicked>>

(* Faulty: the reader that is woken takes what is there.                   *)
WakeChangedAndTake(r) ==
    /\ reader[r].pc = "changed" /\ reader[r].chan < Current
    /\ reader' = [reader EXCEPT ![r] = [@ EXCEPT !.pc = "done", !.chan = Current]]
    /\ UNCHANGED <<stores, panicked>>

WakeChanged(r) ==
    /\ reader[r].pc = "changed" /\ reader[r].chan < Current
    /\ reader' = [reader EXCEPT ![r].pc = "look"]
    /\ UNCHANGED <<stores, panicked>>

(* The context ends; a select that has another channel ready may still     *)
(* take that one.                                                          *)
Expire(r) ==
    /\ reader[r].pc \in {"look", "done", "changed"} /\ ~reader[r].expired
    /\ reader' = [reader EXCEPT ![r].expired = TRUE]
    /\ UNCHANGED <<stores, panicked>>

GiveUp(r) ==
    /\ reader[r].expired
    /\ \/ reader[r].pc = "done" /\ reader' = [reader EXCEPT ![r] = Idle(@.chan, FALSE)]
       \/ reader[r].pc = "changed" /\ reader' = [reader EXCEPT ![r] = Idle(0, FALSE)]
    /\ UNCHANGED <<stores, panicked>>

Step(r) == Look(r) \/ WakeDone(r) \/ WakeChanged(r) \/ GiveUp(r)

-----------------------------------------------------------------------------
(* On its own: producers that call the three methods in any order and with *)
(* any height until one of the calls panics, and readers that ask for any  *)
(* height.                                                                 *)
Init == \E h \in Height : InitAt(h)

Producer ==
    /\ ~panicked
    /\ \/ Current < MaxStarts /\ \E h \in Height : StartNewHeight(h)
       \/ \E t \in Tx : Do(stores[Current].txs \cup {t})
       \/ EndCurrentHeight

Next ==
    \/ Producer
    \/ \E r \in Reader : Step(r) \/ Expire(r) \/ \E h \in Height : Call(r, h)

Spec == Init /\ [][Next]_vars

-----------------------------------------------------------------------------
(* Properties *)

Store == [height : Height, txs : SUBSET Tx, ended : BOOLEAN]

ReaderState ==
    [pc : {"idle", "look", "done", "changed", "panic"}, target : Height \cup {0},
     chan : Nat, expired : BOOLEAN, result : Nat, complete : BOOLEAN]

(* Stores and readers keep their types; every channel a reader holds       *)
(* belongs to a store that was made.                                       *)
TypeOK ==
    /\ stores \in Seq(Store) \ {<<>>}
    /\ reader \in [Reader -> ReaderState]
    /\ panicked \in BOOLEAN
    /\ \A r \in Reader : reader[r].chan <= Current /\ reader[r].result <= Current

(* Only the newest store can be unfinished, in whatever order StartNewHeight *)
(* and EndCurrentHeight are called: a start before the end panics and makes  *)
(* no store, so that a reader that waits for an older store never waits for  *)
(* ever.                                                                     *)
OlderStoresEnded == \A i \in 1..Current - 1 : stores[i].ended

(* A reader that waits for a store to be complete holds the store of the   *)
(* height it asked for, however many heights began while it waited.        *)
WaitsForTarget ==
    \A r \in Reader : reader[r].pc = "done" => stores[reader[r].chan].height = reader[r].target

(* What GetStore returns is the store of the height asked for or nil, and  *)
(* it is called complete only when its height was ended; nil comes only    *)
(* from a context that ended.                                              *)
ServesTarget ==
    [][\A r \in Reader :
          reader[r].pc \notin {"idle", "panic"} /\ reader'[r].pc = "idle" =>
              LET i == reader'[r].result
              IN  /\ i # 0 => stores[i].height = reader[r].target
                  /\ i = 0 => reader[r].expired
                  /\ reader'[r].complete => i # 0 /\ stores[i].ended]_vars
=============================================================================
