------------------------------ MODULE StateDB -------------------------------
(***************************************************************************)
(* The state of an EVM transaction (x/vm/statedb) and the precompiles that *)
(* leave it for the native modules (precompiles/common).                   *)
(*                                                                         *)
(* The EVM works on live objects and undoes by a journal.  A precompile    *)
(* works on a cached context: a stack of stores with a list of events.     *)
(* Before a precompile runs, the objects are flushed into the top store;   *)
(* after it, the bank events it emitted are replayed on the objects.  At   *)
(* the end of the transaction the store is written and the objects over    *)
(* it.  A store of the stack is represented by the contents it shows.      *)
(*                                                                         *)
(* Balances and one storage slot stand for an account.  The EVM itself is  *)
(* external: any sequence of calls, transfers, writes and reverts.  A      *)
(* precompile that calls back into the EVM does so before its own native   *)
(* operations, as ICS20 does to convert a token before sending it.         *)
(***************************************************************************)
EXTENDS Integers, SequencesExt, FiniteSetsExt

CONSTANTS
    Address,            \* accounts the EVM and the bank know
    Module,             \* a module account, blocked for the EVM
    Existing,           \* the addresses with an account
    Funds,              \* the balance of each of them, and of Module
    Slot,               \* the values of a storage slot, 0 when it is empty
    MaxPrecompileCalls,
    MaxDepth,           \* bound: nested calls
    MaxOps,             \* bound: operations of the EVM and of precompiles
    Unset

Account == Address \cup {Module}

ASSUME StateDBAssumption ==
    /\ Module \notin Address /\ Existing \subseteq Address
    /\ Funds \in Nat /\ 0 \in Slot /\ Unset \notin Slot
    /\ MaxPrecompileCalls \in Nat

VARIABLES
    base,       \* the store of s.ctx
    db,         \* objects, journal, dirties; the cached stores, their events
                \* and processedEventsCount
    revisions,  \* validRevisions, as pairs of an id and a journal length
    nextRevisionID,
    precompileCallsCounter,
    frames,     \* the calls of the EVM that have not returned
    ops,
    outcome     \* "running", then "committed"

vars == <<base, db, revisions, nextRevisionID, precompileCallsCounter, frames, ops, outcome>>

(* A call frame of the EVM, its revision, what could be seen when it was   *)
(* called, and for a precompile how far it is.                             *)
Frame(kind, before, prevEventsLen, stage) ==
    [kind |-> kind, revision |-> nextRevisionID, before |-> before,
     prevEventsLen |-> prevEventsLen, stage |-> stage]

Init ==
    /\ base = [balance |-> [x \in Account |-> IF x \in Existing \cup {Module} THEN Funds ELSE 0],
               exists |-> Existing, slot |-> [a \in Address |-> 0]]
    /\ db = [objects |-> <<>>, journal |-> <<>>, dirties |-> [a \in Address |-> 0],
             cache |-> <<>>, events |-> <<>>, processed |-> 0]
    /\ revisions = <<>> /\ nextRevisionID = 0 /\ precompileCallsCounter = 0
    /\ frames = <<>> /\ ops = 0 /\ outcome = "running"

-----------------------------------------------------------------------------
(* The journal and the objects                                             *)

append(d, entry) ==
    [d EXCEPT !.journal = Append(@, entry),
              !.dirties = [a \in Address |-> IF entry.account = a THEN @[a] + 1 ELSE @[a]]]

setStateObject(d, a, balance) ==
    [d EXCEPT !.objects = (a :> [balance |-> balance, dirty |-> Unset]) @@ @]

(* getStateObject reads the account from s.ctx, not from the cached stores *)
getStateObject(d, a) ==
    IF a \in DOMAIN d.objects \/ a \notin base.exists THEN d
    ELSE setStateObject(d, a, base.balance[a])

getOrNewStateObject(d, a) ==
    LET e == getStateObject(d, a)
    IN  IF a \in DOMAIN e.objects THEN e
        ELSE setStateObject(append(e, [kind |-> "create", account |-> a]), a, 0)

(* AddBalance with a positive amount, SubBalance with a negative one       *)
AddBalance(d, a, amount) ==
    LET e == getOrNewStateObject(d, a)
        balance == e.objects[a].balance
    IN  [append(e, [kind |-> "balance", account |-> a, prev |-> balance])
            EXCEPT !.objects[a].balance = balance + amount]

GetBalance(a) ==
    IF a \in DOMAIN db.objects THEN db.objects[a].balance
    ELSE IF a \in base.exists THEN base.balance[a] ELSE 0

GetState(d, a) ==
    IF a \in DOMAIN d.objects /\ d.objects[a].dirty # Unset THEN d.objects[a].dirty
    ELSE base.slot[a]

SetState(d, a, value) ==
    LET e == getOrNewStateObject(d, a)
    IN  IF GetState(e, a) = value THEN e
        ELSE [append(e, [kind |-> "storage", account |-> a, prev |-> GetState(e, a)])
                EXCEPT !.objects[a].dirty = value]

(* JournalEntry.Revert                                                     *)
Undo(d, entry) ==
    CASE entry.kind = "create" -> [d EXCEPT !.objects = Restrict(@, DOMAIN @ \ {entry.account})]
      [] entry.kind = "balance" -> [d EXCEPT !.objects[entry.account].balance = entry.prev]
      [] entry.kind = "storage" -> [d EXCEPT !.objects[entry.account].dirty = entry.prev]
      [] entry.kind = "precompile" ->
            [d EXCEPT !.cache = SubSeq(@, 1, entry.snapshot),
                      !.events = entry.events, !.processed = entry.processed]

(* Faulty: the count of dirty entries is not lowered.                      *)
RevertStillDirty(d, length) ==
    [FoldRight(LAMBDA entry, e : Undo(e, entry),
               SubSeq(d.journal, length + 1, Len(d.journal)), d)
        EXCEPT !.journal = SubSeq(@, 1, length)]

Revert(d, length) ==
    LET undone == SubSeq(d.journal, length + 1, Len(d.journal))
        Count(a) == Cardinality({i \in DOMAIN undone : undone[i].account = a})
    IN  [FoldRight(LAMBDA entry, e : Undo(e, entry), undone, d)
            EXCEPT !.journal = SubSeq(@, 1, length),
                   !.dirties = [a \in Address |-> @[a] - Count(a)]]

-----------------------------------------------------------------------------
(* The stores                                                              *)

Dirty(d) == {a \in Address : d.dirties[a] > 0}

commitWithCtx(store, d) ==
    [balance |-> [x \in Account |-> IF x \in Dirty(d) THEN d.objects[x].balance
                                    ELSE store.balance[x]],
     exists |-> store.exists \cup Dirty(d),
     slot |-> [a \in Address |-> IF a \in Dirty(d) /\ d.objects[a].dirty # Unset
                                 THEN d.objects[a].dirty ELSE store.slot[a]]]

(* The event of a change of a balance by the bank, coin_spent when the     *)
(* amount is negative and coin_received otherwise                          *)
Event(x, amount) == [account |-> x, amount |-> amount]

(* Faulty: the events so far are not marked as processed.                  *)
FlushToCacheCtxUncounted(d) ==
    [d EXCEPT !.cache[Len(d.cache)] = commitWithCtx(@, d)]

(* The objects are written to the top store, balances as they are and      *)
(* without events of the bank, and every event so far is accounted for:    *)
(* the objects already show what it did.                                   *)
FlushToCacheCtx(d) ==
    [d EXCEPT !.cache[Len(d.cache)] = commitWithCtx(@, d),
              !.processed = Len(d.events)]

GetCacheContext(d) == IF d.cache = <<>> THEN [d EXCEPT !.cache = <<base>>] ELSE d

MultiStoreSnapshot(d) == [d EXCEPT !.cache = Append(@, Last(@))]

AddPrecompileFn(d, snapshot) ==
    append(d, [kind |-> "precompile", account |-> Unset, snapshot |-> snapshot,
               events |-> d.events, processed |-> d.processed])

NativeStore == IF db.cache = <<>> THEN base ELSE Last(db.cache)

(* What the EVM and the native modules can see                             *)
View ==
    [balance |-> [a \in Address |-> GetBalance(a)],
     slot |-> [a \in Address |-> GetState(db, a)],
     exists |-> base.exists \cup DOMAIN db.objects,
     native |-> NativeStore, events |-> db.events, processed |-> db.processed]

-----------------------------------------------------------------------------
(* Calls of the EVM                                                        *)

Top == Last(frames)

InContract ==
    /\ outcome = "running" /\ frames # <<>> /\ Top.kind # "precompile" /\ ops < MaxOps

InPrecompile(stages) ==
    /\ outcome = "running" /\ frames # <<>>
    /\ Top.kind = "precompile" /\ Top.stage \in stages

Pop == SubSeq(frames, 1, Len(frames) - 1)

(* Snapshot                                                                *)
Snapshot ==
    /\ Len(frames) < MaxDepth
    /\ nextRevisionID' = nextRevisionID + 1
    /\ revisions' = Append(revisions, <<nextRevisionID, Len(db.journal)>>)

(* RevertToSnapshot of the revision of the frame                           *)
RevertToSnapshot(d, frame) ==
    LET idx == CHOOSE i \in DOMAIN revisions : revisions[i][1] = frame.revision
    IN  /\ db' = Revert(d, revisions[idx][2])
        /\ revisions' = SubSeq(revisions, 1, idx - 1)

(* evm.Call of a contract, by the transaction or by a contract             *)
Call ==
    /\ (outcome = "running" /\ frames = <<>> /\ nextRevisionID = 0) \/ InContract
    /\ Snapshot
    /\ frames' = Append(frames, Frame("contract", View, 0, ""))
    /\ ops' = ops + 1
    /\ UNCHANGED <<base, db, precompileCallsCounter, outcome>>

Transfer(a, b) ==
    /\ InContract
    /\ a # b /\ GetBalance(a) > 0
    /\ db' = AddBalance(AddBalance(db, a, -1), b, 1)
    /\ ops' = ops + 1
    /\ UNCHANGED <<base, revisions, nextRevisionID, precompileCallsCounter, frames, outcome>>

Write(a, value) ==
    /\ InContract
    /\ db' = SetState(db, a, value)
    /\ ops' = ops + 1
    /\ UNCHANGED <<base, revisions, nextRevisionID, precompileCallsCounter, frames, outcome>>

Return ==
    /\ outcome = "running" /\ frames # <<>> /\ Top.kind = "contract"
    /\ frames' = Pop
    /\ UNCHANGED <<base, db, revisions, nextRevisionID, precompileCallsCounter, ops, outcome>>

Fail ==
    /\ outcome = "running" /\ frames # <<>> /\ Top.kind = "contract"
    /\ RevertToSnapshot(db, Top)
    /\ frames' = Pop
    /\ UNCHANGED <<base, nextRevisionID, precompileCallsCounter, ops, outcome>>

-----------------------------------------------------------------------------
(* Calls of precompiles                                                    *)

(* Faulty: the state is flushed before the snapshot is taken.              *)
RunSetupFlushFirst(d) ==
    LET c == FlushToCacheCtx(GetCacheContext(d))
    IN  AddPrecompileFn(MultiStoreSnapshot(c), Len(c.cache))

(* Faulty: the state is not flushed.                                       *)
RunSetupUnflushed(d) ==
    LET c == GetCacheContext(d)
    IN  AddPrecompileFn(MultiStoreSnapshot(c), Len(c.cache))

(* runNativeAction up to the action                                        *)
RunSetup(d) ==
    LET c == GetCacheContext(d)
    IN  FlushToCacheCtx(AddPrecompileFn(MultiStoreSnapshot(c), Len(c.cache)))

(* runNativeAction when AddPrecompileFn refuses the call                   *)
RunRefused(d) ==
    LET c == GetCacheContext(d)
    IN  AddPrecompileFn(MultiStoreSnapshot(c), Len(c.cache))

CallPrecompile ==
    /\ InContract
    /\ Snapshot
    /\ precompileCallsCounter' = precompileCallsCounter + 1
    /\ LET refused == precompileCallsCounter' > MaxPrecompileCalls
       IN  /\ db' = IF refused THEN RunRefused(db) ELSE RunSetup(db)
           /\ frames' = Append(frames, Frame("precompile", View, Len(db'.events),
                                             IF refused THEN "failed" ELSE "flushed"))
    /\ ops' = ops + 1
    /\ UNCHANGED <<base, outcome>>

(* CallEVMWithData with callFromPrecompile                                 *)
ReEnter ==
    /\ InPrecompile({"flushed"}) /\ ops < MaxOps
    /\ Snapshot
    /\ frames' = Append(frames, Frame("reentry", View, 0, ""))
    /\ ops' = ops + 1
    /\ UNCHANGED <<base, db, precompileCallsCounter, outcome>>

SetStage(stage) == [Pop EXCEPT ![Len(frames) - 1].stage = stage]

(* The call returns, and ApplyMessageWithConfig flushes what it did        *)
ReEntryReturn ==
    /\ outcome = "running" /\ frames # <<>> /\ Top.kind = "reentry"
    /\ db' = FlushToCacheCtx(db)
    /\ frames' = SetStage("called")
    /\ UNCHANGED <<base, revisions, nextRevisionID, precompileCallsCounter, ops, outcome>>

(* The call fails: the flush is done all the same, and CallEVMWithData     *)
(* gives the precompile an error                                           *)
ReEntryFail ==
    /\ outcome = "running" /\ frames # <<>> /\ Top.kind = "reentry"
    /\ LET idx == CHOOSE i \in DOMAIN revisions : revisions[i][1] = Top.revision
       IN  /\ db' = FlushToCacheCtx(Revert(db, revisions[idx][2]))
           /\ revisions' = SubSeq(revisions, 1, idx - 1)
    /\ frames' = SetStage("failed")
    /\ UNCHANGED <<base, nextRevisionID, precompileCallsCounter, ops, outcome>>

(* The action of a precompile sends a coin, a native module's operation    *)
NativeSend(x, y) ==
    /\ InPrecompile({"flushed", "called", "native"}) /\ ops < MaxOps
    /\ x # y /\ NativeStore.balance[x] > 0
    /\ db' = [db EXCEPT
                !.cache[Len(db.cache)].balance = [@ EXCEPT ![x] = @ - 1, ![y] = @ + 1],
                !.cache[Len(db.cache)].exists = @ \cup ({y} \cap Address),
                !.events = @ \o <<Event(x, -1), Event(y, 1)>>]
    /\ frames' = [frames EXCEPT ![Len(frames)].stage = "native"]
    /\ ops' = ops + 1
    /\ UNCHANGED <<base, revisions, nextRevisionID, precompileCallsCounter, outcome>>

(* AfterBalanceChange: the events after prevEventsLen that no flush has    *)
(* accounted for are replayed, those of blocked accounts left out          *)
AfterBalanceChange(d, prevEventsLen) ==
    FoldLeft(LAMBDA e, i : IF i <= d.processed \/ d.events[i].account = Module THEN e
                           ELSE AddBalance(e, d.events[i].account, d.events[i].amount),
             d, [i \in 1..(Len(d.events) - prevEventsLen) |-> prevEventsLen + i])

PrecompileReturn ==
    /\ InPrecompile({"flushed", "called", "native"})
    /\ db' = AfterBalanceChange(db, Top.prevEventsLen)
    /\ frames' = Pop
    /\ UNCHANGED <<base, revisions, nextRevisionID, precompileCallsCounter, ops, outcome>>

(* The precompile returns an error, or runs out of gas at any point        *)
PrecompileFail ==
    /\ InPrecompile({"flushed", "called", "native", "failed"})
    /\ RevertToSnapshot(db, Top)
    /\ frames' = Pop
    /\ UNCHANGED <<base, nextRevisionID, precompileCallsCounter, ops, outcome>>

(* Faulty: the objects are written first and the cached store over them.   *)
CommitCacheLast ==
    /\ outcome = "running" /\ frames = <<>> /\ nextRevisionID > 0
    /\ base' = IF db.cache = <<>> THEN commitWithCtx(base, db) ELSE NativeStore
    /\ outcome' = "committed"
    /\ UNCHANGED <<db, revisions, nextRevisionID, precompileCallsCounter, frames, ops>>

Commit ==
    /\ outcome = "running" /\ frames = <<>> /\ nextRevisionID > 0
    /\ base' = commitWithCtx(NativeStore, db)
    /\ outcome' = "committed"
    /\ UNCHANGED <<db, revisions, nextRevisionID, precompileCallsCounter, frames, ops>>

Next ==
    \/ Call \/ Return \/ Fail \/ CallPrecompile \/ ReEnter \/ ReEntryReturn \/ ReEntryFail
    \/ PrecompileReturn \/ PrecompileFail \/ Commit
    \/ \E a, b \in Address : Transfer(a, b)
    \/ \E a \in Address, value \in Slot : Write(a, value)
    \/ \E x, y \in Account : NativeSend(x, y)

Spec == Init /\ [][Next]_vars

-----------------------------------------------------------------------------
(* Properties                                                              *)

(* RevertToSnapshot gives back all that could be seen when the frame was   *)
(* called: balances, storage and existence for the EVM, the cached store,  *)
(* the events and the processed count for the native modules, however many *)
(* flushes and precompile calls lie between.                               *)
RevertRestores ==
    [][Fail \/ PrecompileFail \/ ReEntryFail => View' = Top.before]_vars

(* Coins are neither made nor lost between the two representations: while  *)
(* the EVM runs, the objects and the module account hold the total, and    *)
(* while a precompile runs, its store does.                                *)
CoinsConserved ==
    LET total == Funds * (Cardinality(Existing) + 1)
        native == MapThenSumSet(LAMBDA x : NativeStore.balance[x], Account)
        live == MapThenSumSet(GetBalance, Address) + NativeStore.balance[Module]
    IN  IF frames # <<>> /\ Top.kind = "precompile" /\ Top.stage # "failed"
        THEN native = total ELSE live = total

(* A precompile starts, and goes on after the EVM it called, on a store    *)
(* that shows what the EVM shows ("commit the current changes in the cache *)
(* ctx to get the updated state for the precompile call").                 *)
PrecompileSeesTheEVM ==
    (frames # <<>> /\ Top.kind = "precompile" /\ Top.stage \in {"flushed", "called"}) =>
        \A a \in Address : /\ NativeStore.balance[a] = GetBalance(a)
                           /\ NativeStore.slot[a] = GetState(db, a)

(* Commit leaves in the store what the EVM showed for every address, and   *)
(* what the precompiles left for the module account.                       *)
CommitWritesTheView ==
    [][Commit => /\ \A a \in Address : /\ base'.balance[a] = GetBalance(a)
                                       /\ base'.slot[a] = GetState(db, a)
                 /\ base'.balance[Module] = NativeStore.balance[Module]]_vars

(* The journal counts as dirty exactly the addresses of its entries, and   *)
(* each has a live object: commitWithCtx, which does not check, never      *)
(* meets a missing one and never leaves a change unwritten.                *)
DirtiesExact ==
    \A a \in Address :
        /\ db.dirties[a] = Cardinality({i \in DOMAIN db.journal : db.journal[i].account = a})
        /\ db.dirties[a] > 0 => a \in DOMAIN db.objects
=============================================================================
