# Verification of pos-chain

TLA+ models of pos-chain, the TLC runs that check small instances of them, and TLAPS
proofs that hold for every value of the constants.  Two kinds of code are modelled:
the chain's own modules (bridge, validator incentives, validator admission) with the
parts of the EVM side that hold state across failures (state database, token
conversion, base fee), and the concurrent programs around the state machine (mempool,
event streams).  `PROJECT.json` gives, for every definition, the source lines it
translates, and lists the hazards the properties are about.

## The system

pos-chain is a Cosmos SDK chain with an EVM, forked from cosmos/evm.  Its state
machine runs one block at a time: `BeginBlock` of every module, then the
transactions (the ante handler, then the messages), then `EndBlock`.  A failing
message takes its whole transaction back; a failing `BeginBlock` stops the chain.
Around the state machine run concurrent programs: the mempool, the RPC servers and
their event streams.

| Part | State | Operations | What is hard about it | Module |
|---|---|---|---|---|
| `x/bridge` | route configuration, pause flag, processed identifiers, usage by day, outstanding amount, outbound nonce | initialise, pause, resume, update a route; settle an attestation; initiate an outbound transfer; genesis | replay, approvals used out of order, limits over many transfers, restart from an export | `Bridge`, `BridgeEscrow` |
| vault and signers (outside the repository) | deposits, signatures, releases | lock, sign, release | late attestations, a faulty signer, rotation | `BridgeEndToEnd` |
| `x/validatorincentives`, `evmd/upgrades.go` | parameters, running period, lifetime total, treasury | release per block, new period, update, migrate, genesis | rounding, values frozen by the snapshot, errors in `BeginBlock`, upgrades | `Incentives` |
| `x/validatoradmission` | approval list, capacity, minimum self-delegation | approve, revoke, update; ante handler; genesis | checks made before the messages run, rollback | `ValidatorAdmission` |
| `mempool/internal/heightsync` | one store per height, two channels | start, end, fill; blocking read | readers and the writer out of step, time-outs | `HeightSync` |
| `mempool/internal/queue` | deque, one-place signal | push, take a batch, close | lost wake-ups, capacity, close | `InsertQueue`, `FifoService` |
| `mempool/reserver` | owner of each address, reference counts | hold, release | two pools, counts, partial failure | `Reserver` |
| `mempool/recheck_pool.go`, `mempool.go`, `internal/reaplist` | pool, contexts, reap index, recheck loop | insert, recheck, trigger, build a block, shut down | five goroutines, cancellation | `RecheckPool` |
| `mempool/txpool`, `legacypool` | heads, reset under way, scheduler | new block, reset, promote, sync, close | cancellation, unbuffered channels | `TxPoolReset` |
| `x/feemarket` | base fee, gas wanted | begin and end of a block, update | rounding, zero, minimum | `FeeMarket` |
| `x/vm/statedb`, `precompiles/common` | objects, journal, snapshots, cached stores | write, call, revert, flush, commit | reverts across precompile calls | `StateDB` |
| `x/erc20`, ICS20 precompile | token pair, escrow, packets | convert both ways, callbacks | failure between steps, calls back | `Erc20` |
| `rpc/stream` | segmented buffer, condition variable | add, blocking and polling read | lost wake-ups, pruned segments | `Stream` |
| `ante`, `rpc`, `server`, `indexer`, `client`, wallets | | | translation and I/O | none |

The parts meet in few places.  The admission ante handler sits in front of staking
and slashing; the incentives module moves coins to the fee collector; the bridge
mints and burns through the bank; the two upgrades write the stores of admission
and incentives.  The recheck pool fills a height store, holds addresses in the
reserver it shares with the EVM pool, and keeps the reap list; the EVM pool is reset by
the same block events.  Precompiles connect the state database with the bank and with
`x/erc20`.

## Modules

Operators commented "Faulty" are wrong variants of the definition after them, each
a plausible mistake in that code.  No specification uses them; they are there to
show that the properties notice such a mistake.  A module named `MC...` is the instance
TLC checks, one named `...Proofs` holds the theorems.

### Bridge, BridgeEscrow

The variables are the keys of the store (`config` 0x02, `paused` 0x05, `processed`
0x01, `usage` 0x03, `processedControl` 0x04, `processedPause` 0x06, `outstanding`
0x07, `outboundNonce` 0x08), the block time, the bank, and history variables.  Each
message handler is one action, because an error leaves no write behind; its guard
is the conjunction of the handler's checks.  A hash is the tuple of the fields it
covers.  A handler of `msg_server.go` and the keeper function it calls are two
operators (`ResumeRoute` and `ResumePausedRoute`, `UpdateRouteConfig` and
`ApplyRouteConfigUpdate`).  A signature is the address it recovers to, so a message carries a list of
addresses, possibly with repetitions.  Spellings of a source reference that the
identifier normalises are different attestations with one identifier.
An approval to resume names the configuration, not the pause: one that is unused and
has not expired may lift a later pause under the same configuration.
`BridgeEscrow` is what the bridge promises: each transfer executed at most once, and
nothing redeemed that was not executed.

### BridgeEndToEnd

The vault and the signers are not in the repository, and are modelled from what
`x/bridge` gives them.  The results depend on one rule of the honest signers: an
event is attested again only after every earlier attestation of it has expired and
the status query says that it was not processed.  At most one signer of any
configuration is faulty.

### Incentives

`BeginBlock` is `ProcessBlock` or, when one of its errors would be returned, the
step that sets `halted`.  `Params.Validate` bounds the period by the year and the year
by nothing, so a period may outlast the block numbers, and the snapshot after the
running one then fails: `HaltsOnlyOnOverflow` says that this is all that stops the
chain.  A period of version 1 is one value, `LegacyPeriod`, since
all the code does with it is to fail on it or delete it.  Initial states cover a
chain without the module, one of version 1 and one of version 2; an export and a
restart may come at any block.  A restart drops the running period, whose rest stays in
the treasury, and sets the lifetime total to zero; `funded` starts again from there.

### ValidatorAdmission

A transaction is delivered by one action, which applies the ante handler to all its
messages; each message is then an action, and `Fail` restores the saved state.  A
message has a carrier: it is in the transaction itself, inside an authz `MsgExec`, or
behind a call of the staking or slashing precompile.  The admission handler looks at the
first kind only (`ante.go:25`), and compares it with the policy before the transaction;
the authz decorator refuses some of the second kind, and the precompiles act only for
their caller.  The history variable `unchecked` holds the active validators that a
message brought in which was not compared with the policy it ran in.  Addresses are taken
in their canonical text, and the check of the authority is equality with the stored one.

### HeightSync, Reserver

`HeightSync` keeps every store ever made, and a channel is the position of its store:
`done` is closed when that store is ended, `heightChanged` when there is a later one.
A reader's step is one acquisition of the lock or one channel operation, and its
context may end between any two.  By itself it takes the writer's calls in any order,
panics included; their order in the mempool is that of `RecheckPool`.  `Reserver` has the two kinds of handle, plain (EVM
pool) and counting (Cosmos pool); `uses` records what the pools think they hold.  Both
are components of `RecheckPool`, which instantiates them and takes their steps.

### InsertQueue, FifoService

`Push`, the send on the signal channel after its lock is released, the steps of the
loop and `Close` interleave.  `FifoService` is the service the callers rely on: refused
at once or answered once, in order, with at most a batch and a full deque waiting.

### RecheckPool

The listener of block events, the recheck loop, the recheck under way, the inserting
worker and the block builders are processes.  A recheck holds the pool's mutex from its
first step to its last and is cut by cancellation between any two transactions.
`GetLatestContext` may fail, and then fails until the next block is announced; a recheck
without a context opens an empty store, and what is inserted after it continues the
context of before (`recheck_pool.go:435`).  `SnapshotExecutable` says so: sequences are
consecutive for every signer in any case, and begin at the state of the chain except in
such a store.  The ante handler is a library: a transaction passes when
its sequences are those of its signers and no block made it fail for good; the
priority mempool visits transactions in an order that follows the sequence of the
first signer only.  `RecheckMempool.Remove` has no effect in the code and has no action.

Two things the code does shaped the properties.  After a restart at a height of 2 or
more `CurrentBlock` is the zero header until the first block, so the height store starts
at 0 and a builder that asks for the committed height waits until its time-out
(`PendingTxProposalTimeout`, 250 ms; 0 waits for the block).  `recheck_pool_live`
therefore starts at heights 0 and 1.  And when
the subscription to block events is cancelled, for instance because its buffer
overflowed, the listener ends and nothing triggers rechecks by block any more
(`mempool.go:539`).

### TxPoolReset

The loop of `TxPool`, the goroutine of a reset, the scheduler of `LegacyPool`, the run
it started, one inserter, one caller of `Sync` and one of `Close`.  All channels are
unbuffered, so a send and its receive are one step.  The zero header is one pointer in
the code, which is why the first block after a start without a context causes no reset.
A second caller of `Sync` would replace the waiter of the first (`txpool.go:264`); one
caller is modelled.  A context callback that fails leads to a panic that the code makes
on purpose (`legacypool.go:1806`), and the safety properties say that nothing else does.

### StateDB

Balances and one storage slot stand for an account.  `db` holds the live objects, the
journal, the counts of dirty objects, and the stack of cached stores with its events.
The EVM is external: any sequence of calls, transfers, writes and reverts.  A
precompile flushes the objects, works on the cached store, may call back, and has its
bank events replayed on the objects when it ends.  A flush sets balances without bank
events (`wrappers/bank.go:45`), and so leaves nothing to replay, whatever the comment on
"flushed events (from mint/burn during commit)" says (`statedb.go:734`).

### Erc20

One pair owned by a contract: registered, toggled, deleted, its contract destroyed.
Messages, the ICS20 precompile and the IBC callbacks convert.  The contract is external:
it takes a constant fee of each transfer, refuses, and may call the precompile while it
is being called; when it is destroyed its balances are gone.  The callback of a refund
reports success when its conversion fails, and the coins stay with the module:
`stranded` counts them.  A deleted pair is not registered again, since the metadata of its
coin stays in the bank and registration refuses it.

### Stream, FeeMarket

An item of `Stream` is its id, so that what a reader got can be compared with what it
should have got; a condition channel is the number of broadcasts before it was made.
`FeeMarket` has the exact integer arithmetic of `CalcGasBaseFee`: prices are the
integers that represent the decimals.  Parameters are validated by the message and by the
genesis check of the module, not where they are stored.  A block may use more gas than it
wanted, and `MaxGas` may be less than the elasticity, which makes the gas target zero.

## Runs

| Run | Checks |
|---|---|
| `bridge_end_to_end` | outstanding is minted minus burned; outbound requests are numbered without gap or repetition; an identifier is marked exactly when settled; no event is settled twice; the vault covers outstanding coins and unpaid redemptions; movements are within the limits in force; configuration changes and resumptions use up an approval that names exactly the resulting configuration; the module implements `BridgeEscrow` |
| `incentives` | releases are exactly on schedule; a block fails only when the next period would end beyond the last block number; funding since the start is treasury plus lifetime total; a period keeps its snapshot and is replaced only at its end, completed, or dropped by a restart with its rest in the treasury |
| `admission` | an active validator is approved or came in unchecked, through a carrier or a policy change the ante handler does not see; an exported state that is refused has nobody approved |
| `recheck_pool` | what a builder is given is in the pool and has, for every signer, consecutive sequences, each once, from the state of the chain on (except after a recheck without a context); reservations are exactly those of pooled transactions; the reap list knows exactly the pooled transactions |
| `recheck_pool_live` | nothing panics; every trigger is answered; a builder is served without the help of its time-out, with the store of its height; shutdown ends |
| `txpool_reset` | work cut short is done again; `Sync` returns after a reset that began later; panics come only from faults of the application; the newest head is reached; `Close` ends every goroutine |
| `state_db` | EVM and bank never create or lose coins; a precompile sees what the EVM wrote; the dirty counts are those of the journal and every dirty object exists; a revert restores what the call found; commit writes what the EVM saw |
| `erc20` | every coin is backed by a token of the module; without a fee every token of the module has its coin, which may be the module's own; what a failed refund left with the module stays there, and nothing else is in its account |
| `insert_queue` | every call is answered while the queue is open; the queue implements `FifoService` |
| `stream` | the segments hold the last items under their ids; nothing is delivered twice or out of order; a subscriber that waits when items are added is handed everything it missed, unless it is pruned first |

Two runs show sentences that the code does not satisfy as written.

* `bridge_replay`: "Processed source events are immutable and cannot be executed twice"
  (`docs/bridge-architecture.md:50`).  `ExportGenesis` leaves the processed identifiers
  out; after a restart from the export an attestation before its deadline settles again.
* `admission_unjail`: "An existing validator is jailed and cannot unjail until it is
  approved again" (`docs/validator-admission.md:24`).  A transaction that revokes and then
  unjails passes the ante handler, which compares both with the approvals before it
  (`ante.go:54`); a message inside `MsgExec` or behind the slashing precompile is not
  compared at all.

What some properties leave open is stated by others that fail (below): the refused export
of `admission`, calls around `Close` in `insert_queue`, the height that was never started
in `txpool_reset`, and the skipped or late items of `stream`.  `ReapListMatchesPool` sees
an update of the list that is missing, since reaping is not modelled.

### Fairness

The runs of the chain modules assume none: the handlers run when a user or the
consensus engine calls them, and nothing in the modelled code promises that anyone does.
The liveness properties of the concurrent modules assume weak fairness of goroutines
that are already running, which the Go scheduler gives, and of nothing else: of the loop
and the pending signals in `InsertQueue`; of the listener, the loop, the recheck, an
insertion under way and a builder inside `GetStore` in `RecheckPool`; of each goroutine
of `TxPoolReset` while nothing has panicked; of the subscribers in `Stream`.  New blocks,
new calls, ends of contexts, faults and shutdown are never forced.  A select with
several ready cases may always take the same one, as weak fairness of the whole
goroutine allows.

### Bounds

* Bridge: two deposits, one of them attested twice with different deadlines and once for
  a wrong amount; amounts 1 and 2 against transfer limits of 2 and 1, daily limits of 3
  and 2 and outstanding limits of 4 and 2; days of two time units, times up to 4; two
  outbound transfers; one faulty signer before and one after a rotation; pauses,
  resumptions, a closure of the route and a configuration that is not valid.  The limits
  leave room for the first deposit to settle twice, so that they do not hide it; the
  maximum supply is never the one that refuses, and is proved.  Restarts are in
  `bridge_replay` and in the proofs.
* Incentives: basis points in tenths, seven blocks (two periods of three and the
  start of a third), deposits of 0, 3 and 8 up to 16 coins, rates that leave
  remainders in both divisions.  `MaxUint64` is 31, and one period of 29 blocks outlasts it
  from block 3 on.
* Admission: three operators and capacities 0 to 2, coins of two denominations and
  amounts 0 to 2, every message alone, staking messages in each carrier, and pairs whose
  second message may fail or run in a policy that the first changed.
* Recheck pool: two blocks (one cancels the recheck of the other), a pool of two places
  and three transactions of two signers, one of them signed by both, so that capacity,
  replacement and partial holds occur; the EVM pool takes the same addresses; the context
  may be unavailable over one stretch, and the pool is not closed (`MayClose`).  The live
  run has no transactions, and instead restarts at heights 0 and 1, a builder, one
  stretch without a context and the shutdown: scheduling does not look at transactions, and the safety
  properties do not depend on who waits.  One listener triggers rechecks.  No block is
  committed while a builder is inside `GetStore`, as the consensus engine waits for the
  proposal; the height would otherwise pass the builder's, which panics.
* Reset loop: two heads, one `Sync`, one promotion, one fault.  With finitely many heads
  the chain pauses in the end; blocks that come faster than resets finish may starve a
  reset for ever, in the code as in the model.
* State database: two addresses and a module account, seven operations, depth four,
  two precompile calls, so that one is reverted inside another.
* Tokens: two users (symmetric), amounts 1 and 2, fees 0 and 1, two packets, two nested
  calls.
* Insert queue: four calls, one with a nil transaction, and two places.
* Stream: one segment of two items kept beside the one being filled, seven items in
  batches up to three, one subscriber and one polling filter.

`MaxTime`, `MaxNonce`, `MaxHeight`, `MaxFunded`, `MaxFaults`, `MaxHeads`, `MaxSyncs`,
`MaxPromotes`, `MaxStarts`, `MaxOps`, `MaxDepth`, `MaxPackets`, `MaxStranded`, `MaxItems` and
`MaxBatch` bound what is explored and have no counterpart in the code.  Deadlock is
allowed where the system may really stop: when every caller has returned, the chain has
made its last block or everything is closed.

## Proofs

The theorems hold for every value of the constants allowed by the named
assumptions: any number of addresses, configurations, attestations, parameters,
deposits, operators, transactions, callers, readers and heights.

* `BridgeProofs`.  `TypeCorrect`, `AccountingHolds`, `SupplyCapHolds` and
  `NumberingHolds` are about the chain with restarts.  `Accounting` and
  `SupplyCapped` are inductive together with the type invariant (`AmountsInv`).
  `SettledOnceHolds` and `ProcessedIffSettledHolds` need `ReplayInv`, which says
  of each identifier that it was settled once if marked and never otherwise, and
  of each day that its recorded usage is what moved: they
  hold for a chain that is not restarted, as `bridge_replay` shows.  `LimitsHold`
  needs that the recorded usage is the real flow (`UsageHolds`).  `ApprovalsSpent`
  follows from the handlers alone, one action at a time.  `EscrowRefined` maps
  every step to one of `BridgeEscrow` or to a stutter.
* `BridgeEndToEndProofs`.  `EventOnce` rests on `EndorsedInv`: of the identifiers
  honest signers signed for one event, all but one have expired unprocessed, and
  whatever is processed was signed.  Two distinct signers include an honest one.
* `IncentivesProofs`.  `ScheduleInv` joins the type invariant, `PeriodSolvent` and
  `ReleasedOnSchedule`: none is inductive alone, since the release of a block is
  within the treasury only because what was released before is exactly on
  schedule.  From it follow `SolventAlways`, `ScheduleKept` and `PeriodsComplete`.
  `OnlyOverflowHalts` goes through the errors of `ProcessBlock` and shows that each but the
  one of the block numbers is excluded; it needs that a chain stops only with version 2 of
  the store, since an upgrade of a stopped chain would otherwise change its period.  `LifetimeAccountingHolds` adds that a chain
  without the module has released nothing.
* `ValidatorAdmissionProofs`.  `PolicyInv` carries validity and capacity through
  the saved state, as a rollback must restore them.  `OutOnlyUncheckedHolds` and
  `CreatedWithMinimumHolds` are about any set of transactions; `AdmissionInv` says that
  what the ante handler found of the messages still to run holds of the saved policy, and
  that the saved state satisfies the invariant too.
* `ReserverProofs`, assuming `WellFormed`.  `OwnedExactly` and `CountersExact` are
  inductive together with `PlainUsesDisjoint`: two uses of a plain handle share no
  address, because the EVM pool holds an address only when it has no transaction of it
  (a rule of the caller, part of `HoldUse`; `Hold` itself would allow it).  Without that a release by a
  plain handle would end a reservation another use still needs.  A release ends a
  reservation exactly when it is the last use (`LastUse`), which ties the counter to
  the cardinality of the uses.
* `InsertQueueProofs`, assuming `InsertQueueAssumption`.  `Inv` joins the types,
  `NothingLost`, `NoLostWakeup` and `QueueInv` (there is a batch only between taking and
  answering, and a call that has not been made is nowhere).  `FifoRefined` maps batch
  and deque, in this order, to the waiting calls of `FifoService`.
* `HeightSyncProofs`, assuming that heights are natural numbers, for any order of the
  writer's calls.  `Inv` adds to the
  types that only the newest store is unfinished, that a reader waits for its own
  target, and `ChannelsMade`: a reader waits on channels that exist.  Every step of the
  writer satisfies `StoresKept` (heights stay, ended stays ended), so that what a reader
  learnt under the lock still holds at its next step; `TargetServed` follows.
* `FeeMarketProofs`, assuming `ConstantsTyped`.  The state only needs valid parameters
  (`ParamsValid`).  The rest is arithmetic, in lemmas on truncated division
  (`Quotient`, `QuotientOrder`, `QuotientOfProduct`) and on the share of the fee that a
  deviation from the target is worth (`ShareBounds`, `ShareOrder`): from them
  `FloorHolds`, `LoadFollowed`, `ChangeIsBounded`, `FeeMonotone` and `RecordedGasHolds`.
  `FloorHolds` and `ChangeIsBounded` are about blocks with a gas target; `LoadFollowed` also
  says what happens without one (any gas sets the fee to zero, below any minimum), and
  `FeeMonotone` names the two cases in which a fuller block leads to a lower fee.

Proved and not run: `Accounting` and `ReceiptsNumbered` across restarts; the properties of `FeeMarket`, of `HeightSync` and `Reserver` by
themselves (both run as parts of `RecheckPool`); the type invariants of `Bridge`,
`Incentives`, `ValidatorAdmission` and `InsertQueue`; `SettledAtMostOnce`, `UsageIsFlow`,
`SupplyCapped`, `PeriodSolvent`, `CapacityRespected`, `CreatedWithMinimum`,
`NothingLost` and `NoLostWakeup`.

Only model-checked: liveness, which needs fairness; `BackedByCollateral`, a sum over a set
of events that needs an induction the provers cannot do; and everything about
`RecheckPool`, `TxPoolReset`, `StateDB`, `Erc20` and `Stream`.

## Differences between comments or documents and the code

Besides those of the two runs, modelling met the following sentences that the code does not
satisfy as written.  Each is stated as a property; the last column changes the
configuration named in the second, with that property as the only one.

| Sentence | Configuration, property | What the code does | Changes |
|---|---|---|---|
| "A route may be present only when it passes the same validation used at runtime" (`x/bridge/types/genesis.go:8`) | `MCBridgeEndToEnd`, `ExportedGenesisValid` | An update may lower the outstanding limit below the outstanding amount (`control_apply.go:66`); `InitGenesis` refuses the export of that state. | none |
| "Route closure blocks new transfers and preserves valid redemptions" (`docs/bridge-testnet-acceptance.md:22`) | `MCBridgeEndToEnd`, `ClosurePreservesRedemptions` | A disabled route refuses both (`route_state.go:38`), and `close_route` has no handler. | none |
| "ExportAppStateAndValidators exports the state of the application for a genesis file" (`evmd/export.go:18`) | `MCValidatorAdmission`, `ExportedGenesisValid` | After the last revocation the exported state has an authority and nobody approved, which `Validate` refuses (`types/genesis.go:68`). | none |
| "Push enqueues a Tx's to eventually be inserted" (`mempool/internal/queue/queue.go:98`) | `MCInsertQueue`, `EventuallyInserted` | The loop returns at its first look at `done` (line 174), and `Push` does not look at it: what is pushed later stays unanswered. | `Call = {c1, c2}`, `NilCall = {}` |
| "since nonces only increase, ErrWrongSequence seen here must mean that the tx's nonce became too low" (`mempool/recheck_pool.go:490`) | `MCRecheckPool`, `WrongSequenceMeansTooLow` | Order follows the first signer, so a transaction may be met before one of two signers that holds the lower sequence: its own is too high. | `Tx = {t3, t4}`, `EVMAddress = {}`, `Refusable = {}`, `StartHeight = {1}`, `MaxHeight = 3` |
| "Update updates the recheckers context to be the ctx at headers height" (`mempool/recheck_pool.go:75`) | `MCRecheckPool`, `RecheckedAtHead` | The header is that of the announced block, the context the latest when the run starts (line 435). | the same with `Tx = {t1}` |
| "notify the subscribers" (`rpc/stream/stream.go:62`) | `MCStream`, `SubscribersNotified` | `ReadBlocking` unlocks before it takes the channel (line 133); an addition in between wakes nobody, and is read with the next one. | `Filter = {}`, `MaxItems = 2`, `MaxBatch = 1` |
| "ReadNonBlocking returns items with id greater than the last received id reported by user" (`rpc/stream/stream.go:89`) | `MCStream`, `ReadsAllThatIsKept` | When the segment of the offset is pruned, reading skips offset modulo segment size items of the earliest one (line 177). | `Subscriber = {}`, `MaxItems = 8` |
| "still succeeds, but the user receives the corresponding bank token from the TokenPair instead" (`x/erc20/keeper/ibc_callbacks.go:157`) | `MCErc20`, `RefundedInCoins` | The coins are moved to the module before the contract is called, and a failing call undoes nothing (line 227). | `User = {u1}`, `Fees = {0}`, no `SYMMETRY` |
| "Only if we have seen a new block, then tell the subpools that are still processing the previous block, to cancel their work" (`mempool/txpool/txpool.go:218`) | `MCTxPoolReset`, `CancelledOnlyForANewBlock` | A `Sync` during the reset of the newest block cancels it too (line 221); it is done again. | `MaxHeads = 1`, `MaxPromotes = 0`, `MaxFaults = 0` |
| "The head state may be unavailable if the initial state sync has not yet completed" (`mempool/txpool/txpool.go:191`) | `MCTxPoolReset`, `UnavailableStateTolerated` | `resetInternalState` returns before `StartNewHeight` (`legacypool.go:1727`), and `EndCurrentHeight` panics for a height that has ended. | `MaxSyncs = 0`, `MaxPromotes = 0`, `MaxFaults = 2` |

Related to these: `ExportGenesis` of the incentives module leaves the lifetime total out
(`keeper/genesis.go:20`), so that after a restart the "cumulative funded distributions" of
`docs/validator-incentives-governance.md:121` count from zero; and `ValidateUpdate`
"validates a complete governance-controlled parameter set" (`types/params.go:37`) and
accepts the period that `HaltsOnlyOnOverflow` names.

## Not modelled

Wording, events, queries and encoding everywhere.  Further:

* Bridge: balances in the bank beyond the accounts a message names; issuance by other
  modules (`SupplyCapped` is about a supply that only the bridge changes).
* Reap list: the holes in its list, and the limits of bytes and gas of a reap; a
  transaction too large at the head keeps the ones behind it waiting, which no property
  is about.
* Mempool: the lists by nonce of `LegacyPool`, its prices and limits; the order of
  selection by price (`iterators`); the entry points of `CheckTx`; time stamps.
* State database: nonces, code, self-destruction, logs, refunds, transient storage,
  access lists, `Finalise`.  Byte code is run by a library.
* Tokens: pairs owned by the module, whose coins are the tokens; allowances; fees that
  change between transfers.
* Streams: the ring buffer of the queue, which is a sequence here.
* `ante`, RPC back end, servers, indexer, command line, wallets and generated code: checks
  of one transaction, translation and I/O, without state that outlives a call.  They are
  most of the lines of the repository, so the share of its lines that the
  models translate is small; what is modelled is the code with state that several
  actors, blocks or failures share.
