---------------------------- MODULE RecheckPool -----------------------------
(***************************************************************************)
(* The pool of Cosmos transactions and its rechecking                      *)
(* (mempool/recheck_pool.go), with what it works on: the height            *)
(* synchronised store, the address reservations it shares with the EVM     *)
(* pool, the index of the reap list, the chain it follows and the block    *)
(* builder it serves.                                                      *)
(*                                                                         *)
(* Goroutines: the listener of block events, the loop that schedules       *)
(* rechecks, the recheck under way, the worker that inserts, and the block *)
(* builder.  The mutex mu of the pool is held by a recheck from its first  *)
(* step to its last; an insertion holds it for one step.  A request to the *)
(* loop and the answer on recheckDoneCh are one step, since between them   *)
(* both goroutines only wait for each other.  The ante handler and the     *)
(* priority mempool are libraries: a transaction passes when its sequences *)
(* are those of its signers and the state does not refuse it for another   *)
(* reason, and the pool is visited in any order that respects the nonces   *)
(* of first signers.                                                       *)
(***************************************************************************)
EXTENDS Naturals, Sequences, FiniteSets

CONSTANTS
    Tx, Signer,
    sequence,      \* of each transaction: the sequence of each of its signers
    first,         \* of each transaction: its first signer
    EVMAddress,    \* the addresses that also send to the EVM pool
    Refusable,     \* transactions that a block may make fail for good
    MaxTx,         \* capacity of the pool
    Builder,       \* the block builders: the readers of the height sync
    StartHeight,   \* committed heights at which the node may start
    MaxHeight,     \* bound: the last block
    MaxFaults,     \* bound: the times at which the application has no context to give
    MayClose,      \* bound: whether the pool may be closed
    CosmosPool, EVMPool, Free

ASSUME RecheckPoolAssumption ==
    /\ \A t \in Tx : DOMAIN sequence[t] \subseteq Signer /\ first[t] \in DOMAIN sequence[t]
    /\ Refusable \subseteq Tx /\ EVMAddress \subseteq Signer /\ MaxHeight \in Nat /\ StartHeight \subseteq Nat

VARIABLES
    chain,       \* committed states by height: sequences, refused transactions
    hashed,      \* Blockchain: previousHeaderHash is set
    latestCtx,   \* Blockchain: height of the stored context, 0 when it is zero
    events,      \* block events on their way
    listener,    \* where the event listener is, and the header it read
    loop,        \* the variables of scheduleRecheckLoop
    run,         \* the recheck under way
    ins,         \* the insertion under way
    pool,        \* ExtMempool
    listed,      \* the index of the reap list
    ctx,         \* context of the rechecker: base height (0 when zero) and sequences;
                 \* fresh: history, the last recheck was given a context
    shutdown,    \* shutdownCh is closed
    closed,      \* the done channels that are closed
    evmHeld,     \* addresses with transactions in the EVM pool
    faults,
    stores, reader, panicked,   \* HeightSync
    accounts, refsCounter       \* ReservationTracker and the counting handle

chainVars == <<chain, hashed, latestCtx, events, listener>>
poolVars == <<pool, listed, ctx>>
syncVars == <<stores, reader, panicked>>
reservations == <<accounts, refsCounter>>
vars == <<chainVars, loop, run, ins, poolVars, shutdown, closed, evmHeld, faults, syncVars,
          reservations>>

signers(t) == DOMAIN sequence[t]

HS == INSTANCE HeightSync
        WITH Reader <- Builder, Height <- 0..MaxHeight, MaxStarts <- MaxHeight + 1

(* What the pools use addresses for, as the reservations should show it.   *)
Holding ==
    {[handle |-> CosmosPool, addrs |-> signers(t), id |-> <<"pool", t>>] : t \in pool}
    \cup {[handle |-> EVMPool, addrs |-> {a}, id |-> <<"evm", a>>] : a \in evmHeld}
    \cup (IF ins.pc = "idle" THEN {}
          ELSE {[handle |-> CosmosPool, addrs |-> signers(ins.tx), id |-> <<"insert", ins.tx>>]})

Res == INSTANCE Reserver
         WITH Address <- Signer, Handle <- {CosmosPool, EVMPool}, Counting <- {CosmosPool},
              Use <- {}, uses <- Holding

-----------------------------------------------------------------------------
(* Blockchain *)

committed == Len(chain)

(* The application failed to give a context and may go on failing until    *)
(* the next block.                                                         *)
Failing == faults > 0 /\ latestCtx = 0

(* newLatestContext: there is a context once a block is committed; it may  *)
(* also fail.                                                              *)
ContextHeights ==
    (IF committed > 0 THEN {committed} ELSE {0})
    \cup (IF faults < MaxFaults \/ Failing THEN {0} ELSE {})

(* The fault that a choice from ContextHeights spends.                     *)
Spend(h) ==
    faults' = IF h = 0 /\ committed > 0 /\ faults < MaxFaults THEN faults + 1 ELSE faults

(* CurrentBlock: the number of the header, 0 for the zero header.          *)
HeaderNumber(h, isHashed) == IF h > 1 /\ ~isHashed THEN 0 ELSE h

(* GetLatestContext                                                        *)
LatestHeights == IF latestCtx # 0 THEN {latestCtx} ELSE ContextHeights

-----------------------------------------------------------------------------
NoRun == [pc |-> "none", head |-> 0, visited |-> {}, failed |-> {}, remove |-> {}]
MuFree == run.pc \in {"none", "lock", "unlocked"}

ContextAt(h) ==
    [at |-> h, seq |-> IF h = 0 THEN [a \in Signer |-> 0] ELSE chain[h].seq, fresh |-> TRUE]

InSequence(t, seq) == \A a \in signers(t) : sequence[t][a] = seq[a]

Advance(seq, S) == [a \in Signer |-> IF a \in S THEN seq[a] + 1 ELSE seq[a]]

(* RecheckCosmos on the context c: what the ante handler may answer.  When *)
(* a transaction fails for two reasons, either may come first.             *)
Verdicts(c, t) ==
    LET errors == (IF InSequence(t, c.seq) THEN {} ELSE {"ErrWrongSequence"})
                  \cup (IF t \in chain[c.at].refused THEN {"refused"} ELSE {})
    IN  IF errors = {} THEN {"ok"} ELSE errors

Genesis == [seq |-> [a \in Signer |-> 0], refused |-> {}]

Init ==
    /\ \E n \in StartHeight :
          /\ chain = [i \in 1..n |-> Genesis]
          /\ HS!InitAt(HeaderNumber(n, FALSE))
          /\ ctx = [at |-> n, seq |-> [a \in Signer |-> 0], fresh |-> TRUE]
    /\ hashed = FALSE /\ latestCtx = 0 /\ events = 0
    /\ listener = [pc |-> "idle", head |-> 0]
    /\ loop = [pc |-> "select", cur |-> 0, next |-> 1, launch |-> FALSE, head |-> 0,
               cancelled |-> FALSE]
    /\ run = NoRun /\ ins = [pc |-> "idle"]
    /\ pool = {} /\ listed = {}
    /\ shutdown = FALSE /\ closed = {} /\ evmHeld = {} /\ faults = 0
    /\ accounts = [a \in Signer |-> Free]
    /\ refsCounter = [h \in {CosmosPool} |-> [a \in Signer |-> 0]]

-----------------------------------------------------------------------------
(* The chain: a block executes one transaction or none.  Consensus does    *)
(* not commit while the application prepares a proposal.                   *)
Executable(t) == InSequence(t, ContextAt(committed).seq)

Commit ==
    /\ committed < MaxHeight
    /\ \A b \in Builder : reader[b].pc \in {"idle", "panic"}
    /\ \E block \in SUBSET Tx, refused \in SUBSET Refusable :
          /\ Cardinality(block) <= 1 /\ \A t \in block : Executable(t)
          /\ chain' = Append(chain,
                [seq |-> Advance(ContextAt(committed).seq, UNION {signers(t) : t \in block}),
                 refused |-> refused])
    /\ events' = events + 1
    /\ UNCHANGED <<hashed, latestCtx, listener, loop, run, ins, poolVars, shutdown, closed,
                   evmHeld, faults, syncVars, reservations>>

(* SetEventBus, NotifyNewBlock of Blockchain.                              *)
NotifyNewBlock ==
    /\ listener.pc = "idle" /\ events > 0
    /\ events' = events - 1
    /\ \E h \in ContextHeights : latestCtx' = h /\ Spend(h)
    /\ hashed' = TRUE
    /\ listener' = [listener EXCEPT !.pc = "read"]
    /\ UNCHANGED <<chain, loop, run, ins, poolVars, shutdown, closed, evmHeld, syncVars,
                   reservations>>

(* NotifyNewBlock of Mempool: CurrentBlock is read afterwards.             *)
ReadCurrentBlock ==
    /\ listener.pc = "read"
    /\ \E h \in ContextHeights :
          /\ Spend(h)
          /\ listener' = [pc |-> "trigger", head |-> HeaderNumber(h, hashed)]
    /\ UNCHANGED <<chain, hashed, latestCtx, events, loop, run, ins, poolVars, shutdown, closed,
                   evmHeld, syncVars, reservations>>

-----------------------------------------------------------------------------
(* TriggerRecheck and scheduleRecheckLoop *)

(* Faulty: a request that finds a recheck under way only cancels it.       *)
RequestDropped ==
    /\ listener.pc = "trigger" /\ loop.pc = "select"
    /\ ~(loop.launch /\ loop.cur = 0)
    /\ loop' = [loop EXCEPT !.launch = loop.cur = 0, !.head = listener.head,
                            !.cancelled = loop.cur # 0]
    /\ listener' = [pc |-> "idle", head |-> 0]
    /\ UNCHANGED <<chain, hashed, latestCtx, events, run, ins, poolVars, shutdown, closed,
                   evmHeld, faults, syncVars, reservations>>

(* The loop takes a request, cancels the recheck under way and hands out   *)
(* the channel that the next recheck will close.                           *)
Request ==
    /\ listener.pc = "trigger" /\ loop.pc = "select"
    /\ ~(loop.launch /\ loop.cur = 0)
    /\ loop' = [loop EXCEPT !.launch = TRUE, !.head = listener.head,
                            !.cancelled = loop.cur # 0]
    /\ listener' = [pc |-> "idle", head |-> 0]
    /\ UNCHANGED <<chain, hashed, latestCtx, events, run, ins, poolVars, shutdown, closed,
                   evmHeld, faults, syncVars, reservations>>

(* TriggerRecheck after the loop has ended.                                *)
RequestAfterShutdown ==
    /\ listener.pc = "trigger" /\ loop.pc = "stopped"
    /\ listener' = [pc |-> "idle", head |-> 0]
    /\ UNCHANGED <<chain, hashed, latestCtx, events, loop, run, ins, poolVars, shutdown, closed,
                   evmHeld, faults, syncVars, reservations>>

(* The top of the loop.                                                    *)
Launch ==
    /\ loop.pc = "select" /\ loop.cur = 0 /\ loop.launch
    /\ run' = [NoRun EXCEPT !.pc = "lock", !.head = loop.head]
    /\ loop' = [loop EXCEPT !.cur = loop.next, !.next = @ + 1, !.launch = FALSE, !.head = 0,
                            !.cancelled = FALSE]
    /\ UNCHANGED <<chainVars, ins, poolVars, shutdown, closed, evmHeld, faults, syncVars,
                   reservations>>

(* case <-curDone                                                          *)
RunObserved ==
    /\ loop.pc = "select" /\ loop.cur \in closed
    /\ loop' = [loop EXCEPT !.cur = 0, !.cancelled = FALSE]
    /\ run' = NoRun
    /\ UNCHANGED <<chainVars, ins, poolVars, shutdown, closed, evmHeld, faults, syncVars,
                   reservations>>

(* Close of the pool.                                                      *)
Shutdown ==
    /\ MayClose /\ ~shutdown
    /\ shutdown' = TRUE
    /\ UNCHANGED <<chainVars, loop, run, ins, poolVars, closed, evmHeld, faults, syncVars,
                   reservations>>

(* Faulty: the channel of the requests that are not served stays open.      *)
StopSilently ==
    /\ shutdown
    /\ \/ /\ loop.pc = "select" /\ ~(loop.launch /\ loop.cur = 0)
          /\ loop' = [loop EXCEPT !.pc = "stopping", !.cancelled = loop.cur # 0]
          /\ UNCHANGED closed
       \/ /\ loop.pc = "stopping" /\ loop.cur \in closed \cup {0}
          /\ loop' = [loop EXCEPT !.pc = "stopped"]
          /\ UNCHANGED closed
    /\ UNCHANGED <<chainVars, run, ins, poolVars, shutdown, evmHeld, faults, syncVars,
                   reservations>>

(* Faulty: a recheck is waited for also when there is none.                *)
StopAlwaysWaiting ==
    /\ shutdown
    /\ \/ /\ loop.pc = "select" /\ ~(loop.launch /\ loop.cur = 0)
          /\ loop' = [loop EXCEPT !.pc = "stopping", !.cancelled = loop.cur # 0]
          /\ UNCHANGED closed
       \/ /\ loop.pc = "stopping" /\ loop.cur \in closed
          /\ loop' = [loop EXCEPT !.pc = "stopped"]
          /\ closed' = closed \cup {loop.next}
    /\ UNCHANGED <<chainVars, run, ins, poolVars, shutdown, evmHeld, faults, syncVars,
                   reservations>>

(* case <-shutdownCh: cancel, wait for the recheck, close the channel that *)
(* later requests were given, end.                                         *)
Stop ==
    /\ shutdown
    /\ \/ /\ loop.pc = "select" /\ ~(loop.launch /\ loop.cur = 0)
          /\ loop' = [loop EXCEPT !.pc = "stopping", !.cancelled = loop.cur # 0]
          /\ UNCHANGED closed
       \/ /\ loop.pc = "stopping" /\ loop.cur \in closed \cup {0}
          /\ loop' = [loop EXCEPT !.pc = "stopped"]
          /\ closed' = closed \cup {loop.next}
    /\ UNCHANGED <<chainVars, run, ins, poolVars, shutdown, evmHeld, faults, syncVars,
                   reservations>>

-----------------------------------------------------------------------------
(* runRecheck *)

RunLock ==
    /\ run.pc = "lock"
    /\ HS!StartNewHeight(run.head)
    /\ run' = [run EXCEPT !.pc = "update"]
    /\ UNCHANGED <<chainVars, loop, ins, poolVars, shutdown, closed, evmHeld, faults,
                   reservations>>

RunUpdate ==
    /\ run.pc = "update"
    /\ \E h \in LatestHeights :
          /\ Spend(h)
          /\ ctx' = IF h = 0 THEN [ctx EXCEPT !.fresh = FALSE] ELSE ContextAt(h)
          /\ run' = [run EXCEPT !.pc = IF h = 0 THEN "end" ELSE "iterate"]
    /\ UNCHANGED <<chainVars, loop, ins, pool, listed, shutdown, closed, evmHeld, syncVars,
                   reservations>>

(* The transactions that Select may give next: the order across first      *)
(* signers is by priority, which may be any.                               *)
Candidates ==
    {t \in pool \ run.visited : \A u \in pool \ run.visited :
        first[u] = first[t] => sequence[u][first[u]] >= sequence[t][first[t]]}

(* A signer of the transaction had one fail at a lower sequence.           *)
Invalidated(t) == \E f \in run.failed : f[1] \in signers(t) /\ f[2] < sequence[t][f[1]]

(* AddTx: a second transaction with the same sequences is not added.       *)
AddTx(txs, t) == IF \E u \in txs : sequence[u] = sequence[t] THEN txs ELSE txs \cup {t}

(* One turn of the loop over the pool.                                     *)
RunCheck(t) ==
    /\ run.pc = "iterate" /\ ~loop.cancelled
    /\ t \in Candidates
    /\ \E verdict \in IF Invalidated(t) THEN {"invalidTx"} ELSE Verdicts(ctx, t) :
          /\ run' = [run EXCEPT
                !.visited = @ \cup {t},
                !.remove = IF verdict = "ok" THEN @ ELSE @ \cup {t},
                !.failed = IF verdict \in {"ok", "ErrWrongSequence"} THEN @
                           ELSE @ \cup {<<a, sequence[t][a]>> : a \in signers(t)}]
          /\ IF verdict = "ok"
             THEN /\ ctx' = [ctx EXCEPT !.seq = Advance(@, signers(t))]
                  /\ HS!Do(AddTx(stores[HS!Current].txs, t))
             ELSE UNCHANGED <<ctx, syncVars>>
    /\ UNCHANGED <<chainVars, loop, ins, pool, listed, shutdown, closed, evmHeld, faults,
                   reservations>>

RunCancelled ==
    /\ run.pc = "iterate" /\ loop.cancelled
    /\ run' = [run EXCEPT !.pc = "end"]
    /\ UNCHANGED <<chainVars, loop, ins, poolVars, shutdown, closed, evmHeld, faults, syncVars,
                   reservations>>

(* The loop is over, and the last look at the cancellation.                *)
RunChecked ==
    /\ run.pc = "iterate" /\ ~loop.cancelled /\ Candidates = {}
    /\ run' = [run EXCEPT !.pc = "remove"]
    /\ UNCHANGED <<chainVars, loop, ins, poolVars, shutdown, closed, evmHeld, faults, syncVars,
                   reservations>>

(* Faulty: what is removed from the pool stays in the reap list.           *)
RunRemoveUnlisted ==
    /\ run.pc = "remove"
    /\ IF run.remove = {}
       THEN run' = [run EXCEPT !.pc = "end"] /\ UNCHANGED <<pool, listed, reservations>>
       ELSE \E t \in run.remove :
              /\ run' = [run EXCEPT !.remove = @ \ {t}]
              /\ pool' = pool \ {t} /\ UNCHANGED listed
              /\ Res!Release(CosmosPool, signers(t))
    /\ UNCHANGED <<chainVars, loop, ins, ctx, shutdown, closed, evmHeld, faults, syncVars>>

(* Faulty: only the address of the first signer is released.               *)
RunRemoveFirst ==
    /\ run.pc = "remove"
    /\ IF run.remove = {}
       THEN run' = [run EXCEPT !.pc = "end"] /\ UNCHANGED <<pool, listed, reservations>>
       ELSE \E t \in run.remove :
              /\ run' = [run EXCEPT !.remove = @ \ {t}]
              /\ pool' = pool \ {t} /\ listed' = listed \ {t}
              /\ Res!Release(CosmosPool, {first[t]})
    /\ UNCHANGED <<chainVars, loop, ins, ctx, shutdown, closed, evmHeld, faults, syncVars>>

RunRemove ==
    /\ run.pc = "remove"
    /\ IF run.remove = {}
       THEN run' = [run EXCEPT !.pc = "end"] /\ UNCHANGED <<pool, listed, reservations>>
       ELSE \E t \in run.remove :
              /\ run' = [run EXCEPT !.remove = @ \ {t}]
              /\ pool' = pool \ {t} /\ listed' = listed \ {t}
              /\ Res!Release(CosmosPool, signers(t))
    /\ UNCHANGED <<chainVars, loop, ins, ctx, shutdown, closed, evmHeld, faults, syncVars>>

(* Faulty: a recheck that was cancelled leaves its height open.            *)
RunEndUnlessCancelled ==
    /\ run.pc = "end"
    /\ IF loop.cancelled THEN UNCHANGED syncVars ELSE HS!EndCurrentHeight
    /\ run' = [run EXCEPT !.pc = "unlocked"]
    /\ UNCHANGED <<chainVars, loop, ins, poolVars, shutdown, closed, evmHeld, faults,
                   reservations>>

(* The deferred calls: EndCurrentHeight and Unlock, then close of done.    *)
RunEnd ==
    /\ run.pc = "end"
    /\ HS!EndCurrentHeight
    /\ run' = [run EXCEPT !.pc = "unlocked"]
    /\ UNCHANGED <<chainVars, loop, ins, poolVars, shutdown, closed, evmHeld, faults,
                   reservations>>

RunDone ==
    /\ run.pc = "unlocked" /\ loop.cur \notin closed
    /\ closed' = closed \cup {loop.cur}
    /\ UNCHANGED <<chainVars, loop, run, ins, poolVars, shutdown, evmHeld, faults, syncVars,
                   reservations>>

Recheck ==
    \/ RunLock \/ RunUpdate \/ RunCancelled \/ RunChecked \/ RunRemove \/ RunEnd \/ RunDone
    \/ \E t \in Tx : RunCheck(t)

-----------------------------------------------------------------------------
(* Insert *)

InsertHold(t) ==
    /\ ins.pc = "idle"
    /\ Res!Hold(CosmosPool, signers(t))
    /\ ins' = [pc |-> "held", tx |-> t]
    /\ UNCHANGED <<chainVars, loop, run, poolVars, shutdown, closed, evmHeld, faults, syncVars>>

(* The transaction with the same first signer and nonce, which is replaced. *)
Replaced(t) ==
    {u \in pool : first[u] = first[t] /\ sequence[u][first[u]] = sequence[t][first[t]]}

(* InvalidateFrom: what no longer follows once t has replaced another.     *)
StaleAfter(txs, t) ==
    {u \in txs : \E a \in signers(u) \cap signers(t) : sequence[u][a] >= sequence[t][a]}

(* markTxInserted                                                          *)
MarkInserted(txs, t) ==
    IF \E u \in txs : sequence[u] = sequence[t] THEN txs \ StaleAfter(txs, t) ELSE txs \cup {t}

(* Faulty: the context keeps the state of before the transaction.          *)
AcceptUnwritten(t, c) ==
    /\ pool' = (pool \ Replaced(t)) \cup {t}
    /\ listed' = (listed \ Replaced(t)) \cup {t}
    /\ IF Replaced(t) = {} THEN UNCHANGED reservations
       ELSE \E u \in Replaced(t) : Res!Release(CosmosPool, signers(u))
    /\ ctx' = c
    /\ HS!Do(MarkInserted(stores[HS!Current].txs, t))
    /\ ins' = [pc |-> "idle"]

(* The transaction is in: the one it replaces leaves the reap list and its *)
(* addresses, and the context advances.                                    *)
Accept(t, c) ==
    /\ pool' = (pool \ Replaced(t)) \cup {t}
    /\ listed' = (listed \ Replaced(t)) \cup {t}
    /\ IF Replaced(t) = {} THEN UNCHANGED reservations
       ELSE \E u \in Replaced(t) : Res!Release(CosmosPool, signers(u))
    /\ ctx' = [c EXCEPT !.seq = Advance(@, signers(t))]
    /\ HS!Do(MarkInserted(stores[HS!Current].txs, t))
    /\ ins' = [pc |-> "idle"]

(* What is done under the lock.  A context is fetched when there is none.  *)
InsertLocked ==
    /\ ins.pc = "held" /\ MuFree
    /\ \E h \in IF ctx.at # 0 THEN {ctx.at} ELSE LatestHeights :
          LET c == IF ctx.at # 0 THEN ctx ELSE ContextAt(h)
          IN  /\ Spend(h)
              /\ IF h # 0 /\ Verdicts(c, ins.tx) = {"ok"} /\ Cardinality(pool) < MaxTx
                 THEN Accept(ins.tx, c)
                 ELSE /\ ins' = [ins EXCEPT !.pc = "failed"]
                      /\ ctx' = c
                      /\ UNCHANGED <<pool, listed, syncVars, reservations>>
    /\ UNCHANGED <<chainVars, loop, run, shutdown, closed, evmHeld>>

(* The deferred release of an insertion that failed.                       *)
InsertRelease ==
    /\ ins.pc = "failed"
    /\ Res!Release(CosmosPool, signers(ins.tx))
    /\ ins' = [pc |-> "idle"]
    /\ UNCHANGED <<chainVars, loop, run, poolVars, shutdown, closed, evmHeld, faults, syncVars>>

-----------------------------------------------------------------------------
(* The EVM pool, the other user of addresses. *)
EVMPoolStep(a) ==
    /\ \/ a \notin evmHeld /\ Res!Hold(EVMPool, {a}) /\ evmHeld' = evmHeld \cup {a}
       \/ a \in evmHeld /\ Res!Release(EVMPool, {a}) /\ evmHeld' = evmHeld \ {a}
    /\ UNCHANGED <<chainVars, loop, run, ins, poolVars, shutdown, closed, faults, syncVars>>

(* The block builder asks for the transactions of the committed height.    *)
BuilderStep(b) ==
    /\ HS!Call(b, committed) \/ HS!Step(b) \/ HS!Expire(b)
    /\ UNCHANGED <<chainVars, loop, run, ins, poolVars, shutdown, closed, evmHeld, faults,
                   reservations>>

Listener == NotifyNewBlock \/ ReadCurrentBlock \/ Request \/ RequestAfterShutdown

Loop == Launch \/ RunObserved \/ Stop

Next ==
    \/ Commit \/ Listener \/ Loop \/ Shutdown \/ Recheck
    \/ \E t \in Tx : InsertHold(t)
    \/ InsertLocked \/ InsertRelease
    \/ \E a \in EVMAddress : EVMPoolStep(a)
    \/ \E b \in Builder : BuilderStep(b)

(* Goroutines that can run do run.  Nothing makes blocks, callers, the     *)
(* contexts of builders or a shutdown happen.                              *)
Fairness ==
    /\ WF_vars(Listener) /\ WF_vars(Loop) /\ WF_vars(Recheck)
    /\ WF_vars(InsertLocked \/ InsertRelease)
    /\ \A b \in Builder : WF_vars(HS!Step(b) /\ BuilderStep(b))

Spec == Init /\ [][Next]_vars /\ Fairness

-----------------------------------------------------------------------------
(* Properties *)

(* The height synchronised store is never started twice nor ended twice by *)
(* rechecks that are cancelled, fail or are superseded (both panic), and   *)
(* no block builder asks for a height that is already past (a panic too).  *)
NoPanic ==
    ~panicked /\ \A b \in Builder : reader[b].pc # "panic"

(* Every address is owned by the pool that uses it, as many times as the   *)
(* Cosmos pool has transactions of it, whatever inserts, replacements,     *)
(* failed inserts and rechecks interleave.                                 *)
ReservationsExact == Res!OwnedExactlyWhileUsed /\ Res!CountsUses

(* The reap list knows exactly the transactions of the pool, so that a     *)
(* transaction that left can be sent again and none is gossiped that left. *)
ReapListMatchesPool == listed = pool

(* What a block builder is given can be executed: the transactions of the  *)
(* current store are in the pool, and for every signer their sequences are *)
(* consecutive up to the context, each once.  They begin at the sequence   *)
(* of the chain state, except after a recheck that the application gave no *)
(* context: that one only opened an empty store, and what is inserted      *)
(* later continues the context of before.                                  *)
SnapshotExecutable ==
    run.pc # "update" /\ ctx.at # 0 =>
        LET txs == stores[HS!Current].txs
            of(a) == {t \in txs : a \in signers(t)}
        IN  /\ txs \subseteq pool
            /\ \A a \in Signer : \E from \in chain[ctx.at].seq[a]..ctx.seq[a] :
                  /\ {sequence[t][a] : t \in of(a)} = from..ctx.seq[a] - 1
                  /\ Cardinality(of(a)) = ctx.seq[a] - from
                  /\ ctx.fresh => from = chain[ctx.at].seq[a]

(* Every channel that TriggerRecheck gave out is closed in the end, by the *)
(* recheck it stands for, by one that took its place, or by the shutdown.  *)
TriggersAnswered ==
    \A i \in 1..MaxHeight + 1 : (loop.launch /\ loop.next = i) ~> i \in closed

(* A block builder gets its store without the help of a timeout, however   *)
(* rechecks are cancelled, as long as the pool is not shut down and the    *)
(* application always has a context to give.                               *)
BuilderServed ==
    \A b \in Builder :
        reader[b].pc \in {"look", "changed", "done"} ~>
            reader[b].pc = "idle" \/ shutdown \/ faults > 0

(* What a block builder gets is the store of the height it asked for,      *)
(* called complete only when a recheck ended that height, also when the    *)
(* recheck was cancelled, a later one took its place or the context of the *)
(* builder ended in between.                                               *)
BuilderGetsItsHeight == HS!ServesTarget

(* After Close the loop ends.                                              *)
ShutdownEnds == shutdown ~> loop.pc = "stopped"

(* "since nonces only increase, ErrWrongSequence seen here must mean that  *)
(* the tx's nonce became too low" (runRecheck).                            *)
WrongSequenceMeansTooLow ==
    run.pc = "iterate" /\ ~loop.cancelled =>
        \A t \in Candidates : ~Invalidated(t) =>
            \A a \in signers(t) : sequence[t][a] <= ctx.seq[a]

(* "Update updates the recheckers context to be the ctx at headers height" *)
(* (interface Rechecker): a recheck of a head runs on the state of it.     *)
RecheckedAtHead == run.pc = "iterate" => ctx.at = run.head
=============================================================================
