----------------------------- MODULE TxPoolReset -----------------------------
(***************************************************************************)
(* How the EVM pool follows the chain: the event loop of TxPool            *)
(* (mempool/txpool/txpool.go), the goroutine it starts for every reset,    *)
(* and the scheduler of LegacyPool (mempool/txpool/legacypool) that runs   *)
(* resets and promotions one at a time.                                    *)
(*                                                                         *)
(* The channels are unbuffered: a send and its receive are one step.  A    *)
(* head is the number of the notification that announced it; 0 is the zero *)
(* header, one pointer that stands for "no context yet".  The done channel *)
(* of the n-th run is closed when n <= finished.                           *)
(***************************************************************************)
EXTENDS Naturals

CONSTANTS
    MaxHeads,       \* bound: notifications of new blocks
    MaxSyncs,       \* bound: calls of Sync
    MaxPromotes,    \* bound: insertions that ask for a promotion
    MaxFaults       \* bound: failures of the application's context callback

ASSUME Bounds == {MaxHeads, MaxSyncs, MaxPromotes, MaxFaults} \subseteq Nat

VARIABLES
    chain,      \* [events, sending, hashed, ctx, faults] of Blockchain
    loop,       \* [pc, oldHead, newHead, forced, waiter] of TxPool.loop
    resetter,   \* [pc, head, wait]: the goroutine of the reset under way
    sched,      \* [pc, cur, next, launch, reset, cancelled] of scheduleReorgLoop
    run,        \* [pc, reset, cut] of runReorg
    finished,   \* the done channels 1..finished are closed
    ended,      \* validPendingTxs.isHeightEnded()
    inserter,   \* [pc, wait, left]: a caller of addTxs with sync
    syncer,     \* [pc, from, left, ok]: the caller of Sync
    closer,     \* the caller of Close: "idle", "quit", "errc", "subpools", "done"
    panicked,   \* "no", "context" or "height"
    completed,  \* the heads whose reset ran to its end
    lastReset   \* the last run that was a reset and has finished

vars == <<chain, loop, resetter, sched, run, finished, ended, inserter, syncer, closer,
          panicked, completed, lastReset>>
None == MaxHeads + 1
Heads == 0..MaxHeads
NoRun == [pc |-> "none", reset |-> None, cut |-> FALSE]

term == loop.pc = "exited"
reorgShutdownCh == closer \in {"subpools", "done"}

-----------------------------------------------------------------------------
(* The pool of a new chain, or of a node that was restarted: then the hash *)
(* of the previous header is lost and the first header is the zero header. *)
Init ==
    /\ chain \in [events : {0}, sending : {None}, hashed : BOOLEAN, ctx : {FALSE}, faults : {0}]
    /\ loop = [pc |-> "top", oldHead |-> 0, newHead |-> 0, forced |-> FALSE, waiter |-> FALSE]
    /\ resetter = [pc |-> "none", head |-> 0, wait |-> 0]
    /\ sched = [pc |-> "select", cur |-> 0, next |-> 1, launch |-> FALSE, reset |-> None,
                cancelled |-> FALSE]
    /\ run = NoRun
    /\ finished = 0 /\ ended = TRUE
    /\ inserter = [pc |-> "idle", wait |-> 0, left |-> MaxPromotes]
    /\ syncer = [pc |-> "idle", from |-> 0, left |-> MaxSyncs, ok |-> FALSE]
    /\ closer = "idle" /\ panicked = "no"
    /\ completed = {} /\ lastReset = 0

-----------------------------------------------------------------------------
(* getCtxCallback: the calls that fail, out of the n that may.             *)
Failures(n) == 0..(IF MaxFaults - chain.faults < n THEN MaxFaults - chain.faults ELSE n)

(* NotifyNewBlock: the context is stored, the header is made from a second *)
(* context, and Send waits for the loop.  One block, one notification.     *)
NotifyNewBlock ==
    /\ chain.sending = None /\ chain.events < MaxHeads /\ closer = "idle"
    /\ \E stored, made \in BOOLEAN :
          LET f == (IF stored THEN 0 ELSE 1) + (IF made THEN 0 ELSE 1)
              n == chain.events + 1
          IN  /\ f \in Failures(2)
              /\ chain' = [events |-> n, sending |-> IF made /\ chain.hashed THEN n ELSE 0,
                           hashed |-> TRUE, ctx |-> stored, faults |-> chain.faults + f]
    /\ UNCHANGED <<loop, resetter, sched, run, finished, ended, inserter, syncer, closer,
                   panicked, completed, lastReset>>

-----------------------------------------------------------------------------
(* TxPool.loop: the top of the loop.  resetBusy holds a token exactly      *)
(* while a resetter exists.                                                *)
Top ==
    /\ loop.pc = "top"
    /\ \/ /\ loop.newHead = loop.oldHead /\ ~loop.forced
          /\ loop' = [loop EXCEPT !.pc = "select"]
          /\ UNCHANGED resetter
       \/ /\ loop.newHead # loop.oldHead \/ loop.forced
          /\ resetter.pc = "none"
          /\ resetter' = [pc |-> "request", head |-> loop.newHead, wait |-> 0]
          /\ loop' = [loop EXCEPT !.pc = "select", !.forced = FALSE]
       \/ /\ loop.newHead # loop.oldHead \/ loop.forced
          /\ resetter.pc # "none"
          /\ loop' = [loop EXCEPT !.pc = IF loop.newHead # loop.oldHead THEN "cancel"
                                                                         ELSE "select"]
          /\ UNCHANGED resetter
    /\ UNCHANGED <<chain, sched, run, finished, ended, inserter, syncer, closer, panicked,
                   completed, lastReset>>

(* case event := <-newHeadCh                                               *)
HeadEvent ==
    /\ loop.pc = "select" /\ chain.sending # None
    /\ loop' = [loop EXCEPT !.pc = "top", !.newHead = chain.sending]
    /\ chain' = [chain EXCEPT !.sending = None]
    /\ UNCHANGED <<resetter, sched, run, finished, ended, inserter, syncer, closer, panicked,
                   completed, lastReset>>

(* Faulty: the newest head is taken for the one the reset went to.         *)
ResetDoneNewest ==
    /\ loop.pc = "select" /\ resetter.pc = "report"
    /\ LET answer == loop.waiter /\ ~loop.forced
       IN  /\ loop' = [loop EXCEPT !.pc = "top", !.oldHead = loop.newHead,
                                   !.waiter = @ /\ ~answer]
           /\ syncer' = IF answer THEN [syncer EXCEPT !.pc = "idle", !.ok = TRUE] ELSE syncer
    /\ resetter' = [resetter EXCEPT !.pc = "none", !.wait = 0]
    /\ UNCHANGED <<chain, sched, run, finished, ended, inserter, closer, panicked, completed,
                   lastReset>>

(* Faulty: the waiter is answered by the reset that was already running.   *)
ResetDoneAnyWaiter ==
    /\ loop.pc = "select" /\ resetter.pc = "report"
    /\ loop' = [loop EXCEPT !.pc = "top", !.oldHead = resetter.head, !.waiter = FALSE]
    /\ syncer' = IF loop.waiter THEN [syncer EXCEPT !.pc = "idle", !.ok = TRUE] ELSE syncer
    /\ resetter' = [resetter EXCEPT !.pc = "none", !.wait = 0]
    /\ UNCHANGED <<chain, sched, run, finished, ended, inserter, closer, panicked, completed,
                   lastReset>>

(* case head := <-resetDone                                                *)
ResetDone ==
    /\ loop.pc = "select" /\ resetter.pc = "report"
    /\ LET answer == loop.waiter /\ ~loop.forced
       IN  /\ loop' = [loop EXCEPT !.pc = "top", !.oldHead = resetter.head,
                                   !.waiter = @ /\ ~answer]
           /\ syncer' = IF answer THEN [syncer EXCEPT !.pc = "idle", !.ok = TRUE] ELSE syncer
    /\ resetter' = [resetter EXCEPT !.pc = "none", !.wait = 0]
    /\ UNCHANGED <<chain, sched, run, finished, ended, inserter, closer, panicked, completed,
                   lastReset>>

(* case syncc := <-p.sync                                                  *)
SyncRequest ==
    /\ loop.pc = "select" /\ syncer.pc = "offer"
    /\ loop' = [loop EXCEPT !.pc = "top", !.forced = TRUE, !.waiter = TRUE]
    /\ syncer' = [syncer EXCEPT !.pc = "wait", !.from = sched.next - 1]
    /\ UNCHANGED <<chain, resetter, sched, run, finished, ended, inserter, closer, panicked,
                   completed, lastReset>>

(* case errc = <-p.quit, and the answer on errc.                           *)
Quit ==
    /\ \/ loop.pc = "select" /\ closer = "quit" /\ closer' = "errc"
                             /\ loop' = [loop EXCEPT !.pc = "errc"]
       \/ loop.pc = "errc" /\ closer = "errc" /\ closer' = "subpools"
                           /\ loop' = [loop EXCEPT !.pc = "exit"]
    /\ UNCHANGED <<chain, resetter, sched, run, finished, ended, inserter, syncer, panicked,
                   completed, lastReset>>

(* The deferred calls: the waiter is told, term is closed.                 *)
Exit ==
    /\ loop.pc = "exit"
    /\ loop' = [loop EXCEPT !.pc = "exited", !.waiter = FALSE]
    /\ syncer' = IF loop.waiter THEN [syncer EXCEPT !.pc = "idle", !.ok = FALSE] ELSE syncer
    /\ UNCHANGED <<chain, resetter, sched, run, finished, ended, inserter, closer, panicked,
                   completed, lastReset>>

-----------------------------------------------------------------------------
(* LegacyPool.Reset, called by the resetter: requestReset, then the wait   *)
(* for the channel it was given, then the report to the loop.              *)
SchedReady == sched.pc = "select" /\ ~(sched.launch /\ sched.cur = 0)

RequestReset ==
    /\ resetter.pc = "request"
    /\ \/ /\ SchedReady
          /\ sched' = [sched EXCEPT !.reset = resetter.head, !.launch = TRUE]
          /\ resetter' = [resetter EXCEPT !.pc = "wait", !.wait = sched.next]
       \/ /\ reorgShutdownCh
          /\ resetter' = [resetter EXCEPT !.pc = "report"]
          /\ UNCHANGED sched
    /\ UNCHANGED <<chain, loop, run, finished, ended, inserter, syncer, closer, panicked,
                   completed, lastReset>>

ResetterWakes ==
    /\ \/ /\ resetter.pc = "wait" /\ resetter.wait <= finished
          /\ resetter' = [resetter EXCEPT !.pc = "report"]
       \/ /\ resetter.pc = "report" /\ term
          /\ resetter' = [resetter EXCEPT !.pc = "none", !.wait = 0]
    /\ UNCHANGED <<chain, loop, sched, run, finished, ended, inserter, syncer, closer, panicked,
                   completed, lastReset>>

(* CancelReset, called by the loop: the scheduler closes the channel of    *)
(* the run under way, if there is one.                                     *)
CancelReset ==
    /\ loop.pc = "cancel" /\ SchedReady
    /\ loop' = [loop EXCEPT !.pc = "select"]
    /\ sched' = [sched EXCEPT !.cancelled = @ \/ sched.cur # 0]
    /\ UNCHANGED <<chain, resetter, run, finished, ended, inserter, syncer, closer, panicked,
                   completed, lastReset>>

(* addTxs: requestPromoteExecutables, and the wait for the run.            *)
Insert ==
    /\ \/ /\ inserter.pc = "idle" /\ inserter.left > 0
          /\ inserter' = [inserter EXCEPT !.pc = "request", !.left = @ - 1]
          /\ UNCHANGED sched
       \/ /\ inserter.pc = "request" /\ SchedReady
          /\ sched' = [sched EXCEPT !.launch = TRUE]
          /\ inserter' = [inserter EXCEPT !.pc = "wait", !.wait = sched.next]
       \/ /\ \/ inserter.pc = "request" /\ reorgShutdownCh
             \/ inserter.pc = "wait" /\ inserter.wait <= finished
          /\ inserter' = [inserter EXCEPT !.pc = "idle", !.wait = 0]
          /\ UNCHANGED sched
    /\ UNCHANGED <<chain, loop, resetter, run, finished, ended, syncer, closer, panicked,
                   completed, lastReset>>

(* scheduleReorgLoop: the next run is launched.                            *)
Launch ==
    /\ sched.pc = "select" /\ sched.launch /\ sched.cur = 0
    /\ run' = [pc |-> "reset", reset |-> sched.reset, cut |-> FALSE]
    /\ sched' = [sched EXCEPT !.cur = sched.next, !.next = @ + 1, !.launch = FALSE,
                              !.reset = None]
    /\ UNCHANGED <<chain, loop, resetter, finished, ended, inserter, syncer, closer, panicked,
                   completed, lastReset>>

(* Faulty: the next run is given the channel that was closed.              *)
RunObservedCancelled ==
    /\ SchedReady /\ sched.cur # 0 /\ sched.cur <= finished
    /\ sched' = [sched EXCEPT !.cur = 0]
    /\ UNCHANGED <<chain, loop, resetter, run, finished, ended, inserter, syncer, closer,
                   panicked, completed, lastReset>>

(* case <-curDone                                                          *)
RunObserved ==
    /\ SchedReady /\ sched.cur # 0 /\ sched.cur <= finished
    /\ sched' = [sched EXCEPT !.cur = 0, !.cancelled = FALSE]
    /\ UNCHANGED <<chain, loop, resetter, run, finished, ended, inserter, syncer, closer,
                   panicked, completed, lastReset>>

(* Faulty: the channel of the run that is not started stays open.          *)
ShutdownSilently ==
    /\ SchedReady /\ reorgShutdownCh
    /\ sched.cur <= finished
    /\ sched' = [sched EXCEPT !.pc = "stopped"]
    /\ UNCHANGED finished
    /\ UNCHANGED <<chain, loop, resetter, run, ended, inserter, syncer, closer, panicked,
                   completed, lastReset>>

(* case <-pool.reorgShutdownCh: the run under way is waited for and        *)
(* nextDone is closed.                                                     *)
Shutdown ==
    /\ SchedReady /\ reorgShutdownCh
    /\ sched.cur <= finished
    /\ sched' = [sched EXCEPT !.pc = "stopped"]
    /\ finished' = sched.next
    /\ UNCHANGED <<chain, loop, resetter, run, ended, inserter, syncer, closer, panicked,
                   completed, lastReset>>

-----------------------------------------------------------------------------
(* runReorg: resetInternalState.  When the state is not available it       *)
(* returns before the height is started; when only the context is not, it  *)
(* panics.                                                                 *)
RunReset ==
    /\ run.pc = "reset"
    /\ \/ /\ run.reset = None
          /\ UNCHANGED <<ended, panicked, chain>>
       \/ /\ run.reset # None
          /\ ended' = FALSE
          /\ panicked' = IF ended THEN "no" ELSE "height"
          /\ UNCHANGED chain
       \/ /\ run.reset \notin {None, 0} /\ ~chain.ctx /\ 1 \in Failures(1)
          /\ chain' = [chain EXCEPT !.faults = @ + 1]
          /\ UNCHANGED <<ended, panicked>>
       \/ /\ run.reset # None /\ ~chain.ctx /\ 1 \in Failures(1)
          /\ chain' = [chain EXCEPT !.faults = @ + 1]
          /\ panicked' = "context"
          /\ UNCHANGED ended
    /\ run' = [run EXCEPT !.pc = "work"]
    /\ UNCHANGED <<loop, resetter, sched, finished, inserter, syncer, closer, completed,
                   lastReset>>

(* promoteExecutables and demoteUnexecutables look at the channel before   *)
(* each account: a reset that is cancelled may be cut short, unless the    *)
(* last account was passed.                                                *)
RunWork ==
    /\ run.pc = "work"
    /\ \E cut \in IF run.reset # None /\ sched.cancelled THEN BOOLEAN ELSE {FALSE} :
          run' = [run EXCEPT !.pc = "end", !.cut = cut]
    /\ UNCHANGED <<chain, loop, resetter, sched, finished, ended, inserter, syncer, closer,
                   panicked, completed, lastReset>>

(* Faulty: a reset that is cut short returns before it ends its height.    *)
RunEndUnlessCut ==
    /\ run.pc = "end"
    /\ run' = NoRun
    /\ \/ /\ run.reset = None
          /\ UNCHANGED <<ended, panicked, completed, lastReset>>
       \/ /\ run.reset # None
          /\ ended' = ~run.cut
          /\ panicked' = IF ended THEN "height" ELSE "no"
          /\ completed' = IF run.cut THEN completed ELSE completed \cup {run.reset}
          /\ lastReset' = sched.cur
    /\ finished' = sched.cur
    /\ UNCHANGED <<chain, loop, resetter, sched, inserter, syncer, closer>>

(* EndCurrentHeight, and close(input.done).                                *)
RunEnd ==
    /\ run.pc = "end"
    /\ run' = NoRun
    /\ \/ /\ run.reset = None
          /\ UNCHANGED <<ended, panicked, completed, lastReset>>
       \/ /\ run.reset # None
          /\ ended' = TRUE
          /\ panicked' = IF ended THEN "height" ELSE "no"
          /\ completed' = IF run.cut THEN completed ELSE completed \cup {run.reset}
          /\ lastReset' = sched.cur
    /\ finished' = sched.cur
    /\ UNCHANGED <<chain, loop, resetter, sched, inserter, syncer, closer>>

-----------------------------------------------------------------------------
(* Sync and Close                                                          *)
Sync ==
    /\ \/ /\ syncer.pc = "idle" /\ syncer.left > 0
          /\ syncer' = [syncer EXCEPT !.pc = "offer", !.left = @ - 1, !.ok = FALSE]
       \/ /\ syncer.pc = "offer" /\ term
          /\ syncer' = [syncer EXCEPT !.pc = "idle"]
    /\ UNCHANGED <<chain, loop, resetter, sched, run, finished, ended, inserter, closer,
                   panicked, completed, lastReset>>

(* Mempool.Close ends the listener of the event bus before it calls Close. *)
Close ==
    /\ \/ closer = "idle" /\ chain.sending = None /\ closer' = "quit"
       \/ closer = "subpools" /\ sched.pc = "stopped" /\ closer' = "done"
    /\ UNCHANGED <<chain, loop, resetter, sched, run, finished, ended, inserter, syncer,
                   panicked, completed, lastReset>>

Loop == Top \/ HeadEvent \/ ResetDone \/ SyncRequest \/ Quit \/ Exit \/ CancelReset
Resetter == RequestReset \/ ResetterWakes
Scheduler == Launch \/ RunObserved \/ Shutdown
Run == RunReset \/ RunWork \/ RunEnd

Next ==
    /\ panicked = "no"
    /\ NotifyNewBlock \/ Loop \/ Resetter \/ Scheduler \/ Run \/ Insert \/ Sync \/ Close

(* A goroutine that can go on does; blocks, calls and Close need not come. *)
Spec ==
    /\ Init /\ [][Next]_vars
    /\ WF_vars(panicked = "no" /\ Loop) /\ WF_vars(panicked = "no" /\ Resetter)
    /\ WF_vars(panicked = "no" /\ Scheduler) /\ WF_vars(panicked = "no" /\ Run)
    /\ WF_vars(panicked = "no" /\ inserter.pc # "idle" /\ Insert)
    /\ WF_vars(panicked = "no" /\ syncer.pc # "idle" /\ Sync)
    /\ WF_vars(panicked = "no" /\ closer # "idle" /\ Close)

-----------------------------------------------------------------------------
(* Properties *)

(* The reset that CancelReset cuts short is done again: either the loop    *)
(* has a newer head or a forced reset waits for its turn.  When the        *)
(* application had no context, a later block can be announced with the     *)
(* same zero header as an earlier one, and this one must wait for the next *)
(* block.                                                                  *)
CutIsRedone ==
    run.pc = "end" /\ run.cut /\ chain.faults = 0 =>
        loop.newHead # run.reset \/ loop.forced

(* Sync returns without an error only after a reset that was started after *)
(* the loop had taken the call: the reset under way at that time does not  *)
(* count.                                                                  *)
SyncedByALaterReset ==
    syncer.pc = "idle" /\ syncer.ok => lastReset > syncer.from

(* Once the blocks stop coming, the pool is reset to the newest head, and  *)
(* that reset is not cut short, whatever was cancelled on the way, unless  *)
(* the pool is closed or the process ends in a panic.                      *)
NewestHeadReached ==
    \A h \in Heads \ {0} :
        loop.newHead = h ~>
            h \in completed \/ loop.newHead # h \/ closer # "idle" \/ panicked # "no"

(* Close comes back, and after it no goroutine of the pool and no caller   *)
(* is left waiting, unless the process ends in a panic.                    *)
CloseEndsEveryone ==
    closer = "quit" ~>
        \/ panicked # "no"
        \/ /\ closer = "done" /\ term /\ resetter.pc = "none" /\ run.pc = "none"
           /\ inserter.pc # "wait" /\ syncer.pc # "wait"

(* StartNewHeight and EndCurrentHeight alternate over all resets, whether  *)
(* they are cut short, forced or merged with promotions, so that neither   *)
(* panics as long as the application has a context and a state to give.    *)
PanicsOnlyOnFaults == panicked # "no" => chain.faults > 0

(* The work of a reset is thrown away only when a new block was seen.      *)
CancelledOnlyForANewBlock ==
    run.pc = "end" /\ run.cut => loop.newHead # run.reset

(* A reset whose state is not available leaves the pool usable: it does    *)
(* not end a height that it has not started.                               *)
UnavailableStateTolerated == panicked # "height"
=============================================================================
