---------------------------- MODULE InsertQueue -----------------------------
(***************************************************************************)
(* The queue through which transactions reach a pool                       *)
(* (mempool/internal/queue): callers push in any number of goroutines, one *)
(* goroutine runs loop, takes everything that waits and hands it to the    *)
(* pool as one batch.                                                      *)
(*                                                                         *)
(* A step is what happens under one acquisition of the lock or at one      *)
(* channel operation.  In particular the send on the signal channel is a   *)
(* step of its own, after the lock of Push has been released, and the loop *)
(* may see an empty queue before it waits on that channel.                 *)
(***************************************************************************)
EXTENDS Naturals, Sequences

CONSTANTS
    Call,      \* the calls of Push, each with a transaction of its own
    NilCall,   \* those of them whose transaction is nil
    MaxSize,   \* maxSize
    None       \* "nothing on the channel of this call yet"

ASSUME InsertQueueAssumption ==
    MaxSize \in Nat \ {0} /\ NilCall \subseteq Call /\ None \notin {"full", "closed", "ok", "error"}

VARIABLES
    queue,     \* the calls in the deque
    signal,    \* whether the one-place channel signal is full
    push,      \* of each call: "new", "signal" (about to send) or "done"
    loop,      \* where the goroutine of loop is
    batch,     \* toInsert and subscriptions: taken, not answered yet
    errs,      \* what insert returned for them
    answer,    \* what has been sent on the channel of each call
    done,      \* whether the channel done is closed
    accepted,  \* history: the calls put into the deque, in order
    inserted   \* the calls whose transactions the pool was given, in order

vars == <<queue, signal, push, loop, batch, errs, answer, done, accepted, inserted>>

Init ==
    /\ queue = <<>> /\ signal = FALSE
    /\ push = [c \in Call |-> "new"]
    /\ loop = "check" /\ batch = <<>> /\ errs = <<>>
    /\ answer = [c \in Call |-> None]
    /\ done = FALSE
    /\ accepted = <<>> /\ inserted = <<>>

-----------------------------------------------------------------------------
(* Push *)

(* A nil transaction: the channel is closed without a value.               *)
PushNil(c) ==
    /\ push[c] = "new" /\ c \in NilCall
    /\ push' = [push EXCEPT ![c] = "done"]
    /\ answer' = [answer EXCEPT ![c] = "closed"]
    /\ UNCHANGED <<queue, signal, loop, batch, errs, done, accepted, inserted>>

PushFull(c) ==
    /\ push[c] = "new" /\ c \notin NilCall
    /\ Len(queue) >= MaxSize
    /\ push' = [push EXCEPT ![c] = "done"]
    /\ answer' = [answer EXCEPT ![c] = "full"]
    /\ UNCHANGED <<queue, signal, loop, batch, errs, done, accepted, inserted>>

(* Faulty: the newest transaction is put in front.                         *)
PushFront(c) ==
    /\ push[c] = "new" /\ c \notin NilCall
    /\ Len(queue) < MaxSize
    /\ queue' = <<c>> \o queue
    /\ push' = [push EXCEPT ![c] = "signal"]
    /\ accepted' = Append(accepted, c)
    /\ UNCHANGED <<signal, loop, batch, errs, answer, done, inserted>>

PushBack(c) ==
    /\ push[c] = "new" /\ c \notin NilCall
    /\ Len(queue) < MaxSize
    /\ queue' = Append(queue, c)
    /\ push' = [push EXCEPT ![c] = "signal"]
    /\ accepted' = Append(accepted, c)
    /\ UNCHANGED <<signal, loop, batch, errs, answer, done, inserted>>

(* Faulty: the channel has no buffer, and the signal is lost when the loop *)
(* has read the length but has not reached its select yet.                 *)
SignalUnbuffered(c) ==
    /\ push[c] = "signal"
    /\ signal' \in {signal, loop = "wait"}
    /\ push' = [push EXCEPT ![c] = "done"]
    /\ UNCHANGED <<queue, loop, batch, errs, answer, done, accepted, inserted>>

(* The send that does not block: a full channel is left as it is.          *)
Signal(c) ==
    /\ push[c] = "signal"
    /\ signal' = TRUE
    /\ push' = [push EXCEPT ![c] = "done"]
    /\ UNCHANGED <<queue, loop, batch, errs, answer, done, accepted, inserted>>

-----------------------------------------------------------------------------
(* loop *)

(* The length is read under the lock and used after it is released.        *)
LoopCheck ==
    /\ loop = "check"
    /\ loop' = IF queue = <<>> THEN "wait" ELSE "take"
    /\ UNCHANGED <<queue, signal, push, batch, errs, answer, done, accepted, inserted>>

(* waitForNewTxs: either channel may be chosen when both are ready.        *)
WaitSignal ==
    /\ loop = "wait" /\ signal
    /\ signal' = FALSE
    /\ loop' = "check"
    /\ UNCHANGED <<queue, push, batch, errs, answer, done, accepted, inserted>>

WaitDone ==
    /\ loop = "wait" /\ done
    /\ loop' = "stopped"
    /\ UNCHANGED <<queue, signal, push, batch, errs, answer, done, accepted, inserted>>

(* Faulty: the batch is the first transaction and the deque is cleared.    *)
LoopTakeOne ==
    /\ loop = "take"
    /\ batch' = <<Head(queue)>> /\ queue' = <<>>
    /\ loop' = "insert"
    /\ UNCHANGED <<signal, push, errs, answer, done, accepted, inserted>>

LoopTake ==
    /\ loop = "take"
    /\ batch' = queue /\ queue' = <<>>
    /\ loop' = "insert"
    /\ UNCHANGED <<signal, push, errs, answer, done, accepted, inserted>>

(* insertTxs: the pool answers every transaction, with or without error.   *)
LoopInsert ==
    /\ loop = "insert"
    /\ \E e \in [1..Len(batch) -> {"ok", "error"}] : errs' = e
    /\ inserted' = inserted \o batch
    /\ loop' = "answer"
    /\ UNCHANGED <<queue, signal, push, batch, answer, done, accepted>>

(* One turn of the loop over errs.                                         *)
LoopAnswer ==
    /\ loop = "answer" /\ batch # <<>>
    /\ answer' = [answer EXCEPT ![Head(batch)] = Head(errs)]
    /\ batch' = Tail(batch) /\ errs' = Tail(errs)
    /\ UNCHANGED <<queue, signal, push, loop, done, accepted, inserted>>

LoopPoll ==
    /\ loop = "answer" /\ batch = <<>>
    /\ loop' = IF done THEN "stopped" ELSE "check"
    /\ UNCHANGED <<queue, signal, push, batch, errs, answer, done, accepted, inserted>>

Close ==
    /\ ~done
    /\ done' = TRUE
    /\ UNCHANGED <<queue, signal, push, loop, batch, errs, answer, accepted, inserted>>

-----------------------------------------------------------------------------
Loop == LoopCheck \/ WaitSignal \/ WaitDone \/ LoopTake \/ LoopInsert \/ LoopAnswer \/ LoopPoll

Push(c) == PushNil(c) \/ PushFull(c) \/ PushBack(c) \/ Signal(c)

Next == Loop \/ Close \/ \E c \in Call : Push(c)

(* The goroutines that are running are scheduled: the one of loop, and a   *)
(* caller inside Push.  Nobody has to call Push or Close.                  *)
Spec ==
    /\ Init /\ [][Next]_vars
    /\ WF_vars(Loop)
    /\ \A c \in Call : WF_vars(Signal(c))

-----------------------------------------------------------------------------
(* Properties *)

(* The state keeps its type; the deque never holds more than maxSize       *)
(* transactions, whatever the callers do.                                  *)
TypeOK ==
    /\ queue \in Seq(Call) /\ Len(queue) <= MaxSize
    /\ signal \in BOOLEAN /\ done \in BOOLEAN
    /\ push \in [Call -> {"new", "signal", "done"}]
    /\ loop \in {"check", "wait", "take", "insert", "answer", "stopped"}
    /\ batch \in Seq(Call) /\ errs \in Seq({"ok", "error"})
    /\ answer \in [Call -> {None, "full", "closed", "ok", "error"}]
    /\ accepted \in Seq(Call) /\ inserted \in Seq(Call)

(* What the lock hands over is neither lost, nor doubled, nor reordered:   *)
(* the transactions given to the pool, those of the batch under way and    *)
(* those in the deque are the accepted ones, in the order of Push.         *)
NothingLost ==
    accepted = inserted \o (IF loop = "insert" THEN batch ELSE <<>>) \o queue

(* The loop never sleeps beside a full deque: when it waits for a signal   *)
(* and transactions are there, the signal is there too, or is about to be  *)
(* sent by a Push that has released the lock.                              *)
NoLostWakeup ==
    loop = "wait" /\ queue # <<>> => signal \/ \E c \in Call : push[c] = "signal"

(* Every accepted call is answered, unless the queue is closed.            *)
Answered ==
    \A c \in Call : push[c] = "signal" ~> answer[c] # None \/ done

(* "Push enqueues a Tx's to eventually be inserted" (queue.go:98): every   *)
(* call that Push accepts has its transaction given to the pool.           *)
EventuallyInserted ==
    \A c \in Call :
        push[c] = "signal" ~> \E i \in 1..Len(inserted) : inserted[i] = c

(* The queue is a service that answers in order of arrival, and at most    *)
(* twice maxSize calls wait: a deque and a batch.                          *)
Fifo == INSTANCE FifoService WITH Bound <- 2 * MaxSize, waiting <- batch \o queue

ImplementsFifo == Fifo!Spec
=============================================================================
