-------------------------- MODULE InsertQueueProofs -------------------------
(***************************************************************************)
(* Proofs about InsertQueue, for any number of callers and any maxSize.    *)
(*                                                                         *)
(* The safety properties are not inductive without QueueInv: what the loop *)
(* holds at each of its places, and that the queue knows nothing of a call *)
(* that has not begun.                                                     *)
(***************************************************************************)
EXTENDS InsertQueue, SequenceTheorems, TLAPS

In(c, s) == \E i \in 1..Len(s) : s[i] = c

QueueInv ==
    /\ Len(batch) <= MaxSize
    /\ loop \notin {"insert", "answer"} => batch = <<>>
    /\ loop = "answer" => Len(errs) = Len(batch)
    /\ \A c \in Call : push[c] = "new" => answer[c] = None /\ ~In(c, batch) /\ ~In(c, queue)

Inv == TypeOK /\ QueueInv /\ NothingLost /\ NoLostWakeup

(* Putting a call at the end of a queue adds that call and no other.       *)
LEMMA InAppend ==
    ASSUME NEW S, NEW s \in Seq(S), NEW x \in S, NEW c
    PROVE  In(c, Append(s, x)) => In(c, s) \/ c = x
BY DEF In

(* Taking the first call away adds none.                                   *)
LEMMA InTail ==
    ASSUME NEW S, NEW s \in Seq(S), s # <<>>, NEW c
    PROVE  In(c, Tail(s)) => In(c, s)
<1>1. Len(Tail(s)) = Len(s) - 1 /\ \A i \in 1..Len(Tail(s)) : Tail(s)[i] = s[i + 1]
  BY HeadTailProperties
<1>2. Len(s) \in Nat
  OBVIOUS
<1> QED BY <1>1, <1>2 DEF In

(* A call of two queues one after the other is in one of them.             *)
LEMMA InConcat ==
    ASSUME NEW S, NEW s \in Seq(S), NEW t \in Seq(S), NEW c
    PROVE  In(c, s \o t) => In(c, s) \/ In(c, t)
<1> SUFFICES ASSUME NEW i \in 1..Len(s \o t), (s \o t)[i] = c
             PROVE  In(c, s) \/ In(c, t)
  BY DEF In
<1>1. /\ Len(s \o t) = Len(s) + Len(t)
      /\ (s \o t)[i] = IF i <= Len(s) THEN s[i] ELSE t[i - Len(s)]
      /\ Len(s) \in Nat /\ Len(t) \in Nat
  BY ConcatProperties
<1>2. CASE i <= Len(s)
  BY <1>1, <1>2 DEF In
<1>3. CASE i > Len(s)
  <2>1. i - Len(s) \in 1..Len(t)
    BY <1>1, <1>3
  <2> QED BY <1>1, <1>3, <2>1 DEF In
<1> QED BY <1>1, <1>2, <1>3

(* Putting a call at the end of the second of two queues puts it at the    *)
(* end of both.                                                            *)
LEMMA AppendConcat ==
    ASSUME NEW S, NEW s \in Seq(S), NEW t \in Seq(S), NEW x \in S
    PROVE  s \o Append(t, x) = Append(s \o t, x)
<1>1. <<x>> \in Seq(S) /\ s \o t \in Seq(S)
  OBVIOUS
<1>2. Append(s \o t, x) = (s \o t) \o <<x>>
  BY <1>1, AppendIsConcat
<1>3. Append(t, x) = t \o <<x>>
  BY AppendIsConcat
<1>4. (s \o t) \o <<x>> = s \o (t \o <<x>>)
  BY <1>1, ConcatAssociative
<1> QED BY <1>2, <1>3, <1>4

(* The queue starts empty, with its loop about to look.                    *)
LEMMA InvInit == Init => Inv
<1> SUFFICES ASSUME Init PROVE Inv
  OBVIOUS
<1>1. TypeOK
  <2>1. <<>> \in Seq(Call) /\ <<>> \in Seq({"ok", "error"})
    BY EmptySeq
  <2>2. Len(queue) <= MaxSize
    BY InsertQueueAssumption DEF Init
  <2> QED BY <2>1, <2>2 DEF Init, TypeOK
<1>2. QueueInv
  BY InsertQueueAssumption DEF Init, QueueInv, In
<1>3. NothingLost
  BY DEF Init, NothingLost
<1>4. NoLostWakeup
  BY DEF Init, NoLostWakeup
<1> QED BY <1>1, <1>2, <1>3, <1>4 DEF Inv

(* Every step keeps the types and the bound of the deque.                  *)
LEMMA TypeStep == ASSUME Inv, Next PROVE TypeOK'
<1> USE InsertQueueAssumption DEF Inv, TypeOK
<1>1. ASSUME NEW c \in Call, PushNil(c) PROVE TypeOK'
  BY <1>1 DEF PushNil
<1>2. ASSUME NEW c \in Call, PushFull(c) PROVE TypeOK'
  BY <1>2 DEF PushFull
<1>3. ASSUME NEW c \in Call, PushBack(c) PROVE TypeOK'
  BY <1>3 DEF PushBack
<1>4. ASSUME NEW c \in Call, Signal(c) PROVE TypeOK'
  BY <1>4 DEF Signal
<1>5. CASE LoopCheck \/ WaitSignal \/ WaitDone \/ LoopPoll \/ Close
  BY <1>5 DEF LoopCheck, WaitSignal, WaitDone, LoopPoll, Close
<1>6. CASE LoopTake
  BY <1>6 DEF LoopTake
<1>7. CASE LoopInsert
  <2>1. errs' \in Seq({"ok", "error"})
    <3>1. Len(batch) \in Nat
      OBVIOUS
    <3>2. PICK e \in [1..Len(batch) -> {"ok", "error"}] : errs' = e
      BY <1>7 DEF LoopInsert
    <3> HIDE DEF TypeOK, Inv
    <3> QED BY <3>1, <3>2, SeqDef
  <2> QED BY <1>7, <2>1 DEF LoopInsert
<1>8. CASE LoopAnswer
  <2>1. errs # <<>>
    BY <1>8 DEF LoopAnswer, QueueInv
  <2>2. Head(batch) \in Call /\ Head(errs) \in {"ok", "error"}
    BY <1>8, <2>1 DEF LoopAnswer
  <2> QED BY <1>8, <2>1, <2>2 DEF LoopAnswer
<1> QED BY <1>1, <1>2, <1>3, <1>4, <1>5, <1>6, <1>7, <1>8 DEF Next, Loop, Push

(* Every step keeps what the loop holds, and leaves calls that have not    *)
(* begun alone.                                                            *)
LEMMA QueueStep == ASSUME Inv, Next PROVE QueueInv'
<1> USE InsertQueueAssumption DEF Inv, TypeOK, QueueInv
<1>1. ASSUME NEW c \in Call, PushNil(c) PROVE QueueInv'
  BY <1>1 DEF PushNil
<1>2. ASSUME NEW c \in Call, PushFull(c) PROVE QueueInv'
  BY <1>2 DEF PushFull
<1>3. ASSUME NEW c \in Call, PushBack(c) PROVE QueueInv'
  BY <1>3, InAppend DEF PushBack
<1>4. ASSUME NEW c \in Call, Signal(c) PROVE QueueInv'
  BY <1>4 DEF Signal
<1>5. CASE LoopCheck \/ WaitSignal \/ WaitDone \/ LoopPoll \/ Close
  BY <1>5 DEF LoopCheck, WaitSignal, WaitDone, LoopPoll, Close
<1>6. CASE LoopTake
  BY <1>6 DEF LoopTake, In
<1>7. CASE LoopInsert
  <2>1. Len(batch) \in Nat
    OBVIOUS
  <2>2. PICK e \in [1..Len(batch) -> {"ok", "error"}] : errs' = e
    BY <1>7 DEF LoopInsert
  <2>3. Len(errs') = Len(batch)
    BY <2>1, <2>2
  <2> QED BY <1>7, <2>3 DEF LoopInsert
<1>8. CASE LoopAnswer
  <2>1. /\ loop' = loop /\ push' = push /\ queue' = queue /\ batch # <<>>
        /\ answer' = [answer EXCEPT ![Head(batch)] = Head(errs)]
        /\ batch' = Tail(batch) /\ errs' = Tail(errs) /\ loop = "answer"
    BY <1>8 DEF LoopAnswer
  <2>2. Len(batch') <= MaxSize /\ Len(errs') = Len(batch')
    BY <2>1
  <2>3. ASSUME NEW c \in Call, push[c] = "new"
        PROVE  answer'[c] = None /\ ~In(c, batch')
    <3>1. In(Head(batch), batch)
      BY <2>1 DEF In
    <3>2. ~In(c, batch) /\ c # Head(batch) /\ answer[c] = None
      BY <2>3, <3>1
    <3>3. ~In(c, Tail(batch))
      BY <2>1, <3>2, InTail
    <3> QED BY <2>1, <3>2, <3>3
  <2> QED BY <2>1, <2>2, <2>3
<1> QED BY <1>1, <1>2, <1>3, <1>4, <1>5, <1>6, <1>7, <1>8 DEF Next, Loop, Push

(* No step loses, doubles or reorders a call.                              *)
LEMMA NothingLostStep == ASSUME Inv, Next PROVE NothingLost'
<1> USE DEF Inv, TypeOK, QueueInv, NothingLost
<1>1. ASSUME NEW c \in Call, PushBack(c) PROVE NothingLost'
  <2>1. PICK front \in Seq(Call) :
            front = inserted \o (IF loop = "insert" THEN batch ELSE <<>>)
    <3>1. inserted \o batch \in Seq(Call) /\ inserted \o <<>> \in Seq(Call)
      BY ConcatProperties, EmptySeq
    <3>2. inserted \o (IF loop = "insert" THEN batch ELSE <<>>) \in Seq(Call)
      BY <3>1
    <3> QED BY <3>2
  <2>2. accepted = front \o queue /\ queue \in Seq(Call)
    BY <2>1
  <2>3. front \o Append(queue, c) = Append(front \o queue, c)
    BY <2>2, AppendConcat
  <2> QED BY <1>1, <2>1, <2>2, <2>3 DEF PushBack
<1>2. CASE LoopTake
  BY <1>2 DEF LoopTake
<1>3. CASE LoopInsert
  BY <1>3 DEF LoopInsert
<1>4. CASE LoopAnswer \/ LoopCheck \/ WaitSignal \/ WaitDone \/ LoopPoll \/ Close
  BY <1>4 DEF LoopAnswer, LoopCheck, WaitSignal, WaitDone, LoopPoll, Close
<1>5. ASSUME NEW c \in Call, PushNil(c) \/ PushFull(c) \/ Signal(c) PROVE NothingLost'
  BY <1>5 DEF PushNil, PushFull, Signal
<1> QED BY <1>1, <1>2, <1>3, <1>4, <1>5 DEF Next, Loop, Push

(* No step lets the loop sleep beside a deque without a signal on its way. *)
LEMMA WakeupStep == ASSUME Inv, Next PROVE NoLostWakeup'
<1> USE DEF Inv, TypeOK, NoLostWakeup
<1>1. ASSUME NEW c \in Call, PushBack(c) PROVE NoLostWakeup'
  BY <1>1 DEF PushBack
<1>2. ASSUME NEW c \in Call, PushNil(c) \/ PushFull(c) PROVE NoLostWakeup'
  BY <1>2 DEF PushNil, PushFull
<1>3. ASSUME NEW c \in Call, Signal(c) PROVE NoLostWakeup'
  BY <1>3 DEF Signal
<1>4. CASE Loop \/ Close
  BY <1>4 DEF Loop, LoopCheck, WaitSignal, WaitDone, LoopTake, LoopInsert, LoopAnswer,
     LoopPoll, Close
<1> QED BY <1>1, <1>2, <1>3, <1>4 DEF Next, Push

(* Every step preserves Inv.                                               *)
LEMMA InvStep == Inv /\ [Next]_vars => Inv'
<1> SUFFICES ASSUME Inv, [Next]_vars PROVE Inv'
  OBVIOUS
<1>1. CASE Next
  BY <1>1, TypeStep, QueueStep, NothingLostStep, WakeupStep DEF Inv
<1>2. CASE UNCHANGED vars
  BY <1>2 DEF vars, Inv, TypeOK, QueueInv, NothingLost, NoLostWakeup, In
<1> QED BY <1>1, <1>2

-----------------------------------------------------------------------------
(* The state keeps its type and the deque never holds more than maxSize    *)
(* transactions.                                                           *)
THEOREM TypeCorrect == Spec => []TypeOK
<1>1. Inv => TypeOK
  BY DEF Inv
<1> QED BY <1>1, InvInit, InvStep, PTL DEF Spec

(* The transactions given to the pool, those of the batch and those in the *)
(* deque are the accepted ones in the order of Push.                       *)
THEOREM NothingIsLost == Spec => []NothingLost
<1>1. Inv => NothingLost
  BY DEF Inv
<1> QED BY <1>1, InvInit, InvStep, PTL DEF Spec

(* The loop waits beside a deque only when a signal is there or on its way.*)
THEOREM NoWakeupLost == Spec => []NoLostWakeup
<1>1. Inv => NoLostWakeup
  BY DEF Inv
<1> QED BY <1>1, InvInit, InvStep, PTL DEF Spec

-----------------------------------------------------------------------------
(* A call that has not begun is fresh for the abstract service.            *)
LEMMA NewIsFresh ==
    ASSUME Inv, NEW c \in Call, push[c] = "new"
    PROVE  Fifo!Fresh(c)
<1>1. answer[c] = None /\ ~In(c, batch) /\ ~In(c, queue)
  BY DEF Inv, QueueInv
<1>2. ~In(c, batch \o queue)
  BY <1>1, InConcat DEF Inv, TypeOK
<1> QED BY <1>1, <1>2 DEF Fifo!Fresh, In

(* Every step of the queue is one of the abstract service, or none.        *)
LEMMA FifoStep ==
    ASSUME Inv, Next
    PROVE  Fifo!Next \/ UNCHANGED Fifo!vars
<1> USE DEF Inv, TypeOK, QueueInv
<1>1. ASSUME NEW c \in Call, PushNil(c) PROVE Fifo!AnswerAtOnce(c)
  BY <1>1, NewIsFresh DEF PushNil, Fifo!AnswerAtOnce
<1>2. ASSUME NEW c \in Call, PushFull(c) PROVE Fifo!AnswerAtOnce(c)
  BY <1>2, NewIsFresh DEF PushFull, Fifo!AnswerAtOnce
<1>3. ASSUME NEW c \in Call, PushBack(c) PROVE Fifo!Accept(c)
  <2>1. Fifo!Fresh(c)
    BY <1>3, NewIsFresh DEF PushBack
  <2>2. Len(batch \o queue) < 2 * MaxSize
    BY <1>3, InsertQueueAssumption DEF PushBack
  <2>3. batch \o Append(queue, c) = Append(batch \o queue, c)
    BY AppendConcat
  <2> QED BY <1>3, <2>1, <2>2, <2>3 DEF PushBack, Fifo!Accept
<1>4. ASSUME NEW c \in Call, Signal(c) PROVE UNCHANGED Fifo!vars
  BY <1>4 DEF Signal, Fifo!vars
<1>5. CASE LoopCheck \/ WaitSignal \/ WaitDone \/ LoopInsert \/ LoopPoll \/ Close
  BY <1>5 DEF LoopCheck, WaitSignal, WaitDone, LoopInsert, LoopPoll, Close, Fifo!vars
<1>6. CASE LoopTake
  <2>1. batch = <<>> /\ batch' = queue /\ queue' = <<>> /\ answer' = answer
    BY <1>6 DEF LoopTake
  <2>2. <<>> \o queue = queue /\ queue \o <<>> = queue
    BY ConcatEmptySeq
  <2> QED BY <2>1, <2>2 DEF Fifo!vars
<1>7. CASE LoopAnswer
  <2>1. /\ batch # <<>> /\ errs # <<>> /\ batch' = Tail(batch) /\ queue' = queue
        /\ answer' = [answer EXCEPT ![Head(batch)] = Head(errs)]
    BY <1>7 DEF LoopAnswer
  <2>2. Head(errs) \in {"ok", "error"}
    BY <2>1
  <2>3. /\ batch \o queue # <<>>
        /\ Head(batch \o queue) = Head(batch)
        /\ Tail(batch \o queue) = Tail(batch) \o queue
    BY <2>1
  <2> QED BY <2>1, <2>2, <2>3 DEF Fifo!Serve, Fifo!Next
<1> QED
  BY <1>1, <1>2, <1>3, <1>4, <1>5, <1>6, <1>7 DEF Next, Loop, Push, Fifo!Next

(* The queue implements a service that answers every accepted call once,   *)
(* in the order of arrival, with at most twice maxSize calls waiting.      *)
THEOREM FifoRefined == Spec => ImplementsFifo
<1>1. Init => Fifo!Init
  BY DEF Init, Fifo!Init
<1>2. Inv /\ [Next]_vars => [Fifo!Next]_Fifo!vars
  <2>1. ASSUME UNCHANGED vars PROVE UNCHANGED Fifo!vars
    BY <2>1 DEF vars, Fifo!vars
  <2> QED BY <2>1, FifoStep
<1> QED BY <1>1, <1>2, InvInit, InvStep, PTL DEF Spec, Fifo!Spec, ImplementsFifo
=============================================================================
