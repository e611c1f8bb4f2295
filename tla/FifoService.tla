---------------------------- MODULE FifoService -----------------------------
(***************************************************************************)
(* What the insert queue of the mempool promises to its callers: a call is *)
(* refused at once or waits its turn, the calls that wait are answered in  *)
(* the order in which they came, each of them once, and no more than       *)
(* Bound of them wait at any time.                                         *)
(***************************************************************************)
EXTENDS Naturals, Sequences

CONSTANTS
    Call,    \* the calls of Push
    Bound,   \* how many calls may wait
    None     \* "not answered"

VARIABLES
    waiting, \* the calls that wait, the oldest first
    answer   \* the answer of each call

vars == <<waiting, answer>>

Fresh(c) == answer[c] = None /\ \A i \in 1..Len(waiting) : waiting[i] # c

Init == waiting = <<>> /\ answer = [c \in Call |-> None]

Accept(c) ==
    /\ Fresh(c)
    /\ Len(waiting) < Bound
    /\ waiting' = Append(waiting, c)
    /\ UNCHANGED answer

AnswerAtOnce(c) ==
    /\ Fresh(c)
    /\ \E r \in {"full", "closed"} : answer' = [answer EXCEPT ![c] = r]
    /\ UNCHANGED waiting

Serve ==
    /\ waiting # <<>>
    /\ \E r \in {"ok", "error"} : answer' = [answer EXCEPT ![Head(waiting)] = r]
    /\ waiting' = Tail(waiting)

Next == Serve \/ \E c \in Call : Accept(c) \/ AnswerAtOnce(c)

Spec == Init /\ [][Next]_vars
=============================================================================
