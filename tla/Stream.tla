------------------------------- MODULE Stream -------------------------------
(***************************************************************************)
(* The data stream behind the JSON-RPC subscriptions and filters           *)
(* (rpc/stream/stream.go, cond.go): items are kept in segments of a fixed  *)
(* size, the oldest segment is pruned when there are too many, and readers *)
(* keep an offset, the id of the last item they have seen.                 *)
(*                                                                         *)
(* An item is represented by its id, the count of items added up to it, so *)
(* that what a reader gets can be compared with what it should get.  A     *)
(* step is what happens under one acquisition of the mutex or of the lock  *)
(* of the condition, or one wait on its channel; the channel is            *)
(* represented by the number of broadcasts before it was made.             *)
(***************************************************************************)
EXTENDS Integers, Sequences, SequencesExt

CONSTANTS
    Subscriber,    \* goroutines inside Subscribe
    Filter,        \* pollers: filters with an offset of their own
    segmentSize,
    maxSegments,
    MaxItems,      \* bound: items added
    MaxBatch       \* bound: items of one Add

ASSUME StreamAssumption ==
    /\ segmentSize \in Nat \ {0} /\ maxSegments \in Nat \ {0}
    /\ MaxItems \in Nat /\ MaxBatch \in Nat /\ Subscriber \cap Filter = {}

VARIABLES
    segments, segmentOffset,
    added,         \* how many items were ever added
    broadcasts,    \* how often Broadcast was called
    reader         \* the state of each subscriber and filter

vars == <<segments, segmentOffset, added, broadcasts, reader>>

Init ==
    /\ segments = <<>> /\ segmentOffset = 0 /\ added = 0 /\ broadcasts = 0
    /\ reader = [r \in Subscriber \cup Filter |->
          [pc |-> "read", offset |-> -1, chan |-> 0, items |-> <<>>, cancelled |-> FALSE]]

-----------------------------------------------------------------------------
(* Add *)

(* Faulty: a segment is reused and the count of pruned segments stays.     *)
AppendItemUncounted(s, v) ==
    IF s.segs = <<>> \/ Len(Last(s.segs)) = segmentSize
    THEN IF Len(s.segs) > maxSegments
         THEN [segs |-> Append(Tail(s.segs), <<v>>), off |-> s.off]
         ELSE [s EXCEPT !.segs = Append(@, <<v>>)]
    ELSE [s EXCEPT !.segs[Len(s.segs)] = Append(@, v)]

(* One turn of the loop of Add.                                            *)
AppendItem(s, v) ==
    IF s.segs = <<>> \/ Len(Last(s.segs)) = segmentSize
    THEN IF Len(s.segs) > maxSegments
         THEN [segs |-> Append(Tail(s.segs), <<v>>), off |-> s.off + 1]
         ELSE [s EXCEPT !.segs = Append(@, <<v>>)]
    ELSE [s EXCEPT !.segs[Len(s.segs)] = Append(@, v)]

Add(n) ==
    /\ n > 0 /\ added + n <= MaxItems
    /\ LET s == FoldLeft(AppendItem, [segs |-> segments, off |-> segmentOffset],
                         [i \in 1..n |-> added + i])
       IN  segments' = s.segs /\ segmentOffset' = s.off
    /\ added' = added + n
    /\ broadcasts' = broadcasts + 1
    /\ UNCHANGED reader

lastID ==
    IF segments = <<>> THEN 0
    ELSE (segmentOffset + Len(segments) - 1) * segmentSize + Len(Last(segments))

-----------------------------------------------------------------------------
(* doRead: the items and the offset that it returns.                       *)

Nothing == [items |-> <<>>, offset |-> lastID]

(* The segment of an offset; the earliest one when it was pruned.          *)
SegmentOf(offset) ==
    LET segment == offset \div segmentSize
    IN  IF segment >= segmentOffset THEN segment - segmentOffset ELSE 0

(* Faulty: the offset that is returned is that of the first item.          *)
doReadFirst(offset) ==
    IF segments = <<>> \/ offset < 0 \/ SegmentOf(offset) >= Len(segments) THEN Nothing
    ELSE LET seg == segments[SegmentOf(offset) + 1]
             items == SubSeq(seg, (offset % segmentSize) + 1, Len(seg))
         IN  IF items = <<>> THEN Nothing
             ELSE [items |-> items, offset |-> offset + 1]

doRead(offset) ==
    IF segments = <<>> \/ offset < 0 \/ SegmentOf(offset) >= Len(segments) THEN Nothing
    ELSE LET seg == segments[SegmentOf(offset) + 1]
             items == SubSeq(seg, (offset % segmentSize) + 1, Len(seg))
         IN  IF items = <<>> THEN Nothing
             ELSE [items |-> items,
                   offset |-> (segmentOffset + SegmentOf(offset)) * segmentSize + Len(seg)]

(* ReadAllNonBlocking: doRead until there is nothing more, which is within *)
(* as many turns as there are segments.                                    *)
ReadAll(offset) ==
    LET upTo[n \in 0..Len(segments) + 1] ==
          IF n = 0 THEN [items |-> <<>>, offset |-> offset]
          ELSE LET before == upTo[n - 1]
                   read == doRead(before.offset)
               IN  [items |-> before.items \o read.items, offset |-> read.offset]
    IN  upTo[Len(segments) + 1]

-----------------------------------------------------------------------------
(* Subscribe and ReadBlocking *)

(* What is done under the read lock: items go to the callback, and when    *)
(* there are none the lock is released.                                    *)
Read(r) ==
    /\ reader[r].pc = "read" /\ r \in Subscriber
    /\ LET read == doRead(reader[r].offset)
       IN  reader' = [reader EXCEPT ![r].offset = read.offset, ![r].items = read.items,
                                    ![r].pc = IF read.items = <<>> THEN "unlocked" ELSE "callback"]
    /\ UNCHANGED <<segments, segmentOffset, added, broadcasts>>

(* Wait takes the channel.                                                 *)
TakeChannel(r) ==
    /\ reader[r].pc = "unlocked"
    /\ reader' = [reader EXCEPT ![r].pc = "wait", ![r].chan = broadcasts]
    /\ UNCHANGED <<segments, segmentOffset, added, broadcasts>>

Woken(r) ==
    /\ reader[r].pc = "wait" /\ reader[r].chan < broadcasts
    /\ reader' = [reader EXCEPT ![r].pc = "read"]
    /\ UNCHANGED <<segments, segmentOffset, added, broadcasts>>

(* Faulty: after a chunk the subscriber waits, with more items at hand.     *)
CallbackThenWait(r) ==
    /\ reader[r].pc = "callback"
    /\ \/ reader' = [reader EXCEPT ![r].pc = "unlocked", ![r].items = <<>>]
       \/ reader' = [reader EXCEPT ![r].pc = "stopped", ![r].items = <<>>]
    /\ UNCHANGED <<segments, segmentOffset, added, broadcasts>>

(* The callback returns: an error ends Subscribe.                          *)
Callback(r) ==
    /\ reader[r].pc = "callback"
    /\ \/ reader' = [reader EXCEPT ![r].pc = "read", ![r].items = <<>>]
       \/ reader' = [reader EXCEPT ![r].pc = "stopped", ![r].items = <<>>]
    /\ UNCHANGED <<segments, segmentOffset, added, broadcasts>>

Cancel(r) ==
    /\ r \in Subscriber /\ ~reader[r].cancelled
    /\ reader' = [reader EXCEPT ![r].cancelled = TRUE]
    /\ UNCHANGED <<segments, segmentOffset, added, broadcasts>>

GiveUp(r) ==
    /\ reader[r].pc = "wait" /\ reader[r].cancelled
    /\ reader' = [reader EXCEPT ![r].pc = "stopped", ![r].offset = 0]
    /\ UNCHANGED <<segments, segmentOffset, added, broadcasts>>

(* A filter is polled: GetFilterChanges, with ReadAllNonBlocking, or with  *)
(* ReadNonBlocking for a chunk of logs.  NewFilter reads at -1.            *)
Poll(r) ==
    /\ reader[r].pc = "read" /\ r \in Filter
    /\ \E read \in {doRead(reader[r].offset), ReadAll(reader[r].offset)} :
          reader' = [reader EXCEPT ![r].pc = "polled", ![r].offset = read.offset,
                                   ![r].items = read.items]
    /\ UNCHANGED <<segments, segmentOffset, added, broadcasts>>

Answered(r) ==
    /\ reader[r].pc = "polled"
    /\ reader' = [reader EXCEPT ![r].pc = "read", ![r].items = <<>>]
    /\ UNCHANGED <<segments, segmentOffset, added, broadcasts>>

Step(r) == Read(r) \/ TakeChannel(r) \/ Woken(r) \/ Callback(r) \/ GiveUp(r)

Next ==
    \/ \E n \in 1..MaxBatch : Add(n)
    \/ \E r \in Subscriber : Step(r) \/ Cancel(r)
    \/ \E r \in Filter : Poll(r) \/ Answered(r)

(* Subscribers whose wait is over run; nothing makes items come.           *)
Spec == Init /\ [][Next]_vars /\ \A r \in Subscriber : WF_vars(Step(r))

-----------------------------------------------------------------------------
(* Properties *)

(* The segments hold the last items, each under the id that readers        *)
(* compute for it, whatever was pruned: all segments but the last are full *)
(* and no more than one segment is kept beyond the capacity.               *)
KeepsTheLastItems ==
    /\ lastID = added
    /\ FlattenSeq(segments) =
          [i \in 1..added - segmentOffset * segmentSize |-> segmentOffset * segmentSize + i]
    /\ Len(segments) <= maxSegments + 1
    /\ \A i \in 1..Len(segments) - 1 : Len(segments[i]) = segmentSize

(* What a reader gets are consecutive items that end at the offset it is   *)
(* given, all of them new to it, and they start right after the last item  *)
(* it has seen unless that item's segment is pruned: nothing is delivered  *)
(* twice or out of order, even when segments are reused between reads.     *)
DeliveredOnceInOrder ==
    [][\A r \in Subscriber \cup Filter :
          reader[r].pc = "read" /\ reader'[r].items # <<>> =>
              LET items == reader'[r].items
                  seen == reader[r].offset
              IN  /\ \A i \in 1..Len(items) : items[i] = reader'[r].offset - Len(items) + i
                  /\ items[1] > seen
                  /\ seen >= segmentOffset * segmentSize => items[1] = seen + 1]_vars

(* A subscriber that waits when items are added is handed every item that  *)
(* it has not seen, also those that came between its read and its wait,    *)
(* chunk by chunk, unless its callback fails, its context ends or the      *)
(* segment of its offset is pruned before it has read on.                  *)
MissedItemsDelivered ==
    \A r \in Subscriber, n \in 1..MaxItems :
        LET ready == reader[r].pc = "wait" /\ reader[r].chan < broadcasts
            missed == reader[r].offset < n /\ n <= added
            pruned == reader[r].offset < segmentOffset * segmentSize
        IN  ready /\ missed ~>
                \/ n \in Range(reader[r].items) \/ pruned
                \/ reader[r].cancelled \/ reader[r].pc = "stopped"

(* "notify the subscribers" (Add): a subscriber gets what was added after  *)
(* it subscribed, unless its callback fails or its context ends.           *)
SubscribersNotified ==
    \A r \in Subscriber, n \in 1..MaxItems :
        reader[r].offset >= 0 /\ added >= n
            ~> reader[r].offset >= n \/ reader[r].cancelled \/ reader[r].pc = "stopped"

(* "ReadNonBlocking returns items with id greater than the last received   *)
(* id reported by user": of the items that are kept, none is left out.     *)
ReadsAllThatIsKept ==
    [][\A r \in Filter :
          reader[r].pc = "read" /\ reader'[r].items # <<>> =>
              \A id \in reader[r].offset + 1..reader'[r].offset :
                  id > segmentOffset * segmentSize => id \in Range(reader'[r].items)]_vars
=============================================================================
