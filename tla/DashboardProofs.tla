--------------------------- MODULE DashboardProofs --------------------------
(***************************************************************************)
(* The dashboard: what its run promises, and what the bus promises through *)
(* which its parts signal each other.  The two specifications share no     *)
(* variable; each theorem is about one of them.                            *)
(*                                                                         *)
(* For every capacity of the ring, every number of layers, ops, refused    *)
(* pushes and keys, the drop counter of a live run is the number of ops    *)
(* lost at every step, the op that the producer has in hand left out:      *)
(* this is its own invariant once it is known that a live run never        *)
(* retries (LiveNeverRetries).  Nothing is used once main has returned,    *)
(* because main has seen both threads exit, one join after the other       *)
(* (JoinsSeen), and no action of an exited thread is enabled.              *)
(*                                                                         *)
(* On the bus an event is owed to the handlers of the copy that publish or *)
(* dispatch_pending takes, and each pair of the two is then in the hands   *)
(* of one call, once (InOneHand), or delivered, once (Delivered).  That no *)
(* event is owed again by a later call needs that it has left the queue    *)
(* (OwedBefore) and that no number is given twice (Numbered).              *)
(***************************************************************************)
EXTENDS DashboardRun, EventBus, SequenceLemmas

Counts ==
    /\ op \in Nat /\ dropped \in Nat
    /\ accepted \in Seq(Nat)

LiveNeverRetries == mode = "live" => ppc # "retry"

JoinsSeen ==
    /\ mainpc \in {"joinConsumer", "closed"} => ppc = "exited"
    /\ mainpc = "closed" => cpc = "exited"

DashboardInv ==
    /\ Counts
    /\ LiveNeverRetries
    /\ DroppedMeansLost
    /\ JoinsSeen

(* The invariant holds at the start ...                                    *)
THEOREM DashboardInit == Init => DashboardInv
<1> SUFFICES ASSUME Init PROVE DashboardInv
  OBVIOUS
<1>1. /\ op = 0 /\ dropped = 0 /\ accepted = <<>>
      /\ ppc = "run" /\ mainpc = "start"
  BY DEF Init, ChannelInit
<1>2. accepted \in Seq(Nat) /\ Len(accepted) = 0
  BY <1>1, EmptySeq
<1>3. Counts
  BY <1>1, <1>2 DEF Counts
<1>4. LiveNeverRetries /\ JoinsSeen
  BY <1>1 DEF LiveNeverRetries, JoinsSeen
<1>5. DroppedMeansLost
  <2>1. ppc \notin {"publish", "push", "drop"}
    BY <1>1
  <2>2. op = 0 /\ dropped = 0
    BY <1>1
  <2>3. dropped = op - Len(accepted) - 0
    BY <1>2, <2>2
  <2> QED
    BY <2>1, <2>3 DEF DroppedMeansLost
<1> QED
  BY <1>3, <1>4, <1>5 DEF DashboardInv

(* The producer keeps the tally.                                           *)
LEMMA ProducerStep ==
    ASSUME DashboardInv, Producer
    PROVE  DashboardInv'
<1> USE DEF DashboardInv, Counts, LiveNeverRetries, DroppedMeansLost, JoinsSeen,
            channel, consumerVars, mainVars
<1>1. CASE CaptureOp BY <1>1 DEF CaptureOp
<1>2. CASE ReadEvent BY <1>2 DEF ReadEvent
<1>3. CASE Publish BY <1>3 DEF Publish, LearnRoom
<1>4. CASE PushAccepted
  <2>1. /\ ppc = "push" /\ ppc' = "run"
        /\ accepted' = Append(accepted, op) /\ op' = op
        /\ dropped' = dropped /\ mode' = mode
        /\ mainpc' = mainpc /\ cpc' = cpc
    BY <1>4 DEF PushAccepted, Accept
  <2>2. accepted' \in Seq(Nat) /\ Len(accepted') = Len(accepted) + 1 /\ Len(accepted) \in Nat
    BY <2>1, AppendProperties, LenProperties
  <2> QED
    BY <2>1, <2>2
<1>5. CASE PushSeesFull BY <1>5 DEF PushSeesFull, LearnRoom
<1>6. CASE PushDrops
  <2>1. Len(accepted) \in Nat
    BY LenProperties
  <2> QED
    BY <1>6, <2>1 DEF PushDrops, Refuse
<1>7. CASE ReplayRetries BY <1>7 DEF ReplayRetries
<1>8. CASE ProducerExits BY <1>8 DEF ProducerExits
<1> QED
  BY <1>1, <1>2, <1>3, <1>4, <1>5, <1>6, <1>7, <1>8 DEF Producer

(* The consumer changes neither the tally nor what main has seen.          *)
LEMMA ConsumerStep ==
    ASSUME DashboardInv, Consumer
    PROVE  DashboardInv'
<1>1. /\ UNCHANGED <<mode, op, ppc, accepted, mainpc, dropped>>
      /\ cpc # "exited"
  <2> USE DEF channel, producerVars, mainVars
  <2>1. CASE TestAlive BY <2>1 DEF TestAlive
  <2>2. CASE TakeSelection BY <2>2 DEF TakeSelection
  <2>3. CASE ApplySelection BY <2>3 DEF ApplySelection
  <2>4. CASE ApplyToSink BY <2>4 DEF ApplyToSink
  <2>5. CASE PopEvent BY <2>5 DEF PopEvent, Take
  <2>6. CASE DrainEnds BY <2>6 DEF DrainEnds, SeesEmpty
  <2>7. CASE TakeAttention BY <2>7 DEF TakeAttention, LearnItems
  <2>8. CASE RefreshUi BY <2>8 DEF RefreshUi
  <2>9. CASE TestScreen BY <2>9 DEF TestScreen
  <2>10. CASE PostRedraw BY <2>10 DEF PostRedraw
  <2> QED
    BY <2>1, <2>2, <2>3, <2>4, <2>5, <2>6, <2>7, <2>8, <2>9, <2>10 DEF Consumer
<1> QED
  BY <1>1 DEF DashboardInv, Counts, LiveNeverRetries, DroppedMeansLost, JoinsSeen

(* Main closes only after it has seen both threads exit.                   *)
LEMMA MainStep ==
    ASSUME DashboardInv, Main
    PROVE  DashboardInv'
<1>1. UNCHANGED <<mode, op, ppc, accepted, cpc, dropped>> /\ JoinsSeen'
  <2> USE DEF DashboardInv, JoinsSeen, channel, producerVars, consumerVars
  <2>1. CASE StartScreen BY <2>1 DEF StartScreen
  <2>2. CASE DrawFrame BY <2>2 DEF DrawFrame
  <2>3. CASE PressKey BY <2>3 DEF PressKey
  <2>4. CASE Quit BY <2>4 DEF Quit
  <2>5. CASE ClearAlive BY <2>5 DEF ClearAlive
  <2>6. CASE JoinProducer BY <2>6 DEF JoinProducer
  <2>7. CASE JoinConsumer BY <2>7 DEF JoinConsumer
  <2>8. ASSUME NEW layer \in Layer, PressSpace(layer)
        PROVE  UNCHANGED <<mode, op, ppc, accepted, cpc, dropped>> /\ JoinsSeen'
    BY <2>8 DEF PressSpace
  <2> QED
    BY <2>1, <2>2, <2>3, <2>4, <2>5, <2>6, <2>7, <2>8 DEF Main, Shutdown
<1> QED
  BY <1>1 DEF DashboardInv, Counts, LiveNeverRetries, DroppedMeansLost

(* ... every step of the three threads keeps it ...                        *)
THEOREM DashboardNext == DashboardInv /\ [Next]_vars => DashboardInv'
<1> SUFFICES ASSUME DashboardInv, [Next]_vars PROVE DashboardInv'
  OBVIOUS
<1>1. CASE Next
  BY <1>1, ProducerStep, ConsumerStep, MainStep DEF Next
<1>2. CASE UNCHANGED vars
  BY <1>2 DEF vars, channel, producerVars, consumerVars, mainVars,
              DashboardInv, Counts, LiveNeverRetries, DroppedMeansLost, JoinsSeen
<1> QED
  BY <1>1, <1>2

(* ... and so it holds throughout the run.                                 *)
THEOREM DashboardInvariant == Spec => []DashboardInv
BY DashboardInit, DashboardNext, PTL DEF Spec

(* In a live run the drop counter is the number of ops lost, at every      *)
(* step (capturer.cpp 183, ring_buffer.hpp 33-36).                         *)
THEOREM DashboardDropped == Spec => []DroppedMeansLost
<1>1. DashboardInv => DroppedMeansLost
  BY DEF DashboardInv
<1> QED
  BY <1>1, DashboardInvariant, PTL
-----------------------------------------------------------------------------
(* After the close no thread can take a step.                              *)
LEMMA ClosedIsQuiet ==
    ASSUME DashboardInv, mainpc = "closed"
    PROVE  ~ Next
<1>1. ppc = "exited" /\ cpc = "exited"
  BY DEF DashboardInv, JoinsSeen
<1>2. ~ Producer
  BY <1>1 DEF Producer, CaptureOp, ReadEvent, Publish, PushAccepted, PushSeesFull,
              PushDrops, ReplayRetries, ProducerExits
<1>3. ~ Consumer
  BY <1>1 DEF Consumer, TestAlive, TakeSelection, ApplySelection, ApplyToSink, PopEvent,
              DrainEnds, TakeAttention, RefreshUi, TestScreen, PostRedraw
<1>4. ~ Main
  BY DEF Main, Shutdown, StartScreen, DrawFrame, PressKey, Quit, ClearAlive,
         JoinProducer, JoinConsumer, PressSpace
<1> QED
  BY <1>2, <1>3, <1>4 DEF Next

(* What main's return destroys is used by no thread any more (main.cpp     *)
(* 608-617).                                                               *)
THEOREM DashboardClosed == Spec => NothingAfterClose
<1>1. DashboardInv /\ [Next]_vars
        => [mainpc = "closed" => UNCHANGED <<channel, sink, ui, recorded, target, nudged>>]_vars
  BY ClosedIsQuiet DEF vars, channel, producerVars, consumerVars, mainVars
<1> QED
  BY <1>1, DashboardInvariant, PTL DEF Spec, NothingAfterClose

-----------------------------------------------------------------------------
(* The event bus, for any number of threads, handlers, events and calls    *)
(* inside calls.                                                           *)

Handed == [seq : Nat \ {0}, prio : Nat]
Delivery == Handed \X Handed
Call == [todo : Seq(Delivery), done : Seq(Delivery), known : SUBSET Nat]

BusTypes ==
    /\ subs \in Seq(Handed) /\ pending \in Seq(Handed)
    /\ nextToken \in Nat \ {0} /\ events \in Nat
    /\ calls \in [Threads -> Seq(Call)]
    /\ owed \subseteq Nat \X Nat

ToldApart(S) == \A x, y \in S : x.seq = y.seq => x = y

(* No number is given twice, and none that is to come is in use.           *)
Numbered ==
    /\ ToldApart(Range(subs)) /\ \A x \in Range(subs) : x.seq < nextToken
    /\ ToldApart(Range(pending)) /\ \A x \in Range(pending) : x.seq <= events

(* Who was owed an event was when its delivery began: it has left the      *)
(* queue.                                                                  *)
OwedBefore ==
    \A d \in owed : d[1] <= events /\ \A x \in Range(pending) : x.seq # d[1]

Pair(d) == <<d[1].seq, d[2].seq>>

Holds(call, d) == \E q \in 1 .. Len(call.todo) : Pair(call.todo[q]) = d

Held(d) == \E t \in Threads : \E k \in 1 .. Len(calls[t]) : Holds(calls[t][k], d)

(* A delivery to come is one that is owed, in one call under way, once.    *)
InOneHand ==
    /\ \A d : Held(d) => d \in owed
    /\ \A t, u \in Threads : \A k \in 1 .. Len(calls[t]), l \in 1 .. Len(calls[u]) :
         \A d : Holds(calls[t][k], d) /\ Holds(calls[u][l], d) => t = u /\ k = l

Copies(d) == IF BagIn(d, got) THEN got[d] ELSE 0

(* What is owed is in hand or has been delivered, once.                    *)
Delivered == \A d : Copies(d) = IF d \in owed /\ ~ Held(d) THEN 1 ELSE 0

(* What a call has delivered and has to deliver is in order, and was known *)
(* when it began.                                                          *)
CallInOrder(call) ==
    LET all == call.done \o call.todo
    IN  /\ \A i, j \in 1 .. Len(all) : i < j => Precedes(all[i], all[j])
        /\ \A i \in 1 .. Len(all) : all[i][1].seq \in call.known

(* ... and what it has to deliver is told apart by the numbers.            *)
CallsInOrder ==
    \A t \in Threads : \A k \in 1 .. Len(calls[t]) :
        /\ CallInOrder(calls[t][k])
        /\ \A q, r \in 1 .. Len(calls[t][k].todo) :
             Pair(calls[t][k].todo[q]) = Pair(calls[t][k].todo[r]) => q = r

BusInv ==
    /\ BusTypes
    /\ Numbered
    /\ OwedBefore
    /\ InOneHand
    /\ Delivered
    /\ CallsInOrder

(* What both sorts return: the same elements, in order, each once.         *)
LEMMA OrderedIs ==
    ASSUME NEW s \in Seq(Handed), ToldApart(Range(s))
    PROVE  /\ Ordered(s) \in Seq(Handed) /\ Range(Ordered(s)) = Range(s)
           /\ \A i, j \in 1 .. Len(Ordered(s)) : i < j => Before(Ordered(s)[i], Ordered(s)[j])
<1> DEFINE S == Range(s)
           R == {p \in S \X S : Before(p[1], p[2])}
           InOrder(t) == \A i, j \in DOMAIN t : i < j => Before(t[i], t[j])
<1>1. S \in SUBSET Handed /\ IsFiniteSet(S)
  <2>1. S = {s[i] : i \in 1 .. Len(s)} /\ Len(s) \in Nat /\ S \in SUBSET Handed
    BY RangeEquality, RangeOfSeq, LenProperties
  <2>2. IsFiniteSet(1 .. Len(s))
    BY <2>1, FS_Interval
  <2> HIDE DEF S
  <2>3. IsFiniteSet({s[i] : i \in 1 .. Len(s)})
    <3> DEFINE D == 1 .. Len(s)
               T == {s[i] : i \in 1 .. Len(s)}
    <3>1. s \in [D -> T]
      BY LenProperties
    <3>2. s \in Surjection(D, T)
      BY <3>1 DEF Surjection
    <3> QED
      BY <2>2, <3>2, FS_Surjection
  <2> QED
    BY <2>1, <2>3
<1>2. ToldApart(S)
  OBVIOUS
<1> HIDE DEF S
<1>3. \A x, y \in S : <<x, y>> \in R <=> Before(x, y)
  OBVIOUS
<1>4. Orders(R, S)
  <2>1. \A x, y \in S : x.seq \in Nat /\ x.prio \in Nat /\ (x # y => x.seq # y.seq)
    BY <1>1, <1>2 DEF Handed, ToldApart
  <2>2. \A a, b, c, d \in Nat : b # d => (a > c \/ (a = c /\ b < d)) \/ (c > a \/ (c = a /\ d < b))
    OBVIOUS
  <2>3. \A a, b, c, d, e, f \in Nat :
          (a > c \/ (a = c /\ b < d)) /\ (c > e \/ (c = e /\ d < f)) => a > e \/ (a = e /\ b < f)
    OBVIOUS
  <2>4. \A x, y \in S : x # y => Before(x, y) \/ Before(y, x)
    BY <2>1, <2>2 DEF Before
  <2>5. \A x, y, z \in S : Before(x, y) /\ Before(y, z) => Before(x, z)
    BY <2>1, <2>3 DEF Before
  <2> HIDE DEF R
  <2> QED
    BY <1>3, <2>4, <2>5 DEF Orders
<1>5. PICK t \in SetToSeqs(S) : \A i, j \in 1 .. Cardinality(S) : i < j => <<t[i], t[j]>> \in R
  BY <1>1, <1>4, Sortable
<1>6. /\ DOMAIN t = 1 .. Cardinality(S)
      /\ \A i \in DOMAIN t : t[i] \in S
  BY <1>1, <1>5, Listed, ElementOfSeq
<1>7. InOrder(t)
  BY <1>3, <1>5, <1>6
<1>8. Ordered(s) = CHOOSE u \in SetToSeqs(S) : InOrder(u)
  BY DEF Ordered, S
<1> HIDE DEF InOrder, R
<1>9. Ordered(s) \in SetToSeqs(S) /\ InOrder(Ordered(s))
  BY <1>5, <1>7, <1>8
<1>10. /\ Ordered(s) \in Seq(S) /\ Range(Ordered(s)) = S
       /\ Len(Ordered(s)) = Cardinality(S) /\ DOMAIN Ordered(s) = 1 .. Cardinality(S)
  BY <1>1, <1>9, Listed
<1>11. Ordered(s) \in Seq(Handed)
  BY <1>1, <1>10, SeqMonotonic
<1> QED
  BY <1>9, <1>10, <1>11 DEF InOrder, S

(* The record of a call that begins.                                       *)
NewCall(batch) ==
    [todo |-> FanOut(batch), done |-> <<>>, known |-> {b.seq : b \in Range(batch)}]

(* What a call that begins has to deliver: in order, told apart, and each  *)
(* event of the batch to each handler.                                     *)
LEMMA NewCallIs ==
    ASSUME BusTypes, Numbered, NEW batch \in Seq(Handed), ToldApart(Range(batch)),
           \A i, j \in 1 .. Len(batch) : i < j => Before(batch[i], batch[j])
    PROVE  /\ NewCall(batch) \in Call
           /\ CallInOrder(NewCall(batch))
           /\ \A q, r \in 1 .. Len(NewCall(batch).todo) :
                Pair(NewCall(batch).todo[q]) = Pair(NewCall(batch).todo[r]) => q = r
           /\ \A d : Holds(NewCall(batch), d) <=>
                       d \in {<<b.seq, s.seq>> : b \in Range(batch), s \in Range(subs)}
<1> DEFINE hs == OrderedHandlers
           todo == FanOut(batch)
           c == NewCall(batch)
<1>1. /\ hs \in Seq(Handed) /\ Range(hs) = Range(subs)
      /\ \A i, j \in 1 .. Len(hs) : i < j => Before(hs[i], hs[j])
      /\ ToldApart(Range(hs))
  <2>1. subs \in Seq(Handed) /\ ToldApart(Range(subs))
    BY DEF BusTypes, Numbered
  <2> QED
    BY <2>1, OrderedIs DEF OrderedHandlers
<1>2. todo = FlattenSeq(Rows(batch, hs))
  BY DEF FanOut, Rows
<1>3. c.todo = todo /\ c.done = <<>> /\ c.known = {b.seq : b \in Range(batch)}
  BY DEF NewCall
<1> HIDE DEF hs, todo, c
<1>4. todo \in Seq(Delivery) /\ \E start : RowByRow(batch, hs, todo, start)
  BY <1>1, <1>2, NestedLoops DEF Delivery
<1>5. PICK start : RowByRow(batch, hs, todo, start)
  BY <1>4
<1>6. /\ \A p \in 1 .. Len(todo) : \E i \in 1 .. Len(batch), j \in 1 .. Len(hs) : p = start[i] + j
      /\ \A i \in 1 .. Len(batch), j \in 1 .. Len(hs) :
           start[i] + j \in 1 .. Len(todo) /\ todo[start[i] + j] = <<batch[i], hs[j]>>
      /\ \A i, k \in 1 .. Len(batch), j, l \in 1 .. Len(hs) :
           start[i] + j < start[k] + l => i < k \/ (i = k /\ j < l)
  BY <1>5 DEF RowByRow
<1>7. /\ Range(batch) = {batch[i] : i \in 1 .. Len(batch)} /\ Range(batch) \in SUBSET Handed
      /\ Range(hs) = {hs[j] : j \in 1 .. Len(hs)} /\ Range(hs) \in SUBSET Handed
  BY <1>1, RangeEquality, RangeOfSeq
<1>8. \A x \in Handed : x.seq \in Nat /\ x.prio \in Nat
  BY DEF Handed
<1>9. ASSUME NEW p \in 1 .. Len(todo), NEW q \in 1 .. Len(todo), p < q
      PROVE  Precedes(todo[p], todo[q])
  <2>1. PICK i \in 1 .. Len(batch), j \in 1 .. Len(hs) : p = start[i] + j
    BY <1>6
  <2>2. PICK k \in 1 .. Len(batch), l \in 1 .. Len(hs) : q = start[k] + l
    BY <1>6
  <2>3. i < k \/ (i = k /\ j < l)
    BY <1>6, <1>9, <2>1, <2>2
  <2>4. todo[p] = <<batch[i], hs[j]>> /\ todo[q] = <<batch[k], hs[l]>>
    BY <1>6, <2>1, <2>2
  <2>5. Before(batch[i], batch[k]) \/ (batch[i] = batch[k] /\ Before(hs[j], hs[l]))
    BY <1>1, <2>3
  <2> QED
    BY <2>4, <2>5 DEF Precedes, Before
<1>10. ASSUME NEW p \in 1 .. Len(todo)
       PROVE  todo[p][1] \in Range(batch) /\ todo[p][2] \in Range(hs)
  <2>1. PICK i \in 1 .. Len(batch), j \in 1 .. Len(hs) : p = start[i] + j
    BY <1>6
  <2>2. todo[p] = <<batch[i], hs[j]>>
    BY <1>6, <2>1
  <2> QED
    BY <1>7, <2>2
<1>11. Len(todo) \in Nat
  BY <1>4, LenProperties
<1>12. ASSUME NEW p \in 1 .. Len(todo), NEW q \in 1 .. Len(todo), Pair(todo[p]) = Pair(todo[q])
       PROVE  p = q
  <2>1. todo[p][1].seq = todo[q][1].seq /\ todo[p][2].seq = todo[q][2].seq
    BY <1>12 DEF Pair
  <2>2. todo[p][1] = todo[q][1] /\ todo[p][2] = todo[q][2]
    BY <1>1, <1>10, <2>1 DEF ToldApart
  <2>3. /\ todo[p][1].seq \in Nat /\ todo[p][1].prio \in Nat
        /\ todo[p][2].seq \in Nat /\ todo[p][2].prio \in Nat
    BY <1>7, <1>8, <1>10
  <2>4. ~ Precedes(todo[p], todo[q]) /\ ~ Precedes(todo[q], todo[p])
    BY <2>2, <2>3 DEF Precedes
  <2> QED
    BY <1>9, <1>11, <2>4
<1>13. c \in Call
  <2>1. {b.seq : b \in Range(batch)} \in SUBSET Nat
    BY <1>7, <1>8
  <2>2. <<>> \in Seq(Delivery)
    BY EmptySeq
  <2> QED
    BY <1>4, <2>1, <2>2 DEF Call, c, NewCall, todo
<1>14. CallInOrder(c)
  <2>1. c.done \o c.todo = todo
    BY <1>3, <1>4, ConcatEmptySeq
  <2>2. \A p \in 1 .. Len(todo) : todo[p][1].seq \in c.known
    BY <1>3, <1>10
  <2> QED
    BY <1>9, <2>1, <2>2 DEF CallInOrder
<1>15. \A d : Holds(c, d) <=> d \in {<<b.seq, s.seq>> : b \in Range(batch), s \in Range(subs)}
  <2>1. ASSUME NEW d, Holds(c, d)
        PROVE  d \in {<<b.seq, s.seq>> : b \in Range(batch), s \in Range(subs)}
    <3>1. PICK q \in 1 .. Len(todo) : Pair(todo[q]) = d
      BY <1>3, <2>1 DEF Holds
    <3> QED
      BY <1>1, <1>10, <3>1 DEF Pair
  <2>2. ASSUME NEW b \in Range(batch), NEW s \in Range(subs)
        PROVE  Holds(c, <<b.seq, s.seq>>)
    <3>1. PICK i \in 1 .. Len(batch) : b = batch[i]
      BY <1>7
    <3>2. PICK j \in 1 .. Len(hs) : s = hs[j]
      BY <1>1, <1>7
    <3>3. start[i] + j \in 1 .. Len(todo) /\ todo[start[i] + j] = <<b, s>>
      BY <1>6, <3>1, <3>2
    <3>4. Pair(todo[start[i] + j]) = <<b.seq, s.seq>>
      BY <3>3 DEF Pair
    <3> QED
      BY <1>3, <3>3, <3>4 DEF Holds
  <2> QED
    BY <2>1, <2>2
<1> QED
  BY <1>3, <1>12, <1>13, <1>14, <1>15 DEF c

(* What is handed out is still owed once and delivered once when nobody's  *)
(* calls change.                                                           *)
LEMMA QuietStep ==
    ASSUME InOneHand, Delivered, CallsInOrder, UNCHANGED <<calls, owed, got>>
    PROVE  InOneHand' /\ Delivered' /\ CallsInOrder'
<1>1. \A d : Held(d)' = Held(d) /\ Copies(d)' = Copies(d)
  BY DEF Held, Copies
<1>2. \A d : Held(d) => d \in owed
  BY DEF InOneHand
<1>3. InOneHand'
  BY <1>1, <1>2 DEF InOneHand
<1>4. Delivered'
  BY <1>1 DEF Delivered
<1> QED
  BY <1>3, <1>4 DEF CallsInOrder

(* A stack with one call more.                                             *)
LEMMA Pushed ==
    ASSUME BusTypes, NEW t \in Threads, NEW c \in Call,
           calls' = [calls EXCEPT ![t] = Append(@, c)]
    PROVE  /\ calls' \in [Threads -> Seq(Call)]
           /\ \A u \in Threads : \A k \in 1 .. Len(calls'[u]) :
                \/ k \in 1 .. Len(calls[u]) /\ calls'[u][k] = calls[u][k]
                \/ u = t /\ k = Len(calls[t]) + 1 /\ calls'[u][k] = c
           /\ \A u \in Threads : \A k \in 1 .. Len(calls[u]) :
                k \in 1 .. Len(calls'[u]) /\ calls'[u][k] = calls[u][k]
           /\ Len(calls[t]) + 1 \in 1 .. Len(calls'[t])
           /\ calls'[t][Len(calls[t]) + 1] = c
<1>1. calls \in [Threads -> Seq(Call)]
  BY DEF BusTypes
<1>2. /\ calls'[t] = Append(calls[t], c)
      /\ \A u \in Threads : u # t => calls'[u] = calls[u]
  BY <1>1
<1>3. \A u \in Threads : calls[u] \in Seq(Call) /\ Len(calls[u]) \in Nat
  BY <1>1, LenProperties
<1>4. /\ Append(calls[t], c) \in Seq(Call) /\ Len(Append(calls[t], c)) = Len(calls[t]) + 1
      /\ \A k \in 1 .. Len(calls[t]) : Append(calls[t], c)[k] = calls[t][k]
      /\ Append(calls[t], c)[Len(calls[t]) + 1] = c
  BY <1>3, AppendProperties
<1>5. calls' \in [Threads -> Seq(Call)]
  BY <1>1, <1>4
<1>6. \A u \in Threads : \A k \in 1 .. Len(calls[u]) :
        k \in 1 .. Len(calls'[u]) /\ calls'[u][k] = calls[u][k]
  BY <1>2, <1>3, <1>4
<1>7. Len(calls[t]) + 1 \in 1 .. Len(calls'[t]) /\ calls'[t][Len(calls[t]) + 1] = c
  BY <1>2, <1>3, <1>4
<1>8. ASSUME NEW u \in Threads, NEW k \in 1 .. Len(calls'[u])
      PROVE  \/ k \in 1 .. Len(calls[u]) /\ calls'[u][k] = calls[u][k]
             \/ u = t /\ k = Len(calls[t]) + 1 /\ calls'[u][k] = c
  <2>1. CASE u = t
    <3>1. k \in 1 .. Len(calls[t]) \/ k = Len(calls[t]) + 1
      BY <1>2, <1>3, <1>4, <2>1
    <3> QED
      BY <1>6, <1>7, <2>1, <3>1
  <2>2. CASE u # t
    BY <1>2, <2>2
  <2> QED
    BY <2>1, <2>2
<1> QED
  BY <1>5, <1>6, <1>7, <1>8

(* publish and dispatch_pending begin with events that nobody is owed yet  *)
(* and that leave the queue.                                               *)
LEMMA BeginKeeps ==
    ASSUME BusInv, NEW t \in Threads, NEW batch \in Seq(Handed), ToldApart(Range(batch)),
           \A i, j \in 1 .. Len(batch) : i < j => Before(batch[i], batch[j]),
           Begin(t, batch), got' = got, events' \in Nat, events <= events',
           Range(pending') \subseteq Range(pending),
           \A b \in Range(batch) : /\ b.seq <= events'
                                   /\ \A d \in owed : d[1] # b.seq
                                   /\ \A x \in Range(pending') : x.seq # b.seq
    PROVE  /\ calls' \in [Threads -> Seq(Call)] /\ owed' \subseteq Nat \X Nat
           /\ OwedBefore' /\ InOneHand' /\ Delivered' /\ CallsInOrder'
<1> DEFINE c == NewCall(batch)
           fresh == {<<b.seq, s.seq>> : b \in Range(batch), s \in Range(subs)}
           n == Len(calls[t])
<1>1. BusTypes /\ Numbered /\ OwedBefore /\ InOneHand /\ Delivered /\ CallsInOrder
  BY DEF BusInv
<1>2. /\ calls' = [calls EXCEPT ![t] = Append(@, c)]
      /\ owed' = owed \cup fresh
  BY DEF Begin, NewCall
<1>3. /\ c \in Call /\ CallInOrder(c)
      /\ \A q, r \in 1 .. Len(c.todo) : Pair(c.todo[q]) = Pair(c.todo[r]) => q = r
      /\ \A d : Holds(c, d) <=> d \in fresh
  BY <1>1, NewCallIs
<1>4. /\ Range(batch) \in SUBSET Handed /\ Range(subs) \in SUBSET Handed
      /\ Range(pending) \in SUBSET Handed
      /\ \A x \in Handed : x.seq \in Nat
  BY <1>1, RangeOfSeq DEF BusTypes, Handed
<1>5. /\ fresh \subseteq Nat \X Nat
      /\ \A d \in fresh : \E b \in Range(batch) : d[1] = b.seq
  BY <1>4
<1> HIDE DEF c, fresh, n
<1>6. \A d \in fresh : d \notin owed
  BY <1>5
<1>7. /\ calls' \in [Threads -> Seq(Call)]
      /\ \A u \in Threads : \A k \in 1 .. Len(calls'[u]) :
           \/ k \in 1 .. Len(calls[u]) /\ calls'[u][k] = calls[u][k]
           \/ u = t /\ k = n + 1 /\ calls'[u][k] = c
      /\ \A u \in Threads : \A k \in 1 .. Len(calls[u]) :
           k \in 1 .. Len(calls'[u]) /\ calls'[u][k] = calls[u][k]
      /\ n + 1 \in 1 .. Len(calls'[t]) /\ calls'[t][n + 1] = c
  BY <1>1, <1>2, <1>3, Pushed DEF n
<1>8. owed' \subseteq Nat \X Nat
  BY <1>1, <1>2, <1>5 DEF BusTypes
<1>9. OwedBefore'
  <2>1. SUFFICES ASSUME NEW d \in owed'
                 PROVE  d[1] <= events' /\ \A x \in Range(pending') : x.seq # d[1]
    BY DEF OwedBefore
  <2>2. CASE d \in owed
    <3>1. d[1] <= events /\ d[1] \in Nat /\ events \in Nat
      BY <1>1, <2>2 DEF OwedBefore, BusTypes
    <3> QED
      BY <1>1, <2>2, <3>1 DEF OwedBefore
  <2>3. CASE d \in fresh
    BY <1>5, <2>3
  <2> QED
    BY <1>2, <2>2, <2>3
<1>10. \A d : Held(d)' <=> Held(d) \/ d \in fresh
  <2>1. ASSUME NEW d, Held(d)'
        PROVE  Held(d) \/ d \in fresh
    <3>1. PICK u \in Threads : \E k \in 1 .. Len(calls'[u]) : Holds(calls'[u][k], d)
      BY <2>1 DEF Held
    <3>2. PICK k \in 1 .. Len(calls'[u]) : Holds(calls'[u][k], d)
      BY <3>1
    <3> QED
      BY <1>3, <1>7, <3>2 DEF Held
  <2>2. ASSUME NEW d, Held(d)
        PROVE  Held(d)'
    <3>1. PICK u \in Threads : \E k \in 1 .. Len(calls[u]) : Holds(calls[u][k], d)
      BY <2>2 DEF Held
    <3>2. PICK k \in 1 .. Len(calls[u]) : Holds(calls[u][k], d)
      BY <3>1
    <3>3. k \in 1 .. Len(calls'[u]) /\ Holds(calls'[u][k], d)
      BY <1>7, <3>2
    <3> QED
      BY <3>3 DEF Held
  <2>3. ASSUME NEW d \in fresh
        PROVE  Held(d)'
    <3>1. Holds(calls'[t][n + 1], d) /\ n + 1 \in 1 .. Len(calls'[t])
      BY <1>3, <1>7
    <3> QED
      BY <3>1 DEF Held
  <2> QED
    BY <2>1, <2>2, <2>3
<1>11. \A d : Held(d) => d \in owed
  BY <1>1 DEF InOneHand
<1>12. InOneHand'
  <2>1. \A d : Held(d)' => d \in owed'
    BY <1>2, <1>10, <1>11
  <2>2. ASSUME NEW v \in Threads, NEW u \in Threads,
               NEW k \in 1 .. Len(calls'[v]), NEW l \in 1 .. Len(calls'[u]),
               NEW d, Holds(calls'[v][k], d), Holds(calls'[u][l], d)
        PROVE  v = u /\ k = l
    <3>1. \A w \in Threads : \A m \in 1 .. Len(calls[w]) : Holds(calls[w][m], d) => d \in owed
      BY <1>11 DEF Held
    <3>2. \/ k \in 1 .. Len(calls[v]) /\ calls'[v][k] = calls[v][k] /\ d \in owed
          \/ v = t /\ k = n + 1 /\ d \in fresh
      BY <1>3, <1>7, <2>2, <3>1
    <3>3. \/ l \in 1 .. Len(calls[u]) /\ calls'[u][l] = calls[u][l] /\ d \in owed
          \/ u = t /\ l = n + 1 /\ d \in fresh
      BY <1>3, <1>7, <2>2, <3>1
    <3>4. CASE d \in owed
      <4>1. /\ k \in 1 .. Len(calls[v]) /\ Holds(calls[v][k], d)
            /\ l \in 1 .. Len(calls[u]) /\ Holds(calls[u][l], d)
        BY <1>6, <2>2, <3>2, <3>3, <3>4
      <4> QED
        BY <1>1, <4>1 DEF InOneHand
    <3>5. CASE d \notin owed
      BY <3>2, <3>3, <3>5
    <3> QED
      BY <3>4, <3>5
  <2> QED
    BY <2>1, <2>2 DEF InOneHand
<1>13. Delivered'
  <2>1. SUFFICES ASSUME NEW d
                 PROVE  Copies(d)' = IF d \in owed' /\ ~ Held(d)' THEN 1 ELSE 0
    BY DEF Delivered
  <2>2. Copies(d)' = Copies(d)
    BY DEF Copies
  <2>3. Copies(d) = IF d \in owed /\ ~ Held(d) THEN 1 ELSE 0
    BY <1>1 DEF Delivered
  <2> QED
    BY <1>2, <1>6, <1>10, <2>2, <2>3
<1>14. CallsInOrder'
  <2>1. SUFFICES ASSUME NEW u \in Threads, NEW k \in 1 .. Len(calls'[u])
                 PROVE  /\ CallInOrder(calls'[u][k])
                        /\ \A q, r \in 1 .. Len(calls'[u][k].todo) :
                             Pair(calls'[u][k].todo[q]) = Pair(calls'[u][k].todo[r]) => q = r
    BY DEF CallsInOrder
  <2>2. CASE k \in 1 .. Len(calls[u]) /\ calls'[u][k] = calls[u][k]
    BY <1>1, <2>2 DEF CallsInOrder
  <2>3. CASE calls'[u][k] = c
    BY <1>3, <2>3
  <2> QED
    BY <1>7, <2>2, <2>3
<1> QED
  BY <1>7, <1>8, <1>9, <1>12, <1>13, <1>14


(* The call on top of a stack, and what is below it.                       *)
LEMMA Stack ==
    ASSUME BusTypes, NEW t \in Threads, calls[t] # <<>>
    PROVE  /\ Len(calls[t]) \in Nat \ {0} /\ calls[t] \in Seq(Call)
           /\ Last(calls[t]) = calls[t][Len(calls[t])] /\ Last(calls[t]) \in Call
           /\ Front(calls[t]) \in Seq(Call) /\ Len(Front(calls[t])) = Len(calls[t]) - 1
           /\ \A k \in 1 .. Len(calls[t]) - 1 : Front(calls[t])[k] = calls[t][k]
<1> DEFINE s == calls[t]
           n == Len(s)
<1>1. s \in Seq(Call)
  BY DEF BusTypes
<1> HIDE DEF s
<1>2. n \in Nat \ {0} /\ \A k \in 1 .. n : s[k] \in Call
  BY <1>1, EmptySeq, ElementOfSeq DEF s
<1>3. Last(s) = s[n] /\ Last(s) \in Call
  BY <1>2 DEF Last
<1>4. Front(s) = SubSeq(s, 1, n - 1)
  BY DEF Front
<1> HIDE DEF n
<1>5. /\ SubSeq(s, 1, n - 1) \in Seq(Call)
      /\ Len(SubSeq(s, 1, n - 1)) = n - 1
      /\ \A k \in 1 .. n - 1 : SubSeq(s, 1, n - 1)[k] = s[k]
  <2>1. 1 \in Int /\ n - 1 \in Int /\ \A k \in 1 .. n - 1 : s[k] \in Call
    BY <1>2
  <2>2. /\ SubSeq(s, 1, n - 1) \in Seq(Call)
        /\ Len(SubSeq(s, 1, n - 1)) = IF 1 <= n - 1 THEN n - 1 - 1 + 1 ELSE 0
        /\ \A k \in 1 .. n - 1 - 1 + 1 : SubSeq(s, 1, n - 1)[k] = s[1 + k - 1]
    BY <2>1, SubSeqProperties
  <2>3. n - 1 - 1 + 1 = n - 1 /\ \A k \in 1 .. n - 1 : 1 + k - 1 = k
    BY <1>2
  <2> QED
    BY <1>2, <2>2, <2>3
<1> QED
  BY <1>1, <1>2, <1>3, <1>4, <1>5 DEF s, n

(* A stack whose top is replaced.                                          *)
LEMMA Replaced ==
    ASSUME BusTypes, NEW t \in Threads, calls[t] # <<>>, NEW c \in Call,
           calls' = [calls EXCEPT ![t] = Front(@) \o <<c>>]
    PROVE  /\ calls' \in [Threads -> Seq(Call)]
           /\ \A u \in Threads : Len(calls'[u]) = Len(calls[u])
           /\ \A u \in Threads : \A k \in 1 .. Len(calls[u]) :
                calls'[u][k] = IF u = t /\ k = Len(calls[t]) THEN c ELSE calls[u][k]
<1> DEFINE f == Front(calls[t])
           n == Len(calls[t])
<1>1. calls \in [Threads -> Seq(Call)]
  BY DEF BusTypes
<1>2. /\ n \in Nat \ {0} /\ f \in Seq(Call) /\ Len(f) = n - 1
      /\ \A k \in 1 .. n - 1 : f[k] = calls[t][k]
  BY Stack
<1>3. calls'[t] = f \o <<c>> /\ \A u \in Threads : u # t => calls'[u] = calls[u]
  BY <1>1
<1> HIDE DEF f, n
<1>4. /\ f \o <<c>> \in Seq(Call) /\ Len(f \o <<c>>) = n
      /\ \A k \in 1 .. n : (f \o <<c>>)[k] = IF k = n THEN c ELSE f[k]
  <2>1. f \o <<c>> = Append(f, c)
    BY <1>2, AppendIsConcat
  <2>2. /\ Append(f, c) \in Seq(Call) /\ Len(Append(f, c)) = Len(f) + 1
        /\ \A k \in 1 .. Len(f) : Append(f, c)[k] = f[k]
        /\ Append(f, c)[Len(f) + 1] = c
    BY <1>2, AppendProperties
  <2> QED
    BY <1>2, <2>1, <2>2
<1>5. calls' \in [Threads -> Seq(Call)]
  BY <1>1, <1>3, <1>4
<1>6. ASSUME NEW u \in Threads
      PROVE  /\ Len(calls'[u]) = Len(calls[u])
             /\ \A k \in 1 .. Len(calls[u]) :
                  calls'[u][k] = IF u = t /\ k = n THEN c ELSE calls[u][k]
  <2>1. CASE u = t
    <3>1. calls'[u] = f \o <<c>> /\ Len(calls[u]) = n
      BY <1>3, <2>1 DEF n
    <3>2. \A k \in 1 .. n : k # n => k \in 1 .. n - 1
      BY <1>2
    <3> QED
      BY <1>2, <1>4, <2>1, <3>1, <3>2
  <2>2. CASE u # t
    BY <1>3, <2>2
  <2> QED
    BY <2>1, <2>2
<1> QED
  BY <1>5, <1>6 DEF n

(* A stack whose top is taken away.                                        *)
LEMMA Popped ==
    ASSUME BusTypes, NEW t \in Threads, calls[t] # <<>>,
           calls' = [calls EXCEPT ![t] = Front(@)]
    PROVE  /\ calls' \in [Threads -> Seq(Call)]
           /\ \A u \in Threads : \A k \in 1 .. Len(calls'[u]) :
                k \in 1 .. Len(calls[u]) /\ calls'[u][k] = calls[u][k]
           /\ \A u \in Threads : \A k \in 1 .. Len(calls[u]) :
                \/ k \in 1 .. Len(calls'[u]) /\ calls'[u][k] = calls[u][k]
                \/ u = t /\ k = Len(calls[t])
<1> DEFINE f == Front(calls[t])
           n == Len(calls[t])
<1>1. calls \in [Threads -> Seq(Call)]
  BY DEF BusTypes
<1>2. /\ n \in Nat \ {0} /\ f \in Seq(Call) /\ Len(f) = n - 1
      /\ \A k \in 1 .. n - 1 : f[k] = calls[t][k]
  BY Stack
<1>3. calls'[t] = f /\ \A u \in Threads : u # t => calls'[u] = calls[u]
  BY <1>1
<1> HIDE DEF f
<1>4. calls' \in [Threads -> Seq(Call)]
  <2>1. [calls EXCEPT ![t] = f] \in [Threads -> Seq(Call)]
    BY <1>1, <1>2
  <2> QED
    BY <2>1 DEF f
<1>5. ASSUME NEW u \in Threads
      PROVE  /\ \A k \in 1 .. Len(calls'[u]) :
                  k \in 1 .. Len(calls[u]) /\ calls'[u][k] = calls[u][k]
             /\ \A k \in 1 .. Len(calls[u]) :
                  \/ k \in 1 .. Len(calls'[u]) /\ calls'[u][k] = calls[u][k]
                  \/ u = t /\ k = Len(calls[t])
  <2>1. CASE u = t
    BY <1>2, <1>3, <2>1
  <2>2. CASE u # t
    BY <1>3, <2>2
  <2> QED
    BY <2>1, <2>2
<1> QED
  BY <1>4, <1>5

(* A delivery goes from what is to come to what is done.                   *)
LEMMA Handover ==
    ASSUME NEW top \in Call, top.todo # <<>>, NEW c,
           c = [top EXCEPT !.todo = Tail(@), !.done = Append(@, Head(top.todo))]
    PROVE  /\ c \in Call /\ c.known = top.known
           /\ c.done \o c.todo = top.done \o top.todo
           /\ Len(top.todo) \in Nat \ {0} /\ Len(c.todo) = Len(top.todo) - 1
           /\ \A q \in 1 .. Len(c.todo) : c.todo[q] = top.todo[q + 1]
           /\ Head(top.todo) = top.todo[1] /\ Head(top.todo) \in Delivery
<1> DEFINE s == top.todo
           e == Head(top.todo)
<1>1. s \in Seq(Delivery) /\ top.done \in Seq(Delivery) /\ top.known \in SUBSET Nat
  BY DEF Call
<1>2. c = [todo |-> Tail(s), done |-> Append(top.done, e), known |-> top.known]
  BY DEF Call
<1>3. c.todo = Tail(s) /\ c.done = Append(top.done, e) /\ c.known = top.known
  BY <1>2
<1> HIDE DEF s
<1>4. /\ e \in Delivery /\ Tail(s) \in Seq(Delivery) /\ Len(Tail(s)) = Len(s) - 1
      /\ \A q \in 1 .. Len(Tail(s)) : Tail(s)[q] = s[q + 1]
  BY <1>1, HeadTailProperties DEF s
<1>5. Len(s) \in Nat \ {0}
  BY <1>1, EmptySeq DEF s
<1>6. e = s[1]
  BY <1>1, <1>5 DEF s
<1> HIDE DEF e
<1>7. s = <<e>> \o Tail(s)
  <2>1. 1 \in 1 .. Len(s) /\ Len(s) \in 1 .. Len(s)
    BY <1>5
  <2>2. SubSeq(s, 1, Len(s)) = <<s[1]>> \o SubSeq(s, 1 + 1, Len(s))
    BY <1>1, <2>1, SubSeqRecursiveFirst
  <2>3. SubSeq(s, 1, Len(s)) = s
    BY <1>1, SubSeqFull
  <2>4. Tail(s) = SubSeq(s, 2, Len(s))
    BY <1>1, TailIsSubSeq DEF s
  <2> QED
    BY <1>6, <2>2, <2>3, <2>4
<1>8. Append(top.done, e) = top.done \o <<e>> /\ Append(top.done, e) \in Seq(Delivery)
  BY <1>1, <1>4, AppendIsConcat, AppendProperties
<1>9. (top.done \o <<e>>) \o Tail(s) = top.done \o (<<e>> \o Tail(s))
  <2>1. <<e>> \in Seq(Delivery)
    BY <1>4
  <2> QED
    BY <1>1, <1>4, <2>1, ConcatAssociative
<1>10. c.done \o c.todo = top.done \o s
  BY <1>3, <1>7, <1>8, <1>9
<1>11. c \in Call
  <2>1. [todo |-> Tail(s), done |-> Append(top.done, e), known |-> top.known] \in Call
    BY <1>1, <1>4, <1>8 DEF Call
  <2> QED
    BY <1>2, <2>1, Zenon
<1> QED
  BY <1>3, <1>4, <1>5, <1>6, <1>10, <1>11 DEF s, e

(* One delivery more.                                                      *)
LEMMA OneMore ==
    ASSUME NEW p, got' = got (+) SetToBag({p}), \A d : Copies(d) \in Nat
    PROVE  \A d : Copies(d)' = Copies(d) + IF d = p THEN 1 ELSE 0
<1> DEFINE b == SetToBag({p})
<1>1. DOMAIN b = {p} /\ b[p] = 1
  BY DEF SetToBag
<1>2. got' = got (+) b
  OBVIOUS
<1> HIDE DEF b
<1>3. /\ DOMAIN got' = DOMAIN got \cup {p}
      /\ \A d \in DOMAIN got \cup {p} :
           got'[d] = (IF d \in DOMAIN got THEN got[d] ELSE 0) + (IF d \in DOMAIN b THEN b[d] ELSE 0)
  BY <1>1, <1>2 DEF (+)
<1>4. \A d : /\ Copies(d) = (IF d \in DOMAIN got THEN got[d] ELSE 0)
             /\ Copies(d)' = (IF d \in DOMAIN got' THEN got'[d] ELSE 0)
  BY DEF Copies, BagIn, BagToSet
<1>5. \A d : d \in DOMAIN b <=> d = p
  BY <1>1
<1>6. SUFFICES ASSUME NEW d
               PROVE  Copies(d)' = Copies(d) + IF d = p THEN 1 ELSE 0
  OBVIOUS
<1>7. Copies(d) \in Nat
  OBVIOUS
<1>8. CASE d = p
  <2>1. Copies(d)' = Copies(d) + 1
    BY <1>1, <1>3, <1>4, <1>5, <1>8
  <2> QED
    BY <1>8, <2>1
<1>9. CASE d # p
  <2>1. CASE d \in DOMAIN got
    <3>1. got'[d] = Copies(d) + 0 /\ d \in DOMAIN got'
      BY <1>3, <1>4, <1>5, <1>9, <2>1
    <3> QED
      BY <1>4, <1>7, <1>9, <3>1
  <2>2. CASE d \notin DOMAIN got
    <3>1. Copies(d)' = 0 /\ Copies(d) = 0
      BY <1>3, <1>4, <1>9, <2>2
    <3> QED
      BY <1>9, <3>1
  <2> QED
    BY <2>1, <2>2
<1> QED
  BY <1>8, <1>9

(* A handler returns and the next one is called: one delivery goes from    *)
(* the hand to the ones done.                                              *)
LEMMA CallNextKeeps ==
    ASSUME BusInv, NEW t \in Threads, CallNext(t)
    PROVE  BusInv'
<1> DEFINE top == Last(calls[t])
           first == Head(top.todo)
           c == [top EXCEPT !.todo = Tail(@), !.done = Append(@, first)]
           n == Len(calls[t])
           p == Pair(first)
<1>1. BusTypes /\ Numbered /\ OwedBefore /\ InOneHand /\ Delivered /\ CallsInOrder
  BY DEF BusInv
<1>2. /\ calls[t] # <<>> /\ top.todo # <<>>
      /\ calls' = [calls EXCEPT ![t] = Front(@) \o <<c>>]
      /\ got' = got (+) SetToBag({p})
      /\ UNCHANGED <<subs, pending, nextToken, events, owed>>
  BY DEF CallNext, Pair
<1>3. n \in Nat \ {0} /\ n \in 1 .. n /\ top = calls[t][n] /\ top \in Call
  BY <1>1, <1>2, Stack
<1> HIDE DEF top
<1>4. /\ c \in Call /\ c.known = top.known
      /\ c.done \o c.todo = top.done \o top.todo
      /\ Len(top.todo) \in Nat \ {0} /\ Len(c.todo) = Len(top.todo) - 1
      /\ \A q \in 1 .. Len(c.todo) : c.todo[q] = top.todo[q + 1]
      /\ first = top.todo[1]
  BY <1>2, <1>3, Handover, ZenonT(60)
<1> HIDE DEF c, first, p, n
<1>5. /\ calls' \in [Threads -> Seq(Call)]
      /\ \A u \in Threads : Len(calls'[u]) = Len(calls[u])
      /\ \A u \in Threads : \A k \in 1 .. Len(calls[u]) :
           calls'[u][k] = IF u = t /\ k = n THEN c ELSE calls[u][k]
  <2>1. /\ calls' \in [Threads -> Seq(Call)]
        /\ \A u \in Threads : Len(calls'[u]) = Len(calls[u])
        /\ \A u \in Threads : \A k \in 1 .. Len(calls[u]) :
             calls'[u][k] = IF u = t /\ k = Len(calls[t]) THEN c ELSE calls[u][k]
    <3>1. BusTypes /\ calls[t] # <<>> /\ c \in Call
      BY <1>1, <1>2, <1>4
    <3>2. calls' = [calls EXCEPT ![t] = Front(@) \o <<c>>]
      BY <1>2
    <3> QED
      BY <3>1, <3>2, Replaced, ZenonT(60)
  <2> QED
    BY <2>1 DEF n
<1>6. /\ CallInOrder(top)
      /\ \A q, r \in 1 .. Len(top.todo) : Pair(top.todo[q]) = Pair(top.todo[r]) => q = r
  BY <1>1, <1>3 DEF CallsInOrder, n
<1>7. p = Pair(top.todo[1])
  BY <1>4 DEF p
<1>8. \A d : Holds(c, d) <=> Holds(top, d) /\ d # p
  <2>1. ASSUME NEW d, Holds(c, d)
        PROVE  Holds(top, d) /\ d # p
    <3>1. PICK q \in 1 .. Len(c.todo) : Pair(c.todo[q]) = d
      BY <2>1 DEF Holds
    <3>2. q + 1 \in 1 .. Len(top.todo) /\ 1 \in 1 .. Len(top.todo) /\ q + 1 # 1
      BY <1>4
    <3>3. Pair(top.todo[q + 1]) = d
      BY <1>4, <3>1
    <3> QED
      BY <1>6, <1>7, <3>2, <3>3 DEF Holds
  <2>2. ASSUME NEW d, Holds(top, d), d # p
        PROVE  Holds(c, d)
    <3>1. PICK q \in 1 .. Len(top.todo) : Pair(top.todo[q]) = d
      BY <2>2 DEF Holds
    <3>2. q # 1
      BY <1>7, <2>2, <3>1
    <3>3. q - 1 \in 1 .. Len(c.todo) /\ q - 1 + 1 = q
      BY <1>4, <3>2
    <3>4. Pair(c.todo[q - 1]) = d
      BY <1>4, <3>1, <3>3
    <3> QED
      BY <3>3, <3>4 DEF Holds
  <2> QED
    BY <2>1, <2>2
<1>9. Holds(top, p)
  BY <1>4, <1>7 DEF Holds
<1>10. \A u \in Threads : \A k \in 1 .. Len(calls[u]) : \A d :
         Holds(calls'[u][k], d) <=> Holds(calls[u][k], d) /\ d # p
  <2>1. SUFFICES ASSUME NEW u \in Threads, NEW k \in 1 .. Len(calls[u]), NEW d
                 PROVE  Holds(calls'[u][k], d) <=> Holds(calls[u][k], d) /\ d # p
    OBVIOUS
  <2>2. CASE u = t /\ k = n
    BY <1>3, <1>5, <1>8, <2>2
  <2>3. CASE ~ (u = t /\ k = n)
    <3>1. calls'[u][k] = calls[u][k]
      BY <1>5, <2>3
    <3>2. ~ (Holds(calls[u][k], d) /\ Holds(calls[t][n], d) /\ d = p)
      <4>1. n \in 1 .. Len(calls[t])
        BY <1>3 DEF n
      <4> QED
        BY <1>1, <2>3, <4>1 DEF InOneHand
    <3> QED
      BY <1>3, <1>9, <3>1, <3>2
  <2> QED
    BY <2>2, <2>3
<1>11. \A d : Held(d)' <=> Held(d) /\ d # p
  <2>1. ASSUME NEW d, Held(d)'
        PROVE  Held(d) /\ d # p
    <3>1. PICK u \in Threads : \E k \in 1 .. Len(calls'[u]) : Holds(calls'[u][k], d)
      BY <2>1 DEF Held
    <3>2. PICK k \in 1 .. Len(calls[u]) : Holds(calls'[u][k], d)
      BY <1>5, <3>1
    <3> QED
      BY <1>10, <3>2 DEF Held
  <2>2. ASSUME NEW d, Held(d), d # p
        PROVE  Held(d)'
    <3>1. PICK u \in Threads : \E k \in 1 .. Len(calls[u]) : Holds(calls[u][k], d)
      BY <2>2 DEF Held
    <3>2. PICK k \in 1 .. Len(calls[u]) : Holds(calls[u][k], d)
      BY <3>1
    <3>3. k \in 1 .. Len(calls'[u]) /\ Holds(calls'[u][k], d)
      BY <1>5, <1>10, <2>2, <3>2
    <3> QED
      BY <3>3 DEF Held
  <2> QED
    BY <2>1, <2>2
<1>12. Held(p)
  <2>1. n \in 1 .. Len(calls[t]) /\ Holds(calls[t][n], p)
    BY <1>3, <1>9 DEF n
  <2> QED
    BY <2>1 DEF Held
<1>13. InOneHand'
  <2>1. \A d : Held(d)' => d \in owed'
    BY <1>1, <1>2, <1>11 DEF InOneHand
  <2>2. ASSUME NEW v \in Threads, NEW u \in Threads,
               NEW k \in 1 .. Len(calls'[v]), NEW l \in 1 .. Len(calls'[u]),
               NEW d, Holds(calls'[v][k], d), Holds(calls'[u][l], d)
        PROVE  v = u /\ k = l
    <3>1. k \in 1 .. Len(calls[v]) /\ l \in 1 .. Len(calls[u])
      BY <1>5
    <3>2. Holds(calls[v][k], d) /\ Holds(calls[u][l], d)
      BY <1>10, <2>2, <3>1
    <3> QED
      BY <1>1, <3>1, <3>2 DEF InOneHand
  <2> QED
    BY <2>1, <2>2 DEF InOneHand
<1>14. Delivered'
  <2>1. \A d : Copies(d) = IF d \in owed /\ ~ Held(d) THEN 1 ELSE 0
    BY <1>1 DEF Delivered
  <2>2. \A d : Copies(d) \in Nat
    BY <2>1
  <2>3. \A d : Copies(d)' = Copies(d) + IF d = p THEN 1 ELSE 0
    BY <1>2, <2>2, OneMore
  <2>4. p \in owed
    BY <1>1, <1>12 DEF InOneHand
  <2>5. SUFFICES ASSUME NEW d
                 PROVE  Copies(d)' = IF d \in owed /\ ~ Held(d)' THEN 1 ELSE 0
    BY <1>2 DEF Delivered
  <2>6. CASE d = p
    <3>1. Copies(d) = 0 /\ Copies(d)' = Copies(d) + 1
      BY <1>12, <2>1, <2>3, <2>6
    <3>2. ~ Held(d)'
      BY <1>11, <2>6
    <3> QED
      BY <2>4, <2>6, <3>1, <3>2
  <2>7. CASE d # p
    <3>1. Copies(d)' = Copies(d) + 0 /\ Copies(d) \in Nat
      BY <2>2, <2>3, <2>7
    <3>2. Copies(d)' = Copies(d)
      BY <3>1
    <3>3. Held(d)' <=> Held(d)
      BY <1>11, <2>7
    <3> QED
      BY <2>1, <3>2, <3>3
  <2> QED
    BY <2>6, <2>7
<1>15. CallsInOrder'
  <2>1. SUFFICES ASSUME NEW u \in Threads, NEW k \in 1 .. Len(calls'[u])
                 PROVE  /\ CallInOrder(calls'[u][k])
                        /\ \A q, r \in 1 .. Len(calls'[u][k].todo) :
                             Pair(calls'[u][k].todo[q]) = Pair(calls'[u][k].todo[r]) => q = r
    BY DEF CallsInOrder
  <2>2. k \in 1 .. Len(calls[u])
    BY <1>5
  <2>3. CallInOrder(c)
    BY <1>4, <1>6 DEF CallInOrder
  <2>4. ASSUME NEW q \in 1 .. Len(c.todo), NEW r \in 1 .. Len(c.todo),
               Pair(c.todo[q]) = Pair(c.todo[r])
        PROVE  q = r
    <3>1. q + 1 \in 1 .. Len(top.todo) /\ r + 1 \in 1 .. Len(top.todo)
      BY <1>4
    <3>2. q + 1 = r + 1
      BY <1>4, <1>6, <2>4, <3>1
    <3> QED
      BY <3>2
  <2>5. CASE calls'[u][k] = c
    BY <2>3, <2>4, <2>5
  <2>6. CASE calls'[u][k] = calls[u][k]
    BY <1>1, <2>2, <2>6 DEF CallsInOrder
  <2> QED
    BY <1>5, <2>2, <2>5, <2>6
<1>16. BusTypes' /\ Numbered' /\ OwedBefore'
  BY <1>1, <1>2, <1>5 DEF BusTypes, Numbered, OwedBefore
<1> QED
  BY <1>13, <1>14, <1>15, <1>16 DEF BusInv

(* publish or dispatch_pending returns when it has nothing left to deliver. *)
LEMMA ReturnKeeps ==
    ASSUME BusInv, NEW t \in Threads, Return(t)
    PROVE  BusInv'
<1>1. BusTypes /\ Numbered /\ OwedBefore /\ InOneHand /\ Delivered /\ CallsInOrder
  BY DEF BusInv
<1>2. /\ calls[t] # <<>> /\ Last(calls[t]).todo = <<>>
      /\ calls' = [calls EXCEPT ![t] = Front(@)]
      /\ UNCHANGED <<subs, pending, nextToken, events, owed, got>>
  BY DEF Return
<1>3. /\ calls' \in [Threads -> Seq(Call)]
      /\ \A u \in Threads : \A k \in 1 .. Len(calls'[u]) :
           k \in 1 .. Len(calls[u]) /\ calls'[u][k] = calls[u][k]
      /\ \A u \in Threads : \A k \in 1 .. Len(calls[u]) :
           \/ k \in 1 .. Len(calls'[u]) /\ calls'[u][k] = calls[u][k]
           \/ u = t /\ k = Len(calls[t])
  BY <1>1, <1>2, Popped
<1>4. \A d : ~ Holds(calls[t][Len(calls[t])], d)
  <2>1. calls[t][Len(calls[t])].todo = <<>>
    BY <1>1, <1>2, Stack
  <2> QED
    BY <2>1 DEF Holds
<1>5. \A d : Held(d)' <=> Held(d)
  <2>1. ASSUME NEW d, Held(d)'
        PROVE  Held(d)
    <3>1. PICK u \in Threads : \E k \in 1 .. Len(calls'[u]) : Holds(calls'[u][k], d)
      BY <2>1 DEF Held
    <3>2. PICK k \in 1 .. Len(calls'[u]) : Holds(calls'[u][k], d)
      BY <3>1
    <3> QED
      BY <1>3, <3>2 DEF Held
  <2>2. ASSUME NEW d, Held(d)
        PROVE  Held(d)'
    <3>1. PICK u \in Threads : \E k \in 1 .. Len(calls[u]) : Holds(calls[u][k], d)
      BY <2>2 DEF Held
    <3>2. PICK k \in 1 .. Len(calls[u]) : Holds(calls[u][k], d)
      BY <3>1
    <3>3. k \in 1 .. Len(calls'[u]) /\ Holds(calls'[u][k], d)
      BY <1>3, <1>4, <3>2
    <3> QED
      BY <3>3 DEF Held
  <2> QED
    BY <2>1, <2>2
<1>6. InOneHand'
  <2>1. \A d : Held(d)' => d \in owed'
    BY <1>1, <1>2, <1>5 DEF InOneHand
  <2>2. ASSUME NEW v \in Threads, NEW u \in Threads,
               NEW k \in 1 .. Len(calls'[v]), NEW l \in 1 .. Len(calls'[u]),
               NEW d, Holds(calls'[v][k], d), Holds(calls'[u][l], d)
        PROVE  v = u /\ k = l
    <3>1. /\ k \in 1 .. Len(calls[v]) /\ Holds(calls[v][k], d)
          /\ l \in 1 .. Len(calls[u]) /\ Holds(calls[u][l], d)
      BY <1>3, <2>2
    <3> QED
      BY <1>1, <3>1 DEF InOneHand
  <2> QED
    BY <2>1, <2>2 DEF InOneHand
<1>7. Delivered'
  <2>1. \A d : Copies(d)' = Copies(d)
    BY <1>2 DEF Copies
  <2>2. \A d : Copies(d) = IF d \in owed /\ ~ Held(d) THEN 1 ELSE 0
    BY <1>1 DEF Delivered
  <2>3. SUFFICES ASSUME NEW d
                 PROVE  Copies(d)' = IF d \in owed /\ ~ Held(d)' THEN 1 ELSE 0
    BY <1>2 DEF Delivered
  <2> QED
    BY <1>5, <2>1, <2>2
<1>8. CallsInOrder'
  BY <1>1, <1>3 DEF CallsInOrder
<1>9. BusTypes' /\ Numbered' /\ OwedBefore'
  BY <1>1, <1>2, <1>3 DEF BusTypes, Numbered, OwedBefore
<1> QED
  BY <1>6, <1>7, <1>8, <1>9 DEF BusInv

(* A queue or a list of handlers with one element more ...                 *)
LEMMA Joined ==
    ASSUME NEW s \in Seq(Handed), NEW x \in Handed, NEW s1, s1 = Append(s, x)
    PROVE  s1 \in Seq(Handed) /\ Range(s1) = Range(s) \cup {x}
<1>1. /\ s1 \in Seq(Handed) /\ Len(s1) = Len(s) + 1 /\ Len(s) \in Nat
      /\ \A i \in 1 .. Len(s) : s1[i] = s[i]
      /\ s1[Len(s) + 1] = x
  BY AppendProperties, LenProperties
<1>2. /\ Range(s) = {s[i] : i \in 1 .. Len(s)}
      /\ Range(s1) = {s1[i] : i \in 1 .. Len(s1)}
  <2>1. \A u \in Seq(Handed) : Range(u) = {u[i] : i \in 1 .. Len(u)}
    BY RangeEquality
  <2> QED
    BY <1>1, <2>1, Zenon
<1>3. ASSUME NEW y \in Range(s1)
      PROVE  y \in Range(s) \cup {x}
  <2>1. PICK i \in 1 .. Len(s1) : y = s1[i]
    BY <1>2
  <2>2. i \in 1 .. Len(s) \/ i = Len(s) + 1
    BY <1>1
  <2> QED
    BY <1>1, <1>2, <2>1, <2>2
<1>4. ASSUME NEW y \in Range(s)
      PROVE  y \in Range(s1)
  <2>1. PICK i \in 1 .. Len(s) : y = s[i]
    BY <1>2
  <2>2. i \in 1 .. Len(s1) /\ y = s1[i]
    BY <1>1, <2>1
  <2> QED
    BY <1>2, <2>2
<1>5. x \in Range(s1)
  <2>1. Len(s) + 1 \in 1 .. Len(s1)
    BY <1>1
  <2> QED
    BY <1>1, <1>2, <2>1
<1> QED
  BY <1>1, <1>3, <1>4, <1>5

(* ... and with one less.                                                  *)
LEMMA Removed ==
    ASSUME NEW s \in Seq(Handed), NEW i \in DOMAIN s, NEW s1, s1 = RemoveAt(s, i)
    PROVE  s1 \in Seq(Handed) /\ Range(s1) \subseteq Range(s)
<1>1. s \in Seq(Range(s)) /\ Range(s) \in SUBSET Handed
  BY SeqOfRange, RangeOfSeq
<1>2. /\ Len(s) \in Nat /\ i \in 1 .. Len(s)
      /\ \A k \in 1 .. Len(s) : s[k] \in Range(s)
  BY <1>1, LenProperties, ElementOfSeq
<1> DEFINE R == Range(s)
           a == SubSeq(s, 1, i - 1)
           b == SubSeq(s, i + 1, Len(s))
<1> HIDE DEF R
<1>3. a \in Seq(R)
  <2>1. 1 \in Int /\ i - 1 \in Int /\ \A k \in 1 .. i - 1 : s[k] \in R
    BY <1>2 DEF R
  <2> QED
    BY <2>1, SubSeqProperties
<1>4. b \in Seq(R)
  <2>1. i + 1 \in Int /\ Len(s) \in Int /\ \A k \in i + 1 .. Len(s) : s[k] \in R
    BY <1>2 DEF R
  <2> QED
    BY <2>1, SubSeqProperties
<1>5. s1 = a \o b
  BY DEF RemoveAt
<1> HIDE DEF a, b
<1>6. s1 \in Seq(R)
  BY <1>3, <1>4, <1>5, ConcatProperties
<1>7. s1 \in Seq(Handed) /\ Range(s1) \in SUBSET R
  BY <1>1, <1>6, SeqMonotonic, RangeOfSeq DEF R
<1> QED
  BY <1>7 DEF R

LEMMA NoneLeft == <<>> \in Seq(Handed) /\ Range(<<>>) = {}
<1>1. <<>> \in Seq(Handed) /\ Len(<<>>) = 0
  BY EmptySeq
<1>2. Range(<<>>) = {<<>>[i] : i \in 1 .. Len(<<>>)}
  BY <1>1, RangeEquality
<1> QED
  BY <1>1, <1>2

LEMMA SubscribeKeeps ==
    ASSUME BusInv, NEW t \in Threads, NEW prio \in Priorities, Subscribe(t, prio)
    PROVE  BusInv'
<1> DEFINE x == [seq |-> nextToken, prio |-> prio]
<1>1. BusTypes /\ Numbered /\ OwedBefore /\ InOneHand /\ Delivered /\ CallsInOrder
  BY DEF BusInv
<1>2. /\ subs' = Append(subs, x) /\ nextToken' = nextToken + 1
      /\ UNCHANGED <<pending, events, calls, owed, got>>
  BY DEF Subscribe
<1>3. x \in Handed /\ x.seq = nextToken /\ nextToken \in Nat \ {0}
  BY <1>1, EventBusAssumption DEF BusTypes, Handed
<1> HIDE DEF x
<1>4. subs' \in Seq(Handed) /\ Range(subs') = Range(subs) \cup {x}
  BY <1>1, <1>2, <1>3, Joined DEF BusTypes
<1>5. \A y \in Range(subs) : y.seq \in Nat /\ y.seq < nextToken
  <2>1. Range(subs) \in SUBSET Handed
    BY <1>1, RangeOfSeq DEF BusTypes
  <2> QED
    BY <1>1, <2>1 DEF Handed, Numbered
<1>6. ToldApart(Range(subs'))
  <2>1. \A y \in Range(subs) : y.seq # x.seq
    BY <1>3, <1>5
  <2> QED
    BY <1>1, <1>4, <2>1 DEF ToldApart, Numbered
<1>7. \A y \in Range(subs') : y.seq < nextToken'
  BY <1>2, <1>3, <1>4, <1>5
<1>8. BusTypes' /\ Numbered' /\ OwedBefore'
  BY <1>1, <1>2, <1>3, <1>4, <1>6, <1>7 DEF BusTypes, Numbered, OwedBefore
<1> QED
  BY <1>1, <1>2, <1>8, QuietStep DEF BusInv

LEMMA UnsubscribeKeeps ==
    ASSUME BusInv, NEW t \in Threads, NEW token, Unsubscribe(t, token)
    PROVE  BusInv'
<1>1. BusTypes /\ Numbered /\ OwedBefore /\ InOneHand /\ Delivered /\ CallsInOrder
  BY DEF BusInv
<1>2. UNCHANGED <<pending, nextToken, events, calls, owed, got>>
  BY DEF Unsubscribe
<1>3. PICK i \in DOMAIN subs : subs' = RemoveAt(subs, i)
  BY DEF Unsubscribe
<1>4. subs' \in Seq(Handed) /\ Range(subs') \subseteq Range(subs)
  BY <1>1, <1>3, Removed DEF BusTypes
<1>5. BusTypes' /\ Numbered' /\ OwedBefore'
  BY <1>1, <1>2, <1>4 DEF BusTypes, Numbered, OwedBefore, ToldApart
<1> QED
  BY <1>1, <1>2, <1>5, QuietStep DEF BusInv

LEMMA EnqueueKeeps ==
    ASSUME BusInv, NEW t \in Threads, NEW prio \in Priorities, Enqueue(t, prio)
    PROVE  BusInv'
<1> DEFINE x == [seq |-> events + 1, prio |-> prio]
<1>1. BusTypes /\ Numbered /\ OwedBefore /\ InOneHand /\ Delivered /\ CallsInOrder
  BY DEF BusInv
<1>2. /\ pending' = Append(pending, x) /\ events' = events + 1
      /\ UNCHANGED <<subs, nextToken, calls, owed, got>>
  BY DEF Enqueue
<1>3. x \in Handed /\ x.seq = events + 1 /\ events \in Nat
  BY <1>1, EventBusAssumption DEF BusTypes, Handed
<1> HIDE DEF x
<1>4. pending' \in Seq(Handed) /\ Range(pending') = Range(pending) \cup {x}
  BY <1>1, <1>2, <1>3, Joined DEF BusTypes
<1>5. \A y \in Range(pending) : y.seq \in Nat /\ y.seq <= events
  <2>1. Range(pending) \in SUBSET Handed
    BY <1>1, RangeOfSeq DEF BusTypes
  <2> QED
    BY <1>1, <2>1 DEF Handed, Numbered
<1>6. ToldApart(Range(pending'))
  <2>1. \A y \in Range(pending) : y.seq # x.seq
    BY <1>3, <1>5
  <2> QED
    BY <1>1, <1>4, <2>1 DEF ToldApart, Numbered
<1>7. \A y \in Range(pending') : y.seq <= events'
  BY <1>2, <1>3, <1>4, <1>5
<1>8. BusTypes' /\ Numbered'
  BY <1>1, <1>2, <1>3, <1>4, <1>6, <1>7 DEF BusTypes, Numbered
<1>9. OwedBefore'
  <2>1. \A d \in owed : d[1] \in Nat /\ d[1] <= events
    BY <1>1 DEF BusTypes, OwedBefore
  <2>2. \A d \in owed : d[1] <= events' /\ x.seq # d[1]
    BY <1>2, <1>3, <2>1
  <2> QED
    BY <1>1, <1>2, <1>4, <2>2 DEF OwedBefore
<1> QED
  BY <1>1, <1>2, <1>8, <1>9, QuietStep DEF BusInv

LEMMA ClearKeeps ==
    ASSUME BusInv, NEW t \in Threads, Clear(t)
    PROVE  BusInv'
<1>1. BusTypes /\ Numbered /\ OwedBefore /\ InOneHand /\ Delivered /\ CallsInOrder
  BY DEF BusInv
<1>2. subs' = <<>> /\ pending' = <<>> /\ UNCHANGED <<nextToken, events, calls, owed, got>>
  BY DEF Clear
<1>3. /\ subs' \in Seq(Handed) /\ pending' \in Seq(Handed)
      /\ Range(subs') = {} /\ Range(pending') = {}
  BY <1>2, NoneLeft
<1>4. BusTypes' /\ Numbered' /\ OwedBefore'
  BY <1>1, <1>2, <1>3 DEF BusTypes, Numbered, OwedBefore, ToldApart
<1> QED
  BY <1>1, <1>2, <1>4, QuietStep DEF BusInv

LEMMA PublishKeeps ==
    ASSUME BusInv, NEW t \in Threads, PublishEvent(t)
    PROVE  BusInv'
<1> DEFINE x == [seq |-> events + 1, prio |-> 0]
           batch == <<x>>
<1>1. BusTypes /\ Numbered /\ OwedBefore
  BY DEF BusInv
<1>2. /\ events' = events + 1 /\ Begin(t, batch)
      /\ UNCHANGED <<subs, pending, nextToken, got>>
  BY DEF PublishEvent
<1>3. x \in Handed /\ x.seq = events + 1 /\ events \in Nat
  BY <1>1 DEF BusTypes, Handed
<1> HIDE DEF x
<1>4. /\ batch \in Seq(Handed) /\ Len(batch) = 1 /\ batch[1] = x
      /\ Range(batch) = {x}
  <2>1. batch \in Seq(Handed) /\ Len(batch) = 1 /\ batch[1] = x
    BY <1>3
  <2>2. Range(batch) = {batch[i] : i \in 1 .. Len(batch)}
    BY <2>1, RangeEquality
  <2> QED
    BY <2>1, <2>2
<1> HIDE DEF batch
<1>5. \A b \in Range(batch) : /\ b.seq <= events'
                              /\ \A d \in owed : d[1] # b.seq
                              /\ \A y \in Range(pending') : y.seq # b.seq
  <2>1. \A d \in owed : d[1] \in Nat /\ d[1] <= events
    BY <1>1 DEF BusTypes, OwedBefore
  <2>2. Range(pending) \in SUBSET Handed
    BY <1>1, RangeOfSeq DEF BusTypes
  <2>3. \A y \in Range(pending) : y.seq \in Nat /\ y.seq <= events
    BY <1>1, <2>2 DEF Handed, Numbered
  <2> QED
    BY <1>2, <1>3, <1>4, <2>1, <2>3
<1>6. ToldApart(Range(batch)) /\ \A i, j \in 1 .. Len(batch) : i < j => Before(batch[i], batch[j])
  BY <1>4 DEF ToldApart
<1>7. got' = got /\ events' \in Nat /\ events <= events' /\ Range(pending') \subseteq Range(pending)
  BY <1>2, <1>3
<1>8. /\ calls' \in [Threads -> Seq(Call)] /\ owed' \subseteq Nat \X Nat
      /\ OwedBefore' /\ InOneHand' /\ Delivered' /\ CallsInOrder'
  BY <1>2, <1>4, <1>5, <1>6, <1>7, BeginKeeps
<1>9. Numbered'
  <2>1. Range(pending) \in SUBSET Handed
    BY <1>1, RangeOfSeq DEF BusTypes
  <2>2. \A y \in Range(pending) : y.seq <= events'
    BY <1>1, <1>2, <1>3, <2>1 DEF Handed, Numbered
  <2> QED
    BY <1>1, <1>2, <2>2 DEF Numbered
<1>10. BusTypes'
  BY <1>1, <1>2, <1>7, <1>8 DEF BusTypes
<1> QED
  BY <1>8, <1>9, <1>10 DEF BusInv

LEMMA DispatchKeeps ==
    ASSUME BusInv, NEW t \in Threads, DispatchPending(t)
    PROVE  BusInv'
<1> DEFINE batch == Ordered(pending)
<1>1. BusTypes /\ Numbered /\ OwedBefore
  BY DEF BusInv
<1>2. /\ Begin(t, batch) /\ pending' = <<>>
      /\ UNCHANGED <<subs, nextToken, events, got>>
  BY DEF DispatchPending
<1>3. pending \in Seq(Handed) /\ ToldApart(Range(pending)) /\ events \in Nat
  BY <1>1 DEF BusTypes, Numbered
<1>4. /\ batch \in Seq(Handed) /\ Range(batch) = Range(pending)
      /\ \A i, j \in 1 .. Len(batch) : i < j => Before(batch[i], batch[j])
  BY <1>3, OrderedIs
<1> HIDE DEF batch
<1>5. pending' \in Seq(Handed) /\ Range(pending') = {}
  BY <1>2, NoneLeft
<1>6. \A b \in Range(batch) : /\ b.seq <= events'
                              /\ \A d \in owed : d[1] # b.seq
                              /\ \A y \in Range(pending') : y.seq # b.seq
  BY <1>1, <1>2, <1>4, <1>5 DEF Numbered, OwedBefore
<1>7. got' = got /\ events' \in Nat /\ events <= events' /\ Range(pending') \subseteq Range(pending)
  BY <1>2, <1>3, <1>5
<1>8. /\ calls' \in [Threads -> Seq(Call)] /\ owed' \subseteq Nat \X Nat
      /\ OwedBefore' /\ InOneHand' /\ Delivered' /\ CallsInOrder'
  <2>1. ToldApart(Range(batch))
    BY <1>3, <1>4
  <2> QED
    BY <1>2, <1>4, <1>6, <1>7, <2>1, BeginKeeps
<1>9. Numbered'
  BY <1>1, <1>2, <1>5 DEF Numbered, ToldApart
<1>10. BusTypes'
  BY <1>1, <1>2, <1>5, <1>8 DEF BusTypes
<1> QED
  BY <1>8, <1>9, <1>10 DEF BusInv

LEMMA BusStarts ==
    ASSUME BusInit
    PROVE  BusInv
<1>1. /\ subs = <<>> /\ pending = <<>> /\ nextToken = 1 /\ events = 0
      /\ calls = [t \in Threads |-> <<>>]
      /\ owed = {} /\ got = EmptyBag
  BY DEF BusInit
<1>2. /\ subs \in Seq(Handed) /\ pending \in Seq(Handed)
      /\ Range(subs) = {} /\ Range(pending) = {}
  BY <1>1, NoneLeft
<1>3. /\ calls \in [Threads -> Seq(Call)]
      /\ \A t \in Threads : Len(calls[t]) = 0 /\ 1 .. Len(calls[t]) = {}
  BY <1>1, EmptySeq
<1>4. \A d : ~ Held(d)
  BY <1>3 DEF Held
<1>5. \A d : Copies(d) = 0
  BY <1>1 DEF Copies, BagIn, BagToSet, EmptyBag, SetToBag
<1>6. BusTypes /\ Numbered /\ OwedBefore
  BY <1>1, <1>2, <1>3 DEF BusTypes, Numbered, OwedBefore, ToldApart
<1>7. InOneHand
  BY <1>3, <1>4 DEF InOneHand
<1>8. Delivered
  BY <1>1, <1>5 DEF Delivered
<1>9. CallsInOrder
  BY <1>3 DEF CallsInOrder
<1> QED
  BY <1>6, <1>7, <1>8, <1>9 DEF BusInv

LEMMA BusStep ==
    ASSUME BusInv, [BusNext]_busVars
    PROVE  BusInv'
<1>1. CASE UNCHANGED busVars
  BY <1>1, QuietStep DEF BusInv, busVars, BusTypes, Numbered, OwedBefore
<1>2. CASE BusNext
  <2>1. PICK t \in Threads :
          \/ PublishEvent(t) \/ DispatchPending(t) \/ Clear(t) \/ CallNext(t) \/ Return(t)
          \/ \E prio \in Priorities : Subscribe(t, prio) \/ Enqueue(t, prio)
          \/ \E token \in 1 .. MaxTokens : Unsubscribe(t, token)
    BY <1>2 DEF BusNext
  <2>2. CASE PublishEvent(t)
    BY <2>2, PublishKeeps
  <2>3. CASE DispatchPending(t)
    BY <2>3, DispatchKeeps
  <2>4. CASE Clear(t)
    BY <2>4, ClearKeeps
  <2>5. CASE CallNext(t)
    BY <2>5, CallNextKeeps
  <2>6. CASE Return(t)
    BY <2>6, ReturnKeeps
  <2>7. CASE \E prio \in Priorities : Subscribe(t, prio) \/ Enqueue(t, prio)
    <3>1. PICK prio \in Priorities : Subscribe(t, prio) \/ Enqueue(t, prio)
      BY <2>7
    <3> QED
      BY <3>1, SubscribeKeeps, EnqueueKeeps
  <2>8. CASE \E token \in 1 .. MaxTokens : Unsubscribe(t, token)
    <3>1. PICK token : Unsubscribe(t, token)
      BY <2>8
    <3> QED
      BY <3>1, UnsubscribeKeeps
  <2> QED
    BY <2>1, <2>2, <2>3, <2>4, <2>5, <2>6, <2>7, <2>8
<1> QED
  BY <1>1, <1>2

LEMMA BusInvariant == BusSpec => []BusInv
<1>1. BusInit => BusInv
  BY BusStarts
<1>2. BusInv /\ [BusNext]_busVars => BusInv'
  BY BusStep
<1> QED
  BY <1>1, <1>2, PTL DEF BusSpec

(* Every event reaches each handler that was subscribed when its delivery  *)
(* began exactly once, and no other, whatever the handlers do with the bus *)
(* and whatever the other threads do meanwhile.                            *)
THEOREM BusOnceToEachSubscriber == BusSpec => []OnceToEachSubscriber
<1>1. ASSUME BusInv
      PROVE  OnceToEachSubscriber
  <2>1. BusTypes /\ Delivered
    BY <1>1 DEF BusInv
  <2>2. SUFFICES ASSUME NEW event \in 1 .. MaxEvents, NEW token \in 1 .. MaxTokens
                 PROVE  Deliveries(event, token) =
                          IF <<event, token>> \in owed /\ ~ InHand(event, token) THEN 1 ELSE 0
    BY DEF OnceToEachSubscriber
  <2> DEFINE d == <<event, token>>
  <2>3. Deliveries(event, token) = Copies(d)
    BY DEF Deliveries, Copies
  <2>4. Copies(d) = IF d \in owed /\ ~ Held(d) THEN 1 ELSE 0
    BY <2>1 DEF Delivered
  <2>5. \A u \in Threads : \A k \in 1 .. Len(calls[u]) :
          Holds(calls[u][k], d) <=>
            \E e \in Range(calls[u][k].todo) : e[1].seq = event /\ e[2].seq = token
    <3>1. SUFFICES ASSUME NEW u \in Threads, NEW k \in 1 .. Len(calls[u])
                   PROVE  Holds(calls[u][k], d) <=>
                            \E e \in Range(calls[u][k].todo) : e[1].seq = event /\ e[2].seq = token
      OBVIOUS
    <3>2. calls[u][k] \in Call
      BY <2>1, ElementOfSeq DEF BusTypes
    <3>3. calls[u][k].todo \in Seq(Delivery)
      BY <3>2 DEF Call
    <3>4. Range(calls[u][k].todo) = {calls[u][k].todo[q] : q \in 1 .. Len(calls[u][k].todo)}
      BY <3>3, RangeEquality
    <3>5. \A e : Pair(e) = d <=> e[1].seq = event /\ e[2].seq = token
      BY DEF Pair
    <3> QED
      BY <3>4, <3>5 DEF Holds
  <2>6. \A u \in Threads : Range(calls[u]) = {calls[u][k] : k \in 1 .. Len(calls[u])}
    BY <2>1, RangeEquality DEF BusTypes
  <2>7. InHand(event, token) <=> Held(d)
    <3>1. InHand(event, token) <=>
            \E u \in Threads : \E call \in Range(calls[u]) :
              \E e \in Range(call.todo) : e[1].seq = event /\ e[2].seq = token
      BY DEF InHand, UnderWay
    <3> DEFINE Q(call) == \E e \in Range(call.todo) : e[1].seq = event /\ e[2].seq = token
    <3>2. \A u \in Threads : \A k \in 1 .. Len(calls[u]) : Holds(calls[u][k], d) <=> Q(calls[u][k])
      BY <2>5
    <3>3. InHand(event, token) <=> \E u \in Threads : \E call \in Range(calls[u]) : Q(call)
      BY <3>1
    <3> HIDE DEF Q, d
    <3>4. \A u \in Threads :
            (\E call \in Range(calls[u]) : Q(call)) <=> \E k \in 1 .. Len(calls[u]) : Q(calls[u][k])
      BY <2>6, ZenonT(60)
    <3> QED
      BY <3>2, <3>3, <3>4, ZenonT(60) DEF Held
  <2> QED
    BY <2>3, <2>4, <2>7
<1> QED
  BY <1>1, BusInvariant, PTL

(* What a call has delivered it has delivered by priority and then in the  *)
(* order of arrival, and nothing that came after it began.                 *)
THEOREM BusOrderedAndBounded == BusSpec => []OrderedAndBounded
<1>1. ASSUME BusInv
      PROVE  OrderedAndBounded
  <2>1. BusTypes /\ CallsInOrder
    BY <1>1 DEF BusInv
  <2>2. SUFFICES ASSUME NEW call \in UnderWay
                 PROVE  /\ \A i, j \in DOMAIN call.done :
                             i < j => Precedes(call.done[i], call.done[j])
                        /\ \A d \in Range(call.done) : d[1].seq \in call.known
    BY DEF OrderedAndBounded
  <2>3. PICK u \in Threads : call \in Range(calls[u])
    BY DEF UnderWay
  <2>4. calls[u] \in Seq(Call)
    BY <2>1 DEF BusTypes
  <2>5. PICK k \in 1 .. Len(calls[u]) : call = calls[u][k]
    BY <2>3, <2>4, RangeEquality
  <2>6. call \in Call /\ CallInOrder(call)
    BY <2>1, <2>4, <2>5, ElementOfSeq DEF CallsInOrder
  <2> DEFINE s == call.done
             r == call.todo
             all == s \o r
  <2>7. s \in Seq(Delivery) /\ r \in Seq(Delivery)
    BY <2>6 DEF Call
  <2>8. /\ \A i, j \in 1 .. Len(all) : i < j => Precedes(all[i], all[j])
        /\ \A i \in 1 .. Len(all) : all[i][1].seq \in call.known
    BY <2>6 DEF CallInOrder
  <2> HIDE DEF s, r
  <2>9. \A i \in 1 .. Len(s) : i \in 1 .. Len(all) /\ all[i] = s[i]
    <3>1. /\ Len(s) \in Nat /\ Len(r) \in Nat /\ Len(all) = Len(s) + Len(r)
          /\ \A i \in 1 .. Len(s) + Len(r) : all[i] = IF i <= Len(s) THEN s[i] ELSE r[i - Len(s)]
      BY <2>7, ConcatProperties, LenProperties
    <3> QED
      BY <3>1
  <2>10. DOMAIN s = 1 .. Len(s) /\ Range(s) = {s[i] : i \in 1 .. Len(s)}
    BY <2>7, LenProperties, RangeEquality
  <2>11. \A i, j \in DOMAIN s : i < j => Precedes(s[i], s[j])
    BY <2>8, <2>9, <2>10
  <2>12. \A d \in Range(s) : d[1].seq \in call.known
    BY <2>8, <2>9, <2>10
  <2> QED
    BY <2>11, <2>12 DEF s
<1> QED
  BY <1>1, BusInvariant, PTL

=============================================================================
