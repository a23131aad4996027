----------------------------- MODULE MainProofs -----------------------------
(***************************************************************************)
(* What main does before and after its threads: the ring it constructs     *)
(* from files and command line, and the report of a headless run.  The two *)
(* specifications share no variable; each theorem is about one of them.    *)
(*                                                                         *)
(* The report is complete, for every capacity of the ring, every number of *)
(* ops and of refused pushes.  AllRecorded holds because main reads        *)
(* producer_done before the size of the ring (DrainProgress): after the    *)
(* flag no event can arrive, and the acquire load shows main all that      *)
(* have.  LastAttentionReported holds although main never asks whether the *)
(* sink is empty: as long as a matrix is pending, the ring has accepted an *)
(* event after the last pop main had made when it last took a matrix, or   *)
(* is about to (PendingMeansEvent).  The ring cannot refuse the event that *)
(* follows the matrix into an empty ring, because the sink's mutex has     *)
(* shown the producer those pops.                                          *)
(*                                                                         *)
(* The ring has a usable capacity for words of any width, because its      *)
(* constructor has doubled 1 so often that every smaller power was too     *)
(* small (SizingInv); and the capacity asked for is the command line's,    *)
(* else the file's, for any words and any number of them, because          *)
(* apply_cli is never at the value of an option (AtOption) and what it has *)
(* taken so far is the last capacity given so far (CapacityTaken).         *)
(***************************************************************************)
EXTENDS HeadlessRun, Startup, SequenceLemmas

(* The events popped and those in the ring are the events accepted.        *)
InOrder == accepted = recorded \o queue

(* The op the producer still has in hand.                                  *)
InHand == IF ppc \in {"publish", "push"} THEN 1 ELSE 0

(* Every op is accepted, dropped for good, or in hand.                     *)
OpsTally ==
    op = Len(accepted) + (IF mode = "live" THEN dropped ELSE 0) + InHand

(* What main knows at each step of the end of its loop.                    *)
DrainProgress ==
    /\ done = (ppc = "exited")
    /\ cpc \in {"size", "join", "report"} => done
    /\ cpc = "size" => visible = Len(queue)
    /\ cpc \in {"join", "report"} => queue = <<>>

(* A matrix is lost only to a later one.                                   *)
SinkKept == published = (IF sink = None THEN attention ELSE sink)

(* The pops at the last take are all pops, except while main drains.       *)
TakeFollowsPops ==
    cpc \notin {"drain", "attention"} => popsAtTake = Len(recorded)

(* A pending matrix is announced by an event that main has yet to pop, or  *)
(* has popped since its last take, or that the ring will not refuse.       *)
PendingMeansEvent ==
    sink # None => \/ popsAtTake < Len(accepted)
                   \/ ppc = "push" /\ credit = Cap

HeadlessInv ==
    /\ TypeOK
    /\ InOrder
    /\ OpsTally
    /\ DrainProgress
    /\ SinkKept
    /\ TakeFollowsPops
    /\ PendingMeansEvent
-----------------------------------------------------------------------------
(* What the bounds and the types give.                                     *)
LEMMA Bounds ==
    /\ Cap \in Nat \ {0}
    /\ MaxOps \in Nat /\ MaxRefusals \in Nat
    /\ Item = 1 .. MaxOps
BY CapAssumption, HeadlessAssumption

(* The ring and the record hold whole numbers of events, and together what *)
(* was accepted.                                                           *)
LEMMA Lengths ==
    ASSUME TypeOK, InOrder
    PROVE  /\ Len(queue) \in Nat /\ Len(recorded) \in Nat /\ Len(accepted) \in Nat
           /\ Len(accepted) = Len(recorded) + Len(queue)
           /\ credit \in Nat /\ visible \in Nat /\ dropped \in Nat /\ op \in Nat
           /\ popsAtTake \in Nat /\ popsAtTake <= Len(recorded)
           /\ pushesAtPublish \in Nat /\ pushesAtPublish <= Len(accepted)
<1>1. /\ queue \in Seq(Item) /\ recorded \in Seq(Item) /\ accepted \in Seq(Item)
      /\ credit \in 0 .. (Cap - Len(queue)) /\ visible \in 0 .. Len(queue)
      /\ dropped \in Nat /\ op \in 0 .. MaxOps
      /\ popsAtTake \in 0 .. Len(recorded) /\ pushesAtPublish \in 0 .. Len(accepted)
  BY DEF TypeOK, ChannelTypeOK
<1>2. Len(queue) \in Nat /\ Len(recorded) \in Nat /\ Len(accepted) \in Nat
  BY <1>1, LenProperties
<1>3. Len(recorded \o queue) = Len(recorded) + Len(queue)
  BY <1>1, ConcatProperties
<1>4. QED BY <1>1, <1>2, <1>3, Bounds DEF InOrder

(* Appending to the second of two sequences appends to both.               *)
LEMMA AppendConcat ==
    ASSUME NEW S, NEW s \in Seq(S), NEW t \in Seq(S), NEW e \in S
    PROVE  s \o Append(t, e) = Append(s \o t, e)
<1>1. Append(t, e) = t \o <<e>> /\ Append(s \o t, e) = (s \o t) \o <<e>>
  BY AppendIsConcat, ConcatProperties
<1>2. <<e>> \in Seq(S)
  OBVIOUS
<1>3. QED BY <1>1, <1>2, ConcatAssociative

(* Moving the head of the second to the end of the first keeps their sum.  *)
LEMMA MoveHead ==
    ASSUME NEW S, NEW s \in Seq(S), NEW t \in Seq(S), t # <<>>
    PROVE  Append(s, Head(t)) \o Tail(t) = s \o t
<1>1. Head(t) \in S /\ Tail(t) \in Seq(S)
  BY HeadTailProperties
<1>2. <<Head(t)>> \in Seq(S) /\ Append(s, Head(t)) = s \o <<Head(t)>>
  BY <1>1, AppendIsConcat
<1>3. t = <<Head(t)>> \o Tail(t)
  <2>1. /\ Len(t) \in Nat \ {0}
        /\ Len(Tail(t)) = Len(t) - 1
        /\ \A i \in 1 .. Len(Tail(t)) : Tail(t)[i] = t[i + 1]
    BY EmptySeq, HeadTailProperties
  <2>2. /\ <<Head(t)>> \o Tail(t) \in Seq(S)
        /\ Len(<<Head(t)>> \o Tail(t)) = 1 + Len(Tail(t))
        /\ \A i \in 1 .. 1 + Len(Tail(t)) :
              (<<Head(t)>> \o Tail(t))[i] = IF i <= 1 THEN <<Head(t)>>[i] ELSE Tail(t)[i - 1]
    <3>1. Len(<<Head(t)>>) = 1
      OBVIOUS
    <3>2. QED BY <1>1, <1>2, <3>1, ConcatProperties
  <2>3. \A i \in 1 .. Len(t) : t[i] = (<<Head(t)>> \o Tail(t))[i]
    <3>1. SUFFICES ASSUME NEW i \in 1 .. Len(t)
                   PROVE  t[i] = (<<Head(t)>> \o Tail(t))[i]
      OBVIOUS
    <3>2. CASE i = 1
      BY <2>1, <2>2, <3>2
    <3>3. CASE i # 1
      <4>1. i - 1 \in 1 .. Len(Tail(t)) /\ (i - 1) + 1 = i /\ i \in 1 .. 1 + Len(Tail(t))
        BY <2>1, <3>3
      <4>2. QED BY <2>1, <2>2, <3>3, <4>1
    <3>4. QED BY <3>2, <3>3
  <2>4. QED BY <2>1, <2>2, <2>3, SeqEqual
<1>4. QED BY <1>1, <1>2, <1>3, ConcatAssociative
-----------------------------------------------------------------------------
(* HeadlessInv holds at the start and is preserved by every step.          *)
LEMMA HeadlessInit == Init => HeadlessInv
<1>1. SUFFICES ASSUME Init PROVE HeadlessInv
  OBVIOUS
<1>2. TypeOK
  <2>1. <<>> \in Seq(Item) /\ Len(<<>>) = 0
    BY EmptySeq
  <2>2. ChannelTypeOK
    BY <1>1, <2>1, Bounds DEF Init, ChannelInit, ChannelTypeOK
  <2>3. {sink, attention, published} \subseteq 0 .. MaxOps /\ op \in 0 .. MaxOps
    BY <1>1, Bounds DEF Init, None
  <2>4. /\ popsAtTake \in 0 .. Len(recorded) /\ recorded \in Seq(Item)
        /\ pushesAtPublish \in 0 .. Len(accepted) /\ accepted \in Seq(Item)
    BY <1>1, <2>1 DEF Init
  <2>5. QED BY <1>1, <2>2, <2>3, <2>4 DEF Init, TypeOK
<1>3. InOrder
  BY <1>1, EmptySeq, ConcatEmptySeq DEF Init, ChannelInit, InOrder
<1>4. OpsTally
  BY <1>1 DEF Init, ChannelInit, OpsTally, InHand
<1>5. DrainProgress
  BY <1>1 DEF Init, DrainProgress
<1>6. SinkKept /\ TakeFollowsPops /\ PendingMeansEvent
  BY <1>1 DEF Init, SinkKept, TakeFollowsPops, PendingMeansEvent
<1>7. QED BY <1>2, <1>3, <1>4, <1>5, <1>6 DEF HeadlessInv

(* The next op of the model, or the next event of the file.                *)
LEMMA NewOpStep ==
    ASSUME HeadlessInv, ppc = "run", op < MaxOps, op' = op + 1,
           ppc' \in {"publish", "push"},
           UNCHANGED <<channel, mode, sink, done, pushesAtPublish, accepted,
                       published, consumerVars>>
    PROVE  HeadlessInv'
<1>1. UNCHANGED <<queue, credit, visible, dropped, cpc, popsAtTake, recorded, attention>>
  BY DEF channel, consumerVars
<1>2. op \in Nat /\ dropped \in Nat /\ Len(accepted) \in Nat
  BY Lengths DEF HeadlessInv
<1>3. TypeOK'
  BY <1>1, <1>2, Bounds DEF HeadlessInv, TypeOK, ChannelTypeOK
<1>4. OpsTally'
  BY <1>1, <1>2 DEF HeadlessInv, OpsTally, InHand
<1>5. DrainProgress' /\ InOrder' /\ SinkKept' /\ TakeFollowsPops'
  BY <1>1 DEF HeadlessInv, DrainProgress, InOrder, SinkKept, TakeFollowsPops
<1>6. PendingMeansEvent'
  BY <1>1 DEF HeadlessInv, PendingMeansEvent
<1>7. QED BY <1>3, <1>4, <1>5, <1>6 DEF HeadlessInv

LEMMA PublishStep == HeadlessInv /\ Publish => HeadlessInv'
<1>1. SUFFICES ASSUME HeadlessInv, Publish PROVE HeadlessInv'
  OBVIOUS
<1>2. /\ ppc = "publish" /\ ppc' = "push" /\ sink' = op /\ published' = op
      /\ pushesAtPublish' = Len(accepted)
      /\ credit' \in credit .. (Cap - Len(queue))
      /\ credit' >= Cap - (Len(accepted) - popsAtTake)
      /\ UNCHANGED <<queue, visible, dropped, mode, op, done, accepted,
                     cpc, popsAtTake, recorded, attention>>
  BY <1>1 DEF Publish, LearnRoom, Room, consumerVars
<1>3. /\ Len(queue) \in Nat /\ Len(recorded) \in Nat /\ Len(accepted) \in Nat
      /\ Len(accepted) = Len(recorded) + Len(queue) /\ credit \in Nat
      /\ op \in Nat /\ dropped \in Nat /\ popsAtTake \in Nat /\ popsAtTake <= Len(recorded)
  BY <1>1, Lengths DEF HeadlessInv
<1>4. credit' \in 0 .. (Cap - Len(queue))
  BY <1>2, <1>3, Bounds
<1>5. op # None
  BY <1>1, <1>2, <1>3 DEF HeadlessInv, OpsTally, InHand, None
<1>6. TypeOK'
  BY <1>1, <1>2, <1>3, <1>4 DEF HeadlessInv, TypeOK, ChannelTypeOK
<1>7. OpsTally'
  BY <1>1, <1>2 DEF HeadlessInv, OpsTally, InHand
<1>8. InOrder' /\ DrainProgress' /\ TakeFollowsPops'
  BY <1>1, <1>2 DEF HeadlessInv, InOrder, DrainProgress, TakeFollowsPops
<1>9. SinkKept'
  BY <1>2, <1>5 DEF SinkKept, None
<1>10. PendingMeansEvent'
  <2>1. CASE popsAtTake < Len(accepted)
    BY <1>2, <2>1 DEF PendingMeansEvent
  <2>2. CASE popsAtTake = Len(accepted)
    BY <1>2, <1>3, <1>4, <2>2, Bounds DEF PendingMeansEvent
  <2>3. QED BY <1>3, <2>1, <2>2
<1>11. QED BY <1>6, <1>7, <1>8, <1>9, <1>10 DEF HeadlessInv

LEMMA PushAcceptedStep == HeadlessInv /\ PushAccepted => HeadlessInv'
<1>1. SUFFICES ASSUME HeadlessInv, PushAccepted PROVE HeadlessInv'
  OBVIOUS
<1>2. PICK known \in credit .. (Cap - Len(queue)) :
           known > 0 /\ queue' = Append(queue, op) /\ credit' = known - 1
           /\ UNCHANGED <<visible, dropped>>
  BY <1>1 DEF PushAccepted, Accept, Room
<1>3. /\ ppc = "push" /\ ppc' = "run" /\ accepted' = Append(accepted, op)
      /\ UNCHANGED <<mode, sink, op, done, pushesAtPublish, published,
                     cpc, popsAtTake, recorded, attention>>
  BY <1>1 DEF PushAccepted, consumerVars
<1>4. /\ Len(queue) \in Nat /\ Len(recorded) \in Nat /\ Len(accepted) \in Nat
      /\ Len(accepted) = Len(recorded) + Len(queue) /\ credit \in Nat
      /\ op \in Nat /\ dropped \in Nat /\ popsAtTake \in Nat /\ popsAtTake <= Len(recorded)
      /\ visible \in 0 .. Len(queue)
      /\ pushesAtPublish \in Nat /\ pushesAtPublish <= Len(accepted)
  BY <1>1, Lengths DEF HeadlessInv, TypeOK, ChannelTypeOK
<1>5. op \in Item
  BY <1>1, <1>3, <1>4, Bounds DEF HeadlessInv, TypeOK, OpsTally, InHand
<1>6. queue \in Seq(Item) /\ recorded \in Seq(Item) /\ accepted \in Seq(Item)
  BY <1>1 DEF HeadlessInv, TypeOK, ChannelTypeOK
<1>7. /\ queue' \in Seq(Item) /\ Len(queue') = Len(queue) + 1
      /\ accepted' \in Seq(Item) /\ Len(accepted') = Len(accepted) + 1
  BY <1>2, <1>3, <1>5, <1>6, AppendProperties
<1>8. ChannelTypeOK'
  <2>1. known \in Nat /\ known <= Cap - Len(queue)
    BY <1>2, <1>4, Bounds
  <2>2. credit' \in 0 .. (Cap - Len(queue')) /\ Len(queue') <= Cap
    BY <1>2, <1>4, <1>7, <2>1, Bounds
  <2>3. visible' \in 0 .. Len(queue')
    BY <1>2, <1>4, <1>7
  <2>4. QED BY <1>2, <1>4, <1>7, <2>2, <2>3 DEF ChannelTypeOK
<1>9. TypeOK'
  <2>1. pushesAtPublish' \in 0 .. Len(accepted')
    BY <1>3, <1>4, <1>7
  <2>2. QED BY <1>1, <1>3, <1>7, <1>8, <2>1 DEF HeadlessInv, TypeOK
<1>10. InOrder'
  <2>1. recorded \o Append(queue, op) = Append(recorded \o queue, op)
    BY <1>5, <1>6, AppendConcat
  <2>2. QED BY <1>1, <1>2, <1>3, <2>1 DEF HeadlessInv, InOrder
<1>11. OpsTally'
  <2>1. mode \in {"live", "replay"} /\ OpsTally
    BY <1>1 DEF HeadlessInv, TypeOK
  <2>2. CASE mode = "live"
    BY <1>2, <1>3, <1>4, <1>7, <2>1, <2>2 DEF OpsTally, InHand
  <2>3. CASE mode = "replay"
    BY <1>2, <1>3, <1>4, <1>7, <2>1, <2>3 DEF OpsTally, InHand
  <2>4. QED BY <2>1, <2>2, <2>3
<1>12. DrainProgress'
  BY <1>1, <1>3 DEF HeadlessInv, DrainProgress
<1>13. SinkKept' /\ TakeFollowsPops'
  BY <1>1, <1>3 DEF HeadlessInv, SinkKept, TakeFollowsPops
<1>14. PendingMeansEvent'
  BY <1>3, <1>4, <1>7 DEF PendingMeansEvent
<1>15. QED BY <1>9, <1>10, <1>11, <1>12, <1>13, <1>14 DEF HeadlessInv

LEMMA PushRefusedStep == HeadlessInv /\ PushRefused => HeadlessInv'
<1>1. SUFFICES ASSUME HeadlessInv, PushRefused PROVE HeadlessInv'
  OBVIOUS
<1>2. /\ ppc = "push" /\ ppc' = (IF mode = "live" THEN "run" ELSE "push")
      /\ credit = 0 /\ dropped' = dropped + 1
      /\ UNCHANGED <<queue, credit, visible, mode, sink, op, done, pushesAtPublish,
                     accepted, published, cpc, popsAtTake, recorded, attention>>
  BY <1>1 DEF PushRefused, Refuse, consumerVars
<1>3. op \in Nat /\ dropped \in Nat /\ Len(accepted) \in Nat
  BY <1>1, Lengths DEF HeadlessInv
<1>4. TypeOK'
  BY <1>1, <1>2 DEF HeadlessInv, TypeOK, ChannelTypeOK
<1>5. OpsTally'
  <2>1. mode \in {"live", "replay"} /\ OpsTally
    BY <1>1 DEF HeadlessInv, TypeOK
  <2>2. CASE mode = "live"
    BY <1>2, <1>3, <2>1, <2>2 DEF OpsTally, InHand
  <2>3. CASE mode = "replay"
    BY <1>2, <1>3, <2>1, <2>3 DEF OpsTally, InHand
  <2>4. QED BY <2>1, <2>2, <2>3
<1>6. InOrder' /\ DrainProgress' /\ SinkKept' /\ TakeFollowsPops'
  BY <1>1, <1>2 DEF HeadlessInv, InOrder, DrainProgress, SinkKept, TakeFollowsPops
<1>7. PendingMeansEvent'
  <2>1. sink # None => popsAtTake < Len(accepted)
    BY <1>1, <1>2, Bounds DEF HeadlessInv, PendingMeansEvent
  <2>2. QED BY <1>2, <2>1 DEF PendingMeansEvent
<1>8. QED BY <1>4, <1>5, <1>6, <1>7 DEF HeadlessInv

LEMMA ProducerExitsStep == HeadlessInv /\ ProducerExits => HeadlessInv'
<1>1. SUFFICES ASSUME HeadlessInv, ProducerExits PROVE HeadlessInv'
  OBVIOUS
<1>2. /\ ppc = "run" /\ ppc' = "exited" /\ done' = TRUE
      /\ UNCHANGED <<queue, credit, visible, dropped, mode, sink, op, pushesAtPublish,
                     accepted, published, cpc, popsAtTake, recorded, attention>>
  BY <1>1 DEF ProducerExits, channel, consumerVars
<1>3. TypeOK' /\ InOrder'
  BY <1>1, <1>2 DEF HeadlessInv, TypeOK, ChannelTypeOK, InOrder
<1>4. OpsTally' /\ DrainProgress'
  BY <1>1, <1>2 DEF HeadlessInv, OpsTally, InHand, DrainProgress
<1>5. SinkKept' /\ TakeFollowsPops' /\ PendingMeansEvent'
  BY <1>1, <1>2 DEF HeadlessInv, SinkKept, TakeFollowsPops, PendingMeansEvent
<1>6. QED BY <1>3, <1>4, <1>5 DEF HeadlessInv

LEMMA SeesRunningStep == HeadlessInv /\ SeesRunning => HeadlessInv'
<1>1. SUFFICES ASSUME HeadlessInv, SeesRunning PROVE HeadlessInv'
  OBVIOUS
<1>2. /\ cpc' = "drain"
      /\ UNCHANGED <<queue, credit, visible, dropped, mode, sink, op, ppc, done,
                     pushesAtPublish, accepted, published, popsAtTake, recorded, attention>>
  BY <1>1 DEF SeesRunning, channel, producerVars
<1>3. TypeOK' /\ InOrder' /\ OpsTally'
  BY <1>1, <1>2 DEF HeadlessInv, TypeOK, ChannelTypeOK, InOrder, OpsTally, InHand
<1>4. DrainProgress' /\ SinkKept' /\ TakeFollowsPops' /\ PendingMeansEvent'
  BY <1>1, <1>2 DEF HeadlessInv, DrainProgress, SinkKept, TakeFollowsPops, PendingMeansEvent
<1>5. QED BY <1>3, <1>4 DEF HeadlessInv

LEMMA SeesDoneStep == HeadlessInv /\ SeesDone => HeadlessInv'
<1>1. SUFFICES ASSUME HeadlessInv, SeesDone PROVE HeadlessInv'
  OBVIOUS
<1>2. /\ cpc = "check" /\ done /\ cpc' = "size" /\ visible' = Len(queue)
      /\ UNCHANGED <<queue, credit, dropped, mode, sink, op, ppc, done,
                     pushesAtPublish, accepted, published, popsAtTake, recorded, attention>>
  BY <1>1 DEF SeesDone, LearnItems, producerVars
<1>3. Len(queue) \in Nat
  BY <1>1, Lengths DEF HeadlessInv
<1>4. TypeOK' /\ InOrder' /\ OpsTally'
  BY <1>1, <1>2, <1>3 DEF HeadlessInv, TypeOK, ChannelTypeOK, InOrder, OpsTally, InHand
<1>5. DrainProgress' /\ SinkKept' /\ TakeFollowsPops' /\ PendingMeansEvent'
  BY <1>1, <1>2 DEF HeadlessInv, DrainProgress, SinkKept, TakeFollowsPops, PendingMeansEvent
<1>6. QED BY <1>4, <1>5 DEF HeadlessInv

LEMMA ChecksSizeStep == HeadlessInv /\ ChecksSize => HeadlessInv'
<1>1. SUFFICES ASSUME HeadlessInv, ChecksSize PROVE HeadlessInv'
  OBVIOUS
<1>2. /\ cpc = "size" /\ cpc' = (IF visible' > 0 THEN "drain" ELSE "join")
      /\ visible' \in visible .. Len(queue)
      /\ UNCHANGED <<queue, credit, dropped, mode, sink, op, ppc, done,
                     pushesAtPublish, accepted, published, popsAtTake, recorded, attention>>
  BY <1>1 DEF ChecksSize, LearnItems, producerVars
<1>3. Len(queue) \in Nat /\ visible = Len(queue) /\ done
  BY <1>1, <1>2, Lengths DEF HeadlessInv, DrainProgress
<1>4. visible' = Len(queue)
  BY <1>2, <1>3
<1>5. TypeOK' /\ InOrder' /\ OpsTally'
  BY <1>1, <1>2, <1>3, <1>4 DEF HeadlessInv, TypeOK, ChannelTypeOK, InOrder, OpsTally, InHand
<1>6. DrainProgress'
  <2>1. cpc' = "join" => queue = <<>>
    <3>1. queue # <<>> => Len(queue) > 0
      <4>1. queue \in Seq(Item)
        BY <1>1 DEF HeadlessInv, TypeOK, ChannelTypeOK
      <4>2. QED BY <4>1, EmptySeq
    <3>2. QED BY <1>2, <1>3, <1>4, <3>1
  <2>2. cpc' \in {"drain", "join"}
    BY <1>2
  <2>3. QED BY <1>1, <1>2, <1>3, <2>1, <2>2 DEF HeadlessInv, DrainProgress
<1>7. SinkKept' /\ TakeFollowsPops' /\ PendingMeansEvent'
  BY <1>1, <1>2 DEF HeadlessInv, SinkKept, TakeFollowsPops, PendingMeansEvent
<1>8. QED BY <1>5, <1>6, <1>7 DEF HeadlessInv

LEMMA PopEventStep == HeadlessInv /\ PopEvent => HeadlessInv'
<1>1. SUFFICES ASSUME HeadlessInv, PopEvent PROVE HeadlessInv'
  OBVIOUS
<1>2. PICK known \in visible .. Len(queue) :
           known > 0 /\ queue' = Tail(queue) /\ visible' = known - 1
           /\ UNCHANGED <<credit, dropped>>
  BY <1>1 DEF PopEvent, Take
<1>3. /\ cpc = "drain" /\ recorded' = Append(recorded, Head(queue))
      /\ UNCHANGED <<mode, sink, op, ppc, done, pushesAtPublish, accepted, published,
                     cpc, popsAtTake, attention>>
  BY <1>1 DEF PopEvent, producerVars
<1>4. /\ Len(queue) \in Nat /\ Len(recorded) \in Nat /\ visible \in Nat /\ credit \in Nat
      /\ popsAtTake \in Nat /\ popsAtTake <= Len(recorded)
      /\ credit <= Cap - Len(queue) /\ Len(queue) <= Cap
  BY <1>1, Lengths, Bounds DEF HeadlessInv, TypeOK, ChannelTypeOK
<1>5. queue \in Seq(Item) /\ recorded \in Seq(Item)
  BY <1>1 DEF HeadlessInv, TypeOK, ChannelTypeOK
<1>6. queue # <<>> /\ known \in Nat /\ known <= Len(queue)
  <2>1. known \in Nat /\ known <= Len(queue)
    BY <1>2, <1>4
  <2>2. Len(queue) # 0
    BY <1>2, <1>4, <2>1
  <2>3. QED BY <2>1, <2>2, EmptySeq
<1>7. /\ queue' \in Seq(Item) /\ Len(queue') = Len(queue) - 1
      /\ recorded' \in Seq(Item) /\ Len(recorded') = Len(recorded) + 1
  BY <1>2, <1>3, <1>5, <1>6, HeadTailProperties, AppendProperties
<1>8. ChannelTypeOK'
  <2>1. credit' \in 0 .. (Cap - Len(queue')) /\ Len(queue') <= Cap
    BY <1>2, <1>4, <1>7, Bounds
  <2>2. visible' \in 0 .. Len(queue')
    BY <1>2, <1>4, <1>6, <1>7
  <2>3. QED BY <1>1, <1>2, <1>7, <2>1, <2>2 DEF HeadlessInv, TypeOK, ChannelTypeOK
<1>9. TypeOK'
  <2>1. popsAtTake' \in 0 .. Len(recorded')
    BY <1>3, <1>4, <1>7
  <2>2. QED BY <1>1, <1>3, <1>7, <1>8, <2>1 DEF HeadlessInv, TypeOK
<1>10. InOrder'
  <2>1. Append(recorded, Head(queue)) \o Tail(queue) = recorded \o queue
    BY <1>5, <1>6, MoveHead
  <2>2. QED BY <1>1, <1>2, <1>3, <2>1 DEF HeadlessInv, InOrder
<1>11. OpsTally' /\ DrainProgress'
  BY <1>1, <1>2, <1>3 DEF HeadlessInv, OpsTally, InHand, DrainProgress
<1>12. SinkKept' /\ TakeFollowsPops' /\ PendingMeansEvent'
  BY <1>1, <1>2, <1>3 DEF HeadlessInv, SinkKept, TakeFollowsPops, PendingMeansEvent
<1>13. QED BY <1>9, <1>10, <1>11, <1>12 DEF HeadlessInv

LEMMA DrainEndsStep == HeadlessInv /\ DrainEnds => HeadlessInv'
<1>1. SUFFICES ASSUME HeadlessInv, DrainEnds PROVE HeadlessInv'
  OBVIOUS
<1>2. /\ cpc = "drain" /\ cpc' = "attention"
      /\ UNCHANGED <<queue, credit, visible, dropped, mode, sink, op, ppc, done,
                     pushesAtPublish, accepted, published, popsAtTake, recorded, attention>>
  BY <1>1 DEF DrainEnds, SeesEmpty, channel, producerVars
<1>3. TypeOK' /\ InOrder' /\ OpsTally'
  BY <1>1, <1>2 DEF HeadlessInv, TypeOK, ChannelTypeOK, InOrder, OpsTally, InHand
<1>4. DrainProgress' /\ SinkKept' /\ TakeFollowsPops' /\ PendingMeansEvent'
  BY <1>1, <1>2 DEF HeadlessInv, DrainProgress, SinkKept, TakeFollowsPops, PendingMeansEvent
<1>5. QED BY <1>3, <1>4 DEF HeadlessInv

LEMMA TakeAttentionStep == HeadlessInv /\ TakeAttention => HeadlessInv'
<1>1. SUFFICES ASSUME HeadlessInv, TakeAttention PROVE HeadlessInv'
  OBVIOUS
<1>2. /\ cpc = "attention" /\ cpc' = "check"
      /\ attention' = (IF sink = None THEN attention ELSE sink) /\ sink' = None
      /\ popsAtTake' = Len(recorded) /\ visible' \in visible .. Len(queue)
      /\ UNCHANGED <<queue, credit, dropped, mode, op, ppc, done,
                     pushesAtPublish, accepted, published, recorded>>
  BY <1>1 DEF TakeAttention, LearnItems, producerVars
<1>3. Len(queue) \in Nat /\ visible \in Nat /\ Len(recorded) \in Nat
  BY <1>1, Lengths DEF HeadlessInv
<1>4. visible' \in 0 .. Len(queue) /\ popsAtTake' \in 0 .. Len(recorded)
  BY <1>2, <1>3
<1>5. TypeOK'
  <2>1. {sink', attention', published'} \subseteq 0 .. MaxOps
    BY <1>1, <1>2, Bounds DEF HeadlessInv, TypeOK, None
  <2>2. QED BY <1>1, <1>2, <1>4, <2>1 DEF HeadlessInv, TypeOK, ChannelTypeOK
<1>6. InOrder' /\ OpsTally'
  BY <1>1, <1>2 DEF HeadlessInv, InOrder, OpsTally, InHand
<1>7. DrainProgress' /\ SinkKept' /\ TakeFollowsPops' /\ PendingMeansEvent'
  BY <1>1, <1>2 DEF HeadlessInv, DrainProgress, SinkKept, TakeFollowsPops, PendingMeansEvent
<1>8. QED BY <1>5, <1>6, <1>7 DEF HeadlessInv

LEMMA JoinAndReportStep == HeadlessInv /\ JoinAndReport => HeadlessInv'
<1>1. SUFFICES ASSUME HeadlessInv, JoinAndReport PROVE HeadlessInv'
  OBVIOUS
<1>2. /\ cpc = "join" /\ cpc' = "report"
      /\ UNCHANGED <<queue, credit, visible, dropped, mode, sink, op, ppc, done,
                     pushesAtPublish, accepted, published, popsAtTake, recorded, attention>>
  BY <1>1 DEF JoinAndReport, channel, producerVars
<1>3. TypeOK' /\ InOrder' /\ OpsTally'
  BY <1>1, <1>2 DEF HeadlessInv, TypeOK, ChannelTypeOK, InOrder, OpsTally, InHand
<1>4. DrainProgress' /\ SinkKept' /\ TakeFollowsPops' /\ PendingMeansEvent'
  BY <1>1, <1>2 DEF HeadlessInv, DrainProgress, SinkKept, TakeFollowsPops, PendingMeansEvent
<1>5. QED BY <1>3, <1>4 DEF HeadlessInv

LEMMA HeadlessStep == HeadlessInv /\ [Next]_vars => HeadlessInv'
<1>1. SUFFICES ASSUME HeadlessInv, [Next]_vars PROVE HeadlessInv'
  OBVIOUS
<1>2. CASE CaptureOp
  BY <1>1, <1>2, NewOpStep DEF CaptureOp
<1>3. CASE ReadEvent
  BY <1>1, <1>3, NewOpStep DEF ReadEvent
<1>4. CASE Publish \/ PushAccepted \/ PushRefused \/ ProducerExits
  BY <1>1, <1>4, PublishStep, PushAcceptedStep, PushRefusedStep, ProducerExitsStep
<1>5. CASE Main
  BY <1>1, <1>5, SeesRunningStep, SeesDoneStep, ChecksSizeStep, PopEventStep,
     DrainEndsStep, TakeAttentionStep, JoinAndReportStep DEF Main
<1>6. CASE UNCHANGED vars
  <2>1. TypeOK' /\ InOrder' /\ OpsTally'
    BY <1>1, <1>6 DEF vars, channel, producerVars, consumerVars, HeadlessInv,
       TypeOK, ChannelTypeOK, InOrder, OpsTally, InHand
  <2>2. DrainProgress' /\ SinkKept' /\ TakeFollowsPops' /\ PendingMeansEvent'
    BY <1>1, <1>6 DEF vars, channel, producerVars, consumerVars, HeadlessInv,
       DrainProgress, SinkKept, TakeFollowsPops, PendingMeansEvent
  <2>3. QED BY <2>1, <2>2 DEF HeadlessInv
<1>7. QED BY <1>1, <1>2, <1>3, <1>4, <1>5, <1>6 DEF Next, Producer

(* The inductive invariant holds in every reachable state.                 *)
THEOREM HeadlessInvariant == Spec => []HeadlessInv
<1>1. Init => HeadlessInv
  BY HeadlessInit
<1>2. HeadlessInv /\ [Next]_vars => HeadlessInv'
  BY HeadlessStep
<1>3. QED BY <1>1, <1>2, PTL DEF Spec

-----------------------------------------------------------------------------
(* Type correctness of a headless run, for every capacity and length.      *)
THEOREM HeadlessTypeOK == Spec => []TypeOK
<1>1. HeadlessInv => TypeOK
  BY DEF HeadlessInv
<1>2. QED BY <1>1, HeadlessInvariant, PTL

(* When main reports, it has popped and recorded every event the ring      *)
(* accepted, in order (main.cpp 509-538), however large the ring, however  *)
(* long the run and however stale the indices main reads before.           *)
THEOREM HeadlessAllRecorded == Spec => []AllRecorded
<1>1. HeadlessInv => AllRecorded
  <2>1. SUFFICES ASSUME HeadlessInv, cpc = "report"
                 PROVE  queue = <<>> /\ recorded = accepted
    BY DEF AllRecorded
  <2>2. queue = <<>> /\ recorded \in Seq(Item)
    BY <2>1 DEF HeadlessInv, DrainProgress, TypeOK
  <2>3. QED BY <2>1, <2>2, ConcatEmptySeq DEF HeadlessInv, InOrder
<1>2. QED BY <1>1, HeadlessInvariant, PTL

(* The totals of the report add up: ops recorded and ops dropped are the   *)
(* ops captured, or all events of the file are recorded (main.cpp 531-538).*)
THEOREM HeadlessTotalsAddUp == Spec => []TotalsAddUp
<1>1. HeadlessInv => TotalsAddUp
  <2>1. SUFFICES ASSUME HeadlessInv, cpc = "report"
                 PROVE  Len(recorded) = op - (IF mode = "live" THEN dropped ELSE 0)
    BY DEF TotalsAddUp
  <2>2. ppc = "exited" /\ Len(queue) = 0
    BY <2>1, EmptySeq DEF HeadlessInv, DrainProgress
  <2>3. /\ Len(accepted) = Len(recorded) + Len(queue) /\ Len(recorded) \in Nat
        /\ dropped \in Nat /\ op \in Nat
    BY <2>1, Lengths DEF HeadlessInv
  <2>4. OpsTally /\ InHand = 0
    BY <2>1, <2>2 DEF HeadlessInv, InHand
  <2>5. CASE mode = "live"
    BY <2>2, <2>3, <2>4, <2>5 DEF OpsTally
  <2>6. CASE mode # "live"
    BY <2>2, <2>3, <2>4, <2>6 DEF OpsTally
  <2>7. QED BY <2>5, <2>6
<1>2. QED BY <1>1, HeadlessInvariant, PTL

(* The last attention matrix published is the one reported, although main  *)
(* stops without asking the sink (main.cpp 509, 522-525).                  *)
THEOREM HeadlessLastAttention == Spec => []LastAttentionReported
<1>1. HeadlessInv => LastAttentionReported
  <2>1. SUFFICES ASSUME HeadlessInv, cpc = "report"
                 PROVE  sink = None /\ attention = published
    BY DEF LastAttentionReported
  <2>2. ppc = "exited" /\ Len(queue) = 0 /\ popsAtTake = Len(recorded)
    BY <2>1, EmptySeq DEF HeadlessInv, DrainProgress, TakeFollowsPops
  <2>3. Len(accepted) = Len(recorded) + Len(queue) /\ Len(recorded) \in Nat
    BY <2>1, Lengths DEF HeadlessInv
  <2>4. sink = None
    BY <2>1, <2>2, <2>3 DEF HeadlessInv, PendingMeansEvent
  <2>5. QED BY <2>1, <2>4 DEF HeadlessInv, SinkKept
<1>2. QED BY <1>1, HeadlessInvariant, PTL

-----------------------------------------------------------------------------
(* The constructor, on words of any width and for every capacity that can  *)
(* be asked for.  Its loop has doubled 1 so often that every smaller power *)
(* was too small, or has lost the last bit of the word: then it goes on    *)
(* for ever, and delivers nothing.  It is left, for a ring or for a failed *)
(* allocation, only with a power that is large enough.                     *)

SizingInv ==
    /\ capacity \in 0 .. MaxRequest /\ pc \in {"loop", "sized", "failed"}
    /\ \/ cap = 0 /\ capacity > 0 /\ pc = "loop"
       \/ \E k \in 0 .. (Width - 1) :
            /\ cap = PowerOfTwo[k]
            /\ \A j \in 0 .. (k - 1) : PowerOfTwo[j] < capacity
    /\ pc \in {"sized", "failed"} => cap >= capacity

(* The function that is meant by the recursion.                            *)
LEMMA PowersDefined ==
    ASSUME Width \in Nat
    PROVE  PowerOfTwo =
             [k \in 0 .. Width |-> IF k = 0 THEN 1 ELSE 2 * PowerOfTwo[k - 1]]
<1> DEFINE Step(f, k) == IF k = 0 THEN 1 ELSE 2 * f[k - 1]
           Good == {m \in 0 .. Width : \E f \in [0 .. m -> Nat] : \A k \in 0 .. m : f[k] = Step(f, k)}
<1>1. 0 \in Good
  <2> DEFINE f == [k \in 0 .. 0 |-> 1]
  <2>1. f \in [0 .. 0 -> Nat] /\ \A k \in 0 .. 0 : f[k] = Step(f, k)
    OBVIOUS
  <2>2. 0 \in 0 .. Width
    OBVIOUS
  <2> HIDE DEF f
  <2> QED
    BY <2>1, <2>2
<1>2. ASSUME NEW m \in 0 .. (Width - 1), m \in Good
      PROVE  m + 1 \in Good
  <2>1. PICK f \in [0 .. m -> Nat] : \A k \in 0 .. m : f[k] = Step(f, k)
    BY <1>2
  <2> DEFINE g == [k \in 0 .. (m + 1) |-> IF k = m + 1 THEN 2 * f[m] ELSE f[k]]
  <2>2. m \in Nat /\ m \in 0 .. m /\ m + 1 \in 0 .. Width /\ f[m] \in Nat
    OBVIOUS
  <2>3. g \in [0 .. (m + 1) -> Nat]
    BY <2>2
  <2>4. ASSUME NEW k \in 0 .. (m + 1)
        PROVE  g[k] = Step(g, k)
    <3>1. CASE k = m + 1
      <4>1. g[m + 1] = 2 * f[m] /\ m + 1 # 0 /\ (m + 1) - 1 = m /\ g[m] = f[m]
        BY <2>2
      <4> QED
        BY <3>1, <4>1
    <3>2. CASE k # m + 1
      <4>1. k \in 0 .. m /\ g[k] = f[k] /\ (k # 0 => k - 1 \in 0 .. m /\ g[k - 1] = f[k - 1])
        BY <2>2, <3>2
      <4> QED
        BY <2>1, <4>1
    <3> QED
      BY <3>1, <3>2
  <2> HIDE DEF g
  <2> QED
    BY <2>2, <2>3, <2>4
<1>3. Width \in Good
  <2> HIDE DEF Good
  <2>1. \A m \in 0 .. Width : m \in Good
    BY <1>1, <1>2, Induction
  <2> QED
    BY <2>1
<1>4. PICK f \in [0 .. Width -> Nat] : \A k \in 0 .. Width : f[k] = Step(f, k)
  BY <1>3
<1>5. f = [k \in 0 .. Width |-> IF k = 0 THEN 1 ELSE 2 * f[k - 1]]
  BY <1>4
<1> QED
  BY <1>5 DEF PowerOfTwo

(* The powers of two, as far as a word goes.                               *)
LEMMA Powers ==
    ASSUME Width \in Nat
    PROVE  /\ PowerOfTwo[0] = 1
           /\ \A k \in 0 .. Width : PowerOfTwo[k] \in Nat \ {0}
           /\ \A k \in 0 .. (Width - 1) :
                PowerOfTwo[k + 1] = 2 * PowerOfTwo[k]
<1> DEFINE power == PowerOfTwo
           Good == {m \in 0 .. Width : power[m] \in Nat \ {0}}
<1>1. power = [k \in 0 .. Width |-> IF k = 0 THEN 1 ELSE 2 * power[k - 1]]
  BY PowersDefined
<1> HIDE DEF power
<1>2. power[0] = 1
  BY <1>1
<1>3. ASSUME NEW k \in 0 .. (Width - 1)
      PROVE  power[k + 1] = 2 * power[k]
  <2>1. k + 1 \in 0 .. Width /\ k + 1 # 0 /\ (k + 1) - 1 = k
    OBVIOUS
  <2> QED
    BY <1>1, <2>1
<1>4. 0 \in Good
  BY <1>2
<1>5. ASSUME NEW m \in 0 .. (Width - 1), m \in Good
      PROVE  m + 1 \in Good
  <2>1. power[m] \in Nat \ {0} /\ power[m + 1] = 2 * power[m] /\ m + 1 \in 0 .. Width
    BY <1>3, <1>5
  <2> QED
    BY <2>1
<1> HIDE DEF Good
<1>6. \A m \in 0 .. Width : m \in Good
  BY <1>4, <1>5, Induction
<1> QED
  BY <1>2, <1>3, <1>6 DEF Good, power

(* A power of two is at least twice every smaller one, and a multiple.     *)
LEMMA PowersGrow ==
    ASSUME Width \in Nat, NEW j \in 0 .. Width, NEW k \in j .. Width
    PROVE  /\ j # k => 2 * PowerOfTwo[j] <= PowerOfTwo[k]
           /\ PowerOfTwo[j] <= PowerOfTwo[k]
           /\ PowerOfTwo[k] % PowerOfTwo[j] = 0
<1> DEFINE power == PowerOfTwo
           low == power[j]
           Good == {m \in j .. Width : \E q \in Nat : power[m] = low * q /\ q > 0 /\ (m # j => q > 1)}
<1>1. /\ \A m \in 0 .. Width : power[m] \in Nat \ {0}
      /\ \A m \in 0 .. (Width - 1) : power[m + 1] = 2 * power[m]
  BY Powers
<1> HIDE DEF power
<1>2. low \in Nat \ {0}
  BY <1>1
<1>3. j \in Good
  <2>1. power[j] = low * 1
    BY <1>2
  <2> QED
    BY <2>1
<1>4. ASSUME NEW m \in j .. (Width - 1), m \in Good
      PROVE  m + 1 \in Good
  <2>1. PICK q \in Nat : power[m] = low * q /\ q > 0
    BY <1>4
  <2>2. m \in 0 .. (Width - 1) /\ m + 1 \in j .. Width /\ m \in Nat
    OBVIOUS
  <2>3. power[m + 1] = 2 * (low * q)
    BY <1>1, <2>1, <2>2
  <2> HIDE DEF low
  <2>4. 2 * (low * q) = low * (2 * q) /\ 2 * q \in Nat /\ 2 * q > 1
    BY <1>2, <2>1
  <2>5. power[m + 1] = low * (2 * q)
    BY <2>3, <2>4
  <2> QED
    BY <2>2, <2>4, <2>5
<1>5. k \in Good
  <2> HIDE DEF Good
  <2>1. \A m \in j .. Width : m \in Good
    <3>1. j \in Nat /\ Width \in Nat
      OBVIOUS
    <3> QED
      BY <1>3, <1>4, <3>1, Induction
  <2> QED
    BY <2>1
<1>6. PICK q \in Nat : power[k] = low * q /\ q > 0 /\ (k # j => q > 1)
  BY <1>5
<1> HIDE DEF low
<1>7. low <= low * q /\ (k # j => 2 * low <= low * q)
  <2>1. \A a \in Nat \ {0}, b \in Nat : b > 0 => a <= a * b
    BY SMT
  <2>2. \A a \in Nat \ {0}, b \in Nat : b > 1 => 2 * a <= a * b
    <3> SUFFICES ASSUME NEW a \in Nat \ {0}, NEW b \in Nat, b > 1
                 PROVE  2 * a <= a * b
      OBVIOUS
    <3>1. a * 1 + a <= a * b
      BY MultiplesApart
    <3> QED
      BY <3>1
  <2> QED
    BY <1>2, <1>6, <2>1, <2>2
<1>8. (low * q) % low = 0
  <2>1. (low * q + 0) % low = 0
    BY <1>2, ModOf
  <2>2. low * q + 0 = low * q
    BY <1>2
  <2> QED
    BY <2>1, <2>2
<1> QED
  BY <1>6, <1>7, <1>8 DEF low, power

(* Each turn of the loop keeps the invariant.                              *)
LEMMA SizingStep ==
    ASSUME SizingInv, SizeNext
    PROVE  SizingInv'
<1> DEFINE power == PowerOfTwo
           range == power[Width]
<1>1. /\ Width \in Nat /\ Width > 1
      /\ \A m \in 0 .. Width : power[m] \in Nat \ {0}
      /\ \A m \in 0 .. (Width - 1) : power[m + 1] = 2 * power[m]
  BY Powers, SizingAssumption
<1>2. MaxRequest \in 0 .. (range - 1) /\ range \in Nat /\ range > 0
  BY <1>1, SizingAssumption DEF IndexMod
<1> DEFINE Doubled(k) == cap = power[k] /\ \A j \in 0 .. (k - 1) : power[j] < capacity
<1>3. /\ capacity \in 0 .. MaxRequest /\ pc \in {"loop", "sized", "failed"}
      /\ \/ cap = 0 /\ capacity > 0 /\ pc = "loop"
         \/ \E k \in 0 .. (Width - 1) : Doubled(k)
      /\ pc \in {"sized", "failed"} => cap >= capacity
  BY DEF SizingInv
<1>4. CASE Double
  <2>1. /\ pc = "loop" /\ cap < capacity /\ pc' = pc /\ capacity' = capacity
        /\ cap' = (2 * cap) % range
    BY <1>4 DEF Double, IndexMod
  <2>2. CASE cap = 0
    <3>1. (2 * cap) % range = 0
      <4> HIDE DEF range
      <4>1. (range * 0 + 0) % range = 0
        BY <1>2, ModOf
      <4> QED
        BY <1>2, <2>2, <4>1
    <3>2. cap' = 0 /\ capacity > 0
      BY <1>2, <1>3, <2>1, <2>2, <3>1
    <3> QED
      BY <1>3, <2>1, <3>2 DEF SizingInv
  <2>3. CASE \E k \in 0 .. (Width - 1) : Doubled(k)
    <3>1. PICK k \in 0 .. (Width - 1) : Doubled(k)
      BY <2>3
    <3>2. 2 * cap = power[k + 1] /\ k \in 0 .. Width /\ k + 1 \in 0 .. Width /\ k \in Nat
      BY <1>1, <3>1
    <3>3. CASE k + 1 = Width
      <4>1. 2 * cap = range
        BY <3>2, <3>3
      <4>2. cap' = 0
        <5> HIDE DEF range
        <5>1. (range * 1 + 0) % range = 0
          BY <1>2, ModOf
        <5>2. range * 1 + 0 = range
          BY <1>2
        <5> QED
          BY <2>1, <4>1, <5>1, <5>2
      <4>3. capacity > 0
        <5>1. cap \in Nat
          BY <1>1, <3>1, <3>2
        <5> QED
          BY <1>2, <1>3, <2>1, <5>1
      <4> QED
        BY <1>3, <2>1, <4>2, <4>3 DEF SizingInv
    <3>4. CASE k + 1 # Width
      <4>1. k + 1 \in 0 .. (Width - 1) /\ k + 1 # Width /\ Width \in (k + 1) .. Width
        BY <1>1, <3>2, <3>4
      <4>2. 2 * power[k + 1] <= range /\ power[k + 1] \in Nat \ {0}
        BY <1>1, <3>2, <4>1, PowersGrow
      <4>3. cap' = power[k + 1]
        <5> DEFINE twice == power[k + 1]
        <5>1. twice \in 0 .. (range - 1) /\ range \in Nat \ {0}
          <6> HIDE DEF twice, range
          <6> QED
            BY <1>2, <4>2 DEF twice
        <5>2. cap' = twice % range
          BY <2>1, <3>2
        <5> HIDE DEF twice, range
        <5>3. (range * 0 + twice) % range = twice
          BY <5>1, ModOf
        <5>4. range * 0 + twice = twice
          BY <5>1
        <5> QED
          BY <5>2, <5>3, <5>4 DEF twice
      <4>4. ASSUME NEW j \in 0 .. ((k + 1) - 1)
            PROVE  power[j] < capacity
        <5>1. j \in 0 .. (k - 1) \/ j = k
          BY <3>2
        <5> QED
          BY <2>1, <3>1, <5>1
      <4> HIDE DEF power
      <4> QED
        BY <1>3, <2>1, <4>1, <4>3, <4>4 DEF SizingInv, power
    <3> QED
      BY <3>3, <3>4
  <2> QED
    BY <1>3, <2>2, <2>3
<1>5. CASE Allocate \/ AllocateFails
  <2>1. /\ cap >= capacity /\ pc' \in {"sized", "failed"}
        /\ cap' = cap /\ capacity' = capacity
    BY <1>5 DEF Allocate, AllocateFails
  <2>2. ~ (cap = 0 /\ capacity > 0)
    BY <1>2, <1>3, <2>1
  <2>3. \E k \in 0 .. (Width - 1) : Doubled(k)
    BY <1>3, <2>2
  <2> HIDE DEF power
  <2> QED
    BY <1>3, <2>1, <2>3 DEF SizingInv, power
<1> QED
  BY <1>4, <1>5 DEF SizeNext

(* What the constructor delivers is the smallest power of two that holds   *)
(* what was asked for.                                                     *)
LEMMA SizingDelivers ==
    ASSUME SizingInv
    PROVE  UsableCapacity
<1> DEFINE power == PowerOfTwo
           range == power[Width]
           large == {p \in PowersOfTwo : p >= capacity}
<1>1. SUFFICES ASSUME pc = "sized"
               PROVE  /\ cap = Min(large)
                      /\ range % cap = 0
                      /\ cap + 1 < range
  BY DEF UsableCapacity, IndexMod
<1>2. /\ Width \in Nat /\ Width > 1
      /\ \A m \in 0 .. Width : power[m] \in Nat \ {0}
      /\ power[0] = 1
      /\ \A j \in 0 .. Width : \A m \in j .. Width :
           /\ j # m => 2 * power[j] <= power[m]
           /\ power[j] <= power[m]
           /\ power[m] % power[j] = 0
  BY SizingAssumption, Powers, PowersGrow
<1>3. capacity \in 0 .. MaxRequest /\ cap >= capacity /\ MaxRequest \in Int
  BY <1>1, <1>2, SizingAssumption DEF SizingInv, IndexMod
<1>4. PICK k \in 0 .. (Width - 1) :
        cap = power[k] /\ \A j \in 0 .. (k - 1) : power[j] < capacity
  BY <1>1 DEF SizingInv
<1> HIDE DEF power
<1>5. k \in 0 .. Width /\ Width \in k .. Width /\ k # Width /\ cap \in Nat \ {0}
  BY <1>2, <1>4
<1>6. cap \in large
  BY <1>3, <1>4 DEF PowersOfTwo, power
<1>7. ASSUME NEW p \in large
      PROVE  p \in Nat /\ cap <= p
  <2>1. PICK j \in 0 .. (Width - 1) : p = power[j]
    BY DEF PowersOfTwo, power
  <2>2. p \in Nat /\ p >= capacity /\ j \in 0 .. Width
    BY <1>2, <2>1
  <2>3. ~ (j \in 0 .. (k - 1))
    BY <1>3, <1>4, <2>1, <2>2
  <2>4. j \in k .. Width
    BY <1>2, <2>3
  <2> QED
    BY <1>2, <1>4, <1>5, <2>1, <2>2, <2>4
<1>8. cap = Min(large)
  <2> HIDE DEF large
  <2>1. large \in SUBSET Nat /\ large # {}
    BY <1>6, <1>7
  <2>2. Min(large) \in large /\ \A p \in large : Min(large) <= p
    BY <2>1, MinOf
  <2>3. Min(large) <= cap /\ cap <= Min(large) /\ Min(large) \in Nat
    BY <1>6, <1>7, <2>1, <2>2
  <2>4. \A a, b \in Nat : a <= b /\ b <= a => a = b
    OBVIOUS
  <2> QED
    BY <1>5, <2>3, <2>4
<1>9. range % cap = 0 /\ 2 * cap <= range
  BY <1>2, <1>4, <1>5
<1>10. cap + 1 < range
  <2>1. CASE k = 0
    <3>1. 2 * power[1] <= range /\ 2 * power[0] <= power[1]
      BY <1>2
    <3> HIDE DEF range
    <3>2. range \in Nat /\ power[1] \in Nat
      BY <1>2 DEF range
    <3> QED
      BY <1>2, <1>4, <2>1, <3>1, <3>2
  <2>2. CASE k # 0
    <3>1. 2 * power[0] <= power[k]
      BY <1>2, <1>5, <2>2
    <3>2. cap > 1
      BY <1>2, <1>4, <1>5, <3>1
    <3>3. range \in Nat
      BY <1>2
    <3> HIDE DEF range
    <3> QED
      BY <1>5, <1>9, <3>2, <3>3
  <2> QED
    BY <2>1, <2>2
<1> QED
  BY <1>8, <1>9, <1>10

-----------------------------------------------------------------------------
(* The command line, of any length and with any words on it, and the ring  *)
(* it leads to.                                                            *)

(* The options' positions are computed from the first argument on.         *)
LEMMA BeginsDefined ==
    ASSUME NEW args \in Seq(Arguments)
    PROVE  /\ Begins(args) \in SUBSET (1 .. Len(args))
           /\ \A i \in 1 .. Len(args) :
                i \in Begins(args) <=>
                  (i > 1 => ~ (i - 1 \in Begins(args) /\ args[i - 1] \in TakesValue))
<1> DEFINE n == Len(args)
           Fits(B) == \A i \in 1 .. n :
                        i \in B <=> (i > 1 => ~ (i - 1 \in B /\ args[i - 1] \in TakesValue))
           step == [k \in 1 .. n |-> [b \in BOOLEAN |->
                      k > 1 => ~ (b /\ args[k - 1] \in TakesValue)]]
<1>1. n \in Nat /\ DOMAIN args = 1 .. n
  BY LenProperties
<1>2. \E B \in SUBSET (1 .. n) : Fits(B)
  <2>1. step \in [1 .. n -> [BOOLEAN -> BOOLEAN]]
    OBVIOUS
  <2>2. \A k \in 1 .. n : \A b \in BOOLEAN :
          step[k][b] = (k > 1 => ~ (b /\ args[k - 1] \in TakesValue))
    OBVIOUS
  <2> HIDE DEF n, step
  <2>3. PICK f : Iterates(f, BOOLEAN, FALSE, n, step)
    BY <1>1, <2>1, Recursion
  <2>4. f \in [0 .. n -> BOOLEAN] /\ \A k \in 1 .. n : f[k] = step[k][f[k - 1]]
    BY <2>3 DEF Iterates
  <2>5. ASSUME NEW k \in 1 .. n
        PROVE  f[k] = (k > 1 => ~ (f[k - 1] /\ args[k - 1] \in TakesValue))
    <3>1. k - 1 \in 0 .. n
      BY <1>1
    <3> QED
      BY <2>2, <2>4, <3>1
  <2> DEFINE B == {k \in 1 .. n : f[k]}
  <2>6. ASSUME NEW k \in 1 .. n
        PROVE  k \in B <=> (k > 1 => ~ (k - 1 \in B /\ args[k - 1] \in TakesValue))
    <3>1. k > 1 => k - 1 \in 1 .. n
      BY <1>1
    <3> QED
      BY <2>5, <3>1
  <2> HIDE DEF B
  <2>7. B \in SUBSET (1 .. n)
    BY DEF B
  <2> QED
    BY <2>6, <2>7
<1>3. Begins(args) = CHOOSE B \in SUBSET (1 .. n) : Fits(B)
  BY <1>1 DEF Begins
<1> HIDE DEF n, Begins
<1>4. Begins(args) \in SUBSET (1 .. n) /\ Fits(Begins(args))
  BY <1>2, <1>3
<1> QED
  BY <1>4 DEF n

(* The command lines CommandLineWins is about.                             *)
WellFormed(args) ==
    /\ \A i \in DOMAIN args \ Begins(args) : args[i] # "--config"
    /\ Len(args) \in Begins(args) => args[Len(args)] \notin TakesValue

StartTypes ==
    /\ argv \in Seq(Arguments) /\ toml \in TomlFiles
    /\ phase \in {"scan", "seed", "apply", "exited", "ring", "hooked"}
    /\ next \in Nat \ {0}
    /\ config \in 0 .. MaxRequest
    /\ opt \in [config : Arguments \cup {Empty}, capacity : 0 .. MaxRequest,
                replay : Arguments \cup {Empty}, flags : SUBSET Flags]

(* The constructor is called with the capacity of the options, and by a    *)
(* benchmark that exits it has been.                                       *)
Construction ==
    IF pc = "off"
    THEN capacity = 0 /\ phase \notin {"ring", "hooked"}
    ELSE /\ phase \in {"ring", "hooked", "exited"}
         /\ SizingInv /\ capacity = opt.capacity /\ next > Len(argv)

(* The file loaded is the one the last --config names.                     *)
FileNamed ==
    IF phase = "scan" THEN config = DefaultCapacity
    ELSE \/ Named = {} /\ config = DefaultCapacity
         \/ \E i \in Named : config = Loaded(argv[i + 1])

(* apply_cli is never at the value of an option.                           *)
AtOption ==
    /\ phase \in {"scan", "seed"} => next = 1
    /\ next <= Len(argv) => next \in Begins(argv)

(* The places before k at which the command line gives a capacity.         *)
Given(k) == {i \in Begins(argv) : argv[i] = "--ring-capacity" /\ i < Len(argv) /\ i < k}

(* So far the last of them counts, and without one the file.               *)
CapacityTaken ==
    phase \in {"apply", "exited", "ring", "hooked"} /\ WellFormed(argv) =>
        opt.capacity = IF Given(next) = {} THEN config
                       ELSE AsNumber(argv[Max(Given(next)) + 1])

StartInv ==
    /\ StartTypes
    /\ Construction
    /\ FileNamed
    /\ AtOption
    /\ CapacityTaken

LEMMA StartBounds ==
    /\ DefaultCapacity \in 0 .. MaxRequest /\ MaxRequest \in Nat
    /\ Width \in Nat /\ Width > 1
<1>1. Width \in Nat /\ Width > 1 /\ IndexMod \in Nat
  BY SizingAssumption, Powers DEF IndexMod
<1> QED
  BY <1>1, SizingAssumption, StartupAssumption

(* What a file gives, and what is read for a number, can be asked for.     *)
LEMMA ValuesFit ==
    ASSUME toml \in TomlFiles, NEW word
    PROVE  Loaded(word) \in 0 .. MaxRequest /\ AsNumber(word) \in 0 .. MaxRequest
<1>1. /\ toml \in [Words -> (0 .. MaxRequest) \cup {NoCapacity}]
      /\ Number \in [Words -> 0 .. MaxRequest]
  BY StartupAssumption
<1> QED
  BY <1>1, StartBounds DEF Loaded, AsNumber

LEMMA StartInitial ==
    ASSUME StartInit
    PROVE  StartInv
<1>1. argv \in Seq(Arguments)
  <2>1. argv \in UNION {[1 .. m -> Arguments] : m \in 0 .. MaxArgs} /\ MaxArgs \in Nat
    BY StartupAssumption DEF StartInit, SeqOf
  <2>2. PICK m \in 0 .. MaxArgs : argv \in [1 .. m -> Arguments]
    BY <2>1
  <2> QED
    BY <2>1, <2>2, SeqDef
<1>2. StartTypes
  BY <1>1, StartBounds DEF StartInit, StartTypes
<1>3. Construction /\ FileNamed /\ CapacityTaken
  BY DEF StartInit, Construction, FileNamed, CapacityTaken
<1>4. AtOption
  <2>1. next = 1 /\ Len(argv) \in Nat
    BY <1>1, LenProperties DEF StartInit
  <2>2. 1 <= Len(argv) => 1 \in 1 .. Len(argv)
    BY <2>1
  <2>3. 1 <= Len(argv) => 1 \in Begins(argv)
    BY <1>1, <2>2, BeginsDefined
  <2> QED
    BY <2>1, <2>3 DEF AtOption
<1> QED
  BY <1>2, <1>3, <1>4 DEF StartInv

(* Where an option with a value, a flag or a word is taken, the next       *)
(* option begins behind it.                                                *)
LEMMA NextBegins ==
    ASSUME StartTypes, AtOption, next <= Len(argv)
    PROVE  /\ next \in Begins(argv) /\ next \in 1 .. Len(argv)
           /\ argv[next] \in TakesValue =>
                /\ next + 1 \notin Begins(argv)
                /\ next + 2 <= Len(argv) => next + 2 \in Begins(argv)
           /\ argv[next] \notin TakesValue /\ next + 1 <= Len(argv) =>
                next + 1 \in Begins(argv)
<1> DEFINE n == Len(argv)
           B == Begins(argv)
<1>1. n \in Nat /\ next \in Nat /\ next > 0 /\ argv \in Seq(Arguments)
  BY LenProperties DEF StartTypes
<1>2. /\ B \in SUBSET (1 .. n)
      /\ \A i \in 1 .. n : i \in B <=> (i > 1 => ~ (i - 1 \in B /\ argv[i - 1] \in TakesValue))
  BY <1>1, BeginsDefined
<1>3. next \in B
  BY DEF AtOption
<1> HIDE DEF B, n
<1>4. next + 1 > 1 /\ (next + 1) - 1 = next /\ next + 2 > 1 /\ (next + 2) - 1 = next + 1
  BY <1>1
<1>5. next + 1 \in B => next + 1 \in 1 .. n
  BY <1>2
<1>6. /\ next + 1 <= n => next + 1 \in 1 .. n
      /\ next + 2 <= n => next + 2 \in 1 .. n
  BY <1>1
<1>7. argv[next] \in TakesValue => next + 1 \notin B
  BY <1>2, <1>3, <1>4, <1>5
<1>8. argv[next] \in TakesValue /\ next + 2 <= n => next + 2 \in B
  BY <1>2, <1>4, <1>6, <1>7
<1>9. argv[next] \notin TakesValue /\ next + 1 <= n => next + 1 \in B
  BY <1>2, <1>4, <1>6
<1> QED
  BY <1>2, <1>3, <1>7, <1>8, <1>9 DEF B, n

(* The search for --config.                                                *)
LEMMA LoadKeeps ==
    ASSUME StartInv, LoadConfig
    PROVE  StartInv'
<1>1. StartTypes /\ Construction /\ FileNamed /\ AtOption
  BY DEF StartInv
<1>2. /\ phase = "scan" /\ phase' = "seed" /\ next' = next /\ argv' = argv /\ toml' = toml
      /\ UNCHANGED sizeVars
      /\ \/ Named = {} /\ config' = config /\ opt' = opt
         \/ \E i \in Named : /\ config' = Loaded(argv[i + 1])
                             /\ opt' = [opt EXCEPT !.config = argv[i + 1]]
  BY DEF LoadConfig
<1>3. FileNamed'
  <2>1. Named' = Named /\ \A word : Loaded(word)' = Loaded(word)
    BY <1>2, Zenon DEF Named, Loaded
  <2>2. config = DefaultCapacity
    BY <1>1, <1>2 DEF FileNamed
  <2>3. CASE Named = {} /\ config' = config
    BY <1>2, <2>1, <2>2, <2>3, Zenon DEF FileNamed
  <2>4. CASE \E i \in Named : config' = Loaded(argv[i + 1])
    <3>1. PICK i \in Named : config' = Loaded(argv[i + 1])
      BY <2>4
    <3>2. Loaded(argv[i + 1])' = Loaded(argv[i + 1])
      BY <1>2, Zenon DEF Loaded
    <3>3. phase' # "scan"
      BY <1>2
    <3> QED
      BY <2>1, <3>1, <3>2, <3>3, Zenon DEF FileNamed
  <2> QED
    BY <1>2, <2>3, <2>4
<1>4. StartTypes'
  <2>1. argv \in Seq(Arguments) /\ toml \in TomlFiles /\ Len(argv) \in Nat
    BY <1>1, LenProperties DEF StartTypes
  <2>2. \A i \in Named : argv[i + 1] \in Arguments
    <3>1. \A i \in Named : i + 1 \in 1 .. Len(argv)
      BY <2>1 DEF Named
    <3> QED
      BY <2>1, <3>1, ElementOfSeq
  <2>3. \A i \in Named : Loaded(argv[i + 1]) \in 0 .. MaxRequest
    BY <2>1, ValuesFit
  <2>4. config' \in 0 .. MaxRequest
    BY <1>1, <1>2, <2>3 DEF StartTypes
  <2>5. opt' \in [config : Arguments \cup {Empty}, capacity : 0 .. MaxRequest,
                  replay : Arguments \cup {Empty}, flags : SUBSET Flags]
    BY <1>1, <1>2, <2>2 DEF StartTypes
  <2> QED
    BY <1>1, <1>2, <2>4, <2>5 DEF StartTypes
<1>5. Construction' /\ AtOption' /\ CapacityTaken'
  BY <1>1, <1>2 DEF Construction, AtOption, CapacityTaken, sizeVars
<1> QED
  BY <1>3, <1>4, <1>5 DEF StartInv

(* Steps that leave the files and the arguments alone.                     *)
LEMMA SameFile ==
    ASSUME FileNamed, phase # "scan", phase' # "scan",
           argv' = argv, toml' = toml, config' = config
    PROVE  FileNamed'
<1>1. Named' = Named /\ \A i : Loaded(argv[i + 1])' = Loaded(argv[i + 1])
  BY Zenon DEF Named, Loaded
<1>2. \/ Named = {} /\ config = DefaultCapacity
      \/ \E i \in Named : config = Loaded(argv[i + 1])
  BY DEF FileNamed
<1> QED
  BY <1>1, <1>2, Zenon DEF FileNamed

(* The file's value, taken over.                                           *)
LEMMA SeedKeeps ==
    ASSUME StartInv, SeedFromConfig
    PROVE  StartInv'
<1>1. StartTypes /\ Construction /\ FileNamed /\ AtOption
  BY DEF StartInv
<1>2. /\ phase = "seed" /\ phase' = "apply" /\ next' = next /\ argv' = argv /\ toml' = toml
      /\ config' = config /\ UNCHANGED sizeVars
      /\ opt' = [opt EXCEPT !.capacity = config]
  BY DEF SeedFromConfig
<1>3. FileNamed'
  BY <1>1, <1>2, SameFile
<1>4. StartTypes' /\ Construction'
  BY <1>1, <1>2 DEF StartTypes, Construction, sizeVars
<1>5. AtOption'
  BY <1>1, <1>2 DEF AtOption
<1>6. CapacityTaken'
  <2>1. next' = 1 /\ opt'.capacity = config'
    BY <1>1, <1>2 DEF AtOption, StartTypes
  <2>2. Begins(argv) \in SUBSET (1 .. Len(argv))
    BY <1>1, BeginsDefined DEF StartTypes
  <2>3. Given(next)' = {}
    <3>1. \A i \in Begins(argv) : ~ (i < 1)
      BY <2>2
    <3> QED
      BY <1>2, <2>1, <3>1 DEF Given
  <2> QED
    BY <2>1, <2>3 DEF CapacityTaken
<1> QED
  BY <1>3, <1>4, <1>5, <1>6 DEF StartInv

(* What the next step of apply_cli does to the capacity.                   *)
LEMMA GivenFurther ==
    ASSUME StartTypes, AtOption, next <= Len(argv), WellFormed(argv),
           NEW further \in {next + 1, next + 2},
           further = IF argv[next] \in TakesValue THEN next + 2 ELSE next + 1
    PROVE  /\ argv[next] # "--ring-capacity" => Given(further) = Given(next)
           /\ argv[next] = "--ring-capacity" =>
                /\ next \in Given(further)
                /\ \A i \in Given(further) : i <= next
<1>1. /\ next \in Begins(argv) /\ next \in 1 .. Len(argv)
      /\ argv[next] \in TakesValue => next + 1 \notin Begins(argv)
  BY NextBegins
<1>2. Begins(argv) \in SUBSET (1 .. Len(argv)) /\ Len(argv) \in Nat /\ next \in Nat
  BY BeginsDefined, LenProperties DEF StartTypes
<1> HIDE DEF Begins
<1>3. \A i \in Begins(argv) : i < further <=> i < next \/ i = next
  <2>1. \A i \in Nat : i < next + 1 <=> i < next \/ i = next
    BY <1>2
  <2>2. \A i \in Nat : i < next + 2 <=> i < next + 1 \/ i = next + 1
    BY <1>2
  <2> QED
    BY <1>1, <1>2, <2>1, <2>2
<1>4. argv[next] # "--ring-capacity" => Given(further) = Given(next)
  BY <1>3 DEF Given
<1>5. CASE argv[next] = "--ring-capacity"
  <2>1. next # Len(argv)
    BY <1>1, <1>5 DEF WellFormed, TakesValue
  <2>2. next < Len(argv)
    BY <1>1, <1>2, <2>1
  <2> QED
    BY <1>1, <1>2, <1>3, <1>5, <2>2 DEF Given
<1> QED
  BY <1>4, <1>5

(* apply_cli takes an argument.                                            *)
LEMMA ApplyKeeps ==
    ASSUME StartInv, TakeOption \/ TakeFlag \/ TakeWord
    PROVE  StartInv'
<1>1. StartTypes /\ Construction /\ FileNamed /\ AtOption /\ CapacityTaken
  BY DEF StartInv
<1>2. /\ phase = "apply" /\ phase' = "apply" /\ argv' = argv /\ toml' = toml
      /\ config' = config /\ UNCHANGED sizeVars /\ next <= Len(argv)
  BY DEF TakeOption, TakeFlag, TakeWord
<1>3. next \in Nat \ {0} /\ Len(argv) \in Nat /\ argv \in Seq(Arguments)
  BY <1>1, LenProperties DEF StartTypes
<1>4. /\ next' = (IF argv[next] \in TakesValue THEN next + 2 ELSE next + 1)
      /\ argv[next] \notin TakesValue => opt'.capacity = opt.capacity
      /\ argv[next] \in TakesValue => opt' = Option(argv[next], Value)
      /\ argv[next] \notin TakesValue =>
           opt' \in {opt, [opt EXCEPT !.flags = @ \cup {argv[next]}]} /\ opt'.flags \subseteq opt.flags \cup Flags
  <2>1. CASE TakeOption
    BY <2>1 DEF TakeOption
  <2>2. CASE TakeFlag
    BY <1>1, <2>2, StartupAssumption DEF TakeFlag, StartTypes
  <2>3. CASE TakeWord
    BY <2>3, StartupAssumption DEF TakeWord
  <2> QED
    BY <2>1, <2>2, <2>3
<1>5. Value \in Arguments \cup {Empty}
  <2>1. next < Len(argv) => next + 1 \in 1 .. Len(argv)
    BY <1>3
  <2> QED
    BY <1>3, <2>1, ElementOfSeq DEF Value
<1>6. argv[next] \in TakesValue =>
        opt' = CASE argv[next] = "--config"        -> [opt EXCEPT !.config = Value]
                 [] argv[next] = "--ring-capacity" -> [opt EXCEPT !.capacity = AsNumber(Value)]
                 [] argv[next] = "--replay"        -> [opt EXCEPT !.replay = Value]
  BY <1>4 DEF Option
<1>7. StartTypes'
  <2>1. AsNumber(Value) \in 0 .. MaxRequest
    BY <1>1, ValuesFit DEF StartTypes
  <2> DEFINE Options == [config : Arguments \cup {Empty}, capacity : 0 .. MaxRequest,
                         replay : Arguments \cup {Empty}, flags : SUBSET Flags]
  <2>2. opt \in Options
    BY <1>1 DEF StartTypes
  <2>3. CASE argv[next] \in TakesValue
    <3> HIDE DEF Value, AsNumber
    <3>1. CASE argv[next] = "--config"
      BY <1>2, <1>3, <1>4, <1>5, <1>6, <2>2, <2>3, <3>1, <1>1 DEF StartTypes
    <3>2. CASE argv[next] = "--ring-capacity"
      BY <1>2, <1>3, <1>4, <1>6, <2>1, <2>2, <2>3, <3>2, <1>1 DEF StartTypes
    <3>3. CASE argv[next] = "--replay"
      BY <1>2, <1>3, <1>4, <1>5, <1>6, <2>2, <2>3, <3>3, <1>1 DEF StartTypes
    <3> QED
      BY <2>3, <3>1, <3>2, <3>3 DEF TakesValue
  <2>4. CASE argv[next] \notin TakesValue
    <3>1. opt' \in Options
      BY <1>4, <2>2, <2>4
    <3> QED
      BY <1>1, <1>2, <1>3, <1>4, <2>4, <3>1 DEF StartTypes
  <2> QED
    BY <2>3, <2>4
<1>8. Construction'
  BY <1>1, <1>2 DEF Construction, sizeVars
<1>9. FileNamed'
  BY <1>1, <1>2, SameFile
<1>10. AtOption'
  <2>1. /\ argv[next] \in TakesValue /\ next + 2 <= Len(argv) =>
             next + 2 \in Begins(argv)
        /\ argv[next] \notin TakesValue /\ next + 1 <= Len(argv) =>
             next + 1 \in Begins(argv)
    BY <1>1, <1>2, NextBegins
  <2> QED
    BY <1>2, <1>4, <2>1 DEF AtOption
<1>11. CapacityTaken'
  <2>1. SUFFICES ASSUME WellFormed(argv)
                 PROVE  opt'.capacity = IF Given(next') = {} THEN config
                                        ELSE AsNumber(argv[Max(Given(next')) + 1])
    BY <1>2 DEF CapacityTaken, Given
  <2>2. opt.capacity = IF Given(next) = {} THEN config
                       ELSE AsNumber(argv[Max(Given(next)) + 1])
    BY <1>1, <1>2, <2>1 DEF CapacityTaken
  <2>3. /\ argv[next] # "--ring-capacity" => Given(next') = Given(next)
        /\ argv[next] = "--ring-capacity" =>
             next \in Given(next') /\ \A i \in Given(next') : i <= next
    BY <1>1, <1>2, <1>4, <2>1, GivenFurther
  <2> HIDE DEF Given
  <2>4. CASE argv[next] = "--ring-capacity"
    <3>1. Given(next') \in SUBSET Int
      BY <1>3, BeginsDefined DEF Given
    <3>2. Max(Given(next')) = next /\ Given(next') # {}
      BY <2>3, <2>4, <3>1, ExtremeIs
    <3>3. opt'.capacity = AsNumber(Value)
      BY <1>1, <1>6, <2>4 DEF TakesValue, StartTypes
    <3>4. next < Len(argv)
      BY <2>3, <2>4 DEF Given
    <3> QED
      BY <3>2, <3>3, <3>4 DEF Value
  <2>5. CASE argv[next] # "--ring-capacity"
    <3>1. opt'.capacity = opt.capacity
      <4>1. opt \in [config : Arguments \cup {Empty}, capacity : 0 .. MaxRequest,
                     replay : Arguments \cup {Empty}, flags : SUBSET Flags]
        BY <1>1 DEF StartTypes
      <4> HIDE DEF Value, AsNumber
      <4> QED
        BY <1>4, <1>6, <2>5, <4>1 DEF TakesValue
    <3> QED
      BY <2>2, <2>3, <2>5, <3>1, Zenon
  <2> QED
    BY <2>4, <2>5
<1> QED
  BY <1>7, <1>8, <1>9, <1>10, <1>11 DEF StartInv

(* main exits, or constructs the ring, turn by turn of its loop.           *)
LEMMA LeaveKeeps ==
    ASSUME StartInv, ExitEarly \/ ConstructRing \/ SizeRing \/ BenchAgain \/ EndBench
    PROVE  StartInv'
<1>1. StartTypes /\ Construction /\ FileNamed /\ AtOption /\ CapacityTaken
  BY DEF StartInv
<1>2. /\ phase \in {"apply", "ring", "hooked"} /\ phase' \in {"exited", "ring", "hooked"}
      /\ argv' = argv /\ toml' = toml /\ config' = config /\ next' = next /\ opt' = opt
  BY DEF ExitEarly, ConstructRing, SizeRing, BenchAgain, EndBench, EnterConstructor, startVars
<1>3. StartTypes'
  BY <1>1, <1>2 DEF StartTypes
<1>4. FileNamed'
  BY <1>1, <1>2, SameFile
<1>5. AtOption'
  BY <1>1, <1>2 DEF AtOption
<1>6. CapacityTaken'
  BY <1>1, <1>2 DEF CapacityTaken, Given
<1>7. Construction'
  <2>1. CASE ExitEarly
    BY <1>1, <2>1 DEF ExitEarly, Construction, sizeVars
  <2>2. CASE ConstructRing \/ BenchAgain
    <3>1. /\ capacity' = opt.capacity /\ cap' = 1 /\ pc' = "loop"
          /\ phase' \in {"ring", "hooked"} /\ next > Len(argv)
      BY <1>1, <2>2 DEF ConstructRing, BenchAgain, EnterConstructor, StartTypes, Construction
    <3>2. opt.capacity \in 0 .. MaxRequest
      BY <1>1 DEF StartTypes
    <3>3. 0 \in 0 .. (Width - 1) /\ PowerOfTwo[0] = 1 /\ 0 .. (0 - 1) = {}
      BY StartBounds, Powers
    <3>4. SizingInv'
      BY <3>1, <3>2, <3>3 DEF SizingInv
    <3> QED
      BY <1>2, <3>1, <3>4 DEF Construction
  <2>3. CASE SizeRing
    <3>1. SizeNext /\ phase \in {"ring", "hooked"} /\ phase' = phase /\ pc = "loop"
      BY <2>3 DEF SizeRing, startVars, SizeNext, Double, Allocate, AllocateFails
    <3>2. SizingInv /\ capacity = opt.capacity /\ next > Len(argv)
      BY <1>1, <3>1 DEF Construction
    <3>3. SizingInv'
      BY <3>1, <3>2, SizingStep
    <3>4. capacity' = capacity /\ pc' # "off"
      BY <3>1 DEF SizeNext, Double, Allocate, AllocateFails
    <3> QED
      BY <1>2, <3>1, <3>2, <3>3, <3>4 DEF Construction
  <2>4. CASE EndBench
    <3>1. phase = "hooked" /\ phase' = "exited" /\ pc = "sized" /\ UNCHANGED sizeVars
      BY <2>4 DEF EndBench
    <3> QED
      BY <1>1, <1>2, <3>1 DEF Construction, SizingInv, sizeVars
  <2> QED
    BY <2>1, <2>2, <2>3, <2>4
<1> QED
  BY <1>3, <1>4, <1>5, <1>6, <1>7 DEF StartInv

LEMMA StartStep == StartInv /\ [StartNext]_allVars => StartInv'
<1> SUFFICES ASSUME StartInv, [StartNext]_allVars
             PROVE  StartInv'
  OBVIOUS
<1>1. CASE StartNext
  BY <1>1, LoadKeeps, SeedKeeps, ApplyKeeps, LeaveKeeps DEF StartNext
<1>2. CASE UNCHANGED allVars
  BY <1>2 DEF allVars, sizeVars, startVars, StartInv, StartTypes, Construction, SizingInv,
              FileNamed, Named, Loaded, AtOption, CapacityTaken, Given
<1> QED
  BY <1>1, <1>2

LEMMA StartInvariant == StartSpec => []StartInv
BY StartInitial, StartStep, PTL DEF StartSpec

(* "capacity is rounded up to a power of two so head/tail wrap with a      *)
(* mask" (ring_buffer.hpp 19): whatever is asked for, a ring that is       *)
(* constructed has the smallest power of two that holds it.  That divides  *)
(* the range of the index words and leaves the full test a value to spare: *)
(* the ring's assumption on Cap (SpscRing) is what main delivers.          *)
THEOREM StartUsableCapacity == StartSpec => []UsableCapacity
<1>1. StartInv => UsableCapacity
  <2>1. SUFFICES ASSUME StartInv, pc = "sized"
                 PROVE  UsableCapacity
    BY DEF UsableCapacity
  <2>2. SizingInv
    BY <2>1 DEF StartInv, Construction
  <2> QED
    BY <2>2, SizingDelivers
<1> QED
  BY <1>1, StartInvariant, PTL

(* What StartEnds says of every state: a capacity above half the range of  *)
(* the word keeps main in the constructor's loop (ring_buffer.hpp 22-23),  *)
(* whatever the width.  No power of two it can reach is large enough.      *)
THEOREM StartTooLargeLoops == StartSpec => [](TooLarge => pc = "loop")
<1>1. StartInv => (TooLarge => pc = "loop")
  <2>1. SUFFICES ASSUME StartInv, TooLarge, pc # "loop"
                 PROVE  FALSE
    OBVIOUS
  <2> DEFINE power == PowerOfTwo
             half == power[Width - 1]
  <2>2. /\ Width \in Nat /\ Width > 1
        /\ \A k \in 0 .. Width : power[k] \in Nat \ {0}
        /\ \A k \in 0 .. Width : \A m \in k .. Width : power[k] <= power[m]
    BY SizingAssumption, Powers, PowersGrow
  <2>3. Width - 1 \in 0 .. Width /\ half \in Nat \ {0} /\ capacity > half
    BY <2>1, <2>2 DEF TooLarge
  <2>4. pc # "off"
    <3>1. pc = "off" => capacity = 0
      BY <2>1 DEF StartInv, Construction
    <3> QED
      BY <2>3, <3>1
  <2>5. SizingInv
    BY <2>1, <2>4 DEF StartInv, Construction
  <2>6. PICK k \in 0 .. (Width - 1) : cap = power[k] /\ cap >= capacity
    BY <2>1, <2>5 DEF SizingInv
  <2>7. power[k] <= half /\ power[k] \in Nat
    BY <2>2, <2>3, <2>6
  <2>8. capacity \in Int
    BY <2>5, StartBounds DEF SizingInv
  <2> HIDE DEF power, half
  <2> QED
    BY <2>3, <2>6, <2>7, <2>8
<1> QED
  BY <1>1, StartInvariant, PTL

(* The file searched for is the one that apply_cli finds named last.       *)
LEMMA SameName ==
    ASSUME StartTypes, WellFormed(argv)
    PROVE  /\ Named = {} => LastOf("--config") = 0
           /\ \A i \in Named : LastOf("--config") = i /\ i # 0
<1> DEFINE at == {i \in Begins(argv) : argv[i] = "--config" /\ i < Len(argv)}
<1>1. argv \in Seq(Arguments) /\ Len(argv) \in Nat /\ DOMAIN argv = 1 .. Len(argv)
  BY LenProperties DEF StartTypes
<1>2. Begins(argv) \in SUBSET (1 .. Len(argv))
  BY <1>1, BeginsDefined
<1>3. at = {i \in 1 .. (Len(argv) - 1) : argv[i] = "--config"}
  BY <1>1, <1>2 DEF WellFormed
<1>4. LastOf("--config") = IF at = {} THEN 0 ELSE Max(at)
  BY DEF LastOf
<1> HIDE DEF at
<1>5. at \in SUBSET Int /\ IsFiniteSet(at)
  <2>1. IsFiniteSet(1 .. (Len(argv) - 1)) /\ at \subseteq 1 .. (Len(argv) - 1)
    BY <1>1, <1>3, FS_Interval
  <2>2. \A x \in at : x \in Int
    BY <1>1, <2>1
  <2> QED
    BY <2>1, <2>2, FS_Subset
<1>6. ASSUME NEW i \in Named
      PROVE  LastOf("--config") = i /\ i # 0
  <2>1. i \in at /\ i \in 1 .. (Len(argv) - 1)
    BY <1>3 DEF Named
  <2>2. \A j \in at : j <= i
    <3>1. \A j \in (i + 1) .. (Len(argv) - 1) : j \notin at
      BY <1>3 DEF Named
    <3>2. \A j \in 1 .. (Len(argv) - 1) : j <= i \/ j \in (i + 1) .. (Len(argv) - 1)
      BY <1>1, <2>1
    <3> QED
      BY <1>3, <3>1, <3>2
  <2>3. Max(at) = i
    BY <1>5, <2>1, <2>2, ExtremeIs
  <2> QED
    BY <1>4, <2>1, <2>3
<1>7. ASSUME at # {} PROVE Named # {}
  <2>1. Max(at) \in at /\ \A j \in at : j <= Max(at)
    BY <1>5, <1>7, ExtremesOf
  <2> DEFINE m == Max(at)
  <2> HIDE DEF m
  <2>2. m \in at /\ \A j \in at : j <= m
    BY <2>1 DEF m
  <2>3. \A j \in (m + 1) .. (Len(argv) - 1) : j \notin at
    BY <1>1, <1>3, <2>2
  <2>4. \A j \in (m + 1) .. (Len(argv) - 1) : j \in 1 .. (Len(argv) - 1)
    BY <1>1, <1>3, <2>2
  <2>5. m \in Named
    BY <1>3, <2>2, <2>3, <2>4 DEF Named
  <2> QED
    BY <2>5
<1> QED
  BY <1>4, <1>6, <1>7

(* "CLI overrides" (main.cpp 71): on command lines of any length.          *)
THEOREM StartCommandLineWins == StartSpec => []CommandLineWins
<1>1. StartInv => CommandLineWins
  <2>1. SUFFICES ASSUME StartInv, phase \in {"ring", "hooked"}, WellFormed(argv)
                 PROVE  capacity = IF LastOf("--ring-capacity") # 0
                                   THEN AsNumber(argv[LastOf("--ring-capacity") + 1])
                                   ELSE IF LastOf("--config") # 0
                                        THEN Loaded(argv[LastOf("--config") + 1])
                                        ELSE DefaultCapacity
    BY DEF CommandLineWins, WellFormed
  <2>2. /\ StartTypes /\ capacity = opt.capacity /\ next > Len(argv)
        /\ \/ Named = {} /\ config = DefaultCapacity
           \/ \E i \in Named : config = Loaded(argv[i + 1])
        /\ opt.capacity = IF Given(next) = {} THEN config
                          ELSE AsNumber(argv[Max(Given(next)) + 1])
    BY <2>1 DEF StartInv, Construction, FileNamed, CapacityTaken
  <2>3. /\ argv \in Seq(Arguments) /\ Len(argv) \in Nat /\ next \in Nat
        /\ Begins(argv) \in SUBSET (1 .. Len(argv))
    BY <2>2, BeginsDefined, LenProperties DEF StartTypes
  <2>4. config = IF LastOf("--config") # 0 THEN Loaded(argv[LastOf("--config") + 1])
                 ELSE DefaultCapacity
    <3>1. CASE Named = {} /\ config = DefaultCapacity
      BY <2>1, <2>2, <3>1, SameName
    <3>2. CASE \E i \in Named : config = Loaded(argv[i + 1])
      <4>1. PICK i \in Named : config = Loaded(argv[i + 1])
        BY <3>2
      <4>2. LastOf("--config") = i /\ i # 0
        BY <2>1, <2>2, SameName
      <4> QED
        BY <4>1, <4>2
    <3> QED
      BY <2>2, <3>1, <3>2
  <2> DEFINE at == {i \in Begins(argv) : argv[i] = "--ring-capacity" /\ i < Len(argv)}
  <2>5. Given(next) = at
    BY <2>2, <2>3 DEF Given
  <2>6. LastOf("--ring-capacity") = IF at = {} THEN 0 ELSE Max(at)
    BY DEF LastOf
  <2>7. at # {} => Max(at) # 0
    <3>1. IsFiniteSet(at) /\ at \in SUBSET Int /\ at \subseteq 1 .. Len(argv)
      <4>1. IsFiniteSet(1 .. Len(argv)) /\ at \subseteq 1 .. Len(argv)
        BY <2>3, FS_Interval
      <4> HIDE DEF at
      <4>2. \A x \in at : x \in Int
        BY <2>3, <4>1
      <4> QED
        BY <4>1, <4>2, FS_Subset
    <3> HIDE DEF at
    <3>2. at # {} => Max(at) \in at
      BY <3>1, ExtremesOf
    <3> QED
      BY <3>1, <3>2
  <2> HIDE DEF at
  <2>8. CASE at = {}
    BY <2>2, <2>4, <2>5, <2>6, <2>8
  <2>9. CASE at # {}
    BY <2>2, <2>5, <2>6, <2>7, <2>9
  <2> QED
    BY <2>8, <2>9
<1> QED
  BY <1>1, StartInvariant, PTL

=============================================================================
