---------------------------- MODULE CaptureProofs ----------------------------
(***************************************************************************)
(* What the capturer delivers: its hook and, in the second half, the       *)
(* statistics it computes of a tensor.                                     *)
(*                                                                         *)
(* What a live run captures, for any graph of ops, mask, prompt, size of a *)
(* pass and of a matrix, and any user.                                     *)
(*                                                                         *)
(* RichestPublished speaks of the whole history of matrices, the code      *)
(* remembers one: the last published, which is always of the layer of the  *)
(* last one built (LastIsOne).  LatencyIsTimeInPass needs that the clock   *)
(* of the previous op is set exactly when the pass has captured one        *)
(* (ClockOfPass).                                                          *)
(*                                                                         *)
(* The statistics are those of the sampled elements, for any tensor, any   *)
(* limit of the scan and any finite set of values: between two turns of    *)
(* the loop the accumulators are those of the sampled elements before its  *)
(* index (ScanInv), which is one of the sample (SeenGrows).                *)
(***************************************************************************)
EXTENDS CaptureHook, Stats, SequenceLemmas

Matrix == [layer : {Graph[i].layer : i \in 1 .. Len(Graph)}, rows : Nat]

Types ==
    /\ pc \in {"prompt", "generate", "evaluate", "offer", "done"}
    /\ left \in Nat /\ node \in 0 .. Len(Graph)
    /\ pc = "offer" => node > 0
    /\ clock \in Nat \ {0} /\ prev \in 0 .. clock
    /\ pass \in [first : Nat, ops : Nat, latency : Nat]
    /\ offers \in Seq(Matrix)

(* The matrix published last, and what the code keeps of it.               *)
LastIsOne ==
    IF offers = <<>> THEN last = NoMatrix
    ELSE /\ latest.at \in 1 .. Len(offers)
         /\ last = offers[latest.at] /\ latest.rows = last.rows
         /\ last.layer = offers[Len(offers)].layer

ClockOfPass ==
    /\ prev = 0 <=> pass.ops = 0
    /\ pass.ops = 0 => pass.latency = 0
    /\ pass.ops > 0 => pass.first <= prev

CaptureInv ==
    /\ Types
    /\ LastIsOne /\ RichestPublished
    /\ ClockOfPass /\ LatencyIsTimeInPass
-----------------------------------------------------------------------------
(* The constants, one by one.                                              *)
LEMMA Constants ==
    /\ Len(Graph) \in Nat
    /\ Prompt \in Nat /\ MaxPause \in Nat
    /\ UBatch \in Nat \ {0} /\ MaxDim \in Nat \ {0} /\ NsPerUs \in Nat \ {0}
<1>1. Len(Graph) \in Nat
  BY CaptureAssumption, LenProperties DEF CaptureAssumption
<1> QED
  BY <1>1, CaptureAssumption DEF CaptureAssumption

(* A time cut to whole microseconds: less than one is lost.                *)
LEMMA CutTime ==
    ASSUME NEW d \in Nat, NEW unit \in Nat \ {0}
    PROVE  /\ d \div unit \in Nat
           /\ (d \div unit) * unit <= d
           /\ d <= (d \div unit) * unit + (unit - 1)
<1>1. /\ d \div unit \in Int /\ d % unit \in 0 .. (unit - 1)
      /\ d = unit * (d \div unit) + (d % unit)
  OBVIOUS
<1>2. d \div unit >= 0
  <2> SUFFICES ASSUME d \div unit <= -1 PROVE FALSE
    BY <1>1
  <2>1. \A q \in Int : q <= -1 => unit * q <= - unit
    OBVIOUS
  <2>2. unit * (d \div unit) <= - unit
    BY <1>1, <2>1
  <2> QED
    BY <1>1, <2>2
<1>3. unit * (d \div unit) = (d \div unit) * unit
  BY <1>1
<1> QED
  BY <1>1, <1>2, <1>3

(* One more op: its time is added to the sum, cut.                         *)
LEMMA OneMoreOp ==
    ASSUME NEW unit \in Nat \ {0}, NEW sum \in Nat, NEW time \in Nat, NEW ops \in Nat \ {0},
           NEW d \in Nat,
           sum * unit <= time, time <= sum * unit + (ops - 1) * (unit - 1)
    PROVE  LET more == sum + d \div unit
           IN  /\ more * unit <= time + d
               /\ time + d <= more * unit + ops * (unit - 1)
<1> DEFINE q == d \div unit
<1>1. q \in Nat /\ q * unit <= d /\ d <= q * unit + (unit - 1)
  BY CutTime
<1> HIDE DEF q
<1>2. (sum + q) * unit = sum * unit + q * unit
  BY <1>1
<1>3. ops * (unit - 1) = (ops - 1) * (unit - 1) + (unit - 1)
  OBVIOUS
<1>4. /\ sum * unit \in Nat /\ q * unit \in Nat /\ (sum + q) * unit \in Nat
      /\ (ops - 1) * (unit - 1) \in Int /\ ops * (unit - 1) \in Int
  BY <1>1
<1> QED
  BY <1>1, <1>2, <1>3, <1>4 DEF q

(* The first op: nothing is lost.                                          *)
LEMMA FirstOp ==
    ASSUME NEW unit \in Nat \ {0}, NEW time \in Nat
    PROVE  time - time = 0 /\ 0 * unit = 0 /\ (1 - 1) * (unit - 1) = 0
OBVIOUS

(* Distances on the clock.                                                 *)
LEMMA Distances ==
    ASSUME NEW first \in Nat, NEW before \in Nat, NEW now \in Nat,
           first <= before, before < now
    PROVE  /\ before - first \in Nat /\ now - before \in Nat
           /\ now - first = (before - first) + (now - before)
           /\ first <= now
OBVIOUS
-----------------------------------------------------------------------------
(* Steps that build no matrix.                                             *)
LEMMA NothingOffered ==
    ASSUME LastIsOne, RichestPublished, UNCHANGED <<last, latest, offers>>
    PROVE  LastIsOne' /\ RichestPublished'
BY DEF LastIsOne, RichestPublished

(* Steps that capture nothing.                                             *)
LEMMA NothingCaptured ==
    ASSUME ClockOfPass, LatencyIsTimeInPass, UNCHANGED <<prev, pass>>
    PROVE  ClockOfPass' /\ LatencyIsTimeInPass'
BY DEF ClockOfPass, LatencyIsTimeInPass

(* llama_decode begins: the clock is primed.                               *)
LEMMA Primed ==
    ASSUME NEW tokens, Decode(tokens)
    PROVE  ClockOfPass' /\ LatencyIsTimeInPass'
BY DEF Decode, NewPass, ClockOfPass, LatencyIsTimeInPass
-----------------------------------------------------------------------------
(* The invariant holds at the start.                                       *)
LEMMA CaptureInit == Init => CaptureInv
<1> SUFFICES ASSUME Init PROVE CaptureInv
  OBVIOUS
<1>1. Types
  BY Constants, EmptySeq DEF Init, Types, NewPass
<1>2. LastIsOne /\ RichestPublished
  BY DEF Init, LastIsOne, RichestPublished
<1>3. ClockOfPass /\ LatencyIsTimeInPass
  BY DEF Init, ClockOfPass, LatencyIsTimeInPass, NewPass
<1> QED
  BY <1>1, <1>2, <1>3 DEF CaptureInv

(* The types.                                                              *)
LEMMA TypesNext ==
    ASSUME CaptureInv, Next
    PROVE  Types'
<1>1. Types /\ ClockOfPass
  BY DEF CaptureInv
<1>2. ASSUME TimePasses
      PROVE  clock' \in Nat \ {0} /\ clock' > clock
  BY <1>1, <1>2, Constants DEF TimePasses, Types
<1>3. NewPass \in [first : Nat, ops : Nat, latency : Nat]
  BY DEF NewPass
<1>4. ASSUME NEW tokens \in Nat, Decode(tokens), clock' \in Nat \ {0},
             UNCHANGED offers
      PROVE  Types'
  BY <1>1, <1>3, <1>4, Constants DEF Types, Decode
<1>5. CASE Prefill
  BY <1>1, <1>4, <1>5, Constants DEF Prefill, Types
<1>6. CASE GenerateToken
  BY <1>2, <1>4, <1>6 DEF GenerateToken
<1>7. CASE SkipPrefill \/ StopGenerating \/ DecodeFails
  BY <1>1, <1>7 DEF Types, SkipPrefill, StopGenerating, DecodeFails
<1>8. CASE EvaluateMasked
  BY <1>1, <1>2, <1>8, Constants DEF Types, EvaluateMasked
<1>9. CASE Capture
  <2>1. /\ node + 1 \in 0 .. Len(Graph) /\ node + 1 > 0
        /\ node' = node + 1 /\ prev' = clock' /\ clock' \in Nat \ {0}
        /\ pc' \in {"offer", "evaluate"} /\ left' = left /\ offers' = offers
    BY <1>1, <1>2, <1>9, Constants DEF Types, Capture
  <2>2. pass' \in [first : Nat, ops : Nat, latency : Nat]
    <3>1. pass.first \in Nat /\ pass.ops \in Nat /\ pass.latency \in Nat
      BY <1>1 DEF Types
    <3>2. clock' - prev \in Nat
      BY <1>1, <1>2, <1>9 DEF Types, Capture
    <3>3. (clock' - prev) \div NsPerUs \in Nat
      BY <3>2, Constants, CutTime
    <3>4. pass.latency + (IF prev # 0 THEN (clock' - prev) \div NsPerUs ELSE 0) \in Nat
      BY <3>1, <3>3
    <3>5. (IF pass.ops = 0 THEN clock' ELSE pass.first) \in Nat /\ pass.ops + 1 \in Nat
      BY <2>1, <3>1
    <3> QED
      BY <1>9, <3>4, <3>5 DEF Capture
  <2> QED
    BY <1>1, <2>1, <2>2 DEF Types
<1>10. CASE OfferMatrix
  <2>1. Smaller(Smaller(left, UBatch), MaxDim) \in Nat
    BY <1>1, Constants DEF Types, Smaller
  <2>2. node \in 1 .. Len(Graph)
    BY <1>1, <1>10, Constants DEF Types, OfferMatrix
  <2>3. [layer |-> Graph[node].layer, rows |-> Smaller(Smaller(left, UBatch), MaxDim)] \in Matrix
    BY <2>1, <2>2 DEF Matrix
  <2>4. offers' \in Seq(Matrix)
    BY <1>1, <1>10, <2>3, AppendProperties DEF OfferMatrix, Types
  <2> QED
    BY <1>1, <1>10, <2>4 DEF Types, OfferMatrix
<1>11. CASE EndPass
  <2>1. left - Smaller(left, UBatch) \in Nat
    BY <1>1, Constants DEF Types, Smaller
  <2> QED
    BY <1>1, <1>11, <2>1, Constants DEF Types, EndPass
<1>12. CASE Quit \/ \E layer \in Targets : Select(layer)
  BY <1>1, <1>12 DEF Types, Quit, Select
<1> QED
  BY <1>5, <1>6, <1>7, <1>8, <1>9, <1>10, <1>11, <1>12 DEF Next

(* A matrix is built.  If it is of another layer it is the only one of its *)
(* run; if not it has the last one published to beat.                      *)
LEMMA OfferStep ==
    ASSUME CaptureInv, OfferMatrix
    PROVE  LastIsOne' /\ RichestPublished'
<1> DEFINE m == [layer |-> Graph[node].layer, rows |-> Smaller(Smaller(left, UBatch), MaxDim)]
           N == Len(offers)
<1>1. /\ offers \in Seq(Matrix) /\ N \in Nat
      /\ LastIsOne /\ RichestPublished
  BY LenProperties DEF CaptureInv, Types
<1>2. m.rows \in Nat
  BY Constants DEF CaptureInv, Types, Smaller
<1>3. offers' = Append(offers, m)
  BY DEF OfferMatrix
<1>4. \/ /\ m.layer # last.layer \/ m.rows >= last.rows
         /\ last' = m /\ latest'.at = N + 1 /\ latest'.rows = m.rows
      \/ /\ m.layer = last.layer /\ ~ m.rows >= last.rows
         /\ UNCHANGED <<last, latest>>
  BY DEF OfferMatrix, RichEnough
<1>5. m \in Matrix
  <2>1. node \in 1 .. Len(Graph)
    BY Constants DEF CaptureInv, Types, OfferMatrix
  <2> QED
    BY <1>2, <2>1 DEF Matrix
<1> HIDE DEF m
<1>6. /\ offers' \in Seq(Matrix) /\ Len(offers') = N + 1
      /\ DOMAIN offers' = 1 .. (N + 1)
      /\ \A i \in 1 .. N : offers'[i] = offers[i]
      /\ offers'[N + 1] = m
  BY <1>1, <1>3, <1>5, AppendProperties, LenProperties
<1>7. offers' # <<>>
  BY <1>1, <1>6, EmptySeq
<1>8. \A i \in 1 .. N : offers[i].rows \in Nat
  <2>1. \A i \in 1 .. N : offers[i] \in Matrix
    BY <1>1, ElementOfSeq
  <2> QED
    BY <2>1 DEF Matrix
<1> DEFINE Same(all, i) == \A j \in i .. Len(all) : all[j].layer = all[Len(all)].layer
<1>9. RichestPublished' <=>
        /\ latest'.at \in DOMAIN offers' /\ Same(offers', latest'.at)
        /\ \A i \in DOMAIN offers' : Same(offers', i) =>
              /\ offers'[i].rows <= latest'.rows
              /\ offers'[i].rows = latest'.rows => i <= latest'.at
  BY <1>7 DEF RichestPublished
<1>10. offers # <<>> =>
        /\ latest.at \in 1 .. N /\ Same(offers, latest.at)
        /\ \A i \in 1 .. N : Same(offers, i) =>
              /\ offers[i].rows <= latest.rows
              /\ offers[i].rows = latest.rows => i <= latest.at
  BY <1>1, LenProperties DEF RichestPublished
<1>11. Same(offers', N + 1)
  BY <1>6, <1>1
<1>12. offers # <<>> /\ m.layer = last.layer =>
         \A i \in 1 .. N : Same(offers', i) <=> Same(offers, i)
  <2> SUFFICES ASSUME offers # <<>>, m.layer = last.layer, NEW i \in 1 .. N
               PROVE  Same(offers', i) <=> Same(offers, i)
    OBVIOUS
  <2>1. offers[N].layer = m.layer
    BY <1>1 DEF LastIsOne
  <2>2. \A j \in i .. N : offers'[j] = offers[j]
    BY <1>1, <1>6
  <2>3. Same(offers', i) <=> \A j \in i .. (N + 1) : offers'[j].layer = m.layer
    BY <1>6
  <2>4. Same(offers, i) <=> \A j \in i .. N : offers[j].layer = m.layer
    BY <2>1
  <2>5. i .. (N + 1) = (i .. N) \cup {N + 1}
    BY <1>1
  <2> QED
    BY <1>6, <2>2, <2>3, <2>4, <2>5
<1>13. offers # <<>> /\ m.layer # last.layer => \A i \in 1 .. N : ~ Same(offers', i)
  BY <1>1, <1>6, EmptySeq DEF LastIsOne
<1>14. offers = <<>> => N = 0
  BY <1>1, EmptySeq
<1>15. CASE /\ m.layer # last.layer \/ m.rows >= last.rows
            /\ last' = m /\ latest'.at = N + 1 /\ latest'.rows = m.rows
  <2>1. LastIsOne'
    BY <1>1, <1>6, <1>7, <1>15 DEF LastIsOne
  <2>2. \A i \in 1 .. N : Same(offers', i) => offers'[i].rows <= m.rows
    <3> SUFFICES ASSUME NEW i \in 1 .. N, Same(offers', i)
                 PROVE  offers[i].rows <= m.rows
      BY <1>6
    <3>1. offers # <<>>
      BY <1>14
    <3>2. m.layer = last.layer
      BY <1>13, <3>1
    <3>3. Same(offers, i)
      BY <1>12, <3>1, <3>2
    <3>4. offers[i].rows <= latest.rows
      BY <1>10, <3>1, <3>3
    <3>5. latest.rows = last.rows /\ latest.rows = offers[latest.at].rows
          /\ latest.at \in 1 .. N
      BY <1>1, <3>1 DEF LastIsOne
    <3>6. latest.rows <= m.rows /\ latest.rows \in Nat /\ offers[i].rows \in Nat
      BY <1>8, <1>15, <1>2, <3>2, <3>5
    <3> QED
      BY <1>2, <3>4, <3>6
  <2>3. \A i \in DOMAIN offers' : i \in 1 .. N \/ i = N + 1
    BY <1>1, <1>6
  <2>4. N + 1 \in DOMAIN offers' /\ \A i \in 1 .. N : i <= N + 1
    BY <1>1, <1>6
  <2>5. m.rows <= m.rows /\ N + 1 <= N + 1
    BY <1>1, <1>2
  <2> HIDE DEF Same
  <2> QED
    BY <1>6, <1>9, <1>11, <1>15, <2>1, <2>2, <2>3, <2>4, <2>5
<1>16. CASE /\ m.layer = last.layer /\ ~ m.rows >= last.rows
            /\ UNCHANGED <<last, latest>>
  <2>1. offers # <<>>
    BY <1>1, <1>2, <1>16 DEF LastIsOne, NoMatrix
  <2>2. /\ latest.at \in 1 .. N /\ last = offers[latest.at] /\ latest.rows = last.rows
        /\ m.rows < latest.rows
    BY <1>1, <1>2, <1>8, <1>16, <2>1 DEF LastIsOne
  <2>3. LastIsOne'
    BY <1>1, <1>6, <1>7, <1>16, <2>2 DEF LastIsOne
  <2>4. latest'.at \in DOMAIN offers' /\ Same(offers', latest'.at)
    <3>1. Same(offers', latest.at)
      BY <1>10, <1>12, <1>16, <2>1, <2>2
    <3> QED
      BY <1>1, <1>6, <1>16, <2>2, <3>1
  <2>5. ASSUME NEW i \in DOMAIN offers', Same(offers', i)
        PROVE  /\ offers'[i].rows <= latest'.rows
               /\ offers'[i].rows = latest'.rows => i <= latest'.at
    <3>1. CASE i \in 1 .. N
      <4>1. Same(offers, i)
        BY <1>12, <1>16, <2>1, <2>5, <3>1
      <4> HIDE DEF Same
      <4> QED
        BY <1>6, <1>10, <1>16, <2>1, <3>1, <4>1
    <3>2. CASE i = N + 1
      <4>1. latest.rows \in Nat
        BY <1>8, <2>2
      <4>2. offers'[i].rows = m.rows /\ latest' = latest
        BY <1>6, <1>16, <3>2
      <4> QED
        BY <1>2, <2>2, <4>1, <4>2
    <3> QED
      BY <1>1, <1>6, <3>1, <3>2
  <2> HIDE DEF Same
  <2> QED
    BY <1>9, <2>3, <2>4, <2>5
<1> QED
  BY <1>4, <1>15, <1>16

(* An op is captured.                                                      *)
LEMMA CaptureStep ==
    ASSUME CaptureInv, Capture
    PROVE  ClockOfPass' /\ LatencyIsTimeInPass'
<1>1. /\ clock \in Nat \ {0} /\ prev \in 0 .. clock /\ NsPerUs \in Nat \ {0}
      /\ pass.first \in Nat /\ pass.ops \in Nat /\ pass.latency \in Nat
      /\ ClockOfPass /\ LatencyIsTimeInPass
  BY Constants DEF CaptureInv, Types
<1>2. clock' \in Nat \ {0} /\ clock' > clock /\ prev' = clock'
  BY <1>1, Constants DEF Capture, TimePasses
<1>3. /\ pass'.first = IF pass.ops = 0 THEN clock' ELSE pass.first
      /\ pass'.ops = pass.ops + 1
      /\ pass'.latency = pass.latency
                          + IF prev # 0 THEN (clock' - prev) \div NsPerUs ELSE 0
  BY DEF Capture
<1>4. CASE pass.ops = 0
  <2>1. prev = 0 /\ pass.latency = 0
    BY <1>1, <1>4 DEF ClockOfPass
  <2>2. pass'.first = clock' /\ pass'.ops = 1 /\ pass'.latency = 0
    BY <1>3, <1>4, <2>1
  <2>3. ClockOfPass'
    BY <1>2, <2>2 DEF ClockOfPass
  <2>4. /\ prev' - pass'.first = 0 /\ pass'.latency * NsPerUs = 0
        /\ (pass'.ops - 1) * (NsPerUs - 1) = 0
    <3>1. clock' - clock' = 0 /\ 0 * NsPerUs = 0 /\ (1 - 1) * (NsPerUs - 1) = 0
      <4>1. clock' \in Nat
        BY <1>2
      <4> QED
        BY <1>1, <4>1, FirstOp
    <3> QED
      BY <1>2, <2>2, <3>1
  <2>5. LatencyIsTimeInPass'
    BY <2>4 DEF LatencyIsTimeInPass
  <2> QED
    BY <2>3, <2>5
<1>5. CASE pass.ops # 0
  <2> DEFINE d == clock' - prev
             more == pass.latency + d \div NsPerUs
  <2>1. /\ pass.ops \in Nat \ {0} /\ prev # 0 /\ pass.first <= prev
        /\ pass.latency * NsPerUs <= prev - pass.first
        /\ prev - pass.first <= pass.latency * NsPerUs + (pass.ops - 1) * (NsPerUs - 1)
    BY <1>1, <1>5 DEF ClockOfPass, LatencyIsTimeInPass
  <2>2. /\ d \in Nat /\ prev - pass.first \in Nat
        /\ clock' - pass.first = (prev - pass.first) + d
        /\ pass.first <= clock'
    <3>1. prev \in Nat /\ clock' \in Nat /\ prev < clock'
      <4>1. \A p \in 0 .. clock, c \in Nat : c > clock => p < c
        BY <1>1
      <4> QED
        BY <1>1, <1>2, <4>1
    <3> QED
      BY <1>1, <2>1, <3>1, Distances
  <2> HIDE DEF d
  <2>3. /\ more * NsPerUs <= (prev - pass.first) + d
        /\ (prev - pass.first) + d
              <= more * NsPerUs + pass.ops * (NsPerUs - 1)
    BY <1>1, <2>1, <2>2, OneMoreOp
  <2>4. /\ pass'.first = pass.first /\ pass'.ops = pass.ops + 1 /\ pass'.latency = more
    BY <1>3, <1>5, <2>1 DEF d
  <2>5. prev' - pass'.first = (prev - pass.first) + d
    BY <1>2, <2>2, <2>4
  <2> HIDE DEF more
  <2>6. LatencyIsTimeInPass'
    <3>1. /\ pass'.latency * NsPerUs <= prev' - pass'.first
          /\ prev' - pass'.first
                <= pass'.latency * NsPerUs + (pass'.ops - 1) * (NsPerUs - 1)
      <4>1. pass'.ops - 1 = pass.ops
        <5>1. pass.ops \in Nat /\ pass'.ops = pass.ops + 1
          BY <1>1, <2>4
        <5> QED
          BY <5>1
      <4> QED
        BY <2>3, <2>4, <2>5, <4>1
    <3> QED
      BY <3>1 DEF LatencyIsTimeInPass
  <2>7. ClockOfPass'
    BY <1>1, <1>2, <2>1, <2>4 DEF ClockOfPass
  <2> QED
    BY <2>6, <2>7
<1> QED
  BY <1>4, <1>5
-----------------------------------------------------------------------------
(* Every step keeps the invariant.                                         *)
THEOREM CaptureNext == CaptureInv /\ [Next]_vars => CaptureInv'
<1> SUFFICES ASSUME CaptureInv, [Next]_vars PROVE CaptureInv'
  OBVIOUS
<1>1. Types /\ LastIsOne /\ RichestPublished /\ ClockOfPass /\ LatencyIsTimeInPass
  BY DEF CaptureInv
<1>2. CASE UNCHANGED vars
  <2>1. Types'
    BY <1>1, <1>2 DEF Types, vars
  <2> QED
    BY <1>1, <1>2, <2>1, NothingOffered, NothingCaptured DEF CaptureInv, vars
<1>3. CASE Next
  <2>1. Types'
    BY <1>3, TypesNext
  <2>2. LastIsOne' /\ RichestPublished'
    <3>1. OfferMatrix \/ UNCHANGED <<last, latest, offers>>
      BY <1>3 DEF Next, Prefill, SkipPrefill, GenerateToken, StopGenerating, EvaluateMasked,
                  Capture, EndPass, DecodeFails, Quit, Select
    <3> QED
      BY <1>1, <3>1, OfferStep, NothingOffered
  <2>3. ClockOfPass' /\ LatencyIsTimeInPass'
    <3>1. \/ Capture \/ Decode(Prompt) \/ Decode(1)
          \/ UNCHANGED <<prev, pass>>
      BY <1>3 DEF Next, Prefill, SkipPrefill, GenerateToken, StopGenerating, EvaluateMasked,
                  OfferMatrix, EndPass, DecodeFails, Quit, Select
    <3> QED
      BY <1>1, <3>1, CaptureStep, Primed, NothingCaptured
  <2> QED
    BY <2>1, <2>2, <2>3 DEF CaptureInv
<1> QED
  BY <1>2, <1>3

(* The invariant holds in every behaviour.                                 *)
THEOREM CaptureInvariant == Spec => []CaptureInv
BY CaptureInit, CaptureNext, PTL DEF Spec

(* One-row generation steps never hide the prompt's matrix.                *)
THEOREM CaptureRichestPublished == Spec => []RichestPublished
<1>1. CaptureInv => RichestPublished
  BY DEF CaptureInv
<1> QED
  BY <1>1, CaptureInvariant, PTL

(* The latencies of a llama_decode add up to its time, less than a         *)
(* microsecond lost per op.                                                *)
THEOREM CaptureLatency == Spec => []LatencyIsTimeInPass
<1>1. CaptureInv => LatencyIsTimeInPass
  BY DEF CaptureInv
<1> QED
  BY <1>1, CaptureInvariant, PTL
-----------------------------------------------------------------------------
(* x is q strides and r more.                                              *)
Quotient(x, s, q, r) ==
    /\ q \in Int /\ r \in 0 .. (s - 1)
    /\ q = x \div s /\ r = x % s /\ x = s * q + r

LEMMA Division ==
    ASSUME NEW s \in Nat \ {0}, NEW x \in Int
    PROVE  \E q, r : Quotient(x, s, q, r)
<1>1. Quotient(x, s, x \div s, x % s)
  BY DEF Quotient
<1> QED
  BY <1>1

(* The steps of a stride meet every multiple, one at a time.               *)
LEMMA StrideSteps ==
    ASSUME NEW s \in Nat \ {0}, NEW a \in Nat, a % s = 0
    PROVE  /\ (a + s) % s = 0
           /\ \A b \in Nat : b % s = 0 /\ b < a + s => b < a \/ b = a
<1>1. PICK p, u : Quotient(a, s, p, u)
  BY Division
<1>2. p \in Int /\ a = s * p + 0
  BY <1>1 DEF Quotient
<1>3. 0 \in 0 .. (s - 1) /\ s * p \in Int /\ p + 1 \in Int /\ a + s \in Int
  BY <1>2
<1>4. (a + s) % s = 0
  <2>1. PICK q, r : Quotient(a + s, s, q, r)
    BY <1>3, Division
  <2>2. q \in Int /\ r \in 0 .. (s - 1) /\ r = (a + s) % s /\ a + s = s * q + r
    BY <2>1 DEF Quotient
  <2>3. s * (p + 1) = s * p + s
    BY <1>2
  <2> DEFINE rest == (a + s) % s
  <2> HIDE DEF rest
  <2>4. s * (p + 1) + 0 = s * q + r
    BY <1>2, <1>3, <2>2, <2>3
  <2>5. r = 0
    BY <1>3, <2>2, <2>4, DivUnique
  <2> QED
    BY <2>2, <2>5
<1>5. ASSUME NEW b \in Nat, b % s = 0, b < a + s, ~ b < a
      PROVE  b = a
  <2>1. PICK q, r : Quotient(b, s, q, r)
    BY Division
  <2>2. q \in Int /\ b = s * q + 0
    BY <1>5, <2>1 DEF Quotient
  <2>3. b - a \in 0 .. (s - 1) /\ s * q \in Int
    BY <1>5, <2>2
  <2>4. s * p + (b - a) = s * q + 0
    BY <1>2, <1>3, <2>2, <2>3
  <2>5. b - a = 0
    BY <1>2, <1>3, <2>2, <2>3, <2>4, DivUnique
  <2> QED
    BY <2>5
<1> QED
  BY <1>4, <1>5

LEMMA StridePositive ==
    ASSUME data \in Seq(Value), maxScan \in Nat \ {0}
    PROVE  Stride \in Nat \ {0}
<1>1. CASE elements > maxScan
  <2>1. elements \in Nat
    BY DEF elements
  <2>2. PICK q, r : Quotient(elements, maxScan, q, r)
    BY <2>1, Division
  <2>3. q \in Int /\ r \in 0 .. (maxScan - 1) /\ elements = maxScan * q + r
    BY <2>2 DEF Quotient
  <2>4. q >= 1
    <3>1. CASE q < 0
      <4>1. maxScan * 0 >= maxScan * q + maxScan
        BY <2>3, <3>1, MultiplesApart
      <4>2. maxScan * q \in Int
        BY <2>3
      <4> QED
        BY <2>1, <2>3, <4>1, <4>2
    <3>2. CASE q = 0
      BY <1>1, <2>1, <2>3, <3>2
    <3> QED
      BY <2>3, <3>1, <3>2
  <2> QED
    BY <1>1, <2>2, <2>4 DEF Stride, Quotient
<1>2. CASE ~ (elements > maxScan)
  BY <1>2 DEF Stride
<1> QED
  BY <1>1, <1>2

(* The values of an element: a number, an infinity, or none.               *)
LEMMA ValuesApart ==
    /\ Finite \in SUBSET Int /\ IsFiniteSet(Finite) /\ Finite # {}
    /\ PosInf \in Int /\ NegInf \in Int /\ NaN \notin Int
    /\ PosInf \notin Finite /\ NegInf \notin Finite
<1>1. Finite \in SUBSET Int /\ IsFiniteSet(Finite) /\ Finite # {} /\ NaN \notin Int
  BY StatsAssumption DEF StatsAssumption
<1>2. /\ Max(Finite) \in Int /\ \A x \in Finite : x <= Max(Finite)
      /\ Min(Finite) \in Int /\ \A x \in Finite : Min(Finite) <= x
  BY <1>1, ExtremesOf
<1>3. PosInf \notin Finite /\ NegInf \notin Finite
  BY <1>1, <1>2 DEF PosInf, NegInf
<1> QED
  BY <1>1, <1>2, <1>3 DEF PosInf, NegInf

-----------------------------------------------------------------------------
(* The invariant: the accumulators are those of the sampled elements       *)
(* before the loop's index.                                                *)
Visited == {k \in Sampled : k < index}
Seen == {k \in Numbers : k < index}
Squares == [k \in Numbers |-> data[k] * data[k]]
Zeros(S) == {k \in S : data[k] = 0}

Accumulators ==
    [min : Value, max : Value, sum : Int, sumsq : Int, count : Nat, zeros : Nat,
     nan : BOOLEAN, inf : BOOLEAN]

Nothing ==
    acc = [min |-> 0, max |-> 0, sum |-> 0, sumsq |-> 0, count |-> 0,
           zeros |-> 0, nan |-> FALSE, inf |-> FALSE]

(* The sums of the elements in S, and what else was met on the way to them *)
(* in V.                                                                   *)
Tallied(a, S, V) ==
    /\ a.count = Cardinality(S)
    /\ a.sum = SumFunctionOnSet(data, S)
    /\ a.sumsq = SumFunctionOnSet(Squares, S)
    /\ a.zeros = Cardinality(Zeros(S))
    /\ a.nan = (\E k \in V : data[k] = NaN)
    /\ a.inf = (\E k \in V : data[k] \in {PosInf, NegInf})

(* Extremes that may still be those of the first element.                  *)
Bounding(a, S) ==
    /\ \E k \in Numbers : a.min = data[k]
    /\ \E k \in Numbers : a.max = data[k]
    /\ \A k \in S : a.min <= data[k] /\ data[k] <= a.max

ScanInv ==
    /\ data \in Seq(Value) /\ maxScan \in Nat /\ index \in Nat \ {0}
    /\ phase \in {"start", "scan", "returned"}
    /\ phase = "start" => index = 1 /\ Nothing
    /\ phase # "returned" => ~ stats.valid
    /\ phase = "scan" \/ stats.valid => elements > 0 /\ maxScan > 0
    /\ phase = "scan" => /\ acc \in Accumulators
                         /\ (index - 1) % Stride = 0
                         /\ Tallied(acc, Seen, Visited)
                         /\ data[1] \in Finite => Bounding(acc, Seen)

SampleTold == ScanInv /\ SumsOfSample /\ ExtremesOfSample

(* What one step of the loop adds to the elements seen.                    *)
LEMMA SeenGrows ==
    ASSUME ScanInv, phase = "scan", index <= elements,
           NEW next, next = index + Stride
    PROVE  /\ index \in Sampled
           /\ next \in Nat \ {0} /\ (next - 1) % Stride = 0
           /\ {k \in Sampled : k < next} = Visited \cup {index}
           /\ {k \in Numbers : k < next} =
                IF data[index] \in Finite THEN Seen \cup {index} ELSE Seen
<1>1. /\ index \in Nat \ {0} /\ elements \in Nat /\ Stride \in Nat \ {0}
      /\ index \in 1 .. elements /\ (index - 1) % Stride = 0
  BY StridePositive DEF ScanInv, elements
<1>2. index \in Sampled
  BY <1>1 DEF Sampled
<1> DEFINE before == index - 1
<1>3. before \in Nat /\ before % Stride = 0
  BY <1>1
<1>4. /\ (before + Stride) % Stride = 0
      /\ \A b \in Nat : b % Stride = 0 /\ b < before + Stride => b < before \/ b = before
  <2> HIDE DEF before
  <2> QED
    BY <1>1, <1>3, StrideSteps
<1>5. next \in Nat \ {0} /\ next - 1 = before + Stride /\ index < next
  BY <1>1
<1>6. ASSUME NEW k \in Sampled PROVE k < next <=> k < index \/ k = index
  <2>1. k \in Nat /\ k - 1 \in Nat /\ (k - 1) % Stride = 0
    BY <1>1 DEF Sampled
  <2>2. k < next => k - 1 < before \/ k - 1 = before
    BY <1>1, <1>4, <1>5, <2>1
  <2> QED
    BY <1>1, <1>5, <2>1, <2>2
<1>7. {k \in Sampled : k < next} = Visited \cup {index}
  BY <1>2, <1>6 DEF Visited
<1>8. {k \in Numbers : k < next} = IF data[index] \in Finite THEN Seen \cup {index} ELSE Seen
  BY <1>2, <1>6 DEF Seen, Numbers
<1> QED
  BY <1>2, <1>4, <1>5, <1>7, <1>8

(* Sampled positions are finitely many.                                    *)
LEMMA SampleFinite ==
    ASSUME data \in Seq(Value)
    PROVE  /\ IsFiniteSet(Numbers) /\ \A S \in SUBSET Numbers : IsFiniteSet(S)
           /\ \A k \in Numbers : data[k] \in Finite /\ data[k] \in Int /\ Squares[k] \in Int
           /\ \A k \in Sampled : data[k] \in Value
<1>1. elements \in Nat /\ Numbers \subseteq 1 .. elements
  BY DEF elements, Numbers, Sampled
<1>2. IsFiniteSet(1 .. elements)
  BY <1>1, FS_Interval
<1>3. IsFiniteSet(Numbers)
  BY <1>1, <1>2, FS_Subset
<1>4. \A k \in Numbers : data[k] \in Finite /\ data[k] \in Int
  BY ValuesApart DEF Numbers
<1>5. \A k \in Numbers : Squares[k] \in Int
  BY <1>4 DEF Squares
<1>6. \A k \in Sampled : data[k] \in Value
  BY DEF Sampled, elements
<1> QED
  BY <1>3, <1>4, <1>5, <1>6, FS_Subset

(* One element reduced.                                                    *)
LEMMA ReduceTallies ==
    ASSUME data \in Seq(Value), NEW a \in Accumulators,
           NEW S \in SUBSET Numbers, NEW V \in SUBSET Sampled, Tallied(a, S, V),
           NEW k \in Sampled, k \notin S
    PROVE  /\ Reduce(a, data[k]) \in Accumulators
           /\ Tallied(Reduce(a, data[k]),
                      IF data[k] \in Finite THEN S \cup {k} ELSE S, V \cup {k})
<1> DEFINE v == data[k]
           b == Reduce(a, v)
           T == IF v \in Finite THEN S \cup {k} ELSE S
           W == V \cup {k}
<1>1. v \in Value /\ IsFiniteSet(S)
  BY SampleFinite
<1>2. CASE v = NaN
  <2>1. v \notin Finite /\ v \notin {PosInf, NegInf}
    BY <1>2, ValuesApart
  <2>2. b = [a EXCEPT !.nan = TRUE]
    BY <1>2 DEF Reduce, IsNan
  <2>3. b \in Accumulators
    BY <2>2 DEF Accumulators
  <2>4. /\ b.count = a.count /\ b.sum = a.sum /\ b.sumsq = a.sumsq /\ b.zeros = a.zeros
        /\ b.nan = TRUE /\ b.inf = a.inf
    BY <2>2 DEF Accumulators
  <2>5. \E m \in W : data[m] = NaN
    BY <1>2
  <2>6. (\E m \in W : data[m] \in {PosInf, NegInf}) <=> \E m \in V : data[m] \in {PosInf, NegInf}
    BY <2>1
  <2>7. b.count = Cardinality(S) /\ b.sum = SumFunctionOnSet(data, S)
        /\ b.sumsq = SumFunctionOnSet(Squares, S) /\ b.zeros = Cardinality(Zeros(S))
        /\ a.inf = (\E m \in V : data[m] \in {PosInf, NegInf})
    BY <2>4 DEF Tallied
  <2> HIDE DEF b, v, W
  <2>8. b.inf = (\E m \in W : data[m] \in {PosInf, NegInf})
    BY <2>4, <2>6, <2>7
  <2>9. Tallied(b, S, W)
    BY <2>4, <2>5, <2>7, <2>8 DEF Tallied
  <2> QED
    BY <2>1, <2>3, <2>9 DEF b, v, W
<1>3. CASE v \in {PosInf, NegInf}
  <2>1. v \notin Finite /\ v # NaN
    BY <1>3, ValuesApart
  <2>2. b = [a EXCEPT !.inf = TRUE]
    BY <1>3, <2>1 DEF Reduce, IsNan, IsInf
  <2>3. b \in Accumulators
    BY <2>2 DEF Accumulators
  <2>4. /\ b.count = a.count /\ b.sum = a.sum /\ b.sumsq = a.sumsq /\ b.zeros = a.zeros
        /\ b.nan = a.nan /\ b.inf = TRUE
    BY <2>2 DEF Accumulators
  <2>5. \E m \in W : data[m] \in {PosInf, NegInf}
    BY <1>3
  <2>6. (\E m \in W : data[m] = NaN) <=> \E m \in V : data[m] = NaN
    BY <2>1
  <2>7. b.count = Cardinality(S) /\ b.sum = SumFunctionOnSet(data, S)
        /\ b.sumsq = SumFunctionOnSet(Squares, S) /\ b.zeros = Cardinality(Zeros(S))
        /\ a.nan = (\E m \in V : data[m] = NaN)
    BY <2>4 DEF Tallied
  <2> HIDE DEF b, v, W
  <2>8. b.nan = (\E m \in W : data[m] = NaN)
    BY <2>4, <2>6, <2>7
  <2>9. Tallied(b, S, W)
    BY <2>4, <2>5, <2>7, <2>8 DEF Tallied
  <2> QED
    BY <2>1, <2>3, <2>9 DEF b, v, W
<1>4. CASE v \in Finite
  <2>1. v # NaN /\ v \notin {PosInf, NegInf} /\ v \in Int /\ k \in Numbers
    BY <1>4, ValuesApart DEF Numbers
  <2>2. b = [a EXCEPT !.min = IF Less(v, @) THEN v ELSE @,
                      !.max = IF Less(@, v) THEN v ELSE @,
                      !.sum = @ + v,
                      !.sumsq = @ + v * v,
                      !.zeros = IF v = 0 THEN @ + 1 ELSE @,
                      !.count = @ + 1]
    BY <2>1 DEF Reduce, IsNan, IsInf
  <2>3. v * v \in Int /\ Squares[k] = v * v
    BY <2>1 DEF Squares
  <2> DEFINE square == v * v
  <2> HIDE DEF square
  <2>4. b \in Accumulators
    <3> DEFINE low == IF Less(v, a.min) THEN v ELSE a.min
               high == IF Less(a.max, v) THEN v ELSE a.max
               none == IF v = 0 THEN a.zeros + 1 ELSE a.zeros
    <3>1. low \in Value /\ high \in Value
      BY <1>1 DEF Accumulators
    <3>2. /\ a.sum + v \in Int /\ a.sumsq + square \in Int
          /\ none \in Nat /\ a.count + 1 \in Nat
      <4>1. a.sum \in Int /\ a.sumsq \in Int /\ a.zeros \in Nat /\ a.count \in Nat
        BY DEF Accumulators
      <4>2. square \in Int
        BY <2>3 DEF square
      <4> QED
        BY <2>1, <4>1, <4>2
    <3>3. b = [a EXCEPT !.min = low, !.max = high, !.sum = a.sum + v, !.sumsq = a.sumsq + square,
                        !.zeros = none, !.count = a.count + 1]
      BY <2>2 DEF square
    <3> HIDE DEF b, low, high, none
    <3> QED
      BY <3>1, <3>2, <3>3 DEF Accumulators
  <2>5. /\ b.count = a.count + 1 /\ b.sum = a.sum + v /\ b.sumsq = a.sumsq + square
        /\ b.zeros = IF v = 0 THEN a.zeros + 1 ELSE a.zeros
        /\ b.nan = a.nan /\ b.inf = a.inf
    BY <2>2 DEF Accumulators, square
  <2>6. Cardinality(S \cup {k}) = Cardinality(S) + 1
    BY <1>1, FS_AddElement
  <2>7. /\ SumFunctionOnSet(data, S \cup {k}) = SumFunctionOnSet(data, S) + v
        /\ SumFunctionOnSet(Squares, S \cup {k}) = SumFunctionOnSet(Squares, S) + square
    <3>1. \A m \in S \cup {k} : data[m] \in Int /\ Squares[m] \in Int
      BY <2>1, SampleFinite
    <3>2. SumFunctionOnSet(data, S \cup {k}) = SumFunctionOnSet(data, S) + data[k]
      BY <1>1, <3>1, SumAdds
    <3>3. SumFunctionOnSet(Squares, S \cup {k}) = SumFunctionOnSet(Squares, S) + Squares[k]
      BY <1>1, <3>1, SumAdds
    <3> QED
      BY <2>3, <3>2, <3>3 DEF square
  <2>8. Cardinality(Zeros(S \cup {k})) =
          IF v = 0 THEN Cardinality(Zeros(S)) + 1 ELSE Cardinality(Zeros(S))
    <3>1. Zeros(S) \subseteq S /\ k \notin Zeros(S)
      BY DEF Zeros
    <3>2. IsFiniteSet(Zeros(S))
      BY <1>1, <3>1, FS_Subset
    <3>3. Zeros(S \cup {k}) = IF v = 0 THEN Zeros(S) \cup {k} ELSE Zeros(S)
      BY DEF Zeros
    <3> QED
      BY <3>1, <3>2, <3>3, FS_AddElement
  <2>9. /\ (\E m \in W : data[m] = NaN) <=> \E m \in V : data[m] = NaN
        /\ (\E m \in W : data[m] \in {PosInf, NegInf}) <=> \E m \in V : data[m] \in {PosInf, NegInf}
    BY <2>1
  <2>10. /\ a.count = Cardinality(S) /\ a.sum = SumFunctionOnSet(data, S)
         /\ a.sumsq = SumFunctionOnSet(Squares, S) /\ a.zeros = Cardinality(Zeros(S))
         /\ a.nan = (\E m \in V : data[m] = NaN)
         /\ a.inf = (\E m \in V : data[m] \in {PosInf, NegInf})
    BY DEF Tallied
  <2> HIDE DEF b, v, W
  <2>11. /\ b.count = Cardinality(S \cup {k}) /\ b.sum = SumFunctionOnSet(data, S \cup {k})
         /\ b.sumsq = SumFunctionOnSet(Squares, S \cup {k})
         /\ b.zeros = Cardinality(Zeros(S \cup {k}))
    BY <2>5, <2>6, <2>7, <2>8, <2>10
  <2>12. /\ b.nan = (\E m \in W : data[m] = NaN)
         /\ b.inf = (\E m \in W : data[m] \in {PosInf, NegInf})
    BY <2>5, <2>9, <2>10
  <2>13. Tallied(b, S \cup {k}, W)
    BY <2>11, <2>12 DEF Tallied
  <2> QED
    BY <1>4, <2>4, <2>13 DEF b, v, W
<1> QED
  BY <1>1, <1>2, <1>3, <1>4 DEF Value

(* And its extremes, which are those of a number from the beginning.       *)
LEMMA ReduceBounds ==
    ASSUME data \in Seq(Value), NEW a \in Accumulators,
           NEW S \in SUBSET Numbers, Bounding(a, S), NEW k \in Sampled
    PROVE  Bounding(Reduce(a, data[k]), IF data[k] \in Finite THEN S \cup {k} ELSE S)
<1> DEFINE v == data[k]
           b == Reduce(a, v)
<1>1. v \in Value
  BY SampleFinite
<1>2. CASE v \notin Finite
  <2>1. b.min = a.min /\ b.max = a.max
    BY <1>1, <1>2 DEF Reduce, IsNan, IsInf, Value, Accumulators
  <2> QED
    BY <1>2, <2>1 DEF Bounding
<1>3. CASE v \in Finite
  <2>1. v # NaN /\ v \notin {PosInf, NegInf} /\ v \in Int /\ k \in Numbers /\ NaN \notin Int
    BY <1>3, ValuesApart DEF Numbers
  <2>2. PICK m \in Numbers : a.min = data[m]
    BY DEF Bounding
  <2>3. PICK p \in Numbers : a.max = data[p]
    BY DEF Bounding
  <2>4. a.min \in Int /\ a.max \in Int /\ \A x \in S : data[x] \in Int
    BY <2>2, <2>3, SampleFinite
  <2>5. /\ b.min = IF Less(v, a.min) THEN v ELSE a.min
        /\ b.max = IF Less(a.max, v) THEN v ELSE a.max
    BY <2>1 DEF Reduce, IsNan, IsInf, Accumulators
  <2>6. b.min = IF v < a.min THEN v ELSE a.min
    BY <2>1, <2>4, <2>5 DEF Less, IsNan
  <2>7. b.max = IF a.max < v THEN v ELSE a.max
    BY <2>1, <2>4, <2>5 DEF Less, IsNan
  <2>8. \A x \in S : a.min <= data[x] /\ data[x] <= a.max
    BY DEF Bounding
  <2> HIDE DEF b
  <2>9. b.min \in Int /\ b.max \in Int /\ b.min <= a.min /\ a.max <= b.max
    BY <2>1, <2>4, <2>6, <2>7
  <2>10. \A x \in S : b.min <= data[x] /\ data[x] <= b.max
    BY <2>4, <2>8, <2>9
  <2>11. b.min <= v /\ v <= b.max
    BY <2>1, <2>4, <2>6, <2>7
  <2>12. (\E x \in Numbers : b.min = data[x]) /\ (\E x \in Numbers : b.max = data[x])
    BY <2>1, <2>2, <2>3, <2>6, <2>7
  <2>13. Bounding(b, S \cup {k})
    BY <2>10, <2>11, <2>12 DEF Bounding
  <2> QED
    BY <1>3, <2>13 DEF b
<1> QED
  BY <1>2, <1>3
-----------------------------------------------------------------------------
(* The steps of the function.                                              *)
LEMMA StatsInitial ==
    ASSUME StatsInit
    PROVE  SampleTold
<1>1. ~ stats.valid
  BY DEF StatsInit, NoStats
<1>2. /\ phase = "start" /\ index = 1 /\ Nothing
  BY DEF StatsInit, Nothing
<1>3. data \in Seq(Value) /\ maxScan \in Nat
  <2>1. PICK m \in 0 .. MaxElements : data \in [1 .. m -> Value]
    BY DEF StatsInit
  <2>2. m \in Nat
    BY StatsAssumption DEF StatsAssumption
  <2>3. data \in Seq(Value)
    BY <2>1, <2>2
  <2>4. maxScan \in Nat
    BY StatsAssumption DEF StatsInit, StatsAssumption
  <2> QED
    BY <2>3, <2>4
<1>4. ScanInv
  BY <1>1, <1>2, <1>3 DEF ScanInv
<1> QED
  BY <1>1, <1>4 DEF SampleTold, SumsOfSample, ExtremesOfSample

(* Only Return sets the result.                                            *)
LEMMA Unreturned ==
    ASSUME ScanInv', ~ stats'.valid
    PROVE  SampleTold'
BY DEF SampleTold, SumsOfSample, ExtremesOfSample

(* The tensor and the scan limit stay what they are.                       *)
LEMMA SameTensor ==
    ASSUME data' = data, maxScan' = maxScan
    PROVE  /\ elements' = elements /\ Stride' = Stride
           /\ Sampled' = Sampled /\ Numbers' = Numbers /\ Squares' = Squares
<1>1. elements' = elements
  BY DEF elements
<1>2. Stride' = Stride
  BY <1>1 DEF Stride
<1>3. Sampled' = Sampled
  BY <1>1, <1>2 DEF Sampled
<1>4. Numbers' = Numbers
  BY <1>3 DEF Numbers
<1> QED
  BY <1>1, <1>2, <1>3, <1>4 DEF Squares

LEMMA BeginTells ==
    ASSUME ScanInv, Begin
    PROVE  SampleTold'
<1>1. /\ phase = "start" /\ elements > 0 /\ maxScan > 0
      /\ acc' = [acc EXCEPT !.min = data[1], !.max = data[1]]
      /\ phase' = "scan" /\ index' = index /\ data' = data /\ maxScan' = maxScan
      /\ stats' = stats
  BY DEF Begin
<1>2. /\ data \in Seq(Value) /\ maxScan \in Nat /\ elements \in Nat /\ Stride \in Nat \ {0}
      /\ index = 1 /\ Nothing /\ ~ stats.valid
  BY <1>1, StridePositive DEF ScanInv, elements
<1>3. acc' = [min |-> data[1], max |-> data[1], sum |-> 0, sumsq |-> 0, count |-> 0,
              zeros |-> 0, nan |-> FALSE, inf |-> FALSE]
  BY <1>1, <1>2 DEF Nothing
<1>4. 1 \in Sampled /\ data[1] \in Value
  BY <1>1, <1>2 DEF Sampled, elements
<1>5. acc' \in Accumulators
  BY <1>3, <1>4 DEF Accumulators
<1>6. Sampled' = Sampled /\ Numbers' = Numbers /\ Squares' = Squares /\ elements' = elements /\ Stride' = Stride
  BY <1>1, SameTensor
<1>7. Seen' = {} /\ Visited' = {}
  <2>1. \A k \in Sampled : ~ (k < 1)
    BY <1>2 DEF Sampled
  <2>2. \A k \in Numbers : ~ (k < 1)
    BY <2>1 DEF Numbers
  <2> QED
    BY <1>1, <1>2, <1>6, <2>1, <2>2 DEF Seen, Visited
<1>8. Tallied(acc', {}, {})
  <2>1. SumFunctionOnSet(data, {}) = 0 /\ SumFunctionOnSet(Squares, {}) = 0
    BY SumOfNone
  <2>2. Cardinality({}) = 0 /\ Zeros({}) = {}
    BY FS_EmptySet DEF Zeros
  <2>3. /\ acc'.count = 0 /\ acc'.sum = 0 /\ acc'.sumsq = 0 /\ acc'.zeros = 0
        /\ acc'.nan = FALSE /\ acc'.inf = FALSE
    BY <1>3
  <2> QED
    BY <2>1, <2>2, <2>3 DEF Tallied
<1>9. Tallied(acc, Seen, Visited)'
  BY <1>1, <1>6, <1>7, <1>8 DEF Tallied, Zeros
<1>10. data[1] \in Finite => Bounding(acc, Seen)'
  <2>1. SUFFICES ASSUME data[1] \in Finite PROVE Bounding(acc, Seen)'
    OBVIOUS
  <2>2. 1 \in Numbers
    BY <1>4, <2>1 DEF Numbers
  <2>3. acc'.min = data[1] /\ acc'.max = data[1]
    BY <1>3
  <2> QED
    BY <1>1, <1>6, <1>7, <2>2, <2>3 DEF Bounding
<1>11. (index' - 1) % Stride' = 0
  BY <1>1, <1>2, <1>6
<1>12. ScanInv'
  BY <1>1, <1>2, <1>5, <1>6, <1>9, <1>10, <1>11 DEF ScanInv
<1> QED
  BY <1>1, <1>2, <1>12, Unreturned

LEMMA ScanTells ==
    ASSUME ScanInv, Scan
    PROVE  SampleTold'
<1>1. /\ phase = "scan" /\ index <= elements
      /\ acc' = Reduce(acc, data[index]) /\ index' = index + Stride
      /\ data' = data /\ maxScan' = maxScan /\ phase' = phase /\ stats' = stats
  BY DEF Scan
<1>2. /\ data \in Seq(Value) /\ maxScan \in Nat /\ elements > 0 /\ maxScan > 0
      /\ index \in Nat \ {0} /\ ~ stats.valid
      /\ acc \in Accumulators /\ Tallied(acc, Seen, Visited)
      /\ data[1] \in Finite => Bounding(acc, Seen)
  BY <1>1 DEF ScanInv
<1>3. Sampled' = Sampled /\ Numbers' = Numbers /\ Squares' = Squares /\ elements' = elements /\ Stride' = Stride
  BY <1>1, SameTensor
<1>4. /\ index \in Sampled /\ index' \in Nat \ {0} /\ (index' - 1) % Stride = 0
      /\ {k \in Sampled : k < index'} = Visited \cup {index}
      /\ {k \in Numbers : k < index'} = IF data[index] \in Finite THEN Seen \cup {index} ELSE Seen
  BY <1>1, SeenGrows
<1>5. /\ Visited' = Visited \cup {index}
      /\ Seen' = IF data[index] \in Finite THEN Seen \cup {index} ELSE Seen
  BY <1>3, <1>4 DEF Visited, Seen
<1>6. Seen \in SUBSET Numbers /\ Visited \in SUBSET Sampled /\ index \notin Seen
  BY <1>2 DEF Seen, Visited
<1>7. acc' \in Accumulators /\ Tallied(acc', Seen', Visited')
  BY <1>1, <1>2, <1>4, <1>5, <1>6, ReduceTallies
<1>8. Tallied(acc, Seen, Visited)'
  BY <1>1, <1>3, <1>7 DEF Tallied, Zeros
<1>9. data[1] \in Finite => Bounding(acc', Seen')
  BY <1>1, <1>2, <1>4, <1>5, <1>6, ReduceBounds
<1>10. data'[1] \in Finite => Bounding(acc, Seen)'
  BY <1>1, <1>3, <1>9 DEF Bounding
<1>11. ScanInv'
  BY <1>1, <1>2, <1>3, <1>4, <1>7, <1>8, <1>10 DEF ScanInv
<1> QED
  BY <1>1, <1>2, <1>11, Unreturned

LEMMA ReturnTells ==
    ASSUME ScanInv, Return
    PROVE  SampleTold'
<1> DEFINE none == acc.count = 0
<1>1. /\ phase = "scan" /\ index > elements /\ phase' = "returned"
      /\ stats' = [valid |-> TRUE, nan |-> acc.nan, inf |-> acc.inf,
                   count |-> acc.count, sum |-> acc.sum, sumsq |-> acc.sumsq,
                   zeros |-> acc.zeros,
                   min |-> IF acc.count > 0 THEN acc.min ELSE 0,
                   max |-> IF acc.count > 0 THEN acc.max ELSE 0]
      /\ data' = data /\ maxScan' = maxScan /\ index' = index /\ acc' = acc
  BY DEF Return
<1>2. /\ data \in Seq(Value) /\ maxScan \in Nat /\ elements > 0 /\ maxScan > 0
      /\ index \in Nat \ {0} /\ elements \in Nat
      /\ acc \in Accumulators /\ Tallied(acc, Seen, Visited)
      /\ data[1] \in Finite => Bounding(acc, Seen)
  BY <1>1 DEF ScanInv, elements
<1>3. Sampled' = Sampled /\ Numbers' = Numbers /\ Squares' = Squares /\ elements' = elements /\ Stride' = Stride
  BY <1>1, SameTensor
<1>4. \A k \in Sampled : k < index
  BY <1>1, <1>2 DEF Sampled
<1>5. Visited = Sampled /\ Seen = Numbers
  BY <1>4 DEF Visited, Seen, Numbers
<1>6. ScanInv'
  BY <1>1, <1>2, <1>3 DEF ScanInv
<1>7. /\ stats'.count = Cardinality(Numbers)
      /\ stats'.sum = SumFunctionOnSet(data, Numbers)
      /\ stats'.sumsq = SumFunctionOnSet(Squares, Numbers)
      /\ stats'.zeros = Cardinality(Zeros(Numbers))
      /\ stats'.nan = (\E k \in Sampled : data[k] = NaN)
      /\ stats'.inf = (\E k \in Sampled : data[k] \in {PosInf, NegInf})
  <2>1. /\ stats'.count = acc.count /\ stats'.sum = acc.sum /\ stats'.sumsq = acc.sumsq
        /\ stats'.zeros = acc.zeros /\ stats'.nan = acc.nan /\ stats'.inf = acc.inf
    BY <1>1
  <2> QED
    BY <1>2, <1>5, <2>1 DEF Tallied
<1>8. SumsOfSample'
  <2>1. SumFunction([k \in Numbers |-> data[k] * data[k]]) = SumFunctionOnSet(Squares, Numbers)
    BY DEF SumFunction, Squares
  <2>2. Zeros(Numbers) = {k \in Numbers : data[k] = 0}
    BY DEF Zeros
  <2> QED
    BY <1>1, <1>3, <1>7, <2>1, <2>2, Zenon DEF SumsOfSample
<1>9. ASSUME data[1] \in Finite
      PROVE  stats'.min = Min({data[k] : k \in Numbers}) /\ stats'.max = Max({data[k] : k \in Numbers})
  <2> DEFINE values == {data[k] : k \in Numbers}
  <2>1. Bounding(acc, Numbers)
    BY <1>2, <1>5, <1>9
  <2>2. /\ acc.min \in values /\ acc.max \in values
        /\ \A x \in values : acc.min <= x /\ x <= acc.max
    BY <2>1 DEF Bounding
  <2>3. values \in SUBSET Int
    BY <1>2, SampleFinite
  <2>4. acc.count > 0
    <3>1. 1 \in Sampled
      <4>1. Stride \in Nat \ {0}
        BY <1>2, StridePositive
      <4> QED
        BY <1>2, <4>1 DEF Sampled
    <3>2. 1 \in Numbers
      BY <1>9, <3>1 DEF Numbers
    <3>3. Cardinality(Numbers) \in Nat /\ Cardinality(Numbers) # 0
      BY <1>2, <3>2, SampleFinite, FS_CardinalityType, FS_EmptySet
    <3> QED
      BY <1>2, <1>5, <3>3 DEF Tallied
  <2>5. stats'.min = acc.min /\ stats'.max = acc.max
    BY <1>1, <2>4
  <2> HIDE DEF values
  <2>6. Min(values) = acc.min /\ Max(values) = acc.max
    BY <2>2, <2>3, ExtremeIs
  <2> QED
    BY <2>5, <2>6 DEF values
<1>10. ExtremesOfSample'
  BY <1>1, <1>3, <1>9, Zenon DEF ExtremesOfSample
<1> QED
  BY <1>6, <1>8, <1>10 DEF SampleTold

LEMMA StatsStep ==
    ASSUME SampleTold, [StatsNext]_statsVars
    PROVE  SampleTold'
<1>1. CASE ReturnInvalid
  <2>1. /\ phase = "start" /\ phase' = "returned"
        /\ data' = data /\ maxScan' = maxScan /\ index' = index /\ acc' = acc /\ stats' = stats
    BY <1>1 DEF ReturnInvalid
  <2>2. ~ stats.valid /\ ScanInv
    BY <2>1 DEF SampleTold, ScanInv
  <2>3. ScanInv'
    BY <2>1, <2>2 DEF ScanInv
  <2> QED
    BY <2>1, <2>2, <2>3, Unreturned
<1>2. CASE Begin
  BY <1>2, BeginTells DEF SampleTold
<1>3. CASE Scan
  BY <1>3, ScanTells DEF SampleTold
<1>4. CASE Return
  BY <1>4, ReturnTells DEF SampleTold
<1>5. CASE UNCHANGED statsVars
  <2>1. /\ data' = data /\ maxScan' = maxScan /\ phase' = phase /\ index' = index
        /\ acc' = acc /\ stats' = stats
    BY <1>5 DEF statsVars
  <2>2. Sampled' = Sampled /\ Numbers' = Numbers /\ Squares' = Squares /\ elements' = elements /\ Stride' = Stride
    BY <2>1, SameTensor
  <2>3. Seen' = Seen /\ Visited' = Visited
    BY <2>1, <2>2 DEF Seen, Visited
  <2>4. Tallied(acc, Seen, Visited)' <=> Tallied(acc, Seen, Visited)
    BY <2>1, <2>2, <2>3 DEF Tallied, Zeros
  <2>5. Bounding(acc, Seen)' <=> Bounding(acc, Seen)
    BY <2>1, <2>2, <2>3 DEF Bounding
  <2>6. ScanInv'
    BY <2>1, <2>2, <2>4, <2>5 DEF SampleTold, ScanInv, Nothing
  <2>7. SumsOfSample' /\ ExtremesOfSample'
    BY <2>1, <2>2, Zenon DEF SampleTold, SumsOfSample, ExtremesOfSample
  <2> QED
    BY <2>6, <2>7 DEF SampleTold
<1> QED
  BY <1>1, <1>2, <1>3, <1>4, <1>5 DEF StatsNext

THEOREM StatsSampleTold == StatsSpec => []SampleTold
BY StatsInitial, StatsStep, PTL DEF StatsSpec

(* The sums, the counts and the flags are those of the sample: the loop    *)
(* visits every element of the stride once, the last one too, and leaves   *)
(* out what is no number (stats.hpp 30-54).                                *)
THEOREM StatsSums == StatsSpec => []SumsOfSample
<1>1. SampleTold => SumsOfSample
  BY DEF SampleTold
<1> QED
  BY <1>1, StatsSampleTold, PTL

(* The extremes are the sample's, when the element they start from is a    *)
(* number (stats.hpp 24-25, 43-46).                                        *)
THEOREM StatsExtremes == StatsSpec => []ExtremesOfSample
<1>1. SampleTold => ExtremesOfSample
  BY DEF SampleTold
<1> QED
  BY <1>1, StatsSampleTold, PTL

-----------------------------------------------------------------------------
(* The scan is bounded.                                                    *)
LEMMA ProductExceeds ==
    ASSUME NEW a \in Nat \ {0}, NEW b \in Nat \ {0}
    PROVE  a * b \in Nat /\ a * b >= a + b - 1
<1>1. PICK c \in Nat, d \in Nat : a = c + 1 /\ b = d + 1
  <2>1. a - 1 \in Nat /\ b - 1 \in Nat /\ a = (a - 1) + 1 /\ b = (b - 1) + 1
    OBVIOUS
  <2> QED
    BY <2>1
<1>2. c * d \in Nat
  OBVIOUS
<1>3. (c + 1) * (d + 1) = c * d + c + d + 1
  OBVIOUS
<1> QED
  BY <1>1, <1>2, <1>3

LEMMA SampleBounded ==
    ASSUME data \in Seq(Value), maxScan \in Nat \ {0}
    PROVE  Cardinality(Sampled) < 2 * maxScan
<1>1. /\ elements \in Nat /\ Stride \in Nat \ {0}
      /\ Sampled \in SUBSET (1 .. elements) /\ \A k \in Sampled : (k - 1) % Stride = 0
  BY StridePositive DEF elements, Sampled
<1>2. CASE elements <= maxScan
  <2>1. IsFiniteSet(1 .. elements) /\ Cardinality(1 .. elements) = elements
    BY <1>1, FS_Interval
  <2>2. Cardinality(Sampled) <= elements /\ IsFiniteSet(Sampled)
    BY <1>1, <2>1, FS_Subset
  <2>3. Cardinality(Sampled) \in Nat
    BY <2>2, FS_CardinalityType
  <2> QED
    BY <1>1, <1>2, <2>2, <2>3
<1>3. CASE elements > maxScan
  <2> DEFINE most == 2 * maxScan - 2
             place == [k \in Sampled |-> (k - 1) \div Stride]
  <2>1. PICK rest \in 0 .. (maxScan - 1) : elements = maxScan * Stride + rest
    <3>1. PICK q, r : Quotient(elements, maxScan, q, r)
      BY <1>1, Division
    <3>2. q = Stride
      BY <1>3, <3>1 DEF Stride, Quotient
    <3> QED
      BY <3>1, <3>2 DEF Quotient
  <2>2. maxScan * Stride \in Nat /\ maxScan * Stride >= maxScan + Stride - 1
    BY <1>1, ProductExceeds
  <2>3. Stride * (2 * maxScan - 1) = 2 * (maxScan * Stride) - Stride
    BY <1>1
  <2>4. ASSUME NEW k \in Sampled
        PROVE  place[k] \in 0 .. most /\ k - 1 = Stride * place[k]
    <3>1. k \in Nat \ {0} /\ k <= elements /\ (k - 1) % Stride = 0 /\ k - 1 \in Int
      BY <1>1
    <3>2. PICK q, r : Quotient(k - 1, Stride, q, r)
      BY <1>1, <3>1, Division
    <3>3. q \in Int /\ k - 1 = Stride * q /\ q = place[k] /\ Stride * q \in Int
      BY <1>1, <3>1, <3>2 DEF Quotient
    <3>4. q >= 0
      <4>1. SUFFICES ASSUME q < 0 PROVE FALSE
        BY <3>3
      <4>2. Stride * 0 >= Stride * q + Stride
        BY <1>1, <3>3, <4>1, MultiplesApart
      <4> QED
        BY <1>1, <3>1, <3>3, <4>2
    <3>5. q <= most
      <4>1. SUFFICES ASSUME q > most PROVE FALSE
        BY <3>3
      <4>2. 2 * maxScan - 1 \in Int /\ (q = 2 * maxScan - 1 \/ 2 * maxScan - 1 < q)
        BY <3>3, <4>1
      <4>3. Stride * q >= Stride * (2 * maxScan - 1)
        <5>1. CASE q = 2 * maxScan - 1
          BY <1>1, <2>3, <5>1
        <5>2. CASE 2 * maxScan - 1 < q
          <6>1. Stride * q >= Stride * (2 * maxScan - 1) + Stride
            BY <1>1, <3>3, <4>2, <5>2, MultiplesApart
          <6> QED
            BY <1>1, <2>2, <2>3, <3>3, <6>1
        <5> QED
          BY <4>2, <5>1, <5>2
      <4> DEFINE area == maxScan * Stride
                 reach == Stride * (2 * maxScan - 1)
      <4>4. /\ area \in Nat /\ area >= maxScan + Stride - 1 /\ reach = 2 * area - Stride
            /\ elements = area + rest /\ k - 1 >= reach
        BY <2>1, <2>2, <2>3, <3>3, <4>3
      <4> HIDE DEF area, reach
      <4> QED
        BY <1>1, <2>1, <3>1, <4>4
    <3> QED
      BY <3>3, <3>4, <3>5
  <2> HIDE DEF place
  <2>5. place \in Injection(Sampled, 0 .. most)
    <3>1. place \in [Sampled -> 0 .. most]
      BY <2>4 DEF place
    <3>2. ASSUME NEW j \in Sampled, NEW k \in Sampled, place[j] = place[k]
          PROVE  j = k
      <4>1. j - 1 = k - 1 /\ j \in Nat /\ k \in Nat
        BY <1>1, <2>4, <3>2
      <4> QED
        BY <4>1
    <3> QED
      BY <3>1, <3>2 DEF Injection, IsInjective
  <2>6. most \in Nat
    OBVIOUS
  <2>7. IsFiniteSet(0 .. most) /\ Cardinality(0 .. most) = most + 1
    <3> HIDE DEF most
    <3>1. \A b \in Nat : IsFiniteSet(0 .. b) /\ Cardinality(0 .. b) = IF 0 > b THEN 0 ELSE b - 0 + 1
      BY FS_Interval
    <3> QED
      BY <2>6, <3>1
  <2>8. IsFiniteSet(Sampled) /\ Cardinality(Sampled) <= Cardinality(0 .. most)
    BY <2>5, <2>7, FS_Injection
  <2>9. Cardinality(Sampled) \in Nat
    BY <2>8, FS_CardinalityType
  <2> QED
    BY <2>7, <2>8, <2>9
<1> QED
  BY <1>1, <1>2, <1>3

(* However large the tensor, fewer than twice max_scan elements are        *)
(* visited: the quotient that is the stride may be a whole max_scan too    *)
(* small for the tensor, and no more (stats.hpp 21-23).                    *)
THEOREM StatsBounded == StatsSpec => []ScanBounded
<1>1. SampleTold => ScanBounded
  <2>1. SampleTold /\ stats.valid => data \in Seq(Value) /\ maxScan \in Nat \ {0}
    BY DEF SampleTold, ScanInv
  <2> QED
    BY <2>1, SampleBounded DEF ScanBounded
<1> QED
  BY <1>1, StatsSampleTold, PTL

=============================================================================
