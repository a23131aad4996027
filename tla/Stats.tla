-------------------------------- MODULE Stats --------------------------------
(***************************************************************************)
(* compute_stats (src/stats.hpp 16-67): the activation statistics of one   *)
(* tensor, over a sample of its elements.  Numbers are small integers; an  *)
(* infinity is a number beyond all of them, and NaN compares false with    *)
(* everything.  The mean, the deviation and the norm are functions of sum, *)
(* sumsq and count, which stand for them.                                  *)
(***************************************************************************)
EXTENDS Integers, Sequences, FiniteSetsExt, Functions

CONSTANTS
    Finite,      \* the finite values a tensor may hold
    NaN,         \* not a number
    MaxElements, \* bound on the elements of a tensor
    MaxScans     \* bound on max_scan

ASSUME StatsAssumption ==
    /\ Finite \subseteq Int /\ Finite # {} /\ IsFiniteSet(Finite)
    /\ NaN \notin Int
    /\ MaxElements \in Nat /\ MaxScans \in Nat

PosInf == Max(Finite) + 1
NegInf == Min(Finite) - 1
Value == Finite \cup {PosInf, NegInf, NaN}

IsNan(v) == v = NaN
IsInf(v) == v \in {PosInf, NegInf}
Less(v, w) == ~ IsNan(v) /\ ~ IsNan(w) /\ v < w

VARIABLES
    data,     \* the tensor's elements
    maxScan,  \* max_scan, opt.stats_sample
    phase,
    index,    \* the loop's index (from 1)
    acc,      \* the loop's accumulators
    stats     \* the ActivationStats returned

statsVars == <<data, maxScan, phase, index, acc, stats>>

NoStats == [valid |-> FALSE]

StatsInit ==
    /\ data \in UNION {[1 .. n -> Value] : n \in 0 .. MaxElements}
    /\ maxScan \in 0 .. MaxScans
    /\ phase = "start" /\ index = 1
    /\ acc = [min |-> 0, max |-> 0, sum |-> 0, sumsq |-> 0, count |-> 0,
              zeros |-> 0, nan |-> FALSE, inf |-> FALSE]
    /\ stats = NoStats

elements == Len(data)

(* Mutant: no stride.                                                      *)
StrideOne == 1

Stride == IF elements > maxScan THEN elements \div maxScan ELSE 1

(* Nothing to scan, or statistics are disabled.                            *)
ReturnInvalid ==
    /\ phase = "start" /\ (elements = 0 \/ maxScan = 0)
    /\ phase' = "returned"
    /\ UNCHANGED <<data, maxScan, index, acc, stats>>

(* Mutant: vmin and vmax start from zero.                                  *)
BeginAtZero ==
    /\ phase = "start" /\ elements > 0 /\ maxScan > 0
    /\ phase' = "scan"
    /\ UNCHANGED <<data, maxScan, index, acc, stats>>

(* vmin and vmax start from the first element.                             *)
Begin ==
    /\ phase = "start" /\ elements > 0 /\ maxScan > 0
    /\ acc' = [acc EXCEPT !.min = data[1], !.max = data[1]]
    /\ phase' = "scan"
    /\ UNCHANGED <<data, maxScan, index, stats>>

(* Mutant: an infinity is reduced like a number.                           *)
ReduceInfinities(a, v) ==
    IF IsNan(v) THEN [a EXCEPT !.nan = TRUE]
    ELSE [a EXCEPT !.inf = @ \/ IsInf(v), !.sum = @ + v, !.sumsq = @ + v * v,
                   !.count = @ + 1]

Reduce(a, v) ==
    IF IsNan(v) THEN [a EXCEPT !.nan = TRUE]
    ELSE IF IsInf(v) THEN [a EXCEPT !.inf = TRUE]
    ELSE [a EXCEPT !.min = IF Less(v, @) THEN v ELSE @,
                   !.max = IF Less(@, v) THEN v ELSE @,
                   !.sum = @ + v,
                   !.sumsq = @ + v * v,
                   !.zeros = IF v = 0 THEN @ + 1 ELSE @,
                   !.count = @ + 1]

Scan ==
    /\ phase = "scan" /\ index <= elements
    /\ acc' = Reduce(acc, data[index])
    /\ index' = index + Stride
    /\ UNCHANGED <<data, maxScan, phase, stats>>

(* The reductions stay zero when every element scanned was excluded.       *)
Return ==
    /\ phase = "scan" /\ index > elements
    /\ stats' = [valid |-> TRUE, nan |-> acc.nan, inf |-> acc.inf,
                 count |-> acc.count, sum |-> acc.sum, sumsq |-> acc.sumsq,
                 zeros |-> acc.zeros,
                 min |-> IF acc.count > 0 THEN acc.min ELSE 0,
                 max |-> IF acc.count > 0 THEN acc.max ELSE 0]
    /\ phase' = "returned"
    /\ UNCHANGED <<data, maxScan, index, acc>>

StatsNext == ReturnInvalid \/ Begin \/ Scan \/ Return

StatsSpec == StatsInit /\ [][StatsNext]_statsVars
-----------------------------------------------------------------------------
(* Reference definition: the positions a stride-s scan of n elements       *)
(* visits, and which of them hold a number.                                *)
Sampled == {k \in 1 .. elements : (k - 1) % Stride = 0}
Numbers == {k \in Sampled : data[k] \in Finite}

(* Every statistic is the one of the sampled numbers: nothing is counted   *)
(* twice or skipped at the end of the stride, and the flags tell exactly   *)
(* what was excluded.                                                      *)
SumsOfSample ==
    stats.valid =>
        /\ stats.count = Cardinality(Numbers)
        /\ stats.sum = SumFunctionOnSet(data, Numbers)
        /\ stats.sumsq = SumFunction([k \in Numbers |-> data[k] * data[k]])
        /\ stats.zeros = Cardinality({k \in Numbers : data[k] = 0})
        /\ stats.nan = (\E k \in Sampled : data[k] = NaN)
        /\ stats.inf = (\E k \in Sampled : data[k] \in {PosInf, NegInf})

(* If the first element is a number, the extremes are the sample's.        *)
ExtremesOfSample ==
    stats.valid /\ data[1] \in Finite =>
        /\ stats.min = Min({data[k] : k \in Numbers})
        /\ stats.max = Max({data[k] : k \in Numbers})

(* "elements are sampled with a stride so the scan stays bounded" (line    *)
(* 14): fewer than two times max_scan elements are visited.                *)
ScanBounded ==
    stats.valid => Cardinality(Sampled) < 2 * maxScan

=============================================================================
