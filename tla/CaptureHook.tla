---------------------------- MODULE CaptureHook ----------------------------
(***************************************************************************)
(* The evaluation callback of a live run: Capturer                         *)
(* (src/src/capture/capturer.cpp) called for every op of every forward     *)
(* pass that inference_loop (src/src/main.cpp) starts, with its clock, its *)
(* capture mask and its memory of the attention matrix published last.     *)
(* What becomes of the events in the ring is in HeadlessRun and            *)
(* DashboardRun.                                                           *)
(*                                                                         *)
(* A forward pass evaluates the ops of Graph in order; llama_decode cuts a *)
(* batch into passes of at most UBatch tokens.  The clock counts           *)
(* nanoseconds, of which NsPerUs make a microsecond.                       *)
(***************************************************************************)
EXTENDS Integers, Sequences

CONSTANTS
    Graph,     \* the ops of a pass: [layer, cls, softmax]
    Mask,      \* the classes captured (capture_mask)
    Prompt,    \* tokens of the prompt
    UBatch,    \* tokens of one pass
    MaxDim,    \* kAttnMaxDim
    MaxTokens, \* --max-tokens
    Targets,   \* what the user may select
    NsPerUs,
    MaxPause,  \* bound on the time of an op, and on the delay between passes
    MaxSelects \* bound on the selections

ASSUME CaptureAssumption ==
    /\ Graph \in Seq([layer : Int, cls : STRING, softmax : BOOLEAN])
    /\ {Prompt, MaxTokens, MaxPause, MaxSelects} \subseteq Nat
    /\ {UBatch, MaxDim, NsPerUs} \subseteq Nat \ {0}

VARIABLES
    pc,        \* where inference_loop is
    left,      \* tokens of the batch still to be evaluated
    node,      \* the op of the pass evaluated last
    generated, \* tokens generated
    alive,
    clock,     \* now_ns()
    prev,      \* prev_ns_; 0: none
    target,    \* AttentionSink::target_layer
    selects,
    last,      \* last_attn_layer_, last_attn_rows_
    latest,    \* the matrix published last: [layer, rows, at]
    offers,    \* history: the matrices built
    pass       \* history: [first, ops, latency] of this llama_decode

vars == <<pc, left, node, generated, alive, clock, prev, target, selects,
          last, latest, offers, pass>>

NoMatrix == [layer |-> -999, rows |-> 0]
NewPass == [first |-> 0, ops |-> 0, latency |-> 0]
Smaller(a, b) == IF a < b THEN a ELSE b

Init ==
    /\ pc = "prompt" /\ left = 0 /\ node = 0 /\ generated = 0
    /\ alive = TRUE /\ clock = 1 /\ prev = 0
    /\ target \in Targets /\ selects = 0
    /\ last = NoMatrix /\ latest = NoMatrix /\ offers = <<>> /\ pass = NewPass

(* Ticks of the clock, one at least.                                       *)
TimePasses == \E d \in 1 .. MaxPause : clock' = clock + d

(* Mutant: the clock of the last pass goes on.                             *)
DecodeUnprimed(tokens) ==
    /\ left' = tokens /\ node' = 0
    /\ pc' = "evaluate"
    /\ pass' = NewPass
    /\ UNCHANGED prev

(* prime(), then llama_decode.                                             *)
Decode(tokens) ==
    /\ left' = tokens /\ node' = 0
    /\ pc' = "evaluate"
    /\ prev' = 0 /\ pass' = NewPass
-----------------------------------------------------------------------------
Prefill ==
    /\ pc = "prompt" /\ alive /\ Prompt > 0
    /\ Decode(Prompt)
    /\ UNCHANGED <<generated, alive, clock, target, selects, last, latest, offers>>

SkipPrefill ==
    /\ pc = "prompt" /\ (~ alive \/ Prompt = 0)
    /\ pc' = "generate"
    /\ UNCHANGED <<left, node, generated, alive, clock, prev, target, selects,
                   last, latest, offers, pass>>

(* A sampled token that does not end the text, after the delay.            *)
GenerateToken ==
    /\ pc = "generate" /\ alive /\ generated < MaxTokens
    /\ TimePasses
    /\ generated' = generated + 1
    /\ Decode(1)
    /\ UNCHANGED <<alive, target, selects, last, latest, offers>>

(* `alive` is FALSE, the token ends the text, or there are enough.         *)
StopGenerating ==
    /\ pc = "generate"
    /\ pc' = "done"
    /\ UNCHANGED <<left, node, generated, alive, clock, prev, target, selects,
                   last, latest, offers, pass>>

(* The next op is computed.  on_eval declines a masked-off one when asked, *)
(* and is not called for it again.                                         *)
EvaluateMasked ==
    /\ pc = "evaluate" /\ node < Len(Graph)
    /\ Graph[node + 1].cls \notin Mask
    /\ node' = node + 1
    /\ TimePasses
    /\ UNCHANGED <<pc, left, generated, alive, prev, target, selects,
                   last, latest, offers, pass>>

(* capture(): the latency is the time since the last captured op, in whole *)
(* microseconds; the target layer's softmax has a matrix to publish.       *)
Capture ==
    /\ pc = "evaluate" /\ node < Len(Graph)
    /\ Graph[node + 1].cls \in Mask
    /\ node' = node + 1
    /\ TimePasses
    /\ prev' = clock'
    /\ pass' = [first |-> IF pass.ops = 0 THEN clock' ELSE pass.first,
                ops |-> pass.ops + 1,
                latency |-> pass.latency
                              + IF prev # 0 THEN (clock' - prev) \div NsPerUs ELSE 0]
    /\ pc' = (IF Graph[node + 1].softmax /\ Graph[node + 1].layer = target
              THEN "offer" ELSE "evaluate")
    /\ UNCHANGED <<left, generated, alive, target, selects, last, latest, offers>>

(* Mutant: only a strictly richer matrix replaces the last one.            *)
RicherOnly(m) == m.layer # last.layer \/ m.rows > last.rows

(* A new layer always wins, otherwise a matrix of as many rows.            *)
RichEnough(m) == m.layer # last.layer \/ m.rows >= last.rows

(* build_attention and, if it is rich enough, publish; then the push.      *)
OfferMatrix ==
    /\ pc = "offer"
    /\ LET m == [layer |-> Graph[node].layer, rows |-> Smaller(Smaller(left, UBatch), MaxDim)]
       IN  /\ offers' = Append(offers, m)
           /\ IF RichEnough(m)
              THEN /\ last' = m
                   /\ latest' = [layer |-> m.layer, rows |-> m.rows, at |-> Len(offers) + 1]
              ELSE UNCHANGED <<last, latest>>
    /\ pc' = "evaluate"
    /\ UNCHANGED <<left, node, generated, alive, clock, prev, target, selects, pass>>

(* The pass ends; the next part of the batch, or llama_decode returns.     *)
EndPass ==
    /\ pc = "evaluate" /\ node = Len(Graph)
    /\ left' = left - Smaller(left, UBatch)
    /\ node' = 0
    /\ pc' = (IF left' > 0 THEN "evaluate" ELSE "generate")
    /\ UNCHANGED <<generated, alive, clock, prev, target, selects,
                   last, latest, offers, pass>>

(* llama_decode fails: after the prompt that goes unnoticed, in the        *)
(* generation it ends the run.                                             *)
DecodeFails ==
    /\ pc = "evaluate" /\ node = 0
    /\ left' = 0
    /\ pc' = (IF generated = 0 THEN "generate" ELSE "done")
    /\ UNCHANGED <<node, generated, alive, clock, prev, target, selects,
                   last, latest, offers, pass>>

(* The user.                                                               *)
Select(layer) ==
    /\ selects < MaxSelects /\ layer # target
    /\ target' = layer /\ selects' = selects + 1
    /\ UNCHANGED <<pc, left, node, generated, alive, clock, prev,
                   last, latest, offers, pass>>

Quit ==
    /\ alive
    /\ alive' = FALSE
    /\ UNCHANGED <<pc, left, node, generated, clock, prev, target, selects,
                   last, latest, offers, pass>>

Next ==
    \/ Prefill \/ SkipPrefill \/ GenerateToken \/ StopGenerating
    \/ EvaluateMasked \/ Capture \/ OfferMatrix \/ EndPass \/ DecodeFails
    \/ Quit \/ \E layer \in Targets : Select(layer)

Spec == Init /\ [][Next]_vars
-----------------------------------------------------------------------------
(* The latencies of one llama_decode add up to the time from its first     *)
(* captured op to its last, less than a microsecond lost per op: the time  *)
(* between two decodes is in none of them, that of a masked-off op is in   *)
(* the next one's (capturer.cpp 130-132, 187-189; main.cpp 274, 288).      *)
LatencyIsTimeInPass ==
    pass.ops > 0 =>
        LET time == prev - pass.first
        IN  /\ pass.latency * NsPerUs <= time
            /\ time <= pass.latency * NsPerUs + (pass.ops - 1) * (NsPerUs - 1)

(* Of the matrices built since the last one of another layer, the one      *)
(* published last is the richest, and the newest of those: one-row         *)
(* generation steps do not hide the prompt's matrix, also when the user    *)
(* has selected another layer meanwhile of which none was built.  Once one *)
(* of another layer has been published, the rule starts anew: for a user   *)
(* who comes back the first matrix counts, however poor ("a new layer      *)
(* always wins", capturer.cpp 172-179, ABOUT.md 181-183).                  *)
RichestPublished ==
    offers # <<>> =>
        LET same == {i \in DOMAIN offers :
                        \A j \in i .. Len(offers) : offers[j].layer = offers[Len(offers)].layer}
        IN  /\ latest.at \in same
            /\ \A i \in same :
                /\ offers[i].rows <= latest.rows
                /\ offers[i].rows = latest.rows => i <= latest.at

=============================================================================
