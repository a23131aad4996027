----------------------------- MODULE HeadlessRun -----------------------------
(***************************************************************************)
(* A `--headless` run (src/main.cpp 500-555; `--preview`, 557-580, drains  *)
(* in the same way): a producer thread that either captures a live model   *)
(* (inference_loop with Capturer::capture) or feeds a recorded session     *)
(* (replay_loop), and the main thread, which drains the ring until the     *)
(* producer has finished and the ring is empty, joins the producer and     *)
(* prints totals.                                                          *)
(*                                                                         *)
(* The ring is the channel of EventChannel, which SpscRing implements.     *)
(* Beside it the threads share the one-place AttentionSink, under a mutex, *)
(* and the flag producer_done.  What one thread knows of the other's index *)
(* grows when it reads that index, but also when it locks the mutex after  *)
(* the other (popsAtTake, pushesAtPublish remember what the other had done *)
(* when it last held it) and when it sees producer_done (acquire after     *)
(* release): the run is correct only because of these.                     *)
(*                                                                         *)
(* The event of the k-th captured op, or the k-th event of the file, is k; *)
(* an attention matrix is named by the op it was computed in.              *)
(***************************************************************************)
EXTENDS EventChannel

CONSTANTS
    MaxOps,      \* bound on the ops of a run, or the events of a file
    MaxRefusals  \* bound on the refused pushes of a run

ASSUME HeadlessAssumption ==
    /\ MaxOps \in Nat
    /\ MaxRefusals \in Nat
    /\ Item = 1 .. MaxOps

None == 0        \* no attention matrix

VARIABLES
    mode,             \* "live" or "replay"
    op,               \* ops captured, or events read from the file, so far
    ppc,              \* where the producer thread is
    cpc,              \* where the main thread is
    done,             \* producer_done
    sink,             \* the pending attention matrix (latest_, has_)
    popsAtTake,       \* pops made when main last unlocked the sink
    pushesAtPublish,  \* pushes made when the producer last unlocked the sink
    recorded,         \* events popped: counted, recorded, exported
    attention,        \* the matrix reported: the last one taken
    accepted,         \* history: events the ring accepted
    published         \* history: the last matrix published

producerVars == <<op, ppc, done, pushesAtPublish, accepted, published>>
consumerVars == <<cpc, popsAtTake, recorded, attention>>
vars == <<channel, mode, sink, producerVars, consumerVars>>

Init ==
    /\ ChannelInit
    /\ mode \in {"live", "replay"}
    /\ op = 0 /\ ppc = "run" /\ cpc = "check"
    /\ done = FALSE /\ sink = None
    /\ popsAtTake = 0 /\ pushesAtPublish = 0
    /\ recorded = <<>> /\ attention = None
    /\ accepted = <<>> /\ published = None
-----------------------------------------------------------------------------
(* Producer.                                                               *)

(* The hook sees an op that is not masked off; in the target layer's       *)
(* softmax it also has an attention matrix to publish (capture 125-181).   *)
CaptureOp ==
    /\ mode = "live" /\ ppc = "run" /\ op < MaxOps
    /\ op' = op + 1
    /\ ppc' \in {"publish", "push"}
    /\ UNCHANGED <<channel, mode, sink, done, pushesAtPublish, accepted, published, consumerVars>>

(* r.next(ev) has another event.                                           *)
ReadEvent ==
    /\ mode = "replay" /\ ppc = "run" /\ op < MaxOps
    /\ op' = op + 1
    /\ ppc' = "push"
    /\ UNCHANGED <<channel, mode, sink, done, pushesAtPublish, accepted, published, consumerVars>>

(* Mutant: the matrix handed over without the lock.                        *)
PublishUnlocked ==
    /\ ppc = "publish"
    /\ sink' = op
    /\ published' = op
    /\ ppc' = "push"
    /\ UNCHANGED <<channel, mode, op, done, pushesAtPublish, accepted, consumerVars>>

(* AttentionSink::publish: the new matrix replaces one not taken yet.  The *)
(* lock makes every pop before main's last take visible to the producer.   *)
Publish ==
    /\ ppc = "publish"
    /\ sink' = op
    /\ published' = op
    /\ pushesAtPublish' = Len(accepted)
    /\ LearnRoom
    /\ credit' >= Cap - (Len(accepted) - popsAtTake)
    /\ ppc' = "push"
    /\ UNCHANGED <<mode, op, done, accepted, consumerVars>>

PushAccepted ==
    /\ ppc = "push"
    /\ Accept(op)
    /\ accepted' = Append(accepted, op)
    /\ ppc' = "run"
    /\ UNCHANGED <<mode, sink, op, done, pushesAtPublish, published, consumerVars>>

(* Mutant: a replayed event is given up like a live one.                   *)
PushGivesUp ==
    /\ ppc = "push" /\ dropped < MaxRefusals
    /\ Refuse
    /\ ppc' = "run"
    /\ UNCHANGED <<mode, sink, op, done, pushesAtPublish, accepted, published, consumerVars>>

(* A live event that finds the ring full is dropped and inference goes on; *)
(* a replayed one is pushed again after a pause.                           *)
PushRefused ==
    /\ ppc = "push" /\ dropped < MaxRefusals
    /\ Refuse
    /\ ppc' = (IF mode = "live" THEN "run" ELSE "push")
    /\ UNCHANGED <<mode, sink, op, done, pushesAtPublish, accepted, published, consumerVars>>

(* Mutant: an exit that does not set the flag.                             *)
ExitsSilently ==
    /\ ppc = "run"
    /\ ppc' = "exited"
    /\ UNCHANGED <<channel, mode, sink, op, done, pushesAtPublish, accepted, published, consumerVars>>

(* No further op or event, or the model or the file could not be opened:   *)
(* the thread's DoneGuard is destroyed.                                    *)
ProducerExits ==
    /\ ppc = "run"
    /\ done' = TRUE
    /\ ppc' = "exited"
    /\ UNCHANGED <<channel, mode, sink, op, pushesAtPublish, accepted, published, consumerVars>>

Producer == \/ CaptureOp \/ ReadEvent \/ Publish
            \/ PushAccepted \/ PushRefused \/ ProducerExits
-----------------------------------------------------------------------------
(* Main thread.                                                            *)

(* `!producer_done.load(acquire)` is true.                                 *)
SeesRunning ==
    /\ cpc = "check" /\ ~ done
    /\ cpc' = "drain"
    /\ UNCHANGED <<channel, mode, sink, producerVars, popsAtTake, recorded, attention>>

(* Mutant: `while (!producer_done)`, without the ring's size.              *)
StopsWhenDone ==
    /\ cpc = "check" /\ done
    /\ LearnItems
    /\ cpc' = "join"
    /\ UNCHANGED <<mode, sink, producerVars, popsAtTake, recorded, attention>>

(* The acquire load of TRUE makes everything the producer did visible.     *)
SeesDone ==
    /\ cpc = "check" /\ done
    /\ LearnItems
    /\ visible' = Len(queue)
    /\ cpc' = "size"
    /\ UNCHANGED <<mode, sink, producerVars, popsAtTake, recorded, attention>>

(* `ring.size_approx() > 0`, or the loop ends and the producer is joined.  *)
ChecksSize ==
    /\ cpc = "size"
    /\ LearnItems
    /\ cpc' = (IF visible' > 0 THEN "drain" ELSE "join")
    /\ UNCHANGED <<mode, sink, producerVars, popsAtTake, recorded, attention>>

(* One turn of `while (ring.pop(ev))`: count, topology, detector, recorder *)
(* and summary.                                                            *)
PopEvent ==
    /\ cpc = "drain"
    /\ Take
    /\ recorded' = Append(recorded, Head(queue))
    /\ UNCHANGED <<mode, sink, producerVars, cpc, popsAtTake, attention>>

DrainEnds ==
    /\ cpc = "drain"
    /\ SeesEmpty
    /\ cpc' = "attention"
    /\ UNCHANGED <<mode, sink, producerVars, popsAtTake, recorded, attention>>

(* attn_sink.take, and the pause before the next turn.  The lock makes     *)
(* every push before the last publish visible to main.                     *)
TakeAttention ==
    /\ cpc = "attention"
    /\ attention' = (IF sink = None THEN attention ELSE sink)
    /\ sink' = None
    /\ popsAtTake' = Len(recorded)
    /\ LearnItems
    /\ visible' >= pushesAtPublish - Len(recorded)
    /\ cpc' = "check"
    /\ UNCHANGED <<mode, producerVars, recorded>>

(* producer.join(), and the report.                                        *)
JoinAndReport ==
    /\ cpc = "join" /\ ppc = "exited"
    /\ cpc' = "report"
    /\ UNCHANGED <<channel, mode, sink, producerVars, popsAtTake, recorded, attention>>

Main == \/ SeesRunning \/ SeesDone \/ ChecksSize \/ PopEvent \/ DrainEnds
        \/ TakeAttention \/ JoinAndReport
-----------------------------------------------------------------------------
Next == Producer \/ Main

Spec == Init /\ [][Next]_vars

(* The model runs and the file is read at their own pace, but they run; a  *)
(* store becomes visible in finite time, so a push that is tried again and *)
(* again sees the room there is, and a pop the items there are.            *)
FairSpec ==
    /\ Spec
    /\ WF_vars(CaptureOp \/ ReadEvent \/ Publish \/ ProducerExits)
    /\ WF_vars(PushAccepted) /\ WF_vars(mode = "live" /\ PushRefused)
    /\ WF_vars(Main) /\ SF_vars(PopEvent)
-----------------------------------------------------------------------------
TypeOK ==
    /\ ChannelTypeOK
    /\ mode \in {"live", "replay"}
    /\ op \in 0 .. MaxOps
    /\ ppc \in {"run", "publish", "push", "exited"}
    /\ cpc \in {"check", "size", "drain", "attention", "join", "report"}
    /\ done \in BOOLEAN
    /\ {sink, attention, published} \subseteq 0 .. MaxOps
    /\ popsAtTake \in 0 .. Len(recorded)
    /\ pushesAtPublish \in 0 .. Len(accepted)
    /\ recorded \in Seq(Item) /\ accepted \in Seq(Item)

(* When the run reports, every event the ring accepted has been popped and *)
(* recorded, in order: main stops only once it has seen producer_done and, *)
(* after that, an empty ring (main.cpp 509).                               *)
AllRecorded ==
    cpc = "report" => queue = <<>> /\ recorded = accepted

(* The totals of the report add up: of a live run, ops recorded plus ops   *)
(* dropped are the ops captured (main.cpp 531-538); of a replay, every     *)
(* event of the file has been recorded, whatever was refused on the way.   *)
TotalsAddUp ==
    cpc = "report" =>
        Len(recorded) = op - (IF mode = "live" THEN dropped ELSE 0)

(* The attention matrix reported is the last one published: none is left   *)
(* in the sink when main stops looking, although main tests only the ring  *)
(* and producer_done.  It holds because capture publishes before it pushes *)
(* the same op (166-183) and main takes after it drains (510-525).         *)
LastAttentionReported ==
    cpc = "report" => sink = None /\ attention = published

(* A headless run ends with its report.                                    *)
Termination == <>(cpc = "report")

=============================================================================
