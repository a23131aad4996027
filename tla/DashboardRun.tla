---------------------------- MODULE DashboardRun ----------------------------
(***************************************************************************)
(* An interactive run (src/main.cpp 590-618): the producer thread of       *)
(* HeadlessRun, the consumer thread (consumer_loop, 172-215), which fans   *)
(* the events of the ring out to the topology, the recorder and UiState,   *)
(* and the main thread, which runs the dashboard (App::run) until the user *)
(* quits, then clears `alive`, joins both threads and closes the recorder. *)
(*                                                                         *)
(* Keys reach the consumer through pending_select; frames are drawn when   *)
(* the consumer nudges the screen or a key is pressed.  The ring is the    *)
(* channel of EventChannel; the sink's mutex passes on what each thread    *)
(* has done, as in HeadlessRun.                                            *)
(*                                                                         *)
(* Event k is the k-th op captured or read; ops visit the layers in turn,  *)
(* one op a layer, and a live op of the target layer may have an attention *)
(* matrix to publish, also named k (the softmax of a pass with at least as *)
(* many rows as the last one published).                                   *)
(***************************************************************************)
EXTENDS EventChannel, Integers

CONSTANTS
    Modes,        \* kinds of run: a subset of {"live", "replay"}
    NLayers,      \* layers of the model
    MaxOps,       \* bound on the ops of a run, or the events of a file
    MaxRefusals,  \* bound on the refused pushes while the dashboard is up
    MaxPresses    \* bound on the presses of Space

ASSUME DashboardAssumption ==
    /\ Modes \subseteq {"live", "replay"}
    /\ NLayers \in Nat \ {0}
    /\ {MaxOps, MaxRefusals, MaxPresses} \subseteq Nat
    /\ Item = 1 .. MaxOps

None == 0              \* no matrix, no event
NoSelection == -2      \* pending_select holds no request
Layer == 0 .. (NLayers - 1)
LayerOf(k) == (k - 1) % NLayers

VARIABLES
    mode, op, ppc,    \* the producer, as in HeadlessRun
    cpc,              \* where the consumer thread is
    mainpc,           \* where the main thread is
    alive,            \* the flag both loops test
    any,              \* consumer: this turn popped an event
    applying,         \* consumer: the selection it is applying
    pendingSelect,    \* pending_select
    target,           \* target_layer
    sinkTarget,       \* attn_sink.target_layer
    sink,             \* attn_sink's pending matrix
    popsAtTake, pushesAtPublish,  \* what the sink's mutex passes on
    recorded,         \* events popped and written to the recorder
    ui,               \* UiState
    screen,           \* App::screen_: "none", "up", "gone"
    nudged,           \* a redraw is queued in the screen's event loop
    frame,            \* what the terminal shows
    accepted,         \* history: events the ring accepted
    pressed           \* history: the last layer selected, and how often

producerVars == <<op, ppc, pushesAtPublish, accepted>>
consumerVars == <<cpc, any, applying, target, sinkTarget, popsAtTake, recorded>>
mainVars == <<mainpc, alive, screen, frame, pressed>>
vars == <<channel, mode, sink, pendingSelect, ui, nudged,
          producerVars, consumerVars, mainVars>>

UiInit(m) == [total |-> 0, dropped |-> 0, session |-> m, attention |-> None,
              metrics |-> None, rows |-> {}]

Shown(u) == [total |-> u.total, dropped |-> u.dropped,
             session |-> u.session, attention |-> u.attention]

Init ==
    /\ ChannelInit
    /\ mode \in Modes
    /\ op = 0 /\ ppc = "run" /\ cpc = "loop" /\ mainpc = "start"
    /\ alive = TRUE /\ any = FALSE
    /\ applying = NoSelection /\ pendingSelect = NoSelection
    /\ target \in Layer /\ sinkTarget = target     \* opt.attn_layer
    /\ sink = None /\ popsAtTake = 0 /\ pushesAtPublish = 0
    /\ recorded = <<>> /\ accepted = <<>>
    /\ ui = UiInit(mode)
    /\ screen = "none" /\ nudged = FALSE /\ frame = Shown(ui)
    /\ pressed = [layer |-> target, times |-> 0]
-----------------------------------------------------------------------------
(* Producer: inference_loop and Capturer::capture, or replay_loop.         *)

(* The forward pass goes on to its end when `alive` is cleared: the loop   *)
(* tests it between tokens.                                                *)
CaptureOp ==
    /\ mode = "live" /\ ppc = "run" /\ op < MaxOps
    /\ op' = op + 1
    /\ ppc' \in (IF LayerOf(op + 1) = sinkTarget THEN {"publish", "push"} ELSE {"push"})
    /\ UNCHANGED <<channel, mode, sink, pendingSelect, ui, nudged,
                   pushesAtPublish, accepted, consumerVars, mainVars>>

ReadEvent ==
    /\ mode = "replay" /\ ppc = "run" /\ alive /\ op < MaxOps
    /\ op' = op + 1
    /\ ppc' = "push"
    /\ UNCHANGED <<channel, mode, sink, pendingSelect, ui, nudged,
                   pushesAtPublish, accepted, consumerVars, mainVars>>

(* Mutant: the matrix handed over without the lock.                        *)
PublishUnlocked ==
    /\ ppc = "publish"
    /\ sink' = op
    /\ ppc' = "push"
    /\ UNCHANGED <<channel, mode, pendingSelect, ui, nudged,
                   op, pushesAtPublish, accepted, consumerVars, mainVars>>

Publish ==
    /\ ppc = "publish"
    /\ sink' = op
    /\ pushesAtPublish' = Len(accepted)
    /\ LearnRoom
    /\ credit' >= Cap - (Len(accepted) - popsAtTake)
    /\ ppc' = "push"
    /\ UNCHANGED <<mode, pendingSelect, ui, nudged, op, accepted, consumerVars, mainVars>>

PushAccepted ==
    /\ ppc = "push"
    /\ Accept(op)
    /\ accepted' = Append(accepted, op)
    /\ ppc' = "run"
    /\ UNCHANGED <<mode, sink, pendingSelect, ui, nudged,
                   op, pushesAtPublish, consumerVars, mainVars>>

(* push has found the ring full; it has not counted the drop yet.          *)
PushSeesFull ==
    /\ ppc = "push" /\ (dropped < MaxRefusals \/ ~ alive)
    /\ LearnRoom
    /\ credit' = 0
    /\ ppc' = "drop"
    /\ UNCHANGED <<mode, sink, pendingSelect, ui, nudged,
                   op, pushesAtPublish, accepted, consumerVars, mainVars>>

(* Mutant: a live event is pushed again, like a replayed one.              *)
PushDropsThenRetries ==
    /\ ppc = "drop"
    /\ Refuse
    /\ ppc' = "retry"
    /\ UNCHANGED <<mode, sink, pendingSelect, ui, nudged,
                   op, pushesAtPublish, accepted, consumerVars, mainVars>>

PushDrops ==
    /\ ppc = "drop"
    /\ Refuse
    /\ ppc' = (IF mode = "live" THEN "run" ELSE "retry")
    /\ UNCHANGED <<mode, sink, pendingSelect, ui, nudged,
                   op, pushesAtPublish, accepted, consumerVars, mainVars>>

(* Mutant: the retry waits for room and does not test `alive`.             *)
WaitsForRoom ==
    /\ ppc = "retry" /\ Len(queue) < Cap
    /\ credit' = Cap - Len(queue)
    /\ ppc' = "push"
    /\ UNCHANGED <<queue, visible, dropped, mode, sink, pendingSelect, ui, nudged,
                   op, pushesAtPublish, accepted, consumerVars, mainVars>>

(* `while (!ring.push(ev) && alive.load())` (316).                         *)
ReplayRetries ==
    /\ ppc = "retry"
    /\ ppc' = (IF alive THEN "push" ELSE "run")
    /\ UNCHANGED <<channel, mode, sink, pendingSelect, ui, nudged,
                   op, pushesAtPublish, accepted, consumerVars, mainVars>>

(* End of the generation or of the file, or `alive` is FALSE: the last     *)
(* session state, and the thread ends.                                     *)
ProducerExits ==
    /\ ppc = "run"
    /\ ui' = [ui EXCEPT !.session = "DONE"]
    /\ ppc' = "exited"
    /\ UNCHANGED <<channel, mode, sink, pendingSelect, nudged,
                   op, pushesAtPublish, accepted, consumerVars, mainVars>>

Producer == \/ CaptureOp \/ ReadEvent \/ Publish \/ PushAccepted
            \/ PushSeesFull \/ PushDrops \/ ReplayRetries \/ ProducerExits
-----------------------------------------------------------------------------
(* Consumer: consumer_loop.                                                *)

TestAlive ==
    /\ cpc = "loop"
    /\ cpc' = (IF alive THEN "select" ELSE "exited")
    /\ any' = FALSE
    /\ UNCHANGED <<channel, mode, sink, pendingSelect, ui, nudged, producerVars, mainVars,
                   applying, target, sinkTarget, popsAtTake, recorded>>

(* pending_select.exchange(-2).                                            *)
TakeSelection ==
    /\ cpc = "select"
    /\ applying' = pendingSelect
    /\ pendingSelect' = NoSelection
    /\ cpc' = (IF pendingSelect = NoSelection THEN "drain" ELSE "apply")
    /\ UNCHANGED <<channel, mode, sink, ui, nudged, producerVars, mainVars,
                   any, target, sinkTarget, popsAtTake, recorded>>

(* topo.select, whose marks are in Panes, and the two stores; the producer *)
(* sees only the last.                                                     *)
ApplySelection ==
    /\ cpc = "apply"
    /\ target' = applying
    /\ cpc' = "applySink"
    /\ UNCHANGED <<channel, mode, sink, pendingSelect, ui, nudged, producerVars, mainVars,
                   any, applying, sinkTarget, popsAtTake, recorded>>

(* Mutant: the request is cleared once it has been applied.                *)
ApplyThenClear ==
    /\ cpc = "applySink"
    /\ sinkTarget' = applying
    /\ applying' = NoSelection
    /\ pendingSelect' = NoSelection
    /\ cpc' = "drain"
    /\ UNCHANGED <<channel, mode, sink, ui, nudged, producerVars, mainVars,
                   any, target, popsAtTake, recorded>>

ApplyToSink ==
    /\ cpc = "applySink"
    /\ sinkTarget' = applying
    /\ applying' = NoSelection
    /\ cpc' = "drain"
    /\ UNCHANGED <<channel, mode, sink, pendingSelect, ui, nudged, producerVars, mainVars,
                   any, target, popsAtTake, recorded>>

(* pop, topo.update, push_event, set_selected_metrics, recorder->write.    *)
PopEvent ==
    /\ cpc = "drain"
    /\ Take
    /\ any' = TRUE
    /\ recorded' = Append(recorded, Head(queue))
    /\ ui' = [ui EXCEPT !.total = @ + 1,
                        !.metrics = IF LayerOf(Head(queue)) = target
                                    THEN Head(queue) ELSE @]
    /\ UNCHANGED <<mode, sink, pendingSelect, nudged, producerVars, mainVars,
                   cpc, applying, target, sinkTarget, popsAtTake>>

DrainEnds ==
    /\ cpc = "drain"
    /\ SeesEmpty
    /\ cpc' = "attention"
    /\ UNCHANGED <<mode, sink, pendingSelect, ui, nudged, producerVars, mainVars,
                   any, applying, target, sinkTarget, popsAtTake, recorded>>

TakeAttention ==
    /\ cpc = "attention"
    /\ ui' = [ui EXCEPT !.attention = IF sink = None THEN @ ELSE sink]
    /\ sink' = None
    /\ popsAtTake' = Len(recorded)
    /\ LearnItems
    /\ visible' >= pushesAtPublish - Len(recorded)
    /\ cpc' = (IF any THEN "refresh" ELSE "loop")
    /\ UNCHANGED <<mode, pendingSelect, nudged, producerVars, mainVars,
                   any, applying, target, sinkTarget, recorded>>

(* set_topology(topo.flatten()) and set_dropped(ring.dropped()).           *)
RefreshUi ==
    /\ cpc = "refresh"
    /\ ui' = [ui EXCEPT !.rows = {LayerOf(recorded[i]) : i \in 1 .. Len(recorded)},
                        !.dropped = dropped]
    /\ cpc' = "nudge"
    /\ UNCHANGED <<channel, mode, sink, pendingSelect, nudged, producerVars, mainVars,
                   any, applying, target, sinkTarget, popsAtTake, recorded>>

(* Mutant: no redraw is asked for.                                         *)
ForgetsNudge ==
    /\ cpc = "nudge"
    /\ cpc' = "loop"
    /\ UNCHANGED <<channel, mode, sink, pendingSelect, ui, nudged, producerVars, mainVars,
                   any, applying, target, sinkTarget, popsAtTake, recorded>>

(* App::request_redraw: `if (screen_)`, then PostEvent on it.              *)
TestScreen ==
    /\ cpc = "nudge"
    /\ cpc' = (IF screen = "up" THEN "post" ELSE "loop")
    /\ UNCHANGED <<channel, mode, sink, pendingSelect, ui, nudged, producerVars, mainVars,
                   any, applying, target, sinkTarget, popsAtTake, recorded>>

PostRedraw ==
    /\ cpc = "post"
    /\ nudged' = TRUE
    /\ cpc' = "loop"
    /\ UNCHANGED <<channel, mode, sink, pendingSelect, ui, producerVars, mainVars,
                   any, applying, target, sinkTarget, popsAtTake, recorded>>

Consumer == \/ TestAlive \/ TakeSelection \/ ApplySelection \/ ApplyToSink
            \/ PopEvent \/ DrainEnds \/ TakeAttention
            \/ RefreshUi \/ TestScreen \/ PostRedraw
-----------------------------------------------------------------------------
(* Main thread: App::run and the end of main.                              *)

(* screen_ is set; the event loop draws once when it starts.               *)
StartScreen ==
    /\ mainpc = "start"
    /\ screen' = "up"
    /\ nudged' = TRUE
    /\ mainpc' = "up"
    /\ UNCHANGED <<channel, mode, sink, pendingSelect, ui, producerVars, consumerVars,
                   alive, frame, pressed>>

DrawFrame ==
    /\ mainpc = "up" /\ nudged
    /\ nudged' = FALSE
    /\ frame' = Shown(ui)
    /\ UNCHANGED <<channel, mode, sink, pendingSelect, ui, producerVars, consumerVars,
                   mainpc, alive, screen, pressed>>

(* Space on a topology row: on_select_target.  The key is followed by a    *)
(* frame.                                                                  *)
PressSpace(layer) ==
    /\ mainpc = "up" /\ layer \in ui.rows
    /\ pressed.times < MaxPresses
    /\ pendingSelect' = layer
    /\ pressed' = [layer |-> layer, times |-> pressed.times + 1]
    /\ nudged' = TRUE
    /\ UNCHANGED <<channel, mode, sink, ui, producerVars, consumerVars,
                   mainpc, alive, screen, frame>>

(* Any other key is followed by a frame, and changes nothing outside the   *)
(* App.  That goes for p and s in a replay too: replay_ctrl_ is null, for  *)
(* App::set_replay_control has no caller.                                  *)
PressKey ==
    /\ mainpc = "up"
    /\ nudged' = TRUE
    /\ UNCHANGED <<channel, mode, sink, pendingSelect, ui, producerVars, consumerVars,
                   mainpc, alive, screen, frame, pressed>>

(* q: the loop ends, screen_ is reset and the screen destroyed.            *)
Quit ==
    /\ mainpc = "up"
    /\ screen' = "gone"
    /\ nudged' = FALSE
    /\ mainpc' = "quit"
    /\ UNCHANGED <<channel, mode, sink, pendingSelect, ui, producerVars, consumerVars,
                   alive, frame, pressed>>

ClearAlive ==
    /\ mainpc = "quit"
    /\ alive' = FALSE
    /\ mainpc' = "joinProducer"
    /\ UNCHANGED <<channel, mode, sink, pendingSelect, ui, nudged, producerVars, consumerVars,
                   screen, frame, pressed>>

(* Mutant: the consumer is not joined.                                     *)
JoinProducerOnly ==
    /\ mainpc = "joinProducer" /\ ppc = "exited"
    /\ mainpc' = "closed"
    /\ UNCHANGED <<channel, mode, sink, pendingSelect, ui, nudged, producerVars, consumerVars,
                   alive, screen, frame, pressed>>

JoinProducer ==
    /\ mainpc = "joinProducer" /\ ppc = "exited"
    /\ mainpc' = "joinConsumer"
    /\ UNCHANGED <<channel, mode, sink, pendingSelect, ui, nudged, producerVars, consumerVars,
                   alive, screen, frame, pressed>>

(* ... and recorder->close().                                              *)
JoinConsumer ==
    /\ mainpc = "joinConsumer" /\ cpc = "exited"
    /\ mainpc' = "closed"
    /\ UNCHANGED <<channel, mode, sink, pendingSelect, ui, nudged, producerVars, consumerVars,
                   alive, screen, frame, pressed>>

Shutdown == ClearAlive \/ JoinProducer \/ JoinConsumer

Main == \/ StartScreen \/ DrawFrame \/ PressKey \/ Quit \/ Shutdown
        \/ \E layer \in Layer : PressSpace(layer)
-----------------------------------------------------------------------------
Next == Producer \/ Consumer \/ Main

Spec == Init /\ [][Next]_vars

(* Each thread runs; the user need not do anything.  A store becomes       *)
(* visible in finite time: a push tried again and again sees the room, and *)
(* a consumer that polls again and again the items.                        *)
FairSpec ==
    /\ Spec
    /\ WF_vars(CaptureOp \/ ReadEvent \/ Publish \/ PushDrops \/ ReplayRetries \/ ProducerExits)
    /\ SF_vars(PushAccepted) /\ WF_vars(PushAccepted \/ PushSeesFull)
    /\ WF_vars(Consumer) /\ SF_vars(PopEvent)
    /\ WF_vars(StartScreen) /\ WF_vars(DrawFrame) /\ WF_vars(Shutdown)
-----------------------------------------------------------------------------
(* In a live run the counter the header shows as "dropped N" is the number *)
(* of ops that were lost, or on its way to it: it tells whether one sees   *)
(* every op.  (A replay counts the refused tries of an event that is not   *)
(* lost, line 316.)                                                        *)
DroppedMeansLost ==
    mode = "live" =>
        dropped = op - Len(accepted) - (IF ppc \in {"publish", "push", "drop"} THEN 1 ELSE 0)

(* Once main has closed the recorder and returns, which destroys the ring, *)
(* the UI state and the topology, no thread uses them (main.cpp 608-617).  *)
NothingAfterClose ==
    [][mainpc = "closed" => UNCHANGED <<channel, sink, ui, recorded, target, nudged>>]_vars

(* When the recorder is closed it has written every event that passed      *)
(* through the ring.                                                       *)
RecordingComplete == mainpc = "closed" => recorded = accepted

(* The user's q ends the program: both threads stop, also a replay whose   *)
(* ring is full and that nobody drains any more (main.cpp 316, 608-612).   *)
QuitEnds == mainpc = "quit" ~> mainpc = "closed"

(* A selection reaches the topology and the capture, or a later one does:  *)
(* none is lost between the UI thread and the consumer (178-183, 594-599). *)
SelectionTakesEffect ==
    \A layer \in Layer :
        pressed.layer = layer ~> \/ target = layer /\ sinkTarget = layer
                                \/ pressed.layer # layer
                                \/ ~ alive

(* Every event the consumer handles is counted in a frame on the screen,   *)
(* also one handled before the screen exists (207-212).                    *)
EventsDrawn ==
    \A n \in 1 .. MaxOps : ui.total >= n ~> frame.total >= n \/ screen = "gone"

(* Every attention matrix handed to UiState is drawn, or replaced by a     *)
(* later one that is: although the consumer asks for a redraw only when it *)
(* popped an event (203-211).                                              *)
AttentionDrawn ==
    \A k \in 1 .. MaxOps :
        ui.attention = k ~> frame.attention >= k \/ screen = "gone"

=============================================================================
