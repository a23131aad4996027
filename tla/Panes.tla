-------------------------------- MODULE Panes -------------------------------
(***************************************************************************)
(* The panes of the dashboard: what consumer_loop (src/main.cpp 172-215)   *)
(* makes of the events it pops (the layer tree, the anomaly ledger, the    *)
(* stream), what UiState keeps of it for the screen (src/tui/ui_state.hpp) *)
(* and what the keys of App::run (src/tui/app.cpp 570-693) do with it.     *)
(*                                                                         *)
(* Two threads: the consumer, and the UI thread, which handles keys and    *)
(* draws.  Every method of UiState runs under its lock and is one step;    *)
(* a handler that calls several takes several steps.  Ring, capture and    *)
(* shutdown are in DashboardRun.                                           *)
(*                                                                         *)
(* An event is named by its place in `fed`.  Of its numbers the model has  *)
(* the latency and the conditions the anomaly rules test.                  *)
(***************************************************************************)
EXTENDS Topology

CONSTANTS
    Ops,         \* the ops events may be of
    MaxEvents,   \* bound on the events
    Keyboard,    \* the kinds of key the user presses
    MaxKeys,     \* bound on the keys pressed
    StreamCap,   \* kStreamCap
    LedgerCap,   \* kLedgerCap, the detector's
    AnomalyCap,  \* kAnomalyCap, the pane's
    FlameLimit,  \* rows of the flamegraph
    ViewRows, ViewCols,  \* size of the attention viewport
    Matrices     \* sizes of the attention matrices captured

KeyKinds == {"edit", "quit", "focus", "cursor", "space", "pan", "stream"}
OpClasses == {"Embed", "Attn", "MLP", "Norm", "Output", "Other"}

ASSUME PanesAssumption ==
    /\ Ops \subseteq [layer : Nat \cup {-1}, cls : OpClasses, lat : Nat,
                      signs : SUBSET {"nan", "inf", "outlier", "cpu"}]
    /\ Keyboard \subseteq KeyKinds
    /\ {MaxEvents, MaxKeys} \subseteq Nat
    /\ {StreamCap, LedgerCap, AnomalyCap, FlameLimit, ViewRows, ViewCols} \subseteq Nat \ {0}
    /\ Matrices \subseteq [rows : Nat \ {0}, cols : Nat \ {0}]

NoRequest == -2        \* pending_select holds no request
NoMatrix == [rows |-> 0, cols |-> 0]
Panels == <<"topology", "stream", "attention", "metrics", "flame", "ledger">>

VARIABLES
    fed,        \* history: the events handled
    tree,       \* topo
    detector,   \* the anomaly detector
    target,     \* target_layer
    chosen,     \* history: target was chosen by the user
    cpc, any,   \* the consumer: where it is, and whether it popped an event
    pending,    \* pending_select
    ui,         \* UiState
    focus, editing, filter, pan,  \* App: focus_, filter_editing_, ...
    upc, row,   \* the UI thread: where it is, and the row it has read
    keys,       \* keys pressed so far
    seen        \* the rows and the cursor on the screen

consumerVars == <<fed, tree, detector, target, chosen, cpc, any>>
appVars == <<focus, editing, filter, pan>>
vars == <<consumerVars, pending, ui, appVars, upc, row, keys, seen>>

LastN(s, n) == SubSeq(s, Max({1, Len(s) - n + 1}), Len(s))
Key(r) == <<r.layer, r.label>>
KeysOf(rows) == [i \in DOMAIN rows |-> Key(rows[i])]

Init ==
    /\ fed = <<>> /\ tree = <<>>
    /\ detector = [ledger |-> <<>>, seen |-> [rule \in {"outlier", "cpu"} |-> {}]]
    /\ target = 0 /\ chosen = FALSE
    /\ cpc = "turn" /\ any = FALSE
    /\ pending = NoRequest
    /\ ui = [stream |-> <<>>, total |-> 0, rows |-> <<>>, selected |-> 0,
             metrics |-> 0, anomalies |-> <<>>, attention |-> NoMatrix]
    /\ focus = 1 /\ editing = FALSE /\ filter = <<>> /\ pan = [row |-> 0, col |-> 0]
    /\ upc = "keys" /\ row = 0 /\ keys = 0
    /\ seen = [rows |-> <<>>, selected |-> 0]
-----------------------------------------------------------------------------
(* AnomalyDetector::inspect: the rules in the order of their priority.     *)
Rules == <<"nan", "inf", "outlier", "cpu">>

(* The CPU rule is for layer ops only.                                     *)
Signs(e) == IF e.layer < 0 \/ e.cls = "Embed" THEN e.signs \ {"cpu"} ELSE e.signs

Rule(e) ==
    LET Holds(r) == r \in Signs(e)
        i        == SelectInSeq(Rules, Holds)
    IN  IF i = 0 THEN "none" ELSE Rules[i]

NodeName(e) == <<e.layer, e.cls>>

(* Mutant: an outlier already reported falls through to the CPU rule.      *)
ReportedFallsThrough(d, e) ==
    LET r == Rule(e)
    IN  CASE r \in {"nan", "inf"}     -> r
          [] r = "outlier" /\ NodeName(e) \notin d.seen["outlier"] -> r
          [] r \in {"outlier", "cpu"} ->
                IF "cpu" \in Signs(e) /\ NodeName(e) \notin d.seen["cpu"] THEN "cpu" ELSE "none"
          [] OTHER -> "none"

(* What is reported of the event: a sign that is reported once per node is *)
(* passed over when it is found again.                                     *)
Reported(d, e) ==
    LET r == Rule(e)
    IN  IF r \in DOMAIN d.seen /\ NodeName(e) \in d.seen[r] THEN "none" ELSE r

Inspected(d, e, id) ==
    LET r == Reported(d, e)
    IN  IF r = "none" THEN d
        ELSE [ledger |-> LastN(Append(d.ledger, <<id, r>>), LedgerCap),
              seen   |-> [rule \in DOMAIN d.seen |->
                            d.seen[rule] \cup (IF rule = r THEN {NodeName(e)} ELSE {})]]
-----------------------------------------------------------------------------
(* Consumer.                                                               *)

(* The pending selection is applied: topo.select and target_layer.         *)
BeginTurn ==
    /\ cpc = "turn"
    /\ pending' = NoRequest
    /\ IF pending = NoRequest THEN UNCHANGED <<tree, target, chosen>>
       ELSE /\ tree' = Select(tree, pending)
            /\ target' = pending
            /\ chosen' = TRUE
    /\ cpc' = "drain" /\ any' = FALSE
    /\ UNCHANGED <<fed, detector, ui, appVars, upc, row, keys, seen>>

(* pop, topo.update and push_event.                                        *)
HandleEvent(e) ==
    /\ cpc = "drain" /\ Len(fed) < MaxEvents
    /\ fed' = Append(fed, e)
    /\ tree' = Update(tree, e, Len(fed'))
    /\ ui' = [ui EXCEPT !.stream = LastN(Append(@, Len(fed')), StreamCap), !.total = @ + 1]
    /\ any' = TRUE
    /\ cpc' = "inspect"
    /\ UNCHANGED <<detector, target, chosen, pending, appVars, upc, row, keys, seen>>

(* set_selected_metrics, inspect and push_anomaly.                         *)
InspectEvent ==
    /\ cpc = "inspect"
    /\ LET id == Len(fed)
           e  == fed[id]
           r  == Reported(detector, e)
       IN  /\ detector' = Inspected(detector, e, id)
           /\ ui' = [ui EXCEPT
                       !.metrics = IF e.layer = target THEN id ELSE @,
                       !.anomalies = IF r = "none" THEN @
                                     ELSE LastN(Append(@, <<id, r>>), AnomalyCap)]
    /\ cpc' = "drain"
    /\ UNCHANGED <<fed, tree, target, chosen, any, pending, appVars, upc, row, keys, seen>>

(* The ring is empty; a matrix may be waiting in the sink.                 *)
EndDrain ==
    /\ cpc = "drain"
    /\ \E size \in Matrices \cup {ui.attention} : ui' = [ui EXCEPT !.attention = size]
    /\ cpc' = (IF any THEN "refresh" ELSE "turn")
    /\ UNCHANGED <<fed, tree, detector, target, chosen, any, pending, appVars,
                   upc, row, keys, seen>>

(* set_topology(topo.flatten()): the cursor stays in the list.             *)
RefreshUi ==
    /\ cpc = "refresh"
    /\ LET rows == Flatten(tree)
       IN  ui' = [ui EXCEPT !.rows = rows,
                            !.selected = IF @ >= Len(rows) THEN Max({0, Len(rows) - 1}) ELSE @]
    /\ cpc' = "turn"
    /\ UNCHANGED <<fed, tree, detector, target, chosen, any, pending, appVars,
                   upc, row, keys, seen>>

Consumer == \/ BeginTurn \/ InspectEvent \/ EndDrain \/ RefreshUi
            \/ \E e \in Ops : HandleEvent(e)
-----------------------------------------------------------------------------
(* The UI thread.  A key that nothing below answers changes nothing; left  *)
(* out are those of the contrast, a number that only the colours read, and *)
(* p and s, for which no controller is ever attached.                      *)

Pressing(kind) ==
    kind \in Keyboard /\ upc = "keys" /\ keys < MaxKeys /\ keys' = keys + 1

(* While the filter is edited every key goes to it.  The filter is kept in *)
(* bytes: a character has one or two, Backspace takes one away.            *)
Bytes(char) == IF char = "wide" THEN <<"wide1", "wide2">> ELSE <<char>>

EditFilter ==
    /\ Pressing("edit") /\ editing
    /\ \/ /\ editing' = FALSE                                   \* Enter
          /\ UNCHANGED filter
       \/ /\ editing' = FALSE                                   \* Esc
          /\ filter' = <<>>
       \/ /\ filter # <<>> /\ filter' = Front(filter)           \* Backspace
          /\ UNCHANGED editing
       \/ /\ \E char \in {"q", "wide"} : filter' = filter \o Bytes(char)
          /\ UNCHANGED editing
    /\ UNCHANGED <<consumerVars, pending, ui, focus, pan, upc, row, seen>>

Quit ==
    /\ Pressing("quit") /\ ~ editing
    /\ upc' = "quit"
    /\ UNCHANGED <<consumerVars, pending, ui, appVars, row, seen>>

(* Tab and Shift-Tab.                                                      *)
TurnFocus ==
    /\ Pressing("focus") /\ ~ editing
    /\ \E step \in {1, Len(Panels) - 1} : focus' = ((focus - 1 + step) % Len(Panels)) + 1
    /\ UNCHANGED <<consumerVars, pending, ui, editing, filter, pan, upc, row, seen>>

Focused(panel, kind) == Pressing(kind) /\ ~ editing /\ Panels[focus] = panel

(* Mutant: one row too far.                                                *)
ClampedLate(i, rows) == IF i < 0 \/ rows = <<>> THEN 0 ELSE Min({i, Len(rows)})

(* j and k in the topology pane: selected(), then set_selected(), which    *)
(* keeps the cursor on the rows there are by then.                         *)
Clamped(i, rows) == IF i < 0 \/ rows = <<>> THEN 0 ELSE Min({i, Len(rows) - 1})

MoveCursor ==
    /\ Focused("topology", "cursor")
    /\ \E step \in {1, -1} : row' = ui.selected + step
    /\ upc' = "move"
    /\ UNCHANGED <<consumerVars, pending, ui, appVars, seen>>

SetCursor ==
    /\ upc = "move"
    /\ ui' = [ui EXCEPT !.selected = Clamped(row, ui.rows)]
    /\ upc' = "keys"
    /\ UNCHANGED <<consumerVars, pending, appVars, row, keys, seen>>

(* Space in the topology pane: selected(), then topology_size(), then      *)
(* on_select_target(row) ...                                               *)
PressSpace ==
    /\ Focused("topology", "space")
    /\ row' = ui.selected
    /\ upc' = "size"
    /\ UNCHANGED <<consumerVars, pending, ui, appVars, seen>>

CheckSize ==
    /\ upc = "size"
    /\ upc' = (IF row < Len(ui.rows) THEN "resolve" ELSE "keys")
    /\ UNCHANGED <<consumerVars, pending, ui, appVars, row, keys, seen>>

(* Mutant: rows counted from one.                                          *)
ResolveRowAbove ==
    /\ upc = "resolve"
    /\ pending' = ui.rows[Max({row, 1})].layer
    /\ upc' = "keys"
    /\ UNCHANGED <<consumerVars, ui, appVars, row, keys, seen>>

(* ... which takes a snapshot of its own and looks the row up there.       *)
ResolveRow ==
    /\ upc = "resolve"
    /\ pending' = ui.rows[row + 1].layer
    /\ upc' = "keys"
    /\ UNCHANGED <<consumerVars, ui, appVars, row, keys, seen>>

(* h, l, k, j and f in the attention pane.                                 *)
PanAttention ==
    /\ Focused("attention", "pan")
    /\ pan' \in {[pan EXCEPT !.col = Max({0, @ - 4})], [pan EXCEPT !.col = @ + 4],
                 [pan EXCEPT !.row = Max({0, @ - 2})], [pan EXCEPT !.row = @ + 2],
                 [row |-> 0, col |-> 0]}
    /\ UNCHANGED <<consumerVars, pending, ui, focus, editing, filter, upc, row, seen>>

(* / and Esc in the stream pane.                                           *)
StreamKey ==
    /\ Focused("stream", "stream")
    /\ \/ editing' = TRUE /\ UNCHANGED filter
       \/ filter # <<>> /\ filter' = <<>> /\ UNCHANGED editing
    /\ UNCHANGED <<consumerVars, pending, ui, focus, pan, upc, row, seen>>

(* A frame, from one snapshot.                                             *)
Draw ==
    /\ upc = "keys"
    /\ seen' = [rows |-> KeysOf(ui.rows), selected |-> ui.selected]
    /\ UNCHANGED <<consumerVars, pending, ui, appVars, upc, row, keys>>

UiThread == \/ EditFilter \/ Quit \/ TurnFocus \/ MoveCursor \/ SetCursor
            \/ PressSpace \/ CheckSize \/ ResolveRow
            \/ PanAttention \/ StreamKey \/ Draw
-----------------------------------------------------------------------------
Next == Consumer \/ UiThread

Spec == Init /\ [][Next]_vars
-----------------------------------------------------------------------------
(* Mutant: the view is panned past the end of the matrix.                  *)
FirstUnclamped(want, size, view) == want

(* What a frame is made of: the part of the matrix in view (0-based, first *)
(* and last), and the bars of the flamegraph.                              *)
First(want, size, view) == Min({want, Max({0, size - Min({size, view})})})
View(want, size, view) ==
    LET first == First(want, size, view)
    IN  first .. (first + Min({size, view}) - 1)

Flame == FlameRows(ui.rows, FlameLimit)
BarWidth == 24

(* The reference the panes are compared with, over all the events handled: *)
(* the latency of those whose op is in S ...                               *)
LatencyOf(events, S) ==
    LET sum[k \in 0 .. Len(events)] ==
          IF k = 0 THEN 0
          ELSE sum[k - 1] + (IF events[k] \in S THEN events[k].lat ELSE 0)
    IN  sum[Len(events)]

OfBucket(label) == {e \in Ops : Label(e.layer, e.cls) = label}
OfOp(label, opLabel) == {e \in OfBucket(label) : opLabel = <<e.cls>>}

(* ... and the reports they are worth: NaN and Inf always, another sign    *)
(* when it is the first of its kind from its node.                         *)
Worth(events, k) ==
    /\ Rule(events[k]) # "none"
    /\ Rule(events[k]) \in {"outlier", "cpu"} =>
         ~ \E j \in 1 .. (k - 1) : /\ NodeName(events[j]) = NodeName(events[k])
                                  /\ Rule(events[j]) = Rule(events[k])

Reports(events) ==
    LET told[k \in 0 .. Len(events)] ==
          IF k = 0 THEN <<>>
          ELSE IF Worth(events, k) THEN Append(told[k - 1], <<k, Rule(events[k])>>)
               ELSE told[k - 1]
    IN  told[Len(events)]

(* The panes tell what the events were, however many the caps have dropped *)
(* and whatever came between: every bucket and every op row has the total  *)
(* latency of its events, NaN and Inf are always reported, and any other   *)
(* sign once for each node, also after its report has left the ledger.     *)
PanesTellTheEvents ==
    /\ ui.total = Len(fed)
    /\ ui.stream = LastN([k \in DOMAIN fed |-> k], StreamCap)
    /\ \A b \in Range(tree) :
         /\ b.node.latency = LatencyOf(fed, OfBucket(b.node.label))
         /\ \A op \in Range(b.ops) :
              op.latency = LatencyOf(fed, OfOp(b.node.label, op.label))
    /\ cpc # "inspect" => /\ detector.ledger = LastN(Reports(fed), LedgerCap)
                          /\ ui.anomalies = LastN(Reports(fed), AnomalyCap)

(* Every element of old is in new, in the same order, and new has none     *)
(* twice.                                                                  *)
OnlyInserted(old, new) ==
    /\ IsInjective(new)
    /\ \A i \in 1 .. Len(old) :
         \E k \in 1 .. Len(new) :
             /\ new[k] = old[i]
             /\ \A j \in (i + 1) .. Len(old) : \E l \in (k + 1) .. Len(new) : new[l] = old[j]

(* Rows are only inserted: those in the list keep their order, none is     *)
(* renamed, doubled or removed, so an index can be wrong only because a    *)
(* row has come above it.                                                  *)
RowsOnlyInserted == [][OnlyInserted(KeysOf(ui.rows), KeysOf(ui.rows'))]_(ui.rows)

(* The user presses Space with the cursor where the last frame showed it.  *)
PressedAsShown == upc = "resolve" /\ seen.selected = row /\ row < Len(seen.rows)
Highlighted == seen.rows[row + 1][1]

(* "set the current layer as capture target" (app.hpp 6): the layer the    *)
(* user sees highlighted.  Of the row only its index goes from the screen  *)
(* to the target (main.cpp 594-599), and while three snapshots are taken   *)
(* on the way (frame, row, layer) rows come.  Another layer than the       *)
(* highlighted one becomes the target only if a row that was not on the    *)
(* screen has come at or above the cursor's place by the lookup, however   *)
(* many have come below.                                                   *)
WrongOnlyByRowAbove ==
    [][PressedAsShown /\ upc' = "keys" /\ pending' # Highlighted
         => \E i \in 1 .. (row + 1) : Key(ui.rows[i]) \notin Range(seen.rows)]_upc

(* A target the user has chosen is marked in the tree and nothing else is: *)
(* one bucket for a layer, at least one for the ops outside the layers.    *)
MarkFollowsTarget ==
    chosen =>
        LET marked == {i \in DOMAIN tree : tree[i].node.selected}
        IN  /\ marked # {}
            /\ \A i \in marked : tree[i].node.layer = target
            /\ target >= 0 => Cardinality(marked) = 1

(* The screen stays on its data: the cursor on a row, and the attention    *)
(* view inside the matrix and as large as it can be, however far the user  *)
(* has panned over whichever matrix.                                       *)
ViewWithinData ==
    /\ ui.selected \in 0 .. Max({0, Len(ui.rows) - 1})
    /\ ui.attention # NoMatrix =>
         LET r == View(pan.row, ui.attention.rows, ViewRows)
             c == View(pan.col, ui.attention.cols, ViewCols)
         IN  /\ r \subseteq 0 .. (ui.attention.rows - 1)
             /\ c \subseteq 0 .. (ui.attention.cols - 1)
             /\ Cardinality(r) = Min({ui.attention.rows, ViewRows})
             /\ Cardinality(c) = Min({ui.attention.cols, ViewCols})

(* The flamegraph shows the slowest buckets, the slowest first with a full *)
(* bar; none it leaves out is slower, and none it shows has an empty bar.  *)
FlamesAreSlowest ==
    /\ \A i, j \in DOMAIN Flame : i < j => Flame[i].latency >= Flame[j].latency
    /\ \A r \in Range(ui.rows) :
         IsLayerRow(r) /\ r.latency > 0 /\ r \notin Range(Flame) =>
             /\ Len(Flame) = FlameLimit
             /\ r.latency <= Flame[FlameLimit].latency
    /\ \A i \in DOMAIN Flame :
         LET bar == FlameBar(Flame[i].latency, Flame[1].latency, BarWidth)
         IN  bar \in 1 .. BarWidth /\ (i = 1 => bar = BarWidth)

=============================================================================
