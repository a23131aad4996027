------------------------------ MODULE Topology ------------------------------
(***************************************************************************)
(* The layer tree (src/capture/topology.cpp) and the two panes computed    *)
(* from its rows: the topology pane and the latency flamegraph.            *)
(*                                                                         *)
(* An event has a layer (-1: none), an operator class cls and a latency    *)
(* lat; its id is its place in the stream.  The tree is the sequence of    *)
(* the root's children in the order they were made.  A bucket and an op    *)
(* are both LayerNodes; a row of the flat list is either, without          *)
(* children.                                                               *)
(***************************************************************************)
EXTENDS SequencesExt, FiniteSetsExt, Integers

(* A label is a tuple: "layers.7" is <<"layers", 7>>.                      *)
Label(layer, cls) ==
    IF layer >= 0 THEN <<"layers", layer>>
    ELSE CASE cls = "Embed"  -> <<"embed">>
           [] cls = "Output" -> <<"output">>
           [] OTHER          -> <<"other">>

Node(layer, label) == [layer |-> layer, label |-> label, selected |-> FALSE,
                       last |-> 0, latency |-> 0]
NewBucket(layer, label) == [node |-> Node(layer, label), ops |-> <<>>]

Touch(node, id, lat) == [node EXCEPT !.last = id, !.latency = @ + lat]

(* layer_node() and op_node() take the first child that matches, or a new  *)
(* one at the end.                                                         *)
TouchOp(ops, layer, cls, id, lat) ==
    LET IsOp(n) == n.label = <<cls>>
        grown   == IF \E n \in Range(ops) : IsOp(n) THEN ops
                   ELSE Append(ops, Node(layer, <<cls>>))
        i       == SelectInSeq(grown, IsOp)
    IN  [grown EXCEPT ![i] = Touch(@, id, lat)]

Update(tree, e, id) ==
    LET label == Label(e.layer, e.cls)
        IsBucket(b) == b.node.layer = e.layer /\ b.node.label = label
        grown == IF \E b \in Range(tree) : IsBucket(b) THEN tree
                 ELSE Append(tree, NewBucket(e.layer, label))
        i     == SelectInSeq(grown, IsBucket)
    IN  [grown EXCEPT ![i] = [node |-> Touch(@.node, id, e.lat),
                              ops  |-> TouchOp(@.ops, e.layer, e.cls, id, e.lat)]]

(* Mutant: earlier marks are left.                                         *)
SelectAlso(tree, layer) ==
    [i \in DOMAIN tree |->
        [tree[i] EXCEPT !.node.selected = @ \/ tree[i].node.layer = layer]]

Select(tree, layer) ==
    [i \in DOMAIN tree |-> [tree[i] EXCEPT !.node.selected = (tree[i].node.layer = layer)]]

(* Mutant: the slowest bucket first.                                       *)
FlattenByLatency(tree) ==
    LET sorted == SortSeq(tree, LAMBDA a, b : a.node.latency > b.node.latency)
    IN  FlattenSeq([i \in DOMAIN sorted |-> <<sorted[i].node>> \o sorted[i].ops])

Flatten(tree) == FlattenSeq([i \in DOMAIN tree |-> <<tree[i].node>> \o tree[i].ops])
-----------------------------------------------------------------------------
(* is_layer_row() and is_latency_flame_bucket(): the label of a bucket is  *)
(* lower case, that of an op is its class.                                 *)
IsLayerRow(row) ==
    row.label \in {<<"embed">>, <<"output">>, <<"other">>, <<"layers", row.layer>>}

(* The order of labels as strings, for layers below 10.                    *)
LabelRank(row) ==
    CASE row.label = <<"embed">>  -> -1
      [] row.label = <<"other">>  -> 10
      [] row.label = <<"output">> -> 11
      [] OTHER                -> row.layer

(* The comparison of two rows, and the order that a stable sort leaves     *)
(* equal ones in: that of their places i and j.                            *)
FlameBefore(rows, i, j) ==
    LET a == rows[i]  b == rows[j]
    IN  \/ a.latency > b.latency
        \/ a.latency = b.latency /\ LabelRank(a) < LabelRank(b)
        \/ a.latency = b.latency /\ LabelRank(a) = LabelRank(b) /\ i < j

(* std::stable_sort: the one order of the places in which each comes       *)
(* before the next.                                                        *)
FlameOrder(rows, places) ==
    CHOOSE order \in SetToSeqs(places) :
        \A i, j \in DOMAIN order : i < j => FlameBefore(rows, order[i], order[j])

Timed(rows) == {i \in DOMAIN rows : IsLayerRow(rows[i]) /\ rows[i].latency > 0}

(* Mutant: cut to the limit first, sorted then.                            *)
FlameRowsCutFirst(rows, limit) ==
    LET first == {i \in Timed(rows) : Cardinality({k \in Timed(rows) : k <= i}) <= limit}
        order == FlameOrder(rows, first)
    IN  [k \in DOMAIN order |-> rows[order[k]]]

(* build_latency_flamegraph(topology, limit).                              *)
FlameRows(rows, limit) ==
    LET order == FlameOrder(rows, Timed(rows))
    IN  [k \in 1 .. Min({limit, Len(order)}) |-> rows[order[k]]]

(* latency_ascii_bar(): the filled places, ratio * width + 0.999 rounded   *)
(* down.                                                                   *)
FlameBar(value, max, width) ==
    IF value = 0 \/ max = 0 THEN 0
    ELSE LET filled == (1000 * value * width + 999 * max) \div (1000 * max)
         IN  IF filled = 0 THEN 1 ELSE IF filled > width THEN width ELSE filled

=============================================================================
