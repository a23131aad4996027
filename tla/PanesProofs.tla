----------------------------- MODULE PanesProofs ------------------------------
(***************************************************************************)
(* The panes, for any ops, keys, matrices and limits.                      *)
(*                                                                         *)
(* Most of the work is about the tree.  Update keeps every bucket and      *)
(* every op in its place and adds at most one of each at the end, so the   *)
(* flat list before it is embedded in the flat list after it; and no two   *)
(* rows have the same layer and label, because the label of a bucket is    *)
(* that of each of its ops.  The flamegraph is in order because any finite *)
(* set of rows can be put in order.  The last part is about what is told   *)
(* of the events, with the operators that say what should be.              *)
(***************************************************************************)
EXTENDS Panes, SequenceLemmas

Layers == Nat \cup {-1}
Classes == {<<c>> : c \in OpClasses}
Labels == {<<"layers", n>> : n \in Nat} \cup {<<"embed">>, <<"output">>, <<"other">>} \cup Classes
Nodes == [layer : Layers, label : Labels, selected : BOOLEAN, last : Nat, latency : Nat]
Buckets == [node : Nodes, ops : Seq(Nodes)]

(* No two ops of a bucket have one label, and the bucket's is the one that *)
(* layer_node gives to each of them.                                       *)
BucketHoldsItsOps(b) ==
    /\ \A j \in 1 .. Len(b.ops) :
         \E c \in OpClasses : /\ b.ops[j].label = <<c>>
                              /\ b.ops[j].layer = b.node.layer
                              /\ b.node.label = Label(b.node.layer, c)
    /\ \A j, k \in 1 .. Len(b.ops) : b.ops[j].label = b.ops[k].label => j = k

TreeHoldsItsOps(t) ==
    /\ \A i \in 1 .. Len(t) :
         /\ BucketHoldsItsOps(t[i])
         /\ \E c \in OpClasses : t[i].node.label = Label(t[i].node.layer, c)
    /\ \A i, k \in 1 .. Len(t) : Key(t[i].node) = Key(t[k].node) => i = k

(* b has the rows of a at their places, and perhaps more behind them.      *)
OpsKept(a, b) ==
    /\ Len(a.ops) <= Len(b.ops)
    /\ \A j \in 1 .. Len(a.ops) : Key(b.ops[j]) = Key(a.ops[j])

RowsKept(s, t) ==
    /\ Len(s) <= Len(t)
    /\ \A i \in 1 .. Len(s) : Key(t[i].node) = Key(s[i].node) /\ OpsKept(s[i], t[i])

(* No mark has been set or taken off.                                      *)
MarksKept(s, t) ==
    /\ \A i \in 1 .. Len(s) : t[i].node.selected = s[i].node.selected
    /\ \A i \in 1 .. Len(t) : i > Len(s) => t[i].node.selected = FALSE
-----------------------------------------------------------------------------
(* The constants, one by one.                                              *)
LEMMA OpTypes ==
    ASSUME NEW e \in Ops
    PROVE  e.layer \in Layers /\ e.cls \in OpClasses /\ e.lat \in Nat
BY PanesAssumption DEF PanesAssumption, Layers

(* Label of an op outside the layers, and of one in a layer.               *)
LEMMA LabelType ==
    ASSUME NEW layer \in Layers, NEW cls \in OpClasses
    PROVE  /\ Label(layer, cls) \in Labels /\ <<cls>> \in Labels
           /\ layer >= 0 => Label(layer, cls) = <<"layers", layer>>
           /\ \A c \in OpClasses : Label(layer, cls) # <<c>>
BY DEF Label, Labels, Layers, Classes, OpClasses

(* A node just made, and one an event was counted for.                     *)
LEMMA NodeType ==
    ASSUME NEW layer \in Layers, NEW label \in Labels
    PROVE  /\ Node(layer, label) \in Nodes
           /\ Node(layer, label).layer = layer /\ Node(layer, label).label = label
BY DEF Node, Nodes

(* Touch changes the times only.                                           *)
LEMMA TouchType ==
    ASSUME NEW n \in Nodes, NEW id \in Nat, NEW lat \in Nat
    PROVE  /\ Touch(n, id, lat) \in Nodes
           /\ Touch(n, id, lat).layer = n.layer /\ Touch(n, id, lat).label = n.label
           /\ Touch(n, id, lat).selected = n.selected
           /\ Touch(n, id, lat).latency = n.latency + lat
<1> DEFINE once == [n EXCEPT !.last = id]
<1>1. /\ once \in Nodes /\ once.layer = n.layer /\ once.label = n.label
      /\ once.selected = n.selected /\ once.latency = n.latency
  BY DEF Nodes
<1>2. once.latency + lat \in Nat
  BY <1>1 DEF Nodes
<1>3. Touch(n, id, lat) = [once EXCEPT !.latency = once.latency + lat]
  BY DEF Touch
<1> HIDE DEF once
<1> QED
  BY <1>1, <1>2, <1>3 DEF Nodes
-----------------------------------------------------------------------------
(* Update.                                                                 *)

(* `grown` is s, or s with x at the end.                                   *)
SameOrAppended(s, grown, x) ==
    /\ Len(s) \in Nat /\ Len(grown) \in Nat
    /\ Len(s) <= Len(grown) /\ Len(grown) <= Len(s) + 1
    /\ \A j \in 1 .. Len(s) : grown[j] = s[j]
    /\ Len(grown) = Len(s) + 1 => grown[Len(grown)] = x

(* op_node: the op is found, or made and found at the end.                 *)
OpTouched(ops, new, grown, i, layer, cls, id, lat) ==
    /\ grown \in Seq(Nodes) /\ i \in 1 .. Len(grown)
    /\ SameOrAppended(ops, grown, Node(layer, <<cls>>))
    /\ Len(grown) = Len(ops) + 1 => \A j \in 1 .. Len(ops) : ops[j].label # <<cls>>
    /\ grown[i].label = <<cls>>
    /\ new = [grown EXCEPT ![i] = Touch(grown[i], id, lat)]

LEMMA OpIsTouched ==
    ASSUME NEW ops \in Seq(Nodes), NEW layer \in Layers, NEW cls \in OpClasses,
           NEW id \in Nat, NEW lat \in Nat, NEW new, new = TouchOp(ops, layer, cls, id, lat)
    PROVE  \E grown, i : OpTouched(ops, new, grown, i, layer, cls, id, lat)
<1> DEFINE IsOp(n) == n.label = <<cls>>
           grown == IF \E n \in Range(ops) : IsOp(n) THEN ops ELSE Append(ops, Node(layer, <<cls>>))
           I == {k \in 1 .. Len(grown) : IsOp(grown[k])}
           i == IF I # {} THEN Min(I) ELSE 0
<1>1. Node(layer, <<cls>>) \in Nodes /\ IsOp(Node(layer, <<cls>>))
      /\ Node(layer, <<cls>>).layer = layer
  BY LabelType, NodeType
<1>2. /\ grown \in Seq(Nodes) /\ Len(ops) \in Nat /\ Len(grown) \in Nat
      /\ Len(ops) <= Len(grown) /\ Len(grown) <= Len(ops) + 1
      /\ \A j \in 1 .. Len(ops) : grown[j] = ops[j]
      /\ I # {}
      /\ Len(grown) = Len(ops) + 1 => /\ grown[Len(grown)] = Node(layer, <<cls>>)
                                      /\ \A j \in 1 .. Len(ops) : ~ IsOp(ops[j])
  <2>1. Len(ops) \in Nat /\ DOMAIN ops = 1 .. Len(ops)
    BY LenProperties
  <2>2. CASE \E n \in Range(ops) : IsOp(n)
    <3>1. PICK k \in 1 .. Len(ops) : IsOp(ops[k])
      BY <2>1, <2>2 DEF Range
    <3>2. grown = ops
      BY <2>2
    <3>3. k \in I
      BY <3>1, <3>2
    <3>4. Len(ops) <= Len(grown) /\ Len(grown) # Len(ops) + 1 /\ Len(grown) <= Len(ops) + 1
      <4>1. Len(grown) = Len(ops)
        BY <3>2
      <4> QED
        BY <2>1, <4>1, SameLength
    <3>5. grown \in Seq(Nodes) /\ \A j \in 1 .. Len(ops) : grown[j] = ops[j]
      BY <3>2
    <3> QED
      BY <2>1, <3>2, <3>3, <3>4, <3>5
  <2>3. CASE ~ \E n \in Range(ops) : IsOp(n)
    <3>1. grown = Append(ops, Node(layer, <<cls>>))
      BY <2>3
    <3>2. /\ grown \in Seq(Nodes) /\ Len(grown) = Len(ops) + 1
          /\ \A j \in 1 .. Len(ops) : grown[j] = ops[j]
          /\ grown[Len(ops) + 1] = Node(layer, <<cls>>)
      BY <1>1, <3>1, AppendProperties
    <3>3. Len(ops) + 1 \in I
      BY <1>1, <2>1, <3>2
    <3>4. \A j \in 1 .. Len(ops) : ~ IsOp(ops[j])
      BY <2>1, <2>3 DEF Range
    <3> QED
      BY <2>1, <3>2, <3>3, <3>4
  <2> QED
    BY <2>2, <2>3
<1>3. i \in 1 .. Len(grown) /\ IsOp(grown[i])
  <2>1. I \in SUBSET Nat /\ I # {}
    BY <1>2
  <2>2. \A k \in I : k \in 1 .. Len(grown) /\ IsOp(grown[k])
    OBVIOUS
  <2> HIDE DEF I, grown
  <2>3. Min(I) \in I
    BY <2>1, MinOf
  <2> QED
    BY <2>1, <2>2, <2>3
<1>4. new = [grown EXCEPT ![i] = Touch(grown[i], id, lat)]
  BY DEF TouchOp, SelectInSeq
<1> HIDE DEF grown, i, I
<1>5. SameOrAppended(ops, grown, Node(layer, <<cls>>))
  BY <1>2 DEF SameOrAppended
<1> QED
  BY <1>2, <1>3, <1>4, <1>5 DEF OpTouched

(* So the ops keep their places, and a new one stands at the end.         *)
LEMMA TouchOpKeeps ==
    ASSUME NEW ops \in Seq(Nodes), NEW layer \in Layers, NEW cls \in OpClasses,
           NEW id \in Nat, NEW lat \in Nat, NEW new, new = TouchOp(ops, layer, cls, id, lat)
    PROVE  /\ new \in Seq(Nodes)
           /\ Len(ops) <= Len(new) /\ Len(new) <= Len(ops) + 1
           /\ \A j \in 1 .. Len(ops) : Key(new[j]) = Key(ops[j])
           /\ Len(new) = Len(ops) + 1 =>
                 /\ new[Len(new)].layer = layer /\ new[Len(new)].label = <<cls>>
                 /\ \A j \in 1 .. Len(ops) : ops[j].label # <<cls>>
<1>1. /\ Node(layer, <<cls>>).layer = layer /\ Node(layer, <<cls>>).label = <<cls>>
  BY LabelType, NodeType
<1>2. PICK grown, i : OpTouched(ops, new, grown, i, layer, cls, id, lat)
  BY OpIsTouched
<1>3. /\ grown \in Seq(Nodes) /\ i \in 1 .. Len(grown) /\ grown[i].label = <<cls>>
      /\ Len(grown) = Len(ops) + 1 => \A j \in 1 .. Len(ops) : ops[j].label # <<cls>>
      /\ new = [grown EXCEPT ![i] = Touch(grown[i], id, lat)]
  BY <1>2 DEF OpTouched
<1>4. /\ Len(ops) \in Nat /\ Len(grown) \in Nat
      /\ Len(ops) <= Len(grown) /\ Len(grown) <= Len(ops) + 1
      /\ \A j \in 1 .. Len(ops) : grown[j] = ops[j]
      /\ Len(grown) = Len(ops) + 1 => grown[Len(grown)] = Node(layer, <<cls>>)
  BY <1>2 DEF OpTouched, SameOrAppended
<1>5. grown[i] \in Nodes
  BY <1>3, ElementOfSeq
<1>6. /\ Touch(grown[i], id, lat) \in Nodes
      /\ Touch(grown[i], id, lat).layer = grown[i].layer
      /\ Touch(grown[i], id, lat).label = grown[i].label
  <2> DEFINE n == grown[i]
  <2>1. n \in Nodes
    BY <1>5
  <2> HIDE DEF n
  <2>2. /\ Touch(n, id, lat) \in Nodes
        /\ Touch(n, id, lat).layer = n.layer /\ Touch(n, id, lat).label = n.label
    BY <2>1, TouchType
  <2> QED
    BY <2>2 DEF n
<1>7. /\ new \in Seq(Nodes) /\ Len(new) = Len(grown)
      /\ \A j \in 1 .. Len(grown) :
            new[j] = IF j = i THEN Touch(grown[i], id, lat) ELSE grown[j]
  BY <1>3, <1>6, ExceptSeq
<1>8. \A j \in 1 .. Len(grown) : new[j].layer = grown[j].layer /\ new[j].label = grown[j].label
  BY <1>6, <1>7
<1>9. \A j \in 1 .. Len(ops) : j \in 1 .. Len(grown)
  BY <1>4
<1>10. Len(grown) = Len(ops) + 1 => Len(grown) \in 1 .. Len(grown)
  BY <1>4
<1> QED
  BY <1>1, <1>3, <1>4, <1>7, <1>8, <1>9, <1>10 DEF Key

(* layer_node: the bucket is found, or made and found at the end.          *)
BucketTouched(t, new, grown, i, e, id) ==
    LET old == grown[i]
    IN  /\ grown \in Seq(Buckets) /\ i \in 1 .. Len(grown)
        /\ SameOrAppended(t, grown, NewBucket(e.layer, Label(e.layer, e.cls)))
        /\ Len(grown) = Len(t) + 1 =>
              \A j \in 1 .. Len(t) :
                 ~ (t[j].node.layer = e.layer /\ t[j].node.label = Label(e.layer, e.cls))
        /\ old.node.layer = e.layer /\ old.node.label = Label(e.layer, e.cls)
        /\ new = [grown EXCEPT ![i] =
                     [node |-> Touch(old.node, id, e.lat),
                      ops  |-> TouchOp(old.ops, e.layer, e.cls, id, e.lat)]]

LEMMA BucketIsTouched ==
    ASSUME NEW t \in Seq(Buckets),
           NEW e, e.layer \in Layers, e.cls \in OpClasses, e.lat \in Nat,
           NEW id \in Nat, NEW new, new = Update(t, e, id)
    PROVE  \E grown, i : BucketTouched(t, new, grown, i, e, id)
<1> DEFINE label == Label(e.layer, e.cls)
           IsBucket(b) == b.node.layer = e.layer /\ b.node.label = label
           made == NewBucket(e.layer, label)
           grown == IF \E b \in Range(t) : IsBucket(b) THEN t ELSE Append(t, made)
           I == {k \in 1 .. Len(grown) : IsBucket(grown[k])}
           i == IF I # {} THEN Min(I) ELSE 0
<1>1. /\ made \in Buckets /\ IsBucket(made) /\ made.ops = <<>>
      /\ made.node.selected = FALSE /\ Key(made.node) = <<e.layer, label>>
  <2>1. /\ Node(e.layer, label) \in Nodes
        /\ Node(e.layer, label).layer = e.layer /\ Node(e.layer, label).label = label
    BY LabelType, NodeType
  <2>2. Node(e.layer, label).selected = FALSE
    BY Zenon DEF Node
  <2> HIDE DEF label
  <2>3. made = [node |-> Node(e.layer, label), ops |-> <<>>]
    BY DEF NewBucket
  <2>4. made.node = Node(e.layer, label) /\ made.ops = <<>>
    BY <2>3
  <2>5. <<>> \in Seq(Nodes)
    BY EmptySeq
  <2> QED
    BY <2>1, <2>2, <2>3, <2>4, <2>5 DEF Buckets, Key
<1>2. /\ grown \in Seq(Buckets) /\ Len(t) \in Nat /\ Len(grown) \in Nat
      /\ Len(t) <= Len(grown) /\ Len(grown) <= Len(t) + 1
      /\ \A j \in 1 .. Len(t) : grown[j] = t[j]
      /\ I # {}
      /\ Len(grown) = Len(t) + 1 => /\ grown[Len(grown)] = made
                                    /\ \A j \in 1 .. Len(t) : ~ IsBucket(t[j])
  <2>1. Len(t) \in Nat /\ DOMAIN t = 1 .. Len(t)
    BY LenProperties
  <2>2. CASE \E b \in Range(t) : IsBucket(b)
    <3>1. PICK k \in 1 .. Len(t) : IsBucket(t[k])
      BY <2>1, <2>2 DEF Range
    <3>2. grown = t
      BY <2>2
    <3>3. k \in I
      BY <3>1, <3>2
    <3>4. Len(t) <= Len(grown) /\ Len(grown) # Len(t) + 1 /\ Len(grown) <= Len(t) + 1
      <4>1. Len(grown) = Len(t)
        BY <3>2
      <4> QED
        BY <2>1, <4>1, SameLength
    <3>5. grown \in Seq(Buckets) /\ \A j \in 1 .. Len(t) : grown[j] = t[j]
      BY <3>2
    <3> HIDE DEF grown
    <3> QED
      BY <2>1, <3>2, <3>3, <3>4, <3>5
  <2>3. CASE ~ \E b \in Range(t) : IsBucket(b)
    <3>1. grown = Append(t, made)
      BY <2>3
    <3> HIDE DEF made
    <3>2. /\ grown \in Seq(Buckets) /\ Len(grown) = Len(t) + 1
          /\ \A j \in 1 .. Len(t) : grown[j] = t[j]
          /\ grown[Len(t) + 1] = made
      BY <1>1, <3>1, AppendProperties
    <3>3. Len(t) + 1 \in I
      BY <1>1, <2>1, <3>2
    <3>4. \A j \in 1 .. Len(t) : ~ IsBucket(t[j])
      BY <2>1, <2>3 DEF Range
    <3> HIDE DEF grown
    <3> QED
      BY <2>1, <3>2, <3>3, <3>4
  <2> QED
    BY <2>2, <2>3
<1>3. i \in 1 .. Len(grown) /\ IsBucket(grown[i])
  <2>1. I \in SUBSET Nat /\ I # {}
    BY <1>2
  <2>2. \A k \in I : k \in 1 .. Len(grown) /\ IsBucket(grown[k])
    OBVIOUS
  <2> HIDE DEF I, grown
  <2>3. Min(I) \in I
    BY <2>1, MinOf
  <2> QED
    BY <2>1, <2>2, <2>3
<1>4. new = [grown EXCEPT ![i] =
                [node |-> Touch(grown[i].node, id, e.lat),
                 ops  |-> TouchOp(grown[i].ops, e.layer, e.cls, id, e.lat)]]
  BY DEF Update, SelectInSeq
<1> HIDE DEF grown, i, I, made
<1>5. SameOrAppended(t, grown, made)
  BY <1>2 DEF SameOrAppended
<1> QED
  BY <1>2, <1>3, <1>4, <1>5 DEF BucketTouched, made

(* One event: a bucket and an op each keep their place, and new ones stand *)
(* at the end.                                                             *)
LEMMA UpdateKeeps ==
    ASSUME NEW t \in Seq(Buckets), TreeHoldsItsOps(t),
           NEW e, e.layer \in Layers, e.cls \in OpClasses, e.lat \in Nat,
           NEW id \in Nat, NEW new, new = Update(t, e, id)
    PROVE  /\ new \in Seq(Buckets) /\ RowsKept(t, new) /\ MarksKept(t, new)
           /\ TreeHoldsItsOps(new)
<1> DEFINE label == Label(e.layer, e.cls)
           IsBucket(b) == b.node.layer = e.layer /\ b.node.label = label
           made == NewBucket(e.layer, label)
<1>1. /\ made \in Buckets /\ IsBucket(made) /\ made.ops = <<>>
      /\ made.node.selected = FALSE /\ Key(made.node) = <<e.layer, label>>
  <2>1. /\ Node(e.layer, label) \in Nodes
        /\ Node(e.layer, label).layer = e.layer /\ Node(e.layer, label).label = label
    BY LabelType, NodeType
  <2>2. Node(e.layer, label).selected = FALSE
    BY Zenon DEF Node
  <2> HIDE DEF label
  <2>3. made = [node |-> Node(e.layer, label), ops |-> <<>>]
    BY DEF NewBucket
  <2>4. made.node = Node(e.layer, label) /\ made.ops = <<>>
    BY <2>3
  <2>5. <<>> \in Seq(Nodes)
    BY EmptySeq
  <2> QED
    BY <2>1, <2>2, <2>3, <2>4, <2>5 DEF Buckets, Key
<1>2. PICK grown, i : BucketTouched(t, new, grown, i, e, id)
  BY BucketIsTouched
<1> DEFINE old == grown[i]
           ops == TouchOp(old.ops, e.layer, e.cls, id, e.lat)
           bucket == [node |-> Touch(old.node, id, e.lat), ops |-> ops]
<1>3. /\ grown \in Seq(Buckets) /\ i \in 1 .. Len(grown) /\ IsBucket(old)
      /\ Len(grown) = Len(t) + 1 => \A j \in 1 .. Len(t) : ~ IsBucket(t[j])
      /\ new = [grown EXCEPT ![i] = bucket]
  BY <1>2 DEF BucketTouched
<1>4. /\ Len(t) \in Nat /\ Len(grown) \in Nat
      /\ Len(t) <= Len(grown) /\ Len(grown) <= Len(t) + 1
      /\ \A j \in 1 .. Len(t) : grown[j] = t[j]
      /\ Len(grown) = Len(t) + 1 => grown[Len(grown)] = made
  BY <1>2 DEF BucketTouched, SameOrAppended
<1> HIDE DEF made
<1>5. old \in Buckets /\ old.node \in Nodes /\ old.ops \in Seq(Nodes)
  <2>1. old \in Buckets
    BY <1>3, <1>4, ElementOfSeq
  <2> QED
    BY <2>1 DEF Buckets
<1>6. /\ Touch(old.node, id, e.lat) \in Nodes
      /\ Key(Touch(old.node, id, e.lat)) = Key(old.node)
      /\ Touch(old.node, id, e.lat).selected = old.node.selected
  BY <1>5, TouchType DEF Key
<1>7. /\ ops \in Seq(Nodes)
      /\ Len(old.ops) <= Len(ops) /\ Len(ops) <= Len(old.ops) + 1
      /\ \A j \in 1 .. Len(old.ops) : Key(ops[j]) = Key(old.ops[j])
      /\ Len(ops) = Len(old.ops) + 1 =>
            /\ ops[Len(ops)].layer = e.layer /\ ops[Len(ops)].label = <<e.cls>>
            /\ \A j \in 1 .. Len(old.ops) : old.ops[j].label # <<e.cls>>
  <2>1. ops = TouchOp(old.ops, e.layer, e.cls, id, e.lat)
    OBVIOUS
  <2>2. e.layer \in Layers /\ e.cls \in OpClasses /\ id \in Nat /\ e.lat \in Nat
    OBVIOUS
  <2> HIDE DEF ops, old
  <2> DEFINE kept == old.ops
  <2>3. kept \in Seq(Nodes)
    BY <1>5
  <2>4. ops = TouchOp(kept, e.layer, e.cls, id, e.lat)
    BY <2>1
  <2> HIDE DEF kept
  <2>5. ops \in Seq(Nodes)
    BY <2>2, <2>3, <2>4, TouchOpKeeps
  <2>6. Len(kept) <= Len(ops) /\ Len(ops) <= Len(kept) + 1
    BY <2>2, <2>3, <2>4, TouchOpKeeps
  <2>7. \A j \in 1 .. Len(kept) : Key(ops[j]) = Key(kept[j])
    BY <2>2, <2>3, <2>4, TouchOpKeeps
  <2>8. Len(ops) = Len(kept) + 1 =>
            /\ ops[Len(ops)].layer = e.layer /\ ops[Len(ops)].label = <<e.cls>>
            /\ \A j \in 1 .. Len(kept) : kept[j].label # <<e.cls>>
    BY <2>2, <2>3, <2>4, TouchOpKeeps
  <2> QED
    BY <2>5, <2>6, <2>7, <2>8, Zenon DEF kept
<1> HIDE DEF ops
<1>8. /\ bucket \in Buckets /\ Key(bucket.node) = Key(old.node) /\ OpsKept(old, bucket)
      /\ bucket.node.selected = old.node.selected
  BY <1>6, <1>7 DEF Buckets, OpsKept
<1>9. old.node.layer = e.layer /\ old.node.label = label /\ BucketHoldsItsOps(old)
  <2>1. CASE i \in 1 .. Len(t)
    BY <1>3, <1>4, <2>1 DEF TreeHoldsItsOps
  <2>2. CASE i \notin 1 .. Len(t)
    <3>1. i = Len(grown) /\ Len(grown) = Len(t) + 1
      BY <1>3, <1>4, <2>2
    <3>2. old = made
      BY <1>3, <1>4, <3>1
    <3>3. old.ops = <<>> /\ Len(old.ops) = 0
      BY <1>1, <3>2
    <3> QED
      BY <1>3, <3>3 DEF BucketHoldsItsOps
  <2> QED
    BY <2>1, <2>2
<1>10. BucketHoldsItsOps(bucket)
  <2>1. bucket.ops = ops /\ bucket.node.layer = e.layer /\ bucket.node.label = label
    BY <1>6, <1>9 DEF Key
  <2>2. /\ Len(old.ops) \in Nat /\ Len(ops) \in Nat
    BY <1>5, <1>7, LenProperties
  <2>3. \A j \in 1 .. Len(ops) : j \in 1 .. Len(old.ops) \/ (j = Len(ops) /\ Len(ops) = Len(old.ops) + 1)
    BY <1>7, <2>2
  <2>4. \A j \in 1 .. Len(old.ops) :
           ops[j].label = old.ops[j].label /\ ops[j].layer = old.ops[j].layer
    BY <1>7 DEF Key
  <2> HIDE DEF bucket, old, label
  <2>5. ASSUME NEW j \in 1 .. Len(ops)
        PROVE  \E c \in OpClasses : ops[j].label = <<c>> /\ ops[j].layer = e.layer
                                     /\ label = Label(e.layer, c)
    <3>1. CASE j \in 1 .. Len(old.ops)
      BY <1>9, <2>4, <3>1 DEF BucketHoldsItsOps
    <3>2. CASE j = Len(ops) /\ Len(ops) = Len(old.ops) + 1
      BY <1>7, <3>2 DEF label
    <3> QED
      BY <2>3, <3>1, <3>2
  <2>6. ASSUME NEW j \in 1 .. Len(ops), NEW k \in 1 .. Len(ops), ops[j].label = ops[k].label
        PROVE  j = k
    <3>1. CASE j \in 1 .. Len(old.ops) /\ k \in 1 .. Len(old.ops)
      BY <1>9, <2>4, <2>6, <3>1 DEF BucketHoldsItsOps
    <3>2. CASE j \notin 1 .. Len(old.ops) \/ k \notin 1 .. Len(old.ops)
      BY <1>7, <2>3, <2>4, <2>6, <3>2
    <3> QED
      BY <3>1, <3>2
  <2> QED
    BY <2>1, <2>5, <2>6 DEF BucketHoldsItsOps
<1> HIDE DEF bucket, old
<1>11. /\ new \in Seq(Buckets) /\ Len(new) = Len(grown)
       /\ \A j \in 1 .. Len(grown) : new[j] = IF j = i THEN bucket ELSE grown[j]
  BY <1>3, <1>4, <1>8, ExceptSeq
<1>12. \A j \in 1 .. Len(grown) : /\ Key(new[j].node) = Key(grown[j].node)
                                  /\ new[j].node.selected = grown[j].node.selected
  BY <1>8, <1>11 DEF old
<1>13. \A j \in 1 .. Len(t) : j \in 1 .. Len(grown)
  BY <1>3, <1>4
<1>14. RowsKept(t, new)
  <2>1. \A j \in 1 .. Len(t) : OpsKept(t[j], new[j])
    <3>1. \A j \in 1 .. Len(t) : OpsKept(t[j], t[j])
      <4>1. \A j \in 1 .. Len(t) : t[j].ops \in Seq(Nodes)
        <5>1. \A j \in 1 .. Len(t) : t[j] \in Buckets
          BY ElementOfSeq
        <5> QED
          BY <5>1 DEF Buckets
      <4>2. \A j \in 1 .. Len(t) : Len(t[j].ops) \in Nat
        BY <4>1, LenProperties
      <4>3. \A j \in 1 .. Len(t) : Len(t[j].ops) <= Len(t[j].ops)
        BY <4>2
      <4> QED
        BY <4>3 DEF OpsKept
    <3>2. i \in 1 .. Len(t) => OpsKept(t[i], new[i])
      BY <1>3, <1>4, <1>8, <1>11, <1>13 DEF old
    <3> QED
      BY <1>3, <1>4, <1>11, <1>13, <3>1, <3>2
  <2>2. Len(t) <= Len(new)
    BY <1>4, <1>11
  <2>3. \A j \in 1 .. Len(t) : Key(new[j].node) = Key(t[j].node)
    BY <1>4, <1>12, <1>13
  <2> QED
    BY <2>1, <2>2, <2>3 DEF RowsKept
<1>15. /\ \A j \in 1 .. Len(t) : new[j].node.selected = t[j].node.selected
       /\ \A j \in 1 .. Len(new) : j > Len(t) => new[j].node.selected = FALSE
  <2>1. \A j \in 1 .. Len(new) : j > Len(t) => j = Len(grown) /\ Len(grown) = Len(t) + 1
    BY <1>4, <1>11
  <2> QED
    BY <1>1, <1>4, <1>11, <1>12, <1>13, <2>1
<1>16. TreeHoldsItsOps(new)
  <2>1. \A j \in 1 .. Len(grown) :
          j \in 1 .. Len(t) \/ (j = Len(grown) /\ Len(grown) = Len(t) + 1 /\ grown[j] = made)
    BY <1>3, <1>4
  <2>2. ASSUME NEW j \in 1 .. Len(new)
        PROVE  /\ BucketHoldsItsOps(new[j])
               /\ \E c \in OpClasses : new[j].node.label = Label(new[j].node.layer, c)
    <3>1. CASE j = i
      BY <1>6, <1>8, <1>9, <1>10, <1>11, <3>1 DEF Key, bucket
    <3>2. CASE j # i /\ j \in 1 .. Len(t)
      BY <1>4, <1>11, <3>2 DEF TreeHoldsItsOps
    <3>3. CASE j # i /\ j \notin 1 .. Len(t)
      <4>1. new[j] = made
        BY <1>11, <2>1, <3>3
      <4>2. made.node.layer = e.layer /\ made.node.label = label /\ Len(made.ops) = 0
        BY <1>1
      <4> QED
        BY <4>1, <4>2 DEF BucketHoldsItsOps
    <3> QED
      BY <3>1, <3>2, <3>3
  <2>3. ASSUME NEW j \in 1 .. Len(new), NEW k \in 1 .. Len(new),
               Key(new[j].node) = Key(new[k].node)
        PROVE  j = k
    <3>1. j \in 1 .. Len(grown) /\ k \in 1 .. Len(grown) /\ Key(grown[j].node) = Key(grown[k].node)
      BY <1>11, <1>12, <2>3
    <3>2. CASE j \in 1 .. Len(t) /\ k \in 1 .. Len(t)
      BY <1>3, <1>4, <3>1, <3>2 DEF TreeHoldsItsOps
    <3>3. \A m \in 1 .. Len(t) : Len(grown) = Len(t) + 1 => Key(t[m].node) # <<e.layer, label>>
      BY <1>3, <1>4 DEF Key
    <3>4. CASE j \notin 1 .. Len(t) \/ k \notin 1 .. Len(t)
      BY <1>1, <1>3, <1>4, <2>1, <3>1, <3>3, <3>4
    <3> QED
      BY <3>2, <3>4
  <2> QED
    BY <2>2, <2>3 DEF TreeHoldsItsOps
<1> QED
  BY <1>11, <1>14, <1>15, <1>16 DEF MarksKept
-----------------------------------------------------------------------------
(* Select: the marks change and nothing else.                              *)
LEMMA SelectKeeps ==
    ASSUME NEW t \in Seq(Buckets), TreeHoldsItsOps(t), NEW layer,
           NEW new, new = Select(t, layer)
    PROVE  /\ new \in Seq(Buckets) /\ Len(new) = Len(t)
           /\ RowsKept(t, new) /\ TreeHoldsItsOps(new)
           /\ \A i \in 1 .. Len(t) : /\ new[i].node.selected = (t[i].node.layer = layer)
                                     /\ new[i].node.label = t[i].node.label
                                     /\ new[i].node.latency = t[i].node.latency
                                     /\ new[i].ops = t[i].ops
<1>1. /\ Len(t) \in Nat /\ DOMAIN t = 1 .. Len(t)
      /\ \A i \in 1 .. Len(t) : t[i] \in Buckets
  BY LenProperties, ElementOfSeq
<1>2. new = [i \in 1 .. Len(t) |-> [t[i] EXCEPT !.node.selected = (t[i].node.layer = layer)]]
  BY <1>1 DEF Select
<1>3. ASSUME NEW i \in 1 .. Len(t)
      PROVE  /\ new[i] \in Buckets /\ new[i].ops = t[i].ops
             /\ new[i].node.layer = t[i].node.layer
             /\ new[i].node.label = t[i].node.label
             /\ new[i].node.selected = (t[i].node.layer = layer)
             /\ new[i].node.latency = t[i].node.latency
  <2> DEFINE b == t[i]
             marked == t[i].node.layer = layer
             n == [b.node EXCEPT !.selected = marked]
  <2>1. b \in Buckets /\ b.node \in Nodes /\ b.ops \in Seq(Nodes)
    BY <1>1 DEF Buckets
  <2>2. new[i] = [b EXCEPT !.node = n]
    BY <1>2
  <2>3. n \in Nodes
    BY <2>1 DEF Nodes
  <2>4. /\ n.layer = b.node.layer /\ n.label = b.node.label /\ n.selected = marked
        /\ n.latency = b.node.latency
    BY <2>1 DEF Nodes
  <2> HIDE DEF b, n
  <2>5. new[i] \in Buckets
    BY <2>1, <2>2, <2>3 DEF Buckets
  <2>6. new[i].node = n /\ new[i].ops = b.ops
    BY <2>1, <2>2 DEF Buckets
  <2>7. /\ new[i].node.layer = b.node.layer /\ new[i].node.label = b.node.label
        /\ new[i].node.selected = marked /\ new[i].node.latency = b.node.latency
    BY <2>4, <2>6
  <2> QED
    BY <2>5, <2>6, <2>7 DEF b
<1>4. \A i \in 1 .. Len(t) : /\ new[i] \in Buckets /\ new[i].ops = t[i].ops
                              /\ new[i].node.layer = t[i].node.layer
                              /\ new[i].node.label = t[i].node.label
                              /\ new[i].node.selected = (t[i].node.layer = layer)
                              /\ new[i].node.latency = t[i].node.latency
  BY <1>3
<1>5. new \in Seq(Buckets) /\ Len(new) = Len(t)
  <2>1. DOMAIN new = 1 .. Len(t) /\ new = [i \in 1 .. Len(t) |-> new[i]]
    BY <1>2
  <2> QED
    BY <1>1, <1>4, <2>1, IsASeq, LenProperties
<1>6. RowsKept(t, new)
  <2>1. \A i \in 1 .. Len(t) : Len(t[i].ops) \in Nat
    BY <1>1, LenProperties DEF Buckets
  <2>2. Len(t) <= Len(new) /\ \A i \in 1 .. Len(t) : Len(t[i].ops) <= Len(new[i].ops)
    <3>1. \A i \in 1 .. Len(t) : Len(new[i].ops) = Len(t[i].ops)
      BY <1>4
    <3> QED
      BY <1>1, <1>5, <2>1, <3>1, SameLength
  <2> QED
    BY <1>4, <2>2 DEF RowsKept, OpsKept, Key
<1>7. TreeHoldsItsOps(new)
  <2>1. \A i \in 1 .. Len(t) : BucketHoldsItsOps(new[i])
    BY <1>4 DEF TreeHoldsItsOps, BucketHoldsItsOps
  <2> QED
    BY <1>4, <1>5, <2>1 DEF TreeHoldsItsOps, Key
<1> QED
  BY <1>4, <1>5, <1>6, <1>7
-----------------------------------------------------------------------------
(* Flatten.                                                                *)

(* The rows of a bucket: its node, then its ops.                           *)
Branch(b) == <<b.node>> \o b.ops

LEMMA BranchRows ==
    ASSUME NEW b \in Buckets
    PROVE  /\ Branch(b) \in Seq(Nodes) /\ Len(b.ops) \in Nat
           /\ Len(Branch(b)) = Len(b.ops) + 1
           /\ Branch(b)[1] = b.node
           /\ \A j \in 1 .. Len(b.ops) : Branch(b)[j + 1] = b.ops[j]
<1>1. b.node \in Nodes /\ b.ops \in Seq(Nodes)
  BY DEF Buckets
<1>2. <<b.node>> \in Seq(Nodes) /\ Len(<<b.node>>) = 1 /\ <<b.node>>[1] = b.node
  BY <1>1
<1>3. Len(b.ops) \in Nat
  BY <1>1, LenProperties
<1> DEFINE one == <<b.node>>
<1>4. one \in Seq(Nodes) /\ Len(one) = 1 /\ one[1] = b.node /\ Branch(b) = one \o b.ops
  BY <1>2 DEF Branch
<1> HIDE DEF one
<1>5. /\ one \o b.ops \in Seq(Nodes)
      /\ Len(one \o b.ops) = Len(one) + Len(b.ops)
      /\ \A k \in 1 .. (Len(one) + Len(b.ops)) :
            (one \o b.ops)[k] = IF k <= Len(one) THEN one[k] ELSE b.ops[k - Len(one)]
  BY <1>1, <1>4, ConcatProperties
<1>6. \A k \in 1 .. (1 + Len(b.ops)) :
            Branch(b)[k] = IF k <= 1 THEN one[k] ELSE b.ops[k - 1]
  BY <1>4, <1>5
<1>7. /\ 1 \in 1 .. (1 + Len(b.ops)) /\ 1 <= 1
      /\ \A j \in 1 .. Len(b.ops) : /\ j + 1 \in 1 .. (1 + Len(b.ops))
                                     /\ ~ (j + 1 <= 1) /\ (j + 1) - 1 = j
      /\ 1 + Len(b.ops) = Len(b.ops) + 1
  BY <1>3
<1>8. Len(Branch(b)) = Len(b.ops) + 1
  BY <1>4, <1>5, <1>7
<1>9. Branch(b)[1] = b.node
  BY <1>4, <1>6, <1>7
<1>10. \A j \in 1 .. Len(b.ops) : Branch(b)[j + 1] = b.ops[j]
  BY <1>6, <1>7
<1> QED
  BY <1>3, <1>4, <1>5, <1>8, <1>9, <1>10

(* The rows of a tree: those of each bucket stand together, in the order   *)
(* of the buckets.                                                         *)
Branches(t) == [i \in 1 .. Len(t) |-> Branch(t[i])]

LEMMA FlattenRows ==
    ASSUME NEW t \in Seq(Buckets)
    PROVE  /\ Flatten(t) \in Seq(Nodes)
           /\ Branches(t) \in Seq(Seq(Nodes)) /\ Len(Branches(t)) = Len(t)
           /\ Len(t) \in Nat /\ Len(Flatten(t)) \in Nat
           /\ \A i \in 1 .. Len(t) : t[i] \in Buckets /\ Branches(t)[i] = Branch(t[i])
           /\ \E start : Parts(Branches(t), Flatten(t), start)
<1>1. /\ Len(t) \in Nat /\ DOMAIN t = 1 .. Len(t)
      /\ \A i \in 1 .. Len(t) : t[i] \in Buckets
  BY LenProperties, ElementOfSeq
<1>2. \A i \in 1 .. Len(t) : Branch(t[i]) \in Seq(Nodes)
  BY <1>1, BranchRows
<1>3. Branches(t) \in Seq(Seq(Nodes)) /\ Len(Branches(t)) = Len(t)
  <2>1. Branches(t) \in [1 .. Len(t) -> Seq(Nodes)]
    BY <1>2 DEF Branches
  <2>2. Branches(t) \in Seq(Seq(Nodes))
    BY <1>1, <2>1, SeqDef
  <2> QED
    BY <1>1, <2>1, <2>2, LenProperties
<1>4. Flatten(t) = FlattenSeq(Branches(t))
  BY <1>1 DEF Flatten, Branches, Branch
<1>5. Flatten(t) \in Seq(Nodes) /\ \E start : Parts(Branches(t), Flatten(t), start)
  BY <1>3, <1>4, Flattened
<1>6. Len(Flatten(t)) \in Nat
  BY <1>5, LenProperties
<1> QED
  BY <1>1, <1>3, <1>5, <1>6 DEF Branches

(* The row at a place, as a bucket (j = 1) or the op j - 1 of one.         *)
LEMMA RowAt ==
    ASSUME NEW t \in Seq(Buckets), NEW start, Parts(Branches(t), Flatten(t), start),
           NEW p \in 1 .. Len(Flatten(t))
    PROVE  \E i \in 1 .. Len(t) : \E j \in 1 .. (Len(t[i].ops) + 1) :
              /\ p = start[i] + j
              /\ Flatten(t)[p] = IF j = 1 THEN t[i].node ELSE t[i].ops[j - 1]
<1>1. PICK i \in 1 .. Len(Branches(t)) : \E j \in 1 .. Len(Branches(t)[i]) : p = start[i] + j
  <2> DEFINE br == Branches(t)
             rows == Flatten(t)
  <2>1. br \in Seq(Seq(Nodes)) /\ Parts(br, rows, start) /\ p \in 1 .. Len(rows)
    BY FlattenRows
  <2> HIDE DEF br, rows
  <2>2. \E i \in 1 .. Len(br) : \E j \in 1 .. Len(br[i]) : p = start[i] + j
    BY <2>1, PartsCover
  <2> QED
    BY <2>2 DEF br
<1>2. i \in 1 .. Len(t) /\ t[i] \in Buckets /\ Branches(t)[i] = Branch(t[i])
  BY <1>1, FlattenRows
<1>3. PICK j \in 1 .. Len(Branch(t[i])) : p = start[i] + j
  BY <1>1, <1>2
<1>4. Flatten(t)[p] = Branch(t[i])[j]
  BY <1>1, <1>2, <1>3 DEF Parts
<1>5. /\ Len(t[i].ops) \in Nat /\ Len(Branch(t[i])) = Len(t[i].ops) + 1
      /\ Branch(t[i])[1] = t[i].node
      /\ \A k \in 1 .. Len(t[i].ops) : Branch(t[i])[k + 1] = t[i].ops[k]
  BY <1>2, BranchRows
<1>6. j \in 1 .. (Len(t[i].ops) + 1)
  BY <1>5
<1>7. j # 1 => j - 1 \in 1 .. Len(t[i].ops) /\ (j - 1) + 1 = j
  BY <1>5, <1>6
<1>8. Branch(t[i])[j] = IF j = 1 THEN t[i].node ELSE t[i].ops[j - 1]
  BY <1>5, <1>7
<1> QED
  BY <1>2, <1>3, <1>4, <1>6, <1>8

(* And back: where the rows of a bucket are.                               *)
LEMMA PlaceOf ==
    ASSUME NEW t \in Seq(Buckets), NEW start, Parts(Branches(t), Flatten(t), start),
           NEW i \in 1 .. Len(t), NEW j \in 1 .. (Len(t[i].ops) + 1)
    PROVE  /\ start[i] \in Nat /\ start[i] + j \in 1 .. Len(Flatten(t))
           /\ Flatten(t)[start[i] + j] = IF j = 1 THEN t[i].node ELSE t[i].ops[j - 1]
           /\ \A k \in 1 .. Len(t) : i < k => start[i] + j <= start[k]
<1>1. /\ t[i] \in Buckets /\ Branches(t)[i] = Branch(t[i]) /\ Len(Branches(t)) = Len(t)
      /\ Len(t) \in Nat /\ Len(Flatten(t)) \in Nat /\ Branches(t) \in Seq(Seq(Nodes))
  BY FlattenRows
<1>2. /\ Len(t[i].ops) \in Nat /\ Len(Branch(t[i])) = Len(t[i].ops) + 1
      /\ Branch(t[i])[1] = t[i].node
      /\ \A k \in 1 .. Len(t[i].ops) : Branch(t[i])[k + 1] = t[i].ops[k]
  BY <1>1, BranchRows
<1>3. j # 1 => j - 1 \in 1 .. Len(t[i].ops) /\ (j - 1) + 1 = j
  BY <1>2
<1>4. Branch(t[i])[j] = IF j = 1 THEN t[i].node ELSE t[i].ops[j - 1]
  BY <1>2, <1>3
<1>5. Flatten(t)[start[i] + j] = Branch(t[i])[j]
  <2>1. i \in 1 .. Len(Branches(t)) /\ j \in 1 .. Len(Branches(t)[i])
    BY <1>1, <1>2
  <2> QED
    BY <1>1, <2>1 DEF Parts
<1>6. \A k \in 1 .. (Len(t) + 1) : start[k] \in Nat
  BY <1>1 DEF Parts
<1>7. \A k \in (i + 1) .. (Len(t) + 1) : start[i] + (Len(t[i].ops) + 1) <= start[k]
  <2>1. i \in 1 .. Len(Branches(t)) /\ Len(Branches(t)[i]) = Len(t[i].ops) + 1
    BY <1>1, <1>2
  <2>2. \A k \in (i + 1) .. (Len(Branches(t)) + 1) : start[i] + Len(Branches(t)[i]) <= start[k]
    BY <1>1, <2>1, PartsInOrder
  <2> QED
    BY <1>1, <2>1, <2>2
<1>8. /\ \A k \in (i + 1) .. (Len(t) + 1) : k \in 1 .. (Len(t) + 1)
      /\ i \in 1 .. (Len(t) + 1)
  BY <1>1
<1>9. \A k \in (i + 1) .. (Len(t) + 1) : start[i] + j <= start[k]
  <2> SUFFICES ASSUME NEW k \in (i + 1) .. (Len(t) + 1) PROVE start[i] + j <= start[k]
    OBVIOUS
  <2>1. start[i] \in Nat /\ start[k] \in Nat /\ start[i] + (Len(t[i].ops) + 1) <= start[k]
    BY <1>6, <1>7, <1>8
  <2> QED
    BY <1>2, <2>1
<1>10. start[Len(t) + 1] = Len(Flatten(t)) /\ Len(t) + 1 \in (i + 1) .. (Len(t) + 1)
  BY <1>1 DEF Parts
<1>11. start[i] \in Nat /\ start[i] + j <= Len(Flatten(t))
  BY <1>6, <1>8, <1>9, <1>10
<1>12. start[i] + j \in 1 .. Len(Flatten(t))
  BY <1>1, <1>2, <1>11
<1>13. \A k \in 1 .. Len(t) : i < k => k \in (i + 1) .. (Len(t) + 1)
  BY <1>1
<1> QED
  BY <1>4, <1>5, <1>9, <1>11, <1>12, <1>13

(* The keys of a list of rows.                                             *)
LEMMA KeysOfRows ==
    ASSUME NEW rows \in Seq(Nodes)
    PROVE  /\ KeysOf(rows) \in Seq(Layers \X Labels) /\ Len(KeysOf(rows)) = Len(rows)
           /\ DOMAIN KeysOf(rows) = 1 .. Len(rows) /\ Len(rows) \in Nat
           /\ \A p \in 1 .. Len(rows) : KeysOf(rows)[p] = Key(rows[p])
<1>1. /\ Len(rows) \in Nat /\ DOMAIN rows = 1 .. Len(rows)
      /\ \A p \in 1 .. Len(rows) : rows[p] \in Nodes
  BY LenProperties, ElementOfSeq
<1>2. \A p \in 1 .. Len(rows) : Key(rows[p]) \in Layers \X Labels
  BY <1>1 DEF Key, Nodes
<1>3. /\ KeysOf(rows) = [p \in 1 .. Len(rows) |-> Key(rows[p])]
      /\ KeysOf(rows) \in [1 .. Len(rows) -> Layers \X Labels]
  BY <1>1, <1>2 DEF KeysOf
<1>4. KeysOf(rows) \in Seq(Layers \X Labels)
  BY <1>1, <1>3, SeqDef
<1> QED
  BY <1>1, <1>3, <1>4, LenProperties

(* A tree whose buckets and ops keep their places gives a list in which    *)
(* the rows of the older one are embedded.                                 *)
LEMMA FlattenEmbeds ==
    ASSUME NEW s \in Seq(Buckets), NEW t \in Seq(Buckets), RowsKept(s, t)
    PROVE  Embeds(KeysOf(Flatten(s)), KeysOf(Flatten(t)))
<1>1. PICK from : Parts(Branches(s), Flatten(s), from)
  BY FlattenRows
<1>2. PICK to : Parts(Branches(t), Flatten(t), to)
  BY FlattenRows
<1> DEFINE old == Flatten(s)
           new == Flatten(t)
           At(p, q) == \E i \in 1 .. Len(s) : \E j \in 1 .. (Len(s[i].ops) + 1) :
                          p = from[i] + j /\ q = to[i] + j
<1>3. /\ old \in Seq(Nodes) /\ new \in Seq(Nodes) /\ Len(s) \in Nat /\ Len(t) \in Nat
      /\ Len(s) <= Len(t)
      /\ \A i \in 1 .. Len(s) : /\ i \in 1 .. Len(t) /\ OpsKept(s[i], t[i])
                                /\ Key(t[i].node) = Key(s[i].node)
                                /\ Len(s[i].ops) \in Nat /\ Len(t[i].ops) \in Nat
  <2>1. Len(s) \in Nat /\ Len(t) \in Nat /\ Len(s) <= Len(t)
    BY FlattenRows DEF RowsKept
  <2>2. \A i \in 1 .. Len(s) : i \in 1 .. Len(t)
    BY <2>1
  <2>3. \A i \in 1 .. Len(s) : s[i] \in Buckets /\ t[i] \in Buckets
    BY <2>2, FlattenRows
  <2>4. \A i \in 1 .. Len(s) : Len(s[i].ops) \in Nat /\ Len(t[i].ops) \in Nat
    BY <2>3, BranchRows
  <2> QED
    BY <2>1, <2>2, <2>4, FlattenRows DEF RowsKept
<1>4. \A i \in 1 .. Len(s) : \A j \in 1 .. (Len(s[i].ops) + 1) : j \in 1 .. (Len(t[i].ops) + 1)
  BY <1>3 DEF OpsKept
<1>5. \A i \in 1 .. Len(s) : \A j \in 1 .. (Len(s[i].ops) + 1) :
          /\ from[i] \in Nat
          /\ old[from[i] + j] = IF j = 1 THEN s[i].node ELSE s[i].ops[j - 1]
          /\ \A k \in 1 .. Len(s) : i < k => from[i] + j <= from[k]
  BY <1>1, PlaceOf
<1>6. \A i \in 1 .. Len(t) : \A j \in 1 .. (Len(t[i].ops) + 1) :
          /\ to[i] \in Nat /\ to[i] + j \in 1 .. Len(new)
          /\ new[to[i] + j] = IF j = 1 THEN t[i].node ELSE t[i].ops[j - 1]
          /\ \A k \in 1 .. Len(t) : i < k => to[i] + j <= to[k]
  BY <1>2, PlaceOf
<1>7. ASSUME NEW p \in 1 .. Len(old)
      PROVE  \E q \in 1 .. Len(new) : At(p, q)
  <2>a. PICK i \in 1 .. Len(s) : \E j \in 1 .. (Len(s[i].ops) + 1) : p = from[i] + j
    BY <1>1, RowAt
  <2>1. PICK j \in 1 .. (Len(s[i].ops) + 1) : p = from[i] + j
    BY <2>a
  <2>2. to[i] + j \in 1 .. Len(new)
    BY <1>3, <1>4, <1>6
  <2> QED
    BY <2>1, <2>2
<1> DEFINE g == [p \in 1 .. Len(old) |-> CHOOSE q \in 1 .. Len(new) : At(p, q)]
<1>8. \A p \in 1 .. Len(old) : g[p] \in 1 .. Len(new) /\ At(p, g[p])
  BY <1>7
<1>9. g \in [1 .. Len(old) -> 1 .. Len(new)]
  BY <1>8
<1> HIDE DEF g
<1>10. ASSUME NEW p \in 1 .. Len(old)
      PROVE  KeysOf(new)[g[p]] = KeysOf(old)[p]
  <2>a. PICK i \in 1 .. Len(s) :
           \E j \in 1 .. (Len(s[i].ops) + 1) : p = from[i] + j /\ g[p] = to[i] + j
    BY <1>8
  <2>1. PICK j \in 1 .. (Len(s[i].ops) + 1) : p = from[i] + j /\ g[p] = to[i] + j
    BY <2>a
  <2>2. old[from[i] + j] = IF j = 1 THEN s[i].node ELSE s[i].ops[j - 1]
    BY <1>5
  <2>3. i \in 1 .. Len(t) /\ j \in 1 .. (Len(t[i].ops) + 1)
    BY <1>3, <1>4
  <2>4. new[to[i] + j] = IF j = 1 THEN t[i].node ELSE t[i].ops[j - 1]
    BY <1>6, <2>3
  <2>5. j # 1 => j - 1 \in 1 .. Len(s[i].ops)
    BY <1>3
  <2>6. Key(new[g[p]]) = Key(old[p])
    BY <1>3, <2>1, <2>2, <2>4, <2>5 DEF OpsKept
  <2>7. KeysOf(new)[g[p]] = Key(new[g[p]]) /\ KeysOf(old)[p] = Key(old[p])
    BY <1>3, <1>8, KeysOfRows
  <2> QED
    BY <2>6, <2>7
<1>11. ASSUME NEW p1 \in 1 .. Len(old), NEW p2 \in 1 .. Len(old), p1 < p2
      PROVE  g[p1] < g[p2]
  <2>a. PICK i1 \in 1 .. Len(s) : \E j1 \in 1 .. (Len(s[i1].ops) + 1) :
           p1 = from[i1] + j1 /\ g[p1] = to[i1] + j1
    BY <1>8
  <2>1. PICK j1 \in 1 .. (Len(s[i1].ops) + 1) :
           p1 = from[i1] + j1 /\ g[p1] = to[i1] + j1
    BY <2>a
  <2>b. PICK i2 \in 1 .. Len(s) : \E j2 \in 1 .. (Len(s[i2].ops) + 1) :
           p2 = from[i2] + j2 /\ g[p2] = to[i2] + j2
    BY <1>8
  <2>2. PICK j2 \in 1 .. (Len(s[i2].ops) + 1) :
           p2 = from[i2] + j2 /\ g[p2] = to[i2] + j2
    BY <2>b
  <2>3. /\ i1 \in 1 .. Len(t) /\ i2 \in 1 .. Len(t)
        /\ j1 \in 1 .. (Len(t[i1].ops) + 1) /\ j2 \in 1 .. (Len(t[i2].ops) + 1)
    BY <1>3, <1>4
  <2>4. /\ from[i1] \in Nat /\ from[i2] \in Nat
        /\ i2 < i1 => from[i2] + j2 <= from[i1]
    BY <1>5
  <2>5. /\ to[i1] \in Nat /\ to[i2] \in Nat
        /\ i1 < i2 => to[i1] + j1 <= to[i2]
    BY <1>6, <2>3
  <2>6. j1 \in Nat \ {0} /\ j2 \in Nat \ {0} /\ i1 \in Nat /\ i2 \in Nat
    BY <1>3
  <2>7. i1 < i2 \/ (i1 = i2 /\ j1 < j2)
    <3>1. from[i1] + j1 < from[i2] + j2
      BY <1>11, <2>1, <2>2
    <3>2. CASE i2 < i1
      BY <2>4, <2>6, <3>1, <3>2
    <3>3. CASE i1 = i2
      BY <2>4, <2>6, <3>1, <3>3
    <3> QED
      BY <2>6, <3>2, <3>3
  <2>8. to[i1] + j1 < to[i2] + j2
    <3>1. CASE i1 < i2
      <4>1. to[i1] + j1 <= to[i2]
        BY <2>5, <3>1
      <4> QED
        BY <2>5, <2>6, <4>1
    <3>2. CASE i1 = i2 /\ j1 < j2
      BY <2>5, <2>6, <3>2
    <3> QED
      BY <2>7, <3>1, <3>2
  <2> QED
    BY <2>1, <2>2, <2>8
<1>12. EmbeddedBy(g, KeysOf(old), KeysOf(new))
  BY <1>3, <1>9, <1>10, <1>11, KeysOfRows DEF EmbeddedBy
<1> QED
  BY <1>12 DEF Embeds

(* No two rows have the same layer and label.                              *)
LEMMA FlattenInjective ==
    ASSUME NEW t \in Seq(Buckets), TreeHoldsItsOps(t)
    PROVE  IsInjective(KeysOf(Flatten(t)))
<1>1. PICK start : Parts(Branches(t), Flatten(t), start)
  BY FlattenRows
<1> DEFINE rows == Flatten(t)
           RowIs(p, i, j, c) ==
                /\ p = start[i] + j
                /\ rows[p].layer = t[i].node.layer
                /\ t[i].node.label = Label(t[i].node.layer, c)
                /\ rows[p].label = IF j = 1 THEN t[i].node.label ELSE <<c>>
                /\ j # 1 => j - 1 \in 1 .. Len(t[i].ops) /\ t[i].ops[j - 1].label = <<c>>
<1>2. /\ rows \in Seq(Nodes) /\ Len(t) \in Nat
      /\ \A i \in 1 .. Len(t) : t[i] \in Buckets /\ Len(t[i].ops) \in Nat
  <2>1. \A i \in 1 .. Len(t) : t[i] \in Buckets
    BY FlattenRows
  <2> QED
    BY <2>1, FlattenRows, BranchRows
<1>3. ASSUME NEW p \in 1 .. Len(rows)
      PROVE  \E i \in 1 .. Len(t) : \E j \in 1 .. (Len(t[i].ops) + 1) : \E c \in OpClasses : RowIs(p, i, j, c)
  <2>1. PICK i \in 1 .. Len(t) : \E j \in 1 .. (Len(t[i].ops) + 1) :
           /\ p = start[i] + j
           /\ rows[p] = IF j = 1 THEN t[i].node ELSE t[i].ops[j - 1]
    BY <1>1, RowAt
  <2>2. PICK j \in 1 .. (Len(t[i].ops) + 1) :
           /\ p = start[i] + j
           /\ rows[p] = IF j = 1 THEN t[i].node ELSE t[i].ops[j - 1]
    BY <2>1
  <2>3. BucketHoldsItsOps(t[i]) /\ \E c \in OpClasses : t[i].node.label = Label(t[i].node.layer, c)
    BY DEF TreeHoldsItsOps
  <2>4. CASE j = 1
    BY <2>2, <2>3, <2>4
  <2>5. CASE j # 1
    <3>1. j - 1 \in 1 .. Len(t[i].ops)
      BY <1>2, <2>5
    <3>2. PICK c \in OpClasses : /\ t[i].ops[j - 1].label = <<c>>
                                 /\ t[i].ops[j - 1].layer = t[i].node.layer
                                 /\ t[i].node.label = Label(t[i].node.layer, c)
      BY <2>3, <3>1 DEF BucketHoldsItsOps
    <3> QED
      BY <2>2, <2>5, <3>1, <3>2
  <2> QED
    BY <2>4, <2>5
<1>4. ASSUME NEW p \in 1 .. Len(rows), NEW q \in 1 .. Len(rows), Key(rows[p]) = Key(rows[q])
      PROVE  p = q
  <2>1. PICK i \in 1 .. Len(t) : \E j \in 1 .. (Len(t[i].ops) + 1) : \E c \in OpClasses : RowIs(p, i, j, c)
    BY <1>3
  <2>2. PICK j \in 1 .. (Len(t[i].ops) + 1) : \E c \in OpClasses : RowIs(p, i, j, c)
    BY <2>1
  <2>3. PICK c \in OpClasses : RowIs(p, i, j, c)
    BY <2>2
  <2>4. PICK k \in 1 .. Len(t) : \E l \in 1 .. (Len(t[k].ops) + 1) : \E d \in OpClasses : RowIs(q, k, l, d)
    BY <1>3
  <2>5. PICK l \in 1 .. (Len(t[k].ops) + 1) : \E d \in OpClasses : RowIs(q, k, l, d)
    BY <2>4
  <2>6. PICK d \in OpClasses : RowIs(q, k, l, d)
    BY <2>5
  <2>7. /\ t[i].node.layer = t[k].node.layer /\ t[i].node.layer \in Layers
        /\ rows[p].label = rows[q].label
    BY <1>2, <1>4, <2>3, <2>6 DEF Key, Buckets, Nodes
  <2>8. \A e \in OpClasses : t[i].node.label # <<e>> /\ t[k].node.label # <<e>>
    BY <2>3, <2>6, <2>7, LabelType
  <2>9. CASE j = 1 /\ l = 1
    <3>1. Key(t[i].node) = Key(t[k].node)
      BY <2>3, <2>6, <2>7, <2>9 DEF Key
    <3> QED
      BY <2>3, <2>6, <2>9, <3>1 DEF TreeHoldsItsOps
  <2>10. CASE j # 1 /\ l # 1
    <3>1. c = d
      BY <2>3, <2>6, <2>7, <2>10
    <3>2. Key(t[i].node) = Key(t[k].node)
      BY <2>3, <2>6, <2>7, <3>1 DEF Key
    <3>3. i = k
      BY <3>2 DEF TreeHoldsItsOps
    <3>4. j - 1 = l - 1
      <4>1. /\ j - 1 \in 1 .. Len(t[i].ops) /\ l - 1 \in 1 .. Len(t[i].ops)
            /\ t[i].ops[j - 1].label = t[i].ops[l - 1].label
        BY <2>3, <2>6, <2>10, <3>1, <3>3
      <4>2. BucketHoldsItsOps(t[i])
        BY DEF TreeHoldsItsOps
      <4> QED
        BY <4>1, <4>2 DEF BucketHoldsItsOps
    <3>5. j \in Int /\ l \in Int
      BY <1>2
    <3>6. j = l
      BY <3>4, <3>5
    <3> QED
      BY <2>3, <2>6, <3>3, <3>6
  <2>11. CASE (j = 1 /\ l # 1) \/ (j # 1 /\ l = 1)
    BY <2>3, <2>6, <2>7, <2>8, <2>11
  <2> QED
    BY <2>9, <2>10, <2>11
<1>5. /\ DOMAIN KeysOf(rows) = 1 .. Len(rows)
      /\ \A p \in 1 .. Len(rows) : KeysOf(rows)[p] = Key(rows[p])
  BY <1>2, KeysOfRows
<1> QED
  BY <1>4, <1>5 DEF IsInjective

(* A row has the layer of a bucket.                                        *)
LEMMA FlattenLayers ==
    ASSUME NEW t \in Seq(Buckets), TreeHoldsItsOps(t), NEW p \in 1 .. Len(Flatten(t))
    PROVE  \E i \in 1 .. Len(t) : Flatten(t)[p].layer = t[i].node.layer
<1>1. PICK start : Parts(Branches(t), Flatten(t), start)
  BY FlattenRows
<1>2. PICK i \in 1 .. Len(t) : \E j \in 1 .. (Len(t[i].ops) + 1) :
        Flatten(t)[p] = IF j = 1 THEN t[i].node ELSE t[i].ops[j - 1]
  BY <1>1, RowAt
<1>3. PICK j \in 1 .. (Len(t[i].ops) + 1) :
        Flatten(t)[p] = IF j = 1 THEN t[i].node ELSE t[i].ops[j - 1]
  BY <1>2
<1>4. Len(t[i].ops) \in Nat /\ BucketHoldsItsOps(t[i])
  BY FlattenRows, BranchRows DEF TreeHoldsItsOps
<1>5. j # 1 => j - 1 \in 1 .. Len(t[i].ops)
  BY <1>4
<1> QED
  BY <1>3, <1>4, <1>5 DEF BucketHoldsItsOps
-----------------------------------------------------------------------------
(* The invariant.                                                          *)

PanesTypes ==
    /\ fed \in Seq(Ops)
    /\ tree \in Seq(Buckets)
    /\ target \in Layers /\ pending \in Layers \cup {NoRequest}
    /\ DOMAIN ui = {"stream", "total", "rows", "selected", "metrics", "anomalies", "attention"}
    /\ ui.rows \in Seq(Nodes) /\ ui.selected \in Nat
    /\ ui.attention \in Matrices \cup {NoMatrix}
    /\ pan \in [row : Nat, col : Nat]
    /\ row \in Int /\ (upc = "size" => row \in Nat)
    /\ seen.rows \in Seq(Layers \X Labels)

(* The list is embedded in that of the tree, and the frame in the list.    *)
ListsLagBehind ==
    /\ Embeds(KeysOf(ui.rows), KeysOf(Flatten(tree)))
    /\ Embeds(seen.rows, KeysOf(ui.rows))
    /\ upc = "resolve" => row \in Nat /\ row < Len(ui.rows)

CursorInList == ui.selected \in 0 .. Max({0, Len(ui.rows) - 1})

(* A mark is the user's, and a layer asked for is in the tree.             *)
MarksAreChosen ==
    /\ \A i \in 1 .. Len(tree) :
          tree[i].node.selected => chosen /\ tree[i].node.layer = target
    /\ chosen => \E i \in 1 .. Len(tree) : tree[i].node.selected
    /\ pending # NoRequest => \E i \in 1 .. Len(tree) : tree[i].node.layer = pending

PanesInv ==
    /\ PanesTypes /\ TreeHoldsItsOps(tree)
    /\ ListsLagBehind /\ CursorInList /\ MarksAreChosen
-----------------------------------------------------------------------------
(* Steps, seen from the lists.                                             *)

UiNames == {"stream", "total", "rows", "selected", "metrics", "anomalies", "attention"}

(* What the consumer writes of the UI's state, action by action.           *)
LEMMA UiAfterEvent ==
    ASSUME NEW e \in Ops, HandleEvent(e), DOMAIN ui = UiNames
    PROVE  /\ DOMAIN ui' = UiNames /\ ui.rows' = ui.rows
           /\ ui.selected' = ui.selected /\ ui.attention' = ui.attention
<1>1. PICK a, b : ui' = [ui EXCEPT !.stream = a, !.total = b]
  BY Zenon DEF HandleEvent
<1> QED
  BY <1>1, Zenon DEF UiNames

(* The inspector changes the metrics and the anomalies.                    *)
LEMMA UiAfterInspection ==
    ASSUME InspectEvent, DOMAIN ui = UiNames
    PROVE  /\ DOMAIN ui' = UiNames /\ ui.rows' = ui.rows
           /\ ui.selected' = ui.selected /\ ui.attention' = ui.attention
<1>1. PICK a, b : ui' = [ui EXCEPT !.metrics = a, !.anomalies = b]
  BY Zenon DEF InspectEvent
<1> QED
  BY <1>1, Zenon DEF UiNames

(* The sink gives a matrix or nothing.                                     *)
LEMMA UiAfterDrain ==
    ASSUME EndDrain, DOMAIN ui = UiNames
    PROVE  /\ DOMAIN ui' = UiNames /\ ui.rows' = ui.rows /\ ui.selected' = ui.selected
           /\ ui.attention' \in Matrices \cup {ui.attention}
<1>1. PICK a \in Matrices \cup {ui.attention} : ui' = [ui EXCEPT !.attention = a]
  BY Zenon DEF EndDrain
<1> QED
  BY <1>1, Zenon DEF UiNames

(* set_topology replaces the rows and moves the cursor into them.          *)
LEMMA UiAfterRefresh ==
    ASSUME RefreshUi, DOMAIN ui = UiNames
    PROVE  /\ DOMAIN ui' = UiNames /\ ui.rows' = Flatten(tree)
           /\ ui.selected' = IF ui.selected >= Len(Flatten(tree))
                             THEN Max({0, Len(Flatten(tree)) - 1}) ELSE ui.selected
           /\ ui.attention' = ui.attention
<1> DEFINE at == IF ui.selected >= Len(Flatten(tree))
                 THEN Max({0, Len(Flatten(tree)) - 1}) ELSE ui.selected
<1>1. ui' = [ui EXCEPT !.rows = Flatten(tree), !.selected = at]
  BY Zenon DEF RefreshUi
<1> HIDE DEF at
<1>2. DOMAIN ui' = UiNames /\ ui.rows' = Flatten(tree) /\ ui.selected' = at
      /\ ui.attention' = ui.attention
  BY <1>1, Zenon DEF UiNames
<1> QED
  BY <1>2 DEF at

(* A cursor key moves the cursor.                                          *)
LEMMA UiAfterCursor ==
    ASSUME SetCursor, DOMAIN ui = UiNames
    PROVE  /\ DOMAIN ui' = UiNames /\ ui.rows' = ui.rows /\ ui.attention' = ui.attention
           /\ ui.selected' = Clamped(row, ui.rows)
<1> DEFINE at == Clamped(row, ui.rows)
<1>1. ui' = [ui EXCEPT !.selected = at]
  BY DEF SetCursor
<1> HIDE DEF at
<1> QED
  BY <1>1, Zenon DEF UiNames, at

(* The tree is kept, whatever happens to it.                               *)
LEMMA TreeNext ==
    ASSUME PanesTypes, TreeHoldsItsOps(tree), [Next]_vars
    PROVE  /\ tree' \in Seq(Buckets) /\ TreeHoldsItsOps(tree')
           /\ RowsKept(tree, tree')
<1>1. tree \in Seq(Buckets) /\ fed \in Seq(Ops)
  BY DEF PanesTypes
<1>2. CASE tree' = tree
  <2>1. \A i \in 1 .. Len(tree) : tree[i].ops \in Seq(Nodes)
    BY <1>1, FlattenRows DEF Buckets
  <2>2. Len(tree) \in Nat /\ \A i \in 1 .. Len(tree) : Len(tree[i].ops) \in Nat
    BY <1>1, <2>1, LenProperties
  <2>3. \A n \in Nat : n <= n
    OBVIOUS
  <2>4. RowsKept(tree, tree)
    BY <2>2, <2>3 DEF RowsKept, OpsKept
  <2> QED
    BY <1>1, <1>2, <2>4
<1>3. CASE \E e \in Ops : HandleEvent(e)
  <2>1. PICK e \in Ops : HandleEvent(e)
    BY <1>3
  <2>2. tree' = Update(tree, e, Len(fed')) /\ fed' = Append(fed, e)
    BY <2>1 DEF HandleEvent
  <2>3. Len(fed') \in Nat
    BY <1>1, <2>2, AppendProperties, LenProperties
  <2>4. e.layer \in Layers /\ e.cls \in OpClasses /\ e.lat \in Nat
    BY OpTypes
  <2> QED
    BY <1>1, <2>2, <2>3, <2>4, UpdateKeeps
<1>4. CASE BeginTurn /\ pending # NoRequest
  <2>1. tree' = Select(tree, pending)
    BY <1>4 DEF BeginTurn
  <2> QED
    BY <1>1, <2>1, SelectKeeps
<1>5. tree' = tree \/ (\E e \in Ops : HandleEvent(e)) \/ (BeginTurn /\ pending # NoRequest)
  BY DEF Next, Consumer, UiThread, BeginTurn, InspectEvent, EndDrain, RefreshUi, EditFilter,
         Quit, TurnFocus, MoveCursor, SetCursor, PressSpace, CheckSize, ResolveRow,
         PanAttention, StreamKey, Draw, vars, consumerVars
<1> QED
  BY <1>2, <1>3, <1>4, <1>5

(* Who writes what.                                                        *)
LEMMA Writers ==
    ASSUME [Next]_vars
    PROVE  /\ fed' = fed \/ \E e \in Ops : HandleEvent(e)
           /\ tree' = tree \/ (\E e \in Ops : HandleEvent(e)) \/ (BeginTurn /\ pending # NoRequest)
           /\ UNCHANGED <<target, chosen>> \/ (BeginTurn /\ pending # NoRequest)
           /\ pending' = pending \/ BeginTurn \/ ResolveRow
           /\ \/ ui' = ui \/ (\E e \in Ops : HandleEvent(e)) \/ InspectEvent \/ EndDrain
              \/ RefreshUi \/ SetCursor
           /\ pan' = pan \/ PanAttention
           /\ row' = row \/ MoveCursor \/ PressSpace
           /\ upc' = upc \/ MoveCursor \/ SetCursor \/ PressSpace \/ CheckSize \/ ResolveRow
              \/ Quit
           /\ seen' = seen \/ Draw
BY DEF Next, Consumer, UiThread, BeginTurn, HandleEvent, InspectEvent, EndDrain, RefreshUi,
       EditFilter, Quit, TurnFocus, MoveCursor, SetCursor, PressSpace, CheckSize, ResolveRow,
       PanAttention, StreamKey, Draw, vars, consumerVars, appVars

(* Of the UI's state: the rows change at a refresh only.                   *)
LEMMA UiNext ==
    ASSUME DOMAIN ui = UiNames, ui.attention \in Matrices \cup {NoMatrix}, [Next]_vars
    PROVE  /\ DOMAIN ui' = UiNames
           /\ ui.rows' = ui.rows \/ RefreshUi
           /\ ui.selected' = ui.selected \/ RefreshUi \/ SetCursor
           /\ ui.attention' \in Matrices \cup {NoMatrix}
BY Writers, UiAfterEvent, UiAfterInspection, UiAfterDrain, UiAfterRefresh, UiAfterCursor

(* The largest of none and something, and a clamped row.                   *)
LEMMA CursorTypes ==
    /\ \A n \in Int : Max({0, n}) \in Nat /\ Max({0, n}) = IF n >= 0 THEN n ELSE 0
    /\ \A rows \in Seq(Nodes) : \A i \in Int :
          /\ Clamped(i, rows) \in 0 .. Max({0, Len(rows) - 1})
<1>1. \A n \in Int : Max({0, n}) \in Nat /\ Max({0, n}) = IF n >= 0 THEN n ELSE 0
  BY MaxOfTwo
<1>2. ASSUME NEW rows \in Seq(Nodes), NEW i \in Int
      PROVE  Clamped(i, rows) \in 0 .. Max({0, Len(rows) - 1})
  <2>1. Len(rows) \in Nat /\ (rows # <<>> => Len(rows) > 0)
    BY LenProperties, EmptySeq
  <2>2. Max({0, Len(rows) - 1}) \in Nat
    BY <1>1, <2>1
  <2>3. CASE i < 0 \/ rows = <<>>
    BY <2>2, <2>3 DEF Clamped
  <2>4. CASE ~ (i < 0 \/ rows = <<>>)
    <3>1. Max({0, Len(rows) - 1}) = Len(rows) - 1
      BY <1>1, <2>1, <2>4
    <3>2. Min({i, Len(rows) - 1}) = IF i <= Len(rows) - 1 THEN i ELSE Len(rows) - 1
      BY <2>1, MinOfTwo
    <3> QED
      BY <2>1, <2>4, <3>1, <3>2 DEF Clamped
  <2> QED
    BY <2>3, <2>4
<1> QED
  BY <1>1, <1>2

(* The types.                                                              *)
LEMMA TypesNext ==
    ASSUME PanesInv, [Next]_vars
    PROVE  PanesTypes'
<1>1. /\ PanesTypes /\ DOMAIN ui = UiNames
      /\ fed \in Seq(Ops) /\ tree \in Seq(Buckets)
      /\ target \in Layers /\ pending \in Layers \cup {NoRequest}
      /\ ui.rows \in Seq(Nodes) /\ ui.selected \in Nat
      /\ ui.attention \in Matrices \cup {NoMatrix}
      /\ pan \in [row : Nat, col : Nat] /\ row \in Int
      /\ seen.rows \in Seq(Layers \X Labels)
  BY DEF PanesInv, PanesTypes, UiNames
<1>2. tree' \in Seq(Buckets)
  BY TreeNext DEF PanesInv
<1>3. fed' \in Seq(Ops)
  <2>1. ASSUME NEW e \in Ops, HandleEvent(e) PROVE fed' \in Seq(Ops)
    BY <1>1, <2>1, AppendProperties DEF HandleEvent
  <2> QED
    BY <1>1, <2>1, Writers
<1>4. target' \in Layers
  BY <1>1, Writers DEF BeginTurn
<1>5. pending' \in Layers \cup {NoRequest}
  <2>1. CASE BeginTurn
    BY <2>1 DEF BeginTurn
  <2>2. CASE ResolveRow
    <3>1. row \in Nat /\ row < Len(ui.rows) /\ pending' = ui.rows[row + 1].layer
      BY <2>2 DEF ResolveRow, PanesInv, ListsLagBehind
    <3>2. Len(ui.rows) \in Nat
      BY <1>1, LenProperties
    <3>3. row + 1 \in 1 .. Len(ui.rows)
      BY <1>1, <3>1, <3>2
    <3>4. ui.rows[row + 1] \in Nodes
      BY <1>1, <3>3, ElementOfSeq
    <3> QED
      BY <3>1, <3>4 DEF Nodes
  <2> QED
    BY <1>1, <2>1, <2>2, Writers
<1>6. DOMAIN ui' = UiNames /\ ui.attention' \in Matrices \cup {NoMatrix}
  BY <1>1, UiNext
<1>7. ui.rows' \in Seq(Nodes)
  BY <1>1, UiNext, UiAfterRefresh, FlattenRows
<1>8. ui.selected' \in Nat
  <2>1. CASE RefreshUi
    <3>1. Len(Flatten(tree)) - 1 \in Int
      BY <1>1, FlattenRows
    <3> QED
      BY <1>1, <2>1, <3>1, UiAfterRefresh, CursorTypes
  <2>2. CASE SetCursor
    <3>1. ui.selected' \in 0 .. Max({0, Len(ui.rows) - 1})
      BY <1>1, <2>2, UiAfterCursor, CursorTypes
    <3> QED
      BY <3>1
  <2> QED
    BY <1>1, <2>1, <2>2, UiNext
<1>9. pan' \in [row : Nat, col : Nat]
  <2>1. CASE PanAttention
    <3>1. pan.row \in Nat /\ pan.col \in Nat
      BY <1>1
    <3>2. /\ Max({0, pan.col - 4}) \in Nat /\ Max({0, pan.row - 2}) \in Nat
          /\ pan.col + 4 \in Nat /\ pan.row + 2 \in Nat
      BY <3>1, CursorTypes
    <3>3. \A n \in Nat : /\ [pan EXCEPT !.col = n] \in [row : Nat, col : Nat]
                         /\ [pan EXCEPT !.row = n] \in [row : Nat, col : Nat]
      BY <1>1
    <3>4. [row |-> 0, col |-> 0] \in [row : Nat, col : Nat]
      OBVIOUS
    <3>5. \/ \E n \in Nat : pan' = [pan EXCEPT !.col = n] \/ pan' = [pan EXCEPT !.row = n]
          \/ pan' = [row |-> 0, col |-> 0]
      BY <2>1, <3>2, Zenon DEF PanAttention
    <3> QED
      BY <3>3, <3>4, <3>5, Zenon
  <2> QED
    BY <1>1, <2>1, Writers
<1>10. row' \in Int /\ (upc' = "size" => row' \in Nat)
  <2>1. row' \in Int
    BY <1>1, Writers DEF MoveCursor, PressSpace
  <2>2. ASSUME upc' = "size" PROVE row' \in Nat
    <3>1. CASE PressSpace
      BY <1>1, <3>1 DEF PressSpace
    <3>2. CASE ~ PressSpace
      <4>1. upc = "size" /\ ~ MoveCursor
        BY <2>2, <3>2, Writers DEF MoveCursor, SetCursor, CheckSize, ResolveRow, Quit
      <4> QED
        BY <3>2, <4>1, Writers DEF PanesInv, PanesTypes
    <3> QED
      BY <3>1, <3>2
  <2> QED
    BY <2>1, <2>2
<1>11. seen'.rows \in Seq(Layers \X Labels)
  <2>1. CASE Draw
    <3>1. seen'.rows = KeysOf(ui.rows)
      BY <2>1 DEF Draw
    <3> QED
      BY <1>1, <3>1, KeysOfRows
  <2> QED
    BY <1>1, <2>1, Writers
<1> QED
  BY <1>2, <1>3, <1>4, <1>5, <1>6, <1>7, <1>8, <1>9, <1>10, <1>11 DEF PanesTypes, UiNames

(* The lists: a refresh takes the tree's, a frame the list's.              *)
LEMMA ListsNext ==
    ASSUME PanesInv, [Next]_vars
    PROVE  ListsLagBehind'
<1>1. /\ PanesTypes /\ DOMAIN ui = UiNames /\ tree \in Seq(Buckets) /\ TreeHoldsItsOps(tree)
      /\ ui.rows \in Seq(Nodes) /\ ui.attention \in Matrices \cup {NoMatrix}
      /\ ui.selected \in Nat /\ (upc = "size" => row \in Nat)
      /\ Embeds(KeysOf(ui.rows), KeysOf(Flatten(tree)))
      /\ Embeds(seen.rows, KeysOf(ui.rows))
      /\ upc = "resolve" => row \in Nat /\ row < Len(ui.rows)
  BY DEF PanesInv, PanesTypes, UiNames, ListsLagBehind
<1>2. Embeds(KeysOf(Flatten(tree)), KeysOf(Flatten(tree')))
  <2>1. tree' \in Seq(Buckets) /\ RowsKept(tree, tree')
    BY <1>1, TreeNext
  <2> QED
    BY <1>1, <2>1, FlattenEmbeds
<1>3. ui'.rows = ui.rows \/ (RefreshUi /\ ui'.rows = Flatten(tree))
  BY <1>1, UiNext, UiAfterRefresh
<1>4. Embeds(KeysOf(ui'.rows), KeysOf(Flatten(tree')))
  <2>1. CASE ui'.rows = ui.rows
    BY <1>1, <1>2, <2>1, EmbedsTransitive
  <2>2. CASE ui'.rows = Flatten(tree)
    BY <1>2, <2>2
  <2> QED
    BY <1>3, <2>1, <2>2
<1>5. Embeds(KeysOf(ui.rows), KeysOf(ui'.rows))
  <2>1. KeysOf(ui.rows) \in Seq(Layers \X Labels)
    BY <1>1, KeysOfRows
  <2>2. Embeds(KeysOf(ui.rows), KeysOf(ui.rows))
    BY <2>1, EmbedsSelf
  <2> QED
    BY <1>1, <1>3, <2>2
<1>6. Embeds(seen'.rows, KeysOf(ui'.rows))
  <2>1. CASE seen' = seen
    BY <1>1, <1>5, <2>1, EmbedsTransitive
  <2>2. CASE Draw
    <3>1. seen'.rows = KeysOf(ui.rows)
      BY <2>2 DEF Draw
    <3> QED
      BY <1>5, <3>1
  <2> QED
    BY <2>1, <2>2, Writers
<1>7. Len(ui.rows) \in Nat /\ Len(ui'.rows) \in Nat /\ Len(ui.rows) <= Len(ui'.rows)
  <2>1. ui'.rows \in Seq(Nodes)
    BY TypesNext DEF PanesTypes
  <2>2. /\ Len(KeysOf(ui.rows)) = Len(ui.rows) /\ Len(KeysOf(ui'.rows)) = Len(ui'.rows)
        /\ KeysOf(ui.rows) \in Seq(Layers \X Labels) /\ KeysOf(ui'.rows) \in Seq(Layers \X Labels)
        /\ Len(ui.rows) \in Nat /\ Len(ui'.rows) \in Nat
    BY <1>1, <2>1, KeysOfRows
  <2>3. Len(KeysOf(ui.rows)) <= Len(KeysOf(ui'.rows))
    BY <1>5, <2>2, EmbedsLength
  <2> QED
    BY <2>2, <2>3
<1>8. ASSUME upc' = "resolve" PROVE row' \in Nat /\ row' < Len(ui'.rows)
  <2>1. row' = row /\ row \in Nat /\ row < Len(ui.rows)
    <3>1. CASE CheckSize
      BY <1>1, <1>8, <3>1 DEF CheckSize
    <3>2. CASE ~ CheckSize
      <4>1. upc = "resolve" /\ ~ MoveCursor /\ ~ PressSpace
        BY <1>8, <3>2, Writers DEF MoveCursor, SetCursor, PressSpace, ResolveRow, Quit
      <4> QED
        BY <1>1, <4>1, Writers
    <3> QED
      BY <3>1, <3>2
  <2> QED
    BY <1>7, <2>1
<1> QED
  BY <1>4, <1>6, <1>8 DEF ListsLagBehind

(* The cursor.                                                             *)
LEMMA CursorNext ==
    ASSUME PanesInv, [Next]_vars
    PROVE  CursorInList'
<1>1. /\ DOMAIN ui = UiNames /\ ui.rows \in Seq(Nodes) /\ tree \in Seq(Buckets)
      /\ ui.attention \in Matrices \cup {NoMatrix} /\ ui.selected \in Nat
      /\ ui.selected \in 0 .. Max({0, Len(ui.rows) - 1})
  BY DEF PanesInv, PanesTypes, UiNames, CursorInList
<1>2. CASE RefreshUi
  <2> DEFINE n == Len(Flatten(tree))
  <2>1. n \in Nat
    BY <1>1, FlattenRows
  <2>2. ui'.rows = Flatten(tree)
        /\ ui'.selected = IF ui.selected >= n THEN Max({0, n - 1}) ELSE ui.selected
    BY <1>1, <1>2, UiAfterRefresh
  <2> HIDE DEF n
  <2>3. Max({0, n - 1}) \in Nat /\ Max({0, n - 1}) = IF n - 1 >= 0 THEN n - 1 ELSE 0
    BY <2>1, CursorTypes
  <2>4. ui'.selected \in 0 .. Max({0, n - 1})
    BY <1>1, <2>1, <2>2, <2>3
  <2> QED
    BY <2>2, <2>4 DEF n, CursorInList
<1>3. CASE SetCursor
  <2>1. ui'.rows = ui.rows /\ ui'.selected = Clamped(row, ui.rows) /\ row \in Int
    BY <1>1, <1>3, UiAfterCursor DEF PanesInv, PanesTypes
  <2>2. ui'.selected \in 0 .. Max({0, Len(ui.rows) - 1})
    BY <1>1, <2>1, CursorTypes
  <2> QED
    BY <2>1, <2>2 DEF CursorInList
<1>4. CASE ui'.rows = ui.rows /\ ui'.selected = ui.selected
  BY <1>1, <1>4 DEF CursorInList
<1> QED
  BY <1>1, <1>2, <1>3, <1>4, UiNext, UiAfterCursor

(* The marks.                                                              *)
LEMMA MarksNext ==
    ASSUME PanesInv, [Next]_vars
    PROVE  MarksAreChosen'
<1>1. /\ PanesTypes /\ tree \in Seq(Buckets) /\ TreeHoldsItsOps(tree) /\ fed \in Seq(Ops)
      /\ MarksAreChosen /\ Len(tree) \in Nat
  BY LenProperties DEF PanesInv, PanesTypes
<1>2. /\ tree' \in Seq(Buckets) /\ RowsKept(tree, tree') /\ Len(tree') \in Nat
      /\ \A i \in 1 .. Len(tree) : i \in 1 .. Len(tree') /\ tree'[i].node.layer = tree[i].node.layer
  <2>1. tree' \in Seq(Buckets) /\ RowsKept(tree, tree')
    BY <1>1, TreeNext
  <2>2. Len(tree') \in Nat
    BY <2>1, LenProperties
  <2>3. Len(tree) <= Len(tree')
    BY <2>1 DEF RowsKept
  <2> QED
    BY <1>1, <2>1, <2>2, <2>3 DEF RowsKept, Key
<1>3. CASE BeginTurn /\ pending # NoRequest
  <2>1. tree' = Select(tree, pending) /\ target' = pending /\ chosen' = TRUE /\ pending' = NoRequest
    BY <1>3 DEF BeginTurn
  <2>2. /\ Len(tree') = Len(tree)
        /\ \A i \in 1 .. Len(tree) : tree'[i].node.selected = (tree[i].node.layer = pending)
    BY <1>1, <2>1, SelectKeeps
  <2>3. \E i \in 1 .. Len(tree) : tree[i].node.layer = pending
    BY <1>1, <1>3 DEF MarksAreChosen
  <2> QED
    BY <1>2, <2>1, <2>2, <2>3 DEF MarksAreChosen
<1>4. CASE ~ (BeginTurn /\ pending # NoRequest)
  <2>1. UNCHANGED <<target, chosen>>
    BY <1>4, Writers
  <2>a. MarksKept(tree, tree')
    <3>1. CASE tree' = tree
      BY <1>1, <3>1 DEF MarksKept
    <3>2. CASE \E e \in Ops : HandleEvent(e)
      <4>1. PICK e \in Ops : HandleEvent(e)
        BY <3>2
      <4>2. tree' = Update(tree, e, Len(fed')) /\ fed' = Append(fed, e)
        BY <4>1 DEF HandleEvent
      <4>3. Len(fed') \in Nat
        BY <1>1, <4>2, AppendProperties, LenProperties
      <4>4. e.layer \in Layers /\ e.cls \in OpClasses /\ e.lat \in Nat
        BY OpTypes
      <4> QED
        BY <1>1, <4>2, <4>3, <4>4, UpdateKeeps
    <3> QED
      BY <1>4, <3>1, <3>2, Writers
  <2>2. /\ \A i \in 1 .. Len(tree) : tree'[i].node.selected = tree[i].node.selected
        /\ \A i \in 1 .. Len(tree') : i > Len(tree) => tree'[i].node.selected = FALSE
    BY <2>a DEF MarksKept
  <2>3. \A i \in 1 .. Len(tree') : i \in 1 .. Len(tree) \/ i > Len(tree)
    BY <1>1, <1>2
  <2>4. \A i \in 1 .. Len(tree') :
           tree'[i].node.selected => chosen' /\ tree'[i].node.layer = target'
    BY <1>1, <1>2, <2>1, <2>2, <2>3 DEF MarksAreChosen
  <2>5. chosen' => \E i \in 1 .. Len(tree') : tree'[i].node.selected
    BY <1>1, <1>2, <2>1, <2>2 DEF MarksAreChosen
  <2>6. ASSUME pending' # NoRequest
        PROVE  \E i \in 1 .. Len(tree') : tree'[i].node.layer = pending'
    <3>1. \E i \in 1 .. Len(tree) : tree[i].node.layer = pending'
      <4>1. CASE pending' = pending
        BY <1>1, <2>6, <4>1 DEF MarksAreChosen
      <4>2. CASE BeginTurn
        BY <2>6, <4>2 DEF BeginTurn
      <4>3. CASE ResolveRow
        <5>1. pending' = ui.rows[row + 1].layer /\ row < Len(ui.rows)
          BY <4>3 DEF ResolveRow, PanesInv, ListsLagBehind
        <5>2. ui.rows \in Seq(Nodes) /\ row \in Nat /\ Len(ui.rows) \in Nat
          BY <4>3, LenProperties DEF ResolveRow, PanesInv, PanesTypes, ListsLagBehind
        <5>3. row + 1 \in 1 .. Len(ui.rows)
          BY <5>1, <5>2
        <5> DEFINE old == KeysOf(ui.rows)
                   new == KeysOf(Flatten(tree))
        <5>4. PICK g : EmbeddedBy(g, old, new)
          BY DEF PanesInv, ListsLagBehind, Embeds
        <5>5. /\ Len(old) = Len(ui.rows) /\ old[row + 1] = Key(ui.rows[row + 1])
              /\ Len(new) = Len(Flatten(tree))
              /\ \A p \in 1 .. Len(Flatten(tree)) : new[p] = Key(Flatten(tree)[p])
          BY <1>1, <5>2, <5>3, FlattenRows, KeysOfRows
        <5>6. g[row + 1] \in 1 .. Len(Flatten(tree)) /\ new[g[row + 1]] = old[row + 1]
          BY <5>3, <5>4, <5>5 DEF EmbeddedBy
        <5>7. Flatten(tree)[g[row + 1]].layer = pending'
          BY <5>1, <5>5, <5>6 DEF Key
        <5> QED
          BY <1>1, <5>6, <5>7, FlattenLayers
      <4> QED
        BY <4>1, <4>2, <4>3, Writers
    <3> QED
      BY <1>2, <3>1
  <2> QED
    BY <2>4, <2>5, <2>6 DEF MarksAreChosen
<1> QED
  BY <1>3, <1>4
-----------------------------------------------------------------------------
(* The theorems.                                                           *)

(* The invariant holds at the start: nothing has been handled or drawn.    *)
LEMMA PanesInit == Init => PanesInv
<1> SUFFICES ASSUME Init PROVE PanesInv
  OBVIOUS
<1>1. /\ fed = <<>> /\ tree = <<>> /\ target = 0 /\ chosen = FALSE /\ pending = NoRequest
      /\ pan = [row |-> 0, col |-> 0] /\ upc = "keys" /\ row = 0 /\ seen.rows = <<>>
      /\ DOMAIN ui = {"stream", "total", "rows", "selected", "metrics", "anomalies", "attention"}
      /\ ui.rows = <<>> /\ ui.selected = 0 /\ ui.attention = NoMatrix
  BY DEF Init
<1>2. /\ <<>> \in Seq(Ops) /\ <<>> \in Seq(Buckets) /\ <<>> \in Seq(Nodes)
      /\ <<>> \in Seq(Layers \X Labels) /\ Len(<<>>) = 0
  BY EmptySeq
<1>3. PanesTypes
  BY <1>1, <1>2 DEF PanesTypes, Layers
<1>4. TreeHoldsItsOps(tree) /\ MarksAreChosen
  BY <1>1, <1>2 DEF TreeHoldsItsOps, MarksAreChosen
<1>5. KeysOf(ui.rows) = <<>>
  BY <1>1, <1>2 DEF KeysOf
<1>6. Flatten(tree) = <<>>
  BY <1>1, <1>2 DEF Flatten, FlattenSeq
<1>7. KeysOf(Flatten(tree)) = <<>>
  BY <1>2, <1>6 DEF KeysOf
<1>8. Embeds(<<>>, <<>>)
  BY <1>2, EmbedsSelf
<1>9. ListsLagBehind
  BY <1>1, <1>5, <1>7, <1>8 DEF ListsLagBehind
<1>10. CursorInList
  <2>1. Max({0, -1}) = 0
    BY CursorTypes
  <2> QED
    BY <1>1, <1>2, <2>1 DEF CursorInList
<1> QED
  BY <1>3, <1>4, <1>9, <1>10 DEF PanesInv

(* And at every step.                                                      *)
THEOREM PanesNext == PanesInv /\ [Next]_vars => PanesInv'
<1> SUFFICES ASSUME PanesInv, [Next]_vars PROVE PanesInv'
  OBVIOUS
<1>1. TreeHoldsItsOps(tree')
  BY TreeNext DEF PanesInv
<1> QED
  BY <1>1, TypesNext, ListsNext, CursorNext, MarksNext DEF PanesInv

(* So it is an invariant.                                                  *)
THEOREM PanesInvariant == Spec => []PanesInv
BY PanesInit, PanesNext, PTL DEF Spec

(* Of the panning of the view: what is in view lies inside the matrix and  *)
(* fills the viewport, or shows the whole matrix.                          *)
LEMMA ViewInMatrix ==
    ASSUME NEW want \in Nat, NEW size \in Nat \ {0}, NEW view \in Nat \ {0}
    PROVE  /\ View(want, size, view) \subseteq 0 .. (size - 1)
           /\ Cardinality(View(want, size, view)) = Min({size, view})
<1> DEFINE part == Min({size, view})
           slack == Max({0, size - part})
           first == Min({want, slack})
<1>1. part \in Nat \ {0} /\ part <= size /\ part = IF size <= view THEN size ELSE view
  BY MinOfTwo
<1> HIDE DEF part
<1>2. slack = size - part /\ slack \in Nat
  BY <1>1, MaxOfTwo
<1> HIDE DEF slack
<1>3. first \in Nat /\ first <= slack
  BY <1>2, MinOfTwo
<1>4. View(want, size, view) = first .. (first + part - 1)
  BY DEF View, First, part, slack
<1> HIDE DEF first
<1>5. first + part - 1 \in Int /\ first + part - 1 <= size - 1 /\ first <= first + part - 1
  BY <1>1, <1>2, <1>3
<1>6. first .. (first + part - 1) \subseteq 0 .. (size - 1)
  BY <1>1, <1>3, <1>5
<1>7. Cardinality(first .. (first + part - 1)) = part
  <2>1. Cardinality(first .. (first + part - 1)) = (first + part - 1) - first + 1
    BY <1>3, <1>5, FS_Interval
  <2> QED
    BY <1>1, <1>3, <2>1
<1> QED
  BY <1>4, <1>6, <1>7 DEF part

(* ViewWithinData: whatever is pressed and whichever matrix comes, the     *)
(* cursor is on a row and the view on the matrix (ui_state.hpp, app.cpp).  *)
THEOREM PanesViewWithinData == Spec => []ViewWithinData
<1>1. PanesInv => ViewWithinData
  <2> SUFFICES ASSUME PanesInv PROVE ViewWithinData
    OBVIOUS
  <2>1. ui.selected \in 0 .. Max({0, Len(ui.rows) - 1})
    BY DEF PanesInv, CursorInList
  <2>2. ASSUME ui.attention # NoMatrix
        PROVE  /\ ui.attention.rows \in Nat \ {0} /\ ui.attention.cols \in Nat \ {0}
               /\ pan.row \in Nat /\ pan.col \in Nat
    BY <2>2, PanesAssumption DEF PanesInv, PanesTypes, PanesAssumption
  <2>3. ViewRows \in Nat \ {0} /\ ViewCols \in Nat \ {0}
    BY PanesAssumption DEF PanesAssumption
  <2> QED
    BY <2>1, <2>2, <2>3, ViewInMatrix DEF ViewWithinData
<1> QED
  BY <1>1, PanesInvariant, PTL

(* A finite set of places can be put in the order of the flamegraph.       *)
LEMMA FlameOrderIs ==
    ASSUME NEW rows \in Seq(Nodes), NEW places \in SUBSET DOMAIN rows, NEW o,
           o = FlameOrder(rows, places)
    PROVE  /\ o \in Seq(places) /\ Range(o) = places
           /\ \A i, j \in 1 .. Len(o) : i < j => FlameBefore(rows, o[i], o[j])
<1> DEFINE R == {p \in places \X places : FlameBefore(rows, p[1], p[2])}
           InOrder(t) == \A i, j \in DOMAIN t : i < j => FlameBefore(rows, t[i], t[j])
<1>1. /\ Len(rows) \in Nat /\ DOMAIN rows = 1 .. Len(rows)
      /\ \A i \in DOMAIN rows : rows[i] \in Nodes
  BY LenProperties, ElementOfSeq
<1>2. IsFiniteSet(places)
  <2>1. IsFiniteSet(1 .. Len(rows))
    BY <1>1, FS_Interval
  <2> QED
    BY <1>1, <2>1, FS_Subset
<1>3. \A i \in places : /\ i \in Nat /\ rows[i].latency \in Nat
                        /\ LabelRank(rows[i]) \in Int
  <2>1. ASSUME NEW i \in places
        PROVE  i \in Nat /\ rows[i].latency \in Nat /\ rows[i].layer \in Int
    BY <1>1 DEF Nodes, Layers
  <2>2. ASSUME NEW i \in places
        PROVE  LabelRank(rows[i]) \in Int
    BY <2>1 DEF LabelRank
  <2> QED
    BY <2>1, <2>2
<1>4. \A i, j \in places : <<i, j>> \in R <=> FlameBefore(rows, i, j)
  OBVIOUS
<1> HIDE DEF R
<1>5. Orders(R, places)
  <2> DEFINE Earlier(a, b, c, d, e, f) ==
               a > d \/ (a = d /\ b < e) \/ (a = d /\ b = e /\ c < f)
  <2>1. \A a, d \in Nat, b, e \in Int, c, f \in Nat :
          c # f => Earlier(a, b, c, d, e, f) \/ Earlier(d, e, f, a, b, c)
    OBVIOUS
  <2>2. \A a, d, g \in Nat, b, e, h \in Int, c, f, k \in Nat :
          Earlier(a, b, c, d, e, f) /\ Earlier(d, e, f, g, h, k) => Earlier(a, b, c, g, h, k)
    OBVIOUS
  <2>3. \A i, j \in places :
          FlameBefore(rows, i, j) <=>
            Earlier(rows[i].latency, LabelRank(rows[i]), i, rows[j].latency, LabelRank(rows[j]), j)
    BY DEF FlameBefore
  <2> HIDE DEF Earlier
  <2>4. \A i, j \in places : i # j => FlameBefore(rows, i, j) \/ FlameBefore(rows, j, i)
    BY <1>3, <2>1, <2>3
  <2>5. \A i, j, k \in places :
          FlameBefore(rows, i, j) /\ FlameBefore(rows, j, k) => FlameBefore(rows, i, k)
    BY <1>3, <2>2, <2>3
  <2> QED
    BY <1>4, <2>4, <2>5 DEF Orders
<1>6. PICK t \in SetToSeqs(places) :
        \A i, j \in 1 .. Cardinality(places) : i < j => <<t[i], t[j]>> \in R
  BY <1>2, <1>5, Sortable
<1>7. /\ DOMAIN t = 1 .. Cardinality(places)
      /\ \A i \in DOMAIN t : t[i] \in places
  BY <1>2, <1>6, Listed, ElementOfSeq
<1>8. InOrder(t)
  BY <1>4, <1>6, <1>7
<1>9. o = CHOOSE u \in SetToSeqs(places) : InOrder(u)
  BY DEF FlameOrder
<1> HIDE DEF InOrder
<1>10. o \in SetToSeqs(places) /\ InOrder(o)
  BY <1>6, <1>8, <1>9
<1>11. /\ o \in Seq(places) /\ Range(o) = places
       /\ Len(o) = Cardinality(places) /\ DOMAIN o = 1 .. Cardinality(places)
  BY <1>2, <1>10, Listed
<1> QED
  BY <1>10, <1>11 DEF InOrder

(* What the flamegraph shows of the rows.                                  *)
FlamesShow(rows, limit, flames) ==
    /\ flames \in Seq(Nodes)
    /\ \A i \in 1 .. Len(flames) : flames[i].latency > 0
    /\ \A i, j \in 1 .. Len(flames) : i < j => flames[i].latency >= flames[j].latency
    /\ \A r \in Range(rows) :
         IsLayerRow(r) /\ r.latency > 0 /\ r \notin Range(flames) =>
             Len(flames) = limit /\ r.latency <= flames[limit].latency

LEMMA FlameRowsShow ==
    ASSUME NEW rows \in Seq(Nodes), NEW limit \in Nat \ {0}
    PROVE  FlamesShow(rows, limit, FlameRows(rows, limit))
<1> DEFINE o == FlameOrder(rows, Timed(rows))
           m == Min({limit, Len(o)})
           flames == [k \in 1 .. m |-> rows[o[k]]]
<1>1. /\ Len(rows) \in Nat /\ DOMAIN rows = 1 .. Len(rows)
      /\ \A i \in DOMAIN rows : rows[i] \in Nodes /\ rows[i].latency \in Nat
      /\ Range(rows) = {rows[i] : i \in DOMAIN rows}
  <2>1. Len(rows) \in Nat /\ DOMAIN rows = 1 .. Len(rows)
    BY LenProperties
  <2>2. \A i \in DOMAIN rows : rows[i] \in Nodes
    BY <2>1, ElementOfSeq
  <2>3. \A x \in Nodes : x.latency \in Nat
    BY DEF Nodes
  <2> QED
    BY <2>1, <2>2, <2>3 DEF Range
<1>2. \A i : i \in Timed(rows) <=>
               i \in DOMAIN rows /\ IsLayerRow(rows[i]) /\ rows[i].latency > 0
  BY DEF Timed
<1>3. FlameRows(rows, limit) = flames
  BY DEF FlameRows
<1>4. /\ o \in Seq(Timed(rows)) /\ Range(o) = Timed(rows)
      /\ \A i, j \in 1 .. Len(o) : i < j => FlameBefore(rows, o[i], o[j])
  <2>1. Timed(rows) \in SUBSET DOMAIN rows
    BY <1>2
  <2> QED
    BY <2>1, FlameOrderIs
<1> HIDE DEF o
<1>5. /\ Len(o) \in Nat /\ \A k \in 1 .. Len(o) : o[k] \in Timed(rows)
      /\ Timed(rows) = {o[k] : k \in 1 .. Len(o)}
  BY <1>4, LenProperties, ElementOfSeq, RangeEquality
<1>6. m \in Nat /\ m <= limit /\ m <= Len(o) /\ (m = limit \/ m = Len(o))
  BY <1>5, MinOfTwo
<1> HIDE DEF m
<1>7. /\ DOMAIN flames = 1 .. m
      /\ \A k \in 1 .. m : /\ k \in 1 .. Len(o) /\ flames[k] = rows[o[k]]
                           /\ flames[k] \in Nodes /\ flames[k].latency > 0
                           /\ flames[k].latency \in Nat
  BY <1>1, <1>2, <1>5, <1>6
<1>8. flames \in Seq(Nodes) /\ Len(flames) = m
  <2>1. flames \in [1 .. m -> Nodes]
    BY <1>7
  <2> HIDE DEF flames
  <2> QED
    BY <1>6, <2>1, SeqDef, LenProperties
<1> HIDE DEF flames
<1>9. \A i, j \in 1 .. Len(o) : i < j => rows[o[i]].latency >= rows[o[j]].latency
  <2>1. \A i \in 1 .. Len(o) : rows[o[i]].latency \in Nat
    BY <1>1, <1>2, <1>5
  <2>2. SUFFICES ASSUME NEW i \in 1 .. Len(o), NEW j \in 1 .. Len(o), i < j
                 PROVE  rows[o[i]].latency >= rows[o[j]].latency
    OBVIOUS
  <2>3. \/ rows[o[i]].latency > rows[o[j]].latency
        \/ rows[o[i]].latency = rows[o[j]].latency
    BY <1>4, <2>2 DEF FlameBefore
  <2> QED
    BY <2>1, <2>3
<1>10. ASSUME NEW r \in Range(rows), IsLayerRow(r), r.latency > 0, r \notin Range(flames)
       PROVE  Len(flames) = limit /\ r.latency <= flames[limit].latency
  <2>1. PICK i \in DOMAIN rows : r = rows[i]
    BY <1>1
  <2>2. i \in Timed(rows)
    BY <1>2, <1>10, <2>1
  <2>3. PICK k \in 1 .. Len(o) : i = o[k]
    BY <1>5, <2>2
  <2>4. ~ k \in 1 .. m
    <3>1. Range(flames) = {flames[q] : q \in 1 .. m}
      BY <1>7 DEF Range
    <3> QED
      BY <1>7, <1>10, <2>1, <2>3, <3>1
  <2>5. m = limit /\ limit < k /\ limit \in 1 .. Len(o) /\ limit \in 1 .. m
    BY <1>5, <1>6, <2>4
  <2>6. rows[o[limit]].latency >= rows[o[k]].latency
    BY <1>9, <2>5
  <2>7. rows[o[limit]].latency \in Nat /\ rows[o[k]].latency \in Nat
    BY <1>1, <1>2, <1>5, <2>5
  <2>8. r.latency <= rows[o[limit]].latency
    BY <2>1, <2>3, <2>6, <2>7
  <2> QED
    BY <1>7, <1>8, <2>5, <2>8
<1>11. \A i, j \in 1 .. Len(flames) : i < j => flames[i].latency >= flames[j].latency
  BY <1>7, <1>8, <1>9
<1>12. \A i \in 1 .. Len(flames) : flames[i].latency > 0
  BY <1>7, <1>8
<1> QED
  BY <1>3, <1>8, <1>10, <1>11, <1>12 DEF FlamesShow

(* A bar is never empty, nor longer than its place, and the longest is     *)
(* full.                                                                   *)
LEMMA BarFits ==
    ASSUME NEW value \in Nat \ {0}, NEW max \in Nat \ {0}, value <= max
    PROVE  /\ FlameBar(value, max, 24) \in 1 .. 24
           /\ value = max => FlameBar(value, max, 24) = 24
<1> DEFINE n == 1000 * max
           a == 1000 * value * 24 + 999 * max
           filled == a \div n
<1>1. n \in Nat \ {0} /\ a \in Int
  OBVIOUS
<1>2. filled \in Int /\ a % n \in 0 .. (n - 1) /\ a = n * filled + (a % n)
  <2> HIDE DEF n, a
  <2> QED
    BY <1>1, DivMod
<1>3. FlameBar(value, max, 24) = IF filled = 0 THEN 1 ELSE IF filled > 24 THEN 24 ELSE filled
  BY DEF FlameBar
<1>4. filled >= 0
  <2>1. a >= 0
    OBVIOUS
  <2> HIDE DEF a, filled
  <2>2. ASSUME filled < 0 PROVE FALSE
    <3>1. n * 0 >= n * filled + n
      BY <1>1, <1>2, <2>2, MultiplesApart
    <3>2. n * filled \in Int /\ a % n < n
      BY <1>1, <1>2
    <3> HIDE DEF n
    <3> QED
      BY <1>1, <1>2, <2>1, <3>1, <3>2
  <2> QED
    BY <1>2, <2>2
<1>5. value = max => filled = 24
  <2>1. ASSUME value = max PROVE a = n * 24 + 999 * max /\ 999 * max \in 0 .. (n - 1)
    BY <2>1
  <2> HIDE DEF filled, a
  <2>2. ASSUME value = max PROVE n * filled + (a % n) = n * 24 + 999 * max
    BY <1>2, <2>1, <2>2
  <2> HIDE DEF n
  <2> QED
    BY <1>1, <1>2, <2>1, <2>2, DivUnique
<1> HIDE DEF filled
<1>6. FlameBar(value, max, 24) \in 1 .. 24
  BY <1>2, <1>3, <1>4
<1> QED
  BY <1>3, <1>5, <1>6

(* FlamesAreSlowest: the flamegraph shows the slowest buckets, the slowest *)
(* first with a full bar (latency_flamegraph.hpp).                         *)
THEOREM PanesFlamesAreSlowest == Spec => []FlamesAreSlowest
<1>1. ASSUME PanesInv
      PROVE  FlamesAreSlowest
  <2>1. ui.rows \in Seq(Nodes) /\ FlameLimit \in Nat \ {0}
    BY <1>1, PanesAssumption DEF PanesInv, PanesTypes, PanesAssumption
  <2>2. FlamesShow(ui.rows, FlameLimit, Flame)
    BY <2>1, FlameRowsShow DEF Flame
  <2> HIDE DEF Flame
  <2>3. Flame \in Seq(Nodes)
    BY <2>2 DEF FlamesShow
  <2>4. /\ DOMAIN Flame = 1 .. Len(Flame) /\ Len(Flame) \in Nat
        /\ \A i \in 1 .. Len(Flame) : Flame[i].latency \in Nat \ {0}
    <3>1. DOMAIN Flame = 1 .. Len(Flame) /\ Len(Flame) \in Nat
      BY <2>3, LenProperties
    <3>2. \A i \in 1 .. Len(Flame) : Flame[i] \in Nodes
      BY <2>3, ElementOfSeq
    <3>3. \A i \in 1 .. Len(Flame) : Flame[i].latency > 0
      BY <2>2 DEF FlamesShow
    <3> QED
      BY <3>1, <3>2, <3>3 DEF Nodes
  <2>5. ASSUME NEW i \in 1 .. Len(Flame)
        PROVE  /\ FlameBar(Flame[i].latency, Flame[1].latency, BarWidth) \in 1 .. BarWidth
               /\ i = 1 => FlameBar(Flame[i].latency, Flame[1].latency, BarWidth) = BarWidth
    <3>1. 1 \in 1 .. Len(Flame) /\ (i = 1 \/ 1 < i)
      BY <2>4
    <3>2. Flame[i].latency <= Flame[1].latency
      BY <2>2, <2>4, <3>1 DEF FlamesShow
    <3>3. Flame[i].latency \in Nat \ {0} /\ Flame[1].latency \in Nat \ {0}
      BY <2>4, <3>1
    <3> QED
      BY <3>2, <3>3, BarFits DEF BarWidth
  <2> QED
    BY <2>2, <2>4, <2>5 DEF FlamesAreSlowest, FlamesShow
<1> QED
  BY <1>1, PanesInvariant, PTL

(* MarkFollowsTarget: once the user has chosen, the marked buckets are     *)
(* those of the target layer (topology.cpp select, main.cpp 178-183).      *)
THEOREM PanesMarkFollowsTarget == Spec => []MarkFollowsTarget
<1>1. PanesInv => MarkFollowsTarget
  <2> SUFFICES ASSUME PanesInv, chosen
               PROVE  LET marked == {i \in DOMAIN tree : tree[i].node.selected}
                      IN  /\ marked # {}
                          /\ \A i \in marked : tree[i].node.layer = target
                          /\ target >= 0 => Cardinality(marked) = 1
    BY DEF MarkFollowsTarget
  <2>1. tree \in Seq(Buckets) /\ DOMAIN tree = 1 .. Len(tree) /\ target \in Layers
    BY LenProperties DEF PanesInv, PanesTypes
  <2> DEFINE marked == {i \in DOMAIN tree : tree[i].node.selected}
  <2>2. PICK i \in marked : TRUE
    BY <2>1 DEF PanesInv, MarksAreChosen
  <2>3. \A k \in marked : tree[k].node.layer = target
    BY <2>1 DEF PanesInv, MarksAreChosen
  <2>4. ASSUME target >= 0, NEW k \in marked PROVE k = i
    <3>1. \A m \in marked : tree[m].node.label = <<"layers", target>>
      <4>1. \A m \in marked : \E c \in OpClasses : tree[m].node.label = Label(target, c)
        BY <2>1, <2>3 DEF PanesInv, TreeHoldsItsOps
      <4> QED
        BY <2>1, <2>4, <4>1, LabelType
    <3>2. Key(tree[k].node) = Key(tree[i].node)
      BY <2>2, <2>3, <2>4, <3>1 DEF Key
    <3> QED
      BY <2>1, <2>2, <2>4, <3>2 DEF PanesInv, TreeHoldsItsOps
  <2>5. target >= 0 => marked = {i}
    BY <2>2, <2>4
  <2>6. target >= 0 => Cardinality(marked) = 1
    <3> HIDE DEF marked
    <3> QED
      BY <2>5, FS_Singleton
  <2> QED
    BY <2>2, <2>3, <2>6
<1> QED
  BY <1>1, PanesInvariant, PTL

(* RowsOnlyInserted: a refresh puts rows in and takes none out, and gives  *)
(* none twice (topology.cpp flatten, ui_state.hpp set_topology).           *)
THEOREM PanesRowsOnlyInserted == Spec => RowsOnlyInserted
<1>1. PanesInv /\ [Next]_vars => [OnlyInserted(KeysOf(ui.rows), KeysOf(ui.rows'))]_(ui.rows)
  <2> SUFFICES ASSUME PanesInv, [Next]_vars, ui.rows' # ui.rows
               PROVE  OnlyInserted(KeysOf(ui.rows), KeysOf(ui.rows'))
    OBVIOUS
  <2>1. /\ DOMAIN ui = UiNames /\ ui.rows \in Seq(Nodes) /\ tree \in Seq(Buckets)
        /\ TreeHoldsItsOps(tree) /\ ui.attention \in Matrices \cup {NoMatrix}
    BY DEF PanesInv, PanesTypes, UiNames
  <2>2. ui.rows' = Flatten(tree)
    BY <2>1, UiNext, UiAfterRefresh
  <2> DEFINE old == KeysOf(ui.rows)
             new == KeysOf(Flatten(tree))
  <2>3. IsInjective(new)
    BY <2>1, FlattenInjective
  <2>4. PICK g : EmbeddedBy(g, old, new)
    BY DEF PanesInv, ListsLagBehind, Embeds
  <2>5. Len(old) \in Nat /\ Len(new) \in Nat
    BY <2>1, FlattenRows, KeysOfRows, LenProperties
  <2> HIDE DEF old, new
  <2>6. ASSUME NEW i \in 1 .. Len(old), NEW j \in (i + 1) .. Len(old)
        PROVE  \E l \in (g[i] + 1) .. Len(new) : new[l] = old[j]
    <3>1. j \in 1 .. Len(old) /\ i < j
      BY <2>5
    <3>2. g[i] \in 1 .. Len(new) /\ g[j] \in 1 .. Len(new) /\ g[i] < g[j] /\ new[g[j]] = old[j]
      BY <2>4, <3>1 DEF EmbeddedBy
    <3>3. g[j] \in (g[i] + 1) .. Len(new)
      BY <2>5, <3>2
    <3> QED
      BY <3>2, <3>3
  <2>7. \A i \in 1 .. Len(old) : g[i] \in 1 .. Len(new) /\ new[g[i]] = old[i]
    BY <2>4 DEF EmbeddedBy
  <2>8. OnlyInserted(old, new)
    BY <2>3, <2>6, <2>7 DEF OnlyInserted
  <2> QED
    BY <2>2, <2>8 DEF old, new
<1> QED
  BY <1>1, PanesInvariant, PTL DEF Spec, RowsOnlyInserted

(* WrongOnlyByRowAbove: if all rows down to the cursor's were on the       *)
(* screen, the row resolved is the one the frame showed under the cursor,  *)
(* for any number of rows that have come below (main.cpp 594-599).         *)
THEOREM PanesWrongOnlyByRowAbove == Spec => WrongOnlyByRowAbove
<1>1. PanesInv /\ [Next]_vars =>
        [PressedAsShown /\ upc' = "keys" /\ pending' # Highlighted
           => \E i \in 1 .. (row + 1) : Key(ui.rows[i]) \notin Range(seen.rows)]_upc
  <2> SUFFICES ASSUME PanesInv, [Next]_vars, upc = "resolve", row < Len(seen.rows),
                      upc' = "keys",
                      \A i \in 1 .. (row + 1) : Key(ui.rows[i]) \in Range(seen.rows)
               PROVE  pending' = Highlighted
    BY DEF PressedAsShown
  <2> DEFINE shown == KeysOf(ui.rows)
  <2>1. ResolveRow
    BY Writers DEF MoveCursor, SetCursor, PressSpace, CheckSize, Quit
  <2>2. /\ ui.rows \in Seq(Nodes) /\ row \in Nat /\ row < Len(ui.rows)
        /\ seen.rows \in Seq(Layers \X Labels) /\ Embeds(seen.rows, shown)
        /\ tree \in Seq(Buckets) /\ TreeHoldsItsOps(tree) /\ Embeds(shown, KeysOf(Flatten(tree)))
    BY DEF PanesInv, PanesTypes, ListsLagBehind
  <2>3. /\ shown \in Seq(Layers \X Labels) /\ Len(shown) = Len(ui.rows) /\ Len(ui.rows) \in Nat
        /\ DOMAIN shown = 1 .. Len(shown) /\ Len(seen.rows) \in Nat
        /\ \A i \in 1 .. Len(ui.rows) : shown[i] = Key(ui.rows[i])
    BY <2>2, KeysOfRows, LenProperties
  <2>4. IsInjective(shown)
    <3> DEFINE all == KeysOf(Flatten(tree))
    <3>1. PICK h : EmbeddedBy(h, shown, all)
      BY <2>2 DEF Embeds
    <3>2. IsInjective(all) /\ DOMAIN all = 1 .. Len(all)
      BY <2>2, FlattenInjective, FlattenRows, KeysOfRows
    <3> HIDE DEF all, shown
    <3>3. ASSUME NEW i \in 1 .. Len(shown), NEW j \in 1 .. Len(shown), shown[i] = shown[j]
          PROVE  i = j
      <4>1. h[i] \in 1 .. Len(all) /\ h[j] \in 1 .. Len(all) /\ all[h[i]] = all[h[j]]
        BY <3>1, <3>3 DEF EmbeddedBy
      <4>2. h[i] = h[j]
        BY <3>2, <4>1 DEF IsInjective
      <4>3. ~ i < j /\ ~ j < i
        BY <3>1, <4>1, <4>2 DEF EmbeddedBy
      <4> QED
        BY <2>3, <4>3
    <3> QED
      BY <2>3, <3>3 DEF IsInjective
  <2>5. row + 1 \in 1 .. Len(seen.rows) /\ row + 1 \in 1 .. Len(ui.rows)
    BY <2>2, <2>3
  <2>6. \A i \in 1 .. (row + 1) : shown[i] \in Range(seen.rows)
    BY <2>2, <2>3, <2>5
  <2>7. shown[row + 1] = seen.rows[row + 1]
    <3> HIDE DEF shown
    <3> QED
      BY <2>2, <2>3, <2>4, <2>5, <2>6, EmbedsPrefix
  <2>8. pending' = ui.rows[row + 1].layer
    BY <2>1 DEF ResolveRow
  <2> QED
    BY <2>3, <2>5, <2>7, <2>8 DEF Key, Highlighted
<1> QED
  BY <1>1, PanesInvariant, PTL DEF Spec, WrongOnlyByRowAbove
-----------------------------------------------------------------------------
(***************************************************************************)
(* What the panes tell.  The tree has the latencies of all the events; a   *)
(* bucket or an op that is not in it yet has had none, so that a new one   *)
(* may begin at zero.  The ledgers are one event behind while it is        *)
(* inspected; the detector remembers the nodes of each rule whose reports  *)
(* may be gone from them.                                                  *)
(***************************************************************************)
TreeTells(t, events) ==
    /\ \A i \in 1 .. Len(t) :
         t[i].node.latency = LatencyOf(events, OfBucket(t[i].node.label))
    /\ \A i \in 1 .. Len(t) : \A j \in 1 .. Len(t[i].ops) :
         t[i].ops[j].latency = LatencyOf(events, OfOp(t[i].node.label, t[i].ops[j].label))
    /\ \A e \in Ops :
         LET label == Label(e.layer, e.cls)
         IN  /\ (\A i \in 1 .. Len(t) : t[i].node.label # label)
                  => LatencyOf(events, OfBucket(label)) = 0
             /\ (\A i \in 1 .. Len(t) : t[i].node.label = label =>
                    \A j \in 1 .. Len(t[i].ops) : t[i].ops[j].label # <<e.cls>>)
                  => LatencyOf(events, OfOp(label, <<e.cls>>)) = 0

NodesOf(events, rule) ==
    {NodeName(events[k]) : k \in {k \in 1 .. Len(events) : Rule(events[k]) = rule}}

LedgersTell(events) ==
    /\ detector.ledger = LastN(Reports(events), LedgerCap)
    /\ DOMAIN detector.seen = {"outlier", "cpu"}
    /\ \A rule \in {"outlier", "cpu"} : detector.seen[rule] = NodesOf(events, rule)
    /\ ui.anomalies = LastN(Reports(events), AnomalyCap)

Ids(events) == [k \in 1 .. Len(events) |-> k]

EventsTold ==
    /\ ui.total = Len(fed)
    /\ ui.stream = LastN(Ids(fed), StreamCap)
    /\ TreeTells(tree, fed)
    /\ cpc = "inspect" => fed # <<>>
    /\ LedgersTell(IF cpc = "inspect" THEN Front(fed) ELSE fed)
-----------------------------------------------------------------------------
(* Sums over the events.                                                   *)

(* The function LatencyOf takes its value from.                            *)
SumsUp(f, events, S) ==
    /\ f \in [0 .. Len(events) -> Nat] /\ f[0] = 0
    /\ \A k \in 1 .. Len(events) :
          f[k] = f[k - 1] + (IF events[k] \in S THEN events[k].lat ELSE 0)

LEMMA LatencyFunction ==
    ASSUME NEW events \in Seq(Ops), NEW S
    PROVE  \E f : SumsUp(f, events, S) /\ LatencyOf(events, S) = f[Len(events)]
<1> DEFINE n == Len(events)
           Of(k) == IF events[k] \in S THEN events[k].lat ELSE 0
           step == [k \in 1 .. n |-> [m \in Nat |-> m + Of(k)]]
           sum == CHOOSE g : g = [k \in 0 .. n |-> IF k = 0 THEN 0 ELSE g[k - 1] + Of(k)]
<1>1. n \in Nat /\ \A k \in 1 .. n : Of(k) \in Nat
  <2>1. n \in Nat /\ \A k \in 1 .. n : events[k] \in Ops
    BY LenProperties, ElementOfSeq
  <2> QED
    BY <2>1, OpTypes
<1>2. LatencyOf(events, S) = sum[n]
  BY DEF LatencyOf
<1> HIDE DEF Of, n
<1>3. step \in [1 .. n -> [Nat -> Nat]]
  BY <1>1
<1>a. PICK f : Iterates(f, Nat, 0, n, step)
  <2>1. 0 \in Nat
    OBVIOUS
  <2> HIDE DEF step, sum
  <2> QED
    BY <1>1, <1>3, <2>1, Recursion
<1>4. f \in [0 .. n -> Nat] /\ f[0] = 0 /\ \A k \in 1 .. n : f[k] = step[k][f[k - 1]]
  <2> HIDE DEF step, sum
  <2> QED
    BY <1>a DEF Iterates
<1>5. \A k \in 1 .. n : k - 1 \in 0 .. n /\ k \in 0 .. n /\ k # 0
  BY <1>1
<1>6. \A k \in 1 .. n : f[k] = f[k - 1] + Of(k)
  <2>1. \A k \in 1 .. n : f[k - 1] \in Nat
    BY <1>4, <1>5
  <2> QED
    BY <1>4, <2>1
<1>7. f = [k \in 0 .. n |-> IF k = 0 THEN 0 ELSE f[k - 1] + Of(k)]
  <2>1. \A k \in 0 .. n : k = 0 \/ k \in 1 .. n
    BY <1>1
  <2>2. \A k \in 0 .. n : f[k] = IF k = 0 THEN 0 ELSE f[k - 1] + Of(k)
    BY <1>4, <1>6, <2>1
  <2> QED
    BY <1>4, <2>2
<1>8. sum = [k \in 0 .. n |-> IF k = 0 THEN 0 ELSE sum[k - 1] + Of(k)]
  BY <1>7
<1> HIDE DEF sum
<1>9. 0 \in 0 .. n /\ n \in 0 .. n
  BY <1>1
<1>10. sum[n] = f[n]
  <2>1. sum[0] = f[0]
    BY <1>4, <1>8, <1>9
  <2>2. \A k \in 1 .. n : sum[k - 1] = f[k - 1] => sum[k] = f[k]
    BY <1>5, <1>6, <1>8
  <2> QED
    BY <1>1, <2>1, <2>2, RecursionAgrees
<1> QED
  BY <1>2, <1>4, <1>6, <1>10 DEF n, Of, SumsUp

(* It is a sum: none at first, and that of one more event.                 *)
LEMMA LatencyAdds ==
    ASSUME NEW events \in Seq(Ops), NEW S, NEW e \in Ops
    PROVE  /\ LatencyOf(<<>>, S) = 0 /\ LatencyOf(events, S) \in Nat
           /\ LatencyOf(Append(events, e), S)
                = LatencyOf(events, S) + (IF e \in S THEN e.lat ELSE 0)
<1>2. PICK f : SumsUp(f, events, S) /\ LatencyOf(events, S) = f[Len(events)]
  BY LatencyFunction
<1> DEFINE n == Len(events)
           more == Append(events, e)
<1>1. n \in Nat /\ more \in Seq(Ops) /\ Len(more) = n + 1
      /\ (\A k \in 1 .. n : more[k] = events[k]) /\ more[n + 1] = e
  BY AppendProperties, LenProperties
<1> HIDE DEF more
<1>a. /\ f \in [0 .. n -> Nat] /\ LatencyOf(events, S) = f[n] /\ f[0] = 0
      /\ \A k \in 1 .. n : f[k] = f[k - 1] + (IF events[k] \in S THEN events[k].lat ELSE 0)
  BY <1>2 DEF SumsUp
<1> HIDE DEF n
<1>3. PICK g : SumsUp(g, more, S) /\ LatencyOf(more, S) = g[Len(more)]
  BY <1>1, LatencyFunction
<1>b. /\ LatencyOf(more, S) = g[n + 1] /\ g[0] = 0
      /\ \A k \in 1 .. (n + 1) :
            g[k] = g[k - 1] + (IF more[k] \in S THEN more[k].lat ELSE 0)
  BY <1>1, <1>3 DEF SumsUp
<1>4. \A k \in 1 .. n : k \in 1 .. (n + 1)
  BY <1>1
<1>5. g[n] = f[n]
  <2>1. \A k \in 1 .. n : g[k - 1] = f[k - 1] => g[k] = f[k]
    BY <1>1, <1>a, <1>b, <1>4
  <2>2. g[0] = f[0]
    BY <1>a, <1>b
  <2> QED
    BY <1>1, <2>1, <2>2, RecursionAgrees
<1>6. n + 1 \in 1 .. (n + 1) /\ (n + 1) - 1 = n /\ n \in 0 .. n
  BY <1>1
<1>7. g[n + 1] = g[n] + (IF e \in S THEN e.lat ELSE 0)
  BY <1>1, <1>b, <1>6
<1>8. LatencyOf(<<>>, S) = 0
  <2>1. <<>> \in Seq(Ops) /\ Len(<<>>) = 0
    BY EmptySeq
  <2> DEFINE none == <<>>
  <2> HIDE DEF none
  <2>2. none \in Seq(Ops) /\ Len(none) = 0
    BY <2>1 DEF none
  <2>3. PICK h : SumsUp(h, none, S) /\ LatencyOf(none, S) = h[Len(none)]
    BY <2>2, LatencyFunction
  <2> QED
    BY <2>2, <2>3 DEF none, SumsUp
<1>9. LatencyOf(events, S) \in Nat
  BY <1>a, <1>6
<1> QED
  BY <1>a, <1>b, <1>5, <1>7, <1>8, <1>9 DEF more
-----------------------------------------------------------------------------
(* Reports of the events.                                                  *)
RuleNames == {"nan", "inf", "outlier", "cpu"}
ReportLists == Seq(Nat \X RuleNames)

(* The first rule that holds, or none.                                     *)
LEMMA RuleType ==
    ASSUME NEW e
    PROVE  Rule(e) \in RuleNames \cup {"none"}
<1> DEFINE I == {i \in 1 .. Len(Rules) : Rules[i] \in Signs(e)}
           i == IF I # {} THEN Min(I) ELSE 0
<1>1. Rule(e) = IF i = 0 THEN "none" ELSE Rules[i]
  BY DEF Rule, SelectInSeq
<1>2. Len(Rules) = 4 /\ \A k \in 1 .. 4 : Rules[k] \in RuleNames
  BY DEF Rules, RuleNames
<1>3. i = 0 \/ i \in 1 .. 4
  <2>1. I \in SUBSET Nat /\ I \subseteq 1 .. 4
    BY <1>2
  <2> HIDE DEF I
  <2> QED
    BY <2>1, MinOf
<1> HIDE DEF i
<1> QED
  BY <1>1, <1>2, <1>3

(* The function Reports takes its value from.                              *)
Reporting(f, events) ==
    /\ f \in [0 .. Len(events) -> ReportLists] /\ f[0] = <<>>
    /\ \A k \in 1 .. Len(events) :
          f[k] = IF Worth(events, k) THEN Append(f[k - 1], <<k, Rule(events[k])>>) ELSE f[k - 1]

LEMMA ReportsFunction ==
    ASSUME NEW events \in Seq(Ops)
    PROVE  \E f : Reporting(f, events) /\ Reports(events) = f[Len(events)]
<1> DEFINE n == Len(events)
           Report(k) == <<k, Rule(events[k])>>
           With(k, list) == IF Worth(events, k) THEN Append(list, Report(k)) ELSE list
           step == [k \in 1 .. n |-> [list \in ReportLists |-> With(k, list)]]
           told == CHOOSE g : g = [k \in 0 .. n |-> IF k = 0 THEN <<>>
                                                    ELSE IF Worth(events, k)
                                                         THEN Append(g[k - 1], Report(k))
                                                         ELSE g[k - 1]]
<1>1. n \in Nat /\ \A k \in 1 .. n : Worth(events, k) => Report(k) \in Nat \X RuleNames
  <2>1. n \in Nat
    BY LenProperties
  <2>2. \A k \in 1 .. n : Worth(events, k) => Rule(events[k]) \in RuleNames
    BY RuleType DEF Worth
  <2> QED
    BY <2>1, <2>2
<1>2. Reports(events) = told[n]
  BY DEF Reports
<1> HIDE DEF n, Report
<1>3. \A k \in 1 .. n : \A list \in ReportLists : With(k, list) \in ReportLists
  BY <1>1, AppendProperties DEF ReportLists
<1>4. step \in [1 .. n -> [ReportLists -> ReportLists]]
  <2> HIDE DEF With
  <2> QED
    BY <1>3
<1>5. PICK f : Iterates(f, ReportLists, <<>>, n, step)
  <2>1. <<>> \in ReportLists
    BY EmptySeq DEF ReportLists
  <2> HIDE DEF step, told
  <2> QED
    BY <1>1, <1>4, <2>1, Recursion
<1>6. /\ f \in [0 .. n -> ReportLists] /\ f[0] = <<>>
      /\ \A k \in 1 .. n : f[k] = step[k][f[k - 1]]
  <2> HIDE DEF step, told
  <2> QED
    BY <1>5 DEF Iterates
<1>7. \A k \in 1 .. n : k - 1 \in 0 .. n /\ k \in 0 .. n /\ k # 0
  BY <1>1
<1>8. \A k \in 1 .. n : f[k] = With(k, f[k - 1])
  <2>1. \A k \in 1 .. n : f[k - 1] \in ReportLists
    BY <1>6, <1>7
  <2> HIDE DEF With
  <2>2. \A k \in 1 .. n : \A list \in ReportLists : step[k][list] = With(k, list)
    OBVIOUS
  <2> HIDE DEF step, told
  <2> QED
    BY <1>6, <2>1, <2>2
<1>9. f = [k \in 0 .. n |-> IF k = 0 THEN <<>>
                            ELSE IF Worth(events, k) THEN Append(f[k - 1], Report(k))
                                 ELSE f[k - 1]]
  <2> HIDE DEF step, told
  <2>1. \A k \in 0 .. n : k = 0 \/ k \in 1 .. n
    BY <1>1
  <2>2. \A k \in 0 .. n :
          f[k] = IF k = 0 THEN <<>>
                 ELSE IF Worth(events, k) THEN Append(f[k - 1], Report(k)) ELSE f[k - 1]
    BY <1>6, <1>7, <1>8, <2>1
  <2> QED
    BY <1>6, <2>2
<1>10. told = [k \in 0 .. n |-> IF k = 0 THEN <<>>
                                ELSE IF Worth(events, k) THEN Append(told[k - 1], Report(k))
                                     ELSE told[k - 1]]
  BY <1>9
<1> HIDE DEF told, step
<1>11. told[n] = f[n]
  <2>1. told[0] = f[0]
    <3>1. 0 \in 0 .. n
      BY <1>1
    <3> QED
      BY <1>6, <1>10, <3>1
  <2>2. \A k \in 1 .. n : told[k - 1] = f[k - 1] => told[k] = f[k]
    BY <1>7, <1>9, <1>10
  <2> QED
    BY <1>1, <2>1, <2>2, RecursionAgrees
<1> QED
  BY <1>2, <1>6, <1>8, <1>11 DEF n, Report, Reporting

(* What is worth a report stays so when events follow.                     *)
LEMMA WorthStays ==
    ASSUME NEW events \in Seq(Ops), NEW e \in Ops, NEW k \in 1 .. Len(events)
    PROVE  /\ Append(events, e)[k] = events[k]
           /\ Worth(Append(events, e), k) = Worth(events, k)
<1>1. Len(events) \in Nat /\ \A j \in 1 .. Len(events) : Append(events, e)[j] = events[j]
  BY AppendProperties, LenProperties
<1>2. \A j \in 1 .. (k - 1) : j \in 1 .. Len(events)
  BY <1>1
<1> DEFINE more == Append(events, e)
<1>3. more[k] = events[k] /\ \A j \in 1 .. (k - 1) : more[j] = events[j]
  BY <1>1, <1>2
<1> HIDE DEF more
<1>4. Worth(more, k) <=> Worth(events, k)
  BY <1>3 DEF Worth
<1>5. Worth(more, k) \in BOOLEAN /\ Worth(events, k) \in BOOLEAN
  BY Zenon DEF Worth
<1> QED
  BY <1>3, <1>4, <1>5 DEF more

(* One more event, one more report or none.                                *)
LEMMA ReportsAdd ==
    ASSUME NEW events \in Seq(Ops), NEW e \in Ops
    PROVE  /\ Reports(<<>>) = <<>> /\ Reports(events) \in ReportLists
           /\ Reports(Append(events, e))
                = IF Worth(Append(events, e), Len(events) + 1)
                  THEN Append(Reports(events), <<Len(events) + 1, Rule(e)>>) ELSE Reports(events)
<1>1. PICK f : Reporting(f, events) /\ Reports(events) = f[Len(events)]
  BY ReportsFunction
<1> DEFINE n == Len(events)
           more == Append(events, e)
<1>2. n \in Nat /\ more \in Seq(Ops) /\ Len(more) = n + 1 /\ more[n + 1] = e
  BY AppendProperties, LenProperties
<1>3. \A k \in 1 .. n : more[k] = events[k] /\ Worth(more, k) = Worth(events, k)
  BY WorthStays
<1>4. /\ f \in [0 .. n -> ReportLists] /\ Reports(events) = f[n] /\ f[0] = <<>>
      /\ \A k \in 1 .. n :
           f[k] = IF Worth(events, k) THEN Append(f[k - 1], <<k, Rule(events[k])>>) ELSE f[k - 1]
  BY <1>1 DEF Reporting
<1> HIDE DEF more, n
<1>5. PICK g : Reporting(g, more) /\ Reports(more) = g[Len(more)]
  BY <1>2, ReportsFunction
<1>6. /\ Reports(more) = g[n + 1] /\ g[0] = <<>>
      /\ \A k \in 1 .. (n + 1) :
           g[k] = IF Worth(more, k) THEN Append(g[k - 1], <<k, Rule(more[k])>>) ELSE g[k - 1]
  BY <1>2, <1>5 DEF Reporting
<1>7. \A k \in 1 .. n : k \in 1 .. (n + 1)
  BY <1>2
<1>8. g[n] = f[n]
  <2>1. \A k \in 1 .. n : g[k - 1] = f[k - 1] => g[k] = f[k]
    BY <1>3, <1>4, <1>6, <1>7
  <2>2. g[0] = f[0]
    BY <1>4, <1>6
  <2> QED
    BY <1>2, <2>1, <2>2, RecursionAgrees
<1>9. n + 1 \in 1 .. (n + 1) /\ (n + 1) - 1 = n /\ n \in 0 .. n
  BY <1>2
<1>10. g[n + 1] = IF Worth(more, n + 1) THEN Append(g[n], <<n + 1, Rule(e)>>) ELSE g[n]
  BY <1>2, <1>6, <1>9
<1>11. Reports(<<>>) = <<>>
  <2> DEFINE none == <<>>
  <2>1. none \in Seq(Ops) /\ Len(none) = 0
    BY EmptySeq
  <2> HIDE DEF none
  <2>2. PICK h : Reporting(h, none) /\ Reports(none) = h[Len(none)]
    BY <2>1, ReportsFunction
  <2>3. h[0] = <<>>
    BY <2>2 DEF Reporting
  <2>4. Reports(none) = <<>>
    BY <2>1, <2>2, <2>3
  <2> QED
    BY <2>4 DEF none
<1>12. Reports(events) \in ReportLists
  BY <1>4, <1>9
<1> QED
  BY <1>4, <1>6, <1>8, <1>10, <1>11, <1>12 DEF more, n
-----------------------------------------------------------------------------
(* The last of a sequence.                                                 *)
LEMMA LastOnes ==
    ASSUME NEW A, NEW s \in Seq(A), NEW n \in Nat \ {0}
    PROVE  /\ LastN(s, n) \in Seq(A)
           /\ Len(s) <= n => Len(LastN(s, n)) = Len(s)
           /\ Len(s) > n => Len(LastN(s, n)) = n
           /\ \A i \in 1 .. Len(LastN(s, n)) :
                LastN(s, n)[i] = s[Len(s) - Len(LastN(s, n)) + i]
<1> DEFINE len == Len(s)
           low == Max({1, len - n + 1})
<1>1. len \in Nat
  BY LenProperties
<1>2. low = IF len <= n THEN 1 ELSE len - n + 1
  <2>1. Max({1, len - n + 1}) = IF 1 >= len - n + 1 THEN 1 ELSE len - n + 1
    BY <1>1, MaxOfTwo
  <2>2. len <= n => (1 >= len - n + 1)
    BY <1>1
  <2>3. ~ (len <= n) => ~ (1 >= len - n + 1)
    BY <1>1
  <2> QED
    BY <2>1, <2>2, <2>3
<1>3. low \in 1 .. (len + 1)
  BY <1>1, <1>2
<1>4. LastN(s, n) = SubSeq(s, low, len)
  BY DEF LastN
<1> HIDE DEF low
<1>5. \A i \in low .. len : s[i] \in A
  <2>1. \A i \in low .. len : i \in 1 .. len
    BY <1>1, <1>3
  <2> QED
    BY <2>1, ElementOfSeq
<1> DEFINE last == SubSeq(s, low, len)
<1>6. /\ last \in Seq(A)
      /\ Len(last) = IF low <= len THEN len - low + 1 ELSE 0
      /\ \A i \in 1 .. (len - low + 1) : last[i] = s[low + i - 1]
  BY <1>1, <1>3, <1>5, SubSeqProperties
<1> HIDE DEF last, len
<1>7. Len(last) = len - low + 1
  BY <1>1, <1>3, <1>6
<1>8. (len <= n => Len(last) = len) /\ (len > n => Len(last) = n)
  BY <1>1, <1>2, <1>7
<1>9. \A i \in 1 .. Len(last) : last[i] = s[len - Len(last) + i]
  <2>1. \A i \in 1 .. Len(last) : low + i - 1 = len - Len(last) + i
    BY <1>1, <1>3, <1>7
  <2> QED
    BY <1>6, <1>7, <2>1
<1> QED
  BY <1>4, <1>6, <1>8, <1>9 DEF last, len

(* It may be kept up to date element by element.                           *)
LEMMA LastOfAppend ==
    ASSUME NEW A, NEW s \in Seq(A), NEW x \in A, NEW n \in Nat \ {0}
    PROVE  LastN(Append(LastN(s, n), x), n) = LastN(Append(s, x), n)
<1> DEFINE t == LastN(s, n)
           more == Append(s, x)
           kept == Append(t, x)
           old == LastN(kept, n)
           new == LastN(more, n)
<1>1. /\ t \in Seq(A) /\ Len(s) \in Nat /\ Len(t) \in Nat
      /\ Len(s) <= n => Len(t) = Len(s)
      /\ Len(s) > n => Len(t) = n
      /\ \A i \in 1 .. Len(t) : t[i] = s[Len(s) - Len(t) + i]
  BY LastOnes, LenProperties
<1>2. /\ more \in Seq(A) /\ Len(more) = Len(s) + 1 /\ more[Len(s) + 1] = x
      /\ \A i \in 1 .. Len(s) : more[i] = s[i]
  BY AppendProperties
<1> HIDE DEF t
<1>3. /\ kept \in Seq(A) /\ Len(kept) = Len(t) + 1 /\ kept[Len(t) + 1] = x
      /\ \A i \in 1 .. Len(t) : kept[i] = t[i]
  BY <1>1, AppendProperties
<1> HIDE DEF more, kept
<1>4. /\ new \in Seq(A) /\ Len(new) \in Nat
      /\ Len(more) <= n => Len(new) = Len(more)
      /\ Len(more) > n => Len(new) = n
      /\ \A i \in 1 .. Len(new) : new[i] = more[Len(more) - Len(new) + i]
  BY <1>2, LastOnes, LenProperties
<1>5. /\ old \in Seq(A) /\ Len(old) \in Nat
      /\ Len(kept) <= n => Len(old) = Len(kept)
      /\ Len(kept) > n => Len(old) = n
      /\ \A i \in 1 .. Len(old) : old[i] = kept[Len(kept) - Len(old) + i]
  BY <1>3, LastOnes, LenProperties
<1> HIDE DEF old, new
<1>6. Len(old) = Len(new) /\ Len(new) <= Len(t) + 1
  BY <1>1, <1>2, <1>3, <1>4, <1>5
<1>7. ASSUME NEW i \in 1 .. Len(new)
      PROVE  old[i] = new[i]
  <2> DEFINE p == Len(t) + 1 - Len(new) + i
             q == Len(s) + 1 - Len(new) + i
  <2>1. /\ p \in 1 .. (Len(t) + 1) /\ q \in 1 .. (Len(s) + 1)
        /\ p = Len(t) + 1 <=> i = Len(new)
        /\ q = Len(s) + 1 <=> i = Len(new)
        /\ Len(s) - Len(t) + p = q
    <3>1. \A a, b, m \in Nat : a <= b /\ m <= a + 1 => \A k \in 1 .. m :
             /\ a + 1 - m + k \in 1 .. (a + 1) /\ b + 1 - m + k \in 1 .. (b + 1)
             /\ a + 1 - m + k = a + 1 <=> k = m
             /\ b + 1 - m + k = b + 1 <=> k = m
             /\ b - a + (a + 1 - m + k) = b + 1 - m + k
      OBVIOUS
    <3>2. Len(t) \in Nat /\ Len(s) \in Nat /\ Len(new) \in Nat /\ Len(t) <= Len(s)
      BY <1>1, <1>4
    <3> QED
      BY <1>6, <3>1, <3>2
  <2>2. old[i] = kept[p] /\ new[i] = more[q]
    BY <1>2, <1>3, <1>4, <1>5, <1>6
  <2> HIDE DEF p, q
  <2>3. CASE i = Len(new)
    BY <1>2, <1>3, <2>1, <2>2, <2>3
  <2>4. CASE i # Len(new)
    <3>1. p \in 1 .. Len(t) /\ q \in 1 .. Len(s)
      BY <1>1, <2>1, <2>4
    <3>2. kept[p] = t[p] /\ t[p] = s[q] /\ more[q] = s[q]
      BY <1>1, <1>2, <1>3, <2>1, <3>1
    <3> QED
      BY <2>2, <3>2
  <2> QED
    BY <2>3, <2>4
<1>8. old = new
  BY <1>4, <1>5, <1>6, <1>7, SeqEqual
<1> QED
  BY <1>8 DEF t, more, kept, old, new

(* The places of one more event.                                           *)
LEMMA IdsAdd ==
    ASSUME NEW events \in Seq(Ops), NEW e \in Ops
    PROVE  /\ Ids(<<>>) = <<>> /\ Ids(events) \in Seq(Nat)
           /\ Ids(Append(events, e)) = Append(Ids(events), Len(events) + 1)
<1> DEFINE n == Len(events)
           more == Append(events, e)
           ids == Ids(events)
<1>1. n \in Nat /\ Len(more) = n + 1
  BY AppendProperties, LenProperties
<1>2. /\ ids \in Seq(Nat) /\ Len(ids) = n /\ \A k \in 1 .. n : ids[k] = k
  <2>1. ids \in [1 .. n -> Nat]
    BY DEF Ids
  <2>2. ids \in Seq(Nat)
    BY <1>1, <2>1, SeqDef
  <2>3. Len(ids) = n
    BY <1>1, <2>1, <2>2, LenProperties
  <2> QED
    BY <2>2, <2>3 DEF Ids
<1>3. Ids(more) = [k \in 1 .. (n + 1) |-> k]
  BY <1>1 DEF Ids
<1> HIDE DEF n, more, ids
<1>4. /\ Append(ids, n + 1) \in Seq(Nat) /\ Len(Append(ids, n + 1)) = n + 1
      /\ \A k \in 1 .. n : Append(ids, n + 1)[k] = k
      /\ Append(ids, n + 1)[n + 1] = n + 1
  <2>1. n + 1 \in Nat
    BY <1>1
  <2> QED
    BY <1>2, <2>1, AppendProperties
<1>5. Append(ids, n + 1) = [k \in 1 .. (n + 1) |-> k]
  <2>1. DOMAIN Append(ids, n + 1) = 1 .. (n + 1)
    BY <1>4, LenProperties
  <2>2. Append(ids, n + 1) = [k \in 1 .. (n + 1) |-> Append(ids, n + 1)[k]]
    BY <1>4, <2>1
  <2>3. \A k \in 1 .. (n + 1) : k \in 1 .. n \/ k = n + 1
    BY <1>1
  <2> QED
    BY <1>4, <2>2, <2>3
<1>6. Ids(<<>>) = <<>>
  BY EmptySeq DEF Ids
<1> QED
  BY <1>2, <1>3, <1>5, <1>6 DEF n, more, ids

(* Front undoes Append.                                                    *)
LEMMA FrontOfAppend ==
    ASSUME NEW s \in Seq(Ops), NEW x \in Ops
    PROVE  Front(Append(s, x)) = s
<1> DEFINE more == Append(s, x)
           n == Len(s)
<1>1. /\ n \in Nat /\ more \in Seq(Ops) /\ Len(more) = n + 1
      /\ \A k \in 1 .. n : more[k] = s[k] /\ more[k] \in Ops
  <2>1. \A k \in 1 .. n : s[k] \in Ops
    BY ElementOfSeq
  <2> QED
    BY <2>1, AppendProperties, LenProperties
<1>2. Front(more) = SubSeq(more, 1, n)
  <2>1. Len(more) - 1 = n
    BY <1>1
  <2> QED
    BY <2>1 DEF Front
<1> HIDE DEF more, n
<1>3. /\ SubSeq(more, 1, n) \in Seq(Ops)
      /\ Len(SubSeq(more, 1, n)) = n
      /\ \A k \in 1 .. n : SubSeq(more, 1, n)[k] = more[k]
  <2> DEFINE t == SubSeq(more, 1, n)
  <2>1. /\ t \in Seq(Ops)
        /\ Len(t) = IF 1 <= n THEN n - 1 + 1 ELSE 0
        /\ \A k \in 1 .. (n - 1 + 1) : t[k] = more[1 + k - 1]
    BY <1>1, SubSeqProperties
  <2> HIDE DEF t
  <2>2. Len(t) = n /\ n - 1 + 1 = n /\ \A k \in 1 .. n : 1 + k - 1 = k
    BY <1>1, <2>1
  <2>3. \A k \in 1 .. n : t[k] = more[k]
    BY <2>1, <2>2
  <2> QED
    BY <2>1, <2>2, <2>3 DEF t
<1>4. SubSeq(more, 1, n) = s
  <2>1. s \in Seq(Ops) /\ Len(s) = n
    BY DEF n
  <2> QED
    BY <1>1, <1>3, <2>1, SeqEqual
<1> QED
  BY <1>2, <1>4 DEF more
-----------------------------------------------------------------------------
(* The tree and its latencies.                                             *)

(* A label says which layer it is of.                                      *)
LEMMA LabelLayer ==
    ASSUME NEW k \in Layers, NEW l \in Layers, NEW c \in OpClasses, NEW d \in OpClasses,
           Label(k, c) = Label(l, d)
    PROVE  k = l
BY DEF Label, Layers

(* One op is added to, the others are as they were.                        *)
OpCounted(ops, new, j, cls, lat) ==
    /\ j \in 1 .. Len(new) /\ new[j].label = <<cls>>
    /\ \A k \in 1 .. Len(new) : k # j => k \in 1 .. Len(ops) /\ new[k] = ops[k]
    /\ j \in 1 .. Len(ops) => /\ ops[j].label = <<cls>>
                              /\ new[j].latency = ops[j].latency + lat
    /\ j \notin 1 .. Len(ops) => /\ new[j].latency = lat
                                 /\ \A k \in 1 .. Len(ops) : ops[k].label # <<cls>>

LEMMA TouchOpCounts ==
    ASSUME NEW ops \in Seq(Nodes), NEW layer \in Layers, NEW cls \in OpClasses,
           NEW id \in Nat, NEW lat \in Nat, NEW new, new = TouchOp(ops, layer, cls, id, lat)
    PROVE  \E j : OpCounted(ops, new, j, cls, lat)
<1>1. PICK grown, i : OpTouched(ops, new, grown, i, layer, cls, id, lat)
  BY OpIsTouched
<1>2. /\ grown \in Seq(Nodes) /\ i \in 1 .. Len(grown) /\ grown[i].label = <<cls>>
      /\ Len(grown) = Len(ops) + 1 => \A j \in 1 .. Len(ops) : ops[j].label # <<cls>>
      /\ new = [grown EXCEPT ![i] = Touch(grown[i], id, lat)]
  BY <1>1 DEF OpTouched
<1>3. /\ Len(ops) \in Nat /\ Len(grown) \in Nat
      /\ Len(ops) <= Len(grown) /\ Len(grown) <= Len(ops) + 1
      /\ \A j \in 1 .. Len(ops) : grown[j] = ops[j]
      /\ Len(grown) = Len(ops) + 1 => grown[Len(grown)] = Node(layer, <<cls>>)
  BY <1>1 DEF OpTouched, SameOrAppended
<1> DEFINE n == grown[i]
           touched == Touch(n, id, lat)
<1>4. n \in Nodes
  BY <1>2, ElementOfSeq
<1> HIDE DEF n
<1>5. touched \in Nodes /\ touched.label = n.label /\ touched.latency = n.latency + lat
  BY <1>4, TouchType
<1>6. new = [grown EXCEPT ![i] = touched] /\ n = grown[i]
  BY <1>2 DEF n
<1> HIDE DEF touched
<1>7. Len(new) = Len(grown) /\ \A k \in 1 .. Len(grown) : new[k] = IF k = i THEN touched ELSE grown[k]
  BY <1>2, <1>5, <1>6, ExceptSeq
<1>8. new[i] = touched
  BY <1>2, <1>7
<1>9. \A k \in 1 .. Len(new) : k # i => new[k] = grown[k]
  BY <1>7
<1>10. CASE i \in 1 .. Len(ops)
  <2>1. n = ops[i]
    BY <1>3, <1>6, <1>10
  <2>2. ASSUME NEW k \in 1 .. Len(new), k # i PROVE k \in 1 .. Len(ops) /\ new[k] = ops[k]
    <3>1. k \in 1 .. Len(ops)
      <4>1. SUFFICES ASSUME k \notin 1 .. Len(ops) PROVE FALSE
        OBVIOUS
      <4>2. Len(grown) = Len(ops) + 1
        BY <1>3, <1>7, <4>1
      <4>3. ops[i].label # <<cls>>
        BY <1>2, <1>10, <4>2
      <4> QED
        BY <1>2, <1>6, <2>1, <4>3
    <3> QED
      BY <1>3, <1>9, <2>2, <3>1
  <2>3. ops[i].label = <<cls>>
    BY <1>2, <1>6, <2>1
  <2> QED
    BY <1>2, <1>5, <1>7, <1>8, <1>10, <2>1, <2>2, <2>3 DEF OpCounted
<1>11. CASE i \notin 1 .. Len(ops)
  <2>1. i = Len(grown) /\ Len(grown) = Len(ops) + 1
    BY <1>2, <1>3, <1>11
  <2>2. n = Node(layer, <<cls>>) /\ \A k \in 1 .. Len(ops) : ops[k].label # <<cls>>
    BY <1>2, <1>3, <1>6, <2>1
  <2>3. n.latency = 0
    BY <2>2 DEF Node
  <2>4. touched.latency = lat
    BY <1>5, <2>3
  <2>5. ASSUME NEW k \in 1 .. Len(new), k # i PROVE k \in 1 .. Len(ops) /\ new[k] = ops[k]
    <3>1. k \in 1 .. Len(ops)
      BY <1>3, <1>7, <2>1, <2>5
    <3> QED
      BY <1>3, <1>9, <2>5, <3>1
  <2>6. touched.label = <<cls>> /\ i \in 1 .. Len(new)
    BY <1>2, <1>5, <1>6, <1>7
  <2> QED
    BY <1>8, <1>11, <2>2, <2>4, <2>5, <2>6 DEF OpCounted
<1> QED
  BY <1>10, <1>11

(* One bucket is added to, with one of its ops.                            *)
BucketCounted(t, new, i, j, e) ==
    LET label == Label(e.layer, e.cls)
    IN  /\ i \in 1 .. Len(new) /\ new[i].node.layer = e.layer /\ new[i].node.label = label
        /\ \A k \in 1 .. Len(new) : k # i => k \in 1 .. Len(t) /\ new[k] = t[k]
        /\ i \in 1 .. Len(t) =>
             /\ t[i].node.layer = e.layer /\ t[i].node.label = label
             /\ new[i].node.latency = t[i].node.latency + e.lat
             /\ OpCounted(t[i].ops, new[i].ops, j, e.cls, e.lat)
        /\ i \notin 1 .. Len(t) =>
             /\ \A k \in 1 .. Len(t) : ~ (t[k].node.layer = e.layer /\ t[k].node.label = label)
             /\ new[i].node.latency = e.lat
             /\ OpCounted(<<>>, new[i].ops, j, e.cls, e.lat)

LEMMA UpdateCounts ==
    ASSUME NEW t \in Seq(Buckets),
           NEW e, e.layer \in Layers, e.cls \in OpClasses, e.lat \in Nat,
           NEW id \in Nat, NEW new, new = Update(t, e, id)
    PROVE  \E i, j : BucketCounted(t, new, i, j, e)
<1>1. PICK grown, i : BucketTouched(t, new, grown, i, e, id)
  BY BucketIsTouched
<1> DEFINE label == Label(e.layer, e.cls)
           made == NewBucket(e.layer, label)
           old == grown[i]
           ops == TouchOp(old.ops, e.layer, e.cls, id, e.lat)
           bucket == [node |-> Touch(old.node, id, e.lat), ops |-> ops]
<1>2. /\ grown \in Seq(Buckets) /\ i \in 1 .. Len(grown)
      /\ old.node.layer = e.layer /\ old.node.label = label
      /\ Len(grown) = Len(t) + 1 =>
           \A k \in 1 .. Len(t) : ~ (t[k].node.layer = e.layer /\ t[k].node.label = label)
      /\ new = [grown EXCEPT ![i] = bucket]
  BY <1>1 DEF BucketTouched
<1>3. /\ Len(t) \in Nat /\ Len(grown) \in Nat
      /\ Len(t) <= Len(grown) /\ Len(grown) <= Len(t) + 1
      /\ \A k \in 1 .. Len(t) : grown[k] = t[k]
      /\ Len(grown) = Len(t) + 1 => grown[Len(grown)] = made
  BY <1>1 DEF BucketTouched, SameOrAppended
<1>4. old.node \in Nodes /\ old.ops \in Seq(Nodes)
  <2>1. old \in Buckets
    BY <1>2, ElementOfSeq
  <2> QED
    BY <2>1 DEF Buckets
<1>5. made.node.latency = 0 /\ made.ops = <<>>
  BY Zenon DEF NewBucket, Node
<1> HIDE DEF made, old
<1>6. ops \in Seq(Nodes) /\ \E j : OpCounted(old.ops, ops, j, e.cls, e.lat)
  <2> DEFINE kept == old.ops
             lat == e.lat
             cls == e.cls
             layer == e.layer
  <2>1. kept \in Seq(Nodes) /\ lat \in Nat /\ cls \in OpClasses /\ layer \in Layers
    BY <1>4
  <2>2. ops = TouchOp(kept, layer, cls, id, lat)
    OBVIOUS
  <2> HIDE DEF ops, kept, lat, cls, layer
  <2>3. ops \in Seq(Nodes)
    BY <2>1, <2>2, TouchOpKeeps
  <2>4. \E j : OpCounted(kept, ops, j, cls, lat)
    BY <2>1, <2>2, TouchOpCounts
  <2> QED
    BY <2>3, <2>4 DEF kept, lat, cls
<1>7. PICK j : OpCounted(old.ops, ops, j, e.cls, e.lat)
  BY <1>6
<1> DEFINE node == Touch(old.node, id, e.lat)
<1>8. /\ node \in Nodes /\ node.layer = old.node.layer /\ node.label = old.node.label
      /\ node.latency = old.node.latency + e.lat
  BY <1>4, TouchType
<1> HIDE DEF node, ops
<1>9. bucket \in Buckets /\ bucket.node = node /\ bucket.ops = ops
  BY <1>6, <1>8 DEF Buckets, node
<1> HIDE DEF bucket, label
<1>10. Len(new) = Len(grown) /\ \A k \in 1 .. Len(grown) : new[k] = IF k = i THEN bucket ELSE grown[k]
  BY <1>2, <1>9, ExceptSeq
<1>11. /\ i \in 1 .. Len(new) /\ new[i].node = node /\ new[i].ops = ops
       /\ \A k \in 1 .. Len(new) : k # i => new[k] = grown[k]
  BY <1>2, <1>9, <1>10
<1>12. CASE i \in 1 .. Len(t)
  <2>1. old = t[i]
    BY <1>3, <1>12 DEF old
  <2>2. Len(grown) # Len(t) + 1
    BY <1>2, <1>12, <2>1
  <2>3. \A k \in 1 .. Len(new) : k # i => k \in 1 .. Len(t) /\ new[k] = t[k]
    <3>1. Len(new) = Len(t)
      BY <1>3, <1>10, <2>2
    <3> QED
      BY <1>3, <1>11, <3>1
  <2>4. BucketCounted(t, new, i, j, e)
    BY <1>2, <1>7, <1>8, <1>11, <1>12, <2>1, <2>3 DEF BucketCounted, label
  <2> QED
    BY <2>4
<1>13. CASE i \notin 1 .. Len(t)
  <2>1. i = Len(grown) /\ Len(grown) = Len(t) + 1
    BY <1>2, <1>3, <1>13
  <2>2. old = made
    BY <1>3, <2>1 DEF old
  <2>3. old.node.latency = 0 /\ old.ops = <<>>
    BY <1>5, <2>2
  <2>4. node.latency = e.lat
    BY <1>8, <2>3
  <2>5. \A k \in 1 .. Len(new) : k # i => k \in 1 .. Len(t) /\ new[k] = t[k]
    <3>1. \A k \in 1 .. Len(new) : k # i => k \in 1 .. Len(t)
      BY <1>3, <1>10, <2>1
    <3> QED
      BY <1>3, <1>11, <3>1
  <2>6. OpCounted(<<>>, ops, j, e.cls, e.lat)
    BY <1>7, <2>3
  <2>7. BucketCounted(t, new, i, j, e)
    BY <1>2, <1>8, <1>11, <1>13, <2>1, <2>4, <2>5, <2>6 DEF BucketCounted, label
  <2> QED
    BY <2>7
<1> QED
  BY <1>12, <1>13

(* An event adds its latency to its bucket and to its op.                  *)
LEMMA EventIsCounted ==
    ASSUME NEW t \in Seq(Buckets), TreeHoldsItsOps(t),
           NEW events \in Seq(Ops), TreeTells(t, events),
           NEW e \in Ops, NEW id \in Nat, NEW new, new = Update(t, e, id)
    PROVE  TreeTells(new, Append(events, e))
<1> DEFINE more == Append(events, e)
           label == Label(e.layer, e.cls)
           Was(S) == LatencyOf(events, S)
           Is(S) == LatencyOf(more, S)
<1>1. e.layer \in Layers /\ e.cls \in OpClasses /\ e.lat \in Nat
  BY OpTypes
<1>2. PICK i, j : BucketCounted(t, new, i, j, e)
  BY <1>1, UpdateCounts
<1>3. new \in Seq(Buckets) /\ RowsKept(t, new) /\ TreeHoldsItsOps(new)
  BY <1>1, UpdateKeeps
<1>4. \A S : Was(S) \in Nat /\ Is(S) = Was(S) + (IF e \in S THEN e.lat ELSE 0)
  BY LatencyAdds
<1>5. \A S : /\ e \in S => Is(S) = Was(S) + e.lat
             /\ e \notin S => Is(S) = Was(S)
  BY <1>4
<1>6. \A l : e \in OfBucket(l) <=> l = label
  BY DEF OfBucket
<1>7. \A l, o : e \in OfOp(l, o) <=> l = label /\ o = <<e.cls>>
  BY <1>6 DEF OfOp
<1>8. /\ i \in 1 .. Len(new) /\ new[i].node.layer = e.layer /\ new[i].node.label = label
      /\ \A k \in 1 .. Len(new) : k # i => k \in 1 .. Len(t) /\ new[k] = t[k]
      /\ i \in 1 .. Len(t) =>
             /\ t[i].node.layer = e.layer /\ t[i].node.label = label
             /\ new[i].node.latency = t[i].node.latency + e.lat
             /\ OpCounted(t[i].ops, new[i].ops, j, e.cls, e.lat)
      /\ i \notin 1 .. Len(t) =>
             /\ \A k \in 1 .. Len(t) : ~ (t[k].node.layer = e.layer /\ t[k].node.label = label)
             /\ new[i].node.latency = e.lat
             /\ OpCounted(<<>>, new[i].ops, j, e.cls, e.lat)
  BY <1>2 DEF BucketCounted
<1>9. /\ \A k \in 1 .. Len(t) : t[k].node.latency = Was(OfBucket(t[k].node.label))
      /\ \A k \in 1 .. Len(t) : \A m \in 1 .. Len(t[k].ops) :
            t[k].ops[m].latency = Was(OfOp(t[k].node.label, t[k].ops[m].label))
  BY DEF TreeTells
<1>10. ASSUME NEW f \in Ops
       PROVE  /\ (\A k \in 1 .. Len(t) : t[k].node.label # Label(f.layer, f.cls))
                    => Was(OfBucket(Label(f.layer, f.cls))) = 0
              /\ (\A k \in 1 .. Len(t) : t[k].node.label = Label(f.layer, f.cls) =>
                    \A m \in 1 .. Len(t[k].ops) : t[k].ops[m].label # <<f.cls>>)
                    => Was(OfOp(Label(f.layer, f.cls), <<f.cls>>)) = 0
  BY DEF TreeTells
<1> HIDE DEF more, Was, Is
(* A bucket with the event's label is the event's bucket.                  *)
<1>11. ASSUME NEW u \in Seq(Buckets), TreeHoldsItsOps(u), NEW k \in 1 .. Len(u), u[k].node.label = label
       PROVE  u[k].node.layer = e.layer
  <2>1. u[k] \in Buckets
    BY ElementOfSeq
  <2>2. u[k].node.layer \in Layers
    BY <2>1 DEF Buckets, Nodes
  <2>3. PICK c \in OpClasses : u[k].node.label = Label(u[k].node.layer, c)
    BY <1>11 DEF TreeHoldsItsOps
  <2>4. Label(u[k].node.layer, c) = Label(e.layer, e.cls)
    BY <1>11, <2>3
  <2> QED
    BY <1>1, <2>2, <2>4, LabelLayer
<1>12. \A k \in 1 .. Len(new) : k # i => new[k].node.label # label
  <2> SUFFICES ASSUME NEW k \in 1 .. Len(new), k # i, new[k].node.label = label PROVE FALSE
    OBVIOUS
  <2>1. new[k].node.layer = e.layer
    BY <1>3, <1>11
  <2>2. Key(new[k].node) = Key(new[i].node)
    BY <1>8, <2>1 DEF Key
  <2> QED
    BY <1>3, <1>8, <2>2 DEF TreeHoldsItsOps
<1>13. i \notin 1 .. Len(t) => \A k \in 1 .. Len(t) : t[k].node.label # label
  BY <1>8, <1>11
<1>14. i \in 1 .. Len(t) => \A k \in 1 .. Len(t) : k # i => t[k].node.label # label
  <2> SUFFICES ASSUME i \in 1 .. Len(t), NEW k \in 1 .. Len(t), k # i, t[k].node.label = label
               PROVE  FALSE
    OBVIOUS
  <2>1. t[k].node.layer = e.layer
    BY <1>11
  <2>2. Key(t[k].node) = Key(t[i].node)
    BY <1>8, <2>1 DEF Key
  <2> QED
    BY <2>2 DEF TreeHoldsItsOps
<1>15. /\ \A k \in 1 .. Len(t) : k \in 1 .. Len(new) /\ new[k].node.label = t[k].node.label
       /\ \A k \in 1 .. Len(t) : \A m \in 1 .. Len(t[k].ops) :
             m \in 1 .. Len(new[k].ops) /\ new[k].ops[m].label = t[k].ops[m].label
  <2>1. Len(t) \in Nat /\ Len(new) \in Nat /\ Len(t) <= Len(new)
    BY <1>3, LenProperties DEF RowsKept
  <2>2. \A k \in 1 .. Len(t) : k \in 1 .. Len(new)
    BY <2>1
  <2>3. \A k \in 1 .. Len(t) : Len(t[k].ops) \in Nat /\ Len(new[k].ops) \in Nat
    <3>1. \A k \in 1 .. Len(t) : t[k].ops \in Seq(Nodes) /\ new[k].ops \in Seq(Nodes)
      <4>1. \A k \in 1 .. Len(t) : t[k] \in Buckets /\ new[k] \in Buckets
        BY <1>3, <2>2, ElementOfSeq
      <4> QED
        BY <4>1 DEF Buckets
    <3> QED
      BY <3>1, LenProperties
  <2>4. \A k \in 1 .. Len(t) : /\ Key(new[k].node) = Key(t[k].node)
                                /\ Len(t[k].ops) <= Len(new[k].ops)
                                /\ \A m \in 1 .. Len(t[k].ops) : Key(new[k].ops[m]) = Key(t[k].ops[m])
    BY <1>3 DEF RowsKept, OpsKept
  <2>5. \A k \in 1 .. Len(t) : \A m \in 1 .. Len(t[k].ops) : m \in 1 .. Len(new[k].ops)
    <3>1. \A a, b \in Nat : a <= b => \A m \in 1 .. a : m \in 1 .. b
      OBVIOUS
    <3> QED
      BY <2>3, <2>4, <3>1
  <2> QED
    BY <2>2, <2>4, <2>5 DEF Key
(* The buckets.                                                            *)
<1>16. ASSUME NEW k \in 1 .. Len(new)
       PROVE  new[k].node.latency = Is(OfBucket(new[k].node.label))
  <2>1. CASE k # i
    BY <1>5, <1>6, <1>8, <1>9, <1>12, <2>1
  <2>2. CASE k = i /\ i \in 1 .. Len(t)
    BY <1>5, <1>6, <1>8, <1>9, <2>2
  <2>3. CASE k = i /\ i \notin 1 .. Len(t)
    <3>1. Was(OfBucket(label)) = 0
      BY <1>10, <1>13, <2>3
    <3>2. Is(OfBucket(label)) = Was(OfBucket(label)) + e.lat
      BY <1>5, <1>6
    <3> QED
      BY <1>1, <1>8, <2>3, <3>1, <3>2
  <2> QED
    BY <2>1, <2>2, <2>3
(* The ops.                                                                *)
<1>17. ASSUME NEW k \in 1 .. Len(new), NEW m \in 1 .. Len(new[k].ops)
       PROVE  new[k].ops[m].latency = Is(OfOp(new[k].node.label, new[k].ops[m].label))
  <2>1. CASE k # i
    BY <1>5, <1>7, <1>8, <1>9, <1>12, <2>1
  <2>2. CASE k = i
    <3> DEFINE ops == new[i].ops
               before == IF i \in 1 .. Len(t) THEN t[i].ops ELSE <<>>
    <3>1. OpCounted(before, ops, j, e.cls, e.lat) /\ m \in 1 .. Len(ops)
      BY <1>8, <2>2
    <3>2. \A l \in 1 .. Len(before) :
             /\ i \in 1 .. Len(t) /\ l \in 1 .. Len(t[i].ops) /\ before[l] = t[i].ops[l]
             /\ before[l].latency = Was(OfOp(label, before[l].label))
      <4>1. CASE i \in 1 .. Len(t)
        <5>1. before = t[i].ops /\ t[i].node.label = label
          BY <1>8, <4>1
        <5> QED
          BY <1>9, <4>1, <5>1
      <4>2. CASE i \notin 1 .. Len(t)
        <5>1. before = <<>> /\ 1 .. Len(before) = {}
          BY <4>2, EmptySeq
        <5> QED
          BY <5>1
      <4> QED
        BY <4>1, <4>2
    <3>3. \A l \in 1 .. Len(ops) : l # j => ops[l].label # <<e.cls>>
      <4>1. j \in 1 .. Len(ops) /\ ops[j].label = <<e.cls>>
        BY <3>1 DEF OpCounted
      <4>2. BucketHoldsItsOps(new[i])
        BY <1>3, <1>8 DEF TreeHoldsItsOps
      <4> QED
        BY <4>1, <4>2 DEF BucketHoldsItsOps
    <3>4. new[k].ops = ops /\ new[k].node.label = label
      BY <1>8, <2>2
    <3> HIDE DEF ops, before
    <3>5. CASE m # j
      <4>1. m \in 1 .. Len(before) /\ ops[m] = before[m]
        BY <3>1, <3>5 DEF OpCounted
      <4>2. ops[m].latency = Was(OfOp(label, ops[m].label))
        BY <3>2, <4>1
      <4>3. e \notin OfOp(label, ops[m].label)
        BY <1>7, <3>1, <3>3, <3>5
      <4> QED
        BY <1>5, <3>4, <4>2, <4>3
    <3>6. CASE m = j /\ j \in 1 .. Len(before)
      <4>1. /\ before[j].label = <<e.cls>> /\ ops[j].label = <<e.cls>>
            /\ ops[j].latency = before[j].latency + e.lat
        BY <3>1, <3>6 DEF OpCounted
      <4>2. before[j].latency = Was(OfOp(label, <<e.cls>>))
        BY <3>2, <3>6, <4>1
      <4>3. Is(OfOp(label, <<e.cls>>)) = Was(OfOp(label, <<e.cls>>)) + e.lat
        BY <1>5, <1>7
      <4>4. ops[m].latency = Is(OfOp(label, ops[m].label))
        BY <3>6, <4>1, <4>2, <4>3
      <4> QED
        BY <3>4, <4>4
    <3>7. CASE m = j /\ j \notin 1 .. Len(before)
      <4>1. /\ ops[j].label = <<e.cls>> /\ ops[j].latency = e.lat
            /\ \A l \in 1 .. Len(before) : before[l].label # <<e.cls>>
        BY <3>1, <3>7 DEF OpCounted
      <4>2. Was(OfOp(label, <<e.cls>>)) = 0
        <5>1. ASSUME NEW l \in 1 .. Len(t), t[l].node.label = label,
                     NEW p \in 1 .. Len(t[l].ops)
              PROVE  t[l].ops[p].label # <<e.cls>>
          <6>1. i \in 1 .. Len(t) /\ l = i
            BY <1>13, <1>14, <5>1
          <6>2. before = t[i].ops
            BY <6>1 DEF before
          <6> QED
            BY <4>1, <5>1, <6>1, <6>2
        <5> QED
          BY <1>10, <5>1
      <4>3. Is(OfOp(label, <<e.cls>>)) = Was(OfOp(label, <<e.cls>>)) + e.lat
        BY <1>5, <1>7
      <4>4. ops[m].latency = Is(OfOp(label, ops[m].label))
        BY <1>1, <3>7, <4>1, <4>2, <4>3
      <4> QED
        BY <3>4, <4>4
    <3> QED
      BY <3>5, <3>6, <3>7
  <2> QED
    BY <2>1, <2>2
(* What is not in the tree has still had nothing.                          *)
<1>18. ASSUME NEW f \in Ops
       PROVE  LET other == Label(f.layer, f.cls)
              IN  /\ (\A k \in 1 .. Len(new) : new[k].node.label # other) => Is(OfBucket(other)) = 0
                  /\ (\A k \in 1 .. Len(new) : new[k].node.label = other =>
                        \A m \in 1 .. Len(new[k].ops) : new[k].ops[m].label # <<f.cls>>)
                       => Is(OfOp(other, <<f.cls>>)) = 0
  <2> DEFINE other == Label(f.layer, f.cls)
  <2>1. ASSUME \A k \in 1 .. Len(new) : new[k].node.label # other
        PROVE  Is(OfBucket(other)) = 0
    <3>1. Was(OfBucket(other)) = 0
      BY <1>10, <1>15, <2>1
    <3>2. other # label
      BY <1>8, <2>1
    <3> QED
      BY <1>5, <1>6, <3>1, <3>2
  <2>2. ASSUME \A k \in 1 .. Len(new) : new[k].node.label = other =>
                  \A m \in 1 .. Len(new[k].ops) : new[k].ops[m].label # <<f.cls>>
        PROVE  Is(OfOp(other, <<f.cls>>)) = 0
    <3>1. Was(OfOp(other, <<f.cls>>)) = 0
      <4>1. \A k \in 1 .. Len(t) : t[k].node.label = other =>
               \A m \in 1 .. Len(t[k].ops) : t[k].ops[m].label # <<f.cls>>
        BY <1>15, <2>2
      <4> QED
        BY <1>10, <4>1
    <3>2. e \notin OfOp(other, <<f.cls>>)
      <4>1. j \in 1 .. Len(new[i].ops) /\ new[i].ops[j].label = <<e.cls>>
        BY <1>8 DEF OpCounted
      <4> QED
        BY <1>7, <1>8, <2>2, <4>1
    <3> QED
      BY <1>5, <3>1, <3>2
  <2> QED
    BY <2>1, <2>2
<1>19. TreeTells(new, more)
  BY <1>16, <1>17, <1>18 DEF TreeTells, Is
<1> QED
  BY <1>19 DEF more

(* Marks are no latencies.                                                 *)
LEMMA SelectCountsNothing ==
    ASSUME NEW t \in Seq(Buckets), TreeHoldsItsOps(t),
           NEW events \in Seq(Ops), TreeTells(t, events),
           NEW layer, NEW new, new = Select(t, layer)
    PROVE  TreeTells(new, events)
<1>1. /\ Len(new) = Len(t)
      /\ \A i \in 1 .. Len(t) : /\ new[i].node.label = t[i].node.label
                                /\ new[i].node.latency = t[i].node.latency
                                /\ new[i].ops = t[i].ops
  BY SelectKeeps
<1>2. \A i \in 1 .. Len(new) : new[i].node.latency = LatencyOf(events, OfBucket(new[i].node.label))
  BY <1>1 DEF TreeTells
<1>3. \A i \in 1 .. Len(new) : \A j \in 1 .. Len(new[i].ops) :
         new[i].ops[j].latency = LatencyOf(events, OfOp(new[i].node.label, new[i].ops[j].label))
  BY <1>1 DEF TreeTells
<1>4. ASSUME NEW e \in Ops
      PROVE  LET label == Label(e.layer, e.cls)
             IN  /\ (\A i \in 1 .. Len(new) : new[i].node.label # label)
                      => LatencyOf(events, OfBucket(label)) = 0
                 /\ (\A i \in 1 .. Len(new) : new[i].node.label = label =>
                        \A j \in 1 .. Len(new[i].ops) : new[i].ops[j].label # <<e.cls>>)
                      => LatencyOf(events, OfOp(label, <<e.cls>>)) = 0
  <2> DEFINE label == Label(e.layer, e.cls)
  <2>1. /\ (\A i \in 1 .. Len(t) : t[i].node.label # label)
             => LatencyOf(events, OfBucket(label)) = 0
        /\ (\A i \in 1 .. Len(t) : t[i].node.label = label =>
               \A j \in 1 .. Len(t[i].ops) : t[i].ops[j].label # <<e.cls>>)
             => LatencyOf(events, OfOp(label, <<e.cls>>)) = 0
    BY DEF TreeTells
  <2> HIDE DEF label
  <2>2. (\A i \in 1 .. Len(new) : new[i].node.label # label)
          => \A i \in 1 .. Len(t) : t[i].node.label # label
    BY <1>1
  <2>3. (\A i \in 1 .. Len(new) : new[i].node.label = label =>
            \A j \in 1 .. Len(new[i].ops) : new[i].ops[j].label # <<e.cls>>)
          => \A i \in 1 .. Len(t) : t[i].node.label = label =>
                \A j \in 1 .. Len(t[i].ops) : t[i].ops[j].label # <<e.cls>>
    BY <1>1
  <2> QED
    BY <2>1, <2>2, <2>3 DEF label
<1> QED
  BY <1>2, <1>3, <1>4 DEF TreeTells
-----------------------------------------------------------------------------
(* The ledgers.                                                            *)

(* The detector reports an event when it is worth it, and then by its rule.*)
LEMMA ReportedWhenWorth ==
    ASSUME NEW events \in Seq(Ops), NEW e \in Ops, LedgersTell(events)
    PROVE  LET more == Append(events, e)
               r == Reported(detector, e)
           IN  /\ Worth(more, Len(events) + 1) <=> r # "none"
               /\ r # "none" => r = Rule(e)
               /\ \A rule \in {"outlier", "cpu"} :
                    NodesOf(more, rule)
                      = NodesOf(events, rule) \cup (IF rule = r THEN {NodeName(e)} ELSE {})
<1> DEFINE more == Append(events, e)
           n == Len(events)
           r == Reported(detector, e)
<1>1. /\ n \in Nat /\ Len(more) = n + 1 /\ more[n + 1] = e
      /\ \A k \in 1 .. n : more[k] = events[k]
  BY AppendProperties, LenProperties
<1>2. /\ DOMAIN detector.seen = {"outlier", "cpu"}
      /\ \A rule \in {"outlier", "cpu"} : detector.seen[rule] = NodesOf(events, rule)
  BY DEF LedgersTell
<1>3. r = IF Rule(e) \in {"outlier", "cpu"} /\ NodeName(e) \in NodesOf(events, Rule(e))
          THEN "none" ELSE Rule(e)
  BY <1>2 DEF Reported
<1> HIDE DEF more, n, r
<1>4. \A k \in 1 .. (n + 1 - 1) : k \in 1 .. n
  BY <1>1
<1>5. \A rule : NodeName(e) \in NodesOf(events, rule)
                  <=> \E k \in 1 .. n : NodeName(events[k]) = NodeName(e) /\ Rule(events[k]) = rule
  BY DEF NodesOf, n
<1>6. Worth(more, n + 1) <=> r # "none"
  <2>1. n + 1 - 1 = n
    BY <1>1
  <2>2. Worth(more, n + 1)
          <=> /\ Rule(e) # "none"
              /\ Rule(e) \in {"outlier", "cpu"} =>
                    ~ \E k \in 1 .. n : NodeName(more[k]) = NodeName(e) /\ Rule(more[k]) = Rule(e)
    BY <1>1, <2>1 DEF Worth
  <2>3. (\E k \in 1 .. n : NodeName(more[k]) = NodeName(e) /\ Rule(more[k]) = Rule(e))
          <=> NodeName(e) \in NodesOf(events, Rule(e))
    BY <1>1, <1>5
  <2> QED
    BY <1>3, <2>2, <2>3
<1>7. ASSUME NEW rule \in {"outlier", "cpu"}
      PROVE  NodesOf(more, rule)
               = NodesOf(events, rule) \cup (IF rule = r THEN {NodeName(e)} ELSE {})
  <2>1. NodesOf(more, rule)
          = NodesOf(events, rule) \cup (IF rule = Rule(e) THEN {NodeName(e)} ELSE {})
    <3>1. NodesOf(more, rule) = {NodeName(more[k]) : k \in {k \in 1 .. (n + 1) : Rule(more[k]) = rule}}
      BY <1>1 DEF NodesOf
    <3>2. NodesOf(events, rule) = {NodeName(events[k]) : k \in {k \in 1 .. n : Rule(events[k]) = rule}}
      BY DEF NodesOf, n
    <3>3. \A k : k \in 1 .. (n + 1) <=> k \in 1 .. n \/ k = n + 1
      BY <1>1
    <3>4. \A x : x \in NodesOf(more, rule)
                   <=> x \in NodesOf(events, rule) \/ (rule = Rule(e) /\ x = NodeName(e))
      BY <1>1, <3>1, <3>2, <3>3
    <3> QED
      BY <3>4
  <2>2. rule = Rule(e) /\ rule # r => NodeName(e) \in NodesOf(events, rule)
    BY <1>3
  <2>3. rule = r => rule = Rule(e)
    BY <1>3
  <2> QED
    BY <2>1, <2>2, <2>3
<1>8. r # "none" => r = Rule(e)
  BY <1>3
<1> QED
  BY <1>6, <1>7, <1>8 DEF more, n, r

(* A capped list of the reports is kept up to date report by report.       *)
LEMMA LedgerAdds ==
    ASSUME NEW events \in Seq(Ops), NEW e \in Ops, LedgersTell(events), NEW cap \in Nat \ {0}
    PROVE  LET r == Reported(detector, e)
               list == LastN(Reports(events), cap)
           IN  LastN(Reports(Append(events, e)), cap)
                 = IF r = "none" THEN list ELSE LastN(Append(list, <<Len(events) + 1, r>>), cap)
<1> DEFINE r == Reported(detector, e)
           n == Len(events)
           A == Nat \X RuleNames
           told == Reports(events)
           more == Append(events, e)
<1>1. n \in Nat
  BY LenProperties
<1>2. /\ Worth(more, n + 1) <=> r # "none"
      /\ r # "none" => r = Rule(e)
  BY ReportedWhenWorth
<1>3. /\ told \in Seq(A)
      /\ Reports(more) = IF Worth(more, n + 1) THEN Append(told, <<n + 1, Rule(e)>>) ELSE told
  BY ReportsAdd DEF ReportLists
<1>4. r # "none" => r \in RuleNames
  BY <1>2, RuleType
<1> HIDE DEF r, n, told, more
<1>5. r # "none" => <<n + 1, r>> \in A
  BY <1>1, <1>4
<1> HIDE DEF A
<1>6. CASE r = "none"
  BY <1>2, <1>3, <1>6 DEF r, n, told, more
<1>7. CASE r # "none"
  <2> DEFINE x == <<n + 1, r>>
  <2>1. Reports(more) = Append(told, x) /\ x \in A
    BY <1>2, <1>3, <1>5, <1>7
  <2> HIDE DEF x
  <2>2. LastN(Append(LastN(told, cap), x), cap) = LastN(Append(told, x), cap)
    BY <1>3, <2>1, LastOfAppend
  <2>3. LastN(Reports(more), cap) = LastN(Append(LastN(told, cap), x), cap)
    BY <2>1, <2>2
  <2> QED
    BY <1>7, <2>3 DEF r, n, told, more, x
<1> QED
  BY <1>6, <1>7
-----------------------------------------------------------------------------
(* The steps, seen from the counters and the ledgers.                      *)

(* What the actions do to them.                                            *)
LEMMA TalliesAfterEvent ==
    ASSUME NEW e \in Ops, HandleEvent(e), DOMAIN ui = UiNames
    PROVE  /\ ui'.stream = LastN(Append(ui.stream, Len(fed')), StreamCap)
           /\ ui'.total = ui.total + 1 /\ ui'.anomalies = ui.anomalies
<1> DEFINE ids == LastN(Append(ui.stream, Len(fed')), StreamCap)
           count == ui.total + 1
<1>1. ui' = [ui EXCEPT !.stream = ids, !.total = count]
  BY Zenon DEF HandleEvent
<1> HIDE DEF ids, count
<1>2. ui'.stream = ids /\ ui'.total = count /\ ui'.anomalies = ui.anomalies
  BY <1>1, Zenon DEF UiNames
<1> QED
  BY <1>2 DEF ids, count

(* The inspection of an event may add to the anomalies.                    *)
LEMMA TalliesAfterInspection ==
    ASSUME InspectEvent, DOMAIN ui = UiNames
    PROVE  LET id == Len(fed)
               r  == Reported(detector, fed[id])
           IN  /\ ui'.stream = ui.stream /\ ui'.total = ui.total
               /\ ui'.anomalies = IF r = "none" THEN ui.anomalies
                                  ELSE LastN(Append(ui.anomalies, <<id, r>>), AnomalyCap)
<1> DEFINE r == Reported(detector, fed[Len(fed)])
           list == IF r = "none" THEN ui.anomalies
                   ELSE LastN(Append(ui.anomalies, <<Len(fed), r>>), AnomalyCap)
<1>1. PICK a : ui' = [ui EXCEPT !.metrics = a, !.anomalies = list]
  BY Zenon DEF InspectEvent
<1> HIDE DEF list
<1>2. ui'.stream = ui.stream /\ ui'.total = ui.total /\ ui'.anomalies = list
  BY <1>1, Zenon DEF UiNames
<1> QED
  BY <1>2 DEF list

(* All other steps leave them as they are.                                 *)
LEMMA TalliesKept ==
    ASSUME [Next]_vars, DOMAIN ui = UiNames,
           ~ \E e \in Ops : HandleEvent(e), ~ InspectEvent
    PROVE  /\ ui'.stream = ui.stream /\ ui'.total = ui.total /\ ui'.anomalies = ui.anomalies
           /\ UNCHANGED <<fed, detector>>
           /\ cpc' = "inspect" <=> cpc = "inspect"
<1>1. /\ UNCHANGED <<fed, detector>>
      /\ cpc' = "inspect" <=> cpc = "inspect"
  BY DEF Next, Consumer, UiThread, BeginTurn, EndDrain, RefreshUi, EditFilter, Quit, TurnFocus,
         MoveCursor, SetCursor, PressSpace, CheckSize, ResolveRow, PanAttention, StreamKey,
         Draw, vars, consumerVars
<1>2. ui'.stream = ui.stream /\ ui'.total = ui.total /\ ui'.anomalies = ui.anomalies
  <2>1. CASE EndDrain
    <3>1. PICK a : ui' = [ui EXCEPT !.attention = a]
      BY <2>1, Zenon DEF EndDrain
    <3> QED
      BY <3>1, Zenon DEF UiNames
  <2>2. CASE RefreshUi
    <3>1. PICK a, b : ui' = [ui EXCEPT !.rows = a, !.selected = b]
      BY <2>2, Zenon DEF RefreshUi
    <3> QED
      BY <3>1, Zenon DEF UiNames
  <2>3. CASE SetCursor
    <3>1. PICK a : ui' = [ui EXCEPT !.selected = a]
      BY <2>3 DEF SetCursor
    <3> QED
      BY <3>1, Zenon DEF UiNames
  <2> QED
    BY <2>1, <2>2, <2>3, Writers
<1> QED
  BY <1>1, <1>2

(* The caps are no zeros.                                                  *)
LEMMA Caps ==
    /\ StreamCap \in Nat \ {0} /\ LedgerCap \in Nat \ {0} /\ AnomalyCap \in Nat \ {0}
BY PanesAssumption DEF PanesAssumption

(* An event is handled: the counters and the tree know it, the ledgers not *)
(* yet.                                                                    *)
LEMMA ToldAfterEvent ==
    ASSUME PanesInv, EventsTold, NEW e \in Ops, HandleEvent(e)
    PROVE  EventsTold'
<1>1. fed \in Seq(Ops) /\ tree \in Seq(Buckets) /\ TreeHoldsItsOps(tree) /\ DOMAIN ui = UiNames
  BY DEF PanesInv, PanesTypes, UiNames
<1>2. /\ cpc = "drain" /\ cpc' = "inspect" /\ UNCHANGED detector
      /\ fed' = Append(fed, e) /\ tree' = Update(tree, e, Len(fed'))
  BY DEF HandleEvent
<1>3. Len(fed) \in Nat /\ Len(fed') = Len(fed) + 1 /\ fed' # <<>>
  BY <1>1, <1>2, AppendProperties, LenProperties
<1>4. /\ ui.total = Len(fed) /\ ui.stream = LastN(Ids(fed), StreamCap)
      /\ TreeTells(tree, fed) /\ LedgersTell(fed)
  BY <1>2 DEF EventsTold
<1>5. ui'.total = Len(fed')
  BY <1>1, <1>3, <1>4, TalliesAfterEvent
<1>6. ui'.stream = LastN(Ids(fed'), StreamCap)
  <2> DEFINE ids == Ids(fed)
             id == Len(fed')
  <2>1. ids \in Seq(Nat) /\ Ids(fed') = Append(ids, id) /\ id \in Nat
    BY <1>1, <1>2, <1>3, IdsAdd
  <2>2. ui'.stream = LastN(Append(LastN(ids, StreamCap), id), StreamCap)
    BY <1>1, <1>4, TalliesAfterEvent
  <2> HIDE DEF ids, id
  <2>3. LastN(Append(LastN(ids, StreamCap), id), StreamCap) = LastN(Append(ids, id), StreamCap)
    BY <2>1, Caps, LastOfAppend
  <2> QED
    BY <2>1, <2>2, <2>3
<1>7. TreeTells(tree, fed)'
  <2>1. TreeTells(tree', fed')
    BY <1>1, <1>2, <1>3, <1>4, EventIsCounted
  <2> QED
    BY <2>1 DEF TreeTells
<1>8. Front(fed') = fed
  BY <1>1, <1>2, FrontOfAppend
<1>9. LedgersTell(Front(fed))'
  <2>1. ui'.anomalies = ui.anomalies
    BY <1>1, TalliesAfterEvent
  <2>2. /\ detector'.ledger = LastN(Reports(fed), LedgerCap)
        /\ DOMAIN detector'.seen = {"outlier", "cpu"}
        /\ \A rule \in {"outlier", "cpu"} : detector'.seen[rule] = NodesOf(fed, rule)
        /\ ui'.anomalies = LastN(Reports(fed), AnomalyCap)
    BY <1>2, <1>4, <2>1 DEF LedgersTell
  <2> QED
    BY <1>8, <2>2 DEF LedgersTell
<1> QED
  BY <1>2, <1>3, <1>5, <1>6, <1>7, <1>9 DEF EventsTold

(* It is inspected: the ledgers know it.                                   *)
LEMMA ToldAfterInspection ==
    ASSUME PanesInv, EventsTold, InspectEvent
    PROVE  EventsTold'
<1>1. fed \in Seq(Ops) /\ DOMAIN ui = UiNames
  BY DEF PanesInv, PanesTypes, UiNames
<1>2. /\ cpc = "inspect" /\ cpc' = "drain" /\ UNCHANGED <<fed, tree>>
      /\ detector' = Inspected(detector, fed[Len(fed)], Len(fed))
  BY DEF InspectEvent
<1>3. /\ ui.total = Len(fed) /\ ui.stream = LastN(Ids(fed), StreamCap)
      /\ TreeTells(tree, fed) /\ fed # <<>> /\ LedgersTell(Front(fed))
  BY <1>2 DEF EventsTold
<1>4. PICK past \in Seq(Ops), e \in Ops : fed = Append(past, e)
  BY <1>1, <1>3, SequenceEmptyOrAppend
<1>5. /\ Front(fed) = past /\ LedgersTell(past)
      /\ Len(fed) = Len(past) + 1 /\ fed[Len(fed)] = e /\ Len(past) \in Nat
  <2>1. Front(fed) = past
    BY <1>4, FrontOfAppend
  <2> QED
    BY <1>3, <1>4, <2>1, AppendProperties, LenProperties
<1> DEFINE r == Reported(detector, e)
           id == Len(past) + 1
<1>6. /\ detector.ledger = LastN(Reports(past), LedgerCap)
      /\ DOMAIN detector.seen = {"outlier", "cpu"}
      /\ \A rule \in {"outlier", "cpu"} : detector.seen[rule] = NodesOf(past, rule)
      /\ ui.anomalies = LastN(Reports(past), AnomalyCap)
  BY <1>5 DEF LedgersTell
<1>7. /\ detector'.ledger = IF r = "none" THEN detector.ledger
                            ELSE LastN(Append(detector.ledger, <<id, r>>), LedgerCap)
      /\ DOMAIN detector'.seen = {"outlier", "cpu"}
      /\ \A rule \in {"outlier", "cpu"} :
           detector'.seen[rule] = detector.seen[rule] \cup (IF rule = r THEN {NodeName(e)} ELSE {})
  <2>1. detector' = Inspected(detector, e, id)
    BY <1>2, <1>5
  <2>2. CASE r = "none"
    <3>1. detector' = detector
      BY <2>1, <2>2 DEF Inspected
    <3> QED
      BY <1>6, <2>2, <3>1
  <2>3. CASE r # "none"
    <3>1. detector' = [ledger |-> LastN(Append(detector.ledger, <<id, r>>), LedgerCap),
                       seen   |-> [rule \in DOMAIN detector.seen |->
                                     detector.seen[rule] \cup (IF rule = r THEN {NodeName(e)} ELSE {})]]
      BY <2>1, <2>3 DEF Inspected
    <3> DEFINE list == LastN(Append(detector.ledger, <<id, r>>), LedgerCap)
               names == [rule \in DOMAIN detector.seen |->
                            detector.seen[rule] \cup (IF rule = r THEN {NodeName(e)} ELSE {})]
    <3>2. DOMAIN names = {"outlier", "cpu"}
          /\ \A rule \in {"outlier", "cpu"} :
               names[rule] = detector.seen[rule] \cup (IF rule = r THEN {NodeName(e)} ELSE {})
      BY <1>6
    <3>3. detector' = [ledger |-> list, seen |-> names]
      BY <3>1
    <3> HIDE DEF list, names, r, id
    <3>4. detector'.ledger = list /\ detector'.seen = names
      BY <3>3
    <3> QED
      BY <2>3, <3>2, <3>4 DEF list
  <2> QED
    BY <2>2, <2>3
<1>8. /\ ui'.stream = ui.stream /\ ui'.total = ui.total
      /\ ui'.anomalies = IF r = "none" THEN ui.anomalies
                         ELSE LastN(Append(ui.anomalies, <<id, r>>), AnomalyCap)
  BY <1>1, <1>5, TalliesAfterInspection
<1>9. \A cap \in Nat \ {0} :
        LastN(Reports(fed), cap)
          = IF r = "none" THEN LastN(Reports(past), cap)
            ELSE LastN(Append(LastN(Reports(past), cap), <<id, r>>), cap)
  BY <1>4, <1>5, LedgerAdds
<1>10. \A rule \in {"outlier", "cpu"} :
         NodesOf(fed, rule) = NodesOf(past, rule) \cup (IF rule = r THEN {NodeName(e)} ELSE {})
  BY <1>4, <1>5, ReportedWhenWorth
<1> HIDE DEF r, id
<1>11. /\ detector'.ledger = LastN(Reports(fed'), LedgerCap)
       /\ DOMAIN detector'.seen = {"outlier", "cpu"}
       /\ \A rule \in {"outlier", "cpu"} : detector'.seen[rule] = NodesOf(fed', rule)
       /\ ui'.anomalies = LastN(Reports(fed'), AnomalyCap)
  <2>1. detector'.ledger = LastN(Reports(fed), LedgerCap)
    BY <1>6, <1>7, <1>9, Caps
  <2>2. ui'.anomalies = LastN(Reports(fed), AnomalyCap)
    BY <1>6, <1>8, <1>9, Caps
  <2>3. \A rule \in {"outlier", "cpu"} : detector'.seen[rule] = NodesOf(fed, rule)
    BY <1>6, <1>7, <1>10
  <2> QED
    BY <1>2, <1>7, <2>1, <2>2, <2>3
<1>12. LedgersTell(fed)'
  BY <1>11 DEF LedgersTell
<1>13. TreeTells(tree, fed)'
  BY <1>2, <1>3 DEF TreeTells
<1> QED
  BY <1>2, <1>3, <1>8, <1>12, <1>13 DEF EventsTold

(* At the start nothing has happened and nothing is told.                  *)
LEMMA ToldInit == Init => EventsTold
<1> SUFFICES ASSUME Init PROVE EventsTold
  OBVIOUS
<1>1. /\ fed = <<>> /\ tree = <<>> /\ cpc = "turn"
      /\ ui.total = 0 /\ ui.stream = <<>> /\ ui.anomalies = <<>>
      /\ detector = [ledger |-> <<>>, seen |-> [rule \in {"outlier", "cpu"} |-> {}]]
  BY DEF Init
<1>2. <<>> \in Seq(Ops) /\ Len(<<>>) = 0 /\ \A A : <<>> \in Seq(A)
  BY EmptySeq
<1>3. \A n \in Nat \ {0} : LastN(<<>>, n) = <<>>
  <2> SUFFICES ASSUME NEW n \in Nat \ {0} PROVE LastN(<<>>, n) = <<>>
    OBVIOUS
  <2> DEFINE none == <<>>
  <2>1. none \in Seq(Nat) /\ Len(none) = 0 /\ 0 <= n
    BY <1>2
  <2> HIDE DEF none
  <2>2. LastN(none, n) \in Seq(Nat) /\ Len(LastN(none, n)) = 0
    BY <2>1, LastOnes
  <2> QED
    BY <2>2, EmptySeq DEF none
<1>4. Ids(<<>>) = <<>>
  BY <1>2 DEF Ids
<1>5. TreeTells(tree, fed)
  <2>1. \A i : i \notin 1 .. Len(tree)
    BY <1>1, <1>2
  <2>2. ASSUME NEW e \in Ops, NEW S PROVE LatencyOf(fed, S) = 0
    BY <1>1, <1>2, <2>2, LatencyAdds
  <2> QED
    BY <2>1, <2>2 DEF TreeTells
<1>6. LedgersTell(fed)
  <2>1. \A rule : NodesOf(fed, rule) = {}
    BY <1>1, <1>2 DEF NodesOf
  <2>2. Reports(fed) = <<>>
    <3>1. PICK f : Reporting(f, fed) /\ Reports(fed) = f[Len(fed)]
      BY <1>1, <1>2, ReportsFunction
    <3> QED
      BY <1>1, <1>2, <3>1 DEF Reporting
  <2>3. /\ detector.ledger = <<>> /\ DOMAIN detector.seen = {"outlier", "cpu"}
        /\ \A rule \in {"outlier", "cpu"} : detector.seen[rule] = {}
    BY <1>1
  <2> QED
    BY <1>1, <1>3, <2>1, <2>2, <2>3, Caps DEF LedgersTell
<1> QED
  BY <1>1, <1>2, <1>3, <1>4, <1>5, <1>6, Caps DEF EventsTold

(* The other steps tell nothing new.                                       *)
LEMMA ToldOtherwise ==
    ASSUME PanesInv, EventsTold, [Next]_vars,
           ~ \E e \in Ops : HandleEvent(e), ~ InspectEvent
    PROVE  EventsTold'
<1>1. fed \in Seq(Ops) /\ tree \in Seq(Buckets) /\ TreeHoldsItsOps(tree) /\ DOMAIN ui = UiNames
  BY DEF PanesInv, PanesTypes, UiNames
<1>2. /\ ui'.stream = ui.stream /\ ui'.total = ui.total /\ ui'.anomalies = ui.anomalies
      /\ fed' = fed /\ detector' = detector
      /\ cpc' = "inspect" <=> cpc = "inspect"
  BY <1>1, TalliesKept
<1>3. TreeTells(tree', fed)
  <2>1. TreeTells(tree, fed)
    BY DEF EventsTold
  <2>2. CASE tree' = tree
    BY <2>1, <2>2
  <2>3. CASE BeginTurn /\ pending # NoRequest
    <3>1. tree' = Select(tree, pending)
      BY <2>3 DEF BeginTurn
    <3> QED
      BY <1>1, <2>1, <3>1, SelectCountsNothing
  <2> QED
    BY <2>2, <2>3, Writers
<1>4. TreeTells(tree, fed)'
  BY <1>2, <1>3 DEF TreeTells
<1>5. \A events : LedgersTell(events) =>
         /\ detector'.ledger = LastN(Reports(events), LedgerCap)
         /\ DOMAIN detector'.seen = {"outlier", "cpu"}
         /\ \A rule \in {"outlier", "cpu"} : detector'.seen[rule] = NodesOf(events, rule)
         /\ ui'.anomalies = LastN(Reports(events), AnomalyCap)
  BY <1>2 DEF LedgersTell
<1>6. CASE cpc = "inspect"
  <2>1. LedgersTell(Front(fed))'
    <3>1. LedgersTell(Front(fed)) /\ Front(fed') = Front(fed)
      BY <1>2, <1>6 DEF EventsTold
    <3> QED
      BY <1>5, <3>1 DEF LedgersTell
  <2> QED
    BY <1>2, <1>4, <1>6, <2>1 DEF EventsTold
<1>7. CASE cpc # "inspect"
  <2>1. LedgersTell(fed)'
    <3>1. LedgersTell(fed)
      BY <1>7 DEF EventsTold
    <3> QED
      BY <1>2, <1>5, <3>1 DEF LedgersTell
  <2> QED
    BY <1>2, <1>4, <1>7, <2>1 DEF EventsTold
<1> QED
  BY <1>6, <1>7

(* PanesTellTheEvents: the latencies of the tree, the stream and both      *)
(* ledgers are those of all the events (main.cpp 172-215).                 *)
THEOREM PanesEventsTold == Spec => []PanesTellTheEvents
<1>1. EventsTold /\ PanesInv /\ [Next]_vars => EventsTold'
  BY ToldAfterEvent, ToldAfterInspection, ToldOtherwise
<1>2. EventsTold /\ PanesInv => PanesTellTheEvents
  <2> SUFFICES ASSUME EventsTold, PanesInv PROVE PanesTellTheEvents
    OBVIOUS
  <2>1. fed \in Seq(Ops) /\ tree \in Seq(Buckets) /\ DOMAIN fed = 1 .. Len(fed)
    BY LenProperties DEF PanesInv, PanesTypes
  <2>2. ui.total = Len(fed) /\ ui.stream = LastN([k \in DOMAIN fed |-> k], StreamCap)
    BY <2>1 DEF EventsTold, Ids
  <2>3. ASSUME NEW b \in Range(tree)
        PROVE  /\ b.node.latency = LatencyOf(fed, OfBucket(b.node.label))
               /\ \A op \in Range(b.ops) : op.latency = LatencyOf(fed, OfOp(b.node.label, op.label))
    <3>1. DOMAIN tree = 1 .. Len(tree)
      BY <2>1, LenProperties
    <3>2. PICK i \in 1 .. Len(tree) : b = tree[i]
      BY <3>1 DEF Range
    <3>3. tree[i] \in Buckets
      BY <2>1, ElementOfSeq
    <3>4. DOMAIN tree[i].ops = 1 .. Len(tree[i].ops)
      BY <3>3, LenProperties DEF Buckets
    <3>5. /\ tree[i].node.latency = LatencyOf(fed, OfBucket(tree[i].node.label))
          /\ \A j \in 1 .. Len(tree[i].ops) :
                tree[i].ops[j].latency = LatencyOf(fed, OfOp(tree[i].node.label, tree[i].ops[j].label))
      BY DEF EventsTold, TreeTells
    <3> QED
      BY <3>2, <3>4, <3>5 DEF Range
  <2>4. cpc # "inspect" => /\ detector.ledger = LastN(Reports(fed), LedgerCap)
                           /\ ui.anomalies = LastN(Reports(fed), AnomalyCap)
    BY DEF EventsTold, LedgersTell
  <2> QED
    BY <2>2, <2>3, <2>4 DEF PanesTellTheEvents
<1> QED
  BY ToldInit, PanesInvariant, <1>1, <1>2, PTL DEF Spec
=============================================================================
