---------------------------- MODULE SidecarProofs ---------------------------
(***************************************************************************)
(* The receiver handles what the sidecar's hooks have sent, line by line,  *)
(* for any number of threads, layers, heads and lines, and any room on the *)
(* connection and in the ring.                                             *)
(*                                                                         *)
(* LinesAsSent speaks of what has been handled; the invariant under it is  *)
(* about what is still on its way.  The "ready" line can only be first on  *)
(* the wire, the "done" line and a line that was cut have no whole line of *)
(* a hook behind them, so a whole line of a hook is numbered by its place  *)
(* on the wire, counted from the lines the receiver has read (Numbered).   *)
(* SinkInv, about the selection and the sink, stands on it: the line in    *)
(* hand is newer than the one published last.                              *)
(***************************************************************************)
EXTENDS SidecarLink, SequenceTheorems, TLAPS

Hooks == {"event", "matrix"}
Made == [kind : Hooks, layer : Layers]
Line == [kind : {"ready", "done"}, whole : {TRUE}]
        \cup [n : Nat, kind : Hooks, layer : Layers, whole : BOOLEAN]

IsHooks(l) == l.kind \in Hooks /\ l.whole

(* Lines of the hooks that the receiver has read.                          *)
Base == IF rpc = "handle" /\ line.kind \in Hooks THEN received + 1 ELSE received

(* Places on the wire that the "ready" line takes.                         *)
Offset(w) == IF Len(w) > 0 /\ w[1].kind = "ready" THEN 1 ELSE 0

Types ==
    /\ wire \in Seq(Line)
    /\ todo \in [Threads -> Seq(Made)]
    /\ sent \in Nat /\ received \in Nat /\ accepted \in Nat /\ dropped \in Nat
    /\ handled \in Seq(Nat) /\ queue \in Seq(Nat)

Numbered(w, base, top) ==
    \A i \in 1 .. Len(w) :
        IsHooks(w[i]) => w[i].n = base + i - Offset(w) /\ w[i].n <= top

Ordering(w) ==
    \A i, j \in 1 .. Len(w) : i < j =>
        /\ w[j].kind # "ready"
        /\ w[i].kind = "done" \/ ~ w[i].whole => ~ IsHooks(w[j])

Wire == Numbered(wire, Base, sent) /\ Ordering(wire) /\ Base <= sent

BeforeReady ==
    peer \in {"off", "loading"} =>
        wire = <<>> /\ sent = 0 /\ received = 0 /\ rpc # "handle"

WhileGenerating ==
    peer = "generating" =>
        /\ \A i \in 1 .. Len(wire) : wire[i].kind # "done" /\ wire[i].whole
        /\ sent = Base + Len(wire) - Offset(wire)

InHand == rpc = "handle" /\ line.kind \in Hooks => line.n = received + 1

SidecarInv ==
    /\ Types
    /\ Wire
    /\ BeforeReady /\ WhileGenerating /\ InHand
    /\ LinesAsSent
-----------------------------------------------------------------------------
(* A line is put at the end of the wire.                                   *)
LEMMA WireGrows ==
    ASSUME NEW w \in Seq(Line), NEW l \in Line,
           NEW base \in Nat, NEW top \in Nat, NEW newTop \in Nat, top <= newTop,
           Numbered(w, base, top), Ordering(w),
           l.kind = "ready" => w = <<>>,
           IsHooks(l) =>
               /\ l.n = base + Len(w) + 1 - Offset(w) /\ l.n <= newTop
               /\ \A i \in 1 .. Len(w) : w[i].kind # "done" /\ w[i].whole
    PROVE  /\ Append(w, l) \in Seq(Line)
           /\ Numbered(Append(w, l), base, newTop)
           /\ Ordering(Append(w, l))
<1> DEFINE v == Append(w, l)
<1>1. /\ v \in Seq(Line) /\ Len(w) \in Nat /\ Len(v) = Len(w) + 1
      /\ \A i \in 1 .. Len(w) : v[i] = w[i] /\ w[i] \in Line
      /\ v[Len(w) + 1] = l
  BY AppendProperties, LenProperties, ElementOfSeq
<1>2. Len(w) = 0 => w = <<>>
  BY EmptySeq
<1>3. Len(w) > 0 => Offset(v) = Offset(w)
  BY <1>1 DEF Offset
<1>4. Len(w) = 0 /\ IsHooks(l) => Offset(v) = 0 /\ Offset(w) = 0
  BY <1>1 DEF Offset, IsHooks, Hooks
<1>5. ASSUME NEW i \in 1 .. Len(w)
      PROVE  w[i] \in Line /\ (IsHooks(w[i]) => w[i].n \in Nat)
  BY <1>1, <1>5 DEF Line, IsHooks, Hooks
<1> HIDE DEF v
<1>6. Numbered(v, base, newTop)
  <2> SUFFICES ASSUME NEW i \in 1 .. Len(v), IsHooks(v[i])
               PROVE  v[i].n = base + i - Offset(v) /\ v[i].n <= newTop
    BY DEF Numbered
  <2>1. Offset(w) \in {0, 1}
    BY DEF Offset
  <2>2. CASE i <= Len(w)
    <3>1. i \in 1 .. Len(w) /\ v[i] = w[i]
      BY <1>1, <2>2
    <3>2. v[i].n = base + i - Offset(w) /\ v[i].n <= top
      BY <3>1 DEF Numbered
    <3>3. Offset(v) = Offset(w)
      BY <3>1, <1>1, <1>3
    <3>4. v[i].n \in Nat
      BY <3>1, <1>5
    <3>5. \A n \in Nat : n <= top => n <= newTop
      OBVIOUS
    <3>6. v[i].n <= newTop
      BY <3>2, <3>4, <3>5
    <3> QED
      BY <3>2, <3>3, <3>6
  <2>3. CASE i = Len(w) + 1
    <3>1. v[i] = l
      BY <1>1, <2>3
    <3>2. Offset(v) = Offset(w)
      BY <1>1, <1>3, <1>4, <3>1
    <3>3. IsHooks(l)
      BY <3>1
    <3>4. l.n = base + Len(w) + 1 - Offset(w) /\ l.n <= newTop
      BY <3>3
    <3>5. \A x \in Nat, o \in {0, 1} : base + x + 1 - o = base + (x + 1) - o
      OBVIOUS
    <3>6. base + Len(w) + 1 - Offset(w) = base + (Len(w) + 1) - Offset(w)
      BY <3>5, <2>1, <1>1
    <3> QED
      BY <3>1, <3>2, <3>4, <3>6, <2>3
  <2> QED
    BY <1>1, <2>2, <2>3
<1>7. Ordering(v)
  <2> SUFFICES ASSUME NEW i \in 1 .. Len(v), NEW j \in 1 .. Len(v), i < j
               PROVE  /\ v[j].kind # "ready"
                      /\ v[i].kind = "done" \/ ~ v[i].whole => ~ IsHooks(v[j])
    BY DEF Ordering
  <2>1. i \in 1 .. Len(w) /\ v[i] = w[i]
    BY <1>1
  <2>2. CASE j <= Len(w)
    <3>1. j \in 1 .. Len(w) /\ v[j] = w[j]
      BY <1>1, <2>2
    <3> QED
      BY <2>1, <3>1 DEF Ordering
  <2>3. CASE j = Len(w) + 1
    <3>1. v[j] = l /\ w # <<>>
      BY <1>1, <2>1, <2>3, EmptySeq
    <3> QED
      BY <2>1, <3>1
  <2> QED
    BY <1>1, <2>2, <2>3
<1> QED
  BY <1>1, <1>6, <1>7 DEF v

(* The line at the front is read; it was whole.                            *)
LEMMA WireShrinks ==
    ASSUME NEW w \in Seq(Line), w # <<>>, NEW base \in Nat, NEW top \in Nat,
           Numbered(w, base, top), Ordering(w), Head(w).whole
    PROVE  /\ Tail(w) \in Seq(Line)
           /\ Numbered(Tail(w), IF Head(w).kind \in Hooks THEN base + 1 ELSE base, top)
           /\ Ordering(Tail(w))
<1> DEFINE v == Tail(w)
           h == Head(w)
           next == IF h.kind \in Hooks THEN base + 1 ELSE base
<1>1. /\ v \in Seq(Line) /\ Len(w) \in Nat \ {0} /\ Len(v) = Len(w) - 1
      /\ \A i \in 1 .. Len(v) : v[i] = w[i + 1]
      /\ h \in Line
  BY HeadTailProperties, EmptySeq
<1>2. h = w[1]
  OBVIOUS
<1>3. h.kind \in Hooks \cup {"ready", "done"}
  BY <1>1 DEF Line
<1>4. Len(v) > 0 => v[1].kind # "ready"
  BY <1>1 DEF Ordering
<1>5. Offset(v) = 0
  BY <1>4 DEF Offset
<1>6. Offset(w) = IF h.kind = "ready" THEN 1 ELSE 0
  BY <1>1, <1>2 DEF Offset
<1> HIDE DEF v, h
<1>7. Numbered(v, next, top)
  <2> SUFFICES ASSUME NEW i \in 1 .. Len(v), IsHooks(v[i])
               PROVE  v[i].n = next + i - Offset(v) /\ v[i].n <= top
    BY DEF Numbered
  <2>1. i + 1 \in 1 .. Len(w) /\ v[i] = w[i + 1]
    BY <1>1
  <2>2. v[i].n = base + (i + 1) - Offset(w) /\ v[i].n <= top
    BY <2>1 DEF Numbered
  <2>3. h.kind # "done"
    BY <1>1, <1>2, <2>1 DEF Ordering
  <2>4. CASE h.kind = "ready"
    <3>1. next = base /\ Offset(w) = 1
      BY <2>4, <1>6 DEF Hooks
    <3> QED
      BY <2>2, <3>1, <1>5
  <2>5. CASE h.kind \in Hooks
    <3>1. next = base + 1 /\ Offset(w) = 0
      BY <2>5, <1>6 DEF Hooks
    <3> QED
      BY <2>2, <3>1, <1>5
  <2> QED
    BY <1>3, <2>3, <2>4, <2>5
<1>8. Ordering(v)
  <2> SUFFICES ASSUME NEW i \in 1 .. Len(v), NEW j \in 1 .. Len(v), i < j
               PROVE  /\ v[j].kind # "ready"
                      /\ v[i].kind = "done" \/ ~ v[i].whole => ~ IsHooks(v[j])
    BY DEF Ordering
  <2>1. /\ i + 1 \in 1 .. Len(w) /\ v[i] = w[i + 1]
        /\ j + 1 \in 1 .. Len(w) /\ v[j] = w[j + 1]
        /\ i + 1 < j + 1
    BY <1>1
  <2> QED
    BY <2>1 DEF Ordering
<1> QED
  BY <1>1, <1>7, <1>8 DEF v, h
-----------------------------------------------------------------------------
(* It holds at the start, when nothing has been sent.                      *)
THEOREM SidecarInit == Init => SidecarInv
<1> SUFFICES ASSUME Init PROVE SidecarInv
  OBVIOUS
<1> USE DEF Init, ChannelInit
<1>1. Types
  BY EmptySeq DEF Types
<1>2. Wire
  BY EmptySeq DEF Wire, Numbered, Ordering, Base
<1>3. BeforeReady /\ WhileGenerating /\ InHand
  BY DEF BeforeReady, WhileGenerating, InHand
<1>4. LinesAsSent
  BY DEF LinesAsSent, IsStrictlyIncreasing
<1> QED
  BY <1>1, <1>2, <1>3, <1>4 DEF SidecarInv
-----------------------------------------------------------------------------
(* Most steps touch neither the wire nor what has been counted.            *)
Quiet ==
    /\ UNCHANGED <<wire, sent, received, handled, accepted, dropped, queue>>
    /\ Base' = Base
    /\ rpc' = "handle" => rpc = "handle" /\ line' = line
    /\ peer' = "generating" => peer = "generating"
    /\ peer' \in {"off", "loading"} => peer \in {"off", "loading"}
    /\ todo' \in [Threads -> Seq(Made)]

(* They keep the invariant.                                                *)
LEMMA QuietStep ==
    ASSUME SidecarInv, Quiet
    PROVE  SidecarInv'
<1> USE DEF SidecarInv, Quiet
<1>1. Types'
  BY DEF Types
<1>2. Wire'
  BY DEF Wire, Numbered, Ordering, Offset
<1>3. BeforeReady'
  BY DEF BeforeReady
<1>4. WhileGenerating'
  BY DEF WhileGenerating, Offset
<1>5. InHand'
  BY DEF InHand
<1>6. LinesAsSent'
  BY DEF LinesAsSent, IsStrictlyIncreasing
<1> QED
  BY <1>1, <1>2, <1>3, <1>4, <1>5, <1>6

(* Of the sidecar, those that send nothing ...                             *)
LEMMA QuietSidecar ==
    ASSUME SidecarInv, \/ Connect \/ Close
                       \/ \E t \in Threads : HookCalled(t) \/ LoseLine(t)
    PROVE  Quiet
<1> USE DEF Quiet, Base, channel, runVars
<1>0. todo \in [Threads -> Seq(Made)]
  BY DEF SidecarInv, Types
<1>1. CASE Connect BY <1>0, <1>1 DEF Connect
<1>2. CASE Close BY <1>0, <1>2 DEF Close
<1>3. ASSUME NEW t \in Threads, HookCalled(t)
      PROVE  Quiet
  <2>1. PICK layer \in Layers, kind \in Hooks, heads \in 1 .. HeadCap :
            todo' = [todo EXCEPT ![t] = [h \in 1 .. heads |-> [kind |-> kind, layer |-> layer]]]
    BY <1>3 DEF HookCalled, Hooks
  <2>2. [h \in 1 .. heads |-> [kind |-> kind, layer |-> layer]] \in Seq(Made)
    <3>1. heads \in Nat
      BY SidecarAssumption
    <3> QED
      BY <3>1 DEF Made
  <2>3. todo' \in [Threads -> Seq(Made)]
    BY <1>0, <2>1, <2>2
  <2> QED
    BY <1>3, <2>3 DEF HookCalled
<1>4. ASSUME NEW t \in Threads, LoseLine(t)
      PROVE  Quiet
  <2>1. Tail(todo[t]) \in Seq(Made)
    BY <1>0, <1>4, HeadTailProperties DEF LoseLine
  <2>2. todo' \in [Threads -> Seq(Made)]
    BY <1>0, <1>4, <2>1 DEF LoseLine
  <2> QED
    BY <1>4, <2>2 DEF LoseLine
<1> QED
  BY <1>1, <1>2, <1>3, <1>4

(* ... of the receiver, those that neither read nor push ...               *)
LEMMA QuietReceiver ==
    ASSUME SidecarInv,
           Listen \/ AcceptPeer \/ TestAlive \/ SkipControl \/ LoadTarget \/ Publish
    PROVE  Quiet
<1> USE DEF Quiet, Base, Hooks, channel, sidecarVars, sinkVars
<1>0. todo \in [Threads -> Seq(Made)]
  BY DEF SidecarInv, Types
<1>1. CASE Listen BY <1>0, <1>1 DEF Listen
<1>2. CASE AcceptPeer BY <1>0, <1>2 DEF AcceptPeer
<1>3. CASE TestAlive BY <1>0, <1>3 DEF TestAlive
<1>4. CASE SkipControl BY <1>0, <1>4 DEF SkipControl
<1>5. CASE LoadTarget BY <1>0, <1>5 DEF LoadTarget
<1>6. CASE Publish BY <1>0, <1>6 DEF Publish
<1> QED
  BY <1>1, <1>2, <1>3, <1>4, <1>5, <1>6

(* ... of the receiver's owner, all but pop.                               *)
LEMMA QuietOwner ==
    ASSUME SidecarInv,
           TakeMatrix \/ Stop \/ \E layer \in Layers : SelectLayer(layer)
    PROVE  Quiet
<1> USE DEF Quiet, Base, channel, sidecarVars, runVars
<1>0. todo \in [Threads -> Seq(Made)]
  BY DEF SidecarInv, Types
<1>1. CASE TakeMatrix BY <1>0, <1>1 DEF TakeMatrix
<1>2. CASE Stop BY <1>0, <1>2 DEF Stop
<1>3. CASE \E layer \in Layers : SelectLayer(layer) BY <1>0, <1>3 DEF SelectLayer
<1> QED
  BY <1>1, <1>2, <1>3
-----------------------------------------------------------------------------
(* The steps that put a line l on the wire: main's control lines, a hook's *)
(* line, and one that is cut when the process dies.                        *)
LEMMA SendStep ==
    ASSUME SidecarInv, NEW STATE l, l \in Line,
           wire' = Append(wire, l),
           sent' = (IF IsHooks(l) THEN sent + 1 ELSE sent),
           IsHooks(l) => /\ peer = "generating" /\ l.n = sent + 1,
           l.kind = "ready" => wire = <<>>,
           peer' \notin {"off", "loading"},
           peer' = "generating" =>
               /\ l.kind # "done" /\ l.whole
               /\ IsHooks(l) \/ (l.kind = "ready" /\ wire = <<>> /\ sent = Base),
           todo' \in [Threads -> Seq(Made)],
           UNCHANGED <<channel, runVars>>
    PROVE  SidecarInv'
<1> USE DEF runVars, channel
<1>1. /\ Types /\ Wire /\ WhileGenerating /\ InHand /\ LinesAsSent
  BY DEF SidecarInv
<1>2. /\ wire \in Seq(Line) /\ sent \in Nat /\ received \in Nat /\ Base \in Nat
      /\ Base' = Base /\ sent' \in Nat /\ sent <= sent'
      /\ Numbered(wire, Base, sent) /\ Ordering(wire) /\ Base <= sent
  BY <1>1 DEF Types, Wire, Base
<1>3. IsHooks(l) =>
          /\ \A i \in 1 .. Len(wire) : wire[i].kind # "done" /\ wire[i].whole
          /\ sent = Base + Len(wire) - Offset(wire)
  BY <1>1 DEF WhileGenerating
<1>4. Len(wire) \in Nat /\ Offset(wire) \in {0, 1}
  BY <1>2, LenProperties DEF Offset
<1>5. IsHooks(l) => l.n = Base + Len(wire) + 1 - Offset(wire) /\ l.n <= sent'
  BY <1>2, <1>3, <1>4
<1>6. /\ Append(wire, l) \in Seq(Line)
      /\ Numbered(Append(wire, l), Base, sent')
      /\ Ordering(Append(wire, l))
  BY <1>2, <1>3, <1>5, WireGrows
<1>7. Types'
  BY <1>1, <1>2, <1>6 DEF Types
<1>8. Wire'
  BY <1>2, <1>6 DEF Wire, Numbered, Ordering, Offset
<1>9. BeforeReady' /\ InHand'
  BY <1>1 DEF BeforeReady, InHand
<1>10. WhileGenerating'
  <2> SUFFICES ASSUME peer' = "generating"
               PROVE  /\ \A i \in 1 .. Len(wire') : wire'[i].kind # "done" /\ wire'[i].whole
                      /\ sent' = Base' + Len(wire') - Offset(wire')
    BY DEF WhileGenerating, Offset
  <2>1. /\ Len(wire') = Len(wire) + 1 /\ wire'[Len(wire) + 1] = l
        /\ \A i \in 1 .. Len(wire) : wire'[i] = wire[i]
    BY <1>2, AppendProperties
  <2>2. CASE IsHooks(l)
    <3>1. Len(wire) > 0 => Offset(wire') = Offset(wire)
      BY <2>1, <1>4 DEF Offset
    <3>2. Len(wire) = 0 => Offset(wire') = 0 /\ Offset(wire) = 0
      BY <2>1, <2>2 DEF Offset, IsHooks, Hooks
    <3>3. Offset(wire') = Offset(wire)
      BY <3>1, <3>2, <1>4
    <3>4. \A i \in 1 .. Len(wire') : wire'[i].kind # "done" /\ wire'[i].whole
      BY <1>3, <1>4, <2>1, <2>2
    <3>5. sent' = sent + 1 /\ sent = Base + Len(wire) - Offset(wire)
      BY <1>3, <2>2
    <3>6. Base \in Int /\ Len(wire) \in Int /\ Offset(wire) \in Int
      BY <1>2, <1>4
    <3>7. sent' = Base + (Len(wire) + 1) - Offset(wire)
      BY <3>5, <3>6
    <3>8. Base' = Base /\ Len(wire') = Len(wire) + 1
      BY <1>2, <2>1
    <3> QED
      BY <3>3, <3>4, <3>7, <3>8
  <2>3. CASE l.kind = "ready" /\ wire = <<>> /\ sent = Base
    <3>1. Len(wire) = 0
      BY <2>3, EmptySeq
    <3>2. Offset(wire') = 1 /\ Len(wire') = 1
      BY <2>1, <2>3, <3>1 DEF Offset
    <3>3. ~ IsHooks(l)
      BY <2>3 DEF IsHooks, Hooks
    <3>4. sent' = Base'
      BY <1>2, <2>3, <3>3
    <3>5. sent' = Base' + Len(wire') - Offset(wire')
      BY <3>2, <3>4, <1>2
    <3> QED
      BY <2>1, <3>1, <3>2, <3>5
  <2> QED
    BY <2>2, <2>3
<1>11. LinesAsSent'
  BY <1>1, <1>2 DEF LinesAsSent, IsStrictlyIncreasing
<1> QED
  BY <1>7, <1>8, <1>9, <1>10, <1>11 DEF SidecarInv

(* What the hooks put on the wire is a line, whole or cut.                 *)
LEMMA NextLineIsLine ==
    ASSUME NEW STATE r, r \in Made, NEW whole \in BOOLEAN, sent \in Nat
    PROVE  NextLine(r, whole) \in Line
<1>1. r.kind \in Hooks /\ r.layer \in Layers
  BY DEF Made
<1>2. sent + 1 \in Nat
  OBVIOUS
<1>3. NextLine(r, whole) \in [n : Nat, kind : Hooks, layer : Layers, whole : BOOLEAN]
  BY <1>1, <1>2, Zenon DEF NextLine
<1> QED
  BY <1>3, Zenon DEF Line

(* Each sending step is one of these, or quiet if nothing is sent.         *)
LEMMA SidecarSends ==
    ASSUME SidecarInv, \/ SendReady \/ SendDone \/ Die
                       \/ \E t \in Threads : SendLine(t)
    PROVE  SidecarInv'
<1>0. /\ todo \in [Threads -> Seq(Made)] /\ sent \in Nat
      /\ BeforeReady
  BY DEF SidecarInv, Types
<1>1. ASSUME UNCHANGED wire, SendReady \/ SendDone \/ Die
      PROVE  SidecarInv'
  <2>1. Quiet
    BY <1>0, <1>1 DEF Quiet, Base, SendReady, SendDone, SendControl, Die, channel,
                      sinkVars, runVars
  <2> QED
    BY <2>1, QuietStep
<1>2. CASE SendReady
  <2>1. CASE UNCHANGED wire
    BY <1>1, <1>2, <2>1
  <2>2. CASE peer = "loading" /\ wire' = Append(wire, Control("ready")) /\ peer' = "generating"
    <3>1. Control("ready") \in Line
      BY DEF Control, Line
    <3>2. /\ Control("ready").kind = "ready" /\ Control("ready").whole
          /\ ~ IsHooks(Control("ready"))
      BY DEF Control, IsHooks, Hooks
    <3>3. wire = <<>> /\ sent = Base
      BY <1>0, <2>2 DEF BeforeReady, Base
    <3> QED
      BY <1>0, <1>2, <2>2, <3>1, <3>2, <3>3, SendStep DEF SendReady, SendControl
  <2> QED
    BY <1>2, <2>1, <2>2 DEF SendReady, SendControl
<1>3. CASE SendDone
  <2>1. CASE UNCHANGED wire
    BY <1>1, <1>3, <2>1
  <2>2. CASE wire' = Append(wire, Control("done")) /\ peer' = "closing"
    <3>1. Control("done") \in Line
      BY DEF Control, Line
    <3>2. Control("done").kind = "done" /\ ~ IsHooks(Control("done"))
      BY DEF Control, IsHooks, Hooks
    <3> QED
      BY <1>0, <1>3, <2>2, <3>1, <3>2, SendStep DEF SendDone, SendControl
  <2> QED
    BY <1>3, <2>1, <2>2 DEF SendDone, SendControl
<1>4. CASE Die
  <2>1. CASE UNCHANGED wire
    BY <1>1, <1>4, <2>1
  <2>2. ASSUME NEW t \in Threads, todo[t] # <<>>,
               wire' = Append(wire, NextLine(Head(todo[t]), FALSE))
        PROVE  SidecarInv'
    <3>1. Head(todo[t]) \in Made
      BY <1>0, <2>2, HeadTailProperties
    <3> DEFINE l == NextLine(Head(todo[t]), FALSE)
    <3>2. l \in Line
      BY <1>0, <3>1, NextLineIsLine
    <3>3. l.kind # "ready" /\ ~ IsHooks(l)
      BY <3>1 DEF NextLine, Made, IsHooks, Hooks
    <3>4. /\ wire' = Append(wire, l) /\ peer' = "ended"
          /\ UNCHANGED <<channel, runVars>> /\ sent' = sent /\ todo' = todo
      BY <1>4, <2>2 DEF Die
    <3> HIDE DEF l
    <3>5. sent' = (IF IsHooks(l) THEN sent + 1 ELSE sent)
      BY <3>3, <3>4
    <3>6. peer' \notin {"off", "loading"} /\ peer' # "generating"
      BY <3>4
    <3>7. todo' \in [Threads -> Seq(Made)]
      BY <1>0, <3>4
    <3> QED
      BY <3>2, <3>3, <3>4, <3>5, <3>6, <3>7, SendStep
  <2> QED
    BY <1>4, <2>1, <2>2 DEF Die
<1>5. ASSUME NEW t \in Threads, SendLine(t)
      PROVE  SidecarInv'
  <2>1. Head(todo[t]) \in Made /\ Tail(todo[t]) \in Seq(Made)
    BY <1>0, <1>5, HeadTailProperties DEF SendLine
  <2> DEFINE l == NextLine(Head(todo[t]), TRUE)
  <2>2. l \in Line
    BY <1>0, <2>1, NextLineIsLine
  <2>3. IsHooks(l) /\ l.n = sent + 1 /\ l.whole /\ l.kind \notin {"ready", "done"}
    BY <2>1 DEF NextLine, Made, IsHooks, Hooks
  <2>4. todo' \in [Threads -> Seq(Made)]
    BY <1>0, <1>5, <2>1 DEF SendLine
  <2>5. /\ wire' = Append(wire, l) /\ sent' = sent + 1
        /\ peer = "generating" /\ peer' = peer /\ UNCHANGED <<channel, runVars>>
    BY <1>5 DEF SendLine
  <2> HIDE DEF l
  <2>6. sent' = (IF IsHooks(l) THEN sent + 1 ELSE sent)
    BY <2>3, <2>5
  <2>7. peer' \notin {"off", "loading"}
    BY <2>5
  <2> QED
    BY <2>2, <2>3, <2>4, <2>5, <2>6, <2>7, SendStep
<1> QED
  BY <1>2, <1>3, <1>4, <1>5
-----------------------------------------------------------------------------
(* A line is read: it is the next one, if it is of a hook.                 *)
LEMMA ReadLineStep ==
    ASSUME SidecarInv, ReadLine
    PROVE  SidecarInv'
<1> DEFINE h == Head(wire)
<1>1. /\ Types /\ Wire /\ BeforeReady /\ WhileGenerating /\ LinesAsSent
  BY DEF SidecarInv
<1>2. /\ rpc = "read" /\ wire # <<>> /\ h.whole /\ line' = h /\ wire' = Tail(wire)
      /\ rpc' = "handle"
      /\ UNCHANGED <<peer, todo, sent, received, handled, accepted, dropped, queue>>
  BY DEF ReadLine, channel, sidecarVars
<1>3. /\ wire \in Seq(Line) /\ sent \in Nat /\ received \in Nat /\ Base = received
      /\ Numbered(wire, received, sent) /\ Ordering(wire) /\ received <= sent
  BY <1>1, <1>2 DEF Types, Wire, Base
<1>4. Base' = IF h.kind \in Hooks THEN received + 1 ELSE received
  BY <1>2 DEF Base
<1>5. /\ Tail(wire) \in Seq(Line)
      /\ Numbered(Tail(wire), Base', sent)
      /\ Ordering(Tail(wire))
  BY <1>2, <1>3, <1>4, WireShrinks
<1>6. /\ Len(wire) \in Nat \ {0} /\ Len(Tail(wire)) = Len(wire) - 1
      /\ \A i \in 1 .. Len(Tail(wire)) : Tail(wire)[i] = wire[i + 1]
      /\ h = wire[1] /\ h \in Line
  BY <1>2, <1>3, HeadTailProperties, EmptySeq
<1> HIDE DEF h
<1>7. h.kind \in Hooks \cup {"ready", "done"}
  BY <1>6 DEF Line
<1>8. h.kind \in Hooks => h.n = received + 1 /\ received + 1 <= sent
  <2> SUFFICES ASSUME h.kind \in Hooks
               PROVE  h.n = received + 1 /\ received + 1 <= sent
    OBVIOUS
  <2>1. Offset(wire) = 0
    BY <1>6 DEF Offset, Hooks
  <2>2. 1 \in 1 .. Len(wire) /\ IsHooks(wire[1])
    BY <1>2, <1>6 DEF IsHooks
  <2>3. wire[1].n = received + 1 - Offset(wire) /\ wire[1].n <= sent
    BY <1>3, <2>2 DEF Numbered
  <2> QED
    BY <1>3, <1>6, <2>1, <2>3
<1>9. Types'
  BY <1>1, <1>2, <1>5 DEF Types
<1>10. Wire'
  BY <1>2, <1>3, <1>4, <1>5, <1>8 DEF Wire, Numbered, Ordering, Offset
<1>11. BeforeReady'
  BY <1>1, <1>2 DEF BeforeReady
<1>12. WhileGenerating'
  <2> SUFFICES ASSUME peer = "generating"
               PROVE  /\ \A i \in 1 .. Len(wire') : wire'[i].kind # "done" /\ wire'[i].whole
                      /\ sent' = Base' + Len(wire') - Offset(wire')
    BY <1>2 DEF WhileGenerating, Offset
  <2>1. /\ \A i \in 1 .. Len(wire) : wire[i].kind # "done" /\ wire[i].whole
        /\ sent = received + Len(wire) - Offset(wire)
    BY <1>1, <1>3 DEF WhileGenerating
  <2>2. \A i \in 1 .. Len(wire') : wire'[i].kind # "done" /\ wire'[i].whole
    BY <1>2, <1>6, <2>1
  <2>3. Offset(wire') = 0
    <3>1. Len(Tail(wire)) > 0 => Tail(wire)[1].kind # "ready"
      BY <1>3, <1>6 DEF Ordering
    <3> QED
      BY <1>2, <3>1 DEF Offset
  <2>4. h.kind # "done"
    BY <1>6, <2>1
  <2>5. CASE h.kind = "ready"
    <3>1. Offset(wire) = 1 /\ Base' = received
      BY <1>4, <1>6, <2>5 DEF Offset, Hooks
    <3>2. sent' = sent /\ Len(wire') = Len(wire) - 1
      BY <1>2, <1>6
    <3> QED
      BY <1>3, <1>6, <2>1, <2>2, <2>3, <3>1, <3>2
  <2>6. CASE h.kind \in Hooks
    <3>1. Offset(wire) = 0 /\ Base' = received + 1
      BY <1>4, <1>6, <2>6 DEF Offset, Hooks
    <3>2. sent' = sent /\ Len(wire') = Len(wire) - 1
      BY <1>2, <1>6
    <3> QED
      BY <1>3, <1>6, <2>1, <2>2, <2>3, <3>1, <3>2
  <2> QED
    BY <1>7, <2>4, <2>5, <2>6
<1>13. InHand'
  BY <1>2, <1>8 DEF InHand
<1>14. LinesAsSent'
  BY <1>1, <1>2 DEF LinesAsSent, IsStrictlyIncreasing
<1> QED
  BY <1>9, <1>10, <1>11, <1>12, <1>13, <1>14 DEF SidecarInv

(* The stream ends: the rest of the wire is gone.                          *)
LEMMA ReadEndsStep ==
    ASSUME SidecarInv, ReadEnds
    PROVE  SidecarInv'
<1>1. /\ Types /\ Wire /\ LinesAsSent
  BY DEF SidecarInv
<1>2. /\ peer' = "ended" /\ wire' = <<>> /\ rpc = "read" /\ rpc' = "returned"
      /\ UNCHANGED <<todo, sent, received, handled, accepted, dropped, queue>>
  BY DEF ReadEnds, channel, sidecarVars
<1>3. wire' \in Seq(Line) /\ Len(wire') = 0
  BY <1>2, EmptySeq
<1>4. Types'
  BY <1>1, <1>2, <1>3 DEF Types
<1>5. Wire'
  BY <1>1, <1>2, <1>3 DEF Wire, Numbered, Ordering, Base
<1>6. BeforeReady' /\ WhileGenerating' /\ InHand'
  BY <1>2 DEF BeforeReady, WhileGenerating, InHand
<1>7. LinesAsSent'
  BY <1>1, <1>2 DEF LinesAsSent, IsStrictlyIncreasing
<1> QED
  BY <1>4, <1>5, <1>6, <1>7 DEF SidecarInv

(* A line of a hook is pushed and counted.                                 *)
LEMMA PushLineStep ==
    ASSUME SidecarInv, PushLine
    PROVE  SidecarInv'
<1>1. /\ Types /\ Wire /\ BeforeReady /\ WhileGenerating /\ InHand /\ LinesAsSent
  BY DEF SidecarInv
<1>2. /\ rpc = "handle" /\ line.kind \in Hooks /\ rpc' # "handle"
      /\ received' = received + 1 /\ handled' = Append(handled, line.n)
      /\ UNCHANGED <<wire, peer, todo, sent>>
  BY DEF PushLine, Hooks, sidecarVars
<1>3. /\ received \in Nat /\ accepted \in Nat /\ dropped \in Nat
      /\ queue \in Seq(Nat) /\ handled \in Seq(Nat)
      /\ line.n = received + 1 /\ Base = received + 1 /\ Base' = Base
  BY <1>1, <1>2 DEF Types, InHand, Base
<1>4. \/ queue' = Append(queue, line.n) /\ accepted' = accepted + 1 /\ dropped' = dropped
      \/ queue' = queue /\ accepted' = accepted /\ dropped' = dropped + 1
  BY DEF PushLine, Accept, Refuse
<1>5. Types'
  <2>1. line.n \in Nat /\ received' \in Nat
    BY <1>2, <1>3
  <2>2. handled' \in Seq(Nat)
    BY <1>2, <1>3, <2>1, AppendProperties
  <2>3. queue' \in Seq(Nat)
    BY <1>3, <1>4, <2>1, AppendProperties
  <2>4. accepted' \in Nat /\ dropped' \in Nat
    BY <1>3, <1>4
  <2> QED
    BY <1>1, <1>2, <2>1, <2>2, <2>3, <2>4 DEF Types
<1>6. Wire'
  BY <1>1, <1>2, <1>3 DEF Wire, Numbered, Ordering, Offset
<1>7. BeforeReady' /\ InHand'
  BY <1>1, <1>2 DEF BeforeReady, InHand
<1>8. WhileGenerating'
  BY <1>1, <1>2, <1>3 DEF WhileGenerating, Offset
<1>9. LinesAsSent'
  <2>1. /\ handled = [i \in 1 .. received |-> i]
        /\ IsStrictlyIncreasing(queue) /\ \A i \in DOMAIN queue : queue[i] <= received
        /\ received = accepted + dropped
    BY <1>1 DEF LinesAsSent
  <2>2. handled' = [i \in 1 .. received' |-> i]
    <3>1. Len(handled) = received /\ \A i \in 1 .. received : handled[i] = i
      BY <2>1, <1>3, LenProperties
    <3>2. /\ handled' \in Seq(Nat) /\ Len(handled') = received + 1
          /\ \A i \in 1 .. received : handled'[i] = i
          /\ handled'[received + 1] = received + 1
      BY <1>2, <1>3, <3>1, AppendProperties
    <3>3. DOMAIN handled' = 1 .. received' /\ handled' = [i \in DOMAIN handled' |-> handled'[i]]
      BY <3>2, <1>2, LenProperties
    <3>4. \A i \in 1 .. received' : handled'[i] = i
      BY <3>2, <1>2, <1>3
    <3> QED
      BY <3>3, <3>4
  <2>3. received' <= sent'
    BY <1>1, <1>2, <1>3 DEF Wire
  <2>4. received' = accepted' + dropped'
    BY <2>1, <1>2, <1>3, <1>4
  <2>5. IsStrictlyIncreasing(queue') /\ \A i \in DOMAIN queue' : queue'[i] <= received'
    <3>1. CASE queue' = queue
      BY <3>1, <2>1, <1>2, <1>3, LenProperties, ElementOfSeq DEF IsStrictlyIncreasing
    <3>2. CASE queue' = Append(queue, line.n)
      <4>1. /\ Len(queue) \in Nat /\ DOMAIN queue = 1 .. Len(queue)
            /\ DOMAIN queue' = 1 .. (Len(queue) + 1)
            /\ \A i \in 1 .. Len(queue) : queue'[i] = queue[i] /\ queue[i] \in Nat
            /\ queue'[Len(queue) + 1] = received + 1
        BY <1>3, <3>2, AppendProperties, LenProperties, ElementOfSeq
      <4>2. \A i \in 1 .. Len(queue) : queue[i] <= received
        BY <2>1, <4>1
      <4>3. ASSUME NEW i \in DOMAIN queue'
            PROVE  queue'[i] <= received'
        <5>1. \A n \in Nat : n <= received => n <= received + 1
          BY <1>3
        <5>2. CASE i \in 1 .. Len(queue)
          BY <4>1, <4>2, <5>1, <5>2, <1>2
        <5>3. CASE i = Len(queue) + 1
          BY <4>1, <5>3, <1>2, <1>3
        <5> QED
          BY <4>1, <5>2, <5>3
      <4>4. ASSUME NEW i \in DOMAIN queue', NEW j \in DOMAIN queue', i < j
            PROVE  queue'[i] < queue'[j]
        <5>1. i \in 1 .. Len(queue) /\ queue'[i] = queue[i] /\ queue[i] <= received
          BY <4>1, <4>2, <4>4
        <5>2. CASE j \in 1 .. Len(queue)
          BY <2>1, <4>1, <4>4, <5>1, <5>2 DEF IsStrictlyIncreasing
        <5>3. CASE j = Len(queue) + 1
          BY <1>3, <4>1, <5>1, <5>3
        <5> QED
          BY <4>1, <5>2, <5>3
      <4> QED
        BY <4>3, <4>4 DEF IsStrictlyIncreasing
    <3> QED
      BY <1>4, <3>1, <3>2
  <2> QED
    BY <2>2, <2>3, <2>4, <2>5 DEF LinesAsSent
<1> QED
  BY <1>5, <1>6, <1>7, <1>8, <1>9 DEF SidecarInv

(* The ring loses its oldest event.                                        *)
LEMMA PopEventStep ==
    ASSUME SidecarInv, PopEvent
    PROVE  SidecarInv'
<1>1. /\ Types /\ Wire /\ BeforeReady /\ WhileGenerating /\ InHand /\ LinesAsSent
  BY DEF SidecarInv
<1>2. UNCHANGED <<wire, peer, todo, sent, rpc, line, received, handled, accepted, dropped>>
  BY DEF PopEvent, Take, sidecarVars, runVars
<1>3. queue' = Tail(queue) /\ queue \in Seq(Nat) /\ queue # <<>>
  <2>1. PICK known \in visible .. Len(queue) : known > 0 /\ queue' = Tail(queue)
    BY DEF PopEvent, Take
  <2>2. queue \in Seq(Nat)
    BY <1>1 DEF Types
  <2>3. Len(queue) # 0
    BY <2>1, <2>2, LenProperties
  <2> QED
    BY <2>1, <2>2, <2>3, EmptySeq
<1>4. Types'
  BY <1>1, <1>2, <1>3, HeadTailProperties DEF Types
<1>5. Wire' /\ BeforeReady' /\ WhileGenerating' /\ InHand'
  BY <1>1, <1>2 DEF Wire, Numbered, Ordering, Base, Offset, BeforeReady, WhileGenerating, InHand
<1>6. LinesAsSent'
  <2>1. /\ Len(queue) \in Nat /\ DOMAIN queue = 1 .. Len(queue)
        /\ DOMAIN queue' = 1 .. (Len(queue) - 1)
        /\ \A i \in 1 .. (Len(queue) - 1) : queue'[i] = queue[i + 1]
    BY <1>3, HeadTailProperties, LenProperties
  <2>2. IsStrictlyIncreasing(queue) /\ \A i \in DOMAIN queue : queue[i] <= received
    BY <1>1 DEF LinesAsSent
  <2>3. \A i \in DOMAIN queue' : queue'[i] <= received'
    BY <1>2, <2>1, <2>2
  <2>4. ASSUME NEW i \in DOMAIN queue', NEW j \in DOMAIN queue', i < j
        PROVE  queue'[i] < queue'[j]
    <3>1. /\ i + 1 \in DOMAIN queue /\ queue'[i] = queue[i + 1]
          /\ j + 1 \in DOMAIN queue /\ queue'[j] = queue[j + 1]
          /\ i + 1 < j + 1
      BY <2>1, <2>4
    <3> QED
      BY <2>2, <3>1 DEF IsStrictlyIncreasing
  <2> QED
    BY <1>1, <1>2, <2>3, <2>4 DEF LinesAsSent, IsStrictlyIncreasing
<1> QED
  BY <1>4, <1>5, <1>6 DEF SidecarInv
-----------------------------------------------------------------------------
(* Every step keeps the invariant.                                         *)
THEOREM SidecarNext == SidecarInv /\ [Next]_vars => SidecarInv'
<1> SUFFICES ASSUME SidecarInv, [Next]_vars PROVE SidecarInv'
  OBVIOUS
<1>1. CASE Sidecar \/ Die
  BY <1>1, QuietSidecar, QuietStep, SidecarSends DEF Sidecar
<1>2. CASE Receiver
  BY <1>2, QuietReceiver, QuietStep, ReadLineStep, ReadEndsStep, PushLineStep DEF Receiver
<1>3. CASE Owner
  BY <1>3, QuietOwner, QuietStep, PopEventStep DEF Owner
<1>4. CASE UNCHANGED vars
  <2>1. Quiet
    BY <1>4 DEF SidecarInv, Types, Quiet, Base, vars, channel, sidecarVars, runVars
  <2> QED
    BY <2>1, QuietStep
<1> QED
  BY <1>1, <1>2, <1>3, <1>4 DEF Next

(* The invariant holds in every behaviour.                                 *)
THEOREM SidecarInvariant == Spec => []SidecarInv
BY SidecarInit, SidecarNext, PTL DEF Spec

(* The receiver handles the lines of the hooks in the order of sending,    *)
(* each once and whole, and the ring took or counted each of them.         *)
THEOREM SidecarLinesAsSent == Spec => []LinesAsSent
<1>1. SidecarInv => LinesAsSent
  BY DEF SidecarInv
<1> QED
  BY <1>1, SidecarInvariant, PTL
-----------------------------------------------------------------------------
(* The sink.  Matrices are published in the order of their lines, so the   *)
(* one in hand is newer than the last published; until its layer has been  *)
(* compared, the selection is among those made since it was read.          *)
SinkInv ==
    /\ published \in Nat /\ published <= received
    /\ rpc \in {"start", "accept"} => line.kind # "matrix"
    /\ rpc \in {"handle", "attend"} => target \in wanted
    /\ rpc \in {"attend", "publish"} =>
          wired /\ line.kind = "matrix" /\ line.n = received /\ published < received
    /\ rpc = "publish" => wanted \cap {AnyLayer, line.layer} # {}
    /\ SinkFollowsTarget

(* It holds at the start: nothing has been read or published.              *)
LEMMA SinkInit == Init => SinkInv
BY DEF Init, SinkInv, SinkFollowsTarget, NoLine, Control, None

(* Steps of others, and those of the receiver that touch neither the line  *)
(* nor the sink.                                                           *)
LEMMA SinkQuiet ==
    ASSUME SinkInv, UNCHANGED <<published, received, line, wired, target, wanted>>,
           \/ rpc' = rpc
           \/ rpc \in {"start", "accept"} /\ rpc' \in {"accept", "test", "returned"}
           \/ rpc = "test" /\ rpc' = "read"
           \/ rpc' = "returned"
           \/ rpc' = "test" /\ line.kind # "matrix"
    PROVE  SinkInv'
BY DEF SinkInv, SinkFollowsTarget

(* Every step keeps it.                                                    *)
LEMMA SinkNext ==
    ASSUME SidecarInv, SinkInv, [Next]_vars
    PROVE  SinkInv'
<1>1. received \in Nat /\ InHand
  BY DEF SidecarInv, Types
<1>2. CASE Sidecar \/ Die
  <2>1. UNCHANGED <<sinkVars, runVars>>
    BY <1>2 DEF Sidecar, Connect, SendReady, SendDone, SendControl, Close, HookCalled,
                SendLine, LoseLine, Die
  <2> QED
    BY <2>1, SinkQuiet DEF sinkVars, runVars
<1>3. CASE Listen \/ AcceptPeer \/ TestAlive \/ ReadEnds \/ SkipControl
  BY <1>3, SinkQuiet DEF Listen, AcceptPeer, TestAlive, ReadEnds, SkipControl, sinkVars
<1>4. CASE ReadLine
  BY <1>4 DEF ReadLine, SinkInv, SinkFollowsTarget, sinkVars
<1>5. CASE PushLine
  <2>1. /\ line.n = received + 1 /\ received' = received + 1
        /\ published \in Nat /\ published <= received /\ target \in wanted
    BY <1>1, <1>5 DEF PushLine, InHand, SinkInv, Hooks
  <2>2. published < received + 1 /\ published <= received + 1
    BY <1>1, <2>1
  <2>3. /\ UNCHANGED <<published, line, wired, target, wanted>>
        /\ rpc' = IF line.kind = "matrix" /\ wired THEN "attend" ELSE "test"
    BY <1>5 DEF PushLine, sinkVars
  <2> QED
    BY <2>1, <2>2, <2>3 DEF SinkInv, SinkFollowsTarget
<1>6. CASE LoadTarget
  <2>1. published # line.n
    BY <1>1, <1>6 DEF LoadTarget, SinkInv
  <2> QED
    BY <1>6, <2>1 DEF LoadTarget, SinkInv, SinkFollowsTarget, sinkVars
<1>7. CASE Publish
  BY <1>1, <1>7 DEF Publish, SinkInv, SinkFollowsTarget
<1>8. CASE PopEvent \/ Stop \/ TakeMatrix
  BY <1>8, SinkQuiet DEF PopEvent, Stop, TakeMatrix, sinkVars, runVars
<1>9. ASSUME NEW layer \in Layers, SelectLayer(layer)
      PROVE  SinkInv'
  BY <1>9 DEF SelectLayer, SinkInv, SinkFollowsTarget
<1>10. CASE UNCHANGED vars
  BY <1>10, SinkQuiet DEF vars, sinkVars, runVars
<1> QED
  BY <1>2, <1>3, <1>4, <1>5, <1>6, <1>7, <1>8, <1>9, <1>10 DEF Next, Receiver, Owner

(* The sink gets the matrices of the layer selected, and no others.        *)
THEOREM SidecarSinkFollowsTarget == Spec => []SinkFollowsTarget
<1>1. Init => SinkInv
  BY SinkInit
<1>2. SidecarInv /\ SinkInv /\ [Next]_vars => SinkInv'
  BY SinkNext
<1>3. SinkInv => SinkFollowsTarget
  BY DEF SinkInv
<1> QED
  BY <1>1, <1>2, <1>3, SidecarInvariant, PTL DEF Spec
=============================================================================
