---------------------------- MODULE SidecarLink ----------------------------
(***************************************************************************)
(* A Python sidecar (src/py_sidecar/sidecar.py) and the SidecarReceiver    *)
(* (src/src/sidecar/receiver.cpp) at the two ends of one TCP connection.   *)
(*                                                                         *)
(* The sidecar connects, loads its model, sends a "ready" line, runs the   *)
(* generation, whose forward hooks send a line per module call and up to   *)
(* HeadCap lines per attention call, sends a "done" line and closes.  The  *)
(* hooks may run on several threads: each line is sent whole under         *)
(* send_lock.  The process may die at any point, in the middle of a line   *)
(* too.  The receiver accepts one connection and handles line after line:  *)
(* event into the ring (the channel of EventChannel), matrix into the      *)
(* attention sink, where there is one and the layer is the one selected.   *)
(* Every whole line of sidecar.py parses, and every matrix has as many     *)
(* weights as its rows and columns say (sidecar.py 265-268).               *)
(*                                                                         *)
(* The ring's reader, the sink's reader, the selection and `alive` belong  *)
(* to the receiver's owner: src/main.cpp has none yet, so they are free to *)
(* act as their counterparts in a dashboard run do.                        *)
(*                                                                         *)
(* A line of the hooks is named by its place in the order of sending.      *)
(***************************************************************************)
EXTENDS EventChannel, Integers

CONSTANTS
    Threads,    \* threads of the sidecar that run forward hooks
    NLayers,    \* layers of the model
    HeadCap,    \* matrices sent per attention call: 4 in the code
    WireCap,    \* bound: lines in the buffers of the connection
    MaxLines,   \* bound on the lines of the hooks
    MaxSelects  \* bound on the selections

ASSUME SidecarAssumption ==
    /\ {NLayers, HeadCap, WireCap, MaxLines, MaxSelects} \subseteq Nat
    /\ Item = 1 .. MaxLines

(* What classify_name returns as layer, and what can be selected; as a     *)
(* selection, -1 stands for any layer.                                     *)
AnyLayer == -1
Layers == {AnyLayer} \cup 0 .. (NLayers - 1)
None == 0

VARIABLES
    peer,      \* where main() of the sidecar is
    todo,      \* per thread, the lines its hook has still to send
    lines,     \* lines the hooks have begun to make
    wire,      \* lines sent and not read; the last one may be cut
    sent,      \* history: whole lines of hooks put on the wire
    rpc,       \* where SidecarReceiver::run is
    line,      \* the line read last
    received,  \* received_
    handled,   \* history: the lines parsed and pushed
    accepted,  \* history: how many of them the ring accepted
    alive,
    wired,     \* set_attention_sink has been called
    target,    \* AttentionSink::target_layer
    selects,   \* selections made
    wanted,    \* history: values of target since `line` was read
    sink,      \* the matrix pending in the sink
    published  \* history: the last one published

sidecarVars == <<peer, todo, lines, sent>>
sinkVars == <<wired, target, selects, sink, published>>
runVars == <<rpc, line, received, handled, accepted, wanted>>
vars == <<channel, wire, alive, sidecarVars, sinkVars, runVars>>

Control(what) == [kind |-> what, whole |-> TRUE]
NoLine == Control("none")

Init ==
    /\ ChannelInit
    /\ peer = "off" /\ todo = [t \in Threads |-> <<>>] /\ lines = 0
    /\ wire = <<>> /\ sent = 0
    /\ rpc = "start" /\ line = NoLine /\ received = 0
    /\ handled = <<>> /\ accepted = 0
    /\ alive = TRUE /\ wired \in BOOLEAN /\ target \in Layers /\ selects = 0 /\ wanted = {}
    /\ sink = None /\ published = None

Hung == rpc = "returned"            \* the receiver's end is closed
Room4Line == Len(wire) < WireCap
-----------------------------------------------------------------------------
(* The sidecar.                                                            *)

(* connect(): a listening socket takes it before accept() is called; it is *)
(* refused, or times out, if there is none.                                *)
Connect ==
    /\ peer = "off"
    /\ peer' = (IF rpc = "accept" THEN "loading" ELSE "ended")
    /\ UNCHANGED <<channel, wire, alive, todo, lines, sent, sinkVars, runVars>>

(* A control line of main(): sendall waits for room, and raises if the     *)
(* connection is gone; nobody catches that, and the process ends.          *)
SendControl(from, what, next) ==
    /\ peer = from
    /\ \/ /\ Room4Line /\ ~ Hung
          /\ wire' = Append(wire, Control(what))
          /\ peer' = next
       \/ /\ Hung
          /\ peer' = "ended"
          /\ UNCHANGED wire
    /\ UNCHANGED <<channel, alive, todo, lines, sent, sinkVars, runVars>>

SendReady == SendControl("loading", "ready", "generating")

(* generate() returns when every forward pass has.                         *)
SendDone ==
    /\ \A t \in Threads : todo[t] = <<>>
    /\ SendControl("generating", "done", "closing")

Close ==
    /\ peer = "closing"
    /\ peer' = "ended"
    /\ UNCHANGED <<channel, wire, alive, todo, lines, sent, sinkVars, runVars>>

(* A module's hook makes one line, an attention module's one per head.     *)
HookCalled(t) ==
    /\ peer = "generating" /\ todo[t] = <<>>
    /\ \E layer \in Layers, kind \in {"event", "matrix"}, heads \in 1 .. HeadCap :
        /\ kind = "event" => heads = 1
        /\ lines + heads <= MaxLines
        /\ lines' = lines + heads
        /\ todo' = [todo EXCEPT ![t] =
                      [h \in 1 .. heads |-> [kind |-> kind, layer |-> layer]]]
    /\ UNCHANGED <<channel, wire, alive, peer, sent, sinkVars, runVars>>

(* A line, or the beginning of one, as it is put on the wire.              *)
NextLine(l, whole) == [n |-> sent + 1, kind |-> l.kind, layer |-> l.layer, whole |-> whole]

(* sendall under send_lock.                                                *)
SendLine(t) ==
    /\ peer = "generating" /\ todo[t] # <<>> /\ Room4Line /\ ~ Hung
    /\ wire' = Append(wire, NextLine(Head(todo[t]), TRUE))
    /\ sent' = sent + 1
    /\ todo' = [todo EXCEPT ![t] = Tail(@)]
    /\ UNCHANGED <<channel, alive, peer, lines, sinkVars, runVars>>

(* It raises, which the hook ignores: the line is lost, the pass goes on.  *)
LoseLine(t) ==
    /\ peer = "generating" /\ todo[t] # <<>> /\ Hung
    /\ todo' = [todo EXCEPT ![t] = Tail(@)]
    /\ UNCHANGED <<channel, wire, alive, peer, lines, sent, sinkVars, runVars>>

(* The process dies; a line it was sending is cut.                         *)
Die ==
    /\ peer \notin {"off", "ended"}
    /\ peer' = "ended"
    /\ \/ UNCHANGED wire
       \/ /\ ~ Hung
          /\ \E t \in Threads :
              /\ todo[t] # <<>>
              /\ wire' = Append(wire, NextLine(Head(todo[t]), FALSE))
    /\ UNCHANGED <<channel, alive, todo, lines, sent, sinkVars, runVars>>

Sidecar ==
    \/ Connect \/ SendReady \/ SendDone \/ Close
    \/ \E t \in Threads : HookCalled(t) \/ SendLine(t) \/ LoseLine(t)
-----------------------------------------------------------------------------
(* SidecarReceiver::run.                                                   *)

(* socket, bind and listen, each of which may fail.                        *)
Listen ==
    /\ rpc = "start"
    /\ rpc' \in {"accept", "returned"}
    /\ UNCHANGED <<channel, wire, alive, sidecarVars, sinkVars,
                   line, received, handled, accepted, wanted>>

(* accept() waits for a peer, whatever `alive` says.                       *)
AcceptPeer ==
    /\ rpc = "accept" /\ peer # "off"
    /\ rpc' \in {"test", "returned"}
    /\ UNCHANGED <<channel, wire, alive, sidecarVars, sinkVars,
                   line, received, handled, accepted, wanted>>

TestAlive ==
    /\ rpc = "test"
    /\ rpc' = (IF alive THEN "read" ELSE "returned")
    /\ UNCHANGED <<channel, wire, alive, sidecarVars, sinkVars,
                   line, received, handled, accepted, wanted>>

(* Mutant: what is left at the end of the stream is a line, as with getline. *)
ReadLineOrRest ==
    /\ rpc = "read" /\ wire # <<>>
    /\ line' = Head(wire) /\ wire' = Tail(wire)
    /\ rpc' = "handle"
    /\ wanted' = {target}
    /\ UNCHANGED <<channel, alive, sidecarVars, sinkVars, received, handled, accepted>>

(* read_line: waits, whatever `alive` says, until the line is whole.       *)
ReadLine ==
    /\ rpc = "read" /\ wire # <<>> /\ Head(wire).whole
    /\ line' = Head(wire) /\ wire' = Tail(wire)
    /\ rpc' = "handle"
    /\ wanted' = {target}
    /\ UNCHANGED <<channel, alive, sidecarVars, sinkVars, received, handled, accepted>>

(* Mutant: only a negative count ends the loop; at the end of the stream   *)
(* it goes round for ever.                                                 *)
ReadIgnoresEnd ==
    /\ rpc = "read" /\ peer = "ended"
    /\ wire # <<>> => ~ Head(wire).whole
    /\ UNCHANGED vars

(* The stream ends; what there is of a last line is dropped.               *)
ReadEnds ==
    /\ rpc = "read" /\ peer = "ended"
    /\ wire # <<>> => ~ Head(wire).whole
    /\ wire' = <<>>
    /\ rpc' = "returned"
    /\ UNCHANGED <<channel, alive, sidecarVars, sinkVars,
                   line, received, handled, accepted, wanted>>

SkipControl ==
    /\ rpc = "handle" /\ line.kind \in {"ready", "done"}
    /\ rpc' = "test"
    /\ UNCHANGED <<channel, wire, alive, sidecarVars, sinkVars,
                   line, received, handled, accepted, wanted>>

(* ring_.push, whose answer is not looked at, and received_.fetch_add;     *)
(* without a sink a matrix is an event like any other.                     *)
PushLine ==
    /\ rpc = "handle" /\ line.kind \in {"event", "matrix"}
    /\ \/ Accept(line.n) /\ accepted' = accepted + 1
       \/ Refuse /\ UNCHANGED accepted
    /\ received' = received + 1
    /\ handled' = Append(handled, line.n)
    /\ rpc' = (IF line.kind = "matrix" /\ wired THEN "attend" ELSE "test")
    /\ UNCHANGED <<wire, alive, sidecarVars, sinkVars, line, wanted>>

(* Mutant: the layer is not looked at.                                     *)
LoadTargetOnly ==
    /\ rpc = "attend"
    /\ rpc' = "publish"
    /\ UNCHANGED <<channel, wire, alive, sidecarVars, sinkVars,
                   line, received, handled, accepted, wanted>>

(* target_layer.load.                                                      *)
LoadTarget ==
    /\ rpc = "attend"
    /\ rpc' = (IF target \in {AnyLayer, line.layer} THEN "publish" ELSE "test")
    /\ UNCHANGED <<channel, wire, alive, sidecarVars, sinkVars,
                   line, received, handled, accepted, wanted>>

Publish ==
    /\ rpc = "publish"
    /\ sink' = line.n /\ published' = line.n
    /\ rpc' = "test"
    /\ UNCHANGED <<channel, wire, alive, sidecarVars, wired, target, selects,
                   line, received, handled, accepted, wanted>>

Receiver ==
    \/ Listen \/ AcceptPeer \/ TestAlive \/ ReadLine \/ ReadEnds
    \/ SkipControl \/ PushLine \/ LoadTarget \/ Publish
-----------------------------------------------------------------------------
(* The owner of the receiver.                                              *)

PopEvent ==
    /\ Take
    /\ UNCHANGED <<wire, alive, sidecarVars, sinkVars, runVars>>

TakeMatrix ==
    /\ sink # None
    /\ sink' = None
    /\ UNCHANGED <<channel, wire, alive, sidecarVars, wired, target, selects, published, runVars>>

SelectLayer(layer) ==
    /\ wired /\ selects < MaxSelects
    /\ target' = layer /\ selects' = selects + 1
    /\ wanted' = wanted \cup {layer}
    /\ UNCHANGED <<channel, wire, alive, sidecarVars, wired, sink, published,
                   rpc, line, received, handled, accepted>>

Stop ==
    /\ alive
    /\ alive' = FALSE
    /\ UNCHANGED <<channel, wire, sidecarVars, sinkVars, runVars>>

Owner == PopEvent \/ TakeMatrix \/ Stop \/ \E layer \in Layers : SelectLayer(layer)

Next == Sidecar \/ Die \/ Receiver \/ Owner

Spec == Init /\ [][Next]_vars

(* Threads run; nobody has to connect, to die, to stop or to select, and   *)
(* whoever waits in a system call goes on once the call can return.        *)
Fairness ==
    /\ WF_vars(Receiver)
    /\ WF_vars(SendReady \/ SendDone \/ Close)
    /\ \A t \in Threads : WF_vars(SendLine(t) \/ LoseLine(t))

FairSpec == Spec /\ Fairness
-----------------------------------------------------------------------------
IsStrictlyIncreasing(s) == \A i, j \in DOMAIN s : i < j => s[i] < s[j]

(* The receiver handles the hooks' lines in the order in which they were   *)
(* sent, each once and none in part, whatever threads sent them, however   *)
(* the sidecar ends; received_ counts them, the ring took or counted as    *)
(* dropped each of them, and holds them in that order (receiver.cpp        *)
(* 392-410).                                                               *)
LinesAsSent ==
    /\ handled = [i \in 1 .. received |-> i] /\ received <= sent
    /\ IsStrictlyIncreasing(queue) /\ \A i \in DOMAIN queue : queue[i] <= received
    /\ received = accepted + dropped

(* A matrix goes to the sink, where one is wired, if its layer was         *)
(* selected all the while it was handled, and does not if it never was; a  *)
(* selection made in between may come too late for that line only          *)
(* (receiver.cpp 413-421).                                                 *)
SinkFollowsTarget ==
    rpc \in {"test", "read"} /\ line.kind = "matrix" =>
        /\ wired /\ wanted \subseteq {AnyLayer, line.layer} => published = line.n
        /\ published = line.n => wired /\ wanted \cap {AnyLayer, line.layer} # {}

(* However the sidecar ends after it has connected, run() returns; and     *)
(* once it has returned, the hooks of a sidecar still at work do not hang  *)
(* on the dead connection (receiver.cpp 392-394, sidecar.py 184-188).      *)
EndsWithPeer ==
    /\ (peer = "ended" /\ rpc \notin {"start", "accept"}) ~> Hung
    /\ \A t \in Threads : (Hung /\ todo[t] # <<>>) ~> (todo[t] = <<>> \/ peer = "ended")

=============================================================================
