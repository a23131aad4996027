----------------------------- MODULE MCCapture ------------------------------
(* CaptureHook with a graph of two layers and an op that is masked off.    *)
EXTENDS CaptureHook

MCGraph == << [layer |-> 0, cls |-> "Attn", softmax |-> TRUE],
              [layer |-> 0, cls |-> "MLP", softmax |-> FALSE],
              [layer |-> 1, cls |-> "Attn", softmax |-> TRUE] >>
=============================================================================
