---------------------------- MODULE EventChannel ----------------------------
(***************************************************************************)
(* What src/ring_buffer.hpp promises to the two threads that share a ring. *)
(*                                                                         *)
(* A ring is a bounded FIFO queue that may refuse an item but never loses, *)
(* repeats or reorders one it has accepted.  The two sides learn of each   *)
(* other's progress through acquire loads of an index, so each may know    *)
(* less than what has happened:                                            *)
(*   credit   how many free places the producer knows of (it has read some *)
(*            tail_, perhaps not the last one);                            *)
(*   visible  how many queued items the consumer knows of (it has read     *)
(*            some head_, perhaps not the last one).                       *)
(* A refusal is legal only when the producer knows of no free place, and   *)
(* it is counted.                                                          *)
(*                                                                         *)
(* SpscRing implements this module.  HeadlessRun and DashboardRun build    *)
(* the program's pipelines on it.                                          *)
(***************************************************************************)
EXTENDS Naturals, Sequences

CONSTANTS
    Cap,   \* capacity(): places in the ring
    Item   \* what is sent through it

ASSUME CapAssumption == Cap \in Nat \ {0}

VARIABLES queue, credit, visible, dropped

channel == <<queue, credit, visible, dropped>>

ChannelTypeOK ==
    /\ queue \in Seq(Item)
    /\ Len(queue) <= Cap
    /\ credit \in 0 .. (Cap - Len(queue))
    /\ visible \in 0 .. Len(queue)
    /\ dropped \in Nat

ChannelInit ==
    /\ queue = <<>>
    /\ credit = Cap
    /\ visible = 0
    /\ dropped = 0

Room == Cap - Len(queue)

(* Mutant: push without its test for room.                                 *)
AcceptUntested(item) ==
    \E known \in credit .. Room :
        /\ queue' = Append(queue, item)
        /\ credit' = known - 1
        /\ UNCHANGED <<visible, dropped>>

(* push returns true: the producer has read a tail_ that leaves a place.   *)
Accept(item) ==
    \E known \in credit .. Room :
        /\ known > 0
        /\ queue' = Append(queue, item)
        /\ credit' = known - 1
        /\ UNCHANGED <<visible, dropped>>

(* push returns false: by the tail_ it has read, the ring is full.         *)
Refuse ==
    /\ credit = 0
    /\ dropped' = dropped + 1
    /\ UNCHANGED <<queue, credit, visible>>

(* pop returns true with the oldest item.                                  *)
Take ==
    \E known \in visible .. Len(queue) :
        /\ known > 0
        /\ queue' = Tail(queue)
        /\ visible' = known - 1
        /\ UNCHANGED <<credit, dropped>>

(* pop returns false, or size_approx returns 0: by the head_ it has read,  *)
(* the ring is empty.                                                      *)
SeesEmpty ==
    /\ visible = 0
    /\ UNCHANGED channel

(* Either side reads a newer index than the one it knew.                   *)
LearnRoom ==
    /\ credit' \in credit .. Room
    /\ UNCHANGED <<queue, visible, dropped>>

LearnItems ==
    /\ visible' \in visible .. Len(queue)
    /\ UNCHANGED <<queue, credit, dropped>>

ChannelNext ==
    \/ \E item \in Item : Accept(item)
    \/ Refuse
    \/ Take
    \/ LearnRoom
    \/ LearnItems

ChannelSpec == ChannelInit /\ [][ChannelNext]_channel

=============================================================================
