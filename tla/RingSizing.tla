----------------------------- MODULE RingSizing -----------------------------
(***************************************************************************)
(* The constructor of SpscRing (src/ring_buffer.hpp 20-27): the requested  *)
(* capacity is rounded up to a power of two by doubling a machine word.    *)
(* SpscRing assumes of its capacity what this loop has to deliver.  The    *)
(* loop begins when main constructs the ring (module Startup).             *)
(***************************************************************************)
EXTENDS Naturals, FiniteSetsExt

CONSTANTS
    Width,       \* bits of a size_t
    MaxRequest   \* the largest capacity asked for

(* The powers of two up to the range of a word.                            *)
PowerOfTwo[k \in 0 .. Width] == IF k = 0 THEN 1 ELSE 2 * PowerOfTwo[k - 1]

IndexMod == PowerOfTwo[Width]

ASSUME SizingAssumption ==
    /\ Width \in Nat \ {0, 1}
    /\ MaxRequest \in 0 .. (IndexMod - 1)

VARIABLES
    capacity,  \* the constructor's argument
    cap,       \* the local cap, then cap_
    pc         \* "off" before the constructor is called, "loop", "sized", or
               \* "failed" when it throws

sizeVars == <<capacity, cap, pc>>

(* Mutants: one doubling too many, and a step that is not a doubling.      *)
DoubleOnceMore ==
    /\ pc = "loop" /\ cap <= capacity
    /\ cap' = (2 * cap) % IndexMod
    /\ UNCHANGED <<capacity, pc>>

AddOne ==
    /\ pc = "loop" /\ cap < capacity
    /\ cap' = (cap + 1) % IndexMod
    /\ UNCHANGED <<capacity, pc>>

(* `cap <<= 1` drops the bit that leaves the word.                         *)
Double ==
    /\ pc = "loop" /\ cap < capacity
    /\ cap' = (2 * cap) % IndexMod
    /\ UNCHANGED <<capacity, pc>>

(* cap_ = cap; mask_ = cap - 1; buf_.resize(cap_).                         *)
Allocate ==
    /\ pc = "loop" /\ cap >= capacity
    /\ pc' = "sized"
    /\ UNCHANGED <<capacity, cap>>

(* resize throws length_error or bad_alloc.  How many events there is      *)
(* memory for is not known here: any number may be too many.               *)
AllocateFails ==
    /\ pc = "loop" /\ cap >= capacity
    /\ pc' = "failed"
    /\ UNCHANGED <<capacity, cap>>

SizeNext == Double \/ Allocate \/ AllocateFails
-----------------------------------------------------------------------------
(* No power of two of the word is as large.                                *)
TooLarge == capacity > PowerOfTwo[Width - 1]

PowersOfTwo == {PowerOfTwo[k] : k \in 0 .. (Width - 1)}

(* "capacity is rounded up to a power of two so head/tail wrap with a      *)
(* mask" (line 19): cap_ is the smallest one that holds what was asked     *)
(* for.  And it is one the ring's arithmetic bears (RingAssumption of      *)
(* SpscRing): it divides the range of the index words, so that the mask    *)
(* commutes with their wrapping, and leaves the full test a value to spare.*)
UsableCapacity ==
    pc = "sized" => /\ cap = Min({p \in PowersOfTwo : p >= capacity})
                    /\ IndexMod % cap = 0
                    /\ cap + 1 < IndexMod

=============================================================================
