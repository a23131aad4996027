------------------------------ MODULE SpscRing ------------------------------
(***************************************************************************)
(* src/ring_buffer.hpp: the lock-free single-producer single-consumer ring *)
(* between the inference thread and the thread that drains it.             *)
(*                                                                         *)
(* head_, tail_ and dropped_ are machine words: they wrap at IndexMod, and *)
(* a slot is found with a mask.  Every load, store and copy of push and    *)
(* pop is a step of its own.  An acquire load may return any value that    *)
(* coherence allows: one at least as new as the last one this thread read, *)
(* and not necessarily the newest.  The copy of an event into a slot takes *)
(* two steps, between which the slot holds neither the old event nor the   *)
(* new one (Torn).                                                         *)
(*                                                                         *)
(* The item of the k-th call of push is k, so that no two are alike.       *)
(* accepted, delivered, tailRead and headRead are history variables.       *)
(***************************************************************************)
EXTENDS Integers, Sequences

CONSTANTS
    Cap,       \* cap_, a power of two (RingSizing)
    IndexMod,  \* 2^w for a w-bit size_t
    MaxPush,   \* bound on the number of push calls
    Torn       \* what a slot holds while it is being overwritten

(* The mask agrees with the wrapping of the index because the capacity     *)
(* divides the word's range; and the full test has the value Cap + 1 to    *)
(* spare in a word.                                                        *)
ASSUME RingAssumption ==
    /\ Cap \in Nat \ {0}
    /\ IndexMod \in Nat \ {0}
    /\ Cap + 1 < IndexMod
    /\ IndexMod % Cap = 0
    /\ MaxPush \in Nat

ASSUME TornAssumption == Torn \notin Nat

VARIABLES
    buf,        \* buf_
    head,       \* head_
    tail,       \* tail_
    dropped,    \* dropped_
    pushes,     \* calls of push so far; the item of the current one
    ppc,        \* where the producer is in push
    cpc,        \* where the consumer is in pop
    out,        \* the consumer's copy of a slot
    accepted,   \* items whose push has published them
    delivered,  \* items whose pop has returned
    tailRead,   \* pops that precede the tail_ the producer last read
    headRead    \* pushes that precede the head_ the consumer last read

vars == <<buf, head, tail, dropped, pushes, ppc, cpc, out,
          accepted, delivered, tailRead, headRead>>

pushed == Len(accepted)
popped == Len(delivered)

(* Mutant: an index stored without wrapping.                               *)
WordIncUnwrapped(word) == word + 1

Slot(index) == index % Cap
WordInc(word) == (word + 1) % IndexMod
WordDiff(word1, word2) == (word1 - word2) % IndexMod

Init ==
    /\ buf = [s \in 0 .. (Cap - 1) |-> 0]
    /\ head = 0 /\ tail = 0 /\ dropped = 0
    /\ pushes = 0
    /\ ppc = "idle" /\ cpc = "idle"
    /\ out = 0
    /\ accepted = <<>> /\ delivered = <<>>
    /\ tailRead = 0 /\ headRead = 0
-----------------------------------------------------------------------------
(* Producer: push(item).                                                   *)

(* Mutants of the full test: one place too many, one too few, and a        *)
(* difference that is not taken modulo the word.                           *)
FullLate(n) == WordDiff(WordInc(head), n % IndexMod) > Cap + 1
FullEarly(n) == WordDiff(WordInc(head), n % IndexMod) >= Cap
FullUnwrapped(n) == WordInc(head) - (n % IndexMod) > Cap

(* `next - tail_.load(acquire) > cap_`, on the tail_ stored after n pops.  *)
Full(n) == WordDiff(WordInc(head), n % IndexMod) > Cap

PushLoad(n) ==
    /\ ppc = "idle"
    /\ pushes < MaxPush
    /\ pushes' = pushes + 1
    /\ tailRead' = n
    /\ UNCHANGED <<buf, head, tail, dropped, cpc, out, accepted, delivered, headRead>>

PushSeesFull ==
    \E n \in tailRead .. popped :
        /\ Full(n)
        /\ PushLoad(n)
        /\ ppc' = "drop"

PushSeesRoom ==
    \E n \in tailRead .. popped :
        /\ ~ Full(n)
        /\ PushLoad(n)
        /\ ppc' = "write"

(* Mutants: a refusal that is not counted, and one that waits for room.    *)
PushDropUncounted ==
    /\ ppc = "drop"
    /\ ppc' = "idle"
    /\ UNCHANGED <<buf, head, tail, dropped, pushes, cpc, out, accepted, delivered, tailRead, headRead>>

PushDropWaits ==
    /\ ppc = "drop" /\ pushed - popped < Cap
    /\ dropped' = WordInc(dropped)
    /\ ppc' = "idle"
    /\ UNCHANGED <<buf, head, tail, pushes, cpc, out, accepted, delivered, tailRead, headRead>>

PushDrop ==
    /\ ppc = "drop"
    /\ dropped' = WordInc(dropped)
    /\ ppc' = "idle"
    /\ UNCHANGED <<buf, head, tail, pushes, cpc, out, accepted, delivered, tailRead, headRead>>

PushWriteBegin ==
    /\ ppc = "write"
    /\ buf' = [buf EXCEPT ![Slot(head)] = Torn]
    /\ ppc' = "writing"
    /\ UNCHANGED <<head, tail, dropped, pushes, cpc, out, accepted, delivered, tailRead, headRead>>

PushWriteEnd ==
    /\ ppc = "writing"
    /\ buf' = [buf EXCEPT ![Slot(head)] = pushes]
    /\ ppc' = "publish"
    /\ UNCHANGED <<head, tail, dropped, pushes, cpc, out, accepted, delivered, tailRead, headRead>>

PushPublish ==
    /\ ppc = "publish"
    /\ head' = WordInc(head)
    /\ accepted' = Append(accepted, pushes)
    /\ ppc' = "idle"
    /\ UNCHANGED <<buf, tail, dropped, pushes, cpc, out, delivered, tailRead, headRead>>

Producer == \/ PushSeesFull \/ PushSeesRoom \/ PushDrop
            \/ PushWriteBegin \/ PushWriteEnd \/ PushPublish
-----------------------------------------------------------------------------
(* Consumer: pop(out) and size_approx().                                   *)

(* Mutant: the indices compared in order, as if they never wrapped.        *)
EmptyOrdered(n) == n % IndexMod <= tail

(* `tail == head_.load(acquire)`, on the head_ stored after n pushes.      *)
Empty(n) == tail = n % IndexMod

PopSeesEmpty ==
    /\ cpc = "idle"
    /\ \E n \in headRead .. pushed : Empty(n) /\ headRead' = n
    /\ UNCHANGED <<buf, head, tail, dropped, pushes, ppc, cpc, out, accepted, delivered, tailRead>>

(* Mutant: pop without its test.                                           *)
PopUntested ==
    /\ cpc = "idle"
    /\ headRead' \in headRead .. pushed
    /\ cpc' = "read"
    /\ UNCHANGED <<buf, head, tail, dropped, pushes, ppc, out, accepted, delivered, tailRead>>

PopSeesItem ==
    /\ cpc = "idle"
    /\ \E n \in headRead .. pushed : ~ Empty(n) /\ headRead' = n
    /\ cpc' = "read"
    /\ UNCHANGED <<buf, head, tail, dropped, pushes, ppc, out, accepted, delivered, tailRead>>

PopRead ==
    /\ cpc = "read"
    /\ out' = buf[Slot(tail)]
    /\ cpc' = "release"
    /\ UNCHANGED <<buf, head, tail, dropped, pushes, ppc, accepted, delivered, tailRead, headRead>>

PopRelease ==
    /\ cpc = "release"
    /\ tail' = WordInc(tail)
    /\ delivered' = Append(delivered, out)
    /\ cpc' = "idle"
    /\ UNCHANGED <<buf, head, dropped, pushes, ppc, out, accepted, tailRead, headRead>>

(* Mutant: the difference not taken modulo the word.                       *)
SizeUnwrapped(n) == (n % IndexMod) - tail

(* size_approx(): `head_.load(acquire) - tail_.load(acquire)`, on the      *)
(* head_ stored after n pushes.  Only the consumer's thread calls it.      *)
SizeApprox(n) == WordDiff(n % IndexMod, tail)

LoadSize ==
    /\ cpc = "idle"
    /\ headRead' \in headRead .. pushed
    /\ UNCHANGED <<buf, head, tail, dropped, pushes, ppc, cpc, out, accepted, delivered, tailRead>>

Consumer == PopSeesEmpty \/ PopSeesItem \/ PopRead \/ PopRelease \/ LoadSize
-----------------------------------------------------------------------------
Next == Producer \/ Consumer

Spec == Init /\ [][Next]_vars

(* A push that has begun ends: inference is running.  A store becomes      *)
(* visible to the other thread's acquire loads in finite time, so a        *)
(* consumer that keeps polling a ring with an item ends up seeing it.      *)
ProducerFairness == WF_vars(PushDrop \/ PushWriteBegin \/ PushWriteEnd \/ PushPublish)
ConsumerFairness == WF_vars(PopSeesItem) /\ WF_vars(PopRead \/ PopRelease)

LiveSpec == Spec /\ ProducerFairness
-----------------------------------------------------------------------------
(* The indices and the program counters stay in their ranges: in           *)
(* particular no word outgrows its width.                                  *)
TypeOK ==
    /\ buf \in [0 .. (Cap - 1) -> Nat \cup {Torn}]
    /\ head \in 0 .. (IndexMod - 1)
    /\ tail \in 0 .. (IndexMod - 1)
    /\ dropped \in 0 .. (IndexMod - 1)
    /\ pushes \in 0 .. MaxPush
    /\ ppc \in {"idle", "drop", "write", "writing", "publish"}
    /\ cpc \in {"idle", "read", "release"}
    /\ out \in Nat \cup {Torn}
    /\ accepted \in Seq(Nat)
    /\ delivered \in Seq(Nat \cup {Torn})
    /\ tailRead \in Nat
    /\ headRead \in Nat

(* The producer never writes the slot the consumer is reading: although    *)
(* push and pop hold no lock, the copy of an event is never concurrent     *)
(* with another access to it (push 30-40, pop 43-51).                      *)
NoSlotRace ==
    ppc \in {"write", "writing"} /\ cpc = "read" => Slot(head) # Slot(tail)

(* What pop has returned is exactly what push accepted, in the same order, *)
(* without a gap, a repetition or a half-copied event, across the wrapping *)
(* of the indices; and so is the item pop is about to return.              *)
FifoIntegrity ==
    /\ popped <= pushed
    /\ \A i \in 1 .. popped : delivered[i] = accepted[i]
    /\ cpc = "release" => /\ popped < pushed
                          /\ out = accepted[popped + 1]

(* An accepted event stays intact in its slot until it is popped, however  *)
(* old the tail_ the producer works with.                                  *)
UnreadKept ==
    \A i \in 1 .. pushed : i > popped => buf[Slot(i - 1)] = accepted[i]

(* Every push call is accounted for: accepted, counted in dropped_ (modulo *)
(* its width), or still running.                                           *)
Accounting ==
    dropped = (pushes - pushed - (IF ppc = "idle" THEN 0 ELSE 1)) % IndexMod

(* The ring holds at most capacity() events, and an event is refused only  *)
(* if, going by the tail_ read, the ring holds exactly that many: no place *)
(* is wasted.                                                              *)
HonestRefusal ==
    /\ pushed - popped <= Cap
    /\ ppc = "drop" => pushed - tailRead = Cap

(* size_approx, called by the consumer, is the number of events between    *)
(* its tail_ and the head_ it read: the subtraction never wraps to a huge  *)
(* number.                                                                 *)
SizeIsCount ==
    \A n \in headRead .. pushed : SizeApprox(n) = n - popped

(* Whatever is accepted is popped in the end, if the consumer keeps        *)
(* polling; also past the wrapping of the indices.                         *)
Delivery ==
    ConsumerFairness => \A k \in 1 .. MaxPush : pushed >= k ~> popped >= k

(* "The producer must never block inference" (line 4): a push that has     *)
(* begun returns although nothing is assumed of the consumer.              *)
PushReturns == ppc # "idle" ~> ppc = "idle"
-----------------------------------------------------------------------------
(* The ring implements the lossy FIFO channel: a queue of the accepted and *)
(* not yet popped items, where the producer's credit and the consumer's    *)
(* view come from the last index each has read.                            *)
Unread == [i \in 1 .. (pushed - popped) |-> accepted[popped + i]]

Channel == INSTANCE EventChannel WITH
    Item <- 1 .. MaxPush,
    queue <- Unread,
    credit <- Cap - (pushed - tailRead),
    visible <- headRead - popped,
    dropped <- pushes - pushed - (IF ppc = "idle" THEN 0 ELSE 1)

(* Every step of push and pop is a step of the channel or invisible to it. *)
ChannelSpec == Channel!ChannelSpec

=============================================================================
