--------------------------- MODULE SpscRingProofs ---------------------------
(***************************************************************************)
(* The safety of the ring for every capacity, every word width in which    *)
(* the capacity fits, and every number of calls.                           *)
(*                                                                         *)
(* None of the invariants of SpscRing is inductive by itself: that an      *)
(* unread slot is not overwritten depends on what the producer knew when   *)
(* it tested for room, and that test is about wrapped words.  RingInv ties *)
(* the words to the counts they stand for (WordsMatch), orders the views   *)
(* of the two threads (ViewsOrdered), and keeps what each thread learned   *)
(* from its own test while it works in a slot (ProducerKnows,              *)
(* ConsumerKnows).                                                         *)
(*                                                                         *)
(* The last part maps each step of push and pop to one step of the lossy   *)
(* FIFO channel of EventChannel, or to none:                               *)
(*                                                                         *)
(*   PushSeesFull, PushSeesRoom        the producer learns of free places  *)
(*   PushDrop                          Refuse                              *)
(*   PushPublish                       Accept                              *)
(*   PopSeesEmpty, PopSeesItem,                                            *)
(*   LoadSize                          the consumer learns of items        *)
(*   PopRelease                        Take                                *)
(*   the copies into and out of a slot do not show                         *)
(***************************************************************************)
EXTENDS SpscRing, SequenceLemmas

(* Machine words: what wrapping at n does to counts, and to the slots of a *)
(* ring whose capacity divides n.                                          *)

(* Whole turns of the word do not show.                                    *)
LEMMA ModShift ==
    ASSUME NEW n \in Nat \ {0}, NEW q \in Int, NEW a \in Int
    PROVE  (n * q + a) % n = a % n
<1> DEFINE k == a \div n
           r == a % n
<1>1. k \in Int /\ r \in 0 .. (n - 1) /\ a = n * k + r
  BY DivMod
<1> HIDE DEF k, r
<1>2. n * q + a = n * (q + k) + r /\ q + k \in Int
  BY <1>1
<1>3. (n * (q + k) + r) % n = r
  BY <1>1, <1>2, ModOf
<1>4. QED BY <1>2, <1>3 DEF r

(* Incrementing a wrapped count is wrapping the incremented count.         *)
LEMMA ModSucc ==
    ASSUME NEW n \in Nat \ {0}, NEW a \in Int
    PROVE  ((a % n) + 1) % n = (a + 1) % n
<1> DEFINE k == a \div n
           r == a % n
<1>1. k \in Int /\ r \in 0 .. (n - 1) /\ a = n * k + r
  BY DivMod
<1> HIDE DEF k, r
<1>2. a + 1 = n * k + (r + 1) /\ r + 1 \in Int
  BY <1>1
<1>3. (n * k + (r + 1)) % n = (r + 1) % n
  BY <1>1, <1>2, ModShift
<1>4. QED BY <1>2, <1>3 DEF r

(* The wrapped difference of two wrapped counts is their true difference,  *)
(* as long as that fits in a word.                                         *)
LEMMA ModDiff ==
    ASSUME NEW n \in Nat \ {0}, NEW a \in Int, NEW b \in Int,
           a - b \in 0 .. (n - 1)
    PROVE  ((a % n) - (b % n)) % n = a - b
<1> DEFINE k == a \div n
           r == a % n
           l == b \div n
           s == b % n
<1>1. k \in Int /\ r \in 0 .. (n - 1) /\ a = n * k + r
  BY DivMod
<1>2. l \in Int /\ s \in 0 .. (n - 1) /\ b = n * l + s
  BY DivMod
<1> HIDE DEF k, r, l, s
<1>3. r - s = n * (l - k) + (a - b) /\ l - k \in Int
  BY <1>1, <1>2
<1>4. (n * (l - k) + (a - b)) % n = a - b
  BY <1>3, ModOf
<1>5. QED BY <1>3, <1>4 DEF r, s

(* Two counts less than n apart have different remainders.                 *)
LEMMA ModApart ==
    ASSUME NEW n \in Nat \ {0}, NEW a \in Int, NEW b \in Int,
           a - b \in 1 .. (n - 1)
    PROVE  a % n # b % n
<1>0. a - b \in 0 .. (n - 1)
  OBVIOUS
<1>1. ((a % n) - (b % n)) % n = a - b
  BY <1>0, ModDiff
<1>2. a % n \in Int
  BY DivMod
<1>3. a % n = b % n => (a % n) - (b % n) = 0
  BY <1>2
<1>4. 0 % n = 0
  OBVIOUS
<1>5. a - b # 0
  OBVIOUS
<1>6. QED BY <1>1, <1>3, <1>4, <1>5

(* If c divides n, masking a wrapped count with c is masking the count.    *)
LEMMA ModMod ==
    ASSUME NEW n \in Nat \ {0}, NEW c \in Nat \ {0}, NEW a \in Int,
           n % c = 0
    PROVE  (a % n) % c = a % c
<1> DEFINE m == n \div c
           k == a \div n
           r == a % n
<1>1. m \in Int /\ n = c * m
  <2>1. n = c * m + (n % c) /\ c * m \in Int
    BY DivMod
  <2>2. QED BY <2>1
<1>2. k \in Int /\ r \in Int /\ a = n * k + r
  BY DivMod
<1> HIDE DEF m, k, r
<1>3. a = c * (m * k) + r /\ m * k \in Int
  BY <1>1, <1>2
<1>4. (c * (m * k) + r) % c = r % c
  BY <1>2, <1>3, ModShift
<1>5. QED BY <1>3, <1>4 DEF r
-----------------------------------------------------------------------------
(* The invariant.                                                          *)

(* The words are the numbers of pushes and pops, wrapped.                  *)
WordsMatch ==
    /\ head = pushed % IndexMod
    /\ tail = popped % IndexMod

(* No thread sees the other ahead of where it is, and the producer's view  *)
(* of tail_ never leaves more than Cap items unread.                       *)
ViewsOrdered ==
    /\ tailRead <= popped
    /\ popped <= headRead
    /\ headRead <= pushed
    /\ pushed - tailRead <= Cap

(* Between its test and its end, a push has the room it found, or none.    *)
ProducerKnows ==
    /\ ppc \in {"write", "writing", "publish"} => pushed - tailRead < Cap
    /\ ppc = "drop" => pushed - tailRead = Cap
    /\ ppc = "publish" => buf[pushed % Cap] = pushes
    /\ ppc # "idle" => pushes > 0

(* Between its test and its end, a pop has an item, intact once copied.    *)
ConsumerKnows ==
    /\ cpc \in {"read", "release"} => popped < headRead
    /\ cpc = "release" => out = accepted[popped + 1]

SlotsKept ==
    \A i \in 1 .. pushed : i > popped => buf[(i - 1) % Cap] = accepted[i]

Delivered ==
    \A i \in 1 .. popped : delivered[i] = accepted[i]

RingInv ==
    /\ TypeOK
    /\ WordsMatch
    /\ ViewsOrdered
    /\ ProducerKnows
    /\ ConsumerKnows
    /\ SlotsKept
    /\ Delivered
    /\ Accounting

-----------------------------------------------------------------------------
(* What the tests of push and pop and the mask compute, in terms of the    *)
(* counts of pushes and pops.                                              *)
LEMMA Counts ==
    ASSUME TypeOK
    PROVE  pushed \in Nat /\ popped \in Nat
BY DEF TypeOK, pushed, popped

LEMMA Constants ==
    /\ Cap \in Nat \ {0}
    /\ IndexMod \in Nat \ {0}
    /\ Cap + 1 < IndexMod
    /\ IndexMod % Cap = 0
    /\ MaxPush \in Nat
BY RingAssumption

LEMMA WordRange ==
    ASSUME NEW n \in Int
    PROVE  /\ n % IndexMod \in 0 .. (IndexMod - 1)
           /\ n % Cap \in 0 .. (Cap - 1)
BY Constants, DivMod

(* The mask finds the slot of a count.                                     *)
LEMMA SlotOfCount ==
    ASSUME NEW n \in Int
    PROVE  Slot(n % IndexMod) = n % Cap
BY Constants, ModMod DEF Slot

LEMMA IncOfCount ==
    ASSUME NEW n \in Int
    PROVE  WordInc(n % IndexMod) = (n + 1) % IndexMod
BY Constants, ModSucc DEF WordInc

LEMMA DiffOfCounts ==
    ASSUME NEW n \in Int, NEW m \in Int, n - m \in 0 .. (IndexMod - 1)
    PROVE  WordDiff(n % IndexMod, m % IndexMod) = n - m
BY Constants, ModDiff DEF WordDiff

LEMMA CountsApart ==
    ASSUME NEW n \in Int, NEW m \in Int, n - m \in 1 .. (IndexMod - 1)
    PROVE  n % IndexMod # m % IndexMod
BY Constants, ModApart

(* push finds the ring full exactly if its view leaves Cap items unread.   *)
LEMMA FullMeans ==
    ASSUME TypeOK, WordsMatch, ViewsOrdered,
           NEW n \in Nat, tailRead <= n, n <= popped
    PROVE  Full(n) <=> pushed - n = Cap
<1>1. pushed \in Nat /\ popped \in Nat /\ tailRead \in Nat /\ headRead \in Nat
  BY Counts DEF TypeOK
<1>2. n <= pushed /\ pushed - n <= Cap
  BY <1>1, Constants DEF ViewsOrdered
<1>3. WordInc(head) = (pushed + 1) % IndexMod
  BY <1>1, IncOfCount DEF WordsMatch
<1>4. (pushed + 1) - n \in 0 .. (IndexMod - 1)
  BY <1>1, <1>2, Constants
<1>5. WordDiff((pushed + 1) % IndexMod, n % IndexMod) = (pushed + 1) - n
  BY <1>1, <1>4, DiffOfCounts
<1>6. QED BY <1>1, <1>2, <1>3, <1>5, Constants DEF Full

(* pop finds the ring empty exactly if its view holds no unread item.      *)
LEMMA EmptyMeans ==
    ASSUME TypeOK, WordsMatch, ViewsOrdered,
           NEW n \in Nat, headRead <= n, n <= pushed
    PROVE  Empty(n) <=> n = popped
<1>1. pushed \in Nat /\ popped \in Nat /\ tailRead \in Nat /\ headRead \in Nat
  BY Counts DEF TypeOK
<1>2. n - popped \in 0 .. (IndexMod - 1)
  BY <1>1, Constants DEF ViewsOrdered
<1>3. n # popped => n % IndexMod # popped % IndexMod
  <2>1. SUFFICES ASSUME n # popped PROVE n % IndexMod # popped % IndexMod
    OBVIOUS
  <2>2. n - popped \in 1 .. (IndexMod - 1)
    BY <1>1, <1>2, <2>1, Constants
  <2>3. QED BY <1>1, <2>2, CountsApart
<1>4. QED BY <1>3 DEF Empty, WordsMatch

(* Two items in the ring, or one in it and one about to be, are in         *)
(* different slots.                                                        *)
LEMMA SlotsApart ==
    ASSUME NEW i \in Int, NEW j \in Int, i < j, j - i < Cap
    PROVE  j % Cap # i % Cap
<1>1. j - i \in 1 .. (Cap - 1)
  BY Constants
<1>2. QED BY <1>1, Constants, ModApart

-----------------------------------------------------------------------------
(* RingInv holds at the start and is preserved by every step of either     *)
(* thread.                                                                 *)
LEMMA RingInit == Init => RingInv
<1>1. SUFFICES ASSUME Init PROVE RingInv
  OBVIOUS
<1>2. pushed = 0 /\ popped = 0
  BY <1>1 DEF Init, pushed, popped
<1>3. 0 % IndexMod = 0
  BY Constants
<1>4. TypeOK
  BY <1>1, Constants DEF Init, TypeOK
<1>5. WordsMatch /\ ViewsOrdered
  BY <1>1, <1>2, <1>3, Constants DEF Init, WordsMatch, ViewsOrdered
<1>6. ProducerKnows /\ ConsumerKnows
  BY <1>1 DEF Init, ProducerKnows, ConsumerKnows
<1>7. SlotsKept /\ Delivered
  BY <1>2 DEF SlotsKept, Delivered
<1>8. Accounting
  BY <1>1, <1>2, <1>3 DEF Init, Accounting
<1>9. QED BY <1>4, <1>5, <1>6, <1>7, <1>8 DEF RingInv

LEMMA PushSeesFullStep == RingInv /\ PushSeesFull => RingInv'
<1>1. SUFFICES ASSUME RingInv, PushSeesFull PROVE RingInv'
  OBVIOUS
<1>2. PICK n \in tailRead .. popped : Full(n) /\ PushLoad(n) /\ ppc' = "drop"
  BY <1>1 DEF PushSeesFull
<1>3. /\ ppc = "idle" /\ pushes < MaxPush /\ pushes' = pushes + 1 /\ tailRead' = n
      /\ UNCHANGED <<buf, head, tail, dropped, cpc, out, accepted, delivered, headRead>>
  BY <1>2 DEF PushLoad
<1>4. UNCHANGED <<pushed, popped>>
  BY <1>3 DEF pushed, popped
<1>5. /\ pushed \in Nat /\ popped \in Nat /\ tailRead \in Nat /\ headRead \in Nat
      /\ pushes \in Nat
  BY <1>1, Counts DEF RingInv, TypeOK
<1>6. n \in Nat /\ tailRead <= n /\ n <= popped
  BY <1>2, <1>5
<1>7. pushed - n = Cap
  BY <1>1, <1>2, <1>6, FullMeans DEF RingInv
<1>8. TypeOK'
  BY <1>1, <1>2, <1>3, <1>6, Constants DEF RingInv, TypeOK
<1>9. WordsMatch'
  BY <1>1, <1>3, <1>4 DEF RingInv, WordsMatch
<1>10. ViewsOrdered'
  BY <1>1, <1>3, <1>4, <1>5, <1>6, <1>7, Constants DEF RingInv, ViewsOrdered
<1>11. ProducerKnows'
  BY <1>2, <1>3, <1>4, <1>5, <1>7 DEF ProducerKnows
<1>12. ConsumerKnows'
  BY <1>1, <1>3, <1>4 DEF RingInv, ConsumerKnows
<1>13. SlotsKept' /\ Delivered'
  BY <1>1, <1>3, <1>4 DEF RingInv, SlotsKept, Delivered
<1>14. Accounting'
  <2>1. (pushes + 1) - pushed - 1 = pushes - pushed - 0
    BY <1>5
  <2>2. QED BY <1>1, <1>2, <1>3, <1>4, <2>1 DEF RingInv, Accounting
<1>15. QED BY <1>8, <1>9, <1>10, <1>11, <1>12, <1>13, <1>14 DEF RingInv

LEMMA PushSeesRoomStep == RingInv /\ PushSeesRoom => RingInv'
<1>1. SUFFICES ASSUME RingInv, PushSeesRoom PROVE RingInv'
  OBVIOUS
<1>2. PICK n \in tailRead .. popped : ~ Full(n) /\ PushLoad(n) /\ ppc' = "write"
  BY <1>1 DEF PushSeesRoom
<1>3. /\ ppc = "idle" /\ pushes < MaxPush /\ pushes' = pushes + 1 /\ tailRead' = n
      /\ UNCHANGED <<buf, head, tail, dropped, cpc, out, accepted, delivered, headRead>>
  BY <1>2 DEF PushLoad
<1>4. UNCHANGED <<pushed, popped>>
  BY <1>3 DEF pushed, popped
<1>5. /\ pushed \in Nat /\ popped \in Nat /\ tailRead \in Nat /\ headRead \in Nat
      /\ pushes \in Nat
  BY <1>1, Counts DEF RingInv, TypeOK
<1>6. n \in Nat /\ tailRead <= n /\ n <= popped
  BY <1>2, <1>5
<1>7. pushed - n < Cap
  <2>1. pushed - n # Cap
    BY <1>1, <1>2, <1>6, FullMeans DEF RingInv
  <2>2. QED BY <1>1, <1>5, <1>6, <2>1, Constants DEF RingInv, ViewsOrdered
<1>8. TypeOK'
  BY <1>1, <1>2, <1>3, <1>6, Constants DEF RingInv, TypeOK
<1>9. WordsMatch'
  BY <1>1, <1>3, <1>4 DEF RingInv, WordsMatch
<1>10. ViewsOrdered'
  BY <1>1, <1>3, <1>4, <1>5, <1>6, <1>7, Constants DEF RingInv, ViewsOrdered
<1>11. ProducerKnows'
  BY <1>2, <1>3, <1>4, <1>5, <1>7 DEF ProducerKnows
<1>12. ConsumerKnows'
  BY <1>1, <1>3, <1>4 DEF RingInv, ConsumerKnows
<1>13. SlotsKept' /\ Delivered'
  BY <1>1, <1>3, <1>4 DEF RingInv, SlotsKept, Delivered
<1>14. Accounting'
  <2>1. (pushes + 1) - pushed - 1 = pushes - pushed - 0
    BY <1>5
  <2>2. QED BY <1>1, <1>2, <1>3, <1>4, <2>1 DEF RingInv, Accounting
<1>15. QED BY <1>8, <1>9, <1>10, <1>11, <1>12, <1>13, <1>14 DEF RingInv

LEMMA PushDropStep == RingInv /\ PushDrop => RingInv'
<1>1. SUFFICES ASSUME RingInv, PushDrop PROVE RingInv'
  OBVIOUS
<1>2. /\ ppc = "drop" /\ ppc' = "idle" /\ dropped' = WordInc(dropped)
      /\ UNCHANGED <<buf, head, tail, pushes, cpc, out, accepted, delivered, tailRead, headRead>>
  BY <1>1 DEF PushDrop
<1>3. UNCHANGED <<pushed, popped>>
  BY <1>2 DEF pushed, popped
<1>4. pushed \in Nat /\ pushes \in Nat
  BY <1>1, Counts DEF RingInv, TypeOK
<1>5. dropped' = ((pushes - pushed - 1) + 1) % IndexMod
  BY <1>1, <1>2, <1>4, IncOfCount DEF RingInv, Accounting
<1>6. TypeOK'
  <2>1. dropped' \in 0 .. (IndexMod - 1)
    BY <1>4, <1>5, WordRange
  <2>2. QED BY <1>1, <1>2, <2>1 DEF RingInv, TypeOK
<1>7. WordsMatch' /\ ViewsOrdered'
  BY <1>1, <1>2, <1>3 DEF RingInv, WordsMatch, ViewsOrdered
<1>8. ProducerKnows' /\ ConsumerKnows'
  BY <1>1, <1>2, <1>3 DEF RingInv, ProducerKnows, ConsumerKnows
<1>9. SlotsKept' /\ Delivered'
  BY <1>1, <1>2, <1>3 DEF RingInv, SlotsKept, Delivered
<1>10. Accounting'
  <2>1. (pushes - pushed - 1) + 1 = pushes - pushed - 0
    BY <1>4
  <2>2. QED BY <1>2, <1>3, <1>5, <2>1 DEF Accounting
<1>11. QED BY <1>6, <1>7, <1>8, <1>9, <1>10 DEF RingInv

LEMMA PushWriteBeginStep == RingInv /\ PushWriteBegin => RingInv'
<1>1. SUFFICES ASSUME RingInv, PushWriteBegin PROVE RingInv'
  OBVIOUS
<1>2. /\ ppc = "write" /\ ppc' = "writing"
      /\ buf' = [buf EXCEPT ![Slot(head)] = Torn]
      /\ UNCHANGED <<head, tail, dropped, pushes, cpc, out, accepted, delivered, tailRead, headRead>>
  BY <1>1 DEF PushWriteBegin
<1>3. UNCHANGED <<pushed, popped>>
  BY <1>2 DEF pushed, popped
<1>4. pushed \in Nat /\ popped \in Nat /\ tailRead \in Nat /\ headRead \in Nat
  BY <1>1, Counts DEF RingInv, TypeOK
<1>5. Slot(head) = pushed % Cap
  BY <1>1, <1>4, SlotOfCount DEF RingInv, WordsMatch
<1>6. TypeOK'
  BY <1>1, <1>2, <1>4, <1>5, WordRange DEF RingInv, TypeOK
<1>7. WordsMatch' /\ ViewsOrdered'
  BY <1>1, <1>2, <1>3 DEF RingInv, WordsMatch, ViewsOrdered
<1>8. ProducerKnows' /\ ConsumerKnows'
  BY <1>1, <1>2, <1>3 DEF RingInv, ProducerKnows, ConsumerKnows
<1>9. SlotsKept'
  <2>1. SUFFICES ASSUME NEW i \in 1 .. pushed, i > popped
                 PROVE  buf'[(i - 1) % Cap] = accepted[i]
    BY <1>2, <1>3 DEF SlotsKept
  <2>2. i - 1 < pushed /\ pushed - (i - 1) < Cap
    BY <1>1, <1>2, <1>4, <2>1, Constants DEF RingInv, ViewsOrdered, ProducerKnows
  <2>3. pushed % Cap # (i - 1) % Cap
    BY <1>4, <2>2, SlotsApart
  <2>4. buf[(i - 1) % Cap] = accepted[i]
    BY <1>1, <2>1 DEF RingInv, SlotsKept
  <2>5. buf \in [0 .. (Cap - 1) -> Nat \cup {Torn}]
    BY <1>1 DEF RingInv, TypeOK
  <2>6. (i - 1) % Cap \in 0 .. (Cap - 1)
    BY <1>4, WordRange
  <2>7. QED BY <1>2, <1>5, <2>3, <2>4, <2>5, <2>6
<1>10. Delivered' /\ Accounting'
  BY <1>1, <1>2, <1>3 DEF RingInv, Delivered, Accounting
<1>11. QED BY <1>6, <1>7, <1>8, <1>9, <1>10 DEF RingInv

LEMMA PushWriteEndStep == RingInv /\ PushWriteEnd => RingInv'
<1>1. SUFFICES ASSUME RingInv, PushWriteEnd PROVE RingInv'
  OBVIOUS
<1>2. /\ ppc = "writing" /\ ppc' = "publish"
      /\ buf' = [buf EXCEPT ![Slot(head)] = pushes]
      /\ UNCHANGED <<head, tail, dropped, pushes, cpc, out, accepted, delivered, tailRead, headRead>>
  BY <1>1 DEF PushWriteEnd
<1>3. UNCHANGED <<pushed, popped>>
  BY <1>2 DEF pushed, popped
<1>4. /\ pushed \in Nat /\ popped \in Nat /\ tailRead \in Nat /\ headRead \in Nat
      /\ pushes \in Nat
  BY <1>1, Counts DEF RingInv, TypeOK
<1>5. Slot(head) = pushed % Cap
  BY <1>1, <1>4, SlotOfCount DEF RingInv, WordsMatch
<1>6. /\ buf \in [0 .. (Cap - 1) -> Nat \cup {Torn}]
      /\ pushed % Cap \in 0 .. (Cap - 1)
  <2>1. buf \in [0 .. (Cap - 1) -> Nat \cup {Torn}]
    BY <1>1 DEF RingInv, TypeOK
  <2>2. pushed % Cap \in 0 .. (Cap - 1)
    BY <1>4, WordRange
  <2>3. QED BY <2>1, <2>2
<1>7. TypeOK'
  BY <1>1, <1>2, <1>4, <1>5, <1>6 DEF RingInv, TypeOK
<1>8. WordsMatch' /\ ViewsOrdered'
  BY <1>1, <1>2, <1>3 DEF RingInv, WordsMatch, ViewsOrdered
<1>9. ProducerKnows'
  <2>1. buf'[pushed % Cap] = pushes
    BY <1>2, <1>5, <1>6
  <2>2. QED BY <1>1, <1>2, <1>3, <2>1 DEF RingInv, ProducerKnows
<1>10. ConsumerKnows'
  BY <1>1, <1>2, <1>3 DEF RingInv, ConsumerKnows
<1>11. SlotsKept'
  <2>1. SUFFICES ASSUME NEW i \in 1 .. pushed, i > popped
                 PROVE  buf'[(i - 1) % Cap] = accepted[i]
    BY <1>2, <1>3 DEF SlotsKept
  <2>2. i - 1 < pushed /\ pushed - (i - 1) < Cap
    BY <1>1, <1>2, <1>4, <2>1, Constants DEF RingInv, ViewsOrdered, ProducerKnows
  <2>3. pushed % Cap # (i - 1) % Cap
    BY <1>4, <2>2, SlotsApart
  <2>4. buf[(i - 1) % Cap] = accepted[i]
    BY <1>1, <2>1 DEF RingInv, SlotsKept
  <2>5. (i - 1) % Cap \in 0 .. (Cap - 1)
    BY <1>4, WordRange
  <2>6. QED BY <1>2, <1>5, <1>6, <2>3, <2>4, <2>5
<1>12. Delivered' /\ Accounting'
  BY <1>1, <1>2, <1>3 DEF RingInv, Delivered, Accounting
<1>13. QED BY <1>7, <1>8, <1>9, <1>10, <1>11, <1>12 DEF RingInv

LEMMA PushPublishStep == RingInv /\ PushPublish => RingInv'
<1>1. SUFFICES ASSUME RingInv, PushPublish PROVE RingInv'
  OBVIOUS
<1>2. /\ ppc = "publish" /\ ppc' = "idle"
      /\ head' = WordInc(head) /\ accepted' = Append(accepted, pushes)
      /\ UNCHANGED <<buf, tail, dropped, pushes, cpc, out, delivered, tailRead, headRead>>
  BY <1>1 DEF PushPublish
<1>3. /\ pushed \in Nat /\ popped \in Nat /\ tailRead \in Nat /\ headRead \in Nat
      /\ pushes \in Nat /\ accepted \in Seq(Nat) /\ pushed = Len(accepted)
  BY <1>1, Counts DEF RingInv, TypeOK, pushed
<1>4. /\ accepted' \in Seq(Nat) /\ pushed' = pushed + 1 /\ popped' = popped
      /\ accepted'[pushed + 1] = pushes
      /\ \A i \in 1 .. pushed : accepted'[i] = accepted[i]
  BY <1>2, <1>3 DEF pushed, popped
<1>5. head' = (pushed + 1) % IndexMod
  BY <1>1, <1>2, <1>3, IncOfCount DEF RingInv, WordsMatch
<1>6. TypeOK'
  <2>1. head' \in 0 .. (IndexMod - 1)
    BY <1>3, <1>5, WordRange
  <2>2. QED BY <1>1, <1>2, <1>4, <2>1 DEF RingInv, TypeOK
<1>7. WordsMatch'
  BY <1>1, <1>2, <1>4, <1>5 DEF RingInv, WordsMatch
<1>8. ViewsOrdered'
  BY <1>1, <1>2, <1>3, <1>4, Constants DEF RingInv, ViewsOrdered, ProducerKnows
<1>9. ProducerKnows'
  BY <1>2 DEF ProducerKnows
<1>10. ConsumerKnows'
  <2>1. cpc = "release" => popped + 1 \in 1 .. pushed
    BY <1>1, <1>3 DEF RingInv, ConsumerKnows, ViewsOrdered
  <2>2. QED BY <1>1, <1>2, <1>4, <2>1 DEF RingInv, ConsumerKnows
<1>11. SlotsKept'
  <2>1. SUFFICES ASSUME NEW i \in 1 .. (pushed + 1), i > popped
                 PROVE  buf[(i - 1) % Cap] = accepted'[i]
    BY <1>2, <1>4 DEF SlotsKept
  <2>2. CASE i = pushed + 1
    <3>1. i - 1 = pushed
      BY <1>3, <2>2
    <3>2. buf[pushed % Cap] = pushes
      BY <1>1, <1>2 DEF RingInv, ProducerKnows
    <3>3. QED BY <1>4, <2>2, <3>1, <3>2
  <2>3. CASE i \in 1 .. pushed
    BY <1>1, <1>4, <2>1, <2>3 DEF RingInv, SlotsKept
  <2>4. QED BY <1>3, <2>2, <2>3
<1>12. Delivered'
  <2>1. \A i \in 1 .. popped : i \in 1 .. pushed
    BY <1>1, <1>3 DEF RingInv, ViewsOrdered
  <2>2. QED BY <1>1, <1>2, <1>4, <2>1 DEF RingInv, Delivered
<1>13. Accounting'
  <2>1. pushes - (pushed + 1) - 0 = pushes - pushed - 1
    BY <1>3
  <2>2. QED BY <1>1, <1>2, <1>4, <2>1 DEF RingInv, Accounting
<1>14. QED BY <1>6, <1>7, <1>8, <1>9, <1>10, <1>11, <1>12, <1>13 DEF RingInv

(* Reading a newer head_ disturbs only headRead.                           *)
LEMMA HeadReadStep ==
    ASSUME RingInv, cpc = "idle", headRead' \in headRead .. pushed,
           UNCHANGED <<buf, head, tail, dropped, pushes, ppc, cpc, out,
                       accepted, delivered, tailRead>>
    PROVE  RingInv'
<1>1. UNCHANGED <<pushed, popped>>
  BY DEF pushed, popped
<1>2. pushed \in Nat /\ popped \in Nat /\ tailRead \in Nat /\ headRead \in Nat
  BY Counts DEF RingInv, TypeOK
<1>3. headRead' \in Nat /\ headRead <= headRead' /\ headRead' <= pushed
  BY <1>2
<1>4. TypeOK'
  BY <1>3 DEF RingInv, TypeOK
<1>5. WordsMatch' /\ ViewsOrdered'
  BY <1>1, <1>2, <1>3 DEF RingInv, WordsMatch, ViewsOrdered
<1>6. ProducerKnows' /\ ConsumerKnows'
  BY <1>1 DEF RingInv, ProducerKnows, ConsumerKnows
<1>7. SlotsKept' /\ Delivered' /\ Accounting'
  BY <1>1 DEF RingInv, SlotsKept, Delivered, Accounting
<1>8. QED BY <1>4, <1>5, <1>6, <1>7 DEF RingInv

LEMMA PopSeesEmptyStep == RingInv /\ PopSeesEmpty => RingInv'
<1>1. SUFFICES ASSUME RingInv, PopSeesEmpty PROVE RingInv'
  OBVIOUS
<1>2. PICK n \in headRead .. pushed : Empty(n) /\ headRead' = n
  BY <1>1 DEF PopSeesEmpty
<1>3. /\ cpc = "idle"
      /\ UNCHANGED <<buf, head, tail, dropped, pushes, ppc, cpc, out, accepted, delivered, tailRead>>
  BY <1>1 DEF PopSeesEmpty
<1>4. QED BY <1>1, <1>2, <1>3, HeadReadStep

LEMMA LoadSizeStep == RingInv /\ LoadSize => RingInv'
BY HeadReadStep DEF LoadSize

LEMMA PopSeesItemStep == RingInv /\ PopSeesItem => RingInv'
<1>1. SUFFICES ASSUME RingInv, PopSeesItem PROVE RingInv'
  OBVIOUS
<1>2. PICK n \in headRead .. pushed : ~ Empty(n) /\ headRead' = n
  BY <1>1 DEF PopSeesItem
<1>3. /\ cpc = "idle" /\ cpc' = "read"
      /\ UNCHANGED <<buf, head, tail, dropped, pushes, ppc, out, accepted, delivered, tailRead>>
  BY <1>1 DEF PopSeesItem
<1>4. UNCHANGED <<pushed, popped>>
  BY <1>3 DEF pushed, popped
<1>5. pushed \in Nat /\ popped \in Nat /\ tailRead \in Nat /\ headRead \in Nat
  BY <1>1, Counts DEF RingInv, TypeOK
<1>6. n \in Nat /\ headRead <= n /\ n <= pushed
  BY <1>2, <1>5
<1>7. popped < n
  <2>1. n # popped
    BY <1>1, <1>2, <1>6, EmptyMeans DEF RingInv
  <2>2. QED BY <1>1, <1>5, <1>6, <2>1 DEF RingInv, ViewsOrdered
<1>8. TypeOK'
  BY <1>1, <1>2, <1>3, <1>6 DEF RingInv, TypeOK
<1>9. WordsMatch'
  BY <1>1, <1>3, <1>4 DEF RingInv, WordsMatch
<1>10. ViewsOrdered'
  BY <1>1, <1>2, <1>3, <1>4, <1>5, <1>6, <1>7 DEF RingInv, ViewsOrdered
<1>11. ProducerKnows'
  BY <1>1, <1>3, <1>4 DEF RingInv, ProducerKnows
<1>12. ConsumerKnows'
  BY <1>2, <1>3, <1>4, <1>7 DEF ConsumerKnows
<1>13. SlotsKept' /\ Delivered' /\ Accounting'
  BY <1>1, <1>3, <1>4 DEF RingInv, SlotsKept, Delivered, Accounting
<1>14. QED BY <1>8, <1>9, <1>10, <1>11, <1>12, <1>13 DEF RingInv

LEMMA PopReadStep == RingInv /\ PopRead => RingInv'
<1>1. SUFFICES ASSUME RingInv, PopRead PROVE RingInv'
  OBVIOUS
<1>2. /\ cpc = "read" /\ cpc' = "release" /\ out' = buf[Slot(tail)]
      /\ UNCHANGED <<buf, head, tail, dropped, pushes, ppc, accepted, delivered, tailRead, headRead>>
  BY <1>1 DEF PopRead
<1>3. UNCHANGED <<pushed, popped>>
  BY <1>2 DEF pushed, popped
<1>4. pushed \in Nat /\ popped \in Nat /\ tailRead \in Nat /\ headRead \in Nat
  BY <1>1, Counts DEF RingInv, TypeOK
<1>5. out' = accepted[popped + 1]
  <2>1. Slot(tail) = popped % Cap
    BY <1>1, <1>4, SlotOfCount DEF RingInv, WordsMatch
  <2>2. popped + 1 \in 1 .. pushed /\ popped + 1 > popped /\ (popped + 1) - 1 = popped
    BY <1>1, <1>2, <1>4 DEF RingInv, ConsumerKnows, ViewsOrdered
  <2>3. buf[((popped + 1) - 1) % Cap] = accepted[popped + 1]
    BY <1>1, <2>2 DEF RingInv, SlotsKept
  <2>4. QED BY <1>2, <2>1, <2>2, <2>3
<1>6. TypeOK'
  <2>1. buf \in [0 .. (Cap - 1) -> Nat \cup {Torn}]
    BY <1>1 DEF RingInv, TypeOK
  <2>2. Slot(tail) \in 0 .. (Cap - 1)
    <3>1. Slot(tail) = popped % Cap
      BY <1>1, <1>4, SlotOfCount DEF RingInv, WordsMatch
    <3>2. QED BY <1>4, <3>1, WordRange
  <2>3. out' \in Nat \cup {Torn}
    BY <1>2, <2>1, <2>2
  <2>4. QED BY <1>1, <1>2, <2>3 DEF RingInv, TypeOK
<1>7. WordsMatch' /\ ViewsOrdered' /\ ProducerKnows'
  BY <1>1, <1>2, <1>3 DEF RingInv, WordsMatch, ViewsOrdered, ProducerKnows
<1>8. ConsumerKnows'
  BY <1>1, <1>2, <1>3, <1>5 DEF RingInv, ConsumerKnows
<1>9. SlotsKept' /\ Delivered' /\ Accounting'
  BY <1>1, <1>2, <1>3 DEF RingInv, SlotsKept, Delivered, Accounting
<1>10. QED BY <1>6, <1>7, <1>8, <1>9 DEF RingInv

LEMMA PopReleaseStep == RingInv /\ PopRelease => RingInv'
<1>1. SUFFICES ASSUME RingInv, PopRelease PROVE RingInv'
  OBVIOUS
<1>2. /\ cpc = "release" /\ cpc' = "idle"
      /\ tail' = WordInc(tail) /\ delivered' = Append(delivered, out)
      /\ UNCHANGED <<buf, head, dropped, pushes, ppc, out, accepted, tailRead, headRead>>
  BY <1>1 DEF PopRelease
<1>3. /\ pushed \in Nat /\ popped \in Nat /\ tailRead \in Nat /\ headRead \in Nat
      /\ out \in Nat \cup {Torn} /\ delivered \in Seq(Nat \cup {Torn})
      /\ popped = Len(delivered)
  BY <1>1, Counts DEF RingInv, TypeOK, popped
<1>4. /\ delivered' \in Seq(Nat \cup {Torn}) /\ popped' = popped + 1 /\ pushed' = pushed
      /\ delivered'[popped + 1] = out
      /\ \A i \in 1 .. popped : delivered'[i] = delivered[i]
  BY <1>2, <1>3 DEF pushed, popped
<1>5. tail' = (popped + 1) % IndexMod
  BY <1>1, <1>2, <1>3, IncOfCount DEF RingInv, WordsMatch
<1>6. TypeOK'
  <2>1. tail' \in 0 .. (IndexMod - 1)
    BY <1>3, <1>5, WordRange
  <2>2. QED BY <1>1, <1>2, <1>4, <2>1 DEF RingInv, TypeOK
<1>7. WordsMatch'
  BY <1>1, <1>2, <1>4, <1>5 DEF RingInv, WordsMatch
<1>8. ViewsOrdered'
  BY <1>1, <1>2, <1>3, <1>4 DEF RingInv, ViewsOrdered, ConsumerKnows
<1>9. ProducerKnows' /\ ConsumerKnows'
  BY <1>1, <1>2, <1>4 DEF RingInv, ProducerKnows, ConsumerKnows
<1>10. SlotsKept'
  BY <1>1, <1>2, <1>3, <1>4 DEF RingInv, SlotsKept
<1>11. Delivered'
  <2>1. SUFFICES ASSUME NEW i \in 1 .. (popped + 1) PROVE delivered'[i] = accepted[i]
    BY <1>2, <1>4 DEF Delivered
  <2>2. CASE i = popped + 1
    BY <1>1, <1>2, <1>4, <2>2 DEF RingInv, ConsumerKnows
  <2>3. CASE i \in 1 .. popped
    BY <1>1, <1>4, <2>3 DEF RingInv, Delivered
  <2>4. QED BY <1>3, <2>2, <2>3
<1>12. Accounting'
  BY <1>1, <1>2, <1>4 DEF RingInv, Accounting
<1>13. QED BY <1>6, <1>7, <1>8, <1>9, <1>10, <1>11, <1>12 DEF RingInv

LEMMA RingStep == RingInv /\ [Next]_vars => RingInv'
<1>1. SUFFICES ASSUME RingInv, [Next]_vars PROVE RingInv'
  OBVIOUS
<1>2. CASE Producer
  BY <1>1, <1>2, PushSeesFullStep, PushSeesRoomStep, PushDropStep,
     PushWriteBeginStep, PushWriteEndStep, PushPublishStep DEF Producer
<1>3. CASE Consumer
  BY <1>1, <1>3, PopSeesEmptyStep, PopSeesItemStep, PopReadStep,
     PopReleaseStep, LoadSizeStep DEF Consumer
<1>4. CASE UNCHANGED vars
  <2>1. UNCHANGED <<pushed, popped>>
    BY <1>4 DEF vars, pushed, popped
  <2>2. TypeOK' /\ WordsMatch' /\ ViewsOrdered'
    BY <1>1, <1>4, <2>1 DEF vars, RingInv, TypeOK, WordsMatch, ViewsOrdered
  <2>3. ProducerKnows' /\ ConsumerKnows' /\ SlotsKept' /\ Delivered' /\ Accounting'
    BY <1>1, <1>4, <2>1
       DEF vars, RingInv, ProducerKnows, ConsumerKnows, SlotsKept, Delivered, Accounting
  <2>4. QED BY <2>2, <2>3 DEF RingInv
<1>5. QED BY <1>1, <1>2, <1>3, <1>4 DEF Next

(* The inductive invariant holds in every reachable state.                 *)
THEOREM RingInvariant == Spec => []RingInv
<1>1. Init => RingInv
  BY RingInit
<1>2. RingInv /\ [Next]_vars => RingInv'
  BY RingStep
<1>3. QED BY <1>1, <1>2, PTL DEF Spec

-----------------------------------------------------------------------------
(* Type correctness: no index, counter or program counter leaves its range *)
(* (ring_buffer.hpp 75-82), for every capacity and word width.             *)
THEOREM RingTypeOK == Spec => []TypeOK
<1>1. RingInv => TypeOK
  BY DEF RingInv
<1>2. QED BY <1>1, RingInvariant, PTL

(* The copy into a slot by push never overlaps the copy out of the same    *)
(* slot by pop, for every capacity and word width.                         *)
THEOREM RingNoSlotRace == Spec => []NoSlotRace
<1>1. RingInv => NoSlotRace
  <2>1. SUFFICES ASSUME RingInv, ppc \in {"write", "writing"}, cpc = "read"
                 PROVE  Slot(head) # Slot(tail)
    BY DEF NoSlotRace
  <2>2. pushed \in Nat /\ popped \in Nat /\ tailRead \in Nat /\ headRead \in Nat
    BY <2>1, Counts DEF RingInv, TypeOK
  <2>3. popped < pushed /\ pushed - popped < Cap
    BY <2>1, <2>2, Constants DEF RingInv, ViewsOrdered, ProducerKnows, ConsumerKnows
  <2>4. pushed % Cap # popped % Cap
    BY <2>2, <2>3, SlotsApart
  <2>5. Slot(head) = pushed % Cap /\ Slot(tail) = popped % Cap
    BY <2>1, <2>2, SlotOfCount DEF RingInv, WordsMatch
  <2>6. QED BY <2>4, <2>5
<1>2. QED BY <1>1, RingInvariant, PTL

(* pop returns exactly the accepted events, in order and intact, for every *)
(* capacity, word width and number of calls.                               *)
THEOREM RingFifoIntegrity == Spec => []FifoIntegrity
<1>1. RingInv => FifoIntegrity
  <2>1. SUFFICES ASSUME RingInv PROVE FifoIntegrity
    OBVIOUS
  <2>2. pushed \in Nat /\ popped \in Nat /\ tailRead \in Nat /\ headRead \in Nat
    BY <2>1, Counts DEF RingInv, TypeOK
  <2>3. popped <= pushed
    BY <2>1, <2>2 DEF RingInv, ViewsOrdered
  <2>4. cpc = "release" => popped < pushed /\ out = accepted[popped + 1]
    BY <2>1, <2>2 DEF RingInv, ViewsOrdered, ConsumerKnows
  <2>5. QED BY <2>1, <2>3, <2>4 DEF RingInv, Delivered, FifoIntegrity
<1>2. QED BY <1>1, RingInvariant, PTL

(* An accepted event is not overwritten before it is popped.               *)
THEOREM RingUnreadKept == Spec => []UnreadKept
<1>1. RingInv => UnreadKept
  BY DEF RingInv, SlotsKept, UnreadKept, Slot
<1>2. QED BY <1>1, RingInvariant, PTL

(* dropped_ counts every refused push, and nothing else, modulo its width. *)
THEOREM RingAccounting == Spec => []Accounting
<1>1. RingInv => Accounting
  BY DEF RingInv
<1>2. QED BY <1>1, RingInvariant, PTL

(* At most Cap events are in the ring, and a push is refused only when its *)
(* view of tail_ leaves no free slot.                                      *)
THEOREM RingHonestRefusal == Spec => []HonestRefusal
<1>1. RingInv => HonestRefusal
  <2>1. SUFFICES ASSUME RingInv PROVE HonestRefusal
    OBVIOUS
  <2>2. pushed \in Nat /\ popped \in Nat /\ tailRead \in Nat /\ headRead \in Nat
    BY <2>1, Counts DEF RingInv, TypeOK
  <2>3. pushed - popped <= Cap
    BY <2>1, <2>2, Constants DEF RingInv, ViewsOrdered
  <2>4. QED BY <2>1, <2>3 DEF RingInv, ProducerKnows, HonestRefusal
<1>2. QED BY <1>1, RingInvariant, PTL

(* size_approx never wraps when the consumer calls it: it is the number of *)
(* events between its tail_ and the head_ it read.                         *)
THEOREM RingSizeIsCount == Spec => []SizeIsCount
<1>1. RingInv => SizeIsCount
  <2>1. SUFFICES ASSUME RingInv, NEW n \in headRead .. pushed
                 PROVE  SizeApprox(n) = n - popped
    BY DEF SizeIsCount
  <2>2. pushed \in Nat /\ popped \in Nat /\ tailRead \in Nat /\ headRead \in Nat
    BY <2>1, Counts DEF RingInv, TypeOK
  <2>3. n \in Nat /\ n - popped \in 0 .. (IndexMod - 1)
    BY <2>1, <2>2, Constants DEF RingInv, ViewsOrdered
  <2>4. QED BY <2>1, <2>2, <2>3, DiffOfCounts DEF RingInv, WordsMatch, SizeApprox
<1>2. QED BY <1>1, RingInvariant, PTL
-----------------------------------------------------------------------------
(* The refinement.                                                         *)

(* Numbers of the mapping, in every state the invariant allows.            *)
Mapped ==
    /\ pushed \in Nat /\ popped \in Nat /\ tailRead \in Nat
    /\ headRead \in Nat /\ pushes \in Nat
    /\ popped <= pushed
    /\ accepted \in Seq(Nat) /\ pushed = Len(accepted)
    /\ Unread \in Seq(Nat) /\ Len(Unread) = pushed - popped

LEMMA MappedCounts == RingInv => Mapped
<1> SUFFICES ASSUME RingInv PROVE Mapped
  OBVIOUS
<1>1. /\ pushed \in Nat /\ popped \in Nat /\ tailRead \in Nat
      /\ headRead \in Nat /\ pushes \in Nat
      /\ accepted \in Seq(Nat) /\ pushed = Len(accepted)
  BY Counts DEF RingInv, TypeOK, pushed
<1>2. popped <= pushed
  BY <1>1 DEF RingInv, ViewsOrdered
<1>3. \A i \in 1 .. (pushed - popped) : accepted[popped + i] \in Nat
  <2>1. SUFFICES ASSUME NEW i \in 1 .. (pushed - popped)
                 PROVE  accepted[popped + i] \in Nat
    OBVIOUS
  <2>2. popped + i \in 1 .. Len(accepted)
    BY <1>1, <1>2
  <2>3. QED BY <1>1, <2>2, ElementOfSeq
<1>4. Unread \in Seq(Nat) /\ Len(Unread) = pushed - popped
  <2>1. pushed - popped \in Nat
    BY <1>1, <1>2
  <2>2. QED BY <1>3, <2>1 DEF Unread
<1>5. QED BY <1>1, <1>2, <1>4 DEF Mapped

(* Append, on sequences of numbers.                                        *)
LEMMA AppendNumber ==
    ASSUME NEW s \in Seq(Nat), NEW e \in Nat
    PROVE  /\ Append(s, e) \in Seq(Nat)
           /\ Len(Append(s, e)) = Len(s) + 1
           /\ \A i \in 1 .. Len(s) : Append(s, e)[i] = s[i]
           /\ Append(s, e)[Len(s) + 1] = e
BY AppendProperties

(* Publishing an item appends it to the unread ones.                       *)
LEMMA UnreadAppend ==
    ASSUME RingInv, RingInv', accepted' = Append(accepted, pushes),
           UNCHANGED delivered
    PROVE  Unread' = Append(Unread, pushes)
<1>1. /\ popped' = popped /\ pushed' = pushed + 1
      /\ accepted'[pushed + 1] = pushes
      /\ \A i \in 1 .. pushed : accepted'[i] = accepted[i]
  BY MappedCounts DEF Mapped, pushed, popped
<1>2. /\ Unread \in Seq(Nat) /\ Len(Unread) = pushed - popped
      /\ pushed \in Nat /\ popped \in Nat /\ popped <= pushed /\ pushes \in Nat
  BY MappedCounts DEF Mapped
<1>3. Unread' \in Seq(Nat) /\ Len(Unread') = (pushed - popped) + 1
  <2>1. RingInv' => Mapped'
    BY MappedCounts, PTL
  <2>2. QED BY <1>1, <1>2, <2>1 DEF Mapped
<1> DEFINE ext == Append(Unread, pushes)
<1>4. /\ ext \in Seq(Nat) /\ Len(ext) = Len(Unread) + 1
      /\ \A i \in 1 .. Len(Unread) : ext[i] = Unread[i]
      /\ ext[Len(Unread) + 1] = pushes
  BY <1>2, AppendNumber
<1>5. /\ ext \in Seq(Nat) /\ Len(ext) = (pushed - popped) + 1
      /\ \A i \in 1 .. (pushed - popped) : ext[i] = Unread[i]
      /\ ext[(pushed - popped) + 1] = pushes
  <2> HIDE DEF ext
  <2>1. QED BY <1>2, <1>4, Zenon
<1>6. ASSUME NEW i \in 1 .. ((pushed - popped) + 1)
      PROVE  Unread'[i] = ext[i]
  <2>1. Unread'[i] = accepted'[popped + i]
    <3>1. pushed' - popped' = (pushed - popped) + 1
      BY <1>1, <1>2
    <3>2. Unread'[i] = accepted'[popped' + i]
      BY <3>1 DEF Unread
    <3>3. QED BY <1>1, <3>2
  <2>2. CASE i = (pushed - popped) + 1
    <3>1. popped + i = pushed + 1
      BY <1>2, <2>2
    <3>2. QED BY <1>1, <1>5, <2>1, <2>2, <3>1
  <2>3. CASE i \in 1 .. (pushed - popped)
    <3>1. popped + i \in 1 .. pushed
      BY <1>2, <2>3
    <3>2. Unread[i] = accepted[popped + i]
      BY <2>3 DEF Unread
    <3>3. QED BY <1>1, <1>5, <2>1, <2>3, <3>1, <3>2
  <2>4. QED BY <1>2, <2>2, <2>3
<1>7. QED
  <2> HIDE DEF ext
  <2>1. Unread' = ext
    BY <1>3, <1>5, <1>6, SeqEqual
  <2>2. QED BY <2>1 DEF ext

(* Releasing a slot removes the oldest unread item.                        *)
LEMMA UnreadTail ==
    ASSUME RingInv, RingInv', popped < pushed,
           UNCHANGED accepted, popped' = popped + 1
    PROVE  Unread' = Tail(Unread)
<1>1. pushed' = pushed
  BY DEF pushed
<1>2. /\ Unread \in Seq(Nat) /\ Len(Unread) = pushed - popped
      /\ pushed \in Nat /\ popped \in Nat /\ popped <= pushed
  BY MappedCounts DEF Mapped
<1>3. Unread' \in Seq(Nat) /\ Len(Unread') = (pushed - popped) - 1
  <2>1. RingInv' => Mapped'
    BY MappedCounts, PTL
  <2>2. QED BY <1>1, <1>2, <2>1 DEF Mapped
<1> DEFINE rest == Tail(Unread)
<1>4. /\ rest \in Seq(Nat) /\ Len(rest) = (pushed - popped) - 1
      /\ \A i \in 1 .. ((pushed - popped) - 1) : rest[i] = Unread[i + 1]
  <2>1. Len(Unread) # 0
    BY <1>2
  <2>2. Unread # <<>>
    BY <2>1
  <2>3. /\ Tail(Unread) \in Seq(Nat) /\ Len(Tail(Unread)) = Len(Unread) - 1
        /\ \A i \in 1 .. Len(Tail(Unread)) : Tail(Unread)[i] = Unread[i + 1]
    BY <1>2, <2>2, HeadTailProperties
  <2>4. QED BY <1>2, <2>3
<1>5. ASSUME NEW i \in 1 .. ((pushed - popped) - 1)
      PROVE  Unread'[i] = rest[i]
  <2>1. Unread'[i] = accepted[(popped + 1) + i]
    <3>1. pushed' - popped' = (pushed - popped) - 1
      BY <1>1, <1>2
    <3>2. Unread'[i] = accepted'[popped' + i]
      BY <3>1 DEF Unread
    <3>3. QED BY <3>2
  <2>2. i + 1 \in 1 .. (pushed - popped)
    BY <1>2
  <2>3. Unread[i + 1] = accepted[popped + (i + 1)]
    BY <2>2 DEF Unread
  <2>4. popped + (i + 1) = (popped + 1) + i
    BY <1>2
  <2>5. QED BY <1>4, <2>1, <2>3, <2>4
<1>6. QED
  <2> HIDE DEF rest
  <2>1. Unread' = rest
    BY <1>3, <1>4, <1>5, SeqEqual
  <2>2. QED BY <2>1 DEF rest

-----------------------------------------------------------------------------
(* The initial states map to initial states of the channel.                *)
LEMMA ChannelStarts == Init => Channel!ChannelInit
<1>1. SUFFICES ASSUME Init PROVE Channel!ChannelInit
  OBVIOUS
<1>2. pushed = 0 /\ popped = 0
  BY <1>1 DEF Init, pushed, popped
<1>3. Unread = <<>>
  BY <1>2 DEF Unread
<1>4. QED BY <1>1, <1>2, <1>3, Constants DEF Init, Channel!ChannelInit

(* The producer's tests teach it of free places, up to those there are.    *)
LEMMA PushLoadLearns ==
    ASSUME RingInv, NEW n \in tailRead .. popped, PushLoad(n), ppc' # "idle"
    PROVE  Channel!LearnRoom
<1>1. /\ UNCHANGED <<accepted, delivered, headRead>> /\ tailRead' = n
      /\ ppc = "idle" /\ pushes' = pushes + 1
  BY DEF PushLoad
<1>2. UNCHANGED <<pushed, popped, Unread>>
  BY <1>1 DEF pushed, popped, Unread
<1>3. /\ pushed \in Nat /\ popped \in Nat /\ tailRead \in Nat /\ pushes \in Nat
      /\ popped <= pushed /\ Len(Unread) = pushed - popped
  BY MappedCounts DEF Mapped
<1>4. Cap - (pushed - n) \in (Cap - (pushed - tailRead)) .. (Cap - Len(Unread))
  BY <1>3, Constants
<1>5. pushes' - pushed' - 1 = pushes - pushed - 0
  BY <1>1, <1>2, <1>3
<1>6. QED BY <1>1, <1>2, <1>4, <1>5 DEF Channel!LearnRoom, Channel!Room

LEMMA PushDropRefuses ==
    ASSUME RingInv, PushDrop
    PROVE  Channel!Refuse
<1>1. /\ UNCHANGED <<accepted, delivered, tailRead, headRead, pushes>>
      /\ ppc = "drop" /\ ppc' = "idle"
  BY DEF PushDrop
<1>2. UNCHANGED <<pushed, popped, Unread>>
  BY <1>1 DEF pushed, popped, Unread
<1>3. /\ pushed \in Nat /\ tailRead \in Nat /\ pushes \in Nat
  BY MappedCounts DEF Mapped
<1>4. Cap - (pushed - tailRead) = 0
  BY <1>1, <1>3, Constants DEF RingInv, ProducerKnows
<1>5. pushes' - pushed' - 0 = (pushes - pushed - 1) + 1
  BY <1>1, <1>2, <1>3
<1>6. QED BY <1>1, <1>2, <1>4, <1>5 DEF Channel!Refuse

LEMMA PushPublishAccepts ==
    ASSUME RingInv, RingInv', PushPublish
    PROVE  \E item \in 1 .. MaxPush : Channel!Accept(item)
<1>1. /\ accepted' = Append(accepted, pushes)
      /\ UNCHANGED <<delivered, tailRead, headRead, pushes>>
      /\ ppc = "publish" /\ ppc' = "idle"
  BY DEF PushPublish
<1>2. Unread' = Append(Unread, pushes)
  BY <1>1, UnreadAppend
<1>3. /\ pushed \in Nat /\ popped \in Nat /\ tailRead \in Nat /\ pushes \in Nat
      /\ popped <= pushed /\ Len(Unread) = pushed - popped /\ accepted \in Seq(Nat)
  BY MappedCounts DEF Mapped
<1>4. pushed' = pushed + 1 /\ popped' = popped
  BY <1>1, <1>3 DEF pushed, popped
<1>5. pushes \in 1 .. MaxPush
  BY <1>1, <1>3 DEF RingInv, TypeOK, ProducerKnows
<1> DEFINE known == Cap - (pushed - tailRead)
<1>6. /\ known \in (Cap - (pushed - tailRead)) .. (Cap - Len(Unread))
      /\ known > 0
      /\ Cap - (pushed' - tailRead') = known - 1
  BY <1>1, <1>3, <1>4, Constants DEF RingInv, ProducerKnows, ViewsOrdered
<1>7. pushes' - pushed' - 0 = pushes - pushed - 1
  BY <1>1, <1>3, <1>4
<1>8. headRead' - popped' = headRead - popped
  BY <1>1, <1>4
<1> HIDE DEF known
<1>9. Channel!Accept(pushes)
  BY <1>1, <1>2, <1>6, <1>7, <1>8 DEF Channel!Accept, Channel!Room
<1>10. QED BY <1>5, <1>9

(* Reading head_ teaches the consumer of items, up to those there are.     *)
LEMMA HeadReadLearns ==
    ASSUME RingInv, NEW n \in headRead .. pushed, headRead' = n,
           UNCHANGED <<pushes, ppc, accepted, delivered, tailRead>>
    PROVE  Channel!LearnItems
<1>1. UNCHANGED <<pushed, popped, Unread>>
  BY DEF pushed, popped, Unread
<1>2. /\ pushed \in Nat /\ popped \in Nat /\ headRead \in Nat
      /\ popped <= pushed /\ Len(Unread) = pushed - popped
  BY MappedCounts DEF Mapped
<1>3. n - popped \in (headRead - popped) .. Len(Unread)
  BY <1>2
<1>4. QED BY <1>1, <1>3 DEF Channel!LearnItems

LEMMA PopReleaseTakes ==
    ASSUME RingInv, RingInv', PopRelease
    PROVE  Channel!Take
<1>1. /\ delivered' = Append(delivered, out) /\ cpc = "release"
      /\ UNCHANGED <<accepted, tailRead, headRead, pushes, ppc>>
  BY DEF PopRelease
<1>2. /\ pushed \in Nat /\ popped \in Nat /\ headRead \in Nat
      /\ popped <= pushed /\ Len(Unread) = pushed - popped
  BY MappedCounts DEF Mapped
<1>3. pushed' = pushed /\ popped' = popped + 1
  <2>1. delivered \in Seq(Nat \cup {Torn})
    BY DEF RingInv, TypeOK
  <2>2. QED BY <1>1, <2>1 DEF pushed, popped
<1>4. popped < headRead /\ headRead <= pushed
  BY <1>1 DEF RingInv, ConsumerKnows, ViewsOrdered
<1>5. Unread' = Tail(Unread)
  BY <1>1, <1>2, <1>3, <1>4, UnreadTail
<1> DEFINE known == headRead - popped
<1>6. /\ known \in (headRead - popped) .. Len(Unread)
      /\ known > 0
      /\ headRead' - popped' = known - 1
  BY <1>1, <1>2, <1>3, <1>4
<1> HIDE DEF known
<1>7. QED BY <1>1, <1>3, <1>5, <1>6 DEF Channel!Take

(* The copies into and out of a slot change nothing the channel has.       *)
LEMMA CopiesStutter ==
    ASSUME UNCHANGED <<accepted, delivered, tailRead, headRead, pushes>>,
           (ppc = "idle") <=> (ppc' = "idle")
    PROVE  UNCHANGED Channel!channel
<1>1. UNCHANGED <<pushed, popped, Unread>>
  BY DEF pushed, popped, Unread
<1>2. QED BY <1>1 DEF Channel!channel

LEMMA ChannelStep ==
    RingInv /\ RingInv' /\ [Next]_vars => [Channel!ChannelNext]_(Channel!channel)
<1>1. SUFFICES ASSUME RingInv, RingInv', [Next]_vars
               PROVE  Channel!ChannelNext \/ UNCHANGED Channel!channel
  OBVIOUS
<1>2. CASE PushSeesFull \/ PushSeesRoom
  BY <1>1, <1>2, PushLoadLearns DEF PushSeesFull, PushSeesRoom, Channel!ChannelNext
<1>3. CASE PushDrop
  BY <1>1, <1>3, PushDropRefuses DEF Channel!ChannelNext
<1>4. CASE PushWriteBegin \/ PushWriteEnd
  BY <1>4, CopiesStutter DEF PushWriteBegin, PushWriteEnd
<1>5. CASE PushPublish
  BY <1>1, <1>5, PushPublishAccepts DEF Channel!ChannelNext
<1>6. CASE PopSeesEmpty \/ PopSeesItem \/ LoadSize
  BY <1>1, <1>6, HeadReadLearns
     DEF PopSeesEmpty, PopSeesItem, LoadSize, Channel!ChannelNext
<1>7. CASE PopRead
  BY <1>7, CopiesStutter DEF PopRead
<1>8. CASE PopRelease
  BY <1>1, <1>8, PopReleaseTakes DEF Channel!ChannelNext
<1>9. CASE UNCHANGED vars
  BY <1>9, CopiesStutter DEF vars
<1>10. QED BY <1>1, <1>2, <1>3, <1>4, <1>5, <1>6, <1>7, <1>8, <1>9
           DEF Next, Producer, Consumer

(* The lock-free ring is a bounded FIFO queue that may refuse an item but  *)
(* never loses, repeats or reorders an accepted one.                       *)
THEOREM RingImplementsChannel == Spec => ChannelSpec
<1>1. Init => Channel!ChannelInit
  BY ChannelStarts
<1>2. RingInv /\ RingInv' /\ [Next]_vars => [Channel!ChannelNext]_(Channel!channel)
  BY ChannelStep
<1>3. QED BY <1>1, <1>2, RingInvariant, PTL DEF Spec, ChannelSpec, Channel!ChannelSpec

=============================================================================
