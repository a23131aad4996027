--------------------------- MODULE SessionProofs ---------------------------
(***************************************************************************)
(* A part stands in the file where its event and number say: this, kept    *)
(* through every spill of the buffer, tells from the place where a replay  *)
(* reads what it must find there.                                          *)
(***************************************************************************)
EXTENDS SessionFile, SequenceLemmas

FilePart == Nat \X Nat
HeaderParts == IF format = "binary" THEN 1 ELSE 0

SessionTypes ==
    /\ format \in {"text", "binary"}
    /\ disk \in Nat
    /\ rec \in {"start", "open", "off", "closed", "crashed"}
    /\ written \in Nat
    /\ buffer \in Seq(FilePart)
    /\ file \in Seq(FilePart)
    /\ bad \in BOOLEAN
    /\ replay \in {"none", "open", "end"}
    /\ pos \in Nat
    /\ replayed \in Seq([event : Nat, parts : SUBSET Nat])

(* The place p of a part, when h parts of header precede the records and   *)
(* w records were written.                                                 *)
Placed(part, p, w, h) ==
    \/ h = 1 /\ p = 1 /\ part = Header
    \/ part[1] \in 1 .. w /\ part[2] \in 1 .. NParts
       /\ p = h + NParts * (part[1] - 1) + part[2]

(* A stretch of parts behind the first m of the stream.                    *)
Stretch(parts, m, w, h) == \A q \in 1 .. Len(parts) : Placed(parts[q], m + q, w, h)

(* The file and then the buffer hold the stream from its beginning, and    *)
(* all of it unless the disk was full or the process died, when no more    *)
(* than a buffer is missing.                                               *)
StreamKept ==
    /\ Len(file) <= disk /\ Len(buffer) <= BufCap
    /\ Stretch(file, 0, written, HeaderParts)
    /\ Stretch(buffer, Len(file), written, HeaderParts)
    /\ rec = "start" => file = <<>> /\ buffer = <<>> /\ written = 0 /\ ~ bad
    /\ rec \in {"open", "closed"} /\ ~ bad =>
         Len(file) + Len(buffer) = HeaderParts + NParts * written
    /\ rec = "closed" /\ ~ bad => buffer = <<>>
    /\ rec = "crashed" /\ ~ bad =>
         Len(file) + BufCap >= HeaderParts + NParts * written

(* A replay stands at the end of the last record it returned, or at the    *)
(* end of a text file that stops inside that record.                       *)
AtRecord ==
    /\ pos <= Len(file)
    /\ rec \notin {"closed", "crashed"} => replay = "none"
    /\ replay = "none" => pos = 0 /\ replayed = <<>>
    /\ replay # "none" /\ format = "binary" =>
         pos = (IF file = <<>> THEN 0 ELSE 1) + NParts * Len(replayed)
    /\ replay # "none" /\ format = "text" =>
         \/ pos = NParts * Len(replayed)
         \/ /\ pos = Len(file)
            /\ NParts * (Len(replayed) - 1) < pos /\ pos < NParts * Len(replayed)
    /\ replay = "end" => IF format = "text" THEN pos = Len(file) ELSE pos + NParts > Len(file)

SessionInv == SessionTypes /\ StreamKept /\ AtRecord /\ ReplayedAsRecorded

-----------------------------------------------------------------------------
(* The constants as numbers.                                               *)
LEMMA Constants ==
    /\ NParts \in Nat /\ NParts > 1 /\ NParts \in Nat \ {0}
    /\ NEvents \in Nat /\ BufCap \in Nat /\ NParts <= BufCap
    /\ DiskSizes \subseteq Nat
BY SessionAssumption

(* Parts are pairs.                                                        *)
LEMMA PartTypes ==
    ASSUME NEW part \in FilePart
    PROVE  part[1] \in Nat /\ part[2] \in Nat
BY DEF FilePart

(* A part stays in its place when more is written.                         *)
LEMMA StretchGrows ==
    ASSUME NEW parts \in Seq(FilePart), NEW m \in Nat, NEW w \in Nat, NEW v \in Nat, w <= v,
           NEW h, Stretch(parts, m, w, h)
    PROVE  Stretch(parts, m, v, h)
<1>1. 1 .. w \subseteq 1 .. v
  OBVIOUS
<1> QED
  BY <1>1 DEF Stretch, Placed

(* A stretch is continued by the next one.                                 *)
LEMMA StretchJoins ==
    ASSUME NEW a \in Seq(FilePart), NEW b \in Seq(FilePart), NEW m \in Nat, NEW w, NEW h,
           Stretch(a, m, w, h), Stretch(b, m + Len(a), w, h)
    PROVE  Stretch(a \o b, m, w, h)
<1>1. /\ Len(a) \in Nat /\ Len(b) \in Nat /\ Len(a \o b) = Len(a) + Len(b)
      /\ \A q \in 1 .. (Len(a) + Len(b)) :
           (a \o b)[q] = IF q <= Len(a) THEN a[q] ELSE b[q - Len(a)]
  BY ConcatProperties, LenProperties
<1> SUFFICES ASSUME NEW q \in 1 .. (Len(a) + Len(b))
             PROVE  Placed((a \o b)[q], m + q, w, h)
  BY <1>1 DEF Stretch
<1>2. CASE q <= Len(a)
  <2>1. q \in 1 .. Len(a)
    BY <1>1, <1>2
  <2> QED
    BY <1>1, <1>2, <2>1 DEF Stretch
<1>3. CASE ~ (q <= Len(a))
  <2>1. q - Len(a) \in 1 .. Len(b) /\ m + Len(a) + (q - Len(a)) = m + q
    BY <1>1, <1>3
  <2>2. Placed(b[q - Len(a)], m + Len(a) + (q - Len(a)), w, h)
    BY <2>1 DEF Stretch
  <2> QED
    BY <1>1, <1>3, <2>1, <2>2
<1> QED
  BY <1>2, <1>3

(* A piece of a sequence of parts.                                         *)
LEMMA Piece ==
    ASSUME NEW parts \in Seq(FilePart),
           NEW i \in 1 .. (Len(parts) + 1), NEW k \in 0 .. Len(parts), i <= k + 1
    PROVE  /\ SubSeq(parts, i, k) \in Seq(FilePart)
           /\ Len(SubSeq(parts, i, k)) = k + 1 - i
           /\ \A q \in 1 .. (k + 1 - i) : SubSeq(parts, i, k)[q] = parts[i + q - 1]
<1> DEFINE piece == SubSeq(parts, i, k)
<1>1. Len(parts) \in Nat /\ \A q \in 1 .. Len(parts) : parts[q] \in FilePart
  BY LenProperties, ElementOfSeq
<1>2. /\ i \in Int /\ k \in Int
      /\ (IF i <= k THEN k - i + 1 ELSE 0) = k + 1 - i
      /\ k - i + 1 = k + 1 - i
  BY <1>1
<1>3. \A q \in i .. k : parts[q] \in FilePart
  BY <1>1
<1> HIDE DEF piece
<1>4. /\ piece \in Seq(FilePart)
      /\ Len(piece) = IF i <= k THEN k - i + 1 ELSE 0
      /\ \A q \in 1 .. (k - i + 1) : piece[q] = parts[i + q - 1]
  BY <1>2, <1>3, SubSeqProperties DEF piece
<1> QED
  BY <1>2, <1>4 DEF piece

(* Every piece of a stretch is one.                                        *)
LEMMA StretchPiece ==
    ASSUME NEW parts \in Seq(FilePart), NEW m \in Nat, NEW w, NEW h, Stretch(parts, m, w, h),
           NEW i \in 1 .. (Len(parts) + 1), NEW k \in 0 .. Len(parts), i <= k + 1
    PROVE  /\ SubSeq(parts, i, k) \in Seq(FilePart)
           /\ Len(SubSeq(parts, i, k)) = k + 1 - i
           /\ Stretch(SubSeq(parts, i, k), m + i - 1, w, h)
<1> DEFINE piece == SubSeq(parts, i, k)
<1>1. Len(parts) \in Nat
  BY LenProperties
<1>2. /\ piece \in Seq(FilePart)
      /\ Len(piece) = k + 1 - i
      /\ \A q \in 1 .. (k + 1 - i) : piece[q] = parts[i + q - 1]
  BY Piece
<1> HIDE DEF piece
<1>3. Stretch(piece, m + i - 1, w, h)
  <2> SUFFICES ASSUME NEW q \in 1 .. (k + 1 - i)
               PROVE  Placed(piece[q], m + i - 1 + q, w, h)
    BY <1>2 DEF Stretch
  <2>1. i + q - 1 \in 1 .. Len(parts) /\ m + (i + q - 1) = m + i - 1 + q
    BY <1>1
  <2>2. Placed(parts[i + q - 1], m + (i + q - 1), w, h)
    BY <2>1 DEF Stretch
  <2> QED
    BY <1>2, <2>1, <2>2
<1> QED
  BY <1>2, <1>3 DEF piece

(* What n parts of parts leave behind when they are spilled: the file and  *)
(* the buffer go on being the stream, and nothing is missing unless the    *)
(* disk is full.                                                           *)
LEMMA SpillKeeps ==
    ASSUME NEW w \in Nat, NEW h \in Nat,
           file \in Seq(FilePart), disk \in Nat, Len(file) <= disk,
           Stretch(file, 0, w, h),
           NEW parts \in Seq(FilePart), Stretch(parts, Len(file), w, h),
           NEW n \in 0 .. Len(parts), Spill(parts, n)
    PROVE  /\ file' \in Seq(FilePart) /\ buffer' \in Seq(FilePart) /\ bad' \in BOOLEAN
           /\ Len(file') <= disk
           /\ Len(buffer') <= Len(parts) - n
           /\ Stretch(file', 0, w, h)
           /\ Stretch(buffer', Len(file'), w, h)
           /\ ~ bad' => /\ Len(file') + Len(buffer') = Len(file) + Len(parts)
                        /\ Len(buffer') = Len(parts) - n
<1> DEFINE room == disk - Len(file)
           fits == Min({n, room})
           first == SubSeq(parts, 1, fits)
           rest == SubSeq(parts, n + 1, Len(parts))
<1>1. /\ Len(file) \in Nat /\ Len(parts) \in Nat /\ n \in Nat /\ n <= Len(parts)
      /\ room \in Nat
  BY LenProperties
<1>2. fits = IF n <= room THEN n ELSE room
  <2> HIDE DEF room
  <2> QED
    BY <1>1, MinOfTwo
<1>3. /\ file' = file \o first
      /\ bad' = (fits < n)
      /\ buffer' = IF fits < n THEN <<>> ELSE rest
  BY DEF Spill
<1>4. fits \in 0 .. Len(parts) /\ fits <= room /\ fits <= n /\ (~ (fits < n) => fits = n)
  BY <1>1, <1>2
<1> HIDE DEF fits
<1>5. /\ first \in Seq(FilePart) /\ Len(first) = fits
      /\ Stretch(first, Len(file), w, h)
  <2>1. 1 \in 1 .. (Len(parts) + 1) /\ 1 <= fits + 1 /\ fits + 1 - 1 = fits
        /\ Len(file) + 1 - 1 = Len(file)
    BY <1>1, <1>4
  <2>2. /\ first \in Seq(FilePart) /\ Len(first) = fits + 1 - 1
        /\ Stretch(first, Len(file) + 1 - 1, w, h)
    BY <1>1, <1>4, <2>1, StretchPiece
  <2> QED
    BY <2>1, <2>2
<1>6. /\ rest \in Seq(FilePart) /\ Len(rest) = Len(parts) - n
      /\ Stretch(rest, Len(file) + n, w, h)
  <2>1. /\ n + 1 \in 1 .. (Len(parts) + 1) /\ n + 1 <= Len(parts) + 1
        /\ Len(parts) + 1 - (n + 1) = Len(parts) - n
        /\ Len(file) + (n + 1) - 1 = Len(file) + n
        /\ Len(parts) \in 0 .. Len(parts)
    BY <1>1
  <2>2. /\ rest \in Seq(FilePart) /\ Len(rest) = Len(parts) + 1 - (n + 1)
        /\ Stretch(rest, Len(file) + (n + 1) - 1, w, h)
    BY <1>1, <2>1, StretchPiece
  <2> QED
    BY <2>1, <2>2
<1> HIDE DEF first, rest
<1>7. /\ file' \in Seq(FilePart) /\ Len(file') = Len(file) + fits
      /\ Stretch(file', 0, w, h)
  <2>1. file \o first \in Seq(FilePart) /\ Len(file \o first) = Len(file) + Len(first)
    BY <1>5, ConcatProperties
  <2>2. 0 + Len(file) = Len(file) /\ 0 \in Nat
    BY <1>1
  <2>3. Stretch(file \o first, 0, w, h)
    BY <1>5, <2>2, StretchJoins
  <2> QED
    BY <1>3, <1>5, <2>1, <2>3
<1>8. CASE fits < n
  <2>1. buffer' = <<>> /\ bad'
    BY <1>3, <1>8
  <2>2. Stretch(<<>>, Len(file'), w, h) /\ <<>> \in Seq(FilePart) /\ Len(<<>>) = 0
    BY DEF Stretch
  <2> QED
    BY <1>1, <1>4, <1>7, <2>1, <2>2
<1>9. CASE ~ (fits < n)
  <2>1. buffer' = rest /\ bad' = FALSE /\ fits = n
    <3>1. (fits < n) = FALSE
      BY <1>9
    <3> QED
      BY <1>3, <1>4, <1>9, <3>1, Zenon
  <2>2. Len(file') = Len(file) + n
    BY <1>7, <2>1
  <2>3. /\ buffer' \in Seq(FilePart) /\ Len(buffer') = Len(parts) - n
        /\ Stretch(buffer', Len(file'), w, h) /\ ~ bad' /\ bad' \in BOOLEAN
    BY <1>6, <2>1, <2>2, Zenon
  <2>4. Len(file') <= disk
    BY <1>1, <1>4, <1>7
  <2>5. \A a, b, c, d, k \in Nat :
          c = a + k /\ d = b - k => d <= b - k /\ c + d = a + b
    OBVIOUS
  <2>6. Len(buffer') \in Nat /\ Len(file') \in Nat
    BY <1>7, <2>3, LenProperties
  <2>7. Len(buffer') <= Len(parts) - n /\ Len(file') + Len(buffer') = Len(file) + Len(parts)
    BY <1>1, <2>2, <2>3, <2>5, <2>6
  <2> QED
    BY <1>7, <2>3, <2>4, <2>7, Zenon
<1> QED
  BY <1>8, <1>9

(* Put, with what it is given.                                             *)
LEMMA PutKeeps ==
    ASSUME NEW w \in Nat, NEW h \in Nat,
           file \in Seq(FilePart), buffer \in Seq(FilePart), disk \in Nat, Len(file) <= disk,
           Stretch(file, 0, w, h), Stretch(buffer, Len(file), w, h),
           Len(buffer) <= BufCap, bad \in BOOLEAN, ~ bad,
           NEW parts \in Seq(FilePart), Len(parts) <= NParts,
           Stretch(parts, Len(file) + Len(buffer), w, h),
           Put(parts)
    PROVE  /\ file' \in Seq(FilePart) /\ buffer' \in Seq(FilePart) /\ bad' \in BOOLEAN
           /\ Len(file') <= disk
           /\ Len(buffer') <= BufCap
           /\ Stretch(file', 0, w, h)
           /\ Stretch(buffer', Len(file'), w, h)
           /\ ~ bad' => Len(file') + Len(buffer') = Len(file) + Len(buffer) + Len(parts)
<1> DEFINE all == buffer \o parts
<1>1. /\ Len(file) \in Nat /\ Len(buffer) \in Nat /\ Len(parts) \in Nat
      /\ all \in Seq(FilePart) /\ Len(all) = Len(buffer) + Len(parts)
  BY LenProperties, ConcatProperties
<1>2. Stretch(all, Len(file), w, h)
  BY <1>1, StretchJoins
<1> HIDE DEF all
<1>3. CASE Len(all) <= BufCap
  <2>1. buffer' = all /\ file' = file /\ bad' = bad
    BY <1>3 DEF Put, all
  <2>2. Len(file) + Len(all) = Len(file) + Len(buffer) + Len(parts)
    BY <1>1
  <2> QED
    BY <1>1, <1>2, <1>3, <2>1, <2>2, Zenon
<1>4. CASE ~ (Len(all) <= BufCap)
  <2>1. PICK n \in {BufCap, Len(all)} : Spill(all, n)
    BY <1>4 DEF Put, all
  <2>2. n \in 0 .. Len(all) /\ Len(all) - n <= BufCap /\ Len(all) \in Nat /\ n \in Nat
    BY <1>1, <1>4, Constants
  <2>3. /\ file' \in Seq(FilePart) /\ buffer' \in Seq(FilePart) /\ bad' \in BOOLEAN
        /\ Len(file') <= disk
        /\ Len(buffer') <= Len(all) - n
        /\ Stretch(file', 0, w, h)
        /\ Stretch(buffer', Len(file'), w, h)
        /\ ~ bad' => Len(file') + Len(buffer') = Len(file) + Len(all)
    BY <1>1, <1>2, <2>1, <2>2, SpillKeeps
  <2>4. Len(buffer') \in Nat
    BY <2>3, LenProperties
  <2> QED
    BY <1>1, <2>2, <2>3, <2>4, Constants
<1> QED
  BY <1>3, <1>4

(* A record, put behind all the records before it.                         *)
LEMMA RecordPlaced ==
    ASSUME NEW w \in Nat, NEW h \in Nat, NEW m \in Nat, m = h + NParts * w
    PROVE  /\ Record(w + 1) \in Seq(FilePart) /\ Len(Record(w + 1)) = NParts
           /\ Stretch(Record(w + 1), m, w + 1, h)
<1>1. /\ Record(w + 1) \in Seq(FilePart) /\ Len(Record(w + 1)) = NParts
      /\ \A q \in 1 .. NParts : Record(w + 1)[q] = <<w + 1, q>>
  BY Constants DEF Record, FilePart
<1>2. SUFFICES ASSUME NEW q \in 1 .. NParts
               PROVE  Placed(<<w + 1, q>>, m + q, w + 1, h)
  BY <1>1 DEF Stretch
<1>3. NParts * w \in Nat /\ (w + 1) - 1 = w /\ w + 1 \in 1 .. (w + 1) /\ q \in Nat
  BY Constants
<1>4. m + q = h + NParts * ((w + 1) - 1) + q
  BY <1>3
<1> QED
  BY <1>3, <1>4 DEF Placed

(* What a step of the recorder leaves to be shown of it.                   *)
RecTypes ==
    /\ rec \in {"start", "open", "off", "closed", "crashed"}
    /\ written \in Nat /\ buffer \in Seq(FilePart) /\ file \in Seq(FilePart) /\ bad \in BOOLEAN

(* The recorder opens the file.                                            *)
LEMMA OpenKeeps == SessionInv /\ Open => RecTypes' /\ StreamKept'
<1> SUFFICES ASSUME SessionInv, Open PROVE RecTypes' /\ StreamKept'
  OBVIOUS
<1> USE DEF RecTypes
<1>1. /\ SessionTypes /\ StreamKept /\ rec = "start"
      /\ file = <<>> /\ buffer = <<>> /\ written = 0 /\ ~ bad
      /\ format' = format /\ disk' = disk /\ written' = written
      /\ HeaderParts' = HeaderParts
  BY DEF SessionInv, Open, StreamKept, HeaderParts
<1>2. CASE rec' = "off" /\ UNCHANGED <<buffer, file, bad>>
  BY <1>1, <1>2 DEF SessionTypes, StreamKept
<1>3. CASE rec' = "open" /\ Put(IF format = "binary" THEN <<Header>> ELSE <<>>)
  <2> DEFINE head == IF format = "binary" THEN <<Header>> ELSE <<>>
             h == HeaderParts
  <2>1. /\ head \in Seq(FilePart) /\ Len(head) = h /\ h \in 0 .. 1 /\ h \in Nat /\ Len(head) <= NParts
        /\ Stretch(head, 0, 0, h)
    BY Constants DEF Header, HeaderParts, FilePart, Stretch, Placed
  <2>2. Len(file) = 0 /\ Len(buffer) = 0 /\ Len(file) + Len(buffer) = 0 /\ NParts * written = 0
    BY <1>1, Constants
  <2>3. /\ file \in Seq(FilePart) /\ buffer \in Seq(FilePart) /\ disk \in Nat
        /\ Len(file) <= disk /\ Len(buffer) <= BufCap /\ bad \in BOOLEAN
        /\ Stretch(file, 0, 0, h) /\ Stretch(buffer, Len(file), 0, h)
    BY <1>1 DEF SessionTypes, StreamKept
  <2> HIDE DEF head, h
  <2>4. /\ file' \in Seq(FilePart) /\ buffer' \in Seq(FilePart) /\ bad' \in BOOLEAN
        /\ Len(file') <= disk
        /\ Len(buffer') <= BufCap
        /\ Stretch(file', 0, 0, h)
        /\ Stretch(buffer', Len(file'), 0, h)
        /\ ~ bad' => Len(file') + Len(buffer') = Len(file) + Len(buffer) + Len(head)
    <3>1. Put(head)
      BY <1>3 DEF head
    <3>2. Stretch(head, Len(file) + Len(buffer), 0, h) /\ 0 \in Nat
      BY <2>1, <2>2, Zenon
    <3> QED
      BY <1>1, <2>1, <2>3, <3>1, <3>2, PutKeeps
  <2>5. ~ bad' => Len(file') + Len(buffer') = h + NParts * written
    BY <2>1, <2>2, <2>4
  <2> QED
    BY <1>1, <1>3, <2>4, <2>5 DEF SessionTypes, StreamKept, h
<1> QED
  BY <1>2, <1>3 DEF Open

(* A record is written, or the stream has failed before.                   *)
LEMMA WriteKeeps == SessionInv /\ Write => RecTypes' /\ StreamKept'
<1> SUFFICES ASSUME SessionInv, Write PROVE RecTypes' /\ StreamKept'
  OBVIOUS
<1> USE DEF RecTypes
<1> DEFINE w == written
           h == HeaderParts
           v == written'
<1>1. /\ rec = "open" /\ format' = format /\ disk' = disk /\ rec' = rec
      /\ v = w + 1 /\ w \in Nat /\ v \in Nat /\ w <= v /\ HeaderParts' = h /\ h \in Nat
      /\ file \in Seq(FilePart) /\ buffer \in Seq(FilePart) /\ disk \in Nat /\ bad \in BOOLEAN
      /\ Len(file) <= disk /\ Len(buffer) <= BufCap
      /\ Len(file) \in Nat /\ Len(buffer) \in Nat
      /\ Stretch(file, 0, w, h) /\ Stretch(buffer, Len(file), w, h)
      /\ ~ bad => Len(file) + Len(buffer) = h + NParts * w
  BY LenProperties DEF SessionInv, Write, StreamKept, SessionTypes, HeaderParts
<1> HIDE DEF w, h, v
<1>2. Stretch(file, 0, v, h) /\ Stretch(buffer, Len(file), v, h)
  BY <1>1, StretchGrows
<1>3. CASE bad /\ UNCHANGED <<buffer, file, bad>>
  BY <1>1, <1>2, <1>3 DEF StreamKept, h, v
<1>4. CASE ~ bad /\ Put(Record(written + 1))
  <2> DEFINE r == Record(w + 1)
  <2>1. /\ r \in Seq(FilePart) /\ Len(r) = NParts
        /\ Stretch(r, Len(file) + Len(buffer), v, h)
    BY <1>1, <1>4, RecordPlaced
  <2>2. Put(r) /\ Len(r) <= NParts
    BY <1>4, <2>1, Constants DEF w
  <2> HIDE DEF r
  <2>3. /\ file' \in Seq(FilePart) /\ buffer' \in Seq(FilePart) /\ bad' \in BOOLEAN
        /\ Len(file') <= disk
        /\ Len(buffer') <= BufCap
        /\ Stretch(file', 0, v, h)
        /\ Stretch(buffer', Len(file'), v, h)
        /\ ~ bad' => Len(file') + Len(buffer') = Len(file) + Len(buffer) + Len(r)
    BY <1>1, <1>2, <1>4, <2>1, <2>2, PutKeeps
  <2>4. ~ bad' => Len(file') + Len(buffer') = h + NParts * v
    <3>1. NParts * w + NParts = NParts * v
      BY <1>1, Constants
    <3>2. NParts * w \in Nat /\ NParts * v \in Nat
      BY <1>1, Constants
    <3>3. \A x, y \in Nat : x + NParts = y => (h + x) + NParts = h + y
      BY <1>1, Constants
    <3>4. (h + NParts * w) + NParts = h + NParts * v
      BY <3>1, <3>2, <3>3
    <3> QED
      BY <1>1, <1>4, <2>1, <2>3, <3>4, Zenon
  <2> QED
    BY <1>1, <2>3, <2>4 DEF StreamKept, h, v
<1> QED
  BY <1>3, <1>4 DEF Write

(* The recorder closes the file.                                           *)
LEMMA CloseKeeps == SessionInv /\ Close => RecTypes' /\ StreamKept'
<1> SUFFICES ASSUME SessionInv, Close PROVE RecTypes' /\ StreamKept'
  OBVIOUS
<1> DEFINE w == written
           h == HeaderParts
           n == Len(buffer)
<1>1. /\ rec = "open" /\ rec' = "closed"
      /\ format' = format /\ disk' = disk /\ written' = w /\ HeaderParts' = h
      /\ w \in Nat /\ h \in Nat
      /\ file \in Seq(FilePart) /\ buffer \in Seq(FilePart) /\ disk \in Nat /\ bad \in BOOLEAN
      /\ Len(file) <= disk /\ n <= BufCap
      /\ Len(file) \in Nat /\ n \in Nat /\ n \in 0 .. n /\ n - n = 0
      /\ Stretch(file, 0, w, h) /\ Stretch(buffer, Len(file), w, h)
      /\ ~ bad => Len(file) + n = h + NParts * w
  BY LenProperties DEF SessionInv, Close, StreamKept, SessionTypes, HeaderParts
<1> HIDE DEF w, h
<1>2. CASE bad /\ UNCHANGED <<buffer, file, bad>>
  BY <1>1, <1>2 DEF StreamKept, RecTypes, w, h
<1>3. CASE ~ bad /\ Spill(buffer, n)
  <2> HIDE DEF n
  <2>1. /\ file' \in Seq(FilePart) /\ buffer' \in Seq(FilePart) /\ bad' \in BOOLEAN
        /\ Len(file') <= disk
        /\ Len(buffer') <= Len(buffer) - n
        /\ Stretch(file', 0, w, h)
        /\ Stretch(buffer', Len(file'), w, h)
        /\ ~ bad' => Len(file') + Len(buffer') = Len(file) + Len(buffer)
    BY <1>1, <1>3, SpillKeeps DEF n
  <2>2. Len(buffer) - n = 0
    BY <1>1 DEF n
  <2>3. Len(buffer') \in Nat /\ Len(buffer') <= 0
    BY <2>1, <2>2, LenProperties
  <2>4. buffer' = <<>> /\ Len(buffer') = 0
    <3>1. Len(buffer') = 0
      BY <2>3
    <3> QED
      BY <2>1, <3>1, EmptySeq
  <2>5. ~ bad' => Len(file') + Len(buffer') = h + NParts * w
    BY <1>1, <1>3, <2>1, Zenon DEF n
  <2>6. Len(buffer') <= BufCap
    BY <2>4, Constants
  <2> QED
    BY <1>1, <2>1, <2>4, <2>5, <2>6 DEF StreamKept, RecTypes, w, h
<1> QED
  BY <1>2, <1>3 DEF Close

(* The process dies.                                                       *)
LEMMA CrashKeeps == SessionInv /\ Crash => RecTypes' /\ StreamKept'
<1> SUFFICES ASSUME SessionInv, Crash PROVE RecTypes' /\ StreamKept'
  OBVIOUS
<1> DEFINE all == HeaderParts + NParts * written
<1>1. /\ rec = "open" /\ rec' = "crashed" /\ buffer' = <<>>
      /\ format' = format /\ disk' = disk /\ written' = written /\ HeaderParts' = HeaderParts
      /\ file' = file /\ bad' = bad
      /\ written \in Nat /\ file \in Seq(FilePart) /\ bad \in BOOLEAN
      /\ Len(file) <= disk /\ Len(buffer) <= BufCap
      /\ Len(file) \in Nat /\ Len(buffer) \in Nat
      /\ Stretch(file, 0, written, HeaderParts)
      /\ ~ bad => Len(file) + Len(buffer) = all
  BY LenProperties DEF SessionInv, Crash, StreamKept, SessionTypes, HeaderParts
<1>2. all \in Nat
  BY <1>1, Constants DEF HeaderParts
<1> HIDE DEF all
<1>3. ~ bad => Len(file) + BufCap >= all
  BY <1>1, <1>2, Constants
<1>4. Len(<<>>) <= BufCap /\ <<>> \in Seq(FilePart)
      /\ \A m, v, k : Stretch(<<>>, m, v, k)
  BY Constants DEF Stretch
<1> QED
  BY <1>1, <1>3, <1>4 DEF StreamKept, RecTypes, all

(* Every step leaves the file and the buffer a piece of the stream.        *)
LEMMA StreamNext == SessionInv /\ [Next]_vars => RecTypes' /\ StreamKept'
<1> SUFFICES ASSUME SessionInv, [Next]_vars PROVE RecTypes' /\ StreamKept'
  OBVIOUS
<1>1. CASE UNCHANGED recVars
  <2>1. RecTypes /\ StreamKept
    BY DEF SessionInv, SessionTypes, RecTypes
  <2> QED
    BY <1>1, <2>1 DEF recVars, StreamKept, RecTypes, HeaderParts
<1>2. CASE OpenReplay \/ NextLine \/ NextRecord \/ EndReplay \/ UNCHANGED vars
  BY <1>1, <1>2 DEF OpenReplay, NextLine, NextRecord, EndReplay, vars, recVars
<1> QED
  BY <1>2, OpenKeeps, WriteKeeps, CloseKeeps, CrashKeeps DEF Next

-----------------------------------------------------------------------------
(* What a replay that has read r records finds j parts further on.         *)
LEMMA PartFound ==
    ASSUME SessionTypes, StreamKept,
           NEW r \in Nat, NEW j \in 1 .. NParts, NEW p \in 1 .. Len(file),
           p = HeaderParts + NParts * r + j
    PROVE  file[p][1] = r + 1 /\ file[p][2] = j /\ r + 1 \in 1 .. written
<1> DEFINE h == HeaderParts
<1>1. h \in 0 .. 1 /\ h \in Nat /\ NParts * r \in Nat /\ j \in Nat /\ j > 0
      /\ Len(file) \in Nat /\ p \in Nat /\ 0 + p = p /\ written \in Nat
  BY Constants, LenProperties DEF HeaderParts, SessionTypes
<1>2. Placed(file[p], p, written, h)
  BY <1>1 DEF StreamKept, Stretch
<1> HIDE DEF h
<1>3. p = h + NParts * r + j
  BY DEF h
<1>4. p # 1 \/ h # 1
  BY <1>1, <1>3
<1> DEFINE e == file[p][1]
           i == file[p][2]
<1>5. e \in 1 .. written /\ i \in 1 .. NParts /\ p = h + NParts * (e - 1) + i
  BY <1>2, <1>4 DEF Placed
<1> HIDE DEF e, i
<1>6. NParts * (e - 1) \in Nat /\ e - 1 \in Nat /\ i \in Nat
  BY <1>1, <1>5, Constants
<1>7. NParts * r + (j - 1) = NParts * (e - 1) + (i - 1)
  <2>1. h + NParts * r + j = h + NParts * (e - 1) + i
    BY <1>3, <1>5, Zenon
  <2>2. \A a, b, c, x, y \in Nat : c + a + x = c + b + y => a + (x - 1) = b + (y - 1)
    OBVIOUS
  <2> QED
    BY <1>1, <1>6, <2>1, <2>2
<1>8. r = e - 1 /\ j - 1 = i - 1
  <2> DEFINE q == e - 1
             x == j - 1
             y == i - 1
  <2>1. x \in 0 .. (NParts - 1) /\ y \in 0 .. (NParts - 1) /\ r \in Int /\ q \in Int
    BY <1>5, <1>6, Constants
  <2>2. NParts * r + x = NParts * q + y
    BY <1>7
  <2> HIDE DEF q, x, y
  <2>3. r = q /\ x = y
    BY <2>1, <2>2, Constants, DivUnique
  <2> QED
    BY <2>3 DEF q, x, y
<1>9. e = r + 1 /\ i = j
  BY <1>1, <1>5, <1>6, <1>8
<1> QED
  BY <1>1, <1>5, <1>9 DEF e, i

(* Places of the parts between two places.                                 *)
LEMMA Between ==
    ASSUME NEW low \in Nat, NEW high \in Nat, NEW size \in Nat, low < high, high <= size
    PROVE  /\ low + 1 \in 1 .. (size + 1) /\ high \in 0 .. size /\ low + 1 <= high + 1
           /\ high + 1 - (low + 1) = high - low
           /\ \A j \in 1 .. (high - low) : low + 1 + j - 1 = low + j
OBVIOUS

(* The line behind the first r records of a text file: a whole record, or  *)
(* what the file has of it.                                                *)
LEMMA LineFound ==
    ASSUME SessionTypes, StreamKept, format = "text",
           NEW r \in Nat, pos = NParts * r, pos < Len(file),
           NEW last, last = IF pos + NParts <= Len(file) THEN pos + NParts ELSE Len(file)
    PROVE  /\ Len(LineAt(pos)) = last - pos
           /\ {part[2] : part \in Range(LineAt(pos))} = 1 .. (last - pos)
<1>1. /\ pos \in Nat /\ Len(file) \in Nat /\ NParts \in Nat /\ NParts > 0
      /\ last \in Nat /\ pos < last /\ last <= Len(file) /\ last - pos <= NParts
      /\ (last = Len(file) \/ last - pos = NParts)
  BY Constants, LenProperties DEF SessionTypes
<1>2. \A j \in 1 .. (last - pos) : pos + j \in 1 .. Len(file) /\ file[pos + j][2] = j
  <2> SUFFICES ASSUME NEW j \in 1 .. (last - pos)
               PROVE  pos + j \in 1 .. Len(file) /\ file[pos + j][2] = j
    OBVIOUS
  <2>1. j \in 1 .. NParts /\ pos + j \in 1 .. Len(file) /\ j \in Nat
    BY <1>1
  <2>2. pos + j = HeaderParts + NParts * r + j
    BY <1>1, <2>1 DEF HeaderParts
  <2> HIDE DEF HeaderParts
  <2> QED
    BY <2>1, <2>2, PartFound
<1> DEFINE newlines == {q \in (pos + 1) .. Len(file) : file[q][2] = NParts}
           ends == newlines \cup {Len(file)}
<1>3. last \in ends
  <2>1. CASE last = Len(file)
    BY <2>1
  <2>2. CASE last - pos = NParts
    <3>1. NParts \in 1 .. (last - pos) /\ pos + NParts = last /\ last \in (pos + 1) .. Len(file)
      BY <1>1, <2>2
    <3>2. file[last][2] = NParts
      BY <1>2, <3>1
    <3> QED
      BY <3>1, <3>2
  <2> QED
    BY <1>1, <2>1, <2>2
<1>4. \A q \in ends : last <= q
  <2> SUFFICES ASSUME NEW q \in newlines, q < last PROVE FALSE
    BY <1>1
  <2>1. q - pos \in 1 .. (last - pos) /\ pos + (q - pos) = q /\ q - pos # NParts
    BY <1>1
  <2> QED
    BY <1>2, <2>1
<1>5. ends \in SUBSET Nat /\ ends # {}
  BY <1>1, <1>3
<1>6. Min(ends) = last
  <2> HIDE DEF ends
  <2>1. Min(ends) \in ends /\ Min(ends) \in Nat /\ \A q \in ends : Min(ends) <= q
    BY <1>5, MinOf
  <2>2. Min(ends) <= last /\ last <= Min(ends)
    BY <1>3, <1>4, <2>1
  <2> QED
    BY <1>1, <2>1, <2>2
<1> DEFINE line == SubSeq(file, pos + 1, last)
<1>7. LineAt(pos) = line
  BY <1>6 DEF LineAt
<1>8. /\ line \in Seq(FilePart) /\ Len(line) = last - pos
      /\ \A j \in 1 .. (last - pos) : line[j] = file[pos + j]
  <2> DEFINE first == pos + 1
  <2>1. /\ first \in 1 .. (Len(file) + 1) /\ last \in 0 .. Len(file) /\ first <= last + 1
        /\ last + 1 - first = last - pos
        /\ \A j \in 1 .. (last - pos) : first + j - 1 = pos + j
    BY <1>1, Between, Zenon
  <2>2. line = SubSeq(file, first, last) /\ file \in Seq(FilePart)
    BY DEF SessionTypes
  <2> HIDE DEF line, first
  <2>3. /\ line \in Seq(FilePart) /\ Len(line) = last + 1 - first
        /\ \A j \in 1 .. (last + 1 - first) : line[j] = file[first + j - 1]
    BY <2>1, <2>2, Piece
  <2> QED
    BY <2>1, <2>3
<1> HIDE DEF line
<1>9. {part[2] : part \in Range(line)} = 1 .. (last - pos)
  <2>1. Range(line) = {line[j] : j \in 1 .. (last - pos)}
    BY <1>8, LenProperties DEF Range
  <2>2. \A j \in 1 .. (last - pos) : line[j][2] = j
    BY <1>2, <1>8
  <2> QED
    BY <2>1, <2>2
<1> QED
  BY <1>7, <1>8, <1>9

(* What a step leaves to be shown of the replay.                           *)
ReplayTypes ==
    /\ replay \in {"none", "open", "end"} /\ pos \in Nat
    /\ replayed \in Seq([event : Nat, parts : SUBSET Nat])

(* While it is recorded to, a file is not replayed.                        *)
LEMMA RecorderStep ==
    ASSUME SessionInv, RecTypes', Open \/ Write \/ Close \/ Crash
    PROVE  ReplayTypes' /\ AtRecord' /\ ReplayedAsRecorded'
<1>1. /\ replay = "none" /\ pos = 0 /\ replayed = <<>>
      /\ replay' = replay /\ pos' = pos /\ replayed' = replayed
      /\ ReplayTypes
  BY DEF SessionInv, SessionTypes, AtRecord, ReplayTypes, Open, Write, Close, Crash, replayVars
<1>2. Len(file') \in Nat /\ Len(<<>>) = 0 /\ DOMAIN replayed' = {}
  BY <1>1, LenProperties DEF RecTypes
<1> QED
  BY <1>1, <1>2 DEF AtRecord, ReplayedAsRecorded, ReplayTypes

(* The replay begins.                                                      *)
LEMMA ReplayBegins ==
    ASSUME SessionInv, OpenReplay
    PROVE  ReplayTypes' /\ AtRecord' /\ ReplayedAsRecorded'
<1>1. /\ rec' = rec /\ rec \in {"closed", "crashed"} /\ format' = format /\ file' = file
      /\ replay = "none" /\ replayed = <<>> /\ replay' = "open" /\ replayed' = replayed
      /\ pos' = IF format = "binary" /\ file # <<>> THEN 1 ELSE 0
      /\ file \in Seq(FilePart) /\ format \in {"text", "binary"}
  BY DEF SessionInv, SessionTypes, AtRecord, OpenReplay, recVars
<1>2. Len(file) \in Nat /\ (file # <<>> => Len(file) >= 1)
  BY <1>1, EmptySeq, LenProperties
<1>3. NParts * 0 = 0 /\ Len(<<>>) = 0
  BY Constants
<1>4. pos' \in Nat /\ pos' <= Len(file')
  BY <1>1, <1>2
<1>5. AtRecord'
  BY <1>1, <1>3, <1>4 DEF AtRecord
<1>6. <<>> \in Seq([event : Nat, parts : SUBSET Nat]) /\ DOMAIN <<>> = {}
  OBVIOUS
<1> QED
  BY <1>1, <1>4, <1>5, <1>6 DEF ReplayTypes, ReplayedAsRecorded

(* The next record of a binary file.                                       *)
LEMMA RecordStep ==
    ASSUME SessionInv, NextRecord
    PROVE  ReplayTypes' /\ AtRecord' /\ ReplayedAsRecorded'
<1> DEFINE r == Len(replayed)
           new == [event |-> r + 1, parts |-> Whole]
           Replayed == [event : Nat, parts : SUBSET Nat]
<1>1. /\ SessionTypes /\ StreamKept /\ AtRecord /\ ReplayedAsRecorded
      /\ replay = "open" /\ format = "binary" /\ pos + NParts <= Len(file)
      /\ pos' = pos + NParts
      /\ UNCHANGED <<format, rec, written, file, bad, replay>>
      /\ replayed' = Append(replayed, [event |-> file[pos + 1][1], parts |-> Whole])
      /\ replayed \in Seq(Replayed) /\ r \in Nat /\ Len(file) \in Nat /\ pos \in Nat
      /\ rec \in {"closed", "crashed"}
  BY LenProperties DEF SessionInv, SessionTypes, AtRecord, NextRecord, recVars
<1>2. file # <<>> /\ pos = 1 + NParts * r
  <2>1. file # <<>>
    BY <1>1, Constants
  <2> QED
    BY <1>1, <2>1 DEF AtRecord
<1>3. file[pos + 1][1] = r + 1 /\ r + 1 \in 1 .. written
  <2>1. 1 \in 1 .. NParts /\ pos + 1 \in 1 .. Len(file)
    BY <1>1, Constants
  <2>2. pos + 1 = HeaderParts + NParts * r + 1
    BY <1>1, <1>2 DEF HeaderParts
  <2> HIDE DEF r, HeaderParts
  <2> QED
    BY <1>1, <2>1, <2>2, PartFound
<1>4. /\ new \in Replayed /\ replayed' = Append(replayed, new)
      /\ replayed' \in Seq(Replayed) /\ Len(replayed') = r + 1
      /\ \A i \in 1 .. r : replayed'[i] = replayed[i]
      /\ replayed'[r + 1] = new
      /\ DOMAIN replayed = 1 .. r /\ DOMAIN replayed' = 1 .. (r + 1)
  <2>1. new \in Replayed
    BY <1>1, Constants DEF Whole
  <2>2. replayed' = Append(replayed, new)
    BY <1>1, <1>3
  <2> HIDE DEF new, Replayed
  <2> QED
    BY <1>1, <2>1, <2>2, AppendProperties, LenProperties
<1>5. NParts * (r + 1) = NParts * r + NParts /\ NParts * r \in Nat
  BY <1>1, Constants
<1> HIDE DEF r, Replayed
<1>6. pos' = 1 + NParts * Len(replayed')
  <2>1. pos' = 1 + NParts * r + NParts
    BY <1>1, <1>2
  <2>2. 1 + NParts * r + NParts = 1 + NParts * (r + 1)
    BY <1>5, Constants
  <2> QED
    BY <1>4, <2>1, <2>2
<1>7. AtRecord' /\ pos' \in Nat
  <2>1. pos' \in Nat /\ pos' <= Len(file)
    BY <1>1, Constants
  <2> QED
    BY <1>1, <1>2, <1>6, <2>1 DEF AtRecord
<1>8. ReplayedAsRecorded'
  <2> SUFFICES ASSUME NEW i \in 1 .. (r + 1)
               PROVE  /\ replayed'[i].event = i /\ i <= written
                      /\ replayed'[i].parts = Whole
    BY <1>1, <1>4 DEF ReplayedAsRecorded, Whole
  <2>1. CASE i = r + 1
    BY <1>1, <1>3, <1>4, <2>1
  <2>2. CASE i # r + 1
    <3>1. i \in DOMAIN replayed /\ i \in 1 .. r
      BY <1>1, <1>4, <2>2 DEF r
    <3>2. replayed[i].event = i /\ i <= written /\ replayed[i].parts = Whole
      BY <1>1, <3>1 DEF ReplayedAsRecorded
    <3> QED
      BY <1>4, <3>1, <3>2
  <2> QED
    BY <2>1, <2>2
<1> QED
  BY <1>1, <1>4, <1>7, <1>8 DEF ReplayTypes, Replayed

(* The next line of a text file, which the end of the file may cut.        *)
LEMMA LineStep ==
    ASSUME SessionInv, NextLine
    PROVE  ReplayTypes' /\ AtRecord' /\ ReplayedAsRecorded'
<1> DEFINE r == Len(replayed)
           last == IF pos + NParts <= Len(file) THEN pos + NParts ELSE Len(file)
           found == 1 .. (last - pos)
           new == [event |-> r + 1, parts |-> found]
           Replayed == [event : Nat, parts : SUBSET Nat]
<1>1. /\ SessionTypes /\ StreamKept /\ AtRecord /\ ReplayedAsRecorded
      /\ replay = "open" /\ format = "text" /\ pos < Len(file)
      /\ pos' = pos + Len(LineAt(pos))
      /\ UNCHANGED <<format, rec, written, file, bad, replay>>
      /\ replayed' = Append(replayed, [event |-> file[pos + 1][1],
                                       parts |-> {part[2] : part \in Range(LineAt(pos))}])
      /\ replayed \in Seq(Replayed) /\ r \in Nat /\ Len(file) \in Nat /\ pos \in Nat
      /\ rec \in {"closed", "crashed"} /\ written \in Nat
  BY LenProperties DEF SessionInv, SessionTypes, AtRecord, NextLine, recVars
<1>2. pos = NParts * r
  BY <1>1 DEF AtRecord
<1>3. file[pos + 1][1] = r + 1 /\ r + 1 \in 1 .. written
  <2>1. 1 \in 1 .. NParts /\ pos + 1 \in 1 .. Len(file)
    BY <1>1, Constants
  <2>2. pos + 1 = HeaderParts + NParts * r + 1
    BY <1>1, <1>2 DEF HeaderParts
  <2> HIDE DEF r, HeaderParts
  <2> QED
    BY <1>1, <2>1, <2>2, PartFound
<1>4. /\ Len(LineAt(pos)) = last - pos
      /\ {part[2] : part \in Range(LineAt(pos))} = found
  <2> HIDE DEF r
  <2> QED
    BY <1>1, <1>2, LineFound
<1>5. /\ last \in Nat /\ pos < last /\ last <= Len(file) /\ last - pos \in Nat
      /\ pos' = last
      /\ last = pos + NParts \/ (last = Len(file) /\ last < pos + NParts)
  BY <1>1, <1>4, Constants
<1>6. /\ new \in Replayed /\ replayed' = Append(replayed, new)
      /\ replayed' \in Seq(Replayed) /\ Len(replayed') = r + 1
      /\ \A i \in 1 .. r : replayed'[i] = replayed[i]
      /\ replayed'[r + 1] = new /\ new.event = r + 1 /\ new.parts = found
      /\ DOMAIN replayed = 1 .. r /\ DOMAIN replayed' = 1 .. (r + 1)
  <2>1. new \in Replayed /\ new.event = r + 1 /\ new.parts = found
    BY <1>1, <1>5
  <2>2. replayed' = Append(replayed, new)
    BY <1>1, <1>3, <1>4
  <2> HIDE DEF new, Replayed
  <2> QED
    BY <1>1, <2>1, <2>2, AppendProperties, LenProperties
<1>7. NParts * (r + 1) = NParts * r + NParts /\ NParts * r \in Nat /\ (r + 1) - 1 = r
  BY <1>1, Constants
<1> HIDE DEF r, Replayed, last, found, new
<1>8. AtRecord' /\ pos' \in Nat
  <2>1. CASE last = pos + NParts
    <3>1. pos' = NParts * Len(replayed')
      BY <1>2, <1>5, <1>6, <1>7, <2>1
    <3> QED
      BY <1>1, <1>5, <3>1 DEF AtRecord
  <2>2. CASE last = Len(file) /\ last < pos + NParts
    <3>1. pos' = Len(file') /\ NParts * (Len(replayed') - 1) = pos /\ Len(file') \in Nat
      BY <1>1, <1>2, <1>5, <1>6, <1>7, <2>2
    <3>2. NParts * Len(replayed') = pos + NParts
      BY <1>2, <1>6, <1>7
    <3>3. NParts * (Len(replayed') - 1) < pos' /\ pos' < NParts * Len(replayed') /\ pos' <= Len(file')
      BY <1>1, <1>5, <2>2, <3>1, <3>2
    <3> QED
      BY <1>1, <1>5, <3>1, <3>3 DEF AtRecord
  <2> QED
    BY <1>5, <2>1, <2>2
<1>9. found # Whole => (bad \/ rec = "crashed") /\ last = Len(file) /\ last - pos \in Whole
  <2> SUFFICES ASSUME found # Whole
               PROVE  (bad \/ rec = "crashed") /\ last = Len(file) /\ last - pos \in Whole
    OBVIOUS
  <2>1. last # pos + NParts
    BY <1>1, Constants DEF Whole, found
  <2>2. last = Len(file) /\ last < pos + NParts
    BY <1>5, <2>1
  <2>3. last - pos \in Whole
    BY <1>1, <1>5, <2>2, Constants DEF Whole
  <2>4. ASSUME rec = "closed", ~ bad PROVE FALSE
    <3>1. Len(file) = NParts * written
      <4>1. Len(file) + Len(buffer) = HeaderParts + NParts * written /\ Len(buffer) = 0
        BY <1>1, <2>4 DEF StreamKept
      <4>2. HeaderParts = 0 /\ NParts * written \in Nat
        BY <1>1, Constants DEF HeaderParts
      <4>3. \A a, b, c, d \in Nat : c = 0 /\ d = 0 /\ a + d = c + b => a = b
        OBVIOUS
      <4> QED
        BY <1>1, <4>1, <4>2, <4>3
    <3>2. NParts * written >= NParts * r + NParts
      <4>1. r < written /\ r \in Int /\ written \in Int
        BY <1>1, <1>3 DEF r
      <4> QED
        BY <4>1, Constants, MultiplesApart
    <3>3. NParts * written < NParts * r + NParts
      BY <1>2, <2>2, <3>1
    <3>4. NParts * written \in Nat
      BY <1>1, Constants
    <3> QED
      BY <1>7, <3>2, <3>3, <3>4, Constants
  <2> QED
    BY <1>1, <2>2, <2>3, <2>4
<1>10. ReplayedAsRecorded'
  <2> SUFFICES ASSUME NEW i \in 1 .. (r + 1)
               PROVE  /\ replayed'[i].event = i /\ i <= written
                      /\ replayed'[i].parts # Whole =>
                           /\ bad \/ rec = "crashed"
                           /\ pos' = Len(file) /\ i = r + 1
                           /\ \E k \in Whole : replayed'[i].parts = 1 .. k
    BY <1>1, <1>6 DEF ReplayedAsRecorded, Whole
  <2>1. CASE i = r + 1
    <3>1. replayed'[i].event = i /\ replayed'[i].parts = found /\ i <= written
      <4>1. r + 1 <= written
        BY <1>1, <1>3
      <4> QED
        BY <1>6, <2>1, <4>1, Zenon
    <3>2. pos' = last
      BY <1>5
    <3> QED
      BY <1>9, <2>1, <3>1, <3>2, Zenon DEF found
  <2>2. CASE i # r + 1
    <3>1. i \in DOMAIN replayed /\ i \in 1 .. r
      BY <1>1, <1>6, <2>2 DEF r
    <3>2. replayed[i].event = i /\ i <= written /\ replayed[i].parts = Whole
      BY <1>1, <3>1 DEF ReplayedAsRecorded
    <3> QED
      BY <1>6, <3>1, <3>2
  <2> QED
    BY <2>1, <2>2
<1> QED
  BY <1>1, <1>6, <1>8, <1>10 DEF ReplayTypes, Replayed

(* The replay ends.                                                        *)
LEMMA ReplayEnds ==
    ASSUME SessionInv, EndReplay
    PROVE  ReplayTypes' /\ AtRecord' /\ ReplayedAsRecorded'
<1>1. /\ SessionTypes /\ AtRecord /\ ReplayedAsRecorded
      /\ UNCHANGED <<format, rec, written, file, bad, pos, replayed>>
      /\ replay = "open" /\ replay' = "end"
      /\ IF format = "text" THEN pos = Len(file) ELSE pos + NParts > Len(file)
  BY DEF SessionInv, EndReplay, recVars
<1> QED
  BY <1>1 DEF ReplayTypes, SessionTypes, AtRecord, ReplayedAsRecorded

(* A session begins in the invariant.                                      *)
LEMMA SessionInit == Init => SessionInv
<1> SUFFICES ASSUME Init PROVE SessionInv
  OBVIOUS
<1>1. /\ disk \in Nat /\ Len(<<>>) = 0 /\ BufCap \in Nat
      /\ DOMAIN <<>> = {}
      /\ \A m, w, h : Stretch(<<>>, m, w, h)
  BY Constants DEF Init, Stretch
<1>2. SessionTypes
  <2>1. \A S : <<>> \in Seq(S)
    OBVIOUS
  <2>2. buffer \in Seq(FilePart) /\ file \in Seq(FilePart)
        /\ replayed \in Seq([event : Nat, parts : SUBSET Nat])
    BY <2>1, Zenon DEF Init
  <2> QED
    BY <1>1, <2>2 DEF Init, SessionTypes
<1>3. StreamKept
  <2>1. NParts * 0 = 0 /\ 0 <= disk /\ 0 <= BufCap
    BY <1>1, Constants
  <2> QED
    BY <1>1, <2>1 DEF Init, StreamKept
<1>4. AtRecord
  BY <1>1 DEF Init, AtRecord
<1>5. ReplayedAsRecorded
  BY <1>1, Zenon DEF Init, ReplayedAsRecorded
<1> QED
  BY <1>2, <1>3, <1>4, <1>5 DEF SessionInv

(* Every step of recorder and replay keeps the invariant.                  *)
THEOREM SessionNext == SessionInv /\ [Next]_vars => SessionInv'
<1> SUFFICES ASSUME SessionInv, [Next]_vars PROVE SessionInv'
  OBVIOUS
<1>1. RecTypes' /\ StreamKept'
  BY StreamNext
<1>2. ReplayTypes' /\ AtRecord' /\ ReplayedAsRecorded'
  <2>1. CASE UNCHANGED vars
    BY <2>1 DEF vars, SessionInv, SessionTypes, ReplayTypes, AtRecord, ReplayedAsRecorded
  <2> QED
    BY <1>1, <2>1, RecorderStep, ReplayBegins, LineStep, RecordStep, ReplayEnds DEF Next
<1>3. format' = format /\ disk' = disk
  BY DEF Next, vars, recVars, Open, Write, Close, Crash, OpenReplay, NextLine, NextRecord, EndReplay
<1> QED
  BY <1>1, <1>2, <1>3 DEF SessionInv, SessionTypes, RecTypes, ReplayTypes

(* Every reachable state satisfies the invariant.                          *)
THEOREM SessionInvariant == Spec => []SessionInv
<1> QED
  BY SessionInit, SessionNext, PTL DEF Spec

(* However the recording ended, the replay returns its first events in     *)
(* order and whole, except the last one of a text file cut inside it       *)
(* (replay.cpp 143-150, 236-244): for every number of events and of parts, *)
(* every buffer a record fits into and every disk.                         *)
THEOREM SessionReplayedAsRecorded == Spec => []ReplayedAsRecorded
<1>1. SessionInv => ReplayedAsRecorded
  BY DEF SessionInv
<1> QED
  BY <1>1, SessionInvariant, PTL

(* A recording that was closed, with room on the disk, is replayed to its  *)
(* last event; one that died lacks no more than the buffer holds           *)
(* (recorder.cpp 96-110).                                                  *)
THEOREM SessionNothingLost == Spec => []NothingLostIfClosed
<1>1. ASSUME SessionInv PROVE NothingLostIfClosed
  <2> DEFINE r == Len(replayed)
             w == written
             size == Len(file)
             h == HeaderParts
  <2> SUFFICES ASSUME replay = "end", ~ bad
               PROVE  /\ rec = "closed" => r = w
                      /\ rec = "crashed" => (w - r) * NParts <= BufCap + NParts
    BY DEF NothingLostIfClosed
  <2>1. /\ r \in Nat /\ w \in Nat /\ size \in Nat /\ h \in 0 .. 1 /\ h \in Nat
        /\ NParts * r \in Nat /\ NParts * w \in Nat /\ NParts \in Nat /\ NParts > 1
        /\ BufCap \in Nat /\ NParts <= BufCap
    BY <1>1, Constants, LenProperties DEF SessionInv, SessionTypes, HeaderParts
  <2>2. /\ rec = "closed" => size = h + NParts * w
        /\ rec = "crashed" => size + BufCap >= h + NParts * w
    <3>1. rec = "closed" => size + Len(buffer) = h + NParts * w /\ Len(buffer) = 0
      BY <1>1 DEF SessionInv, StreamKept
    <3>2. \A a, b \in Nat : b = 0 => a + b = a
      OBVIOUS
    <3>3. rec = "closed" => size + Len(buffer) = size
      BY <2>1, <3>1, <3>2
    <3> QED
      BY <1>1, <3>1, <3>3 DEF SessionInv, StreamKept
  (* What was read: all whole records there are.                           *)
  <2>3. \/ size < h + NParts * r + NParts /\ h + NParts * r <= size
        \/ size < h + NParts * r + NParts /\ r = 0
        \/ h = 0 /\ size <= NParts * r /\ NParts * (r - 1) < size
    <3>1. CASE format = "binary"
      <4>1. h = 1
        BY <3>1 DEF HeaderParts
      <4>2. /\ pos = (IF file = <<>> THEN 0 ELSE 1) + NParts * r
            /\ pos + NParts > size /\ pos <= size /\ pos \in Nat
        BY <1>1, <3>1 DEF SessionInv, SessionTypes, AtRecord
      <4>3. CASE file = <<>>
        <5>1. size = 0 /\ pos = NParts * r
          BY <2>1, <4>2, <4>3
        <5>2. NParts * r = 0
          BY <2>1, <4>2, <5>1
        <5>3. r = 0
          BY <2>1, <5>2, MultiplesApart
        <5> QED
          BY <2>1, <4>1, <5>1, <5>3
      <4>4. CASE file # <<>>
        <5>1. pos = h + NParts * r
          BY <4>1, <4>2, <4>4
        <5> HIDE DEF h, r, size
        <5> QED
          BY <2>1, <4>2, <5>1
      <4> QED
        BY <4>3, <4>4
    <3>2. CASE format = "text"
      <4>1. h = 0
        BY <3>2 DEF HeaderParts
      <4>2. /\ pos = size
            /\ \/ pos = NParts * r
               \/ NParts * (r - 1) < pos /\ pos < NParts * r
        BY <1>1, <3>2 DEF SessionInv, AtRecord
      <4> HIDE DEF h, r, size
      <4>3. CASE pos = NParts * r
        BY <2>1, <4>1, <4>2, <4>3
      <4>4. CASE NParts * (r - 1) < pos /\ pos < NParts * r
        BY <2>1, <4>1, <4>2, <4>4
      <4> QED
        BY <4>2, <4>3, <4>4
    <3> QED
      BY <1>1, <3>1, <3>2 DEF SessionInv, SessionTypes
  <2> HIDE DEF r, w, size, h
  <2>4. r < w => NParts * w >= NParts * r + NParts
    BY <2>1, MultiplesApart, Constants
  <2>5. w < r => NParts * (r - 1) >= NParts * w /\ NParts * r >= NParts * w + NParts
    <3>1. w < r => NParts * r >= NParts * w + NParts
      BY <2>1, MultiplesApart, Constants
    <3>2. NParts * (r - 1) = NParts * r - NParts
      BY <2>1
    <3> QED
      BY <2>1, <3>1, <3>2
  <2>6. ASSUME rec = "closed" PROVE r = w
    <3>1. ~ (r < w)
      BY <2>1, <2>2, <2>3, <2>4, <2>6
    <3>2. ~ (w < r)
      BY <2>1, <2>2, <2>3, <2>5, <2>6
    <3> QED
      BY <2>1, <3>1, <3>2
  <2>7. ASSUME rec = "crashed" PROVE (w - r) * NParts <= BufCap + NParts
    <3>1. NParts * w - NParts * r <= BufCap + NParts
      BY <2>1, <2>2, <2>3, <2>7
    <3>2. (w - r) * NParts = NParts * w - NParts * r
      BY <2>1
    <3> QED
      BY <3>1, <3>2
  <2> QED
    BY <2>6, <2>7
<1> QED
  BY <1>1, SessionInvariant, PTL

=============================================================================
