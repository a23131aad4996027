---------------------------- MODULE SessionFile ----------------------------
(***************************************************************************)
(* A session recorded by Recorder (src/src/session/recorder.cpp) and read  *)
(* back by Replay (src/src/session/replay.cpp), in either format, with a   *)
(* disk that may fill up and a process that may die.                       *)
(*                                                                         *)
(* A record of the file is a sequence of NParts parts: the fields of the   *)
(* line in the text format, of which the first has the brace and the last  *)
(* the newline; pieces of the struct in the binary one, whose file starts  *)
(* with a header.  A part is <<event, number>>.  The stream keeps parts in *)
(* a buffer until it is full or closed.  A disk that is full stays full.   *)
(* A cut falls between two parts: that the field before it may have lost   *)
(* its last digits is below this grain.                                    *)
(***************************************************************************)
EXTENDS SequencesExt, FiniteSetsExt, Integers

CONSTANTS
    NEvents,   \* bound on the events of a session
    NParts,    \* parts of a record
    BufCap,    \* parts the stream's buffer holds
    DiskSizes  \* parts the disk may have room for

(* A record, the struct or a line of its fields, is shorter than the       *)
(* buffer of an ofstream.                                                  *)
ASSUME SessionAssumption ==
    /\ NParts \in Nat \ {0, 1}
    /\ {NEvents, BufCap} \subseteq Nat /\ NParts <= BufCap
    /\ DiskSizes \subseteq Nat

VARIABLES
    format,    \* by the file's extension: "text" or "binary"
    disk,      \* room on the disk
    rec,       \* "start", "open", "off", "closed" or "crashed"
    written,   \* events handed to Recorder::write
    buffer,    \* parts in the stream's buffer
    file,      \* parts in the file
    bad,       \* the stream has failed
    replay,    \* "none", "open" or "end"
    pos,       \* parts of the file read
    replayed   \* what next() has returned: [event, parts]

vars == <<format, disk, rec, written, buffer, file, bad, replay, pos, replayed>>

recVars == <<format, disk, rec, written, buffer, file, bad>>
replayVars == <<replay, pos, replayed>>

Header == <<0, 1>>
Record(event) == [i \in 1 .. NParts |-> <<event, i>>]
Whole == 1 .. NParts

Init ==
    /\ format \in {"text", "binary"} /\ disk \in DiskSizes
    /\ rec = "start" /\ written = 0
    /\ buffer = <<>> /\ file = <<>> /\ bad = FALSE
    /\ replay = "none" /\ pos = 0 /\ replayed = <<>>

(* The first n parts go to the disk, as far as there is room.              *)
Spill(parts, n) ==
    LET fits == Min({n, disk - Len(file)})
    IN  /\ file' = file \o SubSeq(parts, 1, fits)
        /\ bad' = (fits < n)
        /\ buffer' = (IF fits < n THEN <<>> ELSE SubSeq(parts, n + 1, Len(parts)))

(* ofstream::write and <<: when the buffer would overflow it is filled and *)
(* written, or written together with what was to go into it.               *)
Put(parts) ==
    LET all == buffer \o parts
    IN  IF Len(all) <= BufCap
        THEN buffer' = all /\ UNCHANGED <<file, bad>>
        ELSE \E n \in {BufCap, Len(all)} : Spill(all, n)
-----------------------------------------------------------------------------
(* The constructor; a file that cannot be opened is not recorded to, and   *)
(* main goes on with a warning.                                            *)
Open ==
    /\ rec = "start"
    /\ \/ rec' = "off" /\ UNCHANGED <<buffer, file, bad>>
       \/ /\ rec' = "open"
          /\ Put(IF format = "binary" THEN <<Header>> ELSE <<>>)
    /\ UNCHANGED <<format, disk, written, replayVars>>

(* write: a stream that has failed takes nothing more, and tells nobody.   *)
Write ==
    /\ rec = "open" /\ written < NEvents
    /\ written' = written + 1
    /\ IF bad THEN UNCHANGED <<buffer, file, bad>> ELSE Put(Record(written + 1))
    /\ UNCHANGED <<format, disk, rec, replayVars>>

(* Mutant: the file is closed as it is.                                    *)
CloseUnflushed ==
    /\ rec = "open"
    /\ rec' = "closed"
    /\ UNCHANGED <<format, disk, written, buffer, file, bad, replayVars>>

(* close(): flush and close.                                               *)
Close ==
    /\ rec = "open"
    /\ rec' = "closed"
    /\ IF bad THEN UNCHANGED <<buffer, file, bad>> ELSE Spill(buffer, Len(buffer))
    /\ UNCHANGED <<format, disk, written, replayVars>>

(* The process dies with what is in the buffer.                            *)
Crash ==
    /\ rec = "open"
    /\ rec' = "crashed" /\ buffer' = <<>>
    /\ UNCHANGED <<format, disk, written, file, bad, replayVars>>

(* Replay's constructor skips the header; if there is none in whole, it    *)
(* starts over or its stream has failed, and nothing can be read.          *)
OpenReplay ==
    /\ rec \in {"closed", "crashed"} /\ replay = "none"
    /\ replay' = "open"
    /\ pos' = (IF format = "binary" /\ file # <<>> THEN 1 ELSE 0)
    /\ UNCHANGED <<recVars, replayed>>

(* The parts up to the newline, or to the end of the file.                 *)
LineAt(p) ==
    LET newlines == {q \in (p + 1) .. Len(file) : file[q][2] = NParts}
    IN  SubSeq(file, p + 1, Min(newlines \cup {Len(file)}))

(* next_ndjson: the fields that are in the line, the rest at their         *)
(* defaults.                                                               *)
NextLine ==
    /\ replay = "open" /\ format = "text" /\ pos < Len(file)
    /\ pos' = pos + Len(LineAt(pos))
    /\ replayed' = Append(replayed, [event |-> file[pos + 1][1],
                                     parts |-> {part[2] : part \in Range(LineAt(pos))}])
    /\ UNCHANGED <<recVars, replay>>

(* Mutant: the count of bytes read is not looked at.                       *)
NextRecordUnchecked ==
    /\ replay = "open" /\ format = "binary" /\ pos < Len(file)
    /\ pos' = pos + Len(LineAt(pos))
    /\ replayed' = Append(replayed, [event |-> file[pos + 1][1],
                                     parts |-> {part[2] : part \in Range(LineAt(pos))}])
    /\ UNCHANGED <<recVars, replay>>

(* next_llmtrace: a whole record.                                          *)
NextRecord ==
    /\ replay = "open" /\ format = "binary" /\ pos + NParts <= Len(file)
    /\ pos' = pos + NParts
    /\ replayed' = Append(replayed, [event |-> file[pos + 1][1], parts |-> Whole])
    /\ UNCHANGED <<recVars, replay>>

(* next() returns false.                                                   *)
EndReplay ==
    /\ replay = "open"
    /\ IF format = "text" THEN pos = Len(file) ELSE pos + NParts > Len(file)
    /\ replay' = "end"
    /\ UNCHANGED <<recVars, pos, replayed>>

Next ==
    \/ Open \/ Write \/ Close \/ Crash
    \/ OpenReplay \/ NextLine \/ NextRecord \/ EndReplay

Spec == Init /\ [][Next]_vars
-----------------------------------------------------------------------------
(* However the recording ended, the replay returns its first events, in    *)
(* order and whole, but for the last one of a text file that was cut       *)
(* inside it, which has the fields before the cut (replay.cpp 143-150,     *)
(* 236-244).                                                               *)
ReplayedAsRecorded ==
    \A i \in DOMAIN replayed :
        /\ replayed[i].event = i /\ i <= written
        /\ replayed[i].parts # Whole =>
              /\ format = "text" /\ (bad \/ rec = "crashed")
              /\ pos = Len(file) /\ i = Len(replayed)
              /\ \E k \in Whole : replayed[i].parts = 1 .. k

(* A recording that was closed and had room on the disk is replayed to its *)
(* last event; one that died lacks no more events than the buffer holds,   *)
(* begun or whole (recorder.cpp 96-110).                                   *)
NothingLostIfClosed ==
    replay = "end" =>
        /\ rec = "closed" /\ ~ bad => Len(replayed) = written
        /\ rec = "crashed" /\ ~ bad => (written - Len(replayed)) * NParts <= BufCap + NParts

=============================================================================
