----------------------------- MODULE MCStartup ------------------------------
(* Startup with three words: two numbers, of which "8" also names a file,  *)
(* and a model, whose name is also that of a file.  In a word of four bits *)
(* 8 is half the range, the largest capacity the constructor can round up, *)
(* and strtoull reads "-1" as the largest number; a file holds an int64    *)
(* that is not negative (config.cpp 25-31), which is below half the range. *)
EXTENDS Startup, Integers

MCWords == {"8", "-1", "m"}
MCNumber == [w \in MCWords |-> CASE w = "8" -> 8 [] w = "-1" -> MaxRequest [] w = "m" -> 0]
MCNoCapacity == -1
MCTomlFiles == {[w \in MCWords |-> IF w = "m" THEN c ELSE 2] : c \in {0, 3, 7, MCNoCapacity}}
=============================================================================
