------------------------------ MODULE Startup -------------------------------
(***************************************************************************)
(* The beginning of main (src/src/main.cpp 89-159 and 415-463): the        *)
(* command line is searched for --config, the TOML file is loaded          *)
(* (src/src/config.cpp), its values seed the options, the command line is  *)
(* parsed over them, and the program exits or constructs its ring, the     *)
(* constructor being the module RingSizing.  A benchmark (run_bench,       *)
(* main.cpp 330-413) constructs two, one after the other, and exits.       *)
(*                                                                         *)
(* Of the options, the ring's capacity stands for all that a file and a    *)
(* flag can set, "--replay" for those that take a word.  The other         *)
(* arguments are Words; some of them name files.                           *)
(***************************************************************************)
EXTENDS RingSizing, Sequences, SequencesExt

CONSTANTS
    Words,        \* arguments that are no options
    Number,       \* the number each Word is read as by strtoull
    TomlFiles,    \* what may be in the files: per Word, a capacity, or
                  \* NoCapacity for any file that sets none
    ModelFiles,   \* the Words that name a model file
    Flags,        \* options without a value
    NoCapacity,
    DefaultCapacity,
    MaxArgs       \* bound on the arguments

TakesValue == {"--config", "--ring-capacity", "--replay"}

ASSUME StartupAssumption ==
    /\ Number \in [Words -> 0 .. MaxRequest]
    /\ TomlFiles \subseteq [Words -> (0 .. MaxRequest) \cup {NoCapacity}]
    /\ ModelFiles \subseteq Words /\ NoCapacity \notin 0 .. MaxRequest
    /\ (Words \cup Flags) \cap TakesValue = {}
    /\ DefaultCapacity \in 0 .. MaxRequest
    /\ MaxArgs \in Nat

ExitFlags == {"--help", "--print-config"}
Arguments == Words \cup TakesValue \cup Flags

VARIABLES
    argv,     \* the command line, without the program's name
    toml,     \* the files
    phase,    \* where main is; "ring" and "hooked" when it constructs a ring,
              \* "hooked" for the second one of a benchmark
    next,     \* the argument apply_cli looks at
    config,   \* the capacity in the Config loaded
    opt,      \* Options: [config, capacity, replay, flags]
    pos       \* apply_cli's positional arguments

startVars == <<argv, toml, phase, next, config, opt, pos>>
allVars == <<sizeVars, startVars>>

Empty == ""

StartInit ==
    /\ argv \in SeqOf(Arguments, MaxArgs) /\ toml \in TomlFiles
    /\ phase = "scan" /\ next = 1 /\ config = DefaultCapacity
    /\ opt = [config |-> Empty, capacity |-> DefaultCapacity, replay |-> Empty, flags |-> {}]
    /\ pos = <<>>
    /\ pc = "off" /\ cap = 1 /\ capacity = 0

(* Mutant: the first --config counts.                                      *)
NamedFirst == {i \in 1 .. (Len(argv) - 1) : argv[i] = "--config"
                                              /\ \A j \in 1 .. (i - 1) : argv[j] # "--config"}

(* The last argument is not looked at: no name follows it.                 *)
Named == {i \in 1 .. (Len(argv) - 1) : argv[i] = "--config"
                                        /\ \A j \in (i + 1) .. (Len(argv) - 1) : argv[j] # "--config"}

(* Config::load: a file that is missing or broken gives the defaults, and  *)
(* so does a key that is missing or whose value does not fit.              *)
Loaded(file) ==
    IF file \in Words /\ toml[file] # NoCapacity THEN toml[file] ELSE DefaultCapacity

LoadConfig ==
    /\ phase = "scan"
    /\ \/ Named = {} /\ UNCHANGED config /\ opt' = opt
       \/ \E i \in Named :
            /\ config' = Loaded(argv[i + 1])
            /\ opt' = [opt EXCEPT !.config = argv[i + 1]]
    /\ phase' = "seed"
    /\ UNCHANGED <<sizeVars, argv, toml, next, pos>>

SeedFromConfig ==
    /\ phase = "seed"
    /\ opt' = [opt EXCEPT !.capacity = config]
    /\ phase' = "apply"
    /\ UNCHANGED <<sizeVars, argv, toml, next, config, pos>>
-----------------------------------------------------------------------------
(* apply_cli, argument by argument.                                        *)

(* The argument after, whatever it is, or the empty word if there is none. *)
Value == IF next < Len(argv) THEN argv[next + 1] ELSE Empty

(* strtoull gives 0 for what is no number.                                 *)
AsNumber(word) == IF word \in Words THEN Number[word] ELSE 0

(* Mutant: a number is taken only if the capacity is still the default.    *)
OptionOverDefault(name, value) ==
    CASE name = "--config"        -> [opt EXCEPT !.config = value]
      [] name = "--ring-capacity" -> IF opt.capacity = DefaultCapacity
                                     THEN [opt EXCEPT !.capacity = AsNumber(value)] ELSE opt
      [] name = "--replay"        -> [opt EXCEPT !.replay = value]

Option(name, value) ==
    CASE name = "--config"        -> [opt EXCEPT !.config = value]
      [] name = "--ring-capacity" -> [opt EXCEPT !.capacity = AsNumber(value)]
      [] name = "--replay"        -> [opt EXCEPT !.replay = value]

TakeOption ==
    /\ phase = "apply" /\ next <= Len(argv) /\ argv[next] \in TakesValue
    /\ opt' = Option(argv[next], Value)
    /\ next' = next + 2
    /\ UNCHANGED <<sizeVars, argv, toml, phase, config, pos>>

TakeFlag ==
    /\ phase = "apply" /\ next <= Len(argv) /\ argv[next] \in Flags
    /\ opt' = [opt EXCEPT !.flags = @ \cup {argv[next]}]
    /\ next' = next + 1
    /\ UNCHANGED <<sizeVars, argv, toml, phase, config, pos>>

(* An option that is not known is a word like any other.                   *)
TakeWord ==
    /\ phase = "apply" /\ next <= Len(argv) /\ argv[next] \in Words
    /\ pos' = Append(pos, argv[next])
    /\ next' = next + 1
    /\ UNCHANGED <<sizeVars, argv, toml, phase, config, opt>>

Replaying == opt.replay # Empty
Bench == "--bench" \in opt.flags
ModelNamed == pos # <<>> /\ pos[1] \in ModelFiles
NoModel == ~ Replaying /\ ~ ModelNamed

(* --help, --print-config, no model named or no such file, or a benchmark  *)
(* whose model cannot be loaded: with --replay nobody has looked for it.   *)
ExitEarly ==
    /\ phase = "apply" /\ next > Len(argv)
    /\ opt.flags \cap ExitFlags # {} \/ NoModel \/ Bench
    /\ phase' = "exited"
    /\ UNCHANGED <<sizeVars, argv, toml, next, config, opt, pos>>

EnterConstructor ==
    /\ capacity' = opt.capacity /\ cap' = 1 /\ pc' = "loop"
    /\ UNCHANGED <<argv, toml, next, config, opt, pos>>

(* The ring of a run, or that of a benchmark without the hook.             *)
ConstructRing ==
    /\ phase = "apply" /\ next > Len(argv)
    /\ opt.flags \cap ExitFlags = {} /\ ~ NoModel /\ (Bench => ModelNamed)
    /\ phase' = "ring"
    /\ EnterConstructor

(* The tokens of the first measurement are generated, its ring is gone.    *)
BenchAgain ==
    /\ phase = "ring" /\ Bench /\ pc = "sized"
    /\ phase' = "hooked"
    /\ EnterConstructor

EndBench ==
    /\ phase = "hooked" /\ pc = "sized"
    /\ phase' = "exited"
    /\ UNCHANGED <<sizeVars, argv, toml, next, config, opt, pos>>

SizeRing ==
    /\ phase \in {"ring", "hooked"}
    /\ SizeNext
    /\ UNCHANGED startVars

StartNext ==
    \/ LoadConfig \/ SeedFromConfig \/ TakeOption \/ TakeFlag \/ TakeWord
    \/ ExitEarly \/ ConstructRing \/ SizeRing \/ BenchAgain \/ EndBench

StartSpec == StartInit /\ [][StartNext]_allVars
FairStartSpec == StartSpec /\ WF_allVars(StartNext)
-----------------------------------------------------------------------------
(* Reference: the positions at which an option or a word begins, the       *)
(* others being the values of the options before them.                     *)
Begins(args) ==
    CHOOSE B \in SUBSET DOMAIN args :
        \A i \in DOMAIN args :
            i \in B <=> (i > 1 => ~ (i - 1 \in B /\ args[i - 1] \in TakesValue))

LastOf(name) ==
    LET at == {i \in Begins(argv) : argv[i] = name /\ i < Len(argv)}
    IN  IF at = {} THEN 0 ELSE Max(at)

(* "CLI overrides" (main.cpp 71): the ring gets the capacity of the last   *)
(* --ring-capacity on the command line, else that of the file the last     *)
(* --config names, else the default, in whatever order they stand and with *)
(* other options between them.  Command lines that end in an option        *)
(* without its value, or give --config as the value of an option, are left *)
(* out: the search for --config does not parse what stands before it.      *)
CommandLineWins ==
    /\ phase \in {"ring", "hooked"}
    /\ \A i \in DOMAIN argv \ Begins(argv) : argv[i] # "--config"
    /\ Len(argv) \in Begins(argv) => argv[Len(argv)] \notin TakesValue
    => capacity = IF LastOf("--ring-capacity") # 0
                  THEN AsNumber(argv[LastOf("--ring-capacity") + 1])
                  ELSE IF LastOf("--config") # 0
                       THEN Loaded(argv[LastOf("--config") + 1])
                       ELSE DefaultCapacity

StartEnded ==
    \/ phase = "exited"
    \/ phase \in {"ring", "hooked"} /\ pc = "failed"
    \/ phase = "ring" /\ pc = "sized" /\ ~ Bench

(* Every command line and file lead to an exit, to a failed allocation or  *)
(* to the ring the threads will use, unless they ask for more than half    *)
(* the range of a word: then, and only then, the shift of ring_buffer.hpp  *)
(* 23 has lost its only bit before the loop's test fails, and main is left *)
(* in the loop.  A benchmark gets through the constructor twice.           *)
StartEnds ==
    /\ <>(StartEnded \/ TooLarge)
    /\ [](TooLarge => pc = "loop")

=============================================================================
