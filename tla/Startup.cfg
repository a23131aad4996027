SPECIFICATION FairStartSpec
CONSTANTS
    Width = 4
    MaxRequest = 15
    Words <- MCWords
    Number <- MCNumber
    TomlFiles <- MCTomlFiles
    ModelFiles = {"m"}
    Flags = {"--help", "--bench"}
    NoCapacity <- MCNoCapacity
    DefaultCapacity = 4
    MaxArgs = 5
INVARIANTS
    UsableCapacity
    CommandLineWins
PROPERTIES
    StartEnds
CHECK_DEADLOCK FALSE
