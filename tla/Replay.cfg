\* One file of one line that is at most one token away from a sentence; one
\* file of up to three lines; a directory with two files of up to two lines;
\* and all command lines of up to four arguments.  Two symbol ids, so that a
\* third name is one too many.  A program that has ended takes no more steps.
CONSTANTS
    Value <- MCValue
    SymbolIdValues = 3
    Inputs <- MCInputs
    Directory = "dir"
    Rank <- MCRank
SPECIFICATION Spec
INVARIANTS
    LoadFaithful
    WholeFilesOnly
PROPERTIES
    ReplayEnds
CHECK_DEADLOCK FALSE
