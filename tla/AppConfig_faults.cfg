\* Two copies, every fault.
SPECIFICATION Spec
CONSTANTS
    c1 = c1
    c2 = c2
    x = x
    y = y
    Absent = Absent
    NoFile = NoFile
    Copies = {c1, c2}
    Keys <- MCKeys
    Groups <- MCGroups
    Values <- MCValues
    Texts <- MCTexts
    Written <- MCWritten
    Reread <- MCReread
    Constructed <- MCConstructed
    InitialFiles <- MCFiles
    Faults <- AllFaults
SYMMETRY Symmetry
INVARIANTS
    TypeOK
    LastSaverWins
    FileInv
    SavedPiecewise
PROPERTIES
    LoadsOneState
    AccessesRunOut
