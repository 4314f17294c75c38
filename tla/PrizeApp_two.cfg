\* Two copies of the whole tool, opened and closed one after the other, which may
\* crash and whose sends may end in any way.
SPECIFICATION Spec
CONSTANTS
    c1 = c1
    c2 = c2
    Copies = {c1, c2}
    Empty = Empty
    ann = ann
    quoted = quoted
    Values <- MCValues
    Texts <- MCTexts
    Read <- MCRead
    Show <- MCShow
    Loads = {}
    NoDialog = NoDialog
    FileTexts <- MCFileTexts
    Absent = Absent
    Written <- MCShow
    Reread <- MCReread
    InitialFiles <- MCFiles
    NoFile = NoFile
    Faults = {"uncaught"}
    Typed <- MCTyped
    MaxSends = 1
SYMMETRY Symmetry
INVARIANTS
    WindowsMatch
    SendsAsConfirmed
PROPERTIES
    TellsTruth
    OpensAsSaved
    KeepsStore
