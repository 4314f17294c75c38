\* Every form and time: what the columns keep.
SPECIFICATION Spec
CONSTANTS
    Half = 4
    Times <- MCTimes
    MaxRows = 1
INVARIANTS
    TypeOK
    RowAsForm
CHECK_DEADLOCK FALSE
