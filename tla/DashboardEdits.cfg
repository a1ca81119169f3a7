\* Every page that edits, on two rows.
SPECIFICATION FairSpec
CONSTANTS
    EditPages <- MCEditPages
    Items = {"row1", "row2"}
    MaxEdits = 3
    MaxSingle = 2
    MaxUnder = 2
    MaxReads = 2
    MaxFaults = 1
    MaxTyping = 1
INVARIANTS OverlapExplained DialogsSerialize FailureTruthful ListSettles SavedMeansStored
PROPERTIES JobSeen MarksCleared
CHECK_DEADLOCK FALSE
