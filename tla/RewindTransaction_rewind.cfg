\* A rewind, its retry or undo, under crashes, failing file operations and the
\* user's own edits.
CONSTANTS
    NumFiles = 2
    Shapes <- TwoFiles
    MaxTx = 3
    MaxEdits = 1
    MaxFails = 2
    MaxCrashes = 2
SPECIFICATION RSpec
INVARIANTS
    AllOrNothing
    EditsSurvive
    ManifestsSound
    OthersRolledBack
CHECK_DEADLOCK FALSE
