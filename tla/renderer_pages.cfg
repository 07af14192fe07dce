SPECIFICATION Spec
CONSTANTS
    MaxPieces = 5
    Slots = {"message"}
    Flags = {"video"}
    Templates <- MCTemplates
INVARIANTS
    EscapedForItsPlace
    BranchesResolved
