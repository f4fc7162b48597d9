SPECIFICATION PatchSpec
CONSTANTS
    KnownNames = 2
    OtherNames = 1
    FixedDirs = 1
INVARIANTS
    Recoverable
    SuccessIsUsable
