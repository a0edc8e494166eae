SPECIFICATION Spec
CONSTANTS
    NoState = NoState
    XState = XState
    Atoms = {}
    MaxLen = 4
    MaxMixed = 3
    Program <- MCAll
    Functions <- MCFunctions
INVARIANTS
    VerifiedIsSafe
    VerifiedConforms
    ReportedIsWrong
    NoAbort
    NoRepeatedSplit
