SPECIFICATION Spec
CONSTANTS
    NoState = NoState
    XState = XState
    Atoms = {}
    MaxLen = 1
    MaxMixed = 1
    Program <- FindingAll
    Functions <- DanglingFunctions
INVARIANTS
    VerifiedIsSafe
