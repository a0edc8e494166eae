SPECIFICATION FairSpec
CONSTANTS
    Names = {"a", "f", "g", "h", "u"}
    EMPTY = "empty"
    Abstracts = {"empty", "A", "B"}
    NONE = NONE
    Statements <- MCStatements
    GetFuncs <- ast_stmt_getfuncs
    AssertionFails <- SearchFails
    Mentions <- MentionsOf
    Unsearchable <- IsUnsearchable
    Configs <- MCConfigs
    MaxOut = 6
    MaxDecls = 3
    MaxChars = 5
INVARIANTS
    TypeOK
    VerifiedAsAssumed
    AcceptedIsVerified
    GraphExact
    DependenciesFirst
    OrderComplete
    CrashExact
    StrippedExactly
PROPERTIES
    Terminates
