SPECIFICATION FairSpec
CONSTANTS
    a = a
    b = b
    Atoms = {a, b}
    MaxLen = 2
    Functions <- MCFunctions
    XState <- MCXState
    NoState = NoState
    Always = Always
    state_init <- MCstate_init
    state_init_actual <- MCstate_init_actual
    state_step <- MCstate_step
    state_atend <- MCstate_atend
    state_hasgarbage <- MCstate_hasgarbage
    state_equal <- MCstate_equal
INVARIANTS
    TypeOK
    ExactlyOnePath
    PropsFollowName
    UnfinishedPathsArePossible
    VerifiedMeansAudited
    NoRepeatedSplit
    SplitsAreDecided
    ReportedIsSomeCase
PROPERTIES
    EachCaseAlone
    Termination
