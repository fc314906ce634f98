SPECIFICATION Spec
CONSTANTS
    default = default
    a = a
    b = b
    g = g
    Ids <- MCTwoIds
    Default = default
    Groups <- MCGroups
    GroupMembers <- MCTwoMembers
    Users <- MCTwoUsers
    ReuseEnded = TRUE
    MaxRefetch = 1
    MaxWrappers = 2
INVARIANTS SessionsInv WrappersOwned
PROPERTIES FrozenKeepsSessions
