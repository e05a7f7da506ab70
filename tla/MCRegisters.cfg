SPECIFICATION MCSpec
CONSTANTS
    Identifiers <- MCIdentifiers
    EvmAddresses = {"a", "b"}
    Lists <- MCLists
    Leads = {0, 2}
    DateShifts <- MCDateShifts
    MaxLag = 1
    MaxTime = 3
    MaxPublications = 2
    MaxStaleness = 1
    MaxSkew = 1
    MaxFuture = 0
    MinIdentifiers = 2
    MaxShrink = 40
    None = None
    Letters = {1, 2, 3, 4}
    Queries <- MCQueries
    Indexes <- MCIndexes
    Thresholds = {50, 85, 100}
    Space = 0
    Chars = {l1, l2, sp}
    MaxLen = 3
    LookupLists <- MCTickers
    LookupQueries <- MCCompanies
    Limit = 2
CHECK_DEADLOCK FALSE
INVARIANTS
    AnswersHold
    MatchesAreFair
    DistanceIsLeast
    ResolutionIsFair
PROPERTIES
    ListAdvances
