CONSTANTS
    q1 = q1
    NoQuery = NoQuery
    EmptyQuery = EmptyQuery
    None = None
    Ids <- MCIds
    Limit <- MCLimit
    MaxPage <- MCMaxPage
    Queries <- MCQueries
    Match <- MCMatch
    MaxVer <- MCOneChange
    MaxMuts <- MCOneChange

SPECIFICATION Spec
INVARIANT TypeOK
PROPERTY ChangesReachList
