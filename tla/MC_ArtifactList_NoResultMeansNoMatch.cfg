CONSTANTS
    raw = raw
    helm = helm
    q1 = q1
    All = All
    NoQuery = NoQuery
    EmptyQuery = EmptyQuery
    None = None
    Artifacts <- MCArtifacts
    Formats <- MCFormats
    Format <- MCFormat
    Queries <- MCQueries
    Match <- MCMatch
    Limit <- MCLimit
    MaxPage <- MCMaxPage

SPECIFICATION Spec
INVARIANT NoResultMeansNoMatch
