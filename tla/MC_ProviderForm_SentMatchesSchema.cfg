CONSTANTS
    Ids <- MCIds
    Inputs <- MCInputs
    Tokens <- MCTokens
    None = None
SPECIFICATION Spec
INVARIANT SentMatchesSchema
