CONSTANTS
    None = None
SPECIFICATION Spec
INVARIANT TypeOK
INVARIANT TitleFollowsData
PROPERTY HookColorFollowsSpec
