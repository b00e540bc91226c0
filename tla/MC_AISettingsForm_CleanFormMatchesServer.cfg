CONSTANTS
    None = None
    MaxSaves <- MCMaxSaves

SPECIFICATION Spec
INVARIANT CleanFormMatchesServer
