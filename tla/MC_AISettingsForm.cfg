CONSTANTS
    None = None
    MaxSaves <- MCMaxSaves

SPECIFICATION Spec
INVARIANT TypeOK
INVARIANT SerialSavesKeepFormClean
