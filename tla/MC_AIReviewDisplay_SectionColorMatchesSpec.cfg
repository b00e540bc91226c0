CONSTANTS
    None = None
SPECIFICATION Spec
INVARIANT SectionColorMatchesSpec
