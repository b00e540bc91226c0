CONSTANTS
    None = None
SPECIFICATION Spec
INVARIANT TabErrorOnlyForError
