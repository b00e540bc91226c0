CONSTANTS
    create = create
    prompt = prompt
    update = update
    Modals <- MCLive
    Captured = {}
    MaxInFlight <- MCMaxInFlight

SPECIFICATION Spec
INVARIANT TypeOK
INVARIANT NoDoubleSubmit
PROPERTY SubmitEventuallyReenabled
