CONSTANTS
    create = create
    prompt = prompt
    update = update
    Modals <- MCUpdate
    Captured <- MCUpdate
    MaxInFlight <- MCMaxInFlight

SPECIFICATION Spec
INVARIANT NoDoubleSubmit
