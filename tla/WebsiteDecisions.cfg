\* Two handlers, interleaved at every statement.
SPECIFICATION Spec
CONSTANTS
    Requests = {r1, r2}
    AllowOnceDuration = 1
    MaxRows = 3
    MaxTime = 2
    Never = Never
    None = None
INVARIANTS
    TypeOK
    BlockIsFinal
    OnceEnds
    SerialRulings
