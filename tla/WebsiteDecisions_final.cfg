\* The user's word is final, says websites.py: a cleanup can undo it.
SPECIFICATION Spec
CONSTANTS
    Requests = {r1, r2}
    AllowOnceDuration = 1
    MaxRows = 3
    MaxTime = 3
    Never = Never
    None = None
INVARIANT WordIsFinal
