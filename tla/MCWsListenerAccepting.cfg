SPECIFICATION Spec
CONSTANT
    MaxSessions = 2
INVARIANT
    IsAcceptingIsTrue
