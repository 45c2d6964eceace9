SPECIFICATION Spec
CONSTANTS
    MaxSends = 4
INVARIANTS
    TypeOK
    AtMostOneWrite
    
    FifoUnlessRaced
