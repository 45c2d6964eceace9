SPECIFICATION FairSpec
CONSTANTS
    MaxSends = 2
PROPERTY
    SendStartsWriting
