SPECIFICATION Spec
CONSTANTS
    MaxBytes = 5
    MaxPlain = 5
    MaxName = 6
    MaxPairs = 3
    MaxContent = 5
INVARIANTS
    Base64RoundTrip
    DesInverts
    SuffixExact
    QueryValue
    UploadParsed
