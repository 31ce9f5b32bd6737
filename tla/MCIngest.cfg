\* Four calls with one key, three endpoints.
CONSTANTS
    Call = {c1, c2, c3, c4}
    Endpoint = {e1, e2, e3}
    NoEvent = none
SPECIFICATION Spec
SYMMETRY Symmetry
INVARIANTS
    FannedOutOnce
    ReceiptsAgree
    CountsAreEnqueued
    IngestInvariant
