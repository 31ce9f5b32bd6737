\* A producer repeats a send() that failed after recordEvent.
CONSTANTS
    Call = {c1, c2}
    Endpoint = {e1}
    NoEvent = none
SPECIFICATION FairSpec
PROPERTY AcceptedDurably
