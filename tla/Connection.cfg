\* A client that connects up to twice, while a thread sends, and
\* Disconnect is called twice, each at any time.
CONSTANTS
    MaxAttempts = 2
    MaxDisconnects = 2
    Senders = {t1}
    Client = Client
    Shared = Shared
SPECIFICATION FairSpec
CHECK_DEADLOCK FALSE
INVARIANTS
    SessionIsWhole
    ClientIsAtZero
PROPERTIES
    SoundSessionsLast
    BrokenSessionsEnd
