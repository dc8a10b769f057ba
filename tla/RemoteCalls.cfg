\* A get and a set over two identifiers, in a client that has connected itself;
\* Disconnect may come at any time.
SPECIFICATION FairSpec
CONSTANTS
    Capacity = 2
    Calls = {c1, c2}
    Getters = {c1}
    Setters = {c2}
    Receivers = {"listener", "datagrams"}
    MaximumDisconnects = 1
    NoCall = NoCall
    NoOne = NoOne
    NoAnswer = NoAnswer
    Fault = Fault
INVARIANTS CallsInv AnswersAreExpected ListenerFailuresAreHandled
PROPERTIES CallsAreSettled ImplementsContract
CHECK_DEADLOCK FALSE
