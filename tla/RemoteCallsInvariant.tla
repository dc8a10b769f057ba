------------------------ MODULE RemoteCallsInvariant ------------------------
(***************************************************************************)
(* The inductive invariant behind the safety properties of RemoteCalls:    *)
(* where a call is, and what its identifier stands for meanwhile.  It is   *)
(* checked here by TLC and proved in RemoteCallsProofs.                    *)
(***************************************************************************)
EXTENDS RemoteCalls

Arriving == IF step = "reading" THEN {} ELSE {received}
Answers == responses \cup Arriving
Travelling == requests \cup running \cup {m.call : m \in Answers}

\* A call is in one place: a request, with the peer, or in one answer.
OnePlace ==
    /\ requests \cap running = {}
    /\ \A c \in requests \cup running : callState[c] = "waiting"
    /\ \A m \in Answers : /\ callState[m.call] = "waiting"
                          /\ m.call \notin requests \cup running
                          /\ m.id = opID[m.call] /\ m.outcome \in {m.call, Fault}
    /\ \A m, n \in Answers : m.call = n.call => m = n
    /\ step # "reading" => received \notin responses

\* Nothing has ended the session yet.
Undisturbed ==
    ~ socketClosed =>
        /\ tableNo = 0 /\ late = {} /\ locker = NoOne
        /\ \A c \in Calls : /\ loaded[c] = 0
                            /\ callState[c] = "send" => operations[opID[c]] = c

\* An identifier stands for its call until the answer has been applied; once the
\* socket is closed, it may also be free or that of a late call.
Owned ==
    \A c \in Travelling :
        \/ operations[opID[c]] = c
        \/ socketClosed /\ operations[opID[c]] \in late \cup {NoCall}

\* What is in the table was put there under its own identifier.
Registered ==
    \A id \in IDs : operations[id] # NoCall =>
        /\ opID[operations[id]] = id
        /\ callState[operations[id]] \in {"send", "threw", "waiting"}

Scheduled ==
    \A t \in completions : t.call \in late \/ t.outcome \in {t.call, Fault}

\* The inductive invariant.
CallsInv ==
    /\ OnePlace /\ Undisturbed /\ Owned /\ Registered /\ Scheduled
    /\ AnswersAreExpected /\ ResultsAreOwn /\ OnlyOpenCallsHeld

-----------------------------------------------------------------------------
(* What is scheduled or answered is the outcome of the call itself, or the *)
(* result of another one if the call came too late for the session.        *)

Outcome(c, outcome) ==
    \/ outcome = Fault
    \/ outcome = c /\ c \in executed
    \/ outcome \in executed /\ c \in late

HasOperation(c) == callState[c] \in {"send", "threw", "waiting"}

ContractInv ==
    /\ running \subseteq executed /\ requests \cap executed = {}
    /\ (executed \cup requests) \cap late = {}
    /\ late # {} => socketClosed
    /\ \A c \in executed : callState[c] = "waiting"
    /\ \A c \in late : HasOperation(c)
    /\ \A m \in Answers : m.outcome = Fault \/ m.call \in executed
    /\ \A op \in pending : HasOperation(op.call)
    /\ \A t \in completions : HasOperation(t.call) /\ Outcome(t.call, t.outcome)
    /\ \A c \in Calls : answer[c] = NoAnswer \/ Outcome(c, answer[c])
    /\ \A c \in Calls : callState[c] \in {"idle", "load", "add"} => answer[c] = NoAnswer
=============================================================================
