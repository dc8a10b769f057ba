----------------------------- MODULE RemoteCalls -----------------------------
(***************************************************************************)
(* Calls on the peer's objects over one session (src/Imp/ImpClient.cs,     *)
(* src/Imp/AsynchronousNetworkOperation.cs): the caller's side with its    *)
(* table of network operations, the peer's callbacks, and disconnection.   *)
(*                                                                         *)
(* The threads are the callers; the listener, which completes operations   *)
(* without taking Locker; the datagram receiver of a client that connected *)
(* itself; and the user's thread that calls Disconnect.  Each of the last  *)
(* three may run ProcessDisconnection, under Locker.                       *)
(*                                                                         *)
(* Messages in flight are sets: the order of writing is that of a thread   *)
(* pool.  The call a message belongs to is carried along as history; the   *)
(* code has only the operation's ID.                                       *)
(***************************************************************************)
EXTENDS Identifiers

CONSTANTS
    Calls,
    Getters,             \* those made by GetRemoteProperty
    Setters,             \* those made by SetRemoteProperty and the indexers
    Receivers,           \* "listener" and, if it has one, "datagrams"
    MaximumDisconnects,  \* bound: calls of Disconnect
    NoCall, NoOne, NoAnswer, Fault

ASSUME CallsAssumption ==
    /\ Getters \subseteq Calls /\ Setters \subseteq Calls
    /\ "listener" \in Receivers /\ Receivers \subseteq {"listener", "datagrams"}
    /\ MaximumDisconnects \in Nat
    /\ NoCall \notin Calls /\ NoAnswer \notin Calls /\ Fault \notin Calls
    /\ NoAnswer # Fault
    /\ NoOne \notin {"user", "listener", "datagrams"}

Actors == {"user"} \cup Receivers

VARIABLES
    \* callers
    callState,    \* where each call is in CallRemoteMethodAsync and its like
    loaded,       \* the table it has read from CurrentNetworkOperations
    opID,         \* AsynchronousNetworkOperation.OperationID
    late,         \* history: calls registered after the socket was closed
    \* the client
    operations,   \* CurrentNetworkOperations: ID to the call of the operation
    tableNo,      \* how many times it has been replaced
    connected,    \* Connected
    socketClosed, \* InternalClient has been closed
    locker,       \* owner of Locker, when it is in ProcessDisconnection
    phase,        \* where each actor is
    pending,      \* what ProcessDisconnection has still to fail
    disconnects,  \* calls of Disconnect so far
    \* the listener
    step,         \* where it is in a Return...Callback
    received,     \* the message
    unmatched,    \* history: a callback has found its operation gone
    \* the messages and the peer
    requests, running, responses,
    executed, unanswered,
    peerGone,     \* the peer or the network has ended the connection
    \* the callers' tasks
    completions,  \* scheduled on RemoteTaskScheduler
    answer

callerVars == <<callState, loaded, opID, late>>
peerVars == <<requests, running, executed, unanswered>>
listenerVars == <<step, received, unmatched>>
disconnectVars == <<connected, socketClosed, locker, pending, disconnects>>
vars == <<callerVars, peerVars, listenerVars, disconnectVars, responses, phase,
          operations, tableNo, peerGone, completions, answer>>

UsedIDs == {id \in IDs : operations[id] # NoCall}
Message(c, outcome) == [id |-> opID[c], call |-> c, outcome |-> outcome]

Init ==
    /\ callState = [c \in Calls |-> "idle"] /\ loaded = [c \in Calls |-> 0]
    /\ opID = [c \in Calls |-> 0] /\ late = {}
    /\ operations = [id \in IDs |-> NoCall] /\ tableNo = 0
    /\ connected = TRUE /\ socketClosed = FALSE
    /\ locker = NoOne /\ pending = {} /\ disconnects = 0
    /\ phase = [a \in Actors |-> IF a = "user" THEN "idle" ELSE "running"]
    /\ step = "reading" /\ received = NoCall /\ unmatched = FALSE
    /\ requests = {} /\ running = {} /\ responses = {}
    /\ executed = {} /\ unanswered = {} /\ peerGone = FALSE
    /\ completions = {} /\ answer = [c \in Calls |-> NoAnswer]

-----------------------------------------------------------------------------
(* A call.                                                                 *)

Advance(c, state) ==
    /\ callState' = [callState EXCEPT ![c] = state]
    /\ UNCHANGED <<peerVars, listenerVars, disconnectVars, responses, phase,
                   tableNo, peerGone, completions>>

\* The accessors that set, and the indexers, ask the socket; the others ask
\* Connected.
Refuses(c) == IF c \in Setters THEN socketClosed ELSE ~ connected

\* Task.FromException, or an exception: InternalClient may be null.
Refuse(c) ==
    /\ callState[c] = "idle" /\ Refuses(c)
    /\ Advance(c, "refused")
    /\ answer' = [answer EXCEPT ![c] = Fault]
    /\ UNCHANGED <<loaded, opID, late, operations>>

BeginCall(c) ==
    /\ callState[c] = "idle" /\ ~ Refuses(c)
    /\ Advance(c, "load")
    /\ UNCHANGED <<loaded, opID, late, operations, answer>>

\* CreateNewAsynchronousNetworkOperation reads the field ...
LoadTable(c) ==
    /\ callState[c] = "load"
    /\ Advance(c, "add")
    /\ loaded' = [loaded EXCEPT ![c] = tableNo]
    /\ UNCHANGED <<opID, late, operations, answer>>

\* ... and calls Add on what it has read: nobody looks into a table that has
\* been replaced again.  With all IDs taken Add would not return.
Register(c) ==
    /\ callState[c] = "add"
    /\ Advance(c, "send")
    /\ IF loaded[c] = tableNo
         THEN /\ UsedIDs # IDs
              /\ LET id == NewID(UsedIDs) IN
                   /\ operations' = [operations EXCEPT ![id] = c]
                   /\ opID' = [opID EXCEPT ![c] = id]
         ELSE UNCHANGED <<operations, opID>>
    /\ late' = IF socketClosed THEN late \cup {c} ELSE late
    /\ UNCHANGED <<loaded, answer>>

\* The arguments cannot be serialised: the operation stays in the table.
SerializationFails(c) ==
    /\ callState[c] = "send"
    /\ Advance(c, "threw")
    /\ answer' = [answer EXCEPT ![c] = Fault]
    /\ UNCHANGED <<loaded, opID, late, operations>>

\* The message is up to a thread pool task; writing to a closed socket fails
\* there, unobserved.
Send(c) ==
    /\ callState[c] = "send"
    /\ callState' = [callState EXCEPT ![c] = "waiting"]
    /\ requests' = IF socketClosed THEN requests ELSE requests \cup {c}
    /\ UNCHANGED <<loaded, opID, late, running, executed, unanswered, listenerVars,
                   disconnectVars, responses, phase, operations, tableNo, peerGone,
                   completions, answer>>

\* A task scheduled by SetResult or SetException; the second one of an
\* operation throws, unobserved, and so may the cast of another call's result.
RunCompletion(t) ==
    /\ t \in completions
    /\ completions' = completions \ {t}
    /\ \/ answer' = IF answer[t.call] = NoAnswer
                      THEN [answer EXCEPT ![t.call] = t.outcome] ELSE answer
       \/ t.outcome \notin {t.call, Fault} /\ UNCHANGED answer
    /\ UNCHANGED <<callerVars, peerVars, listenerVars, disconnectVars, responses, phase,
                   operations, tableNo, peerGone>>

-----------------------------------------------------------------------------
(* The peer: CallRemoteMethodCallbackAsync, Get- and SetRemoteProperty-    *)
(* CallbackAsync, Get- and SetRemoteIndexerCallbackAsync.                  *)

PeerStep == UNCHANGED <<callerVars, listenerVars, disconnectVars, phase, operations,
                        tableNo, peerGone, completions, answer>>

\* HeldObjects does not contain the target.
RefuseTarget(c) ==
    /\ c \in requests
    /\ requests' = requests \ {c}
    /\ responses' = responses \cup {Message(c, Fault)}
    /\ UNCHANGED <<running, executed, unanswered>>
    /\ PeerStep

\* The method or accessor is started on the peer's RemoteTaskScheduler.
Execute(c) ==
    /\ c \in requests
    /\ requests' = requests \ {c} /\ running' = running \cup {c}
    /\ executed' = executed \cup {c}
    /\ UNCHANGED <<responses, unanswered>>
    /\ PeerStep

\* mutant: the handler answers for a failure after it has answered
RespondTwice(c) ==
    /\ c \in running
    /\ running' = running \ {c}
    /\ responses' = responses \cup {Message(c, c), Message(c, Fault)}
    /\ UNCHANGED <<requests, executed, unanswered>>
    /\ PeerStep

\* It ends: its result, or the exception it or the serializer threw.
Respond(c) ==
    /\ c \in running
    /\ running' = running \ {c}
    /\ \E outcome \in {c, Fault} : responses' = responses \cup {Message(c, outcome)}
    /\ UNCHANGED <<requests, executed, unanswered>>
    /\ PeerStep

\* A property's value cannot be serialised: GetRemotePropertyCallbackAsync
\* sends it outside the try block, and the exception is nobody's.
LoseAnswer(c) ==
    /\ c \in running \cap Getters
    /\ running' = running \ {c}
    /\ unanswered' = unanswered \cup {c}
    /\ UNCHANGED <<requests, executed, responses>>
    /\ PeerStep

PeerLeaves ==
    /\ ~ peerGone /\ peerGone' = TRUE
    /\ UNCHANGED <<callerVars, peerVars, listenerVars, disconnectVars, responses, phase,
                   operations, tableNo, completions, answer>>

-----------------------------------------------------------------------------
(* The listener: ReturnRemoteMethodCallback, ReturnRemotePropertyCallback, *)
(* ReturnRemoteIndexerCallback.                                            *)

Listens == UNCHANGED <<callerVars, peerVars, disconnectVars, tableNo, peerGone, answer>>

Receive(m) ==
    /\ phase["listener"] = "running" /\ step = "reading"
    /\ ~ socketClosed /\ m \in responses
    /\ responses' = responses \ {m}
    /\ received' = m /\ step' = "received"
    /\ UNCHANGED <<unmatched, phase, operations, completions>>
    /\ Listens

\* The exception leaves the listener's loop.
OperationGone ==
    /\ operations[received.id] = NoCall
    /\ unmatched' = TRUE
    /\ step' = "reading" /\ received' = NoCall
    /\ phase' = [phase EXCEPT !["listener"] = "failed"]
    /\ UNCHANGED <<responses, operations, completions>>
    /\ Listens

\* CurrentNetworkOperations[id] throws KeyNotFoundException.
CompleteNothing == step = "received" /\ OperationGone

\* SetResult or SetException schedules the completion ...
Complete ==
    /\ step = "received" /\ operations[received.id] # NoCall
    /\ completions' = completions \cup
         {[call |-> operations[received.id], outcome |-> received.outcome]}
    /\ step' = "completing"
    /\ UNCHANGED <<received, unmatched, responses, phase, operations>>
    /\ Listens

\* ... and calls OnCompletion, which removes the ID from the table there is by
\* now; Remove throws if the ID is absent.
RemoveNothing == step = "completing" /\ OperationGone

RemoveOperation ==
    /\ step = "completing" /\ operations[received.id] # NoCall
    /\ operations' = [operations EXCEPT ![received.id] = NoCall]
    /\ step' = "reading" /\ received' = NoCall
    /\ UNCHANGED <<unmatched, responses, phase, completions>>
    /\ Listens

\* Reading fails, or handling a message of another kind does.
ReceiverFails(a) ==
    /\ a \in Receivers /\ phase[a] = "running"
    /\ a = "listener" => step = "reading"
    /\ phase' = [phase EXCEPT ![a] = "failed"]
    /\ UNCHANGED <<listenerVars, responses, operations, completions>>
    /\ Listens

-----------------------------------------------------------------------------
(* ProcessDisconnection, under Locker.                                     *)

Disconnects == UNCHANGED <<callerVars, peerVars, listenerVars, responses, peerGone, answer>>

StartsDisconnection(a) ==
    /\ locker = NoOne /\ locker' = a
    /\ \/ a = "user" /\ disconnects < MaximumDisconnects /\ disconnects' = disconnects + 1
       \/ a \in Receivers /\ phase[a] = "failed" /\ UNCHANGED disconnects
    /\ phase' = [phase EXCEPT ![a] = "failing"]

Snapshot == {[id |-> id, call |-> operations[id]] : id \in UsedIDs}

\* mutant: the socket is left open
BeginWithOpenSocket(a) ==
    /\ StartsDisconnection(a)
    /\ pending' = Snapshot
    /\ UNCHANGED <<socketClosed, connected, operations, tableNo, completions>>
    /\ Disconnects

\* mutant: the operations are forgotten
BeginWithoutSnapshot(a) ==
    /\ StartsDisconnection(a)
    /\ socketClosed' = TRUE /\ pending' = {}
    /\ UNCHANGED <<connected, operations, tableNo, completions>>
    /\ Disconnects

\* mutant: the table is replaced before its operations are failed
BeginWithNewTable(a) ==
    /\ StartsDisconnection(a)
    /\ socketClosed' = TRUE /\ pending' = Snapshot
    /\ operations' = [id \in IDs |-> NoCall] /\ tableNo' = tableNo + 1
    /\ UNCHANGED <<connected, completions>>
    /\ Disconnects

\* The socket is closed, and Values is a snapshot.
BeginDisconnection(a) ==
    /\ StartsDisconnection(a)
    /\ socketClosed' = TRUE /\ pending' = Snapshot
    /\ UNCHANGED <<connected, operations, tableNo, completions>>
    /\ Disconnects

\* SetException on an operation of the snapshot schedules its completion and
\* removes its ID.  If that is absent by now the exception leaves Disconnect, or
\* the catch block of a receiver: nobody catches it there.
FailOperation(a) ==
    /\ locker = a /\ phase[a] = "failing"
    /\ \E op \in pending :
         /\ completions' = completions \cup {[call |-> op.call, outcome |-> Fault]}
         /\ IF operations[op.id] = NoCall
              THEN /\ pending' = {} /\ locker' = NoOne
                   /\ phase' = [phase EXCEPT ![a] = IF a = "user" THEN "idle" ELSE "crashed"]
                   /\ UNCHANGED operations
              ELSE /\ pending' = pending \ {op}
                   /\ operations' = [operations EXCEPT ![op.id] = NoCall]
                   /\ UNCHANGED <<locker, phase>>
    /\ UNCHANGED <<connected, socketClosed, disconnects, tableNo>>
    /\ Disconnects

ReplaceTable(a) ==
    /\ locker = a /\ phase[a] = "failing" /\ pending = {}
    /\ operations' = [id \in IDs |-> NoCall] /\ tableNo' = tableNo + 1
    /\ phase' = [phase EXCEPT ![a] = "replaced"]
    /\ UNCHANGED <<disconnectVars, completions>>
    /\ Disconnects

EndDisconnection(a) ==
    /\ locker = a /\ phase[a] = "replaced"
    /\ connected' = FALSE /\ locker' = NoOne
    /\ phase' = [phase EXCEPT ![a] = IF a = "user" THEN "idle" ELSE "ended"]
    /\ UNCHANGED <<socketClosed, pending, disconnects, operations, tableNo, completions>>
    /\ Disconnects

-----------------------------------------------------------------------------
Crashed == \E a \in Receivers : phase[a] = "crashed"

Caller(c) == \/ LoadTable(c) \/ Register(c) \/ SerializationFails(c) \/ Send(c)
Peer(c) == RefuseTarget(c) \/ Execute(c) \/ Respond(c) \/ LoseAnswer(c)
Callback == \/ \E m \in responses : Receive(m)
            \/ CompleteNothing \/ Complete \/ RemoveNothing \/ RemoveOperation
Disconnection(a) == \/ FailOperation(a) \/ ReplaceTable(a) \/ EndDisconnection(a)

Next ==
    /\ ~ Crashed
    /\ \/ \E c \in Calls : Refuse(c) \/ BeginCall(c) \/ Caller(c) \/ Peer(c)
       \/ \E t \in completions : RunCompletion(t)
       \/ PeerLeaves \/ Callback
       \/ \E a \in Actors : ReceiverFails(a) \/ BeginDisconnection(a) \/ Disconnection(a)

Spec == Init /\ [][Next]_vars

\* Threads and scheduled tasks that can go on do; the peer does while the
\* connection lasts, and the end of the connection is noticed.
FairSpec ==
    /\ Spec
    /\ \A c \in Calls : /\ WF_vars(Caller(c))
                        /\ WF_vars(~ socketClosed /\ ~ peerGone /\ Peer(c))
    /\ WF_vars(\E t \in completions : RunCompletion(t))
    /\ WF_vars(Callback)
    /\ \A a \in Receivers :
          /\ WF_vars((socketClosed \/ peerGone) /\ ReceiverFails(a))
          /\ WF_vars(a # "user" /\ BeginDisconnection(a))
    /\ \A a \in Actors : WF_vars(Disconnection(a))
-----------------------------------------------------------------------------
Outcomes == Calls \cup {Fault}

\* The type invariant.
TypeOK ==
    /\ callState \in [Calls -> {"idle", "refused", "load", "add", "send", "threw", "waiting"}]
    /\ loaded \in [Calls -> Nat] /\ opID \in [Calls -> IDs] /\ late \subseteq Calls
    /\ operations \in [IDs -> Calls \cup {NoCall}] /\ tableNo \in Nat
    /\ connected \in BOOLEAN /\ socketClosed \in BOOLEAN
    /\ locker \in Actors \cup {NoOne} /\ disconnects \in Nat
    /\ pending \subseteq [id : IDs, call : Calls]
    /\ phase \in [Actors -> {"idle", "running", "failed", "failing", "replaced",
                             "ended", "crashed"}]
    /\ step \in {"reading", "received", "completing"} /\ unmatched \in BOOLEAN
    /\ IF step = "reading" THEN received = NoCall
         ELSE received \in [id : IDs, call : Calls, outcome : Outcomes]
    /\ requests \subseteq Calls /\ running \subseteq Calls
    /\ responses \subseteq [id : IDs, call : Calls, outcome : Outcomes]
    /\ executed \subseteq Calls /\ unanswered \subseteq Calls /\ peerGone \in BOOLEAN
    /\ completions \subseteq [call : Calls, outcome : Outcomes]
    /\ answer \in [Calls -> Outcomes \cup {NoAnswer}]

\* As long as nobody has closed the socket, every answer that arrives finds its
\* operation in the table: the Return...Callbacks do not end the connection.
AnswersAreExpected == unmatched => socketClosed

\* A call registered while the socket was open gets its own result or a fault,
\* whatever identifiers are reused and whoever disconnects.
ResultsAreOwn == \A c \in Calls \ late : answer[c] \in {NoAnswer, Fault, c}

\* While the socket is open, the operations in the table are those of calls that
\* can still be answered: all others have left it, except those whose message
\* could not be serialised and gets whose value could not be.
OnlyOpenCallsHeld ==
    ~ socketClosed => \A id \in IDs : operations[id] # NoCall =>
        LET c == operations[id] IN
        \/ callState[c] \in {"send", "threw"}
        \/ c \in requests \cup running \cup unanswered
        \/ \E m \in responses : m.call = c
        \/ step # "reading" /\ received.call = c

\* What the listener catches ends in ProcessDisconnection and the callbacks that
\* tell of it, whoever else disconnects meanwhile: as nobody but the listener
\* completes operations outside Locker, no exception leaves its catch block.  The
\* receiver of datagrams has no such promise (RunCommunications,
\* ProcessDisconnection).
ListenerFailuresAreHandled == phase["listener"] # "crashed"

\* A call registered while the socket was open is answered in the end, unless it
\* is a get whose value the peer could not serialise, or the process has ended.
CallsAreSettled ==
    \A c \in Calls :
        callState[c] = "waiting" ~> \/ answer[c] # NoAnswer
                                    \/ c \in unanswered \cup late
                                    \/ Crashed

\* Whoever ends the session, and whichever identifiers are reused, every call gets
\* what the contract says: run at most once, ended at most once, with its own
\* result or a fault, unless it was registered while the session was being ended
\* (CallRemoteMethodAsync and its like, the Return...Callbacks,
\* ProcessDisconnection).
\* The caller has the task, and so its outcome, once the message is sent.
Contract == INSTANCE RemoteCallContract
    WITH made <- {c \in Calls : callState[c] # "idle"}, ended <- socketClosed,
         answer <- [c \in Calls |-> IF callState[c] = "send" THEN NoAnswer ELSE answer[c]]
ImplementsContract == Contract!Spec
=============================================================================
