-------------------------- MODULE RemoteCallsProofs --------------------------
(***************************************************************************)
(* For every number of calls, identifiers and disconnections: CallsInv is  *)
(* an invariant of RemoteCalls, and with it the safety properties of the   *)
(* table of operations; the failures of the listener are handled; and      *)
(* RemoteCalls implements RemoteCallContract.                              *)
(***************************************************************************)
EXTENDS RemoteCallsInvariant, IdentifierTheorems

USE CapacityAssumption, CallsAssumption

LEMMA FreshID ==
    ASSUME TypeOK, UsedIDs # IDs
    PROVE  NewID(UsedIDs) \in IDs /\ operations[NewID(UsedIDs)] = NoCall
<1>1. UsedIDs \subseteq IDs
  BY DEF UsedIDs
<1>2. NewID(UsedIDs) \in IDs \ UsedIDs
  BY <1>1, NewIDIsFree
<1> QED
  BY <1>2 DEF UsedIDs

LEMMA SnapshotType == TypeOK => Snapshot \subseteq [id : IDs, call : Calls]
BY DEF TypeOK, Snapshot, UsedIDs

-----------------------------------------------------------------------------
(* Type correctness.                                                       *)

LEMMA InitTypeOK == Init => TypeOK
<1> SUFFICES ASSUME Init PROVE TypeOK
  OBVIOUS
<1>1. 0 \in IDs
  BY DEF IDs
<1> QED
  BY <1>1 DEF Init, TypeOK, Actors, Outcomes

LEMMA TypeStep == TypeOK /\ [Next]_vars => TypeOK'
<1> SUFFICES ASSUME TypeOK, [Next]_vars PROVE TypeOK'
  OBVIOUS
<1> USE DEF TypeOK, Outcomes
<1>1. ASSUME NEW c \in Calls, Refuse(c) \/ BeginCall(c) \/ LoadTable(c) \/ SerializationFails(c)
      PROVE  TypeOK'
  BY <1>1 DEF Refuse, BeginCall, LoadTable, SerializationFails, Advance, peerVars,
              listenerVars, disconnectVars
<1>2. ASSUME NEW c \in Calls, Register(c) PROVE TypeOK'
  BY <1>2, FreshID DEF Register, Advance, peerVars, listenerVars, disconnectVars
<1>3. ASSUME NEW c \in Calls, Send(c) PROVE TypeOK'
  BY <1>3 DEF Send, listenerVars, disconnectVars
<1>4. ASSUME NEW t \in completions, RunCompletion(t) PROVE TypeOK'
  BY <1>4 DEF RunCompletion, callerVars, peerVars, listenerVars, disconnectVars
<1>5. ASSUME NEW c \in Calls, Peer(c) PROVE TypeOK'
  <2> USE DEF PeerStep, callerVars, listenerVars, disconnectVars
  <2>1. \A outcome \in Calls \cup {Fault} :
           Message(c, outcome) \in [id : IDs, call : Calls, outcome : Calls \cup {Fault}]
    BY DEF Message
  <2>2. CASE RefuseTarget(c) \/ Respond(c)
    BY <2>1, <2>2 DEF RefuseTarget, Respond
  <2>3. CASE Execute(c) \/ LoseAnswer(c)
    BY <2>3 DEF Execute, LoseAnswer
  <2> QED
    BY <1>5, <2>2, <2>3 DEF Peer
<1>6. CASE PeerLeaves
  BY <1>6 DEF PeerLeaves, callerVars, peerVars, listenerVars, disconnectVars
<1>7. CASE Callback
  <2> USE DEF OperationGone, Listens, callerVars, peerVars, disconnectVars
  <2>1. ASSUME NEW m \in responses, Receive(m) PROVE TypeOK'
    BY <2>1 DEF Receive
  <2>2. CASE CompleteNothing \/ RemoveNothing \/ RemoveOperation
    BY <2>2 DEF CompleteNothing, RemoveNothing, RemoveOperation
  <2>3. CASE Complete
    <3>1. [call |-> operations[received.id], outcome |-> received.outcome]
             \in [call : Calls, outcome : Calls \cup {Fault}]
      BY <2>3 DEF Complete
    <3> QED
      BY <2>3, <3>1 DEF Complete
  <2> QED
    BY <1>7, <2>1, <2>2, <2>3 DEF Callback
<1>8. ASSUME NEW a \in Actors, ReceiverFails(a) PROVE TypeOK'
  BY <1>8 DEF ReceiverFails, Listens, callerVars, peerVars, disconnectVars, listenerVars
<1>9. ASSUME NEW a \in Actors, BeginDisconnection(a) PROVE TypeOK'
  <2> USE <1>9 DEF BeginDisconnection, Disconnects, callerVars, peerVars, listenerVars
  <2>1. pending' \subseteq [id : IDs, call : Calls]
    BY SnapshotType
  <2>2. /\ locker' \in Actors \cup {NoOne} /\ disconnects' \in Nat
        /\ phase' \in [Actors -> {"idle", "running", "failed", "failing", "replaced",
                                 "ended", "crashed"}]
    BY DEF StartsDisconnection
  <2> QED
    BY <2>1, <2>2
<1>10. ASSUME NEW a \in Actors, FailOperation(a) PROVE TypeOK'
  BY <1>10 DEF FailOperation, Disconnects, callerVars, peerVars, listenerVars
<1>11. ASSUME NEW a \in Actors, ReplaceTable(a) \/ EndDisconnection(a) PROVE TypeOK'
  <2> USE DEF Disconnects, callerVars, peerVars, listenerVars
  <2>1. CASE ReplaceTable(a)
    BY <2>1 DEF ReplaceTable, disconnectVars
  <2>2. CASE EndDisconnection(a)
    BY <2>2 DEF EndDisconnection
  <2> QED
    BY <1>11, <2>1, <2>2
<1>12. CASE UNCHANGED vars
  BY <1>12 DEF vars, callerVars, peerVars, listenerVars, disconnectVars
<1> QED
  BY <1>1, <1>2, <1>3, <1>4, <1>5, <1>6, <1>7, <1>8, <1>9, <1>10, <1>11, <1>12
  DEF Next, Caller, Disconnection

\* In every state the variables have their types; for instance the listener
\* holds a message exactly when it is inside a callback.
THEOREM TypeCorrect == Spec => []TypeOK
  BY InitTypeOK, TypeStep, PTL DEF Spec
-----------------------------------------------------------------------------
(* The invariant, action by action.                                        *)

LEMMA InitInv == Init => CallsInv
BY DEF Init, CallsInv, OnePlace, Undisturbed, Owned, Registered, Scheduled,
       AnswersAreExpected, ResultsAreOwn, OnlyOpenCallsHeld, Answers, Arriving, Travelling

\* A caller's steps before it sends.
LEMMA CallKeeps ==
    ASSUME TypeOK, CallsInv, NEW c \in Calls,
           Refuse(c) \/ BeginCall(c) \/ LoadTable(c) \/ SerializationFails(c)
    PROVE  CallsInv'
<1> USE DEF TypeOK, CallsInv, Refuse, BeginCall, LoadTable, SerializationFails, Advance,
            peerVars, listenerVars, disconnectVars
<1>1. OnePlace'
  BY DEF OnePlace, Answers, Arriving
<1>2. Undisturbed'
  BY DEF Undisturbed
<1>3. Owned'
  BY DEF Owned, Travelling, Answers, Arriving
<1>4. Registered'
  BY DEF Registered
<1>5. Scheduled' /\ AnswersAreExpected' /\ ResultsAreOwn'
  BY DEF Scheduled, AnswersAreExpected, ResultsAreOwn
<1>6. OnlyOpenCallsHeld'
  BY DEF OnlyOpenCallsHeld, Registered
<1> QED
  BY <1>1, <1>2, <1>3, <1>4, <1>5, <1>6

LEMMA RegisterKeeps ==
    ASSUME TypeOK, CallsInv, NEW c \in Calls, Register(c)
    PROVE  CallsInv'
<1> USE DEF TypeOK, CallsInv, Register, Advance, peerVars, listenerVars, disconnectVars
<1>a. c \notin Travelling
  BY DEF OnePlace, Travelling
<1>b. \A id \in IDs : operations[id] # c
  BY DEF Registered
<1>c. ~ socketClosed => loaded[c] = tableNo
  BY DEF Undisturbed
<1>d. CASE loaded[c] # tableNo
  <2> USE <1>d
  <2>1. OnePlace' /\ Owned'
    BY DEF OnePlace, Owned, Travelling, Answers, Arriving
  <2>2. Undisturbed' /\ Registered'
    BY <1>c DEF Undisturbed, Registered
  <2>3. Scheduled' /\ AnswersAreExpected' /\ ResultsAreOwn'
    BY DEF Scheduled, AnswersAreExpected, ResultsAreOwn
  <2>4. OnlyOpenCallsHeld'
    BY <1>c DEF OnlyOpenCallsHeld
  <2> QED
    BY <2>1, <2>2, <2>3, <2>4
<1>e. CASE loaded[c] = tableNo
  <2> DEFINE id == NewID(UsedIDs)
  <2>0. /\ id \in IDs /\ operations[id] = NoCall
        /\ operations' = [operations EXCEPT ![id] = c] /\ opID' = [opID EXCEPT ![c] = id]
    BY <1>e, FreshID
  <2> HIDE DEF id
  <2>1. OnePlace'
    BY <1>a, <2>0 DEF OnePlace, Travelling, Answers, Arriving
  <2>2. Undisturbed'
    BY <2>0 DEF Undisturbed
  <2>3. Owned'
    BY <1>a, <2>0 DEF Owned, Travelling, Answers, Arriving
  <2>4. Registered'
    BY <1>b, <2>0 DEF Registered
  <2>5. Scheduled' /\ AnswersAreExpected' /\ ResultsAreOwn'
    BY DEF Scheduled, AnswersAreExpected, ResultsAreOwn
  <2>6. OnlyOpenCallsHeld'
    BY <1>b, <2>0 DEF OnlyOpenCallsHeld
  <2> QED
    BY <2>1, <2>2, <2>3, <2>4, <2>5, <2>6
<1> QED
  BY <1>d, <1>e

LEMMA SendKeeps ==
    ASSUME TypeOK, CallsInv, NEW c \in Calls, Send(c)
    PROVE  CallsInv'
<1> USE DEF TypeOK, CallsInv, Send, listenerVars, disconnectVars
<1>1. OnePlace'
  BY DEF OnePlace, Answers, Arriving
<1>2. Undisturbed'
  BY DEF Undisturbed
<1>3. Owned'
  BY DEF Owned, Undisturbed, Travelling, Answers, Arriving
<1>4. Registered'
  BY DEF Registered
<1>5. Scheduled' /\ AnswersAreExpected' /\ ResultsAreOwn'
  BY DEF Scheduled, AnswersAreExpected, ResultsAreOwn
<1>6. OnlyOpenCallsHeld'
  BY DEF OnlyOpenCallsHeld
<1> QED
  BY <1>1, <1>2, <1>3, <1>4, <1>5, <1>6

LEMMA CompletionKeeps ==
    ASSUME TypeOK, CallsInv, NEW t \in completions, RunCompletion(t)
    PROVE  CallsInv'
<1> USE DEF TypeOK, CallsInv, RunCompletion, callerVars, peerVars, listenerVars,
            disconnectVars
<1>1. OnePlace' /\ Owned'
  BY DEF OnePlace, Owned, Travelling, Answers, Arriving
<1>2. Undisturbed' /\ Registered'
  BY DEF Undisturbed, Registered
<1>3. Scheduled' /\ AnswersAreExpected'
  BY DEF Scheduled, AnswersAreExpected
<1>4. ResultsAreOwn'
  BY DEF Scheduled, ResultsAreOwn
<1>5. OnlyOpenCallsHeld'
  BY DEF OnlyOpenCallsHeld
<1> QED
  BY <1>1, <1>2, <1>3, <1>4, <1>5
\* The peer moves a call on, from a request to an answer.
LEMMA PeerKeeps ==
    ASSUME TypeOK, CallsInv, NEW c \in Calls, Peer(c)
    PROVE  CallsInv'
<1> USE DEF TypeOK, CallsInv, PeerStep, callerVars, listenerVars, disconnectVars
<1>1. Undisturbed' /\ Registered' /\ Scheduled' /\ AnswersAreExpected' /\ ResultsAreOwn'
  BY DEF Peer, RefuseTarget, Execute, Respond, LoseAnswer, Undisturbed, Registered, Scheduled,
         AnswersAreExpected, ResultsAreOwn
<1>2. CASE RefuseTarget(c) \/ Respond(c)
  <2>1. PICK outcome \in {c, Fault} : responses' = responses \cup {Message(c, outcome)}
    BY <1>2 DEF RefuseTarget, Respond
  <2> DEFINE msg == [id |-> opID[c], call |-> c, outcome |-> outcome]
  <2>2. /\ responses' = responses \cup {msg}
        /\ requests' \cup running' = (requests \cup running) \ {c}
        /\ c \in requests \cup running /\ requests' \cap running' = {}
        /\ requests' \subseteq requests /\ running' \subseteq running
    BY <1>2, <2>1 DEF RefuseTarget, Respond, OnePlace, Message
  <2>3. UNCHANGED <<callState, opID, late, operations, received, step, socketClosed, unanswered>>
    BY <1>2 DEF RefuseTarget, Respond
  <2>4. msg.call = c /\ msg.id = opID[c] /\ msg.outcome \in {c, Fault}
    BY <2>1
  <2> HIDE DEF msg
  <2>5. OnePlace'
    BY <2>2, <2>3, <2>4 DEF OnePlace, Answers, Arriving
  <2>6. Owned'
    BY <2>2, <2>3, <2>4 DEF Owned, Travelling, Answers, Arriving
  <2>7. OnlyOpenCallsHeld'
    BY <2>2, <2>3, <2>4 DEF OnlyOpenCallsHeld
  <2> QED
    BY <1>1, <2>5, <2>6, <2>7
<1>3. CASE Execute(c) \/ LoseAnswer(c)
  <2> USE <1>3 DEF Execute, LoseAnswer
  <2>1. OnePlace'
    BY DEF OnePlace, Answers, Arriving
  <2>2. Owned'
    BY DEF Owned, Travelling, Answers, Arriving
  <2>3. OnlyOpenCallsHeld'
    BY DEF OnlyOpenCallsHeld
  <2> QED
    BY <1>1, <2>1, <2>2, <2>3
<1> QED
  BY <1>2, <1>3 DEF Peer

\* What the listener is doing concerns a call whose operation is its own, or is
\* gone or late after the socket was closed.
LEMMA ReceivedOwned ==
    ASSUME TypeOK, CallsInv, step # "reading"
    PROVE  /\ received.call \in Calls /\ received.id \in IDs
           /\ received.outcome \in {received.call, Fault}
           /\ \/ operations[received.id] = received.call
              \/ socketClosed /\ operations[received.id] \in late \cup {NoCall}
<1>1. received \in Answers
  BY DEF Answers, Arriving
<1>2. received.id = opID[received.call] /\ received.outcome \in {received.call, Fault}
  BY <1>1 DEF CallsInv, OnePlace
<1>3. received.call \in Travelling
  BY <1>1 DEF Travelling
<1> QED
  BY <1>2, <1>3 DEF CallsInv, Owned, TypeOK

LEMMA ReceiveKeeps ==
    ASSUME TypeOK, CallsInv, NEW msg \in responses, Receive(msg)
    PROVE  CallsInv'
<1> USE DEF TypeOK, CallsInv, Receive, Listens, callerVars, peerVars, disconnectVars
<1>1. Answers' = Answers
  BY DEF Answers, Arriving
<1>2. OnePlace' /\ Owned'
  BY <1>1 DEF OnePlace, Owned, Travelling
<1>3. Undisturbed' /\ Registered'
  BY DEF Undisturbed, Registered
<1>4. Scheduled' /\ AnswersAreExpected' /\ ResultsAreOwn'
  BY DEF Scheduled, AnswersAreExpected, ResultsAreOwn
<1>5. OnlyOpenCallsHeld'
  BY DEF OnlyOpenCallsHeld
<1> QED
  BY <1>2, <1>3, <1>4, <1>5

\* The listener does not find the operation: the socket has been closed.
LEMMA OperationGoneKeeps ==
    ASSUME TypeOK, CallsInv, step # "reading", OperationGone
    PROVE  CallsInv'
<1> USE DEF TypeOK, CallsInv, OperationGone, Listens, callerVars, peerVars, disconnectVars
<1>1. socketClosed
  BY ReceivedOwned
<1>2. Answers' = responses /\ Answers' \subseteq Answers
  BY DEF Answers, Arriving
<1>3. OnePlace'
  BY <1>2 DEF OnePlace
<1>4. Owned'
  BY <1>2 DEF Owned, Travelling
<1>5. Undisturbed' /\ Registered' /\ Scheduled' /\ ResultsAreOwn'
  BY DEF Undisturbed, Registered, Scheduled, ResultsAreOwn
<1>6. AnswersAreExpected' /\ OnlyOpenCallsHeld'
  BY <1>1 DEF AnswersAreExpected, OnlyOpenCallsHeld
<1> QED
  BY <1>3, <1>4, <1>5, <1>6

LEMMA CompleteKeeps ==
    ASSUME TypeOK, CallsInv, Complete
    PROVE  CallsInv'
<1> USE DEF TypeOK, CallsInv, Complete, Listens, callerVars, peerVars, disconnectVars
<1>1. Scheduled'
  BY ReceivedOwned DEF Scheduled
<1>2. Answers' = Answers
  BY DEF Answers, Arriving
<1>3. OnePlace' /\ Owned'
  BY <1>2 DEF OnePlace, Owned, Travelling
<1>4. Undisturbed' /\ Registered' /\ AnswersAreExpected' /\ ResultsAreOwn'
  BY DEF Undisturbed, Registered, AnswersAreExpected, ResultsAreOwn
<1>5. OnlyOpenCallsHeld'
  BY DEF OnlyOpenCallsHeld
<1> QED
  BY <1>1, <1>3, <1>4, <1>5

LEMMA RemoveKeeps ==
    ASSUME TypeOK, CallsInv, RemoveOperation
    PROVE  CallsInv'
<1> USE DEF TypeOK, CallsInv, RemoveOperation, Listens, callerVars, peerVars, disconnectVars
<1> DEFINE id == received.id
           done == received.call
<1>1. /\ id \in IDs /\ id = opID[done] /\ done \in Calls
      /\ \/ operations[id] = done \/ socketClosed
      /\ operations' = [operations EXCEPT ![id] = NoCall]
  BY ReceivedOwned DEF OnePlace, Answers, Arriving
<1>2. Answers' = responses /\ Answers' \subseteq Answers
  BY DEF Answers, Arriving
<1>3. done \notin Travelling'
  BY <1>2 DEF OnePlace, Travelling, Answers, Arriving
<1>4. Travelling' \subseteq Travelling
  BY <1>2 DEF Travelling
<1> HIDE DEF id, done
<1>5. OnePlace'
  BY <1>2 DEF OnePlace
<1>6. Owned'
  BY <1>1, <1>3, <1>4 DEF Owned, Undisturbed
<1>7. Undisturbed' /\ Registered'
  BY <1>1 DEF Undisturbed, Registered, OnePlace, Answers, Arriving, done
<1>8. Scheduled' /\ AnswersAreExpected' /\ ResultsAreOwn'
  BY DEF Scheduled, AnswersAreExpected, ResultsAreOwn
<1>9. OnlyOpenCallsHeld'
  BY <1>1 DEF OnlyOpenCallsHeld, Registered, done
<1> QED
  BY <1>5, <1>6, <1>7, <1>8, <1>9

LEMMA CallbackKeeps ==
    ASSUME TypeOK, CallsInv, Callback
    PROVE  CallsInv'
<1>1. CompleteNothing \/ RemoveNothing => step # "reading" /\ OperationGone
  BY DEF CompleteNothing, RemoveNothing
<1> QED
  BY <1>1, ReceiveKeeps, OperationGoneKeeps, CompleteKeeps, RemoveKeeps DEF Callback

\* A receiver fails, or the peer leaves.
LEMMA FailureKeeps ==
    ASSUME TypeOK, CallsInv, PeerLeaves \/ \E a \in Actors : ReceiverFails(a)
    PROVE  CallsInv'
<1>1. UNCHANGED <<callerVars, requests, running, responses, unanswered, socketClosed, locker,
                  tableNo, listenerVars, operations, completions, answer>>
  BY DEF PeerLeaves, ReceiverFails, Listens, peerVars, disconnectVars
<1> QED
  BY <1>1 DEF CallsInv, OnePlace, Undisturbed, Owned, Registered, Scheduled, AnswersAreExpected,
         ResultsAreOwn, OnlyOpenCallsHeld, Answers, Arriving, Travelling, callerVars, listenerVars

-----------------------------------------------------------------------------
(* ProcessDisconnection.                                                   *)

\* Whatever it does to the table and to the completions happens with the socket
\* closed: it frees identifiers and schedules faults.
LEMMA DisconnectionKeeps ==
    ASSUME TypeOK, CallsInv, Disconnects, socketClosed',
           \A id \in IDs : operations'[id] \in {operations[id], NoCall},
           \A t \in completions' : t \in completions \/ t.outcome = Fault
    PROVE  CallsInv'
<1> USE DEF TypeOK, CallsInv, Disconnects, callerVars, peerVars, listenerVars
<1>1. OnePlace'
  BY DEF OnePlace, Answers, Arriving
<1>2. Undisturbed' /\ AnswersAreExpected' /\ OnlyOpenCallsHeld'
  BY DEF Undisturbed, AnswersAreExpected, OnlyOpenCallsHeld
<1>3. Owned'
  BY DEF Owned, Travelling, Answers, Arriving, OnePlace
<1>4. Registered'
  BY DEF Registered
<1>5. Scheduled' /\ ResultsAreOwn'
  BY DEF Scheduled, ResultsAreOwn
<1> QED
  BY <1>1, <1>2, <1>3, <1>4, <1>5

LEMMA DisconnectsKeeps ==
    ASSUME TypeOK, CallsInv, NEW a \in Actors, BeginDisconnection(a) \/ Disconnection(a)
    PROVE  CallsInv'
<1>0. locker # NoOne => socketClosed
  BY DEF CallsInv, Undisturbed
<1>n. a # NoOne
  BY DEF Actors
<1>1. CASE BeginDisconnection(a)
  BY <1>1, DisconnectionKeeps DEF BeginDisconnection
<1>2. CASE FailOperation(a)
  <2>1. socketClosed'
    BY <1>0, <1>n, <1>2 DEF FailOperation
  <2>2. \A id \in IDs : operations'[id] \in {operations[id], NoCall}
    BY <1>2 DEF FailOperation, TypeOK
  <2>3. \A t \in completions' : t \in completions \/ t.outcome = Fault
    BY <1>2 DEF FailOperation
  <2> QED
    BY <1>2, <2>1, <2>2, <2>3, DisconnectionKeeps DEF FailOperation
<1>3. CASE ReplaceTable(a)
  BY <1>0, <1>n, <1>3, DisconnectionKeeps DEF ReplaceTable, disconnectVars
<1>4. CASE EndDisconnection(a)
  BY <1>0, <1>n, <1>4, DisconnectionKeeps DEF EndDisconnection
<1> QED
  BY <1>1, <1>2, <1>3, <1>4 DEF Disconnection

LEMMA InvStep == TypeOK /\ CallsInv /\ [Next]_vars => CallsInv'
<1> SUFFICES ASSUME TypeOK, CallsInv, [Next]_vars PROVE CallsInv'
  OBVIOUS
<1>1. CASE UNCHANGED vars
  BY <1>1 DEF vars, callerVars, peerVars, listenerVars, disconnectVars, CallsInv, OnePlace,
              Undisturbed, Owned, Registered, Scheduled, AnswersAreExpected, ResultsAreOwn,
              OnlyOpenCallsHeld, Answers, Arriving, Travelling
<1>2. CASE \E c \in Calls : Refuse(c) \/ BeginCall(c) \/ Caller(c) \/ Peer(c)
  BY <1>2, CallKeeps, RegisterKeeps, SendKeeps, PeerKeeps DEF Caller
<1>3. CASE \E t \in completions : RunCompletion(t)
  BY <1>3, CompletionKeeps
<1>4. CASE PeerLeaves \/ Callback
  BY <1>4, FailureKeeps, CallbackKeeps
<1>5. CASE \E a \in Actors : ReceiverFails(a) \/ BeginDisconnection(a) \/ Disconnection(a)
  BY <1>5, FailureKeeps, DisconnectsKeeps
<1> QED
  BY <1>1, <1>2, <1>3, <1>4, <1>5 DEF Next

\* The inductive invariant: wherever a call is, its identifier stands for it,
\* until the socket is closed.
THEOREM IdentifiersStandForCalls == Spec => []CallsInv
<1>1. Init => CallsInv
  BY InitInv
<1>2. TypeOK /\ CallsInv /\ [Next]_vars => CallsInv'
  BY InvStep
<1> QED
  BY <1>1, <1>2, TypeCorrect, PTL DEF Spec

\* No Return...Callback ever misses its operation while the session is open, so
\* none of them ends the session.
THEOREM ExpectedAnswers == Spec => []AnswersAreExpected
<1>1. CallsInv => AnswersAreExpected
  BY DEF CallsInv
<1> QED
  BY <1>1, IdentifiersStandForCalls, PTL

\* A call registered while the socket was open never gets the result of another.
THEOREM OwnResults == Spec => []ResultsAreOwn
<1>1. CallsInv => ResultsAreOwn
  BY DEF CallsInv
<1> QED
  BY <1>1, IdentifiersStandForCalls, PTL

\* The table of operations of an open session holds only calls that can still
\* be answered, and those the serializers have left in it.
THEOREM TableHoldsOpenCalls == Spec => []OnlyOpenCallsHeld
<1>1. CallsInv => OnlyOpenCallsHeld
  BY DEF CallsInv
<1> QED
  BY <1>1, IdentifiersStandForCalls, PTL

-----------------------------------------------------------------------------
(* Failures of the listener.                                               *)

\* A listener that has failed to read is in no callback, and the operations of its
\* snapshot stay in the table until it fails them itself: it is the one that would
\* answer them, and Locker keeps all others away.
ListenerInv ==
    /\ phase["listener"] # "crashed"
    /\ phase["listener"] # "running" => step = "reading"
    /\ phase["listener"] \in {"failing", "replaced"} => locker = "listener"
    /\ phase["listener"] = "failing" =>
          /\ \A op \in pending : operations[op.id] # NoCall
          /\ \A op1, op2 \in pending : op1.id = op2.id => op1 = op2

LEMMA ListenerInvInit == Init => ListenerInv
BY DEF Init, ListenerInv, Actors

LEMMA ListenerInvStep ==
    ASSUME TypeOK, ListenerInv, Next
    PROVE  ListenerInv'
<1> USE DEF ListenerInv
<1>1. ASSUME NEW c \in Calls,
             \/ Refuse(c) \/ BeginCall(c) \/ LoadTable(c)
             \/ SerializationFails(c) \/ Send(c) \/ Peer(c)
      PROVE  ListenerInv'
  BY <1>1 DEF Refuse, BeginCall, LoadTable, SerializationFails, Send, Advance, Peer,
              RefuseTarget, Execute, Respond, LoseAnswer, PeerStep, listenerVars, disconnectVars
<1>2. ASSUME NEW c \in Calls, Register(c) PROVE ListenerInv'
  <2>1. UNCHANGED <<phase, step, locker, pending>>
    BY <1>2 DEF Register, Advance, listenerVars, disconnectVars
  <2>2. \A id \in IDs : operations[id] # NoCall => operations'[id] # NoCall
    BY <1>2, FreshID DEF Register, TypeOK
  <2>3. \A op \in pending : op.id \in IDs
    BY DEF TypeOK
  <2> QED
    BY <2>1, <2>2, <2>3
<1>3. CASE PeerLeaves \/ \E t \in completions : RunCompletion(t)
  BY <1>3 DEF PeerLeaves, RunCompletion, listenerVars, disconnectVars
<1>4. CASE Callback
  <2>1. step' \in {"reading", "received", "completing"} /\ UNCHANGED <<locker, pending>>
    BY <1>4 DEF Callback, Receive, CompleteNothing, Complete, RemoveNothing, RemoveOperation,
                OperationGone, Listens, disconnectVars
  <2>2. phase["listener"] = "running"
    BY <1>4 DEF Callback, Receive, CompleteNothing, Complete, RemoveNothing, RemoveOperation
  <2>3. \/ phase' = phase
        \/ phase'["listener"] = "failed" /\ step' = "reading"
    BY <1>4 DEF Callback, Receive, CompleteNothing, Complete, RemoveNothing, RemoveOperation,
                OperationGone, TypeOK, Actors
  <2> QED
    BY <2>1, <2>2, <2>3
<1>5. ASSUME NEW a \in Actors, ReceiverFails(a) PROVE ListenerInv'
  BY <1>5 DEF ReceiverFails, Listens, listenerVars, disconnectVars, TypeOK, Actors
<1>6. ASSUME NEW a \in Actors, BeginDisconnection(a) PROVE ListenerInv'
  <2>1. /\ locker = NoOne /\ locker' = a /\ pending' = Snapshot
        /\ phase' = [phase EXCEPT ![a] = "failing"]
        /\ UNCHANGED <<operations, step>>
        /\ a = "listener" => phase["listener"] = "failed"
    BY <1>6 DEF BeginDisconnection, StartsDisconnection, Disconnects, listenerVars, Actors
  <2>2. /\ \A op \in Snapshot : operations[op.id] # NoCall
        /\ \A op1, op2 \in Snapshot : op1.id = op2.id => op1 = op2
    BY DEF Snapshot, UsedIDs
  <2>3. phase["listener"] \notin {"failing", "replaced"}
    BY <2>1, CallsAssumption
  <2> QED
    BY <2>1, <2>2, <2>3 DEF TypeOK, Actors
<1>7. ASSUME NEW a \in Actors, FailOperation(a) PROVE ListenerInv'
  <2>1. locker = a /\ phase[a] = "failing" /\ step' = step
    BY <1>7 DEF FailOperation, Disconnects, listenerVars
  <2>2. CASE a # "listener"
    <3>1. phase["listener"] \notin {"failing", "replaced"}
      BY <2>1, <2>2
    <3>2. phase'["listener"] = phase["listener"]
      BY <1>7, <2>2 DEF FailOperation, TypeOK, Actors
    <3> QED
      BY <2>1, <3>1, <3>2
  <2>3. CASE a = "listener"
    <3>1. PICK op \in pending :
             /\ pending' = pending \ {op}
             /\ operations' = [operations EXCEPT ![op.id] = NoCall]
             /\ UNCHANGED <<locker, phase>>
      BY <1>7, <2>1, <2>3 DEF FailOperation
    <3>2. \A op1 \in pending' : operations'[op1.id] # NoCall
      BY <2>1, <2>3, <3>1 DEF TypeOK
    <3> QED
      BY <2>1, <2>3, <3>1, <3>2
  <2> QED
    BY <2>2, <2>3
<1>8. ASSUME NEW a \in Actors, ReplaceTable(a) \/ EndDisconnection(a) PROVE ListenerInv'
  <2>1. locker = a /\ phase[a] \in {"failing", "replaced"} /\ UNCHANGED <<step, pending>>
    BY <1>8 DEF ReplaceTable, EndDisconnection, Disconnects, listenerVars, disconnectVars
  <2>2. CASE a # "listener"
    <3>1. phase["listener"] \notin {"failing", "replaced"}
      BY <2>1, <2>2
    <3>2. phase'["listener"] = phase["listener"]
      BY <1>8, <2>2 DEF ReplaceTable, EndDisconnection, TypeOK, Actors
    <3> QED
      BY <2>1, <3>1, <3>2
  <2>3. CASE a = "listener"
    <3>1. \/ phase'["listener"] = "replaced" /\ locker' = locker
          \/ phase'["listener"] = "ended"
      BY <1>8, <2>3 DEF ReplaceTable, EndDisconnection, disconnectVars, TypeOK, Actors
    <3> QED
      BY <2>1, <2>3, <3>1
  <2> QED
    BY <2>2, <2>3
<1> QED
  BY <1>1, <1>2, <1>3, <1>4, <1>5, <1>6, <1>7, <1>8 DEF Next, Caller, Disconnection

\* No exception in the listener ends the process, whoever else disconnects and
\* however often: what the listener removes in ProcessDisconnection is still there.
THEOREM ListenerFailuresHandled == Spec => []ListenerFailuresAreHandled
<1>1. TypeOK /\ ListenerInv /\ [Next]_vars => ListenerInv'
  <2>1. ASSUME TypeOK, ListenerInv, UNCHANGED vars PROVE ListenerInv'
    BY <2>1 DEF vars, listenerVars, disconnectVars, ListenerInv
  <2> QED
    BY <2>1, ListenerInvStep
<1>2. ListenerInv => ListenerFailuresAreHandled
  BY DEF ListenerInv, ListenerFailuresAreHandled
<1> QED
  BY ListenerInvInit, <1>1, <1>2, TypeCorrect, PTL DEF Spec

-----------------------------------------------------------------------------
(* RemoteCalls implements RemoteCallContract, whoever ends the session.    *)

LEMMA InitContractInv == Init => ContractInv
BY DEF Init, ContractInv, Answers, Arriving, Actors

LEMMA CallerContract ==
    ASSUME TypeOK, CallsInv, ContractInv, NEW c \in Calls,
           Refuse(c) \/ BeginCall(c) \/ Caller(c)
    PROVE  ContractInv'
<1>1. /\ UNCHANGED <<running, executed, listenerVars, disconnectVars, responses, completions>>
      /\ requests' \subseteq requests \cup {c}
      /\ c \in requests' \ requests => ~ socketClosed /\ late' = late /\ HasOperation(c)'
      /\ late \subseteq late' /\ late' \subseteq late \cup {c}
      /\ c \in late' \ late => socketClosed /\ callState[c] = "add" /\ HasOperation(c)'
      /\ callState[c] # "waiting" /\ (HasOperation(c) => HasOperation(c)')
      /\ \A d \in Calls \ {c} : callState'[d] = callState[d]
      /\ \/ answer' = [answer EXCEPT ![c] = Fault] /\ callState'[c] \in {"refused", "threw"}
         \/ /\ answer' = answer
            /\ callState'[c] \in {"idle", "load", "add"} => callState[c] \in {"idle", "load", "add"}
            /\ callState'[c] \in {"idle", "load", "add"} \/ HasOperation(c)'
  BY DEF Refuse, BeginCall, Caller, LoadTable, Register, SerializationFails, Send, Advance,
         peerVars, HasOperation, TypeOK
<1>2. Answers' = Answers
  BY <1>1 DEF Answers, Arriving, listenerVars
<1>3. /\ c \notin executed /\ c \notin requests
  BY <1>1 DEF ContractInv, CallsInv, OnePlace
<1>4. /\ running' \subseteq executed' /\ requests' \cap executed' = {}
      /\ (executed' \cup requests') \cap late' = {}
  BY <1>1, <1>3 DEF ContractInv
<1>5. late' # {} => socketClosed'
  BY <1>1 DEF ContractInv, disconnectVars
<1>6. \A d \in Calls : HasOperation(d) => HasOperation(d)'
  BY <1>1 DEF HasOperation
<1>7. /\ \A d \in executed' : callState'[d] = "waiting"
      /\ \A d \in late' : HasOperation(d)'
  BY <1>1, <1>3, <1>6 DEF ContractInv, TypeOK
<1>8. \A m \in Answers' : m.outcome = Fault \/ m.call \in executed'
  BY <1>1, <1>2 DEF ContractInv
<1>9. (\A op \in pending : op.call \in Calls) /\ (\A t \in completions : t.call \in Calls)
  BY DEF TypeOK
<1>10. \A op \in pending' : HasOperation(op.call)'
  BY <1>1, <1>6, <1>9 DEF ContractInv, disconnectVars
<1>11. \A t \in completions' : HasOperation(t.call)' /\ Outcome(t.call, t.outcome)'
  BY <1>1, <1>6, <1>9 DEF ContractInv, Outcome
<1>12. (\A d \in Calls : answer[d] = NoAnswer \/ Outcome(d, answer[d]))'
  BY <1>1 DEF ContractInv, Outcome, TypeOK
<1>13. \A d \in Calls : callState'[d] \in {"idle", "load", "add"} => answer'[d] = NoAnswer
  BY <1>1 DEF ContractInv, TypeOK
<1> QED
  BY <1>4, <1>5, <1>7, <1>8, <1>10, <1>11, <1>12, <1>13 DEF ContractInv, Outcome

LEMMA PeerContract ==
    ASSUME TypeOK, CallsInv, ContractInv, NEW c \in Calls, Peer(c)
    PROVE  ContractInv'
<1>1. UNCHANGED <<callState, late, listenerVars, disconnectVars, phase, completions, answer>>
  BY DEF Peer, RefuseTarget, Execute, Respond, LoseAnswer, PeerStep, callerVars
<1>2. /\ running' \subseteq executed' /\ requests' \cap executed' = {}
      /\ (executed' \cup requests') \cap late' = {}
      /\ executed \subseteq executed' /\ \A d \in executed' : callState'[d] = "waiting"
  BY <1>1 DEF Peer, RefuseTarget, Execute, Respond, LoseAnswer, ContractInv, CallsInv, OnePlace
<1>3. \A m \in responses' : m \in responses \/ m.outcome = Fault \/ m.call \in executed
  BY DEF Peer, RefuseTarget, Execute, Respond, LoseAnswer, Message, ContractInv
<1>4. \A m \in Answers' : m.outcome = Fault \/ m.call \in executed'
  BY <1>1, <1>2, <1>3 DEF Answers, Arriving, ContractInv, listenerVars
<1>5. \A t \in completions' : HasOperation(t.call)' /\ Outcome(t.call, t.outcome)'
  BY <1>1, <1>2 DEF ContractInv, Outcome, HasOperation
<1>6. (\A d \in Calls : answer[d] = NoAnswer \/ Outcome(d, answer[d]))'
  BY <1>1, <1>2 DEF ContractInv, Outcome
<1> QED
  BY <1>1, <1>2, <1>4, <1>5, <1>6 DEF ContractInv, HasOperation, Outcome, disconnectVars

LEMMA CompletionContract ==
    ASSUME TypeOK, CallsInv, ContractInv, NEW t \in completions, RunCompletion(t)
    PROVE  ContractInv'
<1>1. /\ UNCHANGED <<callState, late, requests, running, executed, socketClosed, pending>>
      /\ completions' \subseteq completions /\ Answers' = Answers
      /\ t.call \in Calls /\ HasOperation(t.call) /\ Outcome(t.call, t.outcome)
      /\ answer' = answer \/ answer' = [answer EXCEPT ![t.call] = t.outcome]
  BY DEF RunCompletion, Answers, Arriving, callerVars, peerVars, listenerVars, disconnectVars,
         TypeOK, ContractInv
<1>2. (\A d \in Calls : answer[d] = NoAnswer \/ Outcome(d, answer[d]))'
  BY <1>1 DEF ContractInv, Outcome, TypeOK
<1>3. \A d \in Calls : callState'[d] \in {"idle", "load", "add"} => answer'[d] = NoAnswer
  BY <1>1 DEF ContractInv, HasOperation, TypeOK
<1>4. \A u \in completions' : HasOperation(u.call)' /\ Outcome(u.call, u.outcome)'
  BY <1>1 DEF ContractInv, HasOperation, Outcome
<1> QED
  BY <1>1, <1>2, <1>3, <1>4 DEF ContractInv, HasOperation, Outcome

\* What is completed is the operation of the message, or that of a late call.
LEMMA CallbackContract ==
    ASSUME TypeOK, CallsInv, ContractInv, Callback
    PROVE  ContractInv'
<1>1. UNCHANGED <<callState, late, running, requests, executed, disconnectVars, answer>>
  BY DEF Callback, Receive, CompleteNothing, Complete, RemoveNothing, RemoveOperation,
         OperationGone, Listens, callerVars, peerVars
<1>2. Answers' \subseteq Answers
  BY DEF Callback, Receive, CompleteNothing, Complete, RemoveNothing, RemoveOperation,
         OperationGone, Answers, Arriving
<1>3. \A t \in completions' : HasOperation(t.call)' /\ Outcome(t.call, t.outcome)'
  <2>1. CASE Complete
    <3> DEFINE op == operations[received.id]
    <3>1. step # "reading" /\ op # NoCall /\ received \in Answers /\ received.id \in IDs
      BY <2>1, ReceivedOwned DEF Complete, Answers, Arriving
    <3>2. op = received.call \/ op \in late
      BY <3>1, ReceivedOwned
    <3>3. HasOperation(op)
      BY <3>1 DEF CallsInv, Registered, HasOperation
    <3>4. /\ received.outcome \in {received.call, Fault}
          /\ received.outcome = Fault \/ received.call \in executed
      BY <3>1, ReceivedOwned DEF ContractInv
    <3>5. Outcome(op, received.outcome)
      BY <3>2, <3>4 DEF Outcome
    <3>6. completions' = completions \cup {[call |-> op, outcome |-> received.outcome]}
      BY <2>1 DEF Complete
    <3>7. \A t \in completions' : HasOperation(t.call) /\ Outcome(t.call, t.outcome)
      BY <3>3, <3>5, <3>6 DEF ContractInv
    <3> QED
      BY <1>1, <3>7 DEF HasOperation, Outcome
  <2>2. CASE ~ Complete
    <3>1. completions' = completions
      BY <2>2 DEF Callback, Receive, CompleteNothing, RemoveNothing, RemoveOperation,
                  OperationGone
    <3> QED
      BY <1>1, <3>1 DEF ContractInv, Outcome, HasOperation
  <2> QED
    BY <2>1, <2>2
<1> QED
  BY <1>1, <1>2, <1>3 DEF ContractInv, Outcome, HasOperation, disconnectVars

LEMMA DisconnectionContract ==
    ASSUME TypeOK, CallsInv, ContractInv, NEW a \in Actors,
           ReceiverFails(a) \/ BeginDisconnection(a) \/ Disconnection(a)
    PROVE  ContractInv'
<1>1. UNCHANGED <<callState, late, requests, running, executed, responses, step, received, answer>>
  BY DEF ReceiverFails, Listens, BeginDisconnection, Disconnection, FailOperation,
         ReplaceTable, EndDisconnection, Disconnects, callerVars, peerVars, listenerVars
<1>2. socketClosed => socketClosed'
  BY DEF ReceiverFails, Listens, BeginDisconnection, Disconnection, FailOperation,
         ReplaceTable, EndDisconnection, disconnectVars
<1>3. \A op \in pending' : HasOperation(op.call)
  BY DEF ReceiverFails, Listens, BeginDisconnection, Snapshot, UsedIDs, Disconnection,
         FailOperation, ReplaceTable, EndDisconnection, disconnectVars, CallsInv, Registered,
         ContractInv, HasOperation
<1>4. \A t \in completions' : HasOperation(t.call) /\ Outcome(t.call, t.outcome)
  BY DEF ReceiverFails, BeginDisconnection, Disconnection, FailOperation, ReplaceTable,
         EndDisconnection, Outcome, ContractInv
<1>5. Answers' = Answers
  BY <1>1 DEF Answers, Arriving
<1> QED
  BY <1>1, <1>2, <1>3, <1>4, <1>5 DEF ContractInv, Outcome, HasOperation

LEMMA ContractStep == TypeOK /\ CallsInv /\ ContractInv /\ [Next]_vars => ContractInv'
<1> SUFFICES ASSUME TypeOK, CallsInv, ContractInv, [Next]_vars
             PROVE  ContractInv'
  OBVIOUS
<1>1. CASE UNCHANGED vars \/ PeerLeaves
  BY <1>1 DEF vars, PeerLeaves, callerVars, peerVars, listenerVars, disconnectVars,
              ContractInv, Outcome, HasOperation, Answers, Arriving
<1> QED
  BY <1>1, CallerContract, PeerContract, CompletionContract, CallbackContract,
     DisconnectionContract DEF Next
-----------------------------------------------------------------------------
(* The refinement: what the caller has in its hands, and what a step of    *)
(* each kind is for the contract.                                          *)

Made == {c \in Calls : callState[c] # "idle"}
Given == [c \in Calls |-> IF callState[c] = "send" THEN NoAnswer ELSE answer[c]]

LEMMA InitRefines == Init => Contract!Init
BY DEF Init, Contract!Init

\* Nothing the contract knows of changes.
LEMMA Stutters ==
    ASSUME UNCHANGED <<Made, executed, Given, socketClosed, late>>
    PROVE  UNCHANGED Contract!vars
BY DEF Contract!vars, Made, Given

LEMMA CallMade ==
    ASSUME TypeOK, CallsInv, ContractInv, NEW c \in Calls, Refuse(c) \/ BeginCall(c)
    PROVE  Contract!Next
<1>1. /\ c \notin Made /\ Made' = Made \cup {c}
      /\ UNCHANGED <<executed, socketClosed, late>>
  BY DEF Refuse, BeginCall, Advance, Made, peerVars, disconnectVars, TypeOK
<1>2. CASE Refuse(c)
  <2>1. Given' = [Given EXCEPT ![c] = Fault]
    BY <1>2 DEF Refuse, Advance, Given, TypeOK
  <2>2. Contract!Refuse(c)
    BY <1>1, <2>1 DEF Contract!Refuse, Made, Given
  <2> QED
    BY <2>2 DEF Contract!Next
<1>3. CASE BeginCall(c)
  <2>1. Given' = Given
    BY <1>3 DEF BeginCall, Advance, Given, TypeOK
  <2>2. Contract!Make(c)
    BY <1>1, <2>1 DEF Contract!Make, Made, Given
  <2> QED
    BY <2>2 DEF Contract!Next
<1> QED
  BY <1>2, <1>3

\* The call gets an outcome: its own, a fault, or another's if it is late.
LEMMA OutcomeGiven ==
    ASSUME ContractInv, NEW c \in Calls, NEW outcome, Outcome(c, outcome),
           c \in Made, Given[c] = NoAnswer, Given' = [Given EXCEPT ![c] = outcome],
           UNCHANGED <<Made, executed, socketClosed, late>>
    PROVE  Contract!Next
<1>1. CASE outcome = Fault
  <2>1. Contract!Fail(c)
    BY <1>1 DEF Contract!Fail, Made, Given
  <2> QED
    BY <2>1 DEF Contract!Next
<1>2. CASE outcome = c /\ c \in executed
  <2>1. Contract!Return(c)
    BY <1>2 DEF Contract!Return, Made, Given
  <2> QED
    BY <2>1 DEF Contract!Next
<1>3. CASE outcome \in executed /\ c \in late
  <2>1. Contract!ReturnAnother(c)
    BY <1>3 DEF Contract!ReturnAnother, Made, Given
  <2> QED
    BY <2>1 DEF Contract!Next
<1> QED
  BY <1>1, <1>2, <1>3 DEF Outcome

\* Before it has its task, the caller has only been told of the call; it is given
\* the task, with an outcome perhaps, once the message is sent.
LEMMA CallerRefines ==
    ASSUME TypeOK, CallsInv, ContractInv, NEW c \in Calls, Caller(c)
    PROVE  Contract!Next \/ UNCHANGED Contract!vars
<1>1. /\ c \in Made /\ Made' = Made /\ UNCHANGED <<executed, socketClosed>>
      /\ DOMAIN Given = Calls /\ DOMAIN Given' = Calls
  BY DEF Caller, LoadTable, Register, SerializationFails, Send, Advance, Made, peerVars,
         disconnectVars, Given, TypeOK
<1>2. CASE LoadTable(c)
  <2>1. UNCHANGED <<Given, late>>
    BY <1>2 DEF LoadTable, Advance, Given, TypeOK
  <2> QED
    BY <1>1, <2>1, Stutters
<1>3. CASE Register(c)
  <2>1. Given[c] = NoAnswer /\ Given' = Given
    BY <1>3 DEF Register, Advance, Given, TypeOK, ContractInv
  <2>2. CASE socketClosed /\ c \notin late
    <3>1. c \notin executed
      BY <1>3 DEF Register, ContractInv
    <3>2. Contract!ComeLate(c)
      BY <1>1, <1>3, <2>1, <2>2, <3>1 DEF Register, Contract!ComeLate, Made, Given
    <3> QED
      BY <3>2 DEF Contract!Next
  <2>3. CASE ~ socketClosed \/ c \in late
    <3>1. late' = late
      BY <1>3, <2>3 DEF Register
    <3> QED
      BY <1>1, <2>1, <3>1, Stutters
  <2> QED
    BY <2>2, <2>3
<1>4. CASE SerializationFails(c)
  <2>1. Given[c] = NoAnswer /\ late' = late
    BY <1>4 DEF SerializationFails, Given
  <2>2. Given' = [Given EXCEPT ![c] = Fault]
    BY <1>4 DEF SerializationFails, Advance, Given, TypeOK
  <2>3. Outcome(c, Fault)
    BY DEF Outcome
  <2> QED
    BY <1>1, <2>1, <2>2, <2>3, OutcomeGiven
<1>5. CASE Send(c)
  <2>1. Given[c] = NoAnswer /\ late' = late
    BY <1>5 DEF Send, Given
  <2>2. Given' = [Given EXCEPT ![c] = answer[c]]
    BY <1>5 DEF Send, Given, TypeOK
  <2>3. CASE answer[c] = NoAnswer
    <3>1. Given' = Given
      BY <1>1, <2>1, <2>2, <2>3 DEF Given
    <3> QED
      BY <1>1, <2>1, <3>1, Stutters
  <2>4. CASE answer[c] # NoAnswer
    <3>1. Outcome(c, answer[c])
      BY <2>4 DEF ContractInv
    <3> QED
      BY <1>1, <2>1, <2>2, <3>1, OutcomeGiven
  <2> QED
    BY <2>3, <2>4
<1> QED
  BY <1>2, <1>3, <1>4, <1>5 DEF Caller

LEMMA PeerRefines ==
    ASSUME TypeOK, CallsInv, ContractInv, NEW c \in Calls, Peer(c)
    PROVE  Contract!Next \/ UNCHANGED Contract!vars
<1>1. UNCHANGED <<Made, Given, socketClosed, late>>
  BY DEF Peer, RefuseTarget, Execute, Respond, LoseAnswer, PeerStep, callerVars,
         disconnectVars, Made, Given
<1>2. CASE Execute(c)
  <2>1. c \in Made \ (executed \cup late) /\ executed' = executed \cup {c}
    BY <1>2 DEF Execute, CallsInv, OnePlace, ContractInv, Made
  <2>2. Contract!Execute(c)
    BY <1>1, <2>1 DEF Contract!Execute, Made, Given
  <2> QED
    BY <2>2 DEF Contract!Next
<1>3. CASE ~ Execute(c)
  <2>1. executed' = executed
    BY <1>3 DEF Peer, RefuseTarget, Respond, LoseAnswer
  <2> QED
    BY <1>1, <2>1, Stutters
<1> QED
  BY <1>2, <1>3

LEMMA CompletionRefines ==
    ASSUME TypeOK, ContractInv, NEW t \in completions, RunCompletion(t)
    PROVE  Contract!Next \/ UNCHANGED Contract!vars
<1>1. /\ UNCHANGED <<Made, executed, socketClosed, late>>
      /\ t.call \in Calls /\ t.call \in Made /\ Outcome(t.call, t.outcome)
  BY DEF RunCompletion, callerVars, peerVars, disconnectVars, Made, TypeOK, ContractInv,
         HasOperation
<1>2. CASE answer[t.call] # NoAnswer \/ callState[t.call] = "send" \/ answer' = answer
  <2>1. Given' = Given
    BY <1>2 DEF RunCompletion, callerVars, Given, TypeOK
  <2> QED
    BY <1>1, <2>1, Stutters
<1>3. CASE answer[t.call] = NoAnswer /\ callState[t.call] # "send" /\ answer' # answer
  <2>1. Given[t.call] = NoAnswer /\ Given' = [Given EXCEPT ![t.call] = t.outcome]
    BY <1>1, <1>3 DEF RunCompletion, callerVars, Given, TypeOK
  <2> QED
    BY <1>1, <2>1, OutcomeGiven
<1> QED
  BY <1>2, <1>3

\* ProcessDisconnection ends the session when it closes the socket.
LEMMA DisconnectionRefines ==
    ASSUME TypeOK, NEW a \in Actors,
           ReceiverFails(a) \/ BeginDisconnection(a) \/ Disconnection(a)
    PROVE  Contract!Next \/ UNCHANGED Contract!vars
<1>1. UNCHANGED <<Made, executed, Given, late>>
  BY DEF ReceiverFails, Listens, BeginDisconnection, Disconnection, FailOperation,
         ReplaceTable, EndDisconnection, Disconnects, callerVars, peerVars, Made, Given
<1>2. socketClosed' = socketClosed \/ socketClosed'
  BY DEF ReceiverFails, Listens, BeginDisconnection, Disconnection, FailOperation,
         ReplaceTable, EndDisconnection, disconnectVars
<1>3. CASE socketClosed' = socketClosed
  BY <1>1, <1>3, Stutters
<1>4. CASE socketClosed' # socketClosed
  <2>1. ~ socketClosed /\ socketClosed' = TRUE
    BY <1>2, <1>4 DEF BeginDisconnection, ReceiverFails, Listens, Disconnection,
                      FailOperation, ReplaceTable, EndDisconnection, disconnectVars, TypeOK
  <2>2. Contract!EndSession
    BY <1>1, <2>1 DEF Contract!EndSession, Made, Given
  <2> QED
    BY <2>2 DEF Contract!Next
<1> QED
  BY <1>3, <1>4

LEMMA StepRefines ==
    TypeOK /\ CallsInv /\ ContractInv /\ [Next]_vars => [Contract!Next]_(Contract!vars)
<1> SUFFICES ASSUME TypeOK, CallsInv, ContractInv, [Next]_vars
             PROVE  Contract!Next \/ UNCHANGED Contract!vars
  OBVIOUS
<1>1. CASE UNCHANGED vars \/ PeerLeaves \/ Callback
  <2>1. UNCHANGED <<Made, executed, Given, socketClosed, late>>
    BY <1>1 DEF vars, PeerLeaves, Callback, Receive, CompleteNothing, Complete, RemoveNothing,
                RemoveOperation, OperationGone, Listens, callerVars, peerVars, disconnectVars,
                Made, Given
  <2> QED
    BY <2>1, Stutters
<1> QED
  BY <1>1, CallMade, CallerRefines, PeerRefines, CompletionRefines, DisconnectionRefines
  DEF Next

\* Callers get what the contract promises, whoever ends the session: a call is run
\* at most once, and its task ends at most once, with its own result or a fault
\* unless the call was made while the session was being ended.
THEOREM ContractKept == Spec => ImplementsContract
<1>1. Init => ContractInv /\ Contract!Init
  BY InitContractInv, InitRefines
<1>2. TypeOK /\ CallsInv /\ ContractInv /\ [Next]_vars
        => ContractInv' /\ [Contract!Next]_(Contract!vars)
  BY ContractStep, StepRefines
<1> QED
  BY <1>1, <1>2, TypeCorrect, IdentifiersStandForCalls, PTL
  DEF Spec, ImplementsContract, Contract!Spec
=============================================================================
