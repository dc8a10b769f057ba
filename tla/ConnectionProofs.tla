--------------------------- MODULE ConnectionProofs ---------------------------
(***************************************************************************)
(* Connection's safety for any number of attempts, calls of Disconnect and *)
(* sending threads.  The client's fields change under Locker, so that what *)
(* has to be shown is that the stale threads of ended sessions, and the    *)
(* attempt that is still connecting, find no state they can spoil: they    *)
(* may end a session, never leave half of one.                             *)
(***************************************************************************)
EXTENDS Connection, TLAPS

Live == {"new", "open", "failed"}
ListenerStates == {"none", "started", "reading", "faulted", "broken", "ended"}
ReceiverStates == {"none", "waiting", "faulted", "broken", "ended"}

(* What attempts to come will make does not exist yet. *)
Fresh ==
    \A k \in Attempts : k > attempts =>
        /\ tcp[k] = "none" /\ udp[k] = "none"
        /\ listener[k].pc = "none" /\ receiver[k] = "none" /\ k \notin handlers

(* The sockets that are not closed are those in the fields, and these are  *)
(* of the last attempt.                                                    *)
OneClient ==
    /\ internalClient \in {0, attempts} /\ unreliableClient <= attempts
    /\ \A k \in Attempts : tcp[k] \in Live => k = internalClient
    /\ \A k \in Attempts : udp[k] = "open" => k = internalClient /\ k = unreliableClient

(* An attempt in progress has made its TcpClient and nothing else. *)
InProgress ==
    connecting # "idle" =>
        /\ attempts # 0 /\ ~ connected /\ unreliableClient < attempts
        /\ udp[attempts] = "none"
        /\ listener[attempts].pc = "none" /\ receiver[attempts] = "none"
        /\ attempts \notin handlers

(* A session has all its parts, and its own threads have not ended it: a   *)
(* thread that has failed has found a stream or a socket that has ended,   *)
(* or a message that it could not handle.                                  *)
Whole ==
    connected =>
        /\ internalClient # 0
        /\ messageWriter = internalClient /\ unreliableClient = internalClient
        /\ \/ tcp[internalClient] \in {"open", "failed"} /\ udp[internalClient] = "open"
           \/ /\ tcp[internalClient] = "closed" /\ udp[internalClient] = "closed"
              /\ disconnects # 0
        /\ \/ receiver[internalClient] \in {"waiting", "faulted"}
           \/ receiver[internalClient] = "broken" /\ udp[internalClient] = "closed"
        /\ \/ listener[internalClient].pc \in {"started", "faulted"}
           \/ listener[internalClient] = [pc |-> "reading", reads |-> internalClient]
           \/ listener[internalClient].pc = "broken" /\ tcp[internalClient] \in {"failed", "closed"}

(* Whatever is registered comes after the client, within a session. *)
FirstObject ==
    /\ connected => heldObjects # <<>>
    /\ ~ strays => heldObjects = <<>> \/ heldObjects[1] = Client

Inv == TypeOK /\ Fresh /\ OneClient /\ InProgress /\ Whole /\ FirstObject

-----------------------------------------------------------------------------

(* What is appended comes last. *)
LEMMA AppendKeepsFirst ==
  ASSUME NEW S, NEW s \in Seq(S), NEW e \in S
  PROVE  /\ Append(s, e) \in Seq(S) /\ Append(s, e) # <<>>
         /\ s # <<>> => Append(s, e)[1] = s[1]
         /\ s = <<>> => Append(s, e)[1] = e
  OBVIOUS

(* Of any set. *)
LEMMA EmptySequence == \A S : <<>> \in Seq(S)
  OBVIOUS

(* Nothing has been made. *)
LEMMA InvInit == Init => Inv
  <1> SUFFICES ASSUME Init PROVE Inv
    OBVIOUS
  <1> USE ConnectionAssumption DEF Init, Attempts
  <1>1. TypeOK
    <2>1. heldObjects \in Seq({Client, Shared})
      BY EmptySequence
    <2>2. {internalClient, messageWriter, unreliableClient, attempts} \subseteq 0 .. MaxAttempts
      OBVIOUS
    <2>3. listener \in [Attempts -> [pc : ListenerStates, reads : 0 .. MaxAttempts]]
      BY DEF ListenerStates
    <2>4. /\ receiver \in [Attempts -> ReceiverStates] /\ handlers \subseteq Attempts
          /\ disconnects \in 0 .. MaxDisconnects
      BY DEF ReceiverStates
    <2>5. QED
      BY <2>1, <2>2, <2>3, <2>4 DEF TypeOK, ListenerStates, ReceiverStates
  <1>2. Fresh /\ OneClient /\ InProgress /\ Whole /\ FirstObject
    BY DEF Fresh, OneClient, InProgress, Whole, FirstObject, Live
  <1>3. QED
    BY <1>1, <1>2 DEF Inv

(* A new attempt begins where nothing exists yet. *)
LEMMA CreateClientKeepsInv ==
  ASSUME Inv, CreateClient
  PROVE  Inv'
  <1> USE ConnectionAssumption DEF CreateClient, threads, Attempts
  <1>1. TypeOK'
    BY DEF Inv, TypeOK
  <1>2. Fresh'
    BY DEF Inv, TypeOK, Fresh, OneClient
  <1>3. OneClient'
    BY DEF Inv, TypeOK, Fresh, OneClient, InProgress, Live
  <1>4. InProgress'
    BY DEF Inv, TypeOK, Fresh, OneClient, InProgress, Whole
  <1>5. Whole'
    BY DEF Inv, TypeOK, Fresh, OneClient, InProgress, Whole
  <1>6. FirstObject'
    BY DEF Inv, TypeOK, FirstObject, Whole
  <1>7. QED
    BY <1>1, <1>2, <1>3, <1>4, <1>5, <1>6 DEF Inv

(* The socket of the attempt is connected. *)
LEMMA OpenConnectionKeepsInv ==
  ASSUME Inv, OpenConnection
  PROVE  Inv'
  <1> USE ConnectionAssumption DEF OpenConnection, fields, threads, Attempts
  <1>1. TypeOK'
    BY DEF Inv, TypeOK
  <1>2. Fresh'
    BY DEF Inv, TypeOK, Fresh, OneClient
  <1>3. OneClient'
    BY DEF Inv, TypeOK, Fresh, OneClient, InProgress, Live
  <1>4. InProgress'
    BY DEF Inv, TypeOK, Fresh, OneClient, InProgress, Whole
  <1>5. Whole'
    BY DEF Inv, TypeOK, Fresh, OneClient, InProgress, Whole
  <1>6. FirstObject'
    BY DEF Inv, TypeOK, FirstObject, Whole
  <1>7. QED
    BY <1>1, <1>2, <1>3, <1>4, <1>5, <1>6 DEF Inv

(* An attempt that gives up leaves everything as it is. *)
LEMMA ThrowsKeepsInv ==
  ASSUME Inv, Throws
  PROVE  Inv'
  <1> USE ConnectionAssumption DEF Throws, fields, sockets, threads, Attempts
  <1>1. TypeOK'
    BY DEF Inv, TypeOK
  <1>2. Fresh'
    BY DEF Inv, TypeOK, Fresh, OneClient
  <1>3. OneClient'
    BY DEF Inv, TypeOK, Fresh, OneClient, InProgress, Live
  <1>4. InProgress'
    BY DEF Inv, TypeOK, Fresh, OneClient, InProgress, Whole
  <1>5. Whole'
    BY DEF Inv, TypeOK, Fresh, OneClient, InProgress, Whole
  <1>6. FirstObject'
    BY DEF Inv, TypeOK, FirstObject, Whole
  <1>7. QED
    BY <1>1, <1>2, <1>3, <1>4, <1>5, <1>6 DEF Inv

(* A session begins with all its parts. *)
LEMMA InitializeKeepsInv ==
  ASSUME Inv, InitializeClientConnection
  PROVE  Inv'
  <1> USE ConnectionAssumption DEF InitializeClientConnection, Attempts
  <1>1. TypeOK'
    BY DEF Inv, TypeOK
  <1>2. Fresh'
    BY DEF Inv, TypeOK, Fresh, OneClient
  <1>3. OneClient'
    BY DEF Inv, TypeOK, Fresh, OneClient, InProgress, Live
  <1>4. InProgress'
    BY DEF Inv, TypeOK, Fresh, OneClient, InProgress, Whole
  <1>5. Whole'
    BY DEF Inv, TypeOK, Fresh, OneClient, InProgress, Whole
  <1>6. FirstObject'
    <2>1. heldObjects' = Append(heldObjects, Client)
      OBVIOUS
    <2>2. strays' = strays
      OBVIOUS
    <2>3. heldObjects \in Seq({Client, Shared})
      BY DEF Inv, TypeOK
    <2>4. heldObjects # <<>> => strays \/ heldObjects[1] = Client
      BY DEF Inv, FirstObject
    <2> HIDE DEF InitializeClientConnection
    <2>5. /\ Append(heldObjects, Client) # <<>>
          /\ heldObjects # <<>> => Append(heldObjects, Client)[1] = heldObjects[1]
          /\ heldObjects = <<>> => Append(heldObjects, Client)[1] = Client
      BY <2>3, AppendKeepsFirst
    <2>6. heldObjects' # <<>> /\ (strays \/ heldObjects'[1] = Client)
      BY <2>1, <2>4, <2>5, Zenon
    <2>7. QED
      BY <2>2, <2>6, Zenon DEF FirstObject
  <1>7. QED
    BY <1>1, <1>2, <1>3, <1>4, <1>5, <1>6 DEF Inv

(* A handshake that fails makes some of them. *)
LEMMA HandshakeFailsKeepsInv ==
  ASSUME Inv, HandshakeFails
  PROVE  Inv'
  <1> USE ConnectionAssumption DEF HandshakeFails, Attempts
  <1>1. TypeOK'
    <2>1. heldObjects' \in Seq({Client, Shared})
      BY AppendKeepsFirst DEF Inv, TypeOK
    <2>2. udp' \in [Attempts -> {"none", "open", "closed"}] /\
          unreliableClient' \in 0 .. MaxAttempts
      BY DEF Inv, TypeOK
    <2>3. receiver' \in [Attempts -> ReceiverStates]
      BY DEF Inv, TypeOK, ReceiverStates
    <2>4. QED
      BY <2>1, <2>2, <2>3 DEF Inv, TypeOK, ReceiverStates
  <1>2. Fresh'
    BY DEF Inv, TypeOK, Fresh, OneClient
  <1>3. OneClient'
    BY DEF Inv, TypeOK, Fresh, OneClient, InProgress, Live
  <1>4. InProgress'
    BY DEF Inv, TypeOK, Fresh, OneClient, InProgress, Whole
  <1>5. Whole'
    BY DEF Inv, TypeOK, Fresh, OneClient, InProgress, Whole
  <1>6. FirstObject'
    <2>1. heldObjects' = Append(heldObjects, Client)
      OBVIOUS
    <2>2. strays' = strays
      OBVIOUS
    <2>3. heldObjects \in Seq({Client, Shared})
      BY DEF Inv, TypeOK
    <2>4. heldObjects # <<>> => strays \/ heldObjects[1] = Client
      BY DEF Inv, FirstObject
    <2> HIDE DEF HandshakeFails
    <2>5. /\ Append(heldObjects, Client) # <<>>
          /\ heldObjects # <<>> => Append(heldObjects, Client)[1] = heldObjects[1]
          /\ heldObjects = <<>> => Append(heldObjects, Client)[1] = Client
      BY <2>3, AppendKeepsFirst
    <2>6. heldObjects' # <<>> /\ (strays \/ heldObjects'[1] = Client)
      BY <2>1, <2>4, <2>5, Zenon
    <2>7. QED
      BY <2>2, <2>6, Zenon DEF FirstObject
  <1>7. QED
    BY <1>1, <1>2, <1>3, <1>4, <1>5, <1>6 DEF Inv

(* The end of a session, at the program's request. *)
LEMMA DisconnectKeepsInv ==
  ASSUME Inv, Disconnect
  PROVE  Inv'
  <1> USE ConnectionAssumption DEF Disconnect, ProcessDisconnection, connect, threads, Attempts
  <1>1. TypeOK'
    <2>1. heldObjects' \in Seq({Client, Shared})
      BY EmptySequence
    <2>2. /\ tcp' \in [Attempts -> {"none", "new", "open", "failed", "closed"}]
          /\ udp' \in [Attempts -> {"none", "open", "closed"}]
      BY DEF Inv, TypeOK
    <2>3. /\ {internalClient', messageWriter', unreliableClient',
              attempts'} \subseteq 0 .. MaxAttempts
          /\ disconnects' \in 0 .. MaxDisconnects
      BY DEF Inv, TypeOK
    <2>4. /\ connected' \in BOOLEAN /\ strays' \in BOOLEAN /\ crashed' \in BOOLEAN
          /\ sender' \in [Senders -> {"idle", "serializing", "sending", "done"}]
          /\ connecting' \in {"idle", "created", "opened"}
      BY DEF Inv, TypeOK
    <2>5. /\ listener' \in [Attempts -> [pc : ListenerStates, reads : 0 .. MaxAttempts]]
          /\ receiver' \in [Attempts -> ReceiverStates]
          /\ handlers' \subseteq Attempts
      BY DEF Inv, TypeOK, ListenerStates, ReceiverStates
    <2>6. QED
      BY <2>1, <2>2, <2>3, <2>4, <2>5 DEF TypeOK, ListenerStates, ReceiverStates
  <1>2. Fresh'
    BY DEF Inv, TypeOK, Fresh, OneClient
  <1>3. OneClient'
    BY DEF Inv, TypeOK, Fresh, OneClient, InProgress, Live
  <1>4. InProgress'
    BY DEF Inv, TypeOK, Fresh, OneClient, InProgress, Whole
  <1>5. Whole'
    BY DEF Inv, TypeOK, Fresh, OneClient, InProgress, Whole
  <1>6. FirstObject'
    BY DEF Inv, TypeOK, FirstObject, Whole
  <1>7. QED
    BY <1>1, <1>2, <1>3, <1>4, <1>5, <1>6 DEF Inv

(* A Disconnect that throws closes the sockets of the fields. *)
LEMMA DisconnectThrowsKeepsInv ==
  ASSUME Inv, DisconnectThrows
  PROVE  Inv'
  <1> USE ConnectionAssumption DEF DisconnectThrows, fields, connect, threads, Attempts
  <1>1. TypeOK'
    <2>1. heldObjects' \in Seq({Client, Shared})
      BY DEF Inv, TypeOK
    <2>2. /\ tcp' \in [Attempts -> {"none", "new", "open", "failed", "closed"}]
          /\ udp' \in [Attempts -> {"none", "open", "closed"}]
      BY DEF Inv, TypeOK
    <2>3. /\ {internalClient', messageWriter', unreliableClient',
              attempts'} \subseteq 0 .. MaxAttempts
          /\ disconnects' \in 0 .. MaxDisconnects
      BY DEF Inv, TypeOK
    <2>4. /\ connected' \in BOOLEAN /\ strays' \in BOOLEAN /\ crashed' \in BOOLEAN
          /\ sender' \in [Senders -> {"idle", "serializing", "sending", "done"}]
          /\ connecting' \in {"idle", "created", "opened"}
      BY DEF Inv, TypeOK
    <2>5. /\ listener' \in [Attempts -> [pc : ListenerStates, reads : 0 .. MaxAttempts]]
          /\ receiver' \in [Attempts -> ReceiverStates]
          /\ handlers' \subseteq Attempts
      BY DEF Inv, TypeOK, ListenerStates, ReceiverStates
    <2>6. QED
      BY <2>1, <2>2, <2>3, <2>4, <2>5 DEF TypeOK, ListenerStates, ReceiverStates
  <1>2. Fresh'
    BY DEF Inv, TypeOK, Fresh, OneClient
  <1>3. OneClient'
    BY DEF Inv, TypeOK, Fresh, OneClient, InProgress, Live
  <1>4. InProgress'
    BY DEF Inv, TypeOK, Fresh, OneClient, InProgress, Whole
  <1>5. Whole'
    BY DEF Inv, TypeOK, Fresh, OneClient, InProgress, Whole
  <1>6. FirstObject'
    BY DEF Inv, TypeOK, FirstObject, Whole
  <1>7. QED
    BY <1>1, <1>2, <1>3, <1>4, <1>5, <1>6 DEF Inv

(* The end of a session from a listener, its own or a stale one. *)
LEMMA ListenerEndsKeepsInv ==
  ASSUME Inv, NEW k \in Attempts, ListenerEnds(k)
  PROVE  Inv'
  <1> USE ConnectionAssumption DEF ListenerEnds, ProcessDisconnection, connect, Attempts
  <1>1. TypeOK'
    <2>1. heldObjects' \in Seq({Client, Shared})
      BY EmptySequence
    <2>2. /\ tcp' \in [Attempts -> {"none", "new", "open", "failed", "closed"}]
          /\ udp' \in [Attempts -> {"none", "open", "closed"}]
      BY DEF Inv, TypeOK
    <2>3. /\ {internalClient', messageWriter', unreliableClient',
              attempts'} \subseteq 0 .. MaxAttempts
          /\ disconnects' \in 0 .. MaxDisconnects
      BY DEF Inv, TypeOK
    <2>4. /\ connected' \in BOOLEAN /\ strays' \in BOOLEAN /\ crashed' \in BOOLEAN
          /\ sender' \in [Senders -> {"idle", "serializing", "sending", "done"}]
          /\ connecting' \in {"idle", "created", "opened"}
      BY DEF Inv, TypeOK
    <2>5. /\ listener' \in [Attempts -> [pc : ListenerStates, reads : 0 .. MaxAttempts]]
          /\ receiver' \in [Attempts -> ReceiverStates]
          /\ handlers' \subseteq Attempts
      BY DEF Inv, TypeOK, ListenerStates, ReceiverStates
    <2>6. QED
      BY <2>1, <2>2, <2>3, <2>4, <2>5 DEF TypeOK, ListenerStates, ReceiverStates
  <1>2. Fresh'
    BY DEF Inv, TypeOK, Fresh, OneClient
  <1>3. OneClient'
    BY DEF Inv, TypeOK, Fresh, OneClient, InProgress, Live
  <1>4. InProgress'
    BY DEF Inv, TypeOK, Fresh, OneClient, InProgress, Whole
  <1>5. Whole'
    BY DEF Inv, TypeOK, Fresh, OneClient, InProgress, Whole
  <1>6. FirstObject'
    BY DEF Inv, TypeOK, FirstObject, Whole
  <1>7. QED
    BY <1>1, <1>2, <1>3, <1>4, <1>5, <1>6 DEF Inv

(* The end of a session from a receiver. *)
LEMMA ReceiverEndsKeepsInv ==
  ASSUME Inv, NEW k \in Attempts, ReceiverEnds(k)
  PROVE  Inv'
  <1> USE ConnectionAssumption DEF ReceiverEnds, ProcessDisconnection, connect, Attempts
  <1>1. TypeOK'
    <2>1. heldObjects' \in Seq({Client, Shared})
      BY EmptySequence
    <2>2. /\ tcp' \in [Attempts -> {"none", "new", "open", "failed", "closed"}]
          /\ udp' \in [Attempts -> {"none", "open", "closed"}]
      BY DEF Inv, TypeOK
    <2>3. /\ {internalClient', messageWriter', unreliableClient',
              attempts'} \subseteq 0 .. MaxAttempts
          /\ disconnects' \in 0 .. MaxDisconnects
      BY DEF Inv, TypeOK
    <2>4. /\ connected' \in BOOLEAN /\ strays' \in BOOLEAN /\ crashed' \in BOOLEAN
          /\ sender' \in [Senders -> {"idle", "serializing", "sending", "done"}]
          /\ connecting' \in {"idle", "created", "opened"}
      BY DEF Inv, TypeOK
    <2>5. /\ listener' \in [Attempts -> [pc : ListenerStates, reads : 0 .. MaxAttempts]]
          /\ receiver' \in [Attempts -> ReceiverStates]
          /\ handlers' \subseteq Attempts
      BY DEF Inv, TypeOK, ListenerStates, ReceiverStates
    <2>6. QED
      BY <2>1, <2>2, <2>3, <2>4, <2>5 DEF TypeOK, ListenerStates, ReceiverStates
  <1>2. Fresh'
    BY DEF Inv, TypeOK, Fresh, OneClient
  <1>3. OneClient'
    BY DEF Inv, TypeOK, Fresh, OneClient, InProgress, Live
  <1>4. InProgress'
    BY DEF Inv, TypeOK, Fresh, OneClient, InProgress, Whole
  <1>5. Whole'
    BY DEF Inv, TypeOK, Fresh, OneClient, InProgress, Whole
  <1>6. FirstObject'
    BY DEF Inv, TypeOK, FirstObject, Whole
  <1>7. QED
    BY <1>1, <1>2, <1>3, <1>4, <1>5, <1>6 DEF Inv

(* The end of a session from a callback for datagrams. *)
LEMMA HandlerEndsKeepsInv ==
  ASSUME Inv, NEW k \in Attempts, HandlerEnds(k)
  PROVE  Inv'
  <1> USE ConnectionAssumption DEF HandlerEnds, ProcessDisconnection, connect, Attempts
  <1>1. TypeOK'
    <2>1. heldObjects' \in Seq({Client, Shared})
      BY EmptySequence
    <2>2. /\ tcp' \in [Attempts -> {"none", "new", "open", "failed", "closed"}]
          /\ udp' \in [Attempts -> {"none", "open", "closed"}]
      BY DEF Inv, TypeOK
    <2>3. /\ {internalClient', messageWriter', unreliableClient',
              attempts'} \subseteq 0 .. MaxAttempts
          /\ disconnects' \in 0 .. MaxDisconnects
      BY DEF Inv, TypeOK
    <2>4. /\ connected' \in BOOLEAN /\ strays' \in BOOLEAN /\ crashed' \in BOOLEAN
          /\ sender' \in [Senders -> {"idle", "serializing", "sending", "done"}]
          /\ connecting' \in {"idle", "created", "opened"}
      BY DEF Inv, TypeOK
    <2>5. /\ listener' \in [Attempts -> [pc : ListenerStates, reads : 0 .. MaxAttempts]]
          /\ receiver' \in [Attempts -> ReceiverStates]
          /\ handlers' \subseteq Attempts
      BY DEF Inv, TypeOK, ListenerStates, ReceiverStates
    <2>6. QED
      BY <2>1, <2>2, <2>3, <2>4, <2>5 DEF TypeOK, ListenerStates, ReceiverStates
  <1>2. Fresh'
    BY DEF Inv, TypeOK, Fresh, OneClient
  <1>3. OneClient'
    BY DEF Inv, TypeOK, Fresh, OneClient, InProgress, Live
  <1>4. InProgress'
    BY DEF Inv, TypeOK, Fresh, OneClient, InProgress, Whole
  <1>5. Whole'
    BY DEF Inv, TypeOK, Fresh, OneClient, InProgress, Whole
  <1>6. FirstObject'
    BY DEF Inv, TypeOK, FirstObject, Whole
  <1>7. QED
    BY <1>1, <1>2, <1>3, <1>4, <1>5, <1>6 DEF Inv

(* A connection breaks. *)
LEMMA NetworkFailsKeepsInv ==
  ASSUME Inv, NEW k \in Attempts, NetworkFails(k)
  PROVE  Inv'
  <1> USE ConnectionAssumption DEF NetworkFails, fields, connect, threads, Attempts
  <1>1. TypeOK'
    BY DEF Inv, TypeOK
  <1>2. Fresh'
    BY DEF Inv, TypeOK, Fresh, OneClient
  <1>3. OneClient'
    BY DEF Inv, TypeOK, Fresh, OneClient, InProgress, Live
  <1>4. InProgress'
    BY DEF Inv, TypeOK, Fresh, OneClient, InProgress, Whole
  <1>5. Whole'
    BY DEF Inv, TypeOK, Fresh, OneClient, InProgress, Whole
  <1>6. FirstObject'
    BY DEF Inv, TypeOK, FirstObject, Whole
  <1>7. QED
    BY <1>1, <1>2, <1>3, <1>4, <1>5, <1>6 DEF Inv

(* A listener of a session finds the session's stream. *)
LEMMA StartListeningKeepsInv ==
  ASSUME Inv, NEW k \in Attempts, StartListening(k)
  PROVE  Inv'
  <1> USE ConnectionAssumption DEF StartListening, fields, sockets, connect, Attempts
  <1>1. TypeOK'
    BY DEF Inv, TypeOK
  <1>2. Fresh'
    BY DEF Inv, TypeOK, Fresh, OneClient
  <1>3. OneClient'
    BY DEF Inv, TypeOK, Fresh, OneClient, InProgress, Live
  <1>4. InProgress'
    BY DEF Inv, TypeOK, Fresh, OneClient, InProgress, Whole
  <1>5. Whole'
    BY DEF Inv, TypeOK, Fresh, OneClient, InProgress, Whole
  <1>6. FirstObject'
    BY DEF Inv, TypeOK, FirstObject, Whole
  <1>7. QED
    BY <1>1, <1>2, <1>3, <1>4, <1>5, <1>6 DEF Inv

(* A listener of a session breaks only after its network. *)
LEMMA ReadingFailsKeepsInv ==
  ASSUME Inv, NEW k \in Attempts, ReadingFails(k)
  PROVE  Inv'
  <1> USE ConnectionAssumption DEF ReadingFails, StreamEnds, fields, sockets, connect, Attempts
  <1>1. TypeOK'
    BY DEF Inv, TypeOK
  <1>2. Fresh'
    BY DEF Inv, TypeOK, Fresh, OneClient
  <1>3. OneClient'
    BY DEF Inv, TypeOK, Fresh, OneClient, InProgress, Live
  <1>4. InProgress'
    BY DEF Inv, TypeOK, Fresh, OneClient, InProgress, Whole
  <1>5. Whole'
    BY DEF Inv, TypeOK, Fresh, OneClient, InProgress, Whole
  <1>6. FirstObject'
    BY DEF Inv, TypeOK, FirstObject, Whole
  <1>7. QED
    BY <1>1, <1>2, <1>3, <1>4, <1>5, <1>6 DEF Inv

(* A message cannot be handled. *)
LEMMA HandlingFailsKeepsInv ==
  ASSUME Inv, NEW k \in Attempts, HandlingFails(k)
  PROVE  Inv'
  <1> USE ConnectionAssumption DEF HandlingFails, fields, sockets, connect, Attempts
  <1>1. TypeOK'
    BY DEF Inv, TypeOK
  <1>2. Fresh'
    BY DEF Inv, TypeOK, Fresh, OneClient
  <1>3. OneClient'
    BY DEF Inv, TypeOK, Fresh, OneClient, InProgress, Live
  <1>4. InProgress'
    BY DEF Inv, TypeOK, Fresh, OneClient, InProgress, Whole
  <1>5. Whole'
    BY DEF Inv, TypeOK, Fresh, OneClient, InProgress, Whole
  <1>6. FirstObject'
    BY DEF Inv, TypeOK, FirstObject, Whole
  <1>7. QED
    BY <1>1, <1>2, <1>3, <1>4, <1>5, <1>6 DEF Inv

(* The process ends. *)
LEMMA EndThrowsKeepsInv ==
  ASSUME Inv, NEW k \in Attempts, EndThrows(k)
  PROVE  Inv'
  <1> USE ConnectionAssumption DEF EndThrows, fields, sockets, connect, threads, Attempts
  <1>1. TypeOK'
    BY DEF Inv, TypeOK
  <1>2. Fresh'
    BY DEF Inv, TypeOK, Fresh, OneClient
  <1>3. OneClient'
    BY DEF Inv, TypeOK, Fresh, OneClient, InProgress, Live
  <1>4. InProgress'
    BY DEF Inv, TypeOK, Fresh, OneClient, InProgress, Whole
  <1>5. Whole'
    BY DEF Inv, TypeOK, Fresh, OneClient, InProgress, Whole
  <1>6. FirstObject'
    BY DEF Inv, TypeOK, FirstObject, Whole
  <1>7. QED
    BY <1>1, <1>2, <1>3, <1>4, <1>5, <1>6 DEF Inv

(* A receiver of a session breaks only after its socket has been closed. *)
LEMMA ReceivingFailsKeepsInv ==
  ASSUME Inv, NEW k \in Attempts, ReceivingFails(k)
  PROVE  Inv'
  <1> USE ConnectionAssumption DEF ReceivingFails, fields, sockets, connect, Attempts
  <1>1. TypeOK'
    BY DEF Inv, TypeOK
  <1>2. Fresh'
    BY DEF Inv, TypeOK, Fresh, OneClient
  <1>3. OneClient'
    BY DEF Inv, TypeOK, Fresh, OneClient, InProgress, Live
  <1>4. InProgress'
    BY DEF Inv, TypeOK, Fresh, OneClient, InProgress, Whole
  <1>5. Whole'
    BY DEF Inv, TypeOK, Fresh, OneClient, InProgress, Whole
  <1>6. FirstObject'
    BY DEF Inv, TypeOK, FirstObject, Whole
  <1>7. QED
    BY <1>1, <1>2, <1>3, <1>4, <1>5, <1>6 DEF Inv

(* It may fail with the socket open. *)
LEMMA DatagramFailsKeepsInv ==
  ASSUME Inv, NEW k \in Attempts, DatagramFails(k)
  PROVE  Inv'
  <1> USE ConnectionAssumption DEF DatagramFails, fields, sockets, connect, Attempts
  <1>1. TypeOK'
    BY DEF Inv, TypeOK
  <1>2. Fresh'
    BY DEF Inv, TypeOK, Fresh, OneClient
  <1>3. OneClient'
    BY DEF Inv, TypeOK, Fresh, OneClient, InProgress, Live
  <1>4. InProgress'
    BY DEF Inv, TypeOK, Fresh, OneClient, InProgress, Whole
  <1>5. Whole'
    BY DEF Inv, TypeOK, Fresh, OneClient, InProgress, Whole
  <1>6. FirstObject'
    BY DEF Inv, TypeOK, FirstObject, Whole
  <1>7. QED
    BY <1>1, <1>2, <1>3, <1>4, <1>5, <1>6 DEF Inv

(* A sending thread finds the client connected. *)
LEMMA BeginSendKeepsInv ==
  ASSUME Inv, NEW t \in Senders, BeginSend(t)
  PROVE  Inv'
  <1> USE ConnectionAssumption DEF BeginSend, fields, sockets, connect, threads, Attempts
  <1>1. TypeOK'
    BY DEF Inv, TypeOK
  <1>2. Fresh'
    BY DEF Inv, TypeOK, Fresh, OneClient
  <1>3. OneClient'
    BY DEF Inv, TypeOK, Fresh, OneClient, InProgress, Live
  <1>4. InProgress'
    BY DEF Inv, TypeOK, Fresh, OneClient, InProgress, Whole
  <1>5. Whole'
    BY DEF Inv, TypeOK, Fresh, OneClient, InProgress, Whole
  <1>6. FirstObject'
    BY DEF Inv, TypeOK, FirstObject, Whole
  <1>7. QED
    BY <1>1, <1>2, <1>3, <1>4, <1>5, <1>6 DEF Inv

(* An object is registered after the client, or as a stray. *)
LEMMA RegisterKeepsInv ==
  ASSUME Inv, NEW t \in Senders, Register(t)
  PROVE  Inv'
  <1> USE ConnectionAssumption DEF Register, sockets, connect, threads, Attempts
  <1>1. TypeOK'
    BY DEF Inv, TypeOK
  <1>2. Fresh'
    BY DEF Inv, TypeOK, Fresh, OneClient
  <1>3. OneClient'
    BY DEF Inv, TypeOK, Fresh, OneClient, InProgress, Live
  <1>4. InProgress'
    BY DEF Inv, TypeOK, Fresh, OneClient, InProgress, Whole
  <1>5. Whole'
    BY DEF Inv, TypeOK, Fresh, OneClient, InProgress, Whole
  <1>6. FirstObject'
    <2>1. CASE \E i \in DOMAIN heldObjects : heldObjects[i] = Shared
      <3>1. heldObjects' = heldObjects /\ heldObjects # <<>>
        BY <2>1
      <3>2. QED
        BY <3>1 DEF Inv, TypeOK, FirstObject
    <2>2. CASE ~ \E i \in DOMAIN heldObjects : heldObjects[i] = Shared
      <3>1. heldObjects' = Append(heldObjects, Shared)
        BY <2>2
      <3>2. heldObjects \in Seq({Client, Shared})
        BY DEF Inv, TypeOK
      <3>3. /\ Append(heldObjects, Shared) # <<>>
            /\ heldObjects # <<>> => Append(heldObjects, Shared)[1] = heldObjects[1]
        <4> HIDE DEF Register
        <4>1. QED
          BY <3>2, AppendKeepsFirst
      <3>4. /\ heldObjects' # <<>>
            /\ heldObjects # <<>> => heldObjects'[1] = heldObjects[1]
        BY <3>1, <3>3, Zenon
      <3>5. QED
        BY <3>4 DEF Inv, TypeOK, FirstObject
    <2>3. QED
      BY <2>1, <2>2
  <1>7. QED
    BY <1>1, <1>2, <1>3, <1>4, <1>5, <1>6 DEF Inv

LEMMA InvStep == Inv /\ [Next]_vars => Inv'
  <1> SUFFICES ASSUME Inv, [Next]_vars PROVE Inv'
    OBVIOUS
  <1>1. CASE Connecting
    <2>1. OpenFails \/ NoStream => Throws
      BY DEF OpenFails, NoStream
    <2>2. QED
      BY <1>1, <2>1, CreateClientKeepsInv, OpenConnectionKeepsInv, ThrowsKeepsInv,
         InitializeKeepsInv, HandshakeFailsKeepsInv DEF Connecting
  <1>2. CASE Disconnect \/ DisconnectThrows
    BY <1>2, DisconnectKeepsInv, DisconnectThrowsKeepsInv
  <1>3. ASSUME NEW k \in Attempts, Breaking(k) PROVE Inv'
    BY <1>3, NetworkFailsKeepsInv, HandlingFailsKeepsInv, DatagramFailsKeepsInv,
       EndThrowsKeepsInv DEF Breaking
  <1>4. ASSUME NEW k \in Attempts, Listening(k) PROVE Inv'
    BY <1>4, StartListeningKeepsInv, ReadingFailsKeepsInv, ListenerEndsKeepsInv DEF Listening
  <1>5. ASSUME NEW k \in Attempts, Receiving(k) \/ HandlerEnds(k) PROVE Inv'
    BY <1>5, ReceivingFailsKeepsInv, ReceiverEndsKeepsInv, HandlerEndsKeepsInv DEF Receiving
  <1>6. ASSUME NEW t \in Senders, BeginSend(t) \/ Register(t) PROVE Inv'
    BY <1>6, BeginSendKeepsInv, RegisterKeepsInv
  <1>7. CASE UNCHANGED vars
    BY <1>7 DEF vars, fields, sockets, connect, threads, Inv, TypeOK, Fresh, OneClient,
                InProgress, Whole, FirstObject
  <1>8. QED
    BY <1>1, <1>2, <1>3, <1>4, <1>5, <1>6, <1>7 DEF Next

-----------------------------------------------------------------------------

LEMMA AlwaysInv == Spec => []Inv
  BY InvInit, InvStep, PTL DEF Spec

(* The type invariant of Connection. *)
THEOREM TypeCorrect == Spec => []TypeOK
  <1>1. Inv => TypeOK
    BY DEF Inv
  <1>2. QED
    BY <1>1, AlwaysInv, PTL

(* A connected client has its TcpClient, its writer, its socket for        *)
(* datagrams and a listener that will notice the end, and no socket stays  *)
(* open that the fields do not hold.                                       *)
THEOREM SessionsWhole == Spec => []SessionIsWhole
  <1>1. ASSUME Inv PROVE SessionIsWhole
    <2>1. CASE connected
      <3>1. internalClient \in Attempts
        BY <1>1, <2>1 DEF Inv, Whole, TypeOK, Attempts
      <3>2. \E k \in Attempts : \/ listener[k].pc \in {"started", "broken", "faulted"}
                                 \/ listener[k] = [pc |-> "reading", reads |-> internalClient]
        BY <1>1, <2>1, <3>1 DEF Inv, Whole
      <3>3. QED
        BY <1>1, <2>1, <3>2 DEF Inv, Whole, OneClient, SessionIsWhole, Live
    <2>2. CASE ~ connected
      BY <1>1, <2>2 DEF Inv, OneClient, SessionIsWhole, Live
    <2>3. QED
      BY <2>1, <2>2
  <1>2. QED
    BY <1>1, AlwaysInv, PTL

(* In every session the client is the object with ID 0, unless an object   *)
(* was registered in no session.                                           *)
THEOREM ClientAtZero == Spec => []ClientIsAtZero
  <1>1. Inv => ClientIsAtZero
    BY DEF Inv, FirstObject, ClientIsAtZero
  <1>2. QED
    BY <1>1, AlwaysInv, PTL

(* A session with a sound network is ended by Disconnect, by a thread of   *)
(* an earlier session, or by one of its own that could not handle a        *)
(* message; no thread of it gives up because the network is silent.        *)
THEOREM SoundSessionsStay == Spec => SoundSessionsLast
  <1> DEFINE Earlier == \E k \in 1 .. internalClient - 1 :
                            \/ listener'[k] # listener[k] \/ receiver'[k] # receiver[k]
                            \/ (k \in handlers) # (k \in handlers')
             Own == \/ listener[internalClient].pc = "faulted" /\ listener' # listener
                    \/ receiver[internalClient] = "faulted" /\ receiver' # receiver
                    \/ internalClient \in handlers \ handlers'
  <1>1. ASSUME Inv, Next, connected, tcp[internalClient] = "open", ~ connected'
        PROVE  disconnects' # disconnects \/ Earlier \/ Own
    <2> internalClient = attempts /\ internalClient \in Attempts
      BY <1>1 DEF Inv, TypeOK, Whole, OneClient, Attempts
    <2>0. ASSUME NEW k \in Attempts, k # internalClient, k <= attempts
          PROVE  k \in 1 .. internalClient - 1
      BY <2>0, ConnectionAssumption DEF Attempts
    <2>1. CASE Disconnect \/ DisconnectThrows
      <3>1. disconnects' = disconnects + 1 /\ disconnects \in Nat
        BY <1>1, <2>1, ConnectionAssumption DEF Disconnect, DisconnectThrows, Inv, TypeOK
      <3>2. QED
        BY <3>1
    <2>2. ASSUME NEW k \in Attempts, ListenerEnds(k) PROVE Earlier \/ Own
      <3>1. listener[k].pc \in {"broken", "faulted"} /\ listener'[k] # listener[k]
        BY <1>1, <2>2 DEF ListenerEnds, Inv, TypeOK
      <3>2. CASE k = internalClient
        BY <1>1, <3>1, <3>2 DEF Inv, TypeOK, Whole
      <3>3. CASE k # internalClient
        <4>1. k <= attempts
          BY <1>1, <3>1 DEF Inv, TypeOK, Fresh, Attempts
        <4>2. QED
          BY <2>0, <3>1, <3>3, <4>1
      <3>4. QED
        BY <3>2, <3>3
    <2>3. ASSUME NEW k \in Attempts, ReceiverEnds(k) PROVE Earlier \/ Own
      <3>1. receiver[k] \in {"broken", "faulted"} /\ receiver'[k] # receiver[k]
        BY <1>1, <2>3 DEF ReceiverEnds, Inv, TypeOK
      <3>2. CASE k = internalClient
        BY <1>1, <3>1, <3>2 DEF Inv, TypeOK, Whole
      <3>3. CASE k # internalClient
        <4>1. k <= attempts
          BY <1>1, <3>1 DEF Inv, TypeOK, Fresh, Attempts
        <4>2. QED
          BY <2>0, <3>1, <3>3, <4>1
      <3>4. QED
        BY <3>2, <3>3
    <2>4. ASSUME NEW k \in Attempts, HandlerEnds(k) PROVE Earlier \/ Own
      <3>1. k \in handlers /\ k \notin handlers' /\ k <= attempts
        BY <1>1, <2>4 DEF HandlerEnds, Inv, TypeOK, Fresh, Attempts
      <3>2. CASE k = internalClient
        BY <3>1, <3>2
      <3>3. CASE k # internalClient
        BY <2>0, <3>1, <3>3
      <3>4. QED
        BY <3>2, <3>3
    <2>5. CASE Connecting
      BY <1>1, <2>5 DEF Connecting, CreateClient, OpenConnection, OpenFails, NoStream, Throws,
                        InitializeClientConnection, HandshakeFails, fields
    <2>6. CASE \E k \in Attempts : \/ Breaking(k) \/ StartListening(k) \/ ReadingFails(k)
                                   \/ ReceivingFails(k)
      BY <1>1, <2>6 DEF Breaking, NetworkFails, HandlingFails, DatagramFails, EndThrows,
                        StartListening, ReadingFails, ReceivingFails, fields
    <2>7. CASE \E t \in Senders : BeginSend(t) \/ Register(t)
      BY <1>1, <2>7 DEF BeginSend, Register, fields
    <2>8. QED
      BY <1>1, <2>1, <2>2, <2>3, <2>4, <2>5, <2>6, <2>7 DEF Next, Listening, Receiving
  <1>2. Inv /\ [Next]_vars =>
            [connected /\ tcp[internalClient] = "open" /\ ~ connected' =>
                 disconnects' # disconnects \/ Earlier \/ Own]_vars
    BY <1>1
  <1>3. QED
    BY <1>2, AlwaysInv, PTL DEF Spec, SoundSessionsLast
=============================================================================
