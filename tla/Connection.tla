----------------------------- MODULE Connection -----------------------------
(***************************************************************************)
(* The connections of one ImpClient, one after the other (src/Imp/         *)
(* ImpClient.cs): Connect or ConnectAsync on one thread, Disconnect from   *)
(* any, and the threads each session leaves behind, its listener and the   *)
(* callbacks that receive datagrams, which end whatever session the client *)
(* has by the time they get Locker.  What happens under Locker is one      *)
(* step.  Calls and references within a session are in RemoteCalls and     *)
(* SharedObjects.  The k-th attempt to connect makes TcpClient k, and, if  *)
(* it gets that far, UdpClient k; 0 is null.                               *)
(***************************************************************************)
EXTENDS Naturals, Sequences, FiniteSets

CONSTANTS MaxAttempts,      \* bound: calls of Connect
          MaxDisconnects,   \* bound: calls of Disconnect
          Senders,          \* threads that send one message each
          Client,           \* the client itself, as a shared object
          Shared            \* the object that the messages refer to

ASSUME ConnectionAssumption ==
    MaxAttempts \in Nat /\ MaxDisconnects \in Nat /\ Client # Shared

VARIABLES connected, internalClient, messageWriter, unreliableClient,   \* fields
          heldObjects,              \* its objects, in the order of their IDs
          tcp, udp,                 \* each TcpClient and UdpClient
          attempts, connecting,     \* the call of Connect
          listener, receiver,       \* the threads of each session, which wait for messages
          handlers,                 \* sessions with a datagram whose message has failed
          disconnects,
          sender,                   \* the sending threads
          strays,                   \* history: objects registered in no session
          crashed                   \* an exception has ended the process

fields == <<connected, internalClient, messageWriter, unreliableClient, heldObjects>>
sockets == <<tcp, udp>>
connect == <<attempts, connecting>>
threads == <<listener, receiver, handlers>>
vars == <<fields, sockets, connect, threads, disconnects, sender, strays, crashed>>

Attempts == 1 .. MaxAttempts

TypeOK ==
    /\ connected \in BOOLEAN
    /\ {internalClient, messageWriter, unreliableClient, attempts} \subseteq 0 .. MaxAttempts
    /\ heldObjects \in Seq({Client, Shared})
    /\ tcp \in [Attempts -> {"none", "new", "open", "failed", "closed"}]
    /\ udp \in [Attempts -> {"none", "open", "closed"}]
    /\ connecting \in {"idle", "created", "opened"}
    /\ listener \in [Attempts -> [pc : {"none", "started", "reading", "faulted", "broken", "ended"},
                                  reads : 0 .. MaxAttempts]]
    /\ receiver \in [Attempts -> {"none", "waiting", "faulted", "broken", "ended"}]
    /\ handlers \subseteq Attempts
    /\ disconnects \in 0 .. MaxDisconnects
    /\ sender \in [Senders -> {"idle", "serializing", "sending", "done"}]
    /\ strays \in BOOLEAN /\ crashed \in BOOLEAN

Init ==
    /\ connected = FALSE /\ internalClient = 0 /\ messageWriter = 0 /\ unreliableClient = 0
    /\ heldObjects = <<>>
    /\ tcp = [k \in Attempts |-> "none"] /\ udp = [k \in Attempts |-> "none"]
    /\ attempts = 0 /\ connecting = "idle"
    /\ listener = [k \in Attempts |-> [pc |-> "none", reads |-> 0]]
    /\ receiver = [k \in Attempts |-> "none"] /\ handlers = {}
    /\ disconnects = 0
    /\ sender = [t \in Senders |-> "idle"]
    /\ strays = FALSE /\ crashed = FALSE

-----------------------------------------------------------------------------
(* Connect.  An exception leaves the fields as they are.                   *)

Throws ==
    /\ connecting' = "idle"
    /\ UNCHANGED <<fields, sockets, attempts, threads, disconnects, sender, strays, crashed>>

CreateClient ==
    /\ connecting = "idle" /\ attempts < MaxAttempts
    /\ ~ connected /\ internalClient = 0
    /\ attempts' = attempts + 1
    /\ internalClient' = attempts'
    /\ tcp' = [tcp EXCEPT ![attempts'] = "new"]
    /\ connecting' = "created"
    /\ UNCHANGED <<connected, messageWriter, unreliableClient, heldObjects, udp, threads,
                   disconnects, sender, strays, crashed>>

(* A stale thread or Disconnect may have closed InternalClient, and set it *)
(* to null.                                                                *)
OpenConnection ==
    /\ connecting = "created"
    /\ internalClient # 0
    /\ tcp[internalClient] = "new"
    /\ tcp' = [tcp EXCEPT ![internalClient] = "open"]
    /\ connecting' = "opened"
    /\ UNCHANGED <<fields, udp, attempts, threads, disconnects, sender, strays, crashed>>

OpenFails == connecting = "created" /\ Throws

(* Mutant: the client is held from its construction on, not from each      *)
(* handshake on.                                                           *)
InitializeWithoutHolding ==
    /\ connecting = "opened"
    /\ internalClient # 0
    /\ tcp[internalClient] = "open"
    /\ messageWriter' = internalClient
    /\ unreliableClient' = internalClient
    /\ udp' = [udp EXCEPT ![internalClient] = "open"]
    /\ heldObjects' = IF attempts = 1 THEN Append(heldObjects, Client) ELSE heldObjects
    /\ receiver' = [receiver EXCEPT ![internalClient] = "waiting"]
    /\ connected' = TRUE
    /\ listener' = [listener EXCEPT ![internalClient] = [pc |-> "started", reads |-> 0]]
    /\ connecting' = "idle"
    /\ UNCHANGED <<internalClient, tcp, attempts, handlers, disconnects, sender, strays, crashed>>

InitializeClientConnection ==
    /\ connecting = "opened"
    /\ internalClient # 0
    /\ tcp[internalClient] = "open"
    /\ messageWriter' = internalClient
    /\ unreliableClient' = internalClient
    /\ udp' = [udp EXCEPT ![internalClient] = "open"]
    /\ heldObjects' = Append(heldObjects, Client)
    /\ receiver' = [receiver EXCEPT ![internalClient] = "waiting"]
    /\ connected' = TRUE
    /\ listener' = [listener EXCEPT ![internalClient] = [pc |-> "started", reads |-> 0]]
    /\ connecting' = "idle"
    /\ UNCHANGED <<internalClient, tcp, attempts, handlers, disconnects, sender, strays, crashed>>

(* The server's part of the handshake cannot be read, before or after the  *)
(* socket for datagrams has been made.                                     *)
HandshakeFails ==
    /\ connecting = "opened"
    /\ internalClient # 0
    /\ tcp[internalClient] \in {"open", "failed"}
    /\ messageWriter' = internalClient
    /\ heldObjects' = Append(heldObjects, Client)
    /\ \/ UNCHANGED <<unreliableClient, udp, receiver>>
       \/ /\ unreliableClient' = internalClient
          /\ udp' = [udp EXCEPT ![internalClient] = "open"]
          /\ receiver' = [receiver EXCEPT ![internalClient] = "waiting"]
    /\ connecting' = "idle"
    /\ UNCHANGED <<connected, internalClient, tcp, attempts, listener, handlers, disconnects, sender,
                   strays, crashed>>

(* GetStream throws before anything is done. *)
NoStream ==
    /\ connecting = "opened"
    /\ internalClient # 0 => tcp[internalClient] \in {"failed", "closed"}
    /\ Throws

-----------------------------------------------------------------------------
(* The end of a session. *)

(* Mutant: the socket for datagrams stays open. *)
ProcessDisconnectionOfTcp ==
    /\ tcp' = [k \in Attempts |-> IF k = internalClient THEN "closed" ELSE tcp[k]]
    /\ heldObjects' = <<>>
    /\ connected' = FALSE
    /\ internalClient' = 0
    /\ UNCHANGED <<udp, messageWriter, unreliableClient>>

ProcessDisconnection ==
    /\ tcp' = [k \in Attempts |-> IF k = internalClient THEN "closed" ELSE tcp[k]]
    /\ udp' = [k \in Attempts |-> IF k = unreliableClient THEN "closed" ELSE udp[k]]
    /\ heldObjects' = <<>>
    /\ connected' = FALSE
    /\ internalClient' = 0
    /\ UNCHANGED <<messageWriter, unreliableClient>>

(* An operation that it is to fail has just been removed by a listener,    *)
(* which takes no lock: SetException throws, with the sockets closed and   *)
(* everything else as it was.                                              *)
AnotherReads(k) == \E j \in Attempts \ {k} : listener[j].pc = "reading"

Disconnect ==
    /\ disconnects < MaxDisconnects
    /\ disconnects' = disconnects + 1
    /\ ProcessDisconnection
    /\ UNCHANGED <<connect, threads, sender, strays, crashed>>

DisconnectThrows ==
    /\ disconnects < MaxDisconnects
    /\ AnotherReads(0)
    /\ disconnects' = disconnects + 1
    /\ tcp' = [k \in Attempts |-> IF k = internalClient THEN "closed" ELSE tcp[k]]
    /\ udp' = [k \in Attempts |-> IF k = unreliableClient THEN "closed" ELSE udp[k]]
    /\ UNCHANGED <<fields, connect, threads, sender, strays, crashed>>

NetworkFails(k) ==
    /\ tcp[k] = "open"
    /\ tcp' = [tcp EXCEPT ![k] = "failed"]
    /\ UNCHANGED <<fields, udp, connect, threads, disconnects, sender, strays, crashed>>

(* A listener takes its stream from the field when it starts to run, which *)
(* may be another session's by then.                                       *)
StartListening(k) ==
    /\ listener[k].pc = "started"
    /\ listener' = [listener EXCEPT ![k] =
           IF internalClient # 0 /\ tcp[internalClient] \in {"open", "failed"}
           THEN [pc |-> "reading", reads |-> internalClient]
           ELSE [pc |-> "broken", reads |-> 0]]
    /\ UNCHANGED <<fields, sockets, connect, receiver, handlers, disconnects, sender, strays, crashed>>

(* Mutant: the end of the stream is not an error. *)
StreamClosed(k) == tcp[k] = "closed"

(* Mutant: a read that waits too long fails as well. *)
StreamEndsOrWaits(k) == tcp[k] \in {"open", "failed", "closed"}

StreamEnds(k) == tcp[k] \in {"failed", "closed"}

ReadingFails(k) ==
    /\ listener[k].pc = "reading"
    /\ StreamEnds(listener[k].reads)
    /\ listener' = [listener EXCEPT ![k].pc = "broken"]
    /\ UNCHANGED <<fields, sockets, connect, receiver, handlers, disconnects, sender, strays, crashed>>

(* A message cannot be handled: Deserialize or its callback throws (an     *)
(* object it names is not there, or there are too many), or it is not one, *)
(* because another listener reads from the same stream.                    *)
HandlingFails(k) ==
    /\ listener[k].pc = "reading"
    /\ listener' = [listener EXCEPT ![k].pc = "faulted"]
    /\ UNCHANGED <<fields, sockets, connect, receiver, handlers, disconnects, sender, strays, crashed>>

(* Closing the socket runs the callback, whose EndReceive then throws.     *)
ReceivingFails(k) ==
    /\ receiver[k] = "waiting"
    /\ udp[k] = "closed"
    /\ receiver' = [receiver EXCEPT ![k] = "broken"]
    /\ UNCHANGED <<fields, sockets, connect, listener, handlers, disconnects, sender, strays, crashed>>

(* EndReceive throws, or a datagram cannot be handled; in this case the    *)
(* next callback has been registered already.                              *)
DatagramFails(k) ==
    /\ receiver[k] = "waiting"
    /\ udp[k] = "open"
    /\ \/ receiver' = [receiver EXCEPT ![k] = "faulted"] /\ UNCHANGED handlers
       \/ handlers' = handlers \cup {k} /\ UNCHANGED receiver
    /\ UNCHANGED <<fields, sockets, connect, listener, disconnects, sender, strays, crashed>>

(* Their catch blocks, which end the session there is by then. *)
ListenerEnds(k) ==
    /\ listener[k].pc \in {"broken", "faulted"}
    /\ listener' = [listener EXCEPT ![k].pc = "ended"]
    /\ ProcessDisconnection
    /\ UNCHANGED <<connect, receiver, handlers, disconnects, sender, strays, crashed>>

ReceiverEnds(k) ==
    /\ receiver[k] \in {"broken", "faulted"}
    /\ receiver' = [receiver EXCEPT ![k] = "ended"]
    /\ ProcessDisconnection
    /\ UNCHANGED <<connect, listener, handlers, disconnects, sender, strays, crashed>>

HandlerEnds(k) ==
    /\ k \in handlers
    /\ handlers' = handlers \ {k}
    /\ ProcessDisconnection
    /\ UNCHANGED <<connect, listener, receiver, disconnects, sender, strays, crashed>>

(* The exception of ProcessDisconnection leaves a catch block. *)
EndThrows(k) ==
    /\ \/ listener[k].pc \in {"broken", "faulted"} /\ AnotherReads(k)
       \/ (receiver[k] \in {"broken", "faulted"} \/ k \in handlers) /\ AnotherReads(0)
    /\ crashed' = TRUE
    /\ UNCHANGED <<fields, sockets, connect, threads, disconnects, sender, strays>>

-----------------------------------------------------------------------------
(* A thread that uses the connection. *)

BeginSend(t) ==
    /\ sender[t] = "idle"
    /\ connected
    /\ sender' = [sender EXCEPT ![t] = "serializing"]
    /\ UNCHANGED <<fields, sockets, connect, threads, disconnects, strays, crashed>>

Register(t) ==
    /\ sender[t] = "serializing"
    /\ sender' = [sender EXCEPT ![t] = "done"]
    /\ heldObjects' = IF \E i \in DOMAIN heldObjects : heldObjects[i] = Shared THEN heldObjects
                      ELSE Append(heldObjects, Shared)
    /\ strays' = (strays \/ ~ connected)
    /\ UNCHANGED <<connected, internalClient, messageWriter, unreliableClient, sockets, connect,
                   threads, disconnects, crashed>>

-----------------------------------------------------------------------------

Connecting == \/ CreateClient \/ OpenConnection \/ OpenFails
              \/ InitializeClientConnection \/ HandshakeFails \/ NoStream
Breaking(k) == NetworkFails(k) \/ HandlingFails(k) \/ DatagramFails(k) \/ EndThrows(k)
Listening(k) == StartListening(k) \/ ReadingFails(k) \/ ListenerEnds(k)
Receiving(k) == ReceivingFails(k) \/ ReceiverEnds(k)

Next ==
    /\ ~ crashed
    /\ \/ Connecting \/ Disconnect \/ DisconnectThrows
       \/ \E k \in Attempts : Breaking(k) \/ Listening(k) \/ Receiving(k) \/ HandlerEnds(k)
       \/ \E t \in Senders : BeginSend(t) \/ Register(t)

Spec == Init /\ [][Next]_vars

(* Threads run on, and an attempt to connect ends; nobody has to connect,  *)
(* to disconnect or to send, and nothing has to fail.                      *)
FairSpec ==
    /\ Spec
    /\ WF_vars(~ crashed /\ connecting # "idle" /\ Connecting)
    /\ \A k \in Attempts :
           /\ WF_vars(~ crashed /\ Listening(k)) /\ WF_vars(~ crashed /\ Receiving(k))
           /\ WF_vars(~ crashed /\ HandlerEnds(k))

-----------------------------------------------------------------------------

(* A connected client has one TcpClient, the writer on its stream and its  *)
(* socket for datagrams, both closed if a Disconnect has thrown, and a     *)
(* thread that is going to notice its end; no socket is lost open: what is *)
(* not closed is what the next Disconnect closes, whatever attempts have   *)
(* failed and stale threads have done (Connect, InitializeClientConnection,*)
(* ProcessDisconnection).                                                  *)
SessionIsWhole ==
    /\ connected =>
           /\ internalClient # 0
           /\ messageWriter = internalClient /\ unreliableClient = internalClient
           /\ \/ tcp[internalClient] \in {"open", "failed"} /\ udp[internalClient] = "open"
              \/ /\ tcp[internalClient] = "closed" /\ udp[internalClient] = "closed"
                 /\ disconnects # 0
           /\ \E k \in Attempts : \/ listener[k].pc \in {"started", "broken", "faulted"}
                                  \/ listener[k] = [pc |-> "reading", reads |-> internalClient]
    /\ \A k \in Attempts :
           /\ tcp[k] \in {"new", "open", "failed"} => k = internalClient
           /\ udp[k] = "open" => k = unreliableClient

(* Where the server looks for the client, at ID 0, it finds the client in  *)
(* every session, unless an object was registered after the end of the     *)
(* session its message was begun in (InitializeClientConnection,           *)
(* GetOrRegisterLocalSharedObject, ProcessDisconnection).                  *)
ClientIsAtZero == connected /\ (heldObjects = <<>> \/ heldObjects[1] # Client) => strays

(* A session with a sound network is ended by Disconnect, by a thread that *)
(* an earlier session has left, or because a message of its own could not  *)
(* be handled ("the connection will be terminated"); no attempt to         *)
(* connect, no sender and no thread that only waits ends it                *)
(* (RunCommunications, ReceiveUnreliableData).                             *)
SoundSessionsLast ==
    [][connected /\ tcp[internalClient] = "open" /\ ~ connected' =>
           \/ disconnects' # disconnects
           \/ \E k \in 1 .. internalClient - 1 :
                  \/ listener'[k] # listener[k] \/ receiver'[k] # receiver[k]
                  \/ (k \in handlers) # (k \in handlers')
           \/ listener[internalClient].pc = "faulted" /\ listener' # listener
           \/ receiver[internalClient] = "faulted" /\ receiver' # receiver
           \/ internalClient \in handlers \ handlers']_vars

(* A session whose network has failed, or that Disconnect has closed and   *)
(* not ended, is ended, and the client can connect again, unless an        *)
(* exception ends the process (RunCommunications, ProcessDisconnection).   *)
BrokenSessionsEnd ==
    \A k \in Attempts :
        connected /\ internalClient = k /\ tcp[k] \in {"failed", "closed"}
            ~> internalClient # k \/ crashed
=============================================================================
