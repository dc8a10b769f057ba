---------------------------- MODULE ImpServerProofs ----------------------------
(***************************************************************************)
(* The server's registry, for any number of clients and identifiers and    *)
(* any limit: whoever holds the monitor of ActiveClients has reserved an   *)
(* ID that stays free until the client is added; an entry belongs to the   *)
(* client whose datagrams carry its ID; who has been removed is not added  *)
(* again, because a client that is being added keeps its own report, which *)
(* needs the monitor, waiting.                                             *)
(***************************************************************************)
EXTENDS ImpServer, IdentifierTheorems

InAdd == {"handshake", "created", "mistyped"}
NotStarted == {"none", "accepted", "closed", "admitted", "handshake", "failed"}
Added == {"announcing", "announced"}

TypeOK ==
    /\ accept \in [Clients -> NotStarted \cup InAdd \cup Added \cup {"refused"}]
    /\ monitor \in Clients \cup {NoClient}
    /\ registry \in [IDs -> Clients \cup {NoClient}]
    /\ networkID \in [Clients -> IDs]
    /\ connected \in [Clients -> BOOLEAN]
    /\ listener \in [Clients -> {"off", "running", "failed", "reporting", "ended"}]
    /\ locker \in [Clients -> {"free", "ending", "removed"}]
    /\ told \subseteq Clients /\ strays \subseteq Clients /\ crashed \in BOOLEAN
    /\ stop \in {"no", "disconnecting", "waiting", "reporting", "threw"}
    /\ stopping \subseteq Clients /\ stopTarget \in Clients \cup {NoClient}

(* Between the start of Add and its end the monitor is the connection's,   *)
(* and the ID that it has been given is free.                              *)
IDsReserved ==
    \A c \in Clients : accept[c] \in InAdd =>
        /\ monitor = c
        /\ registry[PreviousID(networkID[c])] = NoClient

EntriesOwned ==
    \A id \in IDs : registry[id] # NoClient =>
        /\ PreviousID(networkID[registry[id]]) = id
        /\ accept[registry[id]] \in Added

(* Nothing ends the session of a client before its listener is started. *)
NothingToEnd ==
    \A c \in Clients : accept[c] \in NotStarted =>
        /\ listener[c] = "off" /\ locker[c] = "free" /\ ~ connected[c]
        /\ c \notin stopping /\ c # stopTarget

EndingIsDisconnected == \A c \in Clients : locker[c] # "free" => ~ connected[c]

RemovedStayAway ==
    \A c \in Clients : locker[c] = "removed" \/ c \in told =>
        /\ accept[c] \in Added \cup {"refused"}
        /\ \A id \in IDs : registry[id] # c

ServerInv ==
    TypeOK /\ IDsReserved /\ EntriesOwned /\ NothingToEnd /\ EndingIsDisconnected
    /\ RemovedStayAway /\ ClientsListed

-----------------------------------------------------------------------------
(* Identifiers. *)

(* The ID a client is given is its network ID less one. *)
LEMMA PreviousOfNext ==
  /\ \A id \in IDs : PreviousID(NextID(id)) = id
  /\ \A id \in IDs : PreviousID(id) \in IDs
  BY CapacityAssumption DEF PreviousID, NextID, IDs

(* The search of Add finds a free ID. *)
LEMMA FreshIDIsFree ==
  ASSUME TypeOK, UsedIDs # IDs
  PROVE  NewID(UsedIDs) \in IDs /\ registry[NewID(UsedIDs)] = NoClient
  <1>1. NewID(UsedIDs) \in IDs \ UsedIDs
    BY NewIDIsFree DEF UsedIDs
  <1>2. QED
    BY <1>1 DEF UsedIDs

LEMMA ServerInvInit == Init => ServerInv
  <1> SUFFICES ASSUME Init PROVE ServerInv
    OBVIOUS
  <1>1. TypeOK
    <2>1. networkID \in [Clients -> IDs]
      BY CapacityAssumption DEF Init, IDs
    <2>2. QED
      BY <2>1 DEF Init, TypeOK, NotStarted
  <1>2. IDsReserved /\ EntriesOwned /\ NothingToEnd /\ EndingIsDisconnected
    BY ServerAssumption DEF Init, IDsReserved, EntriesOwned, NothingToEnd,
                            EndingIsDisconnected, InAdd
  <1>3. RemovedStayAway /\ ClientsListed
    BY DEF Init, RemovedStayAway, ClientsListed
  <1>4. QED
    BY <1>1, <1>2, <1>3 DEF ServerInv

(* A connection is accepted. *)
LEMMA AcceptKeepsInv ==
  ASSUME ServerInv, NEW c \in Clients, Accept(c)
  PROVE  ServerInv'
  <1> USE ServerAssumption DEF Accept, Proceed, Accepts,
           acceptVars, sessionVars, reportVars, stopVars
  <1>1. TypeOK'
    BY DEF ServerInv, TypeOK, NotStarted, InAdd, Added
  <1>2. IDsReserved'
    BY DEF ServerInv, TypeOK, IDsReserved, InAdd
  <1>3. EntriesOwned'
    BY DEF ServerInv, TypeOK, EntriesOwned, Added
  <1>4. NothingToEnd'
    BY DEF ServerInv, TypeOK, NothingToEnd, NotStarted
  <1>5. RemovedStayAway'
    BY DEF ServerInv, TypeOK, RemovedStayAway, Added
  <1>6. ClientsListed'
    BY DEF ServerInv, TypeOK, ClientsListed
  <1>7. EndingIsDisconnected'
    BY DEF ServerInv, EndingIsDisconnected
  <1>8. QED
    BY <1>1, <1>2, <1>3, <1>4, <1>5, <1>6, <1>7 DEF ServerInv

(* Too many clients. *)
LEMMA TurnAwayKeepsInv ==
  ASSUME ServerInv, NEW c \in Clients, TurnAway(c)
  PROVE  ServerInv'
  <1> USE ServerAssumption DEF TurnAway, Proceed, Accepts,
           acceptVars, sessionVars, reportVars, stopVars
  <1>1. TypeOK'
    BY DEF ServerInv, TypeOK, NotStarted, InAdd, Added
  <1>2. IDsReserved'
    BY DEF ServerInv, TypeOK, IDsReserved, InAdd
  <1>3. EntriesOwned'
    BY DEF ServerInv, TypeOK, EntriesOwned, Added
  <1>4. NothingToEnd'
    BY DEF ServerInv, TypeOK, NothingToEnd, NotStarted
  <1>5. RemovedStayAway'
    BY DEF ServerInv, TypeOK, RemovedStayAway, Added
  <1>6. ClientsListed'
    BY DEF ServerInv, TypeOK, ClientsListed
  <1>7. EndingIsDisconnected'
    BY DEF ServerInv, EndingIsDisconnected
  <1>8. QED
    BY <1>1, <1>2, <1>3, <1>4, <1>5, <1>6, <1>7 DEF ServerInv

(* Not too many. *)
LEMMA AdmitKeepsInv ==
  ASSUME ServerInv, NEW c \in Clients, Admit(c)
  PROVE  ServerInv'
  <1> USE ServerAssumption DEF Admit, Proceed, Accepts,
           acceptVars, sessionVars, reportVars, stopVars
  <1>1. TypeOK'
    BY DEF ServerInv, TypeOK, NotStarted, InAdd, Added
  <1>2. IDsReserved'
    BY DEF ServerInv, TypeOK, IDsReserved, InAdd
  <1>3. EntriesOwned'
    BY DEF ServerInv, TypeOK, EntriesOwned, Added
  <1>4. NothingToEnd'
    BY DEF ServerInv, TypeOK, NothingToEnd, NotStarted
  <1>5. RemovedStayAway'
    BY DEF ServerInv, TypeOK, RemovedStayAway, Added
  <1>6. ClientsListed'
    BY DEF ServerInv, TypeOK, ClientsListed
  <1>7. EndingIsDisconnected'
    BY DEF ServerInv, EndingIsDisconnected
  <1>8. QED
    BY <1>1, <1>2, <1>3, <1>4, <1>5, <1>6, <1>7 DEF ServerInv

(* The monitor is taken and an ID is reserved. *)
LEMMA EnterAddKeepsInv ==
  ASSUME ServerInv, NEW c \in Clients, EnterAdd(c)
  PROVE  ServerInv'
  <1> USE ServerAssumption DEF EnterAdd, Proceed, Accepts,
           acceptVars, sessionVars, reportVars, stopVars
  <1>1. TypeOK'
    <2>1. NextID(NewID(UsedIDs)) \in IDs
      BY FreshIDIsFree, NextIDIsID DEF ServerInv
    <2>2. QED
      BY <2>1 DEF ServerInv, TypeOK, NotStarted, InAdd, Added
  <1>2. IDsReserved'
    <2> SUFFICES ASSUME NEW d \in Clients, accept'[d] \in InAdd
                 PROVE  monitor' = d /\ registry[PreviousID(networkID'[d])] = NoClient
      BY DEF IDsReserved
    <2>1. d = c
      BY DEF ServerInv, TypeOK, IDsReserved
    <2>2. networkID'[c] = NextID(NewID(UsedIDs))
      BY DEF ServerInv, TypeOK
    <2>3. PreviousID(networkID'[c]) = NewID(UsedIDs) /\ registry[NewID(UsedIDs)] = NoClient
      BY <2>2, FreshIDIsFree, PreviousOfNext DEF ServerInv
    <2>4. QED
      BY <2>1, <2>3
  <1>3. EntriesOwned'
    BY DEF ServerInv, TypeOK, EntriesOwned, Added
  <1>4. NothingToEnd'
    BY DEF ServerInv, TypeOK, NothingToEnd, NotStarted
  <1>5. RemovedStayAway'
    BY DEF ServerInv, TypeOK, RemovedStayAway, Added
  <1>6. ClientsListed'
    BY DEF ServerInv, TypeOK, ClientsListed
  <1>7. EndingIsDisconnected'
    BY DEF ServerInv, EndingIsDisconnected
  <1>8. QED
    BY <1>1, <1>2, <1>3, <1>4, <1>5, <1>6, <1>7 DEF ServerInv

(* The monitor is released and the ID given up. *)
LEMMA HandshakeFailsKeepsInv ==
  ASSUME ServerInv, NEW c \in Clients, HandshakeFails(c)
  PROVE  ServerInv'
  <1> USE ServerAssumption DEF HandshakeFails, Proceed, Accepts, Release,
           acceptVars, sessionVars, reportVars, stopVars
  <1>1. TypeOK'
    BY DEF ServerInv, TypeOK, NotStarted, InAdd, Added
  <1>2. IDsReserved'
    BY DEF ServerInv, TypeOK, IDsReserved, InAdd
  <1>3. EntriesOwned'
    BY DEF ServerInv, TypeOK, EntriesOwned, Added
  <1>4. NothingToEnd'
    BY DEF ServerInv, TypeOK, NothingToEnd, NotStarted
  <1>5. RemovedStayAway'
    BY DEF ServerInv, TypeOK, RemovedStayAway, Added
  <1>6. ClientsListed'
    BY DEF ServerInv, TypeOK, ClientsListed
  <1>7. EndingIsDisconnected'
    BY DEF ServerInv, EndingIsDisconnected
  <1>8. QED
    BY <1>1, <1>2, <1>3, <1>4, <1>5, <1>6, <1>7 DEF ServerInv

(* The listener of a client starts while it is being added. *)
LEMMA StartClientKeepsInv ==
  ASSUME ServerInv, NEW c \in Clients, NEW type \in {"created", "mistyped"}, StartClient(c, type)
  PROVE  ServerInv'
  <1> USE ServerAssumption DEF StartClient, Proceed, Accepts,
           acceptVars, sessionVars, reportVars, stopVars
  <1>1. TypeOK'
    BY DEF ServerInv, TypeOK, NotStarted, InAdd, Added
  <1>2. IDsReserved'
    BY DEF ServerInv, TypeOK, IDsReserved, InAdd
  <1>3. EntriesOwned'
    BY DEF ServerInv, TypeOK, EntriesOwned, Added
  <1>4. NothingToEnd'
    BY DEF ServerInv, TypeOK, NothingToEnd, NotStarted
  <1>5. EndingIsDisconnected'
    BY DEF ServerInv, TypeOK, EndingIsDisconnected, NothingToEnd, NotStarted
  <1>6. RemovedStayAway'
    BY DEF ServerInv, TypeOK, RemovedStayAway, Added
  <1>7. ClientsListed'
    BY DEF ServerInv, TypeOK, ClientsListed
  <1>8. QED
    BY <1>1, <1>2, <1>3, <1>4, <1>5, <1>6, <1>7 DEF ServerInv

(* A client of the wrong type is not added. *)
LEMMA CheckFailsKeepsInv ==
  ASSUME ServerInv, NEW c \in Clients, CheckFails(c)
  PROVE  ServerInv'
  <1> USE ServerAssumption DEF CheckFails, Proceed, Accepts, Release,
           acceptVars, sessionVars, reportVars, stopVars
  <1>1. TypeOK'
    BY DEF ServerInv, TypeOK, NotStarted, InAdd, Added
  <1>2. IDsReserved'
    BY DEF ServerInv, TypeOK, IDsReserved, InAdd
  <1>3. EntriesOwned'
    BY DEF ServerInv, TypeOK, EntriesOwned, Added
  <1>4. NothingToEnd'
    BY DEF ServerInv, TypeOK, NothingToEnd, NotStarted
  <1>5. RemovedStayAway'
    BY DEF ServerInv, TypeOK, RemovedStayAway, Added
  <1>6. ClientsListed'
    BY DEF ServerInv, TypeOK, ClientsListed
  <1>7. EndingIsDisconnected'
    BY DEF ServerInv, EndingIsDisconnected
  <1>8. QED
    BY <1>1, <1>2, <1>3, <1>4, <1>5, <1>6, <1>7 DEF ServerInv

(* The client is added at the ID reserved for it. *)
LEMMA RegisterKeepsInv ==
  ASSUME ServerInv, NEW c \in Clients, Register(c)
  PROVE  ServerInv'
  <1> USE ServerAssumption DEF Register, Proceed, Accepts, Release,
           acceptVars, sessionVars, reportVars, stopVars
  <1>1. TypeOK'
    BY DEF ServerInv, TypeOK, NotStarted, InAdd, Added
  <1>2. IDsReserved'
    BY DEF ServerInv, TypeOK, IDsReserved, InAdd
  <1>3. EntriesOwned'
    BY DEF ServerInv, TypeOK, EntriesOwned, Added
  <1>4. NothingToEnd'
    BY DEF ServerInv, TypeOK, NothingToEnd, NotStarted
  <1>5. RemovedStayAway'
    BY DEF ServerInv, TypeOK, RemovedStayAway, Added
  <1>6. ClientsListed'
    <2> SUFFICES ASSUME strays = {}, NEW d \in Clients, accept'[d] \in Added, connected[d]
                 PROVE  registry'[PreviousID(networkID[d])] = d
      BY DEF ClientsListed, Added
    <2>1. /\ PreviousID(networkID[c]) \in IDs
          /\ registry[PreviousID(networkID[c])] = NoClient
      BY PreviousOfNext DEF ServerInv, TypeOK, IDsReserved, InAdd
    <2>2. CASE d = c
      BY <2>1, <2>2 DEF ServerInv, TypeOK
    <2>3. CASE d # c
      <3>1. accept[d] \in Added
        BY <2>3 DEF ServerInv, TypeOK
      <3>2. registry[PreviousID(networkID[d])] = d
        BY <3>1 DEF ServerInv, ClientsListed, Added
      <3>3. PreviousID(networkID[d]) # PreviousID(networkID[c])
        BY <3>2, <2>1
      <3>4. QED
        BY <3>2, <3>3 DEF ServerInv, TypeOK
    <2>4. QED
      BY <2>2, <2>3
  <1>7. EndingIsDisconnected'
    BY DEF ServerInv, EndingIsDisconnected
  <1>8. QED
    BY <1>1, <1>2, <1>3, <1>4, <1>5, <1>6, <1>7 DEF ServerInv

(* The client is announced. *)
LEMMA AnnounceKeepsInv ==
  ASSUME ServerInv, NEW c \in Clients, Announce(c)
  PROVE  ServerInv'
  <1> USE ServerAssumption DEF Announce, Proceed, Accepts,
           acceptVars, sessionVars, reportVars, stopVars
  <1>1. TypeOK'
    BY DEF ServerInv, TypeOK, NotStarted, InAdd, Added
  <1>2. IDsReserved'
    BY DEF ServerInv, TypeOK, IDsReserved, InAdd
  <1>3. EntriesOwned'
    BY DEF ServerInv, TypeOK, EntriesOwned, Added
  <1>4. NothingToEnd'
    BY DEF ServerInv, TypeOK, NothingToEnd, NotStarted
  <1>5. RemovedStayAway'
    BY DEF ServerInv, TypeOK, RemovedStayAway, Added
  <1>6. ClientsListed'
    BY DEF ServerInv, TypeOK, ClientsListed
  <1>7. EndingIsDisconnected'
    BY DEF ServerInv, EndingIsDisconnected
  <1>8. QED
    BY <1>1, <1>2, <1>3, <1>4, <1>5, <1>6, <1>7 DEF ServerInv

(* The end of a connection is noticed. *)
LEMMA ListenerFailsKeepsInv ==
  ASSUME ServerInv, NEW c \in Clients, ListenerFails(c)
  PROVE  ServerInv'
  <1> USE ServerAssumption DEF ListenerFails, Accepts,
           acceptVars, sessionVars, reportVars, stopVars
  <1>1. TypeOK'
    BY DEF ServerInv, TypeOK, NotStarted, InAdd, Added
  <1>2. NothingToEnd'
    BY DEF ServerInv, TypeOK, NothingToEnd, NotStarted
  <1>3. IDsReserved' /\ EntriesOwned' /\ EndingIsDisconnected' /\ RemovedStayAway' /\
        ClientsListed'
    BY DEF ServerInv, IDsReserved, EntriesOwned, EndingIsDisconnected, RemovedStayAway,
           ClientsListed
  <1>4. QED
    BY <1>1, <1>2, <1>3 DEF ServerInv

(* The session is ended, by the listener, unless it has been. *)
LEMMA ListenerEndsKeepsInv ==
  ASSUME ServerInv, NEW c \in Clients, ListenerEnds(c)
  PROVE  ServerInv'
  <1> USE ServerAssumption DEF ListenerEnds, Accepts,
           acceptVars, sessionVars, reportVars, stopVars
  <1>1. TypeOK'
    BY DEF ServerInv, TypeOK, NotStarted, InAdd, Added
  <1>2. NothingToEnd'
    BY DEF ServerInv, TypeOK, NothingToEnd, NotStarted
  <1>3. EndingIsDisconnected'
    BY DEF ServerInv, TypeOK, EndingIsDisconnected
  <1>4. RemovedStayAway'
    BY DEF ServerInv, TypeOK, RemovedStayAway, Added
  <1>5. ClientsListed'
    BY DEF ServerInv, TypeOK, ClientsListed
  <1>6. IDsReserved' /\ EntriesOwned'
    BY DEF ServerInv, IDsReserved, EntriesOwned
  <1>7. QED
    BY <1>1, <1>2, <1>3, <1>4, <1>5, <1>6 DEF ServerInv

(* The client, or whoever has ID 0, is removed. *)
LEMMA ReportKeepsInv ==
  ASSUME ServerInv, NEW c \in Clients, Report(c)
  PROVE  ServerInv'
  <1> USE ServerAssumption DEF Report, Registered, UsedIDs,
           acceptVars, sessionVars, reportVars, stopVars
  <1>1. TypeOK'
    BY DEF ServerInv, TypeOK, NotStarted, InAdd, Added
  <1>2. IDsReserved'
    BY DEF ServerInv, TypeOK, IDsReserved, InAdd
  <1>3. EntriesOwned'
    BY DEF ServerInv, TypeOK, EntriesOwned, Added
  <1>4. NothingToEnd'
    BY DEF ServerInv, TypeOK, NothingToEnd, NotStarted
  <1>5. EndingIsDisconnected'
    BY DEF ServerInv, TypeOK, EndingIsDisconnected
  <1>6. RemovedStayAway'
    <2>1. accept[c] \in Added \cup {"refused"}
      BY DEF ServerInv, TypeOK, NothingToEnd, IDsReserved, NotStarted, InAdd, Added
    <2>2. \A id \in IDs : registry'[id] # c
      BY DEF ServerInv, TypeOK
    <2>3. \A id \in IDs : registry'[id] \in {registry[id], NoClient}
      BY DEF ServerInv, TypeOK
    <2>4. \A d \in Clients : locker'[d] = "removed" => d = c \/ locker[d] = "removed"
      BY DEF ServerInv, TypeOK
    <2>5. QED
      BY <2>1, <2>2, <2>3, <2>4 DEF ServerInv, RemovedStayAway
  <1>7. ClientsListed'
    <2> SUFFICES ASSUME strays' = {}, NEW d \in Clients, accept[d] \in Added, connected[d]
                 PROVE  registry'[PreviousID(networkID[d])] = d
      BY DEF ClientsListed, Added
    <2>1. c \in Registered /\ strays = {}
      BY DEF ServerInv, TypeOK
    <2>2. registry[PreviousID(networkID[d])] = d /\ PreviousID(networkID[d]) \in IDs
      BY <2>1, PreviousOfNext DEF ServerInv, TypeOK, ClientsListed, Added
    <2>3. d # c
      BY DEF ServerInv, EndingIsDisconnected
    <2>4. QED
      BY <2>1, <2>2, <2>3 DEF ServerInv, TypeOK
  <1>8. QED
    BY <1>1, <1>2, <1>3, <1>4, <1>5, <1>6, <1>7 DEF ServerInv

(* OnClientDisconnected is called for a client that has been removed. *)
LEMMA TellKeepsInv ==
  ASSUME ServerInv, NEW c \in Clients, Tell(c)
  PROVE  ServerInv'
  <1> USE ServerAssumption DEF Tell, Mistyped,
           acceptVars, sessionVars, reportVars, stopVars
  <1>1. TypeOK'
    BY DEF ServerInv, TypeOK, NotStarted, InAdd, Added
  <1>2. NothingToEnd'
    BY DEF ServerInv, TypeOK, NothingToEnd, NotStarted
  <1>3. EndingIsDisconnected'
    BY DEF ServerInv, TypeOK, EndingIsDisconnected
  <1>4. RemovedStayAway'
    BY DEF ServerInv, TypeOK, RemovedStayAway, Added
  <1>5. IDsReserved' /\ EntriesOwned' /\ ClientsListed'
    BY DEF ServerInv, IDsReserved, EntriesOwned, ClientsListed
  <1>6. QED
    BY <1>1, <1>2, <1>3, <1>4, <1>5 DEF ServerInv

(* The process ends. *)
LEMMA ErrorThrowsKeepsInv ==
  ASSUME ServerInv, NEW c \in Clients, ErrorThrows(c)
  PROVE  ServerInv'
  <1> USE ServerAssumption DEF ErrorThrows,
           acceptVars, sessionVars, reportVars, stopVars
  <1>1. TypeOK'
    BY DEF ServerInv, TypeOK, NotStarted, InAdd, Added
  <1>2. IDsReserved' /\ EntriesOwned' /\ NothingToEnd' /\ EndingIsDisconnected' /\
        RemovedStayAway' /\ ClientsListed'
    BY DEF ServerInv, IDsReserved, EntriesOwned, NothingToEnd, EndingIsDisconnected,
           RemovedStayAway, ClientsListed
  <1>3. QED
    BY <1>1, <1>2 DEF ServerInv

(* The clients to disconnect are those in the registry. *)
LEMMA BeginStopKeepsInv ==
  ASSUME ServerInv, BeginStop
  PROVE  ServerInv'
  <1> USE ServerAssumption DEF BeginStop, Stops, Registered, UsedIDs,
           acceptVars, sessionVars, reportVars, stopVars
  <1>1. TypeOK'
    BY DEF ServerInv, TypeOK, NotStarted, InAdd, Added
  <1>2. NothingToEnd'
    BY DEF ServerInv, TypeOK, NothingToEnd, EntriesOwned, NotStarted, Added
  <1>3. IDsReserved' /\ EntriesOwned' /\ EndingIsDisconnected' /\ RemovedStayAway' /\
        ClientsListed'
    BY DEF ServerInv, IDsReserved, EntriesOwned, EndingIsDisconnected, RemovedStayAway,
           ClientsListed
  <1>4. QED
    BY <1>1, <1>2, <1>3 DEF ServerInv

(* The process ends. *)
LEMMA PendingAcceptThrowsKeepsInv ==
  ASSUME ServerInv, PendingAcceptThrows
  PROVE  ServerInv'
  <1> USE ServerAssumption DEF PendingAcceptThrows,
           acceptVars, sessionVars, reportVars, stopVars
  <1>1. TypeOK'
    BY DEF ServerInv, TypeOK, NotStarted, InAdd, Added
  <1>2. IDsReserved' /\ EntriesOwned' /\ NothingToEnd' /\ EndingIsDisconnected' /\
        RemovedStayAway' /\ ClientsListed'
    BY DEF ServerInv, IDsReserved, EntriesOwned, NothingToEnd, EndingIsDisconnected,
           RemovedStayAway, ClientsListed
  <1>3. QED
    BY <1>1, <1>2 DEF ServerInv

(* Stop takes the next client. *)
LEMMA StopNextKeepsInv ==
  ASSUME ServerInv, NEW c \in Clients, StopNext(c)
  PROVE  ServerInv'
  <1> USE ServerAssumption DEF StopNext, Stops,
           acceptVars, sessionVars, reportVars, stopVars
  <1>1. TypeOK'
    BY DEF ServerInv, TypeOK, NotStarted, InAdd, Added
  <1>2. NothingToEnd'
    BY DEF ServerInv, TypeOK, NothingToEnd, NotStarted
  <1>3. IDsReserved' /\ EntriesOwned' /\ EndingIsDisconnected' /\ RemovedStayAway' /\
        ClientsListed'
    BY DEF ServerInv, IDsReserved, EntriesOwned, EndingIsDisconnected, RemovedStayAway,
           ClientsListed
  <1>4. QED
    BY <1>1, <1>2, <1>3 DEF ServerInv

(* Stop ends a session. *)
LEMMA StopClientKeepsInv ==
  ASSUME ServerInv, NEW c \in Clients, StopClient(c)
  PROVE  ServerInv'
  <1> USE ServerAssumption DEF StopClient, Stops,
           acceptVars, sessionVars, reportVars, stopVars
  <1>1. TypeOK'
    BY DEF ServerInv, TypeOK, NotStarted, InAdd, Added
  <1>2. NothingToEnd'
    BY DEF ServerInv, TypeOK, NothingToEnd, NotStarted
  <1>3. EndingIsDisconnected'
    BY DEF ServerInv, TypeOK, EndingIsDisconnected
  <1>4. RemovedStayAway'
    BY DEF ServerInv, TypeOK, RemovedStayAway, Added
  <1>5. ClientsListed'
    BY DEF ServerInv, TypeOK, ClientsListed
  <1>6. IDsReserved' /\ EntriesOwned'
    BY DEF ServerInv, IDsReserved, EntriesOwned
  <1>7. QED
    BY <1>1, <1>2, <1>3, <1>4, <1>5, <1>6 DEF ServerInv

(* An exception leaves Stop. *)
LEMMA DisconnectThrowsKeepsInv ==
  ASSUME ServerInv, NEW c \in Clients, DisconnectThrows(c)
  PROVE  ServerInv'
  <1> USE ServerAssumption DEF DisconnectThrows, Stops,
           acceptVars, sessionVars, reportVars, stopVars
  <1>1. TypeOK'
    BY DEF ServerInv, TypeOK, NotStarted, InAdd, Added
  <1>2. NothingToEnd'
    BY DEF ServerInv, TypeOK, NothingToEnd, NotStarted
  <1>3. RemovedStayAway' /\ ClientsListed'
    BY DEF ServerInv, RemovedStayAway, ClientsListed
  <1>4. IDsReserved' /\ EntriesOwned' /\ EndingIsDisconnected'
    BY DEF ServerInv, IDsReserved, EntriesOwned, EndingIsDisconnected
  <1>5. QED
    BY <1>1, <1>2, <1>3, <1>4 DEF ServerInv

LEMMA ServerInvStep == ServerInv /\ [Next]_vars => ServerInv'
  <1> SUFFICES ASSUME ServerInv, [Next]_vars PROVE ServerInv'
    OBVIOUS
  <1>1. CASE BeginStop \/ PendingAcceptThrows
    BY <1>1, BeginStopKeepsInv, PendingAcceptThrowsKeepsInv
  <1>2. CASE \E c \in Clients : Accept(c) \/ TurnAway(c) \/ Admit(c) \/ EnterAdd(c)
    BY <1>2, AcceptKeepsInv, TurnAwayKeepsInv, AdmitKeepsInv, EnterAddKeepsInv
  <1>3. CASE \E c \in Clients : Handshake(c)
    BY <1>3, HandshakeFailsKeepsInv, StartClientKeepsInv DEF Handshake
  <1>4. CASE \E c \in Clients : CheckFails(c) \/ Register(c) \/ Announce(c)
    BY <1>4, CheckFailsKeepsInv, RegisterKeepsInv, AnnounceKeepsInv
  <1>5. CASE \E c \in Clients : ListenerFails(c) \/ ListenerEnds(c) \/ Report(c) \/ Tell(c)
    BY <1>5, ListenerFailsKeepsInv, ListenerEndsKeepsInv, ReportKeepsInv, TellKeepsInv
  <1>6. CASE \E c \in Clients : ErrorThrows(c) \/ Stopping(c)
    BY <1>6, ErrorThrowsKeepsInv, StopNextKeepsInv, StopClientKeepsInv,
       DisconnectThrowsKeepsInv DEF Stopping
  <1>7. CASE UNCHANGED vars
    BY <1>7 DEF vars, acceptVars, sessionVars, reportVars, stopVars, ServerInv,
                TypeOK, IDsReserved, EntriesOwned, NothingToEnd, EndingIsDisconnected,
                RemovedStayAway, ClientsListed
  <1>8. QED
    BY <1>1, <1>2, <1>3, <1>4, <1>5, <1>6, <1>7 DEF Next, Accepting, Ending

LEMMA AlwaysServerInv == Spec => []ServerInv
  BY ServerInvInit, ServerInvStep, PTL DEF Spec

-----------------------------------------------------------------------------

(* Every client that has been added and is connected is in the registry at *)
(* the ID its datagrams carry, unless an absent client has been removed:   *)
(* overlapping accept callbacks, failing listeners and Stop never give two *)
(* clients one ID or overwrite an entry.                                   *)
THEOREM ConnectedAreListed == Spec => []ClientsListed
  <1>1. ServerInv => ClientsListed
    BY DEF ServerInv
  <1>2. QED
    BY <1>1, AlwaysServerInv, PTL

(* Who has been reported as disconnected is not in the registry and will   *)
(* not be added to it, although its listener ran before it was added.      *)
THEOREM ReportedHaveLeft == Spec => []EndedClientsLeave
  <1>1. ServerInv => EndedClientsLeave
    <2> SUFFICES ASSUME ServerInv, NEW c \in told \cap Registered PROVE FALSE
      BY DEF EndedClientsLeave
    <2>1. c \in Clients
      BY DEF ServerInv, TypeOK
    <2>2. PICK id \in IDs : registry[id] = c
      BY DEF Registered, UsedIDs
    <2>3. QED
      BY <2>1, <2>2 DEF ServerInv, RemovedStayAway
  <1>2. QED
    BY <1>1, AlwaysServerInv, PTL

-----------------------------------------------------------------------------
(* Who is taken out of the registry.                                       *)

(* As long as nothing else has gone wrong, a client whose end is about to  *)
(* be reported is in the registry once it has been added.                  *)
EndingAreListed ==
    stop = "no" /\ strays = {} =>
        \A c \in Clients : locker[c] = "ending" /\ accept[c] \in Added => c \in Registered

ReportInv == OwnEntriesLeave /\ EndingAreListed

(* A client that is being reported has been added, refused, or is in Add,  *)
(* whose monitor the report waits for.                                     *)
LEMMA ReportedIsSettled ==
  ASSUME ServerInv, NEW c \in Clients, Report(c)
  PROVE  accept[c] \in Added \/ Mistyped(c)
  <1>1. locker[c] = "ending" /\ monitor = NoClient
    BY DEF Report
  <1>2. accept[c] \notin NotStarted
    BY <1>1 DEF ServerInv, NothingToEnd
  <1>3. accept[c] \notin InAdd
    BY <1>1, ServerAssumption DEF ServerInv, IDsReserved
  <1>4. QED
    BY <1>2, <1>3 DEF ServerInv, TypeOK, Mistyped

(* Nothing but a report takes a client out of the registry.                *)
LEMMA ListedStay ==
  ASSUME ServerInv, [Next]_vars, \A d \in Clients : ~ Report(d)
  PROVE  /\ strays' = strays
         /\ \A id \in IDs : registry[id] # NoClient => registry'[id] = registry[id]
  <1> USE DEF acceptVars, sessionVars, reportVars, stopVars, Accepts, Stops
  <1>1. ASSUME NEW c \in Clients, Register(c)
        PROVE  /\ strays' = strays
               /\ \A id \in IDs : registry[id] # NoClient => registry'[id] = registry[id]
    <2>1. registry[PreviousID(networkID[c])] = NoClient
      BY <1>1 DEF Register, Proceed, ServerInv, IDsReserved, InAdd
    <2>2. QED
      BY <1>1, <2>1 DEF Register, ServerInv, TypeOK
  <1>2. ASSUME NEW c \in Clients,
               \/ Accept(c) \/ TurnAway(c) \/ Admit(c) \/ EnterAdd(c) \/ Handshake(c)
               \/ CheckFails(c) \/ Announce(c)
        PROVE  UNCHANGED <<strays, registry>>
    BY <1>2 DEF Accept, TurnAway, Admit, EnterAdd, Handshake, HandshakeFails, StartClient,
                CheckFails, Announce
  <1>3. ASSUME NEW c \in Clients,
               ListenerFails(c) \/ ListenerEnds(c) \/ Tell(c) \/ ErrorThrows(c) \/ Stopping(c)
        PROVE  UNCHANGED <<strays, registry>>
    BY <1>3 DEF ListenerFails, ListenerEnds, Tell, ErrorThrows, Stopping, StopNext, StopClient,
                DisconnectThrows
  <1>4. CASE BeginStop \/ PendingAcceptThrows \/ UNCHANGED vars
    BY <1>4 DEF BeginStop, PendingAcceptThrows, vars
  <1>5. QED
    BY <1>1, <1>2, <1>3, <1>4 DEF Next, Accepting, Ending

(* Stop has no end, and Mistyped is for good.                              *)
LEMMA BlameStays ==
  ASSUME ServerInv, [Next]_vars
  PROVE  /\ stop # "no" => stop' # "no"
         /\ \A c \in Clients : Mistyped(c) => Mistyped(c)'
  <1> USE DEF acceptVars, sessionVars, reportVars, stopVars, Accepts, Stops, Mistyped, ServerInv,
              TypeOK
  <1>1. ASSUME NEW c \in Clients, Accept(c) \/ Accepting(c)
        PROVE  stop' = stop /\ \A d \in Clients : Mistyped(d) => Mistyped(d)'
    BY <1>1 DEF Accept, Accepting, TurnAway, Admit, EnterAdd, Handshake, HandshakeFails,
                StartClient, CheckFails, Register, Announce, Proceed
  <1>2. ASSUME NEW c \in Clients,
               ListenerFails(c) \/ Ending(c) \/ ErrorThrows(c) \/ Stopping(c)
        PROVE  accept' = accept /\ (stop # "no" => stop' # "no")
    BY <1>2 DEF ListenerFails, Ending, ListenerEnds, Report, Tell, ErrorThrows, Stopping,
                StopNext, StopClient, DisconnectThrows
  <1>3. CASE BeginStop \/ PendingAcceptThrows \/ UNCHANGED vars
    BY <1>3 DEF BeginStop, PendingAcceptThrows, vars
  <1>4. QED
    BY <1>1, <1>2, <1>3 DEF Next

LEMMA OwnEntriesLeaveStep ==
  ASSUME ServerInv, ReportInv, [Next]_vars
  PROVE  OwnEntriesLeave'
  <1>1. CASE \A d \in Clients : ~ Report(d)
    BY <1>1, ListedStay, BlameStays DEF ReportInv, OwnEntriesLeave, ServerInv, TypeOK
  <1>2. ASSUME NEW c \in Clients, Report(c) PROVE OwnEntriesLeave'
    <2>1. stop' = stop /\ UNCHANGED accept /\ locker[c] = "ending"
      BY <1>2 DEF Report, stopVars, acceptVars
    <2>2. CASE stop = "no" /\ strays = {} /\ accept[c] \in Added
      <3>1. c \in Registered
        BY <2>1, <2>2 DEF ReportInv, EndingAreListed
      <3>2. strays' = strays
        BY <1>2, <3>1 DEF Report
      <3>3. QED
        BY <2>2, <3>2 DEF OwnEntriesLeave
    <2>3. CASE Mistyped(c)
      <3>1. strays' = strays \/ c \in strays'
        BY <1>2 DEF Report
      <3>2. strays \subseteq strays'
        BY <1>2 DEF Report
      <3>3. QED
        BY <2>1, <2>3, <3>1, <3>2 DEF ReportInv, OwnEntriesLeave, Mistyped
    <2>4. CASE stop # "no" \/ strays # {}
      <3>1. strays \subseteq strays'
        BY <1>2 DEF Report
      <3>2. QED
        BY <2>1, <2>4, <3>1 DEF ReportInv, OwnEntriesLeave, Mistyped
    <2>5. QED
      BY <1>2, <2>2, <2>3, <2>4, ReportedIsSettled
  <1>3. QED
    BY <1>1, <1>2

LEMMA EndingAreListedStep ==
  ASSUME ServerInv, ReportInv, [Next]_vars
  PROVE  EndingAreListed'
  <1> SUFFICES ASSUME stop' = "no", strays' = {}, NEW c \in Clients,
                      locker'[c] = "ending", accept'[c] \in Added
               PROVE  \E id \in IDs : registry'[id] = c
    BY ServerAssumption DEF EndingAreListed, Registered, UsedIDs
  <1>1. stop = "no"
    BY BlameStays
  <1>2. ASSUME NEW d \in Clients, Report(d)
        PROVE  \E id \in IDs : registry'[id] = c
    <2>1. c # d /\ locker[c] = "ending" /\ accept[c] \in Added /\ strays = {}
      BY <1>2 DEF Report, acceptVars, ServerInv, TypeOK
    <2>2. d \in Registered
      BY <1>2 DEF Report
    <2>3. PICK id \in IDs : registry[id] = c
      BY <1>1, <2>1 DEF ReportInv, EndingAreListed, Registered, UsedIDs
    <2>4. registry'[id] = c
      BY <1>2, <2>1, <2>2, <2>3 DEF Report
    <2>5. QED
      BY <2>4
  <1>3. CASE \A d \in Clients : ~ Report(d)
    <2>1. strays = {} /\ \A id \in IDs : registry[id] # NoClient => registry'[id] = registry[id]
      BY <1>3, ListedStay
    <2>2. CASE c \in Registered
      BY <2>1, <2>2 DEF Registered, UsedIDs
    <2>3. CASE accept[c] \in Added /\ locker[c] = "ending"
      BY <1>1, <2>1, <2>2, <2>3 DEF ReportInv, EndingAreListed
    <2>4. CASE accept[c] \in Added /\ connected[c]
      <3>1. registry[PreviousID(networkID[c])] = c
        BY <2>1, <2>4 DEF ServerInv, ClientsListed, Added
      <3>2. PreviousID(networkID[c]) \in IDs
        BY PreviousOfNext DEF ServerInv, TypeOK
      <3>3. QED
        BY <2>1, <3>1, <3>2, ServerAssumption
    <2>5. CASE Register(c)
      <3>1. PreviousID(networkID[c]) \in IDs
        BY PreviousOfNext DEF ServerInv, TypeOK
      <3>2. registry'[PreviousID(networkID[c])] = c
        BY <2>5, <3>1 DEF Register, ServerInv, TypeOK
      <3>3. QED
        BY <3>1, <3>2
    <2>6. \/ accept[c] \in Added /\ (locker[c] = "ending" \/ connected[c])
          \/ Register(c)
      <3> USE DEF acceptVars, sessionVars, reportVars, stopVars, Accepts, Stops, ServerInv, TypeOK,
                  Added
      <3>1. ASSUME NEW d \in Clients, Accept(d) \/ Accepting(d)
            PROVE  locker[c] = "ending" /\ (accept[c] \in Added \/ Register(c))
        BY <3>1 DEF Accept, Accepting, TurnAway, Admit, EnterAdd, Handshake, HandshakeFails,
                    StartClient, CheckFails, Register, Announce, Proceed
      <3>2. ASSUME NEW d \in Clients, ListenerFails(d) \/ ListenerEnds(d)
            PROVE  accept[c] \in Added /\ (locker[c] = "ending" \/ connected[c])
        BY <3>2 DEF ListenerFails, ListenerEnds
      <3>3. ASSUME NEW d \in Clients, Tell(d) \/ ErrorThrows(d) \/ Stopping(d)
            PROVE  accept[c] \in Added /\ locker[c] = "ending"
        BY <1>1, <3>3 DEF Tell, ErrorThrows, Stopping, StopNext, StopClient, DisconnectThrows
      <3>4. CASE BeginStop \/ PendingAcceptThrows \/ UNCHANGED vars
        BY <3>4 DEF BeginStop, PendingAcceptThrows, vars
      <3>5. QED
        BY <1>3, <3>1, <3>2, <3>3, <3>4 DEF Next, Ending
    <2>7. QED
      BY <2>3, <2>4, <2>5, <2>6
  <1>4. QED
    BY <1>2, <1>3

(* A report takes out the client's own entry.  It takes out another's only *)
(* after a client of the wrong type has left or Stop has been called: the  *)
(* monitor makes the listener's report wait until the client is added.     *)
THEOREM ReportsTakeTheirOwn == Spec => []OwnEntriesLeave
  <1>1. Init => ReportInv
    BY DEF Init, ReportInv, OwnEntriesLeave, EndingAreListed
  <1>2. ServerInv /\ ReportInv /\ [Next]_vars => ReportInv'
    BY OwnEntriesLeaveStep, EndingAreListedStep DEF ReportInv
  <1>3. ReportInv => OwnEntriesLeave
    BY DEF ReportInv
  <1>4. QED
    BY <1>1, <1>2, <1>3, AlwaysServerInv, PTL DEF Spec
==============================================================================
