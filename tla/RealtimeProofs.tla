--------------------------- MODULE RealtimeProofs ---------------------------
(***************************************************************************)
(* The hub of Realtime sends only on open channels, for any number of      *)
(* connections, goroutines that reconnect, messages and faults: the        *)
(* channel that is open is always exactly the one of the connection the    *)
(* hub has registered (websocket.go, Run and SendToDevice).                *)
(***************************************************************************)
EXTENDS Realtime, TLAPS

Readers == {"registering", "registered", "reading", "ponging", "leaving", "ended"}

SideType == [reader : Readers, writing : BOOLEAN, open : BOOLEAN, queue : Int]

ServerTypeOK ==
    /\ hub \in Conns \cup {0}
    /\ server \in [Conns -> SideType]

\* The connections whose goroutine the hub may still hear from.
Registered == {"registered", "reading", "ponging", "leaving"}

\* A channel is open from the registration of its connection until another one is
\* registered for the device or its own goroutine unregisters it.
OpenIsRegistered == \A i \in Conns : server[i].open <=> i = hub

\* The hub keeps no connection whose goroutine has ended, so none that is used again.
HubHasReader == hub # 0 => Reader(hub) \in Registered

HubInv == ServerTypeOK /\ OpenIsRegistered /\ HubHasReader /\ HubSendsOnOpen

-----------------------------------------------------------------------------
\* A step that changes the side of one connection, but neither opens nor closes its
\* channel nor ends its goroutine.
LEMMA SideMoves ==
    ASSUME HubInv, NEW i \in Conns,
           NEW side \in SideType,
           server' = [server EXCEPT ![i] = side],
           side.open = server[i].open, i = hub => side.reader \in Registered,
           UNCHANGED <<hub, panicked>>
    PROVE  HubInv'
  <1>1. ServerTypeOK'
    BY DEF HubInv, ServerTypeOK, SideType
  <1>2. OpenIsRegistered'
    BY DEF HubInv, ServerTypeOK, SideType, OpenIsRegistered
  <1>3. HubHasReader'
    BY RealtimeAssumption DEF HubInv, ServerTypeOK, SideType, HubHasReader, Reader
  <1>4. HubSendsOnOpen'
    BY DEF HubInv, HubSendsOnOpen
  <1> QED
    BY <1>1, <1>2, <1>3, <1>4 DEF HubInv

\* The process ends: nothing is registered and nothing is open.
LEMMA Restarts ==
    ASSUME NEW who, who # "hub", Panics(who)
    PROVE  HubInv'
  <1>1. NoSide \in SideType
    BY DEF NoSide, Readers, SideType
  <1>2. ServerTypeOK'
    BY <1>1 DEF Panics, ServerTypeOK
  <1>3. OpenIsRegistered'
    BY RealtimeAssumption DEF Panics, OpenIsRegistered, NoSide
  <1> QED
    BY <1>2, <1>3 DEF HubInv, Panics, HubHasReader, HubSendsOnOpen

LEMMA RegisterKeeps ==
    ASSUME HubInv, NEW i \in Conns, HubRegister(i)
    PROVE  HubInv'
  <1>1. i # hub /\ i # 0
    BY RealtimeAssumption DEF HubInv, HubHasReader, HubRegister, Registered
  <1>2. ServerTypeOK'
    BY DEF HubInv, ServerTypeOK, SideType, HubRegister, Readers
  <1>3. OpenIsRegistered'
    BY <1>1 DEF HubInv, ServerTypeOK, SideType, OpenIsRegistered, HubRegister
  <1>4. HubHasReader'
    BY <1>1 DEF HubInv, ServerTypeOK, SideType, HubHasReader, HubRegister, Reader, Registered
  <1>5. HubSendsOnOpen'
    BY DEF HubInv, HubSendsOnOpen, HubRegister
  <1> QED
    BY <1>2, <1>3, <1>4, <1>5 DEF HubInv

LEMMA UnregisterKeeps ==
    ASSUME HubInv, NEW i \in Conns, HubUnregister(i)
    PROVE  HubInv'
  <1>1. ServerTypeOK'
    BY DEF HubInv, ServerTypeOK, SideType, HubUnregister, Readers
  <1>2. OpenIsRegistered'
    BY RealtimeAssumption DEF HubInv, ServerTypeOK, SideType, OpenIsRegistered, HubUnregister
  <1>3. HubHasReader'
    BY DEF HubInv, ServerTypeOK, SideType, HubHasReader, HubUnregister, Reader
  <1>4. HubSendsOnOpen'
    BY DEF HubInv, HubSendsOnOpen, HubUnregister
  <1> QED
    BY <1>1, <1>2, <1>3, <1>4 DEF HubInv

\* Every step of one connection's goroutines.
LEMMA ConnectionKeeps ==
    ASSUME HubInv, NEW i \in Conns, ServerStep(i) \/ ReadPing(i) \/ Breaks(i)
    PROVE  HubInv'
  <1> USE DEF HubInv, ServerTypeOK, SideType
  <1>1. CASE HubRegister(i)
    BY <1>1, RegisterKeeps
  <1>2. CASE StartPumps(i)
    <2> DEFINE side == [server[i] EXCEPT !.reader = "reading", !.writing = TRUE]
    <2>1. server' = [server EXCEPT ![i] = side] /\ UNCHANGED <<hub, panicked>>
      BY <1>2 DEF StartPumps
    <2>2. side \in SideType /\ side.open = server[i].open /\ side.reader \in Registered
      BY DEF SideType, Readers, Registered
    <2> HIDE DEF side
    <2> QED
      BY <2>1, <2>2, SideMoves
  <1>3. CASE ReadFails(i)
    <2> DEFINE side == [server[i] EXCEPT !.reader = "leaving"]
    <2>1. server' = [server EXCEPT ![i] = side] /\ UNCHANGED <<hub, panicked>>
      BY <1>3 DEF ReadFails
    <2>2. side \in SideType /\ side.open = server[i].open /\ side.reader \in Registered
      BY DEF SideType, Readers, Registered
    <2> HIDE DEF side
    <2> QED
      BY <2>1, <2>2, SideMoves
  <1>4. CASE SendPong(i)
    <2>1. CASE ~server[i].open
      <3>1. Panics("ping")
        BY <1>4, <2>1 DEF SendPong
      <3> QED
        BY <3>1, Restarts
    <2>2. CASE server[i].open
      <3> DEFINE side == [server[i] EXCEPT !.queue = @ + 1, !.reader = "reading"]
      <3>1. server' = [server EXCEPT ![i] = side] /\ UNCHANGED <<hub, panicked>>
        BY <1>4, <2>2 DEF SendPong, Panics
      <3>2. side \in SideType /\ side.open = server[i].open /\ side.reader \in Registered
        <4>1. server[i] \in SideType /\ server[i].queue \in Int
          OBVIOUS
        <4> DEFINE fuller == [server[i] EXCEPT !.queue = @ + 1]
        <4> HIDE DEF ServerTypeOK, HubInv
        <4>2. fuller \in SideType /\ fuller.open = server[i].open
          BY <4>1 DEF SideType
        <4>3. side = [fuller EXCEPT !.reader = "reading"]
          OBVIOUS
        <4> HIDE DEF fuller, side
        <4> QED
          BY <4>2, <4>3 DEF SideType, Readers, Registered
      <3> HIDE DEF side
      <3> QED
        BY <3>1, <3>2, SideMoves
    <2> QED
      BY <2>1, <2>2
  <1>5. CASE HubUnregister(i)
    BY <1>5, UnregisterKeeps
  <1>6. CASE WritePump(i)
    <2>1. CASE server' = [server EXCEPT ![i].queue = @ - 1]
      <3> DEFINE side == [server[i] EXCEPT !.queue = @ - 1]
      <3>1. server' = [server EXCEPT ![i] = side] /\ UNCHANGED <<hub, panicked>>
        BY <1>6, <2>1 DEF WritePump
      <3>2. /\ side \in SideType /\ side.open = server[i].open
            /\ i = hub => side.reader \in Registered
        BY RealtimeAssumption DEF HubHasReader, Reader, SideType
      <3> HIDE DEF side
      <3> QED
        BY <3>1, <3>2, SideMoves
    <2>2. CASE server' = [server EXCEPT ![i].writing = FALSE]
      <3> DEFINE side == [server[i] EXCEPT !.writing = FALSE]
      <3>1. server' = [server EXCEPT ![i] = side] /\ UNCHANGED <<hub, panicked>>
        BY <1>6, <2>2 DEF WritePump
      <3>2. /\ side \in SideType /\ side.open = server[i].open
            /\ i = hub => side.reader \in Registered
        BY RealtimeAssumption DEF HubHasReader, Reader, SideType
      <3> HIDE DEF side
      <3> QED
        BY <3>1, <3>2, SideMoves
    <2> QED
      BY <1>6, <2>1, <2>2 DEF WritePump
  <1>7. CASE ReadPing(i)
    <2> DEFINE side == [server[i] EXCEPT !.reader = "ponging"]
    <2>1. server' = [server EXCEPT ![i] = side] /\ UNCHANGED <<hub, panicked>>
      BY <1>7 DEF ReadPing
    <2>2. side \in SideType /\ side.open = server[i].open /\ side.reader \in Registered
      BY DEF SideType, Readers, Registered
    <2> HIDE DEF side
    <2> QED
      BY <2>1, <2>2, SideMoves
  <1>8. CASE Breaks(i)
    BY <1>8 DEF Breaks, serverVars, OpenIsRegistered, HubHasReader, HubSendsOnOpen, Reader
  <1> QED
    BY <1>1, <1>2, <1>3, <1>4, <1>5, <1>6, <1>7, <1>8 DEF ServerStep

\* What is sent to the device, and what the client does.
LEMMA OthersKeep ==
    ASSUME HubInv, Send \/ Connect \/ Disconnect \/ ClientStep
    PROVE  HubInv'
  <1>1. CASE Send
    <2>1. hub \in Conns /\ server[hub].open
      BY <1>1 DEF Send, HubInv, ServerTypeOK, OpenIsRegistered
    <2> DEFINE side == [server[hub] EXCEPT !.queue = @ + 1]
    <2>2. server' = [server EXCEPT ![hub] = side] /\ UNCHANGED <<hub, panicked>>
      BY <1>1, <2>1 DEF Send, Panics
    <2>3. side \in SideType /\ side.open = server[hub].open /\ side.reader = Reader(hub)
      <3>1. server[hub] \in SideType /\ server[hub].queue \in Int
        BY <2>1 DEF HubInv, ServerTypeOK, SideType
      <3> QED
        BY <3>1 DEF SideType, Reader
    <2> HIDE DEF side
    <2> QED
      BY <2>1, <2>2, <2>3, SideMoves, RealtimeAssumption DEF HubInv, HubHasReader
  <1>2. CASE UNCHANGED serverVars
    BY <1>2 DEF serverVars, HubInv, ServerTypeOK, OpenIsRegistered, HubHasReader,
                HubSendsOnOpen, Reader
  <1>3. ASSUME NEW p \in Callers, Dial(p)
        PROVE  HubInv'
    <2>1. CASE UNCHANGED server
      BY <1>2, <1>3, <2>1 DEF Dial, serverVars
    <2>2. CASE ~ws.connected
      <3>1. PICK i \in Conns :
               /\ Unused(i)
               /\ server' = [server EXCEPT ![i] = [NoSide EXCEPT !.reader = "registering"]]
        BY <1>3, <2>2 DEF Dial
      <3> DEFINE side == [NoSide EXCEPT !.reader = "registering"]
      <3>2. server' = [server EXCEPT ![i] = side] /\ UNCHANGED <<hub, panicked>>
        BY <1>3, <3>1 DEF Dial
      <3>3. i # hub
        BY <3>1, RealtimeAssumption DEF Unused, HubInv, HubHasReader, Registered, Reader
      <3>4. side \in SideType
        <4>1. NoSide \in SideType
          BY DEF NoSide, Readers, SideType
        <4> QED
          BY <4>1 DEF Readers, SideType
      <3>5. side.open = server[i].open
        BY <3>3 DEF HubInv, ServerTypeOK, SideType, OpenIsRegistered, NoSide
      <3> HIDE DEF side
      <3> QED
        BY <3>2, <3>3, <3>4, <3>5, SideMoves
    <2> QED
      BY <1>3, <2>1, <2>2 DEF Dial
  <1> QED
    BY <1>1, <1>2, <1>3
    DEF Connect, Disconnect, ClientStep, DialFails, Connected, HandleDisconnect, ReconnectLoop

\* The hub has one open channel, the one of the connection it has registered, and that
\* connection's goroutine runs; so it never sends on a closed one (websocket.go:109-233).
THEOREM HubInvariant == LinkSpec => []HubInv
  <1>1. LinkInit => HubInv
    BY RealtimeAssumption DEF LinkInit, HubInv, ServerTypeOK, OpenIsRegistered, HubHasReader,
       HubSendsOnOpen, NoSide, Readers, SideType
  <1>2. HubInv /\ [LinkNext]_linkVars => HubInv'
    <2> SUFFICES ASSUME HubInv, [LinkNext]_linkVars
                 PROVE  HubInv'
      OBVIOUS
    <2>1. CASE UNCHANGED linkVars
      BY <2>1 DEF linkVars, serverVars, HubInv, ServerTypeOK, OpenIsRegistered, HubHasReader,
                  HubSendsOnOpen, Reader
    <2> QED
      BY <2>1, ConnectionKeeps, OthersKeep DEF LinkNext
  <1> QED
    BY <1>1, <1>2, PTL DEF LinkSpec

\* What an administrator or a task sends to a device never stops the server.
THEOREM SendsOnOpenAlways == LinkSpec => []HubSendsOnOpen
  <1>1. HubInv => HubSendsOnOpen
    BY DEF HubInv
  <1> QED
    BY <1>1, HubInvariant, PTL
=============================================================================
