------------------------------ MODULE Realtime ------------------------------
(***************************************************************************)
(* The WebSocket connections of one device: the hub and the pumps of       *)
(* internal/handler/websocket.go, and the client of sdk/go/websocket.go    *)
(* that connects again when it loses its connection.                       *)
(*                                                                         *)
(* On the server each connection has a goroutine that reads, one that      *)
(* writes and a channel of messages between them; the hub's goroutine      *)
(* registers and unregisters connections, and closes the channel of the    *)
(* one it drops.  In the client a goroutine reads each connection, but the *)
(* connection, the flags and the loop that reconnects are those of the one *)
(* WSClient.  Sending on a closed channel stops the server, which is       *)
(* started again.  Messages are only counted.  Left out: the client's      *)
(* write pumps, and its ping when nothing else is sent.                    *)
(* MUTx definitions are plausible mistakes.                                *)
(***************************************************************************)
EXTENDS Integers

CONSTANTS
    Conns,        \* connections there may be at a time, numbered from 1
    Loops,        \* bound: goroutines that reconnect, at a time
    Capacity,     \* messages a channel holds
    MaxFaults,    \* bound: connections the network breaks or refuses
    MaxCalls      \* bound: calls of Connect by the application

ASSUME RealtimeAssumption ==
    /\ Conns \subseteq Nat \ {0}
    /\ Capacity \in Nat \ {0} /\ MaxFaults \in Nat /\ MaxCalls \in Nat

VARIABLES
    hub,          \* the connection registered for the device; 0: none
    server,       \* the server's side of each connection
    link,         \* the connections that are not closed or broken
    panicked,     \* who sent on a closed channel, the last time the server stopped
    ws,           \* the fields of the WSClient
    pump,         \* the connections the client reads from
    dials,        \* what each caller of Connect is connecting
    faults,       \* number of faults so far
    calls         \* number of calls of Connect by the application

serverVars == <<hub, server, panicked>>
clientVars == <<ws, pump, dials>>
linkVars   == <<serverVars, link, clientVars, faults, calls>>

Callers == Loops \cup {"app"}

\* reader: "new", "registering", "registered", "reading", "ponging", "leaving", "ended"
NoSide  == [reader |-> "ended", writing |-> FALSE, open |-> FALSE, queue |-> 0]
Idle    == [at |-> "idle", conn |-> 0]
DialAt(p, at, i) == dials' = [dials EXCEPT ![p] = [at |-> at, conn |-> i]]

LinkInit ==
    /\ hub = 0 /\ panicked = "nobody"
    /\ server = [i \in Conns |-> NoSide]
    /\ link = {}
    /\ ws = [connected |-> FALSE, manual |-> FALSE, again |-> FALSE, conn |-> 0]
    /\ pump = {}
    /\ dials = [p \in Callers |-> Idle]
    /\ faults = 0 /\ calls = 0

Reader(i) == server[i].reader

-----------------------------------------------------------------------------
(* The server.                                                             *)

\* The process ends and starts again: every connection is lost.
Panics(who) ==
    /\ panicked' = who
    /\ hub' = 0 /\ server' = [i \in Conns |-> NoSide] /\ link' = {}

\* The hub takes the connection.  Of an older one it closes the channel.
HubRegister(i) ==
    /\ Reader(i) = "registering"
    /\ hub' = i
    /\ server' = [j \in Conns |->
          IF j = i THEN [server[j] EXCEPT !.reader = "registered", !.open = TRUE]
          ELSE IF j = hub THEN [server[j] EXCEPT !.open = FALSE]
          ELSE server[j]]
    /\ UNCHANGED <<link, panicked, clientVars, faults, calls>>

\* The answer is written and the two pumps are started.
StartPumps(i) ==
    /\ Reader(i) = "registered"
    /\ server' = [server EXCEPT ![i].reader = "reading", ![i].writing = TRUE]
    /\ UNCHANGED <<hub, link, panicked, clientVars, faults, calls>>

\* readPump gets a ping, and handleMessage is to answer it; or finds that the
\* connection is closed.
ReadPing(i) ==
    /\ Reader(i) = "reading" /\ i \in link /\ i \in pump
    /\ server' = [server EXCEPT ![i].reader = "ponging"]
    /\ UNCHANGED <<hub, link, panicked, clientVars, faults, calls>>

ReadFails(i) ==
    /\ Reader(i) = "reading" /\ i \notin link
    /\ server' = [server EXCEPT ![i].reader = "leaving"]
    /\ UNCHANGED <<hub, link, panicked, clientVars, faults, calls>>

\* Waits for room in the channel.
SendPong(i) ==
    /\ Reader(i) = "ponging"
    /\ IF ~server[i].open
       THEN Panics("ping")
       ELSE /\ server[i].queue < Capacity
            /\ server' = [server EXCEPT ![i].queue = @ + 1, ![i].reader = "reading"]
            /\ UNCHANGED <<hub, link, panicked>>
    /\ UNCHANGED <<clientVars, faults, calls>>

MUTHubUnregister(i) ==
    /\ Reader(i) = "leaving"
    /\ hub' = hub
    /\ server' = [server EXCEPT ![i].reader = "ended", ![i].open = FALSE]
    /\ link' = link \ {i}
    /\ UNCHANGED <<panicked, clientVars, faults, calls>>

\* The channel of a connection that is not registered any more was closed when it
\* was replaced.
HubUnregister(i) ==
    /\ Reader(i) = "leaving"
    /\ hub' = IF hub = i THEN 0 ELSE hub
    /\ server' = [server EXCEPT ![i].reader = "ended",
                                ![i].open = IF hub = i THEN FALSE ELSE @]
    /\ link' = link \ {i}
    /\ UNCHANGED <<panicked, clientVars, faults, calls>>

\* writePump: a message is written, or cannot be; a closed channel is emptied
\* first; a ping finds that the connection is closed.
WritePump(i) ==
    LET side == server[i] IN
    /\ side.writing
    /\ \/ /\ side.queue > 0 /\ i \in link
          /\ server' = [server EXCEPT ![i].queue = @ - 1]
          /\ UNCHANGED link
       \/ /\ i \notin link \/ (side.queue = 0 /\ ~side.open)
          /\ server' = [server EXCEPT ![i].writing = FALSE]
          /\ link' = link \ {i}
    /\ UNCHANGED <<hub, panicked, clientVars, faults, calls>>

\* A message for the device or the application's devices: SendToDevice,
\* BroadcastToApp.  A full channel is skipped.
Send ==
    /\ hub # 0
    /\ IF ~server[hub].open
       THEN Panics("hub")
       ELSE /\ server[hub].queue < Capacity
            /\ server' = [server EXCEPT ![hub].queue = @ + 1]
            /\ UNCHANGED <<hub, link, panicked>>
    /\ UNCHANGED <<clientVars, faults, calls>>

-----------------------------------------------------------------------------
(* The client.                                                             *)

Unused(i) ==
    /\ Reader(i) = "ended" /\ ~server[i].writing
    /\ i \notin pump \cup link /\ \A p \in Callers : dials[p].conn # i

\* Connect dials and authenticates (HandleWebSocket up to the registration); a
\* client that is connected already returns at once.
Dial(p) ==
    /\ dials[p].at = "connect"
    /\ IF ws.connected
       THEN DialAt(p, "idle", 0) /\ UNCHANGED <<server, link>>
       ELSE \E i \in Conns :
               /\ Unused(i) /\ \A j \in Conns : Unused(j) => i <= j
               /\ server' = [server EXCEPT ![i] = [NoSide EXCEPT !.reader = "registering"]]
               /\ link' = link \cup {i}
               /\ DialAt(p, "dialing", i)
    /\ UNCHANGED <<hub, panicked, ws, pump, faults, calls>>

\* No answer in time, or an error.  The loop sleeps and tries again.
DialFails(p) ==
    /\ dials[p].at = "dialing" /\ dials[p].conn \notin link
    /\ IF p \in Loops THEN DialAt(p, "asleep", 0) ELSE DialAt(p, "idle", 0)
    /\ UNCHANGED <<serverVars, link, ws, pump, faults, calls>>

MUTConnected(p) ==
    LET i == dials[p].conn IN
    /\ dials[p].at = "dialing" /\ i \in link
    /\ Reader(i) \in {"reading", "ponging"}
    /\ ws' = [connected |-> TRUE, manual |-> FALSE, again |-> ws.again, conn |-> i]
    /\ pump' = pump \cup {i}
    /\ DialAt(p, "idle", 0)
    /\ UNCHANGED <<serverVars, link, faults, calls>>

\* The rest of Connect.
Connected(p) ==
    LET i == dials[p].conn IN
    /\ dials[p].at = "dialing" /\ i \in link
    /\ Reader(i) \in {"reading", "ponging"}
    /\ ws' = [connected |-> TRUE, manual |-> FALSE, again |-> FALSE, conn |-> i]
    /\ pump' = pump \cup {i}
    /\ DialAt(p, "idle", 0)
    /\ UNCHANGED <<serverVars, link, faults, calls>>

Connect ==
    /\ calls < MaxCalls /\ dials["app"].at = "idle" /\ ~ws.connected
    /\ calls' = calls + 1
    /\ DialAt("app", "connect", 0)
    /\ UNCHANGED <<serverVars, link, ws, pump, faults>>

Disconnect ==
    /\ ~ws.manual /\ dials["app"].at = "idle"
    /\ ws' = [ws EXCEPT !.manual = TRUE, !.connected = FALSE]
    /\ link' = link \ {ws.conn}
    /\ UNCHANGED <<serverVars, pump, dials, faults, calls>>

\* readPump fails and handleDisconnect starts the loop, whichever connection it
\* was that failed.
HandleDisconnect(i) ==
    LET again == ~ws.manual /\ ~ws.again IN
    /\ i \in pump /\ i \notin link
    /\ pump' = pump \ {i}
    /\ ws' = [ws EXCEPT !.connected = FALSE, !.again = @ \/ again]
    /\ IF again
       THEN \E l \in Loops : dials[l].at = "idle" /\ DialAt(l, "asleep", 0)
       ELSE UNCHANGED dials
    /\ UNCHANGED <<serverVars, link, faults, calls>>

\* Wakes up, and gives up if the connection was closed on purpose or is there.
ReconnectLoop(l) ==
    /\ dials[l].at = "asleep"
    /\ IF ws.manual \/ ws.connected
       THEN DialAt(l, "idle", 0) /\ ws' = [ws EXCEPT !.again = FALSE]
       ELSE DialAt(l, "connect", 0) /\ UNCHANGED ws
    /\ UNCHANGED <<serverVars, link, pump, faults, calls>>

-----------------------------------------------------------------------------
\* The network breaks a connection.
Breaks(i) ==
    /\ i \in link /\ faults < MaxFaults
    /\ link' = link \ {i}
    /\ faults' = faults + 1
    /\ UNCHANGED <<serverVars, clientVars, calls>>

ServerStep(i) ==
    \/ HubRegister(i) \/ StartPumps(i) \/ ReadFails(i) \/ SendPong(i)
    \/ HubUnregister(i) \/ WritePump(i)

ClientStep ==
    \/ \E p \in Callers : Dial(p) \/ DialFails(p) \/ Connected(p)
    \/ \E i \in Conns : HandleDisconnect(i)
    \/ \E l \in Loops : ReconnectLoop(l)

LinkNext ==
    \/ \E i \in Conns : ServerStep(i) \/ ReadPing(i) \/ Breaks(i)
    \/ ClientStep
    \/ Send \/ Connect \/ Disconnect

LinkSpec == LinkInit /\ [][LinkNext]_linkVars

\* Every goroutine goes on, and a broken connection is noticed.  Nobody has to
\* send, to connect or to disconnect, and the network has to break nothing.
LinkFairness ==
    /\ \A i \in Conns : /\ WF_linkVars(HubRegister(i)) /\ WF_linkVars(StartPumps(i))
                        /\ WF_linkVars(ReadFails(i))   /\ WF_linkVars(SendPong(i))
                        /\ WF_linkVars(HubUnregister(i)) /\ WF_linkVars(WritePump(i))
                        /\ WF_linkVars(HandleDisconnect(i))
    /\ \A p \in Callers : /\ WF_linkVars(Dial(p)) /\ WF_linkVars(DialFails(p))
                          /\ WF_linkVars(Connected(p))
    /\ \A l \in Loops : WF_linkVars(ReconnectLoop(l))

FairLinkSpec == LinkSpec /\ LinkFairness

-----------------------------------------------------------------------------
(* Properties                                                              *)

\* However connections are replaced and dropped, the hub only sends on channels
\* that are open: what an administrator or a task sends never stops the server.
HubSendsOnOpen == panicked # "hub"

Live == hub # 0 /\ hub = ws.conn /\ ws.connected /\ hub \in link /\ hub \in pump

\* The goroutine that reads waits for room in the channel nobody empties any more.
PongBlocked(i) == Reader(i) = "ponging" /\ server[i].queue = Capacity /\ ~server[i].writing

\* A client that was connected once, and whose application then neither connects nor
\* disconnects, is connected again after every break, and in the end stays so.
StaysConnected ==
    [](~ws.manual /\ calls <= 1) => <>[](ws.conn # 0 => Live)

\* The server lets go of the connection of a client that stays disconnected, unless
\* the goroutine that reads it is stuck; again when it connected only once.
LetsGo == ([](calls <= 1) /\ <>[]ws.manual) => <>[](hub = 0 \/ PongBlocked(hub))
=============================================================================
