--------------------------- MODULE EdgeSyncClient ---------------------------
(***************************************************************************)
(* The connection of a station to the cloud: EdgeSyncClient                *)
(* (packages/sync/src/edge-client.ts) against the WebSocket gateway        *)
(* (stream-gateway.ts).  The batches that travel over it are in            *)
(* SyncPipeline; here are the socket, the reconnect timer, the heartbeat   *)
(* and the kill switch.                                                    *)
(*                                                                         *)
(* Time passes in heartbeat intervals (5 s); a heartbeat timeout (10 s) is *)
(* due two intervals after its ping.  A tick overwrites the handle of the  *)
(* timeout before, whose timer keeps running.                              *)
(*                                                                         *)
(* Callers restart a client only when its old socket has closed, and       *)
(* change the kill switch through the gateway.  simulateWanDrop and        *)
(* simulateWanRestore, which exist for tests, are left out.                *)
(***************************************************************************)
EXTENDS Integers, Sequences, FiniteSets

CONSTANTS
    Sockets,        \* WebSocket objects; one may be used again once closed
    MaxCommands,    \* bound on the kill switch commands on the way
    NoSocket

TimeoutTicks == 2

\* A fourth unanswered ping changes nothing a third does not.
MaxPings == 3

ASSUME ClientAssumption ==
    /\ IsFiniteSet(Sockets)
    /\ MaxCommands \in Nat
    /\ NoSocket \notin Sockets

VARIABLES
    state,          \* #state
    ws,             \* #ws
    retried,        \* #reconnectAttempts > 0
    reconnect,      \* #reconnectTimer is armed
    fetching,       \* performConnect waits for its token: "no", or who called it
    stopped,        \* #stopped
    enabled,        \* #killSwitch.enabled of the client
    beating,        \* #heartbeatTimer is armed
    handle,         \* the age of the timeout #heartbeatTimeoutTimer names, -1 for none
    timers,         \* the ages of the timeouts that are running
    sock,           \* the state of each socket as the client sees it
    link,           \* whether packets get through
    pings,          \* pings of each socket the gateway has not answered
    commands,       \* kill switch commands on the way to each socket
    gatewayEnabled  \* #killSwitch.enabled of the gateway

clientVars == <<state, ws, retried, reconnect, fetching, stopped, enabled, beating, handle,
                timers, sock, link, pings, commands, gatewayEnabled>>

heartbeat == <<beating, handle, timers>>

network == <<link, pings, commands, gatewayEnabled>>

Live(s) == sock[s] \in {"connecting", "open", "closing"}

-----------------------------------------------------------------------------
(* Private methods *)

\* #clearHeartbeatTimers: the interval and the timeout the handle names.
ClearHeartbeat ==
    /\ timers' = timers \ {handle}
    /\ handle' = -1

\* #scheduleReconnect; it returns early when stopped or disabled.
ScheduleReconnect == reconnect' = TRUE /\ retried' = TRUE

\* #performConnect up to the token.
PerformConnect(caller) ==
    IF enabled
    THEN /\ state' = IF retried THEN "RECONNECTING" ELSE "CONNECTING"
         /\ fetching' = caller
    ELSE /\ state' = "DISABLED"
         /\ UNCHANGED fetching

\* terminate(): the close event follows.
Terminate == sock' = [s \in Sockets |-> IF s = ws /\ Live(s) THEN "closing" ELSE sock[s]]

-----------------------------------------------------------------------------
(* Calls *)

Connect ==
    /\ \A s \in Sockets : ~Live(s)
    /\ ~reconnect /\ fetching = "no"
    /\ stopped' = FALSE
    /\ PerformConnect("caller")
    /\ UNCHANGED <<ws, retried, reconnect, enabled, heartbeat, sock, network>>

Disconnect ==
    /\ stopped' = TRUE
    /\ reconnect' = FALSE
    /\ beating' = FALSE
    /\ ClearHeartbeat
    /\ Terminate
    /\ ws' = NoSocket
    /\ state' = "DISCONNECTED"
    /\ UNCHANGED <<retried, fetching, enabled, network>>

-----------------------------------------------------------------------------
(* Callbacks *)

ReconnectFires ==
    /\ reconnect
    /\ reconnect' = FALSE
    /\ PerformConnect("timer")
    /\ UNCHANGED <<ws, retried, stopped, enabled, heartbeat, sock, network>>

\* The token arrived.  Neither #stopped nor the kill switch is read again.
TokenFetched(s) ==
    /\ fetching # "no"
    /\ ~Live(s)
    /\ fetching' = "no"
    /\ ws' = s
    /\ sock' = [sock EXCEPT ![s] = "connecting"]
    /\ link' = [link EXCEPT ![s] = TRUE]
    /\ pings' = [pings EXCEPT ![s] = 0]
    /\ commands' = [commands EXCEPT ![s] = <<>>]
    /\ UNCHANGED <<state, retried, reconnect, stopped, enabled, heartbeat, gatewayEnabled>>

\* No token: a scheduled attempt is scheduled again, a caller gets the error.
TokenRefused ==
    /\ fetching # "no"
    /\ fetching' = "no"
    /\ IF fetching = "timer" /\ ~stopped /\ enabled
       THEN ScheduleReconnect
       ELSE UNCHANGED <<reconnect, retried>>
    /\ UNCHANGED <<state, ws, stopped, enabled, heartbeat, sock, network>>

SocketOpens(s) ==
    /\ sock[s] = "connecting"
    /\ sock' = [sock EXCEPT ![s] = "open"]
    /\ state' = "CONNECTED"
    /\ retried' = FALSE
    /\ ClearHeartbeat
    /\ beating' = TRUE
    /\ UNCHANGED <<ws, reconnect, fetching, stopped, enabled, network>>

\* The close handler that leaves a failed attempt to its caller.
Closed_NoRetry(s) ==
    /\ sock' = [sock EXCEPT ![s] = "closed"]
    /\ beating' = FALSE
    /\ ClearHeartbeat
    /\ IF sock[s] # "connecting" /\ ~stopped /\ enabled
       THEN state' = "RECONNECTING" /\ ScheduleReconnect
       ELSE /\ state' = "DISCONNECTED"
            /\ UNCHANGED <<reconnect, retried>>
    /\ UNCHANGED <<ws, fetching, stopped, enabled, network>>

\* The close handler that reconnects whatever the kill switch says.
Closed_IgnoresSwitch(s) ==
    /\ sock' = [sock EXCEPT ![s] = "closed"]
    /\ beating' = FALSE
    /\ ClearHeartbeat
    /\ IF ~stopped
       THEN state' = "RECONNECTING" /\ ScheduleReconnect
       ELSE /\ state' = "DISCONNECTED"
            /\ UNCHANGED <<reconnect, retried>>
    /\ UNCHANGED <<ws, fetching, stopped, enabled, network>>

\* The close handler.
Closed(s) ==
    /\ sock' = [sock EXCEPT ![s] = "closed"]
    /\ beating' = FALSE
    /\ ClearHeartbeat
    /\ IF ~stopped /\ enabled
       THEN state' = "RECONNECTING" /\ ScheduleReconnect
       ELSE /\ state' = IF enabled THEN "DISCONNECTED" ELSE "DISABLED"
            /\ UNCHANGED <<reconnect, retried>>
    /\ UNCHANGED <<ws, fetching, stopped, enabled, network>>

\* An attempt that fails emits error and close.
SocketFails(s) == sock[s] = "connecting" /\ Closed(s)

SocketCloses(s) == sock[s] = "closing" /\ Closed(s)

\* A tick that clears the timeout before it arms the next one.
Ping_ClearsTimeout ==
    /\ handle' = 0
    /\ timers' = {t + 1 : t \in timers \ {handle}} \cup {0}
    /\ pings' = [pings EXCEPT ![ws] = IF @ < MaxPings THEN @ + 1 ELSE @]

\* A tick of the heartbeat: the handle is overwritten, its timer is not cleared.
Ping ==
    /\ handle' = 0
    /\ timers' = {t + 1 : t \in timers} \cup {0}
    /\ pings' = [pings EXCEPT ![ws] = IF @ < MaxPings THEN @ + 1 ELSE @]

\* An interval passes; timeouts that were due have fired.
Tick ==
    /\ TimeoutTicks \notin timers
    /\ beating \/ timers # {}
    /\ IF beating /\ ws # NoSocket /\ sock[ws] = "open"
       THEN Ping
       ELSE /\ timers' = {t + 1 : t \in timers}
            /\ handle' = IF handle = -1 THEN -1 ELSE handle + 1
            /\ UNCHANGED pings
    /\ UNCHANGED <<state, ws, retried, reconnect, fetching, stopped, enabled, beating, sock,
                   link, commands, gatewayEnabled>>

\* A heartbeat timeout that reconnects by itself.
HeartbeatTimeout_Reconnects ==
    /\ TimeoutTicks \in timers
    /\ timers' = timers \ {TimeoutTicks}
    /\ handle' = IF handle = TimeoutTicks THEN -1 ELSE handle
    /\ Terminate
    /\ ScheduleReconnect
    /\ UNCHANGED <<state, ws, fetching, stopped, enabled, beating, network>>

\* A heartbeat timeout: whatever socket is current is terminated.
HeartbeatTimeout ==
    /\ TimeoutTicks \in timers
    /\ timers' = timers \ {TimeoutTicks}
    /\ handle' = IF handle = TimeoutTicks THEN -1 ELSE handle
    /\ Terminate
    /\ UNCHANGED <<state, ws, retried, reconnect, fetching, stopped, enabled, beating, network>>

\* HEARTBEAT_PONG: the timeout the handle names is cleared.  The pong of the
\* gateway carries no kill switch.
ReceivePong(s) ==
    /\ sock[s] = "open" /\ link[s] /\ pings[s] > 0
    /\ pings' = [pings EXCEPT ![s] = @ - 1]
    /\ ClearHeartbeat
    /\ UNCHANGED <<state, ws, retried, reconnect, fetching, stopped, enabled, beating, sock,
                   link, commands, gatewayEnabled>>

\* KILL_SWITCH_COMMAND: setKillSwitch of the client.
ReceiveCommand(s) ==
    /\ sock[s] = "open" /\ link[s] /\ commands[s] # <<>>
    /\ commands' = [commands EXCEPT ![s] = Tail(@)]
    /\ enabled' = Head(commands[s])
    /\ state' = IF enabled' THEN "CONNECTED" ELSE "DISABLED"
    /\ UNCHANGED <<ws, retried, reconnect, fetching, stopped, heartbeat, sock, link, pings,
                   gatewayEnabled>>

-----------------------------------------------------------------------------
(* The gateway and the network *)

\* setKillSwitch of the gateway: the open sockets are told.
SetKillSwitch ==
    /\ \A s \in Sockets : Len(commands[s]) < MaxCommands
    /\ gatewayEnabled' = ~gatewayEnabled
    /\ commands' = [s \in Sockets |-> IF sock[s] = "open" THEN Append(commands[s], ~gatewayEnabled)
                                                          ELSE commands[s]]
    /\ UNCHANGED <<state, ws, retried, reconnect, fetching, stopped, enabled, heartbeat, sock,
                   link, pings>>

\* The gateway or the network closes the connection.
ConnectionCloses(s) ==
    /\ sock[s] = "open"
    /\ sock' = [sock EXCEPT ![s] = "closing"]
    /\ UNCHANGED <<state, ws, retried, reconnect, fetching, stopped, enabled, heartbeat, network>>

\* The connection goes dead without a word.
LinkDies(s) ==
    /\ sock[s] = "open" /\ link[s]
    /\ link' = [link EXCEPT ![s] = FALSE]
    /\ UNCHANGED <<state, ws, retried, reconnect, fetching, stopped, enabled, heartbeat, sock,
                   pings, commands, gatewayEnabled>>

-----------------------------------------------------------------------------
ClientInit ==
    /\ state = "DISCONNECTED" /\ ws = NoSocket
    /\ retried = FALSE /\ reconnect = FALSE /\ fetching = "no"
    /\ stopped = FALSE /\ enabled = TRUE
    /\ beating = FALSE /\ handle = -1 /\ timers = {}
    /\ sock = [s \in Sockets |-> "closed"]
    /\ link = [s \in Sockets |-> FALSE]
    /\ pings = [s \in Sockets |-> 0]
    /\ commands = [s \in Sockets |-> <<>>]
    /\ gatewayEnabled = TRUE

ClientNext ==
    \/ Connect
    \/ Disconnect
    \/ ReconnectFires
    \/ TokenRefused
    \/ Tick
    \/ HeartbeatTimeout
    \/ SetKillSwitch
    \/ \E s \in Sockets :
        \/ TokenFetched(s)
        \/ SocketOpens(s) \/ SocketFails(s) \/ SocketCloses(s)
        \/ ReceivePong(s) \/ ReceiveCommand(s)
        \/ ConnectionCloses(s) \/ LinkDies(s)

\* Timers fire, close events are delivered and time passes; a token that is
\* asked for again and again is once given, and an attempt that is made again
\* and again once gets through.
ClientFairness ==
    /\ WF_clientVars(ReconnectFires)
    /\ WF_clientVars(Tick)
    /\ WF_clientVars(HeartbeatTimeout)
    /\ WF_clientVars(\E s \in Sockets : SocketCloses(s))
    /\ WF_clientVars(fetching # "no" /\ (TokenRefused \/ \E s \in Sockets : TokenFetched(s)))
    /\ SF_clientVars(\E s \in Sockets : TokenFetched(s))
    /\ WF_clientVars(\E s \in Sockets : SocketFails(s) \/ SocketOpens(s))
    /\ SF_clientVars(\E s \in Sockets : SocketOpens(s))

ClientSpec == ClientInit /\ [][ClientNext]_clientVars /\ ClientFairness

-----------------------------------------------------------------------------
(* Properties *)

\* There is one connection at a time: a socket that is not closed, a waiting
\* token and an armed reconnect timer exclude one another, whatever the
\* order of failures, timeouts and commands.
OneConnection ==
    /\ \A s, t \in Sockets : Live(s) /\ Live(t) => s = t
    /\ (\E s \in Sockets : Live(s)) => ~reconnect /\ fetching = "no"
    /\ reconnect => fetching = "no"

\* A client the kill switch has disabled makes no attempt to connect.
DisabledStaysOffline ==
    ~enabled => ~reconnect /\ fetching = "no" /\ \A s \in Sockets : sock[s] # "connecting"

\* A reconnection that was scheduled ends in a connection, unless the client
\* is stopped or disabled.
ScheduledReconnects == reconnect ~> (state = "CONNECTED" \/ stopped \/ ~enabled)

\* A connection that went dead silently is noticed: the heartbeat closes it.
DeadLinkIsNoticed == \A s \in Sockets : (sock[s] = "open" /\ ~link[s]) ~> sock[s] # "open"
=============================================================================
