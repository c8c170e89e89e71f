----------------------------- MODULE WsConnection -----------------------------
(***************************************************************************)
(* The connection a WebSocketManager reports on (src/src/ws/manager.ts): a  *)
(* socket that opens, breaks and falls silent, and whoever asks status().  *)
(***************************************************************************)
EXTENDS WsManager

VARIABLE connection   \* the fields of the manager about the connection

Init == connection = NewConnection

Open == connection.state \in {"CONNECTED", "STALE"}

Connect == /\ connection.state \in {"DISCONNECTED", "RECONNECTING"}
           /\ connection' = Connecting(connection)

ConnectSucceeds == /\ connection.state = "CONNECTING"
                   /\ connection' = MarkedConnected(connection)

Disconnect == /\ connection.state # "DISCONNECTED"
              /\ connection' = MarkedDisconnected(connection)

Pong == Open /\ connection' = MarkedPong(connection)

EventArrives == /\ Open
                /\ \E fresh \in BOOLEAN : connection' = EventSeen(connection, fresh)

\* staleAfterMs pass without an event, or without a pong.
Silence == \/ connection' = [connection EXCEPT !.eventFresh = FALSE]
           \/ connection' = [connection EXCEPT !.pongFresh = FALSE]

StatusAsked == connection' = Reported(connection)

Next == \/ Connect
        \/ ConnectSucceeds
        \/ Disconnect
        \/ Pong
        \/ EventArrives
        \/ Silence
        \/ StatusAsked

Spec == Init /\ [][Next]_connection

-----------------------------------------------------------------------------
(* docs/MVP_LIVE_V1.md:11: fall back to polling when WebSockets are            *)
(* disconnected (shouldFallbackRestPoll, manager.ts:91).                       *)
DownFallsBack == ~Open => IsStale(connection)
=============================================================================
