------------------------------- MODULE WsManager -------------------------------
(***************************************************************************)
(* What the WebSocketManager (src/src/ws/manager.ts) keeps and what each of *)
(* its methods makes of it, as operators from a record to a record.        *)
(*                                                                         *)
(* Abstracted: of lastEventAtMs and lastPongAtMs only whether they are     *)
(* within staleAfterMs; subscriptions and the reconnect delay, which decide *)
(* nothing here; the payload of an event.                                  *)
(***************************************************************************)
EXTENDS Integers, Sequences

CONSTANTS Channel,       \* the channels events come in on
          DedupeWindow   \* policy.dedupeWindow: how many keys are remembered

ASSUME WindowAssumption == DedupeWindow \in Nat \ {0}

ConnectionState == {"DISCONNECTED", "CONNECTING", "CONNECTED", "STALE", "RECONNECTING"}
Unnumbered == 0   \* event.sequence or lastSequence: undefined

\* The fields of the manager fall in two that do not touch each other: the filter of
\* events and the connection.
Filter(Key) == [seenKeys : Seq(Key), lastSequence : [Channel -> Nat]]
Connection == [state      : ConnectionState,
               eventFresh : BOOLEAN,   \* lastEventAtMs within staleAfterMs
               pongFresh  : BOOLEAN]   \* lastPongAtMs within staleAfterMs

NewFilter == [seenKeys |-> <<>>, lastSequence |-> [c \in Channel |-> Unnumbered]]
NewConnection == [state |-> "DISCONNECTED", eventFresh |-> FALSE, pongFresh |-> FALSE]

-----------------------------------------------------------------------------
(* The connection. *)

Connecting(m) == [m EXCEPT !.state = "CONNECTING", !.pongFresh = TRUE]
MarkedConnected(m) == [m EXCEPT !.state = "CONNECTED", !.pongFresh = TRUE]
MarkedDisconnected(m) == [m EXCEPT !.state = "RECONNECTING"]
MarkedPong(m) == [m EXCEPT !.pongFresh = TRUE,
                           !.state = IF @ = "STALE" THEN "CONNECTED" ELSE @]

IsStale(m) == ~m.eventFresh \/ ~m.pongFresh \/ m.state \in {"DISCONNECTED", "RECONNECTING"}

\* status() also moves the state.
Reported(m) == [m EXCEPT !.state = IF IsStale(m) /\ @ = "CONNECTED" THEN "STALE" ELSE @]

-----------------------------------------------------------------------------
(* Events. *)

IsDuplicate(f, e) == \E i \in DOMAIN f.seenKeys : f.seenKeys[i] = e.key

\* Mutant: sequence numbers are not compared.
AcceptsAnySequence(f, e) == ~IsDuplicate(f, e)

Accepts(f, e) ==
  /\ ~IsDuplicate(f, e)
  /\ \/ e.sequence = Unnumbered
     \/ f.lastSequence[e.channel] = Unnumbered
     \/ e.sequence > f.lastSequence[e.channel]

\* remember: the oldest key goes when the window is full.
Remembered(keys, key) ==
  LET all == Append(keys, key)
  IN  IF Len(all) > DedupeWindow THEN Tail(all) ELSE all

Accepted(f, e) ==
  [f EXCEPT !.seenKeys = Remembered(@, e.key),
            !.lastSequence[e.channel] = IF e.sequence = Unnumbered THEN @ ELSE e.sequence]

\* An accepted event carries the venue's time, which may itself be old.
EventSeen(m, fresh) == [m EXCEPT !.eventFresh = fresh]
=============================================================================
