------------------------------- MODULE OrderFeed -------------------------------
(***************************************************************************)
(* The rows the orders table keeps of orders on the venues, written by the *)
(* websocket events the manager lets through                               *)
(* (applyPrivateOrderEventToOrderRepo, src/src/ws/order-events.ts) and by  *)
(* the reconcile job (reconcileOpenOrdersJob,                              *)
(* src/src/jobs/reconcile-orders.ts).                                      *)
(*                                                                         *)
(* Both write back a copy of the row captured before an await.  Nothing in *)
(* src/ connects the manager to the rows; the caller is taken to do what   *)
(* README.md:51 names them for: it offers each event to acceptEvent and    *)
(* applies those that are accepted to the row it has at that moment.       *)
(*                                                                         *)
(* Abstracted: a status is "live" or "over" (matched, cancelled, failed,   *)
(* ...); prices, raw payloads and the audit of mismatches are left out.    *)
(***************************************************************************)
EXTENDS WsManager

CONSTANTS Order,      \* the orders; each has its events in a channel of its own
          Shares,     \* shares of an order
          Renumbers,  \* BOOLEAN: a venue numbers from 1 again on a new connection
          FillsTold   \* BOOLEAN: every event says how much is filled

ASSUME FeedAssumption == /\ Channel = Order
                         /\ Shares \in Nat \ {0}
                         /\ Renumbers \in BOOLEAN
                         /\ FillsTold \in BOOLEAN

VARIABLES order,     \* order[o]: the order on its venue
          numbered,  \* whether events carry sequence numbers
          emitted,   \* emitted[o]: how many events the venue has sent of o
          base,      \* base[o]: how many of them before it last numbered anew
          wire,      \* the events of this connection, delivered in any order, again or never
          up,        \* whether the socket is open
          filter,    \* what the WebSocketManager remembers of events
          row,       \* row[o]: the row of o in the orders table
          handling,  \* accepted events, each with the row it will be merged into
          job        \* reconcileOpenOrdersJob

vars == <<order, numbered, emitted, base, wire, up, filter, row, handling, job>>
venueVars == <<order, numbered, emitted, base, wire>>

NotTold == -1   \* filledShares: undefined

OrderState == [status : {"live", "over"}, filled : 0..Shares]
RowState == [status : {"live", "over"}, filled : {NotTold} \cup 0..Shares,
             known : BOOLEAN]   \* externalOrderId is set
Key == Order \X Nat
Event == [channel : Order, key : Key, sequence : Nat,
          status : {"live", "over"}, filled : {NotTold} \cup 0..Shares]

JobState ==
  [left   : SUBSET [order : Order, row : RowState],  \* open orders not yet looked at
   at     : SUBSET [order : Order, row : RowState],  \* the one getOrder is asked about
   answer : SUBSET OrderState]                       \* what it answered
JobIdle == [left |-> {}, at |-> {}, answer |-> {}]

-----------------------------------------------------------------------------
(* The venues *)

Sequence(o, n) == IF numbered THEN n - base[o] ELSE Unnumbered

\* The n-th event of o, telling state s, or its status only.
EventsOf(o, n, s) ==
  {[channel |-> o, key |-> <<o, n>>, sequence |-> Sequence(o, n),
    status |-> s.status, filled |-> f] : f \in {s.filled} \cup (IF FillsTold THEN {} ELSE {NotTold})}

\* An order fills in parts and ends; each step is told by an event, if the socket
\* is open.  A step that leaves the state as it is stands for orderAccepted.
VenueMoves(o) ==
  \E s \in OrderState :
    /\ order[o].status = "live"
    /\ s.filled >= order[o].filled
    /\ s.filled = Shares => s.status = "over"
    /\ s = order[o] => emitted[o] = 0
    /\ order' = [order EXCEPT ![o] = s]
    /\ emitted' = [emitted EXCEPT ![o] = @ + 1]
    /\ \/ /\ up
          /\ \E e \in EventsOf(o, emitted[o] + 1, s) : wire' = wire \cup {e}
       \/ ~up /\ UNCHANGED wire
    /\ UNCHANGED <<numbered, base, up, filter, row, handling, job>>

-----------------------------------------------------------------------------
(* The connection *)

Connect == /\ ~up
           /\ up' = TRUE
           /\ UNCHANGED <<venueVars, filter, row, handling, job>>

\* What was under way on the old connection is lost.
Disconnect == /\ up
              /\ up' = FALSE
              /\ wire' = {}
              /\ base' = IF Renumbers THEN emitted ELSE base
              /\ UNCHANGED <<order, numbered, emitted, filter, row, handling, job>>

-----------------------------------------------------------------------------
(* Private order events *)

Offer(e) ==
  /\ Accepts(filter, e)
  /\ filter' = Accepted(filter, e)
  /\ handling' = handling \cup {[event |-> e, row |-> row[e.channel]]}
  /\ UNCHANGED <<venueVars, up, row, job>>

\* Mutant: what the row has takes precedence over what the event says.
MergedRowFirst(r, e) ==
  [status |-> e.status, filled |-> IF r.filled = NotTold THEN e.filled ELSE r.filled,
   known |-> TRUE]

\* applyPrivateOrderEventToOrderRepo: the event's fields, else the captured row's.
Merged(r, e) ==
  [status |-> e.status, filled |-> IF e.filled = NotTold THEN r.filled ELSE e.filled,
   known |-> TRUE]

EventApplied(h) ==
  /\ row' = [row EXCEPT ![h.event.channel] = Merged(h.row, h.event)]
  /\ handling' = handling \ {h}
  /\ UNCHANGED <<venueVars, up, filter, job>>

\* updateOrder or the parsing of a field throws: the event counts as seen, and is lost.
EventDropped(h) ==
  /\ handling' = handling \ {h}
  /\ UNCHANGED <<venueVars, up, filter, row, job>>

-----------------------------------------------------------------------------
(* The reconcile job *)

OpenRows == {[order |-> o, row |-> row[o]] : o \in {p \in Order : row[p].status = "live"}}

\* findOpenOrders
JobBegin == /\ job = JobIdle
            /\ job' = [job EXCEPT !.left = OpenRows]
            /\ UNCHANGED <<venueVars, up, filter, row, handling>>

JobNext(c) == /\ job.at = {}
              /\ job' = [job EXCEPT !.left = @ \ {c}, !.at = {c}]
              /\ UNCHANGED <<venueVars, up, filter, row, handling>>

\* Without an external id there is nothing to ask: a mismatch is recorded.
MismatchRecorded(c) == /\ ~c.row.known
                       /\ job' = [job EXCEPT !.at = {}, !.answer = {}]
                       /\ UNCHANGED <<venueVars, up, filter, row, handling>>

GetOrderAnswers(c) == /\ c.row.known
                      /\ job.answer = {}
                      /\ job' = [job EXCEPT !.answer = {order[c.order]}]
                      /\ UNCHANGED <<venueVars, up, filter, row, handling>>

StatusChanged(r, s) == r.status # s.status \/ r.filled # s.filled

\* Mutant: the venue's status is written, the shares stay those of the row.
ReconciledStatus(r, s) == [r EXCEPT !.status = s.status]

Reconciled(r, s) == [r EXCEPT !.status = s.status, !.filled = s.filled]

Differs(c, s) == c.row.filled \notin {NotTold, s.filled}

RowsAfter(c, s) ==
  IF StatusChanged(c.row, s) THEN [row EXCEPT ![c.order] = Reconciled(c.row, s)] ELSE row

JobWrites(c) == \E s \in job.answer :
                  /\ row' = RowsAfter(c, s)
                  /\ job' = [job EXCEPT !.at = {}, !.answer = {}]
                  /\ UNCHANGED <<venueVars, up, filter, handling>>

\* getOrder, updateOrder or the recording of a mismatch throws: the rest of the pass is
\* not looked at.
JobThrows(c) ==
  /\ row' \in {row} \cup {RowsAfter(c, s) : s \in {t \in job.answer : Differs(c, t)}}
  /\ job' = JobIdle
  /\ UNCHANGED <<venueVars, up, filter, handling>>

-----------------------------------------------------------------------------
\* The process starts anew: the rows are in the database, the rest is gone.
Restart == /\ up' = FALSE
           /\ filter' = NewFilter
           /\ handling' = {}
           /\ job' = JobIdle
           /\ wire' = {}
           /\ base' = IF Renumbers THEN emitted ELSE base
           /\ UNCHANGED <<order, numbered, emitted, row>>

Init == /\ order = [o \in Order |-> [status |-> "live", filled |-> 0]]
        /\ numbered \in BOOLEAN
        /\ emitted = [o \in Order |-> 0]
        /\ base = [o \in Order |-> 0]
        /\ wire = {}
        /\ up = FALSE
        /\ filter = NewFilter
        /\ row \in [Order -> [status : {"live"}, filled : {NotTold}, known : BOOLEAN]]
        /\ handling = {}
        /\ job = JobIdle

Events == \/ \E e \in wire : Offer(e)
          \/ \E h \in handling : EventApplied(h) \/ EventDropped(h)
Job == \/ JobBegin
       \/ \E c \in job.left : JobNext(c)
       \/ \E c \in job.at : \/ MismatchRecorded(c)
                            \/ GetOrderAnswers(c)
                            \/ JobWrites(c)
                            \/ JobThrows(c)

Next == \/ \E o \in Order : VenueMoves(o)
        \/ Connect
        \/ Disconnect
        \/ Events
        \/ Job
        \/ Restart

Spec == Init /\ [][Next]_vars

(* The job runs periodically (docs/RUNBOOK.md:44) and takes the open orders in *)
(* whatever order it finds them; every promise settles; a venue or a database  *)
(* asked about an order again and again does not fail for ever; the process    *)
(* is not restarted for ever.  Nothing is assumed of the connection and its    *)
(* events.                                                                     *)
OrderIsAnswered(o) == \E c \in job.at : c.order = o /\ GetOrderAnswers(c)
OrderIsDone(o) == \E c \in job.at : c.order = o /\ (MismatchRecorded(c) \/ JobWrites(c))

Fairness == /\ WF_vars(JobBegin)
            /\ WF_vars(\E c \in job.left : JobNext(c))
            /\ WF_vars(\E h \in handling : EventApplied(h) \/ EventDropped(h))
            /\ \A o \in Order : SF_vars(OrderIsAnswered(o)) /\ SF_vars(OrderIsDone(o))
            /\ <>[][~Restart]_vars
FairSpec == Spec /\ Fairness

-----------------------------------------------------------------------------
(* Properties *)

TypeOK == /\ order \in [Order -> OrderState]
          /\ numbered \in BOOLEAN
          /\ emitted \in [Order -> Nat]
          /\ base \in [Order -> Nat] /\ \A o \in Order : base[o] <= emitted[o]
          /\ wire \subseteq Event
          /\ up \in BOOLEAN
          /\ filter \in Filter(Key)
          /\ row \in [Order -> RowState]
          /\ handling \subseteq [event : Event, row : RowState]
          /\ job \in JobState

\* What is said of an order was once so: no more is filled than is, and "over" is final.
WasTrueOf(s, now) == /\ s.filled <= now.filled
                     /\ s.status = "over" => now.status = "over"

\* "Over" comes with the final shares.
OverIsComplete(s, now) == s.status = "over" => s.filled \in {NotTold, now.filled}

\* The job asks about one order at a time.
JobIsOrderly == /\ job.at = {} => job.answer = {}
                /\ \A c, d \in job.at : c = d

Heard(e) == /\ WasTrueOf(e, order[e.channel])
            /\ OverIsComplete(e, order[e.channel])
            /\ FillsTold => e.filled # NotTold

MessagesAreTrue ==
  /\ \A e \in wire : Heard(e)
  /\ \A h \in handling : Heard(h.event) /\ WasTrueOf(h.row, order[h.event.channel])
AnswersAreTrue ==
  \A c \in job.at : \A s \in job.answer :
    WasTrueOf(s, order[c.order]) /\ OverIsComplete(s, order[c.order])
RowsAreTrue ==
  \A o \in Order :
    /\ WasTrueOf(row[o], order[o])
    /\ FillsTold => /\ OverIsComplete(row[o], order[o])
                    /\ row[o].status = "over" => row[o].filled # NotTold

(* The inductive invariant: no message, captured copy, answer or row says more *)
(* than has happened; and what says "over" has the final shares, a row if      *)
(* events tell the fills (order-events.ts:22, reconcile-orders.ts:40).         *)
SoundRows == TypeOK /\ JobIsOrderly /\ MessagesAreTrue /\ AnswersAreTrue /\ RowsAreTrue

(* A row that says an order is over, which no job looks at again, is right: the *)
(* order is over and has just these fills, in whatever order events and answers *)
(* were written back (if events tell the fills).                                *)
ClosedRowIsFinal ==
  \A o \in Order :
    FillsTold /\ row[o].status = "over" => /\ order[o].status = "over"
                                           /\ row[o].filled = order[o].filled

(* The end of an order whose external id is known is eventually in its row for *)
(* good, whatever events are lost or applied late and however often            *)
(* the connection breaks, provided events are numbered, so that none is        *)
(* accepted twice (manager.ts:77; reconcile-orders.ts:30).                     *)
EndIsRecorded ==
  \A o \in Order :
    (numbered /\ order[o].status = "over" /\ row[o].known) ~> [](row[o].status = "over")
=============================================================================
