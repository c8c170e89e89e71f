---------------------------- MODULE OrderFeedProofs ----------------------------
(* Proofs about OrderFeed, for any number of orders and shares, any dedupe   *)
(* window, and events lost, repeated and reordered at will.                  *)
EXTENDS OrderFeed, TLAPS

-----------------------------------------------------------------------------
(* The manager's filter and the venue's numbers                              *)

(* Accepting an event keeps the filter a filter (remember, manager.ts:120).   *)
LEMMA FilterStays ==
  ASSUME NEW K, NEW f \in Filter(K), NEW e, e.key \in K, e.sequence \in Nat
  PROVE  Accepted(f, e) \in Filter(K)
<1>1. /\ f.seenKeys \in Seq(K) /\ f.lastSequence \in [Channel -> Nat]
      /\ f = [seenKeys |-> f.seenKeys, lastSequence |-> f.lastSequence]
  BY DEF Filter
<1>2. Remembered(f.seenKeys, e.key) \in Seq(K)
  <2> DEFINE all == Append(f.seenKeys, e.key)
  <2>1. all \in Seq(K) /\ Len(all) = Len(f.seenKeys) + 1 /\ Len(f.seenKeys) \in Nat
    BY <1>1
  <2>2. all # <<>> BY <2>1
  <2>3. Tail(all) \in Seq(K) BY <2>1, <2>2
  <2> QED BY <2>1, <2>3 DEF Remembered
<1>3. [f.lastSequence EXCEPT ![e.channel] = IF e.sequence = Unnumbered THEN @ ELSE e.sequence]
        \in [Channel -> Nat]
  BY <1>1
<1> QED BY <1>1, <1>2, <1>3 DEF Accepted, Filter

(* The events a venue can send about a state of an order tell nothing else.   *)
LEMMA EventsAreTrue ==
  ASSUME TypeOK, NEW o \in Order, NEW s \in OrderState,
         NEW e \in EventsOf(o, emitted[o] + 1, s)
  PROVE  /\ e \in Event
         /\ e.channel = o /\ e.status = s.status /\ e.filled \in {NotTold, s.filled}
         /\ FillsTold => e.filled = s.filled
<1>1. emitted[o] \in Nat /\ base[o] \in Nat /\ base[o] <= emitted[o] /\ numbered \in BOOLEAN
  BY DEF TypeOK
<1>2. Sequence(o, emitted[o] + 1) \in Nat BY <1>1 DEF Sequence, Unnumbered
<1>3. PICK f \in {s.filled} \cup (IF FillsTold THEN {} ELSE {NotTold}) :
        e = [channel |-> o, key |-> <<o, emitted[o] + 1>>,
             sequence |-> Sequence(o, emitted[o] + 1), status |-> s.status, filled |-> f]
  BY DEF EventsOf
<1>4. f \in {NotTold, s.filled} /\ (FillsTold => f = s.filled) BY <1>3
<1>5. s.status \in {"live", "over"} /\ s.filled \in 0..Shares BY DEF OrderState
<1>6. e \in Event BY <1>1, <1>2, <1>3, <1>4, <1>5 DEF Event, Key
<1> QED BY <1>3, <1>4, <1>6

-----------------------------------------------------------------------------
(* Time passes at the venue                                                  *)

(* An order only ever fills further, and is over for good.                    *)
Later(now, s) == /\ now \in OrderState /\ s \in OrderState
                 /\ now.filled <= s.filled
                 /\ now.status = "over" => s = now

(* What was true stays so.                                                    *)
LEMMA TruthStays ==
  ASSUME NEW now, NEW s, Later(now, s), NEW x,
         x.filled \in {NotTold} \cup 0..Shares, WasTrueOf(x, now)
  PROVE  /\ WasTrueOf(x, s)
         /\ OverIsComplete(x, now) => OverIsComplete(x, s)
<1>1. now.filled \in Int /\ s.filled \in Int /\ x.filled \in Int
  BY FeedAssumption DEF Later, OrderState, NotTold
<1>2. x.filled <= now.filled /\ now.filled <= s.filled BY DEF WasTrueOf, Later
<1>3. x.filled <= s.filled BY <1>1, <1>2
<1>4. x.status = "over" => now.status = "over" /\ s = now BY DEF WasTrueOf, Later
<1> QED BY <1>3, <1>4 DEF WasTrueOf, OverIsComplete

(* A state of the order itself is true of it, told with or without its fills. *)
LEMMA NowIsTrue ==
  ASSUME NEW s \in OrderState, NEW x,
         x.status = s.status, x.filled \in {NotTold, s.filled}
  PROVE  WasTrueOf(x, s) /\ OverIsComplete(x, s)
<1>1. s.filled \in Nat BY FeedAssumption DEF OrderState
<1>2. x.filled <= s.filled BY <1>1 DEF NotTold
<1> QED BY <1>2 DEF WasTrueOf, OverIsComplete

-----------------------------------------------------------------------------
(* One lemma per action: what is said stays true                             *)

(* An order moves (its event is true of what it has become).                  *)
LEMMA VenueMovesKeeps ==
  ASSUME SoundRows, NEW o \in Order, VenueMoves(o)
  PROVE  SoundRows'
<1> USE DEF SoundRows
<1>1. PICK s \in OrderState :
        /\ order[o].status = "live"
        /\ s.filled >= order[o].filled
        /\ order' = [order EXCEPT ![o] = s]
        /\ emitted' = [emitted EXCEPT ![o] = @ + 1]
        /\ \/ \E e \in EventsOf(o, emitted[o] + 1, s) : wire' = wire \cup {e}
           \/ wire' = wire
        /\ UNCHANGED <<numbered, base, up, filter, row, handling, job>>
  BY DEF VenueMoves
<1>2. TypeOK BY DEF SoundRows
<1>3. \A p \in Order : Later(order[p], order'[p])
  <2> TAKE p \in Order
  <2>1. order[p] \in OrderState /\ order'[p] \in OrderState BY <1>1, <1>2 DEF TypeOK
  <2>2. order[p].filled \in Int BY <2>1, FeedAssumption DEF OrderState
  <2> QED BY <1>1, <1>2, <2>1, <2>2, FeedAssumption DEF Later, TypeOK, OrderState
<1>4. order'[o] = s BY <1>1, <1>2 DEF TypeOK
<1>5. \A e \in wire' : e \in wire \/ e \in EventsOf(o, emitted[o] + 1, s) BY <1>1
<1>6. TypeOK'
  <2>1. order' \in [Order -> OrderState] /\ emitted' \in [Order -> Nat] BY <1>1, <1>2 DEF TypeOK
  <2>2. \A p \in Order : base'[p] <= emitted'[p] BY <1>1, <1>2 DEF TypeOK
  <2>3. wire' \subseteq Event BY <1>2, <1>5, EventsAreTrue DEF TypeOK
  <2> QED BY <1>1, <1>2, <2>1, <2>2, <2>3 DEF TypeOK
<1>7. ASSUME NEW x, NEW p \in Order, x.filled \in {NotTold} \cup 0..Shares,
             WasTrueOf(x, order[p])
      PROVE  /\ WasTrueOf(x, order'[p])
             /\ OverIsComplete(x, order[p]) => OverIsComplete(x, order'[p])
  BY <1>3, <1>7, TruthStays
<1>8. MessagesAreTrue'
  <2>1. ASSUME NEW e \in Event, Heard(e) PROVE Heard(e)'
    <3>1. e.channel \in Order /\ e.filled \in {NotTold} \cup 0..Shares BY DEF Event
    <3> QED BY <2>1, <3>1, <1>7 DEF Heard
  <2>2. ASSUME NEW e \in EventsOf(o, emitted[o] + 1, s) PROVE Heard(e)'
    <3>1. /\ e.channel = o /\ e.status = s.status /\ e.filled \in {NotTold, s.filled}
          /\ FillsTold => e.filled = s.filled
      BY <1>2, EventsAreTrue
    <3>2. WasTrueOf(e, s) /\ OverIsComplete(e, s) BY <3>1, NowIsTrue
    <3>3. s.filled # NotTold BY FeedAssumption DEF OrderState, NotTold
    <3> QED BY <1>4, <3>1, <3>2, <3>3 DEF Heard
  <2>3. \A e \in wire' : Heard(e)' BY <1>2, <1>5, <2>1, <2>2 DEF TypeOK, MessagesAreTrue
  <2>4. ASSUME NEW h \in handling'
        PROVE  Heard(h.event)' /\ WasTrueOf(h.row, order[h.event.channel])'
    <3>1. h \in handling /\ h.event \in Event /\ h.row \in RowState
      BY <1>1, <1>2, <2>4 DEF TypeOK
    <3>2. h.event.channel \in Order /\ h.row.filled \in {NotTold} \cup 0..Shares
      BY <3>1 DEF Event, RowState
    <3> QED BY <2>1, <1>7, <3>1, <3>2 DEF MessagesAreTrue
  <2> QED BY <2>3, <2>4 DEF MessagesAreTrue
<1>9. AnswersAreTrue'
  <2> SUFFICES ASSUME NEW c \in job.at, NEW x \in job.answer
               PROVE  WasTrueOf(x, order'[c.order]) /\ OverIsComplete(x, order'[c.order])
    BY <1>1 DEF AnswersAreTrue
  <2>1. c.order \in Order /\ x.filled \in 0..Shares BY <1>2 DEF TypeOK, JobState, OrderState
  <2> QED BY <2>1, <1>7 DEF AnswersAreTrue
<1>10. RowsAreTrue'
  <2> SUFFICES ASSUME NEW p \in Order
               PROVE  /\ WasTrueOf(row[p], order'[p])
                      /\ FillsTold => /\ OverIsComplete(row[p], order'[p])
                                      /\ row[p].status = "over" => row[p].filled # NotTold
    BY <1>1 DEF RowsAreTrue
  <2>1. row[p].filled \in {NotTold} \cup 0..Shares BY <1>2 DEF TypeOK, RowState
  <2> QED BY <2>1, <1>7 DEF RowsAreTrue
<1>11. JobIsOrderly' BY <1>1 DEF JobIsOrderly
<1> QED BY <1>6, <1>8, <1>9, <1>10, <1>11

(* The connection opens or breaks.                                            *)
LEMMA ConnectionKeeps ==
  ASSUME SoundRows, Connect \/ Disconnect
  PROVE  SoundRows'
<1> USE DEF SoundRows
<1>1. CASE Connect
  BY <1>1 DEF Connect, venueVars, TypeOK, JobIsOrderly, MessagesAreTrue, Heard,
              AnswersAreTrue, RowsAreTrue
<1>2. CASE Disconnect
  <2>1. /\ up' = FALSE /\ wire' = {} /\ base' \in {base, emitted}
        /\ UNCHANGED <<order, numbered, emitted, filter, row, handling, job>>
    BY <1>2 DEF Disconnect
  <2>2. base' \in [Order -> Nat] /\ \A o \in Order : base'[o] <= emitted'[o]
    BY <2>1 DEF TypeOK
  <2>3. TypeOK' BY <2>1, <2>2 DEF TypeOK
  <2> QED BY <2>1, <2>3 DEF JobIsOrderly, MessagesAreTrue, Heard, AnswersAreTrue, RowsAreTrue
<1> QED BY <1>1, <1>2

(* An event is accepted and the row captured; later it is applied or lost.    *)
LEMMA OfferKeeps ==
  ASSUME SoundRows, NEW e \in wire, Offer(e)
  PROVE  SoundRows'
<1> USE DEF SoundRows
<1>1. /\ filter' = Accepted(filter, e)
      /\ handling' = handling \cup {[event |-> e, row |-> row[e.channel]]}
      /\ UNCHANGED <<order, numbered, emitted, base, wire, up, row, job>>
  BY DEF Offer, venueVars
<1>2. e \in Event /\ e.channel \in Order /\ e.key \in Key /\ e.sequence \in Nat
  BY DEF TypeOK, Event
<1>3. filter' \in Filter(Key) BY <1>1, <1>2, FilterStays DEF TypeOK
<1>4. TypeOK' BY <1>1, <1>2, <1>3 DEF TypeOK
<1>5. Heard(e) /\ WasTrueOf(row[e.channel], order[e.channel])
  BY <1>2 DEF MessagesAreTrue, RowsAreTrue
<1>6. MessagesAreTrue' BY <1>1, <1>5 DEF MessagesAreTrue, Heard
<1> QED BY <1>1, <1>4, <1>6 DEF JobIsOrderly, AnswersAreTrue, RowsAreTrue

LEMMA HandlingKeeps ==
  ASSUME SoundRows, NEW h \in handling, EventApplied(h) \/ EventDropped(h)
  PROVE  SoundRows'
<1> USE DEF SoundRows
<1>1. /\ handling' = handling \ {h}
      /\ UNCHANGED <<order, numbered, emitted, base, wire, up, filter, job>>
      /\ row' \in {row, [row EXCEPT ![h.event.channel] = Merged(h.row, h.event)]}
  BY DEF EventApplied, EventDropped, venueVars
<1> DEFINE o == h.event.channel
           r == Merged(h.row, h.event)
<1>2. h.event \in Event /\ h.row \in RowState /\ o \in Order BY DEF TypeOK, Event
<1>3. Heard(h.event) /\ WasTrueOf(h.row, order[o]) BY DEF MessagesAreTrue
<1>4. /\ r \in RowState /\ r.status = h.event.status
      /\ r.filled = IF h.event.filled = NotTold THEN h.row.filled ELSE h.event.filled
  BY <1>2 DEF Merged, RowState, Event
<1>5. WasTrueOf(r, order[o]) BY <1>3, <1>4 DEF Heard, WasTrueOf
<1>6. FillsTold => OverIsComplete(r, order[o]) /\ r.filled # NotTold
  BY <1>3, <1>4 DEF Heard, OverIsComplete
<1>7. TypeOK' BY <1>1, <1>2, <1>4 DEF TypeOK
<1>8. \A p \in Order : row'[p] = row[p] \/ (p = o /\ row'[p] = r)
  BY <1>1, <1>2 DEF TypeOK
<1>9. RowsAreTrue' BY <1>1, <1>5, <1>6, <1>8 DEF RowsAreTrue
<1> QED BY <1>1, <1>7, <1>9 DEF JobIsOrderly, MessagesAreTrue, Heard, AnswersAreTrue

(* A step of the reconcile job.                                               *)
LEMMA JobKeeps ==
  ASSUME SoundRows, Job
  PROVE  SoundRows'
<1> USE DEF SoundRows
<1>1. CASE JobBegin
  <2>1. /\ job'.at = {} /\ job'.answer = {} /\ job' \in JobState
        /\ UNCHANGED <<order, numbered, emitted, base, wire, up, filter, row, handling>>
    <3>1. OpenRows \subseteq [order : Order, row : RowState] BY DEF OpenRows, TypeOK
    <3> QED BY <1>1, <3>1 DEF JobBegin, JobIdle, JobState, venueVars
  <2>2. TypeOK' BY <2>1 DEF TypeOK
  <2> QED BY <2>1, <2>2 DEF JobIsOrderly, MessagesAreTrue, Heard, AnswersAreTrue, RowsAreTrue
<1>2. ASSUME NEW c \in job.left, JobNext(c) PROVE SoundRows'
  <2>1. /\ job.answer = {} /\ job'.answer = {} /\ job'.at \subseteq {c} /\ job' \in JobState
        /\ UNCHANGED <<order, numbered, emitted, base, wire, up, filter, row, handling>>
    BY <1>2 DEF JobNext, JobState, JobIsOrderly, TypeOK, venueVars
  <2>2. TypeOK' BY <2>1 DEF TypeOK
  <2> QED BY <2>1, <2>2 DEF JobIsOrderly, MessagesAreTrue, Heard, AnswersAreTrue, RowsAreTrue
<1>3. ASSUME NEW c \in job.at, GetOrderAnswers(c) PROVE SoundRows'
  <2>1. /\ job'.at = job.at /\ job'.answer = {order[c.order]}
        /\ UNCHANGED <<order, numbered, emitted, base, wire, up, filter, row, handling>>
    BY <1>3 DEF GetOrderAnswers, JobState, TypeOK, venueVars
  <2>2. c.order \in Order /\ order[c.order] \in OrderState BY DEF TypeOK, JobState
  <2>3. job' \in JobState BY <1>3, <2>2 DEF GetOrderAnswers, JobState, TypeOK
  <2>4. TypeOK' BY <2>1, <2>3 DEF TypeOK
  <2>5. AnswersAreTrue'
    <3>1. WasTrueOf(order[c.order], order[c.order])
          /\ OverIsComplete(order[c.order], order[c.order])
      BY <2>2, NowIsTrue
    <3>2. \A d \in job.at : d = c BY DEF JobIsOrderly
    <3> QED BY <2>1, <3>1, <3>2 DEF AnswersAreTrue
  <2>6. JobIsOrderly' BY <2>1 DEF JobIsOrderly
  <2> QED BY <2>1, <2>4, <2>5, <2>6 DEF MessagesAreTrue, Heard, RowsAreTrue
<1>4. ASSUME NEW c \in job.at, MismatchRecorded(c) \/ JobWrites(c) \/ JobThrows(c)
      PROVE  SoundRows'
  <2> DEFINE o == c.order
  <2>1. /\ job'.at = {} /\ job'.answer = {} /\ job' \in JobState
        /\ UNCHANGED <<order, numbered, emitted, base, wire, up, filter, handling>>
    <3>1. job \in JobState BY DEF TypeOK
    <3>2. CASE MismatchRecorded(c) BY <3>1, <3>2 DEF MismatchRecorded, JobState, venueVars
    <3>3. CASE JobWrites(c) BY <3>1, <3>3 DEF JobWrites, JobState, venueVars
    <3>4. CASE JobThrows(c) BY <3>4 DEF JobThrows, JobIdle, JobState, venueVars
    <3> QED BY <1>4, <3>2, <3>3, <3>4
  <2>2. \/ row' = row
        \/ \E s \in job.answer : row' = [row EXCEPT ![o] = Reconciled(c.row, s)]
    BY <1>4 DEF MismatchRecorded, JobWrites, JobThrows, RowsAfter, venueVars
  <2>3. o \in Order /\ c.row \in RowState BY DEF TypeOK, JobState
  <2>4. ASSUME NEW s \in job.answer
        PROVE  /\ Reconciled(c.row, s) \in RowState
               /\ WasTrueOf(Reconciled(c.row, s), order[o])
               /\ OverIsComplete(Reconciled(c.row, s), order[o])
               /\ Reconciled(c.row, s).filled # NotTold
    <3>1. s \in OrderState BY DEF TypeOK, JobState
    <3>2. s.filled # NotTold BY <3>1, FeedAssumption DEF OrderState, NotTold
    <3>3. /\ Reconciled(c.row, s) \in RowState
          /\ Reconciled(c.row, s).status = s.status /\ Reconciled(c.row, s).filled = s.filled
      BY <2>3, <3>1 DEF Reconciled, RowState, OrderState
    <3> QED BY <3>2, <3>3 DEF AnswersAreTrue, WasTrueOf, OverIsComplete
  <2>5. row' \in [Order -> RowState] BY <2>2, <2>4 DEF TypeOK
  <2>6. TypeOK' BY <2>1, <2>5 DEF TypeOK
  <2>7. \A p \in Order : \/ row'[p] = row[p]
                         \/ p = o /\ \E s \in job.answer : row'[p] = Reconciled(c.row, s)
    BY <2>2, <2>3 DEF TypeOK
  <2>8. RowsAreTrue' BY <2>1, <2>4, <2>7 DEF RowsAreTrue
  <2> QED BY <2>1, <2>6, <2>8 DEF JobIsOrderly, MessagesAreTrue, Heard, AnswersAreTrue
<1> QED BY <1>1, <1>2, <1>3, <1>4 DEF Job

(* The process starts anew.                                                   *)
LEMMA RestartKeeps ==
  ASSUME SoundRows, Restart
  PROVE  SoundRows'
<1> USE DEF SoundRows
<1>1. /\ up' = FALSE /\ filter' = NewFilter /\ handling' = {} /\ job' = JobIdle /\ wire' = {}
      /\ base' \in {base, emitted} /\ UNCHANGED <<order, numbered, emitted, row>>
  BY DEF Restart
<1>2. NewFilter \in Filter(Key) BY DEF NewFilter, Filter, Unnumbered
<1>3. JobIdle \in JobState /\ JobIdle.at = {} /\ JobIdle.answer = {} BY DEF JobIdle, JobState
<1>4. base' \in [Order -> Nat] /\ \A o \in Order : base'[o] <= emitted'[o]
  BY <1>1 DEF TypeOK
<1>5. TypeOK'
  <2>1. order' \in [Order -> OrderState] /\ emitted' \in [Order -> Nat] BY <1>1 DEF TypeOK
  <2>2. row' \in [Order -> RowState] /\ numbered' \in BOOLEAN BY <1>1 DEF TypeOK
  <2> QED BY <1>1, <1>2, <1>3, <1>4, <2>1, <2>2 DEF TypeOK
<1> QED BY <1>1, <1>3, <1>5 DEF JobIsOrderly, MessagesAreTrue, AnswersAreTrue, RowsAreTrue

LEMMA StepKeeps ==
  ASSUME SoundRows, [Next]_vars
  PROVE  SoundRows'
<1>1. CASE UNCHANGED vars
  BY <1>1 DEF SoundRows, vars, TypeOK, JobIsOrderly, MessagesAreTrue, Heard, AnswersAreTrue,
              RowsAreTrue
<1>2. CASE \E o \in Order : VenueMoves(o) BY <1>2, VenueMovesKeeps
<1>3. CASE Connect \/ Disconnect BY <1>3, ConnectionKeeps
<1>4. CASE Events BY <1>4, OfferKeeps, HandlingKeeps DEF Events
<1>5. CASE Job BY <1>5, JobKeeps
<1>6. CASE Restart BY <1>6, RestartKeeps
<1> QED BY <1>1, <1>2, <1>3, <1>4, <1>5, <1>6 DEF Next

LEMMA InitIsSound == Init => SoundRows
<1> SUFFICES ASSUME Init PROVE SoundRows
  OBVIOUS
<1> USE DEF Init
<1>1. NewFilter \in Filter(Key) BY DEF NewFilter, Filter, Unnumbered
<1>2. JobIdle \in JobState /\ JobIdle.at = {} /\ JobIdle.answer = {} BY DEF JobIdle, JobState
<1>3. [status |-> "live", filled |-> 0] \in OrderState BY FeedAssumption DEF OrderState
<1>4. \A o \in Order : /\ row[o] \in RowState /\ row[o].status = "live" /\ row[o].filled = NotTold
                       /\ order[o].filled = 0
  BY DEF RowState
<1>5. row \in [Order -> RowState] BY DEF RowState
<1>6. TypeOK
  <2>1. order \in [Order -> OrderState] BY <1>3
  <2>2. /\ emitted \in [Order -> Nat] /\ base \in [Order -> Nat]
        /\ \A o \in Order : base[o] <= emitted[o]
    OBVIOUS
  <2> QED BY <1>1, <1>2, <1>5, <2>1, <2>2 DEF TypeOK
<1>7. RowsAreTrue BY <1>4 DEF RowsAreTrue, WasTrueOf, OverIsComplete, NotTold
<1> QED BY <1>2, <1>6, <1>7 DEF SoundRows, JobIsOrderly, MessagesAreTrue, AnswersAreTrue

-----------------------------------------------------------------------------
(* Theorems                                                                  *)

(* The inductive invariant holds: whatever the rows were written from was true *)
(* of the order when it was said (order-events.ts:22, reconcile-orders.ts:40). *)
THEOREM RowsAreSound == Spec => []SoundRows
<1>1. Init => SoundRows BY InitIsSound
<1>2. SoundRows /\ [Next]_vars => SoundRows' BY StepKeeps
<1> QED BY <1>1, <1>2, PTL DEF Spec

(* The variables keep their types.                                            *)
THEOREM TypeCorrect == Spec => []TypeOK
<1>1. SoundRows => TypeOK BY DEF SoundRows
<1> QED BY <1>1, RowsAreSound, PTL

(* A row that no job looks at again is right, for any number of orders and     *)
(* shares, any dedupe window and any loss, repetition and order of events.     *)
THEOREM ClosedIsFinal == Spec => []ClosedRowIsFinal
<1>1. SoundRows => ClosedRowIsFinal
  BY DEF SoundRows, RowsAreTrue, WasTrueOf, OverIsComplete, ClosedRowIsFinal
<1> QED BY <1>1, RowsAreSound, PTL
=============================================================================
