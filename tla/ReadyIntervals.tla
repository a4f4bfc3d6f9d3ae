--------------------------- MODULE ReadyIntervals ---------------------------
(***************************************************************************)
(* The ledger of the times a worker's models were ready                    *)
(* (src/internal/gateway/records_store.go) and what billing makes of it    *)
(* (billing.go).  The table worker_model_ready_intervals is written from   *)
(* three sides: events of the agent that come with its heartbeats and      *)
(* events of the gateway's own calls, the snapshot of the running models   *)
(* at the end of each heartbeat, and a backfill from the recorded events   *)
(* at the beginning of each billing query.  Only the snapshot is a         *)
(* transaction; every other statement stands alone, and the next may fail  *)
(* or be cut off.                                                          *)
(*                                                                         *)
(* The ledger is kept per worker: one worker is modelled.  Time is a       *)
(* number of ticks of the gateway's clock; t stands for the tick from t    *)
(* to t + 1.  The clock of the agent is Skew ticks ahead.                  *)
(***************************************************************************)
EXTENDS Integers, FiniteSets, FiniteSetsExt, Functions, Sequences, SequencesExt

CONSTANTS Models,   \* models of the worker
          Legacy,   \* models with an open interval of an old version
          Skew,     \* how far the clock of the agent is ahead
          Horizon,  \* bound: ticks
          Turns,    \* bound: loads and unloads at the worker
          Calls,    \* bound: events of the gateway
          Faults,   \* bound: heartbeats that are cut off and statements that fail
          Queries,  \* bound: billing queries
          None      \* no time, no heartbeat

\* What an instance assumes of its constants.
IntervalAssumption ==
  /\ {Skew, Horizon, Turns, Calls, Faults, Queries} \subseteq Nat
  /\ IsFiniteSet(Models) /\ Legacy \subseteq Models
  /\ None \notin Int

VARIABLES now,      \* the gateway's clock
          ready,    \* models that are ready at the worker
          backlog,  \* events the agent has not got an answer for
          beat,     \* the heartbeat being handled: [models, at, todo, sent], or None
          events,   \* worker_events; the index is the id
          rows,     \* worker_model_ready_intervals
          backfill, \* ids of events the running billing query has yet to apply
          heard,    \* when the last heartbeat was recorded that came, or None
          spent     \* [turns, calls, faults, queries]

vars == <<now, ready, backlog, beat, events, rows, backfill, heard, spent>>

\* opensReadyInterval, closesReadyInterval: what an event says.
Event(kind, m, t) == [kind |-> kind, model |-> m, time |-> t]
Row(m, t, id) == [model |-> m, start |-> t, end |-> None, seen |-> t, source |-> id, close |-> 0]
Open(r) == r.end = None

Told == [kind : {"opens", "closes"}, model : Models, time : Nat]
ReadyRows == [model : Models, start : Nat, end : Nat \cup {None}, seen : Nat \cup {None},
              source : Nat, close : Nat]
Beats == [models : SUBSET Models, at : Nat, todo : Seq(Told), sent : Nat]

TypeOK ==
  /\ now \in Nat
  /\ ready \subseteq Models
  /\ backlog \in Seq(Told)
  /\ beat \in Beats \cup {None}
  /\ events \in Seq(Told)
  /\ rows \in Seq(ReadyRows)
  /\ backfill \subseteq DOMAIN events
  /\ heard \in Nat \cup {None}
  /\ spent \in [turns : Nat, calls : Nat, faults : Nat, queries : Nat]
-----------------------------------------------------------------------------
(* applyWorkerModelReadyEvent                                              *)

Opened(R, e, id) ==
  IF \E i \in DOMAIN R : \/ R[i].source = id
                         \/ R[i].model = e.model /\ R[i].start = e.time
                         \/ R[i].model = e.model /\ Open(R[i])
    THEN R ELSE Append(R, Row(e.model, e.time, id))

Ended(r, t, id) == [r EXCEPT !.end = t, !.seen = t, !.close = id]

\* Faulty variant: a late event closes intervals that are closed already.
ClosedAnyway(R, e, id) ==
  [i \in DOMAIN R |-> IF R[i].model = e.model /\ R[i].start <= e.time THEN Ended(R[i], e.time, id) ELSE R[i]]

Closed(R, e, id) ==
  [i \in DOMAIN R |-> IF R[i].model = e.model /\ Open(R[i]) /\ R[i].start <= e.time
                      THEN Ended(R[i], e.time, id) ELSE R[i]]

Applied(R, e, id) == IF e.kind = "opens" THEN Opened(R, e, id) ELSE Closed(R, e, id)
-----------------------------------------------------------------------------
(* RecordWorkerModelSnapshot                                               *)

\* Intervals of an old version, which never kept when they were seen last,
\* are closed where they began.
WithoutLegacy(R, M, t) ==
  [i \in DOMAIN R |-> IF R[i].model \in M /\ Open(R[i]) /\ R[i].seen = None /\ R[i].start < t
                      THEN [R[i] EXCEPT !.end = R[i].start, !.seen = R[i].start] ELSE R[i]]

OpenIn(R, m) == \E i \in DOMAIN R : R[i].model = m /\ Open(R[i])

Refreshed(R, M, t) ==
  [i \in DOMAIN R |-> IF R[i].model \in M /\ Open(R[i]) /\ R[i].start <= t
                      THEN [R[i] EXCEPT !.seen = t] ELSE R[i]]

MissingClosed(R, M, t) ==
  [i \in DOMAIN R |-> IF R[i].model \notin M /\ Open(R[i])
                      THEN [R[i] EXCEPT !.end = t, !.seen = t] ELSE R[i]]

SnapshotRows(R, M, t) ==
  LET kept == WithoutLegacy(R, M, t)
      new == {m \in M : ~OpenIn(kept, m)}
  IN MissingClosed(Refreshed(kept \o SetToSeq({Row(m, t, 0) : m \in new}), M, t), M, t)

\* CHECK (ended_at IS NULL OR ended_at >= started_at)
Consistent(R) == \A i \in DOMAIN R : Open(R[i]) \/ R[i].end >= R[i].start
-----------------------------------------------------------------------------
Init ==
  /\ now = 0
  /\ ready = {}
  /\ backlog = <<>>
  /\ beat = None
  /\ events = <<>>
  /\ rows = SetToSeq({[Row(m, 0, 0) EXCEPT !.seen = None] : m \in Legacy})
  /\ backfill = {}
  /\ heard = None
  /\ spent = [turns |-> 0, calls |-> 0, faults |-> 0, queries |-> 0]

Tick ==
  /\ now < Horizon
  /\ now' = now + 1
  /\ UNCHANGED <<ready, backlog, beat, events, rows, backfill, heard, spent>>

\* The agent notices that a model became ready, or no longer is.
Turn(m) ==
  /\ spent.turns < Turns
  /\ spent' = [spent EXCEPT !.turns = @ + 1]
  /\ ready' = IF m \in ready THEN ready \ {m} ELSE ready \cup {m}
  /\ backlog' = Append(backlog, Event(IF m \in ready THEN "closes" ELSE "opens", m, now + Skew))
  /\ UNCHANGED <<now, beat, events, rows, backfill, heard>>

\* A heartbeat reaches the gateway, with all events not answered yet; they are
\* more than a tick apart.
Beat ==
  /\ beat = None
  /\ heard # now
  /\ beat' = [models |-> ready, at |-> now, todo |-> backlog, sent |-> Len(backlog)]
  /\ UNCHANGED <<now, ready, backlog, events, rows, backfill, heard, spent>>

\* AppendImportedWorkerEvent: the event is stored, then applied.
Store(e) ==
  /\ events' = Append(events, e)
  /\ rows' = Applied(rows, e, Len(events) + 1)

\* The statement that applies the event fails; the error is logged.
StoreOnly(e) ==
  /\ spent.faults < Faults
  /\ spent' = [spent EXCEPT !.faults = @ + 1]
  /\ events' = Append(events, e)
  /\ UNCHANGED rows

\* handleHeartbeat: one event after the other,
Deliver ==
  /\ beat # None /\ beat.todo # <<>>
  /\ beat' = [beat EXCEPT !.todo = Tail(@)]
  /\ \/ Store(Head(beat.todo)) /\ UNCHANGED spent
     \/ StoreOnly(Head(beat.todo))
  /\ UNCHANGED <<now, ready, backlog, backfill, heard>>

\* and then the running models.  The answer takes the events off the agent.
Finish ==
  LET snapshot == SnapshotRows(rows, beat.models, beat.at) IN
  /\ beat # None /\ beat.todo = <<>>
  /\ rows' = IF Consistent(snapshot) THEN snapshot ELSE rows
  /\ heard' = beat.at
  /\ beat' = None
  /\ backlog' = SubSeq(backlog, beat.sent + 1, Len(backlog))
  /\ UNCHANGED <<now, ready, events, backfill, spent>>

\* The connection is cut: the statements that are left fail, and the agent
\* will send the events again.
Break ==
  /\ beat # None
  /\ spent.faults < Faults
  /\ spent' = [spent EXCEPT !.faults = @ + 1]
  /\ beat' = None
  /\ UNCHANGED <<now, ready, backlog, events, rows, backfill, heard>>

\* recordGatewayWorkerEvent: the gateway's own load or unload succeeded.
GatewayEvent(m) ==
  /\ spent.calls < Calls
  /\ LET e == Event(IF m \in ready THEN "opens" ELSE "closes", m, now) IN
     /\ events' = Append(events, e)
     /\ rows' = Applied(rows, e, Len(events) + 1)
  /\ spent' = [spent EXCEPT !.calls = @ + 1]
  /\ UNCHANGED <<now, ready, backlog, beat, backfill, heard>>

\* backfillReadyIntervalsFromWorkerEvents: the events that no interval names.
Query ==
  /\ backfill = {}
  /\ spent.queries < Queries
  /\ spent' = [spent EXCEPT !.queries = @ + 1]
  /\ backfill' = {id \in DOMAIN events :
                    /\ events[id].time <= now
                    /\ \A i \in DOMAIN rows : rows[i].source # id /\ rows[i].close # id}
  /\ UNCHANGED <<now, ready, backlog, beat, events, rows, heard>>

\* ORDER BY we.event_time, we.id
Earlier(i, j) == events[i].time < events[j].time \/ (events[i].time = events[j].time /\ i < j)

Backfill(id) ==
  /\ \A j \in backfill \ {id} : Earlier(id, j)
  /\ rows' = Applied(rows, events[id], id)
  /\ backfill' = backfill \ {id}
  /\ UNCHANGED <<now, ready, backlog, beat, events, heard, spent>>

Next ==
  \/ Tick \/ Beat \/ Deliver \/ Finish \/ Break \/ Query
  \/ \E id \in backfill : Backfill(id)
  \/ \E m \in Models : Turn(m) \/ GatewayEvent(m)

Spec == Init /\ [][Next]_vars
-----------------------------------------------------------------------------
(* What billing makes of the ledger: billingReadyIntervals and             *)
(* calculateModelReadyCosts for the time from s to e.                      *)

\* COALESCE(ended_at, last_seen_at, started_at)
EffectiveEnd(r) == IF r.end # None THEN r.end ELSE IF r.seen # None THEN r.seen ELSE r.start

Intervals(s, e) ==
  {[model |-> r.model, from |-> Max({r.start, s}), to |-> Min({EffectiveEnd(r), e})] :
     r \in {x \in ToSet(rows) : x.start < e /\ EffectiveEnd(x) > s}}

Points(I) == {i.from : i \in I} \cup {i.to : i \in I}

\* Consecutive points.
Segments(I) ==
  LET P == Points(I) IN {g \in P \X P : g[1] < g[2] /\ \A x \in P : x <= g[1] \/ x >= g[2]}

\* Faulty variant: an interval that ends where the segment begins counts.
ActiveLonger(I, seg) == {i.model : i \in {x \in I : x.from < seg[2] /\ x.to >= seg[1]}}

ActiveIn(I, seg) == {i.model : i \in {x \in I : x.from < seg[2] /\ x.to > seg[1]}}

Factorial[n \in Nat] == IF n = 0 THEN 1 ELSE n * Factorial[n - 1]
Whole == Factorial[Cardinality(Models)]

SumOver(S, f(_)) == SumFunctionOnSet([x \in S |-> f(x)], S)

\* The seconds of every model, and Whole times its billable seconds.
ModelReady(I) ==
  LET shares == {[length |-> g[2] - g[1], active |-> ActiveIn(I, g), from |-> g[1]] : g \in Segments(I)}
      Of(m) == {g \in shares : m \in g.active}
  IN [m \in Models |->
        [seconds |-> SumOver(Of(m), LAMBDA g : g.length),
         billable |-> SumOver(Of(m), LAMBDA g : (g.length * Whole) \div Cardinality(g.active))]]

Billed(m, t) == \E r \in ToSet(rows) : r.model = m /\ r.start <= t /\ t < EffectiveEnd(r)
-----------------------------------------------------------------------------
(* Properties.                                                             *)

\* What was closed is history: no late event, no heartbeat and no backfill
\* rewrites it; and a new interval of a model begins only when the one before
\* has ended ("WHERE NOT EXISTS (... ended_at IS NULL)").
LedgerKept ==
  [][\A i \in DOMAIN rows :
       /\ i \in DOMAIN rows'
       /\ ~Open(rows[i]) => rows'[i] = rows[i]
       /\ \A j \in DOMAIN rows' \ DOMAIN rows :
            rows'[j].model = rows[i].model => ~Open(rows'[i])]_vars

\* The cost of every tick in which some model was ready is charged exactly
\* once, split evenly, whatever intervals overlap: the sweep over the ends of
\* the intervals is compared with a count tick by tick.
SharesAddUp ==
  LET Busy == [t \in 1..(now - 1) |-> {m \in Models : Billed(m, t)}]
      Of(m) == {t \in 1..(now - 1) : m \in Busy[t]}
      costs == ModelReady(Intervals(1, now))
  IN \A m \in Models :
       LET cost == costs[m]  ticks == Of(m) IN
       /\ cost.seconds = Cardinality(ticks)
       /\ cost.billable = SumOver(ticks, LAMBDA t : Whole \div Cardinality(Busy[t]))
=============================================================================
