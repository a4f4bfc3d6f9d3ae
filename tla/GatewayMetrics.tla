--------------------------- MODULE GatewayMetrics ---------------------------
(***************************************************************************)
(* What a scrape of the gateway tells about its workers                    *)
(* (src/internal/gateway/metrics.go, metrics_scrape.go).  A scrape pulls   *)
(* the activity of the workers: the last requests llama-swap served, the   *)
(* same ones again and again.  The requests that are new are told apart by *)
(* keys the gateway remembers, the last Cap of all workers.  Scrapes run   *)
(* at the same time, and the workers of one side by side: a response may   *)
(* be handled after a later one of the same worker.  The gauges, which are *)
(* only written, are left out.                                             *)
(***************************************************************************)
EXTENDS Integers, FiniteSets, Sequences, SequencesExt

CONSTANTS Workers,
          Scrapes,  \* scrapes that may run at the same time
          Keep,     \* requests llama-swap remembers
          Cap,      \* keys the gateway remembers (maxSeenKeys)
          Requests, \* bound: requests served
          Rounds,   \* bound: scrapes begun
          None      \* no scrape, no response

\* What an instance assumes of its constants.
MetricsAssumption ==
  /\ {Keep, Cap} \subseteq Nat \ {0}
  /\ {Requests, Rounds} \subseteq Nat

VARIABLES history,   \* worker -> requests llama-swap remembers, oldest first
          served,    \* worker -> requests it served; the number is the id
          scrapes,   \* scrape -> [todo, got], or None
          seen,      \* keys, as a set
          seenOrder, \* keys, oldest first
          counted,   \* request -> how often it was counted
          rounds     \* scrapes begun

worker == <<history, served>>
keys == <<seen, seenOrder, counted>>
vars == <<worker, scrapes, keys, rounds>>

\* A row of the activity: the id at its worker, and the request itself.
Row(w) == [id |-> served[w] + 1, request |-> Len(counted) + 1]
Served == DOMAIN counted

Init ==
  /\ history = [w \in Workers |-> <<>>]
  /\ scrapes = [p \in Scrapes |-> None]
  /\ seen = {}
  /\ seenOrder = <<>>
  /\ counted = <<>>
  /\ served = [w \in Workers |-> 0]
  /\ rounds = 0
-----------------------------------------------------------------------------
(* llama-swap                                                              *)

Newest(s, n) == SubSeq(s, IF Len(s) > n THEN Len(s) - n + 1 ELSE 1, Len(s))

Serve(w) ==
  /\ Len(counted) < Requests
  /\ counted' = Append(counted, 0)
  /\ served' = [served EXCEPT ![w] = @ + 1]
  /\ history' = [history EXCEPT ![w] = Newest(Append(@, Row(w)), Keep)]
  /\ UNCHANGED <<scrapes, seen, seenOrder, rounds>>
-----------------------------------------------------------------------------
(* A scrape                                                                *)

Begin(p) ==
  /\ scrapes[p] = None
  /\ rounds < Rounds
  /\ rounds' = rounds + 1
  /\ scrapes' = [scrapes EXCEPT ![p] = [todo |-> Workers, got |-> [w \in Workers |-> None]]]
  /\ UNCHANGED <<worker, keys>>

\* observeWorker: the worker answers with what it remembers.
Observe(p, w) ==
  /\ scrapes[p] # None
  /\ w \in scrapes[p].todo
  /\ scrapes' = [scrapes EXCEPT ![p].todo = @ \ {w}, ![p].got[w] = history[w]]
  /\ UNCHANGED <<worker, keys, rounds>>

\* stableActivityKey
Key(w, row) == <<w, row.id>>

\* rememberActivityKey: the oldest keys make place.
Remembered(k, key, row) ==
  LET order == Append(k.order, key)
      gone == ToSet(SubSeq(order, 1, Len(order) - Cap))
  IN [known |-> (k.known \cup {key}) \ gone, order |-> Newest(order, Cap), new |-> Append(k.new, row.request)]

\* Faulty variant: rows are known by the newest key only.
PulledNewer(p, w) ==
  LET step(k, row) == IF k.order # <<>> /\ Key(w, row) = k.order[Len(k.order)] THEN k
                      ELSE Remembered(k, Key(w, row), row)
  IN FoldLeft(step, [known |-> seen, order |-> seenOrder, new |-> <<>>], scrapes[p].got[w])

\* PullActivity, under the lock: a row that is known is passed over.
Pulled(p, w) ==
  LET step(k, row) == IF Key(w, row) \in k.known THEN k ELSE Remembered(k, Key(w, row), row)
  IN FoldLeft(step, [known |-> seen, order |-> seenOrder, new |-> <<>>], scrapes[p].got[w])

Count(p, w) ==
  LET k == Pulled(p, w) IN
  /\ scrapes[p] # None
  /\ scrapes[p].got[w] # None
  /\ seen' = k.known
  /\ seenOrder' = k.order
  /\ counted' = [r \in Served |-> counted[r] + Cardinality({i \in DOMAIN k.new : k.new[i] = r})]
  /\ scrapes' = [scrapes EXCEPT ![p].got[w] = None]
  /\ UNCHANGED <<worker, rounds>>

\* The worker does not answer in time, or with an error.
PullFails(p, w) ==
  /\ scrapes[p] # None
  /\ scrapes[p].got[w] # None
  /\ scrapes' = [scrapes EXCEPT ![p].got[w] = None]
  /\ UNCHANGED <<worker, keys, rounds>>

\* The page is written.
Finish(p) ==
  /\ scrapes[p] # None
  /\ scrapes[p].todo = {} /\ \A w \in Workers : scrapes[p].got[w] = None
  /\ scrapes' = [scrapes EXCEPT ![p] = None]
  /\ UNCHANGED <<worker, keys, rounds>>

Next ==
  \/ \E w \in Workers : Serve(w)
  \/ \E p \in Scrapes : Begin(p) \/ Finish(p)
  \/ \E p \in Scrapes, w \in Workers : Observe(p, w) \/ Count(p, w) \/ PullFails(p, w)

Spec == Init /\ [][Next]_vars
-----------------------------------------------------------------------------
(* Properties.                                                             *)

\* "gateway must deduplicate repeated pulls": a request is counted once,
\* whatever scrapes run at the same time; and it is passed over only if it was
\* counted itself, not for a request of another worker.
CountedOnce ==
  /\ \A r \in Served : counted[r] <= 1
  /\ \A w \in Workers : \A row \in ToSet(history[w]) :
       Key(w, row) \in seen => counted[row.request] >= 1
=============================================================================
