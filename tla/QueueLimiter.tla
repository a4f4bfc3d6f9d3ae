---------------------------- MODULE QueueLimiter ----------------------------
(***************************************************************************)
(* The keyed concurrency limiter of the gateway                            *)
(* (src/internal/gateway/limits.go).  The proxy has one, with a key for    *)
(* each model, each tag and each worker/model pair.                        *)
(*                                                                         *)
(* Every critical section of the limiter's mutex is one action.  What a    *)
(* goroutine does between two critical sections is its control state pc:   *)
(*   idle        outside AcquireWithStats                                  *)
(*   waiting     in the select on waiter.ready and ctx.Done                *)
(*   cancelling  took the ctx.Done branch, not yet inside cancelWaiter     *)
(*   late        cancelWaiter returned false: blocks on waiter.ready       *)
(*   holding     returned with a release function that has not run         *)
(*   unlimited   returned with the no-op release of maxActive <= 0         *)
(*   full, timeout, released   returned without a slot, or gave it back    *)
(* The limits are arguments of each call (they come from the configuration *)
(* the caller read), so two calls on one key may present different limits. *)
(***************************************************************************)
EXTENDS Integers, Sequences, FiniteSets

CONSTANTS Keys,      \* limiter keys
          Callers,   \* request goroutines, one call at a time each
          Limits,    \* the [maxActive, maxQueue] pairs callers may present
          MaxSlots   \* an upper bound of the maxActive values in Limits

ASSUME QueueLimiterAssumption ==
  /\ Keys # {}
  /\ IsFiniteSet(Callers)
  /\ Limits \subseteq [maxActive : Int, maxQueue : Int]
  /\ MaxSlots \in Nat
  /\ \A l \in Limits : l.maxActive <= MaxSlots

VARIABLES states,    \* the keys of the map l.states
          active,    \* key -> queueLimitState.active
          waiters,   \* key -> queueLimitState.waiters, as callers
          ready,     \* callers whose waiter.ready is closed and not yet read
          pc,        \* caller -> control state
          key,       \* caller -> key of its last call
          limit      \* caller -> limits of its last call

vars == <<states, active, waiters, ready, pc, key, limit>>

Blocked == {"waiting", "cancelling"}
Returned == {"unlimited", "full", "timeout", "released"}
PC == {"idle", "late", "holding"} \cup Blocked \cup Returned

Queued(c, k) == \E i \in 1..Len(waiters[k]) : waiters[k][i] = c

\* copy(waiters[i:], waiters[i+1:]) and truncation.
Without(s, i) == [j \in 1..(Len(s) - 1) |-> IF j < i THEN s[j] ELSE s[j + 1]]

Init ==
  /\ states = {}
  /\ active = [k \in Keys |-> 0]
  /\ waiters = [k \in Keys |-> <<>>]
  /\ ready = {}
  /\ pc = [c \in Callers |-> "idle"]
  /\ key \in [Callers -> Keys]
  /\ limit \in [Callers -> Limits]

Call(c, k, l) ==
  /\ pc[c] = "idle"
  /\ key' = [key EXCEPT ![c] = k]
  /\ limit' = [limit EXCEPT ![c] = l]

\* A limit of zero or less means no limit: the map is not even looked at.
AcquireUnlimited(c, k, l) ==
  /\ Call(c, k, l)
  /\ l.maxActive <= 0
  /\ pc' = [pc EXCEPT ![c] = "unlimited"]
  /\ UNCHANGED <<states, active, waiters, ready>>

\* Faulty variant: the cap is compared with <=.
AcquireNowOffByOne(c, k, l) ==
  /\ Call(c, k, l)
  /\ l.maxActive > 0
  /\ active[k] <= l.maxActive
  /\ states' = states \cup {k}
  /\ active' = [active EXCEPT ![k] = @ + 1]
  /\ pc' = [pc EXCEPT ![c] = "holding"]
  /\ UNCHANGED <<waiters, ready>>

AcquireNow(c, k, l) ==
  /\ Call(c, k, l)
  /\ l.maxActive > 0
  /\ active[k] < l.maxActive
  /\ states' = states \cup {k}
  /\ active' = [active EXCEPT ![k] = @ + 1]
  /\ pc' = [pc EXCEPT ![c] = "holding"]
  /\ UNCHANGED <<waiters, ready>>

AcquireFull(c, k, l) ==
  /\ Call(c, k, l)
  /\ l.maxActive > 0
  /\ active[k] >= l.maxActive
  /\ Len(waiters[k]) >= l.maxQueue
  /\ states' = states \cup {k}
  /\ pc' = [pc EXCEPT ![c] = "full"]
  /\ UNCHANGED <<active, waiters, ready>>

AcquireWait(c, k, l) ==
  /\ Call(c, k, l)
  /\ l.maxActive > 0
  /\ active[k] >= l.maxActive
  /\ Len(waiters[k]) < l.maxQueue
  /\ states' = states \cup {k}
  /\ waiters' = [waiters EXCEPT ![k] = Append(@, c)]
  /\ pc' = [pc EXCEPT ![c] = "waiting"]
  /\ UNCHANGED <<active, ready>>

\* <-waiter.ready, in the select or after a cancellation that came too late.
Wake(c) ==
  /\ pc[c] \in {"waiting", "late"}
  /\ c \in ready
  /\ ready' = ready \ {c}
  /\ pc' = [pc EXCEPT ![c] = "holding"]
  /\ UNCHANGED <<states, active, waiters, key, limit>>

\* The queue timeout fires or the client goes away.  Go's select may take
\* this branch although waiter.ready is closed as well.
ContextDone(c) ==
  /\ pc[c] = "waiting"
  /\ pc' = [pc EXCEPT ![c] = "cancelling"]
  /\ UNCHANGED <<states, active, waiters, ready, key, limit>>

\* cancelWaiter finds the waiter and removes it.
CancelQueued(c) ==
  LET k == key[c] IN
  /\ pc[c] = "cancelling"
  /\ k \in states
  /\ \E i \in 1..Len(waiters[k]) :
       /\ waiters[k][i] = c
       /\ waiters' = [waiters EXCEPT ![k] = Without(@, i)]
  /\ states' = IF active[k] = 0 /\ waiters'[k] = <<>> THEN states \ {k} ELSE states
  /\ pc' = [pc EXCEPT ![c] = "timeout"]
  /\ UNCHANGED <<active, ready, key, limit>>

\* cancelWaiter does not find it: a release handed the slot over first.
CancelTooLate(c) ==
  /\ pc[c] = "cancelling"
  /\ key[c] \notin states \/ ~Queued(c, key[c])
  /\ pc' = [pc EXCEPT ![c] = "late"]
  /\ UNCHANGED <<states, active, waiters, ready, key, limit>>

\* Faulty variant: the chosen waiter's channel is not closed.
ReleaseHandOffSilent(c) ==
  LET k == key[c] IN
  /\ pc[c] = "holding"
  /\ k \in states
  /\ waiters[k] # <<>>
  /\ waiters' = [waiters EXCEPT ![k] = Tail(@)]
  /\ pc' = [pc EXCEPT ![c] = "released"]
  /\ UNCHANGED <<states, active, ready, key, limit>>

\* Faulty variant: the slot goes to the end of the line.
ReleaseHandOffLast(c) ==
  LET k == key[c]  n == Len(waiters[k]) IN
  /\ pc[c] = "holding"
  /\ k \in states
  /\ waiters[k] # <<>>
  /\ waiters' = [waiters EXCEPT ![k] = Without(@, n)]
  /\ ready' = ready \cup {waiters[k][n]}
  /\ pc' = [pc EXCEPT ![c] = "released"]
  /\ UNCHANGED <<states, active, key, limit>>

\* The release function; sync.Once makes every later call of it a no-op,
\* which is why only a holding caller can take this step.
ReleaseHandOff(c) ==
  LET k == key[c] IN
  /\ pc[c] = "holding"
  /\ k \in states
  /\ waiters[k] # <<>>
  /\ waiters' = [waiters EXCEPT ![k] = Tail(@)]
  /\ ready' = ready \cup {Head(waiters[k])}
  /\ pc' = [pc EXCEPT ![c] = "released"]
  /\ UNCHANGED <<states, active, key, limit>>

\* Faulty variant: the entry of an unused key stays in the map.
ReleaseSlotKeepsEntry(c) ==
  LET k == key[c] IN
  /\ pc[c] = "holding"
  /\ waiters[k] = <<>>
  /\ active' = [active EXCEPT ![k] = @ - 1]
  /\ pc' = [pc EXCEPT ![c] = "released"]
  /\ UNCHANGED <<states, waiters, ready, key, limit>>

ReleaseSlot(c) ==
  LET k == key[c] IN
  /\ pc[c] = "holding"
  /\ k \in states
  /\ waiters[k] = <<>>
  /\ active' = [active EXCEPT ![k] = IF @ > 0 THEN @ - 1 ELSE @]
  /\ states' = IF active'[k] = 0 THEN states \ {k} ELSE states
  /\ pc' = [pc EXCEPT ![c] = "released"]
  /\ UNCHANGED <<waiters, ready, key, limit>>

Release(c) == ReleaseHandOff(c) \/ ReleaseSlot(c)

\* The goroutine is done with this request.
Finish(c) ==
  /\ pc[c] \in Returned
  /\ pc' = [pc EXCEPT ![c] = "idle"]
  /\ UNCHANGED <<states, active, waiters, ready, key, limit>>

Acquire(c) ==
  \E k \in Keys, l \in Limits :
    \/ AcquireUnlimited(c, k, l)
    \/ AcquireNow(c, k, l)
    \/ AcquireFull(c, k, l)
    \/ AcquireWait(c, k, l)

Next ==
  \E c \in Callers :
    \/ Acquire(c)
    \/ Wake(c)
    \/ ContextDone(c)
    \/ CancelQueued(c)
    \/ CancelTooLate(c)
    \/ Release(c)
    \/ Finish(c)

Spec == Init /\ [][Next]_vars

\* A goroutine whose channel is closed, or that is about to lock the mutex,
\* is scheduled again; the proxy defers every release, so a holder gives its
\* slot back when its upstream request ends.  No caller has to arrive and no
\* context has to expire.
Fairness ==
  \A c \in Callers :
    /\ WF_vars(Wake(c))
    /\ WF_vars(CancelQueued(c))
    /\ WF_vars(CancelTooLate(c))
    /\ WF_vars(Release(c))

FairSpec == Spec /\ Fairness
-----------------------------------------------------------------------------
(* Properties.                                                             *)

TypeOK ==
  /\ states \in SUBSET Keys
  /\ active \in [Keys -> Nat]
  /\ waiters \in [Keys -> Seq(Callers)]
  /\ ready \in SUBSET Callers
  /\ pc \in [Callers -> PC]
  /\ key \in [Callers -> Keys]
  /\ limit \in [Callers -> Limits]

\* The callers that own a slot of k: those that hold a release function and
\* those a release has handed its slot to but that have not run since.
Owners(k) == {c \in Callers : key[c] = k /\ (pc[c] = "holding" \/ c \in ready)}

\* No slot is leaked and none is counted twice: the counter of limits.go is
\* the number of goroutines that own a slot, also while a hand-off by release
\* races with the timeout of the waiter it chose.
SlotAccounting == \A k \in Keys : active[k] = Cardinality(Owners(k))

\* The cap the limiter exists for: never more owners of a key than the
\* largest max_concurrency that was ever configured for it.
ConcurrencyCap == \A k \in Keys : Cardinality(Owners(k)) <= MaxSlots

\* A caller stands in line only while the key is used up to the limit that
\* caller presented.  Hence a waiter always has an owner that will wake it,
\* and a newcomer with the same limit cannot overtake it.
WaitersOnlyWhenFull ==
  \A k \in Keys : \A i \in 1..Len(waiters[k]) :
    active[k] >= limit[waiters[k][i]].maxActive /\ active[k] > 0

\* A blocked goroutine is either in line or has its channel closed: no order
\* of release and cancelWaiter strands it (in particular a "late" one).
NobodyStranded ==
  \A c \in Callers :
    /\ pc[c] \in Blocked => (c \in ready <=> ~Queued(c, key[c]))
    /\ pc[c] = "late" => c \in ready

\* The map has an entry for a key exactly while the key is in use, so keys of
\* models, tags and workers that went away do not pile up.
NoIdleEntries ==
  \A k \in Keys : k \in states <=> (active[k] > 0 \/ waiters[k] # <<>>)

\* The inductive invariant behind the four state properties above.  It adds
\* who can be in a line (blocked callers of that key, each once), who can have
\* a closed channel, and that the counter itself stays under the cap.
LineProper ==
  \A k \in Keys : \A i \in 1..Len(waiters[k]) :
    /\ pc[waiters[k][i]] \in Blocked
    /\ key[waiters[k][i]] = k
    /\ \A j \in 1..Len(waiters[k]) : waiters[k][i] = waiters[k][j] => i = j

ReadyProper == \A c \in ready : pc[c] \in Blocked \cup {"late"}

CounterCapped == \A k \in Keys : active[k] <= MaxSlots

InductiveInv ==
  /\ TypeOK
  /\ LineProper
  /\ ReadyProper
  /\ NobodyStranded
  /\ SlotAccounting
  /\ CounterCapped
  /\ WaitersOnlyWhenFull
  /\ NoIdleEntries

\* Every caller that waits gets an answer, a slot or a timeout, although
\* nothing forces its context to expire.
EveryWaiterAnswered ==
  \A c \in Callers :
    pc[c] \in Blocked \cup {"late"} ~> pc[c] \in {"holding", "timeout"}

\* The limiter implements the pool of slots that change hands atomically.
Pool == INSTANCE SlotPool WITH owners <- [k \in Keys |-> Owners(k)], line <- waiters

ImplementsSlotPool == Pool!Spec
=============================================================================
