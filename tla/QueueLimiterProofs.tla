------------------------- MODULE QueueLimiterProofs -------------------------
(***************************************************************************)
(* Proofs about the concurrency limiter, for any keys, callers and limits. *)
(***************************************************************************)
EXTENDS QueueLimiter, SequenceTheorems, FiniteSetTheorems, TLAPS

(***************************************************************************)
(* Sequences.                                                              *)
(***************************************************************************)

\* Cutting the i-th element out of a line (the copy loop of cancelWaiter)
\* leaves the others in order.
LEMMA WithoutProperties ==
  ASSUME NEW S, NEW s \in Seq(S), NEW i \in 1..Len(s)
  PROVE  /\ Without(s, i) \in Seq(S)
         /\ Len(Without(s, i)) = Len(s) - 1
         /\ \A j \in 1..(Len(s) - 1) :
              Without(s, i)[j] = IF j < i THEN s[j] ELSE s[j + 1]
<1>1. Len(s) - 1 \in Nat
  OBVIOUS
<1>2. \A j \in 1..(Len(s) - 1) : (IF j < i THEN s[j] ELSE s[j + 1]) \in S
  OBVIOUS
<1>3. Without(s, i) \in [1..(Len(s) - 1) -> S]
  BY <1>2 DEF Without
<1>4. QED
  BY <1>1, <1>3 DEF Without

(***************************************************************************)
(* Type correctness.                                                       *)
(***************************************************************************)

\* Init establishes the types.
LEMMA TypeInit == Init => TypeOK
  BY QueueLimiterAssumption DEF Init, TypeOK, PC

\* Every step of the limiter preserves the types.
LEMMA TypeStep == TypeOK /\ [Next]_vars => TypeOK'
<1> SUFFICES ASSUME TypeOK, [Next]_vars PROVE TypeOK'
  OBVIOUS
<1> USE DEF TypeOK
<1>1. CASE UNCHANGED vars
  BY <1>1 DEF vars
<1>2. ASSUME NEW c \in Callers, NEW k \in Keys, NEW l \in Limits,
             AcquireUnlimited(c, k, l) \/ AcquireFull(c, k, l)
      PROVE  TypeOK'
  BY <1>2 DEF AcquireUnlimited, AcquireFull, Call, PC, Returned
<1>3. ASSUME NEW c \in Callers, NEW k \in Keys, NEW l \in Limits, AcquireNow(c, k, l)
      PROVE  TypeOK'
  BY <1>3 DEF AcquireNow, Call, PC
<1>4. ASSUME NEW c \in Callers, NEW k \in Keys, NEW l \in Limits, AcquireWait(c, k, l)
      PROVE  TypeOK'
  <2>1. Append(waiters[k], c) \in Seq(Callers)
    OBVIOUS
  <2>2. QED
    BY <1>4, <2>1 DEF AcquireWait, Call, PC, Blocked
<1>5. ASSUME NEW c \in Callers, Wake(c) \/ ContextDone(c) \/ CancelTooLate(c) \/ Finish(c)
      PROVE  TypeOK'
  BY <1>5 DEF Wake, ContextDone, CancelTooLate, Finish, PC, Blocked
<1>6. ASSUME NEW c \in Callers, CancelQueued(c)
      PROVE  TypeOK'
  <2>1. PICK i \in 1..Len(waiters[key[c]]) :
               waiters' = [waiters EXCEPT ![key[c]] = Without(@, i)]
    BY <1>6 DEF CancelQueued
  <2>2. Without(waiters[key[c]], i) \in Seq(Callers)
    BY WithoutProperties
  <2>3. waiters' \in [Keys -> Seq(Callers)]
    BY <2>1, <2>2
  <2>4. QED
    BY <1>6, <2>3 DEF CancelQueued, PC, Returned
<1>7. ASSUME NEW c \in Callers, ReleaseHandOff(c)
      PROVE  TypeOK'
  <2>1. /\ Head(waiters[key[c]]) \in Callers
        /\ Tail(waiters[key[c]]) \in Seq(Callers)
    BY <1>7, HeadTailProperties DEF ReleaseHandOff
  <2>2. QED
    BY <1>7, <2>1 DEF ReleaseHandOff, PC, Returned
<1>8. ASSUME NEW c \in Callers, ReleaseSlot(c)
      PROVE  TypeOK'
  <2>1. active' \in [Keys -> Nat]
    BY <1>8 DEF ReleaseSlot
  <2>2. QED
    BY <1>8, <2>1 DEF ReleaseSlot, PC, Returned
<1>9. QED
  BY <1>1, <1>2, <1>3, <1>4, <1>5, <1>6, <1>7, <1>8 DEF Next, Acquire, Release

\* Every variable of the limiter keeps its type.
THEOREM TypeCorrect == Spec => []TypeOK
  BY TypeInit, TypeStep, PTL DEF Spec

(***************************************************************************)
(* The inductive invariant: one lemma per action, one step per conjunct    *)
(* the action can disturb.                                                 *)
(***************************************************************************)

\* A caller that is not blocked stands in no line, and one that is neither
\* blocked nor late has no closed channel.
LEMMA NotInLine ==
  ASSUME TypeOK, LineProper, ReadyProper, NEW c \in Callers, pc[c] \notin Blocked
  PROVE  /\ \A k \in Keys : \A i \in 1..Len(waiters[k]) : waiters[k][i] # c
         /\ pc[c] # "late" => c \notin ready
  BY DEF TypeOK, LineProper, ReadyProper

\* Who stands in a line is a caller.
LEMMA LineTyped ==
  ASSUME TypeOK, NEW k \in Keys, NEW i \in 1..Len(waiters[k])
  PROVE  waiters[k][i] \in Callers
  BY DEF TypeOK

\* The owners of a key are finitely many.
LEMMA OwnersFinite == \A k \in Keys : IsFiniteSet(Owners(k))
  BY QueueLimiterAssumption, FS_Subset DEF Owners

\* The part of the invariant that speaks of owners and counters is about the
\* owner sets, the counters, the lines and the map: a step that keeps those
\* keeps it.
LEMMA SameOwners ==
  ASSUME TypeOK, SlotAccounting, CounterCapped, WaitersOnlyWhenFull, NoIdleEntries,
         UNCHANGED <<active, waiters>>,
         \A k \in Keys : Owners(k)' = Owners(k),
         \A k \in Keys : (k \in states <=> k \in states'),
         \A k \in Keys : \A i \in 1..Len(waiters[k]) :
           limit'[waiters[k][i]] = limit[waiters[k][i]]
  PROVE  SlotAccounting' /\ CounterCapped' /\ WaitersOnlyWhenFull' /\ NoIdleEntries'
  BY DEF SlotAccounting, CounterCapped, WaitersOnlyWhenFull, NoIdleEntries

\* An empty limiter satisfies the inductive invariant.
LEMMA InductiveInit == Init => InductiveInv
<1> SUFFICES ASSUME Init PROVE InductiveInv
  OBVIOUS
<1>1. \A k \in Keys : Owners(k) = {}
  BY DEF Init, Owners
<1>2. SlotAccounting
  BY <1>1, FS_EmptySet DEF Init, SlotAccounting
<1>3. QED
  BY <1>2, TypeInit, QueueLimiterAssumption
     DEF Init, InductiveInv, LineProper, ReadyProper, NobodyStranded, CounterCapped,
         WaitersOnlyWhenFull, NoIdleEntries, Blocked

\* A call that returns at once, without a limit or because the queue is full,
\* leaves the gate as it was.
LEMMA ReturnedStep ==
  ASSUME InductiveInv, NEW c \in Callers, NEW k \in Keys, NEW l \in Limits,
         AcquireUnlimited(c, k, l) \/ AcquireFull(c, k, l)
  PROVE  InductiveInv'
<1> USE DEF InductiveInv
<1>0. /\ pc[c] = "idle"
      /\ pc' \in {[pc EXCEPT ![c] = "unlimited"], [pc EXCEPT ![c] = "full"]}
      /\ key' = [key EXCEPT ![c] = k]
      /\ limit' = [limit EXCEPT ![c] = l]
      /\ UNCHANGED <<active, waiters, ready>>
  BY DEF AcquireUnlimited, AcquireFull, Call
<1>1. TypeOK'
  BY TypeStep DEF Next, Acquire
<1>2. /\ \A kk \in Keys : \A i \in 1..Len(waiters[kk]) : waiters[kk][i] # c
      /\ c \notin ready
  BY <1>0, NotInLine DEF Blocked
<1>3. LineProper' /\ ReadyProper' /\ NobodyStranded'
  <2>1. LineProper'
    BY <1>0, <1>2, LineTyped DEF TypeOK, LineProper
  <2>2. ReadyProper'
    BY <1>0, <1>2 DEF TypeOK, ReadyProper
  <2>3. NobodyStranded'
    BY <1>0, <1>2 DEF TypeOK, NobodyStranded, Queued, Blocked
  <2>4. QED
    BY <2>1, <2>2, <2>3
<1>5. \A kk \in Keys : Owners(kk)' = Owners(kk)
  BY <1>0, <1>2 DEF TypeOK, Owners
<1>6. \A kk \in Keys : kk \in states <=> kk \in states'
  <2>1. CASE AcquireUnlimited(c, k, l)
    BY <2>1 DEF AcquireUnlimited
  <2>2. CASE AcquireFull(c, k, l)
    <3>1. active[k] > 0
      BY <2>2, QueueLimiterAssumption DEF AcquireFull, TypeOK
    <3>2. QED
      BY <2>2, <3>1 DEF AcquireFull, NoIdleEntries
  <2>3. QED
    BY <2>1, <2>2
<1>7. \A kk \in Keys : \A i \in 1..Len(waiters[kk]) :
        limit'[waiters[kk][i]] = limit[waiters[kk][i]]
  BY <1>0, <1>2 DEF TypeOK
<1>8. QED
  BY <1>0, <1>1, <1>3, <1>5, <1>6, <1>7, SameOwners

\* A caller admitted below its limit is one more owner.
LEMMA AcquireNowStep ==
  ASSUME InductiveInv, NEW c \in Callers, NEW k \in Keys, NEW l \in Limits,
         AcquireNow(c, k, l)
  PROVE  InductiveInv'
<1> USE DEF InductiveInv
<1>1. TypeOK'
  BY TypeStep DEF Next, Acquire
<1>2. /\ \A kk \in Keys : \A i \in 1..Len(waiters[kk]) : waiters[kk][i] # c
      /\ c \notin ready
  BY NotInLine DEF AcquireNow, Call, Blocked
<1>3. LineProper'
  BY <1>2, LineTyped DEF AcquireNow, Call, TypeOK, LineProper
<1>4. ReadyProper'
  BY <1>2 DEF AcquireNow, Call, TypeOK, ReadyProper
<1>5. NobodyStranded'
  BY <1>2 DEF AcquireNow, Call, TypeOK, NobodyStranded, Queued, Blocked
<1>6. /\ c \notin Owners(k)
      /\ Owners(k)' = Owners(k) \cup {c}
      /\ \A kk \in Keys \ {k} : Owners(kk)' = Owners(kk)
  BY <1>2 DEF AcquireNow, Call, TypeOK, Owners
<1>7. Cardinality(Owners(k) \cup {c}) = Cardinality(Owners(k)) + 1
  BY <1>6, OwnersFinite, FS_AddElement
<1>8. SlotAccounting'
  BY <1>6, <1>7 DEF AcquireNow, TypeOK, SlotAccounting
<1>9. CounterCapped'
  <2>1. l.maxActive \in Int /\ l.maxActive <= MaxSlots /\ active[k] + 1 <= l.maxActive
    BY QueueLimiterAssumption DEF AcquireNow, TypeOK
  <2>2. active'[k] <= MaxSlots
    BY <2>1, QueueLimiterAssumption DEF AcquireNow, TypeOK
  <2>3. QED
    BY <2>2 DEF AcquireNow, TypeOK, CounterCapped
<1>10. WaitersOnlyWhenFull'
  <2>1. \A kk \in Keys : active'[kk] \in Nat /\ active'[kk] >= active[kk]
    BY DEF AcquireNow, TypeOK
  <2>2. \A kk \in Keys : \A i \in 1..Len(waiters[kk]) :
          limit'[waiters[kk][i]] = limit[waiters[kk][i]]
    BY <1>2 DEF AcquireNow, Call, TypeOK
  <2>3. \A kk \in Keys : \A i \in 1..Len(waiters[kk]) :
          limit[waiters[kk][i]].maxActive \in Int
    <3>1. \A d \in Callers : limit[d].maxActive \in Int
      BY QueueLimiterAssumption DEF TypeOK
    <3>2. QED
      BY <3>1, LineTyped
  <2>4. waiters' = waiters
    BY DEF AcquireNow
  <2>5. SUFFICES ASSUME NEW kk \in Keys, NEW i \in 1..Len(waiters[kk])
                 PROVE  /\ active'[kk] >= limit[waiters[kk][i]].maxActive
                        /\ active'[kk] > 0
    BY <2>2, <2>4 DEF WaitersOnlyWhenFull
  <2>6. QED
    BY <2>1, <2>3 DEF WaitersOnlyWhenFull, TypeOK
<1>11. NoIdleEntries'
  BY DEF AcquireNow, TypeOK, NoIdleEntries
<1>12. QED
  BY <1>1, <1>3, <1>4, <1>5, <1>8, <1>9, <1>10, <1>11

\* A caller that has to wait goes to the end of the line of a used-up key.
LEMMA AcquireWaitStep ==
  ASSUME InductiveInv, NEW c \in Callers, NEW k \in Keys, NEW l \in Limits,
         AcquireWait(c, k, l)
  PROVE  InductiveInv'
<1> USE DEF InductiveInv
<1>1. TypeOK'
  BY TypeStep DEF Next, Acquire
<1>2. /\ \A kk \in Keys : \A i \in 1..Len(waiters[kk]) : waiters[kk][i] # c
      /\ c \notin ready
  BY NotInLine DEF AcquireWait, Call, Blocked
<1>3. /\ \A kk \in Keys \ {k} : waiters'[kk] = waiters[kk]
      /\ Len(waiters'[k]) = Len(waiters[k]) + 1
      /\ \A i \in 1..Len(waiters[k]) : waiters'[k][i] = waiters[k][i]
      /\ waiters'[k][Len(waiters[k]) + 1] = c
      /\ waiters[k] \in Seq(Callers)
  BY AppendProperties DEF AcquireWait, TypeOK
<1>4. /\ pc' = [pc EXCEPT ![c] = "waiting"]
      /\ key' = [key EXCEPT ![c] = k]
      /\ limit' = [limit EXCEPT ![c] = l]
      /\ UNCHANGED <<active, ready>>
  BY DEF AcquireWait, Call
<1>5. LineProper'
  <2>1. SUFFICES ASSUME NEW kk \in Keys, NEW i \in 1..Len(waiters'[kk])
                 PROVE  /\ pc'[waiters'[kk][i]] \in Blocked
                        /\ key'[waiters'[kk][i]] = kk
                        /\ \A j \in 1..Len(waiters'[kk]) :
                             waiters'[kk][i] = waiters'[kk][j] => i = j
    BY DEF LineProper
  <2>2. CASE kk = k /\ i = Len(waiters[k]) + 1
    <3>1. waiters'[kk][i] = c /\ pc'[c] = "waiting" /\ key'[c] = k
      BY <1>3, <1>4, <2>2 DEF TypeOK
    <3>2. ASSUME NEW j \in 1..Len(waiters'[k]), waiters'[k][j] = c
          PROVE  j = Len(waiters[k]) + 1
      BY <1>2, <1>3, <3>2
    <3>3. QED
      BY <2>2, <3>1, <3>2 DEF Blocked
  <2>3. CASE ~(kk = k /\ i = Len(waiters[k]) + 1)
    <3>1. i \in 1..Len(waiters[kk]) /\ waiters'[kk][i] = waiters[kk][i] /\ waiters[kk][i] # c
      BY <1>2, <1>3, <2>3
    <3>2. pc'[waiters[kk][i]] \in Blocked /\ key'[waiters[kk][i]] = kk
      BY <3>1, <1>4, LineTyped DEF TypeOK, LineProper
    <3>3. ASSUME NEW j \in 1..Len(waiters'[kk]), waiters'[kk][i] = waiters'[kk][j]
          PROVE  i = j
      <4>1. j \in 1..Len(waiters[kk]) /\ waiters'[kk][j] = waiters[kk][j]
        BY <3>1, <3>3, <1>3
      <4>2. QED
        BY <3>1, <3>3, <4>1 DEF LineProper
    <3>4. QED
      BY <3>1, <3>2, <3>3
  <2>4. QED
    BY <2>2, <2>3
<1>6. ReadyProper'
  BY <1>2, <1>4 DEF TypeOK, ReadyProper
<1>7. NobodyStranded'
  <2>1. \A d \in Callers \ {c} : \A kk \in Keys : Queued(d, kk)' <=> Queued(d, kk)
    <3>1. SUFFICES ASSUME NEW d \in Callers \ {c}, NEW kk \in Keys
                   PROVE  Queued(d, kk)' <=> Queued(d, kk)
      OBVIOUS
    <3>2. CASE kk # k
      BY <1>3, <3>2 DEF Queued
    <3>3. CASE kk = k
      BY <1>3, <3>3 DEF Queued
    <3>4. QED
      BY <3>2, <3>3
  <2>2. Queued(c, k)'
    BY <1>3 DEF Queued
  <2>3. QED
    BY <1>2, <1>4, <2>1, <2>2 DEF TypeOK, NobodyStranded, Blocked
<1>8. \A kk \in Keys : Owners(kk)' = Owners(kk)
  BY <1>2, <1>4 DEF TypeOK, Owners, AcquireWait, Call
<1>9. SlotAccounting' /\ CounterCapped'
  BY <1>4, <1>8 DEF SlotAccounting, CounterCapped
<1>10. active[k] > 0 /\ active[k] >= l.maxActive
  BY QueueLimiterAssumption DEF AcquireWait, TypeOK
<1>11. WaitersOnlyWhenFull'
  <2>1. SUFFICES ASSUME NEW kk \in Keys, NEW i \in 1..Len(waiters'[kk])
                 PROVE  /\ active[kk] >= limit'[waiters'[kk][i]].maxActive
                        /\ active[kk] > 0
    BY <1>4 DEF WaitersOnlyWhenFull
  <2>2. CASE kk = k /\ i = Len(waiters[k]) + 1
    BY <1>3, <1>4, <1>10, <2>2 DEF TypeOK
  <2>3. CASE ~(kk = k /\ i = Len(waiters[k]) + 1)
    <3>1. i \in 1..Len(waiters[kk]) /\ waiters'[kk][i] = waiters[kk][i]
      BY <1>3, <2>3
    <3>2. limit'[waiters[kk][i]] = limit[waiters[kk][i]]
      BY <1>2, <1>4, <3>1, LineTyped DEF TypeOK
    <3>3. QED
      BY <3>1, <3>2 DEF WaitersOnlyWhenFull
  <2>4. QED
    BY <2>2, <2>3
<1>12. NoIdleEntries'
  BY <1>3, <1>10 DEF AcquireWait, TypeOK, NoIdleEntries
<1>13. QED
  BY <1>1, <1>5, <1>6, <1>7, <1>9, <1>11, <1>12

\* A handed-over caller that runs again still owns the same slot.
LEMMA WakeStep ==
  ASSUME InductiveInv, NEW c \in Callers, Wake(c)
  PROVE  InductiveInv'
<1> USE DEF InductiveInv
<1>1. TypeOK'
  BY TypeStep DEF Next
<1>2. \A k \in Keys : \A i \in 1..Len(waiters[k]) : waiters[k][i] # c
  <2>1. SUFFICES ASSUME NEW k \in Keys, NEW i \in 1..Len(waiters[k]), waiters[k][i] = c
                 PROVE  FALSE
    OBVIOUS
  <2>2. pc[c] \in Blocked /\ key[c] = k
    BY <2>1 DEF LineProper
  <2>3. Queued(c, key[c])
    BY <2>1, <2>2 DEF Queued
  <2>4. QED
    BY <2>2, <2>3 DEF NobodyStranded, Wake
<1>3. LineProper'
  BY <1>2, LineTyped DEF Wake, TypeOK, LineProper
<1>4. ReadyProper'
  BY DEF Wake, TypeOK, ReadyProper
<1>5. NobodyStranded'
  BY DEF Wake, TypeOK, NobodyStranded, Queued, Blocked
<1>6. \A k \in Keys : Owners(k)' = Owners(k)
  BY DEF Wake, TypeOK, Owners
<1>7. QED
  BY <1>1, <1>3, <1>4, <1>5, <1>6, SameOwners DEF Wake

\* A context that ends, a cancellation that comes too late and a goroutine
\* that is done change nobody's place and nobody's slot.
LEMMA QuietStep ==
  ASSUME InductiveInv, NEW c \in Callers,
         ContextDone(c) \/ CancelTooLate(c) \/ Finish(c)
  PROVE  InductiveInv'
<1> USE DEF InductiveInv
<1>1. TypeOK'
  BY TypeStep DEF Next
<1>2. UNCHANGED <<states, active, waiters, ready, key, limit>>
  BY DEF ContextDone, CancelTooLate, Finish
<1>3. \A d \in Callers \ {c} : pc'[d] = pc[d]
  BY DEF ContextDone, CancelTooLate, Finish, TypeOK
<1>4. \A k \in Keys : Owners(k)' = Owners(k)
  BY <1>2 DEF ContextDone, CancelTooLate, Finish, TypeOK, Owners, Returned
<1>5. LineProper' /\ ReadyProper' /\ NobodyStranded'
  <2>1. CASE ContextDone(c)
    <3>1. pc'[c] = "cancelling" /\ pc[c] = "waiting"
      BY <2>1 DEF ContextDone, TypeOK
    <3>2. LineProper'
      BY <1>2, <1>3, <3>1, LineTyped DEF LineProper, Blocked
    <3>3. ReadyProper'
      BY <1>2, <1>3, <3>1 DEF ReadyProper, Blocked, TypeOK
    <3>4. NobodyStranded'
      BY <1>2, <1>3, <3>1 DEF NobodyStranded, Queued, Blocked
    <3>5. QED
      BY <3>2, <3>3, <3>4
  <2>2. CASE CancelTooLate(c)
    <3>1. pc'[c] = "late" /\ pc[c] = "cancelling"
      BY <2>2 DEF CancelTooLate, TypeOK
    <3>2. ~Queued(c, key[c])
      <4>1. waiters[key[c]] # <<>> => key[c] \in states
        BY DEF NoIdleEntries, TypeOK
      <4>2. Queued(c, key[c]) => waiters[key[c]] # <<>>
        BY DEF Queued, TypeOK
      <4>3. QED
        BY <2>2, <4>1, <4>2 DEF CancelTooLate
    <3>3. LineProper'
      <4>1. \A k \in Keys : \A i \in 1..Len(waiters[k]) : waiters[k][i] # c
        BY <3>2 DEF LineProper, Queued
      <4>2. QED
        BY <1>2, <1>3, <4>1, LineTyped DEF LineProper
    <3>4. ReadyProper'
      BY <1>2, <1>3, <3>1 DEF ReadyProper, TypeOK
    <3>5. NobodyStranded'
      BY <1>2, <1>3, <3>1, <3>2 DEF NobodyStranded, Queued, Blocked
    <3>6. QED
      BY <3>3, <3>4, <3>5
  <2>3. CASE Finish(c)
    <3>1. pc'[c] = "idle" /\ pc[c] \in Returned
      BY <2>3 DEF Finish, TypeOK
    <3>2. /\ \A k \in Keys : \A i \in 1..Len(waiters[k]) : waiters[k][i] # c
          /\ c \notin ready
      BY <3>1, NotInLine DEF Blocked, Returned
    <3>3. LineProper'
      BY <1>2, <1>3, <3>2, LineTyped DEF LineProper
    <3>4. ReadyProper'
      BY <1>2, <1>3, <3>2 DEF ReadyProper, TypeOK
    <3>5. NobodyStranded'
      BY <1>2, <1>3, <3>1 DEF NobodyStranded, Queued, Blocked
    <3>6. QED
      BY <3>3, <3>4, <3>5
  <2>4. QED
    BY <2>1, <2>2, <2>3
<1>6. QED
  BY <1>1, <1>2, <1>4, <1>5, SameOwners

\* Taking the head of a line off is cutting out its first element.
LEMMA TailIsWithout ==
  ASSUME NEW S, NEW s \in Seq(S), s # <<>>
  PROVE  Tail(s) = Without(s, 1)
<1>1. 1 \in 1..Len(s)
  OBVIOUS
<1>2. /\ Tail(s) \in Seq(S) /\ Len(Tail(s)) = Len(s) - 1
      /\ \A j \in 1..Len(Tail(s)) : Tail(s)[j] = s[j + 1]
  BY HeadTailProperties
<1>3. /\ Without(s, 1) \in Seq(S) /\ Len(Without(s, 1)) = Len(s) - 1
      /\ \A j \in 1..(Len(s) - 1) : Without(s, 1)[j] = s[j + 1]
  BY <1>1, WithoutProperties
<1>4. QED
  BY <1>2, <1>3, SeqEqual

\* Where the callers of a cut line come from.
LEMMA CutPositions ==
  ASSUME TypeOK, NEW k \in Keys, NEW i \in 1..Len(waiters[k]),
         waiters' = [waiters EXCEPT ![k] = Without(@, i)]
  PROVE  /\ Len(waiters'[k]) = Len(waiters[k]) - 1
         /\ \A j \in 1..Len(waiters'[k]) :
              waiters'[k][j] = IF j < i THEN waiters[k][j] ELSE waiters[k][j + 1]
         /\ \A kk \in Keys \ {k} : waiters'[kk] = waiters[kk]
         /\ Len(waiters[k]) \in Nat
<1>1. waiters[k] \in Seq(Callers) /\ waiters \in [Keys -> Seq(Callers)]
  BY DEF TypeOK
<1>2. waiters'[k] = Without(waiters[k], i)
  BY <1>1
<1>3. /\ Len(Without(waiters[k], i)) = Len(waiters[k]) - 1
      /\ \A j \in 1..(Len(waiters[k]) - 1) :
           Without(waiters[k], i)[j] = IF j < i THEN waiters[k][j] ELSE waiters[k][j + 1]
  BY <1>1, WithoutProperties
<1>4. QED
  BY <1>1, <1>2, <1>3

\* A line out of which one caller is cut stays proper, and exactly that caller
\* is no longer queued.
LEMMA LineCut ==
  ASSUME TypeOK, LineProper, NEW k \in Keys, NEW i \in 1..Len(waiters[k]),
         waiters' = [waiters EXCEPT ![k] = Without(@, i)],
         key' = key,
         \A d \in Callers : pc[d] \in Blocked /\ d # waiters[k][i] => pc'[d] = pc[d]
  PROVE  /\ LineProper'
         /\ \A d \in Callers, kk \in Keys :
              Queued(d, kk)' <=> Queued(d, kk) /\ d # waiters[k][i]
<1>1. /\ Len(waiters'[k]) = Len(waiters[k]) - 1
      /\ \A j \in 1..Len(waiters'[k]) :
           waiters'[k][j] = IF j < i THEN waiters[k][j] ELSE waiters[k][j + 1]
      /\ \A kk \in Keys \ {k} : waiters'[kk] = waiters[kk]
      /\ Len(waiters[k]) \in Nat
  BY CutPositions
<1> DEFINE Old(kk, j) == IF kk = k /\ j >= i THEN j + 1 ELSE j
<1>2. ASSUME NEW kk \in Keys, NEW j \in 1..Len(waiters'[kk])
      PROVE  /\ Old(kk, j) \in 1..Len(waiters[kk])
             /\ waiters'[kk][j] = waiters[kk][Old(kk, j)]
             /\ waiters'[kk][j] # waiters[k][i]
  <2>1. CASE kk # k
    <3>1. waiters'[kk][j] = waiters[kk][j] /\ j \in 1..Len(waiters[kk])
      BY <1>1, <2>1
    <3>2. key[waiters[kk][j]] = kk /\ key[waiters[k][i]] = k
      BY <3>1 DEF LineProper
    <3>3. QED
      BY <2>1, <3>1, <3>2
  <2>2. CASE kk = k
    <3>1. Old(k, j) \in 1..Len(waiters[k]) /\ Old(k, j) # i
      BY <1>1, <2>2
    <3>2. waiters'[k][j] = waiters[k][Old(k, j)]
      BY <1>1, <2>2
    <3>3. waiters[k][Old(k, j)] # waiters[k][i]
      BY <3>1 DEF LineProper
    <3>4. QED
      BY <2>2, <3>1, <3>2, <3>3
  <2>3. QED
    BY <2>1, <2>2
<1>3. LineProper'
  <2>1. SUFFICES ASSUME NEW kk \in Keys, NEW j \in 1..Len(waiters'[kk])
                 PROVE  /\ pc'[waiters'[kk][j]] \in Blocked
                        /\ key'[waiters'[kk][j]] = kk
                        /\ \A m \in 1..Len(waiters'[kk]) :
                             waiters'[kk][j] = waiters'[kk][m] => j = m
    BY DEF LineProper
  <2>2. /\ Old(kk, j) \in 1..Len(waiters[kk])
        /\ waiters'[kk][j] = waiters[kk][Old(kk, j)]
        /\ waiters'[kk][j] # waiters[k][i]
    BY <1>2
  <2>3. /\ waiters[kk][Old(kk, j)] \in Callers
        /\ pc[waiters[kk][Old(kk, j)]] \in Blocked
        /\ key[waiters[kk][Old(kk, j)]] = kk
    BY <2>2, LineTyped DEF LineProper
  <2>4. ASSUME NEW m \in 1..Len(waiters'[kk]), waiters'[kk][j] = waiters'[kk][m]
        PROVE  j = m
    <3>1. Old(kk, m) \in 1..Len(waiters[kk]) /\ waiters'[kk][m] = waiters[kk][Old(kk, m)]
      BY <1>2
    <3>2. Old(kk, j) = Old(kk, m)
      <4>1. \A a, b \in 1..Len(waiters[kk]) : waiters[kk][a] = waiters[kk][b] => a = b
        BY DEF LineProper
      <4> HIDE DEF Old
      <4>2. QED
        BY <2>2, <2>4, <3>1, <4>1
    <3>3. j \in Int /\ m \in Int /\ i \in Int
      OBVIOUS
    <3>4. QED
      BY <3>2, <3>3
  <2>5. QED
    BY <2>2, <2>3, <2>4
<1>4. ASSUME NEW d \in Callers, NEW kk \in Keys
      PROVE  Queued(d, kk)' <=> Queued(d, kk) /\ d # waiters[k][i]
  <2>1. Queued(d, kk)' => Queued(d, kk) /\ d # waiters[k][i]
    BY <1>2 DEF Queued
  <2>2. ASSUME Queued(d, kk), d # waiters[k][i]
        PROVE  \E j \in 1..Len(waiters'[kk]) : waiters'[kk][j] = d
    <3>1. PICK m \in 1..Len(waiters[kk]) : waiters[kk][m] = d
      BY <2>2 DEF Queued
    <3>2. CASE kk # k
      BY <1>1, <3>1, <3>2
    <3>3. CASE kk = k /\ m < i
      <4>1. m \in 1..Len(waiters'[k]) /\ waiters'[k][m] = d
        BY <1>1, <3>1, <3>3
      <4>2. QED
        BY <4>1, <3>3
    <3>4. CASE kk = k /\ m > i
      <4>1. m - 1 \in 1..Len(waiters'[k]) /\ waiters'[k][m - 1] = d
        <5> DEFINE n == m - 1
        <5>1. n \in 1..Len(waiters'[k]) /\ ~(n < i) /\ n + 1 = m
          BY <1>1, <3>1, <3>4
        <5> HIDE DEF n
        <5>2. waiters'[k][n] = waiters[k][n + 1]
          BY <1>1, <5>1
        <5>3. n \in 1..Len(waiters'[k]) /\ waiters'[k][n] = d
          BY <3>1, <3>4, <5>1, <5>2
        <5>4. QED
          BY <5>3 DEF n
      <4>2. QED
        BY <4>1, <3>4
    <3>5. m # i \/ kk # k
      BY <2>2, <3>1
    <3>6. QED
      BY <3>2, <3>3, <3>4, <3>5
  <2>3. QED
    BY <2>1, <2>2 DEF Queued
<1>5. QED
  BY <1>3, <1>4

\* What a cut line needs of the counter it needed before.
LEMMA FullAfterCut ==
  ASSUME TypeOK, WaitersOnlyWhenFull, NEW k \in Keys, NEW i \in 1..Len(waiters[k]),
         waiters' = [waiters EXCEPT ![k] = Without(@, i)],
         active' = active, limit' = limit
  PROVE  WaitersOnlyWhenFull'
<1>1. /\ Len(waiters'[k]) = Len(waiters[k]) - 1
      /\ \A j \in 1..Len(waiters'[k]) :
           waiters'[k][j] = IF j < i THEN waiters[k][j] ELSE waiters[k][j + 1]
      /\ \A kk \in Keys \ {k} : waiters'[kk] = waiters[kk]
      /\ Len(waiters[k]) \in Nat
  BY CutPositions
<1>2. SUFFICES ASSUME NEW kk \in Keys, NEW j \in 1..Len(waiters'[kk])
               PROVE  /\ active[kk] >= limit[waiters'[kk][j]].maxActive
                      /\ active[kk] > 0
  BY DEF WaitersOnlyWhenFull
<1>3. CASE kk # k
  BY <1>1, <1>3 DEF WaitersOnlyWhenFull
<1>4. CASE kk = k
  <2>1. PICK m \in 1..Len(waiters[k]) : waiters'[k][j] = waiters[k][m]
    BY <1>1, <1>4
  <2>2. QED
    BY <1>4, <2>1 DEF WaitersOnlyWhenFull
<1>5. QED
  BY <1>3, <1>4

\* A waiter that times out while it is in line leaves without a slot.
LEMMA CancelQueuedStep ==
  ASSUME InductiveInv, NEW c \in Callers, CancelQueued(c)
  PROVE  InductiveInv'
<1> USE DEF InductiveInv
<1>1. TypeOK'
  BY TypeStep DEF Next
<1>2. PICK k \in Keys : key[c] = k
  BY DEF TypeOK
<1>3. PICK i \in 1..Len(waiters[k]) :
             waiters[k][i] = c /\ waiters' = [waiters EXCEPT ![k] = Without(@, i)]
  BY <1>2 DEF CancelQueued
<1>4. /\ pc[c] = "cancelling" /\ pc' = [pc EXCEPT ![c] = "timeout"]
      /\ UNCHANGED <<active, ready, key, limit>>
      /\ states' = IF active[k] = 0 /\ waiters'[k] = <<>> THEN states \ {k} ELSE states
  BY <1>2 DEF CancelQueued
<1>5. Queued(c, k) /\ c \notin ready
  BY <1>2, <1>3, <1>4 DEF Queued, NobodyStranded, Blocked
<1>6. active[k] > 0
  BY <1>2, <1>3 DEF WaitersOnlyWhenFull
<1>7. \A d \in Callers \ {c} : pc'[d] = pc[d]
  BY <1>4 DEF TypeOK
<1>8. /\ LineProper'
      /\ \A d \in Callers, kk \in Keys : Queued(d, kk)' <=> Queued(d, kk) /\ d # c
  <2>1. \A d \in Callers : pc[d] \in Blocked /\ d # waiters[k][i] => pc'[d] = pc[d]
    BY <1>3, <1>7
  <2>2. key' = key
    BY <1>4
  <2> HIDE DEF InductiveInv
  <2>3. TypeOK /\ LineProper
    BY DEF InductiveInv
  <2>4. /\ LineProper'
        /\ \A d \in Callers, kk \in Keys :
             Queued(d, kk)' <=> Queued(d, kk) /\ d # waiters[k][i]
    BY <1>3, <2>1, <2>2, <2>3, LineCut
  <2>5. QED
    BY <1>3, <2>4
<1>9. ReadyProper'
  BY <1>4, <1>5, <1>7 DEF ReadyProper, TypeOK
<1>10. NobodyStranded'
  BY <1>4, <1>7, <1>8 DEF NobodyStranded, TypeOK, Blocked
<1>11. \A kk \in Keys : Owners(kk)' = Owners(kk)
  BY <1>4, <1>5 DEF Owners, TypeOK
<1>12. SlotAccounting' /\ CounterCapped'
  BY <1>4, <1>11 DEF SlotAccounting, CounterCapped
<1>13. WaitersOnlyWhenFull'
  BY <1>2, <1>3, <1>4, FullAfterCut
<1>14. NoIdleEntries'
  BY <1>2, <1>3, <1>4, <1>6 DEF NoIdleEntries, WaitersOnlyWhenFull, TypeOK
<1>15. QED
  BY <1>1, <1>8, <1>9, <1>10, <1>12, <1>13, <1>14

\* A release with somebody in line moves the slot to the head of the line: one
\* owner less, one owner more, the counter untouched.
LEMMA ReleaseHandOffStep ==
  ASSUME InductiveInv, NEW c \in Callers, ReleaseHandOff(c)
  PROVE  InductiveInv'
<1> USE DEF InductiveInv
<1>1. TypeOK'
  BY TypeStep DEF Next, Release
<1>k. PICK k \in Keys : key[c] = k
  BY DEF TypeOK
<1>2. k \in Keys /\ waiters[k] \in Seq(Callers) /\ waiters[k] # <<>>
  BY <1>k DEF TypeOK, ReleaseHandOff
<1>d. PICK d \in Callers : Head(waiters[k]) = d
  BY <1>2, HeadTailProperties
<1>3. /\ pc[c] = "holding" /\ pc' = [pc EXCEPT ![c] = "released"]
      /\ ready' = ready \cup {d}
      /\ UNCHANGED <<states, active, key, limit>>
      /\ waiters' = [waiters EXCEPT ![k] = Tail(@)]
  BY <1>k, <1>d DEF ReleaseHandOff
<1>4. 1 \in 1..Len(waiters[k]) /\ waiters[k][1] = d
  BY <1>2, <1>d
<1>5. waiters' = [waiters EXCEPT ![k] = Without(@, 1)]
  BY <1>2, <1>3, TailIsWithout
<1>6. /\ pc[d] \in Blocked /\ key[d] = k /\ d # c
      /\ Queued(d, k) /\ d \notin ready
  <2>1. pc[d] \in Blocked /\ key[d] = k
    BY <1>2, <1>4 DEF LineProper
  <2>2. d # c
    BY <2>1, <1>3 DEF Blocked
  <2>3. Queued(d, k)
    BY <1>4 DEF Queued
  <2>4. d \notin ready
    BY <1>4, <2>1, <2>3 DEF NobodyStranded
  <2>5. QED
    BY <2>1, <2>2, <2>3, <2>4
<1>7. c \notin ready
  BY <1>3, NotInLine DEF Blocked
<1>8. /\ LineProper'
      /\ \A e \in Callers, kk \in Keys : Queued(e, kk)' <=> Queued(e, kk) /\ e # d
  <2>1. \A e \in Callers : pc[e] \in Blocked /\ e # waiters[k][1] => pc'[e] = pc[e]
    BY <1>3 DEF Blocked, TypeOK
  <2>2. key' = key
    BY <1>3
  <2>3. /\ LineProper'
        /\ \A e \in Callers, kk \in Keys :
             Queued(e, kk)' <=> Queued(e, kk) /\ e # waiters[k][1]
    <3>1. 1 \in 1..Len(waiters[k])
      BY <1>4
    <3> HIDE DEF InductiveInv
    <3>2. TypeOK /\ LineProper
      BY DEF InductiveInv
    <3>3. QED
      BY <3>1, <3>2, <1>2, <1>5, <2>1, <2>2, LineCut
  <2>4. QED
    BY <1>4, <2>3
<1>9. ReadyProper'
  BY <1>3, <1>6, <1>7 DEF ReadyProper, TypeOK
<1>10. NobodyStranded'
  BY <1>3, <1>4, <1>6, <1>8 DEF NobodyStranded, TypeOK, Blocked
<1>11. /\ Owners(k)' = (Owners(k) \ {c}) \cup {d}
       /\ \A kk \in Keys \ {k} : Owners(kk)' = Owners(kk)
       /\ c \in Owners(k) /\ d \notin Owners(k)
  <2>1. key[c] = k /\ key' = key
    BY <1>3, <1>k
  <2>2. d \notin Owners(k) /\ c \in Owners(k)
    BY <1>3, <1>6, <2>1 DEF Owners, Blocked
  <2>3. Owners(k)' = (Owners(k) \ {c}) \cup {d}
    <3>1. \A e \in Callers :
            (key'[e] = k /\ (pc'[e] = "holding" \/ e \in ready'))
              <=> ((key[e] = k /\ (pc[e] = "holding" \/ e \in ready)) /\ e # c) \/ e = d
      BY <1>3, <1>4, <1>6, <1>7, <2>1 DEF TypeOK, Blocked
    <3>2. QED
      BY <3>1, <1>4 DEF Owners
  <2>4. \A kk \in Keys \ {k} : Owners(kk)' = Owners(kk)
    BY <1>3, <1>4, <1>6, <1>7, <2>1 DEF Owners, TypeOK, Blocked
  <2>5. QED
    BY <2>2, <2>3, <2>4
<1>12. Cardinality(Owners(k)') = Cardinality(Owners(k))
  <2>1. /\ IsFiniteSet(Owners(k) \ {c})
        /\ Cardinality(Owners(k) \ {c}) = Cardinality(Owners(k)) - 1
    BY <1>2, <1>11, OwnersFinite, FS_RemoveElement
  <2>2. Cardinality((Owners(k) \ {c}) \cup {d}) = Cardinality(Owners(k) \ {c}) + 1
    BY <1>11, <2>1, FS_AddElement
  <2>3. Cardinality(Owners(k)) \in Nat
    BY <1>2, OwnersFinite, FS_CardinalityType
  <2>4. QED
    BY <1>11, <2>1, <2>2, <2>3
<1>13. SlotAccounting' /\ CounterCapped'
  <2>1. \A kk \in Keys : Cardinality(Owners(kk)') = Cardinality(Owners(kk))
    BY <1>11, <1>12
  <2>2. active' = active
    BY <1>3
  <2>3. QED
    BY <2>1, <2>2 DEF SlotAccounting, CounterCapped
<1>14. WaitersOnlyWhenFull'
  BY <1>2, <1>3, <1>4, <1>5, FullAfterCut
<1>15. NoIdleEntries'
  <2>1. active[k] > 0
    BY <1>2, <1>4 DEF WaitersOnlyWhenFull
  <2>2. QED
    BY <1>2, <1>3, <2>1 DEF NoIdleEntries, TypeOK
<1>16. QED
  BY <1>1, <1>8, <1>9, <1>10, <1>13, <1>14, <1>15

\* A release with nobody in line gives the slot back.
LEMMA ReleaseSlotStep ==
  ASSUME InductiveInv, NEW c \in Callers, ReleaseSlot(c)
  PROVE  InductiveInv'
<1> USE DEF InductiveInv
<1>1. TypeOK'
  BY TypeStep DEF Next, Release
<1>k. PICK k \in Keys : key[c] = k
  BY DEF TypeOK
<1>2. /\ k \in Keys /\ key[c] = k
      /\ pc[c] = "holding" /\ pc' = [pc EXCEPT ![c] = "released"]
      /\ waiters[k] = <<>>
      /\ active' = [active EXCEPT ![k] = IF @ > 0 THEN @ - 1 ELSE @]
      /\ states' = IF active'[k] = 0 THEN states \ {k} ELSE states
      /\ UNCHANGED <<waiters, ready, key, limit>>
  BY <1>k DEF ReleaseSlot, TypeOK
<1>3. c \notin ready /\ \A kk \in Keys : \A i \in 1..Len(waiters[kk]) : waiters[kk][i] # c
  BY <1>2, NotInLine DEF Blocked
<1>4. \A e \in Callers \ {c} : pc'[e] = pc[e]
  BY <1>2 DEF TypeOK
<1>5. LineProper'
  BY <1>2, <1>3, <1>4, LineTyped DEF LineProper
<1>6. ReadyProper'
  BY <1>2, <1>3, <1>4 DEF ReadyProper, TypeOK
<1>7. NobodyStranded'
  BY <1>2, <1>4 DEF NobodyStranded, Queued, TypeOK, Blocked
<1>8. /\ Owners(k)' = Owners(k) \ {c}
      /\ \A kk \in Keys \ {k} : Owners(kk)' = Owners(kk)
      /\ c \in Owners(k)
  <2>1. \A e \in Callers :
          (key'[e] = k /\ (pc'[e] = "holding" \/ e \in ready'))
            <=> (key[e] = k /\ (pc[e] = "holding" \/ e \in ready)) /\ e # c
    BY <1>2, <1>3 DEF TypeOK
  <2>2. Owners(k)' = Owners(k) \ {c}
    BY <2>1 DEF Owners
  <2>3. \A kk \in Keys \ {k} : Owners(kk)' = Owners(kk)
    <3>1. \A kk \in Keys \ {k} : \A e \in Callers :
            (key'[e] = kk /\ (pc'[e] = "holding" \/ e \in ready'))
              <=> (key[e] = kk /\ (pc[e] = "holding" \/ e \in ready))
      BY <1>2, <1>3 DEF TypeOK
    <3>2. QED
      BY <3>1 DEF Owners
  <2>4. QED
    BY <1>2, <2>2, <2>3 DEF Owners
<1>9. Cardinality(Owners(k)) \in Nat /\ Cardinality(Owners(k)) # 0
  BY <1>2, <1>8, OwnersFinite, FS_CardinalityType, FS_EmptySet
<1>10. Cardinality(Owners(k)') = Cardinality(Owners(k)) - 1
  BY <1>2, <1>8, OwnersFinite, FS_RemoveElement
<1>11. /\ active[k] > 0 /\ active[k] \in Nat
       /\ active'[k] = active[k] - 1
       /\ \A kk \in Keys \ {k} : active'[kk] = active[kk]
  <2>1. active[k] = Cardinality(Owners(k)) /\ active[k] \in Nat
    BY <1>2 DEF SlotAccounting, TypeOK
  <2>2. active[k] > 0
    BY <1>9, <2>1
  <2>3. QED
    BY <1>2, <2>1, <2>2 DEF TypeOK
<1>12. SlotAccounting'
  <2>1. SUFFICES ASSUME NEW kk \in Keys
                 PROVE  active'[kk] = Cardinality(Owners(kk)')
    BY DEF SlotAccounting
  <2>2. CASE kk = k
    BY <1>2, <1>10, <1>11, <2>2 DEF SlotAccounting
  <2>3. CASE kk # k
    BY <1>8, <1>11, <2>3 DEF SlotAccounting
  <2>4. QED
    BY <2>2, <2>3
<1>13. CounterCapped'
  BY <1>2, <1>11, QueueLimiterAssumption DEF CounterCapped, TypeOK
<1>14. WaitersOnlyWhenFull'
  <2>1. SUFFICES ASSUME NEW kk \in Keys, NEW i \in 1..Len(waiters[kk])
                 PROVE  /\ active'[kk] >= limit[waiters[kk][i]].maxActive
                        /\ active'[kk] > 0
    BY <1>2 DEF WaitersOnlyWhenFull
  <2>2. kk # k
    BY <1>2
  <2>3. active'[kk] = active[kk]
    BY <1>11, <2>2
  <2>4. QED
    BY <1>2, <2>3 DEF WaitersOnlyWhenFull
<1>15. NoIdleEntries'
  BY <1>2, <1>11 DEF NoIdleEntries, TypeOK
<1>16. QED
  BY <1>1, <1>5, <1>6, <1>7, <1>12, <1>13, <1>14, <1>15

\* Every step of the limiter keeps it, by the lemmas on the single actions.
LEMMA InductiveStep == InductiveInv /\ [Next]_vars => InductiveInv'
<1> SUFFICES ASSUME InductiveInv, [Next]_vars PROVE InductiveInv'
  OBVIOUS
<1>1. CASE UNCHANGED vars
  BY <1>1 DEF vars, InductiveInv, TypeOK, LineProper, ReadyProper, NobodyStranded, Queued,
              SlotAccounting, Owners, CounterCapped, WaitersOnlyWhenFull, NoIdleEntries
<1>2. ASSUME NEW c \in Callers, Acquire(c)
      PROVE  InductiveInv'
  BY <1>2, ReturnedStep, AcquireNowStep, AcquireWaitStep DEF Acquire
<1>3. ASSUME NEW c \in Callers, Release(c)
      PROVE  InductiveInv'
  BY <1>3, ReleaseHandOffStep, ReleaseSlotStep DEF Release
<1>4. QED
  BY <1>1, <1>2, <1>3, WakeStep, QuietStep, CancelQueuedStep DEF Next

\* The inductive invariant holds in every reachable state.
THEOREM Invariance == Spec => []InductiveInv
  BY InductiveInit, InductiveStep, PTL DEF Spec

\* The counter of limits.go is the number of goroutines that own a slot: no
\* interleaving of release, hand-off and timeout leaks or duplicates one.
THEOREM SlotsAreCounted == Spec => []SlotAccounting
  BY Invariance, PTL DEF InductiveInv

\* No more goroutines own slots of a key than the largest limit ever presented.
THEOREM CapHolds == Spec => []ConcurrencyCap
<1>1. InductiveInv => ConcurrencyCap
  BY DEF InductiveInv, SlotAccounting, CounterCapped, ConcurrencyCap
<1>2. QED
  BY <1>1, Invariance, PTL

\* Nobody waits on a key that has room for it, and nobody is stranded between
\* the line and its closed channel.
THEOREM WaitingIsSound == Spec => [](WaitersOnlyWhenFull /\ NobodyStranded)
  BY Invariance, PTL DEF InductiveInv

\* release and cancelWaiter delete the entry of a key that is no longer in
\* use, in every interleaving: the map does not grow with models and workers
\* that are gone.
THEOREM NoKeyLeft == Spec => []NoIdleEntries
  BY Invariance, PTL DEF InductiveInv
-----------------------------------------------------------------------------
(* The limiter implements the pool of slots: every critical section is one *)
(* step of SlotPool or changes neither owners nor lines.                   *)

\* A caller that is not in the limiter owns nothing and stands in no line.
LEMMA IdleIsOutside ==
  ASSUME InductiveInv, NEW c \in Callers, pc[c] = "idle"
  PROVE  Pool!Outside(c)
<1>1. /\ \A k \in Keys : \A i \in 1..Len(waiters[k]) : waiters[k][i] # c
      /\ c \notin ready
  BY NotInLine DEF InductiveInv, Blocked
<1>2. \A k \in Keys : c \notin Owners(k)
  BY <1>1 DEF Owners
<1>3. QED
  BY <1>1, <1>2 DEF Pool!Outside, Pool!InLine

\* The pool counts its owners as the limiter's module does.
LEMMA PoolCardinality ==
  ASSUME NEW S
  PROVE  Pool!Cardinality(S) = Cardinality(S)
  BY DEF Pool!Cardinality, Cardinality, Pool!IsFiniteSet, IsFiniteSet

\* Keys whose owners a step leaves alone keep them in the pool.
LEMMA OwnersOfOneKey ==
  ASSUME NEW k \in Keys, NEW S,
         Owners(k)' = S, \A kk \in Keys \ {k} : Owners(kk)' = Owners(kk)
  PROVE  [kk \in Keys |-> Owners(kk)]' = [[kk \in Keys |-> Owners(kk)] EXCEPT ![k] = S]
  OBVIOUS

\* A caller admitted below its limit takes a free slot of the pool.
LEMMA AcquireNowEnters ==
  ASSUME InductiveInv, NEW c \in Callers, NEW k \in Keys, NEW l \in Limits,
         AcquireNow(c, k, l)
  PROVE  Pool!Enter(c, k)
<1>1. Pool!Outside(c)
  BY IdleIsOutside DEF AcquireNow, Call
<1>2. c \notin ready
  BY NotInLine DEF InductiveInv, AcquireNow, Call, Blocked
<1>3. /\ Owners(k)' = Owners(k) \cup {c}
      /\ \A kk \in Keys \ {k} : Owners(kk)' = Owners(kk)
  BY <1>2 DEF InductiveInv, AcquireNow, Call, TypeOK, Owners
<1>4. Cardinality(Owners(k)) < MaxSlots
  <2>1. active[k] \in Nat /\ active[k] < l.maxActive
    BY DEF InductiveInv, TypeOK, AcquireNow
  <2>2. l.maxActive \in Int /\ l.maxActive <= MaxSlots /\ MaxSlots \in Nat
    BY QueueLimiterAssumption
  <2>3. active[k] = Cardinality(Owners(k))
    BY DEF InductiveInv, SlotAccounting
  <2>4. QED
    BY <2>1, <2>2, <2>3
<1>5. waiters' = waiters
  BY DEF AcquireNow
<1>6. [kk \in Keys |-> Owners(kk)]' = [[kk \in Keys |-> Owners(kk)] EXCEPT ![k] = Owners(k) \cup {c}]
  BY <1>3, OwnersOfOneKey
<1>7. Pool!Cardinality(Owners(k)) < MaxSlots
  BY <1>4, PoolCardinality
<1>8. QED
  BY <1>1, <1>5, <1>6, <1>7 DEF Pool!Enter

\* A caller joins a line only where somebody owns a slot.
LEMMA AcquireWaitJoins ==
  ASSUME InductiveInv, NEW c \in Callers, NEW k \in Keys, NEW l \in Limits,
         AcquireWait(c, k, l)
  PROVE  Pool!Join(c, k)
<1>1. Pool!Outside(c)
  BY IdleIsOutside DEF AcquireWait, Call
<1>2. c \notin ready
  BY NotInLine DEF InductiveInv, AcquireWait, Call, Blocked
<1>3. \A kk \in Keys : Owners(kk)' = Owners(kk)
  BY <1>2 DEF InductiveInv, AcquireWait, Call, TypeOK, Owners
<1>4. Owners(k) # {}
  <2>1. active[k] \in Nat /\ active[k] >= l.maxActive /\ l.maxActive > 0
    BY DEF InductiveInv, TypeOK, AcquireWait
  <2>2. l.maxActive \in Int
    BY QueueLimiterAssumption
  <2>3. active[k] = Cardinality(Owners(k))
    BY DEF InductiveInv, SlotAccounting
  <2>4. Cardinality(Owners(k)) # 0
    BY <2>1, <2>2, <2>3
  <2>5. QED
    BY <2>4, FS_EmptySet
<1>5. waiters' = [waiters EXCEPT ![k] = Append(@, c)]
  BY DEF AcquireWait
<1>6. QED
  BY <1>1, <1>3, <1>4, <1>5 DEF Pool!Join

\* A release takes the slot out of the pool or hands it to the head of the line.
LEMMA ReleaseLeaves ==
  ASSUME InductiveInv, NEW c \in Callers, Release(c)
  PROVE  \E k \in Keys : Pool!Leave(c, k) \/ Pool!HandOff(c, k)
<1>1. PICK k \in Keys : key[c] = k
  BY DEF InductiveInv, TypeOK
<1>2. pc[c] = "holding" /\ pc' = [pc EXCEPT ![c] = "released"] /\ key' = key
  BY DEF Release, ReleaseHandOff, ReleaseSlot
<1>3. c \notin ready
  BY <1>2, NotInLine DEF InductiveInv, Blocked
<1>4. c \in Owners(k)
  BY <1>1, <1>2 DEF Owners
<1>5. CASE ReleaseSlot(c)
  <2>1. waiters[k] = <<>> /\ waiters' = waiters /\ ready' = ready
    BY <1>1, <1>5 DEF ReleaseSlot
  <2>2. \A kk \in Keys, e \in Callers :
          (key'[e] = kk /\ (pc'[e] = "holding" \/ e \in ready'))
            <=> (key[e] = kk /\ (pc[e] = "holding" \/ e \in ready)) /\ e # c
    BY <1>2, <1>3, <2>1 DEF InductiveInv, TypeOK
  <2>3. Owners(k)' = Owners(k) \ {c}
    BY <2>2 DEF Owners
  <2>4. \A kk \in Keys \ {k} : Owners(kk)' = Owners(kk)
    <3>1. \A kk \in Keys \ {k}, e \in Callers :
            (key'[e] = kk /\ (pc'[e] = "holding" \/ e \in ready'))
              <=> (key[e] = kk /\ (pc[e] = "holding" \/ e \in ready))
      BY <1>1, <2>2
    <3>2. QED
      BY <3>1 DEF Owners
  <2>5. [kk \in Keys |-> Owners(kk)]' = [[kk \in Keys |-> Owners(kk)] EXCEPT ![k] = Owners(k) \ {c}]
    BY <2>3, <2>4, OwnersOfOneKey
  <2>6. Pool!Leave(c, k)
    BY <1>4, <2>1, <2>5 DEF Pool!Leave
  <2>7. QED
    BY <2>6
<1>6. CASE ReleaseHandOff(c)
  <2>1. /\ waiters[k] # <<>> /\ waiters[k] \in Seq(Callers)
        /\ waiters' = [waiters EXCEPT ![k] = Tail(@)]
        /\ ready' = ready \cup {Head(waiters[k])}
    BY <1>1, <1>6 DEF ReleaseHandOff, InductiveInv, TypeOK
  <2>2. PICK d \in Callers : Head(waiters[k]) = d
    BY <2>1, HeadTailProperties
  <2>3. 1 \in 1..Len(waiters[k]) /\ waiters[k][1] = d
    BY <2>1, <2>2
  <2>4. key[d] = k /\ pc[d] \in Blocked
    BY <2>3 DEF InductiveInv, LineProper
  <2>5. d # c
    BY <1>2, <2>4 DEF Blocked
  <2>6. \A kk \in Keys, e \in Callers :
          (key'[e] = kk /\ (pc'[e] = "holding" \/ e \in ready'))
            <=> \/ (key[e] = kk /\ (pc[e] = "holding" \/ e \in ready)) /\ e # c
                \/ e = d /\ kk = k
    BY <1>2, <1>3, <2>1, <2>2, <2>4, <2>5 DEF InductiveInv, TypeOK
  <2>7. Owners(k)' = (Owners(k) \ {c}) \cup {d}
    BY <2>6 DEF Owners
  <2>8. \A kk \in Keys \ {k} : Owners(kk)' = Owners(kk)
    <3>1. \A kk \in Keys \ {k}, e \in Callers :
            (key'[e] = kk /\ (pc'[e] = "holding" \/ e \in ready'))
              <=> (key[e] = kk /\ (pc[e] = "holding" \/ e \in ready))
      BY <1>1, <2>6
    <3>2. QED
      BY <3>1 DEF Owners
  <2>9. [kk \in Keys |-> Owners(kk)]'
          = [[kk \in Keys |-> Owners(kk)] EXCEPT ![k] = (Owners(k) \ {c}) \cup {d}]
    BY <2>7, <2>8, OwnersOfOneKey
  <2>10. Pool!HandOff(c, k)
    BY <1>4, <2>1, <2>2, <2>9 DEF Pool!HandOff
  <2>11. QED
    BY <2>10
<1>7. QED
  BY <1>5, <1>6 DEF Release

\* A waiter that times out in line gives up its place.
LEMMA CancelGivesUp ==
  ASSUME InductiveInv, NEW c \in Callers, CancelQueued(c)
  PROVE  \E k \in Keys : Pool!GiveUp(c, k)
<1>1. PICK k \in Keys : key[c] = k
  BY DEF InductiveInv, TypeOK
<1>2. PICK i \in 1..Len(waiters[k]) :
        waiters[k][i] = c /\ waiters' = [waiters EXCEPT ![k] = Without(@, i)]
  BY <1>1 DEF CancelQueued
<1>3. /\ pc[c] = "cancelling" /\ pc' = [pc EXCEPT ![c] = "timeout"]
      /\ UNCHANGED <<ready, key>>
  BY DEF CancelQueued
<1>4. c \notin ready
  BY <1>1, <1>2, <1>3 DEF InductiveInv, NobodyStranded, Queued, Blocked
<1>5. \A kk \in Keys : Owners(kk)' = Owners(kk)
  BY <1>3, <1>4 DEF Owners, InductiveInv, TypeOK
<1>6. waiters' = [waiters EXCEPT ![k] = Pool!Without(@, i)]
  BY <1>2 DEF Without, Pool!Without
<1>7. Pool!GiveUp(c, k)
  BY <1>2, <1>5, <1>6 DEF Pool!GiveUp
<1>8. QED
  BY <1>7

\* All other steps are invisible in the pool.
LEMMA OthersStutter ==
  ASSUME InductiveInv, NEW c \in Callers,
         \/ \E k \in Keys, l \in Limits : AcquireUnlimited(c, k, l) \/ AcquireFull(c, k, l)
         \/ Wake(c)
         \/ ContextDone(c) \/ CancelTooLate(c) \/ Finish(c)
  PROVE  UNCHANGED Pool!vars
<1>1. waiters' = waiters
  BY DEF AcquireUnlimited, AcquireFull, Wake, ContextDone, CancelTooLate, Finish
<1>2. \A k \in Keys : Owners(k)' = Owners(k)
  <2>1. CASE \E k \in Keys, l \in Limits : AcquireUnlimited(c, k, l) \/ AcquireFull(c, k, l)
    <3>1. PICK k \in Keys, l \in Limits :
            /\ pc[c] = "idle"
            /\ pc' \in {[pc EXCEPT ![c] = "unlimited"], [pc EXCEPT ![c] = "full"]}
            /\ key' = [key EXCEPT ![c] = k]
            /\ ready' = ready
      BY <2>1 DEF AcquireUnlimited, AcquireFull, Call
    <3>2. c \notin ready
      BY <3>1, NotInLine DEF InductiveInv, Blocked
    <3>3. QED
      BY <3>1, <3>2 DEF InductiveInv, TypeOK, Owners
  <2>2. CASE Wake(c)
    BY <2>2 DEF Wake, InductiveInv, TypeOK, Owners
  <2>3. CASE ContextDone(c) \/ CancelTooLate(c) \/ Finish(c)
    BY <2>3 DEF ContextDone, CancelTooLate, Finish, InductiveInv, TypeOK, Owners, Returned
  <2>4. QED
    BY <2>1, <2>2, <2>3
<1>3. QED
  BY <1>1, <1>2 DEF Pool!vars

\* Every step of the limiter is one of the pool or invisible there.
LEMMA StepIsPoolStep ==
  ASSUME InductiveInv, [Next]_vars
  PROVE  [Pool!Next]_(Pool!vars)
<1>1. CASE UNCHANGED vars
  BY <1>1 DEF vars, Pool!vars, Owners
<1>2. ASSUME NEW c \in Callers, Acquire(c)
      PROVE  [Pool!Next]_(Pool!vars)
  <2>1. PICK k \in Keys, l \in Limits :
          \/ AcquireUnlimited(c, k, l) \/ AcquireFull(c, k, l)
          \/ AcquireNow(c, k, l) \/ AcquireWait(c, k, l)
    BY <1>2 DEF Acquire
  <2>2. CASE AcquireUnlimited(c, k, l) \/ AcquireFull(c, k, l)
    BY <2>2, OthersStutter
  <2>3. CASE AcquireNow(c, k, l)
    BY <2>3, AcquireNowEnters DEF Pool!Next
  <2>4. CASE AcquireWait(c, k, l)
    BY <2>4, AcquireWaitJoins DEF Pool!Next
  <2>5. QED
    BY <2>1, <2>2, <2>3, <2>4
<1>3. ASSUME NEW c \in Callers, Release(c)
      PROVE  Pool!Next
  BY <1>3, ReleaseLeaves DEF Pool!Next
<1>4. ASSUME NEW c \in Callers, CancelQueued(c)
      PROVE  Pool!Next
  BY <1>4, CancelGivesUp DEF Pool!Next
<1>5. ASSUME NEW c \in Callers,
             Wake(c) \/ ContextDone(c) \/ CancelTooLate(c) \/ Finish(c)
      PROVE  UNCHANGED Pool!vars
  BY <1>5, OthersStutter
<1>6. QED
  BY <1>1, <1>2, <1>3, <1>4, <1>5 DEF Next

\* The mutex, the counter, the channels and the race of release with timeout
\* implement slots that change hands atomically, in order of arrival.
THEOREM RefinesSlotPool == Spec => ImplementsSlotPool
<1>1. Init => Pool!Init
  BY DEF Init, Pool!Init, Owners
<1>2. InductiveInv /\ [Next]_vars => [Pool!Next]_(Pool!vars)
  BY StepIsPoolStep
<1>3. QED
  BY <1>1, <1>2, Invariance, PTL DEF Spec, ImplementsSlotPool, Pool!Spec
=============================================================================
