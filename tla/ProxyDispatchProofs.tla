------------------------ MODULE ProxyDispatchProofs ------------------------
(***************************************************************************)
(* Proofs about the proxy's handlers, for any requests, workers, tags and  *)
(* limits: no path through a handler leaks a slot or a count, and no       *)
(* request is sent where or when it should not be.                         *)
(***************************************************************************)
EXTENDS ProxyDispatch, SequenceTheorems, FiniteSetTheorems, TLAPS

(***************************************************************************)
(* The inductive invariant.                                                *)
(***************************************************************************)

\* The stages with a replica picked, from its choice to the attempt's end.
Trying == {"tag", "worker", "acquire", "upstream", "streaming"}
Stages == Trying \cup {"new", "model", "pick", "done"}
Answers == {"declined", "queue_full", "queue_timeout", "dispatch_failed", "no_healthy_worker",
            "upstream_error", "ok", "server_error"}

\* The types of the variables.
TypeOK ==
  /\ stage \in [Requests -> Stages]
  /\ target \in [Requests -> Workers \cup {None}]
  /\ exclude \in [Requests -> SUBSET Workers]
  /\ sent \in [Requests -> Seq(Workers)]
  /\ failed \subseteq Requests /\ full \subseteq Requests /\ gone \subseteq Requests
  /\ answer \in [Requests -> Answers \cup {None}]
  /\ owners \in [Gates -> SUBSET Requests]
  /\ line \in [Gates -> Seq(Requests)]
  /\ active \in [Workers -> Nat] /\ books \in [Workers -> Nat]
  /\ forgotten \subseteq Workers /\ known \subseteq Workers
  /\ records \subseteq Requests \X Workers
  /\ cool \in [Workers -> Nat] /\ strikes \in [Workers -> Nat]
  /\ open \subseteq Workers /\ backed \subseteq Workers /\ ready \subseteq Workers
  /\ elapsed \in [Requests -> Nat]
  /\ changes \in Nat

\* A handler has a replica exactly during an attempt.
TargetProper == \A r \in Requests : target[r] # None <=> stage[r] \in Trying

\* Who owns a slot is at a stage that may own it.
OwnersProper == \A k \in Gates : \A r \in owners[k] : MayOwn(r, k)

\* Who stands in a line is at that gate, stands there once and owns no slot of it.
LineProper ==
  \A k \in Gates : \A i \in 1..Len(line[k]) :
    /\ AtGate(line[k][i])
    /\ GateOf(line[k][i]) = k
    /\ line[k][i] \notin owners[k]
    /\ \A j \in 1..Len(line[k]) : line[k][i] = line[k][j] => i = j

\* Past a gate with a limit, an attempt owns a slot of it.
SlotsHeld ==
  \A r \in Requests :
    /\ stage[r] \in {"worker", "acquire", "upstream", "streaming"}
         /\ TagSlots[TagOf[target[r]]] > 0 => r \in owners[TagGate(target[r])]
    /\ stage[r] \in {"acquire", "upstream", "streaming"}
         /\ WorkerSlots[TagOf[target[r]]] > 0 => r \in owners[WorkerGate(target[r])]

\* No gate with a limit has more owners than slots.
GatesBounded ==
  /\ \A t \in Tags : TagSlots[t] > 0 => Cardinality(owners[<<"tag", t>>]) <= TagSlots[t]
  /\ \A w \in Workers :
       WorkerSlots[TagOf[w]] > 0 => Cardinality(owners[WorkerGate(w)]) <= WorkerSlots[TagOf[w]]

\* Finitely many requests have come, however many there may be.
Came == {r \in Requests : stage[r] # "new"}

\* The gates' part of the invariant.
GatesProper ==
  /\ TargetProper
  /\ OwnersProper
  /\ LineProper
  /\ SlotsHeld
  /\ GatesBounded
  /\ IsFiniteSet(Came)

\* Both counts agree with the requests on the replica, each of which has the
\* record that closing it looks for; the registry's is too low, at worst, for a
\* worker that was pruned under its requests.
CountProper(w) ==
  /\ active[w] <= Cardinality(OnReplica(w))
  /\ w \notin forgotten => active[w] = Cardinality(OnReplica(w))
  /\ books[w] = Cardinality(OnReplica(w))

CountsProper ==
  /\ \A w \in Workers : CountProper(w)
  /\ \A r \in Requests : stage[r] \in {"upstream", "streaming"} => <<r, target[r]>> \in records

\* What a handler remembers of its attempts.
AttemptsProper ==
  \A r \in Requests :
    /\ ToSet(sent[r]) \subseteq exclude[r]
    /\ stage[r] \in {"tag", "worker", "acquire"} =>
         target[r] \in exclude[r] \ ToSet(sent[r]) /\ Len(sent[r]) < Attempts
    /\ stage[r] \notin {"streaming", "done"} => answer[r] = None

InductiveInv ==
  /\ TypeOK
  /\ GatesProper
  /\ CountsProper
  /\ AttemptsProper

(***************************************************************************)
(* Gates and sequences.                                                    *)
(***************************************************************************)

\* Cutting one element out of a line leaves the others in order.
LEMMA RemoveAtProperties ==
  ASSUME NEW S, NEW s \in Seq(S), NEW i \in 1..Len(s)
  PROVE  /\ RemoveAt(s, i) \in Seq(S)
         /\ Len(RemoveAt(s, i)) = Len(s) - 1
         /\ \A j \in 1..(Len(s) - 1) :
              RemoveAt(s, i)[j] = IF j < i THEN s[j] ELSE s[j + 1]
<1> DEFINE a == SubSeq(s, 1, i - 1)
           b == SubSeq(s, i + 1, Len(s))
<1>1. a \in Seq(S) /\ Len(a) = i - 1 /\ \A j \in 1..(i - 1) : a[j] = s[j]
  BY SubSeqProperties
<1>2. /\ b \in Seq(S)
      /\ Len(b) = Len(s) - i
      /\ \A j \in 1..(Len(s) - i) : b[j] = s[i + j]
  BY SubSeqProperties
<1> HIDE DEF a, b
<1>3. /\ a \o b \in Seq(S)
      /\ Len(a \o b) = Len(a) + Len(b)
      /\ \A j \in 1..(Len(a) + Len(b)) :
           (a \o b)[j] = IF j <= Len(a) THEN a[j] ELSE b[j - Len(a)]
  BY <1>1, <1>2, ConcatProperties
<1>4. Len(a \o b) = Len(s) - 1 /\ Len(a) + Len(b) = Len(s) - 1
  BY <1>1, <1>2, <1>3
<1>5. ASSUME NEW j \in 1..(Len(s) - 1)
      PROVE  (a \o b)[j] = IF j < i THEN s[j] ELSE s[j + 1]
  <2>1. (a \o b)[j] = IF j <= Len(a) THEN a[j] ELSE b[j - Len(a)]
    BY <1>3, <1>4
  <2>2. CASE j < i
    BY <2>1, <2>2, <1>1
  <2>3. CASE ~(j < i)
    <3>1. j - (i - 1) \in 1..(Len(s) - i) /\ i + (j - (i - 1)) = j + 1
      BY <2>3
    <3>2. b[j - (i - 1)] = s[j + 1]
      BY <3>1, <1>2
    <3>3. QED
      BY <2>1, <2>3, <3>2, <1>1
  <2>4. QED
    BY <2>2, <2>3
<1>6. QED
  BY <1>3, <1>4, <1>5 DEF RemoveAt, a, b

\* The head and the tail of a line.
LEMMA HeadTail ==
  ASSUME NEW S, NEW s \in Seq(S), s # <<>>
  PROVE  /\ Len(s) \in Nat \ {0}
         /\ Head(s) \in S /\ Head(s) = s[1]
         /\ Tail(s) \in Seq(S)
         /\ Len(Tail(s)) = Len(s) - 1
         /\ \A i \in 1..(Len(s) - 1) : Tail(s)[i] = s[i + 1]
  BY HeadTailProperties, EmptySeq

\* The gates are told apart by their kind and their name.
LEMMA GatesDiffer ==
  /\ Model \in Gates
  /\ \A t \in Tags : <<"tag", t>> \in Gates /\ <<"tag", t>> # Model
  /\ \A w \in Workers :
       /\ TagGate(w) \in Gates /\ TagGate(w) # Model
       /\ WorkerGate(w) \in Gates /\ WorkerGate(w) # Model
       /\ \A v \in Workers : TagGate(v) # WorkerGate(w)
       /\ \A v \in Workers : WorkerGate(v) = WorkerGate(w) => v = w
       /\ \A v \in Workers : TagGate(v) = TagGate(w) => TagOf[v] = TagOf[w]
<1>1. ASSUME NEW x PROVE <<"model">> # <<"tag", x>> /\ <<"model">> # <<"worker", x>>
  <2>1. Len(<<"model">>) = 1 /\ Len(<<"tag", x>>) = 2 /\ Len(<<"worker", x>>) = 2
    OBVIOUS
  <2>2. QED
    BY <2>1
<1>2. ASSUME NEW w \in Workers PROVE TagOf[w] \in Tags
  BY ProxyAssumption
<1>3. QED
  BY <1>1, <1>2 DEF Gates, Model, TagGate, WorkerGate

\* A handler is at a gate in three stages; each gate leads to the next stage.
LEMMA AtGateIs ==
  ASSUME NEW r
  PROVE  /\ AtGate(r) <=> stage[r] \in {"model", "tag", "worker"}
         /\ After["model"] = "pick" /\ After["tag"] = "worker" /\ After["worker"] = "acquire"
<1>1. DOMAIN After = {"model", "tag", "worker"}
  BY DEF After
<1>2. After["model"] = "pick" /\ After["tag"] = "worker" /\ After["worker"] = "acquire"
  BY DEF After
<1>3. QED
  BY <1>1, <1>2 DEF AtGate

\* The gate a handler is at.
LEMMA GateOfIs ==
  ASSUME NEW r
  PROVE  /\ stage[r] = "model" => GateOf(r) = Model
         /\ stage[r] = "tag" => GateOf(r) = TagGate(target[r])
         /\ stage[r] = "worker" => GateOf(r) = WorkerGate(target[r])
  BY DEF GateOf

\* A handler at a gate is at one of the gates, and may own a slot of it.
LEMMA GateOfProper ==
  ASSUME TypeOK, TargetProper, NEW r \in Requests, AtGate(r)
  PROVE  GateOf(r) \in Gates /\ MayOwn(r, GateOf(r))
<1>1. stage[r] \in {"model", "tag", "worker"}
  BY AtGateIs
<1>2. CASE stage[r] = "model"
  BY <1>2, GateOfIs, GatesDiffer DEF MayOwn, Live
<1>3. CASE stage[r] \in {"tag", "worker"}
  <2>1. target[r] # None /\ target[r] \in Workers
    BY <1>3 DEF TypeOK, TargetProper, Trying
  <2>2. QED
    BY <1>3, <2>1, GateOfIs, GatesDiffer DEF MayOwn
<1>4. QED
  BY <1>1, <1>2, <1>3

\* The slots of an attempt are those of two gates.
LEMMA AttemptGatesTyped ==
  ASSUME TypeOK, NEW r \in Requests
  PROVE  AttemptGates(target[r]) \subseteq Gates
  BY GatesDiffer DEF TypeOK, AttemptGates

\* Who is in no line according to his own gate is in no line at all.
LEMMA NotInLine ==
  ASSUME TypeOK, LineProper, NEW r \in Requests, ~InLine(r)
  PROVE  \A k \in Gates : \A i \in 1..Len(line[k]) : line[k][i] # r
  BY DEF LineProper, InLine, Contains

(***************************************************************************)
(* Type correctness.                                                       *)
(***************************************************************************)

\* Giving slots back keeps the types.
LEMMA GiveBackTyped ==
  ASSUME TypeOK, NEW r \in Requests, NEW K
  PROVE  /\ OwnersWithout(r, K) \in [Gates -> SUBSET Requests]
         /\ LineWithout(r, K) \in [Gates -> Seq(Requests)]
<1>1. ASSUME NEW k \in Gates, line[k] # <<>>
      PROVE  Head(line[k]) \in Requests /\ Tail(line[k]) \in Seq(Requests)
  BY <1>1, HeadTail DEF TypeOK
<1>2. ASSUME NEW k \in Gates
      PROVE  /\ OwnersWithout(r, K)[k] \subseteq Requests
             /\ LineWithout(r, K)[k] \in Seq(Requests)
  BY <1>1, <1>2 DEF OwnersWithout, LineWithout, TypeOK
<1>3. QED
  BY <1>2 DEF OwnersWithout, LineWithout

\* The initial types.
LEMMA TypeInit == Init => TypeOK
  BY ProxyAssumption DEF Init, TypeOK, Stages, Trying

\* Leaving the loop keeps the types.
LEMMA ReturnTyped ==
  ASSUME TypeOK, NEW r \in Requests, NEW K, Return(r, K)
  PROVE  /\ stage' \in [Requests -> Stages]
         /\ target' \in [Requests -> Workers \cup {None}]
         /\ exclude' \in [Requests -> SUBSET Workers]
         /\ sent' \in [Requests -> Seq(Workers)]
         /\ failed' \subseteq Requests /\ full' \subseteq Requests
         /\ owners' \in [Gates -> SUBSET Requests]
         /\ line' \in [Gates -> Seq(Requests)]
<1>1. <<>> \in Seq(Workers)
  OBVIOUS
<1>2. QED
  BY <1>1, GiveBackTyped DEF Return, GiveBack, LocalsGo, TypeOK, Stages, Trying

\* Settling the counts keeps their types.
LEMMA SettleTyped ==
  ASSUME TypeOK, NEW r \in Requests, Settle(r)
  PROVE  /\ active' \in [Workers -> Nat] /\ books' \in [Workers -> Nat]
         /\ records' \subseteq Requests \X Workers
         /\ forgotten' \subseteq Workers
<1>1. \A n \in Nat : n <= 1 \/ n - 1 \in Nat
  OBVIOUS
<1>2. \A n \in Nat : n > 0 => n - 1 \in Nat
  OBVIOUS
<1>3. QED
  BY <1>1, <1>2 DEF Settle, TypeOK

\* So does pruning.
LEMMA PruneTyped ==
  ASSUME TypeOK, NEW P \in SUBSET Workers, PruneOffline(P)
  PROVE  /\ active' \in [Workers -> Nat] /\ books' \in [Workers -> Nat]
         /\ records' \subseteq Requests \X Workers
         /\ forgotten' \subseteq Workers /\ known' \subseteq Workers
         /\ strikes' \in [Workers -> Nat] /\ backed' \subseteq Workers
         /\ open' \subseteq Workers /\ ready' \subseteq Workers /\ changes' \in Nat
<1>1. active' \in [Workers -> Nat] /\ strikes' \in [Workers -> Nat]
  <2>1. ASSUME NEW f \in [Workers -> Nat]
        PROVE  [w \in Workers |-> IF w \in P THEN 0 ELSE f[w]] \in [Workers -> Nat]
    OBVIOUS
  <2>2. QED
    BY <2>1 DEF PruneOffline, TypeOK
<1>2. forgotten' \subseteq Workers /\ known' \subseteq Workers /\ backed' \subseteq Workers
  BY DEF PruneOffline, TypeOK
<1>3. UNCHANGED <<books, records, open, ready, changes>>
  BY DEF PruneOffline
<1>4. QED
  BY <1>1, <1>2, <1>3 DEF TypeOK

\* Every step of a handler outside an attempt keeps the types.
LEMMA TypeHandle ==
  ASSUME TypeOK, NEW r \in Requests, Handle(r)
  PROVE  TypeOK'
<1>0. <<>> \in Seq(Workers)
  OBVIOUS
<1>1. CASE Receive(r)
  BY <1>1 DEF Receive, TypeOK, Stages, Trying, accounts, gates, health, fleet
<1>2. CASE Decline(r)
  BY <1>2, ReturnTyped DEF Decline, Tell, TypeOK, Answers, accounts, health, fleet
<1>3. CASE Enter(r)
  <2>1. After[stage[r]] \in Stages
    BY <1>3, AtGateIs DEF Enter, Stages, Trying
  <2>2. owners' \in [Gates -> SUBSET Requests]
    BY <1>3 DEF Enter, TypeOK
  <2>3. QED
    BY <1>3, <2>1, <2>2 DEF Enter, TypeOK, accounts, health, fleet
<1>4. CASE Join(r)
  <2>1. ASSUME NEW k \in Gates PROVE Append(line[k], r) \in Seq(Requests)
    BY DEF TypeOK
  <2>2. line' \in [Gates -> Seq(Requests)]
    BY <1>4, <2>1 DEF Join, TypeOK
  <2>3. QED
    BY <1>4, <2>2 DEF Join, TypeOK, handler, accounts, health, fleet
<1>5. CASE Wake(r)
  <2>1. After[stage[r]] \in Stages
    BY <1>5, AtGateIs DEF Wake, Admitted, Stages, Trying
  <2>2. QED
    BY <1>5, <2>1 DEF Wake, TypeOK, gates, accounts, health, fleet
<1>6. CASE TurnedAway(r)
  <2>1. CASE stage[r] = "model"
    BY <1>6, <2>1, ReturnTyped DEF TurnedAway, Tell, TypeOK, Answers, accounts, health, fleet
  <2>2. CASE stage[r] # "model"
    <3>1. /\ stage' \in [Requests -> Stages]
          /\ target' \in [Requests -> Workers \cup {None}]
          /\ full' \subseteq Requests
      BY <1>6, <2>2 DEF TurnedAway, TypeOK, Stages, Trying
    <3>2. owners' \in [Gates -> SUBSET Requests] /\ line' \in [Gates -> Seq(Requests)]
      BY <1>6, <2>2, GiveBackTyped DEF TurnedAway, GiveBack
    <3>3. QED
      BY <1>6, <2>2, <3>1, <3>2 DEF TurnedAway, TypeOK, accounts, health, fleet
  <2>3. QED
    BY <2>1, <2>2
<1>7. CASE GiveUp(r)
  <2> DEFINE K == {Model} \cup AttemptGates(target[r])
  <2>1. PICK i \in 1..Len(line[GateOf(r)]) :
          line' = [LineWithout(r, K) EXCEPT ![GateOf(r)] = RemoveAt(line[GateOf(r)], i)]
    BY <1>7 DEF GiveUp
  <2>2. ASSUME GateOf(r) \in Gates PROVE RemoveAt(line[GateOf(r)], i) \in Seq(Requests)
    BY <2>2, RemoveAtProperties DEF TypeOK
  <2>3. line' \in [Gates -> Seq(Requests)]
    BY <2>1, <2>2, GiveBackTyped
  <2>4. owners' \in [Gates -> SUBSET Requests]
    BY <1>7, GiveBackTyped DEF GiveUp
  <2>5. QED
    BY <1>0, <1>7, <2>3, <2>4
       DEF GiveUp, Tell, LocalsGo, TypeOK, Stages, Trying, Answers, accounts, health, fleet
<1>8. CASE Pick(r)
  <2>1. PICK w \in Best(Candidates(r)) :
          /\ target' = [target EXCEPT ![r] = w]
          /\ exclude' = [exclude EXCEPT ![r] = @ \cup {w}]
    BY <1>8 DEF Pick
  <2>2. w \in Workers
    BY DEF Best, Candidates, Healthy, TypeOK
  <2>3. stage' = [stage EXCEPT ![r] = "tag"]
    BY <1>8 DEF Pick
  <2>4. /\ stage' \in [Requests -> Stages]
        /\ target' \in [Requests -> Workers \cup {None}]
        /\ exclude' \in [Requests -> SUBSET Workers]
    BY <2>1, <2>2, <2>3 DEF TypeOK, Stages, Trying
  <2>5. QED
    <3>1. PICK P \in SUBSET Workers : PruneOffline(P)
      BY <1>8 DEF Pick, Silent, TypeOK
    <3>2. QED
      BY <1>8, <2>4, <3>1, PruneTyped DEF Pick, TypeOK, gates
<1>9. CASE Exhausted(r)
  <2>1. FinalWord(r) \in Answers
    BY DEF FinalWord, Answers
  <2>2. PICK P \in SUBSET Workers : PruneOffline(P)
    BY <1>9 DEF Exhausted, Silent, TypeOK
  <2>3. answer' \in [Requests -> Answers \cup {None}]
    BY <1>9, <2>1 DEF Exhausted, Tell, TypeOK
  <2>4. QED
    BY <1>9, <2>2, <2>3, ReturnTyped, PruneTyped DEF Exhausted, TypeOK
<1>10. CASE Abandon(r)
  BY <1>10, ReturnTyped DEF Abandon, TypeOK, accounts, health, fleet
<1>11. CASE Acquire(r)
  <2>1. target[r] \in Workers
    BY <1>11 DEF Acquire, Healthy, TypeOK
  <2>2. Append(sent[r], target[r]) \in Seq(Workers)
    BY <2>1 DEF TypeOK
  <2>3. active' \in [Workers -> Nat] /\ books' \in [Workers -> Nat]
    BY <1>11, <2>1 DEF Acquire, TypeOK
  <2>4. records' \subseteq Requests \X Workers
    BY <1>11, <2>1 DEF Acquire, TypeOK
  <2>5. stage' \in [Requests -> Stages] /\ sent' \in [Requests -> Seq(Workers)]
    BY <1>11, <2>2 DEF Acquire, TypeOK, Stages, Trying
  <2>6. QED
    BY <1>11, <2>3, <2>4, <2>5 DEF Acquire, TypeOK, gates, health, fleet
<1>12. CASE Refused(r)
  BY <1>12, GiveBackTyped DEF Refused, GiveBack, TypeOK, Stages, Trying, accounts, health, fleet
<1>13. QED
  BY <1>1, <1>2, <1>3, <1>4, <1>5, <1>6, <1>7, <1>8, <1>9, <1>10, <1>11, <1>12 DEF Handle

\* A retry keeps the types.
LEMMA RetryTyped ==
  ASSUME TypeOK, NEW r \in Requests, Retry(r)
  PROVE  /\ stage' \in [Requests -> Stages]
         /\ target' \in [Requests -> Workers \cup {None}]
         /\ exclude' \in [Requests -> SUBSET Workers]
         /\ sent' \in [Requests -> Seq(Workers)]
         /\ failed' \subseteq Requests /\ full' \subseteq Requests
         /\ owners' \in [Gates -> SUBSET Requests]
         /\ line' \in [Gates -> Seq(Requests)]
  BY GiveBackTyped DEF Retry, GiveBack, TypeOK, Stages, Trying

\* Every step of an attempt keeps the types.
LEMMA TypeAttempt ==
  ASSUME TypeOK, TargetProper, NEW r \in Requests, Attempt(r)
  PROVE  TypeOK'
<1>0. stage[r] \in {"upstream", "streaming"} => target[r] \in Workers
  BY DEF TypeOK, TargetProper, Trying
<1>1. CASE Unreachable(r)
  <2> DEFINE w == target[r]
  <2>1. w \in Workers
    BY <1>0, <1>1 DEF Unreachable
  <2>2. /\ strikes' = [strikes EXCEPT ![w] = @ + 1] \/ strikes' = strikes
        /\ backed' = backed \cup {w} \/ backed' = backed
    <3>1. CASE w \in known
      <4>1. \/ strikes' = [strikes EXCEPT ![w] = @ + 1]
            \/ strikes' = [strikes EXCEPT ![w] = @]
        BY <1>1, <3>1 DEF Unreachable
      <4>2. [strikes EXCEPT ![w] = @] = strikes
        BY DEF TypeOK
      <4>3. QED
        BY <1>1, <3>1, <4>1, <4>2 DEF Unreachable
    <3>2. QED
      BY <1>1, <3>1 DEF Unreachable, health
  <2>3. cool' = [cool EXCEPT ![w] = CooldownTTL] \/ cool' = cool
    BY <1>1 DEF Unreachable, Marked, health
  <2>4. Retry(r) /\ UNCHANGED <<gone, answer, fleet, elapsed>>
    BY <1>1 DEF Unreachable
  <2> HIDE DEF w
  <2>5. strikes' \in [Workers -> Nat] /\ backed' \subseteq Workers /\ cool' \in [Workers -> Nat]
    <3>1. CooldownTTL \in Nat
      BY ProxyAssumption
    <3>2. strikes' \in [Workers -> Nat]
      BY <2>1, <2>2 DEF TypeOK
    <3>3. cool' \in [Workers -> Nat]
      BY <2>3, <3>1 DEF TypeOK
    <3>4. QED
      BY <2>1, <2>2, <3>2, <3>3 DEF TypeOK
  <2>6. Settle(r)
    BY <2>4 DEF Retry
  <2>7. QED
    BY <2>4, <2>5, <2>6, RetryTyped, SettleTyped DEF TypeOK, fleet
<1>2. CASE Canceled(r)
  BY <1>2, ReturnTyped, SettleTyped DEF Canceled, TypeOK, health, fleet
<1>3. CASE Rejected(r)
  <2>1. Retry(r) /\ Settle(r)
    BY <1>3 DEF Rejected, Retry
  <2>2. strikes' \in [Workers -> Nat] /\ backed' \subseteq Workers /\ cool' \in [Workers -> Nat]
    BY <1>3, ProxyAssumption DEF Rejected, Reached, Marked, TypeOK
  <2>3. QED
    BY <1>3, <2>1, <2>2, RetryTyped, SettleTyped DEF Rejected, TypeOK, fleet
<1>4. CASE Unreadable(r)
  <2>1. strikes' \in [Workers -> Nat] /\ backed' \subseteq Workers
    BY <1>4 DEF Unreadable, Reached, TypeOK
  <2>2. answer' \in [Requests -> Answers \cup {None}]
    BY <1>4 DEF Unreadable, Tell, TypeOK, Answers
  <2>3. QED
    BY <1>4, <2>1, <2>2, ReturnTyped, SettleTyped DEF Unreadable, TypeOK, fleet
<1>5. ASSUME NEW code \in {"ok", "server_error"}, Respond(r, code)
      PROVE  TypeOK'
  BY <1>5 DEF Respond, Reached, Tell, TypeOK, Stages, Trying, Answers, gates, accounts, fleet
<1>6. CASE Finish(r)
  <2>1. cool' \in [Workers -> Nat]
    <3>1. cool' = [cool EXCEPT ![target[r]] = 0] \/ cool' = cool
      BY <1>6 DEF Finish, Cleared
    <3>2. target[r] \in Workers
      BY <1>0, <1>6 DEF Finish
    <3>3. cool \in [Workers -> Nat]
      BY DEF TypeOK
    <3>4. CASE cool' = cool
      BY <3>3, <3>4
    <3>5. CASE cool' = [cool EXCEPT ![target[r]] = 0]
      BY <3>3, <3>5
    <3>6. QED
      BY <3>1, <3>4, <3>5
  <2>2. QED
    BY <1>6, <2>1, ReturnTyped, SettleTyped DEF Finish, TypeOK, health, fleet
<1>7. QED
  BY <1>1, <1>2, <1>3, <1>4, <1>5, <1>6 DEF Attempt

\* So do clients, heartbeats, the administrator and time.
LEMMA TypeSurroundings ==
  ASSUME TypeOK,
         \/ \E r \in Requests : Leave(r)
         \/ \E w \in Workers : Change(w) \/ Register(w) \/ BackoffEnds(w) \/ ClearCooldown(w)
         \/ \E P \in SUBSET Workers : Snapshot(P)
         \/ Tick
         \/ UNCHANGED vars
  PROVE  TypeOK'
<1>1. CASE \E r \in Requests : Leave(r)
  BY <1>1 DEF Leave, TypeOK, handler, gates, accounts, health, fleet
<1>2. ASSUME NEW w \in Workers, Change(w)
      PROVE  TypeOK'
  <2>1. open' \subseteq Workers /\ ready' \subseteq Workers
    BY <1>2 DEF Change, TypeOK
  <2>2. changes' \in Nat
    BY <1>2 DEF Change, TypeOK
  <2>3. UNCHANGED <<known, handler, gone, answer, gates, accounts, cool, health, elapsed>>
    BY <1>2 DEF Change
  <2>4. QED
    BY <2>1, <2>2, <2>3 DEF TypeOK, handler, gates, accounts, health
<1>3. ASSUME NEW w \in Workers, BackoffEnds(w) \/ ClearCooldown(w)
      PROVE  TypeOK'
  <2>1. CASE BackoffEnds(w)
    BY <2>1 DEF BackoffEnds, TypeOK, handler, gates, accounts, fleet
  <2>2. CASE ClearCooldown(w)
    BY <2>2 DEF ClearCooldown, Cleared, TypeOK, handler, gates, accounts, health, fleet
  <2>3. QED
    BY <1>3, <2>1, <2>2
<1>4. CASE Tick
  <2>1. \A n \in Nat : n > 0 => n - 1 \in Nat
    OBVIOUS
  <2>2. elapsed' \in [Requests -> Nat] /\ cool' \in [Workers -> Nat]
    BY <1>4, <2>1 DEF Tick, TypeOK
  <2>3. QED
    BY <1>4, <2>2 DEF Tick, TypeOK, handler, gates, accounts, health, fleet
<1>5. CASE UNCHANGED vars
  BY <1>5 DEF vars, TypeOK, handler, gates, accounts, health, fleet
<1>6. ASSUME NEW P \in SUBSET Workers, Snapshot(P)
      PROVE  TypeOK'
  BY <1>6, PruneTyped DEF Snapshot, TypeOK, handler, gates
<1>7. ASSUME NEW w \in Workers, Register(w)
      PROVE  TypeOK'
  <2>1. known' \subseteq Workers /\ open' \subseteq Workers
    BY <1>7 DEF Register, TypeOK
  <2>2. QED
    BY <1>7, <2>1 DEF Register, TypeOK, handler, gates, accounts, health
<1>8. QED
  BY <1>1, <1>2, <1>3, <1>4, <1>5, <1>6, <1>7

(***************************************************************************)
(* The gates.                                                              *)
(***************************************************************************)

\* A step that leaves the handlers' stages and the gates alone keeps the
\* gates' part of the invariant.
LEMMA GatesAlone ==
  ASSUME GatesProper, UNCHANGED <<stage, target, owners, line>>
  PROVE  GatesProper'
  BY DEF GatesProper, TargetProper, OwnersProper, LineProper, SlotsHeld, GatesBounded, Came,
         MayOwn, Live, AtGate, GateOf, TagGate, WorkerGate

\* The owners of a gate, and the requests on a replica, are finitely many.
LEMMA FinitelyMany ==
  ASSUME TypeOK, GatesProper
  PROVE  /\ \A k \in Gates : IsFiniteSet(owners[k])
         /\ \A w \in Workers : IsFiniteSet(OnReplica(w))
<1>1. ASSUME NEW k \in Gates PROVE owners[k] \subseteq Came
  BY <1>1 DEF TypeOK, GatesProper, OwnersProper, MayOwn, Live, Came
<1>2. ASSUME NEW w \in Workers PROVE OnReplica(w) \subseteq Came
  BY DEF OnReplica, Came
<1>3. QED
  BY <1>1, <1>2, FS_Subset DEF GatesProper

\* What others may own, and where they are, does not depend on a handler's step.
LEMMA OthersAlone ==
  ASSUME NEW q, stage'[q] = stage[q], target'[q] = target[q]
  PROVE  /\ \A k : MayOwn(q, k)' <=> MayOwn(q, k)
         /\ AtGate(q)' <=> AtGate(q)
         /\ GateOf(q)' = GateOf(q)
  BY DEF MayOwn, Live, AtGate, GateOf, TagGate, WorkerGate

\* Slots given back: who owns a slot afterwards kept his or was the first in
\* line, everybody else keeps his, and there are no more owners than before.
LEMMA OwnersWithoutProperties ==
  ASSUME TypeOK, GatesProper, NEW r \in Requests, NEW K, NEW k \in Gates
  PROVE  /\ \A q \in OwnersWithout(r, K)[k] :
              \/ q \in owners[k] /\ (q # r \/ k \notin K)
              \/ k \in K /\ r \in owners[k] /\ line[k] # <<>> /\ q = line[k][1] /\ q # r
         /\ \A q \in owners[k] : q # r => q \in OwnersWithout(r, K)[k]
         /\ Cardinality(OwnersWithout(r, K)[k]) <= Cardinality(owners[k])
<1>1. CASE k \notin K \/ r \notin owners[k]
  <2>1. OwnersWithout(r, K)[k] = owners[k]
    BY <1>1 DEF OwnersWithout
  <2>2. Cardinality(owners[k]) \in Nat
    BY FinitelyMany, FS_CardinalityType
  <2>3. QED
    BY <1>1, <2>1, <2>2
<1>2. CASE k \in K /\ r \in owners[k] /\ line[k] = <<>>
  <2>1. OwnersWithout(r, K)[k] = owners[k] \ {r}
    BY <1>2 DEF OwnersWithout
  <2>2. /\ Cardinality(owners[k]) \in Nat
        /\ Cardinality(owners[k] \ {r}) = Cardinality(owners[k]) - 1
    BY <1>2, FinitelyMany, FS_CardinalityType, FS_RemoveElement
  <2>3. QED
    BY <2>1, <2>2
<1>3. CASE k \in K /\ r \in owners[k] /\ line[k] # <<>>
  <2>1. Head(line[k]) = line[k][1] /\ 1 \in 1..Len(line[k])
    BY <1>3, HeadTail DEF TypeOK
  <2>2. line[k][1] \notin owners[k]
    BY <2>1 DEF GatesProper, LineProper
  <2>3. OwnersWithout(r, K)[k] = (owners[k] \ {r}) \cup {line[k][1]}
    BY <1>3, <2>1 DEF OwnersWithout
  <2>4. /\ IsFiniteSet(owners[k] \ {r})
        /\ Cardinality(owners[k]) \in Nat
        /\ Cardinality(owners[k] \ {r}) = Cardinality(owners[k]) - 1
    BY <1>3, FinitelyMany, FS_CardinalityType, FS_RemoveElement
  <2>5. Cardinality((owners[k] \ {r}) \cup {line[k][1]}) = Cardinality(owners[k] \ {r}) + 1
    BY <2>2, <2>4, FS_AddElement
  <2>6. QED
    BY <1>3, <2>2, <2>3, <2>4, <2>5
<1>4. QED
  BY <1>1, <1>2, <1>3

\* The lines afterwards: the same requests in the same order, without the one
\* that owns a slot now.
LEMMA LineWithoutProperties ==
  ASSUME TypeOK, GatesProper, NEW r \in Requests, NEW K, NEW k \in Gates
  PROVE  /\ \A i \in 1..Len(LineWithout(r, K)[k]) :
              /\ \E j \in 1..Len(line[k]) : LineWithout(r, K)[k][i] = line[k][j]
              /\ LineWithout(r, K)[k][i] \notin OwnersWithout(r, K)[k]
         /\ \A i, j \in 1..Len(LineWithout(r, K)[k]) :
              LineWithout(r, K)[k][i] = LineWithout(r, K)[k][j] => i = j
         /\ r \notin owners[k] => LineWithout(r, K)[k] = line[k]
<1> DEFINE s == line[k]
<1>0. s \in Seq(Requests)
  BY DEF TypeOK
<1>1. /\ \A i, j \in 1..Len(s) : s[i] = s[j] => i = j
      /\ \A i \in 1..Len(s) : s[i] \notin owners[k]
  BY DEF GatesProper, LineProper
<1>2. \A q \in OwnersWithout(r, K)[k] :
        \/ q \in owners[k]
        \/ k \in K /\ r \in owners[k] /\ s # <<>> /\ q = s[1]
  BY OwnersWithoutProperties
<1>3. CASE k \in K /\ r \in owners[k] /\ s # <<>>
  <2>1. LineWithout(r, K)[k] = Tail(s)
    BY <1>3 DEF LineWithout
  <2>2. /\ Len(s) \in Nat \ {0}
        /\ Len(Tail(s)) = Len(s) - 1
        /\ \A i \in 1..(Len(s) - 1) : Tail(s)[i] = s[i + 1]
    BY <1>0, <1>3, HeadTail
  <2> HIDE DEF s
  <2>3. ASSUME NEW i \in 1..Len(Tail(s))
        PROVE  /\ i + 1 \in 1..Len(s) /\ i + 1 # 1
               /\ Tail(s)[i] = s[i + 1]
    BY <2>2
  <2>4. ASSUME NEW i \in 1..Len(Tail(s)) PROVE Tail(s)[i] # s[1] /\ Tail(s)[i] \notin owners[k]
    BY <1>1, <2>2, <2>3
  <2>5. ASSUME NEW i \in 1..Len(Tail(s)) PROVE Tail(s)[i] \notin OwnersWithout(r, K)[k]
    BY <1>2, <2>4
  <2>6. ASSUME NEW i \in 1..Len(Tail(s)), NEW j \in 1..Len(Tail(s)), Tail(s)[i] = Tail(s)[j]
        PROVE  i = j
    <3>1. i + 1 = j + 1
      BY <1>1, <2>3, <2>6
    <3>2. QED
      BY <2>2, <3>1
  <2>7. QED
    BY <1>3, <2>1, <2>3, <2>5, <2>6 DEF s
<1>4. CASE ~(k \in K /\ r \in owners[k] /\ s # <<>>)
  <2>1. LineWithout(r, K)[k] = s
    BY <1>4 DEF LineWithout
  <2>2. ASSUME NEW i \in 1..Len(s) PROVE s[i] \notin OwnersWithout(r, K)[k]
    <3>1. s # <<>>
      BY <1>0
    <3>2. QED
      BY <1>1, <1>4, <1>2, <3>1
  <2>3. QED
    BY <1>1, <2>1, <2>2
<1>5. QED
  BY <1>3, <1>4

\* A handler that ends its attempt, or returns, keeps the gates' part of the
\* invariant when it gives back every slot that it may no longer own and
\* leaves the line it may stand in.
LEMMA LeavingKeepsGates ==
  ASSUME TypeOK, GatesProper, NEW r \in Requests, NEW K \in SUBSET Gates,
         stage'[r] \in {"pick", "done"}, target'[r] = None,
         \A q \in Requests : q # r => stage'[q] = stage[q] /\ target'[q] = target[q],
         \A k \in Gates : r \in owners[k] /\ k \notin K => k = Model /\ stage'[r] = "pick",
         owners' = OwnersWithout(r, K),
         \A k \in Gates : \A i \in 1..Len(line'[k]) :
            /\ line'[k][i] # r /\ line'[k][i] \notin owners'[k]
            /\ \E j \in 1..Len(line[k]) : line'[k][i] = line[k][j],
         \A k \in Gates : \A i, j \in 1..Len(line'[k]) : line'[k][i] = line'[k][j] => i = j
  PROVE  GatesProper'
<1>1. TargetProper'
  BY DEF GatesProper, TargetProper, Trying
<1>2. \A k \in Gates : \A q \in owners'[k] :
        \/ q \in owners[k] /\ (q # r \/ k \notin K)
        \/ k \in K /\ line[k] # <<>> /\ q = line[k][1] /\ q # r
  BY OwnersWithoutProperties
<1>3. \A k \in Gates : \A q \in owners[k] : q # r => q \in owners'[k]
  BY OwnersWithoutProperties
<1>4. ASSUME NEW k \in Gates, line[k] # <<>>
      PROVE  line[k][1] \in Requests /\ MayOwn(line[k][1], k)
  <2>1. 1 \in 1..Len(line[k]) /\ line[k][1] \in Requests
    BY <1>4, HeadTail DEF TypeOK
  <2>2. AtGate(line[k][1]) /\ GateOf(line[k][1]) = k
    BY <2>1 DEF GatesProper, LineProper
  <2>3. QED
    BY <2>1, <2>2, GateOfProper DEF GatesProper
<1>5. ASSUME NEW k \in Gates, NEW q \in owners'[k]
      PROVE  MayOwn(q, k)'
  <2>1. CASE q # r
    <3>1. CASE q \in owners[k]
      <4>1. q \in Requests /\ MayOwn(q, k)
        BY <3>1 DEF TypeOK, GatesProper, OwnersProper
      <4>2. QED
        BY <2>1, <4>1, OthersAlone
    <3>2. CASE line[k] # <<>> /\ q = line[k][1]
      <4>1. q \in Requests /\ MayOwn(q, k)
        BY <1>4, <3>2
      <4>2. QED
        BY <2>1, <4>1, OthersAlone
    <3>3. QED
      BY <1>2, <3>1, <3>2
  <2>2. CASE q = r
    <3>1. k = Model /\ stage'[r] = "pick"
      BY <1>2, <2>2
    <3>2. QED
      BY <2>2, <3>1 DEF MayOwn, Live
  <2>3. QED
    BY <2>1, <2>2
<1>6. OwnersProper'
  BY <1>5 DEF OwnersProper
<1>7. ASSUME NEW k \in Gates, NEW i \in 1..Len(line'[k])
      PROVE  (AtGate(line[k][i]) /\ GateOf(line[k][i]) = k)'
  <2>1. PICK j \in 1..Len(line[k]) : line'[k][i] = line[k][j]
    OBVIOUS
  <2>2. line[k][j] \in Requests /\ line[k][j] # r
    BY <2>1 DEF TypeOK
  <2>3. AtGate(line[k][j]) /\ GateOf(line[k][j]) = k
    BY DEF GatesProper, LineProper
  <2>4. stage'[line[k][j]] = stage[line[k][j]] /\ target'[line[k][j]] = target[line[k][j]]
    BY <2>2
  <2>5. QED
    BY <2>1, <2>3, <2>4 DEF AtGate, GateOf, TagGate, WorkerGate
<1>8. LineProper'
  <2>1. ASSUME NEW k \in Gates, NEW i \in 1..Len(line'[k])
        PROVE  (/\ AtGate(line[k][i]) /\ GateOf(line[k][i]) = k
                /\ line[k][i] \notin owners[k]
                /\ \A j \in 1..Len(line[k]) : line[k][i] = line[k][j] => i = j)'
    BY <1>7
  <2>2. QED
    BY <2>1 DEF LineProper, Gates
<1>9. SlotsHeld'
  <2>1. ASSUME NEW q \in Requests, q # r, stage[q] \in Trying
        PROVE  TagGate(target[q]) \in Gates /\ WorkerGate(target[q]) \in Gates
    BY <2>1, GatesDiffer DEF TypeOK, GatesProper, TargetProper
  <2>2. QED
    BY <1>3, <2>1 DEF GatesProper, SlotsHeld, TagGate, WorkerGate, Trying
<1>10. GatesBounded'
  <2>1. \A k \in Gates : /\ Cardinality(owners'[k]) <= Cardinality(owners[k])
                          /\ IsFiniteSet(owners[k]) /\ IsFiniteSet(owners'[k])
    <3>1. ASSUME NEW k \in Gates PROVE IsFiniteSet(owners'[k])
      <4>1. owners'[k] \subseteq owners[k] \cup {line[k][1]}
        BY <1>2
      <4>2. IsFiniteSet(owners[k] \cup {line[k][1]})
        BY FinitelyMany, FS_AddElement
      <4>3. QED
        BY <4>1, <4>2, FS_Subset
    <3>2. QED
      BY <3>1, FinitelyMany, OwnersWithoutProperties
  <2>2. \A k \in Gates : /\ Cardinality(owners'[k]) <= Cardinality(owners[k])
                          /\ Cardinality(owners[k]) \in Nat /\ Cardinality(owners'[k]) \in Nat
    BY <2>1, FS_CardinalityType
  <2>3. ASSUME NEW t \in Tags, TagSlots[t] > 0
        PROVE  Cardinality(owners'[<<"tag", t>>]) <= TagSlots[t]
    <3>1. Cardinality(owners[<<"tag", t>>]) <= TagSlots[t]
      BY <2>3 DEF GatesProper, GatesBounded
    <3>2. TagSlots[t] \in Nat
      BY ProxyAssumption
    <3>3. QED
      BY <2>2, <3>1, <3>2, GatesDiffer
  <2>4. ASSUME NEW w \in Workers, WorkerSlots[TagOf[w]] > 0
        PROVE  Cardinality(owners'[WorkerGate(w)]) <= WorkerSlots[TagOf[w]]
    <3>1. Cardinality(owners[WorkerGate(w)]) <= WorkerSlots[TagOf[w]]
      BY <2>4 DEF GatesProper, GatesBounded
    <3>2. WorkerSlots[TagOf[w]] \in Nat
      BY ProxyAssumption
    <3>3. QED
      BY <2>2, <3>1, <3>2, GatesDiffer
  <2>5. QED
    BY <2>3, <2>4 DEF GatesBounded, WorkerGate
<1>11. IsFiniteSet(Came)'
  <2>1. Came' \subseteq Came \cup {r}
    BY DEF Came
  <2>2. IsFiniteSet(Came \cup {r})
    BY FS_AddElement DEF GatesProper
  <2>3. QED
    BY <2>1, <2>2, FS_Subset
<1>12. QED
  BY <1>1, <1>6, <1>8, <1>9, <1>10, <1>11 DEF GatesProper

\* In particular when it gives the slots back and stands in no line.
LEMMA GivingBackKeepsGates ==
  ASSUME TypeOK, GatesProper, NEW r \in Requests, NEW K \in SUBSET Gates,
         stage'[r] \in {"pick", "done"}, target'[r] = None,
         \A q \in Requests : q # r => stage'[q] = stage[q] /\ target'[q] = target[q],
         \A k \in Gates : r \in owners[k] /\ k \notin K => k = Model /\ stage'[r] = "pick",
         GiveBack(r, K), ~InLine(r)
  PROVE  GatesProper'
<1>1. \A k \in Gates : \A i \in 1..Len(line[k]) : line[k][i] # r
  BY NotInLine DEF GatesProper
<1>2. owners' = OwnersWithout(r, K) /\ line' = LineWithout(r, K)
  BY DEF GiveBack
<1>3. ASSUME NEW k \in Gates, NEW i \in 1..Len(line'[k])
      PROVE  /\ line'[k][i] # r /\ line'[k][i] \notin owners'[k]
             /\ \E j \in 1..Len(line[k]) : line'[k][i] = line[k][j]
             /\ \A j \in 1..Len(line'[k]) : line'[k][i] = line'[k][j] => i = j
  BY <1>1, <1>2, LineWithoutProperties
<1>4. QED
  BY <1>2, <1>3, LeavingKeepsGates

\* A handler that goes from one stage to the next keeps it as well, when every
\* slot it has and needs there is its own.
LEMMA MovingKeepsGates ==
  ASSUME TypeOK, GatesProper, NEW r \in Requests, ~InLine(r),
         (target'[r] # None <=> stage'[r] \in Trying),
         \A q \in Requests : q # r => stage'[q] = stage[q] /\ target'[q] = target[q],
         \A k \in Gates : r \in owners'[k] => MayOwn(r, k)',
         \A k \in Gates : owners'[k] = owners[k] \/ owners'[k] = owners[k] \cup {r},
         UNCHANGED line,
         stage'[r] \in {"worker", "acquire", "upstream", "streaming"}
           /\ TagSlots[TagOf[target'[r]]] > 0 => r \in owners'[TagGate(target'[r])],
         stage'[r] \in {"acquire", "upstream", "streaming"}
           /\ WorkerSlots[TagOf[target'[r]]] > 0 => r \in owners'[WorkerGate(target'[r])],
         GatesBounded'
  PROVE  GatesProper'
<1>1. TargetProper'
  BY DEF GatesProper, TargetProper
<1>2. OwnersProper'
  <2>1. ASSUME NEW k \in Gates, NEW q \in owners'[k], q # r
        PROVE  MayOwn(q, k)'
    <3>a. owners[k] \subseteq Requests
      BY DEF TypeOK
    <3>b. owners'[k] \subseteq owners[k] \cup {r}
      OBVIOUS
    <3>1. q \in owners[k] /\ q \in Requests
      BY ONLY <2>1, <3>a, <3>b
    <3>2. MayOwn(q, k)
      BY <3>1 DEF GatesProper, OwnersProper
    <3>3. QED
      BY <2>1, <3>1, <3>2, OthersAlone
  <2>2. QED
    BY <2>1 DEF OwnersProper
<1>3. \A k \in Gates : \A i \in 1..Len(line[k]) : line[k][i] # r
  BY NotInLine DEF GatesProper
<1>4. ASSUME NEW k \in Gates, NEW i \in 1..Len(line[k])
      PROVE  /\ AtGate(line[k][i])' /\ GateOf(line[k][i])' = k
             /\ line[k][i] \notin owners'[k]
             /\ \A j \in 1..Len(line[k]) : line[k][i] = line[k][j] => i = j
  <2>1. line[k][i] \in Requests /\ line[k][i] # r
    BY <1>3 DEF TypeOK
  <2>2. /\ AtGate(line[k][i]) /\ GateOf(line[k][i]) = k
        /\ line[k][i] \notin owners[k]
        /\ \A j \in 1..Len(line[k]) : line[k][i] = line[k][j] => i = j
    BY DEF GatesProper, LineProper
  <2>3. AtGate(line[k][i])' /\ GateOf(line[k][i])' = k
    BY <2>1, <2>2 DEF AtGate, GateOf, TagGate, WorkerGate
  <2>4. QED
    BY <2>1, <2>2, <2>3
<1>5. LineProper'
  BY <1>4 DEF LineProper, AtGate, GateOf, TagGate, WorkerGate
<1>6. SlotsHeld'
  <2>1. ASSUME NEW q \in Requests, q # r, stage[q] \in Trying
        PROVE  TagGate(target[q]) \in Gates /\ WorkerGate(target[q]) \in Gates
    BY <2>1, GatesDiffer DEF TypeOK, GatesProper, TargetProper
  <2>2. QED
    BY <2>1 DEF GatesProper, SlotsHeld, TagGate, WorkerGate, Trying
<1>7. IsFiniteSet(Came)'
  <2>1. Came' \subseteq Came \cup {r}
    BY DEF Came
  <2>2. IsFiniteSet(Came \cup {r})
    BY FS_AddElement DEF GatesProper
  <2>3. QED
    BY <2>1, <2>2, FS_Subset
<1>8. QED
  BY <1>1, <1>2, <1>5, <1>6, <1>7 DEF GatesProper

\* A handler owns slots of the model's gate and of its attempt's only; before it
\* came it owns none.
LEMMA OwnsOnly ==
  ASSUME GatesProper, NEW r, NEW k \in Gates, r \in owners[k]
  PROVE  /\ k = Model \/ k \in AttemptGates(target[r])
         /\ Live(r)
  BY DEF GatesProper, OwnersProper, MayOwn, AttemptGates, Live

\* Returning keeps the gates' part of the invariant.
LEMMA ReturnKeepsGates ==
  ASSUME TypeOK, GatesProper, NEW r \in Requests, ~InLine(r), NEW K \in SUBSET Gates,
         AttemptGates(target[r]) \subseteq K, Return(r, K)
  PROVE  GatesProper'
<1>1. stage'[r] = "done" /\ target'[r] = None
  BY DEF Return, TypeOK
<1>2. \A q \in Requests : q # r => stage'[q] = stage[q] /\ target'[q] = target[q]
  BY DEF Return, TypeOK
<1>3. K \cup {Model} \in SUBSET Gates
  BY GatesDiffer
<1>4. GiveBack(r, K \cup {Model})
  BY DEF Return
<1>5. \A k \in Gates : r \in owners[k] => k \in K \cup {Model}
  BY OwnsOnly
<1>6. QED
  BY <1>1, <1>2, <1>3, <1>4, <1>5, GivingBackKeepsGates

\* So does ending an attempt without an answer.
LEMMA NextTryKeepsGates ==
  ASSUME TypeOK, GatesProper, NEW r \in Requests, ~InLine(r),
         stage' = [stage EXCEPT ![r] = "pick"],
         target' = [target EXCEPT ![r] = None],
         GiveBack(r, AttemptGates(target[r]))
  PROVE  GatesProper'
<1>1. stage'[r] = "pick" /\ target'[r] = None
  BY DEF TypeOK
<1>2. \A q \in Requests : q # r => stage'[q] = stage[q] /\ target'[q] = target[q]
  BY DEF TypeOK
<1>3. AttemptGates(target[r]) \in SUBSET Gates
  BY AttemptGatesTyped
<1>4. \A k \in Gates : r \in owners[k] /\ k \notin AttemptGates(target[r]) => k = Model
  BY OwnsOnly
<1>5. QED
  BY <1>1, <1>2, <1>3, <1>4, GivingBackKeepsGates

\* A handler between two stages of an attempt, with the same slots.
LEMMA SameSlotsKeepGates ==
  ASSUME TypeOK, GatesProper, NEW r \in Requests, ~InLine(r),
         (target'[r] # None <=> stage'[r] \in Trying),
         \A q \in Requests : q # r => stage'[q] = stage[q] /\ target'[q] = target[q],
         \A k \in Gates : r \in owners[k] => MayOwn(r, k)',
         UNCHANGED <<owners, line>>,
         stage'[r] \in {"worker", "acquire", "upstream", "streaming"}
           /\ TagSlots[TagOf[target'[r]]] > 0 => r \in owners[TagGate(target'[r])],
         stage'[r] \in {"acquire", "upstream", "streaming"}
           /\ WorkerSlots[TagOf[target'[r]]] > 0 => r \in owners[WorkerGate(target'[r])]
  PROVE  GatesProper'
<1>1. GatesBounded'
  BY DEF GatesProper, GatesBounded, WorkerGate
<1>2. QED
  BY <1>1, MovingKeepsGates

\* Entering a gate, without a limit or with a slot of one's own.
LEMMA EnterKeepsGates ==
  ASSUME TypeOK, GatesProper, NEW r \in Requests, Enter(r)
  PROVE  GatesProper'
<1> DEFINE g == GateOf(r)
<1>1. stage[r] \in {"model", "tag", "worker"}
  BY AtGateIs DEF Enter
<1>2. g \in Gates
  BY GateOfProper DEF Enter, GatesProper
<1>3. /\ stage' = [stage EXCEPT ![r] = After[@]]
      /\ UNCHANGED <<target, line>>
      /\ ~InLine(r)
  BY DEF Enter
<1>4. /\ stage[r] = "model" => stage'[r] = "pick" /\ g = Model
      /\ stage[r] = "tag" => stage'[r] = "worker" /\ g = TagGate(target[r])
      /\ stage[r] = "worker" => stage'[r] = "acquire" /\ g = WorkerGate(target[r])
  BY <1>3, AtGateIs, GateOfIs DEF TypeOK
<1>5. target[r] # None <=> stage[r] \in {"tag", "worker"}
  BY <1>1 DEF GatesProper, TargetProper, Trying
<1>6. \/ LimitOf(r) = 0 /\ owners' = owners
      \/ /\ LimitOf(r) # 0
         /\ Cardinality(owners[g]) < LimitOf(r)
         /\ owners' = [owners EXCEPT ![g] = @ \cup {r}]
  BY DEF Enter
<1>7. /\ \A k \in Gates : owners'[k] = owners[k] \/ owners'[k] = owners[k] \cup {r}
      /\ \A k \in Gates : k # g => owners'[k] = owners[k]
      /\ LimitOf(r) # 0 => r \in owners'[g]
  BY <1>2, <1>6 DEF TypeOK
<1>8. \A q \in Requests : q # r => stage'[q] = stage[q] /\ target'[q] = target[q]
  BY <1>3 DEF TypeOK
<1>9. target'[r] # None <=> stage'[r] \in Trying
  BY <1>1, <1>3, <1>4, <1>5 DEF Trying
<1>10. ASSUME NEW k \in Gates, r \in owners'[k]
       PROVE  MayOwn(r, k)'
  <2>1. CASE k = g
    BY <1>1, <1>3, <1>4, <1>5, <2>1, GatesDiffer
       DEF MayOwn, Live, TagGate, WorkerGate, TypeOK
  <2>2. CASE k # g
    <3>1. MayOwn(r, k)
      BY <1>7, <1>10, <2>2 DEF GatesProper, OwnersProper
    <3>2. QED
      BY <1>1, <1>3, <1>4, <1>5, <3>1 DEF MayOwn, Live, TagGate, WorkerGate
  <2>3. QED
    BY <2>1, <2>2
<1>11. /\ stage[r] = "tag" => LimitOf(r) = TagSlots[TagOf[target[r]]]
       /\ stage[r] = "worker" => LimitOf(r) = WorkerSlots[TagOf[target[r]]]
  BY DEF LimitOf
<1>12. stage'[r] \in {"worker", "acquire", "upstream", "streaming"}
         /\ TagSlots[TagOf[target'[r]]] > 0 => r \in owners'[TagGate(target'[r])]
  <2>1. CASE stage[r] = "tag"
    BY <1>3, <1>4, <1>7, <1>11, <2>1
  <2>2. CASE stage[r] = "worker"
    <3>1. TagSlots[TagOf[target[r]]] > 0 => r \in owners[TagGate(target[r])]
      BY <2>2 DEF GatesProper, SlotsHeld
    <3>2. TagGate(target[r]) \in Gates
      BY <1>5, <2>2, GatesDiffer DEF TypeOK
    <3>3. QED
      BY <1>3, <1>7, <3>1, <3>2
  <2>3. QED
    BY <1>1, <1>4, <2>1, <2>2
<1>13. stage'[r] \in {"acquire", "upstream", "streaming"}
         /\ WorkerSlots[TagOf[target'[r]]] > 0 => r \in owners'[WorkerGate(target'[r])]
  BY <1>1, <1>3, <1>4, <1>7, <1>11
<1>14. ASSUME NEW n \in Nat, LimitOf(r) = n
       PROVE  Cardinality(owners'[g]) <= n \/ n = 0
  <2>1. CASE n # 0
    <3>1. owners'[g] = owners[g] \cup {r}
      BY <1>2, <1>6, <1>14, <2>1 DEF TypeOK
    <3>2. IsFiniteSet(owners[g]) /\ Cardinality(owners[g]) \in Nat
      BY <1>2, FinitelyMany, FS_CardinalityType
    <3>3. \/ Cardinality(owners[g] \cup {r}) = Cardinality(owners[g])
          \/ Cardinality(owners[g] \cup {r}) = Cardinality(owners[g]) + 1
      BY <3>2, FS_AddElement
    <3>4. QED
      BY <1>6, <1>14, <2>1, <3>1, <3>2, <3>3
  <2>2. QED
    BY <2>1
<1>15. GatesBounded'
  <2>1. ASSUME NEW t \in Tags, TagSlots[t] > 0
        PROVE  Cardinality(owners'[<<"tag", t>>]) <= TagSlots[t]
    <3>1. Cardinality(owners[<<"tag", t>>]) <= TagSlots[t]
      BY <2>1 DEF GatesProper, GatesBounded
    <3>2. CASE <<"tag", t>> # g
      BY <1>7, <3>1, <3>2, GatesDiffer
    <3>3. CASE <<"tag", t>> = g
      <4>1. stage[r] = "tag" /\ TagOf[target[r]] = t
        BY <1>1, <1>4, <1>5, <3>3, GatesDiffer DEF TagGate, WorkerGate
      <4>2. TagSlots[t] \in Nat /\ LimitOf(r) = TagSlots[t]
        BY <1>11, <4>1, ProxyAssumption
      <4>3. QED
        BY <1>14, <2>1, <3>3, <4>2
    <3>4. QED
      BY <3>2, <3>3
  <2>2. ASSUME NEW w \in Workers, WorkerSlots[TagOf[w]] > 0
        PROVE  Cardinality(owners'[WorkerGate(w)]) <= WorkerSlots[TagOf[w]]
    <3>1. Cardinality(owners[WorkerGate(w)]) <= WorkerSlots[TagOf[w]]
      BY <2>2 DEF GatesProper, GatesBounded
    <3>2. CASE WorkerGate(w) # g
      BY <1>7, <3>1, <3>2, GatesDiffer
    <3>3. CASE WorkerGate(w) = g
      <4>1. stage[r] = "worker" /\ target[r] = w
        <5>1. stage[r] = "worker" /\ target[r] \in Workers
          BY <1>1, <1>4, <1>5, <3>3, GatesDiffer DEF TypeOK
        <5>2. QED
          BY <1>4, <3>3, <5>1, GatesDiffer
      <4>2. WorkerSlots[TagOf[w]] \in Nat /\ LimitOf(r) = WorkerSlots[TagOf[w]]
        BY <1>11, <4>1, ProxyAssumption
      <4>3. QED
        BY <1>14, <2>2, <3>3, <4>2
    <3>4. QED
      BY <3>2, <3>3
  <2>3. QED
    BY <2>1, <2>2 DEF GatesBounded, WorkerGate
<1>16. QED
  BY <1>3, <1>7, <1>8, <1>9, <1>10, <1>12, <1>13, <1>15, MovingKeepsGates

\* Standing at the end of the line.
LEMMA JoinKeepsGates ==
  ASSUME TypeOK, GatesProper, NEW r \in Requests, Join(r)
  PROVE  GatesProper'
<1> DEFINE g == GateOf(r)
<1>1. /\ g \in Gates /\ AtGate(r) /\ r \notin owners[g]
      /\ UNCHANGED <<stage, target, owners>>
      /\ line' = [line EXCEPT ![g] = Append(@, r)]
  BY GateOfProper DEF Join, Admitted, GatesProper, handler
<1>2. \A k \in Gates : \A i \in 1..Len(line[k]) : line[k][i] # r
  BY NotInLine DEF Join, GatesProper
<1>3. /\ Append(line[g], r) \in Seq(Requests)
      /\ Len(Append(line[g], r)) = Len(line[g]) + 1
      /\ \A i \in 1..Len(line[g]) : Append(line[g], r)[i] = line[g][i]
      /\ Append(line[g], r)[Len(line[g]) + 1] = r
      /\ Len(line[g]) \in Nat
  BY <1>1, AppendProperties DEF TypeOK
<1>4. /\ line'[g] = Append(line[g], r)
      /\ \A k \in Gates : k # g => line'[k] = line[k]
  BY <1>1 DEF TypeOK
<1> HIDE DEF g
<1>5. ASSUME NEW k \in Gates, NEW i \in 1..Len(line'[k])
      PROVE  \/ line'[k][i] = r /\ k = g /\ i = Len(line[g]) + 1
             \/ i \in 1..Len(line[k]) /\ line'[k][i] = line[k][i] /\ line[k][i] # r
  <2>1. CASE k = g
    <3>1. i \in 1..Len(line[g]) \/ i = Len(line[g]) + 1
      BY <1>3, <1>4, <2>1
    <3>2. QED
      BY <1>2, <1>3, <1>4, <2>1, <3>1
  <2>2. CASE k # g
    BY <1>2, <1>4, <2>2
  <2>3. QED
    BY <2>1, <2>2
<1>6. \A k \in Gates : \A i \in 1..Len(line[k]) :
        /\ AtGate(line[k][i]) /\ GateOf(line[k][i]) = k /\ line[k][i] \notin owners[k]
        /\ \A j \in 1..Len(line[k]) : line[k][i] = line[k][j] => i = j
  BY DEF GatesProper, LineProper
<1>7. ASSUME NEW k \in Gates, NEW i \in 1..Len(line'[k])
      PROVE  (/\ AtGate(line[k][i]) /\ GateOf(line[k][i]) = k
              /\ line[k][i] \notin owners[k])'
  <2>1. line'[k][i] \notin owners'[k]
    BY <1>1, <1>5, <1>6
  <2>2. CASE line'[k][i] = r /\ k = g
    <3>1. stage'[r] = stage[r] /\ target'[r] = target[r]
      BY <1>1
    <3>2. AtGate(r) /\ GateOf(r) = k
      BY <1>1, <2>2 DEF g
    <3>3. QED
      BY <2>1, <2>2, <3>1, <3>2 DEF AtGate, GateOf, TagGate, WorkerGate
  <2>3. CASE i \in 1..Len(line[k]) /\ line'[k][i] = line[k][i]
    <3>1. AtGate(line[k][i]) /\ GateOf(line[k][i]) = k
      BY <1>6, <2>3
    <3>2. QED
      BY <1>1, <2>1, <2>3, <3>1 DEF AtGate, GateOf, TagGate, WorkerGate
  <2>4. QED
    BY <1>5, <2>2, <2>3
<1>8. ASSUME NEW k \in Gates, NEW i \in 1..Len(line'[k]), NEW j \in 1..Len(line'[k]),
             line'[k][i] = line'[k][j]
      PROVE  i = j
  BY <1>5, <1>6, <1>8
<1>9. LineProper'
  BY <1>7, <1>8 DEF LineProper, Gates
<1>10. QED
  BY <1>1, <1>9 DEF GatesProper, TargetProper, OwnersProper, SlotsHeld, GatesBounded, Came,
         MayOwn, Live, TagGate, WorkerGate

\* Leaving a line when the deadline or the client ends the wait.
LEMMA GiveUpKeepsGates ==
  ASSUME TypeOK, GatesProper, NEW r \in Requests, GiveUp(r)
  PROVE  GatesProper'
<1> DEFINE g == GateOf(r)
           K == {Model} \cup AttemptGates(target[r])
<1>1. /\ stage' = [stage EXCEPT ![r] = "done"]
      /\ target' = [target EXCEPT ![r] = None]
      /\ owners' = OwnersWithout(r, K)
      /\ AtGate(r)
  BY DEF GiveUp, InLine
<1>2. PICK n \in 1..Len(line[g]) :
        /\ line[g][n] = r
        /\ line' = [LineWithout(r, K) EXCEPT ![g] = RemoveAt(line[g], n)]
  BY DEF GiveUp
<1>3. g \in Gates /\ K \in SUBSET Gates
  BY <1>1, GateOfProper, AttemptGatesTyped, GatesDiffer DEF GatesProper
<1>4. r \notin owners[g] /\ \A i, j \in 1..Len(line[g]) : line[g][i] = line[g][j] => i = j
  BY <1>2, <1>3 DEF GatesProper, LineProper
<1>5. LineWithout(r, K)[g] = line[g]
  BY <1>3, <1>4, LineWithoutProperties
<1>6. /\ line'[g] = RemoveAt(line[g], n)
      /\ \A k \in Gates : k # g => line'[k] = LineWithout(r, K)[k]
  BY <1>2, <1>3 DEF LineWithout
<1>7. \A k \in Gates : k # g => \A i \in 1..Len(line[k]) : line[k][i] # r
  BY DEF GatesProper, LineProper
<1> HIDE DEF g, K
<1>8. /\ Len(line[g]) \in Nat
      /\ Len(RemoveAt(line[g], n)) = Len(line[g]) - 1
      /\ \A j \in 1..(Len(line[g]) - 1) :
           RemoveAt(line[g], n)[j] = IF j < n THEN line[g][j] ELSE line[g][j + 1]
  <2>1. line[g] \in Seq(Requests) /\ n \in 1..Len(line[g])
    BY <1>2, <1>3 DEF TypeOK, g
  <2>2. QED
    BY <2>1, RemoveAtProperties
<1>9. ASSUME NEW i \in 1..Len(line'[g])
      PROVE  \E j \in 1..Len(line[g]) :
               /\ line'[g][i] = line[g][j] /\ j # n
               /\ j = IF i < n THEN i ELSE i + 1
  <2>1. i \in 1..(Len(line[g]) - 1)
    BY <1>6, <1>8
  <2>2. line'[g][i] = IF i < n THEN line[g][i] ELSE line[g][i + 1]
    BY <1>6, <1>8, <2>1
  <2>3. CASE i < n
    <3>1. i \in 1..Len(line[g]) /\ i # n
      BY <1>8, <2>1, <2>3
    <3>2. QED
      BY <2>2, <2>3, <3>1
  <2>4. CASE ~(i < n)
    <3>1. i + 1 \in 1..Len(line[g]) /\ i + 1 # n
      BY <1>8, <2>1, <2>4
    <3>2. QED
      BY <2>2, <2>4, <3>1
  <2>5. QED
    BY <2>3, <2>4
<1>10. ASSUME NEW k \in Gates, NEW i \in 1..Len(line'[k])
       PROVE  /\ line'[k][i] # r
              /\ line'[k][i] \notin owners'[k]
              /\ \E j \in 1..Len(line[k]) : line'[k][i] = line[k][j]
  <2>1. CASE k # g
    <3>1. /\ i \in 1..Len(LineWithout(r, K)[k])
          /\ line'[k][i] = LineWithout(r, K)[k][i]
      BY <1>6, <2>1
    <3>2. QED
      BY <1>1, <1>7, <2>1, <3>1, LineWithoutProperties
  <2>2. CASE k = g
    <3>1. PICK j \in 1..Len(line[g]) : line'[g][i] = line[g][j] /\ j # n
      BY <1>9, <2>2
    <3>2. line[g][j] # r
      BY <1>2, <1>4, <3>1
    <3>3. line[g][j] \notin owners[g]
      BY <1>3 DEF GatesProper, LineProper
    <3>4. \A q \in owners'[g] : q \in owners[g]
      BY <1>1, <1>3, <1>4, OwnersWithoutProperties
    <3>5. QED
      BY <2>2, <3>1, <3>2, <3>3, <3>4
  <2>3. QED
    BY <2>1, <2>2
<1>11. ASSUME NEW k \in Gates, NEW i \in 1..Len(line'[k]), NEW j \in 1..Len(line'[k]),
              line'[k][i] = line'[k][j]
       PROVE  i = j
  <2>1. CASE k # g
    BY <1>6, <1>11, <2>1, LineWithoutProperties
  <2>2. CASE k = g
    <3>1. (IF i < n THEN i ELSE i + 1) = (IF j < n THEN j ELSE j + 1)
      BY <1>4, <1>9, <1>11, <2>2
    <3>2. QED
      BY <3>1, <1>6, <1>8, <2>2
  <2>3. QED
    BY <2>1, <2>2
<1>12. stage'[r] = "done" /\ target'[r] = None
  BY <1>1 DEF TypeOK
<1>13. \A q \in Requests : q # r => stage'[q] = stage[q] /\ target'[q] = target[q]
  BY <1>1 DEF TypeOK
<1>14. \A k \in Gates : r \in owners[k] => k \in K
  BY OwnsOnly DEF K
<1>15. QED
  BY <1>1, <1>3, <1>10, <1>11, <1>12, <1>13, <1>14, LeavingKeepsGates

\* No step of a handler outside an attempt breaks the gates.
LEMMA GatesHandle ==
  ASSUME TypeOK, GatesProper, NEW r \in Requests, Handle(r)
  PROVE  GatesProper'
<1>0. stage[r] \notin Trying => target[r] = None /\ AttemptGates(target[r]) = {}
  BY DEF GatesProper, TargetProper, AttemptGates
<1>1. stage[r] \notin {"model", "tag", "worker"} => ~InLine(r)
  BY AtGateIs DEF InLine
<1>2. CASE Receive(r)
  <2>1. stage[r] = "new" /\ stage' = [stage EXCEPT ![r] = "model"]
    BY <1>2 DEF Receive
  <2>2. UNCHANGED <<target, owners, line>>
    BY <1>2 DEF Receive, gates
  <2>3. \A k \in Gates : r \notin owners[k]
    BY <2>1, OwnsOnly DEF Live
  <2>4. stage'[r] = "model" /\ target'[r] = None
    BY <1>0, <2>1, <2>2 DEF TypeOK, Trying
  <2>5. \A q \in Requests : q # r => stage'[q] = stage[q] /\ target'[q] = target[q]
    BY <2>1, <2>2 DEF TypeOK
  <2>6. target'[r] # None <=> stage'[r] \in Trying
    BY <2>4 DEF Trying
  <2>7. ~InLine(r)
    BY <1>1, <2>1
  <2>8. QED
    BY <2>2, <2>3, <2>4, <2>5, <2>6, <2>7, SameSlotsKeepGates
<1>3. CASE Decline(r)
  BY <1>0, <1>1, <1>3, ReturnKeepsGates DEF Decline, Trying
<1>4. CASE Enter(r)
  BY <1>4, EnterKeepsGates
<1>5. CASE Join(r)
  BY <1>5, JoinKeepsGates
<1>6. CASE Wake(r)
  <2> DEFINE g == GateOf(r)
  <2>1. /\ AtGate(r) /\ r \in owners[g] /\ stage' = [stage EXCEPT ![r] = After[@]]
        /\ UNCHANGED <<target, owners, line>>
    BY <1>6 DEF Wake, Admitted, gates
  <2>2. stage[r] \in {"model", "tag", "worker"} /\ g \in Gates
    BY <2>1, AtGateIs, GateOfProper DEF GatesProper
  <2>3. ~InLine(r)
    BY <2>1, <2>2 DEF InLine, Contains, GatesProper, LineProper
  <2>4. /\ stage[r] = "model" => stage'[r] = "pick" /\ g = Model
        /\ stage[r] = "tag" => stage'[r] = "worker" /\ g = TagGate(target[r])
        /\ stage[r] = "worker" => stage'[r] = "acquire" /\ g = WorkerGate(target[r])
    BY <2>1, AtGateIs, GateOfIs DEF TypeOK
  <2>5. target[r] # None <=> stage[r] \in {"tag", "worker"}
    BY <2>2 DEF GatesProper, TargetProper, Trying
  <2>6. target'[r] # None <=> stage'[r] \in Trying
    BY <2>1, <2>2, <2>4, <2>5 DEF Trying
  <2>7. \A q \in Requests : q # r => stage'[q] = stage[q] /\ target'[q] = target[q]
    BY <2>1 DEF TypeOK
  <2>8. ASSUME NEW k \in Gates, r \in owners[k]
        PROVE  MayOwn(r, k)'
    <3>1. MayOwn(r, k)
      BY <2>8 DEF GatesProper, OwnersProper
    <3>2. QED
      BY <2>1, <2>2, <2>4, <2>5, <3>1 DEF MayOwn, Live, TagGate, WorkerGate
  <2>9. stage'[r] \in {"worker", "acquire", "upstream", "streaming"}
          /\ TagSlots[TagOf[target'[r]]] > 0 => r \in owners[TagGate(target'[r])]
    BY <2>1, <2>2, <2>4 DEF GatesProper, SlotsHeld
  <2>10. stage'[r] \in {"acquire", "upstream", "streaming"}
           /\ WorkerSlots[TagOf[target'[r]]] > 0 => r \in owners[WorkerGate(target'[r])]
    BY <2>1, <2>2, <2>4
  <2>11. QED
    BY <2>1, <2>3, <2>6, <2>7, <2>8, <2>9, <2>10, SameSlotsKeepGates
<1>7. CASE TurnedAway(r)
  <2>1. CASE stage[r] = "model"
    BY <1>0, <1>7, <2>1, ReturnKeepsGates DEF TurnedAway, Trying
  <2>2. CASE stage[r] # "model"
    BY <1>7, <2>2, NextTryKeepsGates DEF TurnedAway
  <2>3. QED
    BY <2>1, <2>2
<1>8. CASE GiveUp(r)
  BY <1>8, GiveUpKeepsGates
<1>9. CASE Pick(r)
  <2>1. PICK w \in Best(Candidates(r)) :
          target' = [target EXCEPT ![r] = w] /\ stage' = [stage EXCEPT ![r] = "tag"]
    BY <1>9 DEF Pick
  <2>2. w \in Workers /\ w # None
    BY ProxyAssumption DEF Best, Candidates, Healthy, TypeOK
  <2>3. stage[r] = "pick" /\ UNCHANGED <<owners, line>>
    BY <1>9 DEF Pick, MayTry, gates
  <2>4. target'[r] = w /\ stage'[r] = "tag"
    BY <2>1 DEF TypeOK
  <2>5. \A k \in Gates : r \in owners[k] => k = Model
    BY <1>0, <2>3, OwnsOnly DEF Trying
  <2>6. \A k \in Gates : r \in owners[k] => MayOwn(r, k)'
    BY <2>4, <2>5 DEF MayOwn, Live
  <2>7. \A q \in Requests : q # r => stage'[q] = stage[q] /\ target'[q] = target[q]
    BY <2>1 DEF TypeOK
  <2>8. target'[r] # None <=> stage'[r] \in Trying
    BY <2>2, <2>4 DEF Trying
  <2>9. ~InLine(r)
    BY <1>1, <2>3
  <2>10. QED
    BY <2>3, <2>4, <2>6, <2>7, <2>8, <2>9, SameSlotsKeepGates
<1>10. CASE Exhausted(r)
  BY <1>0, <1>1, <1>10, ReturnKeepsGates DEF Exhausted, Trying
<1>11. CASE Abandon(r)
  BY <1>0, <1>1, <1>11, ReturnKeepsGates DEF Abandon, Trying
<1>12. CASE Acquire(r)
  <2>1. stage[r] = "acquire" /\ stage' = [stage EXCEPT ![r] = "upstream"]
    BY <1>12 DEF Acquire
  <2>2. UNCHANGED <<target, owners, line>>
    BY <1>12 DEF Acquire, gates
  <2>3. stage'[r] = "upstream"
    BY <2>1 DEF TypeOK
  <2>4. \A q \in Requests : q # r => stage'[q] = stage[q] /\ target'[q] = target[q]
    BY <2>1, <2>2 DEF TypeOK
  <2>5. ASSUME NEW k \in Gates, r \in owners[k]
        PROVE  MayOwn(r, k)'
    <3>1. MayOwn(r, k)
      BY <2>5 DEF GatesProper, OwnersProper
    <3>2. QED
      BY <2>1, <2>2, <2>3, <3>1 DEF MayOwn, Live, TagGate, WorkerGate
  <2>6. target'[r] # None <=> stage'[r] \in Trying
    BY <2>1, <2>2, <2>3 DEF GatesProper, TargetProper, Trying
  <2>7. /\ TagSlots[TagOf[target[r]]] > 0 => r \in owners[TagGate(target[r])]
        /\ WorkerSlots[TagOf[target[r]]] > 0 => r \in owners[WorkerGate(target[r])]
    BY <2>1 DEF GatesProper, SlotsHeld
  <2>8. ~InLine(r)
    BY <1>1, <2>1
  <2>9. QED
    BY <2>2, <2>4, <2>5, <2>6, <2>7, <2>8, SameSlotsKeepGates
<1>13. CASE Refused(r)
  BY <1>1, <1>13, NextTryKeepsGates DEF Refused
<1>14. QED
  BY <1>2, <1>3, <1>4, <1>5, <1>6, <1>7, <1>8, <1>9, <1>10, <1>11, <1>12, <1>13 DEF Handle

\* Nor does a step of an attempt.
LEMMA GatesAttempt ==
  ASSUME TypeOK, GatesProper, NEW r \in Requests, Attempt(r)
  PROVE  GatesProper'
<1>1. stage[r] \in {"upstream", "streaming"}
  BY DEF Attempt, Unreachable, Canceled, Rejected, Unreadable, Respond, Finish
<1>2. ~InLine(r)
  BY <1>1, AtGateIs DEF InLine
<1>3. CASE Unreachable(r) \/ Rejected(r)
  BY <1>2, <1>3, NextTryKeepsGates DEF Unreachable, Rejected, Retry
<1>4. CASE Canceled(r) \/ Unreadable(r) \/ Finish(r)
  <2>1. Return(r, AttemptGates(target[r]))
    BY <1>4 DEF Canceled, Unreadable, Finish
  <2>2. QED
    BY <1>2, <2>1, AttemptGatesTyped, ReturnKeepsGates
<1>5. ASSUME NEW code, Respond(r, code)
      PROVE  GatesProper'
  <2>1. stage[r] = "upstream" /\ stage' = [stage EXCEPT ![r] = "streaming"]
    BY <1>5 DEF Respond
  <2>2. UNCHANGED <<target, owners, line>>
    BY <1>5 DEF Respond, gates
  <2>3. stage'[r] = "streaming"
    BY <2>1 DEF TypeOK
  <2>4. \A q \in Requests : q # r => stage'[q] = stage[q] /\ target'[q] = target[q]
    BY <2>1, <2>2 DEF TypeOK
  <2>5. ASSUME NEW k \in Gates, r \in owners[k]
        PROVE  MayOwn(r, k)'
    <3>1. MayOwn(r, k)
      BY <2>5 DEF GatesProper, OwnersProper
    <3>2. QED
      BY <2>1, <2>2, <2>3, <3>1 DEF MayOwn, Live, TagGate, WorkerGate
  <2>6. target'[r] # None <=> stage'[r] \in Trying
    BY <2>1, <2>2, <2>3 DEF GatesProper, TargetProper, Trying
  <2>7. /\ TagSlots[TagOf[target[r]]] > 0 => r \in owners[TagGate(target[r])]
        /\ WorkerSlots[TagOf[target[r]]] > 0 => r \in owners[WorkerGate(target[r])]
    BY <2>1 DEF GatesProper, SlotsHeld
  <2>8. QED
    BY <1>2, <2>2, <2>4, <2>5, <2>6, <2>7, SameSlotsKeepGates
<1>6. QED
  BY <1>3, <1>4, <1>5 DEF Attempt

(***************************************************************************)
(* The counts.                                                             *)
(***************************************************************************)

\* A step of a handler that is on no replica before or after it, or on the same
\* one, and leaves the accounts alone.
LEMMA CountsAlone ==
  ASSUME CountsProper, NEW r,
         \/ /\ stage[r] \notin {"upstream", "streaming"}
            /\ stage'[r] \notin {"upstream", "streaming"}
         \/ /\ stage[r] \in {"upstream", "streaming"}
            /\ stage'[r] \in {"upstream", "streaming"}
            /\ target'[r] = target[r],
         \A q \in Requests : q # r => stage'[q] = stage[q] /\ target'[q] = target[q],
         UNCHANGED accounts
  PROVE  CountsProper'
<1>1. \A w \in Workers : OnReplica(w)' = OnReplica(w)
  BY DEF OnReplica
<1>2. UNCHANGED <<active, forgotten, books, records>>
  BY DEF accounts
<1>3. ASSUME NEW w \in Workers
      PROVE  CountProper(w)'
  <2>1. Cardinality(OnReplica(w))' = Cardinality(OnReplica(w))
    BY <1>1
  <2>2. QED
    BY <1>2, <2>1 DEF CountsProper, CountProper
<1>4. ASSUME NEW q \in Requests, stage'[q] \in {"upstream", "streaming"}
      PROVE  <<q, target'[q]>> \in records'
  BY <1>2, <1>4 DEF CountsProper
<1>5. QED
  BY <1>3, <1>4 DEF CountsProper

\* Pruning moves no request; the counts it drops are those of workers that are
\* then forgotten, or had none.
LEMMA PruneKeepsCounts ==
  ASSUME TypeOK, GatesProper, CountsProper, NEW P, PruneOffline(P),
         \A w \in Workers : OnReplica(w)' = OnReplica(w),
         \A q \in Requests : stage'[q] \in {"upstream", "streaming"} =>
           stage[q] \in {"upstream", "streaming"} /\ target'[q] = target[q]
  PROVE  CountsProper'
<1>1. ASSUME NEW w \in Workers
      PROVE  CountProper(w)'
  <2>1. /\ active'[w] = IF w \in P THEN 0 ELSE active[w]
        /\ w \notin forgotten' => w \notin forgotten /\ (w \in P => OnReplica(w) = {})
        /\ books' = books
    BY DEF PruneOffline
  <2>2. CountProper(w)
    BY DEF CountsProper
  <2>3. Cardinality(OnReplica(w)) \in Nat /\ Cardinality({}) = 0
    BY FinitelyMany, FS_CardinalityType, FS_EmptySet
  <2>4. Cardinality(OnReplica(w))' = Cardinality(OnReplica(w))
    OBVIOUS
  <2>5. QED
    BY <2>1, <2>2, <2>3, <2>4 DEF CountProper
<1>2. records' = records
  BY DEF PruneOffline
<1>3. QED
  BY <1>1, <1>2 DEF CountsProper

\* Being admitted counts once more, settling once less, on that replica only.
LEMMA AcquireKeepsCounts ==
  ASSUME TypeOK, GatesProper, CountsProper, NEW r \in Requests, Acquire(r)
  PROVE  CountsProper'
<1>1. PICK w \in Workers :
      /\ w = target[r]
      /\ stage[r] = "acquire" /\ stage' = [stage EXCEPT ![r] = "upstream"] /\ target' = target
      /\ active' = [active EXCEPT ![w] = @ + 1]
      /\ books' = [books EXCEPT ![w] = @ + 1]
      /\ forgotten' = forgotten
      /\ records' = records \cup {<<r, w>>}
  BY DEF Acquire, Healthy, TypeOK
<1>2. /\ OnReplica(w)' = OnReplica(w) \cup {r}
      /\ r \notin OnReplica(w)
      /\ \A v \in Workers : v # w => OnReplica(v)' = OnReplica(v)
  BY <1>1 DEF OnReplica, TypeOK
<1>3. Cardinality(OnReplica(w) \cup {r}) = Cardinality(OnReplica(w)) + 1
  BY <1>1, <1>2, FinitelyMany, FS_AddElement
<1>4. /\ active'[w] = active[w] + 1 /\ books'[w] = books[w] + 1
      /\ \A v \in Workers : v # w => active'[v] = active[v] /\ books'[v] = books[v]
  BY <1>1 DEF TypeOK
<1>5. ASSUME NEW v \in Workers
      PROVE  CountProper(v)'
  <2>0. CountProper(v)
    BY DEF CountsProper
  <2>1. CASE v = w
    <3>1. active[w] \in Nat /\ Cardinality(OnReplica(w)) \in Nat
      BY <1>1, FinitelyMany, FS_CardinalityType DEF TypeOK
    <3>2. Cardinality(OnReplica(w))' = Cardinality(OnReplica(w)) + 1
      BY <1>2, <1>3
    <3>3. QED
      BY <1>1, <1>4, <2>0, <2>1, <3>1, <3>2 DEF CountProper
  <2>2. CASE v # w
    <3>1. Cardinality(OnReplica(v))' = Cardinality(OnReplica(v))
      BY <1>2, <2>2
    <3>2. QED
      BY <1>1, <1>4, <2>0, <2>2, <3>1 DEF CountProper
  <2>3. QED
    BY <2>1, <2>2
<1>6. ASSUME NEW q \in Requests, stage'[q] \in {"upstream", "streaming"}
      PROVE  <<q, target'[q]>> \in records'
  BY <1>1, <1>6 DEF CountsProper, TypeOK
<1>7. QED
  BY <1>5, <1>6 DEF CountsProper

LEMMA SettleKeepsCounts ==
  ASSUME TypeOK, GatesProper, CountsProper, NEW r \in Requests,
         stage[r] \in {"upstream", "streaming"}, stage'[r] \notin {"upstream", "streaming"},
         \A q \in Requests : q # r => stage'[q] = stage[q] /\ target'[q] = target[q],
         Settle(r)
  PROVE  CountsProper'
<1>1. PICK w \in Workers : w = target[r]
  BY DEF TypeOK, GatesProper, TargetProper, Trying
<1>2. <<r, w>> \in records
  BY <1>1 DEF CountsProper
<1>3. /\ OnReplica(w)' = OnReplica(w) \ {r}
      /\ r \in OnReplica(w)
      /\ \A v \in Workers : v # w => OnReplica(v)' = OnReplica(v)
  BY <1>1 DEF OnReplica
<1>4. /\ Cardinality(OnReplica(w)) \in Nat \ {0}
      /\ Cardinality(OnReplica(w) \ {r}) = Cardinality(OnReplica(w)) - 1
  <2>1. IsFiniteSet(OnReplica(w)) /\ OnReplica(w) # {}
    BY <1>1, <1>3, FinitelyMany
  <2>2. QED
    BY <1>3, <2>1, FS_CardinalityType, FS_EmptySet, FS_RemoveElement
<1>5. CountProper(w) /\ active[w] \in Nat
  BY <1>1 DEF CountsProper, TypeOK
<1>6. /\ active' = [active EXCEPT ![w] = IF @ <= 1 THEN 0 ELSE @ - 1]
      /\ books' = [books EXCEPT ![w] = IF @ > 0 THEN @ - 1 ELSE @]
      /\ forgotten' = IF OnReplica(w) = {r} THEN forgotten \ {w} ELSE forgotten
      /\ records' = records \ {<<r, w>>}
  BY <1>1, <1>2 DEF Settle
<1>7. /\ active'[w] = IF active[w] <= 1 THEN 0 ELSE active[w] - 1
      /\ books'[w] = books[w] - 1
      /\ \A v \in Workers : v # w => active'[v] = active[v] /\ books'[v] = books[v]
  BY <1>1, <1>4, <1>5, <1>6 DEF CountProper, TypeOK
<1>8. ASSUME NEW v \in Workers
      PROVE  CountProper(v)'
  <2>1. CASE v = w
    <3>1. Cardinality(OnReplica(w))' = Cardinality(OnReplica(w)) - 1
      BY <1>3, <1>4
    <3>2. w \notin forgotten' => w \notin forgotten \/ Cardinality(OnReplica(w)) = 1
      <4>1. OnReplica(w) = {r} => Cardinality(OnReplica(w)) = 1
        BY FS_Singleton
      <4>2. QED
        BY <1>6, <4>1
    <3>3. QED
      BY <1>4, <1>5, <1>7, <2>1, <3>1, <3>2 DEF CountProper
  <2>2. CASE v # w
    <3>1. CountProper(v)
      BY DEF CountsProper
    <3>2. Cardinality(OnReplica(v))' = Cardinality(OnReplica(v))
      BY <1>3, <2>2
    <3>3. v \notin forgotten' => v \notin forgotten
      BY <1>6, <2>2
    <3>4. QED
      BY <1>7, <2>2, <3>1, <3>2, <3>3 DEF CountProper
  <2>3. QED
    BY <2>1, <2>2
<1>9. ASSUME NEW q \in Requests, stage'[q] \in {"upstream", "streaming"}
      PROVE  <<q, target'[q]>> \in records'
  <2>1. q # r
    BY <1>9
  <2>2. <<q, target[q]>> \in records
    BY <1>9, <2>1 DEF CountsProper
  <2>3. QED
    BY <1>6, <2>1, <2>2
<1>10. QED
  BY <1>8, <1>9 DEF CountsProper

\* A handler's step leaves the other handlers' stages and replicas alone.
LEMMA OthersStay ==
  ASSUME TypeOK, NEW r \in Requests, Handle(r) \/ Attempt(r) \/ Leave(r)
  PROVE  \A q \in Requests : q # r => stage'[q] = stage[q] /\ target'[q] = target[q]
<1>1. CASE Handle(r)
  BY <1>1 DEF TypeOK, Handle, Receive, Decline, Enter, Join, Wake, TurnedAway, GiveUp, Pick,
     Exhausted, Abandon, Acquire, Refused, Return, handler
<1>2. CASE Attempt(r)
  BY <1>2 DEF TypeOK, Attempt, Unreachable, Canceled, Rejected, Unreadable, Respond, Finish,
     Return, Retry
<1>3. CASE Leave(r)
  BY <1>3 DEF Leave, handler
<1>4. QED
  BY <1>1, <1>2, <1>3

\* No step of a handler breaks the counts.
LEMMA CountsStep ==
  ASSUME TypeOK, GatesProper, CountsProper, NEW r \in Requests, Handle(r) \/ Attempt(r)
  PROVE  CountsProper'
<1>0. \A q \in Requests : q # r => stage'[q] = stage[q] /\ target'[q] = target[q]
  BY OthersStay
<1>1. CASE Acquire(r)
  BY <1>1, AcquireKeepsCounts
<1>2. CASE Handle(r) /\ ~Acquire(r) /\ ~Pick(r) /\ ~Exhausted(r)
  <2>1. UNCHANGED accounts
    BY <1>2 DEF Handle, Receive, Decline, Enter, Join, Wake, TurnedAway, GiveUp, Abandon, Refused
  <2>2. CASE Enter(r) \/ Wake(r)
    <3>1. stage[r] \in {"model", "tag", "worker"}
      BY <2>2, AtGateIs DEF Enter, Wake, Admitted
    <3>2. stage'[r] \in {"pick", "worker", "acquire"}
      BY <2>2, <3>1, AtGateIs DEF Enter, Wake, TypeOK
    <3>3. QED
      BY <1>0, <2>1, <3>1, <3>2, CountsAlone
  <2>3. CASE Join(r)
    BY <1>0, <2>1, <2>3, CountsAlone DEF Join, handler
  <2>4. CASE TurnedAway(r) \/ GiveUp(r)
    <3>1. stage[r] \in {"model", "tag", "worker"}
      BY <2>4, AtGateIs DEF TurnedAway, GiveUp, InLine
    <3>2. stage'[r] \in {"pick", "done"}
      BY <2>4 DEF TurnedAway, GiveUp, Return, TypeOK
    <3>3. QED
      BY <1>0, <2>1, <3>1, <3>2, CountsAlone
  <2>5. CASE Receive(r) \/ Decline(r) \/ Abandon(r) \/ Refused(r)
    <3>1. stage[r] \in {"new", "pick", "acquire"}
      BY <2>5 DEF Receive, Decline, Abandon, Refused
    <3>2. stage'[r] \in {"model", "done", "pick"}
      BY <2>5 DEF Receive, Decline, Abandon, Refused, Return, TypeOK
    <3>3. QED
      BY <1>0, <2>1, <3>1, <3>2, CountsAlone
  <2>6. QED
    BY <1>2, <2>2, <2>3, <2>4, <2>5 DEF Handle
<1>3. ASSUME NEW code, Respond(r, code)
      PROVE  CountsProper'
  BY <1>0, <1>3, CountsAlone DEF Respond, TypeOK
<1>4. CASE Unreachable(r) \/ Canceled(r) \/ Rejected(r) \/ Unreadable(r) \/ Finish(r)
  <2>1. stage[r] \in {"upstream", "streaming"} /\ Settle(r)
    BY <1>4 DEF Unreachable, Canceled, Rejected, Unreadable, Finish, Retry
  <2>2. stage'[r] \in {"pick", "done"}
    BY <1>4 DEF Unreachable, Canceled, Rejected, Unreadable, Finish, Retry, Return, TypeOK
  <2>3. QED
    BY <1>0, <2>1, <2>2, SettleKeepsCounts
<1>5. CASE Pick(r) \/ Exhausted(r)
  <2>1. stage[r] = "pick" /\ stage'[r] \in {"tag", "done"}
    BY <1>5 DEF Pick, MayTry, Exhausted, Return, TypeOK
  <2>2. PICK P : PruneOffline(P)
    BY <1>5 DEF Pick, Exhausted
  <2>3. \A w \in Workers : OnReplica(w)' = OnReplica(w)
    BY <1>0, <2>1 DEF OnReplica
  <2>4. QED
    BY <1>0, <2>1, <2>2, <2>3, PruneKeepsCounts
<1>6. QED
  BY <1>1, <1>2, <1>3, <1>4, <1>5 DEF Handle, Attempt

(***************************************************************************)
(* The attempts.                                                           *)
(***************************************************************************)

\* One more replica was sent the body.
LEMMA SentProperties ==
  ASSUME NEW s \in Seq(Workers), NEW w \in Workers
  PROVE  /\ Len(Append(s, w)) = Len(s) + 1 /\ Len(s) \in Nat
         /\ Last(Append(s, w)) = w
         /\ ToSet(Append(s, w)) = ToSet(s) \cup {w}
<1>1. /\ Len(Append(s, w)) = Len(s) + 1 /\ Len(s) \in Nat
      /\ \A i \in 1..Len(s) : Append(s, w)[i] = s[i]
      /\ Append(s, w)[Len(s) + 1] = w
      /\ DOMAIN Append(s, w) = 1..(Len(s) + 1) /\ DOMAIN s = 1..Len(s)
  BY AppendProperties
<1>2. 1..(Len(s) + 1) = 1..Len(s) \cup {Len(s) + 1}
  BY <1>1
<1>3. QED
  BY <1>1, <1>2 DEF Last, ToSet

\* What a handler remembers is its own.
LEMMA OthersRemember ==
  ASSUME TypeOK, NEW r \in Requests, Handle(r) \/ Attempt(r), NEW q \in Requests, q # r
  PROVE  exclude'[q] = exclude[q] /\ sent'[q] = sent[q] /\ answer'[q] = answer[q]
<1>1. CASE Handle(r)
  BY <1>1 DEF TypeOK, Handle, Receive, Decline, Enter, Join, Wake, TurnedAway, GiveUp, Pick,
     Exhausted, Abandon, Acquire, Refused, Return, LocalsGo, Tell, handler
<1>2. CASE Attempt(r)
  BY <1>2 DEF TypeOK, Attempt, Unreachable, Canceled, Rejected, Unreadable, Respond, Finish,
     Return, Retry, LocalsGo, Tell
<1>3. QED
  BY <1>1, <1>2

\* A handler that returned remembers nothing.
LEMMA ReturnForgets ==
  ASSUME TypeOK, NEW r \in Requests, NEW K, Return(r, K) \/ GiveUp(r)
  PROVE  stage'[r] = "done" /\ exclude'[r] = {} /\ sent'[r] = <<>>
  BY DEF Return, GiveUp, LocalsGo, TypeOK

\* The part of the invariant about one handler's attempts.
AttemptProper(r) ==
  /\ ToSet(sent[r]) \subseteq exclude[r]
  /\ stage[r] \in {"tag", "worker", "acquire"} =>
       target[r] \in exclude[r] \ ToSet(sent[r]) /\ Len(sent[r]) < Attempts
  /\ stage[r] \notin {"streaming", "done"} => answer[r] = None

\* A handler's step keeps it for that handler.
LEMMA AttemptStep ==
  ASSUME TypeOK, GatesProper, NEW r \in Requests, AttemptProper(r), Handle(r) \/ Attempt(r)
  PROVE  AttemptProper(r)'
<1>0. ToSet(<<>>) = {}
  BY DEF ToSet
<1>1. ASSUME stage'[r] = "done" /\ exclude'[r] = {} /\ sent'[r] = <<>>
      PROVE  AttemptProper(r)'
  BY <1>0, <1>1 DEF AttemptProper
<1>2. ASSUME UNCHANGED <<exclude, sent, answer>>, stage[r] \notin {"streaming", "done"},
             \/ stage'[r] \in {"model", "pick", "upstream"}
             \/ /\ stage'[r] \in {"tag", "worker", "acquire"}
                /\ stage[r] \in {"tag", "worker", "acquire"} /\ target' = target
             \/ stage' = stage /\ target' = target
      PROVE  AttemptProper(r)'
  BY <1>2 DEF AttemptProper
<1>3. CASE Receive(r) \/ Refused(r) \/ Unreachable(r) \/ Rejected(r)
  BY <1>2, <1>3 DEF Receive, Refused, Unreachable, Rejected, Retry, TypeOK
<1>4. CASE Enter(r) \/ Wake(r)
  <2>1. stage[r] \in {"model", "tag", "worker"}
    BY <1>4, AtGateIs DEF Enter, Wake, Admitted
  <2>2. stage'[r] = After[stage[r]] /\ target' = target /\ UNCHANGED <<exclude, sent, answer>>
    BY <1>4 DEF Enter, Wake, TypeOK
  <2>3. QED
    BY <1>2, <2>1, <2>2, AtGateIs
<1>5. CASE Join(r)
  <2>1. stage[r] \in {"model", "tag", "worker"}
    BY <1>5, AtGateIs DEF Join
  <2>2. QED
    BY <1>2, <1>5, <2>1 DEF Join, handler
<1>6. CASE TurnedAway(r)
  <2>1. CASE stage[r] = "model"
    BY <1>1, <1>6, <2>1, ReturnForgets DEF TurnedAway
  <2>2. CASE stage[r] # "model"
    <3>1. stage[r] \in {"tag", "worker"}
      BY <1>6, <2>2, AtGateIs DEF TurnedAway
    <3>2. stage'[r] = "pick" /\ UNCHANGED <<exclude, sent, answer>>
      BY <1>6, <2>2 DEF TurnedAway, TypeOK
    <3>3. QED
      BY <1>2, <3>1, <3>2
  <2>3. QED
    BY <2>1, <2>2
<1>7. CASE Decline(r) \/ GiveUp(r) \/ Exhausted(r) \/ Abandon(r) \/ Canceled(r)
           \/ Unreadable(r) \/ Finish(r)
  <2>1. GiveUp(r) \/ \E K : Return(r, K)
    BY <1>7 DEF Decline, Exhausted, Abandon, Canceled, Unreadable, Finish
  <2>2. QED
    BY <1>1, <2>1, ReturnForgets
<1>8. CASE Pick(r)
  <2>1. PICK w \in Best(Candidates(r)) :
          /\ target' = [target EXCEPT ![r] = w]
          /\ exclude' = [exclude EXCEPT ![r] = @ \cup {w}]
          /\ stage' = [stage EXCEPT ![r] = "tag"]
    BY <1>8 DEF Pick
  <2>2. w \notin exclude[r]
    BY DEF Best, Candidates
  <2>3. stage[r] = "pick" /\ Len(sent[r]) < Attempts /\ UNCHANGED <<sent, answer>>
    BY <1>8 DEF Pick, MayTry
  <2>4. target'[r] = w /\ exclude'[r] = exclude[r] \cup {w} /\ stage'[r] = "tag"
    BY <2>1 DEF TypeOK
  <2>5. QED
    BY <2>2, <2>3, <2>4 DEF AttemptProper
<1>9. CASE Acquire(r)
  <2>1. /\ stage[r] = "acquire" /\ stage' = [stage EXCEPT ![r] = "upstream"]
        /\ sent' = [sent EXCEPT ![r] = Append(@, target[r])]
        /\ UNCHANGED <<target, exclude, answer>>
        /\ target[r] \in Workers
    BY <1>9 DEF Acquire, Healthy, TypeOK
  <2>2. stage'[r] = "upstream" /\ sent'[r] = Append(sent[r], target[r])
    BY <2>1 DEF TypeOK
  <2>3. ToSet(sent'[r]) = ToSet(sent[r]) \cup {target[r]}
    BY <2>1, <2>2, SentProperties DEF TypeOK
  <2>4. QED
    BY <2>1, <2>2, <2>3 DEF AttemptProper
<1>10. ASSUME NEW code, Respond(r, code)
       PROVE  AttemptProper(r)'
  BY <1>10 DEF Respond, AttemptProper, TypeOK
<1>11. QED
  BY <1>3, <1>4, <1>5, <1>6, <1>7, <1>8, <1>9, <1>10 DEF Handle, Attempt

(***************************************************************************)
(* The theorems.                                                           *)
(***************************************************************************)

\* A gateway without requests satisfies the inductive invariant.
LEMMA InductiveInit == Init => InductiveInv
<1> SUFFICES ASSUME Init PROVE InductiveInv
  OBVIOUS
<1>1. Came = {} /\ \A w \in Workers : OnReplica(w) = {}
  BY DEF Init, Came, OnReplica
<1>2. \A k \in Gates : owners[k] = {} /\ line[k] = <<>>
  BY DEF Init
<1>3. GatesProper
  <2>1. TargetProper /\ SlotsHeld
    BY DEF Init, TargetProper, SlotsHeld, Trying
  <2>2. OwnersProper /\ LineProper
    BY <1>2 DEF OwnersProper, LineProper
  <2>3. GatesBounded
    <3>1. ASSUME NEW k \in Gates, NEW n \in Nat PROVE Cardinality(owners[k]) <= n
      <4>1. owners[k] = {}
        BY <1>2
      <4>2. Cardinality({}) = 0
        BY FS_EmptySet
      <4>3. QED
        BY <4>1, <4>2
    <3>2. (\A t \in Tags : TagSlots[t] \in Nat) /\ \A w \in Workers : WorkerSlots[TagOf[w]] \in Nat
      BY ProxyAssumption
    <3>3. QED
      BY <3>1, <3>2, GatesDiffer DEF GatesBounded
  <2>4. QED
    BY <1>1, <2>1, <2>2, <2>3, FS_EmptySet DEF GatesProper
<1>4. CountsProper
  <2>1. ASSUME NEW w \in Workers PROVE CountProper(w)
    <3>1. Cardinality(OnReplica(w)) = 0
      BY <1>1, FS_EmptySet
    <3>2. QED
      BY <3>1 DEF Init, CountProper
  <2>2. QED
    BY <2>1 DEF Init, CountsProper
<1>5. AttemptsProper
  BY DEF Init, AttemptsProper, ToSet
<1>6. QED
  BY <1>3, <1>4, <1>5, TypeInit DEF InductiveInv

\* Every step of the gateway preserves it.
LEMMA InvariantStep ==
  ASSUME InductiveInv, [Next]_vars
  PROVE  InductiveInv'
<1> USE DEF InductiveInv
<1>1. ASSUME NEW r \in Requests, Handle(r) \/ Attempt(r)
      PROVE  InductiveInv'
  <2>1. TypeOK'
    BY <1>1, TypeHandle, TypeAttempt DEF GatesProper
  <2>2. GatesProper'
    BY <1>1, GatesHandle, GatesAttempt
  <2>3. CountsProper'
    BY <1>1, CountsStep
  <2>4. AttemptsProper'
    <3>1. ASSUME NEW q \in Requests PROVE AttemptProper(q)'
      <4>1. AttemptProper(q)
        BY DEF AttemptsProper, AttemptProper
      <4>2. CASE q = r
        BY <1>1, <4>1, <4>2, AttemptStep
      <4>3. CASE q # r
        BY <1>1, <4>1, <4>3, OthersStay, OthersRemember DEF AttemptProper
      <4>4. QED
        BY <4>2, <4>3
    <3>2. QED
      BY <3>1 DEF AttemptsProper, AttemptProper
  <2>5. QED
    BY <2>1, <2>2, <2>3, <2>4
<1>2. CASE \/ \E r \in Requests : Leave(r)
           \/ \E w \in Workers : Change(w) \/ Register(w) \/ BackoffEnds(w) \/ ClearCooldown(w)
           \/ \E P \in SUBSET Workers : Snapshot(P)
           \/ Tick
           \/ UNCHANGED vars
  <2>1. UNCHANGED <<handler, answer, gates>>
    BY <1>2 DEF Leave, Change, Register, BackoffEnds, ClearCooldown, Snapshot, Tick, vars
  <2>2. TypeOK'
    BY <1>2, TypeSurroundings
  <2>3. GatesProper'
    BY <2>1, GatesAlone DEF handler, gates
  <2>4. CountsProper'
    <3>1. /\ UNCHANGED <<stage, target>>
          /\ \A w \in Workers : OnReplica(w)' = OnReplica(w)
      BY <2>1 DEF handler, OnReplica
    <3>2. ASSUME NEW P, Snapshot(P)
          PROVE  CountsProper'
      BY <3>1, <3>2, PruneKeepsCounts DEF Snapshot
    <3>3. ASSUME UNCHANGED accounts
          PROVE  CountsProper'
      <4>1. \A w \in Workers : CountProper(w)'
        BY <3>1, <3>3 DEF CountsProper, CountProper, accounts
      <4>2. QED
        BY <3>1, <3>3, <4>1 DEF CountsProper, accounts
    <3>4. UNCHANGED accounts \/ \E P : Snapshot(P)
      BY <1>2 DEF Leave, Change, Register, BackoffEnds, ClearCooldown, Tick, vars
    <3>5. QED
      BY <3>2, <3>3, <3>4
  <2>5. AttemptsProper'
    BY <2>1 DEF handler, AttemptsProper
  <2>6. QED
    BY <2>2, <2>3, <2>4, <2>5
<1>3. QED
  BY <1>1, <1>2 DEF Next

\* The inductive invariant holds of every state of the gateway's handlers:
\* lines and slots, counts and what a handler remembers fit together.
THEOREM Invariance == Spec => []InductiveInv
<1>1. InductiveInv /\ [Next]_vars => InductiveInv'
  BY InvariantStep
<1>2. QED
  BY InductiveInit, <1>1, PTL DEF Spec

\* Every variable of the gateway's handlers keeps its type.
THEOREM TypeCorrect == Spec => []TypeOK
<1>1. InductiveInv => TypeOK
  BY DEF InductiveInv
<1>2. QED
  BY Invariance, <1>1, PTL

\* The invariant says that nothing leaks.
LEMMA InvariantMeansNoLeaks ==
  ASSUME InductiveInv
  PROVE  NothingLeaks
<1> USE DEF InductiveInv
<1>1. ASSUME NEW k \in Gates
      PROVE  /\ \A r \in owners[k] : MayOwn(r, k)
             /\ \A i \in 1..Len(line[k]) : MayOwn(line[k][i], k) /\ line[k][i] \notin owners[k]
  <2>1. \A r \in owners[k] : MayOwn(r, k)
    BY DEF GatesProper, OwnersProper
  <2>2. ASSUME NEW i \in 1..Len(line[k])
        PROVE  MayOwn(line[k][i], k) /\ line[k][i] \notin owners[k]
    <3>1. line[k][i] \in Requests
      BY DEF TypeOK
    <3>2. AtGate(line[k][i]) /\ GateOf(line[k][i]) = k /\ line[k][i] \notin owners[k]
      BY DEF GatesProper, LineProper
    <3>3. QED
      BY <3>1, <3>2, GateOfProper DEF GatesProper
  <2>3. QED
    BY <2>1, <2>2
<1>2. ASSUME NEW w \in Workers
      PROVE  /\ active[w] <= Cardinality(OnReplica(w))
             /\ w \notin forgotten => active[w] = Cardinality(OnReplica(w))
             /\ books[w] = Cardinality(OnReplica(w))
             /\ WorkerSlots[TagOf[w]] > 0 => Cardinality(OnReplica(w)) <= WorkerSlots[TagOf[w]]
  <2>1. CountProper(w)
    BY DEF CountsProper
  <2>2. ASSUME WorkerSlots[TagOf[w]] > 0
        PROVE  Cardinality(OnReplica(w)) <= WorkerSlots[TagOf[w]]
    <3>1. OnReplica(w) \subseteq owners[WorkerGate(w)]
      BY <2>2 DEF OnReplica, GatesProper, SlotsHeld
    <3>2. IsFiniteSet(owners[WorkerGate(w)])
      BY FinitelyMany, GatesDiffer
    <3>3. /\ Cardinality(OnReplica(w)) <= Cardinality(owners[WorkerGate(w)])
          /\ Cardinality(OnReplica(w)) \in Nat /\ Cardinality(owners[WorkerGate(w)]) \in Nat
      BY <3>1, <3>2, FS_Subset, FS_CardinalityType
    <3>4. Cardinality(owners[WorkerGate(w)]) <= WorkerSlots[TagOf[w]]
      BY <2>2 DEF GatesProper, GatesBounded
    <3>5. WorkerSlots[TagOf[w]] \in Nat
      BY ProxyAssumption
    <3>6. QED
      BY <3>3, <3>4, <3>5
  <2>3. QED
    BY <2>1, <2>2 DEF CountProper
<1>3. ASSUME NEW t \in Tags, TagSlots[t] > 0
      PROVE  Cardinality(UNION {OnReplica(w) : w \in {v \in Workers : TagOf[v] = t}}) <= TagSlots[t]
  <2> DEFINE S == UNION {OnReplica(w) : w \in {v \in Workers : TagOf[v] = t}}
  <2>1. S \subseteq owners[<<"tag", t>>]
    <3>1. ASSUME NEW w \in Workers, TagOf[w] = t PROVE OnReplica(w) \subseteq owners[<<"tag", t>>]
      BY <1>3, <3>1 DEF OnReplica, GatesProper, SlotsHeld, TagGate
    <3>2. QED
      BY <3>1
  <2>2. IsFiniteSet(owners[<<"tag", t>>])
    BY FinitelyMany, GatesDiffer
  <2> HIDE DEF S
  <2>3. /\ Cardinality(S) <= Cardinality(owners[<<"tag", t>>])
        /\ Cardinality(S) \in Nat /\ Cardinality(owners[<<"tag", t>>]) \in Nat
    BY <2>1, <2>2, FS_Subset, FS_CardinalityType
  <2>4. Cardinality(owners[<<"tag", t>>]) <= TagSlots[t]
    BY <1>3 DEF GatesProper, GatesBounded
  <2>5. TagSlots[t] \in Nat
    BY ProxyAssumption
  <2>6. Cardinality(S) <= TagSlots[t]
    BY <2>3, <2>4, <2>5
  <2>7. QED
    BY <2>6 DEF S
<1>4. QED
  BY <1>1, <1>2, <1>3 DEF NothingLeaks

\* No path through a handler leaks a slot or a count, no replica or tag has more
\* requests than its max_concurrency, and only a worker that was pruned under its
\* requests (workers.go, pruneOfflineLocked) is believed less busy than it is.
THEOREM NoLeaks == Spec => []NothingLeaks
<1>1. InductiveInv => NothingLeaks
  BY InvariantMeansNoLeaks
<1>2. QED
  BY Invariance, <1>1, PTL

\* A body is sent to a healthy replica that has not had it, before any of the
\* answer is told and within gateway.proxy_attempts.
THEOREM SendsAreDue == Spec => EachSendIsDue
<1> DEFINE Due(r) == Len(sent'[r]) > Len(sent[r]) =>
                       /\ Last(sent'[r]) \in Healthy \ ToSet(sent[r])
                       /\ Len(sent'[r]) <= Attempts
                       /\ answer[r] = None
<1>1. ASSUME InductiveInv, [Next]_vars, NEW r \in Requests
      PROVE  Due(r)
  <2>0. sent[r] \in Seq(Workers) /\ Len(sent[r]) \in Nat /\ Len(<<>>) = 0
    BY <1>1 DEF InductiveInv, TypeOK
  <2>1. CASE sent'[r] = sent[r] \/ sent'[r] = <<>>
    BY <2>0, <2>1
  <2>2. CASE Acquire(r)
    <3>1. /\ stage[r] = "acquire" /\ target[r] \in Healthy /\ target[r] \in Workers
          /\ sent'[r] = Append(sent[r], target[r])
      BY <1>1, <2>2 DEF Acquire, Healthy, InductiveInv, TypeOK
    <3>2. /\ Len(sent'[r]) = Len(sent[r]) + 1
          /\ Last(sent'[r]) = target[r]
      BY <2>0, <3>1, SentProperties
    <3>3. target[r] \notin ToSet(sent[r]) /\ Len(sent[r]) < Attempts /\ answer[r] = None
      BY <1>1, <3>1 DEF InductiveInv, AttemptsProper
    <3>4. Attempts \in Nat
      BY ProxyAssumption
    <3>5. QED
      BY <2>0, <3>1, <3>2, <3>3, <3>4
  <2>3. ASSUME NEW q \in Requests, Handle(q) \/ Attempt(q), ~(q = r /\ Acquire(r))
        PROVE  sent'[r] = sent[r] \/ sent'[r] = <<>>
    <3>1. CASE q # r
      BY <1>1, <2>3, <3>1, OthersRemember DEF InductiveInv
    <3>2. CASE q = r
      BY <1>1, <2>3, <3>2
         DEF InductiveInv, TypeOK, Handle, Receive, Decline, Enter, Join, Wake, TurnedAway, GiveUp,
             Pick, Exhausted, Abandon, Refused, Attempt, Unreachable, Canceled, Rejected, Unreadable,
             Respond, Finish, Return, Retry, LocalsGo, handler
    <3>3. QED
      BY <3>1, <3>2
  <2>4. CASE \/ \E q \in Requests : Leave(q)
             \/ \E w \in Workers : Change(w) \/ Register(w) \/ BackoffEnds(w) \/ ClearCooldown(w)
             \/ \E P \in SUBSET Workers : Snapshot(P)
             \/ Tick
             \/ UNCHANGED vars
    <3>1. sent' = sent
      BY <2>4 DEF Leave, Change, Register, BackoffEnds, ClearCooldown, Snapshot, Tick, vars, handler
    <3>2. QED
      BY <2>1, <3>1
  <2>5. QED
    BY <1>1, <2>1, <2>2, <2>3, <2>4 DEF Next
<1>2. InductiveInv /\ [Next]_vars => \A r \in Requests : Due(r)
  BY <1>1
<1>3. QED
  BY Invariance, <1>2, PTL DEF Spec, EachSendIsDue

(***************************************************************************)
(* Every gate is a pool of slots.                                          *)
(***************************************************************************)

\* The owners and the line of one gate, as a pool of at most n slots.
Gate(k, n) == INSTANCE SlotPool WITH
  Keys <- {k}, Callers <- Requests, MaxSlots <- n,
  owners <- [g \in {k} |-> owners[g]], line <- [g \in {k} |-> line[g]]

\* No limit that a handler presents at the gate is above n.
Presented(k, n) == \A r \in Requests : AtGate(r) /\ GateOf(r) = k => LimitOf(r) \in 0 .. n

PoolStep(k, n) == [Gate(k, n)!Next]_(Gate(k, n)!vars)

\* A step that leaves a gate alone.
LEMMA PoolStays ==
  ASSUME NEW k \in Gates, NEW n, owners'[k] = owners[k], line'[k] = line[k]
  PROVE  PoolStep(k, n)
<1>1. /\ [g \in {k} |-> owners'[g]] = [g \in {k} |-> owners[g]]
      /\ [g \in {k} |-> line'[g]] = [g \in {k} |-> line[g]]
  OBVIOUS
<1>2. UNCHANGED Gate(k, n)!vars
  BY <1>1 DEF Gate!vars
<1> QED BY <1>2 DEF PoolStep

\* Slots that a handler gives back: the gate loses an owner, or the first in
\* line owns its slot at once, or nothing happens at this gate.
LEMMA PoolGivesBack ==
  ASSUME TypeOK, NEW k \in Gates, NEW n, NEW r \in Requests, NEW K,
         owners'[k] = OwnersWithout(r, K)[k], line'[k] = LineWithout(r, K)[k]
  PROVE  PoolStep(k, n)
<1>1. CASE k \notin K \/ r \notin owners[k]
  <2>1. owners'[k] = owners[k] /\ line'[k] = line[k]
    BY <1>1 DEF OwnersWithout, LineWithout
  <2> QED BY <2>1, PoolStays
<1>2. CASE k \in K /\ r \in owners[k] /\ line[k] = <<>>
  <2>1. owners'[k] = owners[k] \ {r} /\ line'[k] = line[k]
    BY <1>2 DEF OwnersWithout, LineWithout
  <2>2. Gate(k, n)!Leave(r, k)
    BY <1>2, <2>1 DEF Gate!Leave
  <2> QED BY <2>2 DEF PoolStep, Gate!Next
<1>3. CASE k \in K /\ r \in owners[k] /\ line[k] # <<>>
  <2>1. owners'[k] = (owners[k] \ {r}) \cup {Head(line[k])} /\ line'[k] = Tail(line[k])
    BY <1>3 DEF OwnersWithout, LineWithout
  <2>2. Gate(k, n)!HandOff(r, k)
    BY <1>3, <2>1 DEF Gate!HandOff
  <2> QED BY <2>2 DEF PoolStep, Gate!Next
<1> QED BY <1>1, <1>2, <1>3

\* A handler at a gate, neither in its line nor let in, is outside of it.
LEMMA PoolOutside ==
  ASSUME TypeOK, GatesProper, NEW n, NEW r \in Requests, AtGate(r), ~InLine(r), ~Admitted(r)
  PROVE  Gate(GateOf(r), n)!Outside(r) /\ r \notin owners[GateOf(r)]
<1> DEFINE g == GateOf(r)
<1>1. g \in Gates
  BY GateOfProper DEF GatesProper
<1>2. \A i \in 1 .. Len(line[g]) : line[g][i] # r
  BY <1>1, NotInLine DEF GatesProper
<1>3. r \notin owners[g]
  BY DEF Admitted
<1> HIDE DEF g
<1>4. Gate(g, n)!Outside(r)
  BY <1>2, <1>3 DEF Gate!Outside, Gate!InLine
<1> QED BY <1>3, <1>4 DEF g

\* Who passes a gate without a limit leaves it alone; with one, a slot is free.
LEMMA PoolEnters ==
  ASSUME TypeOK, GatesProper, NEW k \in Gates, NEW n \in Nat, Presented(k, n),
         NEW r \in Requests, Enter(r)
  PROVE  PoolStep(k, n)
<1>1. /\ AtGate(r) /\ ~InLine(r) /\ ~Admitted(r)
      /\ LimitOf(r) = 0 \/ Cardinality(owners[GateOf(r)]) < LimitOf(r)
      /\ owners' = IF LimitOf(r) = 0 THEN owners
                   ELSE [owners EXCEPT ![GateOf(r)] = @ \cup {r}]
      /\ line' = line
  BY DEF Enter
<1>2. GateOf(r) \in Gates
  BY <1>1, GateOfProper DEF GatesProper
<1>3. CASE LimitOf(r) = 0 \/ GateOf(r) # k
  <2>1. owners'[k] = owners[k] /\ line'[k] = line[k]
    BY <1>1, <1>2, <1>3 DEF TypeOK
  <2> QED BY <2>1, PoolStays
<1>4. CASE LimitOf(r) # 0 /\ GateOf(r) = k
  <2>1. owners'[k] = owners[k] \cup {r} /\ line'[k] = line[k]
    BY <1>1, <1>4 DEF TypeOK
  <2>2. Cardinality(owners[k]) < n
    <3>1. LimitOf(r) \in 0 .. n
      BY <1>1, <1>4 DEF Presented
    <3>2. Cardinality(owners[k]) \in Nat
      BY FinitelyMany, FS_CardinalityType
    <3>3. Cardinality(owners[k]) < LimitOf(r)
      BY <1>1, <1>4
    <3> QED BY <3>1, <3>2, <3>3
  <2>3. Gate(k, n)!Outside(r)
    BY <1>1, <1>4, PoolOutside
  <2>4. Gate(k, n)!Cardinality(owners[k]) = Cardinality(owners[k])
    BY DEF Gate!Cardinality, Cardinality
  <2>5. Gate(k, n)!Enter(r, k)
    BY <2>1, <2>2, <2>3, <2>4 DEF Gate!Enter
  <2> QED BY <2>5 DEF PoolStep, Gate!Next
<1> QED BY <1>3, <1>4

\* Who joins a line finds the slots taken, so somebody is there to let him in.
LEMMA PoolJoins ==
  ASSUME TypeOK, GatesProper, NEW k \in Gates, NEW n \in Nat, Presented(k, n),
         NEW r \in Requests, Join(r)
  PROVE  PoolStep(k, n)
<1>1. /\ AtGate(r) /\ ~InLine(r) /\ ~Admitted(r)
      /\ LimitOf(r) > 0 /\ Cardinality(owners[GateOf(r)]) >= LimitOf(r)
      /\ line' = [line EXCEPT ![GateOf(r)] = Append(@, r)]
      /\ owners' = owners
  BY DEF Join
<1>2. GateOf(r) \in Gates
  BY <1>1, GateOfProper DEF GatesProper
<1>3. CASE GateOf(r) # k
  <2>1. owners'[k] = owners[k] /\ line'[k] = line[k]
    BY <1>1, <1>2, <1>3 DEF TypeOK
  <2> QED BY <2>1, PoolStays
<1>4. CASE GateOf(r) = k
  <2>1. owners'[k] = owners[k] /\ line'[k] = Append(line[k], r)
    BY <1>1, <1>4 DEF TypeOK
  <2>2. owners[k] # {}
    <3>1. LimitOf(r) \in 0 .. n
      BY <1>1, <1>4 DEF Presented
    <3>2. Cardinality(owners[k]) \in Nat /\ (owners[k] = {} => Cardinality(owners[k]) = 0)
      BY FinitelyMany, FS_CardinalityType, FS_EmptySet
    <3>3. LimitOf(r) > 0 /\ Cardinality(owners[k]) >= LimitOf(r)
      BY <1>1, <1>4
    <3> QED BY <3>1, <3>2, <3>3
  <2>3. Gate(k, n)!Outside(r)
    BY <1>1, <1>4, PoolOutside
  <2>4. Gate(k, n)!Join(r, k)
    BY <2>1, <2>2, <2>3 DEF Gate!Join
  <2> QED BY <2>4 DEF PoolStep, Gate!Next
<1> QED BY <1>3, <1>4

\* Who gives up leaves the line of its own gate, where it owns no slot, and
\* gives back what it owns elsewhere.
LEMMA PoolGivesUp ==
  ASSUME TypeOK, GatesProper, NEW k \in Gates, NEW n, NEW r \in Requests, GiveUp(r)
  PROVE  PoolStep(k, n)
<1> DEFINE g == GateOf(r)
           K == {Model} \cup AttemptGates(target[r])
<1>1. AtGate(r) /\ owners' = OwnersWithout(r, K)
  BY DEF GiveUp, InLine
<1>2. PICK m \in 1 .. Len(line[g]) :
        /\ line[g][m] = r
        /\ line' = [LineWithout(r, K) EXCEPT ![g] = RemoveAt(line[g], m)]
  BY DEF GiveUp
<1>3. g \in Gates
  BY <1>1, GateOfProper DEF GatesProper
<1>4. r \notin owners[g]
  BY <1>2, <1>3 DEF GatesProper, LineProper
<1>5. /\ line'[g] = RemoveAt(line[g], m)
      /\ k # g => line'[k] = LineWithout(r, K)[k]
  BY <1>2, <1>3 DEF LineWithout
<1>6. CASE k # g
  BY <1>1, <1>5, <1>6, PoolGivesBack
<1>7. CASE k = g
  <2>1. owners'[k] = owners[k]
    BY <1>1, <1>4, <1>7 DEF OwnersWithout
  <2>2. /\ line[k] \in Seq(Requests) /\ m \in 1 .. Len(line[k]) /\ line[k][m] = r
        /\ line'[k] = RemoveAt(line[k], m)
    BY <1>2, <1>3, <1>5, <1>7 DEF TypeOK
  <2> HIDE DEF g, K
  <2>3. line'[k] = [j \in 1 .. (Len(line[k]) - 1) |->
                      IF j < m THEN line[k][j] ELSE line[k][j + 1]]
    <3> DEFINE s == line[k]
               cut == RemoveAt(s, m)
    <3>1. /\ cut \in Seq(Requests) /\ Len(cut) = Len(s) - 1
          /\ \A j \in 1 .. (Len(s) - 1) : cut[j] = IF j < m THEN s[j] ELSE s[j + 1]
      BY <2>2, RemoveAtProperties
    <3>2. line'[k] = cut
      BY <2>2
    <3> HIDE DEF s, cut
    <3>3. cut = [j \in 1 .. (Len(s) - 1) |-> IF j < m THEN s[j] ELSE s[j + 1]]
      BY <3>1
    <3> QED BY <3>2, <3>3 DEF s
  <2>4. line'[k] = Gate(k, n)!Without(line[k], m)
    BY <2>3 DEF Gate!Without
  <2>5. Gate(k, n)!GiveUp(r, k)
    BY <2>1, <2>2, <2>4 DEF Gate!GiveUp
  <2> QED BY <2>5 DEF PoolStep, Gate!Next
<1> QED BY <1>6, <1>7

\* What the steps of the handlers and of their surroundings do to gates.
LEMMA GateSteps ==
  ASSUME TypeOK, [Next]_vars
  PROVE  \/ owners' = owners /\ line' = line
         \/ \E r \in Requests : \/ \E K : GiveBack(r, K)
                                \/ Enter(r) \/ Join(r) \/ GiveUp(r)
<1>1. ASSUME NEW r \in Requests, Handle(r)
      PROVE  \/ owners' = owners /\ line' = line
             \/ \E K : GiveBack(r, K)
             \/ Enter(r) \/ Join(r) \/ GiveUp(r)
  <2>1. CASE Receive(r) \/ Wake(r) \/ Pick(r) \/ Acquire(r)
    BY <2>1 DEF Receive, Wake, Pick, Acquire, gates
  <2>2. CASE Decline(r) \/ Exhausted(r) \/ Abandon(r)
    BY <2>2 DEF Decline, Exhausted, Abandon, Return
  <2>3. CASE TurnedAway(r)
    BY <2>3 DEF TurnedAway, Return
  <2>4. CASE Refused(r)
    BY <2>4 DEF Refused
  <2> QED BY <1>1, <2>1, <2>2, <2>3, <2>4 DEF Handle
<1>2. ASSUME NEW r \in Requests, Attempt(r)
      PROVE  \/ owners' = owners /\ line' = line
             \/ \E K : GiveBack(r, K)
  <2>1. CASE Unreachable(r) \/ Rejected(r)
    BY <2>1 DEF Unreachable, Rejected, Retry
  <2>2. CASE Canceled(r) \/ Unreadable(r) \/ Finish(r)
    BY <2>2 DEF Canceled, Unreadable, Finish, Return
  <2>3. CASE Respond(r, "ok") \/ Respond(r, "server_error")
    BY <2>3 DEF Respond, gates
  <2> QED BY <1>2, <2>1, <2>2, <2>3 DEF Attempt
<1>3. ASSUME NEW r \in Requests, Leave(r) PROVE owners' = owners /\ line' = line
  BY <1>3 DEF Leave, gates
<1>4. ASSUME NEW w \in Workers, Change(w) \/ Register(w) \/ BackoffEnds(w) \/ ClearCooldown(w)
      PROVE  owners' = owners /\ line' = line
  BY <1>4 DEF Change, Register, BackoffEnds, ClearCooldown, gates
<1>5. ASSUME NEW P, Snapshot(P) PROVE owners' = owners /\ line' = line
  BY <1>5 DEF Snapshot, gates
<1>6. CASE Tick
  BY <1>6 DEF Tick, gates
<1>7. CASE UNCHANGED vars
  BY <1>7 DEF vars, gates
<1> QED BY <1>1, <1>2, <1>3, <1>4, <1>5, <1>6, <1>7 DEF Next

\* Each gate is what the limiter implements: whatever path a handler takes, and
\* whatever limits it presents up to n, slots of the gate change hands in single
\* steps, first come first served (proxy.go with limits.go).
THEOREM GatesArePools ==
  ASSUME NEW k \in Gates, NEW n \in Nat
  PROVE  Spec /\ []Presented(k, n) => Gate(k, n)!Spec
<1>1. Init => Gate(k, n)!Init
  BY DEF Init, Gate!Init
<1>2. InductiveInv /\ Presented(k, n) /\ [Next]_vars => PoolStep(k, n)
  <2> SUFFICES ASSUME TypeOK, GatesProper, Presented(k, n), [Next]_vars PROVE PoolStep(k, n)
    BY DEF InductiveInv
  <2>1. CASE owners' = owners /\ line' = line
    BY <2>1, PoolStays
  <2>2. ASSUME NEW r \in Requests, NEW K, GiveBack(r, K) PROVE PoolStep(k, n)
    <3>1. owners'[k] = OwnersWithout(r, K)[k] /\ line'[k] = LineWithout(r, K)[k]
      BY <2>2 DEF GiveBack
    <3> QED BY <3>1, PoolGivesBack
  <2>3. ASSUME NEW r \in Requests, Enter(r) \/ Join(r) \/ GiveUp(r) PROVE PoolStep(k, n)
    BY <2>3, PoolEnters, PoolJoins, PoolGivesUp
  <2> QED BY <2>1, <2>2, <2>3, GateSteps
<1> QED BY <1>1, <1>2, Invariance, PTL DEF Spec, Gate!Spec, PoolStep
=============================================================================
