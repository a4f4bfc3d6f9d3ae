----------------------- MODULE LoadedReconcilerProofs -----------------------
(***************************************************************************)
(* Theorems about the reconciler of loaded models (LoadedReconciler).      *)
(***************************************************************************)
EXTENDS LoadedReconciler, FiniteSetTheorems, TLAPS

(***************************************************************************)
(* Counting.                                                               *)
(***************************************************************************)

LEMMA MinOfTwo ==
  ASSUME NEW a \in Int, NEW b \in Int
  PROVE  Min({a, b}) \in {a, b} /\ Min({a, b}) <= a /\ Min({a, b}) <= b
<1>1. \E x \in {a, b} : \A y \in {a, b} : x =< y
  <2>1. CASE a <= b
    BY <2>1
  <2>2. CASE b <= a
    BY <2>2
  <2> QED BY <2>1, <2>2
<1> QED BY <1>1 DEF Min

\* Sets of workers are finite.
LEMMA Counted ==
  ASSUME NEW S \in SUBSET Workers
  PROVE  /\ IsFiniteSet(S)
         /\ Cardinality(S) \in Nat
         /\ \A T \in SUBSET S : Cardinality(T) <= Cardinality(S)
         /\ \A T \in SUBSET S : T # S => Cardinality(T) < Cardinality(S)
<1>1. IsFiniteSet(S)
  BY ReconcilerAssumption, FS_Subset DEF ReconcilerAssumption
<1> QED BY <1>1, FS_Subset, FS_CardinalityType

LEMMA OneLess ==
  ASSUME NEW S \in SUBSET Workers, NEW T, NEW w, S \ {w} \subseteq T, T \in SUBSET Workers
  PROVE  Cardinality(T) >= Cardinality(S) - 1
<1>1. Cardinality(S \ {w}) <= Cardinality(T)
  BY Counted
<1>2. Cardinality(S \ {w}) >= Cardinality(S) - 1
  BY Counted, FS_RemoveElement
<1>3. Cardinality(S) \in Nat /\ Cardinality(T) \in Nat /\ Cardinality(S \ {w}) \in Nat
  BY Counted
<1> QED BY <1>1, <1>2, <1>3
-----------------------------------------------------------------------------
(***************************************************************************)
(* What is planned on a snapshot.                                          *)
(***************************************************************************)

\* A worker reports one model.
LEMMA OneModel ==
  ASSUME NEW R \in Runtimes, NEW x \in R, NEW y \in R
  PROVE  x = y /\ x[1] \in Models /\ R = {x}
BY DEF Runtimes

LEMMA CeilingTyped ==
  ASSUME NEW v \in Views, healthy \subseteq Workers, NEW m \in Models
  PROVE  /\ Ceiling(v, m) \in Nat /\ MinLoaded[m] \in Nat
         /\ ReadyOn(v, m) \in SUBSET Workers /\ Loaded(v, m) \in Nat
         /\ Occupied(v, m) \in Nat
         /\ MaxLoaded[m] # AutoMax => MaxLoaded[m] \in Nat /\ Ceiling(v, m) = MaxLoaded[m]
<1>1. v.known \cap healthy \in SUBSET Workers
  BY DEF Views
<1>2. /\ {w \in v.known \cap healthy : m \in Allowed[w] /\ Refreshable(w, m)} \in SUBSET Workers
      /\ ReadyOn(v, m) \in SUBSET Workers
      /\ {w \in v.known \cap healthy : Running(v, w, m)} \in SUBSET Workers
  BY <1>1 DEF ReadyOn
<1>3. MinLoaded[m] \in Nat /\ (MaxLoaded[m] # AutoMax => MaxLoaded[m] \in Nat)
  BY ReconcilerAssumption DEF ReconcilerAssumption
<1> QED BY <1>2, <1>3, Counted DEF Ceiling, Loaded, Occupied

\* An action that makes room takes a model that may go from its worker.
LEMMA RoomIsLeft ==
  ASSUME NEW v \in Views, NEW p \in Pairs, Ready(v, p[1], p[2]), MayUnload(v, p[2])
  PROVE  \A m \in Models : Ready(v, p[1], m) => MayUnload(v, m)
<1>1. v.report[p[1]] \in Runtimes
  BY DEF Views, Pairs
<1> QED BY <1>1, OneModel DEF Ready

\* What one action of a plan may be: a load of an empty worker, or one that
\* makes room.
Proper(v, x) ==
  /\ x \in Actions
  /\ v.report[x.worker] # {} => \A m \in Models : Ready(v, x.worker, m) => MayUnload(v, m)
  /\ x.type = "warm" =>
       Occupied(v, x.model) < Ceiling(v, x.model)

LEMMA RoomProper ==
  ASSUME NEW v \in Views, NEW m, NEW p \in Victims(v, m)
  PROVE  Proper(v, Act("unload", p, "floor"))
<1>1. p \in Pairs /\ Ready(v, p[1], p[2]) /\ MayUnload(v, p[2])
  BY DEF Victims
<1> QED BY <1>1, RoomIsLeft DEF Proper, Act, Actions, Pairs

LEMMA PredictionProper ==
  ASSUME NEW v \in Views, NEW x \in Predictions(v)
  PROVE  Proper(v, x)
<1>1. PICK m \in Models : Demanded(v, m) /\ x \in PredictionsFor(v, m)
  BY DEF Predictions, First
<1>2. CASE \E w \in EmptyFor(v, m, {}) : x = Act("warm", <<w, m>>, "demand")
  <2>1. PICK w \in Workers : v.report[w] = {} /\ x = Act("warm", <<w, m>>, "demand")
    BY <1>2 DEF EmptyFor
  <2> QED BY <1>1, <2>1 DEF Proper, Act, Actions, Demanded
<1>3. CASE x \in Evictions(v, m)
  <2>1. PICK p \in WorthLess(v, m) :
          \/ x = Act("warm", <<p[1], m>>, "demand")
          \/ x = Act("unload", p, "demand")
    BY <1>3 DEF Evictions, Cheapest
  <2>2. p \in Pairs /\ Ready(v, p[1], p[2]) /\ MayUnload(v, p[2])
    BY <2>1 DEF WorthLess
  <2>3. \A n \in Models : Ready(v, p[1], n) => MayUnload(v, n)
    BY <2>2, RoomIsLeft
  <2> QED BY <1>1, <2>1, <2>2, <2>3 DEF Proper, Act, Actions, Pairs, Demanded
<1> QED BY <1>1, <1>2, <1>3 DEF PredictionsFor

\* An order of finitely many names has all of them.
LEMMA OrderComplete ==
  ASSUME NEW S \in SUBSET Models, NEW s \in Orders(S)
  PROVE  /\ DOMAIN s \subseteq Nat
         /\ \A i \in DOMAIN s : s[i] \in S
         /\ \A m \in S : \E i \in DOMAIN s : s[i] = m
<1> DEFINE D == 1 .. Cardinality(S)
<1>1. IsFiniteSet(S) /\ Cardinality(S) \in Nat
  BY ReconcilerAssumption, FS_Subset, FS_CardinalityType DEF ReconcilerAssumption
<1>2. s \in [D -> S] /\ \A i, j \in D : i # j => s[i] # s[j]
  BY DEF Orders, SetToSeqs
<1>3. IsFiniteSet(D) /\ Cardinality(D) = Cardinality(S)
  BY <1>1, FS_Interval
<1>4. s \in Injection(D, S)
  BY <1>2 DEF Injection, IsInjective
<1>5. s \in Surjection(D, S)
  BY <1>1, <1>3, <1>4, FS_Injection
<1> QED BY <1>1, <1>2, <1>5 DEF Surjection

LEMMA PairsCounted ==
  ASSUME NEW S \in SUBSET Pairs
  PROVE  IsFiniteSet(S) /\ Cardinality(S) \in Nat
<1>1. IsFiniteSet(Pairs)
  BY ReconcilerAssumption, FS_Product DEF ReconcilerAssumption, Pairs
<1> QED BY <1>1, FS_Subset, FS_CardinalityType

\* The loads of a model in a plan.
LoadsOf(A, m) == {x \in A : x.type = "warm" /\ x.model = m}

\* As many as the pairs they are of, at most.
LEMMA LoadsOfPairs ==
  ASSUME NEW B \in SUBSET Pairs, NEW why, NEW m, NEW A, A = {Act("warm", p, why) : p \in B}
  PROVE  /\ IsFiniteSet(LoadsOf(A, m))
         /\ Cardinality(LoadsOf(A, m)) <= Cardinality({p \in B : p[2] = m})
         /\ LoadsOf(A, m) # {} => {p \in B : p[2] = m} # {}
<1> DEFINE mine == {p \in B : p[2] = m}
           L == {Act("warm", p, why) : p \in mine}
           f == [p \in mine |-> Act("warm", p, why)]
<1>1. LoadsOf(A, m) = L
  BY DEF LoadsOf, Act
<1>2. IsFiniteSet(mine)
  BY PairsCounted
<1>3. f \in Surjection(mine, L)
  BY DEF Surjection
<1>4. IsFiniteSet(L) /\ Cardinality(L) <= Cardinality(mine)
  BY ONLY <1>2, <1>3, FS_Surjection
<1>5. L # {} => mine # {}
  OBVIOUS
<1> QED BY ONLY <1>1, <1>4, <1>5

\* What holds of everything that is planned together on a snapshot.
Sound(v, A) ==
  /\ \A x \in A : Proper(v, x)
  /\ \A x \in A : v.report[x.worker] # {} => A = {x}
  /\ \A x, y \in A : x.worker = y.worker => x = y
  /\ \A m \in Models : LoadsOf(A, m) # {} =>
       /\ IsFiniteSet(LoadsOf(A, m))
       /\ Occupied(v, m) + Cardinality(LoadsOf(A, m)) <= Ceiling(v, m)
  /\ Underloaded(v) # {} => \A x \in A : x.why = "floor"

LEMMA BatchSound ==
  ASSUME NEW v \in Views, healthy \subseteq Workers,
         NEW s \in Orders(Underloaded(v)), NEW B \in Batches(v, s)
  PROVE  Sound(v, {Act("warm", p, "floor") : p \in B})
<1> DEFINE A == {Act("warm", p, "floor") : p \in B}
           earlier(i) == {p[1] : p \in {q \in B : \E j \in 1..(i - 1) : q[2] = s[j]}}
           mine(i) == {p \in B : p[2] = s[i]}
<1>1. Underloaded(v) \in SUBSET Models
  BY DEF Underloaded
<1>2. /\ DOMAIN s \subseteq Nat
      /\ \A i \in DOMAIN s : s[i] \in Underloaded(v)
      /\ \A m \in Underloaded(v) : \E i \in DOMAIN s : s[i] = m
  BY <1>1, OrderComplete
<1>3. /\ B \in SUBSET Pairs
      /\ \A p \in B : p[2] \in Underloaded(v) /\ p[1] \in EmptyFor(v, p[2], {})
      /\ \A i \in DOMAIN s :
           /\ \A p \in mine(i) : p[1] \notin earlier(i)
           /\ Cardinality(mine(i))
                = Min({Wanted(v, s[i]), Cardinality(EmptyFor(v, s[i], earlier(i)))})
  BY DEF Batches
<1>4. ASSUME NEW p \in B
      PROVE  v.report[p[1]] = {} /\ p = <<p[1], p[2]>> /\ p[1] \in Workers /\ p[2] \in Models
  <2>1. p \in Pairs /\ p[1] \in EmptyFor(v, p[2], {})
    BY <1>3
  <2>2. v.report[p[1]] = {}
    BY <2>1 DEF EmptyFor
  <2> QED BY <2>1, <2>2 DEF Pairs
<1>5. \A x \in A : Proper(v, x) /\ v.report[x.worker] = {} /\ x.why = "floor"
  BY <1>3, <1>4 DEF Proper, Act, Actions, Underloaded
<1>6. \A p, q \in B : p[1] = q[1] => p = q
  <2> SUFFICES ASSUME NEW p \in B, NEW q \in B, p[1] = q[1] PROVE p[2] = q[2]
    BY <1>4
  <2>1. PICK i \in DOMAIN s, j \in DOMAIN s : s[i] = p[2] /\ s[j] = q[2]
    BY <1>2, <1>3
  <2>2. i \in Nat /\ j \in Nat /\ \A k \in DOMAIN s : k >= 1
    BY <1>2 DEF Orders, SetToSeqs
  <2>3. CASE i < j
    <3>1. p[1] \in earlier(j)
      BY <2>1, <2>2, <2>3
    <3> QED BY <1>3, <2>1, <3>1
  <2>4. CASE j < i
    <3>1. q[1] \in earlier(i)
      BY <2>1, <2>2, <2>4
    <3> QED BY <1>3, <2>1, <3>1
  <2> QED BY <2>1, <2>2, <2>3, <2>4
<1>7. \A x, y \in A : x.worker = y.worker => x = y
  BY <1>6 DEF Act
<1>8. ASSUME NEW m \in Models, LoadsOf(A, m) # {}
      PROVE  /\ IsFiniteSet(LoadsOf(A, m))
             /\ Occupied(v, m) + Cardinality(LoadsOf(A, m)) <= Ceiling(v, m)
  <2> DEFINE M == {p \in B : p[2] = m}
  <2>0. B \in SUBSET Pairs /\ A = {Act("warm", p, "floor") : p \in B}
    BY <1>3
  <2> HIDE DEF A
  <2>1. IsFiniteSet(LoadsOf(A, m)) /\ Cardinality(LoadsOf(A, m)) <= Cardinality(M) /\ M # {}
    BY ONLY <1>8, <2>0, LoadsOfPairs
  <2>2. PICK i \in DOMAIN s : s[i] = m
    BY <1>2, <1>3, <2>1
  <2>3. Cardinality(M) = Min({Wanted(v, m), Cardinality(EmptyFor(v, m, earlier(i)))})
    BY <1>3, <2>2
  <2>4. Cardinality(EmptyFor(v, m, earlier(i))) \in Nat
    <3>1. EmptyFor(v, m, earlier(i)) \in SUBSET Workers
      BY DEF EmptyFor
    <3> QED BY <3>1, Counted
  <2>5. Ceiling(v, m) \in Nat /\ MinLoaded[m] \in Nat /\ Occupied(v, m) \in Nat
    BY CeilingTyped
  <2>6. Wanted(v, m) \in Int /\ Wanted(v, m) <= Ceiling(v, m) - Occupied(v, m)
    <3>0. MinLoaded[m] \in Int /\ Ceiling(v, m) \in Int
      BY <2>5
    <3>1. /\ Min({MinLoaded[m], Ceiling(v, m)}) \in {MinLoaded[m], Ceiling(v, m)}
          /\ Min({MinLoaded[m], Ceiling(v, m)}) <= Ceiling(v, m)
      BY ONLY <3>0, MinOfTwo
    <3> QED BY <2>5, <3>1 DEF Wanted
  <2>7. Cardinality(M) <= Wanted(v, m)
    <3> DEFINE n == Cardinality(EmptyFor(v, m, earlier(i)))
               k == Cardinality(M)
    <3>1. n \in Int /\ Wanted(v, m) \in Int /\ k = Min({Wanted(v, m), n})
      BY <2>3, <2>4, <2>6
    <3> HIDE DEF n, k
    <3>2. k <= Wanted(v, m)
      BY ONLY <3>1, MinOfTwo
    <3> QED BY <3>2 DEF k
  <2>8. Cardinality(M) \in Nat /\ Cardinality(LoadsOf(A, m)) \in Nat
    BY <1>3, <2>1, PairsCounted, FS_CardinalityType
  <2> QED BY ONLY <2>1, <2>5, <2>6, <2>7, <2>8
<1> HIDE DEF A
<1> QED BY <1>5, <1>7, <1>8 DEF Sound, A

LEMMA OneSound ==
  ASSUME NEW v \in Views, healthy \subseteq Workers, NEW x, Proper(v, x),
         Underloaded(v) # {} => x.why = "floor"
  PROVE  Sound(v, {x})
<1>1. ASSUME NEW m \in Models, LoadsOf({x}, m) # {}
      PROVE  /\ IsFiniteSet(LoadsOf({x}, m))
             /\ Occupied(v, m) + Cardinality(LoadsOf({x}, m)) <= Ceiling(v, m)
  <2>1. LoadsOf({x}, m) = {x} /\ x.type = "warm" /\ x.model = m
    BY <1>1 DEF LoadsOf
  <2>2. Occupied(v, m) < Ceiling(v, m) /\ Occupied(v, m) \in Nat /\ Ceiling(v, m) \in Nat
    <3>1. Occupied(v, m) < Ceiling(v, m)
      BY <2>1 DEF Proper
    <3> QED BY <3>1, CeilingTyped
  <2>3. IsFiniteSet({x}) /\ Cardinality({x}) = 1
    BY FS_Singleton
  <2> QED BY ONLY <2>1, <2>2, <2>3
<1> QED BY <1>1 DEF Sound

\* What is planned, in whatever order of the models and whichever worker is
\* taken among equal ones.
LEMMA PlansSound ==
  ASSUME NEW v \in Views, healthy \subseteq Workers, NEW A \in Plans(v)
  PROVE  Sound(v, A)
<1>1. Sound(v, {})
  BY DEF Sound, LoadsOf
<1>2. CASE Underloaded(v) = {}
  <2>1. CASE A = {}
    BY <1>1, <2>1
  <2>2. CASE \E x \in Predictions(v) : A = {x}
    BY <1>2, <2>2, PredictionProper, OneSound
  <2> QED BY <1>2, <2>1, <2>2 DEF Plans, One
<1>3. CASE Underloaded(v) # {}
  <2>1. PICK s \in Orders(Underloaded(v)) : A \in FloorPlans(v, s)
    BY <1>3 DEF Plans
  <2>2. CASE RoomFor(v, s) # {}
    <3>1. CASE A = {}
      BY <1>1, <3>1
    <3>2. CASE \E p \in BestVictims(v, s[Min(RoomFor(v, s))]) : A = {Act("unload", p, "floor")}
      <4>1. PICK p \in Victims(v, s[Min(RoomFor(v, s))]) : A = {Act("unload", p, "floor")}
        BY <3>2 DEF BestVictims
      <4>2. Proper(v, Act("unload", p, "floor"))
        BY <4>1, RoomProper
      <4> QED BY <4>1, <4>2, OneSound DEF Act
    <3> QED BY <2>1, <2>2, <3>1, <3>2 DEF FloorPlans, One
  <2>3. CASE RoomFor(v, s) = {}
    BY <2>1, <2>3, BatchSound DEF FloorPlans
  <2> QED BY <2>2, <2>3
<1> QED BY <1>2, <1>3
-----------------------------------------------------------------------------
(***************************************************************************)
(* The invariant.                                                          *)
(***************************************************************************)

\* The reconciler's calls come one after the other from the list of a ceiling.
TrimProper ==
  /\ left \subseteq HardCeilings
  /\ excess # None => excess.model \in HardCeilings \ left
  /\ \A c \in Pending({"trim"}) :
       /\ phase = "trim" /\ c.op \in {"unload", "unloaded"}
       /\ excess # None /\ c.model = excess.model
       /\ \A d \in Pending({"trim"}) : c = d
  /\ phase # "trim" => left = {} /\ excess = None

Serving(m) == {w \in Workers : <<m, "ready">> \in runs[w]}
Reported(w) == {x[1] : x \in report[w]}

\* Nothing runs but what was seen.
WithinView ==
  \A w \in Workers : runs[w] \subseteq report[w] /\ report[w] \subseteq view.report[w]

\* The replica that the cycle saw is there.
Stands(w, m) == <<m, "ready">> \in view.report[w] => <<m, "ready">> \in runs[w]

\* Of m the ceiling and n more are served well, but for what the cycle lost.
Enough(m, n) == Cardinality(Serving(m)) + lost[m] >= MaxLoaded[m] + n

\* An unload that is done and not answered yet.
Done == IF \E c \in calls : c.op = "unloaded" THEN 1 ELSE 0

TrimQuiet ==
  /\ plan = {} /\ calls = Pending({"trim"})
  /\ WithinView
  /\ \A m \in left, w \in Workers : Stands(w, m)
  /\ \A m \in Models, w \in Workers : ~Stands(w, m) => m \in HardCeilings /\ Enough(m, 0)
  /\ excess # None =>
       Overcounted(excess.model) /\ Enough(excess.model, excess.over - Done)

\* What has not reached its worker yet.
Waiting == plan \cup {c \in calls : c.op \notin {"loading", "unloaded"}}
Loads(m) == {x.worker : x \in {y \in plan : y.type = "warm" /\ y.model = m}}
              \cup {c.worker : c \in {d \in calls : d.op = "load" /\ d.model = m}}
Spread(m) == {w \in Workers : m \in ModelsOn(w) \cup Reported(w)} \cup Loads(m)

\* What was planned for a worker can still be done: nothing came to an empty
\* worker; one that makes room is the only one, and of each model as many serve
\* as the cycle counted, but for those it lost.
Open(w) ==
  IF view.report[w] = {}
    THEN runs[w] = {} /\ report[w] = {}
    ELSE /\ \A x \in plan \cup calls : x.worker = w
         /\ WithinView
         /\ \A m \in Models : ~Overcounted(m) => Loaded(view, m) <= Cardinality(Serving(m)) + lost[m]
         /\ \A m \in Models : Ready(view, w, m) => MayUnload(view, m)

\* Every worker is reserved for one action or call.
Reserved ==
  /\ \A x, y \in plan : x.worker = y.worker => x = y
  /\ \A c, d \in calls : c.worker = d.worker => c = d
  /\ \A x \in plan, c \in calls : x.worker # c.worker

ActQuiet ==
  /\ calls = Pending({"plan"})
  /\ Reserved
  /\ \A x \in Waiting : Open(x.worker)
  /\ \A m \in HardCeilings : Loads(m) # {} => Cardinality(Spread(m)) <= MaxLoaded[m]

Quiet ==
  /\ known = Workers /\ healthy = Workers
  /\ phase = "idle" => calls = {} /\ plan = {}
  /\ phase = "trim" => TrimQuiet
  /\ phase = "act" => ActQuiet

Typed == TypeOK /\ TrimProper

ReconcilerInv == Typed /\ (Undisturbed => Quiet)
-----------------------------------------------------------------------------
(***************************************************************************)
(* Types, and the list of a ceiling.                                       *)
(***************************************************************************)

Excesses == [model : Models, workers : SUBSET Workers, over : Nat \ {0}]
Calls == [op : {"unload", "unloaded", "load", "loading"}, worker : Workers, model : Models,
          by : {"trim", "plan", "admin", "force", "lost"}]

LEMMA SnapshotTyped ==
  ASSUME TypeOK
  PROVE  Snapshot \in Views
<1>1. \A w \in Workers : Active(w) \in Nat
  <2> SUFFICES ASSUME NEW w \in Workers PROVE Active(w) \in Nat
    OBVIOUS
  <2>1. IsFiniteSet({r \in Requests : serving[r] # None /\ serving[r][1] = w})
    BY ReconcilerAssumption, FS_Subset DEF ReconcilerAssumption
  <2> QED BY <2>1, FS_CardinalityType DEF Active
<1> QED BY <1>1 DEF Snapshot, ActiveSnapshot, Views, TypeOK

LEMMA AdvanceTyped ==
  ASSUME NEW e \in [model : Models, workers : SUBSET Workers, over : Nat]
  PROVE  /\ Advance(e) \in Excesses \cup {None}
         /\ Advance(e) # None => Advance(e) = e
BY DEF Advance, Excesses

LEMMA InitTyped == Init => Typed
<1> SUFFICES ASSUME Init PROVE Typed
  OBVIOUS
<1>1. runs \in [Workers -> Runtimes]
  BY DEF Init, Runtimes
<1>2. /\ report \in [Workers -> Runtimes] /\ known \subseteq Workers /\ healthy \subseteq Workers
      /\ serving \in [Requests -> Pairs \cup {None}] /\ used \subseteq Pairs /\ cool \subseteq Pairs
      /\ pressure \in [Models -> {"none", "no_ready", "busy", "jammed"}]
      /\ phase \in {"idle", "trim", "act"} /\ left \subseteq Models /\ plan \subseteq Actions
      /\ excess = None /\ calls = {} /\ left = {} /\ phase = "idle" /\ view = NoView
      /\ lost \in [Models -> Nat]
      /\ spent \in [cycles : Nat, disturbances : Nat, failures : Nat, served : Nat]
  BY <1>1 DEF Init
<1>3. view \in Views
  BY <1>2 DEF NoView, Views, Runtimes
<1> QED BY <1>1, <1>2, <1>3 DEF Typed, TypeOK, TrimProper, Pending

\* A call of another kind is no call of the ceilings.
LEMMA OtherCalls ==
  ASSUME TrimProper, UNCHANGED <<phase, left, excess>>,
         \A c \in calls' : c.by = "trim" => c \in calls
  PROVE  TrimProper'
BY DEF TrimProper, Pending, HardCeilings

LEMMA CyclesTyped ==
  ASSUME Typed, Begin \/ Plan \/ End \/ (\E m \in Models : CheckCeiling(m))
  PROVE  Typed'
<1> USE DEF Typed
<1>0. Snapshot \in Views
  BY SnapshotTyped
<1>1. CASE Begin
  <2>1. TypeOK'
    BY <1>0, <1>1 DEF Begin, TypeOK, fleet, traffic, HardCeilings
  <2>2. TrimProper'
    BY <1>1 DEF Begin, TrimProper, Pending, HardCeilings
  <2> QED BY <2>1, <2>2
<1>2. CASE Plan
  <2>1. view' \in Views
    BY <1>0, <1>2 DEF Plan, Views, TypeOK
  <2>2. PICK A \in Plans(view') : plan' = A
    BY <1>2 DEF Plan
  <2>3. plan' \subseteq Actions
    <3>1. Sound(view', plan')
      BY <2>1, <2>2, PlansSound DEF TypeOK
    <3> QED BY <3>1 DEF Sound, Proper
  <2>4. TypeOK'
    BY <1>2, <2>1, <2>3 DEF Plan, TypeOK, fleet, traffic
  <2>5. TrimProper'
    BY <1>2 DEF Plan, TrimProper, Pending
  <2> QED BY <2>4, <2>5
<1>3. CASE End
  <2>1. NoView \in Views
    BY DEF NoView, Views, Runtimes
  <2>2. TypeOK'
    BY <1>3, <2>1 DEF End, TypeOK, fleet, traffic
  <2>3. TrimProper'
    BY <1>3 DEF End, TrimProper, Pending, HardCeilings
  <2> QED BY <2>2, <2>3
<1>4. CASE \E m \in Models : CheckCeiling(m)
  <2>1. PICK m \in Models : CheckCeiling(m)
    BY <1>4
  <2>2. m \in HardCeilings
    BY <2>1 DEF CheckCeiling, TrimProper
  <2>3. excess' \in Excesses \cup {None} /\ (excess' # None => excess'.model = m)
    <3>1. ReadyOn(view, m) \in SUBSET Workers /\ Loaded(view, m) \in Nat /\ MaxLoaded[m] \in Nat
      BY <2>2, CeilingTyped DEF TypeOK, HardCeilings
    <3> QED BY <2>1, <3>1 DEF CheckCeiling, Excesses
  <2>4. TypeOK'
    BY <2>1, <2>3 DEF CheckCeiling, TypeOK, fleet, traffic, Excesses
  <2>5. TrimProper'
    BY <2>1, <2>2, <2>3 DEF CheckCeiling, TrimProper, Pending, HardCeilings
  <2> QED BY <2>4, <2>5
<1> QED BY <1>1, <1>2, <1>3, <1>4

LEMMA TrimTyped ==
  ASSUME Typed, NEW w \in Workers, Trim(w)
  PROVE  Typed'
<1> USE DEF Typed
<1>1. excess \in Excesses /\ excess # None /\ phase = "trim"
  BY DEF Trim, TypeOK, Excesses, TrimProper
<1> DEFINE e == [excess EXCEPT !.workers = @ \ {w}]
<1>2. e \in Excesses /\ e # None /\ e.model = excess.model
  BY <1>1, ReconcilerAssumption DEF Excesses, ReconcilerAssumption
<1>3. Advance(e) \in Excesses \cup {None} /\ (Advance(e) # None => Advance(e) = e)
  BY <1>2, AdvanceTyped DEF Excesses
<1>4. CASE view.active[w] > 0
  <2>1. calls' = calls /\ excess' = Advance(e)
    BY <1>4 DEF Trim
  <2>2. TypeOK'
    BY <1>3, <2>1 DEF Trim, TypeOK, fleet, traffic, Excesses
  <2>3. TrimProper'
    BY <1>1, <1>2, <1>3, <2>1 DEF Trim, TrimProper, Pending, HardCeilings
  <2> QED BY <2>2, <2>3
<1>5. CASE ~(view.active[w] > 0)
  <2>1. calls' = calls \cup {Call("unload", w, excess.model, "trim")} /\ excess' = e
    BY <1>5 DEF Trim
  <2>2. TypeOK'
    BY <1>1, <1>2, <2>1 DEF Trim, TypeOK, fleet, traffic, Excesses, Call
  <2>3. Pending({"trim"})' = {Call("unload", w, excess.model, "trim")}
    BY <2>1 DEF Pending, Trim, Call
  <2>4. TrimProper'
    BY <1>1, <1>2, <2>1, <2>3 DEF Trim, TrimProper, HardCeilings, Call
  <2> QED BY <2>2, <2>4
<1> QED BY <1>4, <1>5

LEMMA AnswerTyped ==
  ASSUME Typed, NEW c \in calls, Answer(c)
  PROVE  Typed'
<1> USE DEF Typed
<1>1. c \in Calls /\ c.worker \in Workers /\ c.model \in Models
  BY DEF TypeOK, Calls
<1>2. runs[c.worker] \in Runtimes
  BY <1>1 DEF TypeOK
<1>3. CASE Unloaded(c) \/ Fails(c)
  <2>1. runs' \in [Workers -> Runtimes]
    <3>1. {x \in runs[c.worker] : x # <<c.model, "loading">>} \in Runtimes
      BY <1>2 DEF Runtimes
    <3>2. {<<c.model, "ready">>} \in Runtimes
      BY <1>1 DEF Runtimes
    <3> QED BY <1>3, <3>1, <3>2 DEF Unloaded, Fails, NotLoaded, CameUp, TypeOK
  <2>2. cool' \subseteq Pairs /\ healthy' \subseteq Workers /\ lost' \in [Models -> Nat]
    BY <1>1, <1>3 DEF Unloaded, Fails, Reached, TypeOK, Pairs
  <2>3. calls' = calls \ {c} \/ calls' = (calls \ {c}) \cup {[c EXCEPT !.by = "lost"]}
    BY <1>3 DEF Unloaded, Fails
  <2>4. /\ calls' \subseteq Calls
        /\ \A d \in calls' : d.by = "trim" => d \in calls \ {c}
    BY <1>1, <2>3 DEF TypeOK, Calls
  <2>5. spent' \in [cycles : Nat, disturbances : Nat, failures : Nat, served : Nat]
    BY <1>3 DEF Unloaded, Fails, Disturb, TypeOK
  <2>6. UNCHANGED <<report, known, traffic, phase, view, left, plan>>
    BY <1>3 DEF Unloaded, Fails
  <2>7. CASE c.by # "trim"
    <3>1. excess' = excess
      BY <1>3, <2>7 DEF Unloaded, Fails
    <3>2. TypeOK'
      BY <2>1, <2>2, <2>4, <2>5, <2>6, <3>1 DEF TypeOK, traffic, Calls
    <3>3. TrimProper'
      BY <2>4, <2>6, <3>1, OtherCalls
    <3> QED BY <3>2, <3>3
  <2>8. CASE c.by = "trim"
    <3>1. excess \in Excesses /\ excess # None /\ Pending({"trim"})' = {}
      BY <2>4, <2>8 DEF TypeOK, TrimProper, Pending, Excesses
    <3>2. excess' \in Excesses \cup {None} /\ (excess' # None => excess'.model = excess.model)
      <4>1. [excess EXCEPT !.over = @ - 1] \in [model : Models, workers : SUBSET Workers, over : Nat]
        BY <3>1 DEF Excesses
      <4>2. excess \in [model : Models, workers : SUBSET Workers, over : Nat]
        BY <3>1 DEF Excesses
      <4>3. [excess EXCEPT !.over = @ - 1].model = excess.model
        BY <3>1 DEF Excesses
      <4> QED BY <1>3, <2>8, <4>1, <4>2, <4>3, AdvanceTyped DEF Unloaded, Fails
    <3>3. TypeOK'
      BY <2>1, <2>2, <2>4, <2>5, <2>6, <3>2 DEF TypeOK, traffic, Excesses, Calls
    <3>4. TrimProper'
      BY <2>6, <3>1, <3>2, <2>8 DEF TrimProper, Pending, HardCeilings
    <3> QED BY <3>3, <3>4
  <2> QED BY <2>7, <2>8
<1>6. CASE Unloads(c)
  <2>1. runs' \in [Workers -> Runtimes]
    <3>1. {x \in runs[c.worker] : x[1] # c.model} \in Runtimes
      BY <1>2 DEF Runtimes
    <3> QED BY <1>6, <3>1 DEF Unloads, TypeOK
  <2> DEFINE d == [c EXCEPT !.op = "unloaded"]
  <2>2. d \in Calls /\ d.by = c.by /\ d.model = c.model /\ d.op = "unloaded"
    BY <1>1 DEF Calls
  <2>3. calls' = (calls \ {c}) \cup {d}
    BY <1>6 DEF Unloads
  <2> HIDE DEF d
  <2>4. TypeOK'
    BY <1>6, <2>1, <2>2, <2>3 DEF Unloads, TypeOK, fleet, traffic, cycle, Calls
  <2>5. TrimProper'
    <3>1. UNCHANGED <<phase, left, excess>>
      BY <1>6 DEF Unloads, cycle
    <3>2. CASE c.by = "trim"
      <4>1. calls \cap Pending({"trim"}) = {c} /\ phase = "trim" /\ excess # None /\ c.model = excess.model
        BY <3>2 DEF TrimProper, Pending
      <4>2. Pending({"trim"})' = {d}
        BY <2>2, <2>3, <3>2, <4>1 DEF Pending
      <4> QED BY <2>2, <3>1, <4>1, <4>2 DEF TrimProper, HardCeilings
    <3>3. CASE c.by # "trim"
      BY <2>2, <2>3, <3>1, <3>3, OtherCalls
    <3> QED BY <3>2, <3>3
  <2> QED BY <2>4, <2>5
<1>4. CASE LoadBegins(c)
  <2>1. runs' \in [Workers -> Runtimes]
    <3>1. {<<c.model, "loading">>} \in Runtimes
      BY <1>1 DEF Runtimes
    <3> QED BY <1>4, <3>1 DEF LoadBegins, TypeOK
  <2>2. [c EXCEPT !.op = "loading"] \in Calls
    BY <1>1 DEF Calls
  <2>3. TypeOK'
    BY <1>4, <2>1, <2>2 DEF LoadBegins, TypeOK, fleet, traffic, cycle, Calls
  <2>4. c.by # "trim" /\ [c EXCEPT !.op = "loading"].by = c.by
    BY <1>1, <1>4 DEF LoadBegins, TrimProper, Pending, Calls
  <2>5. TrimProper'
    BY <1>4, <2>4, OtherCalls DEF LoadBegins, cycle
  <2> QED BY <2>3, <2>5
<1>5. CASE LoadEnds(c)
  <2>1. runs' \in [Workers -> Runtimes]
    <3>1. {<<c.model, "ready">>} \in Runtimes
      BY <1>1 DEF Runtimes
    <3> QED BY <1>5, <3>1 DEF LoadEnds, CameUp, TypeOK
  <2>2. TypeOK'
    BY <1>5, <2>1 DEF LoadEnds, Reached, TypeOK, fleet, traffic, cycle
  <2>3. TrimProper'
    BY <1>5, OtherCalls DEF LoadEnds, cycle
  <2> QED BY <2>2, <2>3
<1> QED BY <1>3, <1>4, <1>5, <1>6 DEF Answer

LEMMA CallsTyped ==
  ASSUME Typed, \/ \E a \in plan : Execute(a)
                \/ \E w \in Workers, m \in Models : AdminWarm(w, m) \/ AdminUnload(w, m)
  PROVE  Typed'
<1> USE DEF Typed
<1>1. CASE \E a \in plan : Execute(a)
  <2>1. PICK a \in plan : Execute(a)
    BY <1>1
  <2>2. a.worker \in Workers /\ a.model \in Models
    BY DEF TypeOK, Actions
  <2>3. TypeOK'
    BY <2>1, <2>2 DEF Execute, TypeOK, fleet, traffic, Call
  <2>4. TrimProper'
    BY <2>1, OtherCalls DEF Execute, Call
  <2> QED BY <2>3, <2>4
<1>2. CASE \E w \in Workers, m \in Models : AdminWarm(w, m) \/ AdminUnload(w, m)
  <2>1. PICK w \in Workers, m \in Models : AdminWarm(w, m) \/ AdminUnload(w, m)
    BY <1>2
  <2>2. /\ UNCHANGED <<fleet, traffic, cool, cycle>>
        /\ spent' = [spent EXCEPT !.disturbances = @ + 1]
        /\ \E op \in {"load", "unload"}, by \in {"admin", "force"} :
             calls' = calls \cup {Call(op, w, m, by)}
    BY <2>1 DEF AdminWarm, AdminUnload, Disturb
  <2>3. TypeOK'
    BY <2>2 DEF TypeOK, fleet, traffic, cycle, Call
  <2>4. TrimProper'
    BY <2>2, OtherCalls DEF cycle, Call
  <2> QED BY <2>3, <2>4
<1> QED BY <1>1, <1>2

LEMMA OthersTyped ==
  ASSUME Typed, \/ \E r \in Requests : Respond(r) \/ \E m \in Models : Route(r, m)
                \/ \E m \in Models : NoReady(m)
                \/ Forget
                \/ \E w \in Workers : Heartbeat(w) \/ Silence(w)
  PROVE  Typed'
<1> USE DEF Typed
<1>0. UNCHANGED <<cycle, calls>>
  BY DEF Respond, Route, NoReady, Forget, Heartbeat, Silence
<1>1. TrimProper'
  BY <1>0, OtherCalls DEF cycle
<1>2. ASSUME NEW r \in Requests, Respond(r)
      PROVE  TypeOK'
  <2>1. serving[r] \in Pairs
    BY <1>2 DEF Respond, TypeOK
  <2>2. pressure' \in [Models -> {"none", "no_ready", "busy", "jammed"}]
    BY <1>2 DEF Respond, TypeOK, Rush
  <2> QED BY <1>2, <2>1, <2>2 DEF Respond, TypeOK, fleet, cycle
<1>3. ASSUME NEW r \in Requests, NEW m \in Models, Route(r, m)
      PROVE  TypeOK'
  <2>1. PICK w \in Routable(m) :
          /\ serving' = [serving EXCEPT ![r] = <<w, m>>]
          /\ runs' = [runs EXCEPT ![w] = IF m \in ModelsOn(w) THEN @ ELSE {<<m, "ready">>}]
    BY <1>3 DEF Route
  <2>2. w \in Workers /\ {<<m, "ready">>} \in Runtimes /\ <<w, m>> \in Pairs
    BY DEF Routable, TypeOK, Runtimes, Pairs
  <2>3. runs' \in [Workers -> Runtimes] /\ serving' \in [Requests -> Pairs \cup {None}]
    BY <2>1, <2>2 DEF TypeOK
  <2> QED BY <1>3, <2>3 DEF Route, TypeOK, cycle
<1>4. ASSUME NEW m \in Models, NoReady(m)
      PROVE  TypeOK'
  BY <1>4 DEF NoReady, TypeOK, fleet, cycle
<1>5. ASSUME Forget
      PROVE  TypeOK'
  BY <1>5 DEF Forget, TypeOK, fleet, traffic, cycle
<1>6. ASSUME NEW w \in Workers, Heartbeat(w) \/ Silence(w)
      PROVE  TypeOK'
  BY <1>6 DEF Heartbeat, Silence, Disturb, TypeOK, traffic, cycle
<1> QED BY <1>1, <1>2, <1>3, <1>4, <1>5, <1>6

LEMMA TypedKept ==
  ASSUME Typed, [Next]_vars
  PROVE  Typed'
<1>1. CASE UNCHANGED vars
  BY <1>1 DEF vars, fleet, traffic, cycle, Typed, TypeOK, TrimProper, Pending, HardCeilings
<1>2. CASE Next
  BY <1>2, CyclesTyped, TrimTyped, AnswerTyped, CallsTyped, OthersTyped DEF Next, Reconcile
<1> QED BY <1>1, <1>2

LEMMA TypedAlways == Spec => []Typed
BY InitTyped, TypedKept, PTL DEF Spec

\* Every state of the reconciler, the workers and the calls between them is
\* well-typed; in particular a worker never runs or reports two models, and the
\* excess of a ceiling is never worked off beyond 0 (reconcile.go,
\* Reconcile).
THEOREM TypeCorrect == Spec => []TypeOK
<1>1. Typed => TypeOK
  BY DEF Typed
<1> QED BY <1>1, TypedAlways, PTL
-----------------------------------------------------------------------------
(***************************************************************************)
(* The plan.                                                               *)
(***************************************************************************)

\* A sound plan leaves every model its floor, or all it has.
LEMMA SoundKeeps ==
  ASSUME NEW v \in Views, healthy \subseteq Workers, NEW A, Sound(v, A), NEW m \in Models,
         NEW kept, kept = {w \in ReadyOn(v, m) : \A x \in A : x.worker # w}
  PROVE  Cardinality(kept) >= Min({MinLoaded[m], Loaded(v, m)})
<1> DEFINE floor == MinLoaded[m]
           all == Loaded(v, m)
           k == Cardinality(kept)
<1>1. floor \in Nat /\ all \in Nat /\ ReadyOn(v, m) \in SUBSET Workers
  BY CeilingTyped
<1>2. kept \in SUBSET Workers /\ k \in Nat
  BY <1>1, Counted
<1>3. k = all \/ (k >= all - 1 /\ (all > floor \/ floor = 0))
  <2>1. CASE \E x \in A : x.worker \in ReadyOn(v, m)
    <3>1. PICK x \in A : x.worker \in ReadyOn(v, m)
      BY <2>1
    <3>2. Ready(v, x.worker, m) /\ v.report[x.worker] # {}
      BY <3>1 DEF ReadyOn, Ready
    <3>3. A = {x} /\ MayUnload(v, m)
      BY <3>2 DEF Sound, Proper
    <3>4. ReadyOn(v, m) \ {x.worker} \subseteq kept
      BY <3>3
    <3>5. k >= all - 1
      BY <1>1, <1>2, <3>4, OneLess DEF Loaded
    <3> QED BY <3>3, <3>5 DEF MayUnload
  <2>2. CASE ~ \E x \in A : x.worker \in ReadyOn(v, m)
    <3>1. kept = ReadyOn(v, m)
      BY <2>2
    <3> QED BY <3>1 DEF Loaded
  <2> QED BY <2>1, <2>2
<1>4. floor \in Int /\ all \in Int
  BY <1>1
<1> HIDE DEF floor, all, k
<1>5. Min({floor, all}) \in {floor, all} /\ Min({floor, all}) <= floor /\ Min({floor, all}) <= all
  BY ONLY <1>4, MinOfTwo
<1>6. k >= Min({floor, all})
  BY ONLY <1>1, <1>2, <1>3, <1>5
<1> QED BY <1>6 DEF floor, all, k

\* What the reconciler plans together on what the workers said is sound
\* (placement.go, PlanControlActions): no floor is planned away, no load is
\* planned beyond a hard ceiling, every worker is reserved for one action, and
\* demand waits until all floors stand.
THEOREM PlanSound == Spec => PlanIsSound
<1> DEFINE Step ==
      phase = "trim" /\ phase' = "act" =>
       /\ \A m \in Models :
            LET kept == {w \in ReadyOn(view', m) : \A x \in plan' : x.worker # w}
                loads == {x \in plan' : x.type = "warm" /\ x.model = m}
            IN /\ Cardinality(kept) >= Min({MinLoaded[m], Loaded(view', m)})
               /\ MaxLoaded[m] # AutoMax /\ loads # {}
                    => Occupied(view', m) + Cardinality(loads) <= MaxLoaded[m]
       /\ \A x, y \in plan' : x.worker = y.worker => x = y
       /\ (\E m \in Models : Occupied(view', m) < Min({MinLoaded[m], Ceiling(view', m)}))
            => \A x \in plan' : x.why = "floor"
<1>1. ASSUME Typed, [Next]_vars PROVE Step
  <2> SUFFICES ASSUME phase = "trim", phase' = "act" PROVE Step
    OBVIOUS
  <2>1. Plan
    <3>1. phase' # phase
      OBVIOUS
    <3> QED BY <1>1, <3>1 DEF Next, Reconcile, Begin, Plan, End, CheckCeiling, Trim, Execute, Answer,
               Unloads, Unloaded, LoadBegins, LoadEnds, Fails, AdminWarm, AdminUnload, Respond, Route,
               NoReady, Forget, Heartbeat, Silence, vars, cycle
  <2>2. view' \in Views
    BY <1>1, <2>1, SnapshotTyped DEF Plan, Views, Typed, TypeOK
  <2>3. healthy \subseteq Workers
    BY <1>1 DEF Typed, TypeOK
  <2>4. Sound(view', plan')
    <3>1. PICK A \in Plans(view') : plan' = A
      BY <2>1 DEF Plan
    <3> QED BY <2>2, <2>3, <3>1, PlansSound
  <2>5. ASSUME NEW m \in Models, NEW kept, kept = {w \in ReadyOn(view', m) : \A x \in plan' : x.worker # w}
        PROVE  Cardinality(kept) >= Min({MinLoaded[m], Loaded(view', m)})
    BY <2>2, <2>3, <2>4, <2>5, SoundKeeps
  <2>6. ASSUME NEW m \in Models, MaxLoaded[m] # AutoMax, LoadsOf(plan', m) # {}
        PROVE  Occupied(view', m) + Cardinality(LoadsOf(plan', m)) <= MaxLoaded[m]
    BY <2>2, <2>3, <2>4, <2>6, CeilingTyped DEF Sound
  <2>7. ASSUME NEW m \in Models, Occupied(view', m) < Min({MinLoaded[m], Ceiling(view', m)})
        PROVE  \A x \in plan' : x.why = "floor"
    <3> DEFINE floor == MinLoaded[m]
               ceiling == Ceiling(view', m)
               n == Occupied(view', m)
    <3>1. floor \in Int /\ ceiling \in Int /\ n \in Int /\ n < Min({floor, ceiling})
      BY <2>2, <2>3, <2>7, CeilingTyped
    <3> HIDE DEF floor, ceiling, n
    <3>2. n < floor /\ n < ceiling
      <4>1. Min({floor, ceiling}) \in {floor, ceiling} /\ Min({floor, ceiling}) <= floor
            /\ Min({floor, ceiling}) <= ceiling
        BY ONLY <3>1, MinOfTwo
      <4> QED BY ONLY <3>1, <4>1
    <3>3. m \in Underloaded(view')
      BY <3>2 DEF Underloaded, floor, ceiling, n
    <3> QED BY <2>4, <3>3 DEF Sound
  <2> QED BY <2>4, <2>5, <2>6, <2>7 DEF Sound, LoadsOf
<1> QED BY <1>1, TypedAlways, PTL DEF Spec, PlanIsSound
-----------------------------------------------------------------------------
(***************************************************************************)
(* What the cycle saw, while nobody else disturbs it.                      *)
(***************************************************************************)

LEMMA SameView ==
  ASSUME UNCHANGED <<view, healthy>>
  PROVE  /\ \A m : Overcounted(m)' <=> Overcounted(m)
         /\ \A m : MayUnload(view, m)' <=> MayUnload(view, m)
         /\ \A m : Loaded(view, m)' = Loaded(view, m)
BY DEF Overcounted, MayUnload, Loaded, ReadyOn, Ready

LEMMA CountsTyped ==
  ASSUME TypeOK, NEW m \in Models
  PROVE  /\ Serving(m) \in SUBSET Workers /\ Cardinality(Serving(m)) \in Nat
         /\ Spread(m) \in SUBSET Workers /\ Cardinality(Spread(m)) \in Nat
         /\ Loads(m) \in SUBSET Workers
         /\ m \in HardCeilings => MaxLoaded[m] \in Nat
<1>1. Loads(m) \in SUBSET Workers
  BY DEF Loads, TypeOK, Actions
<1>2. Serving(m) \in SUBSET Workers /\ Spread(m) \in SUBSET Workers
  BY <1>1 DEF Serving, Spread
<1>3. m \in HardCeilings => MaxLoaded[m] \in Nat
  BY ReconcilerAssumption DEF ReconcilerAssumption, HardCeilings
<1> QED BY <1>1, <1>2, <1>3, Counted

LEMMA EnoughKept ==
  ASSUME TypeOK, lost' = lost, NEW m \in HardCeilings, NEW n \in Int,
         Cardinality(Serving(m)) <= Cardinality(Serving(m)'), Enough(m, n)
  PROVE  Cardinality(Serving(m)') + lost'[m] >= MaxLoaded[m] + n
<1> DEFINE k == Cardinality(Serving(m))
           l == Cardinality(Serving(m)')
<1>1. k \in Nat /\ l \in Nat /\ lost[m] \in Nat /\ MaxLoaded[m] \in Nat
  BY CountsTyped, Counted DEF Serving, TypeOK, HardCeilings
<1>2. k + lost[m] >= MaxLoaded[m] + n /\ k <= l
  BY DEF Enough
<1> HIDE DEF k, l
<1>3. l + lost[m] >= MaxLoaded[m] + n
  BY <1>1, <1>2
<1> QED BY <1>3 DEF l

\* Replicas that the cycle saw and that stand.
LEMMA StandsCount ==
  ASSUME TypeOK, healthy = Workers, NEW m \in Models, \A w \in Workers : Stands(w, m)
  PROVE  Loaded(view, m) <= Cardinality(Serving(m)) /\ Loaded(view, m) \in Nat
<1>1. ReadyOn(view, m) \subseteq Serving(m)
  BY DEF ReadyOn, Ready, Serving, Stands, TypeOK, Views
<1>2. Serving(m) \in SUBSET Workers
  BY DEF Serving
<1> QED BY <1>1, <1>2, Counted DEF Loaded

\* Requests and heartbeats bring no model where the cycle did not see it.
LEMMA TrafficSeen ==
  ASSUME TypeOK, \/ \E r \in Requests : Respond(r) \/ \E m \in Models : Route(r, m)
                 \/ \E m \in Models : NoReady(m)
                 \/ Forget
                 \/ \E w \in Workers : Heartbeat(w)
  PROVE  /\ UNCHANGED <<cycle, calls>> /\ (known = Workers => known' = Workers)
         /\ healthy = Workers => healthy' = Workers
         /\ WithinView => WithinView' /\ \A w \in Workers : runs[w] \subseteq runs'[w]
         /\ \A w \in Workers : runs[w] = {} /\ report[w] = {} => runs'[w] = {} /\ report'[w] = {}
         /\ \A m : Spread(m)' \subseteq Spread(m)
<1>1. ASSUME UNCHANGED <<runs, report, known, healthy, cycle, calls>>
      PROVE  /\ UNCHANGED <<cycle, calls>> /\ (known = Workers => known' = Workers)
             /\ healthy = Workers => healthy' = Workers
             /\ WithinView => WithinView' /\ \A w \in Workers : runs[w] \subseteq runs'[w]
             /\ \A w \in Workers : runs[w] = {} /\ report[w] = {} => runs'[w] = {} /\ report'[w] = {}
             /\ \A m : Spread(m)' \subseteq Spread(m)
  BY <1>1 DEF WithinView, Spread, ModelsOn, Reported, Loads, cycle
<1>2. CASE \E r \in Requests : Respond(r)
  BY <1>1, <1>2 DEF Respond, fleet
<1>3. CASE \E m \in Models : NoReady(m)
  BY <1>1, <1>3 DEF NoReady, fleet
<1>4. CASE Forget
  BY <1>1, <1>4 DEF Forget, fleet
<1>5. CASE \E r \in Requests, m \in Models : Route(r, m)
  <2>1. PICK r \in Requests, m \in Models : Route(r, m)
    BY <1>5
  <2>2. PICK w \in Routable(m) :
          runs' = [runs EXCEPT ![w] = IF m \in ModelsOn(w) THEN @ ELSE {<<m, "ready">>}]
    BY <2>1 DEF Route
  <2>3. w \in Workers /\ <<m, "ready">> \in report[w] /\ report[w] \in Runtimes /\ runs[w] \in Runtimes
    BY DEF Routable, TypeOK
  <2>4. report[w] = {<<m, "ready">>}
    BY <2>3, OneModel
  <2>5. UNCHANGED <<report, known, healthy, cycle, calls>>
    BY <2>1 DEF Route
  <2>6. \A u \in Workers : u # w => runs'[u] = runs[u]
    BY <2>2, <2>3 DEF TypeOK
  <2>7. runs'[w] = IF m \in ModelsOn(w) THEN runs[w] ELSE {<<m, "ready">>}
    BY <2>2, <2>3 DEF TypeOK
  <2>8. WithinView => WithinView' /\ \A u \in Workers : runs[u] \subseteq runs'[u]
    <3> SUFFICES ASSUME WithinView
                 PROVE  WithinView' /\ \A u \in Workers : runs[u] \subseteq runs'[u]
      OBVIOUS
    <3>1. runs[w] \subseteq {<<m, "ready">>}
      BY <2>3, <2>4 DEF WithinView
    <3>2. runs[w] \subseteq runs'[w] /\ runs'[w] \subseteq report[w]
      BY <2>4, <2>7, <3>1 DEF ModelsOn
    <3> QED BY <2>5, <2>6, <3>2 DEF WithinView, cycle
  <2>9. \A u \in Workers : ModelsOn(u)' \subseteq ModelsOn(u) \cup Reported(u)
    BY <2>3, <2>6, <2>7 DEF ModelsOn, Reported
  <2>10. \A n : Spread(n)' \subseteq Spread(n)
    BY <2>5, <2>9 DEF Spread, Reported, Loads, cycle
  <2> QED BY <2>4, <2>5, <2>6, <2>8, <2>10
<1>6. CASE \E w \in Workers : Heartbeat(w)
  <2>1. PICK w \in Workers : Heartbeat(w)
    BY <1>6
  <2>2. UNCHANGED <<runs, cycle, calls>> /\ report' = [report EXCEPT ![w] = runs[w]]
        /\ healthy' = healthy \cup {w} /\ known' = known \cup {w}
    BY <2>1 DEF Heartbeat
  <2>3. \A u \in Workers : report'[u] = IF u = w THEN runs[w] ELSE report[u]
    BY <2>2 DEF TypeOK
  <2>4. WithinView => WithinView'
    BY <2>2, <2>3 DEF WithinView, cycle
  <2>5. \A n : Spread(n)' \subseteq Spread(n)
    BY <2>2, <2>3 DEF Spread, Reported, ModelsOn, Loads, cycle
  <2> QED BY <2>2, <2>3, <2>4, <2>5
<1> QED BY <1>2, <1>3, <1>4, <1>5, <1>6

LEMMA TrafficQuiet ==
  ASSUME Typed, Quiet,
         \/ \E r \in Requests : Respond(r) \/ \E m \in Models : Route(r, m)
         \/ \E m \in Models : NoReady(m)
         \/ Forget
         \/ \E w \in Workers : Heartbeat(w)
  PROVE  Quiet'
<1> USE DEF Typed
<1>1. /\ UNCHANGED <<cycle, calls>> /\ known' = Workers /\ healthy = Workers /\ healthy' = Workers
      /\ WithinView => WithinView' /\ \A w \in Workers : runs[w] \subseteq runs'[w]
      /\ \A w \in Workers : runs[w] = {} /\ report[w] = {} => runs'[w] = {} /\ report'[w] = {}
      /\ \A m : Spread(m)' \subseteq Spread(m)
  BY TrafficSeen DEF Quiet
<1>2. UNCHANGED <<phase, view, left, excess, lost, plan, calls, healthy>>
  BY <1>1 DEF cycle
<1>3. /\ \A m : Overcounted(m)' <=> Overcounted(m)
      /\ \A m : MayUnload(view, m)' <=> MayUnload(view, m)
      /\ \A m : Loaded(view, m)' = Loaded(view, m)
  BY <1>2, SameView
<1>4. ASSUME WithinView
      PROVE  /\ \A m \in Models, w \in Workers : Stands(w, m) => Stands(w, m)'
             /\ \A m \in Models : Cardinality(Serving(m)) <= Cardinality(Serving(m)')
  <2>1. \A m \in Models, w \in Workers : Stands(w, m) => Stands(w, m)'
    BY <1>1, <1>2, <1>4 DEF Stands
  <2>2. \A m \in Models : Serving(m) \subseteq Serving(m)'
    BY <1>1, <1>4 DEF Serving
  <2>3. \A m \in Models : Serving(m)' \in SUBSET Workers
    BY DEF Serving
  <2> QED BY <2>1, <2>2, <2>3, Counted
<1>5. CASE phase = "idle"
  BY <1>1, <1>2, <1>5 DEF Quiet
<1>6. CASE phase = "trim"
  <2>1. TrimQuiet /\ WithinView
    BY <1>6 DEF Quiet, TrimQuiet
  <2>2. plan' = {} /\ calls' = Pending({"trim"})' /\ WithinView'
    BY <1>1, <1>2, <2>1 DEF TrimQuiet, Pending
  <2>3. \A m \in left', w \in Workers : Stands(w, m)'
    BY <1>2, <1>4, <2>1 DEF TrimQuiet, TypeOK
  <2>4. ASSUME NEW m \in Models, NEW w \in Workers, ~Stands(w, m)'
        PROVE  m \in HardCeilings' /\ Enough(m, 0)'
    <3>1. m \in HardCeilings /\ Enough(m, 0)
      BY <1>4, <2>1, <2>4 DEF TrimQuiet
    <3>2. Cardinality(Serving(m)') + lost'[m] >= MaxLoaded[m] + 0
      BY <1>2, <1>4, <2>1, <3>1, EnoughKept
    <3> QED BY <3>1, <3>2 DEF Enough, HardCeilings
  <2>5. ASSUME excess # None
        PROVE  Overcounted(excess.model)' /\ Enough(excess.model, excess.over - Done)'
    <3> PICK m, n : m = excess.model /\ n = excess.over - Done
      OBVIOUS
    <3>1. Overcounted(m) /\ Enough(m, n) /\ m \in HardCeilings
      BY <2>1, <2>5 DEF TrimQuiet, TrimProper
    <3>2. n \in Int
      BY <2>5 DEF TypeOK, Done
    <3>3. excess'.model = m /\ excess'.over - Done' = n
      BY <1>2 DEF Done
    <3>4. m \in Models
      BY <2>5 DEF TypeOK
    <3>5. Cardinality(Serving(m)') + lost'[m] >= MaxLoaded[m] + n
      BY <1>2, <1>4, <2>1, <3>1, <3>2, <3>4, EnoughKept
    <3>6. Overcounted(m)'
      BY <1>3, <3>1
    <3> QED BY <3>3, <3>5, <3>6 DEF Enough, Serving, Overcounted
  <2>6. TrimQuiet'
    <3>1. (excess # None => Overcounted(excess.model) /\ Enough(excess.model, excess.over - Done))'
      BY <1>2, <2>5
    <3> QED BY <2>2, <2>3, <2>4, <3>1 DEF TrimQuiet
  <2> QED BY <1>1, <1>2, <1>6, <2>6 DEF Quiet
<1>7. CASE phase = "act"
  <2>1. ActQuiet
    BY <1>7 DEF Quiet
  <2>2. calls' = Pending({"plan"})' /\ Reserved' /\ Waiting' = Waiting
    BY <1>2, <2>1 DEF ActQuiet, Reserved, Pending, Waiting
  <2>3. ASSUME NEW x \in Waiting
        PROVE  Open(x.worker)'
    <3>1. Open(x.worker) /\ x.worker \in Workers
      BY <2>1 DEF ActQuiet, Waiting, TypeOK, Actions
    <3>2. CASE view.report[x.worker] = {}
      BY <1>1, <1>2, <3>1, <3>2 DEF Open
    <3>3. CASE view.report[x.worker] # {}
      <4>1. WithinView /\ WithinView'
        BY <1>1, <3>1, <3>3 DEF Open
      <4>2. ASSUME NEW m \in Models, ~Overcounted(m)'
            PROVE  Loaded(view, m)' <= Cardinality(Serving(m)') + lost'[m]
        <5> DEFINE k == Cardinality(Serving(m))
                   l == Cardinality(Serving(m)')
                   n == Loaded(view, m)
        <5>1. n <= k + lost[m] /\ k <= l /\ Loaded(view, m)' = n /\ lost' = lost
          BY <1>2, <1>3, <1>4, <3>1, <3>3, <4>1, <4>2 DEF Open
        <5>2. n \in Nat /\ k \in Nat /\ l \in Nat /\ lost[m] \in Nat
          BY CeilingTyped, CountsTyped, Counted DEF Serving, TypeOK
        <5> HIDE DEF k, l, n
        <5>3. n <= l + lost[m]
          BY <5>1, <5>2
        <5> QED BY <5>1, <5>3 DEF l
      <4>3. \A m \in Models : Ready(view, x.worker, m)' => MayUnload(view, m)'
        BY <1>2, <1>3, <3>1, <3>3 DEF Open, Ready
      <4> QED BY <1>2, <3>1, <3>3, <4>1, <4>2, <4>3 DEF Open
    <3> QED BY <3>2, <3>3
  <2>4. ASSUME NEW m \in HardCeilings, Loads(m)' # {}
        PROVE  Cardinality(Spread(m)') <= MaxLoaded[m]
    <3> DEFINE k == Cardinality(Spread(m))
               l == Cardinality(Spread(m)')
    <3>1. Loads(m) # {}
      BY <1>2, <2>4 DEF Loads
    <3>2. k <= MaxLoaded[m]
      BY <2>1, <3>1 DEF ActQuiet
    <3>3. Spread(m) \in SUBSET Workers /\ k \in Nat /\ MaxLoaded[m] \in Nat
      BY CountsTyped DEF HardCeilings
    <3>4. l <= k /\ l \in Nat
      BY <1>1, <3>3, Counted
    <3> HIDE DEF k, l
    <3>5. l <= MaxLoaded[m]
      BY <3>2, <3>3, <3>4
    <3> QED BY <3>5 DEF l
  <2>5. ActQuiet'
    BY <2>2, <2>3, <2>4 DEF ActQuiet, HardCeilings
  <2> QED BY <1>1, <1>2, <1>7, <2>5 DEF Quiet
<1> QED BY <1>5, <1>6, <1>7 DEF TypeOK

\* An answer changes what runs on its own worker only.
LEMMA Answered ==
  ASSUME TypeOK, NEW c \in calls, Answer(c)
  PROVE  /\ UNCHANGED <<report, known, phase, view, left, plan>>
         /\ Undisturbed' => Undisturbed /\ (healthy = Workers => healthy' = Workers)
         /\ \A u \in Workers : u # c.worker => runs'[u] = runs[u]
         /\ \A m \in Models : Serving(m) \ {c.worker} \subseteq Serving(m)'
         /\ \A m \in Models : c.op \in {"loading", "unloaded"} \/ Fails(c) \/ (c.op = "unload" /\ m # c.model)
                                => Serving(m) \subseteq Serving(m)'
         /\ \A u \in Workers : ModelsOn(u)' \subseteq ModelsOn(u) \cup
                                 (IF c.op = "load" /\ u = c.worker THEN {c.model} ELSE {})
         /\ calls \ {c} \subseteq calls'
         /\ Undisturbed' =>
              \/ calls' = calls \ {c}
              \/ c.op = "load" /\ calls' = (calls \ {c}) \cup {[c EXCEPT !.op = "loading"]}
              \/ c.op = "unload" /\ calls' = (calls \ {c}) \cup {[c EXCEPT !.op = "unloaded"]}
<1>1. c \in Calls /\ c.worker \in Workers /\ c.model \in Models
  BY DEF TypeOK, Calls
<1>2. runs[c.worker] \in Runtimes
  BY <1>1 DEF TypeOK
<1>3. /\ UNCHANGED <<report, known, phase, view, left, plan>>
      /\ calls \ {c} \subseteq calls'
  BY <1>1 DEF Answer, Unloads, Unloaded, LoadBegins, LoadEnds, Fails, cycle
<1>11. Undisturbed' => Undisturbed /\ (healthy = Workers => healthy' = Workers)
  <2>1. CASE Unloads(c) \/ Unloaded(c) \/ LoadBegins(c) \/ LoadEnds(c)
    BY <2>1 DEF Unloads, Unloaded, LoadBegins, LoadEnds, Reached, Undisturbed, TypeOK
  <2>2. CASE Fails(c)
    BY <2>2 DEF Fails, Disturb, Undisturbed, TypeOK
  <2> QED BY <2>1, <2>2 DEF Answer
<1>12. Undisturbed' =>
         \/ calls' = calls \ {c}
         \/ c.op = "load" /\ calls' = (calls \ {c}) \cup {[c EXCEPT !.op = "loading"]}
         \/ c.op = "unload" /\ calls' = (calls \ {c}) \cup {[c EXCEPT !.op = "unloaded"]}
  <2>1. CASE Unloads(c) \/ Unloaded(c) \/ LoadBegins(c) \/ LoadEnds(c)
    BY <2>1 DEF Unloads, Unloaded, LoadBegins, LoadEnds
  <2>2. CASE Fails(c)
    BY <2>2 DEF Fails, Disturb, Undisturbed, TypeOK
  <2> QED BY <2>1, <2>2 DEF Answer
<1>4. \A u \in Workers : u # c.worker => runs'[u] = runs[u]
  BY <1>1 DEF Answer, Unloads, Unloaded, LoadBegins, LoadEnds, Fails, NotLoaded, CameUp, TypeOK
<1> DEFINE R == runs[c.worker]
           come == IF c.model \in ModelsOn(c.worker) THEN {<<c.model, "ready">>} ELSE R
<1>5. \/ Unloads(c) /\ c.op = "unload" /\ runs'[c.worker] = {x \in R : x[1] # c.model}
      \/ LoadBegins(c) /\ c.op = "load"
           /\ runs'[c.worker] = IF c.model \in ModelsOn(c.worker) THEN R ELSE {<<c.model, "loading">>}
      \/ c.op = "loading" /\ runs'[c.worker] \in {come, {x \in R : x # <<c.model, "loading">>}}
      \/ (c.op = "unloaded" \/ Fails(c)) /\ runs'[c.worker] = R
  <2>1. CASE Unloads(c)
    BY <1>1, <2>1 DEF Unloads, TypeOK
  <2>2. CASE LoadBegins(c)
    BY <1>1, <2>2 DEF LoadBegins, TypeOK
  <2>3. CASE LoadEnds(c)
    BY <1>1, <2>3 DEF LoadEnds, CameUp, TypeOK
  <2>4. CASE Unloaded(c)
    BY <1>1, <2>4 DEF Unloaded, TypeOK
  <2>5. CASE Fails(c)
    BY <1>1, <2>5 DEF Fails, NotLoaded, CameUp, TypeOK
  <2> QED BY <2>1, <2>2, <2>3, <2>4, <2>5 DEF Answer
<1>6. ModelsOn(c.worker)' \subseteq ModelsOn(c.worker) \cup (IF c.op = "load" THEN {c.model} ELSE {})
  BY <1>5 DEF ModelsOn
<1>7. \A m \in Models : c.op \in {"loading", "unloaded"} \/ Fails(c) \/ (c.op = "unload" /\ m # c.model)
                          => (<<m, "ready">> \in R => <<m, "ready">> \in runs'[c.worker])
  <2> SUFFICES ASSUME NEW m \in Models, <<m, "ready">> \in R,
                      c.op \in {"loading", "unloaded"} \/ Fails(c) \/ (c.op = "unload" /\ m # c.model)
               PROVE  <<m, "ready">> \in runs'[c.worker]
    OBVIOUS
  <2>1. R = {<<m, "ready">>}
    BY <1>2, OneModel
  <2>2. CASE c.op = "loading"
    BY <1>5, <2>1, <2>2 DEF ModelsOn, Fails
  <2>3. CASE c.op # "loading" /\ Fails(c)
    <3>1. runs' = runs
      BY <2>3 DEF Fails
    <3> QED BY <3>1
  <2>4. CASE c.op = "unloaded"
    BY <1>5, <2>4
  <2>5. CASE c.op = "unload" /\ m # c.model
    BY <1>5, <2>5
  <2> QED BY <2>2, <2>3, <2>4, <2>5
<1>8. \A m \in Models : Serving(m) \ {c.worker} \subseteq Serving(m)'
  BY <1>4 DEF Serving
<1>9. \A m \in Models : c.op \in {"loading", "unloaded"} \/ Fails(c) \/ (c.op = "unload" /\ m # c.model)
                          => Serving(m) \subseteq Serving(m)'
  BY <1>4, <1>7 DEF Serving
<1>10. \A u \in Workers : ModelsOn(u)' \subseteq ModelsOn(u) \cup
                            (IF c.op = "load" /\ u = c.worker THEN {c.model} ELSE {})
  BY <1>4, <1>6 DEF ModelsOn
<1> HIDE DEF R, come
<1> QED BY <1>3, <1>4, <1>8, <1>9, <1>10, <1>11, <1>12

LEMMA BeginQuiet ==
  ASSUME Typed, Quiet, Begin
  PROVE  Quiet'
<1> USE DEF Typed
<1>1. /\ calls' = {} /\ plan' = {} /\ phase' = "trim" /\ excess' = None
      /\ view' = Snapshot /\ report = runs /\ UNCHANGED <<runs, report, known, healthy>>
  BY DEF Begin, Quiet, TrimProper, fleet, TypeOK
<1>2. view'.report = report
  BY <1>1 DEF Snapshot
<1>3. WithinView' /\ \A m \in Models, w \in Workers : Stands(w, m)'
  BY <1>1, <1>2 DEF WithinView, Stands
<1>4. TrimQuiet'
  BY <1>1, <1>3 DEF TrimQuiet, Pending, Begin, HardCeilings
<1> QED BY <1>1, <1>4 DEF Quiet

LEMMA CheckQuiet ==
  ASSUME Typed, Quiet, NEW m \in Models, CheckCeiling(m)
  PROVE  Quiet'
<1> USE DEF Typed
<1>1. /\ phase = "trim" /\ m \in left /\ left' = left \ {m} /\ TrimQuiet
      /\ UNCHANGED <<runs, report, known, healthy, phase, view, lost, plan, calls>>
  BY DEF CheckCeiling, Quiet, fleet
<1>2. /\ \A n : Overcounted(n)' <=> Overcounted(n)
      /\ \A n : Loaded(view, n)' = Loaded(view, n)
  BY <1>1, SameView
<1>3. (excess # None => Overcounted(excess.model) /\ Enough(excess.model, excess.over - Done))'
  <2>1. CASE Loaded(view, m) > MaxLoaded[m]
    <3> DEFINE k == Cardinality(Serving(m))
               n == Loaded(view, m)
    <3>1. m \in HardCeilings /\ MaxLoaded[m] \in Nat /\ lost[m] \in Nat
      BY <1>1, CountsTyped DEF TrimProper, TypeOK
    <3>2. n <= k /\ n \in Nat /\ k \in Nat
      BY <1>1, StandsCount, CountsTyped DEF TrimQuiet, Quiet
    <3>7. Done' = 0
      <4>1. calls = {}
        BY <1>1 DEF CheckCeiling, TrimQuiet, TrimProper
      <4> QED BY <1>1, <4>1 DEF Done
    <3>3. Overcounted(m)'
      BY <1>2, <2>1, <3>1 DEF Overcounted, HardCeilings
    <3>4. excess' = [model |-> m, workers |-> ReadyOn(view, m), over |-> n - MaxLoaded[m]]
      BY <2>1 DEF CheckCeiling
    <3>5. k = Cardinality(Serving(m)')
      BY <1>1 DEF Serving
    <3> HIDE DEF n, k
    <3>6. excess'.model = m /\ k + lost[m] >= MaxLoaded[m] + (excess'.over - 0)
      BY <3>1, <3>2, <3>4
    <3>8. Cardinality(Serving(m)') + lost'[m] >= MaxLoaded[m] + (excess'.over - Done')
      BY <1>1, <3>5, <3>6, <3>7
    <3> QED BY <3>3, <3>6, <3>8 DEF Enough, Serving
  <2>2. CASE ~(Loaded(view, m) > MaxLoaded[m])
    BY <2>2 DEF CheckCeiling
  <2> QED BY <2>1, <2>2
<1>4. WithinView' /\ plan' = {} /\ calls' = Pending({"trim"})'
      /\ \A n \in left', w \in Workers : Stands(w, n)'
  BY <1>1 DEF TrimQuiet, WithinView, Stands, Pending
<1>5. \A n \in Models, w \in Workers : ~Stands(w, n)' => n \in HardCeilings /\ Enough(n, 0)'
  BY <1>1 DEF TrimQuiet, Stands, Serving, Enough
<1>6. TrimQuiet'
  BY <1>3, <1>4, <1>5 DEF TrimQuiet, HardCeilings
<1> QED BY <1>1, <1>6 DEF Quiet

LEMMA TrimKeepsQuiet ==
  ASSUME Typed, Quiet, NEW w \in Workers, Trim(w)
  PROVE  Quiet'
<1> USE DEF Typed
<1>1. excess \in Excesses /\ excess # None /\ phase = "trim" /\ TrimQuiet
  BY DEF Trim, TypeOK, Excesses, TrimProper, Quiet
<1>2. UNCHANGED <<runs, report, known, healthy, phase, view, plan, left, lost>>
  BY DEF Trim, fleet
<1>3. excess' # None => excess'.model = excess.model /\ excess'.over = excess.over
  BY <1>1 DEF Trim, Advance, Excesses
<1>4. calls' = Pending({"trim"})'
  BY <1>1 DEF Trim, TrimQuiet, Pending, Call
<1>5. \A n : Overcounted(n)' <=> Overcounted(n)
  BY <1>2, SameView
<1>6. WithinView' /\ plan' = {} /\ \A n \in left', u \in Workers : Stands(u, n)'
  BY <1>1, <1>2 DEF TrimQuiet, WithinView, Stands
<1>7. \A n \in Models, u \in Workers : ~Stands(u, n)' => n \in HardCeilings /\ Enough(n, 0)'
  BY <1>1, <1>2 DEF TrimQuiet, Stands, Serving, Enough
<1>8. (excess # None => Overcounted(excess.model) /\ Enough(excess.model, excess.over - Done))'
  <2>1. \A n, k : Enough(n, k) <=> Enough(n, k)'
    BY <1>2 DEF Serving, Enough
  <2>2. Done = 0 /\ Done' = 0
    BY <1>1 DEF Trim, TrimQuiet, Done, Call
  <2> QED BY <1>1, <1>3, <1>5, <2>1, <2>2 DEF TrimQuiet, Enough, Serving
<1>9. TrimQuiet'
  BY <1>4, <1>6, <1>7, <1>8 DEF TrimQuiet, HardCeilings
<1> QED BY <1>1, <1>2, <1>9 DEF Quiet

\* In the first part of a cycle one unload beyond a ceiling at most is under way.
LEMMA TrimCall ==
  ASSUME Typed, Quiet, phase = "trim", NEW c \in calls
  PROVE  /\ c \in Calls /\ c.by = "trim" /\ c.worker \in Workers /\ calls = {c}
         /\ c.op \in {"unload", "unloaded"}
         /\ excess \in Excesses /\ excess # None /\ c.model = excess.model
         /\ c.model \in HardCeilings \ left /\ c.model \in Models
         /\ Answer(c) => Unloads(c) \/ Unloaded(c) \/ Fails(c)
<1> USE DEF Typed
<1>1. c \in Pending({"trim"}) /\ c \in Calls /\ calls = Pending({"trim"})
  BY DEF Quiet, TrimQuiet, TypeOK, Calls
<1>2. /\ c.op \in {"unload", "unloaded"} /\ c.by = "trim" /\ excess # None /\ c.model = excess.model
      /\ calls = {c}
  BY <1>1 DEF TrimProper, Pending
<1>3. Answer(c) => Unloads(c) \/ Unloaded(c) \/ Fails(c)
  BY <1>1, <1>2 DEF Answer, LoadBegins, LoadEnds, Calls
<1> QED BY <1>1, <1>2, <1>3 DEF TrimProper, TypeOK, Calls, Excesses

\* What its answer does: of the excess and what is lost, one is one less or one
\* more, or the replica is gone.
LEMMA TrimStep ==
  ASSUME Typed, Quiet, phase = "trim", NEW c \in calls, Answer(c), Undisturbed'
  PROVE  /\ \A n \in Models : n # c.model => lost'[n] = lost[n]
         /\ \A u \in Workers : runs'[u] \subseteq runs[u]
         /\ Cardinality(Serving(c.model)') + lost[c.model] >= MaxLoaded[c.model]
         /\ Enough(c.model, 0)'
         /\ excess' # None => excess'.model = c.model /\ Enough(c.model, excess.over - Done)'
<1> USE DEF Typed
<1> DEFINE m == c.model
           k == Cardinality(Serving(m))
           l == Cardinality(Serving(m)')
           over == excess.over
<1>1. /\ c \in Calls /\ c.by = "trim" /\ c.worker \in Workers /\ calls = {c}
      /\ c.op \in {"unload", "unloaded"}
      /\ excess \in Excesses /\ excess # None /\ m = excess.model
      /\ m \in HardCeilings \ left /\ m \in Models
      /\ Unloads(c) \/ Unloaded(c) \/ Fails(c)
  BY TrimCall
<1>2. /\ k \in Nat /\ l \in Nat /\ MaxLoaded[m] \in Nat /\ lost[m] \in Nat
      /\ over \in Nat \ {0}
  BY <1>1, CountsTyped, Counted DEF Serving, Excesses, TypeOK
<1>3. k + lost[m] >= MaxLoaded[m] + (over - Done)
  BY <1>1 DEF Quiet, TrimQuiet, Enough
<1>4. Done = IF c.op = "unloaded" THEN 1 ELSE 0
  BY <1>1 DEF Done
<1>5. CASE Unloads(c)
  <2>1. c.op = "unload" /\ UNCHANGED <<excess, lost>>
    BY <1>5 DEF Unloads, cycle
  <2>2. runs' = [runs EXCEPT ![c.worker] = {x \in @ : x[1] # c.model}]
    BY <1>5 DEF Unloads
  <2>3. Done' = 1
    <3>1. [c EXCEPT !.op = "unloaded"].op = "unloaded"
      BY <1>1 DEF Calls
    <3>2. [c EXCEPT !.op = "unloaded"] \in calls'
      BY <1>5 DEF Unloads
    <3> QED BY <3>1, <3>2 DEF Done
  <2>4. l >= k - 1
    <3>1. Serving(m) \in SUBSET Workers /\ Serving(m)' \in SUBSET Workers
      BY DEF Serving
    <3>2. Serving(m) \ {c.worker} \subseteq Serving(m)'
      BY <1>1, Answered
    <3> QED BY <1>1, <3>1, <3>2, OneLess
  <2>5. \A u \in Workers : runs'[u] \subseteq runs[u]
    BY <1>1, <2>2 DEF TypeOK
  <2> HIDE DEF k, l, over
  <2>6. l + lost[m] >= MaxLoaded[m] + (over - 1) /\ l + lost[m] >= MaxLoaded[m]
    BY <1>2, <1>3, <1>4, <2>1, <2>4
  <2> QED BY <1>1, <1>2, <2>1, <2>3, <2>5, <2>6 DEF Enough, l, over, Serving
<1>6. CASE Unloaded(c)
  <2>1. /\ c.op = "unloaded" /\ UNCHANGED <<runs, lost>> /\ calls' = {}
        /\ excess' = Advance([excess EXCEPT !.over = @ - 1])
    BY <1>1, <1>6 DEF Unloaded
  <2>2. Done' = 0
    BY <2>1 DEF Done
  <2>3. excess' # None => excess'.model = m /\ excess'.over = over - 1
    BY <1>1, <2>1 DEF Advance, Excesses
  <2>4. l = k
    BY <2>1 DEF Serving
  <2> HIDE DEF k, l, over
  <2>5. l + lost[m] >= MaxLoaded[m] + ((over - 1) - 0) /\ l + lost[m] >= MaxLoaded[m]
    BY <1>2, <1>3, <1>4, <2>1, <2>4
  <2> QED BY <1>1, <1>2, <2>1, <2>2, <2>3, <2>5 DEF Enough, l, Serving
<1>7. CASE Fails(c)
  <2>1. runs' = runs /\ excess' = Advance(excess)
        /\ lost' = IF c.op = "unloaded" THEN [lost EXCEPT ![m] = @ + 1] ELSE lost
    BY <1>1, <1>7 DEF Fails
  <2>2. calls' = {}
    BY <1>1, <1>7 DEF Fails, Disturb, Undisturbed, TypeOK
  <2>3. Done' = 0
    BY <2>2 DEF Done
  <2>4. excess' # None => excess'.model = m /\ excess'.over = over
    BY <1>1, <2>1 DEF Advance, Excesses
  <2>5. l = k
    BY <2>1 DEF Serving
  <2>6. lost'[m] = lost[m] + Done /\ \A n \in Models : n # m => lost'[n] = lost[n]
    BY <1>1, <1>2, <1>4, <2>1 DEF TypeOK
  <2>7. Done \in {0, 1}
    BY <1>4
  <2> HIDE DEF k, l, over
  <2>8. l + lost'[m] >= MaxLoaded[m] + (over - 0) /\ l + lost[m] >= MaxLoaded[m]
        /\ l + lost'[m] >= MaxLoaded[m] + 0
    BY <1>2, <1>3, <2>5, <2>6, <2>7
  <2> QED BY <1>1, <1>2, <2>1, <2>3, <2>4, <2>6, <2>8 DEF Enough, l, Serving
<1> QED BY <1>1, <1>5, <1>6, <1>7

LEMMA TrimAnswerQuiet ==
  ASSUME Typed, Quiet, phase = "trim", NEW c \in calls, Answer(c), Undisturbed'
  PROVE  Quiet' /\ Overcounted(c.model)
<1> USE DEF Typed
<1>1. TrimQuiet
  BY DEF Quiet
<1>2. /\ c \in Calls /\ c.by = "trim" /\ c.worker \in Workers /\ calls = {c}
      /\ c.op \in {"unload", "unloaded"} /\ excess # None /\ c.model = excess.model
      /\ c.model \in HardCeilings \ left /\ c.model \in Models
  BY TrimCall
<1>3. /\ UNCHANGED <<report, known, phase, view, left, plan>> /\ healthy' = Workers /\ healthy = Workers
      /\ \A n \in Models : n # c.model => Serving(n) \subseteq Serving(n)'
  BY <1>2, Answered DEF Quiet
<1>4. /\ \A n \in Models : n # c.model => lost'[n] = lost[n]
      /\ \A u \in Workers : runs'[u] \subseteq runs[u]
      /\ Enough(c.model, 0)'
      /\ excess' # None => excess'.model = c.model /\ Enough(c.model, excess.over - Done)'
  BY TrimStep
<1>5. \A n : Overcounted(n)' <=> Overcounted(n)
  BY <1>3, SameView
<1>6. Overcounted(c.model)
  BY <1>1, <1>2 DEF TrimQuiet
<1>7. WithinView' /\ plan' = {}
  BY <1>1, <1>3, <1>4 DEF TrimQuiet, WithinView
<1>8. calls' = Pending({"trim"})'
  BY <1>2, Answered DEF Pending, Calls
<1>9. \A n \in Models, u \in Workers : n # c.model /\ Stands(u, n) => Stands(u, n)'
  BY <1>3 DEF Stands, Serving
<1>10. \A n \in left', u \in Workers : Stands(u, n)'
  BY <1>1, <1>2, <1>3, <1>9 DEF TrimQuiet, TypeOK
<1>11. ASSUME NEW n \in Models, NEW u \in Workers, ~Stands(u, n)'
       PROVE  n \in HardCeilings /\ Enough(n, 0)'
  <2>1. CASE n = c.model
    BY <1>2, <1>4, <2>1
  <2>2. CASE n # c.model
    <3> DEFINE k == Cardinality(Serving(n))
               l == Cardinality(Serving(n)')
    <3>1. n \in HardCeilings /\ Enough(n, 0)
      BY <1>1, <1>9, <1>11, <2>2 DEF TrimQuiet
    <3>2. k \in Nat /\ l \in Nat /\ MaxLoaded[n] \in Nat /\ lost[n] \in Nat
      BY <3>1, CountsTyped, Counted DEF Serving, TypeOK
    <3>3. k <= l
      <4>1. Serving(n)' \in SUBSET Workers
        BY DEF Serving
      <4> QED BY <1>3, <2>2, <4>1, Counted
    <3>4. k + lost[n] >= MaxLoaded[n] + 0 /\ lost'[n] = lost[n]
      BY <1>4, <2>2, <3>1 DEF Enough
    <3> HIDE DEF k, l
    <3>5. l + lost'[n] >= MaxLoaded[n] + 0
      BY <3>2, <3>3, <3>4
    <3> QED BY <3>1, <3>5 DEF l, Enough, Serving
  <2> QED BY <2>1, <2>2
<1>12. (excess # None => Overcounted(excess.model) /\ Enough(excess.model, excess.over - Done))'
  BY <1>4, <1>5, <1>6 DEF Enough, Serving, Overcounted
<1>13. TrimQuiet'
  BY <1>7, <1>8, <1>10, <1>11, <1>12 DEF TrimQuiet, HardCeilings
<1> QED BY <1>3, <1>6, <1>13 DEF Quiet

LEMMA EndQuiet ==
  ASSUME Typed, Quiet, End
  PROVE  Quiet'
BY DEF End, Quiet, ActQuiet, Reconciling, Pending, fleet

LEMMA PlanQuiet ==
  ASSUME Typed, Quiet, Plan
  PROVE  Quiet'
<1> USE DEF Typed
<1>1. /\ phase = "trim" /\ phase' = "act" /\ TrimQuiet /\ healthy = Workers /\ known = Workers
      /\ UNCHANGED <<runs, report, known, healthy, lost, calls>>
      /\ calls = {} /\ view' = [Snapshot EXCEPT !.cool = view.cool]
  BY DEF Plan, Quiet, TrimQuiet, fleet
<1>2. view' \in Views /\ view'.report = report /\ view'.known = Workers
  BY <1>1, SnapshotTyped DEF Views, TypeOK, Snapshot
<1>3. Sound(view', plan')
  <2>1. PICK A \in Plans(view') : plan' = A
    BY DEF Plan
  <2> QED BY <1>2, <2>1, PlansSound DEF TypeOK
<1>4. WithinView'
  BY <1>1, <1>2 DEF TrimQuiet, WithinView
<1>5. ASSUME NEW m \in Models, ~Overcounted(m)'
      PROVE  Loaded(view, m)' <= Cardinality(Serving(m)') + lost'[m]
  <2> DEFINE R == ReadyOn(view', m)
             k == Cardinality(Serving(m))
             n == Cardinality(R)
  <2>1. /\ R \in SUBSET Workers /\ n \in Nat /\ k \in Nat /\ lost[m] \in Nat
        /\ Serving(m) \in SUBSET Workers
    BY <1>1, CountsTyped, Counted DEF ReadyOn, TypeOK
  <2>2. Loaded(view, m)' = n /\ k = Cardinality(Serving(m)') /\ lost'[m] = lost[m]
    BY <1>1 DEF Loaded, ReadyOn, Ready, Serving
  <2>3. CASE R \subseteq Serving(m)
    <3>1. n <= k
      BY <2>1, <2>3, Counted
    <3> HIDE DEF k, n, R
    <3> QED BY <2>1, <2>2, <3>1
  <2>4. CASE ~(R \subseteq Serving(m))
    <3>1. PICK u \in R : u \notin Serving(m)
      BY <2>4
    <3>2. u \in Workers /\ ~Stands(u, m)
      BY <1>1, <1>2, <3>1 DEF ReadyOn, Ready, Serving, Stands, TrimQuiet, WithinView
    <3>3. m \in HardCeilings /\ Enough(m, 0)
      BY <1>1, <3>2 DEF TrimQuiet
    <3>4. MaxLoaded[m] \in Nat /\ k + lost[m] >= MaxLoaded[m] + 0
      BY <3>3, CountsTyped DEF Enough
    <3>5. ~(n > MaxLoaded[m])
      BY <1>5, <2>2, <3>3 DEF Overcounted, HardCeilings
    <3> HIDE DEF k, n, R
    <3> QED BY <2>1, <2>2, <3>4, <3>5
  <2> QED BY <2>3, <2>4
<1>6. Waiting' = plan'
  BY <1>1 DEF Waiting
<1>7. ASSUME NEW x \in plan'
      PROVE  Open(x.worker)'
  <2>0. x \in Actions /\ x.worker \in Workers
    BY <1>3, <1>7 DEF Sound, Proper, Actions
  <2>1. CASE report[x.worker] = {}
    <3>1. runs[x.worker] = {}
      BY <1>1, <2>0, <2>1 DEF TrimQuiet, WithinView
    <3> QED BY <1>1, <1>2, <2>1, <3>1 DEF Open
  <2>2. CASE report[x.worker] # {}
    <3>1. plan' = {x} /\ calls' = {}
      BY <1>1, <1>2, <1>3, <1>7, <2>2 DEF Sound
    <3>2. \A m \in Models : Ready(view', x.worker, m) => MayUnload(view', m)
      BY <1>2, <1>3, <1>7, <2>2 DEF Sound, Proper
    <3>3. \A m \in Models : Ready(view, x.worker, m)' => MayUnload(view, m)'
      BY <1>1, <3>2 DEF Ready, MayUnload, Loaded, ReadyOn
    <3> QED BY <1>2, <1>4, <1>5, <2>2, <3>1, <3>3 DEF Open
  <2> QED BY <2>1, <2>2
<1>8. Reserved' /\ calls' = Pending({"plan"})'
  BY <1>1, <1>3 DEF Sound, Reserved, Pending
<1>9. ASSUME NEW m \in HardCeilings, Loads(m)' # {}
      PROVE  Cardinality(Spread(m)') <= MaxLoaded[m]
  <2> DEFINE L == LoadsOf(plan', m)
             S == {w \in Workers : Running(view', w, m)}
  <2>1. Loads(m)' = {x.worker : x \in L}
    BY <1>1 DEF Loads, LoadsOf
  <2>2. Spread(m)' \subseteq S \cup Loads(m)'
    <3>1. ASSUME NEW w \in Workers, m \in ModelsOn(w)' \cup Reported(w)'
          PROVE  Running(view', w, m)
      <4>1. PICK x \in report[w] : x[1] = m
        BY <1>1, <3>1 DEF ModelsOn, Reported, TrimQuiet, WithinView
      <4>2. report[w] \in Runtimes
        BY DEF TypeOK
      <4> QED BY <1>2, <4>1, <4>2 DEF Running, Runtimes
    <3> QED BY <3>1 DEF Spread
  <2>3. L # {} /\ m \in Models /\ IsFiniteSet(L)
        /\ Occupied(view', m) + Cardinality(L) <= Ceiling(view', m)
    BY <1>3, <1>9, <2>1 DEF Sound, HardCeilings
  <2>4. Occupied(view', m) = Cardinality(S) /\ Ceiling(view', m) = MaxLoaded[m] /\ MaxLoaded[m] \in Nat
    <3>1. Occupied(view', m) = Cardinality(S)
      BY <1>1, <1>2 DEF Occupied
    <3>2. Ceiling(view', m) = MaxLoaded[m] /\ MaxLoaded[m] \in Nat
      BY <1>2, CeilingTyped DEF TypeOK, HardCeilings
    <3> QED BY <3>1, <3>2
  <2> DEFINE W == {x.worker : x \in L}
             f == [x \in L |-> x.worker]
  <2>5. IsFiniteSet(W) /\ Cardinality(W) <= Cardinality(L)
    <3>1. f \in Surjection(L, W)
      BY DEF Surjection
    <3>2. IsFiniteSet(L)
      BY <2>3
    <3> HIDE DEF L, W, f
    <3> QED BY <3>1, <3>2, FS_Surjection
  <2>6. W \in SUBSET Workers /\ S \in SUBSET Workers /\ Spread(m)' \in SUBSET (S \cup W)
    BY <1>3, <2>1, <2>2 DEF LoadsOf, Sound, Proper, Actions
  <2> DEFINE s == Cardinality(S)
             n == Cardinality(W)
             l == Cardinality(L)
             all == Cardinality(S \cup W)
             sp == Cardinality(Spread(m)')
  <2>7. s \in Nat /\ n \in Nat /\ l \in Nat /\ all \in Nat /\ sp \in Nat
    BY <2>3, <2>6, Counted, FS_CardinalityType
  <2>8. sp <= all
    BY <2>6, Counted
  <2>9. all <= s + n
    <3> DEFINE both == Cardinality(S \cap W)
    <3>1. IsFiniteSet(S) /\ IsFiniteSet(W) /\ both \in Nat
      BY <2>6, Counted
    <3>2. all = s + n - both
      BY <3>1, FS_Union
    <3> HIDE DEF all, s, n, both
    <3> QED BY <2>7, <3>1, <3>2
  <2>10. s + l <= MaxLoaded[m] /\ n <= l /\ MaxLoaded[m] \in Nat
    BY <2>3, <2>4, <2>5
  <2> HIDE DEF s, n, l, all, sp
  <2>11. sp <= MaxLoaded[m]
    BY <2>7, <2>8, <2>9, <2>10
  <2> QED BY <2>11 DEF sp
<1>10. ActQuiet'
  BY <1>6, <1>7, <1>8, <1>9 DEF ActQuiet, HardCeilings
<1> QED BY <1>1, <1>10 DEF Quiet

\* Fewer workers are reserved, and the models do not spread.
LEMMA SpreadKept ==
  ASSUME TypeOK, ActQuiet, \A m : Loads(m)' \subseteq Loads(m) /\ Spread(m)' \subseteq Spread(m)
  PROVE  \A m \in HardCeilings : Loads(m)' # {} => Cardinality(Spread(m)') <= MaxLoaded[m]
<1> SUFFICES ASSUME NEW m \in HardCeilings, Loads(m)' # {}
             PROVE  Cardinality(Spread(m)') <= MaxLoaded[m]
  OBVIOUS
<1> DEFINE k == Cardinality(Spread(m))
           l == Cardinality(Spread(m)')
<1>1. k <= MaxLoaded[m]
  BY DEF ActQuiet
<1>2. Spread(m) \in SUBSET Workers /\ k \in Nat /\ MaxLoaded[m] \in Nat
  BY CountsTyped DEF HardCeilings
<1>3. l <= k /\ l \in Nat
  BY <1>2, Counted
<1> HIDE DEF k, l
<1>4. l <= MaxLoaded[m]
  BY <1>1, <1>2, <1>3
<1> QED BY <1>4 DEF l

LEMMA ExecuteQuiet ==
  ASSUME Typed, Quiet, NEW a \in plan, Execute(a)
  PROVE  Quiet'
<1> USE DEF Typed
<1>1. /\ phase = "act" /\ ActQuiet /\ plan' = plan \ {a} /\ a \in Actions
      /\ UNCHANGED <<runs, report, known, healthy, phase, view, lost>>
  BY DEF Execute, Quiet, fleet, TypeOK
<1>2. PICK op \in {"load", "unload"} :
        /\ calls' = calls \/ calls' = calls \cup {Call(op, a.worker, a.model, "plan")}
        /\ op = "load" <=> a.type = "warm"
  BY DEF Execute
<1> DEFINE new == Call(op, a.worker, a.model, "plan")
<1>3. calls' = Pending({"plan"})'
  BY <1>1, <1>2 DEF ActQuiet, Pending, Call
<1>4. Reserved'
  BY <1>1, <1>2 DEF ActQuiet, Reserved, Call
<1>5. \A x \in plan' \cup calls' : \E y \in plan \cup calls : x.worker = y.worker
  BY <1>1, <1>2 DEF Call
<1>6. \A x \in Waiting' : \E y \in Waiting : x.worker = y.worker
  BY <1>1, <1>2 DEF Waiting, Call
<1>7. ASSUME NEW x \in Waiting'
      PROVE  Open(x.worker)'
  <2>1. PICK y \in Waiting : x.worker = y.worker
    BY <1>6
  <2>2. Open(y.worker)
    BY <1>1 DEF ActQuiet
  <2>3. \A n : /\ (Overcounted(n)' <=> Overcounted(n)) /\ (MayUnload(view, n)' <=> MayUnload(view, n))
              /\ Loaded(view, n)' = Loaded(view, n)
    BY <1>1, SameView
  <2>4. CASE view.report[y.worker] = {}
    BY <1>1, <2>1, <2>2, <2>4 DEF Open
  <2>5. CASE view.report[y.worker] # {}
    <3>1. \A z \in plan' \cup calls' : z.worker = x.worker
      BY <1>5, <2>1, <2>2, <2>5 DEF Open
    <3>2. WithinView'
      BY <1>1, <2>2, <2>5 DEF Open, WithinView
    <3>3. \A m \in Models : ~Overcounted(m)' => Loaded(view, m)' <= Cardinality(Serving(m)') + lost'[m]
      BY <1>1, <2>2, <2>3, <2>5 DEF Open, Serving
    <3>4. \A m \in Models : Ready(view, x.worker, m)' => MayUnload(view, m)'
      BY <1>1, <2>1, <2>2, <2>3, <2>5 DEF Open, Ready
    <3> QED BY <1>1, <2>1, <2>5, <3>1, <3>2, <3>3, <3>4 DEF Open
  <2> QED BY <2>4, <2>5
<1>8. \A m : Loads(m)' \subseteq Loads(m)
  BY <1>1, <1>2 DEF Loads, Call
<1>9. \A m : Spread(m)' \subseteq Spread(m)
  BY <1>1, <1>8 DEF Spread, ModelsOn, Reported
<1>10. ActQuiet'
  BY <1>1, <1>3, <1>4, <1>7, <1>8, <1>9, SpreadKept DEF ActQuiet, HardCeilings
<1> QED BY <1>1, <1>10 DEF Quiet

LEMMA ActAnswerQuiet ==
  ASSUME Typed, Quiet, phase = "act", NEW c \in calls, Answer(c), Undisturbed'
  PROVE  Quiet'
<1> USE DEF Typed
<1>1. ActQuiet /\ healthy = Workers /\ c \in Calls /\ c.worker \in Workers
  BY DEF Quiet, TypeOK, Calls
<1>2. /\ UNCHANGED <<report, known, phase, view, left, plan>> /\ healthy' = Workers
      /\ \A u \in Workers : u # c.worker => runs'[u] = runs[u]
      /\ \A u \in Workers : ModelsOn(u)' \subseteq ModelsOn(u) \cup
                              (IF c.op = "load" /\ u = c.worker THEN {c.model} ELSE {})
  BY <1>1, Answered
<1>3. \A d \in calls' :
        \/ d \in calls \ {c}
        \/ d.op \in {"loading", "unloaded"} /\ d.worker = c.worker /\ d.by = c.by
  BY <1>1, Answered DEF Calls
<1>4. calls' = Pending({"plan"})'
  BY <1>1, <1>3 DEF ActQuiet, Pending
<1>5. Reserved'
  <2>1. \A d, e \in calls' : d.worker = e.worker => d = e
    BY <1>1, Answered DEF ActQuiet, Reserved, Calls
  <2> QED BY <1>1, <1>2, <1>3, <2>1 DEF ActQuiet, Reserved
<1>6. \A x \in Waiting' : x \in Waiting /\ x.worker # c.worker /\ x.worker \in Workers
  BY <1>1, <1>2, <1>3 DEF Waiting, ActQuiet, Reserved, TypeOK, Actions
<1>7. ASSUME NEW x \in Waiting'
      PROVE  Open(x.worker)'
  <2>1. Open(x.worker) /\ x.worker # c.worker /\ x.worker \in Workers
    BY <1>1, <1>6 DEF ActQuiet
  <2>2. view.report[x.worker] = {}
    BY <2>1 DEF Open
  <2> QED BY <1>2, <2>1, <2>2 DEF Open
<1>8. \A m : Loads(m)' \subseteq Loads(m)
  BY <1>2, <1>3 DEF Loads
<1>9. \A m : Spread(m)' \subseteq Spread(m)
  <2>1. c.op = "load" => c.worker \in Loads(c.model)
    BY DEF Loads
  <2> QED BY <1>2, <1>8, <2>1 DEF Spread, Reported
<1>10. ActQuiet'
  BY <1>1, <1>4, <1>5, <1>7, <1>8, <1>9, SpreadKept DEF ActQuiet, HardCeilings
<1> QED BY <1>1, <1>2, <1>10 DEF Quiet

LEMMA DisturbedStays ==
  ASSUME TypeOK, [Next]_vars, Undisturbed'
  PROVE  Undisturbed
<1>1. CASE \E c \in calls : Answer(c)
  BY <1>1, Answered
<1>2. CASE ~ \E c \in calls : Answer(c)
  <2>1. \/ spent'.disturbances = spent.disturbances
        \/ spent'.disturbances = spent.disturbances + 1
    BY <1>2 DEF Next, Reconcile, Begin, Plan, End, CheckCeiling, Trim, Execute, AdminWarm, AdminUnload,
       Disturb, Respond, Route, NoReady, Forget, Heartbeat, Silence, vars, TypeOK
  <2>2. spent.disturbances \in Nat
    BY DEF TypeOK
  <2> QED BY <2>1, <2>2 DEF Undisturbed
<1> QED BY <1>1, <1>2

LEMMA QuietKept ==
  ASSUME Typed, Quiet, [Next]_vars, Undisturbed, Undisturbed'
  PROVE  Quiet'
<1> USE DEF Typed
<1>1. CASE UNCHANGED vars
  <2>1. UNCHANGED <<runs, report, known, healthy, phase, view, left, excess, lost, plan, calls>>
    BY <1>1 DEF vars, fleet, cycle
  <2>2. \A m : /\ (Overcounted(m)' <=> Overcounted(m)) /\ (MayUnload(view, m)' <=> MayUnload(view, m))
              /\ Loaded(view, m)' = Loaded(view, m)
    BY <2>1, SameView
  <2>3. /\ \A m : Serving(m)' = Serving(m) /\ Loads(m)' = Loads(m) /\ Spread(m)' = Spread(m)
        /\ \A w, m : Stands(w, m)' <=> Stands(w, m)
        /\ WithinView' <=> WithinView
        /\ \A m, n : Enough(m, n)' <=> Enough(m, n)
        /\ Done' = Done
    BY <2>1 DEF Serving, Loads, Spread, ModelsOn, Reported, Stands, WithinView, Enough, Done
  <2>4. TrimQuiet => TrimQuiet'
    <3> SUFFICES ASSUME TrimQuiet PROVE TrimQuiet'
      OBVIOUS
    <3>1. (excess # None => Overcounted(excess.model) /\ Enough(excess.model, excess.over - Done))'
      BY <2>1, <2>2, <2>3 DEF TrimQuiet, Enough, Overcounted
    <3> QED BY <2>1, <2>3, <3>1 DEF TrimQuiet, Pending, HardCeilings
  <2>5. ActQuiet => ActQuiet'
    <3> SUFFICES ASSUME ActQuiet PROVE ActQuiet'
      OBVIOUS
    <3>1. \A w : Open(w) => Open(w)'
      BY <2>1, <2>2, <2>3 DEF Open, Ready
    <3>2. Reserved' /\ Waiting' = Waiting /\ calls' = Pending({"plan"})'
      BY <2>1 DEF ActQuiet, Reserved, Waiting, Pending
    <3> QED BY <2>3, <3>1, <3>2 DEF ActQuiet, HardCeilings
  <2> QED BY <2>1, <2>4, <2>5 DEF Quiet
<1>2. CASE \E c \in calls : Answer(c)
  <2>1. PICK c \in calls : Answer(c)
    BY <1>2
  <2>2. phase \in {"trim", "act"}
    BY <2>1 DEF Quiet, TypeOK
  <2> QED BY <2>1, <2>2, TrimAnswerQuiet, ActAnswerQuiet
<1>3. CASE \/ \E r \in Requests : Respond(r) \/ \E m \in Models : Route(r, m)
           \/ \E m \in Models : NoReady(m)
           \/ Forget
           \/ \E w \in Workers : Heartbeat(w)
  BY <1>3, TrafficQuiet
<1>4. ASSUME \/ \E w \in Workers, m \in Models : AdminWarm(w, m) \/ AdminUnload(w, m)
             \/ \E w \in Workers : Silence(w)
      PROVE  FALSE
  <2>1. spent' = [spent EXCEPT !.disturbances = @ + 1]
    BY <1>4 DEF AdminWarm, AdminUnload, Disturb, Silence
  <2> QED BY <2>1 DEF Undisturbed, TypeOK
<1>5. CASE Reconcile
  BY <1>5, BeginQuiet, CheckQuiet, TrimKeepsQuiet, PlanQuiet, ExecuteQuiet, EndQuiet DEF Reconcile
<1> QED BY <1>1, <1>2, <1>3, <1>4, <1>5 DEF Next

\* While nobody else disturbs the reconciler nothing runs that a cycle did not
\* see, what is missing is what the cycle took itself, down to the ceiling and
\* one more for each unload that was done and answered with an error, and every
\* worker is reserved for one action until its call has been answered
\* (reconcile.go, Reconcile).
THEOREM ReconcilerInvariance == Spec => []ReconcilerInv
<1>1. Init => ReconcilerInv
  <2> SUFFICES ASSUME Init PROVE ReconcilerInv
    OBVIOUS
  <2>1. Quiet
    BY DEF Init, Quiet
  <2> QED BY <2>1, InitTyped DEF ReconcilerInv
<1>2. ASSUME ReconcilerInv, [Next]_vars PROVE ReconcilerInv'
  <2>1. Typed /\ Typed'
    BY <1>2, TypedKept DEF ReconcilerInv
  <2>2. Undisturbed' => Undisturbed
    BY <1>2, DisturbedStays DEF ReconcilerInv, Typed
  <2>3. Undisturbed' => Quiet'
    BY <1>2, <2>1, <2>2, QuietKept DEF ReconcilerInv
  <2> QED BY <2>1, <2>3 DEF ReconcilerInv
<1> QED BY <1>1, <1>2, PTL DEF Spec
-----------------------------------------------------------------------------
(***************************************************************************)
(* The bounds.                                                             *)
(***************************************************************************)

\* What a call that reaches its worker does to a model that met its floor.
LEMMA FloorHeld ==
  ASSUME Typed, Quiet, NEW c \in calls, Answer(c), Undisturbed', NEW m \in Models,
         Cardinality(Serving(m)) >= MinLoaded[m], ~Overcounted(m)
  PROVE  Cardinality(Serving(m)') >= MinLoaded[m] - lost[m]
<1> USE DEF Typed
<1> DEFINE k == Cardinality(Serving(m))
           l == Cardinality(Serving(m)')
<1>1. /\ k \in Nat /\ l \in Nat /\ MinLoaded[m] \in Nat /\ k >= MinLoaded[m] /\ healthy = Workers
      /\ lost[m] \in Nat
  BY ReconcilerAssumption, CountsTyped, Counted DEF Serving, ReconcilerAssumption, Quiet, TypeOK
<1>2. Serving(m) \in SUBSET Workers /\ Serving(m)' \in SUBSET Workers
  BY DEF Serving
<1>3. CASE Serving(m) \subseteq Serving(m)'
  <2>1. k <= l
    BY <1>2, <1>3, Counted
  <2> HIDE DEF k, l
  <2>2. l >= MinLoaded[m] - lost[m]
    BY <1>1, <2>1
  <2> QED BY <2>2 DEF l
<1>4. CASE ~(Serving(m) \subseteq Serving(m)')
  <2>1. /\ Serving(m) \ {c.worker} \subseteq Serving(m)'
        /\ c.op \notin {"loading", "unloaded"} /\ ~Fails(c) /\ ~(c.op = "unload" /\ m # c.model)
    BY <1>4, Answered
  <2>2. c.worker \in Serving(m)
    BY <1>4, <2>1
  <2>3. phase = "act"
    <3>1. phase # "idle"
      BY DEF Quiet
    <3>2. phase # "trim"
      <4> SUFFICES ASSUME phase = "trim" PROVE FALSE
        OBVIOUS
      <4>1. c.op \in {"unload", "unloaded"}
        BY TrimCall
      <4>2. m = c.model
        BY <2>1, <4>1
      <4>3. Overcounted(c.model)
        BY TrimAnswerQuiet
      <4> QED BY <4>2, <4>3
    <3> QED BY <3>1, <3>2 DEF TypeOK
  <2>4. Open(c.worker) /\ c.worker \in Workers
    BY <2>1, <2>3 DEF Quiet, ActQuiet, Waiting, TypeOK
  <2>5. runs[c.worker] # {} /\ <<m, "ready">> \in runs[c.worker]
    BY <2>2 DEF Serving
  <2>6. /\ WithinView /\ Loaded(view, m) <= Cardinality(Serving(m)) + lost[m]
        /\ Ready(view, c.worker, m) => MayUnload(view, m)
    BY <2>4, <2>5 DEF Open
  <2>7. MayUnload(view, m)
    BY <2>4, <2>5, <2>6 DEF WithinView, Ready
  <2> DEFINE n == Loaded(view, m)
  <2>8. n <= k + lost[m] /\ n \in Nat
    BY <1>1, <2>6, CeilingTyped DEF TypeOK
  <2>9. n > MinLoaded[m] \/ MinLoaded[m] = 0
    BY <2>7 DEF MayUnload
  <2>10. l >= k - 1
    BY <1>2, <2>1, OneLess
  <2> HIDE DEF k, l, n
  <2>11. l >= MinLoaded[m] - lost[m]
    BY <1>1, <2>8, <2>9, <2>10
  <2> QED BY <2>11 DEF l
<1> QED BY <1>3, <1>4

\* A load that is about to reach its worker has room below the hard ceiling.
LEMMA CeilingHeld ==
  ASSUME Typed, Quiet, NEW c \in calls, c.op = "load", MaxLoaded[c.model] # AutoMax,
         c.model \notin ModelsOn(c.worker)
  PROVE  Cardinality({w \in healthy : c.model \in ModelsOn(w)}) < MaxLoaded[c.model]
<1> USE DEF Typed
<1> DEFINE m == c.model
           S == {w \in healthy : m \in ModelsOn(w)}
           k == Cardinality(Spread(m))
           n == Cardinality(S)
<1>1. c.worker \in Workers /\ m \in Models /\ m \in HardCeilings
  BY DEF TypeOK, HardCeilings
<1>2. ActQuiet
  <2>1. phase # "trim"
    BY TrimCall
  <2> QED BY <2>1 DEF Quiet, TypeOK
<1>3. c.worker \in Loads(m)
  BY DEF Loads
<1>4. k <= MaxLoaded[m]
  BY <1>1, <1>2, <1>3 DEF ActQuiet
<1>5. Spread(m) \in SUBSET Workers /\ k \in Nat /\ MaxLoaded[m] \in Nat
  BY <1>1, CountsTyped
<1>6. S \in SUBSET Spread(m) /\ S # Spread(m)
  BY <1>1, <1>3 DEF Spread, TypeOK
<1>7. n < k
  BY <1>5, <1>6, Counted
<1>8. n \in Nat
  BY <1>5, <1>6, Counted
<1> HIDE DEF n, k, S, m
<1>9. n < MaxLoaded[m]
  BY <1>4, <1>5, <1>7, <1>8
<1> QED BY <1>9 DEF n, S, m

\* The calls of a cycle arrive while requests and heartbeats go on and calls fail,
\* and still do what the plan meant (reconcile.go, Reconcile) as long as nobody
\* else disturbs: they load no model beyond its hard ceiling, and take none below
\* its floor or, beyond a ceiling, below that, but for one replica for each unload
\* that was done and answered with an error.
THEOREM BoundsAreHeld == Spec => BoundsHold
<1> DEFINE Held(c) ==
             /\ \A m \in Models : ServingWell(m) >= MinLoaded[m] /\ ~Overcounted(m)
                                  => ServingWell(m)' >= MinLoaded[m] - lost[m]
             /\ c.op = "load" /\ MaxLoaded[c.model] # AutoMax
                  => \/ Cardinality({w \in healthy : c.model \in ModelsOn(w)}) < MaxLoaded[c.model]
                     \/ c.model \in ModelsOn(c.worker)
             /\ c.by = "trim"
                  => ServingWell(c.model)' >= Min({ServingWell(c.model), MaxLoaded[c.model] - lost[c.model]})
           Step == Undisturbed' => \A c \in Reconciling : c \notin calls' => Held(c)
<1>1. ASSUME ReconcilerInv, [Next]_vars PROVE Step
  <2> SUFFICES ASSUME Undisturbed', NEW c \in Reconciling, c \notin calls'
               PROVE  Held(c)
    OBVIOUS
  <2>1. Typed /\ Quiet /\ TypeOK /\ c \in calls
    BY <1>1, DisturbedStays DEF ReconcilerInv, Typed, Reconciling, Pending
  <2>2. Answer(c)
    <3>1. CASE \E d \in calls : Answer(d)
      <4>1. PICK d \in calls : Answer(d)
        BY <3>1
      <4>2. c = d
        BY <2>1, <4>1, Answered
      <4> QED BY <4>1, <4>2
    <3>2. CASE ~ \E d \in calls : Answer(d)
      <4>1. calls \subseteq calls'
        BY <1>1, <3>2 DEF Next, Reconcile, Begin, Plan, End, CheckCeiling, Trim, Execute,
           AdminWarm, AdminUnload, Respond, Route, NoReady, Forget, Heartbeat, Silence, vars
      <4> QED BY <2>1, <4>1
    <3> QED BY <3>1, <3>2
  <2>3. healthy = Workers /\ healthy' = Workers
    BY <2>1, <2>2, Answered DEF Quiet
  <2>4. \A m : ServingWell(m) = Cardinality(Serving(m)) /\ ServingWell(m)' = Cardinality(Serving(m)')
    BY <2>3 DEF ServingWell, Serving
  <2>5. ASSUME NEW m \in Models, ServingWell(m) >= MinLoaded[m], ~Overcounted(m)
        PROVE  ServingWell(m)' >= MinLoaded[m] - lost[m]
    BY <2>1, <2>2, <2>4, <2>5, FloorHeld
  <2>6. c.op = "load" /\ MaxLoaded[c.model] # AutoMax
          => \/ Cardinality({w \in healthy : c.model \in ModelsOn(w)}) < MaxLoaded[c.model]
             \/ c.model \in ModelsOn(c.worker)
    BY <2>1, CeilingHeld
  <2>7. ASSUME c.by = "trim"
        PROVE  ServingWell(c.model)' >= Min({ServingWell(c.model), MaxLoaded[c.model] - lost[c.model]})
    <3> DEFINE k == Cardinality(Serving(c.model))
               l == Cardinality(Serving(c.model)')
               max == MaxLoaded[c.model] - lost[c.model]
    <3>1. phase = "trim"
      BY <2>1, <2>7 DEF Typed, TrimProper, Pending
    <3>2. /\ c.model \in Models /\ c.model \in HardCeilings
          /\ l + lost[c.model] >= MaxLoaded[c.model]
      BY <2>1, <2>2, <3>1, TrimCall, TrimStep
    <3>3. k \in Int /\ l \in Int /\ max \in Int /\ l >= max
      <4>1. k \in Nat /\ l \in Nat /\ MaxLoaded[c.model] \in Nat /\ lost[c.model] \in Nat
        BY <2>1, <3>2, CountsTyped, Counted DEF Serving, TypeOK
      <4> HIDE DEF k, l
      <4> QED BY <3>2, <4>1 DEF l
    <3> HIDE DEF k, l, max
    <3>4. Min({k, max}) \in {k, max} /\ Min({k, max}) <= max
      BY ONLY <3>3, MinOfTwo
    <3>5. l >= Min({k, max})
      BY ONLY <3>3, <3>4
    <3> QED BY <2>4, <3>5 DEF k, l, max
  <2> QED BY <2>5, <2>6, <2>7
<1> QED BY <1>1, ReconcilerInvariance, PTL DEF Spec, BoundsHold
=============================================================================
