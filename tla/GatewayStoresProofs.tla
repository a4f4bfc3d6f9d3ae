------------------------ MODULE GatewayStoresProofs ------------------------
(***************************************************************************)
(* Proofs about what a gateway is configured with, for any number of       *)
(* goroutines, processes, configurations and models, with no bound on how  *)
(* often anything happens: no revision is handed out twice and the store   *)
(* implements the counter; what is served only gets newer; a promotion and *)
(* its rollback keep the rest of the file, and a promotion can be taken    *)
(* back.                                                                   *)
(***************************************************************************)
EXTENDS GatewayStores, Sequences, FiniteSetTheorems, TLAPS

(***************************************************************************)
(* The revision store.                                                     *)
(***************************************************************************)

\* A call in progress has returned nothing yet; what was returned is in the
\* file's past, strictly so while a new number is on its way out.
ResultsPast ==
  \A c \in Callers :
    /\ pc[c] # "idle" => result[c] = 0
    /\ result[c] <= document
    /\ pc[c] = "saved" => \A d \in Callers : result[d] < document

ResultsDiffer ==
  \A c, d \in Callers : (result[c] = result[d] /\ result[c] # 0) => c = d

IInv == TypeOK /\ ReadIsFresh /\ ResultsPast /\ ResultsDiffer

LEMMA InitIInv == Init => IInv
<1> SUFFICES ASSUME Init PROVE IInv
  OBVIOUS
<1>1. TypeOK
  BY RevisionStoreAssumption DEF Init, TypeOK, PCs
<1>2. ReadIsFresh
  BY DEF Init, ReadIsFresh, Inside
<1>3. ResultsPast /\ ResultsDiffer
  BY DEF Init, ResultsPast, ResultsDiffer
<1> QED
  BY <1>1, <1>2, <1>3 DEF IInv

LEMMA EnterIInv == ASSUME IInv, NEW c \in Callers, Enter(c) PROVE IInv'
<1> USE RevisionStoreAssumption DEF IInv, Enter
<1>1. TypeOK'
  BY DEF TypeOK, PCs
<1>2. ReadIsFresh'
  BY DEF TypeOK, ReadIsFresh, Inside
<1>3. ResultsPast'
  BY DEF TypeOK, ResultsPast
<1>4. ResultsDiffer'
  BY DEF TypeOK, ResultsDiffer
<1> QED
  BY <1>1, <1>2, <1>3, <1>4

LEMMA LockIInv == ASSUME IInv, NEW c \in Callers, Lock(c) PROVE IInv'
<1> USE RevisionStoreAssumption DEF IInv, Lock, Free
<1>1. TypeOK'
  BY DEF TypeOK, PCs
<1>2. ReadIsFresh'
  BY DEF TypeOK, ReadIsFresh, Inside
<1>3. ResultsPast' /\ ResultsDiffer'
  BY DEF TypeOK, ResultsPast, ResultsDiffer
<1> QED
  BY <1>1, <1>2, <1>3

LEMMA LoadIInv == ASSUME IInv, NEW c \in Callers, Load(c) PROVE IInv'
<1> USE RevisionStoreAssumption DEF IInv, Load
<1>1. TypeOK'
  BY DEF TypeOK, PCs
<1>2. ReadIsFresh'
  BY DEF TypeOK, ReadIsFresh, Inside
<1>3. ResultsPast' /\ ResultsDiffer'
  BY DEF TypeOK, ResultsPast, ResultsDiffer
<1> QED
  BY <1>1, <1>2, <1>3

\* Only the holder of the lock is inside, so nobody else has read a number.
LEMMA SaveIInv == ASSUME IInv, NEW c \in Callers, Save(c) PROVE IInv'
<1> USE RevisionStoreAssumption DEF IInv, Save, MayGrow
<1>1. document' = document + 1
  BY DEF ReadIsFresh
<1>2. TypeOK'
  BY DEF TypeOK, PCs
<1>3. ReadIsFresh'
  <2>1. \A d \in Callers : d # c => ~Inside(d)
    BY DEF ReadIsFresh, Inside
  <2> QED
    BY <2>1 DEF TypeOK, ReadIsFresh, Inside
<1>4. ResultsPast'
  BY <1>1 DEF TypeOK, ResultsPast
<1>5. ResultsDiffer'
  BY DEF ResultsDiffer
<1> QED
  BY <1>2, <1>3, <1>4, <1>5

LEMMA ReturnIInv == ASSUME IInv, NEW c \in Callers, Return(c) PROVE IInv'
<1> USE RevisionStoreAssumption DEF IInv, Return, Released
<1>1. result' = [result EXCEPT ![c] = document]
  BY DEF ReadIsFresh
<1>2. TypeOK'
  BY <1>1 DEF TypeOK, PCs
<1>3. \A d \in Callers : d # c => ~Inside(d)
  BY DEF ReadIsFresh, Inside
<1>4. ReadIsFresh'
  BY <1>3 DEF TypeOK, ReadIsFresh, Inside
<1>5. ResultsPast'
  BY <1>1, <1>3 DEF TypeOK, ResultsPast, Inside
<1>6. ResultsDiffer'
  BY <1>1 DEF TypeOK, ResultsPast, ResultsDiffer
<1> QED
  BY <1>2, <1>4, <1>5, <1>6

LEMMA FailIInv == ASSUME IInv, NEW c \in Callers, Fail(c) PROVE IInv'
<1> USE RevisionStoreAssumption DEF IInv, Fail, Released
<1>1. TypeOK'
  BY DEF TypeOK, PCs
<1>2. ReadIsFresh'
  BY DEF TypeOK, ReadIsFresh, Inside
<1>3. ResultsPast' /\ ResultsDiffer'
  BY DEF TypeOK, ResultsPast, ResultsDiffer
<1> QED
  BY <1>1, <1>2, <1>3

LEMMA CrashIInv == ASSUME IInv, NEW p \in Processes, Crash(p) PROVE IInv'
<1> USE RevisionStoreAssumption DEF IInv, Crash
<1>1. TypeOK'
  BY DEF TypeOK, PCs
<1>2. ReadIsFresh'
  BY DEF TypeOK, ReadIsFresh, Inside
<1>3. ResultsPast'
  BY DEF TypeOK, ResultsPast
<1>4. ResultsDiffer'
  BY DEF TypeOK, ResultsDiffer
<1> QED
  BY <1>1, <1>2, <1>3, <1>4

LEMMA NextIInv == IInv /\ [Next]_vars => IInv'
<1> SUFFICES ASSUME IInv, [Next]_vars PROVE IInv'
  OBVIOUS
<1>1. ASSUME NEW c \in Callers, Step(c) PROVE IInv'
  BY <1>1, EnterIInv, LockIInv, LoadIInv, SaveIInv, ReturnIInv, FailIInv DEF Step
<1>2. ASSUME NEW p \in Processes, Crash(p) PROVE IInv'
  BY <1>2, CrashIInv
<1>3. ASSUME UNCHANGED vars PROVE IInv'
  BY <1>3 DEF vars, IInv, TypeOK, ReadIsFresh, Inside, ResultsPast, ResultsDiffer
<1> QED
  BY <1>1, <1>2, <1>3 DEF Next

LEMMA SpecIInv == Spec => []IInv
  BY InitIInv, NextIInv, PTL DEF Spec

\* Type correctness.
THEOREM TypeCorrect == Spec => []TypeOK
<1>1. IInv => TypeOK
  BY DEF IInv
<1> QED
  BY <1>1, SpecIInv, PTL

\* What a goroutine read under the lock is what the file holds when it writes
\* (config_revision_store.go Allocate).
THEOREM ReadsAreFresh == Spec => []ReadIsFresh
<1>1. IInv => ReadIsFresh
  BY DEF IInv
<1> QED
  BY <1>1, SpecIInv, PTL

LEMMA IInvDistinct == IInv => NoRevisionTwice
<1> SUFFICES ASSUME IInv, NEW c \in Callers, NEW d \in Callers,
                    held[c] = held[d], held[c] # 0
             PROVE  c = d
  BY DEF NoRevisionTwice
<1>1. CASE pc[c] = "saved" /\ pc[d] = "saved"
  BY <1>1 DEF IInv, ReadIsFresh, Inside
<1>2. CASE pc[c] # "saved" /\ pc[d] # "saved"
  BY <1>2 DEF IInv, ResultsDiffer, held
<1>3. CASE pc[c] = "saved" /\ pc[d] # "saved"
  BY <1>3 DEF IInv, TypeOK, ReadIsFresh, ResultsPast, held
<1>4. CASE pc[c] # "saved" /\ pc[d] = "saved"
  BY <1>4 DEF IInv, TypeOK, ReadIsFresh, ResultsPast, held
<1> QED
  BY <1>1, <1>2, <1>3, <1>4

\* No two calls, of any process, hold the same revision ("strictly increasing
\* across every caller").
THEOREM RevisionsAreUnique == Spec => []NoRevisionTwice
  BY IInvDistinct, SpecIInv, PTL

LEMMA StepNeverBack == IInv /\ [Next]_vars => [document' >= document]_document
<1> SUFFICES ASSUME IInv, [Next]_vars, document' # document
             PROVE  document' >= document
  BY DEF IInv
<1>1. PICK c \in Callers : Save(c)
  BY DEF Next, Step, Enter, Lock, Load, Return, Fail, Crash, vars
<1> QED
  BY <1>1 DEF IInv, TypeOK, ReadIsFresh, Save

\* The number in the state file never goes back.
THEOREM FileNeverBack == Spec => NeverBack
<1>1. IInv /\ [Next]_vars => [document' >= document]_document
  BY StepNeverBack
<1> QED
  BY <1>1, SpecIInv, PTL DEF Spec, NeverBack

LEMMA InitCounter == Init => Counter!Init
BY DEF Init, Counter!Init, held

\* Save is the counter's step; a call that starts, fails or dies forgets.
LEMMA StepCounter == IInv /\ [Next]_vars => [Counter!Next]_<<document, held>>
<1> SUFFICES ASSUME IInv, [Next]_vars PROVE [Counter!Next]_<<document, held>>
  OBVIOUS
<1>1. ASSUME NEW c \in Callers, Save(c) PROVE Counter!Allocate(c)
  <2>1. document < MaxRev /\ document' = document + 1
    BY <1>1 DEF IInv, ReadIsFresh, Save, MayGrow
  <2>2. held' = [held EXCEPT ![c] = document + 1]
    BY <1>1 DEF IInv, TypeOK, ReadIsFresh, Save, MayGrow, held
  <2> QED
    BY <2>1, <2>2 DEF Counter!Allocate
<1>2. ASSUME NEW c \in Callers, Enter(c) \/ Fail(c)
      PROVE  Counter!Forget({c}) \/ UNCHANGED <<document, held>>
  <2>1. CASE Enter(c)
    BY <2>1 DEF IInv, TypeOK, Enter, held, Counter!Forget
  <2>2. CASE Fail(c)
    BY <2>2 DEF IInv, TypeOK, ResultsPast, Fail, Released, held, Counter!Forget
  <2> QED
    BY <1>2, <2>1, <2>2
<1>3. ASSUME NEW c \in Callers, Lock(c) \/ Load(c) \/ Return(c) PROVE UNCHANGED <<document, held>>
  BY <1>3 DEF IInv, TypeOK, Lock, Load, Return, Released, held
<1>4. ASSUME NEW p \in Processes, Crash(p)
      PROVE  Counter!Forget({c \in Callers : ProcessOf(c) = p})
  BY <1>4 DEF Crash, held, Counter!Forget
<1>5. ASSUME UNCHANGED vars PROVE UNCHANGED <<document, held>>
  BY <1>5 DEF vars, held
<1> QED
  BY <1>1, <1>2, <1>3, <1>4, <1>5 DEF Next, Step, Counter!Next

\* The file store implements the counter that its interface promises.
THEOREM StoreImplementsCounter == Spec => Refinement
<1>1. Init => Counter!Init
  BY InitCounter
<1>2. IInv /\ [Next]_vars => [Counter!Next]_<<document, held>>
  BY StepCounter
<1> QED
  BY <1>1, <1>2, SpecIInv, PTL DEF Spec, Refinement, Counter!Spec
-----------------------------------------------------------------------------
(***************************************************************************)
(* The configuration manager.                                              *)
(***************************************************************************)

\* Only a process has an operation under way, and its revision is allocated.
TxnLives ==
  txn # None => /\ txn.rev <= store
                /\ txn.step # "committed" => mem # None

\* What was served is in the past of the counter; what a hot operation is about
\* to publish is newer than all of it; and what runs was served.
ServedPast ==
  /\ \A s \in configServed : s[1] <= store
  /\ txn # None /\ txn.hot /\ txn.step # "committed" => \A s \in configServed : s[1] < txn.rev
  /\ mem # None => <<mem.version, mem.cfg>> \in configServed

Untouched == txn = None \/ txn.step \in {"begun", "prepared"}

\* The manager's copy is the file, unless an operation wrote another one or
\* nothing whole.
FileIsKnown ==
  /\ mem # None /\ (Untouched \/ txn.step = "committed") /\ file # Torn => file = mem.file
  /\ txn # None /\ txn.step = "writing" => file = Torn
  /\ txn # None /\ txn.step = "written" => file = txn.file

\* A promotion or a rollback is about the model namespace.
TransactionProper ==
  txn # None /\ txn.op # "apply" =>
    /\ Config!SameNamespace(txn.cfg, txn.file)
    /\ txn.step \in {"begun", "prepared"} =>
         /\ txn.file.tokens = mem.file.tokens
         /\ txn.file.store = mem.file.store
         /\ txn.file.secret = mem.file.secret

\* A configuration that the archive can be taken back from.
CanGoBack(c, archive) ==
  /\ c.old = None /\ c.alias
  /\ ~archive.rolledBack
  /\ \A t \in DOMAIN archive.after : c.policies[t] = archive.after[t]

\* A promotion numbers its archive by the next number, and writes what it says.
PromotionProper ==
  txn # None /\ txn.op = "promote" =>
    /\ txn.id # 0
    /\ txn.step = "begun" => DOMAIN archives = 1 .. (txn.id - 1)
    /\ txn.step = "prepared" => DOMAIN archives = 1 .. txn.id /\ archives[txn.id] = txn.archive
    /\ txn.step \in {"begun", "prepared"} =>
         CanGoBack(txn.file, txn.archive) /\ (origin # None => origin # txn.id)

\* What else writes the file ends the promotion it came from.
ApplyProper ==
  txn # None /\ txn.op = "apply" /\ txn.step # "begun" => origin = None

RollbackProper ==
  txn # None /\ txn.op = "rollback" =>
    /\ txn.id \in DOMAIN archives
    /\ txn.step \in {"written", "committed"} => origin = None

\* No service name is the only model of a tag.
OthersRemain == {"old"} \notin Config!Lists

\* Config!Archives of promotions in which no list was emptied.
NothingEmptied(archive) == OthersRemain => \A t \in DOMAIN archive.after : archive.after[t] # {}

ArchivesProper ==
  /\ \A i \in DOMAIN archives : NothingEmptied(archives[i])
  /\ txn # None /\ txn.op = "promote" => NothingEmptied(txn.archive)

\* The promotion that the file comes from.
OriginProper ==
  origin # None =>
    /\ origin \in DOMAIN archives
    /\ file # Torn
    /\ CanGoBack(file, archives[origin])
    /\ mem # None /\ Untouched => Config!SameNamespace(mem.cfg, mem.file)

ManagerInv ==
  /\ Config!TypeOK /\ TxnLives /\ ServedPast /\ FileIsKnown /\ TransactionProper
  /\ PromotionProper /\ ApplyProper /\ RollbackProper /\ ArchivesProper /\ OriginProper
-----------------------------------------------------------------------------
(* Configurations.                                                         *)

LEMMA ManagerAssumed == Config!ConfigManagerAssumption
  BY GatewayStoresAssumption DEF GatewayStoresAssumption

\* A configuration that is taken from the records an operator submits.
LEMMA SubmittedTyped ==
  /\ Config!Submitted \subseteq Config!Files
  /\ Torn \notin Config!Files
  /\ None \notin Config!Operations
  BY ManagerAssumed DEF Config!ConfigManagerAssumption, Config!Files

\* The namespace of one configuration, everything else of another.
LEMMA NamespaceTyped ==
  ASSUME NEW c \in Config!Files, NEW d \in Config!Files
  PROVE  LET n == Config!Namespace(c, d) IN
           /\ n \in Config!Files
           /\ n.tokens = c.tokens /\ n.store = c.store /\ n.secret = c.secret
           /\ n.old = d.old /\ n.alias = d.alias /\ n.target = d.target /\ n.policies = d.policies
  BY DEF Config!Namespace, Config!Files

LEMMA RestoredTyped ==
  ASSUME Config!TypeOK, mem # None, NEW y \in Yamls
  PROVE  Config!Restored(y) \in Config!Files
  BY SubmittedTyped DEF Config!Restored, Config!Files, Config!Submitted, Config!TypeOK,
     Config!Operations, Config!Memories

LEMMA PinnedTyped ==
  ASSUME Config!TypeOK, mem # None, NEW c \in Config!Files
  PROVE  Config!Pinned(c) \in Config!Files
  BY DEF Config!Pinned, Config!Files, Config!TypeOK, Config!Operations, Config!Memories

LEMMA WithoutTyped ==
  ASSUME NEW p \in [Tags -> Config!Policies]
  PROVE  Config!Without(p) \in [Tags -> Config!Policies]
<1>1. ASSUME NEW t \in Tags PROVE p[t] \ {"old"} \in Config!Policies
  <2>1. CASE p[t] \in Config!Lists
    BY <2>1 DEF Config!Policies
  <2>2. CASE p[t] \notin Config!Lists
    <3>1. PICK L \in Config!Lists : p[t] = L \ {"old"}
      BY <2>2 DEF Config!Policies
    <3>2. (L \ {"old"}) \ {"old"} = L \ {"old"}
      OBVIOUS
    <3> QED BY <3>1, <3>2 DEF Config!Policies
  <2> QED BY <2>1, <2>2
<1> QED BY <1>1 DEF Config!Without
-----------------------------------------------------------------------------
(* The manager's steps.                                                    *)

LEMMA ManagerInit == Config!Init => ManagerInv
<1> SUFFICES ASSUME Config!Init PROVE ManagerInv
  OBVIOUS
<1>1. First \in Config!Files
  BY SubmittedTyped DEF Config!Submitted
<1>2. 0 \in Nat /\ archives \in [1 .. 0 -> Config!Archives]
  BY DEF Config!Init
<1>3. Config!TypeOK
  BY <1>1, <1>2 DEF Config!Init, Config!TypeOK, Config!Operations, Config!Memories
<1>4. DOMAIN archives = {}
  BY DEF Config!Init
<1> QED
  BY <1>3, <1>4 DEF Config!Init, ManagerInv, TxnLives, ServedPast, FileIsKnown, TransactionProper,
     PromotionProper, ApplyProper, RollbackProper, ArchivesProper, OriginProper

\* Of what is told of an operation, its revision is new.
LEMMA AllocatedIsNew ==
  ASSUME ManagerInv, Config!Allocates
  PROVE  /\ store' = store + 1 /\ store' \in Nat /\ store <= store'
         /\ \A s \in configServed : s[1] < store'
<1>1. store \in Nat /\ store' = store + 1
  BY DEF ManagerInv, Config!TypeOK, Config!Operations, Config!Allocates
<1>2. ASSUME NEW s \in configServed PROVE s[1] \in Nat /\ s[1] <= store
  BY <1>2 DEF ManagerInv, Config!TypeOK, Config!Operations, ServedPast
<1> QED BY <1>1, <1>2

LEMMA ApplyBeginStep ==
  ASSUME ManagerInv, NEW y \in Yamls, Config!ApplyBegin(y)
  PROVE  ManagerInv'
<1> DEFINE c == Config!Restored(y)
<1>1. mem # None /\ txn = None /\ Config!TypeOK
  BY DEF Config!ApplyBegin, Config!Idle, ManagerInv
<1>2. c \in Config!Files /\ Config!Pinned(c) \in Config!Files
  BY <1>1, RestoredTyped, PinnedTyped
<1>3. /\ IF Config!NeedsRestart(c) THEN UNCHANGED store ELSE Config!Allocates
      /\ txn' = [op |-> "apply", step |-> "begun", file |-> c, hot |-> ~Config!NeedsRestart(c),
                 cfg |-> Config!Pinned(c), rev |-> store']
      /\ UNCHANGED <<file, archives, mem, configServed, origin, faults>>
  BY DEF Config!ApplyBegin
<1> DEFINE hot == ~Config!NeedsRestart(c)
<1>4. hot \in BOOLEAN
  BY DEF Config!NeedsRestart, Config!RuntimeDiffers, Config!FileDiffers
<1> DEFINE cfg == Config!Pinned(c)
<1>5. /\ cfg \in Config!Files /\ c \in Config!Files
      /\ hot => Config!Allocates
      /\ ~hot => store' = store
      /\ txn' = [op |-> "apply", step |-> "begun", file |-> c, hot |-> hot,
                 cfg |-> cfg, rev |-> store']
  BY <1>2, <1>3
<1> HIDE DEF c, cfg, hot
<1>6. /\ store' \in Nat /\ store <= store'
      /\ hot => \A s \in configServed : s[1] < store'
  BY <1>1, <1>5, AllocatedIsNew DEF Config!TypeOK, Config!Operations
<1>7. Config!TypeOK'
  BY <1>1, <1>3, <1>4, <1>5, <1>6 DEF Config!TypeOK, Config!Operations, Config!Applies
<1>8. TxnLives' /\ ServedPast'
  BY <1>1, <1>3, <1>5, <1>6 DEF ManagerInv, Config!TypeOK, Config!Operations, TxnLives, ServedPast
<1>9. FileIsKnown' /\ OriginProper'
  BY <1>1, <1>3, <1>5 DEF ManagerInv, FileIsKnown, OriginProper, Untouched
<1>10. TransactionProper' /\ PromotionProper' /\ ApplyProper' /\ RollbackProper' /\ ArchivesProper'
  BY <1>3, <1>5 DEF ManagerInv, TransactionProper, PromotionProper, ApplyProper,
     RollbackProper, ArchivesProper
<1> QED BY <1>7, <1>8, <1>9, <1>10 DEF ManagerInv

\* What an operation under way is.
LEMMA TxnShape ==
  ASSUME Config!TypeOK, txn # None
  PROVE  \/ txn \in Config!Applies /\ txn.op = "apply"
         \/ txn \in Config!Promotions /\ txn.op = "promote"
         \/ txn \in Config!Rollbacks /\ txn.op = "rollback"
  BY DEF Config!TypeOK, Config!Operations, Config!Applies, Config!Promotions, Config!Rollbacks

LEMMA ApplyOpenStep ==
  ASSUME ManagerInv, Config!ApplyOpen
  PROVE  ManagerInv'
<1>1. /\ Config!TypeOK /\ txn \in Config!Applies /\ txn.op = "apply" /\ txn.step = "begun"
      /\ txn # None
      /\ file' = Torn /\ origin' = None
      /\ txn' = [txn EXCEPT !.step = "writing"]
      /\ UNCHANGED <<archives, store, mem, configServed, faults>>
  BY TxnShape DEF Config!ApplyOpen, ManagerInv
<1>2. txn' \in Config!Applies /\ txn'.op = "apply" /\ txn'.step = "writing"
        /\ txn'.hot = txn.hot /\ txn'.rev = txn.rev
  BY <1>1 DEF Config!Applies
<1>3. Config!TypeOK'
  BY <1>1, <1>2 DEF Config!TypeOK, Config!Operations
<1>4. TxnLives' /\ ServedPast'
  BY <1>1, <1>2 DEF ManagerInv, TxnLives, ServedPast
<1>5. FileIsKnown' /\ TransactionProper' /\ PromotionProper' /\ ApplyProper'
        /\ RollbackProper' /\ OriginProper'
  BY <1>1, <1>2 DEF FileIsKnown, TransactionProper, PromotionProper, ApplyProper,
     RollbackProper, OriginProper, Untouched
<1>6. ArchivesProper'
  BY <1>1, <1>2 DEF ManagerInv, ArchivesProper, NothingEmptied
<1> QED BY <1>3, <1>4, <1>5, <1>6 DEF ManagerInv

LEMMA ApplyWriteStep ==
  ASSUME ManagerInv, Config!ApplyWrite
  PROVE  ManagerInv'
<1>1. /\ Config!TypeOK /\ txn \in Config!Applies /\ txn.op = "apply" /\ txn.step = "writing"
      /\ txn # None
      /\ UNCHANGED <<archives, store, mem, configServed, origin>>
  BY TxnShape DEF Config!ApplyWrite, ManagerInv
<1>2. file = Torn /\ origin = None /\ OriginProper'
  BY <1>1 DEF ManagerInv, FileIsKnown, OriginProper
<1>3. CASE file' = txn.file /\ txn' = [txn EXCEPT !.step = "written"] /\ UNCHANGED faults
  <2>1. /\ txn' \in Config!Applies /\ txn'.op = "apply" /\ txn'.step = "written"
        /\ txn'.hot = txn.hot /\ txn'.rev = txn.rev /\ txn'.file = txn.file
        /\ txn.file \in Config!Files
    BY <1>1, <1>3 DEF Config!Applies
  <2>a. txn' # None
    BY <2>1, SubmittedTyped DEF Config!Operations
  <2>2. Config!TypeOK'
    BY <1>1, <1>3, <2>1 DEF Config!TypeOK, Config!Operations
  <2>3. TxnLives' /\ ServedPast'
    BY <1>1, <2>1 DEF ManagerInv, TxnLives, ServedPast
  <2>4. FileIsKnown' /\ TransactionProper' /\ PromotionProper' /\ ApplyProper' /\ RollbackProper'
    BY <1>1, <1>2, <1>3, <2>1, <2>a DEF FileIsKnown, TransactionProper, PromotionProper,
       ApplyProper, RollbackProper, Untouched
  <2>5. ArchivesProper'
    BY <1>1, <2>1 DEF ManagerInv, ArchivesProper, NothingEmptied
  <2> QED BY <1>2, <2>2, <2>3, <2>4, <2>5 DEF ManagerInv
<1>4. CASE Config!Fault /\ txn' = None /\ UNCHANGED file
  <2>1. Config!TypeOK'
    BY <1>1, <1>4 DEF Config!TypeOK, Config!Operations, Config!Fault
  <2>2. TxnLives' /\ ServedPast'
    BY <1>1, <1>4 DEF ManagerInv, TxnLives, ServedPast
  <2>3. FileIsKnown' /\ TransactionProper' /\ PromotionProper' /\ ApplyProper' /\ RollbackProper'
    BY <1>2, <1>4 DEF FileIsKnown, TransactionProper, PromotionProper, ApplyProper, RollbackProper
  <2>4. ArchivesProper'
    BY <1>1, <1>4 DEF ManagerInv, ArchivesProper, NothingEmptied
  <2> QED BY <1>2, <2>1, <2>2, <2>3, <2>4 DEF ManagerInv
<1> QED BY <1>1, <1>3, <1>4 DEF Config!ApplyWrite

LEMMA CommitStep ==
  ASSUME ManagerInv, Config!Commit
  PROVE  ManagerInv'
<1>1. /\ Config!TypeOK /\ txn # None /\ txn.step = "written" /\ mem # None
      /\ mem \in Config!Memories
      /\ mem' = Config!Committed
      /\ configServed' = configServed \cup {<<mem'.version, mem'.cfg>>}
      /\ txn' = IF txn.op = "rollback" THEN [txn EXCEPT !.step = "committed"] ELSE None
      /\ UNCHANGED <<file, archives, store, origin, faults>>
  BY DEF Config!Commit, Config!Serves, ManagerInv, TxnLives, Config!TypeOK, Config!Operations
<1>2. txn.file \in Config!Files /\ txn.cfg \in Config!Files /\ txn.rev \in Nat
        /\ file = txn.file /\ txn.rev <= store
  BY <1>1, TxnShape DEF Config!Applies, Config!Promotions, Config!Rollbacks, ManagerInv,
     FileIsKnown, TxnLives
<1>3. /\ mem' \in Config!Memories /\ mem'.file = txn.file
      /\ txn.hot => mem'.version = txn.rev /\ mem'.cfg = txn.cfg
      /\ ~txn.hot => mem'.version = mem.version /\ mem'.cfg = mem.cfg
  BY <1>1, <1>2 DEF Config!Committed, Config!Memories
<1>4. txn.op = "rollback" =>
        /\ txn' \in Config!Rollbacks /\ txn'.op = "rollback" /\ txn'.step = "committed"
        /\ txn'.rev = txn.rev /\ txn'.id = txn.id /\ txn'.cfg = txn.cfg /\ txn'.file = txn.file
  BY <1>1, TxnShape DEF Config!Rollbacks, Config!Applies, Config!Promotions
<1>5. txn.op # "rollback" => txn' = None
  BY <1>1
<1>6. Config!TypeOK'
  <2>1. txn' \in Config!Applies \cup Config!Promotions \cup Config!Rollbacks \cup {None}
    BY <1>4, <1>5
  <2>2. configServed' \subseteq Nat \X Config!Files
    BY <1>1, <1>3 DEF Config!TypeOK, Config!Operations, Config!Memories
  <2> QED BY <1>1, <1>3, <2>1, <2>2 DEF Config!TypeOK, Config!Operations
<1>7. TxnLives' /\ ServedPast'
  <2>1. store' = store /\ store \in Nat
    BY <1>1 DEF Config!TypeOK, Config!Operations
  <2>2. mem'.version <= store'
    <3>1. CASE txn.hot
      BY <1>2, <1>3, <2>1, <3>1
    <3>2. CASE ~txn.hot
      BY <1>1, <1>3, <2>1, <3>2 DEF ManagerInv, ServedPast, TxnLives
    <3> QED BY <3>1, <3>2
  <2>3. \A s \in configServed' : s[1] <= store'
    BY <1>1, <2>1, <2>2 DEF ManagerInv, ServedPast
  <2>4. <<mem'.version, mem'.cfg>> \in configServed'
    BY <1>1
  <2>5. TxnLives'
    BY <1>1, <1>3, <1>4, <1>5 DEF ManagerInv, TxnLives
  <2>6. txn' # None => txn'.step = "committed"
    BY <1>4, <1>5
  <2> QED BY <2>3, <2>4, <2>5, <2>6 DEF ServedPast
<1>8. FileIsKnown' /\ ApplyProper' /\ RollbackProper'
  BY <1>1, <1>2, <1>3, <1>4, <1>5 DEF ManagerInv, FileIsKnown, ApplyProper, RollbackProper,
     Untouched
<1>9. TransactionProper' /\ PromotionProper' /\ ArchivesProper'
  BY <1>1, <1>4, <1>5 DEF ManagerInv, TransactionProper, PromotionProper, ArchivesProper,
     NothingEmptied,
     Config!SameNamespace
<1>10. OriginProper'
  <2> SUFFICES ASSUME origin # None PROVE OriginProper'
    BY <1>1 DEF OriginProper
  <2>1. txn.op # "rollback"
    BY <1>1 DEF ManagerInv, RollbackProper
  <2>2. ASSUME txn.op = "promote" PROVE Config!SameNamespace(mem'.cfg, mem'.file)
    <3>1. txn.hot
      BY <1>1, <2>2, TxnShape DEF Config!Applies, Config!Promotions, Config!Rollbacks
    <3> QED BY <1>1, <1>3, <2>2, <3>1 DEF ManagerInv, TransactionProper
  <2>3. ASSUME txn.op = "apply" PROVE FALSE
    BY <1>1, <2>3 DEF ManagerInv, ApplyProper
  <2> QED BY <1>1, <1>5, <2>1, <2>2, <2>3, TxnShape DEF ManagerInv, OriginProper, CanGoBack,
     Config!SameNamespace
<1> QED BY <1>6, <1>7, <1>8, <1>9, <1>10 DEF ManagerInv

LEMMA PromoteBeginStep ==
  ASSUME ManagerInv, Config!PromoteBegin
  PROVE  ManagerInv'
<1> DEFINE next == Config!Promoted
           policies == mem.cfg.policies
           touched == Config!Touched(policies)
           archive == Config!Archive
           written == Config!Namespace(mem.file, next)
<1>1. /\ Config!TypeOK /\ mem # None /\ txn = None /\ mem \in Config!Memories
      /\ Config!SameNamespace(mem.cfg, mem.file)
      /\ Config!Allocates
      /\ txn' = [op |-> "promote", step |-> "begun", id |-> Config!Cardinality(Config!Ids) + 1,
                 hot |-> TRUE, cfg |-> next, file |-> written, rev |-> store',
                 archive |-> archive]
      /\ UNCHANGED <<file, archives, mem, configServed, origin, faults>>
  BY DEF Config!PromoteBegin, Config!Idle, ManagerInv, Config!TypeOK
<1>2. /\ mem.cfg \in Config!Files /\ mem.file \in Config!Files
      /\ policies \in [Tags -> Config!Policies] /\ mem.cfg.old \in Config!Olds
  BY <1>1 DEF Config!Memories, Config!Files
<1>3. Config!Without(policies) \in [Tags -> Config!Policies]
  BY <1>2, WithoutTyped
<1>4. /\ next \in Config!Files
      /\ next.old = None /\ next.alias = TRUE /\ next.policies = Config!Without(policies)
  BY <1>2, <1>3 DEF Config!Promoted, Config!Files, Config!Olds
<1>5. /\ written \in Config!Files
      /\ written.tokens = mem.file.tokens /\ written.store = mem.file.store
      /\ written.secret = mem.file.secret
      /\ written.old = None /\ written.alias = TRUE
      /\ written.policies = Config!Without(policies)
      /\ Config!SameNamespace(next, written)
  <2> HIDE DEF next
  <2>1. /\ written \in Config!Files
        /\ written.tokens = mem.file.tokens /\ written.store = mem.file.store
        /\ written.secret = mem.file.secret
        /\ written.old = next.old /\ written.alias = next.alias
        /\ written.target = next.target /\ written.policies = next.policies
    BY <1>2, <1>4, NamespaceTyped
  <2> QED BY <1>4, <2>1 DEF Config!SameNamespace
<1>6. archive \in Config!Archives
  <2>1. touched \in SUBSET Tags
    BY DEF Config!Touched
  <2>2. [t \in touched |-> policies[t]] \in [touched -> Config!Policies]
    BY <1>2, <2>1
  <2>3. [t \in touched |-> next.policies[t]] \in [touched -> Config!Policies]
    BY <1>3, <1>4, <2>1
  <2>4. \A f \in [touched -> Config!Policies] : f \in Config!Kept
    BY <2>1 DEF Config!Kept
  <2> QED BY <1>2, <2>2, <2>3, <2>4 DEF Config!Archive, Config!Archives
<1>7. NothingEmptied(archive)
  <2> SUFFICES ASSUME OthersRemain, NEW t \in touched PROVE next.policies[t] # {}
    BY DEF NothingEmptied, Config!Archive
  <2>1. t \in Tags /\ "old" \in policies[t] /\ policies[t] \in Config!Policies
    BY <1>2 DEF Config!Touched
  <2>2. policies[t] \in Config!Lists
    BY <2>1 DEF Config!Policies
  <2>3. next.policies[t] = policies[t] \ {"old"}
    BY <1>4, <2>1 DEF Config!Without
  <2> QED BY <2>1, <2>2, <2>3 DEF OthersRemain
<1>8. CanGoBack(written, archive)
  BY <1>4, <1>5 DEF CanGoBack, Config!Archive
<1>9. PICK n \in Nat : archives \in [1 .. n -> Config!Archives]
  BY <1>1 DEF Config!TypeOK
<1>10. Config!Cardinality(Config!Ids) = n
  <2>1. Config!Ids = 1 .. n
    BY <1>9 DEF Config!Ids
  <2>2. Cardinality(1 .. n) = n
    BY <1>9, FS_Interval
  <2>3. Config!Cardinality(1 .. n) = Cardinality(1 .. n)
    BY DEF Config!Cardinality, Cardinality
  <2> QED BY <2>1, <2>2, <2>3
<1> DEFINE id == Config!Cardinality(Config!Ids) + 1
<1>11. /\ id \in Nat /\ id # 0 /\ DOMAIN archives = 1 .. (id - 1) /\ id \notin DOMAIN archives
  BY <1>9, <1>10
<1>12. /\ store' \in Nat /\ store <= store'
       /\ \A s \in configServed : s[1] <= store' /\ s[1] < store'
  <2>1. \A s \in configServed : s[1] \in Nat
    BY <1>1 DEF Config!TypeOK
  <2> QED BY <1>1, <2>1, AllocatedIsNew
<1> DEFINE cfg == next
<1>13. /\ cfg \in Config!Files
       /\ txn' = [op |-> "promote", step |-> "begun", id |-> id, hot |-> TRUE, cfg |-> cfg,
                  file |-> written, rev |-> store', archive |-> archive]
       /\ Config!SameNamespace(cfg, written)
  BY <1>1, <1>4, <1>5
<1> HIDE DEF next, policies, touched, archive, written, id, cfg
<1>14. Config!TypeOK'
  <2>1. txn' \in Config!Operations
    BY <1>5, <1>6, <1>11, <1>12, <1>13 DEF Config!Operations, Config!Promotions
  <2> QED BY <1>1, <1>12, <2>1 DEF Config!TypeOK
<1>15. TxnLives' /\ ServedPast'
  BY <1>1, <1>12, <1>13 DEF ManagerInv, TxnLives, ServedPast
<1>16. FileIsKnown' /\ ApplyProper' /\ RollbackProper'
  BY <1>1, <1>13 DEF ManagerInv, FileIsKnown, ApplyProper, RollbackProper, Untouched
<1>17. TransactionProper'
  BY <1>1, <1>5, <1>13 DEF TransactionProper
<1>18. PromotionProper'
  <2>1. origin # None => origin # id
    BY <1>11, <1>9 DEF ManagerInv, OriginProper
  <2> QED BY <1>1, <1>8, <1>11, <1>13, <2>1 DEF PromotionProper, CanGoBack
<1>19. ArchivesProper'
  BY <1>1, <1>7, <1>13 DEF ManagerInv, ArchivesProper, NothingEmptied
<1>20. OriginProper'
  BY <1>1 DEF ManagerInv, OriginProper, CanGoBack, Config!SameNamespace, Untouched
<1> QED BY <1>14, <1>15, <1>16, <1>17, <1>18, <1>19, <1>20 DEF ManagerInv

\* The archives, numbered one after the other.
LEMMA ArchivesNumbered ==
  ASSUME Config!TypeOK, NEW i, DOMAIN archives = 1 .. i, i \in Int, i >= 0
  PROVE  archives \in [1 .. i -> Config!Archives]
  BY DEF Config!TypeOK

LEMMA PromoteArchiveStep ==
  ASSUME ManagerInv, Config!PromoteArchive
  PROVE  ManagerInv'
<1>1. /\ Config!TypeOK /\ txn \in Config!Promotions /\ txn.op = "promote" /\ txn.step = "begun"
      /\ txn # None
      /\ UNCHANGED <<file, store, mem, configServed, origin>>
  BY TxnShape DEF Config!PromoteArchive, ManagerInv
<1>2. txn.id \in Nat /\ txn.id # 0 /\ txn.archive \in Config!Archives
        /\ DOMAIN archives = 1 .. (txn.id - 1)
  BY <1>1 DEF ManagerInv, PromotionProper, Config!Promotions
<1>3. archives \in [1 .. (txn.id - 1) -> Config!Archives]
  BY <1>1, <1>2, ArchivesNumbered
<1>4. CASE /\ archives' = Config!Put(txn.id, txn.archive)
           /\ txn' = [txn EXCEPT !.step = "prepared"] /\ UNCHANGED faults
  <2>1. /\ txn' \in Config!Promotions /\ txn'.op = "promote" /\ txn'.step = "prepared"
        /\ txn'.id = txn.id /\ txn'.hot = txn.hot /\ txn'.rev = txn.rev
        /\ txn'.file = txn.file /\ txn'.cfg = txn.cfg /\ txn'.archive = txn.archive
    BY <1>1, <1>4 DEF Config!Promotions
  <2>2. /\ archives' \in [1 .. txn.id -> Config!Archives]
        /\ archives'[txn.id] = txn.archive
        /\ \A i \in DOMAIN archives : i # txn.id /\ archives'[i] = archives[i]
    BY <1>2, <1>3, <1>4 DEF Config!Put, Config!Ids
  <2>3. Config!TypeOK'
    BY <1>1, <1>2, <1>4, <2>1, <2>2 DEF Config!TypeOK, Config!Operations
  <2>4. TxnLives' /\ ServedPast'
    BY <1>1, <2>1 DEF ManagerInv, TxnLives, ServedPast
  <2>5. FileIsKnown' /\ ApplyProper' /\ RollbackProper'
    BY <1>1, <2>1 DEF ManagerInv, FileIsKnown, ApplyProper, RollbackProper, Untouched
  <2>6. TransactionProper'
    BY <1>1, <2>1 DEF ManagerInv, TransactionProper, Config!SameNamespace
  <2>7. PromotionProper'
    BY <1>1, <2>1, <2>2 DEF ManagerInv, PromotionProper, CanGoBack
  <2>8. ArchivesProper'
    <3>1. NothingEmptied(txn.archive) /\ \A i \in DOMAIN archives : NothingEmptied(archives[i])
      BY <1>1 DEF ManagerInv, ArchivesProper
    <3>2. ASSUME NEW i \in DOMAIN archives' PROVE NothingEmptied(archives'[i])
      BY <1>2, <2>2, <3>1
    <3> QED BY <2>1, <3>1, <3>2 DEF ArchivesProper, NothingEmptied
  <2>9. OriginProper'
    BY <1>1, <1>2, <2>1, <2>2 DEF ManagerInv, OriginProper, CanGoBack, Config!SameNamespace,
       Untouched
  <2> QED BY <2>3, <2>4, <2>5, <2>6, <2>7, <2>8, <2>9 DEF ManagerInv
<1>5. CASE Config!Fault /\ txn' = None /\ UNCHANGED archives
  <2>1. Config!TypeOK'
    BY <1>1, <1>5 DEF Config!TypeOK, Config!Fault
  <2>2. TxnLives' /\ ServedPast'
    BY <1>1, <1>5 DEF ManagerInv, TxnLives, ServedPast
  <2>3. FileIsKnown' /\ TransactionProper' /\ PromotionProper' /\ ApplyProper' /\ RollbackProper'
    BY <1>1, <1>5 DEF ManagerInv, FileIsKnown, TransactionProper, PromotionProper, ApplyProper,
       RollbackProper, Untouched
  <2>4. ArchivesProper'
    BY <1>1, <1>5 DEF ManagerInv, ArchivesProper, NothingEmptied
  <2>5. OriginProper'
    BY <1>1, <1>5 DEF ManagerInv, OriginProper, CanGoBack, Config!SameNamespace, Untouched
  <2> QED BY <2>1, <2>2, <2>3, <2>4, <2>5 DEF ManagerInv
<1> QED BY <1>1, <1>4, <1>5 DEF Config!PromoteArchive

LEMMA PersistStep ==
  ASSUME ManagerInv, Config!Persist
  PROVE  ManagerInv'
<1>1. /\ Config!TypeOK /\ txn # None /\ txn.step = "prepared" /\ mem # None
      /\ txn.op \in {"promote", "rollback"}
      /\ UNCHANGED <<store, mem, configServed>>
  BY TxnShape DEF Config!Persist, ManagerInv, Config!Applies, TxnLives
<1>2. CASE /\ file' = txn.file
           /\ origin' = IF txn.op = "promote" THEN txn.id ELSE None
           /\ txn' = [txn EXCEPT !.step = "written"]
           /\ UNCHANGED <<archives, faults>>
  <2>1. /\ txn' \in Config!Promotions \cup Config!Rollbacks
        /\ txn'.op = txn.op /\ txn'.step = "written" /\ txn'.id = txn.id
        /\ txn'.hot = txn.hot /\ txn'.rev = txn.rev /\ txn'.file = txn.file /\ txn'.cfg = txn.cfg
        /\ txn.file \in Config!Files
    BY <1>1, <1>2, TxnShape DEF Config!Promotions, Config!Rollbacks
  <2>2. txn.op = "promote" => txn'.archive = txn.archive
    BY <1>1, <1>2, TxnShape DEF Config!Promotions, Config!Rollbacks
  <2>3. txn' # None /\ file' # Torn
    BY <1>2, <2>1, SubmittedTyped DEF Config!Operations
  <2>4. Config!TypeOK'
    BY <1>1, <1>2, <2>1 DEF Config!TypeOK, Config!Operations
  <2>5. TxnLives' /\ ServedPast'
    BY <1>1, <2>1 DEF ManagerInv, TxnLives, ServedPast
  <2>6. FileIsKnown' /\ ApplyProper'
    BY <1>1, <1>2, <2>1, <2>3 DEF ManagerInv, FileIsKnown, ApplyProper, Untouched
  <2>7. TransactionProper'
    BY <1>1, <2>1 DEF ManagerInv, TransactionProper, Config!SameNamespace
  <2>8. PromotionProper' /\ RollbackProper'
    BY <1>1, <1>2, <2>1 DEF ManagerInv, PromotionProper, RollbackProper
  <2>9. ArchivesProper'
    BY <1>1, <1>2, <2>1, <2>2 DEF ManagerInv, ArchivesProper, NothingEmptied
  <2>10. OriginProper'
    <3> SUFFICES ASSUME origin' # None PROVE OriginProper'
      BY DEF OriginProper
    <3>1. txn.op = "promote" /\ origin' = txn.id
      BY <1>2
    <3>2. /\ DOMAIN archives = 1 .. txn.id /\ archives[txn.id] = txn.archive
          /\ CanGoBack(txn.file, txn.archive)
          /\ txn.id \in Nat /\ txn.id # 0
      BY <1>1, <3>1, TxnShape DEF ManagerInv, PromotionProper, Config!Promotions, Config!Rollbacks
    <3>3. ~Untouched'
      BY <2>1, <2>3 DEF Untouched
    <3> QED BY <1>2, <2>3, <3>1, <3>2, <3>3 DEF OriginProper, CanGoBack
  <2> QED BY <2>4, <2>5, <2>6, <2>7, <2>8, <2>9, <2>10 DEF ManagerInv
<1>3. CASE /\ Config!Fault /\ txn' = None
           /\ archives' = [i \in (IF txn.op = "promote" THEN Config!Ids \ {txn.id} ELSE Config!Ids)
                             |-> archives[i]]
           /\ UNCHANGED <<file, origin>>
  <2>1. /\ \E n \in Nat : archives' \in [1 .. n -> Config!Archives]
        /\ DOMAIN archives' \subseteq DOMAIN archives
        /\ \A i \in DOMAIN archives' : archives'[i] = archives[i]
        /\ origin # None /\ origin \in DOMAIN archives => origin \in DOMAIN archives'
    <3>1. CASE txn.op = "promote"
      <4>1. /\ txn.id \in Nat /\ txn.id # 0 /\ DOMAIN archives = 1 .. txn.id
            /\ origin # None => origin # txn.id
        BY <1>1, <3>1, TxnShape DEF ManagerInv, PromotionProper, Config!Promotions, Config!Rollbacks
      <4>2. archives \in [1 .. txn.id -> Config!Archives]
        BY <1>1, <4>1, ArchivesNumbered
      <4>3. (1 .. txn.id) \ {txn.id} = 1 .. (txn.id - 1) /\ txn.id - 1 \in Nat
        BY <4>1
      <4>4. archives' = [i \in 1 .. (txn.id - 1) |-> archives[i]]
        BY <1>3, <3>1, <4>1, <4>3 DEF Config!Ids
      <4>5. archives' \in [1 .. (txn.id - 1) -> Config!Archives]
        BY <4>1, <4>2, <4>4
      <4> QED BY <4>1, <4>3, <4>4, <4>5
    <3>2. CASE txn.op # "promote"
      <4>1. archives' = [i \in DOMAIN archives |-> archives[i]]
        BY <1>3, <3>2 DEF Config!Ids
      <4> QED BY <1>1, <4>1 DEF Config!TypeOK
    <3> QED BY <3>1, <3>2
  <2>2. Config!TypeOK'
    BY <1>1, <1>3, <2>1 DEF Config!TypeOK, Config!Fault
  <2>3. TxnLives' /\ ServedPast'
    BY <1>1, <1>3 DEF ManagerInv, TxnLives, ServedPast
  <2>4. FileIsKnown' /\ TransactionProper' /\ PromotionProper' /\ ApplyProper' /\ RollbackProper'
    BY <1>1, <1>3 DEF ManagerInv, FileIsKnown, TransactionProper, PromotionProper, ApplyProper,
       RollbackProper, Untouched
  <2>5. ArchivesProper'
    BY <1>3, <2>1 DEF ManagerInv, ArchivesProper, NothingEmptied
  <2>6. OriginProper'
    <3> SUFFICES ASSUME origin # None PROVE OriginProper'
      BY <1>3 DEF OriginProper
    <3>1. /\ origin \in DOMAIN archives' /\ archives'[origin] = archives[origin]
      BY <2>1 DEF ManagerInv, OriginProper
    <3> QED BY <1>1, <1>3, <3>1 DEF ManagerInv, OriginProper, CanGoBack, Config!SameNamespace,
       Untouched
  <2> QED BY <2>2, <2>3, <2>4, <2>5, <2>6 DEF ManagerInv
<1> QED BY <1>1, <1>2, <1>3 DEF Config!Persist

LEMMA RolledBackTyped ==
  ASSUME Config!TypeOK, mem \in Config!Memories, NEW id \in DOMAIN archives
  PROVE  Config!RolledBack(id) \in Config!Files
<1> DEFINE a == archives[id]
           policies == [t \in Tags |-> IF t \in DOMAIN a.before THEN a.before[t]
                                                                 ELSE mem.cfg.policies[t]]
<1>1. mem.cfg \in Config!Files
  BY DEF Config!Memories
<1>2. a \in Config!Archives
  BY DEF Config!TypeOK
<1>3. a.before \in Config!Kept /\ a.old \in Config!Olds
  BY <1>2 DEF Config!Archives
<1>4. PICK T \in SUBSET Tags : a.before \in [T -> Config!Policies]
  BY <1>3 DEF Config!Kept
<1>5. policies \in [Tags -> Config!Policies]
  BY <1>1, <1>4 DEF Config!Files
<1>6. Config!RolledBack(id) = [mem.cfg EXCEPT !.old = a.old, !.alias = FALSE, !.policies = policies]
  BY <1>1 DEF Config!RolledBack, Config!Files
<1> QED BY <1>1, <1>3, <1>5, <1>6 DEF Config!Files

LEMMA RollbackBeginStep ==
  ASSUME ManagerInv, NEW id \in DOMAIN archives, Config!RollbackBegin(id)
  PROVE  ManagerInv'
<1> DEFINE next == Config!RolledBack(id)
           written == Config!Namespace(mem.file, next)
<1>1. /\ Config!TypeOK /\ mem # None /\ txn = None /\ mem \in Config!Memories
      /\ Config!Allocates
      /\ txn' = [op |-> "rollback", step |-> "prepared", id |-> id, hot |-> TRUE, rev |-> store',
                 cfg |-> next, file |-> written]
      /\ UNCHANGED <<file, archives, mem, configServed, origin, faults>>
  BY DEF Config!RollbackBegin, Config!Idle, ManagerInv, Config!TypeOK
<1>2. next \in Config!Files /\ mem.file \in Config!Files /\ id \in Nat
  BY <1>1, RolledBackTyped DEF Config!Memories, Config!TypeOK
<1>3. /\ written \in Config!Files
      /\ written.tokens = mem.file.tokens /\ written.store = mem.file.store
      /\ written.secret = mem.file.secret
      /\ Config!SameNamespace(next, written)
  <2> HIDE DEF next
  <2> QED BY <1>2, NamespaceTyped DEF Config!SameNamespace
<1>4. /\ store' \in Nat /\ store <= store'
      /\ \A s \in configServed : s[1] <= store' /\ s[1] < store'
  <2>1. \A s \in configServed : s[1] \in Nat
    BY <1>1 DEF Config!TypeOK
  <2> QED BY <1>1, <2>1, AllocatedIsNew
<1> HIDE DEF next, written
<1>5. Config!TypeOK'
  <2>1. txn' \in Config!Operations
    BY <1>1, <1>2, <1>3, <1>4 DEF Config!Operations, Config!Rollbacks
  <2> QED BY <1>1, <1>4, <2>1 DEF Config!TypeOK
<1>6. TxnLives' /\ ServedPast'
  BY <1>1, <1>4 DEF ManagerInv, TxnLives, ServedPast
<1>7. FileIsKnown' /\ ApplyProper' /\ RollbackProper' /\ PromotionProper'
  BY <1>1 DEF ManagerInv, FileIsKnown, ApplyProper, RollbackProper, PromotionProper, Untouched
<1>8. TransactionProper'
  BY <1>1, <1>3 DEF TransactionProper
<1>9. ArchivesProper'
  BY <1>1 DEF ManagerInv, ArchivesProper, NothingEmptied
<1>10. OriginProper'
  BY <1>1 DEF ManagerInv, OriginProper, CanGoBack, Config!SameNamespace, Untouched
<1> QED BY <1>5, <1>6, <1>7, <1>8, <1>9, <1>10 DEF ManagerInv

LEMMA RollbackMarkStep ==
  ASSUME ManagerInv, Config!RollbackMark
  PROVE  ManagerInv'
<1>1. /\ Config!TypeOK /\ txn # None /\ txn.step = "committed" /\ txn.op = "rollback"
      /\ txn.id \in DOMAIN archives /\ origin = None
      /\ txn' = None
      /\ UNCHANGED <<file, store, mem, configServed, origin>>
  BY TxnShape DEF Config!RollbackMark, ManagerInv, RollbackProper, Config!Applies, Config!Promotions
<1>2. /\ faults' \in Nat
      /\ archives' \in {archives, [archives EXCEPT ![txn.id].rolledBack = TRUE]}
  BY <1>1 DEF Config!RollbackMark, Config!Fault, Config!TypeOK
<1>3. PICK n \in Nat : archives \in [1 .. n -> Config!Archives]
  BY <1>1 DEF Config!TypeOK
<1>4. /\ archives' \in [1 .. n -> Config!Archives]
      /\ \A i \in DOMAIN archives' : i \in DOMAIN archives /\ archives'[i].after = archives[i].after
  <2> DEFINE a == archives[txn.id]
             marked == [a EXCEPT !.rolledBack = TRUE]
  <2>1. a \in Config!Archives
    BY <1>1, <1>3
  <2>2. marked \in Config!Archives /\ marked.after = a.after
    BY <2>1 DEF Config!Archives
  <2>3. archives' = archives \/ archives' = [archives EXCEPT ![txn.id] = marked]
    BY <1>2
  <2> HIDE DEF marked
  <2> QED BY <1>1, <1>3, <2>2, <2>3
<1>5. Config!TypeOK'
  BY <1>1, <1>2, <1>3, <1>4 DEF Config!TypeOK
<1>6. TxnLives' /\ ServedPast' /\ OriginProper'
  BY <1>1 DEF ManagerInv, TxnLives, ServedPast, OriginProper
<1>7. FileIsKnown' /\ TransactionProper' /\ PromotionProper' /\ ApplyProper' /\ RollbackProper'
  BY <1>1 DEF ManagerInv, FileIsKnown, TransactionProper, PromotionProper, ApplyProper,
     RollbackProper
<1>8. ArchivesProper'
  BY <1>1, <1>4 DEF ManagerInv, ArchivesProper, NothingEmptied
<1> QED BY <1>5, <1>6, <1>7, <1>8 DEF ManagerInv

\* What happens to a gateway from outside.
LEMMA OutsideSteps ==
  ASSUME ManagerInv, Config!OtherAllocates \/ Config!Crash
  PROVE  ManagerInv'
<1>1. CASE Config!OtherAllocates
  <2>1. /\ store' \in Nat /\ store <= store' /\ store \in Nat
        /\ UNCHANGED <<file, archives, mem, txn, configServed, origin, faults>>
    BY <1>1, AllocatedIsNew DEF Config!OtherAllocates, ManagerInv, Config!TypeOK
  <2>2. Config!TypeOK'
    BY <2>1 DEF ManagerInv, Config!TypeOK
  <2>3. TxnLives'
    <3>1. txn # None => txn.rev \in Nat
      BY TxnShape DEF ManagerInv, Config!Applies, Config!Promotions, Config!Rollbacks
    <3> QED BY <2>1, <3>1 DEF ManagerInv, TxnLives
  <2>4. ServedPast'
    <3>1. \A s \in configServed : s[1] \in Nat
      BY DEF ManagerInv, Config!TypeOK
    <3> QED BY <2>1, <3>1 DEF ManagerInv, ServedPast
  <2>5. FileIsKnown' /\ TransactionProper' /\ PromotionProper' /\ ApplyProper' /\ RollbackProper'
    BY <2>1 DEF ManagerInv, FileIsKnown, TransactionProper, PromotionProper, ApplyProper,
       RollbackProper, Config!SameNamespace, Untouched, CanGoBack
  <2>6. ArchivesProper' /\ OriginProper'
    BY <2>1 DEF ManagerInv, ArchivesProper, NothingEmptied, OriginProper, CanGoBack,
       Config!SameNamespace, Untouched
  <2> QED BY <2>2, <2>3, <2>4, <2>5, <2>6 DEF ManagerInv
<1>2. CASE Config!Crash
  <2>1. /\ Config!TypeOK /\ mem' = None /\ txn' = None /\ faults' \in Nat
        /\ UNCHANGED <<file, archives, store, configServed, origin>>
    BY <1>2 DEF Config!Crash, Config!Fault, ManagerInv, Config!TypeOK
  <2>2. Config!TypeOK'
    BY <2>1 DEF Config!TypeOK
  <2>3. TxnLives' /\ ServedPast' /\ FileIsKnown' /\ TransactionProper' /\ PromotionProper'
        /\ ApplyProper' /\ RollbackProper'
    BY <2>1 DEF ManagerInv, TxnLives, ServedPast, FileIsKnown, TransactionProper, PromotionProper,
       ApplyProper, RollbackProper
  <2>4. ArchivesProper' /\ OriginProper'
    BY <2>1 DEF ManagerInv, ArchivesProper, NothingEmptied, OriginProper, CanGoBack
  <2> QED BY <2>2, <2>3, <2>4 DEF ManagerInv
<1> QED BY <1>1, <1>2

LEMMA StartStep ==
  ASSUME ManagerInv, Config!Start
  PROVE  ManagerInv'
<1>1. /\ Config!TypeOK /\ mem = None /\ file \in Config!Files /\ file # Torn
      /\ mem' = [cfg |-> file, file |-> file, version |-> store + 1]
      /\ configServed' = configServed \cup {<<store + 1, file>>}
      /\ store \in Nat /\ store' = store + 1
      /\ txn # None => txn.step = "committed" /\ txn.rev <= store
      /\ UNCHANGED <<file, archives, txn, origin, faults>>
  BY DEF Config!Start, Config!Started, Config!Serves, Config!Allocates, ManagerInv,
     Config!TypeOK, TxnLives
<1>2. Config!TypeOK'
  BY <1>1 DEF Config!TypeOK, Config!Memories
<1>3. TxnLives'
  <2>1. txn # None => txn.rev \in Nat
    BY <1>1, TxnShape DEF Config!Applies, Config!Promotions, Config!Rollbacks
  <2> QED BY <1>1, <2>1 DEF TxnLives
<1>4. ServedPast'
  <2>1. \A s \in configServed : s[1] \in Nat
    BY <1>1 DEF Config!TypeOK
  <2> QED BY <1>1, <2>1 DEF ManagerInv, ServedPast
<1>5. FileIsKnown' /\ TransactionProper' /\ PromotionProper' /\ ApplyProper' /\ RollbackProper'
  BY <1>1 DEF ManagerInv, FileIsKnown, TransactionProper, PromotionProper, ApplyProper,
     RollbackProper, Config!SameNamespace
<1>6. ArchivesProper'
  BY <1>1 DEF ManagerInv, ArchivesProper, NothingEmptied
<1>7. OriginProper'
  BY <1>1 DEF ManagerInv, OriginProper, CanGoBack, Config!SameNamespace
<1> QED BY <1>2, <1>3, <1>4, <1>5, <1>6, <1>7 DEF ManagerInv

LEMMA RepairStep ==
  ASSUME ManagerInv, NEW y \in Config!Submitted, Config!Repair(y)
  PROVE  ManagerInv'
<1>1. /\ Config!TypeOK /\ mem = None /\ file = Torn /\ file' = y /\ y \in Config!Files
      /\ origin = None
      /\ txn # None => txn.step = "committed"
      /\ UNCHANGED <<archives, store, mem, txn, configServed, origin, faults>>
  BY SubmittedTyped DEF Config!Repair, ManagerInv, OriginProper, TxnLives
<1>2. Config!TypeOK'
  BY <1>1 DEF Config!TypeOK
<1>3. TxnLives' /\ ServedPast' /\ OriginProper'
  BY <1>1 DEF ManagerInv, TxnLives, ServedPast, OriginProper
<1>4. FileIsKnown' /\ TransactionProper' /\ PromotionProper' /\ ApplyProper' /\ RollbackProper'
  BY <1>1 DEF ManagerInv, FileIsKnown, TransactionProper, PromotionProper, ApplyProper,
     RollbackProper, Config!SameNamespace
<1>5. ArchivesProper'
  BY <1>1 DEF ManagerInv, ArchivesProper, NothingEmptied
<1> QED BY <1>2, <1>3, <1>4, <1>5 DEF ManagerInv

LEMMA ManagerNext == ManagerInv /\ [Config!Next]_(Config!vars) => ManagerInv'
<1> SUFFICES ASSUME ManagerInv, [Config!Next]_(Config!vars) PROVE ManagerInv'
  OBVIOUS
<1>1. CASE UNCHANGED Config!vars
  <2>1. UNCHANGED <<file, archives, store, mem, txn, configServed, origin, faults>>
    BY <1>1 DEF Config!vars
  <2>2. Config!TypeOK' /\ TxnLives' /\ ServedPast'
    BY <2>1 DEF ManagerInv, Config!TypeOK, TxnLives, ServedPast
  <2>3. FileIsKnown' /\ TransactionProper' /\ PromotionProper' /\ ApplyProper' /\ RollbackProper'
    BY <2>1 DEF ManagerInv, FileIsKnown, TransactionProper, PromotionProper, ApplyProper,
       RollbackProper, Config!SameNamespace, Untouched, CanGoBack
  <2>4. ArchivesProper' /\ OriginProper'
    BY <2>1 DEF ManagerInv, ArchivesProper, NothingEmptied, OriginProper, CanGoBack,
       Config!SameNamespace, Untouched
  <2> QED BY <2>2, <2>3, <2>4 DEF ManagerInv
<1>2. CASE \E y \in Yamls : Config!ApplyBegin(y)
  BY <1>2, ApplyBeginStep
<1>3. CASE \E id \in Config!Ids : Config!RollbackBegin(id)
  BY <1>3, RollbackBeginStep DEF Config!Ids
<1>4. CASE \E y \in Config!Submitted : Config!Repair(y)
  BY <1>4, RepairStep
<1> QED
  BY <1>1, <1>2, <1>3, <1>4, ApplyOpenStep, ApplyWriteStep, CommitStep, PromoteBeginStep,
     PromoteArchiveStep, PersistStep, RollbackMarkStep, OutsideSteps, StartStep DEF Config!Next

\* The manager's state is proper in every state of every behaviour.
THEOREM ManagerInvariant == Config!Spec => []ManagerInv
<1> QED BY ManagerInit, ManagerNext, PTL DEF Config!Spec

\* A gateway's readers never see an older revision after a newer one, nor two
\* configurations under one, whatever crashes between which steps.
THEOREM ServedOrder == Config!Spec => ServedInOrder
<1>1. ManagerInv /\ [Config!Next]_(Config!vars)
        => [\A s \in configServed' \ configServed, t \in configServed : s[1] > t[1]]_(Config!vars)
  <2> SUFFICES ASSUME ManagerInv, Config!Next, NEW s \in configServed' \ configServed,
                      NEW t \in configServed
               PROVE  s[1] > t[1]
    OBVIOUS
  <2>1. t[1] \in Nat /\ t[1] <= store /\ store \in Nat
    BY DEF ManagerInv, Config!TypeOK, ServedPast
  <2>2. Config!Commit \/ Config!Start
    BY DEF Config!Next, Config!ApplyBegin, Config!ApplyOpen, Config!ApplyWrite, Config!PromoteBegin,
       Config!PromoteArchive, Config!Persist, Config!RollbackBegin, Config!RollbackMark,
       Config!OtherAllocates, Config!Crash, Config!Repair
  <2>3. CASE Config!Commit
    <3>1. txn # None /\ txn.step = "written" /\ mem # None /\ s = <<mem'.version, mem'.cfg>>
      BY <2>3 DEF Config!Commit, Config!Serves, ManagerInv, TxnLives
    <3>2. CASE txn.hot
      <4>1. s[1] = txn.rev /\ txn.rev \in Nat
        BY <2>3, <3>1, <3>2, TxnShape DEF Config!Commit, Config!Committed, ManagerInv,
           Config!Applies, Config!Promotions, Config!Rollbacks
      <4> QED BY <2>1, <3>1, <3>2, <4>1 DEF ManagerInv, ServedPast
    <3>3. CASE ~txn.hot
      <4>1. mem \in Config!Memories /\ mem' = [mem EXCEPT !.file = txn.file]
        BY <2>3, <3>1, <3>3 DEF Config!Commit, Config!Committed, ManagerInv, Config!TypeOK
      <4>2. s = <<mem.version, mem.cfg>>
        BY <3>1, <4>1 DEF Config!Memories
      <4> QED BY <3>1, <4>2 DEF ManagerInv, ServedPast
    <3> QED BY <3>2, <3>3
  <2>4. CASE Config!Start
    <3>1. s = <<store + 1, file>>
      BY <2>4 DEF Config!Start, Config!Serves, Config!Started
    <3> QED BY <2>1, <3>1
  <2> QED BY <2>2, <2>3, <2>4
<1> QED BY <1>1, ManagerInvariant, PTL DEF Config!Spec, ServedInOrder, Config!ServedInOrder

\* A promotion or a rollback writes a file that loads and keeps in it what waits
\* for a restart.
THEOREM TransactionsKeep == Config!Spec => TransactionsKeepTheRest
<1> DEFINE Kept == (txn # None /\ txn.op # "apply" /\ file' # file) =>
                     /\ file' # Torn
                     /\ file # Torn => /\ file'.tokens = file.tokens
                                       /\ file'.store = file.store
                                       /\ file'.secret = file.secret
<1>1. ManagerInv /\ [Config!Next]_(Config!vars) => [Kept]_(Config!vars)
  <2> SUFFICES ASSUME ManagerInv, Config!Next, txn # None, txn.op # "apply", file' # file
               PROVE  Kept
    OBVIOUS
  <2>1. Config!Persist \/ \E y \in Config!Submitted : Config!Repair(y)
    BY DEF Config!Next, Config!ApplyBegin, Config!ApplyOpen, Config!ApplyWrite, Config!Commit,
       Config!PromoteBegin, Config!PromoteArchive, Config!RollbackBegin, Config!RollbackMark,
       Config!OtherAllocates, Config!Crash, Config!Start, Config!Idle
  <2>2. CASE Config!Persist
    <3>1. txn.step = "prepared" /\ mem # None /\ file' = txn.file /\ txn.file \in Config!Files
      BY <2>2, TxnShape DEF Config!Persist, ManagerInv, TxnLives,
         Config!Applies, Config!Promotions, Config!Rollbacks
    <3> QED BY <3>1, SubmittedTyped DEF ManagerInv, TransactionProper, FileIsKnown, Untouched
  <2>3. CASE \E y \in Config!Submitted : Config!Repair(y)
    BY <2>3, SubmittedTyped DEF Config!Repair
  <2> QED BY <2>1, <2>2, <2>3
<1> QED BY <1>1, ManagerInvariant, PTL DEF Config!Spec, TransactionsKeepTheRest,
     Config!TransactionsKeepTheRest

\* A promotion can be taken back until something else is written, as long as no
\* configuration lists the service name alone.
THEOREM PromotionReversible ==
  ASSUME OthersRemain PROVE Config!Spec => []PromotionIsReversible
<1>1. ManagerInv => PromotionIsReversible
  <2> SUFFICES ASSUME ManagerInv, mem # None, txn = None, origin # None
               PROVE  Config!MayRollBack(origin)
    BY DEF PromotionIsReversible, Config!PromotionIsReversible, Config!Idle
  <2>1. /\ origin \in DOMAIN archives /\ file = mem.file
        /\ CanGoBack(file, archives[origin]) /\ Config!SameNamespace(mem.cfg, mem.file)
    BY DEF ManagerInv, OriginProper, FileIsKnown, Untouched
  <2>2. \A t \in DOMAIN archives[origin].after : archives[origin].after[t] # {}
    BY <2>1 DEF ManagerInv, ArchivesProper, NothingEmptied
  <2> QED BY <2>1, <2>2 DEF Config!MayRollBack, Config!Ids, CanGoBack, Config!SameNamespace,
       Config!SamePolicy
<1> QED BY <1>1, ManagerInvariant, PTL
=============================================================================
