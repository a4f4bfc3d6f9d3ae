---------------------------- MODULE ConfigManager ----------------------------
(***************************************************************************)
(* The gateway's configuration: hot and deferred applies, promotion of a   *)
(* service name and its rollback, with crashes between their steps         *)
(* (src/internal/gateway/config_manager.go, service_name_promotion.go;     *)
(* validation of internal/config/load.go).                                 *)
(*                                                                         *)
(* Durable are the YAML file, the archives of promotions and the revision  *)
(* store (module RevisionStore); the runtime configuration, the manager's  *)
(* copy of the file and the served revision die with the process.  applyMu *)
(* serialises the operations; a step of one is what happens between two    *)
(* writes.  An operation that is refused leaves no trace and is no step.   *)
(*                                                                         *)
(* A configuration is its service name (a canonical model, an alias of the *)
(* target or absent), its target, its tag policies, and one field of each  *)
(* kind that matters: `tokens` is pinned while the process runs, `store`   *)
(* (the metrics store, the lease store path) needs a restart, `secret`     *)
(* (the FRP token) is redacted for the editor.                             *)
(***************************************************************************)
EXTENDS Integers, FiniteSets

CONSTANTS First,      \* the file the gateway is installed with
          Yamls,      \* what operators submit
          Tags,
          None, Torn, Marker,  \* no value; a half written file; the redaction
          MaxRev, MaxArchives, MaxFaults  \* bounds

VARIABLES file,      \* gateway.yaml, or Torn
          archives,  \* archive id -> [old, before, after, rolledBack]
          store,     \* the highest revision allocated
          mem,       \* the manager [cfg, file, version], or None: no process
          txn,       \* the operation that holds applyMu, or None
          served,    \* <<revision, configuration>> a reader may have seen
          origin,    \* the promotion the file comes from, until another write
          faults

vars == <<file, archives, store, mem, txn, served, origin, faults>>

Ids == DOMAIN archives

\* validateGateway and validateModelIdentities: policies name models, an alias
\* has a target and collides with no model.
Valid(c) ==
  /\ \A t \in Tags : /\ "old" \in c.policies[t] => c.old # None
                     /\ "target" \in c.policies[t] => c.target # None
  /\ c.alias => c.old = None /\ c.target # None
  /\ c.old # None \/ c.target # None

\* The configurations that promotions and rollbacks can make of what was
\* installed or submitted, and the tag policies that archives keep.
Submitted == Yamls \cup {First}
Lists == UNION {{y.policies[t] : t \in Tags} : y \in Submitted}
Policies == Lists \cup {L \ {"old"} : L \in Lists}
Olds == {y.old : y \in Submitted} \cup {None}
Files == [old : Olds, alias : BOOLEAN, target : {y.target : y \in Submitted},
          policies : [Tags -> Policies], tokens : {y.tokens : y \in Submitted},
          store : {y.store : y \in Submitted}, secret : {y.secret : y \in Submitted}]
Kept == UNION {[T -> Policies] : T \in SUBSET Tags}
Archives == [old : Olds, rolledBack : BOOLEAN, before : Kept, after : Kept]
Memories == [cfg : Files, file : Files, version : Nat]

\* An operation that holds applyMu.
Applies == [op : {"apply"}, step : {"begun", "writing", "written"},
            file : Files, hot : BOOLEAN, cfg : Files, rev : Nat]
Promotions == [op : {"promote"}, step : {"begun", "prepared", "written"}, id : Nat,
               file : Files, hot : {TRUE}, cfg : Files, rev : Nat, archive : Archives]
Rollbacks == [op : {"rollback"}, step : {"prepared", "written", "committed"}, id : Nat,
              file : Files, hot : {TRUE}, cfg : Files, rev : Nat]
Operations == Applies \cup Promotions \cup Rollbacks

\* What an instance assumes of its constants.
ConfigManagerAssumption ==
  /\ \A y \in Submitted : y \in Files /\ Valid(y)
  /\ Torn \notin Files /\ None \notin Operations
  /\ {MaxRev, MaxArchives, MaxFaults} \subseteq Nat

\* Faulty variant: the highest number again.
StartedAgain == [cfg |-> file, file |-> file, version |-> store]

\* The process starts: a new revision, the configuration of the file.
Started == [cfg |-> file, file |-> file, version |-> store + 1]

Serves(m) == served \cup {<<m.version, m.cfg>>}

Init ==
  /\ file = First
  /\ archives = [i \in {} |-> None]
  /\ store = 1
  /\ mem = [cfg |-> First, file |-> First, version |-> 1]
  /\ txn = None
  /\ served = {<<1, First>>}
  /\ origin = None
  /\ faults = 0

Idle == mem # None /\ txn = None

Fault == faults < MaxFaults /\ faults' = faults + 1

\* revisionStore.Allocate; the number is gone whatever becomes of it.
Allocates == store < MaxRev /\ store' = store + 1

\* Another gateway on the same store.
OtherAllocates ==
  /\ Allocates
  /\ UNCHANGED <<file, archives, mem, txn, served, origin, faults>>
-----------------------------------------------------------------------------
(* Apply.                                                                  *)

\* restoreRedactedFRPAuthToken.
Restored(y) == IF y.secret = Marker THEN [y EXCEPT !.secret = mem.file.secret] ELSE y

\* applyRuntimePins.
Pinned(c) == [c EXCEPT !.tokens = mem.cfg.tokens]

\* diffGatewayConfig, against what runs: the changes that need a restart.
RuntimeDiffers(c) == Pinned(c).store # mem.cfg.store

\* processFieldChanges, against the file: the pinned fields.
FileDiffers(c) == c.tokens # mem.file.tokens

NeedsRestart(c) == RuntimeDiffers(c) \/ FileDiffers(c)

\* Validated; a hot apply has its revision before anything is written.
ApplyBegin(y) ==
  LET c == Restored(y) IN
  /\ Idle
  /\ IF NeedsRestart(c) THEN UNCHANGED store ELSE Allocates
  /\ txn' = [op |-> "apply", step |-> "begun", file |-> c, hot |-> ~NeedsRestart(c),
             cfg |-> Pinned(c), rev |-> store']
  /\ UNCHANGED <<file, archives, mem, served, origin, faults>>

\* os.WriteFile truncates the file ...
ApplyOpen ==
  /\ txn # None /\ txn.op = "apply" /\ txn.step = "begun"
  /\ file' = Torn /\ origin' = None
  /\ txn' = [txn EXCEPT !.step = "writing"]
  /\ UNCHANGED <<archives, store, mem, served, faults>>

\* ... and fills it, or fails and leaves what it wrote.
ApplyWrite ==
  /\ txn # None /\ txn.op = "apply" /\ txn.step = "writing"
  /\ \/ /\ file' = txn.file
        /\ txn' = [txn EXCEPT !.step = "written"]
        /\ UNCHANGED faults
     \/ Fault /\ txn' = None /\ UNCHANGED file
  /\ UNCHANGED <<archives, store, mem, served, origin>>

\* The manager's new state: a change that needs a restart is in the file only.
Committed ==
  IF txn.hot THEN [cfg |-> txn.cfg, file |-> txn.file, version |-> txn.rev]
             ELSE [mem EXCEPT !.file = txn.file]

\* commitTransactionConfig, or the end of ApplyContextWithPublish.  A rollback
\* still has to mark its archive.
Commit ==
  /\ txn # None /\ txn.step = "written"
  /\ mem' = Committed
  /\ served' = Serves(mem')
  /\ txn' = IF txn.op = "rollback" THEN [txn EXCEPT !.step = "committed"] ELSE None
  /\ UNCHANGED <<file, archives, store, origin, faults>>
-----------------------------------------------------------------------------
(* Promotion of the service name.                                          *)

SameNamespace(c, d) == c.old = d.old /\ c.alias = d.alias /\ c.target = d.target /\ c.policies = d.policies

Without(policies) == [t \in Tags |-> policies[t] \ {"old"}]

Touched(policies) == {t \in Tags : "old" \in policies[t]}

\* Faulty variant: the file gets the running configuration.
NamespaceOfAll(c, d) == d

\* The file with the model namespace of d: what waits for a restart stays.
Namespace(c, d) ==
  [c EXCEPT !.old = d.old, !.alias = d.alias, !.target = d.target, !.policies = d.policies]

\* prepareTransactionConfig: the marshalled file is loaded, and so validated.
Prepares(c) == Valid(c)

\* What a promotion makes of the running configuration, and what it archives.
Promoted == [mem.cfg EXCEPT !.old = None, !.alias = TRUE, !.policies = Without(@)]
Archive ==
  LET touched == Touched(mem.cfg.policies) IN
  [old |-> mem.cfg.old, rolledBack |-> FALSE,
   before |-> [t \in touched |-> mem.cfg.policies[t]],
   after |-> [t \in touched |-> Promoted.policies[t]]]

\* PromoteServiceName up to its revision.  Whether the workers are in a state to
\* (validateServiceNamePromotionState) is open.
PromoteBegin ==
  /\ Idle
  /\ SameNamespace(mem.cfg, mem.file)
  /\ mem.cfg.old # None /\ mem.cfg.old.disabled
  /\ ~mem.cfg.alias /\ mem.cfg.target = "on"
  /\ Prepares(Namespace(mem.file, Promoted))
  /\ Cardinality(Ids) < MaxArchives
  /\ Allocates
  /\ txn' = [op |-> "promote", step |-> "begun", id |-> Cardinality(Ids) + 1,
             hot |-> TRUE, cfg |-> Promoted, file |-> Namespace(mem.file, Promoted),
             rev |-> store', archive |-> Archive]
  /\ UNCHANGED <<file, archives, mem, served, origin, faults>>

\* Faulty variant: an archive that is not there yet when the file is written.
PutLater(id, archive) == archives

Put(id, archive) == [i \in Ids \cup {id} |-> IF i = id THEN archive ELSE archives[i]]

\* The archive first; without it nothing else happens.
PromoteArchive ==
  /\ txn # None /\ txn.op = "promote" /\ txn.step = "begun"
  /\ \/ /\ archives' = Put(txn.id, txn.archive)
        /\ txn' = [txn EXCEPT !.step = "prepared"]
        /\ UNCHANGED faults
     \/ Fault /\ txn' = None /\ UNCHANGED archives
  /\ UNCHANGED <<file, store, mem, served, origin>>

\* persistTransactionConfig: written aside and renamed.  When that fails the
\* promotion's archive is deleted again.
Persist ==
  /\ txn # None /\ txn.step = "prepared"
  /\ \/ /\ file' = txn.file
        /\ origin' = IF txn.op = "promote" THEN txn.id ELSE None
        /\ txn' = [txn EXCEPT !.step = "written"]
        /\ UNCHANGED <<archives, faults>>
     \/ /\ Fault
        /\ txn' = None
        /\ archives' = [i \in (IF txn.op = "promote" THEN Ids \ {txn.id} ELSE Ids) |-> archives[i]]
        /\ UNCHANGED <<file, origin>>
  /\ UNCHANGED <<store, mem, served>>
-----------------------------------------------------------------------------
(* Rollback.                                                               *)

\* A clone of an empty list is nil, the list in the archive is empty and not
\* nil, and reflect.DeepEqual tells them apart.
SamePolicy(current, archived) == archived # {} /\ current = archived

\* The guards of RollbackServiceName.
MayRollBack(id) ==
  /\ SameNamespace(mem.cfg, mem.file)
  /\ id \in Ids /\ ~archives[id].rolledBack
  /\ mem.cfg.old = None
  /\ mem.cfg.alias
  /\ \A t \in DOMAIN archives[id].after : SamePolicy(mem.cfg.policies[t], archives[id].after[t])

RolledBack(id) ==
  LET a == archives[id] IN
  [mem.cfg EXCEPT !.old = a.old, !.alias = FALSE,
                  !.policies = [t \in Tags |-> IF t \in DOMAIN a.before THEN a.before[t] ELSE @[t]]]

RollbackBegin(id) ==
  /\ Idle
  /\ MayRollBack(id)
  /\ Prepares(Namespace(mem.file, RolledBack(id)))
  /\ Allocates
  /\ txn' = [op |-> "rollback", step |-> "prepared", id |-> id, hot |-> TRUE, rev |-> store',
             cfg |-> RolledBack(id), file |-> Namespace(mem.file, RolledBack(id))]
  /\ UNCHANGED <<file, archives, mem, served, origin, faults>>

\* The archive is marked last, and a failure to do so is ignored.
RollbackMark ==
  /\ txn # None /\ txn.step = "committed"
  /\ \/ archives' = [archives EXCEPT ![txn.id].rolledBack = TRUE] /\ UNCHANGED faults
     \/ Fault /\ UNCHANGED archives
  /\ txn' = None
  /\ UNCHANGED <<file, store, mem, served, origin>>
-----------------------------------------------------------------------------
Crash ==
  /\ mem # None
  /\ Fault
  /\ mem' = None /\ txn' = None
  /\ UNCHANGED <<file, archives, store, served, origin>>

\* The new process needs a file that parses, and a revision.
Start ==
  /\ mem = None
  /\ file # Torn
  /\ Allocates
  /\ mem' = Started
  /\ served' = Serves(mem')
  /\ UNCHANGED <<file, archives, txn, origin, faults>>

\* An operator replaces a torn file by hand.
Repair(y) ==
  /\ mem = None /\ file = Torn
  /\ y.secret # Marker
  /\ file' = y
  /\ UNCHANGED <<archives, store, mem, txn, served, origin, faults>>

Next ==
  \/ \E y \in Yamls : ApplyBegin(y)
  \/ ApplyOpen \/ ApplyWrite \/ Commit
  \/ PromoteBegin \/ PromoteArchive \/ Persist
  \/ \E id \in Ids : RollbackBegin(id)
  \/ RollbackMark
  \/ OtherAllocates \/ Crash \/ Start
  \/ \E y \in Submitted : Repair(y)

Spec == Init /\ [][Next]_vars
-----------------------------------------------------------------------------
(* Properties.                                                             *)

TypeOK ==
  /\ file \in Files \cup {Torn}
  /\ \E n \in Nat : archives \in [1 .. n -> Archives]
  /\ store \in Nat
  /\ mem \in Memories \cup {None}
  /\ txn \in Operations \cup {None}
  /\ served \subseteq Nat \X Files
  /\ faults \in Nat

\* A promotion or rollback keeps in the file what waits for a restart, and no
\* crash in one leaves a file that does not load.
TransactionsKeepTheRest ==
  [][(txn # None /\ txn.op # "apply" /\ file' # file) =>
        /\ file' # Torn
        /\ file # Torn => /\ file'.tokens = file.tokens
                          /\ file'.store = file.store
                          /\ file'.secret = file.secret]_vars

\* Nobody is served an older revision after a newer one, nor another
\* configuration under the same one, across crashes, restarts and deferred
\* applies: agents compare artifacts by revision and would take two different
\* ones for the same.
ServedInOrder == [][\A s \in served' \ served, t \in served : s[1] > t[1]]_vars

\* A promotion can be taken back, also after a crash anywhere, until something
\* else is written ("Reversal removes the alias and restores the archived
\* canonical configuration as one transaction"), as long as the policies keep
\* another model.
PromotionIsReversible == (Idle /\ origin # None) => MayRollBack(origin)
=============================================================================
