---------------------------- MODULE RevisionStore ----------------------------
(***************************************************************************)
(* The file store of configuration revisions                               *)
(* (src/internal/gateway/config_revision_store.go): goroutines of several  *)
(* gateway processes on one state file.  Allocate holds the mutex of its   *)
(* process and then an flock on the lock file, reads the document, writes  *)
(* the next revision aside and renames it into place.                      *)
(***************************************************************************)
EXTENDS Integers

CONSTANTS Callers,        \* goroutines
          Processes,
          ProcessOf(_),   \* the process of a goroutine
          None,           \* nobody holds the lock
          MaxRev          \* where the numbers end (math.MaxInt64)

ASSUME RevisionStoreAssumption ==
  /\ None \notin Callers
  /\ MaxRev \in Nat \ {0}
  /\ \A c \in Callers : ProcessOf(c) \in Processes

VARIABLES document,  \* the revision in the state file (0: no file)
          mu,        \* process -> the goroutine in its store's mutex
          flock,     \* the goroutine whose descriptor holds the flock
          pc,        \* goroutine -> where it is in Allocate
          read,      \* goroutine -> the revision it read
          result     \* goroutine -> what Allocate returned (0: nothing yet)

vars == <<document, mu, flock, pc, read, result>>

Init ==
  /\ document = 0
  /\ mu = [p \in Processes |-> None]
  /\ flock = None
  /\ pc = [c \in Callers |-> "idle"]
  /\ read = [c \in Callers |-> 0]
  /\ result = [c \in Callers |-> 0]

\* s.mu.Lock
Enter(c) ==
  /\ pc[c] = "idle"
  /\ mu[ProcessOf(c)] = None
  /\ mu' = [mu EXCEPT ![ProcessOf(c)] = c]
  /\ pc' = [pc EXCEPT ![c] = "entered"]
  /\ result' = [result EXCEPT ![c] = 0]
  /\ UNCHANGED <<document, flock, read>>

\* Faulty variant: each process relies on its mutex.
FreeAlways(c) == mu[ProcessOf(c)] = c

\* lockConfigRevisionFileContext polls until nobody has the lock.
Free(c) == flock = None

Lock(c) ==
  /\ pc[c] = "entered"
  /\ Free(c)
  /\ flock' = c
  /\ pc' = [pc EXCEPT ![c] = "locked"]
  /\ UNCHANGED <<document, mu, read, result>>

\* load
Load(c) ==
  /\ pc[c] = "locked"
  /\ read' = [read EXCEPT ![c] = document]
  /\ pc' = [pc EXCEPT ![c] = "loaded"]
  /\ UNCHANGED <<document, mu, flock, result>>

\* The revision is not exhausted.
MayGrow(c) == read[c] < MaxRev

\* save: the rename makes it visible, the directory is synced best effort.
Save(c) ==
  /\ pc[c] = "loaded"
  /\ MayGrow(c)
  /\ document' = read[c] + 1
  /\ pc' = [pc EXCEPT ![c] = "saved"]
  /\ UNCHANGED <<mu, flock, read, result>>

Released(c) ==
  /\ flock' = IF flock = c THEN None ELSE flock
  /\ mu' = [mu EXCEPT ![ProcessOf(c)] = None]
  /\ pc' = [pc EXCEPT ![c] = "idle"]

\* The deferred unlock, and the return.
Return(c) ==
  /\ pc[c] = "saved"
  /\ Released(c)
  /\ result' = [result EXCEPT ![c] = read[c] + 1]
  /\ UNCHANGED <<document, read>>

\* The context ends, a file operation fails, or the numbers are used up; also
\* after the rename, when the unlock fails and the revision is lost.
Fail(c) ==
  /\ pc[c] # "idle"
  /\ Released(c)
  /\ UNCHANGED <<document, read, result>>

\* A process dies and its lock with it; the state file is as it was.
Crash(p) ==
  LET dead == {c \in Callers : ProcessOf(c) = p} IN
  /\ mu' = [mu EXCEPT ![p] = None]
  /\ flock' = IF flock \in dead THEN None ELSE flock
  /\ pc' = [c \in Callers |-> IF c \in dead THEN "idle" ELSE pc[c]]
  /\ result' = [c \in Callers |-> IF c \in dead THEN 0 ELSE result[c]]
  /\ UNCHANGED <<document, read>>

Step(c) == Enter(c) \/ Lock(c) \/ Load(c) \/ Save(c) \/ Return(c) \/ Fail(c)

Next == (\E c \in Callers : Step(c)) \/ (\E p \in Processes : Crash(p))

Spec == Init /\ [][Next]_vars
-----------------------------------------------------------------------------
(* Properties.                                                             *)

PCs == {"idle", "entered", "locked", "loaded", "saved"}

TypeOK ==
  /\ document \in 0 .. MaxRev
  /\ mu \in [Processes -> Callers \cup {None}]
  /\ flock \in Callers \cup {None}
  /\ pc \in [Callers -> PCs]
  /\ read \in [Callers -> 0 .. MaxRev]
  /\ result \in [Callers -> 0 .. MaxRev]

Inside(c) == pc[c] \in {"locked", "loaded", "saved"}

\* What a goroutine read is still in the file when it writes the next number,
\* and what it wrote is still there when it returns: between processes only
\* the flock, between goroutines also the mutex keeps others out.
ReadIsFresh ==
  \A c \in Callers :
    /\ Inside(c) => flock = c
    /\ pc[c] = "loaded" => read[c] = document
    /\ pc[c] = "saved" => read[c] + 1 = document

\* The number in the file never goes back, whoever crashes where: a restarted
\* gateway does not publish a configuration under an old revision.
NeverBack == [][document' >= document]_document

\* The numbers are handed out like those of one counter.
held == [c \in Callers |-> IF pc[c] = "saved" THEN read[c] + 1 ELSE result[c]]

Counter == INSTANCE RevisionCounter WITH counter <- document, got <- held

Refinement == Counter!Spec

\* Two callers never hold the same revision.
NoRevisionTwice ==
  \A c, d \in Callers : (held[c] = held[d] /\ held[c] # 0) => c = d
=============================================================================
