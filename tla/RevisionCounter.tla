--------------------------- MODULE RevisionCounter ---------------------------
(***************************************************************************)
(* What ConfigRevisionStore promises (config_revision_store.go): revisions *)
(* that are strictly increasing across every caller that shares the        *)
(* backing store.  A revision may be lost on its way to the caller, never  *)
(* handed out twice.                                                       *)
(***************************************************************************)
EXTENDS Integers

CONSTANTS Callers, MaxRev

VARIABLES counter,  \* the highest revision allocated
          got       \* caller -> the revision it holds (0: none)

Init == counter = 0 /\ got = [c \in Callers |-> 0]

\* A caller gets the next revision.
Allocate(c) ==
  /\ counter < MaxRev
  /\ counter' = counter + 1
  /\ got' = [got EXCEPT ![c] = counter + 1]

\* A caller asks again, gives up or dies with its process.
Forget(cs) == got' = [c \in Callers |-> IF c \in cs THEN 0 ELSE got[c]] /\ UNCHANGED counter

Next == (\E c \in Callers : Allocate(c)) \/ (\E cs \in SUBSET Callers : Forget(cs))

Spec == Init /\ [][Next]_<<counter, got>>
=============================================================================
