------------------------------ MODULE SlotPool ------------------------------
(***************************************************************************)
(* What a concurrency gate of the gateway promises, with no counter, lock, *)
(* channel or cancellation race in sight.  For every key (a model, a tag,  *)
(* or a worker/model pair) there is a set of owners and one line of        *)
(* callers.  A slot changes hands in a single step: an owner that leaves   *)
(* gives it to the head of the line, and only if nobody is in line does    *)
(* the number of owners go down.                                           *)
(*                                                                         *)
(* QueueLimiter (src/internal/gateway/limits.go) implements this module.   *)
(* So does each gate of ProxyDispatch, which is what lets that module take *)
(* the limiter's critical sections for single steps.                       *)
(***************************************************************************)
EXTENDS Naturals, Sequences, FiniteSets

CONSTANTS Keys,      \* the keys of the gates
          Callers,   \* the goroutines that ask for slots
          MaxSlots   \* the largest limit any caller ever presents

VARIABLES owners,    \* key -> set of callers that own a slot
          line       \* key -> callers in line, first come first

vars == <<owners, line>>

InLine(c, k) == \E i \in 1..Len(line[k]) : line[k][i] = c

Outside(c) == \A k \in Keys : c \notin owners[k] /\ ~InLine(c, k)

\* The line without its i-th caller.
Without(s, i) == [j \in 1..(Len(s) - 1) |-> IF j < i THEN s[j] ELSE s[j + 1]]

Init ==
  /\ owners = [k \in Keys |-> {}]
  /\ line = [k \in Keys |-> <<>>]

\* A caller takes a free slot.
Enter(c, k) ==
  /\ Outside(c)
  /\ Cardinality(owners[k]) < MaxSlots
  /\ owners' = [owners EXCEPT ![k] = @ \cup {c}]
  /\ UNCHANGED line

\* A caller joins the end of the line; somebody must be there to let it in.
Join(c, k) ==
  /\ Outside(c)
  /\ owners[k] # {}
  /\ line' = [line EXCEPT ![k] = Append(@, c)]
  /\ UNCHANGED owners

\* An owner leaves and nobody is in line.
Leave(c, k) ==
  /\ c \in owners[k]
  /\ line[k] = <<>>
  /\ owners' = [owners EXCEPT ![k] = @ \ {c}]
  /\ UNCHANGED line

\* An owner leaves and the head of the line owns its slot at once.
HandOff(c, k) ==
  /\ c \in owners[k]
  /\ line[k] # <<>>
  /\ owners' = [owners EXCEPT ![k] = (@ \ {c}) \cup {Head(line[k])}]
  /\ line' = [line EXCEPT ![k] = Tail(@)]

\* A caller gives up its place in line.
GiveUp(c, k) ==
  /\ \E i \in 1..Len(line[k]) :
       /\ line[k][i] = c
       /\ line' = [line EXCEPT ![k] = Without(@, i)]
  /\ UNCHANGED owners

Next ==
  \E c \in Callers, k \in Keys :
    \/ Enter(c, k)
    \/ Join(c, k)
    \/ Leave(c, k)
    \/ HandOff(c, k)
    \/ GiveUp(c, k)

Spec == Init /\ [][Next]_vars
=============================================================================
