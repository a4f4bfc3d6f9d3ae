----------------------------- MODULE EventBuffer -----------------------------
(***************************************************************************)
(* The agent's buffer of events and its acknowledgement by heartbeats      *)
(* (src/internal/agent/reconcile.go: recordEvent,                          *)
(* snapshotEventsForHeartbeat, dropReportedEvents).                        *)
(*                                                                         *)
(* Any goroutine records (the installers do, while a heartbeat is under    *)
(* way); the reconcile loop copies the oldest events into a heartbeat and, *)
(* when the answer arrives, drops as many from the front of whatever the   *)
(* buffer is by then.  Each of the three runs under eventMu.               *)
(* Events are numbered in the order in which they were recorded.           *)
(***************************************************************************)
EXTENDS Integers, Sequences, FiniteSets, SequencesExt

CONSTANTS BufferLimit,     \* agentEventBufferLimit
          HeartbeatLimit,  \* agentEventHeartbeatLimit
          MaxEvents        \* bound on the events recorded

\* What an instance assumes of its constants.
EventBufferAssumption ==
  /\ BufferLimit \in Nat \ {0}
  /\ HeartbeatLimit \in Nat \ {0}
  /\ MaxEvents \in Nat

VARIABLES events,    \* r.events
          recorded,  \* events recorded so far
          hb,        \* the heartbeat: [step, batch]
          received,  \* events that reached the gateway
          trimmed    \* events pushed out by newer ones

vars == <<events, recorded, hb, received, trimmed>>

Idle == [step |-> "idle", batch |-> <<>>]

Init ==
  /\ events = <<>>
  /\ recorded = 0
  /\ hb = Idle
  /\ received = {}
  /\ trimmed = 0

\* Only the newest BufferLimit events are kept.
KeepNewest(s) == SubSeq(s, IF Len(s) > BufferLimit THEN Len(s) - BufferLimit + 1 ELSE 1, Len(s))

Record ==
  /\ recorded < MaxEvents
  /\ recorded' = recorded + 1
  /\ events' = KeepNewest(Append(events, recorded'))
  /\ trimmed' = trimmed + (Len(events) + 1 - Len(events'))
  /\ UNCHANGED <<hb, received>>

\* A heartbeat, also one without events, is sent with the oldest events.
Send ==
  /\ hb.step = "idle"
  /\ hb' = [step |-> "sent",
            batch |-> SubSeq(events, 1, IF Len(events) < HeartbeatLimit THEN Len(events)
                                                                        ELSE HeartbeatLimit)]
  /\ UNCHANGED <<events, recorded, received, trimmed>>

\* handleAgentHeartbeat takes the events, some of them perhaps once more.
Receive ==
  /\ hb.step = "sent"
  /\ hb' = [hb EXCEPT !.step = "answered"]
  /\ received' = received \cup ToSet(hb.batch)
  /\ UNCHANGED <<events, recorded, trimmed>>

\* Faulty variant: one event more is dropped.
DroppedOneMore(n) == SubSeq(events, n + 2, Len(events))

\* dropReportedEvents
Dropped(n) == SubSeq(events, n + 1, Len(events))

\* The answer arrives.
Answered ==
  /\ hb.step = "answered"
  /\ events' = Dropped(Len(hb.batch))
  /\ hb' = Idle
  /\ UNCHANGED <<recorded, received, trimmed>>

\* The heartbeat or its answer is lost: the events stay.
Unanswered ==
  /\ hb.step \in {"sent", "answered"}
  /\ hb' = Idle
  /\ UNCHANGED <<events, recorded, received, trimmed>>

Next == Record \/ Send \/ Receive \/ Answered \/ Unanswered

Spec == Init /\ [][Next]_vars
-----------------------------------------------------------------------------
(* Properties.                                                             *)

TypeOK ==
  /\ events \in Seq(1 .. MaxEvents)
  /\ Len(events) <= BufferLimit
  /\ recorded \in 0 .. MaxEvents
  /\ hb \in [step : {"idle", "sent", "answered"}, batch : Seq(1 .. MaxEvents)]
  /\ Len(hb.batch) <= HeartbeatLimit
  /\ received \subseteq 1 .. MaxEvents
  /\ trimmed \in Nat

\* Recorded events that neither wait nor ever reached the gateway.
Lost == {e \in 1 .. recorded : e \notin ToSet(events) /\ e \notin received}

\* Dropping by count from a buffer that was trimmed while the heartbeat was
\* under way removes events nobody reported; but never more than were pushed
\* out, so without an overflow every event is reported.
LossIsBounded == Cardinality(Lost) <= trimmed
=============================================================================
