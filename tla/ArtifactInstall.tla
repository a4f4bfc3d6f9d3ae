--------------------------- MODULE ArtifactInstall ---------------------------
(***************************************************************************)
(* Installation of model artifacts by several agents that share a model    *)
(* root (src/internal/agent/artifacts.go; installAllowedArtifactsAsync and *)
(* applyInstallResult of reconcile.go), for one model directory.           *)
(*                                                                         *)
(* The gateway publishes configurations; each names what the directory     *)
(* should hold (a model and its artifact, or nothing) and which agents may *)
(* use it.  An agent's cycle publishes a fence for the directory, looks at *)
(* its marker and starts or cancels an install; the install runs in a      *)
(* goroutine of its own: fence, source, stage, commit.  The directory lock *)
(* is an flock, gone with its process.  A cycle takes and returns it       *)
(* before it looks at the marker, so it waits while a commit holds it.     *)
(*                                                                         *)
(* Other directories do not interact, except that an agent runs one        *)
(* install at a time.  Artifact bytes are their name: a checksum that does *)
(* not match is a failed download.                                         *)
(***************************************************************************)
EXTENDS Integers, FiniteSets

CONSTANTS Agents,     \* agent processes on one model root
          Wants,      \* what a directory may hold: [model, art]
          Removed,    \* no such want; also the fingerprint of a tombstone
          MaxRev,     \* bound on configuration revisions
          MaxFaults   \* bound on crashes and failing steps

ArtifactInstallAssumption ==
  /\ Removed \notin Wants
  /\ Removed \notin {w.art : w \in Wants}
  /\ Removed \notin Agents
  /\ MaxRev \in Nat \ {0}
  /\ MaxFaults \in Nat

VARIABLES configs,  \* published revisions -> [want, allowed]
          cfg,      \* agent -> the revision of its last cycle
          fence,    \* the fence file: [rev, art]
          dir,      \* what the marker in the directory says (Removed: none)
          lock,     \* the directory lock's holder (Removed: free)
          sources,  \* verified artifact files in the root
          job,      \* agent -> its install goroutine [key, step, cancelled]
          known,    \* agent -> installs of the cycle: [key, running]
          status,   \* agent -> what the last cycle reported
          faults

vars == <<configs, cfg, fence, dir, lock, sources, job, known, status, faults>>

Rev == DOMAIN configs
Latest == CHOOSE r \in Rev : \A q \in Rev : q <= r
NoJob == [step |-> "none"]

Init ==
  /\ configs \in [{1} -> [want : Wants, allowed : {Agents}]]
  /\ cfg = [a \in Agents |-> 0]
  /\ fence = [rev |-> 0, art |-> Removed]
  /\ dir = Removed
  /\ lock = Removed
  /\ sources = {}
  /\ job = [a \in Agents |-> NoJob]
  /\ known = [a \in Agents |-> {}]
  /\ status = [a \in Agents |-> "none"]
  /\ faults = 0

\* The gateway applies another configuration.
Apply(want, allowed) ==
  /\ Latest < MaxRev
  /\ configs' = [r \in Rev \cup {Latest + 1} |->
                   IF r \in Rev THEN configs[r] ELSE [want |-> want, allowed |-> allowed]]
  /\ UNCHANGED <<cfg, fence, dir, lock, sources, job, known, status, faults>>
-----------------------------------------------------------------------------
(* Fences.                                                                 *)

\* artifactFenceShouldAdvance (every gateway that numbers its configurations
\* starts at revision 1).
ShouldAdvance(current, desired) == desired.rev > current.rev

\* publishArtifactInstallFence, under the directory lock: the fence afterwards.
Published(desired) == IF ShouldAdvance(fence, desired) THEN desired ELSE fence

FenceOf(key) == [rev |-> key.rev, art |-> key.want.art]

\* MarkerMatches: model and artifact.
Matches(want) == dir = want
-----------------------------------------------------------------------------
(* The agent's cycle.                                                      *)

\* What a cycle with configuration revision r does about an install of this
\* directory that it knows of and that is not allowed any more: the fence of
\* the model that reuses the directory, or a tombstone when no agent wants the
\* directory; otherwise nothing is published.
RemovalFence(r) ==
  IF configs[r].want = Removed THEN [rev |-> r, art |-> Removed] ELSE fence

\* Faulty variant: results that come between two cycles are dropped.
DrainedNever(a) == known[a]

\* applyInstallResult for everything that has finished.
Drained(a) ==
  {IF s.running /\ job[a].step = "done" /\ job[a].key = s.key
     THEN [s EXCEPT !.running = FALSE] ELSE s : s \in known[a]}

Cancelled(j) == IF j.step = "none" THEN j ELSE [j EXCEPT !.cancelled = TRUE]

\* The goroutine that reported is gone.
Remaining(a) == IF job[a].step = "done" THEN NoJob ELSE job[a]

\* A cycle of an agent that may not use the directory; it takes the lock only
\* for a tombstone.
CycleDisallowed(a, r) ==
  LET live == {s \in Drained(a) : s.running}
  IN /\ r \in Rev /\ r >= cfg[a]
     /\ configs[r].want = Removed \/ a \notin configs[r].allowed
     /\ lock = Removed \/ live = {} \/ configs[r].want # Removed
     /\ cfg' = [cfg EXCEPT ![a] = r]
     /\ fence' = IF live = {} THEN fence ELSE Published(RemovalFence(r))
     /\ known' = [known EXCEPT ![a] = live]
     /\ job' = [job EXCEPT ![a] = IF live = {} THEN Remaining(a) ELSE Cancelled(Remaining(a))]
     /\ status' = [status EXCEPT ![a] = "none"]
     /\ UNCHANGED <<configs, dir, lock, sources, faults>>

\* A cycle of an agent that may: publish the fence, then
\*   the marker matches and the fence is ours: ready;
\*   an install of something else runs, or the fence is newer: pending, and
\*   that install is cancelled;
\*   our install runs: installing; it ended without a marker: error, to be
\*   started again by the next cycle;
\*   none runs: start one.
Cycle(a, r) ==
  LET want == configs[r].want
      key == [want |-> want, rev |-> r]
      drained == Drained(a)
      others == {s \in drained : s.key.want.model # want.model /\ s.running}
      mine == {s \in drained : s.key.want.model = want.model}
      kept == others \cup mine
      fresh == Published(FenceOf(key))
      current == fresh = FenceOf(key)
      obsolete == \E s \in kept : s.running /\ (s.key # key \/ ~current)
      running == \E s \in kept : s.running
      failed == \E s \in mine : ~s.running /\ s.key = key
      outcome ==
        CASE current /\ Matches(want)    -> "ready"
          [] ~(current /\ Matches(want)) /\ (obsolete \/ ~current) -> "pending"
          [] ~obsolete /\ current /\ ~Matches(want) /\ running -> "installing"
          [] ~running /\ current /\ ~Matches(want) /\ failed -> "error"
          [] OTHER -> "start"
  IN /\ r \in Rev /\ r >= cfg[a]
     /\ want # Removed /\ a \in configs[r].allowed
     /\ lock = Removed
     /\ cfg' = [cfg EXCEPT ![a] = r]
     /\ fence' = fresh
     /\ known' = [known EXCEPT ![a] =
          CASE outcome \in {"ready", "error"} -> {s \in kept : s.running}
            [] outcome = "start" -> {[key |-> key, running |-> TRUE]}
            [] OTHER -> kept]
     /\ job' = [job EXCEPT ![a] =
          CASE outcome = "start" -> [key |-> key, step |-> "fence", cancelled |-> FALSE]
            [] obsolete -> Cancelled(Remaining(a))
            [] OTHER -> Remaining(a)]
     /\ status' = [status EXCEPT ![a] = IF outcome = "start" THEN "installing" ELSE outcome]
     /\ UNCHANGED <<configs, dir, lock, sources, faults>>
-----------------------------------------------------------------------------
(* The install goroutine (installArtifactWithProgressAtRevision).          *)

Goes(a, step) == job' = [job EXCEPT ![a].step = step]

\* Its own fence again; it may have been superseded already, or the marker
\* may match by now.
JobFence(a) ==
  LET desired == FenceOf(job[a].key) IN
  /\ job[a].step = "fence"
  /\ lock = Removed
  /\ fence' = Published(desired)
  /\ Goes(a, IF Published(desired) # desired \/ Matches(job[a].key.want) THEN "done" ELSE "source")
  /\ UNCHANGED <<configs, cfg, dir, lock, sources, known, status, faults>>

\* localArtifactSourceContext: a verified file is there already.
LocalSource(art) == art \in sources

\* prepareArtifactSource, under the artifact's lock: the target is ready by now,
\* or a verified file is there.
JobSource(a) ==
  /\ job[a].step = "source"
  /\ \/ Matches(job[a].key.want) /\ Goes(a, "done")
     \/ ~Matches(job[a].key.want) /\ LocalSource(job[a].key.want.art) /\ Goes(a, "sourced")
  /\ UNCHANGED <<configs, cfg, fence, dir, lock, sources, known, status, faults>>

\* Otherwise it is downloaded, verified and kept.
JobDownload(a) ==
  /\ job[a].step = "source"
  /\ ~Matches(job[a].key.want) /\ ~LocalSource(job[a].key.want.art)
  /\ sources' = sources \cup {job[a].key.want.art}
  /\ Goes(a, "sourced")
  /\ UNCHANGED <<configs, cfg, fence, dir, lock, known, status, faults>>

\* stageFileArtifact, stageTarGzArtifact: in a directory of its own.
JobStage(a) ==
  /\ job[a].step = "sourced"
  /\ Goes(a, "staged")
  /\ UNCHANGED <<configs, cfg, fence, dir, lock, sources, known, status, faults>>

\* Faulty variant: the fence is not read again under the lock.
MayCommitAny(key) == ~Matches(key.want)

\* Under the directory lock: the fence is still ours and the marker is not.
MayCommit(key) == fence = FenceOf(key) /\ ~Matches(key.want)

\* commitStagedArtifact takes the lock and decides.
JobCommit(a) ==
  /\ job[a].step = "staged"
  /\ lock = Removed
  /\ IF MayCommit(job[a].key)
       THEN Goes(a, "locked") /\ lock' = a
       ELSE Goes(a, "done") /\ UNCHANGED lock
  /\ UNCHANGED <<configs, cfg, fence, dir, sources, known, status, faults>>

\* replaceDir moves the old directory away (a cancellation after the last look
\* at the context does not stop it) ...
JobMoveAway(a) ==
  /\ job[a].step = "locked"
  /\ dir' = Removed
  /\ job' = [job EXCEPT ![a] = [key |-> @.key, step |-> "moved", cancelled |-> @.cancelled,
                                old |-> dir]]
  /\ UNCHANGED <<configs, cfg, fence, lock, sources, known, status, faults>>

\* ... and the staged one, with its marker, in.
JobMoveIn(a) ==
  /\ job[a].step = "moved"
  /\ dir' = job[a].key.want
  /\ lock' = Removed
  /\ job' = [job EXCEPT ![a] = [key |-> @.key, step |-> "done", cancelled |-> @.cancelled]]
  /\ UNCHANGED <<configs, cfg, fence, sources, known, status, faults>>

\* The second rename fails and the old directory is moved back.
JobMoveBack(a) ==
  /\ job[a].step = "moved"
  /\ faults < MaxFaults
  /\ faults' = faults + 1
  /\ dir' = job[a].old
  /\ lock' = Removed
  /\ job' = [job EXCEPT ![a] = [key |-> @.key, step |-> "done", cancelled |-> @.cancelled]]
  /\ UNCHANGED <<configs, cfg, fence, sources, known, status>>

Unlocked(a) == lock' = IF lock = a THEN Removed ELSE lock

\* A cancelled install notices at its next look at the context; any other may
\* fail (download, checksum, staging, a file).
JobEnds(a) ==
  /\ job[a].step \in {"fence", "source", "sourced", "staged", "locked"}
  /\ \/ job[a].cancelled /\ UNCHANGED faults
     \/ faults < MaxFaults /\ faults' = faults + 1
  /\ Goes(a, "done")
  /\ Unlocked(a)
  /\ UNCHANGED <<configs, cfg, fence, dir, sources, known, status>>

\* The process dies; its locks go with it, the directory stays as it is.
Crash(a) ==
  /\ faults < MaxFaults
  /\ faults' = faults + 1
  /\ job' = [job EXCEPT ![a] = NoJob]
  /\ known' = [known EXCEPT ![a] = {}]
  /\ status' = [status EXCEPT ![a] = "none"]
  /\ Unlocked(a)
  /\ UNCHANGED <<configs, cfg, fence, dir, sources>>

AnyCycle(a) == \E r \in Rev : Cycle(a, r) \/ CycleDisallowed(a, r)

JobStep(a) ==
  JobFence(a) \/ JobSource(a) \/ JobDownload(a) \/ JobStage(a) \/ JobCommit(a)
  \/ JobMoveAway(a) \/ JobMoveIn(a) \/ JobEnds(a)

Next ==
  \/ \E want \in Wants \cup {Removed}, allowed \in SUBSET Agents : Apply(want, allowed)
  \/ \E a \in Agents : AnyCycle(a) \/ JobStep(a) \/ JobMoveBack(a) \/ Crash(a)

Spec == Init /\ [][Next]_vars

\* The ticker runs cycles for ever, with the latest configuration; the steps of
\* an install end; flock and its polling let everybody have the lock some time.
Fairness ==
  \A a \in Agents :
    /\ SF_vars(Cycle(a, Latest) \/ CycleDisallowed(a, Latest))
    /\ SF_vars(JobStep(a))

FairSpec == Spec /\ Fairness
-----------------------------------------------------------------------------
(* Properties.                                                             *)

Steps == {"none", "fence", "source", "sourced", "staged", "locked", "moved", "done"}

TypeOK ==
  /\ cfg \in [Agents -> 0 .. MaxRev]
  /\ fence \in [rev : 0 .. MaxRev, art : {w.art : w \in Wants} \cup {Removed}]
  /\ dir \in Wants \cup {Removed}
  /\ lock \in Agents \cup {Removed}
  /\ sources \subseteq {w.art : w \in Wants}
  /\ \A a \in Agents :
       /\ job[a].step \in Steps
       /\ job[a].step \in {"locked", "moved"} <=> lock = a
       /\ Cardinality(known[a]) <= 1
       /\ status[a] \in {"none", "ready", "pending", "installing", "error"}

\* An agent that reported ready still finds its artifact in place, until a
\* newer configuration was fenced: no cancelled, crashed or repeated install of
\* another process touches it.
ReadyStaysInstalled ==
  \A a \in Agents :
    (status[a] = "ready" /\ cfg[a] = fence.rev) => dir = configs[cfg[a]].want

\* Once the configuration stops changing every agent that may use the artifact
\* gets it installed, whatever crashed, failed or was superseded before.
EventuallyReady ==
  \A a \in Agents :
    <>[](status[a] = "ready" \/ a \notin configs[Latest].allowed \/ configs[Latest].want = Removed)
=============================================================================
