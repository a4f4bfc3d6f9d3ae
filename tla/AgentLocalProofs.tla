-------------------------- MODULE AgentLocalProofs --------------------------
(***************************************************************************)
(* Proofs about what an agent keeps for itself, for any agents on a model  *)
(* root, configurations and faults, and for any limits of the buffer: what *)
(* an agent reported ready stays in place until a newer configuration is   *)
(* fenced, and an event that is lost was pushed out.                       *)
(***************************************************************************)
EXTENDS AgentLocal, SequenceTheorems, FiniteSetTheorems, TLAPS

(***************************************************************************)
(* The inductive invariant.                                                *)
(***************************************************************************)

Keys == [want : Wants, rev : Rev]

\* An install on its way, and one that has moved the old directory away.
Underway == [key : Keys, step : Steps \ {"none", "moved"}, cancelled : BOOLEAN]
Moved == [key : Keys, step : {"moved"}, cancelled : BOOLEAN, old : Wants \cup {Removed}]

\* Configurations are numbered from 1; agents and the fence know of those that
\* were published.
RevisionsProper ==
  /\ \E n \in 1 .. MaxRev : Rev = 1 .. n
  /\ \A r \in Rev : configs[r].want \in Wants \cup {Removed}
  /\ cfg \in [Agents -> Rev \cup {0}]
  /\ fence \in [rev : Rev \cup {0}, art : {w.art : w \in Wants} \cup {Removed}]

\* An install is for what its configuration wants.
JobsProper ==
  /\ job \in [Agents -> {NoJob} \cup Underway \cup Moved]
  /\ \A a \in Agents : job[a].step # "none" => job[a].key.want = configs[job[a].key.rev].want

\* The install between the two renames holds the lock, alone; the fence is still
\* its own, and what it installs is not there yet.
LockProper ==
  /\ lock \in Agents \cup {Removed}
  /\ \A a \in Agents : job[a].step \in {"locked", "moved"} <=> lock = a
  /\ \A a \in Agents : lock = a => fence = FenceOf(job[a].key) /\ dir # job[a].key.want

\* Who is ready is so with a published configuration that has been fenced.
ReadyFenced ==
  \A a \in Agents : status[a] = "ready" => cfg[a] \in Rev /\ cfg[a] <= fence.rev

\* The rest of the types.
RestTyped ==
  /\ dir \in Wants \cup {Removed}
  /\ sources \subseteq {w.art : w \in Wants}
  /\ status \in [Agents -> {"none", "ready", "pending", "installing", "error"}]

\* An agent knows of one install at most.
OneKnown == known \in [Agents -> {{}} \cup {{s} : s \in [key : Keys, running : BOOLEAN]}]

InductiveInv ==
  /\ ArtifactInstallAssumption
  /\ RevisionsProper
  /\ JobsProper
  /\ LockProper
  /\ ReadyFenced
  /\ RestTyped
  /\ OneKnown
  /\ ReadyStaysInstalled

(***************************************************************************)
(* Revisions, fences and jobs.                                             *)
(***************************************************************************)

\* The latest configuration has the highest number.
LEMMA LatestIs ==
  ASSUME NEW n \in Nat \ {0}, Rev = 1 .. n
  PROVE  Latest = n
<1>1. n \in Rev /\ \A q \in Rev : q <= n
  BY SMT
<1>2. \A r \in Rev : (\A q \in Rev : q <= r) => r = n
  BY <1>1
<1>3. QED
  BY <1>1, <1>2 DEF Latest

\* Publishing a fence keeps its type and never takes it back.
LEMMA PublishedProper ==
  ASSUME InductiveInv, NEW d \in [rev : Rev \cup {0}, art : {w.art : w \in Wants} \cup {Removed}]
  PROVE  /\ Published(d) \in [rev : Rev \cup {0}, art : {w.art : w \in Wants} \cup {Removed}]
         /\ Published(d).rev >= fence.rev
         /\ Published(d) = fence \/ Published(d).rev > fence.rev
<1>1. Rev \cup {0} \subseteq Nat
  BY DEF InductiveInv, ArtifactInstallAssumption, RevisionsProper
<1>2. fence \in [rev : Rev \cup {0}, art : {w.art : w \in Wants} \cup {Removed}]
  BY DEF InductiveInv, RevisionsProper
<1>3. fence.rev \in Nat /\ d.rev \in Nat
  BY <1>1, <1>2
<1>4. QED
  BY <1>2, <1>3 DEF Published, ShouldAdvance

\* The fence of an install is a fence.
LEMMA FenceOfProper ==
  ASSUME NEW key \in Keys
  PROVE  FenceOf(key) \in [rev : Rev \cup {0}, art : {w.art : w \in Wants} \cup {Removed}]
  BY DEF FenceOf, Keys

\* Nobody is ready with the fence's configuration while its install replaces the
\* directory.
LEMMA NobodyReady ==
  ASSUME InductiveInv, NEW a \in Agents, lock = a, NEW b \in Agents
  PROVE  ~(status[b] = "ready" /\ cfg[b] = fence.rev)
<1>1. /\ fence = FenceOf(job[a].key) /\ dir # job[a].key.want
      /\ job[a].step \in {"locked", "moved"}
  BY DEF InductiveInv, LockProper
<1>2. job[a].key.want = configs[job[a].key.rev].want
  BY <1>1 DEF InductiveInv, JobsProper
<1>3. fence.rev = job[a].key.rev
  BY <1>1 DEF FenceOf
<1>4. QED
  BY <1>1, <1>2, <1>3 DEF InductiveInv, ReadyStaysInstalled

\* Nobody is ready with a configuration that is fenced only now.
LEMMA NewFence ==
  ASSUME InductiveInv, NEW d \in [rev : Rev \cup {0}, art : {w.art : w \in Wants} \cup {Removed}],
         NEW b \in Agents, status[b] = "ready", cfg[b] = Published(d).rev
  PROVE  cfg[b] = fence.rev
<1>1. Rev \cup {0} \subseteq Nat
  BY DEF InductiveInv, ArtifactInstallAssumption, RevisionsProper
<1>2. fence.rev \in Nat /\ cfg[b] \in Nat /\ cfg[b] <= fence.rev
  BY <1>1 DEF InductiveInv, RevisionsProper, ReadyFenced
<1>3. cfg[b] >= fence.rev
  BY PublishedProper
<1>4. QED
  BY <1>2, <1>3

\* What a job may become.
LEMMA JobForms ==
  ASSUME InductiveInv, NEW a \in Agents
  PROVE  /\ job[a].step = "none" => job[a] = NoJob
         /\ job[a].step = "moved" => job[a] \in Moved
         /\ job[a].step \notin {"none", "moved"} => job[a] \in Underway
         /\ job[a].step # "none" => job[a].key \in Keys /\ job[a].cancelled \in BOOLEAN
  BY DEF InductiveInv, JobsProper, NoJob, Underway, Moved

\* A job's next step.
LEMMA GoesForm ==
  ASSUME InductiveInv, NEW a \in Agents, NEW step \in Steps \ {"none", "moved"},
         job[a].step \notin {"none", "moved"}, Goes(a, step)
  PROVE  /\ job' \in [Agents -> {NoJob} \cup Underway \cup Moved]
         /\ job'[a].step = step /\ job'[a].key = job[a].key
         /\ \A b \in Agents : b # a => job'[b] = job[b]
<1>1. job[a] \in Underway
  BY JobForms
<1>2. job \in [Agents -> {NoJob} \cup Underway \cup Moved]
  BY DEF InductiveInv, JobsProper
<1>3. job' = [job EXCEPT ![a].step = step]
  BY DEF Goes
<1>4. [job[a] EXCEPT !.step = step] \in Underway
  BY <1>1 DEF Underway
<1>5. /\ job'[a] = [job[a] EXCEPT !.step = step]
      /\ \A b \in Agents : b # a => job'[b] = job[b]
  BY <1>2, <1>3
<1>6. job'[a].step = step /\ job'[a].key = job[a].key
  BY <1>1, <1>5 DEF Underway
<1>7. QED
  BY <1>2, <1>3, <1>4, <1>5, <1>6

\* A step that changes one agent's job and keeps its key keeps the jobs proper.
LEMMA JobsKept ==
  ASSUME InductiveInv, NEW a \in Agents, UNCHANGED configs,
         job' \in [Agents -> {NoJob} \cup Underway \cup Moved],
         job'[a].step # "none" => job[a].step # "none" /\ job'[a].key = job[a].key,
         \A b \in Agents : b # a => job'[b] = job[b]
  PROVE  JobsProper'
<1>1. UNCHANGED <<Keys, Underway, Moved>>
  BY DEF Keys, Rev, Underway, Moved
<1>2. ASSUME NEW b \in Agents, job'[b].step # "none"
      PROVE  job'[b].key.want = configs[job'[b].key.rev].want
  BY <1>2 DEF InductiveInv, JobsProper
<1>3. QED
  BY <1>1, <1>2 DEF JobsProper, NoJob

\* An agent outside the two renames, that leaves the directory alone, and the
\* fence too while somebody holds the lock.
LEMMA LockKept ==
  ASSUME InductiveInv, NEW a \in Agents, UNCHANGED <<lock, dir>>,
         fence' = fence \/ lock = Removed,
         job[a].step \notin {"locked", "moved"}, job'[a].step \notin {"locked", "moved"},
         \A b \in Agents : b # a => job'[b] = job[b]
  PROVE  LockProper'
<1>1. lock # a
  BY DEF InductiveInv, LockProper
<1>2. ASSUME NEW b \in Agents
      PROVE  (/\ job[b].step \in {"locked", "moved"} <=> lock = b
              /\ lock = b => fence = FenceOf(job[b].key) /\ dir # job[b].key.want)'
  <2>1. CASE b = a
    BY <1>1, <2>1
  <2>2. CASE b # a
    <3>1. job'[b] = job[b]
      BY <2>2
    <3>2. lock = b => fence' = fence
      BY DEF InductiveInv, ArtifactInstallAssumption
    <3>3. QED
      BY <3>1, <3>2 DEF InductiveInv, LockProper, FenceOf
  <2>3. QED
    BY <2>1, <2>2
<1>3. QED
  BY <1>2 DEF InductiveInv, LockProper

\* A job that ends, or dies, gives the lock back if it has it.
LEMMA LockGivenBack ==
  ASSUME InductiveInv, NEW a \in Agents, Unlocked(a), UNCHANGED fence,
         lock = a \/ UNCHANGED dir, job'[a].step \notin {"locked", "moved"},
         \A b \in Agents : b # a => job'[b] = job[b]
  PROVE  LockProper'
<1>1. lock' \in Agents \cup {Removed} /\ lock' # a
  BY DEF Unlocked, InductiveInv, LockProper, ArtifactInstallAssumption
<1>2. ASSUME NEW b \in Agents
      PROVE  (/\ job[b].step \in {"locked", "moved"} <=> lock = b
              /\ lock = b => fence = FenceOf(job[b].key) /\ dir # job[b].key.want)'
  <2>1. CASE b = a
    BY <1>1, <2>1
  <2>2. CASE b # a
    <3>1. job'[b] = job[b]
      BY <2>2
    <3>2. lock' = b <=> lock = b
      BY <2>2 DEF Unlocked, InductiveInv, ArtifactInstallAssumption
    <3>3. lock = b => dir' = dir
      BY <2>2
    <3>4. QED
      BY <3>1, <3>2, <3>3 DEF InductiveInv, LockProper, FenceOf
  <2>3. QED
    BY <2>1, <2>2
<1>3. QED
  BY <1>1, <1>2 DEF LockProper

\* A step that leaves configurations, fence, directory and what was reported
\* alone disturbs nothing but jobs, the lock and the sources.
LEMMA OtherwiseAlone ==
  ASSUME InductiveInv, UNCHANGED <<configs, cfg, fence, dir, known, status>>,
         sources' \subseteq {w.art : w \in Wants}
  PROVE  /\ RevisionsProper' /\ ReadyFenced' /\ RestTyped' /\ OneKnown' /\ ReadyStaysInstalled'
         /\ ArtifactInstallAssumption'
<1>1. UNCHANGED <<Rev, Keys>>
  BY DEF Rev, Keys
<1>2. QED
  BY <1>1 DEF InductiveInv, RevisionsProper, ReadyFenced, RestTyped, OneKnown,
     ReadyStaysInstalled, ArtifactInstallAssumption

(***************************************************************************)
(* The steps.                                                              *)
(***************************************************************************)

\* An empty model root satisfies the invariant.
LEMMA InductiveInit == ArtifactInstallAssumption /\ Init => InductiveInv
<1> SUFFICES ASSUME ArtifactInstallAssumption, Init PROVE InductiveInv
  OBVIOUS
<1>1. Rev = {1} /\ configs[1].want \in Wants
  BY DEF Init, Rev
<1>2. RevisionsProper
  <2>1. 1 \in 1 .. MaxRev /\ Rev = 1 .. 1
    BY <1>1 DEF ArtifactInstallAssumption
  <2>2. cfg \in [Agents -> Rev \cup {0}]
    BY DEF Init
  <2>3. fence \in [rev : Rev \cup {0}, art : {w.art : w \in Wants} \cup {Removed}]
    BY DEF Init
  <2>4. QED
    BY <1>1, <2>1, <2>2, <2>3 DEF RevisionsProper
<1>3. JobsProper
  BY DEF Init, JobsProper, NoJob
<1>4. LockProper
  BY DEF Init, LockProper, NoJob, ArtifactInstallAssumption
<1>5. ReadyFenced /\ RestTyped /\ OneKnown /\ ReadyStaysInstalled
  BY DEF Init, ReadyFenced, RestTyped, OneKnown, ReadyStaysInstalled
<1>6. QED
  BY <1>2, <1>3, <1>4, <1>5 DEF InductiveInv

\* Another configuration gets the next number.
LEMMA ApplyStep ==
  ASSUME InductiveInv, NEW want \in Wants \cup {Removed}, NEW allowed, Apply(want, allowed)
  PROVE  InductiveInv'
<1>1. PICK n \in 1 .. MaxRev : Rev = 1 .. n
  BY DEF InductiveInv, RevisionsProper
<1>2. n \in Nat \ {0} /\ MaxRev \in Nat
  BY <1>1 DEF InductiveInv, ArtifactInstallAssumption
<1>3. Latest = n
  BY <1>1, <1>2, LatestIs
<1>4. n < MaxRev
  BY <1>3 DEF Apply
<1>5. configs' = [r \in Rev \cup {n + 1} |->
                    IF r \in Rev THEN configs[r] ELSE [want |-> want, allowed |-> allowed]]
  BY <1>3 DEF Apply
<1>6. Rev' = Rev \cup {n + 1} /\ Rev' = 1 .. (n + 1) /\ n + 1 \in 1 .. MaxRev
  BY <1>1, <1>2, <1>4, <1>5 DEF Rev
<1>7. /\ \A r \in Rev : configs'[r] = configs[r]
      /\ configs'[n + 1].want \in Wants \cup {Removed}
  BY <1>1, <1>2, <1>5
<1>8. UNCHANGED <<cfg, fence, dir, lock, sources, job, known, status>>
  BY DEF Apply
<1>9. RevisionsProper'
  BY <1>6, <1>7, <1>8 DEF InductiveInv, RevisionsProper
<1>10. JobsProper'
  <2>1. Keys \subseteq Keys' /\ Underway \subseteq Underway' /\ Moved \subseteq Moved'
    BY <1>6 DEF Keys, Underway, Moved
  <2>2. ASSUME NEW a \in Agents, job[a].step # "none"
        PROVE  job[a].key.want = configs'[job[a].key.rev].want
    <3>1. job[a].key.rev \in Rev
      BY <2>2, JobForms DEF Keys
    <3>2. QED
      BY <1>7, <2>2, <3>1 DEF InductiveInv, JobsProper
  <2>3. job' \in [Agents -> {NoJob} \cup Underway' \cup Moved']
    BY <1>8, <2>1 DEF InductiveInv, JobsProper
  <2>4. QED
    BY <1>8, <2>2, <2>3 DEF JobsProper, NoJob
<1>11. LockProper'
  BY <1>8 DEF InductiveInv, LockProper, FenceOf
<1>12. ReadyFenced' /\ RestTyped'
  BY <1>6, <1>8 DEF InductiveInv, ReadyFenced, RestTyped
<1>13. OneKnown'
  <2>1. Keys \subseteq Keys'
    BY <1>6 DEF Keys
  <2>2. QED
    BY <1>8, <2>1 DEF InductiveInv, OneKnown
<1>14. ReadyStaysInstalled'
  <2>1. ASSUME NEW a \in Agents, status[a] = "ready", cfg[a] = fence.rev
        PROVE  dir = configs'[cfg[a]].want
    <3>1. cfg[a] \in Rev /\ dir = configs[cfg[a]].want
      BY <2>1 DEF InductiveInv, ReadyFenced, ReadyStaysInstalled
    <3>2. QED
      BY <1>7, <3>1
  <2>2. QED
    BY <1>8, <2>1 DEF ReadyStaysInstalled
<1>15. QED
  BY <1>9, <1>10, <1>11, <1>12, <1>13, <1>14 DEF InductiveInv, ArtifactInstallAssumption

\* Drains and cancellations keep a job's key and step, or end it.
LEMMA CycleJobs ==
  ASSUME InductiveInv, NEW a \in Agents, NEW j \in {Remaining(a), Cancelled(Remaining(a))}
  PROVE  /\ j \in {NoJob} \cup Underway \cup Moved
         /\ j.step # "none" => job[a].step # "none" /\ j.key = job[a].key
         /\ j.step \in {"locked", "moved"} <=> job[a].step \in {"locked", "moved"}
<1>1. CASE job[a].step = "none"
  <2>1. job[a] = NoJob
    BY <1>1, JobForms
  <2>2. j = NoJob
    BY <2>1 DEF Remaining, Cancelled, NoJob
  <2>3. QED
    BY <1>1, <2>2 DEF NoJob
<1>2. CASE job[a].step = "done"
  <2>1. j = NoJob
    BY <1>2 DEF Remaining, Cancelled, NoJob
  <2>2. QED
    BY <1>2, <2>1 DEF NoJob
<1>3. CASE job[a].step \notin {"none", "done"}
  <2>1. j = job[a] \/ j = [job[a] EXCEPT !.cancelled = TRUE]
    BY <1>3 DEF Remaining, Cancelled
  <2>2. CASE job[a].step = "moved"
    <3>1. job[a] \in Moved
      BY <2>2, JobForms
    <3>2. j \in Moved /\ j.key = job[a].key /\ j.step = job[a].step
      BY <2>1, <3>1 DEF Moved
    <3>3. QED
      BY <2>2, <3>2
  <2>3. CASE job[a].step # "moved"
    <3>1. job[a] \in Underway
      BY <1>3, <2>3, JobForms
    <3>2. j \in Underway /\ j.key = job[a].key /\ j.step = job[a].step
      BY <2>1, <3>1 DEF Underway
    <3>3. QED
      BY <1>3, <3>2
  <2>4. QED
    BY <2>2, <2>3
<1>4. QED
  BY <1>1, <1>2, <1>3

\* Who holds the lock keeps it while it keeps its key, and while fence and
\* directory stay as they are.
LEMMA LockLeft ==
  ASSUME InductiveInv, NEW a \in Agents, UNCHANGED <<lock, dir>>,
         fence' = fence \/ lock = Removed,
         job'[a].step \in {"locked", "moved"} <=> job[a].step \in {"locked", "moved"},
         job'[a].step \in {"locked", "moved"} => job'[a].key = job[a].key,
         \A b \in Agents : b # a => job'[b] = job[b]
  PROVE  LockProper'
<1>1. ASSUME NEW b \in Agents
      PROVE  (/\ job[b].step \in {"locked", "moved"} <=> lock = b
              /\ lock = b => fence = FenceOf(job[b].key) /\ dir # job[b].key.want)'
  <2>1. job'[b].step \in {"locked", "moved"} <=> job[b].step \in {"locked", "moved"}
    BY <1>1
  <2>2. job[b].step \in {"locked", "moved"} <=> lock = b
    BY DEF InductiveInv, LockProper
  <2>3. lock = b => fence' = fence /\ job'[b].key = job[b].key
    BY <2>1, <2>2 DEF InductiveInv, ArtifactInstallAssumption
  <2>4. QED
    BY <2>1, <2>2, <2>3 DEF InductiveInv, LockProper, FenceOf
<1>2. QED
  BY <1>1 DEF InductiveInv, LockProper

Entries == [key : Keys, running : BOOLEAN]
Singles == {{}} \cup {{s} : s \in Entries}

\* The installs an agent knows of after its drain, and any of them.
LEMMA DrainedSingle ==
  ASSUME InductiveInv, NEW a \in Agents, NEW some \in SUBSET Drained(a)
  PROVE  some \in Singles
<1>1. known[a] \in Singles
  BY DEF InductiveInv, OneKnown, Singles, Entries
<1>2. CASE known[a] = {}
  BY <1>2 DEF Drained, Singles
<1>3. CASE known[a] # {}
  <2>1. PICK s \in Entries : known[a] = {s}
    BY <1>1, <1>3 DEF Singles
  <2> DEFINE e == IF s.running /\ job[a].step = "done" /\ job[a].key = s.key
                   THEN [s EXCEPT !.running = FALSE] ELSE s
  <2>2. Drained(a) = {e}
    BY <2>1 DEF Drained
  <2>3. e \in Entries
    BY DEF Entries
  <2> HIDE DEF e
  <2>4. some = {} \/ some = {e}
    BY <2>2
  <2>5. QED
    BY <2>3, <2>4 DEF Singles
<1>4. QED
  BY <1>2, <1>3

\* A fence published meanwhile leaves everybody ready who is ready with it,
\* as long as the directory stays as it is.
LEMMA FenceAdvances ==
  ASSUME InductiveInv, NEW a \in Agents, UNCHANGED <<configs, dir>>,
         NEW d \in [rev : Rev \cup {0}, art : {w.art : w \in Wants} \cup {Removed}],
         fence' = Published(d),
         \A b \in Agents : b # a => status'[b] = status[b] /\ cfg'[b] = cfg[b],
         \/ status'[a] # "ready"
         \/ status'[a] = status[a] /\ cfg'[a] = cfg[a]
         \/ cfg'[a] \in Rev /\ cfg'[a] = fence'.rev /\ dir = configs[cfg'[a]].want
  PROVE  ReadyFenced' /\ ReadyStaysInstalled'
<1>1. Rev \cup {0} \subseteq Nat
  BY DEF InductiveInv, ArtifactInstallAssumption, RevisionsProper
<1>2. /\ fence' \in [rev : Rev \cup {0}, art : {w.art : w \in Wants} \cup {Removed}]
      /\ fence'.rev >= fence.rev
  BY PublishedProper
<1>3. fence.rev \in Nat /\ fence'.rev \in Nat
  BY <1>1, <1>2 DEF InductiveInv, RevisionsProper
<1>4. Rev' = Rev
  BY DEF Rev
<1>5. ASSUME NEW b \in Agents, status'[b] = "ready"
      PROVE  /\ cfg'[b] \in Rev /\ cfg'[b] <= fence'.rev
             /\ cfg'[b] = fence'.rev => dir = configs[cfg'[b]].want
  <2>1. CASE status'[b] = status[b] /\ cfg'[b] = cfg[b]
    <3>1. cfg[b] \in Rev /\ cfg[b] <= fence.rev
      BY <1>5, <2>1 DEF InductiveInv, ReadyFenced
    <3>2. cfg[b] <= fence'.rev
      BY <1>1, <1>2, <1>3, <3>1
    <3>3. cfg[b] = fence'.rev => cfg[b] = fence.rev
      BY <1>5, <2>1, NewFence
    <3>4. QED
      BY <1>5, <2>1, <3>1, <3>2, <3>3 DEF InductiveInv, ReadyStaysInstalled
  <2>2. CASE ~(status'[b] = status[b] /\ cfg'[b] = cfg[b])
    <3>1. b = a /\ cfg'[a] \in Rev /\ cfg'[a] = fence'.rev /\ dir = configs[cfg'[a]].want
      BY <1>5, <2>2
    <3>2. QED
      BY <1>3, <3>1
  <2>3. QED
    BY <2>1, <2>2
<1>6. QED
  BY <1>4, <1>5 DEF ReadyFenced, ReadyStaysInstalled

\* A cycle of an agent that may use the directory.
LEMMA CycleStep ==
  ASSUME InductiveInv, NEW a \in Agents, NEW r, Cycle(a, r)
  PROVE  InductiveInv'
<1> DEFINE want == configs[r].want
           key == [want |-> want, rev |-> r]
           others == {s \in Drained(a) : s.key.want.model # want.model /\ s.running}
           mine == {s \in Drained(a) : s.key.want.model = want.model}
           kept == others \cup mine
           begun == [key |-> key, step |-> "fence", cancelled |-> FALSE]
<1>1. r \in Rev /\ want \in Wants /\ key \in Keys
  BY DEF Cycle, InductiveInv, RevisionsProper, Keys
<1>2. /\ UNCHANGED <<configs, dir, lock, sources>>
      /\ lock = Removed
      /\ cfg' = [cfg EXCEPT ![a] = r]
      /\ fence' = Published(FenceOf(key))
  BY DEF Cycle
<1>3. \E k \in Singles : known' = [known EXCEPT ![a] = k]
  <2>1. kept \in SUBSET Drained(a) /\ {s \in kept : s.running} \in SUBSET Drained(a)
    OBVIOUS
  <2>2. kept \in Singles /\ {s \in kept : s.running} \in Singles
    BY <2>1, DrainedSingle
  <2>3. {[key |-> key, running |-> TRUE]} \in Singles
    BY <1>1 DEF Singles, Entries
  <2>4. \/ known' = [known EXCEPT ![a] = {s \in kept : s.running}]
        \/ known' = [known EXCEPT ![a] = {[key |-> key, running |-> TRUE]}]
        \/ known' = [known EXCEPT ![a] = kept]
    BY DEF Cycle
  <2>5. QED
    BY <2>2, <2>3, <2>4
<1>4. \E j \in {Remaining(a), Cancelled(Remaining(a)), begun} : job' = [job EXCEPT ![a] = j]
  BY DEF Cycle
<1>5. \E v \in {"ready", "pending", "installing", "error"} :
        /\ status' = [status EXCEPT ![a] = v]
        /\ v = "ready" => fence' = FenceOf(key) /\ dir = want
  BY DEF Cycle, Matches
<1> HIDE DEF want, key, others, mine, kept
<1>6. FenceOf(key) \in [rev : Rev \cup {0}, art : {w.art : w \in Wants} \cup {Removed}]
  BY <1>1, FenceOfProper
<1>7. fence' \in [rev : Rev \cup {0}, art : {w.art : w \in Wants} \cup {Removed}]
  BY <1>2, <1>6, PublishedProper
<1>8. UNCHANGED <<Rev, Keys, Underway, Moved>>
  BY <1>2 DEF Rev, Keys, Underway, Moved
<1>9. cfg' \in [Agents -> Rev \cup {0}]
  BY <1>1, <1>2 DEF InductiveInv, RevisionsProper
<1>10. RevisionsProper'
  BY <1>2, <1>7, <1>8, <1>9 DEF InductiveInv, RevisionsProper
<1>11. JobsProper' /\ LockProper'
  <2>1. PICK j \in {Remaining(a), Cancelled(Remaining(a)), begun} : job' = [job EXCEPT ![a] = j]
    BY <1>4
  <2>2. job'[a] = j /\ \A b \in Agents : b # a => job'[b] = job[b]
    BY <2>1 DEF InductiveInv, JobsProper
  <2>3. job[a].step \notin {"locked", "moved"}
    BY <1>2 DEF InductiveInv, LockProper, ArtifactInstallAssumption
  <2>4. CASE j = begun
    <3>1. j \in Underway /\ j.key = key /\ j.step = "fence"
      BY <1>1, <2>4 DEF Underway, Steps
    <3>2. key.want = configs[key.rev].want
      BY DEF key, want
    <3>3. job' \in [Agents -> {NoJob} \cup Underway \cup Moved]
      BY <2>1, <3>1 DEF InductiveInv, JobsProper
    <3>4. ASSUME NEW b \in Agents, job'[b].step # "none"
          PROVE  job'[b].key.want = configs[job'[b].key.rev].want
      BY <2>2, <3>1, <3>2, <3>4 DEF InductiveInv, JobsProper
    <3>5. JobsProper'
      BY <1>2, <1>8, <3>3, <3>4 DEF JobsProper, NoJob
    <3>6. LockProper'
      BY <1>2, <2>2, <2>3, <3>1, LockKept
    <3>7. QED
      BY <3>5, <3>6
  <2>5. CASE j # begun
    <3>1. j \in {Remaining(a), Cancelled(Remaining(a))}
      BY <2>5
    <3>2. /\ j \in {NoJob} \cup Underway \cup Moved
          /\ j.step # "none" => job[a].step # "none" /\ j.key = job[a].key
          /\ j.step \notin {"locked", "moved"}
      BY <2>3, <3>1, CycleJobs
    <3>3. job' \in [Agents -> {NoJob} \cup Underway \cup Moved]
      BY <2>1, <3>2 DEF InductiveInv, JobsProper
    <3>4. JobsProper'
      BY <1>2, <2>2, <3>2, <3>3, JobsKept
    <3>5. LockProper'
      BY <1>2, <2>2, <2>3, <3>2, LockKept
    <3>6. QED
      BY <3>4, <3>5
  <2>6. QED
    BY <2>4, <2>5
<1>12. ReadyFenced' /\ ReadyStaysInstalled' /\ RestTyped'
  <2>1. PICK v \in {"ready", "pending", "installing", "error"} :
          /\ status' = [status EXCEPT ![a] = v]
          /\ v = "ready" => fence' = FenceOf(key) /\ dir = want
    BY <1>5
  <2>2. status'[a] = v /\ \A b \in Agents : b # a => status'[b] = status[b]
    BY <2>1 DEF InductiveInv, RestTyped
  <2>3. cfg'[a] = r /\ \A b \in Agents : b # a => cfg'[b] = cfg[b]
    BY <1>2 DEF InductiveInv, RevisionsProper
  <2>4. v = "ready" => cfg'[a] \in Rev /\ cfg'[a] = fence'.rev /\ dir = configs[cfg'[a]].want
    BY <1>1, <2>1, <2>3 DEF FenceOf, key, want
  <2>5. status'[a] # "ready" \/ (/\ cfg'[a] \in Rev /\ cfg'[a] = fence'.rev
                                 /\ dir = configs[cfg'[a]].want)
    BY <2>2, <2>4
  <2>6. ReadyFenced' /\ ReadyStaysInstalled'
    BY <1>2, <1>6, <2>2, <2>3, <2>5, FenceAdvances
  <2>7. RestTyped'
    BY <1>2, <2>1 DEF InductiveInv, RestTyped
  <2>8. QED
    BY <2>6, <2>7
<1>13. OneKnown'
  BY <1>3, <1>8 DEF InductiveInv, OneKnown, Singles, Entries
<1>14. QED
  BY <1>10, <1>11, <1>12, <1>13 DEF InductiveInv, ArtifactInstallAssumption

\* A cycle of an agent that may not.
LEMMA DisallowedStep ==
  ASSUME InductiveInv, NEW a \in Agents, NEW r, CycleDisallowed(a, r)
  PROVE  InductiveInv'
<1> DEFINE live == {s \in Drained(a) : s.running}
           j == IF live = {} THEN Remaining(a) ELSE Cancelled(Remaining(a))
<1>1. /\ r \in Rev
      /\ UNCHANGED <<configs, dir, lock, sources>>
      /\ cfg' = [cfg EXCEPT ![a] = r]
      /\ known' = [known EXCEPT ![a] = live]
      /\ job' = [job EXCEPT ![a] = j]
      /\ status' = [status EXCEPT ![a] = "none"]
  BY DEF CycleDisallowed
<1>2. live \in Singles
  BY DrainedSingle
<1>3. /\ j \in {NoJob} \cup Underway \cup Moved
      /\ j.step # "none" => job[a].step # "none" /\ j.key = job[a].key
      /\ j.step \in {"locked", "moved"} <=> job[a].step \in {"locked", "moved"}
  <2>1. j \in {Remaining(a), Cancelled(Remaining(a))}
    OBVIOUS
  <2> HIDE DEF j
  <2>2. QED
    BY <2>1, CycleJobs
<1>4. PICK d \in [rev : Rev \cup {0}, art : {w.art : w \in Wants} \cup {Removed}] :
        /\ fence' = Published(d)
        /\ d = fence \/ lock = Removed
  <2>1. Published(fence) = fence
    BY DEF Published
  <2>2. fence \in [rev : Rev \cup {0}, art : {w.art : w \in Wants} \cup {Removed}]
    BY DEF InductiveInv, RevisionsProper
  <2>3. CASE live = {} \/ configs[r].want # Removed
    <3>1. fence' = fence
      BY <2>1, <2>3 DEF CycleDisallowed, RemovalFence
    <3>2. QED
      BY <2>1, <2>2, <3>1
  <2>4. CASE ~(live = {} \/ configs[r].want # Removed)
    <3>1. lock = Removed /\ fence' = Published([rev |-> r, art |-> Removed])
      BY <2>4 DEF CycleDisallowed, RemovalFence
    <3>2. [rev |-> r, art |-> Removed]
            \in [rev : Rev \cup {0}, art : {w.art : w \in Wants} \cup {Removed}]
      BY <1>1
    <3>3. QED
      BY <3>1, <3>2
  <2>5. QED
    BY <2>3, <2>4
<1> HIDE DEF live, j
<1>5. fence' \in [rev : Rev \cup {0}, art : {w.art : w \in Wants} \cup {Removed}]
  BY <1>4, PublishedProper
<1>6. UNCHANGED <<Rev, Keys, Underway, Moved>>
  BY <1>1 DEF Rev, Keys, Underway, Moved
<1>7. RevisionsProper'
  BY <1>1, <1>5, <1>6 DEF InductiveInv, RevisionsProper
<1>8. job'[a] = j /\ \A b \in Agents : b # a => job'[b] = job[b]
  BY <1>1 DEF InductiveInv, JobsProper
<1>9. JobsProper'
  <2>1. job' \in [Agents -> {NoJob} \cup Underway \cup Moved]
    BY <1>1, <1>3 DEF InductiveInv, JobsProper
  <2>2. QED
    BY <1>1, <1>3, <1>8, <2>1, JobsKept
<1>10. LockProper'
  <2>1. fence' = fence \/ lock = Removed
    BY <1>4 DEF Published
  <2>2. j.step \in {"locked", "moved"} => j.key = job[a].key
    BY <1>3
  <2>3. QED
    BY <1>1, <1>3, <1>8, <2>1, <2>2, LockLeft
<1>11. ReadyFenced' /\ ReadyStaysInstalled'
  <2>1. status'[a] # "ready" /\ \A b \in Agents : b # a => status'[b] = status[b]
    BY <1>1 DEF InductiveInv, RestTyped
  <2>2. \A b \in Agents : b # a => cfg'[b] = cfg[b]
    BY <1>1 DEF InductiveInv, RevisionsProper
  <2>3. QED
    BY <1>1, <1>4, <2>1, <2>2, FenceAdvances
<1>12. RestTyped'
  BY <1>1 DEF InductiveInv, RestTyped
<1>13. OneKnown'
  BY <1>1, <1>2, <1>6 DEF InductiveInv, OneKnown, Singles, Entries
<1>14. QED
  BY <1>7, <1>9, <1>10, <1>11, <1>12, <1>13 DEF InductiveInv, ArtifactInstallAssumption

\* An install publishes its own fence once more.
LEMMA JobFenceStep ==
  ASSUME InductiveInv, NEW a \in Agents, JobFence(a)
  PROVE  InductiveInv'
<1> DEFINE d == FenceOf(job[a].key)
<1>1. /\ job[a].step = "fence" /\ lock = Removed
      /\ fence' = Published(d)
      /\ UNCHANGED <<configs, cfg, dir, lock, sources, known, status, faults>>
  BY DEF JobFence
<1>2. \E step \in {"done", "source"} : Goes(a, step)
  BY DEF JobFence
<1>3. job[a].key \in Keys
  BY <1>1, JobForms
<1>4. d \in [rev : Rev \cup {0}, art : {w.art : w \in Wants} \cup {Removed}]
  BY <1>3, FenceOfProper
<1> HIDE DEF d
<1>5. fence' \in [rev : Rev \cup {0}, art : {w.art : w \in Wants} \cup {Removed}]
  BY <1>1, <1>4, PublishedProper
<1>6. UNCHANGED <<Rev, Keys>>
  BY <1>1 DEF Rev, Keys
<1>7. RevisionsProper' /\ RestTyped' /\ OneKnown'
  BY <1>1, <1>5, <1>6 DEF InductiveInv, RevisionsProper, RestTyped, OneKnown
<1>8. PICK step \in {"done", "source"} : Goes(a, step)
  BY <1>2
<1>9. step \in Steps \ {"none", "moved"}
  BY <1>8 DEF Steps
<1>10. /\ job' \in [Agents -> {NoJob} \cup Underway \cup Moved]
       /\ job'[a].step = step /\ job'[a].key = job[a].key
       /\ \A b \in Agents : b # a => job'[b] = job[b]
  BY <1>1, <1>8, <1>9, GoesForm
<1>11. JobsProper'
  BY <1>1, <1>10, JobsKept
<1>12. LockProper'
  BY <1>1, <1>8, <1>10, LockKept
<1>13. ReadyFenced' /\ ReadyStaysInstalled'
  BY <1>1, <1>4, FenceAdvances
<1>14. QED
  BY <1>7, <1>11, <1>12, <1>13 DEF InductiveInv, ArtifactInstallAssumption

\* Looking for a source, downloading it and staging it.
LEMMA QuietJobStep ==
  ASSUME InductiveInv, NEW a \in Agents,
         JobSource(a) \/ JobDownload(a) \/ JobStage(a) \/ (JobCommit(a) /\ UNCHANGED lock)
  PROVE  InductiveInv'
<1>1. /\ UNCHANGED <<configs, cfg, fence, dir, lock, known, status>>
      /\ job[a].step \in {"source", "sourced", "staged"}
  BY DEF JobSource, JobDownload, JobStage, JobCommit
<1>2. \E step \in {"sourced", "staged", "done"} : Goes(a, step)
  <2>1. CASE JobSource(a)
    BY <2>1 DEF JobSource
  <2>2. CASE JobDownload(a)
    BY <2>2 DEF JobDownload
  <2>3. CASE JobStage(a)
    BY <2>3 DEF JobStage
  <2>4. CASE JobCommit(a) /\ UNCHANGED lock
    BY <2>4 DEF JobCommit, InductiveInv, ArtifactInstallAssumption
  <2>5. QED
    BY <2>1, <2>2, <2>3, <2>4
<1>3. sources' \subseteq {w.art : w \in Wants}
  <2>1. job[a].key \in Keys
    BY <1>1, JobForms
  <2>2. sources' = sources \/ sources' = sources \cup {job[a].key.want.art}
    BY DEF JobSource, JobDownload, JobStage, JobCommit
  <2>3. QED
    BY <2>1, <2>2 DEF Keys, InductiveInv, RestTyped
<1>4. PICK step \in {"sourced", "staged", "done"} : Goes(a, step)
  BY <1>2
<1>5. step \in Steps \ {"none", "moved"}
  BY <1>4 DEF Steps
<1>6. /\ job' \in [Agents -> {NoJob} \cup Underway \cup Moved]
      /\ job'[a].step = step /\ job'[a].key = job[a].key
      /\ \A b \in Agents : b # a => job'[b] = job[b]
  BY <1>1, <1>4, <1>5, GoesForm
<1>7. JobsProper'
  BY <1>1, <1>6, JobsKept
<1>8. LockProper'
  BY <1>1, <1>4, <1>6, LockKept
<1>9. QED
  BY <1>1, <1>3, <1>7, <1>8, OtherwiseAlone DEF InductiveInv

\* An install takes the directory lock: the fence is still its own, and what it
\* installs is not there.
LEMMA TakesLock ==
  ASSUME InductiveInv, NEW a \in Agents, JobCommit(a), MayCommit(job[a].key)
  PROVE  InductiveInv'
<1>1. /\ UNCHANGED <<configs, cfg, fence, dir, sources, known, status>>
      /\ job[a].step = "staged" /\ lock = Removed
      /\ Goes(a, "locked") /\ lock' = a
      /\ fence = FenceOf(job[a].key) /\ dir # job[a].key.want
  BY DEF JobCommit, MayCommit, Matches
<1>2. /\ job' \in [Agents -> {NoJob} \cup Underway \cup Moved]
      /\ job'[a].step = "locked" /\ job'[a].key = job[a].key
      /\ \A b \in Agents : b # a => job'[b] = job[b]
  <2>1. "locked" \in Steps \ {"none", "moved"}
    BY DEF Steps
  <2>2. QED
    BY <1>1, <2>1, GoesForm
<1>3. JobsProper'
  BY <1>1, <1>2, JobsKept
<1>4. ASSUME NEW b \in Agents
      PROVE  (/\ job[b].step \in {"locked", "moved"} <=> lock = b
              /\ lock = b => fence = FenceOf(job[b].key) /\ dir # job[b].key.want)'
  <2>1. CASE b = a
    BY <1>1, <1>2, <2>1 DEF FenceOf
  <2>2. CASE b # a
    BY <1>1, <1>2, <2>2 DEF InductiveInv, LockProper, ArtifactInstallAssumption
  <2>3. QED
    BY <2>1, <2>2
<1>5. LockProper'
  BY <1>1, <1>4 DEF LockProper
<1>6. sources' \subseteq {w.art : w \in Wants}
  BY <1>1 DEF InductiveInv, RestTyped
<1>7. QED
  BY <1>1, <1>3, <1>5, <1>6, OtherwiseAlone DEF InductiveInv

\* Who holds the lock may change the directory: nobody is ready with what it
\* held.
LEMMA DirectoryChanges ==
  ASSUME InductiveInv, NEW a \in Agents, lock = a, dir' \in Wants \cup {Removed},
         UNCHANGED <<configs, cfg, fence, sources, known, status>>
  PROVE  /\ RevisionsProper' /\ ReadyFenced' /\ RestTyped' /\ OneKnown' /\ ReadyStaysInstalled'
         /\ ArtifactInstallAssumption'
<1>1. UNCHANGED <<Rev, Keys>>
  BY DEF Rev, Keys
<1>2. ReadyStaysInstalled'
  BY NobodyReady DEF ReadyStaysInstalled
<1>3. QED
  BY <1>1, <1>2 DEF InductiveInv, RevisionsProper, ReadyFenced, RestTyped, OneKnown,
     ArtifactInstallAssumption

\* The old directory goes.
LEMMA MoveAwayStep ==
  ASSUME InductiveInv, NEW a \in Agents, JobMoveAway(a)
  PROVE  InductiveInv'
<1> DEFINE j == [key |-> job[a].key, step |-> "moved", cancelled |-> job[a].cancelled,
                 old |-> dir]
<1>1. /\ UNCHANGED <<configs, cfg, fence, lock, sources, known, status>>
      /\ job[a].step = "locked" /\ dir' = Removed
      /\ job' = [job EXCEPT ![a] = j]
  BY DEF JobMoveAway
<1>2. lock = a /\ fence = FenceOf(job[a].key)
  BY <1>1 DEF InductiveInv, LockProper
<1>3. job[a].key \in Keys /\ job[a].cancelled \in BOOLEAN
  BY <1>1, JobForms
<1>4. j \in Moved /\ j.step = "moved" /\ j.key = job[a].key
  BY <1>3 DEF Moved, InductiveInv, RestTyped
<1> HIDE DEF j
<1>5. job'[a] = j /\ \A b \in Agents : b # a => job'[b] = job[b]
  BY <1>1 DEF InductiveInv, JobsProper
<1>6. JobsProper'
  <2>1. job' \in [Agents -> {NoJob} \cup Underway \cup Moved]
    BY <1>1, <1>4 DEF InductiveInv, JobsProper
  <2>2. QED
    BY <1>1, <1>4, <1>5, <2>1, JobsKept
<1>7. ASSUME NEW b \in Agents
      PROVE  (/\ job[b].step \in {"locked", "moved"} <=> lock = b
              /\ lock = b => fence = FenceOf(job[b].key) /\ dir # job[b].key.want)'
  <2>1. CASE b = a
    <3>1. job[a].key.want # Removed
      BY <1>3 DEF Keys, InductiveInv, ArtifactInstallAssumption
    <3>2. QED
      BY <1>1, <1>2, <1>4, <1>5, <2>1, <3>1 DEF FenceOf
  <2>2. CASE b # a
    BY <1>1, <1>2, <1>5, <2>2 DEF InductiveInv, LockProper
  <2>3. QED
    BY <2>1, <2>2
<1>8. LockProper'
  BY <1>1, <1>7 DEF InductiveInv, LockProper
<1>9. QED
  BY <1>1, <1>2, <1>6, <1>8, DirectoryChanges DEF InductiveInv

\* The staged directory comes in, or the old one comes back.
LEMMA MoveEndsStep ==
  ASSUME InductiveInv, NEW a \in Agents, JobMoveIn(a) \/ JobMoveBack(a)
  PROVE  InductiveInv'
<1> DEFINE j == [key |-> job[a].key, step |-> "done", cancelled |-> job[a].cancelled]
<1>1. /\ UNCHANGED <<configs, cfg, fence, sources, known, status>>
      /\ job[a].step = "moved" /\ lock' = Removed
      /\ dir' = job[a].key.want \/ dir' = job[a].old
      /\ job' = [job EXCEPT ![a] = j]
  BY DEF JobMoveIn, JobMoveBack
<1>2. lock = a
  BY <1>1 DEF InductiveInv, LockProper
<1>3. job[a] \in Moved
  BY <1>1, JobForms
<1>4. j \in Underway /\ j.step = "done" /\ j.key = job[a].key
  BY <1>3 DEF Underway, Moved, Steps
<1>5. dir' \in Wants \cup {Removed}
  BY <1>1, <1>3 DEF Moved, Keys
<1> HIDE DEF j
<1>6. job'[a] = j /\ \A b \in Agents : b # a => job'[b] = job[b]
  BY <1>1 DEF InductiveInv, JobsProper
<1>7. JobsProper'
  <2>1. job' \in [Agents -> {NoJob} \cup Underway \cup Moved]
    BY <1>1, <1>4 DEF InductiveInv, JobsProper
  <2>2. QED
    BY <1>1, <1>4, <1>6, <2>1, JobsKept
<1>8. LockProper'
  <2>1. Unlocked(a)
    BY <1>1, <1>2 DEF Unlocked
  <2>2. job'[a].step \notin {"locked", "moved"}
    BY <1>4, <1>6
  <2>3. QED
    BY <1>1, <1>2, <1>6, <2>1, <2>2, LockGivenBack
<1>9. QED
  BY <1>1, <1>2, <1>5, <1>7, <1>8, DirectoryChanges DEF InductiveInv

\* An install is cancelled or fails.
LEMMA JobEndsStep ==
  ASSUME InductiveInv, NEW a \in Agents, JobEnds(a)
  PROVE  InductiveInv'
<1>1. /\ UNCHANGED <<configs, cfg, fence, dir, sources, known, status>>
      /\ job[a].step \notin {"none", "moved"}
      /\ Goes(a, "done") /\ Unlocked(a)
  BY DEF JobEnds
<1>2. /\ job' \in [Agents -> {NoJob} \cup Underway \cup Moved]
      /\ job'[a].step = "done" /\ job'[a].key = job[a].key
      /\ \A b \in Agents : b # a => job'[b] = job[b]
  <2>1. "done" \in Steps \ {"none", "moved"}
    BY DEF Steps
  <2>2. QED
    BY <1>1, <2>1, GoesForm
<1>3. JobsProper'
  BY <1>1, <1>2, JobsKept
<1>4. LockProper'
  BY <1>1, <1>2, LockGivenBack
<1>5. sources' \subseteq {w.art : w \in Wants}
  BY <1>1 DEF InductiveInv, RestTyped
<1>6. QED
  BY <1>1, <1>3, <1>4, <1>5, OtherwiseAlone DEF InductiveInv

\* The process dies between any two steps.
LEMMA CrashStep ==
  ASSUME InductiveInv, NEW a \in Agents, Crash(a)
  PROVE  InductiveInv'
<1>1. /\ UNCHANGED <<configs, cfg, fence, dir, sources>>
      /\ job' = [job EXCEPT ![a] = NoJob]
      /\ known' = [known EXCEPT ![a] = {}]
      /\ status' = [status EXCEPT ![a] = "none"]
      /\ Unlocked(a)
  BY DEF Crash
<1>2. UNCHANGED <<Rev, Keys>>
  BY <1>1 DEF Rev, Keys
<1>3. /\ job' \in [Agents -> {NoJob} \cup Underway \cup Moved]
      /\ job'[a] = NoJob /\ \A b \in Agents : b # a => job'[b] = job[b]
  BY <1>1 DEF InductiveInv, JobsProper
<1>4. JobsProper'
  BY <1>1, <1>3, JobsKept DEF NoJob
<1>5. LockProper'
  BY <1>1, <1>3, LockGivenBack DEF NoJob
<1>6. status'[a] = "none" /\ \A b \in Agents : b # a => status'[b] = status[b]
  BY <1>1 DEF InductiveInv, RestTyped
<1>7. ReadyFenced' /\ ReadyStaysInstalled'
  BY <1>1, <1>2, <1>6 DEF InductiveInv, ReadyFenced, ReadyStaysInstalled
<1>8. RevisionsProper' /\ RestTyped' /\ OneKnown'
  BY <1>1, <1>2 DEF InductiveInv, RevisionsProper, RestTyped, OneKnown
<1>9. QED
  BY <1>4, <1>5, <1>7, <1>8 DEF InductiveInv, ArtifactInstallAssumption

\* Nothing happens.
LEMMA NothingHappens ==
  ASSUME InductiveInv, UNCHANGED vars
  PROVE  InductiveInv'
<1>1. UNCHANGED <<Rev, Keys, Underway, Moved>>
  BY DEF vars, Rev, Keys, Underway, Moved
<1>2. RevisionsProper' /\ JobsProper' /\ LockProper'
  BY <1>1 DEF vars, InductiveInv, RevisionsProper, JobsProper, LockProper, FenceOf, NoJob
<1>3. ReadyFenced' /\ RestTyped' /\ OneKnown' /\ ReadyStaysInstalled'
  BY <1>1 DEF vars, InductiveInv, ReadyFenced, RestTyped, OneKnown, ReadyStaysInstalled
<1>4. QED
  BY <1>2, <1>3 DEF InductiveInv, ArtifactInstallAssumption

(***************************************************************************)
(* The theorems.                                                           *)
(***************************************************************************)

\* The invariant holds for ever, whatever is published, cancelled, crashes or
\* fails, and whichever agent does it.
THEOREM Invariance == ArtifactInstallAssumption /\ Spec => []InductiveInv
<1>1. ArtifactInstallAssumption /\ Init => InductiveInv
  BY InductiveInit
<1>2. InductiveInv /\ [Next]_vars => InductiveInv'
  <2> SUFFICES ASSUME InductiveInv, [Next]_vars PROVE InductiveInv'
    OBVIOUS
  <2>1. CASE \E want \in Wants \cup {Removed}, allowed \in SUBSET Agents : Apply(want, allowed)
    BY <2>1, ApplyStep
  <2>2. ASSUME NEW a \in Agents, AnyCycle(a) PROVE InductiveInv'
    BY <2>2, CycleStep, DisallowedStep DEF AnyCycle
  <2>3. ASSUME NEW a \in Agents, JobStep(a) PROVE InductiveInv'
    <3>1. CASE JobFence(a)
      BY <3>1, JobFenceStep
    <3>2. CASE JobSource(a)
      BY <3>2, QuietJobStep
    <3>3. CASE JobDownload(a)
      BY <3>3, QuietJobStep
    <3>4. CASE JobStage(a)
      BY <3>4, QuietJobStep
    <3>5. CASE JobCommit(a)
      <4>1. CASE MayCommit(job[a].key)
        BY <3>5, <4>1, TakesLock
      <4>2. CASE ~MayCommit(job[a].key)
        <5>1. UNCHANGED lock
          BY <3>5, <4>2 DEF JobCommit
        <5>2. QED
          BY <3>5, <5>1, QuietJobStep
      <4>3. QED
        BY <4>1, <4>2
    <3>6. CASE JobMoveAway(a)
      BY <3>6, MoveAwayStep
    <3>7. CASE JobMoveIn(a)
      BY <3>7, MoveEndsStep
    <3>8. CASE JobEnds(a)
      BY <3>8, JobEndsStep
    <3>9. QED
      BY <2>3, <3>1, <3>2, <3>3, <3>4, <3>5, <3>6, <3>7, <3>8 DEF JobStep
  <2>4. ASSUME NEW a \in Agents, JobMoveBack(a) PROVE InductiveInv'
    BY <2>4, MoveEndsStep
  <2>5. ASSUME NEW a \in Agents, Crash(a) PROVE InductiveInv'
    BY <2>5, CrashStep
  <2>6. CASE UNCHANGED vars
    BY <2>6, NothingHappens
  <2>7. QED
    BY <2>1, <2>2, <2>3, <2>4, <2>5, <2>6 DEF Next
<1>3. QED
  BY <1>1, <1>2, PTL DEF Spec

\* Every variable keeps its type; an install holds the directory lock exactly
\* between its last look at the fence and the end of the second rename, and an
\* agent runs one install of the directory at a time.
THEOREM TypeCorrect == ArtifactInstallAssumption /\ Spec => []TypeOK
<1>1. InductiveInv => TypeOK
  <2> SUFFICES ASSUME InductiveInv PROVE TypeOK
    OBVIOUS
  <2>1. Rev \cup {0} \subseteq 0 .. MaxRev
    BY DEF InductiveInv, ArtifactInstallAssumption, RevisionsProper
  <2>2. cfg \in [Agents -> 0 .. MaxRev]
    BY <2>1 DEF InductiveInv, RevisionsProper
  <2>3. fence \in [rev : 0 .. MaxRev, art : {w.art : w \in Wants} \cup {Removed}]
    BY <2>1 DEF InductiveInv, RevisionsProper
  <2>4. ASSUME NEW a \in Agents PROVE job[a].step \in Steps
    <3>1. job[a] \in {NoJob} \cup Underway \cup Moved
      BY DEF InductiveInv, JobsProper
    <3>2. QED
      BY <3>1 DEF NoJob, Underway, Moved, Steps
  <2>5. ASSUME NEW a \in Agents PROVE Cardinality(known[a]) <= 1
    <3>1. known[a] = {} \/ \E s : known[a] = {s}
      BY DEF InductiveInv, OneKnown
    <3>2. Cardinality(known[a]) \in {0, 1}
      BY <3>1, FS_EmptySet, FS_Singleton
    <3>3. QED
      BY <3>2
  <2>6. QED
    BY <2>2, <2>3, <2>4, <2>5 DEF TypeOK, InductiveInv, LockProper, RestTyped
<1>2. QED
  BY <1>1, Invariance, PTL

\* Whoever reported the artifact ready finds it in place until a newer
\* configuration is fenced: no cancelled, failing, crashed or repeated install
\* of any process touches it.
THEOREM ReadyStays == ArtifactInstallAssumption /\ Spec => []ReadyStaysInstalled
<1>1. InductiveInv => ReadyStaysInstalled
  BY DEF InductiveInv
<1>2. QED
  BY <1>1, Invariance, PTL

(***************************************************************************)
(* The event buffer.                                                       *)
(***************************************************************************)

\* The capacities of the buffer and of a heartbeat.
LEMMA BufferLimits == Buffer!EventBufferAssumption
  BY AgentLocalAssumption DEF AgentLocalAssumption

\* How many of the recorded events have left the buffer: they are the oldest.
Left == recorded - Len(events)

\* The buffer holds the newest events, in order.
Numbered == Len(events) <= recorded /\ \A i \in 1 .. Len(events) : events[i] = Left + i

\* Those of the first n events that never reached the gateway.
Unreported(n) == {e \in 1 .. n : e \notin received}

\* A heartbeat carries the events after the b-th, which were the oldest in the
\* buffer when it was sent; those pushed out since come on top of what was lost
\* before, and the buffer has not become shorter.
Carries(b) ==
  /\ b <= Left
  /\ Len(hb.batch) <= Len(events)
  /\ \A i \in 1 .. Len(hb.batch) : hb.batch[i] = b + i
  /\ Cardinality(Unreported(b)) + (Left - b) <= trimmed
  /\ hb.step = "answered" => \A i \in 1 .. Len(hb.batch) : b + i \in received

\* The inductive invariant: dropping by count is safe up to what was pushed out.
BufferInv ==
  /\ Buffer!TypeOK
  /\ Numbered
  /\ Cardinality(Unreported(Left)) <= trimmed
  /\ hb.step # "idle" => \E b \in Nat : Carries(b)

(***************************************************************************)
(* Counting events.                                                        *)
(***************************************************************************)

\* The unreported events are finitely many.
LEMMA UnreportedFinite ==
  ASSUME NEW n \in Nat
  PROVE  IsFiniteSet(Unreported(n)) /\ Cardinality(Unreported(n)) \in Nat
<1>1. IsFiniteSet(1 .. n)
  BY FS_Interval
<1>2. Unreported(n) \subseteq 1 .. n
  BY DEF Unreported
<1>3. QED
  BY <1>1, <1>2, FS_Subset, FS_CardinalityType

\* A set that adds at most the t events after c to those unreported of the first
\* b counts at most t more.
LEMMA CountLater ==
  ASSUME NEW S, NEW b \in Nat, NEW c \in Nat, NEW t \in Nat,
         S \subseteq Unreported(b) \cup ((c + 1) .. (c + t))
  PROVE  /\ IsFiniteSet(S) /\ Cardinality(S) \in Nat
         /\ Cardinality(S) <= Cardinality(Unreported(b)) + t
<1> DEFINE A == Unreported(b)
           B == (c + 1) .. (c + t)
<1>1. IsFiniteSet(A) /\ Cardinality(A) \in Nat
  BY UnreportedFinite
<1>2. IsFiniteSet(B) /\ Cardinality(B) = t
  BY FS_Interval
<1> HIDE DEF A, B
<1>3. /\ IsFiniteSet(A \cup B)
      /\ Cardinality(A \cup B) = Cardinality(A) + Cardinality(B) - Cardinality(A \cap B)
  BY <1>1, <1>2, FS_Union
<1>4. IsFiniteSet(A \cap B) /\ Cardinality(A \cap B) \in Nat
  BY <1>1, FS_Subset, FS_CardinalityType
<1>5. S \subseteq A \cup B
  BY DEF A, B
<1>6. /\ IsFiniteSet(S) /\ Cardinality(S) \in Nat
      /\ Cardinality(S) <= Cardinality(A \cup B)
  BY <1>3, <1>5, FS_Subset, FS_CardinalityType
<1>7. Cardinality(A \cup B) <= Cardinality(A) + t
  BY <1>1, <1>2, <1>3, <1>4
<1>8. QED
  BY <1>1, <1>3, <1>6, <1>7, FS_CardinalityType DEF A

\* What a sequence has after its k-th element, up to its n-th.
LEMMA SubSeqIs ==
  ASSUME NEW S, NEW s \in Seq(S), NEW k \in Nat, NEW n \in Nat, k <= n, n <= Len(s)
  PROVE  /\ SubSeq(s, k + 1, n) \in Seq(S)
         /\ Len(SubSeq(s, k + 1, n)) = n - k
         /\ \A i \in 1 .. (n - k) : SubSeq(s, k + 1, n)[i] = s[k + i]
<1>1. \A i \in (k + 1) .. n : s[i] \in S
  OBVIOUS
<1>2. k + 1 \in Int /\ n \in Int /\ n - (k + 1) + 1 = n - k
  OBVIOUS
<1>3. /\ SubSeq(s, k + 1, n) \in Seq(S)
      /\ Len(SubSeq(s, k + 1, n)) = IF k + 1 <= n THEN n - (k + 1) + 1 ELSE 0
      /\ \A i \in 1 .. (n - (k + 1) + 1) : SubSeq(s, k + 1, n)[i] = s[(k + 1) + i - 1]
  BY <1>1, <1>2, SubSeqProperties
<1>4. Len(SubSeq(s, k + 1, n)) = n - k
  BY <1>3
<1>5. \A i \in 1 .. (n - k) : (k + 1) + i - 1 = k + i
  OBVIOUS
<1>6. QED
  BY <1>2, <1>3, <1>4, <1>5

\* The types of what the invariant counts.
LEMMA LeftTyped ==
  ASSUME Buffer!TypeOK, Numbered
  PROVE  Left \in Nat /\ Len(events) \in Nat /\ recorded \in Nat
  BY BufferLimits DEF Buffer!TypeOK, Numbered, Left, Buffer!EventBufferAssumption

(***************************************************************************)
(* The steps.                                                              *)
(***************************************************************************)

\* An agent that starts has lost nothing.
LEMMA BufferInit == Buffer!Init => BufferInv
<1> SUFFICES ASSUME Buffer!Init PROVE BufferInv
  OBVIOUS
<1>1. Len(events) = 0 /\ recorded = 0 /\ Left = 0
  <2>1. events = <<>> /\ recorded = 0
    BY DEF Buffer!Init
  <2>2. Len(events) = 0
    BY <2>1
  <2>3. Left = 0 - 0
    BY <2>1, <2>2 DEF Left
  <2>4. QED
    BY <2>1, <2>2, <2>3
<1>2. Unreported(0) = {}
  BY DEF Unreported
<1>3. Numbered
  BY <1>1 DEF Numbered
<1>4. Buffer!TypeOK
  BY BufferLimits DEF Buffer!Init, Buffer!TypeOK, Buffer!Idle, Buffer!EventBufferAssumption
<1>5. Cardinality(Unreported(Left)) <= trimmed
  BY <1>1, <1>2, FS_EmptySet DEF Buffer!Init
<1>6. QED
  BY <1>3, <1>4, <1>5 DEF BufferInv, Buffer!Init, Buffer!Idle

\* Recording keeps the newest events: the buffer grows by one, or the oldest
\* event is pushed out and counted.
LEMMA RecordStep ==
  ASSUME BufferInv, Buffer!Record
  PROVE  BufferInv'
<1> DEFINE n == Len(events)
           s == Append(events, recorded + 1)
<1>1. /\ n \in Nat /\ recorded \in Nat /\ Left \in Nat /\ trimmed \in Nat
      /\ n <= BufferLimit /\ n <= recorded /\ Left = recorded - n
      /\ BufferLimit \in Nat /\ MaxEvents \in Nat
      /\ events \in Seq(1 .. MaxEvents)
  BY LeftTyped, BufferLimits DEF BufferInv, Buffer!TypeOK, Numbered, Left, Buffer!EventBufferAssumption
<1>2. /\ recorded < MaxEvents /\ recorded' = recorded + 1
      /\ events' = Buffer!KeepNewest(s)
      /\ trimmed' = trimmed + (n + 1 - Len(events'))
      /\ UNCHANGED <<hb, received>>
  BY DEF Buffer!Record
<1>3. /\ s \in Seq(1 .. MaxEvents) /\ Len(s) = n + 1
      /\ \A i \in 1 .. (n + 1) : s[i] = Left + i
  <2>1. recorded + 1 \in 1 .. MaxEvents
    BY <1>1, <1>2
  <2>2. /\ s \in Seq(1 .. MaxEvents) /\ Len(s) = n + 1
        /\ \A i \in 1 .. n : s[i] = events[i]
        /\ s[n + 1] = recorded + 1
    BY <1>1, <2>1, AppendProperties
  <2>3. \A i \in 1 .. n : events[i] = Left + i
    BY DEF BufferInv, Numbered
  <2> HIDE DEF s
  <2>4. ASSUME NEW i \in 1 .. (n + 1) PROVE s[i] = Left + i
    <3>1. CASE i \in 1 .. n
      BY <2>2, <2>3, <3>1
    <3>2. CASE i = n + 1
      BY <1>1, <2>2, <3>2
    <3>3. QED
      BY <1>1, <3>1, <3>2
  <2>5. QED
    BY <2>2, <2>4
<1> HIDE DEF n, s
\* How many events are pushed out: none or one.
<1>4. \E k \in {0, 1} : /\ n + 1 - k <= BufferLimit /\ n + 1 - k >= n
                        /\ events' = SubSeq(s, k + 1, n + 1)
  <2>1. CASE n + 1 > BufferLimit
    <3>1. n = BufferLimit /\ (n + 1) - BufferLimit + 1 = 2
      BY <1>1, <2>1
    <3>2. events' = SubSeq(s, 2, n + 1)
      BY <1>2, <1>3, <2>1, <3>1 DEF Buffer!KeepNewest
    <3>3. QED
      BY <1>1, <3>1, <3>2
  <2>2. CASE ~(n + 1 > BufferLimit)
    <3>1. events' = SubSeq(s, 1, n + 1)
      BY <1>2, <1>3, <2>2 DEF Buffer!KeepNewest
    <3>2. QED
      BY <1>1, <2>2, <3>1
  <2>3. QED
    BY <2>1, <2>2
<1>5. PICK k \in {0, 1} : /\ n + 1 - k <= BufferLimit /\ n + 1 - k >= n
                          /\ events' = SubSeq(s, k + 1, n + 1)
  BY <1>4
<1>6. /\ events' \in Seq(1 .. MaxEvents) /\ Len(events') = n + 1 - k
      /\ \A i \in 1 .. (n + 1 - k) : events'[i] = s[k + i]
  <2>1. k \in Nat /\ n + 1 \in Nat /\ k <= n + 1 /\ n + 1 <= Len(s)
    BY <1>1, <1>3
  <2>2. QED
    BY <1>1, <1>3, <1>5, <2>1, SubSeqIs
<1>7. /\ Left' = Left + k /\ trimmed' = trimmed + k
      /\ Len(events') >= n
  <2>1. Len(events') = n + 1 - k /\ Len(events') >= n
    BY <1>5, <1>6
  <2>2. Left' = recorded' - Len(events')
    BY DEF Left
  <2>3. Left' = Left + k
    BY <1>1, <1>2, <2>1, <2>2
  <2>4. trimmed' = trimmed + k
    BY <1>1, <1>2, <2>1
  <2>5. QED
    BY <2>1, <2>3, <2>4
<1>8. Numbered'
  <2>1. ASSUME NEW i \in 1 .. Len(events') PROVE events'[i] = Left' + i
    <3>1. k + i \in 1 .. (n + 1) /\ i \in 1 .. (n + 1 - k)
      BY <1>1, <1>6
    <3>2. QED
      BY <1>1, <1>3, <1>6, <1>7, <3>1
  <2>2. Len(events') <= recorded'
    BY <1>1, <1>2, <1>6
  <2>3. QED
    BY <2>1, <2>2 DEF Numbered
<1>9. Buffer!TypeOK'
  <2>1. recorded' \in 0 .. MaxEvents /\ trimmed' \in Nat /\ Len(events') <= BufferLimit
    BY <1>1, <1>2, <1>5, <1>6, <1>7
  <2>2. QED
    BY <1>2, <1>6, <2>1 DEF BufferInv, Buffer!TypeOK
<1>10. Cardinality(Unreported(Left))' <= trimmed'
  <2>1. Unreported(Left)' \subseteq Unreported(Left) \cup ((Left + 1) .. (Left + k))
    BY <1>1, <1>2, <1>7 DEF Unreported
  <2>2. Cardinality(Unreported(Left)') <= Cardinality(Unreported(Left)) + k
    BY <1>1, <2>1, CountLater
  <2>3. Cardinality(Unreported(Left)') \in Nat /\ Cardinality(Unreported(Left)) \in Nat
    BY <1>1, <2>1, CountLater, UnreportedFinite
  <2>4. QED
    BY <1>1, <1>7, <2>2, <2>3 DEF BufferInv
<1>11. ASSUME hb'.step # "idle" PROVE \E b \in Nat : Carries(b)'
  <2>1. PICK b \in Nat : Carries(b)
    BY <1>2, <1>11 DEF BufferInv
  <2>2. Unreported(b)' = Unreported(b) /\ Cardinality(Unreported(b)) \in Nat
    BY <1>2, UnreportedFinite DEF Unreported
  <2>3. Len(hb.batch) \in Nat
    BY DEF BufferInv, Buffer!TypeOK
  <2>4. Cardinality(Unreported(b))' + (Left' - b) <= trimmed'
    BY <1>1, <1>7, <2>1, <2>2 DEF Carries
  <2>5. b <= Left' /\ Len(hb.batch) <= Len(events')
    <3>1. b <= Left /\ Len(hb.batch) <= n
      BY <2>1 DEF Carries, n
    <3>2. Left' = Left + k /\ Len(events') \in Nat
      BY <1>1, <1>6, <1>7
    <3>3. QED
      BY <1>1, <1>7, <2>3, <3>1, <3>2
  <2>6. Carries(b)'
    BY <1>2, <2>1, <2>4, <2>5 DEF Carries
  <2>7. QED
    BY <2>6
<1>12. QED
  BY <1>8, <1>9, <1>10, <1>11 DEF BufferInv

\* A heartbeat takes a copy of the oldest events.
LEMMA SendStep ==
  ASSUME BufferInv, Buffer!Send
  PROVE  BufferInv'
<1> DEFINE m == IF Len(events) < HeartbeatLimit THEN Len(events) ELSE HeartbeatLimit
<1>1. /\ Len(events) \in Nat /\ Left \in Nat /\ trimmed \in Nat
      /\ events \in Seq(1 .. MaxEvents) /\ HeartbeatLimit \in Nat
  BY LeftTyped, BufferLimits DEF BufferInv, Buffer!TypeOK, Buffer!EventBufferAssumption
<1>2. m \in 0 .. Len(events) /\ m <= HeartbeatLimit
  BY <1>1
<1>3. /\ hb' = [step |-> "sent", batch |-> SubSeq(events, 1, m)]
      /\ UNCHANGED <<events, recorded, received, trimmed>>
  BY DEF Buffer!Send
<1> HIDE DEF m
<1>4. /\ SubSeq(events, 1, m) \in Seq(1 .. MaxEvents)
      /\ Len(SubSeq(events, 1, m)) = m
      /\ \A i \in 1 .. m : SubSeq(events, 1, m)[i] = events[i]
  <2>1. 0 \in Nat /\ m \in Nat /\ 0 <= m /\ m <= Len(events) /\ 0 + 1 = 1 /\ m - 0 = m
    BY <1>1, <1>2
  <2>2. \A i \in 1 .. m : 0 + i = i
    OBVIOUS
  <2>3. QED
    BY <1>1, <2>1, <2>2, SubSeqIs, BufferLimits DEF Buffer!EventBufferAssumption
<1>5. hb'.step = "sent" /\ hb'.batch = SubSeq(events, 1, m)
  BY <1>3
<1>6. Buffer!TypeOK' /\ Numbered' /\ Left' = Left
  BY <1>2, <1>3, <1>4, <1>5 DEF BufferInv, Buffer!TypeOK, Numbered, Left
<1>7. Unreported(Left)' = Unreported(Left)
  BY <1>3, <1>6 DEF Unreported
<1>8. Carries(Left)'
  <2>1. \A i \in 1 .. m : hb'.batch[i] = Left + i
    <3>1. ASSUME NEW i \in 1 .. m PROVE i \in 1 .. Len(events)
      BY <1>1, <1>2
    <3>2. QED
      BY <1>4, <1>5, <3>1 DEF BufferInv, Numbered
  <2>2. Cardinality(Unreported(Left)) \in Nat
    BY <1>1, UnreportedFinite
  <2>3. Cardinality(Unreported(Left)) + (Left - Left) <= trimmed
    BY <1>1, <2>2 DEF BufferInv
  <2>4. m <= Len(events)
    BY <1>1, <1>2
  <2>5. Len(hb'.batch) = m /\ Len(hb'.batch) <= Len(events')
    BY <1>3, <1>4, <1>5, <2>4
  <2>6. \A i \in 1 .. Len(hb'.batch) : hb'.batch[i] = Left' + i
    BY <1>6, <2>1, <2>5
  <2>7. Cardinality(Unreported(Left)') + (Left' - Left') <= trimmed'
    BY <1>3, <1>6, <1>7, <2>3
  <2>8. Left' <= Left' /\ hb'.step # "answered"
    BY <1>1, <1>5, <1>6
  <2>9. QED
    BY <2>5, <2>6, <2>7, <2>8 DEF Carries
<1>9. \E b \in Nat : Carries(b)'
  <2>1. PICK b \in Nat : b = Left
    BY <1>1
  <2>2. Carries(b)'
    BY <1>6, <1>8, <2>1 DEF Carries, Unreported
  <2>3. QED
    BY <2>2
<1>10. QED
  BY <1>3, <1>6, <1>7, <1>9 DEF BufferInv

\* The gateway takes what the heartbeat carries.
LEMMA ReceiveStep ==
  ASSUME BufferInv, Buffer!Receive
  PROVE  BufferInv'
<1>1. /\ hb.step = "sent"
      /\ hb' = [hb EXCEPT !.step = "answered"]
      /\ received' = received \cup Buffer!ToSet(hb.batch)
      /\ UNCHANGED <<events, recorded, trimmed>>
  BY DEF Buffer!Receive
<1>2. /\ hb.batch \in Seq(1 .. MaxEvents)
      /\ DOMAIN hb.batch = 1 .. Len(hb.batch)
      /\ Buffer!ToSet(hb.batch) \subseteq 1 .. MaxEvents
  <2>1. hb.batch \in Seq(1 .. MaxEvents)
    BY DEF BufferInv, Buffer!TypeOK
  <2>2. DOMAIN hb.batch = 1 .. Len(hb.batch)
    BY <2>1
  <2>3. \A i \in 1 .. Len(hb.batch) : hb.batch[i] \in 1 .. MaxEvents
    BY <2>1, ElementOfSeq
  <2>4. QED
    BY <2>1, <2>2, <2>3 DEF Buffer!ToSet
<1>3. hb'.batch = hb.batch /\ hb'.step = "answered"
  BY <1>1 DEF BufferInv, Buffer!TypeOK
<1>4. Buffer!TypeOK' /\ Numbered' /\ Left' = Left
  BY <1>1, <1>2 DEF BufferInv, Buffer!TypeOK, Numbered, Left
<1>5. ASSUME NEW b \in Nat
      PROVE  /\ Unreported(b)' \subseteq Unreported(b)
             /\ Cardinality(Unreported(b)') <= Cardinality(Unreported(b))
             /\ Cardinality(Unreported(b)') \in Nat /\ Cardinality(Unreported(b)) \in Nat
  <2>1. Unreported(b)' \subseteq Unreported(b)
    BY <1>1 DEF Unreported
  <2>2. QED
    BY <2>1, UnreportedFinite, FS_Subset, FS_CardinalityType
<1>6. Left \in Nat /\ trimmed \in Nat
  BY LeftTyped DEF BufferInv, Buffer!TypeOK
<1>7. Cardinality(Unreported(Left))' <= trimmed'
  <2>1. PICK b \in Nat : b = Left
    BY <1>6
  <2>2. Unreported(Left)' = Unreported(b)'
    BY <1>4, <2>1 DEF Unreported
  <2>3. Cardinality(Unreported(b)) <= trimmed
    BY <2>1 DEF BufferInv
  <2>4. QED
    BY <1>1, <1>5, <1>6, <2>2, <2>3
<1>8. PICK b \in Nat : Carries(b)
  BY <1>1 DEF BufferInv
<1>9. Carries(b)'
  <2>1. Cardinality(Unreported(b))' + (Left' - b) <= trimmed'
    BY <1>1, <1>4, <1>5, <1>6, <1>8 DEF Carries
  <2>2. \A i \in 1 .. Len(hb.batch) : hb.batch[i] \in Buffer!ToSet(hb.batch)
    BY <1>2 DEF Buffer!ToSet
  <2>3. \A i \in 1 .. Len(hb.batch) : b + i \in received'
    BY <1>1, <1>8, <2>2 DEF Carries
  <2>4. QED
    BY <1>1, <1>3, <1>4, <1>8, <2>1, <2>3 DEF Carries
<1>10. QED
  BY <1>4, <1>7, <1>9 DEF BufferInv

\* The answer drops as many events as the heartbeat carried: those after them
\* that go as well are no more than were pushed out while it was under way.
LEMMA AnsweredStep ==
  ASSUME BufferInv, Buffer!Answered
  PROVE  BufferInv'
<1> DEFINE n == Len(hb.batch)
           l == Len(events)
<1>1. /\ hb.step = "answered" /\ hb' = Buffer!Idle
      /\ events' = SubSeq(events, n + 1, l)
      /\ UNCHANGED <<recorded, received, trimmed>>
  BY DEF Buffer!Answered, Buffer!Dropped
<1>2. PICK b \in Nat : Carries(b)
  BY <1>1 DEF BufferInv
<1>3. /\ n \in Nat /\ l \in Nat /\ n <= l /\ Left \in Nat /\ b <= Left
      /\ recorded \in Nat /\ Left = recorded - l /\ trimmed \in Nat
      /\ events \in Seq(1 .. MaxEvents) /\ l <= BufferLimit /\ l <= recorded
      /\ BufferLimit \in Nat
  BY <1>2, LeftTyped, BufferLimits DEF BufferInv, Buffer!TypeOK, Carries, Left, Numbered, Buffer!EventBufferAssumption
<1> HIDE DEF n, l
<1>4. /\ events' \in Seq(1 .. MaxEvents) /\ Len(events') = l - n
      /\ \A i \in 1 .. (l - n) : events'[i] = events[n + i]
  <2>1. l <= Len(events)
    BY <1>3 DEF l
  <2>2. QED
    BY <1>1, <1>3, <2>1, SubSeqIs, BufferLimits DEF Buffer!EventBufferAssumption
<1>5. Left' = Left + n
  BY <1>1, <1>3, <1>4 DEF Left
<1>6. Numbered'
  <2>1. ASSUME NEW i \in 1 .. (l - n) PROVE events'[i] = Left' + i
    <3>1. n + i \in 1 .. l
      BY <1>3
    <3>2. events[n + i] = Left + (n + i)
      BY <3>1 DEF BufferInv, Numbered, l
    <3>3. QED
      BY <1>3, <1>4, <1>5, <3>2
  <2>2. Len(events') <= recorded'
    BY <1>1, <1>3, <1>4
  <2>3. QED
    BY <1>4, <2>1, <2>2 DEF Numbered
<1>7. Buffer!TypeOK'
  <2>1. Len(events') <= BufferLimit
    BY <1>3, <1>4
  <2>2. hb' \in [step : {"idle", "sent", "answered"}, batch : Seq(1 .. MaxEvents)]
        /\ Len(hb'.batch) <= HeartbeatLimit
    BY <1>1, BufferLimits DEF Buffer!Idle, Buffer!EventBufferAssumption
  <2>3. QED
    BY <1>1, <1>4, <2>1, <2>2 DEF BufferInv, Buffer!TypeOK
<1>8. Cardinality(Unreported(Left))' <= trimmed'
  <2> DEFINE t == Left - b
  <2>1. t \in Nat /\ Left = b + t
    BY <1>3
  <2> HIDE DEF t
  <2>2. \A i \in 1 .. n : b + i \in received
    BY <1>1, <1>2 DEF Carries, n
  <2>3. PICK c \in Nat : c = b + n
    BY <1>3
  <2>4. Unreported(Left)' \subseteq Unreported(b) \cup ((c + 1) .. (c + t))
    <3>1. ASSUME NEW e \in 1 .. (Left + n), e \notin received
          PROVE  e \in 1 .. b \/ e \in (c + 1) .. (c + t)
      <4>1. ~(e \in (b + 1) .. (b + n))
        <5>1. ASSUME e \in (b + 1) .. (b + n) PROVE FALSE
          <6>1. e - b \in 1 .. n /\ b + (e - b) = e
            BY <1>3, <5>1
          <6>2. QED
            BY <2>2, <3>1, <6>1
        <5>2. QED
          BY <5>1
      <4>2. QED
        BY <1>3, <2>1, <2>3, <4>1
    <3>2. QED
      BY <1>1, <1>5, <3>1 DEF Unreported
  <2>5. Cardinality(Unreported(Left)') <= Cardinality(Unreported(b)) + t
    BY <1>3, <2>1, <2>4, CountLater
  <2>6. Cardinality(Unreported(b)) + t <= trimmed
    BY <1>2 DEF Carries, t
  <2>7. Cardinality(Unreported(Left)') \in Nat /\ Cardinality(Unreported(b)) \in Nat
    BY <1>3, <2>1, <2>4, CountLater, UnreportedFinite
  <2>8. QED
    BY <1>1, <1>3, <2>1, <2>5, <2>6, <2>7
<1>9. QED
  BY <1>1, <1>6, <1>7, <1>8 DEF BufferInv, Buffer!Idle

\* The inductive invariant holds of every state of the buffer and its heartbeat.
THEOREM BufferInvariance == Buffer!Spec => []BufferInv
<1>1. ASSUME BufferInv, Buffer!Unanswered PROVE BufferInv'
  <2>1. hb' = Buffer!Idle /\ UNCHANGED <<events, recorded, received, trimmed>>
    BY <1>1 DEF Buffer!Unanswered
  <2>2. Buffer!TypeOK'
    BY <1>1, <2>1, BufferLimits DEF BufferInv, Buffer!TypeOK, Buffer!Idle, Buffer!EventBufferAssumption
  <2>3. QED
    BY <1>1, <2>1, <2>2 DEF BufferInv, Numbered, Left, Unreported, Buffer!Idle
<1>2. ASSUME BufferInv, UNCHANGED Buffer!vars PROVE BufferInv'
  BY <1>2 DEF Buffer!vars, BufferInv, Buffer!TypeOK, Numbered, Left, Unreported, Carries
<1>3. BufferInv /\ [Buffer!Next]_(Buffer!vars) => BufferInv'
  BY <1>1, <1>2, RecordStep, SendStep, ReceiveStep, AnsweredStep DEF Buffer!Next
<1>4. QED
  BY BufferInit, <1>3, PTL DEF Buffer!Spec

\* Every variable of the buffer keeps its type, and neither the buffer nor a
\* heartbeat exceeds its limit.
THEOREM BufferTypeCorrect == Buffer!Spec => []Buffer!TypeOK
<1>1. BufferInv => Buffer!TypeOK
  BY DEF BufferInv
<1>2. QED
  BY BufferInvariance, <1>1, PTL

\* Never more events are lost than were pushed out of the full buffer, whatever
\* happens to heartbeats and their answers.
THEOREM LossBounded == Buffer!Spec => []LossIsBounded
<1>1. ASSUME BufferInv PROVE LossIsBounded
  <2>1. Left \in Nat /\ Len(events) \in Nat /\ recorded \in Nat /\ Left = recorded - Len(events)
    BY <1>1, LeftTyped DEF BufferInv, Left
  <2>2. ASSUME NEW e \in 1 .. recorded, e \notin Buffer!ToSet(events) PROVE e \in 1 .. Left
    <3>1. ASSUME ~(e <= Left) PROVE FALSE
      <4>1. e - Left \in 1 .. Len(events) /\ Left + (e - Left) = e
        BY <2>1, <3>1
      <4>2. events[e - Left] = e
        BY <1>1, <4>1 DEF BufferInv, Numbered
      <4>3. DOMAIN events = 1 .. Len(events)
        BY <1>1 DEF BufferInv, Buffer!TypeOK
      <4>4. QED
        BY <2>2, <4>1, <4>2, <4>3 DEF Buffer!ToSet
    <3>2. QED
      BY <2>1, <3>1
  <2>3. Buffer!Lost \subseteq Unreported(Left)
    BY <2>2 DEF Buffer!Lost, Unreported
  <2>4. IsFiniteSet(Unreported(Left))
    BY <2>1, UnreportedFinite
  <2>5. /\ Cardinality(Buffer!Lost) <= Cardinality(Unreported(Left))
        /\ Cardinality(Buffer!Lost) \in Nat /\ Cardinality(Unreported(Left)) \in Nat
    BY <2>3, <2>4, FS_Subset, FS_CardinalityType
  <2>6. trimmed \in Nat /\ Cardinality(Unreported(Left)) <= trimmed
    BY <1>1 DEF BufferInv, Buffer!TypeOK
  <2>7. QED
    BY <2>5, <2>6 DEF Buffer!LossIsBounded, LossIsBounded, Buffer!Cardinality, Cardinality
<1>2. BufferInv => LossIsBounded
  BY <1>1
<1>3. QED
  BY BufferInvariance, <1>2, PTL
=============================================================================
