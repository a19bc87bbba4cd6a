------------------------ MODULE MediaArtifactsProofs ------------------------
(***************************************************************************)
(* Rows and files agree, for any number of pages, revisions, jobs and      *)
(* tasks.  A task holding its lease owns the intent of its path            *)
(* (OwnsIntent), so nobody else changes that file: Published.  A row is    *)
(* written only then, and the content of neighbouring revisions differs    *)
(* (Compared), so a redundant file is never one that a row names.          *)
(***************************************************************************)
EXTENDS MediaArtifacts, TLAPS

Busy == {"publish", "settle", "redundant", "save"}

\* What a task knows of its job and its path.
Plans(s) ==
  /\ at[s] = NoJob => phase[s] = "idle"
  /\ at[s] # NoJob => state[at[s]] # "none"
  /\ \A p \in Page : seen[s][p] <= current[p]
  /\ \A p \in todo[s] : seen[s][p] < MaxRevision
  /\ at[s] \in Download /\ phase[s] \in Busy
       => \E p \in Page : seen[s][p] < MaxRevision
                            /\ path[s] = SourceOf(<<p, seen[s][p] + 1>>)
  /\ at[s] \notin Download /\ phase[s] \in Busy
       => phase[s] \in {"publish", "save"} /\ path[s] = PathOf(at[s])

Planning == \A s \in Slot : Plans(s)

\* A queued derivative job has a recorded revision to derive from.
Targeted ==
  /\ \A m \in Media : target[m] = m
  /\ \A j \in Job \ Download :
       state[j] # "none" => target[j] \in Media /\ revision[target[j]] # NoContent

\* What a task has in its hands.
Holds(s) ==
  /\ at[s] \in Download /\ phase[s] \in {"settle", "redundant", "save"} => got[s] \in Content
  /\ at[s] \in Job \ Download /\ phase[s] \in {"items", "publish", "save"}
       => got[s] = revision[target[at[s]]]

Holding == \A s \in Slot : Holds(s)

\* Thumbnails and originals are different files.
Apart == \A m, n \in Media : thumb[m] # SourceOf(n)

\* The file of a task that may still commit is the one it published.
Published ==
  ~strayed =>
    \A s \in Slot :
      HoldsLease(s) /\ phase[s] \in {"settle", "redundant", "save"}
        => disk[path[s]] = got[s]

\* The verdict on the new file, against the revision planned on.
Compares(s) ==
  /\ phase[s] = "redundant" => Planned(s) \in Media /\ revision[Planned(s)] = got[s]
  /\ ~strayed /\ phase[s] = "save" /\ at[s] \in Download /\ Planned(s) \in Media
       => revision[Planned(s)] # got[s]

Compared == \A s \in Slot : Compares(s)

IInv ==
  /\ TypeOK /\ Planning /\ Targeted /\ Holding /\ Apart
  /\ OwnsIntent /\ Published /\ Compared
  /\ RecordedIsIntact /\ NoUntrackedFile /\ NoRedundantRevision
-----------------------------------------------------------------------------
(* Paths *)

\* One path names one file of one revision or job.
LEMMA PathFacts ==
  /\ \A m \in Media : SourceOf(m) \in Path /\ BaseOf(m) \in Path
  /\ \A j \in Regeneration : FreshOf(j) \in Path
  /\ \A m, n \in Media : SourceOf(m) = SourceOf(n) => m = n
  /\ \A m, n \in Media : SourceOf(m) # BaseOf(n)
  /\ \A m \in Media, j \in Regeneration : SourceOf(m) # FreshOf(j)
  /\ \A m \in Media : SourceOf(m).of = m
  /\ \A q \in Path : q # NoPath
BY MediaAssumption DEF SourceOf, BaseOf, FreshOf, Path

\* A derivative job works on a derivative's path.
LEMMA PathOfJob ==
  ASSUME NEW j \in Job, j \notin Download
  PROVE  PathOf(j) \in Path /\ \A m \in Media : PathOf(j) # SourceOf(m)
BY PathFacts DEF PathOf, Job

\* A task works on the file of the revision after the one it planned on.
LEMMA SourceFacts ==
  ASSUME TypeOK, Planning, NEW s \in Slot, at[s] \in Download, phase[s] \in Busy
  PROVE  /\ PageOf(s) \in Page
         /\ path[s].of = <<PageOf(s), seen[s][PageOf(s)] + 1>>
         /\ path[s].of \in Media
         /\ path[s] = SourceOf(path[s].of) /\ path[s] \in Path
         /\ Planned(s) = <<PageOf(s), seen[s][PageOf(s)]>>
<1>1. PICK p \in Page : seen[s][p] < MaxRevision /\ path[s] = SourceOf(<<p, seen[s][p] + 1>>)
  BY DEF Planning, Plans
<1>2. seen[s][p] \in 0..MaxRevision
  BY DEF TypeOK, Shape
<1>3. <<p, seen[s][p] + 1>> \in Media
  BY <1>1, <1>2, MediaAssumption DEF Media
<1>4. path[s].of = <<p, seen[s][p] + 1>>
  BY <1>1, <1>3, PathFacts
<1>5. PageOf(s) = p
  BY <1>4 DEF PageOf
<1> QED
  BY <1>1, <1>3, <1>4, <1>5, PathFacts DEF Planned

-----------------------------------------------------------------------------
(* Types *)

LEMMA TypeInit == Init => TypeOK
<1> SUFFICES ASSUME Init
             PROVE  TypeOK
  OBVIOUS
<1>1. NoPlan \in [Page -> 0..MaxRevision]
  BY MediaAssumption DEF NoPlan
<1>2. Shape
  BY <1>1 DEF Init, Shape, Job, JobState, Phase
<1>3. \A m \in Media : m[2] \in Nat /\ m[2] > 0 /\ m[1] \in Page /\ m \in Job
  BY MediaAssumption DEF Media, Job
<1>4. Numbered
  BY <1>3 DEF Init, Numbered, NoPlan
<1> QED
  BY <1>2, <1>4 DEF TypeOK

\* Leaving, settling and proceeding keep the shape of what they change.
LEMMA LeavesShape ==
  ASSUME Shape, NEW s \in Slot, Leaves(s)
  PROVE  /\ phase' \in [Slot -> Phase]
         /\ at' \in [Slot -> Job \cup {NoJob}]
         /\ todo' \in [Slot -> SUBSET Page]
         /\ seen' \in [Slot -> [Page -> 0..MaxRevision]]
         /\ path' \in [Slot -> Path \cup {NoPath}]
         /\ got' \in [Slot -> Content \cup {NoContent}]
<1>1. NoPlan \in [Page -> 0..MaxRevision]
  BY MediaAssumption DEF NoPlan
<1> QED
  BY <1>1 DEF Shape, Leaves, Goes, Phase

LEMMA ProceedsShape ==
  ASSUME Shape, NEW s \in Slot, Proceeds(s)
  PROVE  /\ phase' \in [Slot -> Phase]
         /\ at' \in [Slot -> Job \cup {NoJob}]
         /\ todo' \in [Slot -> SUBSET Page]
         /\ seen' \in [Slot -> [Page -> 0..MaxRevision]]
         /\ path' \in [Slot -> Path \cup {NoPath}]
         /\ got' \in [Slot -> Content \cup {NoContent}]
BY DEF Shape, Proceeds, Goes, Phase

LEMMA SettlesShape ==
  ASSUME Shape, NEW j \in Job, NEW outcome \in JobState, Settles(j, outcome)
  PROVE  /\ state' \in [Job -> JobState]
         /\ holder' \in [Job -> Slot \cup {NoSlot}]
         /\ target' \in [Job -> Media \cup {NoPath}]
BY DEF Shape, Settles

LEMMA CountsShape ==
  ASSUME Shape, Troubled \/ Requested \/ UNCHANGED counts
  PROVE  trouble' \in Nat /\ requests' \in Nat
BY DEF Shape, Troubled, Requested, counts

LEMMA RegisterShape ==
  ASSUME Shape, NEW s \in Slot, NEW q \in Path, Register(s, q)
  PROVE  Shape'
<1> USE DEF Shape, jobVars, planVars, rowVars, diskVars, counts
<1>1. CASE MayTake(q, at[s])
  <2>1. at[s] \in Job
    BY DEF Register, HoldsLease
  <2>2. /\ intent' = [intent EXCEPT ![q] = at[s]]
        /\ held' = held \ {q}
        /\ path' = [path EXCEPT ![s] = q]
        /\ phase' = [phase EXCEPT ![s] = "publish"]
        /\ UNCHANGED <<jobVars, planVars, got, rowVars, diskVars, listed, counts>>
    BY <1>1 DEF Register, Goes
  <2> QED
    BY <2>1, <2>2 DEF Phase
<1>2. CASE ~MayTake(q, at[s])
  BY <1>2 DEF Register, Fails, Goes, Phase, intentVars
<1> QED
  BY <1>1, <1>2

\* The revision a task plans to write exists within the bound.
LEMMA NextRevision ==
  ASSUME Shape, NEW s \in Slot, NEW p \in Page, seen[s][p] < MaxRevision
  PROVE  <<p, seen[s][p] + 1>> \in Media /\ SourceOf(<<p, seen[s][p] + 1>>) \in Path
<1>1. seen[s][p] \in 0..MaxRevision
  BY DEF Shape
<1>2. <<p, seen[s][p] + 1>> \in Media
  BY <1>1, MediaAssumption DEF Media
<1> QED
  BY <1>2, PathFacts

LEMMA ShapeStep ==
  ASSUME TypeOK, Planning, Targeted, Holding, [Next]_vars
  PROVE  Shape'
<1> USE DEF TypeOK, Shape, jobVars, planVars, taskVars, rowVars, intentVars, diskVars, counts
<1>1. CASE UNCHANGED vars
  BY <1>1 DEF vars
<1>2. CASE QueueStep
  <2>1. CASE \E j \in Download : EnqueueDownload(j)
    BY <2>1 DEF EnqueueDownload, JobState, Job
  <2>2. CASE \E j \in Regeneration, p \in Page : EnqueueRegeneration(j, p)
    BY <2>2 DEF EnqueueRegeneration, JobState, Job, Media
  <2>3. CASE \E j \in Job : LeaseRunsOut(j) \/ Cancel(j) \/ Retry(j)
    <3>1. PICK j \in Job : LeaseRunsOut(j) \/ Cancel(j) \/ Retry(j)
      BY <2>3
    <3>2. trouble' \in Nat /\ requests' \in Nat
      BY <3>1, CountsShape DEF LeaseRunsOut, Cancel, Retry
    <3>3. PICK outcome \in JobState : Settles(j, outcome)
      BY <3>1 DEF LeaseRunsOut, Cancel, Retry, JobState
    <3>4. /\ state' \in [Job -> JobState]
          /\ holder' \in [Job -> Slot \cup {NoSlot}]
          /\ target' \in [Job -> Media \cup {NoPath}]
      BY <3>3, SettlesShape
    <3> QED
      BY <3>1, <3>2, <3>4 DEF LeaseRunsOut, Cancel, Retry
  <2>4. CASE \E q \in Path : HoldPasses(q)
    BY <2>4 DEF HoldPasses
  <2> QED
    BY <1>2, <2>1, <2>2, <2>3, <2>4 DEF QueueStep
<1>3. ASSUME NEW s \in Slot, SlotStep(s)
      PROVE  Shape'
  <2> USE DEF Goes, Fails, Phase
  <2>1. CASE \E j \in Job : Claim(s, j)
    BY <2>1 DEF Claim, JobState
  <2>2. CASE Dropped(s)
    BY <2>2, LeavesShape, CountsShape DEF Dropped
  <2>3. CASE StepFails(s)
    BY <2>3, MediaAssumption DEF StepFails, Troubled
  <2>4. CASE Report(s) \/ Finish(s)
    <3>1. at[s] \in Job
      BY <2>4 DEF Report, Finish, HoldsLease
    <3>2. PICK outcome \in JobState : Settles(at[s], outcome)
      BY <2>4 DEF Report, Finish, JobState
    <3>3. Leaves(s)
      BY <2>4 DEF Report, Finish
    <3> QED
      BY <2>4, <3>1, <3>2, <3>3, SettlesShape, LeavesShape DEF Report, Finish
  <2>5. CASE LoadPlan(s)
    BY <2>5 DEF LoadPlan
  <2>6. CASE Settle(s)
    BY <2>6 DEF Settle
  <2>7. CASE RemoveRedundant(s)
    <3>1. at[s] \in Download /\ phase[s] \in Busy
      BY <2>7 DEF RemoveRedundant, Planning, Plans, Busy
    <3>2. path[s] \in Path
      BY <3>1, SourceFacts
    <3> QED
      BY <2>7, <3>2 DEF RemoveRedundant, Writes, Proceeds
  <2>8. CASE \E p \in Page : StartItem(s, p)
    <3>1. PICK p \in Page : StartItem(s, p)
      BY <2>8
    <3>2. SourceOf(<<p, seen[s][p] + 1>>) \in Path
      BY <3>1, NextRevision DEF StartItem, Planning, Plans
    <3>3. Register(s, SourceOf(<<p, seen[s][p] + 1>>))
      BY <3>1 DEF StartItem
    <3> QED
      BY <3>2, <3>3, RegisterShape
  <2>9. CASE \E c \in Content : PublishSource(s, c)
    <3>1. path[s] \in Path
      BY <2>9, SourceFacts DEF PublishSource, Busy
    <3>2. PICK c \in Content : PublishSource(s, c)
      BY <2>9
    <3>3. CASE disk[path[s]] \notin {NoContent, c}
      BY <3>2, <3>3 DEF PublishSource
    <3>4. CASE disk[path[s]] \in {NoContent, c}
      <4>1. /\ Writes(s, c)
            /\ got' = [got EXCEPT ![s] = c] /\ phase' = [phase EXCEPT ![s] = "settle"]
            /\ UNCHANGED <<jobVars, planVars, path, rowVars, intentVars, listed, counts>>
        BY <3>2, <3>4 DEF PublishSource
      <4> QED
        BY <4>1, <3>1 DEF Writes
    <3> QED
      BY <3>2, <3>3, <3>4 DEF PublishSource
  <2>10. CASE SaveSource(s)
    <3>1. /\ path[s] \in Path /\ path[s].of \in Media /\ PageOf(s) \in Page
          /\ path[s].of[2] \in 0..MaxRevision
      BY <2>10, SourceFacts, MediaAssumption DEF SaveSource, Busy, Media
    <3>2. at[s] \in Job
      BY <2>10 DEF SaveSource, Job
    <3>3. /\ revision' \in [Media -> Content \cup {NoContent}]
          /\ current' \in [Page -> 0..MaxRevision]
          /\ savedBy' \in [Page -> Download \cup {NoJob}]
          /\ intent' \in [Path -> Job \cup {NoJob}]
          /\ state' \in [Job -> JobState]
          /\ holder' \in [Job -> Slot \cup {NoSlot}]
      BY <2>10, <3>1, <3>2 DEF SaveSource, DerivativeQueued, JobState
    <3>4. /\ phase' \in [Slot -> Phase]
          /\ at' \in [Slot -> Job \cup {NoJob}]
          /\ todo' \in [Slot -> SUBSET Page]
          /\ seen' \in [Slot -> [Page -> 0..MaxRevision]]
          /\ path' \in [Slot -> Path \cup {NoPath}]
          /\ got' \in [Slot -> Content \cup {NoContent}]
      BY <2>10, LeavesShape, ProceedsShape DEF SaveSource
    <3> QED
      BY <2>10, <3>3, <3>4 DEF SaveSource
  <2>11. CASE SaveRejected(s)
    BY <2>11 DEF SaveRejected
  <2>12. CASE LoadDerivative(s)
    <3>1. at[s] \in Job \ Download
      BY <2>12 DEF LoadDerivative, Planning, Plans
    <3>2. target[at[s]] \in Media
      BY <3>1, MediaAssumption DEF Planning, Plans, Targeted
    <3> QED
      BY <2>12, <3>2 DEF LoadDerivative
  <2>13. CASE StartDerivative(s)
    <3>1. at[s] \in Job \ Download
      BY <2>13 DEF StartDerivative, Planning, Plans
    <3>2. PathOf(at[s]) \in Path
      BY <3>1, PathOfJob
    <3> QED
      BY <2>13, <3>2, RegisterShape DEF StartDerivative
  <2>14. CASE PublishDerivative(s)
    <3>1. path[s] \in Path
      BY <2>14, PathOfJob DEF PublishDerivative, Planning, Plans, Busy
    <3> QED
      BY <2>14, <3>1 DEF PublishDerivative, Writes
  <2>15. CASE SaveDerivative(s)
    <3>1. at[s] \in Job /\ target[at[s]] \in Media /\ path[s] \in Path
      BY <2>15, PathOfJob DEF SaveDerivative, HoldsLease, Planning, Plans, Targeted, Busy
    <3>2. IntentsAfterSave(s, thumb[target[at[s]]]) \in [Path -> Job \cup {NoJob}]
      BY <3>1 DEF IntentsAfterSave
    <3> QED
      BY <2>15, <3>1, <3>2, SettlesShape, LeavesShape DEF SaveDerivative, JobState
  <2> QED
    BY <1>3, <2>1, <2>2, <2>3, <2>4, <2>5, <2>6, <2>7, <2>8, <2>9, <2>10, <2>11,
       <2>12, <2>13, <2>14, <2>15
    DEF SlotStep
<1>4. CASE CleanerStep
  <2>1. CASE ListIntents
    BY <2>1 DEF ListIntents
  <2>2. ASSUME NEW q \in Path, CleanIntent(q)
        PROVE  Shape'
    BY <2>2 DEF CleanIntent
  <2>3. ASSUME NEW q \in Path, CleanBreaksOff(q)
        PROVE  Shape'
    BY <2>3, CountsShape DEF CleanBreaksOff
  <2> QED
    BY <1>4, <2>1, <2>2, <2>3 DEF CleanerStep
<1> QED
  BY <1>1, <1>2, <1>3, <1>4 DEF Next

-----------------------------------------------------------------------------
(* Jobs and revisions *)

\* Each job is of one kind.
LEMMA Kinds ==
  /\ \A m \in Media : m \in Job /\ m \notin Download /\ m \notin Regeneration
  /\ \A j \in Download : j \in Job
  /\ \A j \in Regeneration : j \in Job /\ j \notin Download
  /\ NoJob \notin Job /\ NoContent \notin Content
BY MediaAssumption DEF Job

\* Only save_source_revision writes revisions, jobs never return to "none",
\* and the revision of a queued derivative job is fixed.
Settled ==
  /\ UNCHANGED <<revision, current>>
  /\ \A m \in Media : state'[m] # "none" <=> state[m] # "none"
  /\ \A j \in Job : state[j] # "none" => state'[j] # "none" /\ target'[j] = target[j]
  /\ \A j \in Regeneration : state[j] = "none" /\ state'[j] # "none"
       => \E p \in Page : EnqueueRegeneration(j, p)
  /\ \A m \in Media : target'[m] = target[m]

LEMMA RowsStay ==
  ASSUME Shape, [Next]_vars, \A s \in Slot : ~SaveSource(s)
  PROVE  Settled
<1> USE Kinds DEF Shape, jobVars, planVars, taskVars, rowVars
<1>1. CASE UNCHANGED vars
  BY <1>1 DEF vars, Settled
<1>2. ASSUME NEW j \in Job, NEW outcome \in JobState, state[j] # "none", outcome # "none",
             Settles(j, outcome), UNCHANGED rowVars
      PROVE  Settled
  BY <1>2 DEF Settles, Settled
<1>3. ASSUME UNCHANGED <<jobVars, rowVars>>
      PROVE  Settled
  BY <1>3 DEF Settled
<1>4. CASE QueueStep
  <2>1. ASSUME NEW j \in Download, EnqueueDownload(j)
        PROVE  Settled
    BY <2>1 DEF EnqueueDownload, Settled
  <2>2. ASSUME NEW j \in Regeneration, NEW p \in Page, EnqueueRegeneration(j, p)
        PROVE  Settled
    BY <2>2 DEF EnqueueRegeneration, Settled
  <2>3. ASSUME NEW j \in Job, LeaseRunsOut(j) \/ Cancel(j) \/ Retry(j)
        PROVE  Settled
    BY <2>3, <1>2 DEF LeaseRunsOut, Cancel, Retry, JobState
  <2>4. ASSUME NEW q \in Path, HoldPasses(q)
        PROVE  Settled
    BY <2>4, <1>3 DEF HoldPasses
  <2> QED
    BY <1>4, <2>1, <2>2, <2>3, <2>4 DEF QueueStep
<1>5. ASSUME NEW s \in Slot, SlotStep(s)
      PROVE  Settled
  <2>1. ASSUME NEW j \in Job, Claim(s, j)
        PROVE  Settled
    BY <2>1 DEF Claim, Settled
  <2>2. CASE Report(s) \/ Finish(s) \/ SaveDerivative(s)
    <3>1. at[s] \in Job /\ state[at[s]] # "none"
      BY <2>2 DEF Report, Finish, SaveDerivative, HoldsLease
    <3>2. UNCHANGED rowVars \/ UNCHANGED <<revision, current>>
      BY <2>2 DEF Report, Finish, SaveDerivative
    <3>3. PICK outcome \in JobState : outcome # "none" /\ Settles(at[s], outcome)
      BY <2>2 DEF Report, Finish, SaveDerivative, JobState
    <3> QED
      BY <3>1, <3>2, <3>3 DEF Settles, Settled
  <2>4. CASE Dropped(s) \/ StepFails(s) \/ LoadPlan(s) \/ Settle(s) \/ RemoveRedundant(s)
               \/ SaveRejected(s) \/ LoadDerivative(s) \/ PublishDerivative(s)
    BY <2>4, <1>3
    DEF Dropped, StepFails, LoadPlan, Settle, RemoveRedundant, SaveRejected,
        LoadDerivative, PublishDerivative, Fails
  <2>5. ASSUME NEW p \in Page, StartItem(s, p)
        PROVE  Settled
    BY <2>5, <1>3 DEF StartItem, Register, Fails
  <2>6. ASSUME NEW c \in Content, PublishSource(s, c)
        PROVE  Settled
    BY <2>6, <1>3 DEF PublishSource, Fails
  <2>7. CASE StartDerivative(s)
    BY <2>7, <1>3 DEF StartDerivative, Register, Fails
  <2> QED
    BY <1>5, <2>1, <2>2, <2>4, <2>5, <2>6, <2>7 DEF SlotStep
<1>6. CASE CleanerStep
  BY <1>6, <1>3 DEF CleanerStep, ListIntents, CleanIntent, CleanBreaksOff
<1> QED
  BY <1>1, <1>4, <1>5, <1>6 DEF Next

\* What save_source_revision writes: the page's next revision, and its job.
LEMMA SaveFacts ==
  ASSUME TypeOK, Planning, NEW s \in Slot, SaveSource(s)
  PROVE  LET p == PageOf(s)
             m == path[s].of
         IN /\ p \in Page /\ m \in Media /\ m = <<p, current[p] + 1>>
            /\ current[p] \in 0..MaxRevision /\ current[p] = seen[s][p]
            /\ path[s] = SourceOf(m) /\ path[s] \in Path
            /\ at[s] \in Job /\ at[s] # m /\ m \in Job
            /\ revision[m] = NoContent /\ state[m] = "none"
            /\ revision' = [revision EXCEPT ![m] = got[s]]
            /\ current' = [current EXCEPT ![p] = current[p] + 1]
            /\ state'[m] = "waiting" /\ state'[at[s]] # "none"
            /\ \A j \in Job : j # m /\ j # at[s] => state'[j] = state[j]
<1> DEFINE p == PageOf(s)
           m == path[s].of
<1>1. /\ p \in Page /\ m \in Media /\ m = <<p, seen[s][p] + 1>>
      /\ path[s] = SourceOf(m) /\ path[s] \in Path
  BY SourceFacts DEF SaveSource, Busy
<1>2. current[p] = seen[s][p] /\ current[p] \in 0..MaxRevision
  BY <1>1 DEF SaveSource, TypeOK, Shape
<1>3. at[s] \in Job /\ at[s] # m /\ m \in Job /\ state[at[s]] = "running"
  BY <1>1, Kinds DEF SaveSource, HoldsLease
<1>4. m[2] = current[p] + 1 /\ m[1] = p
  BY <1>1, <1>2
<1>5. ~(m[2] <= current[m[1]])
  BY <1>2, <1>4, MediaAssumption
<1>6. revision[m] = NoContent /\ state[m] = "none"
  BY <1>1, <1>5 DEF TypeOK, Numbered
<1>7. revision' = [revision EXCEPT ![m] = got[s]]
  BY DEF SaveSource
<1>8. current' = [current EXCEPT ![p] = current[p] + 1]
  BY <1>4 DEF SaveSource
<1>9. \/ state' = DerivativeQueued(m)
      \/ state' = [DerivativeQueued(m) EXCEPT ![at[s]] = "completed"]
  BY DEF SaveSource
<1>10. DerivativeQueued(m) = [state EXCEPT ![m] = "waiting"]
  BY <1>3, <1>6 DEF DerivativeQueued, TypeOK, Shape
<1>11. /\ state'[m] = "waiting" /\ state'[at[s]] # "none"
       /\ \A j \in Job : j # m /\ j # at[s] => state'[j] = state[j]
  BY <1>3, <1>9, <1>10 DEF TypeOK, Shape
<1> QED
  BY <1>1, <1>2, <1>3, <1>4, <1>6, <1>7, <1>8, <1>11

LEMMA NumberedStep ==
  ASSUME TypeOK, Planning, Holding, [Next]_vars
  PROVE  Numbered'
<1>1. CASE \A s \in Slot : ~SaveSource(s)
  BY <1>1, RowsStay DEF TypeOK, Numbered, Settled
<1>2. ASSUME NEW s \in Slot, SaveSource(s)
      PROVE  Numbered'
  <2> DEFINE p == PageOf(s)
             m == path[s].of
  <2>1. /\ p \in Page /\ m \in Media /\ m = <<p, current[p] + 1>>
        /\ current[p] \in 0..MaxRevision /\ at[s] \in Download
        /\ revision' = [revision EXCEPT ![m] = got[s]]
        /\ current' = [current EXCEPT ![p] = current[p] + 1]
        /\ state'[m] = "waiting"
        /\ \A j \in Job : j # m /\ j # at[s] => state'[j] = state[j]
    BY <1>2, SaveFacts DEF SaveSource
  <2>2. got[s] # NoContent
    BY <1>2, Kinds DEF SaveSource, Holding, Holds
  <2> SUFFICES ASSUME NEW n \in Media
               PROVE  /\ revision'[n] # NoContent <=> n[2] <= current'[n[1]]
                      /\ revision'[n] # NoContent <=> state'[n] # "none"
    BY DEF Numbered
  <2>3. n[1] \in Page /\ n[2] \in Nat /\ n = <<n[1], n[2]>>
    BY MediaAssumption DEF Media
  <2>4. CASE n = m
    BY <2>1, <2>2, <2>3, <2>4, MediaAssumption DEF TypeOK, Shape
  <2>5. CASE n # m
    <3>1. revision'[n] = revision[n] /\ state'[n] = state[n]
      BY <2>1, <2>5, Kinds DEF TypeOK, Shape
    <3>2. n[2] <= current'[n[1]] <=> n[2] <= current[n[1]]
      <4>1. CASE n[1] = p
        <5>1. n[2] # current[p] + 1
          BY <2>1, <2>3, <2>5, <4>1
        <5>2. current'[p] = current[p] + 1
          BY <2>1 DEF TypeOK, Shape
        <5> HIDE DEF p
        <5> QED
          BY <2>1, <2>3, <4>1, <5>1, <5>2, MediaAssumption
      <4>2. CASE n[1] # p
        BY <2>1, <2>3, <4>2 DEF TypeOK, Shape
      <4> QED
        BY <4>1, <4>2
    <3> QED
      BY <3>1, <3>2 DEF TypeOK, Numbered
  <2> QED
    BY <2>4, <2>5
<1> QED
  BY <1>1, <1>2

LEMMA TargetedStep ==
  ASSUME TypeOK, Planning, Targeted, Holding, [Next]_vars
  PROVE  Targeted'
<1> USE Kinds DEF TypeOK, Shape
<1>1. ASSUME Settled, \A j \in Job \ Download : state[j] = "none" => state'[j] = "none"
      PROVE  Targeted'
  BY <1>1 DEF Targeted, Settled
<1>2. ASSUME NEW s \in Slot, SaveSource(s)
      PROVE  Targeted'
  <2> DEFINE m == path[s].of
  <2>1. /\ m \in Media /\ at[s] \in Download
        /\ revision' = [revision EXCEPT ![m] = got[s]] /\ revision[m] = NoContent
        /\ \A j \in Job : j # m /\ j # at[s] => state'[j] = state[j]
        /\ target' = target
    BY <1>2, SaveFacts DEF SaveSource
  <2>2. got[s] # NoContent
    BY <1>2 DEF SaveSource, Holding, Holds
  <2> QED
    BY <2>1, <2>2 DEF Targeted
<1>3. ASSUME NEW j \in Regeneration, NEW p \in Page, EnqueueRegeneration(j, p)
      PROVE  Targeted'
  <2>1. <<p, current[p]>> \in Media /\ revision[<<p, current[p]>>] # NoContent
    <3>1. current[p] \in 0..MaxRevision /\ current[p] # 0
      BY <1>3 DEF EnqueueRegeneration
    <3>2. <<p, current[p]>> \in Media
      BY <3>1, MediaAssumption DEF Media
    <3> QED
      BY <3>1, <3>2, MediaAssumption DEF Numbered
  <2> QED
    BY <1>3, <2>1 DEF EnqueueRegeneration, Targeted, rowVars
<1>4. ASSUME \A s \in Slot : ~SaveSource(s),
             \A j \in Regeneration, p \in Page : ~EnqueueRegeneration(j, p)
      PROVE  Targeted'
  <2>1. Settled
    BY <1>4, RowsStay
  <2>2. \A j \in Job \ Download : state[j] = "none" => state'[j] = "none"
    BY <1>4, <2>1 DEF Settled, Job
  <2> QED
    BY <2>1, <2>2, <1>1
<1> QED
  BY <1>2, <1>3, <1>4

\* Rows and jobs only move forward.
LEMMA Growing ==
  ASSUME TypeOK, Planning, [Next]_vars
  PROVE  /\ \A p \in Page : current[p] <= current'[p]
         /\ \A j \in Job : state[j] # "none" => state'[j] # "none" /\ target'[j] = target[j]
         /\ \A m \in Media : revision[m] # NoContent => revision'[m] = revision[m]
<1> USE DEF TypeOK, Shape
<1>1. CASE \A s \in Slot : ~SaveSource(s)
  BY <1>1, RowsStay, MediaAssumption DEF Settled
<1>2. ASSUME NEW s \in Slot, SaveSource(s)
      PROVE  /\ \A p \in Page : current[p] <= current'[p]
             /\ \A j \in Job : state[j] # "none" => state'[j] # "none" /\ target'[j] = target[j]
             /\ \A m \in Media : revision[m] # NoContent => revision'[m] = revision[m]
  <2> DEFINE p == PageOf(s)
             m == path[s].of
  <2>1. /\ p \in Page /\ m \in Media /\ m \in Job /\ at[s] \in Job
        /\ revision' = [revision EXCEPT ![m] = got[s]] /\ revision[m] = NoContent
        /\ current' = [current EXCEPT ![p] = current[p] + 1]
        /\ state'[m] = "waiting" /\ state'[at[s]] # "none"
        /\ \A j \in Job : j # m /\ j # at[s] => state'[j] = state[j]
        /\ target' = target
    BY <1>2, SaveFacts DEF SaveSource
  <2> HIDE DEF p, m
  <2>2. \A q \in Page : current[q] <= current'[q]
    BY <2>1, MediaAssumption
  <2>3. \A j \in Job : state[j] # "none" => state'[j] # "none" /\ target'[j] = target[j]
    BY <2>1
  <2>4. \A n \in Media : revision[n] # NoContent => revision'[n] = revision[n]
    BY <2>1
  <2> QED
    BY <2>2, <2>3, <2>4
<1> QED
  BY <1>1, <1>2

-----------------------------------------------------------------------------
(* Tasks *)

\* Other tasks stay where they are.
Stays(t) ==
  /\ phase'[t] = phase[t] /\ at'[t] = at[t] /\ todo'[t] = todo[t]
  /\ seen'[t] = seen[t] /\ path'[t] = path[t] /\ got'[t] = got[t]

LEMMA OthersStay ==
  ASSUME Shape, NEW s \in Slot, SlotStep(s), NEW t \in Slot \ {s}
  PROVE  Stays(t)
<1> USE DEF Shape, Stays, Goes, taskVars, planVars
<1>1. ASSUME Leaves(s) \/ Proceeds(s)
      PROVE  Stays(t)
  BY <1>1 DEF Leaves, Proceeds
<1>2. ASSUME NEW q, Register(s, q)
      PROVE  Stays(t)
  BY <1>2 DEF Register, Fails
<1>3. ASSUME NEW j \in Job, Claim(s, j)
      PROVE  Stays(t)
  BY <1>3 DEF Claim
<1>4. CASE Dropped(s) \/ Report(s) \/ Finish(s) \/ RemoveRedundant(s) \/ SaveSource(s)
             \/ SaveDerivative(s)
  BY <1>1, <1>4 DEF Dropped, Report, Finish, RemoveRedundant, SaveSource, SaveDerivative
<1>5. CASE StepFails(s) \/ LoadPlan(s) \/ Settle(s) \/ SaveRejected(s)
             \/ LoadDerivative(s) \/ PublishDerivative(s)
  BY <1>5 DEF StepFails, LoadPlan, Settle, SaveRejected, LoadDerivative,
              PublishDerivative, Fails
<1>6. ASSUME NEW p \in Page, StartItem(s, p)
      PROVE  Stays(t)
  BY <1>6, <1>2 DEF StartItem
<1>7. ASSUME NEW c \in Content, PublishSource(s, c)
      PROVE  Stays(t)
  BY <1>7 DEF PublishSource, Fails
<1>8. CASE StartDerivative(s)
  BY <1>8, <1>2 DEF StartDerivative
<1> QED
  BY <1>3, <1>4, <1>5, <1>6, <1>7, <1>8 DEF SlotStep

\* A step of the queue or the cleaner moves no task.
LEMMA TasksStay ==
  ASSUME QueueStep \/ CleanerStep \/ UNCHANGED vars
  PROVE  UNCHANGED taskVars
BY DEF QueueStep, CleanerStep, vars, EnqueueDownload, EnqueueRegeneration, LeaseRunsOut,
       Cancel, Retry, HoldPasses, ListIntents, CleanIntent, CleanBreaksOff

\* A task that goes on with the same job and path keeps its plan.
LEMMA PlansKept ==
  ASSUME TypeOK, TypeOK', Planning, [Next]_vars, NEW t \in Slot,
         at'[t] = at[t], todo'[t] \subseteq todo[t], seen'[t] = seen[t],
         at[t] = NoJob => phase'[t] = "idle",
         phase'[t] \in Busy => /\ phase[t] \in Busy /\ path'[t] = path[t]
                               /\ (phase'[t] \in {phase[t], "save"} \/ at[t] \in Download)
  PROVE  Plans(t)'
<1>1. /\ \A p \in Page : current[p] <= current'[p]
      /\ \A j \in Job : state[j] # "none" => state'[j] # "none"
  BY Growing
<1>2. Plans(t)
  BY DEF Planning
<1>3. at'[t] # NoJob => state'[at'[t]] # "none"
  BY <1>1, <1>2 DEF Plans, TypeOK, Shape
<1>4. ASSUME NEW p \in Page
      PROVE  seen'[t][p] <= current'[p]
  <2>1. seen[t][p] \in Nat /\ current[p] \in Nat /\ current'[p] \in Nat
    BY MediaAssumption DEF TypeOK, Shape
  <2>2. seen[t][p] <= current[p] /\ current[p] <= current'[p]
    BY <1>1, <1>2 DEF Plans
  <2> QED
    BY <2>1, <2>2
<1>5. \A p \in todo'[t] : seen'[t][p] < MaxRevision
  BY <1>2 DEF Plans
<1>6. at'[t] \in Download /\ phase'[t] \in Busy
        => \E p \in Page : seen'[t][p] < MaxRevision
                             /\ path'[t] = SourceOf(<<p, seen'[t][p] + 1>>)
  BY <1>2 DEF Plans
<1>7. at'[t] \notin Download /\ phase'[t] \in Busy
        => phase'[t] \in {"publish", "save"} /\ path'[t] = PathOf(at'[t])
  BY <1>2 DEF Plans
<1> QED
  BY <1>3, <1>4, <1>5, <1>6, <1>7 DEF Plans, SourceOf, PathOf, BaseOf, FreshOf

LEMMA PlanningStep ==
  ASSUME TypeOK, TypeOK', Planning, [Next]_vars
  PROVE  Planning'
<1> USE DEF Stays, taskVars, planVars, Goes, Fails
<1>1. ASSUME NEW t \in Slot, Stays(t)
      PROVE  Plans(t)'
  BY <1>1, PlansKept DEF Planning, Plans
<1>2. CASE QueueStep \/ CleanerStep \/ UNCHANGED vars
  BY <1>1, <1>2, TasksStay DEF Planning
<1>3. ASSUME NEW s \in Slot, SlotStep(s)
      PROVE  Planning'
  <2> SUFFICES Plans(s)'
    BY <1>1, <1>3, OthersStay DEF Planning, TypeOK
  <2> USE DEF Busy, TypeOK, Shape
  <2>1. ASSUME Leaves(s)
        PROVE  Plans(s)'
    <3>1. /\ phase'[s] = "idle" /\ at'[s] = NoJob /\ todo'[s] = {}
          /\ \A p \in Page : seen'[s][p] = 0 /\ current'[p] \in 0..MaxRevision
      BY <2>1 DEF Leaves, NoPlan
    <3> QED
      BY <3>1, MediaAssumption DEF Plans
  <2>2. ASSUME NEW j \in Job, Claim(s, j)
        PROVE  Plans(s)'
    <3>1. \A p \in Page : seen'[s][p] <= current'[p]
      BY <2>2 DEF Claim, rowVars, Planning, Plans
    <3>2. /\ at'[s] = j /\ state'[j] = "running" /\ phase'[s] = "load"
          /\ todo' = todo /\ seen' = seen
      BY <2>2 DEF Claim
    <3>3. \A p \in todo[s] : seen[s][p] < MaxRevision
      BY DEF Planning, Plans
    <3> HIDE DEF TypeOK, Shape
    <3> QED
      BY <3>1, <3>2, <3>3, Kinds DEF Plans
  <2>3. CASE LoadPlan(s)
    <3>1. \A p \in Page : seen'[s][p] = current[p] /\ current'[p] = current[p] /\ current[p] \in Nat
      BY <2>3 DEF LoadPlan, rowVars
    <3> QED
      BY <2>3, <3>1 DEF LoadPlan, Planning, Plans, jobVars
  <2>4. CASE Dropped(s) \/ Report(s) \/ Finish(s) \/ SaveDerivative(s)
    BY <2>1, <2>4 DEF Dropped, Report, Finish, SaveDerivative
  <2>5. ASSUME Proceeds(s), at[s] # NoJob
        PROVE  Plans(s)'
    <3>1. phase'[s] \in {"items", "finish"} /\ todo'[s] \subseteq todo[s] /\ at' = at /\ seen' = seen
      BY <2>5 DEF Proceeds
    <3> QED
      BY <2>5, <3>1, PlansKept
  <2>6. CASE RemoveRedundant(s) \/ SaveSource(s)
    <3>1. at[s] # NoJob
      BY <2>6 DEF RemoveRedundant, SaveSource, HoldsLease, Planning, Plans
    <3> QED
      BY <2>1, <2>5, <2>6, <3>1 DEF RemoveRedundant, SaveSource
  <2>7. CASE StepFails(s) \/ SaveRejected(s)
    BY <2>7, PlansKept DEF StepFails, SaveRejected, Planning, Plans
  <2>8. CASE Settle(s) \/ LoadDerivative(s) \/ PublishDerivative(s)
    BY <2>8, PlansKept DEF Settle, LoadDerivative, PublishDerivative, Planning, Plans
  <2>9. ASSUME NEW c \in Content, PublishSource(s, c)
        PROVE  Plans(s)'
    BY <2>9, PlansKept DEF PublishSource, Planning, Plans
  <2>10. ASSUME NEW q \in Path, Register(s, q), phase[s] = "items",
                at[s] \notin Download => q = PathOf(at[s]),
                at[s] \in Download => \E p \in todo[s] : q = SourceOf(<<p, seen[s][p] + 1>>)
         PROVE  Plans(s)'
    <3>1. CASE Fails(s, "retry")
      BY <2>10, <3>1, PlansKept DEF Planning, Plans
    <3>2. CASE /\ phase' = [phase EXCEPT ![s] = "publish"] /\ path' = [path EXCEPT ![s] = q]
               /\ UNCHANGED <<planVars, rowVars, jobVars>>
      <4>1. /\ phase'[s] = "publish" /\ path'[s] = q /\ current' = current
            /\ at' = at /\ todo' = todo /\ seen' = seen /\ state' = state
        BY <3>2 DEF rowVars, jobVars
      <4>2. at[s] # NoJob /\ Plans(s) /\ todo[s] \subseteq Page
        BY <2>10 DEF HoldsLease, Register, Planning
      <4> HIDE DEF TypeOK, Shape
      <4> QED
        BY <2>10, <4>1, <4>2 DEF Plans, SourceOf, PathOf, BaseOf, FreshOf
    <3> QED
      BY <2>10, <3>1, <3>2 DEF Register
  <2>11. ASSUME NEW p \in Page, StartItem(s, p)
         PROVE  Plans(s)'
    <3>1. SourceOf(<<p, seen[s][p] + 1>>) \in Path
      BY <2>11, NextRevision DEF StartItem, Planning, Plans
    <3> QED
      BY <2>10, <2>11, <3>1 DEF StartItem
  <2>12. CASE StartDerivative(s)
    <3>1. at[s] \in Job \ Download
      BY <2>12 DEF StartDerivative, Planning, Plans
    <3> QED
      BY <2>10, <2>12, <3>1, PathOfJob DEF StartDerivative
  <2> QED
    BY <1>3, <2>2, <2>3, <2>4, <2>6, <2>7, <2>8, <2>9, <2>11, <2>12 DEF SlotStep
<1> QED
  BY <1>2, <1>3 DEF Next

\* The lease of a task at work is the one it had before.
LEMMA LeasesKept ==
  ASSUME Shape, [Next]_vars, NEW t \in Slot, HoldsLease(t)', phase'[t] # "load"
  PROVE  HoldsLease(t) /\ at'[t] = at[t]
<1> USE MediaAssumption DEF Shape, HoldsLease, jobVars, planVars, taskVars
<1>1. ASSUME UNCHANGED <<state, holder>>, at'[t] = at[t]
      PROVE  HoldsLease(t) /\ at'[t] = at[t]
  BY <1>1
<1>2. ASSUME NEW j \in Job, NEW outcome \in JobState, Settles(j, outcome), at'[t] = at[t]
      PROVE  HoldsLease(t) /\ at'[t] = at[t]
  BY <1>2 DEF Settles
<1>3. CASE UNCHANGED vars
  BY <1>1, <1>3 DEF vars
<1>4. CASE QueueStep
  <2>1. at' = at
    BY <1>4, TasksStay
  <2>2. ASSUME NEW j \in Job, EnqueueDownload(j) \/ \E p \in Page : EnqueueRegeneration(j, p)
        PROVE  HoldsLease(t)
    BY <2>1, <2>2 DEF EnqueueDownload, EnqueueRegeneration
  <2>3. ASSUME NEW j \in Job, LeaseRunsOut(j) \/ Cancel(j) \/ Retry(j)
        PROVE  HoldsLease(t)
    BY <1>2, <2>1, <2>3 DEF LeaseRunsOut, Cancel, Retry, JobState
  <2>4. CASE \E q \in Path : HoldPasses(q)
    BY <1>1, <2>1, <2>4 DEF HoldPasses
  <2> QED
    BY <1>4, <2>1, <2>2, <2>3, <2>4, Kinds DEF QueueStep
<1>5. ASSUME NEW s \in Slot, SlotStep(s)
      PROVE  HoldsLease(t) /\ at'[t] = at[t]
  <2>1. t # s => at'[t] = at[t]
    BY <1>5, OthersStay DEF Stays
  <2>2. ASSUME NEW j \in Job, Claim(s, j)
        PROVE  HoldsLease(t) /\ at'[t] = at[t]
    BY <2>1, <2>2 DEF Claim, Goes
  <2>3. ASSUME Leaves(s)
        PROVE  t # s
    BY <2>3 DEF Leaves
  <2>4. CASE Report(s) \/ Finish(s) \/ SaveDerivative(s)
    <3>1. PICK outcome \in JobState : Settles(at[s], outcome) /\ at[s] \in Job
      BY <2>4 DEF Report, Finish, SaveDerivative, JobState
    <3> QED
      BY <1>2, <2>1, <2>3, <2>4, <3>1 DEF Report, Finish, SaveDerivative
  <2>5. CASE Dropped(s)
    BY <1>1, <2>1, <2>3, <2>5 DEF Dropped
  <2>6. CASE SaveSource(s)
    <3>1. at'[t] = at[t]
      BY <2>1, <2>3, <2>6 DEF SaveSource, Proceeds
    <3>2. \/ state' = DerivativeQueued(path[s].of) /\ holder' = holder
          \/ /\ state' = [DerivativeQueued(path[s].of) EXCEPT ![at[s]] = "completed"]
             /\ holder' = [holder EXCEPT ![at[s]] = NoSlot]
      BY <2>6 DEF SaveSource
    <3>3. \A j \in Job : state'[j] = "running" => state[j] = "running"
      BY <3>2 DEF DerivativeQueued
    <3>4. \A j \in Job : holder'[j] = t => holder[j] = t
      BY <3>2
    <3> QED
      BY <3>1, <3>3, <3>4
  <2>7. CASE StepFails(s) \/ LoadPlan(s) \/ Settle(s) \/ RemoveRedundant(s)
               \/ SaveRejected(s) \/ LoadDerivative(s) \/ PublishDerivative(s)
    BY <1>1, <2>1, <2>7
    DEF StepFails, LoadPlan, Settle, RemoveRedundant, Proceeds, SaveRejected,
        LoadDerivative, PublishDerivative, Fails
  <2>8. ASSUME NEW c \in Content, PublishSource(s, c)
        PROVE  HoldsLease(t) /\ at'[t] = at[t]
    BY <1>1, <2>1, <2>8 DEF PublishSource, Fails
  <2>9. ASSUME NEW q, Register(s, q)
        PROVE  HoldsLease(t) /\ at'[t] = at[t]
    BY <1>1, <2>1, <2>9 DEF Register, Fails
  <2>10. (\E p \in Page : StartItem(s, p)) \/ StartDerivative(s) => \E q : Register(s, q)
    BY DEF StartItem, StartDerivative
  <2> QED
    BY <1>5, <2>2, <2>4, <2>5, <2>6, <2>7, <2>8, <2>9, <2>10 DEF SlotStep
<1>6. CASE CleanerStep
  BY <1>1, <1>6, TasksStay DEF CleanerStep, ListIntents, CleanIntent, CleanBreaksOff
<1> QED
  BY <1>3, <1>4, <1>5, <1>6 DEF Next

\* What a task in a given phase may have come from.
LEMMA HoldingStep ==
  ASSUME TypeOK, Planning, Targeted, Holding, [Next]_vars
  PROVE  Holding'
<1> USE DEF Stays, taskVars, planVars, Goes, Fails
<1>0. ASSUME NEW t \in Slot, at[t] \in Job \ Download
      PROVE  /\ revision[target[at[t]]] # NoContent
             /\ revision'[target'[at[t]]] = revision[target[at[t]]]
  BY <1>0, Growing, Kinds DEF Planning, Plans, Targeted
<1>1. ASSUME NEW t \in Slot, at'[t] = at[t], got'[t] = got[t],
             phase'[t] \in {"settle", "redundant", "save"} /\ at[t] \in Download
               => phase[t] \in {"settle", "redundant", "save"},
             phase'[t] \in {"items", "publish", "save"} /\ at[t] \notin Download
               => phase[t] \in {"items", "publish", "save"}
      PROVE  Holds(t)'
  BY <1>0, <1>1 DEF Holding, Holds
<1>2. CASE QueueStep \/ CleanerStep \/ UNCHANGED vars
  BY <1>1, <1>2, TasksStay DEF Holding
<1>3. ASSUME NEW s \in Slot, SlotStep(s)
      PROVE  Holding'
  <2> SUFFICES Holds(s)'
    BY <1>1, <1>3, OthersStay DEF Holding, TypeOK
  <2> USE DEF TypeOK, Shape
  <2>1. ASSUME phase'[s] \in {"idle", "load", "finish", "retry", "fail"}
        PROVE  Holds(s)'
    BY <2>1 DEF Holds
  <2>2. ASSUME NEW j \in Job, Claim(s, j)
        PROVE  Holds(s)'
    BY <2>1, <2>2 DEF Claim
  <2>3. ASSUME Leaves(s)
        PROVE  Holds(s)'
    BY <2>1, <2>3 DEF Leaves
  <2>4. CASE Dropped(s) \/ Report(s) \/ Finish(s) \/ SaveDerivative(s)
    BY <2>3, <2>4 DEF Dropped, Report, Finish, SaveDerivative
  <2>5. CASE StepFails(s) \/ SaveRejected(s)
    BY <2>1, <2>5 DEF StepFails, SaveRejected
  <2>6. ASSUME Proceeds(s), at[s] \in Download
        PROVE  Holds(s)'
    BY <2>6 DEF Proceeds, Holds
  <2>7. CASE RemoveRedundant(s) \/ SaveSource(s)
    BY <2>3, <2>6, <2>7 DEF RemoveRedundant, SaveSource, Planning, Plans, Busy
  <2>8. CASE LoadPlan(s)
    BY <2>8 DEF LoadPlan, Holds
  <2>9. CASE Settle(s)
    BY <1>1, <2>9 DEF Settle, Planning, Plans, Busy
  <2>10. CASE LoadDerivative(s)
    <3>1. CASE Fails(s, "retry")
      BY <2>1, <3>1
    <3>2. CASE got' = [got EXCEPT ![s] = revision[target[at[s]]]] /\ UNCHANGED <<jobVars, planVars, rowVars>>
      BY <2>10, <3>2 DEF LoadDerivative, Holds, jobVars, rowVars
    <3> QED
      BY <2>10, <3>1, <3>2 DEF LoadDerivative
  <2>11. CASE PublishDerivative(s)
    BY <1>1, <2>11 DEF PublishDerivative
  <2>12. ASSUME NEW c \in Content, PublishSource(s, c)
         PROVE  Holds(s)'
    <3>1. CASE Fails(s, "fail")
      BY <2>1, <3>1
    <3>2. CASE got' = [got EXCEPT ![s] = c] /\ at' = at
      BY <2>12, <3>2 DEF PublishSource, Holds
    <3> QED
      BY <2>12, <3>1, <3>2 DEF PublishSource
  <2>13. ASSUME NEW q, Register(s, q), phase[s] = "items"
         PROVE  Holds(s)'
    BY <1>1, <2>1, <2>13 DEF Register
  <2> QED
    BY <1>3, <2>2, <2>4, <2>5, <2>7, <2>8, <2>9, <2>10, <2>11, <2>12, <2>13
    DEF SlotStep, StartItem, StartDerivative
<1> QED
  BY <1>2, <1>3 DEF Next

-----------------------------------------------------------------------------
(* Intents and files *)

\* Who changes an intent: a task that may take it, a save, or the cleaner.
LEMMA IntentStays ==
  ASSUME Shape, NEW s \in Slot, SlotStep(s), NEW q \in Path, intent'[q] # intent[q]
  PROVE  \/ HoldsLease(s) /\ MayTake(q, at[s]) /\ intent'[q] = at[s]
         \/ SaveSource(s) /\ q = path[s] /\ intent'[q] = NoJob
         \/ SaveDerivative(s) /\ q = path[s] /\ intent'[q] = NoJob
<1> USE DEF Shape, intentVars
<1>1. ASSUME NEW r, Register(s, r)
      PROVE  HoldsLease(s) /\ MayTake(q, at[s]) /\ intent'[q] = at[s]
  BY <1>1 DEF Register, Fails
<1>2. (\E p \in Page : StartItem(s, p)) \/ StartDerivative(s) => \E r : Register(s, r)
  BY DEF StartItem, StartDerivative
<1>3. CASE SaveSource(s)
  BY <1>3 DEF SaveSource
<1>4. CASE SaveDerivative(s)
  <2>1. /\ HoldsLease(s) /\ intent'[q] = IntentsAfterSave(s, thumb[target[at[s]]])[q]
        /\ thumb[target[at[s]]] \notin {NoPath, path[s]} => MayTake(thumb[target[at[s]]], at[s])
    BY <1>4 DEF SaveDerivative
  <2>2. q # NoPath
    BY PathFacts
  <2> QED
    BY <1>4, <2>1, <2>2 DEF IntentsAfterSave
<1>5. ~(\E j \in Job : Claim(s, j)) /\ ~(\E c \in Content : PublishSource(s, c))
  BY DEF Claim, PublishSource, Fails
<1>6. ~Dropped(s) /\ ~StepFails(s) /\ ~Report(s) /\ ~Finish(s) /\ ~LoadPlan(s) /\ ~Settle(s)
  BY DEF Dropped, StepFails, Report, Finish, LoadPlan, Settle, Fails
<1>7. ~RemoveRedundant(s) /\ ~SaveRejected(s) /\ ~LoadDerivative(s)
        /\ ~PublishDerivative(s)
  BY DEF RemoveRedundant, SaveRejected, LoadDerivative, PublishDerivative, Fails
<1> QED
  BY <1>1, <1>2, <1>3, <1>4, <1>5, <1>6, <1>7 DEF SlotStep

\* Who changes a file: a task that publishes or removes.
LEMMA DiskStays ==
  ASSUME Shape, NEW s \in Slot, SlotStep(s)
  PROVE  \/ UNCHANGED diskVars
         \/ \E c \in Content \cup {NoContent} : Writes(s, c) /\ phase[s] \in Busy
<1> USE DEF Shape, diskVars, Busy
<1>1. ASSUME NEW r, Register(s, r)
      PROVE  UNCHANGED diskVars
  BY <1>1 DEF Register, Fails
<1>2. (\E p \in Page : StartItem(s, p)) \/ StartDerivative(s) => \E r : Register(s, r)
  BY DEF StartItem, StartDerivative
<1>3. CASE RemoveRedundant(s) \/ PublishDerivative(s)
  BY <1>3 DEF RemoveRedundant, PublishDerivative
<1>4. ASSUME NEW c \in Content, PublishSource(s, c)
      PROVE  UNCHANGED diskVars \/ (Writes(s, c) /\ phase[s] \in Busy)
  BY <1>4 DEF PublishSource, Fails
<1>5. CASE Dropped(s) \/ StepFails(s) \/ Report(s) \/ Finish(s) \/ LoadPlan(s) \/ Settle(s)
             \/ SaveSource(s) \/ SaveRejected(s) \/ LoadDerivative(s)
             \/ SaveDerivative(s)
  BY <1>5 DEF Dropped, StepFails, Report, Finish, LoadPlan, Settle, SaveSource,
              SaveRejected, LoadDerivative, SaveDerivative, Fails
<1>6. ASSUME NEW j \in Job, Claim(s, j)
      PROVE  UNCHANGED diskVars
  BY <1>6 DEF Claim
<1> QED
  BY <1>1, <1>2, <1>3, <1>4, <1>5, <1>6 DEF SlotStep

\* The cleaner touches no path of a task that may still commit.
LEMMA CleanerAway ==
  ASSUME Shape, OwnsIntent, CleanerStep, NEW t \in Slot, HoldsLease(t), phase[t] \in Busy,
         path[t] \in Path
  PROVE  intent'[path[t]] = intent[path[t]] /\ disk'[path[t]] = disk[path[t]]
<1>1. intent[path[t]] = at[t] /\ ~Due(path[t])
  BY DEF OwnsIntent, Busy, Due, Terminal, HoldsLease
<1>2. CASE ListIntents
  BY <1>2 DEF ListIntents, intentVars, diskVars
<1>3. ASSUME NEW q \in Path, CleanIntent(q)
      PROVE  intent'[path[t]] = intent[path[t]] /\ disk'[path[t]] = disk[path[t]]
  BY <1>1, <1>3 DEF CleanIntent, Shape
<1>4. ASSUME NEW q \in Path, CleanBreaksOff(q)
      PROVE  intent'[path[t]] = intent[path[t]] /\ disk'[path[t]] = disk[path[t]]
  BY <1>1, <1>4 DEF CleanBreaksOff, Shape, intentVars
<1> QED
  BY <1>2, <1>3, <1>4 DEF CleanerStep

\* Nor does a step of the queue change a file, an intent or a row.
LEMMA QueueAway ==
  ASSUME QueueStep \/ UNCHANGED vars
  PROVE  UNCHANGED <<intent, diskVars, rowVars>>
BY DEF QueueStep, vars, EnqueueDownload, EnqueueRegeneration, LeaseRunsOut, Cancel, Retry,
       HoldPasses, intentVars

\* The path of a task at work.
LEMMA PathsAtWork ==
  ASSUME TypeOK, Planning, NEW t \in Slot, at[t] # NoJob, phase[t] \in Busy
  PROVE  path[t] \in Path
<1>1. at[t] \in Job
  BY DEF TypeOK, Shape
<1>2. CASE at[t] \in Download
  BY <1>2, SourceFacts
<1>3. CASE at[t] \notin Download
  BY <1>1, <1>3, PathOfJob DEF Planning, Plans
<1> QED
  BY <1>2, <1>3

LEMMA OwnsStep ==
  ASSUME TypeOK, Planning, OwnsIntent, [Next]_vars
  PROVE  OwnsIntent'
<1> SUFFICES ASSUME NEW t \in Slot, HoldsLease(t)', phase'[t] \in Busy
             PROVE  intent'[path'[t]] = at'[t]
  BY DEF OwnsIntent, Busy
<1>1. HoldsLease(t) /\ at'[t] = at[t]
  BY LeasesKept DEF TypeOK, Busy
<1>2. ASSUME phase[t] \in Busy
      PROVE  intent[path[t]] = at[t] /\ path[t] \in Path
  BY <1>1, <1>2, PathsAtWork DEF OwnsIntent, Busy, HoldsLease
<1>3. CASE QueueStep \/ UNCHANGED vars
  BY <1>1, <1>2, <1>3, QueueAway, TasksStay DEF taskVars
<1>4. CASE CleanerStep
  BY <1>1, <1>2, <1>4, CleanerAway, TasksStay DEF taskVars, TypeOK
<1>5. ASSUME NEW s \in Slot, SlotStep(s), t # s
      PROVE  intent'[path'[t]] = at'[t]
  <2>1. phase[t] \in Busy /\ path'[t] = path[t]
    BY <1>5, OthersStay DEF Stays, TypeOK
  <2>2. at[t] # at[s] \/ ~HoldsLease(s)
    BY <1>1, <1>5 DEF HoldsLease
  <2>3. MayTake(path[t], at[s]) => at[t] = at[s]
    BY <1>1, <1>2, <2>1 DEF MayTake, Terminal, HoldsLease
  <2>4. ASSUME path[t] = path[s], SaveSource(s) \/ SaveDerivative(s)
        PROVE  FALSE
    <3>1. HoldsLease(s) /\ phase[s] = "save"
      BY <2>4 DEF SaveSource, SaveDerivative
    <3> QED
      BY <1>2, <2>1, <2>2, <2>4, <3>1 DEF OwnsIntent
  <2> QED
    BY <1>1, <1>2, <1>5, <2>1, <2>2, <2>3, <2>4, IntentStays DEF TypeOK
<1>6. CASE SlotStep(t)
  <2> USE DEF Goes, Busy
  <2>1. ASSUME Leaves(t) \/ Proceeds(t)
        PROVE  FALSE
    BY <2>1 DEF Leaves, Proceeds, TypeOK, Shape
  <2>2. ~Dropped(t) /\ ~Report(t) /\ ~Finish(t) /\ ~SaveDerivative(t) /\ ~RemoveRedundant(t)
          /\ ~SaveSource(t)
    BY <2>1 DEF Dropped, Report, Finish, SaveDerivative, RemoveRedundant, SaveSource
  <2>3. /\ ~StepFails(t) /\ ~SaveRejected(t)
        /\ ~LoadPlan(t) /\ ~LoadDerivative(t)
        /\ \A j \in Job : ~Claim(t, j)
    BY DEF StepFails, SaveRejected, LoadPlan, LoadDerivative,
           Claim, Fails, TypeOK, Shape
  <2>4. CASE Settle(t) \/ PublishDerivative(t)
    BY <1>1, <1>2, <2>4 DEF Settle, PublishDerivative, intentVars
  <2>5. ASSUME NEW c \in Content, PublishSource(t, c)
        PROVE  intent'[path'[t]] = at'[t]
    BY <1>1, <1>2, <2>5 DEF PublishSource, Fails, TypeOK, Shape, intentVars
  <2>6. ASSUME NEW q \in Path, Register(t, q)
        PROVE  intent'[path'[t]] = at'[t]
    BY <1>1, <2>6 DEF Register, Fails, TypeOK, Shape
  <2>7. ASSUME NEW p \in Page, StartItem(t, p)
        PROVE  intent'[path'[t]] = at'[t]
    BY <2>6, <2>7, NextRevision DEF StartItem, Planning, Plans, TypeOK
  <2>8. CASE StartDerivative(t)
    BY <1>1, <2>6, <2>8, PathOfJob DEF StartDerivative, HoldsLease, TypeOK, Shape
  <2> QED
    BY <1>6, <2>2, <2>3, <2>4, <2>5, <2>7, <2>8 DEF SlotStep
<1> QED
  BY <1>3, <1>4, <1>5, <1>6 DEF Next

\* Rows change when a task saves, and at no other time.
LEMMA SavesOnly ==
  ASSUME NEW s \in Slot, SlotStep(s), ~SaveSource(s), ~SaveDerivative(s)
  PROVE  UNCHANGED rowVars
<1>1. ASSUME NEW r, Register(s, r)
      PROVE  UNCHANGED rowVars
  BY <1>1 DEF Register, Fails
<1>2. (\E p \in Page : StartItem(s, p)) \/ StartDerivative(s) => \E r : Register(s, r)
  BY DEF StartItem, StartDerivative
<1>3. CASE Dropped(s) \/ StepFails(s) \/ Report(s) \/ Finish(s) \/ LoadPlan(s) \/ Settle(s)
             \/ RemoveRedundant(s) \/ SaveRejected(s) \/ LoadDerivative(s)
             \/ PublishDerivative(s)
  BY <1>3 DEF Dropped, StepFails, Report, Finish, LoadPlan, Settle, RemoveRedundant,
              SaveRejected, LoadDerivative, PublishDerivative, Fails
<1>4. (\E j \in Job : Claim(s, j)) \/ (\E c \in Content : PublishSource(s, c))
        => UNCHANGED rowVars
  BY DEF Claim, PublishSource, Fails
<1> QED
  BY <1>1, <1>2, <1>3, <1>4 DEF SlotStep

LEMMA CleanerRows ==
  ASSUME CleanerStep
  PROVE  UNCHANGED <<rowVars, strayed>>
BY DEF CleanerStep, ListIntents, CleanIntent, CleanBreaksOff, diskVars

\* What has strayed stays so.
LEMMA StrayedStays ==
  ASSUME Shape, [Next]_vars, ~strayed'
  PROVE  ~strayed
<1>1. CASE QueueStep \/ UNCHANGED vars
  BY <1>1, QueueAway DEF diskVars
<1>2. CASE CleanerStep
  BY <1>2, CleanerRows
<1>3. ASSUME NEW s \in Slot, SlotStep(s)
      PROVE  ~strayed
  BY <1>3, DiskStays DEF diskVars, Writes
<1> QED
  BY <1>1, <1>2, <1>3 DEF Next

LEMMA ApartStep ==
  ASSUME TypeOK, Planning, Apart, [Next]_vars
  PROVE  Apart'
<1>1. CASE UNCHANGED rowVars
  BY <1>1 DEF Apart, rowVars
<1>2. ASSUME NEW s \in Slot, SaveSource(s)
      PROVE  Apart'
  BY <1>2 DEF SaveSource, Apart, SourceOf
<1>3. ASSUME NEW s \in Slot, SaveDerivative(s)
      PROVE  Apart'
  <2>1. thumb' = [thumb EXCEPT ![target[at[s]]] = path[s]]
    BY <1>3 DEF SaveDerivative
  <2>2. at[s] \in Job \ Download /\ path[s] = PathOf(at[s])
    BY <1>3 DEF SaveDerivative, HoldsLease, Planning, Plans, Busy, TypeOK, Shape
  <2>3. \A m \in Media : path[s] # SourceOf(m)
    BY <2>2, PathOfJob
  <2> QED
    BY <2>1, <2>3 DEF Apart, TypeOK, Shape, SourceOf
<1> QED
  BY <1>1, <1>2, <1>3, SavesOnly, QueueAway, CleanerRows DEF Next

\* A task's file is touched by no other task, unless that one strays.
LEMMA FileStays ==
  ASSUME TypeOK, Planning, OwnsIntent, [Next]_vars, ~strayed',
         NEW s \in Slot, SlotStep(s), NEW t \in Slot \ {s}, HoldsLease(t), phase[t] \in Busy
  PROVE  disk'[path[t]] = disk[path[t]]
<1>1. CASE UNCHANGED diskVars
  BY <1>1 DEF diskVars
<1>2. ASSUME NEW c \in Content \cup {NoContent}, Writes(s, c), phase[s] \in Busy
      PROVE  disk'[path[t]] = disk[path[t]]
  <2>1. CASE path[s] # path[t]
    BY <1>2, <2>1 DEF Writes, TypeOK, Shape
  <2>2. CASE path[s] = path[t]
    <3>1. intent[path[t]] = at[t]
      BY DEF OwnsIntent, Busy
    <3>2. ~HoldsLease(s)
      BY <1>2, <2>2, <3>1 DEF OwnsIntent, Busy, HoldsLease
    <3>3. disk[path[s]] = c
      BY <1>2, <3>2 DEF Writes
    <3> QED
      BY <1>2, <2>2, <3>3 DEF Writes, TypeOK, Shape
  <2> QED
    BY <2>1, <2>2
<1> QED
  BY <1>1, <1>2, DiskStays DEF TypeOK

LEMMA PublishedStep ==
  ASSUME TypeOK, Planning, OwnsIntent, Published, [Next]_vars
  PROVE  Published'
<1> SUFFICES ASSUME ~strayed', NEW t \in Slot, HoldsLease(t)',
                    phase'[t] \in {"settle", "redundant", "save"}
             PROVE  disk'[path'[t]] = got'[t]
  BY DEF Published
<1>1. HoldsLease(t) /\ at'[t] = at[t] /\ at[t] # NoJob
  BY LeasesKept DEF TypeOK, HoldsLease
<1>2. phase[t] \in {"settle", "redundant", "save"}
        => disk[path[t]] = got[t] /\ path[t] \in Path
  BY <1>1, StrayedStays, PathsAtWork DEF Published, Busy, TypeOK
<1>3. CASE QueueStep \/ UNCHANGED vars
  BY <1>2, <1>3, QueueAway, TasksStay DEF taskVars, diskVars
<1>4. CASE CleanerStep
  BY <1>1, <1>2, <1>4, CleanerAway, TasksStay DEF taskVars, TypeOK, Busy
<1>5. ASSUME NEW s \in Slot, SlotStep(s), t # s
      PROVE  disk'[path'[t]] = got'[t]
  <2>1. Stays(t)
    BY <1>5, OthersStay DEF TypeOK
  <2> QED
    BY <1>1, <1>2, <1>5, <2>1, FileStays DEF Stays, Busy
<1>6. CASE SlotStep(t)
  <2> USE DEF Goes
  <2>1. ASSUME Leaves(t) \/ Proceeds(t)
        PROVE  FALSE
    BY <2>1 DEF Leaves, Proceeds, TypeOK, Shape
  <2>2. ~Dropped(t) /\ ~Report(t) /\ ~Finish(t) /\ ~SaveDerivative(t) /\ ~RemoveRedundant(t)
          /\ ~SaveSource(t)
    BY <2>1 DEF Dropped, Report, Finish, SaveDerivative, RemoveRedundant, SaveSource
  <2>3. /\ ~StepFails(t) /\ ~SaveRejected(t)
        /\ ~LoadPlan(t) /\ ~LoadDerivative(t)
        /\ \A j \in Job : ~Claim(t, j)
    BY DEF StepFails, SaveRejected, LoadPlan, LoadDerivative,
           Claim, Fails, TypeOK, Shape
  <2>4. \A q : ~Register(t, q)
    BY DEF Register, Fails, TypeOK, Shape
  <2>5. CASE Settle(t)
    BY <1>2, <2>5 DEF Settle, diskVars
  <2>6. ASSUME NEW c \in Content, PublishSource(t, c)
        PROVE  disk'[path'[t]] = got'[t]
    <3>1. path[t] \in Path
      BY <1>1, <2>6, PathsAtWork DEF PublishSource, Busy
    <3> QED
      BY <2>6, <3>1 DEF PublishSource, Fails, Writes, TypeOK, Shape
  <2>7. CASE PublishDerivative(t)
    <3>1. path[t] \in Path
      BY <1>1, <2>7, PathsAtWork DEF PublishDerivative, Busy
    <3> QED
      BY <2>7, <3>1 DEF PublishDerivative, Writes, TypeOK, Shape
  <2> QED
    BY <1>6, <2>2, <2>3, <2>4, <2>5, <2>6, <2>7 DEF SlotStep, StartItem, StartDerivative
<1> QED
  BY <1>3, <1>4, <1>5, <1>6 DEF Next

LEMMA ComparedStep ==
  ASSUME TypeOK, Planning, Holding, Compared, RecordedIsIntact, [Next]_vars
  PROVE  Compared'
<1> USE DEF Goes, Fails, Busy
<1>1. ASSUME NEW t \in Slot, at[t] \in Download, phase[t] \in Busy
      PROVE  Planned(t) \in Media => /\ revision[Planned(t)] # NoContent
                                     /\ revision'[Planned(t)] = revision[Planned(t)]
  <2>1. /\ PageOf(t) \in Page /\ Planned(t) = <<PageOf(t), seen[t][PageOf(t)]>>
        /\ seen[t][PageOf(t)] <= current[PageOf(t)]
    BY <1>1, SourceFacts DEF Planning, Plans
  <2> QED
    BY <2>1, Growing DEF TypeOK, Numbered
<1>2. ASSUME NEW t \in Slot, at'[t] = at[t], got'[t] = got[t], path'[t] = path[t],
             seen'[t] = seen[t], phase'[t] \in {"redundant", "save"} => phase'[t] = phase[t]
      PROVE  Compares(t)'
  <2>1. Planned(t)' = Planned(t)
    BY <1>2 DEF Planned, PageOf
  <2>2. phase[t] = "redundant" => at[t] \in Download
    BY DEF Planning, Plans
  <2> QED
    BY <1>1, <1>2, <2>1, <2>2, StrayedStays DEF Compared, Compares, TypeOK
<1>3. CASE QueueStep \/ CleanerStep \/ UNCHANGED vars
  BY <1>2, <1>3, TasksStay DEF Compared, taskVars, planVars
<1>4. ASSUME NEW s \in Slot, SlotStep(s)
      PROVE  Compared'
  <2> SUFFICES Compares(s)'
    BY <1>2, <1>4, OthersStay DEF Compared, Stays, TypeOK
  <2> USE DEF TypeOK, Shape
  <2>1. ASSUME phase'[s] \notin {"redundant", "save"}
        PROVE  Compares(s)'
    BY <2>1 DEF Compares
  <2>2. ASSUME Leaves(s) \/ Proceeds(s)
        PROVE  Compares(s)'
    BY <2>1, <2>2 DEF Leaves, Proceeds
  <2>3. CASE Dropped(s) \/ Report(s) \/ Finish(s) \/ SaveDerivative(s) \/ RemoveRedundant(s)
               \/ SaveSource(s)
    BY <2>2, <2>3 DEF Dropped, Report, Finish, SaveDerivative, RemoveRedundant, SaveSource
  <2>4. CASE StepFails(s) \/ SaveRejected(s) \/ LoadPlan(s)
               \/ LoadDerivative(s)
    BY <2>1, <2>4 DEF StepFails, SaveRejected, LoadPlan,
                      LoadDerivative
  <2>5. ASSUME NEW j \in Job, Claim(s, j)
        PROVE  Compares(s)'
    BY <2>1, <2>5 DEF Claim
  <2>6. ASSUME NEW q, Register(s, q)
        PROVE  Compares(s)'
    BY <2>1, <2>6 DEF Register
  <2>7. ASSUME NEW c \in Content, PublishSource(s, c)
        PROVE  Compares(s)'
    BY <2>1, <2>7 DEF PublishSource
  <2>8. CASE PublishDerivative(s)
    <3>1. at'[s] \notin Download /\ phase'[s] = "save"
      BY <2>8 DEF PublishDerivative, planVars
    <3> QED
      BY <3>1 DEF Compares
  <2>9. CASE Settle(s)
    <3>1. /\ at' = at /\ path' = path /\ seen' = seen /\ got' = got /\ revision' = revision
          /\ strayed' = strayed
          /\ phase'[s] = IF IsRedundant(s) THEN "redundant" ELSE "save"
      BY <2>9 DEF Settle, planVars, rowVars, diskVars
    <3>2. Planned(s)' = Planned(s)
      BY <3>1 DEF Planned, PageOf
    <3>3. CASE IsRedundant(s)
      BY <3>1, <3>2, <3>3 DEF IsRedundant, Compares
    <3>4. CASE ~IsRedundant(s)
      <4>1. at[s] \in Download
        BY <2>9 DEF Settle, Planning, Plans
      <4>2. ~strayed /\ Planned(s) \in Media => disk[SourceOf(Planned(s))] # NoContent
        BY <1>1, <2>9, <4>1 DEF Settle, RecordedIsIntact
      <4>3. ~strayed /\ Planned(s) \in Media => revision[Planned(s)] # got[s]
        BY <3>4, <4>2 DEF IsRedundant
      <4> QED
        BY <3>1, <3>2, <3>4, <4>3 DEF Compares
    <3> QED
      BY <3>3, <3>4
  <2> QED
    BY <1>4, <2>3, <2>4, <2>5, <2>6, <2>7, <2>8, <2>9 DEF SlotStep, StartItem, StartDerivative
<1> QED
  BY <1>3, <1>4 DEF Next

-----------------------------------------------------------------------------
(* Rows and files *)

\* A page's last content differs from the one a save adds.
LEMMA RedundantStep ==
  ASSUME TypeOK, Planning, Compared, NoRedundantRevision, [Next]_vars
  PROVE  NoRedundantRevision'
<1> SUFFICES ASSUME ~strayed'
             PROVE  NoRedundantRevision'
  BY DEF NoRedundantRevision
<1>1. ~strayed
  BY StrayedStays DEF TypeOK
<1>2. CASE \A s \in Slot : ~SaveSource(s)
  <2>1. revision' = revision
    BY <1>2, RowsStay DEF TypeOK, Settled
  <2> QED
    BY <1>1, <2>1 DEF NoRedundantRevision
<1>3. ASSUME NEW s \in Slot, SaveSource(s)
      PROVE  NoRedundantRevision'
  <2> DEFINE p == PageOf(s)
             m == path[s].of
  <2>1. /\ p \in Page /\ m \in Media /\ m = <<p, current[p] + 1>>
        /\ current[p] \in 0..MaxRevision /\ current[p] = seen[s][p]
        /\ revision' = [revision EXCEPT ![m] = got[s]]
    BY <1>3, SaveFacts
  <2>2. Planned(s) = <<p, current[p]>>
    BY <2>1 DEF Planned
  <2>3. Planned(s) \in Media => revision[Planned(s)] # got[s]
    BY <1>1, <1>3 DEF SaveSource, Compared, Compares
  <2> SUFFICES ASSUME NEW x \in Media, NEW y \in Media, x[1] = y[1], y[2] = x[2] + 1,
                      revision'[y] # NoContent
               PROVE  revision'[y] # revision'[x]
    BY DEF NoRedundantRevision
  <2>4. /\ x = <<x[1], x[2]>> /\ y = <<y[1], y[2]>> /\ x[2] \in Nat /\ y[2] \in Nat
        /\ m[1] = p /\ m[2] = current[p] + 1 /\ current[p] \in Nat
    BY <2>1, MediaAssumption DEF Media
  <2> HIDE DEF p, m
  <2>5. CASE y = m
    <3>1. x = Planned(s) /\ x # m
      BY <2>2, <2>4, <2>5
    <3> QED
      BY <2>1, <2>3, <2>5, <3>1 DEF TypeOK, Shape
  <2>6. CASE x = m
    <3>1. y # m /\ ~(y[2] <= current[y[1]])
      BY <2>4, <2>6
    <3>2. revision[y] = NoContent
      BY <3>1 DEF TypeOK, Numbered
    <3> QED
      BY <2>1, <3>1, <3>2 DEF TypeOK, Shape
  <2>7. CASE x # m /\ y # m
    BY <1>1, <2>1, <2>7 DEF NoRedundantRevision, TypeOK, Shape
  <2> QED
    BY <2>5, <2>6, <2>7
<1> QED
  BY <1>2, <1>3

\* A redundant file is not one that a row names.
LEMMA RedundantUnrecorded ==
  ASSUME TypeOK, Planning, Apart, Holding, Published, Compared, RecordedIsIntact,
         NoRedundantRevision, ~strayed, NEW s \in Slot, HoldsLease(s), phase[s] = "redundant"
  PROVE  ~Recorded(path[s])
<1> DEFINE m == path[s].of
<1>1. at[s] \in Download
  BY DEF Planning, Plans, Busy
<1>2. /\ m \in Media /\ path[s] = SourceOf(m) /\ m = <<PageOf(s), seen[s][PageOf(s)] + 1>>
      /\ Planned(s) = <<PageOf(s), seen[s][PageOf(s)]>> /\ PageOf(s) \in Page
  BY <1>1, SourceFacts DEF Busy
<1>3. Planned(s) \in Media /\ revision[Planned(s)] = got[s] /\ got[s] # NoContent
  BY <1>1, Kinds DEF Compared, Compares, Holding, Holds
<1>4. disk[path[s]] = got[s]
  BY DEF Published
<1>5. m[1] = Planned(s)[1] /\ m[2] = Planned(s)[2] + 1
  BY <1>2
<1>6. revision[m] = NoContent
  BY <1>2, <1>3, <1>4, <1>5 DEF RecordedIsIntact, NoRedundantRevision
<1> QED
  BY <1>2, <1>6, PathFacts DEF Recorded, Apart

\* The three steps that change a file.
LEMMA Writers ==
  ASSUME Shape, NEW s \in Slot, SlotStep(s)
  PROVE  \/ SaveSource(s) \/ SaveDerivative(s) \/ RemoveRedundant(s) \/ PublishDerivative(s)
         \/ \E c \in Content : /\ PublishSource(s, c) /\ Writes(s, c)
                               /\ disk[path[s]] \in {NoContent, c} /\ UNCHANGED rowVars
         \/ UNCHANGED <<rowVars, diskVars>>
<1>1. ASSUME NEW r, Register(s, r)
      PROVE  UNCHANGED <<rowVars, diskVars>>
  BY <1>1 DEF Register, Fails
<1>2. (\E p \in Page : StartItem(s, p)) \/ StartDerivative(s) => \E r : Register(s, r)
  BY DEF StartItem, StartDerivative
<1>3. ASSUME NEW c \in Content, PublishSource(s, c)
      PROVE  \/ Writes(s, c) /\ disk[path[s]] \in {NoContent, c} /\ UNCHANGED rowVars
             \/ UNCHANGED <<rowVars, diskVars>>
  BY <1>3 DEF PublishSource, Fails
<1>4. CASE Dropped(s) \/ StepFails(s) \/ Report(s) \/ Finish(s) \/ LoadPlan(s) \/ Settle(s)
             \/ SaveRejected(s) \/ LoadDerivative(s)
  BY <1>4 DEF Dropped, StepFails, Report, Finish, LoadPlan, Settle, SaveRejected,
              LoadDerivative, Fails
<1>5. (\E j \in Job : Claim(s, j)) => UNCHANGED <<rowVars, diskVars>>
  BY DEF Claim
<1> QED
  BY <1>1, <1>2, <1>3, <1>4, <1>5 DEF SlotStep

LEMMA IntactStep ==
  ASSUME TypeOK, Planning, Targeted, Apart, Holding, OwnsIntent, Published, Compared,
         RecordedIsIntact, NoRedundantRevision, [Next]_vars
  PROVE  RecordedIsIntact'
<1> SUFFICES ASSUME ~strayed'
             PROVE  \A m \in Media :
                      /\ revision'[m] # NoContent => disk'[SourceOf(m)] = revision'[m]
                      /\ thumb'[m] # NoPath => disk'[thumb'[m]] # NoContent
  BY DEF RecordedIsIntact, SourceOf
<1> USE DEF rowVars
<1>0. ~strayed
  BY StrayedStays DEF TypeOK
<1>1. CASE QueueStep \/ UNCHANGED vars
  BY <1>0, <1>1, QueueAway DEF RecordedIsIntact, diskVars
<1>2. CASE CleanerStep
  <2>1. UNCHANGED rowVars
    BY <1>2, CleanerRows
  <2>2. \A q \in Path : Recorded(q) => disk'[q] = disk[q]
    BY <1>2 DEF CleanerStep, ListIntents, CleanIntent, CleanBreaksOff, diskVars, TypeOK, Shape
  <2>3. \A m \in Media : revision[m] # NoContent => Recorded(SourceOf(m)) /\ SourceOf(m) \in Path
    BY PathFacts DEF Recorded
  <2>4. \A m \in Media : thumb[m] # NoPath => Recorded(thumb[m]) /\ thumb[m] \in Path
    BY DEF Recorded, TypeOK, Shape
  <2> QED
    BY <1>0, <2>1, <2>2, <2>3, <2>4 DEF RecordedIsIntact
<1>3. ASSUME NEW s \in Slot, SlotStep(s), NEW m \in Media
      PROVE  /\ revision'[m] # NoContent => disk'[SourceOf(m)] = revision'[m]
             /\ thumb'[m] # NoPath => disk'[thumb'[m]] # NoContent
  <2>1. CASE SaveSource(s)
    <3>1. /\ path[s].of \in Media /\ path[s] = SourceOf(path[s].of)
          /\ revision' = [revision EXCEPT ![path[s].of] = got[s]]
          /\ thumb' = thumb /\ disk' = disk
      BY <2>1, SaveFacts DEF SaveSource, diskVars
    <3>2. disk[path[s]] = got[s]
      BY <1>0, <2>1 DEF SaveSource, Published
    <3> QED
      BY <1>0, <3>1, <3>2 DEF RecordedIsIntact, TypeOK, Shape
  <2>2. CASE SaveDerivative(s)
    <3>1. /\ thumb' = [thumb EXCEPT ![target[at[s]]] = path[s]]
          /\ revision' = revision /\ disk' = disk
      BY <2>2 DEF SaveDerivative, diskVars
    <3>2. disk[path[s]] = got[s]
      BY <1>0, <2>2 DEF SaveDerivative, Published
    <3>3. at[s] \in Job \ Download
      BY <2>2 DEF SaveDerivative, HoldsLease, TypeOK, Shape
    <3>4. got[s] # NoContent
      BY <2>2, <3>3, Kinds DEF SaveDerivative, Holding, Holds, Targeted, Planning, Plans
    <3> QED
      BY <1>0, <3>1, <3>2, <3>4 DEF RecordedIsIntact, TypeOK, Shape
  <2>3. ASSUME UNCHANGED rowVars, NEW c \in Content \cup {NoContent}, Writes(s, c),
               path[s] \in Path,
               Recorded(path[s]) => c # NoContent,
               \A n \in Media : path[s] = SourceOf(n) /\ revision[n] # NoContent => c = revision[n]
        PROVE  /\ revision'[m] # NoContent => disk'[SourceOf(m)] = revision'[m]
               /\ thumb'[m] # NoPath => disk'[thumb'[m]] # NoContent
    <3>1. disk' = [disk EXCEPT ![path[s]] = c]
      BY <2>3 DEF Writes
    <3>2. SourceOf(m) \in Path
      BY PathFacts
    <3>3. thumb[m] # NoPath => thumb[m] \in Path /\ (thumb[m] = path[s] => Recorded(path[s]))
      BY DEF TypeOK, Shape, Recorded
    <3> QED
      BY <1>0, <2>3, <3>1, <3>2, <3>3 DEF RecordedIsIntact, TypeOK, Shape
  <2>4. CASE RemoveRedundant(s)
    <3>1. at[s] \in Download /\ path[s] \in Path /\ UNCHANGED rowVars /\ Writes(s, NoContent)
      BY <2>4, SourceFacts DEF RemoveRedundant, Planning, Plans, Busy
    <3>2. CASE HoldsLease(s)
      <4>1. ~Recorded(path[s])
        BY <1>0, <2>4, <3>2, RedundantUnrecorded DEF RemoveRedundant
      <4> QED
        BY <2>3, <3>1, <4>1 DEF Recorded
    <3>3. CASE ~HoldsLease(s)
      <4>1. disk' = disk
        BY <3>1, <3>3 DEF Writes, TypeOK, Shape
      <4> QED
        BY <1>0, <3>1, <4>1 DEF RecordedIsIntact
    <3> QED
      BY <3>2, <3>3
  <2>5. ASSUME NEW c \in Content, PublishSource(s, c), Writes(s, c),
               disk[path[s]] \in {NoContent, c}, UNCHANGED rowVars
        PROVE  /\ revision'[m] # NoContent => disk'[SourceOf(m)] = revision'[m]
               /\ thumb'[m] # NoPath => disk'[thumb'[m]] # NoContent
    <3>1. path[s] \in Path
      BY <2>5, SourceFacts DEF PublishSource, Busy
    <3> QED
      BY <1>0, <2>3, <2>5, <3>1, Kinds DEF RecordedIsIntact
  <2>6. CASE PublishDerivative(s)
    <3>1. at[s] \in Job \ Download
      BY <2>6, MediaAssumption DEF PublishDerivative, Planning, Plans, TypeOK, Shape
    <3>2. path[s] \in Path /\ \A n \in Media : path[s] # SourceOf(n)
      BY <2>6, <3>1, PathOfJob DEF PublishDerivative, Planning, Plans, Busy
    <3>3. got[s] \in Content
      BY <2>6, <3>1, Kinds DEF PublishDerivative, Holding, Holds, Targeted, Planning, Plans,
                               TypeOK, Shape
    <3> QED
      BY <2>3, <2>6, <3>2, <3>3, Kinds DEF PublishDerivative
  <2>7. CASE UNCHANGED <<rowVars, diskVars>>
    BY <1>0, <2>7 DEF RecordedIsIntact, diskVars
  <2> QED
    <3>1. CASE \E c \in Content : /\ PublishSource(s, c) /\ Writes(s, c)
                                  /\ disk[path[s]] \in {NoContent, c} /\ UNCHANGED rowVars
      BY <2>5, <3>1
    <3>2. \/ SaveSource(s) \/ SaveDerivative(s) \/ RemoveRedundant(s) \/ PublishDerivative(s)
          \/ \E c \in Content : /\ PublishSource(s, c) /\ Writes(s, c)
                                /\ disk[path[s]] \in {NoContent, c} /\ UNCHANGED rowVars
          \/ UNCHANGED <<rowVars, diskVars>>
      BY <1>3, Writers DEF TypeOK
    <3> QED
      BY <2>1, <2>2, <2>4, <2>6, <2>7, <3>1, <3>2
<1> QED
  BY <1>1, <1>2, <1>3 DEF Next

LEMMA TrackedStep ==
  ASSUME TypeOK, Planning, Targeted, Holding, OwnsIntent, NoUntrackedFile, [Next]_vars
  PROVE  NoUntrackedFile'
<1> SUFFICES ASSUME ~strayed', NEW q \in Path, disk'[q] # NoContent, intent'[q] = NoJob
             PROVE  Recorded(q)'
  BY DEF NoUntrackedFile
<1>0. ~strayed /\ (disk[q] # NoContent => Recorded(q) \/ intent[q] # NoJob)
  BY StrayedStays DEF TypeOK, NoUntrackedFile
<1>1. ASSUME UNCHANGED rowVars
      PROVE  Recorded(q) => Recorded(q)'
  BY <1>1 DEF Recorded, rowVars
<1>2. CASE QueueStep \/ UNCHANGED vars
  BY <1>0, <1>1, <1>2, QueueAway DEF diskVars
<1>3. CASE CleanerStep
  <2>1. \/ disk'[q] = disk[q] /\ intent'[q] = intent[q]
        \/ Recorded(q)
        \/ disk'[q] = NoContent
    BY <1>3 DEF CleanerStep, ListIntents, CleanIntent, CleanBreaksOff, diskVars, intentVars,
                TypeOK, Shape
  <2> QED
    BY <1>0, <1>1, <1>3, <2>1, CleanerRows
<1>4. ASSUME NEW s \in Slot, SlotStep(s)
      PROVE  Recorded(q)'
  <2>1. CASE SaveSource(s)
    <3>1. /\ path[s].of \in Media /\ path[s] = SourceOf(path[s].of)
          /\ revision' = [revision EXCEPT ![path[s].of] = got[s]]
          /\ thumb' = thumb /\ disk' = disk /\ intent' = [intent EXCEPT ![path[s]] = NoJob]
      BY <2>1, SaveFacts DEF SaveSource, diskVars
    <3>2. got[s] # NoContent
      BY <2>1, Kinds DEF SaveSource, Holding, Holds
    <3>3. q = path[s] \/ Recorded(q)
      BY <1>0, <3>1 DEF TypeOK, Shape
    <3> QED
      BY <3>1, <3>2, <3>3 DEF Recorded, TypeOK, Shape
  <2>2. CASE SaveDerivative(s)
    <3> DEFINE m == target[at[s]]
    <3>1. /\ thumb' = [thumb EXCEPT ![m] = path[s]] /\ at[s] # NoJob
          /\ revision' = revision /\ disk' = disk /\ intent' = IntentsAfterSave(s, thumb[m])
      BY <2>2 DEF SaveDerivative, diskVars, HoldsLease
    <3>2. m \in Media
      BY <2>2, Kinds DEF SaveDerivative, HoldsLease, Targeted, Planning, Plans, TypeOK, Shape
    <3>3. q # path[s] => q # thumb[m] /\ Recorded(q)
      <4>1. intent'[q] = IF q = path[s] THEN NoJob
                         ELSE IF q = thumb[m] THEN at[s] ELSE intent[q]
        BY <3>1 DEF IntentsAfterSave
      <4> HIDE DEF m
      <4>2. q # path[s] => q # thumb[m] /\ intent[q] = NoJob
        BY <3>1, <4>1
      <4>3. disk[q] # NoContent
        BY <3>1
      <4>4. q # path[s] => Recorded(q)
        BY <1>0, <4>2, <4>3
      <4> QED
        BY <4>2, <4>4
    <3> HIDE DEF m
    <3> QED
      BY <3>1, <3>2, <3>3 DEF Recorded, TypeOK, Shape
  <2>3. CASE ~SaveSource(s) /\ ~SaveDerivative(s)
    <3>1. UNCHANGED rowVars
      BY <1>4, <2>3, SavesOnly
    <3>2. intent[q] = NoJob
      BY <1>4, <2>3, IntentStays DEF TypeOK, HoldsLease
    <3>3. disk'[q] = disk[q]
      <4>1. CASE UNCHANGED diskVars
        BY <4>1 DEF diskVars
      <4>2. ASSUME NEW c \in Content \cup {NoContent}, Writes(s, c), phase[s] \in Busy
            PROVE  disk'[q] = disk[q]
        BY <4>2, <3>2 DEF Writes, OwnsIntent, Busy, HoldsLease, TypeOK, Shape
      <4> QED
        BY <1>4, <4>1, <4>2, DiskStays DEF TypeOK
    <3> QED
      BY <1>0, <1>1, <3>1, <3>2, <3>3
  <2> QED
    BY <2>1, <2>2, <2>3
<1> QED
  BY <1>2, <1>3, <1>4 DEF Next

-----------------------------------------------------------------------------
LEMMA InitIInv == Init => IInv
<1> SUFFICES ASSUME Init
             PROVE  IInv
  OBVIOUS
<1>1. TypeOK
  BY TypeInit
<1>2. Planning /\ Holding /\ OwnsIntent /\ Published /\ Compared
  <2>1. \A s \in Slot : phase[s] = "idle" /\ at[s] = NoJob /\ todo[s] = {} /\ seen[s] = NoPlan
    BY DEF Init
  <2>2. \A p \in Page : NoPlan[p] = 0 /\ current[p] = 0
    BY DEF Init, NoPlan
  <2> QED
    BY <2>1, <2>2, MediaAssumption, Kinds
    DEF Planning, Plans, Holding, Holds, OwnsIntent, Published, Compared, Compares, Busy, HoldsLease
<1>3. Targeted
  BY Kinds DEF Init, Targeted
<1>4. Apart
  BY PathFacts DEF Init, Apart
<1>5. RecordedIsIntact /\ NoUntrackedFile /\ NoRedundantRevision
  BY DEF Init, RecordedIsIntact, NoUntrackedFile, NoRedundantRevision
<1> QED
  BY <1>1, <1>2, <1>3, <1>4, <1>5 DEF IInv

\* The invariant is inductive.
LEMMA NextIInv == IInv /\ [Next]_vars => IInv'
<1> SUFFICES ASSUME IInv, [Next]_vars
             PROVE  IInv'
  OBVIOUS
<1> USE DEF IInv
<1>1. TypeOK'
  BY ShapeStep, NumberedStep DEF TypeOK
<1>2. Planning' /\ Targeted' /\ Holding' /\ Apart'
  BY <1>1, PlanningStep, TargetedStep, HoldingStep, ApartStep
<1>3. OwnsIntent' /\ Published' /\ Compared'
  BY OwnsStep, PublishedStep, ComparedStep
<1>4. RecordedIsIntact' /\ NoUntrackedFile' /\ NoRedundantRevision'
  BY IntactStep, TrackedStep, RedundantStep
<1> QED
  BY <1>1, <1>2, <1>3, <1>4

\* Rows, files, intents and the tasks' knowledge of them, for any number of
\* pages, jobs and tasks.
THEOREM MediaInvariant == Spec => []IInv
<1>1. Init => IInv
  BY InitIInv
<1>2. IInv /\ [Next]_vars => IInv'
  BY NextIInv
<1> QED
  BY <1>1, <1>2, PTL DEF Spec

\* The shape of the tables and the numbering of revisions (save_source_revision).
THEOREM MediaTypes == Spec => []TypeOK
<1>1. IInv => TypeOK
  BY DEF IInv
<1> QED
  BY <1>1, MediaInvariant, PTL

\* A task that holds its lease owns the intent of the path it works on
\* (register_artifact_intent_in_tx, cleanup_terminal).
THEOREM IntentIsOwned == Spec => []OwnsIntent
<1>1. IInv => OwnsIntent
  BY DEF IInv
<1> QED
  BY <1>1, MediaInvariant, PTL

\* A recorded file is on disk as recorded (download_item, cleanup_terminal).
THEOREM RecordedStaysIntact == Spec => []RecordedIsIntact
<1>1. IInv => RecordedIsIntact
  BY DEF IInv
<1> QED
  BY <1>1, MediaInvariant, PTL

\* Every other file has an intent (save_source_revision, save_derivative).
THEOREM FilesAreTracked == Spec => []NoUntrackedFile
<1>1. IInv => NoUntrackedFile
  BY DEF IInv
<1> QED
  BY <1>1, MediaInvariant, PTL

\* No content is recorded twice in a row (download_item).
THEOREM RevisionsDiffer == Spec => []NoRedundantRevision
<1>1. IInv => NoRedundantRevision
  BY DEF IInv
<1> QED
  BY <1>1, MediaInvariant, PTL
=============================================================================
