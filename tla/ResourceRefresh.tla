-------------------------- MODULE ResourceRefresh --------------------------
(***************************************************************************)
(* ResourceRefreshCoordinator (resource-refresh.ts): decides when a page   *)
(* reloads what it shows.  Each operator is one method, as a function of   *)
(* the coordinator's state; a version is the number of invalidations the   *)
(* page has seen, and mergeVersions keeps the larger one.  The delay is    *)
(* positive, as it is for the gallery pages.                               *)
(***************************************************************************)
EXTENDS Naturals

CONSTANT NoVersion  \* null

ASSUME VersionAssumption == NoVersion \notin Nat

VARIABLE refresher

\* overtaken says that the generation changed while the refresh ran; target
\* is the version a running refresh was started for; again is retryRequested.
Refresher == [current : Nat, latest : Nat, failed : Nat \cup {NoVersion}, target : Nat \cup {NoVersion},
              running : BOOLEAN, paused : BOOLEAN, timer : BOOLEAN,
              overtaken : BOOLEAN, again : BOOLEAN]

\* The constructor.
NewRefresher(version) ==
  [current |-> version, latest |-> version, failed |-> NoVersion, target |-> NoVersion,
   running |-> FALSE, paused |-> FALSE, timer |-> FALSE, overtaken |-> FALSE, again |-> FALSE]

Wanted(r) == r.latest # r.current /\ r.latest # r.failed

Schedule(r) ==
  [r EXCEPT !.timer = r.timer \/ (~r.paused /\ ~r.running /\ Wanted(r))]

CancelTimer(r) == [r EXCEPT !.timer = r.timer /\ r.running]

\* observe
Observe(r, version, paused) ==
  LET seen == [r EXCEPT !.latest = version, !.paused = paused]
  IN CASE version = r.current -> CancelTimer([seen EXCEPT !.failed = NoVersion])
       [] version # r.current /\ version = r.failed -> CancelTimer(seen)
       [] OTHER -> Schedule(seen)

\* markCurrent
MarkCurrent(r, version) ==
  Schedule([r EXCEPT !.overtaken = r.running, !.current = version, !.timer = FALSE,
                     !.failed = NoVersion, !.latest = IF @ > version THEN @ ELSE version])

\* The guards of runRefresh, and what it sets before it calls refresh.
Runs(r) == ~r.paused /\ ~r.running /\ Wanted(r)
Run(r) == IF Runs(r)
            THEN [r EXCEPT !.target = r.latest, !.running = TRUE, !.overtaken = FALSE]
            ELSE r

TimerFires(r) == Run([r EXCEPT !.timer = FALSE])

\* retry
Retry(r) ==
  IF r.running THEN [r EXCEPT !.again = TRUE]
  ELSE IF r.failed = NoVersion THEN r
  ELSE Run([r EXCEPT !.failed = NoVersion, !.timer = FALSE])

\* Wrong: the newest version counts as loaded.
ReturnsLatest(r, succeeded) ==
  Schedule([r EXCEPT !.running = FALSE, !.again = FALSE, !.overtaken = FALSE, !.target = NoVersion,
                     !.current = IF succeeded /\ ~r.overtaken THEN r.latest ELSE @,
                     !.failed = IF r.overtaken THEN @
                                ELSE IF succeeded \/ r.again THEN NoVersion ELSE r.target])

\* The rest of runRefresh, once refresh has returned.
Returns(r, succeeded) ==
  Schedule([r EXCEPT !.running = FALSE, !.again = FALSE, !.overtaken = FALSE, !.target = NoVersion,
                     !.current = IF succeeded /\ ~r.overtaken THEN r.target ELSE @,
                     !.failed = IF r.overtaken THEN @
                                ELSE IF succeeded \/ r.again THEN NoVersion ELSE r.target])
=============================================================================
