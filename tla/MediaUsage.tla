----------------------------- MODULE MediaUsage -----------------------------
(***************************************************************************)
(* How large the media directory is, for the system page                   *)
(* (application/src/system.rs, MediaUsageTracker).                         *)
(*                                                                         *)
(* Walking the directory is slow, so an answer is kept for fifteen         *)
(* seconds, and requests that come while a walk runs wait for its result.  *)
(* The walk belongs to no request: one that is dropped leaves it running.  *)
(***************************************************************************)
EXTENDS Naturals

CONSTANTS
  UsageRequest, \* requests under way at one time
  MaxFailedWalks

VARIABLES
  measured,  \* the cached answer: "none", "fresh" or "old"
  walk,      \* "no" or "running"
  waiters,   \* the requests whose sender the tracker keeps
  answering, \* the requests the end of a walk is about to answer
  usage,     \* each request: "idle" or "waiting"
  failedWalks

usageVars == <<measured, walk, waiters, answering, usage, failedWalks>>

UsageInit ==
  /\ measured = "none"
  /\ walk = "no"
  /\ waiters = {}
  /\ answering = {}
  /\ usage = [r \in UsageRequest |-> "idle"]
  /\ failedWalks = 0

(* A fresh answer is given at once; else the request waits, and starts a walk
   unless one runs. *)
AskUsage(r) ==
  /\ usage[r] = "idle"
  /\ measured # "fresh"
  /\ usage' = [usage EXCEPT ![r] = "waiting"]
  /\ waiters' = waiters \cup {r}
  /\ walk' = "running"
  /\ UNCHANGED <<measured, answering, failedWalks>>

(* Wrong: the walk is part of the request that started it. *)
DropWithWalk(r) ==
  /\ usage[r] = "waiting"
  /\ usage' = [usage EXCEPT ![r] = "idle"]
  /\ answering' = answering \ {r}
  /\ walk' = "dropped"
  /\ UNCHANGED <<measured, waiters, failedWalks>>
(* Its browser goes away; what is sent to it reaches nobody. *)
DropUsage(r) ==
  /\ usage[r] = "waiting"
  /\ usage' = [usage EXCEPT ![r] = "idle"]
  /\ answering' = answering \ {r}
  /\ UNCHANGED <<measured, walk, waiters, failedWalks>>

EndWalk ==
  /\ walk = "running"
  /\ \/ /\ measured' = "fresh"
        /\ UNCHANGED failedWalks
     \/ /\ failedWalks < MaxFailedWalks
        /\ failedWalks' = failedWalks + 1
        /\ UNCHANGED measured
  /\ walk' = "no"
  /\ answering' = answering \cup {r \in waiters : usage[r] = "waiting"}
  /\ waiters' = {}
  /\ UNCHANGED usage

SendUsage(r) ==
  /\ r \in answering
  /\ usage' = [usage EXCEPT ![r] = "idle"]
  /\ answering' = answering \ {r}
  /\ UNCHANGED <<measured, walk, waiters, failedWalks>>

(* MEDIA_USAGE_CACHE_TTL passes. *)
Expire ==
  /\ measured = "fresh"
  /\ measured' = "old"
  /\ UNCHANGED <<walk, waiters, answering, usage, failedWalks>>

UsageNext ==
  \/ \E r \in UsageRequest : AskUsage(r) \/ DropUsage(r) \/ SendUsage(r)
  \/ EndWalk
  \/ Expire
(* A walk ends, and whoever drained the waiters goes on to answer them. *)
UsageFairness ==
  /\ WF_usageVars(EndWalk)
  /\ \A r \in UsageRequest : WF_usageVars(SendUsage(r))
UsageSpec == UsageInit /\ [][UsageNext]_usageVars /\ UsageFairness

(* Whoever waits is answered, also when the request that started the walk is
   gone ("a cancelled caller cannot discard its result", system.rs), and when
   requests come between the end of a walk and the answers. *)
AskersAreAnswered ==
  \A r \in UsageRequest : usage[r] = "waiting" ~> usage[r] = "idle"
=============================================================================
