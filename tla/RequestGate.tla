---------------------------- MODULE RequestGate ----------------------------
(***************************************************************************)
(* The gate every request to Pixiv passes (pixiv/src/limit.rs): a request  *)
(* takes one of the permits, books the next free start of the rate limit,  *)
(* sleeps until then, and keeps its permit until it ends.  A sleeper may   *)
(* wake late, and a request may be dropped while it waits or sleeps.       *)
(***************************************************************************)
EXTENDS Naturals, FiniteSets

CONSTANTS
  GateRequest,     \* requests that want to enter
  Concurrency, \* how many permits there are
  Interval,    \* the time between two booked starts
  Horizon      \* when the clock stops

(* PixivRequestGate::new and RateGate::new refuse zero. *)
ASSUME GateAssumption ==
  /\ IsFiniteSet(GateRequest)
  /\ Concurrency \in Nat \ {0} /\ Interval \in Nat \ {0}
  /\ Horizon \in Nat

VARIABLES
  clock,
  nextStart,  \* the first start that is not booked
  at,         \* each request: outside, or where it is, with its booked start
  starts      \* history: when each request was let in, or beyond the horizon

gateVars == <<clock, nextStart, at, starts>>

Position(place, start) == [place |-> place, start |-> start]

GateInit ==
  /\ clock = 0
  /\ nextStart = 0
  /\ at = [r \in GateRequest |-> Position("outside", 0)]
  /\ starts = [r \in GateRequest |-> Horizon + Interval]

(* Wrong: the permit is not kept while the request sleeps. *)
InsideAwake == {r \in GateRequest : at[r].place \in {"permitted", "running"}}
Inside == {r \in GateRequest : at[r].place \in {"permitted", "asleep", "running"}}
Free == Cardinality(Inside) < Concurrency

MoveTo(r, place, start) ==
  /\ at' = [at EXCEPT ![r] = Position(place, start)]
  /\ UNCHANGED clock

TakePermit(r) ==
  /\ at[r].place = "outside"
  /\ Free
  /\ MoveTo(r, "permitted", 0)
  /\ UNCHANGED <<nextStart, starts>>

Later(s, t) == IF s < t THEN t ELSE s
BookStart(r) ==
  /\ at[r].place = "permitted"
  /\ MoveTo(r, "asleep", Later(nextStart, clock))
  /\ nextStart' = Later(nextStart, clock) + Interval
  /\ UNCHANGED starts

Wake(r) ==
  /\ at[r].place = "asleep"
  /\ at[r].start <= clock
  /\ MoveTo(r, "running", 0)
  /\ starts' = [starts EXCEPT ![r] = clock]
  /\ UNCHANGED nextStart

EndRequest(r) ==
  /\ at[r].place = "running"
  /\ MoveTo(r, "done", 0)
  /\ UNCHANGED <<nextStart, starts>>

DropRequest(r) ==
  /\ at[r].place \in {"permitted", "asleep"}
  /\ MoveTo(r, "done", 0)
  /\ UNCHANGED <<nextStart, starts>>

PassTime ==
  /\ clock < Horizon
  /\ clock' = clock + 1
  /\ UNCHANGED <<nextStart, at, starts>>

GateNext ==
  \/ \E r \in GateRequest :
       \/ TakePermit(r) \/ BookStart(r) \/ Wake(r)
       \/ EndRequest(r) \/ DropRequest(r)
  \/ PassTime
GateSpec == GateInit /\ [][GateNext]_gateVars

Within(t) == {r \in GateRequest : starts[r] >= t /\ starts[r] < t + Interval}

(* Requests do not start in a burst: within one interval there start at most
   one request more than there are permits, however long all permits were
   taken before (the comment in PixivRequestGate::enter), and however late
   the sleepers wake. *)
NoBurst == \A t \in 0 .. Horizon : Cardinality(Within(t)) <= Concurrency + 1
=============================================================================
