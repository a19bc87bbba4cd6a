---------------------------- MODULE PixivProofs -----------------------------
(***************************************************************************)
(* Pixiv: what is proved about the account service, about the gate its     *)
(* requests pass, and about the copies of what it showed.                  *)
(***************************************************************************)
EXTENDS PixivAccount, RequestGate, PixivMirror, FiniteSetTheorems, TLAPS

-----------------------------------------------------------------------------
(***************************************************************************)
(* Proofs about the account service, for any users, cookies, jobs and      *)
(* overlapping requests.                                                   *)
(***************************************************************************)

\* A request that will write a cookie back read it from the account's row, where
\* only accepted cookies of the user are; a candidate names its own user.
RequestCookie ==
  \A c \in Call :
    /\ call[c].phase \in {"updating", "probing", "reading", "marking"} => call[c].user \in User
    /\ call[c].phase = "updating" =>
         call[c].cookie \in Cookie /\ UserOf[call[c].cookie] = call[c].user
    /\ call[c].phase = "probing" =>
         call[c].cookie \in accepted /\ UserOf[call[c].cookie] = call[c].user

\* The page is never ahead of the row.
PageBehind == page.user # NoUser => page.revision <= row[page.user].revision

IInv ==
  /\ TypeOK
  /\ StoredCookieWasAccepted
  /\ RequestCookie
  /\ PageBehind
  /\ ClearsWhatWasSeen

\* A step leaves a row alone, moves it to a later revision, or keeps its cookie
\* with the revision.
LEMMA RevisionStep ==
  ASSUME TypeOK, [Next]_vars, NEW u \in User
  PROVE  row'[u] = row[u] \/ row'[u].revision = row[u].revision + 1
<1> USE DEF TypeOK, Row, State, Activate, Marked, SetState, Block
<1>1. ASSUME NEW c \in Call, CallStep(c)
      PROVE  row'[u] = row[u] \/ row'[u].revision = row[u].revision + 1
  <2>1. ASSUME NEW state \in {"normal", "restricted", "validating"}, PersistUpdate(c, state)
        PROVE  row'[u] = row[u] \/ row'[u].revision = row[u].revision + 1
    BY <2>1 DEF PersistUpdate
  <2>2. ASSUME NEW state \in {"normal", "restricted", "validating"}, PersistValidation(c, state)
        PROVE  row'[u] = row[u] \/ row'[u].revision = row[u].revision + 1
    BY <2>2 DEF PersistValidation
  <2>3. CASE MarkValidating(c)
    BY <2>3 DEF MarkValidating
  <2>4. CASE ValidationInvalid(c)
    BY <2>4 DEF ValidationInvalid
  <2>5. ASSUME NEW state \in {"restricted", "validating"}, ValidationInconclusive(c, state)
        PROVE  row'[u] = row[u] \/ row'[u].revision = row[u].revision + 1
    BY <2>5 DEF ValidationInconclusive
  <2> QED
    BY <1>1, <2>1, <2>2, <2>3, <2>4, <2>5
       DEF CallStep, ReadExisting, CallFails, BeginValidate, ReadSaved
<1>2. CASE LoadPage
  BY <1>2 DEF LoadPage
<1>3. CASE ClearCredential
  BY <1>3 DEF ClearCredential
<1>4. ASSUME NEW j \in Job, JobStep(j)
      PROVE  row'[u] = row[u] \/ row'[u].revision = row[u].revision + 1
  BY <1>4 DEF JobStep, InsertJob, CommitInsert, RunJob, JobFindsCredentialInvalid
<1>5. CASE UNCHANGED vars
  BY <1>5 DEF vars
<1> QED BY <1>1, <1>2, <1>3, <1>4, <1>5 DEF Next

\* What the page shows stays what the row held at that revision.
LEMMA PageStep ==
  TypeOK /\ PageBehind /\ ClearsWhatWasSeen /\ [Next]_vars
    => PageBehind' /\ ClearsWhatWasSeen'
<1> SUFFICES ASSUME TypeOK, PageBehind, ClearsWhatWasSeen, [Next]_vars
             PROVE  PageBehind' /\ ClearsWhatWasSeen'
  OBVIOUS
<1>1. CASE page' = page
  <2>1. page.user # NoUser => page.user \in User /\ page.revision \in Nat
                              /\ row[page.user].revision \in Nat
    BY DEF TypeOK, Page, Row
  <2>2. CASE page.user = NoUser
    BY <1>1, <2>2 DEF PageBehind, ClearsWhatWasSeen
  <2>3. CASE page.user # NoUser
    <3>1. row'[page.user] = row[page.user] \/ row'[page.user].revision = row[page.user].revision + 1
      BY <2>1, <2>3, RevisionStep
    <3> QED BY <1>1, <2>1, <2>3, <3>1 DEF PageBehind, ClearsWhatWasSeen
  <2> QED BY <2>2, <2>3
<1>2. CASE LoadPage
  BY <1>2 DEF LoadPage, PageBehind, ClearsWhatWasSeen, TypeOK, Row
<1>3. CASE ClearCredential
  BY <1>3 DEF ClearCredential, PageBehind, ClearsWhatWasSeen
<1>4. ASSUME NEW c \in Call, CallStep(c) PROVE page' = page
  BY <1>4 DEF CallStep, ReadExisting, CallFails, BeginValidate, ReadSaved, PersistUpdate,
     PersistValidation, MarkValidating, ValidationInvalid, ValidationInconclusive
<1>5. ASSUME NEW j \in Job, JobStep(j) PROVE page' = page
  BY <1>5 DEF JobStep, InsertJob, CommitInsert, RunJob, JobFindsCredentialInvalid
<1> QED BY <1>1, <1>2, <1>3, <1>4, <1>5 DEF Next, vars

\* A new state for a row that has a cookie keeps the rows well typed and every
\* cookie where it is.
LEMMA MarkType ==
  ASSUME TypeOK, NEW u \in User, NEW state \in {"validating", "restricted"},
         MayHaveState(u), SetState(u, state)
  PROVE  /\ row' \in [User -> Row]
         /\ \A v \in User : row'[v].cookie = row[v].cookie
         /\ \A v \in User : MayHaveState(v)' <=> MayHaveState(v)
BY DEF TypeOK, Row, State, MayHaveState, SetState, Marked

\* Rows, requests and pages stay well typed, and only accepted cookies are stored.
LEMMA CookieStep ==
  TypeOK /\ StoredCookieWasAccepted /\ RequestCookie /\ [Next]_vars
    => TypeOK' /\ StoredCookieWasAccepted' /\ RequestCookie'
<1> DEFINE Good == TypeOK /\ StoredCookieWasAccepted /\ RequestCookie
<1> SUFFICES ASSUME TypeOK, StoredCookieWasAccepted, RequestCookie, [Next]_vars PROVE Good'
  OBVIOUS
<1> USE PixivAccountAssumption
<1> USE DEF TypeOK, StoredCookieWasAccepted, RequestCookie, Row, Request, Page, State, Phase,
            JobState, MayHaveState, Marked, Finished, DoneRequest, NoRequest
<1>1. ASSUME NEW c \in Call, CallStep(c) PROVE Good'
  <2>1. ASSUME NEW cookie \in Cookie, ReadExisting(c, cookie) PROVE Good'
    BY <2>1 DEF ReadExisting
  <2>2. ASSUME NEW state \in {"normal", "restricted", "validating"}, PersistUpdate(c, state)
        PROVE  Good'
    BY <2>2 DEF PersistUpdate, Activate
  <2>3. ASSUME NEW state \in {"normal", "restricted", "validating"}, PersistValidation(c, state)
        PROVE  Good'
    BY <2>3 DEF PersistValidation, Activate
  <2>4. CASE CallFails(c)
    BY <2>4 DEF CallFails
  <2>5. CASE BeginValidate(c)
    BY <2>5 DEF BeginValidate
  <2>6. CASE ReadSaved(c)
    BY <2>6 DEF ReadSaved
  <2>7. CASE MarkValidating(c)
    <3>1. CASE MayHaveState(call[c].user)
      <4>1. /\ row' \in [User -> Row]
            /\ \A v \in User : row'[v].cookie = row[v].cookie
            /\ \A v \in User : MayHaveState(v)' <=> MayHaveState(v)
        BY <2>7, <3>1, MarkType DEF MarkValidating
      <4>2. call[c].user \in User /\ row[call[c].user].cookie \in Cookie
        BY <2>7, <3>1 DEF MarkValidating
      <4>3. call' \in [Call -> Request]
        <5> DEFINE probing == [phase |-> "probing", user |-> call[c].user,
                               seen |-> "validating", cookie |-> row[call[c].user].cookie]
        <5>1. probing \in Request
          BY <4>2
        <5>2. call' = [call EXCEPT ![c] = probing]
          BY <2>7, <3>1 DEF MarkValidating
        <5> HIDE DEF probing
        <5> QED BY <5>1, <5>2
      <4>4. TypeOK'
        BY <2>7, <4>1, <4>3 DEF MarkValidating
      <4>5. accepted' = accepted /\ StoredCookieWasAccepted'
        BY <2>7, <4>1 DEF MarkValidating
      <4>6. RequestCookie'
        BY <2>7, <3>1, <4>2, <4>5 DEF MarkValidating
      <4> QED BY <4>4, <4>5, <4>6
    <3>2. CASE ~MayHaveState(call[c].user)
      BY <2>7, <3>2 DEF MarkValidating
    <3> QED BY <3>1, <3>2
  <2>8. CASE ValidationInvalid(c)
    BY <2>8 DEF ValidationInvalid, Block
  <2>9. ASSUME NEW state \in {"restricted", "validating"}, ValidationInconclusive(c, state)
        PROVE  Good'
    <3>1. CASE MayHaveState(call[c].user)
      <4>1. /\ row' \in [User -> Row]
            /\ \A v \in User : row'[v].cookie = row[v].cookie
            /\ \A v \in User : MayHaveState(v)' <=> MayHaveState(v)
        BY <2>9, <3>1, MarkType DEF ValidationInconclusive
      <4> QED BY <2>9, <3>1, <4>1 DEF ValidationInconclusive
    <3>2. CASE ~MayHaveState(call[c].user)
      BY <2>9, <3>2 DEF ValidationInconclusive
    <3> QED BY <3>1, <3>2
  <2> QED BY <1>1, <2>1, <2>2, <2>3, <2>4, <2>5, <2>6, <2>7, <2>8, <2>9 DEF CallStep
<1>2. CASE LoadPage
  BY <1>2 DEF LoadPage
<1>3. CASE ClearCredential
  BY <1>3 DEF ClearCredential
<1>4. ASSUME NEW j \in Job, JobStep(j) PROVE Good'
  <2>1. CASE JobFindsCredentialInvalid(j)
    BY <2>1 DEF JobFindsCredentialInvalid, Block
  <2> QED BY <1>4, <2>1 DEF JobStep, InsertJob, CommitInsert, RunJob
<1>5. CASE UNCHANGED vars
  BY <1>5 DEF vars
<1> QED BY <1>1, <1>2, <1>3, <1>4, <1>5 DEF Next

\* The account service's invariants are inductive.
THEOREM AccountInvariant == Spec => []IInv
<1>1. Init => IInv
  BY PixivAccountAssumption DEF Init, IInv, TypeOK, StoredCookieWasAccepted, RequestCookie,
     PageBehind, ClearsWhatWasSeen, Row, Request, Page, State, Phase, JobState, NoRequest,
     MayHaveState
<1>2. IInv /\ [Next]_vars => IInv'
  BY CookieStep, PageStep DEF IInv
<1> QED BY <1>1, <1>2, PTL DEF Spec

\* Only a cookie Pixiv accepted for that very user is ever stored, however many
\* updates and validations overlap.
THEOREM OnlyAcceptedCookies == Spec => []StoredCookieWasAccepted
<1>1. IInv => StoredCookieWasAccepted
  BY DEF IInv
<1> QED BY <1>1, AccountInvariant, PTL

\* Clearing never deletes a cookie the operator's page did not show.
THEOREM ClearIsInformed == Spec => []ClearsWhatWasSeen
<1>1. IInv => ClearsWhatWasSeen
  BY DEF IInv
<1> QED BY <1>1, AccountInvariant, PTL

-----------------------------------------------------------------------------
(***************************************************************************)
(* Proofs about RequestGate, for any requests, permits and rates.  NoBurst *)
(* says nothing of the sleepers, so it is not inductive: the invariant     *)
(* counts with the starts of an interval those that are booked before its  *)
(* end, and leaves room for one more booking only while the next free      *)
(* start lies before its end.                                              *)
(***************************************************************************)

Place == {"outside", "permitted", "asleep", "running", "done"}

GateTypeOK ==
  /\ clock \in Nat
  /\ nextStart \in Nat
  /\ at \in [GateRequest -> [place : Place, start : Nat]]
  /\ starts \in [GateRequest -> Nat]

\* A request has started, or its mark lies beyond every interval.
StartedInThePast == \A r \in GateRequest : starts[r] <= clock \/ starts[r] = Horizon + Interval

\* A permit is kept from before the booking until the end.
PermitsSuffice == Cardinality(Inside) <= Concurrency

\* The requests that started in the interval from t, and the sleepers that were
\* booked before its end.
Due(t) ==
  {r \in GateRequest :
     \/ starts[r] >= t /\ starts[r] < t + Interval
     \/ at[r].place = "asleep" /\ at[r].start < t + Interval}

NoBurstAhead ==
  \A t \in 0 .. Horizon : t <= clock =>
    /\ Cardinality(Due(t)) <= Concurrency + 1
    /\ nextStart < t + Interval => Cardinality(Due(t)) <= Concurrency

GateInv == GateTypeOK /\ clock <= Horizon /\ StartedInThePast /\ PermitsSuffice /\ NoBurstAhead

-----------------------------------------------------------------------------
LEMMA GateSetsFinite ==
  ASSUME GateAssumption, NEW S \in SUBSET GateRequest
  PROVE  IsFiniteSet(S) /\ Cardinality(S) \in Nat
  BY FS_Subset, FS_CardinalityType DEF GateAssumption

LEMMA SubsetCounts ==
  ASSUME GateAssumption, NEW T \in SUBSET GateRequest, NEW S \in SUBSET T
  PROVE  Cardinality(S) <= Cardinality(T)
  BY GateSetsFinite, FS_Subset

\* A set that one request joins grows by one at most.
LEMMA OneMoreCounts ==
  ASSUME GateAssumption, NEW T \in SUBSET GateRequest, NEW r \in GateRequest,
         NEW S \in SUBSET (T \cup {r})
  PROVE  Cardinality(S) <= Cardinality(T) + 1
<1>1. Cardinality(T \cup {r}) <= Cardinality(T) + 1
  BY GateSetsFinite, FS_AddElement
<1>2. Cardinality(S) <= Cardinality(T \cup {r})
  BY SubsetCounts
<1>3. Cardinality(S) \in Nat /\ Cardinality(T) \in Nat /\ Cardinality(T \cup {r}) \in Nat
  BY GateSetsFinite
<1> QED BY <1>1, <1>2, <1>3

LEMMA GateTypeStep == GateTypeOK /\ GateAssumption /\ [GateNext]_gateVars => GateTypeOK'
<1> SUFFICES ASSUME GateTypeOK, GateAssumption, [GateNext]_gateVars PROVE GateTypeOK'
  OBVIOUS
<1> USE DEF GateTypeOK, GateAssumption
<1>0. ASSUME NEW r \in GateRequest, NEW place \in Place, NEW start \in Nat, MoveTo(r, place, start)
      PROVE  at' \in [GateRequest -> [place : Place, start : Nat]] /\ clock' = clock
  BY <1>0 DEF MoveTo, Position
<1>1. ASSUME NEW r \in GateRequest,
             TakePermit(r) \/ Wake(r) \/ EndRequest(r) \/ DropRequest(r)
      PROVE  GateTypeOK'
  <2>1. \E place \in Place : MoveTo(r, place, 0)
    BY <1>1 DEF TakePermit, Wake, EndRequest, DropRequest, Place
  <2>2. at' \in [GateRequest -> [place : Place, start : Nat]] /\ clock' = clock
    BY <1>0, <2>1
  <2> QED BY <1>1, <2>2 DEF TakePermit, Wake, EndRequest, DropRequest
<1>2. ASSUME NEW r \in GateRequest, BookStart(r) PROVE GateTypeOK'
  <2>1. Later(nextStart, clock) \in Nat
    BY DEF Later
  <2>2. at' \in [GateRequest -> [place : Place, start : Nat]] /\ clock' = clock
    BY <1>0, <1>2, <2>1 DEF BookStart, Place
  <2> QED BY <1>2, <2>1, <2>2 DEF BookStart
<1>3. CASE PassTime
  BY <1>3 DEF PassTime
<1>4. CASE UNCHANGED gateVars
  BY <1>4 DEF gateVars
<1> QED BY <1>1, <1>2, <1>3, <1>4 DEF GateNext

LEMMA PermitStep ==
  GateTypeOK /\ GateAssumption /\ PermitsSuffice /\ [GateNext]_gateVars => PermitsSuffice'
<1> SUFFICES ASSUME GateTypeOK, GateAssumption, PermitsSuffice, [GateNext]_gateVars
             PROVE  PermitsSuffice'
  OBVIOUS
<1>1. Cardinality(Inside) \in Nat /\ Cardinality(Inside') \in Nat /\ Concurrency \in Nat
  BY GateSetsFinite DEF Inside, GateAssumption
<1>2. ASSUME NEW r \in GateRequest, TakePermit(r) PROVE PermitsSuffice'
  <2>1. Inside' \subseteq Inside \cup {r}
    BY <1>2 DEF TakePermit, MoveTo, Inside, GateTypeOK
  <2>2. Cardinality(Inside') <= Cardinality(Inside) + 1
    BY <2>1, OneMoreCounts DEF Inside
  <2> QED BY <1>1, <1>2, <2>2 DEF TakePermit, Free, PermitsSuffice
<1>3. ASSUME Inside' \subseteq Inside PROVE PermitsSuffice'
  <2>1. Cardinality(Inside') <= Cardinality(Inside)
    BY <1>3, SubsetCounts DEF Inside
  <2> QED BY <1>1, <2>1 DEF PermitsSuffice
<1>4. ASSUME NEW r \in GateRequest, BookStart(r) \/ Wake(r) \/ EndRequest(r) \/ DropRequest(r)
      PROVE  Inside' \subseteq Inside
  BY <1>4 DEF BookStart, Wake, EndRequest, DropRequest, MoveTo, Position, Inside, GateTypeOK
<1>5. PassTime \/ UNCHANGED gateVars => Inside' \subseteq Inside
  BY DEF PassTime, gateVars, Inside
<1> QED BY <1>2, <1>3, <1>4, <1>5 DEF GateNext

LEMMA PastStep ==
  ASSUME GateTypeOK, GateAssumption, StartedInThePast, clock <= Horizon, [GateNext]_gateVars
  PROVE  StartedInThePast' /\ clock' <= Horizon
<1> USE DEF GateTypeOK, GateAssumption
<1>1. ASSUME NEW r \in GateRequest, Wake(r) PROVE StartedInThePast' /\ clock' <= Horizon
  BY <1>1 DEF Wake, MoveTo, StartedInThePast
<1>2. ASSUME NEW r \in GateRequest,
             TakePermit(r) \/ BookStart(r) \/ EndRequest(r) \/ DropRequest(r)
      PROVE  StartedInThePast' /\ clock' <= Horizon
  BY <1>2 DEF TakePermit, BookStart, EndRequest, DropRequest, MoveTo, StartedInThePast
<1>3. CASE PassTime
  BY <1>3 DEF PassTime, StartedInThePast
<1>4. CASE UNCHANGED gateVars
  BY <1>4 DEF gateVars, StartedInThePast
<1> QED BY <1>1, <1>2, <1>3, <1>4 DEF GateNext

LEMMA BurstStep ==
  ASSUME GateInv, GateAssumption, [GateNext]_gateVars
  PROVE  NoBurstAhead'
<1> SUFFICES ASSUME NEW t \in 0 .. Horizon, t <= clock'
             PROVE  /\ Cardinality(Due(t)') <= Concurrency + 1
                    /\ nextStart' < t + Interval => Cardinality(Due(t)') <= Concurrency
  BY DEF NoBurstAhead
<1>0. /\ clock \in Nat /\ nextStart \in Nat /\ Concurrency \in Nat /\ Interval \in Nat
      /\ t \in Nat /\ Horizon \in Nat
      /\ Cardinality(Due(t)) \in Nat /\ Cardinality(Due(t)') \in Nat
  BY GateSetsFinite DEF GateInv, GateTypeOK, GateAssumption, Due
<1>1. t <= clock => /\ Cardinality(Due(t)) <= Concurrency + 1
                    /\ nextStart < t + Interval => Cardinality(Due(t)) <= Concurrency
  BY DEF GateInv, NoBurstAhead
<1>2. ASSUME t <= clock, nextStart' = nextStart, Due(t)' \subseteq Due(t)
      PROVE  /\ Cardinality(Due(t)') <= Concurrency + 1
             /\ nextStart' < t + Interval => Cardinality(Due(t)') <= Concurrency
  <2>1. Cardinality(Due(t)') <= Cardinality(Due(t))
    BY <1>2, SubsetCounts DEF Due
  <2> QED BY <1>0, <1>1, <1>2, <2>1
<1>3. ASSUME NEW r \in GateRequest, TakePermit(r) \/ Wake(r) \/ EndRequest(r) \/ DropRequest(r)
      PROVE  clock' = clock /\ nextStart' = nextStart /\ Due(t)' \subseteq Due(t)
  <2>1. /\ clock' = clock /\ nextStart' = nextStart
        /\ \A q \in GateRequest \ {r} : at'[q] = at[q] /\ starts'[q] = starts[q]
        /\ at'[r].place # "asleep"
    BY <1>3 DEF TakePermit, Wake, EndRequest, DropRequest, MoveTo, Position, GateInv, GateTypeOK
  <2>2. \/ starts'[r] = starts[r]
        \/ starts'[r] = clock /\ at[r].place = "asleep" /\ at[r].start <= clock
    BY <1>3 DEF TakePermit, Wake, EndRequest, DropRequest, GateInv, GateTypeOK
  <2>3. at[r].start \in Nat
    BY DEF GateInv, GateTypeOK
  <2>4. r \in Due(t)' => r \in Due(t)
    BY <1>0, <2>1, <2>2, <2>3 DEF Due
  <2>5. \A q \in GateRequest \ {r} : q \in Due(t)' => q \in Due(t)
    BY <2>1 DEF Due
  <2> QED BY <2>1, <2>4, <2>5 DEF Due
<1>4. ASSUME NEW r \in GateRequest, BookStart(r)
      PROVE  /\ Cardinality(Due(t)') <= Concurrency + 1
             /\ nextStart' < t + Interval => Cardinality(Due(t)') <= Concurrency
  <2> DEFINE start == Later(nextStart, clock)
  <2>1. start \in Nat /\ start >= nextStart /\ start >= clock
    BY <1>0 DEF Later
  <2>2. /\ clock' = clock /\ starts' = starts /\ nextStart' = start + Interval
        /\ at' = [at EXCEPT ![r] = Position("asleep", start)]
    BY <1>4 DEF BookStart, MoveTo
  <2> HIDE DEF start
  <2>3. nextStart' >= t + Interval
    BY <1>0, <2>1, <2>2
  <2>4. at'[r].start = start /\ \A q \in GateRequest \ {r} : at'[q] = at[q]
    BY <2>2 DEF GateInv, GateTypeOK, Position
  <2>5. Due(t)' \subseteq Due(t) \cup {r}
    BY <2>2, <2>4 DEF Due
  <2>6. CASE start < t + Interval
    <3>1. Cardinality(Due(t)) <= Concurrency
      BY <1>0, <1>1, <2>1, <2>2, <2>6
    <3>2. Cardinality(Due(t)') <= Cardinality(Due(t)) + 1
      BY <2>5, OneMoreCounts DEF Due
    <3> QED BY <1>0, <2>1, <2>2, <2>3, <3>1, <3>2
  <2>7. CASE ~(start < t + Interval)
    <3>1. Due(t)' \subseteq Due(t)
      BY <2>2, <2>4, <2>5, <2>7 DEF Due
    <3>2. Cardinality(Due(t)') <= Cardinality(Due(t))
      BY <3>1, SubsetCounts DEF Due
    <3> QED BY <1>0, <1>1, <2>1, <2>2, <2>3, <3>2
  <2> QED BY <2>6, <2>7
<1>5. CASE PassTime
  <2>1. clock' = clock + 1 /\ UNCHANGED <<nextStart, at, starts>> /\ clock < Horizon
    BY <1>5 DEF PassTime
  <2>2. CASE t <= clock
    BY <1>2, <2>1, <2>2 DEF Due
  <2>3. CASE t = clock + 1
    <3>1. Due(t)' \subseteq Inside
      <4>1. \A r \in GateRequest : starts[r] \in Nat /\ (starts[r] <= clock \/ starts[r] = Horizon + Interval)
        BY DEF GateInv, GateTypeOK, StartedInThePast
      <4> QED BY <1>0, <2>1, <2>3, <4>1 DEF Due, Inside
    <3>2. Cardinality(Due(t)') <= Cardinality(Inside) /\ Cardinality(Inside) \in Nat
      BY <3>1, SubsetCounts, GateSetsFinite DEF Inside
    <3> QED BY <1>0, <3>2 DEF GateInv, PermitsSuffice
  <2> QED BY <1>0, <2>1, <2>2, <2>3
<1>6. CASE UNCHANGED gateVars
  BY <1>2, <1>6 DEF gateVars, Due
<1> QED BY <1>2, <1>3, <1>4, <1>5, <1>6 DEF GateNext

\* The starts of an interval and those booked before its end fit the rate, and
\* a further one is only booked before its end while there is room (limit.rs).
THEOREM GateInvariant == GateSpec => []GateInv
<1>1. GateInit => GateInv
  <2> SUFFICES ASSUME GateInit PROVE GateInv
    OBVIOUS
  <2> USE GateAssumption DEF GateAssumption
  <2>1. GateTypeOK /\ clock <= Horizon /\ StartedInThePast
    BY DEF GateInit, GateTypeOK, StartedInThePast, Position, Place
  <2>2. Inside = {}
    BY DEF GateInit, Inside, Position
  <2>3. \A t \in 0 .. Horizon : t <= clock => Due(t) = {}
    BY DEF GateInit, Due, Position
  <2> QED BY <2>1, <2>2, <2>3, FS_EmptySet DEF GateInv, PermitsSuffice, NoBurstAhead
<1>2. GateInv /\ [GateNext]_gateVars => GateInv'
  BY GateAssumption, GateTypeStep, PermitStep, PastStep, BurstStep DEF GateInv
<1> QED BY <1>1, <1>2, PTL DEF GateSpec

\* Requests to Pixiv do not start in a burst, whatever their number, the permits
\* and the rate.
THEOREM StartsAreSpread == GateSpec => []NoBurst
<1>1. GateInv => NoBurst
  <2> SUFFICES ASSUME GateInv, NEW t \in 0 .. Horizon
               PROVE  Cardinality(Within(t)) <= Concurrency + 1
    BY DEF NoBurst
  <2> USE GateAssumption DEF GateAssumption
  <2>0. clock \in Nat /\ t \in Nat
    BY DEF GateInv, GateTypeOK
  <2>1. CASE t <= clock
    <3>1. Within(t) \subseteq Due(t)
      BY DEF Within, Due
    <3>2. Cardinality(Within(t)) <= Cardinality(Due(t))
      BY <3>1, SubsetCounts DEF Due
    <3>3. Cardinality(Within(t)) \in Nat /\ Cardinality(Due(t)) \in Nat
      BY GateSetsFinite DEF Within, Due
    <3>4. Cardinality(Due(t)) <= Concurrency + 1
      BY <2>1 DEF GateInv, NoBurstAhead
    <3> QED BY <3>2, <3>3, <3>4
  <2>2. CASE ~(t <= clock)
    <3>1. \A r \in GateRequest : starts[r] \in Nat /\ (starts[r] <= clock \/ starts[r] = Horizon + Interval)
      BY DEF GateInv, GateTypeOK, StartedInThePast
    <3>2. Within(t) = {}
      BY <2>0, <2>2, <3>1 DEF Within
    <3> QED BY <3>2, FS_EmptySet
  <2> QED BY <2>1, <2>2
<1> QED BY <1>1, GateInvariant, PTL

-----------------------------------------------------------------------------
(***************************************************************************)
(* Proofs about PixivMirror, for any works, artists, pages and failures:   *)
(* that a copy which has settled is what Pixiv last showed, and that an    *)
(* excluded artist stays excluded through every listing. A listing that is *)
(* under way may already be wrong, so the invariant says of each how much  *)
(* of it can still be: what was read while nothing changed is right, and   *)
(* what changed since has marked it.                                       *)
(***************************************************************************)

(* Types *)

Reader(S) == [step : Visibility \cup {"idle", "write"}, offset : Nat,
              seen : SUBSET (Visibility \X S), still : BOOLEAN]
BookmarkRow == [active : BOOLEAN, visibility : Visibility, id : Nat]
CommandRow ==
  [kind : {"none", "add", "remove", "follow", "unfollow"},
   step : {"idle", "send", "project", "local", "detail", "read", "follow", "verify", "sync"},
   item : Work \cup Artist \cup {"none"}, visibility : Visibility, id : Nat]
ItemFits(made) ==
  /\ made.kind \in {"add", "remove"} => made.item \in Work
  /\ made.kind \in {"follow", "unfollow"} => made.item \in Artist

MirrorTypeOK ==
  /\ marks \in [Visibility -> Seq(Work)] /\ markId \in [Work -> Nat]
  /\ follows \in [Visibility -> Seq(Artist)]
  /\ archived \in SUBSET Work /\ bookmark \in [Work -> BookmarkRow]
  /\ author \in [Artist -> Visibility \cup {"none"}] /\ excluded \in SUBSET Artist
  /\ command \in [Command -> CommandRow] /\ \A c \in Command : ItemFits(command[c])
  /\ detail \in [work : Work \cup {"none"}, found : BookmarkRow, still : BOOLEAN]
  /\ detail # NoDetail => detail.work \in Work
  /\ listing \in Reader(Work) /\ refresh \in [Refresher -> Reader(Artist)]
  /\ settled \in [marks : BOOLEAN, follows : BOOLEAN]

-----------------------------------------------------------------------------
(* Pixiv's lists *)

LEMMA DroppedType == ASSUME NEW S, NEW list \in Seq(S), NEW x PROVE Dropped(list, x) \in Seq(S)
<1>1. CASE \E i \in DOMAIN list : list[i] = x
  <2>1. PICK i \in DOMAIN list : i = CHOOSE j \in DOMAIN list : list[j] = x
    BY <1>1
  <2>2. i \in 1 .. Len(list)
    OBVIOUS
  <2>3. SubSeq(list, 1, i - 1) \in Seq(S) /\ SubSeq(list, i + 1, Len(list)) \in Seq(S)
    BY <2>2
  <2>4. Dropped(list, x) = SubSeq(list, 1, i - 1) \o SubSeq(list, i + 1, Len(list))
    BY <1>1, <2>1 DEF Dropped, RemoveAt
  <2> QED BY <2>3, <2>4
<1>2. CASE ~\E i \in DOMAIN list : list[i] = x
  BY <1>2 DEF Dropped
<1> QED BY <1>1, <1>2

LEMMA ListsType ==
  ASSUME NEW S, NEW lists \in [Visibility -> Seq(S)], NEW x \in S, NEW v \in Visibility
  PROVE  Without(lists, x) \in [Visibility -> Seq(S)] /\ With(lists, x, v) \in [Visibility -> Seq(S)]
<1>1. Without(lists, x) \in [Visibility -> Seq(S)]
  BY DroppedType DEF Without
<1>2. PICK others \in [Visibility -> Seq(S)] : others = Without(lists, x)
  BY <1>1
<1>3. PICK new \in Seq(S) : new = <<x>> \o others[v]
  <2>1. others[v] \in Seq(S) /\ <<x>> \in Seq(S)
    OBVIOUS
  <2>2. <<x>> \o others[v] \in Seq(S)
    BY <2>1
  <2> QED BY <2>2
<1>4. With(lists, x, v) = [others EXCEPT ![v] = new]
  BY <1>2, <1>3 DEF With
<1> QED BY <1>1, <1>4

\* Of an artist or a work: in which list Pixiv shows it.
LEMMA ShownIs ==
  ASSUME NEW S, NEW lists \in [Visibility -> Seq(S)], NEW x
  PROVE  Shown(lists, x) =
           IF \E i \in 1 .. Len(lists["private"]) : lists["private"][i] = x THEN "private"
           ELSE IF \E i \in 1 .. Len(lists["public"]) : lists["public"][i] = x THEN "public"
           ELSE "none"
<1>1. lists["private"] \in Seq(S) /\ lists["public"] \in Seq(S)
  BY DEF Visibility
<1> QED BY <1>1 DEF Shown

-----------------------------------------------------------------------------
(* What a listing has read *)

\* How many entries of a list it has been given.
Turns(reader, lists, v) ==
  IF reader.step = v THEN reader.offset
  ELSE IF reader.step = "write" \/ (reader.step = "private" /\ v = "public") THEN Len(lists[v])
  ELSE 0
\* Unless Pixiv changed, it knows the entries of the pages turned, no others.
KnowsPages(reader, lists) ==
  reader.still /\ reader.step # "idle" =>
    \A v \in Visibility :
      /\ Turns(reader, lists, v) <= Len(lists[v])
      /\ \A x : <<v, x>> \in reader.seen <=> \E i \in 1 .. Turns(reader, lists, v) : lists[v][i] = x

LEMMA StartsKnowing ==
  ASSUME NEW S, NEW lists \in [Visibility -> Seq(S)]
  PROVE  /\ StartsListing \in Reader(S) /\ StartsListing.still /\ StartsListing.step = "public"
         /\ KnowsPages(StartsListing, lists)
         /\ NotListing \in Reader(S) /\ KnowsPages(NotListing, lists) /\ NotListing.step = "idle"
<1>1. NotListing \in Reader(S) /\ NotListing.step = "idle"
  BY DEF NotListing, Reader
<1>2. \A v \in Visibility : Len(lists[v]) \in Nat
  OBVIOUS
<1>3. /\ StartsListing \in Reader(S) /\ StartsListing.still /\ StartsListing.step = "public"
      /\ StartsListing.offset = 0 /\ StartsListing.seen = {}
  BY DEF StartsListing, NotListing, Reader, Visibility
<1>4. KnowsPages(StartsListing, lists)
  <2>1. \A v \in Visibility : Turns(StartsListing, lists, v) = 0
    BY <1>3 DEF Turns
  <2> QED BY <1>2, <1>3, <2>1 DEF KnowsPages
<1> QED BY <1>1, <1>3, <1>4 DEF KnowsPages

LEMMA ForgetsPages ==
  ASSUME NEW S, NEW reader \in Reader(S), NEW lists
  PROVE  /\ [reader EXCEPT !.still = FALSE] \in Reader(S)
         /\ ~[reader EXCEPT !.still = FALSE].still
         /\ [reader EXCEPT !.still = FALSE].step = reader.step
         /\ KnowsPages([reader EXCEPT !.still = FALSE], lists)
  BY DEF Reader, KnowsPages

LEMMA TurnedIs ==
  ASSUME NEW S, NEW lists \in [Visibility -> Seq(S)], NEW reader \in Reader(S), Reading(reader),
         PixivMirrorAssumption
  PROVE  LET v == reader.step
             end == reader.offset + PageSize
             next == Turned(reader, lists)
         IN /\ next \in Reader(S) /\ next.still = reader.still /\ next.step # "idle"
            /\ next.seen = reader.seen
                 \cup {<<v, lists[v][i]>> : i \in (reader.offset + 1 .. end) \cap (1 .. Len(lists[v]))}
            /\ IF end < Len(lists[v]) THEN next.offset = end /\ next.step = v
               ELSE next.offset = 0 /\ next.step = IF v = "public" THEN "private" ELSE "write"
<1> DEFINE v == reader.step
           end == reader.offset + PageSize
<1>1. v \in Visibility /\ lists[v] \in Seq(S) /\ reader.offset \in Nat /\ PageSize \in Nat
      /\ end \in Nat
  BY DEF Reading, Reader, PixivMirrorAssumption
<1>2. DOMAIN lists[v] = 1 .. Len(lists[v])
  BY <1>1
<1>3. PICK part : part = {<<v, lists[v][i]>> : i \in (reader.offset + 1 .. end) \cap (1 .. Len(lists[v]))}
  OBVIOUS
<1>4. part \in SUBSET (Visibility \X S)
  BY <1>1, <1>3
<1>5. Turned(reader, lists) =
        [reader EXCEPT !.seen = @ \cup part,
                       !.offset = IF end < Len(lists[v]) THEN end ELSE 0,
                       !.step = IF end < Len(lists[v]) THEN @
                                ELSE IF @ = "public" THEN "private" ELSE "write"]
  BY <1>2, <1>3 DEF Turned
<1>6. reader.seen \cup part \in SUBSET (Visibility \X S)
  BY <1>4 DEF Reader
<1> HIDE DEF end
<1>7. Turned(reader, lists) \in Reader(S)
  <2>1. PICK seen \in SUBSET (Visibility \X S) : seen = reader.seen \cup part
    BY <1>6
  <2>2. PICK offset \in Nat : offset = IF end < Len(lists[v]) THEN end ELSE 0
    BY <1>1
  <2>3. PICK step \in Visibility \cup {"idle", "write"} :
          step = IF end < Len(lists[v]) THEN v ELSE IF v = "public" THEN "private" ELSE "write"
    BY <1>1 DEF Visibility
  <2>4. Turned(reader, lists) = [reader EXCEPT !.seen = seen, !.offset = offset, !.step = step]
    BY <1>5, <2>1, <2>2, <2>3
  <2> QED BY <2>4 DEF Reader
<1>8. /\ Turned(reader, lists).still = reader.still
      /\ Turned(reader, lists).step # "idle"
      /\ Turned(reader, lists).seen = reader.seen \cup part
      /\ IF end < Len(lists[v]) THEN Turned(reader, lists).offset = end /\ Turned(reader, lists).step = v
         ELSE /\ Turned(reader, lists).offset = 0
              /\ Turned(reader, lists).step = IF v = "public" THEN "private" ELSE "write"
  BY <1>1, <1>5 DEF Reader, Visibility
<1> QED BY <1>3, <1>7, <1>8 DEF end

LEMMA TurnedKnows ==
  ASSUME NEW S, NEW lists \in [Visibility -> Seq(S)], NEW reader \in Reader(S), Reading(reader),
         PixivMirrorAssumption, KnowsPages(reader, lists)
  PROVE  KnowsPages(Turned(reader, lists), lists)
<1> DEFINE v == reader.step
           end == reader.offset + PageSize
<1>1. PICK next : next = Turned(reader, lists)
  OBVIOUS
<1>2. /\ next.still = reader.still /\ next.step # "idle"
      /\ next.seen = reader.seen
           \cup {<<v, lists[v][i]>> : i \in (reader.offset + 1 .. end) \cap (1 .. Len(lists[v]))}
      /\ IF end < Len(lists[v]) THEN next.offset = end /\ next.step = v
         ELSE next.offset = 0 /\ next.step = IF v = "public" THEN "private" ELSE "write"
  BY <1>1, TurnedIs
<1>3. /\ v \in {"public", "private"} /\ reader.offset \in Nat /\ end \in Nat /\ PageSize \in Nat \ {0}
      /\ Len(lists["public"]) \in Nat /\ Len(lists["private"]) \in Nat
      /\ lists["public"] \in Seq(S) /\ lists["private"] \in Seq(S)
  BY DEF Reading, Reader, PixivMirrorAssumption, Visibility
<1>4. SUFFICES ASSUME reader.still, NEW u \in Visibility
               PROVE  /\ Turns(next, lists, u) <= Len(lists[u])
                      /\ \A x : <<u, x>> \in next.seen
                                  <=> \E i \in 1 .. Turns(next, lists, u) : lists[u][i] = x
  BY <1>1, <1>2 DEF KnowsPages
<1>5. /\ Turns(reader, lists, u) <= Len(lists[u])
      /\ \A x : <<u, x>> \in reader.seen <=> \E i \in 1 .. Turns(reader, lists, u) : lists[u][i] = x
  BY <1>3, <1>4 DEF KnowsPages
<1> HIDE DEF end
<1>6. CASE u # v
  <2>1. Turns(next, lists, u) = Turns(reader, lists, u)
    BY <1>2, <1>3, <1>6 DEF Turns, Visibility
  <2>2. \A x : <<u, x>> \in next.seen <=> <<u, x>> \in reader.seen
    BY <1>2, <1>6
  <2> QED BY <1>5, <2>1, <2>2
<1>7. CASE u = v
  <2>1. Turns(reader, lists, u) = reader.offset /\ reader.offset <= Len(lists[u])
    BY <1>5, <1>7 DEF Turns
  <2>2. Turns(next, lists, u) = IF end < Len(lists[u]) THEN end ELSE Len(lists[u])
    BY <1>2, <1>3, <1>7 DEF Turns
  <2>3. Len(lists[u]) \in Nat
    BY <1>3, <1>7
  <2>4. ASSUME NEW x
        PROVE  <<u, x>> \in next.seen <=> \E i \in 1 .. Turns(next, lists, u) : lists[u][i] = x
    <3>1. <<u, x>> \in next.seen <=>
            \/ \E i \in 1 .. reader.offset : lists[u][i] = x
            \/ \E i \in (reader.offset + 1 .. end) \cap (1 .. Len(lists[u])) : lists[u][i] = x
      BY <1>2, <1>5, <1>7, <2>1
    <3>2. \A i : i \in 1 .. Turns(next, lists, u) <=>
                   \/ i \in 1 .. reader.offset
                   \/ i \in (reader.offset + 1 .. end) \cap (1 .. Len(lists[u]))
      BY <1>3, <2>1, <2>2, <2>3 DEF end
    <3> QED BY <3>1, <3>2
  <2>5. Turns(next, lists, u) <= Len(lists[u])
    BY <1>3, <2>2, <2>3
  <2> QED BY <2>4, <2>5
<1> QED BY <1>6, <1>7

\* A listing that Pixiv did not change under has seen what Pixiv shows.
LEMMA SeenIsShown ==
  ASSUME NEW S, NEW lists \in [Visibility -> Seq(S)], NEW reader, NEW x,
         KnowsPages(reader, lists), reader.still, reader.step = "write"
  PROVE  Seen(reader, x) = Shown(lists, x)
<1>1. \A v \in Visibility : <<v, x>> \in reader.seen <=> \E i \in 1 .. Len(lists[v]) : lists[v][i] = x
  BY DEF KnowsPages, Turns, Visibility
<1> QED BY <1>1, ShownIs DEF Seen, Visibility

-----------------------------------------------------------------------------
(* Every step keeps the types *)

MarksTypes ==
  /\ marks \in [Visibility -> Seq(Work)] /\ markId \in [Work -> Nat]
  /\ archived \in SUBSET Work /\ bookmark \in [Work -> BookmarkRow]
  /\ detail \in [work : Work \cup {"none"}, found : BookmarkRow, still : BOOLEAN]
  /\ detail # NoDetail => detail.work \in Work
  /\ listing \in Reader(Work)
FollowsTypes ==
  /\ follows \in [Visibility -> Seq(Artist)]
  /\ author \in [Artist -> Visibility \cup {"none"}] /\ excluded \in SUBSET Artist
  /\ refresh \in [Refresher -> Reader(Artist)]
CommandTypes == command \in [Command -> CommandRow] /\ \A c \in Command : ItemFits(command[c])
SettledTypes == settled \in [marks : BOOLEAN, follows : BOOLEAN]

LEMMA MirrorTypes ==
  MirrorTypeOK <=> MarksTypes /\ FollowsTypes /\ CommandTypes /\ SettledTypes
  BY DEF MirrorTypeOK, MarksTypes, FollowsTypes, CommandTypes, SettledTypes

LEMMA MarkOfType == ASSUME MarksTypes, NEW w \in Work PROVE MarkOf(w) \in BookmarkRow
<1>1. Shown(marks, w) \in {"private", "public", "none"} /\ markId[w] \in Nat
  BY DEF Shown, MarksTypes
<1> QED BY <1>1 DEF MarkOf, IsMarked, BookmarkRow, Visibility, NoId

\* A change of Pixiv's bookmarks.
LEMMA MarksBecomeType ==
  ASSUME MarksTypes, SettledTypes, NEW lists \in [Visibility -> Seq(Work)], NEW ids \in [Work -> Nat],
         MarksBecome(lists, ids), UNCHANGED <<archived, bookmark>>
  PROVE  /\ MarksTypes' /\ SettledTypes' /\ UNCHANGED follows
         /\ ~settled'.marks /\ settled'.follows = settled.follows
         /\ ~listing'.still /\ ~detail'.still
<1>1. marks' = lists /\ markId' = ids /\ UNCHANGED <<archived, bookmark, follows>>
      /\ listing' = [listing EXCEPT !.still = FALSE]
      /\ detail' = [detail EXCEPT !.still = FALSE]
      /\ settled' = [settled EXCEPT !.marks = FALSE]
  BY DEF MarksBecome
<1>2. detail \in [work : Work \cup {"none"}, found : BookmarkRow, still : BOOLEAN]
      /\ listing \in Reader(Work) /\ settled \in [marks : BOOLEAN, follows : BOOLEAN]
  BY DEF MarksTypes, SettledTypes
<1>3. listing' \in Reader(Work) /\ ~listing'.still
  BY <1>1, <1>2 DEF Reader
<1>4. settled' \in [marks : BOOLEAN, follows : BOOLEAN] /\ ~settled'.marks
      /\ settled'.follows = settled.follows
  BY <1>1, <1>2
<1>5. detail' \in [work : Work \cup {"none"}, found : BookmarkRow, still : BOOLEAN]
      /\ detail'.work = detail.work /\ ~detail'.still
  BY <1>1, <1>2
<1>6. detail = NoDetail => detail' = NoDetail
  <2>1. NoDetail.still = FALSE
    BY DEF NoDetail
  <2> QED BY <1>1, <1>2, <2>1
<1> QED BY <1>1, <1>3, <1>4, <1>5, <1>6 DEF MarksTypes, SettledTypes

LEMMA MarkAddedType ==
  ASSUME MarksTypes, SettledTypes, NEW w \in Work, NEW v \in Visibility, MarkAdded(w, v),
         UNCHANGED <<archived, bookmark>>
  PROVE  /\ MarksTypes' /\ SettledTypes' /\ UNCHANGED follows
         /\ ~settled'.marks /\ settled'.follows = settled.follows
         /\ ~listing'.still /\ ~detail'.still
<1>1. PICK n \in Nat : n = markId[w] + 1
  BY DEF MarksTypes
<1>2. PICK ids \in [Work -> Nat] : ids = IF IsMarked(w) THEN markId ELSE [markId EXCEPT ![w] = @ + 1]
  <2>1. [markId EXCEPT ![w] = n] \in [Work -> Nat]
    BY DEF MarksTypes
  <2> QED BY <1>1, <2>1 DEF MarksTypes
<1>3. PICK lists \in [Visibility -> Seq(Work)] : lists = With(marks, w, v)
  BY ListsType DEF MarksTypes
<1>4. MarksBecome(lists, ids)
  BY <1>2, <1>3 DEF MarkAdded
<1> QED BY <1>4, MarksBecomeType

LEMMA MarkRemovedType ==
  ASSUME MarksTypes, SettledTypes, NEW w \in Work, MarkRemoved(w), UNCHANGED <<archived, bookmark>>
  PROVE  /\ MarksTypes' /\ SettledTypes' /\ UNCHANGED follows
         /\ ~settled'.marks /\ settled'.follows = settled.follows
         /\ ~listing'.still /\ ~detail'.still
<1>1. PICK lists \in [Visibility -> Seq(Work)] : lists = Without(marks, w)
  <2>1. "public" \in Visibility
    BY DEF Visibility
  <2> QED BY <2>1, ListsType DEF MarksTypes
<1>2. MarksBecome(lists, markId)
  BY <1>1 DEF MarkRemoved
<1> QED BY <1>2, MarksBecomeType DEF MarksTypes

\* A change of the artists followed on Pixiv.
LEMMA FollowsBecomeType ==
  ASSUME FollowsTypes, SettledTypes, NEW lists \in [Visibility -> Seq(Artist)],
         FollowsBecome(lists), UNCHANGED <<author, excluded>>
  PROVE  /\ FollowsTypes' /\ SettledTypes' /\ UNCHANGED <<marks, markId>>
         /\ ~settled'.follows /\ settled'.marks = settled.marks
         /\ \A r \in Refresher : ~refresh'[r].still /\ refresh'[r].step = refresh[r].step
<1>1. follows' = lists /\ UNCHANGED <<author, excluded, marks, markId>>
      /\ refresh' = [r \in Refresher |-> [refresh[r] EXCEPT !.still = FALSE]]
      /\ settled' = [settled EXCEPT !.follows = FALSE]
  BY DEF FollowsBecome
<1>2. settled \in [marks : BOOLEAN, follows : BOOLEAN] /\ refresh \in [Refresher -> Reader(Artist)]
  BY DEF FollowsTypes, SettledTypes
<1>3. settled' \in [marks : BOOLEAN, follows : BOOLEAN] /\ ~settled'.follows
      /\ settled'.marks = settled.marks
  BY <1>1, <1>2
<1>4. \A r \in Refresher :
        refresh'[r] \in Reader(Artist) /\ ~refresh'[r].still /\ refresh'[r].step = refresh[r].step
  <2> SUFFICES ASSUME NEW r \in Refresher
               PROVE  /\ refresh'[r] \in Reader(Artist) /\ ~refresh'[r].still
                      /\ refresh'[r].step = refresh[r].step
    OBVIOUS
  <2>1. PICK reader \in Reader(Artist) : reader = refresh[r]
    BY <1>2
  <2>2. refresh'[r] = [reader EXCEPT !.still = FALSE]
    BY <1>1, <2>1
  <2> QED BY <2>1, <2>2, ForgetsPages
<1>5. refresh' \in [Refresher -> Reader(Artist)]
  BY <1>1, <1>4
<1> QED BY <1>1, <1>3, <1>4, <1>5 DEF FollowsTypes, SettledTypes

\* A command goes on, and keeps what it is about.
LEMMA CommandGoes ==
  ASSUME CommandTypes, NEW c \in Command, NEW made \in CommandRow, ItemFits(made),
         command' = [command EXCEPT ![c] = made]
  PROVE  CommandTypes'
<1>1. command' \in [Command -> CommandRow]
  BY DEF CommandTypes
<1>2. \A d \in Command : ItemFits(command'[d])
  BY DEF CommandTypes
<1> QED BY <1>1, <1>2 DEF CommandTypes

LEMMA CommandStepped ==
  ASSUME CommandTypes, NEW c \in Command,
         NEW next \in {"send", "project", "local", "detail", "read", "follow", "verify", "sync"},
         NEW id \in Nat,
         command' = [command EXCEPT ![c] = [command[c] EXCEPT !.step = next, !.id = id]]
  PROVE  /\ CommandTypes' /\ command'[c].kind = command[c].kind
         /\ \A d \in Command : command'[d].kind = command[d].kind
<1>1. PICK old \in CommandRow : old = command[c] /\ ItemFits(old)
  BY DEF CommandTypes
<1>2. PICK made : made = [old EXCEPT !.step = next, !.id = id]
  OBVIOUS
<1>3. made \in CommandRow /\ made.kind = old.kind /\ made.item = old.item
  BY <1>2 DEF CommandRow
<1>4. ItemFits(made)
  BY <1>1, <1>3 DEF ItemFits
<1>5. command' = [command EXCEPT ![c] = made]
  BY <1>1, <1>2
<1>6. CommandTypes'
  BY <1>3, <1>4, <1>5, CommandGoes
<1>7. \A d \in Command : command'[d].kind = command[d].kind
  BY <1>1, <1>3, <1>5 DEF CommandTypes
<1> QED BY <1>6, <1>7

LEMMA GoType ==
  ASSUME CommandTypes, NEW c \in Command,
         NEW next \in {"send", "project", "local", "detail", "read", "follow", "verify", "sync"},
         Go(c, next)
  PROVE  CommandTypes' /\ \A d \in Command : command'[d].kind = command[d].kind
<1>1. PICK old \in CommandRow : old = command[c] /\ ItemFits(old)
  BY DEF CommandTypes
<1>2. PICK made : made = [old EXCEPT !.step = next]
  OBVIOUS
<1>3. made \in CommandRow /\ made.kind = old.kind /\ made.item = old.item
  BY <1>2 DEF CommandRow
<1>4. ItemFits(made)
  BY <1>1, <1>3 DEF ItemFits
<1>5. command' = [command EXCEPT ![c] = made]
  BY <1>1, <1>2 DEF Go
<1>6. CommandTypes'
  BY <1>3, <1>4, <1>5, CommandGoes
<1>7. \A d \in Command : command'[d].kind = command[d].kind
  BY <1>1, <1>3, <1>5 DEF CommandTypes
<1> QED BY <1>6, <1>7

LEMMA DoneType ==
  ASSUME CommandTypes, NEW c \in Command, Done(c)
  PROVE  /\ CommandTypes'
         /\ \A d \in Command : command'[d].kind \in {command[d].kind, "none"}
<1>1. NoCommand \in CommandRow /\ ItemFits(NoCommand) /\ NoCommand.kind = "none"
  BY DEF NoCommand, CommandRow, ItemFits, Visibility, NoId
<1>2. command' = [command EXCEPT ![c] = NoCommand]
  BY DEF Done
<1>3. CommandTypes'
  BY <1>1, <1>2, CommandGoes
<1>4. \A d \in Command : command'[d].kind \in {command[d].kind, "none"}
  BY <1>1, <1>2 DEF CommandTypes
<1> QED BY <1>3, <1>4
-----------------------------------------------------------------------------
(* The inductive invariant *)

\* Once settled, no writer is left that read Pixiv before it changed.
MarksInv ==
  /\ MarksTypes
  /\ settled.marks => /\ MarksMirrored /\ NoMarkWriter
                      /\ listing.step = "idle" \/ listing.still
  /\ detail.still => detail.found = MarkOf(detail.work)
  /\ KnowsPages(listing, marks)
FollowsInv ==
  /\ FollowsTypes
  /\ settled.follows => /\ FollowsMirrored /\ \A c \in Command : ~IsFollowCommand(c)
                        /\ \A r \in Refresher : refresh[r].step = "idle" \/ refresh[r].still
  /\ \A r \in Refresher : KnowsPages(refresh[r], follows)
MirrorInv == MarksInv /\ FollowsInv /\ CommandTypes /\ SettledTypes

LEMMA MarksReset ==
  ASSUME MarksTypes', ~settled'.marks, ~listing'.still, ~detail'.still
  PROVE  MarksInv'
  BY DEF MarksInv, KnowsPages

MarkCommand(c) == command[c].kind \in {"add", "remove"}

LEMMA MarksStay ==
  ASSUME MarksInv, UNCHANGED <<marks, markId, archived, bookmark, listing, detail>>,
         settled'.marks => settled.marks /\ \A c \in Command : MarkCommand(c)' => MarkCommand(c)
  PROVE  MarksInv'
<1>1. MarksTypes' /\ KnowsPages(listing, marks)'
  <2>1. MarksTypes'
    BY DEF MarksInv, MarksTypes
  <2>2. KnowsPages(listing, marks)'
    BY DEF MarksInv, KnowsPages, Turns
  <2> QED BY <2>1, <2>2
<1>2. ASSUME settled'.marks
      PROVE  (MarksMirrored /\ NoMarkWriter /\ (listing.step = "idle" \/ listing.still))'
  <2>1. MarksMirrored /\ NoMarkWriter /\ (listing.step = "idle" \/ listing.still)
    BY <1>2 DEF MarksInv
  <2>2. MarksMirrored'
    BY <2>1 DEF MarksMirrored, IsMarked, Shown
  <2>3. NoMarkWriter'
    BY <1>2, <2>1 DEF NoMarkWriter, MarkCommand, NoDetail
  <2> QED BY <2>1, <2>2, <2>3
<1>3. detail'.still => detail'.found = MarkOf(detail.work)'
  <2>1. detail.still => detail.found = MarkOf(detail.work)
    BY DEF MarksInv
  <2>2. MarkOf(detail.work)' = MarkOf(detail.work)
    BY DEF MarkOf, IsMarked, Shown
  <2> QED BY <2>1, <2>2
<1> QED BY <1>1, <1>2, <1>3 DEF MarksInv

LEMMA FollowsStay ==
  ASSUME FollowsInv, UNCHANGED <<follows, author, refresh>>, excluded' \in SUBSET Artist,
         settled'.follows => /\ settled.follows
                             /\ \A c \in Command : IsFollowCommand(c)' => IsFollowCommand(c)
  PROVE  FollowsInv'
<1>1. FollowsTypes'
  BY DEF FollowsInv, FollowsTypes
<1>2. \A r \in Refresher : KnowsPages(refresh[r], follows)'
  BY DEF FollowsInv, KnowsPages, Turns
<1>3. ASSUME settled'.follows
      PROVE  /\ FollowsMirrored' /\ \A c \in Command : ~IsFollowCommand(c)'
             /\ \A r \in Refresher : refresh'[r].step = "idle" \/ refresh'[r].still
  <2>1. /\ FollowsMirrored /\ \A c \in Command : ~IsFollowCommand(c)
        /\ \A r \in Refresher : refresh[r].step = "idle" \/ refresh[r].still
    BY <1>3 DEF FollowsInv
  <2>2. FollowsMirrored'
    BY <2>1 DEF FollowsMirrored, Followed, Shown
  <2> QED BY <1>3, <2>1, <2>2
<1> QED BY <1>1, <1>2, <1>3 DEF FollowsInv

LEMMA MirrorInitInv == MirrorInit => MirrorInv
<1> SUFFICES ASSUME MirrorInit PROVE MirrorInv
  OBVIOUS
<1> USE DEF MirrorInit
<1>1. MarksTypes
  <2>1. bookmark \in [Work -> BookmarkRow] /\ markId \in [Work -> Nat]
    BY DEF NoBookmark, NoId, BookmarkRow, Visibility
  <2>2. detail \in [work : Work \cup {"none"}, found : BookmarkRow, still : BOOLEAN]
    BY DEF NoDetail, NoBookmark, NoId, BookmarkRow, Visibility
  <2>3. listing \in Reader(Work)
    BY DEF NotListing, Reader
  <2>4. marks \in [Visibility -> Seq(Work)]
    OBVIOUS
  <2> QED BY <2>1, <2>2, <2>3, <2>4 DEF MarksTypes
<1>2. FollowsTypes
  <2>1. refresh \in [Refresher -> Reader(Artist)]
    BY DEF NotListing, Reader
  <2>2. follows \in [Visibility -> Seq(Artist)]
    OBVIOUS
  <2> QED BY <2>1, <2>2 DEF FollowsTypes
<1>3. CommandTypes
  BY DEF CommandTypes, CommandRow, NoCommand, ItemFits, Visibility, NoId
<1>4. SettledTypes
  BY DEF SettledTypes
<1>5. ~settled.marks /\ ~settled.follows /\ ~listing.still /\ ~detail.still
      /\ \A r \in Refresher : ~refresh[r].still
  BY DEF NotListing, NoDetail
<1>6. MarksInv
  BY <1>1, <1>5 DEF MarksInv, KnowsPages
<1>7. FollowsInv
  BY <1>2, <1>5 DEF FollowsInv, KnowsPages
<1> QED BY <1>3, <1>4, <1>6, <1>7 DEF MirrorInv

-----------------------------------------------------------------------------
(* The owner's steps and the operator's *)

LEMMA OwnerKeeps == ASSUME MirrorInv, OwnerStep PROVE MirrorInv'
<1>0. MarksInv /\ FollowsInv /\ CommandTypes /\ SettledTypes /\ MarksTypes /\ FollowsTypes
  BY DEF MirrorInv, MarksInv, FollowsInv
<1>1. ASSUME NEW w \in Work, NEW v \in Visibility, OwnerMarks(w, v) PROVE MirrorInv'
  <2>1. /\ MarkAdded(w, v)
        /\ UNCHANGED <<archived, bookmark, author, excluded, refresh, command>>
    BY <1>1 DEF OwnerMarks, following
  <2>2. /\ MarksTypes' /\ SettledTypes' /\ UNCHANGED follows /\ ~settled'.marks
        /\ settled'.follows = settled.follows /\ ~listing'.still /\ ~detail'.still
    BY <1>0, <2>1, MarkAddedType
  <2>3. MarksInv'
    BY <2>2, MarksReset
  <2>4. FollowsInv'
    BY <1>0, <2>1, <2>2, FollowsStay DEF IsFollowCommand, FollowsTypes
  <2> QED BY <1>0, <2>1, <2>2, <2>3, <2>4 DEF MirrorInv, CommandTypes
<1>2. ASSUME NEW w \in Work, OwnerUnmarks(w) PROVE MirrorInv'
  <2>1. /\ MarkRemoved(w)
        /\ UNCHANGED <<archived, bookmark, author, excluded, refresh, command>>
    BY <1>2 DEF OwnerUnmarks, following
  <2>2. /\ MarksTypes' /\ SettledTypes' /\ UNCHANGED follows /\ ~settled'.marks
        /\ settled'.follows = settled.follows /\ ~listing'.still /\ ~detail'.still
    BY <1>0, <2>1, MarkRemovedType
  <2>3. MarksInv'
    BY <2>2, MarksReset
  <2>4. FollowsInv'
    BY <1>0, <2>1, <2>2, FollowsStay DEF IsFollowCommand, FollowsTypes
  <2> QED BY <1>0, <2>1, <2>2, <2>3, <2>4 DEF MirrorInv, CommandTypes
<1>3. ASSUME NEW lists \in [Visibility -> Seq(Artist)], FollowsBecome(lists),
             UNCHANGED <<bookmarks, author, excluded, command>>
      PROVE  MirrorInv'
  <2>2. /\ FollowsTypes' /\ SettledTypes' /\ UNCHANGED <<marks, markId>>
        /\ ~settled'.follows /\ settled'.marks = settled.marks
        /\ \A r \in Refresher : ~refresh'[r].still /\ refresh'[r].step = refresh[r].step
    BY <1>0, <1>3, FollowsBecomeType
  <2>3. FollowsInv'
    BY <2>2 DEF FollowsInv, KnowsPages
  <2>4. MarksInv'
    BY <1>0, <1>3, <2>2, MarksStay DEF MarkCommand, bookmarks
  <2> QED BY <1>0, <1>3, <2>2, <2>3, <2>4 DEF MirrorInv, CommandTypes
<1>4. ASSUME NEW a \in Artist, NEW v \in Visibility, OwnerFollows(a, v) PROVE MirrorInv'
  <2>1. PICK lists \in [Visibility -> Seq(Artist)] : lists = With(follows, a, v)
    BY <1>0, ListsType DEF FollowsTypes
  <2> QED BY <1>3, <1>4, <2>1 DEF OwnerFollows
<1>5. ASSUME NEW a \in Artist, OwnerUnfollows(a) PROVE MirrorInv'
  <2>1. PICK lists \in [Visibility -> Seq(Artist)] : lists = Without(follows, a)
    <3>1. "public" \in Visibility
      BY DEF Visibility
    <3> QED BY <1>0, <3>1, ListsType DEF FollowsTypes
  <2> QED BY <1>3, <1>5, <2>1 DEF OwnerUnfollows
<1> QED BY <1>1, <1>2, <1>4, <1>5 DEF OwnerStep

\* What a command becomes is about bookmarks, or about follows.
LEMMA StartKeeps ==
  ASSUME MirrorInv, NEW c \in Command, NEW made \in CommandRow, ItemFits(made),
         command' = [command EXCEPT ![c] = made],
         UNCHANGED <<remote, bookmarks, following>>,
         \/ /\ made.kind \in {"add", "remove"} /\ settled' = [settled EXCEPT !.marks = FALSE]
         \/ /\ made.kind \in {"follow", "unfollow"} /\ settled' = [settled EXCEPT !.follows = FALSE]
  PROVE  MirrorInv'
<1>0. MarksInv /\ FollowsInv /\ CommandTypes /\ SettledTypes /\ FollowsTypes
  BY DEF MirrorInv, FollowsInv
<1>1. CommandTypes'
  BY <1>0, CommandGoes
<1>2. \A d \in Command : command'[d].kind = IF d = c THEN made.kind ELSE command[d].kind
  BY <1>0 DEF CommandTypes
<1>3. /\ SettledTypes'
      /\ settled'.marks => settled.marks /\ made.kind \in {"follow", "unfollow"}
      /\ settled'.follows => settled.follows /\ made.kind \in {"add", "remove"}
  BY <1>0 DEF SettledTypes
<1>4. MarksInv'
  <2>1. UNCHANGED <<marks, markId, archived, bookmark, listing, detail>>
    BY DEF remote, bookmarks
  <2>2. settled'.marks => settled.marks /\ \A d \in Command : MarkCommand(d)' => MarkCommand(d)
    BY <1>2, <1>3 DEF MarkCommand
  <2> QED BY <1>0, <2>1, <2>2, MarksStay
<1>5. FollowsInv'
  <2>1. UNCHANGED <<follows, author, refresh, excluded>>
    BY DEF remote, following
  <2>2. settled'.follows =>
          settled.follows /\ \A d \in Command : IsFollowCommand(d)' => IsFollowCommand(d)
    BY <1>2, <1>3 DEF IsFollowCommand
  <2>3. excluded' \in SUBSET Artist
    BY <1>0, <2>1 DEF FollowsTypes
  <2> QED BY <1>0, <2>1, <2>2, <2>3, FollowsStay
<1> QED BY <1>1, <1>3, <1>4, <1>5 DEF MirrorInv

LEMMA OperatorKeeps == ASSUME MirrorInv, NEW c \in Command, OperatorStep(c) PROVE MirrorInv'
<1>0. NoCommand \in CommandRow
  BY DEF NoCommand, CommandRow, Visibility, NoId
<1>1. ASSUME NEW w \in Work, NEW v \in Visibility, StartAdd(c, w, v) PROVE MirrorInv'
  <2>1. PICK made : made = [NoCommand EXCEPT !.kind = "add", !.step = "send", !.item = w, !.visibility = v]
    OBVIOUS
  <2>2. made \in CommandRow /\ made.kind = "add" /\ made.item = w
    BY <1>0, <2>1 DEF CommandRow
  <2>3. ItemFits(made)
    BY <2>2 DEF ItemFits
  <2> QED BY <1>1, <2>1, <2>2, <2>3, StartKeeps DEF StartAdd
<1>2. ASSUME NEW w \in Work, StartRemove(c, w) PROVE MirrorInv'
  <2>1. PICK made : made = [NoCommand EXCEPT !.kind = "remove", !.step = "local", !.item = w]
    OBVIOUS
  <2>2. made \in CommandRow /\ made.kind = "remove" /\ made.item = w
    BY <1>0, <2>1 DEF CommandRow
  <2>3. ItemFits(made)
    BY <2>2 DEF ItemFits
  <2> QED BY <1>2, <2>1, <2>2, <2>3, StartKeeps DEF StartRemove
<1>3. ASSUME NEW a \in Artist, NEW followed \in BOOLEAN, StartFollow(c, a, followed) PROVE MirrorInv'
  <2>1. PICK made : made = [NoCommand EXCEPT !.kind = IF followed THEN "follow" ELSE "unfollow",
                                           !.step = "read", !.item = a]
    OBVIOUS
  <2>2. made \in CommandRow /\ made.kind \in {"follow", "unfollow"} /\ made.item = a
    BY <1>0, <2>1 DEF CommandRow
  <2>3. ItemFits(made)
    BY <2>2 DEF ItemFits
  <2> QED BY <1>3, <2>1, <2>2, <2>3, StartKeeps DEF StartFollow
<1> QED BY <1>1, <1>2, <1>3 DEF OperatorStep

-----------------------------------------------------------------------------
(* The steps of a command *)

\* A command that goes on, or ends, and touches neither Pixiv nor a copy.
LEMMA CommandOnlyKeeps ==
  ASSUME MirrorInv, CommandTypes', \A d \in Command : command'[d].kind \in {command[d].kind, "none"},
         UNCHANGED <<remote, bookmarks, following, settled>>
  PROVE  MirrorInv'
<1>0. MarksInv /\ FollowsInv /\ SettledTypes /\ FollowsTypes
  BY DEF MirrorInv, FollowsInv
<1>1. MarksInv'
  BY <1>0, MarksStay DEF remote, bookmarks, MarkCommand
<1>2. FollowsInv'
  <2>1. UNCHANGED <<follows, author, refresh, excluded, settled>>
    BY DEF remote, following
  <2>2. excluded' \in SUBSET Artist
    BY <1>0, <2>1 DEF FollowsTypes
  <2> QED BY <1>0, <2>1, <2>2, FollowsStay DEF IsFollowCommand
<1> QED BY <1>0, <1>1, <1>2 DEF MirrorInv, SettledTypes

LEMMA SendAddKeeps == ASSUME MirrorInv, NEW c \in Command, SendAdd(c) PROVE MirrorInv'
<1>0. MarksInv /\ FollowsInv /\ CommandTypes /\ SettledTypes /\ MarksTypes /\ FollowsTypes
  BY DEF MirrorInv, MarksInv, FollowsInv
<1>1. PICK w \in Work, v \in Visibility : w = command[c].item /\ v = command[c].visibility
  BY <1>0 DEF SendAdd, At, CommandTypes, CommandRow, ItemFits
<1>2. /\ MarkAdded(w, v) /\ UNCHANGED <<archived, bookmark, author, excluded, refresh>>
      /\ \E id \in {NoId, markId'[w]} : command' = [command EXCEPT ![c].step = "project", ![c].id = id]
  BY <1>1 DEF SendAdd, following
<1>3. /\ MarksTypes' /\ SettledTypes' /\ UNCHANGED follows /\ ~settled'.marks
      /\ settled'.follows = settled.follows /\ ~listing'.still /\ ~detail'.still
  BY <1>0, <1>2, MarkAddedType
<1>4. PICK id \in Nat : command' = [command EXCEPT ![c].step = "project", ![c].id = id]
  BY <1>2, <1>3 DEF MarksTypes, NoId
<1>5. command' = [command EXCEPT ![c] = [command[c] EXCEPT !.step = "project", !.id = id]]
  BY <1>0, <1>4 DEF CommandTypes
<1>6. CommandTypes' /\ \A d \in Command : command'[d].kind = command[d].kind
  BY <1>0, <1>5, CommandStepped
<1>7. MarksInv'
  BY <1>3, MarksReset
<1>8. FollowsInv'
  <2>1. UNCHANGED <<follows, author, refresh, excluded>>
    BY <1>2, <1>3
  <2>2. excluded' \in SUBSET Artist
    BY <1>0, <2>1 DEF FollowsTypes
  <2> QED BY <1>0, <1>3, <1>6, <2>1, <2>2, FollowsStay DEF IsFollowCommand
<1> QED BY <1>3, <1>6, <1>7, <1>8 DEF MirrorInv

LEMMA ResolveKeeps ==
  ASSUME MirrorInv, NEW c \in Command, ResolveLocally(c) \/ ResolveAtPixiv(c)
  PROVE  MirrorInv'
<1>0. MarksInv /\ FollowsInv /\ CommandTypes /\ SettledTypes /\ MarksTypes /\ FollowsTypes
  BY DEF MirrorInv, MarksInv, FollowsInv
<1>1. PICK w \in Work : w = command[c].item
  BY <1>0 DEF ResolveLocally, ResolveAtPixiv, At, CommandTypes, CommandRow, ItemFits
<1>2. ActiveId(w) \in Nat /\ MarkOf(w).id \in Nat
  BY <1>0, MarkOfType DEF ActiveId, MarksTypes, BookmarkRow, NoId
<1>3. PICK id \in Nat, next \in {"detail", "send", "project"} :
        command' = [command EXCEPT ![c].id = id, ![c].step = next]
  BY <1>1, <1>2 DEF ResolveLocally, ResolveAtPixiv
<1>4. command' = [command EXCEPT ![c] = [command[c] EXCEPT !.step = next, !.id = id]]
  BY <1>0, <1>3 DEF CommandTypes, CommandRow
<1>5. CommandTypes' /\ \A d \in Command : command'[d].kind = command[d].kind
  BY <1>0, <1>4, CommandStepped
<1> QED BY <1>5, CommandOnlyKeeps DEF ResolveLocally, ResolveAtPixiv

LEMMA SendRemoveKeeps == ASSUME MirrorInv, NEW c \in Command, SendRemove(c) PROVE MirrorInv'
<1>0. MarksInv /\ FollowsInv /\ CommandTypes /\ SettledTypes /\ MarksTypes /\ FollowsTypes
  BY DEF MirrorInv, MarksInv, FollowsInv
<1>1. PICK w \in Work : w = command[c].item
  BY <1>0 DEF SendRemove, At, CommandTypes, CommandRow, ItemFits
<1>2. CommandTypes' /\ \A d \in Command : command'[d].kind = command[d].kind
  BY <1>0, GoType DEF SendRemove
<1>3. UNCHANGED <<archived, bookmark, due, author, excluded, refresh>>
  BY DEF SendRemove, following
<1>4. CASE MarkRemoved(w)
  <2>1. /\ MarksTypes' /\ SettledTypes' /\ UNCHANGED follows /\ ~settled'.marks
        /\ settled'.follows = settled.follows /\ ~listing'.still /\ ~detail'.still
    BY <1>0, <1>3, <1>4, MarkRemovedType
  <2>2. MarksInv'
    BY <2>1, MarksReset
  <2>3. FollowsInv'
    <3>1. UNCHANGED <<follows, author, refresh, excluded>>
      BY <1>3, <2>1
    <3>2. excluded' \in SUBSET Artist
      BY <1>0, <3>1 DEF FollowsTypes
    <3> QED BY <1>0, <1>2, <2>1, <3>1, <3>2, FollowsStay DEF IsFollowCommand
  <2> QED BY <1>2, <2>1, <2>2, <2>3 DEF MirrorInv
<1>5. CASE UNCHANGED <<remote, listing, detail, settled>>
  BY <1>2, <1>3, <1>5, CommandOnlyKeeps DEF bookmarks, following
<1> QED BY <1>1, <1>4, <1>5 DEF SendRemove

\* While the copy is settled no command is left that could write it.
LEMMA ProjectMarkKeeps == ASSUME MirrorInv, NEW c \in Command, ProjectMark(c) PROVE MirrorInv'
<1>0. MarksInv /\ FollowsInv /\ CommandTypes /\ SettledTypes /\ MarksTypes /\ FollowsTypes
  BY DEF MirrorInv, MarksInv, FollowsInv
<1>1. PICK w \in Work : w = command[c].item
  BY <1>0 DEF ProjectMark, CommandTypes, CommandRow, ItemFits
<1>2. CommandTypes' /\ \A d \in Command : command'[d].kind \in {command[d].kind, "none"}
  BY <1>0, DoneType DEF ProjectMark
<1>3. UNCHANGED <<marks, markId, follows, archived, listing, detail, author, excluded, refresh, settled>>
  BY DEF ProjectMark, remote, following
<1>4. ~settled.marks
  BY <1>0 DEF ProjectMark, MarksInv, NoMarkWriter
<1>5. bookmark' \in [Work -> BookmarkRow]
  <2>1. PICK made \in BookmarkRow :
          made = [active |-> TRUE, visibility |-> command[c].visibility, id |-> command[c].id]
    BY <1>0 DEF CommandTypes, CommandRow, BookmarkRow
  <2>2. PICK old \in BookmarkRow : old = [bookmark[w] EXCEPT !.active = FALSE]
    <3>1. bookmark[w] \in BookmarkRow
      BY <1>0 DEF MarksTypes
    <3>2. [bookmark[w] EXCEPT !.active = FALSE] \in BookmarkRow
      BY <3>1 DEF BookmarkRow
    <3> QED BY <3>2
  <2>3. bookmark' \in {bookmark, [bookmark EXCEPT ![w] = made], [bookmark EXCEPT ![w] = old]}
    BY <1>1, <2>1, <2>2 DEF ProjectMark
  <2> QED BY <1>0, <2>3 DEF MarksTypes
<1>6. MarksInv'
  <2>1. MarksTypes'
    BY <1>0, <1>3, <1>5 DEF MarksTypes
  <2>2. KnowsPages(listing, marks)'
    BY <1>0, <1>3 DEF MarksInv, KnowsPages, Turns
  <2>3. detail'.still => detail'.found = MarkOf(detail.work)'
    <3>1. MarkOf(detail.work)' = MarkOf(detail.work)
      BY <1>3 DEF MarkOf, IsMarked, Shown
    <3> QED BY <1>0, <1>3, <3>1 DEF MarksInv
  <2> QED BY <1>3, <1>4, <2>1, <2>2, <2>3 DEF MarksInv
<1>7. FollowsInv'
  <2>2. excluded' \in SUBSET Artist
    BY <1>0, <1>3 DEF FollowsTypes
  <2> QED BY <1>0, <1>2, <1>3, <2>2, FollowsStay DEF IsFollowCommand
<1> QED BY <1>0, <1>2, <1>3, <1>6, <1>7 DEF MirrorInv, SettledTypes

LEMMA SendFollowKeeps == ASSUME MirrorInv, NEW c \in Command, SendFollow(c) PROVE MirrorInv'
<1>0. MarksInv /\ FollowsInv /\ CommandTypes /\ SettledTypes /\ MarksTypes /\ FollowsTypes
  BY DEF MirrorInv, MarksInv, FollowsInv
<1>1. PICK a \in Artist : a = command[c].item
  BY <1>0 DEF SendFollow, IsFollowCommand, CommandTypes, CommandRow, ItemFits
<1>2. CommandTypes' /\ \A d \in Command : command'[d].kind = command[d].kind
  BY <1>0, GoType DEF SendFollow
<1>3. PICK lists \in [Visibility -> Seq(Artist)] : FollowsBecome(lists)
  <2>1. "public" \in Visibility
    BY DEF Visibility
  <2>2. With(follows, a, "public") \in [Visibility -> Seq(Artist)]
        /\ Without(follows, a) \in [Visibility -> Seq(Artist)]
    BY <1>0, <2>1, ListsType DEF FollowsTypes
  <2> QED BY <1>1, <2>2 DEF SendFollow
<1>4. UNCHANGED <<archived, bookmark, listing, detail, author, excluded>>
  BY DEF SendFollow, bookmarks
<1>5. /\ FollowsTypes' /\ SettledTypes' /\ UNCHANGED <<marks, markId>>
      /\ ~settled'.follows /\ settled'.marks = settled.marks
      /\ \A r \in Refresher : ~refresh'[r].still /\ refresh'[r].step = refresh[r].step
  BY <1>0, <1>3, <1>4, FollowsBecomeType
<1>6. FollowsInv'
  BY <1>5 DEF FollowsInv, KnowsPages
<1>7. MarksInv'
  BY <1>0, <1>2, <1>4, <1>5, MarksStay DEF MarkCommand
<1> QED BY <1>2, <1>5, <1>6, <1>7 DEF MirrorInv

LEMMA ProjectFollowKeeps == ASSUME MirrorInv, NEW c \in Command, ProjectFollow(c) PROVE MirrorInv'
<1>0. MarksInv /\ FollowsInv /\ CommandTypes /\ SettledTypes /\ MarksTypes /\ FollowsTypes
  BY DEF MirrorInv, MarksInv, FollowsInv
<1>1. PICK a \in Artist : a = command[c].item
  BY <1>0 DEF ProjectFollow, IsFollowCommand, CommandTypes, CommandRow, ItemFits
<1>2. CommandTypes' /\ \A d \in Command : command'[d].kind \in {command[d].kind, "none"}
  BY <1>0, DoneType DEF ProjectFollow
<1>3. UNCHANGED <<marks, markId, follows, archived, bookmark, listing, detail, refresh, settled>>
  BY DEF ProjectFollow, remote, bookmarks
<1>4. ~settled.follows
  BY <1>0 DEF ProjectFollow, FollowsInv
<1>5. FollowsTypes'
  <2>1. PICK mark \in Visibility \cup {"none"} : mark = IF Wanted(c) THEN "public" ELSE "none"
    BY DEF Visibility
  <2>2. author' = [author EXCEPT ![a] = mark]
    BY <1>1, <2>1 DEF ProjectFollow
  <2>3. author' \in [Artist -> Visibility \cup {"none"}]
    BY <1>0, <2>2 DEF FollowsTypes
  <2>4. excluded' \in SUBSET Artist
    BY <1>0 DEF ProjectFollow, FollowsTypes
  <2> QED BY <1>0, <1>3, <2>3, <2>4 DEF FollowsTypes
<1>6. FollowsInv'
  <2>1. \A r \in Refresher : KnowsPages(refresh[r], follows)'
    BY <1>0, <1>3 DEF FollowsInv, KnowsPages, Turns
  <2> QED BY <1>3, <1>4, <1>5, <2>1 DEF FollowsInv
<1>7. MarksInv'
  BY <1>0, <1>2, <1>3, MarksStay DEF MarkCommand
<1> QED BY <1>0, <1>2, <1>3, <1>6, <1>7 DEF MirrorInv, SettledTypes

LEMMA CommandKeeps ==
  ASSUME MirrorInv, NEW c \in Command, CommandStep(c) \/ CommandFails(c)
  PROVE  MirrorInv'
<1>0. CommandTypes
  BY DEF MirrorInv
<1>1. CASE ReadFollow(c)
  <2>1. PICK next \in {"sync", "follow"} : Go(c, next)
    BY <1>1 DEF ReadFollow
  <2>2. CommandTypes' /\ \A d \in Command : command'[d].kind = command[d].kind
    BY <1>0, <2>1, GoType
  <2> QED BY <1>1, <2>2, CommandOnlyKeeps DEF ReadFollow
<1>2. CASE VerifyFollow(c)
  <2>1. Go(c, "sync") \/ Done(c)
    BY <1>2 DEF VerifyFollow
  <2>2. CommandTypes' /\ \A d \in Command : command'[d].kind \in {command[d].kind, "none"}
    BY <1>0, <2>1, GoType, DoneType
  <2> QED BY <1>2, <2>2, CommandOnlyKeeps DEF VerifyFollow
<1>3. CASE CommandFails(c)
  <2>1. CommandTypes' /\ \A d \in Command : command'[d].kind \in {command[d].kind, "none"}
    BY <1>0, <1>3, DoneType DEF CommandFails
  <2> QED BY <1>3, <2>1, CommandOnlyKeeps DEF CommandFails
<1> QED BY <1>1, <1>2, <1>3, SendAddKeeps, ResolveKeeps, SendRemoveKeeps, ProjectMarkKeeps,
           SendFollowKeeps, ProjectFollowKeeps DEF CommandStep

-----------------------------------------------------------------------------
(* The copy of the bookmarks *)

\* A step of the bookmarks' writers leaves the followed artists alone.
LEMMA MarksOnly ==
  ASSUME MirrorInv, UNCHANGED <<follows, following, command>>, MarksInv',
         SettledTypes', settled'.follows = settled.follows
  PROVE  MirrorInv'
<1>0. FollowsInv /\ CommandTypes /\ FollowsTypes
  BY DEF MirrorInv, FollowsInv
<1>1. FollowsInv'
  <2>1. UNCHANGED <<follows, author, refresh, excluded>>
    BY DEF following
  <2>2. excluded' \in SUBSET Artist
    BY <1>0, <2>1 DEF FollowsTypes
  <2> QED BY <1>0, <2>1, <2>2, FollowsStay DEF IsFollowCommand
<1> QED BY <1>0, <1>1 DEF MirrorInv, CommandTypes

LEMMA ReadDetailKeeps == ASSUME MirrorInv, NEW w \in Work, ReadDetail(w) PROVE MirrorInv'
<1>0. MarksInv /\ SettledTypes /\ MarksTypes
  BY DEF MirrorInv, MarksInv
<1>1. PICK found \in BookmarkRow : found = MarkOf(w)
  BY <1>0, MarkOfType
<1>2. detail' = [work |-> w, found |-> found, still |-> TRUE]
      /\ UNCHANGED <<marks, markId, follows, archived, bookmark, listing, settled, command>>
  BY <1>1 DEF ReadDetail, remote
<1>3. MarksTypes'
  BY <1>0, <1>2 DEF MarksTypes
<1>4. KnowsPages(listing, marks)'
  BY <1>0, <1>2 DEF MarksInv, KnowsPages, Turns
<1>5. detail'.still /\ detail'.found = MarkOf(detail.work)'
  <2>1. MarkOf(detail.work)' = MarkOf(w)
    BY <1>2 DEF MarkOf, IsMarked, Shown
  <2> QED BY <1>1, <1>2, <2>1
<1>6. settled'.marks => (MarksMirrored /\ NoMarkWriter /\ (listing.step = "idle" \/ listing.still))'
  <2>1. settled.marks => MarksMirrored' /\ NoMarkWriter'
    BY <1>0, <1>2, <1>5 DEF MarksInv, MarksMirrored, NoMarkWriter, IsMarked, Shown
  <2> QED BY <1>0, <1>2, <2>1 DEF MarksInv
<1>7. MarksInv'
  BY <1>3, <1>4, <1>5, <1>6 DEF MarksInv
<1> QED BY <1>0, <1>2, <1>7, MarksOnly DEF ReadDetail, SettledTypes

LEMMA SaveDetailKeeps == ASSUME MirrorInv, SaveDetail PROVE MirrorInv'
<1>0. MarksInv /\ SettledTypes /\ MarksTypes
  BY DEF MirrorInv, MarksInv
<1>1. PICK w \in Work, found \in BookmarkRow : w = detail.work /\ found = detail.found
  BY <1>0 DEF SaveDetail, MarksTypes
<1>2. PICK made \in BookmarkRow :
        made = IF found.active THEN found ELSE [bookmark[w] EXCEPT !.active = FALSE]
  <2>1. bookmark[w] \in BookmarkRow
    BY <1>0 DEF MarksTypes
  <2>2. [bookmark[w] EXCEPT !.active = FALSE] \in BookmarkRow
    BY <2>1 DEF BookmarkRow
  <2> QED BY <2>2
<1>3. /\ archived' = archived \cup {w} /\ bookmark' = [bookmark EXCEPT ![w] = made]
      /\ detail' = NoDetail /\ UNCHANGED <<marks, markId, follows, listing, settled, command>>
  BY <1>1, <1>2 DEF SaveDetail, remote
<1>4. MarksTypes'
  <2>1. detail' \in [work : Work \cup {"none"}, found : BookmarkRow, still : BOOLEAN]
    BY <1>3 DEF NoDetail, NoBookmark, NoId, BookmarkRow, Visibility
  <2>2. archived' \in SUBSET Work /\ bookmark' \in [Work -> BookmarkRow]
    BY <1>0, <1>3 DEF MarksTypes
  <2> QED BY <1>0, <1>3, <2>1, <2>2 DEF MarksTypes, NoDetail
<1>5. KnowsPages(listing, marks)'
  BY <1>0, <1>3 DEF MarksInv, KnowsPages, Turns
<1>6. ~detail'.still
  BY <1>3 DEF NoDetail
<1>7. ASSUME settled.marks PROVE MarksMirrored' /\ NoMarkWriter'
  <2>1. MarksMirrored /\ NoMarkWriter /\ detail.still
    BY <1>0, <1>7 DEF MarksInv, NoMarkWriter, SaveDetail
  <2>2. found = MarkOf(w)
    BY <1>0, <1>1, <2>1 DEF MarksInv
  <2>3. found.active = IsMarked(w) /\ (IsMarked(w) => found.visibility = Shown(marks, w))
    BY <2>2 DEF MarkOf
  <2>4. made.active = found.active /\ (found.active => made = found)
    <3>1. bookmark[w] \in BookmarkRow
      BY <1>0 DEF MarksTypes
    <3> QED BY <1>2, <3>1 DEF BookmarkRow
  <2>5. \A u \in archived' : /\ bookmark'[u].active <=> IsMarked(u)
                             /\ IsMarked(u) => bookmark'[u].visibility = Shown(marks, u)
    <3> SUFFICES ASSUME NEW u \in archived'
                 PROVE  /\ bookmark'[u].active <=> IsMarked(u)
                        /\ IsMarked(u) => bookmark'[u].visibility = Shown(marks, u)
      OBVIOUS
    <3>1. CASE u = w
      <4>1. bookmark'[u] = made
        BY <1>0, <1>3, <3>1 DEF MarksTypes
      <4> QED BY <2>3, <2>4, <3>1, <4>1
    <3>2. CASE u # w
      <4>1. bookmark'[u] = bookmark[u] /\ u \in archived
        BY <1>0, <1>3, <3>2 DEF MarksTypes
      <4> QED BY <2>1, <4>1 DEF MarksMirrored
    <3> QED BY <3>1, <3>2
  <2>6. MarksMirrored'
    BY <1>3, <2>5 DEF MarksMirrored, IsMarked, Shown
  <2> QED BY <1>3, <2>1, <2>6 DEF NoMarkWriter
<1>8. MarksInv'
  BY <1>0, <1>3, <1>4, <1>5, <1>6, <1>7 DEF MarksInv
<1> QED BY <1>0, <1>3, <1>8, MarksOnly DEF SaveDetail, SettledTypes

\* The reader of the bookmarks starts, reads on, or gives up.
LEMMA MarkReaderKeeps ==
  ASSUME MirrorInv, PixivMirrorAssumption, UNCHANGED <<remote, archived, bookmark, detail, following, command, settled>>,
         listing' \in Reader(Work), KnowsPages(listing', marks),
         settled.marks => listing'.step = "idle" \/ listing'.still
  PROVE  MirrorInv'
<1>0. MarksInv /\ SettledTypes /\ MarksTypes
  BY DEF MirrorInv, MarksInv
<1>1. UNCHANGED <<marks, markId, follows>>
  BY DEF remote
<1>2. MarksTypes'
  BY <1>0, <1>1 DEF MarksTypes
<1>3. KnowsPages(listing, marks)'
  BY <1>1 DEF KnowsPages, Turns
<1>4. detail'.still => detail'.found = MarkOf(detail.work)'
  <2>1. MarkOf(detail.work)' = MarkOf(detail.work)
    BY <1>1 DEF MarkOf, IsMarked, Shown
  <2> QED BY <1>0, <2>1 DEF MarksInv
<1>5. settled.marks => MarksMirrored' /\ NoMarkWriter'
  BY <1>0, <1>1 DEF MarksInv, MarksMirrored, NoMarkWriter, IsMarked, Shown
<1>6. MarksInv'
  BY <1>0, <1>2, <1>3, <1>4, <1>5 DEF MarksInv
<1> QED BY <1>0, <1>1, <1>6, MarksOnly DEF SettledTypes

\* A full listing read while Pixiv stood still leaves what Pixiv shows.
LEMMA ReconcileKeeps == ASSUME MirrorInv, Reconcile PROVE MirrorInv'
<1>0. MarksInv /\ SettledTypes /\ MarksTypes
  BY DEF MirrorInv, MarksInv
<1>1. UNCHANGED <<marks, markId, follows, archived, detail, author, excluded, refresh, command>>
  BY DEF Reconcile, remote, following
<1>2. listing' = NotListing /\ listing' \in Reader(Work) /\ ~listing'.still /\ listing'.step = "idle"
  BY DEF Reconcile, NotListing, Reader
<1>3. ASSUME NEW w \in Work
      PROVE  /\ bookmark'[w] \in BookmarkRow
             /\ w \in archived => /\ bookmark'[w].active <=> Seen(listing, w) # "none"
                                  /\ Seen(listing, w) # "none" => bookmark'[w].visibility = Seen(listing, w)
  <2>1. PICK made \in BookmarkRow : made = bookmark[w]
    BY <1>0 DEF MarksTypes
  <2>2. PICK v \in Visibility \cup {"none"} : v = Seen(listing, w)
    BY DEF Seen, Visibility
  <2>3. bookmark'[w] = IF w \notin archived THEN made
                       ELSE IF v = "none" THEN [made EXCEPT !.active = FALSE]
                       ELSE [made EXCEPT !.active = TRUE, !.visibility = v]
    BY <2>1, <2>2 DEF Reconcile, Reconciled
  <2>4. [made EXCEPT !.active = FALSE] \in BookmarkRow /\ ~[made EXCEPT !.active = FALSE].active
    BY DEF BookmarkRow
  <2>5. ASSUME v \in Visibility
        PROVE  /\ [made EXCEPT !.active = TRUE, !.visibility = v] \in BookmarkRow
               /\ [made EXCEPT !.active = TRUE, !.visibility = v].active
               /\ [made EXCEPT !.active = TRUE, !.visibility = v].visibility = v
    BY <2>5 DEF BookmarkRow
  <2>6. "none" \notin Visibility
    BY DEF Visibility
  <2> QED BY <2>2, <2>3, <2>4, <2>5, <2>6
<1>4. MarksTypes'
  <2>1. bookmark' \in [Work -> BookmarkRow]
    BY <1>3 DEF Reconcile
  <2>2. (detail # NoDetail => detail.work \in Work)'
    BY <1>0, <1>1 DEF MarksTypes, NoDetail
  <2> QED BY <1>0, <1>1, <1>2, <2>1, <2>2 DEF MarksTypes
<1>5. SettledTypes' /\ settled'.follows = settled.follows
      /\ settled'.marks = (listing.still /\ NoMarkWriter)
  <2>1. (listing.still /\ NoMarkWriter) \in BOOLEAN
    BY <1>0 DEF MarksTypes, Reader, NoMarkWriter
  <2>2. settled' = [settled EXCEPT !.marks = listing.still /\ NoMarkWriter]
    BY DEF Reconcile
  <2> QED BY <1>0, <2>1, <2>2 DEF SettledTypes
<1>6. ASSUME listing.still, NoMarkWriter PROVE MarksMirrored' /\ NoMarkWriter'
  <2>1. \A w : Seen(listing, w) = Shown(marks, w)
    BY <1>0, <1>6, SeenIsShown DEF MarksInv, MarksTypes, Reconcile
  <2>2. \A w \in archived : /\ bookmark'[w].active <=> IsMarked(w)
                            /\ IsMarked(w) => bookmark'[w].visibility = Shown(marks, w)
    BY <1>0, <1>3, <2>1 DEF IsMarked, MarksTypes
  <2>3. MarksMirrored'
    BY <1>1, <2>2 DEF MarksMirrored, IsMarked, Shown
  <2>4. NoMarkWriter'
    BY <1>1, <1>6 DEF NoMarkWriter
  <2> QED BY <2>3, <2>4
<1>7. detail'.still => detail'.found = MarkOf(detail.work)'
  <2>1. MarkOf(detail.work)' = MarkOf(detail.work)
    BY <1>1 DEF MarkOf, IsMarked, Shown
  <2> QED BY <1>0, <1>1, <2>1 DEF MarksInv
<1>8. MarksInv'
  BY <1>2, <1>4, <1>5, <1>6, <1>7 DEF MarksInv, KnowsPages
<1> QED BY <1>1, <1>5, <1>8, MarksOnly DEF following

LEMMA ListingKeeps ==
  ASSUME MirrorInv, PixivMirrorAssumption,
         IntervalPasses \/ (\E backfill \in BOOLEAN : ListMarks(backfill)) \/ ReadMarks \/ ListingEnds
  PROVE  MirrorInv'
<1>0. MarksInv /\ MarksTypes
  BY DEF MirrorInv, MarksInv
<1>1. marks \in [Visibility -> Seq(Work)] /\ listing \in Reader(Work)
  BY <1>0 DEF MarksTypes
<1>2. CASE IntervalPasses
  BY <1>0, <1>1, <1>2, MarkReaderKeeps DEF IntervalPasses, MarksInv
<1>3. ASSUME NEW backfill \in BOOLEAN, ListMarks(backfill) PROVE MirrorInv'
  <2>1. listing' = StartsListing
    BY <1>3 DEF ListMarks
  <2> QED BY <1>1, <1>3, <2>1, StartsKnowing, MarkReaderKeeps DEF ListMarks
<1>4. CASE ReadMarks
  <2>1. Reading(listing) /\ listing' = Turned(listing, marks) /\ listing.step # "idle"
    BY <1>4 DEF ReadMarks, Reading, Visibility
  <2>2. Turned(listing, marks) \in Reader(Work) /\ Turned(listing, marks).still = listing.still
    BY <1>1, <2>1, TurnedIs
  <2>3. KnowsPages(Turned(listing, marks), marks)
    BY <1>0, <1>1, <2>1, TurnedKnows DEF MarksInv
  <2> QED BY <1>0, <1>4, <2>1, <2>2, <2>3, MarkReaderKeeps DEF ReadMarks, MarksInv
<1>5. CASE ListingEnds
  <2>1. listing' = NotListing
    BY <1>5 DEF ListingEnds
  <2> QED BY <1>1, <1>5, <2>1, StartsKnowing, MarkReaderKeeps DEF ListingEnds
<1> QED BY <1>2, <1>3, <1>4, <1>5

-----------------------------------------------------------------------------
(* The copy of the followed artists *)

\* A step of the follows' readers leaves the bookmarks alone.
LEMMA FollowsOnly ==
  ASSUME MirrorInv, UNCHANGED <<marks, markId, bookmarks, command>>, FollowsInv',
         SettledTypes', settled'.marks = settled.marks
  PROVE  MirrorInv'
<1>0. MarksInv /\ CommandTypes
  BY DEF MirrorInv
<1>1. MarksInv'
  BY <1>0, MarksStay DEF bookmarks, MarkCommand
<1> QED BY <1>0, <1>1 DEF MirrorInv, CommandTypes

\* The exclusions are the operator's: what the copy is compared with leaves them out.
LEMMA SetEnabledKeeps ==
  ASSUME MirrorInv, NEW artists \in SUBSET Artist, NEW enabled \in BOOLEAN, SetEnabled(artists, enabled)
  PROVE  MirrorInv'
<1>0. FollowsInv /\ FollowsTypes /\ SettledTypes
  BY DEF MirrorInv, FollowsInv
<1>1. UNCHANGED <<follows, author, refresh, command, settled, marks, markId, bookmarks>>
  BY DEF SetEnabled, remote
<1>2. excluded' \in SUBSET Artist
  BY <1>0 DEF SetEnabled, FollowsTypes
<1>3. FollowsInv'
  BY <1>0, <1>1, <1>2, FollowsStay DEF IsFollowCommand
<1> QED BY <1>0, <1>1, <1>3, FollowsOnly DEF SettledTypes

\* A reader of the followed artists starts, reads on, or gives up.
LEMMA FollowReaderKeeps ==
  ASSUME MirrorInv, NEW r \in Refresher, NEW reader \in Reader(Artist),
         UNCHANGED <<remote, bookmarks, author, excluded, command, settled>>,
         refresh' = [refresh EXCEPT ![r] = reader], KnowsPages(reader, follows),
         settled.follows => reader.step = "idle" \/ reader.still
  PROVE  MirrorInv'
<1>0. FollowsInv /\ FollowsTypes /\ SettledTypes
  BY DEF MirrorInv, FollowsInv
<1>1. UNCHANGED <<marks, markId, follows>>
  BY DEF remote
<1>2. FollowsTypes'
  BY <1>0, <1>1 DEF FollowsTypes
<1>3. \A other \in Refresher : refresh'[other] = IF other = r THEN reader ELSE refresh[other]
  BY <1>0 DEF FollowsTypes
<1>4. \A other \in Refresher : KnowsPages(refresh'[other], follows)
  BY <1>0, <1>3 DEF FollowsInv
<1>5. \A other \in Refresher : KnowsPages(refresh[other], follows)'
  BY <1>1, <1>4 DEF KnowsPages, Turns
<1>6. settled'.follows =>
        /\ FollowsMirrored' /\ \A c \in Command : ~IsFollowCommand(c)'
        /\ \A other \in Refresher : refresh'[other].step = "idle" \/ refresh'[other].still
  BY <1>0, <1>1, <1>3 DEF FollowsInv, FollowsMirrored, Followed, Shown, IsFollowCommand
<1>7. FollowsInv'
  BY <1>2, <1>5, <1>6 DEF FollowsInv
<1> QED BY <1>0, <1>1, <1>7, FollowsOnly DEF SettledTypes

LEMMA SyncKeeps == ASSUME MirrorInv, NEW r \in Refresher, Sync(r) PROVE MirrorInv'
<1>0. FollowsInv /\ FollowsTypes /\ SettledTypes
  BY DEF MirrorInv, FollowsInv
<1>1. UNCHANGED <<marks, markId, follows, bookmarks, command>>
  BY DEF Sync, remote
<1>2. NotListing \in Reader(Artist) /\ ~NotListing.still /\ NotListing.step = "idle"
  BY DEF NotListing, Reader
<1>3. \A other \in Refresher : refresh'[other] = IF other = r THEN NotListing ELSE refresh[other]
  BY <1>0 DEF Sync, FollowsTypes
<1>4. author' = [a \in Artist |-> Seen(refresh[r], a)]
  BY DEF Sync, AuthorsOf
<1>5. FollowsTypes'
  <2>1. \A a \in Artist : Seen(refresh[r], a) \in Visibility \cup {"none"}
    BY DEF Seen, Visibility
  <2>2. author' \in [Artist -> Visibility \cup {"none"}]
    BY <1>4, <2>1
  <2>3. excluded' \in SUBSET Artist
    BY <1>0 DEF Sync, StaysExcluded, FollowsTypes
  <2>4. refresh' \in [Refresher -> Reader(Artist)]
    BY <1>0, <1>2 DEF Sync, FollowsTypes
  <2> QED BY <1>0, <1>1, <2>2, <2>3, <2>4 DEF FollowsTypes
<1>6. SettledTypes' /\ settled'.marks = settled.marks
      /\ settled'.follows = (refresh[r].still /\ NoFollowWriter(r))
  <2>1. (refresh[r].still /\ NoFollowWriter(r)) \in BOOLEAN
    BY <1>0 DEF FollowsTypes, Reader, NoFollowWriter
  <2>2. settled' = [settled EXCEPT !.follows = refresh[r].still /\ NoFollowWriter(r)]
    BY DEF Sync
  <2> QED BY <1>0, <2>1, <2>2 DEF SettledTypes
<1>7. ASSUME refresh[r].still, NoFollowWriter(r)
      PROVE  /\ FollowsMirrored' /\ \A c \in Command : ~IsFollowCommand(c)'
             /\ \A other \in Refresher : refresh'[other].step = "idle" \/ refresh'[other].still
  <2>1. \A a : Seen(refresh[r], a) = Shown(follows, a)
    BY <1>0, <1>7, SeenIsShown DEF FollowsInv, FollowsTypes, Sync
  <2>2. FollowsMirrored'
    BY <1>1, <1>4, <2>1 DEF FollowsMirrored, Followed, Shown
  <2> QED BY <1>1, <1>2, <1>3, <1>7, <2>2 DEF NoFollowWriter, IsFollowCommand
<1>8. \A other \in Refresher : KnowsPages(refresh[other], follows)'
  <2>1. \A other \in Refresher : KnowsPages(refresh'[other], follows)
    BY <1>0, <1>2, <1>3 DEF FollowsInv, KnowsPages
  <2> QED BY <1>1, <2>1 DEF KnowsPages, Turns
<1>9. FollowsInv'
  BY <1>5, <1>6, <1>7, <1>8 DEF FollowsInv
<1> QED BY <1>1, <1>6, <1>9, FollowsOnly

LEMMA RefreshKeeps ==
  ASSUME MirrorInv, PixivMirrorAssumption, NEW r \in Refresher, RefreshStep(r) \/ RefreshEnds(r)
  PROVE  MirrorInv'
<1>0. FollowsInv
  BY DEF MirrorInv
<1>1. follows \in [Visibility -> Seq(Artist)] /\ refresh[r] \in Reader(Artist)
  BY <1>0 DEF FollowsInv, FollowsTypes
<1>2. CASE ListFollows(r)
  BY <1>1, <1>2, StartsKnowing, FollowReaderKeeps DEF ListFollows
<1>3. CASE ReadFollows(r)
  <2>1. Reading(refresh[r]) /\ refresh[r].step # "idle"
    BY <1>3 DEF ReadFollows, Reading, Visibility
  <2>2. PICK reader \in Reader(Artist) :
          /\ reader = Turned(refresh[r], follows) /\ reader.still = refresh[r].still
          /\ KnowsPages(reader, follows)
    BY <1>0, <1>1, <2>1, TurnedIs, TurnedKnows DEF FollowsInv
  <2>3. refresh' = [refresh EXCEPT ![r] = reader]
    BY <1>3, <2>2 DEF ReadFollows
  <2> QED BY <1>0, <1>3, <2>1, <2>2, <2>3, FollowReaderKeeps DEF ReadFollows, FollowsInv
<1>4. CASE RefreshEnds(r)
  BY <1>1, <1>4, StartsKnowing, FollowReaderKeeps DEF RefreshEnds
<1> QED BY <1>2, <1>3, <1>4, SyncKeeps DEF RefreshStep

LEMMA MirrorNextInv == ASSUME MirrorInv, PixivMirrorAssumption, [MirrorNext]_mirrorVars PROVE MirrorInv'
<1>1. CASE UNCHANGED mirrorVars
  <2>1. UNCHANGED <<remote, bookmarks, following, settled, command>>
    BY <1>1 DEF mirrorVars
  <2>2. CommandTypes' /\ \A d \in Command : command'[d].kind \in {command[d].kind, "none"}
    BY <2>1 DEF MirrorInv, CommandTypes
  <2> QED BY <2>1, <2>2, CommandOnlyKeeps
<1>2. CASE MirrorNext
  BY <1>2, OwnerKeeps, OperatorKeeps, CommandKeeps, SetEnabledKeeps, ReadDetailKeeps, SaveDetailKeeps,
     ListingKeeps, ReconcileKeeps, RefreshKeeps DEF MirrorNext
<1> QED BY <1>1, <1>2

\* What readers and commands carry of Pixiv between their requests and their
\* writes is right but for what changed since and marked it (listings, saves of
\* a work, bookmark and follow commands).
THEOREM MirrorInvariant == MirrorSpec => []MirrorInv
<1> QED BY MirrorInitInv, MirrorNextInv, PixivMirrorAssumption, PTL DEF MirrorSpec

(* Once a listing that Pixiv did not change under has replaced a copy, the
   copy is what Pixiv shows until Pixiv changes or a command is given: for any
   number of commands, readers, works and artists and every page size
   (reconcile_full, sync_authors). *)
THEOREM CopiesSettle == MirrorSpec => []SettledMirrors
<1>1. MirrorInv => SettledMirrors
  BY DEF MirrorInv, MarksInv, FollowsInv, SettledMirrors
<1> QED BY <1>1, MirrorInvariant, PTL

\* What changes a reader of the followed artists and is no listing written
\* leaves the exclusions alone.
LEMMA OthersExclude ==
  ASSUME [MirrorNext]_mirrorVars, refresh' # refresh
  PROVE  UNCHANGED excluded \/ \E r \in Refresher : Sync(r)
<1>1. MirrorNext
  BY DEF mirrorVars, following
<1>2. ASSUME OwnerStep PROVE UNCHANGED excluded
  BY <1>2 DEF OwnerStep, OwnerMarks, OwnerUnmarks, OwnerFollows, OwnerUnfollows, following
<1>3. ASSUME NEW c \in Command, OperatorStep(c) \/ CommandFails(c) PROVE FALSE
  BY <1>3 DEF OperatorStep, StartAdd, StartRemove, StartFollow, CommandFails, following
<1>4. ASSUME NEW c \in Command, CommandStep(c) PROVE UNCHANGED excluded
  BY <1>4 DEF CommandStep, SendAdd, ResolveLocally, ResolveAtPixiv, SendRemove, ProjectMark, ReadFollow,
              SendFollow, VerifyFollow, ProjectFollow, following
<1>5. ASSUME NEW artists, NEW enabled, SetEnabled(artists, enabled) PROVE FALSE
  BY <1>5 DEF SetEnabled
<1>6. ASSUME \/ \E w \in Work : ReadDetail(w)
             \/ SaveDetail \/ IntervalPasses \/ (\E backfill \in BOOLEAN : ListMarks(backfill))
             \/ ReadMarks \/ Reconcile \/ ListingEnds
      PROVE  FALSE
  BY <1>6 DEF ReadDetail, SaveDetail, IntervalPasses, ListMarks, ReadMarks, Reconcile, ListingEnds,
              following
<1>7. ASSUME NEW r \in Refresher, RefreshStep(r) \/ RefreshEnds(r) PROVE UNCHANGED excluded \/ Sync(r)
  BY <1>7 DEF RefreshStep, RefreshEnds, ListFollows, ReadFollows
<1> QED BY <1>1, <1>2, <1>3, <1>4, <1>5, <1>6, <1>7 DEF MirrorNext

(* A listing of the followed artists that Pixiv did not change under keeps the
   operator's exclusion of every artist it shows (sync_authors). *)
THEOREM ExclusionsOutlive == MirrorSpec => ExclusionOutlivesListing
<1>1. ASSUME MirrorInv, [MirrorNext]_mirrorVars, NEW r \in Refresher,
             refresh[r].step = "write", refresh'[r].step = "idle", refresh[r].still,
             NEW a \in excluded, Followed(a)
      PROVE  a \in excluded'
  <2>0. FollowsInv /\ FollowsTypes
    BY <1>1 DEF MirrorInv, FollowsInv
  <2>1. Seen(refresh[r], a) = Shown(follows, a)
    BY <1>1, <2>0, SeenIsShown DEF FollowsInv, FollowsTypes
  <2>2. refresh' # refresh
    BY <1>1
  <2>3. UNCHANGED excluded \/ \E other \in Refresher : Sync(other)
    BY <1>1, <2>2, OthersExclude
  <2>4. ASSUME NEW other \in Refresher, Sync(other) PROVE a \in excluded'
    <3>1. other = r
      BY <1>1, <2>0, <2>4 DEF Sync, FollowsTypes
    <3> QED BY <1>1, <2>1, <2>4, <3>1 DEF Sync, StaysExcluded, Followed
  <2> QED BY <1>1, <2>3, <2>4
<1>2. MirrorInv /\ [MirrorNext]_mirrorVars =>
        [\A r \in Refresher :
           (refresh[r].step = "write" /\ refresh'[r].step = "idle" /\ refresh[r].still) =>
             \A a \in excluded : Followed(a) => a \in excluded']_mirrorVars
  BY <1>1
<1> QED BY <1>2, MirrorInvariant, PTL DEF MirrorSpec, ExclusionOutlivesListing
=============================================================================
