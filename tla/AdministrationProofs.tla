------------------------ MODULE AdministrationProofs ------------------------
(***************************************************************************)
(* Administration: what is proved about logins and sessions and about the  *)
(* purge of the trash.                                                     *)
(***************************************************************************)
EXTENDS AdminSessions, TrashPurge, FiniteSetTheorems, TLAPS

-----------------------------------------------------------------------------
(***************************************************************************)
(* Proofs about logins and sessions, for any number of logins, addresses,  *)
(* runs of prepare and passwords, any thresholds and any number of         *)
(* troubles.                                                               *)
(***************************************************************************)

\* Shape of the rows and of what logins and runs of prepare carry.  A count of
\* orphans is only known to be an integer here.
SessionsShape ==
  /\ admin \in AdminRow \cup {Unset}
  /\ login \in [Login -> LoginRow]
  /\ bucket \in [Bucket -> BucketRow]
  /\ orphans \in [Bucket -> Int]
  /\ session \in [Login -> [state : {"none", "fresh", "due"}, version : Nat]]
  /\ prepare \in [Preparer -> PrepareRow]

\* A live session was issued under the version in force, so there is one.
Backed(l) == Live(session[l]) => admin # Unset /\ session[l].version = admin.version

Fits(b) == bucket[b].failures + ActiveReservations(b) <= Limit(b)

SessionsInv ==
  /\ SessionsShape
  /\ \A l \in Login : Backed(l)
  /\ \A b \in Bucket : Fits(b)
-----------------------------------------------------------------------------
(* Counting reservations *)

\* Login l holds a reservation in bucket b.
Counts(l, b) == Holding(l) /\ b \in BucketsOf(login[l].source)

\* HeldIn(b) follows what one login does.
LEMMA HeldStep ==
  ASSUME NEW l \in Login, \A k \in Login \ {l} : login'[k] = login[k], NEW b
  PROVE  /\ HeldIn(b) \in Nat /\ HeldIn(b)' \in Nat
         /\ (Counts(l, b) <=> Counts(l, b)') => HeldIn(b)' = HeldIn(b)
         /\ Counts(l, b) /\ ~Counts(l, b)' => HeldIn(b)' = HeldIn(b) - 1
         /\ ~Counts(l, b) /\ Counts(l, b)' => HeldIn(b)' = HeldIn(b) + 1
<1> DEFINE S == {k \in Login : Counts(k, b)}
           T == {k \in Login : Counts(k, b)'}
<1>1. HeldIn(b) = Cardinality(S) /\ HeldIn(b)' = Cardinality(T)
  BY DEF HeldIn, Counts
<1>2. \A k \in Login \ {l} : Counts(k, b) <=> Counts(k, b)'
  BY DEF Counts, Holding
<1>3. IsFiniteSet(S) /\ IsFiniteSet(T)
  BY SessionsAssumption, FS_Subset
<1>4. Cardinality(S) \in Nat /\ Cardinality(T) \in Nat
  BY <1>3, FS_CardinalityType
<1>5. ASSUME Counts(l, b) <=> Counts(l, b)' PROVE S = T
  BY <1>2, <1>5
<1>6. ASSUME Counts(l, b), ~Counts(l, b)' PROVE Cardinality(T) = Cardinality(S) - 1
  <2>1. T = S \ {l} /\ l \in S
    BY <1>2, <1>6
  <2> HIDE DEF S, T
  <2> QED BY <1>3, <2>1, FS_RemoveElement
<1>7. ASSUME ~Counts(l, b), Counts(l, b)' PROVE Cardinality(T) = Cardinality(S) + 1
  <2>1. T = S \cup {l} /\ l \notin S
    BY <1>2, <1>7
  <2> HIDE DEF S, T
  <2> QED BY <1>3, <2>1, FS_AddElement
<1> HIDE DEF S, T
<1> QED BY <1>1, <1>4, <1>5, <1>6, <1>7

\* Logins that stay hold what they held.
LEMMA HeldSame ==
  ASSUME login' = login, NEW b
  PROVE  HeldIn(b) \in Nat /\ HeldIn(b)' = HeldIn(b)
<1> DEFINE S == {k \in Login : Holding(k) /\ b \in BucketsOf(login[k].source)}
<1>1. HeldIn(b) = Cardinality(S) /\ HeldIn(b)' = HeldIn(b)
  BY DEF HeldIn, Holding
<1>2. IsFiniteSet(S)
  BY SessionsAssumption, FS_Subset
<1> HIDE DEF S
<1> QED BY <1>1, <1>2, FS_CardinalityType

\* A bucket allows a number of failures.
LEMMA LimitNat == ASSUME NEW b \in Bucket PROVE Limit(b) \in Nat
BY SessionsAssumption DEF Bucket, Limit, Kind

\* The failures a bucket has counted after a step.
LEMMA BucketTypes ==
  ASSUME NEW row \in BucketRow
  PROVE  /\ row.failures \in Nat
         /\ Renewed(row) \in BucketRow /\ Renewed(row).failures \in Nat
<1>1. FreshBucket \in BucketRow
  BY DEF FreshBucket, BucketRow
<1> QED BY <1>1 DEF Renewed, BucketRow
-----------------------------------------------------------------------------
(* Shapes *)

\* A login that goes on keeps what it sent and read.
LEMMA MoveType ==
  ASSUME SessionsShape, NEW l \in Login, login[l].step # "idle",
         NEW step \in LoginSteps \ {"idle"}, MoveTo(l, step)
  PROVE  /\ login' \in [Login -> LoginRow]
         /\ login'[l].step = step /\ login'[l].source = login[l].source
         /\ \A k \in Login \ {l} : login'[k] = login[k]
<1>1. login[l] \in [step : LoginSteps \ {"idle"}, source : Source, sent : Password,
                    seen : AdminRow]
  BY DEF SessionsShape, LoginRow, NotLoggingIn
<1> DEFINE row == [login[l] EXCEPT !.step = step]
<1>2. row \in LoginRow /\ row.step = step /\ row.source = login[l].source
  BY <1>1 DEF LoginRow
<1>3. login' = [login EXCEPT ![l] = row]
  BY DEF MoveTo
<1> HIDE DEF row
<1> QED BY <1>2, <1>3 DEF SessionsShape

\* A login that ends holds nothing.
LEMMA ForgetType ==
  ASSUME SessionsShape, NEW l \in Login, Forget(l)
  PROVE  /\ login' \in [Login -> LoginRow]
         /\ login'[l].step = "idle"
         /\ \A k \in Login \ {l} : login'[k] = login[k]
<1>1. NotLoggingIn \in LoginRow /\ NotLoggingIn.step = "idle"
  BY DEF NotLoggingIn, LoginRow
<1>2. login' = [login EXCEPT ![l] = NotLoggingIn]
  BY DEF Forget
<1> HIDE DEF NotLoggingIn
<1> QED BY <1>1, <1>2 DEF SessionsShape

\* What a login that is under way has read is a row of the table.
LEMMA SeenType ==
  ASSUME SessionsShape, NEW l \in Login, login[l].step # "idle"
  PROVE  login[l].seen \in AdminRow
BY DEF SessionsShape, LoginRow, NotLoggingIn

\* The parts of the shape, each with its own transactions.
LEMMA LoginShape ==
  ASSUME SessionsShape, [SessionsNext]_sessionsVars
  PROVE  login' \in [Login -> LoginRow]
<1>1. ASSUME NEW l \in Login, LoginStep(l) PROVE login' \in [Login -> LoginRow]
  <2>1. ASSUME NEW s \in Source, NEW p \in Password, admin # Unset, StartLogin(l, s, p)
        PROVE  login' \in [Login -> LoginRow]
    <3> DEFINE row == [step |-> "read", source |-> s, sent |-> p, seen |-> admin]
    <3>1. row \in LoginRow
      BY <2>1 DEF SessionsShape, LoginRow, LoginSteps
    <3>2. login' = [login EXCEPT ![l] = row]
      BY <2>1 DEF StartLogin
    <3> HIDE DEF row
    <3> QED BY <3>1, <3>2 DEF SessionsShape
  <2>2. ASSUME NEW s \in Source, LoginWithPassword(l, s) \/ LoginWithAnother(l, s)
        PROVE  login' \in [Login -> LoginRow]
    <3>1. admin # Unset /\ \E p \in Password : StartLogin(l, s, p)
      BY <2>2 DEF LoginWithPassword, LoginWithAnother, SessionsShape, AdminRow
    <3> QED BY <2>1, <3>1
  <2>3. CASE Refuse(l) \/ RecordLoginFailure(l) \/ FinalizeLogin(l) \/ Release(l) \/ Drop(l)
    BY <2>3, ForgetType DEF Refuse, RecordLoginFailure, FinalizeLogin, Release, Drop
  <2>4. CASE Reserve(l) \/ Verify(l) \/ LoseToChange(l) \/ SettleFails(l)
    <3>1. login[l].step # "idle"
          /\ \E step \in LoginSteps \ {"idle"} : MoveTo(l, step)
      BY <2>4 DEF Reserve, Verify, LoseToChange, SettleFails, LoginSteps
    <3> QED BY <3>1, MoveType
  <2> QED BY <1>1, <2>2, <2>3, <2>4 DEF LoginStep
<1>2. CASE login' = login
  BY <1>2 DEF SessionsShape
<1>3. (\E l \in Login : LoginStep(l)) \/ login' = login
  BY DEF SessionsNext, SessionStep, BecomesDue, Authenticate, SessionEnds, Logout, SetSession,
         PrepareStep, PrepareReads, PrepareCreates, PrepareUpdates, PrepareFails, Time,
         LeaseLapses, WindowPasses, CooldownEnds, sessionsVars
<1> QED BY <1>1, <1>2, <1>3

\* The administrator's row changes only in these three transactions.
LEMMA AdminSteps ==
  ASSUME [SessionsNext]_sessionsVars
  PROVE  \/ admin' = admin
         \/ \E l \in Login : FinalizeLogin(l)
         \/ \E r \in Preparer : PrepareCreates(r) \/ PrepareUpdates(r)
BY DEF SessionsNext, LoginStep, LoginWithPassword, LoginWithAnother, StartLogin, Reserve,
       Refuse, Verify, RecordLoginFailure, LoseToChange, SettleFails, Release, Drop,
       SessionStep, BecomesDue, Authenticate, SessionEnds, Logout, SetSession, PrepareStep,
       PrepareReads, PrepareFails, Time, LeaseLapses, WindowPasses, CooldownEnds,
       sessionsVars

\* Sessions change in these.
LEMMA SessionSteps ==
  ASSUME [SessionsNext]_sessionsVars
  PROVE  \/ session' = session
         \/ \E l \in Login : FinalizeLogin(l) \/ SessionStep(l)
         \/ \E r \in Preparer : PrepareUpdates(r)
BY DEF SessionsNext, LoginStep, LoginWithPassword, LoginWithAnother, StartLogin, Reserve,
       Refuse, Verify, RecordLoginFailure, LoseToChange, SettleFails, Release, Drop,
       PrepareStep, PrepareReads, PrepareCreates, PrepareFails, Time, LeaseLapses,
       WindowPasses, CooldownEnds, sessionsVars

LEMMA AdminShape ==
  ASSUME SessionsShape, [SessionsNext]_sessionsVars
  PROVE  /\ admin' \in AdminRow \cup {Unset}
         /\ admin # Unset => admin' # Unset
<1>1. ASSUME NEW l \in Login, FinalizeLogin(l) PROVE admin' \in AdminRow
  <2>1. admin \in AdminRow
    BY <1>1, SeenType DEF FinalizeLogin, Unmoved
  <2>2. [admin EXCEPT !.old = FALSE, !.revision = @ + 1] \in AdminRow
    <3>1. ASSUME NEW n \in Nat PROVE [admin EXCEPT !.old = FALSE, !.revision = n] \in AdminRow
      BY <2>1, Zenon DEF AdminRow
    <3>2. admin.revision + 1 \in Nat
      BY <2>1 DEF AdminRow
    <3> QED BY <3>1, <3>2
  <2>3. \/ admin' = [admin EXCEPT !.old = FALSE, !.revision = @ + 1]
        \/ admin' = admin
    BY <1>1 DEF FinalizeLogin
  <2> QED BY <2>1, <2>2, <2>3
<1>2. ASSUME NEW r \in Preparer, PrepareCreates(r) \/ PrepareUpdates(r)
      PROVE  admin' \in AdminRow
  <2>1. prepare[r].wanted \in Password
    BY <1>2 DEF PrepareCreates, PrepareUpdates, SessionsShape, PrepareRow, NotPreparing
  <2>2. CASE PrepareCreates(r)
    BY <2>1, <2>2 DEF PrepareCreates, AdminRow
  <2>3. CASE PrepareUpdates(r)
    <3>1. admin \in AdminRow
      BY <2>3 DEF PrepareUpdates, Unmoved, SessionsShape
    <3> QED BY <2>1, <2>3, <3>1 DEF PrepareUpdates, AdminRow
  <2> QED BY <1>2, <2>2, <2>3
<1>3. CASE admin' = admin
  BY <1>3 DEF SessionsShape
<1> QED BY <1>1, <1>2, <1>3, AdminSteps, SessionsAssumption

LEMMA SessionShape ==
  ASSUME SessionsShape, [SessionsNext]_sessionsVars
  PROVE  session' \in [Login -> [state : {"none", "fresh", "due"}, version : Nat]]
<1> DEFINE Row == [state : {"none", "fresh", "due"}, version : Nat]
<1>1. NoSession \in Row
      /\ \A state \in {"fresh", "due"} : \A version \in Nat : Session(state, version) \in Row
  BY DEF NoSession, Session
<1>2. \A l \in Login : session[l] \in Row /\ session[l].version \in Nat
  BY DEF SessionsShape
<1>3. ASSUME NEW l \in Login, FinalizeLogin(l) PROVE session' \in [Login -> Row]
  <2>1. login[l].seen.version \in Nat
    BY <1>3, SeenType DEF FinalizeLogin, AdminRow
  <2>2. Session("fresh", login[l].seen.version) \in Row
    BY <1>1, <2>1
  <2> HIDE DEF Row
  <2> QED BY <1>3, <2>2 DEF FinalizeLogin, SessionsShape, Row
<1>4. ASSUME NEW l \in Login, SessionStep(l) PROVE session' \in [Login -> Row]
  <2>1. \E row \in Row : session' = [session EXCEPT ![l] = row]
    BY <1>1, <1>2, <1>4
       DEF SessionStep, BecomesDue, Authenticate, SessionEnds, Logout, SetSession
  <2> QED BY <2>1 DEF SessionsShape
<1>5. ASSUME NEW r \in Preparer, PrepareUpdates(r) PROVE session' \in [Login -> Row]
  BY <1>1, <1>2, <1>5 DEF PrepareUpdates, Revoked
<1> QED BY <1>3, <1>4, <1>5, SessionSteps DEF SessionsShape

LEMMA BucketShape ==
  ASSUME SessionsShape, [SessionsNext]_sessionsVars
  PROVE  bucket' \in [Bucket -> BucketRow]
<1>1. \A b \in Bucket : bucket[b] \in BucketRow /\ Renewed(bucket[b]) \in BucketRow
  BY BucketTypes DEF SessionsShape
<1>2. ASSUME NEW b \in Bucket PROVE CountFailure(b) \in BucketRow
  <2>1. ASSUME NEW n \in Nat, NEW cooling \in BOOLEAN
        PROVE  [bucket[b] EXCEPT !.failures = n, !.cooling = cooling] \in BucketRow
    BY <1>1, Zenon DEF BucketRow
  <2>2. /\ bucket[b].failures + 1 \in Nat
        /\ (bucket[b].cooling \/ bucket[b].failures + 1 >= Limit(b)) \in BOOLEAN
    BY <1>1 DEF BucketRow
  <2> QED BY <2>1, <2>2 DEF CountFailure
<1>3. \A row \in BucketRow :
        /\ [row EXCEPT !.failures = 0, !.cooling = FALSE] \in BucketRow
        /\ [row EXCEPT !.window = "passed"] \in BucketRow
        /\ [row EXCEPT !.cooling = FALSE] \in BucketRow
  BY DEF BucketRow
<1>4. ASSUME NEW l \in Login, Reserve(l) PROVE bucket' \in [Bucket -> BucketRow]
  BY <1>1, <1>4 DEF Reserve
<1>5. ASSUME NEW l \in Login, RecordLoginFailure(l) PROVE bucket' \in [Bucket -> BucketRow]
  BY <1>1, <1>2, <1>5 DEF RecordLoginFailure
<1>6. ASSUME NEW l \in Login, FinalizeLogin(l) PROVE bucket' \in [Bucket -> BucketRow]
  BY <1>1, <1>3, <1>6 DEF FinalizeLogin
<1>7. ASSUME NEW b \in Bucket, WindowPasses(b) \/ CooldownEnds(b)
      PROVE  bucket' \in [Bucket -> BucketRow]
  <2>1. \E row \in BucketRow : bucket' = [bucket EXCEPT ![b] = row]
    BY <1>1, <1>3, <1>7 DEF WindowPasses, CooldownEnds
  <2> QED BY <2>1 DEF SessionsShape
<1>8. \/ bucket' = bucket
      \/ \E l \in Login : Reserve(l) \/ RecordLoginFailure(l) \/ FinalizeLogin(l)
      \/ \E b \in Bucket : WindowPasses(b) \/ CooldownEnds(b)
  BY DEF SessionsNext, LoginStep, LoginWithPassword, LoginWithAnother, StartLogin, Refuse,
         Verify, LoseToChange, SettleFails, Release, Drop, SessionStep, BecomesDue,
         Authenticate, SessionEnds, Logout, SetSession, PrepareStep, PrepareReads,
         PrepareCreates, PrepareUpdates, PrepareFails, Time, LeaseLapses, sessionsVars
<1> QED BY <1>4, <1>5, <1>6, <1>7, <1>8 DEF SessionsShape

LEMMA OrphanShape ==
  ASSUME SessionsShape, [SessionsNext]_sessionsVars
  PROVE  orphans' \in [Bucket -> Int]
<1>1. \A b \in Bucket : orphans[b] \in Int
  BY DEF SessionsShape
<1>2. ASSUME NEW l \in Login, Drop(l) PROVE orphans' \in [Bucket -> Int]
  BY <1>1, <1>2 DEF Drop
<1>3. ASSUME NEW s \in Source, LeaseLapses(s) PROVE orphans' \in [Bucket -> Int]
  BY <1>1, <1>3 DEF LeaseLapses
<1>4. \/ orphans' = orphans
      \/ \E l \in Login : Drop(l)
      \/ \E s \in Source : LeaseLapses(s)
  BY DEF SessionsNext, LoginStep, LoginWithPassword, LoginWithAnother, StartLogin, Reserve,
         Refuse, Verify, RecordLoginFailure, FinalizeLogin, LoseToChange, SettleFails,
         Release, SessionStep, BecomesDue, Authenticate, SessionEnds, Logout, SetSession,
         PrepareStep, PrepareReads, PrepareCreates, PrepareUpdates, PrepareFails, Time,
         WindowPasses, CooldownEnds, sessionsVars
<1> QED BY <1>2, <1>3, <1>4 DEF SessionsShape

LEMMA PrepareShape ==
  ASSUME SessionsShape, [SessionsNext]_sessionsVars
  PROVE  prepare' \in [Preparer -> PrepareRow]
<1>1. NotPreparing \in PrepareRow
  BY DEF PrepareRow
<1>2. ASSUME NEW r \in Preparer, PrepareStep(r) PROVE prepare' \in [Preparer -> PrepareRow]
  <2>1. ASSUME NEW p \in Password, PrepareReads(r, p) PROVE prepare' \in [Preparer -> PrepareRow]
    <3> DEFINE row == [step |-> "read", wanted |-> p, seen |-> admin]
    <3>1. row \in PrepareRow
      BY DEF PrepareRow, SessionsShape
    <3>2. prepare' = [prepare EXCEPT ![r] = row]
      BY <2>1 DEF PrepareReads
    <3> HIDE DEF row
    <3> QED BY <3>1, <3>2 DEF SessionsShape
  <2>2. CASE StopPreparing(r)
    <3> HIDE DEF NotPreparing
    <3> QED BY <1>1, <2>2 DEF StopPreparing, SessionsShape
  <2> QED BY <1>2, <2>1, <2>2 DEF PrepareStep, PrepareCreates, PrepareUpdates, PrepareFails
<1>3. prepare' = prepare \/ \E r \in Preparer : PrepareStep(r)
  BY DEF SessionsNext, LoginStep, LoginWithPassword, LoginWithAnother, StartLogin, Reserve,
         Refuse, Verify, RecordLoginFailure, FinalizeLogin, LoseToChange, SettleFails,
         Release, Drop, SessionStep, BecomesDue, Authenticate, SessionEnds, Logout,
         SetSession, Time, LeaseLapses, WindowPasses, CooldownEnds, sessionsVars
<1> QED BY <1>2, <1>3 DEF SessionsShape

LEMMA ShapeStep ==
  ASSUME SessionsShape, [SessionsNext]_sessionsVars
  PROVE  SessionsShape'
<1>1. /\ admin' \in AdminRow \cup {Unset}
      /\ login' \in [Login -> LoginRow]
      /\ bucket' \in [Bucket -> BucketRow]
      /\ orphans' \in [Bucket -> Int]
      /\ session' \in [Login -> [state : {"none", "fresh", "due"}, version : Nat]]
      /\ prepare' \in [Preparer -> PrepareRow]
  BY AdminShape, LoginShape, BucketShape, OrphanShape, SessionShape, PrepareShape
<1> QED BY <1>1 DEF SessionsShape
-----------------------------------------------------------------------------
(* Sessions *)

\* A login issues a session only under the row it verified the password of, and
\* whoever stores another password ends the sessions there are.
LEMMA BackedStep ==
  ASSUME SessionsShape, \A l \in Login : Backed(l), [SessionsNext]_sessionsVars
  PROVE  \A l \in Login : Backed(l)'
<1>0. \A l \in Login : session[l] \in [state : {"none", "fresh", "due"}, version : Nat]
  BY DEF SessionsShape
<1>1. ASSUME NEW l \in Login, FinalizeLogin(l) PROVE \A k \in Login : Backed(k)'
  <2>1. admin = login[l].seen /\ admin \in AdminRow
    BY <1>1, SeenType DEF FinalizeLogin, Unmoved
  <2>2. admin # Unset /\ admin' # Unset
    BY <2>1, SessionsAssumption, AdminShape
  <2>3. admin'.version = admin.version
    <3>1. [admin EXCEPT !.old = FALSE, !.revision = @ + 1].version = admin.version
      BY <2>1 DEF AdminRow
    <3>2. \/ admin' = [admin EXCEPT !.old = FALSE, !.revision = @ + 1]
          \/ admin' = admin
      BY <1>1 DEF FinalizeLogin
    <3> QED BY <3>1, <3>2
  <2>4. session'[l].version = admin.version /\ \A k \in Login \ {l} : session'[k] = session[k]
    BY <1>1, <2>1 DEF FinalizeLogin, Session, SessionsShape
  <2> QED BY <2>2, <2>3, <2>4 DEF Backed, Live
<1>2. ASSUME NEW l \in Login, SessionStep(l) PROVE \A k \in Login : Backed(k)'
  <2>1. admin' = admin
    BY <1>2 DEF SessionStep, BecomesDue, Authenticate, SessionEnds, Logout, SetSession
  <2>2. PICK row : /\ session' = [session EXCEPT ![l] = row]
                   /\ Live(row) => Live(session[l]) /\ row.version = session[l].version
    BY <1>2 DEF SessionStep, BecomesDue, Authenticate, SessionEnds, Logout, SetSession,
                Live, Session, NoSession
  <2>3. \A k \in Login : Live(session'[k]) => /\ Live(session[k])
                                             /\ session'[k].version = session[k].version
    <3>1. session'[l] = row /\ \A k \in Login \ {l} : session'[k] = session[k]
      BY <2>2 DEF SessionsShape
    <3> QED BY <2>2, <3>1
  <2> QED BY <2>1, <2>3 DEF Backed
<1>3. ASSUME NEW r \in Preparer, PrepareUpdates(r) PROVE \A k \in Login : Backed(k)'
  <2>1. \A k \in Login : ~Live(session'[k])
    BY <1>3 DEF PrepareUpdates, Revoked, Live, NoSession
  <2> QED BY <2>1 DEF Backed
<1>4. ASSUME NEW r \in Preparer, PrepareCreates(r) PROVE \A k \in Login : Backed(k)'
  <2>1. \A k \in Login : ~Live(session[k])
    BY <1>4 DEF PrepareCreates, Backed
  <2>2. session' = session
    BY <1>4 DEF PrepareCreates
  <2> QED BY <2>1, <2>2 DEF Backed
<1>5. CASE admin' = admin /\ session' = session
  BY <1>5 DEF Backed
<1> QED BY <1>1, <1>2, <1>3, <1>4, <1>5, AdminSteps, SessionSteps
-----------------------------------------------------------------------------
(* Rate limits *)

\* The numbers in a bucket.
LEMMA BucketNumbers ==
  ASSUME SessionsShape, NEW b \in Bucket
  PROVE  /\ bucket[b].failures \in Nat /\ orphans[b] \in Int /\ Limit(b) \in Nat
         /\ bucket[b] \in BucketRow
         /\ ActiveReservations(b) = HeldIn(b) + orphans[b]
         /\ ActiveReservations(b)' = HeldIn(b)' + orphans'[b]
BY LimitNat DEF SessionsShape, BucketRow, ActiveReservations

\* Steps that move no reservation and count no failure.
LEMMA QuietFits ==
  ASSUME SessionsShape, NEW b \in Bucket, Fits(b), login' = login,
         orphans'[b] <= orphans[b], orphans'[b] \in Int,
         bucket'[b].failures = bucket[b].failures
  PROVE  Fits(b)'
<1>1. HeldIn(b) \in Nat /\ HeldIn(b)' = HeldIn(b)
  BY HeldSame
<1> QED BY <1>1, BucketNumbers DEF Fits, Limit

\* A step of a login, by what it does in bucket b: it leaves the bucket alone,
\* takes a place there was room for, counts a failure or clears them in its place,
\* gives the place up or leaves it behind.
LEMMA LoginFits ==
  ASSUME SessionsShape, NEW b \in Bucket, Fits(b), NEW l \in Login,
         \A k \in Login \ {l} : login'[k] = login[k],
         \/ /\ Counts(l, b) <=> Counts(l, b)'
            /\ bucket'[b].failures = bucket[b].failures /\ orphans'[b] = orphans[b]
         \/ /\ ~Counts(l, b) /\ Counts(l, b)' /\ HasRoom(b)
            /\ bucket'[b] = Renewed(bucket[b]) /\ orphans'[b] = orphans[b]
         \/ /\ Counts(l, b) /\ ~Counts(l, b)'
            /\ bucket'[b].failures = bucket[b].failures + 1 /\ orphans'[b] = orphans[b]
         \/ /\ Counts(l, b) /\ ~Counts(l, b)'
            /\ bucket'[b].failures \in {0, bucket[b].failures} /\ orphans'[b] = orphans[b]
         \/ /\ Counts(l, b) /\ ~Counts(l, b)'
            /\ bucket'[b].failures = bucket[b].failures /\ orphans'[b] = orphans[b] + 1
  PROVE  Fits(b)'
<1>1. /\ HeldIn(b) \in Nat /\ HeldIn(b)' \in Nat
      /\ (Counts(l, b) <=> Counts(l, b)') => HeldIn(b)' = HeldIn(b)
      /\ Counts(l, b) /\ ~Counts(l, b)' => HeldIn(b)' = HeldIn(b) - 1
      /\ ~Counts(l, b) /\ Counts(l, b)' => HeldIn(b)' = HeldIn(b) + 1
  BY HeldStep
<1>2. /\ bucket[b].failures \in Nat /\ orphans[b] \in Int /\ Limit(b) \in Nat
      /\ ActiveReservations(b) = HeldIn(b) + orphans[b]
      /\ ActiveReservations(b)' = HeldIn(b)' + orphans'[b]
      /\ Renewed(bucket[b]).failures \in Nat
  BY BucketNumbers, BucketTypes
<1>3. bucket[b].failures + HeldIn(b) + orphans[b] <= Limit(b)
  BY <1>1, <1>2 DEF Fits
<1>4. HasRoom(b) => Renewed(bucket[b]).failures + HeldIn(b) + orphans[b] < Limit(b)
  BY <1>1, <1>2 DEF HasRoom
<1>5. bucket'[b].failures + (HeldIn(b)' + orphans'[b]) <= Limit(b)
  BY <1>1, <1>2, <1>3, <1>4
<1> QED BY <1>2, <1>5 DEF Fits, Limit

\* A login under way comes from a source, and counts in no other's bucket.
LEMMA FitsStep ==
  ASSUME SessionsShape, [SessionsNext]_sessionsVars, NEW b \in Bucket, Fits(b)
  PROVE  Fits(b)'
<1>0. /\ bucket[b].failures \in Nat /\ orphans[b] \in Int
      /\ bucket[b] \in BucketRow
  BY BucketNumbers
<1>1. ASSUME NEW l \in Login, LoginStep(l) PROVE Fits(b)'
  <2> DEFINE own == b \in BucketsOf(login[l].source)
  <2>0. Counts(l, b) <=> Holding(l) /\ own
    BY DEF Counts
  <2>1. ASSUME NEW s \in Source, LoginWithPassword(l, s) \/ LoginWithAnother(l, s)
        PROVE  Fits(b)'
    <3>1. PICK p : StartLogin(l, s, p)
      BY <2>1 DEF LoginWithPassword, LoginWithAnother
    <3>2. /\ login'[l].step = "read" /\ login[l].step = "idle"
          /\ \A k \in Login \ {l} : login'[k] = login[k]
          /\ bucket' = bucket /\ orphans' = orphans
      BY <3>1 DEF StartLogin, SessionsShape
    <3>3. ~Counts(l, b) /\ ~Counts(l, b)'
      BY <3>2 DEF Counts, Holding
    <3> QED BY <3>2, <3>3, LoginFits
  <2>2. CASE Reserve(l)
    <3>1. /\ login'[l].step = "reserved" /\ login'[l].source = login[l].source
          /\ \A k \in Login \ {l} : login'[k] = login[k]
      BY <2>2, MoveType DEF Reserve, LoginSteps
    <3>2. ~Counts(l, b) /\ (Counts(l, b)' <=> own)
      BY <2>2, <3>1 DEF Reserve, Counts, Holding
    <3>3. /\ own => HasRoom(b) /\ bucket'[b] = Renewed(bucket[b])
          /\ ~own => bucket'[b] = bucket[b]
          /\ orphans' = orphans
      BY <2>2 DEF Reserve
    <3> HIDE DEF own
    <3> QED BY <3>1, <3>2, <3>3, LoginFits
  <2>3. CASE Refuse(l)
    <3>1. /\ login'[l].step = "idle" /\ login[l].step = "read"
          /\ \A k \in Login \ {l} : login'[k] = login[k]
          /\ bucket' = bucket /\ orphans' = orphans
      BY <2>3, ForgetType DEF Refuse
    <3>2. ~Counts(l, b) /\ ~Counts(l, b)'
      BY <3>1 DEF Counts, Holding
    <3> QED BY <3>1, <3>2, LoginFits
  <2>4. CASE Verify(l) \/ LoseToChange(l) \/ SettleFails(l)
    <3>1. PICK step \in {"verifying", "releasing"} : MoveTo(l, step)
      BY <2>4 DEF Verify, LoseToChange, SettleFails
    <3>2. login[l].step \in {"reserved", "verifying"} /\ bucket' = bucket /\ orphans' = orphans
      BY <2>4 DEF Verify, LoseToChange, SettleFails
    <3>3. /\ login'[l].step = step /\ login'[l].source = login[l].source
          /\ \A k \in Login \ {l} : login'[k] = login[k]
      BY <3>1, <3>2, MoveType DEF LoginSteps
    <3>4. Counts(l, b) <=> Counts(l, b)'
      BY <3>1, <3>2, <3>3 DEF Counts, Holding
    <3> QED BY <3>2, <3>3, <3>4, LoginFits
  <2>5. ASSUME RecordLoginFailure(l) \/ FinalizeLogin(l) \/ Release(l) \/ Drop(l)
        PROVE  /\ \A k \in Login \ {l} : login'[k] = login[k]
               /\ Counts(l, b) <=> own
               /\ ~Counts(l, b)'
    <3>1. /\ Forget(l)
          /\ login[l].step \in {"reserved", "verifying", "releasing"}
      BY <2>5 DEF RecordLoginFailure, FinalizeLogin, Release, Drop, Holding
    <3>2. login'[l].step = "idle" /\ \A k \in Login \ {l} : login'[k] = login[k]
      BY <3>1, ForgetType
    <3> QED BY <3>1, <3>2 DEF Counts, Holding
  <2>6. CASE RecordLoginFailure(l)
    <3>1. /\ own => bucket'[b] = CountFailure(b)
          /\ ~own => bucket'[b] = bucket[b]
          /\ orphans' = orphans
      BY <2>6 DEF RecordLoginFailure
    <3>2. CountFailure(b).failures = bucket[b].failures + 1
      BY <1>0 DEF CountFailure, BucketRow
    <3> HIDE DEF own
    <3> QED BY <2>5, <2>6, <3>1, <3>2, LoginFits
  <2>7. CASE FinalizeLogin(l)
    <3>1. /\ own => bucket'[b] = [bucket[b] EXCEPT !.failures = 0, !.cooling = FALSE]
          /\ ~own => bucket'[b] = bucket[b]
          /\ orphans' = orphans
      BY <2>7 DEF FinalizeLogin
    <3>2. [bucket[b] EXCEPT !.failures = 0, !.cooling = FALSE].failures = 0
      BY <1>0 DEF BucketRow
    <3> HIDE DEF own
    <3> QED BY <2>5, <2>7, <3>1, <3>2, LoginFits
  <2>8. CASE Release(l)
    <3>1. bucket' = bucket /\ orphans' = orphans
      BY <2>8 DEF Release
    <3> HIDE DEF own
    <3> QED BY <2>5, <2>8, <3>1, LoginFits
  <2>9. CASE Drop(l)
    <3>1. /\ bucket' = bucket
          /\ own => orphans'[b] = orphans[b] + 1
          /\ ~own => orphans'[b] = orphans[b]
      BY <2>9 DEF Drop
    <3> HIDE DEF own
    <3> QED BY <2>5, <2>9, <3>1, LoginFits
  <2> QED BY <1>1, <2>1, <2>2, <2>3, <2>4, <2>6, <2>7, <2>8, <2>9 DEF LoginStep
<1>2. ASSUME NEW s \in Source, LeaseLapses(s) PROVE Fits(b)'
  <2>1. /\ orphans'[b] \in {orphans[b] - 1, orphans[b]}
        /\ login' = login /\ bucket' = bucket
    BY <1>2 DEF LeaseLapses
  <2>2. orphans'[b] <= orphans[b] /\ orphans'[b] \in Int
    BY <1>0, <2>1
  <2> QED BY <2>1, <2>2, QuietFits
<1>3. ASSUME NEW c \in Bucket, WindowPasses(c) \/ CooldownEnds(c) PROVE Fits(b)'
  <2>1. login' = login /\ orphans' = orphans
    BY <1>3 DEF WindowPasses, CooldownEnds
  <2>2. /\ [bucket[b] EXCEPT !.window = "passed"].failures = bucket[b].failures
        /\ [bucket[b] EXCEPT !.cooling = FALSE].failures = bucket[b].failures
    BY <1>0 DEF BucketRow
  <2>3. bucket'[b] \in {bucket[b], [bucket[b] EXCEPT !.window = "passed"],
                        [bucket[b] EXCEPT !.cooling = FALSE]}
    BY <1>3 DEF WindowPasses, CooldownEnds, SessionsShape
  <2>4. bucket'[b].failures = bucket[b].failures
    BY <2>2, <2>3
  <2>5. orphans'[b] <= orphans[b] /\ orphans'[b] \in Int
    BY <1>0, <2>1
  <2> QED BY <2>1, <2>4, <2>5, QuietFits
<1>4. CASE UNCHANGED <<login, bucket, orphans>>
  <2>1. orphans'[b] <= orphans[b] /\ orphans'[b] \in Int /\ login' = login
        /\ bucket'[b].failures = bucket[b].failures
    BY <1>0, <1>4
  <2> QED BY <2>1, QuietFits
<1> QED
  BY <1>1, <1>2, <1>3, <1>4
     DEF SessionsNext, SessionStep, BecomesDue, Authenticate, SessionEnds, Logout, SetSession,
         PrepareStep, PrepareReads, PrepareCreates, PrepareUpdates, PrepareFails, Time,
         sessionsVars
-----------------------------------------------------------------------------
(* Theorems *)

LEMMA SessionsInvInit == SessionsInit => SessionsInv
<1> SUFFICES ASSUME SessionsInit PROVE SessionsInv
  OBVIOUS
<1>1. SessionsShape
  <2>1. admin \in AdminRow \cup {Unset}
    BY DEF SessionsInit, AdminRow
  <2>2. NotLoggingIn \in LoginRow /\ NotPreparing \in PrepareRow /\ FreshBucket \in BucketRow
        /\ NoSession \in [state : {"none", "fresh", "due"}, version : Nat]
    BY DEF LoginRow, PrepareRow, FreshBucket, BucketRow, NoSession
  <2> HIDE DEF NotLoggingIn, NotPreparing, FreshBucket, NoSession
  <2> QED BY <2>1, <2>2 DEF SessionsInit, SessionsShape
<1>2. ASSUME NEW l \in Login PROVE Backed(l)
  BY DEF SessionsInit, Backed, Live, NoSession
<1>3. ASSUME NEW b \in Bucket PROVE Fits(b)
  <2>1. {l \in Login : Holding(l) /\ b \in BucketsOf(login[l].source)} = {}
    BY DEF SessionsInit, Holding, NotLoggingIn
  <2>2. HeldIn(b) = 0
    BY <2>1, FS_EmptySet DEF HeldIn
  <2>3. bucket[b].failures = 0 /\ orphans[b] = 0
    BY DEF SessionsInit, FreshBucket
  <2> QED BY <2>2, <2>3, LimitNat DEF Fits, ActiveReservations
<1> QED BY <1>1, <1>2, <1>3 DEF SessionsInv

LEMMA SessionsInvNext == SessionsInv /\ [SessionsNext]_sessionsVars => SessionsInv'
<1> SUFFICES ASSUME SessionsInv, [SessionsNext]_sessionsVars PROVE SessionsInv'
  OBVIOUS
<1>1. SessionsShape'
  BY ShapeStep DEF SessionsInv
<1>2. \A l \in Login : Backed(l)'
  BY BackedStep DEF SessionsInv
<1>3. ASSUME NEW b \in Bucket PROVE Fits(b)'
  BY FitsStep DEF SessionsInv
<1> QED BY <1>1, <1>2, <1>3 DEF SessionsInv

\* Live sessions are of the password in force, and failures and reservations
\* fit their buckets (reserve_rate_limit, finalize_successful_login).
THEOREM SessionsInvariant == SessionsSpec => []SessionsInv
<1> QED BY SessionsInvInit, SessionsInvNext, PTL DEF SessionsSpec

\* No session outlives the password it was issued for: finalize_successful_login
\* compares the row it verified against, and a new password ends what there is.
THEOREM NoOutdatedSession == SessionsSpec => []SessionsMatchPassword
<1>1. SessionsInv => SessionsMatchPassword
  BY DEF SessionsInv, Backed, SessionsMatchPassword
<1> QED BY <1>1, SessionsInvariant, PTL

\* Parallel guesses never outrun a bucket's count, however many logins run.
THEOREM GuessesBounded == SessionsSpec => []FailuresBounded
<1>1. SessionsInv => FailuresBounded
  BY DEF SessionsInv, Fits, FailuresBounded
<1> QED BY <1>1, SessionsInvariant, PTL

-----------------------------------------------------------------------------
(***************************************************************************)
(* Proofs about the trash, for any number of purge jobs, tasks and files.  *)
(***************************************************************************)

\* A task that removes files does so after the attempt was counted, and a
\* counted attempt is never forgotten while the work exists.
RemovalCounted ==
  \A s \in Slot : slot[s].phase = "removing" =>
    work = "gone" \/ (work = "trash" /\ entry.attempts > 0)

\* A deleted work has no rows left, and a running purge was counted.
NothingLeft ==
  /\ work = "gone" => recorded = {}
  /\ entry.state = "running" => entry.attempts > 0

IInv ==
  /\ TypeOK
  /\ RemovalCounted
  /\ NothingLeft
  /\ RestorableIsComplete
  /\ PurgeCanContinue

USE DEF Entry, JobRow, Task, EntryState, JobState, Phase, Trouble, Kept, Idle, NoEntry

\* The rows and tasks stay well typed.
LEMMA TypeStep == TypeOK /\ [Next]_vars => TypeOK'
<1> SUFFICES ASSUME TypeOK, [Next]_vars PROVE TypeOK'
  OBVIOUS
<1> USE TrashPurgeAssumption DEF TypeOK, Enter, Fails, Leaves, Troubled, Requested
<1>1. CASE MoveToTrash
  BY <1>1 DEF MoveToTrash
<1>2. CASE Restore
  BY <1>2 DEF Restore, Restorable
<1>3. ASSUME NEW j \in Job, EnqueuePurge(j) \/ Cancel(j) \/ Retry(j) PROVE TypeOK'
  BY <1>3 DEF EnqueuePurge, Cancel, Retry
<1>4. ASSUME NEW f \in File, SaveMedia(f) PROVE TypeOK'
  BY <1>4 DEF SaveMedia
<1>5. ASSUME NEW s \in Slot, SlotStep(s) PROVE TypeOK'
  <2>1. CASE LoadPlan(s)
    BY <2>1 DEF LoadPlan
  <2>2. CASE FinishReplay(s)
    BY <2>2 DEF FinishReplay, HoldsLease
  <2>3. CASE BeginPurge(s)
    BY <2>3 DEF BeginPurge
  <2>4. ASSUME NEW f \in File, RemoveFile(s, f) PROVE TypeOK'
    BY <2>4 DEF RemoveFile
  <2>5. CASE RecordFailure(s)
    BY <2>5 DEF RecordFailure
  <2>6. CASE CompletePurge(s)
    BY <2>6 DEF CompletePurge, HoldsLease
  <2>7. CASE CompleteConflicts(s)
    BY <2>7, <2>2 DEF CompleteConflicts
  <2>8. CASE Report(s)
    BY <2>8 DEF Report, HoldsLease
  <2>9. CASE DropStale(s) \/ Crash(s)
    BY <2>9 DEF DropStale, Crash
  <2>10. ASSUME NEW j \in Job, Claim(s, j) PROVE TypeOK'
    BY <2>10 DEF Claim
  <2>11. ASSUME NEW f \in File, NEW error \in {"server", "permanent"}, RemoveFails(s, f, error)
         PROVE  TypeOK'
    BY <2>11 DEF RemoveFails
  <2> QED
    BY <1>5, <2>1, <2>2, <2>3, <2>4, <2>5, <2>6, <2>7, <2>8, <2>9, <2>10, <2>11
       DEF SlotStep, Execute, ReplayPurge
<1>6. CASE UNCHANGED vars
  BY <1>6 DEF vars
<1> QED BY <1>1, <1>2, <1>3, <1>4, <1>5, <1>6 DEF Next, OperatorStep

\* No file is removed before the attempt is counted, and no restore follows it.
LEMMA RemovalStep ==
  TypeOK /\ RemovalCounted /\ NothingLeft /\ RestorableIsComplete /\ [Next]_vars
    => RemovalCounted' /\ NothingLeft' /\ RestorableIsComplete'
<1> DEFINE Good == RemovalCounted /\ NothingLeft /\ RestorableIsComplete
<1> SUFFICES ASSUME TypeOK, RemovalCounted, NothingLeft, RestorableIsComplete, [Next]_vars
             PROVE  Good'
  OBVIOUS
<1> USE TrashPurgeAssumption
        DEF TypeOK, RemovalCounted, NothingLeft, RestorableIsComplete, Enter, Fails, Leaves
<1>1. CASE MoveToTrash
  BY <1>1 DEF MoveToTrash
<1>2. CASE Restore
  BY <1>2 DEF Restore, Restorable
<1>3. ASSUME NEW j \in Job, EnqueuePurge(j) \/ Cancel(j) \/ Retry(j) PROVE Good'
  BY <1>3 DEF EnqueuePurge, Cancel, Retry
<1>4. ASSUME NEW f \in File, SaveMedia(f) PROVE Good'
  BY <1>4 DEF SaveMedia
<1>5. ASSUME NEW s \in Slot, SlotStep(s) PROVE Good'
  <2>1. CASE LoadPlan(s)
    BY <2>1 DEF LoadPlan
  <2>2. CASE FinishReplay(s)
    BY <2>2 DEF FinishReplay
  <2>3. CASE BeginPurge(s)
    BY <2>3 DEF BeginPurge
  <2>4. ASSUME NEW f \in File, RemoveFile(s, f) PROVE Good'
    BY <2>4 DEF RemoveFile
  <2>5. CASE RecordFailure(s)
    BY <2>5 DEF RecordFailure
  <2>6. CASE CompletePurge(s)
    BY <2>6 DEF CompletePurge
  <2>7. CASE CompleteConflicts(s)
    BY <2>7, <2>2 DEF CompleteConflicts
  <2>8. CASE Report(s)
    BY <2>8 DEF Report
  <2>9. CASE DropStale(s) \/ Crash(s)
    BY <2>9 DEF DropStale, Crash
  <2>10. ASSUME NEW j \in Job, Claim(s, j) PROVE Good'
    BY <2>10 DEF Claim
  <2>11. ASSUME NEW f \in File, NEW error \in {"server", "permanent"}, RemoveFails(s, f, error)
         PROVE  Good'
    BY <2>11 DEF RemoveFails
  <2> QED
    BY <1>5, <2>1, <2>2, <2>3, <2>4, <2>5, <2>6, <2>7, <2>8, <2>9, <2>10, <2>11
       DEF SlotStep, Execute, ReplayPurge
<1>6. CASE UNCHANGED vars
  BY <1>6 DEF vars
<1> QED BY <1>1, <1>2, <1>3, <1>4, <1>5, <1>6 DEF Next, OperatorStep

\* While the entry says running, a job stays behind it.
LEMMA ContinueStep ==
  TypeOK /\ NothingLeft /\ PurgeCanContinue /\ [Next]_vars => PurgeCanContinue'
<1> SUFFICES ASSUME TypeOK, NothingLeft, PurgeCanContinue, [Next]_vars PROVE PurgeCanContinue'
  OBVIOUS
<1> USE DEF TypeOK, NothingLeft, PurgeCanContinue, PurgeActive, HoldsLease
<1>1. CASE MoveToTrash
  BY <1>1 DEF MoveToTrash
<1>2. CASE Restore
  BY <1>2 DEF Restore
<1>3. ASSUME NEW j \in Job, EnqueuePurge(j) \/ Cancel(j) \/ Retry(j) PROVE PurgeCanContinue'
  BY <1>3 DEF EnqueuePurge, Cancel, Retry
<1>4. ASSUME NEW f \in File, SaveMedia(f) PROVE PurgeCanContinue'
  BY <1>4 DEF SaveMedia
<1>5. ASSUME NEW s \in Slot, SlotStep(s) PROVE PurgeCanContinue'
  <2>1. CASE LoadPlan(s)
    BY <2>1 DEF LoadPlan
  <2>2. CASE FinishReplay(s)
    BY <2>2 DEF FinishReplay
  <2>3. CASE BeginPurge(s)
    BY <2>3 DEF BeginPurge
  <2>4. ASSUME NEW f \in File, RemoveFile(s, f) PROVE PurgeCanContinue'
    BY <2>4 DEF RemoveFile
  <2>5. CASE RecordFailure(s)
    BY <2>5 DEF RecordFailure
  <2>6. CASE CompletePurge(s)
    BY <2>6 DEF CompletePurge
  <2>7. CASE CompleteConflicts(s)
    BY <2>7, <2>2 DEF CompleteConflicts
  <2>8. CASE Report(s)
    BY <2>8 DEF Report
  <2>9. CASE DropStale(s) \/ Crash(s)
    BY <2>9 DEF DropStale, Crash
  <2>10. ASSUME NEW j \in Job, Claim(s, j) PROVE PurgeCanContinue'
    BY <2>10 DEF Claim
  <2>11. ASSUME NEW f \in File, NEW error \in {"server", "permanent"}, RemoveFails(s, f, error)
         PROVE  PurgeCanContinue'
    BY <2>11 DEF RemoveFails
  <2> QED
    BY <1>5, <2>1, <2>2, <2>3, <2>4, <2>5, <2>6, <2>7, <2>8, <2>9, <2>10, <2>11
       DEF SlotStep, Execute, ReplayPurge
<1>6. CASE UNCHANGED vars
  BY <1>6 DEF vars
<1> QED BY <1>1, <1>2, <1>3, <1>4, <1>5, <1>6 DEF Next, OperatorStep

\* The trash's invariants are inductive.
THEOREM TrashInvariant == Spec => []IInv
<1>1. Init => IInv
  BY TrashPurgeAssumption
     DEF Init, IInv, TypeOK, RemovalCounted, NothingLeft, RestorableIsComplete, PurgeCanContinue
<1>2. IInv /\ [Next]_vars => IInv'
  BY TypeStep, RemovalStep, ContinueStep DEF IInv
<1> QED BY <1>1, <1>2, PTL DEF Spec

\* A work that can still be restored has every recorded file.
THEOREM RestorableComplete == Spec => []RestorableIsComplete
<1>1. IInv => RestorableIsComplete
  BY DEF IInv
<1> QED BY <1>1, TrashInvariant, PTL

\* A purge that has started can always be carried on.
THEOREM PurgeContinues == Spec => []PurgeCanContinue
<1>1. IInv => PurgeCanContinue
  BY DEF IInv
<1> QED BY <1>1, TrashInvariant, PTL

\* A step of the trash is a step of the promised life or leaves it alone.
LEMMA LifecycleStep == IInv /\ IInv' /\ [Next]_vars => [Lifecycle!Next]_Lifecycle!vars
<1> SUFFICES ASSUME IInv, IInv', [Next]_vars PROVE [Lifecycle!Next]_Lifecycle!vars
  OBVIOUS
<1> DEFINE Same == UNCHANGED <<Stage, recorded \subseteq disk>>
<1> USE DEF IInv, TypeOK, Stage
<1>1. CASE MoveToTrash
  BY <1>1 DEF MoveToTrash, RestorableIsComplete, Lifecycle!Next, Lifecycle!Trash, Lifecycle!vars
<1>2. CASE Restore
  BY <1>2 DEF Restore, Restorable, Lifecycle!Next, Lifecycle!Restore, Lifecycle!vars
<1>3. ASSUME NEW j \in Job, EnqueuePurge(j) \/ Cancel(j) \/ Retry(j) PROVE Same
  BY <1>3 DEF EnqueuePurge, Cancel, Retry
<1>4. ASSUME NEW f \in File, SaveMedia(f) PROVE [Lifecycle!Next]_Lifecycle!vars
  BY <1>4 DEF SaveMedia, RestorableIsComplete, Lifecycle!Next, Lifecycle!TouchFiles, Lifecycle!vars
<1>5. ASSUME NEW s \in Slot, SlotStep(s) PROVE [Lifecycle!Next]_Lifecycle!vars
  <2>1. CASE LoadPlan(s) \/ FinishReplay(s) \/ CompleteConflicts(s) \/ Report(s)
             \/ DropStale(s) \/ Crash(s)
    BY <2>1 DEF LoadPlan, FinishReplay, CompleteConflicts, Report, DropStale, Crash, Lifecycle!vars
  <2>2. CASE BeginPurge(s)
    BY <2>2 DEF BeginPurge, NothingLeft, Lifecycle!Next, Lifecycle!StartPurge, Lifecycle!vars
  <2>3. ASSUME NEW f \in File, RemoveFile(s, f) PROVE [Lifecycle!Next]_Lifecycle!vars
    BY <2>3 DEF RemoveFile, RemovalCounted, NothingLeft, Lifecycle!Next, Lifecycle!TouchFiles,
       Lifecycle!vars
  <2>4. CASE RecordFailure(s)
    BY <2>4 DEF RecordFailure, Lifecycle!vars
  <2>5. CASE CompletePurge(s)
    BY <2>5 DEF CompletePurge, NothingLeft, Lifecycle!Next, Lifecycle!FinishPurge
  <2>6. ASSUME NEW j \in Job, Claim(s, j) PROVE Same
    BY <2>6 DEF Claim
  <2>7. ASSUME NEW f \in File, NEW error \in {"server", "permanent"}, RemoveFails(s, f, error)
        PROVE  Same
    BY <2>7 DEF RemoveFails
  <2> QED
    BY <1>5, <2>1, <2>2, <2>3, <2>4, <2>5, <2>6, <2>7
       DEF SlotStep, Execute, ReplayPurge, Lifecycle!vars
<1>6. CASE UNCHANGED vars
  BY <1>6 DEF vars, Lifecycle!vars
<1> QED BY <1>1, <1>2, <1>3, <1>4, <1>5, <1>6 DEF Next, OperatorStep, Lifecycle!vars

\* The trash implements the promised life of a work.
THEOREM TrashImplementsLifecycle == Spec => ImplementsLifecycle
<1>1. Init => Lifecycle!Init
  BY DEF Init, Lifecycle!Init, Stage
<1>2. IInv /\ IInv' /\ [Next]_vars => [Lifecycle!Next]_Lifecycle!vars
  BY LifecycleStep
<1> QED BY <1>1, <1>2, TrashInvariant, PTL DEF Spec, ImplementsLifecycle, Lifecycle!Spec
=============================================================================
