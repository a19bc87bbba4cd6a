--------------------------- MODULE AdminSessions ---------------------------
(***************************************************************************)
(* The administrator's password, the logins and the sessions they issue.   *)
(*                                                                         *)
(* A login (application/src/auth.rs) is four separate steps: it reads the  *)
(* administrator, reserves a place in three rate-limit buckets, verifies   *)
(* the password outside any transaction, and settles: a failure is counted *)
(* in the buckets, a success inserts a session.  pixivarchive-admin        *)
(* prepare stores the installation's password, with reads and a            *)
(* verification before its transaction.  Any number of these run at once,  *)
(* and a login whose client goes away is dropped between two steps.        *)
(*                                                                         *)
(* Time is abstract: a window passes, a cooldown ends, a lease lapses and  *)
(* a session ends as events of their own.  A lease (five minutes) lapses   *)
(* only after its login has been dropped: verifying takes milliseconds.    *)
(***************************************************************************)
EXTENDS Naturals, FiniteSets

CONSTANTS
  Login,       \* the logins under way at one time, each a browser's
  Source,      \* the addresses they come from
  Preparer,    \* runs of pixivarchive-admin prepare
  Password,    \* passwords
  Threshold,   \* how many failures each kind of bucket allows
  Permits,     \* how many passwords are verified at once
  Unset,       \* no administrator row, nothing sent or read
  MaxChanges,  \* how often prepare may change the password
  MaxTroubles  \* wrong passwords, dropped logins, failed writes, ended sessions

Kind == {"entry", "password", "shared"}

(* The buckets a login from source s counts in: the source's own, and the
   two that every login shares. *)
Bucket == Source \cup {"password", "shared"}
BucketsOf(s) == {s, "password", "shared"}
Limit(b) == Threshold[IF b \in Source THEN "entry" ELSE b]

(* An administrator row: the stored hash is its password together with
   whether it was made with older parameters; every write makes a new hash
   and a new revision, and a change of password a new version. *)
AdminRow == [password : Password, old : BOOLEAN, version : Nat, revision : Nat]

ASSUME SessionsAssumption ==
  /\ IsFiniteSet(Login)
  /\ Threshold \in [Kind -> Nat \ {0}]
  /\ Permits \in Nat \ {0}
  /\ MaxChanges \in Nat
  /\ MaxTroubles \in Nat
  /\ Source \cap {"password", "shared"} = {}
  /\ Unset \notin AdminRow

BucketRow == [failures : Nat, window : {"open", "passed"}, cooling : BOOLEAN]
FreshBucket == [failures |-> 0, window |-> "open", cooling |-> FALSE]

(* A session is fresh, or due for a renewal of its idle timeout; one that
   was revoked or has expired is none. *)
NoSession == [state |-> "none", version |-> 0]
Session(state, version) == [state |-> state, version |-> version]

VARIABLES
  admin,    \* the administrator row, or Unset
  login,    \* each login: its step, where it comes from, what it sent and read
  bucket,   \* login_rate_limit
  orphans,  \* how many unexpired reservations of dropped logins each bucket has
  session,  \* the session each browser was last issued
  prepare,  \* each run of prepare: its step, password and the row it read
  troubles  \* how much of MaxTroubles is used

sessionsVars == <<admin, login, bucket, orphans, session, prepare, troubles>>

LoginSteps == {"idle", "read", "reserved", "verifying", "releasing"}
NotLoggingIn ==
  [step |-> "idle", source |-> Unset, sent |-> Unset, seen |-> Unset]
NotPreparing == [step |-> "idle", wanted |-> Unset, seen |-> Unset]
LoginRow ==
  {NotLoggingIn} \cup
    [step : LoginSteps \ {"idle"}, source : Source, sent : Password, seen : AdminRow]
PrepareRow ==
  {NotPreparing} \cup
    [step : {"read"}, wanted : Password, seen : AdminRow \cup {Unset}]

SessionsTypeOK ==
  /\ admin \in AdminRow \cup {Unset}
  /\ login \in [Login -> LoginRow]
  /\ bucket \in [Bucket -> BucketRow]
  /\ orphans \in [Bucket -> Nat]
  /\ session \in [Login -> [state : {"none", "fresh", "due"},
                            version : Nat]]
  /\ prepare \in [Preparer -> PrepareRow]
  /\ troubles \in Nat

SessionsInit ==
  /\ admin \in {Unset} \cup
       [password : Password, old : BOOLEAN, version : {1}, revision : {1}]
  /\ login = [l \in Login |-> NotLoggingIn]
  /\ prepare = [r \in Preparer |-> NotPreparing]
  /\ bucket = [b \in Bucket |-> FreshBucket]
  /\ orphans = [b \in Bucket |-> 0]
  /\ session = [l \in Login |-> NoSession]
  /\ troubles = 0

LoginTrouble == /\ troubles < MaxTroubles
           /\ troubles' = troubles + 1

-----------------------------------------------------------------------------
(* Rate limiting. *)

(* The reservations of bucket b that count: those of logins under way, and
   those dropped logins left behind, until their lease lapses. *)
Holding(l) == login[l].step \in {"reserved", "verifying", "releasing"}
HeldIn(b) ==
  Cardinality({l \in Login : Holding(l) /\ b \in BucketsOf(login[l].source)})
ActiveReservations(b) == HeldIn(b) + orphans[b]

(* reserve_one: a bucket that is cooling rejects; one whose window has
   passed starts a new one; then failures and active reservations together
   must leave room.  Wrong: a new window keeps the old count, or only
   recorded failures are counted. *)
RenewedKeepsCount(row) ==
  IF row.window = "passed"
  THEN [FreshBucket EXCEPT !.failures = row.failures] ELSE row
Renewed(row) == IF row.window = "passed" THEN FreshBucket ELSE row
HasRoomForFailures(b) == /\ ~bucket[b].cooling
                         /\ Renewed(bucket[b]).failures < Limit(b)
HasRoom(b) == /\ ~bucket[b].cooling
              /\ Renewed(bucket[b]).failures + ActiveReservations(b) < Limit(b)

(* record_rate_limit_failure: one more failure, and a cooldown once there
   are as many as the bucket allows. *)
CountFailure(b) ==
  [bucket[b] EXCEPT !.failures = @ + 1,
                    !.cooling = @ \/ bucket[b].failures + 1 >= Limit(b)]

-----------------------------------------------------------------------------
(* A login. *)

Forget(l) == login' = [login EXCEPT ![l] = NotLoggingIn]
MoveTo(l, step) == login' = [login EXCEPT ![l].step = step]

Live(row) == row.state \in {"fresh", "due"}

(* A browser without a session logs in: the administrator is read. *)
StartLogin(l, s, p) ==
  /\ login[l].step = "idle"
  /\ ~Live(session[l])
  /\ admin # Unset
  /\ login' = [login EXCEPT ![l] = [step |-> "read", source |-> s,
                                    sent |-> p, seen |-> admin]]
  /\ UNCHANGED <<admin, bucket, orphans, session, prepare>>

LoginWithPassword(l, s) ==
  /\ admin # Unset
  /\ StartLogin(l, s, admin.password)
  /\ UNCHANGED troubles

LoginWithAnother(l, s) ==
  /\ LoginTrouble
  /\ admin # Unset
  /\ \E p \in Password \ {admin.password} : StartLogin(l, s, p)

(* reserve_rate_limit: all three buckets in one transaction, or none. *)
Reserve(l) ==
  LET own == BucketsOf(login[l].source) IN
  /\ login[l].step = "read"
  /\ \A b \in own : HasRoom(b)
  /\ bucket' = [b \in Bucket |->
                  IF b \in own THEN Renewed(bucket[b]) ELSE bucket[b]]
  /\ MoveTo(l, "reserved")
  /\ UNCHANGED <<admin, orphans, session, prepare, troubles>>

(* The transaction is rolled back and the login answered "rate limited". *)
Refuse(l) ==
  /\ login[l].step = "read"
  /\ \E b \in BucketsOf(login[l].source) : ~HasRoom(b)
  /\ Forget(l)
  /\ UNCHANGED <<admin, bucket, orphans, session, prepare, troubles>>

(* run_argon2 takes a permit if one is free and otherwise gives up. *)
Verifying == {l \in Login : login[l].step = "verifying"}
Verify(l) ==
  /\ login[l].step = "reserved"
  /\ MoveTo(l, IF Cardinality(Verifying) < Permits
               THEN "verifying" ELSE "releasing")
  /\ UNCHANGED <<admin, bucket, orphans, session, prepare, troubles>>

Matched(l) == login[l].sent = login[l].seen.password

RecordLoginFailure(l) ==
  /\ login[l].step = "verifying"
  /\ ~Matched(l)
  /\ bucket' = [b \in Bucket |-> IF b \in BucketsOf(login[l].source)
                                 THEN CountFailure(b) ELSE bucket[b]]
  /\ Forget(l)
  /\ UNCHANGED <<admin, orphans, session, prepare, troubles>>

(* compare_administrator: the row is the one that was read before the
   password was verified.  Wrong: only that it is the administrator's. *)
IsAdministrator(seen) == admin # Unset
Unmoved(seen) == admin = seen

(* finalize_successful_login: under the administrator's lock, a hash made
   with older parameters is replaced, the session inserted and the login's
   buckets cleared. *)
FinalizeLogin(l) ==
  /\ login[l].step = "verifying"
  /\ Matched(l)
  /\ Unmoved(login[l].seen)
  /\ admin' = IF login[l].seen.old
              THEN [admin EXCEPT !.old = FALSE, !.revision = @ + 1]
              ELSE admin
  /\ session' = [session EXCEPT
                   ![l] = Session("fresh", login[l].seen.version)]
  /\ bucket' = [b \in Bucket |->
        IF b \in BucketsOf(login[l].source)
        THEN [bucket[b] EXCEPT !.failures = 0, !.cooling = FALSE]
        ELSE bucket[b]]
  /\ Forget(l)
  /\ UNCHANGED <<orphans, prepare, troubles>>

LoseToChange(l) ==
  /\ login[l].step = "verifying"
  /\ Matched(l)
  /\ ~Unmoved(login[l].seen)
  /\ MoveTo(l, "releasing")
  /\ UNCHANGED <<admin, bucket, orphans, session, prepare, troubles>>

(* The write of the failure or of the session fails. *)
SettleFails(l) ==
  /\ LoginTrouble
  /\ login[l].step = "verifying"
  /\ MoveTo(l, "releasing")
  /\ UNCHANGED <<admin, bucket, orphans, session, prepare>>

Release(l) ==
  /\ login[l].step = "releasing"
  /\ Forget(l)
  /\ UNCHANGED <<admin, bucket, orphans, session, prepare, troubles>>

(* The client goes away, or the process ends, while the login holds a
   reservation: the reservation stays behind. *)
Drop(l) ==
  /\ LoginTrouble
  /\ Holding(l)
  /\ orphans' = [b \in Bucket |-> IF b \in BucketsOf(login[l].source)
                                  THEN orphans[b] + 1 ELSE orphans[b]]
  /\ Forget(l)
  /\ UNCHANGED <<admin, bucket, session, prepare>>

-----------------------------------------------------------------------------
(* Time. *)

LeaseLapses(s) ==
  /\ orphans[s] > 0
  /\ orphans' = [b \in Bucket |-> IF b \in BucketsOf(s)
                                  THEN orphans[b] - 1 ELSE orphans[b]]
  /\ UNCHANGED <<admin, login, bucket, session, prepare, troubles>>

WindowPasses(b) ==
  /\ bucket[b].window = "open"
  /\ bucket[b].failures > 0
  /\ bucket' = [bucket EXCEPT ![b].window = "passed"]
  /\ UNCHANGED <<admin, login, orphans, session, prepare, troubles>>

CooldownEnds(b) ==
  /\ bucket[b].cooling
  /\ bucket' = [bucket EXCEPT ![b].cooling = FALSE]
  /\ UNCHANGED <<admin, login, orphans, session, prepare, troubles>>

-----------------------------------------------------------------------------
(* Sessions. *)

SetSession(l, row) ==
  /\ session' = [session EXCEPT ![l] = row]
  /\ UNCHANGED <<admin, login, bucket, orphans, prepare>>

(* The persist interval passes: the next request renews the idle timeout. *)
BecomesDue(l) ==
  /\ session[l].state = "fresh"
  /\ SetSession(l, Session("due", session[l].version))
  /\ UNCHANGED troubles

Authenticate(l) ==
  /\ session[l].state = "due"
  /\ SetSession(l, Session("fresh", session[l].version))
  /\ UNCHANGED troubles

(* The idle timeout passes, longer than the persist interval, or the
   absolute one. *)
SessionEnds(l) ==
  /\ LoginTrouble
  /\ Live(session[l])
  /\ SetSession(l, NoSession)

Logout(l) ==
  /\ LoginTrouble
  /\ Live(session[l])
  /\ SetSession(l, NoSession)

-----------------------------------------------------------------------------
(* pixivarchive-admin prepare: synchronize_password. *)

PrepareReads(r, p) ==
  /\ prepare[r].step = "idle"
  /\ \/ admin = Unset
     \/ admin # Unset /\ admin.password # p /\ admin.version <= MaxChanges
  /\ prepare' = [prepare EXCEPT
                   ![r] = [step |-> "read", wanted |-> p, seen |-> admin]]
  /\ UNCHANGED <<admin, login, bucket, orphans, session, troubles>>

StopPreparing(r) == prepare' = [prepare EXCEPT ![r] = NotPreparing]

PrepareCreates(r) ==
  /\ prepare[r].step = "read"
  /\ prepare[r].seen = Unset
  /\ admin = Unset
  /\ admin' = [password |-> prepare[r].wanted, old |-> FALSE,
               version |-> 1, revision |-> 1]
  /\ StopPreparing(r)
  /\ UNCHANGED <<login, bucket, orphans, session, troubles>>

(* update_password_and_revoke_sessions. *)
Revoked(row) == IF Live(row) THEN NoSession ELSE row
PrepareUpdates(r) ==
  /\ prepare[r].step = "read"
  /\ prepare[r].seen # Unset
  /\ Unmoved(prepare[r].seen)
  /\ admin' = [password |-> prepare[r].wanted, old |-> FALSE,
               version |-> admin.version + 1,
               revision |-> admin.revision + 1]
  /\ session' = [l \in Login |-> Revoked(session[l])]
  /\ StopPreparing(r)
  /\ UNCHANGED <<login, bucket, orphans, troubles>>

(* The row was created or changed meanwhile: prepare exits with an error. *)
PrepareFails(r) ==
  /\ prepare[r].step = "read"
  /\ ~Unmoved(prepare[r].seen)
  /\ StopPreparing(r)
  /\ UNCHANGED <<admin, login, bucket, orphans, session, troubles>>

-----------------------------------------------------------------------------
LoginStep(l) ==
  \/ \E s \in Source : LoginWithPassword(l, s) \/ LoginWithAnother(l, s)
  \/ Reserve(l)
  \/ Refuse(l)
  \/ Verify(l)
  \/ RecordLoginFailure(l)
  \/ FinalizeLogin(l)
  \/ LoseToChange(l)
  \/ SettleFails(l)
  \/ Release(l)
  \/ Drop(l)

SessionStep(l) ==
  BecomesDue(l) \/ Authenticate(l) \/ SessionEnds(l) \/ Logout(l)

Time ==
  \/ \E s \in Source : LeaseLapses(s)
  \/ \E b \in Bucket : WindowPasses(b) \/ CooldownEnds(b)

PrepareStep(r) ==
  \/ \E p \in Password : PrepareReads(r, p)
  \/ PrepareCreates(r)
  \/ PrepareUpdates(r)
  \/ PrepareFails(r)

SessionsNext ==
  \/ \E l \in Login : LoginStep(l) \/ SessionStep(l)
  \/ \E r \in Preparer : PrepareStep(r)
  \/ Time

SessionsSpec == SessionsInit /\ [][SessionsNext]_sessionsVars

(* A login that runs is carried on, windows, cooldowns and leases pass, and
   somebody who knows the password keeps trying.  Installation runs prepare
   until it has stored a password. *)
SessionsFairness ==
  /\ \A l \in Login :
        /\ \A s \in Source : WF_sessionsVars(LoginWithPassword(l, s))
        /\ WF_sessionsVars(Reserve(l) \/ Refuse(l))
        /\ WF_sessionsVars(Verify(l))
        /\ WF_sessionsVars(RecordLoginFailure(l) \/ FinalizeLogin(l) \/ LoseToChange(l))
        /\ WF_sessionsVars(Release(l))
  /\ \A s \in Source : WF_sessionsVars(LeaseLapses(s))
  /\ \A b \in Bucket : WF_sessionsVars(WindowPasses(b)) /\ WF_sessionsVars(CooldownEnds(b))
  /\ \A r \in Preparer :
        /\ WF_sessionsVars(\E p \in Password : admin = Unset /\ PrepareReads(r, p))
        /\ WF_sessionsVars(PrepareCreates(r) \/ PrepareUpdates(r) \/ PrepareFails(r))

SessionsFairSpec == SessionsSpec /\ SessionsFairness

-----------------------------------------------------------------------------
(* A session that is still accepted was issued for the password in force:
   a login that verified the old password while prepare stored a new one
   issues none, and prepare ends every session that was issued before it. *)
SessionsMatchPassword ==
  \A l \in Login : Live(session[l]) => session[l].version = admin.version

(* However many logins are verified at once, and whichever of them are
   dropped, succeed or fail, the failures a bucket has counted and those
   still under way never exceed what it allows in a window: parallel
   guesses do not outrun the count. *)
FailuresBounded ==
  \A b \in Bucket : bucket[b].failures + ActiveReservations(b) <= Limit(b)

(* Whatever went wrong, who keeps sending the right password gets a session:
   failures, cooldowns, abandoned reservations, a busy verifier, a rehash by
   another login and a change of the password refuse it only for a time. *)
RightPasswordGetsIn == \A l \in Login : []<>Live(session[l])
=============================================================================
