---------------------------- MODULE PixivAccount ----------------------------
(***************************************************************************)
(* The Pixiv accounts and their stored cookies, the service calls that     *)
(* update and validate them, and the jobs that wait for them.  A call      *)
(* reads the account in one statement, waits for Pixiv's answer, and       *)
(* writes in a later transaction; workers and other calls act in between.  *)
(* The queue itself is module JobQueue: here a job is only none, being     *)
(* inserted, queued, running, waiting or done.                             *)
(*                                                                         *)
(* Every element of Call is one request to the service, which bounds the   *)
(* number of requests; Pixiv may answer a request in any way.              *)
(***************************************************************************)
EXTENDS Naturals, FiniteSets

CONSTANTS
  User,             \* Pixiv user ids
  Cookie, UserOf,   \* cookies, and the user id written in each
  Job, JobUser,     \* jobs, and the account each depends on
  Call,             \* requests to PixivAccountService
  NoUser, NoCookie,
  MaxRevision       \* bound: the operator opens the page of older revisions only

ASSUME PixivAccountAssumption ==
  /\ NoUser \notin User /\ NoCookie \notin Cookie
  /\ UserOf \in [Cookie -> User]
  /\ JobUser \in [Job -> User]
  /\ MaxRevision \in Nat

VARIABLES
  row,       \* the table pixiv_account
  current,   \* the row with is_current
  job,       \* state of each dependent job
  call,      \* what each request has read so far
  page,      \* what the operator's account page shows
  accepted   \* cookies Pixiv has accepted for their user

vars == <<row, current, job, call, page, accepted>>

State == {"absent", "unconfigured", "validating", "normal", "restricted", "credential_invalid"}
Blocking == {"unconfigured", "credential_invalid"}
JobState == {"none", "inserting_queued", "inserting_waiting", "queued", "running", "waiting", "done"}
Phase == {"idle", "updating", "reading", "marking", "probing", "done"}

Row == [state : State, cookie : Cookie \cup {NoCookie}, revision : Nat]
Request == [phase : Phase, user : User \cup {NoUser}, seen : State,
            cookie : Cookie \cup {NoCookie}]
Page == [user : User \cup {NoUser}, revision : Nat, cookie : Cookie \cup {NoCookie}]
NoRequest == [phase |-> "idle", user |-> NoUser, seen |-> "absent", cookie |-> NoCookie]

-----------------------------------------------------------------------------
(* Transactions on the account row *)

\* pixiv_account_credential_state_check and set_state itself: only a row with
\* a cookie changes its state.
MayHaveState(u) == row[u].state \notin {"absent", "unconfigured"}

Marked(r, state) == [state |-> state, cookie |-> r.cookie, revision |-> r.revision + 1]

SetState(u, state) == row' = [row EXCEPT ![u] = Marked(@, state)]

DoneRequest == [phase |-> "done", user |-> NoUser, seen |-> "absent", cookie |-> NoCookie]

Finished(c) == call' = [call EXCEPT ![c] = DoneRequest]

\* Wrong: activation leaves the revision alone.
ActivateInPlace(u, cookie, state, recover) ==
  /\ row' = [row EXCEPT ![u] = [state |-> state, cookie |-> cookie, revision |-> @.revision]]
  /\ current' = u
  /\ UNCHANGED job

\* activate_validated_account: the row gets the cookie and the state and
\* becomes the current one; waiting jobs are released if the caller asked.
Activate(u, cookie, state, recover) ==
  /\ row' = [v \in User |->
       IF v = u THEN [state |-> state, cookie |-> cookie, revision |-> row[v].revision + 1]
       ELSE IF v = current THEN Marked(row[v], row[v].state)
       ELSE row[v]]
  /\ current' = u
  /\ job' = [j \in Job |->
       IF state = "normal" /\ recover /\ JobUser[j] = u /\ job[j] = "waiting"
         THEN "queued" ELSE job[j]]

\* block_account and the account's part of block_account_for_job, which
\* also parks the job `failed' that reports the invalid credential.
Block(u, failed) ==
  /\ row' = [row EXCEPT ![u] = IF MayHaveState(u) THEN Marked(@, "credential_invalid") ELSE @]
  /\ job' = [j \in Job |->
       IF j \in failed \/ (JobUser[j] = u /\ job[j] = "queued") THEN "waiting" ELSE job[j]]

-----------------------------------------------------------------------------
(* update_cookie *)

ReadExisting(c, cookie) ==
  /\ call[c].phase = "idle"
  /\ call' = [call EXCEPT ![c] =
       [phase |-> "updating", user |-> UserOf[cookie],
        seen |-> row[UserOf[cookie]].state, cookie |-> cookie]]
  /\ UNCHANGED <<row, current, job, page, accepted>>

\* Wrong: a candidate Pixiv did not accept is stored.
PersistUnchecked(c, state) ==
  /\ call[c].phase = "updating"
  /\ Activate(call[c].user, call[c].cookie, state, call[c].seen \notin {"absent", "normal"})
  /\ Finished(c)
  /\ UNCHANGED <<page, accepted>>

\* Pixiv accepted the candidate; its answer decides the state to store.
PersistUpdate(c, state) ==
  /\ call[c].phase = "updating"
  /\ call[c].seen = "absent" => state = "normal"
  /\ accepted' = accepted \cup {call[c].cookie}
  /\ Activate(call[c].user, call[c].cookie, state, call[c].seen \notin {"absent", "normal"})
  /\ Finished(c)
  /\ UNCHANGED page

\* Pixiv refused the candidate, could not be reached, or the request is gone.
CallFails(c) ==
  /\ call[c].phase \in {"updating", "reading", "probing"}
  /\ Finished(c)
  /\ UNCHANGED <<row, current, job, page, accepted>>

-----------------------------------------------------------------------------
(* validate_saved *)

\* The command port reads the current account and decrypts its cookie, which
\* is the one Pixiv will be asked about.
BeginValidate(c) ==
  /\ call[c].phase = "idle"
  /\ current # NoUser
  /\ row[current].state # "unconfigured"
  /\ call' = [call EXCEPT ![c] =
       [phase |-> "reading", user |-> current, seen |-> row[current].state,
        cookie |-> row[current].cookie]]
  /\ UNCHANGED <<row, current, job, page, accepted>>

\* The service reads it again; another current user ends the call.
ReadSaved(c) ==
  LET u == call[c].user
  IN /\ call[c].phase = "reading"
     /\ call' = [call EXCEPT ![c] =
          IF current # u THEN DoneRequest
          ELSE [phase |-> IF row[u].state = "normal" THEN "probing" ELSE "marking",
                user |-> u, seen |-> row[u].state, cookie |-> row[u].cookie]]
     /\ UNCHANGED <<row, current, job, page, accepted>>

MarkValidating(c) ==
  LET u == call[c].user
  IN /\ call[c].phase = "marking"
     /\ IF MayHaveState(u)
          THEN /\ SetState(u, "validating")
               /\ call' = [call EXCEPT ![c] =
                    [phase |-> "probing", user |-> u, seen |-> "validating",
                     cookie |-> row[u].cookie]]
          ELSE Finished(c) /\ UNCHANGED row
     /\ UNCHANGED <<current, job, page, accepted>>

\* Pixiv accepts: what was read is written back.
PersistValidation(c, state) ==
  /\ call[c].phase = "probing"
  /\ Activate(call[c].user, call[c].cookie, state, call[c].seen # "normal")
  /\ Finished(c)
  /\ UNCHANGED <<page, accepted>>

\* Pixiv rejects the cookie.
ValidationInvalid(c) ==
  /\ call[c].phase = "probing"
  /\ Block(call[c].user, {})
  /\ Finished(c)
  /\ UNCHANGED <<current, page, accepted>>

\* Pixiv restricts the account or does not answer properly.
ValidationInconclusive(c, state) ==
  /\ call[c].phase = "probing"
  /\ IF MayHaveState(call[c].user) THEN SetState(call[c].user, state) ELSE UNCHANGED row
  /\ Finished(c)
  /\ UNCHANGED <<current, job, page, accepted>>

-----------------------------------------------------------------------------
(* The operator's page, and the jobs *)

LoadPage ==
  /\ current # NoUser
  /\ row[current].revision < MaxRevision
  /\ page' = [user |-> current, revision |-> row[current].revision,
              cookie |-> row[current].cookie]
  /\ UNCHANGED <<row, current, job, call, accepted>>

ClearCredential ==
  LET u == page.user
  IN /\ u # NoUser /\ u = current
     /\ row[u].revision = page.revision
     /\ row' = [row EXCEPT ![u] =
          [state |-> "unconfigured", cookie |-> NoCookie, revision |-> @.revision + 1]]
     /\ job' = [j \in Job |->
          IF JobUser[j] = u /\ job[j] = "queued" THEN "waiting" ELSE job[j]]
     /\ page' = [user |-> NoUser, revision |-> 0, cookie |-> NoCookie]
     /\ UNCHANGED <<current, call, accepted>>

\* enqueue_in_tx reads the account in the INSERT; the row becomes visible to
\* others when the enclosing transaction commits.
InsertJob(j) ==
  /\ job[j] = "none"
  /\ row[JobUser[j]].state # "absent"
  /\ job' = [job EXCEPT ![j] =
       IF row[JobUser[j]].state \in Blocking THEN "inserting_waiting" ELSE "inserting_queued"]
  /\ UNCHANGED <<row, current, call, page, accepted>>

CommitInsert(j) ==
  /\ \/ job[j] = "inserting_queued" /\ job' = [job EXCEPT ![j] = "queued"]
     \/ job[j] = "inserting_waiting" /\ job' = [job EXCEPT ![j] = "waiting"]
  /\ UNCHANGED <<row, current, call, page, accepted>>

RunJob(j) ==
  /\ \/ job[j] = "queued" /\ job' = [job EXCEPT ![j] = "running"]
     \/ job[j] = "running" /\ job' = [job EXCEPT ![j] = "done"]
  /\ UNCHANGED <<row, current, call, page, accepted>>

JobFindsCredentialInvalid(j) ==
  /\ job[j] = "running"
  /\ Block(JobUser[j], {j})
  /\ UNCHANGED <<current, call, page, accepted>>

-----------------------------------------------------------------------------
Init ==
  /\ row = [u \in User |-> [state |-> "absent", cookie |-> NoCookie, revision |-> 0]]
  /\ current = NoUser
  /\ job = [j \in Job |-> "none"]
  /\ call = [c \in Call |-> NoRequest]
  /\ page = [user |-> NoUser, revision |-> 0, cookie |-> NoCookie]
  /\ accepted = {}

CallStep(c) ==
  \/ \E cookie \in Cookie : ReadExisting(c, cookie)
  \/ \E state \in {"normal", "restricted", "validating"} :
       PersistUpdate(c, state) \/ PersistValidation(c, state)
  \/ CallFails(c)
  \/ BeginValidate(c)
  \/ ReadSaved(c)
  \/ MarkValidating(c)
  \/ ValidationInvalid(c)
  \/ \E state \in {"restricted", "validating"} : ValidationInconclusive(c, state)

JobStep(j) ==
  InsertJob(j) \/ CommitInsert(j) \/ RunJob(j) \/ JobFindsCredentialInvalid(j)

Next ==
  \/ \E c \in Call : CallStep(c)
  \/ LoadPage
  \/ ClearCredential
  \/ \E j \in Job : JobStep(j)

Spec == Init /\ [][Next]_vars

-----------------------------------------------------------------------------
(* Properties *)

\* Shape of the rows and requests, and the credential_state constraint: a row
\* has a cookie exactly when it is neither absent nor unconfigured.
TypeOK ==
  /\ row \in [User -> Row]
  /\ \A u \in User : row[u].cookie = NoCookie <=> ~MayHaveState(u)
  /\ current \in User \cup {NoUser}
  /\ job \in [Job -> JobState]
  /\ call \in [Call -> Request]
  /\ page \in Page
  /\ accepted \subseteq Cookie

\* However calls overlap, only a cookie Pixiv accepted for that very user is
\* ever stored, so a rejected candidate never replaces a working credential.
StoredCookieWasAccepted ==
  \A u \in User : row[u].cookie # NoCookie =>
    row[u].cookie \in accepted /\ UserOf[row[u].cookie] = u

\* While the row still has the revision the operator's page was loaded with, it
\* holds the cookie the page showed: a clear that the revision check admits
\* never deletes a cookie stored after the operator looked.
ClearsWhatWasSeen ==
  page.user # NoUser /\ row[page.user].revision = page.revision =>
    row[page.user].cookie = page.cookie

\* After the credential became invalid, an update that stores the state normal
\* leaves no job of the account waiting ("更新并验证Cookie后会自动继续",
\* pixiv-account-status.ts).
UpdateReleasesJobs ==
  [][\A c \in Call : \A u \in User :
       (/\ call[c].phase = "updating" /\ call[c].user = u /\ call'[c].phase = "done"
        /\ row[u].state = "credential_invalid" /\ row'[u].state = "normal") =>
          \A j \in Job : JobUser[j] = u => job'[j] # "waiting"]_vars
=============================================================================
