------------------------------ MODULE Settings ------------------------------
(***************************************************************************)
(* The system settings: nine groups, each a row of system_setting or its   *)
(* default, and the clients that read and save them.                       *)
(*                                                                         *)
(* A client is the settings page or another caller of the API.  It reads   *)
(* the revisions (GET /api/system/status) and the values (GET              *)
(* /api/system/settings) in two requests, in either order, fills its form  *)
(* from them once, and saves a batch of groups under the revisions the     *)
(* form holds.  A save takes an advisory lock for each group, compares the *)
(* revisions, and writes every row in one transaction                      *)
(* (db/src/settings.rs).                                                   *)
(*                                                                         *)
(* Whoever reads the settings checks every stored group again, against the *)
(* capabilities it was built with (application/src/settings.rs).           *)
(***************************************************************************)
EXTENDS Naturals, Sequences, FiniteSets

CONSTANTS
  Client,      \* settings pages, and other callers of the API
  Batch,       \* the sets of groups a save may carry
  Candidate,   \* for each group, the values a client may send
  Default,     \* for each group, its value where no row is stored
  JobKind,     \* the kinds of job
  MaxSeconds,  \* i64::MAX, the longest duration in seconds
  Avif,        \* whether this deployment can make AVIF files
  MaxSaves,    \* how often a group may be saved
  MaxMishaps   \* lost answers and failed transactions

(* The groups in the order of their locks. *)
GroupOrder == <<"security", "storage", "retry", "queue", "processing",
                "derivative", "ugoira", "pixiv", "content">>
SettingGroup == {GroupOrder[i] : i \in 1 .. 9}
Place(g) == CHOOSE i \in 1 .. 9 : GroupOrder[i] = g

(***************************************************************************)
(* What each group's validate() accepts.                                   *)
(***************************************************************************)
Fits(seconds) == seconds > 0 /\ seconds <= MaxSeconds
LimitFits(l) == l.threshold # 0 /\ Fits(l.window) /\ Fits(l.cooldown)
SecurityValid(v) ==
  /\ \A s \in {v.idle, v.absolute, v.persist} : Fits(s)
  /\ v.idle <= v.absolute
  /\ v.persist <= v.idle
  /\ \A l \in v.limits : LimitFits(l)
StorageValid(v) ==
  /\ v.root # "relative"
  /\ v.stop < v.warning
  /\ v.days \in 1 .. 365
RetryValid(v) ==
  /\ v.backoff # <<>>
  /\ \A i \in DOMAIN v.backoff : v.backoff[i] # 0
  /\ \A i \in 1 .. Len(v.backoff) - 1 : v.backoff[i] < v.backoff[i + 1]
(* Each kind of job is given one priority. *)
QueueValid(v) ==
  \A kind \in JobKind :
    Cardinality({i \in DOMAIN v.priorities : v.priorities[i][1] = kind}) = 1
ProcessingValid(v) == v.request_window # 0 /\ v.download_window # 0
DerivativeValid(v, avif) ==
  /\ v.width # 0
  /\ {v.webp, v.avif} \subseteq 1 .. 100
  /\ v.format = "avif" => avif
UgoiraValid(v) == 0 \notin {v.zip, v.pixels, v.cache}
ContentValid(v) == ~(v.nsfw /\ v.mask)

Valid(g, v, avif) ==
  CASE g = "security"   -> SecurityValid(v)
    [] g = "storage"    -> StorageValid(v)
    [] g = "retry"      -> RetryValid(v)
    [] g = "queue"      -> QueueValid(v)
    [] g = "processing" -> ProcessingValid(v)
    [] g = "derivative" -> DerivativeValid(v, avif)
    [] g = "ugoira"     -> UgoiraValid(v)
    [] g = "pixiv"      -> TRUE
    [] g = "content"    -> ContentValid(v)

ASSUME SettingsAssumption ==
  /\ Batch \subseteq (SUBSET SettingGroup) \ {{}}
  /\ \A g \in SettingGroup : Valid(g, Default[g], FALSE)
  /\ MaxSeconds \in Nat /\ MaxSaves \in Nat /\ MaxMishaps \in Nat
  /\ Avif \in BOOLEAN

VARIABLES
  stored,  \* for each group, the set of its row: none, or one
  lock,    \* for each group, the set of the client whose save holds its lock
  form,    \* for each client, its form and the save it has under way
  mishaps  \* how many answers were lost and transactions failed

settingsVars == <<stored, lock, form, mishaps>>

SettingRow(value, revision) == [value |-> value, revision |-> revision]
Effective(g) ==
  IF stored[g] = {} THEN Default[g] ELSE (CHOOSE r \in stored[g] : TRUE).value
Revision(g) ==
  IF stored[g] = {} THEN 0 ELSE (CHOOSE r \in stored[g] : TRUE).revision

(* Whether a reader with or without AVIF gets the settings at all. *)
Readable(avif) ==
  \A g \in SettingGroup : \A r \in stored[g] : Valid(g, r.value, avif)

(* A form is filled from revisions ("base", 0 for a group without a row)
   and values ("seen"); "early" says the revisions were read first.  A save
   carries "values" for the groups of its "batch". *)
Zeros == [g \in SettingGroup |-> 0]
Form(phase, base, seen, early, batch, values) ==
  [phase |-> phase, base |-> base, seen |-> seen, early |-> early,
   batch |-> batch, values |-> values]
NoValues == [g \in {} |-> Default[g]]
NoForm == Form("closed", Zeros, Default, FALSE, {}, NoValues)
Filled(f) == Form("shown", f.base, f.seen, f.early, {}, NoValues)

SettingsInit ==
  /\ stored = [g \in SettingGroup |-> {}]
  /\ lock = [g \in SettingGroup |-> {}]
  /\ form = [c \in Client |-> NoForm]
  /\ mishaps = 0

Phased(c, phase) == form' = [form EXCEPT ![c].phase = phase]
LeaveRows == UNCHANGED <<stored, lock, mishaps>>

OpenSettings(c) ==
  /\ form[c].phase = "closed"
  /\ Phased(c, "loading")
  /\ LeaveRows

(* The first statement of GET /api/system/status that counts here. *)
ReadRevisions(c) ==
  /\ form[c].phase \in {"loading", "values"}
  /\ form' = [form EXCEPT ![c] =
       Form(IF @.phase = "loading" THEN "revisions" ELSE "answering",
            [g \in SettingGroup |-> Revision(g)], @.seen, @.phase = "loading", {},
            NoValues)]
  /\ LeaveRows

(* The same request then reads the settings, as a reader without AVIF; a
   page whose request failed shows no form. *)
StatusAnswers(c) ==
  /\ form[c].phase \in {"revisions", "answering"}
  /\ IF Readable(FALSE)
     THEN Phased(c, IF form[c].phase = "revisions" THEN "status" ELSE "shown")
     ELSE form' = [form EXCEPT ![c] = NoForm]
  /\ LeaveRows

ReadValues(c) ==
  /\ form[c].phase \in {"loading", "revisions", "status"}
  /\ IF Readable(Avif)
     THEN form' = [form EXCEPT ![c] =
            Form(CASE @.phase = "loading"   -> "values"
                   [] @.phase = "revisions" -> "answering"
                   [] @.phase = "status"    -> "shown",
                 @.base, [g \in SettingGroup |-> Effective(g)], @.early, {}, NoValues)]
     ELSE form' = [form EXCEPT ![c] = NoForm]
  /\ LeaveRows

CloseSettings(c) ==
  /\ form[c].phase = "shown"
  /\ form' = [form EXCEPT ![c] = NoForm]
  /\ LeaveRows

SendSave(c) ==
  /\ form[c].phase = "shown"
  /\ \E batch \in Batch :
     \E values \in {f \in [batch -> UNION {Candidate[g] : g \in batch}] :
                      \A g \in batch : f[g] \in Candidate[g]} :
       /\ \A g \in batch : Revision(g) < MaxSaves
       /\ form' = [form EXCEPT ![c].phase = "sent", ![c].batch = batch,
                               ![c].values = values]
  /\ LeaveRows

Sent(c) == form[c].phase = "sent"
Accepted(c) ==
  \A g \in form[c].batch : Valid(g, form[c].values[g], Avif)

(* SettingsService::update_many answers before any transaction. *)
RefuseInvalid(c) ==
  /\ Sent(c)
  /\ ~Accepted(c)
  /\ form' = [form EXCEPT ![c] = Filled(@)]
  /\ LeaveRows

Held(c) == {g \in SettingGroup : lock[g] = {c}}
(* Wrong: the locks are taken in the order the request names the groups. *)
NextInRequest(c, g) == g \in form[c].batch \ Held(c)
NextLock(c, g) ==
  /\ g \in form[c].batch \ Held(c)
  /\ \A h \in form[c].batch \ Held(c) : Place(g) <= Place(h)

LockGroup(c, g) ==
  /\ Sent(c)
  /\ Accepted(c)
  /\ NextLock(c, g)
  /\ lock[g] = {}
  /\ lock' = [lock EXCEPT ![g] = {c}]
  /\ UNCHANGED <<stored, form, mishaps>>

Unlock(c) == lock' = [g \in SettingGroup |-> lock[g] \ {c}]

RevisionsMatch(c) == \A g \in form[c].batch : form[c].base[g] = Revision(g)

Compare(c) ==
  /\ Sent(c)
  /\ Accepted(c)
  /\ form[c].batch \subseteq Held(c)
  /\ IF RevisionsMatch(c)
     THEN /\ Phased(c, "compared")
          /\ UNCHANGED lock
     ELSE /\ form' = [form EXCEPT ![c] = Filled(@)]
          /\ Unlock(c)
  /\ UNCHANGED <<stored, mishaps>>

(* Wrong: a row that is there keeps its revision. *)
SavedSameRevision(c, g) ==
  {SettingRow(form[c].values[g], IF stored[g] = {} THEN 1 ELSE Revision(g))}
Saved(c, g) == {SettingRow(form[c].values[g], Revision(g) + 1)}

Commit(c) ==
  /\ form[c].phase = "compared"
  /\ stored' = [g \in SettingGroup |->
                  IF g \in form[c].batch THEN Saved(c, g) ELSE stored[g]]
  /\ Phased(c, "saved")
  /\ Unlock(c)
  /\ UNCHANGED mishaps

(* The form takes the revisions the answer carries. *)
Answer(c) ==
  /\ form[c].phase = "saved"
  /\ form' = [form EXCEPT ![c] =
       Filled(Form("saved",
                  [g \in SettingGroup |-> @.base[g] + IF g \in @.batch THEN 1 ELSE 0],
                  [g \in SettingGroup |-> IF g \in @.batch THEN @.values[g]
                                   ELSE @.seen[g]],
                  @.early, {}, NoValues))]
  /\ LeaveRows

Mishap ==
  /\ mishaps < MaxMishaps
  /\ mishaps' = mishaps + 1
(* The page says the save failed, and keeps its revisions. *)
LoseAnswer(c) ==
  /\ form[c].phase = "saved"
  /\ form' = [form EXCEPT ![c] = Filled(@)]
  /\ Mishap
  /\ UNCHANGED <<stored, lock>>
(* A statement fails, or the server ends: the transaction is rolled back. *)
RollBack(c) ==
  /\ form[c].phase \in {"sent", "compared"}
  /\ form' = [form EXCEPT ![c] = Filled(@)]
  /\ Unlock(c)
  /\ Mishap
  /\ UNCHANGED stored

ServerStep(c) ==
  \/ RefuseInvalid(c)
  \/ \E g \in SettingGroup : LockGroup(c, g)
  \/ Compare(c)
  \/ Commit(c)
  \/ Answer(c)
SettingsNext ==
  \E c \in Client :
    \/ OpenSettings(c) \/ ReadRevisions(c) \/ StatusAnswers(c) \/ ReadValues(c)
    \/ CloseSettings(c) \/ SendSave(c) \/ ServerStep(c)
    \/ LoseAnswer(c) \/ RollBack(c)

(* The web process runs, so a request that can go on does; and the database
   grants a lock to those that wait for it in the order they came. *)
SettingsFairness ==
  \A c \in Client :
    /\ WF_settingsVars(ServerStep(c))
    /\ SF_settingsVars(\E g \in SettingGroup : LockGroup(c, g))
SettingsSpec == SettingsInit /\ [][SettingsNext]_settingsVars /\ SettingsFairness

(* Who reads the settings, and with which capabilities: the settings page
   and the two processes at their start ask for this deployment's; the others
   make a SettingsService of their own, which knows of none. *)
Reader == {"settings page", "web start", "worker start",
           "login", "status", "job priorities", "prepare"}
Capability(reader) ==
  Avif /\ reader \in {"settings page", "web start", "worker start"}

(***************************************************************************)
(* Properties.                                                             *)
(***************************************************************************)
(* A stored row has a revision; locks are held by clients. *)
SettingsTypeOK ==
  /\ \A g \in SettingGroup : \A r \in stored[g] : r.revision \in Nat \ {0}
  /\ \A g \in SettingGroup : lock[g] \subseteq Client
  /\ mishaps \in 0 .. MaxMishaps

(* A save replaces, in every group it carries, the very value its form was
   filled with, provided the form read its revisions before its values: the
   check and the write of update_many (db/src/settings.rs) lie in one
   transaction, and a value never changes under an unchanged revision.  A
   form whose values came first may hold an older value under a newer
   revision and overwrite what it never showed. *)
NothingUnseenIsOverwritten ==
  [][\A c \in Client :
       form[c].phase = "compared" /\ form'[c].phase = "saved" /\ form[c].early
         => \A g \in form[c].batch : Effective(g) = form[c].seen[g]]_settingsVars

(* No save waits for ever: two batches that share groups take their locks in
   one order (setting_lock_order), so neither waits for the other. *)
SavesEnd ==
  \A c \in Client :
    form[c].phase \in {"sent", "compared", "saved"} ~> form[c].phase = "shown"

(* What a save under way needs for its next step is there: it has compared its
   revisions, is to be refused, has all its locks, or finds the next one free. *)
GoesOn(c) ==
  \/ form[c].phase = "compared"
  \/ /\ Sent(c)
     /\ \/ ~Accepted(c)
        \/ form[c].batch \subseteq Held(c)
        \/ \E g \in SettingGroup : NextLock(c, g) /\ lock[g] = {}

(* Saves never all wait for locks that others of them hold: among those under
   way one can always go on, whatever batches they carry and however their
   locks interleave (update_many sorts each batch by setting_lock_order). *)
SomeSaveGoesOn ==
  (\E c \in Client : form[c].phase \in {"sent", "compared"}) =>
    \E c \in Client : GoesOn(c)

(* Settings the web accepted, in a deployment that can make AVIF files too,
   are read by everything that reads them: logins, the system status, and
   whatever enqueues a job or schedules one included. *)
EveryReaderGoesOn == \A reader \in Reader : Readable(Capability(reader))
=============================================================================
