--------------------------- MODULE SettingsProofs ---------------------------
(* Proofs about the settings, for any number of clients, any values they send,
   any batches, and any number of saves and mishaps; and about the requests for
   the size of the media directory (MediaUsage), any number of them. *)
EXTENDS Settings, MediaUsage, TLAPS

FormPhase == {"closed", "loading", "values", "revisions", "answering", "status",
              "shown", "sent", "compared", "saved"}

\* A form is a record of these fields.
Shaped(f) ==
  /\ f = Form(f.phase, f.base, f.seen, f.early, f.batch, f.values)
  /\ f.phase \in FormPhase
  /\ f.base \in [SettingGroup -> Nat]
  /\ f.batch \subseteq SettingGroup

\* A group has no row or one, under a revision; forms and locks are theirs who
\* use them.
SettingsShape ==
  /\ \A g \in SettingGroup :
       stored[g] = {} \/ \E r : stored[g] = {r} /\ r.revision \in Nat
  /\ DOMAIN form = Client /\ form = [c \in Client |-> form[c]]
  /\ \A c \in Client : Shaped(form[c])
  /\ lock = [g \in SettingGroup |-> lock[g]]

\* The form has both its revisions and its values.
Complete(f) == f.phase \in {"answering", "shown", "sent", "compared", "saved"}

\* A form never holds a revision the row has not reached.  One that read its
\* revisions first holds, under the row's revision, the row's value.  From the
\* comparison to the commit the client holds the locks and the revisions stay
\* equal; once committed, the rows of the batch are past the form's revisions.
FormBehind(c) ==
  LET f == form[c]
  IN /\ \A g \in SettingGroup : f.base[g] <= Revision(g)
     /\ f.early /\ Complete(f) =>
          \A g \in SettingGroup : f.base[g] = Revision(g) => f.seen[g] = Effective(g)
     /\ f.phase = "compared" =>
          \A g \in f.batch : lock[g] = {c} /\ f.base[g] = Revision(g)
     /\ f.phase = "saved" =>
          \A g \in f.batch : /\ f.base[g] < Revision(g)
                             /\ f.base[g] + 1 = Revision(g) => f.values[g] = Effective(g)

SettingsInv == SettingsShape /\ \A c \in Client : FormBehind(c)
-----------------------------------------------------------------------------
(* Reading rows and forms *)

LEMMA TheOnly == ASSUME NEW a PROVE (CHOOSE r \in {a} : TRUE) = a
OBVIOUS

\* A revision is a number.
LEMMA RevisionNat ==
  ASSUME SettingsShape, NEW g \in SettingGroup PROVE Revision(g) \in Nat
<1>1. CASE stored[g] = {}
  BY <1>1 DEF Revision
<1>2. ASSUME NEW r, stored[g] = {r}, r.revision \in Nat PROVE Revision(g) \in Nat
  BY <1>2, TheOnly DEF Revision
<1> QED BY <1>1, <1>2 DEF SettingsShape

\* Fields of a form written with Form.
LEMMA FormFields ==
  ASSUME NEW p \in FormPhase, NEW b \in [SettingGroup -> Nat], NEW s, NEW e,
         NEW batch \in SUBSET SettingGroup, NEW v, NEW f, f = Form(p, b, s, e, batch, v)
  PROVE  /\ Shaped(f)
         /\ f.phase = p /\ f.base = b /\ f.seen = s /\ f.early = e
         /\ f.batch = batch /\ f.values = v
<1>1. /\ f.phase = p /\ f.base = b /\ f.seen = s /\ f.early = e
      /\ f.batch = batch /\ f.values = v
  BY DEF Form
<1> QED BY <1>1 DEF Shaped

\* Another phase for a form.
LEMMA NewPhase ==
  ASSUME NEW f, Shaped(f), NEW p
  PROVE  [f EXCEPT !.phase = p] = Form(p, f.base, f.seen, f.early, f.batch, f.values)
<1>1. f = Form(f.phase, f.base, f.seen, f.early, f.batch, f.values)
  BY DEF Shaped
<1>2. ASSUME NEW q, NEW b, NEW s, NEW e, NEW t, NEW v
      PROVE  [Form(q, b, s, e, t, v) EXCEPT !.phase = p] = Form(p, b, s, e, t, v)
  BY DEF Form
<1> QED BY <1>1, <1>2

\* Rows that stay are read as before.
LEMMA SameRows ==
  ASSUME stored' = stored
  PROVE  \A g \in SettingGroup : Revision(g)' = Revision(g) /\ Effective(g)' = Effective(g)
BY DEF Revision, Effective

\* A commit moves the rows of its batch to their next revision and to its values.
LEMMA CommittedRows ==
  ASSUME NEW c \in Client, Commit(c), NEW g \in SettingGroup
  PROVE  /\ g \notin form[c].batch => /\ stored'[g] = stored[g]
                                      /\ Revision(g)' = Revision(g)
                                      /\ Effective(g)' = Effective(g)
         /\ g \in form[c].batch =>
              /\ stored'[g] = {SettingRow(form[c].values[g], Revision(g) + 1)}
              /\ Revision(g)' = Revision(g) + 1
              /\ Effective(g)' = form[c].values[g]
<1>1. CASE g \notin form[c].batch
  <2>1. stored'[g] = stored[g]
    BY <1>1 DEF Commit
  <2> QED BY <1>1, <2>1 DEF Revision, Effective
<1>2. CASE g \in form[c].batch
  <2> DEFINE r == SettingRow(form[c].values[g], Revision(g) + 1)
  <2>1. stored'[g] = {r}
    BY <1>2 DEF Commit, Saved
  <2>2. r.value = form[c].values[g] /\ r.revision = Revision(g) + 1
    BY DEF SettingRow
  <2> HIDE DEF r
  <2>3. stored'[g] # {} /\ (CHOOSE q \in stored'[g] : TRUE) = r
    BY <2>1, TheOnly
  <2>4. Revision(g)' = r.revision /\ Effective(g)' = r.value
    BY <2>3 DEF Revision, Effective
  <2> QED BY <1>2, <2>1, <2>2, <2>4 DEF r
<1> QED BY <1>1, <1>2
-----------------------------------------------------------------------------
(* Steps *)

\* Another form for one client, and the same for the others.
LEMMA FormsShape ==
  ASSUME SettingsShape, NEW c \in Client, NEW f, Shaped(f), form' = [form EXCEPT ![c] = f]
  PROVE  /\ form'[c] = f
         /\ \A d \in Client \ {c} : form'[d] = form[d]
         /\ DOMAIN form' = Client /\ form' = [d \in Client |-> form'[d]]
         /\ \A d \in Client : Shaped(form'[d])
<1>1. form'[c] = f /\ \A d \in Client \ {c} : form'[d] = form[d]
  BY DEF SettingsShape
<1>2. DOMAIN form' = Client /\ form' = [d \in Client |-> form'[d]]
  BY DEF SettingsShape
<1>3. \A d \in Client : Shaped(form'[d])
  BY <1>1 DEF SettingsShape
<1> QED BY <1>1, <1>2, <1>3

\* A client whose form, rows and locks stay is as far behind as before.
LEMMA BystanderStep ==
  ASSUME NEW d \in Client, FormBehind(d), form'[d] = form[d], stored' = stored,
         \A g \in SettingGroup : lock[g] = {d} => lock'[g] = {d},
         form[d].batch \subseteq SettingGroup
  PROVE  FormBehind(d)'
BY SameRows DEF FormBehind, Complete

\* A step that gives one client another form, leaves the rows alone, and takes
\* no lock, keeps the invariant when that form may lie behind the rows.
LEMMA FormStep ==
  ASSUME SettingsInv, NEW c \in Client, NEW f, Shaped(f), form' = [form EXCEPT ![c] = f],
         stored' = stored, lock' = lock \/ Unlock(c),
         \A g \in SettingGroup : f.base[g] <= Revision(g),
         f.early /\ Complete(f) =>
           \A g \in SettingGroup : f.base[g] = Revision(g) => f.seen[g] = Effective(g),
         f.phase = "compared" =>
           lock' = lock /\ \A g \in f.batch : lock[g] = {c} /\ f.base[g] = Revision(g),
         f.phase # "saved"
  PROVE  SettingsInv'
<1>1. /\ form'[c] = f /\ \A d \in Client \ {c} : form'[d] = form[d]
      /\ DOMAIN form' = Client /\ form' = [d \in Client |-> form'[d]]
      /\ \A d \in Client : Shaped(form'[d])
  BY FormsShape DEF SettingsInv
<1>2. lock' = [g \in SettingGroup |-> lock'[g]]
  BY DEF SettingsInv, SettingsShape, Unlock
<1>3. SettingsShape'
  BY <1>1, <1>2 DEF SettingsInv, SettingsShape
<1>4. FormBehind(c)'
  <2>1. f.batch \subseteq SettingGroup
    BY DEF Shaped
  <2> QED BY <1>1, <2>1, SameRows DEF FormBehind
<1>5. ASSUME NEW d \in Client \ {c} PROVE FormBehind(d)'
  <2>1. \A g \in SettingGroup : lock[g] = {d} => lock'[g] = {d}
    BY DEF Unlock
  <2>2. FormBehind(d) /\ form[d].batch \subseteq SettingGroup
    BY DEF SettingsInv, SettingsShape, Shaped
  <2> QED BY <1>1, <2>1, <2>2, BystanderStep
<1> QED BY <1>3, <1>4, <1>5 DEF SettingsInv

\* The empty form.
LEMMA EmptyForm ==
  Shaped(NoForm) /\ NoForm.phase = "closed" /\ \A g \in SettingGroup : NoForm.base[g] = 0
<1>1. "closed" \in FormPhase /\ Zeros \in [SettingGroup -> Nat]
      /\ {} \in SUBSET SettingGroup /\ \A g \in SettingGroup : Zeros[g] = 0
  BY DEF FormPhase, Zeros
<1>2. NoForm = Form("closed", Zeros, Default, FALSE, {}, NoValues)
  BY DEF NoForm
<1>3. /\ NoForm.phase = "closed" /\ NoForm.base = Zeros /\ NoForm.batch = {}
      /\ NoForm.seen = Default /\ NoForm.early = FALSE /\ NoForm.values = NoValues
  BY <1>2 DEF Form
<1>4. NoForm = Form(NoForm.phase, NoForm.base, NoForm.seen, NoForm.early, NoForm.batch,
                    NoForm.values)
  BY <1>2, <1>3
<1> HIDE DEF NoForm, NoValues, Zeros
<1> QED BY <1>1, <1>3, <1>4 DEF Shaped

\* A form that goes away.
LEMMA ClosingStep ==
  ASSUME SettingsInv, NEW c \in Client, form' = [form EXCEPT ![c] = NoForm],
         stored' = stored, lock' = lock
  PROVE  SettingsInv'
<1>1. \A g \in SettingGroup : NoForm.base[g] <= Revision(g)
  BY EmptyForm, RevisionNat DEF SettingsInv
<1>2. ~Complete(NoForm) /\ NoForm.phase # "compared" /\ NoForm.phase # "saved"
  BY EmptyForm DEF Complete
<1> HIDE DEF NoForm
<1> QED BY <1>1, <1>2, EmptyForm, FormStep

\* A form that is shown again, or moves to another phase, with what it holds.
LEMMA KeepingStep ==
  ASSUME SettingsInv, NEW c \in Client, NEW p \in FormPhase \ {"compared", "saved"},
         NEW batch \in SUBSET SettingGroup, NEW v,
         p \in {"answering", "shown", "sent"} => Complete(form[c]),
         form' = [form EXCEPT ![c] =
                    Form(p, form[c].base, form[c].seen, form[c].early, batch, v)],
         stored' = stored, lock' = lock \/ Unlock(c)
  PROVE  SettingsInv'
<1> DEFINE f == Form(p, form[c].base, form[c].seen, form[c].early, batch, v)
<1>1. Shaped(form[c]) /\ FormBehind(c)
  BY DEF SettingsInv, SettingsShape
<1>2. form[c].base \in [SettingGroup -> Nat]
  BY <1>1 DEF Shaped
<1>3. /\ Shaped(f) /\ f.phase = p /\ f.base = form[c].base /\ f.seen = form[c].seen
      /\ f.early = form[c].early
  BY <1>2, FormFields
<1>4. form' = [form EXCEPT ![c] = f]
  OBVIOUS
<1> HIDE DEF f
<1>5. /\ \A g \in SettingGroup : f.base[g] <= Revision(g)
      /\ f.phase # "compared" /\ f.phase # "saved"
  BY <1>1, <1>3 DEF FormBehind
<1>6. f.early /\ Complete(f) =>
        \A g \in SettingGroup : f.base[g] = Revision(g) => f.seen[g] = Effective(g)
  BY <1>1, <1>3 DEF FormBehind, Complete
<1> QED BY <1>3, <1>4, <1>5, <1>6, FormStep

\* A form that moves to another phase.
LEMMA PhaseStep ==
  ASSUME SettingsInv, NEW c \in Client, NEW p \in FormPhase \ {"compared", "saved"},
         p \in {"answering", "shown", "sent"} => Complete(form[c]),
         form' = [form EXCEPT ![c] = [form[c] EXCEPT !.phase = p]],
         stored' = stored, lock' = lock
  PROVE  SettingsInv'
<1>1. Shaped(form[c]) /\ form[c].batch \in SUBSET SettingGroup
  BY DEF SettingsInv, SettingsShape, Shaped
<1>2. PICK batch \in SUBSET SettingGroup : batch = form[c].batch
  BY <1>1
<1>3. PICK v : v = form[c].values
  OBVIOUS
<1>4. form' = [form EXCEPT ![c] =
                 Form(p, form[c].base, form[c].seen, form[c].early, batch, v)]
  BY <1>1, <1>2, <1>3, NewPhase
<1> QED BY <1>4, KeepingStep

\* Reading and closing.
LEMMA ReadingSteps ==
  ASSUME SettingsInv, NEW c \in Client,
         \/ OpenSettings(c) \/ ReadRevisions(c) \/ StatusAnswers(c) \/ ReadValues(c)
         \/ CloseSettings(c)
  PROVE  SettingsInv'
<1>0. Shaped(form[c]) /\ FormBehind(c) /\ form[c].base \in [SettingGroup -> Nat]
      /\ form[c].batch \in SUBSET SettingGroup
      /\ \A g \in SettingGroup : Revision(g) \in Nat
  BY RevisionNat DEF SettingsInv, SettingsShape, Shaped
<1>1. CASE OpenSettings(c)
  <2>1. form' = [form EXCEPT ![c] = [form[c] EXCEPT !.phase = "loading"]]
        /\ stored' = stored /\ lock' = lock
    BY <1>1 DEF OpenSettings, Phased, LeaveRows
  <2>2. "loading" \in FormPhase \ {"compared", "saved"}
    BY DEF FormPhase
  <2> QED BY <2>1, <2>2, PhaseStep
<1>2. CASE ReadRevisions(c)
  <2> DEFINE p == IF form[c].phase = "loading" THEN "revisions" ELSE "answering"
             b == [g \in SettingGroup |-> Revision(g)]
             e == form[c].phase = "loading"
             f == Form(p, b, form[c].seen, e, {}, NoValues)
  <2>1. form' = [form EXCEPT ![c] = f] /\ stored' = stored /\ lock' = lock
    BY <1>2 DEF ReadRevisions, LeaveRows
  <2>2. p \in FormPhase /\ b \in [SettingGroup -> Nat] /\ {} \in SUBSET SettingGroup
    BY <1>0 DEF FormPhase
  <2>3. \A g \in SettingGroup : b[g] <= Revision(g)
    BY <1>0
  <2>4. p \notin {"compared", "saved"} /\ (e => p = "revisions")
    OBVIOUS
  <2> HIDE DEF p, b, e
  <2>5. Shaped(f) /\ f.phase = p /\ f.base = b /\ f.early = e
    BY <2>2, FormFields
  <2> HIDE DEF f
  <2>6. ~(f.early /\ Complete(f))
    BY <2>4, <2>5 DEF Complete
  <2> QED BY <2>1, <2>3, <2>4, <2>5, <2>6, FormStep
<1>3. CASE StatusAnswers(c)
  <2>1. CASE Readable(FALSE)
    <3> DEFINE p == IF form[c].phase = "revisions" THEN "status" ELSE "shown"
    <3>1. form' = [form EXCEPT ![c] = [form[c] EXCEPT !.phase = p]]
          /\ stored' = stored /\ lock' = lock
      BY <1>3, <2>1 DEF StatusAnswers, Phased, LeaveRows
    <3>2. p \in FormPhase \ {"compared", "saved"}
          /\ (p \in {"answering", "shown", "sent"} => Complete(form[c]))
      BY <1>3 DEF FormPhase, StatusAnswers, Complete
    <3> HIDE DEF p
    <3> QED BY <3>1, <3>2, PhaseStep
  <2>2. CASE ~Readable(FALSE)
    BY <1>3, <2>2, ClosingStep DEF StatusAnswers, LeaveRows
  <2> QED BY <2>1, <2>2
<1>4. CASE ReadValues(c)
  <2>1. CASE Readable(Avif)
    <3> DEFINE p == CASE form[c].phase = "loading"   -> "values"
                      [] form[c].phase = "revisions" -> "answering"
                      [] form[c].phase = "status"    -> "shown"
               s == [g \in SettingGroup |-> Effective(g)]
               f == Form(p, form[c].base, s, form[c].early, {}, NoValues)
    <3>1. form' = [form EXCEPT ![c] = f] /\ stored' = stored /\ lock' = lock
      BY <1>4, <2>1 DEF ReadValues, LeaveRows
    <3>2. p \in {"values", "answering", "shown"}
      BY <1>4 DEF ReadValues
    <3>3. \A g \in SettingGroup : s[g] = Effective(g)
      OBVIOUS
    <3> HIDE DEF p, s
    <3>4. p \in FormPhase /\ {} \in SUBSET SettingGroup
      BY <3>2 DEF FormPhase
    <3>5. Shaped(f) /\ f.phase = p /\ f.base = form[c].base /\ f.seen = s
      BY <1>0, <3>4, FormFields
    <3> HIDE DEF f
    <3>6. \A g \in SettingGroup : f.base[g] <= Revision(g)
      BY <1>0, <3>5 DEF FormBehind
    <3> QED BY <3>1, <3>2, <3>3, <3>5, <3>6, FormStep
  <2>2. CASE ~Readable(Avif)
    BY <1>4, <2>2, ClosingStep DEF ReadValues, LeaveRows
  <2> QED BY <2>1, <2>2
<1>5. CASE CloseSettings(c)
  BY <1>5, ClosingStep DEF CloseSettings, LeaveRows
<1> QED BY <1>1, <1>2, <1>3, <1>4, <1>5

\* A save that does not go through shows the form as it was.
LEMMA RefillStep ==
  ASSUME SettingsInv, NEW c \in Client, Complete(form[c]),
         form' = [form EXCEPT ![c] = Filled(form[c])],
         stored' = stored, lock' = lock \/ Unlock(c)
  PROVE  SettingsInv'
<1>1. "shown" \in FormPhase \ {"compared", "saved"} /\ {} \in SUBSET SettingGroup
  BY DEF FormPhase
<1>2. PICK batch \in SUBSET SettingGroup : batch = {}
  BY <1>1
<1>3. PICK v : v = NoValues
  OBVIOUS
<1>4. form' = [form EXCEPT ![c] =
                 Form("shown", form[c].base, form[c].seen, form[c].early, batch, v)]
  BY <1>2, <1>3 DEF Filled
<1> QED BY <1>1, <1>4, KeepingStep

\* A lock is taken.
LEMMA LockStep ==
  ASSUME SettingsInv, NEW c \in Client, NEW g \in SettingGroup, LockGroup(c, g)
  PROVE  SettingsInv'
<1>1. /\ form' = form /\ stored' = stored
      /\ \A h \in SettingGroup : h # g => lock'[h] = lock[h]
      /\ lock[g] = {} /\ lock' = [h \in SettingGroup |-> lock'[h]]
  BY DEF LockGroup, SettingsInv, SettingsShape
<1>2. SettingsShape'
  <2>1. \A h \in SettingGroup :
          stored'[h] = {} \/ \E r : stored'[h] = {r} /\ r.revision \in Nat
    BY <1>1 DEF SettingsInv, SettingsShape
  <2>2. /\ DOMAIN form' = Client /\ form' = [d \in Client |-> form'[d]]
        /\ \A d \in Client : Shaped(form'[d])
    BY <1>1 DEF SettingsInv, SettingsShape
  <2> QED BY <1>1, <2>1, <2>2 DEF SettingsShape
<1>3. ASSUME NEW d \in Client PROVE FormBehind(d)'
  <2>1. FormBehind(d) /\ form[d].batch \subseteq SettingGroup
    BY DEF SettingsInv, SettingsShape, Shaped
  <2>2. ASSUME NEW h \in SettingGroup, lock[h] = {d} PROVE lock'[h] = {d}
    <3>1. d \in lock[h]
      BY <2>2
    <3>2. h # g
      BY <1>1, <3>1
    <3> QED BY <1>1, <2>2, <3>2
  <2> QED BY <1>1, <2>1, <2>2, BystanderStep
<1> QED BY <1>2, <1>3 DEF SettingsInv

\* The revisions are compared under the locks.
LEMMA CompareStep ==
  ASSUME SettingsInv, NEW c \in Client, Compare(c)
  PROVE  SettingsInv'
<1>0. Shaped(form[c]) /\ FormBehind(c) /\ form[c].base \in [SettingGroup -> Nat]
      /\ form[c].batch \in SUBSET SettingGroup
  BY DEF SettingsInv, SettingsShape, Shaped
<1>1. Complete(form[c])
  BY DEF Compare, Sent, Complete
<1>2. CASE RevisionsMatch(c)
  <2> DEFINE f == [form[c] EXCEPT !.phase = "compared"]
  <2>1. form' = [form EXCEPT ![c] = f] /\ stored' = stored /\ lock' = lock
    BY <1>2 DEF Compare, Phased
  <2>2. f = Form("compared", form[c].base, form[c].seen, form[c].early, form[c].batch,
                 form[c].values)
    BY <1>0, NewPhase
  <2>3. "compared" \in FormPhase
    BY DEF FormPhase
  <2> HIDE DEF f
  <2>4. /\ Shaped(f) /\ f.phase = "compared" /\ f.base = form[c].base
        /\ f.seen = form[c].seen /\ f.early = form[c].early /\ f.batch = form[c].batch
    BY <1>0, <2>2, <2>3, FormFields
  <2>5. \A g \in f.batch : lock[g] = {c} /\ f.base[g] = Revision(g)
    BY <1>2, <2>4 DEF Compare, Held, RevisionsMatch
  <2>6. \A g \in SettingGroup : f.base[g] <= Revision(g)
    BY <1>0, <2>4 DEF FormBehind
  <2>7. f.early => \A g \in SettingGroup : f.base[g] = Revision(g) => f.seen[g] = Effective(g)
    BY <1>0, <1>1, <2>4 DEF FormBehind
  <2> QED BY <2>1, <2>4, <2>5, <2>6, <2>7, FormStep
<1>3. CASE ~RevisionsMatch(c)
  <2>1. form' = [form EXCEPT ![c] = Filled(form[c])] /\ stored' = stored /\ Unlock(c)
    BY <1>3 DEF Compare
  <2> QED BY <1>1, <2>1, RefillStep
<1> QED BY <1>2, <1>3

\* The batch is written: its rows pass every form but the one that was saved,
\* and no other client that has compared its own batch holds one of these locks.
LEMMA CommitStep ==
  ASSUME SettingsInv, NEW c \in Client, Commit(c)
  PROVE  SettingsInv'
<1> DEFINE f == [form[c] EXCEPT !.phase = "saved"]
<1>0. /\ Shaped(form[c]) /\ FormBehind(c) /\ form[c].base \in [SettingGroup -> Nat]
      /\ form[c].batch \in SUBSET SettingGroup /\ form[c].phase = "compared"
      /\ \A g \in SettingGroup : Revision(g) \in Nat
  BY RevisionNat DEF SettingsInv, SettingsShape, Shaped, Commit
<1>1. form' = [form EXCEPT ![c] = f] /\ Unlock(c)
  BY DEF Commit, Phased
<1>2. f = Form("saved", form[c].base, form[c].seen, form[c].early, form[c].batch,
               form[c].values)
  BY <1>0, NewPhase
<1>3. "saved" \in FormPhase
  BY DEF FormPhase
<1> HIDE DEF f
<1>4. /\ Shaped(f) /\ f.phase = "saved" /\ f.base = form[c].base /\ f.seen = form[c].seen
      /\ f.early = form[c].early /\ f.batch = form[c].batch /\ f.values = form[c].values
  BY <1>0, <1>2, <1>3, FormFields
<1>5. /\ form'[c] = f /\ \A d \in Client \ {c} : form'[d] = form[d]
      /\ DOMAIN form' = Client /\ form' = [d \in Client |-> form'[d]]
      /\ \A d \in Client : Shaped(form'[d])
  BY <1>1, <1>4, FormsShape DEF SettingsInv
<1>6. SettingsShape'
  <2>1. lock' = [g \in SettingGroup |-> lock'[g]]
    BY <1>1 DEF Unlock
  <2>2. ASSUME NEW g \in SettingGroup
        PROVE  stored'[g] = {} \/ \E r : stored'[g] = {r} /\ r.revision \in Nat
    <3>1. CASE g \in form[c].batch
      <4> DEFINE r == SettingRow(form[c].values[g], Revision(g) + 1)
      <4>1. stored'[g] = {r}
        BY <3>1, CommittedRows
      <4>2. r.revision \in Nat
        BY <1>0 DEF SettingRow
      <4> HIDE DEF r
      <4> QED BY <4>1, <4>2
    <3>2. CASE g \notin form[c].batch
      <4>1. stored'[g] = stored[g]
        BY <3>2, CommittedRows
      <4> QED BY <4>1 DEF SettingsInv, SettingsShape
    <3> QED BY <3>1, <3>2
  <2> QED BY <1>5, <2>1, <2>2 DEF SettingsShape
<1>7. \A g \in SettingGroup :
        /\ g \notin form[c].batch => /\ Revision(g)' = Revision(g)
                                     /\ Effective(g)' = Effective(g)
        /\ g \in form[c].batch => /\ Revision(g)' = Revision(g) + 1
                                  /\ Effective(g)' = form[c].values[g]
  BY CommittedRows
<1>8. FormBehind(c)'
  <2>1. \A g \in form[c].batch : form[c].base[g] = Revision(g)
    BY <1>0 DEF FormBehind
  <2>2. \A g \in SettingGroup : form[c].base[g] <= Revision(g) /\ form[c].base[g] \in Nat
    BY <1>0 DEF FormBehind
  <2>3. \A g \in SettingGroup : f.base[g] <= Revision(g)'
    BY <1>0, <1>4, <1>7, <2>2
  <2>4. f.early => \A g \in SettingGroup :
                     f.base[g] = Revision(g)' => f.seen[g] = Effective(g)'
    <3> SUFFICES ASSUME f.early, NEW g \in SettingGroup, f.base[g] = Revision(g)'
                 PROVE  f.seen[g] = Effective(g)'
      OBVIOUS
    <3>1. g \notin form[c].batch
      BY <1>0, <1>4, <1>7, <2>1
    <3>2. form[c].base[g] = Revision(g) /\ Complete(form[c]) /\ form[c].early
      BY <1>0, <1>4, <1>7, <3>1 DEF Complete
    <3>3. form[c].seen[g] = Effective(g)
      BY <1>0, <3>2 DEF FormBehind
    <3> QED BY <1>4, <1>7, <3>1, <3>3
  <2>5. \A g \in f.batch : /\ f.base[g] < Revision(g)'
                           /\ f.base[g] + 1 = Revision(g)' => f.values[g] = Effective(g)'
    BY <1>0, <1>4, <1>7, <2>1
  <2> QED BY <1>4, <1>5, <2>3, <2>4, <2>5 DEF FormBehind
<1>9. ASSUME NEW d \in Client \ {c} PROVE FormBehind(d)'
  <2>1. form'[d] = form[d] /\ FormBehind(d) /\ form[d].batch \subseteq SettingGroup
        /\ \A g \in SettingGroup : form[d].base[g] \in Nat
    BY <1>5 DEF SettingsInv, SettingsShape, Shaped
  <2>2. \A g \in SettingGroup : form[d].base[g] <= Revision(g)'
    BY <1>0, <1>7, <2>1 DEF FormBehind
  <2>3. \A g \in SettingGroup :
          form[d].base[g] = Revision(g)' => g \notin form[c].batch /\ form[d].base[g] = Revision(g)
    BY <1>0, <1>7, <2>1 DEF FormBehind
  <2>4. form[d].early /\ Complete(form[d]) =>
          \A g \in SettingGroup :
            form[d].base[g] = Revision(g)' => form[d].seen[g] = Effective(g)'
    BY <1>7, <2>1, <2>3 DEF FormBehind
  <2>5. form[d].phase = "compared" =>
          \A g \in form[d].batch : lock'[g] = {d} /\ form[d].base[g] = Revision(g)'
    <3> SUFFICES ASSUME form[d].phase = "compared", NEW g \in form[d].batch
                 PROVE  lock'[g] = {d} /\ form[d].base[g] = Revision(g)'
      OBVIOUS
    <3>1. g \in SettingGroup /\ lock[g] = {d} /\ form[d].base[g] = Revision(g)
      BY <2>1 DEF FormBehind
    <3>2. g \notin form[c].batch
      BY <1>0, <3>1 DEF FormBehind
    <3>3. lock'[g] = {d}
      BY <1>1, <3>1 DEF Unlock
    <3> QED BY <1>7, <3>1, <3>2, <3>3
  <2>6. form[d].phase = "saved" =>
          \A g \in form[d].batch :
            /\ form[d].base[g] < Revision(g)'
            /\ form[d].base[g] + 1 = Revision(g)' => form[d].values[g] = Effective(g)'
    <3> SUFFICES ASSUME form[d].phase = "saved", NEW g \in form[d].batch
                 PROVE  /\ form[d].base[g] < Revision(g)'
                        /\ form[d].base[g] + 1 = Revision(g)' =>
                             form[d].values[g] = Effective(g)'
      OBVIOUS
    <3>1. /\ g \in SettingGroup /\ form[d].base[g] < Revision(g)
          /\ form[d].base[g] + 1 = Revision(g) => form[d].values[g] = Effective(g)
      BY <2>1 DEF FormBehind
    <3>2. CASE g \in form[c].batch
      BY <1>0, <1>7, <2>1, <3>1, <3>2
    <3>3. CASE g \notin form[c].batch
      BY <1>7, <3>1, <3>3
    <3> QED BY <3>2, <3>3
  <2> QED BY <2>1, <2>2, <2>4, <2>5, <2>6 DEF FormBehind
<1> QED BY <1>6, <1>8, <1>9 DEF SettingsInv

\* The answer gives the form the revisions and the values it saved.
LEMMA AnswerStep ==
  ASSUME SettingsInv, NEW c \in Client, Answer(c)
  PROVE  SettingsInv'
<1> DEFINE base == [g \in SettingGroup |->
                      form[c].base[g] + IF g \in form[c].batch THEN 1 ELSE 0]
           seen == [g \in SettingGroup |-> IF g \in form[c].batch THEN form[c].values[g]
                                            ELSE form[c].seen[g]]
           f == Form("shown", base, seen, form[c].early, {}, NoValues)
<1>0. /\ Shaped(form[c]) /\ FormBehind(c) /\ form[c].base \in [SettingGroup -> Nat]
      /\ form[c].phase = "saved"
      /\ \A g \in SettingGroup : Revision(g) \in Nat
  BY RevisionNat DEF SettingsInv, SettingsShape, Shaped, Answer
<1>1. form' = [form EXCEPT ![c] = f] /\ stored' = stored /\ lock' = lock
  BY DEF Answer, LeaveRows, Filled, Form
<1>2. base \in [SettingGroup -> Nat]
  BY <1>0
<1>3. \A g \in SettingGroup : base[g] <= Revision(g)
  BY <1>0 DEF FormBehind
<1>4. form[c].early => \A g \in SettingGroup : base[g] = Revision(g) => seen[g] = Effective(g)
  <2> SUFFICES ASSUME form[c].early, NEW g \in SettingGroup, base[g] = Revision(g)
               PROVE  seen[g] = Effective(g)
    OBVIOUS
  <2>1. CASE g \in form[c].batch
    <3>1. form[c].base[g] + 1 = Revision(g) /\ seen[g] = form[c].values[g]
      BY <2>1
    <3> QED BY <1>0, <2>1, <3>1 DEF FormBehind
  <2>2. CASE g \notin form[c].batch
    <3>1. form[c].base[g] = Revision(g) /\ seen[g] = form[c].seen[g]
      BY <1>0, <2>2
    <3> QED BY <1>0, <2>2, <3>1 DEF FormBehind, Complete
  <2> QED BY <2>1, <2>2
<1>5. "shown" \in FormPhase /\ {} \in SUBSET SettingGroup
  BY DEF FormPhase
<1> HIDE DEF base, seen
<1>6. Shaped(f) /\ f.phase = "shown" /\ f.base = base /\ f.seen = seen
      /\ f.early = form[c].early
  BY <1>2, <1>5, FormFields
<1> HIDE DEF f
<1> QED BY <1>1, <1>3, <1>4, <1>6, FormStep
-----------------------------------------------------------------------------
(* Theorems *)

LEMMA InvInit == SettingsInit => SettingsInv
<1> SUFFICES ASSUME SettingsInit PROVE SettingsInv
  OBVIOUS
<1>1. /\ \A g \in SettingGroup : stored[g] = {} /\ Revision(g) = 0
      /\ \A c \in Client : form[c] = NoForm
      /\ DOMAIN form = Client /\ form = [c \in Client |-> form[c]]
      /\ lock = [g \in SettingGroup |-> lock[g]]
  BY DEF SettingsInit, Revision
<1>2. ~Complete(NoForm) /\ NoForm.phase # "compared" /\ NoForm.phase # "saved"
  BY EmptyForm DEF Complete
<1> HIDE DEF NoForm
<1>3. SettingsShape
  BY <1>1, EmptyForm DEF SettingsShape
<1>4. \A c \in Client : FormBehind(c)
  BY <1>1, <1>2, EmptyForm DEF FormBehind
<1> QED BY <1>3, <1>4 DEF SettingsInv

LEMMA InvNext == SettingsInv /\ [SettingsNext]_settingsVars => SettingsInv'
<1> SUFFICES ASSUME SettingsInv, [SettingsNext]_settingsVars PROVE SettingsInv'
  OBVIOUS
<1>1. ASSUME NEW c \in Client,
             \/ OpenSettings(c) \/ ReadRevisions(c) \/ StatusAnswers(c) \/ ReadValues(c)
             \/ CloseSettings(c)
      PROVE  SettingsInv'
  BY <1>1, ReadingSteps
<1>2. ASSUME NEW c \in Client, SendSave(c) PROVE SettingsInv'
  <2>1. PICK batch \in Batch : \E v :
          form' = [form EXCEPT ![c].phase = "sent", ![c].batch = batch, ![c].values = v]
    BY <1>2 DEF SendSave
  <2>2. PICK v :
          form' = [form EXCEPT ![c].phase = "sent", ![c].batch = batch, ![c].values = v]
    BY <2>1
  <2>3. PICK f : f = form[c]
    OBVIOUS
  <2>4. Shaped(f) /\ Complete(f) /\ stored' = stored /\ lock' = lock
    BY <1>2, <2>3 DEF SendSave, LeaveRows, SettingsInv, SettingsShape, Complete
  <2>5. form' = [form EXCEPT ![c] = Form("sent", f.base, f.seen, f.early, batch, v)]
    <3>1. [f EXCEPT !.phase = "sent"]
            = Form("sent", f.base, f.seen, f.early, f.batch, f.values)
      BY <2>4, NewPhase
    <3>2. [Form("sent", f.base, f.seen, f.early, f.batch, f.values) EXCEPT !.batch = batch]
            = Form("sent", f.base, f.seen, f.early, batch, f.values)
      BY DEF Form
    <3>3. [Form("sent", f.base, f.seen, f.early, batch, f.values) EXCEPT !.values = v]
            = Form("sent", f.base, f.seen, f.early, batch, v)
      BY DEF Form
    <3>4. form' = [form EXCEPT ![c] =
             [[[f EXCEPT !.phase = "sent"] EXCEPT !.batch = batch] EXCEPT !.values = v]]
      BY <2>2, <2>3 DEF SettingsInv, SettingsShape
    <3>5. [[[f EXCEPT !.phase = "sent"] EXCEPT !.batch = batch] EXCEPT !.values = v]
            = Form("sent", f.base, f.seen, f.early, batch, v)
      BY <3>1, <3>2, <3>3, Zenon
    <3> QED BY <3>4, <3>5
  <2>6. "sent" \in FormPhase \ {"compared", "saved"} /\ batch \in SUBSET SettingGroup
    BY SettingsAssumption DEF FormPhase
  <2> QED BY <2>3, <2>4, <2>5, <2>6, KeepingStep
<1>3. ASSUME NEW c \in Client, RefuseInvalid(c) \/ LoseAnswer(c) \/ RollBack(c)
      PROVE  SettingsInv'
  <2>1. form' = [form EXCEPT ![c] = Filled(form[c])] /\ stored' = stored
        /\ (lock' = lock \/ Unlock(c)) /\ Complete(form[c])
    BY <1>3 DEF RefuseInvalid, LoseAnswer, RollBack, LeaveRows, Sent, Complete
  <2> QED BY <2>1, RefillStep
<1>4. ASSUME NEW c \in Client, ServerStep(c) PROVE SettingsInv'
  BY <1>3, <1>4, LockStep, CompareStep, CommitStep, AnswerStep DEF ServerStep
<1>5. CASE UNCHANGED settingsVars
  <2>1. stored' = stored /\ lock' = lock /\ form' = form
    BY <1>5 DEF settingsVars
  <2>2. SettingsShape'
    BY <2>1 DEF SettingsInv, SettingsShape
  <2>3. ASSUME NEW d \in Client PROVE FormBehind(d)'
    <3>1. FormBehind(d) /\ form[d].batch \subseteq SettingGroup
      BY DEF SettingsInv, SettingsShape, Shaped
    <3> QED BY <2>1, <3>1, BystanderStep
  <2> QED BY <2>2, <2>3 DEF SettingsInv
<1> QED BY <1>1, <1>2, <1>3, <1>4, <1>5 DEF SettingsNext

\* Every reachable state keeps every form behind the rows in the sense above.
THEOREM FormsStayBehind == SettingsSpec => []SettingsInv
<1> QED BY InvInit, InvNext, PTL DEF SettingsSpec

\* A stored row has a revision, locks are held by clients.
THEOREM SettingsTyped == SettingsSpec => []SettingsTypeOK
<1>1. SettingsInit => SettingsTypeOK
  BY SettingsAssumption DEF SettingsInit, SettingsTypeOK
<1>2. SettingsInv /\ SettingsTypeOK /\ [SettingsNext]_settingsVars => SettingsTypeOK'
  <2> SUFFICES ASSUME SettingsInv, SettingsTypeOK, [SettingsNext]_settingsVars
               PROVE  SettingsTypeOK'
    OBVIOUS
  <2>1. stored' = stored \/ \E c \in Client : Commit(c)
    BY DEF SettingsNext, ServerStep, settingsVars, OpenSettings, ReadRevisions, StatusAnswers,
           ReadValues, CloseSettings, SendSave, RefuseInvalid, LockGroup, Compare, Answer,
           LoseAnswer, RollBack, LeaveRows
  <2>2. \/ lock' = lock
        \/ \E c \in Client : Unlock(c) \/ \E g \in SettingGroup : LockGroup(c, g)
    BY DEF SettingsNext, ServerStep, settingsVars, OpenSettings, ReadRevisions, StatusAnswers,
           ReadValues, CloseSettings, SendSave, RefuseInvalid, Compare, Commit, Answer,
           LoseAnswer, RollBack, LeaveRows
  <2>3. mishaps' = mishaps \/ Mishap
    BY DEF SettingsNext, ServerStep, settingsVars, OpenSettings, ReadRevisions, StatusAnswers,
           ReadValues, CloseSettings, SendSave, RefuseInvalid, LockGroup, Compare, Commit,
           Answer, LoseAnswer, RollBack, LeaveRows
  <2>4. ASSUME NEW g \in SettingGroup, NEW r \in stored'[g] PROVE r.revision \in Nat \ {0}
    <3>1. CASE stored'[g] = stored[g]
      BY <2>4, <3>1 DEF SettingsTypeOK
    <3>2. CASE stored'[g] # stored[g]
      <4>1. PICK c \in Client : Commit(c)
        BY <2>1, <3>2
      <4>2. \E v : stored'[g] = {SettingRow(v, Revision(g) + 1)}
        BY <3>2, <4>1, CommittedRows
      <4>3. PICK v : r = SettingRow(v, Revision(g) + 1)
        BY <2>4, <4>2
      <4>4. Revision(g) \in Nat
        BY RevisionNat DEF SettingsInv
      <4> QED BY <4>3, <4>4 DEF SettingRow
    <3> QED BY <3>1, <3>2
  <2>5. ASSUME NEW g \in SettingGroup PROVE lock'[g] \subseteq Client
    <3>1. lock[g] \subseteq Client
      BY DEF SettingsTypeOK
    <3>2. CASE \E c \in Client : Unlock(c)
      BY <3>1, <3>2 DEF Unlock
    <3>3. ASSUME NEW c \in Client, NEW h \in SettingGroup, LockGroup(c, h)
          PROVE  lock'[g] \subseteq Client
      <4>1. lock'[g] = lock[g] \/ lock'[g] = {c}
        BY <3>3 DEF LockGroup, SettingsInv, SettingsShape
      <4> QED BY <3>1, <4>1
    <3> QED BY <2>2, <3>1, <3>2, <3>3
  <2>6. mishaps' \in 0 .. MaxMishaps
    BY <2>3, SettingsAssumption DEF SettingsTypeOK, Mishap
  <2> QED BY <2>4, <2>5, <2>6 DEF SettingsTypeOK
<1> QED BY <1>1, <1>2, FormsStayBehind, PTL DEF SettingsSpec

\* Two saves that are between their comparison and their commit share no group:
\* the locks of both last as long as their transactions.
NoGroupTwice ==
  \A c, d \in Client :
    c # d /\ form[c].phase = "compared" /\ form[d].phase = "compared" =>
      form[c].batch \cap form[d].batch = {}

\* Two batches that have compared their revisions never share a group
\* (update_many takes a lock for each of them first).
THEOREM SavesAreExclusive == SettingsSpec => []NoGroupTwice
<1>1. SettingsInv => NoGroupTwice
  <2> SUFFICES ASSUME SettingsInv, NEW c \in Client, NEW d \in Client, c # d,
                      form[c].phase = "compared", form[d].phase = "compared",
                      NEW g \in form[c].batch, g \in form[d].batch
               PROVE  FALSE
    BY DEF NoGroupTwice
  <2>1. lock[g] = {c} /\ lock[g] = {d}
    BY DEF SettingsInv, FormBehind
  <2> QED BY <2>1
<1> QED BY <1>1, FormsStayBehind, PTL

\* A form that read its revisions before its values replaces nothing it did not
\* show, whatever other clients save, however requests interleave or fail.
THEOREM NothingUnseen == SettingsSpec => NothingUnseenIsOverwritten
<1>1. SettingsInv /\ [SettingsNext]_settingsVars =>
        [\A c \in Client :
           form[c].phase = "compared" /\ form'[c].phase = "saved" /\ form[c].early
             => \A g \in form[c].batch : Effective(g) = form[c].seen[g]]_settingsVars
  <2> SUFFICES ASSUME SettingsInv, NEW c \in Client, form[c].phase = "compared",
                      form[c].early, NEW g \in form[c].batch
               PROVE  Effective(g) = form[c].seen[g]
    OBVIOUS
  <2>1. FormBehind(c) /\ g \in SettingGroup /\ Complete(form[c])
    BY DEF SettingsInv, SettingsShape, Shaped, Complete
  <2>2. form[c].base[g] = Revision(g)
    BY <2>1 DEF FormBehind
  <2> QED BY <2>1, <2>2 DEF FormBehind
<1> QED BY <1>1, FormsStayBehind, PTL DEF SettingsSpec, NothingUnseenIsOverwritten
-----------------------------------------------------------------------------
(* Saves that wait for locks *)

\* A client holds locks only for a save that is accepted, of groups in its
\* batch, and each of them comes before every lock it still needs.
LockOrder(c) ==
  /\ Held(c) # {} => form[c].phase = "compared" \/ (Sent(c) /\ Accepted(c))
  /\ Sent(c) => /\ Held(c) \subseteq form[c].batch
                /\ \A g \in Held(c), h \in form[c].batch \ Held(c) : Place(g) < Place(h)

LockOwners == \A g \in SettingGroup : lock[g] = {} \/ \E c \in Client : lock[g] = {c}

LockInv == LockOwners /\ \A c \in Client : LockOrder(c)

\* Every group has its place, and no other group has it.
LEMMA Places ==
  /\ \A g \in SettingGroup : Place(g) \in 1 .. 9 /\ GroupOrder[Place(g)] = g
  /\ \A g, h \in SettingGroup : Place(g) = Place(h) => g = h
<1>1. ASSUME NEW g \in SettingGroup PROVE Place(g) \in 1 .. 9 /\ GroupOrder[Place(g)] = g
  <2>1. \E i \in 1 .. 9 : GroupOrder[i] = g
    BY DEF SettingGroup
  <2> QED BY <2>1 DEF Place
<1> QED BY <1>1

\* Among groups there is one that comes last, and one that comes first.
LEMMA LastPlace ==
  ASSUME NEW S \in SUBSET SettingGroup, S # {}
  PROVE  /\ \E g \in S : \A h \in S : Place(h) <= Place(g)
         /\ \E g \in S : \A h \in S : Place(g) <= Place(h)
<1> DEFINE T == {Place(g) : g \in S}
<1>1. T \subseteq 1 .. 9 /\ T # {}
  BY Places
<1>2. \E m \in T : \A n \in T : n <= m
  <2> SUFFICES ASSUME \A m \in T : \E n \in T : m < n PROVE FALSE
    BY <1>1
  <2> HIDE DEF T
  <2>1. T \cap 8 .. 9 = {}
    BY <1>1
  <2>2. T \cap 6 .. 9 = {}
    BY <1>1, <2>1
  <2>3. T \cap 4 .. 9 = {}
    BY <1>1, <2>2
  <2>4. T \cap 2 .. 9 = {}
    BY <1>1, <2>3
  <2>5. PICK m \in T : TRUE
    BY <1>1
  <2> QED BY <1>1, <2>4, <2>5
<1>3. \E m \in T : \A n \in T : m <= n
  <2> SUFFICES ASSUME \A m \in T : \E n \in T : n < m PROVE FALSE
    BY <1>1
  <2> HIDE DEF T
  <2>1. T \cap 1 .. 2 = {}
    BY <1>1
  <2>2. T \cap 1 .. 4 = {}
    BY <1>1, <2>1
  <2>3. T \cap 1 .. 6 = {}
    BY <1>1, <2>2
  <2>4. T \cap 1 .. 8 = {}
    BY <1>1, <2>3
  <2>5. PICK m \in T : TRUE
    BY <1>1
  <2> QED BY <1>1, <2>4, <2>5
<1> QED BY <1>2, <1>3

\* A client without locks keeps their order.
LEMMA EmptyHanded ==
  ASSUME NEW c \in Client, Held(c) = {}
  PROVE  LockOrder(c)
BY DEF LockOrder

\* Locks that are given back leave those of the others alone.
LEMMA Unlocked ==
  ASSUME NEW c \in Client, LockOwners, lock = [g \in SettingGroup |-> lock[g]],
         Unlock(c)
  PROVE  /\ Held(c)' = {}
         /\ \A d \in Client \ {c} : Held(d)' = Held(d)
         /\ LockOwners'
<1>1. \A g \in SettingGroup : lock'[g] = lock[g] \ {c}
  BY DEF Unlock
<1>2. ASSUME NEW g \in SettingGroup
      PROVE  /\ lock'[g] # {c}
             /\ \A d \in Client \ {c} : lock'[g] = {d} <=> lock[g] = {d}
             /\ lock'[g] = {} \/ \E d \in Client : lock'[g] = {d}
  <2>1. CASE lock[g] = {}
    BY <1>1, <2>1
  <2>2. ASSUME NEW d \in Client, lock[g] = {d}
        PROVE  /\ lock'[g] # {c}
               /\ \A e \in Client \ {c} : lock'[g] = {e} <=> lock[g] = {e}
               /\ lock'[g] = {} \/ \E e \in Client : lock'[g] = {e}
    <3>1. CASE d = c
      <4>1. lock'[g] = {}
        BY <1>1, <2>2, <3>1
      <4> QED BY <2>2, <3>1, <4>1
    <3>2. CASE d # c
      <4>1. lock'[g] = {d}
        BY <1>1, <2>2, <3>2
      <4> QED BY <2>2, <3>2, <4>1
    <3> QED BY <3>1, <3>2
  <2> QED BY <2>1, <2>2 DEF LockOwners
<1> QED BY <1>2 DEF Held, LockOwners

\* A client whose form and locks stay keeps their order.
LEMMA OrderStays ==
  ASSUME NEW d \in Client, LockOrder(d), form'[d] = form[d], Held(d)' = Held(d)
  PROVE  LockOrder(d)'
BY DEF LockOrder, Sent, Accepted

\* A step after which its client has no locks.
LEMMA FreeStep ==
  ASSUME SettingsShape, LockInv, NEW c \in Client, NEW f, form' = [form EXCEPT ![c] = f],
         Unlock(c) \/ (lock' = lock /\ Held(c) = {})
  PROVE  LockInv'
<1>1. \A d \in Client \ {c} : form'[d] = form[d]
  BY DEF SettingsShape
<1>2. /\ Held(c)' = {}
      /\ \A d \in Client \ {c} : Held(d)' = Held(d)
      /\ LockOwners'
  <2>1. CASE Unlock(c)
    BY <2>1, Unlocked DEF SettingsShape, LockInv
  <2>2. CASE lock' = lock /\ Held(c) = {}
    BY <2>2 DEF LockInv, LockOwners, Held
  <2> QED BY <2>1, <2>2
<1>3. LockOrder(c)'
  BY <1>2, EmptyHanded DEF LockOrder
<1>4. ASSUME NEW d \in Client \ {c} PROVE LockOrder(d)'
  BY <1>1, <1>2, OrderStays DEF LockInv
<1> QED BY <1>2, <1>3, <1>4 DEF LockInv

\* The next lock is taken: it comes after all that are held, and before the rest.
LEMMA NextLockStep ==
  ASSUME SettingsShape, LockInv, NEW c \in Client, NEW g \in SettingGroup, LockGroup(c, g)
  PROVE  LockInv'
<1>1. /\ form' = form /\ lock[g] = {} /\ lock'[g] = {c}
      /\ \A h \in SettingGroup \ {g} : lock'[h] = lock[h]
      /\ Sent(c) /\ Accepted(c) /\ NextLock(c, g)
  BY DEF LockGroup, SettingsShape
<1>2. Held(c)' = Held(c) \cup {g}
  BY <1>1 DEF Held
<1>3. ASSUME NEW d \in Client \ {c} PROVE Held(d)' = Held(d)
  <2>1. lock'[g] # {d} /\ lock[g] # {d}
    BY <1>1, <1>3
  <2> QED BY <1>1, <2>1 DEF Held
<1>4. LockOwners'
  <2>1. ASSUME NEW h \in SettingGroup
        PROVE  lock'[h] = {} \/ \E d \in Client : lock'[h] = {d}
    <3>1. CASE h = g
      BY <1>1, <3>1
    <3>2. CASE h # g
      BY <1>1, <3>2 DEF LockInv, LockOwners
    <3> QED BY <3>1, <3>2
  <2> QED BY <2>1 DEF LockOwners
<1>5. LockOrder(c)'
  <2>1. /\ form[c].batch \subseteq SettingGroup /\ g \in form[c].batch
        /\ g \notin Held(c) /\ Held(c) \subseteq form[c].batch
    BY <1>1 DEF SettingsShape, Shaped, NextLock, LockInv, LockOrder
  <2>2. Sent(c)' /\ Accepted(c)' /\ form'[c].batch = form[c].batch
    BY <1>1 DEF Sent, Accepted
  <2>3. ASSUME NEW h \in Held(c)', NEW k \in form[c].batch \ Held(c)'
        PROVE  Place(h) < Place(k)
    <3>1. k \in form[c].batch \ Held(c) /\ k # g
      BY <1>2, <2>3
    <3>2. CASE h = g
      <4>1. Place(g) <= Place(k) /\ Place(g) # Place(k)
        BY <1>1, <2>1, <3>1, Places DEF NextLock
      <4>2. Place(g) \in 1 .. 9 /\ Place(k) \in 1 .. 9
        BY <2>1, <3>1, Places
      <4> QED BY <3>2, <4>1, <4>2
    <3>3. CASE h # g
      <4>1. h \in Held(c)
        BY <1>2, <3>3
      <4> QED BY <1>1, <3>1, <4>1 DEF LockInv, LockOrder
    <3> QED BY <3>2, <3>3
  <2> QED BY <1>2, <2>1, <2>2, <2>3 DEF LockOrder
<1>6. ASSUME NEW d \in Client \ {c} PROVE LockOrder(d)'
  BY <1>1, <1>3, OrderStays DEF LockInv
<1> QED BY <1>4, <1>5, <1>6 DEF LockInv

\* A comparison that matches keeps the locks it needs.
LEMMA MatchStep ==
  ASSUME SettingsShape, LockInv, NEW c \in Client, Phased(c, "compared"), lock' = lock
  PROVE  LockInv'
<1>1. form'[c] = [form[c] EXCEPT !.phase = "compared"]
      /\ \A d \in Client \ {c} : form'[d] = form[d]
  BY DEF Phased, SettingsShape
<1>2. form'[c].phase = "compared"
  <2>1. "phase" \in DOMAIN form[c]
    <3>1. form[c] = Form(form[c].phase, form[c].base, form[c].seen, form[c].early,
                         form[c].batch, form[c].values)
      BY DEF SettingsShape, Shaped
    <3>2. \A p, b, s, e, t, v : "phase" \in DOMAIN Form(p, b, s, e, t, v)
      BY DEF Form
    <3> QED BY <3>1, <3>2
  <2> QED BY <1>1, <2>1
<1>3. \A d \in Client : Held(d)' = Held(d)
  BY DEF Held
<1>4. LockOrder(c)'
  BY <1>2 DEF LockOrder, Sent
<1>5. ASSUME NEW d \in Client \ {c} PROVE LockOrder(d)'
  BY <1>1, <1>3, OrderStays DEF LockInv
<1>6. LockOwners'
  BY DEF LockInv, LockOwners
<1> QED BY <1>4, <1>5, <1>6 DEF LockInv

LEMMA LockInit == SettingsInit => LockInv
<1> SUFFICES ASSUME SettingsInit PROVE LockInv
  OBVIOUS
<1>1. \A g \in SettingGroup : lock[g] = {}
  BY DEF SettingsInit
<1>2. \A c \in Client : Held(c) = {}
  BY <1>1 DEF Held
<1>3. \A c \in Client : LockOrder(c)
  BY <1>2, EmptyHanded
<1> QED BY <1>1, <1>3 DEF LockInv, LockOwners

LEMMA LockNext == SettingsShape /\ LockInv /\ [SettingsNext]_settingsVars => LockInv'
<1> SUFFICES ASSUME SettingsShape, LockInv, [SettingsNext]_settingsVars PROVE LockInv'
  OBVIOUS
<1>0. ASSUME NEW c \in Client, form[c].phase # "compared", ~(Sent(c) /\ Accepted(c))
      PROVE  Held(c) = {}
  BY <1>0 DEF LockInv, LockOrder
<1>1. ASSUME NEW c \in Client,
             \/ OpenSettings(c) \/ ReadRevisions(c) \/ StatusAnswers(c) \/ ReadValues(c)
             \/ CloseSettings(c) \/ Answer(c) \/ LoseAnswer(c)
      PROVE  LockInv'
  <2>1. lock' = lock
    BY <1>1 DEF OpenSettings, ReadRevisions, StatusAnswers, ReadValues, CloseSettings,
                Answer, LoseAnswer, LeaveRows
  <2>2. form[c].phase # "compared" /\ ~Sent(c)
    BY <1>1 DEF OpenSettings, ReadRevisions, StatusAnswers, ReadValues, CloseSettings,
                Answer, LoseAnswer, Sent
  <2>3. \E f : form' = [form EXCEPT ![c] = f]
    BY <1>1 DEF OpenSettings, ReadRevisions, StatusAnswers, ReadValues, CloseSettings,
                Answer, LoseAnswer, Phased
  <2> QED BY <1>0, <2>1, <2>2, <2>3, FreeStep
<1>2. ASSUME NEW c \in Client, SendSave(c) PROVE LockInv'
  <2>1. PICK batch, v :
          form' = [form EXCEPT ![c].phase = "sent", ![c].batch = batch, ![c].values = v]
    BY <1>2 DEF SendSave
  <2>2. form' = [form EXCEPT ![c] =
          [[[form[c] EXCEPT !.phase = "sent"] EXCEPT !.batch = batch] EXCEPT !.values = v]]
    BY <2>1 DEF SettingsShape
  <2>3. lock' = lock /\ form[c].phase # "compared" /\ ~Sent(c)
    BY <1>2 DEF SendSave, LeaveRows, Sent
  <2> QED BY <1>0, <2>2, <2>3, FreeStep
<1>3. ASSUME NEW c \in Client, RefuseInvalid(c) PROVE LockInv'
  BY <1>0, <1>3, FreeStep DEF RefuseInvalid, LeaveRows, Sent
<1>4. ASSUME NEW c \in Client, RollBack(c) PROVE LockInv'
  BY <1>4, FreeStep DEF RollBack
<1>5. ASSUME NEW c \in Client, NEW g \in SettingGroup, LockGroup(c, g) PROVE LockInv'
  BY <1>5, NextLockStep
<1>6. ASSUME NEW c \in Client, Compare(c) PROVE LockInv'
  <2>1. CASE RevisionsMatch(c)
    BY <1>6, <2>1, MatchStep DEF Compare
  <2>2. CASE ~RevisionsMatch(c)
    BY <1>6, <2>2, FreeStep DEF Compare
  <2> QED BY <2>1, <2>2
<1>7. ASSUME NEW c \in Client, Commit(c) PROVE LockInv'
  BY <1>7, FreeStep DEF Commit, Phased
<1>8. CASE UNCHANGED settingsVars
  <2>1. \A d \in Client : form'[d] = form[d] /\ Held(d)' = Held(d)
    BY <1>8 DEF settingsVars, Held
  <2>2. LockOwners'
    BY <1>8 DEF settingsVars, LockInv, LockOwners
  <2> QED BY <2>1, <2>2, OrderStays DEF LockInv
<1> QED BY <1>1, <1>2, <1>3, <1>4, <1>5, <1>6, <1>7, <1>8 DEF SettingsNext, ServerStep

\* Locks are held in their order, by saves that are accepted.
THEOREM LocksInOrder == SettingsSpec => []LockInv
<1>1. SettingsInv => SettingsShape
  BY DEF SettingsInv
<1> QED BY <1>1, LockInit, LockNext, FormsStayBehind, PTL DEF SettingsSpec

\* A save under way that cannot go on waits for a lock another save holds, which
\* is past every lock of its own; of all saves that hold a lock somebody waits
\* for, the one waiting for the last lock would have to wait for a later one.
THEOREM NoDeadlock == SettingsSpec => []SomeSaveGoesOn
<1>1. SettingsShape /\ LockInv => SomeSaveGoesOn
  <2> SUFFICES ASSUME SettingsShape, LockInv, NEW a \in Client,
                      form[a].phase \in {"sent", "compared"},
                      \A c \in Client : ~GoesOn(c)
               PROVE  FALSE
    BY DEF SomeSaveGoesOn
  <2> DEFINE Waits(c, g) == Sent(c) /\ NextLock(c, g)
             W == {g \in SettingGroup : \E c \in Client : Waits(c, g)}
  <2>1. ASSUME NEW c \in Client, Sent(c) PROVE \E g \in SettingGroup : Waits(c, g)
    <3> DEFINE S == form[c].batch \ Held(c)
    <3>1. S # {} /\ S \in SUBSET SettingGroup
      BY <2>1 DEF GoesOn, SettingsShape, Shaped
    <3>2. PICK g \in S : \A h \in S : Place(g) <= Place(h)
      BY <3>1, LastPlace
    <3> QED BY <2>1, <3>1, <3>2 DEF NextLock
  <2>2. ASSUME NEW c \in Client, NEW g \in SettingGroup, Waits(c, g)
        PROVE  \E h \in W : Place(g) < Place(h)
    <3>1. lock[g] # {}
      BY <2>2 DEF GoesOn
    <3>2. PICK d \in Client : lock[g] = {d}
      BY <3>1 DEF LockInv, LockOwners
    <3>3. g \in Held(d)
      BY <3>2 DEF Held
    <3>4. Sent(d)
      BY <3>3 DEF LockInv, LockOrder, GoesOn
    <3>5. PICK h \in SettingGroup : Waits(d, h)
      BY <2>1, <3>4
    <3>6. Place(g) < Place(h)
      BY <3>3, <3>4, <3>5 DEF LockInv, LockOrder, NextLock
    <3> QED BY <3>5, <3>6
  <2>3. Sent(a)
    BY DEF GoesOn, Sent
  <2>4. W # {} /\ W \in SUBSET SettingGroup
    BY <2>1, <2>3
  <2>5. PICK g \in W : \A h \in W : Place(h) <= Place(g)
    BY <2>4, LastPlace
  <2>6. PICK h \in W : Place(g) < Place(h)
    BY <2>2, <2>5
  <2>7. Place(g) \in 1 .. 9 /\ Place(h) \in 1 .. 9 /\ Place(h) <= Place(g)
    BY <2>4, <2>5, <2>6, Places
  <2> QED BY <2>6, <2>7
<1>2. SettingsInv => SettingsShape
  BY DEF SettingsInv
<1> QED BY <1>1, <1>2, LocksInOrder, FormsStayBehind, PTL
-----------------------------------------------------------------------------
(* Requests that wait for the size of the media directory *)

\* The walk under way ends, or somebody already took the request from the list.
NobodyForgotten ==
  \A r \in UsageRequest :
    usage[r] = "waiting" => r \in answering \/ (walk = "running" /\ r \in waiters)

UsageInv == DOMAIN usage = UsageRequest /\ NobodyForgotten

\* Nobody waits for an answer that no one is going to give: a walk that ends
\* answers all who wait then, and one that is given up by its caller goes on.
THEOREM AskersAreWaitedFor == UsageSpec => []NobodyForgotten
<1>1. UsageInit => UsageInv
  BY DEF UsageInit, UsageInv, NobodyForgotten
<1>2. UsageInv /\ [UsageNext]_usageVars => UsageInv'
  <2> SUFFICES ASSUME UsageInv, [UsageNext]_usageVars PROVE UsageInv'
    OBVIOUS
  <2> USE DEF UsageInv, NobodyForgotten
  <2>1. ASSUME NEW r \in UsageRequest, AskUsage(r) PROVE UsageInv'
    BY <2>1 DEF AskUsage
  <2>2. ASSUME NEW r \in UsageRequest, DropUsage(r) \/ SendUsage(r) PROVE UsageInv'
    BY <2>2 DEF DropUsage, SendUsage
  <2>3. CASE EndWalk
    BY <2>3 DEF EndWalk
  <2>4. CASE Expire \/ UNCHANGED usageVars
    BY <2>4 DEF Expire, usageVars
  <2> QED BY <2>1, <2>2, <2>3, <2>4 DEF UsageNext
<1>3. UsageInv => NobodyForgotten
  BY DEF UsageInv
<1> QED BY <1>1, <1>2, <1>3, PTL DEF UsageSpec
=============================================================================
