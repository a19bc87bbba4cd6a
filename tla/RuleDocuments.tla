--------------------------- MODULE RuleDocuments ---------------------------
(***************************************************************************)
(* The download rules and the editors that change them at once.            *)
(*                                                                         *)
(* A rule has a row (its name, actions and order), numbered versions that  *)
(* never change, and at most one draft.  A draft knows the version it was  *)
(* begun from, its base, and counts its own saves from one; publishing it  *)
(* makes it the next version and removes it, so the count of the next      *)
(* draft starts again (db/rules.rs).  The service reads the draft outside  *)
(* the publishing transaction, and an import finds its base in reads of    *)
(* its own (application/rules.rs).  An editor is a browser tab             *)
(* (rule-document-session.svelte.ts): it lists, opens, edits, saves,       *)
(* publishes and imports, and requests of several tabs interleave.         *)
(*                                                                         *)
(* A definition is a number: each save sends one that was never sent       *)
(* before.                                                                 *)
(***************************************************************************)
EXTENDS Naturals, Sequences, FiniteSets

CONSTANTS
  Rule,      \* rule ids
  Editor,    \* browser tabs
  None,      \* no row, no draft, nothing open
  MaxTexts   \* how many definitions are written

ASSUME RulesAssumption == MaxTexts \in Nat /\ IsFiniteSet(Rule)

Text == 1 .. MaxTexts

VARIABLES
  rule,     \* download_rule and rule_draft: each rule's row, or None
  version,  \* rule_version: each rule's definitions, in order
  editor,   \* what each tab shows and the request it has under way
  texts,    \* how many definitions have been written
  order,    \* each rule's sort_order
  next      \* the sequence sort_order is drawn from

documentVars == <<rule, version, editor, texts, order, next>>

Draft == [base : Nat, text : Text, revision : Nat]
(* A row carries the name, state and actions of the definition "columns". *)
Row == [revision : Nat, columns : Text, draft : Draft \cup {None}]

ASSUME NoneAssumption == None \notin Draft /\ None \notin Row

(* What a tab has open: the rule, the definition it shows, and the base,
   draft revision (0: no draft) and rule revision it will send.  "sent" is
   the definition of a save or import under way, "read" the draft the
   service has read for a publication or an import. *)
Closed == [step |-> "closed", rule |-> None, shows |-> 0, base |-> 0,
           draft |-> 0, revision |-> 0, read |-> None]
Steps == {"listed", "exporting", "open", "saving", "publishing", "promoting",
          "importing", "basing", "storing"}
EditorState ==
  {Closed} \cup
    [step : Steps, rule : Rule, shows : 0 .. MaxTexts, base : Nat, draft : Nat,
     revision : Nat, read : Draft \cup {None}]

DocumentsTypeOK ==
  /\ rule \in [Rule -> Row \cup {None}]
  /\ version \in [Rule -> Seq(Text)]
  /\ editor \in [Editor -> EditorState]
  /\ texts \in 0 .. MaxTexts
  /\ order \in [Rule -> Nat]
  /\ next \in Nat

DocumentsInit ==
  /\ rule = [r \in Rule |-> None]
  /\ version = [r \in Rule |-> <<>>]
  /\ editor = [e \in Editor |-> Closed]
  /\ texts = 0
  /\ order = [r \in Rule |-> 0]
  /\ next = 0

Exists(r) == rule[r] # None
HasDraft(r) == Exists(r) /\ rule[r].draft # None
(* The current version's number; 0 is the database's NULL. *)
Current(r) == Len(version[r])
(* What an editor that opens the rule now is shown. *)
Shown(r) == IF HasDraft(r) THEN rule[r].draft.text ELSE version[r][Current(r)]

NewDraft(base, text) == [base |-> base, text |-> text, revision |-> 1]
(* A save counts on the row as well as on the draft. *)
WithDraft(row, draft) ==
  [row EXCEPT !.revision = @ + 1, !.draft = draft]

-----------------------------------------------------------------------------
(* The catalogue: create, copy, reorder, delete. *)

(* A rule id is used once: a deleted rule's never comes back. *)
Unused(r) == order[r] = 0

AddRule(r, text) ==
  /\ Unused(r)
  /\ rule' = [rule EXCEPT ![r] = [revision |-> 1, columns |-> text,
                                  draft |-> NewDraft(0, text)]]
  /\ texts' = text
  /\ next' = next + 1
  /\ order' = [order EXCEPT ![r] = next + 1]
  /\ UNCHANGED <<version, editor>>

CreateRule(r) ==
  /\ texts < MaxTexts
  /\ AddRule(r, texts + 1)

(* The copy is a definition of its own, with a new id and name. *)
CopyRule(r, from) ==
  /\ Exists(from)
  /\ texts < MaxTexts
  /\ AddRule(r, texts + 1)

(* A request must name every rule once. *)
ReorderRules ==
  LET listed == {r \in Rule : Exists(r)} IN
  /\ \E to \in [listed -> 1 .. Cardinality(listed)] :
        /\ \A r, s \in listed : to[r] = to[s] => r = s
        /\ order' = [r \in Rule |-> IF r \in listed THEN to[r] ELSE order[r]]
  /\ UNCHANGED <<rule, version, editor, texts, next>>

-----------------------------------------------------------------------------
(* A tab. *)

Becomes(e, state) == editor' = [editor EXCEPT ![e] = state]
Close(e) == Becomes(e, Closed)
OpenAt(r, text, base, draft) ==
  [Closed EXCEPT !.step = "open", !.rule = r, !.shows = text, !.base = base,
                 !.draft = draft]
Unchanged == UNCHANGED <<rule, version, texts, order, next>>

(* The catalogue is read, with each rule's revision and current version. *)
ListRule(e, r) ==
  /\ editor[e].step = "closed"
  /\ Exists(r)
  /\ Becomes(e, [Closed EXCEPT !.step = "listed", !.rule = r,
                   !.base = Current(r), !.revision = rule[r].revision])
  /\ Unchanged

(* The draft is opened with its own base and count; without one the tab goes
   on to read the current version. *)
LoadDraft(e) ==
  LET r == editor[e].rule IN
  /\ editor[e].step = "listed"
  /\ IF HasDraft(r)
     THEN LET d == rule[r].draft IN
          Becomes(e, OpenAt(r, d.text, d.base, d.revision))
     ELSE Becomes(e, [editor[e] EXCEPT !.step = "exporting"])
  /\ Unchanged

(* The base is the version the catalogue named, which may be older than the
   one exported. *)
ExportRule(e) ==
  LET r == editor[e].rule IN
  /\ editor[e].step = "exporting"
  /\ IF Exists(r) /\ Current(r) > 0
     THEN Becomes(e, OpenAt(r, version[r][Current(r)], editor[e].base, 0))
     ELSE Close(e)
  /\ Unchanged

DeleteRule(e) ==
  LET r == editor[e].rule IN
  /\ editor[e].step = "listed"
  /\ IF Exists(r) /\ rule[r].revision = editor[e].revision
     THEN /\ rule' = [rule EXCEPT ![r] = None]
          /\ version' = [version EXCEPT ![r] = <<>>]
     ELSE UNCHANGED <<rule, version>>
  /\ Close(e)
  /\ UNCHANGED <<texts, order, next>>

CloseTab(e) ==
  /\ editor[e].step = "open"
  /\ Close(e)
  /\ Unchanged

Send(e, step) ==
  /\ editor[e].step = "open"
  /\ Becomes(e, [editor[e] EXCEPT !.step = step])
  /\ Unchanged

StartSave(e) == Send(e, "saving")
StartPublish(e) == Send(e, "publishing")
StartImport(e) == Send(e, "importing")

-----------------------------------------------------------------------------
(* Saving a draft. *)

(* save_draft: a draft is replaced if the request names its revision and its
   base, and the base is still the current version; the first draft of a
   version is inserted if the request names no draft.
   Wrong: the base is not compared. *)
AcceptsRevision(r, revision, base) ==
  /\ Exists(r)
  /\ IF HasDraft(r)
     THEN rule[r].draft.revision = revision
     ELSE revision = 0 /\ base = Current(r)
Accepts(r, revision, base) ==
  /\ Exists(r)
  /\ IF HasDraft(r)
     THEN /\ rule[r].draft.revision = revision
          /\ rule[r].draft.base = base
          /\ base = Current(r)
     ELSE revision = 0 /\ base = Current(r)

(* The transaction of a save; the tab then shows what it stored. *)
StoreDraft(e, base) ==
  LET r == editor[e].rule
      text == texts + 1
      stored == IF HasDraft(r)
                THEN [rule[r].draft EXCEPT !.text = text, !.revision = @ + 1]
                ELSE NewDraft(base, text) IN
  /\ texts < MaxTexts
  /\ Accepts(r, editor[e].draft, base)
  /\ texts' = text
  /\ rule' = [rule EXCEPT ![r] = WithDraft(rule[r], stored)]
  /\ Becomes(e, OpenAt(r, text, stored.base, stored.revision))
  /\ UNCHANGED <<version, order, next>>

(* A conflict: the tab must load the rule again. *)
RefuseDraft(e, base) ==
  /\ ~Accepts(editor[e].rule, editor[e].draft, base)
  /\ Close(e)
  /\ Unchanged

SaveDraft(e) ==
  /\ editor[e].step = "saving"
  /\ StoreDraft(e, editor[e].base)
SaveRefused(e) ==
  /\ editor[e].step = "saving"
  /\ RefuseDraft(e, editor[e].base)

-----------------------------------------------------------------------------
(* Publishing. *)

(* publish_version of the service: the draft is read and must be the one the
   request names; its name and actions are taken from this reading. *)
ReadForPublish(e) ==
  LET r == editor[e].rule IN
  /\ editor[e].step = "publishing"
  /\ IF /\ HasDraft(r)
        /\ rule[r].draft.base = editor[e].base
        /\ rule[r].draft.revision = editor[e].draft
     THEN Becomes(e, [editor[e] EXCEPT !.step = "promoting",
                                       !.read = rule[r].draft])
     ELSE Close(e)
  /\ Unchanged

(* publish_version of the repository: under the rule's lock the base is the
   current version and the draft the one that was named.
   Wrong: the draft's revision is not compared again. *)
PublishableBase(e) ==
  LET r == editor[e].rule IN
  /\ HasDraft(r)
  /\ editor[e].base = Current(r)
  /\ rule[r].draft.base = editor[e].base
Publishable(e) ==
  LET r == editor[e].rule IN
  /\ HasDraft(r)
  /\ editor[e].base = Current(r)
  /\ rule[r].draft.base = editor[e].base
  /\ rule[r].draft.revision = editor[e].draft

(* The version takes the draft's definition as it is now, the row the name
   and actions of the definition that was read. *)
PublishVersion(e) ==
  LET r == editor[e].rule
      text == rule[r].draft.text IN
  /\ editor[e].step = "promoting"
  /\ Publishable(e)
  /\ version' = [version EXCEPT ![r] = Append(@, text)]
  /\ rule' = [rule EXCEPT
                ![r] = [revision |-> rule[r].revision + 1,
                        columns |-> editor[e].read.text, draft |-> None]]
  /\ Becomes(e, OpenAt(r, text, Current(r) + 1, 0))
  /\ UNCHANGED <<texts, order, next>>

(* The draft moved on, or the name is another rule's: nothing is written. *)
PublishRefused(e) ==
  /\ editor[e].step = "promoting"
  /\ Close(e)
  /\ Unchanged

-----------------------------------------------------------------------------
(* Importing: the request's draft revision, with a base the server finds. *)

ImportReadsDraft(e) ==
  LET r == editor[e].rule IN
  /\ editor[e].step = "importing"
  /\ Becomes(e, IF HasDraft(r)
                THEN [editor[e] EXCEPT !.step = "storing",
                                       !.base = rule[r].draft.base]
                ELSE [editor[e] EXCEPT !.step = "basing"])
  /\ Unchanged

ImportReadsVersion(e) ==
  /\ editor[e].step = "basing"
  /\ Becomes(e, [editor[e] EXCEPT !.step = "storing",
                                  !.base = Current(editor[e].rule)])
  /\ Unchanged

ImportStores(e) ==
  /\ editor[e].step = "storing"
  /\ StoreDraft(e, editor[e].base)
ImportRefused(e) ==
  /\ editor[e].step = "storing"
  /\ RefuseDraft(e, editor[e].base)

-----------------------------------------------------------------------------
TabStep(e) ==
  \/ \E r \in Rule : ListRule(e, r)
  \/ LoadDraft(e) \/ ExportRule(e) \/ DeleteRule(e) \/ CloseTab(e)
  \/ StartSave(e) \/ StartPublish(e) \/ StartImport(e)
  \/ SaveDraft(e) \/ SaveRefused(e)
  \/ ReadForPublish(e) \/ PublishVersion(e) \/ PublishRefused(e)
  \/ ImportReadsDraft(e) \/ ImportReadsVersion(e)
  \/ ImportStores(e) \/ ImportRefused(e)

DocumentsNext ==
  \/ \E r \in Rule : CreateRule(r) \/ \E s \in Rule : CopyRule(r, s)
  \/ ReorderRules
  \/ \E e \in Editor : TabStep(e)

DocumentsSpec == DocumentsInit /\ [][DocumentsNext]_documentVars

-----------------------------------------------------------------------------
(* The name, state and actions a rule runs under are those of its current
   version: a draft saved between the service's reading and its transaction
   is not published under the old name. *)
RowMatchesVersion ==
  \A r \in Rule : Exists(r) /\ Current(r) > 0 =>
    rule[r].columns = version[r][Current(r)]

(* A save that is accepted replaces exactly what its tab was shown: neither a
   save of another tab nor a version and draft made since are lost, although
   the count of a draft starts again after each publication.  (An import
   asks the server for the base and does not have this.) *)
NoLostUpdate ==
  [][\A e \in Editor :
        editor[e].step = "saving" /\ editor'[e].step = "open" =>
          Shown(editor[e].rule) = editor[e].shows]_documentVars

=============================================================================
