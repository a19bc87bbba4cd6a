------------------------------ MODULE MCPixiv ------------------------------
(***************************************************************************)
(* What the archive does with Pixiv: the calls about an account            *)
(* (PixivAccount), the copies of bookmarks and of followed artists         *)
(* (PixivMirror) and the gate of all requests (RequestGate).  They share   *)
(* no state, so a behaviour is of one of them, and the others rest.        *)
(***************************************************************************)
EXTENDS PixivAccount, PixivMirror, RequestGate, TLC

CONSTANTS alice, bob, old, new, other, download, c1, c2, w1, a1, a2

MCUser == {alice, bob}
MCCookie == {old, new, other}
MCUserOf == [k \in Cookie |-> IF k = other THEN bob ELSE alice]
MCJob == {download}
MCJobUser == [j \in Job |-> alice]
MCCall == {c1, c2}
MCWork == {w1}
MCArtist == {a1, a2}

VARIABLE part
pixivVars == <<vars, mirrorVars, gateVars, part>>

PixivInit ==
  /\ part \in {"account", "bookmarks", "following", "gate"}
  /\ Init
  /\ MirrorInit
  /\ GateInit

Account(A) ==
  part = "account" /\ A /\ UNCHANGED <<mirrorVars, gateVars, part>>
Gate(A) == part = "gate" /\ A /\ UNCHANGED <<vars, mirrorVars, part>>
(* The two copies share no state either; the artists get fewer changes. *)
Mirror(A) ==
  /\ part \in {"bookmarks", "following"}
  /\ A
  /\ IF part = "bookmarks"
     THEN /\ UNCHANGED <<follows, following>>
          /\ \A c \in Command : ~IsFollowCommand(c)'
     ELSE /\ UNCHANGED <<marks, markId, bookmarks>>
          /\ \A c \in Command : command'[c].kind \notin {"add", "remove"}
          /\ changes' <= MaxChanges - 2
  /\ UNCHANGED <<vars, gateVars, part>>

PixivNext == Account(Next) \/ Mirror(MirrorNext) \/ Gate(GateNext)

(* The fairness of PixivMirror. *)
PixivFairness ==
  /\ \A c \in Command : WF_pixivVars(Mirror(CommandStep(c)))
  /\ WF_pixivVars(Mirror(SaveDetail))
  /\ WF_pixivVars(Mirror(IntervalPasses))
  /\ WF_pixivVars(Mirror(ListMarks(FALSE)))
  /\ WF_pixivVars(Mirror(ReadMarks))
  /\ WF_pixivVars(Mirror(Reconcile))
  /\ \A r \in Refresher : WF_pixivVars(Mirror(RefreshStep(r)))
PixivSpec == PixivInit /\ [][PixivNext]_pixivVars /\ PixivFairness
=============================================================================
