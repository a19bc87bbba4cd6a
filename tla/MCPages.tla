------------------------------ MODULE MCPages ------------------------------
(***************************************************************************)
(* Pages: one that follows the feed of events (LivePage, EventFeed), or    *)
(* one that pages, selects and gives commands (Gallery).  They share no    *)
(* state here, so a behaviour is of one, and the other stands still.       *)
(***************************************************************************)
EXTENDS LivePage, MCGallery

VARIABLE part
pagesVars == <<vars, galleryVars, part>>

NoGallery ==
  /\ row = [w \in Work |-> [state |-> "collected", stored |-> TRUE, purge |-> "none",
                            about |-> CHOOSE d \in About[w] : TRUE, due |-> Sooner]]
  /\ list = LET s == NoGroups("PixivId", "Descending") IN
            [items |-> <<>>, cursor |-> None, applied |-> s, asked |-> s,
             error |-> FALSE, returning |-> FALSE, moved |-> {}]
  /\ requests = {}
  /\ selection = Off([projections |-> {}, commands |-> {}, busy |-> FALSE])
  /\ budget = Budgets(0, 0, 0, 0)
NoPage ==
  /\ FeedInit
  /\ refresher = NewRefresher(0)
  /\ revision = 0
  /\ request = [r \in Request |-> NoRequest]
  /\ shown = {}
  /\ loading = FALSE /\ refreshing = FALSE /\ error = FALSE /\ failedLoad = "none"
  /\ ready = FALSE /\ selecting = FALSE
  /\ actions = 0

PagesInit ==
  \/ part = "live" /\ Init /\ NoGallery
  \/ part = "gallery" /\ MCInit /\ NoPage

Live(A) == part = "live" /\ A /\ UNCHANGED <<galleryVars, part>>
PagesNext ==
  \/ Live(Next)
  \/ part = "gallery" /\ GalleryNext /\ UNCHANGED <<vars, part>>

(* The fairness of LivePage. *)
PagesFairness ==
  /\ WF_pagesVars(Live((Connect \/ ReplayPublishes \/ ReplayBoundary \/ Replay
                           \/ ListPublishes \/ ListReads) /\ UNCHANGED pageVars))
  /\ WF_pagesVars(Live(\E e \in Event : ReceiveEvent(e)))
  /\ WF_pagesVars(Live(EffectRuns))
  /\ WF_pagesVars(Live(\E r \in Request : RefreshTimer(r)))
  /\ WF_pagesVars(Live(\E r \in Request : Reads(r)))
  /\ WF_pagesVars(Live(\E r \in Request : Loaded(r) \/ AnsweredLate(r)))
PagesSpec == PagesInit /\ [][PagesNext]_pagesVars /\ PagesFairness
=============================================================================
