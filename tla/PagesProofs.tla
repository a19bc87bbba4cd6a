---------------------------- MODULE PagesProofs -----------------------------
(***************************************************************************)
(* The pages: what is proved about the feed of events they follow, about a *)
(* page that follows it and about the gallery.                             *)
(***************************************************************************)
EXTENDS LivePage, Gallery, FiniteSetTheorems, WellFoundedInduction, TLAPS

-----------------------------------------------------------------------------
(***************************************************************************)
(* Proofs about the event feed, for any number of events, any batch limit  *)
(* and any number of broken connections.                                   *)
(***************************************************************************)

\* Two rows that are inserted have two ids, two published rows two published ids.
RowsDistinct ==
  /\ \A e, d \in Event : rowId[e] # 0 /\ rowId[e] = rowId[d] => e = d
  /\ \A e \in Event : (rowId[e] = 0) <=> (writer[e] = "none")

PublishedDistinct ==
  \A e, d \in Event : published[e] # 0 /\ published[e] = published[d] => e = d

\* The request asks for what follows the last event received; a stream that is
\* not open has nothing to send.
RequestFollows ==
  /\ asked # 0 => asked = lastId
  /\ phase \in {"opening", "boundary"} => asked = lastId
  /\ phase = "replay" => asked # 0 /\ asked <= boundary
  /\ phase \in {"wait", "list"} => asked = 0
  /\ phase \notin {"wait", "list"} => pending = {}
  /\ phase = "list" => pending = {}
  /\ phase \in {"wait", "list"} /\ pending = {} => lastId <= cursor

\* An open stream has sent, or holds, everything up to its cursor and up to
\* each event it holds.
StreamCovers ==
  phase \in {"wait", "list"} =>
    /\ \A e \in Event : joined < published[e] /\ published[e] <= cursor
                          => e \in received \cup pending
    /\ \A p \in pending, e \in Event : joined < published[e] /\ published[e] <= published[p]
                                          => e \in received \cup pending

IInv ==
  /\ FeedTypeOK
  /\ RowsDistinct
  /\ PublishedDistinct
  /\ RequestFollows
  /\ StreamCovers
  /\ NoGap

-----------------------------------------------------------------------------
(* What a read returns *)

\* Rows before a row of a batch are in the batch.
LEMMA BatchIsClosed ==
  ASSUME published \in [Event -> Nat], NEW id \in Nat,
         NEW p \in Batch(id), NEW e \in After(id), published[e] <= published[p]
  PROVE  e \in Batch(id)
<1> DEFINE B(x) == Between(id, x)
<1>1. p \in Event /\ e \in Event
  BY DEF Batch, After
<1>2. IsFiniteSet(B(p))
  <2>1. B(p) \in SUBSET Event
    BY DEF Between
  <2> QED BY <2>1, FS_Subset, FeedAssumption DEF FeedAssumption
<1>3. B(e) \in SUBSET B(p)
  BY <1>1 DEF Between
<1>4. Cardinality(B(e)) <= Cardinality(B(p)) /\ IsFiniteSet(B(e))
  BY <1>2, <1>3, FS_Subset
<1>5. Cardinality(B(e)) \in Nat /\ Cardinality(B(p)) \in Nat
  BY <1>2, <1>4, FS_CardinalityType
<1>6. Cardinality(B(p)) < BatchLimit
  BY DEF Batch
<1>7. Cardinality(B(e)) < BatchLimit
  <2> HIDE DEF B
  <2> QED BY <1>4, <1>5, <1>6, FeedAssumption DEF FeedAssumption
<1> QED BY <1>7 DEF Batch

\* A read that returns nothing has nothing to return.
LEMMA EmptyBatch ==
  ASSUME published \in [Event -> Nat], NEW id \in Nat, Batch(id) = {}
  PROVE  After(id) = {}
<1> SUFFICES ASSUME After(id) # {} PROVE FALSE
  OBVIOUS
<1> DEFINE T == {Between(id, e) : e \in After(id)}
<1>1. IsFiniteSet(Event)
  BY FeedAssumption DEF FeedAssumption
<1>2. T \subseteq FiniteSubsetsOf(Event) /\ T # {}
  <2>1. ASSUME NEW e \in After(id) PROVE Between(id, e) \in FiniteSubsetsOf(Event)
    <3>1. Between(id, e) \in SUBSET Event
      BY DEF Between
    <3> QED BY <3>1, <1>1, FS_Subset DEF FiniteSubsetsOf
  <2> QED BY <2>1
<1>3. PICK x \in T : \A y \in T : ~(<<y, x>> \in StrictSubsetOrdering(Event))
  <2> HIDE DEF T
  <2> QED BY <1>2, WFMin, FS_StrictSubsetOrderingWellFounded
<1>4. PICK e \in After(id) : x = Between(id, e)
  OBVIOUS
<1>5. e \in Event /\ published[e] \in Nat /\ id < published[e]
  BY DEF After
<1>6. Between(id, e) = {}
  <2> SUFFICES ASSUME NEW d \in Between(id, e) PROVE FALSE
    OBVIOUS
  <2>1. d \in Event /\ published[d] \in Nat /\ id < published[d] /\ published[d] < published[e]
    BY DEF Between
  <2>2. d \in After(id)
    BY <2>1 DEF After
  <2>3. Between(id, d) \in SUBSET Between(id, e) /\ d \notin Between(id, d)
    BY <2>1, <1>5 DEF Between
  <2>4. Between(id, d) \in SUBSET Event /\ Between(id, e) \in SUBSET Event
    BY DEF Between
  <2>5. Between(id, d) # Between(id, e)
    BY <2>3
  <2>6. <<Between(id, d), x>> \in StrictSubsetOrdering(Event)
    BY <2>3, <2>4, <2>5, <1>4 DEF StrictSubsetOrdering
  <2> QED BY <2>2, <2>6, <1>3
<1>7. Cardinality(Between(id, e)) < BatchLimit
  BY <1>6, FS_EmptySet, FeedAssumption DEF FeedAssumption
<1> QED BY <1>7 DEF Batch

-----------------------------------------------------------------------------
(* Publication *)

\* What publish_pending leaves alone, and where it puts the new rows.
Published ==
  /\ lastPub' \in Nat /\ lastPub <= lastPub'
  /\ published' \in [Event -> 0..lastPub']
  /\ \A e \in Event :
       \/ published'[e] = published[e]
       \/ published[e] = 0 /\ Visible(e) /\ lastPub < published'[e]
  /\ UNCHANGED <<writer, rowId, lastRow>>

LEMMA Ranks ==
  ASSUME FeedTypeOK, RowsDistinct
  PROVE  /\ Cardinality(Unpublished) \in Nat
         /\ \A e \in Unpublished : Cardinality(UpTo(e)) \in 1..Cardinality(Unpublished)
         /\ \A e, d \in Unpublished : Cardinality(UpTo(e)) = Cardinality(UpTo(d)) => e = d
<1>1. IsFiniteSet(Unpublished) /\ Cardinality(Unpublished) \in Nat
  <2>1. Unpublished \in SUBSET Event
    BY DEF Unpublished
  <2> QED BY <2>1, FS_Subset, FS_CardinalityType, FeedAssumption DEF FeedAssumption
<1>2. ASSUME NEW e \in Unpublished
      PROVE  /\ IsFiniteSet(UpTo(e)) /\ e \in UpTo(e)
             /\ Cardinality(UpTo(e)) \in 1..Cardinality(Unpublished)
  <2>1. UpTo(e) \in SUBSET Unpublished
    BY DEF UpTo
  <2>2. IsFiniteSet(UpTo(e)) /\ Cardinality(UpTo(e)) <= Cardinality(Unpublished)
    BY <1>1, <2>1, FS_Subset
  <2>3. e \in UpTo(e)
    BY DEF UpTo, Unpublished, FeedTypeOK
  <2>4. Cardinality(UpTo(e)) \in Nat /\ Cardinality(UpTo(e)) # 0
    BY <2>2, <2>3, FS_CardinalityType, FS_EmptySet
  <2> QED BY <1>1, <2>2, <2>3, <2>4
<1>3. ASSUME NEW e \in Unpublished, NEW d \in Unpublished,
             Cardinality(UpTo(e)) = Cardinality(UpTo(d)), rowId[e] <= rowId[d]
      PROVE  e = d
  <2>1. rowId[e] \in Nat /\ rowId[d] \in Nat /\ rowId[d] # 0
    BY DEF Unpublished, Visible, FeedTypeOK, RowsDistinct
  <2>2. UpTo(e) \in SUBSET UpTo(d)
    BY <2>1, <1>3 DEF UpTo, Unpublished, FeedTypeOK
  <2>3. UpTo(e) = UpTo(d)
    BY <1>2, <1>3, <2>2, FS_Subset
  <2>4. d \in UpTo(e)
    BY <1>2, <2>3
  <2>5. rowId[d] = rowId[e]
    BY <2>1, <2>4, <1>3 DEF UpTo
  <2> QED BY <2>1, <2>5 DEF RowsDistinct, Unpublished
<1>4. ASSUME NEW e \in Unpublished, NEW d \in Unpublished,
             Cardinality(UpTo(e)) = Cardinality(UpTo(d))
      PROVE  e = d
  <2>1. rowId[e] \in Nat /\ rowId[d] \in Nat
    BY DEF Unpublished, FeedTypeOK
  <2>2. rowId[e] <= rowId[d] \/ rowId[d] <= rowId[e]
    BY <2>1
  <2> QED BY <2>2, <1>3, <1>4
<1> QED BY <1>1, <1>2, <1>4

LEMMA Publication ==
  ASSUME FeedTypeOK, RowsDistinct, PublishedDistinct, PublishPending
  PROVE  Published /\ PublishedDistinct'
<1> DEFINE rank(e) == Cardinality(UpTo(e))
           n == Cardinality(Unpublished)
<1>1. /\ n \in Nat
      /\ \A e \in Unpublished : rank(e) \in 1..n
      /\ \A e, d \in Unpublished : rank(e) = rank(d) => e = d
  BY Ranks
<1>2. /\ lastPub' = lastPub + n
      /\ published' = [e \in Event |-> IF e \in Unpublished THEN lastPub + rank(e) ELSE published[e]]
      /\ UNCHANGED <<writer, rowId, lastRow>>
  BY DEF PublishPending
<1>3. lastPub \in Nat /\ published \in [Event -> 0..lastPub]
  BY DEF FeedTypeOK
<1>4. \A e \in Unpublished : e \in Event /\ Visible(e) /\ published[e] = 0
  BY DEF Unpublished
<1> HIDE DEF rank, n
<1>5. \A e \in Event : e \notin Unpublished => published'[e] = published[e]
  BY <1>2
<1>6. \A e \in Event : e \in Unpublished => published'[e] = lastPub + rank(e)
  BY <1>2
<1>7. Published
  <2>1. lastPub' \in Nat /\ lastPub <= lastPub'
    BY <1>1, <1>2, <1>3
  <2>2. ASSUME NEW e \in Event PROVE published'[e] \in 0..lastPub'
    BY <1>1, <1>2, <1>3, <1>5, <1>6
  <2>3. ASSUME NEW e \in Event
        PROVE  \/ published'[e] = published[e]
               \/ published[e] = 0 /\ Visible(e) /\ lastPub < published'[e]
    BY <1>1, <1>3, <1>4, <1>5, <1>6
  <2>4. published' \in [Event -> 0..lastPub']
    BY <1>2, <2>2
  <2> QED BY <1>2, <2>1, <2>3, <2>4 DEF Published
<1>8. PublishedDistinct'
  <2> SUFFICES ASSUME NEW e \in Event, NEW d \in Event,
                      published'[e] # 0, published'[e] = published'[d]
               PROVE  e = d
    BY DEF PublishedDistinct
  <2>1. CASE e \in Unpublished /\ d \in Unpublished
    BY <2>1, <1>1, <1>3, <1>6
  <2>2. CASE e \in Unpublished /\ d \notin Unpublished
    BY <2>2, <1>1, <1>3, <1>5, <1>6
  <2>3. CASE e \notin Unpublished /\ d \in Unpublished
    BY <2>3, <1>1, <1>3, <1>5, <1>6
  <2>4. CASE e \notin Unpublished /\ d \notin Unpublished
    BY <2>4, <1>5 DEF PublishedDistinct
  <2> QED BY <2>1, <2>2, <2>3, <2>4
<1> QED BY <1>7, <1>8

\* A publication gives ids beyond everything that was sent or asked for.
LEMMA PublicationKeeps ==
  ASSUME IInv, PublishPending, UNCHANGED <<asked, boundary, cursor, pending, browserVars, trouble>>,
         phase' \in ConnPhase
  PROVE  /\ FeedTypeOK' /\ RowsDistinct' /\ PublishedDistinct' /\ NoGap'
         /\ phase \in {"wait", "list"} => StreamCovers'
<1>1. Published /\ PublishedDistinct'
  BY Publication DEF IInv
<1>2. lastPub \in Nat /\ lastPub' \in Nat /\ lastPub <= lastPub'
  BY <1>1 DEF IInv, FeedTypeOK, Published
<1>3. /\ published \in [Event -> 0..lastPub]
      /\ asked \in 0..lastPub /\ boundary \in 0..lastPub /\ cursor \in 0..lastPub
      /\ lastId \in 0..lastPub /\ joined \in 0..lastPub
  BY DEF IInv, FeedTypeOK
<1>4. \A e \in Event : published[e] # 0 => published'[e] = published[e]
  BY <1>1 DEF Published
<1>5. \A e \in Event : published'[e] <= lastPub => published'[e] = published[e]
  BY <1>1, <1>2, <1>3 DEF Published
<1>6. FeedTypeOK'
  <2>1. /\ writer' \in [Event -> WriterState]
        /\ rowId' \in [Event -> 0..lastRow'] /\ published' \in [Event -> 0..lastPub']
        /\ lastRow' \in Nat /\ lastPub' \in Nat
    BY <1>1 DEF Published, IInv, FeedTypeOK
  <2>2. \A e \in Event : published'[e] # 0 => Visible(e)'
    BY <1>1 DEF Published, Visible, IInv, FeedTypeOK
  <2>3. {asked', boundary', cursor', lastId', joined'} \subseteq 0..lastPub'
    BY <1>2, <1>3 DEF browserVars
  <2>4. (pending \subseteq After(lastId))'
    <3>1. ASSUME NEW e \in pending PROVE e \in Event /\ published'[e] > lastId
      <4>1. e \in Event /\ published[e] > lastId
        BY DEF IInv, FeedTypeOK, After
      <4> QED BY <4>1, <1>3, <1>4
    <3>2. pending' = pending /\ lastId' = lastId
      BY DEF browserVars
    <3> QED BY <3>1, <3>2 DEF After
  <2>5. received' \subseteq {e \in Event : published'[e] # 0}
    BY <1>4 DEF IInv, FeedTypeOK, browserVars
  <2>6. trouble' \in 0..MaxTrouble
    BY DEF IInv, FeedTypeOK
  <2> QED BY <2>1, <2>2, <2>3, <2>4, <2>5, <2>6 DEF FeedTypeOK
<1>7. RowsDistinct'
  BY <1>1 DEF Published, IInv, RowsDistinct
<1>8. NoGap'
  BY <1>2, <1>3, <1>5, <1>1 DEF Published, IInv, NoGap, browserVars
<1>9. ASSUME phase \in {"wait", "list"} PROVE StreamCovers'
  <2>1. ASSUME NEW e \in Event, joined < published'[e], published'[e] <= cursor
        PROVE  e \in received \cup pending
    BY <2>1, <1>2, <1>3, <1>5, <1>1, <1>9 DEF Published, IInv, StreamCovers
  <2>2. ASSUME NEW p \in pending, NEW e \in Event,
               joined < published'[e], published'[e] <= published'[p]
        PROVE  e \in received \cup pending
    <3>1. p \in Event /\ published'[p] = published[p] /\ published[p] \in 0..lastPub
      BY <1>3, <1>4 DEF IInv, FeedTypeOK, After
    <3>2. published'[e] = published[e]
      BY <2>2, <3>1, <1>1, <1>2, <1>5 DEF Published
    <3> QED BY <2>2, <3>1, <3>2, <1>9 DEF IInv, StreamCovers
  <2> QED BY <2>1, <2>2 DEF StreamCovers, browserVars
<1> QED BY <1>1, <1>6, <1>7, <1>8, <1>9

-----------------------------------------------------------------------------
(* The invariant is inductive *)

LEMMA InitInv == FeedInit => IInv
BY FeedAssumption DEF FeedInit, IInv, FeedTypeOK, WriterState, ConnPhase, Visible, After, RowsDistinct,
   PublishedDistinct, RequestFollows, StreamCovers, NoGap, FeedAssumption

LEMMA WriterStep ==
  ASSUME IInv, NEW e \in Event,
         AppendInTx(e) \/ \E outcome \in {"committed", "rolledback"} : EndWriter(e, outcome)
  PROVE  IInv'
<1>1. /\ UNCHANGED <<published, lastPub>> /\ UNCHANGED streamVars /\ UNCHANGED browserVars
      /\ UNCHANGED trouble
  BY DEF AppendInTx, EndWriter
<1>2. PublishedDistinct' /\ NoGap' /\ RequestFollows' /\ StreamCovers'
  BY <1>1 DEF IInv, streamVars, browserVars, PublishedDistinct, NoGap, RequestFollows, StreamCovers
<1>3. CASE AppendInTx(e)
  <2>1. lastRow \in Nat /\ rowId \in [Event -> 0..lastRow] /\ lastRow' = lastRow + 1
    BY <1>3 DEF IInv, FeedTypeOK, AppendInTx
  <2>2. /\ rowId' = [rowId EXCEPT ![e] = lastRow + 1]
        /\ writer' = [writer EXCEPT ![e] = "open"] /\ writer[e] = "none"
    BY <1>3 DEF AppendInTx
  <2>3. RowsDistinct'
    BY <2>1, <2>2 DEF IInv, RowsDistinct, FeedTypeOK
  <2>4. FeedTypeOK'
    BY <1>1, <2>1, <2>2
       DEF IInv, FeedTypeOK, WriterState, Visible, After, streamVars, browserVars
  <2> QED BY <1>2, <2>3, <2>4 DEF IInv
<1>4. ASSUME NEW outcome \in {"committed", "rolledback"}, EndWriter(e, outcome)
      PROVE  IInv'
  <2>1. /\ UNCHANGED <<rowId, lastRow>>
        /\ writer' = [writer EXCEPT ![e] = outcome] /\ writer[e] = "open"
    BY <1>4 DEF EndWriter
  <2>2. RowsDistinct'
    BY <2>1 DEF IInv, RowsDistinct, FeedTypeOK
  <2>3. FeedTypeOK'
    BY <1>1, <2>1 DEF IInv, FeedTypeOK, WriterState, Visible, After, streamVars, browserVars
  <2> QED BY <1>2, <2>2, <2>3 DEF IInv
<1> QED BY <1>3, <1>4

LEMMA PublishingStep ==
  ASSUME IInv, PublishElsewhere \/ ReplayPublishes \/ ListPublishes
  PROVE  IInv'
<1>1. /\ PublishPending
      /\ UNCHANGED <<asked, boundary, cursor, pending, browserVars, trouble>>
      /\ phase' \in ConnPhase
  BY DEF PublishElsewhere, ReplayPublishes, ListPublishes, streamVars, IInv, FeedTypeOK, ConnPhase
<1>2. FeedTypeOK' /\ RowsDistinct' /\ PublishedDistinct' /\ NoGap'
  BY <1>1, PublicationKeeps
<1>3. RequestFollows'
  BY <1>1 DEF PublishElsewhere, ReplayPublishes, ListPublishes, streamVars, browserVars,
              IInv, RequestFollows
<1>4. StreamCovers'
  <2>1. CASE phase \in {"wait", "list"}
    BY <2>1, <1>1, PublicationKeeps
  <2>2. CASE phase \notin {"wait", "list"}
    BY <2>2 DEF PublishElsewhere, ReplayPublishes, ListPublishes, streamVars, StreamCovers
  <2> QED BY <2>1, <2>2
<1> QED BY <1>2, <1>3, <1>4 DEF IInv

LEMMA OpeningStep ==
  ASSUME IInv, Connect \/ Rejected \/ Breaks \/ ReplayBoundary
  PROVE  IInv'
<1>1. UNCHANGED tableVars /\ UNCHANGED <<lastId, received>>
  BY DEF Connect, Rejected, Breaks, ReplayBoundary, browserVars
<1>2. RowsDistinct' /\ PublishedDistinct'
  BY <1>1 DEF IInv, RowsDistinct, PublishedDistinct, tableVars
<1>3. \A e \in Event : Visible(e)' = Visible(e)
  BY <1>1 DEF Visible, tableVars
<1>4. After(lastId)' = After(lastId)
  BY <1>1 DEF After, tableVars
<1>5. CASE Connect \/ Rejected \/ Breaks
  <2>1. /\ UNCHANGED joined /\ phase' \in {"closed", "opening", "rejected"} /\ pending' = {}
        /\ asked' \in {0, lastId} /\ boundary' \in {0, boundary} /\ cursor' \in {0, cursor}
        /\ trouble' \in {trouble, trouble + 1} /\ (trouble' # trouble => trouble < MaxTrouble)
        /\ phase' = "opening" => asked' = lastId
    BY <1>5 DEF Connect, Rejected, Breaks, Troubled, browserVars, IInv, RequestFollows
  <2>2. FeedTypeOK'
    <3>1. trouble' \in 0..MaxTrouble
      BY <2>1, FeedAssumption DEF IInv, FeedTypeOK, FeedAssumption
    <3>2. {asked', boundary', cursor', lastId', joined'} \subseteq 0..lastPub'
      BY <1>1, <2>1 DEF IInv, FeedTypeOK, tableVars
    <3>3. phase' \in ConnPhase /\ pending' \subseteq After(lastId)'
      BY <2>1 DEF ConnPhase
    <3> QED BY <1>1, <1>3, <3>1, <3>2, <3>3 DEF IInv, FeedTypeOK, tableVars
  <2>3. RequestFollows' /\ StreamCovers'
    BY <1>1, <2>1 DEF RequestFollows, StreamCovers
  <2>4. NoGap'
    BY <1>1, <2>1 DEF IInv, NoGap, tableVars
  <2> QED BY <1>2, <2>2, <2>3, <2>4 DEF IInv
<1>6. CASE ReplayBoundary
  <2>1. /\ phase = "boundary" /\ pending' = pending /\ pending = {} /\ asked' = asked
        /\ asked = lastId /\ UNCHANGED trouble /\ phase' \in ConnPhase
    BY <1>6 DEF ReplayBoundary, IInv, RequestFollows, ConnPhase
  <2>2. lastPub \in Nat /\ lastId \in 0..lastPub /\ lastPub' = lastPub
    BY <1>1 DEF IInv, FeedTypeOK, tableVars
  <2>3. CASE asked = 0 /\ phase' = "wait" /\ cursor' = lastPub /\ joined' = lastPub /\ UNCHANGED boundary
    <3>1. FeedTypeOK'
      BY <1>1, <1>3, <1>4, <2>1, <2>2, <2>3 DEF IInv, FeedTypeOK, tableVars
    <3>2. RequestFollows'
      BY <1>1, <2>1, <2>2, <2>3 DEF RequestFollows
    <3>3. published \in [Event -> 0..lastPub] /\ published' = published
      BY <1>1 DEF IInv, FeedTypeOK, tableVars
    <3>4. StreamCovers'
      BY <2>1, <2>2, <2>3, <3>3 DEF StreamCovers
    <3>5. NoGap'
      BY <1>1, <2>1, <2>3 DEF NoGap
    <3> QED BY <1>2, <3>1, <3>2, <3>4, <3>5 DEF IInv
  <2>4. CASE asked # 0 /\ phase' = "replay" /\ boundary' = lastPub /\ UNCHANGED <<cursor, joined>>
    <3>1. FeedTypeOK'
      BY <1>1, <1>3, <1>4, <2>1, <2>2, <2>4 DEF IInv, FeedTypeOK, tableVars
    <3>2. RequestFollows' /\ StreamCovers'
      BY <1>1, <2>1, <2>2, <2>4 DEF RequestFollows, StreamCovers
    <3>3. NoGap'
      BY <1>1, <2>4 DEF IInv, NoGap, tableVars
    <3> QED BY <1>2, <3>1, <3>2, <3>3 DEF IInv
  <2> QED BY <1>6, <2>3, <2>4 DEF ReplayBoundary
<1> QED BY <1>5, <1>6

\* A stream that has sent everything up to id covers what a batch after id brings.
LEMMA BatchCovers ==
  ASSUME FeedTypeOK, NEW id \in Nat,
         \A e \in Event : joined < published[e] /\ published[e] <= id => e \in received
  PROVE  \A p \in Batch(id), e \in Event :
           joined < published[e] /\ published[e] <= published[p] => e \in received \cup Batch(id)
<1> SUFFICES ASSUME NEW p \in Batch(id), NEW e \in Event,
                    joined < published[e], published[e] <= published[p], e \notin received
             PROVE  e \in Batch(id)
  OBVIOUS
<1>1. published \in [Event -> Nat] /\ published[e] \in Nat
  BY DEF FeedTypeOK
<1>2. e \in After(id)
  BY <1>1 DEF After
<1> QED BY <1>1, <1>2, BatchIsClosed

LEMMA ReplayStep ==
  ASSUME IInv, Replay
  PROVE  IInv'
<1>1. /\ UNCHANGED tableVars /\ UNCHANGED browserVars /\ UNCHANGED trouble
      /\ phase = "replay" /\ phase' = "wait" /\ asked' = 0 /\ boundary' = 0
      /\ pending' = Batch(asked)
  BY DEF Replay
<1>2. asked = lastId /\ lastId # 0 /\ lastId <= boundary
  BY <1>1 DEF IInv, RequestFollows
<1>3. /\ lastPub \in Nat /\ published \in [Event -> 0..lastPub] /\ published \in [Event -> Nat]
      /\ lastId \in 0..lastPub /\ boundary \in 0..lastPub /\ lastId \in Nat
  BY DEF IInv, FeedTypeOK
<1>4. Batch(lastId) \subseteq After(lastId)
  BY DEF Batch
<1>5. /\ cursor' \in 0..lastPub
      /\ Batch(lastId) = {} => cursor' = boundary
      /\ \A e \in Event : joined < published[e] /\ published[e] <= cursor'
                            => e \in received \cup Batch(lastId)
  <2>1. CASE pending' = {} /\ cursor' = boundary
    <3>1. After(lastId) = {}
      BY <2>1, <1>1, <1>2, <1>3, EmptyBatch
    <3>2. \A e \in Event : published[e] <= lastId
      BY <3>1, <1>3 DEF After
    <3> QED BY <2>1, <3>2, <1>1, <1>2, <1>3 DEF IInv, NoGap
  <2>2. CASE \E e \in pending' : (\A d \in pending' : published[d] <= published[e])
                                   /\ cursor' = published[e]
    <3>1. PICK p \in Batch(lastId) : cursor' = published[p]
      BY <2>2, <1>1, <1>2
    <3>2. p \in Event
      BY DEF Batch, After
    <3>3. \A e \in Event : joined < published[e] /\ published[e] <= lastId => e \in received
      BY <1>2 DEF IInv, NoGap
    <3>4. \A e \in Event : joined < published[e] /\ published[e] <= published[p]
                             => e \in received \cup Batch(lastId)
      BY <1>3, <3>3, BatchCovers DEF IInv
    <3> QED BY <1>3, <3>1, <3>2, <3>4
  <2> QED BY <2>1, <2>2 DEF Replay
<1>6. FeedTypeOK'
  <2>1. pending' \subseteq After(lastId)'
    BY <1>1, <1>2, <1>4 DEF After, tableVars, browserVars
  <2>2. \A e \in Event : Visible(e)' = Visible(e)
    BY <1>1 DEF Visible, tableVars
  <2> QED BY <1>1, <1>5, <2>1, <2>2 DEF IInv, FeedTypeOK, ConnPhase, tableVars, browserVars
<1>7. RowsDistinct' /\ PublishedDistinct' /\ NoGap'
  BY <1>1 DEF IInv, RowsDistinct, PublishedDistinct, NoGap, tableVars, browserVars
<1>8. RequestFollows'
  BY <1>1, <1>2, <1>5 DEF RequestFollows, browserVars
<1>9. StreamCovers'
  <2>1. \A e \in Event : joined < published[e] /\ published[e] <= lastId => e \in received
    BY <1>2 DEF IInv, NoGap
  <2>2. \A p \in Batch(lastId), e \in Event :
          joined < published[e] /\ published[e] <= published[p] => e \in received \cup Batch(lastId)
    BY <1>3, <2>1, BatchCovers DEF IInv
  <2> QED BY <1>1, <1>2, <1>5, <2>2 DEF StreamCovers, tableVars, browserVars
<1> QED BY <1>6, <1>7, <1>8, <1>9 DEF IInv

LEMMA DeliverStep ==
  ASSUME IInv, NEW e \in Event, Deliver(e)
  PROVE  IInv'
<1>1. /\ UNCHANGED tableVars /\ UNCHANGED <<phase, asked, boundary, joined, trouble>>
      /\ phase = "wait" /\ e \in pending /\ pending' = pending \ {e}
      /\ \A d \in pending : published[e] <= published[d]
      /\ cursor' = published[e] /\ lastId' = published[e] /\ received' = received \cup {e}
  BY DEF Deliver
<1>2. /\ lastPub \in Nat /\ published \in [Event -> 0..lastPub] /\ lastId \in 0..lastPub
      /\ pending \subseteq Event /\ published[e] > lastId
  BY <1>1 DEF IInv, FeedTypeOK, After
<1>3. \A d \in pending' : published[d] > published[e]
  BY <1>1, <1>2 DEF IInv, PublishedDistinct
<1>4. \A d \in Event : joined < published[d] /\ published[d] <= published[e]
                         => d \in received'
  <2> SUFFICES ASSUME NEW d \in Event, joined < published[d], published[d] <= published[e]
               PROVE  d \in received'
    OBVIOUS
  <2>1. d \in received \cup pending
    BY <1>1 DEF IInv, StreamCovers
  <2> QED BY <1>1, <1>2, <1>3, <2>1
<1>5. FeedTypeOK'
  <2>1. pending' \subseteq After(lastId)'
    BY <1>1, <1>2, <1>3 DEF After, tableVars
  <2>2. \A d \in Event : Visible(d)' = Visible(d)
    BY <1>1 DEF Visible, tableVars
  <2> QED BY <1>1, <1>2, <2>1, <2>2 DEF IInv, FeedTypeOK, tableVars
<1>6. RowsDistinct' /\ PublishedDistinct'
  BY <1>1 DEF IInv, RowsDistinct, PublishedDistinct, tableVars
<1>7. RequestFollows'
  <2>1. asked = 0
    BY <1>1 DEF IInv, RequestFollows
  <2> QED BY <1>1, <1>2, <2>1 DEF RequestFollows
<1>8. StreamCovers' /\ NoGap'
  <2>1. NoGap'
    BY <1>1, <1>4 DEF NoGap, tableVars
  <2>2. \A p \in pending', d \in Event :
           joined < published[d] /\ published[d] <= published[p] => d \in received' \cup pending'
    BY <1>1 DEF IInv, StreamCovers
  <2> QED BY <1>1, <1>4, <2>1, <2>2 DEF StreamCovers, tableVars
<1> QED BY <1>5, <1>6, <1>7, <1>8 DEF IInv

LEMMA ListReadsStep ==
  ASSUME IInv, ListReads
  PROVE  IInv'
<1>1. /\ UNCHANGED tableVars /\ UNCHANGED browserVars
      /\ UNCHANGED <<asked, boundary, cursor, trouble>>
      /\ phase = "list" /\ phase' = "wait" /\ pending' = Batch(cursor)
  BY DEF ListReads
<1>2. pending = {} /\ lastId <= cursor
  BY <1>1 DEF IInv, RequestFollows
<1>3. /\ lastPub \in Nat /\ published \in [Event -> 0..lastPub]
      /\ lastId \in 0..lastPub /\ cursor \in Nat
  BY DEF IInv, FeedTypeOK
<1>4. \A d \in Event : joined < published[d] /\ published[d] <= cursor => d \in received
  BY <1>1, <1>2 DEF IInv, StreamCovers
<1>5. FeedTypeOK'
  <2>1. pending' \subseteq After(lastId)'
    BY <1>1, <1>2, <1>3 DEF Batch, After, tableVars, browserVars
  <2>2. \A e \in Event : Visible(e)' = Visible(e)
    BY <1>1 DEF Visible, tableVars
  <2> QED BY <1>1, <2>1, <2>2 DEF IInv, FeedTypeOK, ConnPhase, tableVars, browserVars
<1>6. RowsDistinct' /\ PublishedDistinct' /\ NoGap'
  BY <1>1 DEF IInv, RowsDistinct, PublishedDistinct, NoGap, tableVars, browserVars
<1>7. RequestFollows'
  BY <1>1, <1>2 DEF IInv, RequestFollows, browserVars
<1>8. StreamCovers'
  <2>1. \A p \in Batch(cursor), d \in Event :
          joined < published[d] /\ published[d] <= published[p] => d \in received \cup Batch(cursor)
    BY <1>3, <1>4, BatchCovers DEF IInv
  <2> QED BY <1>1, <1>4, <2>1 DEF StreamCovers, tableVars, browserVars
<1> QED BY <1>5, <1>6, <1>7, <1>8 DEF IInv

LEMMA NextInv == IInv /\ [FeedNext]_feedVars => IInv'
<1> SUFFICES ASSUME IInv, [FeedNext]_feedVars PROVE IInv'
  OBVIOUS
<1>1. CASE TableStep
  BY <1>1, WriterStep, PublishingStep DEF TableStep
<1>2. CASE ConnStep
  BY <1>2, PublishingStep, OpeningStep, ReplayStep, ListReadsStep DEF ConnStep
<1>3. ASSUME NEW e \in Event, Deliver(e) PROVE IInv'
  BY <1>3, DeliverStep
<1>4. CASE UNCHANGED feedVars
  BY <1>4 DEF feedVars, tableVars, streamVars, browserVars, IInv, FeedTypeOK, RowsDistinct,
              PublishedDistinct, RequestFollows, StreamCovers, NoGap, Visible, After
<1> QED BY <1>1, <1>2, <1>3, <1>4 DEF FeedNext

-----------------------------------------------------------------------------
LEMMA FeedInv == FeedSpec => []IInv
BY InitInv, NextInv, PTL DEF FeedSpec

\* Only committed events are published, and no reader is ahead of the counter,
\* in every feed.
THEOREM FeedTypeCorrect == FeedSpec => []FeedTypeOK
<1>1. IInv => FeedTypeOK
  BY DEF IInv
<1> QED BY <1>1, FeedInv, PTL

\* A browser that joined the feed misses no event up to the last one it
\* received, whatever order transactions commit in and however often the
\* connection breaks.
THEOREM FeedHasNoGap == FeedSpec => []NoGap
<1>1. IInv => NoGap
  BY DEF IInv
<1> QED BY <1>1, FeedInv, PTL

-----------------------------------------------------------------------------
(***************************************************************************)
(* Proofs about LivePage, for any number of events, requests, operator     *)
(* actions and broken connections: a page at rest shows what the feed told *)
(* it.                                                                     *)
(***************************************************************************)

(* The coordinator *)

\* A version the page wants and may load has its timer set; nothing it
\* remembers is newer than the newest version.
CoordinatorOK(r) ==
  /\ r \in Refresher
  /\ ~r.paused /\ ~r.running /\ Wanted(r) => r.timer
  /\ r.current <= r.latest
  /\ r.failed # NoVersion => r.failed <= r.latest
  /\ r.target # NoVersion => r.target <= r.latest
  /\ r.running <=> r.target # NoVersion
  /\ r.overtaken => r.running

LEMMA ScheduleIs ==
  ASSUME NEW r \in Refresher
  PROVE  /\ Schedule(r) \in Refresher
         /\ Schedule(r).current = r.current /\ Schedule(r).latest = r.latest
         /\ Schedule(r).failed = r.failed /\ Schedule(r).target = r.target
         /\ Schedule(r).running = r.running /\ Schedule(r).paused = r.paused
         /\ Schedule(r).overtaken = r.overtaken
         /\ ~r.paused /\ ~r.running /\ Wanted(r) => Schedule(r).timer
<1>1. Schedule(r) \in Refresher
  BY DEF Schedule, Refresher
<1> QED BY <1>1 DEF Schedule, Refresher

\* Scheduling gives the promise about the timer.
LEMMA ScheduleKeeps ==
  ASSUME NEW r \in Refresher, r.current <= r.latest,
         r.failed # NoVersion => r.failed <= r.latest,
         r.target # NoVersion => r.target <= r.latest,
         r.running <=> r.target # NoVersion,
         r.overtaken => r.running
  PROVE  CoordinatorOK(Schedule(r))
<1>1. PICK s \in Refresher : s = Schedule(r)
  BY ScheduleIs
<1>2. /\ s.current = r.current /\ s.latest = r.latest /\ s.failed = r.failed
      /\ s.target = r.target /\ s.running = r.running /\ s.paused = r.paused
      /\ s.overtaken = r.overtaken
  BY <1>1, ScheduleIs
<1>3. ~r.paused /\ ~r.running /\ Wanted(r) => s.timer
  BY <1>1, ScheduleIs
<1>4. Wanted(s) <=> Wanted(r)
  BY <1>2 DEF Wanted
<1>5. ~s.paused /\ ~s.running /\ Wanted(s) => s.timer
  BY <1>2, <1>3, <1>4
<1> QED BY <1>1, <1>2, <1>5 DEF CoordinatorOK

\* What observe leaves, and when it forgets a failure.
LEMMA ObserveKeeps ==
  ASSUME NEW r \in Refresher, CoordinatorOK(r), NEW version \in Nat, r.latest <= version,
         NEW paused \in BOOLEAN
  PROVE  LET s == Observe(r, version, paused) IN
         /\ CoordinatorOK(s)
         /\ s.current = r.current /\ s.latest = version /\ s.target = r.target
         /\ s.running = r.running /\ s.overtaken = r.overtaken /\ s.paused = paused
         /\ s.failed \in {r.failed, NoVersion}
<1> DEFINE seen == [r EXCEPT !.latest = version, !.paused = paused]
           s == Observe(r, version, paused)
<1>1. /\ seen \in Refresher /\ seen.latest = version /\ seen.paused = paused
      /\ seen.current = r.current /\ seen.failed = r.failed /\ seen.target = r.target
      /\ seen.running = r.running /\ seen.timer = r.timer /\ seen.overtaken = r.overtaken
  BY DEF Refresher
<1>2. /\ r.current \in Nat /\ r.latest \in Nat /\ r.failed \in Nat \cup {NoVersion}
      /\ r.target \in Nat \cup {NoVersion}
  BY DEF Refresher
<1>3. CASE version = r.current
  <2>1. s = CancelTimer([seen EXCEPT !.failed = NoVersion])
    BY <1>3 DEF Observe
  <2> HIDE DEF seen
  <2>2. /\ s \in Refresher /\ s.latest = version /\ s.paused = paused
        /\ s.current = r.current /\ s.failed = NoVersion /\ s.target = r.target
        /\ s.running = r.running /\ s.overtaken = r.overtaken
    BY <1>1, <2>1 DEF CancelTimer, Refresher
  <2> HIDE DEF s
  <2>3. ~Wanted(s)
    BY <1>3, <2>2 DEF Wanted
  <2>4. CoordinatorOK(s)
    BY <1>2, <1>3, <2>2, <2>3 DEF CoordinatorOK
  <2> QED BY <2>2, <2>4 DEF s
<1>4. CASE version # r.current /\ version = r.failed
  <2>1. s = CancelTimer(seen)
    BY <1>4 DEF Observe
  <2> HIDE DEF seen
  <2>2. /\ s \in Refresher /\ s.latest = version /\ s.paused = paused
        /\ s.current = r.current /\ s.failed = r.failed /\ s.target = r.target
        /\ s.running = r.running /\ s.overtaken = r.overtaken
    BY <1>1, <2>1 DEF CancelTimer, Refresher
  <2> HIDE DEF s
  <2>3. ~Wanted(s)
    BY <1>4, <2>2 DEF Wanted
  <2>4. r.current <= version /\ (r.target # NoVersion => r.target <= version)
    BY <1>2 DEF CoordinatorOK
  <2>5. CoordinatorOK(s)
    BY <1>2, <1>4, <2>2, <2>3, <2>4 DEF CoordinatorOK
  <2> QED BY <2>2, <2>5 DEF s
<1>5. CASE version # r.current /\ version # r.failed
  <2>1. s = Schedule(seen)
    BY <1>5 DEF Observe
  <2> HIDE DEF seen
  <2>2. /\ s \in Refresher /\ s.latest = version /\ s.paused = paused
        /\ s.current = r.current /\ s.failed = r.failed /\ s.target = r.target
        /\ s.running = r.running /\ s.overtaken = r.overtaken
    BY <1>1, <2>1, ScheduleIs
  <2>3. /\ r.current <= version
        /\ r.failed # NoVersion => r.failed <= version
        /\ r.target # NoVersion => r.target <= version
    BY <1>2 DEF CoordinatorOK
  <2>4. (r.running <=> r.target # NoVersion) /\ (r.overtaken => r.running)
    BY DEF CoordinatorOK
  <2>5. CoordinatorOK(s)
    BY <1>1, <2>1, <2>3, <2>4, ScheduleKeeps
  <2> HIDE DEF s
  <2> QED BY <2>2, <2>5 DEF s
<1> QED BY <1>3, <1>4, <1>5

\* What markCurrent leaves.
LEMMA MarkCurrentKeeps ==
  ASSUME NEW r \in Refresher, CoordinatorOK(r), NEW version \in Nat
  PROVE  LET s == MarkCurrent(r, version) IN
         /\ CoordinatorOK(s)
         /\ s.current = version /\ s.failed = NoVersion /\ s.target = r.target
         /\ s.running = r.running /\ s.overtaken = r.running /\ s.paused = r.paused
         /\ s.latest = IF r.latest > version THEN r.latest ELSE version
<1> DEFINE marked == [r EXCEPT !.overtaken = r.running, !.current = version, !.timer = FALSE,
                               !.failed = NoVersion,
                               !.latest = IF @ > version THEN @ ELSE version]
           s == MarkCurrent(r, version)
<1>1. /\ r.current \in Nat /\ r.latest \in Nat /\ r.target \in Nat \cup {NoVersion}
      /\ r.running \in BOOLEAN
  BY DEF Refresher
<1>2. /\ marked \in Refresher /\ marked.current = version /\ marked.failed = NoVersion
      /\ marked.target = r.target /\ marked.running = r.running
      /\ marked.overtaken = r.running /\ marked.paused = r.paused
      /\ marked.latest = IF r.latest > version THEN r.latest ELSE version
  BY DEF Refresher
<1>3. s = Schedule(marked)
  BY DEF MarkCurrent
<1> HIDE DEF marked, s
<1>4. marked.current <= marked.latest /\ r.latest <= marked.latest /\ marked.latest \in Nat
  BY <1>1, <1>2
<1>5. marked.target # NoVersion => marked.target <= marked.latest
  BY <1>1, <1>2, <1>4 DEF CoordinatorOK
<1>6. (marked.running <=> marked.target # NoVersion) /\ (marked.overtaken => marked.running)
  BY <1>2 DEF CoordinatorOK
<1>7. CoordinatorOK(s)
  BY <1>2, <1>3, <1>4, <1>5, <1>6, ScheduleKeeps
<1>8. /\ s.current = version /\ s.failed = NoVersion /\ s.target = r.target
      /\ s.running = r.running /\ s.overtaken = r.running /\ s.paused = r.paused
      /\ s.latest = marked.latest
  BY <1>2, <1>3, ScheduleIs
<1> QED BY <1>2, <1>7, <1>8 DEF s

\* A refresh starts only for a version that is wanted and has not failed.
LEMMA RunKeeps ==
  ASSUME NEW r \in Refresher, r.current <= r.latest,
         r.failed # NoVersion => r.failed <= r.latest,
         r.target # NoVersion => r.target <= r.latest,
         r.running <=> r.target # NoVersion,
         r.overtaken => r.running
  PROVE  LET s == Run(r) IN
         /\ CoordinatorOK(s)
         /\ s.current = r.current /\ s.latest = r.latest /\ s.failed = r.failed
         /\ s.paused = r.paused
         /\ \/ /\ s.running = r.running /\ s.target = r.target /\ s.overtaken = r.overtaken
            \/ /\ ~r.paused /\ ~r.running /\ s.running /\ ~s.overtaken
               /\ s.target = r.latest /\ r.failed # r.latest
<1> DEFINE s == Run(r)
<1>1. /\ r.latest \in Nat /\ r.running \in BOOLEAN /\ r.paused \in BOOLEAN
      /\ r.overtaken \in BOOLEAN
  BY DEF Refresher
<1>2. CASE Runs(r)
  <2>1. s = [r EXCEPT !.target = r.latest, !.running = TRUE, !.overtaken = FALSE]
    BY <1>2 DEF Run
  <2>2. /\ s \in Refresher /\ s.target = r.latest /\ s.running /\ ~s.overtaken
        /\ s.current = r.current /\ s.latest = r.latest /\ s.failed = r.failed
        /\ s.paused = r.paused
    BY <1>1, <2>1 DEF Refresher
  <2> HIDE DEF s
  <2>3. r.latest # NoVersion
    BY <1>1, VersionAssumption DEF VersionAssumption
  <2>4. CoordinatorOK(s)
    BY <1>1, <2>2, <2>3 DEF CoordinatorOK
  <2>5. ~r.paused /\ ~r.running /\ r.failed # r.latest
    BY <1>2 DEF Runs, Wanted
  <2> QED BY <2>2, <2>4, <2>5 DEF s
<1>3. CASE ~Runs(r)
  <2>1. s = r
    BY <1>3 DEF Run
  <2>2. ~(~r.paused /\ ~r.running /\ Wanted(r))
    BY <1>3 DEF Runs
  <2>3. CoordinatorOK(r)
    BY <2>2 DEF CoordinatorOK
  <2> QED BY <2>1, <2>3
<1> QED BY <1>2, <1>3

LEMMA TimerKeeps ==
  ASSUME NEW r \in Refresher, CoordinatorOK(r)
  PROVE  LET s == TimerFires(r) IN
         /\ CoordinatorOK(s)
         /\ s.current = r.current /\ s.latest = r.latest /\ s.failed = r.failed
         /\ s.paused = r.paused
         /\ \/ /\ s.running = r.running /\ s.target = r.target /\ s.overtaken = r.overtaken
            \/ /\ ~r.paused /\ ~r.running /\ s.running /\ ~s.overtaken
               /\ s.target = r.latest /\ r.failed # r.latest
<1>1. PICK q \in Refresher : q = [r EXCEPT !.timer = FALSE]
  BY DEF Refresher
<1>2. /\ q.current = r.current /\ q.latest = r.latest /\ q.failed = r.failed
      /\ q.paused = r.paused /\ q.running = r.running /\ q.target = r.target
      /\ q.overtaken = r.overtaken
  BY <1>1 DEF Refresher
<1>3. TimerFires(r) = Run(q)
  BY <1>1 DEF TimerFires
<1>4. /\ q.current <= q.latest
      /\ q.failed # NoVersion => q.failed <= q.latest
      /\ q.target # NoVersion => q.target <= q.latest
      /\ q.running <=> q.target # NoVersion
      /\ q.overtaken => q.running
  BY <1>2 DEF CoordinatorOK
<1> HIDE <1>1
<1> QED BY <1>2, <1>3, <1>4, RunKeeps

\* The page retries a failed refresh; one that runs is only asked again.
LEMMA RetryKeeps ==
  ASSUME NEW r \in Refresher, CoordinatorOK(r)
  PROVE  LET s == Retry(r) IN
         /\ CoordinatorOK(s)
         /\ s.current = r.current /\ s.latest = r.latest /\ s.paused = r.paused
         /\ s.failed \in {r.failed, NoVersion}
         /\ \/ /\ s.running = r.running /\ s.target = r.target /\ s.overtaken = r.overtaken
            \/ /\ ~r.paused /\ ~r.running /\ s.running /\ ~s.overtaken
               /\ s.target = r.latest /\ s.failed # r.latest
<1>1. CASE r.running
  <2>1. PICK s \in Refresher : s = [r EXCEPT !.again = TRUE]
    BY DEF Refresher
  <2>2. Retry(r) = s
    BY <1>1, <2>1 DEF Retry
  <2>3. /\ s.current = r.current /\ s.latest = r.latest /\ s.failed = r.failed
        /\ s.paused = r.paused /\ s.running = r.running /\ s.target = r.target
        /\ s.overtaken = r.overtaken
    BY <2>1 DEF Refresher
  <2> HIDE <2>1
  <2>4. CoordinatorOK(s)
    BY <1>1, <2>3 DEF CoordinatorOK
  <2> QED BY <2>2, <2>3, <2>4
<1>2. CASE ~r.running /\ r.failed = NoVersion
  <2>1. Retry(r) = r
    BY <1>2 DEF Retry
  <2> QED BY <2>1
<1>3. CASE ~r.running /\ r.failed # NoVersion
  <2>1. PICK q \in Refresher : q = [r EXCEPT !.failed = NoVersion, !.timer = FALSE]
    BY DEF Refresher
  <2>2. /\ q.current = r.current /\ q.latest = r.latest /\ q.failed = NoVersion
        /\ q.paused = r.paused /\ q.running = r.running /\ q.target = r.target
        /\ q.overtaken = r.overtaken
    BY <2>1 DEF Refresher
  <2>3. Retry(r) = Run(q)
    BY <1>3, <2>1 DEF Retry
  <2>4. /\ q.current <= q.latest
        /\ q.target # NoVersion => q.target <= q.latest
        /\ q.running <=> q.target # NoVersion
        /\ q.overtaken => q.running
    BY <2>2 DEF CoordinatorOK
  <2> HIDE <2>1
  <2>5. PICK s : s = Run(q)
    OBVIOUS
  <2>6. /\ CoordinatorOK(s)
        /\ s.current = q.current /\ s.latest = q.latest /\ s.failed = q.failed
        /\ s.paused = q.paused
        /\ \/ /\ s.running = q.running /\ s.target = q.target /\ s.overtaken = q.overtaken
           \/ /\ ~q.paused /\ ~q.running /\ s.running /\ ~s.overtaken
              /\ s.target = q.latest /\ q.failed # q.latest
    BY <2>2, <2>4, <2>5, RunKeeps
  <2> QED BY <2>2, <2>3, <2>5, <2>6
<1> QED BY <1>1, <1>2, <1>3

\* A refresh that returns makes its own target current, never a version that
\* came while it ran.
LEMMA ReturnsKeeps ==
  ASSUME NEW r \in Refresher, CoordinatorOK(r), r.running, NEW succeeded \in BOOLEAN
  PROVE  LET s == Returns(r, succeeded) IN
         /\ CoordinatorOK(s)
         /\ s.latest = r.latest /\ ~s.running /\ ~s.overtaken /\ s.target = NoVersion
         /\ s.paused = r.paused
         /\ s.current = IF succeeded /\ ~r.overtaken THEN r.target ELSE r.current
         /\ r.overtaken => s.failed = r.failed
         /\ ~r.overtaken /\ succeeded => s.failed = NoVersion
         /\ s.failed \in {r.failed, r.target, NoVersion}
<1> DEFINE back == [r EXCEPT !.running = FALSE, !.again = FALSE, !.overtaken = FALSE,
                             !.target = NoVersion,
                             !.current = IF succeeded /\ ~r.overtaken THEN r.target ELSE @,
                             !.failed = IF r.overtaken THEN @
                                        ELSE IF succeeded \/ r.again THEN NoVersion
                                        ELSE r.target]
           s == Returns(r, succeeded)
<1>1. /\ r.current \in Nat /\ r.latest \in Nat /\ r.failed \in Nat \cup {NoVersion}
      /\ r.target \in Nat
  BY DEF Refresher, CoordinatorOK
<1>2. back \in Refresher
  BY <1>1 DEF Refresher
<1>3. /\ back.latest = r.latest /\ back.running = FALSE /\ back.overtaken = FALSE
      /\ back.target = NoVersion /\ back.paused = r.paused
      /\ back.current = IF succeeded /\ ~r.overtaken THEN r.target ELSE r.current
      /\ back.failed = IF r.overtaken THEN r.failed
                       ELSE IF succeeded \/ r.again THEN NoVersion ELSE r.target
  BY DEF Refresher
<1>4. s = Schedule(back)
  BY DEF Returns
<1> HIDE DEF back, s
<1>5. r.current <= r.latest /\ r.target <= r.latest /\ (r.failed # NoVersion => r.failed <= r.latest)
  BY <1>1, VersionAssumption DEF CoordinatorOK, VersionAssumption
<1>6. back.current <= back.latest
  BY <1>3, <1>5
<1>7. back.failed # NoVersion => back.failed <= back.latest
  BY <1>3, <1>5
<1>8. CoordinatorOK(s)
  BY <1>2, <1>3, <1>4, <1>6, <1>7, ScheduleKeeps
<1>9. /\ s.current = back.current /\ s.latest = back.latest /\ s.failed = back.failed
      /\ s.target = back.target /\ s.running = back.running /\ s.paused = back.paused
      /\ s.overtaken = back.overtaken
  BY <1>2, <1>4, ScheduleIs
<1>10. s.current = IF succeeded /\ ~r.overtaken THEN r.target ELSE r.current
  BY <1>3, <1>9
<1>11. /\ r.overtaken => s.failed = r.failed
       /\ ~r.overtaken /\ succeeded => s.failed = NoVersion
       /\ s.failed \in {r.failed, r.target, NoVersion}
  BY <1>3, <1>9
<1> QED BY <1>3, <1>8, <1>9, <1>10, <1>11 DEF s

-----------------------------------------------------------------------------
(* The page *)

PageShape ==
  /\ CoordinatorOK(refresher)
  /\ revision \in Nat /\ refresher.latest <= revision
  /\ request \in [Request -> RequestRow]
  /\ \A r \in Request : request[r].version <= revision
  /\ loading \in BOOLEAN /\ refreshing \in BOOLEAN /\ error \in BOOLEAN
  /\ ready \in BOOLEAN /\ selecting \in BOOLEAN

\* One load at most is not overtaken, and one refresh and one mount are under way.
OneLoad ==
  /\ \A q, r \in Request : request[q].current /\ request[r].current => q = r
  /\ \A q, r \in Request : request[q].kind = "refresh" /\ request[r].kind = "refresh" => q = r
  /\ \A q, r \in Request : request[q].kind = "mount" /\ request[r].kind = "mount" => q = r
  /\ \A r \in Request : request[r].current => request[r].kind # "none"

\* The flags say which.
FlagsSay ==
  /\ loading <=> \E r \in Request : request[r].current /\ request[r].kind # "refresh"
  /\ refreshing <=> \E r \in Request : request[r].current /\ request[r].kind = "refresh"
  /\ refresher.running <=> \E r \in Request : request[r].kind = "refresh"
  /\ ~ready <=> \E r \in Request : request[r].kind = "mount"
  /\ error => ~loading /\ ~refreshing

\* The list, and an answer that will become the list, reflect all the browser
\* was told of, if the version they count for is still the newest.
AnswerCovers(q) ==
  q.current /\ q.read =>
    /\ q.kind = "refresh" /\ refresher.target = revision => received \subseteq q.seen
    /\ q.kind \in {"mount", "reset"} /\ q.version = revision => received \subseteq q.seen
Covers ==
  /\ refresher.current = revision => received \subseteq shown
  /\ \A r \in Request : AnswerCovers(request[r])

\* A version that will not be tried again has left a message, or a search that
\* replaces it goes on.
ResetUnderWay == \E r \in Request : request[r].current /\ request[r].kind = "reset"
FailureShows ==
  /\ refresher.failed = refresher.latest =>
       (error /\ failedLoad \in {"refresh", "reset"}) \/ ResetUnderWay
  /\ \A r \in Request : request[r].kind = "refresh" /\ request[r].current => ~refresher.overtaken
  /\ \A r \in Request : request[r].kind = "refresh" /\ ~request[r].current /\ ~refresher.overtaken =>
       (error /\ failedLoad = "reset") \/ ResetUnderWay

PageInv == PageShape /\ OneLoad /\ FlagsSay /\ Covers /\ FailureShows

\* What PageInv speaks of.
pageParts == <<refresher, revision, request, shown, loading, refreshing, error, failedLoad,
               ready, selecting, received>>

LEMMA PageUntouched == ASSUME PageInv, UNCHANGED pageParts PROVE PageInv'
BY DEF PageInv, pageParts, PageShape, OneLoad, FlagsSay, Covers, AnswerCovers, FailureShows,
       ResetUnderWay

\* Only a delivery changes what the browser was told of.
LEMMA FeedStepTells == ASSUME TableStep \/ ConnStep PROVE received' = received
BY DEF TableStep, ConnStep, AppendInTx, EndWriter, PublishElsewhere, Connect, Rejected, Breaks,
       ReplayPublishes, ReplayBoundary, Replay, ListPublishes, ListReads, browserVars

LEMMA RefresherIs ==
  ASSUME CoordinatorOK(refresher)
  PROVE  /\ refresher \in Refresher
         /\ refresher.current \in Nat /\ refresher.latest \in Nat
         /\ refresher.failed \in Nat \cup {NoVersion} /\ refresher.target \in Nat \cup {NoVersion}
         /\ refresher.running \in BOOLEAN /\ refresher.paused \in BOOLEAN
         /\ refresher.overtaken \in BOOLEAN
         /\ refresher.current <= refresher.latest
         /\ refresher.failed \in Nat => refresher.failed <= refresher.latest
         /\ refresher.target \in Nat => refresher.target <= refresher.latest
         /\ NoVersion \notin Nat
BY VersionAssumption DEF CoordinatorOK, Refresher, VersionAssumption

LEMMA RequestIs ==
  ASSUME NEW r \in Request, request \in [Request -> RequestRow]
  PROVE  /\ request[r].kind \in LoadKind \cup {"none"}
         /\ request[r].current \in BOOLEAN /\ request[r].version \in Nat
         /\ request[r].read \in BOOLEAN
BY DEF RequestRow

LEMMA NoRequestIs ==
  /\ NoRequest \in RequestRow
  /\ NoRequest.kind = "none" /\ NoRequest.current = FALSE /\ NoRequest.version = 0
  /\ NoRequest.read = FALSE
BY DEF NoRequest, RequestRow

LEMMA NewLoadIs ==
  ASSUME NEW kind \in LoadKind, revision \in Nat
  PROVE  /\ NewRequest(kind) \in RequestRow
         /\ NewRequest(kind).kind = kind /\ NewRequest(kind).current = TRUE
         /\ NewRequest(kind).version \in Nat /\ NewRequest(kind).version <= revision
         /\ NewRequest(kind).read = FALSE
BY DEF NewRequest, RequestRow, LoadKind

\* A newer version makes every list older; nothing else changes.
LEMMA NewVersionKeeps ==
  ASSUME PageInv, revision' = revision + 1,
         UNCHANGED <<refresher, request, shown, loading, refreshing, error, failedLoad, ready,
                     selecting>>
  PROVE  PageInv'
<1>1. /\ CoordinatorOK(refresher) /\ revision \in Nat /\ refresher.latest <= revision
      /\ \A r \in Request : request[r].version <= revision /\ request[r].version \in Nat
  BY RequestIs DEF PageInv, PageShape
<1>2. PageShape'
  BY <1>1, RefresherIs DEF PageInv, PageShape
<1>3. OneLoad' /\ FlagsSay' /\ FailureShows'
  BY DEF PageInv, OneLoad, FlagsSay, FailureShows, ResetUnderWay
<1>4. Covers'
  <2>1. refresher'.current # revision' /\ refresher'.target # revision'
    BY <1>1, RefresherIs
  <2>2. \A r \in Request : request'[r].version # revision'
    BY <1>1
  <2> QED BY <2>1, <2>2 DEF Covers, AnswerCovers
<1> QED BY <1>2, <1>3, <1>4 DEF PageInv

LEMMA EffectKeeps == ASSUME PageInv, EffectRuns PROVE PageInv'
<1>1. /\ CoordinatorOK(refresher) /\ revision \in Nat /\ refresher.latest <= revision
      /\ Paused \in BOOLEAN
  BY DEF PageInv, PageShape, Paused
<1>2. PICK r \in Refresher : r = refresher
  BY <1>1, RefresherIs
<1>3. PICK version \in Nat : version = revision
  BY <1>1
<1>4. PICK paused \in BOOLEAN : paused = Paused
  BY <1>1
<1>5. PICK s : s = Observe(r, version, paused)
  OBVIOUS
<1>6. /\ CoordinatorOK(s)
      /\ s.current = r.current /\ s.latest = version /\ s.target = r.target
      /\ s.running = r.running /\ s.overtaken = r.overtaken
      /\ s.failed \in {r.failed, NoVersion}
  BY <1>1, <1>2, <1>3, <1>5, ObserveKeeps
<1>7. refresher' = s
  BY <1>2, <1>3, <1>4, <1>5 DEF EffectRuns
<1>8. UNCHANGED <<revision, request, shown, loading, refreshing, error, failedLoad, ready,
                  selecting, received>>
  BY DEF EffectRuns, feedVars, browserVars
<1>9. PageShape'
  BY <1>1, <1>3, <1>6, <1>7, <1>8 DEF PageInv, PageShape
<1>10. OneLoad' /\ FlagsSay'
  BY <1>2, <1>6, <1>7, <1>8 DEF PageInv, OneLoad, FlagsSay
<1>11. Covers'
  BY <1>2, <1>6, <1>7, <1>8 DEF PageInv, Covers, AnswerCovers
<1>12. refresher'.failed = refresher'.latest => refresher.failed = refresher.latest
  <2>1. r.failed \in Nat => r.failed <= r.latest
    BY <1>1, <1>2, RefresherIs
  <2>2. r.latest \in Nat /\ r.latest <= version /\ NoVersion \notin Nat
    BY <1>1, <1>2, <1>3, RefresherIs
  <2> QED BY <1>2, <1>6, <1>7, <2>1, <2>2
<1>13. FailureShows'
  BY <1>2, <1>6, <1>7, <1>8, <1>12 DEF PageInv, FailureShows, ResetUnderWay
<1> QED BY <1>9, <1>10, <1>11, <1>13 DEF PageInv

\* A search overtakes every load.
LEMMA SearchKeeps == ASSUME PageInv, NEW r \in Request, Search(r) PROVE PageInv'
<1>1. /\ revision \in Nat /\ request \in [Request -> RequestRow] /\ request[r].kind = "none"
  BY DEF PageInv, PageShape, Search, StartReset
<1>2. /\ UNCHANGED <<refresher, revision, shown, failedLoad, ready, selecting, received>>
      /\ loading' = TRUE /\ refreshing' = FALSE /\ error' = FALSE
      /\ request' = [q \in Request |-> IF q = r THEN NewRequest("reset")
                                       ELSE Overtaken(request[q])]
  BY DEF Search, StartReset, feedVars, browserVars
<1>3. /\ NewRequest("reset") \in RequestRow
      /\ NewRequest("reset").kind = "reset" /\ NewRequest("reset").current = TRUE
      /\ NewRequest("reset").version <= revision /\ NewRequest("reset").read = FALSE
  BY <1>1, NewLoadIs DEF LoadKind
<1>4. /\ request'[r].kind = "reset" /\ request'[r].current = TRUE
      /\ request'[r].version <= revision /\ request'[r].read = FALSE
  BY <1>2, <1>3
<1>5. \A q \in Request : q # r =>
        /\ Overtaken(request[q]) \in RequestRow
        /\ request'[q].kind = request[q].kind /\ request'[q].current = FALSE
        /\ request'[q].version = 0 /\ request'[q].read = FALSE
  BY <1>1, <1>2, RequestIs DEF Overtaken, NoRequest, RequestRow
<1>6. PageShape'
  <2>1. request' \in [Request -> RequestRow]
    BY <1>2, <1>3, <1>5
  <2>2. \A q \in Request : request'[q].version <= revision
    BY <1>1, <1>4, <1>5
  <2> QED BY <1>2, <2>1, <2>2 DEF PageInv, PageShape
<1>7. OneLoad'
  BY <1>1, <1>4, <1>5 DEF PageInv, OneLoad
<1>8. FlagsSay'
  <2>1. loading' <=> \E q \in Request : request'[q].current /\ request'[q].kind # "refresh"
    BY <1>2, <1>4
  <2>2. refreshing' <=> \E q \in Request : request'[q].current /\ request'[q].kind = "refresh"
    BY <1>2, <1>4, <1>5
  <2>3. refresher'.running <=> \E q \in Request : request'[q].kind = "refresh"
    BY <1>1, <1>2, <1>4, <1>5 DEF PageInv, FlagsSay
  <2>4. ~ready' <=> \E q \in Request : request'[q].kind = "mount"
    BY <1>1, <1>2, <1>4, <1>5 DEF PageInv, FlagsSay
  <2> QED BY <1>2, <2>1, <2>2, <2>3, <2>4 DEF FlagsSay
<1>9. Covers'
  BY <1>2, <1>4, <1>5 DEF PageInv, Covers, AnswerCovers
<1>10. FailureShows'
  <2>1. ResetUnderWay'
    BY <1>4 DEF ResetUnderWay
  <2>2. \A q \in Request : ~(request'[q].kind = "refresh" /\ request'[q].current)
    BY <1>4, <1>5
  <2> QED BY <2>1, <2>2 DEF FailureShows
<1> QED BY <1>6, <1>7, <1>8, <1>9, <1>10 DEF PageInv

LEMMA LoadNextKeeps == ASSUME PageInv, NEW r \in Request, LoadNext(r) PROVE PageInv'
<1>1. /\ revision \in Nat /\ request \in [Request -> RequestRow] /\ request[r].kind = "none"
      /\ ~loading /\ ~refreshing /\ (error => failedLoad = "next")
  BY DEF PageInv, PageShape, LoadNext
<1>2. /\ UNCHANGED <<refresher, revision, shown, refreshing, failedLoad, ready, selecting, received>>
      /\ loading' = TRUE /\ error' = FALSE
      /\ request' = [request EXCEPT ![r] = NewRequest("next")]
  BY DEF LoadNext, feedVars, browserVars
<1>3. /\ NewRequest("next") \in RequestRow
      /\ NewRequest("next").kind = "next" /\ NewRequest("next").current = TRUE
      /\ NewRequest("next").version <= revision /\ NewRequest("next").read = FALSE
  BY <1>1, NewLoadIs DEF LoadKind
<1>4. /\ request'[r].kind = "next" /\ request'[r].current = TRUE
      /\ request'[r].version <= revision /\ request'[r].read = FALSE
      /\ \A q \in Request : q # r => request'[q] = request[q]
  BY <1>1, <1>2, <1>3
<1>5. \A q \in Request : ~request[q].current
  BY <1>1 DEF PageInv, FlagsSay
<1>6. PageShape'
  BY <1>1, <1>2, <1>3, <1>4 DEF PageInv, PageShape
<1>7. OneLoad'
  BY <1>1, <1>4, <1>5 DEF PageInv, OneLoad
<1>8. FlagsSay'
  <2>1. loading' <=> \E q \in Request : request'[q].current /\ request'[q].kind # "refresh"
    BY <1>2, <1>4
  <2>2. refreshing' <=> \E q \in Request : request'[q].current /\ request'[q].kind = "refresh"
    BY <1>1, <1>2, <1>4, <1>5
  <2>3. refresher'.running <=> \E q \in Request : request'[q].kind = "refresh"
    BY <1>1, <1>2, <1>4 DEF PageInv, FlagsSay
  <2>4. ~ready' <=> \E q \in Request : request'[q].kind = "mount"
    BY <1>1, <1>2, <1>4 DEF PageInv, FlagsSay
  <2> QED BY <1>2, <2>1, <2>2, <2>3, <2>4 DEF FlagsSay
<1>9. Covers'
  BY <1>2, <1>4, <1>5 DEF PageInv, Covers, AnswerCovers
<1>10. FailureShows'
  <2>1. ~ResetUnderWay /\ ~(error /\ failedLoad \in {"refresh", "reset"})
    BY <1>1, <1>5 DEF ResetUnderWay
  <2>2. refresher'.failed # refresher'.latest
    BY <1>2, <2>1 DEF PageInv, FailureShows
  <2>3. \A q \in Request : request'[q].kind = "refresh" => refresher'.overtaken /\ ~request'[q].current
    BY <1>1, <1>2, <1>4, <1>5, <2>1 DEF PageInv, FailureShows
  <2> QED BY <2>2, <2>3 DEF FailureShows
<1> QED BY <1>6, <1>7, <1>8, <1>9, <1>10 DEF PageInv

\* A refresh starts when nothing else loads, for a version that has not failed.
LEMMA StartsRefreshKeeps ==
  ASSUME PageInv, Flushed, NEW r \in Request, NEW next, StartsRefresh(next, r),
         CoordinatorOK(next),
         next.current = refresher.current, next.latest = refresher.latest,
         next.failed \in {refresher.failed, NoVersion},
         \/ /\ next.running = refresher.running /\ next.target = refresher.target
            /\ next.overtaken = refresher.overtaken
         \/ /\ ~refresher.paused /\ ~refresher.running /\ next.running /\ ~next.overtaken
            /\ next.target = refresher.latest /\ next.failed # refresher.latest,
         UNCHANGED <<revision, shown, loading, failedLoad, ready, selecting, received>>
  PROVE  PageInv'
<1>1. /\ revision \in Nat /\ request \in [Request -> RequestRow] /\ refresher.latest = revision
      /\ CoordinatorOK(refresher) /\ loading \in BOOLEAN /\ refreshing \in BOOLEAN
      /\ refresher.paused = Paused /\ refresher.running \in BOOLEAN /\ refresher' = next
      /\ next.running \in BOOLEAN
  BY RefresherIs DEF PageInv, PageShape, Flushed, StartsRefresh, CoordinatorOK, Refresher
<1>2. refresher'.failed = refresher'.latest => refresher.failed = refresher.latest
  BY <1>1, RefresherIs
<1>3. CASE next.running /\ ~refresher.running
  <2>1. /\ request[r].kind = "none" /\ refreshing' = TRUE /\ error' = FALSE
        /\ request' = [request EXCEPT ![r] = NewRequest("refresh")]
    BY <1>3 DEF StartsRefresh
  <2>2. /\ ~refresher.paused /\ ~next.overtaken /\ next.target = refresher.latest
        /\ next.failed # refresher.latest
    BY <1>1, <1>3
  <2>3. ~loading /\ ~refreshing /\ ready
    BY <1>1, <2>2 DEF Paused
  <2>4. /\ NewRequest("refresh") \in RequestRow
        /\ NewRequest("refresh").kind = "refresh" /\ NewRequest("refresh").current = TRUE
        /\ NewRequest("refresh").version <= revision /\ NewRequest("refresh").read = FALSE
    BY <1>1, NewLoadIs DEF LoadKind
  <2>5. /\ request'[r].kind = "refresh" /\ request'[r].current = TRUE
        /\ request'[r].version <= revision /\ request'[r].read = FALSE
        /\ \A q \in Request : q # r => request'[q] = request[q]
    BY <1>1, <2>1, <2>4
  <2>6. \A q \in Request : ~request[q].current /\ request[q].kind # "refresh"
    BY <1>3, <2>3 DEF PageInv, FlagsSay
  <2>7. PageShape'
    BY <1>1, <2>1, <2>4, <2>5 DEF PageInv, PageShape
  <2>8. OneLoad'
    BY <2>1, <2>5, <2>6 DEF PageInv, OneLoad
  <2>9. FlagsSay'
    <3>1. loading' <=> \E q \in Request : request'[q].current /\ request'[q].kind # "refresh"
      BY <2>3, <2>5, <2>6
    <3>2. refreshing' <=> \E q \in Request : request'[q].current /\ request'[q].kind = "refresh"
      BY <2>1, <2>5
    <3>3. refresher'.running <=> \E q \in Request : request'[q].kind = "refresh"
      BY <1>1, <1>3, <2>5
    <3>4. ~ready' <=> \E q \in Request : request'[q].kind = "mount"
      BY <2>1, <2>5 DEF PageInv, FlagsSay
    <3> QED BY <2>1, <3>1, <3>2, <3>3, <3>4 DEF FlagsSay
  <2>10. Covers'
    BY <1>1, <2>5, <2>6 DEF PageInv, Covers, AnswerCovers
  <2>11. FailureShows'
    <3>1. refresher'.failed # refresher'.latest /\ ~refresher'.overtaken
      BY <1>1, <2>2
    <3>2. \A q \in Request : request'[q].kind = "refresh" => request'[q].current
      BY <2>5, <2>6
    <3> QED BY <3>1, <3>2 DEF FailureShows
  <2> QED BY <2>7, <2>8, <2>9, <2>10, <2>11 DEF PageInv
<1>4. CASE ~(next.running /\ ~refresher.running)
  <2>1. UNCHANGED <<request, refreshing, error>>
    BY <1>4 DEF StartsRefresh
  <2>2. /\ next.running = refresher.running /\ next.target = refresher.target
        /\ next.overtaken = refresher.overtaken
    BY <1>1, <1>4
  <2>3. PageShape'
    BY <1>1, <2>1 DEF PageInv, PageShape
  <2>4. OneLoad' /\ FlagsSay'
    BY <1>1, <2>1, <2>2 DEF PageInv, OneLoad, FlagsSay
  <2>5. Covers'
    BY <1>1, <2>1, <2>2 DEF PageInv, Covers, AnswerCovers
  <2>6. FailureShows'
    BY <1>1, <1>2, <2>1, <2>2 DEF PageInv, FailureShows, ResetUnderWay
  <2> QED BY <2>3, <2>4, <2>5, <2>6 DEF PageInv
<1> QED BY <1>3, <1>4

LEMMA RefreshStepKeeps ==
  ASSUME PageInv, NEW r \in Request, RefreshTimer(r) \/ RetryRefresh(r)
  PROVE  PageInv'
<1>1. CoordinatorOK(refresher) /\ Flushed
  BY DEF PageInv, PageShape, RefreshTimer, RetryRefresh
<1>2. PICK s \in Refresher : s = refresher
  BY <1>1, RefresherIs
<1>3. UNCHANGED <<revision, shown, loading, failedLoad, ready, selecting, received>>
  BY DEF RefreshTimer, RetryRefresh, feedVars, browserVars
<1>4. CASE RefreshTimer(r)
  <2>1. PICK next : next = TimerFires(s)
    OBVIOUS
  <2>2. /\ CoordinatorOK(next)
        /\ next.current = s.current /\ next.latest = s.latest /\ next.failed = s.failed
        /\ \/ /\ next.running = s.running /\ next.target = s.target
              /\ next.overtaken = s.overtaken
           \/ /\ ~s.paused /\ ~s.running /\ next.running /\ ~next.overtaken
              /\ next.target = s.latest /\ s.failed # s.latest
    BY <1>1, <1>2, <2>1, TimerKeeps
  <2>3. StartsRefresh(next, r)
    BY <1>2, <1>4, <2>1 DEF RefreshTimer
  <2> HIDE <2>1
  <2> QED BY <1>1, <1>2, <1>3, <2>2, <2>3, StartsRefreshKeeps
<1>5. CASE RetryRefresh(r)
  <2>1. PICK next : next = Retry(s)
    OBVIOUS
  <2>2. /\ CoordinatorOK(next)
        /\ next.current = s.current /\ next.latest = s.latest
        /\ next.failed \in {s.failed, NoVersion}
        /\ \/ /\ next.running = s.running /\ next.target = s.target
              /\ next.overtaken = s.overtaken
           \/ /\ ~s.paused /\ ~s.running /\ next.running /\ ~next.overtaken
              /\ next.target = s.latest /\ next.failed # s.latest
    BY <1>1, <1>2, <2>1, RetryKeeps
  <2>3. StartsRefresh(next, r)
    BY <1>2, <1>5, <2>1 DEF RetryRefresh
  <2> HIDE <2>1
  <2> QED BY <1>1, <1>2, <1>3, <2>2, <2>3, StartsRefreshKeeps
<1> QED BY <1>4, <1>5

\* What is read now holds every change the browser was told of.
LEMMA ReadsKeeps ==
  ASSUME PageInv, FeedTypeOK, NEW r \in Request, Reads(r)
  PROVE  PageInv'
<1>1. /\ request \in [Request -> RequestRow] /\ request[r] \in RequestRow
      /\ UNCHANGED <<refresher, revision, shown, loading, refreshing, error, failedLoad, ready,
                     selecting, received>>
      /\ request' = [request EXCEPT ![r].read = TRUE, ![r].seen = {e \in Event : Visible(e)}]
  BY DEF PageInv, PageShape, Reads, feedVars, browserVars
<1>2. /\ request'[r] \in RequestRow
      /\ request'[r].kind = request[r].kind /\ request'[r].current = request[r].current
      /\ request'[r].version = request[r].version
      /\ request'[r].seen = {e \in Event : Visible(e)}
  BY <1>1 DEF RequestRow
<1>3. \A q \in Request : q # r => request'[q] = request[q]
  BY <1>1
<1>4. received \subseteq {e \in Event : Visible(e)}
  BY DEF FeedTypeOK
<1>5. PageShape'
  <2>1. request' \in [Request -> RequestRow]
    BY <1>1, <1>2, <1>3
  <2> QED BY <1>1, <1>2, <1>3, <2>1 DEF PageInv, PageShape
<1>6. \A q \in Request : /\ request'[q].kind = request[q].kind
                         /\ request'[q].current = request[q].current
  BY <1>2, <1>3
<1>7. OneLoad'
  BY <1>6 DEF PageInv, OneLoad
<1>8. FlagsSay'
  BY <1>1, <1>6 DEF PageInv, FlagsSay
<1>9. Covers'
  <2>1. AnswerCovers(request[r])'
    BY <1>1, <1>2, <1>4 DEF AnswerCovers
  <2>2. ASSUME NEW q \in Request, q # r PROVE AnswerCovers(request[q])'
    BY <1>1, <1>3, <2>2 DEF PageInv, Covers, AnswerCovers
  <2> QED BY <1>1, <2>1, <2>2 DEF PageInv, Covers, AnswerCovers
<1>10. FailureShows'
  BY <1>1, <1>6 DEF PageInv, FailureShows, ResetUnderWay
<1> QED BY <1>5, <1>7, <1>8, <1>9, <1>10 DEF PageInv

\* The answer r is taken from the requests in flight.
Taken(r) ==
  /\ request' = [request EXCEPT ![r] = NoRequest]
  /\ ready' = (ready \/ request[r].kind = "mount")
  /\ UNCHANGED <<revision, selecting, received>>

LEMMA TakenIs ==
  ASSUME PageInv, NEW r \in Request, Taken(r)
  PROVE  /\ request' \in [Request -> RequestRow]
         /\ request'[r].kind = "none" /\ request'[r].current = FALSE /\ request'[r].version = 0
         /\ \A q \in Request : q # r => request'[q] = request[q]
         /\ \A q \in Request : request'[q].version <= revision
         /\ ready' \in BOOLEAN
         /\ OneLoad'
         /\ ~ready' <=> \E q \in Request : request'[q].kind = "mount"
<1>1. /\ request \in [Request -> RequestRow] /\ ready \in BOOLEAN /\ revision \in Nat
      /\ \A q \in Request : request[q].version <= revision
  BY DEF PageInv, PageShape
<1>2. /\ request' \in [Request -> RequestRow] /\ request'[r] = NoRequest
      /\ \A q \in Request : q # r => request'[q] = request[q]
  BY <1>1, NoRequestIs DEF Taken
<1>3. request'[r].kind = "none" /\ request'[r].current = FALSE /\ request'[r].version = 0
  BY <1>2, NoRequestIs
<1>4. \A q \in Request : request'[q].version <= revision
  BY <1>1, <1>2, <1>3
<1>5. OneLoad'
  BY <1>2, <1>3 DEF PageInv, OneLoad
<1>6. ready' \in BOOLEAN
  BY <1>1 DEF Taken
<1>7. ~ready' <=> \E q \in Request : request'[q].kind = "mount"
  <2>1. CASE request[r].kind = "mount"
    <3>1. ready'
      BY <2>1 DEF Taken
    <3>2. \A q \in Request : request'[q].kind # "mount"
      BY <1>2, <1>3, <2>1 DEF PageInv, OneLoad
    <3> QED BY <3>1, <3>2
  <2>2. CASE request[r].kind # "mount"
    <3>1. ready' = ready
      BY <1>1, <2>2 DEF Taken
    <3>2. \A q \in Request : request'[q].kind = "mount" <=> request[q].kind = "mount"
      BY <1>2, <1>3, <2>2
    <3> QED BY <3>1, <3>2 DEF PageInv, FlagsSay
  <2> QED BY <2>1, <2>2
<1> QED BY <1>2, <1>3, <1>4, <1>5, <1>6, <1>7

\* A refresh in flight is the one the coordinator knows of.
LEMMA RefreshRuns ==
  ASSUME PageInv, NEW r \in Request, request[r].kind = "refresh"
  PROVE  /\ refresher.running /\ refresher.target \in Nat
         /\ \A q \in Request : request[q].kind = "refresh" => q = r
<1>1. refresher.running
  BY DEF PageInv, FlagsSay
<1>2. refresher.target \in Nat
  BY <1>1, RefresherIs DEF PageInv, PageShape, CoordinatorOK
<1> QED BY <1>1, <1>2 DEF PageInv, OneLoad

LEMMA AnsweredLateKeeps ==
  ASSUME PageInv, NEW r \in Request, AnsweredLate(r)
  PROVE  PageInv'
<1>1. /\ ~request[r].current /\ Taken(r) /\ refresher' = AfterAnswer(request[r], FALSE)
      /\ UNCHANGED <<shown, loading, refreshing, error, failedLoad>>
      /\ CoordinatorOK(refresher) /\ revision \in Nat /\ refresher.latest <= revision
  BY DEF AnsweredLate, Taken, feedVars, browserVars, PageInv, PageShape
<1>2. /\ request' \in [Request -> RequestRow]
      /\ request'[r].kind = "none" /\ request'[r].current = FALSE
      /\ \A q \in Request : q # r => request'[q] = request[q]
      /\ \A q \in Request : request'[q].version <= revision
      /\ ready' \in BOOLEAN
      /\ OneLoad'
      /\ ~ready' <=> \E q \in Request : request'[q].kind = "mount"
  BY <1>1, TakenIs
<1>3. UNCHANGED <<revision, selecting, received>>
  BY <1>1 DEF Taken
<1>4. \A q \in Request : request'[q].current => request'[q] = request[q] /\ q # r
  BY <1>2
<1>5. \A q \in Request : request[q].current => request'[q] = request[q]
  BY <1>1, <1>2
<1>6. /\ loading' <=> \E q \in Request : request'[q].current /\ request'[q].kind # "refresh"
      /\ refreshing' <=> \E q \in Request : request'[q].current /\ request'[q].kind = "refresh"
      /\ error' => ~loading' /\ ~refreshing'
  BY <1>1, <1>4, <1>5 DEF PageInv, FlagsSay
<1>7. ResetUnderWay' <=> ResetUnderWay
  BY <1>4, <1>5 DEF ResetUnderWay
<1>8. CASE request[r].kind = "refresh"
  <2>1. PICK s \in Refresher : s = refresher
    BY <1>1, RefresherIs
  <2>2. s.running /\ s.target \in Nat /\ \A q \in Request : request[q].kind = "refresh" => q = r
    BY <1>8, <2>1, RefreshRuns
  <2>3. refresher' = Returns(s, FALSE)
    BY <1>1, <1>8, <2>1 DEF AfterAnswer
  <2>4. PICK next : next = Returns(s, FALSE)
    OBVIOUS
  <2>5. /\ CoordinatorOK(next)
        /\ next.latest = s.latest /\ ~next.running /\ next.target = NoVersion
        /\ next.current = s.current
        /\ s.overtaken => next.failed = s.failed
    BY <1>1, <2>1, <2>2, <2>4, ReturnsKeeps
  <2>6. refresher' = next
    BY <2>3, <2>4
  <2> HIDE <2>3, <2>4
  <2>7. PageShape'
    BY <1>1, <1>2, <1>3, <2>1, <2>5, <2>6 DEF PageInv, PageShape
  <2>8. \A q \in Request : request'[q].kind # "refresh"
    BY <1>2, <2>2
  <2>9. FlagsSay'
    BY <1>2, <1>6, <2>5, <2>6, <2>8 DEF FlagsSay
  <2>10. Covers'
    <3>1. refresher'.current = revision' => received' \subseteq shown'
      BY <1>1, <1>3, <2>1, <2>5, <2>6 DEF PageInv, Covers
    <3>2. ASSUME NEW q \in Request PROVE AnswerCovers(request[q])'
      BY <1>3, <1>4, <2>8 DEF PageInv, Covers, AnswerCovers
    <3> QED BY <3>1, <3>2 DEF Covers
  <2>11. FailureShows'
    <3>1. CASE s.overtaken
      BY <1>1, <1>7, <2>1, <2>5, <2>6, <2>8, <3>1 DEF PageInv, FailureShows
    <3>2. CASE ~s.overtaken
      <4>1. (error /\ failedLoad = "reset") \/ ResetUnderWay
        BY <1>1, <1>8, <2>1, <3>2 DEF PageInv, FailureShows
      <4> QED BY <1>1, <1>7, <2>8, <4>1 DEF FailureShows
    <3> QED BY <3>1, <3>2
  <2> QED BY <1>2, <2>7, <2>9, <2>10, <2>11 DEF PageInv
<1>9. CASE request[r].kind # "refresh"
  <2>1. refresher' = refresher
    BY <1>1, <1>9 DEF AfterAnswer
  <2>2. \A q \in Request : request'[q].kind = "refresh" <=> request[q].kind = "refresh"
    BY <1>2, <1>9
  <2>3. PageShape'
    BY <1>1, <1>2, <1>3, <2>1 DEF PageInv, PageShape
  <2>4. FlagsSay'
    BY <1>2, <1>6, <2>1, <2>2 DEF PageInv, FlagsSay
  <2>5. Covers'
    BY <1>1, <1>3, <1>4, <2>1 DEF PageInv, Covers, AnswerCovers
  <2>6. FailureShows'
    <3>1. \A q \in Request : request'[q].kind = "refresh" => request'[q] = request[q]
      BY <1>2
    <3> QED BY <1>1, <1>7, <2>1, <3>1 DEF PageInv, FailureShows
  <2> QED BY <1>2, <2>3, <2>4, <2>5, <2>6 DEF PageInv
<1> QED BY <1>8, <1>9

\* The answer of the load that is not overtaken ends all loading.
LEMMA LastLoad ==
  ASSUME PageInv, NEW r \in Request, request[r].current, Taken(r)
  PROVE  /\ \A q \in Request : ~request'[q].current
         /\ request[r].kind = "refresh" => ~loading /\ refreshing
         /\ request[r].kind # "refresh" => loading /\ ~refreshing
         /\ ~error
         /\ request[r].kind \in LoadKind
         /\ ResetUnderWay <=> request[r].kind = "reset"
         /\ \A q \in Request : request'[q].kind = "refresh" =>
              q # r /\ request[q].kind = "refresh" /\ ~request[q].current
<1>1. \A q \in Request : request[q].current => q = r
  BY DEF PageInv, OneLoad
<1>2. \A q \in Request : ~request'[q].current
  BY <1>1, TakenIs
<1>3. /\ request[r].kind = "refresh" => ~loading /\ refreshing
      /\ request[r].kind # "refresh" => loading /\ ~refreshing
  BY <1>1 DEF PageInv, PageShape, FlagsSay
<1>4. ~error
  BY <1>3 DEF PageInv, FlagsSay
<1>5. request[r].kind \in LoadKind
  BY RequestIs DEF PageInv, PageShape, OneLoad
<1>6. ResetUnderWay <=> request[r].kind = "reset"
  BY <1>1 DEF ResetUnderWay
<1>7. \A q \in Request : request'[q].kind = "refresh" =>
        q # r /\ request[q].kind = "refresh" /\ ~request[q].current
  BY <1>1, TakenIs
<1> QED BY <1>2, <1>3, <1>4, <1>5, <1>6, <1>7

\* When no load goes on, the flags and what answers cover need no more.
LEMMA RestKeeps ==
  ASSUME PageInv, NEW r \in Request, request[r].current, Taken(r),
         loading' = (loading /\ request[r].kind = "refresh"),
         refreshing' = (refreshing /\ request[r].kind # "refresh"),
         error' \in BOOLEAN,
         CoordinatorOK(refresher'), refresher'.latest <= revision,
         refresher'.running <=> \E q \in Request : request'[q].kind = "refresh",
         refresher'.current = revision => received \subseteq shown'
  PROVE  PageShape' /\ OneLoad' /\ FlagsSay' /\ Covers'
<1>1. /\ request' \in [Request -> RequestRow]
      /\ \A q \in Request : request'[q].version <= revision
      /\ ready' \in BOOLEAN
      /\ OneLoad'
      /\ ~ready' <=> \E q \in Request : request'[q].kind = "mount"
  BY TakenIs
<1>2. \A q \in Request : ~request'[q].current
  BY LastLoad
<1>3. UNCHANGED <<revision, selecting, received>>
  BY DEF Taken
<1>4. loading' = FALSE /\ refreshing' = FALSE
  BY LastLoad DEF PageInv, PageShape
<1>5. PageShape'
  BY <1>1, <1>3, <1>4 DEF PageInv, PageShape
<1>6. FlagsSay'
  BY <1>1, <1>2, <1>4 DEF FlagsSay
<1>7. Covers'
  BY <1>2, <1>3 DEF Covers, AnswerCovers
<1> QED BY <1>1, <1>5, <1>6, <1>7

\* A refresh that returns, or an answer that says nothing to the coordinator.
LEMMA AnswerKeeps ==
  ASSUME PageInv, Flushed, NEW r \in Request, request[r].current, Taken(r),
         loading' = (loading /\ request[r].kind = "refresh"),
         refreshing' = (refreshing /\ request[r].kind # "refresh"),
         error' \in BOOLEAN, NEW ok \in BOOLEAN,
         refresher' = AfterAnswer(request[r], ok),
         ok => request[r].read /\ error' = error
                 /\ shown' = IF request[r].kind = "next" THEN shown ELSE request[r].seen,
         ~ok => error' = TRUE /\ shown' = shown
                  /\ failedLoad' = IF request[r].kind = "mount" THEN "reset" ELSE request[r].kind
  PROVE  PageInv'
<1>1. /\ request[r].kind \in {"mount", "reset", "next", "refresh"} /\ ~error
      /\ ResetUnderWay <=> request[r].kind = "reset"
      /\ \A q \in Request : ~request'[q].current
      /\ \A q \in Request : request'[q].kind = "refresh" =>
           q # r /\ request[q].kind = "refresh" /\ ~request[q].current
      /\ \A q \in Request : q # r => request'[q] = request[q]
      /\ request'[r].kind = "none"
  BY LastLoad, TakenIs DEF LoadKind
<1>2. /\ CoordinatorOK(refresher) /\ revision \in Nat /\ refresher.latest = revision
      /\ UNCHANGED <<revision, selecting, received>>
  BY DEF PageInv, PageShape, Flushed, Taken
<1>3. PICK s \in Refresher : s = refresher
  BY <1>2, RefresherIs
<1>4. /\ s.current \in Nat /\ s.latest \in Nat /\ s.failed \in Nat \cup {NoVersion}
      /\ s.running \in BOOLEAN /\ NoVersion \notin Nat
  BY <1>2, <1>3, RefresherIs
<1>5. CASE request[r].kind = "refresh"
  <2>1. s.running /\ s.target \in Nat /\ \A q \in Request : request[q].kind = "refresh" => q = r
    BY <1>3, <1>5, RefreshRuns
  <2>2. ~s.overtaken
    BY <1>3, <1>5 DEF PageInv, FailureShows
  <2>3. refresher' = Returns(s, ok /\ request[r].current)
    BY <1>3, <1>5 DEF AfterAnswer
  <2>4. PICK next : next = Returns(s, ok)
    OBVIOUS
  <2>5. /\ CoordinatorOK(next)
        /\ next.latest = s.latest /\ ~next.running /\ next.target = NoVersion
        /\ next.current = IF ok THEN s.target ELSE s.current
        /\ ok => next.failed = NoVersion
    BY <1>2, <1>3, <2>1, <2>2, <2>4, ReturnsKeeps
  <2>6. refresher' = next
    <3>1. (ok /\ request[r].current) = ok
      BY RequestIs DEF PageInv, PageShape
    <3> QED BY <2>3, <2>4, <3>1
  <2> HIDE <2>3, <2>4
  <2>7. \A q \in Request : request'[q].kind # "refresh"
    BY <1>1, <2>1
  <2>8. refresher'.current = revision => received \subseteq shown'
    <3>1. CASE ok
      <4>1. refresher.target = revision => received \subseteq request[r].seen
        BY <1>5, <3>1 DEF PageInv, Covers, AnswerCovers
      <4> QED BY <1>3, <1>5, <2>5, <2>6, <3>1, <4>1
    <3>2. CASE ~ok
      BY <1>3, <2>5, <2>6, <3>2 DEF PageInv, Covers
    <3> QED BY <3>1, <3>2
  <2>9. PageShape' /\ OneLoad' /\ FlagsSay' /\ Covers'
    BY <1>2, <1>3, <2>5, <2>6, <2>7, <2>8, RestKeeps
  <2>10. FailureShows'
    <3>1. refresher'.failed = refresher'.latest => error' /\ failedLoad' = "refresh"
      BY <1>4, <1>5, <2>5, <2>6
    <3> QED BY <2>7, <3>1 DEF FailureShows
  <2> QED BY <2>9, <2>10 DEF PageInv
<1>6. CASE request[r].kind \in {"mount", "reset"} /\ ok
  <2>1. request[r].version \in Nat /\ request[r].version <= revision
    BY RequestIs DEF PageInv, PageShape
  <2>2. PICK version \in Nat : version = request[r].version
    BY <2>1
  <2>3. refresher' = MarkCurrent(s, version)
    BY <1>3, <1>6, <2>2 DEF AfterAnswer, MarkedVersion
  <2>4. PICK next : next = MarkCurrent(s, version)
    OBVIOUS
  <2>5. /\ CoordinatorOK(next)
        /\ next.current = version /\ next.failed = NoVersion
        /\ next.running = s.running /\ next.overtaken = s.running
        /\ next.latest = IF s.latest > version THEN s.latest ELSE version
    BY <1>2, <1>3, <2>4, MarkCurrentKeeps
  <2>6. refresher' = next
    BY <2>3, <2>4
  <2> HIDE <2>3, <2>4
  <2>7. refresher'.latest = revision
    BY <1>2, <1>3, <1>4, <2>1, <2>2, <2>5, <2>6
  <2>8. refresher'.current = revision => received \subseteq shown'
    <3>1. request[r].version = revision => received \subseteq request[r].seen
      BY <1>6 DEF PageInv, Covers, AnswerCovers
    <3> QED BY <1>6, <2>2, <2>5, <2>6, <3>1
  <2>9. refresher'.running <=> \E q \in Request : request'[q].kind = "refresh"
    <3>1. \A q \in Request : request'[q].kind = "refresh" <=> request[q].kind = "refresh"
      BY <1>1, <1>6
    <3> QED BY <1>3, <2>5, <2>6, <3>1 DEF PageInv, FlagsSay
  <2>10. PageShape' /\ OneLoad' /\ FlagsSay' /\ Covers'
    BY <1>2, <2>5, <2>6, <2>7, <2>8, <2>9, RestKeeps
  <2>11. FailureShows'
    <3>1. refresher'.failed # refresher'.latest
      BY <1>2, <1>4, <2>5, <2>6, <2>7
    <3>2. \A q \in Request : request'[q].kind = "refresh" => refresher'.overtaken
      BY <2>5, <2>6, <2>9
    <3> QED BY <1>1, <3>1, <3>2 DEF FailureShows
  <2> QED BY <2>10, <2>11 DEF PageInv
<1>7. CASE request[r].kind # "refresh" /\ ~(request[r].kind \in {"mount", "reset"} /\ ok)
  <2>1. refresher' = refresher
    BY <1>7 DEF AfterAnswer
  <2>2. \A q \in Request : request'[q].kind = "refresh" <=> request[q].kind = "refresh"
    BY <1>1, <1>7
  <2>3. refresher'.running <=> \E q \in Request : request'[q].kind = "refresh"
    BY <2>1, <2>2 DEF PageInv, FlagsSay
  <2>4. refresher'.current = revision => received \subseteq shown'
    <3>1. shown' = shown
      BY <1>1, <1>7
    <3> QED BY <2>1, <3>1 DEF PageInv, Covers
  <2>5. PageShape' /\ OneLoad' /\ FlagsSay' /\ Covers'
    BY <1>2, <2>1, <2>3, <2>4, RestKeeps
  <2>6. FailureShows'
    <3>1. CASE request[r].kind = "next"
      <4>1. ~ResetUnderWay
        BY <1>1, <3>1
      <4>2. refresher'.failed # refresher'.latest
        BY <1>1, <2>1, <4>1 DEF PageInv, FailureShows
      <4>3. \A q \in Request : request'[q].kind = "refresh" => refresher'.overtaken
        BY <1>1, <2>1, <4>1 DEF PageInv, FailureShows
      <4> QED BY <1>1, <4>2, <4>3 DEF FailureShows
    <3>2. CASE request[r].kind \in {"mount", "reset"}
      <4>1. error' /\ failedLoad' = "reset"
        BY <1>7, <3>2
      <4> QED BY <1>1, <4>1 DEF FailureShows
    <3> QED BY <1>1, <1>7, <3>1, <3>2
  <2> QED BY <2>5, <2>6 DEF PageInv
<1> QED BY <1>1, <1>5, <1>6, <1>7

LEMMA LoadedKeeps == ASSUME PageInv, NEW r \in Request, Loaded(r) PROVE PageInv'
<1>1. /\ Flushed /\ request[r].current /\ request[r].read /\ Taken(r)
      /\ loading' = (loading /\ request[r].kind = "refresh")
      /\ refreshing' = (refreshing /\ request[r].kind # "refresh")
      /\ refresher' = AfterAnswer(request[r], TRUE) /\ error' = error
      /\ shown' = IF request[r].kind = "next" THEN shown ELSE request[r].seen
  BY DEF Loaded, Taken, feedVars, browserVars
<1>2. error' \in BOOLEAN
  BY <1>1 DEF PageInv, PageShape
<1> QED BY <1>1, <1>2, AnswerKeeps

LEMMA LoadFailsKeeps == ASSUME PageInv, NEW r \in Request, LoadFails(r) PROVE PageInv'
<1>1. /\ Flushed /\ request[r].current /\ Taken(r)
      /\ loading' = (loading /\ request[r].kind = "refresh")
      /\ refreshing' = (refreshing /\ request[r].kind # "refresh")
      /\ refresher' = AfterAnswer(request[r], FALSE) /\ error' = TRUE
      /\ failedLoad' = IF request[r].kind = "mount" THEN "reset" ELSE request[r].kind
      /\ shown' = shown
  BY DEF LoadFails, Taken, browserVars
<1> QED BY <1>1, AnswerKeeps

\* Multi-select pauses; the coordinator hears of it by its effect.
LEMMA SelectKeeps == ASSUME PageInv, Select \/ LeaveSelection PROVE PageInv'
<1>1. /\ UNCHANGED <<refresher, revision, request, shown, loading, refreshing, error, failedLoad,
                     ready, received>>
      /\ selecting' \in BOOLEAN
  BY DEF Select, LeaveSelection, feedVars, browserVars
<1> QED BY <1>1 DEF PageInv, PageShape, OneLoad, FlagsSay, Covers, AnswerCovers, FailureShows,
                    ResetUnderWay

-----------------------------------------------------------------------------
LEMMA PageInit == ASSUME Init PROVE PageInv
<1>1. PICK m \in Request : request = [q \in Request |-> IF q = m THEN NewRequest("mount")
                                                        ELSE NoRequest]
  BY DEF Init
<1>2. /\ revision = 0 /\ shown = {} /\ received = {} /\ loading = TRUE /\ refreshing = FALSE
      /\ error = FALSE /\ ready = FALSE /\ selecting = FALSE /\ refresher = NewRefresher(0)
  BY DEF Init, FeedInit
<1>3. /\ refresher \in Refresher /\ refresher.current = 0 /\ refresher.latest = 0
      /\ refresher.failed = NoVersion /\ refresher.target = NoVersion
      /\ refresher.running = FALSE /\ refresher.overtaken = FALSE
  BY <1>2 DEF NewRefresher, Refresher
<1>4. CoordinatorOK(refresher)
  BY <1>3 DEF CoordinatorOK, Wanted
<1>5. /\ request[m] = NewRequest("mount") /\ request[m].kind = "mount"
      /\ request[m].current = TRUE /\ request[m].version = 0 /\ request[m].read = FALSE
      /\ request[m] \in RequestRow
  BY <1>1, <1>2 DEF NewRequest, RequestRow, LoadKind
<1>6. \A q \in Request : q # m => /\ request[q] \in RequestRow
                                  /\ request[q].kind = "none" /\ request[q].current = FALSE
                                  /\ request[q].version = 0 /\ request[q].read = FALSE
  BY <1>1, NoRequestIs
<1>7. PageShape
  <2>1. request \in [Request -> RequestRow]
    BY <1>1, <1>5, <1>6
  <2>2. \A q \in Request : request[q].version <= revision
    BY <1>2, <1>5, <1>6
  <2>3. revision \in Nat /\ refresher.latest <= revision
    BY <1>2, <1>3
  <2> QED BY <1>2, <1>4, <2>1, <2>2, <2>3 DEF PageShape
<1>8. OneLoad
  BY <1>5, <1>6 DEF OneLoad
<1>9. FlagsSay
  BY <1>2, <1>3, <1>5, <1>6 DEF FlagsSay
<1>10. Covers
  BY <1>2, <1>5, <1>6 DEF Covers, AnswerCovers
<1>11. FailureShows
  BY <1>3, <1>5, <1>6, VersionAssumption DEF FailureShows, VersionAssumption
<1> QED BY <1>7, <1>8, <1>9, <1>10, <1>11 DEF PageInv

\* A step of the page is a step of the feed, or leaves all but the count of
\* troubles alone.
LEMMA PageStepsFeed ==
  ASSUME [Next]_vars
  PROVE  \/ [FeedNext]_feedVars
         \/ Troubled /\ UNCHANGED <<tableVars, streamVars, browserVars>>
<1>1. CASE FeedStep \/ \E e \in Event : ReceiveEvent(e)
  BY <1>1 DEF FeedStep, ReceiveEvent, FeedNext
<1>2. CASE EffectRuns \/ \E r \in Request : RefreshTimer(r) \/ Reads(r)
  BY <1>2 DEF EffectRuns, RefreshTimer, Reads
<1>3. CASE AnswerStep
  BY <1>3 DEF AnswerStep, Loaded, LoadFails, AnsweredLate
<1>4. CASE OperatorStep
  BY <1>4 DEF OperatorStep, TabBecomesVisible, Select, LeaveSelection, Search, LoadNext, RetryRefresh
<1>5. CASE UNCHANGED vars
  BY <1>5 DEF vars
<1> QED BY <1>1, <1>2, <1>3, <1>4, <1>5 DEF Next

LEMMA FeedUnderPage == ASSUME IInv, [Next]_vars PROVE IInv'
<1>1. CASE [FeedNext]_feedVars
  BY <1>1, NextInv
<1>2. CASE Troubled /\ UNCHANGED <<tableVars, streamVars, browserVars>>
  <2>1. trouble' \in 0..MaxTrouble
    BY <1>2, FeedAssumption DEF Troubled, IInv, FeedTypeOK, FeedAssumption
  <2> QED BY <1>2, <2>1 DEF tableVars, streamVars, browserVars, IInv, FeedTypeOK, RowsDistinct,
                 PublishedDistinct, RequestFollows, StreamCovers, NoGap, Visible, After
<1> QED BY <1>1, <1>2, PageStepsFeed

LEMMA PageNext == ASSUME PageInv, FeedTypeOK, [Next]_vars PROVE PageInv'
<1>1. CASE FeedStep
  BY <1>1, FeedStepTells, PageUntouched DEF FeedStep, pageVars, pageParts
<1>2. ASSUME NEW e \in Event, ReceiveEvent(e) PROVE PageInv'
  BY <1>2, NewVersionKeeps DEF ReceiveEvent
<1>3. CASE EffectRuns
  BY <1>3, EffectKeeps
<1>4. ASSUME NEW r \in Request, RefreshTimer(r) \/ Reads(r) PROVE PageInv'
  BY <1>4, RefreshStepKeeps, ReadsKeeps
<1>5. CASE AnswerStep
  BY <1>5, LoadedKeeps, LoadFailsKeeps, AnsweredLateKeeps DEF AnswerStep
<1>6. CASE OperatorStep
  <2>1. CASE TabBecomesVisible
    BY <2>1, NewVersionKeeps DEF TabBecomesVisible
  <2>2. CASE Select \/ LeaveSelection
    BY <2>2, SelectKeeps
  <2>3. ASSUME NEW r \in Request, Search(r) \/ LoadNext(r) \/ RetryRefresh(r) PROVE PageInv'
    BY <2>3, SearchKeeps, LoadNextKeeps, RefreshStepKeeps
  <2> QED BY <1>6, <2>1, <2>2, <2>3 DEF OperatorStep
<1>7. CASE UNCHANGED vars
  BY <1>7, PageUntouched DEF vars, feedVars, browserVars, pageVars, pageParts
<1> QED BY <1>1, <1>2, <1>3, <1>4, <1>5, <1>6, <1>7 DEF Next

-----------------------------------------------------------------------------
LEMMA LiveInv == Spec => [](IInv /\ PageInv)
<1>1. Init => IInv /\ PageInv
  BY InitInv, PageInit DEF Init
<1>2. IInv /\ PageInv /\ [Next]_vars => (IInv /\ PageInv)'
  BY FeedUnderPage, PageNext DEF IInv
<1> QED BY <1>1, <1>2, PTL DEF Spec

LEMMA QuietIsCurrent == ASSUME PageInv PROVE QuietPageIsCurrent
<1> SUFFICES ASSUME Quiet, ~error PROVE received \subseteq shown
  BY DEF QuietPageIsCurrent
<1>1. /\ Flushed /\ ~selecting /\ ~refresher.running /\ ~refresher.timer
      /\ \A r \in Request : request[r].kind = "none"
  BY DEF Quiet
<1>2. \A r \in Request : ~request[r].current
  BY <1>1 DEF PageInv, OneLoad
<1>3. ~loading /\ ~refreshing /\ ready
  BY <1>1, <1>2 DEF PageInv, FlagsSay
<1>4. ~Paused
  BY <1>1, <1>3 DEF Paused
<1>5. ~refresher.paused /\ refresher.latest = revision
  BY <1>1, <1>4 DEF Flushed
<1>6. ~Wanted(refresher)
  BY <1>1, <1>5 DEF PageInv, PageShape, CoordinatorOK
<1>7. refresher.failed # refresher.latest
  BY <1>2 DEF PageInv, FailureShows, ResetUnderWay
<1>8. refresher.current = revision
  BY <1>5, <1>6, <1>7 DEF Wanted
<1> QED BY <1>8 DEF PageInv, Covers

LEMMA RestIsCaughtUp == ASSUME IInv, PageInv PROVE NothingLeftBehind
<1> SUFFICES ASSUME Quiet, ~error, phase = "wait", pending = {}, cursor = lastPub, Unpublished = {},
                    NEW e \in Event, Visible(e), published[e] > joined
             PROVE  e \in shown
  BY DEF NothingLeftBehind, StreamAtRest
<1>1. lastPub \in Nat /\ published[e] \in 0..lastPub /\ joined \in 0..lastPub
  BY DEF IInv, FeedTypeOK
<1>2. e \in received
  BY <1>1 DEF IInv, StreamCovers
<1> QED BY <1>2, QuietIsCurrent DEF QuietPageIsCurrent

\* A page at rest without an error message shows every change the feed told
\* the browser of: no invalidation is forgotten between overlapping loads,
\* failed refreshes and overtaken answers.
THEOREM QuietPagesAreCurrent == Spec => []QuietPageIsCurrent
<1>1. PageInv => QuietPageIsCurrent
  BY QuietIsCurrent
<1> QED BY <1>1, LiveInv, PTL

\* From the table to the page: when the stream, the coordinator and the page
\* have nothing left to do, the page shows every change committed since the
\* browser joined the feed.
THEOREM NothingStaysBehind == Spec => []NothingLeftBehind
<1>1. IInv /\ PageInv => NothingLeftBehind
  BY RestIsCaughtUp
<1> QED BY <1>1, LiveInv, PTL

-----------------------------------------------------------------------------
(***************************************************************************)
(* Proofs about Gallery, for any works, contexts, searches and numbers of  *)
(* requests. One request of the list and one projection of the selection   *)
(* at most are not superseded; the first is for the search the list will   *)
(* show, and what the second, the selection and the commands carry is      *)
(* right but for the works that changed since.                             *)
(***************************************************************************)

(* A filter and its opposite *)

LEMMA OppositesDivide ==
  ASSUME NEW d, d.flag \in [Flag -> BOOLEAN], NEW f, IsFilter(f), HasOpposite(f)
  PROVE  FilterHolds(d, f) # FilterHolds(d, Opposite(f))
<1>1. CASE f.type = "Text"
  <2>1. f \in [type : {"Text"}, field : Column \cup {"Any", "TagName"},
               operator : Match \cup {"Equals", "Excludes"}, value : Word]
    BY <1>1 DEF IsFilter, Identity
  <2>2. PICK g : g = Opposite(f)
    OBVIOUS
  <2>3. g.type = "Text" /\ g.field = f.field /\ g.value = f.value
        /\ g.operator = IF f.operator = "Contains" THEN "Excludes" ELSE "Contains"
    BY <1>1, <2>1, <2>2 DEF Opposite
  <2>4. f.operator \in {"Contains", "Excludes"}
    BY <1>1 DEF HasOpposite
  <2>5. \A text : TextMatches(text, f.operator, f.value) <=> TextMatches(text, g.operator, g.value)
    BY <2>3, <2>4 DEF TextMatches
  <2>6. TextFound(d, f) <=> TextFound(d, g)
    BY <2>3, <2>5 DEF TextFound
  <2>7. TextFilter(d, f) # TextFilter(d, g)
    BY <2>3, <2>4, <2>6 DEF TextFilter, TextFound
  <2>8. FilterHolds(d, f) = TextFilter(d, f) /\ FilterHolds(d, g) = TextFilter(d, g)
    BY <1>1, <2>3 DEF FilterHolds, Identity
  <2> QED BY <2>2, <2>7, <2>8
<1>2. CASE f.type = "Tags"
  <2>1. f \in [type : {"Tags"}, operator : {"Any", "All", "ExcludeAny", "NotAll", "ExactSet"},
               names : SUBSET Word, scope : {"Original", "OriginalAndTranslation"}]
    BY <1>2 DEF IsFilter, Identity
  <2>2. PICK g : g = Opposite(f)
    OBVIOUS
  <2>3. g.type = "Tags" /\ g.names = f.names /\ g.scope = f.scope
        /\ g.operator = CASE f.operator = "Any" -> "ExcludeAny" [] f.operator = "ExcludeAny" -> "Any"
                          [] f.operator = "All" -> "NotAll" [] f.operator = "NotAll" -> "All"
    BY <1>2, <2>1, <2>2 DEF Opposite
  <2>4. f.operator \in {"Any", "All", "ExcludeAny", "NotAll"}
    BY <1>2, <2>1 DEF HasOpposite
  <2>5. \A names : /\ HasAny(d, f, names) <=> HasAny(d, g, names)
                   /\ LacksOne(d, f, names) <=> LacksOne(d, g, names)
    BY <2>3 DEF HasAny, LacksOne
  <2>6. TagFilter(d, f) # TagFilter(d, g)
    BY <2>3, <2>4, <2>5 DEF TagFilter, HasAny, LacksOne
  <2>7. FilterHolds(d, f) = TagFilter(d, f) /\ FilterHolds(d, g) = TagFilter(d, g)
    BY <1>2, <2>3 DEF FilterHolds, Identity
  <2> QED BY <2>2, <2>6, <2>7
<1>3. CASE f.type = "Category"
  <2>1. f \in [type : {"Category"}, field : Category, include : SUBSET Word, exclude : SUBSET Word]
    BY <1>3 DEF IsFilter, Identity
  <2>2. PICK g : g = Opposite(f)
    OBVIOUS
  <2>3. g.type = "Category" /\ g.field = f.field /\ g.include = f.exclude /\ g.exclude = f.include
    BY <1>3, <2>1, <2>2 DEF Opposite
  <2>4. (Normalized(f.include) = {}) # (Normalized(f.exclude) = {})
    BY <1>3 DEF HasOpposite
  <2>5. CategoryFilter(d, f) # CategoryFilter(d, g)
    BY <2>3, <2>4 DEF CategoryFilter
  <2>6. FilterHolds(d, f) = CategoryFilter(d, f) /\ FilterHolds(d, g) = CategoryFilter(d, g)
    BY <1>3, <2>3 DEF FilterHolds, Identity
  <2> QED BY <2>2, <2>5, <2>6
<1>4. CASE f.type = "Boolean"
  <2>1. f \in [type : {"Boolean"}, field : Flag \cup {"BookmarkedByCurrentAccount"}, value : BOOLEAN]
    BY <1>4 DEF IsFilter, Identity
  <2>2. PICK g : g = Opposite(f)
    OBVIOUS
  <2>3. g.type = "Boolean" /\ g.field = f.field /\ g.value = ~f.value
    BY <1>4, <2>1, <2>2 DEF Opposite
  <2>4. FlagHolds(d, f.field) \in BOOLEAN
    BY <2>1 DEF FlagHolds, BookmarkedByViewer
  <2>5. BooleanFilter(d, f) # BooleanFilter(d, g)
    BY <2>1, <2>3, <2>4 DEF BooleanFilter
  <2>6. FilterHolds(d, f) = BooleanFilter(d, f) /\ FilterHolds(d, g) = BooleanFilter(d, g)
    BY <1>4, <2>3 DEF FilterHolds, Identity
  <2> QED BY <2>2, <2>5, <2>6
<1> QED BY <1>1, <1>2, <1>3, <1>4 DEF HasOpposite

-----------------------------------------------------------------------------
(* The records of the model *)

ListShape(l) ==
  DOMAIN l = {"items", "cursor", "applied", "asked", "error", "returning", "moved"}
RequestShape(r) ==
  DOMAIN r = {"kind", "search", "cursor", "only", "depth", "got", "stage", "moved", "current"}

\* What a list's request is for decides which search the list will be of.
Awaits(r, l) ==
  /\ r.kind \in {"reset", "next", "refresh", "reload"}
  /\ r.kind \in {"reset", "refresh"} => r.search = l.asked
  /\ r.kind \in {"next", "reload"} => l.asked = l.applied
KnownSearches == Opening \cup Searches

\* One request at most is not superseded, and without one the list is settled.
ListInv ==
  /\ ListShape(list) /\ \A r \in requests : RequestShape(r)
  /\ \A r \in requests : r.current => Awaits(r, list)
  /\ \A r, q \in requests : r.current /\ q.current => r = q
  /\ (\A r \in requests : ~r.current) => list.applied = list.asked
  /\ {list.applied, list.asked} \subseteq KnownSearches
  /\ \A r \in requests : r.search \in KnownSearches

LEMMA SupersededRequests ==
  ASSUME \A r \in requests : RequestShape(r)
  PROVE  \A r \in Superseded(requests) :
           RequestShape(r) /\ ~r.current /\ \E q \in requests : r.search = q.search
<1> SUFFICES ASSUME NEW q \in requests
             PROVE  /\ RequestShape([q EXCEPT !.current = FALSE])
                    /\ ~[q EXCEPT !.current = FALSE].current
                    /\ [q EXCEPT !.current = FALSE].search = q.search
  BY DEF Superseded
<1> QED BY DEF RequestShape

LEMMA SearchRequestIs ==
  ASSUME NEW kind, NEW search
  PROVE  /\ RequestShape(SearchRequest(kind, search)) /\ SearchRequest(kind, search).current
         /\ SearchRequest(kind, search).kind = kind /\ SearchRequest(kind, search).search = search
  BY DEF SearchRequest, RequestShape

\* Whatever was asked for is superseded, and one request takes its place.
LEMMA NewRequestKeeps ==
  ASSUME ListInv, NEW new, RequestShape(new), new.current, new.search \in KnownSearches,
         requests' \in {Superseded(requests) \cup {new}},
         ListShape(list'), list'.applied = list.applied, list'.asked \in KnownSearches,
         Awaits(new, list')
  PROVE  ListInv'
<1>1. \A r \in Superseded(requests) :
        RequestShape(r) /\ ~r.current /\ \E q \in requests : r.search = q.search
  BY SupersededRequests DEF ListInv
<1>2. \A r \in Superseded(requests) : r.search \in KnownSearches
  BY <1>1 DEF ListInv
<1> QED BY <1>1, <1>2 DEF ListInv, Awaits, KnownSearches

LEMMA NoRequestKeeps ==
  ASSUME ListInv, requests' = Superseded(requests),
         ListShape(list'), list'.applied = list.applied, list'.asked = list.applied
  PROVE  ListInv'
<1>1. \A r \in Superseded(requests) :
        RequestShape(r) /\ ~r.current /\ \E q \in requests : r.search = q.search
  BY SupersededRequests DEF ListInv
<1>2. \A r \in Superseded(requests) : r.search \in KnownSearches
  BY <1>1 DEF ListInv
<1> QED BY <1>1, <1>2 DEF ListInv, KnownSearches

LEMMA ResetListKeeps ==
  ASSUME ListInv, NEW search \in KnownSearches, ResetList(search)
  PROVE  ListInv'
<1>1. PICK new : new = SearchRequest("reset", search)
  OBVIOUS
<1>2. RequestShape(new) /\ new.current /\ new.kind = "reset" /\ new.search = search
  BY <1>1, SearchRequestIs
<1>3. list' = [list EXCEPT !.error = FALSE, !.asked = search]
      /\ requests' = Superseded(requests) \cup {new}
  BY <1>1 DEF ResetList
<1>4. ListShape(list') /\ list'.applied = list.applied /\ list'.asked = search
  BY <1>3 DEF ListInv, ListShape
<1> QED BY <1>2, <1>3, <1>4, NewRequestKeeps DEF Awaits

LEMMA DeepIs ==
  RequestShape(Deep) /\ Deep.current /\ Deep.kind = "refresh" /\ Deep.search = list.applied
<1>1. PICK new : new = SearchRequest("refresh", list.applied)
  OBVIOUS
<1>2. RequestShape(new) /\ new.current /\ new.kind = "refresh" /\ new.search = list.applied
  BY <1>1, SearchRequestIs
<1>3. PICK depth : Deep = [new EXCEPT !.depth = depth]
  BY <1>1 DEF Deep
<1> QED BY <1>2, <1>3 DEF RequestShape

LEMMA StartRefreshKeeps == ASSUME ListInv, StartRefresh PROVE ListInv'
<1>1. PICK new : new = Deep
  OBVIOUS
<1>2. RequestShape(new) /\ new.current /\ new.kind = "refresh" /\ new.search = list.applied
  BY <1>1, DeepIs
<1>3. list' = [list EXCEPT !.error = FALSE, !.asked = list.applied]
      /\ requests' = Superseded(requests) \cup {new}
  BY <1>1 DEF StartRefresh
<1>4. ListShape(list') /\ list'.applied = list.applied /\ list'.asked = list.applied
  BY <1>3 DEF ListInv, ListShape
<1>5. list.applied \in KnownSearches
  BY DEF ListInv
<1> QED BY <1>2, <1>3, <1>4, <1>5, NewRequestKeeps DEF Awaits

LEMMA ReturnKeeps == ASSUME ListInv, Return PROVE ListInv'
<1>1. list' = [list EXCEPT !.error = FALSE, !.asked = list.applied, !.returning = ~OnTrashPage]
  BY DEF Return
<1>2. ListShape(list') /\ list'.applied = list.applied /\ list'.asked = list.applied
  BY <1>1 DEF ListInv, ListShape
<1>3. CASE OnTrashPage
  <2>1. PICK new : new = Deep
    OBVIOUS
  <2>2. RequestShape(new) /\ new.current /\ new.kind = "refresh" /\ new.search = list.applied
    BY <2>1, DeepIs
  <2>3. requests' = Superseded(requests) \cup {new}
    BY <1>3, <2>1 DEF Return
  <2>4. list.applied \in KnownSearches
    BY DEF ListInv
  <2> QED BY <1>2, <2>2, <2>3, <2>4, NewRequestKeeps DEF Awaits
<1>4. CASE ~OnTrashPage
  <2>1. requests' = Superseded(requests)
    BY <1>4 DEF Return
  <2> QED BY <1>2, <2>1, NoRequestKeeps
<1> QED BY <1>3, <1>4

LEMMA ReloadKeeps == ASSUME ListInv, Reload PROVE ListInv'
<1>1. PICK old : old = SearchRequest("reload", list.applied)
  OBVIOUS
<1>2. PICK new : new = [old EXCEPT !.only = Shown, !.depth = Len(list.items)]
  OBVIOUS
<1>3. RequestShape(new) /\ new.current /\ new.kind = "reload" /\ new.search = list.applied
  BY <1>1, <1>2, SearchRequestIs DEF RequestShape
<1>4. list' = [list EXCEPT !.returning = FALSE, !.error = FALSE, !.asked = list.applied]
      /\ requests' = Superseded(requests) \cup {new}
  BY <1>1, <1>2 DEF Reload
<1>5. ListShape(list') /\ list'.applied = list.applied /\ list'.asked = list.applied
  BY <1>4 DEF ListInv, ListShape
<1>6. list.applied \in KnownSearches
  BY DEF ListInv
<1> QED BY <1>3, <1>4, <1>5, <1>6, NewRequestKeeps DEF Awaits

LEMMA LoadMoreKeeps == ASSUME ListInv, LoadMore PROVE ListInv'
<1>1. PICK old : old = SearchRequest("next", list.applied)
  OBVIOUS
<1>2. PICK new : new = [old EXCEPT !.cursor = list.cursor]
  OBVIOUS
<1>3. RequestShape(new) /\ new.current /\ new.kind = "next" /\ new.search = list.applied
  BY <1>1, <1>2, SearchRequestIs DEF RequestShape
<1>4. requests' = requests \cup {new} /\ list' = list
  BY <1>1, <1>2 DEF LoadMore
<1>5. \A r \in requests : ~r.current
  BY DEF LoadMore, Loading, Refreshing, ListInv, Awaits
<1>6. list.applied = list.asked
  BY <1>5 DEF ListInv
<1> QED BY <1>3, <1>4, <1>5, <1>6 DEF ListInv, Awaits

LEMMA ServePageKeeps == ASSUME ListInv, NEW r \in requests, ServePage(r) PROVE ListInv'
<1> DEFINE page == PageOf(r.search, r.cursor, r.only,
                          IF r.kind = "reload" THEN r.depth ELSE Limit)
           got == r.got \o page.items
           goesOn == r.kind = "refresh" /\ Len(got) < r.depth /\ page.cursor # None
           moved == IF r.got = <<>> THEN {} ELSE r.moved
           stage == IF goesOn THEN "asked" ELSE "answered"
           new == [r EXCEPT !.got = got, !.cursor = page.cursor, !.moved = moved, !.stage = stage]
<1>1. requests' = (requests \ {r}) \cup {new} /\ list' = list
  BY DEF ServePage
<1> HIDE DEF page, got, goesOn, moved, stage
<1>2. RequestShape(new) /\ new.current = r.current /\ new.kind = r.kind /\ new.search = r.search
  BY DEF ListInv, RequestShape
<1> HIDE DEF new
<1> QED BY <1>1, <1>2 DEF ListInv, Awaits

LEMMA ReceiveKeeps == ASSUME ListInv, NEW r \in requests, Receive(r) PROVE ListInv'
<1>1. requests' = requests \ {r}
  BY DEF Receive
<1>2. CASE ~r.current
  BY <1>1, <1>2 DEF Receive, ListInv, Awaits
<1>3. CASE r.current
  <2>1. Awaits(r, list) /\ \A q \in requests' : ~q.current
    BY <1>1, <1>3 DEF ListInv
  <2>2. list' = WithPage(r)
    BY <1>3 DEF Receive
  <2>3. ListShape(list') /\ list'.asked = list.asked /\ list'.applied = list.asked
    <3>1. CASE r.kind \in {"reset", "refresh"}
      <4>1. list' = [list EXCEPT !.items = r.got, !.cursor = r.cursor,
                                 !.applied = r.search, !.moved = r.moved]
        BY <2>2, <3>1 DEF WithPage
      <4> QED BY <2>1, <3>1, <4>1 DEF Awaits, ListInv, ListShape
    <3>2. CASE r.kind = "next"
      <4>1. list' = [list EXCEPT !.items = @ \o r.got, !.cursor = r.cursor]
        BY <2>2, <3>2 DEF WithPage
      <4> QED BY <2>1, <3>2, <4>1 DEF Awaits, ListInv, ListShape
    <3>3. CASE r.kind = "reload"
      <4>1. PICK items : list' = [list EXCEPT !.items = items]
        BY <2>2, <3>3 DEF WithPage
      <4> QED BY <2>1, <3>3, <4>1 DEF Awaits, ListInv, ListShape
    <3> QED BY <2>1, <3>1, <3>2, <3>3 DEF Awaits
  <2> QED BY <1>1, <2>1, <2>3 DEF ListInv
<1> QED BY <1>2, <1>3

LEMMA LosePageKeeps == ASSUME ListInv, NEW r \in requests, LosePage(r) PROVE ListInv'
<1>1. requests' = requests \ {r}
      /\ list' = IF r.current /\ r.kind # "next"
                 THEN [list EXCEPT !.error = TRUE, !.asked = list.applied] ELSE list
  BY DEF LosePage
<1>2. CASE ~r.current
  BY <1>1, <1>2 DEF ListInv, Awaits
<1>3. CASE r.current
  <2>1. Awaits(r, list) /\ \A q \in requests' : ~q.current
    BY <1>1, <1>3 DEF ListInv
  <2>2. ListShape(list') /\ list'.applied = list.applied /\ list'.asked = list.applied
    BY <1>1, <1>3, <2>1 DEF ListInv, ListShape, Awaits
  <2> QED BY <1>1, <2>1, <2>2 DEF ListInv
<1> QED BY <1>2, <1>3

LEMMA NoteChangeKeeps ==
  ASSUME ListInv, NEW works, NEW sel, NoteChange(works, sel)
  PROVE  ListInv'
<1>1. PICK items : /\ list' = [list EXCEPT !.moved = @ \cup items]
                   /\ requests' = {[r EXCEPT !.moved = @ \cup items] : r \in requests}
  BY DEF NoteChange
<1>2. ListShape(list') /\ list'.applied = list.applied /\ list'.asked = list.asked
  BY <1>1 DEF ListInv, ListShape
<1>3. ASSUME NEW r \in requests, NEW next, next = [r EXCEPT !.moved = @ \cup items]
      PROVE  /\ RequestShape(next) /\ next.current = r.current /\ next.kind = r.kind
             /\ next.search = r.search
  BY <1>3 DEF ListInv, RequestShape
<1>4. \A next \in requests' : \E r \in requests : next = [r EXCEPT !.moved = @ \cup items]
  BY <1>1
<1>5. \A r \in requests : \E next \in requests' : next = [r EXCEPT !.moved = @ \cup items]
  BY <1>1
<1>6. \A next \in requests' : next.current => Awaits(next, list')
  BY <1>2, <1>3, <1>4 DEF ListInv, Awaits
<1>7. ASSUME NEW one \in requests', NEW two \in requests', one.current, two.current
      PROVE  one = two
  <2>1. PICK r \in requests : one = [r EXCEPT !.moved = @ \cup items]
    BY <1>4
  <2>2. PICK q \in requests : two = [q EXCEPT !.moved = @ \cup items]
    BY <1>4
  <2>3. r = q
    BY <1>3, <1>7, <2>1, <2>2 DEF ListInv
  <2> QED BY <2>1, <2>2, <2>3
<1>8. (\A r \in requests' : ~r.current) => list'.applied = list'.asked
  BY <1>2, <1>3, <1>5 DEF ListInv
<1>9. \A next \in requests' : RequestShape(next) /\ next.search \in KnownSearches
  BY <1>3, <1>4 DEF ListInv
<1> QED BY <1>2, <1>6, <1>7, <1>8, <1>9 DEF ListInv

LEMMA ListStepKeeps == ASSUME ListInv, ListStep PROVE ListInv'
<1>1. ASSUME NEW s \in Searches \cup (IF list.error THEN {list.applied} ELSE {}), Reset(s)
      PROVE  ListInv'
  <2>1. s \in KnownSearches
    BY DEF KnownSearches, ListInv
  <2> QED BY <1>1, <2>1, ResetListKeeps DEF Reset
<1>2. ASSUME Refresh PROVE ListInv'
  BY <1>2, StartRefreshKeeps DEF Refresh
<1> QED BY <1>1, <1>2, LoadMoreKeeps, ReturnKeeps, ReloadKeeps, ServePageKeeps, ReceiveKeeps,
           LosePageKeeps DEF ListStep

LEMMA GalleryListKeeps == ASSUME ListInv, [GalleryNext]_galleryVars PROVE ListInv'
<1>1. ASSUME UNCHANGED <<list, requests>> PROVE ListInv'
  BY <1>1 DEF ListInv, Awaits
<1>2. ASSUME NEW m \in selection.commands, ServeCommand(m) PROVE ListInv'
  BY <1>2, NoteChangeKeeps DEF ServeCommand
<1>3. ASSUME NEW m \in selection.commands, ReceiveDone(m) PROVE ListInv'
  <2>1. list.applied \in KnownSearches
    BY DEF ListInv
  <2> QED BY <1>1, <1>3, <2>1, ResetListKeeps, StartRefreshKeeps DEF ReceiveDone
<1>4. ASSUME SelectionStep,
             ~\E m \in selection.commands : ServeCommand(m) \/ ReceiveDone(m)
      PROVE  UNCHANGED <<list, requests>>
  BY <1>4 DEF SelectionStep, Enter, Exit, Clear, Toggle, SelectAll, Invert, ServeProjection, Settle,
              LoseProjection, Trash, Command, ReceiveRefusal, LoseCommand
<1>5. ASSUME WorkStep PROVE ListInv'
  BY <1>5, NoteChangeKeeps DEF WorkStep, Collect, SaveDetail, MoveToTrash, Restore, Purge, Change
<1> QED BY <1>1, <1>2, <1>3, <1>4, <1>5, ListStepKeeps DEF GalleryNext, galleryVars

LEMMA GalleryListInit == GalleryInit => ListInv
<1> SUFFICES ASSUME GalleryInit PROVE ListInv
  OBVIOUS
<1>1. PICK s \in Opening :
        /\ list = [items |-> <<>>, cursor |-> None, applied |-> s, asked |-> s,
                   error |-> FALSE, returning |-> FALSE, moved |-> {}]
        /\ requests = {SearchRequest("reset", s)}
  BY DEF GalleryInit, Opened
<1>2. ListShape(list) /\ list.applied = s /\ list.asked = s
  BY <1>1 DEF ListShape
<1>3. PICK r : r = SearchRequest("reset", s)
  OBVIOUS
<1>4. RequestShape(r) /\ r.kind = "reset" /\ r.search = s
  BY <1>3, SearchRequestIs
<1> QED BY <1>1, <1>2, <1>3, <1>4 DEF ListInv, Awaits, KnownSearches

-----------------------------------------------------------------------------
(* What a search finds, while works change *)

\* Whether a work belongs to a context changes with the work alone.
LEMMA WorksInStays ==
  ASSUME NEW works \in SUBSET Work, \A w \in Work \ works : row'[w] = row[w],
         NEW search, search.kind \in {"artist", "tag", "series"}, NEW c, NEW w \in Work,
         c \notin Touched(works) \/ w \notin works
  PROVE  (w \in WorksIn(search, c))' <=> w \in WorksIn(search, c)
<1>1. PICK k \in {"ArtistId", "TagId", "SeriesId"} : k = KindOf(search)
  BY DEF KindOf
<1>2. CASE w \in works
  <2>1. c \notin ContextsOf(w) /\ c \notin ContextsOf(w)'
    BY <1>2 DEF Touched
  <2>2. c \notin Details(w).identity[k] /\ c \notin Details(w)'.identity[k]
    BY <2>1 DEF ContextsOf
  <2> QED BY <1>1, <2>2 DEF WorksIn
<1>3. CASE w \notin works
  <2>1. Details(w)' = Details(w) /\ (Browsable(w)' <=> Browsable(w))
    BY <1>3 DEF Details, Browsable
  <2> QED BY <1>1, <2>1 DEF WorksIn
<1> QED BY <1>2, <1>3

LEMMA FoundStays ==
  ASSUME NEW works \in SUBSET Work, \A w \in Work \ works : row'[w] = row[w],
         NEW search, search.kind \in {"work", "artist", "tag", "series", "trash"},
         NEW i, i \notin Touched(works)
  PROVE  Found(search, i)' <=> Found(search, i)
<1>1. i \notin works
  BY DEF Touched
<1>2. CASE search.kind = "work"
  <2>1. i \in Work => Details(i)' = Details(i) /\ (Browsable(i)' <=> Browsable(i))
    BY <1>1 DEF Details, Browsable
  <2> QED BY <1>2, <2>1 DEF Found
<1>3. CASE search.kind = "trash"
  <2>1. i \in Work => Details(i)' = Details(i) /\ row'[i] = row[i]
    BY <1>1 DEF Details
  <2>2. i \in Work => (InTrash(search, i)' <=> InTrash(search, i))
    BY <2>1 DEF InTrash, PurgeState
  <2> QED BY <1>3, <2>2 DEF Found
<1>4. CASE search.kind \in {"artist", "tag", "series"}
  <2>1. \A w \in Work : (w \in WorksIn(search, i))' <=> w \in WorksIn(search, i)
    BY <1>4, WorksInStays
  <2>2. WorksIn(search, i) \subseteq Work /\ WorksIn(search, i)' \subseteq Work
    BY DEF WorksIn
  <2>3. (WorksIn(search, i) # {})' <=> WorksIn(search, i) # {}
    BY <2>1, <2>2
  <2> QED BY <1>4, <2>3 DEF Found, Named
<1> QED BY <1>2, <1>3, <1>4

LEMMA SelectedStays ==
  ASSUME NEW works \in SUBSET Work, \A w \in Work \ works : row'[w] = row[w],
         NEW search, search.kind \in {"work", "artist", "tag", "series", "trash"},
         NEW choice, NEW i, i \notin Touched(works)
  PROVE  (i \in Selected(search, choice))' <=> i \in Selected(search, choice)
  BY FoundStays DEF Selected, Items, Chosen

LEMMA WorksOfStays ==
  ASSUME NEW works \in SUBSET Work, \A w \in Work \ works : row'[w] = row[w],
         NEW search, search.kind \in {"work", "artist", "tag", "series", "trash"},
         NEW choice, NEW w \in Work, w \notin Touched(works)
  PROVE  (w \in WorksOf(search, Selected(search, choice)))'
           <=> w \in WorksOf(search, Selected(search, choice))
<1>1. CASE search.kind \in {"work", "trash"}
  BY <1>1, SelectedStays DEF WorksOf
<1>2. CASE search.kind \in {"artist", "tag", "series"}
  <2>1. \A c : (w \in WorksIn(search, c))' <=> w \in WorksIn(search, c)
    <3>1. w \notin works
      BY DEF Touched
    <3> QED BY <1>2, <3>1, WorksInStays
  <2>2. ASSUME NEW c, w \in WorksIn(search, c)
        PROVE  (c \in Selected(search, choice))' <=> c \in Selected(search, choice)
    <3>1. Found(search, c) <=> c \in Context /\ Named(c, search.query)
      BY <1>2, <2>2 DEF Found
    <3>2. (w \in WorksIn(search, c))'
      BY <2>1, <2>2
    <3>3. Found(search, c)' <=> c \in Context /\ Named(c, search.query)
      BY <1>2, <3>2 DEF Found, Named
    <3> QED BY <3>1, <3>3 DEF Selected, Items, Chosen
  <2>3. w \in WorksOf(search, Selected(search, choice))
          <=> \E c \in Selected(search, choice) : w \in WorksIn(search, c)
    BY <1>2 DEF WorksOf
  <2>4. (w \in WorksOf(search, Selected(search, choice)))'
          <=> \E c : (c \in Selected(search, choice))' /\ (w \in WorksIn(search, c))'
    BY <1>2 DEF WorksOf
  <2> QED BY <2>1, <2>2, <2>3, <2>4
<1> QED BY <1>1, <1>2

-----------------------------------------------------------------------------
(* The selection's records *)

SelectionShape(sel) ==
  DOMAIN sel = {"mode", "search", "choice", "marked", "count", "blocked", "latest", "error", "busy",
                "refresh", "trashing", "counted", "changed", "projections", "commands"}
ProjectionShape(p) ==
  DOMAIN p = {"search", "choice", "visible", "previous", "stage", "marked", "counted", "count",
              "blocked", "changed", "current"}
CommandShape(m) ==
  DOMAIN m = {"command", "search", "choice", "stage", "shown", "counted", "changed", "current"}
Shapes(sel) ==
  /\ SelectionShape(sel)
  /\ \A p \in sel.projections : ProjectionShape(p)
  /\ \A m \in sel.commands : CommandShape(m)

\* What is marked of some items, and which works were counted, are what the
\* choice takes in, but for what has changed since.
MarksRight(marked, items, changed, search, choice) ==
  \A i \in items \ changed : i \in marked <=> i \in Selected(search, choice)
CountRight(counted, changed, search, choice) ==
  \A w \in Work \ changed : w \in counted <=> w \in WorksOf(search, Selected(search, choice))

\* A projection that is not superseded is the one the selection waits for; it
\* is of all the items shown, unless a refresh for them is to follow.
ProjectionInv(sel, visible, p) ==
  p.current =>
    /\ sel.mode /\ sel.latest = "pending" /\ p.search = sel.search
    /\ sel.refresh = {} => visible \subseteq p.visible
    /\ p.stage = "answered" =>
         /\ MarksRight(p.marked, p.visible, p.changed, p.search, p.choice)
         /\ CountRight(p.counted, p.changed, p.search, p.choice)
CommandInv(m) ==
  /\ m.search \in KnownSearches
  /\ m.command \in {"trash", "restore", "reschedule", "purge"}
  /\ m.command = "trash" =>
       /\ m.search.kind # "trash"
       /\ m.stage = "asked" => CountRight(m.counted, m.changed, m.search, m.choice)
SettledInv(sel, visible) ==
  /\ sel.latest \in {"ok", "pending", "failed"}
  /\ sel.mode => sel.search \in KnownSearches
  /\ sel.mode /\ sel.latest = "pending" => sel.refresh \in {{}, {visible}}
  /\ sel.mode /\ sel.latest = "ok" =>
       /\ MarksRight(sel.marked, visible, sel.changed, sel.search, sel.choice)
       /\ CountRight(sel.counted, sel.changed, sel.search, sel.choice)
  /\ sel.trashing => sel.mode /\ sel.search.kind # "trash"
OneCurrent(sel) == \A p, q \in sel.projections : p.current /\ q.current => p = q
SelInv(sel, visible) ==
  /\ Shapes(sel) /\ SettledInv(sel, visible) /\ OneCurrent(sel)
  /\ \A p \in sel.projections : ProjectionInv(sel, visible, p)
  /\ \A m \in sel.commands : CommandInv(m)
SelectionInv == SelInv(selection, Shown)

\* Without a change of a work the choices take in what they took in.
LEMMA RowsStay ==
  ASSUME row' = row, NEW sel, NEW visible, SelInv(sel, visible)
  PROVE  SelInv(sel, visible)'
<1>1. \A search, choice : Selected(search, choice)' = Selected(search, choice)
  BY DEF Selected, Items, Found, WorksIn, Browsable, Details, InTrash, PurgeState, Named
<1>2. \A search, items : WorksOf(search, items)' = WorksOf(search, items)
  BY DEF WorksOf, WorksIn, Browsable, Details
<1>3. \A marked, items, changed, search, choice :
        MarksRight(marked, items, changed, search, choice)' <=>
        MarksRight(marked, items, changed, search, choice)
  BY <1>1 DEF MarksRight
<1>4. \A counted, changed, search, choice :
        CountRight(counted, changed, search, choice)' <=> CountRight(counted, changed, search, choice)
  BY <1>1, <1>2 DEF CountRight
<1> QED BY <1>3, <1>4 DEF SelInv, SettledInv, ProjectionInv, CommandInv

-----------------------------------------------------------------------------
(* The operations of a selection *)

LEMMA SupersededProjections ==
  ASSUME NEW S, \A p \in S : ProjectionShape(p)
  PROVE  \A p \in Superseded(S) : ProjectionShape(p) /\ ~p.current
<1> SUFFICES ASSUME NEW p \in S
             PROVE  ProjectionShape([p EXCEPT !.current = FALSE]) /\ ~[p EXCEPT !.current = FALSE].current
  BY DEF Superseded
<1> QED BY DEF ProjectionShape

LEMMA SupersededCommands ==
  ASSUME NEW S, \A m \in S : CommandShape(m) /\ CommandInv(m)
  PROVE  \A m \in Superseded(S) : CommandShape(m) /\ CommandInv(m)
<1> SUFFICES ASSUME NEW m \in S, NEW next, next = [m EXCEPT !.current = FALSE]
             PROVE  CommandShape(next) /\ CommandInv(next)
  BY DEF Superseded
<1>1. /\ CommandShape(next) /\ next.search = m.search /\ next.command = m.command /\ next.stage = m.stage
      /\ next.counted = m.counted /\ next.changed = m.changed /\ next.choice = m.choice
  BY DEF CommandShape
<1> QED BY <1>1 DEF CommandInv

\* What a selection is asked in keeps its other parts.
Usable(sel) ==
  /\ Shapes(sel) /\ sel.mode /\ sel.search \in KnownSearches
  /\ sel.trashing => sel.search.kind # "trash"
  /\ \A m \in sel.commands : CommandInv(m)

LEMMA AskKeeps ==
  ASSUME NEW sel, Usable(sel), NEW choice, NEW visible, NEW previous
  PROVE  SelInv(Ask(sel, choice, visible, previous), visible)
<1> DEFINE new == [search |-> sel.search, choice |-> choice, visible |-> visible,
                   previous |-> previous, stage |-> "asked", marked |-> {},
                   counted |-> {}, count |-> 0, blocked |-> 0, changed |-> {}, current |-> TRUE]
           next == Ask(sel, choice, visible, previous)
<1>1. ProjectionShape(new) /\ new.stage = "asked" /\ new.search = sel.search /\ new.visible = visible
  BY DEF ProjectionShape
<1>2. next = [sel EXCEPT !.latest = "pending", !.error = FALSE, !.refresh = {},
                         !.projections = Superseded(@) \cup {new}]
  BY DEF Ask
<1>3. \A p \in Superseded(sel.projections) : ProjectionShape(p) /\ ~p.current
  BY SupersededProjections DEF Usable, Shapes
<1> HIDE DEF new, next
<1>4. /\ SelectionShape(next) /\ next.latest = "pending" /\ next.refresh = {} /\ next.mode = sel.mode
      /\ next.search = sel.search /\ next.trashing = sel.trashing /\ next.commands = sel.commands
      /\ next.projections = Superseded(sel.projections) \cup {new}
  BY <1>2 DEF Usable, Shapes, SelectionShape
<1>5. \A p \in next.projections : ProjectionShape(p) /\ (p.current => p = new)
  BY <1>1, <1>3, <1>4
<1>6. SelInv(next, visible)
  BY <1>1, <1>4, <1>5 DEF Usable, SelInv, Shapes, SettledInv, OneCurrent, ProjectionInv
<1> QED BY <1>6 DEF next

LEMMA NothingSelected ==
  ASSUME NEW search
  PROVE  Selected(search, Nothing) = {} /\ WorksOf(search, Selected(search, Nothing)) = {}
<1>1. Nothing.base = FALSE /\ Nothing.exceptions = {}
  BY DEF Nothing
<1>2. ASSUME NEW i PROVE ~Chosen(Nothing, i)
  <2>1. (i \in Nothing.exceptions) = FALSE
    BY <1>1
  <2> QED BY <1>1, <2>1, Zenon DEF Chosen
<1>3. Selected(search, Nothing) = {}
  BY <1>2 DEF Selected
<1> QED BY <1>3 DEF WorksOf

LEMMA ReprojectKeeps ==
  ASSUME NEW sel, Usable(sel), NEW visible, sel.latest = "ok", \A p \in sel.projections : ~p.current
  PROVE  SelInv(Reproject(sel, visible), visible)
<1>1. CASE sel.choice = Nothing
  <2>1. PICK next : next = [sel EXCEPT !.marked = {}, !.count = 0, !.blocked = 0,
                                       !.counted = {}, !.refresh = {}]
    OBVIOUS
  <2>2. /\ SelectionShape(next) /\ next.latest = "ok" /\ next.mode = sel.mode
        /\ next.search = sel.search /\ next.trashing = sel.trashing /\ next.commands = sel.commands
        /\ next.projections = sel.projections /\ next.marked = {} /\ next.counted = {}
        /\ next.choice = Nothing
    BY <1>1, <2>1 DEF Usable, Shapes, SelectionShape
  <2>3. /\ MarksRight(next.marked, visible, next.changed, next.search, next.choice)
        /\ CountRight(next.counted, next.changed, next.search, next.choice)
    BY <2>2, NothingSelected DEF MarksRight, CountRight
  <2>4. SelInv(next, visible)
    BY <2>2, <2>3 DEF Usable, SelInv, Shapes, SettledInv, OneCurrent, ProjectionInv
  <2> QED BY <1>1, <2>1, <2>4 DEF Reproject
<1>2. CASE sel.choice # Nothing
  BY <1>2, AskKeeps DEF Reproject
<1> QED BY <1>1, <1>2

LEMMA SelIsUsable ==
  ASSUME NEW sel, NEW visible, SelInv(sel, visible), sel.mode
  PROVE  Usable(sel)
  BY DEF SelInv, SettledInv, Usable

LEMMA RefreshVisibleKeeps ==
  ASSUME NEW sel, NEW old, NEW visible, SelInv(sel, old)
  PROVE  SelInv(RefreshVisible(sel, visible), visible)
<1>1. CASE ~sel.mode \/ sel.latest = "failed"
  <2>1. \A p \in sel.projections : ~p.current
    BY <1>1 DEF SelInv, ProjectionInv
  <2>2. SelInv(sel, visible)
    BY <1>1, <2>1 DEF SelInv, SettledInv, ProjectionInv
  <2> QED BY <1>1, <2>2 DEF RefreshVisible
<1>2. CASE sel.mode /\ sel.latest = "pending"
  <2>1. PICK next : next = [sel EXCEPT !.refresh = {visible}]
    OBVIOUS
  <2>2. /\ SelectionShape(next) /\ next.latest = "pending" /\ next.mode = sel.mode
        /\ next.search = sel.search /\ next.trashing = sel.trashing /\ next.commands = sel.commands
        /\ next.projections = sel.projections /\ next.refresh = {visible}
    BY <1>2, <2>1 DEF SelInv, Shapes, SelectionShape
  <2>3. SelInv(next, visible)
    BY <2>2 DEF SelInv, Shapes, SettledInv, OneCurrent, ProjectionInv
  <2> QED BY <1>2, <2>1, <2>3 DEF RefreshVisible
<1>3. CASE sel.mode /\ sel.latest = "ok"
  <2>1. \A p \in sel.projections : ~p.current
    BY <1>3 DEF SelInv, ProjectionInv
  <2> QED BY <1>3, <2>1, SelIsUsable, ReprojectKeeps DEF RefreshVisible
<1> QED BY <1>1, <1>2, <1>3 DEF SelInv, SettledInv

LEMMA SendKeeps ==
  ASSUME NEW sel, NEW visible, SelInv(sel, visible), sel.mode,
         NEW command \in {"trash", "restore", "reschedule", "purge"},
         command = "trash" => sel.latest = "ok" /\ sel.search.kind # "trash"
  PROVE  SelInv(Send(sel, command), visible)
<1> DEFINE new == [command |-> command, search |-> sel.search, choice |-> sel.choice,
                   stage |-> "asked", shown |-> sel.count, counted |-> sel.counted,
                   changed |-> sel.changed, current |-> TRUE]
           next == Send(sel, command)
<1>1. CommandShape(new) /\ CommandInv(new)
  BY DEF CommandShape, CommandInv, SelInv, SettledInv
<1>2. next = [sel EXCEPT !.trashing = FALSE, !.busy = TRUE, !.error = FALSE,
                         !.commands = Superseded(@) \cup {new}]
  BY DEF Send
<1>3. \A m \in Superseded(sel.commands) : CommandShape(m) /\ CommandInv(m)
  BY SupersededCommands DEF SelInv, Shapes
<1> HIDE DEF new, next
<1>4. /\ SelectionShape(next) /\ next.latest = sel.latest /\ next.refresh = sel.refresh
      /\ next.mode = sel.mode /\ next.search = sel.search /\ ~next.trashing /\ next.choice = sel.choice
      /\ next.marked = sel.marked /\ next.counted = sel.counted /\ next.changed = sel.changed
      /\ next.projections = sel.projections /\ next.commands = Superseded(sel.commands) \cup {new}
  BY <1>2 DEF SelInv, Shapes, SelectionShape
<1>5. SelInv(next, visible)
  BY <1>1, <1>3, <1>4 DEF SelInv, Shapes, SettledInv, OneCurrent, ProjectionInv
<1> QED BY <1>5 DEF next

LEMMA SendMoveKeeps ==
  ASSUME NEW sel, NEW visible, SelInv(sel, visible), sel.mode, sel.latest = "ok",
         sel.search.kind # "trash"
  PROVE  SelInv(SendMove(sel), visible)
<1>1. PICK next : next = [sel EXCEPT !.trashing = FALSE]
  OBVIOUS
<1>2. /\ SelectionShape(next) /\ next.latest = sel.latest /\ next.refresh = sel.refresh
      /\ next.mode = sel.mode /\ next.search = sel.search /\ ~next.trashing /\ next.choice = sel.choice
      /\ next.marked = sel.marked /\ next.counted = sel.counted /\ next.changed = sel.changed
      /\ next.projections = sel.projections /\ next.commands = sel.commands
  BY <1>1 DEF SelInv, Shapes, SelectionShape
<1>3. SelInv(next, visible)
  BY <1>2 DEF SelInv, Shapes, SettledInv, OneCurrent, ProjectionInv
<1> QED BY <1>1, <1>3, SendKeeps DEF SendMove

LEMMA OffKeeps ==
  ASSUME NEW sel, NEW visible, \A p \in sel.projections : ProjectionShape(p),
         \A m \in sel.commands : CommandShape(m) /\ CommandInv(m)
  PROVE  /\ SelInv(Off(sel), visible) /\ ~Off(sel).mode
         /\ \A p \in Off(sel).projections : ~p.current
         /\ \A m \in Off(sel).commands : CommandShape(m) /\ CommandInv(m)
<1>1. PICK next : next = Off(sel)
  OBVIOUS
<1>2. /\ SelectionShape(next) /\ ~next.mode /\ next.latest = "failed" /\ ~next.trashing
      /\ next.projections = Superseded(sel.projections)
      /\ next.commands \in {sel.commands, Superseded(sel.commands)}
  BY <1>1 DEF Off, SelectionShape
<1>3. \A p \in Superseded(sel.projections) : ProjectionShape(p) /\ ~p.current
  BY SupersededProjections
<1>4. \A m \in next.commands : CommandShape(m) /\ CommandInv(m)
  BY <1>2, SupersededCommands
<1>5. SelInv(next, visible)
  BY <1>2, <1>3, <1>4 DEF SelInv, Shapes, SettledInv, OneCurrent, ProjectionInv
<1> QED BY <1>1, <1>2, <1>3, <1>4, <1>5

-----------------------------------------------------------------------------
(* The steps of a selection *)

\* What a step makes of the selection is judged by the works it leaves alone.
LEMMA WorksStay ==
  ASSUME row' = row, NEW sel, NEW visible, SelInv(sel, visible),
         selection' = sel, Shown' = visible
  PROVE  SelectionInv'
<1>1. SelInv(sel, visible)'
  BY RowsStay
<1> QED BY <1>1 DEF SelectionInv, SelInv, Shapes, SettledInv, OneCurrent, ProjectionInv, CommandInv,
                    MarksRight, CountRight, SelectionShape, ProjectionShape, CommandShape

LEMMA ListOnlyKeeps ==
  ASSUME SelectionInv, row' = row, selection' = selection, list'.items = list.items
  PROVE  SelectionInv'
<1>1. PICK sel, visible : sel = selection /\ visible = Shown
  OBVIOUS
<1>2. SelInv(sel, visible)
  BY <1>1 DEF SelectionInv
<1>3. Shown' = visible
  BY <1>1 DEF Shown
<1> QED BY <1>1, <1>2, <1>3, WorksStay

LEMMA ListRequestsKeep ==
  ASSUME ListInv, SelectionInv,
         \/ \E search : Reset(search)
         \/ LoadMore \/ Refresh \/ Reload
         \/ \E r \in requests : ServePage(r)
  PROVE  SelectionInv'
<1>1. row' = row /\ selection' = selection
  BY DEF Reset, LoadMore, Refresh, Reload, ServePage
<1>2. list'.items = list.items
  <2>1. CASE \E search : Reset(search)
    BY <2>1 DEF Reset, ResetList, ListInv, ListShape
  <2>2. CASE LoadMore \/ \E r \in requests : ServePage(r)
    BY <2>2 DEF LoadMore, ServePage
  <2>3. CASE Refresh
    BY <2>3 DEF Refresh, StartRefresh, ListInv, ListShape
  <2>4. CASE Reload
    BY <2>4 DEF Reload, ListInv, ListShape
  <2> QED BY <2>1, <2>2, <2>3, <2>4
<1> QED BY <1>1, <1>2, ListOnlyKeeps

LEMMA EndedKeeps ==
  ASSUME SelectionInv, NEW r
  PROVE  SelInv(Ended(r), Shown)
<1>1. PICK sel, visible : sel = selection /\ visible = Shown
  OBVIOUS
<1>2. SelInv(sel, visible)
  BY <1>1 DEF SelectionInv
<1>3. PICK busy : Ended(r) \in {sel, [sel EXCEPT !.busy = busy]}
  BY <1>1 DEF Ended
<1>4. PICK next : next = [sel EXCEPT !.busy = busy]
  OBVIOUS
<1>5. /\ SelectionShape(next) /\ next.latest = sel.latest /\ next.refresh = sel.refresh
      /\ next.mode = sel.mode /\ next.search = sel.search /\ next.trashing = sel.trashing
      /\ next.choice = sel.choice /\ next.marked = sel.marked /\ next.counted = sel.counted
      /\ next.changed = sel.changed /\ next.projections = sel.projections
      /\ next.commands = sel.commands
  BY <1>2, <1>4 DEF SelInv, Shapes, SelectionShape
<1>6. SelInv(next, visible)
  BY <1>2, <1>5 DEF SelInv, Shapes, SettledInv, OneCurrent, ProjectionInv
<1> QED BY <1>1, <1>2, <1>3, <1>4, <1>6

LEMMA ReceivePageKeeps ==
  ASSUME SelectionInv, NEW r \in requests, Receive(r)
  PROVE  SelectionInv'
<1>1. row' = row
  BY DEF Receive
<1>2. CASE ~r.current
  BY <1>1, <1>2, ListOnlyKeeps DEF Receive
<1>3. CASE r.current
  <2>1. PICK sel : sel = Ended(r)
    OBVIOUS
  <2>2. PICK old : old = Shown
    OBVIOUS
  <2>3. SelInv(sel, old)
    BY <2>1, <2>2, EndedKeeps
  <2>4. PICK visible : visible = Shown'
    OBVIOUS
  <2>5. selection' = RefreshVisible(sel, visible)
    BY <1>3, <2>1, <2>4 DEF Receive, Shown
  <2>6. PICK next : next = RefreshVisible(sel, visible)
    OBVIOUS
  <2>7. SelInv(next, visible)
    BY <2>3, <2>6, RefreshVisibleKeeps
  <2> QED BY <1>1, <2>4, <2>5, <2>6, <2>7, WorksStay
<1> QED BY <1>2, <1>3

LEMMA LostPageKeeps ==
  ASSUME ListInv, SelectionInv, NEW r \in requests, LosePage(r)
  PROVE  SelectionInv'
<1>1. row' = row /\ selection' = Ended(r)
  BY DEF LosePage
<1>2. list'.items = list.items
  BY DEF LosePage, ListInv, ListShape
<1>3. PICK sel, visible : sel = Ended(r) /\ visible = Shown
  OBVIOUS
<1>4. SelInv(sel, visible)
  BY <1>3, EndedKeeps
<1>5. Shown' = visible
  BY <1>2, <1>3 DEF Shown
<1> QED BY <1>1, <1>3, <1>4, <1>5, WorksStay

LEMMA ReturnedKeeps == ASSUME ListInv, SelectionInv, Return PROVE SelectionInv'
<1>1. PICK sel, visible, off : sel = selection /\ visible = Shown /\ off = Off(selection)
  OBVIOUS
<1>2. list'.items = list.items
  BY DEF Return, ListInv, ListShape
<1>3. SelInv(sel, visible)
  BY <1>1 DEF SelectionInv
<1>4. SelInv(off, visible) /\ ~off.mode /\ \A m \in off.commands : CommandShape(m) /\ CommandInv(m)
  BY <1>1, <1>3, OffKeeps DEF SelInv, Shapes
<1>5. PICK next : next = [off EXCEPT !.latest = "ok", !.busy = FALSE, !.commands = Superseded(@)]
  OBVIOUS
<1>6. row' = row /\ selection' = next
  BY <1>1, <1>5 DEF Return
<1>7. /\ SelectionShape(next) /\ next.latest = "ok" /\ ~next.mode
      /\ next.trashing = off.trashing /\ next.projections = off.projections
      /\ next.commands = Superseded(off.commands)
  BY <1>4, <1>5 DEF SelInv, Shapes, SelectionShape
<1>8. \A m \in next.commands : CommandShape(m) /\ CommandInv(m)
  BY <1>4, <1>7, SupersededCommands
<1>9. SelInv(next, visible)
  BY <1>4, <1>7, <1>8 DEF SelInv, Shapes, SettledInv, OneCurrent, ProjectionInv
<1> QED BY <1>1, <1>2, <1>6, <1>9, WorksStay DEF Shown

\* The list stays as it was, and so do the works: what is left is the selection.
LEMMA SelectionOnlyKeeps ==
  ASSUME NEW sel, NEW visible, visible = Shown, SelInv(sel, visible),
         selection' = sel, row' = row, list' = list
  PROVE  SelectionInv'
<1>1. Shown' = visible
  BY DEF Shown
<1> QED BY <1>1, WorksStay

LEMMA EnterExitKeep ==
  ASSUME ListInv, SelectionInv, Enter \/ Exit PROVE SelectionInv'
<1>1. PICK sel, visible, off : sel = selection /\ visible = Shown /\ off = Off(selection)
  OBVIOUS
<1>2. SelInv(sel, visible)
  BY <1>1 DEF SelectionInv
<1>3. SelInv(off, visible) /\ \A p \in off.projections : ~p.current
  BY <1>1, <1>2, OffKeeps DEF SelInv, Shapes
<1>4. row' = row /\ list' = list
  BY DEF Enter, Exit
<1>5. CASE Exit
  <2>1. selection' = off
    BY <1>1, <1>5 DEF Exit
  <2> QED BY <1>1, <1>3, <1>4, <2>1, SelectionOnlyKeeps
<1>6. CASE Enter
  <2>1. PICK next : next = [off EXCEPT !.mode = TRUE, !.search = list.applied]
    OBVIOUS
  <2>2. selection' = next
    BY <1>1, <1>6, <2>1 DEF Enter
  <2>3. off.latest = "failed" /\ ~off.trashing
    BY <1>1 DEF Off
  <2>4. /\ SelectionShape(next) /\ next.latest = "failed" /\ next.search = list.applied
        /\ next.trashing = off.trashing /\ next.projections = off.projections
        /\ next.commands = off.commands
    BY <1>3, <2>1, <2>3 DEF SelInv, Shapes, SelectionShape
  <2>5. next.search \in KnownSearches
    BY <2>4 DEF ListInv
  <2>6. SelInv(next, visible)
    BY <1>3, <2>3, <2>4, <2>5 DEF SelInv, Shapes, SettledInv, OneCurrent, ProjectionInv
  <2> QED BY <1>1, <1>4, <2>2, <2>6, SelectionOnlyKeeps
<1> QED BY <1>5, <1>6

LEMMA ClearKeeps == ASSUME SelectionInv, Clear PROVE SelectionInv'
<1>1. PICK sel, visible : sel = selection /\ visible = Shown
  OBVIOUS
<1>2. SelInv(sel, visible)
  BY <1>1 DEF SelectionInv
<1>3. PICK next : next = [sel EXCEPT !.choice = Nothing, !.marked = {}, !.count = 0, !.blocked = 0,
                                     !.counted = {}, !.latest = "failed", !.error = FALSE,
                                     !.refresh = {}, !.trashing = FALSE,
                                     !.projections = Superseded(@)]
  OBVIOUS
<1>4. selection' = next /\ row' = row /\ list' = list
  BY <1>1, <1>3 DEF Clear
<1>5. /\ SelectionShape(next) /\ next.latest = "failed" /\ next.mode = sel.mode
      /\ next.search = sel.search /\ ~next.trashing /\ next.commands = sel.commands
      /\ next.projections = Superseded(sel.projections)
  BY <1>2, <1>3 DEF SelInv, Shapes, SelectionShape
<1>6. \A p \in next.projections : ProjectionShape(p) /\ ~p.current
  BY <1>2, <1>5, SupersededProjections DEF SelInv, Shapes
<1>7. SelInv(next, visible)
  BY <1>2, <1>5, <1>6 DEF SelInv, Shapes, SettledInv, OneCurrent, ProjectionInv
<1> QED BY <1>1, <1>4, <1>7, SelectionOnlyKeeps

LEMMA IntendKeeps ==
  ASSUME NEW sel, NEW visible, SelInv(sel, visible), sel.mode, NEW choice, NEW count
  PROVE  SelInv(Intend(sel, choice, visible, count), visible)
<1>1. PICK marked : marked = {i \in visible : Chosen(choice, i)}
  OBVIOUS
<1>2. PICK next : next = [sel EXCEPT !.choice = choice, !.count = count, !.marked = marked]
  OBVIOUS
<1>3. /\ SelectionShape(next) /\ next.mode = sel.mode /\ next.search = sel.search
      /\ next.trashing = sel.trashing /\ next.commands = sel.commands
      /\ next.projections = sel.projections
  BY <1>2 DEF SelInv, Shapes, SelectionShape
<1>4. Usable(next)
  BY <1>3 DEF Usable, SelInv, Shapes, SettledInv
<1>5. PICK previous : previous = Snapshot(sel)
  OBVIOUS
<1>6. Intend(sel, choice, visible, count) = Ask(next, choice, visible, previous)
  BY <1>1, <1>2, <1>5 DEF Intend
<1> QED BY <1>4, <1>6, AskKeeps

LEMMA ChoicesKeep ==
  ASSUME SelectionInv, SelectAll \/ Invert \/ \E i \in Shown : Toggle(i) PROVE SelectionInv'
<1>1. PICK sel, visible : sel = selection /\ visible = Shown
  OBVIOUS
<1>2. SelInv(sel, visible) /\ sel.mode
  BY <1>1 DEF SelectionInv, SelectAll, Invert, Toggle, Edit
<1>3. \E choice, count : selection' = Intend(sel, choice, visible, count)
  BY <1>1 DEF SelectAll, Invert, Toggle
<1>4. PICK choice, count : selection' = Intend(sel, choice, visible, count)
  BY <1>3
<1>5. PICK next : next = Intend(sel, choice, visible, count)
  OBVIOUS
<1>6. SelInv(next, visible)
  BY <1>2, <1>5, IntendKeeps
<1>7. row' = row /\ list' = list
  BY DEF SelectAll, Invert, Toggle
<1> QED BY <1>1, <1>4, <1>5, <1>6, <1>7, SelectionOnlyKeeps

LEMMA SendsKeep ==
  ASSUME SelectionInv, Trash \/ \E command \in {"restore", "reschedule", "purge"} : Command(command)
  PROVE  SelectionInv'
<1>1. PICK sel, visible : sel = selection /\ visible = Shown
  OBVIOUS
<1>2. SelInv(sel, visible) /\ sel.mode
  BY <1>1 DEF SelectionInv, Trash, Command, Edit
<1>3. row' = row /\ list' = list
  BY DEF Trash, Command
<1>4. CASE Trash
  <2>1. sel.search.kind # "trash"
    BY <1>1, <1>4 DEF Trash
  <2>2. CASE sel.latest = "failed"
    <3>1. selection' = sel
      BY <1>1, <1>4, <2>2 DEF Trash
    <3> QED BY <1>1, <1>2, <1>3, <3>1, SelectionOnlyKeeps
  <2>3. CASE sel.latest = "pending"
    <3>1. PICK next : next = [sel EXCEPT !.trashing = TRUE]
      OBVIOUS
    <3>2. selection' = next
      BY <1>1, <1>4, <2>3, <3>1 DEF Trash
    <3>3. /\ SelectionShape(next) /\ next.latest = sel.latest /\ next.refresh = sel.refresh
          /\ next.mode = sel.mode /\ next.search = sel.search /\ next.choice = sel.choice
          /\ next.marked = sel.marked /\ next.counted = sel.counted /\ next.changed = sel.changed
          /\ next.projections = sel.projections /\ next.commands = sel.commands
      BY <1>2, <3>1 DEF SelInv, Shapes, SelectionShape
    <3>4. SelInv(next, visible)
      BY <1>2, <2>1, <3>3 DEF SelInv, Shapes, SettledInv, OneCurrent, ProjectionInv
    <3> QED BY <1>1, <1>3, <3>2, <3>4, SelectionOnlyKeeps
  <2>4. CASE sel.latest = "ok"
    <3>1. PICK next : next = SendMove(sel)
      OBVIOUS
    <3>2. selection' = next
      BY <1>1, <1>4, <2>4, <3>1 DEF Trash
    <3>3. SelInv(next, visible)
      BY <1>2, <2>1, <2>4, <3>1, SendMoveKeeps
    <3> QED BY <1>1, <1>3, <3>2, <3>3, SelectionOnlyKeeps
  <2> QED BY <1>2, <2>2, <2>3, <2>4 DEF SelInv, SettledInv
<1>5. CASE \E command \in {"restore", "reschedule", "purge"} : Command(command)
  <2>1. PICK command \in {"restore", "reschedule", "purge"} : Command(command)
    BY <1>5
  <2>2. PICK next : next = Send(sel, command)
    OBVIOUS
  <2>3. selection' = next
    BY <1>1, <2>1, <2>2 DEF Command
  <2>4. SelInv(next, visible)
    BY <1>2, <2>2, SendKeeps
  <2> QED BY <1>1, <1>3, <2>3, <2>4, SelectionOnlyKeeps
<1> QED BY <1>4, <1>5

LEMMA OtherProjections ==
  ASSUME NEW sel, NEW visible, SelInv(sel, visible), NEW p \in sel.projections,
         NEW rest, rest = [sel EXCEPT !.projections = @ \ {p}]
  PROVE  /\ SelInv(rest, visible)
         /\ p.current => \A q \in rest.projections : ~q.current
<1>1. /\ SelectionShape(rest) /\ rest.latest = sel.latest /\ rest.refresh = sel.refresh
      /\ rest.mode = sel.mode /\ rest.search = sel.search /\ rest.choice = sel.choice
      /\ rest.trashing = sel.trashing
      /\ rest.marked = sel.marked /\ rest.counted = sel.counted /\ rest.changed = sel.changed
      /\ rest.projections = sel.projections \ {p} /\ rest.commands = sel.commands
  BY DEF SelInv, Shapes, SelectionShape
<1>2. SelInv(rest, visible)
  BY <1>1 DEF SelInv, Shapes, SettledInv, OneCurrent, ProjectionInv
<1>3. p.current => \A q \in rest.projections : ~q.current
  BY <1>1 DEF SelInv, OneCurrent
<1> QED BY <1>1, <1>2, <1>3

LEMMA ServeProjectionKeeps ==
  ASSUME SelectionInv, NEW p \in selection.projections, ServeProjection(p)
  PROVE  SelectionInv'
<1>1. PICK sel, visible : sel = selection /\ visible = Shown
  OBVIOUS
<1>2. SelInv(sel, visible)
  BY <1>1 DEF SelectionInv
<1>3. PICK selected, works : selected = Selected(p.search, p.choice)
                             /\ works = WorksOf(p.search, selected)
  OBVIOUS
<1>4. PICK marked : marked = selected \cap p.visible
  OBVIOUS
<1>5. PICK count, blocked : count = Cardinality(works)
                            /\ blocked = Cardinality({w \in works : row[w].purge # "none"})
  OBVIOUS
<1>6. PICK answer : answer = [p EXCEPT !.stage = "answered", !.marked = marked, !.counted = works,
                                       !.count = count, !.blocked = blocked, !.changed = {}]
  OBVIOUS
<1>7. PICK next : next = [sel EXCEPT !.projections = (@ \ {p}) \cup {answer}]
  OBVIOUS
<1>8. selection' = next /\ row' = row /\ list' = list
  BY <1>1, <1>3, <1>4, <1>5, <1>6, <1>7 DEF ServeProjection
<1>9. /\ ProjectionShape(answer) /\ answer.marked = marked /\ answer.counted = works
      /\ answer.changed = {} /\ answer.current = p.current /\ answer.search = p.search
      /\ answer.choice = p.choice /\ answer.visible = p.visible
  BY <1>1, <1>2, <1>6 DEF SelInv, Shapes, ProjectionShape
<1>10. /\ MarksRight(answer.marked, answer.visible, answer.changed, answer.search, answer.choice)
       /\ CountRight(answer.counted, answer.changed, answer.search, answer.choice)
  BY <1>3, <1>4, <1>9 DEF MarksRight, CountRight
<1>11. /\ SelectionShape(next) /\ next.latest = sel.latest /\ next.refresh = sel.refresh
       /\ next.mode = sel.mode /\ next.search = sel.search /\ next.choice = sel.choice
       /\ next.trashing = sel.trashing
       /\ next.marked = sel.marked /\ next.counted = sel.counted /\ next.changed = sel.changed
       /\ next.projections = (sel.projections \ {p}) \cup {answer} /\ next.commands = sel.commands
  BY <1>2, <1>7 DEF SelInv, Shapes, SelectionShape
<1>12. ProjectionInv(sel, visible, p)
  BY <1>1, <1>2 DEF SelInv
<1>13. ProjectionInv(next, visible, answer)
  BY <1>9, <1>10, <1>11, <1>12 DEF ProjectionInv
<1>14. OneCurrent(next)
  BY <1>1, <1>2, <1>9, <1>11 DEF SelInv, OneCurrent
<1>15. Shapes(next) /\ SettledInv(next, visible)
  BY <1>2, <1>9, <1>11 DEF SelInv, Shapes, SettledInv
<1>16. \A q \in next.projections : ProjectionInv(next, visible, q)
  BY <1>2, <1>11, <1>13 DEF SelInv, ProjectionInv
<1>17. SelInv(next, visible)
  BY <1>2, <1>11, <1>14, <1>15, <1>16 DEF SelInv
<1> QED BY <1>1, <1>8, <1>17, SelectionOnlyKeeps

LEMMA SettleKeeps ==
  ASSUME SelectionInv, NEW p \in selection.projections, Settle(p)
  PROVE  SelectionInv'
<1>1. PICK sel, visible : sel = selection /\ visible = Shown
  OBVIOUS
<1>2. SelInv(sel, visible) /\ p \in sel.projections
  BY <1>1 DEF SelectionInv
<1>3. PICK rest : rest = [sel EXCEPT !.projections = @ \ {p}]
  OBVIOUS
<1>4. SelInv(rest, visible) /\ (p.current => \A q \in rest.projections : ~q.current)
      /\ rest.mode = sel.mode /\ rest.search = sel.search /\ rest.latest = sel.latest
      /\ rest.refresh = sel.refresh /\ rest.trashing = sel.trashing
  <2>1. SelInv(rest, visible) /\ (p.current => \A q \in rest.projections : ~q.current)
    BY <1>2, <1>3, OtherProjections
  <2>2. /\ rest.mode = sel.mode /\ rest.search = sel.search /\ rest.latest = sel.latest
        /\ rest.refresh = sel.refresh /\ rest.trashing = sel.trashing
    BY <1>2, <1>3 DEF SelInv, Shapes, SelectionShape
  <2> QED BY <2>1, <2>2
<1>5. PICK settled : settled = [rest EXCEPT !.choice = p.choice, !.marked = p.marked,
                              !.count = p.count, !.blocked = p.blocked, !.counted = p.counted,
                              !.changed = p.changed, !.latest = "ok"]
  OBVIOUS
<1>6. PICK sent : sent = IF settled.trashing THEN SendMove(settled) ELSE settled
  OBVIOUS
<1>7. /\ selection' = IF ~p.current THEN rest
                      ELSE IF sent.refresh = {} THEN sent
                      ELSE Reproject(sent, UNION sent.refresh)
      /\ row' = row /\ list' = list /\ p.stage = "answered"
  BY <1>1, <1>3, <1>5, <1>6 DEF Settle
<1>8. CASE ~p.current
  <2>1. selection' = rest
    BY <1>7, <1>8
  <2> QED BY <1>1, <1>4, <1>7, <2>1, SelectionOnlyKeeps
<1>9. CASE p.current
  <2>1. ProjectionInv(sel, visible, p)
    BY <1>2 DEF SelInv
  <2>2. /\ sel.mode /\ p.search = sel.search /\ sel.latest = "pending"
        /\ sel.refresh = {} => visible \subseteq p.visible
        /\ MarksRight(p.marked, p.visible, p.changed, p.search, p.choice)
        /\ CountRight(p.counted, p.changed, p.search, p.choice)
    BY <1>7, <1>9, <2>1 DEF ProjectionInv
  <2>3. /\ SelectionShape(settled) /\ settled.latest = "ok" /\ settled.refresh = rest.refresh
        /\ settled.mode = rest.mode /\ settled.search = rest.search
        /\ settled.trashing = rest.trashing
        /\ settled.choice = p.choice /\ settled.marked = p.marked
        /\ settled.counted = p.counted /\ settled.changed = p.changed
        /\ settled.projections = rest.projections /\ settled.commands = rest.commands
    BY <1>4, <1>5 DEF SelInv, Shapes, SelectionShape
  <2>4. \A items : items \subseteq p.visible => SelInv(settled, items)
    <3>1. ASSUME NEW items, items \subseteq p.visible
          PROVE  SelInv(settled, items)
      <4>1. MarksRight(settled.marked, items, settled.changed, settled.search, settled.choice)
        BY <1>4, <2>2, <2>3, <3>1 DEF MarksRight
      <4>2. CountRight(settled.counted, settled.changed, settled.search, settled.choice)
        BY <1>4, <2>2, <2>3
      <4>3. Shapes(settled) /\ OneCurrent(settled)
            /\ \A q \in settled.projections : ProjectionInv(settled, items, q)
        BY <1>4, <1>9, <2>3 DEF SelInv, Shapes, OneCurrent, ProjectionInv
      <4>4. SettledInv(settled, items)
        BY <1>4, <2>3, <4>1, <4>2 DEF SelInv, SettledInv
      <4>5. \A m \in settled.commands : CommandInv(m)
        BY <1>4, <2>3 DEF SelInv
      <4> QED BY <4>3, <4>4, <4>5 DEF SelInv
    <3> QED BY <3>1
  <2>5. settled.trashing => settled.search.kind # "trash"
    BY <1>4, <2>3 DEF SelInv, SettledInv
  <2>6. \A items : items \subseteq p.visible => SelInv(sent, items)
    <3>1. CASE settled.trashing
      BY <1>4, <1>6, <2>2, <2>3, <2>4, <2>5, <3>1, SendMoveKeeps
    <3>2. CASE ~settled.trashing
      BY <1>6, <2>4, <3>2
    <3> QED BY <3>1, <3>2
  <2>7. /\ sent.refresh = settled.refresh /\ sent.mode = settled.mode /\ sent.latest = "ok"
        /\ sent.projections = settled.projections
    <3>1. CASE settled.trashing
      BY <1>6, <2>3, <3>1 DEF SendMove, Send, SelectionShape
    <3>2. CASE ~settled.trashing
      BY <1>6, <2>3, <3>2
    <3> QED BY <3>1, <3>2
  <2>8. CASE sent.refresh = {}
    <3>1. visible \subseteq p.visible
      BY <1>4, <2>2, <2>3, <2>7, <2>8
    <3>2. SelInv(sent, visible)
      BY <2>6, <3>1
    <3>3. selection' = sent
      BY <1>7, <1>9, <2>8
    <3> QED BY <1>1, <1>7, <3>2, <3>3, SelectionOnlyKeeps
  <2>9. CASE sent.refresh # {}
    <3>1. sel.refresh \in {{}, {visible}}
      BY <1>2, <2>2 DEF SelInv, SettledInv
    <3>2. sent.refresh = {visible}
      BY <1>4, <2>3, <2>7, <2>9, <3>1
    <3>3. PICK next : next = Reproject(sent, visible)
      OBVIOUS
    <3>4. selection' = next
      BY <1>7, <1>9, <2>9, <3>2, <3>3
    <3>5. SelInv(sent, {})
      BY <2>6
    <3>6. Usable(sent) /\ \A q \in sent.projections : ~q.current
      BY <1>4, <1>9, <2>2, <2>3, <2>7, <3>5, SelIsUsable
    <3>7. SelInv(next, visible)
      BY <2>7, <3>3, <3>6, ReprojectKeeps
    <3> QED BY <1>1, <1>7, <3>4, <3>7, SelectionOnlyKeeps
  <2> QED BY <2>8, <2>9
<1> QED BY <1>8, <1>9

LEMMA LostProjectionKeeps ==
  ASSUME SelectionInv, NEW p \in selection.projections, LoseProjection(p)
  PROVE  SelectionInv'
<1>1. PICK sel, visible : sel = selection /\ visible = Shown
  OBVIOUS
<1>2. SelInv(sel, visible) /\ p \in sel.projections
  BY <1>1 DEF SelectionInv
<1>3. PICK rest : rest = [sel EXCEPT !.projections = @ \ {p}]
  OBVIOUS
<1>4. SelInv(rest, visible) /\ (p.current => \A q \in rest.projections : ~q.current)
  BY <1>2, <1>3, OtherProjections
<1>5. PICK back : back = [rest EXCEPT !.choice = p.previous.choice, !.marked = p.previous.marked,
                         !.count = p.previous.count, !.blocked = p.previous.blocked, !.error = TRUE,
                         !.latest = "failed", !.refresh = {}, !.trashing = FALSE]
  OBVIOUS
<1>6. selection' = (IF ~p.current THEN rest ELSE back) /\ row' = row /\ list' = list
  BY <1>1, <1>3, <1>5 DEF LoseProjection
<1>7. CASE ~p.current
  <2>1. selection' = rest
    BY <1>6, <1>7
  <2> QED BY <1>1, <1>4, <1>6, <2>1, SelectionOnlyKeeps
<1>8. CASE p.current
  <2>1. /\ SelectionShape(back) /\ back.latest = "failed" /\ back.mode = rest.mode
        /\ back.search = rest.search /\ ~back.trashing
        /\ back.projections = rest.projections /\ back.commands = rest.commands
    BY <1>4, <1>5 DEF SelInv, Shapes, SelectionShape
  <2>2. SelInv(back, visible)
    BY <1>4, <1>8, <2>1 DEF SelInv, Shapes, SettledInv, OneCurrent, ProjectionInv
  <2>3. selection' = back
    BY <1>6, <1>8
  <2> QED BY <1>1, <1>6, <2>2, <2>3, SelectionOnlyKeeps
<1> QED BY <1>7, <1>8

LEMMA OtherCommands ==
  ASSUME NEW sel, NEW visible, SelInv(sel, visible), NEW m, NEW rest, NEW busy, NEW told,
         rest = [sel EXCEPT !.commands = @ \ {m}, !.busy = busy, !.error = told]
  PROVE  SelInv(rest, visible)
<1>1. /\ SelectionShape(rest) /\ rest.latest = sel.latest /\ rest.refresh = sel.refresh
      /\ rest.mode = sel.mode /\ rest.search = sel.search /\ rest.choice = sel.choice
      /\ rest.trashing = sel.trashing
      /\ rest.marked = sel.marked /\ rest.counted = sel.counted /\ rest.changed = sel.changed
      /\ rest.projections = sel.projections /\ rest.commands = sel.commands \ {m}
  BY DEF SelInv, Shapes, SelectionShape
<1> QED BY <1>1 DEF SelInv, Shapes, SettledInv, OneCurrent, ProjectionInv

LEMMA CommandWithout ==
  ASSUME NEW sel, NEW visible, SelInv(sel, visible), NEW m, NEW rest,
         rest = [sel EXCEPT !.commands = @ \ {m}]
  PROVE  SelInv(rest, visible)
<1>1. /\ SelectionShape(rest) /\ rest.latest = sel.latest /\ rest.refresh = sel.refresh
      /\ rest.mode = sel.mode /\ rest.search = sel.search /\ rest.choice = sel.choice
      /\ rest.trashing = sel.trashing
      /\ rest.marked = sel.marked /\ rest.counted = sel.counted /\ rest.changed = sel.changed
      /\ rest.projections = sel.projections /\ rest.commands = sel.commands \ {m}
  BY DEF SelInv, Shapes, SelectionShape
<1> QED BY <1>1 DEF SelInv, Shapes, SettledInv, OneCurrent, ProjectionInv

LEMMA CommandFailedKeeps ==
  ASSUME SelectionInv, NEW m \in selection.commands, ReceiveRefusal(m) \/ LoseCommand(m)
  PROVE  SelectionInv'
<1>1. PICK sel, visible : sel = selection /\ visible = Shown
  OBVIOUS
<1>2. SelInv(sel, visible)
  BY <1>1 DEF SelectionInv
<1>3. CommandFailed(m) /\ row' = row /\ list' = list
  BY DEF ReceiveRefusal, LoseCommand
<1>4. PICK rest : rest = [sel EXCEPT !.commands = @ \ {m}]
  OBVIOUS
<1>5. PICK back : back = [sel EXCEPT !.commands = @ \ {m}, !.busy = FALSE, !.error = TRUE]
  OBVIOUS
<1>6. SelInv(rest, visible) /\ SelInv(back, visible)
  BY <1>2, <1>4, <1>5, CommandWithout, OtherCommands
<1>7. selection' = rest \/ selection' = back
  BY <1>1, <1>3, <1>4, <1>5 DEF CommandFailed
<1> QED BY <1>1, <1>3, <1>6, <1>7, SelectionOnlyKeeps

LEMMA ReceiveDoneKeeps ==
  ASSUME ListInv, SelectionInv, NEW m \in selection.commands, ReceiveDone(m)
  PROVE  SelectionInv'
<1>1. PICK sel, visible, off : sel = selection /\ visible = Shown /\ off = Off(selection)
  OBVIOUS
<1>2. SelInv(sel, visible)
  BY <1>1 DEF SelectionInv
<1>3. row' = row
  BY DEF ReceiveDone
<1>4. CASE ~m.current
  <2>1. PICK rest : rest = [sel EXCEPT !.commands = @ \ {m}]
    OBVIOUS
  <2>2. SelInv(rest, visible)
    BY <1>2, <2>1, CommandWithout
  <2>3. selection' = rest /\ list' = list
    BY <1>1, <1>4, <2>1 DEF ReceiveDone
  <2> QED BY <1>1, <1>3, <2>2, <2>3, SelectionOnlyKeeps
<1>5. CASE m.current
  <2>1. SelInv(off, visible) /\ ~off.mode /\ \A q \in off.commands : CommandShape(q) /\ CommandInv(q)
    BY <1>1, <1>2, OffKeeps DEF SelInv, Shapes
  <2>2. PICK busy : busy = OnTrashPage
    OBVIOUS
  <2>3. PICK next : next = [off EXCEPT !.commands = Superseded(@ \ {m}), !.busy = busy]
    OBVIOUS
  <2>4. selection' = next
    BY <1>1, <1>5, <2>2, <2>3 DEF ReceiveDone
  <2>5. /\ SelectionShape(next) /\ next.latest = off.latest /\ ~next.mode
        /\ next.trashing = off.trashing /\ next.projections = off.projections
        /\ next.commands = Superseded(off.commands \ {m})
    BY <2>1, <2>3 DEF SelInv, Shapes, SelectionShape
  <2>6. \A q \in next.commands : CommandShape(q) /\ CommandInv(q)
    BY <2>1, <2>5, SupersededCommands
  <2>7. SelInv(next, visible)
    BY <2>1, <2>5, <2>6 DEF SelInv, Shapes, SettledInv, OneCurrent, ProjectionInv
  <2>8. list'.items = list.items
    BY <1>5 DEF ReceiveDone, ResetList, StartRefresh, ListInv, ListShape
  <2>9. Shown' = visible
    BY <1>1, <2>8 DEF Shown
  <2> QED BY <1>3, <2>4, <2>7, <2>9, WorksStay
<1> QED BY <1>4, <1>5

-----------------------------------------------------------------------------
(* Works change *)

LEMMA KindsOfSearches ==
  \A search \in KnownSearches : search.kind \in {"work", "artist", "tag", "series", "trash"}
  BY SearchesAssumption DEF KnownSearches

LEMMA MarksStay ==
  ASSUME NEW works \in SUBSET Work, \A w \in Work \ works : row'[w] = row[w],
         NEW search \in KnownSearches, NEW choice, NEW touched, touched = Touched(works),
         NEW marked, NEW items, NEW changed, MarksRight(marked, items, changed, search, choice)
  PROVE  MarksRight(marked, items, changed \cup touched, search, choice)'
<1>1. ASSUME NEW i \in items, i \notin changed, i \notin touched
      PROVE  i \in marked <=> (i \in Selected(search, choice))'
  <2>1. (i \in Selected(search, choice))' <=> i \in Selected(search, choice)
    BY <1>1, KindsOfSearches, SelectedStays
  <2> QED BY <1>1, <2>1 DEF MarksRight
<1> QED BY <1>1 DEF MarksRight

LEMMA CountStays ==
  ASSUME NEW works \in SUBSET Work, \A w \in Work \ works : row'[w] = row[w],
         NEW search \in KnownSearches, NEW choice, NEW touched, touched = Touched(works),
         NEW counted, NEW changed, CountRight(counted, changed, search, choice)
  PROVE  CountRight(counted, changed \cup touched, search, choice)'
<1>1. ASSUME NEW w \in Work, w \notin changed, w \notin touched
      PROVE  w \in counted <=> (w \in WorksOf(search, Selected(search, choice)))'
  <2>1. (w \in WorksOf(search, Selected(search, choice)))'
          <=> w \in WorksOf(search, Selected(search, choice))
    BY <1>1, KindsOfSearches, WorksOfStays
  <2> QED BY <1>1, <2>1 DEF CountRight
<1> QED BY <1>1 DEF CountRight

Noted(x, touched) == [x EXCEPT !.changed = @ \cup touched]

LEMMA NotedProjections ==
  ASSUME NEW S, \A p \in S : ProjectionShape(p), NEW touched
  PROVE  \A q \in Noting(S, touched) :
           /\ ProjectionShape(q)
           /\ \E p \in S :
                /\ q = Noted(p, touched)
                /\ q.search = p.search /\ q.choice = p.choice /\ q.visible = p.visible
                /\ q.stage = p.stage /\ q.marked = p.marked /\ q.counted = p.counted
                /\ q.changed = p.changed \cup touched /\ q.current = p.current
<1> SUFFICES ASSUME NEW p \in S, NEW q, q = Noted(p, touched)
             PROVE  /\ ProjectionShape(q)
                    /\ q.search = p.search /\ q.choice = p.choice /\ q.visible = p.visible
                    /\ q.stage = p.stage /\ q.marked = p.marked /\ q.counted = p.counted
                    /\ q.changed = p.changed \cup touched /\ q.current = p.current
  BY DEF Noting, Noted
<1> QED BY DEF ProjectionShape, Noted

LEMMA NotedCommands ==
  ASSUME NEW S, \A m \in S : CommandShape(m), NEW touched
  PROVE  \A q \in Noting(S, touched) :
           /\ CommandShape(q)
           /\ \E m \in S :
                /\ q.search = m.search /\ q.choice = m.choice /\ q.command = m.command
                /\ q.stage = m.stage /\ q.counted = m.counted
                /\ q.changed = m.changed \cup touched
<1> SUFFICES ASSUME NEW m \in S, NEW q, q = [m EXCEPT !.changed = @ \cup touched]
             PROVE  /\ CommandShape(q)
                    /\ q.search = m.search /\ q.choice = m.choice /\ q.command = m.command
                    /\ q.stage = m.stage /\ q.counted = m.counted
                    /\ q.changed = m.changed \cup touched
  BY DEF Noting
<1> QED BY DEF CommandShape

\* A work changed: what was counted and marked before is right but for it.
LEMMA NotedKeeps ==
  ASSUME ListInv, NEW works \in SUBSET Work, \A w \in Work \ works : row'[w] = row[w],
         NEW sel, NEW visible, visible = Shown, SelInv(sel, visible), NoteChange(works, sel)
  PROVE  SelectionInv'
<1>1. PICK touched : touched = Touched(works)
  OBVIOUS
<1>2. PICK next : next = [sel EXCEPT !.changed = @ \cup touched,
                                     !.projections = Noting(@, touched),
                                     !.commands = Noting(@, touched)]
  OBVIOUS
<1>3. selection' = next
  BY <1>1, <1>2 DEF NoteChange
<1>4. Shown' = visible
  <2>1. list'.items = list.items
    BY DEF NoteChange, ListInv, ListShape
  <2> QED BY <2>1 DEF Shown
<1>5. /\ SelectionShape(next) /\ next.latest = sel.latest /\ next.refresh = sel.refresh
      /\ next.mode = sel.mode /\ next.search = sel.search /\ next.choice = sel.choice
      /\ next.trashing = sel.trashing
      /\ next.marked = sel.marked /\ next.counted = sel.counted
      /\ next.changed = sel.changed \cup touched
      /\ next.projections = Noting(sel.projections, touched)
      /\ next.commands = Noting(sel.commands, touched)
  BY <1>2 DEF SelInv, Shapes, SelectionShape
<1>6. \A q \in next.projections :
        /\ ProjectionShape(q)
        /\ \E p \in sel.projections :
             /\ q = Noted(p, touched)
             /\ q.search = p.search /\ q.choice = p.choice /\ q.visible = p.visible
             /\ q.stage = p.stage /\ q.marked = p.marked /\ q.counted = p.counted
             /\ q.changed = p.changed \cup touched /\ q.current = p.current
  BY <1>5, NotedProjections DEF SelInv, Shapes
<1>7. \A q \in next.commands :
        /\ CommandShape(q)
        /\ \E m \in sel.commands :
             /\ q.search = m.search /\ q.choice = m.choice /\ q.command = m.command
             /\ q.stage = m.stage /\ q.counted = m.counted
             /\ q.changed = m.changed \cup touched
  BY <1>5, NotedCommands DEF SelInv, Shapes
<1>8. SettledInv(next, visible)'
  <2>1. /\ next.latest \in {"ok", "pending", "failed"}
        /\ next.mode => next.search \in KnownSearches
        /\ next.mode /\ next.latest = "pending" => next.refresh \in {{}, {visible}}
        /\ next.trashing => next.mode /\ next.search.kind # "trash"
    BY <1>5 DEF SelInv, SettledInv
  <2>2. ASSUME next.mode, next.latest = "ok"
        PROVE  /\ MarksRight(next.marked, visible, next.changed, next.search, next.choice)'
               /\ CountRight(next.counted, next.changed, next.search, next.choice)'
    <3>1. /\ sel.search \in KnownSearches
          /\ MarksRight(sel.marked, visible, sel.changed, sel.search, sel.choice)
          /\ CountRight(sel.counted, sel.changed, sel.search, sel.choice)
      BY <1>5, <2>2 DEF SelInv, SettledInv
    <3>2. MarksRight(sel.marked, visible, sel.changed \cup touched, sel.search, sel.choice)'
      BY <1>1, <3>1, MarksStay
    <3>3. CountRight(sel.counted, sel.changed \cup touched, sel.search, sel.choice)'
      BY <1>1, <3>1, CountStays
    <3> QED BY <1>5, <3>2, <3>3
  <2> QED BY <2>1, <2>2 DEF SettledInv
<1>9. ASSUME NEW q \in next.projections PROVE ProjectionInv(next, visible, q)'
  <2>1. PICK p \in sel.projections :
          /\ q.search = p.search /\ q.choice = p.choice /\ q.visible = p.visible
          /\ q.stage = p.stage /\ q.marked = p.marked /\ q.counted = p.counted
          /\ q.changed = p.changed \cup touched /\ q.current = p.current
    BY <1>6, <1>9
  <2>2. ProjectionInv(sel, visible, p)
    BY <2>1 DEF SelInv
  <2>3. p.current => p.search \in KnownSearches
    BY <2>2 DEF SelInv, SettledInv, ProjectionInv
  <2>4. ASSUME p.current, p.stage = "answered"
        PROVE  /\ MarksRight(p.marked, p.visible, p.changed \cup touched, p.search, p.choice)'
               /\ CountRight(p.counted, p.changed \cup touched, p.search, p.choice)'
    <3>1. /\ MarksRight(p.marked, p.visible, p.changed, p.search, p.choice)
          /\ CountRight(p.counted, p.changed, p.search, p.choice)
      BY <2>2, <2>4 DEF ProjectionInv
    <3> QED BY <1>1, <2>3, <2>4, <3>1, MarksStay, CountStays
  <2>5. q.current => /\ next.mode /\ next.latest = "pending" /\ q.search = next.search
                     /\ next.refresh = {} => visible \subseteq q.visible
    BY <1>5, <2>1, <2>2 DEF ProjectionInv
  <2> QED BY <2>1, <2>4, <2>5 DEF ProjectionInv
<1>10. ASSUME NEW q \in next.commands PROVE CommandInv(q)'
  <2>1. PICK m \in sel.commands :
          /\ q.search = m.search /\ q.choice = m.choice /\ q.command = m.command
          /\ q.stage = m.stage /\ q.counted = m.counted /\ q.changed = m.changed \cup touched
    BY <1>7, <1>10
  <2>2. CommandInv(m)
    BY <2>1 DEF SelInv
  <2>3. m.command = "trash" /\ m.stage = "asked" =>
          CountRight(m.counted, m.changed \cup touched, m.search, m.choice)'
    BY <1>1, <2>2, CountStays DEF CommandInv
  <2> QED BY <2>1, <2>2, <2>3 DEF CommandInv
<1>11. OneCurrent(next)
  <2> SUFFICES ASSUME NEW one \in next.projections, NEW two \in next.projections,
                      one.current, two.current
               PROVE  one = two
    BY DEF OneCurrent
  <2>1. PICK p \in sel.projections : one = Noted(p, touched) /\ one.current = p.current
    BY <1>6
  <2>2. PICK q \in sel.projections : two = Noted(q, touched) /\ two.current = q.current
    BY <1>6
  <2>3. p = q
    BY <2>1, <2>2 DEF SelInv, OneCurrent
  <2> QED BY <2>1, <2>2, <2>3
<1>12. Shapes(next)
  BY <1>5, <1>6, <1>7 DEF Shapes
<1>13. SelInv(next, visible)'
  BY <1>8, <1>9, <1>10, <1>11, <1>12
     DEF SelInv, Shapes, OneCurrent, SelectionShape, ProjectionShape, CommandShape
<1> QED BY <1>3, <1>4, <1>13
        DEF SelectionInv, SelInv, Shapes, SettledInv, OneCurrent, ProjectionInv, CommandInv,
            MarksRight, CountRight, SelectionShape, ProjectionShape, CommandShape

LEMMA ServeCommandKeeps ==
  ASSUME ListInv, SelectionInv, NEW m \in selection.commands, ServeCommand(m)
  PROVE  SelectionInv'
<1>1. PICK sel, visible : sel = selection /\ visible = Shown
  OBVIOUS
<1>2. SelInv(sel, visible)
  BY <1>1 DEF SelectionInv
<1>3. PICK works : works = WorksOf(m.search, Selected(m.search, m.choice))
  OBVIOUS
<1>4. PICK changed : changed = IF Refused(m, works) THEN {} ELSE works
  OBVIOUS
<1>5. PICK stage : stage = IF Refused(m, works) THEN "refused" ELSE "answered"
  OBVIOUS
<1>6. PICK answer : answer = [m EXCEPT !.stage = stage]
  OBVIOUS
<1>7. PICK next : next = [sel EXCEPT !.commands = (@ \ {m}) \cup {answer}]
  OBVIOUS
<1>8. /\ row' = [w \in Work |-> IF w \in changed THEN Commanded(m.command, row[w]) ELSE row[w]]
      /\ NoteChange(changed, next)
  BY <1>1, <1>3, <1>4, <1>5, <1>6, <1>7 DEF ServeCommand
<1>9. CommandShape(m) /\ CommandInv(m)
  BY <1>1, <1>2 DEF SelInv, Shapes
<1>10. works \subseteq Work
  <2>1. m.search.kind \in {"work", "artist", "tag", "series", "trash"}
    BY <1>9, KindsOfSearches DEF CommandInv
  <2>2. CASE m.search.kind \in {"work", "trash"}
    BY <1>3, <2>2 DEF WorksOf, Selected, Items, Found
  <2>3. CASE m.search.kind \in {"artist", "tag", "series"}
    BY <1>3, <2>3 DEF WorksOf, WorksIn
  <2> QED BY <2>1, <2>2, <2>3
<1>11. /\ CommandShape(answer) /\ answer.stage \in {"refused", "answered"}
       /\ answer.search = m.search /\ answer.command = m.command
  BY <1>5, <1>6, <1>9 DEF CommandShape
<1>12. CommandInv(answer)
  BY <1>9, <1>11 DEF CommandInv
<1>13. /\ SelectionShape(next) /\ next.latest = sel.latest /\ next.refresh = sel.refresh
       /\ next.mode = sel.mode /\ next.search = sel.search /\ next.choice = sel.choice
       /\ next.trashing = sel.trashing
       /\ next.marked = sel.marked /\ next.counted = sel.counted /\ next.changed = sel.changed
       /\ next.projections = sel.projections /\ next.commands = (sel.commands \ {m}) \cup {answer}
  BY <1>2, <1>7 DEF SelInv, Shapes, SelectionShape
<1>14. SelInv(next, visible)
  BY <1>2, <1>11, <1>12, <1>13 DEF SelInv, Shapes, SettledInv, OneCurrent, ProjectionInv
<1>15. changed \in SUBSET Work /\ \A w \in Work \ changed : row'[w] = row[w]
  BY <1>4, <1>8, <1>10
<1> QED BY <1>1, <1>8, <1>14, <1>15, NotedKeeps

-----------------------------------------------------------------------------
(* The works themselves *)

RowShape(r) == DOMAIN r = {"state", "stored", "about", "purge", "due"}
RowInv ==
  /\ DOMAIN row = Work
  /\ \A w \in Work : /\ RowShape(row[w]) /\ row[w].about \in About[w]
                     /\ row[w].purge \in {"none", "queued", "started"}

LEMMA WorkStepIs ==
  ASSUME RowInv, NEW w \in Work,
         Collect(w) \/ SaveDetail(w) \/ MoveToTrash(w) \/ Restore(w) \/ Purge(w)
  PROVE  \E to : Change(w, to) /\ RowShape(to) /\ to.about \in About[w]
                /\ to.purge \in {"none", "queued", "started"}
<1>1. /\ RowShape(row[w]) /\ row[w].about \in About[w]
      /\ row[w].purge \in {"none", "queued", "started"}
  BY DEF RowInv
<1>2. CASE Collect(w)
  <2>1. PICK to : to = [row[w] EXCEPT !.state = "collected", !.stored = TRUE]
    OBVIOUS
  <2>2. Change(w, to)
    BY <1>2, <2>1 DEF Collect
  <2>3. RowShape(to) /\ to.about = row[w].about /\ to.purge = row[w].purge
    BY <1>1, <2>1 DEF RowShape
  <2> QED BY <1>1, <2>2, <2>3
<1>3. CASE SaveDetail(w)
  <2>1. PICK about \in About[w] : Change(w, [row[w] EXCEPT !.about = about])
    BY <1>3 DEF SaveDetail
  <2>2. PICK to : to = [row[w] EXCEPT !.about = about]
    OBVIOUS
  <2>3. Change(w, to)
    BY <2>1, <2>2
  <2>4. RowShape(to) /\ to.about = about /\ to.purge = row[w].purge
    BY <1>1, <2>2 DEF RowShape
  <2> QED BY <1>1, <2>3, <2>4
<1>4. CASE MoveToTrash(w)
  <2>1. PICK to : to = [row[w] EXCEPT !.state = "trash"]
    OBVIOUS
  <2>2. Change(w, to)
    BY <1>4, <2>1 DEF MoveToTrash
  <2>3. RowShape(to) /\ to.about = row[w].about /\ to.purge = row[w].purge
    BY <1>1, <2>1 DEF RowShape
  <2> QED BY <1>1, <2>2, <2>3
<1>5. CASE Restore(w)
  <2>1. PICK to : to = Restored(row[w])
    OBVIOUS
  <2>2. Change(w, to)
    BY <1>5, <2>1 DEF Restore
  <2>3. RowShape(to) /\ to.about = row[w].about /\ to.purge = row[w].purge
    BY <1>1, <2>1 DEF RowShape, Restored
  <2> QED BY <1>1, <2>2, <2>3
<1>6. CASE Purge(w)
  <2>1. PICK to : to = CASE row[w].purge = "none" -> [row[w] EXCEPT !.purge = "queued"]
                         [] row[w].purge = "queued" -> [row[w] EXCEPT !.purge = "started"]
                         [] row[w].purge = "started" -> [row[w] EXCEPT !.state = "purged"]
    OBVIOUS
  <2>2. Change(w, to)
    BY <1>6, <2>1 DEF Purge
  <2>3. row[w].purge \in {"none", "queued", "started"}
    BY DEF RowInv
  <2>4. /\ RowShape(to) /\ to.about = row[w].about
        /\ to.purge \in {"none", "queued", "started"}
    BY <1>1, <2>1, <2>3 DEF RowShape
  <2> QED BY <1>1, <2>2, <2>4
<1> QED BY <1>2, <1>3, <1>4, <1>5, <1>6

LEMMA WorkStepKeeps ==
  ASSUME RowInv, ListInv, SelectionInv, WorkStep
  PROVE  RowInv' /\ SelectionInv'
<1>1. PICK w \in Work :
        Collect(w) \/ SaveDetail(w) \/ MoveToTrash(w) \/ Restore(w) \/ Purge(w)
  BY DEF WorkStep
<1>2. PICK to : /\ Change(w, to) /\ RowShape(to) /\ to.about \in About[w]
                /\ to.purge \in {"none", "queued", "started"}
  BY <1>1, WorkStepIs
<1>3. row' = [row EXCEPT ![w] = to] /\ NoteChange({w}, selection)
  BY <1>2 DEF Change
<1>4. RowInv'
  BY <1>2, <1>3 DEF RowInv
<1>5. PICK sel, visible, works : sel = selection /\ visible = Shown /\ works = {w}
  OBVIOUS
<1>6. works \in SUBSET Work /\ \A v \in Work \ works : row'[v] = row[v]
  BY <1>3, <1>5 DEF RowInv
<1>7. SelInv(sel, visible) /\ NoteChange(works, sel)
  BY <1>3, <1>5 DEF SelectionInv
<1>8. SelectionInv'
  BY <1>5, <1>6, <1>7, NotedKeeps
<1> QED BY <1>4, <1>8

LEMMA ServedRows ==
  ASSUME RowInv, SelectionInv, NEW m \in selection.commands, ServeCommand(m)
  PROVE  /\ RowInv'
         /\ m.command = "trash" => \A w \in Work : w \in Moved <=>
              w \in WorksOf(m.search, Selected(m.search, m.choice))
<1>1. CommandInv(m)
  BY DEF SelectionInv, SelInv
<1>2. m.search.kind \in {"work", "artist", "tag", "series", "trash"}
      /\ m.command \in {"trash", "restore", "reschedule", "purge"}
  BY <1>1, KindsOfSearches DEF CommandInv
<1>3. PICK works : works = WorksOf(m.search, Selected(m.search, m.choice))
  OBVIOUS
<1>4. PICK changed : changed = IF Refused(m, works) THEN {} ELSE works
  OBVIOUS
<1>5. row' = [w \in Work |-> IF w \in changed THEN Commanded(m.command, row[w]) ELSE row[w]]
  BY <1>3, <1>4 DEF ServeCommand
<1>6. ASSUME NEW w \in Work, NEW to, to = Commanded(m.command, row[w])
      PROVE  /\ RowShape(to) /\ to.about = row[w].about
             /\ to.purge \in {"none", "queued", "started"}
             /\ m.command = "trash" => to.state = "trash"
  <2>1. RowShape(row[w]) /\ row[w].purge \in {"none", "queued", "started"}
    BY DEF RowInv
  <2>2. CASE m.command = "trash"
    <3>1. to = [row[w] EXCEPT !.state = "trash"]
      BY <1>6, <2>2 DEF Commanded
    <3> QED BY <2>1, <3>1 DEF RowShape
  <2>3. CASE m.command = "restore"
    <3>1. to = Restored(row[w])
      BY <1>6, <2>3 DEF Commanded
    <3> QED BY <2>1, <2>3, <3>1 DEF RowShape, Restored
  <2>4. CASE m.command = "reschedule"
    <3>1. to = PutOff(row[w])
      BY <1>6, <2>4 DEF Commanded
    <3> QED BY <2>1, <2>4, <3>1 DEF RowShape, PutOff
  <2>5. CASE m.command = "purge"
    <3>1. PICK purge \in {"none", "queued", "started"} : to = [row[w] EXCEPT !.purge = purge]
      <4>1. to = [row[w] EXCEPT !.purge = IF @ = "none" THEN "queued" ELSE @]
        BY <1>6, <2>5 DEF Commanded
      <4> QED BY <2>1, <4>1
    <3> QED BY <2>1, <2>5, <3>1 DEF RowShape
  <2> QED BY <1>2, <2>2, <2>3, <2>4, <2>5
<1>7. RowInv'
  <2>1. ASSUME NEW w \in Work
        PROVE  /\ RowShape(row'[w]) /\ row'[w].about \in About[w]
               /\ row'[w].purge \in {"none", "queued", "started"}
    <3>1. row'[w] = row[w] \/ row'[w] = Commanded(m.command, row[w])
      BY <1>5
    <3> QED BY <1>6, <3>1 DEF RowInv
  <2>2. DOMAIN row' = Work
    BY <1>5
  <2> QED BY <2>1, <2>2 DEF RowInv
<1>8. ASSUME m.command = "trash", NEW w \in Work
      PROVE  w \in Moved <=> w \in works
  <2>1. changed = works
    BY <1>4, <1>8 DEF Refused
  <2>2. CASE w \in works
    <3>1. row[w].state # "trash"
      <4>1. m.search.kind # "trash"
        BY <1>1, <1>8 DEF CommandInv
      <4>2. CASE m.search.kind = "work"
        <5>1. Browsable(w)
          BY <1>3, <2>2, <4>2 DEF WorksOf, Selected, Items, Found
        <5> QED BY <5>1 DEF Browsable
      <4>3. CASE m.search.kind \in {"artist", "tag", "series"}
        <5>1. Browsable(w)
          BY <1>3, <2>2, <4>3 DEF WorksOf, WorksIn
        <5> QED BY <5>1 DEF Browsable
      <4> QED BY <1>2, <4>1, <4>2, <4>3
    <3>2. row'[w] = Commanded(m.command, row[w])
      BY <1>5, <2>1, <2>2
    <3>3. row'[w].state = "trash"
      BY <1>6, <1>8, <3>2
    <3> QED BY <2>2, <3>1, <3>3 DEF Moved
  <2>3. CASE w \notin works
    <3>1. row'[w] = row[w]
      BY <1>5, <2>1, <2>3
    <3> QED BY <2>3, <3>1 DEF Moved
  <2> QED BY <2>2, <2>3
<1> QED BY <1>3, <1>7, <1>8

-----------------------------------------------------------------------------
(* The gallery *)

GalleryInv == ListInv /\ SelectionInv /\ RowInv

LEMMA GalleryStarts == GalleryInit => GalleryInv
<1> SUFFICES ASSUME GalleryInit PROVE GalleryInv
  OBVIOUS
<1>1. ListInv
  BY GalleryListInit
<1>2. RowInv
  BY DEF GalleryInit, RowInv, RowShape
<1>3. SelectionInv
  <2>1. PICK before : before = [projections |-> {}, commands |-> {}, busy |-> FALSE]
    OBVIOUS
  <2>2. before.projections = {} /\ before.commands = {}
    BY <2>1
  <2>3. PICK visible, off : visible = Shown /\ off = Off(before)
    OBVIOUS
  <2>4. SelInv(off, visible) /\ ~off.mode
    BY <2>2, <2>3, OffKeeps
  <2>5. PICK sel : sel = [off EXCEPT !.latest = "ok"]
    OBVIOUS
  <2>6. selection = sel
    BY <2>1, <2>3, <2>5 DEF GalleryInit
  <2>7. off.projections = {} /\ off.commands \in {{}, Superseded({})}
    BY <2>2, <2>3 DEF Off, Superseded
  <2>8. /\ SelectionShape(sel) /\ sel.latest = "ok" /\ ~sel.mode
        /\ sel.trashing = off.trashing /\ sel.projections = off.projections
        /\ sel.commands = off.commands
    BY <2>4, <2>5 DEF SelInv, Shapes, SelectionShape
  <2>9. SelInv(sel, visible)
    BY <2>4, <2>7, <2>8 DEF SelInv, Shapes, SettledInv, OneCurrent, ProjectionInv
  <2> QED BY <2>3, <2>6, <2>9 DEF SelectionInv
<1> QED BY <1>1, <1>2, <1>3 DEF GalleryInv

LEMMA ListStepsKeep ==
  ASSUME ListInv, SelectionInv, ListStep
  PROVE  SelectionInv' /\ row' = row
<1>1. CASE \E search : Reset(search)
  BY <1>1, ListRequestsKeep DEF Reset
<1>2. CASE LoadMore \/ Refresh \/ Reload
  BY <1>2, ListRequestsKeep DEF LoadMore, Refresh, Reload
<1>3. CASE Return
  BY <1>3, ReturnedKeeps DEF Return
<1>4. ASSUME NEW r \in requests, ServePage(r)
      PROVE  SelectionInv' /\ row' = row
  BY <1>4, ListRequestsKeep DEF ServePage
<1>5. ASSUME NEW r \in requests, Receive(r)
      PROVE  SelectionInv' /\ row' = row
  BY <1>5, ReceivePageKeeps DEF Receive
<1>6. ASSUME NEW r \in requests, LosePage(r)
      PROVE  SelectionInv' /\ row' = row
  BY <1>6, LostPageKeeps DEF LosePage
<1> QED BY <1>1, <1>2, <1>3, <1>4, <1>5, <1>6 DEF ListStep

LEMMA SelectionStepsKeep ==
  ASSUME ListInv, SelectionInv, RowInv, SelectionStep
  PROVE  SelectionInv' /\ RowInv'
<1>1. ASSUME row' = row PROVE RowInv'
  BY <1>1 DEF RowInv
<1>2. CASE Enter \/ Exit
  BY <1>1, <1>2, EnterExitKeep DEF Enter, Exit
<1>3. CASE Clear
  BY <1>1, <1>3, ClearKeeps DEF Clear
<1>4. CASE SelectAll \/ Invert \/ \E i \in Shown : Toggle(i)
  BY <1>1, <1>4, ChoicesKeep DEF SelectAll, Invert, Toggle
<1>5. CASE Trash \/ \E command \in {"restore", "reschedule", "purge"} : Command(command)
  BY <1>1, <1>5, SendsKeep DEF Trash, Command
<1>6. ASSUME NEW p \in selection.projections, ServeProjection(p) \/ Settle(p) \/ LoseProjection(p)
      PROVE  SelectionInv' /\ RowInv'
  <2>1. row' = row
    BY <1>6 DEF ServeProjection, Settle, LoseProjection
  <2> QED BY <1>1, <1>6, <2>1, ServeProjectionKeeps, SettleKeeps, LostProjectionKeeps
<1>7. ASSUME NEW m \in selection.commands, ServeCommand(m)
      PROVE  SelectionInv' /\ RowInv'
  BY <1>7, ServeCommandKeeps, ServedRows
<1>8. ASSUME NEW m \in selection.commands, ReceiveDone(m) \/ ReceiveRefusal(m) \/ LoseCommand(m)
      PROVE  SelectionInv' /\ RowInv'
  <2>1. row' = row
    BY <1>8 DEF ReceiveDone, ReceiveRefusal, LoseCommand
  <2> QED BY <1>1, <1>8, <2>1, ReceiveDoneKeeps, CommandFailedKeeps
<1> QED BY <1>2, <1>3, <1>4, <1>5, <1>6, <1>7, <1>8 DEF SelectionStep

LEMMA GalleryContinues == GalleryInv /\ [GalleryNext]_galleryVars => GalleryInv'
<1> SUFFICES ASSUME GalleryInv, [GalleryNext]_galleryVars PROVE GalleryInv'
  OBVIOUS
<1>1. ListInv'
  BY GalleryListKeeps DEF GalleryInv
<1>2. row' = row => RowInv'
  BY DEF GalleryInv, RowInv
<1>3. SelectionInv' /\ RowInv'
  <2>1. CASE ListStep
    BY <1>2, <2>1, ListStepsKeep DEF GalleryInv
  <2>2. CASE SelectionStep
    BY <2>2, SelectionStepsKeep DEF GalleryInv
  <2>3. CASE WorkStep
    BY <2>3, WorkStepKeeps DEF GalleryInv
  <2>4. CASE UNCHANGED galleryVars
    BY <1>2, <2>4, ListOnlyKeeps DEF GalleryInv, galleryVars
  <2> QED BY <2>1, <2>2, <2>3, <2>4 DEF GalleryNext
<1> QED BY <1>1, <1>3 DEF GalleryInv

\* One request of the list and one projection of the selection at most count,
\* and what they and the commands carry is right but for works that changed
\* since (SelectionProjectionCoordinator, GallerySearchSession).
THEOREM GalleryInvariant == GallerySpec => []GalleryInv
<1>1. GalleryInit => GalleryInv
  BY GalleryStarts
<1>2. GalleryInv /\ [GalleryNext]_galleryVars => GalleryInv'
  BY GalleryContinues
<1> QED BY <1>1, <1>2, PTL DEF GallerySpec

\* A list at rest is that of the newest search (requestRevision).
THEOREM ListsAreOfTheNewestSearch == GallerySpec => []ShowsNewest
<1>1. GalleryInv => ShowsNewest
  BY DEF GalleryInv, ListInv, Awaits, ShowsNewest, Loading, Refreshing
<1> QED BY <1>1, GalleryInvariant, PTL

\* What is marked is what is selected, whatever pages, counts and changes of
\* works came in between (refreshVisible).
THEOREM MarksAreRight == GallerySpec => []MarksAgree
<1>1. GalleryInv => MarksAgree
  BY DEF GalleryInv, SelectionInv, SelInv, SettledInv, MarksRight, MarksAgree
<1> QED BY <1>1, GalleryInvariant, PTL

\* A move takes the works it was confirmed for (move_selection_to_trash).
THEOREM MovesTakeWhatWasCounted == GallerySpec => TrashesWhatWasCounted
<1>1. GalleryInv /\ [GalleryNext]_galleryVars =>
        [\A m \in selection.commands : m.command = "trash" /\ ServeCommand(m) =>
           \A w \in Work \ m.changed : w \in Moved <=> w \in m.counted]_galleryVars
  <2> SUFFICES ASSUME GalleryInv, NEW m \in selection.commands, m.command = "trash", ServeCommand(m),
                      NEW w \in Work \ m.changed
               PROVE  w \in Moved <=> w \in m.counted
    OBVIOUS
  <2>1. w \in Moved <=> w \in WorksOf(m.search, Selected(m.search, m.choice))
    BY ServedRows DEF GalleryInv
  <2>2. CountRight(m.counted, m.changed, m.search, m.choice)
    BY DEF GalleryInv, SelectionInv, SelInv, CommandInv, ServeCommand
  <2> QED BY <2>1, <2>2 DEF CountRight
<1> QED BY <1>1, GalleryInvariant, PTL DEF GallerySpec, TrashesWhatWasCounted

\* A work passes a filter or its opposite and never both (push_filter).
THEOREM FiltersDivide == GallerySpec => []FilterOppositesDivide
<1>1. GalleryInv => FilterOppositesDivide
  <2> SUFFICES ASSUME GalleryInv, list.applied.kind = "work", NEW w \in Work,
                      NEW f \in UNION {g.filters : g \in list.applied.groups}, HasOpposite(f)
               PROVE  FilterHolds(Details(w), f) # FilterHolds(Details(w), Opposite(f))
    BY DEF FilterOppositesDivide
  <2>1. IsFilter(f)
    BY SearchesAssumption DEF GalleryInv, ListInv, KnownSearches
  <2>2. PICK d : d = Details(w)
    OBVIOUS
  <2>3. d.flag \in [Flag -> BOOLEAN]
    BY <2>2, SearchesAssumption DEF GalleryInv, RowInv, Details
  <2> QED BY <2>1, <2>2, <2>3, OppositesDivide
<1> QED BY <1>1, GalleryInvariant, PTL

-----------------------------------------------------------------------------
(* A set in order *)

StrictOrder(before, S) ==
  /\ \A i \in S : <<i, i>> \notin before
  /\ \A i, j \in S : i = j \/ <<i, j>> \in before \/ <<j, i>> \in before
  /\ \A i, j, k \in S : <<i, j>> \in before /\ <<j, k>> \in before => <<i, k>> \in before

\* As many members lie before each as its place says, and so it has one.
LEMMA Arrangement ==
  ASSUME NEW S, IsFiniteSet(S), NEW before, StrictOrder(before, S)
  PROVE  /\ Cardinality(S) \in Nat
         /\ Arranged(S, before) \in [1 .. Cardinality(S) -> S]
         /\ \A i \in S : \E n \in 1 .. Cardinality(S) : Arranged(S, before)[n] = i
         /\ \A m, n \in 1 .. Cardinality(S) :
              m < n => <<Arranged(S, before)[m], Arranged(S, before)[n]>> \in before
<1> DEFINE Below(i) == {j \in S : <<j, i>> \in before}
           place == [i \in S |-> Cardinality(Below(i)) + 1]
           size == Cardinality(S)
<1>1. ASSUME NEW i \in S
      PROVE  /\ IsFiniteSet(Below(i)) /\ Cardinality(Below(i)) \in Nat
             /\ place[i] = Cardinality(Below(i)) + 1 /\ place[i] \in Nat
  <2>1. Below(i) \in SUBSET S
    OBVIOUS
  <2>2. IsFiniteSet(Below(i))
    BY <2>1, FS_Subset
  <2> QED BY <2>2, FS_CardinalityType
<1>2. size \in Nat
  BY FS_CardinalityType
<1> HIDE DEF place, Below
<1>3. ASSUME NEW i \in S PROVE place[i] \in 1 .. size
  <2>1. Below(i) \in SUBSET (S \ {i})
    BY DEF StrictOrder, Below
  <2>2. IsFiniteSet(S \ {i}) /\ Cardinality(S \ {i}) = size - 1
    BY FS_RemoveElement
  <2>3. Cardinality(Below(i)) <= size - 1
    BY <2>1, <2>2, FS_Subset
  <2> QED BY <1>1, <1>2, <2>3
<1>4. ASSUME NEW i \in S, NEW j \in S, <<i, j>> \in before PROVE place[i] < place[j]
  <2>1. Below(i) \cup {i} \in SUBSET Below(j)
    BY <1>4 DEF StrictOrder, Below
  <2>2. i \notin Below(i)
    BY DEF StrictOrder, Below
  <2>3. Cardinality(Below(i) \cup {i}) = Cardinality(Below(i)) + 1
    BY <1>1, <2>2, FS_AddElement
  <2>4. Cardinality(Below(i) \cup {i}) <= Cardinality(Below(j))
    BY <1>1, <2>1, FS_Subset
  <2> QED BY <1>1, <2>3, <2>4
<1>5. ASSUME NEW i \in S, NEW j \in S PROVE place[i] < place[j] => <<i, j>> \in before
  <2>1. place[i] \in Nat /\ place[j] \in Nat
    BY <1>1
  <2>2. <<j, i>> \in before => place[j] < place[i]
    BY <1>4
  <2> QED BY <2>1, <2>2 DEF StrictOrder
<1>6. ASSUME NEW i \in S, NEW j \in S, place[i] = place[j] PROVE i = j
  <2>1. place[i] \in Nat /\ place[j] \in Nat
    BY <1>1
  <2>2. <<i, j>> \notin before /\ <<j, i>> \notin before
    BY <1>4, <1>6, <2>1
  <2> QED BY <2>2 DEF StrictOrder
<1>7. \A n \in 1 .. size : \E i \in S : place[i] = n
  <2>1. place \in [S -> 1 .. size]
    BY <1>3 DEF place
  <2>2. place \in Injection(S, 1 .. size)
    BY <1>6, <2>1 DEF Injection, IsInjective
  <2>3. IsFiniteSet(1 .. size) /\ Cardinality(1 .. size) = size
    BY <1>2, FS_Interval
  <2>4. place \in Surjection(S, 1 .. size)
    BY <2>2, <2>3, FS_Injection
  <2> QED BY <2>4 DEF Surjection
<1>8. ASSUME NEW n \in 1 .. size
      PROVE  Arranged(S, before)[n] \in S /\ place[Arranged(S, before)[n]] = n
  <2>1. \A i \in S : Cardinality(Below(i)) = n - 1 <=> place[i] = n
    BY <1>1
  <2>2. \E i \in S : Cardinality(Below(i)) = n - 1
    BY <1>7, <2>1
  <2>3. Arranged(S, before)[n] = CHOOSE i \in S : Cardinality(Below(i)) = n - 1
    BY DEF Arranged, Below
  <2>4. Arranged(S, before)[n] \in S /\ Cardinality(Below(Arranged(S, before)[n])) = n - 1
    BY <2>2, <2>3
  <2> QED BY <2>1, <2>4
<1>9. Arranged(S, before) \in [1 .. size -> S]
  BY <1>8 DEF Arranged
<1>10. \A i \in S : \E n \in 1 .. size : Arranged(S, before)[n] = i
  BY <1>3, <1>6, <1>8
<1>11. \A m, n \in 1 .. size :
         m < n => <<Arranged(S, before)[m], Arranged(S, before)[n]>> \in before
  BY <1>5, <1>8
<1> QED BY <1>2, <1>9, <1>10, <1>11

\* An arrangement is a sequence that shows each member once.
Once(s, i) == \E n \in DOMAIN s : \A m \in DOMAIN s : s[m] = i <=> m = n
Unseen(s, i) == \A n \in DOMAIN s : s[n] # i

LEMMA ShownOnce ==
  ASSUME NEW S, IsFiniteSet(S), NEW before, StrictOrder(before, S),
         NEW s, s = Arranged(S, before)
  PROVE  /\ s \in Seq(S) /\ Len(s) = Cardinality(S) /\ DOMAIN s = 1 .. Len(s)
         /\ \A m, n \in DOMAIN s : m < n => <<s[m], s[n]>> \in before
         /\ \A m, n \in DOMAIN s : s[m] = s[n] => m = n
         /\ \A i \in S : \E n \in DOMAIN s : s[n] = i
<1>1. /\ Cardinality(S) \in Nat /\ s \in [1 .. Cardinality(S) -> S]
      /\ \A i \in S : \E n \in 1 .. Cardinality(S) : s[n] = i
      /\ \A m, n \in 1 .. Cardinality(S) : m < n => <<s[m], s[n]>> \in before
  BY Arrangement
<1>2. s \in Seq(S) /\ Len(s) = Cardinality(S) /\ DOMAIN s = 1 .. Cardinality(S)
  BY <1>1
<1>3. ASSUME NEW m \in DOMAIN s, NEW n \in DOMAIN s, s[m] = s[n] PROVE m = n
  <2>1. s[m] \in S /\ m \in Nat /\ n \in Nat
    BY <1>1, <1>2
  <2>2. <<s[m], s[m]>> \notin before
    BY <2>1 DEF StrictOrder
  <2> QED BY <1>1, <1>2, <1>3, <2>1, <2>2
<1> QED BY <1>1, <1>2, <1>3

LEMMA Appended ==
  ASSUME NEW T, NEW s \in Seq(T), NEW t \in Seq(T), NEW i
  PROVE  /\ Unseen(s, i) /\ Unseen(t, i) => Unseen(s \o t, i)
         /\ Once(s, i) /\ Unseen(t, i) => Once(s \o t, i)
         /\ Unseen(s, i) /\ Once(t, i) => Once(s \o t, i)
<1> DEFINE both == s \o t
<1>1. /\ Len(s) \in Nat /\ Len(t) \in Nat /\ DOMAIN s = 1 .. Len(s) /\ DOMAIN t = 1 .. Len(t)
      /\ DOMAIN both = 1 .. (Len(s) + Len(t))
  OBVIOUS
<1>2. \A n \in DOMAIN s : n \in DOMAIN both /\ both[n] = s[n]
  OBVIOUS
<1>3. \A n \in DOMAIN t : Len(s) + n \in DOMAIN both /\ both[Len(s) + n] = t[n]
  OBVIOUS
<1>4. \A n \in DOMAIN both : n \in DOMAIN s \/ \E m \in DOMAIN t : n = Len(s) + m
  <2> SUFFICES ASSUME NEW n \in DOMAIN both, n \notin DOMAIN s
               PROVE  \E m \in DOMAIN t : n = Len(s) + m
    OBVIOUS
  <2>1. n - Len(s) \in DOMAIN t /\ n = Len(s) + (n - Len(s))
    BY <1>1
  <2> QED BY <2>1
<1>5. \A n \in DOMAIN s, m \in DOMAIN t : n # Len(s) + m
  BY <1>1
<1>6. \A m, n \in DOMAIN t : Len(s) + m = Len(s) + n => m = n
  BY <1>1
<1> HIDE DEF both
<1>7. Unseen(s, i) /\ Unseen(t, i) => Unseen(both, i)
  BY <1>2, <1>3, <1>4 DEF Unseen
<1>8. ASSUME Once(s, i), Unseen(t, i) PROVE Once(both, i)
  <2>1. PICK n \in DOMAIN s : \A m \in DOMAIN s : s[m] = i <=> m = n
    BY <1>8 DEF Once
  <2>2. \A m \in DOMAIN both : both[m] = i <=> m = n
    BY <1>2, <1>3, <1>4, <1>5, <1>8, <2>1 DEF Unseen
  <2> QED BY <1>2, <2>1, <2>2 DEF Once
<1>9. ASSUME Unseen(s, i), Once(t, i) PROVE Once(both, i)
  <2>1. PICK n \in DOMAIN t : \A m \in DOMAIN t : t[m] = i <=> m = n
    BY <1>9 DEF Once
  <2>2. \A m \in DOMAIN both : both[m] = i <=> m = Len(s) + n
    BY <1>2, <1>3, <1>4, <1>5, <1>6, <1>9, <2>1 DEF Unseen
  <2> QED BY <1>3, <2>1, <2>2 DEF Once
<1> QED BY <1>7, <1>8, <1>9 DEF both

\* What the server no longer finds goes, and the rest stays as it was.
LEMMA KeptIs ==
  ASSUME NEW T, NEW s \in Seq(T), NEW got, NEW kept, kept = Kept(s, got)
  PROVE  /\ kept \in Seq(T)
         /\ \A i : Unseen(s, i) => Unseen(kept, i)
         /\ \A i \in ToSet(got) : Once(s, i) => Once(kept, i)
<1> DEFINE places == {n \in DOMAIN s : s[n] \in ToSet(got)}
           before == {p \in places \X places : p[1] < p[2]}
           order == Arranged(places, before)
<1>1. DOMAIN s = 1 .. Len(s) /\ Len(s) \in Nat
  OBVIOUS
<1>2. IsFiniteSet(places)
  <2>1. IsFiniteSet(1 .. Len(s))
    BY <1>1, FS_Interval
  <2>2. places \in SUBSET (1 .. Len(s))
    BY <1>1
  <2> QED BY <2>1, <2>2, FS_Subset
<1>3. StrictOrder(before, places)
  BY <1>1 DEF StrictOrder
<1>4. kept = [n \in 1 .. Cardinality(places) |-> s[order[n]]]
  BY DEF Kept
<1> HIDE DEF before, order
<1>5. /\ order \in Seq(places) /\ DOMAIN order = 1 .. Len(order) /\ Len(order) = Cardinality(places)
      /\ \A m, n \in DOMAIN order : order[m] = order[n] => m = n
      /\ \A m \in places : \E n \in DOMAIN order : order[n] = m
  <2> HIDE DEF places
  <2> QED BY <1>2, <1>3, ShownOnce DEF order
<1>6. \A n \in DOMAIN order : order[n] \in DOMAIN s
  BY <1>5
<1>7. kept \in Seq(T)
  <2>1. kept \in [1 .. Len(order) -> T] /\ Len(order) \in Nat
    BY <1>1, <1>4, <1>5, <1>6
  <2> QED BY <2>1
<1>8. DOMAIN kept = DOMAIN order /\ \A n \in DOMAIN order : kept[n] = s[order[n]]
  BY <1>4, <1>5
<1>9. \A i : Unseen(s, i) => Unseen(kept, i)
  BY <1>6, <1>8 DEF Unseen
<1>10. ASSUME NEW i \in ToSet(got), Once(s, i) PROVE Once(kept, i)
  <2>1. PICK m \in DOMAIN s : \A k \in DOMAIN s : s[k] = i <=> k = m
    BY <1>10 DEF Once
  <2>2. m \in places
    BY <2>1
  <2>3. PICK n \in DOMAIN order : order[n] = m
    BY <1>5, <2>2
  <2>4. \A k \in DOMAIN kept : kept[k] = i <=> k = n
    BY <1>5, <1>6, <1>8, <2>1, <2>3
  <2> QED BY <1>8, <2>3, <2>4 DEF Once
<1> QED BY <1>7, <1>9, <1>10

-----------------------------------------------------------------------------
(* The order of a search *)

DueInv == \A w \in Work : row[w].due \in {Sooner, Later}
KindOfItem(search) == IF search.kind \in {"work", "trash"} THEN Work ELSE Context
CursorRight(search, c) ==
  c = None \/ (c.key \in Nat \cup {Missing} /\ c.id \in KindOfItem(search))

LEMMA ItemsCompare ==
  ASSUME RowInv, DueInv, NEW search \in KnownSearches, NEW i \in Items(search)
  PROVE  /\ i \in KindOfItem(search) /\ Key(search, i) \in Nat \cup {Missing}
         /\ CursorFor(search, i) # None /\ CursorRight(search, CursorFor(search, i))
<1>1. search.kind \in {"work", "artist", "tag", "series", "trash"}
  BY KindsOfSearches
<1>2. CASE search.kind = "work"
  <2>1. i \in Work
    BY <1>2 DEF Items, Found
  <2>2. PICK about \in About[i] : Details(i) = Described[about]
    BY <2>1 DEF RowInv, Details
  <2>3. search.sort_field \in {"PixivId", "LocalUpdatedAt", "PublishedAt", "BookmarkCount", "Title"}
    BY <1>2, OrderAssumption DEF KnownSearches
  <2>4. Key(search, i) \in Nat \cup {Missing}
    <3>1. CASE search.sort_field = "PixivId"
      BY <1>2, <2>1, <3>1, OrderAssumption DEF Key
    <3>2. CASE search.sort_field \in {"PublishedAt", "LocalUpdatedAt"}
      <4>1. Key(search, i) = Described[about].date[search.sort_field]
        BY <1>2, <2>2, <3>2 DEF Key
      <4> QED BY <2>1, <3>2, <4>1, OrderAssumption
    <3>3. CASE search.sort_field = "BookmarkCount"
      <4>1. Key(search, i) = Described[about].number["BookmarkCount"]
        BY <1>2, <2>2, <3>3 DEF Key
      <4> QED BY <2>1, <4>1, OrderAssumption
    <3>4. CASE search.sort_field = "Title"
      <4>1. Key(search, i) = Collation[Lower[Described[about].text["Title"]]]
        BY <1>2, <2>2, <3>4 DEF Key
      <4>2. Described[about].text["Title"] \in Word
        BY <2>1, OrderAssumption
      <4> QED BY <4>1, <4>2, OrderAssumption
    <3> QED BY <2>3, <3>1, <3>2, <3>3, <3>4
  <2> QED BY <1>2, <2>1, <2>4 DEF KindOfItem, CursorFor, CursorRight, None
<1>3. CASE search.kind = "trash"
  <2>1. i \in Work
    BY <1>3 DEF Items, Found
  <2>2. Key(search, i) \in {Sooner, Later}
    BY <1>3, <2>1 DEF Key, DueInv
  <2> QED BY <1>3, <2>1, <2>2, OrderAssumption DEF KindOfItem, CursorFor, CursorRight, None
<1>4. CASE search.kind \in {"artist", "tag", "series"}
  <2>1. i \in Context
    BY <1>4 DEF Items, Found
  <2>2. WorksIn(search, i) \in SUBSET Work
    BY DEF WorksIn
  <2>3. Cardinality(WorksIn(search, i)) \in Nat
    BY <2>2, OrderAssumption, FS_Subset, FS_CardinalityType
  <2>4. Key(search, i) \in Nat
    BY <1>4, <2>3 DEF Key
  <2> QED BY <1>4, <2>1, <2>4 DEF KindOfItem, CursorFor, CursorRight, None
<1> QED BY <1>1, <1>2, <1>3, <1>4

\* The cursor of an item stands where the item does.
LEMMA CursorStands ==
  ASSUME RowInv, DueInv, NEW search \in KnownSearches, NEW i \in Items(search), NEW j
  PROVE  RowsAfter(search, CursorFor(search, i), j) <=> Precedes(search, i, j)
<1>1. PICK c : c = CursorFor(search, i)
  OBVIOUS
<1>2. c.key = Key(search, i) /\ c.id = i
  BY <1>1 DEF CursorFor
<1>3. PICK ka, kb : ka = Key(search, i) /\ kb = Key(search, j)
  OBVIOUS
<1>4. RowsAfter(search, c, j) <=>
        IF ka = Missing THEN kb = Missing /\ IdBeyond(search, i, j)
        ELSE kb = Missing \/ Beyond(Descends(search), ka, kb)
             \/ (kb = ka /\ IdBeyond(search, i, j))
  BY <1>2, <1>3 DEF RowsAfter
<1>5. Precedes(search, i, j) <=>
        IF ka = kb THEN IdBeyond(search, i, j)
        ELSE ka # Missing /\ (kb = Missing \/ Beyond(Descends(search), ka, kb))
  BY <1>3 DEF Precedes
<1>6. ka = kb /\ ka # Missing => ~Beyond(Descends(search), ka, kb)
  <2>1. ka \in Nat \cup {Missing}
    BY <1>3, ItemsCompare
  <2> QED BY <2>1 DEF Beyond
<1> QED BY <1>1, <1>4, <1>5, <1>6

\* Numbers in one of the two directions, and ids, are in a strict order.
LEMMA BeyondOrders ==
  ASSUME NEW descending \in BOOLEAN, NEW a \in Nat, NEW b \in Nat, NEW c \in Nat
  PROVE  /\ ~Beyond(descending, a, a)
         /\ a # b => Beyond(descending, a, b) \/ Beyond(descending, b, a)
         /\ Beyond(descending, a, b) /\ Beyond(descending, b, c) => Beyond(descending, a, c)
<1>1. CASE descending
  BY <1>1 DEF Beyond
<1>2. CASE ~descending
  BY <1>2 DEF Beyond
<1> QED BY <1>1, <1>2

LEMMA IdsOrder ==
  ASSUME NEW search \in KnownSearches, NEW i \in KindOfItem(search),
         NEW j \in KindOfItem(search), NEW k \in KindOfItem(search)
  PROVE  /\ ~IdBeyond(search, i, i)
         /\ i # j => IdBeyond(search, i, j) \/ IdBeyond(search, j, i)
         /\ IdBeyond(search, i, j) /\ IdBeyond(search, j, k) => IdBeyond(search, i, k)
<1>1. Rank[i] \in Nat /\ Rank[j] \in Nat /\ Rank[k] \in Nat /\ (i # j => Rank[i] # Rank[j])
  BY OrderAssumption DEF KindOfItem
<1>2. PICK descending \in BOOLEAN : descending = (search.kind = "work" /\ Descends(search))
  OBVIOUS
<1> QED BY <1>1, <1>2, BeyondOrders DEF IdBeyond

\* What lies after an item that lies after a cursor lies after the cursor.
LEMMA RowsFollow ==
  ASSUME RowInv, DueInv, NEW search \in KnownSearches, NEW c, c # None, CursorRight(search, c),
         NEW i \in Items(search), NEW j \in Items(search),
         RowsAfter(search, c, i), Precedes(search, i, j)
  PROVE  RowsAfter(search, c, j)
<1>1. PICK k, ki, kj : k = c.key /\ ki = Key(search, i) /\ kj = Key(search, j)
  OBVIOUS
<1>2. /\ {k, ki, kj} \subseteq Nat \cup {Missing}
      /\ {c.id, i, j} \subseteq KindOfItem(search)
  BY <1>1, ItemsCompare DEF CursorRight
<1>3. PICK down \in BOOLEAN : down = Descends(search)
  BY DEF Descends
<1>4. IdBeyond(search, c.id, i) /\ IdBeyond(search, i, j) => IdBeyond(search, c.id, j)
  BY <1>2, IdsOrder
<1>5. IF k = Missing THEN ki = Missing /\ IdBeyond(search, c.id, i)
      ELSE ki = Missing \/ Beyond(down, k, ki) \/ (ki = k /\ IdBeyond(search, c.id, i))
  BY <1>1, <1>3 DEF RowsAfter
<1>6. IF ki = kj THEN IdBeyond(search, i, j)
      ELSE ki # Missing /\ (kj = Missing \/ Beyond(down, ki, kj))
  BY <1>1, <1>3 DEF Precedes
<1>7. k # Missing /\ ki # Missing /\ kj # Missing =>
        (Beyond(down, k, ki) /\ Beyond(down, ki, kj) => Beyond(down, k, kj))
  BY <1>2, BeyondOrders
<1>8. IF k = Missing THEN kj = Missing /\ IdBeyond(search, c.id, j)
      ELSE kj = Missing \/ Beyond(down, k, kj) \/ (kj = k /\ IdBeyond(search, c.id, j))
  BY <1>4, <1>5, <1>6, <1>7
<1> QED BY <1>1, <1>3, <1>8 DEF RowsAfter

LEMMA SearchesOrder ==
  ASSUME RowInv, DueInv, NEW search \in KnownSearches, NEW S \in SUBSET Items(search)
  PROVE  /\ IsFiniteSet(S)
         /\ StrictOrder({p \in S \X S : Precedes(search, p[1], p[2])}, S)
<1>1. IsFiniteSet(S)
  <2>1. IsFiniteSet(KindOfItem(search)) /\ S \in SUBSET KindOfItem(search)
    BY OrderAssumption, ItemsCompare DEF KindOfItem
  <2> QED BY <2>1, FS_Subset
<1>2. \A i, j \in S : <<i, j>> \in {p \in S \X S : Precedes(search, p[1], p[2])}
                        <=> Precedes(search, i, j)
  OBVIOUS
<1>3. \A i \in S : ~Precedes(search, i, i)
  BY ItemsCompare, IdsOrder DEF Precedes
<1>4. ASSUME NEW i \in S, NEW j \in S, i # j
      PROVE  Precedes(search, i, j) \/ Precedes(search, j, i)
  <2>1. PICK ki, kj : ki = Key(search, i) /\ kj = Key(search, j)
    OBVIOUS
  <2>2. {ki, kj} \subseteq Nat \cup {Missing} /\ {i, j} \subseteq KindOfItem(search)
    BY <2>1, ItemsCompare
  <2>3. PICK down \in BOOLEAN : down = Descends(search)
    BY DEF Descends
  <2>4. IdBeyond(search, i, j) \/ IdBeyond(search, j, i)
    BY <1>4, <2>2, IdsOrder
  <2>5. ki # Missing /\ kj # Missing /\ ki # kj => Beyond(down, ki, kj) \/ Beyond(down, kj, ki)
    BY <2>2, BeyondOrders
  <2> QED BY <2>1, <2>3, <2>4, <2>5 DEF Precedes
<1>5. ASSUME NEW i \in S, NEW j \in S, NEW k \in S, Precedes(search, i, j), Precedes(search, j, k)
      PROVE  Precedes(search, i, k)
  <2>1. PICK c : c = CursorFor(search, i)
    OBVIOUS
  <2>2. c # None /\ CursorRight(search, c)
    BY <2>1, ItemsCompare
  <2>3. RowsAfter(search, c, j)
    BY <1>5, <2>1, CursorStands
  <2>4. RowsAfter(search, c, k)
    BY <1>5, <2>2, <2>3, RowsFollow
  <2> QED BY <2>1, <2>4, CursorStands
<1> HIDE DEF StrictOrder
<1>6. StrictOrder({p \in S \X S : Precedes(search, p[1], p[2])}, S)
  <2>1. PICK before : before = {p \in S \X S : Precedes(search, p[1], p[2])}
    OBVIOUS
  <2>2. \A i, j \in S : <<i, j>> \in before <=> Precedes(search, i, j)
    BY <1>2, <2>1
  <2>3. StrictOrder(before, S)
    BY <1>3, <1>4, <1>5, <2>2 DEF StrictOrder
  <2> QED BY <2>1, <2>3
<1> QED BY <1>1, <1>6

-----------------------------------------------------------------------------
(* A page *)

Starts(search, c, i) == c = None \/ RowsAfter(search, c, i)
Behind(search, c, i) == c # None /\ RowsAfter(search, c, i)

\* A page shows what lies from its cursor to the next, and nothing else.
PageRight(search, c, only, page) ==
  /\ page.items \in Seq(Item) /\ CursorRight(search, page.cursor)
  /\ page.cursor # None => page.items # <<>>
  /\ \A i \in Items(search) \cap only :
       IF Starts(search, c, i)
       THEN IF Behind(search, page.cursor, i) THEN Unseen(page.items, i) ELSE Once(page.items, i)
       ELSE Unseen(page.items, i) /\ ~Behind(search, page.cursor, i)

LEMMA RowsAre ==
  ASSUME RowInv, DueInv, NEW search \in KnownSearches, NEW c, NEW only,
         NEW rows, rows = RowsFrom(search, c, only)
  PROVE  /\ rows \in Seq(Items(search) \cap only) /\ DOMAIN rows = 1 .. Len(rows)
         /\ IsFiniteSet(Items(search) \cap only) /\ Len(rows) <= Cardinality(Items(search) \cap only)
         /\ \A m, n \in DOMAIN rows : m < n => Precedes(search, rows[m], rows[n])
         /\ \A m, n \in DOMAIN rows : rows[m] = rows[n] => m = n
         /\ \A i \in Items(search) \cap only :
              Starts(search, c, i) <=> \E n \in DOMAIN rows : rows[n] = i
<1> DEFINE after == {i \in Items(search) \cap only : c = None \/ RowsAfter(search, c, i)}
           before == {p \in after \X after : Precedes(search, p[1], p[2])}
<1>1. rows = Arranged(after, before)
  BY DEF RowsFrom, InOrder
<1>2. after \in SUBSET Items(search)
  OBVIOUS
<1>3. IsFiniteSet(after) /\ StrictOrder(before, after)
  BY <1>2, SearchesOrder
<1>4. IsFiniteSet(Items(search) \cap only)
  <2>1. Items(search) \cap only \in SUBSET Items(search)
    OBVIOUS
  <2> QED BY <2>1, SearchesOrder
<1>5. Cardinality(after) <= Cardinality(Items(search) \cap only)
  <2>1. after \in SUBSET (Items(search) \cap only)
    OBVIOUS
  <2> QED BY <1>4, <2>1, FS_Subset
<1>6. \A i \in Items(search) \cap only : Starts(search, c, i) <=> i \in after
  BY DEF Starts
<1>7. \A i, j : <<i, j>> \in before => Precedes(search, i, j)
  OBVIOUS
<1> HIDE DEF before
<1>8. /\ rows \in Seq(after) /\ Len(rows) = Cardinality(after) /\ DOMAIN rows = 1 .. Len(rows)
      /\ \A m, n \in DOMAIN rows : m < n => <<rows[m], rows[n]>> \in before
      /\ \A m, n \in DOMAIN rows : rows[m] = rows[n] => m = n
      /\ \A i \in after : \E n \in DOMAIN rows : rows[n] = i
  <2> HIDE DEF after
  <2> QED BY <1>1, <1>3, ShownOnce
<1>9. \A n \in DOMAIN rows : rows[n] \in after
  BY <1>8
<1>10. after \subseteq Items(search) \cap only
  OBVIOUS
<1>11. rows \in Seq(Items(search) \cap only)
  BY <1>8, <1>10
<1>12. \A i \in Items(search) \cap only :
         Starts(search, c, i) <=> \E n \in DOMAIN rows : rows[n] = i
  BY <1>6, <1>8, <1>9
<1> HIDE DEF after
<1> QED BY <1>4, <1>5, <1>7, <1>8, <1>11, <1>12

LEMMA PageIs ==
  ASSUME RowInv, DueInv, NEW search \in KnownSearches, NEW c, CursorRight(search, c), NEW only,
         NEW limit \in Nat \ {0}, NEW page, page = PageOf(search, c, only, limit)
  PROVE  PageRight(search, c, only, page)
<1>1. PICK rows : rows = RowsFrom(search, c, only)
  OBVIOUS
<1>2. /\ rows \in Seq(Items(search) \cap only) /\ DOMAIN rows = 1 .. Len(rows)
      /\ \A m, n \in DOMAIN rows : m < n => Precedes(search, rows[m], rows[n])
      /\ \A m, n \in DOMAIN rows : rows[m] = rows[n] => m = n
      /\ \A i \in Items(search) \cap only :
           Starts(search, c, i) <=> \E n \in DOMAIN rows : rows[n] = i
  BY <1>1, RowsAre
<1>3. Items(search) \subseteq Item
  BY DEF Items
<1>4. \A n \in DOMAIN rows : rows[n] \in Items(search) \cap only
  BY <1>2
<1>5. CASE Len(rows) <= limit
  <2>1. page.items = rows /\ page.cursor = None
    <3>1. Len(rows) \in Nat /\ ~(Len(rows) > limit)
      BY <1>2, <1>5
    <3> QED BY <1>1, <3>1 DEF PageOf
  <2>2. rows \in Seq(Item)
    BY <1>2, <1>3
  <2>3. ASSUME NEW i \in Items(search) \cap only
        PROVE  IF Starts(search, c, i) THEN Once(rows, i) ELSE Unseen(rows, i)
    BY <1>2 DEF Once, Unseen
  <2> QED BY <2>1, <2>2, <2>3 DEF PageRight, CursorRight, Behind
<1>6. CASE Len(rows) > limit
  <2>1. PICK last : last = rows[limit]
    OBVIOUS
  <2>2. limit \in DOMAIN rows /\ last \in Items(search)
    BY <1>2, <1>4, <1>6, <2>1
  <2>3. page.items = SubSeq(rows, 1, limit) /\ page.cursor = CursorFor(search, last)
    BY <1>1, <1>2, <1>6, <2>1 DEF PageOf
  <2>4. /\ page.items \in Seq(Items(search) \cap only) /\ DOMAIN page.items = 1 .. limit
        /\ \A n \in 1 .. limit : n \in DOMAIN rows /\ page.items[n] = rows[n]
    BY <1>2, <1>6, <2>2, <2>3
  <2>5. page.items # <<>> /\ page.items \in Seq(Item)
    BY <1>3, <2>4
  <2>6. page.cursor # None /\ CursorRight(search, page.cursor)
    BY <2>2, <2>3, ItemsCompare
  <2>7. \A i : Behind(search, page.cursor, i) <=> Precedes(search, last, i)
    BY <2>2, <2>3, <2>6, CursorStands DEF Behind
  <2>8. PICK before : before = {p \in Items(search) \X Items(search) : Precedes(search, p[1], p[2])}
    OBVIOUS
  <2>9. StrictOrder(before, Items(search))
    BY <2>8, SearchesOrder
  <2>10. \A i, j \in Items(search) : <<i, j>> \in before <=> Precedes(search, i, j)
    BY <2>8
  <2>11. ASSUME NEW i \in Items(search) \cap only, Starts(search, c, i)
         PROVE  IF Behind(search, page.cursor, i) THEN Unseen(page.items, i)
                ELSE Once(page.items, i)
    <3>1. PICK n \in DOMAIN rows : rows[n] = i
      BY <1>2, <2>11
    <3>2. CASE n <= limit
      <4>1. ~Precedes(search, last, i)
        <5>1. n = limit \/ Precedes(search, i, last)
          BY <1>2, <2>1, <2>2, <3>1, <3>2
        <5>2. n = limit => i = last
          BY <2>1, <3>1
        <5> QED BY <2>2, <2>9, <2>10, <5>1, <5>2 DEF StrictOrder
      <4>2. n \in DOMAIN page.items /\ \A m \in DOMAIN page.items : page.items[m] = i <=> m = n
        BY <1>2, <2>4, <3>1, <3>2
      <4> QED BY <2>7, <4>1, <4>2 DEF Once
    <3>3. CASE n > limit
      <4>1. Precedes(search, last, i)
        BY <1>2, <2>1, <2>2, <3>1, <3>3
      <4>2. Unseen(page.items, i)
        BY <1>2, <2>4, <3>1, <3>3 DEF Unseen
      <4> QED BY <2>7, <4>1, <4>2
    <3> QED BY <1>2, <3>1, <3>2, <3>3
  <2>12. ASSUME NEW i \in Items(search) \cap only, ~Starts(search, c, i)
         PROVE  Unseen(page.items, i) /\ ~Behind(search, page.cursor, i)
    <3>1. \A n \in DOMAIN rows : rows[n] # i
      BY <1>2, <2>12
    <3>2. Unseen(page.items, i)
      BY <2>4, <3>1 DEF Unseen
    <3>3. c # None /\ ~RowsAfter(search, c, i)
      BY <2>12 DEF Starts
    <3>4. RowsAfter(search, c, last)
      <4>1. last \in Items(search) \cap only
        BY <1>4, <2>1, <2>2
      <4> QED BY <1>2, <2>1, <2>2, <3>3, <4>1 DEF Starts
    <3>5. ~Precedes(search, last, i)
      BY <2>2, <3>3, <3>4, RowsFollow
    <3> QED BY <2>7, <3>2, <3>5
  <2> QED BY <2>5, <2>6, <2>11, <2>12 DEF PageRight
<1> QED BY <1>2, <1>5, <1>6

-----------------------------------------------------------------------------
(* The pages of a list *)

\* The items an answer shows, of those from one cursor to the next.
Shows(search, c, items, next, i) ==
  IF Starts(search, c, i)
  THEN IF Behind(search, next, i) THEN Unseen(items, i) ELSE Once(items, i)
  ELSE Unseen(items, i) /\ ~Behind(search, next, i)
Paged(search, items, next, moved) ==
  \A i \in Items(search) \ moved :
    IF Behind(search, next, i) THEN Unseen(items, i) ELSE Once(items, i)

FirstPages(r) ==
  /\ r.only = Item
  /\ IF r.stage = "asked" /\ r.got = <<>> THEN r.cursor = None
     ELSE /\ Paged(r.search, r.got, r.cursor, r.moved)
          /\ r.stage = "asked" => r.cursor # None
NextPage(r, l) ==
  /\ r.only = Item /\ r.search = l.applied /\ l.cursor # None
  /\ r.stage = "asked" => r.cursor = l.cursor /\ r.got = <<>>
  /\ r.stage = "answered" => \A i \in Items(r.search) \ l.moved :
                               Shows(r.search, l.cursor, r.got, r.cursor, i)
ReloadedPage(r, l) ==
  /\ r.search = l.applied /\ r.only = ToSet(l.items)
  /\ r.stage = "asked" => r.cursor = None /\ r.got = <<>> /\ r.depth = Len(l.items)
  /\ r.stage = "answered" => \A i \in Items(r.search) \ l.moved :
                               i \in ToSet(l.items) => i \in ToSet(r.got)

RequestPages(r, l) ==
  /\ r.stage \in {"asked", "answered"}
  /\ r.got \in Seq(Item) /\ CursorRight(r.search, r.cursor)
  /\ r.kind \in {"reset", "refresh"} => FirstPages(r)
  /\ r.kind = "next" => NextPage(r, l)
  /\ r.kind = "reload" => ReloadedPage(r, l)
ListPages(l) ==
  /\ l.items \in Seq(Item) /\ CursorRight(l.applied, l.cursor)
  /\ l.items # <<>> \/ l.cursor # None => Paged(l.applied, l.items, l.cursor, l.moved)

\* What is shown, and what the request that counts has got so far, are the
\* items before the cursor, each once, but for items that moved since.
PagingInv ==
  /\ DueInv /\ ListPages(list)
  /\ \A r \in requests : r.current => RequestPages(r, list)

\* An item keeps its place until it is touched.
LEMMA PlacesStay ==
  ASSUME NEW works \in SUBSET Work, \A w \in Work \ works : row'[w] = row[w],
         NEW search \in KnownSearches, NEW i, i \notin Touched(works)
  PROVE  /\ (i \in Items(search))' <=> i \in Items(search)
         /\ i \in Items(search) => Key(search, i)' = Key(search, i)
<1>1. search.kind \in {"work", "artist", "tag", "series", "trash"}
  BY KindsOfSearches
<1>2. (i \in Items(search))' <=> i \in Items(search)
  BY <1>1, FoundStays DEF Items
<1>3. i \notin works
  BY DEF Touched
<1>4. ASSUME i \in Items(search), search.kind \in {"work", "trash"}
      PROVE  Key(search, i)' = Key(search, i)
  <2>1. i \in Work
    BY <1>4 DEF Items, Found
  <2>2. row'[i] = row[i]
    BY <1>3, <2>1
  <2>3. CASE search.kind = "trash"
    BY <2>2, <2>3 DEF Key
  <2>4. CASE search.kind = "work"
    <3>1. PICK about : about = Described[row[i].about]
      OBVIOUS
    <3>2. Details(i) = about /\ Details(i)' = about
      BY <2>2, <3>1 DEF Details
    <3> QED BY <2>4, <3>2 DEF Key
  <2> QED BY <1>4, <2>3, <2>4
<1>5. ASSUME search.kind \in {"artist", "tag", "series"}
      PROVE  Key(search, i)' = Key(search, i)
  <2>1. \A w \in Work : (w \in WorksIn(search, i))' <=> w \in WorksIn(search, i)
    BY <1>5, WorksInStays
  <2>2. WorksIn(search, i) \subseteq Work /\ WorksIn(search, i)' \subseteq Work
    BY DEF WorksIn
  <2>3. WorksIn(search, i)' = WorksIn(search, i)
    BY <2>1, <2>2
  <2> QED BY <1>5, <2>3 DEF Key
<1> QED BY <1>1, <1>2, <1>4, <1>5

LEMMA ShowsStays ==
  ASSUME NEW works \in SUBSET Work, \A w \in Work \ works : row'[w] = row[w],
         NEW search \in KnownSearches, NEW i, i \notin Touched(works), i \in Items(search)
  PROVE  /\ \A c : Behind(search, c, i)' <=> Behind(search, c, i)
         /\ \A c, items, next : Shows(search, c, items, next, i)' <=> Shows(search, c, items, next, i)
<1>1. Key(search, i)' = Key(search, i)
  BY PlacesStay
<1>2. \A c : RowsAfter(search, c, i)' <=> RowsAfter(search, c, i)
  BY <1>1 DEF RowsAfter
<1> QED BY <1>2 DEF Shows, Starts, Behind

LEMMA PagedStays ==
  ASSUME NEW works \in SUBSET Work, \A w \in Work \ works : row'[w] = row[w],
         NEW search \in KnownSearches, NEW items, NEW c, NEW moved, NEW after,
         moved \cup Touched(works) \subseteq after, Paged(search, items, c, moved)
  PROVE  Paged(search, items, c, after)'
<1>1. ASSUME NEW i, i \notin after, (i \in Items(search))'
      PROVE  (IF Behind(search, c, i) THEN Unseen(items, i) ELSE Once(items, i))'
  <2>1. i \notin Touched(works) /\ i \notin moved
    BY <1>1
  <2>2. i \in Items(search)
    BY <1>1, <2>1, PlacesStay
  <2>3. Behind(search, c, i)' <=> Behind(search, c, i)
    BY <2>1, <2>2, ShowsStays
  <2> QED BY <2>1, <2>2, <2>3 DEF Paged
<1> QED BY <1>1 DEF Paged

\* A request or a list that has only noted what moved.
SamePage(r, q) ==
  /\ q.kind = r.kind /\ q.search = r.search /\ q.cursor = r.cursor /\ q.only = r.only
  /\ q.depth = r.depth /\ q.got = r.got /\ q.stage = r.stage
SameList(l, k) == k.items = l.items /\ k.cursor = l.cursor /\ k.applied = l.applied

LEMMA RequestPagesStay ==
  ASSUME NEW works \in SUBSET Work, \A w \in Work \ works : row'[w] = row[w],
         NEW r, r.search \in KnownSearches, NEW l, RequestPages(r, l),
         NEW q, SamePage(r, q), r.moved \cup Touched(works) \subseteq q.moved,
         NEW k, SameList(l, k), l.moved \cup Touched(works) \subseteq k.moved
  PROVE  RequestPages(q, k)'
<1>1. ASSUME FirstPages(r) PROVE FirstPages(q)'
  <2>1. Paged(r.search, r.got, r.cursor, r.moved) => Paged(r.search, r.got, r.cursor, q.moved)'
    BY PagedStays
  <2> QED BY <1>1, <2>1 DEF FirstPages, SamePage
<1>2. ASSUME NEW i, (i \in Items(r.search))', i \notin k.moved
      PROVE  /\ i \in Items(r.search) /\ i \notin l.moved
             /\ \A c, items, next : Shows(r.search, c, items, next, i)
                                      => Shows(r.search, c, items, next, i)'
  <2>1. i \notin Touched(works) /\ i \notin l.moved
    BY <1>2
  <2>2. i \in Items(r.search)
    BY <1>2, <2>1, PlacesStay
  <2> QED BY <2>1, <2>2, ShowsStays
<1>3. ASSUME NextPage(r, l) PROVE NextPage(q, k)'
  BY <1>2, <1>3 DEF NextPage, SamePage, SameList
<1>4. ASSUME ReloadedPage(r, l) PROVE ReloadedPage(q, k)'
  BY <1>2, <1>4 DEF ReloadedPage, SamePage, SameList
<1> QED BY <1>1, <1>3, <1>4 DEF RequestPages, SamePage, CursorRight, KindOfItem

LEMMA ListPagesStay ==
  ASSUME NEW works \in SUBSET Work, \A w \in Work \ works : row'[w] = row[w],
         NEW l, l.applied \in KnownSearches, ListPages(l),
         NEW k, SameList(l, k), l.moved \cup Touched(works) \subseteq k.moved
  PROVE  ListPages(k)'
<1>1. Paged(l.applied, l.items, l.cursor, l.moved) => Paged(l.applied, l.items, l.cursor, k.moved)'
  BY PagedStays
<1> QED BY <1>1 DEF ListPages, SameList, CursorRight, KindOfItem

LEMMA PagingCarries ==
  ASSUME ListInv, PagingInv, NEW works \in SUBSET Work, \A w \in Work \ works : row'[w] = row[w],
         DueInv', SameList(list, list'), list.moved \cup Touched(works) \subseteq list'.moved,
         \A q \in requests' : q.current =>
           \/ \E r \in requests : /\ r.current /\ SamePage(r, q)
                                  /\ r.moved \cup Touched(works) \subseteq q.moved
           \/ RequestPages(q, list)'
  PROVE  PagingInv'
<1>1. PICK l, k : l = list /\ k = list'
  OBVIOUS
<1>2. SameList(l, k) /\ l.moved \cup Touched(works) \subseteq k.moved
  BY <1>1
<1>3. ListPages(k)'
  <2>1. ListPages(l) /\ l.applied \in KnownSearches
    BY <1>1 DEF PagingInv, ListInv
  <2> QED BY <1>2, <2>1, ListPagesStay
<1>4. ASSUME NEW q \in requests', NEW r \in requests, r.current, SamePage(r, q),
             r.moved \cup Touched(works) \subseteq q.moved
      PROVE  RequestPages(q, k)'
  <2>1. RequestPages(r, l) /\ r.search \in KnownSearches
    BY <1>1, <1>4 DEF PagingInv, ListInv
  <2> QED BY <1>2, <1>4, <2>1, RequestPagesStay
<1>5. ListPages(list)' /\ \A q \in requests' : q.current => RequestPages(q, list)'
  <2>1. ListPages(list)'
    BY <1>1, <1>3 DEF ListPages, Paged
  <2>2. \A q : RequestPages(q, k)' => RequestPages(q, list)'
    BY <1>1 DEF RequestPages, NextPage, ReloadedPage
  <2> QED BY <1>4, <2>1, <2>2
<1> QED BY <1>5 DEF PagingInv

LEMMA PagingKeeps ==
  ASSUME ListInv, PagingInv, row' = row, SameList(list, list'), list'.moved = list.moved,
         \A q \in requests' : q.current => q \in requests \/ RequestPages(q, list)'
  PROVE  PagingInv'
<1>1. PICK works : works = {}
  OBVIOUS
<1>2. works \in SUBSET Work /\ \A w \in Work \ works : row'[w] = row[w]
  BY <1>1
<1>3. Touched(works) = {}
  BY <1>1 DEF Touched
<1>4. DueInv'
  BY DEF PagingInv, DueInv
<1>5. \A q \in requests : SamePage(q, q) /\ q.moved \cup Touched(works) \subseteq q.moved
  BY <1>3 DEF SamePage
<1> QED BY <1>2, <1>3, <1>4, <1>5, PagingCarries

LEMMA NewPages ==
  ASSUME NEW new, new.stage = "asked", new.got = <<>>, NEW l,
         \/ new.kind \in {"reset", "refresh"} /\ new.only = Item /\ new.cursor = None
         \/ /\ new.kind = "next" /\ new.only = Item /\ new.search = l.applied
            /\ new.cursor = l.cursor /\ l.cursor # None /\ CursorRight(l.applied, l.cursor)
         \/ /\ new.kind = "reload" /\ new.search = l.applied /\ new.only = ToSet(l.items)
            /\ new.cursor = None /\ new.depth = Len(l.items)
  PROVE  RequestPages(new, l)'
  BY DEF RequestPages, FirstPages, NextPage, ReloadedPage, CursorRight, KindOfItem

LEMMA SearchRequestHas ==
  ASSUME NEW kind, NEW search, NEW new, new = SearchRequest(kind, search)
  PROVE  /\ RequestShape(new)
         /\ new.kind = kind /\ new.search = search /\ new.cursor = None /\ new.only = Item
         /\ new.depth = 0 /\ new.got = <<>> /\ new.stage = "asked" /\ new.moved = {}
         /\ new.current
  BY DEF SearchRequest, RequestShape

LEMMA SupersededAre ==
  ASSUME ListInv
  PROVE  \A q \in Superseded(requests) : ~q.current
  BY SupersededRequests DEF ListInv

LEMMA ResetListPages ==
  ASSUME ListInv, PagingInv, row' = row, NEW search, ResetList(search)
  PROVE  PagingInv'
<1>1. PICK new : new = SearchRequest("reset", search)
  OBVIOUS
<1>2. new.kind = "reset" /\ new.only = Item /\ new.cursor = None /\ new.got = <<>> /\ new.stage = "asked"
  BY <1>1, SearchRequestHas
<1>3. list' = [list EXCEPT !.error = FALSE, !.asked = search]
      /\ requests' = Superseded(requests) \cup {new}
  BY <1>1 DEF ResetList
<1>4. SameList(list, list') /\ list'.moved = list.moved
  BY <1>3 DEF ListInv, ListShape, SameList
<1>5. RequestPages(new, list)'
  <2>1. PICK k : k = list'
    OBVIOUS
  <2>2. RequestPages(new, k)'
    BY <1>2, NewPages
  <2> QED BY <2>1, <2>2 DEF RequestPages, NextPage, ReloadedPage
<1> QED BY <1>3, <1>4, <1>5, SupersededAre, PagingKeeps

LEMMA DeepHas ==
  ASSUME NEW new, new = Deep
  PROVE  /\ new.kind = "refresh" /\ new.only = Item /\ new.cursor = None
         /\ new.got = <<>> /\ new.stage = "asked"
<1>1. PICK old : old = SearchRequest("refresh", list.applied)
  OBVIOUS
<1>2. PICK depth : new = [old EXCEPT !.depth = depth]
  BY <1>1 DEF Deep
<1> QED BY <1>1, <1>2, SearchRequestHas DEF RequestShape

LEMMA StartRefreshPages ==
  ASSUME ListInv, PagingInv, row' = row, StartRefresh
  PROVE  PagingInv'
<1>1. PICK new : new = Deep
  OBVIOUS
<1>2. new.kind = "refresh" /\ new.only = Item /\ new.cursor = None /\ new.got = <<>> /\ new.stage = "asked"
  BY <1>1, DeepHas
<1>3. list' = [list EXCEPT !.error = FALSE, !.asked = list.applied]
      /\ requests' = Superseded(requests) \cup {new}
  BY <1>1 DEF StartRefresh
<1>4. SameList(list, list') /\ list'.moved = list.moved
  BY <1>3 DEF ListInv, ListShape, SameList
<1>5. RequestPages(new, list)'
  <2>1. PICK k : k = list'
    OBVIOUS
  <2>2. RequestPages(new, k)'
    BY <1>2, NewPages
  <2> QED BY <2>1, <2>2 DEF RequestPages, NextPage, ReloadedPage
<1> QED BY <1>3, <1>4, <1>5, SupersededAre, PagingKeeps

LEMMA ReturnPages == ASSUME ListInv, PagingInv, Return PROVE PagingInv'
<1>1. PICK new : new = Deep
  OBVIOUS
<1>2. new.kind = "refresh" /\ new.only = Item /\ new.cursor = None /\ new.got = <<>> /\ new.stage = "asked"
  BY <1>1, DeepHas
<1>3. /\ list' = [list EXCEPT !.error = FALSE, !.asked = list.applied, !.returning = ~OnTrashPage]
      /\ requests' \subseteq Superseded(requests) \cup {new} /\ row' = row
  BY <1>1 DEF Return
<1>4. SameList(list, list') /\ list'.moved = list.moved
  BY <1>3 DEF ListInv, ListShape, SameList
<1>5. RequestPages(new, list)'
  <2>1. PICK k : k = list'
    OBVIOUS
  <2>2. RequestPages(new, k)'
    BY <1>2, NewPages
  <2> QED BY <2>1, <2>2 DEF RequestPages, NextPage, ReloadedPage
<1> QED BY <1>3, <1>4, <1>5, SupersededAre, PagingKeeps

LEMMA ReloadPages == ASSUME ListInv, PagingInv, Reload PROVE PagingInv'
<1>1. PICK old : old = SearchRequest("reload", list.applied)
  OBVIOUS
<1>2. PICK new : new = [old EXCEPT !.only = Shown, !.depth = Len(list.items)]
  OBVIOUS
<1>3. /\ new.kind = "reload" /\ new.search = list.applied /\ new.only = ToSet(list.items)
      /\ new.cursor = None /\ new.got = <<>> /\ new.stage = "asked" /\ new.depth = Len(list.items)
  BY <1>1, <1>2, SearchRequestHas DEF RequestShape, Shown
<1>4. /\ list' = [list EXCEPT !.returning = FALSE, !.error = FALSE, !.asked = list.applied]
      /\ requests' = Superseded(requests) \cup {new} /\ row' = row
  BY <1>1, <1>2 DEF Reload
<1>5. SameList(list, list') /\ list'.moved = list.moved
  BY <1>4 DEF ListInv, ListShape, SameList
<1>6. RequestPages(new, list)'
  <2>1. PICK k : k = list'
    OBVIOUS
  <2>2. new.search = k.applied /\ new.only = ToSet(k.items) /\ new.depth = Len(k.items)
    BY <1>3, <1>5, <2>1 DEF SameList
  <2>3. RequestPages(new, k)'
    BY <1>3, <2>2, NewPages
  <2> QED BY <2>1, <2>3 DEF RequestPages, NextPage, ReloadedPage
<1> QED BY <1>4, <1>5, <1>6, SupersededAre, PagingKeeps

LEMMA LoadMorePages == ASSUME ListInv, PagingInv, LoadMore PROVE PagingInv'
<1>1. PICK old : old = SearchRequest("next", list.applied)
  OBVIOUS
<1>2. PICK new : new = [old EXCEPT !.cursor = list.cursor]
  OBVIOUS
<1>3. /\ new.kind = "next" /\ new.search = list.applied /\ new.only = Item
      /\ new.cursor = list.cursor /\ new.got = <<>> /\ new.stage = "asked"
  BY <1>1, <1>2, SearchRequestHas DEF RequestShape
<1>4. requests' = requests \cup {new} /\ list' = list /\ row' = row /\ list.cursor # None
  BY <1>1, <1>2 DEF LoadMore
<1>5. CursorRight(list.applied, list.cursor)
  BY DEF PagingInv, ListPages
<1>6. RequestPages(new, list)'
  <2>1. PICK k : k = list'
    OBVIOUS
  <2>2. new.search = k.applied /\ new.cursor = k.cursor /\ k.cursor # None /\ CursorRight(k.applied, k.cursor)
    BY <1>3, <1>4, <1>5, <2>1
  <2>3. RequestPages(new, k)'
    BY <1>3, <2>2, NewPages
  <2> QED BY <2>1, <2>3 DEF RequestPages, NextPage, ReloadedPage
<1>7. SameList(list, list')
  BY <1>4 DEF SameList
<1> QED BY <1>4, <1>6, <1>7, PagingKeeps

LEMMA PageStays ==
  ASSUME row' = row, NEW q, q.search \in KnownSearches, NEW l, RequestPages(q, l)
  PROVE  RequestPages(q, l)'
<1>1. PICK works : works = {}
  OBVIOUS
<1>2. works \in SUBSET Work /\ (\A w \in Work \ works : row'[w] = row[w]) /\ Touched(works) = {}
  BY <1>1 DEF Touched
<1>3. /\ SamePage(q, q) /\ q.moved \cup Touched(works) \subseteq q.moved
      /\ SameList(l, l) /\ l.moved \cup Touched(works) \subseteq l.moved
  BY <1>2 DEF SamePage, SameList
<1> QED BY <1>2, <1>3, RequestPagesStay

\* A first page, and the next page of a list that is read again.
LEMMA FirstPagesGoOn ==
  ASSUME NEW r, RequestPages(r, list), r.stage = "asked", r.kind \in {"reset", "refresh"},
         NEW page, PageRight(r.search, r.cursor, r.only, page),
         NEW new, new.search = r.search, new.only = r.only, new.cursor = page.cursor,
         new.got = r.got \o page.items, new.moved = IF r.got = <<>> THEN {} ELSE r.moved,
         new.stage \in {"asked", "answered"}, new.stage = "asked" => page.cursor # None
  PROVE  FirstPages(new)
<1>1. /\ r.only = Item /\ r.got \in Seq(Item)
      /\ page.items \in Seq(Item) /\ (page.cursor # None => page.items # <<>>)
  BY DEF RequestPages, FirstPages, PageRight
<1>2. new.stage = "asked" => new.got # <<>>
  BY <1>1
<1>3. \A i \in Items(r.search) :
        IF Starts(r.search, r.cursor, i)
        THEN IF Behind(r.search, page.cursor, i) THEN Unseen(page.items, i)
             ELSE Once(page.items, i)
        ELSE Unseen(page.items, i) /\ ~Behind(r.search, page.cursor, i)
  <2>1. Items(r.search) \cap Item = Items(r.search)
    BY DEF Items
  <2> QED BY <1>1, <2>1 DEF PageRight
<1>4. Paged(r.search, new.got, page.cursor, new.moved)
  <2>1. CASE r.got = <<>>
    <3>1. r.cursor = None /\ new.got = page.items
      BY <1>1, <2>1 DEF RequestPages, FirstPages
    <3> QED BY <1>3, <3>1 DEF Paged, Starts
  <2>2. CASE r.got # <<>>
    <3>1. Paged(r.search, r.got, r.cursor, r.moved) /\ r.cursor # None
      BY <2>2 DEF RequestPages, FirstPages
    <3>2. \A i : Starts(r.search, r.cursor, i) <=> Behind(r.search, r.cursor, i)
      BY <3>1 DEF Starts, Behind
    <3>3. ASSUME NEW i \in Items(r.search) \ r.moved
          PROVE  IF Behind(r.search, page.cursor, i) THEN Unseen(new.got, i) ELSE Once(new.got, i)
      <4>1. IF Behind(r.search, r.cursor, i) THEN Unseen(r.got, i) ELSE Once(r.got, i)
        BY <3>1 DEF Paged
      <4> QED BY <1>1, <1>3, <3>2, <4>1, Appended
    <3> QED BY <2>2, <3>3 DEF Paged
  <2> QED BY <2>1, <2>2
<1> QED BY <1>1, <1>2, <1>4 DEF FirstPages

\* No more items than were shown are read again, and so all of them fit.
LEMMA ReloadReadsAll ==
  ASSUME RowInv, DueInv, ListPages(list), NEW r, r.search \in KnownSearches,
         ReloadedPage(r, list), r.stage = "asked",
         NEW page, page = PageOf(r.search, r.cursor, r.only, r.depth)
  PROVE  /\ page.items \in Seq(Item) /\ page.cursor = None
         /\ \A i \in Items(r.search) : i \in ToSet(list.items) => i \in ToSet(page.items)
<1>1. r.only = ToSet(list.items) /\ r.cursor = None /\ r.depth = Len(list.items)
  BY DEF ReloadedPage
<1>2. PICK items : items = list.items /\ items \in Seq(Item)
  BY DEF ListPages
<1>3. PICK search, c, only : search = r.search /\ c = r.cursor /\ only = r.only
  OBVIOUS
<1>4. PICK rows, some : rows = RowsFrom(search, c, only) /\ some = Items(search) \cap only
  OBVIOUS
<1>5. /\ rows \in Seq(some) /\ DOMAIN rows = 1 .. Len(rows)
      /\ IsFiniteSet(some) /\ Len(rows) <= Cardinality(some)
      /\ \A i \in some : Starts(search, c, i) <=> \E n \in DOMAIN rows : rows[n] = i
  <2>1. search \in KnownSearches
    BY <1>3
  <2>2. /\ rows \in Seq(Items(search) \cap only) /\ DOMAIN rows = 1 .. Len(rows)
        /\ IsFiniteSet(Items(search) \cap only)
        /\ Len(rows) <= Cardinality(Items(search) \cap only)
        /\ \A i \in Items(search) \cap only :
             Starts(search, c, i) <=> \E n \in DOMAIN rows : rows[n] = i
    BY <1>4, <2>1, RowsAre
  <2> QED BY <1>4, <2>2
<1>6. Cardinality(some) <= Len(items) /\ Cardinality(some) \in Nat
  <2>1. items \in [1 .. Len(items) -> ToSet(items)] /\ Len(items) \in Nat
    BY <1>2 DEF ToSet
  <2>2. items \in Surjection(1 .. Len(items), ToSet(items))
    BY <1>2, <2>1 DEF Surjection, ToSet
  <2>3. IsFiniteSet(1 .. Len(items)) /\ Cardinality(1 .. Len(items)) = Len(items)
    <3>1. PICK size \in Nat : size = Len(items)
      BY <2>1
    <3>2. IsFiniteSet(1 .. size) /\ Cardinality(1 .. size) = size
      BY FS_Interval
    <3> QED BY <3>1, <3>2
  <2>4. IsFiniteSet(ToSet(items)) /\ Cardinality(ToSet(items)) <= Len(items)
    BY <2>2, <2>3, FS_Surjection
  <2>5. some \in SUBSET ToSet(items)
    BY <1>1, <1>2, <1>3, <1>4
  <2>6. Cardinality(some) <= Cardinality(ToSet(items))
    BY <2>4, <2>5, FS_Subset
  <2>7. Cardinality(some) \in Nat /\ Cardinality(ToSet(items)) \in Nat
    BY <1>5, <2>4, FS_CardinalityType
  <2> QED BY <2>1, <2>4, <2>6, <2>7
<1>7. ~(Len(rows) > r.depth)
  <2>1. Len(rows) \in Nat /\ Len(items) \in Nat
    BY <1>2, <1>5
  <2> QED BY <1>1, <1>2, <1>5, <1>6, <2>1
<1>8. page.items = rows /\ page.cursor = None
  BY <1>3, <1>4, <1>7 DEF PageOf
<1>9. some \subseteq Item
  BY <1>4 DEF Items
<1>10. page.items \in Seq(Item)
  BY <1>5, <1>8, <1>9
<1>11. ASSUME NEW i \in Items(r.search), i \in ToSet(list.items)
       PROVE  i \in ToSet(page.items)
  <2>1. i \in some /\ Starts(r.search, r.cursor, i)
    BY <1>1, <1>3, <1>4, <1>11 DEF Starts
  <2> QED BY <1>3, <1>5, <1>8, <2>1 DEF ToSet
<1> QED BY <1>8, <1>10, <1>11

LEMMA ServePagePages ==
  ASSUME ListInv, RowInv, PagingInv, NEW r \in requests, ServePage(r)
  PROVE  PagingInv'
<1>1. PICK page : page = PageOf(r.search, r.cursor, r.only,
                                IF r.kind = "reload" THEN r.depth ELSE Limit)
  OBVIOUS
<1>2. PICK got, moved : got = r.got \o page.items /\ moved = IF r.got = <<>> THEN {} ELSE r.moved
  OBVIOUS
<1>3. PICK goesOn \in BOOLEAN :
        goesOn = (r.kind = "refresh" /\ Len(got) < r.depth /\ page.cursor # None)
  OBVIOUS
<1>4. PICK stage : stage = IF goesOn THEN "asked" ELSE "answered"
  OBVIOUS
<1>5. PICK new : new = [r EXCEPT !.got = got, !.cursor = page.cursor, !.moved = moved,
                                 !.stage = stage]
  OBVIOUS
<1>6. /\ r.stage = "asked" /\ requests' = (requests \ {r}) \cup {new}
      /\ row' = row /\ list' = list
  BY <1>1, <1>2, <1>3, <1>4, <1>5 DEF ServePage
<1>7. /\ new.got = got /\ new.cursor = page.cursor /\ new.moved = moved /\ new.stage = stage
      /\ new.kind = r.kind /\ new.search = r.search /\ new.only = r.only /\ new.current = r.current
  BY <1>5 DEF ListInv, RequestShape
<1>8. SameList(list, list') /\ list'.moved = list.moved
  BY <1>6 DEF SameList
<1>9. ASSUME r.current PROVE RequestPages(new, list)
  <2>1. /\ RequestPages(r, list) /\ r.search \in KnownSearches /\ DueInv /\ ListPages(list)
        /\ r.kind \in {"reset", "next", "refresh", "reload"}
    BY <1>9 DEF PagingInv, ListInv, Awaits
  <2>2. r.got \in Seq(Item) /\ CursorRight(r.search, r.cursor)
    BY <2>1 DEF RequestPages
  <2>3. ASSUME r.kind # "reload"
        PROVE  PageRight(r.search, r.cursor, r.only, page)
    <3>1. page = PageOf(r.search, r.cursor, r.only, Limit)
      BY <1>1, <2>3
    <3>2. PICK search, c, only : search = r.search /\ c = r.cursor /\ only = r.only
      OBVIOUS
    <3>3. PageRight(search, c, only, page)
      BY <2>1, <2>2, <3>1, <3>2, LimitAssumption, PageIs
    <3> QED BY <3>2, <3>3
  <2>4. CASE r.kind \in {"reset", "refresh"}
    <3>1. PageRight(r.search, r.cursor, r.only, page)
      BY <2>3, <2>4
    <3>2. FirstPages(new)
      BY <1>2, <1>3, <1>4, <1>6, <1>7, <2>1, <2>4, <3>1, FirstPagesGoOn
    <3>3. new.got \in Seq(Item) /\ CursorRight(new.search, new.cursor)
      BY <1>2, <1>7, <2>2, <3>1 DEF PageRight
    <3> QED BY <1>4, <1>7, <2>4, <3>2, <3>3 DEF RequestPages
  <2>5. CASE r.kind = "next"
    <3>1. PageRight(r.search, r.cursor, r.only, page)
      BY <2>3, <2>5
    <3>2. /\ r.only = Item /\ r.search = list.applied /\ list.cursor # None
          /\ r.cursor = list.cursor /\ r.got = <<>>
      BY <1>6, <2>1, <2>5 DEF RequestPages, NextPage
    <3>3. page.items \in Seq(Item) /\ got = page.items /\ CursorRight(r.search, page.cursor)
      BY <1>2, <3>1, <3>2 DEF PageRight
    <3>4. Items(r.search) \subseteq Item
      BY DEF Items
    <3>5. \A i \in Items(r.search) : Shows(r.search, list.cursor, got, page.cursor, i)
      BY <3>1, <3>2, <3>3, <3>4 DEF PageRight, Shows
    <3>6. stage = "answered"
      BY <1>3, <1>4, <2>5
    <3> QED BY <1>7, <2>5, <3>2, <3>3, <3>5, <3>6 DEF RequestPages, NextPage
  <2>6. CASE r.kind = "reload"
    <3>1. ReloadedPage(r, list)
      BY <2>1, <2>6 DEF RequestPages
    <3>2. page = PageOf(r.search, r.cursor, r.only, r.depth)
      BY <1>1, <2>6
    <3>3. /\ page.items \in Seq(Item) /\ page.cursor = None
          /\ \A i \in Items(r.search) : i \in ToSet(list.items) => i \in ToSet(page.items)
      BY <1>6, <2>1, <3>1, <3>2, ReloadReadsAll
    <3>4. got = page.items /\ r.search = list.applied /\ r.only = ToSet(list.items)
      <4>1. r.got = <<>> /\ r.search = list.applied /\ r.only = ToSet(list.items)
        BY <1>6, <3>1 DEF ReloadedPage
      <4> QED BY <1>2, <3>3, <4>1
    <3>5. stage = "answered"
      BY <1>3, <1>4, <2>6
    <3> QED BY <1>7, <2>6, <3>3, <3>4, <3>5 DEF RequestPages, ReloadedPage, CursorRight
  <2> QED BY <2>1, <2>4, <2>5, <2>6
<1>10. ASSUME r.current PROVE RequestPages(new, list)'
  <2>1. PICK l : l = list
    OBVIOUS
  <2>2. RequestPages(new, l)
    BY <1>9, <1>10, <2>1
  <2>3. new.search \in KnownSearches
    BY <1>7 DEF ListInv
  <2>4. RequestPages(new, l)'
    BY <1>6, <2>2, <2>3, PageStays
  <2>5. l = list'
    BY <1>6, <2>1
  <2> QED BY <2>4, <2>5 DEF RequestPages, NextPage, ReloadedPage
<1> QED BY <1>6, <1>7, <1>8, <1>10, PagingKeeps

LEMMA ReceivePages ==
  ASSUME ListInv, PagingInv, NEW r \in requests, Receive(r)
  PROVE  PagingInv'
<1>1. r.stage = "answered" /\ requests' = requests \ {r} /\ row' = row
  BY DEF Receive
<1>2. CASE ~r.current
  <2>1. SameList(list, list') /\ list'.moved = list.moved
    BY <1>2 DEF Receive, SameList
  <2> QED BY <1>1, <2>1, PagingKeeps
<1>3. CASE r.current
  <2>1. /\ RequestPages(r, list) /\ ListPages(list) /\ r.search \in KnownSearches
        /\ Awaits(r, list) /\ list.applied \in KnownSearches
    BY <1>3 DEF PagingInv, ListInv
  <2>2. \A q \in requests' : ~q.current
    BY <1>1, <1>3 DEF ListInv
  <2>3. PICK k : k = list'
    OBVIOUS
  <2>4. k = WithPage(r)
    BY <1>3, <2>3 DEF Receive
  <2>5. ListPages(k) /\ k.applied \in KnownSearches
    <3>1. CASE r.kind \in {"reset", "refresh"}
      <4>1. k = [list EXCEPT !.items = r.got, !.cursor = r.cursor,
                             !.applied = r.search, !.moved = r.moved]
        BY <2>4, <3>1 DEF WithPage
      <4>2. k.items = r.got /\ k.cursor = r.cursor /\ k.applied = r.search /\ k.moved = r.moved
        BY <4>1 DEF ListInv, ListShape
      <4> QED BY <1>1, <2>1, <3>1, <4>2 DEF RequestPages, FirstPages, ListPages
    <3>2. CASE r.kind = "next"
      <4>1. k = [list EXCEPT !.items = @ \o r.got, !.cursor = r.cursor]
        BY <2>4, <3>2 DEF WithPage
      <4>2. /\ k.items = list.items \o r.got /\ k.cursor = r.cursor
            /\ k.applied = list.applied /\ k.moved = list.moved
        BY <4>1 DEF ListInv, ListShape
      <4>3. /\ r.search = list.applied /\ list.cursor # None
            /\ r.got \in Seq(Item) /\ CursorRight(r.search, r.cursor)
            /\ \A i \in Items(r.search) \ list.moved :
                 Shows(r.search, list.cursor, r.got, r.cursor, i)
        BY <1>1, <2>1, <3>2 DEF RequestPages, NextPage
      <4>4. /\ list.items \in Seq(Item)
            /\ Paged(list.applied, list.items, list.cursor, list.moved)
        BY <2>1, <4>3 DEF ListPages
      <4>5. ASSUME NEW i \in Items(list.applied) \ list.moved
            PROVE  IF Behind(list.applied, r.cursor, i) THEN Unseen(k.items, i)
                   ELSE Once(k.items, i)
        <5>1. IF Behind(list.applied, list.cursor, i) THEN Unseen(list.items, i)
              ELSE Once(list.items, i)
          BY <4>4 DEF Paged
        <5>2. Behind(list.applied, list.cursor, i) <=> Starts(list.applied, list.cursor, i)
          BY <4>3 DEF Behind, Starts
        <5>3. Shows(list.applied, list.cursor, r.got, r.cursor, i)
          BY <4>3
        <5> QED BY <4>2, <4>3, <4>4, <5>1, <5>2, <5>3, Appended DEF Shows
      <4>6. k.items \in Seq(Item)
        BY <4>2, <4>3, <4>4
      <4> QED BY <2>1, <4>2, <4>3, <4>5, <4>6 DEF ListPages, Paged
    <3>3. CASE r.kind = "reload"
      <4>1. PICK items, got, kept : items = list.items /\ got = r.got /\ kept = Kept(items, got)
        OBVIOUS
      <4>2. k = [list EXCEPT !.items = kept]
        BY <2>4, <3>3, <4>1 DEF WithPage
      <4>3. /\ k.items = kept /\ k.cursor = list.cursor
            /\ k.applied = list.applied /\ k.moved = list.moved
        BY <4>2 DEF ListInv, ListShape
      <4>4. /\ r.search = list.applied
            /\ \A i \in Items(list.applied) \ list.moved : i \in ToSet(items) => i \in ToSet(got)
        BY <1>1, <2>1, <3>3, <4>1 DEF RequestPages, ReloadedPage
      <4>5. items \in Seq(Item) /\ CursorRight(list.applied, list.cursor)
        BY <2>1, <4>1 DEF ListPages
      <4>6. /\ kept \in Seq(Item)
            /\ \A i : Unseen(items, i) => Unseen(kept, i)
            /\ \A i \in ToSet(got) : Once(items, i) => Once(kept, i)
        BY <4>1, <4>5, KeptIs
      <4>7. ASSUME kept # <<>> \/ list.cursor # None
            PROVE  items # <<>> \/ list.cursor # None
        <5>1. CASE items = <<>>
          <6>1. \A i : Unseen(kept, i)
            BY <4>6, <5>1 DEF Unseen
          <6>2. kept = <<>>
            <7>1. Len(kept) \in Nat /\ DOMAIN kept = 1 .. Len(kept)
              BY <4>6
            <7>2. 1 \notin DOMAIN kept
              BY <6>1 DEF Unseen
            <7> QED BY <4>6, <7>1, <7>2
          <6> QED BY <4>7, <6>2
        <5> QED BY <5>1
      <4>8. ASSUME kept # <<>> \/ list.cursor # None,
                   NEW i \in Items(list.applied) \ list.moved
            PROVE  IF Behind(list.applied, list.cursor, i) THEN Unseen(kept, i) ELSE Once(kept, i)
        <5>1. IF Behind(list.applied, list.cursor, i) THEN Unseen(items, i) ELSE Once(items, i)
          BY <2>1, <4>1, <4>7, <4>8 DEF ListPages, Paged
        <5>2. Once(items, i) => i \in ToSet(items)
          BY DEF Once, ToSet
        <5> QED BY <4>4, <4>6, <5>1, <5>2
      <4> QED BY <2>1, <4>3, <4>5, <4>6, <4>8 DEF ListPages, Paged
    <3> QED BY <2>1, <3>1, <3>2, <3>3 DEF Awaits
  <2>6. ListPages(k)'
    <3>1. PICK works : works = {}
      OBVIOUS
    <3>2. works \in SUBSET Work /\ (\A w \in Work \ works : row'[w] = row[w]) /\ Touched(works) = {}
      BY <1>1, <3>1 DEF Touched
    <3>3. SameList(k, k) /\ k.moved \cup Touched(works) \subseteq k.moved
      BY <3>2 DEF SameList
    <3> QED BY <2>5, <3>2, <3>3, ListPagesStay
  <2>7. ListPages(list)'
    BY <2>3, <2>6 DEF ListPages, Paged
  <2>8. DueInv'
    BY <1>1 DEF PagingInv, DueInv
  <2> QED BY <2>2, <2>7, <2>8 DEF PagingInv
<1> QED BY <1>2, <1>3

LEMMA LosePagePages ==
  ASSUME ListInv, PagingInv, NEW r \in requests, LosePage(r)
  PROVE  PagingInv'
<1>1. /\ requests' = requests \ {r} /\ row' = row
      /\ list' = IF r.current /\ r.kind # "next"
                 THEN [list EXCEPT !.error = TRUE, !.asked = list.applied] ELSE list
  BY DEF LosePage
<1>2. SameList(list, list') /\ list'.moved = list.moved
  BY <1>1 DEF ListInv, ListShape, SameList
<1> QED BY <1>1, <1>2, PagingKeeps

\* Works change: what a list and its requests know of them is noted.
LEMMA NoteChangePages ==
  ASSUME ListInv, PagingInv, NEW works \in SUBSET Work, \A w \in Work \ works : row'[w] = row[w],
         DueInv', NEW sel, NoteChange(works, sel)
  PROVE  PagingInv'
<1>1. PICK items : items = Touched(works)
  OBVIOUS
<1>2. /\ list' = [list EXCEPT !.moved = @ \cup items]
      /\ requests' = {[r EXCEPT !.moved = @ \cup items] : r \in requests}
  BY <1>1 DEF NoteChange
<1>3. SameList(list, list') /\ list'.moved = list.moved \cup items
  BY <1>2 DEF ListInv, ListShape, SameList
<1>4. ASSUME NEW r \in requests, NEW q, q = [r EXCEPT !.moved = @ \cup items]
      PROVE  SamePage(r, q) /\ q.moved = r.moved \cup items /\ q.current = r.current
  BY <1>4 DEF ListInv, RequestShape, SamePage
<1>5. \A q \in requests' : q.current =>
        \E r \in requests : r.current /\ SamePage(r, q) /\ r.moved \cup items \subseteq q.moved
  BY <1>2, <1>4
<1> QED BY <1>1, <1>3, <1>5, PagingCarries

LEMMA WorkStepDue ==
  ASSUME RowInv, DueInv, NEW w \in Work,
         Collect(w) \/ SaveDetail(w) \/ MoveToTrash(w) \/ Restore(w) \/ Purge(w)
  PROVE  DueInv' /\ \E to : Change(w, to)
<1>1. RowShape(row[w]) /\ row[w].due \in {Sooner, Later}
      /\ row[w].purge \in {"none", "queued", "started"}
  BY DEF RowInv, DueInv
<1>2. ASSUME NEW to, Change(w, to), to.due \in {Sooner, Later}
      PROVE  DueInv'
  BY <1>2 DEF Change, RowInv, DueInv
<1>3. CASE Collect(w)
  <2>1. PICK to : to = [row[w] EXCEPT !.state = "collected", !.stored = TRUE]
    OBVIOUS
  <2>2. Change(w, to) /\ to.due = row[w].due
    BY <1>1, <1>3, <2>1 DEF Collect, RowShape
  <2> QED BY <1>1, <1>2, <2>2
<1>4. CASE SaveDetail(w)
  <2>1. PICK about : Change(w, [row[w] EXCEPT !.about = about])
    BY <1>4 DEF SaveDetail
  <2>2. PICK to : to = [row[w] EXCEPT !.about = about]
    OBVIOUS
  <2>3. Change(w, to) /\ to.due = row[w].due
    BY <1>1, <2>1, <2>2 DEF RowShape
  <2> QED BY <1>1, <1>2, <2>3
<1>5. CASE MoveToTrash(w)
  <2>1. PICK to : to = [row[w] EXCEPT !.state = "trash"]
    OBVIOUS
  <2>2. Change(w, to) /\ to.due = row[w].due
    BY <1>1, <1>5, <2>1 DEF MoveToTrash, RowShape
  <2> QED BY <1>1, <1>2, <2>2
<1>6. CASE Restore(w)
  <2>1. PICK to : to = Restored(row[w])
    OBVIOUS
  <2>2. Change(w, to)
    BY <1>6, <2>1 DEF Restore
  <2>3. to.due = Sooner
    BY <1>1, <2>1 DEF RowShape, Restored
  <2> QED BY <1>2, <2>2, <2>3
<1>7. CASE Purge(w)
  <2>1. PICK to : to = CASE row[w].purge = "none" -> [row[w] EXCEPT !.purge = "queued"]
                         [] row[w].purge = "queued" -> [row[w] EXCEPT !.purge = "started"]
                         [] row[w].purge = "started" -> [row[w] EXCEPT !.state = "purged"]
    OBVIOUS
  <2>2. Change(w, to)
    BY <1>7, <2>1 DEF Purge
  <2>3. to.due = row[w].due
    BY <1>1, <2>1 DEF RowShape
  <2> QED BY <1>1, <1>2, <2>2, <2>3
<1> QED BY <1>3, <1>4, <1>5, <1>6, <1>7

LEMMA WorkStepPages ==
  ASSUME ListInv, RowInv, PagingInv, WorkStep
  PROVE  PagingInv'
<1>1. PICK w \in Work :
        Collect(w) \/ SaveDetail(w) \/ MoveToTrash(w) \/ Restore(w) \/ Purge(w)
  BY DEF WorkStep
<1>2. DueInv' /\ \E to : Change(w, to)
  BY <1>1, WorkStepDue DEF PagingInv
<1>3. PICK to : row' = [row EXCEPT ![w] = to] /\ NoteChange({w}, selection)
  BY <1>2 DEF Change
<1>4. PICK sel, works : sel = selection /\ works = {w}
  OBVIOUS
<1>5. works \in SUBSET Work /\ (\A v \in Work \ works : row'[v] = row[v]) /\ NoteChange(works, sel)
  BY <1>3, <1>4 DEF RowInv
<1> QED BY <1>2, <1>5, NoteChangePages

LEMMA ServeCommandPages ==
  ASSUME ListInv, SelectionInv, RowInv, PagingInv, NEW m \in selection.commands, ServeCommand(m)
  PROVE  PagingInv'
<1>1. CommandInv(m)
  BY DEF SelectionInv, SelInv
<1>2. m.search.kind \in {"work", "artist", "tag", "series", "trash"}
      /\ m.command \in {"trash", "restore", "reschedule", "purge"}
  BY <1>1, KindsOfSearches DEF CommandInv
<1>3. PICK works : works = WorksOf(m.search, Selected(m.search, m.choice))
  OBVIOUS
<1>4. PICK changed : changed = IF Refused(m, works) THEN {} ELSE works
  OBVIOUS
<1>5. PICK next : next = [selection EXCEPT !.commands = (@ \ {m}) \cup
                            {[m EXCEPT !.stage = IF Refused(m, works) THEN "refused" ELSE "answered"]}]
  OBVIOUS
<1>6. /\ row' = [w \in Work |-> IF w \in changed THEN Commanded(m.command, row[w]) ELSE row[w]]
      /\ NoteChange(changed, next)
  BY <1>3, <1>4, <1>5 DEF ServeCommand
<1>7. works \subseteq Work
  <2>1. CASE m.search.kind \in {"work", "trash"}
    BY <1>3, <2>1 DEF WorksOf, Selected, Items, Found
  <2>2. CASE m.search.kind \in {"artist", "tag", "series"}
    BY <1>3, <2>2 DEF WorksOf, WorksIn
  <2> QED BY <1>2, <2>1, <2>2
<1>8. changed \in SUBSET Work /\ \A w \in Work \ changed : row'[w] = row[w]
  BY <1>4, <1>6, <1>7
<1>9. ASSUME NEW w \in Work, NEW to, to = Commanded(m.command, row[w])
      PROVE  to.due \in {Sooner, Later}
  <2>1. RowShape(row[w]) /\ row[w].due \in {Sooner, Later}
    BY DEF RowInv, PagingInv, DueInv
  <2>2. CASE m.command = "trash"
    <3>1. to = [row[w] EXCEPT !.state = "trash"]
      BY <1>9, <2>2 DEF Commanded
    <3> QED BY <2>1, <3>1 DEF RowShape
  <2>3. CASE m.command = "restore"
    <3>1. to = Restored(row[w])
      BY <1>9, <2>3 DEF Commanded
    <3> QED BY <2>1, <3>1 DEF RowShape, Restored
  <2>4. CASE m.command = "reschedule"
    <3>1. to = PutOff(row[w])
      BY <1>9, <2>4 DEF Commanded
    <3> QED BY <2>1, <3>1 DEF RowShape, PutOff
  <2>5. CASE m.command = "purge"
    <3>1. PICK purge : to = [row[w] EXCEPT !.purge = purge]
      <4>1. to = [row[w] EXCEPT !.purge = IF @ = "none" THEN "queued" ELSE @]
        BY <1>9, <2>5 DEF Commanded
      <4> QED BY <2>1, <4>1
    <3> QED BY <2>1, <3>1 DEF RowShape
  <2> QED BY <1>2, <2>2, <2>3, <2>4, <2>5
<1>10. DueInv'
  <2>1. ASSUME NEW w \in Work PROVE row'[w].due \in {Sooner, Later}
    <3>1. row'[w] = row[w] \/ row'[w] = Commanded(m.command, row[w])
      BY <1>6
    <3> QED BY <1>9, <3>1 DEF PagingInv, DueInv
  <2> QED BY <2>1 DEF DueInv
<1> QED BY <1>6, <1>8, <1>10, NoteChangePages

LEMMA PagingStarts == GalleryInit => PagingInv
<1> SUFFICES ASSUME GalleryInit PROVE PagingInv
  OBVIOUS
<1>1. DueInv
  BY DEF GalleryInit, DueInv
<1>2. PICK s : /\ list = [items |-> <<>>, cursor |-> None, applied |-> s, asked |-> s,
                          error |-> FALSE, returning |-> FALSE, moved |-> {}]
               /\ requests = {SearchRequest("reset", s)}
  BY DEF GalleryInit, Opened
<1>3. ListPages(list)
  BY <1>2 DEF ListPages, CursorRight
<1>4. PICK new : new = SearchRequest("reset", s)
  OBVIOUS
<1>5. new.kind = "reset" /\ new.only = Item /\ new.cursor = None /\ new.got = <<>> /\ new.stage = "asked"
  BY <1>4, SearchRequestHas
<1>6. RequestPages(new, list)
  BY <1>5 DEF RequestPages, FirstPages, CursorRight
<1> QED BY <1>1, <1>2, <1>3, <1>4, <1>6 DEF PagingInv

LEMMA PagingContinues ==
  ASSUME GalleryInv, PagingInv, [GalleryNext]_galleryVars
  PROVE  PagingInv'
<1> USE DEF GalleryInv
<1>1. ASSUME row' = row, list' = list, requests' \subseteq requests PROVE PagingInv'
  BY <1>1, PagingKeeps DEF SameList
<1>2. CASE ListStep
  <2>1. ASSUME NEW s, Reset(s) PROVE PagingInv'
    BY <2>1, ResetListPages DEF Reset
  <2>2. CASE Refresh
    BY <2>2, StartRefreshPages DEF Refresh
  <2> QED BY <1>2, <2>1, <2>2, LoadMorePages, ReturnPages, ReloadPages, ServePagePages,
             ReceivePages, LosePagePages DEF ListStep
<1>3. CASE SelectionStep
  <2>1. ASSUME NEW m \in selection.commands, ServeCommand(m) PROVE PagingInv'
    BY <2>1, ServeCommandPages
  <2>2. ASSUME NEW m \in selection.commands, ReceiveDone(m) PROVE PagingInv'
    BY <1>1, <2>2, ResetListPages, StartRefreshPages DEF ReceiveDone
  <2>3. ASSUME ~\E m \in selection.commands : ServeCommand(m) \/ ReceiveDone(m)
        PROVE  UNCHANGED <<row, list, requests>>
    BY <1>3, <2>3 DEF SelectionStep, Enter, Exit, Clear, Toggle, SelectAll, Invert,
              ServeProjection, Settle, LoseProjection, Trash, Command, ReceiveRefusal, LoseCommand
  <2> QED BY <1>1, <2>1, <2>2, <2>3
<1>4. CASE WorkStep
  BY <1>4, WorkStepPages
<1>5. CASE UNCHANGED galleryVars
  BY <1>1, <1>5 DEF galleryVars
<1> QED BY <1>2, <1>3, <1>4, <1>5 DEF GalleryNext

\* What is before the cursor is shown once, whatever came between two pages:
\* works that moved, searches given up, a list read again at its depth or item
\* by item (push_cursor, push_order, searchToDepth, refreshLoadedItems).
THEOREM PagingInvariant == GallerySpec => []PagingInv
<1>1. GalleryInit => PagingInv
  BY PagingStarts
<1>2. GalleryInv /\ PagingInv /\ [GalleryNext]_galleryVars => PagingInv'
  BY PagingContinues
<1> QED BY <1>1, <1>2, GalleryInvariant, PTL DEF GallerySpec

\* Paging by cursor skips no item and repeats none (search_in_scope).
THEOREM PagesSkipNothing == GallerySpec => []NoneSkipped
<1>1. PagingInv => NoneSkipped
  <2> SUFFICES ASSUME PagingInv, list.items # <<>>,
                      NEW i \in Items(list.applied) \ list.moved,
                      NEW places, places = {n \in DOMAIN list.items : list.items[n] = i}
               PROVE  Cardinality(places) =
                        IF list.cursor # None /\ RowsAfter(list.applied, list.cursor, i) THEN 0 ELSE 1
    BY DEF NoneSkipped
  <2>1. IF list.cursor # None /\ RowsAfter(list.applied, list.cursor, i)
        THEN Unseen(list.items, i) ELSE Once(list.items, i)
    BY DEF PagingInv, ListPages, Paged, Behind
  <2>2. ASSUME Unseen(list.items, i) PROVE Cardinality(places) = 0
    <3>1. places = {}
      BY <2>2 DEF Unseen
    <3> QED BY <3>1, FS_EmptySet
  <2>3. ASSUME Once(list.items, i) PROVE Cardinality(places) = 1
    <3>1. PICK n \in DOMAIN list.items : \A m \in DOMAIN list.items : list.items[m] = i <=> m = n
      BY <2>3 DEF Once
    <3>2. places = {n}
      BY <3>1
    <3> QED BY <3>2, FS_Singleton
  <2> QED BY <2>1, <2>2, <2>3
<1> QED BY <1>1, PagingInvariant, PTL
=============================================================================
