----------------------------- MODULE TaskScreenProofs -----------------------------
(***************************************************************************)
(* The task page keeps its types and its promises, for any number of       *)
(* tasks, of requests under way and of acts of the user and of others.     *)
(*                                                                         *)
(* TaskOutcomes says what each handler amounts to; here the invariants are    *)
(* kept by each of those outcomes.  The board (the detail) knows what      *)
(* there is when no notice is under way, nothing went unannounced and no   *)
(* answer is still to tell it of a change; the latest load then has what   *)
(* the server would return, and so has the screen once it is answered.     *)
(***************************************************************************)
EXTENDS TaskOutcomes

USE TaskClientAssumption, TaskScreenAssumption
    DEF TaskClientAssumption, TaskScreenAssumption

-----------------------------------------------------------------------------
(* What the steps amount to: requests are answered or made, what a load    *)
(* brought is shown, a batch is given up, the detail is taken away, the    *)
(* server takes a request on, or others do something.                      *)
Acts(n, asked) ==
  /\ n \in {0} \cup DOMAIN flight /\ Settled(n, asked) /\ UNCHANGED <<rows, born, joining>>
  /\ \/ notice' = notice
     \/ notice' = FALSE /\ Loading(asked) /\ (Fetched(asked) \/ detail'.id = None)
  /\ Rendered \/ board' = board

Leaves ==
  /\ Hushed(0, DetailOps) /\ detail' = NoDetail /\ board.open = None
  /\ UNCHANGED <<serverVars, unseen, board>>

Amounts ==
  \/ \E n, asked : Acts(n, asked)
  \/ \E n : Rendered /\ (ListShown(n) \/ FetchShown(n) \/ BatchEnds(n)) /\ UNCHANGED serverVars
  \/ Leaves
  \/ (\E n, s : Served(n, s)) /\ UNCHANGED <<board, detail>>
  \/ Happens /\ UNCHANGED <<board, detail>>

Counted == clicks \in 0..MaxClicks /\ foreign \in 0..MaxForeign /\ losses \in 0..MaxLosses

LEMMA SettlesAmounts ==
  ASSUME Settles, UNCHANGED serverVars, Rendered \/ board' = board
  PROVE  Amounts
<1>1. PICK n \in {0} \cup DOMAIN flight, asked \in Seq(Wanted) : Settled(n, asked)
  BY DEF Settles
<1>2. Acts(n, asked)
  BY <1>1 DEF Acts, serverVars
<1> QED
  BY <1>2 DEF Amounts

LEMMA RenderAmounts ==
  ASSUME Typed, Render
  PROVE  Amounts
<1>1. UNCHANGED serverVars /\ UNCHANGED board
  BY DEF Render, serverVars
<1>2. CASE board.open = None /\ Unmount
  <2>1. Leaves
    BY <1>1, <1>2, UnmountHushes DEF Leaves, Unmount
  <2> QED
    BY <2>1 DEF Amounts
<1>3. CASE board.open # None /\ (Mount(board.open) \/ ShowOther(board.open))
  BY <1>1, <1>3, MountSettles, SettlesAmounts
<1> QED
  BY <1>2, <1>3 DEF Render

LEMMA BoardAnswerAmounts ==
  ASSUME Typed, Rendered, BoardAnswer, UNCHANGED detail
  PROVE  Amounts
<1>1. UNCHANGED serverVars
  BY DEF BoardAnswer, serverVars
<1>2. PICK n \in DOMAIN flight : ListAnswer(n) \/ ChangeAnswer(n) \/ BatchAnswer(n) \/ CreateAnswer(n)
  BY DEF BoardAnswer
<1>3. CASE ListAnswer(n)
  BY <1>1, <1>3, ListAnswerShows DEF Amounts
<1>4. CASE ChangeAnswer(n)
  <2>1. ~TellsDetail(flight[n])
    BY <1>4 DEF ChangeAnswer, TellsDetail
  <2> QED
    BY <1>1, <1>4, <2>1, ChangeAnswerOutcome, BoardSettled, SettlesAmounts
<1>5. CASE CreateAnswer(n)
  <2>1. ~TellsDetail(flight[n])
    BY <1>5 DEF CreateAnswer, TellsDetail
  <2> QED
    BY <1>1, <1>5, <2>1, CreateAnswerOutcome, BoardSettled, SettlesAmounts
<1>6. CASE BatchAnswer(n) /\ flight[n].heard /\ flight[n].ok
  <2>1. ~TellsDetail(flight[n])
    BY <1>6 DEF BatchAnswer, TellsDetail
  <2> QED
    BY <1>1, <1>6, <2>1, BatchHeardOutcome, BoardSettled, SettlesAmounts
<1>7. CASE BatchAnswer(n) /\ ~(flight[n].heard /\ flight[n].ok)
  BY <1>1, <1>7, BatchLeaves DEF Amounts
<1> QED
  BY <1>2, <1>3, <1>4, <1>5, <1>6, <1>7

LEMMA DetailAnswerAmounts ==
  ASSUME Typed, Attended, Rendered, DetailAnswer, UNCHANGED board
  PROVE  Amounts
<1>1. UNCHANGED serverVars
  BY DEF DetailAnswer, serverVars
<1>2. PICK n \in DOMAIN flight : Answered(n) /\ (FetchAnswer(n) \/ EditAnswer(n) \/ PickerAnswer(n))
  BY DEF DetailAnswer
<1>3. CASE FetchAnswer(n)
  BY <1>1, <1>3, FetchAnswerShows DEF Amounts
<1>4. CASE EditAnswer(n)
  <2>1. flight[n].heard => detail.id # None
    BY <1>4 DEF Attended, EditAnswer, OfDetail
  <2> QED
    BY <1>1, <1>2, <1>4, <2>1, EditAnswerSettles, SettlesAmounts
<1>5. CASE PickerAnswer(n)
  BY <1>1, <1>2, <1>5, PickerAnswerSettles, SettlesAmounts
<1> QED
  BY <1>2, <1>3, <1>4, <1>5

LEMMA DeleteAnswerAmounts ==
  ASSUME Typed, Rendered, NEW n \in DOMAIN flight, DeleteAnswer(n)
  PROVE  Amounts
<1>1. UNCHANGED serverVars
  BY DEF DeleteAnswer, serverVars
<1>2. CASE flight[n].ok
  <2>1. UNCHANGED detail /\ flight[n].op = "delete" /\ board'.open = None
    <3>1. /\ UNCHANGED detail /\ flight[n].op = "delete"
          /\ board' = [Deselected(board) EXCEPT !.loading = TRUE, !.error = FALSE, !.fresh = FALSE]
      BY <1>2 DEF DeleteAnswer, Loads
    <3> QED
      BY <3>1 DEF Deselected, Typed, Board
  <2> QED
    BY <1>1, <1>2, <2>1, DeletedOutcome, BoardSettled, SettlesAmounts
<1>3. CASE ~flight[n].ok
  BY <1>1, <1>3, NotDeletedSettles, SettlesAmounts
<1> QED
  BY <1>2, <1>3

LEMMA NoticeAmounts ==
  ASSUME Typed, Rendered, DeliverNotice
  PROVE  Amounts
<1>1. PICK asked \in Seq(Wanted) : /\ Settled(0, asked) /\ Loading(asked)
                                   /\ Fetched(asked) \/ detail'.id = None
  BY NoticeSettles
<1>2. notice' = FALSE /\ UNCHANGED <<rows, born, joining>>
  BY DEF DeliverNotice
<1>3. Acts(0, asked)
  BY <1>1, <1>2 DEF Acts
<1> QED
  BY <1>3 DEF Amounts

LEMMA ClicksAmount ==
  ASSUME Typed, Addressed(board), Rendered,
         \/ BoardClick /\ UNCHANGED detail
         \/ DetailClick /\ UNCHANGED board
         \/ Back \/ NavigateTask \/ CreateChild
  PROVE  Amounts
<1>1. UNCHANGED serverVars
  BY DEF BoardClick, DetailClick, Back, NavigateTask, CreateChild, serverVars
<1>2. CASE BoardClick /\ UNCHANGED detail
  BY <1>1, <1>2, ClickOutcome, BoardSettled, SettlesAmounts, NotZero
<1>3. CASE DetailClick /\ UNCHANGED board
  BY <1>1, <1>3, DetailClickSettles, SettlesAmounts
<1>4. CASE Back \/ CreateChild
  BY <1>1, <1>4, BackOutcome, CreateChildOutcome, BoardSettled, SettlesAmounts, NotZero
     DEF Back, CreateChild
<1>5. CASE NavigateTask
  BY <1>1, <1>5, NavigateSettles, SettlesAmounts
<1> QED
  BY <1>2, <1>3, <1>4, <1>5

LEMMA NextAmounts ==
  ASSUME Typed, Attended, Addressed(board), Next
  PROVE  Amounts
<1>1. CASE Render
  BY <1>1, RenderAmounts
<1>2. CASE Rendered /\ ((Serve \/ Others \/ \E n \in DOMAIN flight : Fail(n)) /\ Quiet)
  BY <1>2, ServeServes, FailServes, OthersHappen DEF Quiet, Amounts
<1>3. CASE Rendered /\ (\/ BoardClick /\ UNCHANGED detail
                        \/ DetailClick /\ UNCHANGED board
                        \/ Back \/ NavigateTask \/ CreateChild)
  BY <1>3, ClicksAmount
<1>4. CASE Rendered /\ BoardAnswer /\ UNCHANGED detail
  BY <1>4, BoardAnswerAmounts
<1>5. CASE Rendered /\ DetailAnswer /\ UNCHANGED board
  BY <1>5, DetailAnswerAmounts
<1>6. CASE Rendered /\ \E n \in DOMAIN flight : DeleteAnswer(n)
  BY <1>6, DeleteAnswerAmounts
<1>7. CASE Rendered /\ DeliverNotice
  BY <1>7, NoticeAmounts
<1> QED
  BY <1>1, <1>2, <1>3, <1>4, <1>5, <1>6, <1>7 DEF Next, Step

LEMMA NextCounts ==
  ASSUME Typed, Next
  PROVE  Counted' /\ UNCHANGED mode
<1>1. Counted
  BY DEF Typed, Counted
<1>2. ASSUME UNCHANGED <<clicks, foreign, losses, mode>> PROVE Counted' /\ UNCHANGED mode
  BY <1>1, <1>2 DEF Counted
<1>3. ASSUME clicks' = clicks + 1, clicks < MaxClicks, UNCHANGED <<foreign, losses, mode>>
      PROVE  Counted' /\ UNCHANGED mode
  BY <1>1, <1>3 DEF Counted
<1>4. ASSUME foreign' = foreign + 1, foreign < MaxForeign, UNCHANGED <<clicks, losses, mode>>
      PROVE  Counted' /\ UNCHANGED mode
  BY <1>1, <1>4 DEF Counted
<1>5. ASSUME losses' = losses + 1, losses < MaxLosses, UNCHANGED <<clicks, foreign, mode>>
      PROVE  Counted' /\ UNCHANGED mode
  BY <1>1, <1>5 DEF Counted
<1>6. CASE Render \/ BoardAnswer \/ DetailAnswer \/ (\E n \in DOMAIN flight : DeleteAnswer(n)) \/ DeliverNotice
           \/ Serve
  BY <1>2, <1>6 DEF Render, BoardAnswer, DetailAnswer, DeleteAnswer, DeliverNotice, Serve
<1>7. CASE \E n \in DOMAIN flight : Fail(n)
  BY <1>5, <1>7 DEF Fail
<1>8. CASE Others
  BY <1>2, <1>4, <1>5, <1>8 DEF Others, ForeignUpdate, ForeignDelete, ForeignCreate, ForeignJoin, LoseNotice, Foreign
<1>9. CASE DetailClick \/ Back \/ NavigateTask \/ CreateChild
  BY <1>3, <1>9 DEF DetailClick, Back, NavigateTask, CreateChild, Click
<1>10. CASE BoardClick
  <2>1. UNCHANGED <<mode, foreign, losses>>
    BY <1>10 DEF BoardClick
  <2>2. CASE SetFilter \/ Toolbar \/ OpenCreate \/ Batch \/ BatchCancel \/ CreateDialog
             \/ SprintPanel \/ Escape \/ PopState \/ \E t \in Task : CardClick(t) \/ CardMenu(t) \/ Drag(t)
    <3>1. Click
      BY <2>2 DEF SetFilter, Toolbar, OpenCreate, Batch, BatchCancel, CreateDialog, SprintPanel, Escape,
                  PopState, CardClick, CardMenu, Drag
    <3> QED
      BY <1>3, <2>1, <3>1 DEF Click
  <2>3. CASE Drop
    BY <1>2, <2>1, <2>3 DEF Drop
  <2> QED
    BY <1>10, <2>2, <2>3 DEF BoardClick
<1> QED
  BY <1>6, <1>7, <1>8, <1>9, <1>10 DEF Next, Step

-----------------------------------------------------------------------------
(* A spinner stands for a request.                                         *)
Spinning ==
  /\ board.loading => \E m \in DOMAIN flight : flight[m].op \in Listings
  /\ detail.loading => \E m \in DOMAIN flight : flight[m].op = "fetch" /\ flight[m].heard
  /\ board.busy => \E m \in DOMAIN flight : Busies(flight[m])

Sound == Typed /\ Saving /\ OneLatest /\ Addressed(board) /\ Attended /\ Spinning

LEMMA NotAnswered ==
  ASSUME NEW n, NEW asked, Turn(n, asked), NEW m \in DOMAIN flight \ {n}
  PROVE  \E i \in DOMAIN flight' : /\ flight'[i].op = flight[m].op
                                   /\ flight'[i].heard <=> flight[m].heard
BY DEF Turn, Weaker

LEMMA AskedSent ==
  ASSUME Typed, NEW n, NEW asked \in Seq(Wanted), Turn(n, asked), NEW k \in DOMAIN asked
  PROVE  \E i \in DOMAIN flight' : flight'[i].op = asked[k].op /\ flight'[i].heard
<1>1. asked[k] \in Wanted
  BY ElementOfSeq
<1>2. Sent(asked[k]).op = asked[k].op
  BY <1>1, WantedSent DEF Same, Typed
<1> QED
  BY <1>2 DEF Turn, Weaker

-----------------------------------------------------------------------------
(* The types.                                                              *)
LEMMA TurnTypes ==
  ASSUME Typed, NEW n, NEW asked, Turn(n, asked)
  PROVE  flight' \in Seq(Underway) /\ unseen' \in [{"board", "detail"} -> BOOLEAN]
<1>1. DOMAIN unseen = {"board", "detail"} /\ \A w \in DOMAIN unseen : unseen[w] \in BOOLEAN
  BY DEF Typed
<1>2. unseen' = [w \in {"board", "detail"} |->
                   unseen[w] /\ \A k \in DOMAIN asked : Loader(asked[k]) # w]
  BY <1>1 DEF Turn
<1>3. flight' \in Seq(Underway)
  BY DEF Turn
<1> QED
  BY <1>2, <1>3

LEMMA AmountsTyped ==
  ASSUME Typed, Amounts, UNCHANGED mode, Counted'
  PROVE  Typed'
<1>0. Counted' => clicks' \in 0..MaxClicks /\ foreign' \in 0..MaxForeign /\ losses' \in 0..MaxLosses
  BY DEF Counted
<1>1. ASSUME NEW n, NEW asked, Acts(n, asked)
      PROVE  Typed'
  <2>1. /\ Turn(n, asked) /\ board' \in Board /\ detail' \in Detail /\ Known(detail')
        /\ UNCHANGED <<rows, born, joining>>
    BY <1>1 DEF Acts, Settled, BoardPart, DetailPart
  <2>2. notice' \in BOOLEAN
    BY <1>1 DEF Acts, Typed
  <2> QED
    BY <1>0, <2>1, <2>2, TurnTypes DEF Typed, RowsTyped
<1>2. ASSUME NEW n, ListShown(n) \/ FetchShown(n), UNCHANGED serverVars
      PROVE  Typed'
  <2>1. Turn(n, <<>>) /\ board' \in Board /\ detail' \in Detail /\ Known(detail')
    BY <1>2 DEF ListShown, FetchShown, Typed
  <2> QED
    BY <1>0, <1>2, <2>1, TurnTypes DEF Typed, RowsTyped, serverVars
<1>3. ASSUME NEW n, BatchEnds(n), UNCHANGED serverVars
      PROVE  Typed'
  <2>1. unseen' = [unseen EXCEPT !["board"] = TRUE] /\ flight' \in Seq(Underway)
    BY <1>3 DEF BatchEnds, Hushed
  <2> QED
    BY <1>0, <1>3, <2>1 DEF Typed, RowsTyped, serverVars, BatchEnds
<1>4. CASE Leaves
  <2>1. detail' \in Detail /\ Known(detail')
    BY <1>4 DEF Leaves, NoDetail, Detail, Known
  <2> QED
    BY <1>0, <1>4, <2>1 DEF Leaves, Hushed, Typed, RowsTyped, serverVars
<1>5. ASSUME NEW n, NEW s, Served(n, s), UNCHANGED <<board, detail>>
      PROVE  Typed'
  <2>1. flight' \in Seq(Underway)
    BY <1>5 DEF Served, Typed
  <2> QED
    BY <1>0, <1>5, <2>1 DEF Served, Typed, WorldTyped
<1>6. CASE Happens /\ UNCHANGED <<board, detail>>
  BY <1>0, <1>6 DEF Happens, Typed, WorldTyped
<1> QED
  BY <1>1, <1>2, <1>3, <1>4, <1>5, <1>6 DEF Amounts

-----------------------------------------------------------------------------
(* Answering and sending keeps what a spinner stands for.                  *)
LEMMA StillUnderWay ==
  ASSUME NEW n, NEW asked, Turn(n, asked), NEW m \in DOMAIN flight \ {n}
  PROVE  /\ flight[m].op \in Listings => \E i \in DOMAIN flight' : flight'[i].op \in Listings
         /\ flight[m].op = "fetch" /\ flight[m].heard
              => \E i \in DOMAIN flight' : flight'[i].op = "fetch" /\ flight'[i].heard
         /\ Busies(flight[m]) => \E i \in DOMAIN flight' : Busies(flight'[i])
BY NotAnswered DEF Busies

LEMMA HushedUnderWay ==
  ASSUME NEW n, NEW hushed, Hushed(n, hushed), NEW m \in DOMAIN flight \ {n}
  PROVE  \E i \in DOMAIN flight' :
           /\ flight'[i].op = flight[m].op
           /\ flight'[i].heard <=> (flight[m].heard /\ flight[m].op \notin hushed)
BY DEF Hushed, Weaker

LEMMA AmountsSpinning ==
  ASSUME Typed, Spinning, Amounts
  PROVE  Spinning'
<1>1. ASSUME NEW n, NEW asked, Acts(n, asked)
      PROVE  Spinning'
  <2>1. /\ asked \in Seq(Wanted) /\ Turn(n, asked) /\ n \in {0} \cup DOMAIN flight
        /\ BoardPart(n, asked) /\ DetailPart(n, asked)
    BY <1>1 DEF Acts, Settled, BoardPart
  <2>2. n \in DOMAIN flight => flight[n].op \notin Listings /\ flight[n].op # "fetch"
    BY <2>1 DEF BoardPart, Loaded
  <2>3. ASSUME board'.loading PROVE \E i \in DOMAIN flight' : flight'[i].op \in Listings
    <3>1. CASE Loading(asked)
      BY <2>1, <3>1, AskedSent DEF Loading
    <3>2. CASE board.loading
      <4>1. PICK m \in DOMAIN flight : flight[m].op \in Listings
        BY <3>2 DEF Spinning
      <4> QED
        BY <2>1, <2>2, <4>1, StillUnderWay
    <3> QED
      BY <2>1, <2>3, <3>1, <3>2 DEF BoardPart
  <2>4. ASSUME detail'.loading
        PROVE  \E i \in DOMAIN flight' : flight'[i].op = "fetch" /\ flight'[i].heard
    <3>1. CASE Fetched(asked)
      BY <2>1, <3>1, AskedSent DEF Fetched
    <3>2. CASE detail.loading
      <4>1. PICK m \in DOMAIN flight : flight[m].op = "fetch" /\ flight[m].heard
        BY <3>2 DEF Spinning
      <4> QED
        BY <2>1, <2>2, <4>1, StillUnderWay
    <3> QED
      BY <2>1, <2>4, <3>1, <3>2 DEF DetailPart
  <2>5. ASSUME board'.busy PROVE \E i \in DOMAIN flight' : Busies(flight'[i])
    <3>1. ASSUME NEW k \in DOMAIN asked, Busies(asked[k])
          PROVE  \E i \in DOMAIN flight' : Busies(flight'[i])
      <4>1. PICK i \in DOMAIN flight' : flight'[i].op = asked[k].op /\ flight'[i].heard
        BY <2>1, AskedSent
      <4> QED
        BY <3>1, <4>1 DEF Busies
    <3>2. CASE board.busy /\ ~LastOf(n, Busies)
      <4>1. PICK m \in DOMAIN flight : Busies(flight[m])
        BY <3>2 DEF Spinning
      <4>2. \E l \in DOMAIN flight \ {n} : Busies(flight[l])
        BY <3>2, <4>1 DEF LastOf
      <4> QED
        BY <2>1, <4>2, StillUnderWay
    <3> QED
      BY <2>1, <2>5, <3>1, <3>2 DEF BoardPart
  <2> QED
    BY <2>3, <2>4, <2>5 DEF Spinning
<1>2. ASSUME NEW n, ListShown(n)
      PROVE  Spinning'
  <2>1. /\ Turn(n, <<>>) /\ n \in DOMAIN flight /\ flight[n].op \in Listings /\ flight[n].op # "fetch"
        /\ ~board'.loading /\ (board'.busy => board.busy /\ flight[n].op # "last")
        /\ detail' = detail
    BY <1>2 DEF ListShown, Listings
  <2>2. detail'.loading => \E i \in DOMAIN flight' : flight'[i].op = "fetch" /\ flight'[i].heard
    BY <2>1, StillUnderWay DEF Spinning
  <2>3. board'.busy => \E i \in DOMAIN flight' : Busies(flight'[i])
    <3>1. flight[n].op # "last" => ~Busies(flight[n])
      BY <2>1 DEF Busies, Listings
    <3> QED
      BY <2>1, <3>1, StillUnderWay DEF Spinning
  <2> QED
    BY <2>1, <2>2, <2>3 DEF Spinning
<1>3. ASSUME NEW n, FetchShown(n)
      PROVE  Spinning'
  <2>1. /\ Turn(n, <<>>) /\ n \in DOMAIN flight /\ flight[n].op = "fetch" /\ board' = board
        /\ detail'.loading => detail.loading /\ ~flight[n].heard
    BY <1>3 DEF FetchShown
  <2>2. flight[n].op \notin Listings /\ ~Busies(flight[n])
    BY <2>1 DEF Listings, Busies
  <2>3. detail'.loading => \E i \in DOMAIN flight' : flight'[i].op = "fetch" /\ flight'[i].heard
    BY <2>1, StillUnderWay DEF Spinning
  <2>4. board'.loading => \E i \in DOMAIN flight' : flight'[i].op \in Listings
    BY <2>1, <2>2, StillUnderWay DEF Spinning
  <2>5. board'.busy => \E i \in DOMAIN flight' : Busies(flight'[i])
    BY <2>1, <2>2, StillUnderWay DEF Spinning
  <2> QED
    BY <2>3, <2>4, <2>5 DEF Spinning
<1>4. ASSUME NEW n, BatchEnds(n)
      PROVE  Spinning'
  <2>1. PICK hushed \in {{}, {flight[n].op}} :
          /\ Hushed(n, hushed)
          /\ board'.busy => board.busy /\ hushed = {} /\ ~flight[n].heard
    BY <1>4 DEF BatchEnds
  <2>2. /\ n \in DOMAIN flight /\ flight[n].op \in {"batch", "batchdel"}
        /\ board'.loading => board.loading
        /\ detail' = detail
    BY <1>4 DEF BatchEnds
  <2>3. flight[n].op \notin Listings /\ flight[n].op # "fetch" /\ "fetch" \notin hushed
    BY <2>2 DEF Listings
  <2>4. detail'.loading => \E i \in DOMAIN flight' : flight'[i].op = "fetch" /\ flight'[i].heard
    <3>1. ASSUME NEW m \in DOMAIN flight, flight[m].op = "fetch", flight[m].heard
          PROVE  \E i \in DOMAIN flight' : flight'[i].op = "fetch" /\ flight'[i].heard
      BY <2>1, <2>3, <3>1, HushedUnderWay
    <3> QED
      BY <2>2, <3>1 DEF Spinning
  <2>5. board'.loading => \E i \in DOMAIN flight' : flight'[i].op \in Listings
    <3>1. ASSUME NEW m \in DOMAIN flight, flight[m].op \in Listings
          PROVE  \E i \in DOMAIN flight' : flight'[i].op \in Listings
      BY <2>1, <2>3, <3>1, HushedUnderWay
    <3> QED
      BY <2>2, <3>1 DEF Spinning
  <2>6. ASSUME board'.busy PROVE \E i \in DOMAIN flight' : Busies(flight'[i])
    <3>1. PICK m \in DOMAIN flight : Busies(flight[m])
      BY <2>1, <2>6 DEF Spinning
    <3>2. m # n
      BY <2>1, <2>2, <2>6, <3>1 DEF Busies
    <3>3. PICK i \in DOMAIN flight' : /\ flight'[i].op = flight[m].op
                                      /\ flight'[i].heard <=> flight[m].heard
      BY <2>1, <2>6, <3>2, HushedUnderWay
    <3> QED
      BY <3>1, <3>3 DEF Busies
  <2> QED
    BY <2>4, <2>5, <2>6 DEF Spinning
<1>5. CASE Leaves
  <2>1. Hushed(0, DetailOps) /\ ~detail'.loading /\ board' = board
    BY <1>5 DEF Leaves, NoDetail
  <2>2. \A m \in DOMAIN flight : m # 0
    BY NotZero
  <2>3. board.loading => \E i \in DOMAIN flight' : flight'[i].op \in Listings
    <3>1. ASSUME NEW m \in DOMAIN flight, flight[m].op \in Listings
          PROVE  \E i \in DOMAIN flight' : flight'[i].op \in Listings
      BY <2>1, <2>2, <3>1, HushedUnderWay
    <3> QED
      BY <3>1 DEF Spinning
  <2>4. ASSUME board.busy PROVE \E i \in DOMAIN flight' : Busies(flight'[i])
    <3>1. PICK m \in DOMAIN flight : Busies(flight[m])
      BY <2>4 DEF Spinning
    <3>2. PICK i \in DOMAIN flight' :
            /\ flight'[i].op = flight[m].op
            /\ flight'[i].heard <=> (flight[m].heard /\ flight[m].op \notin DetailOps)
      BY <2>1, <2>2, HushedUnderWay
    <3> QED
      BY <3>1, <3>2 DEF Busies, DetailOps
  <2> QED
    BY <2>1, <2>3, <2>4 DEF Spinning
<1>6. ASSUME NEW n, NEW s, Served(n, s), UNCHANGED <<board, detail>>
      PROVE  Spinning'
  <2>1. /\ DOMAIN flight' = DOMAIN flight
        /\ \A m \in DOMAIN flight : flight'[m].op = flight[m].op /\ flight'[m].heard = flight[m].heard
    BY <1>6 DEF Served, Same
  <2> QED
    BY <1>6, <2>1 DEF Spinning, Busies
<1>7. CASE Happens /\ UNCHANGED <<board, detail>>
  BY <1>7 DEF Happens, Spinning
<1> QED
  BY <1>1, <1>2, <1>3, <1>4, <1>5, <1>6, <1>7 DEF Amounts

-----------------------------------------------------------------------------
(* The other parts of what holds in every state.                          *)
LEMMA AmountsOneLatest ==
  ASSUME Typed, OneLatest, Amounts
  PROVE  OneLatest'
<1>1. ASSUME NEW n, NEW asked, Turn(n, asked) PROVE OneLatest'
  BY <1>1 DEF Turn
<1>2. ASSUME NEW n, NEW hushed, Hushed(n, hushed) PROVE OneLatest'
  BY <1>2 DEF Hushed
<1>3. ASSUME NEW n, NEW s, Served(n, s) PROVE OneLatest'
  <2>1. /\ DOMAIN flight' = DOMAIN flight
        /\ \A m \in DOMAIN flight : flight'[m].op = flight[m].op /\ flight'[m].latest = flight[m].latest
    BY <1>3 DEF Served, Same
  <2> QED
    BY <2>1 DEF OneLatest, Loader
<1>4. CASE Happens
  BY <1>4 DEF Happens, OneLatest
<1> QED
  BY <1>1, <1>2, <1>3, <1>4
  DEF Amounts, Acts, Settled, BoardPart, ListShown, FetchShown, BatchEnds, Leaves

LEMMA AmountsSaving ==
  ASSUME Typed, Saving, Amounts
  PROVE  Saving'
<1>1. ASSUME NEW n, NEW asked, Acts(n, asked) PROVE Saving'
  BY <1>1 DEF Acts, Settled, BoardPart
<1>2. ASSUME NEW n \in DOMAIN flight, Turn(n, <<>>), flight[n].op # "create", board'.dialog = board.dialog
      PROVE  Saving'
  <2>1. Cardinality(Creating') = Cardinality(Creating \ {n})
    <3>1. \A k \in DOMAIN <<>> : <<>>[k].op # "create"
      OBVIOUS
    <3> QED
      BY <1>2, <3>1 DEF Turn
  <2>2. Creating \ {n} = Creating
    BY <1>2 DEF Creating
  <2> QED
    BY <1>2, <2>1, <2>2 DEF Saving
<1>3. ASSUME NEW n, NEW hushed, Hushed(n, hushed), n \notin Creating, board'.dialog = board.dialog
      PROVE  Saving'
  <2>1. Creating \ {n} = Creating
    BY <1>3
  <2> QED
    BY <1>3, <2>1 DEF Saving, Hushed
<1>4. ASSUME NEW n, ListShown(n) \/ FetchShown(n) PROVE Saving'
  <2>1. /\ n \in DOMAIN flight /\ Turn(n, <<>>) /\ flight[n].op # "create"
        /\ board'.dialog = board.dialog
    BY <1>4 DEF ListShown, FetchShown, Listings
  <2> QED
    BY <1>2, <2>1
<1>5. ASSUME NEW n, BatchEnds(n) PROVE Saving'
  <2>1. n \notin Creating /\ board'.dialog = board.dialog
    BY <1>5 DEF BatchEnds, Creating
  <2> QED
    BY <1>3, <1>5, <2>1 DEF BatchEnds
<1>6. CASE Leaves
  <2>1. 0 \notin Creating
    BY NotZero DEF Creating
  <2> QED
    BY <1>3, <1>6, <2>1 DEF Leaves
<1>7. ASSUME NEW n, NEW s, Served(n, s), UNCHANGED board PROVE Saving'
  <2>1. /\ DOMAIN flight' = DOMAIN flight
        /\ \A m \in DOMAIN flight : flight'[m].op = flight[m].op
    BY <1>7 DEF Served, Same
  <2>2. Creating' = Creating
    BY <2>1 DEF Creating
  <2> QED
    BY <1>7, <2>2 DEF Saving
<1>8. CASE Happens /\ UNCHANGED board
  BY <1>8 DEF Happens, Saving, Creating
<1> QED
  BY <1>1, <1>4, <1>5, <1>6, <1>7, <1>8 DEF Amounts

LEMMA AmountsAddressed ==
  ASSUME Addressed(board), Amounts
  PROVE  Addressed(board')
BY DEF Amounts, Acts, Settled, BoardPart, ListShown, FetchShown, BatchEnds, Leaves

LEMMA AmountsAttended ==
  ASSUME Typed, Attended, Amounts
  PROVE  Attended'
<1>1. ASSUME NEW n, NEW asked, Acts(n, asked) PROVE Attended'
  <2>1. /\ Turn(n, asked) /\ asked \in Seq(Wanted)
        /\ \A k \in DOMAIN asked : OfDetail(asked[k]) => detail'.id # None
        /\ detail.id # None => detail'.id # None
    BY <1>1 DEF Acts, Settled, BoardPart, DetailPart
  <2>2. ASSUME NEW i \in DOMAIN flight', OfDetail(flight'[i]), flight'[i].heard
        PROVE  detail'.id # None
    <3>1. CASE \E m \in DOMAIN flight \ {n} :
                 Weaker(flight'[i], flight[m]) /\ flight'[i].heard = flight[m].heard
      BY <2>1, <2>2, <3>1 DEF Weaker, OfDetail, Attended
    <3>2. ASSUME NEW k \in DOMAIN asked, Weaker(flight'[i], Sent(asked[k]))
          PROVE  detail'.id # None
      <4>1. asked[k] \in Wanted
        BY <2>1, ElementOfSeq
      <4>2. flight'[i].op = asked[k].op
        BY <3>2, <4>1, WantedSent DEF Weaker, Same, Typed
      <4> QED
        BY <2>1, <2>2, <4>2 DEF OfDetail
    <3> QED
      BY <2>1, <3>1, <3>2 DEF Turn
  <2> QED
    BY <2>2 DEF Attended
<1>2. ASSUME NEW n, Turn(n, <<>>), detail'.id = detail.id PROVE Attended'
  <2>1. \A i \in DOMAIN flight' : \E m \in DOMAIN flight :
          flight'[i].op = flight[m].op /\ flight'[i].heard = flight[m].heard
    BY <1>2 DEF Turn, Weaker
  <2> QED
    BY <1>2, <2>1 DEF Attended, OfDetail
<1>3. ASSUME NEW n, NEW hushed, Hushed(n, hushed), detail'.id = detail.id \/ hushed = DetailOps PROVE Attended'
  <2>1. \A i \in DOMAIN flight' : \E m \in DOMAIN flight :
          /\ flight'[i].op = flight[m].op
          /\ flight'[i].heard => flight[m].heard /\ flight[m].op \notin hushed
    BY <1>3 DEF Hushed, Weaker
  <2> QED
    BY <1>3, <2>1 DEF Attended, OfDetail, DetailOps
<1>4. ASSUME NEW n, NEW s, Served(n, s), UNCHANGED detail PROVE Attended'
  <2>1. /\ DOMAIN flight' = DOMAIN flight
        /\ \A m \in DOMAIN flight : flight'[m].op = flight[m].op /\ flight'[m].heard = flight[m].heard
    BY <1>4 DEF Served, Same
  <2> QED
    BY <1>4, <2>1 DEF Attended, OfDetail
<1>5. CASE Happens /\ UNCHANGED detail
  BY <1>5 DEF Happens, Attended
<1>6. ASSUME NEW n, ListShown(n) \/ FetchShown(n) PROVE Attended'
  BY <1>2, <1>6 DEF ListShown, FetchShown
<1>7. ASSUME NEW n, BatchEnds(n) PROVE Attended'
  BY <1>3, <1>7 DEF BatchEnds
<1>8. CASE Leaves
  BY <1>3, <1>8 DEF Leaves
<1> QED
  BY <1>1, <1>4, <1>5, <1>6, <1>7, <1>8 DEF Amounts

LEMMA NextSound ==
  ASSUME Sound, Next
  PROVE  Sound'
<1>1. Amounts
  BY NextAmounts DEF Sound
<1>2. Counted' /\ UNCHANGED mode
  BY NextCounts DEF Sound
<1> QED
  BY <1>1, <1>2, AmountsTyped, AmountsSpinning, AmountsOneLatest, AmountsSaving, AmountsAddressed,
     AmountsAttended DEF Sound, Addressed

LEMMA IdleSound ==
  ASSUME Sound, UNCHANGED vars
  PROVE  Sound'
BY DEF Sound, vars, clientVars, serverVars, Typed, RowsTyped, Saving, Creating, OneLatest, Addressed,
       Attended, Spinning, Busies

-----------------------------------------------------------------------------
(* The first states.                                                       *)
LEMMA InitRows ==
  ASSUME Init
  PROVE  RowsTyped
<1>1. PICK b \in {{}, {Away}} :
        rows = [t \in {Here, Away} |->
                  IF t = Here
                  THEN [Fresh("open") EXCEPT !.proof = TRUE, !.member = TRUE, !.blockers = b]
                  ELSE [Fresh("open") EXCEPT !.home = FALSE]]
  BY DEF Init
<1>2. Fresh("open") \in Row
  BY FreshTyped DEF Status
<1> DEFINE one == [Fresh("open") EXCEPT !.proof = TRUE, !.member = TRUE, !.blockers = b]
           two == [Fresh("open") EXCEPT !.home = FALSE]
<1>3. one \in Row /\ two \in Row
  BY <1>2 DEF Row
<1> HIDE DEF one, two
<1>4. rows = [t \in {Here, Away} |-> IF t = Here THEN one ELSE two]
  BY <1>1 DEF one, two
<1>5. rows \in [{Here, Away} -> Row] /\ {Here, Away} \in SUBSET Task
  BY <1>3, <1>4
<1>6. born = {Here, Away}
  BY DEF Init
<1> QED
  BY <1>5, <1>6 DEF RowsTyped, Listed

(* The board just mounted, or its list loaded.                             *)
Starts ==
  /\ board \in Board /\ board.open = None /\ ~board.busy /\ board.dialog.saving = 0
  /\ \/ /\ board.loading /\ ~board.fresh
        /\ flight = <<[Sent(ListRequest(board, "first")) EXCEPT !.latest = FALSE],
                      Sent(ListRequest(board, "list"))>>
     \/ /\ flight = <<>> /\ ~board.loading
        /\ board.shown = Listing(board.all, board.status)

Started(view, all, shown, fresh, loading, picking, picked, panel, made, sprint, u, dialog) ==
  [view |-> view, status |-> "any", assignee |-> None, hide |-> TRUE, all |-> all,
   shown |-> shown, fresh |-> fresh, loading |-> loading, error |-> FALSE,
   picking |-> picking, picked |-> picked, busy |-> FALSE,
   sprintPanel |-> panel, made |-> made, sprint |-> sprint, naming |-> FALSE,
   drag |-> None, open |-> None, url |-> u, dialog |-> dialog]

Dialog(v) == [open |-> v, title |-> v, status |-> "open", saving |-> 0]

LEMMA InitStarts ==
  ASSUME Init
  PROVE  Starts
<1>0. RowsTyped
  BY InitRows
<1> DEFINE m == mode = "session"
           p == mode = "project"
<1>3. <<>> \in Listed /\ m \in BOOLEAN /\ p \in BOOLEAN /\ None \in Task \cup {None}
      /\ {} \in SUBSET Task
  <2>1. <<>> \in [{} -> Row] /\ {} \in SUBSET Task
    OBVIOUS
  <2> QED
    BY <2>1 DEF Listed
<1>4. /\ Listing(FALSE, "any") \in Listed /\ Listing(TRUE, "any") \in Listed
      /\ DOMAIN Listing(TRUE, "any") \in SUBSET Task
  <2>1. Listing(FALSE, "any") \in Listed /\ Listing(TRUE, "any") \in Listed
    BY <1>0, ListingTyped
  <2> QED
    BY <2>1 DEF Listed
<1> HIDE DEF m, p
<1>5. ASSUME NEW u \in Task, board = Mounted(u),
             flight = <<[Sent(ListRequest(board, "first")) EXCEPT !.latest = FALSE],
                        Sent(ListRequest(board, "list"))>>
      PROVE  Starts
  <2>1. board = Started("board", FALSE, <<>>, FALSE, TRUE, FALSE, {}, FALSE, m, FALSE, u, Dialog(FALSE))
    BY <1>5 DEF Mounted, m, Dialog, Started
  <2> DEFINE b == Started("board", FALSE, <<>>, FALSE, TRUE, FALSE, {}, FALSE, m, FALSE, u, Dialog(FALSE))
  <2>2. b \in Board /\ b.open = None /\ ~b.busy /\ b.dialog.saving = 0 /\ b.loading /\ ~b.fresh
    BY <1>3 DEF Started, Board, Dialog, Status
  <2> HIDE DEF b
  <2> QED
    BY <1>5, <2>1, <2>2 DEF Starts, b
<1> DEFINE loaded == Started("board", FALSE, Listing(FALSE, "any"), TRUE, FALSE, FALSE, {}, p, m, FALSE,
                             None, Dialog(FALSE))
<1>6. [Mounted(None) EXCEPT !.shown = Listing(FALSE, "any"), !.fresh = TRUE,
                            !.loading = FALSE, !.sprintPanel = mode = "project"] = loaded
  <2>1. Mounted(None) = Started("board", FALSE, <<>>, FALSE, TRUE, FALSE, {}, FALSE, m, FALSE, None,
                                Dialog(FALSE))
    BY DEF Mounted, m, Dialog, Started
  <2>2. [Mounted(None) EXCEPT !.shown = Listing(FALSE, "any"), !.fresh = TRUE,
                              !.loading = FALSE, !.sprintPanel = mode = "project"]
        = [Mounted(None) EXCEPT !.shown = Listing(FALSE, "any"), !.fresh = TRUE,
                                !.loading = FALSE, !.sprintPanel = p]
    BY Zenon DEF p
  <2> DEFINE list == Listing(FALSE, "any")
             c == [Mounted(None) EXCEPT !.shown = list, !.fresh = TRUE, !.loading = FALSE, !.sprintPanel = p]
  <2>3. c = Started("board", FALSE, list, TRUE, FALSE, FALSE, {}, p, m, FALSE, None, Dialog(FALSE))
    <3> DEFINE b == Started("board", FALSE, <<>>, FALSE, TRUE, FALSE, {}, FALSE, m, FALSE, None, Dialog(FALSE))
    <3>1. c = [b EXCEPT !.shown = list, !.fresh = TRUE, !.loading = FALSE, !.sprintPanel = p]
      BY <2>1
    <3> HIDE DEF list, c
    <3> QED
      BY <3>1 DEF Started
  <2> QED
    BY <2>2, <2>3
<1>7. CASE flight = <<>> /\ board = loaded
  <2> DEFINE shown == Listing(FALSE, "any")
             picked == {}
             b == Started("board", FALSE, shown, TRUE, FALSE, FALSE, picked, p, m, FALSE, None, Dialog(FALSE))
  <2>2. shown \in Listed /\ picked \in SUBSET Task
    BY <1>4
  <2>3. board = b
    BY <1>7
  <2> HIDE DEF shown, picked
  <2>4. /\ b \in Board /\ b.open = None /\ ~b.busy /\ b.dialog.saving = 0 /\ ~b.loading
        /\ b.shown = shown /\ b.all = FALSE /\ b.status = "any"
    BY <1>3, <2>2 DEF Started, Board, Dialog, Status
  <2> HIDE DEF b
  <2> QED
    BY <1>7, <2>3, <2>4 DEF Starts, shown
<1>8. CASE flight = <<>> /\ board = [loaded EXCEPT !.view = "list", !.all = TRUE,
                        !.shown = Listing(TRUE, "any"), !.picking = TRUE, !.picked = DOMAIN Listing(TRUE, "any")]
  <2>1. board = Started("list", TRUE, Listing(TRUE, "any"), TRUE, FALSE, TRUE, DOMAIN Listing(TRUE, "any"),
                        p, m, FALSE, None, Dialog(FALSE))
    BY <1>8 DEF Started
  <2> DEFINE shown == Listing(TRUE, "any")
             picked == DOMAIN shown
             b == Started("list", TRUE, shown, TRUE, FALSE, TRUE, picked, p, m, FALSE, None, Dialog(FALSE))
  <2>2. shown \in Listed /\ picked \in SUBSET Task
    BY <1>4
  <2>3. board = b
    BY <2>1
  <2> HIDE DEF shown, picked
  <2>4. /\ b \in Board /\ b.open = None /\ ~b.busy /\ b.dialog.saving = 0 /\ ~b.loading
        /\ b.shown = shown /\ b.all = TRUE /\ b.status = "any"
    BY <1>3, <2>2 DEF Started, Board, Dialog, Status
  <2> HIDE DEF b
  <2> QED
    BY <1>8, <2>3, <2>4 DEF Starts, shown
<1>9. CASE flight = <<>> /\ board = [loaded EXCEPT !.dialog.open = TRUE, !.dialog.title = TRUE,
                                        !.made = TRUE, !.sprint = TRUE]
  <2>1. board = Started("board", FALSE, Listing(FALSE, "any"), TRUE, FALSE, FALSE, {}, p, TRUE, TRUE, None,
                        Dialog(TRUE))
    BY <1>9 DEF Started, Dialog
  <2> DEFINE shown == Listing(FALSE, "any")
             picked == {}
             b == Started("board", FALSE, shown, TRUE, FALSE, FALSE, picked, p, TRUE, TRUE, None, Dialog(TRUE))
  <2>2. shown \in Listed /\ picked \in SUBSET Task
    BY <1>4
  <2>3. board = b
    BY <2>1
  <2> HIDE DEF shown, picked
  <2>4. /\ b \in Board /\ b.open = None /\ ~b.busy /\ b.dialog.saving = 0 /\ ~b.loading
        /\ b.shown = shown /\ b.all = FALSE /\ b.status = "any"
    BY <1>3, <2>2 DEF Started, Board, Dialog, Status
  <2> HIDE DEF b
  <2> QED
    BY <1>9, <2>3, <2>4 DEF Starts, shown
<1>10. \A t \in DOMAIN rows : t \in Task
  BY <1>0 DEF RowsTyped
<1>11. BoardInit
  BY DEF Init
<1>12. CASE \E u \in {t \in DOMAIN rows : rows[t].member \/ mode = "project"} :
          /\ board = Mounted(u)
          /\ flight = <<[Sent(ListRequest(board, "first")) EXCEPT !.latest = FALSE],
                        Sent(ListRequest(board, "list"))>>
  BY <1>5, <1>10, <1>12
<1> HIDE DEF loaded
<1>13. CASE /\ flight = <<>>
            /\ board \in {loaded,
                         [loaded EXCEPT !.view = "list", !.all = TRUE, !.shown = Listing(TRUE, "any"),
                                        !.picking = TRUE, !.picked = DOMAIN Listing(TRUE, "any")],
                         [loaded EXCEPT !.dialog.open = TRUE, !.dialog.title = TRUE,
                                        !.made = TRUE, !.sprint = TRUE]}
  BY <1>7, <1>8, <1>9, <1>13
<1> QED
  BY <1>6, <1>11, <1>12, <1>13 DEF BoardInit

(* The two loads of a board that was just mounted.                         *)
LEMMA StartsFlight ==
  ASSUME RowsTyped, Starts
  PROVE  /\ flight \in Seq(Underway)
         /\ \A n \in DOMAIN flight : /\ flight[n].op \in Listings /\ Suits(flight[n], board)
                                     /\ flight[n].ok => flight[n].data = Listing(board.all, board.status)
                                     /\ flight[n].latest => n = 2 /\ ~board.fresh
         /\ board.loading => DOMAIN flight # {}
<1>1. CASE flight = <<>> /\ ~board.loading
  BY <1>1
<1>2. CASE /\ board.loading /\ ~board.fresh
           /\ flight = <<[Sent(ListRequest(board, "first")) EXCEPT !.latest = FALSE],
                         Sent(ListRequest(board, "list"))>>
  <2> DEFINE r(op) == ListRequest(board, op)
  <2>1. ASSUME NEW op \in {"first", "list"}
        PROVE  /\ Sent(r(op)) \in Underway /\ Sent(r(op)).op \in Listings
               /\ Suits(Sent(r(op)), board)
               /\ Sent(r(op)).data = Listing(board.all, board.status)
    <3>1. op \in Listings /\ board \in Board
      BY DEF Listings, Starts
    <3>2. r(op) \in Wanted /\ Suits(r(op), board)
      BY <3>1, ListRequestWanted
    <3>3. r(op) \in Message /\ r(op).op \in Listings
      BY <3>2 DEF Wanted, Suits
    <3> HIDE DEF r
    <3>4. Sent(r(op)) \in Underway /\ Same(Sent(r(op)), r(op))
      BY <3>2, WantedSent
    <3>5. Sent(r(op)).data = Listing(r(op).field = "all", r(op).value)
      BY <3>3, SentAnswers
    <3>6. Listing(r(op).field = "all", r(op).value) = Listing(board.all, board.status)
      <4>1. (r(op).field = "all") = board.all
        BY <3>1, <3>2 DEF Suits, Board
      <4> QED
        BY <3>2, <4>1 DEF Suits
    <3> QED
      BY <3>2, <3>4, <3>5, <3>6 DEF Same, Suits
  <2> DEFINE one == [Sent(r("first")) EXCEPT !.latest = FALSE]
             two == Sent(r("list"))
  <2>2. /\ Weaker(one, Sent(r("first"))) /\ one.latest = FALSE
    BY <2>1, LatestNoMore
  <2>3. /\ one \in Underway /\ one.op \in Listings /\ Suits(one, board) /\ ~one.latest
        /\ one.data = Listing(board.all, board.status)
    BY <2>1, <2>2 DEF Weaker, Suits
  <2>4. /\ two \in Underway /\ two.op \in Listings /\ Suits(two, board)
        /\ two.data = Listing(board.all, board.status)
    BY <2>1
  <2>5. flight = <<one, two>>
    BY <1>2
  <2> HIDE DEF one, two, r
  <2>6. flight \in Seq(Underway) /\ DOMAIN flight = {1, 2} /\ flight[1] = one /\ flight[2] = two
    BY <2>3, <2>4, <2>5
  <2> QED
    BY <1>2, <2>3, <2>4, <2>6
<1> QED
  BY <1>1, <1>2 DEF Starts

LEMMA InitSound ==
  ASSUME Init
  PROVE  Sound
<1>1. RowsTyped /\ Starts
  BY InitRows, InitStarts
<1>2. /\ flight \in Seq(Underway)
      /\ \A n \in DOMAIN flight : flight[n].op \in Listings /\ (flight[n].latest => n = 2)
      /\ board.loading => DOMAIN flight # {}
  BY <1>1, StartsFlight
<1>3. detail \in Detail /\ Known(detail) /\ ~detail.loading
  BY DEF Init, DetailInit, NoDetail, Detail, Known
<1>4. /\ mode \in {"session", "project"} /\ joining \subseteq born /\ notice \in BOOLEAN
      /\ unseen \in [{"board", "detail"} -> BOOLEAN]
      /\ clicks \in 0..MaxClicks /\ foreign \in 0..MaxForeign /\ losses \in 0..MaxLosses
  <2>1. /\ mode \in {"session", "project"} /\ joining = {} /\ notice = FALSE
        /\ unseen = [w \in {"board", "detail"} |-> FALSE] /\ clicks = 0 /\ foreign = 0 /\ losses = 0
    BY DEF Init
  <2>2. 0 \in 0..MaxClicks /\ 0 \in 0..MaxForeign /\ 0 \in 0..MaxLosses
    OBVIOUS
  <2> QED
    BY <2>1, <2>2
<1>5. Typed
  BY <1>1, <1>2, <1>3, <1>4 DEF Typed, Starts
<1>6. Saving
  <2>1. Creating = {}
    BY <1>2 DEF Creating, Listings
  <2> QED
    BY <1>1, <2>1, FS_EmptySet DEF Saving, Starts
<1>7. OneLatest
  BY <1>2 DEF OneLatest
<1>8. Addressed(board) /\ Attended
  BY <1>1, <1>2 DEF Addressed, Starts, Attended, OfDetail, Listings
<1>9. Spinning
  BY <1>1, <1>2, <1>3 DEF Spinning, Starts
<1> QED
  BY <1>5, <1>6, <1>7, <1>8, <1>9 DEF Sound

-----------------------------------------------------------------------------
(* A task that a step closes has proof, or is closed again by an update    *)
(* that had read it closed.                                                *)
ClosesWell ==
  \A t \in DOMAIN rows \cap DOMAIN rows' :
     ~rows[t].closedAt /\ rows'[t].closedAt => rows'[t].proof \/ ReadClosed(t)

LEMMA EditedCloses ==
  ASSUME NEW row \in Row, NEW r, <<r.field, r.value>> \in Change, NEW new \in Updated(row, r)
  PROVE  new \in Row /\ (new.closedAt => new.proof \/ row.closedAt)
<1> DEFINE e == Edited(row, r)
           c == e.closedAt \/ Closing(e)
<1>1. e \in Row /\ (e.closedAt <=> row.closedAt)
  <2>1. e \in Row
    BY EditedTyped
  <2>2. r.field \in {"status", "proof", "owner", "other", "kept"}
    BY DEF Change
  <2>3. e.closedAt <=> row.closedAt
    BY <2>2 DEF Edited, Row
  <2> QED
    BY <2>1, <2>3
<1>2. new = [e EXCEPT !.closedAt = c] /\ ~(Closing(e) /\ ~e.proof)
  BY DEF Updated
<1>3. c \in BOOLEAN
  BY <1>1 DEF Closing, Row
<1>4. c => Closing(e) \/ row.closedAt
  BY <1>1
<1> HIDE DEF e, c
<1>5. new \in Row /\ (new.closedAt <=> c) /\ (new.proof <=> e.proof)
  BY <1>1, <1>2, <1>3 DEF Row
<1> QED
  BY <1>2, <1>4, <1>5

LEMMA SameClosing ==
  ASSUME \A t \in DOMAIN rows \cap DOMAIN rows' : rows'[t].closedAt <=> rows[t].closedAt
  PROVE  ClosesWell
BY DEF ClosesWell

LEMMA OneRowCloses ==
  ASSUME RowsTyped, NEW t \in DOMAIN rows, NEW row, rows' = [rows EXCEPT ![t] = row],
         ~rows[t].closedAt /\ row.closedAt => row.proof \/ ReadClosed(t)
  PROVE  ClosesWell
<1>1. DOMAIN rows' = DOMAIN rows /\ \A u \in DOMAIN rows : rows'[u] = IF u = t THEN row ELSE rows[u]
  BY DEF RowsTyped, Listed
<1> QED
  BY <1>1 DEF ClosesWell

LEMMA ErasedClosing ==
  ASSUME RowsTyped, NEW t, Erase(t)
  PROVE  ClosesWell
<1>1. ASSUME NEW u \in DOMAIN rows PROVE [rows[u] EXCEPT !.blockers = @ \ {t}].closedAt = rows[u].closedAt
  BY RowTyped DEF Row
<1>2. \A u \in DOMAIN rows' : rows'[u] = [rows[u] EXCEPT !.blockers = @ \ {t}]
  BY DEF Erase
<1> QED
  BY <1>1, <1>2, SameClosing

LEMMA AddedClosing ==
  ASSUME NEW t, t \notin DOMAIN rows, NEW row, rows' = Added(t, row)
  PROVE  ClosesWell
<1>1. \A u \in DOMAIN rows : rows'[u] = rows[u]
  BY DEF Added
<1> QED
  BY <1>1, SameClosing

LEMMA WriteRowCloses ==
  ASSUME Typed, NEW n \in DOMAIN flight, WriteRow(n)
  PROVE  ClosesWell
<1> DEFINE r == flight[n]
<1>1. r.stage = "read" /\ r.op \in Updates
  BY DEF WriteRow
<1>2. <<r.field, r.value>> \in Change /\ r.data \in Row
  BY <1>1, RequestTyped DEF WellAsked, WellAnswered
<1>3. CASE Refuse(n)
  BY <1>3, SameClosing DEF Refuse, serverVars
<1>4. ASSUME r.on \in DOMAIN rows, NEW new \in Updated(r.data, r),
             Save(n, [new EXCEPT !.member = rows[r.on].member, !.talk = rows[r.on].talk,
                                 !.blockers = rows[r.on].blockers])
      PROVE  ClosesWell
  <2> DEFINE row == [new EXCEPT !.member = rows[r.on].member, !.talk = rows[r.on].talk,
                                !.blockers = rows[r.on].blockers]
  <2>1. new \in Row /\ (new.closedAt => new.proof \/ r.data.closedAt)
    BY <1>2, <1>4, EditedCloses
  <2>2. (row.closedAt <=> new.closedAt) /\ (row.proof <=> new.proof)
    BY <2>1 DEF Row
  <2>3. rows' = [rows EXCEPT ![r.on] = row]
    BY <1>4 DEF Save
  <2>4. r.data.closedAt => ReadClosed(r.on)
    BY <1>1 DEF ReadClosed
  <2> HIDE DEF row
  <2> QED
    BY <1>4, <2>1, <2>2, <2>3, <2>4, OneRowCloses DEF Typed
<1> QED
  BY <1>3, <1>4 DEF WriteRow

LEMMA ServeChangeCloses ==
  ASSUME Typed, NEW n \in DOMAIN flight, ServeChange(n)
  PROVE  ClosesWell
<1> DEFINE r == flight[n]
           t == r.on
<1>1. r.op \in {"comment", "unblock", "join", "part", "block"}
  BY DEF ServeChange
<1>2. CASE Refuse(n)
  BY <1>2, SameClosing DEF Refuse, serverVars
<1>3. ASSUME t \in DOMAIN rows, NEW row, Save(n, row), row.closedAt = rows[t].closedAt
      PROVE  ClosesWell
  BY <1>3, OneRowCloses DEF Save, Typed
<1>4. ASSUME t \in DOMAIN rows
      PROVE  /\ [rows[t] EXCEPT !.talk = @ + 1].closedAt = rows[t].closedAt
             /\ [rows[t] EXCEPT !.blockers = @ \cup {r.value}].closedAt = rows[t].closedAt
             /\ [rows[t] EXCEPT !.blockers = @ \ {r.value}].closedAt = rows[t].closedAt
             /\ [rows[t] EXCEPT !.member = TRUE].closedAt = rows[t].closedAt
             /\ [rows[t] EXCEPT !.member = FALSE].closedAt = rows[t].closedAt
  BY <1>4, RowTyped DEF Row, Typed
<1>5. \/ Refuse(n)
      \/ /\ t \in DOMAIN rows
         /\ \/ Save(n, [rows[t] EXCEPT !.talk = @ + 1])
            \/ Save(n, [rows[t] EXCEPT !.blockers = @ \cup {r.value}])
            \/ Save(n, [rows[t] EXCEPT !.blockers = @ \ {r.value}])
            \/ Save(n, [rows[t] EXCEPT !.member = TRUE])
            \/ Save(n, [rows[t] EXCEPT !.member = FALSE])
  BY <1>1 DEF ServeChange
<1> HIDE DEF r, t
<1> QED
  BY <1>2, <1>3, <1>4, <1>5

LEMMA ServeCloses ==
  ASSUME Typed, Serve
  PROVE  ClosesWell
<1>0. PICK n \in DOMAIN flight : ReadRow(n) \/ WriteRow(n) \/ ServeDelete(n) \/ ServeCreate(n)
                                   \/ CheckCycle(n) \/ ServeChange(n) \/ ServeSprint(n) \/ ServeAgain(n)
  BY DEF Serve
<1>1. CASE Refuse(n) \/ rows' = rows
  BY <1>1, SameClosing DEF Refuse, serverVars
<1>2. CASE ReadRow(n) \/ CheckCycle(n) \/ ServeSprint(n) \/ ServeAgain(n)
  BY <1>1, <1>2 DEF ReadRow, CheckCycle, ServeSprint, ServeAgain, serverVars
<1>3. CASE ServeDelete(n)
  BY <1>1, <1>3, ErasedClosing DEF ServeDelete, Typed
<1>4. CASE ServeCreate(n)
  BY <1>4, AddedClosing DEF ServeCreate, Typed, RowsTyped
<1> QED
  BY <1>0, <1>2, <1>3, <1>4, WriteRowCloses, ServeChangeCloses

LEMMA OthersClose ==
  ASSUME Typed, Others
  PROVE  ClosesWell
<1>1. ASSUME NEW t, ForeignUpdate(t) PROVE ClosesWell
  <2>1. PICK r \in {Request("update", t, "status", "in_progress"), Request("update", t, "proof", "no")} :
          \E new \in Updated(rows[t], r) : rows' = [rows EXCEPT ![t] = new]
    BY <1>1 DEF ForeignUpdate
  <2>2. PICK new \in Updated(rows[t], r) : rows' = [rows EXCEPT ![t] = new]
    BY <2>1
  <2>3. <<r.field, r.value>> \in Change
    BY <2>1 DEF Request, Change, Status
  <2>4. t \in DOMAIN rows /\ rows[t] \in Row
    BY <1>1, RowTyped DEF ForeignUpdate, Typed
  <2>5. new.closedAt => new.proof \/ rows[t].closedAt
    BY <2>2, <2>3, <2>4, EditedCloses
  <2> QED
    BY <2>2, <2>4, <2>5, OneRowCloses DEF Typed
<1>2. ASSUME NEW t, ForeignDelete(t) PROVE ClosesWell
  BY <1>2, ErasedClosing DEF ForeignDelete, Typed
<1>3. ASSUME NEW t, ForeignCreate(t) PROVE ClosesWell
  BY <1>3, AddedClosing DEF ForeignCreate, Typed, RowsTyped
<1>4. ASSUME NEW t, ForeignJoin(t) PROVE ClosesWell
  <2>1. rows' = [rows EXCEPT ![t].member = TRUE]
    BY <1>4 DEF ForeignJoin
  <2>2. ASSUME NEW u \in DOMAIN rows PROVE rows'[u].closedAt = rows[u].closedAt
    BY <2>1, RowTyped DEF Row, Typed
  <2> QED
    BY <2>2, SameClosing
<1>5. CASE LoseNotice
  BY <1>5, SameClosing DEF LoseNotice
<1> QED
  BY <1>1, <1>2, <1>3, <1>4, <1>5 DEF Others

LEMMA NextCloses ==
  ASSUME Typed, [Next]_vars
  PROVE  ClosesWell
<1>1. CASE rows' = rows
  BY <1>1, SameClosing
<1>2. CASE Serve \/ Others
  BY <1>2, ServeCloses, OthersClose
<1>3. rows' = rows \/ Serve \/ Others
  BY DEF Next, Step, Render, vars, clientVars, serverVars, Fail, BoardClick, DetailClick, BoardAnswer,
         DetailAnswer, Back, NavigateTask, CreateChild, DeleteAnswer, DeliverNotice
<1> QED
  BY <1>1, <1>2, <1>3

-----------------------------------------------------------------------------
(* The board has been told, or will be told by an answer, of nothing that  *)
(* its loads could have missed.                                            *)
BoardKnows == Silent("board") /\ \A n \in DOMAIN flight : ~TellsBoard(flight[n])

(* The load that the board waits for is for the filters in force.          *)
BoardAwaits(r) ==
  /\ ~board.fresh /\ Suits(r, board)
  /\ BoardKnows /\ r.ok => r.data = Listing(board.all, board.status)

BoardFollows ==
  /\ \A n \in DOMAIN flight :
       Loader(flight[n]) = "board" /\ flight[n].latest => BoardAwaits(flight[n])
  /\ board.fresh /\ BoardKnows => board.shown = Listing(board.all, board.status)

LEMMA LoaderOfBoard ==
  ASSUME NEW r
  PROVE  /\ Loader(r) = "board" <=> r.op \in Listings
         /\ Loader(r) = "detail" <=> r.op = "fetch"
BY DEF Loader, Listings

LEMMA SuitsListing ==
  ASSUME NEW r, NEW b \in Board, Suits(r, b)
  PROVE  Listing(r.field = "all", r.value) = Listing(b.all, b.status)
<1>1. (r.field = "all") = b.all /\ r.value = b.status
  BY DEF Suits, Board
<1> QED
  BY <1>1

(* What the answers under way tell the board is kept by answering another  *)
(* one, and by making requests.                                            *)
LEMMA TellingKept ==
  ASSUME NEW n, NEW asked, Turn(n, asked), NEW m \in DOMAIN flight \ {n}
  PROVE  /\ TellsBoard(flight[m]) => \E i \in DOMAIN flight' : TellsBoard(flight'[i])
         /\ TellsDetail(flight[m]) => \E i \in DOMAIN flight' : TellsDetail(flight'[i])
<1>1. PICK i \in DOMAIN flight' : Weaker(flight'[i], flight[m]) /\ flight'[i].heard = flight[m].heard
  BY DEF Turn
<1> QED
  BY <1>1 DEF Weaker, TellsBoard, TellsDetail

(* A later state in which the board's filters are the same.                *)
SameFilters == board'.all = board.all /\ board'.status = board.status /\ rows' = rows /\ mode' = mode

LEMMA SameListing ==
  ASSUME SameFilters
  PROVE  Listing(board.all, board.status)' = Listing(board.all, board.status)
BY DEF SameFilters, Listing

(* The load waited for is still waited for.                                *)
LEMMA StillAwaited ==
  ASSUME NEW r, NEW s, BoardAwaits(r), Weaker(s, r) \/ s = r, ~board'.fresh,
         board'.all = board.all, board'.status = board.status,
         BoardKnows' => BoardKnows /\ rows' = rows /\ mode' = mode
  PROVE  /\ ~board'.fresh /\ Suits(s, board')
         /\ BoardKnows' /\ s.ok => s.data = Listing(board.all, board.status)'
<1>1. Suits(s, board')
  BY DEF BoardAwaits, Suits, Weaker
<1>2. s.ok = r.ok /\ s.data = r.data
  BY DEF Weaker
<1>3. ASSUME BoardKnows', s.ok PROVE s.data = Listing(board.all, board.status)'
  <2>1. SameFilters /\ BoardKnows
    BY <1>3 DEF SameFilters
  <2> QED
    BY <1>2, <1>3, <2>1, SameListing DEF BoardAwaits
<1> QED
  BY <1>1, <1>3

LEMMA ActsBoardFollows ==
  ASSUME Typed, BoardFollows, UNCHANGED mode, NEW n, NEW asked, Acts(n, asked)
  PROVE  BoardFollows'
<1>1. /\ Turn(n, asked) /\ asked \in Seq(Wanted) /\ BoardPart(n, asked) /\ board' \in Board
      /\ rows' = rows /\ mode' = mode
  BY DEF Acts, Settled, BoardPart
<1>2. \A k \in DOMAIN asked : asked[k] \in Wanted
  BY <1>1, ElementOfSeq
<1>3. CASE Loading(asked)
  <2>1. /\ ~board'.fresh
        /\ \A k \in DOMAIN asked : asked[k].op \in Listings => Suits(asked[k], board')
    BY <1>1, <1>3 DEF BoardPart
  <2>2. ASSUME NEW i \in DOMAIN flight', Loader(flight'[i]) = "board", flight'[i].latest
        PROVE  BoardAwaits(flight[i])'
    <3>1. flight'[i].op \in Listings
      BY <2>2, LoaderOfBoard
    <3>2. \A m \in DOMAIN flight \ {n} :
            ~(/\ Weaker(flight'[i], flight[m])
              /\ flight'[i].latest /\ Loader(flight[m]) # "none"
                   => \A k \in DOMAIN asked : Loader(asked[k]) # Loader(flight[m]))
      <4> SUFFICES ASSUME NEW m \in DOMAIN flight \ {n}, Weaker(flight'[i], flight[m]),
                          flight'[i].latest /\ Loader(flight[m]) # "none"
                            => \A k \in DOMAIN asked : Loader(asked[k]) # Loader(flight[m])
                   PROVE  FALSE
        OBVIOUS
      <4>1. Loader(flight[m]) = "board"
        BY <3>1, LoaderOfBoard DEF Weaker
      <4>2. \E k \in DOMAIN asked : Loader(asked[k]) = "board"
        BY <1>3, LoaderOfBoard DEF Loading
      <4> QED
        BY <2>2, <4>1, <4>2
    <3>3. PICK k \in DOMAIN asked : Weaker(flight'[i], Sent(asked[k]))
      BY <1>1, <3>2 DEF Turn
    <3>4. Same(Sent(asked[k]), asked[k]) /\ asked[k] \in Message
      BY <1>2, WantedSent DEF Typed, Wanted
    <3>5. asked[k].op \in Listings
      BY <3>1, <3>3, <3>4 DEF Weaker, Same
    <3>6. Suits(asked[k], board') /\ Suits(flight'[i], board')
      BY <2>1, <3>3, <3>4, <3>5 DEF Suits, Weaker, Same
    <3>7. flight'[i].data = Listing(board'.all, board'.status)
      <4>1. flight'[i].data = Listing(asked[k].field = "all", asked[k].value)
        BY <3>3, <3>4, <3>5, SentAnswers DEF Weaker
      <4> QED
        BY <1>1, <3>6, <4>1, SuitsListing
    <3>8. Listing(board.all, board.status)' = Listing(board'.all, board'.status)
      BY <1>1 DEF Listing
    <3> QED
      BY <2>1, <3>6, <3>7, <3>8 DEF BoardAwaits
  <2> QED
    BY <2>1, <2>2 DEF BoardFollows
<1>4. CASE ~Loading(asked)
  <2>1. /\ board'.shown = board.shown /\ board'.fresh = board.fresh /\ board'.all = board.all
        /\ board'.status = board.status /\ notice' = notice
        /\ ~LastOf(n, TellsBoard)
    BY <1>1, <1>4 DEF BoardPart, SameList, Acts
  <2>2. \A k \in DOMAIN asked : Loader(asked[k]) # "board"
    BY <1>4, LoaderOfBoard DEF Loading
  <2>3. BoardKnows' => BoardKnows
    <3>1. unseen'["board"] = unseen["board"]
      BY <1>1, <2>2 DEF Turn, Typed
    <3>2. ASSUME NEW m \in DOMAIN flight, TellsBoard(flight[m])
          PROVE  \E i \in DOMAIN flight' : TellsBoard(flight'[i])
      <4>1. \E l \in DOMAIN flight \ {n} : TellsBoard(flight[l])
        BY <2>1, <3>2 DEF LastOf
      <4> QED
        BY <1>1, <4>1, TellingKept
    <3> QED
      BY <2>1, <3>1, <3>2 DEF BoardKnows, Silent
  <2>4. ASSUME NEW i \in DOMAIN flight', Loader(flight'[i]) = "board", flight'[i].latest
        PROVE  BoardAwaits(flight[i])'
    <3>1. flight'[i].op \in Listings
      BY <2>4, LoaderOfBoard
    <3>2. \A k \in DOMAIN asked : ~Weaker(flight'[i], Sent(asked[k]))
      <4> SUFFICES ASSUME NEW k \in DOMAIN asked, Weaker(flight'[i], Sent(asked[k]))
                   PROVE  FALSE
        OBVIOUS
      <4>1. Same(Sent(asked[k]), asked[k])
        BY <1>2, WantedSent DEF Typed
      <4> QED
        BY <2>2, <3>1, <4>1, LoaderOfBoard DEF Weaker, Same
    <3>3. PICK m \in DOMAIN flight : Weaker(flight'[i], flight[m])
      BY <1>1, <3>2 DEF Turn
    <3>4. Loader(flight[m]) = "board" /\ flight[m].latest
      BY <2>4, <3>1, <3>3, LoaderOfBoard DEF Weaker
    <3>5. BoardAwaits(flight[m])
      BY <3>4 DEF BoardFollows
    <3>6. ~board'.fresh
      BY <2>1, <3>5 DEF BoardAwaits
    <3> QED
      BY <1>1, <2>1, <2>3, <3>3, <3>5, <3>6, StillAwaited DEF BoardAwaits
  <2>5. ASSUME board'.fresh, BoardKnows'
        PROVE  board'.shown = Listing(board.all, board.status)'
    BY <1>1, <2>1, <2>3, <2>5, SameListing DEF BoardFollows, SameFilters
  <2> QED
    BY <2>4, <2>5 DEF BoardFollows
<1> QED
  BY <1>3, <1>4

LEMMA ListBoardFollows ==
  ASSUME Typed, OneLatest, BoardFollows, UNCHANGED mode, UNCHANGED serverVars, NEW n, ListShown(n)
  PROVE  BoardFollows'
<1>1. /\ Turn(n, <<>>) /\ n \in DOMAIN flight /\ flight[n].op \in Listings
      /\ board'.all = board.all /\ board'.status = board.status
      /\ IF flight[n].ok THEN board'.shown = flight[n].data /\ board'.fresh = flight[n].latest
         ELSE board'.shown = board.shown /\ board'.fresh = board.fresh
      /\ SameFilters
  BY DEF ListShown, serverVars, SameFilters
<1>2. BoardKnows' => BoardKnows
  <2>1. unseen'["board"] = unseen["board"] /\ notice' = notice
    BY <1>1 DEF Turn, Typed, serverVars
  <2>2. ~TellsBoard(flight[n])
    BY <1>1 DEF TellsBoard, Listings
  <2> QED
    BY <1>1, <2>1, <2>2, TellingKept DEF BoardKnows, Silent
<1>3. Loader(flight[n]) = "board"
  BY <1>1, LoaderOfBoard
<1>4. ASSUME NEW i \in DOMAIN flight', Loader(flight'[i]) = "board", flight'[i].latest
      PROVE  BoardAwaits(flight[i])'
  <2>1. PICK m \in DOMAIN flight \ {n} : Weaker(flight'[i], flight[m])
    BY <1>1 DEF Turn
  <2>2. Loader(flight[m]) = "board" /\ flight[m].latest
    BY <1>4, <2>1, LoaderOfBoard DEF Weaker
  <2>3. BoardAwaits(flight[m])
    BY <2>2 DEF BoardFollows
  <2>4. ~flight[n].latest
    BY <1>1, <1>3, <2>2 DEF OneLatest
  <2>5. ~board'.fresh
    BY <1>1, <2>3, <2>4 DEF BoardAwaits
  <2> QED
    BY <1>1, <1>2, <2>1, <2>3, <2>5, StillAwaited DEF BoardAwaits, SameFilters
<1>5. ASSUME board'.fresh, BoardKnows'
      PROVE  board'.shown = Listing(board.all, board.status)'
  <2>1. CASE flight[n].ok
    <3>1. BoardAwaits(flight[n])
      BY <1>1, <1>3, <1>5, <2>1 DEF BoardFollows
    <3> QED
      BY <1>1, <1>2, <1>5, <2>1, <3>1, SameListing DEF BoardAwaits
  <2>2. CASE ~flight[n].ok
    BY <1>1, <1>2, <1>5, <2>2, SameListing DEF BoardFollows
  <2> QED
    BY <2>1, <2>2
<1> QED
  BY <1>4, <1>5 DEF BoardFollows

(* The list stays as it is, and no load of the board is answered.          *)
LEMMA IdleBoardFollows ==
  ASSUME BoardFollows, UNCHANGED mode, SameList(board', board),
         BoardKnows' => BoardKnows /\ rows' = rows,
         \A i \in DOMAIN flight' : \E m \in DOMAIN flight : Weaker(flight'[i], flight[m]) \/ flight'[i] = flight[m]
  PROVE  BoardFollows'
<1>1. /\ board'.all = board.all /\ board'.status = board.status /\ board'.fresh = board.fresh
      /\ board'.shown = board.shown
  BY DEF SameList
<1>2. ASSUME NEW i \in DOMAIN flight', Loader(flight'[i]) = "board", flight'[i].latest
      PROVE  BoardAwaits(flight[i])'
  <2>1. PICK m \in DOMAIN flight : Weaker(flight'[i], flight[m]) \/ flight'[i] = flight[m]
    OBVIOUS
  <2>2. Loader(flight[m]) = "board" /\ flight[m].latest
    BY <1>2, <2>1, LoaderOfBoard DEF Weaker
  <2>3. BoardAwaits(flight[m])
    BY <2>2 DEF BoardFollows
  <2>4. ~board'.fresh
    BY <1>1, <2>3 DEF BoardAwaits
  <2> QED
    BY <1>1, <2>1, <2>3, <2>4, StillAwaited DEF BoardAwaits
<1>3. ASSUME board'.fresh, BoardKnows'
      PROVE  board'.shown = Listing(board.all, board.status)'
  BY <1>1, <1>3, SameListing DEF BoardFollows, SameFilters
<1> QED
  BY <1>2, <1>3 DEF BoardFollows

-----------------------------------------------------------------------------
LEMMA FetchBoardFollows ==
  ASSUME Typed, BoardFollows, UNCHANGED mode, UNCHANGED serverVars, NEW n, FetchShown(n)
  PROVE  BoardFollows'
<1>1. Turn(n, <<>>) /\ n \in DOMAIN flight /\ flight[n].op = "fetch" /\ board' = board /\ rows' = rows
  BY DEF FetchShown, serverVars
<1>2. unseen'["board"] = unseen["board"] /\ notice' = notice
  BY <1>1 DEF Turn, Typed, serverVars
<1>3. ~TellsBoard(flight[n])
  BY <1>1 DEF TellsBoard
<1>4. BoardKnows' => BoardKnows
  BY <1>1, <1>2, <1>3, TellingKept DEF BoardKnows, Silent
<1>5. \A i \in DOMAIN flight' : \E m \in DOMAIN flight : Weaker(flight'[i], flight[m])
  BY <1>1 DEF Turn
<1> QED
  BY <1>1, <1>4, <1>5, IdleBoardFollows DEF SameList

LEMMA BatchBoardFollows ==
  ASSUME Typed, BoardFollows, UNCHANGED mode, UNCHANGED serverVars, NEW n, BatchEnds(n)
  PROVE  BoardFollows'
<1>1. unseen'["board"] = TRUE
  BY DEF BatchEnds, Typed
<1>2. ~BoardKnows'
  BY <1>1 DEF BoardKnows, Silent
<1>3. \A i \in DOMAIN flight' : \E m \in DOMAIN flight : Weaker(flight'[i], flight[m])
  BY DEF BatchEnds, Hushed
<1>4. SameList(board', board)
  BY DEF BatchEnds
<1> QED
  BY <1>2, <1>3, <1>4, IdleBoardFollows

LEMMA LeavesBoardFollows ==
  ASSUME Typed, BoardFollows, UNCHANGED mode, Leaves
  PROVE  BoardFollows'
<1>1. Hushed(0, DetailOps) /\ board' = board /\ UNCHANGED <<rows, notice, unseen>>
  BY DEF Leaves, serverVars
<1>2. ASSUME NEW m \in DOMAIN flight, TellsBoard(flight[m])
      PROVE  \E i \in DOMAIN flight' : TellsBoard(flight'[i])
  <2>1. m \in DOMAIN flight \ {0}
    BY NotZero
  <2>2. PICK i \in DOMAIN flight' : Weaker(flight'[i], flight[m])
    BY <1>1, <2>1 DEF Hushed
  <2> QED
    BY <1>2, <2>2 DEF TellsBoard, Weaker
<1>3. BoardKnows' => BoardKnows
  BY <1>1, <1>2 DEF BoardKnows, Silent
<1>4. \A i \in DOMAIN flight' : \E m \in DOMAIN flight : Weaker(flight'[i], flight[m])
  BY <1>1 DEF Hushed
<1> QED
  BY <1>1, <1>3, <1>4, IdleBoardFollows DEF SameList

LEMMA ServedBoardFollows ==
  ASSUME Typed, BoardFollows, UNCHANGED mode, NEW n, NEW s, Served(n, s), UNCHANGED board
  PROVE  BoardFollows'
<1>1. /\ n \in DOMAIN flight /\ Same(s, flight[n]) /\ DOMAIN flight' = DOMAIN flight
      /\ flight'[n] = s /\ \A m \in DOMAIN flight \ {n} : flight'[m] = flight[m]
  BY DEF Served, Typed
<1>2. BoardKnows' => BoardKnows /\ rows' = rows
  <2> SUFFICES ASSUME BoardKnows' PROVE BoardKnows /\ rows' = rows
    OBVIOUS
  <2>1. \A m \in DOMAIN flight : ~TellsBoard(flight'[m])
    BY <1>1 DEF BoardKnows
  <2>2. /\ Told("board", s) <=> TellsBoard(s)
        /\ Told("board", flight[n]) <=> TellsBoard(flight[n])
        /\ "board" \in Screens
    BY DEF Told, Screens
  <2>3. Kept("board") /\ ~TellsBoard(flight[n])
    BY <1>1, <2>1, <2>2 DEF Served
  <2>4. Silent("board")' => Silent("board") /\ rows' = rows
    BY <2>3 DEF Kept
  <2>5. \A m \in DOMAIN flight : ~TellsBoard(flight[m])
    BY <1>1, <2>1, <2>3
  <2> QED
    BY <2>4, <2>5 DEF BoardKnows
<1>3. ASSUME NEW i \in DOMAIN flight', Loader(flight'[i]) = "board", flight'[i].latest
      PROVE  BoardAwaits(flight[i])'
  <2>1. CASE i # n
    <3>1. BoardAwaits(flight[i]) /\ flight'[i] = flight[i]
      BY <1>1, <1>3, <2>1 DEF BoardFollows
    <3>2. ~board'.fresh
      BY <3>1 DEF BoardAwaits
    <3> QED
      BY <1>2, <3>1, <3>2, StillAwaited DEF BoardAwaits
  <2>2. CASE i = n
    <3>1. Loader(flight[n]) = "board" /\ flight[n].latest
      BY <1>1, <1>3, <2>2, LoaderOfBoard DEF Same
    <3>2. BoardAwaits(flight[n])
      BY <1>1, <3>1 DEF BoardFollows
    <3>3. ~board'.fresh /\ Suits(s, board)
      BY <1>1, <3>2 DEF BoardAwaits, Suits, Same
    <3>4. ASSUME BoardKnows', s.ok PROVE s.data = Listing(board.all, board.status)'
      <4>1. s.data = Listing(s.field = "all", s.value)
        BY <1>1, <1>3, <2>2, <3>4 DEF Served
      <4>2. s.data = Listing(board.all, board.status)
        BY <3>3, <4>1, SuitsListing DEF Typed
      <4> QED
        BY <1>2, <3>4, <4>2, SameListing DEF SameFilters
    <3> QED
      BY <1>1, <2>2, <3>3, <3>4 DEF BoardAwaits, Suits
  <2> QED
    BY <2>1, <2>2
<1>4. ASSUME board'.fresh, BoardKnows'
      PROVE  board'.shown = Listing(board.all, board.status)'
  BY <1>2, <1>4, SameListing DEF BoardFollows, SameFilters
<1> QED
  BY <1>3, <1>4 DEF BoardFollows

LEMMA HappensBoardFollows ==
  ASSUME Typed, BoardFollows, UNCHANGED mode, Happens, UNCHANGED board
  PROVE  BoardFollows'
<1>1. BoardKnows' => BoardKnows /\ rows' = rows
  BY DEF BoardKnows, Happens, Kept, Screens
<1>2. \A i \in DOMAIN flight' : \E m \in DOMAIN flight : flight'[i] = flight[m]
  BY DEF Happens
<1> QED
  BY <1>1, <1>2, IdleBoardFollows DEF SameList

LEMMA AmountsBoardFollows ==
  ASSUME Typed, OneLatest, BoardFollows, Amounts, UNCHANGED mode
  PROVE  BoardFollows'
BY ActsBoardFollows, ListBoardFollows, FetchBoardFollows, BatchBoardFollows, LeavesBoardFollows,
   ServedBoardFollows, HappensBoardFollows DEF Amounts

-----------------------------------------------------------------------------
(* The same for the detail, which shows what is open when it is rendered.  *)
DetailKnows ==
  Silent("detail") /\ Rendered /\ \A n \in DOMAIN flight : ~TellsDetail(flight[n])

(* The detail's task is the one given, as it is.                           *)
DetailAwaits(r) ==
  /\ ~detail.fresh
  /\ r.heard => r.on = detail.id
  /\ r.heard /\ DetailKnows /\ r.ok => r.on \in DOMAIN rows /\ r.data = rows[r.on]

DetailShows ==
  /\ detail.taskId = detail.id /\ detail.id \in DOMAIN rows
  /\ detail.task = rows[detail.id]

DetailFollows ==
  /\ \A n \in DOMAIN flight :
       flight[n].op = "fetch" /\ flight[n].latest => DetailAwaits(flight[n])
  /\ detail.id = None => ~detail.fresh
  /\ detail.fresh /\ DetailKnows => DetailShows

(* A fetch that is still under way, heard no more than before.             *)
LEMMA StillFetched ==
  ASSUME NEW r, NEW s, DetailAwaits(r),
         s.on = r.on, s.ok = r.ok, s.data = r.data, s.heard => r.heard,
         ~detail'.fresh, detail'.id = detail.id, DetailKnows' => DetailKnows /\ rows' = rows
  PROVE  /\ ~detail'.fresh
         /\ s.heard => s.on = detail'.id
         /\ s.heard /\ DetailKnows' /\ s.ok => s.on \in DOMAIN rows' /\ s.data = rows'[s.on]
BY DEF DetailAwaits

LEMMA StillShown ==
  ASSUME DetailFollows, detail'.id = detail.id, detail'.task = detail.task,
         detail'.taskId = detail.taskId, detail'.fresh = detail.fresh,
         DetailKnows' => DetailKnows /\ rows' = rows
  PROVE  /\ detail'.id = None => ~detail'.fresh
         /\ detail'.fresh /\ DetailKnows' => DetailShows'
BY DEF DetailFollows, DetailShows

(* Without a detail there is nothing to follow.                            *)
LEMMA NoneFollows ==
  ASSUME Attended', detail'.id = None, ~detail'.fresh
  PROVE  DetailFollows'
<1>1. ASSUME NEW i \in DOMAIN flight', flight'[i].op = "fetch"
      PROVE  ~flight'[i].heard
  BY <1>1 DEF Attended, OfDetail
<1> QED
  BY <1>1 DEF DetailFollows, DetailAwaits

LEMMA ActsDetailFollows ==
  ASSUME Typed, DetailFollows, Attended', NEW n, NEW asked, Acts(n, asked)
  PROVE  DetailFollows'
<1>1. /\ Turn(n, asked) /\ asked \in Seq(Wanted) /\ DetailPart(n, asked) /\ rows' = rows
  BY DEF Acts, Settled, BoardPart
<1>2. \A k \in DOMAIN asked : asked[k] \in Wanted
  BY <1>1, ElementOfSeq
<1>3. CASE Fetched(asked)
  <2>1. /\ ~detail'.fresh /\ detail'.id # None
        /\ \A k \in DOMAIN asked : asked[k].op = "fetch" => asked[k].on = detail'.id
    BY <1>1, <1>3 DEF DetailPart
  <2>2. ASSUME NEW i \in DOMAIN flight', flight'[i].op = "fetch", flight'[i].latest
        PROVE  DetailAwaits(flight[i])'
    <3>1. \A m \in DOMAIN flight \ {n} :
            ~(/\ Weaker(flight'[i], flight[m])
              /\ flight'[i].latest /\ Loader(flight[m]) # "none"
                   => \A k \in DOMAIN asked : Loader(asked[k]) # Loader(flight[m]))
      <4> SUFFICES ASSUME NEW m \in DOMAIN flight \ {n}, Weaker(flight'[i], flight[m]),
                          flight'[i].latest /\ Loader(flight[m]) # "none"
                            => \A k \in DOMAIN asked : Loader(asked[k]) # Loader(flight[m])
                   PROVE  FALSE
        OBVIOUS
      <4>1. Loader(flight[m]) = "detail"
        BY <2>2, LoaderOfBoard DEF Weaker
      <4>2. \E k \in DOMAIN asked : Loader(asked[k]) = "detail"
        BY <1>3, LoaderOfBoard DEF Fetched
      <4> QED
        BY <2>2, <4>1, <4>2
    <3>2. PICK k \in DOMAIN asked : Weaker(flight'[i], Sent(asked[k]))
      BY <1>1, <3>1 DEF Turn
    <3>3. Same(Sent(asked[k]), asked[k]) /\ asked[k] \in Message
      BY <1>2, WantedSent DEF Typed, Wanted
    <3>4. asked[k].op = "fetch" /\ asked[k].on = detail'.id
      BY <2>1, <2>2, <3>2, <3>3 DEF Weaker, Same
    <3>5. flight'[i].on = detail'.id
      BY <3>2, <3>3, <3>4 DEF Weaker, Same
    <3>6. flight'[i].ok => flight'[i].on \in DOMAIN rows /\ flight'[i].data = rows[flight'[i].on]
      BY <3>2, <3>3, <3>4, SentAnswers DEF Weaker, Same
    <3> QED
      BY <1>1, <2>1, <3>5, <3>6 DEF DetailAwaits
  <2> QED
    BY <2>1, <2>2 DEF DetailFollows
<1>4. CASE ~Fetched(asked) /\ detail'.id = None
  <2>1. ~detail'.fresh
    BY <1>1, <1>4 DEF DetailPart, DetailFollows
  <2> QED
    BY <1>4, <2>1, NoneFollows
<1>5. CASE ~Fetched(asked) /\ detail'.id # None
  <2>1. /\ detail'.id = detail.id /\ detail'.task = detail.task /\ detail'.taskId = detail.taskId
        /\ detail'.fresh = detail.fresh /\ notice' = notice
    BY <1>1, <1>5 DEF DetailPart, Acts
  <2>2. \A k \in DOMAIN asked : Loader(asked[k]) # "detail"
    BY <1>5, LoaderOfBoard DEF Fetched
  <2>3. DetailKnows' => DetailKnows
    <3> SUFFICES ASSUME DetailKnows' PROVE DetailKnows
      OBVIOUS
    <3>1. unseen'["detail"] = unseen["detail"]
      BY <1>1, <2>2 DEF Turn, Typed
    <3>2. Rendered
      BY <2>1 DEF DetailKnows, Rendered, Acts
    <3>3. n \in DOMAIN flight => ~TellsDetail(flight[n])
      BY <1>1, <1>5 DEF DetailPart, DetailKnows, Rendered
    <3>4. ASSUME NEW m \in DOMAIN flight, TellsDetail(flight[m])
          PROVE  FALSE
      BY <1>1, <3>3, <3>4, TellingKept DEF DetailKnows
    <3> QED
      BY <2>1, <3>1, <3>2, <3>4 DEF DetailKnows, Silent
  <2>4. ASSUME NEW i \in DOMAIN flight', flight'[i].op = "fetch", flight'[i].latest
        PROVE  DetailAwaits(flight[i])'
    <3>1. \A k \in DOMAIN asked : ~Weaker(flight'[i], Sent(asked[k]))
      <4> SUFFICES ASSUME NEW k \in DOMAIN asked, Weaker(flight'[i], Sent(asked[k]))
                   PROVE  FALSE
        OBVIOUS
      <4>1. Same(Sent(asked[k]), asked[k])
        BY <1>2, WantedSent DEF Typed
      <4> QED
        BY <2>2, <2>4, <4>1, LoaderOfBoard DEF Weaker, Same
    <3>2. PICK m \in DOMAIN flight : Weaker(flight'[i], flight[m]) /\ flight'[i].heard = flight[m].heard
      BY <1>1, <3>1 DEF Turn
    <3>3. DetailAwaits(flight[m])
      BY <2>4, <3>2 DEF DetailFollows, Weaker
    <3>4. ~detail'.fresh
      BY <2>1, <3>3 DEF DetailAwaits
    <3> QED
      BY <1>1, <2>1, <2>3, <3>2, <3>3, <3>4, StillFetched DEF DetailAwaits, Weaker
  <2> QED
    BY <1>1, <2>1, <2>3, <2>4, StillShown DEF DetailFollows
<1> QED
  BY <1>3, <1>4, <1>5

(* The detail stays as it is, and no fetch that it waits for is answered.  *)
LEMMA IdleDetailFollows ==
  ASSUME DetailFollows, UNCHANGED detail, DetailKnows' => DetailKnows /\ rows' = rows,
         \A i \in DOMAIN flight' : \E m \in DOMAIN flight :
           \/ Weaker(flight'[i], flight[m]) /\ (flight'[i].heard => flight[m].heard)
           \/ flight'[i] = flight[m]
  PROVE  DetailFollows'
<1>1. ASSUME NEW i \in DOMAIN flight', flight'[i].op = "fetch", flight'[i].latest
      PROVE  DetailAwaits(flight[i])'
  <2>1. PICK m \in DOMAIN flight : \/ Weaker(flight'[i], flight[m]) /\ (flight'[i].heard => flight[m].heard)
                                   \/ flight'[i] = flight[m]
    OBVIOUS
  <2>2. /\ flight[m].op = "fetch" /\ flight[m].latest /\ (flight'[i].heard => flight[m].heard)
        /\ flight'[i].on = flight[m].on /\ flight'[i].ok = flight[m].ok
        /\ flight'[i].data = flight[m].data
    BY <1>1, <2>1 DEF Weaker
  <2>3. DetailAwaits(flight[m])
    BY <2>2 DEF DetailFollows
  <2>4. ~detail'.fresh
    BY <2>3 DEF DetailAwaits
  <2> QED
    BY <2>2, <2>3, <2>4, StillFetched DEF DetailAwaits
<1> QED
  BY <1>1, StillShown DEF DetailFollows

-----------------------------------------------------------------------------
LEMMA ListDetailFollows ==
  ASSUME Typed, DetailFollows, Rendered, UNCHANGED serverVars, NEW n, ListShown(n)
  PROVE  DetailFollows'
<1>1. Turn(n, <<>>) /\ flight[n].op \in Listings /\ detail' = detail /\ rows' = rows /\ notice' = notice
  BY DEF ListShown, serverVars
<1>2. unseen'["detail"] = unseen["detail"]
  BY <1>1 DEF Turn, Typed
<1>3. ~TellsDetail(flight[n])
  BY <1>1 DEF TellsDetail, Listings
<1>4. DetailKnows' => DetailKnows
  BY <1>1, <1>2, <1>3, TellingKept DEF DetailKnows, Silent
<1>5. \A i \in DOMAIN flight' : \E m \in DOMAIN flight :
        Weaker(flight'[i], flight[m]) /\ (flight'[i].heard => flight[m].heard)
  BY <1>1 DEF Turn
<1> QED
  BY <1>1, <1>4, <1>5, IdleDetailFollows

LEMMA FetchDetailFollows ==
  ASSUME Typed, OneLatest, Attended, DetailFollows, UNCHANGED serverVars, NEW n, FetchShown(n)
  PROVE  DetailFollows'
<1>1. /\ Turn(n, <<>>) /\ n \in DOMAIN flight /\ flight[n].op = "fetch" /\ board' = board
      /\ detail'.id = detail.id /\ rows' = rows /\ notice' = notice
  BY DEF FetchShown, serverVars
<1>2. unseen'["detail"] = unseen["detail"]
  BY <1>1 DEF Turn, Typed
<1>3. ~TellsDetail(flight[n])
  BY <1>1 DEF TellsDetail
<1>4. DetailKnows' => DetailKnows
  BY <1>1, <1>2, <1>3, TellingKept DEF DetailKnows, Silent, Rendered
<1>5. CASE ~flight[n].heard
  <2>1. detail' = detail
    BY <1>5 DEF FetchShown
  <2>2. \A i \in DOMAIN flight' : \E m \in DOMAIN flight :
          Weaker(flight'[i], flight[m]) /\ (flight'[i].heard => flight[m].heard)
    BY <1>1 DEF Turn
  <2> QED
    BY <1>1, <1>4, <2>1, <2>2, IdleDetailFollows
<1>6. CASE flight[n].heard
  <2>1. IF flight[n].ok THEN /\ detail'.task = flight[n].data /\ detail'.taskId = flight[n].on
                             /\ detail'.fresh = flight[n].latest
        ELSE /\ detail'.task = detail.task /\ detail'.taskId = detail.taskId
             /\ detail'.fresh = detail.fresh
    BY <1>6 DEF FetchShown
  <2>2. ASSUME NEW i \in DOMAIN flight', flight'[i].op = "fetch", flight'[i].latest
        PROVE  DetailAwaits(flight[i])'
    <3>1. PICK m \in DOMAIN flight \ {n} :
            Weaker(flight'[i], flight[m]) /\ flight'[i].heard = flight[m].heard
      BY <1>1 DEF Turn
    <3>2. flight[m].op = "fetch" /\ flight[m].latest
      BY <2>2, <3>1 DEF Weaker
    <3>3. DetailAwaits(flight[m])
      BY <3>2 DEF DetailFollows
    <3>4. ~flight[n].latest
      <4>1. Loader(flight[m]) = "detail" /\ Loader(flight[n]) = "detail"
        BY <1>1, <3>2, LoaderOfBoard
      <4> QED
        BY <1>1, <3>2, <4>1 DEF OneLatest
    <3>5. ~detail'.fresh
      BY <2>1, <3>3, <3>4 DEF DetailAwaits
    <3> QED
      BY <1>1, <1>4, <3>1, <3>3, <3>5, StillFetched DEF DetailAwaits, Weaker
  <2>3. CASE flight[n].ok
    <3>1. ASSUME detail'.fresh PROVE DetailAwaits(flight[n]) /\ detail.id # None
      BY <1>1, <1>6, <2>1, <2>3, <3>1 DEF DetailFollows, Attended, OfDetail
    <3>2. ASSUME detail'.fresh, DetailKnows' PROVE DetailShows'
      BY <1>1, <1>4, <1>6, <2>1, <2>3, <3>1, <3>2 DEF DetailAwaits, DetailShows
    <3> QED
      BY <1>1, <2>2, <3>1, <3>2 DEF DetailFollows
  <2>4. CASE ~flight[n].ok
    BY <1>1, <1>4, <2>1, <2>2, <2>4, StillShown DEF DetailFollows
  <2> QED
    BY <2>3, <2>4
<1> QED
  BY <1>5, <1>6

LEMMA BatchDetailFollows ==
  ASSUME Typed, DetailFollows, UNCHANGED serverVars, NEW n, BatchEnds(n)
  PROVE  DetailFollows'
<1>1. PICK hushed \in {{}, {flight[n].op}} : Hushed(n, hushed)
  BY DEF BatchEnds
<1>2. /\ n \in DOMAIN flight /\ flight[n].op \in {"batch", "batchdel"}
      /\ unseen'["detail"] = unseen["detail"] /\ detail' = detail /\ board'.open = board.open
      /\ rows' = rows /\ notice' = notice
  BY DEF BatchEnds, Typed, serverVars
<1>3. ASSUME NEW m \in DOMAIN flight, TellsDetail(flight[m])
      PROVE  \E i \in DOMAIN flight' : TellsDetail(flight'[i])
  <2>1. m # n /\ flight[m].op \notin hushed
    BY <1>2, <1>3 DEF TellsDetail
  <2>2. PICK i \in DOMAIN flight' :
          /\ Weaker(flight'[i], flight[m])
          /\ flight'[i].heard <=> (flight[m].heard /\ flight[m].op \notin hushed)
    BY <1>1, <2>1 DEF Hushed
  <2> QED
    BY <1>3, <2>1, <2>2 DEF TellsDetail, Weaker
<1>4. DetailKnows' => DetailKnows
  BY <1>2, <1>3 DEF DetailKnows, Silent, Rendered
<1>5. \A i \in DOMAIN flight' : \E m \in DOMAIN flight :
        Weaker(flight'[i], flight[m]) /\ (flight'[i].heard => flight[m].heard)
  BY <1>1 DEF Hushed
<1> QED
  BY <1>2, <1>4, <1>5, IdleDetailFollows

LEMMA LeavesDetailFollows ==
  ASSUME Leaves, Attended'
  PROVE  DetailFollows'
<1>1. detail'.id = None /\ ~detail'.fresh
  BY DEF Leaves, NoDetail
<1> QED
  BY <1>1, NoneFollows

LEMMA ServedDetailFollows ==
  ASSUME Typed, DetailFollows, NEW n, NEW s, Served(n, s), UNCHANGED <<board, detail>>
  PROVE  DetailFollows'
<1>1. /\ n \in DOMAIN flight /\ Same(s, flight[n]) /\ DOMAIN flight' = DOMAIN flight
      /\ flight'[n] = s /\ \A m \in DOMAIN flight \ {n} : flight'[m] = flight[m]
  BY DEF Served, Typed
<1>2. DetailKnows' => DetailKnows /\ rows' = rows
  <2> SUFFICES ASSUME DetailKnows' PROVE DetailKnows /\ rows' = rows
    OBVIOUS
  <2>1. \A m \in DOMAIN flight : ~TellsDetail(flight'[m])
    BY <1>1 DEF DetailKnows
  <2>2. /\ Told("detail", s) <=> TellsDetail(s)
        /\ Told("detail", flight[n]) <=> TellsDetail(flight[n])
        /\ "detail" \in Screens
    BY DEF Told, Screens
  <2>3. Kept("detail") /\ ~TellsDetail(flight[n])
    BY <1>1, <2>1, <2>2 DEF Served
  <2>4. Silent("detail")' => Silent("detail") /\ rows' = rows
    BY <2>3 DEF Kept
  <2>5. \A m \in DOMAIN flight : ~TellsDetail(flight[m])
    BY <1>1, <2>1, <2>3
  <2>6. Rendered' => Rendered
    BY DEF Rendered
  <2> QED
    BY <2>4, <2>5, <2>6 DEF DetailKnows
<1>3. ASSUME NEW i \in DOMAIN flight', flight'[i].op = "fetch", flight'[i].latest
      PROVE  DetailAwaits(flight[i])'
  <2>1. CASE i # n
    <3>1. DetailAwaits(flight[i]) /\ flight'[i] = flight[i]
      BY <1>1, <1>3, <2>1 DEF DetailFollows
    <3>2. ~detail'.fresh
      BY <3>1 DEF DetailAwaits
    <3> QED
      BY <1>2, <3>1, <3>2, StillFetched DEF DetailAwaits
  <2>2. CASE i = n
    <3>1. flight[n].op = "fetch" /\ flight[n].latest /\ s.op = "fetch"
      BY <1>1, <1>3, <2>2 DEF Same
    <3>2. DetailAwaits(flight[n])
      BY <1>1, <3>1 DEF DetailFollows
    <3>3. ~detail'.fresh /\ (s.heard => s.on = detail'.id)
      BY <1>1, <3>2 DEF DetailAwaits, Same
    <3>4. s.ok => rows' = rows /\ s.on \in DOMAIN rows /\ s.data = rows[s.on]
      BY <3>1, LoaderOfBoard DEF Served
    <3> QED
      BY <1>1, <2>2, <3>3, <3>4 DEF DetailAwaits
  <2> QED
    BY <2>1, <2>2
<1> QED
  BY <1>2, <1>3, StillShown DEF DetailFollows

LEMMA HappensDetailFollows ==
  ASSUME Typed, DetailFollows, Happens, UNCHANGED <<board, detail>>
  PROVE  DetailFollows'
<1>1. DetailKnows' => DetailKnows /\ rows' = rows
  BY DEF DetailKnows, Happens, Kept, Screens, Rendered
<1>2. \A i \in DOMAIN flight' : \E m \in DOMAIN flight : flight'[i] = flight[m]
  BY DEF Happens
<1> QED
  BY <1>1, <1>2, IdleDetailFollows

LEMMA AmountsDetailFollows ==
  ASSUME Typed, OneLatest, Attended, Attended', DetailFollows, Amounts
  PROVE  DetailFollows'
BY ActsDetailFollows, ListDetailFollows, FetchDetailFollows, BatchDetailFollows, LeavesDetailFollows,
   ServedDetailFollows, HappensDetailFollows DEF Amounts

-----------------------------------------------------------------------------
(* What holds in every state.                                              *)
Follows == Sound /\ BoardFollows /\ DetailFollows

LEMMA InitFollows ==
  ASSUME Init
  PROVE  Follows
<1>1. Sound /\ RowsTyped /\ Starts
  BY InitSound, InitRows, InitStarts
<1>2. \A n \in DOMAIN flight : /\ flight[n].op \in Listings /\ Suits(flight[n], board)
                               /\ flight[n].ok => flight[n].data = Listing(board.all, board.status)
                               /\ flight[n].latest => n = 2 /\ ~board.fresh
  BY <1>1, StartsFlight
<1>3. board.fresh => board.shown = Listing(board.all, board.status)
  BY <1>1 DEF Starts
<1>4. BoardFollows
  BY <1>2, <1>3 DEF BoardFollows, BoardAwaits
<1>5. DetailFollows
  BY <1>2 DEF DetailFollows, Init, DetailInit, NoDetail, Listings
<1> QED
  BY <1>1, <1>4, <1>5 DEF Follows

LEMMA NextFollows ==
  ASSUME Follows, [Next]_vars
  PROVE  Follows'
<1>1. CASE Next
  <2>1. Sound /\ Sound' /\ Amounts /\ UNCHANGED mode
    BY <1>1, NextSound, NextAmounts, NextCounts DEF Follows, Sound
  <2> QED
    BY <2>1, AmountsBoardFollows, AmountsDetailFollows DEF Follows, Sound
<1>2. CASE UNCHANGED vars
  <2>1. Sound'
    BY <1>2, IdleSound DEF Follows
  <2>2. UNCHANGED <<mode, rows, notice, flight, unseen, board, detail>>
    BY <1>2 DEF vars, clientVars, serverVars
  <2>3. /\ BoardKnows' => BoardKnows /\ rows' = rows
        /\ DetailKnows' => DetailKnows /\ rows' = rows
        /\ \A i \in DOMAIN flight' : \E m \in DOMAIN flight : flight'[i] = flight[m]
        /\ SameList(board', board)
    BY <2>2 DEF BoardKnows, DetailKnows, Silent, Rendered, TellsBoard, TellsDetail, SameList
  <2> QED
    BY <2>1, <2>2, <2>3, IdleBoardFollows, IdleDetailFollows DEF Follows
<1> QED
  BY <1>1, <1>2

LEMMA FollowsAlways == Spec => []Follows
BY InitFollows, NextFollows, PTL DEF Spec

LEMMA SoundTypes ==
  ASSUME Sound
  PROVE  TypeOK
<1>1. Typed /\ board \in Board
  BY DEF Sound, Typed
<1>2. rows \in [DOMAIN rows -> Row] /\ DOMAIN rows \subseteq born /\ born \subseteq Task
  BY <1>1 DEF Typed, RowsTyped, Listed
<1>3. \A n \in DOMAIN flight : flight[n].stage \in {"asked", "read", "done", "lost"}
  BY <1>1, RequestTyped DEF Message
<1>4. ClientTypeOK
  BY <1>1, <1>2, <1>3 DEF ClientTypeOK, Typed
<1>5. board.dialog \in [open : BOOLEAN, title : BOOLEAN, status : Status, saving : Nat]
  <2>1. board.dialog \in [open : BOOLEAN, title : BOOLEAN, status : Status, saving : Int]
    BY <1>1 DEF Board
  <2>2. board.dialog.saving \in Nat
    BY <1>1, CreatingFinite DEF Sound, Saving, Typed
  <2> QED
    BY <2>1, <2>2
<1>6. DOMAIN board.shown \subseteq Task /\ board.shown \in [DOMAIN board.shown -> Row]
  <2>1. board.shown \in Listed
    BY <1>1 DEF Board
  <2> QED
    BY <2>1 DEF Listed
<1>7. BoardTypeOK
  BY <1>1, <1>5, <1>6 DEF Board, BoardTypeOK
<1>8. DetailTypeOK
  BY <1>1 DEF DetailTypeOK, Typed
<1> QED
  BY <1>4, <1>7, <1>8 DEF TypeOK

(* Every variable has its type: the counts of the dialog are never below   *)
(* zero, whatever is answered in whatever order.                           *)
THEOREM TaskScreenTyped == Spec => []TypeOK
<1>1. Follows => TypeOK
  BY SoundTypes DEF Follows
<1> QED
  BY <1>1, FollowsAlways, PTL

(* update_task closes a task for the first time only with proof, whatever  *)
(* others do between its reading the row and its writing all columns; a    *)
(* closing without proof is one that the row it read already had.          *)
THEOREM FirstClosing == Spec => FirstClosingHasProof
<1>1. Follows /\ [Next]_vars => ClosesWell
  BY NextCloses DEF Follows, Sound
<1>2. ClosesWell =>
        \A t \in DOMAIN rows \cap DOMAIN rows' :
          ~rows[t].closedAt /\ rows'[t].closedAt => rows'[t].proof \/ ReadClosed(t)
  BY DEF ClosesWell
<1> QED
  BY <1>1, <1>2, FollowsAlways, PTL DEF Spec, FirstClosingHasProof

(* A spinner stands for a request that is still to be answered, and the    *)
(* page's address and what is open agree.                                  *)
THEOREM ScreenConsistent == Spec => []ScreenIsConsistent
<1>1. Follows => ScreenIsConsistent
  BY DEF Follows, Sound, Spinning, Busies, Addressed, ScreenIsConsistent, SpinnerHasRequest,
         NoDetailAtBoardAddress, Mine, OfDetail
<1> QED
  BY <1>1, FollowsAlways, PTL

(* At rest the board shows what the server would list for its filters, and *)
(* the detail the task it was given as it is, unless the latest load was   *)
(* overtaken or failed, or the last change was one nobody told of.         *)
THEOREM ScreenCurrent == Spec => []ScreenIsCurrent
<1>1. AtRest => /\ ~unseen["board"] => BoardKnows
                /\ ~unseen["detail"] => DetailKnows
  BY DEF AtRest, BoardKnows, DetailKnows, Silent
<1>2. Follows => ScreenIsCurrent
  BY <1>1 DEF Follows, BoardFollows, DetailFollows, DetailShows, ScreenIsCurrent, BoardIsCurrent,
              DetailIsCurrent
<1> QED
  BY <1>2, FollowsAlways, PTL
=============================================================================
