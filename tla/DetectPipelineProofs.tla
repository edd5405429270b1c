------------------------ MODULE DetectPipelineProofs ------------------------
(***************************************************************************)
(* How old the results can be that Session.Run draws, proved for queues of *)
(* every size, and that every step is one of FrameFeed or leaves its       *)
(* variables alone.                                                        *)
(***************************************************************************)
EXTENDS DetectPipelineRefinement, TLAPS

LoopState == [pc : {"head", "wait", "detect", "ended", "panicked"}, frame : 0..MaxFrames]

Numbers ==
  /\ accepted \in 0..MaxFrames
  /\ queue \in Seq(Frames) /\ Len(queue) <= QueueCap
  /\ results \in 0..MaxFrames
  /\ loop \in LoopState

\* A frame is read only while the bound leaves a number for it.
RoomToCount == runPc \in {"test", "sample", "offer"} => accepted < MaxFrames

\* While a frame is on offer, none was accepted since the results of the
\* frames before were forgotten.
OfferIsCounted == results # 0 /\ runPc = "offer" => accepted - results <= QueueCap

RecentInv == Numbers /\ RoomToCount /\ InOrder /\ OfferIsCounted /\ ResultsAreRecent

LEMMA EmptyInOrder ==
  ASSUME Len(queue) = 0, loop.frame = 0, accepted = 0
  PROVE  InOrder
<1>1. ASSUME NEW i \in 1..Len(queue) PROVE FALSE
  <2>1. i \in 1..0
    BY <1>1
  <2> QED
    BY <2>1
<1>2. loop.frame = accepted - Len(queue)
  OBVIOUS
<1> QED
  BY <1>1, <1>2 DEF InOrder

LEMMA RecentInit == Init => RecentInv
<1> SUFFICES ASSUME Init PROVE RecentInv
  OBVIOUS
<1> USE PipelineAssumption DEF Init
<1>1. Numbers
  BY DEF Numbers, LoopState, Frames
<1>2. RoomToCount /\ OfferIsCounted /\ ResultsAreRecent
  BY DEF RoomToCount, OfferIsCounted, ResultsAreRecent
<1>3. Len(queue) = 0 /\ loop.frame = 0 /\ accepted = 0
  OBVIOUS
<1>4. InOrder
  BY <1>3, EmptyInOrder
<1> QED
  BY <1>1, <1>2, <1>4 DEF RecentInv

\* Steps that leave the queue, the results and the frame in hand alone, and
\* that offer no frame.
LEMMA OthersKeep ==
  ASSUME RecentInv,
         UNCHANGED <<accepted, queue, results>>,
         loop' \in LoopState, loop'.frame = loop.frame,
         runPc' = "offer" => runPc = "offer",
         runPc' \in {"test", "sample", "offer"} => accepted < MaxFrames
  PROVE  RecentInv'
<1> USE DEF RecentInv
<1>1. Numbers'
  BY DEF Numbers
<1>2. RoomToCount'
  BY DEF RoomToCount
<1>3. InOrder'
  BY DEF InOrder
<1>4. OfferIsCounted' /\ ResultsAreRecent'
  BY DEF OfferIsCounted, ResultsAreRecent
<1> QED
  BY <1>1, <1>2, <1>3, <1>4

LEMMA SampleKeeps == ASSUME RecentInv, RunSample PROVE RecentInv'
<1> USE DEF RecentInv
<1>1. CASE results' = 0
  <2>1. Numbers' /\ RoomToCount'
    BY <1>1, PipelineAssumption DEF RunSample, Numbers, RoomToCount
  <2>2. InOrder' /\ OfferIsCounted' /\ ResultsAreRecent'
    BY <1>1 DEF RunSample, InOrder, OfferIsCounted, ResultsAreRecent
  <2> QED
    BY <2>1, <2>2
<1>2. CASE UNCHANGED results /\ runPc' # "offer"
  BY <1>2, OthersKeep DEF RunSample, Numbers, RoomToCount
<1> QED
  BY <1>1, <1>2 DEF RunSample

LEMMA OfferKeeps == ASSUME RecentInv, RunOffer PROVE RecentInv'
<1> USE PipelineAssumption DEF RecentInv
<1>1. CASE UNCHANGED <<accepted, queue>>
  BY <1>1, OthersKeep DEF RunOffer, Numbers, RoomToCount
<1>2. CASE Len(queue) < QueueCap /\ accepted' = accepted + 1 /\ queue' = Append(queue, accepted + 1)
  <2>1. /\ runPc = "offer" /\ runPc' = "draw" /\ results' = results /\ loop' = loop
    BY DEF RunOffer
  <2>2. /\ accepted \in 0..MaxFrames /\ accepted < MaxFrames /\ MaxFrames \in Nat
        /\ queue \in Seq(Frames) /\ results \in 0..MaxFrames /\ QueueCap \in Nat
    BY <2>1 DEF Numbers, RoomToCount
  <2>3. accepted + 1 \in Frames
    BY <2>2 DEF Frames
  <2>4. /\ queue' \in Seq(Frames) /\ Len(queue') = Len(queue) + 1
        /\ \A i \in 1..Len(queue) : queue'[i] = queue[i]
        /\ queue'[Len(queue) + 1] = accepted + 1
    BY <1>2, <2>2, <2>3
  <2>5. Numbers'
    BY <1>2, <2>1, <2>2, <2>4 DEF Numbers
  <2>6. RoomToCount' /\ OfferIsCounted' /\ ResultsAreRecent'
    BY <1>2, <2>1, <2>2 DEF RoomToCount, OfferIsCounted, ResultsAreRecent
  <2>7. InOrder'
    <3>1. Len(queue) \in Nat /\ loop.frame = accepted - Len(queue)
      BY <2>2 DEF InOrder
    <3>2. ASSUME NEW i \in 1..Len(queue') PROVE queue'[i] = accepted' - Len(queue') + i
      BY <1>2, <2>2, <2>4, <3>1 DEF InOrder
    <3> QED
      BY <1>2, <2>1, <2>2, <2>4, <3>1, <3>2 DEF InOrder
  <2> QED
    BY <2>5, <2>6, <2>7
<1> QED
  BY <1>1, <1>2 DEF RunOffer

LEMMA TakeKeeps == ASSUME RecentInv, LoopTakes PROVE RecentInv'
<1> USE PipelineAssumption DEF RecentInv
<1>1. /\ queue # <<>> /\ queue' = Tail(queue)
      /\ loop' = [pc |-> "detect", frame |-> Head(queue)]
      /\ UNCHANGED <<runPc, accepted, results>>
  BY DEF LoopTakes
<1>2. queue \in Seq(Frames) /\ accepted \in Nat /\ QueueCap \in Nat /\ Len(queue) <= QueueCap
  BY DEF Numbers
<1>3. /\ queue' \in Seq(Frames) /\ Len(queue') = Len(queue) - 1
      /\ Len(queue) \in Nat \ {0} /\ Head(queue) = queue[1] /\ Head(queue) \in Frames
      /\ \A i \in 1..Len(queue') : queue'[i] = queue[i + 1]
  BY <1>1, <1>2
<1>4. Numbers'
  BY <1>1, <1>2, <1>3 DEF Numbers, LoopState, Frames
<1>5. RoomToCount' /\ OfferIsCounted' /\ ResultsAreRecent'
  BY <1>1 DEF RoomToCount, OfferIsCounted, ResultsAreRecent
<1>6. InOrder'
  <2>1. ASSUME NEW i \in 1..Len(queue') PROVE queue'[i] = accepted' - Len(queue') + i
    BY <1>1, <1>2, <1>3 DEF InOrder
  <2>2. queue[1] = accepted - Len(queue) + 1
    BY <1>3 DEF InOrder
  <2> QED
    BY <1>1, <1>2, <1>3, <2>1, <2>2 DEF InOrder
<1> QED
  BY <1>4, <1>5, <1>6

\* The results of the frame in hand: at most the queue was accepted after it.
LEMMA AnswerKeeps ==
  ASSUME RecentInv, NEW L \in SUBSET Labels, LoopAnswers(L) PROVE RecentInv'
<1> USE PipelineAssumption DEF RecentInv
<1>1. /\ loop' = [loop EXCEPT !.pc = "head"] /\ results' = loop.frame
      /\ UNCHANGED <<runPc, accepted, queue>>
  BY DEF LoopAnswers, sampling
<1>2. /\ queue \in Seq(Frames) /\ accepted \in 0..MaxFrames /\ MaxFrames \in Nat
      /\ QueueCap \in Nat /\ Len(queue) <= QueueCap /\ Len(queue) \in Nat
      /\ loop \in LoopState /\ loop.frame = accepted - Len(queue)
  BY DEF Numbers, InOrder
<1>3. loop' \in LoopState /\ loop'.frame = loop.frame /\ loop.frame \in 0..MaxFrames
  BY <1>1, <1>2 DEF LoopState
<1>4. Numbers' /\ RoomToCount'
  BY <1>1, <1>2, <1>3 DEF Numbers, RoomToCount
<1>5. InOrder'
  BY <1>1, <1>3 DEF InOrder
<1>6. OfferIsCounted' /\ ResultsAreRecent'
  BY <1>1, <1>2, <1>3 DEF OfferIsCounted, ResultsAreRecent
<1> QED
  BY <1>4, <1>5, <1>6

LEMMA ResetKeeps == ASSUME RecentInv, Reset PROVE RecentInv'
<1> USE PipelineAssumption DEF RecentInv
<1>1. results' = 0 /\ UNCHANGED <<runPc, accepted, queue, loop>>
  BY DEF Reset, sampling
<1>2. Numbers' /\ RoomToCount'
  BY <1>1 DEF Numbers, RoomToCount
<1>3. InOrder' /\ OfferIsCounted' /\ ResultsAreRecent'
  BY <1>1 DEF InOrder, OfferIsCounted, ResultsAreRecent
<1> QED
  BY <1>2, <1>3

LEMMA RecentNext == ASSUME RecentInv, [Next]_vars PROVE RecentInv'
<1>0. /\ loop \in LoopState
      /\ runPc \in {"test", "sample", "offer"} => accepted < MaxFrames
  BY DEF RecentInv, Numbers, RoomToCount
<1>1. CASE ClientStep \/ Second \/ Cancel
  BY <1>0, <1>1, OthersKeep
  DEF ClientStep, StartDetect, StoreEnd, StopDetect, Second, Cancel, sampling
<1>2. CASE Reset
  BY <1>2, ResetKeeps
<1>3. CASE RunRead \/ RunStops \/ RunTest \/ RunExpire \/ RunDraw
  BY <1>0, <1>3, OthersKeep DEF RunRead, RunStops, RunTest, RunExpire, RunDraw
<1>4. CASE RunSample \/ RunOffer
  BY <1>4, SampleKeeps, OfferKeeps
<1>5. CASE LoopHead \/ LoopEnds \/ LoopFails
  <2>1. loop' \in LoopState /\ loop'.frame = loop.frame
    BY <1>0, <1>5 DEF LoopHead, LoopEnds, LoopFails, LoopState
  <2> QED
    BY <1>0, <1>5, <2>1, OthersKeep DEF LoopHead, LoopEnds, LoopFails, sampling
<1>6. CASE LoopTakes \/ \E L \in SUBSET Labels : LoopAnswers(L)
  BY <1>6, TakeKeeps, AnswerKeeps
<1>7. CASE \E f \in Showing : StoreStep(f)
  BY <1>0, <1>7, OthersKeep
  DEF StoreStep, StoreGet, StoreAdd, StoreDecide, StoreSave, sampling
<1>8. CASE UNCHANGED vars
  BY <1>0, <1>8, OthersKeep DEF vars, sampling
<1> QED
  BY <1>1, <1>2, <1>3, <1>4, <1>5, <1>6, <1>7, <1>8 DEF Next, RunStep, LoopStep

\* The results that are drawn are of a frame with at most QueueCap + 1 frames
\* accepted after it, whatever the AI service, the clients and the teardown
\* do.
THEOREM AlwaysRecent == Spec => []ResultsAreRecent
<1>1. RecentInv => ResultsAreRecent
  BY DEF RecentInv
<1> QED
  BY RecentInit, RecentNext, <1>1, PTL DEF Spec

\* No accepted frame is lost or overtaken between Run and the AI service.
THEOREM AlwaysInOrder == Spec => []InOrder
<1>1. RecentInv => InOrder
  BY DEF RecentInv
<1> QED
  BY RecentInit, RecentNext, <1>1, PTL DEF Spec

(***************************************************************************)
(* Every step is one of FrameFeed or a stutter                             *)
(***************************************************************************)
FeedStep == [Feed!Next]_(Feed!vars)

\* Steps that neither queue nor detect nor end anything.
LEMMA OthersStutter ==
  ASSUME UNCHANGED <<accepted, loop, results, life>>
  PROVE  FeedStep
BY DEF FeedStep, Feed!vars

LEMMA TeardownFeeds == ASSUME Cancel \/ Reset PROVE FeedStep
<1>1. UNCHANGED <<accepted, loop>> /\ results' \in {results, 0} /\ life' # "live"
  BY DEF Cancel, Reset, sampling
<1>2. CASE life = "live"
  BY <1>1, <1>2 DEF FeedStep, Feed!Next, Feed!Close
<1>3. CASE life # "live" /\ results' = 0
  BY <1>1, <1>3 DEF FeedStep, Feed!Next, Feed!Forget
<1>4. CASE life # "live" /\ results' = results
  BY <1>1, <1>4 DEF FeedStep, Feed!vars
<1> QED
  BY <1>1, <1>2, <1>3, <1>4

\* Run gives up: the context is cancelled unless that was done before.
LEMMA RunEndFeeds == ASSUME RunStops \/ RunDraw PROVE FeedStep
<1>1. /\ UNCHANGED <<accepted, loop, results>>
      /\ life' = life \/ (life = "live" /\ life' = "cancelled")
  BY DEF RunStops, RunDraw
<1>2. CASE life' = life
  BY <1>1, <1>2, OthersStutter
<1>3. CASE life = "live" /\ life' = "cancelled"
  BY <1>1, <1>3 DEF FeedStep, Feed!Next, Feed!Close
<1> QED
  BY <1>1, <1>2, <1>3

\* Before it offers a frame Run forgets the results.
LEMMA SampleFeeds == ASSUME RunSample PROVE FeedStep
<1>1. UNCHANGED <<accepted, loop, life>> /\ (results' = 0 \/ results' = results)
  BY DEF RunSample
<1>2. CASE results' = 0
  BY <1>1, <1>2 DEF FeedStep, Feed!Next, Feed!Forget
<1>3. CASE results' = results
  BY <1>1, <1>3, OthersStutter
<1> QED
  BY <1>1, <1>2, <1>3

LEMMA OfferFeeds == ASSUME RecentInv, RunOffer PROVE FeedStep
<1>1. UNCHANGED <<loop, results, life>> /\ runPc = "offer"
  BY DEF RunOffer
<1>2. CASE UNCHANGED accepted
  BY <1>1, <1>2, OthersStutter
<1>3. CASE Len(queue) < QueueCap /\ accepted' = accepted + 1
  <2>1. /\ accepted \in Nat /\ QueueCap \in Nat /\ Len(queue) \in Nat
        /\ loop.frame = accepted - Len(queue)
        /\ results # 0 => accepted - results <= QueueCap
    BY <1>1, PipelineAssumption DEF RecentInv, Numbers, InOrder, OfferIsCounted
  <2>2. Feed!Lag <= QueueCap
    BY <2>1 DEF Feed!Lag
  <2>3. Feed!Accept
    BY <1>1, <1>3, <2>1, <2>2 DEF Feed!Accept
  <2> QED
    BY <2>3 DEF FeedStep, Feed!Next
<1> QED
  BY <1>2, <1>3 DEF RunOffer

\* The loop takes the frame that was accepted after its last one.
LEMMA TakeFeeds == ASSUME RecentInv, LoopTakes PROVE FeedStep
<1>1. /\ loop.pc = "wait" /\ queue # <<>>
      /\ loop'.pc = "detect" /\ loop'.frame = Head(queue)
      /\ UNCHANGED <<accepted, results, life>>
  BY DEF LoopTakes
<1>2. queue \in Seq(Frames) /\ accepted \in Nat
  BY PipelineAssumption DEF RecentInv, Numbers
<1>3. Len(queue) \in Nat \ {0} /\ Head(queue) = queue[1]
  BY <1>1, <1>2
<1>4. loop.frame = accepted - Len(queue) /\ queue[1] = accepted - Len(queue) + 1
  BY <1>3 DEF RecentInv, InOrder
<1>5. Feed!Take
  BY <1>1, <1>2, <1>3, <1>4 DEF Feed!Take
<1> QED
  BY <1>5 DEF FeedStep, Feed!Next

LEMMA LoopFeeds == ASSUME RecentInv, LoopStep PROVE FeedStep
<1>0. loop \in LoopState
  BY DEF RecentInv, Numbers
<1>1. CASE LoopHead
  <2>1. /\ loop.pc = "head" /\ loop'.frame = loop.frame
        /\ loop'.pc = IF life = "reset" THEN "panicked" ELSE "wait"
        /\ UNCHANGED <<accepted, results, life>>
    BY <1>0, <1>1 DEF LoopHead, LoopState, sampling
  <2>2. CASE life = "reset"
    BY <2>1, <2>2 DEF FeedStep, Feed!Next, Feed!End
  <2>3. CASE life # "reset"
    BY <2>1, <2>3 DEF FeedStep, Feed!vars
  <2> QED
    BY <2>2, <2>3
<1>2. CASE LoopEnds
  <2>1. /\ loop.pc = "wait" /\ life # "live"
        /\ loop'.frame = loop.frame /\ loop'.pc = "ended"
        /\ UNCHANGED <<accepted, results, life>>
    BY <1>0, <1>2 DEF LoopEnds, LoopState, sampling
  <2> QED
    BY <2>1 DEF FeedStep, Feed!Next, Feed!End
<1>3. CASE LoopFails \/ \E L \in SUBSET Labels : LoopAnswers(L)
  <2>1. /\ loop.pc = "detect" /\ loop'.frame = loop.frame /\ loop'.pc = "head"
        /\ UNCHANGED <<accepted, life>> /\ results' \in {loop.frame, results}
    BY <1>0, <1>3 DEF LoopFails, LoopAnswers, LoopState, sampling
  <2> QED
    BY <2>1 DEF FeedStep, Feed!Next, Feed!Answer
<1>4. CASE LoopTakes
  BY <1>4, TakeFeeds
<1> QED
  BY <1>1, <1>2, <1>3, <1>4 DEF LoopStep

LEMMA NextFeeds == ASSUME RecentInv, [Next]_vars PROVE FeedStep
<1>1. CASE Cancel \/ Reset
  BY <1>1, TeardownFeeds
<1>2. CASE RunStep
  BY <1>2, RunEndFeeds, SampleFeeds, OfferFeeds, OthersStutter
  DEF RunStep, RunTest, RunExpire
<1>3. CASE LoopStep
  BY <1>3, LoopFeeds
<1>4. CASE ClientStep \/ Second \/ RunRead
  BY <1>4, OthersStutter
  DEF ClientStep, StartDetect, StoreEnd, StopDetect, Second, RunRead, sampling
<1>5. CASE \E f \in Showing : StoreStep(f)
  BY <1>5, OthersStutter
  DEF StoreStep, StoreGet, StoreAdd, StoreDecide, StoreSave, sampling
<1>6. CASE UNCHANGED vars
  BY <1>6, OthersStutter DEF vars, sampling
<1> QED
  BY <1>1, <1>2, <1>3, <1>4, <1>5, <1>6 DEF Next

\* Run, asyncDetectLoop and whoever takes the session down keep the promises
\* of FrameFeed: frames are detected once and in order, results on show lag
\* QueueCap + 1 frames at most, and detection ends with the session only.
THEOREM PipelineImplementsFeed == Spec => Feed!Spec
<1>1. Init => Feed!Init
  BY DEF Init, Feed!Init
<1>2. RecentInv /\ [Next]_vars => [Feed!Next]_(Feed!vars)
  BY NextFeeds DEF FeedStep
<1> QED
  BY RecentInit, RecentNext, <1>1, <1>2, PTL DEF Spec, Feed!Spec
=============================================================================
