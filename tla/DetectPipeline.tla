--------------------------- MODULE DetectPipeline ---------------------------
(***************************************************************************)
(* Detection on one session: Session.Run samples frames into the queue     *)
(* frameForDetection, asyncDetectLoop has the AI service detect objects in *)
(* them, and one goroutine per answer stores and publishes the pictures    *)
(* that show a label for the first time in five minutes (engine/           *)
(* session.go). Clients turn detection on and off, and whoever takes the   *)
(* session down cancels its context and resets its fields meanwhile.       *)
(*                                                                         *)
(* A frame is named by its turn among those that the queue accepted.       *)
(***************************************************************************)
EXTENDS Integers, Sequences, FiniteSets

CONSTANTS
  QueueCap,     \* capacity of frameForDetection (8 in CreateSession)
  MaxFrames,    \* bound: frames that the queue accepts
  MaxTime,      \* bound: the clock's last second
  EndTimes,     \* end timestamps that clients ask for
  Labels,       \* labels that the AI service knows
  Showing,      \* bound: the frames in which it may find something
  StoreMayFail  \* may decoding, writing or publishing a picture fail?

ASSUME PipelineAssumption ==
  /\ QueueCap \in Nat \ {0}
  /\ MaxFrames \in Nat /\ MaxTime \in Nat
  /\ EndTimes \subseteq Nat
  /\ Showing \subseteq 1..MaxFrames
  /\ StoreMayFail \in BOOLEAN

VARIABLES
  clock,      \* time.Now().Unix()
  detect,     \* Session.detectStatus
  endAt,      \* Session.detectEndTimestamp
  client,     \* a handler between its two stores: the end it has yet to store
  life,       \* Session.ctx: "live", "cancelled", or "reset" (nil)
  runPc,      \* where Session.Run is
  accepted,   \* how many frames the queue has accepted
  queue,      \* Session.frameForDetection
  results,    \* the frame that resultCache holds results of; 0 for none
  loop,       \* asyncDetectLoop and the frame it has in hand
  cached,     \* the labels in Session.localCache
  storer,     \* the goroutine that stores the results of each frame
  published   \* frames whose picture was published

control == <<clock, detect, endAt, client>>
sampling == <<runPc, accepted, queue>>
storing == <<cached, storer, published>>
vars == <<control, life, sampling, results, loop, storing>>

Frames == 1..MaxFrames
NoEnd == -1

Storer == [pc : {"none", "get", "add", "save", "done"},
           todo : SUBSET Labels, label : Labels \cup {"none"},
           new : SUBSET Labels]
NoStorer == [pc |-> "none", todo |-> {}, label |-> "none", new |-> {}]

TypeOK ==
  /\ clock \in 0..MaxTime /\ endAt \in EndTimes \cup {0}
  /\ detect \in BOOLEAN /\ client \in EndTimes \cup {NoEnd}
  /\ life \in {"live", "cancelled", "reset"}
  /\ runPc \in {"head", "test", "expire", "sample", "offer", "draw", "stopped"}
  /\ accepted \in 0..MaxFrames
  /\ queue \in Seq(Frames) /\ Len(queue) <= QueueCap
  /\ results \in 0..MaxFrames
  /\ loop \in [pc : {"head", "wait", "detect", "ended", "panicked"},
               frame : 0..MaxFrames]
  /\ cached \subseteq Labels
  /\ storer \in [Frames -> Storer]
  /\ published \subseteq Frames

Init ==
  /\ clock = 0 /\ detect = FALSE /\ endAt = 0 /\ client = NoEnd
  /\ life = "live" /\ runPc = "head"
  /\ accepted = 0 /\ queue = <<>> /\ results = 0
  /\ loop = [pc |-> "head", frame |-> 0]
  /\ cached = {} /\ published = {}
  /\ storer = [f \in Frames |-> NoStorer]

(***************************************************************************)
(* Clients, time, and the goroutines that take a session down              *)
(***************************************************************************)
\* StartDetect on a session that exists, StartSessionDetect, ContinueDetect
\* (whose end is 0): the status first, ...
StartDetect(e) ==
  /\ client = NoEnd
  /\ detect' = TRUE
  /\ client' = e
  /\ UNCHANGED <<clock, endAt, life, sampling, results, loop, storing>>

\* ... then the end.
StoreEnd ==
  /\ client # NoEnd
  /\ endAt' = client
  /\ client' = NoEnd
  /\ UNCHANGED <<clock, detect, life, sampling, results, loop, storing>>

StopDetect ==
  /\ client = NoEnd
  /\ detect' = FALSE
  /\ UNCHANGED <<clock, endAt, client, life, sampling, results, loop, storing>>

Second ==
  /\ clock < MaxTime
  /\ clock' = clock + 1
  /\ UNCHANGED <<detect, endAt, client, life, sampling, results, loop, storing>>

Cancel ==
  /\ life = "live"
  /\ life' = "cancelled"
  /\ UNCHANGED <<control, sampling, results, loop, storing>>

\* Session.Reset, as far as detection goes.
Reset ==
  /\ life # "reset"
  /\ life' = "reset"
  /\ detect' = FALSE
  /\ results' = 0
  /\ cached' = {}
  /\ UNCHANGED <<clock, endAt, client, sampling, loop, storer, published>>

(***************************************************************************)
(* Session.Run, from a frame that was read to the next                     *)
(***************************************************************************)
\* A frame is read; those that skipFrames passes over are left out.
RunRead ==
  /\ runPc = "head" /\ life = "live" /\ accepted < MaxFrames
  /\ runPc' = "test"
  /\ UNCHANGED <<control, life, accepted, queue, results, loop, storing>>

\* The context is done or nil, or the stream ended: cancel, and return
\* through the deferred cleanup.
RunStops ==
  /\ runPc = "head"
  /\ runPc' = "stopped"
  /\ life' = IF life = "live" THEN "cancelled" ELSE life
  /\ detect' = FALSE
  /\ UNCHANGED <<clock, endAt, client, accepted, queue, results, loop, storing>>

\* Is detection on, and not expired?
RunTest ==
  /\ runPc = "test"
  /\ runPc' = IF ~detect \/ clock >= endAt THEN "expire" ELSE "sample"
  /\ UNCHANGED <<control, life, accepted, queue, results, loop, storing>>

\* It is not: detectStatus.CompareAndSwap(true, false).
RunExpire ==
  /\ runPc = "expire"
  /\ detect' = FALSE
  /\ runPc' = "head"
  /\ UNCHANGED <<clock, endAt, client, life, accepted, queue, results, loop, storing>>

\* Mutated: the results of the frames before are kept.
RunSampleKeeps ==
  /\ runPc = "sample"
  /\ runPc' \in IF detect THEN {"offer", "draw", "head"} ELSE {"draw", "head"}
  /\ UNCHANGED <<control, life, accepted, queue, results, loop, storing>>

\* detectInterval has passed: forget the results so far and offer the frame;
\* or it has not, or the frame is no picture.
RunSample ==
  /\ runPc = "sample"
  /\ \/ detect /\ runPc' = "offer" /\ results' = 0
     \/ runPc' \in {"draw", "head"} /\ UNCHANGED results
  /\ UNCHANGED <<control, life, accepted, queue, loop, storing>>

\* Mutated: a full queue takes the frame too.
RunOfferUnbounded ==
  /\ runPc = "offer"
  /\ accepted' = accepted + 1
  /\ queue' = Append(queue, accepted + 1)
  /\ runPc' = "draw"
  /\ UNCHANGED <<control, life, results, loop, storing>>

\* Mutated: a full queue gives up its oldest frame for the new one.
RunOfferEvicts ==
  /\ runPc = "offer"
  /\ accepted' = accepted + 1
  /\ queue' = IF Len(queue) < QueueCap THEN Append(queue, accepted + 1)
                                      ELSE Append(Tail(queue), accepted + 1)
  /\ runPc' = "draw"
  /\ UNCHANGED <<control, life, results, loop, storing>>

\* The queue takes the frame, unless it is full or encoding failed.
RunOffer ==
  /\ runPc = "offer"
  /\ \/ /\ Len(queue) < QueueCap
        /\ accepted' = accepted + 1
        /\ queue' = Append(queue, accepted + 1)
     \/ UNCHANGED <<accepted, queue>>
  /\ runPc' = "draw"
  /\ UNCHANGED <<control, life, results, loop, storing>>

\* The results are drawn and the frame is pushed; when the pusher's pipe is
\* broken, s.cancelFunc() and return.
RunDraw ==
  /\ runPc = "draw"
  /\ \/ runPc' = "head" /\ UNCHANGED <<detect, life>>
     \/ /\ detect
        /\ runPc' = "stopped" /\ detect' = FALSE
        /\ life' = IF life = "live" THEN "cancelled" ELSE life
  /\ UNCHANGED <<clock, endAt, client, accepted, queue, results, loop, storing>>

(***************************************************************************)
(* asyncDetectLoop                                                         *)
(***************************************************************************)
\* The select evaluates s.ctx.Done(). Of a nil ctx that panics, and no
\* deferred function of this goroutine recovers: the process ends.
LoopHead ==
  /\ loop.pc = "head"
  /\ loop' = [loop EXCEPT !.pc = IF life = "reset" THEN "panicked" ELSE "wait"]
  /\ UNCHANGED <<control, life, sampling, results, storing>>

\* Mutated: the loop waits for Run to end the queue.
LoopEndsWithRun ==
  /\ loop.pc = "wait" /\ runPc = "stopped" /\ queue = <<>>
  /\ loop' = [loop EXCEPT !.pc = "ended"]
  /\ UNCHANGED <<control, life, sampling, results, storing>>

\* Mutated: the loop ends when there is nothing to detect.
LoopEndsIdle ==
  /\ loop.pc = "wait"
  /\ life # "live" \/ (queue = <<>> /\ ~detect)
  /\ loop' = [loop EXCEPT !.pc = "ended"]
  /\ UNCHANGED <<control, life, sampling, results, storing>>

\* <-s.ctx.Done(). Reset cancels before it clears ctx.
LoopEnds ==
  /\ loop.pc = "wait" /\ life # "live"
  /\ loop' = [loop EXCEPT !.pc = "ended"]
  /\ UNCHANGED <<control, life, sampling, results, storing>>

\* Even when the context is done too: select picks either.
LoopTakes ==
  /\ loop.pc = "wait" /\ queue # <<>>
  /\ loop' = [pc |-> "detect", frame |-> Head(queue)]
  /\ queue' = Tail(queue)
  /\ UNCHANGED <<control, life, runPc, accepted, results, storing>>

\* The AI service fails.
LoopFails ==
  /\ loop.pc = "detect"
  /\ loop' = [loop EXCEPT !.pc = "head"]
  /\ UNCHANGED <<control, life, sampling, results, storing>>

\* The AI service answers with labels L: a goroutine stores them if there
\* are any, and the result cache is replaced.
LoopAnswers(L) ==
  /\ loop.pc = "detect" /\ (L # {} => loop.frame \in Showing)
  /\ loop' = [loop EXCEPT !.pc = "head"]
  /\ results' = loop.frame
  /\ storer' = IF L = {} THEN storer
               ELSE [storer EXCEPT ![loop.frame] = [NoStorer EXCEPT !.pc = "get", !.todo = L]]
  /\ UNCHANGED <<control, life, sampling, cached, published>>

(***************************************************************************)
(* The goroutines that store results                                       *)
(***************************************************************************)
\* localCache.Get of the next label.
StoreGet(f, l) ==
  /\ storer[f].pc = "get" /\ l \in storer[f].todo
  /\ storer' = IF l \in cached
                 THEN [storer EXCEPT ![f].todo = @ \ {l}]
                 ELSE [storer EXCEPT ![f].pc = "add", ![f].label = l, ![f].todo = @ \ {l}]
  /\ UNCHANGED <<control, life, sampling, results, loop, cached, published>>

\* Mutated: a label counts as new only when Add finds it taken.
StoreAddInverted(f) ==
  /\ storer[f].pc = "add"
  /\ cached' = cached \cup {storer[f].label}
  /\ storer' = [storer EXCEPT ![f].pc = "get", ![f].label = "none",
                               ![f].new = @ \cup ({storer[f].label} \cap cached)]
  /\ UNCHANGED <<control, life, sampling, results, loop, published>>

\* localCache.Add, which may find that another goroutine was first; the label
\* counts as new all the same.
StoreAdd(f) ==
  /\ storer[f].pc = "add"
  /\ cached' = cached \cup {storer[f].label}
  /\ storer' = [storer EXCEPT ![f].pc = "get", ![f].label = "none",
                               ![f].new = @ \cup {storer[f].label}]
  /\ UNCHANGED <<control, life, sampling, results, loop, published>>

\* All labels were looked at: without a new one nothing is stored.
StoreDecide(f) ==
  /\ storer[f].pc = "get" /\ storer[f].todo = {}
  /\ storer' = [storer EXCEPT ![f].pc = IF storer[f].new = {} THEN "done" ELSE "save"]
  /\ UNCHANGED <<control, life, sampling, results, loop, cached, published>>

\* The results are drawn on the picture, which is written, and a message with
\* its path is published to Redis; the first of these to fail is the last. The
\* message has a field for labels, but `labels` is never appended to: it names
\* the picture and no label.
StoreSave(f) ==
  /\ storer[f].pc = "save"
  /\ \/ published' = published \cup {f}
     \/ StoreMayFail /\ UNCHANGED published
  /\ storer' = [storer EXCEPT ![f].pc = "done"]
  /\ UNCHANGED <<control, life, sampling, results, loop, cached>>

(***************************************************************************)
(* The specification                                                       *)
(***************************************************************************)
ClientStep == (\E e \in EndTimes : StartDetect(e)) \/ StoreEnd \/ StopDetect

RunStep == RunStops \/ RunTest \/ RunExpire \/ RunSample \/ RunOffer \/ RunDraw

LoopStep ==
  \/ LoopHead \/ LoopEnds \/ LoopTakes \/ LoopFails
  \/ \E L \in SUBSET Labels : LoopAnswers(L)

StoreStep(f) ==
  \/ \E l \in Labels : StoreGet(f, l)
  \/ StoreAdd(f) \/ StoreDecide(f) \/ StoreSave(f)

\* What the other goroutines do once the loop has panicked is of no account.
Next ==
  \/ ClientStep \/ Second \/ Cancel \/ Reset
  \/ RunRead \/ RunStep \/ LoopStep
  \/ \E f \in Showing : StoreStep(f)

Spec == Init /\ [][Next]_vars

\* The Go scheduler is fair to the loop and to the storing goroutines. The AI
\* service owes no answer: detectObjects, which the shipped configurations
\* select, posts without a timeout.
FairSpec ==
  /\ Spec
  /\ WF_vars(LoopHead \/ LoopEnds \/ LoopTakes)
  /\ \A f \in Showing : WF_vars(StoreStep(f))

(***************************************************************************)
(* Properties                                                              *)
(***************************************************************************)
\* The results drawn on a frame are never older than what the queue and the
\* loop can hold: at most QueueCap + 1 frames were accepted since the one
\* they are of, however slow the AI service is and however often it fails.
\* (Run forgets the results before each frame it offers.)
ResultsAreRecent == results # 0 => accepted - results <= QueueCap + 1

\* No frame that the queue accepted is lost or overtaken: it holds the last
\* ones in their order, and the loop has, or had last, the one before them.
InOrder ==
  /\ loop.frame = accepted - Len(queue)
  /\ \A i \in 1..Len(queue) : queue[i] = accepted - Len(queue) + i

\* A label gets no new picture for five minutes only because of a picture on
\* which it is drawn, and whose path is published or about to be.
\* (asyncDetectLoop fills localCache before it knows that the picture could
\* be stored. What is published is the path: no message names a label.)
LabelIsPictured ==
  \A l \in cached :
    \E f \in Frames :
      /\ l \in storer[f].new
      /\ f \in published \/ storer[f].pc \in {"get", "add", "save"}

\* Taking a session down does not take the process down.
NoPanic == loop.pc # "panicked"

\* asyncDetectLoop does not outlive a session that was taken down, unless it
\* waits for the AI service for ever.
LoopEndsWithSession ==
  [](life # "live" => <>(loop.pc \in {"ended", "panicked"}) \/ <>[](loop.pc = "detect"))

=============================================================================
