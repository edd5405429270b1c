------------------------ MODULE DetectPipelineLabels ------------------------
(***************************************************************************)
(* Types of the detection pipeline, and what the label cache promises: a   *)
(* label that gets no new picture has one that is published, or is about   *)
(* to be. The latter is proved while pictures can be stored.               *)
(***************************************************************************)
EXTENDS DetectPipelineProofs

(***************************************************************************)
(* Types                                                                   *)
(***************************************************************************)
\* What TypeOK says beyond Numbers.
StatusTyped ==
  /\ clock \in 0..MaxTime /\ endAt \in EndTimes \cup {0}
  /\ detect \in BOOLEAN /\ client \in EndTimes \cup {NoEnd}
  /\ life \in {"live", "cancelled", "reset"}
  /\ runPc \in {"head", "test", "expire", "sample", "offer", "draw", "stopped"}

StoringTyped ==
  /\ cached \subseteq Labels
  /\ storer \in [Frames -> Storer]
  /\ published \subseteq Frames

\* A goroutine that is about to add a label has one.
Adding == \A f \in Frames : storer[f].pc = "add" => storer[f].label \in Labels

TypeInv == RecentInv /\ StatusTyped /\ StoringTyped /\ Adding

LEMMA NoStorerTyped == NoStorer \in Storer
  BY DEF NoStorer, Storer

LEMMA TypesInit == Init => TypeInv
<1> SUFFICES ASSUME Init PROVE TypeInv
  OBVIOUS
<1>1. StatusTyped
  <2>1. clock \in 0..MaxTime /\ endAt \in EndTimes \cup {0} /\ client \in EndTimes \cup {NoEnd}
    BY PipelineAssumption DEF Init
  <2> QED
    BY <2>1 DEF Init, StatusTyped
<1>2. StoringTyped /\ Adding
  BY NoStorerTyped DEF Init, StoringTyped, Adding, NoStorer
<1> QED
  BY <1>1, <1>2, RecentInit DEF TypeInv

LEMMA StatusKept == ASSUME StatusTyped, [Next]_vars PROVE StatusTyped'
<1> USE PipelineAssumption DEF StatusTyped
<1>1. CASE ClientStep
  <2>1. clock' = clock /\ life' = life /\ runPc' = runPc
    BY <1>1 DEF ClientStep, StartDetect, StoreEnd, StopDetect, sampling
  <2>2. endAt' \in EndTimes \cup {0} /\ client' \in EndTimes \cup {NoEnd}
    BY <1>1 DEF ClientStep, StartDetect, StoreEnd, StopDetect
  <2>3. detect' \in BOOLEAN
    BY <1>1 DEF ClientStep, StartDetect, StoreEnd, StopDetect
  <2> QED
    BY <2>1, <2>2, <2>3
<1>8. CASE Second
  BY <1>8 DEF Second, sampling
<1>2. CASE Cancel \/ Reset
  BY <1>2 DEF Cancel, Reset, control, sampling
<1>3. CASE RunRead \/ RunStops \/ RunTest \/ RunExpire
  BY <1>3 DEF RunRead, RunStops, RunTest, RunExpire, control
<1>4. CASE RunSample \/ RunOffer \/ RunDraw
  BY <1>4 DEF RunSample, RunOffer, RunDraw, control
<1>5. CASE LoopStep
  BY <1>5 DEF LoopStep, LoopHead, LoopEnds, LoopTakes, LoopFails, LoopAnswers,
              control, sampling
<1>6. CASE \E f \in Showing : StoreStep(f)
  BY <1>6 DEF StoreStep, StoreGet, StoreAdd, StoreDecide, StoreSave, control, sampling
<1>7. CASE UNCHANGED vars
  BY <1>7 DEF vars, control, sampling
<1> QED
  BY <1>1, <1>2, <1>3, <1>4, <1>5, <1>6, <1>7, <1>8 DEF Next, RunStep

\* A step of one storing goroutine: of its record, what becomes of it.
LEMMA StorerMoves ==
  ASSUME storer \in [Frames -> Storer], NEW f \in Frames, NEW s \in Storer,
         storer' = [storer EXCEPT ![f] = s]
  PROVE  /\ storer' \in [Frames -> Storer]
         /\ storer'[f] = s
         /\ \A g \in Frames \ {f} : storer'[g] = storer[g]
  OBVIOUS

\* The goroutine of frame f is now as s has it.
Becomes(f, s) == s \in Storer /\ storer' = [storer EXCEPT ![f] = s]

LEMMA AnswerBecomes ==
  ASSUME NEW L \in SUBSET Labels, LoopAnswers(L), L # {}
  PROVE  /\ loop.frame \in Frames
         /\ Becomes(loop.frame, [NoStorer EXCEPT !.pc = "get", !.todo = L])
<1>1. loop.frame \in Frames
  BY PipelineAssumption DEF LoopAnswers, Frames
<1> QED
  BY <1>1, NoStorerTyped DEF LoopAnswers, Becomes, NoStorer, Storer

\* What a step of it does.
StoreEffect(f, s) ==
  /\ Becomes(f, s)
  /\ s.pc = "add" => s.label \in Labels
  /\ storer[f].new \subseteq s.new
  /\ storer[f].pc # "none"
  /\ \/ UNCHANGED <<cached, published>> /\ (s.new # {} => s.pc \in {"get", "add", "save"})
     \/ /\ published' \in {published, published \cup {f}}
        /\ StoreMayFail \/ f \in published'
        /\ cached' = cached
     \/ /\ s.pc = "get" /\ published' = published
        /\ storer[f].label \in Labels \cap s.new
        /\ cached' = cached \cup {storer[f].label}

LEMMA StoreHasEffect ==
  ASSUME StoringTyped, Adding, NEW f \in Showing, StoreStep(f)
  PROVE  f \in Frames /\ \E s \in Storer : StoreEffect(f, s)
<1> DEFINE t == storer[f]
<1>0. f \in Frames /\ t \in Storer /\ storer \in [Frames -> Storer]
  BY PipelineAssumption DEF StoringTyped, Frames
<1> SUFFICES \E s \in Storer : StoreEffect(f, s)
  BY <1>0
<1>1. ASSUME NEW l \in Labels, StoreGet(f, l) PROVE \E s \in Storer : StoreEffect(f, s)
  <2>0. t.pc = "get" /\ UNCHANGED <<cached, published>>
    BY <1>1 DEF StoreGet
  <2>1. CASE l \in cached
    <3> DEFINE s == [t EXCEPT !.todo = @ \ {l}]
    <3>1. s \in Storer /\ s.new = t.new /\ s.pc = "get"
      BY <1>0, <2>0 DEF Storer
    <3>2. Becomes(f, s)
      BY <1>0, <1>1, <2>1, <3>1 DEF StoreGet, Becomes
    <3> QED
      BY <2>0, <3>1, <3>2 DEF StoreEffect
  <2>2. CASE l \notin cached
    <3> DEFINE s == [t EXCEPT !.pc = "add", !.label = l, !.todo = @ \ {l}]
    <3>1. s \in Storer /\ s.new = t.new /\ s.pc = "add" /\ s.label \in Labels
      BY <1>0 DEF Storer
    <3>2. Becomes(f, s)
      BY <1>0, <1>1, <2>2, <3>1 DEF StoreGet, Becomes
    <3> QED
      BY <2>0, <3>1, <3>2 DEF StoreEffect
  <2> QED
    BY <2>1, <2>2
<1>2. CASE StoreAdd(f)
  <2> DEFINE s == [t EXCEPT !.pc = "get", !.label = "none", !.new = @ \cup {t.label}]
  <2>0. t.pc = "add" /\ published' = published /\ cached' = cached \cup {t.label}
    BY <1>2 DEF StoreAdd
  <2>1. t.label \in Labels
    BY <1>0, <2>0 DEF Adding
  <2>2. s \in Storer /\ s.new = t.new \cup {t.label} /\ s.pc = "get"
    BY <1>0, <2>1 DEF Storer
  <2>3. Becomes(f, s)
    BY <1>0, <1>2, <2>2 DEF StoreAdd, Becomes
  <2> QED
    BY <2>0, <2>1, <2>2, <2>3 DEF StoreEffect
<1>3. CASE StoreDecide(f)
  <2> DEFINE s == [t EXCEPT !.pc = IF t.new = {} THEN "done" ELSE "save"]
  <2>0. t.pc = "get" /\ UNCHANGED <<cached, published>>
    BY <1>3 DEF StoreDecide
  <2>1. s \in Storer /\ s.new = t.new /\ s.pc = IF t.new = {} THEN "done" ELSE "save"
    BY <1>0 DEF Storer
  <2>2. Becomes(f, s)
    BY <1>0, <1>3, <2>1 DEF StoreDecide, Becomes
  <2>3. s.pc # "add" /\ (s.new # {} => s.pc = "save")
    BY <2>1
  <2> HIDE DEF s
  <2> QED
    BY <2>0, <2>1, <2>2, <2>3 DEF StoreEffect
<1>4. CASE StoreSave(f)
  <2> DEFINE s == [t EXCEPT !.pc = "done"]
  <2>0. /\ t.pc = "save" /\ cached' = cached
        /\ published' \in {published, published \cup {f}}
        /\ StoreMayFail \/ f \in published'
    BY <1>4 DEF StoreSave
  <2>1. s \in Storer /\ s.new = t.new /\ s.pc = "done"
    BY <1>0 DEF Storer
  <2>2. Becomes(f, s)
    BY <1>0, <1>4, <2>1 DEF StoreSave, Becomes
  <2> QED
    BY <2>0, <2>1, <2>2 DEF StoreEffect
<1>5. CASE \E l \in Labels : StoreGet(f, l)
  BY <1>1, <1>5
<1> QED
  BY <1>0, <1>2, <1>3, <1>4, <1>5 DEF StoreStep

LEMMA StoringKept == ASSUME StoringTyped, Adding, [Next]_vars PROVE StoringTyped' /\ Adding'
<1> USE DEF StoringTyped, Adding
<1>1. CASE UNCHANGED storing
  BY <1>1 DEF storing
<1>2. CASE Reset
  BY <1>2 DEF Reset
<1>3. ASSUME NEW L \in SUBSET Labels, LoopAnswers(L) PROVE StoringTyped' /\ Adding'
  <2>1. CASE L = {}
    BY <1>3, <2>1 DEF LoopAnswers
  <2>2. CASE L # {}
    BY <1>3, <2>2, AnswerBecomes, StorerMoves DEF LoopAnswers, Becomes, NoStorer
  <2> QED
    BY <2>1, <2>2
<1>4. ASSUME NEW f \in Showing, StoreStep(f) PROVE StoringTyped' /\ Adding'
  <2>1. f \in Frames
    BY <1>4, StoreHasEffect
  <2>2. PICK s \in Storer : StoreEffect(f, s)
    BY <1>4, StoreHasEffect
  <2>3. /\ storer' \in [Frames -> Storer] /\ storer'[f] = s
        /\ \A g \in Frames \ {f} : storer'[g] = storer[g]
    BY <2>1, <2>2, StorerMoves DEF StoreEffect, Becomes
  <2>4. cached' \subseteq Labels /\ published' \subseteq Frames
    BY <2>1, <2>2 DEF StoreEffect
  <2>5. Adding'
    BY <2>2, <2>3 DEF StoreEffect
  <2> QED
    BY <2>3, <2>4, <2>5
<1>5. CASE ClientStep \/ Second \/ Cancel \/ RunRead \/ RunStep
  <2> SUFFICES UNCHANGED storing
    BY <1>1
  <2> QED
    BY <1>5 DEF ClientStep, StartDetect, StoreEnd, StopDetect, Second, Cancel, RunRead,
                RunStep, RunStops, RunTest, RunExpire, RunSample, RunOffer, RunDraw
<1>6. CASE LoopHead \/ LoopEnds \/ LoopTakes \/ LoopFails \/ UNCHANGED vars
  <2> SUFFICES UNCHANGED storing
    BY <1>1
  <2> QED
    BY <1>6 DEF LoopHead, LoopEnds, LoopTakes, LoopFails, vars
<1> QED
  BY <1>2, <1>3, <1>4, <1>5, <1>6 DEF Next, LoopStep

LEMMA TypesNext == TypeInv /\ [Next]_vars => TypeInv'
  BY RecentNext, StatusKept, StoringKept DEF TypeInv

\* Every value of the pipeline keeps its type, and the queue never holds more
\* than its capacity.
THEOREM PipelineTypes == Spec => []TypeOK
<1>1. TypeInv => TypeOK
  BY DEF TypeInv, RecentInv, Numbers, LoopState, StatusTyped, StoringTyped, TypeOK
<1> QED
  BY TypesInit, TypesNext, <1>1, PTL DEF Spec

(***************************************************************************)
(* Labels                                                                  *)
(***************************************************************************)
\* A frame beyond the one in hand, and that one until it is answered, has no
\* goroutine: an answer starts a new one and replaces none.
Fresh ==
  \A f \in Frames :
    f > loop.frame \/ (f = loop.frame /\ loop.pc = "detect") => storer[f] = NoStorer

\* Frame f shows a new label l, and is or will be published.
Pictures(f, l) ==
  /\ l \in storer[f].new
  /\ f \in published \/ storer[f].pc \in {"get", "add", "save"}

LabelInv == TypeInv /\ Fresh /\ LabelIsPictured

LEMMA FreshKept == ASSUME TypeInv, Fresh, [Next]_vars PROVE Fresh'
<1>0. /\ loop \in LoopState /\ MaxFrames \in Nat /\ storer \in [Frames -> Storer]
      /\ loop.frame \in 0..MaxFrames
  BY PipelineAssumption DEF TypeInv, RecentInv, Numbers, StoringTyped, LoopState
<1>1. CASE UNCHANGED <<loop, storer>>
  BY <1>1 DEF Fresh
<1>2. CASE LoopHead \/ LoopEnds \/ LoopFails
  <2>1. loop'.frame = loop.frame /\ loop'.pc # "detect" /\ storer' = storer
    BY <1>0, <1>2 DEF LoopHead, LoopEnds, LoopFails, LoopState, storing
  <2> QED
    BY <2>1 DEF Fresh
<1>3. CASE LoopTakes
  <2>1. /\ queue # <<>> /\ queue \in Seq(Frames) /\ accepted \in Nat
        /\ \A i \in 1..Len(queue) : queue[i] = accepted - Len(queue) + i
        /\ loop.frame = accepted - Len(queue)
    BY <1>3 DEF LoopTakes, TypeInv, RecentInv, Numbers, InOrder
  <2>2. Len(queue) \in Nat \ {0} /\ Head(queue) = queue[1]
    BY <2>1
  <2>3. Head(queue) = loop.frame + 1
    BY <2>1, <2>2
  <2>4. loop' = [pc |-> "detect", frame |-> loop.frame + 1] /\ storer' = storer
    BY <1>3, <2>3 DEF LoopTakes, storing
  <2>5. ASSUME NEW f \in Frames, f > loop'.frame \/ f = loop'.frame PROVE f > loop.frame
    BY <1>0, <2>4, <2>5 DEF Frames
  <2> QED
    BY <2>4, <2>5 DEF Fresh
<1>4. ASSUME NEW L \in SUBSET Labels, LoopAnswers(L) PROVE Fresh'
  <2>1. loop'.frame = loop.frame /\ loop'.pc = "head"
    BY <1>0, <1>4 DEF LoopAnswers, LoopState
  <2>2. ASSUME NEW f \in Frames, f > loop.frame PROVE storer'[f] = storer[f]
    BY <1>0, <1>4, <2>2 DEF LoopAnswers, Frames
  <2> QED
    BY <2>1, <2>2 DEF Fresh
<1>5. ASSUME NEW f \in Showing, StoreStep(f) PROVE Fresh'
  <2>1. f \in Frames /\ loop' = loop /\ storer[f].pc # "none"
    BY <1>5, PipelineAssumption
    DEF StoreStep, StoreGet, StoreAdd, StoreDecide, StoreSave, Frames
  <2>2. ASSUME NEW g \in Frames \ {f} PROVE storer'[g] = storer[g]
    BY <1>0, <1>5, <2>1 DEF StoreStep, StoreGet, StoreAdd, StoreDecide, StoreSave
  <2>3. ~(f > loop.frame \/ (f = loop.frame /\ loop.pc = "detect"))
    BY <2>1 DEF Fresh, NoStorer
  <2> QED
    BY <2>1, <2>2, <2>3 DEF Fresh
<1>6. CASE ClientStep \/ Second \/ Cancel \/ Reset \/ RunRead \/ RunStep \/ UNCHANGED vars
  <2> SUFFICES UNCHANGED <<loop, storer>>
    BY <1>1
  <2> QED
    BY <1>6 DEF ClientStep, StartDetect, StoreEnd, StopDetect, Second, Cancel, Reset,
                RunRead, RunStep, RunStops, RunTest, RunExpire, RunSample, RunOffer,
                RunDraw, storing, vars
<1> QED
  BY <1>2, <1>3, <1>4, <1>5, <1>6 DEF Next, LoopStep

\* A cached label keeps its picture if every frame that pictures it still does.
LEMMA StillPictured ==
  ASSUME LabelIsPictured, cached' = cached,
         \A l \in cached : \A f \in Frames : Pictures(f, l) => Pictures(f, l)'
  PROVE  LabelIsPictured'
  BY DEF LabelIsPictured, Pictures

LEMMA PicturedKept ==
  ASSUME StoreMayFail = FALSE, TypeInv, Fresh, LabelIsPictured, [Next]_vars
  PROVE  LabelIsPictured'
<1>0. storer \in [Frames -> Storer] /\ loop \in LoopState
  BY DEF TypeInv, RecentInv, Numbers, StoringTyped
<1>1. CASE UNCHANGED storing
  BY <1>1 DEF LabelIsPictured, storing
<1>2. CASE Reset
  BY <1>2 DEF Reset, LabelIsPictured
<1>3. ASSUME NEW L \in SUBSET Labels, LoopAnswers(L) PROVE LabelIsPictured'
  <2>1. CASE L = {}
    BY <1>1, <1>3, <2>1 DEF LoopAnswers, storing
  <2>2. CASE L # {}
    <3>1. /\ loop.frame \in Frames /\ storer[loop.frame] = NoStorer
          /\ cached' = cached /\ published' = published
          /\ \A f \in Frames \ {loop.frame} : storer'[f] = storer[f]
      BY <1>0, <1>3, <2>2, AnswerBecomes, StorerMoves DEF Fresh, LoopAnswers, Becomes
    <3>2. ASSUME NEW l \in cached, NEW f \in Frames, Pictures(f, l) PROVE Pictures(f, l)'
      BY <3>1, <3>2 DEF Pictures, NoStorer
    <3> QED
      BY <3>1, <3>2, StillPictured
  <2> QED
    BY <2>1, <2>2
<1>4. ASSUME NEW f \in Showing, StoreStep(f) PROVE LabelIsPictured'
  <2>1. f \in Frames
    BY <1>4, StoreHasEffect DEF TypeInv
  <2>2. PICK s \in Storer : StoreEffect(f, s)
    BY <1>4, StoreHasEffect DEF TypeInv
  <2>3. /\ storer'[f] = s
        /\ \A g \in Frames \ {f} : storer'[g] = storer[g]
    BY <1>0, <2>1, <2>2, StorerMoves DEF StoreEffect, Becomes
  <2>4. ASSUME NEW k \in cached, NEW g \in Frames, Pictures(g, k) PROVE Pictures(g, k)'
    <3>1. published \subseteq published'
      BY <2>2 DEF StoreEffect
    <3>2. CASE g # f
      BY <2>3, <2>4, <3>1, <3>2 DEF Pictures
    <3>3. CASE g = f
      <4>1. k \in s.new /\ (f \in published' \/ s.pc \in {"get", "add", "save"})
        BY <2>2, <2>4, <3>3 DEF StoreEffect, Pictures
      <4> QED
        BY <2>3, <3>3, <4>1 DEF Pictures
    <3> QED
      BY <3>2, <3>3
  <2>5. CASE cached' = cached
    BY <2>4, <2>5, StillPictured
  <2>6. CASE cached' # cached
    <3>1. PICK l : l = storer[f].label
      OBVIOUS
    <3>2. cached' = cached \cup {l} /\ l \in s.new /\ s.pc = "get"
      BY <2>2, <2>6, <3>1 DEF StoreEffect
    <3>3. Pictures(f, l)'
      BY <2>3, <3>2 DEF Pictures
    <3>4. ASSUME NEW k \in cached' PROVE \E g \in Frames : Pictures(g, k)'
      BY <2>1, <2>4, <3>2, <3>3 DEF LabelIsPictured, Pictures
    <3> QED
      BY <3>4 DEF LabelIsPictured, Pictures
  <2> QED
    BY <2>5, <2>6
<1>5. CASE ClientStep \/ Second \/ Cancel \/ RunRead \/ RunStep
  <2> SUFFICES UNCHANGED storing
    BY <1>1
  <2> QED
    BY <1>5 DEF ClientStep, StartDetect, StoreEnd, StopDetect, Second, Cancel, RunRead,
                RunStep, RunStops, RunTest, RunExpire, RunSample, RunOffer, RunDraw
<1>6. CASE LoopHead \/ LoopEnds \/ LoopTakes \/ LoopFails \/ UNCHANGED vars
  <2> SUFFICES UNCHANGED storing
    BY <1>1
  <2> QED
    BY <1>6 DEF LoopHead, LoopEnds, LoopTakes, LoopFails, vars
<1> QED
  BY <1>2, <1>3, <1>4, <1>5, <1>6 DEF Next, LoopStep

\* While pictures can be decoded, written and published, a label gets no new
\* picture only because of one on which it is drawn and whose path is published
\* or about to be, however the storing goroutines of different frames and a
\* Reset overlap.
THEOREM StoredLabelsArePictured ==
  ASSUME StoreMayFail = FALSE
  PROVE  Spec => []LabelIsPictured
<1>1. Init => LabelInv
  BY TypesInit DEF LabelInv, Init, Fresh, LabelIsPictured
<1>2. LabelInv /\ [Next]_vars => LabelInv'
  BY TypesNext, FreshKept, PicturedKept DEF LabelInv
<1>3. LabelInv => LabelIsPictured
  BY DEF LabelInv
<1> QED
  BY <1>1, <1>2, <1>3, PTL DEF Spec
=============================================================================
