---------------------------- MODULE StreamProofs ----------------------------
(***************************************************************************)
(* The safety properties of Stream, proved for any number of recorders,    *)
(* addresses, retries and ffmpeg processes: no live puller is overwritten  *)
(* unless two openers overlap, the last address wins, a session that says  *)
(* it records has a recorder, and an ffmpeg that pulls at the end is due   *)
(* to one of the two races of StreamHistory.                               *)
(***************************************************************************)
EXTENDS StreamHistory, TLAPS

(***************************************************************************)
(* Types                                                                   *)
(***************************************************************************)
Opening == {"open", "start", "set", "mark"}

\* TypeOK without `at`.
FieldsTyped ==
  /\ url \in Places
  /\ {recent, due, record, running, toRun} \subseteq BOOLEAN
  /\ life \in {"live", "cancelled", "reset"}
  /\ puller \in 0..MaxPids /\ reading \in 0..MaxPids
  /\ proc \in [Pids -> Process]
  /\ client \in {"idle", "renew", "start"}
  /\ down \in {"none", "reset", "done"}

AtTyped == at \in [Goroutines -> State]

\* Only Run opens a puller for an update.
Updating ==
  \A g \in Goroutines : at[g].update => g = Runner /\ at[g].pc \in Opening

\* A goroutine has a process in hand just before SetPuller.
Handing == \A g \in Goroutines : at[g].pc = "set" <=> at[g].hand # 0

TypeInv == FieldsTyped /\ AtTyped /\ Updating /\ Handing

LEMMA RunnerHere == Runner \in Goroutines /\ Recorders \subseteq Goroutines
  BY DEF Goroutines

LEMMA RestingTyped ==
  ASSUME NEW pc \in RunPcs \cup RecorderPcs
  PROVE  /\ Resting(pc) \in State
         /\ Resting(pc).pc = pc /\ Resting(pc).hand = 0
         /\ ~Resting(pc).update /\ ~Resting(pc).crossed
  BY StreamAssumption DEF Resting, State, Places

\* Goroutine g goes on as s, and no other changes.
LEMMA Goes ==
  ASSUME AtTyped, NEW g \in Goroutines, NEW s \in State, at' = [at EXCEPT ![g] = s]
  PROVE  AtTyped' /\ at'[g] = s /\ \A h \in Goroutines \ {g} : at'[h] = at[h]
  BY DEF AtTyped

\* The steps of one goroutine that neither open a puller nor set one, the
\* first of an update included.
Quiet(g) ==
  \E s \in State :
    /\ at' = [at EXCEPT ![g] = s]
    /\ at[g].pc \notin Opening
    /\ s.pc \notin {"start", "set", "mark"} /\ s.hand = 0
    /\ s.update \/ s.pc = "open" => g = Runner /\ s.update /\ s.pc = "open"

\* g moves to another place.
LEMMA GotoMoves ==
  ASSUME AtTyped, NEW g \in Goroutines, NEW pc \in Resetting \cup RunPcs \cup RecorderPcs,
         Goto(g, pc)
  PROVE  \E s \in State :
           /\ at' = [at EXCEPT ![g] = s]
           /\ s.pc = pc /\ s.hand = at[g].hand
           /\ s.update = at[g].update /\ s.crossed = at[g].crossed
<1> DEFINE s == [at[g] EXCEPT !.pc = pc]
<1>1. at[g] \in State
  BY DEF AtTyped
<1>2. /\ s \in State /\ s.pc = pc /\ s.hand = at[g].hand
      /\ s.update = at[g].update /\ s.crossed = at[g].crossed
  BY <1>1 DEF State
<1>3. at' = [at EXCEPT ![g] = s]
  BY <1>1 DEF Goto, AtTyped
<1> QED
  BY <1>2, <1>3

LEMMA GotoQuiet ==
  ASSUME TypeInv, NEW g \in Goroutines,
         NEW pc \in (RunPcs \cup RecorderPcs \cup {"clear"}) \ Opening, Goto(g, pc),
         at[g].pc \notin Opening
  PROVE  Quiet(g)
<1>1. at[g].hand = 0 /\ ~at[g].update
  BY DEF TypeInv, Handing, Updating, Opening
<1>2. pc \in Resetting \cup RunPcs \cup RecorderPcs /\ pc \notin Opening
  BY DEF Resetting
<1> QED
  BY <1>1, <1>2, GotoMoves DEF TypeInv, Quiet, Opening

LEMMA RestQuiet ==
  ASSUME NEW g \in Goroutines, NEW pc \in (RunPcs \cup RecorderPcs) \ Opening,
         at' = [at EXCEPT ![g] = Resting(pc)], at[g].pc \notin Opening
  PROVE  Quiet(g)
  BY RestingTyped DEF Quiet, Opening

LEMMA AskQuiet ==
  ASSUME TypeInv, NEW g \in Goroutines, MayRetry(g), Ask(g), at[g].pc \notin Opening
  PROVE  Quiet(g)
<1> DEFINE s == [at[g] EXCEPT !.pc = "ask", !.eofs = @ + 1]
<1>1. at[g] \in State /\ at[g].hand = 0 /\ ~at[g].update
  BY DEF TypeInv, AtTyped, Handing, Updating, Opening
<1>2. at[g].eofs + 1 \in 0..RetryTimes
  BY <1>1, StreamAssumption DEF State, MayRetry
<1>3. s \in State /\ s.pc = "ask" /\ s.hand = 0 /\ ~s.update
  BY <1>1, <1>2 DEF State, RunPcs
<1>4. at' = [at EXCEPT ![g] = s]
  BY <1>1 DEF Ask, TypeInv, AtTyped
<1> QED
  BY <1>3, <1>4 DEF Quiet, Opening

LEMMA RunIsQuiet ==
  ASSUME TypeInv, RunStep \/ RunFrame \/ RunCannotPush PROVE Quiet(Runner)
<1> USE RunnerHere DEF RunPcs, RecorderPcs, Opening
<1>1. CASE RunStops
  BY <1>1, GotoQuiet DEF RunStops
<1>2. CASE RunUpdates
  <2> DEFINE s == [at[Runner] EXCEPT !.pc = "open", !.update = TRUE]
  <2>1. at[Runner] \in State /\ at[Runner].pc = "head" /\ at[Runner].hand = 0
    BY <1>2 DEF RunUpdates, TypeInv, AtTyped, Handing
  <2>2. s \in State /\ s.pc = "open" /\ s.hand = 0 /\ s.update
    BY <2>1 DEF State, Resetting
  <2>3. at' = [at EXCEPT ![Runner] = s]
    BY <1>2, <2>1 DEF RunUpdates, TypeInv, AtTyped
  <2> QED
    BY <2>1, <2>2, <2>3 DEF Quiet
<1>3. CASE RunReads
  BY <1>3, GotoQuiet DEF RunReads
<1>4. CASE RunFrame
  BY <1>4, GotoQuiet DEF RunFrame
<1>5. CASE RunCannotPush
  BY <1>5, RestQuiet DEF RunCannotPush, GiveUp
<1>6. CASE RunEOF
  BY <1>6, AskQuiet, RestQuiet DEF RunEOF, GiveUp
<1>7. CASE RunCleans
  BY <1>7, RestQuiet DEF RunCleans
<1> QED
  BY <1>1, <1>2, <1>3, <1>4, <1>5, <1>6, <1>7 DEF RunStep

LEMMA ReturnMoves ==
  ASSUME AtTyped, NEW g \in Goroutines, Return(g)
  PROVE  \E s \in State :
           /\ at' = [at EXCEPT ![g] = s]
           /\ s.pc = "head" /\ s.hand = at[g].hand /\ ~s.update
<1> DEFINE s == [at[g] EXCEPT !.pc = "head", !.update = FALSE, !.crossed = FALSE]
<1>1. at[g] \in State
  BY DEF AtTyped
<1>2. s \in State /\ s.pc = "head" /\ s.hand = at[g].hand /\ ~s.update
  BY <1>1 DEF State, RunPcs
<1>3. at' = [at EXCEPT ![g] = s]
  BY <1>1 DEF Return, AtTyped
<1> QED
  BY <1>2, <1>3

LEMMA AddressTyped ==
  ASSUME NEW r \in Response PROVE ReGetRtspURL(r) \in Places
  BY DEF ReGetRtspURL, WvpStartPlay, GetStartPlayUrl, Response, Places

LEMMA AnswerIsQuiet ==
  ASSUME TypeInv, NEW g \in Goroutines, Answer(g) PROVE Quiet(g)
<1>1. PICK addr \in Places : ResetThrottled(g, addr) \/ ResetAllowed(g, addr) \/ Refused(g, addr)
  BY AddressTyped DEF Answer
<1>2. at[g].pc = "ask" /\ at[g].hand = 0 /\ ~at[g].update /\ at[g] \in State
  BY <1>1 DEF ResetThrottled, ResetAllowed, Refused, TypeInv, AtTyped, Handing, Updating, Opening
<1>3. CASE ResetThrottled(g, addr)
  BY <1>2, <1>3, ReturnMoves DEF ResetThrottled, TypeInv, Quiet, Opening
<1>4. CASE ResetAllowed(g, addr)
  <2> DEFINE s == [at[g] EXCEPT !.pc = "clear", !.got = addr]
  <2>1. s \in State /\ s.pc = "clear" /\ s.hand = 0 /\ ~s.update
    BY <1>2 DEF State, Resetting
  <2>2. at' = [at EXCEPT ![g] = s]
    BY <1>2, <1>4 DEF ResetAllowed, TypeInv, AtTyped
  <2> QED
    BY <1>2, <2>1, <2>2 DEF Quiet, Opening
<1>5. CASE Refused(g, addr)
  <2>1. CASE g = Runner
    BY <1>2, <1>5, <2>1, RestQuiet DEF Refused, GiveUp, RunPcs, Opening
  <2>2. CASE g # Runner
    BY <1>2, <1>5, <2>2, GotoQuiet DEF Refused, RecorderPcs, Opening
  <2> QED
    BY <2>1, <2>2
<1> QED
  BY <1>1, <1>3, <1>4, <1>5

LEMMA RecorderIsQuiet ==
  ASSUME TypeInv, NEW r \in Recorders, RecorderStep(r) \/ StartRecording(r) PROVE Quiet(r)
<1> USE RunnerHere DEF RecorderPcs, Opening
<1>1. CASE RecorderPanics(r) \/ RecorderLeaves(r) \/ RecorderStarts(r) \/ RecorderCompletes(r)
  BY <1>1, GotoQuiet DEF RecorderPanics, RecorderLeaves, RecorderStarts, RecorderCompletes
<1>2. CASE RecorderFails(r) \/ RecorderGivesUp(r) \/ RecorderEnds(r)
  BY <1>2, GotoQuiet DEF RecorderFails, RecorderGivesUp, RecorderEnds
<1>3. CASE RecorderRetries(r)
  BY <1>3, AskQuiet DEF RecorderRetries
<1>4. CASE RecorderZeroes(r)
  BY <1>4, RestQuiet DEF RecorderZeroes
<1>5. CASE StartRecording(r)
  BY <1>5, GotoQuiet DEF StartRecording
<1> QED
  BY <1>1, <1>2, <1>3, <1>4, <1>5 DEF RecorderStep

(***************************************************************************)
(* The steps that open and set a puller                                    *)
(***************************************************************************)
LEMMA ClearsMoves ==
  ASSUME TypeInv, NEW g \in Goroutines, ResetClears(g)
  PROVE  /\ at[g].pc = "clear"
         /\ \E s \in State : /\ at' = [at EXCEPT ![g] = s]
                             /\ s.pc = "open" /\ s.hand = 0 /\ ~s.update
<1> DEFINE s == [at[g] EXCEPT !.pc = "open", !.got = NoAddress]
<1>1. at[g].pc = "clear" /\ at[g].hand = 0 /\ ~at[g].update /\ at[g] \in State
  BY DEF ResetClears, TypeInv, AtTyped, Handing, Updating, Opening
<1>2. s \in State /\ s.pc = "open" /\ s.hand = 0 /\ ~s.update
  BY <1>1 DEF State, Resetting, Places
<1>3. at' = [at EXCEPT ![g] = s]
  BY <1>1 DEF ResetClears, TypeInv, AtTyped
<1> QED
  BY <1>1, <1>2, <1>3

LEMMA SetMoves ==
  ASSUME TypeInv, NEW g \in Goroutines, SetPuller(g)
  PROVE  /\ at[g].pc = "set" /\ at[g].hand \in Pids
         /\ \E s \in State : /\ at' = [at EXCEPT ![g] = s] /\ s.pc = "mark"
                             /\ s.hand = 0 /\ s.update = at[g].update
<1> DEFINE s == [at[g] EXCEPT !.pc = "mark", !.hand = 0, !.crossed = FALSE]
<1>1. at[g].pc = "set" /\ at[g].hand # 0 /\ at[g] \in State
  BY DEF SetPuller, TypeInv, AtTyped, Handing
<1>2. at[g].hand \in Pids
  BY <1>1, StreamAssumption DEF State, Pids
<1>3. s \in State /\ s.pc = "mark" /\ s.hand = 0 /\ s.update = at[g].update
  <2>1. 0 \in 0..MaxPids /\ "mark" \in Resetting
    BY StreamAssumption DEF Resetting
  <2> QED
    BY <1>1, <2>1 DEF State
<1>4. at' = [at EXCEPT ![g] = s]
  BY <1>1 DEF SetPuller, TypeInv, AtTyped
<1> QED
  BY <1>1, <1>2, <1>3, <1>4

\* A process is started: the goroutine has it in hand.
LEMMA StartMoves ==
  ASSUME TypeInv, NEW g \in Goroutines, PullerStarts(g)
  PROVE  /\ at[g].pc = "start" /\ at[g].hand = 0 /\ NextPid \in Pids
         /\ \E s \in State : /\ at' = [at EXCEPT ![g] = s] /\ s.pc = "set"
                             /\ s.hand = NextPid /\ s.update = at[g].update
                             /\ s.crossed = at[g].crossed
<1> DEFINE s == [at[g] EXCEPT !.pc = "set", !.hand = NextPid]
<1>1. at[g].pc = "start" /\ at[g].hand = 0 /\ at[g] \in State
  BY DEF PullerStarts, TypeInv, AtTyped, Handing
<1>2. NextPid \in Pids
  BY DEF PullerStarts, NextPid
<1>3. NextPid \in 0..MaxPids /\ "set" \in Resetting
  BY <1>2, StreamAssumption DEF Pids, Resetting
<1> HIDE DEF NextPid
<1>4. /\ s \in State /\ s.pc = "set" /\ s.hand = NextPid
      /\ s.update = at[g].update /\ s.crossed = at[g].crossed
  BY <1>1, <1>3 DEF State
<1>5. at' = [at EXCEPT ![g] = s]
  BY <1>1 DEF PullerStarts, TypeInv, AtTyped
<1> QED
  BY <1>1, <1>2, <1>4, <1>5

\* The puller is cleared to start another: the goroutine has crossed those
\* that are opening, and they have crossed it.
LEMMA OpenMoves ==
  ASSUME TypeInv, NEW g \in Goroutines, PullerClears(g)
  PROVE  /\ AtTyped' /\ at[g].pc = "open" /\ at'[g].pc = "start"
         /\ at'[g].hand = 0 /\ at'[g].update = at[g].update
         /\ at'[g].crossed <=> Rivals(g) # {}
         /\ \A h \in Goroutines \ {g} :
              /\ at'[h].pc = at[h].pc /\ at'[h].hand = at[h].hand
              /\ at'[h].update = at[h].update
              /\ at'[h].crossed <=> at[h].crossed \/ IsOpening(h)
<1>1. /\ \A h \in Goroutines : at[h] \in State
      /\ at[g].pc = "open" /\ at[g].hand = 0
  BY DEF TypeInv, AtTyped, Handing, PullerClears
<1>2. /\ at'[g] = [at[g] EXCEPT !.pc = "start", !.crossed = Rivals(g) # {}]
      /\ \A h \in Goroutines \ {g} :
           at'[h] = IF h \in Rivals(g) THEN [at[h] EXCEPT !.crossed = TRUE] ELSE at[h]
      /\ at' = [h \in Goroutines |-> at'[h]]
  BY DEF PullerClears
<1>3. /\ at'[g] \in State
      /\ at'[g].pc = "start" /\ at'[g].hand = 0 /\ at'[g].update = at[g].update
      /\ at'[g].crossed <=> Rivals(g) # {}
  <2>1. "start" \in Resetting /\ (Rivals(g) # {}) \in BOOLEAN
    BY DEF Resetting
  <2> DEFINE c == Rivals(g) # {}
  <2> HIDE DEF c
  <2>2. at'[g] = [at[g] EXCEPT !.pc = "start", !.crossed = c] /\ c \in BOOLEAN
    BY <1>2, <2>1 DEF c
  <2>3. at'[g] \in State
    BY <1>1, <2>1, <2>2 DEF State
  <2>4. /\ at'[g].pc = "start" /\ at'[g].hand = 0 /\ at'[g].update = at[g].update
        /\ at'[g].crossed = c
    BY <1>1, <2>2 DEF State
  <2> QED
    BY <2>3, <2>4 DEF c
<1>4. ASSUME NEW h \in Goroutines \ {g}
      PROVE  /\ at'[h] \in State
             /\ at'[h].pc = at[h].pc /\ at'[h].hand = at[h].hand
             /\ at'[h].update = at[h].update
             /\ at'[h].crossed <=> at[h].crossed \/ IsOpening(h)
  <2>1. CASE h \in Rivals(g)
    <3>1. at'[h] = [at[h] EXCEPT !.crossed = TRUE] /\ at[h] \in State
      BY <1>1, <1>2, <2>1
    <3>2. IsOpening(h)
      BY <2>1 DEF Rivals
    <3> QED
      BY <3>1, <3>2 DEF State
  <2>2. CASE h \notin Rivals(g)
    <3>1. at'[h] = at[h] /\ at[h] \in State
      BY <1>1, <1>2, <2>2
    <3>2. ~IsOpening(h)
      BY <2>2 DEF Rivals
    <3> QED
      BY <3>1, <3>2 DEF State
  <2> QED
    BY <2>1, <2>2
<1>5. AtTyped'
  BY <1>2, <1>3, <1>4 DEF AtTyped
<1> QED
  BY <1>1, <1>3, <1>4, <1>5

\* The opener is back at its head, or it was a reset by Run, which gives up.
LEMMA FinishMoves ==
  ASSUME TypeInv, NEW g \in Goroutines, PullerDoesNotStart(g) \/ MarkRunning(g)
  PROVE  /\ at[g].pc \in {"start", "mark"}
         /\ \E s \in State : /\ at' = [at EXCEPT ![g] = s]
                             /\ s.pc \in {"head", "clean"} /\ s.hand = 0 /\ ~s.update
                             /\ s.pc = "clean" => g = Runner
<1>1. at[g].pc \in {"start", "mark"} /\ at[g].hand = 0
  BY DEF PullerDoesNotStart, MarkRunning, TypeInv, Handing
<1>2. CASE Return(g)
  BY <1>1, <1>2, ReturnMoves DEF TypeInv
<1>3. CASE GiveUp /\ g = Runner
  BY <1>1, <1>3, RestingTyped DEF GiveUp, RunPcs
<1> QED
  BY <1>2, <1>3 DEF PullerDoesNotStart, MarkRunning

\* What all of these do to `at`.
LEMMA QuietKeepsTypes ==
  ASSUME TypeInv, NEW g \in Goroutines, Quiet(g)
  PROVE  /\ AtTyped' /\ Updating' /\ Handing'
         /\ at[g].pc \notin Opening /\ at'[g].pc \notin {"start", "set", "mark"}
         /\ at'[g].pc = "open" => g = Runner
         /\ \A h \in Goroutines \ {g} : at'[h] = at[h]
<1>1. PICK s \in State :
        /\ at' = [at EXCEPT ![g] = s]
        /\ at[g].pc \notin Opening
        /\ s.pc \notin {"start", "set", "mark"} /\ s.hand = 0
        /\ s.update \/ s.pc = "open" => g = Runner /\ s.update /\ s.pc = "open"
  BY DEF Quiet
<1>2. AtTyped' /\ at'[g] = s /\ \A h \in Goroutines \ {g} : at'[h] = at[h]
  BY <1>1, Goes DEF TypeInv
<1>3. Updating'
  BY <1>1, <1>2 DEF TypeInv, Updating, Opening
<1>4. Handing'
  BY <1>1, <1>2 DEF TypeInv, Handing
<1> QED
  BY <1>1, <1>2, <1>3, <1>4

LEMMA OpenerKeepsTypes ==
  ASSUME TypeInv, NEW g \in Goroutines, ResetStep(g)
  PROVE  AtTyped' /\ Updating' /\ Handing'
<1>1. CASE PullerClears(g)
  BY <1>1, OpenMoves DEF TypeInv, Updating, Handing, Opening
<1>2. CASE ~PullerClears(g)
  <2>1. PICK s \in State :
          /\ at' = [at EXCEPT ![g] = s]
          /\ s.pc = "set" <=> s.hand # 0
          /\ s.update => s.pc \in {"set", "mark"} /\ at[g].update
    BY <1>2, ClearsMoves, StartMoves, SetMoves, FinishMoves DEF ResetStep, Pids
  <2>2. AtTyped' /\ at'[g] = s /\ \A h \in Goroutines \ {g} : at'[h] = at[h]
    BY <2>1, Goes DEF TypeInv
  <2>3. Updating' /\ Handing'
    BY <2>1, <2>2 DEF TypeInv, Updating, Handing, Opening
  <2> QED
    BY <2>2, <2>3
<1> QED
  BY <1>1, <1>2

(***************************************************************************)
(* Types of the other variables                                            *)
(***************************************************************************)
LEMMA ClearTyped ==
  ASSUME FieldsTyped, ClearPuller
  PROVE  puller' \in 0..MaxPids /\ proc' \in [Pids -> Process]
  BY StreamAssumption DEF FieldsTyped, ClearPuller, Killed, Gone, Process, Places

LEMMA CancelledTyped == FieldsTyped => Cancelled \in {"live", "cancelled", "reset"}
  BY DEF FieldsTyped, Cancelled

LEMMA OpenerFields ==
  ASSUME TypeInv, NEW g \in Goroutines, ResetStep(g) PROVE FieldsTyped'
<1> USE DEF TypeInv
<1>0. FieldsTyped
  OBVIOUS
<1>1. CASE ResetClears(g)
  <2>1. url' \in Places
    BY <1>1 DEF ResetClears, AtTyped, State
  <2> QED
    BY <1>0, <1>1, <2>1, ClearTyped DEF ResetClears, FieldsTyped
<1>6. CASE PullerClears(g)
  BY <1>0, <1>6, ClearTyped DEF PullerClears, FieldsTyped, status
<1>2. CASE PullerStarts(g)
  <2>1. Started(url) \in Process
    BY <1>0 DEF Started, Process, FieldsTyped
  <2>2. proc' \in [Pids -> Process]
    BY <1>0, <1>2, <2>1 DEF PullerStarts, FieldsTyped
  <2> QED
    BY <1>0, <1>2, <2>2 DEF PullerStarts, FieldsTyped, status
<1>3. CASE PullerDoesNotStart(g)
  <2>1. proc' \in [Pids -> Process] /\ puller' \in 0..MaxPids
    <3>1. Killed(puller) \in [Pids -> Process]
      BY <1>0 DEF Killed, Gone, Process, Places, FieldsTyped
    <3>2. \A p \in Pids : [proc[p] EXCEPT !.outdated = @ \/ proc[p].addr # url] \in Process
      <4>1. ASSUME NEW p \in Pids, NEW b \in BOOLEAN
            PROVE  [proc[p] EXCEPT !.outdated = b] \in Process
        BY <1>0 DEF FieldsTyped, Process
      <4>2. \A p \in Pids : (proc[p].outdated \/ proc[p].addr # url) \in BOOLEAN
        OBVIOUS
      <4> QED
        BY <4>1, <4>2
    <3> QED
      BY <1>3, <3>1, <3>2, StreamAssumption DEF PullerDoesNotStart
  <2>2. life' \in {"live", "cancelled", "reset"}
    BY <1>0, <1>3, CancelledTyped DEF PullerDoesNotStart, GiveUp, FieldsTyped
  <2> QED
    BY <1>0, <1>3, <2>1, <2>2 DEF PullerDoesNotStart, FieldsTyped, status
<1>4. CASE SetPuller(g)
  BY <1>0, <1>4 DEF SetPuller, AtTyped, State, FieldsTyped, status
<1>5. CASE MarkRunning(g)
  BY <1>0, <1>5 DEF MarkRunning, FieldsTyped, source
<1> QED
  BY <1>1, <1>2, <1>3, <1>4, <1>5, <1>6 DEF ResetStep

LEMMA OtherFields ==
  ASSUME TypeInv, [Next]_vars, ~ \E g \in Goroutines : ResetStep(g) PROVE FieldsTyped'
<1>0. FieldsTyped
  BY DEF TypeInv
<1>1. ASSUME NEW g \in Goroutines, Answer(g) PROVE FieldsTyped'
  BY <1>0, <1>1, CancelledTyped
  DEF Answer, ResetThrottled, ResetAllowed, Refused, GiveUp, FieldsTyped, status, source
<1>2. CASE RunStops \/ RunReads \/ RunFrame
  BY <1>0, <1>2, StreamAssumption
  DEF RunStops, RunReads, RunFrame, FieldsTyped, status, source
<1>11. CASE RunUpdates
  BY <1>0, <1>11 DEF RunUpdates, FieldsTyped, status, source
<1>3. CASE RunCannotPush \/ RunEOF
  BY <1>0, <1>3, StreamAssumption, CancelledTyped
  DEF RunCannotPush, RunEOF, GiveUp, FieldsTyped, status, source
<1>4. CASE RunCleans \/ Reset
  <2>1. puller' \in 0..MaxPids /\ proc' \in [Pids -> Process]
    BY <1>0, <1>4, ClearTyped DEF RunCleans, Reset
  <2> QED
    BY <1>0, <1>4, <2>1 DEF RunCleans, Reset, FieldsTyped, Places
<1>5. ASSUME NEW r \in Recorders, RecorderStep(r) PROVE FieldsTyped'
  BY <1>0, <1>5, CancelledTyped
  DEF RecorderStep, RecorderPanics, RecorderLeaves, RecorderStarts, RecorderCompletes,
      RecorderFails, RecorderRetries, RecorderGivesUp, RecorderEnds, RecorderZeroes,
      FieldsTyped, status, source
<1>6. CASE StartSessionRecord \/ StopSessionRecord \/ ClientStep
  BY <1>0, <1>6
  DEF StartSessionRecord, StopSessionRecord, ClientStep, RenewEnd, StartRecording,
      MkdirFails, FieldsTyped, source
<1>7. CASE FiveSecondsPass \/ RecordingExpires
  BY <1>0, <1>7 DEF FiveSecondsPass, RecordingExpires, FieldsTyped, source
<1>8. ASSUME NEW p \in Pids, ProcessEnds(p) PROVE FieldsTyped'
  <2>1. proc' \in [Pids -> Process]
    BY <1>0, <1>8 DEF ProcessEnds, Killed, Gone, Process, Places, FieldsTyped
  <2> QED
    BY <1>0, <1>8, <2>1 DEF ProcessEnds, FieldsTyped, status
<1>9. CASE TickReaps \/ RemoveSession \/ CloseNotice \/ CloseManager
  BY <1>0, <1>9, CancelledTyped
  DEF TickReaps, RemoveSession, CloseNotice, CloseManager, FieldsTyped, status, source
<1>10. CASE UNCHANGED vars
  BY <1>0, <1>10 DEF vars, FieldsTyped, status, source
<1> QED
  BY <1>1, <1>2, <1>3, <1>4, <1>5, <1>6, <1>7, <1>8, <1>9, <1>10, <1>11
  DEF Next, RunStep

LEMMA TypesInit == Init => TypeInv
<1> SUFFICES ASSUME Init PROVE TypeInv
  OBVIOUS
<1>1. ASSUME NEW pc \in {"head", "none"}
      PROVE  /\ Resting(pc) \in State /\ Resting(pc).pc = pc
             /\ Resting(pc).hand = 0 /\ ~Resting(pc).update
  BY RestingTyped DEF RunPcs, RecorderPcs
<1>2. AtTyped /\ \A g \in Goroutines : at[g].pc # "set" /\ at[g].hand = 0 /\ ~at[g].update
  BY <1>1 DEF Init, AtTyped
<1>3. Updating /\ Handing
  BY <1>2 DEF Updating, Handing
<1>4. proc \in [Pids -> Process] /\ puller \in 0..MaxPids /\ reading \in 0..MaxPids
  BY StreamAssumption DEF Init, Process, Started, Gone, Places
<1>5. FieldsTyped
  BY <1>4 DEF Init, FieldsTyped, Places
<1> QED
  BY <1>2, <1>3, <1>5 DEF TypeInv

\* Who moves: an opener, another goroutine, or none.
StillStep ==
  \/ StartSessionRecord \/ StopSessionRecord \/ RenewEnd \/ MkdirFails
  \/ FiveSecondsPass \/ RecordingExpires \/ (\E p \in Pids : ProcessEnds(p))
  \/ TickReaps \/ RemoveSession \/ CloseNotice \/ CloseManager \/ Reset
  \/ UNCHANGED vars

QuietStep(g) ==
  \/ Answer(g)
  \/ g = Runner /\ (RunStep \/ RunFrame \/ RunCannotPush)
  \/ g \in Recorders /\ (RecorderStep(g) \/ StartRecording(g))

LEMMA StepKinds ==
  [Next]_vars =>
    StillStep \/ \E g \in Goroutines : ResetStep(g) \/ QuietStep(g)
  BY RunnerHere DEF Next, ClientStep, StillStep, QuietStep

LEMMA StillKeepsAt == StillStep => at' = at
  BY DEF StillStep, StartSessionRecord, StopSessionRecord, RenewEnd, MkdirFails,
         FiveSecondsPass, RecordingExpires, ProcessEnds, TickReaps, RemoveSession,
         CloseNotice, CloseManager, Reset, vars

LEMMA QuietStepIsQuiet ==
  ASSUME TypeInv, NEW g \in Goroutines, QuietStep(g) PROVE Quiet(g)
  BY RunIsQuiet, AnswerIsQuiet, RecorderIsQuiet DEF QuietStep

LEMMA TypesNext == ASSUME TypeInv, [Next]_vars PROVE TypeInv'
<1>1. FieldsTyped'
  BY OpenerFields, OtherFields
<1>2. AtTyped' /\ Updating' /\ Handing'
  <2>1. CASE StillStep
    BY <2>1, StillKeepsAt DEF TypeInv, AtTyped, Updating, Handing
  <2>2. ASSUME NEW g \in Goroutines, QuietStep(g) PROVE AtTyped' /\ Updating' /\ Handing'
    BY <2>2, QuietStepIsQuiet, QuietKeepsTypes
  <2> QED
    BY <2>1, <2>2, OpenerKeepsTypes, StepKinds
<1> QED
  BY <1>1, <1>2 DEF TypeInv

(***************************************************************************)
(* Overlapping openers                                                     *)
(***************************************************************************)
\* Of two goroutines that are opening both know that they crossed; one that
\* has not crossed will set its process where there is none.
Alone ==
  \A g \in Goroutines :
    IsOpening(g) /\ ~at[g].crossed =>
      puller = 0 /\ \A h \in Goroutines \ {g} : ~IsOpening(h)

\* Steps that set no puller, and by which nobody begins to open.
LEMMA AloneKept ==
  ASSUME Alone, puller' \in {puller, 0},
         \A g \in Goroutines :
           IsOpening(g)' => IsOpening(g) /\ at'[g].crossed = at[g].crossed
  PROVE  Alone'
  BY DEF Alone

\* The stream's process does not change, or is killed.
Fades ==
  /\ puller' \in {puller, 0}
  /\ \A p \in Pids : proc'[p].up =>
       proc[p].up /\ proc'[p].addr = proc[p].addr /\ (proc[p].outdated => proc'[p].outdated)

LEMMA KilledFades ==
  ASSUME FieldsTyped, NEW q, proc' = Killed(q), puller' \in {puller, 0} PROVE Fades
  BY DEF Fades, Killed, Gone, FieldsTyped

LEMMA SameFades == ASSUME FieldsTyped, UNCHANGED <<puller, proc>> PROVE Fades
  BY DEF Fades

LEMMA StillFades == ASSUME TypeInv, StillStep PROVE Fades
<1>1. CASE Reset
  BY <1>1, KilledFades DEF Reset, ClearPuller, TypeInv
<1>2. ASSUME NEW p \in Pids, ProcessEnds(p) PROVE Fades
  BY <1>2, KilledFades DEF ProcessEnds, TypeInv
<1>3. CASE ~Reset /\ ~ \E p \in Pids : ProcessEnds(p)
  <2>1. UNCHANGED <<puller, proc>>
    BY <1>3 DEF StillStep, StartSessionRecord, StopSessionRecord, RenewEnd, MkdirFails,
                FiveSecondsPass, RecordingExpires, TickReaps, RemoveSession, CloseNotice,
                CloseManager, vars, source
  <2> QED
    BY <2>1, SameFades DEF TypeInv
<1> QED
  BY <1>1, <1>2, <1>3

LEMMA QuietFades == ASSUME TypeInv, NEW g \in Goroutines, QuietStep(g) PROVE Fades
<1>1. CASE RunCleans
  BY <1>1, KilledFades DEF RunCleans, ClearPuller, TypeInv
<1>2. CASE ~RunCleans
  <2>1. UNCHANGED <<puller, proc>>
    BY <1>2 DEF QuietStep, Answer, ResetThrottled, ResetAllowed, Refused, RunStep, RunStops,
                RunUpdates, RunReads, RunEOF, RunFrame, RunCannotPush, RecorderStep,
                RecorderPanics, RecorderLeaves, RecorderStarts, RecorderCompletes,
                RecorderFails, RecorderRetries, RecorderGivesUp, RecorderEnds,
                RecorderZeroes, StartRecording, source
  <2> QED
    BY <2>1, SameFades DEF TypeInv
<1> QED
  BY <1>1, <1>2

LEMMA AloneNext == ASSUME TypeInv, Alone, [Next]_vars PROVE Alone'
<1>1. CASE StillStep
  BY <1>1, StillKeepsAt, StillFades, AloneKept DEF Fades, IsOpening
<1>2. ASSUME NEW g \in Goroutines, QuietStep(g) PROVE Alone'
  <2>1. Fades /\ Quiet(g)
    BY <1>2, QuietFades, QuietStepIsQuiet
  <2>2. ~IsOpening(g)' /\ \A h \in Goroutines \ {g} : at'[h] = at[h]
    BY <2>1, QuietKeepsTypes DEF IsOpening
  <2> QED
    BY <2>1, <2>2, AloneKept DEF Fades, IsOpening
<1>3. ASSUME NEW g \in Goroutines, PullerClears(g) PROVE Alone'
  <2>1. puller' = 0
    BY <1>3 DEF PullerClears, ClearPuller
  <2>2. \A h \in Goroutines \ {g} : IsOpening(h)' <=> IsOpening(h)
    BY <1>3, OpenMoves DEF IsOpening
  <2>3. ASSUME ~at'[g].crossed, NEW h \in Goroutines \ {g} PROVE ~IsOpening(h)'
    BY <1>3, <2>2, <2>3, OpenMoves DEF Rivals
  <2>4. ASSUME NEW h \in Goroutines \ {g}, IsOpening(h)' PROVE at'[h].crossed
    BY <1>3, <2>2, <2>4, OpenMoves
  <2> QED
    BY <2>1, <2>3, <2>4 DEF Alone
<1>4. ASSUME NEW g \in Goroutines, SetPuller(g) PROVE Alone'
  <2>1. /\ IsOpening(g) /\ ~IsOpening(g)'
        /\ \A h \in Goroutines \ {g} : at'[h] = at[h]
    BY <1>4, SetMoves, Goes DEF TypeInv, IsOpening
  <2>2. ASSUME NEW h \in Goroutines, IsOpening(h)' PROVE at'[h].crossed
    BY <2>1, <2>2 DEF Alone, IsOpening
  <2> QED
    BY <2>2 DEF Alone
<1>5. ASSUME NEW g \in Goroutines, ResetClears(g) \/ PullerDoesNotStart(g) \/ MarkRunning(g)
      PROVE  Alone'
  <2>1. ~IsOpening(g)' /\ \A h \in Goroutines \ {g} : at'[h] = at[h]
    BY <1>5, ClearsMoves, FinishMoves, Goes DEF TypeInv, IsOpening
  <2>2. puller' \in {puller, 0}
    BY <1>5 DEF ResetClears, ClearPuller, PullerDoesNotStart, MarkRunning, source
  <2> QED
    BY <2>1, <2>2, AloneKept DEF IsOpening
<1>6. ASSUME NEW g \in Goroutines, PullerStarts(g) PROVE Alone'
  <2>1. /\ IsOpening(g) /\ at'[g].crossed = at[g].crossed
        /\ \A h \in Goroutines \ {g} : at'[h] = at[h]
    BY <1>6, StartMoves, Goes DEF TypeInv, IsOpening
  <2>2. puller' = puller
    BY <1>6 DEF PullerStarts
  <2> QED
    BY <2>1, <2>2, AloneKept DEF IsOpening
<1> QED
  BY <1>1, <1>2, <1>3, <1>4, <1>5, <1>6, StepKinds DEF ResetStep

(***************************************************************************)
(* The last address                                                        *)
(***************************************************************************)
Resets(g) == at[g].pc \in Opening /\ ~at[g].update

\* Run is told to open the stream again, or is about to be told, or is at it.
Cover == toRun \/ (\E g \in Goroutines : Resets(g)) \/ at[Runner].pc = "open"

\* A process, unless it has ended or is one that a failing reset has left
\* behind, pulls from the session's address.
Current(p) == Up(p) /\ ~proc[p].outdated => proc[p].addr = url

AddressInv ==
  RunLives /\ down = "none" =>
    \/ Cover
    \/ /\ Current(puller)
       /\ at[Runner].pc = "set" => Current(at[Runner].hand)

LEMMA CurrentKept ==
  ASSUME FieldsTyped, FieldsTyped', Fades, url' = url, NEW p, Current(p) PROVE Current(p)'
  BY DEF Fades, Current, Up, FieldsTyped

\* Steps that neither open a puller nor change the address.
LEMMA AddressKept ==
  ASSUME TypeInv, TypeInv', AddressInv, Fades, url' = url,
         RunLives' /\ down' = "none" => RunLives /\ down = "none" /\ (Cover => Cover'),
         at'[Runner].pc = "set" => at'[Runner] = at[Runner]
  PROVE  AddressInv'
<1> SUFFICES ASSUME RunLives', down' = "none", ~Cover' PROVE
      Current(puller)' /\ (at'[Runner].pc = "set" => Current(at[Runner].hand)')
  BY DEF AddressInv
<1>1. Current(puller) /\ (at[Runner].pc = "set" => Current(at[Runner].hand))
  BY DEF AddressInv
<1>2. Current(puller)'
  <2>1. CASE puller' = 0
    BY <2>1 DEF Current, Up, Pids
  <2>2. CASE puller' # 0
    <3>1. puller' = puller
      BY <2>2 DEF Fades
    <3>2. PICK p : p = puller
      OBVIOUS
    <3>3. Current(p)'
      BY <1>1, <3>2, CurrentKept DEF TypeInv
    <3> QED
      BY <3>1, <3>2, <3>3 DEF Current
  <2> QED
    BY <2>1, <2>2
<1>3. ASSUME at'[Runner].pc = "set" PROVE Current(at[Runner].hand)'
  <2>1. at'[Runner] = at[Runner]
    BY <1>3
  <2>2. PICK p : p = at[Runner].hand
    OBVIOUS
  <2>3. Current(p)'
    BY <1>1, <1>3, <2>1, <2>2, CurrentKept DEF TypeInv
  <2> QED
    BY <2>1, <2>2, <2>3 DEF Current
<1> QED
  BY <1>2, <1>3

LEMMA StillKeepsAddress ==
  ASSUME TypeInv, TypeInv', AddressInv, StillStep PROVE AddressInv'
<1>1. at' = at /\ Fades
  BY StillKeepsAt, StillFades
<1>2. CASE Reset
  BY <1>2 DEF Reset, AddressInv
<1>3. CASE ~Reset
  <2>1. url' = url /\ toRun' = toRun /\ (down' = "none" => down = "none")
    BY <1>3 DEF StillStep, StartSessionRecord, StopSessionRecord, RenewEnd, MkdirFails,
                FiveSecondsPass, RecordingExpires, ProcessEnds, TickReaps, RemoveSession,
                CloseNotice, CloseManager, vars, source
  <2>2. (RunLives' => RunLives) /\ (Cover => Cover')
    BY <1>1, <2>1 DEF RunLives, Cover, Resets
  <2> QED
    BY <1>1, <2>1, <2>2, AddressKept
<1> QED
  BY <1>2, <1>3

LEMMA RunStaysOver ==
  ASSUME TypeInv, NEW g \in Goroutines, QuietStep(g), ~RunLives PROVE ~RunLives'
<1>1. at[Runner].pc \in {"clean", "done"}
  BY DEF RunLives
<1>2. CASE g # Runner
  BY <1>1, <1>2, RunnerHere, QuietStepIsQuiet, QuietKeepsTypes DEF RunLives
<1>3. CASE g = Runner
  <2>1. RunCleans
    BY <1>1, <1>3, StreamAssumption
    DEF QuietStep, Answer, ResetThrottled, ResetAllowed, Refused, RunStep, RunStops,
        RunUpdates, RunReads, RunEOF, RunFrame, RunCannotPush
  <2> QED
    BY <2>1, RunnerHere, RestingTyped DEF RunCleans, RunLives, RunPcs, TypeInv, AtTyped
<1> QED
  BY <1>2, <1>3

LEMMA QuietKeepsAddress ==
  ASSUME TypeInv, TypeInv', AddressInv, NEW g \in Goroutines, QuietStep(g) PROVE AddressInv'
<1>1. /\ at[g].pc \notin Opening /\ at'[g].pc \notin {"start", "set", "mark"}
      /\ \A h \in Goroutines \ {g} : at'[h] = at[h]
  BY QuietStepIsQuiet, QuietKeepsTypes
<1>2. url' = url /\ down' = down
  BY DEF QuietStep, Answer, ResetThrottled, ResetAllowed, Refused, RunStep, RunStops,
         RunUpdates, RunReads, RunEOF, RunFrame, RunCannotPush, RunCleans, RecorderStep,
         RecorderPanics, RecorderLeaves, RecorderStarts, RecorderCompletes,
         RecorderFails, RecorderRetries, RecorderGivesUp, RecorderEnds,
         RecorderZeroes, StartRecording, source
<1>3. toRun' = toRun \/ at'[Runner].pc = "open"
  <2>1. CASE RunUpdates
    BY <2>1, RunnerHere DEF RunUpdates, TypeInv, AtTyped, State
  <2>2. CASE ~RunUpdates
    BY <2>2
    DEF QuietStep, Answer, ResetThrottled, ResetAllowed, Refused, RunStep, RunStops,
        RunReads, RunEOF, RunFrame, RunCannotPush, RunCleans, RecorderStep,
        RecorderPanics, RecorderLeaves, RecorderStarts, RecorderCompletes,
        RecorderFails, RecorderRetries, RecorderGivesUp, RecorderEnds,
        RecorderZeroes, StartRecording
  <2> QED
    BY <2>1, <2>2
<1>4. Cover => Cover'
  <2>1. ASSUME NEW h \in Goroutines, Resets(h) PROVE Resets(h)'
    BY <1>1, <2>1 DEF Resets
  <2>2. at[Runner].pc = "open" => at'[Runner].pc = "open"
    BY <1>1, RunnerHere DEF Opening
  <2> QED
    BY <1>3, <2>1, <2>2 DEF Cover
<1>5. at'[Runner].pc = "set" => at'[Runner] = at[Runner]
  BY <1>1, RunnerHere
<1>6. Fades
  BY QuietFades
<1> QED
  BY <1>2, <1>4, <1>5, <1>6, RunStaysOver, AddressKept

\* A reset that has cleared the stream is going to tell Run.
LEMMA ResetCovers ==
  ASSUME NEW g \in Goroutines, Resets(g)' PROVE AddressInv'
  BY DEF AddressInv, Cover

LEMMA ClearKeepsAddress ==
  ASSUME TypeInv, NEW g \in Goroutines, ResetClears(g) PROVE AddressInv'
<1>1. at'[g].pc = "open" /\ ~at'[g].update
  BY ClearsMoves, Goes DEF TypeInv
<1> QED
  BY <1>1, ResetCovers DEF Resets, Opening

LEMMA OpenKeepsAddress ==
  ASSUME TypeInv, NEW g \in Goroutines, PullerClears(g) PROVE AddressInv'
<1>1. at'[g].pc = "start" /\ at'[g].update = at[g].update
  BY OpenMoves
<1>2. CASE ~at[g].update
  BY <1>1, <1>2, ResetCovers DEF Resets, Opening
<1>3. CASE at[g].update
  <2>1. g = Runner
    BY <1>3 DEF TypeInv, Updating
  <2>2. Current(puller)'
    <3>1. puller' = 0
      BY DEF PullerClears, ClearPuller
    <3> QED
      BY <3>1 DEF Current, Up, Pids
  <2> QED
    BY <1>1, <2>1, <2>2 DEF AddressInv
<1> QED
  BY <1>2, <1>3

\* Run starts its update with the session's address; what the stream has by
\* then is as current as it was.
LEMMA StartKeepsAddress ==
  ASSUME TypeInv, TypeInv', AddressInv, NEW g \in Goroutines, PullerStarts(g)
  PROVE  AddressInv'
<1>1. /\ at[g].pc = "start" /\ at'[g].pc = "set" /\ at'[g].hand = NextPid
      /\ NextPid \in Pids /\ at'[g].update = at[g].update
      /\ \A h \in Goroutines \ {g} : at'[h] = at[h]
  BY StartMoves, Goes DEF TypeInv
<1>2. CASE ~at[g].update
  BY <1>1, <1>2, ResetCovers DEF Resets, Opening
<1>3. CASE at[g].update
  <2>1. g = Runner
    BY <1>3 DEF TypeInv, Updating
  <2>2. /\ UNCHANGED <<puller, url, toRun, down>> /\ NextPid # puller
        /\ proc' = [proc EXCEPT ![NextPid] = Started(url)]
    <3>1. Free(NextPid)
      BY DEF PullerStarts, NextPid
    <3> QED
      BY <3>1 DEF PullerStarts, Free
  <2>3. proc'[at'[Runner].hand].addr = url'
    BY <1>1, <2>1, <2>2 DEF Started, TypeInv, FieldsTyped
  <2>4. Current(at[Runner].hand)'
    BY <2>3 DEF Current
  <2>5. Current(puller) => Current(puller)'
    BY <2>2 DEF Current, Up, TypeInv, FieldsTyped
  <2>6. Cover => Cover'
    <3>1. ASSUME NEW h \in Goroutines, Resets(h) PROVE Resets(h)'
      BY <1>1, <1>3, <3>1 DEF Resets
    <3> QED
      BY <1>1, <2>1, <2>2, <3>1 DEF Cover
  <2>7. RunLives
    BY <1>1, <2>1 DEF RunLives
  <2> QED
    BY <2>2, <2>4, <2>5, <2>6, <2>7 DEF AddressInv
<1> QED
  BY <1>2, <1>3

\* Whoever has a process of another address in hand has one that is left
\* behind then.
LEMMA FailureKeepsAddress ==
  ASSUME TypeInv, TypeInv', NEW g \in Goroutines, PullerDoesNotStart(g) PROVE AddressInv'
<1>1. puller' = 0
  BY DEF PullerDoesNotStart
<1>2. Current(puller)'
  BY <1>1 DEF Current, Up, Pids
<1>3. /\ at'[g].pc # "set" /\ \A h \in Goroutines \ {g} : at'[h] = at[h]
  BY FinishMoves, Goes DEF TypeInv
<1>4. ASSUME at'[Runner].pc = "set" PROVE Current(at[Runner].hand)'
  <2>1. g # Runner /\ at'[Runner] = at[Runner] /\ at[Runner].pc = "set"
    BY <1>3, <1>4, RunnerHere
  <2>2. at[Runner].hand # 0 /\ at[Runner] \in State
    BY <2>1, RunnerHere DEF TypeInv, Handing, AtTyped
  <2>3. at[Runner].hand \in Pids
    BY <2>2, StreamAssumption DEF State, Pids
  <2>4. proc'[at[Runner].hand] =
          [proc[at[Runner].hand] EXCEPT !.outdated = @ \/ proc[at[Runner].hand].addr # url]
    BY <2>1, <2>3, RunnerHere DEF PullerDoesNotStart
  <2>5. proc[at[Runner].hand] \in Process /\ url' = url
    BY <2>3 DEF TypeInv, FieldsTyped, PullerDoesNotStart
  <2>6. proc'[at'[Runner].hand].outdated \/ proc'[at'[Runner].hand].addr = url'
    BY <2>1, <2>4, <2>5 DEF Process
  <2> QED
    BY <2>6 DEF Current
<1> QED
  BY <1>2, <1>4 DEF AddressInv

LEMMA SetKeepsAddress ==
  ASSUME TypeInv, AddressInv, NEW g \in Goroutines, SetPuller(g) PROVE AddressInv'
<1>1. /\ at[g].pc = "set" /\ at'[g].pc = "mark" /\ at'[g].update = at[g].update
      /\ \A h \in Goroutines \ {g} : at'[h] = at[h]
  BY SetMoves, Goes DEF TypeInv
<1>2. CASE ~at[g].update
  BY <1>1, <1>2, ResetCovers DEF Resets, Opening
<1>3. CASE at[g].update
  <2>1. g = Runner
    BY <1>3 DEF TypeInv, Updating
  <2>2. UNCHANGED <<url, proc, toRun, down>> /\ puller' = at[Runner].hand
    BY <2>1 DEF SetPuller
  <2>3. Cover => Cover'
    <3>1. ASSUME NEW h \in Goroutines, Resets(h) PROVE Resets(h)'
      BY <1>1, <1>3, <3>1 DEF Resets
    <3> QED
      BY <1>1, <2>1, <2>2, <3>1 DEF Cover
  <2>4. Current(at[Runner].hand) => Current(puller)'
    BY <2>2 DEF Current, Up
  <2>5. RunLives /\ at'[Runner].pc # "set"
    BY <1>1, <2>1 DEF RunLives
  <2> QED
    BY <1>1, <2>1, <2>2, <2>3, <2>4, <2>5 DEF AddressInv
<1> QED
  BY <1>2, <1>3

LEMMA MarkKeepsAddress ==
  ASSUME TypeInv, TypeInv', AddressInv, NEW g \in Goroutines, MarkRunning(g) PROVE AddressInv'
<1>1. /\ at[g].pc = "mark" /\ at'[g].pc \in {"head", "clean"}
      /\ at'[g].pc = "clean" => g = Runner
      /\ \A h \in Goroutines \ {g} : at'[h] = at[h]
  BY FinishMoves, Goes DEF TypeInv, MarkRunning
<1>2. CASE ~at[g].update
  BY <1>2 DEF MarkRunning, AddressInv, Cover
<1>3. CASE at[g].update
  <2>1. g = Runner
    BY <1>3 DEF TypeInv, Updating
  <2>2. UNCHANGED <<url, puller, proc, down>> /\ (toRun => toRun')
    BY DEF MarkRunning, source
  <2>3. Cover => Cover'
    <3>1. ASSUME NEW h \in Goroutines, Resets(h) PROVE Resets(h)'
      BY <1>1, <1>3, <3>1 DEF Resets
    <3> QED
      BY <1>1, <2>1, <2>2, <3>1 DEF Cover
  <2>4. RunLives /\ at'[Runner].pc # "set"
    BY <1>1, <2>1 DEF RunLives
  <2>5. Fades
    BY <2>2, SameFades DEF TypeInv
  <2> QED
    BY <2>2, <2>3, <2>4, <2>5, AddressKept
<1> QED
  BY <1>2, <1>3

LEMMA AddressNext ==
  ASSUME TypeInv, TypeInv', AddressInv, [Next]_vars PROVE AddressInv'
  BY StepKinds, StillKeepsAddress, QuietKeepsAddress, ClearKeepsAddress, OpenKeepsAddress,
     StartKeepsAddress, FailureKeepsAddress, SetKeepsAddress, MarkKeepsAddress DEF ResetStep

(***************************************************************************)
(* Recordings                                                              *)
(***************************************************************************)
Records(r) == at[r].pc \notin {"none", "zero"}

\* Steps that begin no recording and end no recorder.
LEMMA RealKept ==
  ASSUME RecordingIsReal, record' \in {record, FALSE}, client = "start" => client' = "start",
         \A r \in Recorders : Records(r) => Records(r)'
  PROVE  RecordingIsReal'
  BY DEF RecordingIsReal, Records

LEMMA StillKeepsReal ==
  ASSUME TypeInv, RecordingIsReal, StillStep PROVE RecordingIsReal'
<1>1. at' = at
  BY StillKeepsAt
<1>2. CASE StartSessionRecord
  BY <1>1, <1>2 DEF StartSessionRecord, RecordingIsReal
<1>3. CASE RenewEnd \/ MkdirFails
  BY <1>1, <1>3 DEF RenewEnd, MkdirFails, RecordingIsReal
<1>4. CASE ~StartSessionRecord /\ ~RenewEnd /\ ~MkdirFails
  <2>1. record' \in {record, FALSE} /\ client' = client
    BY <1>4
    DEF StillStep, StopSessionRecord, FiveSecondsPass, RecordingExpires, ProcessEnds,
        TickReaps, RemoveSession, CloseNotice, CloseManager, Reset, vars, status
  <2> QED
    BY <1>1, <2>1, RealKept DEF Records
<1> QED
  BY <1>2, <1>3, <1>4

LEMMA OpenerKeepsReal ==
  ASSUME TypeInv, RecordingIsReal, NEW g \in Goroutines, ResetStep(g) PROVE RecordingIsReal'
<1>1. record' = record /\ client' = client
  BY DEF ResetStep, ResetClears, PullerClears, PullerStarts, PullerDoesNotStart, SetPuller,
         MarkRunning, status
<1>2. ASSUME NEW r \in Recorders PROVE Records(r) => Records(r)'
  <2>1. r \in Goroutines /\ r # Runner
    BY StreamAssumption, RunnerHere
  <2>2. CASE PullerClears(g)
    BY <2>1, <2>2, OpenMoves DEF Records
  <2>3. CASE ~PullerClears(g)
    <3>1. /\ at'[g].pc \notin {"none", "zero"}
          /\ \A h \in Goroutines \ {g} : at'[h] = at[h]
      BY <2>3, ClearsMoves, StartMoves, SetMoves, FinishMoves, Goes DEF ResetStep, TypeInv
    <3> QED
      BY <2>1, <3>1 DEF Records
  <2> QED
    BY <2>2, <2>3
<1> QED
  BY <1>1, <1>2, RealKept

LEMMA QuietKeepsReal ==
  ASSUME TypeInv, RecordingIsReal, NEW g \in Goroutines, QuietStep(g) PROVE RecordingIsReal'
<1>1. \A h \in Goroutines \ {g} : at'[h] = at[h]
  BY QuietStepIsQuiet, QuietKeepsTypes
<1>2. CASE g = Runner
  <2>1. record' \in {record, FALSE} /\ client' = client
    BY <1>2, StreamAssumption
    DEF QuietStep, Answer, ResetThrottled, ResetAllowed, Refused, RunStep, RunStops,
        RunUpdates, RunReads, RunEOF, RunFrame, RunCannotPush, RunCleans, status
  <2>2. \A r \in Recorders : at'[r] = at[r]
    BY <1>1, <1>2, StreamAssumption, RunnerHere
  <2> QED
    BY <2>1, <2>2, RealKept DEF Records
<1>3. CASE Answer(g) /\ g \in Recorders
  <2>1. record' = record /\ client' = client
    BY <1>3 DEF Answer, ResetThrottled, ResetAllowed, Refused, status
  <2>2. at'[g].pc \in {"head", "clear", "end"}
    <3>1. g # Runner /\ at[g] \in State /\ at \in [Goroutines -> State]
      BY <1>3, StreamAssumption DEF TypeInv, AtTyped
    <3>2. PICK addr : ResetThrottled(g, addr) \/ ResetAllowed(g, addr) \/ Refused(g, addr)
      BY <1>3 DEF Answer
    <3>3. CASE ResetThrottled(g, addr)
      BY <3>1, <3>3, ReturnMoves, Goes DEF ResetThrottled, AtTyped
    <3>4. CASE ResetAllowed(g, addr)
      BY <3>1, <3>4 DEF ResetAllowed, State
    <3>5. CASE Refused(g, addr)
      BY <3>1, <3>5 DEF Refused, Goto, State
    <3> QED
      BY <3>2, <3>3, <3>4, <3>5
  <2> QED
    BY <1>1, <2>1, <2>2, RunnerHere, RealKept DEF Records
<1>4. CASE g \in Recorders /\ RecorderStep(g)
  <2>0. at[g] \in State /\ at \in [Goroutines -> State]
    BY DEF TypeInv, AtTyped
  <2>1. CASE RecorderEnds(g)
    BY <2>1 DEF RecorderEnds, RecordingIsReal
  <2>2. CASE RecorderZeroes(g)
    BY <1>1, <2>2, RunnerHere, RealKept DEF RecorderZeroes, Records
  <2>3. CASE ~RecorderEnds(g) /\ ~RecorderZeroes(g)
    <3>1. record' = record /\ client' = client
      BY <1>4, <2>3
      DEF RecorderStep, RecorderPanics, RecorderLeaves, RecorderStarts, RecorderCompletes,
          RecorderFails, RecorderRetries, RecorderGivesUp, status
    <3>2. at'[g].pc \in {"panicked", "end", "segment", "head", "ask"}
      BY <1>4, <2>0, <2>3
      DEF RecorderStep, RecorderPanics, RecorderLeaves, RecorderStarts, RecorderCompletes,
          RecorderFails, RecorderRetries, RecorderGivesUp, Goto, Ask, State
    <3> QED
      BY <1>1, <3>1, <3>2, RunnerHere, RealKept DEF Records
  <2> QED
    BY <2>1, <2>2, <2>3
<1>5. CASE g \in Recorders /\ StartRecording(g)
  <2>1. at'[g].pc = "head"
    BY <1>5 DEF StartRecording, Goto, TypeInv, AtTyped, State
  <2> QED
    BY <1>5, <2>1 DEF RecordingIsReal
<1> QED
  BY <1>2, <1>3, <1>4, <1>5, RunnerHere DEF QuietStep, Goroutines

LEMMA RealNext == ASSUME TypeInv, RecordingIsReal, [Next]_vars PROVE RecordingIsReal'
  BY StepKinds, StillKeepsReal, OpenerKeepsReal, QuietKeepsReal

(***************************************************************************)
(* The theorems                                                            *)
(***************************************************************************)
StreamInv == TypeInv /\ Alone /\ AddressInv /\ RecordingIsReal

LEMMA StreamInit == Init => StreamInv
<1> SUFFICES ASSUME Init PROVE StreamInv
  OBVIOUS
<1>1. TypeInv
  BY TypesInit
<1>2. at[Runner].pc = "head" /\ \A g \in Goroutines : at[g].pc \in {"head", "none"}
  BY RunnerHere DEF Init, Resting
<1>3. Alone /\ RecordingIsReal
  BY <1>2 DEF Init, Alone, IsOpening, RecordingIsReal
<1>4. AddressInv
  <2>1. proc[puller].addr = url
    BY StreamAssumption DEF Init, Started, Pids
  <2> QED
    BY <1>2, <2>1 DEF AddressInv, Current
<1> QED
  BY <1>1, <1>3, <1>4 DEF StreamInv

LEMMA StreamNext == StreamInv /\ [Next]_vars => StreamInv'
  BY TypesNext, AloneNext, AddressNext, RealNext DEF StreamInv

\* Every value of Stream keeps its type.
THEOREM StreamTypes == Spec => []TypeOK
<1>1. StreamInv => TypeOK
  BY DEF StreamInv, TypeInv, FieldsTyped, AtTyped, TypeOK
<1> QED
  BY StreamInit, StreamNext, <1>1, PTL DEF Spec

\* Run and recorders lose no live ffmpeg when they set theirs, unless two of
\* them were opening at once, each past its ClearPuller.
THEOREM NoPullerIsLost == Spec => []NoLostProcess
<1>1. StreamInv => NoLostProcess
  BY DEF StreamInv, Alone, NoLostProcess, IsOpening, Up, Pids
<1> QED
  BY StreamInit, StreamNext, <1>1, PTL DEF Spec

\* When all resets are through, Run reads the stream of the last address or
\* has been told to open it again.
THEOREM TheLastAddressWins == Spec => []LastAddressWins
<1>1. StreamInv => LastAddressWins
  BY RunnerHere
  DEF StreamInv, AddressInv, Cover, Resets, Current, Opening, Resetting, LastAddressWins
<1> QED
  BY StreamInit, StreamNext, <1>1, PTL DEF Spec

\* While directories can be made, a session that says it records has a
\* recorder, or one is being started.
THEOREM RecordingsAreReal == Spec => []RecordingIsReal
<1>1. StreamInv => RecordingIsReal
  BY DEF StreamInv
<1> QED
  BY StreamInit, StreamNext, <1>1, PTL DEF Spec

(***************************************************************************)
(* Nothing pulls at the end, when no two openers cross and none is left    *)
(* with a process in hand when Run returns                                 *)
(***************************************************************************)
\* Steps that start no process and set none: what is not killed is known as
\* before.
LEMMA KnownKept ==
  ASSUME EveryPullerKnown,
         \A g \in Goroutines : at'[g].hand = at[g].hand,
         \A p \in Pids : proc'[p].up => /\ proc[p].up
                                        /\ \/ p # puller \/ puller' = puller
                                           \/ \E g \in Goroutines : at[g].hand = p
  PROVE  EveryPullerKnown'
  BY DEF EveryPullerKnown, Up

LEMMA QuietHands ==
  ASSUME TypeInv, NEW g \in Goroutines, QuietStep(g)
  PROVE  \A h \in Goroutines : at'[h].hand = at[h].hand
<1>1. /\ at[g].pc \notin Opening /\ at'[g].pc \notin {"start", "set", "mark"} /\ Handing'
      /\ \A h \in Goroutines \ {g} : at'[h] = at[h]
  BY QuietStepIsQuiet, QuietKeepsTypes
<1>2. at[g].hand = 0 /\ at'[g].hand = 0
  BY <1>1 DEF TypeInv, Handing, Opening
<1> QED
  BY <1>1, <1>2

\* What a ClearPuller leaves up is not the session's.
LEMMA ClearedIsDown ==
  ASSUME ClearPuller, NEW p \in Pids, proc'[p].up PROVE proc[p].up /\ p # puller
  BY DEF ClearPuller, Killed, Gone

LEMMA StillKeepsKnown ==
  ASSUME TypeInv, EveryPullerKnown, StillStep PROVE EveryPullerKnown'
<1>1. at' = at
  BY StillKeepsAt
<1>2. CASE Reset
  <2>1. ClearPuller
    BY <1>2 DEF Reset
  <2> QED
    BY <1>1, <2>1, ClearedIsDown, KnownKept
<1>3. CASE ~Reset
  <2>1. puller' = puller
    BY <1>3 DEF StillStep, StartSessionRecord, StopSessionRecord, RenewEnd, MkdirFails,
                FiveSecondsPass, RecordingExpires, ProcessEnds, TickReaps, RemoveSession,
                CloseNotice, CloseManager, vars, source
  <2>2. \A p \in Pids : proc'[p].up => proc[p].up
    BY StillFades DEF Fades
  <2> QED
    BY <1>1, <2>1, <2>2, KnownKept
<1> QED
  BY <1>2, <1>3

LEMMA QuietKeepsKnown ==
  ASSUME TypeInv, EveryPullerKnown, NEW g \in Goroutines, QuietStep(g)
  PROVE  EveryPullerKnown'
<1>1. \A h \in Goroutines : at'[h].hand = at[h].hand
  BY QuietHands
<1>2. CASE RunCleans
  <2>1. ClearPuller
    BY <1>2 DEF RunCleans
  <2> QED
    BY <1>1, <2>1, ClearedIsDown, KnownKept
<1>3. CASE ~RunCleans
  <2>1. UNCHANGED <<puller, proc>>
    BY <1>3 DEF QuietStep, Answer, ResetThrottled, ResetAllowed, Refused, RunStep, RunStops,
                RunUpdates, RunReads, RunEOF, RunFrame, RunCannotPush, RecorderStep,
                RecorderPanics, RecorderLeaves, RecorderStarts, RecorderCompletes,
                RecorderFails, RecorderRetries, RecorderGivesUp, RecorderEnds,
                RecorderZeroes, StartRecording, source
  <2> QED
    BY <1>1, <2>1, KnownKept
<1> QED
  BY <1>2, <1>3

LEMMA StartKeepsKnown ==
  ASSUME TypeInv, EveryPullerKnown, NEW g \in Goroutines, PullerStarts(g)
  PROVE  EveryPullerKnown'
<1>1. /\ at[g].hand = 0 /\ at'[g].hand = NextPid
      /\ \A h \in Goroutines \ {g} : at'[h] = at[h]
  BY StartMoves, Goes DEF TypeInv
<1>2. ASSUME NEW p \in Pids, proc'[p].up, p # NextPid
      PROVE  p = puller' \/ \E h \in Goroutines : at'[h].hand = p
  <2>1. Up(p) /\ puller' = puller
    BY <1>2 DEF PullerStarts, Up, TypeInv, FieldsTyped
  <2>2. CASE p # puller
    <3>1. PICK h \in Goroutines : at[h].hand = p
      BY <2>1, <2>2 DEF EveryPullerKnown
    <3>2. h # g
      BY <1>1, <3>1, StreamAssumption DEF Pids
    <3> QED
      BY <1>1, <3>1, <3>2
  <2> QED
    BY <2>1, <2>2
<1> QED
  BY <1>1, <1>2 DEF EveryPullerKnown, Up

\* One that has not crossed another overwrites nothing.
LEMMA SetKeepsKnown ==
  ASSUME TypeInv, Alone, Tidy, EveryPullerKnown, NEW g \in Goroutines, SetPuller(g)
  PROVE  EveryPullerKnown'
<1>1. at[g].pc = "set" /\ \A h \in Goroutines \ {g} : at'[h] = at[h]
  BY SetMoves, Goes DEF TypeInv
<1>2. puller = 0 /\ puller' = at[g].hand /\ proc' = proc
  BY <1>1 DEF SetPuller, Tidy, Alone, IsOpening
<1>3. ASSUME NEW p \in Pids, Up(p)
      PROVE  p = puller' \/ \E h \in Goroutines : at'[h].hand = p
  <2>1. p # 0
    BY DEF Pids
  <2>2. PICK h \in Goroutines : at[h].hand = p
    BY <1>2, <1>3, <2>1 DEF EveryPullerKnown
  <2> QED
    BY <1>1, <1>2, <2>2
<1> QED
  BY <1>2, <1>3 DEF EveryPullerKnown, Up

LEMMA ResetKeepsKnown ==
  ASSUME TypeInv, EveryPullerKnown, NEW g \in Goroutines,
         ResetClears(g) \/ PullerClears(g) \/ PullerDoesNotStart(g) \/ MarkRunning(g)
  PROVE  EveryPullerKnown'
<1>1. \A h \in Goroutines : at'[h].hand = at[h].hand
  <2>1. at'[g].hand = 0 /\ \A h \in Goroutines \ {g} : at'[h].hand = at[h].hand
    BY ClearsMoves, OpenMoves, FinishMoves, Goes DEF TypeInv
  <2>2. at[g].hand = 0
    BY ClearsMoves, OpenMoves, FinishMoves DEF TypeInv, Handing
  <2> QED
    BY <2>1, <2>2
<1>2. CASE ResetClears(g) \/ PullerClears(g)
  <2>1. ClearPuller
    BY <1>2 DEF ResetClears, PullerClears
  <2> QED
    BY <1>1, <2>1, ClearedIsDown, KnownKept
<1>3. CASE PullerDoesNotStart(g)
  <2>1. ASSUME NEW p \in Pids, proc'[p].up
        PROVE  proc[p].up /\ (p # puller \/ \E h \in Goroutines : at[h].hand = p)
    <3>1. proc'[p] = IF p \in {at[h].hand : h \in Goroutines \ {g}}
                     THEN [proc[p] EXCEPT !.outdated = @ \/ proc[p].addr # url]
                     ELSE Killed(puller)[p]
      BY <1>3 DEF PullerDoesNotStart
    <3>2. CASE p \in {at[h].hand : h \in Goroutines \ {g}}
      <4>1. proc'[p].up = proc[p].up
        BY <3>1, <3>2 DEF TypeInv, FieldsTyped, Process
      <4> QED
        BY <2>1, <3>2, <4>1
    <3>3. CASE p \notin {at[h].hand : h \in Goroutines \ {g}}
      BY <2>1, <3>1, <3>3 DEF Killed, Gone
    <3> QED
      BY <3>2, <3>3
  <2> QED
    BY <1>1, <2>1, KnownKept
<1>4. CASE MarkRunning(g)
  BY <1>1, <1>4, KnownKept DEF MarkRunning, source
<1> QED
  BY <1>2, <1>3, <1>4

LEMMA KnownNext ==
  ASSUME TypeInv, Alone, Tidy, EveryPullerKnown, [Next]_vars PROVE EveryPullerKnown'
  BY StillKeepsKnown, QuietKeepsKnown, StartKeepsKnown, SetKeepsKnown, ResetKeepsKnown,
     StepKinds
  DEF ResetStep

\* Run returns by its deferred function only.
LEMMA RunMovesOn ==
  ASSUME TypeInv, QuietStep(Runner), ~RunCleans PROVE at'[Runner].pc # "done"
<1>1. at[Runner] \in State /\ Runner \in Goroutines
  BY RunnerHere DEF TypeInv, AtTyped
<1>2. Runner \notin Recorders
  BY StreamAssumption
<1>3. ASSUME NEW pc, Goto(Runner, pc) \/ at' = [at EXCEPT ![Runner] = Resting(pc)]
      PROVE  at'[Runner].pc = pc
  BY <1>1, <1>3 DEF Goto, Resting, TypeInv, AtTyped, State
<1>4. CASE RunStops \/ RunReads \/ RunFrame \/ RunCannotPush
  BY <1>3, <1>4 DEF RunStops, RunReads, RunFrame, RunCannotPush, GiveUp
<1>5. CASE RunUpdates
  BY <1>1, <1>5 DEF RunUpdates, TypeInv, AtTyped, State
<1>6. CASE RunEOF
  <2>1. CASE Ask(Runner)
    BY <1>1, <2>1 DEF Ask, TypeInv, AtTyped, State
  <2>2. CASE GiveUp
    BY <1>3, <2>2 DEF GiveUp
  <2> QED
    BY <1>6, <2>1, <2>2 DEF RunEOF
<1>7. CASE Answer(Runner)
  <2>1. CASE Return(Runner)
    BY <2>1, <1>1, ReturnMoves DEF TypeInv, AtTyped
  <2>2. CASE GiveUp
    BY <1>3, <2>2 DEF GiveUp
  <2>3. ASSUME NEW addr, at' = [at EXCEPT ![Runner].pc = "clear", ![Runner].got = addr]
        PROVE  at'[Runner].pc = "clear"
    BY <1>1, <2>3 DEF TypeInv, AtTyped, State
  <2> QED
    BY <1>7, <2>1, <2>2, <2>3 DEF Answer, ResetThrottled, ResetAllowed, Refused
<1> QED
  BY <1>2, <1>4, <1>5, <1>6, <1>7 DEF QuietStep, RunStep

LEMMA OpenerNotDone ==
  ASSUME TypeInv, NEW g \in Goroutines, ResetStep(g), at'[Runner].pc = "done"
  PROVE  at[Runner].pc = "done"
<1>1. CASE PullerClears(g)
  BY <1>1, OpenMoves, RunnerHere
<1>2. CASE ~PullerClears(g)
  <2>1. PICK s \in State : at' = [at EXCEPT ![g] = s] /\ s.pc # "done"
    BY <1>2, ClearsMoves, StartMoves, SetMoves, FinishMoves DEF ResetStep
  <2> QED
    BY <2>1, Goes, RunnerHere DEF TypeInv
<1> QED
  BY <1>1, <1>2

\* Run returns with the puller cleared, and then nobody sets another.
LEMMA ClearedNext ==
  ASSUME TypeInv, Tidy, RunDone => puller = 0, [Next]_vars, RunDone' PROVE puller' = 0
<1>1. CASE StillStep
  <2>1. RunDone
    BY <1>1, StillKeepsAt DEF RunDone
  <2> QED
    BY <1>1, <2>1, StillFades DEF Fades
<1>2. ASSUME NEW g \in Goroutines, QuietStep(g) PROVE puller' = 0
  <2>1. CASE RunCleans
    BY <2>1 DEF RunCleans, ClearPuller
  <2>2. CASE ~RunCleans
    <3>1. RunDone
      <4>1. CASE g # Runner
        BY <1>2, <4>1, RunnerHere, QuietStepIsQuiet, QuietKeepsTypes DEF RunDone
      <4>2. CASE g = Runner
        <5>1. at[Runner].pc # "done" => at'[Runner].pc # "done"
          BY <1>2, <2>2, <4>2, RunMovesOn
        <5> QED
          BY <5>1 DEF RunDone
      <4> QED
        BY <4>1, <4>2
    <3> QED
      BY <1>2, <3>1, QuietFades DEF Fades
  <2> QED
    BY <2>1, <2>2
<1>3. ASSUME NEW g \in Goroutines, ResetStep(g) PROVE puller' = 0
  <2>1. RunDone
    BY <1>3, OpenerNotDone DEF RunDone
  <2>2. CASE SetPuller(g)
    <3>1. at[g].hand # 0 /\ at[g].pc = "set"
      BY <2>2, SetMoves DEF Pids
    <3>2. g \in Recorders
      BY <2>1, <3>1 DEF RunDone, Goroutines
    <3> QED
      BY <2>1, <3>1, <3>2 DEF Tidy
  <2>3. CASE ~SetPuller(g)
    BY <1>3, <2>1, <2>3
    DEF ResetStep, ResetClears, ClearPuller, PullerClears, PullerStarts,
        PullerDoesNotStart, MarkRunning, source
  <2> QED
    BY <2>2, <2>3
<1> QED
  BY <1>1, <1>2, <1>3, StepKinds

LEMMA TidyInit == Init => TidyInv
<1> SUFFICES ASSUME Init PROVE TidyInv
  OBVIOUS
<1>1. \A g \in Goroutines : ~at[g].crossed /\ at[g].hand = 0 /\ at[g].pc \in {"head", "none"}
  BY DEF Init, Resting
<1>2. \A p \in Pids : proc[p].up => p = puller
  BY DEF Init, Gone
<1> QED
  BY <1>1, <1>2, RunnerHere DEF TidyInv, Tidy, RunDone, EveryPullerKnown, Up

LEMMA TidyNext ==
  ASSUME TypeInv, Alone, TidyInv, [Next]_vars, Tidy' PROVE TidyInv'
  BY KnownNext, ClearedNext DEF TidyInv

LEMMA TidyEnds == ASSUME TypeInv, TidyInv PROVE NothingPullsAtTheEnd
<1> SUFFICES ASSUME RunDone, \A r \in Recorders : at[r].pc = "none", NEW p \in Pids, Up(p)
             PROVE  FALSE
  BY DEF NothingPullsAtTheEnd, RunDone
<1>1. \A g \in Goroutines : at[g].hand = 0
  BY DEF Goroutines, RunDone, TypeInv, Handing
<1>2. p # 0
  BY DEF Pids
<1> QED
  BY <1>1, <1>2 DEF TidyInv, EveryPullerKnown

(***************************************************************************)
(* Without restarts nobody opens a puller                                  *)
(***************************************************************************)
AtRest(g) == at[g].pc \notin Resetting \cup {"ask"} /\ ~at[g].crossed

NoOpening == ~toRun /\ \A g \in Goroutines : AtRest(g)

LEMMA RestsOn ==
  ASSUME TypeInv, NoOpening, NEW g \in Goroutines,
         NEW pc \in (RunPcs \cup RecorderPcs) \ {"ask"},
         Goto(g, pc) \/ at' = [at EXCEPT ![g] = Resting(pc)], UNCHANGED toRun
  PROVE  NoOpening'
<1>1. PICK s \in State : /\ at' = [at EXCEPT ![g] = s]
                         /\ s.pc = pc /\ (~at[g].crossed => ~s.crossed)
  BY GotoMoves, RestingTyped DEF TypeInv
<1>2. at'[g] = s /\ \A h \in Goroutines \ {g} : at'[h] = at[h]
  BY <1>1, Goes DEF TypeInv
<1>3. pc \notin Resetting \cup {"ask"}
  BY DEF Resetting, RunPcs, RecorderPcs
<1> QED
  BY <1>1, <1>2, <1>3 DEF NoOpening, AtRest

LEMMA NoOpeningNext ==
  ASSUME AutoRestart = FALSE, TypeInv, NoOpening, [Next]_vars PROVE NoOpening'
<1>0. ~ \E g \in Goroutines : MayRetry(g)
  BY DEF MayRetry
<1>1. CASE StillStep
  <2>1. at' = at /\ UNCHANGED toRun
    BY <1>1 DEF StillStep, StartSessionRecord, StopSessionRecord, RenewEnd, MkdirFails,
                FiveSecondsPass, RecordingExpires, ProcessEnds, TickReaps, RemoveSession,
                CloseNotice, CloseManager, Reset, vars
  <2> QED
    BY <2>1 DEF NoOpening, AtRest
<1>2. ASSUME NEW g \in Goroutines, ResetStep(g) PROVE FALSE
  BY <1>2 DEF NoOpening, AtRest, Resetting, ResetStep, ResetClears, PullerClears, PullerStarts,
              PullerDoesNotStart, SetPuller, MarkRunning
<1>3. ASSUME NEW g \in Goroutines, Answer(g) PROVE FALSE
  BY <1>3 DEF NoOpening, AtRest, Answer, ResetThrottled, ResetAllowed, Refused
<1>4. CASE RunStep \/ RunFrame \/ RunCannotPush
  <2>1. ~RunUpdates /\ UNCHANGED toRun
    BY <1>4 DEF NoOpening, RunStep, RunStops, RunUpdates, RunReads, RunEOF, RunFrame,
                RunCannotPush, RunCleans
  <2>2. \E pc \in {"clean", "read", "head", "done"} :
          Goto(Runner, pc) \/ at' = [at EXCEPT ![Runner] = Resting(pc)]
    BY <1>0, <1>4, <2>1, RunnerHere
    DEF RunStep, RunStops, RunReads, RunEOF, RunFrame, RunCannotPush, RunCleans, GiveUp
  <2> QED
    BY <2>1, <2>2, RestsOn, RunnerHere DEF RunPcs
<1>5. ASSUME NEW r \in Recorders, RecorderStep(r) \/ StartRecording(r) PROVE NoOpening'
  <2>1. ~RecorderRetries(r) /\ UNCHANGED toRun
    BY <1>0, <1>5, RunnerHere
    DEF RecorderStep, RecorderPanics, RecorderLeaves, RecorderStarts, RecorderCompletes,
        RecorderFails, RecorderRetries, RecorderGivesUp, RecorderEnds, RecorderZeroes,
        StartRecording
  <2>2. \E pc \in {"panicked", "end", "segment", "head", "zero", "none"} :
          Goto(r, pc) \/ at' = [at EXCEPT ![r] = Resting(pc)]
    BY <1>5, <2>1
    DEF RecorderStep, RecorderPanics, RecorderLeaves, RecorderStarts, RecorderCompletes,
        RecorderFails, RecorderGivesUp, RecorderEnds, RecorderZeroes, StartRecording
  <2> QED
    BY <2>1, <2>2, RestsOn, RunnerHere DEF RecorderPcs
<1> QED
  BY <1>1, <1>2, <1>3, <1>4, <1>5, StepKinds DEF QuietStep

LEMMA NoOpeningInit == Init => NoOpening
  BY DEF Init, NoOpening, AtRest, Resting, Resetting

\* When Run, the recorders and the teardown are through, no ffmpeg pulls, if
\* no two of them were ever between their ClearPuller and their SetPuller at
\* once and no recorder had a new process in hand when Run was gone.
THEOREM RacesLeavePullers == HistorySpec => []OnlyRacesLeavePullers
<1> DEFINE I == StreamInv /\ (~raced => TidyInv)
<1>1. HistoryInit => I
  BY StreamInit, TidyInit DEF HistoryInit
<1>2. I /\ [HistoryNext]_historyVars => I'
  <2> SUFFICES ASSUME I, [HistoryNext]_historyVars PROVE I'
    OBVIOUS
  <2>1. [Next]_vars
    BY DEF HistoryNext, historyVars
  <2>2. StreamInv'
    BY <2>1, StreamNext
  <2>3. ASSUME ~raced' PROVE TidyInv'
    <3>1. TidyInv /\ Tidy'
      <4>1. CASE HistoryNext
        BY <2>3, <4>1 DEF HistoryNext
      <4>2. CASE UNCHANGED historyVars
        BY <2>3, <4>2 DEF historyVars, vars, TidyInv, Tidy, RunDone
      <4> QED
        BY <4>1, <4>2
    <3> QED
      BY <2>1, <3>1, TidyNext DEF StreamInv
  <2> QED
    BY <2>2, <2>3
<1>3. I => OnlyRacesLeavePullers
  BY TidyEnds DEF StreamInv, OnlyRacesLeavePullers
<1> HIDE DEF I
<1> QED
  BY <1>1, <1>2, <1>3, PTL DEF HistorySpec

\* A session whose stream is not restarted leaves no ffmpeg behind, whatever
\* clients, recorders and teardown do.
THEOREM NoRestartLeavesNothing ==
  ASSUME AutoRestart = FALSE PROVE Spec => []NothingPullsAtTheEnd
<1> DEFINE I == StreamInv /\ TidyInv /\ NoOpening
<1>1. Init => I
  BY StreamInit, TidyInit, NoOpeningInit
<1>2. I /\ [Next]_vars => I'
  <2> SUFFICES ASSUME I, [Next]_vars PROVE I'
    OBVIOUS
  <2>1. StreamInv' /\ NoOpening'
    BY StreamNext, NoOpeningNext DEF StreamInv
  <2>2. Tidy'
    BY <2>1, RunnerHere
    DEF StreamInv, TypeInv, Handing, NoOpening, AtRest, Resetting, Tidy
  <2> QED
    BY <2>1, <2>2, TidyNext DEF StreamInv
<1>3. I => NothingPullsAtTheEnd
  BY TidyEnds DEF StreamInv
<1> QED
  BY <1>1, <1>2, <1>3, PTL DEF Spec
=============================================================================
