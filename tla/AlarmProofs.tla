---------------------------- MODULE AlarmProofs ----------------------------
(***************************************************************************)
(* Proofs about AlarmEngine for any number of alarms, speakers, runs and   *)
(* ringtones.                                                              *)
(***************************************************************************)
EXTENDS AlarmEngine, TLAPS

LEMMA UnusedIsARun == Unused \in RunRecords
<1>1. (CHOOSE s \in Speakers : TRUE) \in Speakers
  BY RecordsAssumption
<1> QED
  BY <1>1 DEF Unused, RunRecords, RunStates, PlayPCs, StopPCs, Renderers

LEMMA Begin == Init => IInv
<1> SUFFICES ASSUME Init PROVE IInv
  OBVIOUS
<1>1. TypeOK
  <2>1. loop \in [at : Nat, todo : SUBSET (Alarms \X Key), claimed : Alarms \cup {NoAlarm}]
    BY DEF Init, IdleLoop
  <2>2. run \in [Runs -> RunRecords]
    BY UnusedIsARun DEF Init
  <2> QED
    BY <2>1, <2>2 DEF Init, TypeOK
<1>2. \A r \in Runs : run[r].state = "unused" /\ run[r].stop = "none" /\ run[r].play = "none"
  BY DEF Init, Unused
<1> QED
  BY <1>1, <1>2, RecordsAssumption
     DEF Init, IInv, CurrentInv, RunInv, RingtoneInv, RingingIsCurrent, OneRingsPerSpeaker,
         RingtoneStays, SavedHasRingtone

(***************************************************************************)
(* What may become of a run, once it has been started.                     *)
(***************************************************************************)

ActiveStates == {"starting", "ringing", "stopping", "stop_failed"}

Moves(q, new, isCurrent) ==
    /\ new \in RunRecords
    /\ new.alarm = q.alarm /\ new.speaker = q.speaker /\ new.audio = q.audio
    /\ \/ new.state = q.state
       \/ q.state \in ActiveStates /\ new.state \in {"ended", "failed", "stop_failed"}
       \/ q.state \in ActiveStates /\ new.state = "stopping" /\ isCurrent
       \/ q.state = "starting" /\ new.state = "ringing"
    /\ new.stop # "none" => new.state = "stopping"
    /\ new.play # "none" => q.play # "none"

MoveRuns ==
    /\ run' \in [Runs -> RunRecords]
    /\ \A r \in Runs : Moves(run[r], run'[r], current[run[r].alarm] = r)

(* A run stays one, whichever of its fields is set.                        *)
LEMMA FieldsOfARun ==
    ASSUME NEW q \in RunRecords
    PROVE  /\ \A x \in PlayPCs : [q EXCEPT !.play = x] \in RunRecords
           /\ \A x \in StopPCs : [q EXCEPT !.stop = x] \in RunRecords
           /\ \A x \in RunStates : [q EXCEPT !.state = x] \in RunRecords
           /\ \A x \in BOOLEAN : [q EXCEPT !.live = x] \in RunRecords
           /\ \A x \in BOOLEAN : [q EXCEPT !.snooze = x] \in RunRecords
           /\ \A x \in BOOLEAN : [q EXCEPT !.silenced = x] \in RunRecords
           /\ \A x \in Renderers : [q EXCEPT !.rend = x] \in RunRecords
BY DEF RunRecords

(* The ways in which the steps of play and Stop and the world change one.  *)
LEMMA KindsOfMoves ==
    ASSUME NEW q \in RunRecords, q.stop # "none" => q.state = "stopping", NEW c \in BOOLEAN
    PROVE  /\ Moves(q, q, c)
           /\ \A x \in PlayPCs : q.play # "none" => Moves(q, [q EXCEPT !.play = x], c)
           /\ q.play # "none" => Moves(q, [q EXCEPT !.play = "err", !.rend = "holding"], c)
           /\ \A x \in StopPCs : q.stop # "none" => Moves(q, [q EXCEPT !.stop = x], c)
           /\ \A x \in Renderers : Moves(q, [q EXCEPT !.rend = x], c)
           /\ Moves(q, [q EXCEPT !.live = FALSE], c)
<1>1. [[q EXCEPT !.play = "err"] EXCEPT !.rend = "holding"] \in RunRecords
  BY FieldsOfARun DEF PlayPCs, Renderers
<1>2. [q EXCEPT !.play = "err", !.rend = "holding"] \in RunRecords
  BY <1>1
<1>3. q.play # "none" => Moves(q, [q EXCEPT !.play = "err", !.rend = "holding"], c)
  BY <1>2 DEF Moves, RunRecords
<1>4. ASSUME NEW x \in PlayPCs, q.play # "none" PROVE Moves(q, [q EXCEPT !.play = x], c)
  BY <1>4, FieldsOfARun DEF Moves, RunRecords
<1>5. ASSUME NEW x \in StopPCs, q.stop # "none" PROVE Moves(q, [q EXCEPT !.stop = x], c)
  BY <1>5, FieldsOfARun DEF Moves, RunRecords
<1>6. ASSUME NEW x \in Renderers PROVE Moves(q, [q EXCEPT !.rend = x], c)
  BY <1>6, FieldsOfARun DEF Moves, RunRecords
<1>7. Moves(q, [q EXCEPT !.live = FALSE], c)
  <2>1. [q EXCEPT !.live = FALSE] \in RunRecords
    BY FieldsOfARun
  <2> QED
    BY <2>1 DEF Moves, RunRecords
<1>8. Moves(q, q, c)
  BY DEF Moves
<1> QED
  BY <1>3, <1>4, <1>5, <1>6, <1>7, <1>8

(* The ways in which they change its state.                                *)
LEMMA KindsOfEnds ==
    ASSUME NEW q \in RunRecords, q.state \in ActiveStates,
           q.stop # "none" => q.state = "stopping", NEW c \in BOOLEAN
    PROVE  /\ q.state = "starting" /\ q.play # "none" =>
                /\ Moves(q, [q EXCEPT !.play = "watch", !.state = "ringing"], c)
                /\ Moves(q, [q EXCEPT !.play = "done", !.state = "failed", !.live = FALSE], c)
           /\ q.state = "ringing" /\ q.play # "none" =>
                Moves(q, [q EXCEPT !.play = "done", !.state = "ended", !.live = FALSE], c)
           /\ Moves(q, StopFailed(q), c)
           /\ Moves(q, [q EXCEPT !.stop = "none", !.state = "ended", !.silenced = TRUE], c)
           /\ c => \A snooze \in BOOLEAN : Moves(q, Stopping(q, snooze), c)
<1>1. [[q EXCEPT !.play = "watch"] EXCEPT !.state = "ringing"] \in RunRecords
  BY FieldsOfARun DEF PlayPCs, RunStates
<1>2. \A x \in {"failed", "ended"} :
        [[[q EXCEPT !.play = "done"] EXCEPT !.state = x] EXCEPT !.live = FALSE] \in RunRecords
  BY FieldsOfARun DEF PlayPCs, RunStates
<1>3. [[q EXCEPT !.stop = "none"] EXCEPT !.state = "stop_failed"] \in RunRecords
  BY FieldsOfARun DEF StopPCs, RunStates
<1>4. [[[q EXCEPT !.stop = "none"] EXCEPT !.state = "ended"] EXCEPT !.silenced = TRUE]
        \in RunRecords
  BY FieldsOfARun DEF StopPCs, RunStates
<1>5. \A snooze \in BOOLEAN :
        [[[[q EXCEPT !.state = "stopping"] EXCEPT !.live = FALSE] EXCEPT !.stop = "ask"]
           EXCEPT !.snooze = snooze] \in RunRecords
  BY FieldsOfARun DEF StopPCs, RunStates
<1>6. /\ [q EXCEPT !.play = "watch", !.state = "ringing"] \in RunRecords
      /\ \A x \in {"failed", "ended"} :
           [q EXCEPT !.play = "done", !.state = x, !.live = FALSE] \in RunRecords
      /\ StopFailed(q) \in RunRecords
      /\ [q EXCEPT !.stop = "none", !.state = "ended", !.silenced = TRUE] \in RunRecords
      /\ \A snooze \in BOOLEAN : Stopping(q, snooze) \in RunRecords
  BY <1>1, <1>2, <1>3, <1>4, <1>5 DEF StopFailed, Stopping
<1> QED
  BY <1>6 DEF Moves, StopFailed, Stopping, ActiveStates, RunRecords


LEMMA OneMoves ==
    ASSUME IInv, NEW r \in Runs, NEW q, Moves(run[r], q, current[run[r].alarm] = r),
           run' = [run EXCEPT ![r] = q]
    PROVE  MoveRuns
<1>1. \A i \in Runs : Moves(run[i], run[i], current[run[i].alarm] = i)
  BY KindsOfMoves DEF IInv, TypeOK, RunInv
<1> QED
  BY <1>1 DEF IInv, TypeOK, MoveRuns, Moves

LEMMA RingMoves == ASSUME IInv, NEW r \in Runs, Ring(r), ~DeadlineStops(r) PROVE MoveRuns
<1> DEFINE q == run[r]
           c == current[run[r].alarm] = r
<1>1. q \in RunRecords /\ (q.stop # "none" => q.state = "stopping")
  BY DEF IInv, TypeOK, RunInv
<1>0. q.play # "none"
  BY DEF Ring, PlaySetURI, PlayBegin, PlayWire, PlayResult, WatchEnds, WatchDeadline
<1>2. ASSUME NEW x \in PlayPCs, Play(r, x) PROVE MoveRuns
  <2>1. run' = [run EXCEPT ![r] = [q EXCEPT !.play = x]]
    BY <1>2 DEF Play, IInv, TypeOK
  <2> QED
    BY <1>0, <1>1, <2>1, KindsOfMoves, OneMoves
<1>3. CASE PlaySetURI(r)
  <2>1. CASE run' = [run EXCEPT ![r].play = "err", ![r].rend = "holding"]
    <3>1. run' = [run EXCEPT ![r] = [q EXCEPT !.play = "err", !.rend = "holding"]]
      BY <2>1 DEF IInv, TypeOK
    <3> QED
      BY <1>0, <1>1, <3>1, KindsOfMoves, OneMoves
  <2> QED
    BY <1>2, <1>3, <2>1 DEF PlaySetURI, PlayPCs
<1>4. CASE PlayBegin(r) \/ PlayWire(r) \/ WatchDeadline(r)
  BY <1>2, <1>4 DEF PlayBegin, PlayWire, WatchDeadline, PlayPCs
<1>5. CASE PlayResult(r)
  <2>1. CASE ~StillStarting(r)
    <3>1. run' = [run EXCEPT ![r] = [q EXCEPT !.play = "done"]]
      BY <1>5, <2>1 DEF PlayResult, IInv, TypeOK
    <3> QED
      BY <1>0, <1>1, <3>1, KindsOfMoves, OneMoves DEF PlayPCs
  <2>2. CASE StillStarting(r) /\ q.play = "ok"
    <3>1. run' = [run EXCEPT ![r] = [q EXCEPT !.play = "watch", !.state = "ringing"]]
      BY <1>5, <2>2 DEF PlayResult, IInv, TypeOK
    <3> QED
      BY <1>0, <1>1, <2>2, <3>1, KindsOfEnds, OneMoves DEF StillStarting, ActiveStates
  <2>3. CASE StillStarting(r) /\ q.play # "ok"
    <3>1. run' = [run EXCEPT
                    ![r] = [q EXCEPT !.play = "done", !.state = "failed", !.live = FALSE]]
      BY <1>5, <2>3 DEF PlayResult, IInv, TypeOK
    <3> QED
      BY <1>0, <1>1, <2>3, <3>1, KindsOfEnds, OneMoves DEF StillStarting, ActiveStates
  <2> QED
    BY <2>1, <2>2, <2>3
<1>6. CASE WatchEnds(r)
  <2>1. CASE Play(r, "done")
    BY <1>2, <2>1 DEF PlayPCs
  <2>2. CASE q.state = "ringing" /\ run' = [run EXCEPT ![r] =
               [q EXCEPT !.play = "done", !.state = "ended", !.live = FALSE]]
    BY <1>0, <1>1, <2>2, KindsOfEnds, OneMoves DEF ActiveStates
  <2>3. CASE run' = [run EXCEPT ![r] = [q EXCEPT !.play = "done"]]
    BY <1>0, <1>1, <2>3, KindsOfMoves, OneMoves DEF PlayPCs
  <2> QED
    BY <1>6, <2>1, <2>2, <2>3 DEF WatchEnds, IInv, TypeOK
<1> QED
  BY <1>3, <1>4, <1>5, <1>6 DEF Ring

LEMMA SilencingMoves == ASSUME IInv, NEW r \in Runs, Silencing(r) PROVE MoveRuns
<1> DEFINE q == run[r]
<1>1. q \in RunRecords /\ (q.stop # "none" => q.state = "stopping")
  BY DEF IInv, TypeOK, RunInv
<1>2. ASSUME NEW x \in StopPCs, StopAt(r, x), q.stop # "none" PROVE MoveRuns
  <2>1. run' = [run EXCEPT ![r] = [q EXCEPT !.stop = x]]
    BY <1>2 DEF StopAt, IInv, TypeOK
  <2> QED
    BY <1>1, <1>2, <2>1, KindsOfMoves, OneMoves
<1>3. CASE StopAsk(r) \/ StopBegin(r) \/ StopWire(r)
  BY <1>2, <1>3 DEF StopAsk, StopBegin, StopWire, StopPCs
<1>4. CASE StopEnds(r)
  <2>1. q.state \in ActiveStates
    BY <1>1, <1>4 DEF StopEnds, ActiveStates
  <2>2. CASE run' = [run EXCEPT ![r] = StopFailed(q)]
    BY <1>1, <2>1, <2>2, KindsOfEnds, OneMoves
  <2>3. CASE run' = [run EXCEPT ![r].stop = "none", ![r].state = "ended", ![r].silenced = TRUE]
    <3>1. run' = [run EXCEPT
                    ![r] = [q EXCEPT !.stop = "none", !.state = "ended", !.silenced = TRUE]]
      BY <2>3 DEF IInv, TypeOK
    <3> QED
      BY <1>1, <2>1, <3>1, KindsOfEnds, OneMoves
  <2> QED
    BY <1>4, <2>2, <2>3 DEF StopEnds, IInv, TypeOK
<1> QED
  BY <1>3, <1>4 DEF Silencing

(* Whoever stops the run of an alarm stops one that e.runs has.            *)
LEMMA StopsMove ==
    ASSUME IInv, NEW id \in Alarms, Stoppable(id), NEW snooze \in BOOLEAN,
           run' = [run EXCEPT ![current[id]] = Stopping(@, snooze)]
    PROVE  MoveRuns
<1> DEFINE r == current[id]
<1>1. r \in Runs /\ run[r].alarm = id
  BY DEF IInv, TypeOK, CurrentInv, Stoppable
<1>2. run[r] \in RunRecords /\ run[r].state \in ActiveStates
      /\ (run[r].stop # "none" => run[r].state = "stopping")
  BY <1>1 DEF IInv, TypeOK, RunInv, Stoppable, ActiveStates
<1>3. run' = [run EXCEPT ![r] = Stopping(run[r], snooze)]
  BY <1>1 DEF IInv, TypeOK
<1> QED
  BY <1>1, <1>2, <1>3, KindsOfEnds, OneMoves

LEMMA DeadlineMoves == ASSUME IInv, NEW r \in Runs, DeadlineStops(r) PROVE MoveRuns
<1> DEFINE id == run[r].alarm
           over == [run[r] EXCEPT !.play = "done"]
           done == [run EXCEPT ![r] = over]
<1>1. run[r] \in RunRecords /\ id \in Alarms /\ (run[r].stop # "none" => run[r].state = "stopping")
  BY DEF IInv, TypeOK, RunInv, DeadlineStops
<1>2. \A c \in BOOLEAN : Moves(run[r], over, c)
  BY <1>1, KindsOfMoves DEF DeadlineStops, PlayPCs
<1>3. over.state = run[r].state /\ over.stop = run[r].stop /\ done = [run EXCEPT ![r].play = "done"]
  BY <1>1 DEF RunRecords, IInv, TypeOK
<1>4. CASE ~Stoppable(id)
  BY <1>2, <1>3, <1>4, OneMoves DEF DeadlineStops
<1>5. CASE Stoppable(id)
  <2> DEFINE i == current[id]
  <2>1. i \in Runs /\ run[i].alarm = id /\ run[i] \in RunRecords /\ run[i].state \in ActiveStates
        /\ (run[i].stop # "none" => run[i].state = "stopping")
    BY <1>1, <1>5 DEF IInv, TypeOK, CurrentInv, RunInv, Stoppable, ActiveStates
  <2>2. run' = [done EXCEPT ![i] = Stopping(done[i], FALSE)]
    BY <1>3, <1>5, <2>1 DEF DeadlineStops, IInv, TypeOK
  <2>3. Moves(run[i], Stopping(done[i], FALSE), TRUE)
    <3>1. CASE i = r
      <4>1. Moves(over, Stopping(over, FALSE), TRUE)
        <5>1. over \in RunRecords
          BY <1>2 DEF Moves
        <5>2. over.state \in ActiveStates /\ (over.stop # "none" => over.state = "stopping")
          BY <1>1, <1>3, <2>1, <3>1
        <5> HIDE DEF over
        <5> QED
          BY <5>1, <5>2, KindsOfEnds
      <4>2. done[i] = over
        BY <2>1, <3>1 DEF IInv, TypeOK
      <4> HIDE DEF over, done
      <4> QED
        BY <1>2, <1>3, <3>1, <4>1, <4>2 DEF Moves
    <3>2. CASE i # r
      <4>1. done[i] = run[i]
        BY <2>1, <3>2 DEF IInv, TypeOK
      <4> HIDE DEF done
      <4> QED
        BY <2>1, <4>1, KindsOfEnds
    <3> QED
      BY <3>1, <3>2
  <2>4. \A k \in Runs : run'[k] = IF k = i THEN Stopping(done[i], FALSE)
                                  ELSE IF k = r THEN over ELSE run[k]
    BY <2>1, <2>2 DEF IInv, TypeOK
  <2>5. \A k \in Runs : Moves(run[k], run'[k], current[run[k].alarm] = k)
    <3> HIDE DEF over, done
    <3>1. \A k \in Runs : Moves(run[k], run[k], current[run[k].alarm] = k)
      BY KindsOfMoves DEF IInv, TypeOK, RunInv
    <3> QED
      BY <1>2, <2>1, <2>3, <2>4, <3>1
  <2>6. DOMAIN run' = Runs /\ run' = [k \in Runs |-> run'[k]]
    BY <2>1, <2>2 DEF IInv, TypeOK
  <2> QED
    BY <2>5, <2>6 DEF MoveRuns, Moves
<1> QED
  BY <1>4, <1>5

LEMMA WorldMoves ==
    ASSUME IInv, Shutdown \/ \E s \in Speakers : Replace(s)
    PROVE  MoveRuns
<1>1. \A r \in Runs : run[r] \in RunRecords /\ (run[r].stop # "none" => run[r].state = "stopping")
  BY DEF IInv, TypeOK, RunInv
<1>2. CASE Shutdown
  <2>1. run' = [r \in Runs |-> [run[r] EXCEPT !.live = FALSE]]
    BY <1>2 DEF Shutdown
  <2> QED
    BY <1>1, <2>1, KindsOfMoves DEF MoveRuns, Moves
<1>3. ASSUME NEW s \in Speakers, Replace(s) PROVE MoveRuns
  <2>1. \A r \in Runs : \/ run'[r] = run[r]
                        \/ \E x \in Renderers : run'[r] = [run[r] EXCEPT !.rend = x]
    BY <1>3 DEF Replace, Renderers
  <2>2. run' = [r \in Runs |-> run'[r]]
    BY <1>3 DEF Replace
  <2>3. \A r \in Runs : Moves(run[r], run'[r], current[run[r].alarm] = r)
    BY <1>1, <2>1, KindsOfMoves
  <2> QED
    BY <2>2, <2>3 DEF MoveRuns, Moves
<1> QED
  BY <1>2, <1>3

(***************************************************************************)
(* A step that moves runs and leaves the rest to its alarms.               *)
(***************************************************************************)

SameAlarms ==
    /\ alarms' \in [Alarms -> AlarmRecords \cup {NoAlarm}]
    /\ \A a \in Alarms :
         /\ alarms'[a] = NoAlarm <=> alarms[a] = NoAlarm
         /\ alarms[a] # NoAlarm => /\ alarms'[a].speaker = alarms[a].speaker
                                   /\ alarms'[a].audio = alarms[a].audio
                                   /\ alarms'[a].ring = alarms[a].ring

Safe ==
    /\ CurrentInv /\ RunInv /\ RingtoneInv
    /\ RingingIsCurrent /\ OneRingsPerSpeaker
    /\ RingtoneStays /\ SavedHasRingtone

LEMMA MovesAreSafe ==
    ASSUME IInv, SameAlarms, MoveRuns, UNCHANGED <<files, made, current, edit>>
    PROVE  Safe'
<1> USE DEF IInv, TypeOK, MoveRuns, Moves, ActiveStates
<1>1. CurrentInv'
  BY DEF CurrentInv, SameAlarms, Active
<1>2. RunInv'
  BY DEF RunInv
<1>3. RingtoneInv'
  BY DEF RingtoneInv, OthersHave, SameAlarms, EditRecords, AlarmRecords, IdleEdit
<1>4. RingingIsCurrent'
  BY DEF RingingIsCurrent
<1>5. OneRingsPerSpeaker'
  BY DEF OneRingsPerSpeaker
<1>6. RingtoneStays'
  <2>1. \A r \in Runs : run'[r].state \in {"starting", "ringing"} => run[r].alarm \in Alarms
    BY DEF RunInv, RingingIsCurrent, CurrentInv
  <2> QED
    BY <2>1 DEF RingtoneStays, Shared, SameAlarms
<1>7. SavedHasRingtone'
  BY DEF SavedHasRingtone, Shared, OthersHave, SameAlarms
<1> QED
  BY <1>1, <1>2, <1>3, <1>4, <1>5, <1>6, <1>7 DEF Safe

(***************************************************************************)
(* The steps of that shape, and the types of the other variables.          *)
(***************************************************************************)

Ordinary == SameAlarms /\ MoveRuns /\ UNCHANGED <<files, made, current, edit>>

LoopRecords == [at : Nat, todo : SUBSET (Alarms \X Key), claimed : Alarms \cup {NoAlarm}]

RestOK ==
    /\ now \in Nat /\ loop \in LoopRecords /\ down \in BOOLEAN
    /\ held \in [Speakers -> Runs \cup {NoRun, Other}]
    /\ newest \in [Speakers -> [by : Runs \cup {Other}, what : {"play", "stop", "cast"}]]
    /\ sounding \in [Speakers -> Runs \cup {NoRun, Other}]
    /\ rung \in [Alarms -> SUBSET Key]
    /\ yielded \subseteq Runs

LEMMA TypesAgree ==
    /\ TypeOK <=> /\ RestOK
                  /\ alarms \in [Alarms -> AlarmRecords \cup {NoAlarm}]
                  /\ files \subseteq made /\ made \subseteq Audios
                  /\ current \in [Alarms -> Runs \cup {NoRun}]
                  /\ run \in [Runs -> RunRecords]
                  /\ (edit = IdleEdit \/ edit \in EditRecords)
BY DEF TypeOK, RestOK, LoopRecords

LEMMA OrdinaryIsKept == ASSUME IInv, Ordinary, RestOK' PROVE IInv'
<1>1. Safe'
  BY MovesAreSafe DEF Ordinary
<1>2. TypeOK'
  BY TypesAgree DEF IInv, Ordinary, SameAlarms, MoveRuns, TypeOK, RestOK, LoopRecords
<1> QED
  BY <1>1, <1>2 DEF Safe, IInv

LEMMA NothingMoves ==
    ASSUME IInv
    PROVE  (UNCHANGED run => MoveRuns) /\ (UNCHANGED alarms => SameAlarms)
<1>1. \A r \in Runs : Moves(run[r], run[r], current[run[r].alarm] = r)
  BY KindsOfMoves DEF IInv, TypeOK, RunInv
<1> QED
  BY <1>1 DEF IInv, TypeOK, MoveRuns, SameAlarms

LEMMA ScanIsOrdinary == ASSUME IInv, Scan PROVE Ordinary /\ RestOK'
<1> USE DEF IInv, TypeOK
<1> DEFINE due == {a \in Alarms : alarms[a] # NoAlarm /\ Due(alarms[a], now)}
           todo == {<<a, KeyOf(alarms[a], now)>> : a \in due}
<1>1. ASSUME NEW a \in Alarms, alarms[a] # NoAlarm PROVE KeyOf(alarms[a], now) \in Key
  BY <1>1 DEF KeyOf, Key, AlarmRecords, Minute, Snoozing
<1>2. todo \in SUBSET (Alarms \X Key)
  BY <1>1
<1>3. loop' = [at |-> now, claimed |-> NoAlarm, todo |-> todo]
  BY DEF Scan
<1>4. loop' \in LoopRecords
  <2> HIDE DEF todo
  <2> QED
    BY <1>2, <1>3 DEF LoopRecords
<1> QED
  BY <1>4, NothingMoves DEF Scan, store, engine, device, Ordinary, RestOK

LEMMA ClaimIsOrdinary == ASSUME IInv, Claim PROVE Ordinary /\ RestOK'
<1> USE DEF IInv, TypeOK
<1>1. PICK x \in loop.todo : ClaimOrSkip(x[1], x[2])
  BY DEF Claim
<1>2. x[1] \in Alarms /\ x[2] \in Key /\ (loop.todo \ {<<x[1], x[2]>>}) \in SUBSET (Alarms \X Key)
  BY <1>1
<1> DEFINE fired == IF x[2][1] = "minute" THEN x[2][2] ELSE 0
           new == [alarms[x[1]] EXCEPT !.lastFire = fired, !.snooze = 0]
<1>3. fired \in Nat
  BY <1>2 DEF Key
<1>4. loop' \in LoopRecords
  <2>1. CASE loop' = [loop EXCEPT !.todo = @ \ {<<x[1], x[2]>>}, !.claimed = x[1]]
    <3>1. loop' = [[loop EXCEPT !.todo = loop.todo \ {<<x[1], x[2]>>}] EXCEPT !.claimed = x[1]]
      BY <2>1
    <3> QED
      BY <1>2, <3>1 DEF LoopRecords
  <2>2. CASE loop' = [loop EXCEPT !.todo = @ \ {<<x[1], x[2]>>}]
    BY <1>2, <2>2 DEF LoopRecords
  <2> QED
    BY <1>1, <2>1, <2>2 DEF ClaimOrSkip
<1>5. SameAlarms
  <2>1. CASE StillDue(x[1], x[2]) /\ alarms' = [alarms EXCEPT ![x[1]] = new]
    <3>1. alarms[x[1]] \in AlarmRecords
      BY <1>2, <2>1 DEF StillDue
    <3>2. /\ new \in AlarmRecords /\ new.speaker = alarms[x[1]].speaker
          /\ new.audio = alarms[x[1]].audio /\ new.ring = alarms[x[1]].ring
      <4> HIDE DEF fired
      <4> QED
        BY <1>3, <3>1 DEF AlarmRecords
    <3>3. new # NoAlarm /\ alarms[x[1]] # NoAlarm
      BY <3>1, <3>2, RecordsAssumption
    <3> HIDE DEF new
    <3> QED
      BY <1>2, <2>1, <3>2, <3>3 DEF SameAlarms
  <2>2. CASE UNCHANGED alarms
    BY <2>2, NothingMoves
  <2> QED
    BY <1>1, <1>2, <2>1, <2>2 DEF ClaimOrSkip
<1>6. rung' \in [Alarms -> SUBSET Key]
  BY <1>1, <1>2 DEF ClaimOrSkip
<1> QED
  BY <1>4, <1>5, <1>6, NothingMoves DEF Claim, engine, device, Ordinary, RestOK

LEMMA AfterStop == ASSUME IInv, NEW r \in Runs, StopEnds(r) PROVE SameAlarms
<1> USE DEF IInv, TypeOK
<1> DEFINE id == run[r].alarm
           until == IF run[r].snooze THEN now + SnoozeFor ELSE 0
           new == [alarms[id] EXCEPT !.snooze = until, !.enabled = @ \/ run[r].snooze]
<1>1. CASE UNCHANGED alarms
  BY <1>1, NothingMoves
<1>2. CASE alarms[id] # NoAlarm /\ alarms' = [alarms EXCEPT ![id] = new]
  <2>1. id \in Alarms
    BY DEF RunInv, StopEnds
  <2>2. alarms[id] \in AlarmRecords /\ run[r].snooze \in BOOLEAN
    BY <1>2, <2>1 DEF RunRecords
  <2>3. until \in Nat
    BY TimeAssumption
  <2>4. /\ new \in AlarmRecords /\ new.speaker = alarms[id].speaker
        /\ new.audio = alarms[id].audio /\ new.ring = alarms[id].ring
    <3> HIDE DEF until
    <3> QED
      BY <2>2, <2>3 DEF AlarmRecords
  <2>5. new # NoAlarm
    BY <2>4, RecordsAssumption
  <2> HIDE DEF new
  <2> QED
    BY <1>2, <2>1, <2>4, <2>5 DEF SameAlarms
<1>3. id \in Alarms
  BY DEF RunInv, StopEnds
<1>4. [alarms EXCEPT ![id].snooze = until, ![id].enabled = @ \/ run[r].snooze]
        = [alarms EXCEPT ![id] = new]
  BY <1>3
<1> QED
  BY <1>1, <1>2, <1>4 DEF StopEnds

LEMMA RunsAreOrdinary ==
    ASSUME IInv, NEW r \in Runs, Ring(r) \/ Silencing(r)
    PROVE  Ordinary /\ RestOK'
<1> USE DEF IInv, TypeOK, RestOK, LoopRecords
<1>1. run[r].speaker \in Speakers
  BY DEF RunRecords
<1>2. MoveRuns
  BY RingMoves, SilencingMoves, DeadlineMoves
<1>3. CASE PlaySetURI(r)
  BY <1>1, <1>2, <1>3, NothingMoves DEF PlaySetURI, Hold, store, Ordinary
<1>4. CASE PlayBegin(r) \/ PlayResult(r) \/ WatchEnds(r) \/ WatchDeadline(r) \/ DeadlineStops(r)
  BY <1>2, <1>4, NothingMoves
     DEF PlayBegin, PlayResult, WatchEnds, WatchDeadline, DeadlineStops, store, device, Ordinary
<1>5. CASE PlayWire(r) \/ StopWire(r)
  BY <1>1, <1>2, <1>5, NothingMoves DEF PlayWire, StopWire, store, Ordinary
<1>6. CASE StopAsk(r)
  <2>1. UNCHANGED <<alarms, files, made, current, edit, now, loop, down, held, sounding, rung,
                    yielded>>
    BY <1>6 DEF StopAsk, store
  <2>2. newest' \in [Speakers -> [by : Runs \cup {Other}, what : {"play", "stop", "cast"}]]
    BY <1>6 DEF StopAsk, Mine
  <2> QED
    BY <1>2, <1>6, <2>1, <2>2, NothingMoves DEF Ordinary
<1>7. CASE StopBegin(r)
  BY <1>2, <1>7, NothingMoves DEF StopBegin, store, device, Ordinary
<1>8. CASE StopEnds(r)
  BY <1>2, <1>8, AfterStop DEF StopEnds, device, Ordinary
<1> QED
  BY <1>3, <1>4, <1>5, <1>6, <1>7, <1>8 DEF Ring, Silencing

LEMMA OthersAreOrdinary ==
    ASSUME IInv,
           \/ ShutdownStops \/ Tick \/ Shutdown
           \/ \E id \in Alarms : Stop(id)
           \/ \E s \in Speakers : Cast(s) \/ Silence(s) \/ Replace(s)
    PROVE  Ordinary /\ RestOK'
<1> USE DEF IInv, TypeOK, RestOK, LoopRecords
<1>1. CASE ShutdownStops
  BY <1>1, StopsMove, NothingMoves DEF ShutdownStops, store, device, Ordinary
<1>2. CASE Tick
  BY <1>2, NothingMoves DEF Tick, store, engine, device, Ordinary
<1>3. CASE Shutdown
  BY <1>3, WorldMoves, NothingMoves DEF Shutdown, store, device, Ordinary
<1>4. ASSUME NEW id \in Alarms, Stop(id) PROVE Ordinary /\ RestOK'
  BY <1>4, StopsMove, NothingMoves DEF Stop, store, device, Ordinary
<1>5. ASSUME NEW s \in Speakers, Cast(s) PROVE Ordinary /\ RestOK'
  BY <1>5, NothingMoves DEF Cast, Hold, store, engine, Ordinary
<1>6. ASSUME NEW s \in Speakers, Silence(s) PROVE Ordinary /\ RestOK'
  BY <1>6, NothingMoves DEF Silence, store, engine, Ordinary
<1>7. ASSUME NEW s \in Speakers, Replace(s) PROVE Ordinary /\ RestOK'
  BY <1>7, WorldMoves, NothingMoves DEF Replace, store, Ordinary
<1> QED
  BY <1>1, <1>2, <1>3, <1>4, <1>5, <1>6, <1>7

(***************************************************************************)
(* Starting a run.                                                         *)
(***************************************************************************)

LEMMA StartIsKept ==
    ASSUME IInv, NEW id \in Alarms, NEW r \in Runs, StartRun(id, r), RestOK',
           UNCHANGED <<alarms, files, made, edit>>
    PROVE  IInv'
<1> USE DEF IInv, TypeOK
<1> DEFINE new == [Unused EXCEPT !.state = "starting", !.alarm = id,
                     !.speaker = alarms[id].speaker, !.audio = alarms[id].audio,
                     !.timed = alarms[id].timed, !.live = TRUE, !.play = "setURI"]
<1>1. alarms[id] \in AlarmRecords /\ alarms[id].audio \in files /\ ~Busy(id)
      /\ run[r].state = "unused"
  BY DEF StartRun, CanStart
<1>2. /\ new \in RunRecords /\ new.state = "starting" /\ new.alarm = id
      /\ new.speaker = alarms[id].speaker /\ new.audio = alarms[id].audio
      /\ new.stop = "none" /\ new.play = "setURI"
  BY <1>1, UnusedIsARun DEF Unused, RunRecords, AlarmRecords, RunStates, PlayPCs, StopPCs, Renderers
<1>3. /\ run' = [run EXCEPT ![r] = new] /\ current' = [current EXCEPT ![id] = r]
  BY DEF StartRun
<1> HIDE DEF new
<1>4. \A i \in Runs : run'[i] = IF i = r THEN new ELSE run[i]
  BY <1>3
<1>5. \A a \in Alarms : current'[a] = IF a = id THEN r ELSE current[a]
  BY <1>3
<1>6. alarms[id] # NoAlarm /\ r # NoRun
  BY <1>1, RecordsAssumption, NamesAssumption
<1>7. \A a \in Alarms : current[a] # r
  BY <1>1, <1>6 DEF CurrentInv
<1>8. TypeOK'
  BY <1>2, <1>3 DEF RestOK, LoopRecords
<1>9. CurrentInv'
  BY <1>1, <1>2, <1>4, <1>5, <1>6, <1>7 DEF CurrentInv, Active
<1>10. RunInv'
  BY <1>2, <1>4 DEF RunInv
<1>11. RingtoneInv'
  BY DEF RingtoneInv, OthersHave
<1>12. \A i \in Runs : /\ run[i].state \in {"starting", "ringing", "stopping"}
                       => current[run[i].alarm] = i /\ run[i].alarm \in Alarms
  BY DEF RingingIsCurrent, RunInv
<1>13. ASSUME NEW i \in Runs, run[i].state \in {"starting", "ringing", "stopping"}
       PROVE  run[i].speaker # alarms[id].speaker /\ run[i].alarm # id /\ i # r
  <2>1. current[run[i].alarm] = i /\ run[i].alarm \in Alarms /\ i # NoRun
    BY <1>12, <1>13, NamesAssumption
  <2>2. run[i].speaker # alarms[id].speaker
    BY <1>1, <1>13, <2>1 DEF Busy, Blocks
  <2>3. run[i].alarm # id
    BY <1>13, <2>1, <2>2 DEF CurrentInv, Active
  <2> QED
    BY <1>1, <1>13, <2>2, <2>3
<1>14. RingingIsCurrent'
  BY <1>2, <1>4, <1>5, <1>12, <1>13 DEF RingingIsCurrent
<1>15. OneRingsPerSpeaker'
  BY <1>2, <1>4, <1>13 DEF OneRingsPerSpeaker
<1>16. RingtoneStays'
  BY <1>1, <1>2, <1>4 DEF RingtoneStays, Shared
<1>17. SavedHasRingtone'
  BY DEF SavedHasRingtone, Shared, OthersHave
<1> HIDE DEF IInv, TypeOK
<1> QED
  BY <1>8, <1>9, <1>10, <1>11, <1>14, <1>15, <1>16, <1>17 DEF IInv

(* A failed start forgets a run that is over.                              *)
LEMMA NoteIsKept ==
    ASSUME IInv, NEW id \in Alarms, NoteFailure(id), RestOK',
           UNCHANGED <<alarms, files, made, edit>>
    PROVE  IInv'
<1> USE DEF IInv, TypeOK
<1>1. current' \in [Alarms -> Runs \cup {NoRun}] /\ run' = run
  BY DEF NoteFailure
<1>2. \A a \in Alarms : current'[a] = current[a] \/ (a = id /\ current'[a] = NoRun)
  BY DEF NoteFailure
<1>3. current'[id] # current[id] => run[current[id]].state \in {"ended", "failed"}
  BY DEF NoteFailure
<1>4. TypeOK'
  BY <1>1 DEF RestOK, LoopRecords
<1>5. CurrentInv'
  BY <1>1, <1>2 DEF CurrentInv, Active
<1>6. RingingIsCurrent'
  <2> SUFFICES ASSUME NEW r \in Runs, run[r].state \in {"starting", "ringing", "stopping"}
               PROVE  current'[run[r].alarm] = r
    BY <1>1 DEF RingingIsCurrent
  <2>1. current[run[r].alarm] = r /\ run[r].alarm \in Alarms
    BY DEF RingingIsCurrent, RunInv
  <2> QED
    BY <1>2, <1>3, <2>1
<1>7. RingtoneInv'
  BY DEF RingtoneInv, OthersHave
<1>8. RunInv' /\ OneRingsPerSpeaker' /\ RingtoneStays'
  BY <1>1 DEF RunInv, OneRingsPerSpeaker, RingtoneStays, Shared
<1>9. SavedHasRingtone'
  BY DEF SavedHasRingtone, Shared, OthersHave
<1> HIDE DEF IInv, TypeOK
<1> QED
  BY <1>4, <1>5, <1>6, <1>7, <1>8, <1>9 DEF IInv

LEMMA StartsAreKept ==
    ASSUME IInv, StartClaimed \/ \E id \in Alarms : Test(id)
    PROVE  IInv'
<1>1. ASSUME NEW id \in Alarms, Test(id) PROVE IInv'
  <2>1. RestOK'
    BY <1>1 DEF IInv, TypeOK, RestOK, LoopRecords, Test, device
  <2> QED
    BY <1>1, <2>1, StartIsKept DEF Test, store
<1>2. CASE StartClaimed
  <2>1. loop.claimed \in Alarms /\ loop' \in LoopRecords
    BY <1>2 DEF IInv, TypeOK, StartClaimed, LoopRecords
  <2>2. RestOK'
    BY <1>2, <2>1 DEF IInv, TypeOK, RestOK, StartClaimed, device
  <2> QED
    BY <1>2, <2>1, <2>2, StartIsKept, NoteIsKept DEF StartClaimed, store
<1> QED
  BY <1>1, <1>2

(***************************************************************************)
(* Saving, deleting and importing, and the restart.                        *)
(***************************************************************************)

(* What the run of an alarm that may sound shares with its alarm.          *)
LEMMA SoundingRun ==
    ASSUME IInv, NEW r \in Runs, run[r].state \in {"starting", "ringing", "stopping"}
    PROVE  LET b == run[r].alarm IN
           /\ b \in Alarms /\ current[b] = r /\ Active(current[b]) /\ alarms[b] # NoAlarm
           /\ alarms[b].audio = run[r].audio
           /\ run[r].state # "stopping" => run[r].audio \in files \/ Shared(b)
<1>1. run[r].alarm \in Alarms /\ current[run[r].alarm] = r /\ r # NoRun
  BY NamesAssumption DEF IInv, RunInv, RingingIsCurrent
<1>2. Active(r)
  BY <1>1 DEF Active
<1>3. run[r].state # "stopping" => run[r].audio \in files \/ Shared(run[r].alarm)
  BY DEF IInv, RingtoneStays
<1> QED
  BY <1>1, <1>2, <1>3 DEF IInv, CurrentInv

(* A step after which no run sounds that did not before, and whose alarms  *)
(* of such runs are as they were, keeps what concerns the runs.            *)
LEMMA RunsUntouched ==
    ASSUME IInv, UNCHANGED run, files' \subseteq made',
           \A id \in Alarms : \/ current'[id] = NoRun /\ ~Active(current[id])
                              \/ /\ current'[id] = current[id]
                                 /\ Active(current[id]) => alarms'[id] = alarms[id],
           \A id \in Alarms :
             Active(current[id]) /\ ~Shared(id) /\ alarms[id].audio \in files
             => alarms[id].audio \in files'
    PROVE  CurrentInv' /\ RunInv' /\ RingingIsCurrent' /\ OneRingsPerSpeaker' /\ RingtoneStays'
<1>1. CurrentInv'
  BY DEF IInv, CurrentInv, Active
<1>2. RunInv' /\ OneRingsPerSpeaker'
  BY DEF IInv, RunInv, OneRingsPerSpeaker
<1>3. RingingIsCurrent'
  BY SoundingRun DEF RingingIsCurrent
<1>4. RingtoneStays'
  BY SoundingRun DEF RingtoneStays, Shared
<1> QED
  BY <1>1, <1>2, <1>3, <1>4

LEMMA SaveBeginIsKept == ASSUME IInv, NEW id \in Alarms, SaveBegin(id) PROVE IInv'
<1>1. PICK s \in Speakers, set \in Settings, sameSound \in BOOLEAN :
        LET old == alarms[id]
            audio == IF old = NoAlarm THEN NoAudio ELSE old.audio
            reuse == sameSound /\ audio \in files /\ set.timed = old.timed
        IN  edit' = [pc |-> IF reuse THEN "commit" ELSE "prepare",
                     id |-> id, old |-> audio,
                     new |-> [speaker |-> s, at |-> set.at, audio |-> audio,
                              lastFire |-> IF old = NoAlarm THEN 0 ELSE old.lastFire,
                              enabled |-> set.enabled, snooze |-> 0, timed |-> set.timed,
                              ring |-> IF reuse /\ OthersHave(id, audio)
                                       THEN "shared" ELSE "own"]]
  BY DEF SaveBegin
<1> DEFINE audio == IF alarms[id] = NoAlarm THEN NoAudio ELSE alarms[id].audio
           fired == IF alarms[id] = NoAlarm THEN 0 ELSE alarms[id].lastFire
           reuse == sameSound /\ audio \in files /\ set.timed = alarms[id].timed
           ring == IF reuse /\ OthersHave(id, audio) THEN "shared" ELSE "own"
           new == [speaker |-> s, at |-> set.at, audio |-> audio, lastFire |-> fired,
                   enabled |-> set.enabled, snooze |-> 0, timed |-> set.timed, ring |-> ring]
           pc == IF reuse THEN "commit" ELSE "prepare"
<1>2. edit' = [pc |-> pc, id |-> id, old |-> audio, new |-> new]
  BY <1>1
<1>3. /\ audio \in Audios \cup {NoAudio} /\ fired \in Nat
      /\ set.at \in Nat /\ set.timed \in BOOLEAN /\ set.enabled \in BOOLEAN
  BY TimeAssumption DEF IInv, TypeOK, AlarmRecords
<1>10. /\ ring \in {"own", "shared"} /\ pc \in {"prepare", "commit"}
       /\ pc = "commit" => audio \in files /\ (ring = "own" => ~OthersHave(id, audio))
  OBVIOUS
<1>4. UNCHANGED <<alarms, files, made, current, run, now, loop, down, held, newest, sounding,
                  rung, yielded>>
  BY DEF SaveBegin, store, engine, device
<1>5. edit' \in EditRecords
  <2> HIDE DEF audio, fired, ring, pc
  <2>1. new \in AlarmRecords
    BY <1>3, <1>10 DEF AlarmRecords
  <2> HIDE DEF new
  <2> QED
    BY <1>2, <1>3, <1>10, <2>1 DEF EditRecords
<1>6. TypeOK'
  BY <1>4, <1>5 DEF IInv, TypeOK
<1>7. RingtoneInv'
  <2>1. audio = IF alarms[id] = NoAlarm THEN NoAudio ELSE alarms[id].audio
    OBVIOUS
  <2> HIDE DEF audio, fired, ring, pc, reuse
  <2>2. /\ edit'.pc = pc /\ edit'.id = id /\ edit'.old = audio
        /\ edit'.new.audio = audio /\ edit'.new.ring = ring
    BY <1>2
  <2> QED
    BY <1>4, <1>10, <2>1, <2>2 DEF IInv, RingtoneInv, OthersHave
<1>8. CurrentInv' /\ RunInv' /\ RingingIsCurrent' /\ OneRingsPerSpeaker' /\ RingtoneStays'
  BY <1>4, RunsUntouched DEF IInv, TypeOK
<1>9. SavedHasRingtone'
  BY <1>4 DEF IInv, SavedHasRingtone, Shared, OthersHave
<1> QED
  BY <1>6, <1>7, <1>8, <1>9 DEF IInv

LEMMA SavePrepareIsKept == ASSUME IInv, SavePrepare PROVE IInv'
<1>1. UNCHANGED <<alarms, current, run, now, loop, down, held, newest, sounding, rung, yielded>>
  BY DEF SavePrepare, engine, device
<1>2. edit # IdleEdit /\ edit \in EditRecords
  <2>1. edit.pc = "prepare"
    BY DEF SavePrepare
  <2>2. edit # IdleEdit
    BY <2>1 DEF IdleEdit
  <2> QED
    BY <2>2 DEF IInv, TypeOK
<1>3. CASE ReleaseImporting /\ UNCHANGED <<files, made>>
  <2>1. TypeOK'
    BY <1>1, <1>3 DEF IInv, TypeOK, ReleaseImporting
  <2>2. RingtoneInv'
    BY <1>1, <1>3 DEF IInv, RingtoneInv, OthersHave, ReleaseImporting
  <2>3. CurrentInv' /\ RunInv' /\ RingingIsCurrent' /\ OneRingsPerSpeaker' /\ RingtoneStays'
    BY <1>1, <1>3, RunsUntouched DEF IInv, TypeOK
  <2>4. SavedHasRingtone'
    BY <1>1, <1>3 DEF IInv, SavedHasRingtone, Shared, OthersHave
  <2> QED
    BY <2>1, <2>2, <2>3, <2>4 DEF IInv
<1>4. ASSUME NEW x \in Audios \ made, files' = files \cup {x}, made' = made \cup {x},
             edit' = [edit EXCEPT !.pc = "commit", !.new.audio = x]
      PROVE  IInv'
  <2> DEFINE new == [edit.new EXCEPT !.audio = x]
  <2>1. edit' = [[edit EXCEPT !.pc = "commit"] EXCEPT !.new = new]
    BY <1>2, <1>4 DEF EditRecords
  <2>2. new \in AlarmRecords /\ new.audio = x /\ new.ring = edit.new.ring
    BY <1>2 DEF EditRecords, AlarmRecords
  <2> HIDE DEF new
  <2>3. /\ edit' \in EditRecords /\ edit'.id = edit.id /\ edit'.old = edit.old
        /\ edit'.new = new /\ edit'.pc = "commit"
    BY <1>2, <2>1, <2>2 DEF EditRecords
  <2>4. TypeOK'
    BY <1>1, <1>4, <2>3 DEF IInv, TypeOK
  <2>5. \A a \in Alarms : alarms[a] # NoAlarm => alarms[a].audio # x
    BY NamesAssumption DEF IInv, RingtoneInv
  <2>6. RingtoneInv'
    BY <1>1, <1>2, <1>4, <2>2, <2>3, <2>5 DEF IInv, RingtoneInv, OthersHave
  <2>7. CurrentInv' /\ RunInv' /\ RingingIsCurrent' /\ OneRingsPerSpeaker' /\ RingtoneStays'
    BY <1>1, <1>4, <2>4, RunsUntouched DEF IInv, TypeOK
  <2>8. SavedHasRingtone'
    BY <1>1, <1>4 DEF IInv, SavedHasRingtone, Shared, OthersHave
  <2> QED
    BY <2>4, <2>6, <2>7, <2>8 DEF IInv
<1> QED
  BY <1>3, <1>4 DEF SavePrepare

LEMMA SaveEndIsKept == ASSUME IInv, SaveEnd PROVE IInv'
<1> DEFINE id == edit.id
           new == [edit.new EXCEPT !.lastFire = LastFire(id)]
<1>1. UNCHANGED <<made, current, run, now, loop, down, held, newest, sounding, rung, yielded>>
      /\ edit' = IdleEdit
  BY DEF SaveEnd, engine, device
<1>2. edit # IdleEdit /\ edit \in EditRecords /\ edit.pc = "commit"
  <2>1. edit.pc = "commit"
    BY DEF SaveEnd
  <2>2. edit # IdleEdit
    BY <2>1 DEF IdleEdit
  <2> QED
    BY <2>1, <2>2 DEF IInv, TypeOK
<1>3. /\ id \in Alarms /\ edit.new \in AlarmRecords
      /\ edit.old = IF alarms[id] = NoAlarm THEN NoAudio ELSE alarms[id].audio
      /\ edit.new.ring \in {"own", "shared"} /\ edit.new.audio \in files
      /\ edit.new.ring = "own" =>
              \A a \in Alarms \ {id} : alarms[a] # NoAlarm => alarms[a].audio # edit.new.audio
      /\ edit.new.audio # edit.old =>
              \A a \in Alarms : alarms[a] # NoAlarm => alarms[a].audio # edit.new.audio
  BY <1>2 DEF EditRecords, IInv, RingtoneInv, OthersHave
<1>4. LastFire(id) \in Nat
  BY <1>3 DEF LastFire, IInv, TypeOK, AlarmRecords
<1>5. /\ new \in AlarmRecords /\ new # NoAlarm
      /\ new.audio = edit.new.audio /\ new.ring = edit.new.ring
  BY <1>3, <1>4, RecordsAssumption DEF AlarmRecords
<1>6. files \subseteq Audios /\ NoAudio \notin files
  BY NamesAssumption DEF IInv, TypeOK
<1>7. CASE StillIdle(id) /\ alarms' = [alarms EXCEPT ![id] = new]
           /\ files' = IF edit.new.audio # edit.old THEN files \ {edit.old} ELSE files
  <2> HIDE DEF new
  <2>1. \A a \in Alarms : alarms'[a] = IF a = id THEN new ELSE alarms[a]
    BY <1>3, <1>7 DEF IInv, TypeOK
  <2>2. TypeOK'
    BY <1>1, <1>5, <1>7 DEF IInv, TypeOK
  <2>3. \A a \in Alarms \ {id} : alarms[a] # NoAlarm /\ alarms[a].audio = edit.old
                                 => edit.old = NoAudio \/ Shared(a)
    BY <1>3 DEF IInv, SavedHasRingtone, OthersHave
  <2>4. CurrentInv' /\ RunInv' /\ RingingIsCurrent' /\ OneRingsPerSpeaker' /\ RingtoneStays'
    <3>1. \A a \in Alarms : Active(current[a]) => a # id /\ alarms[a] # NoAlarm
      BY <1>7 DEF StillIdle, IInv, CurrentInv, Active
    <3> QED
      BY <1>1, <1>6, <1>7, <2>1, <2>2, <2>3, <3>1, RunsUntouched DEF TypeOK
  <2>5. RingtoneInv'
    <3>1. edit.new.audio \in made
      BY <1>3 DEF IInv, TypeOK
    <3> QED
      BY <1>1, <1>5, <2>1, <3>1 DEF IInv, RingtoneInv
  <2>6. edit.new.audio \in files' /\ edit.new.audio # NoAudio
    BY <1>3, <1>6, <1>7
  <2>7. SavedHasRingtone'
    <3> SUFFICES ASSUME NEW a \in Alarms, alarms'[a] # NoAlarm
                 PROVE  /\ alarms'[a].ring = "own" => alarms'[a].audio \in files'
                        /\ alarms'[a].ring # "shared" => \/ alarms'[a].audio = NoAudio
                                                         \/ ~OthersHave(a, alarms[a].audio)'
      BY DEF SavedHasRingtone, Shared
    <3>2. CASE a = id
      <4>1. alarms'[a].ring # "shared" => ~OthersHave(a, alarms[a].audio)'
        BY <1>3, <1>5, <2>1, <3>2 DEF OthersHave
      <4> QED
        BY <1>5, <2>1, <2>6, <3>2, <4>1
    <3>3. CASE a # id
      <4>1. alarms'[a] = alarms[a] /\ alarms[a] # NoAlarm
        BY <2>1, <3>3
      <4>2. alarms[a].ring = "own" => alarms[a].audio \in files'
        BY <1>6, <1>7, <2>3, <3>3, <4>1 DEF IInv, SavedHasRingtone, Shared
      <4>3. ASSUME ~Shared(a), alarms[a].audio # NoAudio PROVE alarms[a].audio # edit.new.audio
        <5>1. CASE edit.new.audio # edit.old
          BY <1>3, <4>1, <5>1
        <5>2. CASE edit.new.audio = edit.old
          BY <1>3, <1>6, <2>3, <3>3, <4>1, <4>3, <5>2
        <5> QED
          BY <5>1, <5>2
      <4>4. ASSUME ~Shared(a), alarms[a].audio # NoAudio PROVE ~OthersHave(a, alarms[a].audio)'
        BY <1>5, <2>1, <4>1, <4>3, <4>4 DEF OthersHave, IInv, SavedHasRingtone
      <4> QED
        BY <4>1, <4>2, <4>4 DEF Shared, OthersHave
    <3> QED
      BY <3>2, <3>3
  <2> QED
    BY <2>2, <2>4, <2>5, <2>7 DEF IInv
<1>8. CASE UNCHANGED alarms
           /\ files' = IF edit.new.audio # edit.old THEN files \ {edit.new.audio} ELSE files
  <2>1. TypeOK'
    BY <1>1, <1>8 DEF IInv, TypeOK
  <2>2. \A a \in Alarms : alarms[a] # NoAlarm /\ alarms[a].audio \in files
                          => alarms[a].audio \in files'
    BY <1>3, <1>8
  <2>3. CurrentInv' /\ RunInv' /\ RingingIsCurrent' /\ OneRingsPerSpeaker' /\ RingtoneStays'
    <3>1. \A a \in Alarms : Active(current[a]) => alarms[a] # NoAlarm
      BY DEF IInv, CurrentInv, Active
    <3> QED
      BY <1>1, <1>8, <2>1, <2>2, <3>1, RunsUntouched DEF TypeOK
  <2>4. RingtoneInv'
    BY <1>1, <1>8 DEF IInv, RingtoneInv, OthersHave
  <2>5. SavedHasRingtone'
    BY <1>8, <2>2 DEF IInv, SavedHasRingtone, Shared, OthersHave
  <2> QED
    BY <2>1, <2>3, <2>4, <2>5 DEF IInv
<1> QED
  BY <1>7, <1>8 DEF SaveEnd

LEMMA DeleteIsKept == ASSUME IInv, NEW id \in Alarms, Delete(id) PROVE IInv'
<1>1. UNCHANGED <<made, edit, run, now, loop, down, held, newest, sounding, rung, yielded>>
  BY DEF Delete, device
<1>2. edit = IdleEdit /\ ~Active(current[id]) /\ alarms[id] # NoAlarm
  BY DEF Delete, NotImporting, IInv, TypeOK, EditRecords
<1>3. /\ \A a \in Alarms : alarms'[a] = IF a = id THEN NoAlarm ELSE alarms[a]
      /\ \A a \in Alarms : current'[a] = IF a = id THEN NoRun ELSE current[a]
      /\ files' = files \ {alarms[id].audio}
  BY DEF Delete, IInv, TypeOK
<1>4. TypeOK'
  BY <1>1 DEF Delete, IInv, TypeOK
<1>5. files \subseteq Audios /\ NoAudio \notin files
  BY NamesAssumption DEF IInv, TypeOK
<1>6. \A a \in Alarms \ {id} :
        alarms[a] # NoAlarm /\ ~Shared(a) /\ alarms[a].audio \in files
        => alarms[a].audio \in files'
  BY <1>2, <1>3, <1>5 DEF IInv, SavedHasRingtone, OthersHave
<1>7. CurrentInv' /\ RunInv' /\ RingingIsCurrent' /\ OneRingsPerSpeaker' /\ RingtoneStays'
  <2>1. \A a \in Alarms : Active(current[a]) => a # id /\ alarms[a] # NoAlarm
    BY <1>2 DEF IInv, CurrentInv, Active
  <2> QED
    BY <1>1, <1>2, <1>3, <1>4, <1>6, <2>1, RunsUntouched DEF TypeOK
<1>8. RingtoneInv'
  BY <1>1, <1>2, <1>3 DEF IInv, RingtoneInv
<1>9. SavedHasRingtone'
  BY <1>3, <1>6 DEF IInv, SavedHasRingtone, Shared, OthersHave
<1> QED
  BY <1>4, <1>7, <1>8, <1>9 DEF IInv

LEMMA ImportIsKept == ASSUME IInv, Import PROVE IInv'
<1>1. UNCHANGED <<files, edit, run, now, loop, down, held, newest, sounding, yielded>>
  BY DEF Import, device
<1>2. edit = IdleEdit /\ (\A a \in Alarms : ~Active(current[a]))
      /\ current' = [a \in Alarms |-> NoRun]
  BY DEF Import, NotImporting, IInv, TypeOK, EditRecords
<1>3. PICK kept \in SUBSET Alarms : \E speaker \in [kept -> Speakers], set \in [kept -> Settings],
                                       audio \in [kept -> Audios \cup {NoAudio}] :
          /\ alarms' = [a \in Alarms |->
               IF a \in kept
               THEN [speaker |-> speaker[a], at |-> set[a].at, audio |-> audio[a],
                     enabled |-> FALSE, lastFire |-> 0, snooze |-> 0, timed |-> set[a].timed,
                     ring |-> IF \E b \in kept \ {a} : audio[b] = audio[a] /\ audio[a] # NoAudio
                              THEN "shared" ELSE "backup"]
               ELSE NoAlarm]
          /\ made' = (made \cup {audio[a] : a \in kept}) \ {NoAudio}
  BY DEF Import
<1>4. PICK speaker \in [kept -> Speakers], set \in [kept -> Settings],
           audio \in [kept -> Audios \cup {NoAudio}] :
          /\ alarms' = [a \in Alarms |->
               IF a \in kept
               THEN [speaker |-> speaker[a], at |-> set[a].at, audio |-> audio[a],
                     enabled |-> FALSE, lastFire |-> 0, snooze |-> 0, timed |-> set[a].timed,
                     ring |-> IF \E b \in kept \ {a} : audio[b] = audio[a] /\ audio[a] # NoAudio
                              THEN "shared" ELSE "backup"]
               ELSE NoAlarm]
          /\ made' = (made \cup {audio[a] : a \in kept}) \ {NoAudio}
  BY <1>3
<1> DEFINE both(a) == \E b \in kept \ {a} : audio[b] = audio[a] /\ audio[a] # NoAudio
           ring(a) == IF both(a) THEN "shared" ELSE "backup"
           new(a) == [speaker |-> speaker[a], at |-> set[a].at, audio |-> audio[a],
                      enabled |-> FALSE, lastFire |-> 0, snooze |-> 0,
                      timed |-> set[a].timed, ring |-> ring(a)]
<1>5. ASSUME NEW a \in kept
      PROVE  /\ new(a) \in AlarmRecords /\ audio[a] \in Audios \cup {NoAudio}
             /\ new(a).audio = audio[a] /\ new(a).ring = ring(a)
  <2>1. /\ speaker[a] \in Speakers /\ audio[a] \in Audios \cup {NoAudio}
        /\ set[a].at \in Nat /\ set[a].timed \in BOOLEAN
    BY TimeAssumption
  <2>2. ring(a) \in {"shared", "backup"}
    OBVIOUS
  <2> HIDE DEF ring
  <2> QED
    BY <2>1, <2>2 DEF AlarmRecords
<1>6. \A a \in kept : alarms'[a] = new(a)
  BY <1>4
<1>7. \A a \in Alarms \ kept : alarms'[a] = NoAlarm
  BY <1>4
<1>8. alarms' = [a \in Alarms |-> alarms'[a]]
  BY <1>4
<1>13. \A a \in kept : /\ ring(a) # "own"
                       /\ ring(a) # "shared" =>
                            \A b \in kept \ {a} : audio[b] = audio[a] => audio[a] = NoAudio
  OBVIOUS
<1> HIDE DEF new, ring
<1>9. TypeOK'
  <2>1. alarms' \in [Alarms -> AlarmRecords \cup {NoAlarm}]
    BY <1>5, <1>6, <1>7, <1>8
  <2>2. rung' \in [Alarms -> SUBSET Key]
    BY DEF Import
  <2>3. files' \subseteq made' /\ made' \subseteq Audios
    BY <1>1, <1>4, <1>5, NamesAssumption DEF IInv, TypeOK
  <2> QED
    BY <1>1, <1>2, <2>1, <2>2, <2>3 DEF IInv, TypeOK
<1>10. CurrentInv' /\ RunInv' /\ RingingIsCurrent' /\ OneRingsPerSpeaker' /\ RingtoneStays'
  BY <1>1, <1>2, <1>9, RunsUntouched DEF TypeOK
<1>11. RingtoneInv'
  BY <1>1, <1>2, <1>4, <1>5, <1>6, <1>7 DEF RingtoneInv
<1>12. SavedHasRingtone'
  BY <1>5, <1>6, <1>7, <1>13 DEF SavedHasRingtone, Shared, OthersHave
<1> QED
  BY <1>9, <1>10, <1>11, <1>12 DEF IInv

LEMMA RestartIsKept == ASSUME IInv, Restart PROVE IInv'
<1> DEFINE lost(q) == [q EXCEPT !.state = "lost", !.live = FALSE, !.play = "done",
                                !.stop = "none", !.rend = "closed"]
<1>1. UNCHANGED <<now, alarms, files, made, sounding, yielded, rung>>
      /\ current' = [a \in Alarms |-> NoRun] /\ edit' = IdleEdit
  BY DEF Restart, store
<1>2. run' = [r \in Runs |-> IF run[r].state = "unused" THEN run[r] ELSE lost(run[r])]
  BY DEF Restart
<1>3. ASSUME NEW q \in RunRecords
      PROVE  lost(q) \in RunRecords /\ lost(q).state = "lost" /\ lost(q).stop = "none"
             /\ lost(q).alarm = q.alarm
  <2>1. [[[[[q EXCEPT !.state = "lost"] EXCEPT !.live = FALSE] EXCEPT !.play = "done"]
            EXCEPT !.stop = "none"] EXCEPT !.rend = "closed"] \in RunRecords
    BY FieldsOfARun DEF RunStates, PlayPCs, StopPCs, Renderers
  <2> QED
    BY <2>1 DEF RunRecords
<1> HIDE DEF lost
<1>4. \A r \in Runs : run[r] \in RunRecords
  BY DEF IInv, TypeOK
<1>5. \A r \in Runs : run'[r] \in RunRecords
  BY <1>2, <1>3, <1>4
<1>6. TypeOK'
  <2>1. loop' \in [at : Nat, todo : SUBSET (Alarms \X Key), claimed : Alarms \cup {NoAlarm}]
    BY DEF Restart, IdleLoop, IInv, TypeOK
  <2>2. run' \in [Runs -> RunRecords]
    BY <1>2, <1>5
  <2>3. /\ down' \in BOOLEAN
        /\ held' \in [Speakers -> Runs \cup {NoRun, Other}]
        /\ newest' \in [Speakers -> [by : Runs \cup {Other}, what : {"play", "stop", "cast"}]]
    BY DEF Restart
  <2> QED
    BY <1>1, <2>1, <2>2, <2>3 DEF IInv, TypeOK
<1>7. \A r \in Runs : run'[r].state \in {"unused", "lost"}
  BY <1>2, <1>3, <1>4
<1>8. CurrentInv' /\ RingingIsCurrent' /\ OneRingsPerSpeaker' /\ RingtoneStays'
  BY <1>1, <1>7 DEF CurrentInv, RingingIsCurrent, OneRingsPerSpeaker, RingtoneStays
<1>9. RunInv'
  BY <1>2, <1>3, <1>4 DEF IInv, RunInv
<1>10. RingtoneInv'
  BY <1>1 DEF IInv, RingtoneInv
<1>11. SavedHasRingtone'
  BY <1>1 DEF IInv, SavedHasRingtone, Shared, OthersHave
<1> QED
  BY <1>6, <1>8, <1>9, <1>10, <1>11 DEF IInv

(***************************************************************************)
(* The invariant.                                                          *)
(***************************************************************************)

LEMMA Stuttering == ASSUME IInv, UNCHANGED vars PROVE IInv'
<1>1. Ordinary
  BY NothingMoves DEF vars, store, engine, device, Ordinary
<1>2. RestOK'
  BY DEF vars, store, engine, device, IInv, TypeOK, RestOK, LoopRecords
<1> QED
  BY <1>1, <1>2, OrdinaryIsKept

LEMMA Step == ASSUME IInv, [Next]_vars PROVE IInv'
<1>1. CASE Schedule
  BY <1>1, ScanIsOrdinary, ClaimIsOrdinary, StartsAreKept, OthersAreOrdinary, OrdinaryIsKept
     DEF Schedule
<1>2. CASE \E r \in Runs : Ring(r) \/ Silencing(r)
  BY <1>2, RunsAreOrdinary, OrdinaryIsKept
<1>3. CASE Users
  BY <1>3, StartsAreKept, OthersAreOrdinary, OrdinaryIsKept, SaveBeginIsKept, SavePrepareIsKept,
     SaveEndIsKept, DeleteIsKept, ImportIsKept DEF Users
<1>4. CASE World
  BY <1>4, OthersAreOrdinary, OrdinaryIsKept, RestartIsKept DEF World
<1> QED
  BY <1>1, <1>2, <1>3, <1>4, Stuttering DEF Next

(* What e.runs, the runs, the store and the ringtones have to do with each *)
(* other, in every state (alarms.go).                                      *)
THEOREM Invariance == Spec => []IInv
<1>1. Init => IInv
  BY Begin
<1>2. IInv /\ [Next]_vars => IInv'
  BY Step
<1> QED
  BY <1>1, <1>2, PTL DEF Spec

(* Every variable of the alarm engine keeps its type.                      *)
THEOREM TypeCorrect == Spec => []TypeOK
<1>1. IInv => TypeOK
  BY DEF IInv
<1> QED
  BY <1>1, Invariance, PTL

(* Nobody loses the run that rings: Stop, Save, Delete and import look for *)
(* it under the id of its alarm, and find it there.                        *)
THEOREM NoneIsLost == Spec => []RingingIsCurrent
<1>1. IInv => RingingIsCurrent
  BY DEF IInv
<1> QED
  BY <1>1, Invariance, PTL

(* Start lets one alarm ring on a speaker, however many are due, tested or *)
(* edited.                                                                 *)
THEOREM OneAtATime == Spec => []OneRingsPerSpeaker
<1>1. IInv => OneRingsPerSpeaker
  BY DEF IInv
<1> QED
  BY <1>1, Invariance, PTL

(* Save, Delete and import leave the ringtone of a ringing alarm alone.    *)
THEOREM RingtonesStay == Spec => []RingtoneStays
<1>1. IInv => RingtoneStays
  BY DEF IInv
<1> QED
  BY <1>1, Invariance, PTL

(* A Save that fails, a replaced ringtone and a crash between the two      *)
(* leave every saved alarm with a ringtone of its own.                     *)
THEOREM SavedHaveRingtones == Spec => []SavedHasRingtone
<1>1. IInv => SavedHasRingtone
  BY DEF IInv
<1> QED
  BY <1>1, Invariance, PTL

(***************************************************************************)
(* An alarm is claimed once for each minute and each snooze.               *)
(***************************************************************************)

LEMMA HalfMinutes ==
    ASSUME NEW u \in Nat
    PROVE  Minute(u) \in Nat /\ 2 * Minute(u) <= u /\ u < 2 * Minute(u) + 2
BY DEF Minute

LEMMA PartsOfAKey ==
    ASSUME NEW k \in Key
    PROVE  k[1] \in {"minute", "snooze"} /\ k[2] \in Nat /\ k = <<k[1], k[2]>>
BY DEF Key

LEMMA FiredLater ==
    ASSUME NEW a \in AlarmRecords, NEW keys \in SUBSET Key, NEW u \in Nat, NEW v \in Nat,
           u <= v, FiredOK(a, keys, u)
    PROVE  FiredOK(a, keys, v)
<1> SUFFICES ASSUME NEW k \in keys
             PROVE  /\ k[1] = "minute" =>
                         /\ 2 * k[2] <= v
                         /\ a.lastFire = k[2] \/ 2 * k[2] + 2 <= v
                         /\ a.snooze > 0 => 2 * k[2] + 2 <= a.snooze
                    /\ k[1] = "snooze" => k[2] <= v /\ (a.snooze > 0 => k[2] # a.snooze)
  BY DEF FiredOK
<1>1. k[2] \in Nat
  BY PartsOfAKey
<1> QED
  BY <1>1 DEF FiredOK

(* An alarm loses what is due when its snooze is set anew or forgotten.    *)
LEMMA FiredWithSnooze ==
    ASSUME NEW a \in AlarmRecords, NEW b \in AlarmRecords, NEW keys \in SUBSET Key,
           NEW u \in Nat, NEW v \in Nat, FiredOK(a, keys, u), u <= v,
           b.lastFire = a.lastFire, b.snooze = 0 \/ b.snooze >= v + 2
    PROVE  FiredOK(b, keys, u)
<1> SUFFICES ASSUME NEW k \in keys
             PROVE  /\ k[1] = "minute" =>
                         /\ 2 * k[2] <= u
                         /\ b.lastFire = k[2] \/ 2 * k[2] + 2 <= u
                         /\ b.snooze > 0 => 2 * k[2] + 2 <= b.snooze
                    /\ k[1] = "snooze" => k[2] <= u /\ (b.snooze > 0 => k[2] # b.snooze)
  BY DEF FiredOK
<1>1. k[2] \in Nat /\ b.snooze \in Nat
  BY PartsOfAKey DEF AlarmRecords
<1> QED
  BY <1>1 DEF FiredOK

(* What is due has not been claimed.                                       *)
LEMMA DueIsNew ==
    ASSUME NEW a \in AlarmRecords, NEW keys \in SUBSET Key, NEW u \in Nat,
           FiredOK(a, keys, u), Due(a, u)
    PROVE  KeyOf(a, u) \notin keys
<1>1. CASE Snoozing(a, u)
  <2>1. KeyOf(a, u) = <<"snooze", a.snooze>> /\ a.snooze > 0
    BY <1>1 DEF KeyOf, Snoozing
  <2>2. \A k \in keys : k[1] = "snooze" => k[2] # a.snooze
    BY <2>1 DEF FiredOK
  <2> QED
    BY <2>1, <2>2
<1>2. CASE ~Snoozing(a, u)
  <2> DEFINE m == Minute(u)
  <2>1. KeyOf(a, u) = <<"minute", m>> /\ a.lastFire # m
    BY <1>2 DEF KeyOf, Due
  <2>2. \A k \in keys : k[1] = "minute" /\ k[2] = m => 2 * m + 2 <= u
    BY <2>1 DEF FiredOK
  <2>3. m \in Nat /\ u < 2 * m + 2
    BY HalfMinutes
  <2> HIDE DEF m
  <2>4. ~(2 * m + 2 <= u)
    BY <2>3
  <2> QED
    BY <2>1, <2>2, <2>4
<1> QED
  BY <1>1, <1>2

LEMMA EarlierMinutes ==
    ASSUME NEW u \in Nat, NEW m \in Nat, NEW n \in Nat, u < 2 * m + 2, 2 * m <= u, 2 * n <= u
    PROVE  n = m \/ 2 * n + 2 <= u
<1>1. CASE n < m
  <2>1. n + 1 <= m
    BY <1>1
  <2> QED
    BY <2>1
<1>2. CASE n > m
  <2>1. n >= m + 1
    BY <1>2
  <2> QED
    BY <2>1
<1> QED
  BY <1>1, <1>2

(* A claim leaves the alarm fired for the key and all the earlier ones.    *)
LEMMA ClaimedIsFired ==
    ASSUME NEW a \in AlarmRecords, NEW keys \in SUBSET Key, NEW u \in Nat,
           FiredOK(a, keys, u), Due(a, u), NEW b \in AlarmRecords, b.snooze = 0,
           b.lastFire = IF KeyOf(a, u)[1] = "minute" THEN KeyOf(a, u)[2] ELSE 0
    PROVE  FiredOK(b, keys \cup {KeyOf(a, u)}, u)
<1> DEFINE key == KeyOf(a, u)
           m == Minute(u)
<1>1. m \in Nat /\ 2 * m <= u /\ u < 2 * m + 2 /\ a.snooze \in Nat
  BY HalfMinutes DEF AlarmRecords
<1>2. \/ Snoozing(a, u) /\ key = <<"snooze", a.snooze>> /\ a.snooze <= u /\ a.snooze > 0
      \/ key = <<"minute", m>> /\ b.lastFire = m
  BY DEF KeyOf, Due, Snoozing
<1> SUFFICES ASSUME NEW k \in keys \cup {key}
             PROVE  /\ k[1] = "minute" =>
                         2 * k[2] <= u /\ (b.lastFire = k[2] \/ 2 * k[2] + 2 <= u)
                    /\ k[1] = "snooze" => k[2] <= u
  BY DEF FiredOK
<1> HIDE DEF key, m
<1>3. CASE k = key
  <2>1. CASE k = <<"snooze", a.snooze>> /\ a.snooze <= u
    <3>1. k[1] = "snooze" /\ k[2] = a.snooze
      BY <2>1
    <3> QED
      BY <2>1, <3>1
  <2>2. CASE k = <<"minute", m>> /\ b.lastFire = m
    <3>1. k[1] = "minute" /\ k[2] = m
      BY <2>2
    <3> QED
      BY <1>1, <2>2, <3>1
  <2> QED
    BY <1>2, <1>3, <2>1, <2>2
<1>4. CASE k \in keys
  <2>1. k[2] \in Nat /\ (k[1] = "snooze" => k[2] <= u) /\ (k[1] = "minute" => 2 * k[2] <= u)
    BY <1>4, PartsOfAKey DEF FiredOK
  <2>2. ASSUME k[1] = "minute" PROVE b.lastFire = k[2] \/ 2 * k[2] + 2 <= u
    <3>1. CASE a.snooze <= u /\ a.snooze > 0
      BY <1>1, <1>4, <2>1, <2>2, <3>1 DEF FiredOK
    <3>2. CASE b.lastFire = m
      <4>1. k[2] \in Nat /\ 2 * k[2] <= u /\ (k[2] = m \/ k[2] < m \/ k[2] > m)
        BY <1>1, <2>1, <2>2
      <4>2. k[2] = m \/ 2 * k[2] + 2 <= u
        BY <1>1, <4>1, EarlierMinutes
      <4> QED
        BY <3>2, <4>2
    <3> QED
      BY <1>2, <3>1, <3>2
  <2> QED
    BY <2>1, <2>2
<1> QED
  BY <1>3, <1>4


LEMMA LoopFacts ==
    ASSUME IInv
    PROVE  /\ now \in Nat /\ loop \in LoopRecords /\ loop.at \in Nat
           /\ \A id \in Alarms : rung[id] \in SUBSET Key
           /\ \A id \in Alarms : alarms[id] # NoAlarm => alarms[id] \in AlarmRecords
           /\ edit # IdleEdit => edit \in EditRecords /\ edit.id \in Alarms
BY DEF IInv, TypeOK, LoopRecords, EditRecords

LEMMA FiresAreKept ==
    ASSUME IInv, FiresInv, UNCHANGED <<alarms, rung>>, edit' = edit \/ edit' = IdleEdit,
           loop'.at \in Nat, now' \in Nat, loop.at <= loop'.at, loop'.at <= now'
    PROVE  FiresInv'
<1>1. \A id \in Alarms : alarms[id] # NoAlarm => FiredOK(alarms[id], rung[id], loop'.at)
  BY LoopFacts, FiredLater DEF FiresInv
<1> QED
  BY <1>1 DEF FiresInv

LEMMA ClaimFires == ASSUME IInv, FiresInv, Claim PROVE FiresInv'
<1>1. PICK x \in loop.todo : ClaimOrSkip(x[1], x[2])
  BY DEF Claim
<1>2. /\ x \in Alarms \X Key /\ loop.at \in Nat /\ loop.at <= now /\ now \in Nat
      /\ loop \in LoopRecords
  BY LoopFacts DEF FiresInv, LoopRecords
<1> DEFINE id == x[1]
           key == x[2]
           fired == IF key[1] = "minute" THEN key[2] ELSE 0
           new == [alarms[id] EXCEPT !.lastFire = fired, !.snooze = 0]
<1>3. loop'.at = loop.at /\ UNCHANGED <<now, edit>>
  BY <1>1, <1>2 DEF Claim, ClaimOrSkip, LoopRecords
<1>4. CASE UNCHANGED <<alarms, rung>>
  BY <1>2, <1>3, <1>4, FiresAreKept
<1>5. CASE StillDue(id, key) /\ alarms' = [alarms EXCEPT ![id] = new]
           /\ rung' = [rung EXCEPT ![id] = @ \cup {key}]
  <2>1. alarms[id] \in AlarmRecords /\ id \in Alarms /\ fired \in Nat
    BY <1>2, <1>5, LoopFacts, PartsOfAKey DEF StillDue
  <2>2. new \in AlarmRecords /\ new.snooze = 0 /\ new.lastFire = fired /\ new # NoAlarm
    <3> HIDE DEF fired
    <3>1. new \in AlarmRecords /\ new.snooze = 0 /\ new.lastFire = fired
      BY <2>1 DEF AlarmRecords
    <3> QED
      BY <3>1, RecordsAssumption
  <2>3. alarms[id] # NoAlarm /\ KeyOf(alarms[id], loop.at) = key /\ Due(alarms[id], loop.at)
    BY <1>5 DEF StillDue
  <2>4. FiredOK(alarms[id], rung[id], loop.at) /\ rung[id] \in SUBSET Key
    BY <2>1, <2>3, LoopFacts DEF FiresInv
  <2>5. FiredOK(new, rung[id] \cup {key}, loop.at)
    <3>1. new.lastFire = IF KeyOf(alarms[id], loop.at)[1] = "minute"
                         THEN KeyOf(alarms[id], loop.at)[2] ELSE 0
      BY <2>2, <2>3
    <3> HIDE DEF new, key, id
    <3> QED
      BY <1>2, <2>1, <2>2, <2>3, <2>4, <3>1, ClaimedIsFired
  <2> HIDE DEF new, id, key
  <2>6. \A a \in Alarms : /\ alarms'[a] = IF a = id THEN new ELSE alarms[a]
                          /\ rung'[a] = IF a = id THEN rung[id] \cup {key} ELSE rung[a]
    BY <1>5, <2>1 DEF IInv, TypeOK
  <2>7. \A a \in Alarms : alarms'[a] # NoAlarm => FiredOK(alarms'[a], rung'[a], loop.at)
    BY <2>5, <2>6 DEF FiresInv
  <2>8. edit # IdleEdit => edit.new.snooze = 0
                           /\ (alarms'[edit.id] = NoAlarm => rung'[edit.id] = {})
    BY <2>2, <2>6, LoopFacts DEF FiresInv
  <2> QED
    BY <1>2, <1>3, <2>7, <2>8 DEF FiresInv
<1> QED
  BY <1>1, <1>4, <1>5 DEF ClaimOrSkip

LEMMA SnoozeFires == ASSUME IInv, FiresInv, NEW r \in Runs, StopEnds(r) PROVE FiresInv'
<1> DEFINE id == run[r].alarm
           until == IF run[r].snooze THEN now + SnoozeFor ELSE 0
           new == [alarms[id] EXCEPT !.snooze = until, !.enabled = @ \/ run[r].snooze]
<1>1. UNCHANGED <<now, loop, edit, rung>>
  BY DEF StopEnds
<1>2. loop.at \in Nat /\ now \in Nat /\ loop.at <= now
  BY LoopFacts DEF FiresInv
<1>3. CASE UNCHANGED alarms
  BY <1>1, <1>2, <1>3, FiresAreKept
<1>4. CASE alarms[id] # NoAlarm /\ alarms' = [alarms EXCEPT ![id] = new]
  <2>1. id \in Alarms
    BY DEF StopEnds, IInv, RunInv
  <2>2. alarms[id] \in AlarmRecords /\ run[r].snooze \in BOOLEAN
    BY <1>4, <2>1, LoopFacts DEF IInv, TypeOK, RunRecords
  <2>3. until \in Nat /\ (until = 0 \/ until >= now + 2)
    BY <1>2, TimeAssumption
  <2>4. new \in AlarmRecords /\ new.snooze = until /\ new.lastFire = alarms[id].lastFire
    <3> HIDE DEF until
    <3> QED
      BY <2>2, <2>3 DEF AlarmRecords
  <2>5. new # NoAlarm
    BY <2>4, RecordsAssumption
  <2>6. FiredOK(alarms[id], rung[id], loop.at) /\ rung[id] \in SUBSET Key
    BY <1>4, <2>1, LoopFacts DEF FiresInv
  <2>7. FiredOK(new, rung[id], loop.at)
    <3> HIDE DEF new, id, until
    <3> QED
      BY <1>2, <2>2, <2>3, <2>4, <2>6, FiredWithSnooze
  <2> HIDE DEF new, id
  <2>8. \A a \in Alarms : alarms'[a] = IF a = id THEN new ELSE alarms[a]
    BY <1>4, <2>1 DEF IInv, TypeOK
  <2>9. \A a \in Alarms : alarms'[a] # NoAlarm => FiredOK(alarms'[a], rung[a], loop.at)
    BY <2>7, <2>8 DEF FiresInv
  <2>10. edit # IdleEdit => edit.new.snooze = 0
                            /\ (alarms'[edit.id] = NoAlarm => rung[edit.id] = {})
    BY <2>5, <2>8, LoopFacts DEF FiresInv
  <2> QED
    BY <1>1, <1>2, <2>9, <2>10 DEF FiresInv
<1>5. id \in Alarms
  BY DEF StopEnds, IInv, RunInv
<1>6. [alarms EXCEPT ![id].snooze = until, ![id].enabled = @ \/ run[r].snooze]
        = [alarms EXCEPT ![id] = new]
  BY <1>5 DEF IInv, TypeOK
<1> QED
  BY <1>3, <1>4, <1>6 DEF StopEnds

LEMMA SaveFires == ASSUME IInv, FiresInv, SavePrepare \/ SaveEnd PROVE FiresInv'
<1>1. UNCHANGED <<now, loop, rung>>
  BY DEF SavePrepare, SaveEnd
<1>2. loop.at \in Nat /\ now \in Nat /\ loop.at <= now
  BY LoopFacts DEF FiresInv
<1>3. CASE UNCHANGED alarms /\ (edit' = edit \/ edit' = IdleEdit)
  BY <1>1, <1>2, <1>3, FiresAreKept
<1>4. edit # IdleEdit
  <2>1. edit.pc \in {"prepare", "commit"}
    BY DEF SavePrepare, SaveEnd
  <2> QED
    BY <2>1 DEF IdleEdit
<1>5. edit \in EditRecords /\ edit.id \in Alarms /\ edit.new.snooze = 0
  BY <1>4, LoopFacts DEF FiresInv
<1>6. ASSUME NEW x \in Audios, UNCHANGED alarms, edit' = [edit EXCEPT !.pc = "commit", !.new.audio = x]
      PROVE  FiresInv'
  <2>1. edit'.id = edit.id /\ edit'.new.snooze = 0
    BY <1>5, <1>6 DEF EditRecords, AlarmRecords
  <2> QED
    BY <1>1, <1>2, <1>4, <1>6, <2>1 DEF FiresInv
<1>7. CASE SavePrepare
  BY <1>3, <1>6, <1>7 DEF SavePrepare, ReleaseImporting
<1>8. CASE edit' = IdleEdit /\ alarms' = [alarms EXCEPT
                                  ![edit.id] = [edit.new EXCEPT !.lastFire = LastFire(edit.id)]]
  <2> DEFINE id == edit.id
             last == LastFire(id)
             new == [edit.new EXCEPT !.lastFire = last]
  <2>1. edit.new \in AlarmRecords /\ last \in Nat
    BY <1>5, LoopFacts DEF EditRecords, LastFire, AlarmRecords
  <2>2. new \in AlarmRecords /\ new.snooze = 0 /\ new.lastFire = last
    <3> HIDE DEF last
    <3> QED
      BY <1>5, <2>1 DEF AlarmRecords
  <2>3. FiredOK(new, rung[id], loop.at)
    <3>1. CASE alarms[id] = NoAlarm
      <4>1. rung[id] = {}
        BY <1>4, <3>1 DEF FiresInv
      <4> QED
        BY <4>1 DEF FiredOK
    <3>2. CASE alarms[id] # NoAlarm
      <4>1. /\ last = alarms[id].lastFire /\ alarms[id] \in AlarmRecords
            /\ FiredOK(alarms[id], rung[id], loop.at) /\ rung[id] \in SUBSET Key
        BY <1>5, <3>2, LoopFacts DEF LastFire, FiresInv
      <4> HIDE DEF new, id, last
      <4> QED
        BY <1>2, <2>2, <4>1, FiredWithSnooze
    <3> QED
      BY <3>1, <3>2
  <2> HIDE DEF new
  <2>4. \A a \in Alarms : alarms'[a] = IF a = id THEN new ELSE alarms[a]
    BY <1>5, <1>8 DEF IInv, TypeOK, new
  <2>5. \A a \in Alarms : alarms'[a] # NoAlarm => FiredOK(alarms'[a], rung[a], loop.at)
    BY <2>3, <2>4 DEF FiresInv
  <2> QED
    BY <1>1, <1>2, <1>8, <2>5 DEF FiresInv
<1>9. CASE SaveEnd
  BY <1>3, <1>8, <1>9 DEF SaveEnd
<1> QED
  BY <1>7, <1>9

LEMMA EditFires ==
    ASSUME IInv, FiresInv, Import \/ \E id \in Alarms : SaveBegin(id) \/ Delete(id)
    PROVE  FiresInv'
<1>1. UNCHANGED <<now, loop>> /\ loop.at <= now
  BY DEF Import, SaveBegin, Delete, FiresInv
<1>2. ASSUME NEW id \in Alarms, SaveBegin(id) PROVE FiresInv'
  <2>1. edit'.id = id /\ edit'.new.snooze = 0 /\ UNCHANGED <<alarms, rung>>
    BY <1>2 DEF SaveBegin, store
  <2>2. alarms[id] = NoAlarm => rung[id] = {}
    BY <1>2 DEF SaveBegin
  <2> QED
    BY <1>1, <2>1, <2>2 DEF FiresInv
<1>3. ASSUME NEW id \in Alarms, Delete(id) PROVE FiresInv'
  <2>1. edit = IdleEdit /\ UNCHANGED <<edit, rung>>
    BY <1>3 DEF Delete, NotImporting, IInv, TypeOK, EditRecords
  <2>2. \A a \in Alarms : alarms'[a] = alarms[a] \/ alarms'[a] = NoAlarm
    BY <1>3 DEF Delete, IInv, TypeOK
  <2> QED
    BY <1>1, <2>1, <2>2 DEF FiresInv
<1>4. CASE Import
  <2>1. edit = IdleEdit /\ UNCHANGED edit /\ rung' = [a \in Alarms |-> {}]
    BY <1>4 DEF Import, NotImporting, IInv, TypeOK, EditRecords
  <2> QED
    BY <1>1, <2>1 DEF FiresInv, FiredOK
<1> QED
  BY <1>2, <1>3, <1>4

LEMMA OthersFire ==
    ASSUME IInv, FiresInv,
           \/ Scan \/ StartClaimed \/ ShutdownStops \/ Tick \/ Shutdown \/ Restart
           \/ \E r \in Runs : Ring(r) \/ StopAsk(r) \/ StopBegin(r) \/ StopWire(r)
           \/ \E id \in Alarms : Test(id) \/ Stop(id)
           \/ \E s \in Speakers : Cast(s) \/ Silence(s) \/ Replace(s)
           \/ UNCHANGED vars
    PROVE  FiresInv'
<1>1. loop.at \in Nat /\ now \in Nat /\ loop.at <= now /\ loop \in LoopRecords
  BY LoopFacts DEF FiresInv
<1> USE DEF store, engine
<1>2. CASE Scan
  BY <1>1, <1>2, FiresAreKept DEF Scan
<1>3. CASE StartClaimed
  <2>1. loop'.at = loop.at
    BY <1>1, <1>3 DEF StartClaimed, LoopRecords
  <2> QED
    BY <1>1, <1>3, <2>1, FiresAreKept DEF StartClaimed
<1>4. CASE ShutdownStops
  BY <1>1, <1>4, FiresAreKept DEF ShutdownStops
<1>5. CASE Tick
  BY <1>1, <1>5, FiresAreKept DEF Tick
<1>6. CASE Shutdown
  BY <1>1, <1>6, FiresAreKept DEF Shutdown
<1>7. CASE Restart
  <2>1. loop' = IdleLoop(now) /\ edit' = IdleEdit /\ UNCHANGED <<now, alarms, rung>>
    BY <1>7 DEF Restart
  <2>2. loop'.at = now
    BY <2>1 DEF IdleLoop
  <2> QED
    BY <1>1, <2>1, <2>2, FiresAreKept
<1>8. ASSUME NEW r \in Runs, Ring(r) \/ StopAsk(r) \/ StopBegin(r) \/ StopWire(r)
      PROVE  FiresInv'
  <2>1. UNCHANGED <<now, loop, edit, alarms, rung>>
    BY <1>8 DEF Ring, PlaySetURI, PlayBegin, PlayWire, PlayResult, WatchEnds, WatchDeadline,
                DeadlineStops, StopAsk, StopBegin, StopWire
  <2> QED
    BY <1>1, <2>1, FiresAreKept
<1>9. ASSUME NEW id \in Alarms, Test(id) \/ Stop(id) PROVE FiresInv'
  BY <1>1, <1>9, FiresAreKept DEF Test, Stop
<1>10. ASSUME NEW s \in Speakers, Cast(s) \/ Silence(s) \/ Replace(s) PROVE FiresInv'
  BY <1>1, <1>10, FiresAreKept DEF Cast, Silence, Replace
<1>11. CASE UNCHANGED vars
  BY <1>1, <1>11, FiresAreKept DEF vars
<1> QED
  BY <1>2, <1>3, <1>4, <1>5, <1>6, <1>7, <1>8, <1>9, <1>10, <1>11

LEMMA StepFires == ASSUME IInv, FiresInv, [Next]_vars PROVE FiresInv'
<1>1. CASE Schedule
  BY <1>1, ClaimFires, OthersFire DEF Schedule
<1>2. CASE \E r \in Runs : Ring(r) \/ Silencing(r)
  BY <1>2, SnoozeFires, OthersFire DEF Silencing
<1>3. CASE Users
  BY <1>3, SaveFires, EditFires, OthersFire DEF Users
<1>4. CASE World
  BY <1>4, OthersFire DEF World
<1> QED
  BY <1>1, <1>2, <1>3, <1>4, OthersFire DEF Next

ClaimsANewKey ==
    \A x \in loop.todo \ loop'.todo :
        loop.claimed = NoAlarm /\ loop'.claimed = x[1] => x[2] \notin rung[x[1]]

(* A step that takes an alarm from the list and claims it claims a key     *)
(* that was not.                                                           *)
LEMMA StepClaims == ASSUME IInv, FiresInv, [Next]_vars PROVE ClaimsANewKey
<1> SUFFICES ASSUME NEW x \in loop.todo \ loop'.todo, loop.claimed = NoAlarm,
                    loop'.claimed = x[1]
             PROVE  x[2] \notin rung[x[1]]
  BY DEF ClaimsANewKey
<1>1. x \in Alarms \X Key /\ loop \in LoopRecords /\ loop.at \in Nat /\ x[1] # NoAlarm
  BY LoopFacts, RecordsAssumption DEF LoopRecords
<1>2. CASE Claim
  <2>1. PICK y \in loop.todo : ClaimOrSkip(y[1], y[2])
    BY <1>2 DEF Claim
  <2>2. y \in Alarms \X Key /\ y = <<y[1], y[2]>>
    BY <1>1 DEF LoopRecords
  <2>3. loop'.todo = loop.todo \ {y}
    BY <1>1, <2>1, <2>2 DEF ClaimOrSkip, LoopRecords
  <2>4. x = y
    BY <2>3
  <2>5. CASE StillDue(y[1], y[2])
    <3>1. /\ alarms[x[1]] # NoAlarm /\ Due(alarms[x[1]], loop.at)
          /\ KeyOf(alarms[x[1]], loop.at) = x[2]
      BY <2>4, <2>5 DEF StillDue
    <3>2. /\ alarms[x[1]] \in AlarmRecords /\ rung[x[1]] \in SUBSET Key
          /\ FiredOK(alarms[x[1]], rung[x[1]], loop.at)
      BY <1>1, <3>1, LoopFacts DEF FiresInv
    <3> QED
      BY <1>1, <3>1, <3>2, DueIsNew
  <2>6. CASE loop' = [loop EXCEPT !.todo = @ \ {y}]
    BY <1>1, <2>6 DEF LoopRecords
  <2> QED
    BY <2>1, <2>2, <2>5, <2>6 DEF ClaimOrSkip
<1>3. CASE Scan \/ Restart
  <2>1. Scan => loop.todo = {}
    BY DEF Scan
  <2>2. Restart => loop' = IdleLoop(now)
    BY DEF Restart
  <2>3. Restart => loop'.claimed = NoAlarm
    BY <2>2 DEF IdleLoop
  <2> QED
    BY <1>1, <1>3, <2>1, <2>3
<1>4. CASE StartClaimed
  BY <1>1, <1>4 DEF StartClaimed, LoopRecords
<1>5. CASE UNCHANGED loop
  BY <1>5
<1>6. ASSUME NEW r \in Runs, Ring(r) \/ Silencing(r) PROVE UNCHANGED loop
  BY <1>6 DEF Ring, PlaySetURI, PlayBegin, PlayWire, PlayResult, WatchEnds, WatchDeadline,
              DeadlineStops, Silencing, StopAsk, StopBegin, StopWire, StopEnds
<1>7. Users => UNCHANGED loop
  BY DEF Users, Test, Stop, SaveBegin, Delete, SavePrepare, SaveEnd, Import
<1>8. ShutdownStops \/ Tick \/ Shutdown => UNCHANGED loop
  BY DEF ShutdownStops, Tick, Shutdown
<1>9. ASSUME NEW s \in Speakers, Cast(s) \/ Silence(s) \/ Replace(s) PROVE UNCHANGED loop
  BY <1>9 DEF Cast, Silence, Replace
<1> QED
  BY <1>2, <1>3, <1>4, <1>5, <1>6, <1>7, <1>8, <1>9 DEF Next, Schedule, World, vars

LEMMA BeginFires == Init => FiresInv
BY DEF Init, IdleLoop, FiresInv

(* An alarm is claimed at most once for each minute and each snooze it is  *)
(* due at: by the time another claim is made, lastFire, the snooze and the *)
(* clock rule out every key that was claimed before (alarms.go, claim).    *)
THEOREM ClaimedOnce == Spec => FiresOnce
<1>1. Init => IInv /\ FiresInv
  BY Begin, BeginFires
<1>2. IInv /\ FiresInv /\ [Next]_vars => IInv' /\ FiresInv'
  BY Step, StepFires
<1>3. IInv /\ FiresInv /\ [Next]_vars => [ClaimsANewKey]_vars
  BY StepClaims
<1>4. FiresOnce <=> [][ClaimsANewKey]_vars
  BY DEF FiresOnce, ClaimsANewKey
<1> QED
  BY <1>1, <1>2, <1>3, <1>4, PTL DEF Spec

(***************************************************************************)
(* An alarm that was stopped stays silent.                                 *)
(***************************************************************************)

Before(q) == q.play \in {"none", "setURI"}

(* A run is no nearer to sounding, or to have been stopped, than it was.   *)
Calm(q, new) ==
    /\ new.speaker = q.speaker
    /\ new.rend = "open" => q.rend = "open"
    /\ new.silenced => q.silenced
    /\ new.stop \in {"ok", "wire"} => new.stop = q.stop
    /\ new.play = "wire" => q.play = "wire"
    /\ Before(new) <=> Before(q)
    /\ new.live => q.live /\ (new.state = "stopping" => q.state = "stopping")
    /\ new.state = "unused" =>
         q.state = "unused" /\ new.play = q.play /\ new.stop = q.stop

CalmDevice(r) ==
    /\ yielded \subseteq yielded'
    /\ \A s \in Speakers : sounding'[s] = r => sounding[s] = r
    /\ held'[run[r].speaker] # r =>
         \/ held[run[r].speaker] # r \/ r \in yielded'
         \/ run'[r].rend # "open" \/ Before(run'[r])

LEMMA CalmIsQuiet ==
    ASSUME NEW r \in Runs, run[r].speaker \in Speakers, QuietInv(r),
           Calm(run[r], run'[r]), CalmDevice(r)
    PROVE  QuietInv(r)'
BY DEF QuietInv, Calm, CalmDevice, Before

LEMMA NothingIsCalm == ASSUME NEW q PROVE Calm(q, q)
BY DEF Calm

(* The steps of play and Stop and the world that are calm for a run.       *)
LEMMA CalmKinds ==
    ASSUME NEW q \in RunRecords, q.state # "unused"
    PROVE  /\ \A x \in PlayPCs \ {"none", "setURI", "wire"} :
                q.play \notin {"none", "setURI"} => Calm(q, [q EXCEPT !.play = x])
           /\ \A x \in {"queued", "err"} : Calm(q, [q EXCEPT !.stop = x])
           /\ \A x \in Renderers \ {"open"} : Calm(q, [q EXCEPT !.rend = x])
           /\ Calm(q, [q EXCEPT !.live = FALSE])
           /\ Calm(q, StopFailed(q))
           /\ \A snooze \in BOOLEAN : Calm(q, Stopping(q, snooze))
           /\ q.play \notin {"none", "setURI"} =>
                /\ Calm(q, [q EXCEPT !.play = "watch", !.state = "ringing"])
                /\ \A x \in {"failed", "ended"} :
                     Calm(q, [q EXCEPT !.play = "done", !.state = x, !.live = FALSE])
                /\ \A snooze \in BOOLEAN :
                     Calm(q, Stopping([q EXCEPT !.play = "done"], snooze))
<1>1. \A x \in PlayPCs \ {"none", "setURI", "wire"} :
        q.play \notin {"none", "setURI"} => Calm(q, [q EXCEPT !.play = x])
  BY DEF Calm, Before, RunRecords
<1>2. \A x \in {"queued", "err"} : Calm(q, [q EXCEPT !.stop = x])
  BY DEF Calm, Before, RunRecords
<1>3. \A x \in Renderers \ {"open"} : Calm(q, [q EXCEPT !.rend = x])
  BY DEF Calm, Before, RunRecords
<1>4. Calm(q, [q EXCEPT !.live = FALSE])
  BY DEF Calm, Before, RunRecords
<1>5. Calm(q, StopFailed(q)) /\ \A snooze \in BOOLEAN : Calm(q, Stopping(q, snooze))
  BY DEF Calm, Before, RunRecords, StopFailed, Stopping
<1>6. ASSUME q.play \notin {"none", "setURI"}
      PROVE  /\ Calm(q, [q EXCEPT !.play = "watch", !.state = "ringing"])
             /\ \A x \in {"failed", "ended"} :
                  Calm(q, [q EXCEPT !.play = "done", !.state = x, !.live = FALSE])
  BY <1>6 DEF Calm, Before, RunRecords
<1>7. ASSUME q.play \notin {"none", "setURI"}, NEW snooze \in BOOLEAN
      PROVE  Calm(q, Stopping([q EXCEPT !.play = "done"], snooze))
  BY <1>7 DEF Calm, Before, RunRecords, Stopping
<1> QED
  BY <1>1, <1>2, <1>3, <1>4, <1>5, <1>6, <1>7

LEMMA RunFacts ==
    ASSUME IInv, NEW r \in Runs
    PROVE  /\ run[r] \in RunRecords /\ run[r].speaker \in Speakers
           /\ run[r].stop # "none" => run[r].state = "stopping"
           /\ run \in [Runs -> RunRecords]
BY DEF IInv, TypeOK, RunInv, RunRecords

(* A step of one run, or of nobody, that leaves the speakers alone.        *)
LEMMA QuietStep ==
    ASSUME IInv, SilenceInv, NEW r \in Runs, \A i \in Runs \ {r} : run'[i] = run[i],
           \A i \in Runs \ {r} : CalmDevice(i),
           QuietInv(r)' \/ (Calm(run[r], run'[r]) /\ CalmDevice(r))
    PROVE  SilenceInv'
<1> SUFFICES ASSUME NEW i \in Runs PROVE QuietInv(i)'
  BY DEF SilenceInv
<1>1. QuietInv(i) /\ run[i].speaker \in Speakers
  BY RunFacts DEF SilenceInv
<1>2. CASE i = r
  BY <1>1, <1>2, CalmIsQuiet
<1>3. CASE i # r
  <2>1. Calm(run[i], run'[i]) /\ CalmDevice(i)
    BY <1>3, NothingIsCalm
  <2> QED
    BY <1>1, <2>1, CalmIsQuiet
<1> QED
  BY <1>2, <1>3

LEMMA SameDevice ==
    ASSUME NEW r \in Runs, UNCHANGED <<held, sounding, yielded>>
    PROVE  CalmDevice(r)
BY DEF CalmDevice

LEMMA HoldsQuietly ==
    ASSUME IInv, NEW s \in Speakers, NEW who \in Runs \cup {Other}, NEW what, Hold(s, who, what),
           NEW r \in Runs, r # who, \A t \in Speakers : sounding'[t] = r => sounding[t] = r
    PROVE  CalmDevice(r)
BY RunFacts DEF Hold, CalmDevice, IInv, TypeOK


LEMMA RingsQuietly == ASSUME IInv, SilenceInv, NEW r \in Runs, Ring(r) PROVE SilenceInv'
<1> DEFINE q == run[r]
           s == run[r].speaker
<1>1. /\ q \in RunRecords /\ s \in Speakers /\ (q.stop # "none" => q.state = "stopping")
      /\ QuietInv(r) /\ run \in [Runs -> RunRecords]
  BY RunFacts DEF SilenceInv
<1>2. q.play \notin {"none"} /\ q.state # "unused"
  BY <1>1 DEF QuietInv, Ring, PlaySetURI, PlayBegin, PlayWire, PlayResult, WatchEnds,
              WatchDeadline, DeadlineStops
<1>3. CASE PlaySetURI(r)
  <2>1. \A i \in Runs \ {r} : run'[i] = run[i]
    BY <1>1, <1>3 DEF PlaySetURI, Play
  <2>2. /\ run'[r].speaker = s /\ run'[r].play \in {"queued", "err"} /\ run'[r].state = q.state
        /\ run'[r].stop = q.stop /\ run'[r].silenced = q.silenced /\ run'[r].live = q.live
        /\ run'[r].rend = "open" => q.rend = "open" /\ held'[s] = r
    <3>1. CASE q.rend = "open"
      <4>1. Hold(s, r, "play") /\ (Play(r, "queued") \/ Play(r, "err"))
        BY <1>3, <3>1 DEF PlaySetURI
      <4>2. held'[s] = r
        BY <1>1, <4>1 DEF Hold, IInv, TypeOK
      <4> QED
        BY <1>1, <3>1, <4>1, <4>2 DEF Play, RunRecords
    <3>2. CASE q.rend # "open"
      <4>1. run' = [run EXCEPT ![r].play = "err", ![r].rend = "holding"]
        BY <1>3, <3>2 DEF PlaySetURI
      <4> QED
        BY <1>1, <4>1 DEF RunRecords
    <3> QED
      BY <3>1, <3>2
  <2>3. sounding' = sounding /\ \A t \in Speakers : sounding[t] # r
    BY <1>1, <1>3 DEF PlaySetURI, QuietInv
  <2>4. QuietInv(r)'
    BY <1>1, <1>2, <2>2, <2>3 DEF QuietInv
  <2>5. \A i \in Runs \ {r} : CalmDevice(i)
    <3>1. Hold(s, r, "play") => \A i \in Runs \ {r} : CalmDevice(i)
      BY <1>1, <2>3, HoldsQuietly
    <3>2. UNCHANGED <<held, yielded>> => \A i \in Runs \ {r} : CalmDevice(i)
      BY <2>3, SameDevice
    <3> QED
      BY <1>3, <3>1, <3>2 DEF PlaySetURI
  <2> QED
    BY <2>1, <2>4, <2>5, QuietStep
<1>4. CASE PlayBegin(r)
  <2>1. UNCHANGED <<held, sounding, yielded>> /\ \A i \in Runs \ {r} : run'[i] = run[i]
    BY <1>1, <1>4 DEF PlayBegin, Play, device
  <2>2. CASE Play(r, "err")
    <3>1. run'[r] = [q EXCEPT !.play = "err"]
      BY <1>1, <2>2 DEF Play
    <3>2. q.play = "queued" /\ "err" \in PlayPCs \ {"none", "setURI", "wire"}
      BY <1>4 DEF PlayBegin, PlayPCs
    <3>3. Calm(q, [q EXCEPT !.play = "err"])
      BY <1>1, <1>2, <3>2, CalmKinds
    <3> QED
      BY <2>1, <3>1, <3>3, SameDevice, QuietStep
  <2>3. CASE q.live /\ Play(r, "wire")
    <3>1. run'[r] = [q EXCEPT !.play = "wire"]
      BY <1>1, <2>3 DEF Play
    <3>2. q.stop = "none" /\ ~q.silenced /\ q.state # "stopping" /\ q.play = "queued"
      BY <1>1, <1>4, <2>3 DEF QuietInv, PlayBegin
    <3>3. QuietInv(r)'
      BY <1>1, <1>2, <2>1, <3>1, <3>2 DEF QuietInv, RunRecords
    <3> QED
      BY <2>1, <3>3, SameDevice, QuietStep
  <2> QED
    BY <1>4, <2>2, <2>3 DEF PlayBegin
<1>5. CASE PlayWire(r)
  <2>1. UNCHANGED <<held, yielded>> /\ (\A i \in Runs \ {r} : run'[i] = run[i]) /\ q.play = "wire"
    BY <1>1, <1>5 DEF PlayWire, Play
  <2>2. PICK x \in {"ok", "err"} : Play(r, x)
    BY <1>5 DEF PlayWire
  <2>3. run'[r] = [q EXCEPT !.play = x]
    BY <1>1, <2>2 DEF Play
  <2>4. QuietInv(r)'
    BY <1>1, <1>2, <2>1, <2>3 DEF QuietInv, RunRecords
  <2>5. \A i \in Runs \ {r} : \A t \in Speakers : sounding'[t] = i => sounding[t] = i
    BY <1>1, <1>5 DEF PlayWire, IInv, TypeOK
  <2>6. \A i \in Runs \ {r} : CalmDevice(i)
    BY <2>1, <2>5 DEF CalmDevice
  <2> QED
    BY <2>1, <2>4, <2>6, QuietStep
<1>6. ASSUME NEW new, run' = [run EXCEPT ![r] = new], Calm(q, new),
             UNCHANGED <<held, sounding, yielded>>
      PROVE  SilenceInv'
  <2>1. run'[r] = new /\ \A i \in Runs \ {r} : run'[i] = run[i]
    BY <1>1, <1>6
  <2> QED
    BY <1>6, <2>1, SameDevice, QuietStep
<1>7. CASE PlayResult(r)
  <2>1. UNCHANGED <<held, sounding, yielded>> /\ q.play \in {"ok", "err"}
    BY <1>7 DEF PlayResult, device
  <2>2. CASE run' = [run EXCEPT ![r] = [q EXCEPT !.play = "done"]]
    BY <1>1, <1>2, <1>6, <2>1, <2>2, CalmKinds DEF PlayPCs
  <2>3. CASE run' = [run EXCEPT ![r] = [q EXCEPT !.play = "watch", !.state = "ringing"]]
    BY <1>1, <1>2, <1>6, <2>1, <2>3, CalmKinds
  <2>4. CASE run' = [run EXCEPT
                       ![r] = [q EXCEPT !.play = "done", !.state = "failed", !.live = FALSE]]
    BY <1>1, <1>2, <1>6, <2>1, <2>4, CalmKinds
  <2> QED
    BY <1>1, <1>7, <2>2, <2>3, <2>4 DEF PlayResult
<1>8. CASE WatchEnds(r) \/ WatchDeadline(r)
  <2>1. UNCHANGED <<held, sounding, yielded>> /\ q.play = "watch"
    BY <1>8 DEF WatchEnds, WatchDeadline, device
  <2>2. CASE \E x \in {"done", "deadline"} : run' = [run EXCEPT ![r] = [q EXCEPT !.play = x]]
    BY <1>1, <1>2, <1>6, <2>1, <2>2, CalmKinds DEF PlayPCs
  <2>3. CASE run' = [run EXCEPT
                       ![r] = [q EXCEPT !.play = "done", !.state = "ended", !.live = FALSE]]
    BY <1>1, <1>2, <1>6, <2>1, <2>3, CalmKinds
  <2> QED
    BY <1>1, <1>8, <2>2, <2>3 DEF WatchEnds, WatchDeadline, Play
<1>9. CASE DeadlineStops(r)
  <2> DEFINE id == run[r].alarm
             over == [q EXCEPT !.play = "done"]
             i == current[id]
  <2>1. UNCHANGED <<held, sounding, yielded>> /\ q.play = "deadline" /\ id \in Alarms
    BY <1>9 DEF DeadlineStops, device, IInv, RunInv
  <2>2. Calm(q, over)
    BY <1>1, <1>2, <2>1, CalmKinds DEF PlayPCs
  <2>3. [run EXCEPT ![r].play = "done"] = [run EXCEPT ![r] = over]
    BY <1>1
  <2>4. CASE ~Stoppable(id)
    BY <1>6, <1>9, <2>1, <2>2, <2>3, <2>4 DEF DeadlineStops
  <2>5. CASE Stoppable(id)
    <3>1. i \in Runs /\ run[i] \in RunRecords /\ run[i].state # "unused"
      BY <2>1, <2>5, RunFacts DEF Stoppable, IInv, TypeOK
    <3>2. run' = [[run EXCEPT ![r] = over] EXCEPT
                    ![i] = Stopping([run EXCEPT ![r] = over][i], FALSE)]
      BY <1>1, <1>9, <2>3, <2>5, <3>1 DEF DeadlineStops
    <3>3. CASE i = r
      <4>1. run' = [run EXCEPT ![r] = Stopping(over, FALSE)]
        BY <1>1, <3>1, <3>2, <3>3
      <4>2. Calm(q, Stopping(over, FALSE))
        BY <1>1, <1>2, <2>1, CalmKinds
      <4> QED
        BY <1>6, <2>1, <4>1, <4>2
    <3>4. CASE i # r
      <4>1. \A k \in Runs : run'[k] = IF k = i THEN Stopping(run[i], FALSE)
                                      ELSE IF k = r THEN over ELSE run[k]
        BY <1>1, <3>1, <3>2, <3>4
      <4>2. Calm(run[i], Stopping(run[i], FALSE))
        BY <3>1, CalmKinds
      <4>3. \A k \in Runs : Calm(run[k], run'[k]) /\ CalmDevice(k)
        BY <2>1, <2>2, <4>1, <4>2, NothingIsCalm, SameDevice
      <4>4. \A k \in Runs : run[k].speaker \in Speakers /\ QuietInv(k)
        BY RunFacts DEF SilenceInv
      <4> QED
        BY <4>3, <4>4, CalmIsQuiet DEF SilenceInv
    <3> QED
      BY <3>3, <3>4
  <2> QED
    BY <2>4, <2>5
<1> QED
  BY <1>3, <1>4, <1>5, <1>7, <1>8, <1>9 DEF Ring

LEMMA SilencesQuietly ==
    ASSUME IInv, SilenceInv, NEW r \in Runs, Silencing(r)
    PROVE  SilenceInv'
<1> DEFINE q == run[r]
           s == run[r].speaker
<1>1. /\ q \in RunRecords /\ s \in Speakers /\ (q.stop # "none" => q.state = "stopping")
      /\ QuietInv(r) /\ run \in [Runs -> RunRecords]
  BY RunFacts DEF SilenceInv
<1>2. q.stop # "none" /\ q.state = "stopping" /\ ~q.live
  BY <1>1 DEF QuietInv, Silencing, StopAsk, StopBegin, StopWire, StopEnds
<1>3. ASSUME NEW x \in {"queued", "err"}, StopAt(r, x), UNCHANGED <<held, yielded>>,
             \A t \in Speakers : sounding'[t] = sounding[t] \/ sounding'[t] = NoRun
      PROVE  SilenceInv'
  <2>1. run'[r] = [q EXCEPT !.stop = x] /\ \A i \in Runs \ {r} : run'[i] = run[i]
    BY <1>1, <1>3 DEF StopAt
  <2>2. Calm(q, [q EXCEPT !.stop = x])
    BY <1>1, <1>2, CalmKinds
  <2>3. \A i \in Runs : CalmDevice(i)
    BY <1>3, NamesAssumption DEF CalmDevice
  <2> QED
    BY <2>1, <2>2, <2>3, QuietStep
<1>4. ASSUME StopAt(r, "ok"), UNCHANGED <<held, yielded>>,
             \A t \in Speakers : sounding'[t] = sounding[t] \/ sounding'[t] = NoRun,
             q.rend = "open" /\ r \notin yielded => q.play # "wire" /\ sounding'[s] # r
      PROVE  SilenceInv'
  <2>1. run'[r] = [q EXCEPT !.stop = "ok"] /\ \A i \in Runs \ {r} : run'[i] = run[i]
    BY <1>1, <1>4 DEF StopAt
  <2>2. \A i \in Runs : CalmDevice(i)
    BY <1>4, NamesAssumption DEF CalmDevice
  <2>3. QuietInv(r)'
    BY <1>1, <1>2, <1>4, <2>1, NamesAssumption DEF QuietInv, RunRecords
  <2> QED
    BY <2>1, <2>2, <2>3, QuietStep
<1>5. CASE StopAsk(r)
  <2>1. UNCHANGED <<held, sounding, yielded>>
    BY <1>5 DEF StopAsk
  <2>2. CASE StopAt(r, "queued") \/ StopAt(r, "err")
    BY <1>3, <2>1, <2>2
  <2>3. CASE (q.rend = "open" => held[s] # r) /\ StopAt(r, "ok")
    <3>1. q.rend = "open" /\ r \notin yielded => q.play # "wire" /\ sounding[s] # r
      BY <1>1, <2>3 DEF QuietInv
    <3> QED
      BY <1>4, <2>1, <2>3, <3>1
  <2> QED
    BY <1>5, <2>2, <2>3 DEF StopAsk
<1>6. CASE StopBegin(r)
  <2>1. UNCHANGED <<held, sounding, yielded>>
    BY <1>6 DEF StopBegin, device
  <2>2. CASE StopAt(r, "err")
    BY <1>3, <2>1, <2>2
  <2>3. CASE ~Gone(r) /\ StopAt(r, "wire")
    <3>1. run'[r] = [q EXCEPT !.stop = "wire"] /\ \A i \in Runs \ {r} : run'[i] = run[i]
      BY <1>1, <2>3 DEF StopAt
    <3>2. q.stop = "queued" /\ q.play # "wire"
      BY <1>6, <2>3 DEF StopBegin, Gone, OpMuFree
    <3>3. QuietInv(r)'
      BY <1>1, <1>2, <2>1, <3>1, <3>2 DEF QuietInv, RunRecords
    <3> QED
      BY <2>1, <3>1, <3>3, SameDevice, QuietStep
  <2> QED
    BY <1>6, <2>2, <2>3 DEF StopBegin
<1>7. CASE StopWire(r)
  <2>1. UNCHANGED <<held, yielded>> /\ q.stop = "wire"
    BY <1>7 DEF StopWire
  <2>2. \A t \in Speakers : sounding'[t] = sounding[t] \/ sounding'[t] = NoRun
    BY <1>7 DEF StopWire, IInv, TypeOK
  <2>3. CASE StopAt(r, "err")
    BY <1>3, <2>1, <2>2, <2>3
  <2>4. CASE StopAt(r, "ok") /\ sounding' = [sounding EXCEPT ![s] = NoRun]
    <3>1. sounding'[s] # r
      BY <1>1, <2>4, NamesAssumption DEF IInv, TypeOK
    <3>2. q.rend = "open" => q.play # "wire"
      BY <1>1, <2>1 DEF QuietInv
    <3> QED
      BY <1>4, <2>1, <2>2, <2>4, <3>1, <3>2
  <2> QED
    BY <1>7, <2>3, <2>4 DEF StopWire
<1>8. CASE StopEnds(r)
  <2>1. UNCHANGED <<held, sounding, yielded>>
    BY <1>8 DEF StopEnds, device
  <2>2. CASE run' = [run EXCEPT ![r] = StopFailed(q)]
    <3>1. run'[r] = StopFailed(q) /\ \A i \in Runs \ {r} : run'[i] = run[i]
      BY <1>1, <2>2
    <3>2. Calm(q, StopFailed(q))
      BY <1>1, <1>2, CalmKinds
    <3> QED
      BY <2>1, <3>1, <3>2, SameDevice, QuietStep
  <2>3. CASE q.stop = "ok" /\ run' = [run EXCEPT ![r].stop = "none", ![r].state = "ended",
                                                 ![r].silenced = TRUE]
    <3>1. /\ run'[r] = [q EXCEPT !.stop = "none", !.state = "ended", !.silenced = TRUE]
          /\ \A i \in Runs \ {r} : run'[i] = run[i]
      BY <1>1, <2>3
    <3>2. QuietInv(r)'
      BY <1>1, <1>2, <2>1, <2>3, <3>1 DEF QuietInv, RunRecords
    <3> QED
      BY <2>1, <3>1, <3>2, SameDevice, QuietStep
  <2> QED
    BY <1>1, <1>8, <2>2, <2>3 DEF StopEnds
<1> QED
  BY <1>5, <1>6, <1>7, <1>8 DEF Silencing

LEMMA StartsQuietly ==
    ASSUME IInv, SilenceInv, NEW id \in Alarms, NEW r \in Runs, StartRun(id, r),
           UNCHANGED device
    PROVE  SilenceInv'
<1>1. QuietInv(r) /\ run[r].state = "unused" /\ run \in [Runs -> RunRecords]
  BY RunFacts DEF SilenceInv, StartRun
<1>2. UNCHANGED <<held, sounding, yielded>>
  BY DEF device
<1>3. /\ run'[r].state = "starting" /\ run'[r].play = "setURI" /\ run'[r].stop = "none"
      /\ run'[r].silenced = FALSE /\ \A i \in Runs \ {r} : run'[i] = run[i]
  BY <1>1 DEF StartRun, Unused
<1>4. QuietInv(r)'
  BY <1>1, <1>2, <1>3 DEF QuietInv
<1> QED
  BY <1>2, <1>3, <1>4, SameDevice, QuietStep

LEMMA StopsQuietly ==
    ASSUME IInv, SilenceInv, NEW id \in Alarms, Stoppable(id), NEW snooze \in BOOLEAN,
           run' = [run EXCEPT ![current[id]] = Stopping(@, snooze)], UNCHANGED device
    PROVE  SilenceInv'
<1> DEFINE r == current[id]
<1>1. UNCHANGED <<held, sounding, yielded>> /\ r \in Runs /\ run[r].state # "unused"
  BY DEF device, Stoppable, IInv, TypeOK
<1>2. run[r] \in RunRecords /\ run \in [Runs -> RunRecords]
  BY <1>1, RunFacts
<1>3. run'[r] = Stopping(run[r], snooze) /\ \A i \in Runs \ {r} : run'[i] = run[i]
  BY <1>1, <1>2
<1>4. Calm(run[r], Stopping(run[r], snooze))
  BY <1>1, <1>2, CalmKinds
<1> QED
  BY <1>1, <1>3, <1>4, SameDevice, QuietStep

LEMMA WorldIsQuiet ==
    ASSUME IInv, SilenceInv,
           \/ Tick \/ Shutdown \/ Restart
           \/ \E s \in Speakers : Cast(s) \/ Silence(s) \/ Replace(s)
    PROVE  SilenceInv'
<1>1. \A r \in Runs : QuietInv(r) /\ run[r] \in RunRecords /\ run[r].speaker \in Speakers
  BY RunFacts DEF SilenceInv
<1>2. ASSUME \A r \in Runs : Calm(run[r], run'[r]) /\ CalmDevice(r) PROVE SilenceInv'
  BY <1>1, <1>2, CalmIsQuiet DEF SilenceInv
<1>3. CASE Tick
  BY <1>2, <1>3, NothingIsCalm, SameDevice DEF Tick, engine, device
<1>4. CASE Shutdown
  <2>1. UNCHANGED <<held, sounding, yielded>>
    BY <1>4 DEF Shutdown, device
  <2>2. \A r \in Runs : run'[r] = [run[r] EXCEPT !.live = FALSE]
    BY <1>4 DEF Shutdown
  <2>3. ASSUME NEW q \in RunRecords PROVE Calm(q, [q EXCEPT !.live = FALSE])
    BY DEF Calm, Before, RunRecords
  <2> QED
    BY <1>1, <1>2, <2>1, <2>2, <2>3, SameDevice
<1>5. CASE Restart
  <2> SUFFICES ASSUME NEW r \in Runs PROVE QuietInv(r)'
    BY DEF SilenceInv
  <2>1. UNCHANGED <<sounding, yielded>>
    BY <1>5 DEF Restart
  <2>2. CASE run[r].state = "unused"
    <3>1. run'[r] = run[r]
      BY <1>5, <2>2 DEF Restart
    <3> QED
      BY <1>1, <2>1, <2>2, <3>1 DEF QuietInv
  <2>3. CASE run[r].state # "unused"
    <3>1. run'[r] = [run[r] EXCEPT !.state = "lost", !.live = FALSE, !.play = "done",
                                   !.stop = "none", !.rend = "closed"]
      BY <1>5, <2>3 DEF Restart
    <3>2. /\ run'[r].state = "lost" /\ run'[r].live = FALSE /\ run'[r].play = "done"
          /\ run'[r].rend = "closed"
      BY <1>1, <3>1 DEF RunRecords
    <3> QED
      BY <3>2 DEF QuietInv
  <2> QED
    BY <2>2, <2>3
<1>6. ASSUME NEW s \in Speakers, Cast(s) PROVE SilenceInv'
  <2>1. UNCHANGED run /\ Hold(s, Other, "cast")
    BY <1>6 DEF Cast, engine
  <2>2. \A r \in Runs : \A t \in Speakers : sounding'[t] = r => sounding[t] = r
    BY <1>6, NamesAssumption DEF Cast, IInv, TypeOK
  <2>3. \A r \in Runs : CalmDevice(r)
    BY <2>1, <2>2, HoldsQuietly, NamesAssumption
  <2> QED
    BY <1>2, <2>1, <2>3, NothingIsCalm
<1>7. ASSUME NEW s \in Speakers, Silence(s) PROVE SilenceInv'
  <2>1. UNCHANGED <<run, held, yielded>>
    BY <1>7 DEF Silence, engine
  <2>2. \A r \in Runs : \A t \in Speakers : sounding'[t] = r => sounding[t] = r
    BY <1>7, NamesAssumption DEF Silence, IInv, TypeOK
  <2>3. \A r \in Runs : CalmDevice(r)
    BY <2>1, <2>2 DEF CalmDevice
  <2> QED
    BY <1>2, <2>1, <2>3, NothingIsCalm
<1>8. ASSUME NEW s \in Speakers, Replace(s) PROVE SilenceInv'
  <2>1. /\ UNCHANGED <<sounding, yielded>>
        /\ \A t \in Speakers \ {s} : held'[t] = held[t]
    BY <1>8 DEF Replace, IInv, TypeOK
  <2>2. ASSUME NEW r \in Runs PROVE Calm(run[r], run'[r]) /\ CalmDevice(r)
    <3>1. CASE run[r].speaker = s /\ run[r].rend = "open" /\ run[r].state # "unused"
      <4>1. PICK x \in Renderers \ {"open"} : run'[r] = [run[r] EXCEPT !.rend = x]
        BY <1>8, <3>1 DEF Replace, Renderers
      <4>2. run'[r].rend # "open"
        BY <1>1, <4>1 DEF RunRecords
      <4>3. Calm(run[r], [run[r] EXCEPT !.rend = x])
        BY <1>1, <3>1, CalmKinds
      <4> QED
        BY <2>1, <4>1, <4>2, <4>3 DEF CalmDevice
    <3>2. CASE ~(run[r].speaker = s /\ run[r].rend = "open" /\ run[r].state # "unused")
      <4>1. run'[r] = run[r]
        BY <1>8, <3>2 DEF Replace
      <4>2. run[r].state = "unused" => Before(run[r])
        BY <1>1 DEF QuietInv, Before
      <4>3. run[r].speaker # s => held'[run[r].speaker] = held[run[r].speaker]
        BY <1>1, <2>1
      <4>4. CalmDevice(r)
        BY <2>1, <3>2, <4>1, <4>2, <4>3 DEF CalmDevice
      <4> QED
        BY <4>1, <4>4, NothingIsCalm
    <3> QED
      BY <3>1, <3>2
  <2> QED
    BY <1>2, <2>2
<1> QED
  BY <1>3, <1>4, <1>5, <1>6, <1>7, <1>8

LEMMA NobodyMoves == ASSUME IInv, SilenceInv, UNCHANGED run, UNCHANGED device PROVE SilenceInv'
BY RunFacts, NothingIsCalm, SameDevice, CalmIsQuiet DEF SilenceInv, device

LEMMA StepIsQuiet == ASSUME IInv, SilenceInv, [Next]_vars PROVE SilenceInv'
<1>1. CASE Schedule
  <2>1. Scan \/ Claim => UNCHANGED run /\ UNCHANGED device
    BY DEF Scan, Claim, engine
  <2>2. CASE StartClaimed
    <3>1. loop.claimed \in Alarms /\ UNCHANGED device
      BY <2>2 DEF StartClaimed, IInv, TypeOK
    <3> QED
      BY <2>2, <3>1, StartsQuietly, NobodyMoves DEF StartClaimed, NoteFailure
  <2>3. CASE ShutdownStops
    BY <2>3, StopsQuietly DEF ShutdownStops
  <2> QED
    BY <1>1, <2>1, <2>2, <2>3, NobodyMoves DEF Schedule
<1>2. CASE \E r \in Runs : Ring(r) \/ Silencing(r)
  BY <1>2, RingsQuietly, SilencesQuietly
<1>3. CASE Users
  <2>1. ASSUME NEW id \in Alarms, Test(id) PROVE SilenceInv'
    BY <2>1, StartsQuietly DEF Test
  <2>2. ASSUME NEW id \in Alarms, Stop(id) PROVE SilenceInv'
    BY <2>2, StopsQuietly DEF Stop
  <2>3. ASSUME NEW id \in Alarms, SaveBegin(id) \/ Delete(id)
        PROVE  UNCHANGED run /\ UNCHANGED device
    BY <2>3 DEF SaveBegin, Delete, engine
  <2>4. SavePrepare \/ SaveEnd \/ Import => UNCHANGED run /\ UNCHANGED device
    BY DEF SavePrepare, SaveEnd, Import, engine
  <2> QED
    BY <1>3, <2>1, <2>2, <2>3, <2>4, NobodyMoves DEF Users
<1>4. CASE World
  BY <1>4, WorldIsQuiet DEF World
<1>5. CASE UNCHANGED vars
  BY <1>5, NobodyMoves DEF vars, engine
<1> QED
  BY <1>1, <1>2, <1>3, <1>4, <1>5 DEF Next

LEMMA BeginsQuietly == Init => SilenceInv
<1> SUFFICES ASSUME Init, NEW r \in Runs PROVE QuietInv(r)
  BY DEF SilenceInv
<1>1. run[r].state = "unused" /\ run[r].play = "none" /\ run[r].stop = "none"
      /\ run[r].silenced = FALSE /\ \A t \in Speakers : sounding[t] = NoRun
  BY DEF Init, Unused
<1> QED
  BY <1>1, NamesAssumption DEF QuietInv

(* An alarm that was stopped stays silent, even if its play goroutine had   *)
(* not reached the renderer or waited for opMu when Stop cancelled it: only *)
(* a renderer that gave the address up for a newer cast is not asked        *)
(* (alarms.go, Stop and play; renderer.go, StopURI and StartAlarm).         *)
THEOREM StoppedStaysSilent == Spec => []StoppedIsSilent
<1>1. Init => IInv /\ SilenceInv
  BY Begin, BeginsQuietly
<1>2. IInv /\ SilenceInv /\ [Next]_vars => IInv' /\ SilenceInv'
  BY Step, StepIsQuiet
<1>3. IInv /\ SilenceInv => StoppedIsSilent
  BY RunFacts DEF SilenceInv, QuietInv, StoppedIsSilent, Silent
<1> QED
  BY <1>1, <1>2, <1>3, PTL DEF Spec
=============================================================================
