--------------------------- MODULE RendererProofs ---------------------------
(* Proofs about Renderer, for every number of requests, sources and levels.*)
EXTENDS RendererRefines, TLAPS

LEMMA InvalidateType ==
    ASSUME TypeOK, InvalidateLocked
    PROVE  /\ generation' \in Nat /\ cancel' \in Procs \cup {NoProc}
           /\ cancelled' \subseteq Procs /\ closed' \in BOOLEAN
           /\ opMu' \in Procs \cup {NoProc}
           /\ overtaken' \in BOOLEAN
BY ProcAssumption DEF TypeOK, InvalidateLocked, Overtake

LEMMA RequestType ==
    ASSUME NEW kind \in Kinds, NEW gen \in Nat, NEW u \in Sources \cup {Stream, NoURI},
           NEW level \in Levels, NEW flag \in BOOLEAN
    PROVE  Request(kind, gen, u, level, flag) \in
             RequestRecords
BY DEF Request, RequestRecords

LEMMA TypeInit == Init => TypeOK
<1> SUFFICES ASSUME Init PROVE TypeOK
  OBVIOUS
<1>1. \A p \in Procs : req[p] \in RequestRecords
  BY RequestType, LevelAssumption DEF Init, Kinds
<1>2. req \in [Procs -> RequestRecords]
  BY <1>1 DEF Init
<1> QED
  BY <1>2, ProcAssumption, LevelAssumption DEF Init, TypeOK, Procs, States, Ages, PCs

LEMMA TypeCall ==
    ASSUME TypeOK, LocalsOK, NEW p \in Procs, Call(p)
    PROVE  TypeOK'
<1>1. CASE SetURI(p)
  <2>1. req' \in [Procs -> RequestRecords]
    <3>1. /\ Request("play", 0, NoURI, 0, FALSE) \in RequestRecords
          /\ \A u \in Sources, level \in Levels : Request("alarm", 0, u, level, FALSE) \in RequestRecords
      BY RequestType, LevelAssumption DEF TypeOK, Kinds
    <3>2. PICK u \in Sources :
             \/ UNCHANGED req
             \/ req' = [req EXCEPT ![p] = Request("play", 0, NoURI, 0, FALSE)]
             \/ \E level \in Levels :
                  req' = [req EXCEPT ![p] = Request("alarm", 0, u, level, FALSE)]
      BY <1>1 DEF SetURI
    <3>3. \E r \in RequestRecords \cup {req[p]} : req' = [req EXCEPT ![p] = r]
      <4>1. CASE UNCHANGED req
        BY <4>1 DEF TypeOK
      <4>2. CASE req' = [req EXCEPT ![p] = Request("play", 0, NoURI, 0, FALSE)]
        BY <3>1, <4>2
      <4>3. CASE \E level \in Levels :
                   req' = [req EXCEPT ![p] = Request("alarm", 0, u, level, FALSE)]
        BY <3>1, <4>3
      <4> QED
        BY <3>2, <4>1, <4>2, <4>3
    <3> QED
      BY <3>3 DEF TypeOK
  <2>2. pc' \in [Procs -> PCs]
    BY <1>1 DEF SetURI, TypeOK, Goto, PCs
  <2> QED
    BY <1>1, <2>1, <2>2, InvalidateType
    DEF SetURI, SetURISection, TypeOK, loudness, States, Ages
<1>2. CASE SetNext(p)
  <2>1. req' \in [Procs -> RequestRecords]
    BY <1>2
    DEF SetNext, TypeOK
  <2>2. pc' \in [Procs -> PCs]
    BY <1>2 DEF SetNext, TypeOK, Goto, PCs
  <2> QED
    BY <1>2, <2>1, <2>2
    DEF SetNext, TypeOK, playback, loudness, locks, poll
<1>3. CASE Play(p)
  <2>1. req' \in [Procs -> RequestRecords]
    BY <1>3, RequestType, LevelAssumption
    DEF Play, TypeOK, Kinds
  <2>2. pc' \in [Procs -> PCs]
    BY <1>3 DEF Play, TypeOK, Goto, PCs
  <2> QED
    BY <1>3, <2>1, <2>2
    DEF Play, TypeOK, fields, locks, poll
<1>4. CASE Pause(p)
  <2>1. req' \in [Procs -> RequestRecords]
    <3>1. Request("pause", generation + 1, NoURI, 0, FALSE) \in RequestRecords
      BY LevelAssumption DEF TypeOK, Kinds, Request, RequestRecords
    <3> QED
      BY <1>4, <3>1 DEF Pause, TypeOK
  <2>2. pc' \in [Procs -> PCs]
    BY <1>4 DEF Pause, TypeOK, Goto, PCs
  <2> QED
    BY <1>4, <2>1, <2>2, InvalidateType
    DEF Pause, TypeOK, fields
<1>5. CASE StartAirPlay(p)
  <2>1. req' \in [Procs -> RequestRecords]
    <3>1. Request("airplay", generation + 1, Stream, 0, FALSE) \in RequestRecords
      BY LevelAssumption DEF TypeOK, Kinds, Request, RequestRecords
    <3> QED
      BY <1>5, <3>1 DEF StartAirPlay, TypeOK
  <2>2. pc' \in [Procs -> PCs]
    BY <1>5 DEF StartAirPlay, TypeOK, Goto, PCs
  <2> QED
    BY <1>5, <2>1, <2>2, InvalidateType
    DEF StartAirPlay, TypeOK, fields
<1>6. CASE Stop(p)
  <2>1. req' \in [Procs -> RequestRecords]
    <3>1. \A u \in Sources \cup {NoURI} : Request("stop", generation + 1, u, 0, FALSE) \in RequestRecords
      BY LevelAssumption DEF TypeOK, Kinds, Request, RequestRecords
    <3>2. \/ UNCHANGED req
          \/ \E u \in Sources \cup {NoURI} :
               req' = [req EXCEPT ![p] = Request("stop", generation + 1, u, 0, FALSE)]
      BY <1>6 DEF Stop, StopSection
    <3> QED
      BY <3>1, <3>2 DEF TypeOK
  <2>2. pc' \in [Procs -> PCs]
    BY <1>6 DEF Stop, StopSection, TypeOK, Goto, Return, PCs
  <2> QED
    BY <1>6, <2>1, <2>2, InvalidateType
    DEF Stop, StopSection, TypeOK, fields, locks
<1>7. CASE EndAirPlay(p)
  <2>1. req' \in [Procs -> RequestRecords]
    BY <1>7
    DEF EndAirPlay, TypeOK
  <2>2. pc' \in [Procs -> PCs]
    BY <1>7 DEF EndAirPlay, TypeOK, Goto, PCs
  <2> QED
    BY <1>7, <2>1, <2>2
    DEF EndAirPlay, TypeOK, fields, locks, poll
<1>8. CASE Seek(p)
  <2>1. req' \in [Procs -> RequestRecords]
    <3>1. Request("seek", generation + 1, uri, 0, state = "PAUSED_PLAYBACK") \in RequestRecords
      BY LevelAssumption DEF TypeOK, Kinds, Request, RequestRecords
    <3> QED
      BY <1>8, <3>1 DEF Seek, TypeOK
  <2>2. pc' \in [Procs -> PCs]
    BY <1>8 DEF Seek, TypeOK, Goto, PCs
  <2> QED
    BY <1>8, <2>1, <2>2, InvalidateType
    DEF Seek, TypeOK, fields
<1>9. CASE SetVolume(p)
  <2>1. req' \in [Procs -> RequestRecords]
    <3>1. \A level \in Levels : Request("volume", generation, NoURI, level, FALSE) \in RequestRecords
      BY RequestType, LevelAssumption DEF TypeOK, Kinds
    <3> QED
      BY <1>9, <3>1 DEF SetVolume, TypeOK
  <2>2. pc' \in [Procs -> PCs]
    BY <1>9 DEF SetVolume, TypeOK, Goto, PCs
  <2> QED
    BY <1>9, <2>1, <2>2
    DEF SetVolume, TypeOK, fields, locks, poll
<1>10. CASE SetMute(p)
  <2>1. req' \in [Procs -> RequestRecords]
    <3>1. \A m \in BOOLEAN : Request("mute", 0, NoURI, IF m THEN 0 ELSE volume, m) \in RequestRecords
      BY RequestType, LevelAssumption DEF TypeOK, Kinds
    <3> QED
      BY <1>10, <3>1 DEF SetMute, TypeOK
  <2>2. pc' \in [Procs -> PCs]
    BY <1>10 DEF SetMute, TypeOK, Goto, PCs
  <2> QED
    BY <1>10, <2>1, <2>2
    DEF SetMute, TypeOK, fields, locks, poll
<1>11. CASE CallNext(p)
  <2>1. req' \in [Procs -> RequestRecords]
    <3>1. Request("play", 0, nextURI, 0, FALSE) \in RequestRecords
      BY RequestType, LevelAssumption DEF TypeOK, Kinds
    <3> QED
      BY <1>11, <3>1 DEF CallNext, TypeOK, TakeNext
  <2>2. pc' \in [Procs -> PCs]
    BY <1>11 DEF CallNext, TakeNext, TypeOK, Goto, Return, PCs
  <2> QED
    BY <1>11, <2>1, <2>2
    DEF CallNext, TakeNext, TypeOK, playback, loudness, locks, poll
<1>12. CASE Close(p)
  <2>1. req' \in [Procs -> RequestRecords]
    <3>1. [req[p] EXCEPT !.kind = "close"] \in RequestRecords
      BY DEF TypeOK, RequestRecords, Kinds
    <3> QED
      BY <1>12, <3>1 DEF Close, TypeOK
  <2>2. pc' \in [Procs -> PCs]
    BY <1>12 DEF Close, TypeOK, Goto, PCs
  <2> QED
    BY <1>12, <2>1, <2>2, InvalidateType
    DEF Close, TypeOK, fields
<1> QED
  BY <1>1, <1>2, <1>3, <1>4, <1>5, <1>6, <1>7, <1>8, <1>9, <1>10, <1>11, <1>12 DEF Call

LEMMA TypeContinue ==
    ASSUME TypeOK, LocalsOK, NEW p \in Procs, Continue(p)
    PROVE  TypeOK'
<1>1. CASE Reserve(p)
  <2>1. req' \in [Procs -> RequestRecords]
    BY <1>1
    DEF Reserve, TypeOK, RequestRecords
  <2>2. pc' \in [Procs -> PCs]
    BY <1>1 DEF Reserve, TypeOK, Goto, PCs
  <2> QED
    BY <1>1, <2>1, <2>2
    DEF Reserve, TypeOK, fields, locks, poll
<1>2. CASE ReserveAlarm(p)
  <2>1. req' \in [Procs -> RequestRecords]
    BY <1>2
    DEF ReserveAlarm, TypeOK, RequestRecords
  <2>2. pc' \in [Procs -> PCs]
    BY <1>2 DEF ReserveAlarm, TypeOK, Goto, Return, PCs
  <2> QED
    BY <1>2, <2>1, <2>2
    DEF ReserveAlarm, TypeOK, playback, locks, poll, RequestRecords
<1>3. CASE PlayAt(p)
  <2>1. req' \in [Procs -> RequestRecords]
    <3>1. /\ [req[p] EXCEPT !.kind = "resume"] \in RequestRecords
          /\ [req[p] EXCEPT !.uri = uri] \in RequestRecords
      BY DEF TypeOK, RequestRecords, Kinds
    <3> QED
      BY <1>3, <3>1 DEF PlayAt, TypeOK
  <2>2. pc' \in [Procs -> PCs]
    BY <1>3 DEF PlayAt, TypeOK, Goto, Return, PCs
  <2> QED
    BY <1>3, <2>1, <2>2
    DEF PlayAt, TypeOK, fields, locks, poll
<1>4. CASE NextSetURI(p)
  <2>1. req' \in [Procs -> RequestRecords]
    BY <1>4
    DEF NextSetURI, TypeOK
  <2>2. pc' \in [Procs -> PCs]
    BY <1>4 DEF NextSetURI, TypeOK, Goto, PCs
  <2> QED
    BY <1>4, <2>1, <2>2, InvalidateType
    DEF NextSetURI, SetURISection, LocalsOK, LocalsAt, TypeOK, loudness, States, Ages
<1>5. CASE Drop(p)
  <2>1. req' \in [Procs -> RequestRecords]
    BY <1>5
    DEF Drop, TypeOK
  <2>2. pc' \in [Procs -> PCs]
    BY <1>5 DEF Drop, TypeOK, Goto, Return, PCs
  <2> QED
    BY <1>5, <2>1, <2>2
    DEF Drop, TypeOK, fields, locks, poll
<1>6. CASE Begin(p)
  <2>1. CallsOf(req[p]) \in Seq(CloudCalls)
    <3>1. /\ <<"play", "volume">> \in Seq(CloudCalls) /\ <<"volume", "play">> \in Seq(CloudCalls)
          /\ <<"play", "pause">> \in Seq(CloudCalls) /\ <<"play">> \in Seq(CloudCalls)
          /\ <<"volume">> \in Seq(CloudCalls)
          /\ \A k \in CloudCalls : <<k>> \in Seq(CloudCalls)
      BY DEF CloudCalls
    <3>2. req[p].kind \in CommandKinds
      BY <1>6 DEF Begin, LocalsOK, LocalsAt, Queued
    <3> QED
      BY <3>1, <3>2 DEF CallsOf, CommandKinds, Kinds, CloudCalls
  <2>2. LevelOf(req[p]) \in Levels
    BY LevelAssumption DEF LevelOf, TypeOK, RequestRecords
  <2>3. req' \in [Procs -> RequestRecords]
    <3>1. /\ [req[p] EXCEPT !.ok = TRUE] \in RequestRecords
          /\ [req[p] EXCEPT !.calls = CallsOf(req[p]), !.level = LevelOf(req[p])] \in RequestRecords
      BY <2>1, <2>2 DEF TypeOK, RequestRecords
    <3> QED
      BY <1>6, <3>1 DEF Begin, TypeOK
  <2>4. pc' \in [Procs -> PCs]
    BY <1>6 DEF Begin, TypeOK, Goto, PCs
  <2> QED
    BY <1>6, <2>3, <2>4 DEF Begin, TypeOK, fields, poll
<1>7. CASE Answer(p)
  <2> DEFINE q == req[p]
  <2>1. /\ q.calls \in Seq(CloudCalls) /\ q.calls # <<>>
        /\ Tail(q.calls) \in Seq(CloudCalls) /\ Head(q.calls) \in CloudCalls
    BY <1>7 DEF Answer, LocalsOK, LocalsAt, TypeOK, RequestRecords
  <2>2. Effect(p, Head(q.calls)) \in [item : Sources \cup {Stream, NoURI}, mode : States, level : Levels]
    <3>1. q.uri \in Sources \cup {Stream, NoURI} /\ q.level \in Levels
      BY DEF TypeOK, RequestRecords
    <3> QED
      BY <2>1, <3>1 DEF Effect, CloudCalls, TypeOK, States
  <2>3. speaker' \in [item : Sources \cup {Stream, NoURI}, mode : States, level : Levels]
    BY <1>7, <2>2 DEF Answer, TypeOK
  <2>4. overtaken' \in BOOLEAN
    BY <1>7 DEF Answer, Overtake, TypeOK
  <2>5. \E calls \in Seq(CloudCalls), ok \in BOOLEAN :
          req' = [req EXCEPT ![p].calls = calls, ![p].ok = ok]
    <3>1. PICK over \in BOOLEAN, ok \in BOOLEAN :
            req' = [req EXCEPT ![p].calls = IF over THEN <<>> ELSE Tail(q.calls),
                               ![p].ok = over /\ ok]
      BY <1>7 DEF Answer
    <3>2. /\ (IF over THEN <<>> ELSE Tail(q.calls)) \in Seq(CloudCalls)
          /\ (over /\ ok) \in BOOLEAN
      BY <2>1
    <3> QED
      BY <3>1, <3>2
  <2>6. req' \in [Procs -> RequestRecords]
    <3>1. \A calls \in Seq(CloudCalls), ok \in BOOLEAN :
            [req[p] EXCEPT !.calls = calls, !.ok = ok] \in RequestRecords
      BY DEF TypeOK, RequestRecords
    <3>2. PICK calls \in Seq(CloudCalls), ok \in BOOLEAN :
            req' = [req EXCEPT ![p] = [req[p] EXCEPT !.calls = calls, !.ok = ok]]
      BY <2>5 DEF TypeOK, RequestRecords
    <3> QED
      BY <3>1, <3>2 DEF TypeOK
  <2>7. pc' \in [Procs -> PCs]
    BY <1>7 DEF Answer, Goto, PCs, TypeOK
  <2> QED
    BY <1>7, <2>3, <2>4, <2>6, <2>7 DEF Answer, TypeOK, fields, locks
<1>8. CASE Commit(p)
  <2>1. Success(req[p]) => /\ state' \in States /\ age' \in Ages /\ uri' \in Sources \cup {NoURI}
                           /\ airplay' \in BOOLEAN /\ volume' \in Levels /\ mute' \in BOOLEAN
                           /\ nextURI' \in Sources \cup {NoURI}
    BY DEF Success, TypeOK, RequestRecords, States, Ages
  <2> QED
    BY <1>8, <2>1 DEF Commit, ClearCancel, Unlock, TypeOK, fields, playback, loudness, poll, Goto, Return, PCs
<1> QED
  BY <1>1, <1>2, <1>3, <1>4, <1>5, <1>6, <1>7, <1>8 DEF Continue

LEMMA TypePoll ==
    ASSUME TypeOK, PollTick \/ PollStatus \/ PollApply \/ Age \/ SpeakerEnds \/ Idle
    PROVE  TypeOK'
<1>1. CASE PollTick
  BY <1>1 DEF PollTick, TypeOK, loudness, locks, Goto, PCs, Ages
<1>2. CASE PollStatus
  BY <1>2 DEF PollStatus, TypeOK, fields, locks, Goto, PCs
<1>3. CASE PollApply
  BY <1>3 DEF PollApply, TypeOK, fields, locks, poll, Goto, PCs, Ages, States
<1>4. CASE Age
  BY <1>4 DEF Age, TypeOK, loudness, locks, poll, Ages
<1>5. CASE SpeakerEnds
  BY <1>5 DEF SpeakerEnds, TypeOK, fields, locks, poll, States
<1>6. CASE Idle
  BY <1>6 DEF Idle, vars, fields, locks, poll, TypeOK
<1> QED
  BY <1>1, <1>2, <1>3, <1>4, <1>5, <1>6
-----------------------------------------------------------------------------
(***************************************************************************)
(* Every step has one of five shapes, and the invariants follow from the   *)
(* shapes: a process supersedes, or does something that leaves the locks   *)
(* alone, or begins, continues or ends its command at the cloud.           *)
(***************************************************************************)

Only(p) == \A q \in Procs \ {p} : pc'[q] = pc[q] /\ req'[q] = req[q]

SupersedeStep(p) ==
    /\ InvalidateLocked /\ Only(p) /\ LocalsAt(p)'
    /\ pc[p] \in {"new", "setURI", "stopNow", "closing"}
    /\ pc'[p] \in {"lock", "reserve", "done"}
    /\ pc'[p] = "lock" =>
         /\ req'[p].gen = generation + 1 /\ uri' = uri
         /\ req'[p].kind = "stop" /\ req'[p].uri # NoURI => uri = req'[p].uri
    /\ req'[p].gen <= generation + 1
    /\ pc'[p] = "done" /\ req'[p].kind = "close" => closed

LocalStep(p) ==
    /\ UNCHANGED <<generation, cancel, opMu, cancelled, uri>>
    /\ closed => closed'
    /\ Only(p) /\ LocalsAt(p)'
    /\ pc[p] \notin {"wire", "commit"} /\ pc'[p] \notin {"wire", "commit"}
    /\ pc'[p] = "lock" => req'[p].kind \notin Superseding
    /\ req'[p].gen <= generation
    /\ ~(pc'[p] = "done" /\ req'[p].kind = "close")

BeginStep(p) ==
    /\ pc[p] = "lock" /\ pc'[p] \in {"wire", "commit"} /\ opMu = NoProc
    /\ req[p].gen = generation /\ ~closed
    /\ opMu' = p /\ cancel' = p /\ cancelled' = cancelled \ {p}
    /\ UNCHANGED <<generation, closed, uri>>
    /\ Only(p) /\ LocalsAt(p)'
    /\ req'[p].gen = req[p].gen /\ req'[p].kind = req[p].kind
    /\ req'[p].uri = req[p].uri

AnswerStep(p) ==
    /\ pc[p] = "wire" /\ pc'[p] \in {"wire", "commit"}
    /\ UNCHANGED <<locks, uri>>
    /\ Only(p) /\ LocalsAt(p)'
    /\ req'[p].gen = req[p].gen /\ req'[p].kind = req[p].kind
    /\ req'[p].uri = req[p].uri

CommitStep(p) ==
    /\ pc[p] = "commit" /\ pc'[p] \in {"done", "tick"} /\ opMu' = NoProc
    /\ cancel' = NoProc \/ (Superseded(p) /\ cancel' = cancel)
    /\ uri' = uri \/ (req[p].kind = "airplay" /\ req[p].gen = generation)
    /\ UNCHANGED <<generation, closed, cancelled, req>>
    /\ Only(p) /\ LocalsAt(p)'

StillStep == UNCHANGED <<locks, pc, req, uri>>

Shaped ==
    \/ StillStep
    \/ \E p \in Procs : SupersedeStep(p) \/ LocalStep(p) \/ BeginStep(p)
                         \/ AnswerStep(p) \/ CommitStep(p)

(* The steps that may change the playback.                                 *)
LEMMA SetURIShape ==
    ASSUME TypeOK, LocalsOK, GenerationsOK, NEW p \in Procs, SetURI(p) \/ NextSetURI(p)
    PROVE  SupersedeStep(p)
<1>1. SetURI(p) => SupersedeStep(p)
  BY ProcAssumption DEF SetURI, SupersedeStep, TypeOK, LocalsOK, LocalsAt, GenerationsOK, Only, Calls, Goto, Return, Queued, CommandKinds, Kinds, Superseding, Request, RequestRecords, SetURISection, InvalidateLocked, PCs
<1>2. NextSetURI(p) => SupersedeStep(p)
  BY ProcAssumption DEF NextSetURI, SupersedeStep, TypeOK, LocalsOK, LocalsAt, GenerationsOK, Only, Calls, Goto, Return, Queued, CommandKinds, Kinds, Superseding, Request, RequestRecords, SetURISection, InvalidateLocked
<1> QED
  BY <1>1, <1>2

LEMMA CommitShape ==
    ASSUME TypeOK, LocalsOK, GenerationsOK, NEW p \in Procs, Commit(p)
    PROVE  CommitStep(p)
BY ProcAssumption DEF Commit, Counts, ClearCancel, Unlock, CommitStep, TypeOK, LocalsOK, LocalsAt, GenerationsOK, Only, Calls, Goto, Return, Queued, CommandKinds, Kinds, Superseding, Request, RequestRecords, Success, Superseded, fields, playback

LEMMA CallShape ==
    ASSUME TypeOK, LocalsOK, GenerationsOK, NEW p \in Procs, Call(p)
    PROVE  SupersedeStep(p) \/ LocalStep(p)
<1>1. SetURI(p) => SupersedeStep(p)
  BY SetURIShape
<1>2. SetNext(p) => LocalStep(p)
  BY ProcAssumption DEF SetNext, LocalStep, TypeOK, LocalsOK, LocalsAt, GenerationsOK, Only, Calls, Goto, Return, Queued, CommandKinds, Kinds, Superseding, Request, RequestRecords, playback, locks
<1>3. Play(p) => LocalStep(p)
  BY ProcAssumption DEF Play, LocalStep, TypeOK, LocalsOK, LocalsAt, GenerationsOK, Only, Calls, Goto, Return, Queued, CommandKinds, Kinds, Superseding, Request, RequestRecords, fields, locks
<1>4. Pause(p) => SupersedeStep(p)
  BY ProcAssumption DEF Pause, SupersedeStep, TypeOK, LocalsOK, LocalsAt, GenerationsOK, Only, Calls, Goto, Return, Queued, CommandKinds, Kinds, Superseding, Request, RequestRecords, fields, InvalidateLocked
<1>5. StartAirPlay(p) => SupersedeStep(p)
  BY ProcAssumption DEF StartAirPlay, SupersedeStep, TypeOK, LocalsOK, LocalsAt, GenerationsOK, Only, Calls, Goto, Return, Queued, CommandKinds, Kinds, Superseding, Request, RequestRecords, fields, InvalidateLocked
<1>6. Stop(p) => SupersedeStep(p) \/ LocalStep(p)
  BY ProcAssumption DEF Stop, SupersedeStep, LocalStep, TypeOK, LocalsOK, LocalsAt, GenerationsOK, Only, Calls, Goto, Return, Queued, CommandKinds, Kinds, Superseding, Request, RequestRecords, StopSection, Expected, fields, locks, InvalidateLocked
<1>7. EndAirPlay(p) => LocalStep(p)
  BY ProcAssumption DEF EndAirPlay, LocalStep, TypeOK, LocalsOK, LocalsAt, GenerationsOK, Only, Calls, Goto, Return, Queued, CommandKinds, Kinds, Superseding, Request, RequestRecords, fields, locks
<1>8. Seek(p) => SupersedeStep(p)
  BY ProcAssumption DEF Seek, SupersedeStep, TypeOK, LocalsOK, LocalsAt, GenerationsOK, Only, Calls, Goto, Return, Queued, CommandKinds, Kinds, Superseding, Request, RequestRecords, fields, InvalidateLocked
<1>9. SetVolume(p) => LocalStep(p)
  BY ProcAssumption DEF SetVolume, LocalStep, TypeOK, LocalsOK, LocalsAt, GenerationsOK, Only, Calls, Goto, Return, Queued, CommandKinds, Kinds, Superseding, Request, RequestRecords, fields, locks
<1>10. SetMute(p) => LocalStep(p)
  BY ProcAssumption DEF SetMute, LocalStep, TypeOK, LocalsOK, LocalsAt, GenerationsOK, Only, Calls, Goto, Return, Queued, CommandKinds, Kinds, Superseding, Request, RequestRecords, fields, locks
<1>11. CallNext(p) => LocalStep(p)
  <2>1. ASSUME CallNext(p), nextURI = NoURI PROVE LocalStep(p)
    BY <2>1 DEF CallNext, LocalStep, TypeOK, LocalsOK, LocalsAt, GenerationsOK, Only, Calls, Goto, Return, Queued, CommandKinds, Kinds, Superseding, Request, RequestRecords, TakeNext, playback, locks
  <2>2. ASSUME CallNext(p), nextURI # NoURI PROVE LocalStep(p)
    BY <2>2 DEF CallNext, LocalStep, TypeOK, LocalsOK, LocalsAt, GenerationsOK, Only, Calls, Goto, Return, Queued, CommandKinds, Kinds, Superseding, Request, RequestRecords, TakeNext, playback, locks
  <2> QED
    BY <2>1, <2>2
<1>12. Close(p) => SupersedeStep(p) \/ LocalStep(p)
  <2>1. ASSUME Close(p), pc[p] = "new" PROVE LocalStep(p)
    <3>1. /\ pc'[p] = "closing" /\ closed' /\ req'[p].gen = req[p].gen /\ Only(p)
      BY <2>1 DEF Close, Only, Goto, TypeOK, RequestRecords
    <3>2. LocalsAt(p)'
      BY <3>1 DEF LocalsAt, Queued
    <3> QED
      BY <2>1, <3>1, <3>2 DEF Close, LocalStep, GenerationsOK, fields
  <2>2. ASSUME Close(p), pc[p] = "closing" PROVE SupersedeStep(p)
    BY <2>2 DEF Close, SupersedeStep, TypeOK, LocalsOK, LocalsAt, GenerationsOK, Only, Calls, Goto, Return, Queued, CommandKinds, Kinds, Superseding, Request, RequestRecords, fields, InvalidateLocked
  <2> QED
    BY <2>1, <2>2 DEF Close, Calls
<1> QED
  BY <1>1, <1>2, <1>3, <1>4, <1>5, <1>6, <1>7, <1>8, <1>9, <1>10, <1>11, <1>12 DEF Call

LEMMA ContinueShape ==
    ASSUME TypeOK, LocalsOK, GenerationsOK, NEW p \in Procs, Continue(p)
    PROVE  \/ SupersedeStep(p) \/ LocalStep(p)
           \/ Begin(p) /\ BeginStep(p)
           \/ Answer(p) /\ AnswerStep(p)
           \/ Commit(p) /\ CommitStep(p)
<1>1. Reserve(p) => LocalStep(p)
  BY ProcAssumption DEF Reserve, LocalStep, TypeOK, LocalsOK, LocalsAt, GenerationsOK, Only, Calls, Goto, Return, Queued, CommandKinds, Kinds, Superseding, Request, RequestRecords, fields, locks
<1>2. ReserveAlarm(p) => LocalStep(p)
  BY ProcAssumption DEF ReserveAlarm, LocalStep, TypeOK, LocalsOK, LocalsAt, GenerationsOK, Only, Calls, Goto, Return, Queued, CommandKinds, Kinds, Superseding, Request, RequestRecords, playback, locks
<1>3. PlayAt(p) => LocalStep(p)
  <2>1. ASSUME PlayAt(p), UNCHANGED req, Return(p)
        PROVE  LocalStep(p)
    BY <2>1 DEF PlayAt, LocalStep, TypeOK, LocalsOK, LocalsAt, GenerationsOK, Only, Calls, Goto, Return, Queued, CommandKinds, Kinds, Superseding, Request, RequestRecords, fields, locks
  <2>2. ASSUME PlayAt(p), Goto(p, "lock"),
               \/ req' = [req EXCEPT ![p].uri = uri]
               \/ req' = [req EXCEPT ![p].kind = "resume"]
        PROVE  LocalStep(p)
    <3>1. /\ pc[p] = "playAt" /\ pc'[p] = "lock" /\ req'[p].kind \in {"play", "resume"}
          /\ req'[p].gen = req[p].gen /\ Only(p)
      BY <2>2 DEF PlayAt, Only, Goto, TypeOK, LocalsOK, LocalsAt, RequestRecords
    <3>2. LocalsAt(p)'
      BY <3>1 DEF LocalsAt, Queued, CommandKinds, Kinds
    <3> QED
      BY <2>2, <3>1, <3>2 DEF PlayAt, LocalStep, GenerationsOK, Superseding, fields, locks
  <2> QED
    BY <2>1, <2>2 DEF PlayAt
<1>4. NextSetURI(p) => SupersedeStep(p)
  BY SetURIShape
<1>5. Drop(p) => LocalStep(p)
  BY ProcAssumption DEF Drop, LocalStep, TypeOK, LocalsOK, LocalsAt, GenerationsOK, Only, Calls, Goto, Return, Queued, CommandKinds, Kinds, Superseding, Request, RequestRecords, fields, locks
<1>6. Begin(p) => BeginStep(p)
  <2>1. req[p].kind \in CommandKinds => CallsOf(req[p]) # <<>>
    BY DEF CallsOf, CommandKinds, Kinds, CloudCalls
  <2> QED
    BY <2>1 DEF Begin, BeginStep, TypeOK, LocalsOK, LocalsAt, GenerationsOK, Only, Calls, Goto, Return, Queued, CommandKinds, Kinds, Superseding, Request, RequestRecords, fields, Superseded
<1>7. Answer(p) => AnswerStep(p)
  BY ProcAssumption DEF Answer, AnswerStep, TypeOK, LocalsOK, LocalsAt, GenerationsOK, Only, Calls, Goto, Return, Queued, CommandKinds, Kinds, Superseding, Request, RequestRecords, fields
<1>8. Commit(p) => CommitStep(p)
  BY CommitShape
<1> QED
  BY <1>1, <1>2, <1>3, <1>4, <1>5, <1>6, <1>7, <1>8 DEF Continue

LEMMA PollShape ==
    ASSUME TypeOK, LocalsOK, GenerationsOK, PollTick \/ PollStatus \/ PollApply \/ Age \/ SpeakerEnds \/ Idle
    PROVE  Shaped
<1>0. Poller \in Procs
  BY DEF Procs
<1>1. PollTick => LocalStep(Poller)
  BY <1>0 DEF PollTick, LocalStep, TypeOK, LocalsOK, LocalsAt, GenerationsOK, Only, Calls, Goto, Return, Queued, CommandKinds, Kinds, Superseding, Request, RequestRecords, locks
<1>2. PollStatus => LocalStep(Poller)
  BY <1>0 DEF PollStatus, LocalStep, TypeOK, LocalsOK, LocalsAt, GenerationsOK, Only, Calls, Goto, Return, Queued, CommandKinds, Kinds, Superseding, Request, RequestRecords, fields, locks
<1>3. PollApply => LocalStep(Poller)
  BY <1>0 DEF PollApply, LocalStep, TypeOK, LocalsOK, LocalsAt, GenerationsOK, Only, Calls, Goto, Return, Queued, CommandKinds, Kinds, Superseding, Request, RequestRecords, fields, locks
<1>4. Age => StillStep
  BY DEF Age, StillStep, locks
<1>5. SpeakerEnds => StillStep
  BY DEF SpeakerEnds, StillStep, fields, locks
<1>6. Idle => StillStep
  BY DEF Idle, StillStep, vars, fields, locks
<1> QED
  BY <1>0, <1>1, <1>2, <1>3, <1>4, <1>5, <1>6 DEF Shaped

LEMMA NextShape == TypeOK /\ LocalsOK /\ GenerationsOK /\ [Next]_vars => Shaped
<1> SUFFICES ASSUME TypeOK, LocalsOK, GenerationsOK, [Next]_vars PROVE Shaped
  OBVIOUS
<1>1. UNCHANGED vars => Shaped
  BY DEF vars, fields, locks, Shaped, StillStep
<1> QED
  BY <1>1, CallShape, ContinueShape, PollShape DEF Next, Shaped

LEMMA NextType == TypeOK /\ LocalsOK /\ [Next]_vars => TypeOK'
<1> SUFFICES ASSUME TypeOK, LocalsOK, [Next]_vars PROVE TypeOK'
  OBVIOUS
<1>1. UNCHANGED vars => TypeOK'
  BY DEF vars, fields, locks, poll, TypeOK
<1> QED
  BY <1>1, TypeCall, TypeContinue, TypePoll DEF Next

(* The parts of IInv that the shape of a step preserves.                   *)
Guarded ==
    /\ CancelIsOfTheNewest /\ SupersededIsCancelled /\ NewestIsNotCancelled
    /\ NewestHasCancel

LEMMA LocalsStep == LocalsOK /\ Shaped => LocalsOK'
<1>1. LocalsOK /\ StillStep => LocalsOK'
  BY DEF LocalsOK, LocalsAt, Queued, StillStep, locks
<1>2. ASSUME LocalsOK, NEW p \in Procs, NEW q \in Procs, Only(p), LocalsAt(p)', closed => closed'
      PROVE  LocalsAt(q)'
  BY <1>2 DEF Only, LocalsOK, LocalsAt, Queued
<1> QED
  BY <1>1, <1>2 DEF Shaped, SupersedeStep, LocalStep, BeginStep, AnswerStep, CommitStep,
     InvalidateLocked, LocalsOK, locks

LEMMA GenerationsStep == TypeOK /\ GenerationsOK /\ Shaped => GenerationsOK'
<1> SUFFICES ASSUME TypeOK, GenerationsOK, Shaped PROVE GenerationsOK'
  OBVIOUS
<1>0. generation \in Nat /\ \A q \in Procs : req[q].gen \in Nat
  BY DEF TypeOK, RequestRecords
<1>1. CASE StillStep
  BY <1>1 DEF GenerationsOK, StillStep, locks, Queued
<1>2. ASSUME NEW p \in Procs, SupersedeStep(p) PROVE GenerationsOK'
  BY <1>0, <1>2 DEF GenerationsOK, SupersedeStep, InvalidateLocked, Only, Queued
<1>3. ASSUME NEW p \in Procs, LocalStep(p) PROVE GenerationsOK'
  BY <1>0, <1>3 DEF GenerationsOK, LocalStep, Only, Queued
<1>4. ASSUME NEW p \in Procs, BeginStep(p) PROVE GenerationsOK'
  BY <1>0, <1>4 DEF GenerationsOK, BeginStep, Only, Queued
<1>5. ASSUME NEW p \in Procs, AnswerStep(p) PROVE GenerationsOK'
  BY <1>0, <1>5 DEF GenerationsOK, AnswerStep, Only, Queued, locks
<1>6. ASSUME NEW p \in Procs, CommitStep(p) PROVE GenerationsOK'
  BY <1>0, <1>6 DEF GenerationsOK, CommitStep, Only, Queued
<1> QED
  BY <1>1, <1>2, <1>3, <1>4, <1>5, <1>6 DEF Shaped

LEMMA GuardedStep == TypeOK /\ GenerationsOK /\ Guarded /\ Shaped => Guarded'
<1> SUFFICES ASSUME TypeOK, GenerationsOK, Guarded, Shaped PROVE Guarded'
  OBVIOUS
<1>0. /\ generation \in Nat /\ \A q \in Procs : req[q].gen \in Nat /\ req[q].gen <= generation
      /\ cancel \in Procs \cup {NoProc} /\ opMu \in Procs \cup {NoProc}
      /\ NoProc \notin Procs
  BY ProcAssumption DEF TypeOK, GenerationsOK, RequestRecords
<1>1. CASE StillStep
  BY <1>1 DEF Guarded, CancelIsOfTheNewest, SupersededIsCancelled, NewestIsNotCancelled,
     NewestHasCancel, StillStep, locks, Working
<1>2. ASSUME NEW p \in Procs, SupersedeStep(p) PROVE Guarded'
  <2>1. \A q \in Procs : Working(q)' => Working(q) /\ req'[q] = req[q] /\ req'[q].gen # generation'
    BY <1>0, <1>2 DEF SupersedeStep, InvalidateLocked, Only, Working
  <2>2. \A q \in Procs : Working(q) => Working(q)'
    BY <1>2 DEF SupersedeStep, Only, Working
  <2>3. cancelled' = cancelled \cup ({cancel} \ {NoProc}) /\ cancel' = NoProc /\ opMu' = opMu
    BY <1>2 DEF SupersedeStep, InvalidateLocked
  <2> QED
    BY <1>0, <2>1, <2>2, <2>3 DEF Guarded, CancelIsOfTheNewest, SupersededIsCancelled,
       NewestIsNotCancelled, NewestHasCancel
<1>3. ASSUME NEW p \in Procs, LocalStep(p) PROVE Guarded'
  <2>1. \A q \in Procs : (Working(q)' <=> Working(q)) /\ (Working(q) => req'[q] = req[q])
    BY <1>3 DEF LocalStep, Only, Working
  <2> QED
    BY <1>0, <1>3, <2>1 DEF Guarded, CancelIsOfTheNewest, SupersededIsCancelled,
       NewestIsNotCancelled, NewestHasCancel, LocalStep
<1>4. ASSUME NEW p \in Procs, BeginStep(p) PROVE Guarded'
  <2>1. \A q \in Procs : Working(q)' <=> q = p
    BY <1>0, <1>4 DEF BeginStep, Only, Working, Guarded, CancelIsOfTheNewest
  <2> QED
    BY <1>0, <1>4, <2>1 DEF Guarded, CancelIsOfTheNewest, SupersededIsCancelled,
       NewestIsNotCancelled, NewestHasCancel, BeginStep
<1>5. ASSUME NEW p \in Procs, AnswerStep(p) PROVE Guarded'
  <2>1. \A q \in Procs : (Working(q)' <=> Working(q)) /\ req'[q].gen = req[q].gen
    BY <1>5 DEF AnswerStep, Only, Working
  <2> QED
    BY <1>0, <1>5, <2>1 DEF Guarded, CancelIsOfTheNewest, SupersededIsCancelled,
       NewestIsNotCancelled, NewestHasCancel, AnswerStep, locks
<1>6. ASSUME NEW p \in Procs, CommitStep(p) PROVE Guarded'
  <2>1. \A q \in Procs : ~Working(q)'
    BY <1>6 DEF CommitStep, Only, Working, Guarded, CancelIsOfTheNewest
  <2>2. cancel' # NoProc /\ ~closed' => FALSE
    BY <1>0, <1>6 DEF CommitStep, Superseded, Working, Guarded, CancelIsOfTheNewest
  <2> QED
    BY <1>0, <1>6, <2>1, <2>2 DEF Guarded, CancelIsOfTheNewest, SupersededIsCancelled,
       NewestIsNotCancelled, NewestHasCancel, CommitStep
<1> QED
  BY <1>1, <1>2, <1>3, <1>4, <1>5, <1>6 DEF Shaped
LEMMA StopURIStep ==
    TypeOK /\ GenerationsOK /\ Guarded /\ StopURIReserved /\ Shaped => StopURIReserved'
<1> SUFFICES ASSUME TypeOK, GenerationsOK, Guarded, StopURIReserved, Shaped
             PROVE StopURIReserved'
  OBVIOUS
<1>0. generation \in Nat /\ \A q \in Procs : req[q].gen \in Nat /\ req[q].gen <= generation
  BY DEF TypeOK, GenerationsOK, RequestRecords
<1>1. CASE StillStep
  BY <1>1 DEF StopURIReserved, StillStep, locks, Queued
<1>2. ASSUME NEW p \in Procs, SupersedeStep(p) PROVE StopURIReserved'
  BY <1>0, <1>2 DEF StopURIReserved, SupersedeStep, InvalidateLocked, Only, Queued
<1>3. ASSUME NEW p \in Procs, LocalStep(p) PROVE StopURIReserved'
  BY <1>3 DEF StopURIReserved, LocalStep, Only, Queued, Superseding
<1>4. ASSUME NEW p \in Procs, BeginStep(p) PROVE StopURIReserved'
  BY <1>4 DEF StopURIReserved, BeginStep, Only, Queued
<1>5. ASSUME NEW p \in Procs, AnswerStep(p) PROVE StopURIReserved'
  BY <1>5 DEF StopURIReserved, AnswerStep, Only, Queued, locks
<1>6. ASSUME NEW p \in Procs, CommitStep(p) PROVE StopURIReserved'
  <2>1. CASE uri' = uri
    BY <1>6, <2>1 DEF StopURIReserved, CommitStep, Only, Queued
  <2>2. CASE req[p].kind = "airplay" /\ req[p].gen = generation
    <3>1. \A q \in Procs : Queued(q) /\ req[q].kind = "stop" /\ req[q].gen = generation => q = p
      BY <1>6, <2>2 DEF GenerationsOK, CommitStep, Queued, Superseding
    <3> QED
      BY <1>6, <2>2, <3>1 DEF StopURIReserved, CommitStep, Only, Queued
  <2> QED
    BY <1>6, <2>1, <2>2 DEF CommitStep
<1> QED
  BY <1>1, <1>2, <1>3, <1>4, <1>5, <1>6 DEF Shaped

LEMMA CloseStep ==
    TypeOK /\ LocalsOK /\ GenerationsOK /\ Guarded /\ CloseSettled /\ Shaped => CloseSettled'
<1> SUFFICES ASSUME TypeOK, LocalsOK, GenerationsOK, Guarded, CloseSettled, Shaped,
                    NEW c \in Requests, req'[c].kind = "close", pc'[c] = "done"
             PROVE closed' /\ \A p \in Procs : Working(p)' => p \in cancelled'
  BY DEF CloseSettled
<1>0. /\ generation \in Nat /\ \A q \in Procs : req[q].gen \in Nat /\ req[q].gen <= generation
      /\ c \in Procs
  BY DEF TypeOK, GenerationsOK, RequestRecords, Procs
<1>1. CASE StillStep
  BY <1>1 DEF CloseSettled, StillStep, locks, Working
<1>2. ASSUME NEW p \in Procs, SupersedeStep(p)
      PROVE closed' /\ \A q \in Procs : Working(q)' => q \in cancelled'
  <2>1. closed'
    BY <1>0, <1>2 DEF SupersedeStep, InvalidateLocked, Only, CloseSettled
  <2>2. \A q \in Procs : Working(q)' => Working(q)
    BY <1>2 DEF SupersedeStep, Only, Working
  <2>3. \A q \in Procs : Working(q) => q \in cancelled'
    <3>1. ASSUME NEW q \in Procs, Working(q), req[q].gen = generation PROVE q = cancel /\ q # NoProc
      BY <3>1, ProcAssumption DEF Guarded, NewestHasCancel
    <3> QED
      BY <1>2, <3>1 DEF SupersedeStep, InvalidateLocked, Guarded, SupersededIsCancelled
  <2> QED
    BY <2>1, <2>2, <2>3
<1>3. ASSUME NEW p \in Procs, LocalStep(p)
      PROVE closed' /\ \A q \in Procs : Working(q)' => q \in cancelled'
  BY <1>0, <1>3 DEF CloseSettled, LocalStep, Only, Working
<1>4. ASSUME NEW p \in Procs, BeginStep(p)
      PROVE closed' /\ \A q \in Procs : Working(q)' => q \in cancelled'
  BY <1>0, <1>4 DEF CloseSettled, BeginStep, Only, Working
<1>5. ASSUME NEW p \in Procs, AnswerStep(p)
      PROVE closed' /\ \A q \in Procs : Working(q)' => q \in cancelled'
  BY <1>0, <1>5 DEF CloseSettled, AnswerStep, Only, Working, locks
<1>6. ASSUME NEW p \in Procs, CommitStep(p)
      PROVE closed' /\ \A q \in Procs : Working(q)' => q \in cancelled'
  <2>1. req[p].kind # "close"
    BY <1>6 DEF CommitStep, LocalsOK, LocalsAt, Queued, CommandKinds
  <2> QED
    BY <1>0, <1>6, <2>1 DEF CloseSettled, CommitStep, Only, Working
<1> QED
  BY <1>1, <1>2, <1>3, <1>4, <1>5, <1>6 DEF Shaped

LEMMA InitIInv == Init => IInv
<1> SUFFICES ASSUME Init PROVE IInv
  OBVIOUS
<1>1. TypeOK
  BY TypeInit
<1>2. \A p \in Procs : /\ pc[p] = IF p = Poller THEN "tick" ELSE "new"
                       /\ req[p].kind = "none" /\ req[p].gen = 0
  BY DEF Init, Request
<1>3. opMu = NoProc /\ cancel = NoProc /\ cancelled = {} /\ generation = 0
  BY DEF Init
<1> QED
  BY <1>1, <1>2, <1>3, ProcAssumption
  DEF IInv, LocalsOK, LocalsAt, GenerationsOK, NewestHasCancel, CancelIsOfTheNewest,
      SupersededIsCancelled, NewestIsNotCancelled, StopURIReserved, CloseSettled,
      Queued, Working, Procs

LEMMA NextIInv == IInv /\ [Next]_vars => IInv'
BY NextShape, NextType, LocalsStep, GenerationsStep, GuardedStep, StopURIStep, CloseStep
DEF IInv, Guarded

(* The inductive invariant holds of every renderer.                        *)
THEOREM Invariance == Spec => []IInv
BY InitIInv, NextIInv, PTL DEF Spec

(* Every variable keeps its type, whatever calls interleave.               *)
THEOREM TypeCorrect == Spec => []TypeOK
<1>1. IInv => TypeOK
  BY DEF IInv
<1> QED
  BY Invariance, <1>1, PTL

(* One command at the cloud at a time; r.cancel is its and the newest's.   *)
THEOREM CancelOwner == Spec => []CancelIsOfTheNewest
<1>1. IInv => CancelIsOfTheNewest
  BY DEF IInv
<1> QED
  BY Invariance, <1>1, PTL

(* A command at the cloud has been cancelled exactly if it is superseded:  *)
(* no newer one waits for its answer, and the newest is left alone.        *)
THEOREM CancelIsExact == Spec => []CancelledIsSuperseded
<1>1. IInv => CancelledIsSuperseded
  BY DEF IInv, SupersededIsCancelled, NewestIsNotCancelled, CancelledIsSuperseded
<1> QED
  BY Invariance, <1>1, PTL

(* After Close nothing talks to the cloud with a live context.             *)
THEOREM CloseIsFinal == Spec => []CloseStopsTheCloud
<1>1. IInv => CloseStopsTheCloud
  BY DEF IInv, CloseSettled, CloseStopsTheCloud, Working
<1> QED
  BY Invariance, <1>1, PTL

(* An alarm's deadline stops nothing but the alarm's own address.          *)
THEOREM StopURIIsExact == Spec => []StopURIStopsItsOwn
<1>1. IInv => StopURIStopsItsOwn
  BY DEF IInv, StopURIReserved, SupersededIsCancelled, StopURIStopsItsOwn, Working, Queued
<1> QED
  BY Invariance, <1>1, PTL

(***************************************************************************)
(* The renderer implements LatestWins, for every number of requests,       *)
(* sources and levels: each shape of a step is a step or a stutter of the  *)
(* promise.                                                                *)
(***************************************************************************)

Playback == <<state, uri, airplay, mute>>
Current == {p \in Procs : Reserved(p)}
Accepted == {p \in Procs : pc[p] = "commit" /\ req[p].ok}

(* What the steps below need of the invariant.                             *)
LEMMA Facts ==
    ASSUME IInv
    PROVE  /\ NoProc \notin Procs /\ generation \in Nat
           /\ \A q \in Procs : req[q].gen \in Nat /\ req[q].gen <= generation
           /\ \A q \in Procs : Working(q) <=> opMu = q
           /\ Poller \in Procs
BY ProcAssumption DEF IInv, TypeOK, GenerationsOK, CancelIsOfTheNewest, RequestRecords, Procs

LEMMA SupersedePromised ==
    ASSUME IInv, NEW p \in Procs, SupersedeStep(p)
    PROVE  Promise!Supersede
<1>1. \A q \in Procs \ {p} : q \notin Current'
  BY Facts DEF SupersedeStep, InvalidateLocked, Only, Current, Reserved, Superseded
<1>2. Accepted' = Accepted /\ opMu' = opMu
  BY DEF SupersedeStep, InvalidateLocked, Only, Accepted
<1>3. p # opMu
  BY Facts DEF SupersedeStep, Working
<1>4. Current' = {} \/ Current' = {p}
  BY <1>1 DEF Current
<1> QED
  BY <1>2, <1>3, <1>4 DEF Promise!Supersede, Current, Accepted

LEMMA LocalPromised ==
    ASSUME IInv, IInv', NEW p \in Procs, LocalStep(p), UNCHANGED Playback
    PROVE  [Promise!Next]_(Promise!vars)
<1>1. Accepted' = Accepted /\ opMu' = opMu
  BY DEF LocalStep, Only, Accepted
<1>2. p # opMu
  BY Facts DEF LocalStep, Working
<1>3. CASE closed' # closed
  <2>1. closed'
    BY <1>3 DEF IInv, TypeOK, LocalStep
  <2>2. Current' = {}
    BY <2>1 DEF Current, Reserved, Superseded
  <2> QED
    BY <1>1, <2>2 DEF Promise!Next, Promise!Supersede, Current, Accepted
<1>4. CASE closed' = closed
  <2>1. \A q \in Procs \ {p} : q \in Current' <=> q \in Current
    BY <1>4 DEF LocalStep, Only, Current, Reserved, Superseded
  <2>2. Current \subseteq Procs /\ Current' \subseteq Procs
    BY DEF Current
  <2>3. CASE p \in Current'
    <3>1. Current' = Current \cup {p}
      BY <2>1, <2>2, <2>3
    <3>2. Promise!Join(p)
      BY <1>1, <1>2, <3>1 DEF Promise!Join, Playback, Current, Accepted
    <3> QED
      BY <3>2 DEF Promise!Next
  <2>4. CASE p \notin Current'
    <3>1. Current' = Current \ {p}
      BY <2>1, <2>2, <2>4
    <3>2. p \notin Accepted
      BY DEF LocalStep, Accepted
    <3>3. Promise!Leave(p)
      BY <1>1, <1>2, <3>1, <3>2 DEF Promise!Leave, Playback, Current, Accepted
    <3> QED
      BY <3>3 DEF Promise!Next
  <2> QED
    BY <2>3, <2>4
<1> QED
  BY <1>3, <1>4

LEMMA BeginPromised ==
    ASSUME IInv, NEW p \in Procs, BeginStep(p), UNCHANGED Playback
    PROVE  Promise!Work(p)
<1>1. Current' = Current /\ p \in Current
  BY DEF BeginStep, Only, Current, Reserved, Superseded
<1>2. Accepted' \in {Accepted, Accepted \cup {p}}
  <2>1. \A q \in Procs \ {p} : q \in Accepted' <=> q \in Accepted
    BY DEF BeginStep, Only, Accepted
  <2>2. p \notin Accepted
    BY DEF BeginStep, Accepted
  <2> QED
    BY <2>1, <2>2 DEF Accepted
<1> QED
  BY <1>1, <1>2 DEF BeginStep, Promise!Work, Playback, Current, Accepted

LEMMA AnswerPromised ==
    ASSUME IInv, NEW p \in Procs, AnswerStep(p), UNCHANGED Playback
    PROVE  [Promise!Next]_(Promise!vars)
<1>1. Current' = Current /\ opMu' = opMu
  BY DEF AnswerStep, Only, Current, Reserved, Superseded, locks
<1>2. opMu = p
  BY Facts DEF AnswerStep, Working
<1>3. \A q \in Procs \ {p} : q \in Accepted' <=> q \in Accepted
  BY DEF AnswerStep, Only, Accepted
<1>4. p \notin Accepted
  BY DEF AnswerStep, Accepted
<1>5. Accepted' = Accepted \/ Accepted' = Accepted \cup {p}
  BY <1>3, <1>4 DEF Accepted
<1>6. CASE Accepted' = Accepted
  BY <1>1, <1>6 DEF Promise!vars, Playback, Current, Accepted
<1>7. CASE Accepted' = Accepted \cup {p}
  <2>1. Promise!Accept(p)
    BY <1>1, <1>2, <1>7 DEF Promise!Accept, Playback, Current, Accepted
  <2> QED
    BY <2>1 DEF Promise!Next
<1> QED
  BY <1>5, <1>6, <1>7

LEMMA CommitPromised ==
    ASSUME IInv, NEW p \in Procs, CommitStep(p),
           UNCHANGED Playback \/ (~Superseded(p) /\ req[p].ok)
    PROVE  Promise!Next
<1>1. opMu = p /\ opMu' = NoProc
  BY Facts DEF CommitStep, Working
<1>2. Current' = Current \ {p}
  BY DEF CommitStep, Only, Current, Reserved, Superseded
<1>3. Accepted' = Accepted \ {p}
  BY DEF CommitStep, Only, Accepted
<1>4. CASE UNCHANGED Playback
  <2>1. Promise!Leave(p)
    BY <1>1, <1>2, <1>3, <1>4 DEF Promise!Leave, Playback, Current, Accepted
  <2> QED
    BY <2>1 DEF Promise!Next
<1>5. CASE ~Superseded(p) /\ req[p].ok
  <2>1. p \in Current \cap Accepted
    BY <1>5 DEF CommitStep, Current, Reserved, Accepted
  <2>2. Promise!Apply(p)
    BY <1>1, <1>2, <1>3, <2>1 DEF Promise!Apply, Current, Accepted
  <2> QED
    BY <2>2 DEF Promise!Next
<1> QED
  BY <1>4, <1>5

LEMMA StillPromised ==
    ASSUME StillStep, UNCHANGED Playback
    PROVE  UNCHANGED Promise!vars
<1>1. Current' = Current /\ Accepted' = Accepted /\ opMu' = opMu
  BY DEF StillStep, locks, Current, Accepted, Reserved, Superseded
<1> QED
  BY <1>1 DEF Promise!vars, Playback, Current, Accepted

(* A poll that is not outdated finds no command under way.                 *)
LEMMA PollPromised ==
    ASSUME IInv, PollApply, ~Outdated
    PROVE  Promise!Observe
<1>1. pc[Poller] = "answer" /\ pc'[Poller] \in {"advance", "tick"} /\ UNCHANGED <<locks, req>>
  BY Facts DEF PollApply, Goto, IInv, TypeOK
<1>2. \A q \in Procs \ {Poller} : pc'[q] = pc[q]
  BY DEF PollApply, Goto, IInv, TypeOK
<1>3. Current' = Current /\ Accepted' = Accepted /\ opMu' = opMu
  BY <1>1, <1>2 DEF locks, Current, Accepted, Reserved, Superseded
<1>4. opMu \notin Current
  <2>1. cancel = NoProc
    BY DEF Outdated
  <2> QED
    BY <2>1, Facts DEF Current, Reserved, Superseded, IInv, NewestHasCancel
<1> QED
  BY <1>3, <1>4 DEF Promise!Observe, Current, Accepted

(* The playback changes in four ways only.                                 *)
LEMMA PlaybackChanges ==
    ASSUME IInv, [Next]_vars
    PROVE  \/ UNCHANGED Playback
           \/ \E p \in Procs : SupersedeStep(p)
           \/ \E p \in Procs : CommitStep(p) /\ ~Superseded(p) /\ req[p].ok
           \/ PollApply /\ ~Outdated
<1>0. TypeOK /\ LocalsOK /\ GenerationsOK
  BY DEF IInv
<1>1. ASSUME NEW p \in Procs, Call(p), ~SetURI(p) PROVE UNCHANGED Playback
  BY <1>1 DEF Call, SetNext, Play, Pause, StartAirPlay, Stop, EndAirPlay, Seek, SetVolume,
     SetMute, CallNext, TakeNext, Close, fields, playback, loudness, Playback
<1>2. ASSUME NEW p \in Procs, Continue(p), ~NextSetURI(p), ~Commit(p) PROVE UNCHANGED Playback
  BY <1>2 DEF Continue, Reserve, ReserveAlarm, PlayAt, Drop, Begin, Answer, fields, playback,
     loudness, Playback
<1>3. ASSUME NEW p \in Procs, SetURI(p) \/ NextSetURI(p) PROVE SupersedeStep(p)
  BY <1>0, <1>3, SetURIShape
<1>4. ASSUME NEW p \in Procs, Commit(p)
      PROVE  UNCHANGED Playback \/ (CommitStep(p) /\ ~Superseded(p) /\ req[p].ok)
  <2>1. CommitStep(p)
    BY <1>0, <1>4, CommitShape
  <2> QED
    BY <1>4, <2>1 DEF Commit, Counts, fields, playback, loudness, Playback
<1>5. PollTick \/ PollStatus \/ Age \/ SpeakerEnds \/ Idle => UNCHANGED Playback
  BY DEF PollTick, PollStatus, Age, SpeakerEnds, Idle, vars, fields, loudness, Playback
<1>6. PollApply /\ Outdated => UNCHANGED Playback
  BY DEF PollApply, fields, Playback
<1>7. UNCHANGED vars => UNCHANGED Playback
  BY DEF vars, fields, Playback
<1> QED
  BY <1>1, <1>2, <1>3, <1>4, <1>5, <1>6, <1>7 DEF Next

LEMMA StepPromised ==
    ASSUME IInv, IInv', [Next]_vars
    PROVE  [Promise!Next]_(Promise!vars)
<1>1. ASSUME NEW p \in Procs, SupersedeStep(p) PROVE Promise!Next
  BY <1>1, SupersedePromised DEF Promise!Next
<1>2. ASSUME NEW p \in Procs, CommitStep(p), ~Superseded(p), req[p].ok PROVE Promise!Next
  BY <1>2, CommitPromised
<1>3. PollApply /\ ~Outdated => Promise!Next
  BY PollPromised DEF Promise!Next
<1>4. CASE UNCHANGED Playback
  <2>1. Shaped
    BY NextShape DEF IInv
  <2>2. ASSUME NEW p \in Procs, LocalStep(p) PROVE [Promise!Next]_(Promise!vars)
    BY <1>4, <2>2, LocalPromised
  <2>3. ASSUME NEW p \in Procs, BeginStep(p) PROVE Promise!Next
    BY <1>4, <2>3, BeginPromised DEF Promise!Next
  <2>4. ASSUME NEW p \in Procs, AnswerStep(p) PROVE [Promise!Next]_(Promise!vars)
    BY <1>4, <2>4, AnswerPromised
  <2>5. ASSUME NEW p \in Procs, CommitStep(p) PROVE Promise!Next
    BY <1>4, <2>5, CommitPromised
  <2>6. StillStep => UNCHANGED Promise!vars
    BY <1>4, StillPromised
  <2> QED
    BY <1>1, <2>1, <2>2, <2>3, <2>4, <2>5, <2>6 DEF Shaped
<1> QED
  BY <1>1, <1>2, <1>3, <1>4, PlaybackChanges

LEMMA InitPromised == Init => Promise!Init
<1> SUFFICES ASSUME Init PROVE Promise!Init
  OBVIOUS
<1>1. \A p \in Procs : pc[p] \in {"tick", "new"}
  BY DEF Init
<1>2. Current = {} /\ Accepted = {} /\ opMu = NoProc
  BY <1>1 DEF Init, Current, Accepted, Reserved
<1> QED
  BY <1>2 DEF Promise!Init, Current, Accepted

(* The renderer keeps its promise, with any number of commands: one that   *)
(* was superseded, or that the speaker refused, never changes the playback *)
(* state, and a poll never meddles with the one under way.                 *)
THEOREM PromiseKept == Spec => LatestCommandWins
<1>1. IInv /\ IInv' /\ [Next]_vars => [Promise!Next]_(Promise!vars)
  BY StepPromised
<1>2. Init => Promise!Init
  BY InitPromised
<1> QED
  BY <1>1, <1>2, Invariance, PTL DEF Spec, LatestCommandWins, Promise!Spec

(***************************************************************************)
(* A poll that began in the calm undoes nothing.                           *)
(***************************************************************************)

PollAt == pc[Poller] \in {"status", "answer"}

(* What a step of a process leaves to the poll.                            *)
LEMMA LocalToThePoll ==
    ASSUME IInv, NEW p \in Procs, Call(p) \/ Continue(p)
    PROVE  /\ seen' = seen
           /\ PollAt' => p # Poller /\ pc'[Poller] = pc[Poller]
           /\ \/ InvalidateLocked \/ Begin(p) \/ Answer(p) \/ Commit(p)
              \/ UNCHANGED <<overtaken, state, age>>
<1>1. seen' = seen
  BY DEF Call, SetURI, SetNext, Play, Pause, StartAirPlay, Stop, EndAirPlay, Seek, SetVolume,
     SetMute, CallNext, TakeNext, Close, Continue, Reserve, ReserveAlarm, PlayAt, NextSetURI,
     Drop, Begin, Answer, Commit, poll
<1>2. \E where \in PCs \ {"status", "answer"} : pc' = [pc EXCEPT ![p] = where]
  BY DEF Call, SetURI, SetNext, Play, Pause, StartAirPlay, Stop, StopSection, EndAirPlay, Seek,
     SetVolume, SetMute, CallNext, TakeNext, Close, Continue, Reserve, ReserveAlarm, PlayAt,
     NextSetURI, Drop, Begin, Answer, Commit, Goto, Return, PCs
<1>3. PollAt' => p # Poller /\ pc'[Poller] = pc[Poller]
  BY <1>2, Facts DEF PollAt, IInv, TypeOK
<1>4. \/ InvalidateLocked \/ Begin(p) \/ Answer(p) \/ Commit(p)
      \/ UNCHANGED <<overtaken, state, age>>
  BY DEF Call, SetURI, SetURISection, SetNext, Play, Pause, StartAirPlay, Stop, StopSection,
     EndAirPlay, Seek, SetVolume, SetMute, CallNext, TakeNext, Close, Continue, Reserve,
     ReserveAlarm, PlayAt, NextSetURI, Drop, fields, playback, poll
<1> QED
  BY <1>1, <1>3, <1>4

LEMMA SupersedeAndPoll ==
    ASSUME IInv, PollInv, NEW p \in Procs, SupersedeStep(p), seen' = seen,
           PollAt' => p # Poller /\ pc'[Poller] = pc[Poller]
    PROVE  PollInv'
<1>1. /\ generation' = generation + 1 /\ seen.gen \in Nat /\ seen.gen <= generation
      /\ overtaken' = (overtaken \/ pc[Poller] = "answer")
  BY DEF SupersedeStep, InvalidateLocked, Overtake, PollInv, IInv, TypeOK
<1>2. ~PollFresh' /\ seen'.gen <= generation'
  BY <1>1, Facts DEF PollFresh
<1>3. pc'[Poller] = "status" => ~overtaken'
  BY <1>1 DEF PollAt, PollInv
<1>4. \A q \in Procs : pc'[q] = "wire" => q # p /\ pc[q] = "wire" /\ req'[q] = req[q]
  BY DEF SupersedeStep, Only
<1>5. CallsLeft' /\ PlayFromStill'
  <2>1. CallsLeft'
    BY <1>4 DEF PollInv, CallsLeft
  <2>2. \A q \in Procs : req[q].gen # generation'
    BY <1>1, Facts
  <2> QED
    BY <1>4, <2>1, <2>2 DEF PlayFromStill
<1> QED
  BY <1>2, <1>3, <1>5 DEF PollInv

LEMMA LocalAndPoll ==
    ASSUME IInv, PollInv, NEW p \in Procs, LocalStep(p), seen' = seen,
           PollAt' => p # Poller /\ pc'[Poller] = pc[Poller],
           UNCHANGED <<overtaken, state, age>>
    PROVE  PollInv'
<1>1. UNCHANGED <<generation, cancel>> /\ (closed => closed')
  BY DEF LocalStep
<1>2. /\ pc'[p] \notin {"wire", "commit"} /\ pc[p] \notin {"wire", "commit"}
      /\ \A q \in Procs \ {p} : pc'[q] = pc[q] /\ req'[q] = req[q]
  BY DEF LocalStep, Only
<1>3. CallsLeft' /\ PlayFromStill'
  BY <1>1, <1>2 DEF PollInv, CallsLeft, PlayFromStill
<1>4. PollFresh' => PollFresh
  BY <1>1 DEF PollFresh, PollAt
<1>5. PollFresh => \A q \in Procs : Queued(q)' /\ req'[q].gen = generation
                                    => req'[q].kind \notin Superseding
  BY <1>2 DEF PollInv, Queued, LocalStep
<1>6. \A q \in Procs : Started(q) => Started(q)'
  BY <1>1, <1>2 DEF Started, Working
<1> QED
  BY <1>1, <1>3, <1>4, <1>5, <1>6 DEF PollInv, PollAt

LEMMA BeginAndPoll ==
    ASSUME IInv, PollInv, NEW p \in Procs, Begin(p), BeginStep(p),
           PollAt' => p # Poller /\ pc'[Poller] = pc[Poller]
    PROVE  PollInv'
<1>1. UNCHANGED <<generation, closed, seen, overtaken, state, age>> /\ ~closed
  BY DEF Begin, BeginStep, fields, poll
<1>2. /\ \A q \in Procs \ {p} : pc'[q] = pc[q] /\ req'[q] = req[q]
      /\ req'[p].gen = req[p].gen /\ req'[p].kind = req[p].kind /\ pc[p] = "lock"
  BY DEF BeginStep, Only
<1>3. \A q \in Procs : ~Working(q)
  BY Facts DEF BeginStep
<1>4. pc'[p] = "wire" => ~(req[p].kind = "play" /\ state = "PLAYING")
                         /\ req'[p].calls = CallsOf(req[p])
  BY DEF Begin, Goto, IInv, TypeOK, RequestRecords
<1>5. CallsLeft'
  BY <1>2, <1>3, <1>4 DEF CallsLeft, Working, CallsOf, CloudCalls
<1>6. PlayFromStill'
  BY <1>1, <1>2, <1>3, <1>4 DEF PlayFromStill, Working
<1>7. PollFresh' => PollFresh
  BY <1>1 DEF PollFresh, PollAt
<1>8. PollFresh => \A q \in Procs : Queued(q)' /\ req'[q].gen = generation
                                    => req'[q].kind \notin Superseding
  BY <1>2 DEF PollInv, Queued
<1>9. PollFresh /\ overtaken => state = "PLAYING" /\ age = "new"
  BY <1>1, <1>3 DEF PollInv, Started
<1> QED
  BY <1>1, <1>5, <1>6, <1>7, <1>8, <1>9 DEF PollInv, PollAt

LEMMA CommitAndPoll ==
    ASSUME IInv, PollInv, NEW p \in Procs, Commit(p), CommitStep(p),
           PollAt' => p # Poller /\ pc'[Poller] = pc[Poller]
    PROVE  PollInv'
<1>1. UNCHANGED <<generation, closed, seen, overtaken, req>>
  BY DEF Commit, poll
<1>2. /\ \A q \in Procs \ {p} : pc'[q] = pc[q]
      /\ pc[p] = "commit" /\ pc'[p] \notin {"lock", "wire", "commit"}
  BY DEF CommitStep, Only
<1>3. \A q \in Procs \ {p} : ~Working(q)
  BY <1>2, Facts DEF Working
<1>4. CallsLeft' /\ PlayFromStill'
  BY <1>2, <1>3 DEF CallsLeft, PlayFromStill, Working
<1>5. PollFresh' => PollFresh
  BY <1>1 DEF PollFresh, PollAt
<1>6. PollFresh => \A q \in Procs : Queued(q)' /\ req'[q].gen = generation
                                    => req'[q].kind \notin Superseding
  BY <1>1, <1>2 DEF PollInv, Queued
<1>7. ASSUME PollFresh, overtaken
      PROVE  (state' = "PLAYING" /\ age' = "new") \/ (closed /\ cancel' # NoProc)
  <2>0. \/ state = "PLAYING" /\ age = "new"
        \/ Started(p)
        \/ closed /\ cancel # NoProc
    <3>1. \A q \in Procs : Started(q) => q = p
      BY <1>3 DEF Started
    <3> QED
      BY <1>7, <3>1 DEF PollInv
  <2>1. CASE ~Counts(p) /\ UNCHANGED <<fields, cancel>>
    <3>1. CASE Started(p)
      <4>1. closed /\ cancel = p
        BY <2>1, <3>1 DEF Counts, Superseded, Started, IInv, NewestHasCancel
      <4> QED
        BY <2>1, <4>1, Facts
    <3> QED
      BY <2>0, <2>1, <3>1 DEF fields
  <2>2. CASE Counts(p) /\ req[p].ok /\ Success(req[p])
    <3>1. req[p].gen = generation /\ ~closed
      BY <2>2 DEF Counts, Superseded
    <3>2. req[p].kind \in {"play", "resume", "alarm", "volume", "mute"}
      BY <1>2, <1>7, <3>1
      DEF PollInv, Queued, Superseding, IInv, LocalsOK, LocalsAt, CommandKinds, Kinds
    <3>3. (state = "PLAYING" /\ age = "new") \/ Started(p)
      BY <2>0, <3>1
    <3>4. CASE req[p].kind \in {"volume", "mute"}
      <4>1. ~Started(p)
        BY <3>4 DEF Started
      <4>2. state' = state /\ age' = age
        BY <2>2, <3>4 DEF Success
      <4> QED
        BY <3>3, <4>1, <4>2
    <3>5. CASE req[p].kind \in {"play", "resume", "alarm"}
      <4>1. state' = "PLAYING"
        BY <2>2, <3>5 DEF Success
      <4>2. age' = IF req[p].kind = "play" /\ state = "PLAYING" THEN age ELSE "new"
        BY <2>2, <3>5, <4>1 DEF Success
      <4>3. Started(p) => ~(req[p].kind = "play" /\ state = "PLAYING")
        BY DEF Started
      <4> QED
        BY <3>3, <4>1, <4>2, <4>3
    <3> QED
      BY <3>2, <3>4, <3>5
  <2>3. CASE Counts(p) /\ ~req[p].ok /\ UNCHANGED playback
    <3>1. ~Started(p) /\ ~closed
      BY <1>2, <2>3 DEF Started, Counts, Superseded
    <3> QED
      BY <2>0, <2>3, <3>1 DEF playback
  <2> QED
    BY <2>1, <2>2, <2>3 DEF Commit
<1> QED
  BY <1>1, <1>4, <1>5, <1>6, <1>7 DEF PollInv, PollAt

LEMMA Tails ==
    /\ \A x : Tail(<<x>>) = <<>>
    /\ \A x, y : Tail(<<x, y>>) = <<y>>
<1>1. ASSUME NEW x PROVE Tail(<<x>>) = <<>>
  BY <1>1
<1>2. ASSUME NEW x, NEW y PROVE Tail(<<x, y>>) = <<y>>
  <2>1. Len(<<x, y>>) = 2
    OBVIOUS
  <2> QED
    BY <2>1
<1> QED
  BY <1>1, <1>2

LEMMA AnswerAndPoll ==
    ASSUME IInv, PollInv, NEW p \in Procs, Answer(p), AnswerStep(p),
           PollAt' => p # Poller /\ pc'[Poller] = pc[Poller]
    PROVE  PollInv'
<1> DEFINE q == req[p]
           rest == Tail(q.calls)
<1>1. UNCHANGED <<generation, cancel, cancelled, closed, seen, state, age>> /\ pc[p] = "wire"
  BY DEF Answer, fields, locks
<1>2. /\ \A i \in Procs \ {p} : pc'[i] = pc[i] /\ req'[i] = req[i]
      /\ req'[p].gen = q.gen /\ req'[p].kind = q.kind /\ pc'[p] \in {"wire", "commit"}
  BY DEF AnswerStep, Only
<1>3. \A i \in Procs \ {p} : ~Working(i)
  BY <1>1, Facts DEF Working
<1>4. PICK outcome \in Outcomes :
        LET fatal == outcome # "ok" /\ ~BestEffort(q)
            over == fatal \/ rest = <<>> \/ p \in cancelled
            ok == ~fatal /\ (rest = <<>> \/ BestEffort([q EXCEPT !.calls = rest]))
        IN  /\ req' = [req EXCEPT ![p].calls = IF over THEN <<>> ELSE rest,
                                  ![p].ok = over /\ ok]
            /\ Goto(p, IF over THEN "commit" ELSE "wire")
            /\ IF outcome = "ok" /\ ~Superseded(p) /\ Head(q.calls) # "volume"
               THEN Overtake ELSE UNCHANGED overtaken
  BY DEF Answer
<1> DEFINE fatal == outcome # "ok" /\ ~BestEffort(q)
           over == fatal \/ rest = <<>> \/ p \in cancelled
           ok == ~fatal /\ (rest = <<>> \/ BestEffort([q EXCEPT !.calls = rest]))
<1>5. /\ req'[p].calls = (IF over THEN <<>> ELSE rest) /\ req'[p].ok = (over /\ ok)
      /\ pc'[p] = (IF over THEN "commit" ELSE "wire")
  BY <1>4 DEF Goto, IInv, TypeOK, RequestRecords
<1>6. q.kind = "play" => \/ q.calls = <<"play", "volume">> /\ rest = <<"volume">>
                         \/ q.calls = <<"volume">> /\ rest = <<>>
  BY <1>1, Tails DEF PollInv, CallsLeft
<1>7. q.kind = "alarm" => \/ q.calls = <<"volume", "play">> /\ rest = <<"play">>
                          \/ q.calls = <<"play">> /\ rest = <<>>
  BY <1>1, Tails DEF PollInv, CallsLeft
<1>8. /\ q.kind = "resume" => q.calls = <<"resume">> /\ rest = <<>>
      /\ q.kind \in {"volume", "mute"} => q.calls = <<"volume">> /\ rest = <<>>
  BY <1>1, Tails DEF PollInv, CallsLeft
<1> HIDE DEF rest
<1>9. CallsLeft'
  BY <1>2, <1>5, <1>6, <1>7, <1>8 DEF PollInv, CallsLeft
<1>10. PlayFromStill'
  BY <1>1, <1>2 DEF PollInv, PlayFromStill
<1>11. PollFresh' => PollFresh
  BY <1>1 DEF PollFresh, PollAt
<1>12. PollFresh => \A i \in Procs : Queued(i)' /\ req'[i].gen = generation
                                     => req'[i].kind \notin Superseding
  BY <1>1, <1>2 DEF PollInv, Queued
<1>13. (pc'[Poller] = "status" => ~overtaken') /\ (overtaken' => overtaken \/ (
          outcome = "ok" /\ ~Superseded(p) /\ Head(q.calls) # "volume"))
  BY <1>4 DEF Overtake, PollInv, PollAt
<1>14. ASSUME q.kind = "play", q.calls = <<"volume">>, req[p].gen = generation,
              state # "PLAYING"
       PROVE  Started(p)'
  <2>1. rest = <<>> /\ BestEffort(q)
    BY <1>6, <1>14 DEF BestEffort
  <2>2. pc'[p] = "commit" /\ req'[p].ok = TRUE
    BY <1>5, <2>1
  <2> QED
    BY <1>1, <1>2, <1>14, <2>2 DEF Started, Working
<1>15. ASSUME PollFresh, Started(p) PROVE Started(p)'
  BY <1>1, <1>14, <1>15 DEF Started
<1>16. ASSUME PollFresh, outcome = "ok", ~Superseded(p), Head(q.calls) # "volume"
       PROVE  Started(p)'
  <2>1. q.gen = generation /\ p \notin cancelled /\ ~fatal
    BY <1>1, <1>16 DEF Superseded, Working, IInv, NewestIsNotCancelled
  <2>2. q.kind \in {"play", "resume", "alarm"}
    <3>1. q.kind \in CommandKinds \ Superseding
      BY <1>1, <1>16, <2>1 DEF PollInv, Queued, IInv, LocalsOK, LocalsAt
    <3>2. q.kind \notin {"volume", "mute"}
      BY <1>8, <1>16
    <3> QED
      BY <3>1, <3>2 DEF CommandKinds, Kinds, Superseding
  <2>3. CASE q.kind = "play"
    <3>1. q.calls = <<"play", "volume">> /\ rest = <<"volume">>
      BY <1>6, <1>16, <2>3
    <3>2. rest # <<>> /\ ~over
      BY <2>1, <3>1
    <3>3. pc'[p] = "wire" /\ req'[p].calls = <<"volume">>
      BY <1>5, <3>1, <3>2
    <3>4. state # "PLAYING"
      BY <1>1, <2>1, <2>3 DEF PollInv, PlayFromStill
    <3> QED
      BY <1>1, <1>2, <2>1, <2>3, <3>3, <3>4 DEF Started, Working
  <2>4. CASE q.kind \in {"resume", "alarm"}
    <3>1. rest = <<>>
      BY <1>7, <1>8, <1>16, <2>4
    <3>2. pc'[p] = "commit" /\ req'[p].ok = TRUE
      BY <1>5, <2>1, <3>1
    <3> QED
      BY <1>1, <1>2, <2>1, <2>4, <3>2 DEF Started, Working
  <2> QED
    BY <2>2, <2>3, <2>4
<1>17. PollFresh /\ overtaken' => \/ state = "PLAYING" /\ age = "new"
                                  \/ Started(p)'
                                  \/ closed /\ cancel # NoProc
  <2>1. \A i \in Procs : Started(i) => i = p
    BY <1>3 DEF Started
  <2>2. PollFresh /\ overtaken => \/ state = "PLAYING" /\ age = "new"
                                  \/ Started(p)
                                  \/ closed /\ cancel # NoProc
    BY <2>1 DEF PollInv
  <2> QED
    BY <1>13, <1>15, <1>16, <2>2
<1> HIDE DEF over, ok, fatal
<1> QED
  BY <1>1, <1>9, <1>10, <1>11, <1>12, <1>13, <1>17 DEF PollInv, PollAt

LEMMA ProcessAndPoll ==
    ASSUME IInv, PollInv, NEW p \in Procs, Call(p) \/ Continue(p)
    PROVE  PollInv'
<1>1. /\ seen' = seen
      /\ PollAt' => p # Poller /\ pc'[Poller] = pc[Poller]
      /\ \/ InvalidateLocked \/ Begin(p) \/ Answer(p) \/ Commit(p)
         \/ UNCHANGED <<overtaken, state, age>>
  BY LocalToThePoll
<1>2. \/ SupersedeStep(p) \/ LocalStep(p)
      \/ Begin(p) /\ BeginStep(p)
      \/ Answer(p) /\ AnswerStep(p)
      \/ Commit(p) /\ CommitStep(p)
  BY CallShape, ContinueShape DEF IInv
<1>3. CASE LocalStep(p)
  <2>1. generation' = generation /\ pc[p] \notin {"wire", "commit"} /\ pc'[p] \notin {"wire", "commit"}
    BY <1>3 DEF LocalStep
  <2>2. ~InvalidateLocked
    BY <2>1, Facts DEF InvalidateLocked
  <2>3. ~Begin(p) /\ ~Answer(p) /\ ~Commit(p)
    BY <2>1 DEF Begin, Answer, Commit, Goto, IInv, TypeOK
  <2> QED
    BY <1>1, <1>3, <2>2, <2>3, LocalAndPoll
<1> QED
  BY <1>1, <1>2, <1>3, SupersedeAndPoll, BeginAndPoll, AnswerAndPoll, CommitAndPoll

LEMMA PollAndPoll ==
    ASSUME IInv, PollInv, PollTick \/ PollStatus \/ PollApply \/ Age \/ SpeakerEnds \/ UNCHANGED vars
    PROVE  PollInv'
<1>0. Poller \in Procs /\ pc \in [Procs -> PCs] /\ seen.gen <= generation
  BY Facts DEF IInv, TypeOK, PollInv
<1>1. CASE PollTick
  <2>1. /\ UNCHANGED <<generation, cancel, closed, req, state>> /\ cancel = NoProc
        /\ pc' = [pc EXCEPT ![Poller] = "status"] /\ pc[Poller] = "tick" /\ ~overtaken'
        /\ seen' = [seen EXCEPT !.gen = generation,
              !.calm = \A p \in Procs : pc[p] = "lock" => req[p].gen # generation]
    BY <1>1 DEF PollTick, Goto, locks
  <2>2. /\ seen'.gen = generation
        /\ seen'.calm => \A p \in Procs : pc[p] = "lock" => req[p].gen # generation
    BY <2>1 DEF IInv, TypeOK
  <2>3. \A p \in Procs : Working(p) => req[p].gen # generation
    BY <2>1, Facts DEF IInv, NewestHasCancel
  <2>4. /\ \A p \in Procs : pc'[p] = "wire" => pc[p] = "wire"
        /\ \A p \in Procs : Queued(p)' => Queued(p)
    BY <1>0, <2>1 DEF Queued
  <2>5. CallsLeft' /\ PlayFromStill'
    BY <2>1, <2>4 DEF PollInv, CallsLeft, PlayFromStill
  <2>6. seen'.calm => \A p \in Procs : Queued(p)' => req'[p].gen # generation'
    BY <2>1, <2>2, <2>3, <2>4 DEF Queued, Working
  <2> QED
    BY <2>1, <2>2, <2>5, <2>6, Facts DEF PollInv, PollFresh
<1>2. CASE PollStatus
  <2>1. /\ UNCHANGED <<generation, cancel, closed, req, state, age, overtaken>>
        /\ pc[Poller] = "status"
        /\ \A p \in Procs \ {Poller} : pc'[p] = pc[p]
        /\ pc'[Poller] \in {"tick", "answer"} /\ ~overtaken
    BY <1>0, <1>2 DEF PollStatus, Goto, locks, fields, PollInv
  <2>2. seen'.gen = seen.gen /\ seen'.calm = seen.calm
    BY <1>2 DEF PollStatus, IInv, TypeOK
  <2>3. \A p \in Procs : (pc'[p] = "wire" <=> pc[p] = "wire") /\ (Queued(p)' <=> Queued(p))
    BY <2>1 DEF Queued
  <2>4. CallsLeft' /\ PlayFromStill'
    BY <2>1, <2>3 DEF PollInv, CallsLeft, PlayFromStill
  <2>5. PollFresh' => PollFresh
    BY <2>1, <2>2 DEF PollFresh
  <2> QED
    BY <1>0, <2>1, <2>2, <2>3, <2>4, <2>5 DEF PollInv
<1>3. CASE PollApply
  <2>1. /\ UNCHANGED <<generation, cancel, closed, req, seen, overtaken>>
        /\ pc[Poller] = "answer"
        /\ \A p \in Procs \ {Poller} : pc'[p] = pc[p]
        /\ pc'[Poller] \in {"tick", "advance"}
    BY <1>0, <1>3 DEF PollApply, Goto, locks, poll
  <2>2. \A p \in Procs : (pc'[p] = "wire" <=> pc[p] = "wire")
    BY <2>1
  <2>3. state' = state \/ cancel = NoProc
    BY <1>3 DEF PollApply, Outdated, fields
  <2>4. PlayFromStill'
    <3>1. \A p \in Procs : pc[p] = "wire" /\ req[p].gen = generation => cancel = p /\ p # NoProc
      BY Facts DEF IInv, NewestHasCancel, Working
    <3> QED
      BY <2>1, <2>2, <2>3, <3>1 DEF PollInv, PlayFromStill
  <2>5. CallsLeft'
    BY <2>1, <2>2 DEF PollInv, CallsLeft
  <2> QED
    BY <1>0, <2>1, <2>4, <2>5 DEF PollInv, PollFresh
<1>4. CASE Age
  <2>1. UNCHANGED <<generation, cancel, closed, pc, req, seen, overtaken, state>>
        /\ (PollAt => age # "new")
    BY <1>4 DEF Age, locks, poll, PollAt
  <2>2. \A p \in Procs : Started(p)' <=> Started(p)
    BY <2>1 DEF Started, Working
  <2> QED
    BY <2>1, <2>2 DEF PollInv, PollFresh, CallsLeft, PlayFromStill, Queued, PollAt
<1>5. CASE SpeakerEnds \/ UNCHANGED vars
  <2>1. UNCHANGED <<generation, cancel, closed, pc, req, seen, overtaken, state, age>>
    BY <1>5 DEF SpeakerEnds, vars, fields, locks, poll
  <2>2. \A p \in Procs : Started(p)' <=> Started(p)
    BY <2>1 DEF Started, Working
  <2> QED
    BY <2>1, <2>2 DEF PollInv, PollFresh, CallsLeft, PlayFromStill, Queued
<1> QED
  BY <1>1, <1>2, <1>3, <1>4, <1>5

LEMMA NextPollInv == IInv /\ PollInv /\ [Next]_vars => PollInv'
BY ProcessAndPoll, PollAndPoll DEF Next, Idle

LEMMA InitPollInv == Init => PollInv
<1> SUFFICES ASSUME Init PROVE PollInv
  OBVIOUS
<1>1. \A p \in Procs : pc[p] \in {"tick", "new"}
  BY DEF Init
<1>2. seen.gen = 0 /\ generation = 0 /\ overtaken = FALSE /\ Poller \in Procs
  BY DEF Init, Procs
<1> QED
  BY <1>1, <1>2 DEF PollInv, CallsLeft, PlayFromStill, PollFresh

PollKeeps == PollActs /\ overtaken /\ seen.calm => UNCHANGED <<state, airplay>>

(* What overtook the poll makes it outdated.                               *)
LEMMA OvertakenIsOutdated ==
    ASSUME IInv, PollInv, pc[Poller] = "answer", overtaken, seen.calm
    PROVE  Outdated
<1>1. CASE seen.gen # generation
  BY <1>1 DEF Outdated
<1>2. CASE seen.gen = generation
  <2>1. \/ state = "PLAYING" /\ age = "new"
        \/ \E p \in Procs : Started(p)
        \/ closed /\ cancel # NoProc
    BY <1>2 DEF PollInv, PollFresh
  <2>2. \A p \in Procs : Started(p) => cancel # NoProc
    BY Facts DEF Started, IInv, NewestHasCancel
  <2> QED
    BY <2>1, <2>2 DEF Outdated
<1> QED
  BY <1>1, <1>2

LEMMA StepKeepsState == IInv /\ PollInv /\ [Next]_vars => PollKeeps
<1> SUFFICES ASSUME IInv, PollInv, [Next]_vars, PollActs, overtaken, seen.calm
             PROVE  UNCHANGED <<state, airplay>>
  BY DEF PollKeeps
<1>1. pc[Poller] = "answer" /\ pc'[Poller] # "answer" /\ Poller \in Procs
  BY Facts DEF PollActs
<1>2. PollApply
  <2>1. ASSUME NEW p \in Procs, Call(p) \/ Continue(p) PROVE FALSE
    <3>1. pc[p] \notin {"answer"}
      BY <2>1 DEF Call, SetURI, SetNext, Play, Pause, StartAirPlay, Stop, EndAirPlay, Seek,
         SetVolume, SetMute, CallNext, Close, Calls, Continue, Reserve, ReserveAlarm, PlayAt,
         NextSetURI, Drop, Begin, Answer, Commit
    <3>2. \E where : pc' = [pc EXCEPT ![p] = where]
      BY <2>1 DEF Call, SetURI, SetNext, Play, Pause, StartAirPlay, Stop, StopSection,
         EndAirPlay, Seek, SetVolume, SetMute, CallNext, TakeNext, Close, Continue, Reserve,
         ReserveAlarm, PlayAt, NextSetURI, Drop, Begin, Answer, Commit, Goto, Return
    <3> QED
      BY <1>1, <3>1, <3>2 DEF IInv, TypeOK
  <2>2. ~PollTick /\ ~PollStatus /\ ~Age /\ ~SpeakerEnds /\ ~(UNCHANGED vars)
    BY <1>1 DEF PollTick, PollStatus, Age, SpeakerEnds, vars
  <2> QED
    BY <2>1, <2>2 DEF Next, Idle
<1>3. Outdated
  BY <1>1, OvertakenIsOutdated
<1> QED
  BY <1>2, <1>3 DEF PollApply, fields

(* A status that was read before a command reached the speaker does not    *)
(* undo the command, if none waited for opMu as the poll began: it finds   *)
(* another generation, r.cancel set, or playback just begun (poll.go:12).  *)
THEOREM CalmPollsAreSafe == Spec => CalmPollKeepsState
<1>1. Init => IInv /\ PollInv
  BY InitIInv, InitPollInv
<1>2. IInv /\ PollInv /\ [Next]_vars => IInv' /\ PollInv'
  BY NextIInv, NextPollInv
<1>3. IInv /\ PollInv /\ [Next]_vars => [PollKeeps]_vars
  BY StepKeepsState
<1>4. CalmPollKeepsState <=> [][PollKeeps]_vars
  BY DEF CalmPollKeepsState, PollKeeps
<1> QED
  BY <1>1, <1>2, <1>3, <1>4, PTL DEF Spec
=============================================================================
