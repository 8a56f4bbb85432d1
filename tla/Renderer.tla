------------------------------ MODULE Renderer ------------------------------
(***************************************************************************)
(* One DLNA renderer (src/internal/dlna/renderer.go and poll.go): the      *)
(* virtual device that stands for one Xiaomi speaker.  SOAP handlers, the  *)
(* alarm engine and the AirPlay sessions call it from goroutines of their  *)
(* own, and its Poll goroutine reads the speaker's status every 5 s.       *)
(*                                                                         *)
(* Two locks: r.mu protects the fields and is held only for the sections   *)
(* that are single actions here; r.opMu is held across the cloud calls of  *)
(* one command, so it is a variable.  A command reserves the generation    *)
(* it read (or made) under r.mu, waits for opMu, and is dropped if the     *)
(* generation has moved on.                                                *)
(*                                                                         *)
(* Abstracted: titles, metadata and positions; "started" is the age of the *)
(* last start of playback (renderer.go:62); the answers of the cloud are   *)
(* the three a caller can tell apart, timeouts and vanished callers among  *)
(* them.  The speaker is external.                                         *)
(***************************************************************************)
EXTENDS Naturals, Sequences

CONSTANTS
    Requests,   \* calls made to the renderer, each by a goroutine of its own
    Poller,     \* the Poll goroutine
    NoProc,     \* opMu is free; r.cancel = nil
    Sources,    \* audio addresses a control point or an alarm casts
    Stream,     \* the address of the AirPlay live stream
    NoURI,      \* ""
    Levels,     \* volumes, 0 among them
    Ops         \* the operations the environment calls in this instance

Procs == Requests \cup {Poller}

AllOps == {"SetURI", "Cast", "SetNext", "Play", "Pause", "Stop", "StopURI",
           "StartAlarm", "Seek", "SetVolume", "SetMute", "Next",
           "StartAirPlay", "EndAirPlay", "Close"}

ASSUME ProcAssumption == Poller \notin Requests /\ NoProc \notin Procs
ASSUME URIAssumption ==
    Stream \notin Sources /\ NoURI \notin Sources \cup {Stream}
ASSUME LevelAssumption == 0 \in Levels
ASSUME OpsAssumption == Ops \subseteq AllOps

VARIABLES
    state, uri, nextURI, volume, mute, airplay,   \* fields of the same name
    lastError,      \* r.lastError # ""
    age,            \* of r.started, while the state is PLAYING
    generation,
    cancel,         \* whose operation context r.cancel cancels
    closed,         \* r.root is done
    opMu,           \* who holds r.opMu
    cancelled,      \* processes whose operation context the renderer cancelled
    pc,             \* where each process stands
    req,            \* the arguments and locals of each process
    seen,           \* locals of Poll: what it read of the renderer and speaker
    overtaken,      \* history: a command came after Poll's status was read
    speaker         \* external: the speaker behind the cloud

playback == <<state, uri, airplay, age>>
loudness == <<volume, mute>>
fields == <<state, uri, nextURI, volume, mute, airplay, lastError, age>>
locks == <<generation, cancel, closed, opMu, cancelled>>
poll == <<seen, overtaken>>
vars == <<fields, locks, pc, req, poll, speaker>>

States == {"STOPPED", "PLAYING", "PAUSED_PLAYBACK"}
Ages == {"old", "recent", "new"}
Kinds == {"none", "play", "resume", "pause", "stop", "alarm", "seek",
          "volume", "mute", "airplay", "close"}
CloudCalls == {"play", "resume", "pause", "stop", "volume"}
Outcomes == {"ok", "lost", "failed"}
PCs == {"new", "setURI", "reserve", "playAt", "stopNow", "lock", "wire",
        "commit", "closing", "done", "tick", "status", "answer", "advance"}

(* What a process carries: the kind of its command, the generation it      *)
(* reserved, the address and the level it sends, "flag" (the paused of     *)
(* Seek, the mute of SetMute), the calls still to make and their verdict.  *)
Request(kind, gen, u, level, flag) ==
    [kind |-> kind, gen |-> gen, uri |-> u, level |-> level, flag |-> flag,
     calls |-> <<>>, ok |-> FALSE]

RequestRecords ==
    [kind : Kinds, gen : Nat, uri : Sources \cup {Stream, NoURI},
     level : Levels, flag : BOOLEAN, calls : Seq(CloudCalls), ok : BOOLEAN]

Init ==
    /\ state = "STOPPED" /\ uri = NoURI /\ nextURI = NoURI
    /\ volume \in Levels /\ mute = FALSE /\ airplay = FALSE
    /\ lastError = FALSE /\ age = "old"
    /\ generation = 0 /\ cancel = NoProc /\ closed = FALSE
    /\ opMu = NoProc /\ cancelled = {}
    /\ pc = [p \in Procs |-> IF p = Poller THEN "tick" ELSE "new"]
    /\ req = [p \in Procs |-> Request("none", 0, NoURI, 0, FALSE)]
    /\ seen = [gen |-> 0, state |-> "STOPPED", level |-> 0, calm |-> TRUE]
    /\ overtaken = FALSE
    /\ speaker = [item |-> NoURI, mode |-> "STOPPED", level |-> volume]

(***************************************************************************)
(* Sections under r.mu that several operations share.                      *)
(***************************************************************************)

Goto(p, where) == pc' = [pc EXCEPT ![p] = where]
Return(p) == Goto(p, IF p = Poller THEN "tick" ELSE "done")
Calls(p, op) == p \in Requests /\ pc[p] = "new" /\ op \in Ops

(* History: this happens while Poll carries a status that was read before. *)
Overtake ==
    overtaken' = (overtaken \/ pc[Poller] = "answer")

InvalidateNoCancel ==       \* mutant: r.cancel is dropped, not called
    /\ generation' = generation + 1
    /\ cancel' = NoProc
    /\ Overtake
    /\ UNCHANGED <<closed, opMu, cancelled>>

InvalidateLocked ==
    /\ generation' = generation + 1
    /\ cancelled' = cancelled \cup ({cancel} \ {NoProc})
    /\ cancel' = NoProc
    /\ Overtake
    /\ UNCHANGED <<closed, opMu>>

SetURISection(u) ==
    /\ InvalidateLocked
    /\ uri' = u /\ state' = "STOPPED" /\ age' = "old"
    /\ airplay' = FALSE /\ lastError' = FALSE
    /\ UNCHANGED <<nextURI, loudness>>

SupersededNotClosed(p) == req[p].gen # generation   \* mutant: r.root is not asked
ClosedOnly(p) == closed                 \* mutant: the generation is not compared

Superseded(p) == req[p].gen # generation \/ closed

(***************************************************************************)
(* The operations, up to the point where they queue for opMu.              *)
(***************************************************************************)

(* SetURI alone, SetURI followed by AutoPlay (the SOAP handler with the    *)
(* auto-play setting), and the SetURI StartAlarm begins with.              *)
SetURI(p) ==
    \E u \in Sources :
        /\ SetURISection(u)
        /\ \/ /\ Calls(p, "SetURI")
              /\ Goto(p, "done")
              /\ UNCHANGED req
           \/ /\ Calls(p, "Cast")
              /\ Goto(p, "reserve")
              /\ req' = [req EXCEPT ![p] = Request("play", 0, NoURI, 0, FALSE)]
           \/ \E level \in Levels \ {0} :
              /\ Calls(p, "StartAlarm")
              /\ Goto(p, "reserve")
              /\ req' = [req EXCEPT ![p] = Request("alarm", 0, u, level, FALSE)]
        /\ UNCHANGED <<seen, speaker>>

SetNext(p) ==
    /\ Calls(p, "SetNext")
    /\ nextURI' \in Sources \cup {NoURI}
    /\ Goto(p, "done")
    /\ UNCHANGED <<playback, loudness, lastError, locks, req, poll, speaker>>

Play(p) ==
    /\ Calls(p, "Play")
    /\ req' = [req EXCEPT ![p] = Request("play", generation, NoURI, 0, FALSE)]
    /\ Goto(p, "playAt")
    /\ UNCHANGED <<fields, locks, poll, speaker>>

(* AutoPlay, the Play of Next and the command of SetMute read the          *)
(* generation in a section of their own.                                   *)
Reserve(p) ==
    /\ pc[p] = "reserve" /\ req[p].kind # "alarm"
    /\ req' = [req EXCEPT ![p].gen = generation]
    /\ Goto(p, IF req[p].kind = "play" THEN "playAt" ELSE "lock")
    /\ UNCHANGED <<fields, locks, poll, speaker>>

(* So does StartAlarm, after its SetURI.  The proxy may be full.           *)
ReserveAlarm(p) ==
    /\ pc[p] = "reserve" /\ req[p].kind = "alarm"
    /\ req' = [req EXCEPT ![p].gen = generation]
    /\ nextURI' = NoURI /\ volume' = req[p].level
    /\ Goto(p, "lock") \/ Return(p)
    /\ UNCHANGED <<playback, mute, lastError, locks, poll, speaker>>

(* playAt: nothing to do, or resume, or cast (the proxy may be full).      *)
PlayAt(p) ==
    /\ pc[p] = "playAt"
    /\ \/ /\ Superseded(p) \/ uri = NoURI \/ state # "PAUSED_PLAYBACK"
          /\ Return(p)
          /\ UNCHANGED req
       \/ /\ ~Superseded(p) /\ uri # NoURI /\ state # "PLAYING"
          /\ Goto(p, "lock")
          /\ req' = IF state = "STOPPED"
                    THEN [req EXCEPT ![p].uri = uri]
                    ELSE [req EXCEPT ![p].kind = "resume"]
    /\ UNCHANGED <<fields, locks, poll, speaker>>

(* Pause and StartAirPlay supersede whatever came before, then queue.      *)
Pause(p) ==
    /\ Calls(p, "Pause")
    /\ InvalidateLocked
    /\ req' = [req EXCEPT ![p] = Request("pause", generation + 1, NoURI, 0, FALSE)]
    /\ Goto(p, "lock")
    /\ UNCHANGED <<fields, seen, speaker>>

StartAirPlay(p) ==
    /\ Calls(p, "StartAirPlay")
    /\ InvalidateLocked
    /\ req' = [req EXCEPT ![p] = Request("airplay", generation + 1, Stream, 0, FALSE)]
    /\ Goto(p, "lock")
    /\ UNCHANGED <<fields, seen, speaker>>

(* StopURI(expected); Stop is StopURI("").                                 *)
Expected(expected) == expected = NoURI \/ uri = expected

StopSection(p, expected) ==
    \/ /\ ~Expected(expected)
       /\ Return(p)
       /\ UNCHANGED <<locks, req, overtaken>>
    \/ /\ Expected(expected)
       /\ InvalidateLocked
       /\ req' = [req EXCEPT ![p] = Request("stop", generation + 1, expected, 0, FALSE)]
       /\ Goto(p, "lock")

Stop(p) ==
    /\ \/ Calls(p, "Stop") /\ StopSection(p, NoURI)
       \/ Calls(p, "StopURI") /\ \E u \in Sources : StopSection(p, u)
       \/ pc[p] = "stopNow" /\ StopSection(p, NoURI)
    /\ UNCHANGED <<fields, seen, speaker>>

(* EndAirPlay reads r.airplay in one section and stops in another.         *)
EndAirPlay(p) ==
    /\ Calls(p, "EndAirPlay")
    /\ Goto(p, IF airplay THEN "stopNow" ELSE "done")
    /\ UNCHANGED <<fields, locks, req, poll, speaker>>

(* Seek supersedes before it looks at what it was asked: it may return     *)
(* without queueing (no address, beyond the end, transcoding refused).     *)
Seek(p) ==
    /\ Calls(p, "Seek")
    /\ InvalidateLocked
    /\ req' = [req EXCEPT ![p] = Request("seek", generation + 1, uri, 0,
                                         state = "PAUSED_PLAYBACK")]
    /\ Goto(p, "done") \/ (uri # NoURI /\ Goto(p, "lock"))
    /\ UNCHANGED <<fields, seen, speaker>>

SetVolume(p) ==
    /\ Calls(p, "SetVolume")
    /\ \E level \in Levels :
         req' = [req EXCEPT ![p] = Request("volume", generation, NoURI, level, FALSE)]
    /\ Goto(p, "lock")
    /\ UNCHANGED <<fields, locks, poll, speaker>>

SetMute(p) ==
    /\ Calls(p, "SetMute")
    /\ \E m \in BOOLEAN :
         req' = [req EXCEPT ![p] =
                   Request("mute", 0, NoURI, IF m THEN 0 ELSE volume, m)]
    /\ Goto(p, "reserve")
    /\ UNCHANGED <<fields, locks, poll, speaker>>

(* Next takes the next address away, then casts it like SetURI and Play.   *)
TakeNext(p) ==
    /\ nextURI' = NoURI
    /\ IF nextURI = NoURI
       THEN Return(p) /\ UNCHANGED req
       ELSE Goto(p, "setURI") /\
            req' = [req EXCEPT ![p] = Request("play", 0, nextURI, 0, FALSE)]
    /\ UNCHANGED <<playback, loudness, lastError, locks, poll, speaker>>

CallNext(p) == (Calls(p, "Next") \/ pc[p] = "advance") /\ TakeNext(p)

NextSetURI(p) ==
    /\ pc[p] = "setURI"
    /\ SetURISection(req[p].uri)
    /\ Goto(p, "reserve")
    /\ UNCHANGED <<req, seen, speaker>>

(* Close: closeFn() ends the root context (and with it the contexts        *)
(* derived from it, AutoPlay's), then the last operation is invalidated.   *)
Close(p) ==
    /\ \/ /\ Calls(p, "Close")
          /\ closed' = TRUE
          /\ req' = [req EXCEPT ![p].kind = "close"]
          /\ Goto(p, "closing")
          /\ UNCHANGED <<generation, cancel, opMu, cancelled, overtaken>>
       \/ /\ pc[p] = "closing"
          /\ InvalidateLocked
          /\ Goto(p, "done")
          /\ UNCHANGED req
    /\ UNCHANGED <<fields, seen, speaker>>

(***************************************************************************)
(* commandAt: the part of every command that talks to the cloud.           *)
(***************************************************************************)

CallsOf(q) ==
    CASE q.kind \in {"play", "airplay"} -> <<"play", "volume">>
      [] q.kind = "alarm" -> <<"volume", "play">>
      [] q.kind = "seek" -> IF q.flag THEN <<"play", "pause">> ELSE <<"play">>
      [] q.kind = "mute" -> <<"volume">>
      [] q.kind \in CloudCalls \ {"play"} -> <<q.kind>>

(* The volume that Play and StartAirPlay send is read in the same command. *)
LevelOf(q) ==
    CASE q.kind = "play" -> volume
      [] q.kind = "airplay" -> IF mute THEN 0 ELSE volume
      [] OTHER -> q.level

(* Dropped: something newer reserved the renderer while p queued.          *)
Drop(p) ==
    /\ pc[p] = "lock" /\ opMu = NoProc /\ Superseded(p)
    /\ Return(p)
    /\ UNCHANGED <<fields, locks, req, poll, speaker>>

(* opMu is taken and r.cancel set; a Play that finds the state PLAYING     *)
(* already makes no cloud call.                                            *)
Begin(p) ==
    /\ pc[p] = "lock" /\ opMu = NoProc /\ ~Superseded(p)
    /\ opMu' = p /\ cancel' = p /\ cancelled' = cancelled \ {p}
    /\ IF req[p].kind = "play" /\ state = "PLAYING"
       THEN /\ req' = [req EXCEPT ![p].ok = TRUE]
            /\ Goto(p, "commit")
       ELSE /\ req' = [req EXCEPT ![p].calls = CallsOf(req[p]),
                                  ![p].level = LevelOf(req[p])]
            /\ Goto(p, "wire")
    /\ UNCHANGED <<fields, generation, closed, poll, speaker>>

(* External: what a call that reaches the speaker does to it.              *)
Effect(p, call) ==
    CASE call = "play" -> [speaker EXCEPT !.item = req[p].uri, !.mode = "PLAYING"]
      [] call = "resume" -> [speaker EXCEPT !.mode =
                               IF @ = "PAUSED_PLAYBACK" THEN "PLAYING" ELSE @]
      [] call = "pause" -> [speaker EXCEPT !.mode =
                               IF @ = "PLAYING" THEN "PAUSED_PLAYBACK" ELSE @]
      [] call = "stop" -> [speaker EXCEPT !.mode = "STOPPED"]
      [] call = "volume" -> [speaker EXCEPT !.level = req[p].level]

(* The volume that follows a Play or a StartAirPlay may fail.              *)
BestEffort(q) == q.kind \in {"play", "airplay"} /\ Head(q.calls) = "volume"

(* One cloud call returns: done, done but the answer was lost (timeout,    *)
(* cancelled), or not done.  A call whose context is cancelled before it   *)
(* starts fails at once.                                                   *)
Answer(p) ==
    /\ pc[p] = "wire"
    /\ \E outcome \in Outcomes :
         LET q == req[p]
             rest == Tail(q.calls)
             fatal == outcome # "ok" /\ ~BestEffort(q)
             over == fatal \/ rest = <<>> \/ p \in cancelled
             ok == ~fatal /\ (rest = <<>> \/ BestEffort([q EXCEPT !.calls = rest]))
         IN  /\ speaker' = IF outcome = "failed" THEN speaker
                           ELSE Effect(p, Head(q.calls))
             /\ req' = [req EXCEPT ![p].calls = IF over THEN <<>> ELSE rest,
                                   ![p].ok = over /\ ok]
             /\ Goto(p, IF over THEN "commit" ELSE "wire")
             /\ IF outcome = "ok" /\ ~Superseded(p) /\ Head(q.calls) # "volume"
                THEN Overtake ELSE UNCHANGED overtaken
    /\ UNCHANGED <<fields, locks, seen>>

(* The "success" closures of the commands.                                 *)
Success(q) ==
    /\ state' = CASE q.kind \in {"play", "resume", "alarm", "airplay"} -> "PLAYING"
                  [] q.kind = "pause" \/ (q.kind = "seek" /\ q.flag) -> "PAUSED_PLAYBACK"
                  [] q.kind = "seek" /\ ~q.flag -> "PLAYING"
                  [] q.kind = "stop" -> "STOPPED"
                  [] OTHER -> state
    /\ age' = IF q.kind \in {"volume", "mute"} \/ (q.kind = "play" /\ state = "PLAYING")
              THEN age ELSE IF state' = "PLAYING" THEN "new" ELSE "old"
    /\ uri' = IF q.kind = "airplay" THEN NoURI ELSE uri
    /\ airplay' = (q.kind = "airplay" \/ (airplay /\ q.kind # "stop"))
    /\ volume' = IF q.kind = "volume" THEN q.level ELSE volume
    /\ mute' = IF q.kind = "mute" THEN q.flag ELSE mute /\ q.kind # "volume"
    /\ UNCHANGED nextURI

CountsAlways(p) == TRUE                 \* mutant: the generation is not compared
Counts(p) == ~Superseded(p)

ClearCancelIfOk(p) ==                   \* mutant: a failure returns too early
    cancel' = IF req[p].ok THEN NoProc ELSE cancel
ClearCancel(p) == cancel' = NoProc

UnlockIfCounts(p) ==                    \* mutant: a cancelled command keeps opMu
    opMu' = IF Superseded(p) THEN opMu ELSE NoProc
Unlock(p) == opMu' = NoProc

(* The end of commandAt: the outcome counts only if nothing newer came.    *)
Commit(p) ==
    /\ pc[p] = "commit"
    /\ Unlock(p)
    /\ Return(p)
    /\ \/ /\ ~Counts(p)
          /\ UNCHANGED <<fields, cancel>>
       \/ /\ Counts(p) /\ req[p].ok
          /\ ClearCancel(p) /\ lastError' = FALSE
          /\ Success(req[p])
       \/ /\ Counts(p) /\ ~req[p].ok
          /\ ClearCancel(p) /\ lastError' = TRUE
          /\ UNCHANGED <<playback, nextURI, loudness>>
    /\ UNCHANGED <<generation, closed, cancelled, req, poll, speaker>>

(***************************************************************************)
(* Poll, and what happens without the program.                             *)
(***************************************************************************)

(* Looks at the renderer; nothing is asked of a stopped or busy one.       *)
PollTick ==
    /\ pc[Poller] = "tick" /\ ~closed
    /\ state # "STOPPED" /\ cancel = NoProc
    /\ seen' = [seen EXCEPT !.gen = generation,
              !.calm = \A p \in Procs : pc[p] = "lock" => req[p].gen # generation]
    /\ overtaken' = FALSE
    /\ age' = IF age = "new" THEN "recent" ELSE age
    /\ Goto(Poller, "status")
    /\ UNCHANGED <<state, uri, airplay, nextURI, loudness, lastError, locks, req, speaker>>

(* The speaker's status is read some time before its answer is applied.    *)
PollStatus ==
    /\ pc[Poller] = "status"
    /\ \/ /\ Goto(Poller, "tick")
          /\ UNCHANGED seen
       \/ /\ seen' = [seen EXCEPT !.state = speaker.mode, !.level = speaker.level]
          /\ Goto(Poller, "answer")
    /\ UNCHANGED <<fields, locks, req, overtaken, speaker>>

OutdatedByGeneration ==                 \* mutant: no 10 s of grace
    seen.gen # generation \/ cancel # NoProc

(* Playback that began less than 10 s ago is left alone.                   *)
Outdated ==
    \/ seen.gen # generation \/ cancel # NoProc
    \/ state = "PLAYING" /\ age # "old"

PollApply ==
    /\ pc[Poller] = "answer"
    /\ \/ /\ Outdated
          /\ Goto(Poller, "tick")
          /\ UNCHANGED fields
       \/ /\ ~Outdated
          /\ state' = seen.state
          /\ age' = IF state # seen.state /\ seen.state = "PLAYING" THEN "new" ELSE age
          /\ volume' = IF mute THEN volume ELSE seen.level
          /\ \E atEnd \in BOOLEAN :
               Goto(Poller, IF /\ state = "PLAYING" /\ seen.state = "STOPPED"
                               /\ atEnd /\ nextURI # NoURI /\ ~airplay
                            THEN "advance" ELSE "tick")
          /\ UNCHANGED <<uri, airplay, nextURI, mute, lastError>>
    /\ UNCHANGED <<locks, req, poll, speaker>>

(* Time passes: 10 s since the start of playback.  A status call ends      *)
(* within 4 s (poll.go:40), so one that was under way at the start is over.*)
Age ==
    /\ age # "old" /\ (age = "new" => pc[Poller] \notin {"status", "answer"})
    /\ age' = "old"
    /\ UNCHANGED <<state, uri, airplay, nextURI, loudness, lastError, locks, pc, req, poll, speaker>>

(* External: the item ends, or is stopped at the speaker.                  *)
SpeakerEnds ==
    /\ speaker.mode # "STOPPED"
    /\ speaker' = [speaker EXCEPT !.mode = "STOPPED"]
    /\ UNCHANGED <<fields, locks, pc, req, poll>>

(***************************************************************************)
(* The specification.  A goroutine that can run does (weak fairness); a    *)
(* sync.Mutex hands itself to its oldest waiter after 1 ms, so nobody      *)
(* waits for opMu for ever (strong fairness of Begin and Drop).            *)
(***************************************************************************)

Call(p) ==
    \/ SetURI(p) \/ SetNext(p) \/ Play(p) \/ Pause(p) \/ StartAirPlay(p)
    \/ Stop(p) \/ EndAirPlay(p) \/ Seek(p) \/ SetVolume(p) \/ SetMute(p)
    \/ CallNext(p) \/ Close(p)

Continue(p) ==
    \/ Reserve(p) \/ ReserveAlarm(p) \/ PlayAt(p) \/ NextSetURI(p)
    \/ Drop(p) \/ Begin(p) \/ Answer(p) \/ Commit(p)

Finished == \A p \in Requests : pc[p] = "done"
Idle == Finished /\ pc[Poller] = "tick" /\ UNCHANGED vars

Next ==
    \/ \E p \in Procs : Call(p) \/ Continue(p)
    \/ PollTick \/ PollStatus \/ PollApply \/ Age \/ SpeakerEnds
    \/ Idle

Spec == Init /\ [][Next]_vars

Fairness ==
    /\ \A p \in Procs :
         /\ WF_vars(pc[p] # "new" /\ Call(p))
         /\ WF_vars(Continue(p))
         /\ SF_vars(Begin(p) \/ Drop(p))
    /\ WF_vars(PollTick) /\ WF_vars(PollStatus) /\ WF_vars(PollApply) /\ WF_vars(Age)

FairSpec == Spec /\ Fairness

(***************************************************************************)
(* Properties.                                                             *)
(***************************************************************************)

(* Every variable keeps its type.                                          *)
TypeOK ==
    /\ state \in States /\ uri \in Sources \cup {NoURI}
    /\ nextURI \in Sources \cup {NoURI}
    /\ volume \in Levels /\ mute \in BOOLEAN /\ airplay \in BOOLEAN
    /\ lastError \in BOOLEAN /\ age \in Ages
    /\ generation \in Nat /\ cancel \in Procs \cup {NoProc}
    /\ closed \in BOOLEAN /\ opMu \in Procs \cup {NoProc}
    /\ cancelled \subseteq Procs
    /\ pc \in [Procs -> PCs]
    /\ req \in [Procs -> RequestRecords]
    /\ seen \in [gen : Nat, state : States, level : Levels, calm : BOOLEAN]
    /\ overtaken \in BOOLEAN
    /\ speaker \in [item : Sources \cup {Stream, NoURI}, mode : States, level : Levels]

Working(p) == pc[p] \in {"wire", "commit"}

(* One command talks to the cloud at a time, and the operation r.cancel    *)
(* would cancel is the one under way, still the newest: r.cancel neither   *)
(* outlives its command nor points at a superseded one.  Were it left set, *)
(* Poll would take the renderer for busy for ever.                         *)
CancelIsOfTheNewest ==
    /\ \A p \in Procs : Working(p) <=> opMu = p
    /\ cancel # NoProc /\ ~closed =>
         /\ opMu = cancel /\ req[cancel].gen = generation

(* Superseded and cancelled are the same: a newer command never waits for  *)
(* the cloud's answer to an older one, whoever superseded it and however,  *)
(* and the newest is never cancelled by an older one's end or by a poll.   *)
CancelledIsSuperseded ==
    \A p \in Procs : Working(p) => (p \in cancelled <=> req[p].gen # generation)

(* Once Close has returned nothing talks to the cloud with a live context, *)
(* although commands that queued before it are still on their way.         *)
CloseStopsTheCloud ==
    (\E c \in Requests : req[c].kind = "close" /\ pc[c] = "done")
        => \A p \in Procs : pc[p] = "wire" => p \in cancelled

(* StopURI (the alarm engine's deadline) stops its own address only: while *)
(* its stop is on the wire with a live context the renderer still holds    *)
(* the expected address (renderer.go:282, "prevents a delayed alarm        *)
(* timeout from stopping a newer cast").                                   *)
StopURIStopsItsOwn ==
    \A p \in Procs :
        /\ pc[p] = "wire" /\ req[p].kind = "stop" /\ req[p].uri # NoURI
        /\ p \notin cancelled
        => uri = req[p].uri

PollActs == pc[Poller] = "answer" /\ pc'[Poller] # "answer"

(* "A generation check prevents old cloud status undoing a new command"    *)
(* (poll.go:12): a status read before a command reached the speaker does   *)
(* not change the playback state after it.                                 *)
PollKeepsState ==
    [][PollActs /\ overtaken => UNCHANGED <<state, airplay>>]_vars

(* So it is when no command waited for opMu as Poll looked at the renderer:*)
(* the generation covers the commands that supersede, r.cancel those under *)
(* way, and the 10 s after a start the ones that keep the generation.      *)
CalmPollKeepsState ==
    [][PollActs /\ overtaken /\ seen.calm
         => UNCHANGED <<state, airplay>>]_vars

(* Every call returns, though it may queue behind others for opMu.         *)
CallsReturn ==
    \A p \in Requests : pc[p] # "new" ~> pc[p] = "done"

(* After the last command the poller brings a renderer that is not stopped *)
(* to what the speaker really does: r.cancel never keeps it away.  Needs a *)
(* status call to succeed now and then.                                    *)
Mirrors == state = "STOPPED" \/ state = speaker.mode \/ closed
PollMirrors == Finished ~> Mirrors
StatusAnswers == SF_vars(PollStatus /\ pc'[Poller] = "answer")
MirrorSpec == FairSpec /\ StatusAnswers

(***************************************************************************)
(* The inductive invariant behind the safety invariants.                   *)
(***************************************************************************)

Queued(p) == pc[p] \in {"lock", "wire", "commit"}
CommandKinds == Kinds \ {"none", "close"}
Superseding == {"pause", "stop", "seek", "airplay"}

(* What the program counter of a process says of its locals.               *)
LocalsAt(p) ==
    /\ pc[p] \in {"tick", "status", "answer", "advance"} => p = Poller
    /\ pc[p] \in {"new", "stopNow"} => req[p].kind = "none"
    /\ pc[p] = "setURI" => req[p].kind = "play" /\ req[p].uri \in Sources
    /\ pc[p] = "reserve" => req[p].kind \in {"play", "mute", "alarm"}
    /\ pc[p] = "playAt" => req[p].kind = "play"
    /\ pc[p] = "closing" => closed
    /\ Queued(p) => req[p].kind \in CommandKinds
    /\ pc[p] = "wire" => req[p].calls # <<>>

LocalsOK == \A p \in Procs : LocalsAt(p)

(* Generations only grow, so a reserved one never comes back; and those    *)
(* made by a superseding command are nobody else's superseding generation. *)
GenerationsOK ==
    /\ \A p \in Procs : req[p].gen <= generation
    /\ \A p, q \in Procs :
         /\ Queued(p) /\ req[p].kind \in Superseding /\ req[p].gen = generation
         /\ Queued(q) /\ req[q].kind \in Superseding /\ req[q].gen = generation
         => p = q

(* The newest operation at the cloud can be cancelled.                     *)
NewestHasCancel ==
    \A p \in Procs : Working(p) /\ req[p].gen = generation => cancel = p

(* A StopURI that is still the newest command stops what is set.           *)
StopURIReserved ==
    \A p \in Procs :
        /\ Queued(p) /\ req[p].kind = "stop" /\ req[p].uri # NoURI
        /\ req[p].gen = generation
        => uri = req[p].uri

CloseSettled ==
    (\E c \in Requests : req[c].kind = "close" /\ pc[c] = "done")
        => closed /\ \A p \in Procs : Working(p) => p \in cancelled

SupersededIsCancelled ==
    \A p \in Procs : Working(p) /\ req[p].gen # generation => p \in cancelled
NewestIsNotCancelled ==
    \A p \in Procs : Working(p) /\ req[p].gen = generation => p \notin cancelled

IInv ==
    /\ TypeOK /\ LocalsOK /\ GenerationsOK /\ NewestHasCancel
    /\ CancelIsOfTheNewest /\ SupersededIsCancelled /\ NewestIsNotCancelled
    /\ StopURIReserved /\ CloseSettled

(***************************************************************************)
(* The inductive invariant behind CalmPollKeepsState.                      *)
(***************************************************************************)

(* What a command that starts playback has yet to ask of the cloud.        *)
CallsLeft ==
    \A p \in Procs : pc[p] = "wire" =>
        /\ req[p].kind = "play" => req[p].calls \in {<<"play", "volume">>, <<"volume">>}
        /\ req[p].kind = "resume" => req[p].calls = <<"resume">>
        /\ req[p].kind = "alarm" => req[p].calls \in {<<"volume", "play">>, <<"play">>}
        /\ req[p].kind \in {"volume", "mute"} => req[p].calls = <<"volume">>

(* A Play at the cloud found a renderer that did not play.                 *)
PlayFromStill ==
    \A p \in Procs :
        pc[p] = "wire" /\ req[p].kind = "play" /\ req[p].gen = generation
        => state # "PLAYING"

(* The speaker plays what p asked for: p will commit it, unless it is      *)
(* superseded.                                                             *)
Started(p) ==
    /\ Working(p) /\ req[p].gen = generation
    /\ req[p].kind \in {"play", "resume", "alarm"}
    /\ req[p].kind = "play" => state # "PLAYING"
    /\ \/ pc[p] = "commit" /\ req[p].ok
       \/ pc[p] = "wire" /\ req[p].kind = "play" /\ req[p].calls = <<"volume">>

PollFresh ==
    pc[Poller] \in {"status", "answer"} /\ seen.calm /\ seen.gen = generation

(* Whatever overtook a poll that began in the calm is still under way, has *)
(* just started playback, or was cut short by Close; all three, and a new  *)
(* generation, make the poll outdated.                                     *)
PollInv ==
    /\ seen.gen <= generation
    /\ pc[Poller] = "status" => ~overtaken
    /\ CallsLeft /\ PlayFromStill
    /\ PollFresh => \A p \in Procs : Queued(p) /\ req[p].gen = generation
                                     => req[p].kind \notin Superseding
    /\ PollFresh /\ overtaken =>
         \/ state = "PLAYING" /\ age = "new"
         \/ \E p \in Procs : Started(p)
         \/ closed /\ cancel # NoProc
=============================================================================
