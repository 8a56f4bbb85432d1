---------------------------- MODULE AlarmEngine ----------------------------
(***************************************************************************)
(* The alarm engine (src/internal/server/alarms.go, with the import of     *)
(* config_backup.go and the handlers of alarms_api.go).                    *)
(*                                                                         *)
(* One goroutine looks every second for alarms that are due, claims them   *)
(* in the persistent store and starts a run for each; a run has a          *)
(* goroutine of its own (play) that rings the speaker and watches it.      *)
(* HTTP handlers test, stop, snooze, save, delete and import alarms.       *)
(*                                                                         *)
(* e.mu protects e.runs and every run's state and is held for the sections *)
(* that are single actions here; e.importing (a slot that is tried, never  *)
(* waited for) is held by a Save while it transcodes the ringtone.         *)
(* store.Update (config/store.go) is atomic, a crash included.             *)
(*                                                                         *)
(* Time is counted in half minutes, so that the 60 s in which a snooze is  *)
(* due need not be a minute of the clock.  A key is the minute an alarm is *)
(* due at, or its snooze.  Of the Renderer only what StartAlarm, StopURI   *)
(* and Snapshot tell the engine is here: the address it holds, the newest  *)
(* command, and what the speaker sounds.                                   *)
(***************************************************************************)
EXTENDS Naturals

CONSTANTS
    Alarms,         \* alarm ids
    Speakers,
    Runs,           \* runs, each with the token and the address of its own
    Audios,         \* ids of transcoded ringtones
    Settings,       \* what users set an alarm to: the minute at which its time and
                    \* calendar rule match, whether it is timed, and enabled
    Horizon,        \* bound: the last half minute of the instance
    SnoozeFor,      \* 5 minutes
    NoAlarm, NoRun, NoAudio,
    Other,          \* a control point's address or command
    Ops             \* what users and the world do in this instance

AllOps == {"test", "stop", "snooze", "save", "delete", "import", "cast",
           "silence", "manager", "shutdown", "crash", "storefails"}

ASSUME TimeAssumption ==
    /\ Settings \subseteq [at : Nat \ {0}, timed : BOOLEAN, enabled : BOOLEAN]
    /\ Horizon \in Nat /\ SnoozeFor \in Nat /\ SnoozeFor >= 2
ASSUME NamesAssumption ==
    /\ NoRun \notin Runs /\ Other \notin Runs /\ Other # NoRun
    /\ NoAudio \notin Audios
ASSUME OpsAssumption == Ops \subseteq AllOps

VARIABLES
    now,            \* the clock
    alarms,         \* State.Alarms, in memory and on disk alike
    files,          \* the directory alarm-audio
    current,        \* e.runs
    run,            \* the alarmRuns, those e.runs no longer refers to included
    loop,           \* locals of Run
    edit,           \* locals of Save, which holds e.importing unless idle
    down,           \* ctx is done: the program shuts down
    held,           \* the address each renderer holds
    newest,         \* the command that last reserved each renderer
    sounding,       \* external: whose audio each speaker plays
    made,           \* history: the audio ids in use, handed out or imported
    rung,           \* history: the keys claimed for each alarm
    yielded         \* history: runs whose address the renderer gave up for another's

store == <<alarms, files>>
engine == <<current, run>>
device == <<held, newest, sounding, yielded>>
vars == <<now, store, engine, loop, edit, down, device, made, rung>>

Key == ({"minute"} \X Nat) \cup ({"snooze"} \X Nat)

AlarmRecords ==
    [speaker : Speakers, at : Nat, audio : Audios \cup {NoAudio},
     enabled : BOOLEAN, lastFire : Nat, snooze : Nat,
     timed : BOOLEAN,                       \* alarmTimed: stopped after some minutes
     ring : {"own", "backup", "shared"}]    \* history: Save made or kept its ringtone
                                            \* for it alone, or a backup named it,
                                            \* or it is another alarm's as well

EditRecords ==
    [pc : {"prepare", "commit"}, id : Alarms, old : Audios \cup {NoAudio}, new : AlarmRecords]

RunStates == {"unused", "starting", "ringing", "stopping", "stop_failed",
              "ended", "failed", "lost"}
PlayPCs == {"none", "setURI", "queued", "wire", "ok", "err", "watch",
            "deadline", "done"}
StopPCs == {"none", "ask", "queued", "wire", "ok", "err"}

(* A renderer in use, or one that was closed: while it held the address    *)
(* as PLAYING, or as STOPPED, or with another address.                     *)
Renderers == {"open", "holding", "stopped", "closed"}

RunRecords ==
    [state : RunStates, alarm : Alarms \cup {NoAlarm}, speaker : Speakers,
     audio : Audios \cup {NoAudio}, timed : BOOLEAN,
     live : BOOLEAN,                            \* its context is not cancelled
     play : PlayPCs, stop : StopPCs,            \* where play and Stop stand
     snooze : BOOLEAN,                          \* what Stop was asked
     rend : Renderers,                          \* its Renderer object
     silenced : BOOLEAN]                        \* history: a Stop has succeeded

ASSUME RecordsAssumption ==
    NoAlarm \notin Alarms /\ NoAlarm \notin AlarmRecords /\ Speakers # {}

Unused == [state |-> "unused", alarm |-> NoAlarm,
           speaker |-> CHOOSE s \in Speakers : TRUE, audio |-> NoAudio,
           timed |-> FALSE, live |-> FALSE, play |-> "none", stop |-> "none", snooze |-> FALSE,
           rend |-> "open", silenced |-> FALSE]

IdleEdit == [pc |-> "idle", id |-> NoAlarm, old |-> NoAlarm, new |-> NoAlarm]
IdleLoop(u) == [at |-> u, todo |-> {}, claimed |-> NoAlarm]

Init ==
    /\ now = 2
    /\ alarms = [a \in Alarms |-> NoAlarm] /\ files = {} /\ made = {}
    /\ current = [a \in Alarms |-> NoRun] /\ run = [r \in Runs |-> Unused]
    /\ loop = IdleLoop(2) /\ edit = IdleEdit /\ down = FALSE
    /\ held = [s \in Speakers |-> NoRun]
    /\ newest = [s \in Speakers |-> [by |-> Other, what |-> "cast"]]
    /\ sounding = [s \in Speakers |-> NoRun]
    /\ rung = [a \in Alarms |-> {}] /\ yielded = {}

(***************************************************************************)
(* When an alarm is due (alarmDue).                                        *)
(***************************************************************************)

Minute(u) == u \div 2

Snoozing(a, u) == a.snooze > 0 /\ u < a.snooze + 2

Due(a, u) ==
    /\ a.enabled
    /\ IF Snoozing(a, u) THEN u >= a.snooze
       ELSE a.at = Minute(u) /\ a.lastFire # Minute(u)

KeyOf(a, u) ==
    IF Snoozing(a, u) THEN <<"snooze", a.snooze>> ELSE <<"minute", Minute(u)>>

(***************************************************************************)
(* Start, from the schedule and from the test button (one section of e.mu).*)
(***************************************************************************)

Blocks(state) == state \in {"starting", "ringing", "stopping"}

ActiveRings(r) ==                       \* mutant: a run being stopped is over
    r # NoRun /\ run[r].state \in {"starting", "ringing", "stop_failed"}
Active(r) ==
    r # NoRun /\ run[r].state \in {"starting", "ringing", "stopping", "stop_failed"}

BusyOther(id) ==                        \* mutant: only the alarm's own run counts
    current[id] # NoRun /\ Blocks(run[current[id]].state)
Busy(id) ==
    \E b \in Alarms : LET r == current[b] IN
        r # NoRun /\ Blocks(run[r].state) /\ run[r].speaker = alarms[id].speaker

CanStart(id) ==
    /\ alarms[id] # NoAlarm /\ alarms[id].audio \in files
    /\ ~Busy(id)

StartRun(id, r) ==
    /\ CanStart(id) /\ run[r].state = "unused"
    /\ current' = [current EXCEPT ![id] = r]
    /\ run' = [run EXCEPT ![r] =
                 [Unused EXCEPT !.state = "starting", !.alarm = id,
                    !.speaker = alarms[id].speaker, !.audio = alarms[id].audio,
                    !.timed = alarms[id].timed, !.live = TRUE, !.play = "setURI"]]

(* A schedule that cannot start its alarm leaves a "failed" entry, unless  *)
(* a run of the alarm is there; like NoRun it stands in nobody's way.      *)
NoteFailure(id) ==
    /\ current' = IF current[id] = NoRun \/ run[current[id]].state \in {"ended", "failed"}
                  THEN [current EXCEPT ![id] = NoRun] ELSE current
    /\ UNCHANGED run

Test(id) ==
    /\ "test" \in Ops
    /\ \E r \in Runs : StartRun(id, r)
    /\ UNCHANGED <<now, store, loop, edit, down, device, made, rung>>

(***************************************************************************)
(* Run: the schedule.                                                      *)
(***************************************************************************)

(* A tick: the alarms of a snapshot that are due at the time of the tick.  *)
Scan ==
    /\ loop.todo = {} /\ loop.claimed = NoAlarm /\ ~down
    /\ LET due == {a \in Alarms : alarms[a] # NoAlarm /\ Due(alarms[a], now)}
       IN  /\ due # {}
           /\ loop' = [at |-> now, claimed |-> NoAlarm,
                       todo |-> {<<a, KeyOf(alarms[a], now)>> : a \in due}]
    /\ UNCHANGED <<now, store, engine, edit, down, device, made, rung>>

StillDue(id, key) ==
    /\ alarms[id] # NoAlarm /\ Due(alarms[id], loop.at)
    /\ KeyOf(alarms[id], loop.at) = key

(* One of them is claimed in the store, if it is still due there.  A claim *)
(* that cannot be persisted does not ring.                                 *)
ClaimOrSkip(id, key) ==
    \/ /\ StillDue(id, key)
       /\ alarms' = [alarms EXCEPT
            ![id].lastFire = IF key[1] = "minute" THEN key[2] ELSE 0,
            ![id].snooze = 0]
       /\ loop' = [loop EXCEPT !.todo = @ \ {<<id, key>>}, !.claimed = id]
       /\ rung' = [rung EXCEPT ![id] = @ \cup {key}]
    \/ /\ ~StillDue(id, key) \/ "storefails" \in Ops
       /\ loop' = [loop EXCEPT !.todo = @ \ {<<id, key>>}]
       /\ UNCHANGED <<alarms, rung>>

Claim ==
    /\ loop.claimed = NoAlarm
    /\ \E x \in loop.todo : ClaimOrSkip(x[1], x[2])
    /\ UNCHANGED <<now, files, engine, edit, down, device, made>>

(* The renderer or the NAS address may not be ready.                       *)
StartClaimed ==
    /\ loop.claimed # NoAlarm
    /\ (\E r \in Runs : StartRun(loop.claimed, r)) \/ NoteFailure(loop.claimed)
    /\ loop' = [loop EXCEPT !.claimed = NoAlarm]
    /\ UNCHANGED <<now, store, edit, down, device, made, rung>>

(***************************************************************************)
(* play: the goroutine of a run.  StartAlarm sets the address, queues for  *)
(* the renderer and calls the cloud; a context that is done by then makes  *)
(* the call fail at once.  wire is the renderer's opMu.                    *)
(***************************************************************************)

Gone(r) == run[r].rend # "open" \/ down         \* its Renderer's root is done
Play(r, where) == run' = [run EXCEPT ![r].play = where]
Mine(r, what) == [by |-> r, what |-> what]
OpMuFree(s) ==
    \A r \in Runs : run[r].speaker = s /\ run[r].rend = "open"
                    => run[r].play # "wire" /\ run[r].stop # "wire"

Hold(s, who, what) ==
    /\ held' = [held EXCEPT ![s] = who]
    /\ newest' = [newest EXCEPT ![s] = [by |-> who, what |-> what]]
    /\ yielded' = IF held[s] \in Runs THEN yielded \cup {held[s]} ELSE yielded

PlaySetURI(r) ==
    /\ run[r].play = "setURI"
    /\ IF run[r].rend = "open"
       THEN /\ Hold(run[r].speaker, r, "play")
            /\ Play(r, "queued") \/ Play(r, "err")      \* the proxy may be full
       ELSE /\ run' = [run EXCEPT ![r].play = "err", ![r].rend = "holding"]
            /\ UNCHANGED <<held, newest, yielded>>
    /\ UNCHANGED <<now, store, current, loop, edit, down, sounding, made, rung>>

PlayBegin(r) ==
    /\ run[r].play = "queued" /\ (Gone(r) \/ OpMuFree(run[r].speaker))
    /\ Play(r, IF run[r].live /\ ~Gone(r) /\ newest[run[r].speaker] = Mine(r, "play")
               THEN "wire" ELSE "err")
    /\ UNCHANGED <<now, store, current, loop, edit, down, device, made, rung>>

PlayWire(r) ==
    /\ run[r].play = "wire"
    /\ \/ /\ sounding' = [sounding EXCEPT ![run[r].speaker] = r]
          /\ \/ /\ run[r].live /\ ~Gone(r) /\ newest[run[r].speaker] = Mine(r, "play")
                /\ Play(r, "ok")
             \/ Play(r, "err")
       \/ /\ Play(r, "err")
          /\ UNCHANGED sounding
    /\ UNCHANGED <<now, store, current, loop, edit, down, held, newest, yielded, made, rung>>

StillStarting(r) == run[r].state = "starting"

PlayResult(r) ==
    /\ run[r].play \in {"ok", "err"}
    /\ run' = [run EXCEPT ![r] =
         CASE ~StillStarting(r) -> [@ EXCEPT !.play = "done"]
           [] StillStarting(r) /\ @.play = "ok" ->
                [@ EXCEPT !.play = "watch", !.state = "ringing"]
           [] OTHER -> [@ EXCEPT !.play = "done", !.state = "failed", !.live = FALSE]]
    /\ UNCHANGED <<now, store, current, loop, edit, down, device, made, rung>>

(* The 2 s poll: another address on the renderer, or 12 s after the start  *)
(* a renderer that Poll has seen stopped or paused, ends the run.  One     *)
(* that was closed before Poll saw it says PLAYING for ever.               *)
WatchEnds(r) ==
    /\ run[r].play = "watch"
    /\ \/ /\ ~run[r].live \/ down                       \* ctx.Done()
          /\ Play(r, "done")
       \/ /\ \/ run[r].rend = "open" /\ held[run[r].speaker] # r
             \/ run[r].rend = "open" /\ sounding[run[r].speaker] # r
             \/ run[r].rend \in {"stopped", "closed"}
          /\ run' = [run EXCEPT ![r] =
               IF current[@.alarm] = r /\ @.state = "ringing"
               THEN [@ EXCEPT !.play = "done", !.state = "ended", !.live = FALSE]
               ELSE [@ EXCEPT !.play = "done"]]
    /\ UNCHANGED <<now, store, current, loop, edit, down, device, made, rung>>

(* The deadline of a timed alarm; the others have none.  select takes it   *)
(* although ctx is done, and it stops the run that e.runs has by then.     *)
WatchDeadline(r) ==
    /\ run[r].play = "watch" /\ run[r].timed
    /\ Play(r, "deadline")
    /\ UNCHANGED <<now, store, current, loop, edit, down, device, made, rung>>

(***************************************************************************)
(* Stop: by the user, a deadline or the shutdown.                          *)
(***************************************************************************)

Stoppable(id) ==
    /\ current[id] # NoRun
    /\ run[current[id]].state \in {"ringing", "starting", "stop_failed"}

StoppingLive(q, snooze) ==              \* mutant: r.Cancel() is left out
    [q EXCEPT !.state = "stopping", !.stop = "ask", !.snooze = snooze]
Stopping(q, snooze) ==
    [q EXCEPT !.state = "stopping", !.live = FALSE, !.stop = "ask", !.snooze = snooze]

Stop(id) ==
    /\ Stoppable(id)
    /\ \E snooze \in BOOLEAN :
         /\ IF snooze THEN "snooze" \in Ops ELSE "stop" \in Ops
         /\ run' = [run EXCEPT ![current[id]] = Stopping(@, snooze)]
    /\ UNCHANGED <<now, store, current, loop, edit, down, device, made, rung>>

DeadlineStops(r) ==
    /\ run[r].play = "deadline"
    /\ LET id == run[r].alarm
           done == [run EXCEPT ![r].play = "done"]
       IN  run' = IF Stoppable(id)
                  THEN [done EXCEPT ![current[id]] = Stopping(@, FALSE)]
                  ELSE done
    /\ UNCHANGED <<now, store, current, loop, edit, down, device, made, rung>>

(* What Run defers: it stops what still rings when it leaves its loop.     *)
ShutdownStops ==
    /\ down /\ loop.todo = {} /\ loop.claimed = NoAlarm
    /\ \E id \in Alarms :
         /\ Stoppable(id) /\ run[current[id]].state # "stop_failed"
         /\ run' = [run EXCEPT ![current[id]] = Stopping(@, FALSE)]
    /\ UNCHANGED <<now, store, current, loop, edit, down, device, made, rung>>

StopAt(r, where) == run' = [run EXCEPT ![r].stop = where]

(* StopURI: nothing to stop if the renderer holds another address.         *)
StopAsk(r) ==
    /\ run[r].stop = "ask"
    /\ \/ /\ run[r].rend = "open" /\ held[run[r].speaker] = r
          /\ newest' = [newest EXCEPT ![run[r].speaker] = Mine(r, "stop")]
          /\ StopAt(r, "queued")
       \/ /\ run[r].rend \in {"holding", "stopped"}
          /\ StopAt(r, "err")
          /\ UNCHANGED newest
       \/ /\ run[r].rend = "closed" \/ (run[r].rend = "open" /\ held[run[r].speaker] # r)
          /\ StopAt(r, "ok")
          /\ UNCHANGED newest
    /\ UNCHANGED <<now, store, current, loop, edit, down, held, sounding, yielded, made, rung>>

StopBegin(r) ==
    /\ run[r].stop = "queued" /\ (Gone(r) \/ OpMuFree(run[r].speaker))
    /\ StopAt(r, IF ~Gone(r) /\ newest[run[r].speaker] = Mine(r, "stop")
                 THEN "wire" ELSE "err")
    /\ UNCHANGED <<now, store, current, loop, edit, down, device, made, rung>>

StopWire(r) ==
    /\ run[r].stop = "wire"
    /\ \/ /\ sounding' = [sounding EXCEPT ![run[r].speaker] = NoRun]
          /\ \/ /\ ~Gone(r) /\ newest[run[r].speaker] = Mine(r, "stop")
                /\ StopAt(r, "ok")
             \/ StopAt(r, "err")
       \/ /\ StopAt(r, "err")
          /\ UNCHANGED sounding
    /\ UNCHANGED <<now, store, current, loop, edit, down, held, newest, yielded, made, rung>>

StopForgotten(q) == [q EXCEPT !.stop = "none"]      \* mutant: still "stopping"
StopFailed(q) == [q EXCEPT !.stop = "none", !.state = "stop_failed"]

(* The second section of Stop.  A run that could not be stopped can be     *)
(* tried again; the snooze is lost if the store does not take it.          *)
StopEnds(r) ==
    /\ \/ /\ run[r].stop = "err"
          /\ run' = [run EXCEPT ![r] = StopFailed(@)]
          /\ UNCHANGED alarms
       \/ /\ run[r].stop = "ok"
          /\ run' = [run EXCEPT ![r].stop = "none", ![r].state = "ended",
                                ![r].silenced = TRUE]
          /\ LET id == run[r].alarm IN
             \/ /\ alarms[id] # NoAlarm
                /\ alarms' = [alarms EXCEPT
                     ![id].snooze = IF run[r].snooze THEN now + SnoozeFor ELSE 0,
                     ![id].enabled = @ \/ run[r].snooze]
             \/ /\ alarms[id] = NoAlarm \/ "storefails" \in Ops
                /\ UNCHANGED alarms
    /\ UNCHANGED <<now, files, current, loop, edit, down, device, made, rung>>

(***************************************************************************)
(* Save, Delete and import: all three try e.importing.                     *)
(***************************************************************************)

(* An import may have given the alarm's ringtone to others, too.           *)
OthersHave(id, audio) ==
    \E b \in Alarms \ {id} : alarms[b] # NoAlarm /\ alarms[b].audio = audio

(* The first part of Save, up to the transcoding.  Names, rules and other  *)
(* valid settings are left out; a created alarm has an id nobody ever had. *)
SaveBegin(id) ==
    /\ "save" \in Ops /\ edit.pc = "idle" /\ ~Active(current[id])
    /\ alarms[id] = NoAlarm => rung[id] = {} /\ \A r \in Runs : run[r].alarm # id
    /\ \E s \in Speakers, set \in Settings, sameSound \in BOOLEAN :
         LET old == alarms[id]
             audio == IF old = NoAlarm THEN NoAudio ELSE old.audio
             reuse == sameSound /\ audio \in files /\ set.timed = old.timed
         IN  edit' = [pc |-> IF reuse THEN "commit" ELSE "prepare",
                      id |-> id, old |-> audio,
                      new |-> [speaker |-> s, at |-> set.at, audio |-> audio,
                               lastFire |-> IF old = NoAlarm THEN 0 ELSE old.lastFire,
                               enabled |-> set.enabled, snooze |-> 0, timed |-> set.timed,
                               ring |-> IF reuse /\ OthersHave(id, audio)
                                        THEN "shared" ELSE "own"]]
    /\ UNCHANGED <<now, store, engine, loop, down, device, made, rung>>

ReleaseImporting == edit' = IdleEdit

(* prepareSound: a ringtone under a fresh name, or no ringtone at all.     *)
SavePrepare ==
    /\ edit.pc = "prepare"
    /\ \/ /\ ReleaseImporting
          /\ UNCHANGED <<files, made>>
       \/ \E x \in Audios \ made :
            /\ files' = files \cup {x} /\ made' = made \cup {x}
            /\ edit' = [edit EXCEPT !.pc = "commit", !.new.audio = x]
    /\ UNCHANGED <<now, alarms, engine, loop, down, device, rung>>

StaleFire(id) == edit.new.lastFire      \* mutant: as it was before the transcoding
LastFire(id) == IF alarms[id] = NoAlarm THEN edit.new.lastFire ELSE alarms[id].lastFire

IdleNow(id) == TRUE                     \* mutant: not checked again
StillIdle(id) == ~Active(current[id])

(* The second part, under e.mu: the run is checked again, for transcoding  *)
(* takes minutes, and the last fire is the store's.                        *)
SaveEnd ==
    /\ edit.pc = "commit"
    /\ edit' = IdleEdit
    /\ LET id == edit.id
           replaced == edit.new.audio # edit.old
       IN  \/ /\ StillIdle(id)
              /\ alarms' = [alarms EXCEPT ![id] = [edit.new EXCEPT !.lastFire = LastFire(id)]]
              /\ files' = IF replaced THEN files \ {edit.old} ELSE files
           \/ /\ ~StillIdle(id) \/ "storefails" \in Ops
              /\ files' = IF replaced THEN files \ {edit.new.audio} ELSE files
              /\ UNCHANGED alarms
    /\ UNCHANGED <<now, engine, loop, down, device, made, rung>>

DeleteFree == TRUE                      \* mutant: e.importing is not tried
NotImporting == edit.pc = "idle"

Delete(id) ==
    /\ "delete" \in Ops /\ NotImporting /\ ~Active(current[id])
    /\ alarms[id] # NoAlarm
    /\ alarms' = [alarms EXCEPT ![id] = NoAlarm]
    /\ current' = [current EXCEPT ![id] = NoRun]
    /\ files' = files \ {alarms[id].audio}
    /\ UNCHANGED <<now, run, loop, edit, down, device, made, rung>>

(* A backup.  Its alarms come back disabled and unfired; any of them may   *)
(* name a ringtone that is gone, was never here or is another's, too: only *)
(* their ids are compared.                                                 *)
Import ==
    /\ "import" \in Ops /\ NotImporting
    /\ \A id \in Alarms : ~Active(current[id])
    /\ \E kept \in SUBSET Alarms :
       \E speaker \in [kept -> Speakers], set \in [kept -> Settings],
          audio \in [kept -> Audios \cup {NoAudio}] :
          /\ alarms' = [a \in Alarms |->
               IF a \in kept
               THEN [speaker |-> speaker[a], at |-> set[a].at, audio |-> audio[a],
                     enabled |-> FALSE, lastFire |-> 0, snooze |-> 0, timed |-> set[a].timed,
                     ring |-> IF \E b \in kept \ {a} : audio[b] = audio[a] /\ audio[a] # NoAudio
                              THEN "shared" ELSE "backup"]
               ELSE NoAlarm]
          /\ made' = (made \cup {audio[a] : a \in kept}) \ {NoAudio}
    /\ current' = [a \in Alarms |-> NoRun]
    /\ rung' = [a \in Alarms |-> {}]
    /\ UNCHANGED <<now, files, run, loop, edit, down, device>>

(***************************************************************************)
(* The world.                                                              *)
(***************************************************************************)

Tick == now < Horizon /\ now' = now + 1
        /\ UNCHANGED <<store, engine, loop, edit, down, device, made, rung>>

(* A control point casts: it sets an address and, before or after, plays.  *)
Cast(s) ==
    /\ "cast" \in Ops
    /\ Hold(s, Other, "cast")
    /\ sounding' \in {sounding, [sounding EXCEPT ![s] = Other]}
    /\ UNCHANGED <<now, store, engine, loop, edit, down, made, rung>>

(* The ringtone is over, or somebody silences the speaker.                 *)
Silence(s) ==
    /\ "silence" \in Ops /\ sounding[s] # NoRun
    /\ sounding' = [sounding EXCEPT ![s] = NoRun]
    /\ UNCHANGED <<now, store, engine, loop, edit, down, held, newest, yielded, made, rung>>

(* Manager.Apply closes the renderer of a speaker and makes another: the   *)
(* runs keep the one they started with, which Poll may have seen stopped.  *)
Replace(s) ==
    /\ "manager" \in Ops
    /\ \E seen \in BOOLEAN :
         run' = [r \in Runs |->
           IF run[r].speaker = s /\ run[r].rend = "open" /\ run[r].state # "unused"
           THEN [run[r] EXCEPT !.rend =
                   CASE held[s] # r -> "closed"
                     [] held[s] = r /\ seen /\ sounding[s] # r -> "stopped"
                     [] OTHER -> "holding"]
           ELSE run[r]]
    /\ held' = [held EXCEPT ![s] = NoRun]
    /\ newest' = [newest EXCEPT ![s] = [by |-> Other, what |-> "cast"]]
    /\ UNCHANGED <<now, store, current, loop, edit, down, sounding, yielded, made, rung>>

(* ctx is done: play goroutines leave, and every Renderer refuses commands *)
(* from now on, for its root derives from ctx.                             *)
Shutdown ==
    /\ "shutdown" \in Ops /\ ~down
    /\ down' = TRUE
    /\ run' = [r \in Runs |-> [run[r] EXCEPT !.live = FALSE]]
    /\ UNCHANGED <<now, store, current, loop, edit, device, made, rung>>

(* The process ends, at any point, and starts again: runs and locals are   *)
(* lost, the store, the ringtones and what the speakers do are not.        *)
Restart ==
    /\ down \/ "crash" \in Ops
    /\ down' = FALSE
    /\ current' = [a \in Alarms |-> NoRun]
    /\ run' = [r \in Runs |->
         IF run[r].state = "unused" THEN run[r]
         ELSE [run[r] EXCEPT !.state = "lost", !.live = FALSE, !.play = "done",
                             !.stop = "none", !.rend = "closed"]]
    /\ loop' = IdleLoop(now) /\ edit' = IdleEdit
    /\ held' = [s \in Speakers |-> NoRun]
    /\ newest' = [s \in Speakers |-> [by |-> Other, what |-> "cast"]]
    /\ UNCHANGED <<now, store, sounding, yielded, made, rung>>

(***************************************************************************)
(* The specification.                                                      *)
(***************************************************************************)

Schedule == Scan \/ Claim \/ StartClaimed \/ ShutdownStops

Ring(r) ==
    \/ PlaySetURI(r) \/ PlayBegin(r) \/ PlayWire(r) \/ PlayResult(r)
    \/ WatchEnds(r) \/ WatchDeadline(r) \/ DeadlineStops(r)

Silencing(r) == StopAsk(r) \/ StopBegin(r) \/ StopWire(r) \/ StopEnds(r)

Users ==
    \/ \E id \in Alarms : Test(id) \/ Stop(id) \/ SaveBegin(id) \/ Delete(id)
    \/ SavePrepare \/ SaveEnd \/ Import

World ==
    \/ Tick \/ Shutdown \/ Restart
    \/ \E s \in Speakers : Cast(s) \/ Silence(s) \/ Replace(s)

Next ==
    \/ Schedule
    \/ \E r \in Runs : Ring(r) \/ Silencing(r)
    \/ Users
    \/ World

Spec == Init /\ [][Next]_vars

(* Goroutines that can run do; timers fire; the renderer's opMu is fair;   *)
(* a ringtone is a file, which the speaker reaches the end of.             *)
Fairness ==
    /\ WF_vars(Schedule)
    /\ WF_vars(SavePrepare \/ SaveEnd)
    /\ \A s \in Speakers : WF_vars(sounding[s] \in Runs /\ Silence(s))
    /\ \A r \in Runs :
         /\ WF_vars(PlaySetURI(r)) /\ SF_vars(PlayBegin(r)) /\ WF_vars(PlayWire(r))
         /\ WF_vars(PlayResult(r)) /\ WF_vars(WatchEnds(r) \/ WatchDeadline(r))
         /\ WF_vars(DeadlineStops(r)) /\ WF_vars(StopAsk(r))
         /\ SF_vars(StopBegin(r)) /\ WF_vars(StopWire(r)) /\ WF_vars(StopEnds(r))

FairSpec == Spec /\ Fairness

(***************************************************************************)
(* Properties.                                                             *)
(***************************************************************************)

(* Every variable keeps its type.                                          *)
TypeOK ==
    /\ now \in Nat
    /\ alarms \in [Alarms -> AlarmRecords \cup {NoAlarm}]
    /\ files \subseteq made /\ made \subseteq Audios
    /\ current \in [Alarms -> Runs \cup {NoRun}]
    /\ run \in [Runs -> RunRecords]
    /\ loop \in [at : Nat, todo : SUBSET (Alarms \X Key), claimed : Alarms \cup {NoAlarm}]
    /\ edit = IdleEdit \/ edit \in EditRecords
    /\ down \in BOOLEAN
    /\ held \in [Speakers -> Runs \cup {NoRun, Other}]
    /\ newest \in [Speakers -> [by : Runs \cup {Other}, what : {"play", "stop", "cast"}]]
    /\ sounding \in [Speakers -> Runs \cup {NoRun, Other}]
    /\ rung \in [Alarms -> SUBSET Key]
    /\ yielded \subseteq Runs

(* An alarm is claimed at most once for each minute and each snooze it is  *)
(* due at, whatever is saved, stopped or restarted meanwhile (an import    *)
(* begins anew).                                                           *)
FiresOnce ==
    [][\A x \in loop.todo \ loop'.todo :
         loop.claimed = NoAlarm /\ loop'.claimed = x[1] => x[2] \notin rung[x[1]]]_vars

(* At most one alarm is about to ring or rings on a speaker.               *)
OneRingsPerSpeaker ==
    \A r, q \in Runs :
        /\ run[r].state \in {"starting", "ringing"}
        /\ run[q].state \in {"starting", "ringing"}
        /\ run[r].speaker = run[q].speaker
        => r = q

Shared(id) == alarms[id] # NoAlarm /\ alarms[id].ring = "shared"

(* The ringtone a run may be asked for is there: neither Save nor Delete   *)
(* takes it away while the alarm rings, though both have begun before it.  *)
(* Only of alarms that a backup gave one ringtone can one lose it to the   *)
(* Save or Delete of another.                                              *)
RingtoneStays ==
    \A r \in Runs :
        run[r].state \in {"starting", "ringing"} =>
            run[r].audio \in files \/ Shared(run[r].alarm)

(* A saved alarm has its ringtone, and no other alarm has it, unless both  *)
(* were given it by a backup.                                              *)
SavedHasRingtone ==
    \A a \in Alarms : alarms[a] # NoAlarm =>
        /\ alarms[a].ring = "own" => alarms[a].audio \in files
        /\ ~Shared(a) => alarms[a].audio = NoAudio \/ ~OthersHave(a, alarms[a].audio)

(* Whoever stops, edits or deletes an alarm by its id meets the run that   *)
(* is ringing: e.runs never loses sight of one.                            *)
RingingIsCurrent ==
    \A r \in Runs :
        run[r].state \in {"starting", "ringing", "stopping"} => current[run[r].alarm] = r

Silent(r) == sounding[run[r].speaker] # r

(* An alarm that was stopped is silent and stays so, even if StartAlarm    *)
(* had not reached the renderer yet, unless a newer cast took its address. *)
StoppedIsSilent ==
    \A r \in Runs :
        run[r].silenced /\ run[r].rend = "open" /\ r \notin yielded => Silent(r)

(* README.md:26, stopping or snoozing ends the playback.                   *)
StopEndsPlayback ==
    \A r \in Runs : run[r].silenced /\ run[r].rend = "open" => Silent(r)

(* An alarm without a deadline whose renderer was closed under it: nobody  *)
(* but a user ends its run, for that renderer says PLAYING for ever.       *)
Stranded(r) == run[r].state = "ringing" /\ ~run[r].timed /\ run[r].rend = "holding"

(* Every other run comes to an end, and no Stop remains unanswered.        *)
RunsSettle ==
    \A r \in Runs :
        run[r].state \in {"starting", "ringing", "stopping"}
        ~> run[r].state \in {"ended", "failed", "stop_failed", "lost"} \/ Stranded(r)

(***************************************************************************)
(* The inductive invariant behind the safety properties of the runs.       *)
(***************************************************************************)

(* What e.runs has of an alarm is a run of it, and as long as that may     *)
(* sound the alarm keeps its speaker and its ringtone: nobody edits it.    *)
CurrentInv ==
    \A id \in Alarms : current[id] # NoRun =>
        LET q == run[current[id]] IN
        /\ q.alarm = id /\ q.state # "unused"
        /\ Active(current[id]) =>
             alarms[id] # NoAlarm /\ alarms[id].speaker = q.speaker /\ alarms[id].audio = q.audio

(* A run that started is of an alarm, and only one being stopped is in     *)
(* a Stop.                                                                 *)
RunInv ==
    \A r \in Runs : /\ run[r].state # "unused" \/ run[r].play # "none" => run[r].alarm \in Alarms
                    /\ run[r].stop # "none" => run[r].state = "stopping"

(* Ringtones are never handed out twice, and nobody has the one Save has   *)
(* made, nor another alarm the one it keeps, unless a backup shared it;    *)
(* the one it replaces is still the alarm's.                               *)
RingtoneInv ==
    /\ \A a \in Alarms : alarms[a] # NoAlarm => alarms[a].audio \in made \cup {NoAudio}
    /\ edit # IdleEdit =>
         /\ edit.old = IF alarms[edit.id] = NoAlarm THEN NoAudio ELSE alarms[edit.id].audio
         /\ edit.new.ring \in {"own", "shared"}
         /\ edit.pc = "commit" =>
              /\ edit.new.audio \in files
              /\ edit.new.ring = "own" => ~OthersHave(edit.id, edit.new.audio)
         /\ edit.new.audio # edit.old =>
              \A a \in Alarms : alarms[a] # NoAlarm => alarms[a].audio # edit.new.audio

IInv ==
    /\ TypeOK /\ CurrentInv /\ RunInv /\ RingtoneInv
    /\ RingingIsCurrent /\ OneRingsPerSpeaker
    /\ RingtoneStays /\ SavedHasRingtone

(***************************************************************************)
(* The inductive invariant behind FiresOnce.                               *)
(***************************************************************************)

(* A key that was claimed for an alarm is not due again: the minute is     *)
(* over or the alarm's last fire, and neither the snooze that is set, nor  *)
(* the end of it, is in that minute or was claimed.                        *)
FiredOK(a, keys, u) ==
    \A k \in keys :
        /\ k[1] = "minute" =>
             /\ 2 * k[2] <= u
             /\ a.lastFire = k[2] \/ 2 * k[2] + 2 <= u
             /\ a.snooze > 0 => 2 * k[2] + 2 <= a.snooze
        /\ k[1] = "snooze" => k[2] <= u /\ (a.snooze > 0 => k[2] # a.snooze)

FiresInv ==
    /\ loop.at <= now
    /\ \A id \in Alarms : alarms[id] # NoAlarm => FiredOK(alarms[id], rung[id], loop.at)
    /\ edit # IdleEdit =>
         edit.new.snooze = 0 /\ (alarms[edit.id] = NoAlarm => rung[edit.id] = {})

(***************************************************************************)
(* The inductive invariant behind StoppedIsSilent.                         *)
(***************************************************************************)

(* A run sounds only after it has set its address, which its renderer      *)
(* holds from then on, unless it gave it up for another's.  A run that is  *)
(* being stopped or was is cancelled, so that it cannot begin to play; the *)
(* renderer lets either play or Stop speak to the speaker at a time.       *)
QuietInv(r) ==
    LET q == run[r]
        s == q.speaker
    IN  /\ q.state = "unused" => q.play = "none" /\ q.stop = "none" /\ ~q.silenced
        /\ q.play \in {"none", "setURI"} => \A t \in Speakers : sounding[t] # r
        /\ q.rend = "open" /\ r \notin yielded /\ held[s] # r => q.play \in {"none", "setURI"}
        /\ q.state = "stopping" \/ q.silenced => ~q.live
        /\ ~(q.rend = "open" /\ q.play = "wire" /\ q.stop = "wire")
        /\ (q.stop = "ok" \/ q.silenced) /\ q.rend = "open" /\ r \notin yielded =>
             q.play # "wire" /\ sounding[s] # r

SilenceInv == \A r \in Runs : QuietInv(r)
=============================================================================
