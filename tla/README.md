# MiAir Plus in TLA+

MiAir Plus runs on a NAS and makes Xiaomi speakers, which only Xiaomi's cloud can
command, look like DLNA renderers and AirPlay receivers; it also rings alarms on
them. It is a Go program of some twenty goroutines per speaker whose state is
changed by control points, phones, a browser, a clock and the cloud's answers.
This directory holds models of the parts whose correctness depends on the order
in which these meet, the TLC instances that check them, and proofs.

    tlc -workers 2 -config Renderer.cfg MCRendererParts
    tlapm RendererProofs.tla

## 1. The system

Paths are below `internal/`. "Hard" names what tests hardly reach; the list with
line numbers is `hazards` in `PROJECT.json`.

**Renderer** (`dlna/renderer.go`, `dlna/poll.go`). *State*: playback state,
address, queue, volume, mute; a generation; `r.cancel`, the context of the cloud
operation under way; `opMu`. *Operations*: SetURI, SetNext, Play, AutoPlay, Pause,
Stop, StopURI, Seek, SetVolume, SetMute, Next, StartAlarm, StartAirPlay,
EndAirPlay, Close, and Poll every 5 s. *Hard*: a command reserves a generation,
queues for `opMu`, is at the cloud for seconds, and then has to tell whether it
is still wanted; Poll reads the speaker while this happens. *Correct if* the
newest command wins, never waits for an older one, and what is observed late
undoes nothing.

**DLNA endpoints** (`dlna/http.go`, `dlna/ssdp.go`). SOAP requests become calls
of the renderer. *Eventing, state*: at most 128 subscriptions, each with an expiry,
a context, a queue of one place and a worker. *Operations*: SUBSCRIBE, renewal,
UNSUBSCRIBE, Changed, the worker's select. *Hard*: a change and its Changed are two
steps, Changed drops what does not fit, the worker reads the renderer without the
lock, renderers are replaced under a subscription. *Correct if* a subscriber learns
the last change and a subscription that was confirmed is served. *Discovery, state*:
a socket, a context, a wait group, 64 slots. *Operations*: Start, announcing,
answering searches, Stop. *Hard*: searches that arrive while Stop waits. *Correct
if* nothing is sent once Stop has returned, and it returns.

**Alarm engine** (`server/alarms.go`, `alarms_api.go`, `config_backup.go`).
*State*: alarms in the store, ringtones on disk, `e.runs`, `e.importing`.
*Operations*: the one-second schedule, test, stop, snooze, save (with a
transcoding that takes minutes), delete, import; per run a goroutine that rings,
watches and has a deadline. *Hard*: a crash between claim and start, edits while
an alarm rings, stops that overtake starts, a renderer that is replaced.
*Correct if* an alarm rings once when due, an alarm that was stopped is silent,
and no edit takes away a ringtone in use.

**AirPlay server** (`airplay/server.go`). *State*: the active slot, sessions with
four goroutines and two one-element channels each. *Operations*: accept, ANNOUNCE,
SETUP, RECORD, SET_PARAMETER, FLUSH, TEARDOWN, Close. *Hard*: five ways to cancel,
each while the goroutines wait for something else. *Correct if* one sender streams
at a time, one that has gone is not played, and everything ends.

**RTP reordering** (`airplay/rtp.go`). 16-bit sequence numbers, a window of 512,
25 ms and 120 ms timers. *Correct if* the stream is in order and never stuck.

**Live stream** (`media/proxy.go`, `Live`). A ring the decoder writes without
waiting and any number of GET requests follow. *Hard*: wrapping under a slow
reader, lost wakeups, the end.

**Media proxy** (same file, `Proxy`). *State*: up to 256 addresses for 24 hours, 16
slots. *Operations*: URL, ServeHTTP with two attempts. *Correct if* every slot comes
back, on whichever path a fetch ends. **Casts and seeks** (`server/transcode.go`,
`publish` and `stop` of the manager). *State*: the
table of published streams, 4 slots, an ffmpeg and a goroutine of each seek. *Hard*:
a cast collects its renderer, its proxy address and its published address one after
the other while the manager replaces them all. *Correct if* a speaker is never sent
to an address that nobody serves.

**Configuration store** (`config/store.go`). A value and a file, replaced by
rename. *Correct if* a crash or an error leaves the old or the new value.

**Manager** (`server/manager.go`). *State*: listener, renderers, AirPlay servers,
the AirPlay 2 receiver, discovery. *Operations*: Schedule, Apply, Close. *Hard*:
settings that change while they are applied, steps that fail half-way, shutdown.
*Correct if* the services come to match the settings and never use what is gone.

**AirPlay 2 receiver** (`airplay2/receiver.go`). *State*: two native processes,
two bounded queues with a goroutine each, a decoder with its address, whether
the session has ended. *Operations*: Start, which asks until the RTSP port
answers, the four cases of the bridge's select, Close. *Hard*: audio and the news
of sessions arrive through different queues, any part can fail while the others
wait for it. *Correct if* a stream is taken away as a whole, a sender that casts is
heard, and a receiver that failed ends, so that the manager can make another.

**Xiaomi account** (`xiaomi/client.go`, `xiaomi/qr.go`, handlers of
`server/api.go`). *State*: the credentials in the store, `authMu`, the minute
between two exchanges, at most 4 QR sessions with a context each. *Operations*: a
call with its second attempt, refresh, Maintain, Login, Logout, a QR session from
its code to the login, CancelAll. *Hard*: an exchange takes seconds, during which
users log in, log out and close the page. *Correct if* nothing overwrites newer
credentials and a logout lasts.

**HTTP API** (`server/api.go` and others): decoding, sign-in, sessions. **The
rest**: calendar rules, diagnostics, update check, packaging, web pages.

*Interactions.* SOAP handlers, alarm runs and AirPlay sessions call the same
renderer; the manager creates and closes renderers and AirPlay servers under
everybody's feet; API handlers write the store and wake the manager; the alarm
engine writes the store; the decoder of a session writes the ring that the
speaker itself reads through the manager's listener; a cast is fetched from the
proxy the manager has just replaced or not; every cloud call goes through the account.

## 2. The modules

| Module | Models | Checked by | Proofs |
| --- | --- | --- | --- |
| `Renderer` | `dlna/renderer.go`, `dlna/poll.go` | `renderer`, `renderer_poll_state` | `RendererProofs` |
| `LatestWins`, `RendererRefines` | a renderer's promise to its callers | `renderer` | `RendererProofs` |
| `AlarmEngine` | `server/alarms.go`, the import of `config_backup.go` | runs `alarm_*` | `AlarmProofs` |
| `AirPlay` | `airplay/server.go` | `airplay` | `AirPlayProofs` |
| `Receiver` | `airplay2/receiver.go` | `receiver` | `ReceiverProofs` |
| `Jitter` | `airplay/rtp.go`, the audio goroutine | `stream` | `StreamProofs` |
| `Live` | `media/proxy.go`, `Live` | `stream` | `StreamProofs` |
| `Stream` | `Jitter`, decoder and `Live` composed | `stream` | `StreamProofs` |
| `ConfigStore` | `config/store.go` | `manager` | `ManagerProofs` |
| `Manager` | `server/manager.go` over `ConfigStore` | `manager`, `manager_tool` | `ManagerProofs` |
| `Account` | `xiaomi/client.go`, `xiaomi/qr.go`, the account handlers of `server/api.go` | `services` | `AccountProofs` |
| `Events` | subscriptions and notifications of `dlna/http.go` | `services` | `ServicesProofs` |
| `Discovery` | `dlna/ssdp.go` | `services` | `ServicesProofs` |
| `Proxy` | `media/proxy.go`, `Proxy` | `services` | |
| `Casts` | `server/transcode.go`, `publish` and `stop` of `server/manager.go`, over `Proxy` | `services`, `seek_jobs` | `ServicesProofs` |

`MC*` modules hold the definitions the `.cfg` files give to constants.
`PROJECT.json`, "map", has the lines of every definition. Definitions whose
comment begins with "mutant" are faults a hand could put into the code; each
property is shown to catch one (`PROJECT.json`, "mutants").

### Renderer

`r.mu` is held for short sections, each an action; `r.opMu` is held across cloud
calls and is a variable. A command is a process with a program counter: its
section under `r.mu` (`SetURI`, `Reserve`, `Pause`, ...), `lock` where it queues
for `opMu` (`Begin`, or `Drop` if the generation has moved on), `wire` while it
talks to the cloud (`Answer`, one call after the other) and `commit`, where
`commandAt` decides whether its outcome still counts. A cloud call is done, done
with its answer lost, or failed. Poll is `PollTick` (what it sees of the renderer),
`PollStatus` (what the speaker says), `PollApply`. `overtaken` and `seen.calm`
are histories the properties need. `LatestWins` says the same without
generations and locks: commands are current until superseded, only a current one
that was accepted changes the playback; `RendererRefines` maps the one to the other.

### AlarmEngine

`Scan`, `Claim`, `StartClaimed` are the schedule: claiming is a write to the
store, starting a section of `e.mu` after it. A run has two program counters,
`play` (StartAlarm's two sections, its wait for `opMu`, its cloud call, the watch)
and `stop` (one Stop at a time, with StopURI's steps). `edit` holds a Save between
its two sections. Of the renderer the module has the address it holds, its newest
command and what the speaker sounds. Time runs in half minutes. `Settings` is what a
user sets an alarm to: its minute, whether it is enabled, and whether it is `timed`,
that is, stopped after some minutes; a "full" or "repeat" alarm has no deadline.
`ring` is a history of each alarm: whether a Save made its ringtone or kept one that
was its own, a backup named it, or another alarm of that backup has it too. A run
whose renderer the manager closes goes on watching that object, which says what it
said last (`rend`).

### AirPlay

A session is a record with a counter for each goroutine, the two channels, and
what its requests have set up. The cleanup of the reader is six actions, in the
order of `run`'s deferred calls. The renderer is `air` (the session `r.airplay` was
set for) and `newest`.

### Receiver

`starter` is Start and then whoever closes; `natives` the two processes with the
goroutines that wait for them; `chunkLoop` and `eventLoop` the producers; `bridge`
where the bridge is, each call of `end` that waits being a step of its own, and
`return` what it goes on with. `decoder` stands for everything `end` takes away
(process, context, ring, address), `play` for the goroutine that calls
StartAirPlay. The renderer is `playing` (`r.airplay`) and `latest`, as in `AirPlay`.
What a producer holds between its read and its send is counted as not yet read.

### Jitter, Live, Stream

`Jitter` has the sequence numbers modulo `Modulus` wherever the code compares
them, and Drain loop turn by loop turn. The channel `ss.packets` is one more place
where packets wait and get lost, and is part of the network. `Live` numbers the
channels of `l.changed`. `Stream` joins them with a decoder that turns a packet
into a byte, late and in chunks, over a pipe that can be full.

### ConfigStore, Manager

`ConfigStore` has the steps of Update, each of which can fail, and the crash. In
`Manager`, `Apply` is a program counter (`pc`) over the order of its steps, with a
snapshot taken at its beginning; `stop` is shared by Apply and Close and returns
to `back`. A configuration is what Apply looks at.

### Account

A task is a goroutine that uses the account, with a program counter (`step`) and its
locals (`task`: what it does, how often it has tried, the credentials its exchange
started from and those it got). `authMu` is a variable, since it is held across the
requests of an exchange; `RefreshBegins` and `LoginBegins` take it with the snapshot
that follows, `Logout` is one action, the only steps of which are Update's. `over`
are the tasks whose context is done, by the browser, CancelAll, the session's end or
its 5 minutes. What Xiaomi answers, the store's errors included, is free. `met` and
`gone` are histories: the sessions a CancelAll met and those a Logout followed.

### Events

Everything under `e.mu` is one action; `Change` and `Changed` are apart, as the
commands of the renderer call Changed after they have unlocked `r.mu`. `AlarmChange`
is the one change no Changed follows: StartAlarm sets volume, queue and title and then
finds the proxy full or itself superseded. `untold` has the subscriptions it left
without a token, until their worker looks again for another reason. A worker's
turn is three steps: it takes a token, reads the renderer, sends. A full queue is a
token that is there already, which is why `queue` is a set. `promised` is the history
of what control points were told.

### Discovery

The goroutines are places in `at`; `group` is the wait group, `searching` the search
`read` has a slot for and has not yet handed to its goroutine, which is where a
late `wg.Add` would go wrong.

### Proxy, Casts

`Proxy` is the table and the fetches. `Casts` extends it with the handlers that cast
or seek, the jobs of seeks and the manager as far as it matters to them: services are
numbered in the order they were started, and a renderer, a proxy and a host carry
the number they were made with. A cast asks the proxy of its renderer, a seek the
manager's (`AskProxy`).

### MCServices

These parts share no variables, so one instance checks them side by side: `part`
chooses one at the beginning and the others stand still, except that casts run
with their proxy. A fetch never changes the table, so `part` "casts" has casts and
"proxy" has fetches.

## 3. What is checked

All bounds are constants of the `.cfg` files. Every passing run finishes the whole state
space of its instance.

**renderer** - two parts, of which a behaviour has one (`MCRendererParts`). In "two",
two commands of all fifteen kinds, with the poller, calls that fail
and calls whose answer is lost. Two commands are one that supersedes and one that is
superseded, at any point of either; with the poller they are three users of `opMu`.
In "casts", a stop of an address, a new address from a second source, and one call
that casts or starts an alarm: it takes three, and two sources, for an address to
change between the moment StopURI compares it and the moment it stops. The poller
stands still there; what must happen in the end is checked in "two".
Shows that a command at the cloud is cancelled exactly if it is superseded
(`CancelledIsSuperseded`), that nothing is at the cloud when Close has returned
(`CloseStopsTheCloud`), that the deadline of an alarm stops only that alarm
(`StopURIStopsItsOwn`), that a poll which found no command waiting undoes nothing
(`CalmPollKeepsState`), that the renderer implements `LatestWins`
(`LatestCommandWins`), that every call returns and that in the end the poller has
made the renderer what the speaker is. For any number of commands and sources
everything but the last two is proved.

**renderer_poll_state** - a counterexample. A Pause that still waits for `opMu`
has bumped the generation and has no `r.cancel` yet; a poll that looks then takes
back the pause when it is done. `poll.go:11` says the generation prevents this.

**alarm_edit** - two alarms of one speaker, saved, deleted, imported, tested and
stopped, with two runs, two ringtones, failing stores, shutdowns and restarts:
`RingtoneStays`, `SavedHasRingtone`, `RingingIsCurrent`, `OneRingsPerSpeaker`. An
import takes any ringtones, one for two alarms too, which is the exception both of the
first two make.

**alarm_live** - one alarm, timed or not, two minutes, saves, stops, snoozes, casts, crashes and
renderers that are replaced: `FiresOnce`, `StoppedIsSilent`, and that a run and its
stops come to an end (`RunsSettle`). Half minutes let a snooze overlap two
minutes. An alarm without a deadline whose renderer was closed while it played rings
on in `e.runs` until a user stops it (`Stranded`), and `RunsSettle` says that no other
does. It is not checked for a program that is being shut down, which
would double the states; `alarm_edit` has shutdowns.

**alarm_cast** - a counterexample. SetAVTransportURI replaces the renderer's
address and stops nothing: a Stop after it succeeds and the alarm sounds on.
README.md:26 promises that stopping ends the playback.

**airplay** - two senders, one of which changes the volume, two slots, Close at any
time: `OneStreams`, `LatestVolumeIsKept`, `EndedIsOver`, `SessionsEnd`,
`RecordSettles`, `CloseEnds`. Two connections are
what the active slot is about; a second slider adds nothing, volumes being a
session's own.

**receiver** - two incidents (a sender's session, a silence of 12 s, a process or a
decoder that dies or does not start) with queues of one place, other users of the
speaker at any time: `NothingLeft`, `ReceiverSettles`, `AudioIsHeard`. Two sessions
that follow each other, or one and a failure, are what the order of news and
audio is about; queues of one place are full most of the time, which is when the
goroutines wait for each other.

**stream** - five packets, numbers modulo 8, a window of 2, one FLUSH, a ring of
two bytes, a player: `AskedBeforeSkipped`, `StreamInOrder`,
`OnePiece`, `NoLostWakeup`, `ClosedIsDrained`, `BufferMoves`. The window is smaller
than half the numbers as in the code, packets go beyond it and numbers turn
negative; the ring wraps twice.

**manager** - six configurations that differ in address, receiver, speakers,
account and ffmpeg, changed at any time, logins with a QR code, which save and wake
nobody, and one fault or crash anywhere:
`SavedIsKept`, `AirPlayHasRenderer`, `OneReceiver`, `SettingsAreApplied`.

**manager_tool** - a counterexample. A new ffmpeg is applied to the AirPlay 2
receiver and to whatever starts later; an AirPlay server that runs keeps the old
one, while the settings page says that the new kind, included or not, is in use.

**services** - one instance of five parts, each by itself.

* *Account*: two tasks of any kind, one user, one QR session, three exchanges that
  succeed. Whatever goes wrong is between one task in its exchange and one that
  logs in, renews or logs out meanwhile; a third waits for `authMu`, and the proofs
  have any number. `LogoutHolds`, `CredentialsMoveOn`.
* *Events*: two subscriptions of which one fits, two renderers in turn, one
  command. A second command only adds a second debt of the same renderer; two
  values of what it shows are enough to tell old from new. `NoChangeIsMissed`,
  `PromisedIsServed`.
* *Discovery*: three searches and two slots, so that a slot comes back to a search
  that was refused before, and a search arrives at every step of Stop.
  `StopWaitsForAll`.
* *Proxy*: two fetches for one slot, two sources for one place.
* *Casts*: two handlers, one job slot, services stopped and started once. Two of
  each because a handler can be refused only by another, and services that differ
  are the ones before and after. That a day, the life of an address, is longer than
  a cast and than a job's 4 hours is assumed (`DayPasses`). `CastIsServed`.

`ServicesSettle` is what each part owes in the end: every use of the account
returns, a subscription that is kept tells the last change, Stop returns, and the
slots of streams and jobs come back.

**seek_jobs** - a counterexample. A speaker stops reading the stream of a seek and
stays away; ffmpeg reads on from the source into a ring that never waits, and the
job keeps one of the four slots until the source ends or 4 hours are over.
`transcode.go:13` says that jobs expire with their reader.

Deadlock is checked where the system never stops (Renderer has an `Idle` step for
the end of an instance, AirPlay and Manager always go on). It is not in the alarm
runs, where the clock ends at `Horizon`, not in `stream`, where packets run out, and
not in `services` and `seek_jobs`, where tasks, subscriptions and handlers do.

### Fairness

* Goroutines that can run do: weak fairness of each one's steps.
* `sync.Mutex` hands itself to its oldest waiter after 1 ms (starvation mode):
  strong fairness of taking `opMu`, `applyMu`, `authMu`.
* Cloud calls, listeners and processes have timeouts: their answers are steps of
  the goroutine and weakly fair. What the answer is, is never assumed, but for
  `PollMirrors`, which needs a status call to succeed again and again, and
  `RunsSettle`, which needs the same and a ringtone to come to its end. The clients
  of `xiaomi/` have timeouts, a QR session a context of 5 minutes, a fetch and a
  seek's job one of 4 hours.
* `select` is random among ready cases: strong fairness of the ticks of the
  audio goroutine and of each case of the receiver's bridge. The announcer of
  `Discovery` has minutes between two ticks, in which only `ctx.Done()` is ready.
* ffmpeg puts out audio and ends when it is killed; a native process ends 3 s
  after SIGTERM at the latest (`WaitDelay`). An AirPlay 2 sender that stays sends.
* Otherwise senders, users, crashes and faults are under no fairness.
* `SettingsAreApplied` is conditional on settings that stay, and, unless AutoRecover
  is set, on no fault and no QR login that is still without a wake: only a page that
  polls the session afterwards schedules the manager (api.go:318).

## 4. What is proved

**`RendererProofs`** for any number of commands, sources and levels, from
`ProcAssumption`, `URIAssumption` and `LevelAssumption` (names are distinct, 0 is
a level). `Invariance` proves `Spec => []IInv`; `TypeCorrect`, `CancelOwner`,
`CancelIsExact`, `CloseIsFinal` and `StopURIIsExact` follow. The properties are not
inductive alone: that the newest command is not cancelled needs that whoever
supersedes has cancelled, which needs that the operation at the cloud with the
newest generation is the one in `r.cancel` (`NewestHasCancel`), which needs that
generations only grow and no two superseding commands share one
(`GenerationsOK`). `CloseIsFinal` needs that no call with a live context is left
when Close has its answer (`CloseSettled`), `StopURIIsExact` that the address does
not change while a StopURI is the newest command (`StopURIReserved`). The proof
first gives every action one of six shapes (`NextShape`: still, local, supersede,
begin, answer, commit), and then shows each part of `IInv` kept by each shape.

The same module has the refinement: `PromiseKept` is
`Spec => LatestCommandWins`, for any number of commands and sources. The initial
state maps to the initial state; a step of the shape supersede maps to Supersede,
and of the others each to Join, Leave, Work, Accept, Apply, Observe or a stutter. What
the mapping hides is whether a command is still current, which in the code is a
comparison of generations: `GenerationsOK` makes the newest one unique. A poll that
applies what it saw maps to Observe only if no operation is at the cloud under the
generation it saw, which is `NewestHasCancel`: that operation would be in `r.cancel`,
and the poll looks there.

Its last theorem, `CalmPollsAreSafe`, is `Spec => CalmPollKeepsState`. A poll compares a
generation, `r.cancel` and the age of the playback, and none of the three covers all
commands. `PollInv` says that between them they do, if no command waited for
`opMu` when the poll looked: as long as the generation is still the one it saw, what
overtook it is a command that has not committed yet (`Started`, which
`NewestHasCancel` finds in `r.cancel`), or one that has just started playback, whose
age keeps the poll off, or was cut short by Close. It needs what a command has left
to ask of the cloud (`CallsLeft`) and that a Play at the cloud found a renderer that
did not play (`PlayFromStill`), so that its commit starts a new age. The
counterexample of `renderer_poll_state` is where this fails without the calm.

**`AirPlayProofs`** for any number of sessions, slots and volumes, from
`SlotsAssumption`, `NamesAssumption`, `SlidersAssumption`. `IInv` says of each session how
its requests, its slot, its volume channel and `r.airplay` hang together (`OrderOf`,
`SlotOf`, `VolumeOf`, `AirOf`), as a predicate of the session's record, of the slot
and of `air`; `OneMoves` is the lemma that a step of one session only has to show
it of that one. `OneAtATime` needs that a session with a stream has the slot until
its cleanup releases it; `EndIsFinal` that the cleanup waits for the speaker
goroutine, so that no StartAirPlay is left when EndAirPlay looks.

**`ManagerProofs`** for any configurations, speakers and faults, from
`NothingAssumption`, `SpeakersAssumption` (speakers are numbers and any set of them
has a first), `SettingsAssumption` (only speakers are enabled), `NobodyAssumption`.
The store first: `StoreIInv` adds to `SavedIsKept` what Update holds at each of its
steps, and `ManagerUsesTheStore` shows that Manager implements `StoreSpec`, so that
`SettingsAreSafe` needs nothing of the manager. `IInv` then says how far Apply has
come: once it has looked at the receiver, that is the one wanted or none
(`ReceiverFits`), and the speakers it is done with have what they should
(`SpeakersFit`). Without these the start of the receiver could break `OneReceiver` or
find no renderer. `StopFits` and `ClosedFits` say the same of stop and of Close.

**`AccountProofs`** for any number of tasks, users and sessions, from
`TaskAssumption`, `UserAssumption`, `TokenAssumption`. `AccountInv` says that whoever
is in an exchange holds `authMu` and that the store still has what it began with
(`Exclusive`), whence `NothingIsOverwritten`; that a login past its last look at its
context was met by no CancelAll that a Logout followed (`Licensed`), whence
`LogoutIsKept`. The second needs the first: the Logout would have had to take
`authMu` between the look and the write. The rest of the invariant says which tasks
are in the histories, so that a task is never logged out before it begins.

**`AlarmProofs`** for any number of alarms, speakers, runs and ringtones, from
`TimeAssumption`, `NamesAssumption` and `RecordsAssumption`. `RingtoneStays` is the
one that needs most: an alarm that rings has not been edited since (`CurrentInv`,
because Save, Delete and import refuse as long as its run is active, and Save looks
again after the transcoding), so that its ringtone is the one in the store, and a
ringtone in the store is removed only for its own alarm, since no two alarms share
one (`SavedHasRingtone`) unless a backup gave it to both, which stays on record in
their `ring`; a Save keeps this because the name it made is in nobody else's hands
(`RingtoneInv`). `RingingIsCurrent` leads from a run to its alarm, and
`OneRingsPerSpeaker` follows from it, for Start looks at the runs in `e.runs` only.
The steps of play, Stop, watch and deadline are reduced to what may become of a
single run (`Moves`); a step that only moves runs is `Ordinary` and keeps everything
(`MovesAreSafe`). A start, the note of a failed one,
the three steps of a Save, Delete, import and the restart are not, and have a lemma
each.

`ClaimedOnce` is `Spec => FiresOnce`, by `FiresInv`: of every minute and snooze an alarm
was claimed for, the minute is over or is its `lastFire`, and a snooze lies past it. A
Save keeps the `lastFire` it finds in the store as it writes, and drops the snooze; a
created alarm begins at 0, so that its id, sixteen random bytes in the code, must never
have been used. `StoppedStaysSilent` is `Spec => []StoppedIsSilent`, by `SilenceInv`: a run sounds
only after it has set the address, which its renderer holds until it yields it; a run
that is being stopped is cancelled before Stop asks the renderer; and the renderer lets
either its play or its stop speak to the speaker at a time. A play that was in the
queue for `opMu` when Stop came finds its context done. Steps that leave
the speaker and the run's flags alone are `Calm` and need no more.

**`ReceiverProofs`** for queues of any size and any number of incidents, from
`QueueAssumption` and `BoundAssumption`. `NothingLeft` is about the bridge, and what makes it
hold is elsewhere. `BridgeInv` says that the bridge and its producers begin together, that
it goes only after both, and that a Start that failed before the bridge leaves no socket;
`EndInv` that while `end` takes a stream away its decoder is closed, and that from the wait
on nobody is left to call StartAirPlay, so that what EndAirPlay reads of the renderer is
not started again behind its back.

**`StreamProofs`** for a ring, chunks, window and modulus of any size and any number of
packets and players, from `WireAssumption`, `TimeAssumption`, `SizeAssumption` and
`PipeAssumption`.
The proofs of the ring rest on `CellsDiffer` (two positions less than the ring's size apart
are different cells): `RingInv` says the ring has the last `Size` bytes that were written,
whence a chunk copied under `l.mu` is a piece of the stream (`PlayersGetOnePiece`). A
player that waits saw its channel in the section in which it saw that there was
nothing to read, and every write and Close close that channel (`WakeupsAreKept`).
The buffer's comparisons modulo 2^16 say what they mean (`DistanceIsDifference`), since
what is to come is at most half the numbers ahead of `next` (`BufferInv`). `AskInv`
says that a gap that was not asked for is younger than the last request, so that the
request is due before the patience is over (`MissingIsAskedFor`). `OrderInv` says that the
bytes of the stream and those in the decoder's pipe are in order and before `next`, whence
`OrderIsKept`.

**`ServicesProofs`** for any number of subscriptions, searches, handlers and
renderers, from `RendererAssumption`, `AnswersAssumption`, `AnswerSlotsAssumption`
and `AudioAssumption`. `EventsInv` says that what is in the table was granted, its
context alive and its worker running, so that a change finds either a free place in
the queue or a token already there (`NoneMissed`; but for the change of an alarm that
does not start, which waits for the next one), and that a promise names a
subscription that has not lapsed (`PromisesKept`). `DiscoveryInv` counts: the wait
group has exactly the living goroutines but Stop itself, the taken slots are as
many as the answers started or about to be, and the reader stays in the group while
it starts one, so that the group is not empty too early (`NothingOutlivesStop`).
`CastsInv` says that what a handler has collected, as long as its renderer is open,
belongs to the running services and is in their table (`CastsAreServed`); it holds
because stop closes the renderers before the next services start.


The type invariants of `Renderer`, `AirPlay`, `AlarmEngine`, `Receiver`, `Jitter`, `Live`,
`Stream`, `Account`, `Events` and `Discovery` are proved (`TypeCorrect`, or as a part of the invariant) and in no run
of their own, and so are `ReaderNeverWaits`, `SlotIsLiving`
(`AirPlayProofs`), `ClosedIsEmpty` (`ManagerProofs`) and `CancelIsOfTheNewest`
(`RendererProofs`).

Every invariant and action property of the passing runs is stated by a theorem.
Model-checked only: liveness (`CallsReturn`, `PollMirrors`, `RunsSettle`, `SessionsEnd`,
`RecordSettles`, `CloseEnds`, `ReceiverSettles`, `AudioIsHeard`, `BufferMoves`,
`SettingsAreApplied`, `ServicesSettle`), which under fairness needs ENABLED, about which the
prover does not reason; and that the slots of `Proxy` and `Casts` come back, a part of
`ServicesSettle`.

## 5. What is left out

* Within modelled parts: titles, metadata, positions and their wording; the text
  of RTSP, SOAP and JSON; decryption and sockets; error texts; mDNS renaming; what
  SSDP announces; the addresses, ranges and headers the proxy checks and passes on.
* The configuration store is modelled on a file system whose rename is atomic and
  stays when the process is killed. After a power failure it need not be:
  `Update` syncs the file and not its directory.
* In `Manager`, a configuration is one of six; names and ports, which restart the
  AirPlay 2 receiver, behave as the ffmpeg in its key. `Applied` leaves out which
  ffmpeg a running server has (`manager_tool`).
* Behaviours that the models have and no property judges, since nothing in the
  repository says what is right.
  - *Renderer*: Poll calls Next after it has unlocked `r.mu`, with no generation, so
    a cast that came in between is replaced by the queue (poll.go:94). StartAlarm
    sets the address and reads its generation in two sections, and a cast in between
    leaves the alarm playing under the cast's address (renderer.go:300).
    An alarm that is given up after that section has changed volume, queue and title and
    tells no subscriber (renderer.go:303-315, `untold` in `Events`).
    SetMute(false) restores the volume it read before it queued; a poll can show the
    volume of before a SetVolume for 5 s.
  - *AirPlay*: the slot is free before EndAirPlay is called, and EndAirPlay stops
    whatever AirPlay stream is playing, a new session's included (server.go:198). A
    FLUSH starts the buffer with whatever packet comes next.
  - *Alarms*: what was claimed is not what Start finds if the alarm was edited in
    between (alarms.go:118). A run keeps the renderer it started with and cannot be
    stopped once the manager has made another (alarms.go:263); one without a deadline
    (alarms.go:219) then stays "ringing" until a user's Stop fails on it. A backup may
    give two alarms one ringtone (config_backup.go:62), and then a Save or Delete of one
    removes the file under the other (alarms.go:484). A crash between a Delete and the
    removal of its file leaves the file behind. The stops Run defers
    find renderers that refuse commands, so a shutdown leaves an alarm sounding
    (alarms.go:73). The deadline of an alarm cancels an AirPlay stream that is being
    started.
  - *Account*: the devices handler stores speakers after a logout (api.go:532); a
    refresh begins its minute even if there is no account (client.go:195); the limit
    of QR sessions is checked before the cloud is asked, so that more than 4 can be
    open (qr.go:52).
  - *Manager*: a QR login is applied when something else wakes the manager, if no page
    polls the session (qr.go:127, client.go:186).
  - *Services*: a subscription of a renderer that was replaced is kept, and told
    nothing new, until it lapses or is renewed in vain (http.go:321); any error ends
    the SSDP reader for good (ssdp.go:145); a table of 256 sources takes no other
    for up to a day (proxy.go:71).
* Sign-in and sessions of `server/api.go`: they are state, but of the access control
  and not of what the program does to speakers, and no model has them.
* Codecs, calendar rules, diagnostics, update check, packaging and web pages
  compute or print, and no order of events matters to them.

## 6. Plan

Done, in this order: `Renderer` with its abstract specification and proofs;
`AlarmEngine` with its proofs; `AirPlay` with its proofs; `Jitter`, `Live`, `Stream`;
`ConfigStore` and `Manager` with their proofs; `Receiver`; `Account` with its proofs, `Events`,
`Discovery`, `Proxy` and `Casts` with their proofs; the refinement of `LatestWins` by
proof; `Jitter`, `Live`, `Stream` and `Receiver` by proof; the last properties of
`AlarmEngine` and `Renderer` by proof.

Left: that the taken slots of `Proxy` and `Casts` are those of the fetches and jobs under
way, as an invariant with its proof; an abstract specification of what `Live` promises a
player, a stream that is read from some place on without a break, and its refinement.
