------------------------------- MODULE Events -------------------------------
(***************************************************************************)
(* GENA eventing (src/internal/dlna/http.go:255-410): control points       *)
(* subscribe to a renderer and a worker of each subscription tells them    *)
(* what changed.  A command changes the renderer in one section and calls  *)
(* Changed after it (renderer.go:85), but for one change an alarm makes.   *)
(* Changed never waits, it puts a token into the queue of one place each   *)
(* subscription has.                                                       *)
(*                                                                         *)
(* Abstracted: what a renderer shows is one of Looks; a subscription is    *)
(* its SID; an expiry is there or over.  Control points are external.      *)
(***************************************************************************)
EXTENDS Naturals, FiniteSets

CONSTANTS
    SIDs,       \* subscriptions, each granted once
    SubLimit,   \* 128
    Renderers,  \* the renderers the manager makes for one speaker in turn
    NoRenderer,
    Looks,      \* what a snapshot can show
    Commands    \* goroutines that change a renderer

ASSUME RendererAssumption == NoRenderer \notin Renderers
ASSUME SubLimitAssumption == SubLimit \in Nat

VARIABLES
    current,    \* the renderer Lookup finds
    retired,    \* renderers the manager has replaced or removed
    look,       \* what each renderer shows
    owes,       \* commands between their change and their Changed
    subs,       \* e.subs
    renderer,   \* of each subscription, NoRenderer before it is granted
    lapsed,     \* those of them whose expires is over
    ended,      \* subscriptions whose context is done
    queue,      \* subscriptions with a token in s.queue
    worker,     \* where each worker stands
    carried,    \* the snapshot each worker has taken last
    promised,   \* history: subscriptions a control point takes for valid
    untold      \* history: those an alarm has left without a token

subscriptions == <<subs, renderer, lapsed, ended, promised, untold>>
workers == <<queue, worker, carried>>
eventVars == <<current, retired, look, owes, subscriptions, workers>>

Nothing == "nothing"
WorkerSteps == {"none", "wait", "snapshot", "notify", "ended"}

EventsInit ==
    /\ current \in Renderers /\ retired = {}
    /\ look \in [Renderers -> Looks] /\ owes = [c \in Commands |-> NoRenderer]
    /\ subs = {} /\ lapsed = {} /\ ended = {} /\ promised = {} /\ untold = {}
    /\ queue = {}
    /\ renderer = [s \in SIDs |-> NoRenderer]
    /\ worker = [s \in SIDs |-> "none"]
    /\ carried = [s \in SIDs |-> Nothing]

(***************************************************************************)
(* The renderers.                                                          *)
(***************************************************************************)

Subscribers(r) == {s \in subs : renderer[s] = r}

(* A command may still change a renderer that has been replaced.  What     *)
(* changes before anybody subscribes, nobody tells.                        *)
Changes(r) ==
    /\ Subscribers(r) # {}
    /\ \E l \in Looks \ {look[r]} : look' = [look EXCEPT ![r] = l]

Change(c) ==
    /\ owes[c] = NoRenderer
    /\ \E r \in Renderers : Changes(r) /\ owes' = [owes EXCEPT ![c] = r]
    /\ UNCHANGED <<current, retired, subscriptions, workers>>

(* StartAlarm sets the volume, the queue and the title in a section of     *)
(* their own, finds the table of the proxy full or itself superseded, and  *)
(* returns without a Changed.  An alarm that goes on is a Change.          *)
AlarmChange ==
    /\ \E r \in Renderers : Changes(r) /\ untold' = untold \cup Subscribers(r)
    /\ UNCHANGED <<current, retired, owes, subs, renderer, lapsed, ended, promised, workers>>

TokensToIdle(r) ==                      \* mutant: a queue without a place
    {s \in Subscribers(r) : worker[s] = "wait"}
Tokens(r) == Subscribers(r)

Changed(c) ==
    /\ owes[c] # NoRenderer
    /\ queue' = queue \cup Tokens(owes[c])
    /\ owes' = [owes EXCEPT ![c] = NoRenderer]
    /\ UNCHANGED <<current, retired, look, subscriptions, worker, carried>>

(* The manager removes the renderer, or makes another for the speaker.     *)
ReplaceRenderer ==
    /\ current # NoRenderer
    /\ retired' = retired \cup {current}
    /\ current' \in (Renderers \ retired') \cup {NoRenderer}
    /\ UNCHANGED <<look, owes, subscriptions, workers>>

(***************************************************************************)
(* Handle: under e.mu, after a sweep of what has expired.                  *)
(***************************************************************************)

KeptAll == subs                         \* mutant: cancelled, not deleted
Kept == subs \ lapsed

(* What a request leaves in the table.                                     *)
Table(set) ==
    /\ subs' = set /\ lapsed' = {} /\ untold' = untold \cap set
    /\ ended' = ended \cup lapsed \cup (subs \ set)

Subscribe(s) ==
    /\ renderer[s] = NoRenderer /\ current # NoRenderer
    /\ IF Cardinality(Kept) >= SubLimit
       THEN /\ Table(Kept)
            /\ UNCHANGED <<renderer, promised, queue, worker>>
       ELSE /\ Table(Kept \cup {s})
            /\ renderer' = [renderer EXCEPT ![s] = current]
            /\ promised' = promised \cup {s}
            /\ worker' = [worker EXCEPT ![s] = "wait"]
            /\ queue' = queue \cup {s}
    /\ UNCHANGED <<current, retired, look, owes, carried>>

(* Requests for a SID: refused with 412 unless it is of this renderer.     *)
Known(s) == s \in Kept /\ renderer[s] = current

Renew(s) ==
    /\ renderer[s] # NoRenderer /\ current # NoRenderer
    /\ Table(Kept)
    /\ promised' = IF Known(s) THEN promised \cup {s} ELSE promised \ {s}
    /\ UNCHANGED <<current, retired, look, owes, renderer, workers>>

Unsubscribe(s) ==
    /\ renderer[s] # NoRenderer /\ current # NoRenderer
    /\ Table(IF Known(s) THEN Kept \ {s} ELSE Kept)
    /\ promised' = promised \ {s}
    /\ UNCHANGED <<current, retired, look, owes, renderer, workers>>

(* The time of a subscription is over; whoever holds it knows.             *)
Lapse(s) ==
    /\ s \in subs \ lapsed
    /\ lapsed' = lapsed \cup {s} /\ promised' = promised \ {s}
    /\ UNCHANGED <<current, retired, look, owes, subs, renderer, ended, untold, workers>>

(***************************************************************************)
(* worker.                                                                 *)
(***************************************************************************)

To(s, where) == worker' = [worker EXCEPT ![s] = where]

(* A worker that returns leaves its queue and its snapshot as garbage.     *)
Collected(s) ==
    /\ To(s, "ended")
    /\ queue' = queue \ {s} /\ carried' = [carried EXCEPT ![s] = Nothing]

WorkerStops(s) ==
    /\ worker[s] = "wait" /\ s \in ended
    /\ Collected(s)
    /\ UNCHANGED <<current, retired, look, owes, subscriptions>>

(* Every 30 s: the worker goes with its subscription.                      *)
WorkerExpires(s) ==
    /\ worker[s] = "wait" /\ s \in lapsed
    /\ subs' = subs \ {s} /\ lapsed' = lapsed \ {s} /\ untold' = untold \ {s}
    /\ Collected(s)
    /\ UNCHANGED <<current, retired, look, owes, renderer, ended, promised>>

TakeToken(s) ==
    /\ worker[s] = "wait" /\ s \in queue
    /\ queue' = queue \ {s}
    /\ To(s, "snapshot")
    /\ UNCHANGED <<current, retired, look, owes, subscriptions, carried>>

TakeSnapshot(s) ==
    /\ worker[s] = "snapshot"
    /\ carried' = [carried EXCEPT ![s] = look[renderer[s]]]
    /\ untold' = untold \ {s}
    /\ To(s, "notify")
    /\ UNCHANGED <<current, retired, look, owes, queue>>
    /\ UNCHANGED <<subs, renderer, lapsed, ended, promised>>

(* One NOTIFY, answered or not; a lost one is not repeated.                *)
Notify(s) ==
    /\ worker[s] = "notify"
    /\ To(s, "wait")
    /\ UNCHANGED <<current, retired, look, owes, subscriptions, queue, carried>>

(***************************************************************************)
(* The specification.  Goroutines run; a select with a token and a tick    *)
(* ready takes either at random, again and again, so strong fairness of    *)
(* the worker's own steps is not needed.                                   *)
(***************************************************************************)

WorkerGoes(s) == TakeToken(s) \/ TakeSnapshot(s) \/ Notify(s)

EventsNext ==
    \/ \E c \in Commands : Change(c) \/ Changed(c)
    \/ AlarmChange
    \/ ReplaceRenderer
    \/ \E s \in SIDs :
         \/ Subscribe(s) \/ Renew(s) \/ Unsubscribe(s) \/ Lapse(s)
         \/ WorkerStops(s) \/ WorkerExpires(s) \/ WorkerGoes(s)

EventsSpec == EventsInit /\ [][EventsNext]_eventVars

EventsFairness ==
    /\ \A c \in Commands : WF_eventVars(Changed(c))
    /\ \A s \in SIDs : /\ WF_eventVars(WorkerGoes(s))
                       /\ WF_eventVars(WorkerStops(s) \/ WorkerExpires(s))

(***************************************************************************)
(* Properties.                                                             *)
(***************************************************************************)

EventsTypeOK ==
    /\ current \in Renderers \cup {NoRenderer} /\ retired \subseteq Renderers
    /\ look \in [Renderers -> Looks]
    /\ owes \in [Commands -> Renderers \cup {NoRenderer}]
    /\ renderer \in [SIDs -> Renderers \cup {NoRenderer}]
    /\ \A set \in {subs, lapsed, ended, queue, promised, untold} : set \subseteq SIDs
    /\ worker \in [SIDs -> WorkerSteps]
    /\ carried \in [SIDs -> Looks \cup {Nothing}]

(* No change gets lost on its way to a subscriber, although Changed        *)
(* (http.go:274) drops its token when the queue is full and the worker     *)
(* reads the renderer without e.mu: if the last snapshot is out of date, a *)
(* token waits, or will, or the worker is about to look again; or it was   *)
(* an alarm that did not start (renderer.go:303-315) which left what it    *)
(* changed to the next Changed.                                            *)
NoChangeIsMissed ==
    \A s \in subs :
        carried[s] # look[renderer[s]] =>
            \/ s \in queue \/ worker[s] = "snapshot"
            \/ \E c \in Commands : owes[c] = renderer[s]
            \/ s \in untold

(* What a control point was promised it has: until its time is over or it  *)
(* unsubscribes, a subscription answered with 200 is in the table and has  *)
(* a worker that runs (http.go:325, 332-348 against 363-372), so a renewal *)
(* never revives a subscription nobody serves.                             *)
PromisedIsServed ==
    \A s \in promised :
        s \in subs \ (ended \cup lapsed) /\ worker[s] \notin {"none", "ended"}

(* A subscription that is kept, of a renderer that stays as it is, has     *)
(* told what the renderer shows: no change waits for the next one, but one *)
(* of an alarm that did not start.                                         *)
Told(s) == worker[s] = "wait" /\ carried[s] = look[renderer[s]]
SubscribersLearn ==
    \A s \in SIDs, l \in Looks :
        <>[](s \in subs \ untold /\ look[renderer[s]] = l) => <>[]Told(s)

(***************************************************************************)
(* The inductive invariant behind the first two.                           *)
(***************************************************************************)

(* What is in the table was granted, its context is alive and its worker   *)
(* runs; only what was granted has one, or ever ends.                      *)
EventsInv ==
    /\ EventsTypeOK
    /\ lapsed \subseteq subs
    /\ \A s \in subs : s \notin ended /\ worker[s] \notin {"none", "ended"}
    /\ \A s \in SIDs : s \in ended \/ worker[s] # "none" => renderer[s] # NoRenderer
    /\ promised \subseteq subs \ lapsed
    /\ NoChangeIsMissed
=============================================================================
