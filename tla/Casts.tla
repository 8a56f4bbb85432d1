-------------------------------- MODULE Casts --------------------------------
(***************************************************************************)
(* What a cast sends the speaker to fetch: an address of the proxy, or, of *)
(* a seek, one of the table of live streams, behind which ffmpeg encodes   *)
(* from the proxy (src/internal/server/transcode.go, publish and stop of   *)
(* manager.go).  Meanwhile the manager stops and starts its services under *)
(* another address, with another proxy and other renderers.                *)
(*                                                                         *)
(* Services are numbered in the order they are started; m.host, m.proxy    *)
(* and the renderers carry the number they are made with, 0 being none.    *)
(* The proxy before the last one serves nobody and has no table here.      *)
(***************************************************************************)
EXTENDS Proxy

CONSTANTS
    Handlers,   \* requests that cast or seek
    JobSlots,   \* 4
    MaxServices \* bound: how often the services are started

ASSUME CastsAssumption == JobSlots \in Nat /\ MaxServices \in Nat
ASSUME AudioAssumption == Audio # {}

VARIABLES
    services,   \* the last that were started: m.proxy is theirs
    serving,    \* they have not been stopped: m.host is set
    handler,    \* where each handler stands
    cast,       \* what each handler casts
    live,       \* handlers whose stream is in m.live
    busy,       \* len(transcodeSlots)
    encoder,    \* ffmpeg of each seek, with the goroutine that waits for it
    listener    \* the speaker's request for the stream of a seek

manager == <<services, serving>>
castVars == <<manager, handler, cast, live, busy, encoder, listener>>
castsVars == <<castVars, proxyVars>>

Nil == [seek |-> FALSE, of |-> 0, source |-> 0, at |-> 0, audio |-> CHOOSE u \in Audio : TRUE]

CastsInit ==
    /\ ProxyInit
    /\ services = 1 /\ serving = TRUE
    /\ handler = [j \in Handlers |-> "idle"]
    /\ cast = [j \in Handlers |-> Nil]
    /\ live = {} /\ busy = 0
    /\ encoder = [j \in Handlers |-> "none"]
    /\ listener = [j \in Handlers |-> "none"]

Then(j, where) == handler' = [handler EXCEPT ![j] = where]

(***************************************************************************)
(* The handler: its renderer, the proxy, and for a seek a slot, an address *)
(* and ffmpeg.                                                             *)
(***************************************************************************)

StartCast(j) ==
    /\ handler[j] = "idle" /\ serving
    /\ \E seek \in BOOLEAN, u \in Audio :
         cast' = [cast EXCEPT ![j] = [Nil EXCEPT !.seek = seek, !.of = services, !.audio = u]]
    /\ Then(j, "source")
    /\ UNCHANGED <<manager, live, busy, encoder, listener, proxyVars>>

(* A cast asks the proxy of its renderer, a seek the manager's.            *)
AskProxy(j) ==
    LET proxy == IF cast[j].seek THEN services ELSE cast[j].of
    IN  /\ handler[j] = "source"
        /\ IF proxy = services
           THEN URL(cast[j].audio)
           ELSE UNCHANGED <<entries, aging>>
        /\ \/ /\ proxy = services => HasRoomFor(cast[j].audio)
              /\ cast' = [cast EXCEPT ![j].source = proxy]
              /\ Then(j, IF cast[j].seek THEN "slot" ELSE "command")
           \/ /\ proxy = services => ~HasRoomFor(cast[j].audio)
              /\ UNCHANGED cast
              /\ Then(j, "done")
        /\ UNCHANGED <<manager, live, busy, encoder, listener, streams, fetch>>

TakeSlot(j) ==
    /\ handler[j] = "slot"
    /\ IF busy < JobSlots
       THEN Then(j, "publish") /\ busy' = busy + 1
       ELSE Then(j, "done") /\ UNCHANGED busy
    /\ UNCHANGED <<manager, cast, live, encoder, listener, proxyVars>>

Publish(j) ==
    /\ handler[j] = "publish"
    /\ live' = live \cup {j}
    /\ cast' = [cast EXCEPT ![j].at = IF serving THEN services ELSE 0]
    /\ Then(j, "start")
    /\ UNCHANGED <<manager, busy, encoder, listener, proxyVars>>

LosesSlot == busy' = busy               \* mutant: the slot of a failed start
FreesSlot == busy' = busy - 1

StartEncoder(j) ==
    /\ handler[j] = "start"
    /\ \/ /\ encoder' = [encoder EXCEPT ![j] = "runs"]
          /\ Then(j, "command")
          /\ UNCHANGED <<live, busy>>
       \/ /\ live' = live \ {j} /\ FreesSlot
          /\ Then(j, "done")
          /\ UNCHANGED encoder
    /\ UNCHANGED <<manager, cast, listener, proxyVars>>

(* commandAt: refused if the renderer is closed, as it is when its         *)
(* services are stopped, or if something newer was asked of it.            *)
StaysOpen(j) == TRUE                    \* mutant: stop leaves renderers open
RendererIsOpen(j) == cast[j].of = services /\ serving

Command(j) ==
    /\ handler[j] = "command"
    /\ \/ RendererIsOpen(j) /\ Then(j, "cloud")
       \/ Then(j, "done")
    /\ UNCHANGED <<manager, cast, live, busy, encoder, listener, proxyVars>>

CommandReturns(j) ==
    /\ handler[j] = "cloud"
    /\ Then(j, "done")
    /\ UNCHANGED <<manager, cast, live, busy, encoder, listener, proxyVars>>

(***************************************************************************)
(* The goroutine of a job: ffmpeg ends with its source, its output or      *)
(* after 4 hours; a speaker has a minute more to come for the rest.        *)
(***************************************************************************)

RemovedAtOnce(j) == live' = live \ {j}  \* mutant: no minute
StaysInTable(j) == live' = live

EncoderEnds(j) ==
    /\ encoder[j] = "runs"
    /\ encoder' = [encoder EXCEPT ![j] = "minute"]
    /\ StaysInTable(j)
    /\ UNCHANGED <<manager, handler, cast, busy, listener, proxyVars>>

MinuteEnds(j) ==
    /\ encoder[j] = "minute"
    /\ encoder' = [encoder EXCEPT ![j] = "gone"]
    /\ live' = live \ {j} /\ FreesSlot
    /\ listener' = [listener EXCEPT ![j] = "none"]
    /\ UNCHANGED <<manager, handler, cast, proxyVars>>

(* The speaker, external: it comes, and leaves for more than a minute.     *)
Listen(j) ==
    /\ listener[j] # "reads" /\ j \in live /\ encoder[j] = "runs"
    /\ listener' = [listener EXCEPT ![j] = "reads"]
    /\ UNCHANGED <<manager, handler, cast, live, busy, encoder, proxyVars>>

StopListening(j) ==
    /\ listener[j] = "reads"
    /\ listener' = [listener EXCEPT ![j] = "long gone"]
    /\ UNCHANGED <<manager, handler, cast, live, busy, encoder, proxyVars>>

(***************************************************************************)
(* The manager: stop, one section for renderers, streams and host, and     *)
(* later a listener with a new proxy.                                      *)
(***************************************************************************)

StopServices ==
    /\ serving
    /\ serving' = FALSE /\ live' = {}
    /\ UNCHANGED <<services, handler, cast, busy, encoder, listener, proxyVars>>

StartServices ==
    /\ ~serving /\ services < MaxServices
    /\ serving' = TRUE /\ services' = services + 1
    /\ entries' = {} /\ aging' = {}
    /\ UNCHANGED <<handler, cast, live, busy, encoder, listener, streams, fetch>>

(* Days are longer than a cast and than the 4 hours of a job.              *)
InUse(u) == \E j \in Handlers : cast[j].audio = u /\
                (handler[j] \notin {"idle", "done"} \/ encoder[j] = "runs")
DayPasses(u) == ~InUse(u) /\ DayIsOver(u) /\ UNCHANGED castVars

(***************************************************************************)
(* The specification.                                                      *)
(***************************************************************************)

JobGoes(j) ==
    \/ AskProxy(j) \/ TakeSlot(j) \/ Publish(j) \/ StartEncoder(j)
    \/ Command(j) \/ CommandReturns(j)
JobEnds(j) == EncoderEnds(j) \/ MinuteEnds(j)

CastsGo ==
    \/ \E j \in Handlers :
         \/ StartCast(j) \/ AskProxy(j) \/ TakeSlot(j) \/ Publish(j) \/ StartEncoder(j)
         \/ Command(j) \/ CommandReturns(j) \/ EncoderEnds(j) \/ MinuteEnds(j)
         \/ Listen(j) \/ StopListening(j)
    \/ StopServices \/ StartServices
    \/ \E u \in Audio : DayPasses(u)

CastsNext ==
    CastsGo \/ \E q \in Fetches : (Fetch(q) \/ FetchGoes(q)) /\ UNCHANGED castVars

CastsSpec == CastsInit /\ [][CastsNext]_castsVars

CastsFairness ==
    /\ ProxyFairness
    /\ \A j \in Handlers : WF_castsVars(JobGoes(j)) /\ WF_castsVars(JobEnds(j))

(***************************************************************************)
(* Properties.                                                             *)
(***************************************************************************)

CastsTypeOK ==
    /\ ProxyTypeOK
    /\ services \in 1..MaxServices /\ serving \in BOOLEAN
    /\ handler \in [Handlers -> {"idle", "source", "slot", "publish", "start", "command",
                                 "cloud", "done"}]
    /\ cast \in [Handlers -> [seek : BOOLEAN, of : Nat, source : Nat, at : Nat, audio : Audio]]
    /\ live \subseteq Handlers /\ busy \in 0..JobSlots
    /\ encoder \in [Handlers -> {"none", "runs", "minute", "gone"}]
    /\ listener \in [Handlers -> {"none", "reads", "long gone"}]

(* The speaker is only sent to an address it can fetch: whatever a handler *)
(* that may still command its renderer casts is of the services that run,  *)
(* in the proxy's table, and for a seek in m.live until ffmpeg's minute is *)
(* over, although the handler collects these one after the other while the *)
(* services are replaced (transcode.go:16-54, manager.go:130-137, 372-385).*)
CastIsServed ==
    \A j \in Handlers :
        handler[j] = "cloud" /\ RendererIsOpen(j) =>
            /\ cast[j].source = services /\ cast[j].audio \in entries
            /\ cast[j].seek => /\ cast[j].at = services
                               /\ j \in live \/ encoder[j] = "gone"

(* A seek's slot comes back, on whichever path it ends (transcode.go:27).  *)
JobSlotsComeBack == busy > 0 ~> busy = 0

(* transcode.go:13: "Jobs expire with their reader".                       *)
JobsExpireWithReader ==
    \A j \in Handlers : encoder[j] = "runs" => listener[j] # "long gone"

(***************************************************************************)
(* The inductive invariant behind CastIsServed.                            *)
(***************************************************************************)

(* What a handler has collected so far is of the services that run, if its *)
(* renderer is.                                                            *)
UpToDate(j) ==
    /\ handler[j] \in {"slot", "publish", "start", "command", "cloud"} =>
         cast[j].source = services /\ cast[j].audio \in entries \ aging
    /\ cast[j].seek /\ handler[j] \in {"start", "command", "cloud"} =>
         cast[j].at = services /\ (j \in live \/ encoder[j] = "gone")

CastsInv ==
    /\ services \in Nat /\ live \subseteq Handlers
    /\ handler \in [Handlers -> {"idle", "source", "slot", "publish", "start", "command",
                                 "cloud", "done"}]
    /\ cast \in [Handlers -> [seek : BOOLEAN, of : Nat, source : Nat, at : Nat, audio : Audio]]
    /\ encoder \in [Handlers -> {"none", "runs", "minute", "gone"}]
    /\ \A j \in Handlers :
         /\ cast[j].of <= services
         /\ handler[j] \in {"idle", "source", "slot", "publish", "start"} => encoder[j] = "none"
         /\ RendererIsOpen(j) => UpToDate(j)
=============================================================================
