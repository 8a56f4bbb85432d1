--------------------------- MODULE ServicesProofs ---------------------------
(***************************************************************************)
(* Proofs about eventing, discovery and casts, for any number of           *)
(* subscriptions, searches and handlers.                                   *)
(***************************************************************************)
EXTENDS Events, Discovery, Casts, FiniteSetTheorems, TLAPS

(***************************************************************************)
(* Events.                                                                 *)
(***************************************************************************)

LEMMA EventsBegin == EventsInit => EventsInv
BY RendererAssumption DEF EventsInit, EventsInv, EventsTypeOK, NoChangeIsMissed, WorkerSteps

(* A request sweeps the table, and may add a subscription nobody had.      *)
LEMMA RequestsKeepEvents ==
    ASSUME EventsInv, NEW s \in SIDs, Subscribe(s) \/ Renew(s) \/ Unsubscribe(s)
    PROVE  EventsInv'
<1>1. EventsTypeOK'
  BY DEF EventsInv, EventsTypeOK, Subscribe, Renew, Unsubscribe, Table, Kept, workers, WorkerSteps
<1>2. (lapsed \subseteq subs)'
  BY DEF EventsInv, EventsTypeOK, Subscribe, Renew, Unsubscribe, Table, Kept
<1>3. (\A q \in subs : q \notin ended /\ worker[q] \notin {"none", "ended"})'
  BY DEF EventsInv, EventsTypeOK, Subscribe, Renew, Unsubscribe, Table, Kept, workers, Known
<1>4. (\A q \in SIDs : q \in ended \/ worker[q] # "none" => renderer[q] # NoRenderer)'
  BY RendererAssumption
  DEF EventsInv, EventsTypeOK, Subscribe, Renew, Unsubscribe, Table, Kept, Known, workers
<1>5. (promised \subseteq subs \ lapsed)'
  BY DEF EventsInv, EventsTypeOK, Subscribe, Renew, Unsubscribe, Table, Kept, Known
<1>6. NoChangeIsMissed'
  <2>1. ASSUME NEW q \in subs', q \in subs PROVE q \in Kept /\ UNCHANGED renderer[q]
    BY <2>1, RendererAssumption
       DEF EventsInv, EventsTypeOK, Subscribe, Renew, Unsubscribe, Table, Kept, Known
  <2>2. ASSUME NEW q \in subs', q \notin subs PROVE q \in queue'
    BY <2>2 DEF EventsInv, Subscribe, Renew, Unsubscribe, Table, Kept, Known
  <2>3. UNCHANGED <<look, owes, carried>> /\ queue \subseteq queue'
    BY DEF Subscribe, Renew, Unsubscribe, workers
  <2>4. ASSUME NEW q \in subs', worker[q] = "snapshot", q \in subs PROVE worker'[q] = "snapshot"
    BY <2>4 DEF EventsInv, EventsTypeOK, Subscribe, Renew, Unsubscribe, workers
  <2>5. ASSUME NEW q \in subs', q \in untold PROVE q \in untold'
    BY <2>5 DEF Subscribe, Renew, Unsubscribe, Table
  <2> QED
    BY <2>1, <2>2, <2>3, <2>4, <2>5 DEF EventsInv, NoChangeIsMissed
<1> QED
  BY <1>1, <1>2, <1>3, <1>4, <1>5, <1>6 DEF EventsInv

LEMMA WorkersKeepEvents ==
    ASSUME EventsInv, NEW s \in SIDs,
           Lapse(s) \/ WorkerStops(s) \/ WorkerExpires(s) \/ WorkerGoes(s)
    PROVE  EventsInv'
<1> USE DEF Lapse, WorkerStops, WorkerExpires, WorkerGoes, TakeToken, TakeSnapshot, Notify, To
<1>1. EventsTypeOK'
  BY DEF EventsInv, EventsTypeOK, subscriptions, workers, WorkerSteps, Collected
<1>2. (/\ lapsed \subseteq subs
       /\ \A q \in subs : q \notin ended /\ worker[q] \notin {"none", "ended"}
       /\ \A q \in SIDs : q \in ended \/ worker[q] # "none" => renderer[q] # NoRenderer
       /\ promised \subseteq subs \ lapsed)'
  BY DEF EventsInv, EventsTypeOK, subscriptions, workers, Collected
<1>3. NoChangeIsMissed'
  BY DEF EventsInv, EventsTypeOK, NoChangeIsMissed, subscriptions, workers, Collected
<1> QED
  BY <1>1, <1>2, <1>3 DEF EventsInv

LEMMA RenderersKeepEvents ==
    ASSUME EventsInv,
           ReplaceRenderer \/ AlarmChange \/ \E c \in Commands : Change(c) \/ Changed(c)
    PROVE  EventsInv'
<1>1. ASSUME ReplaceRenderer PROVE EventsInv'
  BY <1>1 DEF EventsInv, EventsTypeOK, NoChangeIsMissed, ReplaceRenderer, subscriptions, workers
<1>2. ASSUME NEW c \in Commands, Change(c) PROVE EventsInv'
  <2>1. PICK r \in Renderers : Changes(r) /\ owes' = [owes EXCEPT ![c] = r]
    BY <1>2 DEF Change
  <2>2. NoChangeIsMissed'
    BY <1>2, <2>1
       DEF EventsInv, EventsTypeOK, NoChangeIsMissed, Change, Changes, subscriptions, workers
  <2> QED
    BY <1>2, <2>1, <2>2 DEF EventsInv, EventsTypeOK, Change, Changes, subscriptions, workers
<1>3. ASSUME NEW c \in Commands, Changed(c) PROVE EventsInv'
  <2>1. NoChangeIsMissed'
    BY <1>3
       DEF EventsInv, EventsTypeOK, NoChangeIsMissed, Changed, Tokens, Subscribers, subscriptions
  <2> QED
    BY <1>3, <2>1 DEF EventsInv, EventsTypeOK, Changed, Tokens, Subscribers, subscriptions
<1>4. ASSUME AlarmChange PROVE EventsInv'
  <2>1. PICK r \in Renderers : Changes(r) /\ untold' = untold \cup Subscribers(r)
    BY <1>4 DEF AlarmChange
  <2>2. NoChangeIsMissed'
    BY <1>4, <2>1 DEF EventsInv, EventsTypeOK, NoChangeIsMissed, AlarmChange, Changes,
                      Subscribers, workers
  <2> QED
    BY <1>4, <2>1, <2>2 DEF EventsInv, EventsTypeOK, AlarmChange, Changes, Subscribers, workers
<1> QED
  BY <1>1, <1>2, <1>3, <1>4

LEMMA EventsGoOn == EventsInv /\ [EventsNext]_eventVars => EventsInv'
<1> SUFFICES ASSUME EventsInv, [EventsNext]_eventVars PROVE EventsInv'
  OBVIOUS
<1>1. CASE UNCHANGED eventVars
  BY <1>1 DEF eventVars, subscriptions, workers, EventsInv, EventsTypeOK, NoChangeIsMissed
<1> QED
  BY <1>1, RequestsKeepEvents, WorkersKeepEvents, RenderersKeepEvents DEF EventsNext

(* The table and the workers stay together, for any number of              *)
(* subscriptions and renderers (http.go:294-410).                          *)
THEOREM EventsInvariance == EventsSpec => []EventsInv
<1> QED
  BY EventsBegin, EventsGoOn, PTL DEF EventsSpec

(* No change is lost on its way to a subscriber: the token that Changed    *)
(* drops when the queue is full is never the one that was needed.  Only    *)
(* what an alarm that did not start has changed waits for another change.  *)
THEOREM NoneMissed == EventsSpec => []NoChangeIsMissed
<1>1. EventsInv => NoChangeIsMissed
  BY DEF EventsInv
<1> QED
  BY <1>1, EventsInvariance, PTL

(* A subscription that was confirmed is in the table and has a worker,     *)
(* whichever of renewal, expiry and replacement come between.              *)
THEOREM PromisesKept == EventsSpec => []PromisedIsServed
<1>1. EventsInv => PromisedIsServed
  BY DEF EventsInv, EventsTypeOK, PromisedIsServed
<1> QED
  BY <1>1, EventsInvariance, PTL

(***************************************************************************)
(* Discovery.                                                              *)
(***************************************************************************)

LEMMA Names ==
    /\ "announcer" \in Goroutines /\ "reader" \in Goroutines /\ "stopper" \in Goroutines
    /\ \A a \in Answers :
         a \in Goroutines /\ a # "announcer" /\ a # "reader" /\ a # "stopper"
BY AnswersAssumption DEF Goroutines

LEMMA DiscoveryBegins == DiscoveryInit => DiscoveryInv
<1> SUFFICES ASSUME DiscoveryInit PROVE DiscoveryInv
  OBVIOUS
<1>1. SlotHolders = {}
  BY DEF DiscoveryInit, SlotHolders, Alive, Goroutines
<1>2. SlotsInv
  BY <1>1, FS_EmptySet DEF DiscoveryInit, SlotsInv
<1>3. DiscoveryTypeOK
  <2>1. slots \in 0..AnswerSlots
    BY AnswerSlotsAssumption DEF DiscoveryInit
  <2>2. at \in [Goroutines -> {"none", "read", "send", "wait", "delay", "ended"}]
    BY DEF DiscoveryInit
  <2> QED
    BY <2>1, <2>2 DEF DiscoveryInit, DiscoveryTypeOK
<1>4. \A g \in Goroutines : ~Alive(g)
  BY DEF DiscoveryInit, Alive
<1>5. GroupInv
  BY <1>4, Names DEF DiscoveryInit, GroupInv
<1> QED
  BY <1>2, <1>3, <1>5 DEF DiscoveryInv

(* Slots change with the searches that have one, one at a time.            *)
LEMMA SlotsAreKept ==
    ASSUME DiscoveryInv, [DiscoveryNext]_discoveryVars
    PROVE  SlotsInv' /\ (slots \in 0..AnswerSlots)'
<1> USE AnswersAssumption, AnswerSlotsAssumption
    DEF DiscoveryInv, DiscoveryTypeOK, GroupInv, Goroutines, Alive
<1>1. ASSUME UNCHANGED slots, SlotHolders' = SlotHolders
      PROVE  SlotsInv' /\ (slots \in 0..AnswerSlots)'
  BY <1>1 DEF SlotsInv
<1>2. CASE StartDiscovery \/ ContextEnds \/ UNCHANGED discoveryVars
  BY <1>1, <1>2 DEF StartDiscovery, ContextEnds, discoveryVars, SlotHolders
<1>3. CASE AnnounceSent \/ AnnounceAgain \/ AnnouncerEnds \/ ReaderEnds
  BY <1>1, <1>3
     DEF AnnounceSent, AnnounceAgain, AnnouncerEnds, ReaderEnds, Goes, Ends, SlotHolders
<1>4. CASE StopCancels \/ StopCloses \/ StopReturns
  BY <1>1, <1>4 DEF StopCancels, StopCloses, StopReturns, Goes, SlotHolders
<1>5. ASSUME NEW a \in Answers, Search(a) PROVE SlotsInv' /\ (slots \in 0..AnswerSlots)'
  <2>1. SlotHolders' = SlotHolders \cup {a} /\ a \notin SlotHolders
    BY <1>5 DEF Search, SlotHolders
  <2> QED
    BY <1>5, <2>1, FS_AddElement DEF Search, SlotsInv
<1>6. ASSUME NEW a \in Answers, Answer(a) \/ AnswerSends(a)
      PROVE  SlotsInv' /\ (slots \in 0..AnswerSlots)'
  <2>1. SlotHolders' = SlotHolders
    BY <1>6 DEF Answer, AnswerSends, Goes, SlotHolders
  <2> QED
    BY <1>1, <1>6, <2>1 DEF Answer, AnswerSends
<1>7. ASSUME NEW a \in Answers, AnswerEnds(a) PROVE SlotsInv' /\ (slots \in 0..AnswerSlots)'
  <2>1. SlotHolders' = SlotHolders \ {a} /\ a \in SlotHolders
    BY <1>7 DEF AnswerEnds, Ends, Goes, SlotHolders
  <2>2. SlotsInv' /\ Cardinality(SlotHolders') \in Nat
    BY <1>7, <2>1, FS_RemoveElement, FS_CardinalityType DEF AnswerEnds, SlotsInv
  <2> QED
    BY <1>7, <2>2 DEF AnswerEnds, SlotsInv
<1> QED
  BY <1>2, <1>3, <1>4, <1>5, <1>6, <1>7 DEF DiscoveryNext

LEMMA GroupIsKept ==
    ASSUME DiscoveryInv, [DiscoveryNext]_discoveryVars, (slots \in 0..AnswerSlots)'
    PROVE  DiscoveryTypeOK' /\ GroupInv'
<1> USE Names DEF DiscoveryInv, DiscoveryTypeOK, GroupInv, Alive
<1>1. CASE ContextEnds
  BY <1>1 DEF ContextEnds
<1>2. CASE UNCHANGED discoveryVars
  BY <1>2 DEF discoveryVars
<1>3. CASE StartDiscovery
  <2>1. at' = [[at EXCEPT !["reader"] = "read"] EXCEPT !["announcer"] = "send"]
    BY <1>3 DEF StartDiscovery
  <2>2. at' \in [Goroutines -> {"none", "read", "send", "wait", "delay", "ended"}]
    BY <2>1
  <2>3. DiscoveryTypeOK'
    BY <1>3, <2>2 DEF StartDiscovery
  <2>4. ASSUME NEW g \in Goroutines
        PROVE  at'[g] = CASE g = "reader" -> "read" [] g = "announcer" -> "send"
                          [] OTHER -> at[g]
    BY <2>1
  <2>5. searching = {} /\ at["stopper"] = "none" /\ group = {}
    BY <1>3 DEF StartDiscovery
  <2>6. (\A g \in Goroutines : g \in group <=> g # "stopper" /\ Alive(g))'
    BY <1>3, <2>4, <2>5 DEF StartDiscovery
  <2> QED
    BY <1>3, <2>3, <2>4, <2>5, <2>6 DEF StartDiscovery
<1>4. CASE AnnounceSent \/ AnnounceAgain
  BY <1>4 DEF AnnounceSent, AnnounceAgain, Goes
<1>5. CASE AnnouncerEnds \/ ReaderEnds
  BY <1>5 DEF AnnouncerEnds, ReaderEnds, Goes, Ends
<1>6. CASE StopCancels \/ StopCloses \/ StopReturns
  BY <1>6 DEF StopCancels, StopCloses, StopReturns, Goes
<1>7. ASSUME NEW a \in Answers, Search(a) PROVE DiscoveryTypeOK' /\ GroupInv'
  BY <1>7 DEF Search
<1>8. ASSUME NEW a \in Answers, Answer(a) PROVE DiscoveryTypeOK' /\ GroupInv'
  BY <1>8 DEF Answer, Add, Goes
<1>9. ASSUME NEW a \in Answers, AnswerSends(a) PROVE DiscoveryTypeOK' /\ GroupInv'
  BY <1>9 DEF AnswerSends, Goes
<1>10. ASSUME NEW a \in Answers, AnswerEnds(a) PROVE DiscoveryTypeOK' /\ GroupInv'
  BY <1>10 DEF AnswerEnds, Ends, Goes
<1> QED
  BY <1>1, <1>4, <1>5, <1>6, <1>7, <1>8, <1>9, <1>10, <1>3, <1>2 DEF DiscoveryNext

(* The wait group counts exactly the goroutines that live, and the slots   *)
(* those that answer, for any number of searches (ssdp.go:120-192).        *)
THEOREM DiscoveryInvariance == DiscoverySpec => []DiscoveryInv
<1>1. DiscoveryInv /\ [DiscoveryNext]_discoveryVars => DiscoveryInv'
  BY SlotsAreKept, GroupIsKept DEF DiscoveryInv
<1> QED
  BY <1>1, DiscoveryBegins, PTL DEF DiscoverySpec

(* Nothing of the discovery is left when Stop has returned.                *)
THEOREM NothingOutlivesStop == DiscoverySpec => []StopWaitsForAll
<1>1. DiscoveryInv => StopWaitsForAll
  <2> SUFFICES ASSUME DiscoveryInv, at["stopper"] = "ended"
               PROVE  (\A g \in Goroutines : ~Alive(g)) /\ searching = {} /\ slots = 0
    BY DEF StopWaitsForAll
  <2>1. \A g \in Goroutines : ~Alive(g)
    BY DEF DiscoveryInv, GroupInv, Alive
  <2>2. searching = {}
    BY <2>1 DEF DiscoveryInv, GroupInv, Alive, Goroutines
  <2>3. SlotHolders = {}
    BY <2>1, <2>2 DEF SlotHolders, Goroutines
  <2> QED
    BY <2>1, <2>2, <2>3, FS_EmptySet DEF DiscoveryInv, SlotsInv
<1> QED
  BY <1>1, DiscoveryInvariance, PTL

(***************************************************************************)
(* Casts.                                                                  *)
(***************************************************************************)

LEMMA NilIsACast ==
    /\ Nil \in [seek : BOOLEAN, of : Nat, source : Nat, at : Nat, audio : Audio]
    /\ Nil.of = 0
<1>1. (CHOOSE u \in Audio : TRUE) \in Audio
  BY AudioAssumption
<1> QED
  BY <1>1 DEF Nil

LEMMA CastsBegin == CastsInit => CastsInv
BY NilIsACast DEF CastsInit, CastsInv, RendererIsOpen, UpToDate

(* What is in use does not age, and no source makes room for another.      *)
LEMMA EntriesStay ==
    ASSUME NEW u \in Audio, URL(u)
    PROVE  entries \ aging \subseteq entries' \ aging' /\ (HasRoomFor(u) => u \in entries' \ aging')
BY DEF URL, Enters

(* A step of a handler leaves the other handlers as they are.              *)
LEMMA HandlersKeepCasts ==
    ASSUME CastsInv, NEW j \in Handlers, JobGoes(j) \/ StartCast(j)
    PROVE  CastsInv'
<1> USE DEF CastsInv, Then
<1>1. CASE StartCast(j)
  <2>1. PICK seek \in BOOLEAN, u \in Audio :
          cast' = [cast EXCEPT ![j] = [Nil EXCEPT !.seek = seek, !.of = services, !.audio = u]]
    BY <1>1 DEF StartCast
  <2> DEFINE new == [Nil EXCEPT !.seek = seek, !.of = services, !.audio = u]
  <2>2. /\ new \in [seek : BOOLEAN, of : Nat, source : Nat, at : Nat, audio : Audio]
        /\ new.of = services
    BY NilIsACast
  <2>3. cast' = [cast EXCEPT ![j] = new]
    BY <2>1
  <2> HIDE DEF new
  <2>4. /\ cast' \in [Handlers -> [seek : BOOLEAN, of : Nat, source : Nat, at : Nat,
                                    audio : Audio]]
        /\ handler' = [handler EXCEPT ![j] = "source"] /\ handler[j] = "idle"
    BY <1>1, <2>2, <2>3 DEF StartCast
  <2>5. (cast[j].of <= services /\ (RendererIsOpen(j) => UpToDate(j)))'
    <3>1. cast'[j] = new /\ handler'[j] = "source"
      BY <2>3, <2>4
    <3>2. services' = services /\ services \in Nat
      BY <1>1 DEF StartCast, manager
    <3> QED
      BY <2>2, <3>1, <3>2 DEF UpToDate
  <2>6. ASSUME NEW i \in Handlers, i # j
        PROVE  cast'[i] = cast[i] /\ handler'[i] = handler[i]
    BY <2>3, <2>4, <2>6
  <2> QED
    BY <1>1, <2>4, <2>5, <2>6 DEF StartCast, manager, proxyVars, RendererIsOpen, UpToDate
<1>2. CASE AskProxy(j)
  BY <1>2, EntriesStay DEF AskProxy, manager, RendererIsOpen, UpToDate
<1>3. CASE TakeSlot(j)
  BY <1>3 DEF TakeSlot, manager, proxyVars, RendererIsOpen, UpToDate
<1>4. CASE Publish(j)
  BY <1>4 DEF Publish, manager, proxyVars, RendererIsOpen, UpToDate
<1>5. CASE StartEncoder(j)
  BY <1>5 DEF StartEncoder, manager, proxyVars, RendererIsOpen, UpToDate
<1>6. CASE Command(j) \/ CommandReturns(j)
  BY <1>6 DEF Command, CommandReturns, manager, proxyVars, RendererIsOpen, UpToDate
<1> QED
  BY <1>1, <1>2, <1>3, <1>4, <1>5, <1>6 DEF JobGoes

(* The rest of the program: jobs that end, speakers, the manager, days.    *)
LEMMA OthersKeepCasts ==
    ASSUME CastsInv,
           \/ \E j \in Handlers : JobEnds(j) \/ Listen(j) \/ StopListening(j)
           \/ StopServices \/ StartServices
           \/ \E u \in Audio : DayPasses(u)
           \/ UNCHANGED castVars /\ UNCHANGED <<entries, aging>>
    PROVE  CastsInv'
<1> USE DEF CastsInv, RendererIsOpen, UpToDate
<1>1. ASSUME NEW j \in Handlers, EncoderEnds(j) PROVE CastsInv'
  BY <1>1 DEF EncoderEnds, StaysInTable, manager, proxyVars
<1>2. ASSUME NEW j \in Handlers, MinuteEnds(j) PROVE CastsInv'
  BY <1>2 DEF MinuteEnds, manager, proxyVars
<1>3. ASSUME NEW j \in Handlers, Listen(j) \/ StopListening(j) PROVE CastsInv'
  <2>1. UNCHANGED <<services, serving, handler, cast, live, encoder, entries, aging>>
    BY <1>3 DEF Listen, StopListening, manager, proxyVars
  <2> QED
    BY <2>1
<1>4. CASE StopServices
  BY <1>4 DEF StopServices, proxyVars
<1>5. CASE StartServices
  BY <1>5 DEF StartServices
<1>6. ASSUME NEW u \in Audio, DayPasses(u) PROVE CastsInv'
  <2>1. \A j \in Handlers : handler[j] \in {"slot", "publish", "start", "command", "cloud"}
                            => cast[j].audio # u
    BY <1>6 DEF DayPasses, InUse
  <2>2. UNCHANGED castVars /\ entries' = entries /\ aging' = aging \cup {u}
    BY <1>6 DEF DayPasses, DayIsOver
  <2> QED
    BY <2>1, <2>2 DEF castVars, manager
<1>7. CASE UNCHANGED castVars /\ UNCHANGED <<entries, aging>>
  BY <1>7 DEF castVars, manager
<1> QED
  BY <1>1, <1>2, <1>3, <1>4, <1>5, <1>6, <1>7 DEF JobEnds

(* What a handler of the running services has collected stays good, for    *)
(* any number of handlers and of services started one after the other.     *)
THEOREM CastsInvariance == CastsSpec => []CastsInv
<1>1. CastsInv /\ [CastsNext]_castsVars => CastsInv'
  <2> SUFFICES ASSUME CastsInv, [CastsNext]_castsVars PROVE CastsInv'
    OBVIOUS
  <2>1. ASSUME NEW q \in Fetches, Fetch(q) \/ FetchGoes(q) PROVE UNCHANGED <<entries, aging>>
    BY <2>1 DEF Fetch, FetchGoes, AskSource, CopyEnds
  <2>2. CASE UNCHANGED castsVars
    BY <2>2, OthersKeepCasts DEF castsVars, proxyVars
  <2>3. CASE CastsGo
    BY <2>3, HandlersKeepCasts, OthersKeepCasts DEF CastsGo, JobGoes, JobEnds
  <2> QED
    BY <2>1, <2>2, <2>3, OthersKeepCasts DEF CastsNext
<1> QED
  BY <1>1, CastsBegin, PTL DEF CastsSpec

(* A speaker is only sent to an address it can fetch.                      *)
THEOREM CastsAreServed == CastsSpec => []CastIsServed
<1>1. CastsInv => CastIsServed
  BY DEF CastsInv, CastIsServed, UpToDate
<1> QED
  BY <1>1, CastsInvariance, PTL
=============================================================================
