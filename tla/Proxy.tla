-------------------------------- MODULE Proxy --------------------------------
(***************************************************************************)
(* The media proxy (src/internal/media/proxy.go:24-151): a table of the    *)
(* sources that may be fetched, each for 24 hours, and the requests that   *)
(* fetch them, each with a stream slot and two attempts.                   *)
(*                                                                         *)
(* Abstracted: an address is its source; the checks of an address, ranges  *)
(* and headers are left out; what the source answers is free.              *)
(***************************************************************************)
EXTENDS Naturals, FiniteSets

CONSTANTS
    Audio,      \* sources
    MaxEntries, \* 256
    Fetches,    \* requests
    StreamSlots \* 16

ASSUME ProxyAssumption == MaxEntries \in Nat /\ StreamSlots \in Nat

VARIABLES
    entries,    \* p.entries
    aging,      \* those of them whose 24 hours are over
    streams,    \* len(p.slots)
    fetch       \* each request

proxyVars == <<entries, aging, streams, fetch>>

Methods == {"GET", "HEAD", "GET for HEAD"}
Idle == [step |-> "idle", method |-> "GET", attempt |-> 0]
FetchRecords == [step : {"idle", "ask", "copy", "done"}, method : Methods, attempt : 0..3]

ProxyInit ==
    /\ entries = {} /\ aging = {}
    /\ streams = 0 /\ fetch = [q \in Fetches |-> Idle]

(***************************************************************************)
(* URL: expired entries go first; a full table takes no new source.        *)
(***************************************************************************)

HasRoomFor(u) == u \in entries \ aging \/ Cardinality(entries \ aging) < MaxEntries
EvictsOne(u) ==                         \* mutant: a full table makes room
    entries' = {u} \cup IF HasRoomFor(u) THEN entries \ aging ELSE {}
Enters(u) == entries' = IF HasRoomFor(u) THEN (entries \ aging) \cup {u} ELSE entries \ aging

URL(u) == Enters(u) /\ aging' = {}

Grant(u) == URL(u) /\ UNCHANGED <<streams, fetch>>

DayIsOver(u) ==
    /\ u \in entries \ aging
    /\ aging' = aging \cup {u}
    /\ UNCHANGED <<entries, streams, fetch>>

(***************************************************************************)
(* ServeHTTP.                                                              *)
(***************************************************************************)

Is(q, record) == fetch' = [fetch EXCEPT ![q] = record]
KeepsSlot == streams' = streams         \* mutant: returned after a copy only
GivesSlot == streams' = streams - 1
Over(q) == Is(q, [fetch[q] EXCEPT !.step = "done"])

(* Unknown or expired, too many streams, or a slot.                        *)
Fetch(q) ==
    /\ fetch[q].step = "idle"
    /\ \E u \in Audio, method \in {"GET", "HEAD"} :
         IF u \notin entries \ aging \/ streams = StreamSlots
         THEN Over(q) /\ UNCHANGED streams
         ELSE /\ Is(q, [step |-> "ask", method |-> method, attempt |-> 1])
              /\ streams' = streams + 1
    /\ UNCHANGED <<entries, aging>>

(* A refused HEAD becomes a GET, an error is tried again; either uses up   *)
(* an attempt, and the last one is answered as it is.                      *)
AskSource(q) ==
    /\ fetch[q].step = "ask"
    /\ LET again == [fetch[q] EXCEPT !.attempt = @ + 1]
       IN  \/ /\ fetch[q].attempt = 1
              /\ \/ Is(q, again)
                 \/ /\ fetch[q].method = "HEAD"
                    /\ Is(q, [again EXCEPT !.method = "GET for HEAD"])
              /\ UNCHANGED streams
           \/ /\ fetch[q].method = "GET"
              /\ Is(q, [fetch[q] EXCEPT !.step = "copy"])
              /\ UNCHANGED streams
           \/ Over(q) /\ GivesSlot
    /\ UNCHANGED <<entries, aging>>

(* The source ends, the reader leaves, or 4 hours are over.                *)
CopyEnds(q) ==
    /\ fetch[q].step = "copy"
    /\ Over(q) /\ GivesSlot
    /\ UNCHANGED <<entries, aging>>

(***************************************************************************)
(* The specification.  Sources have timeouts, and a request 4 hours.       *)
(***************************************************************************)

FetchGoes(q) == AskSource(q) \/ CopyEnds(q)

ProxyNext ==
    \/ \E u \in Audio : Grant(u) \/ DayIsOver(u)
    \/ \E q \in Fetches : Fetch(q) \/ FetchGoes(q)

ProxySpec == ProxyInit /\ [][ProxyNext]_proxyVars

ProxyFairness == \A q \in Fetches : WF_proxyVars(FetchGoes(q))

(***************************************************************************)
(* Properties.                                                             *)
(***************************************************************************)

ProxyTypeOK ==
    /\ entries \subseteq Audio /\ aging \subseteq entries
    /\ streams \in 0..StreamSlots
    /\ fetch \in [Fetches -> FetchRecords]

(* Every stream slot comes back, whatever the source answers and on which  *)
(* attempt (proxy.go:91-132): a proxy that refused as too busy serves      *)
(* again when the streams are over.                                        *)
StreamSlotsComeBack ==
    (\A q \in Fetches : fetch[q].step # "idle") ~> streams = 0
=============================================================================
