------------------------------ MODULE Discovery ------------------------------
(***************************************************************************)
(* SSDP (src/internal/dlna/ssdp.go): announceLoop announces the renderers, *)
(* read takes searches and has each answered by a goroutine of its own,    *)
(* and Stop says goodbye and waits for them all.                           *)
(*                                                                         *)
(* Abstracted: what is announced (Set replaces it as a whole, under d.mu)  *)
(* and what becomes of packets.  A round of packets is one step, "send".   *)
(***************************************************************************)
EXTENDS Naturals, FiniteSets

CONSTANTS
    Answers,    \* goroutines that answer searches
    AnswerSlots \* 64

ASSUME AnswerSlotsAssumption == AnswerSlots \in Nat
ASSUME AnswersAssumption == Answers \cap {"announcer", "reader", "stopper"} = {}

VARIABLES
    at,         \* where each goroutine stands
    searching,  \* the one read is about to start, while it holds a slot
    slots,      \* len(d.slots)
    group,      \* d.wg: who has been added and is not done
    cancelled,  \* the context of Start is done
    connected   \* d.conn is open

discoveryVars == <<at, searching, slots, group, cancelled, connected>>

Goroutines == {"announcer", "reader", "stopper"} \cup Answers
Alive(g) == at[g] \notin {"none", "ended"}
Goes(g, where) == at' = [at EXCEPT ![g] = where]

DiscoveryInit ==
    /\ at = [g \in Goroutines |-> "none"]
    /\ searching = {} /\ slots = 0 /\ group = {}
    /\ cancelled = FALSE /\ connected = FALSE

StartDiscovery ==
    /\ at["reader"] = "none"
    /\ at' = [at EXCEPT !["reader"] = "read", !["announcer"] = "send"]
    /\ group' = {"reader", "announcer"}
    /\ connected' = TRUE
    /\ UNCHANGED <<searching, slots, cancelled>>

(* The context is a child of the program's.                                *)
ContextEnds ==
    /\ connected /\ ~cancelled /\ cancelled' = TRUE
    /\ UNCHANGED <<at, searching, slots, group, connected>>

(***************************************************************************)
(* Goroutines that end: "defer d.wg.Done()".                               *)
(***************************************************************************)

Ends(g) == Goes(g, "ended") /\ group' = group \ {g}

AnnounceSent ==
    /\ at["announcer"] = "send"
    /\ Goes("announcer", "wait")
    /\ UNCHANGED <<searching, slots, group, cancelled, connected>>

AnnounceAgain ==
    /\ at["announcer"] = "wait"
    /\ Goes("announcer", "send")
    /\ UNCHANGED <<searching, slots, group, cancelled, connected>>

AnnouncerEnds ==
    /\ at["announcer"] = "wait" /\ cancelled
    /\ Ends("announcer")
    /\ UNCHANGED <<searching, slots, cancelled, connected>>

(* Any error ends read, not only that of a connection that was closed.     *)
ReaderEnds ==
    /\ at["reader"] = "read" /\ searching = {}
    /\ Ends("reader")
    /\ UNCHANGED <<searching, slots, cancelled, connected>>

(* A search gets a slot, or no answer.                                     *)
Search(a) ==
    /\ at["reader"] = "read" /\ connected /\ searching = {}
    /\ at[a] \in {"none", "ended"} /\ slots < AnswerSlots
    /\ searching' = {a} /\ slots' = slots + 1
    /\ UNCHANGED <<at, group, cancelled, connected>>

AddLate(g) == group' = group            \* mutant: wg.Add in the new goroutine
Add(g) == group' = group \cup {g}

Answer(a) ==
    /\ searching = {a}
    /\ Add(a) /\ Goes(a, "delay") /\ searching' = {}
    /\ UNCHANGED <<slots, cancelled, connected>>

AnswerSends(a) ==
    /\ at[a] = "delay"
    /\ Goes(a, "send")
    /\ UNCHANGED <<searching, slots, group, cancelled, connected>>

AnswerEnds(a) ==
    /\ at[a] = "send" \/ (at[a] = "delay" /\ cancelled)
    /\ Ends(a) /\ slots' = slots - 1
    /\ UNCHANGED <<searching, cancelled, connected>>

(***************************************************************************)
(* Stop.                                                                   *)
(***************************************************************************)

StopCancels ==
    /\ connected /\ at["stopper"] = "none"
    /\ cancelled' = TRUE /\ Goes("stopper", "send")
    /\ UNCHANGED <<searching, slots, group, connected>>

StopCloses ==
    /\ at["stopper"] = "send"
    /\ connected' = FALSE /\ Goes("stopper", "wait")
    /\ UNCHANGED <<searching, slots, group, cancelled>>

StopReturns ==
    /\ at["stopper"] = "wait" /\ group = {}
    /\ Goes("stopper", "ended")
    /\ UNCHANGED <<searching, slots, group, cancelled, connected>>

(***************************************************************************)
(* The specification.  A read of a closed connection returns; ctx.Done()   *)
(* is alone ready for minutes between two announcements.                   *)
(***************************************************************************)

DiscoveryNext ==
    \/ StartDiscovery \/ ContextEnds
    \/ AnnounceSent \/ AnnounceAgain \/ AnnouncerEnds \/ ReaderEnds
    \/ \E a \in Answers : Search(a) \/ Answer(a) \/ AnswerSends(a) \/ AnswerEnds(a)
    \/ StopCancels \/ StopCloses \/ StopReturns

DiscoverySpec == DiscoveryInit /\ [][DiscoveryNext]_discoveryVars

DiscoveryFairness ==
    /\ WF_discoveryVars(AnnounceSent) /\ SF_discoveryVars(AnnouncerEnds)
    /\ WF_discoveryVars(ReaderEnds /\ ~connected)
    /\ WF_discoveryVars(StopCloses) /\ WF_discoveryVars(StopReturns)
    /\ \A a \in Answers :
         WF_discoveryVars(Answer(a) \/ AnswerSends(a) \/ AnswerEnds(a))

(***************************************************************************)
(* Properties.                                                             *)
(***************************************************************************)

DiscoveryTypeOK ==
    /\ at \in [Goroutines -> {"none", "read", "send", "wait", "delay", "ended"}]
    /\ searching \subseteq Answers /\ slots \in 0..AnswerSlots
    /\ group \subseteq Goroutines
    /\ cancelled \in BOOLEAN /\ connected \in BOOLEAN

(* When Stop has returned (ssdp.go:191) nothing of the discovery is left:  *)
(* no goroutine sends a packet after it, of a search that came while Stop  *)
(* was under way neither, and every slot is free.  The manager makes a new *)
(* Discovery for another address only then.                                *)
StopWaitsForAll ==
    at["stopper"] = "ended" =>
        /\ \A g \in Goroutines : ~Alive(g)
        /\ searching = {} /\ slots = 0

(* Stop returns, whoever answers or announces at the time.                 *)
StopEnds == at["stopper"] = "send" ~> at["stopper"] = "ended"

(***************************************************************************)
(* The inductive invariant behind StopWaitsForAll.                         *)
(***************************************************************************)

(* Who has a slot: an answer that was started, or is about to be.          *)
SlotHolders == {a \in Answers : Alive(a)} \cup searching

SlotsInv == IsFiniteSet(SlotHolders) /\ slots = Cardinality(SlotHolders)

(* The wait group has exactly those that live, and a search that is not    *)
(* yet answered keeps read in the group.                                   *)
GroupInv ==
    /\ \A g \in Goroutines : g \in group <=> g # "stopper" /\ Alive(g)
    /\ \A a \in searching : searching = {a} /\ ~Alive(a) /\ at["reader"] = "read"
    /\ connected \/ at["stopper"] # "none" => at["reader"] # "none"
    /\ at["reader"] = "none" \/ at["stopper"] = "ended" => group = {}

DiscoveryInv == DiscoveryTypeOK /\ GroupInv /\ SlotsInv
=============================================================================
