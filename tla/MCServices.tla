----------------------------- MODULE MCServices -----------------------------
(***************************************************************************)
(* Instances for TLC of the account, eventing, discovery, the proxy and    *)
(* casts.  They share no state, so that one run can check them side by     *)
(* side: each behaviour is of one part and the others stand still.         *)
(***************************************************************************)
EXTENDS Account, Events, Discovery, Casts

VARIABLE part

vars == <<part, accountVars, eventVars, discoveryVars, castsVars>>

(* Parts that stand still have one initial state.                          *)
MCInit ==
    /\ part \in {"account", "events", "discovery", "proxy", "casts"}
    /\ AccountInit /\ EventsInit /\ DiscoveryInit /\ CastsInit
    /\ part # "account" => stored = Nobody /\ ~aged
    /\ \A r, s \in Renderers : look[r] = look[s]
    /\ current = CHOOSE r \in Renderers : TRUE
    /\ look[current] = CHOOSE l \in Looks : TRUE

MCNext ==
    /\ part' = part
    /\ \/ /\ part = "account" /\ AccountNext
          /\ UNCHANGED <<eventVars, discoveryVars, castsVars>>
       \/ /\ part = "events" /\ EventsNext
          /\ UNCHANGED <<accountVars, discoveryVars, castsVars>>
       \/ /\ part = "discovery" /\ DiscoveryNext
          /\ UNCHANGED <<accountVars, eventVars, castsVars>>
       \/ /\ part = "proxy" /\ ProxyNext
          /\ UNCHANGED <<accountVars, eventVars, discoveryVars, castVars>>
       \/ /\ part = "casts" /\ CastsGo
          /\ UNCHANGED <<accountVars, eventVars, discoveryVars>>

FairSpec ==
    /\ MCInit /\ [][MCNext]_vars
    /\ AccountFairness /\ EventsFairness /\ DiscoveryFairness /\ CastsFairness

(* Whatever waits for an answer gets one and whatever is taken comes back: *)
(* every use of the account ends, subscribers learn of each change, Stop   *)
(* of the discovery returns, and the slots of streams and jobs are free    *)
(* again (client.go:164-209, http.go:349-410, ssdp.go:182-192,             *)
(* proxy.go:91-132, transcode.go:27-53).                                   *)
ServicesSettle ==
    /\ AccountTasksEnd
    /\ SubscribersLearn
    /\ StopEnds
    /\ StreamSlotsComeBack /\ JobSlotsComeBack
=============================================================================
