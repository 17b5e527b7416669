------------------------------- MODULE MC_Services -------------------------------
(* The components that must get somewhere, checked side by side: one of them  *)
(* runs in each behaviour.  Nothing that fairness is stated of is enabled in   *)
(* the initial state of a component, so the fairness of the others is void.    *)
EXTENDS OutgoingChat, Discovery, PeerTransport

VARIABLE component

MCInit ==
  /\ component \in {"chat", "discovery", "transport"}
  /\ ChatInit /\ DiscInit /\ LinkInit
  /\ component = "discovery" \/ (broadcasting /\ announcing)

MCNext ==
  /\ UNCHANGED component
  /\ \/ component = "chat" /\ ChatNext /\ UNCHANGED <<discVars, linkVars>>
     \/ component = "discovery" /\ DiscNext /\ UNCHANGED <<allVars, linkVars>>
     \/ component = "transport" /\ LinkNext /\ UNCHANGED <<allVars, discVars>>

MCSpec ==
  /\ MCInit
  /\ [][MCNext]_<<component, allVars, discVars, linkVars>>
  /\ ChatFairness /\ DiscFairness /\ LinkFairness

ServicesTypeOK == ChatTypeOK /\ DiscTypeOK /\ LinkTypeOK
=============================================================================
