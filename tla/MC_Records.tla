------------------------------- MODULE MC_Records -------------------------------
(* The components that keep files and share no state with each other, checked *)
(* side by side: one of them runs in each behaviour.                         *)
EXTENDS PeerProfiles, AppUpdate, HistoryStore, FolderTransfers, Codecs, TLC

VARIABLE component

CONSTANTS p2, a1, a2

\* What earlier runs left of the profiles: nothing, or that of an older installation,
\* seen at both addresses, a2 last; the announcement of this run is one delivery less.
EarlierRuns ==
  \/ profile = [d \in Devices |-> Missing] /\ deliveries = 0
  \/ /\ profile = [d \in Devices |->
           IF d = p2 THEN Profile(1, 1, 1, a2, {a1, a2}) ELSE Missing]
     /\ deliveries = MaxDeliveries - 1

Init ==
  /\ component \in {"profiles", "update", "history", "folder", "codecs"}
  /\ EarlierRuns
  /\ component = "profiles" \/ profile = [d \in Devices |-> Missing]
  /\ ProfInit /\ UpdInit /\ HistInit /\ FoldInit /\ CodecInit
  /\ component = "folder" \/ folder = <<[dir |-> TRUE, size |-> 0]>>
  /\ component = "codecs" \/ kind = <<"kept", "text">>

Next ==
  /\ UNCHANGED component
  /\ \/ component = "profiles" /\ ProfNext /\ UNCHANGED <<updVars, histVars, foldVars, codecVars>>
     \/ component = "update" /\ UpdNext /\ UNCHANGED <<profVars, histVars, foldVars, codecVars>>
     \/ component = "history" /\ HistNext /\ UNCHANGED <<profVars, updVars, foldVars, codecVars>>
     \/ component = "folder" /\ FoldNext /\ UNCHANGED <<profVars, updVars, histVars, codecVars>>
     \/ component = "codecs" /\ CodecNext
        /\ UNCHANGED <<profVars, updVars, histVars, foldVars>>

Spec == Init /\ [][Next]_<<component, profVars, updVars, histVars, foldVars, codecVars>>

\* Requests are told apart by their names only.
RequestSymmetry == Permutations(Requests)

RecordsTypeOK ==
  CASE component = "profiles" -> ProfileTypeOK
    [] component = "update" -> UpdTypeOK
    [] component = "history" -> HistTypeOK
    [] component = "folder" -> FoldTypeOK
    [] component = "codecs" -> CodecTypeOK
=============================================================================
