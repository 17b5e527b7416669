----------------------------- MODULE TransferRules -----------------------------
(***************************************************************************)
(* The states of a transferred message part and the rule that decides       *)
(* whether a queued update may replace the state a message already shows    *)
(* (src/src/storage/history_store.h, src/src/main/app_runtime.cpp).               *)
(***************************************************************************)

States == {"Pending", "Offered", "Transferring", "Completed", "Interrupted",
           "Failed", "Cancelled", "Rejected"}

\* isTerminalTransferState
TerminalStates == {"Completed", "Interrupted", "Failed", "Cancelled",
                   "Rejected"}

\* isAcceptableIncomingTransferState
AcceptableStates == {"Offered", "Interrupted"}

\* Mutant of Replacements: a failed transfer cannot complete any more.
ReplacementsNoRetry(state) ==
  CASE state = "Failed" -> {"Rejected", "Cancelled", "Transferring"}
    [] state = "Interrupted" ->
         {"Transferring", "Completed", "Failed", "Cancelled", "Rejected"}
    [] OTHER -> {}

\* The terminal states that give way, and what they give way to.
Replacements(state) ==
  CASE state = "Failed" ->
         {"Rejected", "Cancelled", "Transferring", "Completed"}
    [] state = "Interrupted" ->
         {"Transferring", "Completed", "Failed", "Cancelled", "Rejected"}
    [] OTHER -> {}

\* shouldIgnoreTransferStateUpdate
IgnoresUpdate(current, next) ==
  /\ current # next
  /\ current \in TerminalStates
  /\ next \notin Replacements(current)

\* The states no update replaces.
FinalStates == {s \in TerminalStates : Replacements(s) = {}}
=============================================================================
