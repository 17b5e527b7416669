-------------------------------- MODULE MC_Local --------------------------------
(* The receiving side of a file transfer, beside what one computer does with its *)
(* crash reports, the shakes it gets, the avatars it shows and its entry among the *)
(* programs Windows starts: one of the components runs in each behaviour, the        *)
(* others keep their initial states.                                              *)
EXTENDS IncomingTransfers, CrashReports, ScreenShake, Avatars, StartupLaunch

CONSTANTS
  file, alice, bob,
  MaxFailures   \* bound on the steps of the receiver that fail
FromAlice == [t \in Transfers |-> alice]

VARIABLES component, failures

\* The preferences are chosen only where they are used.
LocalInit ==
  /\ component \in {"incoming", "crash", "shake", "avatars", "startup"}
  /\ failures = 0
  /\ Init /\ CrashInit /\ ShakeInit /\ AvatarInit /\ StartInit
  /\ component # "shake" => \A d \in DOMAIN preference : preference[d] = 0

\* A file cannot be made or written, or an accept does not reach the sender.
StepFails ==
  InstallFails \/ WriteFails \/ \E t \in Transfers, slot \in Slots : AcceptFails(t, slot)

LocalNext ==
  /\ UNCHANGED component
  /\ \/ /\ component = "incoming" /\ Next
        /\ failures' = IF StepFails THEN failures + 1 ELSE failures
        /\ failures' <= MaxFailures
        /\ UNCHANGED <<crashVars, shakeVars, avatarVars, startVars>>
     \/ /\ component = "crash" /\ CrashNext
        /\ UNCHANGED <<failures, vars, shakeVars, avatarVars, startVars>>
     \/ /\ component = "shake" /\ ShakeNext
        /\ UNCHANGED <<failures, vars, crashVars, avatarVars, startVars>>
     \/ /\ component = "avatars" /\ AvatarNext
        /\ UNCHANGED <<failures, vars, crashVars, shakeVars, startVars>>
     \/ /\ component = "startup" /\ StartNext
        /\ UNCHANGED <<failures, vars, crashVars, shakeVars, avatarVars>>

LocalSpec ==
  LocalInit
    /\ [][LocalNext]_<<component, failures, vars, crashVars, shakeVars, avatarVars,
                         startVars>>

LocalTypeOK ==
  CASE component = "incoming" -> TypeOK
    [] component = "crash" -> CrashTypeOK
    [] component = "shake" -> ShakeTypeOK
    [] component = "avatars" -> AvatarTypeOK
    [] component = "startup" -> StartTypeOK
=============================================================================
