-------------------------------- MODULE Announcer --------------------------------
(***************************************************************************)
(* What the discovery part of one running program promises to the others:   *)
(* it says who it is any number of times, then at most once that it leaves,  *)
(* and after that nothing.  Discovery implements this specification.          *)
(***************************************************************************)

CONSTANTS
  Identities,   \* what an announcement may say about its sender
  Quiet         \* no announcement yet

VARIABLES
  phase,   \* "up" while the program may announce itself, "gone" afterwards
  said     \* its last announcement

AnnInit == phase = "up" /\ said = Quiet

\* A hello broadcast or a reply to a hello.
Announce ==
  /\ phase = "up" /\ phase' = "up"
  /\ said' \in [type : {"hello", "reply"}, of : Identities]

\* The end, with the offline broadcast or without it.
Leave ==
  /\ phase = "up" /\ phase' = "gone"
  /\ said' \in [type : {"offline"}, of : Identities] \union {said}

AnnNext == Announce \/ Leave

AnnSpec == AnnInit /\ [][AnnNext]_<<phase, said>>
=============================================================================
