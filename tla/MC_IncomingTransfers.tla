-------------------------- MODULE MC_IncomingTransfers --------------------------
(* Model values for IncomingTransfers: which device sends each transfer.    *)
EXTENDS IncomingTransfers

CONSTANTS file, alice, bob
FromAlice == [t \in Transfers |-> alice]
=============================================================================
