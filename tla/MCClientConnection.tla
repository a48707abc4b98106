------------------------- MODULE MCClientConnection -------------------------
(***************************************************************************)
(* Small instances of ClientConnection.                                    *)
(***************************************************************************)
EXTENDS ClientConnection

EveryFault == AllFaults
NoFaults == {}
=============================================================================
