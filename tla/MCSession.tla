------------------------------ MODULE MCSession ------------------------------
(* Small instances of the session for TLC. *)
EXTENDS HubSession

CONSTANTS b1, b2, b3, b4, b5, b6

SomeBlocks == {b1, b2, b3, b4, b5, b6}
EitherMode == {"polls", "loops"}
Loops == {"loops"}
Plain == {"other"}
All == Messages
=============================================================================
