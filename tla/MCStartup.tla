------------------------------ MODULE MCStartup ------------------------------
(* Small instances of the start of a board for TLC. *)
EXTENDS Startup

BothBoards == {"ck-rx65n", "stm32l4"}
Renesas == {"ck-rx65n"}
JustBeforeWrap == {14}
=============================================================================
