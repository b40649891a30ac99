-------------------------------- MODULE MCOta --------------------------------
(* Small instances of the OTA client and the flash driver for TLC. *)
EXTENDS OtaFirmware

CONSTANTS v1, v2, v3

\* v3 does not fit into a bank of 8; the wide v1 fills a bank of 16, v3 does not fit.
AllImages == {v1, v2, v3}
AllSizes == [img \in AllImages |-> CASE img = v1 -> 3 [] img = v2 -> 7 [] img = v3 -> 9]
WideSizes == [img \in AllImages |-> CASE img = v1 -> 16 [] img = v2 -> 11 [] img = v3 -> 17]
\* Resumed downloads only where the driver writes by offset.
BothBoards == {"stm32l4", "same54"}
WhereItWorks == [b \in BothBoards |-> IF b = "same54" THEN BOOLEAN ELSE {FALSE}]
Stm32 == {"stm32l4"}
Either == [b \in Stm32 |-> BOOLEAN]
=============================================================================
