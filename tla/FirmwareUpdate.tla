--------------------------- MODULE FirmwareUpdate ---------------------------
(***************************************************************************)
(* What a firmware update promises: the board boots a whole image at all   *)
(* times, and changes to another one only at a single step, when that one  *)
(* was staged as a whole.  A power loss un-stages an image but never the   *)
(* one the board boots.                                                    *)
(***************************************************************************)
CONSTANTS Images, Factory, None

VARIABLES booted, staged

fuVars == <<booted, staged>>

Init == booted = Factory /\ staged = None

Stage(img) == staged = None /\ staged' = img /\ UNCHANGED booted

Discard == staged # None /\ staged' = None /\ UNCHANGED booted

Switch == staged # None /\ booted' = staged /\ staged' = None

Next == (\E img \in Images : Stage(img)) \/ Discard \/ Switch

Spec == Init /\ [][Next]_fuVars
=============================================================================
