--------------------------- MODULE MCProvisioning ---------------------------
(* Small instances of provisioning for TLC. *)
EXTENDS Provisioning

SomeLengths == {0, 2, 4, 5}
Sane == {"issued", "garbled"}
Any == {"issued", "garbled", "none"}
=============================================================================
