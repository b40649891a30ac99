----------------------------- MODULE MCDownload -----------------------------
(* Small instances of the download client for TLC. *)
EXTENDS DownloadClient

CONSTANTS fw, cfgfile

OneFile == {fw}
TwoFiles == {fw, cfgfile}
SizeFive == [f \in {fw} |-> 5]
SizesTwo == [f \in {fw, cfgfile} |-> IF f = fw THEN 4 ELSE 3]

OrSilent == {"range", "error", "silent"}
OnlyRange == {"range"}
Talkative == {"range", "full", "error"}
Exact == {"exact"}
OrUnseen == {"exact", "unseen"}
Either == BOOLEAN
=============================================================================
