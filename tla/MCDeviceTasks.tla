--------------------------- MODULE MCDeviceTasks ---------------------------
(* DeviceTasks with two of the four parameters.  1000 is 3 * 256 + 232 and    *)
(* 1024 is 4 * 256: read in the middle they give 768, below the minimum.  The *)
(* third configuration is within its documented range and is refused.         *)
EXTENDS DeviceTasks

MCLow == <<1000, 5000>>
MCHigh == <<20000, 300000>>
MCOffered == {<<1000, 5120>>, <<1024, 5000>>, <<1000, 300000>>}
MCDefault == <<10000, 20000>>

=============================================================================
