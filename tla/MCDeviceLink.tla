---------------------------- MODULE MCDeviceLink ----------------------------
(* Values for the constants of DeviceLink: two files.                      *)
EXTENDS DeviceLinkInvariant

Two        == 1..2
PacketsTwo == <<3, 2>>

(* Bound: what a disturbed block leads to is followed on the first         *)
(* connection, and until the client is back on another.                    *)
FirstWhenDisturbed == disturbed => conn < 2
=============================================================================
