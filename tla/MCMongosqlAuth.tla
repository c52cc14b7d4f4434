----------------------------- MODULE MCMongosqlAuth -----------------------------
(***************************************************************************)
(* Values of the constants of MongosqlAuth for TLC.                        *)
(***************************************************************************)
EXTENDS MongosqlAuth

AllMechanisms == {"SCRAM", "PLAIN", "GSSAPI", "OTHER"}
KnownMechanisms == {"SCRAM", "PLAIN", "GSSAPI"}
AllFaults == {"read", "write", "version", "init", "step", "alloc"}
================================================================================
