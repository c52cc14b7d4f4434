----------------------------- MODULE MCScramBuffers -----------------------------
(***************************************************************************)
(* Lengths around those that just fill buffers of 4096 bytes, for TLC:     *)
(* with r values near 2000 the transcript is full, near 4040 it would be   *)
(* if it left the server's message out.                                    *)
(***************************************************************************)
EXTENDS ScramBuffers

Users == {0, 1, 8, 9, 32, 4054, 4055, 4056}
Nonces == {0, 32} \cup 1990 .. 2006 \cup 4036 .. 4050
================================================================================
