-------------------------------- MODULE MCBase64 --------------------------------
(***************************************************************************)
(* Digits with bits set on both sides of every boundary between two bytes. *)
(***************************************************************************)
EXTENDS Base64

SomeDigits == {0, 17, 63}
================================================================================
