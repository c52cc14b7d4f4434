----------------------------- MODULE MCBase64Table -----------------------------
(***************************************************************************)
(* Two connections, or three, that decode texts of up to two digits.       *)
(***************************************************************************)
EXTENDS Base64Table

CONSTANTS t1, t2, t3

TwoTexts == {<<1, 2>>, <<2>>}
================================================================================
