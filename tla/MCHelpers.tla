------------------------------- MODULE MCHelpers -------------------------------
(***************************************************************************)
(* Inputs for the helpers: longs of 10 bits, ints of 4, blocks of 16 bytes, *)
(* a count of bits that overflows after 32 bytes.                          *)
(***************************************************************************)
EXTENDS Helpers

SeqsUpTo(S, n) == UNION {[1 .. k -> S] : k \in 0 .. n}

SomeCounts == SeqsUpTo({1, 2, 5, 8, Letter, Space, Minus, Plus, Other}, 4)
                \cup [1 .. 5 -> {1, 2, 5, 8, Minus}]
SomeInputs == {[i \in 1 .. n |-> 129 + i] : n \in 0 .. 70}
SomeUsernames == SeqsUpTo({"s", "n", "=", "&", "?"}, 6)
ShortName == <<"s", "n">>
SomeSignatures == SeqsUpTo({{}, {0}, {7}, {0, 7}}, 3)
(* The last one is too large in the second byte of its length only. *)
SomeMessages == SeqsUpTo({0, 1}, 3) \cup {[i \in 1 .. 256 |-> 1]}
================================================================================
