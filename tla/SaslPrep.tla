-------------------------------- MODULE SaslPrep --------------------------------
(***************************************************************************)
(* How a password is prepared for SCRAM-SHA-256 (mongoc-scram.c): by the   *)
(* ICU library, in a build that has it, through two conversions that are   *)
(* each asked for a length first; otherwise only a password that needs no  *)
(* preparation is taken.                                                   *)
(***************************************************************************)
EXTENDS Integers, Sequences

LibraryCalls == {"u_strFromUTF8", "usprep_openByType", "usprep_prepare", "u_strToUTF8"}

(* A password: its length before and after preparation, whether all of it is  *)
(* printable ASCII, which preparing leaves alone, whether it is UTF-8 and     *)
(* whether it may be prepared at all.                                         *)
Passwords ==
  {p \in [length : 0 .. 1, prepared : 0 .. 1, printable : BOOLEAN,
          utf8 : BOOLEAN, allowed : BOOLEAN] :
     /\ p.length = 0 => p.printable
     /\ p.printable => p.utf8 /\ p.allowed /\ p.prepared = p.length}

(* ICU answers the question for a length with an overflow, unless there is    *)
(* nothing to be stored.                                                      *)
Overflow(length) == length > 0

(* Mutant: the profile stays open. *)
ProfileKept == {"in_utf16"}

(* What is freed when the length of the prepared password is not found. *)
UndoLength == {"in_utf16", "prep"}

(* The steps: what is allocated for one, whether its call works, what is      *)
(* freed when it does not (a profile that could not be opened is none), and   *)
(* when it does.                                                              *)
ImplSteps(p, failing) ==
  <<[gets |-> {}, works |-> p.utf8 /\ Overflow(p.length), undo |-> {}, frees |-> {}],
    [gets |-> {"in_utf16"}, works |-> "u_strFromUTF8" \notin failing,
     undo |-> {"in_utf16"}, frees |-> {}],
    [gets |-> {"prep"}, works |-> "usprep_openByType" \notin failing,
     undo |-> {"in_utf16", "prep"}, frees |-> {}],
    [gets |-> {}, works |-> p.allowed /\ Overflow(p.prepared),
     undo |-> UndoLength, frees |-> {}],
    [gets |-> {"out_utf16"}, works |-> "usprep_prepare" \notin failing,
     undo |-> {"in_utf16", "out_utf16", "prep"}, frees |-> {"in_utf16", "prep"}],
    [gets |-> {}, works |-> Overflow(p.prepared), undo |-> {"out_utf16"}, frees |-> {}],
    [gets |-> {"out_utf8"}, works |-> "u_strToUTF8" \notin failing,
     undo |-> {"out_utf8", "out_utf16"}, frees |-> {"out_utf16"}]>>

(* One step; none follows the first that does not work. *)
Do(s, step) ==
  IF s.refused THEN s
  ELSE [held    |-> (s.held \cup step.gets) \ (IF step.works THEN step.frees ELSE step.undo),
        refused |-> ~step.works]

PrepImpl(p, failing) ==
  LET steps == ImplSteps(p, failing)
      run[n \in 0 .. Len(steps)] ==
        IF n = 0 THEN [held |-> {}, refused |-> FALSE] ELSE Do(run[n - 1], steps[n])
  IN  run[Len(steps)]

PrepRequired(p) == ~p.printable

Prep(icu, p, failing) ==
  IF icu THEN PrepImpl(p, failing)
  ELSE IF PrepRequired(p) THEN [held |-> {}, refused |-> TRUE]
  ELSE [held |-> {"out_utf8"}, refused |-> FALSE]
================================================================================
