------------------------------- MODULE MCSor -------------------------------
(***************************************************************************)
(* Sor for TLC: files of up to three lines.  Lines differ in length, a     *)
(* column meets every type, and some lines cannot be read.                 *)
(***************************************************************************)
EXTENDS Sor, SequencesExt

Lines == {<<"bit", "int">>, <<"float">>, <<"text", "sign", "bit">>, <<"int", "words">>,
          <<"missing", "fine">>, << >>, <<"bit", "nested">>}

UpToThree == SeqOf(Lines, 3)

(* The whole file, as the tests read it, its beginning and its end.        *)
WholeOrCut == {[from |-> 0, len |-> 100], [from |-> 0, len |-> 6], [from |-> 2, len |-> 100]}
=============================================================================
