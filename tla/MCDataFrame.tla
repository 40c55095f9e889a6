---------------------------- MODULE MCDataFrame -----------------------------
(***************************************************************************)
(* Instances of DataFrame: chunks of two elements, so that three rows use  *)
(* two chunks and the boundary is crossed both ways.                       *)
(***************************************************************************)
EXTENDS DataFrame

CONSTANTS one, third, near, text

(* One third is no float, what is near it is.                               *)
Typed == [I |-> {one}, F |-> {third, near}, B |-> {one}, S |-> {text, Null}]
Floats == [v \in {third, near} |-> IF v = third THEN near ELSE v]

(* The last has more types than a pointer of the instance has bytes.        *)
Mixed == {<< "I", "S" >>, << "F" >>, << "B", "B", "B" >>}
More == {"I", "S"}

(* A wild pointer may lead to what names no type, and to a type too many.  *)
Strange == {<< "?" >>, << "I", "S", "I" >>}
=============================================================================
