------------------------------- MODULE Table --------------------------------
(***************************************************************************)
(* What a data frame promises: a table of rows.  A row is filled field by  *)
(* field and then added; a field of a row can be set; a visitor sees the   *)
(* rows in order.  Nothing here is cut into columns or chunks, and nothing *)
(* is copied, serialized or extended.  What is not promised is said, too:  *)
(* the number of fields of the row that is filled, and what a visitor is   *)
(* shown, once the description of the table is not legible any more.       *)
(***************************************************************************)
EXTENDS Integers, Sequences

CONSTANTS
    Values,   \* what can be in a field
    Rounded,  \* what may be kept of some of them
    Unset     \* a field of a row that has not been filled

VARIABLES
    rows,      \* the table
    counted,   \* how many of its rows were added by adding a row
    width,     \* the number of its fields
    legible,   \* the description of the fields can be read
    extended,  \* columns were added
    filling,   \* the row that is filled
    seen,      \* what the visitor sees that was just there
    given      \* the value that the caller just handed over

table == <<rows, counted, width, legible, extended>>

Init ==
    /\ rows = << >>
    /\ counted = 0
    /\ legible = TRUE /\ extended = FALSE
    /\ Len(filling) = width /\ \A j \in DOMAIN filling : filling[j] = Unset
    /\ seen = << >>
    /\ given = << >>

(* A field that is replaced keeps what a value is rounded to, at most.     *)
Kept(v) == IF v \in DOMAIN Rounded THEN {v, Rounded[v]} ELSE {v}

Renew ==
    /\ legible => Len(filling') = width
    /\ filling' = [j \in DOMAIN filling' |-> Unset]
    /\ seen' = << >> /\ given' = << >>
    /\ UNCHANGED table

(* A field is what was given for it first, or was given for it last.       *)
Fill ==
    /\ \E v \in Values :
          /\ given' = << v >>
          /\ \E j \in DOMAIN filling : \E kept \in Kept(v) :
                /\ filling[j] = Unset => kept = v
                /\ filling' = [filling EXCEPT ![j] = kept]
    /\ seen' = << >>
    /\ UNCHANGED table

(* A value for a field that the row filled does not have.                  *)
Drop ==
    /\ ~legible \/ extended
    /\ \E v \in Values : given' = << v >>
    /\ seen' = << >>
    /\ UNCHANGED <<table, filling>>

(* The row added is the one that was filled, all of it.                    *)
Add ==
    /\ Len(filling) >= width /\ (legible => Len(filling) = width)
    /\ \A j \in 1..width : filling[j] # Unset
    /\ rows' = Append(rows, SubSeq(filling, 1, width))
    /\ counted' = counted + 1
    /\ seen' = << >> /\ given' = << >>
    /\ UNCHANGED <<width, legible, extended, filling>>

(* A table can be made from values before rows are added to it.            *)
Load ==
    /\ counted = 0 /\ legible
    /\ \E v \in Values : given' = << v >> /\ rows' = Append(rows, << v >>)
    /\ seen' = << >>
    /\ UNCHANGED <<counted, width, legible, extended, filling>>

(* One field of one row changes to the value given, or it is given for a   *)
(* column that was added.                                                  *)
Update ==
    /\ \E v \in Values :
          /\ given' = << v >>
          /\ \/ \E i \in DOMAIN rows : \E j \in 1..width, kept \in Kept(v) :
                    rows' = [rows EXCEPT ![i][j] = kept]
             \/ extended /\ rows' = rows
    /\ seen' = << >>
    /\ UNCHANGED <<counted, width, legible, extended, filling>>

(* A visitor sees as many rows as were added, from the first on.  Where    *)
(* the fields are not known any more it may miss some, but none is moved.  *)
Visit ==
    /\ Len(seen') = counted
    /\ \A i \in 1..counted :
          IF legible
          THEN seen'[i] = rows[i]
          ELSE \A j \in DOMAIN seen'[i] : j <= width => seen'[i][j] \in {rows[i][j], Unset}
    /\ given' = << >>
    /\ UNCHANGED <<table, filling>>

(* Or one field.                                                           *)
Read ==
    /\ \E i \in DOMAIN rows : \E j \in 1..width : seen' = << << rows[i][j] >> >>
    /\ given' = << >>
    /\ UNCHANGED <<table, filling>>

Extend ==
    /\ extended' = TRUE
    /\ seen' = << >> /\ given' = << >>
    /\ UNCHANGED <<rows, counted, width, legible, filling>>

(* The table goes to another process, with all its rows.                   *)
Move ==
    /\ legible' = FALSE
    /\ seen' = << >> /\ given' = << >>
    /\ UNCHANGED <<rows, counted, width, extended, filling>>

Next == Renew \/ Fill \/ Drop \/ Add \/ Load \/ Update \/ Visit \/ Read \/ Extend \/ Move

Spec == Init /\ [][Next]_<<table, filling, seen, given>>
=============================================================================
