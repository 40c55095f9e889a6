----------------------------- MODULE DataFrame ------------------------------
(***************************************************************************)
(* One data frame (DataFrame of src/src/dataframe/dataframe.h, Schema and  *)
(* Row of schema.h) and one Row that is filled and added to it, in one     *)
(* thread, under any sequence of calls.  What the comments of the header   *)
(* call undefined (an index or a type that is wrong) is not called.        *)
(***************************************************************************)
EXTENDS Column

CONSTANTS
    Schemas,     \* the type strings frames are made with
    MaxRows,     \* bound: elements of the first column
    MaxAdded,    \* bound: add_column calls
    AddedTypes,  \* the types of columns that are added
    Unset,       \* what a field of a Row is before it is set
    Texts,       \* what may be read where a wild pointer leads
    PointerBytes \* sizeof(char *)

ASSUME SchemasTyped == Schemas \subseteq Seq(Types) /\ << >> \notin Schemas
ASSUME BoundsTyped == MaxRows \in Nat /\ MaxAdded \in Nat /\ AddedTypes \subseteq Types
ASSUME UnsetIsNoCell == Unset \notin Cells

(* "?" stands for the characters that name no type.                        *)
ASSUME TextsTyped == Texts \subseteq Seq(Types \cup {"?"}) /\ PointerBytes \in Nat

VARIABLES
    up,        \* the process runs
    types,     \* the string of types the schema was made with
    intact,    \* scm.track_types points at it
    col_size,  \* Schema::col_size
    row_size,  \* Schema::row_size
    cols,      \* DataFrame::cols
    row,       \* Row::columns of the Row
    seen,      \* the rows that the call just made has read
    given      \* history: the value that the call just made was given

vars == <<up, types, intact, col_size, row_size, cols, row, seen, given>>

(* Row(Schema &), and the DataFrame of a Schema.  A character that names   *)
(* no type leaves an entry of Row::columns as it comes from the heap.      *)
NewColumns(ts) == [j \in DOMAIN ts |-> NewColumn(ts[j])]

Init ==
    /\ up = TRUE
    /\ types \in Schemas
    /\ intact = TRUE
    /\ col_size = Len(types)
    /\ row_size = 0
    /\ cols = NewColumns(types)
    /\ row = NewColumns(types)
    /\ seen = << >>
    /\ given = << >>

(* A call that shows nothing, and the value it was given, if any.          *)
Quiet(g) == seen' = << >> /\ given' = g

(* A failing assert, a pointer that leads nowhere, or a write over memory  *)
(* that belongs to others: nothing is said of what comes then.             *)
Crash ==
    /\ up' = FALSE
    /\ UNCHANGED <<types, intact, col_size, row_size, cols, row, seen, given>>

(* The columns that add_column added.                                      *)
Added == (Len(types) + 1)..col_size

(* What scm.track_types may spell when it is read.                         *)
Spellings == IF intact THEN {types} ELSE Texts \cup {types}

----------------------------------------------------------------------------
(* A new Row, as wide as the string of types is read to be.               *)
RenewRow ==
    /\ up
    /\ \/ /\ \E ts \in Spellings : row' = NewColumns(ts)
          /\ Quiet(<< >>)
          /\ UNCHANGED <<up, types, intact, col_size, row_size, cols>>
       \/ ~intact /\ Crash

(* The Row has a field for the values of the frame's column j.             *)
Fitting(j) == j \in DOMAIN row /\ row[j].type = cols[j].type

(* Behind the end of Row::columns, or in an entry nobody initialised, may  *)
(* be a nullptr, which set takes for a field to be made, or any address.   *)
Undefined(j) == j \in DOMAIN row => row[j].type = "?"

(* Mutant: a field that was set already is pushed again.                   *)
SetFieldAgain(j, v) ==
    /\ up
    /\ Fitting(j)
    /\ row' = [row EXCEPT ![j] = PushBack(@, v)]
    /\ Quiet(<< v >>)
    /\ UNCHANGED <<up, types, intact, col_size, row_size, cols>>

(* Mutant: a field that was set already keeps its value.                   *)
SetFieldOnce(j, v) ==
    /\ up
    /\ Fitting(j)
    /\ row' = [row EXCEPT ![j] = IF @.size = 0 THEN PushBack(@, v) ELSE @]
    /\ Quiet(<< v >>)
    /\ UNCHANGED <<up, types, intact, col_size, row_size, cols>>

(* Row::set of a field for column j of the frame: the first value is       *)
(* pushed, a later one replaces it.                                        *)
SetField(j, v) ==
    /\ up
    /\ Fitting(j)
    /\ row' = [row EXCEPT ![j] = IF @.size = 0 THEN PushBack(@, v) ELSE SetAt(@, 0, v)]
    /\ Quiet(<< v >>)
    /\ UNCHANGED <<up, types, intact, col_size, row_size, cols>>

(* For a nullptr a column is made, given the value and forgotten.          *)
SetFieldLost(j, v) ==
    /\ up
    /\ Undefined(j)
    /\ Quiet(<< v >>)
    /\ UNCHANGED <<up, types, intact, col_size, row_size, cols, row>>

SetFieldFails(j) ==
    /\ up
    /\ ~Fitting(j)
    /\ Crash

(* The getters' asserts: each column of the frame finds its field in the   *)
(* Row, of its type and set.                                               *)
Filled == \A j \in DOMAIN cols : Fitting(j) /\ Readable(row[j], 0)

(* Mutant: the last column is left out.                                    *)
AddRowShort ==
    /\ up
    /\ cols[1].size < MaxRows
    /\ Filled
    /\ row_size' = row_size + 1
    /\ cols' = [j \in DOMAIN cols |->
                   IF j = Len(cols) /\ j > 1 THEN cols[j] ELSE PushBack(cols[j], Get(row[j], 0))]
    /\ Quiet(<< >>)
    /\ UNCHANGED <<up, types, intact, col_size, row>>

(* DataFrame::add_row, when the Row has a field for every column and its   *)
(* string of types compares equal.                                         *)
AddRow ==
    /\ up
    /\ cols[1].size < MaxRows
    /\ Filled
    /\ row_size' = row_size + 1
    /\ cols' = [j \in DOMAIN cols |-> PushBack(cols[j], Get(row[j], 0))]
    /\ Quiet(<< >>)
    /\ UNCHANGED <<up, types, intact, col_size, row>>

(* An added column has no field in a Row of the schema's types: get_int    *)
(* and the others look behind Row::columns.  An unset field fails the      *)
(* assert of its Array, and a string of types that is gone may fail the    *)
(* strcmp.                                                                 *)
AddRowFails ==
    /\ up
    /\ ~Filled \/ ~intact
    /\ Crash

(* fromArray and fromScalar push into the only column themselves.          *)
PushValue(v) ==
    /\ up
    /\ types = << "F" >> /\ intact /\ row_size = 0
    /\ cols[1].size < MaxRows
    /\ cols' = [cols EXCEPT ![1] = PushBack(@, v)]
    /\ Quiet(<< v >>)
    /\ UNCHANGED <<up, types, intact, col_size, row_size, row>>

(* DataFrame::add_column: a new column of the type of the one given.  The  *)
(* schema counts it and keeps its string of types.                         *)
AddColumn(t) ==
    /\ up
    /\ col_size < Len(types) + MaxAdded
    /\ col_size' = col_size + 1
    /\ cols' = Append(cols, NewColumn(t))
    /\ Quiet(<< >>)
    /\ UNCHANGED <<up, types, intact, row_size, row>>

(* An index of the frame, by the count of rows or by the column's own.     *)
IsIndex(j, i) == i < row_size \/ i < cols[j].size

(* DataFrame::set.  The first value stored in an added column goes to its  *)
(* first element, whatever the row, and is not counted in size_.           *)
SetCell(j, i, v) ==
    /\ up
    /\ IsIndex(j, i)
    /\ Settable(cols[j], i)
    /\ cols' = [cols EXCEPT ![j] = SetAt(@, i, v)]
    /\ Quiet(<< v >>)
    /\ UNCHANGED <<up, types, intact, col_size, row_size, row>>

(* No element there, or a store behind the end of an Array of one.         *)
SetCellFails(j, i) ==
    /\ up
    /\ IsIndex(j, i)
    /\ ~SetInside(cols[j], i)
    /\ Crash

(* The values that the original columns have in row i.                     *)
RowAt(i) == [j \in DOMAIN types |-> Get(cols[j], i)]

(* What Row::set makes of row i in a Row of the types ts: a field of       *)
(* another type fails its assert, and where there is no field the value is *)
(* lost, if the process survives.                                          *)
Survivable(ts) == \A j \in DOMAIN ts \cap DOMAIN cols : ts[j] \in {cols[j].type, "?"}
Shown(ts, i) ==
    [j \in DOMAIN ts |-> IF j \in DOMAIN cols /\ ts[j] = cols[j].type THEN Get(cols[j], i) ELSE Unset]

(* DataFrame::map with a Rower that keeps what it sees.  fill_row reads    *)
(* every column and sets as many fields of a Row that is new for each row. *)
Map ==
    /\ up
    /\ \A j \in 1..col_size : \A i \in 0..(row_size - 1) : Readable(cols[j], i)
    /\ \E ts \in [1..row_size -> {t \in Spellings : Survivable(t)}] :
           seen' = [i \in 1..row_size |-> Shown(ts[i], i - 1)]
    /\ given' = << >>
    /\ UNCHANGED <<up, types, intact, col_size, row_size, cols, row>>

MapFails ==
    /\ up
    /\ row_size > 0
    /\ Added # {} \/ ~intact
    /\ Crash

(* DataFrame::filter makes each Row from a schema without a string.        *)
FilterFails ==
    /\ up
    /\ row_size > 0
    /\ Crash

(* DataFrame::get_double.  Its assert holds only for a row that the schema *)
(* does not count.                                                         *)
GetDouble(j, i) ==
    /\ up
    /\ cols[j].type = "F" /\ IsIndex(j, i)
    /\ i >= row_size /\ Readable(cols[j], i)
    /\ seen' = << << Get(cols[j], i) >> >>
    /\ given' = << >>
    /\ UNCHANGED <<up, types, intact, col_size, row_size, cols, row>>

GetDoubleFails(j, i) ==
    /\ up
    /\ cols[j].type = "F" /\ IsIndex(j, i)
    /\ i < row_size
    /\ Crash

(* A frame is serialized and deserialized, as put and get do.  Of the      *)
(* string of types strlen bytes of the pointer are written, and read over  *)
(* the low bytes of another pointer: where that leads nobody knows.        *)
Reload ==
    /\ up
    /\ \A j \in DOMAIN cols : Serializable(cols[j])
    /\ \E ts \in Spellings : Len(ts) <= PointerBytes
    /\ cols' = [j \in DOMAIN cols |-> Deserialized(cols[j])]
    /\ intact' = FALSE
    /\ Quiet(<< >>)
    /\ UNCHANGED <<up, types, col_size, row_size, row>>

(* More bytes than a pointer has are read over what lies behind it, and    *)
(* the strlen of a pointer that leads nowhere does not return.             *)
ReloadFails ==
    /\ up
    /\ \/ \E j \in DOMAIN cols : ~Serializable(cols[j])
       \/ \E ts \in Spellings : Len(ts) > PointerBytes
       \/ ~intact
    /\ Crash

----------------------------------------------------------------------------
Cell == {c \in (1..col_size) \X (0..MaxRows) : IsIndex(c[1], c[2])}

RowCall ==
    \/ RenewRow
    \/ \E j \in DOMAIN cols : \E v \in ValuesOf[cols[j].type] : SetField(j, v) \/ SetFieldLost(j, v)
    \/ \E j \in DOMAIN cols : SetFieldFails(j)
    \/ AddRow \/ AddRowFails

FrameCall ==
    \/ \E v \in ValuesOf["F"] : PushValue(v)
    \/ \E t \in AddedTypes : AddColumn(t)
    \/ \E c \in Cell : \E v \in ValuesOf[cols[c[1]].type] : SetCell(c[1], c[2], v)
    \/ \E c \in Cell : SetCellFails(c[1], c[2]) \/ GetDouble(c[1], c[2]) \/ GetDoubleFails(c[1], c[2])
    \/ Map \/ MapFails \/ FilterFails
    \/ Reload \/ ReloadFails

Next == RowCall \/ FrameCall

Spec == Init /\ [][Next]_vars

----------------------------------------------------------------------------
(* Every variable has its type, a field of the Row has one value or none,  *)
(* and as long as the string of types is what it was, the Row has a field  *)
(* of its type for each.                                                   *)
Fields == [type : Types \cup {"?"}, chunks : Seq(Seq(Cells)), size : Nat]

TypeOK ==
    /\ up \in BOOLEAN /\ intact \in BOOLEAN
    /\ types \in Schemas
    /\ col_size \in Nat /\ row_size \in Nat
    /\ cols \in Seq(Columns) /\ Len(cols) = col_size
    /\ row \in Seq(Fields)
    /\ \A j \in DOMAIN row : row[j].size \in {0, 1} /\ WellChunked(row[j])
    /\ intact => [j \in DOMAIN row |-> row[j].type] = types
    /\ seen \in Seq(Seq(Cells \cup {Unset}))
    /\ given \in Seq(Cells)

(* The chunks of a column of the schema cut one sequence of size_          *)
(* elements, in whatever order rows were added, set and serialized: one    *)
(* chunk too many or an element in the wrong one would only show after     *)
(* CHUNK_SIZE rows.                                                        *)
ColumnsWellChunked == \A j \in DOMAIN types : WellChunked(cols[j])

(* The columns of the schema have the same length, and not less than the  *)
(* rows counted, however the frame was made, set, extended and serialized. *)
ColumnsInStep ==
    /\ \A j \in DOMAIN types : cols[j].size = cols[1].size
    /\ row_size <= cols[1].size

(* No row that the schema counts is missing in a column of the schema: get *)
(* of a Column passes both of its asserts.                                 *)
EveryRowReadable ==
    \A j \in DOMAIN types : \A i \in 0..(row_size - 1) : Readable(cols[j], i)

(* The table that the columns of the schema make up.                       *)
Content == [i \in 1..cols[1].size |-> RowAt(i - 1)]

(* The frame as a table: its rows are those of the columns of the schema.  *)
Rows == INSTANCE Table WITH
    Values   <- Cells,
    Rounded  <- AsFloat,
    rows     <- Content,
    counted  <- row_size,
    width    <- Len(types),
    legible  <- intact,
    extended <- col_size > Len(types),
    filling  <- [j \in DOMAIN row |-> IF row[j].size = 0 THEN Unset ELSE Get(row[j], 0)]

(* A frame is a table of the rows that were added: cutting columns into    *)
(* chunks, reusing a Row and adding columns loses, repeats and moves no    *)
(* value, and going through the serializer and back neither, of what the   *)
(* frame itself holds; what a Row shows of it is then no longer sure.      *)
ImplementsTable == Rows!Spec

(* set of a column of the schema changes that field of that row and no     *)
(* other, on whichever side of a chunk's end, whether the column grew or   *)
(* was deserialized.                                                       *)
SetIsLocal ==
    [][\A c \in Cell : \A v \in ValuesOf[cols[c[1]].type] :
          SetCell(c[1], c[2], v) /\ c[1] \in DOMAIN types =>
              /\ Len(Content') = Len(Content)
              /\ \A i \in DOMAIN Content : \A j \in DOMAIN types :
                    i # c[2] + 1 \/ j # c[1] => Content'[i][j] = Content[i][j]]_vars

(* What dataframe.h says of set: "Set the value at the given column and    *)
(* row to the given value."  A double is stored as a float.                *)
SetStoresTheValue ==
    [][\A c \in Cell : \A v \in ValuesOf[cols[c[1]].type] :
          SetCell(c[1], c[2], v) /\ c[1] \in DOMAIN types => Content'[c[2] + 1][c[1]] = v]_vars

(* What dataframe.h says of fill_row, for a Row made from the frame's own  *)
(* schema: "Set the fields of the given row object with values from the    *)
(* columns at the given offset."  A Rower sees the rows of the frame.      *)
MapShowsTheRows == [][Map => seen' = SubSeq(Content, 1, row_size)]_vars
=============================================================================
