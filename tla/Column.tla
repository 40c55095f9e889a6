------------------------------- MODULE Column -------------------------------
(***************************************************************************)
(* The typed columns (IntColumn, FloatColumn, BoolColumn and StringColumn  *)
(* of src/src/dataframe/column.h): a list of chunks of CHUNK_SIZE elements *)
(* each, which are Arrays of src/src/array.h, and a count size_.           *)
(* Indices start at 0 as in the code, sequences at 1.                      *)
(***************************************************************************)
EXTENDS Integers, Sequences

CONSTANTS
    ChunkSize,  \* CHUNK_SIZE
    ValuesOf,   \* the values a field of each type may have
    AsFloat,    \* what is left of a double in a float
    Null        \* a nullptr, a valid value for a string

Types == {"I", "F", "B", "S"}
Cells == ValuesOf["I"] \cup ValuesOf["F"] \cup ValuesOf["B"] \cup ValuesOf["S"]

ASSUME ChunkSizePositive == ChunkSize \in Nat \ {0}
ASSUME ValuesTyped == DOMAIN ValuesOf = Types /\ AsFloat \in [ValuesOf["F"] -> ValuesOf["F"]]

Columns == [type : Types, chunks : Seq(Seq(Cells)), size : Nat]

(* The chunk of an element, and its place there.                           *)
ChunkOf(idx) == (idx \div ChunkSize) + 1
Within(idx)  == (idx % ChunkSize) + 1

(* The constructors append newChunk.                                       *)
NewColumn(t) == [type |-> t, chunks |-> << << >> >>, size |-> 0]

(* Mutant: the chunk is chosen as if the element were there already.       *)
PushBackAhead(c, v) ==
    LET id     == ChunkOf(c.size + 1)
        chunks == IF id > Len(c.chunks) THEN Append(c.chunks, << >>) ELSE c.chunks
    IN  [c EXCEPT !.chunks = [chunks EXCEPT ![id] = Append(@, v)], !.size = @ + 1]

PushBack(c, v) ==
    LET id     == ChunkOf(c.size)
        chunks == IF id > Len(c.chunks) THEN Append(c.chunks, << >>) ELSE c.chunks
    IN  [c EXCEPT !.chunks = [chunks EXCEPT ![id] = Append(@, v)], !.size = @ + 1]

(* Both asserts hold: Array::get_ for the chunk, get for the element.      *)
HasChunk(c, idx) == ChunkOf(idx) <= Len(c.chunks)
Readable(c, idx) ==
    HasChunk(c, idx) /\ Within(idx) <= Len(c.chunks[ChunkOf(idx)])

Get(c, idx) == c.chunks[ChunkOf(idx)][Within(idx)]

(* set of the Arrays asserts size_ == 0 || nn < size_.  An empty Array     *)
(* appends the value first, and then stores it at nn all the same; one of  *)
(* strings has no set of its own and stores through elements_ = nullptr.   *)
EmptyChunk(c, idx) == HasChunk(c, idx) /\ c.chunks[ChunkOf(idx)] = << >>
Settable(c, idx) == Readable(c, idx) \/ (EmptyChunk(c, idx) /\ c.type # "S")
SetInside(c, idx) == Readable(c, idx) \/ (EmptyChunk(c, idx) /\ c.type # "S" /\ Within(idx) = 1)

(* FloatArray::set takes a float.                                          *)
Narrowed(c, v) == IF c.type = "F" THEN AsFloat[v] ELSE v

(* Mutant: the value goes to the same place of the first chunk.            *)
SetAtFirst(c, idx, v) ==
    [c EXCEPT !.chunks[1] =
        IF @ = << >> THEN << Narrowed(c, v) >> ELSE [@ EXCEPT ![Within(idx)] = Narrowed(c, v)]]

SetAt(c, idx, v) ==
    [c EXCEPT !.chunks[ChunkOf(idx)] =
        IF @ = << >> THEN << Narrowed(c, v) >> ELSE [@ EXCEPT ![Within(idx)] = Narrowed(c, v)]]

(* How many of the first size elements are in chunk q.                     *)
Share(size, q) ==
    IF q < ChunkOf(size) THEN ChunkSize ELSE IF q = ChunkOf(size) THEN Within(size) - 1 ELSE 0

(* Mutant: an element that starts a chunk is not written.                  *)
DeserializedShort(c) ==
    [c EXCEPT !.chunks =
        [q \in 1..(ChunkOf(c.size) - 1) |->
            [e \in 1..ChunkSize |-> Get(c, (q - 1) * ChunkSize + e - 1)]]]

(* What the constructor from a Deserializer makes of what serialize wrote: *)
(* the size_ elements, pushed back one after the other into no chunk.      *)
Deserialized(c) ==
    [c EXCEPT !.chunks =
        [q \in 1..(IF Within(c.size) = 1 THEN ChunkOf(c.size) - 1 ELSE ChunkOf(c.size)) |->
            [e \in 1..Share(c.size, q) |-> Get(c, (q - 1) * ChunkSize + e - 1)]]]

(* serialize reads every element, and a string through its pointer.        *)
Serializable(c) ==
    \A idx \in 0..(c.size - 1) :
        Readable(c, idx) /\ (c.type = "S" => Get(c, idx) # Null)

(* The chunks cut one sequence of size elements: all are full but the last.*)
WellChunked(c) ==
    /\ \/ Len(c.chunks) = ChunkOf(c.size)
       \/ Len(c.chunks) = ChunkOf(c.size) - 1 /\ Within(c.size) = 1
    /\ \A q \in DOMAIN c.chunks : Len(c.chunks[q]) = Share(c.size, q)
=============================================================================
