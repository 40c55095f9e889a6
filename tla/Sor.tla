-------------------------------- MODULE Sor --------------------------------
(***************************************************************************)
(* The reader of .sor files, class SOR (src/src/dataframe/sorer.h).        *)
(* getSchema infers the types of the columns from the first lines of a     *)
(* part of the file; setDataFrame does the same and then reads the part    *)
(* again into a frame.  The types stay in the reader between calls.        *)
(*                                                                         *)
(* A line is the sequence of its fields, and a field is what the code can  *)
(* tell apart in one.  Every field ends with '>', as parse_field_ assumes. *)
(***************************************************************************)
EXTENDS Integers, Sequences, FiniteSets, FiniteSetsExt

CONSTANTS
    Files,       \* the files, each a sequence of lines
    SampleRows,  \* the lines types are inferred from (500 in the code)
    Parts,       \* the arguments from and len of a call
    MaxCalls     \* bound: calls of getSchema and setDataFrame

(* "sign" is a + or - and nothing else, "fine" a decimal number that no    *)
(* float is, "words" has a space and no quotes, "nested" begins with       *)
(* another '<'.                                                            *)
Fields == {"missing", "bit", "int", "sign", "float", "fine", "text", "words", "nested"}

ASSUME FilesTyped == Files \subseteq Seq(Seq(Fields))
ASSUME SampleTyped == SampleRows \in Nat
ASSUME PartsTyped == Parts \subseteq [from : Nat, len : Nat]
ASSUME CallsTyped == MaxCalls \in Nat

VARIABLES
    file,     \* the file
    up,       \* has the process not died
    calls,    \* calls so far
    pc,       \* "idle", "infer" (for getSchema or setDataFrame) or "fill"
    part,     \* from and len of the call
    setting,  \* is the call setDataFrame
    line,     \* the line fgets reads next
    bytes,    \* total_bytes
    count,    \* row_count
    cols,     \* the types of cols_
    df,       \* the rows of the frame
    row,      \* the Row, as far as it is filled
    sampled   \* ghost: the lines the types were inferred from

vars == <<file, up, calls, pc, part, setting, line, bytes, count, cols, df, row, sampled>>

----------------------------------------------------------------------------
Types == {"B", "I", "F", "S"}

(* typeToEnum.                                                             *)
Rank == [B |-> 0, I |-> 1, F |-> 2, S |-> 3]

(* parse_field_: without quotes only the first word is kept.               *)
Parsed(f) == IF f = "words" THEN "word" ELSE f

(* is_int and is_float: a sign with no digit is an int, and an int a float. *)
IsInt(f)   == f \in {"bit", "int", "sign"}
IsFloat(f) == IsInt(f) \/ f \in {"float", "fine"}

(* inferred_type.                                                          *)
Inferred(f) ==
    IF Parsed(f) \in {"missing", "bit"} THEN "B"
    ELSE IF IsInt(Parsed(f)) THEN "I"
    ELSE IF IsFloat(Parsed(f)) THEN "F" ELSE "S"

(* Mutant: the type of the last line wins.                                 *)
LatestType(s, t) == t

HigherType(s, t) == IF Rank[t] > Rank[s] THEN t ELSE s

(* The body of the loop over the fields in infer_columns_: a new column is *)
(* one of booleans, and the type of a column only rises.                   *)
Raised(cs, fields) ==
    [i \in 1 .. Max({Len(cs), Len(fields)}) |->
        LET old == IF i <= Len(cs) THEN cs[i] ELSE "B" IN
        IF i <= Len(fields) THEN HigherType(old, Inferred(fields[i])) ELSE old]

LineBytes(l) == Len(l) + 1

(* The byte a line starts at.                                              *)
Offset(k) == LET off[i \in 1 .. Len(file) + 1] ==
                     IF i = 1 THEN 0 ELSE off[i - 1] + LineBytes(file[i - 1])
             IN  off[k]

(* parse_field_ ends the process: affirm(false, "Multiple opening <").     *)
Malformed == \E i \in DOMAIN file[line] : file[line][i] = "nested"

(* seek_: the rest of the line before the byte from is thrown away.        *)
FirstLine(from) ==
    Min({k \in 1 .. Len(file) + 1 : Offset(k) >= from \/ k = Len(file) + 1})

(* Mutant: the line in which the part ends is read, too.                   *)
FitsLoosely == line <= Len(file) /\ bytes + LineBytes(file[line]) <= part.len

(* fgets finds a line, and the part does not end in it or with it.         *)
Fits == line <= Len(file) /\ bytes + LineBytes(file[line]) < part.len

NextLine ==
    /\ line' = line + 1
    /\ bytes' = bytes + LineBytes(file[line])

Init ==
    /\ file \in Files
    /\ up = TRUE /\ calls = 0
    /\ pc = "idle" /\ setting = FALSE
    /\ part \in Parts
    /\ line = 1 /\ bytes = 0 /\ count = 0
    /\ cols = << >> /\ df = << >> /\ row = << >>
    /\ sampled = {}

Die ==
    /\ up' = FALSE
    /\ UNCHANGED <<file, calls, pc, part, setting, line, bytes, count, cols, df, row, sampled>>

----------------------------------------------------------------------------
(* getSchema or, if set, setDataFrame is called.                           *)
Begin(p, set) ==
    /\ up /\ pc = "idle" /\ calls < MaxCalls
    /\ calls' = calls + 1
    /\ part' = p
    /\ setting' = set
    /\ pc' = "infer"
    /\ line' = FirstLine(p.from)
    /\ bytes' = 0
    /\ count' = 0
    /\ UNCHANGED <<file, up, cols, df, row, sampled>>

(* infer_columns_: one line.                                               *)
InferLine ==
    /\ up /\ pc = "infer"
    /\ Fits /\ count < SampleRows
    /\ ~Malformed
    /\ cols' = Raised(cols, file[line])
    /\ sampled' = sampled \cup {line}
    /\ count' = count + 1
    /\ NextLine
    /\ UNCHANGED <<file, up, calls, pc, part, setting, df, row>>

InferDies ==
    /\ up /\ pc = "infer"
    /\ Fits /\ count < SampleRows
    /\ Malformed
    /\ Die

(* Mutant: setDataFrame goes on from where the inference stopped.          *)
InferEndsUnsought ==
    /\ up /\ pc = "infer"
    /\ ~Fits \/ count >= SampleRows
    /\ pc' = IF setting THEN "fill" ELSE "idle"
    /\ bytes' = 0
    /\ df' = IF setting THEN << >> ELSE df
    /\ row' = << >>
    /\ UNCHANGED <<file, up, calls, part, setting, line, count, cols, sampled>>

(* The types are there; setDataFrame makes the frame and seeks back.       *)
InferEnds ==
    /\ up /\ pc = "infer"
    /\ ~Fits \/ count >= SampleRows
    /\ pc' = IF setting THEN "fill" ELSE "idle"
    /\ line' = FirstLine(part.from)
    /\ bytes' = 0
    /\ df' = IF setting THEN << >> ELSE df
    /\ row' = << >>
    /\ UNCHANGED <<file, up, calls, part, setting, count, cols, sampled>>

(* The column whose field is next, and whether the line has one for it.    *)
Column == Len(row) + 1
Ended  == Column > Len(file[line])
Type   == cols[Column]

(* Mutant: the conversions of the fields are ifs without else, too.        *)
FieldIsFatalMore ==
    IF Ended THEN Type \in {"I", "F"}
             ELSE file[line][Column] = "missing" \/ Type \in {"I", "F"}

(* A line that ends early gives an I or F column its 0 and then, in the    *)
(* else that belongs to B alone, a String, on which Row::set asserts.      *)
(* atoi, atof and strlen do not take the nullptr of a missing field.       *)
FieldIsFatal ==
    IF Ended THEN Type \in {"I", "F"}
             ELSE file[line][Column] = "missing"

(* setDataFrame: one turn of the loop over the columns.                    *)
FillField ==
    /\ up /\ pc = "fill" /\ Fits
    /\ ~Malformed
    /\ Len(row) < Len(cols)
    /\ ~FieldIsFatal
    /\ row' = Append(row, [as |-> Type,
                           of |-> IF Ended THEN "none" ELSE Parsed(file[line][Column])])
    /\ UNCHANGED <<file, up, calls, pc, part, setting, line, bytes, count, cols, df, sampled>>

FillDies ==
    /\ up /\ pc = "fill" /\ Fits
    /\ Malformed \/ (Len(row) < Len(cols) /\ FieldIsFatal)
    /\ Die

(* add_row; further fields of the line are dropped.                        *)
AddRow ==
    /\ up /\ pc = "fill" /\ Fits
    /\ Len(row) = Len(cols)
    /\ ~Malformed
    /\ df' = Append(df, row)
    /\ row' = << >>
    /\ NextLine
    /\ UNCHANGED <<file, up, calls, pc, part, setting, count, cols, sampled>>

FillEnds ==
    /\ up /\ pc = "fill" /\ ~Fits
    /\ pc' = "idle"
    /\ UNCHANGED <<file, up, calls, part, setting, line, bytes, count, cols, df, row, sampled>>

Call  == \E p \in Parts, set \in BOOLEAN : Begin(p, set)
Infer == InferLine \/ InferDies \/ InferEnds
Fill  == FillField \/ FillDies \/ AddRow \/ FillEnds

Next == Call \/ Infer \/ Fill

Spec == Init /\ [][Next]_vars

----------------------------------------------------------------------------
Cells == [as : Types, of : Fields \cup {"word", "none"}]

(* Every variable has its type; the part is not overread, and a Row has no *)
(* more fields than there are columns.                                     *)
TypeOK ==
    /\ file \in Files
    /\ up \in BOOLEAN /\ setting \in BOOLEAN
    /\ calls \in 0 .. MaxCalls
    /\ pc \in {"idle", "infer", "fill"}
    /\ part \in Parts
    /\ line \in 1 .. Len(file) + 1
    /\ bytes \in Nat /\ (bytes = 0 \/ bytes < part.len)
    /\ count \in 0 .. SampleRows
    /\ cols \in Seq(Types)
    /\ df \in Seq(Seq(Cells))
    /\ row \in Seq(Cells) /\ Len(row) <= Len(cols)
    /\ sampled \subseteq DOMAIN file

(* The types of all columns, taken over the sampled lines that have them.  *)
TypesSeen(j) == {Inferred(file[n][j]) : n \in {m \in sampled : j <= Len(file[m])}}

(* The types are the lowest that take in what was sampled, whichever calls *)
(* sampled it: no line lowers a type again, no shorter line drops a column *)
(* and no type is raised further than a field asked for.                   *)
TypesAreTheJoin ==
    /\ Len(cols) = Max({0} \cup {Len(file[n]) : n \in sampled})
    /\ \A j \in DOMAIN cols :
          /\ cols[j] \in TypesSeen(j)
          /\ \A t \in TypesSeen(j) : Rank[t] <= Rank[cols[j]]

(* The frame is the one the present or last call makes.                    *)
FrameIsCurrent == pc = "fill" \/ (pc = "idle" /\ setting /\ calls > 0)
LineOf(r) == FirstLine(part.from) + r - 1
FieldAt(n, j) == IF j > Len(file[n]) THEN "none" ELSE Parsed(file[n][j])

(* Row after row, the frame has the lines of the part that end before its  *)
(* last byte, each in full width: both passes agree on where a part begins *)
(* and ends, and one line's fields never get into the row of another.      *)
FrameIsThePart ==
    FrameIsCurrent =>
        /\ \A r \in DOMAIN df :
              df[r] = [j \in DOMAIN cols |-> [as |-> cols[j], of |-> FieldAt(LineOf(r), j)]]
        /\ pc = "idle" =>
              Len(df) = Cardinality({n \in LineOf(1) .. Len(file) :
                                        Offset(n + 1) - Offset(LineOf(1)) < part.len})

(* A field of a sampled line that stands for a value of its type is not    *)
(* narrowed by the conversion to the type of its column.  Past the sample  *)
(* it may be: then atoi and atof return 0 for a text.                      *)
SampledIsKept ==
    FrameIsCurrent =>
        \A r \in DOMAIN df : \A j \in DOMAIN df[r] :
            /\ LineOf(r) \in sampled
            /\ df[r][j].of \in {"bit", "int", "float", "text"}
            => Rank[Inferred(df[r][j].of)] <= Rank[df[r][j].as]

(* What the code cannot read: a second '<', a missing field, or a line too *)
(* short for a column of numbers.                                          *)
Unreadable(n) ==
    \/ \E j \in DOMAIN file[n] : file[n][j] \in {"nested", "missing"}
    \/ \E j \in Len(file[n]) + 1 .. Len(cols) : cols[j] \in {"I", "F"}

(* The reader dies on nothing else, whatever was read before and however   *)
(* often: more fields than columns, types from another part and lines past *)
(* the sample do not matter.                                               *)
DiesOnlyOnUnreadable == ~up => Unreadable(line)
=============================================================================
