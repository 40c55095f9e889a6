----------------------------- MODULE SorProofs -----------------------------
(***************************************************************************)
(* Theorems about Sor, for any files, sample size, parts and number of     *)
(* calls: the types are the lowest that take in the sample, the frame has  *)
(* the lines of the part, and the reader dies on nothing else than what it *)
(* cannot read.                                                            *)
(***************************************************************************)
EXTENDS Sor, FiniteSetTheorems, TLAPS

(* Induction over numbers, in the form that the facts below need.          *)
LEMMA Least ==
    ASSUME NEW T \in SUBSET Nat, T # {}
    PROVE  \E m \in T : \A n \in T : m <= n
<1>1. \E x \in T : \A y \in T : ~(<<y, x>> \in OpToRel(<, Nat))
  BY NatLessThanWellFounded, WFMin
<1>2. \A x, y \in Nat : <<y, x>> \in OpToRel(<, Nat) <=> y < x
  BY DEF OpToRel
<1>3. \E x \in T : \A y \in T : ~(y < x)
  BY <1>1, <1>2, Zenon
<1> QED
  BY <1>3

----------------------------------------------------------------------------
LEMMA FileTypes ==
    ASSUME file \in Files
    PROVE  /\ file \in Seq(Seq(Fields)) /\ Len(file) \in Nat /\ DOMAIN file = 1 .. Len(file)
           /\ \A n \in DOMAIN file :
                 /\ file[n] \in Seq(Fields) /\ Len(file[n]) \in Nat
                 /\ DOMAIN file[n] = 1 .. Len(file[n])
                 /\ \A j \in DOMAIN file[n] : file[n][j] \in Fields
                 /\ LineBytes(file[n]) \in Nat \ {0}
<1>1. file \in Seq(Seq(Fields))
  BY FilesTyped
<1>2. \A n \in DOMAIN file : file[n] \in Seq(Fields)
  BY <1>1
<1> QED
  BY <1>1, <1>2 DEF LineBytes

(* seek_ finds a line, or the end of the file.                             *)
LEMMA FirstLineTyped ==
    ASSUME file \in Files, NEW from
    PROVE  FirstLine(from) \in 1 .. Len(file) + 1
<1> DEFINE S == {k \in 1 .. Len(file) + 1 : Offset(k) >= from \/ k = Len(file) + 1}
<1>1. Len(file) \in Nat
  BY FileTypes
<1>2. S \in SUBSET Nat /\ Len(file) + 1 \in S
  BY <1>1
<1>3. \E m \in S : \A n \in S : m <= n
  BY <1>2, Least
<1> HIDE DEF S
<1>4. Min(S) \in S
  BY <1>3 DEF Min
<1> QED
  BY <1>4 DEF FirstLine, S

LEMMA HigherTypes ==
    ASSUME NEW s \in Types, NEW t \in Types
    PROVE  /\ HigherType(s, t) \in {s, t}
           /\ Rank[HigherType(s, t)] >= Rank[s] /\ Rank[HigherType(s, t)] >= Rank[t]
           /\ s = "B" => HigherType(s, t) = t
BY DEF HigherType, Rank, Types

LEMMA InferredTyped ==
    ASSUME NEW f
    PROVE  Inferred(f) \in Types
BY DEF Inferred, Types

(* How wide the columns get and what becomes of one.                       *)
LEMMA RaisedIs ==
    ASSUME NEW cs \in Seq(Types), NEW fields \in Seq(Fields)
    PROVE  LET new == Raised(cs, fields) IN
           /\ new \in Seq(Types)
           /\ Len(new) \in {Len(cs), Len(fields)} /\ Len(new) >= Len(cs) /\ Len(new) >= Len(fields)
           /\ \A i \in 1 .. Len(new) : new[i] =
                 LET old == IF i <= Len(cs) THEN cs[i] ELSE "B" IN
                 IF i <= Len(fields) THEN HigherType(old, Inferred(fields[i])) ELSE old
<1> DEFINE m == Max({Len(cs), Len(fields)})
           At(i) == LET old == IF i <= Len(cs) THEN cs[i] ELSE "B" IN
                    IF i <= Len(fields) THEN HigherType(old, Inferred(fields[i])) ELSE old
<1>1. Len(cs) \in Nat /\ Len(fields) \in Nat
  OBVIOUS
<1>2. m \in {Len(cs), Len(fields)} /\ m >= Len(cs) /\ m >= Len(fields) /\ m \in Nat
  BY <1>1 DEF Max
<1>3. ASSUME NEW i \in 1 .. m PROVE At(i) \in Types
  <2> DEFINE old == IF i <= Len(cs) THEN cs[i] ELSE "B"
  <2>1. old \in Types
    BY <1>1, <1>2 DEF Types
  <2>2. i <= Len(fields) => HigherType(old, Inferred(fields[i])) \in Types
    BY <2>1, HigherTypes, InferredTyped
  <2> QED
    BY <2>1, <2>2
<1>4. Raised(cs, fields) = [i \in 1 .. m |-> At(i)]
  BY DEF Raised
<1> HIDE DEF m, At
<1>5. Raised(cs, fields) \in [1 .. m -> Types]
  BY <1>3, <1>4
<1>6. Raised(cs, fields) \in Seq(Types) /\ Len(Raised(cs, fields)) = m
  BY <1>2, <1>5
<1>7. \A i \in 1 .. m : Raised(cs, fields)[i] = At(i)
  BY <1>4
<1> QED
  BY <1>2, <1>6, <1>7 DEF At

----------------------------------------------------------------------------
LEMMA TypedInit == Init => TypeOK
<1> SUFFICES ASSUME Init PROVE TypeOK
  OBVIOUS
<1>1. Len(file) \in Nat
  BY FileTypes DEF Init
<1>2. 1 \in 1 .. Len(file) + 1 /\ 0 \in 0 .. SampleRows /\ 0 \in 0 .. MaxCalls
  BY <1>1, SampleTyped, CallsTyped
<1>3. << >> \in Seq(Types) /\ << >> \in Seq(Seq(Cells)) /\ << >> \in Seq(Cells) /\ Len(<< >>) <= Len(<< >>)
  OBVIOUS
<1>4. /\ file \in Files /\ up = TRUE /\ calls = 0 /\ pc = "idle" /\ setting = FALSE /\ part \in Parts
      /\ line = 1 /\ bytes = 0 /\ count = 0 /\ cols = << >> /\ df = << >> /\ row = << >>
      /\ sampled = {}
  BY DEF Init
<1> QED
  BY <1>2, <1>3, <1>4 DEF TypeOK

LEMMA TypedNext == TypeOK /\ [Next]_vars => TypeOK'
<1> SUFFICES ASSUME TypeOK, [Next]_vars PROVE TypeOK'
  OBVIOUS
<1>0. /\ Len(file) \in Nat /\ DOMAIN file = 1 .. Len(file) /\ line \in 1 .. Len(file) + 1
      /\ \A n \in 1 .. Len(file) : /\ file[n] \in Seq(Fields) /\ LineBytes(file[n]) \in Nat \ {0}
      /\ bytes \in Nat /\ cols \in Seq(Types) /\ row \in Seq(Cells) /\ df \in Seq(Seq(Cells))
      /\ part.len \in Nat /\ SampleRows \in Nat /\ MaxCalls \in Nat
      /\ Len(row) \in Nat /\ Len(cols) \in Nat
  <2>1. /\ Len(file) \in Nat /\ DOMAIN file = 1 .. Len(file)
        /\ \A n \in 1 .. Len(file) : /\ file[n] \in Seq(Fields) /\ LineBytes(file[n]) \in Nat \ {0}
    BY FileTypes DEF TypeOK
  <2>2. part.len \in Nat
    BY PartsTyped DEF TypeOK
  <2>3. /\ line \in 1 .. Len(file) + 1 /\ bytes \in Nat /\ cols \in Seq(Types)
        /\ row \in Seq(Cells) /\ df \in Seq(Seq(Cells))
    BY DEF TypeOK
  <2> QED
    BY <2>1, <2>2, <2>3, SampleTyped, CallsTyped
<1>1. ASSUME NEW p \in Parts, NEW set \in BOOLEAN, Begin(p, set) PROVE TypeOK'
  <2>1. FirstLine(p.from) \in 1 .. Len(file) + 1
    BY FirstLineTyped DEF TypeOK
  <2> QED
    BY <1>0, <1>1, <2>1 DEF Begin, TypeOK
<1>2. ASSUME Fits, NextLine PROVE /\ line' \in 1 .. Len(file) + 1 /\ bytes' \in Nat
                                  /\ bytes' < part.len /\ line \in 1 .. Len(file)
  BY <1>0, <1>2 DEF Fits, NextLine
<1>3. CASE InferLine
  <2>1. Fits /\ NextLine /\ count < SampleRows /\ count' = count + 1
    BY <1>3 DEF InferLine
  <2>2. cols' \in Seq(Types) /\ Len(cols') >= Len(cols) /\ Len(cols') \in Nat
    BY <1>0, <1>2, <1>3, <2>1, RaisedIs DEF InferLine
  <2>3. Len(row) <= Len(cols') /\ count' \in 0 .. SampleRows
    BY <1>0, <2>1, <2>2 DEF TypeOK
  <2> QED
    BY <1>0, <1>2, <1>3, <2>1, <2>2, <2>3 DEF InferLine, TypeOK
<1>4. CASE InferEnds
  <2>1. FirstLine(part.from) \in 1 .. Len(file) + 1
    BY FirstLineTyped DEF TypeOK
  <2> QED
    BY <1>0, <1>4, <2>1 DEF InferEnds, TypeOK
<1>5. CASE FillField
  <2>1. /\ Fits /\ Len(row) < Len(cols)
        /\ row' = Append(row, [as |-> Type,
                               of |-> IF Ended THEN "none" ELSE Parsed(file[line][Column])])
    BY <1>5 DEF FillField
  <2>2. Type \in Types
    BY <1>0, <2>1 DEF Type, Column
  <2>3. (IF Ended THEN "none" ELSE Parsed(file[line][Column])) \in Fields \cup {"word", "none"}
    <3>1. line \in 1 .. Len(file)
      BY <1>0, <2>1 DEF Fits
    <3>2. ~Ended => file[line][Column] \in Fields
      BY <1>0, <3>1 DEF Ended, Column
    <3> QED
      BY <3>2 DEF Parsed
  <2>4. row' \in Seq(Cells) /\ Len(row') = Len(row) + 1
    BY <1>0, <2>1, <2>2, <2>3 DEF Cells
  <2> QED
    BY <1>0, <1>5, <2>1, <2>4 DEF FillField, TypeOK
<1>6. CASE AddRow
  <2>1. /\ Fits /\ NextLine /\ df' = Append(df, row) /\ row' = << >>
        /\ UNCHANGED <<file, up, calls, pc, part, setting, count, cols, sampled>>
    BY <1>6 DEF AddRow
  <2>2. df' \in Seq(Seq(Cells)) /\ row' \in Seq(Cells) /\ Len(row') <= Len(cols)
    BY <1>0, <2>1
  <2> QED
    BY <1>2, <2>1, <2>2 DEF TypeOK
<1>7. CASE FillEnds
  BY <1>7 DEF FillEnds, TypeOK
<1>8. CASE Die
  BY <1>8 DEF Die, TypeOK
<1>9. CASE UNCHANGED vars
  BY <1>9 DEF vars, TypeOK
<1> QED
  BY <1>1, <1>3, <1>4, <1>5, <1>6, <1>7, <1>8, <1>9
  DEF Next, Call, Infer, Fill, InferDies, FillDies

(* Every variable has its type, whatever is read and however often.        *)
THEOREM TypeCorrect == Spec => []TypeOK
BY TypedInit, TypedNext, PTL DEF Spec

----------------------------------------------------------------------------
(* Dead is dead: what made the line unreadable stays as it was.            *)
LEMMA DeathsNext == TypeOK /\ DiesOnlyOnUnreadable /\ [Next]_vars => DiesOnlyOnUnreadable'
<1> SUFFICES ASSUME TypeOK, DiesOnlyOnUnreadable, [Next]_vars, ~up' PROVE Unreadable(line)'
  BY DEF DiesOnlyOnUnreadable
<1>0. TypeOK'
  BY TypedNext
<1>1. ASSUME UNCHANGED <<file, line, cols>>, Unreadable(line) PROVE Unreadable(line)'
  BY <1>1 DEF Unreadable
<1>2. CASE ~up
  <2>1. UNCHANGED <<file, line, cols>>
    BY <1>2 DEF Next, Call, Infer, Fill, Begin, InferLine, InferDies, InferEnds, FillField,
                FillDies, AddRow, FillEnds, vars
  <2> QED
    BY <1>1, <1>2, <2>1 DEF DiesOnlyOnUnreadable
<1>3. CASE up
  <2>1. Die /\ Fits /\ (Malformed \/ (Len(row) < Len(cols) /\ FieldIsFatal))
    BY <1>3 DEF Next, Call, Infer, Fill, Begin, InferLine, InferDies, InferEnds, FillField,
                FillDies, AddRow, FillEnds, vars, TypeOK
  <2>2. Malformed => Unreadable(line)
    BY DEF Malformed, Unreadable
  <2>3. ASSUME Len(row) < Len(cols), FieldIsFatal PROVE Unreadable(line)
    <3>1. /\ line \in DOMAIN file /\ Len(file[line]) \in Nat
          /\ DOMAIN file[line] = 1 .. Len(file[line])
          /\ Column \in 1 .. Len(cols) /\ Len(cols) \in Nat
      <4>1. line \in Nat \ {0} /\ Len(row) \in Nat /\ Len(cols) \in Nat
        BY FileTypes DEF TypeOK
      <4>2. line \in DOMAIN file
        BY <2>1, <4>1, FileTypes DEF Fits, TypeOK
      <4> QED
        BY <2>3, <4>1, <4>2, FileTypes DEF Column, TypeOK
    <3>2. CASE Ended
      <4>1. Column \in Len(file[line]) + 1 .. Len(cols) /\ cols[Column] \in {"I", "F"}
        BY <2>3, <3>1, <3>2 DEF Ended, FieldIsFatal, Type
      <4> QED
        BY <4>1 DEF Unreadable
    <3>3. CASE ~Ended
      <4>1. Column \in DOMAIN file[line] /\ file[line][Column] = "missing"
        BY <2>3, <3>1, <3>3 DEF Ended, FieldIsFatal
      <4> QED
        BY <4>1 DEF Unreadable
    <3> QED
      BY <3>2, <3>3
  <2>4. Unreadable(line) /\ UNCHANGED <<file, line, cols>>
    BY <2>1, <2>2, <2>3 DEF Die
  <2> QED
    BY <1>1, <2>4
<1> QED
  BY <1>2, <1>3

(* The reader dies on a second '<', a missing field or a line too short    *)
(* for a column of numbers, and on nothing else.                           *)
THEOREM DeathsExplained == Spec => []DiesOnlyOnUnreadable
<1>1. Init => DiesOnlyOnUnreadable
  BY DEF Init, DiesOnlyOnUnreadable
<1> QED
  BY <1>1, TypedInit, TypedNext, DeathsNext, PTL DEF Spec

----------------------------------------------------------------------------
(* The columns are as many as the widest sampled line has fields, and the  *)
(* type of each is the highest of those its fields ask for.                *)
Widths ==
    /\ \A n \in sampled : Len(file[n]) <= Len(cols)
    /\ Len(cols) = 0 \/ \E n \in sampled : Len(file[n]) = Len(cols)

Highest ==
    \A j \in DOMAIN cols :
        /\ cols[j] \in TypesSeen(j)
        /\ \A t \in TypesSeen(j) : Rank[t] <= Rank[cols[j]]

LEMMA SamplesOnlyInInferLine ==
    ASSUME [Next]_vars
    PROVE  InferLine \/ UNCHANGED <<file, cols, sampled>>
BY DEF Next, Call, Infer, Fill, Begin, InferDies, InferEnds, FillField, FillDies, AddRow, FillEnds,
       Die, vars

LEMMA JoinNext == TypeOK /\ Widths /\ Highest /\ [Next]_vars => (Widths /\ Highest)'
<1> SUFFICES ASSUME TypeOK, Widths, Highest, [Next]_vars PROVE (Widths /\ Highest)'
  OBVIOUS
<1>1. CASE UNCHANGED <<file, cols, sampled>>
  BY <1>1 DEF Widths, Highest, TypesSeen
<1>2. CASE InferLine
  <2> DEFINE fields == file[line]
  <2>1. /\ cols' = Raised(cols, fields) /\ sampled' = sampled \cup {line} /\ file' = file
        /\ line <= Len(file)
    BY <1>2 DEF InferLine, Fits
  <2>2. /\ line \in DOMAIN file /\ sampled \subseteq DOMAIN file
        /\ \A n \in DOMAIN file : file[n] \in Seq(Fields) /\ Len(file[n]) \in Nat
        /\ cols \in Seq(Types) /\ Len(cols) \in Nat
    <3>1. line \in Nat \ {0} /\ DOMAIN file = 1 .. Len(file)
      BY FileTypes DEF TypeOK
    <3> QED
      BY <2>1, <3>1, FileTypes DEF TypeOK
  <2>3. fields \in Seq(Fields)
    BY <2>2
  <2>4. /\ cols' \in Seq(Types) /\ Len(cols') \in {Len(cols), Len(fields)}
        /\ Len(cols') >= Len(cols) /\ Len(cols') >= Len(fields)
        /\ \A i \in 1 .. Len(cols') : cols'[i] =
              LET old == IF i <= Len(cols) THEN cols[i] ELSE "B" IN
              IF i <= Len(fields) THEN HigherType(old, Inferred(fields[i])) ELSE old
    BY <2>1, <2>2, <2>3, RaisedIs
  <2>5. Widths'
    <3>1. \A n \in sampled' : Len(file[n]) <= Len(cols')
      BY <2>1, <2>2, <2>4 DEF Widths
    <3>2. Len(cols') = 0 \/ \E n \in sampled' : Len(file[n]) = Len(cols')
      BY <2>1, <2>4 DEF Widths
    <3> QED
      BY <2>1, <3>1, <3>2 DEF Widths
  <2>6. ASSUME NEW j \in 1 .. Len(cols')
        PROVE  /\ cols'[j] \in TypesSeen(j)'
               /\ \A t \in TypesSeen(j)' : Rank[t] <= Rank[cols'[j]]
    <3> DEFINE t0 == Inferred(fields[j])
    <3>1. TypesSeen(j)' = TypesSeen(j) \cup (IF j <= Len(fields) THEN {t0} ELSE {})
      BY <2>1 DEF TypesSeen
    <3>2. t0 \in Types /\ TypesSeen(j) \subseteq Types /\ \A t \in Types : Rank[t] \in Nat
      BY InferredTyped DEF TypesSeen, Types, Rank
    <3> HIDE DEF t0, fields
    <3>3. CASE j <= Len(cols)
      <4>1. cols[j] \in Types /\ cols[j] \in TypesSeen(j) /\ \A t \in TypesSeen(j) : Rank[t] <= Rank[cols[j]]
        BY <2>2, <3>3 DEF Highest
      <4>2. cols'[j] = IF j <= Len(fields) THEN HigherType(cols[j], t0) ELSE cols[j]
        BY <2>4, <3>3 DEF t0
      <4>3. CASE j <= Len(fields)
        <5>1. /\ cols'[j] \in {cols[j], t0} /\ Rank[cols'[j]] >= Rank[cols[j]]
              /\ Rank[cols'[j]] >= Rank[t0] /\ cols'[j] \in Types
          BY <3>2, <4>1, <4>2, <4>3, HigherTypes
        <5>2. \A t \in TypesSeen(j) \cup {t0} :
                  Rank[t] \in Nat /\ Rank[cols[j]] \in Nat /\ Rank[cols'[j]] \in Nat
          BY <3>2, <4>1, <5>1
        <5> QED
          BY <3>1, <4>1, <4>3, <5>1, <5>2
      <4>4. CASE ~(j <= Len(fields))
        BY <3>1, <4>1, <4>2, <4>4
      <4> QED
        BY <4>3, <4>4
    <3>4. CASE ~(j <= Len(cols))
      <4>1. j <= Len(fields)
        BY <2>2, <2>3, <2>4, <3>4
      <4>2. cols'[j] = t0
        <5>1. cols'[j] = HigherType("B", t0)
          BY <2>4, <3>4, <4>1 DEF t0
        <5> QED
          BY <3>2, <5>1, HigherTypes DEF Types
      <4>3. TypesSeen(j) = {}
        BY <2>2, <3>4 DEF TypesSeen, Widths
      <4> QED
        BY <3>1, <3>2, <4>1, <4>2, <4>3
    <3> QED
      BY <3>3, <3>4
  <2>7. DOMAIN cols' = 1 .. Len(cols')
    BY <2>4
  <2>8. Highest'
    BY <2>6, <2>7 DEF Highest
  <2> QED
    BY <2>5, <2>8
<1> QED
  BY <1>1, <1>2, SamplesOnlyInInferLine

LEMMA JoinIs ==
    ASSUME TypeOK, Widths, Highest
    PROVE  TypesAreTheJoin
<1> DEFINE S == {0} \cup {Len(file[n]) : n \in sampled}
<1>1. Len(cols) \in Nat /\ \A n \in sampled : Len(file[n]) \in Nat
  BY FileTypes DEF TypeOK
<1>2. Len(cols) \in S /\ \A y \in S : Len(cols) >= y /\ y \in Nat
  BY <1>1 DEF Widths
<1>3. Max(S) \in S /\ \A y \in S : Max(S) >= y
  <2> HIDE DEF S
  <2> QED
    BY <1>2 DEF Max
<1>4. Len(cols) = Max(S)
  BY <1>1, <1>2, <1>3
<1> QED
  BY <1>4 DEF TypesAreTheJoin, Highest

LEMMA JoinAlways == Spec => [](TypeOK /\ Widths /\ Highest)
<1>1. Init => Widths /\ Highest
  BY DEF Init, Widths, Highest
<1> QED
  BY <1>1, TypedInit, TypedNext, JoinNext, PTL DEF Spec

(* The types take in all that was sampled, and nothing more, for any files *)
(* and any sequence of calls.                                              *)
THEOREM TypesJoined == Spec => []TypesAreTheJoin
BY JoinAlways, JoinIs, PTL

----------------------------------------------------------------------------
(* The bytes of lines add up: Offset is defined for every line.            *)
LEMMA SumsExist ==
    ASSUME NEW N \in Nat, NEW g \in [1 .. N -> Nat]
    PROVE  \E f \in [1 .. N + 1 -> Nat] :
              f = [i \in 1 .. N + 1 |-> IF i = 1 THEN 0 ELSE f[i - 1] + g[i - 1]]
<1> DEFINE Sums(m, f) == f = [i \in 1 .. m + 1 |-> IF i = 1 THEN 0 ELSE f[i - 1] + g[i - 1]]
           T == {m \in 0 .. N : ~\E f \in [1 .. m + 1 -> Nat] : Sums(m, f)}
<1>1. T \in SUBSET Nat
  OBVIOUS
<1>2. ASSUME NEW m \in T, \A n \in T : m <= n PROVE FALSE
  <2>1. m \in Nat /\ m <= N
    OBVIOUS
  <2>2. CASE m = 0
    <3> DEFINE f == [i \in 1 .. 1 |-> 0]
    <3>1. f \in [1 .. 1 -> Nat] /\ f = [i \in 1 .. 1 |-> IF i = 1 THEN 0 ELSE f[i - 1] + g[i - 1]]
      OBVIOUS
    <3>2. m + 1 = 1
      BY <2>2
    <3> QED
      BY <3>1, <3>2
  <2>3. CASE m # 0
    <3>1. m - 1 \in 0 .. N /\ ~(m <= m - 1) /\ m - 1 + 1 = m /\ m \in 1 .. N
      BY <2>1, <2>3
    <3>2. m - 1 \notin T
      BY <1>2, <3>1
    <3>3. PICK f \in [1 .. m - 1 + 1 -> Nat] : Sums(m - 1, f)
      BY <3>1, <3>2
    <3>4. /\ f \in [1 .. m -> Nat]
          /\ f = [i \in 1 .. m |-> IF i = 1 THEN 0 ELSE f[i - 1] + g[i - 1]]
      BY <3>1, <3>3
    <3> DEFINE h == [i \in 1 .. m + 1 |-> IF i = m + 1 THEN f[m] + g[m] ELSE f[i]]
    <3>5. h \in [1 .. m + 1 -> Nat]
      BY <3>1, <3>4
    <3>6. h = [i \in 1 .. m + 1 |-> IF i = 1 THEN 0 ELSE h[i - 1] + g[i - 1]]
      <4>1. \A i \in 1 .. m + 1 :
                (IF i = m + 1 THEN f[m] + g[m] ELSE f[i]) = IF i = 1 THEN 0 ELSE h[i - 1] + g[i - 1]
        <5> TAKE i \in 1 .. m + 1
        <5>1. CASE i = m + 1
          <6>1. i # 1 /\ i - 1 = m /\ m \in 1 .. m + 1 /\ m # m + 1
            BY <3>1, <5>1
          <6>2. h[m] = f[m]
            BY <6>1
          <6> QED
            BY <5>1, <6>1, <6>2
        <5>2. CASE i # m + 1
          <6>1. i \in 1 .. m
            BY <3>1, <5>2
          <6>2. i # 1 => i - 1 \in 1 .. m + 1 /\ i - 1 # m + 1
            BY <3>1, <6>1
          <6>3. i # 1 => h[i - 1] = f[i - 1]
            BY <6>2
          <6>4. f[i] = IF i = 1 THEN 0 ELSE f[i - 1] + g[i - 1]
            BY <3>4, <6>1
          <6> QED
            BY <5>2, <6>3, <6>4
        <5> QED
          BY <5>1, <5>2
      <4> QED
        BY <4>1
    <3> HIDE DEF h
    <3> QED
      BY <3>5, <3>6
  <2> QED
    BY <2>2, <2>3
<1>3. T = {}
  BY <1>1, <1>2, Least
<1>4. N \in 0 .. N
  OBVIOUS
<1>5. \E f \in [1 .. N + 1 -> Nat] : Sums(N, f)
  BY <1>3, <1>4
<1> QED
  BY <1>5

LEMMA Offsets ==
    ASSUME file \in Files
    PROVE  /\ \A k \in 1 .. Len(file) : Offset(k + 1) = Offset(k) + LineBytes(file[k])
           /\ \A k \in 1 .. Len(file) + 1 : Offset(k) \in Nat
<1> DEFINE N == Len(file)
           g == [k \in 1 .. N |-> LineBytes(file[k])]
           Off(f) == f = [i \in 1 .. N + 1 |-> IF i = 1 THEN 0 ELSE f[i - 1] + LineBytes(file[i - 1])]
           off == CHOOSE f : Off(f)
<1>1. N \in Nat /\ g \in [1 .. N -> Nat]
  BY FileTypes
<1>2. \E f : Off(f)
  <2>1. PICK f \in [1 .. N + 1 -> Nat] : f = [i \in 1 .. N + 1 |-> IF i = 1 THEN 0 ELSE f[i - 1] + g[i - 1]]
    <3> HIDE DEF N, g
    <3> QED
      BY <1>1, SumsExist
  <2>2. \A i \in 1 .. N + 1 : i # 1 => g[i - 1] = LineBytes(file[i - 1])
    <3>1. \A i \in 1 .. N + 1 : i # 1 => i - 1 \in 1 .. N
      BY <1>1
    <3> QED
      BY <3>1
  <2>3. \A i \in 1 .. N + 1 : (IF i = 1 THEN 0 ELSE f[i - 1] + g[i - 1])
                             = (IF i = 1 THEN 0 ELSE f[i - 1] + LineBytes(file[i - 1]))
    BY <2>2
  <2> HIDE DEF g
  <2>4. f = [i \in 1 .. N + 1 |-> IF i = 1 THEN 0 ELSE f[i - 1] + LineBytes(file[i - 1])]
    BY <2>1, <2>3
  <2> QED
    BY <2>4
<1>3. Off(off)
  BY <1>2
<1>4. \A k : Offset(k) = off[k]
  BY DEF Offset
<1> HIDE DEF off
<1>5. \A i \in 1 .. N + 1 : off[i] = IF i = 1 THEN 0 ELSE off[i - 1] + LineBytes(file[i - 1])
  BY <1>3
<1>6. \A k \in 1 .. N : off[k + 1] = off[k] + LineBytes(file[k])
  <2>1. \A k \in 1 .. N : k + 1 \in 1 .. N + 1 /\ k + 1 # 1 /\ (k + 1) - 1 = k
    BY <1>1
  <2> QED
    BY <1>5, <2>1
<1>7. \A k \in 1 .. N + 1 : off[k] \in Nat
  <2> DEFINE T == {k \in 1 .. N + 1 : off[k] \notin Nat}
  <2>1. ASSUME NEW m \in T, \A n \in T : m <= n PROVE FALSE
    <3>1. m \in 1 .. N + 1 /\ off[m] \notin Nat
      OBVIOUS
    <3>2. m # 1
      BY <1>5, <3>1
    <3>3. m - 1 \in 1 .. N + 1 /\ m - 1 \in 1 .. N /\ ~(m <= m - 1)
      BY <1>1, <3>1, <3>2
    <3>4. off[m - 1] \in Nat /\ LineBytes(file[m - 1]) \in Nat
      BY <2>1, <3>3, FileTypes
    <3>5. off[m] = off[m - 1] + LineBytes(file[m - 1])
      BY <1>5, <3>1, <3>2
    <3> QED
      BY <3>1, <3>4, <3>5
  <2>2. T \in SUBSET Nat
    BY <1>1
  <2>3. T = {}
    BY <2>1, <2>2, Least
  <2> QED
    BY <2>3
<1> QED
  BY <1>4, <1>6, <1>7

(* A later line starts at a later byte.                                    *)
LEMMA OffsetsGrow ==
    ASSUME file \in Files, NEW a \in 1 .. Len(file) + 1, NEW b \in 1 .. Len(file) + 1, a <= b
    PROVE  Offset(a) <= Offset(b)
<1> DEFINE N == Len(file)
           T == {k \in 1 .. N + 1 : a <= k /\ ~(Offset(a) <= Offset(k))}
<1>1. N \in Nat /\ \A k \in 1 .. N + 1 : Offset(k) \in Nat
  BY FileTypes, Offsets
<1>2. ASSUME NEW m \in T, \A n \in T : m <= n PROVE FALSE
  <2>1. m \in 1 .. N + 1 /\ a <= m /\ ~(Offset(a) <= Offset(m))
    OBVIOUS
  <2>2. m # a
    BY <1>1, <2>1
  <2>3. m - 1 \in 1 .. N /\ m - 1 \in 1 .. N + 1 /\ a <= m - 1 /\ ~(m <= m - 1) /\ (m - 1) + 1 = m
    BY <1>1, <2>1, <2>2
  <2>4. Offset(a) <= Offset(m - 1)
    BY <1>2, <2>3
  <2>5. LineBytes(file[m - 1]) \in Nat /\ Offset((m - 1) + 1) = Offset(m - 1) + LineBytes(file[m - 1])
    BY <2>3, FileTypes, Offsets
  <2>6. Offset(m) = Offset(m - 1) + LineBytes(file[m - 1])
    BY <2>3, <2>5
  <2>7. Offset(a) \in Nat /\ Offset(m - 1) \in Nat /\ Offset(m) \in Nat
    BY <1>1, <2>3
  <2> QED
    BY <2>1, <2>4, <2>5, <2>6, <2>7
<1>3. T \in SUBSET Nat
  BY <1>1
<1>4. T = {}
  BY <1>2, <1>3, Least
<1> QED
  BY <1>4

----------------------------------------------------------------------------
(* What the frame holds: of a call that is done, the lines of the part; of *)
(* one that is not, those before line, and so much of its row as is filled.*)
RowFor(n) == [j \in DOMAIN cols |-> [as |-> cols[j], of |-> FieldAt(n, j)]]
Inside(n) == Offset(n + 1) - Offset(LineOf(1)) < part.len

RowsAreLines == FrameIsCurrent => \A r \in DOMAIN df : df[r] = RowFor(LineOf(r))

WhileFilling ==
    pc = "fill" =>
        /\ line = LineOf(Len(df) + 1)
        /\ bytes = Offset(line) - Offset(LineOf(1))
        /\ \A n \in LineOf(1) .. line - 1 : Inside(n)
        /\ \A j \in DOMAIN row : row[j] = RowFor(line)[j]

AllAreRead ==
    pc = "idle" /\ FrameIsCurrent =>
        Len(df) = Cardinality({n \in LineOf(1) .. Len(file) : Inside(n)})

LEMMA SamePart ==
    ASSUME UNCHANGED <<file, part, cols>>
    PROVE  /\ \A n : Offset(n)' = Offset(n)
           /\ \A n : LineOf(n)' = LineOf(n)
           /\ \A n : Inside(n)' = Inside(n)
           /\ \A n : RowFor(n)' = RowFor(n)
<1>1. \A n : Offset(n)' = Offset(n)
  BY DEF Offset
<1>2. \A from : FirstLine(from)' = FirstLine(from)
  BY <1>1 DEF FirstLine
<1>3. \A n : LineOf(n)' = LineOf(n)
  BY <1>2 DEF LineOf
<1>4. \A n : Inside(n)' = Inside(n)
  BY <1>1, <1>3 DEF Inside
<1>5. \A n, j : FieldAt(n, j)' = FieldAt(n, j)
  BY DEF FieldAt
<1>6. \A n : RowFor(n)' = RowFor(n)
  BY <1>5 DEF RowFor
<1> QED
  BY <1>1, <1>3, <1>4, <1>6

(* The lines of the part are numbered as the rows are.                     *)
LEMMA LinesOf ==
    ASSUME TypeOK
    PROVE  /\ Len(file) \in Nat /\ Len(df) \in Nat /\ part.len \in Nat
           /\ LineOf(1) \in 1 .. Len(file) + 1
           /\ \A r \in Nat : LineOf(r) = LineOf(1) + r - 1
<1>1. FirstLine(part.from) \in 1 .. Len(file) + 1 /\ Len(file) \in Nat
  BY FirstLineTyped, FileTypes DEF TypeOK
<1>2. Len(df) \in Nat /\ part.len \in Nat
  BY PartsTyped DEF TypeOK
<1>3. FirstLine(part.from) \in Nat
  BY <1>1
<1>4. \A r \in Nat : LineOf(r) = FirstLine(part.from) + r - 1
  BY DEF LineOf
<1>5. LineOf(1) = FirstLine(part.from)
  BY <1>3, <1>4
<1>6. \A r \in Nat : LineOf(r) = LineOf(1) + r - 1
  BY <1>4, <1>5
<1> QED
  BY <1>1, <1>2, <1>5, <1>6

(* The loop ends where the part does: no later line is inside, either.     *)
LEMMA EndOfPart ==
    ASSUME TypeOK, WhileFilling, pc = "fill", ~Fits
    PROVE  Len(df) = Cardinality({n \in LineOf(1) .. Len(file) : Inside(n)})
<1> DEFINE s == LineOf(1)
           S == {n \in s .. Len(file) : Inside(n)}
<1>1. /\ Len(file) \in Nat /\ Len(df) \in Nat /\ part.len \in Nat /\ s \in 1 .. Len(file) + 1
      /\ line = s + Len(df) /\ bytes = Offset(line) - Offset(s) /\ line \in 1 .. Len(file) + 1
      /\ \A n \in s .. line - 1 : Inside(n)
  <2>1. LineOf(Len(df) + 1) = s + (Len(df) + 1) - 1
    BY LinesOf
  <2>2. s \in Nat /\ Len(df) \in Nat
    BY LinesOf
  <2>3. line = s + Len(df)
    BY <2>1, <2>2 DEF WhileFilling
  <2> QED
    BY <2>3, LinesOf DEF WhileFilling, TypeOK
<1>2. \A k \in 1 .. Len(file) + 1 : Offset(k) \in Nat
  BY Offsets DEF TypeOK
<1>3. \A n \in Int : Inside(n) <=> Offset(n + 1) - Offset(s) < part.len
  BY DEF Inside
<1>4. ASSUME NEW n \in line .. Len(file) PROVE ~Inside(n)
  <2>1. line \in 1 .. Len(file) /\ n \in 1 .. Len(file) /\ line + 1 \in 1 .. Len(file) + 1
        /\ n + 1 \in 1 .. Len(file) + 1 /\ line + 1 <= n + 1
    BY <1>1, <1>4
  <2>2. Offset(line + 1) <= Offset(n + 1)
    BY <2>1, OffsetsGrow DEF TypeOK
  <2>3. Offset(line + 1) = Offset(line) + LineBytes(file[line]) /\ LineBytes(file[line]) \in Nat
    BY <2>1, Offsets, FileTypes DEF TypeOK
  <2>4. ~(bytes + LineBytes(file[line]) < part.len)
    BY <2>1 DEF Fits
  <2>5. Offset(line) \in Nat /\ Offset(s) \in Nat /\ Offset(n + 1) \in Nat /\ Offset(line + 1) \in Nat
    BY <1>1, <1>2, <2>1
  <2>6. ~(Offset(n + 1) - Offset(s) < part.len)
    <3>1. bytes = Offset(line) - Offset(s) /\ part.len \in Nat
      BY <1>1
    <3> HIDE DEF s
    <3> DEFINE l == LineBytes(file[line])
               p == part.len
    <3>2. /\ Offset(n + 1) >= Offset(line) + l
          /\ ~(Offset(line) - Offset(s) + l < p)
          /\ p \in Nat /\ l \in Nat
      BY <2>2, <2>3, <2>4, <3>1
    <3> HIDE DEF l, p
    <3>3. ~(Offset(n + 1) - Offset(s) < p)
      BY <2>5, <3>2
    <3> QED
      BY <3>3 DEF p
  <2> QED
    BY <1>3, <2>1, <2>6
<1>5. S = s .. line - 1
  <2> HIDE DEF s
  <2> QED
    BY <1>1, <1>4
<1>6. Cardinality(s .. line - 1) = Len(df)
  <2> HIDE DEF s
  <2>1. s \in Int /\ line - 1 \in Int
    BY <1>1
  <2>2. Cardinality(s .. line - 1) = IF s > line - 1 THEN 0 ELSE line - 1 - s + 1
    BY <2>1, FS_Interval
  <2> QED
    BY <1>1, <2>2
<1> QED
  BY <1>5, <1>6

Filled == RowsAreLines /\ WhileFilling /\ AllAreRead

LEMMA FillFieldKeeps == TypeOK /\ Filled /\ FillField => Filled'
<1> SUFFICES ASSUME TypeOK, Filled, FillField PROVE Filled'
  OBVIOUS
<1>1. /\ pc = "fill" /\ Len(row) < Len(cols)
      /\ row' = Append(row, [as |-> Type,
                             of |-> IF Ended THEN "none" ELSE Parsed(file[line][Column])])
      /\ UNCHANGED <<file, calls, pc, part, setting, line, bytes, cols, df>>
  BY DEF FillField
<1>2. row \in Seq(Cells) /\ cols \in Seq(Types) /\ Len(row) \in Nat /\ Len(cols) \in Nat
  BY DEF TypeOK
<1>3. Column \in DOMAIN cols /\ Column = Len(row) + 1
  BY <1>1, <1>2 DEF Column
<1>4. [as |-> Type, of |-> IF Ended THEN "none" ELSE Parsed(file[line][Column])] = RowFor(line)[Column]
  BY <1>3 DEF Type, Ended, RowFor, FieldAt
<1>5. \A j \in DOMAIN row' : row'[j] = RowFor(line)[j]
  <2>1. \A j \in DOMAIN row : row[j] = RowFor(line)[j]
    BY <1>1 DEF Filled, WhileFilling
  <2> DEFINE c == RowFor(line)[Column]
  <2>2. row' = Append(row, c)
    BY <1>1, <1>4
  <2> HIDE DEF c
  <2>3. DOMAIN row' = 1 .. Len(row) + 1 /\ row'[Len(row) + 1] = c /\ DOMAIN row = 1 .. Len(row)
        /\ \A j \in 1 .. Len(row) : row'[j] = row[j]
    BY <1>2, <2>2
  <2>4. row'[Column] = RowFor(line)[Column]
    BY <1>3, <2>3 DEF c
  <2> QED
    BY <1>2, <1>3, <2>1, <2>3, <2>4
<1>6. /\ FrameIsCurrent' = FrameIsCurrent
      /\ \A n : Offset(n)' = Offset(n) /\ LineOf(n)' = LineOf(n) /\ Inside(n)' = Inside(n)
      /\ \A n : RowFor(n)' = RowFor(n)
  BY <1>1, SamePart DEF FrameIsCurrent
<1>7. RowsAreLines'
  BY <1>1, <1>6 DEF Filled, RowsAreLines
<1>8. WhileFilling'
  BY <1>1, <1>5, <1>6 DEF Filled, WhileFilling
<1>9. AllAreRead'
  BY <1>1 DEF AllAreRead
<1> QED
  BY <1>7, <1>8, <1>9 DEF Filled

LEMMA AddRowKeeps == TypeOK /\ Filled /\ AddRow => Filled'
<1> SUFFICES ASSUME TypeOK, Filled, AddRow PROVE Filled'
  OBVIOUS
<1>1. /\ pc = "fill" /\ Len(row) = Len(cols) /\ Fits
      /\ df' = Append(df, row) /\ row' = << >>
      /\ line' = line + 1 /\ bytes' = bytes + LineBytes(file[line])
      /\ UNCHANGED <<file, calls, pc, part, setting, cols>>
  BY DEF AddRow, NextLine
<1>2. /\ \A n : Offset(n)' = Offset(n)
      /\ \A n : LineOf(n)' = LineOf(n)
      /\ \A n : Inside(n)' = Inside(n)
      /\ \A n : RowFor(n)' = RowFor(n)
  BY <1>1, SamePart
<1>3. /\ df \in Seq(Seq(Cells)) /\ row \in Seq(Cells) /\ cols \in Seq(Types)
      /\ Len(df) \in Nat /\ Len(row) \in Nat /\ Len(cols) \in Nat
  BY DEF TypeOK
<1>4. row = RowFor(line)
  <2>1. \A j \in DOMAIN row : row[j] = RowFor(line)[j]
    BY <1>1 DEF Filled, WhileFilling
  <2>2. DOMAIN row = DOMAIN cols /\ DOMAIN RowFor(line) = DOMAIN cols
    BY <1>1, <1>3 DEF RowFor
  <2>3. RowFor(line) = [j \in DOMAIN row |-> RowFor(line)[j]] /\ row = [j \in DOMAIN row |-> row[j]]
    BY <1>3, <2>2 DEF RowFor
  <2> QED
    BY <2>1, <2>3
<1>5. /\ Len(df') = Len(df) + 1 /\ DOMAIN df' = 1 .. Len(df) + 1 /\ df'[Len(df) + 1] = row
      /\ DOMAIN df = 1 .. Len(df)
      /\ \A r \in 1 .. Len(df) : df'[r] = df[r]
  BY <1>1, <1>3
<1>6. line = LineOf(Len(df) + 1) /\ bytes = Offset(line) - Offset(LineOf(1))
      /\ \A n \in LineOf(1) .. line - 1 : Inside(n)
  BY <1>1 DEF Filled, WhileFilling
<1>7. line \in 1 .. Len(file) /\ LineOf(1) \in 1 .. Len(file) + 1 /\ Len(file) \in Nat
  <2>1. line \in 1 .. Len(file) + 1 /\ line <= Len(file)
    BY <1>1 DEF Fits, TypeOK
  <2>2. LineOf(1) \in 1 .. Len(file) + 1 /\ Len(file) \in Nat
    BY LinesOf
  <2> QED
    BY <2>1, <2>2
<1>8. RowsAreLines'
  <2>1. \A r \in 1 .. Len(df) : df[r] = RowFor(LineOf(r))
    BY <1>1, <1>5 DEF Filled, RowsAreLines, FrameIsCurrent
  <2>2. \A r \in 1 .. Len(df) + 1 : df'[r] = RowFor(LineOf(r))
    <3>1. \A r \in 1 .. Len(df) + 1 : r = Len(df) + 1 \/ r \in 1 .. Len(df)
      BY <1>3
    <3> QED
      BY <1>4, <1>5, <1>6, <2>1, <3>1
  <2> QED
    BY <1>2, <1>5, <2>2 DEF RowsAreLines
<1>9. WhileFilling'
  <2>1. line' = LineOf(Len(df') + 1)
    <3>1. LineOf(Len(df) + 1) = LineOf(1) + (Len(df) + 1) - 1
          /\ LineOf(Len(df) + 2) = LineOf(1) + (Len(df) + 2) - 1
      <4>1. Len(df) + 1 \in Nat /\ Len(df) + 2 \in Nat
        BY <1>3
      <4>2. \A r \in Nat : LineOf(r) = LineOf(1) + r - 1
        BY LinesOf
      <4> QED
        BY <4>1, <4>2
    <3>2. Len(df') + 1 = Len(df) + 2
      BY <1>3, <1>5
    <3>3. LineOf(1) \in Nat
      BY <1>7
    <3>4. line + 1 = LineOf(Len(df) + 2)
      BY <1>3, <1>6, <3>1, <3>3
    <3> QED
      BY <1>1, <3>2, <3>4
  <2>2. Offset(line) \in Nat /\ Offset(LineOf(1)) \in Nat /\ LineBytes(file[line]) \in Nat
        /\ Offset(line + 1) = Offset(line) + LineBytes(file[line])
    <3>1. line \in 1 .. Len(file) + 1 /\ line \in DOMAIN file
      BY <1>7, FileTypes DEF TypeOK
    <3> QED
      BY <1>7, <3>1, Offsets, FileTypes DEF TypeOK
  <2>3. bytes + LineBytes(file[line]) = Offset(line + 1) - Offset(LineOf(1))
    BY <1>6, <2>2
  <2>4. Inside(line)
    BY <1>1, <2>3 DEF Inside, Fits
  <2>5. \A n \in LineOf(1) .. (line + 1) - 1 : Inside(n)
    BY <1>6, <1>7, <2>4
  <2>6. DOMAIN row' = {}
    BY <1>1
  <2>7. /\ LineOf(Len(df) + 1)' = LineOf(Len(df') + 1)
        /\ Offset(line)' = Offset(line')
        /\ Offset(LineOf(1))' = Offset(LineOf(1))
        /\ LineOf(1)' = LineOf(1)
    <3>1. \A from : FirstLine(from)' = FirstLine(from)
      BY <1>1, <1>2 DEF FirstLine
    <3>2. LineOf(Len(df) + 1)' = LineOf(Len(df') + 1)
      BY <1>1, <3>1 DEF LineOf
    <3>3. Offset(line)' = Offset(line')
      BY <1>1 DEF Offset
    <3>4. LineOf(1)' = LineOf(1)
      BY <1>2
    <3>5. Offset(LineOf(1))' = Offset(LineOf(1))
      BY <1>1, <3>1 DEF Offset, LineOf
    <3> QED
      BY <3>2, <3>3, <3>4, <3>5
  <2>8. line' = LineOf(Len(df) + 1)' /\ bytes' = Offset(line)' - Offset(LineOf(1))'
    BY <1>1, <2>1, <2>3, <2>7
  <2>9. \A n \in LineOf(1)' .. line' - 1 : Inside(n)'
    BY <1>1, <1>2, <2>5, <2>7
  <2>10. \A j \in DOMAIN row' : row'[j] = RowFor(line)'[j]
    BY <2>6
  <2> QED
    BY <2>8, <2>9, <2>10 DEF WhileFilling
<1>10. AllAreRead'
  BY <1>1 DEF AllAreRead
<1> QED
  BY <1>8, <1>9, <1>10 DEF Filled

LEMMA InferEndsFills == TypeOK /\ Filled /\ InferEnds => Filled'
<1> SUFFICES ASSUME TypeOK, Filled, InferEnds PROVE Filled'
  OBVIOUS
<1>1. /\ line' = FirstLine(part.from) /\ bytes' = 0 /\ row' = << >>
      /\ df' = IF setting THEN << >> ELSE df
      /\ pc' = IF setting THEN "fill" ELSE "idle"
      /\ UNCHANGED <<file, calls, part, setting, cols>>
  BY DEF InferEnds
<1>2. CASE ~setting
  BY <1>1, <1>2 DEF Filled, RowsAreLines, WhileFilling, AllAreRead, FrameIsCurrent
<1>3. CASE setting
  <2>1. df' = << >> /\ pc' = "fill" /\ Len(df') = 0 /\ DOMAIN df' = {} /\ DOMAIN row' = {}
    BY <1>1, <1>3
  <2>2. /\ LineOf(1) \in 1 .. Len(file) + 1 /\ Len(file) \in Nat
        /\ LineOf(1) = line' /\ LineOf(0 + 1) = line'
    <3>1. FirstLine(part.from) \in Nat
      BY FirstLineTyped, FileTypes DEF TypeOK
    <3> QED
      BY <1>1, <3>1, LinesOf DEF LineOf
  <2>3. /\ LineOf(Len(df) + 1)' = LineOf(Len(df') + 1)
        /\ Offset(line)' = Offset(line')
        /\ Offset(LineOf(1))' = Offset(LineOf(1))
        /\ LineOf(1)' = LineOf(1)
    <3>1. \A n : Offset(n)' = Offset(n)
      BY <1>1, SamePart
    <3>2. \A from : FirstLine(from)' = FirstLine(from)
      BY <1>1, <3>1 DEF FirstLine
    <3> QED
      BY <1>1, <3>2 DEF LineOf, Offset
  <2>4. Offset(LineOf(1)) - Offset(LineOf(1)) = 0
    BY <2>2, Offsets DEF TypeOK
  <2>5. line' = LineOf(Len(df) + 1)' /\ bytes' = Offset(line)' - Offset(LineOf(1))'
    BY <1>1, <2>1, <2>2, <2>3, <2>4
  <2>6. LineOf(1)' .. line' - 1 = {}
    BY <2>2, <2>3
  <2> QED
    BY <2>1, <2>5, <2>6 DEF Filled, RowsAreLines, WhileFilling, AllAreRead
<1> QED
  BY <1>2, <1>3

LEMMA FilledNext == TypeOK /\ Filled /\ [Next]_vars => Filled'
<1> SUFFICES ASSUME TypeOK, Filled, [Next]_vars PROVE Filled'
  OBVIOUS
<1>1. ASSUME NEW p \in Parts, NEW set \in BOOLEAN, Begin(p, set) PROVE Filled'
  BY <1>1 DEF Begin, Filled, RowsAreLines, WhileFilling, AllAreRead, FrameIsCurrent
<1>2. CASE InferLine
  <2>1. pc' = "infer"
    BY <1>2 DEF InferLine
  <2> QED
    BY <2>1 DEF Filled, RowsAreLines, WhileFilling, AllAreRead, FrameIsCurrent
<1>3. ASSUME UNCHANGED <<file, calls, pc, part, setting, line, bytes, cols, df, row>> PROVE Filled'
  <2>1. Offset(line)' = Offset(line) /\ LineOf(Len(df) + 1)' = LineOf(Len(df) + 1)
        /\ Offset(LineOf(1))' = Offset(LineOf(1)) /\ LineOf(1)' = LineOf(1)
    <3>1. \A n : Offset(n)' = Offset(n)
      BY <1>3, SamePart
    <3>2. \A from : FirstLine(from)' = FirstLine(from)
      BY <1>3, <3>1 DEF FirstLine
    <3> QED
      BY <1>3, <3>2 DEF LineOf, Offset
  <2>2. /\ \A n : LineOf(n)' = LineOf(n)
        /\ \A n : Inside(n)' = Inside(n)
        /\ \A n : RowFor(n)' = RowFor(n)
    BY <1>3, SamePart
  <2>3. RowFor(line)' = RowFor(line) /\ FrameIsCurrent' = FrameIsCurrent
    BY <1>3, <2>1 DEF RowFor, FieldAt, FrameIsCurrent
  <2>4. RowsAreLines'
    BY <1>3, <2>2, <2>3 DEF Filled, RowsAreLines
  <2>5. WhileFilling'
    BY <1>3, <2>1, <2>2, <2>3 DEF Filled, WhileFilling
  <2>6. {n \in LineOf(1) .. Len(file) : Inside(n)}' = {n \in LineOf(1) .. Len(file) : Inside(n)}
    BY <1>3, <2>1, <2>2
  <2>7. AllAreRead'
    BY <1>3, <2>3, <2>6 DEF Filled, AllAreRead
  <2> QED
    BY <2>4, <2>5, <2>7 DEF Filled
<1>4. CASE Die \/ UNCHANGED vars
  BY <1>3, <1>4 DEF Die, vars
<1>5. CASE FillEnds
  <2>1. pc = "fill" /\ ~Fits /\ pc' = "idle" /\ UNCHANGED <<file, calls, part, setting, cols, df>>
    BY <1>5 DEF FillEnds
  <2>2. Len(df) = Cardinality({n \in LineOf(1) .. Len(file) : Inside(n)})
    BY <2>1, EndOfPart DEF Filled
  <2>3. /\ \A n : LineOf(n)' = LineOf(n)
        /\ \A n : Inside(n)' = Inside(n)
        /\ \A n : RowFor(n)' = RowFor(n)
    BY <2>1, SamePart
  <2>4. {n \in LineOf(1) .. Len(file) : Inside(n)}' = {n \in LineOf(1) .. Len(file) : Inside(n)}
    <3>1. LineOf(1)' = LineOf(1)
      BY <2>3
    <3> QED
      BY <2>1, <2>3, <3>1
  <2>5. AllAreRead'
    BY <2>1, <2>2, <2>4 DEF AllAreRead
  <2>6. RowsAreLines'
    <3>1. \A r \in DOMAIN df : df[r] = RowFor(LineOf(r))
      BY <2>1 DEF Filled, RowsAreLines, FrameIsCurrent
    <3> QED
      BY <2>1, <2>3, <3>1 DEF RowsAreLines
  <2>7. WhileFilling'
    BY <2>1 DEF WhileFilling
  <2> QED
    BY <2>5, <2>6, <2>7 DEF Filled
<1> QED
  BY <1>1, <1>2, <1>4, <1>5, FillFieldKeeps, AddRowKeeps, InferEndsFills
  DEF Next, Call, Infer, Fill, InferDies, FillDies

LEMMA FilledAlways == Spec => [](TypeOK /\ Filled)
<1>1. Init => Filled
  BY DEF Init, Filled, RowsAreLines, WhileFilling, AllAreRead, FrameIsCurrent
<1> QED
  BY <1>1, TypedInit, TypedNext, FilledNext, PTL DEF Spec

(* The frame has the lines of the part, each in a row of its own, neither  *)
(* one too many nor one too few, for any file, part and sample size: the   *)
(* two passes find the same first and the same last line.                  *)
THEOREM FrameMade == Spec => []FrameIsThePart
<1>1. TypeOK /\ Filled => FrameIsThePart
  BY DEF Filled, RowsAreLines, AllAreRead, FrameIsThePart, RowFor, Inside
<1> QED
  BY <1>1, FilledAlways, PTL

(* What was sampled is not narrowed: the type of its column is as high as  *)
(* the one the field asked for when the types were inferred.               *)
THEOREM SamplesKept == Spec => []SampledIsKept
<1>1. TypeOK /\ Highest /\ Filled => SampledIsKept
  <2> SUFFICES ASSUME TypeOK, Highest, Filled, FrameIsCurrent,
                      NEW r \in DOMAIN df, NEW j \in DOMAIN df[r],
                      LineOf(r) \in sampled, df[r][j].of \in {"bit", "int", "float", "text"}
               PROVE  Rank[Inferred(df[r][j].of)] <= Rank[df[r][j].as]
    BY DEF SampledIsKept
  <2> DEFINE n == LineOf(r)
             f == file[n][j]
  <2>1. df[r] = RowFor(n)
    BY DEF Filled, RowsAreLines
  <2>2. j \in DOMAIN cols /\ df[r][j].as = cols[j] /\ df[r][j].of = FieldAt(n, j)
    BY <2>1 DEF RowFor
  <2>3. j <= Len(file[n]) /\ df[r][j].of = f /\ Parsed(f) = f
    BY <2>2 DEF FieldAt, Parsed
  <2>4. Inferred(f) \in TypesSeen(j)
    BY <2>3 DEF TypesSeen
  <2>5. Rank[Inferred(f)] <= Rank[cols[j]]
    BY <2>2, <2>4 DEF Highest
  <2> QED
    BY <2>2, <2>3, <2>5
<1> QED
  BY <1>1, JoinAlways, FilledAlways, PTL
=============================================================================
