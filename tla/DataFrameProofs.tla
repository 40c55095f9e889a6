-------------------------- MODULE DataFrameProofs ---------------------------
(***************************************************************************)
(* Proofs about DataFrame for any chunk size, any schemas and values and   *)
(* any number of rows: its columns stay cut as one sequence each, in step, *)
(* and no row that is counted is missing anywhere.                         *)
(***************************************************************************)
EXTENDS DataFrame, TLAPS

----------------------------------------------------------------------------
(* Division of indices by the size of a chunk.                             *)
LEMMA TimesGrows ==
    ASSUME NEW x \in Nat, NEW y \in Nat, NEW m \in Nat, x <= y
    PROVE  x * m <= y * m
<1>1. \A d \in Nat : d * m \in Nat
  OBVIOUS
<1>2. y - x \in Nat
  OBVIOUS
<1>3. (y - x) * m \in Nat
  BY <1>1, <1>2
<1>4. y * m = x * m + (y - x) * m
  OBVIOUS
<1> QED
  BY <1>1, <1>3, <1>4

LEMMA IndexTypes ==
    ASSUME NEW n \in Nat
    PROVE  /\ ChunkOf(n) \in Nat \ {0}
           /\ Within(n) \in 1..ChunkSize
           /\ n = (ChunkOf(n) - 1) * ChunkSize + Within(n) - 1
BY ChunkSizePositive DEF ChunkOf, Within

LEMMA IndexIs ==
    ASSUME NEW q \in Nat, NEW r \in 0..(ChunkSize - 1)
    PROVE  ChunkOf(q * ChunkSize + r) = q + 1 /\ Within(q * ChunkSize + r) = r + 1
<1>1. (q * ChunkSize + r) \div ChunkSize = q
  BY ChunkSizePositive
<1>2. q * ChunkSize + r \in Nat
  BY ChunkSizePositive
<1>3. ChunkOf(q * ChunkSize + r) = q + 1
  BY <1>1 DEF ChunkOf
<1>4. (q * ChunkSize + r) % ChunkSize = r
  BY <1>1, <1>2, ChunkSizePositive
<1> QED
  BY <1>3, <1>4 DEF Within

LEMMA IndexZero == ChunkOf(0) = 1 /\ Within(0) = 1
BY ChunkSizePositive DEF ChunkOf, Within

(* Chunks and places are ordered as the indices are.                       *)
LEMMA IndexOrder ==
    ASSUME NEW a \in Nat, NEW b \in Nat, a < b
    PROVE  \/ ChunkOf(a) < ChunkOf(b)
           \/ ChunkOf(a) = ChunkOf(b) /\ Within(a) < Within(b)
<1> DEFINE p == ChunkOf(a) - 1
           q == ChunkOf(b) - 1
<1>0. /\ p \in Nat /\ q \in Nat /\ ChunkSize \in Nat
      /\ Within(a) \in 1..ChunkSize /\ Within(b) \in 1..ChunkSize
      /\ a = p * ChunkSize + Within(a) - 1
      /\ b = q * ChunkSize + Within(b) - 1
  <2>1. /\ ChunkOf(a) \in Nat \ {0} /\ Within(a) \in 1..ChunkSize
        /\ a = p * ChunkSize + Within(a) - 1
    BY IndexTypes
  <2>2. /\ ChunkOf(b) \in Nat \ {0} /\ Within(b) \in 1..ChunkSize
        /\ b = q * ChunkSize + Within(b) - 1
    BY IndexTypes
  <2>3. p \in Nat /\ q \in Nat
    BY <2>1, <2>2
  <2> HIDE DEF p, q
  <2> QED
    BY <2>1, <2>2, <2>3, ChunkSizePositive
<1> HIDE DEF p, q
<1>1. ~ q < p
  <2> SUFFICES ASSUME q + 1 <= p PROVE FALSE
    BY <1>0
  <2>1. (q + 1) * ChunkSize <= p * ChunkSize
    BY <1>0, TimesGrows
  <2>2. (q + 1) * ChunkSize = q * ChunkSize + ChunkSize
    BY <1>0
  <2>3. p * ChunkSize \in Nat /\ q * ChunkSize \in Nat
    BY <1>0
  <2> QED
    BY <1>0, <2>1, <2>2, <2>3
<1>2. p = q => Within(a) < Within(b)
  <2>1. q * ChunkSize \in Nat
    BY <1>0
  <2> QED
    BY <1>0, <2>1
<1>3. p < q \/ (p = q /\ Within(a) < Within(b))
  BY <1>0, <1>1, <1>2
<1>4. ChunkOf(a) = p + 1 /\ ChunkOf(b) = q + 1
  BY IndexTypes DEF p, q
<1> QED
  BY <1>0, <1>3, <1>4

(* The next index is the next place, or the first of the next chunk.       *)
LEMMA IndexNext ==
    ASSUME NEW n \in Nat
    PROVE  IF Within(n) = ChunkSize
           THEN ChunkOf(n + 1) = ChunkOf(n) + 1 /\ Within(n + 1) = 1
           ELSE ChunkOf(n + 1) = ChunkOf(n) /\ Within(n + 1) = Within(n) + 1
<1> DEFINE p == ChunkOf(n) - 1
<1>1. /\ p \in Nat /\ Within(n) \in 1..ChunkSize /\ ChunkSize \in Nat \ {0}
      /\ n = p * ChunkSize + Within(n) - 1
      /\ ChunkOf(n) = p + 1
  <2>1. /\ ChunkOf(n) \in Nat \ {0} /\ Within(n) \in 1..ChunkSize
        /\ n = p * ChunkSize + Within(n) - 1
    BY IndexTypes
  <2>2. p \in Nat /\ ChunkOf(n) = p + 1
    BY <2>1
  <2> HIDE DEF p
  <2> QED
    BY <2>1, <2>2, ChunkSizePositive
<1> HIDE DEF p
<1>2. p * ChunkSize \in Nat
  BY <1>1
<1>3. CASE Within(n) = ChunkSize
  <2>1. (p + 1) * ChunkSize = p * ChunkSize + ChunkSize
    BY <1>1
  <2>2. n + 1 = (p + 1) * ChunkSize + 0
    BY <1>1, <1>2, <1>3, <2>1
  <2>3. p + 1 \in Nat /\ 0 \in 0..(ChunkSize - 1)
    BY <1>1
  <2>4. /\ ChunkOf((p + 1) * ChunkSize + 0) = (p + 1) + 1
        /\ Within((p + 1) * ChunkSize + 0) = 0 + 1
    BY <2>3, IndexIs
  <2>5. ChunkOf(n + 1) = p + 2 /\ Within(n + 1) = 1
    BY <1>1, <2>2, <2>4
  <2> QED
    BY <1>1, <1>3, <2>5
<1>4. CASE Within(n) # ChunkSize
  <2>1. n + 1 = p * ChunkSize + Within(n) /\ Within(n) \in 0..(ChunkSize - 1)
    BY <1>1, <1>2, <1>4
  <2>2. ChunkOf(n + 1) = p + 1 /\ Within(n + 1) = Within(n) + 1
    BY <1>1, <2>1, IndexIs
  <2> QED
    BY <1>1, <1>4, <2>2
<1> QED
  BY <1>3, <1>4

(* Where an element of a chunk is, counted from the start.                 *)
LEMMA IndexBelow ==
    ASSUME NEW n \in Nat, NEW c \in Nat \ {0}, NEW e \in 1..ChunkSize,
           c < ChunkOf(n) \/ (c = ChunkOf(n) /\ e < Within(n))
    PROVE  (c - 1) * ChunkSize + e - 1 \in 0..(n - 1)
<1> DEFINE p == ChunkOf(n) - 1
           q == c - 1
<1>0. /\ p \in Nat /\ q \in Nat /\ ChunkSize \in Nat
      /\ Within(n) \in 1..ChunkSize
      /\ n = p * ChunkSize + Within(n) - 1
      /\ q < p \/ (q = p /\ e < Within(n))
  <2>1. /\ ChunkOf(n) \in Nat \ {0} /\ Within(n) \in 1..ChunkSize
        /\ n = p * ChunkSize + Within(n) - 1
    BY IndexTypes
  <2>2. p \in Nat /\ q \in Nat /\ (q < p \/ (q = p /\ e < Within(n)))
    BY <2>1
  <2> HIDE DEF p, q
  <2> QED
    BY <2>1, <2>2, ChunkSizePositive
<1> HIDE DEF p, q
<1>1. p * ChunkSize \in Nat /\ q * ChunkSize \in Nat
  BY <1>0
<1>2. CASE q + 1 <= p
  <2>1. (q + 1) * ChunkSize <= p * ChunkSize
    BY <1>0, <1>2, TimesGrows
  <2>2. (q + 1) * ChunkSize = q * ChunkSize + ChunkSize
    BY <1>0
  <2>3. q * ChunkSize + e - 1 \in 0..(n - 1)
    BY <1>0, <1>1, <2>1, <2>2
  <2> QED
    BY <2>3 DEF q
<1>3. CASE q = p /\ e < Within(n)
  <2>1. q * ChunkSize + e - 1 \in 0..(n - 1)
    BY <1>0, <1>1, <1>3
  <2> QED
    BY <2>1 DEF q
<1> QED
  BY <1>0, <1>2, <1>3

----------------------------------------------------------------------------
(* What a column is before and after each of its operations.               *)
LEMMA NewColumnSound ==
    ASSUME NEW t \in Types
    PROVE  /\ NewColumn(t) \in Columns /\ WellChunked(NewColumn(t))
           /\ NewColumn(t).type = t /\ NewColumn(t).size = 0
<1>1. NewColumn(t) \in Columns /\ NewColumn(t).type = t /\ NewColumn(t).size = 0
  BY DEF NewColumn, Columns
<1>2. WellChunked(NewColumn(t))
  BY IndexZero DEF NewColumn, WellChunked, Share
<1> QED
  BY <1>1, <1>2

(* Every element that is counted can be read.                              *)
LEMMA CountedIsReadable ==
    ASSUME NEW c \in Columns, WellChunked(c), NEW i \in Nat, i < c.size
    PROVE  Readable(c, i)
<1>1. c.size \in Nat /\ c.chunks \in Seq(Seq(Cells))
  BY DEF Columns
<1>2. /\ ChunkOf(i) \in Nat \ {0} /\ Within(i) \in 1..ChunkSize
      /\ ChunkOf(c.size) \in Nat \ {0} /\ Within(c.size) \in 1..ChunkSize
  BY <1>1, IndexTypes
<1>3. \/ ChunkOf(i) < ChunkOf(c.size)
      \/ ChunkOf(i) = ChunkOf(c.size) /\ Within(i) < Within(c.size)
  BY <1>1, IndexOrder
<1>4. ChunkOf(i) <= Len(c.chunks)
  BY <1>1, <1>2, <1>3 DEF WellChunked
<1>5. Len(c.chunks[ChunkOf(i)]) = Share(c.size, ChunkOf(i))
  BY <1>1, <1>2, <1>4 DEF WellChunked
<1>6. Within(i) <= Share(c.size, ChunkOf(i))
  BY <1>2, <1>3, ChunkSizePositive DEF Share
<1> QED
  BY <1>4, <1>5, <1>6 DEF Readable, HasChunk

LEMMA GetTyped ==
    ASSUME NEW c \in Columns, NEW i \in Nat, Readable(c, i)
    PROVE  Get(c, i) \in Cells
<1>1. ChunkOf(i) \in Nat \ {0} /\ Within(i) \in Nat \ {0}
  <2>1. ChunkOf(i) \in Nat \ {0} /\ Within(i) \in 1..ChunkSize
    BY IndexTypes
  <2> QED
    BY <2>1, ChunkSizePositive
<1>2. c.chunks \in Seq(Seq(Cells)) /\ ChunkOf(i) \in DOMAIN c.chunks
  <2>1. c.chunks \in Seq(Seq(Cells)) /\ ChunkOf(i) <= Len(c.chunks)
    BY DEF Columns, Readable, HasChunk
  <2> QED
    BY <1>1, <2>1
<1>3. c.chunks[ChunkOf(i)] \in Seq(Cells)
  BY <1>2
<1>4. Within(i) \in DOMAIN c.chunks[ChunkOf(i)]
  BY <1>1, <1>3 DEF Readable
<1> QED
  BY <1>3, <1>4 DEF Get

(* push_back keeps the chunks full but the last, whether it starts one or  *)
(* not.                                                                    *)
LEMMA PushBackSound ==
    ASSUME NEW c \in Columns, WellChunked(c), NEW v \in Cells
    PROVE  /\ PushBack(c, v) \in Columns /\ WellChunked(PushBack(c, v))
           /\ PushBack(c, v).type = c.type /\ PushBack(c, v).size = c.size + 1
<1> DEFINE n == c.size
           id == ChunkOf(n)
           chunks == IF id > Len(c.chunks) THEN Append(c.chunks, << >>) ELSE c.chunks
           new == [chunks EXCEPT ![id] = Append(@, v)]
<1>1. /\ n \in Nat /\ c.chunks \in Seq(Seq(Cells)) /\ c.type \in Types
      /\ id \in Nat \ {0} /\ Within(n) \in 1..ChunkSize
  BY IndexTypes DEF Columns
<1>2. PushBack(c, v) = [c EXCEPT !.chunks = new, !.size = @ + 1]
  BY DEF PushBack
<1>3. /\ chunks \in Seq(Seq(Cells)) /\ Len(chunks) = id
      /\ \A q \in 1..id : Len(chunks[q]) = Share(n, q)
  <2>1. CASE Len(c.chunks) = id
    BY <1>1, <2>1 DEF WellChunked
  <2>2. CASE Len(c.chunks) = id - 1 /\ Within(n) = 1
    <3>1. chunks = Append(c.chunks, << >>)
      BY <1>1, <2>2
    <3>2. chunks \in Seq(Seq(Cells)) /\ Len(chunks) = id
      BY <1>1, <2>2, <3>1
    <3>3. \A q \in 1..(id - 1) : chunks[q] = c.chunks[q] /\ q \in DOMAIN c.chunks
      BY <1>1, <2>2, <3>1
    <3>4. chunks[id] = << >> /\ Share(n, id) = 0
      BY <1>1, <2>2, <3>1 DEF Share
    <3> QED
      BY <1>1, <3>2, <3>3, <3>4 DEF WellChunked
  <2> QED
    BY <2>1, <2>2 DEF WellChunked
<1> HIDE DEF chunks
<1>4. /\ new \in Seq(Seq(Cells)) /\ Len(new) = id
      /\ Len(new[id]) = Within(n)
      /\ \A q \in 1..id : q # id => Len(new[q]) = Share(n, q)
  <2>1. chunks[id] \in Seq(Cells) /\ Len(chunks[id]) = Within(n) - 1
    BY <1>1, <1>3 DEF Share
  <2>2. Append(chunks[id], v) \in Seq(Cells) /\ Len(Append(chunks[id], v)) = Within(n)
    BY <1>1, <2>1
  <2> QED
    BY <1>1, <1>3, <2>2
<1> HIDE DEF new
<1>5. /\ PushBack(c, v) \in Columns
      /\ PushBack(c, v).type = c.type /\ PushBack(c, v).size = n + 1
      /\ PushBack(c, v).chunks = new
  <2>1. c = [type |-> c.type, chunks |-> c.chunks, size |-> c.size]
    BY DEF Columns
  <2>2. PushBack(c, v) = [type |-> c.type, chunks |-> new, size |-> n + 1]
    BY <1>2, <2>1
  <2> QED
    BY <1>1, <1>4, <2>2 DEF Columns
<1> HIDE DEF n
<1>6. \A q \in 1..id : Len(new[q]) = Share(n + 1, q)
  <2>1. CASE Within(n) = ChunkSize
    <3>1. ChunkOf(n + 1) = id + 1
      BY <1>1, <2>1, IndexNext
    <3>2. \A q \in 1..id : Share(n + 1, q) = ChunkSize
      BY <1>1, <3>1 DEF Share
    <3>3. \A q \in 1..id : q # id => Share(n, q) = ChunkSize
      BY <1>1 DEF Share
    <3> QED
      BY <1>4, <2>1, <3>2, <3>3
  <2>2. CASE Within(n) # ChunkSize
    <3>1. ChunkOf(n + 1) = id /\ Within(n + 1) = Within(n) + 1
      BY <1>1, <2>2, IndexNext
    <3> QED
      BY <1>1, <1>4, <2>2, <3>1 DEF Share
  <2> QED
    BY <2>1, <2>2
<1>7. Len(new) = ChunkOf(n + 1) \/ (Len(new) = ChunkOf(n + 1) - 1 /\ Within(n + 1) = 1)
  BY <1>1, <1>4, IndexNext
<1> QED
  BY <1>4, <1>5, <1>6, <1>7 DEF WellChunked, n

(* A column that was set while it was empty may hold more than it counts,  *)
(* but it has a chunk for every element that it counts.                    *)
Reached(c) == ChunkOf(c.size) <= Len(c.chunks) + 1

LEMMA WellChunkedReaches ==
    ASSUME NEW c \in Columns, WellChunked(c)
    PROVE  Reached(c)
<1>1. ChunkOf(c.size) \in Nat \ {0} /\ Len(c.chunks) \in Nat
  BY IndexTypes DEF Columns
<1> QED
  BY <1>1 DEF WellChunked, Reached

LEMMA PushBackReaches ==
    ASSUME NEW c \in Columns, Reached(c), NEW v \in Cells
    PROVE  /\ PushBack(c, v) \in Columns /\ Reached(PushBack(c, v))
           /\ PushBack(c, v).type = c.type /\ PushBack(c, v).size = c.size + 1
<1> DEFINE n == c.size
           id == ChunkOf(n)
           chunks == IF id > Len(c.chunks) THEN Append(c.chunks, << >>) ELSE c.chunks
           new == [chunks EXCEPT ![id] = Append(@, v)]
<1>1. /\ n \in Nat /\ c.chunks \in Seq(Seq(Cells)) /\ Len(c.chunks) \in Nat
      /\ c.type \in Types /\ id \in Nat \ {0} /\ id <= Len(c.chunks) + 1
      /\ c = [type |-> c.type, chunks |-> c.chunks, size |-> c.size]
  BY IndexTypes DEF Columns, Reached
<1>2. PushBack(c, v) = [type |-> c.type, chunks |-> new, size |-> n + 1]
  <2>1. PushBack(c, v) = [c EXCEPT !.chunks = new, !.size = @ + 1]
    BY DEF PushBack
  <2> HIDE DEF new
  <2> QED
    BY <1>1, <2>1
<1>3. ChunkOf(n + 1) <= id + 1
  BY <1>1, IndexNext
<1> HIDE DEF id
<1>4. chunks \in Seq(Seq(Cells)) /\ id \in 1..Len(chunks)
  <2>1. CASE id > Len(c.chunks)
    <3>1. chunks = Append(c.chunks, << >>)
      BY <2>1
    <3>2. chunks \in Seq(Seq(Cells)) /\ Len(chunks) = Len(c.chunks) + 1
      BY <1>1, <3>1
    <3> HIDE DEF chunks
    <3> QED
      BY <1>1, <2>1, <3>2
  <2>2. CASE ~(id > Len(c.chunks))
    <3>1. chunks = c.chunks
      BY <2>2
    <3> HIDE DEF chunks
    <3> QED
      BY <1>1, <2>2, <3>1
  <2> QED
    BY <2>1, <2>2
<1> HIDE DEF chunks
<1>5. new \in Seq(Seq(Cells)) /\ Len(new) = Len(chunks)
  <2>1. chunks[id] \in Seq(Cells)
    BY <1>4
  <2>2. Append(chunks[id], v) \in Seq(Cells)
    BY <2>1
  <2> QED
    BY <1>4, <2>2
<1> HIDE DEF new
<1>6. /\ PushBack(c, v).size = n + 1 /\ PushBack(c, v).chunks = new
      /\ PushBack(c, v).type = c.type /\ PushBack(c, v) \in Columns
  BY <1>1, <1>2, <1>5 DEF Columns
<1>7. n + 1 \in Nat /\ ChunkOf(n + 1) \in Nat
  BY <1>1, IndexTypes
<1>8. ChunkOf(n + 1) <= Len(new) + 1
  <2>1. Len(chunks) \in Nat /\ id <= Len(chunks) /\ id \in Nat
    BY <1>1, <1>4
  <2> QED
    BY <1>3, <1>5, <1>7, <2>1
<1> QED
  BY <1>6, <1>8 DEF Reached

(* push_back leaves every element where it was and puts the new one behind *)
(* them, whichever chunk that is.                                          *)
LEMMA PushBackReads ==
    ASSUME NEW c \in Columns, WellChunked(c), NEW v \in Cells
    PROVE  /\ Get(PushBack(c, v), c.size) = v
           /\ \A i \in 0..(c.size - 1) : Get(PushBack(c, v), i) = Get(c, i)
<1> DEFINE n == c.size
           id == ChunkOf(n)
           chunks == IF id > Len(c.chunks) THEN Append(c.chunks, << >>) ELSE c.chunks
           new == [chunks EXCEPT ![id] = Append(@, v)]
<1>1. /\ n \in Nat /\ c.chunks \in Seq(Seq(Cells))
      /\ id \in Nat \ {0} /\ Within(n) \in 1..ChunkSize
      /\ c = [type |-> c.type, chunks |-> c.chunks, size |-> c.size]
  BY IndexTypes DEF Columns
<1>2. PushBack(c, v).chunks = new
  BY <1>1 DEF PushBack
<1>3. /\ chunks \in Seq(Seq(Cells)) /\ Len(chunks) = id
      /\ Len(chunks[id]) = Within(n) - 1
      /\ \A q \in 1..(id - 1) : chunks[q] = c.chunks[q]
      /\ Within(n) # 1 => chunks = c.chunks
  <2>1. CASE Len(c.chunks) = id
    <3>1. chunks = c.chunks /\ id \in DOMAIN c.chunks
      BY <1>1, <2>1
    <3>2. Len(c.chunks[id]) = Within(n) - 1
      BY <1>1, <3>1 DEF WellChunked, Share
    <3> QED
      BY <1>1, <2>1, <3>1, <3>2
  <2>2. CASE Len(c.chunks) = id - 1 /\ Within(n) = 1
    <3>1. chunks = Append(c.chunks, << >>)
      BY <1>1, <2>2
    <3> QED
      BY <1>1, <2>2, <3>1
  <2> QED
    BY <2>1, <2>2 DEF WellChunked
<1> HIDE DEF chunks
<1>4. /\ new[id] = Append(chunks[id], v) /\ chunks[id] \in Seq(Cells)
      /\ \A q \in 1..(id - 1) : new[q] = c.chunks[q]
  BY <1>1, <1>3
<1> HIDE DEF new
<1>5. Get(PushBack(c, v), n) = v
  BY <1>1, <1>2, <1>3, <1>4 DEF Get
<1>6. ASSUME NEW i \in 0..(n - 1)
      PROVE  Get(PushBack(c, v), i) = Get(c, i)
  <2>1. /\ i \in Nat /\ i < n
        /\ ChunkOf(i) \in Nat \ {0} /\ Within(i) \in 1..ChunkSize
    <3>1. i \in Nat /\ i < n
      BY <1>1
    <3> QED
      BY <3>1, IndexTypes
  <2>2. CASE ChunkOf(i) < id
    <3>1. ChunkOf(i) \in 1..(id - 1)
      BY <1>1, <2>1, <2>2
    <3>2. new[ChunkOf(i)] = c.chunks[ChunkOf(i)]
      BY <1>4, <3>1
    <3> QED
      BY <1>2, <3>2 DEF Get
  <2>3. CASE ChunkOf(i) = id /\ Within(i) < Within(n)
    <3>1. chunks = c.chunks /\ Within(i) \in 1..Len(chunks[id])
      BY <1>1, <1>3, <2>1, <2>3, ChunkSizePositive
    <3>2. Append(chunks[id], v)[Within(i)] = chunks[id][Within(i)]
      BY <1>4, <3>1
    <3> QED
      BY <1>2, <1>4, <2>3, <3>1, <3>2 DEF Get
  <2> QED
    BY <1>1, <2>1, <2>2, <2>3, IndexOrder
<1> QED
  BY <1>5, <1>6

LEMMA NarrowedTyped ==
    ASSUME NEW c \in Columns, NEW v \in ValuesOf[c.type]
    PROVE  Narrowed(c, v) \in Cells
<1>1. CASE c.type = "F"
  BY <1>1, ValuesTyped DEF Narrowed, Cells
<1>2. CASE c.type # "F"
  BY <1>2 DEF Narrowed, Cells, Columns, Types
<1> QED
  BY <1>1, <1>2

(* set changes no length but that of an empty chunk.                       *)
LEMMA SetAtSound ==
    ASSUME NEW c \in Columns, NEW i \in Nat, Settable(c, i), NEW v \in ValuesOf[c.type]
    PROVE  /\ SetAt(c, i, v) \in Columns
           /\ SetAt(c, i, v).type = c.type /\ SetAt(c, i, v).size = c.size
           /\ Len(SetAt(c, i, v).chunks) = Len(c.chunks)
           /\ Readable(c, i) /\ WellChunked(c) => WellChunked(SetAt(c, i, v))
<1> DEFINE id == ChunkOf(i)
           old == c.chunks[id]
           w == Narrowed(c, v)
           chunk == IF old = << >> THEN << w >> ELSE [old EXCEPT ![Within(i)] = w]
           new == [c.chunks EXCEPT ![id] = chunk]
<1>1. /\ c.size \in Nat /\ c.chunks \in Seq(Seq(Cells)) /\ c.type \in Types
      /\ c = [type |-> c.type, chunks |-> c.chunks, size |-> c.size]
  BY DEF Columns
<1>2. id \in 1..Len(c.chunks)
  <2>1. id \in Nat \ {0} /\ id <= Len(c.chunks)
    BY IndexTypes DEF Settable, Readable, EmptyChunk, HasChunk
  <2> QED
    BY <1>1, <2>1
<1>3. old \in Seq(Cells) /\ w \in Cells
  BY <1>1, <1>2, NarrowedTyped
<1>4. SetAt(c, i, v) = [type |-> c.type, chunks |-> new, size |-> c.size]
  <2>1. SetAt(c, i, v) = [c EXCEPT !.chunks = new]
    BY DEF SetAt
  <2> QED
    BY <1>1, <2>1
<1>5. chunk \in Seq(Cells) /\ (old # << >> => Len(chunk) = Len(old))
  <2> HIDE DEF old, w
  <2>1. CASE old = << >>
    BY <1>3, <2>1
  <2>2. CASE old # << >>
    <3>1. chunk = [old EXCEPT ![Within(i)] = w]
      BY <2>2
    <3>2. old \in [1..Len(old) -> Cells] /\ Len(old) \in Nat
      BY <1>3
    <3>3. chunk \in [1..Len(old) -> Cells]
      BY <1>3, <3>1, <3>2
    <3> HIDE DEF chunk
    <3> QED
      BY <3>2, <3>3
  <2> QED
    BY <2>1, <2>2
<1> HIDE DEF chunk
<1>6. /\ new \in Seq(Seq(Cells)) /\ Len(new) = Len(c.chunks) /\ new[id] = chunk
      /\ \A q \in 1..Len(c.chunks) : q # id => new[q] = c.chunks[q]
  BY <1>1, <1>2, <1>5
<1>7. Readable(c, i) => old # << >>
  <2>1. Within(i) \in 1..ChunkSize
    BY IndexTypes
  <2> QED
    BY <1>3, <2>1, ChunkSizePositive DEF Readable
<1> HIDE DEF new, chunk, old
<1>8. Readable(c, i) => \A q \in 1..Len(c.chunks) : Len(new[q]) = Len(c.chunks[q])
  BY <1>5, <1>6, <1>7 DEF old
<1> HIDE DEF id
<1>9. /\ SetAt(c, i, v).type = c.type /\ SetAt(c, i, v).size = c.size
      /\ SetAt(c, i, v).chunks = new /\ SetAt(c, i, v) \in Columns
      /\ Len(SetAt(c, i, v).chunks) = Len(c.chunks)
  BY <1>1, <1>4, <1>6 DEF Columns
<1>10. Readable(c, i) /\ WellChunked(c) => WellChunked(SetAt(c, i, v))
  <2> SUFFICES ASSUME Readable(c, i), WellChunked(c)
               PROVE  WellChunked(SetAt(c, i, v))
    OBVIOUS
  <2>1. DOMAIN c.chunks = 1..Len(c.chunks) /\ DOMAIN new = 1..Len(c.chunks)
    BY <1>1, <1>6
  <2>2. \A q \in DOMAIN new : Len(new[q]) = Share(c.size, q)
    BY <1>8, <2>1 DEF WellChunked
  <2> QED
    BY <1>6, <1>9, <2>2 DEF WellChunked
<1> QED
  BY <1>9, <1>10

(* Pushed back one by one, the elements fill chunks as they should.        *)
LEMMA DeserializedSound ==
    ASSUME NEW c \in Columns, Serializable(c)
    PROVE  /\ Deserialized(c) \in Columns /\ WellChunked(Deserialized(c))
           /\ Deserialized(c).type = c.type /\ Deserialized(c).size = c.size
<1> DEFINE n == c.size
           m == IF Within(n) = 1 THEN ChunkOf(n) - 1 ELSE ChunkOf(n)
           new == [q \in 1..m |->
                      [e \in 1..Share(n, q) |-> Get(c, (q - 1) * ChunkSize + e - 1)]]
<1>1. /\ n \in Nat /\ c.type \in Types
      /\ c = [type |-> c.type, chunks |-> c.chunks, size |-> n]
      /\ ChunkOf(n) \in Nat \ {0} /\ Within(n) \in 1..ChunkSize
      /\ ChunkSize \in Nat \ {0}
  BY IndexTypes, ChunkSizePositive DEF Columns
<1>2. Deserialized(c) = [type |-> c.type, chunks |-> new, size |-> n]
  <2>1. Deserialized(c) = [c EXCEPT !.chunks = new]
    BY DEF Deserialized
  <2> QED
    BY <1>1, <2>1
<1>3. m \in Nat /\ \A q \in 1..m : q <= ChunkOf(n)
  BY <1>1
<1>4. \A q \in 1..m : Share(n, q) \in Nat /\ Share(n, q) <= ChunkSize
  BY <1>1, <1>3 DEF Share
<1>5. ASSUME NEW q \in 1..m, NEW e \in 1..Share(n, q)
      PROVE  Get(c, (q - 1) * ChunkSize + e - 1) \in Cells
  <2>1. e \in 1..ChunkSize /\ q \in Nat \ {0}
    BY <1>1, <1>3, <1>4
  <2>2. q < ChunkOf(n) \/ (q = ChunkOf(n) /\ e < Within(n))
    BY <1>1, <1>3, <2>1 DEF Share
  <2>3. (q - 1) * ChunkSize + e - 1 \in 0..(n - 1)
    BY <1>1, <2>1, <2>2, IndexBelow
  <2> DEFINE i == (q - 1) * ChunkSize + e - 1
  <2> HIDE DEF i
  <2>4. i \in 0..(n - 1)
    BY <2>3 DEF i
  <2>5. i \in Nat /\ Readable(c, i)
    BY <1>1, <2>4 DEF Serializable
  <2>6. Get(c, i) \in Cells
    BY <2>5, GetTyped
  <2> QED
    BY <2>6 DEF i
<1>6. \A q \in 1..m : new[q] \in Seq(Cells) /\ Len(new[q]) = Share(n, q)
  <2> SUFFICES ASSUME NEW q \in 1..m
               PROVE  new[q] \in Seq(Cells) /\ Len(new[q]) = Share(n, q)
    OBVIOUS
  <2> DEFINE part == [e \in 1..Share(n, q) |-> Get(c, (q - 1) * ChunkSize + e - 1)]
  <2>1. part \in [1..Share(n, q) -> Cells] /\ Share(n, q) \in Nat
    BY <1>4, <1>5
  <2>2. new[q] = part
    OBVIOUS
  <2> HIDE DEF part, new
  <2> QED
    BY <2>1, <2>2
<1> HIDE DEF new
<1>7. new \in Seq(Seq(Cells)) /\ Len(new) = m
  <2>1. new = [q \in 1..m |-> new[q]]
    BY DEF new
  <2> HIDE DEF m
  <2>2. new \in [1..m -> Seq(Cells)]
    BY <1>6, <2>1
  <2> QED
    BY <1>3, <2>2
<1> HIDE DEF m
<1>8. m = ChunkOf(n) \/ (m = ChunkOf(n) - 1 /\ Within(n) = 1)
  BY DEF m
<1>9. /\ Deserialized(c).type = c.type /\ Deserialized(c).size = n
      /\ Deserialized(c).chunks = new /\ Deserialized(c) \in Columns
  BY <1>1, <1>2, <1>7 DEF Columns
<1>10. WellChunked(Deserialized(c))
  BY <1>3, <1>6, <1>7, <1>8, <1>9 DEF WellChunked
<1> QED
  BY <1>9, <1>10

(* What is read back is what was written, each element where it was.  With *)
(* PushBackReads: what a loop of push_back calls makes of the elements.    *)
LEMMA DeserializedReads ==
    ASSUME NEW c \in Columns, NEW i \in Nat, i < c.size
    PROVE  Get(Deserialized(c), i) = Get(c, i)
<1> DEFINE n == c.size
           m == IF Within(n) = 1 THEN ChunkOf(n) - 1 ELSE ChunkOf(n)
           q == ChunkOf(i)
           e == Within(i)
           new == [p \in 1..m |->
                      [f \in 1..Share(n, p) |-> Get(c, (p - 1) * ChunkSize + f - 1)]]
<1>1. /\ n \in Nat /\ ChunkOf(n) \in Nat \ {0} /\ Within(n) \in 1..ChunkSize
      /\ q \in Nat \ {0} /\ e \in 1..ChunkSize
      /\ c = [type |-> c.type, chunks |-> c.chunks, size |-> c.size]
  BY IndexTypes DEF Columns
<1>2. i = (q - 1) * ChunkSize + e - 1
  BY IndexTypes
<1>3. q < ChunkOf(n) \/ (q = ChunkOf(n) /\ e < Within(n))
  BY <1>1, IndexOrder
<1>4. q \in 1..m /\ e \in 1..Share(n, q)
  BY <1>1, <1>3, ChunkSizePositive DEF Share
<1>5. Deserialized(c).chunks = new
  BY <1>1 DEF Deserialized
<1>6. Get(Deserialized(c), i) = new[q][e]
  BY <1>5 DEF Get
<1> HIDE DEF q, e, m
<1>7. new[q][e] = Get(c, (q - 1) * ChunkSize + e - 1)
  BY <1>4
<1> QED
  BY <1>2, <1>6, <1>7

----------------------------------------------------------------------------
(* The inductive invariant: the columns of the schema come first and have  *)
(* its types.  Rows that are wider than the schema was may fill a column   *)
(* that was added, with no more than the rows counted.                     *)
Sound ==
    /\ TypeOK
    /\ Len(types) <= col_size
    /\ \A j \in DOMAIN types : cols[j].type = types[j]
    /\ \A j \in DOMAIN cols : Reached(cols[j])
    /\ \A j \in Added : cols[j].size <= row_size
    /\ ColumnsWellChunked
    /\ ColumnsInStep

LEMMA SchemaTypes ==
    ASSUME NEW ts \in Schemas
    PROVE  /\ ts \in Seq(Types) /\ Len(ts) \in Nat /\ Len(ts) >= 1
           /\ DOMAIN ts = 1..Len(ts) /\ \A j \in DOMAIN ts : ts[j] \in Types
BY SchemasTyped

(* A Row can be made of every text that a pointer may lead to.             *)
LEMMA NewFieldsSound ==
    ASSUME NEW ts \in Seq(Types \cup {"?"})
    PROVE  /\ NewColumns(ts) \in Seq(Fields) /\ DOMAIN NewColumns(ts) = DOMAIN ts
           /\ [j \in DOMAIN NewColumns(ts) |-> NewColumns(ts)[j].type] = ts
           /\ \A j \in DOMAIN ts :
                 /\ NewColumns(ts)[j].type = ts[j] /\ NewColumns(ts)[j].size = 0
                 /\ WellChunked(NewColumns(ts)[j])
<1>1. ASSUME NEW j \in DOMAIN ts
      PROVE  /\ NewColumn(ts[j]) \in Fields /\ NewColumn(ts[j]).type = ts[j]
             /\ NewColumn(ts[j]).size = 0 /\ WellChunked(NewColumn(ts[j]))
  <2>1. ts[j] \in Types \cup {"?"}
    OBVIOUS
  <2>2. << << >> >> \in Seq(Seq(Cells)) /\ Len(<< << >> >>) = 1 /\ Len(<< << >> >>[1]) = 0
    OBVIOUS
  <2>3. NewColumn(ts[j]) \in Fields
    BY <2>1, <2>2 DEF NewColumn, Fields
  <2> QED
    BY <2>2, <2>3, IndexZero DEF NewColumn, WellChunked, Share
<1>2. /\ NewColumns(ts) = [j \in DOMAIN ts |-> NewColumn(ts[j])]
      /\ ts = [j \in DOMAIN ts |-> ts[j]] /\ DOMAIN ts = 1..Len(ts) /\ Len(ts) \in Nat
  BY DEF NewColumns
<1>3. NewColumns(ts) \in [1..Len(ts) -> Fields]
  BY <1>1, <1>2
<1>4. NewColumns(ts) \in Seq(Fields)
  BY <1>2, <1>3
<1>5. [j \in DOMAIN NewColumns(ts) |-> NewColumns(ts)[j].type] = [j \in DOMAIN ts |-> ts[j]]
  BY <1>1, <1>2
<1> QED
  BY <1>1, <1>2, <1>4, <1>5

(* The columns of a new frame, and the fields of a new Row of its schema.  *)
LEMMA NewColumnsSound ==
    ASSUME NEW ts \in Schemas
    PROVE  /\ NewColumns(ts) \in Seq(Columns) /\ Len(NewColumns(ts)) = Len(ts)
           /\ \A j \in DOMAIN ts :
                 /\ NewColumns(ts)[j].type = ts[j] /\ NewColumns(ts)[j].size = 0
                 /\ WellChunked(NewColumns(ts)[j])
<1>1. \A j \in DOMAIN ts : NewColumns(ts)[j] = NewColumn(ts[j])
  BY DEF NewColumns
<1>2. \A j \in DOMAIN ts : NewColumn(ts[j]) \in Columns
  BY SchemaTypes, NewColumnSound
<1>3. NewColumns(ts) \in [1..Len(ts) -> Columns]
  BY <1>2, SchemaTypes DEF NewColumns
<1> QED
  BY <1>1, <1>3, SchemaTypes, NewColumnSound

LEMMA SpellingsTyped ==
    ASSUME types \in Schemas, NEW ts \in Spellings
    PROVE  ts \in Seq(Types \cup {"?"})
<1>1. types \in Seq(Types \cup {"?"})
  <2>1. types \in Seq(Types)
    BY SchemasTyped
  <2> QED
    BY <2>1
<1> QED
  BY <1>1, TextsTyped DEF Spellings

(* A field of one of the types is a column.                                *)
LEMMA FieldsAreColumns ==
    /\ Columns \subseteq Fields
    /\ \A f \in Fields : f.type \in Types => f \in Columns
BY DEF Columns, Fields

(* A value of a field's type can be pushed, or set where one was.          *)
LEMMA ValuesAreCells ==
    ASSUME NEW t \in Types
    PROVE  ValuesOf[t] \subseteq Cells
BY DEF Types, Cells

LEMMA SoundInit == Init => Sound
<1> SUFFICES ASSUME Init PROVE Sound
  OBVIOUS
<1> USE DEF Init
<1>1. types \in Schemas /\ types \in Spellings
  BY DEF Spellings
<1>2. TypeOK
  <2>1. types \in Seq(Types \cup {"?"})
    BY <1>1, SpellingsTyped
  <2> QED
    BY <2>1, SchemaTypes, NewColumnsSound, NewFieldsSound DEF TypeOK
<1>3. ColumnsWellChunked
  BY NewColumnsSound DEF ColumnsWellChunked
<1>4. ColumnsInStep
  BY SchemaTypes, NewColumnsSound DEF ColumnsInStep
<1>5. \A j \in DOMAIN cols : Reached(cols[j])
  BY SchemaTypes, NewColumnsSound, WellChunkedReaches
<1>6. \A j \in Added : cols[j].size <= row_size
  BY SchemaTypes DEF Added
<1> QED
  BY <1>2, <1>3, <1>4, <1>5, <1>6, SchemaTypes, NewColumnsSound DEF Sound

(* No call makes a column that is not cut right, or gets one out of step.  *)
LEMMA SoundNext == Sound /\ [Next]_vars => Sound'
<1> SUFFICES ASSUME Sound, [Next]_vars PROVE Sound'
  OBVIOUS
<1> DEFINE w == Len(types)
<1>0. /\ types \in Seq(Types) /\ w \in Nat \ {0} /\ DOMAIN types = 1..w
      /\ cols \in Seq(Columns) /\ Len(cols) = col_size /\ DOMAIN cols = 1..col_size
      /\ col_size \in Nat /\ row_size \in Nat /\ w <= col_size
      /\ \A j \in 1..col_size : cols[j] \in Columns /\ cols[j].size \in Nat
  <2>1. types \in Seq(Types) /\ w \in Nat \ {0} /\ DOMAIN types = 1..w
    BY SchemaTypes DEF Sound, TypeOK
  <2>2. /\ cols \in Seq(Columns) /\ Len(cols) = col_size
        /\ col_size \in Nat /\ row_size \in Nat /\ w <= col_size
    BY DEF Sound, TypeOK
  <2>3. \A c \in Columns : c.size \in Nat
    BY DEF Columns
  <2> QED
    BY <2>1, <2>2, <2>3
<1>r. /\ row \in Seq(Fields)
      /\ \A j \in DOMAIN row : /\ row[j] \in Fields /\ row[j].size \in {0, 1}
                               /\ WellChunked(row[j])
      /\ intact \in BOOLEAN
      /\ intact => [j \in DOMAIN row |-> row[j].type] = types
  BY DEF Sound, TypeOK
<1>a. ASSUME /\ row' \in Seq(Fields)
             /\ \A j \in DOMAIN row' : row'[j].size \in {0, 1} /\ WellChunked(row'[j])
             /\ intact => [j \in DOMAIN row' |-> row'[j].type] = types
             /\ seen' \in Seq(Seq(Cells \cup {Unset})) /\ given' \in Seq(Cells)
             /\ UNCHANGED <<up, types, intact, col_size, row_size, cols>>
      PROVE  Sound'
  <2>1. TypeOK'
    BY <1>a DEF Sound, TypeOK
  <2>2. ColumnsWellChunked' /\ ColumnsInStep' /\ Added' = Added
    BY <1>a DEF Sound, ColumnsWellChunked, ColumnsInStep, Added
  <2> QED
    BY <1>0, <1>a, <2>1, <2>2 DEF Sound
<1>b. ASSUME /\ cols' \in Seq(Columns) /\ Len(cols') = col_size' /\ col_size' \in Nat
             /\ w <= col_size' /\ row_size' \in Nat /\ intact' \in BOOLEAN
             /\ intact' => intact
             /\ \A j \in 1..w : /\ cols'[j].type = types[j] /\ WellChunked(cols'[j])
                                /\ cols'[j].size = cols'[1].size
             /\ \A j \in (w + 1)..col_size' : Reached(cols'[j]) /\ cols'[j].size <= row_size'
             /\ row_size' <= cols'[1].size
             /\ seen' = << >> /\ given' \in Seq(Cells)
             /\ UNCHANGED <<up, types, row>>
      PROVE  Sound'
  <2>1. TypeOK'
    BY <1>b DEF Sound, TypeOK
  <2>2. ColumnsWellChunked' /\ ColumnsInStep'
    BY <1>0, <1>b DEF ColumnsWellChunked, ColumnsInStep
  <2>3. \A j \in Added' : cols'[j].size <= row_size'
    BY <1>b DEF Added
  <2>4. \A j \in DOMAIN cols' : Reached(cols'[j])
    <3> SUFFICES ASSUME NEW j \in DOMAIN cols' PROVE Reached(cols'[j])
      BY DEF Reached
    <3>1. j \in 1..col_size'
      BY <1>b
    <3>2. CASE j \in 1..w
      <4>1. cols'[j] \in Columns /\ WellChunked(cols'[j])
        BY <1>b, <3>2
      <4> QED
        BY <4>1, WellChunkedReaches
    <3>3. CASE j \notin 1..w
      <4>1. w \in Nat /\ col_size' \in Nat
        BY <1>0, <1>b
      <4> HIDE DEF w
      <4>2. j \in (w + 1)..col_size'
        BY <3>1, <3>3, <4>1
      <4> QED
        BY <1>b, <4>2
    <3> QED
      BY <3>2, <3>3
  <2> QED
    BY <1>0, <1>b, <2>1, <2>2, <2>3, <2>4 DEF Sound
<1>c. /\ \A j \in 1..w : /\ cols[j].type = types[j] /\ WellChunked(cols[j])
                         /\ cols[j].size = cols[1].size
      /\ \A j \in 1..col_size : Reached(cols[j])
      /\ \A j \in (w + 1)..col_size : cols[j].size <= row_size
      /\ row_size <= cols[1].size
  BY <1>0 DEF Sound, TypeOK, ColumnsWellChunked, ColumnsInStep, Added
<1>1. ASSUME RenewRow, ~Crash
      PROVE  Sound'
  <2>1. PICK ts \in Spellings : row' = NewColumns(ts)
    BY <1>1 DEF RenewRow
  <2>2. /\ Quiet(<< >>) /\ UNCHANGED <<up, types, intact, col_size, row_size, cols>>
    BY <1>1 DEF RenewRow
  <2>3. /\ NewColumns(ts) \in Seq(Fields) /\ DOMAIN NewColumns(ts) = DOMAIN ts
        /\ [j \in DOMAIN NewColumns(ts) |-> NewColumns(ts)[j].type] = ts
        /\ \A j \in DOMAIN ts : NewColumns(ts)[j].size = 0 /\ WellChunked(NewColumns(ts)[j])
    <3>1. ts \in Seq(Types \cup {"?"})
      BY SpellingsTyped DEF Sound, TypeOK
    <3> QED
      BY <3>1, NewFieldsSound
  <2>4. intact => ts = types
    BY DEF Spellings
  <2>5. seen' \in Seq(Seq(Cells \cup {Unset})) /\ given' \in Seq(Cells)
    BY <2>2 DEF Quiet
  <2> QED
    BY <1>a, <2>1, <2>2, <2>3, <2>4, <2>5
<1>2. ASSUME NEW j \in DOMAIN cols, NEW v \in ValuesOf[cols[j].type], SetField(j, v)
      PROVE  Sound'
  <2> DEFINE new == IF row[j].size = 0 THEN PushBack(row[j], v) ELSE SetAt(row[j], 0, v)
  <2>1. /\ j \in DOMAIN row /\ row[j].type = cols[j].type /\ row[j].type \in Types
        /\ row[j] \in Columns /\ row[j].size \in {0, 1} /\ WellChunked(row[j])
    <3>1. j \in DOMAIN row /\ row[j].type = cols[j].type /\ cols[j] \in Columns
      BY <1>0, <1>2 DEF SetField, Fitting
    <3>2. row[j].type \in Types
      BY <3>1 DEF Columns
    <3> QED
      BY <1>r, <3>1, <3>2, FieldsAreColumns
  <2>2. new \in Columns /\ new.type = row[j].type /\ new.size = 1 /\ WellChunked(new)
    <3>1. CASE row[j].size = 0
      <4>1. v \in Cells
        BY <2>1, ValuesAreCells
      <4> QED
        BY <2>1, <3>1, <4>1, PushBackSound
    <3>2. CASE row[j].size = 1
      <4>1. Readable(row[j], 0)
        BY <2>1, <3>2, CountedIsReadable
      <4>2. Settable(row[j], 0)
        BY <4>1 DEF Settable
      <4> QED
        BY <2>1, <3>2, <4>1, <4>2, SetAtSound
    <3> QED
      BY <2>1, <3>1, <3>2
  <2>3. row' = [row EXCEPT ![j] = new]
    BY <1>2 DEF SetField
  <2> HIDE DEF new
  <2>4. /\ row' \in Seq(Fields) /\ DOMAIN row' = DOMAIN row
        /\ row'[j] = new /\ \A x \in DOMAIN row : x # j => row'[x] = row[x]
    <3>1. new \in Fields
      BY <2>2, FieldsAreColumns
    <3> QED
      BY <1>r, <2>1, <2>3, <3>1
  <2>5. \A x \in DOMAIN row' : /\ row'[x].type = row[x].type
                               /\ row'[x].size \in {0, 1} /\ WellChunked(row'[x])
    BY <1>r, <2>2, <2>4
  <2>6. [x \in DOMAIN row' |-> row'[x].type] = [x \in DOMAIN row |-> row[x].type]
    BY <2>4, <2>5
  <2>7. /\ seen' \in Seq(Seq(Cells \cup {Unset})) /\ given' \in Seq(Cells)
        /\ UNCHANGED <<up, types, intact, col_size, row_size, cols>>
    BY <1>2, <2>1, ValuesAreCells DEF SetField, Quiet
  <2> QED
    BY <1>a, <1>r, <2>4, <2>5, <2>6, <2>7
<1>3. ASSUME NEW j \in DOMAIN cols, NEW v \in ValuesOf[cols[j].type], SetFieldLost(j, v)
      PROVE  Sound'
  <2>1. cols[j].type \in Types
    BY <1>0 DEF Columns
  <2>2. /\ seen' \in Seq(Seq(Cells \cup {Unset})) /\ given' \in Seq(Cells)
        /\ UNCHANGED <<up, types, intact, col_size, row_size, cols, row>>
    BY <1>3, <2>1, ValuesAreCells DEF SetFieldLost, Quiet
  <2> QED
    BY <1>a, <1>r, <2>2
<1>4. CASE AddRow
  <2> DEFINE new(j) == PushBack(cols[j], Get(row[j], 0))
  <2>1. ASSUME NEW j \in 1..col_size
        PROVE  /\ new(j) \in Columns /\ new(j).type = cols[j].type
               /\ new(j).size = cols[j].size + 1 /\ Reached(new(j))
               /\ WellChunked(cols[j]) => WellChunked(new(j))
    <3>1. /\ cols[j] \in Columns /\ Reached(cols[j])
          /\ j \in DOMAIN row /\ row[j].type = cols[j].type /\ Readable(row[j], 0)
      BY <1>0, <1>4, <1>c DEF AddRow, Filled, Fitting
    <3>2. row[j] \in Columns
      BY <1>r, <3>1, FieldsAreColumns DEF Columns
    <3>3. Get(row[j], 0) \in Cells
      BY <3>1, <3>2, GetTyped
    <3> QED
      BY <3>1, <3>3, PushBackReaches, PushBackSound
  <2>2. cols' = [j \in 1..col_size |-> new(j)] /\ col_size' = col_size
    BY <1>0, <1>4 DEF AddRow
  <2> HIDE DEF new
  <2>3. /\ cols' \in Seq(Columns) /\ Len(cols') = col_size
        /\ \A j \in 1..col_size : cols'[j] = new(j)
    <3>1. cols' \in [1..col_size -> Columns]
      BY <2>1, <2>2
    <3> QED
      BY <1>0, <2>2, <3>1
  <2>4. \A j \in 1..col_size : /\ cols'[j].type = cols[j].type /\ Reached(cols'[j])
                               /\ cols'[j].size = cols[j].size + 1
                               /\ WellChunked(cols[j]) => WellChunked(cols'[j])
    BY <2>1, <2>3
  <2>5. 1 \in 1..w /\ \A j \in 1..w : j \in 1..col_size
    BY <1>0
  <2>6. \A j \in 1..w : /\ cols'[j].type = types[j] /\ WellChunked(cols'[j])
                        /\ cols'[j].size = cols'[1].size
    BY <1>c, <2>4, <2>5
  <2>7. /\ row_size' = row_size + 1 /\ intact' = intact /\ Quiet(<< >>)
        /\ UNCHANGED <<up, types, row>>
    BY <1>4 DEF AddRow
  <2>8. row_size' \in Nat /\ row_size' <= cols'[1].size
    BY <1>0, <1>c, <2>4, <2>5, <2>7
  <2>9. \A j \in (w + 1)..col_size : Reached(cols'[j]) /\ cols'[j].size <= row_size'
    <3> SUFFICES ASSUME NEW j \in (w + 1)..col_size
                 PROVE  Reached(cols'[j]) /\ cols'[j].size <= row_size'
      OBVIOUS
    <3>1. j \in 1..col_size
      BY <1>0
    <3>2. cols[j].size <= row_size /\ cols[j].size \in Nat
      BY <1>0, <1>c, <3>1
    <3>3. Reached(cols'[j]) /\ cols'[j].size = cols[j].size + 1
      BY <2>4, <3>1
    <3> QED
      BY <1>0, <2>7, <3>2, <3>3
  <2>10. seen' = << >> /\ given' \in Seq(Cells)
    BY <2>7 DEF Quiet
  <2> QED
    BY <1>0, <1>b, <1>r, <2>2, <2>3, <2>6, <2>7, <2>8, <2>9, <2>10
<1>5. ASSUME NEW v \in ValuesOf["F"], PushValue(v)
      PROVE  Sound'
  <2> DEFINE new == PushBack(cols[1], v)
  <2>1. w = 1 /\ v \in Cells /\ row_size = 0
    BY <1>5 DEF PushValue, Cells
  <2>2. new \in Columns /\ new.type = types[1] /\ WellChunked(new) /\ new.size \in Nat
    <3>1. cols[1] \in Columns /\ WellChunked(cols[1]) /\ cols[1].type = types[1]
      BY <1>0, <1>c
    <3> QED
      BY <1>0, <2>1, <3>1, PushBackSound
  <2>3. cols' = [cols EXCEPT ![1] = new]
    BY <1>5 DEF PushValue
  <2> HIDE DEF new
  <2>4. /\ cols' \in Seq(Columns) /\ Len(cols') = col_size /\ cols'[1] = new
        /\ \A j \in 2..col_size : cols'[j] = cols[j]
    BY <1>0, <2>2, <2>3
  <2>5. /\ seen' = << >> /\ given' \in Seq(Cells)
        /\ UNCHANGED <<up, types, intact, col_size, row_size, row>>
    BY <1>5, <2>1 DEF PushValue, Quiet
  <2>6. \A j \in 2..col_size : Reached(cols'[j]) /\ cols'[j].size <= row_size
    BY <1>0, <1>c, <2>1, <2>4
  <2> QED
    BY <1>0, <1>b, <1>c, <1>r, <2>1, <2>2, <2>4, <2>5, <2>6
<1>6. ASSUME NEW t \in AddedTypes, AddColumn(t)
      PROVE  Sound'
  <2> DEFINE new == NewColumn(t)
  <2>1. new \in Columns /\ new.size = 0 /\ Reached(new)
    BY BoundsTyped, NewColumnSound, WellChunkedReaches
  <2>2. cols' = Append(cols, new) /\ col_size' = col_size + 1
    BY <1>6 DEF AddColumn
  <2> HIDE DEF new
  <2>3. /\ cols' \in Seq(Columns) /\ Len(cols') = col_size'
        /\ \A j \in 1..col_size : cols'[j] = cols[j]
        /\ cols'[col_size + 1] = new
    <3>1. cols \in Seq(Columns) /\ Len(cols) = col_size /\ col_size \in Nat
      BY <1>0
    <3>2. Append(cols, new) \in Seq(Columns) /\ Len(Append(cols, new)) = col_size + 1
      BY <2>1, <3>1
    <3>3. /\ \A j \in 1..col_size : Append(cols, new)[j] = cols[j]
          /\ Append(cols, new)[col_size + 1] = new
      BY <2>1, <3>1
    <3> QED
      BY <2>2, <3>2, <3>3
  <2>4. /\ seen' = << >> /\ given' \in Seq(Cells)
        /\ UNCHANGED <<up, types, intact, row_size, row>>
    BY <1>6 DEF AddColumn, Quiet
  <2>5. \A j \in 1..w : j \in 1..col_size
    BY <1>0
  <2>6. \A j \in (w + 1)..col_size' : Reached(cols'[j]) /\ cols'[j].size <= row_size'
    <3> SUFFICES ASSUME NEW j \in (w + 1)..col_size'
                 PROVE  Reached(cols'[j]) /\ cols'[j].size <= row_size'
      OBVIOUS
    <3>1. j \in (w + 1)..col_size \/ j = col_size + 1
      <4>1. w \in Nat /\ col_size \in Nat /\ col_size' = col_size + 1
        BY <1>0, <2>2
      <4> HIDE DEF w
      <4> QED
        BY <4>1
    <3>2. CASE j \in (w + 1)..col_size
      <4>1. j \in 1..col_size
        BY <1>0, <3>2
      <4> QED
        BY <1>c, <2>3, <2>4, <3>2, <4>1
    <3>3. CASE j = col_size + 1
      BY <1>0, <2>1, <2>3, <2>4, <3>3
    <3> QED
      BY <3>1, <3>2, <3>3
  <2>7. /\ \A j \in 1..w : cols'[j] = cols[j]
        /\ cols'[1] = cols[1]
    BY <1>0, <2>3, <2>5
  <2>8. /\ col_size' \in Nat /\ w <= col_size' /\ row_size' \in Nat /\ intact' \in BOOLEAN
        /\ row_size' <= cols'[1].size
    BY <1>0, <1>c, <1>r, <2>2, <2>4, <2>7
  <2>9. \A j \in 1..w : /\ cols'[j].type = types[j] /\ WellChunked(cols'[j])
                       /\ cols'[j].size = cols'[1].size
    BY <1>c, <2>7
  <2> QED
    BY <1>b, <2>3, <2>4, <2>6, <2>8, <2>9
<1>7. ASSUME NEW c \in Cell, NEW v \in ValuesOf[cols[c[1]].type], SetCell(c[1], c[2], v)
      PROVE  Sound'
  <2> DEFINE j == c[1]
             i == c[2]
             new == SetAt(cols[j], i, v)
  <2>1. /\ j \in 1..col_size /\ i \in Nat /\ IsIndex(j, i) /\ Settable(cols[j], i)
        /\ cols' = [cols EXCEPT ![j] = new]
        /\ Quiet(<< v >>) /\ UNCHANGED <<up, types, intact, col_size, row_size, row>>
    BY <1>7, BoundsTyped DEF Cell, SetCell
  <2>2. /\ new \in Columns /\ new.type = cols[j].type /\ new.size = cols[j].size
        /\ Len(new.chunks) = Len(cols[j].chunks) /\ v \in Cells
        /\ Readable(cols[j], i) /\ WellChunked(cols[j]) => WellChunked(new)
    <3> HIDE DEF j, i
    <3>1. cols[j] \in Columns /\ v \in ValuesOf[cols[j].type]
      BY <1>0, <2>1 DEF j
    <3>2. v \in Cells
      BY <3>1, ValuesAreCells DEF Columns
    <3> QED
      BY <2>1, <3>1, <3>2, SetAtSound
  <2> HIDE DEF new, j, i
  <2>3. j \in 1..w => WellChunked(new)
    <3> SUFFICES ASSUME j \in 1..w PROVE WellChunked(new)
      OBVIOUS
    <3>1. i < cols[j].size
      BY <1>0, <1>c, <2>1 DEF IsIndex
    <3>2. WellChunked(cols[j]) /\ cols[j] \in Columns
      BY <1>0, <1>c
    <3>3. Readable(cols[j], i)
      BY <2>1, <3>1, <3>2, CountedIsReadable
    <3> QED
      BY <2>2, <3>2, <3>3
  <2>4. /\ cols' \in Seq(Columns) /\ Len(cols') = col_size /\ cols'[j] = new
        /\ \A x \in 1..col_size : x # j => cols'[x] = cols[x]
    BY <1>0, <2>1, <2>2
  <2>5. \A x \in 1..col_size : /\ cols'[x].type = cols[x].type /\ cols'[x].size = cols[x].size
                              /\ Reached(cols'[x])
    <3>1. Reached(new)
      BY <1>c, <2>1, <2>2 DEF Reached
    <3> QED
      BY <1>c, <2>2, <2>4, <3>1
  <2>6. \A x \in 1..w : x \in 1..col_size /\ WellChunked(cols'[x])
    BY <1>0, <1>c, <2>3, <2>4
  <2>7. cols'[1].size = cols[1].size
    BY <1>0, <2>5
  <2>8. \A x \in 1..w : /\ cols'[x].type = types[x] /\ WellChunked(cols'[x])
                       /\ cols'[x].size = cols'[1].size
    BY <1>c, <2>5, <2>6, <2>7
  <2>9. \A x \in (w + 1)..col_size : Reached(cols'[x]) /\ cols'[x].size <= row_size
    <3>1. \A x \in (w + 1)..col_size : x \in 1..col_size
      BY <1>0
    <3> QED
      BY <1>c, <2>5, <3>1
  <2>10. seen' = << >> /\ given' \in Seq(Cells)
    BY <2>1, <2>2 DEF Quiet
  <2> QED
    BY <1>0, <1>b, <1>c, <1>r, <2>1, <2>4, <2>7, <2>8, <2>9, <2>10
<1>8. CASE Map
  <2> DEFINE shown == Cells \cup {Unset}
  <2>1. PICK ts \in [1..row_size -> {t \in Spellings : Survivable(t)}] :
               seen' = [k \in 1..row_size |-> Shown(ts[k], k - 1)]
    BY <1>8 DEF Map
  <2>2. ASSUME NEW k \in 1..row_size
        PROVE  Shown(ts[k], k - 1) \in Seq(shown)
    <3> DEFINE t == ts[k]
               i == k - 1
    <3>1. t \in Seq(Types \cup {"?"})
      <4>1. t \in Spellings
        BY <2>1
      <4> QED
        BY <4>1, SpellingsTyped DEF Sound, TypeOK
    <3>2. i \in Nat /\ i \in 0..(row_size - 1)
      BY <1>0
    <3> HIDE DEF t, i
    <3>3. \A j \in 1..col_size : Get(cols[j], i) \in Cells
      <4> SUFFICES ASSUME NEW j \in 1..col_size PROVE Get(cols[j], i) \in Cells
        OBVIOUS
      <4>1. cols[j] \in Columns /\ Readable(cols[j], i)
        BY <1>0, <1>8, <3>2 DEF Map
      <4> QED
        BY <3>2, <4>1, GetTyped
    <3>4. Shown(t, i) \in [1..Len(t) -> shown] /\ Len(t) \in Nat
      <4>1. DOMAIN t = 1..Len(t) /\ Len(t) \in Nat
        BY <3>1
      <4> QED
        BY <1>0, <3>3, <4>1 DEF Shown
    <3>5. Shown(t, i) \in Seq(shown)
      BY <3>4
    <3> QED
      BY <3>5 DEF t, i
  <2> HIDE DEF shown
  <2>3. seen' \in [1..row_size -> Seq(shown)]
    BY <2>1, <2>2
  <2>4. seen' \in Seq(Seq(shown))
    BY <1>0, <2>3
  <2>5. given' \in Seq(Cells) /\ UNCHANGED <<up, types, intact, col_size, row_size, cols, row>>
    BY <1>8 DEF Map
  <2> QED
    BY <1>a, <1>r, <2>4, <2>5 DEF shown
<1>9. ASSUME NEW c \in Cell, GetDouble(c[1], c[2])
      PROVE  Sound'
  <2>1. /\ c[1] \in 1..col_size /\ c[2] \in Nat /\ Readable(cols[c[1]], c[2])
        /\ seen' = << << Get(cols[c[1]], c[2]) >> >> /\ given' = << >>
        /\ UNCHANGED <<up, types, intact, col_size, row_size, cols, row>>
    BY <1>9, BoundsTyped DEF Cell, GetDouble
  <2>2. Get(cols[c[1]], c[2]) \in Cells \cup {Unset}
    BY <1>0, <2>1, GetTyped
  <2>3. seen' \in Seq(Seq(Cells \cup {Unset})) /\ given' \in Seq(Cells)
    BY <2>1, <2>2
  <2> QED
    BY <1>a, <1>r, <2>1, <2>3
<1>10. CASE Reload
  <2>1. \A j \in 1..col_size :
           /\ Deserialized(cols[j]) \in Columns /\ WellChunked(Deserialized(cols[j]))
           /\ Deserialized(cols[j]).type = cols[j].type
           /\ Deserialized(cols[j]).size = cols[j].size
    BY <1>0, <1>10, DeserializedSound DEF Reload
  <2>2. cols' = [j \in 1..col_size |-> Deserialized(cols[j])]
    BY <1>0, <1>10 DEF Reload
  <2>3. cols' \in [1..col_size -> Columns]
    BY <2>1, <2>2
  <2>4. cols' \in Seq(Columns) /\ Len(cols') = col_size
    BY <1>0, <2>3
  <2>5. \A j \in 1..col_size :
           /\ WellChunked(cols'[j]) /\ Reached(cols'[j])
           /\ cols'[j].type = cols[j].type /\ cols'[j].size = cols[j].size
    <3>1. \A j \in 1..col_size : cols'[j] = Deserialized(cols[j])
      BY <2>2
    <3> QED
      BY <2>1, <3>1, WellChunkedReaches
  <2>6. cols'[1].size = cols[1].size /\ \A j \in 1..w : j \in 1..col_size
    BY <1>0, <2>5
  <2>7. \A j \in 1..w : /\ cols'[j].type = types[j] /\ WellChunked(cols'[j])
                       /\ cols'[j].size = cols'[1].size
    BY <1>c, <2>5, <2>6
  <2>8. \A j \in (w + 1)..col_size : Reached(cols'[j]) /\ cols'[j].size <= row_size
    <3>1. \A j \in (w + 1)..col_size : j \in 1..col_size
      BY <1>0
    <3> QED
      BY <1>c, <2>5, <3>1
  <2>9. /\ intact' = FALSE /\ seen' = << >> /\ given' \in Seq(Cells)
        /\ UNCHANGED <<up, types, col_size, row_size, row>>
    BY <1>10 DEF Reload, Quiet
  <2> QED
    BY <1>0, <1>b, <1>c, <2>4, <2>6, <2>7, <2>8, <2>9
<1>11. CASE Crash
  BY <1>11 DEF Crash, Sound, TypeOK, ColumnsWellChunked, ColumnsInStep, Added, Reached
<1>12. CASE UNCHANGED vars
  BY <1>12 DEF vars, Sound, TypeOK, ColumnsWellChunked, ColumnsInStep, Added, Reached
<1> QED
  BY <1>1, <1>2, <1>3, <1>4, <1>5, <1>6, <1>7, <1>8, <1>9, <1>10, <1>11, <1>12
  DEF Next, RowCall, FrameCall, SetFieldFails, AddRowFails, SetCellFails, MapFails, FilterFails,
      GetDoubleFails, ReloadFails

(* The type invariant; a field of the Row has one value or none.           *)
THEOREM TypeCorrect == Spec => []TypeOK
<1>1. Sound => TypeOK
  BY DEF Sound
<1> QED
  BY <1>1, SoundInit, SoundNext, PTL DEF Spec

(* Whatever the size of a chunk: however a column of the schema came       *)
(* about, its chunks are full but the last, and no element is missing.     *)
THEOREM ChunksCorrect == Spec => []ColumnsWellChunked
<1>1. Sound => ColumnsWellChunked
  BY DEF Sound
<1> QED
  BY <1>1, SoundInit, SoundNext, PTL DEF Spec

(* The columns of the schema have one length, whatever was added or went   *)
(* through the serializer.                                                 *)
THEOREM InStepCorrect == Spec => []ColumnsInStep
<1>1. Sound => ColumnsInStep
  BY DEF Sound
<1> QED
  BY <1>1, SoundInit, SoundNext, PTL DEF Spec

(* Every row that the schema counts is in every column of the schema.      *)
THEOREM RowsReadable == Spec => []EveryRowReadable
<1>1. Sound => EveryRowReadable
  <2> SUFFICES ASSUME Sound, NEW j \in DOMAIN types, NEW i \in 0..(row_size - 1)
               PROVE  Readable(cols[j], i)
    BY DEF EveryRowReadable
  <2>1. /\ types \in Schemas /\ row_size \in Nat /\ cols \in Seq(Columns)
        /\ Len(cols) = col_size /\ col_size \in Nat /\ Len(types) <= col_size
    BY DEF Sound, TypeOK
  <2>2. j \in 1..Len(types) /\ Len(types) \in Nat
    BY <2>1, SchemaTypes
  <2>3. cols[j] \in Columns /\ cols[1] \in Columns
    BY <2>1, <2>2
  <2>4. WellChunked(cols[j]) /\ cols[j].size = cols[1].size /\ row_size <= cols[1].size
    BY DEF Sound, ColumnsWellChunked, ColumnsInStep
  <2>5. i \in Nat /\ i < cols[j].size
    BY <2>1, <2>3, <2>4 DEF Columns
  <2> QED
    BY <2>3, <2>4, <2>5, CountedIsReadable
<1> QED
  BY <1>1, SoundInit, SoundNext, PTL DEF Spec

----------------------------------------------------------------------------
(* set stores the value, as the column can hold it, and moves no other.    *)
LEMMA SetAtReads ==
    ASSUME NEW c \in Columns, NEW i \in Nat, Readable(c, i), NEW v
    PROVE  /\ Get(SetAt(c, i, v), i) = Narrowed(c, v)
           /\ \A x \in Nat : Readable(c, x) /\ x # i => Get(SetAt(c, i, v), x) = Get(c, x)
<1> DEFINE id == ChunkOf(i)
           e == Within(i)
           old == c.chunks[id]
           w == Narrowed(c, v)
           chunk == [old EXCEPT ![e] = w]
           new == [c.chunks EXCEPT ![id] = chunk]
<1>1. /\ c.chunks \in Seq(Seq(Cells))
      /\ c = [type |-> c.type, chunks |-> c.chunks, size |-> c.size]
  BY DEF Columns
<1>2. id \in Nat \ {0} /\ e \in Nat \ {0}
  <2>1. id \in Nat \ {0} /\ e \in 1..ChunkSize
    BY IndexTypes
  <2> QED
    BY <2>1, ChunkSizePositive
<1>3. id <= Len(c.chunks) /\ e <= Len(old)
  BY DEF Readable, HasChunk
<1>4. id \in DOMAIN c.chunks /\ old \in Seq(Cells)
  BY <1>1, <1>2, <1>3
<1>5. e \in DOMAIN old /\ old # << >>
  BY <1>2, <1>3, <1>4
<1>6. SetAt(c, i, v).chunks = new
  <2>1. SetAt(c, i, v) = [c EXCEPT !.chunks = new]
    BY <1>5 DEF SetAt
  <2> QED
    BY <1>1, <2>1
<1>7. /\ new[id] = chunk /\ chunk[e] = w
      /\ \A p \in DOMAIN c.chunks : p # id => new[p] = c.chunks[p]
      /\ \A f \in DOMAIN old : f # e => chunk[f] = old[f]
  <2> HIDE DEF old, w, id, e
  <2>1. chunk[e] = w /\ \A f \in DOMAIN old : f # e => chunk[f] = old[f]
    BY <1>5
  <2> HIDE DEF chunk
  <2> QED
    BY <1>4, <2>1
<1> HIDE DEF new, chunk, w
<1>8. Get(SetAt(c, i, v), i) = w
  BY <1>6, <1>7 DEF Get
<1>9. ASSUME NEW x \in Nat, Readable(c, x), x # i
      PROVE  Get(SetAt(c, i, v), x) = Get(c, x)
  <2> DEFINE p == ChunkOf(x)
             f == Within(x)
  <2>1. p \in Nat \ {0} /\ f \in 1..ChunkSize /\ (p = id => f # e)
    BY <1>9, IndexTypes
  <2>2. p <= Len(c.chunks) /\ f <= Len(c.chunks[p])
    BY <1>9 DEF Readable, HasChunk
  <2> HIDE DEF p, f
  <2>3. p \in DOMAIN c.chunks
    BY <1>1, <2>1, <2>2
  <2>4. c.chunks[p] \in Seq(Cells)
    BY <1>1, <2>3
  <2>5. f \in DOMAIN c.chunks[p]
    BY <2>1, <2>2, <2>4, ChunkSizePositive
  <2>6. new[p][f] = c.chunks[p][f]
    BY <1>7, <2>1, <2>3, <2>5
  <2> QED
    BY <1>6, <2>6 DEF Get, p, f
<1> QED
  BY <1>8, <1>9 DEF w

(* What Sound says of the columns of the schema and of the Row.            *)
LEMMA Shape ==
    ASSUME Sound
    PROVE  /\ Len(types) \in Nat \ {0} /\ DOMAIN types = 1..Len(types) /\ Len(types) <= col_size
           /\ \A j \in DOMAIN types : types[j] \in Types
           /\ Len(cols) = col_size /\ col_size \in Nat /\ row_size \in Nat
           /\ cols \in Seq(Columns) /\ DOMAIN cols = 1..col_size
           /\ \A j \in DOMAIN cols : cols[j] \in Columns /\ cols[j].type \in Types
           /\ \A j \in DOMAIN types :
                 /\ j \in DOMAIN cols /\ cols[j] \in Columns /\ WellChunked(cols[j])
                 /\ cols[j].type = types[j] /\ cols[j].size = cols[1].size
           /\ cols[1].size \in Nat /\ row_size <= cols[1].size
           /\ \A j \in Added : cols[j].size <= row_size
<1>1. Len(types) \in Nat \ {0} /\ DOMAIN types = 1..Len(types)
      /\ \A j \in DOMAIN types : types[j] \in Types
  BY SchemaTypes DEF Sound, TypeOK
<1>2. /\ cols \in Seq(Columns) /\ Len(cols) = col_size /\ col_size \in Nat /\ row_size \in Nat
      /\ Len(types) <= col_size
  BY DEF Sound, TypeOK
<1>3. /\ DOMAIN cols = 1..col_size /\ 1 \in DOMAIN types
      /\ \A j \in DOMAIN types : j \in DOMAIN cols /\ cols[j] \in Columns
      /\ \A j \in DOMAIN cols : cols[j] \in Columns
  BY <1>1, <1>2
<1>4. cols[1].size \in Nat /\ \A j \in DOMAIN cols : cols[j].type \in Types
  BY <1>3 DEF Columns
<1> QED
  BY <1>1, <1>2, <1>3, <1>4 DEF Sound, ColumnsWellChunked, ColumnsInStep

LEMMA RowShape ==
    ASSUME Sound
    PROVE  /\ row \in Seq(Fields) /\ DOMAIN row = 1..Len(row) /\ Len(row) \in Nat
           /\ \A j \in DOMAIN row :
                 /\ row[j] \in Fields /\ WellChunked(row[j]) /\ row[j].size \in {0, 1}
           /\ intact => Len(row) = Len(types)
<1>1. row \in Seq(Fields) /\ DOMAIN row = 1..Len(row) /\ Len(row) \in Nat
  BY DEF Sound, TypeOK
<1>2. ASSUME intact PROVE Len(row) = Len(types)
  <2>1. types = [j \in DOMAIN row |-> row[j].type]
    BY <1>2 DEF Sound, TypeOK
  <2>2. DOMAIN types = DOMAIN row
    BY <2>1
  <2>3. 1..Len(row) = 1..Len(types) /\ Len(types) \in Nat
    BY <1>1, <2>2, Shape
  <2> QED
    BY <1>1, <2>3
<1> QED
  BY <1>1, <1>2 DEF Sound, TypeOK

(* A table of the same height that agrees in every field is the same.      *)
LEMMA ContentIs ==
    /\ DOMAIN Content = 1..cols[1].size
    /\ \A i \in DOMAIN Content :
          DOMAIN Content[i] = DOMAIN types /\ \A j \in DOMAIN types : Content[i][j] = Get(cols[j], i - 1)
BY DEF Content, RowAt

(* set changes one field of one row of the table.                          *)
LEMMA SetLocal ==
    ASSUME Sound, NEW j \in DOMAIN types, NEW i \in Nat, NEW v, i < cols[j].size,
           cols' = [cols EXCEPT ![j] = SetAt(@, i, v)], UNCHANGED types,
           SetAt(cols[j], i, v).size = cols[j].size
    PROVE  Content' = [Content EXCEPT ![i + 1][j] = Narrowed(cols[j], v)]
<1> DEFINE w == Narrowed(cols[j], v)
           n == cols[1].size
           new == SetAt(cols[j], i, v)
<1>1. /\ n \in Nat /\ cols[j].size = n /\ j \in DOMAIN cols /\ 1 \in DOMAIN types
      /\ \A x \in DOMAIN types : /\ x \in DOMAIN cols /\ cols[x] \in Columns
                                 /\ WellChunked(cols[x]) /\ cols[x].size = n
  BY Shape
<1>2. \A x \in DOMAIN types, r \in 0..(n - 1) : Readable(cols[x], r)
  <2> SUFFICES ASSUME NEW x \in DOMAIN types, NEW r \in 0..(n - 1) PROVE Readable(cols[x], r)
    OBVIOUS
  <2>1. r \in Nat /\ r < cols[x].size
    BY <1>1
  <2> QED
    BY <1>1, <2>1, CountedIsReadable
<1>3. i \in 0..(n - 1)
  BY <1>1
<1>4. /\ Get(new, i) = w
      /\ \A r \in 0..(n - 1) : r # i => Get(new, r) = Get(cols[j], r)
  BY <1>1, <1>2, <1>3, SetAtReads
<1>5. cols' = [cols EXCEPT ![j] = new]
  OBVIOUS
<1> HIDE DEF new, w
<1>6. cols'[j] = new /\ \A x \in DOMAIN types : x # j => cols'[x] = cols[x]
  BY <1>1, <1>5
<1>7. cols'[1].size = n
  BY <1>1, <1>6 DEF new
<1>8. \A r \in 0..(n - 1) : \A x \in DOMAIN types :
          Get(cols'[x], r) = IF x = j /\ r = i THEN w ELSE Get(cols[x], r)
  BY <1>4, <1>6
<1> HIDE DEF n
<1>9. Content' = [k \in 1..n |-> [x \in DOMAIN types |-> IF x = j /\ k = i + 1 THEN w ELSE Get(cols[x], k - 1)]]
  <2>1. \A k \in 1..n : k - 1 \in 0..(n - 1) /\ (k - 1 = i <=> k = i + 1)
    BY <1>1
  <2>2. \A k \in 1..n : [x \in DOMAIN types |-> Get(cols'[x], k - 1)]
            = [x \in DOMAIN types |-> IF x = j /\ k = i + 1 THEN w ELSE Get(cols[x], k - 1)]
    BY <1>8, <2>1
  <2> QED
    BY <1>7, <2>2 DEF Content, RowAt
<1>10. [Content EXCEPT ![i + 1][j] = w]
     = [k \in 1..n |-> [x \in DOMAIN types |-> IF x = j /\ k = i + 1 THEN w ELSE Get(cols[x], k - 1)]]
  <2>1. i + 1 \in 1..n
    BY <1>1, <1>3
  <2>2. Content = [k \in 1..n |-> [x \in DOMAIN types |-> Get(cols[x], k - 1)]]
    BY DEF Content, RowAt, n
  <2>3. [Content EXCEPT ![i + 1][j] = w]
      = [k \in 1..n |-> IF k = i + 1 THEN [Content[k] EXCEPT ![j] = w] ELSE Content[k]]
    BY <2>1, <2>2
  <2>4. \A k \in 1..n : (IF k = i + 1 THEN [Content[k] EXCEPT ![j] = w] ELSE Content[k])
            = [x \in DOMAIN types |-> IF x = j /\ k = i + 1 THEN w ELSE Get(cols[x], k - 1)]
    <3> TAKE k \in 1..n
    <3>1. Content[k] = [x \in DOMAIN types |-> Get(cols[x], k - 1)]
      BY <2>2
    <3>2. CASE k = i + 1
      BY <3>1, <3>2
    <3>3. CASE k # i + 1
      BY <3>1, <3>3
    <3> QED
      BY <3>2, <3>3
  <2> QED
    BY <2>3, <2>4
<1> QED
  BY <1>9, <1>10 DEF w

LEMMA SetCellLocal ==
    ASSUME Sound, NEW c \in Cell, NEW v \in ValuesOf[cols[c[1]].type],
           SetCell(c[1], c[2], v), c[1] \in DOMAIN types
    PROVE  /\ Content' = [Content EXCEPT ![c[2] + 1][c[1]] = Narrowed(cols[c[1]], v)]
           /\ c[2] + 1 \in DOMAIN Content /\ Narrowed(cols[c[1]], v) \in Cells
<1> DEFINE j == c[1]
           i == c[2]
<1>1. /\ i \in Nat /\ IsIndex(j, i) /\ Settable(cols[j], i) /\ UNCHANGED types
      /\ cols' = [cols EXCEPT ![j] = SetAt(@, i, v)] /\ v \in ValuesOf[cols[j].type]
  BY BoundsTyped DEF Cell, SetCell
<1>2. /\ cols[j] \in Columns /\ cols[j].size = cols[1].size
      /\ row_size \in Nat /\ row_size <= cols[1].size /\ cols[1].size \in Nat
  BY Shape
<1> HIDE DEF j, i
<1>3. i < cols[j].size
  BY <1>1, <1>2 DEF IsIndex
<1>4. SetAt(cols[j], i, v).size = cols[j].size /\ Narrowed(cols[j], v) \in Cells
  BY <1>1, <1>2, SetAtSound, NarrowedTyped
<1>5. Content' = [Content EXCEPT ![i + 1][j] = Narrowed(cols[j], v)]
  BY <1>1, <1>3, <1>4, SetLocal DEF j
<1>6. i + 1 \in DOMAIN Content
  BY <1>1, <1>2, <1>3, ContentIs
<1> QED
  BY <1>4, <1>5, <1>6 DEF j, i

(* set of a column of the schema changes that field of that row and no     *)
(* other, for any size of a chunk.                                         *)
THEOREM SetStaysLocal == Spec => SetIsLocal
<1> DEFINE Local(c, v) ==
              SetCell(c[1], c[2], v) /\ c[1] \in DOMAIN types =>
                  /\ Len(Content') = Len(Content)
                  /\ \A i \in DOMAIN Content : \A j \in DOMAIN types :
                        i # c[2] + 1 \/ j # c[1] => Content'[i][j] = Content[i][j]
<1>1. ASSUME Sound, NEW c \in Cell, NEW v \in ValuesOf[cols[c[1]].type]
      PROVE  Local(c, v)
  <2> SUFFICES ASSUME SetCell(c[1], c[2], v), c[1] \in DOMAIN types
               PROVE  /\ Len(Content') = Len(Content)
                      /\ \A i \in DOMAIN Content : \A j \in DOMAIN types :
                            i # c[2] + 1 \/ j # c[1] => Content'[i][j] = Content[i][j]
    OBVIOUS
  <2> DEFINE n == cols[1].size
             r == c[2] + 1
             new == [Content[r] EXCEPT ![c[1]] = Narrowed(cols[c[1]], v)]
  <2>1. Content' = [Content EXCEPT ![r] = new]
    BY <1>1, SetCellLocal
  <2>2. /\ n \in Nat /\ DOMAIN Content = 1..n /\ Content = [k \in 1..n |-> RowAt(k - 1)]
        /\ \A i \in 1..n : DOMAIN Content[i] = DOMAIN types
    BY <1>1, Shape, ContentIs DEF Content
  <2>3. r \in 1..n => \A j \in DOMAIN types : j # c[1] => new[j] = Content[r][j]
    BY <2>2
  <2> HIDE DEF n, r, new
  <2>4. DOMAIN Content' = 1..n
    BY <2>1, <2>2
  <2>5. Len(Content') = n /\ Len(Content) = n
    BY <2>2, <2>4
  <2>6. \A i \in 1..n : i # r => Content'[i] = Content[i]
    BY <2>1, <2>2
  <2>7. r \in 1..n => Content'[r] = new
    BY <2>1, <2>2
  <2>8. \A i \in 1..n : \A j \in DOMAIN types : i # r \/ j # c[1] => Content'[i][j] = Content[i][j]
    BY <2>3, <2>6, <2>7
  <2> QED
    BY <2>2, <2>5, <2>8 DEF r
<1>2. Sound /\ [Next]_vars =>
          [\A c \in Cell : \A v \in ValuesOf[cols[c[1]].type] : Local(c, v)]_vars
  BY <1>1
<1> QED
  BY <1>2, SoundInit, SoundNext, PTL DEF Spec, SetIsLocal

----------------------------------------------------------------------------
(* The row that is filled, as the table has it.                            *)
Filling == [j \in DOMAIN row |-> IF row[j].size = 0 THEN Unset ELSE Get(row[j], 0)]

SameTable ==
    /\ Content' = Content /\ Filling' = Filling
    /\ UNCHANGED <<row_size, types, intact, col_size>>

(* Calls that leave the columns of the schema and the Row alone leave the  *)
(* table alone.                                                            *)
LEMMA SameRows ==
    ASSUME Sound, UNCHANGED types, cols'[1].size = cols[1].size,
           \A j \in DOMAIN types : \A i \in 0..(cols[1].size - 1) : Get(cols'[j], i) = Get(cols[j], i)
    PROVE  Content' = Content
<1>1. cols[1].size \in Nat
  BY Shape
<1> DEFINE n == cols[1].size
<1>2. n \in Nat /\ cols'[1].size = n
  BY <1>1
<1>3. \A j \in DOMAIN types : \A i \in 0..(n - 1) : Get(cols'[j], i) = Get(cols[j], i)
  OBVIOUS
<1>4. Content = [k \in 1..n |-> [j \in DOMAIN types |-> Get(cols[j], k - 1)]]
  BY DEF Content, RowAt
<1>5. Content' = [k \in 1..n |-> [j \in DOMAIN types |-> Get(cols'[j], k - 1)]]
  BY <1>2 DEF Content, RowAt
<1> HIDE DEF n
<1>6. \A k \in 1..n : k - 1 \in 0..(n - 1)
  BY <1>2
<1> QED
  BY <1>3, <1>4, <1>5, <1>6

LEMMA SameFilling ==
    ASSUME UNCHANGED row
    PROVE  Filling' = Filling
BY DEF Filling

(* The field of a Row that was set holds a cell.                           *)
LEMMA FieldIs ==
    ASSUME Sound, NEW j \in DOMAIN row, row[j].type \in Types
    PROVE  /\ row[j] \in Columns
           /\ row[j].size = 1 => Get(row[j], 0) \in Cells
           /\ Readable(row[j], 0) => row[j].size = 1
<1>1. row[j] \in Columns /\ WellChunked(row[j]) /\ row[j].size \in {0, 1}
  BY RowShape, FieldsAreColumns
<1>2. row[j].size = 1 => Get(row[j], 0) \in Cells
  BY <1>1, CountedIsReadable, GetTyped
<1>3. ASSUME Readable(row[j], 0) PROVE row[j].size # 0
  <2>1. ChunkOf(0) = 1 /\ Within(0) = 1
    BY IndexZero
  <2>2. 1 <= Len(row[j].chunks) /\ 1 <= Len(row[j].chunks[1])
    BY <1>3, <2>1 DEF Readable, HasChunk
  <2>3. 1 \in DOMAIN row[j].chunks
    BY <1>1, <2>2 DEF Columns
  <2>4. Len(row[j].chunks[1]) = Share(row[j].size, 1)
    BY <1>1, <2>3 DEF WellChunked
  <2> QED
    BY <2>1, <2>2, <2>4 DEF Share
<1> QED
  BY <1>1, <1>2, <1>3

LEMMA FillingIs ==
    ASSUME Sound
    PROVE  /\ DOMAIN Filling = 1..Len(row) /\ Len(Filling) = Len(row)
           /\ \E S : Filling \in Seq(S)
<1> DEFINE n == Len(row)
           S == {Filling[j] : j \in 1..n}
<1>1. n \in Nat /\ DOMAIN row = 1..n
  BY RowShape
<1>2. DOMAIN Filling = 1..n /\ Filling = [j \in 1..n |-> Filling[j]]
  BY <1>1 DEF Filling
<1> HIDE DEF n
<1>3. Filling \in [1..n -> S]
  BY <1>2
<1> HIDE DEF S
<1>4. Filling \in Seq(S)
  BY <1>1, <1>3
<1>5. Len(Filling) = n
  BY <1>1, <1>2, <1>4
<1> QED
  BY <1>2, <1>4, <1>5 DEF n

(* Setting a field of the Row keeps the value given, but for a later one   *)
(* that is rounded.                                                        *)
LEMMA SetFieldFills ==
    ASSUME Sound, NEW j \in DOMAIN cols, NEW v \in ValuesOf[cols[j].type], SetField(j, v)
    PROVE  /\ j \in DOMAIN Filling
           /\ \E kept \in Rows!Kept(v) :
                 /\ Filling[j] = Unset => kept = v
                 /\ Filling' = [Filling EXCEPT ![j] = kept]
<1> DEFINE new == IF row[j].size = 0 THEN PushBack(row[j], v) ELSE SetAt(row[j], 0, v)
<1>1. /\ j \in DOMAIN row /\ row[j].type = cols[j].type /\ cols[j].type \in Types
      /\ row[j] \in Columns /\ row[j].size \in {0, 1} /\ WellChunked(row[j]) /\ v \in Cells
  <2>1. j \in DOMAIN row /\ row[j].type = cols[j].type
    BY DEF SetField, Fitting
  <2>2. cols[j].type \in Types
    BY Shape
  <2> QED
    BY <2>1, <2>2, RowShape, FieldIs, ValuesAreCells
<1>2. new.size = 1 /\ Get(new, 0) \in Rows!Kept(v) /\ (Filling[j] = Unset => Get(new, 0) = v)
  <2>1. CASE row[j].size = 0
    <3>1. new.size = 1 /\ Get(new, 0) = v
      BY <1>1, <2>1, PushBackSound, PushBackReads
    <3> QED
      BY <3>1 DEF Rows!Kept
  <2>2. CASE row[j].size = 1
    <3>1. Readable(row[j], 0)
      BY <1>1, <2>2, CountedIsReadable
    <3>2. Settable(row[j], 0)
      BY <3>1 DEF Settable
    <3>3. new.size = 1 /\ Get(new, 0) = Narrowed(row[j], v)
      BY <1>1, <2>2, <3>1, <3>2, SetAtSound, SetAtReads
    <3>4. Narrowed(row[j], v) \in Rows!Kept(v)
      <4>1. CASE row[j].type = "F"
        <5>1. v \in DOMAIN AsFloat
          BY <1>1, <4>1, ValuesTyped
        <5> QED
          BY <4>1, <5>1 DEF Narrowed, Rows!Kept
      <4>2. CASE row[j].type # "F"
        BY <4>2 DEF Narrowed, Rows!Kept
      <4> QED
        BY <4>1, <4>2
    <3>5. Filling[j] # Unset
      <4>1. Filling[j] = Get(row[j], 0)
        BY <1>1, <2>2 DEF Filling
      <4> QED
        BY <1>1, <2>2, <4>1, FieldIs, UnsetIsNoCell
    <3> QED
      BY <3>3, <3>4, <3>5
  <2> QED
    BY <1>1, <2>1, <2>2
<1>3. row' = [row EXCEPT ![j] = new]
  BY DEF SetField
<1> HIDE DEF new
<1>4. Filling' = [Filling EXCEPT ![j] = Get(new, 0)] /\ j \in DOMAIN Filling
  <2>1. row'[j] = new /\ DOMAIN row' = DOMAIN row /\ \A x \in DOMAIN row : x # j => row'[x] = row[x]
    BY <1>1, <1>3
  <2>2. DOMAIN Filling = DOMAIN row /\ j \in DOMAIN row
    BY <1>1 DEF Filling
  <2>3. \A x \in DOMAIN row : (IF row'[x].size = 0 THEN Unset ELSE Get(row'[x], 0))
            = IF x = j THEN Get(new, 0) ELSE Filling[x]
    BY <1>2, <2>1 DEF Filling
  <2>4. Filling' = [x \in DOMAIN row |-> IF x = j THEN Get(new, 0) ELSE Filling[x]]
    BY <2>1, <2>3 DEF Filling
  <2> QED
    BY <2>2, <2>4
<1> QED
  BY <1>2, <1>4

LEMMA AppendIs ==
    ASSUME NEW n \in Nat, NEW s, s = [k \in 1..n |-> s[k]], NEW x
    PROVE  Append(s, x) = [k \in 1..(n + 1) |-> IF k = n + 1 THEN x ELSE s[k]]
<1> DEFINE S == {s[k] : k \in 1..n} \cup {x}
<1>1. s \in [1..n -> S] /\ x \in S
  OBVIOUS
<1> HIDE DEF S
<1>2. s \in Seq(S) /\ Len(s) = n
  BY <1>1
<1> QED
  BY <1>1, <1>2

(* A Row that is added is the next row, and moves no other.                *)
LEMMA AddRowAdds ==
    ASSUME Sound, AddRow
    PROVE  /\ Len(Filling) >= Len(types) /\ (intact => Len(Filling) = Len(types))
           /\ \A j \in 1..Len(types) : Filling[j] # Unset
           /\ Content' = Append(Content, SubSeq(Filling, 1, Len(types)))
<1> DEFINE n == cols[1].size
           w == Len(types)
           f(j) == Get(row[j], 0)
           fields == SubSeq(Filling, 1, w)
           m == Len(row)
<1>0. /\ w \in Nat \ {0} /\ n \in Nat /\ m \in Nat /\ DOMAIN row = 1..m
      /\ intact => m = w
  BY Shape, RowShape
<1>1. /\ DOMAIN types = 1..w /\ 1..w \subseteq DOMAIN cols
      /\ \A j \in 1..w : /\ cols[j] \in Columns /\ WellChunked(cols[j]) /\ cols[j].size = n
                         /\ cols[j].type \in Types
  BY Shape
<1>2. \A j \in 1..w : j \in DOMAIN row /\ row[j].size = 1 /\ f(j) \in Cells
  <2> SUFFICES ASSUME NEW j \in 1..w PROVE j \in DOMAIN row /\ row[j].size = 1 /\ f(j) \in Cells
    OBVIOUS
  <2>1. j \in DOMAIN row /\ row[j].type \in Types /\ Readable(row[j], 0)
    BY <1>1 DEF AddRow, Filled, Fitting
  <2> QED
    BY <2>1, FieldIs
<1>3. m >= w
  <2>1. w \in 1..w => w \in 1..m
    BY <1>0, <1>2
  <2> HIDE DEF m, w
  <2> QED
    BY <1>0, <2>1
<1>4. Len(Filling) = m /\ DOMAIN Filling = 1..m /\ \E S : Filling \in Seq(S)
  BY FillingIs
<1>5. \A j \in 1..w : Filling[j] = f(j)
  BY <1>2 DEF Filling
<1>6. fields = [j \in 1..w |-> f(j)]
  <2> HIDE DEF w, f, m, n
  <2>0. w \in Nat
    BY <1>0
  <2>1. SubSeq(Filling, 1, w) = [k \in 1..(1 + w - 1) |-> Filling[1 + k - 1]]
    BY <2>0
  <2>2. 1 + w - 1 = w /\ \A k \in 1..w : 1 + k - 1 = k
    BY <2>0
  <2>3. SubSeq(Filling, 1, w) = [k \in 1..w |-> Filling[k]]
    BY <2>1, <2>2
  <2> QED
    BY <1>5, <2>3
<1>7. cols' = [j \in DOMAIN cols |-> PushBack(cols[j], f(j))] /\ types' = types
  BY DEF AddRow
<1> HIDE DEF f
<1>8. \A j \in 1..w : /\ cols'[j] = PushBack(cols[j], f(j)) /\ cols'[j].size = n + 1
                      /\ Get(cols'[j], n) = f(j)
                      /\ \A i \in 0..(n - 1) : Get(cols'[j], i) = Get(cols[j], i)
  <2> SUFFICES ASSUME NEW j \in 1..w
               PROVE  /\ cols'[j] = PushBack(cols[j], f(j)) /\ cols'[j].size = n + 1
                      /\ Get(cols'[j], n) = f(j)
                      /\ \A i \in 0..(n - 1) : Get(cols'[j], i) = Get(cols[j], i)
    OBVIOUS
  <2>1. cols'[j] = PushBack(cols[j], f(j))
    BY <1>1, <1>7
  <2>2. cols[j] \in Columns /\ WellChunked(cols[j]) /\ cols[j].size = n /\ f(j) \in Cells
    BY <1>1, <1>2 DEF f
  <2> QED
    BY <2>1, <2>2, PushBackSound, PushBackReads
<1>9. cols'[1].size = n + 1
  <2>1. 1 \in 1..w
    BY <1>0
  <2> QED
    BY <1>8, <2>1
<1>10. Content' = [k \in 1..(n + 1) |-> [j \in 1..w |-> Get(cols'[j], k - 1)]]
  BY <1>1, <1>7, <1>9 DEF Content, RowAt
<1>11. Content = [k \in 1..n |-> [j \in 1..w |-> Get(cols[j], k - 1)]]
  BY <1>1 DEF Content, RowAt
<1> HIDE DEF n, w, fields, m
<1>12. Content = [k \in 1..n |-> Content[k]]
  BY <1>11
<1>13. Append(Content, fields) = [k \in 1..(n + 1) |-> IF k = n + 1 THEN fields ELSE Content[k]]
  BY <1>0, <1>12, AppendIs
<1>14. \A k \in 1..(n + 1) : [j \in 1..w |-> Get(cols'[j], k - 1)] = IF k = n + 1 THEN fields ELSE Content[k]
  <2> TAKE k \in 1..(n + 1)
  <2>1. CASE k = n + 1
    <3>1. k - 1 = n
      BY <1>0, <2>1
    <3>2. \A j \in 1..w : Get(cols'[j], k - 1) = f(j)
      BY <1>8, <3>1
    <3> QED
      BY <1>6, <2>1, <3>2
  <2>2. CASE k # n + 1
    <3>1. k \in 1..n /\ k - 1 \in 0..(n - 1)
      BY <1>0, <2>2
    <3> QED
      BY <1>8, <1>11, <2>2, <3>1
  <2> QED
    BY <2>1, <2>2
<1>15. Content' = Append(Content, fields)
  BY <1>10, <1>13, <1>14
<1>16. \A j \in 1..w : Filling[j] # Unset
  BY <1>2, <1>5, UnsetIsNoCell DEF f
<1>17. Len(Filling) >= w /\ (intact => Len(Filling) = w)
  BY <1>0, <1>3, <1>4
<1> QED
  BY <1>15, <1>16, <1>17 DEF w, fields

(* A value pushed into the only column is a row of one field.              *)
LEMMA PushValueLoads ==
    ASSUME Sound, NEW v \in ValuesOf["F"], PushValue(v)
    PROVE  v \in Cells /\ Content' = Append(Content, << v >>)
<1> DEFINE n == cols[1].size
<1>1. /\ types = << "F" >> /\ cols' = [cols EXCEPT ![1] = PushBack(@, v)] /\ types' = types
      /\ v \in Cells
  BY DEF PushValue, Cells
<1>2. DOMAIN types = {1}
  BY <1>1
<1>3. 1 \in DOMAIN cols /\ cols[1] \in Columns /\ WellChunked(cols[1]) /\ n \in Nat
  BY <1>2, Shape
<1>4. cols'[1] = PushBack(cols[1], v)
  BY <1>1, <1>3
<1>5. /\ cols'[1].size = n + 1 /\ Get(cols'[1], n) = v
      /\ \A i \in 0..(n - 1) : Get(cols'[1], i) = Get(cols[1], i)
  BY <1>1, <1>3, <1>4, PushBackSound, PushBackReads
<1>6. Content' = [k \in 1..(n + 1) |-> [j \in {1} |-> Get(cols'[1], k - 1)]]
  BY <1>1, <1>2, <1>5 DEF Content, RowAt
<1>7. Content = [k \in 1..n |-> [j \in {1} |-> Get(cols[1], k - 1)]]
  BY <1>2 DEF Content, RowAt
<1> HIDE DEF n
<1>8. Content = [k \in 1..n |-> Content[k]]
  BY <1>7
<1>9. Append(Content, << v >>) = [k \in 1..(n + 1) |-> IF k = n + 1 THEN << v >> ELSE Content[k]]
  BY <1>3, <1>8, AppendIs
<1>10. \A k \in 1..(n + 1) : [j \in {1} |-> Get(cols'[1], k - 1)] = IF k = n + 1 THEN << v >> ELSE Content[k]
  <2> TAKE k \in 1..(n + 1)
  <2>1. CASE k = n + 1
    <3>1. Get(cols'[1], k - 1) = v
      BY <1>3, <1>5, <2>1
    <3>2. << v >> = [j \in {1} |-> v]
      OBVIOUS
    <3> QED
      BY <2>1, <3>1, <3>2
  <2>2. CASE k # n + 1
    <3>1. k \in 1..n /\ k - 1 \in 0..(n - 1)
      BY <1>3, <2>2
    <3> QED
      BY <1>5, <1>7, <2>2, <3>1
  <2> QED
    BY <2>1, <2>2
<1> QED
  BY <1>1, <1>6, <1>9, <1>10

LEMMA ReloadKeeps ==
    ASSUME Sound, Reload
    PROVE  Content' = Content
<1>1. /\ DOMAIN types \subseteq DOMAIN cols /\ 1 \in DOMAIN types
      /\ \A j \in DOMAIN types : cols[j] \in Columns /\ cols[j].size = cols[1].size
      /\ cols[1].size \in Nat
  BY Shape
<1>2. \A j \in DOMAIN types : cols'[j] = Deserialized(cols[j])
  BY <1>1 DEF Reload
<1>3. \A j \in DOMAIN types : Serializable(cols[j])
  BY <1>1 DEF Reload
<1>4. cols'[1].size = cols[1].size
  BY <1>1, <1>2, <1>3, DeserializedSound
<1>5. ASSUME NEW j \in DOMAIN types, NEW i \in 0..(cols[1].size - 1)
      PROVE  Get(cols'[j], i) = Get(cols[j], i)
  <2>1. i \in Nat /\ i < cols[j].size
    BY <1>1
  <2> QED
    BY <1>1, <1>2, <2>1, DeserializedReads
<1>6. UNCHANGED types
  BY DEF Reload
<1> QED
  BY <1>4, <1>5, <1>6, SameRows

(* get_double reads a row of the table, if not one that was counted.       *)
LEMMA GetDoubleReads ==
    ASSUME Sound, NEW c \in Cell, GetDouble(c[1], c[2])
    PROVE  \E i \in DOMAIN Content : \E j \in 1..Len(types) : seen' = << << Content[i][j] >> >>
<1> DEFINE j == c[1]
           i == c[2]
<1>1. /\ j \in 1..col_size /\ i \in Nat /\ i >= row_size /\ (i < row_size \/ i < cols[j].size)
      /\ seen' = << << Get(cols[j], i) >> >>
  BY BoundsTyped DEF Cell, IsIndex, GetDouble
<1> HIDE DEF i, j
<1>2. row_size \in Nat /\ i < cols[j].size
  BY <1>1, Shape
<1>3. j \in DOMAIN types
  <2>1. /\ Len(types) \in Nat /\ DOMAIN types = 1..Len(types) /\ col_size \in Nat
        /\ \A x \in (Len(types) + 1)..col_size : cols[x].size <= row_size
    BY Shape DEF Added
  <2>2. ASSUME j \in (Len(types) + 1)..col_size PROVE FALSE
    <3>1. cols[j] \in Columns
      BY <1>1, Shape
    <3>2. cols[j].size \in Nat /\ cols[j].size <= row_size
      BY <2>1, <2>2, <3>1 DEF Columns
    <3> QED
      BY <1>1, <1>2, <3>2
  <2> QED
    BY <1>1, <2>1, <2>2
<1>4. i + 1 \in DOMAIN Content
  BY <1>1, <1>2, <1>3, Shape, ContentIs
<1>5. j \in 1..Len(types) /\ Content[i + 1][j] = Get(cols[j], i)
  <2>1. (i + 1) - 1 = i
    BY <1>1
  <2> QED
    BY <1>3, <1>4, <2>1, ContentIs, Shape
<1> QED
  BY <1>1, <1>4, <1>5

(* What a Rower sees of a row is that row of the table, or what is left of *)
(* it when the Row is made from a string of types that is gone.            *)
LEMMA MapSees ==
    ASSUME Sound, Map
    PROVE  /\ Len(seen') = row_size
           /\ \A i \in 1..row_size :
                 IF intact
                 THEN seen'[i] = Content[i]
                 ELSE \A j \in DOMAIN seen'[i] : j <= Len(types) => seen'[i][j] \in {Content[i][j], Unset}
<1>1. /\ row_size \in Nat /\ row_size <= cols[1].size /\ cols[1].size \in Nat
      /\ Len(types) \in Nat /\ DOMAIN types = 1..Len(types) /\ types \in Schemas
      /\ \A j \in DOMAIN types : j \in DOMAIN cols /\ cols[j].type = types[j]
  BY Shape DEF Sound, TypeOK
<1>2. PICK ts \in [1..row_size -> {t \in Spellings : Survivable(t)}] :
             seen' = [i \in 1..row_size |-> Shown(ts[i], i - 1)]
  BY DEF Map
<1>3. Len(seen') = row_size
  <2> DEFINE S == {Shown(ts[i], i - 1) : i \in 1..row_size}
  <2>1. seen' \in [1..row_size -> S]
    BY <1>2
  <2> HIDE DEF S
  <2> QED
    BY <1>1, <2>1
<1>4. ASSUME NEW i \in 1..row_size
      PROVE  IF intact
             THEN seen'[i] = Content[i]
             ELSE \A j \in DOMAIN seen'[i] : j <= Len(types) => seen'[i][j] \in {Content[i][j], Unset}
  <2> DEFINE t == ts[i]
  <2>1. seen'[i] = Shown(t, i - 1) /\ t \in Spellings
    BY <1>2
  <2>2. t \in Seq(Types \cup {"?"})
    BY <1>1, <2>1, SpellingsTyped
  <2>3. i \in DOMAIN Content
    BY <1>1, ContentIs
  <2>4. Content[i] = [j \in DOMAIN types |-> Get(cols[j], i - 1)]
    BY <2>3 DEF Content, RowAt
  <2> HIDE DEF t
  <2>5. CASE intact
    <3>1. t = types
      BY <2>1, <2>5 DEF Spellings
    <3>2. Shown(types, i - 1) = [j \in DOMAIN types |-> Get(cols[j], i - 1)]
      BY <1>1 DEF Shown
    <3> QED
      BY <2>1, <2>4, <2>5, <3>1, <3>2
  <2>6. CASE ~intact
    <3> SUFFICES ASSUME NEW j \in DOMAIN seen'[i], j <= Len(types)
                 PROVE  seen'[i][j] \in {Content[i][j], Unset}
      BY <2>6
    <3>1. j \in DOMAIN t
      BY <2>1 DEF Shown
    <3>2. j \in DOMAIN types
      BY <1>1, <2>2, <3>1
    <3> QED
      BY <2>1, <2>4, <3>1, <3>2 DEF Shown
  <2> QED
    BY <2>5, <2>6
<1> QED
  BY <1>3, <1>4

LEMMA RowsInit == Init => Rows!Init
<1> SUFFICES ASSUME Init PROVE Rows!Init
  OBVIOUS
<1>1. /\ DOMAIN types = 1..Len(types) /\ Len(types) \in Nat \ {0} /\ types \in Schemas
      /\ cols = NewColumns(types) /\ row = NewColumns(types)
  BY SchemaTypes DEF Init
<1>2. 1 \in DOMAIN types /\ \A j \in DOMAIN types : NewColumns(types)[j].size = 0
  BY <1>1, NewColumnsSound
<1>3. Content = << >>
  BY <1>1, <1>2 DEF Content
<1>4. Len(Filling) = Len(types) /\ \A j \in DOMAIN Filling : Filling[j] = Unset
  <2>1. DOMAIN row = DOMAIN types
    BY <1>1 DEF NewColumns
  <2>2. Len(Filling) = Len(row) /\ Len(row) = Len(types)
    BY <1>1, SoundInit, FillingIs, NewColumnsSound
  <2> QED
    BY <1>1, <1>2, <2>1, <2>2 DEF Filling
<1>5. (intact = TRUE) /\ (col_size > Len(types)) = FALSE /\ row_size = 0 /\ seen = << >> /\ given = << >>
  BY <1>1 DEF Init
<1> QED
  BY <1>3, <1>4, <1>5 DEF Rows!Init, Filling

(* Every call is a step of the table, or shows nothing.                    *)
LEMMA RowsStep ==
    ASSUME Sound, Sound', [Next]_vars
    PROVE  Rows!Next \/ (SameTable /\ UNCHANGED <<seen, given>>)
<1> USE DEF Filling
<1>0. Filling' = [j \in DOMAIN row' |-> IF row'[j].size = 0 THEN Unset ELSE Get(row'[j], 0)]
  OBVIOUS
<1>1. ASSUME RenewRow, ~Crash PROVE Rows!Next
  <2>1. PICK ts \in Spellings : row' = NewColumns(ts)
    BY <1>1 DEF RenewRow
  <2>2. /\ seen' = << >> /\ given' = << >>
        /\ UNCHANGED <<up, types, intact, col_size, row_size, cols>>
    BY <1>1 DEF RenewRow, Quiet
  <2>3. DOMAIN row' = DOMAIN ts /\ \A j \in DOMAIN ts : row'[j].size = 0
    <3>1. ts \in Seq(Types \cup {"?"})
      BY SpellingsTyped DEF Sound, TypeOK
    <3> QED
      BY <2>1, <3>1, NewFieldsSound
  <2>4. Filling' = [j \in DOMAIN Filling' |-> Unset]
    BY <1>0, <2>3
  <2>5. intact => Len(Filling') = Len(types)
    <3>1. (Len(Filling) = Len(row) /\ (intact => Len(row) = Len(types)))'
      BY FillingIs, RowShape, PTL
    <3> QED
      BY <2>2, <3>1
  <2>6. Content' = Content
    BY <2>2 DEF Content, RowAt
  <2> QED
    BY <2>2, <2>4, <2>5, <2>6 DEF Rows!Next, Rows!Renew, Rows!table
<1>2. ASSUME NEW j \in DOMAIN cols, NEW v \in ValuesOf[cols[j].type], SetField(j, v)
      PROVE  Rows!Next
  <2>1. j \in DOMAIN Filling /\ v \in Cells
    BY <1>2, SetFieldFills, ValuesAreCells, Shape
  <2>2. PICK kept \in Rows!Kept(v) : /\ Filling[j] = Unset => kept = v
                                     /\ Filling' = [Filling EXCEPT ![j] = kept]
    BY <1>2, SetFieldFills
  <2>3. /\ Content' = Content /\ UNCHANGED <<types, intact, col_size, row_size>>
        /\ seen' = << >> /\ given' = << v >>
    BY <1>2 DEF SetField, Content, RowAt, Quiet
  <2> QED
    BY <2>1, <2>2, <2>3 DEF Rows!Next, Rows!Fill, Rows!table
<1>3. ASSUME NEW j \in DOMAIN cols, NEW v \in ValuesOf[cols[j].type], SetFieldLost(j, v)
      PROVE  Rows!Next
  <2>1. /\ Content' = Content /\ UNCHANGED <<types, intact, col_size, row_size, row>>
        /\ seen' = << >> /\ given' = << v >> /\ v \in Cells
    BY <1>3, ValuesAreCells, Shape DEF SetFieldLost, Content, RowAt, Quiet
  <2>2. ~intact \/ col_size > Len(types)
    <3> SUFFICES ASSUME intact, ~(col_size > Len(types)) PROVE FALSE
      OBVIOUS
    <3>1. /\ col_size = Len(types) /\ DOMAIN row = 1..Len(types) /\ DOMAIN cols = 1..col_size
      <4>1. /\ Len(types) \in Nat /\ col_size \in Nat /\ Len(types) <= col_size
            /\ DOMAIN cols = 1..col_size
        BY Shape
      <4>2. col_size = Len(types)
        BY <4>1
      <4>3. DOMAIN row = 1..Len(row) /\ Len(row) = Len(types)
        BY RowShape
      <4> QED
        BY <4>1, <4>2, <4>3
    <3>2. j \in DOMAIN row /\ row[j].type = types[j] /\ types[j] \in Types
      <4>1. j \in DOMAIN row
        BY <3>1
      <4>2. types = [x \in DOMAIN row |-> row[x].type]
        BY DEF Sound, TypeOK
      <4> QED
        BY <4>1, <4>2, Shape
    <3> QED
      BY <1>3, <3>2 DEF SetFieldLost, Undefined, Types
  <2>3. Filling' = Filling
    BY <2>1
  <2> QED
    BY <2>1, <2>2, <2>3 DEF Rows!Next, Rows!Drop, Rows!table
<1>4. CASE AddRow
  <2>1. /\ row_size' = row_size + 1 /\ seen' = << >> /\ given' = << >> /\ Filling' = Filling
        /\ UNCHANGED <<types, intact, col_size>>
    BY <1>4 DEF AddRow, Quiet
  <2> QED
    BY <1>4, <2>1, AddRowAdds DEF Rows!Next, Rows!Add
<1>5. ASSUME NEW v \in ValuesOf["F"], PushValue(v) PROVE Rows!Next
  <2>1. /\ row_size = 0 /\ intact /\ UNCHANGED <<types, intact, col_size, row_size>>
        /\ seen' = << >> /\ given' = << v >> /\ Filling' = Filling
    BY <1>5 DEF PushValue, Quiet
  <2>2. v \in Cells /\ Content' = Append(Content, << v >>)
    BY <1>5, PushValueLoads
  <2> QED
    BY <2>1, <2>2 DEF Rows!Next, Rows!Load
<1>6. ASSUME NEW t \in AddedTypes, AddColumn(t) PROVE Rows!Next
  <2>1. /\ UNCHANGED <<types, intact, row_size>> /\ Filling' = Filling
        /\ seen' = << >> /\ given' = << >>
        /\ cols' = Append(cols, NewColumn(t)) /\ col_size' = col_size + 1
    BY <1>6 DEF AddColumn, Quiet
  <2>2. cols \in Seq(Columns) /\ DOMAIN types \subseteq DOMAIN cols /\ 1 \in DOMAIN types
    BY Shape
  <2>3. \A j \in DOMAIN types : cols'[j] = cols[j]
    BY <2>1, <2>2
  <2>4. Content' = Content
    BY <2>1, <2>2, <2>3, SameRows
  <2>5. (col_size' > Len(types')) = TRUE
    <3>1. Len(types) \in Nat /\ col_size \in Nat /\ Len(types) <= col_size
      BY Shape
    <3> QED
      BY <2>1, <3>1
  <2> QED
    BY <2>1, <2>4, <2>5 DEF Rows!Next, Rows!Extend
<1>7. ASSUME NEW c \in Cell, NEW v \in ValuesOf[cols[c[1]].type], SetCell(c[1], c[2], v)
      PROVE  Rows!Next
  <2>1. /\ UNCHANGED <<types, intact, col_size, row_size>> /\ Filling' = Filling
        /\ seen' = << >> /\ given' = << v >>
        /\ cols' = [cols EXCEPT ![c[1]] = SetAt(@, c[2], v)]
    BY <1>7 DEF SetCell, Quiet
  <2>2. c[1] \in DOMAIN cols /\ cols[c[1]].type \in Types /\ v \in Cells
    BY Shape, ValuesAreCells DEF Cell
  <2>3. CASE c[1] \in DOMAIN types
    <3>1. /\ Content' = [Content EXCEPT ![c[2] + 1][c[1]] = Narrowed(cols[c[1]], v)]
          /\ c[2] + 1 \in DOMAIN Content
      BY <1>7, <2>3, SetCellLocal
    <3>2. c[1] \in 1..Len(types)
      BY <2>3, Shape
    <3>3. Narrowed(cols[c[1]], v) \in Rows!Kept(v)
      <4>1. CASE cols[c[1]].type = "F"
        <5>1. v \in DOMAIN AsFloat
          BY <4>1, ValuesTyped
        <5> QED
          BY <4>1, <5>1 DEF Narrowed, Rows!Kept
      <4>2. CASE cols[c[1]].type # "F"
        BY <4>2 DEF Narrowed, Rows!Kept
      <4> QED
        BY <4>1, <4>2
    <3>4. Rows!Update
      BY <2>1, <2>2, <3>1, <3>2, <3>3 DEF Rows!Update
    <3> QED
      BY <3>4 DEF Rows!Next
  <2>4. CASE c[1] \notin DOMAIN types
    <3>1. DOMAIN types \subseteq DOMAIN cols /\ 1 \in DOMAIN types
      BY Shape
    <3>2. \A j \in DOMAIN types : cols'[j] = cols[j]
      BY <2>1, <2>4, <3>1
    <3>3. Content' = Content
      BY <2>1, <3>1, <3>2, SameRows
    <3>4. col_size > Len(types)
      <4>1. /\ Len(types) \in Nat /\ col_size \in Nat /\ DOMAIN cols = 1..col_size
            /\ DOMAIN types = 1..Len(types)
        BY Shape
      <4> QED
        BY <2>2, <2>4, <4>1
    <3> QED
      BY <2>1, <2>2, <3>3, <3>4 DEF Rows!Next, Rows!Update
  <2> QED
    BY <2>3, <2>4
<1>8. CASE Map
  <2>1. /\ UNCHANGED <<types, intact, col_size, row_size>> /\ given' = << >>
        /\ Filling' = Filling /\ Content' = Content
    BY <1>8 DEF Map, Content, RowAt
  <2> QED
    BY <1>8, <2>1, MapSees DEF Rows!Next, Rows!Visit, Rows!table
<1>9. ASSUME NEW c \in Cell, GetDouble(c[1], c[2]) PROVE Rows!Next
  <2>1. /\ UNCHANGED <<types, intact, col_size, row_size>> /\ given' = << >>
        /\ Filling' = Filling /\ Content' = Content
    BY <1>9 DEF GetDouble, Content, RowAt
  <2> QED
    BY <1>9, <2>1, GetDoubleReads DEF Rows!Next, Rows!Read, Rows!table
<1>10. CASE Reload
  <2>1. /\ UNCHANGED <<types, col_size, row_size>> /\ (intact' = FALSE)
        /\ Filling' = Filling /\ seen' = << >> /\ given' = << >>
    BY <1>10 DEF Reload, Quiet
  <2> QED
    BY <1>10, <2>1, ReloadKeeps DEF Rows!Next, Rows!Move
<1>11. CASE Crash
  BY <1>11 DEF Crash, SameTable, Content, RowAt
<1>12. CASE UNCHANGED vars
  BY <1>12 DEF vars, SameTable, Content, RowAt
<1> QED
  BY <1>1, <1>2, <1>3, <1>4, <1>5, <1>6, <1>7, <1>8, <1>9, <1>10, <1>11, <1>12
  DEF Next, RowCall, FrameCall, SetFieldFails, AddRowFails, SetCellFails, MapFails, FilterFails,
      GetDoubleFails, ReloadFails

(* A frame is a table of the rows that were added, for any schema, values  *)
(* and size of a chunk, and whatever a wild pointer leads to: what is      *)
(* filled is what is added, what is set is what changes, adding columns    *)
(* and being serialized changes no row, and a visitor is never shown a     *)
(* value of another row or another field.                                  *)
THEOREM FrameImplementsTable == Spec => ImplementsTable
<1>1. Sound /\ Sound' /\ [Next]_vars =>
          [Rows!Next]_<< <<Content, row_size, Len(types), intact, col_size > Len(types)>>,
                         Filling, seen, given>>
  BY RowsStep DEF SameTable
<1> QED
  BY <1>1, RowsInit, SoundInit, SoundNext, PTL
  DEF Spec, ImplementsTable, Rows!Spec, Rows!table, Filling
=============================================================================
