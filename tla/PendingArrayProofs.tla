------------------------- MODULE PendingArrayProofs -------------------------
(***************************************************************************)
(* PendingArray for any number of appends and walks: what a walk can get   *)
(* wrong is only that its block is gone.                                   *)
(***************************************************************************)
EXTENDS PendingArray, TLAPS

(* Block x, while allocated, is the first x items ever appended.           *)
BlocksHoldPrefixes ==
    \A x \in Blocks : heap[x] # Null =>
        /\ x <= Len(log) /\ Len(heap[x]) = x
        /\ \A e \in 1 .. x : heap[x][e] = log[e]

(* Where the fields stand in each phase of append.                         *)
FieldsInPhase ==
    /\ size_ = 0 => elements_ = Null \/ wpc = "grow"
    /\ wpc # "grow" /\ size_ > 0 => elements_ = size_
    /\ wpc \in {"idle", "delete"} /\ size_ > 0 => heap[size_] # Null
    /\ wpc = "idle" => size_ = Len(log)
    /\ wpc # "idle" => size_ + 1 = Len(log) /\ res = Len(log) /\ heap[res] # Null
    /\ wpc = "grow" => elements_ = res

(* A walk is bounded by a size that was reached, and the block it loaded   *)
(* is long enough for its index.                                           *)
WalkOK ==
    /\ rpc # "idle" => len <= size_
    /\ rpc \in {"load", "use"} => nn < len
    /\ rpc = "load" => ptr # Null /\ nn + 1 <= ptr
    /\ rpc = "use" /\ got # Null => got = log[nn + 1]

Inv == TypeOK /\ BlocksHoldPrefixes /\ FieldsInPhase /\ WalkOK

LEMMA InvInit == Init => Inv
BY BoundsTyped, NullIsNoItem
   DEF Init, Inv, TypeOK, BlocksHoldPrefixes, FieldsInPhase, WalkOK, Blocks

LEMMA InvNext == Inv /\ [Next]_vars => Inv'
<1> SUFFICES ASSUME Inv, [Next]_vars PROVE Inv'
  OBVIOUS
<1> USE BoundsTyped DEF Inv
<1>1. ASSUME NEW o \in Items, Allocate(o) PROVE Inv'
  <2> DEFINE new == Append(IF size_ = 0 THEN << >> ELSE heap[elements_], o)
  <2>1. /\ Len(log) \in Nat /\ Len(log) + 1 \in Blocks /\ size_ = Len(log) /\ wpc = "idle"
        /\ log' = Append(log, o) /\ log' \in Seq(Items) /\ Len(log') = Len(log) + 1
    BY <1>1 DEF Allocate, Blocks, TypeOK, FieldsInPhase
  <2>2. /\ new \in Seq(Items) /\ Len(new) = Len(log) + 1
        /\ \A e \in 1 .. Len(log) + 1 : new[e] = log'[e]
    <3>1. CASE size_ = 0
      BY <2>1, <3>1 DEF TypeOK
    <3>2. CASE size_ > 0
      <4>1. elements_ = Len(log) /\ heap[elements_] # Null
        BY <2>1, <3>2 DEF FieldsInPhase
      <4>2. elements_ \in Blocks
        BY <4>1, <2>1, <3>2 DEF Blocks
      <4>3. heap[elements_] \in Seq(Items) /\ Len(heap[elements_]) = Len(log)
            /\ \A e \in 1 .. Len(log) : heap[elements_][e] = log[e]
        BY <4>1, <4>2 DEF TypeOK, BlocksHoldPrefixes
      <4> QED
        BY <2>1, <3>2, <4>3 DEF TypeOK
    <3> QED
      BY <2>1, <3>1, <3>2
  <2> HIDE DEF new
  <2>3. heap' = [heap EXCEPT ![Len(log) + 1] = new]
    BY <1>1 DEF Allocate, new
  <2>4. new # Null
    BY <2>2, NullIsNoItem
  <2>5. /\ res' = Len(log) + 1 /\ wpc' = "delete"
        /\ UNCHANGED <<elements_, size_, rpc, len, nn, ptr, got, walks>>
    BY <1>1 DEF Allocate, rvars
  <2>6. \A e \in 1 .. Len(log) : log'[e] = log[e]
    BY <2>1 DEF TypeOK
  <2>7. TypeOK'
    BY <2>1, <2>2, <2>3, <2>5 DEF TypeOK
  <2>8. BlocksHoldPrefixes'
    BY <2>1, <2>2, <2>3, <2>6 DEF TypeOK, BlocksHoldPrefixes, Blocks
  <2>9. FieldsInPhase'
    BY <2>1, <2>3, <2>4, <2>5 DEF TypeOK, FieldsInPhase, Blocks
  <2>10. WalkOK'
    BY <2>1, <2>5, <2>6 DEF TypeOK, WalkOK
  <2> QED
    BY <2>7, <2>8, <2>9, <2>10
<1>2. CASE Delete
  BY <1>2 DEF Delete, TypeOK, BlocksHoldPrefixes, FieldsInPhase, WalkOK, Blocks, rvars
<1>3. CASE Publish
  BY <1>3 DEF Publish, TypeOK, BlocksHoldPrefixes, FieldsInPhase, WalkOK, Blocks, rvars
<1>4. CASE Grow
  BY <1>4 DEF Grow, TypeOK, BlocksHoldPrefixes, FieldsInPhase, WalkOK, Blocks, rvars
<1>5. CASE Reader
  <2>1. UNCHANGED <<heap, elements_, size_, wpc, res, log>>
    BY <1>5 DEF Reader, ReadLength, LoadPointer, LoadItem, NextItem, WalkEnds, wvars
  <2>2. BlocksHoldPrefixes' /\ FieldsInPhase'
    BY <2>1 DEF BlocksHoldPrefixes, FieldsInPhase
  <2>3. CASE ReadLength
    BY <2>1, <2>2, <2>3 DEF ReadLength, TypeOK, WalkOK
  <2>4. CASE LoadPointer
    <3>1. elements_ \in Blocks /\ nn + 1 <= elements_ /\ elements_ # Null
      BY <2>4, NullIsNoItem DEF LoadPointer, TypeOK, FieldsInPhase, Blocks
    <3> QED
      BY <2>1, <2>2, <2>4, <3>1 DEF LoadPointer, TypeOK, WalkOK
  <2>5. CASE LoadItem
    <3>1. ASSUME heap[ptr] # Null
          PROVE  got' = log[nn + 1] /\ got' \in Items
      <4>1. ptr \in Blocks /\ nn + 1 \in 1 .. ptr /\ got' = heap[ptr][nn + 1]
        BY <2>5, <3>1 DEF LoadItem, TypeOK, WalkOK, Blocks
      <4>2. heap[ptr] \in Seq(Items) /\ Len(heap[ptr]) = ptr
            /\ \A e \in 1 .. ptr : heap[ptr][e] = log[e]
        BY <3>1, <4>1 DEF TypeOK, BlocksHoldPrefixes
      <4> QED
        BY <4>1, <4>2
    <3>2. heap[ptr] = Null => got' = Null
      BY <2>5 DEF LoadItem
    <3> QED
      BY <2>1, <2>2, <2>5, <3>1, <3>2 DEF LoadItem, TypeOK, WalkOK
  <2>6. CASE NextItem
    BY <2>1, <2>2, <2>6 DEF NextItem, TypeOK, WalkOK
  <2>7. CASE WalkEnds
    BY <2>1, <2>2, <2>7 DEF WalkEnds, TypeOK, WalkOK
  <2> QED
    BY <1>5, <2>3, <2>4, <2>5, <2>6, <2>7 DEF Reader
<1>6. CASE UNCHANGED vars
  BY <1>6 DEF vars, wvars, rvars, TypeOK, BlocksHoldPrefixes, FieldsInPhase, WalkOK
<1> QED
  BY <1>1, <1>2, <1>3, <1>4, <1>5, <1>6 DEF Next, Writer

(* Whatever the writer and a walk do in turn, all variables are typed, and *)
(* a walk is never bounded by more than what was appended.                 *)
THEOREM TypeCorrect == Spec => []TypeOK
<1>1. Inv => TypeOK
  BY DEF Inv
<1> QED
  BY <1>1, InvInit, InvNext, PTL DEF Spec

(* A walk never fails get_'s assertion: the size it was bounded by was     *)
(* published, and sizes only grow.                                         *)
THEOREM WalkInside == Spec => []WalkStaysInside
<1>1. Inv => WalkStaysInside
  BY DEF Inv, WalkOK, WalkStaysInside, TypeOK
<1> QED
  BY <1>1, InvInit, InvNext, PTL DEF Spec

(* A walk that finds its block allocated reads the item appended at its    *)
(* index: the freed block is the only way the race can show.               *)
THEOREM LiveReads == Spec => []LiveReadsAreRight
<1>1. Inv => LiveReadsAreRight
  BY DEF Inv, WalkOK, LiveReadsAreRight
<1> QED
  BY <1>1, InvInit, InvNext, PTL DEF Spec

(* Between two appends the Array is the sequence of what was appended.     *)
THEOREM AppendWorks == Spec => []HoldsTheLog
<1>1. Inv => HoldsTheLog
  <2> SUFFICES ASSUME Inv, wpc = "idle", size_ > 0 PROVE heap[elements_] = log
    BY DEF Inv, HoldsTheLog, FieldsInPhase
  <2>1. elements_ \in Blocks /\ heap[elements_] # Null /\ elements_ = Len(log)
    BY NullIsNoItem DEF Inv, TypeOK, FieldsInPhase
  <2>2. heap[elements_] \in Seq(Items) /\ Len(heap[elements_]) = Len(log)
        /\ \A e \in 1 .. Len(log) : heap[elements_][e] = log[e]
    BY <2>1 DEF Inv, TypeOK, BlocksHoldPrefixes
  <2> QED
    BY <2>2 DEF Inv, TypeOK
<1> QED
  BY <1>1, InvInit, InvNext, PTL DEF Spec
=============================================================================
