---------------------------- MODULE PendingArray ----------------------------
(***************************************************************************)
(* NetworkIP::pending_messages under its two threads: listen_m calls       *)
(* Array::append while put reads length() once and then calls get_ for     *)
(* every index (src/src/array.h, src/src/kvstore/kvstore.h).  There is no  *)
(* lock.  A step is one access of a field or of the heap; the Makefile     *)
(* builds without optimization, so they happen in program order.           *)
(***************************************************************************)
EXTENDS Integers, Sequences

CONSTANTS
    Items,     \* what is appended
    MaxItems,  \* bound: calls of append
    MaxWalks,  \* bound: calls of put
    Null       \* a null pointer, and no item

ASSUME BoundsTyped == MaxItems \in Nat /\ MaxWalks \in Nat
ASSUME NullIsNoItem == Null \notin Items /\ Null \notin Nat /\ Null \notin Seq(Items)

Blocks == 1 .. MaxItems

VARIABLES
    heap,       \* the blocks allocated: Null before new[] and after delete[]
    elements_, size_,          \* the fields of the Array
    wpc, res,                  \* append: program counter and the new block
    rpc, len, nn, ptr, got,    \* put: program counter, len, i, the pointer get_ loaded,
                               \* and the item it returned
    log,        \* what append was called with so far
    walks       \* calls of put so far

wvars == <<wpc, res, log>>
rvars == <<rpc, len, nn, ptr, got, walks>>
vars == <<heap, elements_, size_, wvars, rvars>>

Init ==
    /\ heap = [x \in Blocks |-> Null]
    /\ elements_ = Null /\ size_ = 0
    /\ wpc = "idle" /\ res = Null
    /\ rpc = "idle" /\ len = 0 /\ nn = 0 /\ ptr = Null /\ got = Null
    /\ log = << >>
    /\ walks = 0

----------------------------------------------------------------------------
(* Mutant: the item goes to the front.                                     *)
AllocateFront(o) ==
    /\ wpc = "idle" /\ Len(log) < MaxItems
    /\ res' = Len(log) + 1
    /\ heap' = [heap EXCEPT ![Len(log) + 1] =
                   <<o>> \o (IF size_ = 0 THEN << >> ELSE heap[elements_])]
    /\ log' = Append(log, o)
    /\ wpc' = "delete"
    /\ UNCHANGED <<elements_, size_, rvars>>

(* Array::append: the new block, filled (nobody else can see it yet).      *)
Allocate(o) ==
    /\ wpc = "idle" /\ Len(log) < MaxItems
    /\ res' = Len(log) + 1
    /\ heap' = [heap EXCEPT ![Len(log) + 1] =
                   Append(IF size_ = 0 THEN << >> ELSE heap[elements_], o)]
    /\ log' = Append(log, o)
    /\ wpc' = "delete"
    /\ UNCHANGED <<elements_, size_, rvars>>

(* delete[] elements_.                                                     *)
Delete ==
    /\ wpc = "delete"
    /\ heap' = IF elements_ = Null THEN heap ELSE [heap EXCEPT ![elements_] = Null]
    /\ wpc' = "publish"
    /\ UNCHANGED <<elements_, size_, res, log, rvars>>

(* elements_ = res.                                                        *)
Publish ==
    /\ wpc = "publish"
    /\ elements_' = res
    /\ wpc' = "grow"
    /\ UNCHANGED <<heap, size_, res, log, rvars>>

(* size_ += 1.                                                             *)
Grow ==
    /\ wpc = "grow"
    /\ size_' = size_ + 1
    /\ wpc' = "idle"
    /\ UNCHANGED <<heap, elements_, res, log, rvars>>

----------------------------------------------------------------------------
(* Mutant: the bound of the walk is one too large.                         *)
ReadLengthOneMore ==
    /\ rpc = "idle" /\ walks < MaxWalks
    /\ walks' = walks + 1
    /\ len' = size_ + 1
    /\ nn' = 0
    /\ rpc' = "walk"
    /\ UNCHANGED <<heap, elements_, size_, wvars, ptr, got>>

(* put: length() once.                                                     *)
ReadLength ==
    /\ rpc = "idle" /\ walks < MaxWalks
    /\ walks' = walks + 1
    /\ len' = size_
    /\ nn' = 0
    /\ rpc' = "walk"
    /\ UNCHANGED <<heap, elements_, size_, wvars, ptr, got>>

(* get_ passes its assertion and loads elements_.                          *)
LoadPointer ==
    /\ rpc = "walk" /\ nn < len
    /\ nn < size_
    /\ ptr' = elements_
    /\ rpc' = "load"
    /\ UNCHANGED <<heap, elements_, size_, wvars, len, nn, got, walks>>

(* get_ loads the item: from a block that is gone, any bytes.              *)
LoadItem ==
    /\ rpc = "load"
    /\ got' = IF heap[ptr] = Null THEN Null ELSE heap[ptr][nn + 1]
    /\ rpc' = "use"
    /\ UNCHANGED <<heap, elements_, size_, wvars, len, nn, ptr, walks>>

(* The loop goes on.                                                       *)
NextItem ==
    /\ rpc = "use"
    /\ nn' = nn + 1
    /\ rpc' = "walk"
    /\ UNCHANGED <<heap, elements_, size_, wvars, len, ptr, got, walks>>

WalkEnds ==
    /\ rpc = "walk" /\ nn >= len
    /\ rpc' = "idle"
    /\ UNCHANGED <<heap, elements_, size_, wvars, len, nn, ptr, got, walks>>

Writer == (\E o \in Items : Allocate(o)) \/ Delete \/ Publish \/ Grow
Reader == ReadLength \/ LoadPointer \/ LoadItem \/ NextItem \/ WalkEnds

Next == Writer \/ Reader

Spec == Init /\ [][Next]_vars

----------------------------------------------------------------------------
(* Every field has its type; size_ and len count items appended.           *)
TypeOK ==
    /\ heap \in [Blocks -> Seq(Items) \cup {Null}]
    /\ elements_ \in Blocks \cup {Null} /\ size_ \in 0 .. Len(log)
    /\ wpc \in {"idle", "delete", "publish", "grow"}
    /\ res \in Blocks \cup {Null}
    /\ rpc \in {"idle", "walk", "load", "use"}
    /\ len \in 0 .. Len(log) /\ nn \in 0 .. len
    /\ ptr \in Blocks \cup {Null} /\ got \in Items \cup {Null}
    /\ log \in Seq(Items) /\ walks \in Nat

(* Between two calls of append the Array holds what was appended, in       *)
(* order.                                                                  *)
HoldsTheLog ==
    wpc = "idle" => size_ = Len(log) /\ (size_ > 0 => heap[elements_] = log)

(* get_'s assertion holds all through a walk: size_ is published last, so  *)
(* a length read at any moment is covered by every later block.            *)
WalkStaysInside ==
    rpc \in {"walk", "load"} /\ nn < len => nn < size_

(* What a walk reads from memory that is still allocated is the item that  *)
(* was appended at that index, although block and index were read apart.   *)
LiveReadsAreRight ==
    rpc = "use" /\ got # Null => got = log[nn + 1]

(* get_ returns the n'th item.                                             *)
GetReturnsTheItem ==
    rpc = "use" => got = log[nn + 1]
=============================================================================
