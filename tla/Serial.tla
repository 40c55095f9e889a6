------------------------------- MODULE Serial -------------------------------
(***************************************************************************)
(* Serializer and Deserializer (src/src/network/serial.h) and what the     *)
(* messages (src/src/network/message.h) write to the one and read from the *)
(* other.  A buffer is its position and its capacity; of the bytes only    *)
(* the fields they belong to are kept.                                     *)
(***************************************************************************)
EXTENDS Integers, Sequences

CONSTANT Initial  \* the capacity of a new Serializer, 1024 in the code

ASSUME InitialTyped == Initial \in Nat /\ Initial >= 16

FieldTypes == {"int", "size", "sockaddr", "string", "chars"}
Fields     == [type : FieldTypes, len : Nat]

Word     == [type |-> "int",      len |-> 4]
Size     == [type |-> "size",     len |-> 8]
SockAddr == [type |-> "sockaddr", len |-> 16]
Text(n)  == [type |-> "string",   len |-> n]
Chars(n) == [type |-> "chars",    len |-> n]

(* The bytes of a field: a String with its terminator, a char* behind its  *)
(* length.                                                                 *)
Width(f) == CASE f.type = "string" -> f.len + 1
              [] f.type = "chars"  -> f.len + 8
              [] OTHER             -> f.len

----------------------------------------------------------------------------
Serializers == [pos : Nat, capacity : Nat]

NewSerializer == [pos |-> 0, capacity |-> Initial]

(* Mutant: the buffer grows only when it is already full.                  *)
ResizedLate(s, n) ==
    IF s.pos >= s.capacity THEN [s EXCEPT !.capacity = 2 * @] ELSE s

(* resize doubles once, however much is to be written.                     *)
Resized(s, n) ==
    IF s.pos + n >= s.capacity THEN [s EXCEPT !.capacity = 2 * @] ELSE s

Advanced(s, n) == [s EXCEPT !.pos = @ + n]

(* write: a char* makes room for its characters first, then for its length *)
(* before it writes that, and for both together never.                     *)
Written(s, f) ==
    IF f.type = "chars"
    THEN Advanced(Advanced(Resized(Resized(s, f.len), 8), 8), f.len)
    ELSE Advanced(Resized(s, Width(f)), Width(f))

(* What resize provides for.  The char* of a message is the data_ of a     *)
(* Value as far as its first 0, which is at most one byte.                 *)
Fits(f) == IF f.type = "chars" THEN f.len <= 1 ELSE Width(f) <= Initial

----------------------------------------------------------------------------
(* A message, as far as the bytes depend on it: its kind, the ports of a   *)
(* Directory, and the lengths of its strings (a Directory's addresses, the *)
(* name in a Key, the text of a Status, the data of a Value).              *)
Bare  == {"Ack", "Nack", "Put", "Reply", "Get", "WaitAndGet", "Kill"}
Kinds == Bare \cup {"Status", "Register", "Directory", "Data", "KeyMessage"}

Contents == {c \in [kind : Kinds, ports : Nat, texts : Seq(Nat)] :
                c.kind \in {"Status", "Data", "KeyMessage"} => Len(c.texts) = 1}

(* IntArray, StringArray, Key and Value: what serialize writes and what    *)
(* the deserializing constructor reads, in order.                          *)
IntsWritten(n)       == <<Size>> \o [i \in 1 .. n |-> Word]
IntsRead(n)          == <<"size">> \o [i \in 1 .. n |-> "int"]
StringsWritten(lens) == <<Size>> \o [i \in DOMAIN lens |-> Text(lens[i])]
StringsRead(lens)    == <<"size">> \o [i \in DOMAIN lens |-> "string"]
KeyWritten(len)      == <<Text(len), Size>>
KeyRead              == <<"string", "size">>
ValueWritten(len)    == <<Size, Chars(len)>>
ValueRead            == <<"size", "chars">>

(* Message::serialize and its counterpart.                                 *)
Heading     == <<Word, Size, Size, Size>>
HeadingRead == <<"int", "size", "size", "size">>

(* serialize of each kind.                                                 *)
FieldsOf(c) ==
    Heading \o
    CASE c.kind = "Register"   -> <<SockAddr, Size>>
      [] c.kind = "Directory"  -> (<<Size>> \o IntsWritten(c.ports)) \o StringsWritten(c.texts)
      [] c.kind = "KeyMessage" -> KeyWritten(c.texts[1])
      [] c.kind = "Data"       -> ValueWritten(c.texts[1])
      [] c.kind = "Status"     -> <<Text(c.texts[1])>>
      [] OTHER                 -> << >>

(* deserializeMsg and the constructors it calls.                           *)
ReadsOf(c) ==
    HeadingRead \o
    CASE c.kind = "Register"   -> <<"sockaddr", "size">>
      [] c.kind = "Directory"  -> (<<"size">> \o IntsRead(c.ports)) \o StringsRead(c.texts)
      [] c.kind = "KeyMessage" -> KeyRead
      [] c.kind = "Data"       -> ValueRead
      [] c.kind = "Status"     -> <<"string">>
      [] OTHER                 -> << >>

(* Every read meets the field of its type, at the byte where it starts.    *)
Understood(c) == ReadsOf(c) = [i \in DOMAIN FieldsOf(c) |-> FieldsOf(c)[i].type]
=============================================================================
