----------------------------- MODULE WireProofs -----------------------------
(***************************************************************************)
(* Theorems about Wire, for any nodes, messages, limits and bounds: what   *)
(* Serial writes stays in its buffer and is read back in the same order,   *)
(* nobody dies without a cause, and send_m and recv_m implement Mailbox.   *)
(***************************************************************************)
EXTENDS Wire, SequenceTheorems, TLAPS

----------------------------------------------------------------------------
(* One write: the buffer that resize provides is large enough for it.      *)
LEMMA WriteHolds ==
    ASSUME NEW s \in Serializers, s.pos <= s.capacity, Initial <= s.capacity,
           NEW f \in Fields, Fits(f)
    PROVE  /\ Written(s, f) \in Serializers
           /\ Written(s, f).pos <= Written(s, f).capacity
           /\ Initial <= Written(s, f).capacity
<1> USE InitialTyped
<1> DEFINE Holds(r) == r \in Serializers /\ r.pos <= r.capacity /\ Initial <= r.capacity
<1>1. Width(f) \in Nat BY DEF Fields, FieldTypes, Width
<1>2. CASE f.type = "chars"
  <2> DEFINE r1 == Resized(s, f.len)
             r2 == Resized(r1, 8)
  <2>1. f.len \in Nat /\ f.len <= 1 BY <1>2 DEF Fields, Fits
  <2>2. Holds(r1) /\ r1.pos = s.pos BY <2>1 DEF Resized, Serializers
  <2>3. Holds(r2) /\ r2.pos = s.pos BY <2>2 DEF Resized, Serializers
  <2>4. r2.pos + 9 <= r2.capacity BY <2>2 DEF Resized, Serializers
  <2>5. Written(s, f) = [r2 EXCEPT !.pos = r2.pos + 8 + f.len]
    BY <1>2, <2>1, <2>3 DEF Written, Advanced, Serializers
  <2> QED BY <2>1, <2>3, <2>4, <2>5 DEF Serializers
<1>3. CASE f.type # "chars"
  <2> DEFINE r == Resized(s, Width(f))
  <2>1. Width(f) <= Initial BY <1>3 DEF Fits
  <2>2. Holds(r) /\ r.pos + Width(f) <= r.capacity BY <1>1, <2>1 DEF Resized, Serializers
  <2>3. Written(s, f) = [r EXCEPT !.pos = r.pos + Width(f)]
    BY <1>3 DEF Written, Advanced
  <2> QED BY <1>1, <2>2, <2>3 DEF Serializers
<1> QED BY <1>2, <1>3

LEMMA WrittenTyped ==
    ASSUME NEW s \in Serializers, NEW f \in Fields
    PROVE  Written(s, f) \in Serializers
<1>1. Width(f) \in Nat /\ f.len \in Nat BY DEF Fields, FieldTypes, Width
<1>2. ASSUME NEW r \in Serializers, NEW n \in Nat
      PROVE  Resized(r, n) \in Serializers /\ Advanced(r, n) \in Serializers
  BY DEF Resized, Advanced, Serializers
<1> QED BY <1>1, <1>2 DEF Written

(* The types of a sequence of fields.                                      *)
TypesOf(fs) == [i \in DOMAIN fs |-> fs[i].type]

LEMMA TypesOfTyped ==
    ASSUME NEW s \in Seq(Fields)
    PROVE  /\ TypesOf(s) \in Seq(FieldTypes) /\ Len(TypesOf(s)) = Len(s)
           /\ \A i \in 1 .. Len(s) : TypesOf(s)[i] = s[i].type
<1>1. \A i \in 1 .. Len(s) : s[i] \in Fields BY ElementOfSeq
<1>2. \A i \in 1 .. Len(s) : s[i].type \in FieldTypes BY <1>1 DEF Fields
<1>3. DOMAIN s = 1 .. Len(s) /\ Len(s) \in Nat BY LenProperties
<1>4. TypesOf(s) = [i \in 1 .. Len(s) |-> s[i].type] BY <1>3 DEF TypesOf
<1> QED BY <1>2, <1>3, <1>4

LEMMA TypesOfConcat ==
    ASSUME NEW a \in Seq(Fields), NEW b \in Seq(Fields)
    PROVE  a \o b \in Seq(Fields) /\ TypesOf(a \o b) = TypesOf(a) \o TypesOf(b)
<1>1. a \o b \in Seq(Fields)
      /\ Len(a \o b) = Len(a) + Len(b)
      /\ \A i \in 1 .. Len(a) + Len(b) :
            (a \o b)[i] = IF i <= Len(a) THEN a[i] ELSE b[i - Len(a)]
  BY ConcatProperties
<1>2. TypesOf(a) \in Seq(FieldTypes) /\ TypesOf(b) \in Seq(FieldTypes) BY TypesOfTyped
<1>3. Len(TypesOf(a)) = Len(a) /\ Len(TypesOf(b)) = Len(b) BY TypesOfTyped
<1>4. /\ TypesOf(a) \o TypesOf(b) \in Seq(FieldTypes)
      /\ Len(TypesOf(a) \o TypesOf(b)) = Len(a) + Len(b)
      /\ \A i \in 1 .. Len(a) + Len(b) :
            (TypesOf(a) \o TypesOf(b))[i]
              = IF i <= Len(a) THEN TypesOf(a)[i] ELSE TypesOf(b)[i - Len(a)]
  <2> DEFINE p == TypesOf(a)
             q == TypesOf(b)
  <2>1. p \in Seq(FieldTypes) /\ q \in Seq(FieldTypes) BY <1>2
  <2> HIDE DEF p, q
  <2>2. /\ p \o q \in Seq(FieldTypes) /\ Len(p \o q) = Len(p) + Len(q)
        /\ \A i \in 1 .. Len(p) + Len(q) :
              (p \o q)[i] = IF i <= Len(p) THEN p[i] ELSE q[i - Len(p)]
    BY <2>1, ConcatProperties
  <2>3. Len(p) = Len(a) /\ Len(q) = Len(b) BY <1>3 DEF p, q
  <2>4. /\ p \o q \in Seq(FieldTypes) /\ Len(p \o q) = Len(a) + Len(b)
        /\ \A i \in 1 .. Len(a) + Len(b) :
              (p \o q)[i] = IF i <= Len(a) THEN p[i] ELSE q[i - Len(a)]
    BY <2>2, <2>3
  <2> QED BY <2>4 DEF p, q
<1>5. /\ TypesOf(a \o b) \in Seq(FieldTypes) /\ Len(TypesOf(a \o b)) = Len(a) + Len(b)
      /\ \A i \in 1 .. Len(a) + Len(b) : TypesOf(a \o b)[i] = (a \o b)[i].type
  <2>1. a \o b \in Seq(Fields) BY <1>1
  <2> QED BY <1>1, <2>1, TypesOfTyped
<1>6. ASSUME NEW i \in 1 .. Len(a) + Len(b)
      PROVE  TypesOf(a \o b)[i] = (TypesOf(a) \o TypesOf(b))[i]
  <2>1. Len(a) \in Nat /\ Len(b) \in Nat BY LenProperties
  <2>2. CASE i <= Len(a)
    <3>1. TypesOf(a)[i] = a[i].type BY <2>1, <2>2, TypesOfTyped
    <3> QED BY <1>1, <1>4, <1>5, <2>2, <3>1
  <2>3. CASE i > Len(a)
    <3>1. i - Len(a) \in 1 .. Len(b) BY <2>1, <2>3
    <3>2. TypesOf(b)[i - Len(a)] = b[i - Len(a)].type BY <3>1, TypesOfTyped
    <3> QED BY <1>1, <1>4, <1>5, <2>1, <2>3, <3>2
  <2>4. i <= Len(a) \/ i > Len(a) BY <2>1
  <2> QED BY <2>2, <2>3, <2>4, Zenon
<1>7. TypesOf(a \o b) = TypesOf(a) \o TypesOf(b) BY <1>4, <1>5, <1>6, SeqEqual
<1> QED BY <1>1, <1>7

(* Whatever the kind, the fields are fields, and the reads of the          *)
(* receiver meet them in their order.                                      *)
LEMMA MessagesUnderstood ==
    ASSUME NEW c \in Contents
    PROVE  FieldsOf(c) \in Seq(Fields) /\ Understood(c)
<1> DEFINE ports == [i \in 1 .. c.ports |-> Word]
           texts == [i \in DOMAIN c.texts |-> Text(c.texts[i])]
<1>1. c.ports \in Nat /\ c.texts \in Seq(Nat) /\ c.kind \in Kinds BY DEF Contents
<1>2. Word \in Fields /\ Size \in Fields /\ SockAddr \in Fields
  BY DEF Word, Size, SockAddr, Fields, FieldTypes
<1>3. Heading \in Seq(Fields) /\ TypesOf(Heading) = HeadingRead
  BY <1>2 DEF Heading, HeadingRead, TypesOf, Word, Size
<1>4. ASSUME NEW n \in Nat
      PROVE  Text(n) \in Fields /\ Chars(n) \in Fields
  BY DEF Text, Chars, Fields, FieldTypes
<1>5. ASSUME NEW tail \in Seq(Fields), FieldsOf(c) = Heading \o tail,
             ReadsOf(c) = HeadingRead \o TypesOf(tail)
      PROVE  FieldsOf(c) \in Seq(Fields) /\ Understood(c)
  <2>1. FieldsOf(c) \in Seq(Fields) /\ TypesOf(FieldsOf(c)) = ReadsOf(c)
    BY <1>3, <1>5, TypesOfConcat
  <2> QED BY <2>1 DEF Understood, TypesOf
<1>6. CASE c.kind = "Register"
  <2>1. <<SockAddr, Size>> \in Seq(Fields)
    BY <1>2
  <2>2. TypesOf(<<SockAddr, Size>>) = <<"sockaddr", "size">>
    BY DEF TypesOf, Text, Chars, Size, SockAddr
  <2>3. FieldsOf(c) = Heading \o <<SockAddr, Size>> BY <1>6 DEF FieldsOf
  <2>4. ReadsOf(c) = HeadingRead \o <<"sockaddr", "size">> BY <1>6 DEF ReadsOf
  <2> QED BY <1>5, <2>1, <2>2, <2>3, <2>4
<1>7. CASE c.kind = "Directory"
  <2>1. /\ ports \in Seq(Fields) /\ TypesOf(ports) = [i \in 1 .. c.ports |-> "int"]
        /\ texts \in Seq(Fields) /\ TypesOf(texts) = [i \in DOMAIN c.texts |-> "string"]
    <3>1. ports \in Seq(Fields) BY <1>1, <1>2
    <3>2. Word.type = "int" /\ \A n : Text(n).type = "string" BY DEF Word, Text
    <3>3. TypesOf(ports) = [i \in 1 .. c.ports |-> "int"] BY <3>2 DEF TypesOf
    <3>4. DOMAIN c.texts = 1 .. Len(c.texts) /\ Len(c.texts) \in Nat BY <1>1, LenProperties
    <3>5. \A i \in DOMAIN c.texts : Text(c.texts[i]) \in Fields
      BY <1>1, <1>4, <3>4, ElementOfSeq
    <3>6. texts \in Seq(Fields) BY <3>4, <3>5
    <3>7. TypesOf(texts) = [i \in DOMAIN c.texts |-> "string"] BY <3>2 DEF TypesOf
    <3> QED BY <3>1, <3>3, <3>6, <3>7
  <2>2. <<Size>> \in Seq(Fields) /\ TypesOf(<<Size>>) = <<"size">>
    BY <1>2 DEF TypesOf, Size
  <2>3. /\ IntsWritten(c.ports) = <<Size>> \o ports
        /\ IntsRead(c.ports) = <<"size">> \o TypesOf(ports)
        /\ StringsWritten(c.texts) = <<Size>> \o texts
        /\ StringsRead(c.texts) = <<"size">> \o TypesOf(texts)
    BY <2>1 DEF IntsWritten, IntsRead, StringsWritten, StringsRead
  <2> HIDE DEF ports, texts
  <2>4. /\ IntsWritten(c.ports) \in Seq(Fields)
        /\ TypesOf(IntsWritten(c.ports)) = IntsRead(c.ports)
        /\ StringsWritten(c.texts) \in Seq(Fields)
        /\ TypesOf(StringsWritten(c.texts)) = StringsRead(c.texts)
    BY <2>1, <2>2, <2>3, TypesOfConcat
  <2> DEFINE front == <<Size>> \o IntsWritten(c.ports)
  <2>5. front \in Seq(Fields) /\ TypesOf(front) = <<"size">> \o IntsRead(c.ports)
    BY <2>2, <2>4, TypesOfConcat
  <2>6. FieldsOf(c) = Heading \o (front \o StringsWritten(c.texts))
    BY <1>7 DEF FieldsOf
  <2>7. ReadsOf(c) = HeadingRead \o ((<<"size">> \o IntsRead(c.ports)) \o StringsRead(c.texts))
    BY <1>7 DEF ReadsOf
  <2> HIDE DEF front
  <2>8. /\ front \o StringsWritten(c.texts) \in Seq(Fields)
        /\ TypesOf(front \o StringsWritten(c.texts))
             = (<<"size">> \o IntsRead(c.ports)) \o StringsRead(c.texts)
    BY <2>4, <2>5, TypesOfConcat
  <2> QED BY <1>5, <2>6, <2>7, <2>8
<1>8. CASE c.kind = "KeyMessage"
  <2>1. c.texts[1] \in Nat
    <3>1. Len(c.texts) = 1 BY <1>8 DEF Contents
    <3> QED BY <1>1, <3>1, ElementOfSeq
  <2>2. <<Text(c.texts[1]), Size>> \in Seq(Fields)
    BY <1>2, <1>4, <2>1
  <2>3. TypesOf(<<Text(c.texts[1]), Size>>) = <<"string", "size">>
    BY DEF TypesOf, Text, Chars, Size, SockAddr
  <2>4. FieldsOf(c) = Heading \o <<Text(c.texts[1]), Size>> BY <1>8 DEF FieldsOf, KeyWritten
  <2>5. ReadsOf(c) = HeadingRead \o <<"string", "size">> BY <1>8 DEF ReadsOf, KeyRead
  <2> QED BY <1>5, <2>2, <2>3, <2>4, <2>5
<1>9. CASE c.kind = "Data"
  <2>1. c.texts[1] \in Nat
    <3>1. Len(c.texts) = 1 BY <1>9 DEF Contents
    <3> QED BY <1>1, <3>1, ElementOfSeq
  <2>2. <<Size, Chars(c.texts[1])>> \in Seq(Fields)
    BY <1>2, <1>4, <2>1
  <2>3. TypesOf(<<Size, Chars(c.texts[1])>>) = <<"size", "chars">>
    BY DEF TypesOf, Text, Chars, Size, SockAddr
  <2>4. FieldsOf(c) = Heading \o <<Size, Chars(c.texts[1])>> BY <1>9 DEF FieldsOf, ValueWritten
  <2>5. ReadsOf(c) = HeadingRead \o <<"size", "chars">> BY <1>9 DEF ReadsOf, ValueRead
  <2> QED BY <1>5, <2>2, <2>3, <2>4, <2>5
<1>10. CASE c.kind = "Status"
  <2>1. c.texts[1] \in Nat
    <3>1. Len(c.texts) = 1 BY <1>10 DEF Contents
    <3> QED BY <1>1, <3>1, ElementOfSeq
  <2>2. <<Text(c.texts[1])>> \in Seq(Fields)
    BY <1>2, <1>4, <2>1
  <2>3. TypesOf(<<Text(c.texts[1])>>) = <<"string">>
    BY DEF TypesOf, Text, Chars, Size, SockAddr
  <2>4. FieldsOf(c) = Heading \o <<Text(c.texts[1])>> BY <1>10 DEF FieldsOf
  <2>5. ReadsOf(c) = HeadingRead \o <<"string">> BY <1>10 DEF ReadsOf
  <2> QED BY <1>5, <2>2, <2>3, <2>4, <2>5
<1>11. CASE c.kind \notin {"Register", "Directory", "KeyMessage", "Data", "Status"}
  <2>1. << >> \in Seq(Fields) /\ TypesOf(<< >>) = << >> BY DEF TypesOf
  <2>2. FieldsOf(c) = Heading \o << >> BY <1>11 DEF FieldsOf
  <2>3. ReadsOf(c) = HeadingRead \o << >> BY <1>11 DEF ReadsOf
  <2> QED BY <1>5, <2>1, <2>2, <2>3
<1> QED BY <1>6, <1>7, <1>8, <1>9, <1>10, <1>11

----------------------------------------------------------------------------
(* What the invariants rest on.  A message is sent by the main thread of   *)
(* its sender; its size is not known before it is sent, and stays; what    *)
(* was returned has as many bytes as that.                                 *)
SendingSound ==
    \A t \in Threads :
        pc[t] \in {"write", "body"} =>
            /\ t = Main(msg[t].from)
            /\ msg[t] \in sent /\ msg[t] \notin body
            /\ pc[t] = "write" => size[msg[t]] = 0
            /\ pc[t] = "body" => msg[t] \in linked

SizesSound ==
    /\ \A m \in Messages \ sent : size[m] = 0
    /\ \A t \in Threads : pc[t] = "fill" => size[msg[t]] > 0

GotSound ==
    \A n \in Nodes : \A i \in DOMAIN got[n] :
        got[n][i].bytes = size[got[n][i].msg] /\ got[n][i].bytes > 0

ReadingSound == \A t \in Threads : pc[t] = "read" => rd[t] = 0

Sound == TypeOK /\ SendingSound /\ ReadingSound /\ SizesSound /\ GotSound

(* The five actions in which a process dies change nothing else.           *)
Dying(n) == up[n] /\ Die(n) /\ blamed' \in {blamed, blamed \cup {n}}

Steps ==
    \/ \E m \in Messages : SendBegin(m)
    \/ \E n \in Nodes : WriteField(n) \/ SendSize(n) \/ SendBody(n) \/ Dying(n)
    \/ \E t \in Threads : Accept(t) \/ ReadSize(t) \/ ReadBody(t) \/ Return(t)

LEMMA ThreadsTyped ==
    /\ \A t \in Threads : t[1] \in Nodes
    /\ \A n \in Nodes : Main(n) \in Threads /\ Main(n)[1] = n
BY NodesTyped DEF Threads, Main

LEMMA NextIsStep == TypeOK /\ Next => Steps
<1> SUFFICES ASSUME TypeOK, Next PROVE Steps
  OBVIOUS
<1>1. ASSUME NEW m \in Messages, SocketFails(m) PROVE Dying(m.from) /\ m.from \in Nodes
  BY <1>1, MessagesTyped DEF SocketFails, Dying
<1>2. ASSUME NEW n \in Nodes, SendFails(n) \/ Kill(n) PROVE Dying(n)
  BY <1>2 DEF SendFails, Kill, Dying
<1>3. ASSUME NEW t \in Threads, AcceptFails(t) \/ ReadSizeFails(t) PROVE Dying(t[1])
  BY <1>3 DEF AcceptFails, ReadSizeFails, Dying
<1> QED
  BY <1>1, <1>2, <1>3, ThreadsTyped
     DEF Next, Steps, Sending, Receiving, Accepting

LEMMA InitSound == Init => Sound
<1> SUFFICES ASSUME Init PROVE Sound
  OBVIOUS
<1>1. NewSerializer \in Serializers
  BY InitialTyped DEF NewSerializer, Serializers
<1>2. TypeOK
  BY <1>1, BoundsTyped DEF Init, TypeOK
<1> QED
  BY <1>2 DEF Init, Sound, SendingSound, ReadingSound, SizesSound, GotSound

(* A message in a call is one, and only a call has one.                    *)
LEMMA InCall ==
    ASSUME TypeOK, NEW t \in Threads, pc[t] # "idle"
    PROVE  /\ msg[t] \in Messages
           /\ msg[t].from \in Nodes /\ msg[t].to \in Nodes /\ msg[t].content \in Contents
BY MessagesTyped DEF TypeOK

LEMMA TypeStep == Sound /\ Steps => TypeOK'
<1> SUFFICES ASSUME Sound, Steps PROVE TypeOK'
  OBVIOUS
<1> USE DEF Sound
<1>1. ASSUME NEW m \in Messages, SendBegin(m) PROVE TypeOK'
  <2>1. m.from \in Nodes /\ m.to \in Nodes /\ Main(m.from) \in Threads
    BY MessagesTyped, ThreadsTyped
  <2>2. NewSerializer \in Serializers
    BY InitialTyped DEF NewSerializer, Serializers
  <2>3. fds' \in [Nodes -> Nat] /\ \A n \in Nodes : fds'[n] <= MaxFds[n]
    <3>1. fds' = [fds EXCEPT ![m.from] = @ + 1] /\ fds[m.from] < MaxFds[m.from]
      BY <1>1 DEF SendBegin
    <3>2. fds \in [Nodes -> Nat] /\ (\A n \in Nodes : fds[n] <= MaxFds[n]) /\ MaxFds \in [Nodes -> Nat]
      BY BoundsTyped DEF TypeOK
    <3> QED BY <2>1, <3>1, <3>2
  <2>4. backlog' \in [Nodes -> Seq(Messages)]
    <3>1. backlog' = backlog \/ backlog' = [backlog EXCEPT ![m.to] = Append(@, m)]
      BY <1>1 DEF SendBegin
    <3>2. backlog \in [Nodes -> Seq(Messages)]
      BY DEF TypeOK
    <3>3. Append(backlog[m.to], m) \in Seq(Messages)
      BY <2>1, <3>2
    <3> QED BY <2>1, <3>1, <3>2, <3>3
  <2>5. /\ msg' \in [Threads -> Messages \cup {None}]
        /\ pc' \in [Threads -> {"idle", "write", "body", "read", "fill"}]
        /\ \A t \in Threads : msg'[t] = None <=> pc'[t] = "idle"
        /\ \A t \in Threads : pc'[t] = "fill" => rd[t] <= size[msg'[t]]
    BY <1>1, <2>1, NoneIsNoMessage DEF SendBegin, TypeOK
  <2>6. linked' \subseteq sent' /\ sent' \subseteq Messages /\ body \subseteq linked'
    BY <1>1 DEF SendBegin, TypeOK
  <2>7. ser' \in [Nodes -> Serializers] /\ field' \in [Nodes -> Nat]
    BY <1>1, <2>1, <2>2 DEF SendBegin, TypeOK
  <2> QED
    BY <1>1, <2>3, <2>4, <2>5, <2>6, <2>7 DEF SendBegin, TypeOK
<1>2. ASSUME NEW n \in Nodes, WriteField(n) PROVE TypeOK'
  <2>1. Written(ser[n], FieldsOf(msg[Main(n)].content)[field[n] + 1]) \in Serializers
    <3> DEFINE c == msg[Main(n)].content
    <3>1. c \in Contents /\ pc[Main(n)] = "write"
      BY <1>2, InCall, ThreadsTyped DEF WriteField
    <3>2. FieldsOf(c) \in Seq(Fields)
      BY <3>1, MessagesUnderstood
    <3>3. field[n] + 1 \in 1 .. Len(FieldsOf(c))
      BY <1>2, <3>2, LenProperties DEF WriteField, Unwritten, TypeOK
    <3>4. FieldsOf(c)[field[n] + 1] \in Fields
      BY <3>2, <3>3, ElementOfSeq
    <3> QED BY <3>4, WrittenTyped DEF TypeOK
  <2>2. ser' \in [Nodes -> Serializers] /\ field' \in [Nodes -> Nat]
    <3>1. ser \in [Nodes -> Serializers] /\ field \in [Nodes -> Nat]
      BY DEF TypeOK
    <3> QED BY <1>2, <2>1, <3>1 DEF WriteField
  <2> QED BY <1>2, <2>2 DEF WriteField, TypeOK
<1>3. ASSUME NEW n \in Nodes, SendSize(n) PROVE TypeOK'
  <2> DEFINE m == msg[Main(n)]
  <2>1. Main(n) \in Threads /\ m \in Messages /\ size[m] = 0
    BY <1>3, InCall, ThreadsTyped DEF SendSize, SendingSound
  <2>2. size' \in [Messages -> Nat]
    BY <1>3, <2>1 DEF SendSize, TypeOK, Serializers
  <2>3. /\ pc' \in [Threads -> {"idle", "write", "body", "read", "fill"}]
        /\ \A t \in Threads : msg[t] = None <=> pc'[t] = "idle"
    BY <1>3, <2>1 DEF SendSize, TypeOK
  <2>4. ASSUME NEW t \in Threads, pc'[t] = "fill" PROVE rd[t] <= size'[msg[t]]
    <3>1. pc[t] = "fill" /\ msg[t] \in Messages
      BY <1>3, <2>1, <2>4, InCall DEF SendSize, TypeOK
    <3>2. msg[t] # m
      BY <2>1, <3>1 DEF SizesSound
    <3> QED BY <1>3, <2>1, <3>1, <3>2 DEF SendSize, TypeOK
  <2> QED BY <1>3, <2>2, <2>3, <2>4 DEF SendSize, TypeOK
<1>4. ASSUME NEW n \in Nodes, SendBody(n) PROVE TypeOK'
  <2>1. Main(n) \in Threads /\ msg[Main(n)] \in linked
    BY <1>4, ThreadsTyped DEF SendBody, SendingSound
  <2> QED BY <1>4, <2>1 DEF SendBody, TypeOK
<1>5. ASSUME NEW n \in Nodes, Dying(n) PROVE TypeOK'
  <2>1. up' \in [Nodes -> BOOLEAN] /\ blamed' \subseteq Nodes
    BY <1>5 DEF Dying, Die, TypeOK
  <2>2. backlog' \in [Nodes -> Seq(Messages)]
    <3>1. backlog' = [backlog EXCEPT ![n] = << >>] /\ backlog \in [Nodes -> Seq(Messages)]
      BY <1>5 DEF Dying, Die, TypeOK
    <3> QED BY <3>1
  <2> QED BY <1>5, <2>1, <2>2 DEF Dying, Die, TypeOK
<1>6. ASSUME NEW t \in Threads, Accept(t) PROVE TypeOK'
  <2>1. t[1] \in Nodes
    BY ThreadsTyped
  <2>2. backlog[t[1]] \in Seq(Messages) /\ backlog[t[1]] # << >>
    BY <1>6, <2>1 DEF Accept, TypeOK
  <2>3. backlog[t[1]][1] \in Messages /\ Tail(backlog[t[1]]) \in Seq(Messages)
    BY <2>2
  <2>4. fds' \in [Nodes -> Nat] /\ \A n \in Nodes : fds'[n] <= MaxFds[n]
    <3>1. fds' = [fds EXCEPT ![t[1]] = @ + 1] /\ fds[t[1]] < MaxFds[t[1]]
      BY <1>6 DEF Accept
    <3>2. fds \in [Nodes -> Nat] /\ (\A n \in Nodes : fds[n] <= MaxFds[n]) /\ MaxFds \in [Nodes -> Nat]
      BY BoundsTyped DEF TypeOK
    <3> QED BY <2>1, <3>1, <3>2
  <2>5. backlog' \in [Nodes -> Seq(Messages)]
    BY <1>6, <2>1, <2>3 DEF Accept, TypeOK
  <2> QED BY <1>6, <2>3, <2>4, <2>5, NoneIsNoMessage DEF Accept, TypeOK
<1>7. ASSUME NEW t \in Threads, ReadSize(t) PROVE TypeOK'
  <2>1. rd[t] = 0
    BY <1>7 DEF ReadSize, ReadingSound
  <2>2. size[msg[t]] \in Nat /\ pc[t] = "read"
    BY <1>7, InCall DEF ReadSize, TypeOK
  <2>3. /\ pc' \in [Threads -> {"idle", "write", "body", "read", "fill"}]
        /\ \A u \in Threads : msg[u] = None <=> pc'[u] = "idle"
        /\ \A u \in Threads : pc'[u] = "fill" => rd[u] <= size[msg[u]]
    BY <1>7, <2>1, <2>2 DEF ReadSize, TypeOK
  <2> QED BY <1>7, <2>3 DEF ReadSize, TypeOK
<1>8. ASSUME NEW t \in Threads, ReadBody(t) PROVE TypeOK'
  <2>1. PICK r \in {size[msg[t]]} \cup {rd[t] + p : p \in Pieces} :
           r <= size[msg[t]] /\ rd' = [rd EXCEPT ![t] = r]
    BY <1>8 DEF ReadBody
  <2>2. size[msg[t]] \in Nat
    BY <1>8, InCall DEF ReadBody, TypeOK
  <2>3. r \in Nat
    BY <2>1, <2>2, BoundsTyped DEF TypeOK
  <2> QED BY <1>8, <2>1, <2>2, <2>3 DEF ReadBody, TypeOK
<1>9. ASSUME NEW t \in Threads, Return(t) PROVE TypeOK'
  <2>1. t[1] \in Nodes /\ msg[t] \in Messages
    BY <1>9, InCall, ThreadsTyped DEF Return
  <2>2. got' \in [Nodes -> Seq([msg : Messages, bytes : Nat])]
    <3>1. /\ got' = [got EXCEPT ![t[1]] = Append(@, [msg |-> msg[t], bytes |-> rd[t]])]
          /\ got \in [Nodes -> Seq([msg : Messages, bytes : Nat])] /\ rd[t] \in Nat
      BY <1>9 DEF Return, TypeOK
    <3>2. Append(got[t[1]], [msg |-> msg[t], bytes |-> rd[t]]) \in Seq([msg : Messages, bytes : Nat])
      <4>1. [msg |-> msg[t], bytes |-> rd[t]] \in [msg : Messages, bytes : Nat]
        BY <2>1, <3>1
      <4>2. got[t[1]] \in Seq([msg : Messages, bytes : Nat])
        BY <2>1, <3>1
      <4> QED BY <4>1, <4>2, AppendProperties
    <3> QED BY <2>1, <3>1, <3>2
  <2>3. /\ msg' \in [Threads -> Messages \cup {None}]
        /\ pc' \in [Threads -> {"idle", "write", "body", "read", "fill"}]
        /\ \A u \in Threads : msg'[u] = None <=> pc'[u] = "idle"
        /\ \A u \in Threads : pc'[u] = "fill" => rd[u] <= size[msg'[u]]
    BY <1>9 DEF Return, TypeOK
  <2> QED BY <1>9, <2>2, <2>3 DEF Return, TypeOK
<1> QED BY <1>1, <1>2, <1>3, <1>4, <1>5, <1>6, <1>7, <1>8, <1>9 DEF Steps

LEMMA SendingStep == Sound /\ Steps => SendingSound'
<1> SUFFICES ASSUME Sound, Steps, NEW t \in Threads, pc'[t] \in {"write", "body"}
             PROVE  /\ t = Main(msg'[t].from)
                    /\ msg'[t] \in sent' /\ msg'[t] \notin body'
                    /\ pc'[t] = "write" => size'[msg'[t]] = 0
                    /\ pc'[t] = "body" => msg'[t] \in linked'
  BY DEF SendingSound
<1> DEFINE Goal == /\ t = Main(msg'[t].from)
                   /\ msg'[t] \in sent' /\ msg'[t] \notin body'
                   /\ pc'[t] = "write" => size'[msg'[t]] = 0
                   /\ pc'[t] = "body" => msg'[t] \in linked'
<1> USE DEF Sound
<1>1. /\ pc \in [Threads -> {"idle", "write", "body", "read", "fill"}]
      /\ msg \in [Threads -> Messages \cup {None}] /\ size \in [Messages -> Nat]
      /\ body \subseteq linked /\ linked \subseteq sent
  BY DEF TypeOK
<1>2. ASSUME NEW u \in Threads, pc[u] \in {"write", "body"}
      PROVE  /\ u = Main(msg[u].from)
             /\ msg[u] \in sent /\ msg[u] \notin body
             /\ pc[u] = "write" => size[msg[u]] = 0
             /\ pc[u] = "body" => msg[u] \in linked
  BY <1>2 DEF SendingSound
<1>3. ASSUME NEW m \in Messages, SendBegin(m) PROVE Goal
  <2>1. CASE t = Main(m.from)
    <3>1. msg'[t] = m /\ pc'[t] = "write" /\ m \notin sent /\ m \in sent'
      BY <1>1, <1>3, <2>1 DEF SendBegin, Unsent
    <3>2. size[m] = 0
      BY <3>1 DEF SizesSound
    <3> QED BY <1>1, <1>3, <2>1, <3>1, <3>2 DEF SendBegin
  <2>2. CASE t # Main(m.from)
    BY <1>1, <1>2, <1>3, <2>2 DEF SendBegin
  <2> QED BY <2>1, <2>2
<1>4. ASSUME NEW n \in Nodes, WriteField(n) PROVE Goal
  BY <1>2, <1>4 DEF WriteField
<1>5. ASSUME NEW n \in Nodes, SendSize(n) PROVE Goal
  <2>1. CASE t = Main(n)
    BY <1>1, <1>2, <1>5, <2>1 DEF SendSize
  <2>2. CASE t # Main(n)
    <3>1. pc[t] = pc'[t] /\ Main(n) \in Threads
      BY <1>1, <1>5, <2>2, ThreadsTyped DEF SendSize
    <3>2. msg[t] # msg[Main(n)]
      BY <1>2, <1>5, <2>2, <3>1 DEF SendSize
    <3> QED BY <1>1, <1>2, <1>5, <3>1, <3>2 DEF SendSize
  <2> QED BY <2>1, <2>2
<1>6. ASSUME NEW n \in Nodes, SendBody(n) PROVE Goal
  <2>1. t # Main(n)
    BY <1>1, <1>6 DEF SendBody
  <2>2. pc[t] = pc'[t] /\ msg'[t] = msg[t] /\ Main(n) \in Threads
    BY <1>1, <1>6, <2>1, ThreadsTyped DEF SendBody
  <2>3. msg[t] # msg[Main(n)]
    BY <1>2, <1>6, <2>1, <2>2 DEF SendBody
  <2> QED BY <1>2, <1>6, <2>2, <2>3 DEF SendBody
<1>7. ASSUME NEW n \in Nodes, Dying(n) PROVE Goal
  BY <1>2, <1>7 DEF Dying, Die
<1>8. ASSUME NEW u \in Threads, Accept(u) \/ ReadSize(u) \/ ReadBody(u) \/ Return(u) PROVE Goal
  <2>1. pc'[t] = pc[t] /\ msg'[t] = msg[t]
    BY <1>1, <1>8 DEF Accept, ReadSize, ReadBody, Return
  <2> QED BY <1>2, <1>8, <2>1 DEF Accept, ReadSize, ReadBody, Return
<1> QED BY <1>3, <1>4, <1>5, <1>6, <1>7, <1>8 DEF Steps

LEMMA ReadingStep == Sound /\ Steps => ReadingSound'
<1> SUFFICES ASSUME Sound, Steps, NEW t \in Threads, pc'[t] = "read" PROVE rd'[t] = 0
  BY DEF ReadingSound
<1> USE DEF Sound
<1>1. /\ pc \in [Threads -> {"idle", "write", "body", "read", "fill"}]
      /\ rd \in [Threads -> Nat]
      /\ pc[t] = "read" => rd[t] = 0
  BY DEF TypeOK, ReadingSound
<1>2. ASSUME NEW m \in Messages, SendBegin(m) PROVE rd'[t] = 0
  BY <1>1, <1>2 DEF SendBegin
<1>3. ASSUME NEW n \in Nodes, WriteField(n) \/ SendSize(n) \/ SendBody(n) \/ Dying(n)
      PROVE  rd'[t] = 0
  BY <1>1, <1>3 DEF WriteField, SendSize, SendBody, Dying, Die
<1>4. ASSUME NEW u \in Threads, Accept(u) \/ ReadSize(u) \/ ReadBody(u) \/ Return(u)
      PROVE  rd'[t] = 0
  BY <1>1, <1>4 DEF Accept, ReadSize, ReadBody, Return
<1> QED BY <1>2, <1>3, <1>4 DEF Steps

LEMMA SizesStep == Sound /\ Steps => SizesSound'
<1> SUFFICES ASSUME Sound, Steps PROVE SizesSound'
  OBVIOUS
<1> USE DEF Sound
<1>1. /\ pc \in [Threads -> {"idle", "write", "body", "read", "fill"}]
      /\ msg \in [Threads -> Messages \cup {None}] /\ size \in [Messages -> Nat]
  BY DEF TypeOK
<1>2. ASSUME NEW m \in Messages, SendBegin(m) PROVE SizesSound'
  BY <1>1, <1>2 DEF SendBegin, SizesSound
<1>3. ASSUME NEW n \in Nodes, WriteField(n) \/ SendBody(n) \/ Dying(n) PROVE SizesSound'
  BY <1>1, <1>3 DEF WriteField, SendBody, Dying, Die, SizesSound
<1>4. ASSUME NEW n \in Nodes, SendSize(n) PROVE SizesSound'
  <2> DEFINE m == msg[Main(n)]
  <2>1. Main(n) \in Threads /\ m \in Messages /\ m \in sent /\ size[m] = 0
    BY <1>4, InCall, ThreadsTyped DEF SendSize, SendingSound
  <2>2. \A x \in Messages : x # m => size'[x] = size[x]
    BY <1>1, <1>4, <2>1 DEF SendSize
  <2>3. \A x \in Messages \ sent' : size'[x] = 0
    BY <1>4, <2>1, <2>2 DEF SendSize, SizesSound
  <2>4. ASSUME NEW t \in Threads, pc'[t] = "fill" PROVE size'[msg'[t]] > 0
    <3>1. pc[t] = "fill" /\ msg'[t] = msg[t] /\ msg[t] \in Messages
      BY <1>1, <1>4, <2>4, InCall DEF SendSize
    <3>2. msg[t] # m
      BY <2>1, <3>1 DEF SizesSound
    <3> QED BY <2>2, <3>1, <3>2 DEF SizesSound
  <2> QED BY <2>3, <2>4 DEF SizesSound
<1>5. ASSUME NEW u \in Threads, Accept(u) \/ ReadSize(u) \/ ReadBody(u) \/ Return(u)
      PROVE  SizesSound'
  BY <1>1, <1>5 DEF Accept, ReadSize, ReadBody, Return, SizesSound
<1> QED BY <1>2, <1>3, <1>4, <1>5 DEF Steps

(* Only SendSize changes a size, and none that was known.                  *)
LEMMA SizeStays ==
    ASSUME Sound, Steps, NEW m \in Messages, size[m] > 0
    PROVE  size'[m] = size[m]
<1> USE DEF Sound
<1>1. ASSUME NEW n \in Nodes, SendSize(n) PROVE size'[m] = size[m]
  <2>1. msg[Main(n)] \in Messages /\ size[msg[Main(n)]] = 0
    BY <1>1, InCall, ThreadsTyped DEF SendSize, SendingSound
  <2> QED BY <1>1, <2>1 DEF SendSize, TypeOK
<1> QED
  BY <1>1 DEF Steps, SendBegin, WriteField, SendBody, Dying, Die, Accept, ReadSize, ReadBody, Return

LEMMA GotStep == Sound /\ Steps => GotSound'
<1> SUFFICES ASSUME Sound, Steps, NEW n \in Nodes, NEW i \in DOMAIN got'[n]
             PROVE  got'[n][i].bytes = size'[got'[n][i].msg] /\ got'[n][i].bytes > 0
  BY DEF GotSound
<1> USE DEF Sound
<1> DEFINE Returned == [msg : Messages, bytes : Nat]
<1>1. got[n] \in Seq(Returned)
  BY DEF TypeOK
<1>2. ASSUME i \in DOMAIN got[n], got'[n][i] = got[n][i]
      PROVE  got'[n][i].bytes = size'[got'[n][i].msg] /\ got'[n][i].bytes > 0
  <2>1. got[n][i] \in Returned
    BY <1>1, <1>2, ElementOfSeq, LenProperties
  <2>2. got[n][i].bytes = size[got[n][i].msg] /\ got[n][i].bytes > 0
    BY <1>2 DEF GotSound
  <2> QED BY <1>2, <2>1, <2>2, SizeStays
<1>3. ASSUME NEW t \in Threads, Return(t)
      PROVE  got'[n][i].bytes = size'[got'[n][i].msg] /\ got'[n][i].bytes > 0
  <2> DEFINE r == [msg |-> msg[t], bytes |-> rd[t]]
  <2>1. t[1] \in Nodes /\ msg[t] \in Messages
    BY <1>3, InCall, ThreadsTyped DEF Return
  <2>2. r \in Returned /\ r.bytes = size[r.msg] /\ r.bytes > 0 /\ size' = size
    BY <1>3, <2>1 DEF Return, TypeOK, SizesSound
  <2>3. CASE n = t[1]
    <3>1. got'[n] = Append(got[n], r)
      BY <1>3, <2>3 DEF Return, TypeOK
    <3>2. /\ Append(got[n], r) \in Seq(Returned)
          /\ Len(Append(got[n], r)) = Len(got[n]) + 1
          /\ \A j \in 1 .. Len(got[n]) : Append(got[n], r)[j] = got[n][j]
          /\ Append(got[n], r)[Len(got[n]) + 1] = r
      BY <1>1, <2>2, AppendProperties
    <3>3. i \in 1 .. Len(got[n]) \/ i = Len(got[n]) + 1
      BY <1>1, <3>1, <3>2, LenProperties
    <3>4. CASE i \in 1 .. Len(got[n])
      BY <1>1, <1>2, <3>1, <3>2, <3>4, LenProperties
    <3>5. CASE i = Len(got[n]) + 1
      BY <2>2, <3>1, <3>2, <3>5
    <3> QED BY <3>3, <3>4, <3>5
  <2>4. CASE n # t[1]
    BY <1>2, <1>3, <2>4 DEF Return, TypeOK
  <2> QED BY <2>3, <2>4
<1>4. CASE got' = got
  BY <1>2, <1>4
<1> QED
  BY <1>3, <1>4
     DEF Steps, SendBegin, WriteField, SendSize, SendBody, Dying, Die, Accept, ReadSize, ReadBody

LEMMA StaysSound == Spec => []Sound
<1>1. Sound /\ [Next]_vars => Sound'
  <2>1. Sound /\ Next => Sound'
    BY NextIsStep, TypeStep, SendingStep, ReadingStep, SizesStep, GotStep DEF Sound
  <2>2. Sound /\ UNCHANGED vars => Sound'
    <3> SUFFICES ASSUME Sound, UNCHANGED vars PROVE Sound'
      OBVIOUS
    <3>1. TypeOK' BY DEF vars, Sound, TypeOK
    <3>2. SendingSound' /\ ReadingSound' /\ SizesSound'
      BY DEF vars, Sound, SendingSound, ReadingSound, SizesSound
    <3>3. GotSound' BY DEF vars, Sound, GotSound
    <3> QED BY <3>1, <3>2, <3>3 DEF Sound
  <2> QED BY <2>1, <2>2
<1> QED BY <1>1, InitSound, PTL DEF Spec

(* Whatever a peer does and wherever it dies, the variables of all threads *)
(* stay typed and no descriptor limit is exceeded.                         *)
THEOREM TypeCorrect == Spec => []TypeOK
BY StaysSound, PTL DEF Sound

----------------------------------------------------------------------------
(* A buffer is never smaller than a new one, so that resize, which doubles *)
(* it once, provides for any field that Fits.                              *)
Roomy == \A n \in Nodes : ser[n].pos <= ser[n].capacity /\ Initial <= ser[n].capacity

LEMMA RoomyStep == Sound /\ Roomy /\ Steps => Roomy'
<1> SUFFICES ASSUME Sound, Roomy, Steps PROVE Roomy'
  OBVIOUS
<1> USE DEF Sound
<1>1. ser \in [Nodes -> Serializers]
  BY DEF TypeOK
<1>2. ASSUME NEW m \in Messages, SendBegin(m) PROVE Roomy'
  <2>1. NewSerializer.pos <= NewSerializer.capacity /\ Initial <= NewSerializer.capacity
    BY InitialTyped DEF NewSerializer
  <2> QED BY <1>1, <1>2, <2>1 DEF SendBegin, Roomy
<1>3. ASSUME NEW n \in Nodes, WriteField(n) PROVE Roomy'
  <2> DEFINE c == msg[Main(n)].content
             f == FieldsOf(c)[field[n] + 1]
  <2>1. pc[Main(n)] = "write" /\ msg[Main(n)] \in Messages /\ c \in Contents
    BY <1>3, InCall, ThreadsTyped DEF WriteField
  <2>2. FieldsOf(c) \in Seq(Fields)
    BY <2>1, MessagesUnderstood
  <2>3. field[n] + 1 \in 1 .. Len(FieldsOf(c))
    BY <1>3, <2>2, LenProperties DEF WriteField, Unwritten, TypeOK
  <2>4. f \in Fields /\ Fits(f)
    BY <2>1, <2>2, <2>3, ElementOfSeq, LenProperties, MessagesFit
  <2>5. ser[n].pos <= ser[n].capacity /\ Initial <= ser[n].capacity /\ ser[n] \in Serializers
    BY <1>1 DEF Roomy
  <2>6. Written(ser[n], f).pos <= Written(ser[n], f).capacity
        /\ Initial <= Written(ser[n], f).capacity
    BY <2>4, <2>5, WriteHolds
  <2>7. ser' = [ser EXCEPT ![n] = Written(@, f)]
    BY <1>3 DEF WriteField
  <2> QED BY <1>1, <2>6, <2>7 DEF Roomy
<1>4. CASE ser' = ser
  BY <1>4 DEF Roomy
<1> QED
  BY <1>2, <1>3, <1>4
     DEF Steps, SendSize, SendBody, Dying, Die, Accept, ReadSize, ReadBody, Return

(* Serializing a message never leaves the buffer, whatever its kind and    *)
(* number of fields and whatever the initial capacity.                     *)
THEOREM BufferCorrect == Spec => []BufferHolds
<1>1. Init => Roomy
  BY InitialTyped DEF Init, Roomy, NewSerializer
<1>2. Sound /\ Roomy /\ [Next]_vars => Roomy'
  <2>1. Sound /\ Roomy /\ Next => Roomy'
    BY NextIsStep, RoomyStep DEF Sound
  <2>2. Roomy /\ UNCHANGED vars => Roomy'
    BY DEF vars, Roomy
  <2> QED BY <2>1, <2>2
<1>3. Roomy => BufferHolds
  BY DEF Roomy, BufferHolds
<1> QED BY <1>1, <1>2, <1>3, StaysSound, PTL DEF Spec

----------------------------------------------------------------------------
(* If afterwards nobody is blamed and every message was linked, it was so  *)
(* before, and the step was not one in which somebody dies.                *)
LEMMA CauseStep == Sound /\ NobodyDiesUncaused /\ Next => NobodyDiesUncaused'
<1> SUFFICES ASSUME Sound, NobodyDiesUncaused, Next, blamed' = {}, sent' = linked'
             PROVE  \A n \in Nodes : up'[n]
  BY DEF NobodyDiesUncaused
<1> USE DEF Sound
<1>1. linked \subseteq sent
  BY DEF TypeOK
<1>2. ASSUME blamed = {}, sent = linked PROVE \A n \in Nodes : up[n]
  BY <1>2 DEF NobodyDiesUncaused
<1>3. ASSUME NEW m \in Messages, SendBegin(m) PROVE \A n \in Nodes : up'[n]
  <2>1. up' = up /\ blamed' = blamed /\ sent' = sent \cup {m} /\ m \notin sent
        /\ (linked' = linked \/ linked' = linked \cup {m})
    BY <1>3 DEF SendBegin, Unsent
  <2>2. sent = linked
    BY <1>1, <2>1
  <2> QED BY <1>2, <2>1, <2>2
<1>4. ASSUME NEW m \in Messages, SocketFails(m) PROVE FALSE
  BY <1>4 DEF SocketFails
<1>5. ASSUME NEW n \in Nodes, Kill(n) PROVE FALSE
  BY <1>5 DEF Kill
<1>6. ASSUME NEW t \in Threads, AcceptFails(t) PROVE FALSE
  BY <1>6 DEF AcceptFails
<1>7. ASSUME NEW n \in Nodes, SendFails(n) PROVE FALSE
  <2>1. blamed = {} /\ sent = linked
    BY <1>7 DEF SendFails, Die
  <2>2. Main(n) \in Threads /\ pc[Main(n)] \in {"write", "body"}
    BY <1>7, ThreadsTyped DEF SendFails
  <2>3. msg[Main(n)] \in sent /\ msg[Main(n)].to \in Nodes
    BY <2>2, InCall DEF SendingSound
  <2> QED BY <1>2, <1>7, <2>1, <2>3 DEF SendFails
<1>8. ASSUME NEW t \in Threads, ReadSizeFails(t) PROVE FALSE
  <2>1. blamed = {} /\ sent = linked
    BY <1>8 DEF ReadSizeFails, Die
  <2>2. msg[t].from \in Nodes
    BY <1>8, InCall DEF ReadSizeFails
  <2> QED BY <1>2, <1>8, <2>1, <2>2 DEF ReadSizeFails
<1>9. ASSUME up' = up, blamed' = blamed, sent' = sent, linked' = linked
      PROVE  \A n \in Nodes : up'[n]
  BY <1>2, <1>9
<1>10. ASSUME NEW n \in Nodes, WriteField(n) \/ SendSize(n) \/ SendBody(n)
       PROVE  \A k \in Nodes : up'[k]
  BY <1>9, <1>10 DEF WriteField, SendSize, SendBody
<1>11. ASSUME NEW t \in Threads, Accept(t) \/ ReadSize(t) \/ ReadBody(t) \/ Return(t)
       PROVE  \A k \in Nodes : up'[k]
  BY <1>9, <1>11 DEF Accept, ReadSize, ReadBody, Return
<1> QED
  BY <1>3, <1>4, <1>5, <1>6, <1>7, <1>8, <1>10, <1>11
     DEF Next, Sending, Receiving, Accepting

(* As long as nobody is killed, runs out of descriptors or sends to a full *)
(* queue, no schedule of senders and receivers makes a process exit.       *)
THEOREM CauseCorrect == Spec => []NobodyDiesUncaused
<1>1. Init => NobodyDiesUncaused
  BY DEF Init, NobodyDiesUncaused
<1>2. Sound /\ NobodyDiesUncaused /\ [Next]_vars => NobodyDiesUncaused'
  <2>1. NobodyDiesUncaused /\ UNCHANGED vars => NobodyDiesUncaused'
    BY DEF vars, NobodyDiesUncaused
  <2> QED BY <2>1, CauseStep
<1> QED BY <1>1, <1>2, StaysSound, PTL DEF Spec

----------------------------------------------------------------------------
(* The variables of Mailbox.  What was returned is what was sent: it has   *)
(* the bytes of its size, and the receiver reads what the sender wrote.    *)
MailHand == [t \in Threads |-> InHand(t)]
MailGot  == [n \in Nodes |-> [i \in DOMAIN got[n] |-> AsSent(got[n][i])]]

MessagesOf(s) == [i \in DOMAIN s |-> s[i].msg]

LEMMA SeenAsSent ==
    ASSUME Sound
    PROVE  MailGot = [n \in Nodes |-> MessagesOf(got[n])]
<1>1. ASSUME NEW n \in Nodes, NEW i \in DOMAIN got[n]
      PROVE  AsSent(got[n][i]) = got[n][i].msg
  <2>1. got[n] \in Seq([msg : Messages, bytes : Nat])
    BY DEF Sound, TypeOK
  <2>2. got[n][i] \in [msg : Messages, bytes : Nat]
    BY <2>1, ElementOfSeq, LenProperties
  <2>3. Understood(got[n][i].msg.content)
    BY <2>2, MessagesTyped, MessagesUnderstood
  <2> QED BY <2>3 DEF AsSent, Sound, GotSound
<1> QED BY <1>1 DEF MailGot, MessagesOf

LEMMA SeenAsSentNext ==
    ASSUME Sound'
    PROVE  MailGot' = [n \in Nodes |-> MessagesOf(got'[n])]
<1>1. ASSUME NEW n \in Nodes, NEW i \in DOMAIN got'[n]
      PROVE  AsSent(got[n][i])' = got'[n][i].msg
  <2>1. got'[n] \in Seq([msg : Messages, bytes : Nat])
    BY DEF Sound, TypeOK
  <2>2. got'[n][i] \in [msg : Messages, bytes : Nat]
    BY <2>1, ElementOfSeq, LenProperties
  <2>3. Understood(got'[n][i].msg.content)
    BY <2>2, MessagesTyped, MessagesUnderstood
  <2> QED BY <2>3 DEF AsSent, Sound, GotSound
<1> QED BY <1>1 DEF MailGot, MessagesOf

LEMMA MessagesOfAppend ==
    ASSUME NEW s \in Seq([msg : Messages, bytes : Nat]), NEW r \in [msg : Messages, bytes : Nat]
    PROVE  MessagesOf(Append(s, r)) = Append(MessagesOf(s), r.msg)
<1>1. /\ Append(s, r) \in Seq([msg : Messages, bytes : Nat])
      /\ Len(Append(s, r)) = Len(s) + 1
      /\ \A i \in 1 .. Len(s) : Append(s, r)[i] = s[i]
      /\ Append(s, r)[Len(s) + 1] = r
  BY AppendProperties
<1>2. DOMAIN s = 1 .. Len(s) /\ Len(s) \in Nat /\ DOMAIN Append(s, r) = 1 .. Len(s) + 1
  BY <1>1, LenProperties
<1>3. ASSUME NEW i \in 1 .. Len(s) PROVE s[i].msg \in Messages
  <2>1. s[i] \in [msg : Messages, bytes : Nat]
    BY ElementOfSeq
  <2> QED BY <2>1
<1> DEFINE q == MessagesOf(s)
<1>4. q \in Seq(Messages) /\ Len(q) = Len(s) /\ \A i \in 1 .. Len(s) : q[i] = s[i].msg
  <2>1. q = [i \in 1 .. Len(s) |-> s[i].msg]
    BY <1>2 DEF MessagesOf
  <2> QED BY <1>2, <1>3, <2>1
<1> HIDE DEF q
<1>5. /\ Append(q, r.msg) \in Seq(Messages)
      /\ Len(Append(q, r.msg)) = Len(s) + 1
      /\ \A i \in 1 .. Len(s) : Append(q, r.msg)[i] = q[i]
      /\ Append(q, r.msg)[Len(s) + 1] = r.msg
  BY <1>4, AppendProperties
<1>6. Append(q, r.msg) = [i \in 1 .. Len(s) + 1 |-> Append(q, r.msg)[i]]
  BY <1>5, LenProperties
<1>7. MessagesOf(Append(s, r)) = [i \in 1 .. Len(s) + 1 |-> Append(s, r)[i].msg]
  BY <1>2 DEF MessagesOf
<1>8. ASSUME NEW i \in 1 .. Len(s) + 1 PROVE Append(s, r)[i].msg = Append(q, r.msg)[i]
  <2>1. i \in 1 .. Len(s) \/ i = Len(s) + 1
    BY <1>2
  <2>2. CASE i \in 1 .. Len(s) BY <1>1, <1>4, <1>5, <2>2
  <2>3. CASE i = Len(s) + 1 BY <1>1, <1>5, <2>3
  <2> QED BY <2>1, <2>2, <2>3
<1>9. MessagesOf(Append(s, r)) = Append(q, r.msg)
  BY <1>6, <1>7, <1>8
<1> QED BY <1>9 DEF q

LEMMA MailboxInit == Init => Mail!Init
<1> SUFFICES ASSUME Init PROVE Mail!Init
  OBVIOUS
<1>1. MailHand = [t \in Threads |-> None]
  BY DEF Init, MailHand, InHand
<1>2. MailGot = [n \in Nodes |-> << >>]
  <2>1. [i \in DOMAIN << >> |-> AsSent(<< >>[i])] = << >>
    OBVIOUS
  <2>2. \A n \in Nodes : got[n] = << >>
    BY DEF Init
  <2> QED BY <2>1, <2>2 DEF MailGot
<1> QED BY <1>1, <1>2 DEF Init, Mail!Init, MailHand, MailGot

(* A step that returns nothing leaves what was returned as it was sent.    *)
LEMMA GotUnchanged ==
    ASSUME Sound, Sound', got' = got
    PROVE  MailGot' = MailGot
BY SeenAsSent, SeenAsSentNext

LEMMA HandUnchanged ==
    ASSUME \A t \in Threads : InHand(t)' = InHand(t)
    PROVE  MailHand' = MailHand
BY DEF MailHand

LEMMA MailboxStep == Sound /\ Sound' /\ Steps => Mail!Next \/ UNCHANGED Mail!vars
<1> SUFFICES ASSUME Sound, Sound', Steps PROVE Mail!Next \/ UNCHANGED Mail!vars
  OBVIOUS
<1>1. /\ pc \in [Threads -> {"idle", "write", "body", "read", "fill"}]
      /\ msg \in [Threads -> Messages \cup {None}]
      /\ linked \subseteq sent
      /\ got \in [Nodes -> Seq([msg : Messages, bytes : Nat])]
  BY DEF Sound, TypeOK
<1>2. ASSUME UNCHANGED <<up, linked, backlog>>, MailHand' = MailHand, MailGot' = MailGot
      PROVE  UNCHANGED Mail!vars
  BY <1>2 DEF Mail!vars, MailHand, MailGot
<1>3. ASSUME NEW m \in Messages, SendBegin(m)
      PROVE  Mail!Post(m) \/ UNCHANGED Mail!vars
  <2>1. MailGot' = MailGot
    BY <1>3, GotUnchanged DEF SendBegin
  <2>2. MailHand' = MailHand
    <3>1. ASSUME NEW t \in Threads PROVE InHand(t)' = InHand(t)
      BY <1>1, <1>3 DEF SendBegin, InHand
    <3> QED BY <3>1, HandUnchanged
  <2>3. CASE Connects(m) /\ linked' = linked \cup {m}
                         /\ backlog' = [backlog EXCEPT ![m.to] = Append(@, m)]
    <3>1. m \notin linked /\ up[m.to] /\ up' = up
      BY <1>1, <1>3, <2>3 DEF SendBegin, Unsent, Connects
    <3> QED BY <2>1, <2>2, <2>3, <3>1 DEF Mail!Post, MailHand, MailGot
  <2>4. CASE UNCHANGED <<linked, backlog>>
    BY <1>2, <1>3, <2>1, <2>2, <2>4 DEF SendBegin
  <2> QED BY <1>3, <2>3, <2>4 DEF SendBegin
<1>4. ASSUME NEW n \in Nodes, WriteField(n) \/ SendSize(n) \/ SendBody(n)
      PROVE  UNCHANGED Mail!vars
  <2>1. UNCHANGED <<up, linked, backlog, got>>
    BY <1>4 DEF WriteField, SendSize, SendBody
  <2>2. ASSUME NEW t \in Threads PROVE InHand(t)' = InHand(t)
    BY <1>1, <1>4 DEF WriteField, SendSize, SendBody, InHand
  <2> QED BY <1>2, <2>1, <2>2, GotUnchanged, HandUnchanged
<1>5. ASSUME NEW n \in Nodes, Dying(n)
      PROVE  Mail!Stop(n)
  <2>1. MailGot' = MailGot
    BY <1>5, GotUnchanged DEF Dying, Die
  <2>2. ASSUME NEW t \in Threads PROVE InHand(t)' = InHand(t)
    BY <1>5 DEF Dying, Die, InHand
  <2>3. MailHand' = MailHand
    BY <2>2, HandUnchanged
  <2> QED BY <1>5, <2>1, <2>3 DEF Mail!Stop, Dying, Die, MailHand, MailGot
<1>6. ASSUME NEW t \in Threads, Accept(t)
      PROVE  Mail!Take(t)
  <2>1. MailGot' = MailGot
    BY <1>6, GotUnchanged DEF Accept
  <2>2. MailHand' = [MailHand EXCEPT ![t] = Head(backlog[t[1]])]
    <3>1. InHand(t)' = Head(backlog[t[1]])
      BY <1>1, <1>6 DEF Accept, InHand
    <3>2. ASSUME NEW u \in Threads, u # t PROVE InHand(u)' = InHand(u)
      BY <1>1, <1>6, <3>2 DEF Accept, InHand
    <3> QED BY <3>1, <3>2 DEF MailHand
  <2>3. MailHand[t] = None
    BY <1>6 DEF Accept, MailHand, InHand
  <2> QED BY <1>6, <2>1, <2>2, <2>3 DEF Accept, Mail!Take, MailHand, MailGot
<1>7. ASSUME NEW t \in Threads, ReadSize(t) \/ ReadBody(t)
      PROVE  UNCHANGED Mail!vars
  <2>1. UNCHANGED <<up, linked, backlog, got>>
    BY <1>7 DEF ReadSize, ReadBody
  <2>2. ASSUME NEW u \in Threads PROVE InHand(u)' = InHand(u)
    BY <1>1, <1>7 DEF ReadSize, ReadBody, InHand
  <2> QED BY <1>2, <2>1, <2>2, GotUnchanged, HandUnchanged
<1>8. ASSUME NEW t \in Threads, Return(t)
      PROVE  Mail!HandOver(t)
  <2> DEFINE r == [msg |-> msg[t], bytes |-> rd[t]]
  <2>1. t[1] \in Nodes /\ msg[t] \in Messages /\ rd[t] \in Nat
    BY <1>8, InCall, ThreadsTyped DEF Return, Sound, TypeOK
  <2>2. MailHand[t] = msg[t] /\ MailHand[t] # None
    BY <1>8, <2>1, NoneIsNoMessage DEF Return, MailHand, InHand
  <2>3. MailHand' = [MailHand EXCEPT ![t] = None]
    <3>1. InHand(t)' = None
      BY <1>1, <1>8 DEF Return, InHand
    <3>2. ASSUME NEW u \in Threads, u # t PROVE InHand(u)' = InHand(u)
      BY <1>1, <1>8, <3>2 DEF Return, InHand
    <3> QED BY <3>1, <3>2 DEF MailHand
  <2>4. MailGot' = [MailGot EXCEPT ![t[1]] = Append(@, msg[t])]
    <3>1. MessagesOf(Append(got[t[1]], r)) = Append(MessagesOf(got[t[1]]), msg[t])
      <4>1. r \in [msg : Messages, bytes : Nat] /\ r.msg = msg[t]
        BY <2>1
      <4>2. got[t[1]] \in Seq([msg : Messages, bytes : Nat])
        BY <1>1, <2>1
      <4> HIDE DEF r
      <4> QED BY <4>1, <4>2, MessagesOfAppend
    <3>2. got' = [got EXCEPT ![t[1]] = Append(@, r)]
      BY <1>8 DEF Return
    <3> DEFINE before == [n \in Nodes |-> MessagesOf(got[n])]
               after  == [n \in Nodes |-> MessagesOf(got'[n])]
    <3>3. MailGot = before /\ MailGot' = after
      BY SeenAsSent, SeenAsSentNext
    <3>4. after = [before EXCEPT ![t[1]] = Append(@, msg[t])]
      BY <1>1, <2>1, <3>1, <3>2
    <3> QED BY <3>3, <3>4
  <2>5. UNCHANGED <<up, linked, backlog>> /\ up[t[1]]
    BY <1>8 DEF Return
  <2> QED BY <2>2, <2>3, <2>4, <2>5 DEF Mail!HandOver, MailHand, MailGot
<1> QED
  BY <1>3, <1>4, <1>5, <1>6, <1>7, <1>8 DEF Steps, Mail!Next

(* send_m and recv_m keep what KVStore and Startup assume of a message,    *)
(* for any number of nodes, receiving threads, messages and descriptors.   *)
THEOREM TransportImplementsMailbox == Spec => ImplementsMailbox
<1>1. Sound /\ Sound' /\ [Next]_vars => [Mail!Next]_(Mail!vars)
  <2>1. Sound /\ Sound' /\ Next => Mail!Next \/ UNCHANGED Mail!vars
    BY NextIsStep, MailboxStep DEF Sound
  <2>2. UNCHANGED vars => UNCHANGED Mail!vars
    BY DEF vars, Mail!vars, InHand, AsSent
  <2> QED BY <2>1, <2>2
<1> QED BY <1>1, MailboxInit, StaysSound, PTL DEF Spec, ImplementsMailbox, Mail!Spec
=============================================================================
