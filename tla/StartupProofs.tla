--------------------------- MODULE StartupProofs ---------------------------
(***************************************************************************)
(* Proofs about Startup for any number of nodes and of starts: the types   *)
(* and the count of registrations whatever is killed, and the order of     *)
(* messages where nobody is killed and all are on one machine.             *)
(***************************************************************************)
EXTENDS Startup, FiniteSetTheorems, TLAPS

----------------------------------------------------------------------------
(* What is on its way to node 0 comes from clients.                        *)
FromClients == \A e \in DOMAIN inbox[Server] : inbox[Server][e].from \in Clients

Typed == TypeOK /\ FromClients

LEMMA NodeTypes == /\ Server \in Nodes /\ Clients \subseteq Nodes /\ Server \notin Clients
                   /\ Nodes = Clients \cup {Server}
BY NumNodesTyped DEF Server, Clients, Nodes

(* A send, whatever becomes of it: either it is appended at a receiver     *)
(* that runs, or the sender is gone and nothing is queued for it.          *)
LEMMA SendCases ==
    ASSUME NEW n \in Nodes, NEW t \in Nodes, NEW m \in Message, Send(n, t, m), TypeOK
    PROVE  \/ /\ Reaches(n, t) /\ proc[t] = "up" /\ UNCHANGED proc
              /\ inbox' = [inbox EXCEPT ![t] = Append(inbox[t], m)]
              /\ Append(inbox[t], m) \in Seq(Message)
           \/ /\ ~Reaches(n, t)
              /\ proc' = [proc EXCEPT ![n] = "crashed"]
              /\ inbox' = [inbox EXCEPT ![n] = << >>]
BY DEF Send, Reaches, Crash, TypeOK

LEMMA SendTyped ==
    ASSUME NEW n \in Nodes, NEW t \in Nodes, NEW m \in Message, Send(n, t, m), Typed,
           t = Server => m.from \in Clients
    PROVE  /\ proc' \in [Nodes -> {"off", "up", "crashed"}]
           /\ inbox' \in [Nodes -> Seq(Message)]
           /\ FromClients'
<1>1. CASE /\ UNCHANGED proc
           /\ inbox' = [inbox EXCEPT ![t] = Append(inbox[t], m)]
           /\ Append(inbox[t], m) \in Seq(Message)
  <2>1. inbox[Server] \in Seq(Message)
    BY NodeTypes DEF Typed, TypeOK
  <2> QED
    BY <1>1, <2>1, NodeTypes DEF Typed, TypeOK, FromClients
<1>2. CASE /\ proc' = [proc EXCEPT ![n] = "crashed"]
           /\ inbox' = [inbox EXCEPT ![n] = << >>]
  BY <1>2, NodeTypes DEF Typed, TypeOK, FromClients
<1> QED
  BY <1>1, <1>2, SendCases DEF Typed

LEMMA TailEntries ==
    ASSUME NEW S, NEW q \in Seq(S), q # << >>
    PROVE  /\ Head(q) = q[1] /\ 1 \in DOMAIN q /\ Head(q) \in S /\ Tail(q) \in Seq(S)
           /\ \A e \in DOMAIN Tail(q) : e + 1 \in DOMAIN q /\ Tail(q)[e] = q[e + 1]
OBVIOUS

LEMMA MessageTypes ==
    /\ \A n \in Nodes : \A kind \in {"Register", "KeyMessage", "Data"} : Msg(kind, n) \in Message
    /\ \A s \in Seq(Addresses) : [kind |-> "Directory", from |-> Server, addrs |-> s] \in Message
    /\ \A n \in Nodes, kind \in {"Register", "KeyMessage", "Data"} :
            Msg(kind, n).kind = kind /\ Msg(kind, n).from = n
BY NodeTypes DEF Msg, Message

LEMMA StartCounts ==
    ASSUME NEW n \in Nodes, starts[n] < StartBudget[n], starts' = [starts EXCEPT ![n] = @ + 1],
           starts \in [Nodes -> Nat], \A x \in Nodes : starts[x] <= StartBudget[x]
    PROVE  starts' \in [Nodes -> Nat] /\ \A x \in Nodes : starts'[x] <= StartBudget[x]
<1>1. \A x \in Nodes : starts[x] \in Nat /\ StartBudget[x] \in Nat
  BY StartBudgetTyped
<1> QED
  BY <1>1

LEMMA TypedInit == Init => Typed
BY NumNodesTyped, NodeTypes, StartBudgetTyped DEF Init, Typed, TypeOK, FromClients, Addresses

LEMMA TypedNext == Typed /\ [Next]_vars => Typed'
<1> SUFFICES ASSUME Typed, [Next]_vars PROVE Typed'
  OBVIOUS
<1> USE DEF Typed
<1>0. NumNodes \in Nat \ {0} /\ Server \in Nodes
  BY NumNodesTyped, NodeTypes
<1> USE <1>0
<1>c. \A c \in Clients : c \in Nodes /\ c # Server
  BY NodeTypes
<1>s. inbox[Server] \in Seq(Message) /\ proc[Server] \in {"off", "up", "crashed"}
  BY DEF TypeOK
<1>1. CASE ServerStart
  <2>1. addr' \in [Nodes -> [Nodes -> Addresses]]
    BY <1>1 DEF ServerStart, TypeOK, Addresses
  <2>2. starts' \in [Nodes -> Nat] /\ \A n \in Nodes : starts'[n] <= StartBudget[n]
    BY <1>1, StartCounts DEF ServerStart, TypeOK
  <2> QED
    BY <1>1, <2>1, <2>2 DEF ServerStart, Goto, TypeOK, FromClients
<1>2. CASE ServerRegister
  <2>1. Head(inbox[Server]) \in Message /\ Tail(inbox[Server]) \in Seq(Message)
    BY <1>2, <1>s DEF ServerRegister
  <2>2. Head(inbox[Server]).from \in Nodes
    BY <2>1 DEF Message
  <2>3. FromClients'
    <3>1. inbox'[Server] = Tail(inbox[Server]) \/ inbox'[Server] = << >>
      BY <1>2 DEF ServerRegister, Crash, TypeOK
    <3>2. inbox[Server] # << >>
      BY <1>2 DEF ServerRegister
    <3> QED
      <4>1. CASE inbox'[Server] = Tail(inbox[Server])
        BY <1>s, <3>2, <4>1, TailEntries DEF FromClients
      <4>2. CASE inbox'[Server] = << >>
        BY <4>2 DEF FromClients
      <4> QED
        BY <3>1, <4>1, <4>2
  <2>4. proc' \in [Nodes -> {"off", "up", "crashed"}] /\ inbox' \in [Nodes -> Seq(Message)]
    <3>1. CASE inbox' = [inbox EXCEPT ![Server] = Tail(@)] /\ UNCHANGED proc
      BY <2>1, <3>1 DEF TypeOK
    <3>2. CASE Crash(Server)
      BY <3>2 DEF Crash, TypeOK
    <3> QED
      BY <1>2, <3>1, <3>2 DEF ServerRegister
  <2>5. addr' \in [Nodes -> [Nodes -> Addresses]] /\ i' \in 1 .. NumNodes
    <3>1. CASE addr' = [addr EXCEPT ![Server][Head(inbox[Server]).from] = "any"] /\ i' = i + 1
      BY <1>2, <2>2, <3>1 DEF ServerRegister, TypeOK, Addresses
    <3>2. CASE UNCHANGED <<i, addr>>
      BY <3>2 DEF TypeOK
    <3> QED
      BY <1>2, <3>1, <3>2 DEF ServerRegister
  <2> QED
    BY <1>2, <2>3, <2>4, <2>5 DEF ServerRegister, TypeOK
<1>3. CASE ServerFill
  <2>1. [x \in 1 .. NumNodes |-> IF x \in Clients THEN addr[Server][x] ELSE "garbage"]
            \in Seq(Addresses)
    <3>1. \A x \in 1 .. NumNodes : x \in Clients => addr[Server][x] \in Addresses
      BY <1>c DEF TypeOK
    <3> QED
      BY <3>1 DEF Addresses
  <2> QED
    BY <1>3, <1>c, <2>1 DEF ServerFill, Goto, TypeOK, FromClients
<1>4. CASE ServerDirect
  <2>1. i \in Clients /\ i + 1 \in 1 .. NumNodes
    BY <1>4, NumNodesTyped DEF ServerDirect, Clients, TypeOK
  <2>2. /\ proc' \in [Nodes -> {"off", "up", "crashed"}]
        /\ inbox' \in [Nodes -> Seq(Message)]
        /\ FromClients'
    BY <1>4, <1>c, <2>1, MessageTypes, SendTyped DEF ServerDirect, TypeOK
  <2> QED
    BY <1>4, <2>1, <2>2 DEF ServerDirect, TypeOK
<1>5. CASE ServerReady
  BY <1>5 DEF ServerReady, Goto, TypeOK, FromClients
<1>6. CASE ServerListen
  <2>1. Head(inbox[Server]) \in Message /\ Tail(inbox[Server]) \in Seq(Message)
        /\ Head(inbox[Server]).from \in Clients
    BY <1>6, <1>s DEF ServerListen, FromClients
  <2>2. inbox'[Server] = Tail(inbox[Server])
    BY <1>6 DEF ServerListen, TypeOK
  <2>3. FromClients'
    BY <1>6, <1>s, <2>2 DEF ServerListen, FromClients
  <2>4. pending' \subseteq Clients
    BY <1>6, <2>1 DEF ServerListen, TypeOK
  <2> QED
    BY <1>6, <1>c, <2>1, <2>3, <2>4 DEF ServerListen, TypeOK
<1>7. ASSUME NEW c \in Clients, ServerAnswer(c) PROVE Typed'
  <2>1. /\ proc' \in [Nodes -> {"off", "up", "crashed"}]
        /\ inbox' \in [Nodes -> Seq(Message)]
        /\ FromClients'
    BY <1>7, <1>c, MessageTypes, SendTyped DEF ServerAnswer
  <2> QED
    BY <1>7, <1>c, <2>1 DEF ServerAnswer, TypeOK
<1>8. ASSUME NEW c \in Clients, ClientStart(c) PROVE Typed'
  <2>1. addr' \in [Nodes -> [Nodes -> Addresses]]
    BY <1>8, <1>c DEF ClientStart, TypeOK, Addresses
  <2>2. starts' \in [Nodes -> Nat] /\ \A n \in Nodes : starts'[n] <= StartBudget[n]
    BY <1>8, <1>c, StartCounts DEF ClientStart, TypeOK
  <2> QED
    BY <1>8, <1>c, <2>1, <2>2 DEF ClientStart, Goto, TypeOK, FromClients
<1>9. ASSUME NEW c \in Clients, ClientRegister(c) PROVE Typed'
  <2>1. /\ proc' \in [Nodes -> {"off", "up", "crashed"}]
        /\ inbox' \in [Nodes -> Seq(Message)]
        /\ FromClients'
    BY <1>9, <1>c, MessageTypes, SendTyped DEF ClientRegister
  <2> QED
    BY <1>9, <1>c, <2>1 DEF ClientRegister, Goto, TypeOK
<1>10. ASSUME NEW c \in Clients, ClientDirectory(c) PROVE Typed'
  <2>1. inbox[c] \in Seq(Message) /\ inbox[c] # << >>
    BY <1>10, <1>c DEF ClientDirectory, TypeOK
  <2>2. Tail(inbox[c]) \in Seq(Message)
    BY <2>1
  <2>3. FromClients'
    BY <1>10, <1>c DEF ClientDirectory, Crash, FromClients, TypeOK
  <2>4. proc' \in [Nodes -> {"off", "up", "crashed"}] /\ inbox' \in [Nodes -> Seq(Message)]
    <3>1. CASE inbox' = [inbox EXCEPT ![c] = Tail(@)] /\ UNCHANGED proc
      BY <1>c, <2>2, <3>1 DEF TypeOK
    <3>2. CASE Crash(c)
      BY <1>c, <3>2 DEF Crash, TypeOK
    <3> QED
      BY <1>10, <3>1, <3>2 DEF ClientDirectory
  <2>5. addr' \in [Nodes -> [Nodes -> Addresses]]
    <3>1. [x \in Nodes |-> IF x = Server THEN addr[c][x] ELSE "garbage"] \in [Nodes -> Addresses]
      BY <1>c DEF TypeOK, Addresses
    <3> QED
      BY <1>10, <1>c, <3>1 DEF ClientDirectory, TypeOK
  <2>6. pc' \in [Nodes -> {"init", "register", "direct", "await", "ready"}]
    BY <1>10, <1>c DEF ClientDirectory, Goto, TypeOK
  <2> QED
    BY <1>10, <1>c, <2>3, <2>4, <2>5, <2>6 DEF ClientDirectory, TypeOK
<1>11. ASSUME NEW c \in Clients, ClientAsk(c) PROVE Typed'
  <2>1. /\ proc' \in [Nodes -> {"off", "up", "crashed"}]
        /\ inbox' \in [Nodes -> Seq(Message)]
        /\ FromClients'
    BY <1>11, <1>c, MessageTypes, SendTyped DEF ClientAsk
  <2> QED
    BY <1>11, <1>c, <2>1 DEF ClientAsk, TypeOK
<1>12. ASSUME NEW n \in Nodes, Kill(n) PROVE Typed'
  BY <1>12 DEF Kill, Crash, TypeOK, FromClients
<1>13. CASE UNCHANGED vars
  BY <1>13 DEF vars, TypeOK, FromClients
<1> QED
  BY <1>1, <1>2, <1>3, <1>4, <1>5, <1>6, <1>7, <1>8, <1>9, <1>10, <1>11, <1>12, <1>13
  DEF Next, ServerInit

(* The types, whatever is killed and started again: the loop counter stays *)
(* in its range, and only clients are in the list of who asked.            *)
THEOREM TypeCorrect == Spec => []TypeOK
<1>1. Typed => TypeOK
  BY DEF Typed
<1> QED
  BY <1>1, TypedInit, TypedNext, PTL DEF Spec
----------------------------------------------------------------------------
(* Counting.  Registrations are positions in a queue, and a queue that     *)
(* gets shorter or takes another message has no more of them.              *)
RegistersIn(q) == {e \in DOMAIN q : q[e].kind = "Register"}

LEMMA RegistersFinite ==
    ASSUME NEW q \in Seq(Message)
    PROVE  IsFiniteSet(RegistersIn(q)) /\ Cardinality(RegistersIn(q)) \in Nat
<1>1. IsFiniteSet(1 .. Len(q)) /\ RegistersIn(q) \in SUBSET (1 .. Len(q))
  BY FS_Interval DEF RegistersIn
<1>2. IsFiniteSet(RegistersIn(q))
  BY <1>1, FS_Subset
<1> QED
  BY <1>2, FS_CardinalityType

LEMMA RegistersOfNone == Cardinality(RegistersIn(<< >>)) = 0
<1>1. RegistersIn(<< >>) = {}
  BY DEF RegistersIn
<1> QED
  BY <1>1, FS_EmptySet

LEMMA RegistersOfAppend ==
    ASSUME NEW q \in Seq(Message), NEW m \in Message
    PROVE  Cardinality(RegistersIn(Append(q, m))) =
               Cardinality(RegistersIn(q)) + (IF m.kind = "Register" THEN 1 ELSE 0)
<1>1. RegistersIn(Append(q, m)) =
          IF m.kind = "Register" THEN RegistersIn(q) \cup {Len(q) + 1} ELSE RegistersIn(q)
  BY DEF RegistersIn
<1>2. Len(q) + 1 \notin RegistersIn(q)
  BY DEF RegistersIn
<1>3. IsFiniteSet(RegistersIn(q)) /\ Cardinality(RegistersIn(q)) \in Nat
  BY RegistersFinite
<1>4. Cardinality(RegistersIn(q) \cup {Len(q) + 1}) = Cardinality(RegistersIn(q)) + 1
  BY <1>2, <1>3, FS_AddElement
<1> QED
  BY <1>1, <1>3, <1>4

LEMMA RegistersOfTail ==
    ASSUME NEW q \in Seq(Message), q # << >>
    PROVE  Cardinality(RegistersIn(Tail(q))) + (IF Head(q).kind = "Register" THEN 1 ELSE 0)
               <= Cardinality(RegistersIn(q))
<1> DEFINE T == RegistersIn(Tail(q))
           S == RegistersIn(q) \ {1}
           f == [e \in T |-> e + 1]
<1>1. Tail(q) \in Seq(Message) /\ \A e \in DOMAIN Tail(q) : e + 1 \in DOMAIN q /\ Tail(q)[e] = q[e + 1]
  BY TailEntries
<1>2. \A e \in T : e \in Nat /\ e >= 1 /\ e + 1 \in S
  BY <1>1 DEF RegistersIn
<1>3. f \in Injection(T, S)
  BY <1>2 DEF Injection, IsInjective
<1>4. IsFiniteSet(S) /\ Cardinality(S) =
          IF 1 \in RegistersIn(q) THEN Cardinality(RegistersIn(q)) - 1 ELSE Cardinality(RegistersIn(q))
  BY RegistersFinite, FS_RemoveElement
<1>5. Cardinality(T) <= Cardinality(S)
  BY <1>3, <1>4, FS_Injection
<1>6. Head(q).kind = "Register" <=> 1 \in RegistersIn(q)
  BY TailEntries DEF RegistersIn
<1>7. Cardinality(T) \in Nat /\ Cardinality(RegistersIn(q)) \in Nat
  BY <1>1, RegistersFinite
<1> QED
  BY <1>4, <1>5, <1>6, <1>7

(* The lives are finitely many, and a start makes one more.                *)
LEMMA ClientsFinite == IsFiniteSet(Clients) /\ Cardinality(Clients) = NumNodes - 1
BY NumNodesTyped, FS_Interval DEF Clients

LivesOf(st) == UNION {{c} \X (1 .. st[c]) : c \in Clients}

LEMMA LivesFinite ==
    ASSUME NEW st \in [Nodes -> Nat]
    PROVE  IsFiniteSet(LivesOf(st)) /\ Cardinality(LivesOf(st)) \in Nat
<1> DEFINE L(c) == {c} \X (1 .. st[c])
           S == {L(c) : c \in Clients}
           f == [c \in Clients |-> L(c)]
<1>1. f \in Surjection(Clients, S)
  BY DEF Surjection
<1>2. IsFiniteSet(S)
  BY <1>1, ClientsFinite, FS_Surjection
<1>3. ASSUME NEW c \in Clients PROVE IsFiniteSet(L(c))
  <2>1. 1 \in Int /\ st[c] \in Int
    BY <1>3, NodeTypes
  <2>2. IsFiniteSet({c}) /\ IsFiniteSet(1 .. st[c])
    BY <2>1, FS_Singleton, FS_Interval
  <2> QED
    BY <2>2, FS_Product
<1>4. IsFiniteSet(UNION S)
  BY <1>2, <1>3, FS_UNION
<1> QED
  BY <1>4, FS_CardinalityType DEF LivesOf

LEMMA LivesGrow ==
    ASSUME NEW st \in [Nodes -> Nat], NEW c \in Clients
    PROVE  Cardinality(LivesOf([st EXCEPT ![c] = @ + 1])) = Cardinality(LivesOf(st)) + 1
<1> DEFINE su == [st EXCEPT ![c] = @ + 1]
<1>1. c \in Nodes /\ st[c] \in Nat /\ \A x \in Clients : x \in Nodes
  BY NodeTypes
<1>2. \A x \in Clients : su[x] = IF x = c THEN st[c] + 1 ELSE st[x]
  BY <1>1
<1> HIDE DEF su
<1>3. 1 .. (st[c] + 1) = (1 .. st[c]) \cup {st[c] + 1}
  BY <1>1
<1>4. \A x, l : <<x, l>> \in LivesOf(st) <=> x \in Clients /\ l \in 1 .. st[x]
  BY DEF LivesOf
<1>5. \A x, l : <<x, l>> \in LivesOf(su) <=> x \in Clients /\ l \in 1 .. su[x]
  BY DEF LivesOf
<1>6. \A y \in LivesOf(st) \cup LivesOf(su) : \E x, l : y = <<x, l>>
  BY DEF LivesOf
<1>7. \A x, l : <<x, l>> \in LivesOf(su) <=> <<x, l>> \in LivesOf(st) \/ <<x, l>> = <<c, st[c] + 1>>
  BY <1>1, <1>2, <1>3, <1>4, <1>5
<1>8. LivesOf(su) = LivesOf(st) \cup {<<c, st[c] + 1>>}
  BY <1>6, <1>7
<1>9. <<c, st[c] + 1>> \notin LivesOf(st)
  BY <1>1, <1>4
<1> QED
  BY <1>8, <1>9, LivesFinite, FS_AddElement DEF su

----------------------------------------------------------------------------
(* A life registers once: what was counted, what is on its way and the     *)
(* clients about to register are no more than the lives.                   *)
Registering == {c \in Clients : At(c, "register")}
CountedSoFar == IF pc[Server] = "register" THEN i - 1 ELSE 0
LivesCover ==
    /\ CountedSoFar + Cardinality(Registrations) + Cardinality(Registering) <= Cardinality(Lives)
    /\ \A n \in Nodes : proc[n] # "up" => inbox[n] = << >>

LEMMA RegisteringFinite ==
    /\ IsFiniteSet(Registering) /\ Cardinality(Registering) \in Nat
    /\ IsFiniteSet(Registering') /\ Cardinality(Registering') \in Nat
<1>1. Registering \in SUBSET Clients /\ Registering' \in SUBSET Clients
  BY DEF Registering
<1> QED
  BY <1>1, ClientsFinite, FS_Subset, FS_CardinalityType

(* What a send does to the count of registrations at node 0.               *)
LEMMA SendCounts ==
    ASSUME Typed, NEW n \in Nodes, NEW t \in Nodes, NEW m \in Message, Send(n, t, m)
    PROVE  /\ Cardinality(Registrations') <=
                 Cardinality(Registrations) + (IF t = Server /\ m.kind = "Register" THEN 1 ELSE 0)
           /\ (\A x \in Nodes : proc[x] # "up" => inbox[x] = << >>)
                 => (\A x \in Nodes : proc'[x] # "up" => inbox'[x] = << >>)
           /\ \A x \in Nodes : proc'[x] = "up" => proc[x] = "up"
<1>0. inbox[Server] \in Seq(Message) /\ Server \in Nodes
  BY NodeTypes DEF Typed, TypeOK
<1>1. Registrations = RegistersIn(inbox[Server]) /\ Registrations' = RegistersIn(inbox'[Server])
  BY DEF Registrations, RegistersIn
<1>2. Cardinality(RegistersIn(inbox[Server])) \in Nat
  BY <1>0, RegistersFinite
<1>3. CASE /\ Reaches(n, t) /\ proc[t] = "up" /\ UNCHANGED proc
           /\ inbox' = [inbox EXCEPT ![t] = Append(inbox[t], m)]
           /\ Append(inbox[t], m) \in Seq(Message)
  <2>1. inbox'[Server] = IF t = Server THEN Append(inbox[Server], m) ELSE inbox[Server]
    BY <1>0, <1>3 DEF Typed, TypeOK
  <2>2. Cardinality(Registrations') <=
            Cardinality(Registrations) + (IF t = Server /\ m.kind = "Register" THEN 1 ELSE 0)
    BY <1>0, <1>1, <1>2, <2>1, RegistersOfAppend
  <2> QED
    BY <1>3, <2>2 DEF Typed, TypeOK
<1>4. CASE /\ ~Reaches(n, t)
           /\ proc' = [proc EXCEPT ![n] = "crashed"]
           /\ inbox' = [inbox EXCEPT ![n] = << >>]
  <2>1. inbox'[Server] = inbox[Server] \/ inbox'[Server] = << >>
    BY <1>0, <1>4 DEF Typed, TypeOK
  <2>2. Cardinality(Registrations') <= Cardinality(Registrations)
    BY <1>1, <1>2, <2>1, RegistersOfNone
  <2>3. Cardinality(Registrations') \in Nat
    <3>1. << >> \in Seq(Message)
      OBVIOUS
    <3>2. inbox'[Server] \in Seq(Message)
      BY <1>0, <2>1, <3>1, Zenon
    <3> QED
      BY <1>1, <3>2, RegistersFinite
  <2>4. Cardinality(Registrations') <=
            Cardinality(Registrations) + (IF t = Server /\ m.kind = "Register" THEN 1 ELSE 0)
    BY <1>1, <1>2, <2>2, <2>3
  <2>5. \A x \in Nodes : proc'[x] = "up" => proc[x] = "up" /\ x # n
    BY <1>4 DEF Typed, TypeOK
  <2>6. \A x \in Nodes : inbox'[x] = IF x = n THEN << >> ELSE inbox[x]
    BY <1>4 DEF Typed, TypeOK
  <2>7. \A x \in Nodes : x # n => proc'[x] = proc[x]
    BY <1>4 DEF Typed, TypeOK
  <2>8. (\A x \in Nodes : proc[x] # "up" => inbox[x] = << >>)
            => (\A x \in Nodes : proc'[x] # "up" => inbox'[x] = << >>)
    BY <2>6, <2>7
  <2> QED
    BY <2>4, <2>5, <2>8, Zenon
<1> QED
  BY <1>3, <1>4, SendCases DEF Typed

LEMMA LivesCoverInit == Init => LivesCover
<1> SUFFICES ASSUME Init PROVE LivesCover
  OBVIOUS
<1>1. Registrations = RegistersIn(<< >>) /\ Registering = {} /\ CountedSoFar = 0
  BY NodeTypes DEF Init, Registrations, RegistersIn, Registering, At, CountedSoFar
<1>2. Cardinality(Lives) \in Nat
  <2>1. starts \in [Nodes -> Nat] /\ Lives = LivesOf(starts)
    BY DEF Init, Lives, LivesOf
  <2> QED
    BY <2>1, LivesFinite
<1> QED
  BY <1>1, <1>2, RegistersOfNone, FS_EmptySet DEF Init, LivesCover

LEMMA OneMoved ==
    ASSUME NEW b \in Nat, NEW r \in Nat, NEW s \in Nat, NEW g \in Nat, NEW l \in Nat,
           b + r + g <= l, s + 1 <= r
    PROVE  (b + 1) + s + g <= l
OBVIOUS

LEMMA LivesCoverNext == Typed /\ Typed' /\ LivesCover /\ [Next]_vars => LivesCover'
<1> SUFFICES ASSUME Typed, Typed', LivesCover, [Next]_vars PROVE LivesCover'
  OBVIOUS
<1> DEFINE R == Cardinality(Registrations)
           G == Cardinality(Registering)
           B == CountedSoFar
           Quiet == \A n \in Nodes : proc[n] # "up" => inbox[n] = << >>
<1>0. /\ Server \in Nodes /\ inbox[Server] \in Seq(Message)
      /\ \A c \in Clients : c \in Nodes /\ c # Server
      /\ i \in Nat /\ i >= 1
  BY NodeTypes DEF Typed, TypeOK
<1>1. Registrations = RegistersIn(inbox[Server]) /\ Registrations' = RegistersIn(inbox'[Server])
  BY DEF Registrations, RegistersIn
<1>2. R \in Nat /\ R' \in Nat
  <2>1. inbox'[Server] \in Seq(Message)
    BY <1>0 DEF Typed, TypeOK
  <2> QED
    BY <1>0, <1>1, <2>1, RegistersFinite
<1>3. G \in Nat /\ G' \in Nat
  BY RegisteringFinite
<1>4. /\ Lives = LivesOf(starts) /\ Lives' = LivesOf(starts')
      /\ Cardinality(Lives) \in Nat /\ Cardinality(Lives') \in Nat
  <2>1. starts \in [Nodes -> Nat] /\ starts' \in [Nodes -> Nat]
    BY DEF Typed, TypeOK
  <2>2. Lives = LivesOf(starts) /\ Lives' = LivesOf(starts')
    BY DEF Lives, LivesOf
  <2> QED
    BY <2>1, <2>2, LivesFinite
<1>5. B \in Nat /\ B + R + G <= Cardinality(Lives) /\ Quiet
  BY <1>0 DEF LivesCover, CountedSoFar
<1>6. ASSUME UNCHANGED starts, Registering' \subseteq Registering, B' <= B, R' <= R, B' \in Nat, Quiet'
      PROVE  LivesCover'
  <2>1. G' <= G
    <3>1. Registering' \in SUBSET Registering
      BY <1>6
    <3> QED
      BY <3>1, RegisteringFinite, FS_Subset
  <2> HIDE DEF R, G, B, Quiet
  <2>2. Cardinality(Lives') = Cardinality(Lives)
    BY <1>4, <1>6
  <2>3. B' + R' + G' <= Cardinality(Lives)
    BY <1>2, <1>3, <1>4, <1>5, <1>6, <2>1
  <2> QED
    BY <1>6, <2>2, <2>3 DEF LivesCover, R, G, B, Quiet
<1>7. ASSUME NEW n \in Nodes, NEW t \in Nodes, NEW m \in Message, Send(n, t, m), m.kind # "Register",
             UNCHANGED <<pc, starts>>, B' <= B, B' \in Nat
      PROVE  LivesCover'
  <2>1. R' <= R /\ Quiet' /\ \A x \in Nodes : proc'[x] = "up" => proc[x] = "up"
    BY <1>2, <1>5, <1>7, SendCounts
  <2>2. Registering' \subseteq Registering
    BY <1>0, <1>7, <2>1 DEF Registering, At
  <2> QED
    BY <1>6, <1>7, <2>1, <2>2
<1>8. R' <= R \/ inbox'[Server] # inbox[Server]
  BY <1>1, <1>2
<1>9. inbox'[Server] = << >> => R' <= R
  BY <1>1, <1>2, RegistersOfNone
<1>10. ASSUME NEW n \in Nodes, Crash(n), UNCHANGED <<pc, starts>>, B' <= B, B' \in Nat
       PROVE  LivesCover'
  <2>1. inbox'[Server] = inbox[Server] \/ inbox'[Server] = << >>
    BY <1>0, <1>10 DEF Crash, Typed, TypeOK
  <2>2. Quiet' /\ \A x \in Nodes : proc'[x] = "up" => proc[x] = "up"
    BY <1>5, <1>10 DEF Crash, Typed, TypeOK
  <2>3. Registering' \subseteq Registering
    BY <1>0, <1>10, <2>2 DEF Registering, At
  <2> QED
    BY <1>6, <1>8, <1>9, <1>10, <2>1, <2>2, <2>3
<1>11. CASE ServerStart
  <2>1. inbox[Server] = << >> /\ UNCHANGED inbox
    BY <1>0, <1>5, <1>11 DEF ServerStart
  <2>2. B' = 0
    BY <1>0, <1>11 DEF ServerStart, Goto, CountedSoFar, Typed, TypeOK
  <2>3. Registering' = Registering /\ Quiet'
    BY <1>0, <1>5, <1>11, <2>1 DEF ServerStart, Goto, Registering, At, Typed, TypeOK
  <2>4. R' <= R
    BY <1>8, <2>1
  <2>5. Cardinality(Lives') = Cardinality(Lives)
    <3>1. \A c \in Clients : starts'[c] = starts[c]
      BY <1>0, <1>11 DEF ServerStart, Typed, TypeOK
    <3> QED
      BY <3>1 DEF Lives
  <2> QED
    BY <1>2, <1>3, <1>4, <1>5, <2>2, <2>3, <2>4, <2>5 DEF LivesCover
<1>12. CASE ServerRegister
  <2>1. CASE Crash(Server) /\ UNCHANGED <<i, addr>>
    <3>1. UNCHANGED <<pc, starts>> /\ B' = B
      BY <1>12, <2>1 DEF ServerRegister, CountedSoFar
    <3> QED
      BY <1>0, <1>5, <1>10, <2>1, <3>1
  <2>2. CASE /\ Head(inbox[Server]).kind = "Register" /\ i' = i + 1
             /\ inbox' = [inbox EXCEPT ![Server] = Tail(@)] /\ UNCHANGED proc
    <3>1. B' = B + 1
      BY <1>0, <1>12, <2>2 DEF ServerRegister, At, CountedSoFar
    <3>2. R' + 1 <= R
      <4>1. inbox[Server] # << >> /\ inbox'[Server] = Tail(inbox[Server])
        BY <1>0, <1>12, <2>2 DEF ServerRegister, Typed, TypeOK
      <4> QED
        BY <1>0, <1>1, <2>2, <4>1, RegistersOfTail
    <3>3. Registering' = Registering /\ Lives' = Lives
      BY <1>12, <2>2 DEF ServerRegister, Registering, At, Lives
    <3>4. Quiet'
      BY <1>0, <1>5, <1>12, <2>2 DEF ServerRegister, At, Typed, TypeOK
    <3>a. Cardinality(Lives) \in Nat
      BY <1>4
    <3>b. B \in Nat /\ B + R + G <= Cardinality(Lives)
      BY <1>5
    <3> HIDE DEF B, R, G
    <3>c. R \in Nat /\ R' \in Nat /\ G \in Nat
      BY <1>2, <1>3
    <3>5. (B + 1) + R' + G <= Cardinality(Lives)
      BY <3>a, <3>b, <3>c, <3>2, OneMoved, Zenon
    <3>6. B' + R' + G <= Cardinality(Lives)
      BY <3>1, <3>5
    <3> QED
      BY <3>3, <3>4, <3>6 DEF LivesCover, B, R, G
  <2> QED
    BY <1>12, <2>1, <2>2 DEF ServerRegister
<1>13. CASE ServerFill
  <2>1. B' = 0 /\ Registering' \subseteq Registering /\ Quiet' /\ UNCHANGED <<starts, inbox>>
    BY <1>0, <1>5, <1>13 DEF ServerFill, Goto, CountedSoFar, Registering, At, Typed, TypeOK
  <2> QED
    BY <1>5, <1>6, <1>8, <2>1
<1>14. CASE ServerDirect
  <2>1. i \in Nodes /\ UNCHANGED <<pc, starts>> /\ B' = 0
    <3>1. i \in 0 .. NumNodes - 1
      BY <1>14, <1>0, NumNodesTyped DEF ServerDirect
    <3>2. pc[Server] = "direct" /\ UNCHANGED <<pc, starts>>
      BY <1>14 DEF ServerDirect, At
    <3> QED
      BY <3>1, <3>2 DEF CountedSoFar, Nodes
  <2>2. [kind |-> "Directory", from |-> Server, addrs |-> dir] \in Message
    BY MessageTypes DEF Typed, TypeOK
  <2>3. Send(Server, i, [kind |-> "Directory", from |-> Server, addrs |-> dir])
    BY <1>14 DEF ServerDirect
  <2>4. B' <= B /\ B' \in Nat
    BY <1>5, <2>1
  <2> HIDE DEF B
  <2> QED
    BY <1>0, <1>7, <2>1, <2>2, <2>3, <2>4
<1>15. CASE ServerReady
  <2>1. B' = 0 /\ Registering' \subseteq Registering /\ Quiet' /\ UNCHANGED <<starts, inbox>>
    BY <1>0, <1>5, <1>15 DEF ServerReady, Goto, CountedSoFar, Registering, At, Typed, TypeOK
  <2> QED
    BY <1>5, <1>6, <1>8, <2>1
<1>16. CASE ServerListen
  <2>1. inbox[Server] # << >> /\ inbox'[Server] = Tail(inbox[Server])
    BY <1>0, <1>16 DEF ServerListen, Typed, TypeOK
  <2>2. R' <= R
    BY <1>0, <1>1, <1>2, <2>1, RegistersOfTail
  <2>3. B' = B /\ Registering' = Registering /\ Quiet' /\ UNCHANGED starts
    BY <1>0, <1>5, <1>16 DEF ServerListen, CountedSoFar, Registering, At, Typed, TypeOK
  <2> QED
    BY <1>5, <1>6, <2>2, <2>3
<1>17. ASSUME NEW c \in Clients, ServerAnswer(c) PROVE LivesCover'
  <2>1. UNCHANGED <<pc, starts>> /\ B' = B
    BY <1>17 DEF ServerAnswer, CountedSoFar
  <2> QED
    BY <1>0, <1>5, <1>7, <1>17, <2>1, MessageTypes DEF ServerAnswer
<1>18. ASSUME NEW c \in Clients, ClientStart(c) PROVE LivesCover'
  <2>1. B' = B /\ R' = R /\ Quiet'
    BY <1>0, <1>1, <1>5, <1>18 DEF ClientStart, Goto, CountedSoFar, Typed, TypeOK
  <2>2. Registering' \subseteq Registering \cup {c}
    BY <1>0, <1>18 DEF ClientStart, Goto, Registering, At, Typed, TypeOK
  <2>3. G' <= G + 1
    <3>1. Registering' \in SUBSET (Registering \cup {c})
      BY <2>2
    <3>2. IsFiniteSet(Registering \cup {c}) /\ Cardinality(Registering \cup {c}) <= G + 1
      <4>1. IsFiniteSet(Registering) /\ G \in Nat
        BY <1>3, RegisteringFinite
      <4>2. /\ IsFiniteSet(Registering \cup {c})
            /\ Cardinality(Registering \cup {c}) = IF c \in Registering THEN G ELSE G + 1
        BY <4>1, FS_AddElement
      <4> HIDE DEF G
      <4> QED
        BY <4>1, <4>2
    <3>3. Cardinality(Registering \cup {c}) \in Nat
      BY <3>2, FS_CardinalityType
    <3>4. Cardinality(Registering') <= Cardinality(Registering \cup {c})
      BY <3>1, <3>2, FS_Subset
    <3> QED
      BY <1>3, <3>2, <3>3, <3>4
  <2>4. Cardinality(Lives') = Cardinality(Lives) + 1
    BY <1>4, <1>18, LivesGrow DEF ClientStart, Typed, TypeOK
  <2> HIDE DEF B, R, G
  <2>5. B' + R' + G' <= Cardinality(Lives')
    BY <1>2, <1>3, <1>4, <1>5, <2>1, <2>3, <2>4
  <2> QED
    BY <2>1, <2>5 DEF LivesCover, B, R, G
<1>19. ASSUME NEW c \in Clients, ClientRegister(c) PROVE LivesCover'
  <2>1. /\ Cardinality(Registrations') <= R + 1 /\ Quiet'
        /\ \A x \in Nodes : proc'[x] = "up" => proc[x] = "up"
    <3>1. Msg("Register", c) \in Message /\ Msg("Register", c).kind = "Register"
      BY <1>0, MessageTypes
    <3> QED
      BY <1>0, <1>5, <1>19, <3>1, SendCounts DEF ClientRegister
  <2>2. c \in Registering /\ Registering' \in SUBSET (Registering \ {c})
    BY <1>0, <1>19, <2>1 DEF ClientRegister, Goto, Registering, At, Typed, TypeOK
  <2>3. G' <= G - 1
    <3>1. IsFiniteSet(Registering \ {c}) /\ Cardinality(Registering \ {c}) = G - 1
      BY <1>3, <2>2, RegisteringFinite, FS_RemoveElement
    <3> QED
      BY <2>2, <3>1, FS_Subset
  <2>4. B' = B /\ Lives' = Lives
    BY <1>0, <1>19 DEF ClientRegister, Goto, CountedSoFar, Lives, Typed, TypeOK
  <2> HIDE DEF B, G
  <2>5. B' + R' + G' <= Cardinality(Lives')
    BY <1>2, <1>3, <1>4, <1>5, <2>1, <2>3, <2>4
  <2> QED
    BY <2>1, <2>5 DEF LivesCover, B, G
<1>20. ASSUME NEW c \in Clients, ClientDirectory(c) PROVE LivesCover'
  <2>1. CASE Crash(c) /\ UNCHANGED <<pc, addr>>
    <3>1. UNCHANGED <<pc, starts>> /\ B' = B
      BY <1>20, <2>1 DEF ClientDirectory, CountedSoFar
    <3> QED
      BY <1>0, <1>5, <1>10, <2>1, <3>1
  <2>2. CASE inbox' = [inbox EXCEPT ![c] = Tail(@)] /\ Goto(c, "ready") /\ UNCHANGED proc
    <3>1. inbox'[Server] = inbox[Server] /\ Quiet' /\ UNCHANGED starts
      BY <1>0, <1>5, <1>20, <2>2 DEF ClientDirectory, At, Typed, TypeOK
    <3>2. B' = B /\ Registering' \subseteq Registering
      BY <1>0, <1>20, <2>2 DEF ClientDirectory, Goto, CountedSoFar, Registering, At, Typed, TypeOK
    <3> QED
      BY <1>5, <1>6, <1>8, <3>1, <3>2
  <2> QED
    BY <1>20, <2>1, <2>2 DEF ClientDirectory
<1>21. ASSUME NEW c \in Clients, ClientAsk(c) PROVE LivesCover'
  <2>1. UNCHANGED <<pc, starts>> /\ B' = B
    BY <1>21 DEF ClientAsk, CountedSoFar
  <2> QED
    BY <1>0, <1>5, <1>7, <1>21, <2>1, MessageTypes DEF ClientAsk
<1>22. ASSUME NEW n \in Nodes, Kill(n) PROVE LivesCover'
  <2>1. UNCHANGED <<pc, starts>> /\ B' = B
    BY <1>22 DEF Kill, CountedSoFar
  <2> QED
    BY <1>5, <1>10, <1>22, <2>1 DEF Kill
<1>23. CASE UNCHANGED vars
  <2>1. B' = B /\ Registering' = Registering /\ Quiet' /\ UNCHANGED <<starts, inbox>>
    BY <1>5, <1>23 DEF vars, CountedSoFar, Registering, At
  <2> QED
    BY <1>5, <1>6, <1>8, <2>1
<1> QED
  BY <1>11, <1>12, <1>13, <1>14, <1>15, <1>16, <1>17, <1>18, <1>19, <1>20, <1>21, <1>22, <1>23
  DEF Next, ServerInit

(* However nodes are killed and started, node 0 never counts one life of a *)
(* client twice.                                                           *)
THEOREM LivesCounted == Spec => []RegistrationsAreLives
<1>1. Typed /\ LivesCover => RegistrationsAreLives
  <2> SUFFICES ASSUME Typed, LivesCover, pc[Server] = "register"
               PROVE  i - 1 + Cardinality(Registrations) <= Cardinality(Lives)
    BY DEF RegistrationsAreLives
  <2>1. Registrations = RegistersIn(inbox[Server]) /\ inbox[Server] \in Seq(Message) /\ i \in Nat
    BY NodeTypes DEF Registrations, RegistersIn, Typed, TypeOK
  <2>2. Lives = LivesOf(starts) /\ starts \in [Nodes -> Nat]
    BY DEF Lives, LivesOf, Typed, TypeOK
  <2>3. /\ Cardinality(Registrations) \in Nat /\ Cardinality(Registering) \in Nat
        /\ Cardinality(Lives) \in Nat
    BY <2>1, <2>2, RegistersFinite, RegisteringFinite, LivesFinite
  <2> QED
    BY <2>1, <2>3 DEF LivesCover, CountedSoFar
<1>2. Typed /\ LivesCover /\ [Next]_vars => (Typed /\ LivesCover)'
  BY TypedNext, LivesCoverNext
<1> QED
  BY <1>1, <1>2, TypedInit, LivesCoverInit, PTL DEF Spec

----------------------------------------------------------------------------
(* Registration without failures: nobody is killed, and every client is on *)
(* the machine of node 0, where the address it takes from accept leads.    *)
Peaceful == Killable = {} /\ Local = Clients

(* node 0 goes through its phases once and never dies.  Nothing reaches a  *)
(* client before the Directory, so none gets past its wait.                *)
Phases ==
    /\ proc[Server] \in {"off", "up"} /\ pc[Server] \in {"init", "register", "direct", "ready"}
    /\ proc[Server] = "off" <=> pc[Server] = "init"
    /\ pc[Server] \in {"init", "register"} =>
          dir = << >> /\ \A c \in Clients : ~At(c, "ready") /\ inbox[c] = << >>
    /\ pc[Server] # "ready" => pending = {}

(* A client that runs knows node 0, and one that does not has no messages. *)
ClientsOrDead ==
    /\ \A c \in Clients : proc[c] = "up" =>
          addr[c][Server] = "given" /\ pc[c] \in {"register", "await", "ready"}
    /\ \A n \in Nodes : proc[n] # "up" => inbox[n] = << >>

(* Requests come from clients that are through with client_init, and they  *)
(* alone are answered.                                                     *)
Requesters ==
    /\ \A e \in DOMAIN inbox[Server] :
          \/ inbox[Server][e].kind = "Register"
          \/ inbox[Server][e].kind = "KeyMessage" /\ At(inbox[Server][e].from, "ready")
    /\ \A c \in pending : At(c, "ready")

(* The Directory is all that reaches a client that is not through.         *)
DirectoryOnly ==
    \A c \in Clients :
        \/ At(c, "ready")
        \/ inbox[c] = << >>
        \/ At(c, "await") /\ \A e \in DOMAIN inbox[c] : inbox[c][e].kind = "Directory"

(* In the registration loop, the clients that were counted and those whose *)
(* Register is on its way wait, each of them once.                         *)
Counted == {c \in Clients : addr[Server][c] = "any"}
CountedOnce ==
    pc[Server] = "register" =>
        /\ Cardinality(Counted) = i - 1
        /\ \A c \in Counted : At(c, "await")
        /\ \A e \in DOMAIN inbox[Server] :
              /\ At(inbox[Server][e].from, "await")
              /\ inbox[Server][e].from \notin Counted
              /\ \A f \in DOMAIN inbox[Server] :
                    inbox[Server][f].from = inbox[Server][e].from => f = e

(* After it every client is known, and those still to be sent their        *)
(* Directory wait for it.                                                  *)
AllKnown ==
    /\ pc[Server] \in {"direct", "ready"} => Counted = Clients
    /\ pc[Server] = "direct" => \A c \in Clients : c >= i => At(c, "await") /\ inbox[c] = << >>
    /\ dir # << >> => \A c \in Clients : dir[c] = "any"

Orderly ==
    /\ Phases /\ ClientsOrDead /\ Requesters /\ DirectoryOnly /\ CountedOnce /\ AllKnown

LEMMA OrderlyInit == Init => Orderly
<1> SUFFICES ASSUME Init PROVE Orderly
  OBVIOUS
<1>1. Server \in Nodes /\ \A c \in Clients : c \in Nodes
  BY NodeTypes
<1>2. /\ \A n \in Nodes : proc[n] = "off" /\ pc[n] = "init" /\ inbox[n] = << >>
      /\ dir = << >> /\ pending = {}
  BY DEF Init
<1> QED
  BY <1>1, <1>2
  DEF Orderly, Phases, ClientsOrDead, Requesters, DirectoryOnly, CountedOnce, AllKnown, At

(* Without failures, node 0 is reached by every client that runs while it  *)
(* runs, and it reaches every client it knows.                             *)
LEMMA PeacefulReach ==
    ASSUME Peaceful, Typed, Orderly, NEW c \in Clients, proc[c] = "up"
    PROVE  /\ proc[Server] = "up" => Reaches(c, Server)
           /\ c \in Counted => Reaches(Server, c)
<1>1. addr[c][Server] = "given"
  BY DEF Orderly, ClientsOrDead
<1>2. c \in Counted => addr[Server][c] = "any" /\ c \in Local
  BY DEF Counted, Peaceful
<1> QED
  BY <1>1, <1>2 DEF Reaches

LEMMA AppendEntries ==
    ASSUME NEW q \in Seq(Message), NEW m \in Message
    PROVE  /\ Append(q, m) \in Seq(Message) /\ Append(q, m) # << >>
           /\ Len(q) + 1 \in DOMAIN Append(q, m) /\ Append(q, m)[Len(q) + 1] = m
           /\ \A e \in DOMAIN q : e \in DOMAIN Append(q, m) /\ Append(q, m)[e] = q[e]
           /\ \A e \in DOMAIN Append(q, m) : e = Len(q) + 1 \/ e \in DOMAIN q
OBVIOUS

(* At(n, label) after the step, for an n that the step may change.         *)
AtNext(n, label) == proc'[n] = "up" /\ pc'[n] = label

LEMMA OrderlyNext == Peaceful /\ Typed /\ Typed' /\ Orderly /\ [Next]_vars => Orderly'
<1> SUFFICES ASSUME Peaceful, Typed, Typed', Orderly, [Next]_vars PROVE Orderly'
  OBVIOUS
<1>a. Phases /\ ClientsOrDead /\ Requesters /\ DirectoryOnly /\ CountedOnce /\ AllKnown
  BY DEF Orderly
<1>b. /\ Server \in Nodes /\ inbox[Server] \in Seq(Message) /\ inbox'[Server] \in Seq(Message)
      /\ \A c \in Clients : c \in Nodes /\ c # Server /\ inbox[c] \in Seq(Message)
      /\ i \in Nat /\ i >= 1 /\ i <= NumNodes /\ NumNodes \in Nat
  BY NodeTypes, NumNodesTyped DEF Typed, TypeOK
<1>c. \A e \in DOMAIN inbox[Server] : inbox[Server][e].from \in Clients
  BY DEF Typed, FromClients
<1>d. /\ \A n \in Nodes : proc[n] = "up" <=> ~(proc[n] # "up")
      /\ \A c \in Clients : At(c, "ready") \/ At(c, "await") => proc[c] = "up"
  BY DEF At
<1>1. CASE ServerStart
  <2>1. proc[Server] = "off" /\ pc[Server] = "init" /\ inbox[Server] = << >>
    BY <1>1, <1>a, <1>b DEF ServerStart, Phases, ClientsOrDead
  <2>2. /\ proc'[Server] = "up" /\ pc'[Server] = "register"
        /\ \A c \in Clients : proc'[c] = proc[c] /\ pc'[c] = pc[c] /\ addr'[c] = addr[c]
        /\ \A c \in Clients : addr'[Server][c] = "garbage"
        /\ inbox' = inbox /\ i' = 1 /\ dir' = << >> /\ pending' = {}
    BY <1>1, <1>b DEF ServerStart, Goto, Typed, TypeOK
  <2>3. \A c \in Clients : ~At(c, "ready") /\ inbox[c] = << >>
    BY <1>a, <2>1 DEF Phases
  <2>4. \A c \in Clients : ~At(c, "ready")'
    BY <2>2, <2>3 DEF At
  <2>5. Phases'
    BY <2>2, <2>3, <2>4 DEF Phases
  <2>6. ClientsOrDead'
    <3>1. \A n \in Nodes : proc'[n] # "up" => inbox'[n] = << >>
      BY <1>a, <2>1, <2>2, NodeTypes DEF ClientsOrDead
    <3> QED
      BY <1>a, <2>2, <3>1 DEF ClientsOrDead
  <2>7. Requesters' /\ DirectoryOnly' /\ AllKnown'
    BY <2>1, <2>2, <2>3 DEF Requesters, DirectoryOnly, AllKnown
  <2>8. CountedOnce'
    <3>1. Counted' = {}
      BY <2>2 DEF Counted
    <3> QED
      BY <2>1, <2>2, <3>1, FS_EmptySet DEF CountedOnce
  <2> QED
    BY <2>5, <2>6, <2>7, <2>8 DEF Orderly
<1>2. CASE ServerRegister
  <2> DEFINE m == Head(inbox[Server])
             c == m.from
  <2>1. /\ pc[Server] = "register" /\ proc[Server] = "up" /\ inbox[Server] # << >> /\ i < NumNodes
        /\ UNCHANGED <<pc, starts, dir, pending, asked>>
    BY <1>2 DEF ServerRegister, At
  <2>2. /\ m = inbox[Server][1] /\ 1 \in DOMAIN inbox[Server]
        /\ \A e \in DOMAIN Tail(inbox[Server]) :
              e + 1 \in DOMAIN inbox[Server] /\ e \in Nat /\ e >= 1
              /\ Tail(inbox[Server])[e] = inbox[Server][e + 1]
    BY <1>b, <2>1, TailEntries
  <2>3. c \in Clients /\ At(c, "await") /\ c \notin Counted
    BY <1>a, <1>c, <2>1, <2>2 DEF CountedOnce
  <2>4. m.kind = "Register"
    BY <1>a, <2>1, <2>2, <2>3 DEF Requesters, At
  <2>5. /\ addr' = [addr EXCEPT ![Server][c] = "any"] /\ i' = i + 1
        /\ inbox' = [inbox EXCEPT ![Server] = Tail(@)] /\ UNCHANGED proc
    BY <1>2, <2>4 DEF ServerRegister
  <2> HIDE DEF c, m
  <2>6. /\ inbox'[Server] = Tail(inbox[Server]) /\ \A x \in Nodes : x # Server => inbox'[x] = inbox[x]
        /\ \A x \in Clients : addr'[x] = addr[x]
        /\ \A x \in Clients : addr'[Server][x] = IF x = c THEN "any" ELSE addr[Server][x]
    BY <1>b, <2>3, <2>5 DEF Typed, TypeOK
  <2>7. \A n \in Nodes : \A label : /\ At(n, label)' <=> At(n, label)
                                    /\ AtNext(n, label) <=> At(n, label)
    BY <2>1, <2>5 DEF At, AtNext
  <2>8. Phases'
    BY <1>a, <1>b, <2>1, <2>5, <2>6, <2>7 DEF Phases
  <2>9. ClientsOrDead'
    BY <1>a, <1>b, <2>1, <2>5, <2>6 DEF ClientsOrDead
  <2>10. Counted' = Counted \cup {c}
    BY <2>3, <2>6 DEF Counted
  <2>11. Requesters'
    BY <1>a, <1>b, <1>c, <2>1, <2>2, <2>6, <2>7 DEF Requesters, Phases
  <2>12. DirectoryOnly'
    BY <1>a, <1>b, <2>6, <2>7 DEF DirectoryOnly
  <2>13. CountedOnce'
    <3>1. IsFiniteSet(Counted)
      <4>1. Counted \in SUBSET Clients
        BY DEF Counted
      <4> QED
        BY <4>1, ClientsFinite, FS_Subset
    <3>2. Cardinality(Counted') = Cardinality(Counted) + 1
      BY <2>3, <2>10, <3>1, FS_AddElement
    <3>3. Cardinality(Counted) = i - 1
      BY <1>a, <2>1 DEF CountedOnce
    <3>4. Cardinality(Counted') = i' - 1
      BY <1>b, <2>5, <3>2, <3>3
    <3>5. \A x \in Counted' : At(x, "await")'
      <4>1. \A x \in Counted' : x \in Nodes /\ At(x, "await")
        BY <1>a, <1>b, <2>1, <2>3, <2>10 DEF CountedOnce, Counted
      <4> QED
        BY <2>7, <4>1
    <3>6. ASSUME NEW e \in DOMAIN inbox'[Server]
          PROVE  /\ AtNext(inbox'[Server][e].from, "await") /\ inbox'[Server][e].from \notin Counted'
                 /\ \A f \in DOMAIN inbox'[Server] :
                        inbox'[Server][f].from = inbox'[Server][e].from => f = e
      <4>1. /\ e + 1 \in DOMAIN inbox[Server] /\ inbox'[Server][e] = inbox[Server][e + 1]
            /\ e + 1 # 1
        BY <2>2, <2>6, <3>6
      <4>2. inbox[Server][e + 1].from # c
        BY <1>a, <2>1, <2>2, <4>1 DEF CountedOnce, c
      <4>3. /\ inbox[Server][e + 1].from \in Clients /\ At(inbox[Server][e + 1].from, "await")
            /\ inbox[Server][e + 1].from \notin Counted
        BY <1>a, <1>c, <2>1, <4>1 DEF CountedOnce
      <4>4. ASSUME NEW f \in DOMAIN inbox'[Server], inbox'[Server][f].from = inbox'[Server][e].from
            PROVE  f = e
        <5>1. f + 1 \in DOMAIN inbox[Server] /\ inbox'[Server][f] = inbox[Server][f + 1]
          BY <2>2, <2>6, <4>4
        <5>2. f + 1 = e + 1
          BY <1>a, <2>1, <4>1, <4>4, <5>1 DEF CountedOnce
        <5>3. e \in Nat /\ f \in Nat
          BY <2>2, <2>6, <3>6, <4>4
        <5> QED
          BY <5>2, <5>3
      <4> QED
        BY <1>b, <2>7, <2>10, <4>1, <4>2, <4>3, <4>4
    <3> QED
      BY <3>4, <3>5, <3>6 DEF CountedOnce, At, AtNext
  <2>14. AllKnown'
    BY <1>a, <2>1 DEF AllKnown, Phases
  <2> QED
    BY <2>8, <2>9, <2>11, <2>12, <2>13, <2>14 DEF Orderly
<1>3. CASE ServerFill
  <2>1. /\ pc[Server] = "register" /\ proc[Server] = "up" /\ i = NumNodes
        /\ UNCHANGED <<proc, starts, inbox, addr, pending, asked>>
        /\ dir' = [x \in 1 .. NumNodes |-> IF x \in Clients THEN addr[Server][x] ELSE "garbage"]
        /\ i' = 1
    BY <1>3, <1>b DEF ServerFill, At
  <2>2. pc'[Server] = "direct" /\ \A c \in Clients : pc'[c] = pc[c]
    BY <1>3, <1>b DEF ServerFill, Goto, Typed, TypeOK
  <2>3. Counted = Clients
    <3>1. Counted \in SUBSET Clients
      BY DEF Counted
    <3>2. Cardinality(Counted) = Cardinality(Clients)
      BY <1>a, <2>1, ClientsFinite DEF CountedOnce
    <3> QED
      BY <3>1, <3>2, ClientsFinite, FS_Subset
  <2>4. Counted' = Clients
    BY <2>1, <2>3 DEF Counted
  <2>5. \A c \in Clients : inbox[c] = << >> /\ At(c, "await")'
    <3>1. \A c \in Clients : inbox[c] = << >> /\ At(c, "await")
      BY <1>a, <2>1, <2>3 DEF CountedOnce, Phases
    <3> QED
      BY <2>1, <2>2, <3>1 DEF At
  <2>6. Phases'
    BY <1>a, <2>1, <2>2 DEF Phases
  <2>7. ClientsOrDead'
    BY <1>a, <1>b, <2>1, <2>2 DEF ClientsOrDead
  <2>8. Requesters'
    <3>1. \A e \in DOMAIN inbox[Server] : inbox[Server][e].kind = "Register"
      BY <1>a, <1>c, <2>1, <1>b DEF Requesters, CountedOnce, At
    <3>2. pending = {}
      BY <1>a, <2>1 DEF Phases
    <3> QED
      BY <2>1, <3>1, <3>2 DEF Requesters
  <2>9. DirectoryOnly' /\ CountedOnce'
    BY <2>1, <2>2, <2>5 DEF DirectoryOnly, CountedOnce
  <2>10. AllKnown'
    <3>1. \A c \in Clients : c \in 1 .. NumNodes /\ addr[Server][c] = "any"
      BY <1>b, <2>3 DEF Counted, Clients
    <3>2. \A c \in Clients : dir'[c] = "any"
      BY <2>1, <3>1
    <3> QED
      BY <2>1, <2>2, <2>4, <2>5, <3>2 DEF AllKnown
  <2> QED
    BY <2>6, <2>7, <2>8, <2>9, <2>10 DEF Orderly
<1>4. CASE ServerDirect
  <2> DEFINE m == [kind |-> "Directory", from |-> Server, addrs |-> dir]
  <2>1. /\ pc[Server] = "direct" /\ proc[Server] = "up" /\ i < NumNodes /\ i' = i + 1
        /\ UNCHANGED <<pc, starts, addr, dir, pending, asked>> /\ Send(Server, i, m)
    BY <1>4 DEF ServerDirect, At
  <2>2. i \in Clients
    BY <1>b, <2>1 DEF Clients
  <2>3. At(i, "await") /\ inbox[i] = << >> /\ Counted = Clients /\ m \in Message /\ m.kind = "Directory"
    BY <1>a, <1>b, <2>1, <2>2, MessageTypes DEF AllKnown, Typed, TypeOK
  <2>4. Reaches(Server, i)
    BY <2>2, <2>3, PeacefulReach DEF At
  <2>5. inbox' = [inbox EXCEPT ![i] = Append(inbox[i], m)] /\ UNCHANGED proc
    BY <2>1, <2>4 DEF Send
  <2> HIDE DEF m
  <2>6. inbox'[i] = Append(inbox[i], m) /\ \A n \in Nodes : n # i => inbox'[n] = inbox[n]
    BY <1>b, <2>2, <2>5 DEF Typed, TypeOK
  <2>7. \A n \in Nodes : \A label : /\ At(n, label)' <=> At(n, label)
                                    /\ AtNext(n, label) <=> At(n, label)
    BY <2>1, <2>5 DEF At, AtNext
  <2>8. Phases'
    BY <1>a, <2>1, <2>5 DEF Phases
  <2>9. ClientsOrDead'
    BY <1>a, <1>b, <2>1, <2>2, <2>3, <2>5, <2>6 DEF ClientsOrDead, At
  <2>10. Requesters'
    BY <1>a, <1>b, <1>c, <2>1, <2>2, <2>6, <2>7 DEF Requesters, Phases
  <2>11. DirectoryOnly'
    <3>1. \A e \in DOMAIN inbox'[i] : inbox'[i][e].kind = "Directory"
      BY <1>b, <2>2, <2>3, <2>6, AppendEntries
    <3>2. AtNext(i, "await")
      BY <1>b, <2>2, <2>3, <2>7
    <3>3. ASSUME NEW c \in Clients, c # i
          PROVE  \/ At(c, "ready")' \/ inbox'[c] = << >>
                 \/ At(c, "await")' /\ \A e \in DOMAIN inbox'[c] : inbox'[c][e].kind = "Directory"
      BY <1>a, <1>b, <2>6, <2>7, <3>3 DEF DirectoryOnly
    <3> QED
      BY <3>1, <3>2, <3>3 DEF DirectoryOnly, At, AtNext
  <2>12. CountedOnce'
    BY <2>1 DEF CountedOnce
  <2>13. AllKnown'
    <3>1. Counted' = Clients
      BY <2>1, <2>3 DEF Counted
    <3>2. ASSUME NEW c \in Clients, c >= i' PROVE At(c, "await")' /\ inbox'[c] = << >>
      <4>1. c \in Nat /\ c >= i /\ c # i
        BY <1>b, <2>1, <3>2 DEF Clients
      <4>2. At(c, "await") /\ inbox[c] = << >>
        BY <1>a, <2>1, <4>1 DEF AllKnown
      <4> QED
        BY <1>b, <2>6, <2>7, <4>1, <4>2
    <3> QED
      BY <1>a, <2>1, <3>1, <3>2 DEF AllKnown
  <2> QED
    BY <2>8, <2>9, <2>10, <2>11, <2>12, <2>13 DEF Orderly
<1>5. CASE ServerReady
  <2>1. /\ pc[Server] = "direct" /\ proc[Server] = "up"
        /\ UNCHANGED <<proc, starts, inbox, i, addr, dir, pending, asked>>
    BY <1>5 DEF ServerReady, At
  <2>2. pc'[Server] = "ready" /\ \A c \in Clients : pc'[c] = pc[c]
    BY <1>5, <1>b DEF ServerReady, Goto, Typed, TypeOK
  <2>3. \A c \in Clients : \A label : At(c, label)' <=> At(c, label)
    BY <2>1, <2>2 DEF At
  <2>4. Phases' /\ CountedOnce'
    BY <1>a, <2>1, <2>2 DEF Phases, CountedOnce
  <2>5. ClientsOrDead'
    BY <1>a, <1>b, <2>1, <2>2 DEF ClientsOrDead
  <2>6. Requesters'
    <3>1. pending \subseteq Clients
      BY DEF Typed, TypeOK
    <3> QED
      BY <1>a, <1>c, <2>1, <2>3, <3>1 DEF Requesters
  <2>7. DirectoryOnly'
    BY <1>a, <2>1, <2>3 DEF DirectoryOnly
  <2>8. AllKnown'
    BY <1>a, <2>1, <2>2 DEF AllKnown, Counted
  <2> QED
    BY <2>4, <2>5, <2>6, <2>7, <2>8 DEF Orderly
<1>6. CASE ServerListen
  <2>1. /\ pc[Server] = "ready" /\ proc[Server] = "up" /\ inbox[Server] # << >>
        /\ UNCHANGED <<proc, pc, starts, i, addr, dir, asked>>
        /\ pending' = IF Head(inbox[Server]).kind = "KeyMessage"
                      THEN pending \cup {Head(inbox[Server]).from} ELSE pending
    BY <1>6 DEF ServerListen, At
  <2>2. inbox'[Server] = Tail(inbox[Server]) /\ \A n \in Nodes : n # Server => inbox'[n] = inbox[n]
    BY <1>6, <1>b DEF ServerListen, Typed, TypeOK
  <2>3. \A n, label : At(n, label)' <=> At(n, label)
    BY <2>1 DEF At
  <2>4. Phases' /\ CountedOnce' /\ AllKnown'
    BY <1>a, <2>1 DEF Phases, CountedOnce, AllKnown, Counted
  <2>5. ClientsOrDead'
    BY <1>a, <1>b, <2>1, <2>2 DEF ClientsOrDead
  <2>6. Requesters'
    <3>1. \A c \in pending' : At(c, "ready")
      <4>1. Head(inbox[Server]) = inbox[Server][1] /\ 1 \in DOMAIN inbox[Server]
        BY <1>b, <2>1, TailEntries
      <4> QED
        BY <1>a, <2>1, <4>1 DEF Requesters
    <3>2. \A e \in DOMAIN inbox'[Server] :
              e + 1 \in DOMAIN inbox[Server] /\ inbox'[Server][e] = inbox[Server][e + 1]
      BY <1>b, <2>1, <2>2, TailEntries
    <3> QED
      BY <1>a, <2>3, <3>1, <3>2 DEF Requesters
  <2>7. DirectoryOnly'
    BY <1>a, <1>b, <2>2, <2>3 DEF DirectoryOnly
  <2> QED
    BY <2>4, <2>5, <2>6, <2>7 DEF Orderly
<1>7. ASSUME NEW c \in Clients, ServerAnswer(c) PROVE Orderly'
  <2> DEFINE m == Msg("Data", Server)
  <2>1. /\ pc[Server] = "ready" /\ proc[Server] = "up" /\ c \in pending /\ pending' = pending \ {c}
        /\ UNCHANGED <<pc, starts, i, addr, dir, asked>> /\ Send(Server, c, m)
    BY <1>7 DEF ServerAnswer, At
  <2>2. At(c, "ready") /\ Counted = Clients /\ m \in Message
    BY <1>a, <1>b, <2>1, MessageTypes DEF AllKnown, Requesters
  <2>3. Reaches(Server, c)
    BY <2>2, PeacefulReach DEF At
  <2>4. inbox' = [inbox EXCEPT ![c] = Append(inbox[c], m)] /\ UNCHANGED proc
    BY <2>1, <2>3 DEF Send
  <2> HIDE DEF m
  <2>5. \A n \in Nodes : n # c => inbox'[n] = inbox[n]
    BY <1>b, <2>4 DEF Typed, TypeOK
  <2>6. \A n, label : At(n, label)' <=> At(n, label)
    BY <2>1, <2>4 DEF At
  <2>7. Phases' /\ CountedOnce' /\ AllKnown'
    BY <1>a, <2>1, <2>4 DEF Phases, CountedOnce, AllKnown, Counted
  <2>8. ClientsOrDead'
    BY <1>a, <1>b, <2>1, <2>2, <2>4, <2>5 DEF ClientsOrDead, At
  <2>9. Requesters'
    BY <1>a, <1>b, <2>1, <2>5, <2>6 DEF Requesters
  <2>10. DirectoryOnly'
    BY <1>a, <1>b, <2>2, <2>5, <2>6 DEF DirectoryOnly
  <2> QED
    BY <2>7, <2>8, <2>9, <2>10 DEF Orderly
<1>8. ASSUME NEW c \in Clients, ClientStart(c) PROVE Orderly'
  <2>1. proc[c] # "up" /\ UNCHANGED <<inbox, i, dir, pending>>
    BY <1>8 DEF ClientStart
  <2>2. /\ proc'[c] = "up" /\ pc'[c] = "register" /\ addr'[c][Server] = "given"
        /\ \A n \in Nodes : n # c => proc'[n] = proc[n] /\ pc'[n] = pc[n] /\ addr'[n] = addr[n]
    BY <1>8, <1>b DEF ClientStart, Goto, Typed, TypeOK
  <2>3. inbox[c] = << >>
    BY <1>a, <1>b, <2>1 DEF ClientsOrDead
  <2>4. /\ \A n \in Nodes : \A label : n # c => (At(n, label)' <=> At(n, label))
        /\ \A label : ~At(c, label) /\ (At(c, label)' <=> label = "register")
    BY <2>1, <2>2 DEF At
  <2>5. Counted' = Counted
    BY <1>b, <2>2 DEF Counted
  <2>6. Phases'
    BY <1>a, <1>b, <2>1, <2>2, <2>4 DEF Phases
  <2>7. ClientsOrDead'
    <3>1. \A n \in Nodes : proc'[n] # "up" => inbox'[n] = << >>
      BY <1>a, <2>1, <2>2 DEF ClientsOrDead
    <3> QED
      BY <1>a, <1>b, <2>1, <2>2, <3>1 DEF ClientsOrDead
  <2>8. Requesters'
    <3>1. pending \subseteq Clients
      BY DEF Typed, TypeOK
    <3> QED
      BY <1>a, <1>b, <1>c, <2>1, <2>4, <3>1 DEF Requesters
  <2>9. DirectoryOnly'
    BY <1>a, <1>b, <2>1, <2>3, <2>4 DEF DirectoryOnly
  <2>10. CountedOnce'
    <3>1. \A x \in Counted : x \in Nodes
      BY <1>b DEF Counted
    <3> QED
      BY <1>a, <1>b, <1>c, <2>1, <2>2, <2>4, <2>5, <3>1 DEF CountedOnce
  <2>11. AllKnown'
    BY <1>a, <1>b, <2>1, <2>2, <2>4, <2>5 DEF AllKnown
  <2> QED
    BY <2>6, <2>7, <2>8, <2>9, <2>10, <2>11 DEF Orderly
<1>9. ASSUME NEW c \in Clients, ClientRegister(c) PROVE Orderly'
  <2> DEFINE m == Msg("Register", c)
  <2>1. /\ At(c, "register") /\ UNCHANGED <<starts, i, addr, dir, pending, asked>>
        /\ Send(c, Server, m) /\ m \in Message /\ m.kind = "Register" /\ m.from = c
    BY <1>9, <1>b, MessageTypes DEF ClientRegister
  <2>2. pc'[c] = "await" /\ \A n \in Nodes : n # c => pc'[n] = pc[n]
    BY <1>9, <1>b DEF ClientRegister, Goto, Typed, TypeOK
  <2>3. inbox[c] = << >> /\ c \notin pending /\ proc[c] = "up" /\ pc[c] = "register"
        /\ (pc[Server] = "direct" => c < i) /\ (pc[Server] = "register" => c \notin Counted)
        /\ (pc[Server] = "register" => \A e \in DOMAIN inbox[Server] : inbox[Server][e].from # c)
    <3>1. c \in Int /\ i \in Int
      BY <1>b DEF Clients
    <3> QED
      BY <1>a, <2>1, <3>1 DEF At, DirectoryOnly, Requesters, AllKnown, CountedOnce
  <2> HIDE DEF m
  <2>4. Counted' = Counted
    BY <2>1 DEF Counted
  <2>5. CASE proc[Server] = "up"
    <3>1. inbox' = [inbox EXCEPT ![Server] = Append(inbox[Server], m)] /\ UNCHANGED proc
      BY <2>1, <2>3, <2>5, PeacefulReach DEF Send
    <3>2. inbox'[Server] = Append(inbox[Server], m) /\ \A n \in Nodes : n # Server => inbox'[n] = inbox[n]
      BY <1>b, <3>1 DEF Typed, TypeOK
    <3>3. /\ \A n \in Nodes : \A label : n # c => (At(n, label)' <=> At(n, label))
          /\ \A n \in Nodes : \A label : AtNext(n, label) <=> At(n, label)'
          /\ \A label : At(c, label)' <=> label = "await"
          /\ \A label : At(c, label) <=> label = "register"
      BY <2>2, <2>3, <3>1 DEF At, AtNext
    <3>4. Phases'
      BY <1>a, <1>b, <2>1, <2>2, <2>5, <3>1, <3>2, <3>3 DEF Phases
    <3>5. ClientsOrDead'
      <4>1. \A n \in Nodes : proc'[n] # "up" => inbox'[n] = << >>
        BY <1>a, <2>5, <3>1, <3>2 DEF ClientsOrDead
      <4> QED
        BY <1>a, <1>b, <2>1, <2>2, <3>1, <4>1 DEF ClientsOrDead
    <3>6. Requesters'
      <4>1. \A x \in pending : At(x, "ready")'
        <5>1. pending \subseteq Clients
          BY DEF Typed, TypeOK
        <5> QED
          BY <1>a, <1>b, <2>3, <3>3, <5>1 DEF Requesters
      <4>2. \A e \in DOMAIN inbox[Server] :
                inbox[Server][e].kind = "KeyMessage" /\ At(inbox[Server][e].from, "ready")
                    => AtNext(inbox[Server][e].from, "ready")
        BY <1>b, <1>c, <3>3
      <4>3. ASSUME NEW e \in DOMAIN inbox'[Server]
            PROVE  \/ inbox'[Server][e].kind = "Register"
                   \/ /\ inbox'[Server][e].kind = "KeyMessage"
                      /\ AtNext(inbox'[Server][e].from, "ready")
        <5>1. \/ inbox'[Server][e] = m
              \/ e \in DOMAIN inbox[Server] /\ inbox'[Server][e] = inbox[Server][e]
          BY <1>b, <2>1, <3>2, <4>3, AppendEntries
        <5> QED
          BY <1>a, <2>1, <4>2, <5>1 DEF Requesters
      <4> QED
        BY <2>1, <4>1, <4>3 DEF Requesters, At, AtNext
    <3>7. DirectoryOnly'
      BY <1>a, <1>b, <2>3, <3>2, <3>3 DEF DirectoryOnly
    <3>8. CountedOnce'
      <4> SUFFICES ASSUME pc[Server] = "register" PROVE CountedOnce'
        BY <1>b, <2>2 DEF CountedOnce
      <4>1. Cardinality(Counted') = i' - 1
        BY <1>a, <2>1, <2>4 DEF CountedOnce
      <4>2. \A x \in Counted' : At(x, "await")'
        <5>1. \A x \in Counted : x \in Nodes
          BY <1>b DEF Counted
        <5> QED
          BY <1>a, <2>4, <3>3, <5>1 DEF CountedOnce
      <4>3. \A e \in DOMAIN inbox'[Server] :
                \/ inbox'[Server][e] = m /\ e = Len(inbox[Server]) + 1
                \/ e \in DOMAIN inbox[Server] /\ inbox'[Server][e] = inbox[Server][e]
        BY <1>b, <2>1, <3>2, AppendEntries
      <4>4. ASSUME NEW e \in DOMAIN inbox'[Server]
            PROVE  /\ AtNext(inbox'[Server][e].from, "await")
                   /\ inbox'[Server][e].from \notin Counted'
                   /\ \A f \in DOMAIN inbox'[Server] :
                          inbox'[Server][f].from = inbox'[Server][e].from => f = e
        <5>1. CASE inbox'[Server][e] = m /\ e = Len(inbox[Server]) + 1
          BY <1>b, <2>1, <2>3, <2>4, <3>3, <4>3, <5>1
        <5>2. CASE e \in DOMAIN inbox[Server] /\ inbox'[Server][e] = inbox[Server][e]
          <6>1. /\ inbox[Server][e].from \in Clients /\ inbox[Server][e].from # c
                /\ At(inbox[Server][e].from, "await") /\ inbox[Server][e].from \notin Counted
            BY <1>a, <1>c, <2>3, <5>2 DEF CountedOnce
          <6>2. \A f \in DOMAIN inbox'[Server] :
                    inbox'[Server][f].from = inbox'[Server][e].from => f = e
            BY <1>a, <2>1, <4>3, <5>2, <6>1 DEF CountedOnce
          <6> QED
            BY <1>b, <2>4, <3>3, <5>2, <6>1, <6>2
        <5> QED
          BY <4>3, <5>1, <5>2
      <4> QED
        BY <4>1, <4>2, <4>4 DEF CountedOnce, At, AtNext
    <3>9. AllKnown'
      <4>1. \A x \in Clients : x \in Int
        BY DEF Clients
      <4> QED
        BY <1>a, <1>b, <2>1, <2>2, <2>3, <2>4, <3>2, <3>3, <4>1 DEF AllKnown
    <3> QED
      BY <3>4, <3>5, <3>6, <3>7, <3>8, <3>9 DEF Orderly
  <2>6. CASE proc[Server] # "up"
    <3>1. proc[Server] = "off" /\ pc[Server] = "init" /\ dir = << >> /\ pending = {}
      BY <1>a, <2>6 DEF Phases
    <3>2. proc' = [proc EXCEPT ![c] = "crashed"] /\ inbox' = [inbox EXCEPT ![c] = << >>]
      BY <2>1, <2>6 DEF Send, Reaches, Crash
    <3>3. /\ proc'[c] = "crashed" /\ \A n \in Nodes : n # c => proc'[n] = proc[n]
          /\ inbox'[c] = << >> /\ \A n \in Nodes : n # c => inbox'[n] = inbox[n]
      BY <1>b, <3>2 DEF Typed, TypeOK
    <3>4. inbox'[Server] = << >> /\ \A x \in Clients : inbox'[x] = << >> /\ ~At(x, "ready")'
      <4>1. \A x \in Clients : ~At(x, "ready")'
        BY <1>a, <1>b, <2>2, <3>1, <3>3 DEF Phases, At
      <4> QED
        BY <1>a, <1>b, <2>6, <3>1, <3>3, <4>1 DEF Phases, ClientsOrDead
    <3>5. Phases'
      BY <1>a, <1>b, <2>1, <2>2, <3>1, <3>3, <3>4 DEF Phases
    <3>6. ClientsOrDead'
      <4>1. \A n \in Nodes : proc'[n] # "up" => inbox'[n] = << >>
        BY <3>4, NodeTypes
      <4> QED
        BY <1>a, <1>b, <2>1, <2>2, <3>3, <4>1 DEF ClientsOrDead
    <3>7. Requesters' /\ DirectoryOnly' /\ CountedOnce' /\ AllKnown'
      BY <1>b, <2>1, <2>2, <3>1, <3>4 DEF Requesters, DirectoryOnly, CountedOnce, AllKnown
    <3> QED
      BY <3>5, <3>6, <3>7 DEF Orderly
  <2> QED
    BY <2>5, <2>6
<1>10. ASSUME NEW c \in Clients, ClientDirectory(c) PROVE Orderly'
  <2>1. At(c, "await") /\ inbox[c] # << >> /\ UNCHANGED <<starts, i, dir, pending, asked>>
    BY <1>10 DEF ClientDirectory
  <2>2. /\ pc[Server] \in {"direct", "ready"} /\ (pc[Server] = "direct" => c < i)
        /\ c \notin pending
    <3>1. c \in Int /\ i \in Int
      BY <1>b DEF Clients
    <3> QED
      BY <1>a, <2>1, <3>1 DEF Phases, AllKnown, Requesters, At
  <2>3. /\ \A n \in Nodes : n # c => proc'[n] = proc[n] /\ pc'[n] = pc[n] /\ addr'[n] = addr[n]
                                     /\ inbox'[n] = inbox[n]
        /\ addr'[c][Server] = addr[c][Server]
        /\ \/ proc'[c] = "up" /\ pc'[c] = "ready"
           \/ proc'[c] = "crashed" /\ inbox'[c] = << >>
    BY <1>10, <1>b DEF ClientDirectory, Crash, Goto, At, Typed, TypeOK
  <2>4. \A n \in Nodes : \A label : n # c => (At(n, label)' <=> At(n, label))
    BY <2>3 DEF At
  <2>5. Counted' = Counted
    BY <1>b, <2>3 DEF Counted
  <2>6. Phases'
    BY <1>a, <1>b, <2>1, <2>2, <2>3 DEF Phases
  <2>7. ClientsOrDead'
    <3>1. \A n \in Nodes : proc'[n] # "up" => inbox'[n] = << >>
      BY <1>a, <2>3 DEF ClientsOrDead
    <3>2. \A x \in Clients : proc'[x] = "up" =>
              addr'[x][Server] = "given" /\ pc'[x] \in {"register", "await", "ready"}
      BY <1>a, <1>b, <2>1, <2>3 DEF ClientsOrDead, At
    <3> QED
      BY <3>1, <3>2 DEF ClientsOrDead
  <2>8. Requesters'
    <3>1. pending \subseteq Clients /\ inbox'[Server] = inbox[Server]
      BY <1>b, <2>3 DEF Typed, TypeOK
    <3>2. ~At(c, "ready")
      BY <2>1 DEF At
    <3> QED
      BY <1>a, <1>b, <1>c, <2>1, <2>2, <2>4, <3>1, <3>2 DEF Requesters
  <2>9. DirectoryOnly'
    BY <1>a, <1>b, <2>3, <2>4 DEF DirectoryOnly, At
  <2>10. CountedOnce'
    BY <1>b, <2>2, <2>3 DEF CountedOnce
  <2>11. AllKnown'
    <3>1. \A x \in Clients : x \in Int /\ i \in Int
      BY <1>b DEF Clients
    <3> QED
      BY <1>a, <1>b, <2>1, <2>2, <2>3, <2>4, <2>5, <3>1 DEF AllKnown
  <2> QED
    BY <2>6, <2>7, <2>8, <2>9, <2>10, <2>11 DEF Orderly
<1>11. ASSUME NEW c \in Clients, ClientAsk(c) PROVE Orderly'
  <2> DEFINE m == Msg("KeyMessage", c)
  <2>1. /\ At(c, "ready") /\ UNCHANGED <<pc, starts, i, addr, dir, pending>>
        /\ Send(c, Server, m) /\ m \in Message /\ m.kind = "KeyMessage" /\ m.from = c
    BY <1>11, <1>b, MessageTypes DEF ClientAsk
  <2> HIDE DEF m
  <2>2. pc[Server] \in {"direct", "ready"} /\ proc[Server] = "up"
    BY <1>a, <2>1 DEF Phases
  <2>3. inbox' = [inbox EXCEPT ![Server] = Append(inbox[Server], m)] /\ UNCHANGED proc
    BY <1>d, <2>1, <2>2, PeacefulReach DEF Send
  <2>4. inbox'[Server] = Append(inbox[Server], m) /\ \A n \in Nodes : n # Server => inbox'[n] = inbox[n]
    BY <1>b, <2>3 DEF Typed, TypeOK
  <2>5. \A n, label : At(n, label)' <=> At(n, label)
    BY <2>1, <2>3 DEF At
  <2>6. Phases' /\ CountedOnce'
    BY <1>a, <2>1, <2>2, <2>3 DEF Phases, CountedOnce
  <2>7. ClientsOrDead'
    <3>1. \A n \in Nodes : proc'[n] # "up" => inbox'[n] = << >>
      BY <1>a, <2>2, <2>3, <2>4 DEF ClientsOrDead
    <3> QED
      BY <1>a, <2>1, <2>3, <3>1 DEF ClientsOrDead
  <2>8. Requesters'
    <3>1. ASSUME NEW e \in DOMAIN inbox'[Server]
          PROVE  \/ inbox'[Server][e] = m
                 \/ e \in DOMAIN inbox[Server] /\ inbox'[Server][e] = inbox[Server][e]
      BY <1>b, <2>1, <2>4, <3>1, AppendEntries
    <3> QED
      BY <1>a, <2>1, <2>5, <3>1 DEF Requesters
  <2>9. DirectoryOnly'
    BY <1>a, <1>b, <2>4, <2>5 DEF DirectoryOnly
  <2>10. AllKnown'
    BY <1>a, <1>b, <2>1, <2>4, <2>5 DEF AllKnown, Counted
  <2> QED
    BY <2>6, <2>7, <2>8, <2>9, <2>10 DEF Orderly
<1>12. ASSUME NEW n \in Nodes, Kill(n) PROVE FALSE
  BY <1>12 DEF Kill, Peaceful
<1>13. CASE UNCHANGED vars
  BY <1>a, <1>13 DEF vars, Orderly, Phases, ClientsOrDead, Requesters, DirectoryOnly,
                     CountedOnce, AllKnown, Counted, At
<1> QED
  BY <1>1, <1>2, <1>3, <1>4, <1>5, <1>6, <1>7, <1>8, <1>9, <1>10, <1>11, <1>12, <1>13
  DEF Next, ServerInit

LEMMA OrderlyAlways == Peaceful => (Spec => [](Typed /\ Orderly))
<1> SUFFICES ASSUME Peaceful PROVE Spec => [](Typed /\ Orderly)
  OBVIOUS
<1>1. Typed /\ Orderly /\ [Next]_vars => (Typed /\ Orderly)'
  BY TypedNext, OrderlyNext
<1> QED
  BY <1>1, TypedInit, OrderlyInit, PTL DEF Spec

(* Where nobody is killed, no request overtakes a registration: the cast   *)
(* to Register in the loop of server_init never meets another message.     *)
THEOREM LoopSeesRegisters == Peaceful => (Spec => []OnlyRegistersInLoop)
<1>1. Typed /\ Orderly => OnlyRegistersInLoop
  <2> SUFFICES ASSUME Typed, Orderly, At(Server, "register"), inbox[Server] # << >>
               PROVE  Head(inbox[Server]).kind = "Register"
    BY DEF OnlyRegistersInLoop
  <2>1. inbox[Server] \in Seq(Message)
    BY NodeTypes DEF Typed, TypeOK
  <2>2. Head(inbox[Server]) = inbox[Server][1] /\ 1 \in DOMAIN inbox[Server]
    BY <2>1, TailEntries
  <2> QED
    BY <2>2 DEF Orderly, Requesters, CountedOnce, At
<1> QED
  BY <1>1, OrderlyAlways, PTL

(* ... the first message a client accepts is its Directory, ...            *)
THEOREM DirectoryIsFirst == Peaceful => (Spec => []DirectoryComesFirst)
<1>1. Typed /\ Orderly => DirectoryComesFirst
  <2> SUFFICES ASSUME Typed, Orderly, NEW c \in Clients, At(c, "await"), inbox[c] # << >>
               PROVE  Head(inbox[c]).kind = "Directory"
    BY DEF DirectoryComesFirst
  <2>1. inbox[c] \in Seq(Message)
    BY NodeTypes DEF Typed, TypeOK
  <2>2. Head(inbox[c]) = inbox[c][1] /\ 1 \in DOMAIN inbox[c]
    BY <2>1, TailEntries
  <2> QED
    BY <2>2 DEF Orderly, DirectoryOnly, At
<1> QED
  BY <1>1, OrderlyAlways, PTL

(* ... the Directory names every client, because as many different clients *)
(* registered as node 0 counted messages, ...                              *)
THEOREM DirectoryNamesAll == Peaceful => (Spec => []DirectoryIsComplete)
<1>1. Orderly => DirectoryIsComplete
  BY DEF Orderly, AllKnown, DirectoryIsComplete
<1> QED
  BY <1>1, OrderlyAlways, PTL

(* ... node 0 survives until everybody has it, ...                         *)
THEOREM ServerSurvives == Peaceful => (Spec => []ServerSurvivesStartup)
<1>1. Orderly => ServerSurvivesStartup
  BY DEF Orderly, Phases, ServerSurvivesStartup
<1> QED
  BY <1>1, OrderlyAlways, PTL

(* ... and no application runs while node 0 still counts registrations.    *)
THEOREM NobodyRunsEarly == Peaceful => (Spec => []NobodyRunsBeforeTheLoopEnds)
<1>1. Orderly => NobodyRunsBeforeTheLoopEnds
  BY DEF Orderly, Phases, NobodyRunsBeforeTheLoopEnds
<1> QED
  BY <1>1, OrderlyAlways, PTL
=============================================================================
