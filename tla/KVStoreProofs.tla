--------------------------- MODULE KVStoreProofs ---------------------------
(***************************************************************************)
(* Proofs about KVStore for any number of nodes, Keys and Values and any   *)
(* bounds: its type invariant, the bounds of put's walk, and what the      *)
(* messages on their way have to do with the requests at the homes.        *)
(***************************************************************************)
EXTENDS KVStore, TLAPS

(* The invariant is proved in two layers.  The types and the walk need     *)
(* each other: the answer sent is typed because the entry walked is in the *)
(* list.                                                                   *)
Inv == TypeOK /\ WalkInBounds

----------------------------------------------------------------------------
(* The types of what the store sends.                                      *)
LEMMA MessageTypes ==
    /\ \A n \in Nodes, k \in Keys : KeyMessage(n, k) \in Message
    /\ \A n \in Nodes, k \in Keys : GetMessage(n, k) \in Message
    /\ \A n \in Nodes : PutMessage(n) \in Message
    /\ \A n \in Nodes, m \in Message, v \in Stored : DataMessage(n, m, v) \in Message
BY KeysTyped, NoneIsNoValue DEF Stored, KeyMessage, GetMessage, PutMessage, DataMessage, Msg, Message, Kinds, Names

(* A send, whatever becomes of it, leaves proc and backlog typed, grows no *)
(* backlog but by the message, and brings no process back.                 *)
LEMMA SendTypes ==
    ASSUME NEW m \in Message, Send(m),
           proc \in [Nodes -> {"up", "exited", "crashed"}],
           backlog \in [Nodes -> Seq(Message)]
    PROVE  /\ proc' \in [Nodes -> {"up", "exited", "crashed"}]
           /\ backlog' \in [Nodes -> Seq(Message)]
<1>1. m.to \in Nodes /\ m.from \in Nodes
  BY DEF Message
<1>2. CASE SendArrives(m)
  <2>1. Append(backlog[m.to], m) \in Seq(Message)
    BY <1>1
  <2> QED
    BY <1>1, <1>2, <2>1 DEF SendArrives
<1>3. CASE SendFails(m)
  BY <1>1, <1>3 DEF SendFails, Leave
<1> QED
  BY <1>2, <1>3 DEF Send

----------------------------------------------------------------------------
LEMMA InvInit == Init => Inv
BY KeysTyped, NoneIsNoValue DEF Init, Inv, TypeOK, WalkInBounds, Labels, Message

(* Every action keeps the types and the walk in bounds.                    *)
LEMMA InvNext == Inv /\ [Next]_vars => Inv'
<1> SUFFICES ASSUME Inv, [Next]_vars PROVE Inv'
  OBVIOUS
<1> USE DEF Inv
<1>1. ASSUME NEW n \in Nodes, NEW k \in Keys, NEW v \in ValuesFor[k], PutAway(n, k, v)
      PROVE  Inv'
  <2>1. [src |-> v, intact |-> TRUE] \in Stored
    BY KeysTyped DEF Stored
  <2>2. TypeOK'
    BY <1>1, <2>1, NoneIsNoValue DEF PutAway, At, TypeOK, Stored
  <2>3. WalkInBounds'
    BY <1>1 DEF PutAway, At, TypeOK, WalkInBounds
  <2> QED
    BY <2>2, <2>3
<1>2. ASSUME NEW n \in Nodes, NEW k \in Keys, NEW v \in ValuesFor[k], PutHome(n, k, v)
      PROVE  Inv'
  <2>1. [src |-> v, intact |-> TRUE] \in Stored
    BY KeysTyped DEF Stored
  <2>2. TypeOK'
    BY <1>2, <2>1, NoneIsNoValue DEF PutHome, At, Goto, TypeOK, Labels, Stored
  <2>3. kv'[n][k] # None /\ kv'[n][k].src \in ValuesFor[k]
    <3>1. kv' = [kv EXCEPT ![n][k] = [src |-> v, intact |-> TRUE]]
      BY <1>2 DEF PutHome
    <3>2. kv'[n][k] = [src |-> v, intact |-> TRUE]
      BY <3>1 DEF TypeOK
    <3>3. kv'[n][k] # None
      BY <2>1, <3>2, NoneIsNoValue, Zenon DEF Stored
    <3>4. kv'[n][k].src = v
      BY <3>2
    <3> QED
      BY <3>3, <3>4
  <2>4. \A x \in Nodes : x # n => kv'[x] = kv[x]
    BY <1>2 DEF PutHome, TypeOK
  <2>5. WalkInBounds'
    BY <1>2, <2>3, <2>4 DEF PutHome, At, Goto, TypeOK, WalkInBounds
  <2> QED
    BY <2>2, <2>5
<1>3. ASSUME NEW n \in Nodes, ScanSkip(n)
      PROVE  Inv'
  BY <1>3 DEF ScanSkip, At, TypeOK, WalkInBounds
<1>4. ASSUME NEW n \in Nodes, ScanMatch(n)
      PROVE  Inv'
  <2>1. TypeOK'
    BY <1>4, MessageTypes, SendTypes DEF ScanMatch, At, Goto, TypeOK, Labels
  <2>2. WalkInBounds'
    BY <1>4 DEF ScanMatch, At, Goto, TypeOK, WalkInBounds
  <2> QED
    BY <2>1, <2>2
<1>5. ASSUME NEW n \in Nodes, Reply(n)
      PROVE  Inv'
  <2>1. pending[n][pos[n]] \in Message
    BY <1>5 DEF Reply, At, TypeOK, WalkInBounds
  <2>2. DataMessage(n, pending[n][pos[n]], kv[n][cur[n]]) \in Message
    BY <1>5, <2>1, MessageTypes DEF Reply, At, TypeOK, WalkInBounds
  <2>3. /\ proc' \in [Nodes -> {"up", "exited", "crashed"}]
        /\ backlog' \in [Nodes -> Seq(Message)]
    BY <1>5, <2>2, SendTypes DEF Reply, TypeOK
  <2>4. TypeOK'
    <3>1. /\ pc' = [pc EXCEPT ![n] = "scan"] /\ pos' = [pos EXCEPT ![n] = @ + 1]
          /\ pc[n] = "reply"
          /\ UNCHANGED <<cur, len, kv, pending, held, puts, asks>>
      BY <1>5 DEF Reply, At, Goto
    <3> QED
      BY <2>3, <3>1 DEF TypeOK, Labels
  <2>5. WalkInBounds'
    BY <1>5 DEF Reply, At, Goto, TypeOK, WalkInBounds
  <2> QED
    BY <2>4, <2>5
<1>6. ASSUME NEW n \in Nodes, PutDone(n)
      PROVE  Inv'
  BY <1>6 DEF PutDone, At, Goto, TypeOK, WalkInBounds, Labels
<1>7. ASSUME NEW n \in Nodes, NEW k \in Keys, Get(n, k)
      PROVE  Inv'
  BY <1>7 DEF Get, At, Goto, TypeOK, WalkInBounds, Labels
<1>8. ASSUME NEW n \in Nodes, Wake(n)
      PROVE  Inv'
  <2>1. GetMessage(n, cur[n]) \in Message
    BY <1>8, MessageTypes DEF Wake, At, TypeOK
  <2>2. TypeOK'
    BY <1>8, <2>1, SendTypes DEF Wake, At, Goto, TypeOK, Labels
  <2>3. WalkInBounds'
    BY <1>8 DEF Wake, At, Goto, TypeOK, WalkInBounds
  <2> QED
    BY <2>2, <2>3
<1>9. ASSUME NEW n \in Nodes, NEW k \in Keys, WaitAndGet(n, k)
      PROVE  Inv'
  <2>1. /\ proc' \in [Nodes -> {"up", "exited", "crashed"}]
        /\ backlog' \in [Nodes -> Seq(Message)]
    BY <1>9, MessageTypes, SendTypes DEF WaitAndGet, TypeOK
  <2>2. /\ pc' \in [Nodes -> Labels]
        /\ \A x \in Nodes : x # n => pc'[x] = pc[x] /\ cur'[x] = cur[x]
        /\ pc'[n] \in {"cvwait", "recv", "load"} /\ cur'[n] = k
        /\ pc'[n] = "load" => kv[n][k] # None
    BY <1>9 DEF WaitAndGet, Goto, TypeOK, Labels
  <2>3. TypeOK'
    <3>1. /\ asks' = [asks EXCEPT ![n][k] = @ + 1]
          /\ cur' = [cur EXCEPT ![n] = k]
          /\ UNCHANGED <<pos, len, kv, pending, held, puts>>
      BY <1>9 DEF WaitAndGet
    <3>2. asks' \in [Nodes -> [Keys -> Nat]] /\ cur' \in [Nodes -> Keys \cup {None}]
      BY <3>1 DEF TypeOK
    <3>3. \A x \in Nodes : /\ pc'[x] # "idle" => cur'[x] \in Keys
                           /\ pc'[x] = "load" => kv'[x][cur'[x]] # None
      BY <2>2, <3>1 DEF TypeOK
    <3> QED
      BY <2>1, <2>2, <3>1, <3>2, <3>3 DEF TypeOK
  <2>4. WalkInBounds'
    BY <1>9, <2>2 DEF WaitAndGet, TypeOK, WalkInBounds
  <2> QED
    BY <2>3, <2>4
<1>10. ASSUME NEW n \in Nodes, RecvData(n)
       PROVE  Inv'
  <2>1. Head(backlog[n]) \in Message /\ Tail(backlog[n]) \in Seq(Message)
    BY <1>10 DEF RecvData, TypeOK
  <2>2. Deserialized(Head(backlog[n]).val) \in Stored
    BY <1>10, <2>1 DEF RecvData, Message, Deserialized, Stored
  <2>3. TypeOK'
    BY <1>10, <2>1, <2>2, NoneIsNoValue DEF RecvData, At, Goto, TypeOK, Labels, Stored
  <2>4. WalkInBounds'
    BY <1>10 DEF RecvData, At, Goto, TypeOK, WalkInBounds
  <2> QED
    BY <2>3, <2>4
<1>11. ASSUME NEW n \in Nodes, RecvOther(n) \/ ScanFreed(n)
       PROVE  Inv'
  <2>1. Leave(n, "crashed") /\ UNCHANGED <<pc, cur, pos, len, kv, pending, held, puts, asks>>
    BY <1>11 DEF RecvOther, ScanFreed
  <2> QED
    BY <2>1 DEF Leave, TypeOK, WalkInBounds
<1>12. ASSUME NEW n \in Nodes, Load(n)
       PROVE  Inv'
  <2>1. UNCHANGED <<proc, backlog>> \/ Leave(n, "crashed")
    BY <1>12, Zenon DEF Load
  <2>2. At(n, "load") /\ Goto(n, "idle") /\ UNCHANGED <<cur, pos, len, kv, pending, held, puts, asks>>
    BY <1>12, Zenon DEF Load
  <2>3. /\ proc' \in [Nodes -> {"up", "exited", "crashed"}]
        /\ backlog' \in [Nodes -> Seq(Message)]
    <3>1. CASE UNCHANGED <<proc, backlog>>
      BY <3>1 DEF TypeOK
    <3>2. CASE Leave(n, "crashed")
      BY <3>2 DEF Leave, TypeOK
    <3> QED
      BY <2>1, <3>1, <3>2
  <2>4. TypeOK'
    BY <2>2, <2>3 DEF Goto, TypeOK, Labels
  <2>5. WalkInBounds'
    BY <2>2 DEF At, Goto, TypeOK, WalkInBounds
  <2> QED
    BY <2>4, <2>5
<1>13. ASSUME Listen
       PROVE  Inv'
  <2>1. CASE ListenAccept
    <3>1. Head(backlog[Server]) \in Message /\ Tail(backlog[Server]) \in Seq(Message)
      BY <2>1, ServerIsNode DEF ListenAccept, TypeOK
    <3> QED
      BY <2>1, <3>1, ServerIsNode DEF ListenAccept, TypeOK, WalkInBounds
  <2>2. CASE ListenAppend
    <3>1. TypeOK'
      BY <2>2, ServerIsNode DEF ListenAppend, TypeOK
    <3>2. WalkInBounds'
      BY <2>2, ServerIsNode DEF ListenAppend, TypeOK, WalkInBounds
    <3> QED
      BY <3>1, <3>2
  <2> QED
    BY <1>13, <2>1, <2>2 DEF Listen
<1>14. ASSUME NEW n \in Nodes, Exit(n)
       PROVE  Inv'
  BY <1>14 DEF Exit, At, Leave, TypeOK, WalkInBounds
<1>15. CASE UNCHANGED vars
  BY <1>15 DEF vars, TypeOK, WalkInBounds
<1> QED
  BY <1>1, <1>2, <1>3, <1>4, <1>5, <1>6, <1>7, <1>8, <1>9, <1>10, <1>11,
     <1>12, <1>13, <1>14, <1>15
  DEF Next, Call, Continue

(* The type invariant: a thread in a call has a Key, what it is about to   *)
(* deserialize is there, and every message is one the store sends.         *)
THEOREM TypeCorrect == Spec => []TypeOK
<1>1. Inv => TypeOK
  BY DEF Inv
<1> QED
  BY <1>1, InvInit, InvNext, PTL DEF Spec

(* put never indexes past the list of requests, and answers the request it *)
(* matched with a Value put under its Key, however the listener appends.   *)
THEOREM WalkCorrect == Spec => []WalkInBounds
<1>1. Inv => WalkInBounds
  BY DEF Inv
<1> QED
  BY <1>1, InvInit, InvNext, PTL DEF Spec

----------------------------------------------------------------------------
(* What a send does to the queues: an entry afterwards was there before or *)
(* is the message, at its receiver.                                        *)
LEMMA SendEntries ==
    ASSUME NEW m \in Message, Send(m), TypeOK,
           NEW x \in Nodes, NEW i \in DOMAIN backlog'[x]
    PROVE  \/ i \in DOMAIN backlog[x] /\ backlog'[x][i] = backlog[x][i]
           \/ x = m.to /\ backlog'[x][i] = m
<1>1. m.to \in Nodes /\ m.from \in Nodes /\ backlog[x] \in Seq(Message)
  BY DEF Message, TypeOK
<1>2. CASE SendArrives(m)
  BY <1>1, <1>2 DEF SendArrives, TypeOK
<1>3. CASE SendFails(m)
  BY <1>1, <1>3 DEF SendFails, Leave, TypeOK
<1> QED
  BY <1>2, <1>3 DEF Send

(* A process that is up after a send was up before, nothing left its       *)
(* queue, and if the sender is up the message is in the receiver's.        *)
LEMMA SendKeeps ==
    ASSUME NEW m \in Message, Send(m), TypeOK
    PROVE  /\ \A h \in Nodes : proc'[h] = "up" =>
                 /\ proc[h] = "up"
                 /\ \A i \in DOMAIN backlog[h] :
                       i \in DOMAIN backlog'[h] /\ backlog'[h][i] = backlog[h][i]
           /\ proc'[m.from] = "up" =>
                 \E i \in DOMAIN backlog'[m.to] : backlog'[m.to][i] = m
<1>1. m.to \in Nodes /\ m.from \in Nodes /\ \A h \in Nodes : backlog[h] \in Seq(Message)
  BY DEF Message, TypeOK
<1>2. CASE SendArrives(m)
  <2>1. backlog'[m.to] = Append(backlog[m.to], m)
    BY <1>1, <1>2 DEF SendArrives, TypeOK
  <2>2. Len(backlog[m.to]) + 1 \in DOMAIN backlog'[m.to]
        /\ backlog'[m.to][Len(backlog[m.to]) + 1] = m
    BY <1>1, <2>1
  <2>3. \A h \in Nodes : proc'[h] = proc[h] /\ (h # m.to => backlog'[h] = backlog[h])
    BY <1>1, <1>2 DEF SendArrives, TypeOK
  <2>4. ASSUME NEW h \in Nodes, NEW i \in DOMAIN backlog[h]
        PROVE  i \in DOMAIN backlog'[h] /\ backlog'[h][i] = backlog[h][i]
    <3>1. CASE h = m.to
      BY <1>1, <2>1, <3>1
    <3>2. CASE h # m.to
      BY <2>3, <3>2
    <3> QED
      BY <3>1, <3>2
  <2> QED
    BY <2>2, <2>3, <2>4
<1>3. CASE SendFails(m)
  BY <1>1, <1>3 DEF SendFails, Leave, TypeOK
<1> QED
  BY <1>2, <1>3 DEF Send

(* Appending to a list of messages loses no request in it.                 *)
LEMMA RequestsAppend ==
    ASSUME NEW q \in Seq(Message), NEW m \in Message, NEW n, NEW nm, Requests(q, n, nm)
    PROVE  Requests(Append(q, m), n, nm)
BY DEF Requests, IsRequest

(* Taking the first message off loses no request but the one it may be.    *)
LEMMA RequestsTail ==
    ASSUME NEW q \in Seq(Message), NEW n, NEW nm, q # << >>, Requests(q, n, nm),
           ~IsRequest(Head(q), n, nm)
    PROVE  Requests(Tail(q), n, nm)
<1>1. PICK i \in DOMAIN q : IsRequest(q[i], n, nm)
  BY DEF Requests
<1>2. i # 1
  BY <1>1
<1>3. i - 1 \in DOMAIN Tail(q) /\ Tail(q)[i - 1] = q[i]
  BY <1>2
<1> QED
  BY <1>1, <1>3 DEF Requests

(* pending_messages only grows.                                            *)
LEMMA PendingGrows ==
    ASSUME TypeOK, [Next]_vars, NEW h \in Nodes, NEW n, NEW nm, Requests(pending[h], n, nm)
    PROVE  Requests(pending'[h], n, nm)
<1>1. CASE ListenAppend
  <2>1. held \in Message /\ pending[Server] \in Seq(Message)
    BY <1>1, ServerIsNode DEF ListenAppend, TypeOK
  <2>2. \/ pending'[h] = pending[h]
        \/ h = Server /\ pending'[h] = Append(pending[h], held)
    BY <1>1 DEF ListenAppend, TypeOK
  <2> QED
    BY <2>1, <2>2, RequestsAppend
<1>2. CASE UNCHANGED pending
  BY <1>2
<1> QED
  BY <1>1, <1>2 DEF Next, Call, Continue, vars, PutAway, PutHome, ScanSkip, ScanMatch, Reply,
     PutDone, Get, Wake, WaitAndGet, RecvData, RecvOther, Load, ScanFreed, Exit, Listen,
     ListenAccept

(* A step adds to a queue no Data but the answer of Reply.                 *)
LEMMA NewEntries ==
    ASSUME Inv, [Next]_vars, NEW x \in Nodes, NEW i \in DOMAIN backlog'[x],
           NEW m, m = backlog'[x][i], m.kind = "Data"
    PROVE  \/ \E e \in DOMAIN backlog[x] : m = backlog[x][e]
           \/ \E n \in Nodes :
                 /\ Reply(n)
                 /\ m = DataMessage(n, pending[n][pos[n]], kv[n][cur[n]])
                 /\ x = m.to
<1> DEFINE Old == \E e \in DOMAIN backlog[x] : m = backlog[x][e]
<1>0. TypeOK /\ backlog[x] \in Seq(Message)
  BY DEF Inv, TypeOK
<1>1. ASSUME NEW n \in Nodes, NEW msg \in Message, Send(msg), msg.kind # "Data"
      PROVE  Old
  BY <1>0, <1>1, SendEntries
<1>2. ASSUME NEW n \in Nodes, NEW how, Leave(n, how)
      PROVE  Old
  BY <1>0, <1>2 DEF Leave, TypeOK
<1>3. ASSUME UNCHANGED backlog
      PROVE  Old
  BY <1>3
<1>4. ASSUME NEW n \in Nodes, backlog[n] # << >>, backlog' = [backlog EXCEPT ![n] = Tail(@)]
      PROVE  Old
  <2>1. CASE x = n
    <3>1. backlog'[x] = Tail(backlog[x])
      BY <1>0, <1>4, <2>1 DEF TypeOK
    <3>2. i \in DOMAIN Tail(backlog[x]) /\ m = Tail(backlog[x])[i]
      BY <3>1
    <3>3. backlog[x] # << >>
      BY <1>4, <2>1
    <3>4. i + 1 \in DOMAIN backlog[x] /\ m = backlog[x][i + 1]
      BY <1>0, <3>2, <3>3
    <3> QED
      BY <3>4
  <2>2. CASE x # n
    BY <1>0, <1>4, <2>2 DEF TypeOK
  <2> QED
    BY <2>1, <2>2
<1>5. ASSUME NEW n \in Nodes, ScanMatch(n)
      PROVE  Old
  <2>1. PutMessage(n) \in Message /\ PutMessage(n).kind # "Data"
    BY MessageTypes DEF PutMessage, Msg
  <2> QED
    BY <1>1, <1>5, <2>1 DEF ScanMatch
<1>6. ASSUME NEW n \in Nodes, Reply(n)
      PROVE  \/ Old
             \/ m = DataMessage(n, pending[n][pos[n]], kv[n][cur[n]]) /\ x = m.to
  <2>1. pending[n][pos[n]] \in Message /\ kv[n][cur[n]] \in Stored
    BY <1>6 DEF Reply, At, Inv, TypeOK, WalkInBounds
  <2>2. DataMessage(n, pending[n][pos[n]], kv[n][cur[n]]) \in Message
    BY <2>1, MessageTypes
  <2> QED
    BY <1>0, <1>6, <2>2, SendEntries DEF Reply
<1>7. ASSUME NEW n \in Nodes, Wake(n)
      PROVE  Old
  <2>1. CASE UNCHANGED <<proc, backlog>>
    BY <1>3, <2>1
  <2>2. CASE Send(GetMessage(n, cur[n]))
    <3>1. GetMessage(n, cur[n]) \in Message /\ GetMessage(n, cur[n]).kind # "Data"
      BY <1>0, <1>7, MessageTypes DEF Wake, At, TypeOK, GetMessage, Msg
    <3> QED
      BY <1>1, <2>2, <3>1
  <2> QED
    BY <1>7, <2>1, <2>2 DEF Wake
<1>8. ASSUME NEW n \in Nodes, NEW k \in Keys, WaitAndGet(n, k)
      PROVE  Old
  <2>1. KeyMessage(n, k) \in Message /\ KeyMessage(n, k).kind # "Data"
    BY MessageTypes DEF KeyMessage, Msg
  <2> QED
    BY <1>1, <1>3, <1>8, <2>1 DEF WaitAndGet
<1>9. ASSUME NEW n \in Nodes, Load(n)
      PROVE  Old
  <2>1. UNCHANGED backlog \/ Leave(n, "crashed")
    BY <1>9, Zenon DEF Load
  <2> QED
    BY <1>2, <1>3, <2>1
<1>10. ASSUME NEW n \in Nodes, RecvData(n)
       PROVE  Old
  BY <1>4, <1>10 DEF RecvData
<1>11. ASSUME NEW n \in Nodes, RecvOther(n) \/ ScanFreed(n) \/ Exit(n)
       PROVE  Old
  BY <1>2, <1>11 DEF RecvOther, ScanFreed, Exit
<1>12. ASSUME Listen
       PROVE  Old
  BY <1>3, <1>4, <1>12, ServerIsNode DEF Listen, ListenAccept, ListenAppend
<1>13. ASSUME NEW n \in Nodes, NEW k \in Keys, NEW v,
              PutAway(n, k, v) \/ PutHome(n, k, v) \/ Get(n, k) \/ ScanSkip(n) \/ PutDone(n)
       PROVE  Old
  BY <1>3, <1>13 DEF PutAway, PutHome, Get, ScanSkip, PutDone
<1>14. ASSUME NEW n \in Nodes, ScanSkip(n) \/ PutDone(n)
       PROVE  Old
  BY <1>3, <1>14 DEF ScanSkip, PutDone
<1>15. CASE UNCHANGED vars
  BY <1>3, <1>15 DEF vars
<1> QED
  BY <1>5, <1>6, <1>7, <1>8, <1>9, <1>10, <1>11, <1>12, <1>13, <1>14, <1>15
  DEF Next, Call, Continue

(* What Reply sends was asked for: the request it answers is in the list.  *)
LEMMA ReplyAsked ==
    ASSUME Inv, NEW n \in Nodes, Reply(n), NEW m,
           m = DataMessage(n, pending[n][pos[n]], kv[n][cur[n]])
    PROVE  Asked(m.to, m)
<1> DEFINE r == pending[n][pos[n]]
           k == cur[n]
<1>1. /\ k \in Keys /\ pos[n] \in DOMAIN pending[n]
      /\ Matches(r, k)
      /\ kv[n][k] # None /\ kv[n][k].src \in ValuesFor[k]
  BY DEF Inv, Reply, At, TypeOK, WalkInBounds
<1>2. m.from = n /\ m.to = r.from /\ m.val = kv[n][k]
  BY DEF DataMessage, Msg
<1>3. Requests(pending[n], r.from, NameOf[k])
  BY <1>1 DEF Requests, IsRequest, Matches
<1>4. kv[n][k].src \in ValuesNamed(NameOf[k])
  BY <1>1 DEF ValuesNamed
<1>5. NameOf[k] \in Names
  BY <1>1 DEF Names
<1> QED
  BY <1>1, <1>2, <1>3, <1>4, <1>5 DEF Asked

LEMMA AskedNext ==
    ASSUME Inv, Inv', AnswersOnlyTheAsked, [Next]_vars
    PROVE  AnswersOnlyTheAsked'
<1> SUFFICES ASSUME NEW x \in Nodes, NEW i \in DOMAIN backlog'[x],
                    NEW m, m = backlog'[x][i], m.kind = "Data"
             PROVE  Asked(x, m)'
  BY DEF AnswersOnlyTheAsked
<1>1. m \in Message /\ m.from \in Nodes
  <2>1. backlog'[x] \in Seq(Message)
    BY DEF Inv, TypeOK
  <2>2. m \in Message
    BY <2>1
  <2> QED
    BY <2>2 DEF Message
<1>2. Asked(x, m)
  <2>1. CASE \E e \in DOMAIN backlog[x] : m = backlog[x][e]
    BY <2>1 DEF AnswersOnlyTheAsked
  <2>2. CASE \E n \in Nodes : /\ Reply(n)
                             /\ m = DataMessage(n, pending[n][pos[n]], kv[n][cur[n]])
                             /\ x = m.to
    BY <2>2, ReplyAsked
  <2> QED
    BY <2>1, <2>2, NewEntries
<1> QED
  BY <1>1, <1>2, PendingGrows DEF Asked, Inv

(* Whatever the listener, the walk and crashes do, a Data message on its   *)
(* way answers a request its receiver made for a name it was put under.    *)
THEOREM AnswersCorrect == Spec => []AnswersOnlyTheAsked
<1>1. Init => AnswersOnlyTheAsked
  BY DEF Init, AnswersOnlyTheAsked
<1>2. Inv /\ AnswersOnlyTheAsked /\ [Next]_vars => (Inv /\ AnswersOnlyTheAsked)'
  BY InvNext, AskedNext
<1> QED
  BY <1>1, <1>2, InvInit, PTL DEF Spec

----------------------------------------------------------------------------
(* No process that is gone comes back.                                     *)
LEMMA UpBefore ==
    ASSUME Inv, [Next]_vars, NEW h \in Nodes, proc'[h] = "up"
    PROVE  proc[h] = "up"
<1>0. TypeOK
  BY DEF Inv
<1>1. ASSUME NEW msg \in Message, Send(msg)
      PROVE  proc[h] = "up"
  BY <1>0, <1>1, SendKeeps
<1>2. ASSUME NEW n \in Nodes, NEW how, how # "up", Leave(n, how)
      PROVE  proc[h] = "up"
  BY <1>0, <1>2 DEF Leave, TypeOK
<1>3. ASSUME NEW n \in Nodes, ScanMatch(n)
      PROVE  proc[h] = "up"
  BY <1>1, <1>3, MessageTypes DEF ScanMatch
<1>4. ASSUME NEW n \in Nodes, Reply(n)
      PROVE  proc[h] = "up"
  <2>1. pending[n][pos[n]] \in Message /\ kv[n][cur[n]] \in Stored
    BY <1>4 DEF Reply, At, Inv, TypeOK, WalkInBounds
  <2> QED
    BY <1>1, <1>4, <2>1, MessageTypes DEF Reply
<1>5. ASSUME NEW n \in Nodes, Wake(n)
      PROVE  proc[h] = "up"
  <2>1. cur[n] \in Keys
    BY <1>0, <1>5 DEF Wake, At, TypeOK
  <2> QED
    BY <1>1, <1>5, <2>1, MessageTypes DEF Wake
<1>6. ASSUME NEW n \in Nodes, NEW k \in Keys, WaitAndGet(n, k)
      PROVE  proc[h] = "up"
  BY <1>1, <1>6, MessageTypes DEF WaitAndGet
<1>7. ASSUME NEW n \in Nodes, Load(n)
      PROVE  proc[h] = "up"
  <2>1. UNCHANGED proc \/ Leave(n, "crashed")
    BY <1>7, Zenon DEF Load
  <2> QED
    BY <1>2, <2>1
<1>8. ASSUME NEW n \in Nodes, RecvOther(n) \/ ScanFreed(n) \/ Exit(n)
      PROVE  proc[h] = "up"
  BY <1>2, <1>8 DEF RecvOther, ScanFreed, Exit
<1> QED
  BY <1>3, <1>4, <1>5, <1>6, <1>7, <1>8
  DEF Next, Call, Continue, Listen, ListenAccept, ListenAppend, PutAway, PutHome, ScanSkip,
      PutDone, Get, RecvData, vars

(* A thread that waits for a Key waited for it before, or just asked.      *)
LEMMA WaitedBefore ==
    ASSUME Inv, [Next]_vars, NEW n \in Nodes, NEW k \in Keys, WaitsFor(n, k)'
    PROVE  \/ WaitsFor(n, k)
           \/ WaitAndGet(n, k) /\ HomeOf[k] # n /\ Send(KeyMessage(n, k))
<1>1. proc[n] = "up" /\ pc'[n] = "recv" /\ cur'[n] = k
  BY UpBefore DEF WaitsFor, At
<1>2. ASSUME NEW x \in Nodes, NEW label, label # "recv", Goto(x, label), UNCHANGED cur
      PROVE  WaitsFor(n, k)
  BY <1>1, <1>2 DEF Inv, TypeOK, Goto, WaitsFor, At
<1>3. ASSUME UNCHANGED <<pc, cur>>
      PROVE  WaitsFor(n, k)
  BY <1>1, <1>3 DEF WaitsFor, At
<1>4. ASSUME NEW x \in Nodes, NEW q \in Keys, NEW label, label # "recv", Goto(x, label),
             cur' = [cur EXCEPT ![x] = q]
      PROVE  WaitsFor(n, k)
  BY <1>1, <1>4 DEF Inv, TypeOK, Goto, WaitsFor, At
<1>5. ASSUME NEW x \in Nodes, NEW q \in Keys, NEW v,
             PutAway(x, q, v) \/ PutHome(x, q, v) \/ Get(x, q)
      PROVE  WaitsFor(n, k)
  BY <1>3, <1>4, <1>5 DEF PutAway, PutHome, Get
<1>6. ASSUME NEW x \in Nodes, NEW q \in Keys, WaitAndGet(x, q)
      PROVE  \/ WaitsFor(n, k)
             \/ WaitAndGet(n, k) /\ HomeOf[k] # n /\ Send(KeyMessage(n, k))
  <2>1. CASE x = n
    <3>1. q = k /\ pc'[n] # "cvwait"
      BY <1>1, <1>6, <2>1 DEF WaitAndGet, Inv, TypeOK
    <3> QED
      BY <1>6, <2>1, <3>1 DEF WaitAndGet, Goto, Inv, TypeOK
  <2>2. CASE x # n
    <3>1. pc'[n] = pc[n] /\ cur'[n] = cur[n]
      BY <1>6, <2>2 DEF WaitAndGet, Goto, Inv, TypeOK
    <3> QED
      BY <1>1, <3>1 DEF WaitsFor, At
  <2> QED
    BY <2>1, <2>2
<1>7. ASSUME NEW x \in Nodes,
             ScanSkip(x) \/ ScanMatch(x) \/ Reply(x) \/ PutDone(x) \/ RecvData(x)
      PROVE  WaitsFor(n, k)
  BY <1>2, <1>3, <1>7 DEF ScanSkip, ScanMatch, Reply, PutDone, RecvData
<1>8. ASSUME NEW x \in Nodes, RecvOther(x) \/ Load(x) \/ Wake(x) \/ ScanFreed(x) \/ Exit(x)
      PROVE  WaitsFor(n, k)
  BY <1>2, <1>3, <1>8 DEF RecvOther, Load, Wake, ScanFreed, Exit
<1>9. ASSUME Listen \/ UNCHANGED vars
      PROVE  WaitsFor(n, k)
  BY <1>3, <1>9 DEF Listen, ListenAccept, ListenAppend, vars
<1> QED
  BY <1>5, <1>6, <1>7, <1>8, <1>9 DEF Next, Call, Continue

(* n's request for nm is somewhere at h: queued, held by the listener, or  *)
(* listed.                                                                 *)
HeldIs(h, n, nm) == h = Server /\ held # None /\ IsRequest(held, n, nm)
Somewhere(h, n, nm) ==
    Requests(backlog[h], n, nm) \/ Requests(pending[h], n, nm) \/ HeldIs(h, n, nm)

(* A request queued at a running process stays queued or is accepted by    *)
(* the listener.                                                           *)
LEMMA RequestsStay ==
    ASSUME Inv, [Next]_vars, NEW h \in Nodes, proc'[h] = "up",
           NEW n, NEW nm, Requests(backlog[h], n, nm)
    PROVE  Requests(backlog'[h], n, nm) \/ HeldIs(h, n, nm)'
<1> DEFINE Kept == Requests(backlog'[h], n, nm)
<1>0. TypeOK /\ backlog[h] \in Seq(Message)
  BY DEF Inv, TypeOK
<1>1. ASSUME NEW msg \in Message, Send(msg)
      PROVE  Kept
  <2>1. \A i \in DOMAIN backlog[h] : i \in DOMAIN backlog'[h] /\ backlog'[h][i] = backlog[h][i]
    BY <1>0, <1>1, SendKeeps
  <2> QED
    BY <2>1 DEF Requests
<1>2. ASSUME NEW x \in Nodes, NEW how, how # "up", Leave(x, how)
      PROVE  Kept
  BY <1>0, <1>2 DEF Leave, TypeOK
<1>3. ASSUME UNCHANGED backlog
      PROVE  Kept
  BY <1>3
<1>4. ASSUME NEW x \in Nodes, ScanMatch(x)
      PROVE  Kept
  BY <1>1, <1>4, MessageTypes DEF ScanMatch
<1>5. ASSUME NEW x \in Nodes, Reply(x)
      PROVE  Kept
  <2>1. pending[x][pos[x]] \in Message /\ kv[x][cur[x]] \in Stored
    BY <1>5 DEF Reply, At, Inv, TypeOK, WalkInBounds
  <2> QED
    BY <1>1, <1>5, <2>1, MessageTypes DEF Reply
<1>6. ASSUME NEW x \in Nodes, Wake(x)
      PROVE  Kept
  <2>1. cur[x] \in Keys
    BY <1>0, <1>6 DEF Wake, At, TypeOK
  <2> QED
    BY <1>1, <1>3, <1>6, <2>1, MessageTypes DEF Wake
<1>7. ASSUME NEW x \in Nodes, NEW k \in Keys, WaitAndGet(x, k)
      PROVE  Kept
  BY <1>1, <1>3, <1>7, MessageTypes DEF WaitAndGet
<1>8. ASSUME NEW x \in Nodes, Load(x)
      PROVE  Kept
  <2>1. UNCHANGED backlog \/ Leave(x, "crashed")
    BY <1>8, Zenon DEF Load
  <2> QED
    BY <1>2, <1>3, <2>1
<1>9. ASSUME NEW x \in Nodes, RecvOther(x) \/ ScanFreed(x) \/ Exit(x)
      PROVE  Kept
  BY <1>2, <1>9 DEF RecvOther, ScanFreed, Exit
<1>10. ASSUME NEW x \in Nodes, RecvData(x)
       PROVE  Kept
  <2>1. CASE x = h
    <3>1. backlog'[h] = Tail(backlog[h]) /\ backlog[h] # << >> /\ Head(backlog[h]).kind = "Data"
      BY <1>0, <1>10, <2>1 DEF RecvData, TypeOK
    <3> QED
      BY <1>0, <3>1, RequestsTail DEF IsRequest
  <2>2. CASE x # h
    BY <1>0, <1>10, <2>2 DEF RecvData, TypeOK
  <2> QED
    BY <2>1, <2>2
<1>11. ASSUME ListenAccept
       PROVE  Kept \/ HeldIs(h, n, nm)'
  <2> DEFINE first == Head(backlog[h])
  <2>1. CASE h # Server
    BY <1>0, <1>11, <2>1, ServerIsNode DEF ListenAccept, TypeOK
  <2>2. CASE h = Server
    <3>1. /\ backlog[h] # << >> /\ backlog'[h] = Tail(backlog[h]) /\ held' = first
          /\ first \in Message
      BY <1>0, <1>11, <2>2 DEF ListenAccept, TypeOK
    <3>2. CASE IsRequest(first, n, nm)
      BY <2>2, <3>1, <3>2, NoneIsNoMessage DEF HeldIs
    <3>3. CASE ~IsRequest(first, n, nm)
      BY <1>0, <3>1, <3>3, RequestsTail
    <3> QED
      BY <3>2, <3>3
  <2> QED
    BY <2>1, <2>2
<1>12. ASSUME NEW x \in Nodes, NEW k \in Keys, NEW v,
              PutAway(x, k, v) \/ PutHome(x, k, v) \/ Get(x, k)
       PROVE  Kept
  BY <1>3, <1>12 DEF PutAway, PutHome, Get
<1>13. ASSUME NEW x \in Nodes, ScanSkip(x) \/ PutDone(x)
       PROVE  Kept
  BY <1>3, <1>13 DEF ScanSkip, PutDone
<1>14. CASE ListenAppend \/ UNCHANGED vars
  BY <1>3, <1>14 DEF ListenAppend, vars
<1> QED
  BY <1>4, <1>5, <1>6, <1>7, <1>8, <1>9, <1>10, <1>11, <1>12, <1>13, <1>14
  DEF Next, Call, Continue, Listen

(* What the listener holds it keeps or lists.                              *)
LEMMA HeldStays ==
    ASSUME Inv, [Next]_vars, NEW h \in Nodes, NEW n, NEW nm, HeldIs(h, n, nm)
    PROVE  HeldIs(h, n, nm)' \/ Requests(pending'[h], n, nm)
<1>1. CASE ListenAppend
  <2>1. pending[h] \in Seq(Message) /\ pending'[h] = Append(pending[h], held)
    BY <1>1 DEF ListenAppend, HeldIs, Inv, TypeOK
  <2>2. Len(pending[h]) + 1 \in DOMAIN pending'[h] /\ pending'[h][Len(pending[h]) + 1] = held
    BY <2>1
  <2> QED
    BY <2>2 DEF HeldIs, Requests
<1>2. CASE UNCHANGED held
  BY <1>2 DEF HeldIs
<1>3. CASE ListenAccept
  BY <1>3 DEF ListenAccept, HeldIs
<1> QED
  BY <1>1, <1>2, <1>3 DEF Next, Call, Continue, vars, PutAway, PutHome, ScanSkip, ScanMatch,
     Reply, PutDone, Get, Wake, WaitAndGet, RecvData, RecvOther, Load, ScanFreed, Exit, Listen

LEMMA ListedNext ==
    ASSUME Inv, WaiterStillListed, [Next]_vars
    PROVE  WaiterStillListed'
<1> SUFFICES ASSUME NEW n \in Nodes, NEW k \in Keys, WaitsFor(n, k)', proc'[HomeOf[k]] = "up"
             PROVE  Somewhere(HomeOf[k], n, NameOf[k])'
  BY DEF WaiterStillListed, Somewhere, HeldIs
<1>0. TypeOK /\ HomeOf[k] \in Nodes /\ proc[HomeOf[k]] = "up"
  BY KeysTyped, UpBefore DEF Inv
<1>1. CASE WaitsFor(n, k)
  <2>1. Somewhere(HomeOf[k], n, NameOf[k])
    BY <1>0, <1>1 DEF WaiterStillListed, Somewhere, HeldIs
  <2> QED
    BY <1>0, <2>1, RequestsStay, PendingGrows, HeldStays DEF Somewhere
<1>2. CASE Send(KeyMessage(n, k))
  <2>1. KeyMessage(n, k) \in Message /\ proc'[n] = "up"
    BY MessageTypes DEF WaitsFor, At
  <2>2. /\ KeyMessage(n, k).kind = "KeyMessage" /\ KeyMessage(n, k).from = n
        /\ KeyMessage(n, k).name = NameOf[k] /\ KeyMessage(n, k).to = HomeOf[k]
    BY DEF KeyMessage, Msg
  <2>3. \E i \in DOMAIN backlog'[HomeOf[k]] : backlog'[HomeOf[k]][i] = KeyMessage(n, k)
    BY <1>0, <1>2, <2>1, <2>2, SendKeeps
  <2> QED
    BY <2>2, <2>3 DEF Requests, IsRequest, Somewhere
<1> QED
  BY <1>1, <1>2, WaitedBefore

(* Until its answer arrives, a waiter's request is queued or listed at the *)
(* home, if that is still up: no accept, append or crash loses it.         *)
THEOREM ListedCorrect == Spec => []WaiterStillListed
<1>1. Init => WaiterStillListed
  BY DEF Init, WaiterStillListed, WaitsFor, At
<1>2. Inv /\ WaiterStillListed /\ [Next]_vars => (Inv /\ WaiterStillListed)'
  BY InvNext, ListedNext
<1> QED
  BY <1>1, <1>2, InvInit, PTL DEF Spec
=============================================================================
