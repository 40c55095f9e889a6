-------------------------- MODULE BlackboardProofs --------------------------
(***************************************************************************)
(* Proofs about KVStore where every Key is put once by its home: a waiting *)
(* node never takes an answer for another, and the store implements the    *)
(* board of module Blackboard, for any number of nodes, Keys, Values and   *)
(* calls of get and waitAndGet.                                            *)
(***************************************************************************)
EXTENDS KVStoreProofs

(* Every Key is put once, by its home as far as those who ask for it are   *)
(* concerned, and no two Keys of a home have the same name.                *)
PutOnce ==
    /\ PutBudget <= 1
    /\ \A k, j \in Keys : HomeOf[k] = HomeOf[j] /\ NameOf[k] = NameOf[j] => k = j
    /\ \A k \in Keys : Writers[k] \cap Waiters[k] \subseteq {HomeOf[k]}

(* Key k lives on node 0, which has not put it yet.                        *)
Unput(k) == HomeOf[k] = Server /\ puts[Server][k] = 0

DataAt(e, n) == e \in DOMAIN backlog[n] /\ backlog[n][e].kind = "Data"
NoData(n) == \A e \in DOMAIN backlog[n] : backlog[n][e].kind # "Data"

(* n is in the loop of waitAndGet for k, and its answer is not sent.       *)
Unanswered(n, k) == pc[n] = "recv" /\ cur[n] = k /\ NoData(n)

(* Who is gone has no queue; nobody but node 0 lists requests; node 0      *)
(* walks the list for a Key it has put; who waits for a Key has nothing    *)
(* under it.                                                               *)
Places ==
    /\ \A n \in Nodes : proc[n] # "up" => backlog[n] = << >>
    /\ \A n \in Nodes : n # Server => pending[n] = << >>
    /\ pc[Server] \in {"scan", "reply"} =>
          HomeOf[cur[Server]] = Server /\ puts[Server][cur[Server]] >= 1
    /\ \A n \in Nodes : pc[n] = "recv" => HomeOf[cur[n]] # n /\ kv[n][cur[n]] = None

(* What a node has under a Key it put there itself, or the home has put.   *)
Source ==
    \A n \in Nodes, k \in Keys : kv[n][k] # None =>
        \/ n \in Writers[k] /\ puts[n][k] >= 1
        \/ n # HomeOf[k] /\ puts[HomeOf[k]][k] >= 1

(* A Data is the only one in its queue, and answers the call its receiver  *)
(* is in.                                                                  *)
OneData ==
    \A n \in Nodes, e \in Nat : DataAt(e, n) =>
        /\ pc[n] = "recv" /\ HomeOf[cur[n]] = Server
        /\ puts[Server][cur[n]] >= 1
        /\ kv[Server][cur[n]] # None
        /\ backlog[n][e].val.src = kv[Server][cur[n]].src
        /\ \A f \in Nat : DataAt(f, n) => f = e

(* The requests the walk has still to answer are of different nodes, each  *)
(* of which waits for this answer.                                         *)
ToAnswer(e, n, k) ==
    /\ pc[Server] \in {"scan", "reply"} /\ cur[Server] = k
    /\ e \in pos[Server] .. len[Server]
    /\ IsRequest(pending[Server][e], n, NameOf[k])
    /\ proc[n] = "up"
WalkAhead ==
    \A k \in Keys, n \in Nodes, e \in Nat : ToAnswer(e, n, k) =>
        Unanswered(n, k) /\ \A f \in Nat : ToAnswer(f, n, k) => f = e

(* Before node 0 puts a Key of its own, a request for it is of a node that *)
(* waits, and is in one place.                                             *)
Once(q, n, nm) ==
    \A e, f \in DOMAIN q : IsRequest(q[e], n, nm) /\ IsRequest(q[f], n, nm) => e = f
BeforePut ==
    \A k \in Keys, n \in Nodes : Unput(k) /\ proc[n] = "up" =>
        /\ Somewhere(Server, n, NameOf[k]) => Unanswered(n, k)
        /\ Once(pending[Server], n, NameOf[k]) /\ Once(backlog[Server], n, NameOf[k])
        /\ ~(Requests(pending[Server], n, NameOf[k]) /\ Requests(backlog[Server], n, NameOf[k]))
        /\ HeldIs(Server, n, NameOf[k]) =>
              ~Requests(pending[Server], n, NameOf[k]) /\ ~Requests(backlog[Server], n, NameOf[k])

AnsweredOnce == Places /\ Source /\ OneData /\ WalkAhead /\ BeforePut

----------------------------------------------------------------------------
(* What PutOnce means for the counts, and what is typed in the walk.       *)
LEMMA OnePut ==
    ASSUME PutOnce, TypeOK, NEW n \in Nodes, NEW k \in Keys, puts[n][k] < PutBudget
    PROVE  puts[n][k] = 0
<1>1. puts[n][k] \in Nat /\ PutBudget \in Nat
  BY BoundsTyped DEF TypeOK
<1> QED
  BY <1>1 DEF PutOnce

(* The name of a request says which Key of its home it is for.             *)
LEMMA NameIsKey ==
    ASSUME PutOnce, NEW k \in Keys, NEW j \in Keys, NEW n, NEW x,
           HomeOf[j] = HomeOf[k], IsRequest(KeyMessage(x, j), n, NameOf[k])
    PROVE  j = k /\ n = x
BY DEF PutOnce, IsRequest, KeyMessage, Msg

(* A send: nobody comes back, who is gone has no queue, and what is new in *)
(* a queue is the message, at the end, at its receiver, who runs.          *)
LEMMA SendFrame ==
    ASSUME NEW m \in Message, Send(m), TypeOK, Places
    PROVE  /\ \A x \in Nodes : proc'[x] = "up" => proc[x] = "up"
           /\ \A x \in Nodes : proc'[x] # "up" => backlog'[x] = << >>
           /\ \A x \in Nodes : \A e \in DOMAIN backlog'[x] :
                 \/ e \in DOMAIN backlog[x] /\ backlog'[x][e] = backlog[x][e]
                 \/ x = m.to /\ backlog'[x][e] = m /\ e \notin DOMAIN backlog[x]
<1>1. m.to \in Nodes /\ m.from \in Nodes /\ \A x \in Nodes : backlog[x] \in Seq(Message)
  BY DEF Message, TypeOK
<1>2. CASE SendArrives(m)
  <2>1. /\ backlog'[m.to] = Append(backlog[m.to], m) /\ proc' = proc /\ proc[m.to] = "up"
        /\ \A x \in Nodes : x # m.to => backlog'[x] = backlog[x]
    BY <1>1, <1>2 DEF SendArrives, TypeOK
  <2>2. \A e \in DOMAIN backlog'[m.to] :
           \/ e \in DOMAIN backlog[m.to] /\ backlog'[m.to][e] = backlog[m.to][e]
           \/ backlog'[m.to][e] = m /\ e \notin DOMAIN backlog[m.to]
    BY <1>1, <2>1
  <2> QED
    BY <2>1, <2>2 DEF Places
<1>3. CASE SendFails(m)
  BY <1>1, <1>3 DEF SendFails, Leave, TypeOK, Places
<1> QED
  BY <1>2, <1>3 DEF Send

LEMMA LeaveFrame ==
    ASSUME NEW n \in Nodes, NEW how, how # "up", Leave(n, how), TypeOK, Places
    PROVE  /\ \A x \in Nodes : proc'[x] = "up" => proc[x] = "up"
           /\ \A x \in Nodes : proc'[x] # "up" => backlog'[x] = << >>
           /\ \A x \in Nodes : \A e \in DOMAIN backlog'[x] :
                 e \in DOMAIN backlog[x] /\ backlog'[x][e] = backlog[x][e]
BY DEF Leave, TypeOK, Places

(* The frame most steps keep to: they queue neither a Data nor a request   *)
(* for a Key node 0 has still to put, do not touch those Keys or who       *)
(* waits, and take the walk of node 0 no further back.                     *)
Bystanding ==
    /\ UNCHANGED <<pending, held>>
    /\ \A x \in Nodes : proc'[x] = "up" => proc[x] = "up"
    /\ \A x \in Nodes : proc'[x] # "up" => backlog'[x] = << >>
    /\ \A x \in Nodes : \A e \in DOMAIN backlog'[x] : backlog'[x][e].kind = "Data" =>
          e \in DOMAIN backlog[x] /\ backlog'[x][e] = backlog[x][e]
    /\ \A k \in Keys, n \in Nodes : Unput(k) /\ proc'[n] = "up" =>
          \A e \in DOMAIN backlog'[Server] : IsRequest(backlog'[Server][e], n, NameOf[k]) =>
              e \in DOMAIN backlog[Server] /\ backlog'[Server][e] = backlog[Server][e]
    /\ \A k \in Keys : HomeOf[k] = Server =>
          puts'[Server][k] = puts[Server][k] /\ kv'[Server][k] = kv[Server][k]
    /\ \A x \in Nodes : pc[x] = "recv" => pc'[x] = "recv" /\ cur'[x] = cur[x] /\ kv'[x] = kv[x]
    /\ \A x \in Nodes : pc'[x] = "recv" => pc[x] = "recv"
    /\ pc'[Server] \in {"scan", "reply"} =>
          /\ pc[Server] \in {"scan", "reply"} /\ cur'[Server] = cur[Server]
          /\ pos'[Server] >= pos[Server] /\ len'[Server] = len[Server]

LEMMA BystandingKeeps ==
    ASSUME Inv, Inv', AnsweredOnce, Bystanding, UNCHANGED <<kv, puts>> \/ Source'
    PROVE  AnsweredOnce'
<1>0. TypeOK /\ TypeOK' /\ Server \in Nodes
  BY ServerIsNode DEF Inv
<1>1. \A x \in Nodes : pc[x] = "recv" => cur[x] \in Keys
  BY <1>0 DEF TypeOK
<1>2. ASSUME NEW x \in Nodes, NoData(x) PROVE NoData(x)'
  BY <1>2 DEF Bystanding, NoData
<1>3. Source'
  BY DEF AnsweredOnce, Source
<1>4. Places'
  <2>1. \A n \in Nodes : pc'[n] = "recv" => HomeOf[cur'[n]] # n /\ kv'[n][cur'[n]] = None
    BY DEF Bystanding, AnsweredOnce, Places
  <2>2. pc'[Server] \in {"scan", "reply"} =>
            HomeOf[cur'[Server]] = Server /\ puts'[Server][cur'[Server]] >= 1
    <3>1. pc[Server] \in {"scan", "reply"} => cur[Server] \in Keys
      BY <1>0 DEF TypeOK
    <3> QED
      BY <3>1 DEF Bystanding, AnsweredOnce, Places
  <2> QED
    BY <2>1, <2>2 DEF Bystanding, AnsweredOnce, Places
<1>5. OneData'
  <2> SUFFICES ASSUME NEW n \in Nodes, NEW e \in Nat, DataAt(e, n)'
               PROVE  /\ pc'[n] = "recv" /\ HomeOf[cur'[n]] = Server
                      /\ puts'[Server][cur'[n]] >= 1
                      /\ kv'[Server][cur'[n]] # None
                      /\ backlog'[n][e].val.src = kv'[Server][cur'[n]].src
                      /\ \A f \in Nat : DataAt(f, n)' => f = e
    BY DEF OneData
  <2>1. \A f \in Nat : DataAt(f, n)' => DataAt(f, n) /\ backlog'[n][f] = backlog[n][f]
    BY DEF DataAt, Bystanding
  <2>2. /\ pc[n] = "recv" /\ HomeOf[cur[n]] = Server /\ puts[Server][cur[n]] >= 1
        /\ kv[Server][cur[n]] # None /\ backlog[n][e].val.src = kv[Server][cur[n]].src
        /\ \A f \in Nat : DataAt(f, n) => f = e
    BY <2>1 DEF AnsweredOnce, OneData
  <2>3. cur'[n] = cur[n] /\ pc'[n] = "recv" /\ cur[n] \in Keys
    BY <1>1, <2>2 DEF Bystanding
  <2>4. puts'[Server][cur[n]] = puts[Server][cur[n]] /\ kv'[Server][cur[n]] = kv[Server][cur[n]]
    BY <2>2, <2>3 DEF Bystanding
  <2> QED
    BY <2>1, <2>2, <2>3, <2>4
<1>6. ASSUME NEW n \in Nodes, NEW k \in Keys, Unanswered(n, k) PROVE Unanswered(n, k)'
  BY <1>2, <1>6 DEF Unanswered, Bystanding
<1>7. WalkAhead'
  <2>1. ASSUME NEW n \in Nodes, NEW k \in Keys, NEW e \in Nat, ToAnswer(e, n, k)'
        PROVE  ToAnswer(e, n, k)
    <3>1. /\ pos[Server] \in Nat /\ pos'[Server] \in Nat /\ len[Server] \in Nat
          /\ pos'[Server] >= pos[Server] /\ len'[Server] = len[Server]
          /\ e >= pos'[Server] /\ e <= len'[Server]
      BY <1>0, <2>1 DEF TypeOK, ToAnswer, Bystanding
    <3>2. e \in pos[Server] .. len[Server]
      BY <3>1
    <3> QED
      BY <2>1, <3>2 DEF ToAnswer, Bystanding
  <2> QED
    BY <1>6, <2>1 DEF AnsweredOnce, WalkAhead
<1>8. BeforePut'
  <2> SUFFICES ASSUME NEW k \in Keys, NEW n \in Nodes, Unput(k)', proc'[n] = "up"
               PROVE  /\ Somewhere(Server, n, NameOf[k])' => Unanswered(n, k)'
                      /\ Once(pending'[Server], n, NameOf[k])
                      /\ Once(backlog'[Server], n, NameOf[k])
                      /\ ~(/\ Requests(pending'[Server], n, NameOf[k])
                           /\ Requests(backlog'[Server], n, NameOf[k]))
                      /\ HeldIs(Server, n, NameOf[k])' =>
                            /\ ~Requests(pending'[Server], n, NameOf[k])
                            /\ ~Requests(backlog'[Server], n, NameOf[k])
    BY DEF BeforePut
  <2>1. Unput(k) /\ proc[n] = "up"
    BY DEF Unput, Bystanding
  <2>2. \A e \in DOMAIN backlog'[Server] : IsRequest(backlog'[Server][e], n, NameOf[k]) =>
            e \in DOMAIN backlog[Server] /\ backlog'[Server][e] = backlog[Server][e]
    BY <2>1 DEF Bystanding
  <2>3. /\ pending' = pending
        /\ HeldIs(Server, n, NameOf[k])' <=> HeldIs(Server, n, NameOf[k])
        /\ Requests(backlog'[Server], n, NameOf[k]) => Requests(backlog[Server], n, NameOf[k])
    BY <2>2 DEF Bystanding, HeldIs, Requests
  <2>4. Somewhere(Server, n, NameOf[k])' => Somewhere(Server, n, NameOf[k])
    BY <2>3 DEF Somewhere
  <2>5. Once(backlog[Server], n, NameOf[k]) => Once(backlog'[Server], n, NameOf[k])
    BY <2>2 DEF Once
  <2>6. /\ Somewhere(Server, n, NameOf[k]) => Unanswered(n, k)
        /\ Once(pending[Server], n, NameOf[k]) /\ Once(backlog[Server], n, NameOf[k])
        /\ ~(Requests(pending[Server], n, NameOf[k]) /\ Requests(backlog[Server], n, NameOf[k]))
        /\ HeldIs(Server, n, NameOf[k]) =>
              ~Requests(pending[Server], n, NameOf[k]) /\ ~Requests(backlog[Server], n, NameOf[k])
    BY <2>1 DEF AnsweredOnce, BeforePut
  <2> QED
    BY <1>6, <2>3, <2>4, <2>5, <2>6
<1> QED
  BY <1>3, <1>4, <1>5, <1>7, <1>8 DEF AnsweredOnce

(* The same of steps that send something else, or leave.                   *)
LEMMA SendBystands ==
    ASSUME Inv, AnsweredOnce, NEW m \in Message, Send(m), m.kind # "Data",
           m.to = Server => \A k \in Keys, n \in Nodes :
               Unput(k) /\ proc'[n] = "up" => ~IsRequest(m, n, NameOf[k])
    PROVE  /\ \A x \in Nodes : proc'[x] = "up" => proc[x] = "up"
           /\ \A x \in Nodes : proc'[x] # "up" => backlog'[x] = << >>
           /\ \A x \in Nodes : \A e \in DOMAIN backlog'[x] : backlog'[x][e].kind = "Data" =>
                 e \in DOMAIN backlog[x] /\ backlog'[x][e] = backlog[x][e]
           /\ \A k \in Keys, n \in Nodes : Unput(k) /\ proc'[n] = "up" =>
                 \A e \in DOMAIN backlog'[Server] : IsRequest(backlog'[Server][e], n, NameOf[k]) =>
                     e \in DOMAIN backlog[Server] /\ backlog'[Server][e] = backlog[Server][e]
BY SendFrame, ServerIsNode DEF Inv, AnsweredOnce

LEMMA LeaveBystands ==
    ASSUME Inv, AnsweredOnce, NEW n \in Nodes, NEW how, how # "up", Leave(n, how)
    PROVE  /\ \A x \in Nodes : proc'[x] = "up" => proc[x] = "up"
           /\ \A x \in Nodes : proc'[x] # "up" => backlog'[x] = << >>
           /\ \A x \in Nodes : \A e \in DOMAIN backlog'[x] : backlog'[x][e].kind = "Data" =>
                 e \in DOMAIN backlog[x] /\ backlog'[x][e] = backlog[x][e]
           /\ \A k \in Keys, y \in Nodes : Unput(k) /\ proc'[y] = "up" =>
                 \A e \in DOMAIN backlog'[Server] : IsRequest(backlog'[Server][e], y, NameOf[k]) =>
                     e \in DOMAIN backlog[Server] /\ backlog'[Server][e] = backlog[Server][e]
BY LeaveFrame, ServerIsNode DEF Inv, AnsweredOnce

LEMMA StayBystands ==
    ASSUME AnsweredOnce, UNCHANGED <<proc, backlog>>
    PROVE  /\ \A x \in Nodes : proc'[x] = "up" => proc[x] = "up"
           /\ \A x \in Nodes : proc'[x] # "up" => backlog'[x] = << >>
           /\ \A x \in Nodes : \A e \in DOMAIN backlog'[x] : backlog'[x][e].kind = "Data" =>
                 e \in DOMAIN backlog[x] /\ backlog'[x][e] = backlog[x][e]
           /\ \A k \in Keys, y \in Nodes : Unput(k) /\ proc'[y] = "up" =>
                 \A e \in DOMAIN backlog'[Server] : IsRequest(backlog'[Server][e], y, NameOf[k]) =>
                     e \in DOMAIN backlog[Server] /\ backlog'[Server][e] = backlog[Server][e]
BY DEF AnsweredOnce, Places

(* What happens to a Key and a thread when a put stores the Value.         *)
LEMMA PutStores ==
    ASSUME Inv, AnsweredOnce, NEW n \in Nodes, NEW k \in Keys, NEW v, n \in Writers[k],
           kv' = [kv EXCEPT ![n][k] = v], puts' = [puts EXCEPT ![n][k] = @ + 1]
    PROVE  /\ Source'
           /\ kv'[n][k] = v /\ puts'[n][k] = puts[n][k] + 1
           /\ \A x \in Nodes, j \in Keys : x # n \/ j # k =>
                 kv'[x][j] = kv[x][j] /\ puts'[x][j] = puts[x][j]
           /\ \A x \in Nodes : x # n => kv'[x] = kv[x]
<1>0. TypeOK /\ \A x \in Nodes, j \in Keys : puts[x][j] \in Nat
  BY DEF Inv, TypeOK
<1>1. /\ kv'[n][k] = v /\ puts'[n][k] = puts[n][k] + 1
      /\ \A x \in Nodes, j \in Keys : x # n \/ j # k =>
            kv'[x][j] = kv[x][j] /\ puts'[x][j] = puts[x][j]
      /\ \A x \in Nodes : x # n => kv'[x] = kv[x]
  BY <1>0 DEF TypeOK
<1>2. \A x \in Nodes, j \in Keys : puts[x][j] >= 1 => puts'[x][j] >= 1
  BY <1>0, <1>1
<1>3. puts'[n][k] >= 1 /\ HomeOf \in [Keys -> Nodes]
  BY <1>0, <1>1, KeysTyped
<1> QED
  BY <1>1, <1>2, <1>3 DEF AnsweredOnce, Source

LEMMA PutAwayKeeps ==
    ASSUME Inv, Inv', AnsweredOnce, NEW n \in Nodes, NEW k \in Keys, NEW v,
           PutAway(n, k, v) \/ (PutHome(n, k, v) /\ n # Server)
    PROVE  AnsweredOnce'
<1>0. TypeOK /\ Server \in Nodes
  BY ServerIsNode DEF Inv
<1>1. /\ At(n, "idle") /\ n \in Writers[k] /\ (n = Server => HomeOf[k] # n)
      /\ kv' = [kv EXCEPT ![n][k] = [src |-> v, intact |-> TRUE]]
      /\ puts' = [puts EXCEPT ![n][k] = @ + 1]
      /\ UNCHANGED <<proc, backlog, pending, held>>
  BY DEF PutAway, PutHome
<1>2. /\ Source'
      /\ \A x \in Nodes, j \in Keys : x # n \/ j # k =>
            kv'[x][j] = kv[x][j] /\ puts'[x][j] = puts[x][j]
      /\ \A x \in Nodes : x # n => kv'[x] = kv[x]
  BY <1>1, PutStores
<1>3. /\ \A x \in Nodes : x # n => /\ pc'[x] = pc[x] /\ cur'[x] = cur[x] /\ pos'[x] = pos[x]
                                   /\ len'[x] = len[x]
      /\ pc[n] = "idle" /\ pc'[n] # "recv" /\ (n = Server => pc'[n] = "idle")
  BY <1>0, <1>1 DEF PutAway, PutHome, Goto, At, TypeOK
<1>4. \A j \in Keys : HomeOf[j] = Server =>
          puts'[Server][j] = puts[Server][j] /\ kv'[Server][j] = kv[Server][j]
  BY <1>0, <1>1, <1>2
<1>5. /\ \A x \in Nodes : pc[x] = "recv" => pc'[x] = "recv" /\ cur'[x] = cur[x] /\ kv'[x] = kv[x]
      /\ \A x \in Nodes : pc'[x] = "recv" => pc[x] = "recv"
  BY <1>2, <1>3
<1>6. pc'[Server] \in {"scan", "reply"} =>
          /\ pc[Server] \in {"scan", "reply"} /\ cur'[Server] = cur[Server]
          /\ pos'[Server] >= pos[Server] /\ len'[Server] = len[Server]
  BY <1>0, <1>3 DEF TypeOK
<1>7. Bystanding
  BY <1>1, <1>4, <1>5, <1>6, StayBystands DEF Bystanding
<1> QED
  BY <1>2, <1>7, BystandingKeeps

(* A thread that goes elsewhere than into a walk or a wait, and whatever   *)
(* it sends, bystands.                                                     *)
LEMMA GoesElsewhere ==
    ASSUME Inv, NEW n \in Nodes, NEW label, label \notin {"scan", "reply", "recv"},
           pc[n] # "recv", Goto(n, label), UNCHANGED <<kv, puts, pos, len>>,
           \A x \in Nodes : x # n => cur'[x] = cur[x]
    PROVE  /\ \A x \in Nodes : pc[x] = "recv" => pc'[x] = "recv" /\ cur'[x] = cur[x] /\ kv'[x] = kv[x]
           /\ \A x \in Nodes : pc'[x] = "recv" => pc[x] = "recv"
           /\ pc'[Server] \in {"scan", "reply"} =>
                 /\ pc[Server] \in {"scan", "reply"} /\ cur'[Server] = cur[Server]
                 /\ pos'[Server] >= pos[Server] /\ len'[Server] = len[Server]
           /\ \A k \in Keys : HomeOf[k] = Server =>
                 puts'[Server][k] = puts[Server][k] /\ kv'[Server][k] = kv[Server][k]
<1>1. TypeOK /\ pos[Server] \in Nat
  BY ServerIsNode DEF Inv, TypeOK
<1>2. pc'[n] = label /\ \A x \in Nodes : x # n => pc'[x] = pc[x]
  BY <1>1 DEF Goto, TypeOK
<1> QED
  BY <1>1, <1>2, ServerIsNode

LEMMA NoRequest ==
    ASSUME NEW m \in Message, m.kind # "KeyMessage"
    PROVE  \A n, nm : ~IsRequest(m, n, nm)
BY DEF IsRequest

LEMMA QuietKeeps ==
    ASSUME Inv, Inv', AnsweredOnce, NEW n \in Nodes,
           \/ ScanSkip(n) \/ ScanMatch(n) \/ PutDone(n) \/ Wake(n) \/ RecvOther(n) \/ Load(n)
           \/ ScanFreed(n) \/ Exit(n) \/ \E k \in Keys : Get(n, k)
    PROVE  AnsweredOnce'
<1>0. TypeOK /\ Server \in Nodes /\ pos[Server] \in Nat /\ pos[n] \in Nat
  BY ServerIsNode DEF Inv, TypeOK
<1> SUFFICES Bystanding /\ UNCHANGED <<kv, puts>>
  BY BystandingKeeps
<1>1. CASE ScanSkip(n)
  <2>1. /\ UNCHANGED <<proc, pc, cur, len, kv, backlog, pending, held, puts>>
        /\ pos'[Server] >= pos[Server]
    BY <1>0, <1>1 DEF ScanSkip, TypeOK
  <2> QED
    BY <2>1, StayBystands DEF Bystanding
<1>2. CASE ScanMatch(n)
  <2>1. /\ Send(PutMessage(n)) /\ UNCHANGED <<cur, pos, len, kv, pending, held, puts>>
        /\ pc[n] = "scan" /\ pc'[n] = "reply" /\ \A x \in Nodes : x # n => pc'[x] = pc[x]
    BY <1>0, <1>2 DEF ScanMatch, At, Goto, TypeOK
  <2>2. PutMessage(n) \in Message /\ PutMessage(n).kind = "Put"
    BY MessageTypes DEF PutMessage, Msg
  <2>3. pos'[Server] >= pos[Server]
    BY <1>0, <2>1
  <2> QED
    BY <1>0, <2>1, <2>2, <2>3, NoRequest, SendBystands DEF Bystanding
<1>3. CASE PutDone(n)
  <2>1. /\ UNCHANGED <<proc, cur, pos, len, kv, backlog, pending, held, puts>>
        /\ Goto(n, "idle") /\ pc[n] = "scan"
    BY <1>3 DEF PutDone, At
  <2> QED
    BY <1>0, <2>1, GoesElsewhere, StayBystands DEF Bystanding
<1>4. CASE Wake(n)
  <2>1. /\ UNCHANGED <<cur, pos, len, kv, pending, held, puts>> /\ pc[n] = "cvwait"
        /\ \E label \in {"load", "idle"} : Goto(n, label)
        /\ UNCHANGED <<proc, backlog>> \/ Send(GetMessage(n, cur[n]))
    BY <1>4 DEF Wake, At
  <2>2. cur[n] \in Keys
    BY <1>0, <2>1 DEF TypeOK
  <2>3. GetMessage(n, cur[n]) \in Message /\ GetMessage(n, cur[n]).kind = "Get"
    BY <2>2, MessageTypes DEF GetMessage, Msg
  <2>4. PICK label \in {"load", "idle"} : Goto(n, label)
    BY <2>1
  <2>5. CASE UNCHANGED <<proc, backlog>>
    BY <1>0, <2>1, <2>4, <2>5, GoesElsewhere, StayBystands DEF Bystanding
  <2>6. CASE Send(GetMessage(n, cur[n]))
    BY <1>0, <2>1, <2>3, <2>4, <2>6, GoesElsewhere, NoRequest, SendBystands DEF Bystanding
  <2> QED
    BY <2>1, <2>5, <2>6
<1>5. CASE RecvOther(n) \/ ScanFreed(n) \/ Exit(n)
  <2>1. /\ UNCHANGED <<pc, cur, pos, len, kv, pending, held, puts>>
        /\ \E how \in {"crashed", "exited"} : Leave(n, how)
    BY <1>5 DEF RecvOther, ScanFreed, Exit
  <2>2. pos'[Server] >= pos[Server]
    BY <1>0, <2>1
  <2> QED
    BY <2>1, <2>2, LeaveBystands DEF Bystanding
<1>6. CASE Load(n)
  <2>1. /\ UNCHANGED <<cur, pos, len, kv, pending, held, puts>> /\ pc[n] = "load" /\ Goto(n, "idle")
    BY <1>6, Zenon DEF Load, At
  <2>2. UNCHANGED <<proc, backlog>> \/ Leave(n, "crashed")
    BY <1>6, Zenon DEF Load
  <2>3. CASE UNCHANGED <<proc, backlog>>
    BY <1>0, <2>1, <2>3, GoesElsewhere, StayBystands DEF Bystanding
  <2>4. CASE Leave(n, "crashed")
    BY <1>0, <2>1, <2>4, GoesElsewhere, LeaveBystands DEF Bystanding
  <2> QED
    BY <2>2, <2>3, <2>4
<1>7. ASSUME NEW k \in Keys, Get(n, k) PROVE Bystanding /\ UNCHANGED <<kv, puts>>
  <2>1. /\ UNCHANGED <<proc, pos, len, kv, backlog, pending, held, puts>> /\ pc[n] = "idle"
        /\ Goto(n, "cvwait") /\ \A x \in Nodes : x # n => cur'[x] = cur[x]
    BY <1>0, <1>7 DEF Get, At, TypeOK
  <2> QED
    BY <1>0, <2>1, GoesElsewhere, StayBystands DEF Bystanding
<1> QED
  BY <1>1, <1>2, <1>3, <1>4, <1>5, <1>6, <1>7

(* Node 0 puts a Key of its own: the requests for it that are listed are   *)
(* of waiting nodes, each once; no Data for that Key is on its way.        *)
LEMMA ServerPutKeeps ==
    ASSUME PutOnce, Inv, Inv', AnsweredOnce, NEW k \in Keys, NEW v, PutHome(Server, k, v)
    PROVE  AnsweredOnce'
<1>0. TypeOK /\ Server \in Nodes
  BY ServerIsNode DEF Inv
<1>1. /\ pc[Server] = "idle" /\ Server \in Writers[k] /\ HomeOf[k] = Server
      /\ puts[Server][k] = 0
      /\ kv' = [kv EXCEPT ![Server][k] = [src |-> v, intact |-> TRUE]]
      /\ puts' = [puts EXCEPT ![Server][k] = @ + 1]
      /\ UNCHANGED <<proc, backlog, pending, held>>
  BY <1>0, OnePut DEF PutHome, At
<1>2. /\ Source' /\ puts'[Server][k] = 1
      /\ \A x \in Nodes, j \in Keys : x # Server \/ j # k =>
            kv'[x][j] = kv[x][j] /\ puts'[x][j] = puts[x][j]
      /\ \A x \in Nodes : x # Server => kv'[x] = kv[x]
  <2> DEFINE w == [src |-> v, intact |-> TRUE]
  <2>1. /\ kv' = [kv EXCEPT ![Server][k] = w] /\ puts' = [puts EXCEPT ![Server][k] = @ + 1]
        /\ Server \in Nodes /\ Server \in Writers[k]
    BY <1>0, <1>1
  <2> HIDE DEF w
  <2>2. /\ Source' /\ puts'[Server][k] = puts[Server][k] + 1
        /\ \A x \in Nodes, j \in Keys : x # Server \/ j # k =>
              kv'[x][j] = kv[x][j] /\ puts'[x][j] = puts[x][j]
        /\ \A x \in Nodes : x # Server => kv'[x] = kv[x]
    BY <2>1, PutStores
  <2> QED
    BY <1>1, <2>2
<1>3. /\ \A x \in Nodes : x # Server => pc'[x] = pc[x] /\ cur'[x] = cur[x]
      /\ pc'[Server] = "scan" /\ cur'[Server] = k
      /\ pos'[Server] = 1 /\ len'[Server] = Len(pending[Server])
  BY <1>0 DEF PutHome, Goto, TypeOK
<1>4. \A x \in Nodes : pc[x] = "recv" => x # Server /\ cur[x] \in Keys
  BY <1>0, <1>1 DEF TypeOK
<1>5. Places'
  BY <1>1, <1>2, <1>3, <1>4 DEF AnsweredOnce, Places
<1>6. OneData'
  <2> SUFFICES ASSUME NEW n \in Nodes, NEW e \in Nat, DataAt(e, n)
               PROVE  /\ pc'[n] = "recv" /\ HomeOf[cur'[n]] = Server
                      /\ puts'[Server][cur'[n]] >= 1
                      /\ kv'[Server][cur'[n]] # None
                      /\ backlog[n][e].val.src = kv'[Server][cur'[n]].src
                      /\ \A f \in Nat : DataAt(f, n) => f = e
    BY <1>1 DEF OneData, DataAt
  <2>1. /\ pc[n] = "recv" /\ HomeOf[cur[n]] = Server /\ puts[Server][cur[n]] >= 1
        /\ kv[Server][cur[n]] # None /\ backlog[n][e].val.src = kv[Server][cur[n]].src
        /\ \A f \in Nat : DataAt(f, n) => f = e
    BY DEF AnsweredOnce, OneData
  <2>2. cur[n] # k /\ cur[n] \in Keys /\ n # Server
    BY <1>1, <1>4, <2>1
  <2> QED
    BY <1>0, <1>2, <1>3, <2>1, <2>2
<1>7. ASSUME NEW n \in Nodes, NEW j \in Keys, Unanswered(n, j) PROVE Unanswered(n, j)'
  BY <1>1, <1>3, <1>7 DEF Unanswered, NoData
<1>8. WalkAhead'
  <2> SUFFICES ASSUME NEW j \in Keys, NEW n \in Nodes, NEW e \in Nat, ToAnswer(e, n, j)'
               PROVE  /\ Unanswered(n, j)'
                      /\ \A f \in Nat : ToAnswer(f, n, j)' => f = e
    BY DEF WalkAhead
  <2>1. \A f \in Nat : ToAnswer(f, n, j)' =>
            f \in DOMAIN pending[Server] /\ IsRequest(pending[Server][f], n, NameOf[j])
    BY <1>0, <1>1, <1>3 DEF ToAnswer, TypeOK
  <2>2. j = k /\ proc[n] = "up" /\ Unput(k)
    BY <1>1, <1>3 DEF ToAnswer, Unput
  <2>3. Unanswered(n, k) /\ Once(pending[Server], n, NameOf[k])
    BY <2>1, <2>2 DEF AnsweredOnce, BeforePut, Somewhere, Requests
  <2> QED
    BY <1>7, <2>1, <2>2, <2>3 DEF Once
<1>9. BeforePut'
  <2> SUFFICES ASSUME NEW j \in Keys, NEW n \in Nodes, Unput(j)', proc'[n] = "up"
               PROVE  /\ Somewhere(Server, n, NameOf[j])' => Unanswered(n, j)'
                      /\ Once(pending'[Server], n, NameOf[j])
                      /\ Once(backlog'[Server], n, NameOf[j])
                      /\ ~(/\ Requests(pending'[Server], n, NameOf[j])
                           /\ Requests(backlog'[Server], n, NameOf[j]))
                      /\ HeldIs(Server, n, NameOf[j])' =>
                            /\ ~Requests(pending'[Server], n, NameOf[j])
                            /\ ~Requests(backlog'[Server], n, NameOf[j])
    BY DEF BeforePut
  <2>1. Unput(j) /\ proc[n] = "up"
    BY <1>0, <1>1, <1>2 DEF Unput
  <2>2. /\ Somewhere(Server, n, NameOf[j])' <=> Somewhere(Server, n, NameOf[j])
        /\ HeldIs(Server, n, NameOf[j])' <=> HeldIs(Server, n, NameOf[j])
    BY <1>1 DEF Somewhere, HeldIs
  <2> QED
    BY <1>1, <1>7, <2>1, <2>2 DEF AnsweredOnce, BeforePut
<1> QED
  BY <1>2, <1>5, <1>6, <1>8, <1>9 DEF AnsweredOnce

(* The answer goes to a node that waits for it and has no other, and the   *)
(* walk passes the request.                                                *)
LEMMA ReplyKeeps ==
    ASSUME PutOnce, Inv, Inv', AnsweredOnce, NEW s \in Nodes, Reply(s)
    PROVE  AnsweredOnce'
<1>0. TypeOK /\ Server \in Nodes
  BY ServerIsNode DEF Inv
<1>1. s = Server
  <2>1. pos[s] >= 1 /\ len[s] <= Len(pending[s]) /\ pos[s] <= len[s] /\ pos[s] \in Nat /\ len[s] \in Nat
    BY <1>0 DEF Reply, At, Inv, WalkInBounds, TypeOK
  <2> QED
    BY <2>1 DEF AnsweredOnce, Places
<1> DEFINE p == pos[Server]
           k == cur[Server]
           r == pending[Server][p]
           m == DataMessage(Server, r, kv[Server][k])
<1>2. /\ p \in Nat /\ p >= 1 /\ p <= len[Server] /\ len[Server] <= Len(pending[Server])
      /\ len[Server] \in Nat
      /\ r \in Message /\ Matches(r, k) /\ k \in Keys /\ kv[Server][k] # None
      /\ kv[Server][k] \in Stored
  BY <1>0, <1>1 DEF Reply, At, Inv, WalkInBounds, TypeOK
<1>3. PICK t \in Nodes : t = r.from /\ IsRequest(r, t, NameOf[k])
  BY <1>2 DEF Message, Matches, IsRequest
<1>4. m \in Message /\ m.kind = "Data" /\ m.to = t /\ m.from = Server /\ m.val = kv[Server][k]
  BY <1>0, <1>2, <1>3, MessageTypes DEF DataMessage, Msg
<1>5. /\ Send(m) /\ pc[Server] = "reply" /\ pc'[Server] = "scan"
      /\ \A x \in Nodes : x # Server => pc'[x] = pc[x]
      /\ pos'[Server] = p + 1
      /\ UNCHANGED <<cur, len, kv, pending, held, puts>>
  BY <1>0, <1>1 DEF Reply, At, Goto, TypeOK
<1> HIDE DEF p, k, r, m
<1>6. CASE SendFails(m)
  <2>1. Leave(Server, "crashed")
    BY <1>4, <1>6 DEF SendFails
  <2>2. pos'[Server] >= pos[Server]
    BY <1>2, <1>5 DEF p
  <2>3. Bystanding
    BY <1>0, <1>5, <2>1, <2>2, LeaveBystands DEF Bystanding
  <2> QED
    BY <1>5, <2>3, BystandingKeeps
<1>7. CASE SendArrives(m)
  <2>1. /\ proc[t] = "up" /\ proc' = proc /\ backlog'[t] = Append(backlog[t], m)
        /\ \A x \in Nodes : x # t => backlog'[x] = backlog[x]
        /\ backlog[t] \in Seq(Message)
    BY <1>0, <1>3, <1>4, <1>7 DEF SendArrives, TypeOK
  <2>2. ToAnswer(p, t, k)
    BY <1>2, <1>3, <1>5, <2>1 DEF ToAnswer, k, p, r
  <2>3. Unanswered(t, k) /\ \A f \in Nat : ToAnswer(f, t, k) => f = p
    BY <1>2, <1>3, <2>2 DEF AnsweredOnce, WalkAhead
  <2>4. HomeOf[k] = Server /\ puts[Server][k] >= 1 /\ t # Server
    BY <1>5, <2>3 DEF AnsweredOnce, Places, Unanswered, k
  <2>5. \A x \in Nodes : x # Server => pc'[x] = pc[x] /\ cur'[x] = cur[x]
    BY <1>5
  <2>6. ASSUME NEW x \in Nodes, NEW j \in Keys, x # t, Unanswered(x, j) PROVE Unanswered(x, j)'
    <3>1. x # Server
      BY <1>5, <2>6 DEF Unanswered
    <3> QED
      BY <2>1, <2>5, <2>6, <3>1 DEF Unanswered, NoData
  <2>7. Places' /\ Source'
    <3>1. pc[Server] = "reply" /\ \A x \in Nodes : pc'[x] = "recv" => pc[x] = "recv"
      BY <1>5
    <3> QED
      BY <1>5, <2>1, <2>5, <3>1 DEF AnsweredOnce, Places, Source
  <2>8. OneData'
    <3> SUFFICES ASSUME NEW n \in Nodes, NEW e \in Nat, DataAt(e, n)'
                 PROVE  /\ pc'[n] = "recv" /\ HomeOf[cur[n]] = Server
                        /\ puts[Server][cur[n]] >= 1
                        /\ kv[Server][cur[n]] # None
                        /\ backlog'[n][e].val.src = kv[Server][cur[n]].src
                        /\ \A f \in Nat : DataAt(f, n)' => f = e
      BY <1>5 DEF OneData
    <3>1. CASE n = t
      <4>1. \A f \in Nat : DataAt(f, t)' => f = Len(backlog[t]) + 1 /\ backlog'[t][f] = m
        BY <2>1, <2>3 DEF DataAt, Unanswered, NoData
      <4> QED
        BY <1>2, <1>4, <2>3, <2>4, <2>5, <3>1, <4>1 DEF Unanswered
    <3>2. CASE n # t
      <4>1. \A f \in Nat : DataAt(f, n)' <=> DataAt(f, n)
        BY <2>1, <3>2 DEF DataAt
      <4>2. backlog'[n] = backlog[n]
        BY <2>1, <3>2
      <4>3. n # Server
        BY <1>5, <4>1 DEF AnsweredOnce, OneData
      <4> QED
        BY <2>5, <4>1, <4>2, <4>3 DEF AnsweredOnce, OneData
    <3> QED
      BY <3>1, <3>2
  <2>9. WalkAhead'
    <3> SUFFICES ASSUME NEW j \in Keys, NEW n \in Nodes, NEW e \in Nat, ToAnswer(e, n, j)'
                 PROVE  /\ Unanswered(n, j)'
                        /\ \A f \in Nat : ToAnswer(f, n, j)' => f = e
      BY DEF WalkAhead
    <3>1. \A f \in Nat : ToAnswer(f, n, j)' => ToAnswer(f, n, j) /\ f > p
      BY <1>2, <1>5, <2>1 DEF ToAnswer, p
    <3>2. j = k
      BY <3>1 DEF ToAnswer, k
    <3>3. n # t
      BY <1>2, <2>3, <3>1, <3>2
    <3>4. Unanswered(n, j) /\ \A f \in Nat : ToAnswer(f, n, j) => f = e
      BY <3>1 DEF AnsweredOnce, WalkAhead
    <3> QED
      BY <2>6, <3>1, <3>3, <3>4
  <2>10. BeforePut'
    <3> SUFFICES ASSUME NEW j \in Keys, NEW n \in Nodes, Unput(j)', proc'[n] = "up"
                 PROVE  /\ Somewhere(Server, n, NameOf[j])' => Unanswered(n, j)'
                        /\ Once(pending'[Server], n, NameOf[j])
                        /\ Once(backlog'[Server], n, NameOf[j])
                        /\ ~(/\ Requests(pending'[Server], n, NameOf[j])
                             /\ Requests(backlog'[Server], n, NameOf[j]))
                        /\ HeldIs(Server, n, NameOf[j])' =>
                              /\ ~Requests(pending'[Server], n, NameOf[j])
                              /\ ~Requests(backlog'[Server], n, NameOf[j])
      BY DEF BeforePut
    <3>1. Unput(j) /\ proc[n] = "up" /\ backlog'[Server] = backlog[Server]
      BY <1>0, <1>5, <2>1, <2>4 DEF Unput
    <3>2. /\ Somewhere(Server, n, NameOf[j])' <=> Somewhere(Server, n, NameOf[j])
          /\ HeldIs(Server, n, NameOf[j])' <=> HeldIs(Server, n, NameOf[j])
      BY <1>5, <3>1 DEF Somewhere, HeldIs
    <3>3. Somewhere(Server, n, NameOf[j]) => Unanswered(n, j)
      BY <3>1 DEF AnsweredOnce, BeforePut
    <3>4. n = t => ~Unanswered(n, j)
      BY <2>3, <2>4, <3>1 DEF Unanswered, Unput
    <3> QED
      BY <1>5, <2>6, <3>1, <3>2, <3>3, <3>4 DEF AnsweredOnce, BeforePut
  <2> QED
    BY <2>7, <2>8, <2>9, <2>10 DEF AnsweredOnce
<1> QED
  BY <1>5, <1>6, <1>7 DEF Send

(* A node asks for a Key: if it has to wait, no earlier request of its own *)
(* is at the home; if it has a copy, the home has put the Key.             *)
LEMMA AskKeeps ==
    ASSUME PutOnce, Inv, Inv', AnsweredOnce, NEW n \in Nodes, NEW k \in Keys, WaitAndGet(n, k)
    PROVE  AnsweredOnce'
<1>0. TypeOK /\ Server \in Nodes /\ pos[Server] \in Nat
  BY ServerIsNode DEF Inv, TypeOK
<1> DEFINE m == KeyMessage(n, k)
<1>1. /\ pc[n] = "idle" /\ n \in Waiters[k] /\ proc[n] = "up"
      /\ UNCHANGED <<pos, len, kv, pending, held, puts>>
      /\ cur'[n] = k /\ \A x \in Nodes : x # n => cur'[x] = cur[x]
  BY <1>0 DEF WaitAndGet, At, TypeOK
<1>2. /\ m \in Message /\ m.kind = "KeyMessage" /\ m.from = n /\ m.to = HomeOf[k]
      /\ IsRequest(m, n, NameOf[k])
  BY MessageTypes DEF KeyMessage, Msg, IsRequest
<1>3. CASE HomeOf[k] = n
  <2>1. Goto(n, "cvwait") /\ UNCHANGED <<proc, backlog>>
    BY <1>3 DEF WaitAndGet
  <2>2. Bystanding
    BY <1>0, <1>1, <2>1, GoesElsewhere, StayBystands DEF Bystanding
  <2> QED
    BY <1>1, <2>2, BystandingKeeps
<1>4. CASE HomeOf[k] # n /\ kv[n][k] # None
  <2>1. Goto(n, "load") /\ Send(m)
    BY <1>4 DEF WaitAndGet
  <2>2. puts[HomeOf[k]][k] >= 1
    BY <1>1, <1>4 DEF AnsweredOnce, Source, PutOnce
  <2>3. ASSUME NEW j \in Keys, NEW x \in Nodes, m.to = Server, Unput(j), IsRequest(m, x, NameOf[j])
        PROVE  FALSE
    <3>1. HomeOf[j] = HomeOf[k] /\ HomeOf[k] = Server
      BY <1>2, <2>3 DEF Unput
    <3>2. j = k
      BY <2>3, <3>1, NameIsKey
    <3>3. puts[Server][k] = 0
      BY <2>3, <3>2 DEF Unput
    <3> QED
      BY <2>2, <3>1, <3>3
  <2> HIDE DEF m
  <2>4. Bystanding
    BY <1>0, <1>1, <1>2, <2>1, <2>3, GoesElsewhere, SendBystands DEF Bystanding
  <2> QED
    BY <1>1, <2>4, BystandingKeeps
<1>5. CASE HomeOf[k] # n /\ kv[n][k] = None
  <2>1. Goto(n, "recv") /\ Send(m)
    BY <1>5 DEF WaitAndGet
  <2>2. \A j \in Keys : \A x :
            m.to = Server /\ HomeOf[j] = Server /\ IsRequest(m, x, NameOf[j]) => j = k /\ x = n
    BY <1>2, NameIsKey
  <2> HIDE DEF m
  <2>3. pc'[n] = "recv" /\ \A x \in Nodes : x # n => pc'[x] = pc[x] /\ cur'[x] = cur[x]
    BY <1>0, <1>1, <2>1 DEF Goto, TypeOK
  <2>4. /\ \A x \in Nodes : proc'[x] = "up" => proc[x] = "up"
        /\ \A x \in Nodes : proc'[x] # "up" => backlog'[x] = << >>
        /\ \A x \in Nodes : \A e \in DOMAIN backlog'[x] :
              \/ e \in DOMAIN backlog[x] /\ backlog'[x][e] = backlog[x][e]
              \/ x = m.to /\ backlog'[x][e] = m /\ e \notin DOMAIN backlog[x]
    BY <1>0, <1>2, <2>1, SendFrame DEF AnsweredOnce
  <2>5. \A x \in Nodes, e \in Nat : DataAt(e, x)' => DataAt(e, x) /\ backlog'[x][e] = backlog[x][e]
    BY <1>2, <2>4 DEF DataAt
  <2>6. NoData(n) /\ NoData(n)'
    <3>1. \A e \in DOMAIN backlog[n] : e \in Nat
      BY <1>0 DEF TypeOK
    <3>2. \A e \in DOMAIN backlog'[n] : e \in Nat
      BY DEF Inv, TypeOK
    <3>3. \A e \in Nat : ~DataAt(e, n)
      BY <1>1 DEF AnsweredOnce, OneData
    <3> QED
      BY <2>5, <3>1, <3>2, <3>3 DEF NoData, DataAt
  <2>7. \A x \in Nodes, j \in Keys : x # n /\ Unanswered(x, j) => Unanswered(x, j)'
    BY <1>2, <2>3, <2>4 DEF Unanswered, NoData
  <2>8. \A j \in Keys : ~Unanswered(n, j)
    BY <1>1 DEF Unanswered
  <2>9. Unanswered(n, k)'
    BY <1>1, <2>3, <2>6 DEF Unanswered
  <2>10. Source' /\ Places'
    <3>1. \A x \in Nodes : pc'[x] = "recv" => HomeOf[cur'[x]] # x /\ kv'[x][cur'[x]] = None
      BY <1>1, <1>5, <2>3 DEF AnsweredOnce, Places
    <3>2. pc'[Server] \in {"scan", "reply"} =>
              HomeOf[cur'[Server]] = Server /\ puts'[Server][cur'[Server]] >= 1
      BY <1>0, <1>1, <2>3 DEF AnsweredOnce, Places
    <3> QED
      BY <1>1, <2>4, <3>1, <3>2 DEF AnsweredOnce, Places, Source
  <2>11. OneData'
    <3> SUFFICES ASSUME NEW x \in Nodes, NEW e \in Nat, DataAt(e, x)'
                 PROVE  /\ pc'[x] = "recv" /\ HomeOf[cur'[x]] = Server
                        /\ puts[Server][cur'[x]] >= 1
                        /\ kv[Server][cur'[x]] # None
                        /\ backlog'[x][e].val.src = kv[Server][cur'[x]].src
                        /\ \A f \in Nat : DataAt(f, x)' => f = e
      BY <1>1 DEF OneData
    <3>1. DataAt(e, x) /\ backlog'[x][e] = backlog[x][e] /\ x # n
      BY <2>5, <2>6 DEF DataAt, NoData
    <3> QED
      BY <2>3, <2>5, <3>1 DEF AnsweredOnce, OneData
  <2>12. WalkAhead'
    <3> SUFFICES ASSUME NEW j \in Keys, NEW x \in Nodes, NEW e \in Nat, ToAnswer(e, x, j)'
                 PROVE  /\ Unanswered(x, j)'
                        /\ \A f \in Nat : ToAnswer(f, x, j)' => f = e
      BY DEF WalkAhead
    <3>1. n # Server /\ \A f \in Nat : ToAnswer(f, x, j)' => ToAnswer(f, x, j)
      BY <1>0, <1>1, <2>3, <2>4 DEF ToAnswer
    <3>2. Unanswered(x, j) /\ \A f \in Nat : ToAnswer(f, x, j) => f = e
      BY <3>1 DEF AnsweredOnce, WalkAhead
    <3> QED
      BY <2>7, <2>8, <3>1, <3>2
  <2>13. BeforePut'
    <3> SUFFICES ASSUME NEW j \in Keys, NEW x \in Nodes, Unput(j)', proc'[x] = "up"
                 PROVE  /\ Somewhere(Server, x, NameOf[j])' => Unanswered(x, j)'
                        /\ Once(pending'[Server], x, NameOf[j])
                        /\ Once(backlog'[Server], x, NameOf[j])
                        /\ ~(/\ Requests(pending'[Server], x, NameOf[j])
                             /\ Requests(backlog'[Server], x, NameOf[j]))
                        /\ HeldIs(Server, x, NameOf[j])' =>
                              /\ ~Requests(pending'[Server], x, NameOf[j])
                              /\ ~Requests(backlog'[Server], x, NameOf[j])
      BY DEF BeforePut
    <3>1. Unput(j) /\ proc[x] = "up"
      BY <1>1, <2>4 DEF Unput
    <3>2. HeldIs(Server, x, NameOf[j])' <=> HeldIs(Server, x, NameOf[j])
      BY <1>1 DEF HeldIs
    <3>3. /\ Somewhere(Server, x, NameOf[j]) => Unanswered(x, j)
          /\ Once(pending[Server], x, NameOf[j]) /\ Once(backlog[Server], x, NameOf[j])
          /\ ~(Requests(pending[Server], x, NameOf[j]) /\ Requests(backlog[Server], x, NameOf[j]))
          /\ HeldIs(Server, x, NameOf[j]) =>
                ~Requests(pending[Server], x, NameOf[j]) /\ ~Requests(backlog[Server], x, NameOf[j])
      BY <3>1 DEF AnsweredOnce, BeforePut
    <3>4. CASE x # n
      <4>1. \A e \in DOMAIN backlog'[Server] : IsRequest(backlog'[Server][e], x, NameOf[j]) =>
                e \in DOMAIN backlog[Server] /\ backlog'[Server][e] = backlog[Server][e]
        BY <1>0, <2>2, <2>4, <3>1, <3>4 DEF Unput
      <4>2. Requests(backlog'[Server], x, NameOf[j]) => Requests(backlog[Server], x, NameOf[j])
        BY <4>1 DEF Requests
      <4>3. Once(backlog'[Server], x, NameOf[j])
        BY <3>3, <4>1 DEF Once
      <4>4. Somewhere(Server, x, NameOf[j])' => Somewhere(Server, x, NameOf[j])
        BY <1>1, <3>2, <4>2 DEF Somewhere
      <4> QED
        BY <1>1, <2>7, <3>2, <3>3, <3>4, <4>2, <4>3, <4>4
    <3>5. CASE x = n
      <4>1. ~Somewhere(Server, n, NameOf[j])
        BY <2>8, <3>3, <3>5
      <4>2. \A e \in DOMAIN backlog'[Server] : IsRequest(backlog'[Server][e], n, NameOf[j]) =>
                j = k /\ backlog'[Server][e] = m /\ Server = m.to
        BY <1>0, <2>2, <2>4, <3>1, <4>1 DEF Unput, Somewhere, Requests
      <4>3. Once(backlog'[Server], n, NameOf[j])
        <5>1. CASE SendArrives(m) /\ m.to = Server
          <6>1. backlog'[Server] = Append(backlog[Server], m) /\ backlog[Server] \in Seq(Message)
            BY <1>0, <5>1 DEF SendArrives, TypeOK
          <6> QED
            BY <4>1, <6>1 DEF Once, Somewhere, Requests
        <5>2. CASE ~(SendArrives(m) /\ m.to = Server)
          <6>1. \A e \in DOMAIN backlog'[Server] :
                    e \in DOMAIN backlog[Server] /\ backlog'[Server][e] = backlog[Server][e]
            <7>1. CASE SendArrives(m)
              BY <1>0, <1>2, <5>2, <7>1 DEF SendArrives, TypeOK, Message
            <7>2. CASE SendFails(m)
              BY <1>0, <1>2, <7>2 DEF SendFails, Leave, TypeOK
            <7> QED
              BY <2>1, <7>1, <7>2 DEF Send
          <6> QED
            BY <4>1, <6>1 DEF Once, Somewhere, Requests
        <5> QED
          BY <5>1, <5>2
      <4>4. ~Requests(pending'[Server], n, NameOf[j]) /\ ~HeldIs(Server, n, NameOf[j])'
        BY <1>1, <3>2, <3>5, <4>1 DEF Somewhere
      <4>5. Somewhere(Server, n, NameOf[j])' => j = k
        BY <4>2, <4>4 DEF Somewhere, Requests
      <4>6. Once(pending'[Server], n, NameOf[j])
        BY <1>1, <3>3, <3>5
      <4> QED
        BY <2>9, <3>5, <4>3, <4>4, <4>5, <4>6
    <3> QED
      BY <3>4, <3>5
  <2> QED
    BY <2>10, <2>11, <2>12, <2>13 DEF AnsweredOnce
<1> QED
  BY <1>3, <1>4, <1>5

(* The Data a node accepts was the only one, and nothing the node asked    *)
(* for earlier is still to be answered.                                    *)
LEMMA RecvKeeps ==
    ASSUME Inv, Inv', AnsweredOnce, NEW n \in Nodes, RecvData(n)
    PROVE  /\ AnsweredOnce'
           /\ cur[n] \in Keys /\ HomeOf[cur[n]] = Server /\ n # Server
           /\ kv[n][cur[n]] = None /\ kv[Server][cur[n]] # None
           /\ Head(backlog[n]).val.src = kv[Server][cur[n]].src
           /\ Head(backlog[n]).val \in Stored
<1>0. TypeOK /\ Server \in Nodes /\ pos[Server] \in Nat
  BY ServerIsNode DEF Inv, TypeOK
<1>1. /\ pc[n] = "recv" /\ backlog[n] # << >> /\ Head(backlog[n]).kind = "Data"
      /\ UNCHANGED <<proc, cur, pos, len, pending, held, puts>> /\ backlog[n] \in Seq(Message)
      /\ cur[n] \in Keys
  BY <1>0 DEF RecvData, At, TypeOK
<1>2. /\ backlog'[n] = Tail(backlog[n]) /\ \A x \in Nodes : x # n => backlog'[x] = backlog[x]
      /\ pc'[n] = "load" /\ \A x \in Nodes : x # n => pc'[x] = pc[x]
      /\ \A x \in Nodes : x # n => kv'[x] = kv[x]
      /\ \A j \in Keys : j # cur[n] => kv'[n][j] = kv[n][j]
  BY <1>0 DEF RecvData, Goto, TypeOK
<1>3. DataAt(1, n) /\ Head(backlog[n]) = backlog[n][1] /\ Head(backlog[n]) \in Message
  BY <1>1 DEF DataAt
<1>4. /\ HomeOf[cur[n]] = Server /\ puts[Server][cur[n]] >= 1 /\ kv[Server][cur[n]] # None
      /\ Head(backlog[n]).val.src = kv[Server][cur[n]].src
      /\ \A f \in Nat : DataAt(f, n) => f = 1
  BY <1>3 DEF AnsweredOnce, OneData
<1>5. n # Server /\ kv[n][cur[n]] = None
  BY <1>1, <1>4 DEF AnsweredOnce, Places
<1>6. \A f \in Nat : ~DataAt(f, n)'
  <2>1. \A f \in DOMAIN Tail(backlog[n]) :
            f \in Nat /\ f + 1 \in DOMAIN backlog[n] /\ f + 1 # 1
            /\ Tail(backlog[n])[f] = backlog[n][f + 1]
    BY <1>1
  <2> QED
    BY <1>2, <1>4, <2>1 DEF DataAt
<1>7. \A j \in Keys : ~Unanswered(n, j)
  BY <1>3 DEF Unanswered, NoData, DataAt
<1>8. \A x \in Nodes, j \in Keys : Unanswered(x, j) => Unanswered(x, j)'
  BY <1>1, <1>2, <1>7 DEF Unanswered, NoData
<1>9. Places'
  <2>1. \A x \in Nodes : pc'[x] = "recv" => HomeOf[cur'[x]] # x /\ kv'[x][cur'[x]] = None
    BY <1>1, <1>2 DEF AnsweredOnce, Places
  <2>2. \A x \in Nodes : proc'[x] # "up" => backlog'[x] = << >>
    BY <1>1, <1>2 DEF AnsweredOnce, Places
  <2>3. pc'[Server] \in {"scan", "reply"} =>
            HomeOf[cur'[Server]] = Server /\ puts'[Server][cur'[Server]] >= 1
    BY <1>0, <1>1, <1>2, <1>5 DEF AnsweredOnce, Places
  <2> QED
    BY <1>1, <2>1, <2>2, <2>3 DEF AnsweredOnce, Places
<1>10. Source'
  BY <1>1, <1>2, <1>4, <1>5 DEF AnsweredOnce, Source
<1>11. OneData'
  <2> SUFFICES ASSUME NEW x \in Nodes, NEW e \in Nat, DataAt(e, x)'
               PROVE  /\ pc'[x] = "recv" /\ HomeOf[cur[x]] = Server
                      /\ puts[Server][cur[x]] >= 1
                      /\ kv'[Server][cur[x]] # None
                      /\ backlog'[x][e].val.src = kv'[Server][cur[x]].src
                      /\ \A f \in Nat : DataAt(f, x)' => f = e
    BY <1>1 DEF OneData
  <2>1. x # n
    BY <1>6
  <2>2. \A f \in Nat : DataAt(f, x)' <=> DataAt(f, x)
    BY <1>2, <2>1 DEF DataAt
  <2> QED
    BY <1>2, <1>5, <2>1, <2>2, <1>0 DEF AnsweredOnce, OneData
<1>12. WalkAhead'
  <2>1. \A e \in Nat, x \in Nodes, j \in Keys : ToAnswer(e, x, j)' => ToAnswer(e, x, j)
    BY <1>0, <1>1, <1>2, <1>5 DEF ToAnswer
  <2> QED
    BY <1>8, <2>1 DEF AnsweredOnce, WalkAhead
<1>13. BeforePut'
  <2>1. backlog'[Server] = backlog[Server]
    BY <1>0, <1>2, <1>5
  <2>2. \A x \in Nodes, j \in Keys :
            /\ Somewhere(Server, x, NameOf[j])' <=> Somewhere(Server, x, NameOf[j])
            /\ HeldIs(Server, x, NameOf[j])' <=> HeldIs(Server, x, NameOf[j])
            /\ Unput(j)' <=> Unput(j)
    BY <1>1, <2>1 DEF Somewhere, HeldIs, Unput
  <2> QED
    BY <1>1, <1>8, <2>1, <2>2 DEF AnsweredOnce, BeforePut
<1>14. Head(backlog[n]).val \in Stored
  BY <1>1, <1>3 DEF Message
<1> QED
  BY <1>1, <1>4, <1>5, <1>9, <1>10, <1>11, <1>12, <1>13, <1>14 DEF AnsweredOnce

(* The shape of BeforePut for one node and name, over what node 0 has in   *)
(* its queue, holds and lists: what the listener does to them.             *)
OncePlaced(q, b, h, n, nm) ==
    /\ Once(q, n, nm) /\ Once(b, n, nm)
    /\ ~(Requests(q, n, nm) /\ Requests(b, n, nm))
    /\ h # None /\ IsRequest(h, n, nm) => ~Requests(q, n, nm) /\ ~Requests(b, n, nm)

LEMMA AcceptPlaces ==
    ASSUME NEW q, NEW b \in Seq(Message), b # << >>, NEW n, NEW nm,
           OncePlaced(q, b, None, n, nm)
    PROVE  /\ OncePlaced(q, Tail(b), Head(b), n, nm)
           /\ Requests(Tail(b), n, nm) \/ IsRequest(Head(b), n, nm) => Requests(b, n, nm)
<1>1. Head(b) = b[1] /\ 1 \in DOMAIN b
  OBVIOUS
<1>2. \A e \in DOMAIN Tail(b) :
          e \in Nat /\ e + 1 \in DOMAIN b /\ e + 1 # 1 /\ Tail(b)[e] = b[e + 1]
  OBVIOUS
<1>3. Requests(Tail(b), n, nm) \/ IsRequest(Head(b), n, nm) => Requests(b, n, nm)
  BY <1>1, <1>2 DEF Requests
<1>4. IsRequest(Head(b), n, nm) => ~Requests(Tail(b), n, nm)
  BY <1>1, <1>2 DEF Requests, OncePlaced, Once
<1>5. Once(Tail(b), n, nm)
  <2> SUFFICES ASSUME NEW e \in DOMAIN Tail(b), NEW f \in DOMAIN Tail(b),
                      IsRequest(Tail(b)[e], n, nm), IsRequest(Tail(b)[f], n, nm)
               PROVE  e = f
    BY DEF Once
  <2>1. e + 1 = f + 1
    BY <1>2 DEF OncePlaced, Once
  <2> QED
    BY <1>2, <2>1
<1> QED
  BY <1>3, <1>4, <1>5 DEF OncePlaced

LEMMA AppendPlaces ==
    ASSUME NEW q \in Seq(Message), NEW b, NEW h \in Message, NEW n, NEW nm,
           OncePlaced(q, b, h, n, nm)
    PROVE  /\ OncePlaced(Append(q, h), b, None, n, nm)
           /\ Requests(Append(q, h), n, nm) => Requests(q, n, nm) \/ IsRequest(h, n, nm)
<1>1. h # None
  BY NoneIsNoMessage
<1>2. \A e \in DOMAIN Append(q, h) :
          \/ e \in DOMAIN q /\ Append(q, h)[e] = q[e]
          \/ e = Len(q) + 1 /\ Append(q, h)[e] = h
  OBVIOUS
<1>3. Requests(Append(q, h), n, nm) => Requests(q, n, nm) \/ IsRequest(h, n, nm)
  BY <1>2 DEF Requests
<1>4. Once(Append(q, h), n, nm)
  BY <1>1, <1>2 DEF OncePlaced, Once, Requests
<1> QED
  BY <1>1, <1>3, <1>4 DEF OncePlaced

LEMMA ListenKeeps ==
    ASSUME Inv, Inv', AnsweredOnce, Listen
    PROVE  AnsweredOnce'
<1>0. TypeOK /\ Server \in Nodes /\ proc[Server] = "up"
  BY ServerIsNode DEF Inv, Listen, ListenAccept, ListenAppend
<1> DEFINE q == pending[Server]
           b == backlog[Server]
<1>1. \A k \in Keys, n \in Nodes : Unput(k) /\ proc[n] = "up" =>
          /\ Somewhere(Server, n, NameOf[k]) => Unanswered(n, k)
          /\ OncePlaced(q, b, held, n, NameOf[k])
  BY DEF AnsweredOnce, BeforePut, OncePlaced, HeldIs
<1>2. /\ UNCHANGED <<proc, pc, cur, pos, len, kv, puts>>
      /\ \A x \in Nodes : x # Server => backlog'[x] = backlog[x] /\ pending'[x] = pending[x]
      /\ q \in Seq(Message) /\ b \in Seq(Message)
  BY <1>0 DEF TypeOK, Listen, ListenAccept, ListenAppend
<1>3. Source' /\ Places'
  BY <1>0, <1>2 DEF AnsweredOnce, Source, Places
<1>4. NoData(Server)
  <2>1. \A e \in DOMAIN b : e \in Nat
    BY <1>2
  <2>2. \A e \in Nat : ~DataAt(e, Server)
    BY <1>0 DEF AnsweredOnce, OneData, Places
  <2> QED
    BY <2>1, <2>2 DEF NoData, DataAt
<1>5. NoData(Server)'
  <2>1. CASE ListenAccept
    BY <1>0, <1>2, <1>4, <2>1 DEF ListenAccept, NoData, TypeOK
  <2>2. CASE ListenAppend
    BY <1>4, <2>2 DEF ListenAppend, NoData
  <2> QED
    BY <2>1, <2>2 DEF Listen
<1>6. \A n \in Nodes, k \in Keys : Unanswered(n, k) => Unanswered(n, k)'
  <2> TAKE n \in Nodes, k \in Keys
  <2>1. CASE n = Server
    BY <1>2, <1>5, <2>1 DEF Unanswered
  <2>2. CASE n # Server
    BY <1>2, <2>2 DEF Unanswered, NoData
  <2> QED
    BY <2>1, <2>2
<1>7. OneData'
  <2>1. \A n \in Nodes, e \in Nat : DataAt(e, n)' =>
            n # Server /\ DataAt(e, n) /\ backlog'[n] = backlog[n]
    BY <1>2, <1>5 DEF DataAt, NoData
  <2> QED
    BY <1>2, <2>1 DEF AnsweredOnce, OneData
<1>8. WalkAhead'
  <2>1. ASSUME NEW e \in Nat, NEW n \in Nodes, NEW k \in Keys, ToAnswer(e, n, k)'
        PROVE  ToAnswer(e, n, k)
    <3>1. /\ pos[Server] \in Nat /\ len[Server] \in Nat /\ pos[Server] >= 1
          /\ len[Server] <= Len(q) /\ e \in pos[Server] .. len[Server]
      BY <1>0, <1>2, <2>1 DEF ToAnswer, Inv, WalkInBounds, TypeOK
    <3>2. e \in DOMAIN q
      BY <1>2, <3>1
    <3>3. pending'[Server][e] = q[e]
      <4>1. CASE ListenAccept
        BY <4>1 DEF ListenAccept
      <4>2. CASE ListenAppend
        <5>1. pending'[Server] = Append(q, held)
          BY <1>0, <4>2 DEF ListenAppend, TypeOK
        <5> QED
          BY <1>2, <3>2, <5>1
      <4> QED
        BY <4>1, <4>2 DEF Listen
    <3> QED
      BY <1>2, <2>1, <3>3 DEF ToAnswer
  <2> QED
    BY <1>6, <2>1 DEF AnsweredOnce, WalkAhead
<1>9. BeforePut'
  <2>1. ASSUME NEW k \in Keys, NEW n \in Nodes, Unput(k), proc[n] = "up"
        PROVE  /\ Somewhere(Server, n, NameOf[k])' => Somewhere(Server, n, NameOf[k])
               /\ OncePlaced(pending'[Server], backlog'[Server], held', n, NameOf[k])
    <3> DEFINE nm == NameOf[k]
    <3>0. OncePlaced(q, b, held, n, nm)
      BY <1>1, <2>1
    <3>1. CASE ListenAccept
      <4>1. /\ held = None /\ b # << >> /\ held' = Head(b) /\ pending'[Server] = q
            /\ backlog'[Server] = Tail(b)
        BY <1>0, <3>1 DEF ListenAccept, TypeOK
      <4> HIDE DEF q, b, nm
      <4>2. /\ OncePlaced(q, Tail(b), Head(b), n, nm)
            /\ Requests(Tail(b), n, nm) \/ IsRequest(Head(b), n, nm) => Requests(b, n, nm)
        BY <1>2, <3>0, <4>1, AcceptPlaces
      <4>3. /\ OncePlaced(pending'[Server], backlog'[Server], held', n, nm)
            /\ Requests(pending'[Server], n, nm) => Requests(q, n, nm)
            /\ Requests(backlog'[Server], n, nm) => Requests(b, n, nm)
            /\ IsRequest(held', n, nm) => Requests(b, n, nm)
        BY <4>1, <4>2
      <4> QED
        BY <4>3 DEF Somewhere, HeldIs, q, b, nm
    <3>2. CASE ListenAppend
      <4>1. /\ held \in Message /\ held # None /\ held' = None
            /\ pending'[Server] = Append(q, held) /\ backlog'[Server] = b
        BY <1>0, <3>2 DEF ListenAppend, TypeOK
      <4> HIDE DEF q, b, nm
      <4>2. /\ OncePlaced(Append(q, held), b, None, n, nm)
            /\ Requests(Append(q, held), n, nm) => Requests(q, n, nm) \/ IsRequest(held, n, nm)
        BY <1>2, <3>0, <4>1, AppendPlaces
      <4>3. /\ OncePlaced(pending'[Server], backlog'[Server], held', n, nm)
            /\ Requests(pending'[Server], n, nm) => Requests(q, n, nm) \/ IsRequest(held, n, nm)
        BY <4>1, <4>2
      <4> QED
        BY <4>1, <4>3 DEF Somewhere, HeldIs, q, b, nm
    <3> QED
      BY <3>1, <3>2 DEF Listen
  <2>2. \A k \in Keys, n \in Nodes : Unput(k)' /\ proc'[n] = "up" =>
            /\ Unput(k) /\ proc[n] = "up"
            /\ Somewhere(Server, n, NameOf[k])' => Unanswered(n, k)'
            /\ OncePlaced(pending'[Server], backlog'[Server], held', n, NameOf[k])
    BY <1>1, <1>2, <1>6, <2>1 DEF Unput
  <2> QED
    BY <2>2 DEF BeforePut, OncePlaced, HeldIs
<1> QED
  BY <1>3, <1>7, <1>8, <1>9 DEF AnsweredOnce

----------------------------------------------------------------------------
LEMMA AnsweredOnceInit == Init => AnsweredOnce
<1> SUFFICES ASSUME Init PROVE AnsweredOnce
  OBVIOUS
<1>1. Server \in Nodes /\ pc[Server] = "idle" /\ \A n \in Nodes : pc[n] = "idle"
  BY ServerIsNode DEF Init
<1>2. /\ backlog = [n \in Nodes |-> << >>] /\ pending = [n \in Nodes |-> << >>]
      /\ held = None /\ \A n \in Nodes, k \in Keys : kv[n][k] = None
      /\ \A n \in Nodes : backlog[n] = << >> /\ pending[n] = << >>
      /\ \A n \in Nodes : proc[n] = "up"
  BY DEF Init
<1>3. \A n \in Nodes : DOMAIN backlog[n] = {} /\ DOMAIN pending[n] = {}
  <2>1. DOMAIN << >> = {}
    OBVIOUS
  <2> QED
    BY <1>2, <2>1
<1>4. Places /\ Source /\ OneData /\ WalkAhead
  BY <1>1, <1>2, <1>3 DEF Places, Source, OneData, DataAt, WalkAhead, ToAnswer
<1>5. BeforePut
  BY <1>1, <1>2, <1>3 DEF BeforePut, Somewhere, Once, Requests, HeldIs
<1> QED
  BY <1>4, <1>5 DEF AnsweredOnce

LEMMA AnsweredOnceNext ==
    ASSUME PutOnce, Inv, Inv', AnsweredOnce, [Next]_vars
    PROVE  AnsweredOnce'
<1>1. CASE Listen
  BY <1>1, ListenKeeps
<1>2. ASSUME NEW n \in Nodes,
             Call(n) \/ Continue(n) \/ Wake(n) \/ ScanFreed(n) \/ Exit(n)
      PROVE  AnsweredOnce'
  <2>1. ASSUME NEW k \in Keys, NEW v \in ValuesFor[k], PutAway(n, k, v) \/ PutHome(n, k, v)
        PROVE  AnsweredOnce'
    BY <2>1, PutAwayKeeps, ServerPutKeeps
  <2>2. ASSUME NEW k \in Keys, WaitAndGet(n, k) PROVE AnsweredOnce'
    BY <2>2, AskKeeps
  <2>3. CASE Reply(n)
    BY <2>3, ReplyKeeps
  <2>4. CASE RecvData(n)
    BY <2>4, RecvKeeps
  <2>5. CASE \/ ScanSkip(n) \/ ScanMatch(n) \/ PutDone(n) \/ Wake(n) \/ RecvOther(n) \/ Load(n)
             \/ ScanFreed(n) \/ Exit(n) \/ \E k \in Keys : Get(n, k)
    BY <2>5, QuietKeeps
  <2> QED
    BY <1>2, <2>1, <2>2, <2>3, <2>4, <2>5 DEF Call, Continue
<1>3. CASE UNCHANGED vars
  BY <1>3 DEF vars, AnsweredOnce, Places, Source, OneData, DataAt, WalkAhead, ToAnswer, Unanswered,
              NoData, BeforePut, Unput, Somewhere, HeldIs
<1> QED
  BY <1>1, <1>2, <1>3 DEF Next

----------------------------------------------------------------------------
(* What a node has under a Key was put under that Key by some node: with   *)
(* one Key of a name per home, that is more than RightAnswer asks.         *)
PutUnderIt ==
    \A n \in Nodes, k \in Keys : kv[n][k] # None => kv[n][k].src \in ValuesFor[k]

(* Three steps write to a Map.                                             *)
LEMMA KVWrites ==
    ASSUME [Next]_vars
    PROVE  \/ \E n \in Nodes, k \in Keys : \E v \in ValuesFor[k] : PutAway(n, k, v) \/ PutHome(n, k, v)
           \/ \E n \in Nodes : RecvData(n)
           \/ UNCHANGED kv
<1>1. CASE UNCHANGED vars
  BY <1>1 DEF vars
<1>2. CASE Listen
  BY <1>2 DEF Listen, ListenAccept, ListenAppend
<1>3. ASSUME NEW n \in Nodes, Call(n)
      PROVE  \/ \E k \in Keys : \E v \in ValuesFor[k] : PutAway(n, k, v) \/ PutHome(n, k, v)
             \/ UNCHANGED kv
  BY <1>3 DEF Call, Get, WaitAndGet
<1>4. ASSUME NEW n \in Nodes, Continue(n) \/ Wake(n) \/ ScanFreed(n) \/ Exit(n)
      PROVE  RecvData(n) \/ UNCHANGED kv
  BY <1>4 DEF Continue, Wake, ScanFreed, Exit, ScanSkip, ScanMatch, Reply, PutDone, RecvOther, Load
<1> QED
  BY <1>1, <1>2, <1>3, <1>4 DEF Next

LEMMA PutUnderItNext ==
    ASSUME Inv, Inv', AnsweredOnce, PutUnderIt, [Next]_vars
    PROVE  PutUnderIt'
<1>0. TypeOK
  BY DEF Inv
<1>1. ASSUME NEW n \in Nodes, NEW k \in Keys, NEW v \in ValuesFor[k], PutAway(n, k, v) \/ PutHome(n, k, v)
      PROVE  PutUnderIt'
  <2> DEFINE w == [src |-> v, intact |-> TRUE]
  <2>1. kv' = [kv EXCEPT ![n][k] = w] /\ w.src \in ValuesFor[k]
    BY <1>1 DEF PutAway, PutHome
  <2> HIDE DEF w
  <2>2. kv'[n][k] = w /\ \A x \in Nodes, j \in Keys : x # n \/ j # k => kv'[x][j] = kv[x][j]
    BY <1>0, <2>1 DEF TypeOK
  <2> QED
    BY <2>1, <2>2 DEF PutUnderIt
<1>2. ASSUME NEW n \in Nodes, RecvData(n) PROVE PutUnderIt'
  <2> DEFINE w == Deserialized(Head(backlog[n]).val)
             k == cur[n]
  <2>1. /\ k \in Keys /\ kv[Server][k] # None /\ Head(backlog[n]).val.src = kv[Server][k].src
        /\ Head(backlog[n]).val \in Stored
    BY <1>2, RecvKeeps
  <2>2. w.src \in ValuesFor[k]
    BY <2>1, ServerIsNode DEF PutUnderIt, Deserialized, Stored
  <2>3. kv' = [kv EXCEPT ![n][k] = w]
    BY <1>2 DEF RecvData
  <2> HIDE DEF w, k
  <2>4. kv'[n][k] = w /\ \A x \in Nodes, j \in Keys : x # n \/ j # k => kv'[x][j] = kv[x][j]
    BY <1>0, <2>1, <2>3 DEF TypeOK
  <2> QED
    BY <2>2, <2>4 DEF PutUnderIt
<1>3. CASE UNCHANGED kv
  BY <1>3 DEF PutUnderIt
<1> QED
  BY <1>1, <1>2, <1>3, KVWrites DEF PutUnderIt

LEMMA AnsweredOnceAlways == PutOnce => (Spec => [](Inv /\ AnsweredOnce /\ PutUnderIt))
<1>1. Init => Inv /\ AnsweredOnce /\ PutUnderIt
  BY InvInit, AnsweredOnceInit DEF Init, PutUnderIt
<1>2. PutOnce /\ Inv /\ AnsweredOnce /\ PutUnderIt /\ [Next]_vars
          => (Inv /\ AnsweredOnce /\ PutUnderIt)'
  BY InvNext, AnsweredOnceNext, PutUnderItNext
<1>3. SUFFICES ASSUME PutOnce PROVE Spec => [](Inv /\ AnsweredOnce /\ PutUnderIt)
  OBVIOUS
<1>4. Inv /\ AnsweredOnce /\ PutUnderIt /\ [Next]_vars => (Inv /\ AnsweredOnce /\ PutUnderIt)'
  BY <1>2, <1>3
<1> QED
  BY <1>1, <1>4, PTL DEF Spec

(* Where every Key is put once, by its home, a node never stores under a   *)
(* Key an answer to something else it asked for: waitAndGet may take the   *)
(* next Data it accepts for its own, although no message says so.          *)
THEOREM RightAnswerCorrect == PutOnce => (Spec => []RightAnswer)
<1>1. PutUnderIt => RightAnswer
  BY DEF PutUnderIt, RightAnswer, ValuesNamed
<1> QED
  BY <1>1, AnsweredOnceAlways, PTL

----------------------------------------------------------------------------
(* The variables of Blackboard.                                            *)
BoardHere ==
    [k \in Keys |-> IF kv[HomeOf[k]][k] = None THEN None ELSE kv[HomeOf[k]][k].src]
LearntHere ==
    [n \in Nodes |-> [k \in Keys |->
        IF n \in Writers[k] \/ kv[n][k] = None THEN None ELSE kv[n][k].src]]

LEMMA BoardInit == Init => Board!Init
<1> SUFFICES ASSUME Init PROVE Board!Init
  OBVIOUS
<1>1. \A n \in Nodes, k \in Keys : kv[n][k] = None
  BY DEF Init
<1>2. \A k \in Keys : HomeOf[k] \in Nodes
  BY KeysTyped
<1> QED
  BY <1>1, <1>2 DEF Board!Init

(* What a put shows on the board, and what its node learns from it.        *)
LEMMA PutShows ==
    ASSUME PutOnce, Inv, AnsweredOnce, NEW n \in Nodes, NEW k \in Keys, NEW v \in ValuesFor[k],
           PutAway(n, k, v) \/ PutHome(n, k, v)
    PROVE  /\ LearntHere' = LearntHere
           /\ PutAway(n, k, v) => BoardHere' = BoardHere
           /\ PutHome(n, k, v) => BoardHere[k] = None /\ BoardHere' = [BoardHere EXCEPT ![k] = v]
<1>0. TypeOK /\ HomeOf \in [Keys -> Nodes] /\ v \in Values
  BY KeysTyped DEF Inv
<1> DEFINE w == [src |-> v, intact |-> TRUE]
<1>1. w.src = v /\ w # None
  <2>1. w \in Stored
    BY <1>0 DEF Stored
  <2> QED
    BY <2>1, NoneIsNoValue DEF Stored
<1>2. kv' = [kv EXCEPT ![n][k] = w] /\ n \in Writers[k]
  BY DEF PutAway, PutHome
<1> HIDE DEF w
<1>3. kv'[n][k] = w /\ \A x \in Nodes, j \in Keys : x # n \/ j # k => kv'[x][j] = kv[x][j]
  BY <1>0, <1>2 DEF TypeOK
<1>4. LearntHere' = LearntHere
  <2>1. \A x \in Nodes, j \in Keys :
            (IF x \in Writers[j] \/ kv'[x][j] = None THEN None ELSE kv'[x][j].src)
          = (IF x \in Writers[j] \/ kv[x][j] = None THEN None ELSE kv[x][j].src)
    BY <1>2, <1>3
  <2> QED
    BY <2>1 DEF LearntHere
<1>5. ASSUME PutAway(n, k, v) PROVE BoardHere' = BoardHere
  <2>1. HomeOf[k] # n
    BY <1>5 DEF PutAway
  <2>2. \A j \in Keys : kv'[HomeOf[j]][j] = kv[HomeOf[j]][j]
    BY <1>0, <1>3, <2>1
  <2> QED
    BY <2>2 DEF BoardHere
<1>6. ASSUME PutHome(n, k, v)
      PROVE  BoardHere[k] = None /\ BoardHere' = [BoardHere EXCEPT ![k] = v]
  <2>1. HomeOf[k] = n /\ puts[n][k] = 0
    BY <1>0, <1>6, OnePut DEF PutHome
  <2>2. kv[n][k] = None
    BY <2>1 DEF AnsweredOnce, Source
  <2>3. \A j \in Keys : j # k => kv'[HomeOf[j]][j] = kv[HomeOf[j]][j]
    BY <1>0, <1>3
  <2> QED
    BY <1>1, <1>3, <2>1, <2>2, <2>3 DEF BoardHere
<1> QED
  BY <1>4, <1>5, <1>6

(* What a receive shows: a node that does not put the Key learns what its  *)
(* home has put.                                                           *)
LEMMA RecvShows ==
    ASSUME Inv, Inv', AnsweredOnce, NEW n \in Nodes, RecvData(n)
    PROVE  /\ BoardHere' = BoardHere
           /\ \/ LearntHere' = LearntHere
              \/ \E k \in Keys :
                    /\ BoardHere[k] # None /\ LearntHere[n][k] = None
                    /\ LearntHere' = [LearntHere EXCEPT ![n][k] = BoardHere[k]]
<1>0. TypeOK /\ HomeOf \in [Keys -> Nodes] /\ Server \in Nodes
  BY KeysTyped, ServerIsNode DEF Inv
<1> DEFINE w == Deserialized(Head(backlog[n]).val)
           k == cur[n]
<1>1. /\ k \in Keys /\ HomeOf[k] = Server /\ n # Server
      /\ kv[n][k] = None /\ kv[Server][k] # None
      /\ Head(backlog[n]).val.src = kv[Server][k].src /\ Head(backlog[n]).val \in Stored
  BY RecvKeeps
<1>2. w.src = kv[Server][k].src /\ w # None /\ w.src # None
  <2>1. w \in Stored /\ w.src = kv[Server][k].src /\ w.src \in Values
    BY <1>1 DEF Deserialized, Stored
  <2> QED
    BY <2>1, NoneIsNoValue DEF Stored
<1>3. kv' = [kv EXCEPT ![n][k] = w]
  BY DEF RecvData
<1> HIDE DEF w, k
<1>4. kv'[n][k] = w /\ \A x \in Nodes, j \in Keys : x # n \/ j # k => kv'[x][j] = kv[x][j]
  BY <1>0, <1>1, <1>3 DEF TypeOK
<1>5. BoardHere' = BoardHere
  <2>1. \A j \in Keys : kv'[HomeOf[j]][j] = kv[HomeOf[j]][j]
    BY <1>0, <1>1, <1>4
  <2> QED
    BY <2>1 DEF BoardHere
<1>6. CASE n \in Writers[k]
  <2>1. \A x \in Nodes, j \in Keys :
            (IF x \in Writers[j] \/ kv'[x][j] = None THEN None ELSE kv'[x][j].src)
          = (IF x \in Writers[j] \/ kv[x][j] = None THEN None ELSE kv[x][j].src)
    BY <1>4, <1>6
  <2> QED
    BY <1>5, <2>1 DEF LearntHere
<1>7. CASE n \notin Writers[k]
  <2>1. BoardHere[k] = w.src /\ BoardHere[k] # None /\ LearntHere[n][k] = None
    BY <1>1, <1>2 DEF BoardHere, LearntHere
  <2>2. \A x \in Nodes, j \in Keys : x # n \/ j # k =>
            (IF x \in Writers[j] \/ kv'[x][j] = None THEN None ELSE kv'[x][j].src)
          = (IF x \in Writers[j] \/ kv[x][j] = None THEN None ELSE kv[x][j].src)
    BY <1>4
  <2>3. (IF n \in Writers[k] \/ kv'[n][k] = None THEN None ELSE kv'[n][k].src) = w.src
    BY <1>2, <1>4, <1>7
  <2>4. LearntHere' = [LearntHere EXCEPT ![n][k] = w.src]
    <3>1. \A x \in Nodes : x # n => LearntHere'[x] = LearntHere[x]
      BY <2>2 DEF LearntHere
    <3>2. LearntHere'[n] = [LearntHere[n] EXCEPT ![k] = w.src]
      BY <1>1, <2>2, <2>3 DEF LearntHere
    <3>3. /\ DOMAIN LearntHere = Nodes /\ DOMAIN LearntHere' = Nodes
          /\ LearntHere' = [x \in Nodes |-> LearntHere'[x]]
      BY DEF LearntHere
    <3>4. \A x \in Nodes : [LearntHere EXCEPT ![n][k] = w.src][x] = LearntHere'[x]
      BY <3>1, <3>2, <3>3
    <3> QED
      BY <3>3, <3>4
  <2> QED
    BY <1>1, <1>5, <2>1, <2>4
<1> QED
  BY <1>6, <1>7

LEMMA BoardStep ==
    ASSUME PutOnce, Inv, Inv', AnsweredOnce, [Next]_vars
    PROVE  Board!Next \/ (BoardHere' = BoardHere /\ LearntHere' = LearntHere)
<1>1. ASSUME NEW n \in Nodes, NEW k \in Keys, NEW v \in ValuesFor[k], PutAway(n, k, v)
      PROVE  BoardHere' = BoardHere /\ LearntHere' = LearntHere
  BY <1>1, PutShows
<1>2. ASSUME NEW n \in Nodes, NEW k \in Keys, NEW v \in ValuesFor[k], PutHome(n, k, v)
      PROVE  Board!Next
  <2>1. v \in Values
    BY KeysTyped
  <2>2. Board!Publish(k, v)
    BY <1>2, PutShows DEF Board!Publish, BoardHere, LearntHere
  <2> QED
    BY <2>1, <2>2 DEF Board!Next
<1>3. ASSUME NEW n \in Nodes, RecvData(n)
      PROVE  Board!Next \/ (BoardHere' = BoardHere /\ LearntHere' = LearntHere)
  <2>1. CASE LearntHere' = LearntHere
    BY <1>3, <2>1, RecvShows
  <2>2. ASSUME NEW k \in Keys, BoardHere[k] # None, LearntHere[n][k] = None,
               LearntHere' = [LearntHere EXCEPT ![n][k] = BoardHere[k]]
        PROVE  Board!Next
    <3>1. BoardHere' = BoardHere
      BY <1>3, RecvShows
    <3>2. Board!Learn(n, k)
      BY <2>2, <3>1 DEF Board!Learn, BoardHere, LearntHere
    <3> QED
      BY <3>2 DEF Board!Next
  <2> QED
    BY <1>3, <2>1, <2>2, RecvShows
<1>4. CASE UNCHANGED kv
  BY <1>4 DEF BoardHere, LearntHere
<1> QED
  BY <1>1, <1>2, <1>3, <1>4, KVWrites

(* Where every Key is put once, by its home, the store is the board: what  *)
(* the home puts is published once, and a node that does not put the Key   *)
(* learns it once and learns nothing else, whatever is sent and whoever    *)
(* dies.                                                                   *)
THEOREM StoreImplementsBlackboard == PutOnce => (Spec => ImplementsBlackboard)
<1>1. PutOnce /\ Inv /\ Inv' /\ AnsweredOnce /\ [Next]_vars => [Board!Next]_<<BoardHere, LearntHere>>
  BY BoardStep
<1>2. SUFFICES ASSUME PutOnce PROVE Spec => ImplementsBlackboard
  OBVIOUS
<1>3. Inv /\ Inv' /\ AnsweredOnce /\ [Next]_vars => [Board!Next]_<<BoardHere, LearntHere>>
  BY <1>1, <1>2
<1>4. Spec => [](Inv /\ AnsweredOnce /\ PutUnderIt)
  BY <1>2, AnsweredOnceAlways
<1> QED
  BY <1>3, <1>4, BoardInit, PTL DEF Spec, ImplementsBlackboard, Board!Spec, BoardHere, LearntHere
=============================================================================
