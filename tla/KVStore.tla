------------------------------ MODULE KVStore ------------------------------
(***************************************************************************)
(* The eau2 key-value store once every node has registered: KVStore::put,  *)
(* KVStore::get and KVStore::waitAndGet (src/src/kvstore/kvstore.h) on top *)
(* of NetworkIP::send_m, recv_m and listen_m (src/src/network/network.h).  *)
(*                                                                         *)
(* A node is one process with one application thread.  Node 0, here        *)
(* Server, has a second thread: server_init starts listen_m on it, and     *)
(* client_init starts nothing.  The application thread is a program        *)
(* counter; one step of it runs to the next access of state that another   *)
(* thread or process can change (the pending list, a socket).              *)
(***************************************************************************)
EXTENDS Integers, Sequences

CONSTANTS
    Nodes,      \* the processes
    Server,     \* node 0, the only one that runs listen_m
    Keys,       \* Key objects; a Map compares them by address
    NameOf,     \* the string inside a Key, all that put compares
    HomeOf,     \* Key::home_node_
    Values,     \* Value objects that applications build
    ValuesFor,  \* the Values an application puts under a Key
    Writers,    \* the nodes whose application puts a Key
    Getters,    \* the nodes whose application calls get of a Key
    Waiters,    \* the nodes whose application calls waitAndGet of a Key
    PutBudget,  \* bound: put calls per node and Key
    AskBudget,  \* bound: get and waitAndGet calls per node and Key
    Backlog,    \* connections a listening socket queues (listen(sock_, 100))
    None        \* a null pointer

Names == {NameOf[k] : k \in Keys}

ASSUME ServerIsNode == Server \in Nodes
ASSUME KeysTyped ==
    /\ HomeOf \in [Keys -> Nodes]
    /\ ValuesFor \in [Keys -> SUBSET Values]
    /\ Writers \in [Keys -> SUBSET Nodes]
    /\ Getters \in [Keys -> SUBSET Nodes]
    /\ Waiters \in [Keys -> SUBSET Nodes]
ASSUME BoundsTyped == PutBudget \in Nat /\ AskBudget \in Nat /\ Backlog \in Nat
ASSUME NoneIsNoValue ==
    /\ None \notin Keys /\ None \notin Names /\ None \notin Values
    /\ None \notin [src : Values, intact : BOOLEAN]

VARIABLES
    proc,     \* is the process "up", or has it "exited" or "crashed"
    pc,       \* where the application thread of a node is
    cur,      \* the Key of the call it is in
    pos, len, \* i and len of the loop over pending_messages in put
    kv,       \* the Map of a node
    backlog,  \* messages on connections the node has not accepted yet
    pending,  \* NetworkIP::pending_messages
    held,     \* the message listen_m accepted last and has not appended yet
    puts,     \* put calls made so far
    asks      \* get and waitAndGet calls made so far

vars == <<proc, pc, cur, pos, len, kv, backlog, pending, held, puts, asks>>

----------------------------------------------------------------------------
(* A Value a node holds: the Value object that was put, and whether the    *)
(* char* in it still points at the bytes of that object.                   *)
Stored == [src : Values, intact : BOOLEAN]

(* Value::serialize writes the first bytes of the char* itself and         *)
(* readChars overwrites its own fresh pointer with them, so a Value that   *)
(* crossed a connection points nowhere in particular.                      *)
Deserialized(v) == [v EXCEPT !.intact = FALSE]

Kinds == {"Put", "Get", "Data", "KeyMessage"}

(* Only Data carries a Value.                                              *)
Message ==
    {m \in [kind : Kinds, from : Nodes, to : Nodes, id : {2, 53} \cup Nodes,
            name : Names \cup {None}, val : Stored \cup {None}] :
        m.kind = "Data" <=> m.val # None}

ASSUME NoneIsNoMessage == None \notin Message

Msg(kind, from, to, id, name, val) ==
    [kind |-> kind, from |-> from, to |-> to, id |-> id, name |-> name, val |-> val]

(* The four messages the store sends, with the ids the code gives them.    *)
KeyMessage(n, k)     == Msg("KeyMessage", n, HomeOf[k], 2, NameOf[k], None)
GetMessage(n, k)     == Msg("Get", n, HomeOf[k], 53, None, None)
PutMessage(n)        == Msg("Put", n, n, n, None, None)
DataMessage(n, m, v) == Msg("Data", n, m.from, m.id, None, v)

Init ==
    /\ proc    = [n \in Nodes |-> "up"]
    /\ pc      = [n \in Nodes |-> "idle"]
    /\ cur     = [n \in Nodes |-> None]
    /\ pos     = [n \in Nodes |-> 1]
    /\ len     = [n \in Nodes |-> 0]
    /\ kv      = [n \in Nodes |-> [k \in Keys |-> None]]
    /\ backlog = [n \in Nodes |-> << >>]
    /\ pending = [n \in Nodes |-> << >>]
    /\ held    = None
    /\ puts    = [n \in Nodes |-> [k \in Keys |-> 0]]
    /\ asks    = [n \in Nodes |-> [k \in Keys |-> 0]]

At(n, label) == proc[n] = "up" /\ pc[n] = label
Goto(n, label) == pc' = [pc EXCEPT ![n] = label]

(* The process is gone and with it every connection nobody accepted.       *)
Leave(n, how) ==
    /\ proc' = [proc EXCEPT ![n] = how]
    /\ backlog' = [backlog EXCEPT ![n] = << >>]

----------------------------------------------------------------------------
(* NetworkIP::send_m.  A client copied only the address of node 0 into its *)
(* directory, the others are uninitialized: connecting to them may fail.   *)
(* A failed connect is only reported; the send that follows on the dead    *)
(* socket ends the process.  A full accept queue delays the connect until  *)
(* there is room, or until it times out.                                   *)
HasRoute(n, t) == n = Server \/ t = Server

SendArrives(m) ==
    /\ proc[m.to] = "up"
    /\ Len(backlog[m.to]) < Backlog
    /\ backlog' = [backlog EXCEPT ![m.to] = Append(@, m)]
    /\ UNCHANGED proc

SendFails(m) ==
    /\ \/ proc[m.to] # "up"
       \/ Len(backlog[m.to]) >= Backlog
       \/ ~HasRoute(m.from, m.to)
    /\ Leave(m.from, "crashed")

Send(m) == SendArrives(m) \/ SendFails(m)

----------------------------------------------------------------------------
(* KVStore::put.  A Key that lives elsewhere is only stored here.          *)
PutAway(n, k, v) ==
    /\ At(n, "idle")
    /\ n \in Writers[k] /\ puts[n][k] < PutBudget
    /\ HomeOf[k] # n
    /\ kv' = [kv EXCEPT ![n][k] = [src |-> v, intact |-> TRUE]]
    /\ puts' = [puts EXCEPT ![n][k] = @ + 1]
    /\ UNCHANGED <<proc, pc, cur, pos, len, backlog, pending, held, asks>>

(* Mutant: the loop bound is one too large.                                *)
PutHomeOneMore(n, k, v) ==
    /\ At(n, "idle")
    /\ n \in Writers[k] /\ puts[n][k] < PutBudget
    /\ HomeOf[k] = n
    /\ kv' = [kv EXCEPT ![n][k] = [src |-> v, intact |-> TRUE]]
    /\ puts' = [puts EXCEPT ![n][k] = @ + 1]
    /\ cur' = [cur EXCEPT ![n] = k]
    /\ pos' = [pos EXCEPT ![n] = 1]
    /\ len' = [len EXCEPT ![n] = Len(pending[n]) + 1]
    /\ Goto(n, "scan")
    /\ UNCHANGED <<proc, backlog, pending, held, asks>>

(* Mutant: the loop starts at 1, as others over nodes do.                  *)
PutHomeFromOne(n, k, v) ==
    /\ At(n, "idle")
    /\ n \in Writers[k] /\ puts[n][k] < PutBudget
    /\ HomeOf[k] = n
    /\ kv' = [kv EXCEPT ![n][k] = [src |-> v, intact |-> TRUE]]
    /\ puts' = [puts EXCEPT ![n][k] = @ + 1]
    /\ cur' = [cur EXCEPT ![n] = k]
    /\ pos' = [pos EXCEPT ![n] = 2]
    /\ len' = [len EXCEPT ![n] = Len(pending[n])]
    /\ Goto(n, "scan")
    /\ UNCHANGED <<proc, backlog, pending, held, asks>>

(* At home it is stored and the length of pending_messages is read once.   *)
PutHome(n, k, v) ==
    /\ At(n, "idle")
    /\ n \in Writers[k] /\ puts[n][k] < PutBudget
    /\ HomeOf[k] = n
    /\ kv' = [kv EXCEPT ![n][k] = [src |-> v, intact |-> TRUE]]
    /\ puts' = [puts EXCEPT ![n][k] = @ + 1]
    /\ cur' = [cur EXCEPT ![n] = k]
    /\ pos' = [pos EXCEPT ![n] = 1]
    /\ len' = [len EXCEPT ![n] = Len(pending[n])]
    /\ Goto(n, "scan")
    /\ UNCHANGED <<proc, backlog, pending, held, asks>>

(* Mutant: every request is taken for one of the Key that was put.         *)
MatchesAnyName(m, k) == m.kind = "KeyMessage"

Matches(m, k) == m.kind = "KeyMessage" /\ m.name = NameOf[k]

(* Mutant: the loop counter is not advanced past a message that does not match. *)
ScanSkipAndStay(n) ==
    /\ At(n, "scan")
    /\ pos[n] <= len[n]
    /\ ~Matches(pending[n][pos[n]], cur[n])
    /\ UNCHANGED <<proc, pc, cur, pos, len, kv, backlog, pending, held, puts, asks>>

(* One iteration: a message that is no request for this name.              *)
ScanSkip(n) ==
    /\ At(n, "scan")
    /\ pos[n] <= len[n]
    /\ ~Matches(pending[n][pos[n]], cur[n])
    /\ pos' = [pos EXCEPT ![n] = @ + 1]
    /\ UNCHANGED <<proc, pc, cur, len, kv, backlog, pending, held, puts, asks>>

(* The listener may be inside Array::append, between delete[] elements_    *)
(* and elements_ = res, when the walk of put loads an entry: what it finds *)
(* there may still be the entry (then nothing shows), or end the process   *)
(* (module PendingArray has the steps).                                    *)
ScanFreed(n) ==
    /\ n = Server
    /\ At(n, "scan")
    /\ pos[n] <= len[n]
    /\ held # None
    /\ Leave(n, "crashed")
    /\ UNCHANGED <<pc, cur, pos, len, kv, pending, held, puts, asks>>

(* One iteration: a request; first a Put message to the home, this node.   *)
ScanMatch(n) ==
    /\ At(n, "scan")
    /\ pos[n] <= len[n]
    /\ Matches(pending[n][pos[n]], cur[n])
    /\ Send(PutMessage(n))
    /\ Goto(n, "reply")
    /\ UNCHANGED <<cur, pos, len, kv, pending, held, puts, asks>>

(* Mutant: the answer is sent, the loop counter is not advanced.           *)
ReplyAndStay(n) ==
    /\ At(n, "reply")
    /\ Send(DataMessage(n, pending[n][pos[n]], kv[n][cur[n]]))
    /\ Goto(n, "scan")
    /\ UNCHANGED <<cur, pos, len, kv, pending, held, puts, asks>>

(* Mutant: the loop counter is advanced twice after an answer.             *)
ReplyAndSkip(n) ==
    /\ At(n, "reply")
    /\ Send(DataMessage(n, pending[n][pos[n]], kv[n][cur[n]]))
    /\ pos' = [pos EXCEPT ![n] = @ + 2]
    /\ Goto(n, "scan")
    /\ UNCHANGED <<cur, len, kv, pending, held, puts, asks>>

(* The same iteration, second send.  The request stays in the list.        *)
Reply(n) ==
    /\ At(n, "reply")
    /\ Send(DataMessage(n, pending[n][pos[n]], kv[n][cur[n]]))
    /\ pos' = [pos EXCEPT ![n] = @ + 1]
    /\ Goto(n, "scan")
    /\ UNCHANGED <<cur, len, kv, pending, held, puts, asks>>

(* notify_all: the one application thread is here, so nobody is waiting.   *)
PutDone(n) ==
    /\ At(n, "scan")
    /\ pos[n] > len[n]
    /\ Goto(n, "idle")
    /\ UNCHANGED <<proc, cur, pos, len, kv, backlog, pending, held, puts, asks>>

----------------------------------------------------------------------------
(* KVStore::get starts with an unconditional wait on the condition         *)
(* variable.                                                               *)
Get(n, k) ==
    /\ At(n, "idle")
    /\ n \in Getters[k] /\ asks[n][k] < AskBudget
    /\ asks' = [asks EXCEPT ![n][k] = @ + 1]
    /\ cur' = [cur EXCEPT ![n] = k]
    /\ Goto(n, "cvwait")
    /\ UNCHANGED <<proc, pos, len, kv, backlog, pending, held, puts>>

(* Mutant: get does not check that the Key exists.                         *)
WakeUnchecked(n) ==
    /\ At(n, "cvwait")
    /\ Goto(n, "load")
    /\ UNCHANGED <<proc, cur, pos, len, kv, backlog, pending, held, puts, asks>>

(* Only a spurious wakeup (which a build without -pthread has every time)  *)
(* ends the wait: notify_all is called by the very thread that waits.      *)
Wake(n) ==
    /\ At(n, "cvwait")
    /\ \/ /\ kv[n][cur[n]] # None
          /\ Goto(n, "load")
          /\ UNCHANGED <<proc, backlog>>
       \/ /\ kv[n][cur[n]] = None
          /\ Send(GetMessage(n, cur[n]))
          /\ Goto(n, "idle")
    /\ UNCHANGED <<cur, pos, len, kv, pending, held, puts, asks>>

(* KVStore::waitAndGet.  The local copy is looked up before the request is *)
(* sent; the request is sent whether there is one or not.                  *)
WaitAndGet(n, k) ==
    /\ At(n, "idle")
    /\ n \in Waiters[k] /\ asks[n][k] < AskBudget
    /\ asks' = [asks EXCEPT ![n][k] = @ + 1]
    /\ cur' = [cur EXCEPT ![n] = k]
    /\ \/ /\ HomeOf[k] = n
          /\ Goto(n, "cvwait")
          /\ UNCHANGED <<proc, backlog>>
       \/ /\ HomeOf[k] # n
          /\ Send(KeyMessage(n, k))
          /\ Goto(n, IF kv[n][k] = None THEN "recv" ELSE "load")
    /\ UNCHANGED <<pos, len, kv, pending, held, puts>>

(* The loop of waitAndGet: recv_m, and whatever Data arrives is stored     *)
(* under the Key of this call.                                             *)
RecvData(n) ==
    /\ At(n, "recv")
    /\ backlog[n] # << >>
    /\ Head(backlog[n]).kind = "Data"
    /\ kv' = [kv EXCEPT ![n][cur[n]] = Deserialized(Head(backlog[n]).val)]
    /\ backlog' = [backlog EXCEPT ![n] = Tail(@)]
    /\ Goto(n, "load")
    /\ UNCHANGED <<proc, cur, pos, len, pending, held, puts, asks>>

(* Mutant: a message that is no Data is thrown away instead.               *)
RecvOtherDropped(n) ==
    /\ At(n, "recv")
    /\ backlog[n] # << >>
    /\ Head(backlog[n]).kind # "Data"
    /\ backlog' = [backlog EXCEPT ![n] = Tail(@)]
    /\ UNCHANGED <<proc, pc, cur, pos, len, kv, pending, held, puts, asks>>

(* assert(val->kind_ == MsgKind::Data) fails.                              *)
RecvOther(n) ==
    /\ At(n, "recv")
    /\ backlog[n] # << >>
    /\ Head(backlog[n]).kind # "Data"
    /\ Leave(n, "crashed")
    /\ UNCHANGED <<pc, cur, pos, len, kv, pending, held, puts, asks>>

(* DataFrame::deserialize on the Value found: reading through a pointer to *)
(* nowhere may end the process or yield some frame.                        *)
Load(n) ==
    /\ At(n, "load")
    /\ Goto(n, "idle")
    /\ \/ UNCHANGED <<proc, backlog>>
       \/ ~kv[n][cur[n]].intact /\ Leave(n, "crashed")
    /\ UNCHANGED <<cur, pos, len, kv, pending, held, puts, asks>>

----------------------------------------------------------------------------
(* NetworkIP::listen_m: recv_m takes the next connection, in competition   *)
(* with RecvData and RecvOther of node 0 ...                               *)
ListenAccept ==
    /\ proc[Server] = "up"
    /\ held = None
    /\ backlog[Server] # << >>
    /\ held' = Head(backlog[Server])
    /\ backlog' = [backlog EXCEPT ![Server] = Tail(@)]
    /\ UNCHANGED <<proc, pc, cur, pos, len, kv, pending, puts, asks>>

(* ... and append puts the message in the list, some time later.           *)
ListenAppend ==
    /\ proc[Server] = "up"
    /\ held # None
    /\ pending' = [pending EXCEPT ![Server] = Append(@, held)]
    /\ held' = None
    /\ UNCHANGED <<proc, pc, cur, pos, len, kv, backlog, puts, asks>>

(* main returns when run_ does, and ends the listener with it.             *)
Exit(n) ==
    /\ At(n, "idle")
    /\ Leave(n, "exited")
    /\ UNCHANGED <<pc, cur, pos, len, kv, pending, held, puts, asks>>

----------------------------------------------------------------------------
(* What an application calls, and what a call it is in does next.          *)
Call(n) ==
    \E k \in Keys :
        \/ \E v \in ValuesFor[k] : PutAway(n, k, v) \/ PutHome(n, k, v)
        \/ Get(n, k)
        \/ WaitAndGet(n, k)

Continue(n) ==
    \/ ScanSkip(n) \/ ScanMatch(n) \/ Reply(n) \/ PutDone(n)
    \/ RecvData(n) \/ RecvOther(n) \/ Load(n)

Listen == ListenAccept \/ ListenAppend

Next ==
    \/ \E n \in Nodes : Call(n) \/ Continue(n) \/ Wake(n) \/ ScanFreed(n) \/ Exit(n)
    \/ Listen

Spec == Init /\ [][Next]_vars

(* Threads are scheduled; applications need not call, and nothing promises *)
(* a spurious wakeup.                                                      *)
Fairness == (\A n \in Nodes : WF_vars(Continue(n))) /\ WF_vars(Listen)

FairSpec == Spec /\ Fairness

----------------------------------------------------------------------------
Labels == {"idle", "scan", "reply", "cvwait", "recv", "load"}

(* Every variable has its type, a thread inside a call has a Key, and the  *)
(* Value about to be deserialized is there (kvstore.h: assert(df_v)).      *)
TypeOK ==
    /\ proc \in [Nodes -> {"up", "exited", "crashed"}]
    /\ pc \in [Nodes -> Labels]
    /\ cur \in [Nodes -> Keys \cup {None}]
    /\ \A n \in Nodes : pc[n] # "idle" => cur[n] \in Keys
    /\ \A n \in Nodes : pc[n] = "load" => kv[n][cur[n]] # None
    /\ pos \in [Nodes -> Nat]
    /\ len \in [Nodes -> Nat]
    /\ kv \in [Nodes -> [Keys -> Stored \cup {None}]]
    /\ backlog \in [Nodes -> Seq(Message)]
    /\ pending \in [Nodes -> Seq(Message)]
    /\ held \in Message \cup {None}
    /\ puts \in [Nodes -> [Keys -> Nat]]
    /\ asks \in [Nodes -> [Keys -> Nat]]

(* The walk of put stays inside the list although the listener appends to  *)
(* it meanwhile (Array::get_: assert(nn < size_)), and between the two     *)
(* sends of one iteration the entry is still the request that matched and  *)
(* the Value of the Key is still one that was put under it.                *)
WalkInBounds ==
    \A n \in Nodes :
        /\ pc[n] \in {"scan", "reply"} =>
              /\ pos[n] >= 1
              /\ len[n] <= Len(pending[n])
              /\ kv[n][cur[n]] # None
              /\ kv[n][cur[n]].src \in ValuesFor[cur[n]]
        /\ pc[n] = "reply" =>
              /\ pos[n] <= len[n]
              /\ Matches(pending[n][pos[n]], cur[n])

(* m is n's request for the name nm; one is in a sequence of messages.     *)
IsRequest(m, n, nm) == m.kind = "KeyMessage" /\ m.from = n /\ m.name = nm
Requests(s, n, nm) == \E i \in DOMAIN s : IsRequest(s[i], n, nm)

ValuesNamed(nm) == UNION {ValuesFor[k] : k \in {j \in Keys : NameOf[j] = nm}}

(* The Data m is an answer to something n asked its sender for.            *)
Asked(n, m) ==
    \E nm \in Names :
        /\ Requests(pending[m.from], n, nm)
        /\ m.val # None
        /\ m.val.src \in ValuesNamed(nm)

(* Every Data message on its way carries a Value that was put under a name *)
(* its receiver asked the sender for: put answers requests, all of them    *)
(* and nothing else, although the list it walks grows under it and no      *)
(* message says which request it answers.                                  *)
AnswersOnlyTheAsked ==
    \A n \in Nodes : \A i \in DOMAIN backlog[n] :
        backlog[n][i].kind = "Data" => Asked(n, backlog[n][i])

WaitsFor(n, k) == At(n, "recv") /\ cur[n] = k

(* What a node stores under a Key was put under that Key's name.  Nothing  *)
(* in a Data message says so: waitAndGet trusts that the next Data it      *)
(* accepts is the answer to its own request.                               *)
RightAnswer ==
    \A n \in Nodes, k \in Keys :
        kv[n][k] # None => kv[n][k].src \in ValuesNamed(NameOf[k])

(* No request is lost while the home it was sent to runs: until waitAndGet *)
(* has its answer, the request is queued on the home's socket, held by its *)
(* listener or listed in its pending_messages, whichever thread accepts    *)
(* what in between.                                                        *)
WaiterStillListed ==
    \A n \in Nodes, k \in Keys :
        WaitsFor(n, k) /\ proc[HomeOf[k]] = "up" =>
            \/ Requests(backlog[HomeOf[k]], n, NameOf[k])
            \/ Requests(pending[HomeOf[k]], n, NameOf[k])
            \/ HomeOf[k] = Server /\ held # None /\ IsRequest(held, n, NameOf[k])

(* No thread aborts in waitAndGet's assert(val->kind_ == MsgKind::Data).   *)
OnlyDataArrives ==
    \A n \in Nodes :
        At(n, "recv") /\ backlog[n] # << >> => Head(backlog[n]).kind = "Data"

(* n's request for k is among the entries a put of that name at the home   *)
(* has still to visit.                                                     *)
Covered(n, k) ==
    LET h == HomeOf[k] IN
    /\ At(h, "scan") /\ NameOf[cur[h]] = NameOf[k]
    /\ \E i \in pos[h]..len[h] : Matches(pending[h][i], k) /\ pending[h][i].from = n

(* A request that was listed when put read the list's length ends its      *)
(* wait, unless the home crashes first: the sends of the walk, the         *)
(* listener that shares the socket and the receiver do not block forever.  *)
CoveredIsAnswered ==
    \A k \in Keys : \A n \in Waiters[k] :
        (WaitsFor(n, k) /\ Covered(n, k))
            ~> (~WaitsFor(n, k) \/ proc[HomeOf[k]] = "crashed")

(* The board the homes make up together, and what the nodes that only read *)
(* learnt from it.                                                         *)
Board == INSTANCE Blackboard WITH
    Readers <- Nodes,
    Nothing <- None,
    board   <- [k \in Keys |->
                   IF kv[HomeOf[k]][k] = None THEN None ELSE kv[HomeOf[k]][k].src],
    learnt  <- [n \in Nodes |-> [k \in Keys |->
                   IF n \in Writers[k] \/ kv[n][k] = None THEN None ELSE kv[n][k].src]]

(* When the home of a Key puts it once, the store implements the board for *)
(* whoever waits: the messages, the list of requests that is never         *)
(* cleaned, the answers without a Key and what nodes put that are not the  *)
(* home do not show.                                                       *)
ImplementsBlackboard == Board!Spec
=============================================================================
