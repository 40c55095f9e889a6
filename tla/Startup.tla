------------------------------ MODULE Startup ------------------------------
(***************************************************************************)
(* Registration: NetworkIP::server_init on node 0 and client_init on the   *)
(* others (src/src/network/network.h), from processes that somebody starts *)
(* by hand in any order, up to the first requests of the applications.     *)
(* What the store does with requests is module KVStore.                    *)
(***************************************************************************)
EXTENDS Integers, Sequences, FiniteSets

CONSTANTS
    NumNodes,     \* num_nodes, node 0 included
    Local,        \* the clients on the machine of node 0
    Killable,     \* the nodes somebody may kill
    StartBudget   \* bound: times each node is started

ASSUME NumNodesTyped == NumNodes \in Nat \ {0}

Server  == 0
Clients == 1 .. NumNodes - 1
Nodes   == 0 .. NumNodes - 1

ASSUME SetsTyped == Local \subseteq Clients /\ Killable \subseteq Nodes
ASSUME StartBudgetTyped == StartBudget \in [Nodes -> Nat]

VARIABLES
    proc,    \* "off", "up" or "crashed"
    pc,      \* where the main thread of a node is
    starts,  \* times the node was started
    inbox,   \* messages on connections the node has not accepted yet
    i,       \* the loop counter of server_init
    addr,    \* addr[n][x]: sin_addr of nodes_[x] on node n
    dir,     \* addresses, as server_init fills it for the Directory
    pending, \* senders of the requests listen_m put in pending_messages
    asked    \* the clients that sent a request in their present life

vars == <<proc, pc, starts, inbox, i, addr, dir, pending, asked>>

(* What a sin_addr holds: nothing that was written ("garbage"), INADDR_ANY *)
(* which every node puts in its own ip_, or the address of node 0 a client *)
(* was given on its command line.                                          *)
Addresses == {"garbage", "any", "given"}

Message == [kind : {"Register", "Directory", "KeyMessage", "Data"}, from : Nodes,
            addrs : Seq(Addresses)]

Msg(kind, from) == [kind |-> kind, from |-> from, addrs |-> << >>]

Init ==
    /\ proc    = [n \in Nodes |-> "off"]
    /\ pc      = [n \in Nodes |-> "init"]
    /\ starts  = [n \in Nodes |-> 0]
    /\ inbox   = [n \in Nodes |-> << >>]
    /\ i       = 1
    /\ addr    = [n \in Nodes |-> [x \in Nodes |-> "garbage"]]
    /\ dir     = << >>
    /\ pending = {}
    /\ asked   = {}

At(n, label) == proc[n] = "up" /\ pc[n] = label
Goto(n, label) == pc' = [pc EXCEPT ![n] = label]

Crash(n) ==
    /\ proc' = [proc EXCEPT ![n] = "crashed"]
    /\ inbox' = [inbox EXCEPT ![n] = << >>]

(* Does connect reach node t?  INADDR_ANY is the machine of the sender.    *)
Reaches(n, t) ==
    /\ proc[t] = "up"
    /\ \/ n = Server /\ addr[n][t] = "any" /\ t \in Local
       \/ t = Server /\ addr[n][t] = "given"

(* NetworkIP::send_m: the send on a socket that did not connect is fatal.  *)
Send(n, t, m) ==
    \/ /\ Reaches(n, t)
       /\ inbox' = [inbox EXCEPT ![t] = Append(@, m)]
       /\ UNCHANGED proc
    \/ ~Reaches(n, t) /\ Crash(n)

----------------------------------------------------------------------------
(* server_init, up to its registration loop.                               *)
ServerStart ==
    /\ proc[Server] # "up" /\ starts[Server] < StartBudget[Server]
    /\ proc' = [proc EXCEPT ![Server] = "up"]
    /\ Goto(Server, "register")
    /\ starts' = [starts EXCEPT ![Server] = @ + 1]
    /\ addr' = [addr EXCEPT ![Server] =
                    [x \in Nodes |-> IF x = Server THEN "any" ELSE "garbage"]]
    /\ i' = 1
    /\ dir' = << >>
    /\ pending' = {}
    /\ UNCHANGED <<inbox, asked>>

(* One turn of the loop; the cast of another message is a null pointer.    *)
ServerRegister ==
    /\ At(Server, "register")
    /\ i < NumNodes
    /\ inbox[Server] # << >>
    /\ \/ /\ Head(inbox[Server]).kind = "Register"
          /\ addr' = [addr EXCEPT ![Server][Head(inbox[Server]).from] = "any"]
          /\ i' = i + 1
          /\ inbox' = [inbox EXCEPT ![Server] = Tail(@)]
          /\ UNCHANGED proc
       \/ /\ Head(inbox[Server]).kind # "Register"
          /\ Crash(Server)
          /\ UNCHANGED <<i, addr>>
    /\ UNCHANGED <<pc, starts, dir, pending, asked>>

(* Mutant: the registration loop makes one turn less.                      *)
ServerFillEarly ==
    /\ At(Server, "register")
    /\ i >= NumNodes - 1
    /\ dir' = [x \in 1 .. NumNodes |->
                  IF x \in Clients THEN addr[Server][x] ELSE "garbage"]
    /\ i' = 1
    /\ Goto(Server, "direct")
    /\ UNCHANGED <<proc, starts, inbox, addr, pending, asked>>

(* The loop that fills ports and addresses reads nodes_[1] to              *)
(* nodes_[num_nodes], one past the end.                                    *)
ServerFill ==
    /\ At(Server, "register")
    /\ i >= NumNodes
    /\ dir' = [x \in 1 .. NumNodes |->
                  IF x \in Clients THEN addr[Server][x] ELSE "garbage"]
    /\ i' = 1
    /\ Goto(Server, "direct")
    /\ UNCHANGED <<proc, starts, inbox, addr, pending, asked>>

(* Mutant: every second client is passed over.                             *)
ServerDirectSkip ==
    /\ At(Server, "direct")
    /\ i < NumNodes
    /\ Send(Server, i, [kind |-> "Directory", from |-> Server, addrs |-> dir])
    /\ i' = i + 2
    /\ UNCHANGED <<pc, starts, addr, dir, pending, asked>>

(* One turn of the loop that sends the Directory.                          *)
ServerDirect ==
    /\ At(Server, "direct")
    /\ i < NumNodes
    /\ Send(Server, i, [kind |-> "Directory", from |-> Server, addrs |-> dir])
    /\ i' = i + 1
    /\ UNCHANGED <<pc, starts, addr, dir, pending, asked>>

ServerReady ==
    /\ At(Server, "direct")
    /\ i >= NumNodes
    /\ Goto(Server, "ready")
    /\ UNCHANGED <<proc, starts, inbox, i, addr, dir, pending, asked>>

(* listen_m, as far as requests matter.                                    *)
ServerListen ==
    /\ At(Server, "ready")
    /\ inbox[Server] # << >>
    /\ inbox' = [inbox EXCEPT ![Server] = Tail(@)]
    /\ pending' = IF Head(inbox[Server]).kind = "KeyMessage"
                  THEN pending \cup {Head(inbox[Server]).from} ELSE pending
    /\ UNCHANGED <<proc, pc, starts, i, addr, dir, asked>>

(* The application of node 0 puts a Key: some request is answered.  The    *)
(* request stays; here one answer to each is enough.                       *)
ServerAnswer(c) ==
    /\ At(Server, "ready")
    /\ c \in pending
    /\ pending' = pending \ {c}
    /\ Send(Server, c, Msg("Data", Server))
    /\ UNCHANGED <<pc, starts, i, addr, dir, asked>>

----------------------------------------------------------------------------
(* client_init, up to the Register message.                                *)
ClientStart(c) ==
    /\ proc[c] # "up" /\ starts[c] < StartBudget[c]
    /\ proc' = [proc EXCEPT ![c] = "up"]
    /\ Goto(c, "register")
    /\ starts' = [starts EXCEPT ![c] = @ + 1]
    /\ addr' = [addr EXCEPT ![c] =
                    [x \in Nodes |-> IF x = Server THEN "given" ELSE "garbage"]]
    /\ asked' = asked \ {c}
    /\ UNCHANGED <<inbox, i, dir, pending>>

(* Mutant: a client does not wait for the Directory.                       *)
ClientRegisterAndGo(c) ==
    /\ At(c, "register")
    /\ Send(c, Server, Msg("Register", c))
    /\ Goto(c, "ready")
    /\ UNCHANGED <<starts, i, addr, dir, pending, asked>>

(* Mutant: a client may register again while it waits.                     *)
ClientRegisterAgain(c) ==
    /\ At(c, "register") \/ At(c, "await")
    /\ Send(c, Server, Msg("Register", c))
    /\ Goto(c, "await")
    /\ UNCHANGED <<starts, i, addr, dir, pending, asked>>

ClientRegister(c) ==
    /\ At(c, "register")
    /\ Send(c, Server, Msg("Register", c))
    /\ Goto(c, "await")
    /\ UNCHANGED <<starts, i, addr, dir, pending, asked>>

(* The Directory arrives.  The loop over it sets ids and ports in the new  *)
(* array, but writes every address behind the end of the old one: that may *)
(* go unnoticed or break the heap.  The cast of another message is a null  *)
(* pointer.                                                                *)
ClientDirectory(c) ==
    /\ At(c, "await")
    /\ inbox[c] # << >>
    /\ \/ /\ Head(inbox[c]).kind = "Directory"
          /\ addr' = [addr EXCEPT ![c] =
                          [x \in Nodes |-> IF x = Server THEN addr[c][x] ELSE "garbage"]]
          /\ inbox' = [inbox EXCEPT ![c] = Tail(@)]
          /\ Goto(c, "ready")
          /\ UNCHANGED proc
       \/ /\ Crash(c)
          /\ UNCHANGED <<pc, addr>>
    /\ UNCHANGED <<starts, i, dir, pending, asked>>

(* Mutant: the application starts before client_init is through.           *)
ClientAskEarly(c) ==
    /\ At(c, "ready") \/ At(c, "await")
    /\ c \notin asked
    /\ asked' = asked \cup {c}
    /\ Send(c, Server, Msg("KeyMessage", c))
    /\ UNCHANGED <<pc, starts, i, addr, dir, pending>>

(* The application of a client asks node 0 for a Key.                      *)
ClientAsk(c) ==
    /\ At(c, "ready")
    /\ c \notin asked
    /\ asked' = asked \cup {c}
    /\ Send(c, Server, Msg("KeyMessage", c))
    /\ UNCHANGED <<pc, starts, i, addr, dir, pending>>

----------------------------------------------------------------------------
(* Somebody kills a process.                                               *)
Kill(n) ==
    /\ n \in Killable
    /\ proc[n] = "up"
    /\ Crash(n)
    /\ UNCHANGED <<pc, starts, i, addr, dir, pending, asked>>

ServerInit == ServerRegister \/ ServerFill \/ ServerDirect \/ ServerReady

Next ==
    \/ ServerStart \/ ServerInit \/ ServerListen
    \/ \E c \in Clients : \/ ServerAnswer(c)
                          \/ ClientStart(c) \/ ClientRegister(c) \/ ClientDirectory(c)
                          \/ ClientAsk(c)
    \/ \E n \in Nodes : Kill(n)

Spec == Init /\ [][Next]_vars

(* Once started, a process runs.                                           *)
Fairness ==
    /\ WF_vars(ServerInit)
    /\ \A c \in Clients : WF_vars(ClientRegister(c) \/ ClientDirectory(c))

FairSpec == Spec /\ Fairness

----------------------------------------------------------------------------
(* Every variable has its type, and the loop counter of server_init its    *)
(* range.                                                                  *)
TypeOK ==
    /\ proc \in [Nodes -> {"off", "up", "crashed"}]
    /\ pc \in [Nodes -> {"init", "register", "direct", "await", "ready"}]
    /\ starts \in [Nodes -> Nat] /\ \A n \in Nodes : starts[n] <= StartBudget[n]
    /\ inbox \in [Nodes -> Seq(Message)]
    /\ i \in 1 .. NumNodes
    /\ addr \in [Nodes -> [Nodes -> Addresses]]
    /\ dir \in Seq(Addresses)
    /\ pending \subseteq Clients
    /\ asked \subseteq Clients

(* The registration loop casts what it accepts to a Register without       *)
(* looking: no request may overtake the registrations of other clients.    *)
OnlyRegistersInLoop ==
    At(Server, "register") /\ i < NumNodes /\ inbox[Server] # << >>
        => Head(inbox[Server]).kind = "Register"

(* A client casts the first message it accepts to a Directory: no answer   *)
(* may come before it.                                                     *)
DirectoryComesFirst ==
    \A c \in Clients :
        At(c, "await") /\ inbox[c] # << >> => Head(inbox[c]).kind = "Directory"

(* The Directory is built when every client has registered, not when that  *)
(* many Register messages came in.                                         *)
DirectoryIsComplete ==
    dir # << >> => \A c \in Clients : dir[c] # "garbage"

(* node 0 stays up until every client was sent its Directory, unless the   *)
(* client that it was sending to is gone by then.                          *)
ServerSurvivesStartup ==
    pc[Server] = "direct" =>
        proc[Server] = "up" \/ (i > 1 /\ proc[i - 1] # "up")

(* An application of a client runs only when node 0 has closed its         *)
(* registration loop, so that no request can end up in that loop.          *)
NobodyRunsBeforeTheLoopEnds ==
    \A c \in Clients : At(c, "ready") => pc[Server] \in {"direct", "ready"}

(* The lives the clients had so far, and the registrations on their way.   *)
Lives == UNION {{c} \X (1 .. starts[c]) : c \in Clients}
Registrations == {e \in DOMAIN inbox[Server] : inbox[Server][e].kind = "Register"}

(* node 0 counts Register messages.  Those it counted and those on their   *)
(* way are no more than the lives the clients had: nobody counts twice in  *)
(* one life, whatever is killed and started again.                         *)
RegistrationsAreLives ==
    pc[Server] = "register" =>
        i - 1 + Cardinality(Registrations) <= Cardinality(Lives)

=============================================================================
