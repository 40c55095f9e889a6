-------------------------------- MODULE Wire --------------------------------
(***************************************************************************)
(* NetworkIP::send_m and recv_m (src/src/network/network.h), system call   *)
(* by system call, where KVStore and Startup have one step for a message.  *)
(* A message has a connection of its own: the sender connects, serializes, *)
(* sends the size and then the body; a receiver accepts, reads the size    *)
(* and then reads on until it has as many bytes.  Neither closes anything. *)
(*                                                                         *)
(* A main thread calls send_m and recv_m as its program does; listen_m, on *)
(* node 0 only, calls recv_m for ever.  A body is small enough for the     *)
(* kernel to take it at once, and may still arrive in pieces.              *)
(***************************************************************************)
EXTENDS Serial, FiniteSets

CONSTANTS
    Nodes,      \* the processes
    Listeners,  \* those that run listen_m: node 0
    Messages,   \* what may be sent, each once
    Backlog,    \* connections a listening socket queues
    MaxFds,     \* descriptors each process may open for connections
    Mortal,     \* bound: the processes that may be killed
    MaxSends,   \* bound: calls of send_m of a process
    Pieces,     \* bound: what a read may return of a longer body
    None        \* no message

ASSUME NodesTyped == Listeners \subseteq Nodes /\ Mortal \subseteq Nodes
ASSUME MessagesTyped ==
    \A m \in Messages : m.from \in Nodes /\ m.to \in Nodes /\ m.content \in Contents
ASSUME MessagesFit ==
    \A m \in Messages : \A i \in DOMAIN FieldsOf(m.content) : Fits(FieldsOf(m.content)[i])
ASSUME BoundsTyped ==
    Backlog \in Nat /\ MaxFds \in [Nodes -> Nat] /\ MaxSends \in Nat /\ Pieces \subseteq Nat \ {0}
ASSUME NoneIsNoMessage == None \notin Messages

Threads == (Nodes \X {"main"}) \cup (Listeners \X {"listener"})
Main(n) == <<n, "main">>

VARIABLES
    up,       \* is the process running
    blamed,   \* ghost: processes that were killed or out of descriptors
    fds,      \* the descriptors a process has opened for connections
    pc,       \* where a thread is
    msg,      \* the message it sends or receives
    rd,       \* the bytes of the body it has read
    ser,      \* the Serializer of the main thread
    field,    \* the fields it has written there
    sent,     \* the messages send_m was called with
    linked,   \* those whose connect succeeded
    backlog,  \* connections that nobody has accepted
    size,     \* the size sent ahead of a message; 0: not sent
    body,     \* the messages whose body is sent
    got       \* what recv_m returned: the message, and the bytes it was made of

vars == <<up, blamed, fds, pc, msg, rd, ser, field, sent, linked, backlog, size, body, got>>

----------------------------------------------------------------------------
Init ==
    /\ up      = [n \in Nodes |-> TRUE]
    /\ blamed  = {}
    /\ fds     = [n \in Nodes |-> 0]
    /\ pc      = [t \in Threads |-> "idle"]
    /\ msg     = [t \in Threads |-> None]
    /\ rd      = [t \in Threads |-> 0]
    /\ ser     = [n \in Nodes |-> NewSerializer]
    /\ field   = [n \in Nodes |-> 0]
    /\ sent    = {}
    /\ linked  = {}
    /\ backlog = [n \in Nodes |-> << >>]
    /\ size    = [m \in Messages |-> 0]
    /\ body    = {}
    /\ got     = [n \in Nodes |-> << >>]

(* The process ends, its descriptors and what its socket queued with it.   *)
Die(n) ==
    /\ up' = [up EXCEPT ![n] = FALSE]
    /\ backlog' = [backlog EXCEPT ![n] = << >>]
    /\ UNCHANGED <<fds, pc, msg, rd, ser, field, sent, linked, size, body, got>>

Kill(n) ==
    /\ up[n] /\ n \in Mortal
    /\ blamed' = blamed \cup {n}
    /\ Die(n)

----------------------------------------------------------------------------
(* send_m *)

(* socket and connect.  A connect that fails is only reported.             *)
Unsent(m) == m \notin sent /\ Cardinality({x \in sent : x.from = m.from}) < MaxSends

Connects(m) == up[m.to] /\ Len(backlog[m.to]) < Backlog

(* client_init writes the addresses to the array that it deletes next: a   *)
(* client knows node 0, and what it has for another client is whatever the *)
(* new array was allocated with, which may lead nowhere.                   *)
HasRoute(m) == m.from \in Listeners \/ m.to \in Listeners

SendBegin(m) ==
    LET n == m.from IN
    /\ up[n] /\ pc[Main(n)] = "idle"
    /\ Unsent(m)
    /\ fds[n] < MaxFds[n]
    /\ fds' = [fds EXCEPT ![n] = @ + 1]
    /\ sent' = sent \cup {m}
    /\ \/ /\ Connects(m)
          /\ linked' = linked \cup {m}
          /\ backlog' = [backlog EXCEPT ![m.to] = Append(@, m)]
       \/ /\ ~Connects(m) \/ ~HasRoute(m)
          /\ UNCHANGED <<linked, backlog>>
    /\ msg' = [msg EXCEPT ![Main(n)] = m]
    /\ pc' = [pc EXCEPT ![Main(n)] = "write"]
    /\ ser' = [ser EXCEPT ![n] = NewSerializer]
    /\ field' = [field EXCEPT ![n] = 0]
    /\ UNCHANGED <<up, blamed, rd, size, body, got>>

(* assert(connected >= 0) *)
SocketFails(m) ==
    /\ up[m.from] /\ pc[Main(m.from)] = "idle"
    /\ Unsent(m)
    /\ fds[m.from] = MaxFds[m.from]
    /\ blamed' = blamed \cup {m.from}
    /\ Die(m.from)

Unwritten(n) == field[n] < Len(FieldsOf(msg[Main(n)].content))

(* msg->serialize: one write.                                              *)
WriteField(n) ==
    /\ up[n] /\ pc[Main(n)] = "write"
    /\ Unwritten(n)
    /\ ser' = [ser EXCEPT ![n] = Written(@, FieldsOf(msg[Main(n)].content)[field[n] + 1])]
    /\ field' = [field EXCEPT ![n] = @ + 1]
    /\ UNCHANGED <<up, blamed, fds, pc, msg, rd, sent, linked, backlog, size, body, got>>

(* Mutant: a send without a connection goes unnoticed.                     *)
SendSizeUnlinked(n) ==
    LET m == msg[Main(n)] IN
    /\ up[n] /\ pc[Main(n)] = "write"
    /\ ~Unwritten(n)
    /\ size' = [size EXCEPT ![m] = ser[n].pos]
    /\ pc' = [pc EXCEPT ![Main(n)] = "body"]
    /\ UNCHANGED <<up, blamed, fds, msg, rd, ser, field, sent, linked, backlog, body, got>>

SendSize(n) ==
    LET m == msg[Main(n)] IN
    /\ up[n] /\ pc[Main(n)] = "write"
    /\ ~Unwritten(n)
    /\ m \in linked
    /\ size' = [size EXCEPT ![m] = ser[n].pos]
    /\ pc' = [pc EXCEPT ![Main(n)] = "body"]
    /\ UNCHANGED <<up, blamed, fds, msg, rd, ser, field, sent, linked, backlog, body, got>>

SendBody(n) ==
    /\ up[n] /\ pc[Main(n)] = "body"
    /\ body' = body \cup {msg[Main(n)]}
    /\ pc' = [pc EXCEPT ![Main(n)] = "idle"]
    /\ msg' = [msg EXCEPT ![Main(n)] = None]
    /\ UNCHANGED <<up, blamed, fds, rd, ser, field, sent, linked, backlog, size, got>>

(* A send on a socket that is not connected, or no longer, ends the        *)
(* process; one to a process that has just ended may still succeed.        *)
SendFails(n) ==
    LET m == msg[Main(n)] IN
    /\ up[n] /\ pc[Main(n)] \in {"write", "body"}
    /\ pc[Main(n)] = "write" => ~Unwritten(n)
    /\ m \notin linked \/ ~up[m.to]
    /\ Die(n)
    /\ UNCHANGED blamed

----------------------------------------------------------------------------
(* recv_m *)

Accept(t) ==
    LET n == t[1] IN
    /\ up[n] /\ pc[t] = "idle"
    /\ backlog[n] # << >>
    /\ fds[n] < MaxFds[n]
    /\ fds' = [fds EXCEPT ![n] = @ + 1]
    /\ msg' = [msg EXCEPT ![t] = backlog[n][1]]
    /\ backlog' = [backlog EXCEPT ![n] = Tail(@)]
    /\ rd' = [rd EXCEPT ![t] = 0]
    /\ pc' = [pc EXCEPT ![t] = "read"]
    /\ UNCHANGED <<up, blamed, ser, field, sent, linked, size, body, got>>

(* Without a descriptor accept returns at once, and recv_m exits.          *)
AcceptFails(t) ==
    /\ up[t[1]] /\ pc[t] = "idle"
    /\ fds[t[1]] = MaxFds[t[1]]
    /\ blamed' = blamed \cup {t[1]}
    /\ Die(t[1])

ReadSize(t) ==
    /\ up[t[1]] /\ pc[t] = "read"
    /\ size[msg[t]] > 0
    /\ pc' = [pc EXCEPT ![t] = "fill"]
    /\ UNCHANGED <<up, blamed, fds, msg, rd, ser, field, sent, linked, backlog, size, body, got>>

(* Mutant: read does not wait for the size.                                *)
ReadSizeFailsEarly(t) ==
    /\ up[t[1]] /\ pc[t] = "read"
    /\ size[msg[t]] = 0
    /\ Die(t[1])
    /\ UNCHANGED blamed

(* The sender died before it sent the size: read returns 0.                *)
ReadSizeFails(t) ==
    /\ up[t[1]] /\ pc[t] = "read"
    /\ size[msg[t]] = 0 /\ ~up[msg[t].from]
    /\ Die(t[1])
    /\ UNCHANGED blamed

(* Mutant: the rest of a body is not asked for.                            *)
ReadBodyUnfinished(t) ==
    LET m == msg[t] IN
    /\ up[t[1]] /\ pc[t] = "fill"
    /\ m \in body /\ rd[t] < size[m]
    /\ \E p \in Pieces :
          /\ rd[t] + p <= size[m]
          /\ rd' = [rd EXCEPT ![t] = @ + p]
    /\ UNCHANGED <<up, blamed, fds, pc, msg, ser, field, sent, linked, backlog, size, body, got>>

(* One read of the loop.  Until the body arrives it blocks or, if the      *)
(* sender has died, adds 0 for ever.                                       *)
ReadBody(t) ==
    LET m == msg[t] IN
    /\ up[t[1]] /\ pc[t] = "fill"
    /\ m \in body /\ rd[t] < size[m]
    /\ \E r \in {size[m]} \cup {rd[t] + p : p \in Pieces} :
          /\ r <= size[m]
          /\ rd' = [rd EXCEPT ![t] = r]
    /\ UNCHANGED <<up, blamed, fds, pc, msg, ser, field, sent, linked, backlog, size, body, got>>

(* Mutant: what one read returned is taken for the body.                   *)
ReturnEarly(t) ==
    LET m == msg[t] IN
    /\ up[t[1]] /\ pc[t] = "fill"
    /\ rd[t] > 0
    /\ got' = [got EXCEPT ![t[1]] = Append(@, [msg |-> m, bytes |-> rd[t]])]
    /\ pc' = [pc EXCEPT ![t] = "idle"]
    /\ msg' = [msg EXCEPT ![t] = None]
    /\ UNCHANGED <<up, blamed, fds, rd, ser, field, sent, linked, backlog, size, body>>

(* deserializeMsg, and recv_m returns.                                     *)
Return(t) ==
    LET m == msg[t] IN
    /\ up[t[1]] /\ pc[t] = "fill"
    /\ rd[t] = size[m]
    /\ got' = [got EXCEPT ![t[1]] = Append(@, [msg |-> m, bytes |-> rd[t]])]
    /\ pc' = [pc EXCEPT ![t] = "idle"]
    /\ msg' = [msg EXCEPT ![t] = None]
    /\ UNCHANGED <<up, blamed, fds, rd, ser, field, sent, linked, backlog, size, body>>

----------------------------------------------------------------------------
Sending(n) == WriteField(n) \/ SendSize(n) \/ SendBody(n) \/ SendFails(n)

Receiving(t) == ReadSize(t) \/ ReadSizeFails(t) \/ ReadBody(t) \/ Return(t)

Accepting(t) == Accept(t) \/ AcceptFails(t)

Next ==
    \/ \E m \in Messages : SendBegin(m) \/ SocketFails(m)
    \/ \E n \in Nodes : Sending(n) \/ Kill(n)
    \/ \E t \in Threads : Receiving(t) \/ Accepting(t)

Spec == Init /\ [][Next]_vars

(* The operating system schedules threads that can run, and listen_m calls *)
(* recv_m again and again; what a main thread calls is up to its program.  *)
Fairness ==
    /\ \A n \in Nodes : WF_vars(Sending(n))
    /\ \A t \in Threads : WF_vars(Receiving(t))
    /\ \A n \in Listeners : WF_vars(Accepting(<<n, "listener">>))

FairSpec == Spec /\ Fairness

----------------------------------------------------------------------------
(* Every variable has its type; no process opens more descriptors than it  *)
(* may, a thread has a message whenever it is in a call and only then, and *)
(* has read no more than the size said.                                    *)
TypeOK ==
    /\ up \in [Nodes -> BOOLEAN]
    /\ blamed \subseteq Nodes
    /\ fds \in [Nodes -> Nat] /\ \A n \in Nodes : fds[n] <= MaxFds[n]
    /\ pc \in [Threads -> {"idle", "write", "body", "read", "fill"}]
    /\ msg \in [Threads -> Messages \cup {None}]
    /\ \A t \in Threads : msg[t] = None <=> pc[t] = "idle"
    /\ rd \in [Threads -> Nat]
    /\ \A t \in Threads : pc[t] = "fill" => rd[t] <= size[msg[t]]
    /\ ser \in [Nodes -> Serializers]
    /\ field \in [Nodes -> Nat]
    /\ linked \subseteq sent /\ sent \subseteq Messages
    /\ backlog \in [Nodes -> Seq(Messages)]
    /\ size \in [Messages -> Nat]
    /\ body \subseteq linked
    /\ got \in [Nodes -> Seq([msg : Messages, bytes : Nat])]

(* However long a message, no write goes past the end of the buffer that   *)
(* resize provided, as long as each field is one that Fits.                *)
BufferHolds == \A n \in Nodes : ser[n].pos <= ser[n].capacity

(* As long as every connect succeeds - none was for a full queue, for a    *)
(* process that ended, or by one client for another - the first process    *)
(* that dies was killed or ran out of descriptors: neither slow senders    *)
(* nor bodies in pieces nor a second receiving thread make recv_m exit or  *)
(* a send fail.  The normal end of a process is not part of this module.   *)
NobodyDiesUncaused ==
    (blamed = {} /\ sent = linked) => (\A n \in Nodes : up[n])

(* What KVStore and Startup assume of a message: it enters the queue of    *)
(* its receiver when its sender connects, is taken from there by one       *)
(* thread, and is what was sent when recv_m returns it, whole and once.    *)
InHand(t) == IF pc[t] \in {"read", "fill"} THEN msg[t] ELSE None
AsSent(r) == IF r.bytes = size[r.msg] /\ Understood(r.msg.content) THEN r.msg ELSE None

Mail == INSTANCE Mailbox WITH
            posted <- linked, box <- backlog, Nobody <- None,
            hand <- [t \in Threads |-> InHand(t)],
            got <- [n \in Nodes |-> [i \in DOMAIN got[n] |-> AsSent(got[n][i])]]

ImplementsMailbox == Mail!Spec

(* A message that was sent to its end is received where listen_m runs,     *)
(* unless that process ends, or listen_m is in the loop of recv_m with a   *)
(* message whose sender died between the size and the body.                *)
Endless(t) == pc[t] = "fill" /\ msg[t] \notin body /\ ~up[msg[t].from]

Received(m) == \E i \in DOMAIN got[m.to] : got[m.to][i].msg = m

SentIsReceived ==
    \A m \in Messages :
        m.to \in Listeners =>
            (m \in body ~> Received(m) \/ ~up[m.to] \/ Endless(<<m.to, "listener">>))
=============================================================================
