------------------------------ MODULE Mailbox ------------------------------
(***************************************************************************)
(* What send_m and recv_m promise to the code above them: a box of         *)
(* messages per node, in the order in which senders connected.  A thread   *)
(* takes the oldest message into its hands and hands it over as it was     *)
(* posted, once.  A message may stay in somebody's hands for ever, and a   *)
(* node that stops loses its box.                                          *)
(***************************************************************************)
EXTENDS Sequences

CONSTANTS
    Nodes,
    Threads,   \* a thread is a pair of its node and its role
    Messages,  \* records with a field to, among others
    Nobody     \* nothing in a thread's hands

VARIABLES
    up,      \* has the node not stopped
    posted,  \* the messages posted so far
    box,     \* what nobody has taken yet
    hand,    \* the message a thread has taken and not handed over
    got      \* what a node's threads handed over

vars == <<up, posted, box, hand, got>>

Init ==
    /\ up     = [n \in Nodes |-> TRUE]
    /\ posted = {}
    /\ box    = [n \in Nodes |-> << >>]
    /\ hand   = [t \in Threads |-> Nobody]
    /\ got    = [n \in Nodes |-> << >>]

Post(m) ==
    /\ m \notin posted
    /\ up[m.to]
    /\ posted' = posted \cup {m}
    /\ box' = [box EXCEPT ![m.to] = Append(@, m)]
    /\ UNCHANGED <<up, hand, got>>

Take(t) ==
    /\ up[t[1]] /\ hand[t] = Nobody
    /\ box[t[1]] # << >>
    /\ hand' = [hand EXCEPT ![t] = Head(box[t[1]])]
    /\ box' = [box EXCEPT ![t[1]] = Tail(@)]
    /\ UNCHANGED <<up, posted, got>>

HandOver(t) ==
    /\ up[t[1]] /\ hand[t] # Nobody
    /\ got' = [got EXCEPT ![t[1]] = Append(@, hand[t])]
    /\ hand' = [hand EXCEPT ![t] = Nobody]
    /\ UNCHANGED <<up, posted, box>>

Stop(n) ==
    /\ up[n]
    /\ up' = [up EXCEPT ![n] = FALSE]
    /\ box' = [box EXCEPT ![n] = << >>]
    /\ UNCHANGED <<posted, hand, got>>

Next ==
    \/ \E m \in Messages : Post(m)
    \/ \E t \in Threads : Take(t) \/ HandOver(t)
    \/ \E n \in Nodes : Stop(n)

Spec == Init /\ [][Next]_vars
=============================================================================
