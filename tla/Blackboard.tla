----------------------------- MODULE Blackboard -----------------------------
(***************************************************************************)
(* What the store promises to applications that write every Key once, at   *)
(* its home: a board on which a Key is published once, and readers that    *)
(* learn what was published and never anything else.  No messages, no      *)
(* lists of requests, no threads; a node that dies is one that stops.      *)
(***************************************************************************)
CONSTANTS
    Readers,  \* the nodes that read
    Keys,
    Values,
    Nothing   \* not published, or not learnt

VARIABLES
    board,    \* the Value published under a Key
    learnt    \* the Value a reader holds for a Key

Init ==
    /\ board  = [k \in Keys |-> Nothing]
    /\ learnt = [n \in Readers |-> [k \in Keys |-> Nothing]]

Publish(k, v) ==
    /\ board[k] = Nothing
    /\ board' = [board EXCEPT ![k] = v]
    /\ UNCHANGED learnt

Learn(n, k) ==
    /\ board[k] # Nothing
    /\ learnt[n][k] = Nothing
    /\ learnt' = [learnt EXCEPT ![n][k] = board[k]]
    /\ UNCHANGED board

Next ==
    \/ \E k \in Keys, v \in Values : Publish(k, v)
    \/ \E n \in Readers, k \in Keys : Learn(n, k)

Spec == Init /\ [][Next]_<<board, learnt>>
=============================================================================
