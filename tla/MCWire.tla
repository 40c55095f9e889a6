------------------------------- MODULE MCWire -------------------------------
(***************************************************************************)
(* Wire for TLC: a server with listen_m and two clients, one message of    *)
(* each kind the system sends with a layout of its own, and a request of   *)
(* one client to the other.                                                *)
(***************************************************************************)
EXTENDS Wire, TLC

CONSTANTS n0, n1, n2

Letter(from, to, kind, ports, texts) ==
    [from |-> from, to |-> to, content |-> [kind |-> kind, ports |-> ports, texts |-> texts]]

Letters == {Letter(n1, n0, "Register", 0, << >>),
            Letter(n0, n1, "Directory", 1, <<9>>),
            Letter(n2, n0, "KeyMessage", 0, <<15>>),
            Letter(n0, n2, "Data", 0, <<1>>),
            Letter(n2, n1, "KeyMessage", 0, <<6>>)}

Limits == (n0 :> 3) @@ (n1 :> 1) @@ (n2 :> 2)
=============================================================================
