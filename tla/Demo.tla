-------------------------------- MODULE Demo --------------------------------
(***************************************************************************)
(* The two applications of the repository (src/src/app/demo.h, trivial.h)  *)
(* as programs for module Application.  Every Key is made with home 0.     *)
(***************************************************************************)
EXTENDS Application

CONSTANTS
    main, verify, check, triv,    \* the Keys
    numbers, sum, total, trivial  \* what is put under them

Put(k)        == [call |-> "put", key |-> k]
Fetch(k)      == [call |-> "get", key |-> k]
WaitFor(k)    == [call |-> "waitAndGet", key |-> k]

producer   == <<Put(main), Put(check)>>
counter    == <<WaitFor(main), Put(verify)>>
summarizer == <<WaitFor(verify), WaitFor(check)>>

(* Demo::run_: the switch over this_node().                                *)
DemoRun == [n \in Nodes |-> CASE n = 0 -> producer
                              [] n = 1 -> counter
                              [] n = 2 -> summarizer
                              [] OTHER -> << >>]

(* Trivial::run_, which is started on node 0 alone.                        *)
TrivialRun == [n \in Nodes |-> IF n = 0 THEN <<Put(triv), Fetch(triv)>> ELSE << >>]

BothRuns == {DemoRun, TrivialRun}
OnlyDemo == {DemoRun}

HomeIsZero == [k \in Keys |-> 0]
OwnName    == [k \in Keys |-> k]
PutValues  == [k \in Keys |-> CASE k = main -> {numbers} [] k = verify -> {sum}
                                [] k = check -> {total} [] k = triv -> {trivial}]

(* Who puts and who gets which Key, as the programs have it.               *)
CallersOf(c, k) ==
    {n \in Nodes : \E r \in {DemoRun, TrivialRun} : \E i \in DOMAIN r[n] :
        r[n][i].key = k /\ r[n][i].call \in c}
Putters == [k \in Keys |-> CallersOf({"put"}, k)]
Fetchers == [k \in Keys |-> CallersOf({"get"}, k)]
Awaiters == [k \in Keys |-> CallersOf({"waitAndGet"}, k)]
=============================================================================
