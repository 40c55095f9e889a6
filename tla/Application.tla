---------------------------- MODULE Application ----------------------------
(***************************************************************************)
(* Applications on the store: Application::run_ (src/src/app/) calls the   *)
(* store of its own node, one call after the other, and main ends with it. *)
(* Module KVStore lets a node call anything at any time; here each node    *)
(* has a program, and two programs meet only through the store.            *)
(***************************************************************************)
EXTENDS KVStore

CONSTANT Programs   \* the applications: what run_ calls on each node

(* fromArray and fromScalar build a frame and put it.                      *)
Calls == [call : {"put", "get", "waitAndGet"}, key : Keys]

ASSUME ProgramsTyped == Programs \subseteq [Nodes -> Seq(Calls)]

VARIABLES
    run,   \* the application that was started
    ip     \* the number of the call that run_ of a node makes next

avars == <<vars, run, ip>>

AppInit ==
    /\ Init
    /\ run \in Programs
    /\ ip = [n \in Nodes |-> 1]

Perform(n, c) ==
    \/ /\ c.call = "put"
       /\ \E v \in ValuesFor[c.key] : PutAway(n, c.key, v) \/ PutHome(n, c.key, v)
    \/ c.call = "get" /\ Get(n, c.key)
    \/ c.call = "waitAndGet" /\ WaitAndGet(n, c.key)

(* run_ makes its next call.  What it does with a frame it was given is    *)
(* part of Load, which may end the process.                                *)
RunNext(n) ==
    /\ ip[n] <= Len(run[n])
    /\ Perform(n, run[n][ip[n]])
    /\ ip' = [ip EXCEPT ![n] = @ + 1]
    /\ UNCHANGED run

(* run_ is through, and main returns.                                      *)
Return(n) ==
    /\ ip[n] > Len(run[n])
    /\ Exit(n)
    /\ UNCHANGED <<run, ip>>

Advance(n) == RunNext(n) \/ Return(n) \/ (Continue(n) /\ UNCHANGED <<run, ip>>)

(* What nobody can count on: a spurious wakeup, a walk that meets append.  *)
Chance(n) == (Wake(n) \/ ScanFreed(n)) /\ UNCHANGED <<run, ip>>

Listening == Listen /\ UNCHANGED <<run, ip>>

AppNext == (\E n \in Nodes : Advance(n) \/ Chance(n)) \/ Listening

AppSpec == AppInit /\ [][AppNext]_avars

(* Programs run on; wakeups may stay away.                                 *)
AppFairness == (\A n \in Nodes : WF_avars(Advance(n))) /\ WF_avars(Listening)

AppFairSpec == AppSpec /\ AppFairness

----------------------------------------------------------------------------
PutsAt(n, k, i) == run[n][i].call = "put" /\ NameOf[run[n][i].key] = NameOf[k]
HasPut(n, k)  == \E i \in 1 .. ip[n] - 1 : PutsAt(n, k, i)
WillPut(n, k) == \E i \in ip[n] .. Len(run[n]) : PutsAt(n, k, i)

(* A node that did not put a Key itself holds a Value under it only after  *)
(* the program of the Key's home put that name: a put on a third node      *)
(* (Demo::counter puts verify) is seen by nobody, and no answer to an      *)
(* earlier wait of a program is taken for that of a later one.             *)
OnlyHomePutsAreSeen ==
    \A n \in Nodes, k \in Keys :
        kv[n][k] # None => HasPut(n, k) \/ HasPut(HomeOf[k], k)

(* A request that is listed before the program of the home comes to its    *)
(* put ends its wait, unless the home crashes: the put of the program will *)
(* read a length that covers it, walk that far and answer before main      *)
(* returns.                                                                *)
ListedInTimeIsAnswered ==
    \A k \in Keys : \A n \in Waiters[k] :
        (/\ WaitsFor(n, k) /\ WillPut(HomeOf[k], k)
         /\ Requests(pending[HomeOf[k]], n, NameOf[k]))
            ~> (~WaitsFor(n, k) \/ proc[HomeOf[k]] = "crashed")

(* A program that only puts (Demo::producer) ends: no put waits for whoever *)
(* asked, whether they are alive, full of answers or gone.                 *)
PuttersEnd ==
    \A n \in Nodes :
        (\A i \in DOMAIN run[n] : run[n][i].call = "put") ~> (proc[n] # "up")

(* A Key that was put anywhere is in the store of its home.                *)
KeyIsAtHome ==
    \A n \in Nodes, k \in Keys : HasPut(n, k) => kv[HomeOf[k]][k] # None
=============================================================================
