------------------------- MODULE ApplicationProofs -------------------------
(***************************************************************************)
(* Applications use the store as module KVStore has it, so the theorems    *)
(* about the store hold of every set of programs.                          *)
(***************************************************************************)
EXTENDS Application, BlackboardProofs

RunTyped == run \in Programs /\ ip \in [Nodes -> Nat \ {0}]

LEMMA RunStaysTyped == AppSpec => []RunTyped
<1>1. AppInit => RunTyped
  BY DEF AppInit, RunTyped
<1>2. RunTyped /\ [AppNext]_avars => RunTyped'
  <2> SUFFICES ASSUME RunTyped, [AppNext]_avars PROVE RunTyped'
    OBVIOUS
  <2>1. ASSUME NEW n \in Nodes, RunNext(n) PROVE RunTyped'
    BY <2>1 DEF RunTyped, RunNext
  <2>2. ASSUME UNCHANGED <<run, ip>> PROVE RunTyped'
    BY <2>2 DEF RunTyped
  <2>3. CASE UNCHANGED avars
    BY <2>2, <2>3 DEF avars
  <2>4. ASSUME NEW n \in Nodes, Advance(n) \/ Chance(n) PROVE RunTyped'
    BY <2>1, <2>2, <2>4 DEF Advance, Chance, Return
  <2> QED
    BY <2>2, <2>3, <2>4 DEF AppNext, Listening
<1> QED
  BY <1>1, <1>2, PTL DEF AppSpec

(* The call a program makes is one that a node can make.                   *)
LEMMA RunNextCalls ==
    ASSUME RunTyped, NEW n \in Nodes, RunNext(n)
    PROVE  Call(n)
<1> DEFINE c == run[n][ip[n]]
<1>1. c \in Calls
  <2>1. run[n] \in Seq(Calls)
    BY ProgramsTyped DEF RunTyped
  <2>2. ip[n] \in 1 .. Len(run[n])
    BY <2>1 DEF RunTyped, RunNext
  <2> QED
    BY <2>1, <2>2
<1>2. c.key \in Keys
  BY <1>1 DEF Calls
<1>3. Perform(n, c)
  BY DEF RunNext
<1> HIDE DEF c
<1> QED
  BY <1>2, <1>3 DEF Perform, Call

(* The steps of a program are calls of the store, and nothing else.        *)
LEMMA ProgramsUseTheStore == AppSpec => Spec
<1>1. AppInit => Init
  BY DEF AppInit
<1>2. RunTyped /\ [AppNext]_avars => [Next]_vars
  <2> SUFFICES ASSUME RunTyped, [AppNext]_avars PROVE [Next]_vars
    OBVIOUS
  <2>1. CASE UNCHANGED avars
    BY <2>1 DEF avars
  <2>2. ASSUME NEW n \in Nodes, Advance(n) PROVE Next
    BY <2>2, RunNextCalls DEF Advance, Return, Next
  <2>3. ASSUME NEW n \in Nodes, Chance(n) PROVE Next
    BY <2>3 DEF Chance, Next
  <2>4. CASE Listening
    BY <2>4 DEF Listening, Next
  <2> QED
    BY <2>1, <2>2, <2>3, <2>4 DEF AppNext
<1> QED
  BY <1>1, <1>2, RunStaysTyped, PTL DEF AppSpec, Spec

(* While a program waits and the home of the Key runs, its request is      *)
(* queued, held or listed there.                                           *)
THEOREM ProgramsStayListed == AppSpec => []WaiterStillListed
BY ProgramsUseTheStore, ListedCorrect

(* What is on its way to a program answers a request of that program.      *)
THEOREM ProgramsGetTheirAnswers == AppSpec => []AnswersOnlyTheAsked
BY ProgramsUseTheStore, AnswersCorrect

----------------------------------------------------------------------------
(* What the store counts as put, a program has put.                        *)
PutsMade == \A n \in Nodes, k \in Keys : puts[n][k] >= 1 => HasPut(n, k)

(* No step but a call of put counts as one.                                *)
LEMMA PutsOnlyByCalls ==
    ASSUME NEW n \in Nodes,
           \/ Continue(n) \/ Wake(n) \/ ScanFreed(n) \/ Exit(n) \/ Listen
           \/ \E k \in Keys : Get(n, k) \/ WaitAndGet(n, k)
    PROVE  puts' = puts
BY DEF Continue, ScanSkip, ScanMatch, Reply, PutDone, RecvData, RecvOther, Load, Wake, ScanFreed,
       Exit, Listen, ListenAccept, ListenAppend, Get, WaitAndGet

LEMMA PutsMadeNext ==
    ASSUME Inv, RunTyped, PutsMade, [AppNext]_avars
    PROVE  PutsMade'
<1>1. CASE UNCHANGED <<puts, run, ip>>
  BY <1>1 DEF PutsMade, HasPut, PutsAt
<1>2. ASSUME NEW n \in Nodes, RunNext(n) PROVE PutsMade'
  <2> DEFINE c == run[n][ip[n]]
  <2>1. c \in Calls /\ ip[n] \in Nat \ {0}
    <3>1. run[n] \in Seq(Calls)
      BY ProgramsTyped DEF RunTyped
    <3>2. ip[n] \in 1 .. Len(run[n])
      BY <3>1, <1>2 DEF RunTyped, RunNext
    <3> QED
      BY <3>1, <3>2 DEF RunTyped
  <2>2. run' = run /\ ip'[n] = ip[n] + 1 /\ \A x \in Nodes : x # n => ip'[x] = ip[x]
    BY <1>2 DEF RunNext, RunTyped
  <2>3. \A x \in Nodes, k \in Keys : HasPut(x, k) => HasPut(x, k)'
    <3>1. \A x \in Nodes : ip[x] \in Nat /\ 1 .. ip[x] - 1 \subseteq 1 .. ip'[x] - 1
      BY <2>2 DEF RunTyped
    <3> QED
      BY <2>2, <3>1 DEF HasPut, PutsAt
  <2>4. c.key \in Keys /\ c.call \in {"put", "get", "waitAndGet"} /\ Perform(n, c)
    BY <1>2, <2>1 DEF Calls, RunNext
  <2>5. CASE puts' = puts
    BY <2>3, <2>5 DEF PutsMade
  <2>6. CASE c.call = "put"
    <3>1. PICK j \in Keys : j = c.key
      BY <2>4
    <3>2. \E v \in ValuesFor[j] : PutAway(n, j, v) \/ PutHome(n, j, v)
      BY <2>4, <2>6, <3>1 DEF Perform
    <3>3. puts' = [puts EXCEPT ![n][j] = @ + 1]
      BY <3>2 DEF PutAway, PutHome
    <3>4. \A x \in Nodes, k \in Keys : x # n \/ k # j => puts'[x][k] = puts[x][k]
      BY <3>3 DEF Inv, TypeOK
    <3>5. run'[n][ip[n]].call = "put" /\ NameOf[run'[n][ip[n]].key] = NameOf[j]
      BY <2>2, <2>6, <3>1
    <3>6. ip[n] \in 1 .. ip'[n] - 1
      BY <2>1, <2>2
    <3>7. HasPut(n, j)'
      BY <3>5, <3>6 DEF HasPut, PutsAt
    <3> HIDE DEF c
    <3> QED
      BY <2>3, <3>4, <3>7 DEF PutsMade
  <2>7. CASE c.call # "put"
    <3>1. Get(n, c.key) \/ WaitAndGet(n, c.key)
      BY <2>4, <2>7 DEF Perform
    <3> QED
      BY <2>4, <2>5, <3>1, PutsOnlyByCalls
  <2> QED
    BY <2>6, <2>7
<1>3. ASSUME NEW n \in Nodes, Advance(n) \/ Chance(n) PROVE PutsMade'
  BY <1>1, <1>2, <1>3, PutsOnlyByCalls DEF Advance, Return, Chance
<1>4. CASE Listening
  BY <1>1, <1>4, ServerIsNode, PutsOnlyByCalls DEF Listening
<1>5. CASE UNCHANGED avars
  BY <1>1, <1>5 DEF avars, vars
<1> QED
  BY <1>3, <1>4, <1>5 DEF AppNext

(* Where every Key is put once as far as those who ask for it see, what a  *)
(* program holds under a Key it did not put, the program of the Key's home *)
(* has put: a put on a third node stays there, and no answer is taken for  *)
(* that of another wait.                                                   *)
THEOREM ProgramsSeeHomePuts == PutOnce => (AppSpec => []OnlyHomePutsAreSeen)
<1>1. AppInit => PutsMade
  <2>1. Init => \A n \in Nodes, k \in Keys : puts[n][k] = 0
    BY DEF Init
  <2> QED
    BY <2>1 DEF AppInit, PutsMade
<1>2. Inv /\ RunTyped /\ PutsMade /\ [AppNext]_avars => PutsMade'
  BY PutsMadeNext
<1>3. AnsweredOnce /\ PutsMade => OnlyHomePutsAreSeen
  BY KeysTyped DEF AnsweredOnce, Source, PutsMade, OnlyHomePutsAreSeen
<1>4. SUFFICES ASSUME PutOnce PROVE AppSpec => []OnlyHomePutsAreSeen
  OBVIOUS
<1>5. Spec => [](Inv /\ AnsweredOnce /\ PutUnderIt)
  BY <1>4, AnsweredOnceAlways
<1> QED
  BY <1>1, <1>2, <1>3, <1>5, ProgramsUseTheStore, RunStaysTyped, PTL DEF AppSpec

(* ... what it holds was put under that name, ...                          *)
THEOREM ProgramsGetRightAnswers == PutOnce => (AppSpec => []RightAnswer)
BY ProgramsUseTheStore, RightAnswerCorrect
=============================================================================
