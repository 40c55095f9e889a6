----------------------------- MODULE MCKVStore -----------------------------
(***************************************************************************)
(* KVStore for TLC: node 0 (s) and two clients (a, b); Keys k and j live   *)
(* on node 0, c on client a; each Key has one Value of its own.            *)
(***************************************************************************)
EXTENDS KVStore

CONSTANTS s, a, b, k, j, c, kv1, jv1, cv1

MCHomeOf == [x \in Keys |-> IF x = c THEN a ELSE s]
MCNameOf == [x \in Keys |-> x]
MCValuesFor == [x \in Keys |-> IF x = k THEN {kv1} ELSE IF x = j THEN {jv1} ELSE {cv1}]

(* Writers, Waiters and Getters.  In store_protocol b puts and gets c,     *)
(* which does not live on it.                                              *)
AtHome == [x \in Keys |-> {MCHomeOf[x]}]
CAway == [x \in Keys |-> IF x = c THEN {b} ELSE {s}]

Mixed == [x \in Keys |-> IF x = k THEN {b} ELSE IF x = j THEN {a} ELSE {s}]
TwoOneOne == [x \in Keys |-> IF x = k THEN {a, b} ELSE IF x = j THEN {a} ELSE {s}]

Nobody == [x \in Keys |-> {}]
CByB == [x \in Keys |-> IF x = c THEN {b} ELSE {}]
=============================================================================
