------------------------------ MODULE KVStore ------------------------------
(***************************************************************************)
(* What the engine promises its clients (spec.md, sections 6 to 8): a map *)
(* from keys to values with set, get, delete and format.  A rejected set   *)
(* (value too large, read-only device, index full) leaves the map as it   *)
(* was; get returns the value of the last successful set of the key not   *)
(* followed by a delete or a format.  Garbage collection and metadata     *)
(* flushes are internal and change nothing a client can see.              *)
(*                                                                         *)
(* reply is the answer of the last call, as the client sees it.           *)
(***************************************************************************)
CONSTANTS Keys, Vals, NoKey, NoVal

VARIABLES dict, reply

Answer(op, k, v, ok) == [op |-> op, key |-> k, val |-> v, ok |-> ok]

TypeOK ==
    /\ dict \in [Keys -> Vals \cup {NoVal}]
    /\ reply \in [op : {"none", "set", "get", "del", "format"},
                  key : Keys \cup {NoKey}, val : Vals \cup {NoVal}, ok : BOOLEAN]

Init ==
    /\ dict = [k \in Keys |-> NoVal]
    /\ reply = Answer("none", NoKey, NoVal, TRUE)

Set(k, v) ==
    /\ dict' = [dict EXCEPT ![k] = v]
    /\ reply' = Answer("set", k, v, TRUE)

\* TooLarge, ReadOnly and IndexFull: reported, the map is unchanged.
SetRejected(k, v) ==
    /\ reply' = Answer("set", k, v, FALSE)
    /\ UNCHANGED dict

Get(k) ==
    /\ reply' = Answer("get", k, dict[k], dict[k] # NoVal)
    /\ UNCHANGED dict

Delete(k) ==
    /\ dict' = [dict EXCEPT ![k] = NoVal]
    /\ reply' = Answer("del", k, NoVal, dict[k] # NoVal)

Format ==
    /\ dict' = [k \in Keys |-> NoVal]
    /\ reply' = Answer("format", NoKey, NoVal, TRUE)

Next ==
    \/ \E k \in Keys, v \in Vals : Set(k, v) \/ SetRejected(k, v)
    \/ \E k \in Keys : Get(k) \/ Delete(k)
    \/ Format

Spec == Init /\ [][Next]_<<dict, reply>>
=============================================================================
