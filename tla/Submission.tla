------------------------------ MODULE Submission ------------------------------
(***************************************************************************)
(* What the submission journal promises of every action that spends money: *)
(* it is reserved durably before it leaves the process, it leaves at most  *)
(* once, and its reservation can be taken back only while it never left.   *)
(* A repeatable action conflicts with itself on chain, so it may leave     *)
(* more than once, but its reservation stays.                              *)
(***************************************************************************)
EXTENDS Integers

CONSTANTS Submissions, Repeatable

VARIABLES reserved, broadcasts

Init == reserved = {} /\ broadcasts = [a \in Submissions |-> 0]

Reserve(a) ==
    /\ a \notin reserved
    /\ reserved' = reserved \union {a}
    /\ UNCHANGED broadcasts

Broadcast(a) ==
    /\ a \in reserved
    /\ broadcasts[a] = 0 \/ a \in Repeatable
    /\ broadcasts' = [broadcasts EXCEPT ![a] = @ + 1]
    /\ UNCHANGED reserved

Release(a) ==
    /\ a \in reserved \ Repeatable
    /\ broadcasts[a] = 0
    /\ reserved' = reserved \ {a}
    /\ UNCHANGED broadcasts

Next == \E a \in Submissions : Reserve(a) \/ Broadcast(a) \/ Release(a)

Spec == Init /\ [][Next]_<<reserved, broadcasts>>
==============================================================================
