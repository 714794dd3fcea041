------------------------- MODULE ObservationRegister -------------------------
(***************************************************************************)
(* What a registration with the contract manager promises: its reads never *)
(* go back in time, and never to before the registration was made.         *)
(***************************************************************************)
EXTENDS Integers

CONSTANTS Keys, Unregistered

VARIABLES
    now,
    floor  \* per contract, the moment the latest observation shows

Init == now = 0 /\ floor = [k \in Keys |-> Unregistered]

Register(k) == floor[k] = Unregistered /\ floor' = [floor EXCEPT ![k] = now] /\ UNCHANGED now

Unregister(k) == floor[k] # Unregistered /\ floor' = [floor EXCEPT ![k] = Unregistered] /\ UNCHANGED now

Observe(k) ==
    /\ floor[k] # Unregistered
    /\ \E moment \in floor[k] .. now : floor' = [floor EXCEPT ![k] = moment]
    /\ UNCHANGED now

Pass == now' = now + 1 /\ UNCHANGED floor

Next == Pass \/ \E k \in Keys : Register(k) \/ Unregister(k) \/ Observe(k)

Spec == Init /\ [][Next]_<<now, floor>>
==============================================================================
