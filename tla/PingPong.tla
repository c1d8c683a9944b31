------------------------------ MODULE PingPong ------------------------------
(***************************************************************************)
(* What both context-switch measurements promise: rounds of strict turn    *)
(* taking.  A round is Trips round trips of one byte, and a side moves     *)
(* only after the other has answered, so that every move is a switch.      *)
(***************************************************************************)
EXTENDS Naturals

CONSTANTS
    Rounds,   \* N_trials
    Trips     \* N_iterations

VARIABLES round, sent, returned

vars == <<round, sent, returned>>

Init == round = 1 /\ sent = 0 /\ returned = 0

Ping ==
    /\ sent = returned
    /\ sent < Trips
    /\ sent' = sent + 1
    /\ UNCHANGED <<round, returned>>

Pong ==
    /\ returned < sent
    /\ returned' = returned + 1
    /\ UNCHANGED <<round, sent>>

NextRound ==
    /\ returned = Trips
    /\ round < Rounds
    /\ round' = round + 1
    /\ sent' = 0
    /\ returned' = 0

Next == Ping \/ Pong \/ NextRound

Spec == Init /\ [][Next]_vars
=============================================================================
