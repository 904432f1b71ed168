------------------------------ MODULE HttpPool ------------------------------
(***************************************************************************)
(* What a server of lib/esp32_https_server promises its clients: while it  *)
(* is open it admits those who wait, at most maxConnections at a time;     *)
(* once it begins to close it admits nobody; closed, it has let go of all. *)
(***************************************************************************)
EXTENDS Naturals, FiniteSets

CONSTANTS Clients, MaxConnections

VARIABLES status, waiting, admitted

vars == <<status, waiting, admitted>>

Init == status = "closed" /\ waiting = {} /\ admitted = {}

Open  == status = "closed" /\ status' = "open" /\ UNCHANGED <<waiting, admitted>>
Close == status = "open" /\ status' = "closing" /\ UNCHANGED <<waiting, admitted>>

Arrive(c) ==
    /\ status # "closed" /\ c \notin waiting \cup admitted
    /\ waiting' = waiting \cup {c}
    /\ UNCHANGED <<status, admitted>>

GiveUp(c) ==
    /\ c \in waiting
    /\ waiting' = waiting \ {c}
    /\ UNCHANGED <<status, admitted>>

Admit(c) ==
    /\ status = "open" /\ c \in waiting
    /\ Cardinality(admitted) < MaxConnections
    /\ waiting' = waiting \ {c}
    /\ admitted' = admitted \cup {c}
    /\ UNCHANGED status

Dismiss ==
    /\ \E left \in SUBSET admitted : admitted' = left
    /\ UNCHANGED <<status, waiting>>

Closed ==
    /\ status = "closing" /\ status' = "closed"
    /\ waiting' = {} /\ admitted' = {}

Next ==
    \/ Open \/ Close \/ Closed \/ Dismiss
    \/ \E c \in Clients : Arrive(c) \/ GiveUp(c) \/ Admit(c)

Spec == Init /\ [][Next]_vars
=============================================================================
