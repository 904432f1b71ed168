----------------------------- MODULE ReportLink -----------------------------
(***************************************************************************)
(* What the serial protocol makes of a lossy line without checksums: the   *)
(* helper offers one address at a time; of all offers at most one report   *)
(* is on its way, which the board hears once or never; and an address      *)
(* counts as reported only while the board has last heard that very offer. *)
(***************************************************************************)
CONSTANTS Nonces, Addresses, Accepted, None

VARIABLES
    present,    \* the address the PC has
    offer,      \* the helper's open transaction, if there is one
    onWay,      \* the report that may still reach the board, if there is one
    heard,      \* the last report the board has acted on
    reported,   \* the address the helper will not offer again until it changes
    auto,       \* the board follows what it hears
    target      \* the address the board works with

vars == <<present, offer, onWay, heard, reported, auto, target>>

Init ==
    /\ present \in Addresses
    /\ offer = {} /\ onWay = {}
    /\ heard = [n |-> None, a |-> None] /\ reported = None
    /\ auto \in BOOLEAN /\ target \in Accepted

\* What the PC has now; a report still on its way is of another transaction.
Offer(n) ==
    /\ offer = {} /\ \A r \in onWay : r.n # n
    /\ offer' = {[n |-> n, a |-> present]}
    /\ UNCHANGED <<present, onWay, heard, reported, auto, target>>

\* When an offer is sent, no earlier one can arrive any more.
Send ==
    /\ offer # {} /\ onWay = {}
    /\ onWay' = offer
    /\ UNCHANGED <<present, offer, heard, reported, auto, target>>

Lose ==
    /\ onWay' = {}
    /\ UNCHANGED <<present, offer, heard, reported, auto, target>>

\* What arrives late, after its transaction was given up, is still heard.
Hear ==
    /\ \E r \in onWay :
           /\ r.a \in Accepted
           /\ heard' = r
           /\ target' = IF auto THEN r.a ELSE target
    /\ onWay' = {}
    /\ UNCHANGED <<present, offer, reported, auto>>

Conclude ==
    /\ \E r \in offer : heard = r /\ reported' = r.a
    /\ offer' = {}
    /\ UNCHANGED <<present, onWay, heard, auto, target>>

GiveUp ==
    /\ offer' = {}
    /\ reported' \in {reported, None}
    /\ UNCHANGED <<present, onWay, heard, auto, target>>

\* The user decides, or the board infers.
Choose ==
    /\ auto' \in BOOLEAN /\ target' \in Accepted
    /\ UNCHANGED <<present, offer, onWay, heard, reported>>

Move ==
    /\ present' \in Addresses
    /\ UNCHANGED <<offer, onWay, heard, reported, auto, target>>

Next ==
    \/ Move \/ \E n \in Nonces : Offer(n)
    \/ Send \/ Lose \/ Hear \/ Conclude \/ GiveUp \/ Choose

Spec == Init /\ [][Next]_vars
=============================================================================
