--------------------------- MODULE MCWakeStation ---------------------------
(***************************************************************************)
(* WakeStation on small instances: a home network with a password and a    *)
(* cafe without one.                                                       *)
(***************************************************************************)
EXTENDS WakeStation

CONSTANTS home, cafe, p1

TwoRouters == [n \in {home, cafe} |-> IF n = home THEN p1 ELSE Open]
HomeRouter == [n \in {home} |-> p1]

\* One ordinary port, the last one, and one that only validation keeps out.
SavedPorts   == {2443, 65535, 79}
\* Never stored, and what a firmware without the Alexa bridge may have stored.
LegacyPorts  == {0, 80, 2443}
OnePort      == {2443}
=============================================================================
