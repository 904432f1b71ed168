----------------------------- MODULE MCDuckDns -----------------------------
(***************************************************************************)
(* DuckDns on small instances: two hostnames that may be swapped, a board  *)
(* and a PC that come, go and move.                                        *)
(***************************************************************************)
EXTENDS DuckDns, TLC

CONSTANTS e1, p1, p2, h1, h2

\* Two neighbours with an address each, or a PC renumbered on its own.
OneEach == [r \in Records |-> IF r = "esp" THEN {e1} ELSE {p1}]
PcMoves == [r \in Records |-> IF r = "esp" THEN {} ELSE {p1, p2}]

\* Swapping the two hostnames everywhere changes nothing.
AnyHost == Permutations(Hosts)

\* For the liveness run, where symmetry is not sound: DDNS on, hostnames fixed
\* (with MaxRevision 0 neither changes).
Named    == Init /\ enabled /\ label = [r \in Records |->
                                       IF r = "esp" THEN h1 ELSE h2]
LiveSpec == Named /\ [][Next]_vars /\ Fairness
=============================================================================
