---------------------------- MODULE WakeService ----------------------------
(***************************************************************************)
(* What the board promises to the network, whatever its supervisor does:   *)
(* after a restart it offers either the setup portal, alone on port 80, or *)
(* the LAN, a pair of HTTP and HTTPS servers beside the Alexa bridge that  *)
(* owns port 80.  From the LAN there is no way back to the portal but      *)
(* through a restart, because the bridge cannot give its port up.  A       *)
(* server that is offered may fail to start; one that listens was offered. *)
(***************************************************************************)
EXTENDS Naturals

VARIABLES
    offered,  \* the ports of the web servers the board has made
    web,      \* the ports of those that listen
    bridge    \* the Alexa bridge listens on BridgePort

vars == <<offered, web, bridge>>

BridgePort == 80

MaxPort    == 65535

IsLanPort(p) == p \in 1 .. MaxPort /\ p # BridgePort

\* An HTTP and an HTTPS server on ports of their own.
IsServerPair(s) ==
    \E p, q \in s : s = {p, q} /\ p # q /\ IsLanPort(p) /\ IsLanPort(q)

Init == offered = {} /\ web = {} /\ bridge = FALSE

Restart ==
    /\ offered' = {}
    /\ web' = {}
    /\ bridge' = FALSE

OpenPortal ==
    /\ ~bridge
    /\ offered' = {BridgePort}
    /\ web' \subseteq offered'
    /\ UNCHANGED bridge

ServeLan ==
    /\ IsServerPair(offered')
    /\ web' \subseteq offered'
    /\ bridge' = TRUE

Next == Restart \/ OpenPortal \/ ServeLan

Spec == Init /\ [][Next]_vars
=============================================================================
