---------------------------- MODULE DnsPublisher ----------------------------
(***************************************************************************)
(* What the DuckDNS client promises: one request at a time, about a        *)
(* hostname and an address that were a record's own when it was made;      *)
(* nothing else writes a DNS record; and an address counts as published    *)
(* only for the hostname it was confirmed for, while both are still those  *)
(* of the record - whatever is saved, moved or lost in between.            *)
(***************************************************************************)
CONSTANTS Hosts, Addr, NoAddr

VARIABLES
    enabled, label,     \* the configuration
    address,            \* of the two machines
    request,            \* the request under way, if there is one
    confirmed,          \* of each record: the hostname and address, if any
    zone, answer        \* the DNS records, and what a resolver says of them

vars == <<enabled, label, address, request, confirmed, zone, answer>>

Records   == {"esp", "pc"}
MaybeAddr == Addr \cup {NoAddr}
Nothing   == [r \in Records |-> {}]

Init ==
    /\ enabled \in BOOLEAN /\ label \in [Records -> Hosts]
    /\ address = [r \in Records |-> NoAddr]
    /\ request = {} /\ confirmed = Nothing
    /\ zone = [h \in Hosts |-> NoAddr] /\ answer = zone

Asked(r) == [record |-> r, host |-> label[r], address |-> address[r],
             outcome |-> "pending"]

\* The request speaks of what its record is now.
Current(q) == q.host = label[q.record] /\ q.address = address[q.record]

\* The last request is over and may be confirmed; the next may begin.
Turn ==
    /\ \A q \in request : q.outcome # "pending"
    /\ \/ request' = {}
       \/ \E r \in Records : enabled /\ address[r] # NoAddr /\ request' = {Asked(r)}
    /\ \/ UNCHANGED confirmed
       \/ \E q \in request :
              /\ q.outcome = "ok" /\ Current(q)
              /\ confirmed' = [confirmed EXCEPT ![q.record] = {<<q.host, q.address>>}]
    /\ UNCHANGED <<enabled, label, address, zone, answer>>

\* DNS already has the address, or it gets it, whether or not the answer comes
\* back; or nothing happens.
End(outcome) ==
    \E q \in request :
        /\ q.outcome = "pending" /\ request' = {[q EXCEPT !.outcome = outcome]}
        /\ \/ outcome = "ok" /\ answer[q.host] = q.address /\ UNCHANGED zone
           \/ zone' = [zone EXCEPT ![q.host] = q.address]
           \/ outcome = "failed" /\ UNCHANGED zone
        /\ UNCHANGED <<enabled, label, address, confirmed, answer>>

Configure ==
    /\ enabled' \in BOOLEAN /\ label' \in [Records -> Hosts]
    /\ enabled' => label'["esp"] # label'["pc"]
    /\ address' \in [Records -> MaybeAddr]
    /\ confirmed' = Nothing
    /\ UNCHANGED <<request, zone, answer>>

Restart ==
    /\ address' \in [Records -> MaybeAddr]
    /\ request' = {} /\ confirmed' = Nothing
    /\ UNCHANGED <<enabled, label, zone, answer>>

Move ==
    /\ address' \in [Records -> MaybeAddr]
    /\ UNCHANGED <<enabled, label, request, confirmed, zone, answer>>

Refresh(h) ==
    /\ answer' = [answer EXCEPT ![h] = zone[h]]
    /\ UNCHANGED <<enabled, label, address, request, confirmed, zone>>

Next ==
    \/ Move \/ Configure \/ Restart
    \/ Turn \/ \E o \in {"ok", "failed"} : End(o)
    \/ \E h \in Hosts : Refresh(h)

Spec == Init /\ [][Next]_vars
=============================================================================
