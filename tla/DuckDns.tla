------------------------------ MODULE DuckDns ------------------------------
(***************************************************************************)
(* The DuckDNS client: pollDdns, run by loop(), hands the worker task one  *)
(* job at a time through a queue of length one and takes its result from   *)
(* another; the worker asks a public resolver for the AAAA record and      *)
(* writes it at duckdns.org only when it differs.  While a job is under    *)
(* way the addresses, the configuration and the power may change.          *)
(*                                                                         *)
(* An address is a model value.  The retry interval of a record is the     *)
(* flag "due"; how long it is (30 s doubling with failures, 300 s without) *)
(* is time, the number of failures beyond the first as well.               *)
(***************************************************************************)
EXTENDS Integers

CONSTANTS
    Hosts,         \* DuckDNS hostnames
    Addr,          \* global IPv6 addresses
    NoAddr,        \* the empty string
    Candidates,    \* the addresses each record's machine may get
    MaxRevision,   \* bound on ddnsRevision
    None           \* an empty queue

Records == {"esp", "pc"}
Other(r) == IF r = "esp" THEN "pc" ELSE "esp"

ASSUME DnsAssumption ==
    /\ NoAddr \notin Addr
    /\ Candidates \in [Records -> SUBSET Addr]
    /\ MaxRevision \in Nat
    /\ None \notin [record: Records, host: Hosts, address: Addr,
                    revision: 0 .. MaxRevision]
    /\ None \notin [record: Records, host: Hosts, address: Addr,
                    revision: 0 .. MaxRevision, ok: BOOLEAN]

VARIABLES
    enabled,    \* ddnsEnabled
    label,      \* espHostname and pcHostname
    revision,   \* ddnsRevision
    address,    \* currentGlobalIpv6() and pcIpv6
    helper,     \* the helper's last report is fresh, or not needed
    online,     \* WiFi.status() == WL_CONNECTED and the clock is set
    rec,        \* espDdnsState and pcDdnsState
    next,       \* the record pollDdns looks at first (ddnsNextPc)
    busy,       \* ddnsBusy
    jobs,       \* ddnsJobQueue
    results,    \* ddnsResultQueue
    worker,     \* where the worker task is, if it could be created
    held,       \* its local copy of the job, and then of the result
    zone,       \* external: the AAAA record of each hostname
    answer      \* external: what the resolver says, perhaps from its cache

settings == <<enabled, label, revision>>
machine  == <<address, helper, online>>
poller   == <<rec, next, busy>>
task     == <<worker, held>>
dns      == <<zone, answer>>
vars     == <<settings, machine, poller, jobs, results, task, dns>>

-----------------------------------------------------------------------------
Jobs    == [record: Records, host: Hosts, address: Addr,
            revision: 0 .. MaxRevision]
Results == [record: Records, host: Hosts, address: Addr,
            revision: 0 .. MaxRevision, ok: BOOLEAN]
MaybeAddr == Addr \cup {NoAddr}

\* DdnsRecordState; "on" is history: the hostname the published address was
\* confirmed for.
States   == [published: MaybeAddr, on: Hosts, failing: BOOLEAN,
             attempted: BOOLEAN, due: BOOLEAN]
Fresh(h) == [published |-> NoAddr, on |-> h, failing |-> FALSE,
             attempted |-> FALSE, due |-> FALSE]
FreshRecords == [r \in Records |-> Fresh(label[r])]

\* handleSaveConfig turns DDNS on for two different hostnames only.
Accepted(on, l) == on => l["esp"] # l["pc"]

TypeOK ==
    /\ enabled \in BOOLEAN
    /\ label \in [Records -> Hosts]
    /\ revision \in 0 .. MaxRevision
    /\ address \in [Records -> MaybeAddr]
    /\ helper \in BOOLEAN
    /\ online \in BOOLEAN
    /\ rec \in [Records -> States]
    /\ next \in Records
    /\ busy \in BOOLEAN
    /\ jobs \in Jobs \cup {None}
    /\ results \in Results \cup {None}
    /\ worker \in {"absent", "waiting", "lookup", "update", "reply"}
    /\ held \in Jobs \cup Results \cup {None}
    /\ zone \in [Hosts -> MaybeAddr]
    /\ answer \in [Hosts -> MaybeAddr]

-----------------------------------------------------------------------------
(* pollDdns *)

\* Mutant: a result counts although the configuration has changed since.
StillWantedAnyRevision(result) == address[result.record] = result.address

\* A result counts for the configuration and the address it was asked for.
StillWanted(result) ==
    /\ result.revision = revision
    /\ address[result.record] = result.address

\* What one result makes of its record.
Recorded(state, result) ==
    IF ~StillWanted(result) THEN state
    ELSE IF result.ok
         THEN [state EXCEPT !.published = result.address,
                            !.on = result.host, !.failing = FALSE]
         ELSE [state EXCEPT !.failing = TRUE]

\* The records once the result queue, if it holds anything, has been emptied.
Received ==
    IF results = None THEN rec
    ELSE [rec EXCEPT ![results.record] = Recorded(@, results)]

\* ddnsBusy is cleared by any result.
StillBusy == busy /\ results = None

CanSubmit == enabled /\ ~StillBusy /\ online /\ worker # "absent"

\* Mutant: an address published once is never compared with DNS again.
WantsUnpublished(r) ==
    /\ address[r] # NoAddr
    /\ r = "pc" => helper
    /\ ~ /\ Received[r].attempted
         /\ \/ Received[r].failing /\ ~Received[r].due
            \/ Received[r].published = address[r]

\* pollDdns submits the record unless something makes it wait.
Wants(r) ==
    /\ address[r] # NoAddr
    /\ r = "pc" => helper
    /\ ~ /\ Received[r].attempted
         /\ ~Received[r].due
         /\ Received[r].failing \/ Received[r].published = address[r]

\* Mutant: the job is stamped with the revision to come.
JobForNextRevision(r) ==
    [record |-> r, host |-> label[r], address |-> address[r],
     revision |-> revision + 1]

JobFor(r) == [record |-> r, host |-> label[r], address |-> address[r],
              revision |-> revision]

\* xQueueSend without waiting: a full queue keeps what it holds.
QueueFree == jobs = None

\* Mutants: the job is not counted as under way; the other record never gets
\* its turn.
BusyAfterForgotten == StillBusy
NextAfterStuck(r)  == next

BusyAfter == StillBusy \/ QueueFree

\* ddnsNextPc is flipped for every record looked at: both when only the second
\* is submitted, so the record after the submitted one is looked at first.
NextAfter(r) == Other(r)

PollSubmits(r) ==
    /\ CanSubmit
    /\ Wants(r)
    /\ r = next \/ ~Wants(next)
    /\ results' = None
    /\ next' = NextAfter(r)
    /\ busy' = BusyAfter
    /\ jobs' = IF QueueFree THEN JobFor(r) ELSE jobs
    /\ rec' = IF QueueFree
              THEN [Received EXCEPT ![r].attempted = TRUE, ![r].due = FALSE]
              ELSE Received
    /\ UNCHANGED <<settings, machine, task, dns>>

PollReceives ==
    /\ results # None
    /\ ~CanSubmit \/ \A r \in Records : ~Wants(r)
    /\ results' = None
    /\ rec' = Received
    /\ busy' = StillBusy
    /\ UNCHANGED <<settings, machine, next, jobs, task, dns>>

\* The retry interval of a record is over.
RetryElapses(r) ==
    /\ rec[r].attempted /\ ~rec[r].due
    /\ rec' = [rec EXCEPT ![r].due = TRUE]
    /\ UNCHANGED <<settings, machine, next, busy, jobs, results, task, dns>>

-----------------------------------------------------------------------------
(* ddnsWorker *)

\* xQueueReceive with portMAX_DELAY.
WorkerReceives ==
    /\ worker = "waiting"
    /\ jobs # None
    /\ held' = jobs
    /\ jobs' = None
    /\ worker' = "lookup"
    /\ UNCHANGED <<settings, machine, poller, results, dns>>

Outcome(job, ok) ==
    [record |-> job.record, host |-> job.host, address |-> job.address,
     revision |-> job.revision, ok |-> ok]

\* Mutant: the record is written whatever the resolver says.
ShouldUpdateAlways(seen, wanted) == TRUE

\* shouldUpdateDuckRecord, after a lookup that succeeded.
ShouldUpdate(seen, wanted) == seen # wanted

LookupFails ==
    /\ worker = "lookup"
    /\ held' = Outcome(held, FALSE)
    /\ worker' = "reply"
    /\ UNCHANGED <<settings, machine, poller, jobs, results, dns>>

LookupAnswers(r) ==
    /\ worker = "lookup"
    /\ held.record = r
    /\ IF ShouldUpdate(answer[held.host], held.address)
       THEN worker' = "update" /\ held' = held
       ELSE worker' = "reply" /\ held' = Outcome(held, TRUE)
    /\ UNCHANGED <<settings, machine, poller, jobs, results, dns>>

\* DuckDNS stores the address and says OK.
UpdateSucceeds(r) ==
    /\ worker = "update"
    /\ held.record = r
    /\ zone' = [zone EXCEPT ![held.host] = held.address]
    /\ held' = Outcome(held, TRUE)
    /\ worker' = "reply"
    /\ UNCHANGED <<settings, machine, poller, jobs, results, answer>>

\* The request, or only the answer to it, is lost or refused.
UpdateFails ==
    /\ worker = "update"
    /\ zone' \in {zone, [zone EXCEPT ![held.host] = held.address]}
    /\ held' = Outcome(held, FALSE)
    /\ worker' = "reply"
    /\ UNCHANGED <<settings, machine, poller, jobs, results, answer>>

\* xQueueSend with portMAX_DELAY: it blocks while the queue is full.
WorkerReplies ==
    /\ worker = "reply"
    /\ results = None
    /\ results' = held
    /\ held' = None
    /\ worker' = "waiting"
    /\ UNCHANGED <<settings, machine, poller, jobs, dns>>

-----------------------------------------------------------------------------
(* handleSaveConfig, resetDiscoveryConfig, restarts *)

\* The DuckDNS settings of handleSaveConfig: new ones, the token included ...
NewSettings(on, l) ==
    /\ Accepted(on, l)
    /\ revision < MaxRevision
    /\ enabled' = on
    /\ label' = l
    /\ revision' = revision + 1
    /\ rec' = [r \in Records |-> Fresh(l[r])]

\* ... or the old ones, which leave the records alone.
SameSettings(on, l) ==
    /\ <<on, l>> = <<enabled, label>>
    /\ UNCHANGED <<settings, rec>>

\* In manual mode the form also brings the PC's address a.
SaveDdns(on, l, a) ==
    /\ NewSettings(on, l) \/ SameSettings(on, l)
    /\ address' = [address EXCEPT !["pc"] = a]
    /\ UNCHANGED <<helper, online, next, busy, jobs, results, task, dns>>

\* startDdnsWorker: without memory for the queues or the task there is no worker
\* until the next restart.
WorkerStarts == worker' \in {"waiting", "absent"}

\* A restart loses the job and the result; the settings are in Preferences.
Restart ==
    /\ revision' = 0
    /\ rec' = FreshRecords
    /\ next' = "esp"
    /\ busy' = FALSE
    /\ jobs' = None
    /\ results' = None
    /\ WorkerStarts
    /\ held' = None
    /\ online' = FALSE
    /\ address' = [address EXCEPT !["esp"] = NoAddr]
    /\ UNCHANGED <<enabled, label, helper, dns>>

-----------------------------------------------------------------------------
(* Addresses, helper, network and resolver *)

EspAddressChanges(a) ==
    /\ a # address["esp"]
    /\ address' = [address EXCEPT !["esp"] = a]
    /\ UNCHANGED <<settings, helper, online, poller, jobs, results, task, dns>>

\* handleSerialLine takes over what the helper reports, the same IPv6 address with
\* another IPv4 one too; syncPcIpv6Prefix infers an address (and forgets the
\* failures).
PcAddressReported(a) ==
    /\ address' = [address EXCEPT !["pc"] = a]
    /\ rec' = [rec EXCEPT !["pc"].attempted = FALSE]
    /\ UNCHANGED <<settings, helper, online, next, busy, jobs, results, task,
                   dns>>

PcAddressInferred(a) ==
    /\ NoAddr \notin {a, address["pc"]}
    /\ a # address["pc"]
    /\ address' = [address EXCEPT !["pc"] = a]
    /\ rec' = [rec EXCEPT !["pc"].attempted = FALSE, !["pc"].failing = FALSE]
    /\ UNCHANGED <<settings, helper, online, next, busy, jobs, results, task,
                   dns>>

HelperChanges ==
    /\ helper' = ~helper
    /\ UNCHANGED <<settings, address, online, poller, jobs, results, task, dns>>

\* The clock, once set, stays set: it is the link that is lost, and with it
\* the address.
OnlineChanges ==
    /\ online' = ~online
    /\ address' = IF online THEN [address EXCEPT !["esp"] = NoAddr]
                           ELSE address
    /\ UNCHANGED <<settings, helper, poller, jobs, results, task, dns>>

\* The resolver's cached answer expires.
CacheExpires(h) ==
    /\ answer[h] # zone[h]
    /\ answer' = [answer EXCEPT ![h] = zone[h]]
    /\ UNCHANGED <<settings, machine, poller, jobs, results, task, zone>>

-----------------------------------------------------------------------------
\* Registered hostnames without a record yet.
Init ==
    /\ enabled \in BOOLEAN
    /\ label \in [Records -> Hosts]
    /\ Accepted(enabled, label)
    /\ revision = 0
    /\ address = [r \in Records |-> NoAddr]
    /\ helper = FALSE
    /\ online = FALSE
    /\ rec = FreshRecords
    /\ next = "esp"
    /\ busy = FALSE
    /\ jobs = None
    /\ results = None
    /\ worker \in {"waiting", "absent"}
    /\ held = None
    /\ zone = [h \in Hosts |-> NoAddr]
    /\ answer = zone

Poll == PollReceives \/ \E r \in Records : PollSubmits(r)

Worker ==
    \/ WorkerReceives
    \/ LookupFails \/ \E r \in Records : LookupAnswers(r)
    \/ UpdateFails \/ \E r \in Records : UpdateSucceeds(r)
    \/ WorkerReplies

\* What the addresses and hostnames, and so the wanted records, depend on.
Disturbance ==
    \/ \E on \in BOOLEAN, l \in [Records -> Hosts],
          a \in Candidates["pc"] \cup {address["pc"], NoAddr} : SaveDdns(on, l, a)
    \/ Restart
    \/ \E a \in Candidates["esp"] \cup {NoAddr} : EspAddressChanges(a)
    \/ \E a \in Candidates["pc"] \cup {NoAddr} :
           PcAddressReported(a) \/ PcAddressInferred(a)
    \/ HelperChanges
    \/ OnlineChanges

Next ==
    \/ Poll
    \/ Worker
    \/ Disturbance
    \/ \E r \in Records : RetryElapses(r)
    \/ \E h \in Hosts : CacheExpires(h)

Spec == Init /\ [][Next]_vars

\* Both tasks run, time passes, caches expire, and a record whose lookups and
\* updates are tried again and again is not refused forever.
Fairness ==
    /\ WF_vars(Poll)
    /\ WF_vars(Worker)
    /\ \A r \in Records : /\ WF_vars(RetryElapses(r))
                          /\ SF_vars(LookupAnswers(r))
                          /\ SF_vars(UpdateSucceeds(r))
    /\ \A h \in Hosts : WF_vars(CacheExpires(h))

FairSpec == Spec /\ Fairness

-----------------------------------------------------------------------------
(* Properties *)

\* At most one job is under way, in the job queue, at the worker or in the
\* result queue, and ddnsBusy says exactly whether there is one: so xQueueSend
\* in pollDdns never finds the queue full, and the worker never blocks on a
\* result nobody takes, whatever saves and timeouts come in between.
OneJob ==
    /\ jobs # None => worker = "waiting" /\ results = None
    /\ worker # "waiting" => results = None
    /\ busy <=> \/ jobs # None \/ results # None
                \/ worker \notin {"waiting", "absent"}

\* An address recorded as published was confirmed for the hostname that is
\* configured now, never for one that a late result still speaks of.
PublishedForLabel ==
    \A r \in Records : rec[r].published # NoAddr => rec[r].on = label[r]

\* The request that is under way, wherever it is between the two queues, and
\* what the records have confirmed, as DnsPublisher speaks of them.
Request(job, outcome) == [record |-> job.record, host |-> job.host,
                          address |-> job.address, outcome |-> outcome]

Requests ==
    IF jobs # None THEN {Request(jobs, "pending")}
    ELSE IF worker \in {"lookup", "update"} THEN {Request(held, "pending")}
    ELSE IF worker = "reply" THEN {Request(held, IF held.ok THEN "ok" ELSE "failed")}
    ELSE IF results # None THEN {Request(results, IF results.ok THEN "ok" ELSE "failed")}
    ELSE {}

Confirmed ==
    [r \in Records |-> IF rec[r].published = NoAddr THEN {}
                       ELSE {<<rec[r].on, rec[r].published>>}]

\* Queues, revisions, retries and failures come to this: one request at a time
\* about what was wanted when it was made, no other write, and a result that
\* arrives late confirms nothing that is not wanted any more.
Publisher == INSTANCE DnsPublisher WITH
                 request <- Requests, confirmed <- Confirmed

PublisherProvided == Publisher!Spec

\* PublishedForLabel is inductive with these facts: the worker's copy is a job,
\* and then a result; and what carries the present revision was made from the
\* present hostnames.
HeldKind ==
    /\ worker \in {"waiting", "absent"} => held = None
    /\ worker \in {"lookup", "update"} => held \in Jobs
    /\ worker = "reply" => held \in Results

OfItsTime(job) ==
    /\ job.revision <= revision
    /\ job.revision = revision => job.host = label[job.record]

JobsOfTheirTime ==
    \A job \in {jobs, held, results} : job # None => OfItsTime(job)

Inductive ==
    TypeOK /\ HeldKind /\ OneJob /\ JobsOfTheirTime /\ PublishedForLabel

\* From some time on the network is stable, DDNS is on, the helper reports and
\* there is a worker.
Settled ==
    /\ <>[][~Disturbance]_vars
    /\ <>[](enabled /\ online /\ helper /\ worker # "absent")

\* Once the addresses stop changing, the hostnames get them and keep them,
\* through failed lookups, lost answers, stale caches and a failing neighbour:
\* the two records take turns and no result of the past is taken for one of
\* the present.
Converges ==
    Settled => \A r \in Records :
                   <>[](address[r] # NoAddr => zone[label[r]] = address[r])

\* README: when the address has not changed, the update API is not called
\* again: from some time on no request is sent.
WritesCease ==
    Settled => <>[](worker # "update")
=============================================================================
