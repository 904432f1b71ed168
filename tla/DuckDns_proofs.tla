--------------------------- MODULE DuckDns_proofs ---------------------------
(***************************************************************************)
(* DuckDns for every set of hostnames and addresses and any bound on the   *)
(* revision: types, one job at a time, no result of an older configuration *)
(* recorded for the present one - and, from these, that the client with    *)
(* its queues and its worker is the publisher of DnsPublisher.             *)
(***************************************************************************)
EXTENDS DuckDns, TLAPS

\* The empty queue is told apart from a job and from a result.
LEMMA NoneIsNoJob == None \notin Jobs /\ None \notin Results
BY DnsAssumption DEF Jobs, Results

\* The two records, and taking turns between them.
LEMMA RecordTypes ==
    /\ \A h \in Hosts : Fresh(h) \in States
    /\ \A s \in States, b \in BOOLEAN :
           /\ [s EXCEPT !.failing = b] \in States
           /\ [s EXCEPT !.attempted = b] \in States
           /\ [s EXCEPT !.due = b] \in States
    /\ \A s \in States, a \in Addr, h \in Hosts :
           [s EXCEPT !.published = a, !.on = h, !.failing = FALSE] \in States
<1>1. NoAddr \in MaybeAddr /\ Addr \subseteq MaybeAddr
  BY DEF MaybeAddr
<1>2. \A h \in Hosts : Fresh(h) \in States
  BY <1>1 DEF Fresh, States
<1>3. \A s \in States, b \in BOOLEAN :
          /\ [s EXCEPT !.failing = b] \in States
          /\ [s EXCEPT !.attempted = b] \in States
          /\ [s EXCEPT !.due = b] \in States
  BY DEF States
<1>4. \A s \in States, a \in Addr, h \in Hosts :
          [s EXCEPT !.published = a, !.on = h, !.failing = FALSE] \in States
  BY <1>1 DEF States
<1> QED
  BY <1>2, <1>3, <1>4

(* A new DdnsRecordState for both records.                                 *)
LEMMA FreshTypes ==
    ASSUME NEW l \in [Records -> Hosts]
    PROVE  [r \in Records |-> Fresh(l[r])] \in [Records -> States]
BY RecordTypes

\* What pollDdns submits for a record with an address is a job.
LEMMA JobTypes ==
    ASSUME TypeOK, NEW r \in Records, address[r] # NoAddr
    PROVE  JobFor(r) \in Jobs /\ OfItsTime(JobFor(r))
<1>1. address[r] \in Addr /\ label[r] \in Hosts /\ revision \in 0 .. MaxRevision
  BY DEF TypeOK, MaybeAddr
<1>2. JobFor(r) \in Jobs
  BY <1>1 DEF JobFor, Jobs
<1>3. OfItsTime(JobFor(r))
  BY <1>1 DEF JobFor, OfItsTime
<1> QED
  BY <1>2, <1>3

\* What the worker makes of a job is a result of the same revision.
LEMMA OutcomeTypes ==
    ASSUME NEW j \in Jobs, NEW b \in BOOLEAN
    PROVE  /\ Outcome(j, b) \in Results
           /\ OfItsTime(j) => OfItsTime(Outcome(j, b))
BY DEF Outcome, Jobs, Results, OfItsTime

(* Taking a result off the queue keeps the records well-formed and never   *)
(* marks an address as published for a hostname that is not configured.    *)
LEMMA ReceivedTypes ==
    ASSUME Inductive
    PROVE  /\ Received \in [Records -> States]
           /\ \A r \in Records : Received[r].published # NoAddr
                                     => Received[r].on = label[r]
<1>1. CASE results = None
  BY <1>1 DEF Received, Inductive, TypeOK, PublishedForLabel
<1>2. CASE results # None
  <2>1. /\ results \in Results
        /\ results.record \in Records
        /\ results.host \in Hosts
        /\ results.address \in Addr
        /\ results.ok \in BOOLEAN
        /\ rec \in [Records -> States]
        /\ OfItsTime(results)
    BY <1>2 DEF Inductive, TypeOK, JobsOfTheirTime, Results
  <2>2. StillWanted(results) => results.host = label[results.record]
    BY <2>1 DEF StillWanted, OfItsTime
  <2> DEFINE old == rec[results.record]
             new == Recorded(old, results)
  <2>3. old \in States /\ (old.published # NoAddr
                               => old.on = label[results.record])
    BY <2>1 DEF Inductive, PublishedForLabel
  <2>4. \/ new = old
        \/ /\ StillWanted(results)
           /\ new = [old EXCEPT !.published = results.address,
                                !.on = results.host, !.failing = FALSE]
        \/ new = [old EXCEPT !.failing = TRUE]
    BY DEF Recorded
  <2>5. new \in States
    BY <2>1, <2>3, <2>4, RecordTypes
  <2>6. new.published # NoAddr => new.on = label[results.record]
    BY <2>1, <2>2, <2>3, <2>4 DEF States
  <2>7. Received = [rec EXCEPT ![results.record] = new]
    BY <1>2 DEF Received
  <2> QED
    BY <2>1, <2>5, <2>6, <2>7 DEF Inductive, PublishedForLabel
<1> QED
  BY <1>1, <1>2

\* A board that has just been switched on has no job under way.
LEMMA InductiveInit == Init => Inductive
<1> SUFFICES ASSUME Init PROVE Inductive
  OBVIOUS
<1>1. TypeOK
  <2>1. rec \in [Records -> States] /\ label \in [Records -> Hosts]
    BY FreshTypes DEF Init, FreshRecords
  <2>2. NoAddr \in MaybeAddr
    BY DEF MaybeAddr
  <2>3. /\ revision \in 0 .. MaxRevision
        /\ next \in Records
    BY DnsAssumption DEF Init, Records
  <2>4. /\ address \in [Records -> MaybeAddr]
        /\ zone \in [Hosts -> MaybeAddr]
        /\ answer \in [Hosts -> MaybeAddr]
    BY <2>2 DEF Init
  <2> QED
    BY <2>1, <2>3, <2>4 DEF Init, TypeOK
<1>2. HeldKind /\ OneJob /\ JobsOfTheirTime
  BY DEF Init, HeldKind, OneJob, JobsOfTheirTime
<1>3. PublishedForLabel
  BY DEF Init, PublishedForLabel, FreshRecords, Fresh
<1> QED
  BY <1>1, <1>2, <1>3 DEF Inductive

-----------------------------------------------------------------------------
(* pollDdns keeps the invariant: what makes it submit a job also tells that  *)
(* the job queue is empty.                                                 *)
LEMMA SubmitFindsRoom ==
    ASSUME Inductive, CanSubmit
    PROVE  jobs = None /\ worker = "waiting" /\ ~StillBusy /\ QueueFree
BY DEF CanSubmit, StillBusy, QueueFree, Inductive, OneJob

\* Submitting starts the one job there may be.
LEMMA PollSubmitsStep ==
    ASSUME Inductive, NEW r \in Records, PollSubmits(r)
    PROVE  Inductive'
<1> USE DEF PollSubmits
<1>1. /\ jobs = None
      /\ worker = "waiting"
      /\ jobs' = JobFor(r)
      /\ rec' = [Received EXCEPT ![r].attempted = TRUE, ![r].due = FALSE]
      /\ busy' = TRUE
  BY SubmitFindsRoom DEF BusyAfter
<1>2. JobFor(r) \in Jobs /\ OfItsTime(JobFor(r))
  BY JobTypes DEF Wants, Inductive
<1>3. rec' \in [Records -> States]
      /\ \A q \in Records : /\ rec'[q].published = Received[q].published
                            /\ rec'[q].on = Received[q].on
  <2> DEFINE s == [Received[r] EXCEPT !.attempted = TRUE]
  <2>1. /\ Received[r] \in States
        /\ s \in States
        /\ [s EXCEPT !.due = FALSE] \in States
    BY ReceivedTypes, RecordTypes
  <2>2. rec' = [Received EXCEPT ![r] = [s EXCEPT !.due = FALSE]]
    BY <1>1, ReceivedTypes
  <2>3. /\ [s EXCEPT !.due = FALSE].published = Received[r].published
        /\ [s EXCEPT !.due = FALSE].on = Received[r].on
    BY <2>1 DEF States
  <2> QED
    BY <2>1, <2>2, <2>3, ReceivedTypes
<1>4. next' \in Records
  BY DEF NextAfter, Other, Records
<1>5. TypeOK'
  BY <1>1, <1>2, <1>3, <1>4
     DEF Inductive, TypeOK, settings, machine, task, dns
<1>6. HeldKind'
  BY DEF Inductive, HeldKind, task
<1>7. OneJob'
  BY <1>1, <1>2, NoneIsNoJob DEF OneJob, task
<1>8. JobsOfTheirTime'
  BY <1>1, <1>2 DEF Inductive, HeldKind, JobsOfTheirTime, OfItsTime, task,
                    settings
<1>9. PublishedForLabel'
  BY <1>3, ReceivedTypes DEF PublishedForLabel, settings
<1> QED
  BY <1>5, <1>6, <1>7, <1>8, <1>9 DEF Inductive

\* Taking a result ends the job; only one of this revision counts.
LEMMA PollReceivesStep ==
    ASSUME Inductive, PollReceives
    PROVE  Inductive'
<1> USE DEF PollReceives
<1>1. TypeOK'
  BY ReceivedTypes
     DEF Inductive, TypeOK, StillBusy, settings, machine, task, dns
<1>2. HeldKind'
  BY DEF Inductive, HeldKind, task
<1>3. OneJob'
  BY DEF Inductive, OneJob, StillBusy, task
<1>4. JobsOfTheirTime'
  BY DEF Inductive, JobsOfTheirTime, OfItsTime, task, settings
<1>5. PublishedForLabel'
  BY ReceivedTypes DEF PublishedForLabel, settings
<1> QED
  BY <1>1, <1>2, <1>3, <1>4, <1>5 DEF Inductive

(* A change of one record that leaves alone what is published, and for     *)
(* whom.                                                                   *)
LEMMA RecordStep ==
    ASSUME Inductive, NEW r \in Records, NEW s \in States,
           rec' = [rec EXCEPT ![r] = s],
           s.published = rec[r].published, s.on = rec[r].on,
           address' \in [Records -> MaybeAddr],
           UNCHANGED <<settings, helper, online, next, busy, jobs, results,
                       task, dns>>
    PROVE  Inductive'
<1>1. TypeOK'
  BY DEF Inductive, TypeOK, settings, task, dns
<1>2. HeldKind' /\ OneJob'
  BY DEF Inductive, HeldKind, OneJob, task
<1>3. JobsOfTheirTime'
  BY DEF Inductive, JobsOfTheirTime, OfItsTime, task, settings
<1>4. PublishedForLabel'
  BY DEF Inductive, TypeOK, PublishedForLabel, settings
<1> QED
  BY <1>1, <1>2, <1>3, <1>4 DEF Inductive

(* A change outside the records, the configuration and the job under way.  *)
LEMMA OutsideStep ==
    ASSUME Inductive,
           address' \in [Records -> MaybeAddr],
           helper' \in BOOLEAN, online' \in BOOLEAN,
           answer' \in [Hosts -> MaybeAddr],
           UNCHANGED <<settings, poller, jobs, results, task, zone>>
    PROVE  Inductive'
<1>1. TypeOK'
  BY DEF Inductive, TypeOK, settings, poller, task
<1>2. HeldKind' /\ OneJob'
  BY DEF Inductive, HeldKind, OneJob, task, poller
<1>3. JobsOfTheirTime'
  BY DEF Inductive, JobsOfTheirTime, OfItsTime, task, settings
<1>4. PublishedForLabel'
  BY DEF Inductive, PublishedForLabel, settings, poller
<1> QED
  BY <1>1, <1>2, <1>3, <1>4 DEF Inductive

\* The end of a retry interval touches no job.
LEMMA RetryElapsesStep ==
    ASSUME Inductive, NEW r \in Records, RetryElapses(r)
    PROVE  Inductive'
<1> DEFINE s == [rec[r] EXCEPT !.due = TRUE]
<1>1. rec[r] \in States /\ s \in States
  BY RecordTypes DEF Inductive, TypeOK
<1>2. s.published = rec[r].published /\ s.on = rec[r].on
  BY <1>1 DEF States
<1> QED
  BY <1>1, <1>2, RecordStep DEF RetryElapses, machine, Inductive, TypeOK

-----------------------------------------------------------------------------
(* The worker                                                              *)

\* The job moves from the queue to the worker.
LEMMA WorkerReceivesStep ==
    ASSUME Inductive, WorkerReceives
    PROVE  Inductive'
<1> USE DEF WorkerReceives
<1>1. jobs \in Jobs
  BY DEF Inductive, TypeOK
<1>2. TypeOK'
  BY <1>1 DEF Inductive, TypeOK, settings, machine, poller, dns
<1>3. HeldKind'
  BY <1>1 DEF HeldKind
<1>4. OneJob'
  BY DEF Inductive, OneJob, poller
<1>5. JobsOfTheirTime'
  BY DEF Inductive, JobsOfTheirTime, OfItsTime, settings
<1>6. PublishedForLabel'
  BY DEF Inductive, PublishedForLabel, settings, poller
<1> QED
  BY <1>2, <1>3, <1>4, <1>5, <1>6 DEF Inductive

(* The worker goes on with its job, or ends it with an outcome.            *)
LEMMA WorkerGoesOn ==
    ASSUME Inductive, worker \in {"lookup", "update"},
           zone' \in [Hosts -> MaybeAddr],
           \/ worker' = "update" /\ held' = held
           \/ worker' = "reply" /\ \E b \in BOOLEAN : held' = Outcome(held, b),
           UNCHANGED <<settings, machine, poller, jobs, results, answer>>
    PROVE  Inductive'
<1>1. held \in Jobs /\ OfItsTime(held)
  BY NoneIsNoJob DEF Inductive, HeldKind, JobsOfTheirTime
<1>2. /\ worker' = "update" => held' \in Jobs
      /\ worker' = "reply" => held' \in Results
      /\ worker' \in {"update", "reply"}
      /\ OfItsTime(held')
  BY <1>1, OutcomeTypes
<1>3. TypeOK'
  BY <1>2 DEF Inductive, TypeOK, settings, machine, poller
<1>4. HeldKind'
  BY <1>2 DEF HeldKind
<1>5. OneJob'
  BY <1>2 DEF Inductive, OneJob, poller
<1>6. JobsOfTheirTime'
  BY <1>2 DEF Inductive, JobsOfTheirTime, OfItsTime, settings
<1>7. PublishedForLabel'
  BY DEF Inductive, PublishedForLabel, settings, poller
<1> QED
  BY <1>3, <1>4, <1>5, <1>6, <1>7 DEF Inductive

\* The resolver's answer moves the job on or turns it into a result.
LEMMA LookupStep ==
    ASSUME Inductive,
           LookupFails \/ \E r \in Records : LookupAnswers(r)
    PROVE  Inductive'
<1>1. CASE LookupFails
  BY <1>1, WorkerGoesOn DEF LookupFails, dns, Inductive, TypeOK
<1>2. CASE \E r \in Records : LookupAnswers(r)
  BY <1>2, WorkerGoesOn DEF LookupAnswers, dns, Inductive, TypeOK
<1> QED
  BY <1>1, <1>2

\* DuckDNS's answer, or its loss, turns the job into a result.
LEMMA UpdateStep ==
    ASSUME Inductive,
           UpdateFails \/ \E r \in Records : UpdateSucceeds(r)
    PROVE  Inductive'
<1>1. worker = "update" /\ held \in Jobs
  BY DEF UpdateFails, UpdateSucceeds, Inductive, HeldKind
<1>2. held.host \in Hosts /\ held.address \in MaybeAddr
  BY <1>1 DEF Jobs, MaybeAddr
<1>3. zone' \in [Hosts -> MaybeAddr]
  BY <1>2 DEF UpdateFails, UpdateSucceeds, Inductive, TypeOK
<1>4. CASE UpdateFails
  BY <1>3, <1>4, WorkerGoesOn DEF UpdateFails
<1>5. CASE \E r \in Records : UpdateSucceeds(r)
  BY <1>3, <1>5, WorkerGoesOn DEF UpdateSucceeds
<1> QED
  BY <1>4, <1>5

(* The result queue has room when the worker replies.                      *)
LEMMA WorkerRepliesStep ==
    ASSUME Inductive, WorkerReplies
    PROVE  Inductive'
<1> USE DEF WorkerReplies
<1>1. held \in Results
  BY DEF Inductive, HeldKind
<1>2. TypeOK'
  BY <1>1 DEF Inductive, TypeOK, settings, machine, poller, dns
<1>3. HeldKind'
  BY DEF HeldKind
<1>4. OneJob'
  BY <1>1, NoneIsNoJob DEF Inductive, OneJob, poller
<1>5. JobsOfTheirTime'
  BY DEF Inductive, JobsOfTheirTime, OfItsTime, settings
<1>6. PublishedForLabel'
  BY DEF Inductive, PublishedForLabel, settings, poller
<1> QED
  BY <1>2, <1>3, <1>4, <1>5, <1>6 DEF Inductive

-----------------------------------------------------------------------------
(* A new configuration makes every job under way one of the past.          *)
LEMMA NewSettingsStep ==
    ASSUME Inductive, NEW on \in BOOLEAN, NEW l \in [Records -> Hosts],
           NEW a \in MaybeAddr, SaveDdns(on, l, a), NewSettings(on, l)
    PROVE  Inductive'
<1> USE DEF SaveDdns, NewSettings
<1>2. revision \in Nat /\ MaxRevision \in Nat
  BY DnsAssumption DEF Inductive, TypeOK
<1>3. TypeOK'
  <2>1. revision' \in 0 .. MaxRevision
    BY <1>2
  <2>2. address' \in [Records -> MaybeAddr]
    BY DEF Inductive, TypeOK
  <2> QED
    BY <2>1, <2>2, FreshTypes DEF Inductive, TypeOK, task, dns
<1>4. HeldKind' /\ OneJob'
  BY DEF Inductive, HeldKind, OneJob, task
<1>5. JobsOfTheirTime'
  <2> SUFFICES ASSUME NEW job \in {jobs, held, results}, job # None
               PROVE  job.revision <= revision + 1 /\ job.revision # revision + 1
    BY DEF JobsOfTheirTime, OfItsTime, task
  <2>1. job \in Jobs \cup Results
    BY DEF Inductive, TypeOK
  <2>2. job.revision \in 0 .. MaxRevision
    BY <2>1 DEF Jobs, Results
  <2>3. job.revision <= revision
    BY DEF Inductive, JobsOfTheirTime, OfItsTime
  <2> QED
    BY <1>2, <2>2, <2>3
<1>6. PublishedForLabel'
  BY DEF PublishedForLabel, Fresh
<1> QED
  BY <1>3, <1>4, <1>5, <1>6 DEF Inductive

\* A restart forgets the job on every side.
LEMMA RestartStep ==
    ASSUME Inductive, Restart
    PROVE  Inductive'
<1> USE DEF Restart
<1>1. TypeOK'
  <2>1. rec' \in [Records -> States]
    BY FreshTypes DEF FreshRecords, Inductive, TypeOK
  <2>2. address' \in [Records -> MaybeAddr]
    BY DEF Inductive, TypeOK, MaybeAddr
  <2>3. revision' \in 0 .. MaxRevision /\ next' \in Records
    BY DnsAssumption DEF Records
  <2> QED
    BY <2>1, <2>2, <2>3 DEF Inductive, TypeOK, WorkerStarts, dns
<1>2. HeldKind' /\ OneJob' /\ JobsOfTheirTime'
  BY DEF HeldKind, OneJob, JobsOfTheirTime, WorkerStarts
<1>3. PublishedForLabel'
  BY DEF PublishedForLabel, FreshRecords, Fresh
<1> QED
  BY <1>1, <1>2, <1>3 DEF Inductive

(* Addresses, helper, link and resolver.                                   *)
LEMMA AddressStep ==
    ASSUME Inductive, NEW r \in Records, NEW a \in MaybeAddr
    PROVE  [address EXCEPT ![r] = a] \in [Records -> MaybeAddr]
BY DEF Inductive, TypeOK

\* The addresses a machine may get are addresses.
LEMMA CandidateTypes ==
    ASSUME NEW r \in Records, NEW a \in Candidates[r] \cup {NoAddr}
    PROVE  a \in MaybeAddr
BY DnsAssumption DEF MaybeAddr

\* Resetting flags of the PC's record leaves a record, with what it had published.
LEMMA PcRecordTypes ==
    ASSUME Inductive
    PROVE  LET s == [rec["pc"] EXCEPT !.attempted = FALSE]
               t == [s EXCEPT !.failing = FALSE]
           IN  /\ rec["pc"] \in States /\ s \in States /\ t \in States
               /\ s.published = rec["pc"].published /\ s.on = rec["pc"].on
               /\ t.published = rec["pc"].published /\ t.on = rec["pc"].on
<1> DEFINE s == [rec["pc"] EXCEPT !.attempted = FALSE]
           t == [s EXCEPT !.failing = FALSE]
<1>1. rec["pc"] \in States
  BY DEF Inductive, TypeOK, Records
<1>2. s \in States /\ t \in States
  BY <1>1, RecordTypes
<1>3. /\ s.published = rec["pc"].published /\ s.on = rec["pc"].on
      /\ t.published = rec["pc"].published /\ t.on = rec["pc"].on
  BY <1>1 DEF States
<1> QED
  BY <1>1, <1>2, <1>3

\* A new PC address leaves the job under way as it is.
LEMMA PcAddressStep ==
    ASSUME Inductive, NEW a \in Candidates["pc"] \cup {NoAddr},
           PcAddressReported(a) \/ PcAddressInferred(a)
    PROVE  Inductive'
<1>1. "pc" \in Records
  BY DEF Records
<1>2. [address EXCEPT !["pc"] = a] \in [Records -> MaybeAddr]
  BY <1>1, AddressStep, CandidateTypes
<1> DEFINE s == [rec["pc"] EXCEPT !.attempted = FALSE]
           t == [s EXCEPT !.failing = FALSE]
<1>3. CASE PcAddressReported(a)
  <2>1. rec' = [rec EXCEPT !["pc"] = s]
    BY <1>3 DEF PcAddressReported
  <2> QED
    BY <1>1, <1>2, <1>3, <2>1, PcRecordTypes, RecordStep
       DEF PcAddressReported
<1>4. CASE PcAddressInferred(a)
  <2>1. rec' = [rec EXCEPT !["pc"] = t]
    BY <1>1, <1>4 DEF PcAddressInferred, Inductive, TypeOK
  <2> QED
    BY <1>1, <1>2, <1>4, <2>1, PcRecordTypes, RecordStep
       DEF PcAddressInferred
<1> QED
  BY <1>3, <1>4

\* A save changes the hostnames only together with the revision.
LEMMA SaveDdnsStep ==
    ASSUME Inductive, NEW on \in BOOLEAN, NEW l \in [Records -> Hosts],
           NEW a \in Candidates["pc"] \cup {address["pc"], NoAddr},
           SaveDdns(on, l, a)
    PROVE  Inductive'
<1>1. "pc" \in Records
  BY DEF Records
<1>2. a \in MaybeAddr /\ [address EXCEPT !["pc"] = a] \in [Records -> MaybeAddr]
  BY <1>1, AddressStep, CandidateTypes DEF Inductive, TypeOK
<1>3. CASE NewSettings(on, l)
  BY <1>2, <1>3, NewSettingsStep
<1>4. CASE SameSettings(on, l)
  BY <1>2, <1>4, OutsideStep
     DEF SaveDdns, SameSettings, settings, poller, dns, Inductive, TypeOK
<1> QED
  BY <1>3, <1>4 DEF SaveDdns

\* Network, helper and resolver touch neither job nor hostname.
LEMMA EnvironmentStep ==
    ASSUME Inductive,
           \/ \E a \in Candidates["esp"] \cup {NoAddr} : EspAddressChanges(a)
           \/ HelperChanges
           \/ OnlineChanges
           \/ \E h \in Hosts : CacheExpires(h)
    PROVE  Inductive'
<1>1. "esp" \in Records /\ NoAddr \in MaybeAddr
  BY DEF Records, MaybeAddr
<1>2. CASE \E a \in Candidates["esp"] \cup {NoAddr} : EspAddressChanges(a)
  <2>1. address' \in [Records -> MaybeAddr]
    BY <1>1, <1>2, AddressStep, CandidateTypes DEF EspAddressChanges
  <2> QED
    BY <1>2, <2>1, OutsideStep DEF EspAddressChanges, dns, Inductive, TypeOK
<1>3. CASE HelperChanges
  BY <1>3, OutsideStep DEF HelperChanges, dns, Inductive, TypeOK
<1>4. CASE OnlineChanges
  <2>1. address' \in [Records -> MaybeAddr]
    BY <1>1, <1>4, AddressStep DEF OnlineChanges, Inductive, TypeOK
  <2> QED
    BY <1>4, <2>1, OutsideStep DEF OnlineChanges, dns, Inductive, TypeOK
<1>5. CASE \E h \in Hosts : CacheExpires(h)
  <2>1. answer' \in [Hosts -> MaybeAddr]
    BY <1>5 DEF CacheExpires, Inductive, TypeOK
  <2> QED
    BY <1>5, <2>1, OutsideStep DEF CacheExpires, machine, Inductive, TypeOK
<1> QED
  BY <1>2, <1>3, <1>4, <1>5

-----------------------------------------------------------------------------
\* Every step keeps the invariant.
LEMMA InductiveStep == Inductive /\ [Next]_vars => Inductive'
<1> SUFFICES ASSUME Inductive, [Next]_vars PROVE Inductive'
  OBVIOUS
<1>1. CASE Poll
  BY <1>1, PollSubmitsStep, PollReceivesStep DEF Poll
<1>2. CASE Worker
  BY <1>2, WorkerReceivesStep, LookupStep, UpdateStep, WorkerRepliesStep
     DEF Worker
<1>3. CASE Disturbance
  BY <1>3, SaveDdnsStep, RestartStep, PcAddressStep, EnvironmentStep
     DEF Disturbance
<1>4. CASE \E r \in Records : RetryElapses(r)
  BY <1>4, RetryElapsesStep
<1>5. CASE \E h \in Hosts : CacheExpires(h)
  BY <1>5, EnvironmentStep
<1>6. CASE UNCHANGED vars
  BY <1>6, OutsideStep DEF vars, machine, dns, Inductive, TypeOK
<1> QED
  BY <1>1, <1>2, <1>3, <1>4, <1>5, <1>6 DEF Next

(* The invariant that carries the three results below.                     *)
THEOREM InductiveInvariant == Spec => []Inductive
BY InductiveInit, InductiveStep, PTL DEF Spec

(* Types are kept, and the revision stays within its bound.                *)
THEOREM TypeCorrect == Spec => []TypeOK
<1>1. Inductive => TypeOK
  BY DEF Inductive
<1> QED
  BY <1>1, InductiveInvariant, PTL

(* pollDdns and ddnsWorker never have more than one job between them, so   *)
(* neither ever waits for the other on a full queue.                       *)
THEOREM OneJobAtATime == Spec => []OneJob
<1>1. Inductive => OneJob
  BY DEF Inductive
<1> QED
  BY <1>1, InductiveInvariant, PTL

(* Whatever is saved while a job is under way, its result is never taken   *)
(* for one of the hostnames configured now.                                *)
THEOREM ResultsAreForTheLabel == Spec => []PublishedForLabel
<1>1. Inductive => PublishedForLabel
  BY DEF Inductive
<1> QED
  BY <1>1, InductiveInvariant, PTL

-----------------------------------------------------------------------------
(* The publisher *)

\* Where the one request is.
LEMMA RequestIs ==
    ASSUME OneJob
    PROVE  /\ jobs # None => Requests = {Request(jobs, "pending")}
           /\ worker \in {"lookup", "update"} => Requests = {Request(held, "pending")}
           /\ worker = "reply" =>
                  Requests = {Request(held, IF held.ok THEN "ok" ELSE "failed")}
           /\ results # None =>
                  Requests = {Request(results, IF results.ok THEN "ok" ELSE "failed")}
           /\ ~busy => Requests = {}
  BY DEF OneJob, Requests

\* Neither moves while nothing of what it is made of does.
LEMMA SameRequests ==
    ASSUME UNCHANGED <<jobs, results, task>>
    PROVE  Requests' = Requests
  BY DEF Requests, Request, task

\* The end of a request about the record's own hostname and address.
LEMMA ConfirmedIs ==
    ASSUME Inductive,
           \A r \in Records : /\ rec'[r].published = Received[r].published
                              /\ rec'[r].on = Received[r].on
    PROVE  \/ Confirmed' = Confirmed
           \/ \E q \in Requests :
                  /\ q.outcome = "ok" /\ Publisher!Current(q)
                  /\ Confirmed' = [Confirmed EXCEPT ![q.record] = {<<q.host, q.address>>}]
  <1>1. rec \in [Records -> States]
    BY DEF Inductive, TypeOK
  <1>2. CASE Received = rec
    BY <1>2 DEF Confirmed
  <1>3. CASE Received # rec
    <2> DEFINE old == rec[results.record]
               new == Recorded(old, results)
               q == Request(results, "ok")
    <2>1. results # None /\ Received = [rec EXCEPT ![results.record] = new]
      BY <1>3 DEF Received
    <2>2. /\ results.record \in Records /\ results.host \in Hosts
          /\ results.address \in Addr /\ results.ok \in BOOLEAN /\ OfItsTime(results)
      BY <2>1 DEF Inductive, TypeOK, JobsOfTheirTime, Results
    <2>3. old \in States
      BY <1>1, <2>2
    <2>4. CASE StillWanted(results) /\ results.ok
      <3>1. q \in Requests /\ q.outcome = "ok"
        BY <2>1, <2>4, NoneIsNoJob, RequestIs DEF Inductive, Request
      <3>2. /\ q.record = results.record /\ q.host = results.host
            /\ q.address = results.address
        BY DEF Request
      <3>3. Publisher!Current(q)
        BY <2>2, <2>4, <3>2 DEF Publisher!Current, StillWanted, OfItsTime
      <3>4. new.published = results.address /\ new.on = results.host
        BY <2>3, <2>4 DEF Recorded, States
      <3>5. results.address # NoAddr
        BY <2>2, DnsAssumption
      <3>6. \A r \in Records :
                Confirmed'[r] = IF r = results.record
                                THEN {<<results.host, results.address>>}
                                ELSE Confirmed[r]
        BY <1>1, <2>1, <2>2, <3>4, <3>5 DEF Confirmed
      <3>7. Confirmed' = [Confirmed EXCEPT ![q.record] = {<<q.host, q.address>>}]
        <4>1. /\ Confirmed' = [r \in Records |-> Confirmed'[r]]
              /\ Confirmed = [r \in Records |-> Confirmed[r]]
          BY DEF Confirmed
        <4> DEFINE pair == {<<results.host, results.address>>}
        <4>2. [Confirmed EXCEPT ![results.record] = pair] =
                  [r \in Records |-> IF r = results.record THEN pair ELSE Confirmed[r]]
          BY <2>2, <4>1
        <4>3. Confirmed' = [Confirmed EXCEPT ![results.record] = pair]
          BY <3>6, <4>1, <4>2
        <4> QED
          BY <3>2, <4>3
      <3> QED
        BY <3>1, <3>3, <3>7
    <2>5. CASE ~(StillWanted(results) /\ results.ok)
      <3>1. new.published = old.published /\ new.on = old.on
        BY <2>3, <2>5 DEF Recorded, States
      <3>2. \A r \in Records : /\ rec'[r].published = rec[r].published
                               /\ rec'[r].on = rec[r].on
        BY <1>1, <2>1, <2>2, <3>1
      <3> QED
        BY <3>2 DEF Confirmed
    <2> QED
      BY <2>4, <2>5
  <1> QED
    BY <1>2, <1>3

LEMMA SameConfirmed ==
    ASSUME \A r \in Records : /\ rec'[r].published = rec[r].published
                              /\ rec'[r].on = rec[r].on
    PROVE  Confirmed' = Confirmed
  BY DEF Confirmed

\* A step of pollDdns is a turn.
LEMMA PublisherTurns ==
    ASSUME Inductive, Inductive', Poll
    PROVE  Publisher!Turn
  <1>1. jobs = None /\ worker = "waiting"
    BY SubmitFindsRoom DEF Poll, PollReceives, PollSubmits, Inductive, OneJob
  <1>2. \A q \in Requests : q.outcome # "pending"
    <2>1. CASE results = None
      BY <1>1, <2>1 DEF Requests
    <2>2. CASE results # None
      BY <2>2, NoneIsNoJob, RequestIs DEF Inductive, Request
    <2> QED
      BY <2>1, <2>2
  <1>3. UNCHANGED <<enabled, label, address, zone, answer, task>> /\ results' = None
    BY DEF Poll, PollReceives, PollSubmits, settings, machine, dns
  <1>4. CASE PollReceives
    <2>1. Requests' = {}
      BY <1>1, <1>3, <1>4 DEF PollReceives, Requests, task
    <2>2. rec' = Received
      BY <1>4 DEF PollReceives
    <2> QED
      BY <1>2, <1>3, <2>1, <2>2, ConfirmedIs DEF Publisher!Turn
  <1>5. ASSUME NEW r \in Records, PollSubmits(r)
        PROVE  Publisher!Turn
    <2>1. /\ jobs' = JobFor(r) /\ enabled /\ address[r] # NoAddr
          /\ rec' = [Received EXCEPT ![r].attempted = TRUE, ![r].due = FALSE]
      BY <1>5, SubmitFindsRoom DEF PollSubmits, CanSubmit, Wants
    <2>2. Requests' = {Publisher!Asked(r)}
      <3>1. JobFor(r) # None
        BY <2>1, JobTypes, NoneIsNoJob DEF Inductive
      <3>2. Requests' = {Request(JobFor(r), "pending")}
        BY <2>1, <3>1 DEF Requests, Request
      <3>3. Request(JobFor(r), "pending") = Publisher!Asked(r)
        BY DEF Request, JobFor, Publisher!Asked
      <3> QED
        BY <3>2, <3>3
    <2>3. \A p \in Records : /\ rec'[p].published = Received[p].published
                             /\ rec'[p].on = Received[p].on
      <3> DEFINE s == [Received[r] EXCEPT !.attempted = TRUE]
                 t == [s EXCEPT !.due = FALSE]
      <3>1. Received[r] \in States /\ s \in States /\ t \in States
        BY ReceivedTypes, RecordTypes
      <3>2. rec' = [Received EXCEPT ![r] = t]
        BY <2>1, ReceivedTypes
      <3>3. t.published = Received[r].published /\ t.on = Received[r].on
        BY <3>1 DEF States
      <3> QED
        BY <3>2, <3>3, ReceivedTypes
    <2>4. r \in Publisher!Records
      BY DEF Records, Publisher!Records
    <2> QED
      BY <1>2, <1>3, <2>1, <2>2, <2>3, <2>4, ConfirmedIs DEF Publisher!Turn
  <1> QED
    BY <1>4, <1>5 DEF Poll

\* The worker takes the request, and ends it.
LEMMA PublisherEnds ==
    ASSUME Inductive, Inductive', Worker
    PROVE  Publisher!End("ok") \/ Publisher!End("failed") \/ UNCHANGED Publisher!vars
  <1>1. UNCHANGED <<enabled, label, address, rec, answer>>
    BY DEF Worker, WorkerReceives, LookupFails, LookupAnswers, UpdateFails,
       UpdateSucceeds, WorkerReplies, settings, machine, poller, dns
  <1>2. Confirmed' = Confirmed
    BY <1>1, SameConfirmed
  <1>3. CASE WorkerReceives
    <2>1. Requests = {Request(jobs, "pending")} /\ Requests' = {Request(held', "pending")}
      BY <1>3 DEF WorkerReceives, Requests, Request
    <2> QED
      BY <1>1, <1>2, <1>3, <2>1 DEF WorkerReceives, Publisher!vars, dns, Request
  <1>4. CASE WorkerReplies
    <2>1. held # None /\ jobs = None /\ worker = "reply"
      BY <1>4, NoneIsNoJob DEF WorkerReplies, Inductive, HeldKind, OneJob
    <2>2. Requests' = Requests
      BY <1>4, <2>1 DEF WorkerReplies, Requests, Request
    <2> QED
      BY <1>1, <1>2, <1>4, <2>2 DEF WorkerReplies, Publisher!vars, dns
  <1>5. ASSUME worker \in {"lookup", "update"}, UNCHANGED <<jobs, results>>
        PROVE  /\ jobs = None /\ results = None
               /\ Requests = {Request(held, "pending")}
               /\ \A b \in BOOLEAN : worker' = "reply" /\ held' = Outcome(held, b) =>
                      Requests' = {[Request(held, "pending") EXCEPT !.outcome =
                                        IF b THEN "ok" ELSE "failed"]}
    <2>1. jobs = None /\ results = None
      BY <1>5 DEF Inductive, OneJob
    <2>2. Requests = {Request(held, "pending")}
      BY <1>5, <2>1 DEF Requests
    <2>3. ASSUME NEW b \in BOOLEAN, worker' = "reply", held' = Outcome(held, b)
          PROVE  Requests' = {[Request(held, "pending") EXCEPT !.outcome =
                                    IF b THEN "ok" ELSE "failed"]}
      <3>1. Requests' = {Request(Outcome(held, b), IF b THEN "ok" ELSE "failed")}
        BY <1>5, <2>1, <2>3 DEF Requests, Outcome, Request
      <3> QED
        BY <3>1 DEF Outcome, Request
    <2> QED
      BY <2>1, <2>2, <2>3
  <1> DEFINE q == Request(held, "pending")
  <1>6. q.outcome = "pending" /\ q.host = held.host /\ q.address = held.address
    BY DEF Request
  <1>7. CASE LookupFails
    <2>1. q \in Requests /\ Requests' = {[q EXCEPT !.outcome = "failed"]}
      BY <1>5, <1>7 DEF LookupFails
    <2> QED
      BY <1>1, <1>2, <1>6, <1>7, <2>1 DEF LookupFails, Publisher!End, dns
  <1>8. ASSUME NEW r \in Records, LookupAnswers(r)
        PROVE  Publisher!End("ok") \/ UNCHANGED Publisher!vars
    <2>1. CASE worker' = "update" /\ held' = held
      <3>1. Requests' = Requests
        BY <1>8, <2>1 DEF LookupAnswers, Requests, Request
      <3> QED
        BY <1>1, <1>2, <1>8, <3>1 DEF LookupAnswers, Publisher!vars, dns
    <2>2. CASE /\ worker' = "reply" /\ held' = Outcome(held, TRUE)
               /\ answer[held.host] = held.address
      <3>1. q \in Requests /\ Requests' = {[q EXCEPT !.outcome = "ok"]}
        BY <1>5, <1>8, <2>2 DEF LookupAnswers
      <3> QED
        BY <1>1, <1>2, <1>6, <1>8, <2>2, <3>1 DEF LookupAnswers, Publisher!End, dns
    <2> QED
      BY <1>8, <2>1, <2>2 DEF LookupAnswers, ShouldUpdate
  <1>9. CASE UpdateFails
    <2>1. q \in Requests /\ Requests' = {[q EXCEPT !.outcome = "failed"]}
      BY <1>5, <1>9 DEF UpdateFails
    <2> QED
      BY <1>1, <1>2, <1>6, <1>9, <2>1 DEF UpdateFails, Publisher!End
  <1>10. ASSUME NEW r \in Records, UpdateSucceeds(r)
         PROVE  Publisher!End("ok")
    <2>1. q \in Requests /\ Requests' = {[q EXCEPT !.outcome = "ok"]}
      BY <1>5, <1>10 DEF UpdateSucceeds
    <2> QED
      BY <1>1, <1>2, <1>6, <1>10, <2>1 DEF UpdateSucceeds, Publisher!End
  <1> QED
    BY <1>3, <1>4, <1>7, <1>8, <1>9, <1>10 DEF Worker

\* Saves and restarts forget what was confirmed; the rest only moves addresses.
LEMMA PublisherDisturbed ==
    ASSUME Inductive, Inductive', Disturbance
    PROVE  Publisher!Configure \/ Publisher!Restart \/ Publisher!Move
  <1>1. /\ address' \in [Publisher!Records -> Publisher!MaybeAddr]
        /\ label' \in [Publisher!Records -> Hosts] /\ enabled' \in BOOLEAN
    BY DEF Inductive, TypeOK, Publisher!Records, Publisher!MaybeAddr, Records, MaybeAddr
  <1>2. ASSUME \A r \in Records : rec'[r].published = NoAddr
        PROVE  Confirmed' = Publisher!Nothing
    BY <1>2 DEF Confirmed, Publisher!Nothing, Records, Publisher!Records
  <1>3. CASE \E on \in BOOLEAN, l \in [Records -> Hosts],
                a \in Candidates["pc"] \cup {address["pc"], NoAddr} : SaveDdns(on, l, a)
    <2>1. PICK on \in BOOLEAN, l \in [Records -> Hosts],
               a \in Candidates["pc"] \cup {address["pc"], NoAddr} : SaveDdns(on, l, a)
      BY <1>3
    <2>2. Requests' = Requests /\ UNCHANGED dns
      BY <2>1, SameRequests DEF SaveDdns
    <2>3. CASE NewSettings(on, l)
      <3>1. Confirmed' = Publisher!Nothing
        BY <1>2, <2>3 DEF NewSettings, Fresh
      <3>2. enabled' => label'["esp"] # label'["pc"]
        BY <2>3 DEF NewSettings, Accepted
      <3> QED
        BY <1>1, <2>2, <3>1, <3>2 DEF Publisher!Configure, dns
    <2>4. CASE SameSettings(on, l)
      <3>1. Confirmed' = Confirmed
        BY <2>4, SameConfirmed DEF SameSettings
      <3> QED
        BY <1>1, <2>2, <2>4, <3>1 DEF SameSettings, Publisher!Move, dns, settings
    <2> QED
      BY <2>1, <2>3, <2>4 DEF SaveDdns
  <1>4. CASE Restart
    <2>1. Requests' = {}
      BY <1>4 DEF Restart, Requests, WorkerStarts
    <2>2. Confirmed' = Publisher!Nothing
      BY <1>2, <1>4 DEF Restart, FreshRecords, Fresh
    <2> QED
      BY <1>1, <1>4, <2>1, <2>2 DEF Restart, Publisher!Restart, dns
  <1>5. CASE \/ \E a \in Candidates["esp"] \cup {NoAddr} : EspAddressChanges(a)
             \/ HelperChanges \/ OnlineChanges
    <2>1. UNCHANGED <<settings, rec, jobs, results, task, dns>>
      BY <1>5 DEF EspAddressChanges, HelperChanges, OnlineChanges, poller
    <2>2. Requests' = Requests /\ Confirmed' = Confirmed
      BY <2>1, SameRequests, SameConfirmed
    <2> QED
      BY <1>1, <2>1, <2>2 DEF Publisher!Move, dns, settings
  <1>6. ASSUME NEW a \in Candidates["pc"] \cup {NoAddr},
               PcAddressReported(a) \/ PcAddressInferred(a)
        PROVE  Publisher!Move
    <2>1. UNCHANGED <<settings, jobs, results, task, dns>>
      BY <1>6 DEF PcAddressReported, PcAddressInferred
    <2> DEFINE s == [rec["pc"] EXCEPT !.attempted = FALSE]
               t == [s EXCEPT !.failing = FALSE]
    <2>2. rec \in [Records -> States] /\ "pc" \in Records
      BY DEF Inductive, TypeOK, Records
    <2>3. rec' = [rec EXCEPT !["pc"] = s] \/ rec' = [rec EXCEPT !["pc"] = t]
      BY <1>6, <2>2 DEF PcAddressReported, PcAddressInferred
    <2>4. \A r \in Records : /\ rec'[r].published = rec[r].published
                             /\ rec'[r].on = rec[r].on
      BY <2>2, <2>3, PcRecordTypes
    <2>5. Requests' = Requests /\ Confirmed' = Confirmed
      BY <2>1, <2>4, SameRequests, SameConfirmed
    <2> QED
      BY <1>1, <2>1, <2>5 DEF Publisher!Move, dns, settings
  <1> QED
    BY <1>3, <1>4, <1>5, <1>6 DEF Disturbance

LEMMA PublisherStep ==
    ASSUME Inductive, Inductive', [Next]_vars
    PROVE  [Publisher!Next]_(Publisher!vars)
  <1>1. CASE Poll
    BY <1>1, PublisherTurns DEF Publisher!Next
  <1>2. CASE Worker
    BY <1>2, PublisherEnds DEF Publisher!Next
  <1>3. CASE Disturbance
    BY <1>3, PublisherDisturbed DEF Publisher!Next
  <1>4. ASSUME NEW r \in Records, RetryElapses(r)
        PROVE  UNCHANGED Publisher!vars
    <2>1. UNCHANGED <<settings, machine, jobs, results, task, dns>>
          /\ rec' = [rec EXCEPT ![r].due = TRUE]
      BY <1>4 DEF RetryElapses
    <2>2. rec[r] \in States /\ rec \in [Records -> States]
      BY DEF Inductive, TypeOK
    <2>3. \A p \in Records : /\ rec'[p].published = rec[p].published
                             /\ rec'[p].on = rec[p].on
      BY <2>1, <2>2 DEF States
    <2>4. Requests' = Requests /\ Confirmed' = Confirmed
      BY <2>1, <2>3, SameRequests, SameConfirmed
    <2> QED
      BY <2>1, <2>4 DEF Publisher!vars, settings, machine, dns
  <1>5. ASSUME NEW h \in Hosts, CacheExpires(h)
        PROVE  Publisher!Refresh(h)
    <2>1. UNCHANGED <<settings, machine, rec, jobs, results, task, zone>>
      BY <1>5 DEF CacheExpires, poller
    <2>2. Requests' = Requests /\ Confirmed' = Confirmed
      BY <2>1, SameRequests, SameConfirmed
    <2> QED
      BY <1>5, <2>1, <2>2 DEF CacheExpires, Publisher!Refresh, settings, machine
  <1>6. CASE UNCHANGED vars
    <2>1. UNCHANGED <<settings, machine, rec, jobs, results, task, dns>>
      BY <1>6 DEF vars, poller
    <2>2. Requests' = Requests /\ Confirmed' = Confirmed
      BY <2>1, SameRequests, SameConfirmed
    <2> QED
      BY <2>1, <2>2 DEF Publisher!vars, settings, machine, dns
  <1> QED
    BY <1>1, <1>2, <1>3, <1>4, <1>5, <1>6 DEF Next, Publisher!Next

\* pollDdns and ddnsWorker with their queues are the publisher that is promised:
\* no DNS record is written but for a request that was wanted when it was made,
\* and no address counts as published that is not the record's own, for any
\* hostnames and addresses and wherever a save or a restart comes between.
THEOREM PublisherIsProvided == Spec => PublisherProvided
  <1>1. Init => Publisher!Init
    <2> SUFFICES ASSUME Init PROVE Publisher!Init
      OBVIOUS
    <2>1. Requests = {}
      BY DEF Init, Requests
    <2>2. Confirmed = Publisher!Nothing
      BY DEF Init, Confirmed, FreshRecords, Fresh, Publisher!Nothing, Records,
         Publisher!Records
    <2> QED
      BY <2>1, <2>2 DEF Init, Publisher!Init, Records, Publisher!Records
  <1>2. Inductive /\ Inductive' /\ [Next]_vars => [Publisher!Next]_(Publisher!vars)
    BY PublisherStep
  <1> QED
    BY <1>1, <1>2, InductiveInvariant, PTL DEF Spec, PublisherProvided, Publisher!Spec
=============================================================================
