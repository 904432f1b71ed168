-------------------------- MODULE PcTarget_proofs --------------------------
(***************************************************************************)
(* Proofs about PcTarget, for every set of networks and prefixes and every *)
(* width of the clock: types, nothing lost by a power failure between two  *)
(* handlers, and the coherence of baseline and inferred address.           *)
(***************************************************************************)
EXTENDS PcTarget, TLAPS

\* No prefix is an address like another; an absent key is none.
LEMMA AddressFacts ==
    /\ NoPrefix \in Addresses
    /\ Absent \notin Addresses
    /\ Prefixes \subseteq Addresses
    /\ Addresses \subseteq Addresses \cup {Absent}
BY PrefixAssumption DEF Addresses

\* selectPcTarget selects an address.
LEMMA SelectType ==
    ASSUME NEW v \in BOOLEAN, NEW p \in Addresses
    PROVE  Select(v, p) \in Addresses
BY AddressFacts DEF Select

\* loadDiscoveryConfig turns any stored keys into settings.
LEMMA LoadedType ==
    ASSUME NEW f \in Flash
    PROVE  /\ Loaded(f) \in Settings
           /\ Loaded(f).ssid = f.ssid
           /\ Loaded(f).v6 = f.v6
           /\ Loaded(f).auto = f.auto
           /\ Loaded(f).esp = f.esp
           /\ Loaded(f).inferred = f.inferred
           /\ Loaded(f).pc = (IF f.pc = Absent THEN f.target ELSE f.pc)
           /\ Loaded(f).target = Select(f.v6, Loaded(f).pc)
<1> DEFINE p == IF f.pc = Absent THEN f.target ELSE f.pc
<1>1. p \in Addresses /\ f.v6 \in BOOLEAN
  BY DEF Flash
<1>2. Select(f.v6, p) \in Addresses
  BY <1>1, SelectType
<1>3. Loaded(f) = [f EXCEPT !.pc = p, !.target = Select(f.v6, p)]
  BY DEF Loaded
<1> HIDE DEF p
<1>4. Loaded(f) = [ssid |-> f.ssid, target |-> Select(f.v6, p), v6 |-> f.v6,
                   auto |-> f.auto, pc |-> p, esp |-> f.esp,
                   inferred |-> f.inferred]
  BY <1>3 DEF Flash
<1>5. Loaded(f) \in Settings
  BY <1>1, <1>2, <1>4 DEF Flash, Settings
<1>6. Loaded(f).pc = p
  BY <1>4
<1> QED
  BY <1>4, <1>5, <1>6 DEF p

\* Empty Preferences read as stored settings.
LEMMA EmptyFlashType ==
    ASSUME NEW s \in Ssids
    PROVE  /\ EmptyFlash(s) \in Flash
           /\ \A t \in Addresses : [EmptyFlash(s) EXCEPT !.target = t] \in Flash
BY AddressFacts DEF EmptyFlash, Flash, Baselines

(* What waits to be put after a handler has queued its keys, and after one *)
(* put.                                                                    *)
LEMMA Queues ==
    /\ ReportKeys \in Seq(Keys) /\ BaselineKeys \in Seq(Keys)
    /\ RebaseKeys \in Seq(Keys) /\ SaveKeys \in Seq(Keys)
BY DEF ReportKeys, BaselineKeys, RebaseKeys, SaveKeys, Keys

\* Which keys each handler puts.
LEMMA QueueContents ==
    /\ {ReportKeys[i] : i \in 1 .. Len(ReportKeys)}
           = {"pc", "inferred", "target"}
    /\ {BaselineKeys[i] : i \in 1 .. Len(BaselineKeys)} = {"esp"}
    /\ {RebaseKeys[i] : i \in 1 .. Len(RebaseKeys)}
           = {"esp", "pc", "inferred", "target"}
    /\ {SaveKeys[i] : i \in 1 .. Len(SaveKeys)} = Keys
<1>1. {ReportKeys[i] : i \in 1 .. Len(ReportKeys)}
          = {"pc", "inferred", "target"}
  BY DEF ReportKeys
<1>2. {BaselineKeys[i] : i \in 1 .. Len(BaselineKeys)} = {"esp"}
  BY DEF BaselineKeys
<1>3. {RebaseKeys[i] : i \in 1 .. Len(RebaseKeys)}
          = {"esp", "pc", "inferred", "target"}
  BY DEF RebaseKeys
<1>4. {SaveKeys[i] : i \in 1 .. Len(SaveKeys)} = Keys
  BY DEF SaveKeys, Keys
<1> QED
  BY <1>1, <1>2, <1>3, <1>4

\* One put takes exactly the head off the waiting keys.
LEMMA QueueMoves ==
    ASSUME todo \in Seq(Keys), ~Idle, todo' = Tail(todo)
    PROVE  /\ Head(todo) \in Keys
           /\ todo' \in Seq(Keys)
           /\ Waiting = {Head(todo)} \cup Waiting'
<1>1. todo # <<>> /\ Len(todo) \in Nat /\ Len(todo) > 0
  BY DEF Idle
<1>2. Head(todo) = todo[1] /\ todo' \in Seq(Keys)
  BY <1>1
<1>3. /\ Len(todo') = Len(todo) - 1
      /\ \A i \in 1 .. Len(todo') : todo'[i] = todo[i + 1]
  BY <1>1
<1>4. ASSUME NEW i \in 1 .. Len(todo)
      PROVE  todo[i] \in {Head(todo)} \cup Waiting'
  <2>1. CASE i = 1
    BY <2>1, <1>2
  <2>2. CASE i # 1
    <3>1. i - 1 \in 1 .. Len(todo') /\ todo'[i - 1] = todo[i]
      BY <1>1, <1>3, <2>2
    <3> QED
      BY <3>1 DEF Waiting
  <2> QED
    BY <2>1, <2>2
<1>5. ASSUME NEW i \in 1 .. Len(todo')
      PROVE  todo'[i] \in Waiting
  <2>1. i + 1 \in 1 .. Len(todo) /\ todo'[i] = todo[i + 1]
    BY <1>1, <1>3
  <2> QED
    BY <2>1 DEF Waiting
<1>6. Head(todo) \in Waiting
  BY <1>1, <1>2 DEF Waiting
<1>7. Waiting \subseteq {Head(todo)} \cup Waiting'
  BY <1>4 DEF Waiting
<1>8. Waiting' \subseteq Waiting
  BY <1>5 DEF Waiting
<1>9. Head(todo) \in Keys
  BY <1>1
<1> QED
  BY <1>2, <1>6, <1>7, <1>8, <1>9

-----------------------------------------------------------------------------
(* A restart with flash f: RAM is what loadDiscoveryConfig reads.          *)
LEMMA BootStep ==
    ASSUME NEW f \in Flash, Boot(f), TypeOK, torn' \in BOOLEAN
    PROVE  /\ TypeOK' /\ TargetSelected' /\ Stored' /\ OldTargetKept'
           /\ ram' = Loaded(f)
<1> USE DEF Boot
<1>1. TypeOK'
  <2>1. <<>> \in Seq(Keys) /\ Loaded(f) \in Settings /\ NoPrefix \in Addresses
    BY LoadedType, AddressFacts
  <2>2. 0 \in 0 .. Wrap - 1
    BY ClockAssumption
  <2> QED
    BY <2>1, <2>2 DEF TypeOK, ReportedAfterBoot
<1>2. TargetSelected'
  BY LoadedType DEF TargetSelected
<1>3. Stored'
  BY DEF Stored
<1>4. OldTargetKept'
  BY DEF OldTargetKept, Waiting
<1> QED
  BY <1>1, <1>2, <1>3, <1>4

(* Between two handlers Preferences hold what RAM holds.                   *)
LEMMA IdleMeansStored ==
    ASSUME Inductive, Idle
    PROVE  ram = Loaded(nvs)
<1>1. Waiting = {}
  BY DEF Idle, Waiting
<1>2. ram \in Settings /\ nvs \in Flash /\ Loaded(nvs) \in Settings
  BY LoadedType DEF Inductive, TypeOK
<1>3. /\ ram["ssid"] = Loaded(nvs)["ssid"]
      /\ ram["v6"] = Loaded(nvs)["v6"]
      /\ ram["auto"] = Loaded(nvs)["auto"]
      /\ ram["pc"] = Loaded(nvs)["pc"]
      /\ ram["esp"] = Loaded(nvs)["esp"]
      /\ ram["inferred"] = Loaded(nvs)["inferred"]
  BY <1>1 DEF Inductive, Stored, Keys
<1>4. ram.target = Loaded(nvs).target
  BY <1>2, <1>3, LoadedType DEF Inductive, TargetSelected
<1> QED
  BY <1>2, <1>3, <1>4 DEF Settings

(* A handler that changes RAM and queues all the keys it changed.          *)
LEMMA HandlerStep ==
    ASSUME Inductive, Idle,
           ram' \in Settings,
           TargetSelected',
           todo' \in Seq(Keys),
           \A k \in Keys \ {"target"} : k \notin Waiting' => ram'[k] = ram[k],
           "target" \in Waiting' => "pc" \in Waiting',
           espNet' \in Addresses, reported' \in BOOLEAN,
           age' \in 0 .. Wrap - 1, quiet' \in 0 .. Wrap,
           UNCHANGED <<nvs, torn>>
    PROVE  TypeOK' /\ TargetSelected' /\ Stored' /\ OldTargetKept'
<1>1. TypeOK'
  BY DEF Inductive, TypeOK
<1>2. Stored'
  BY IdleMeansStored DEF Stored
<1>3. OldTargetKept'
  BY DEF OldTargetKept
<1> QED
  BY <1>1, <1>2, <1>3

\* Hearing a report starts its age at zero.
LEMMA HeardTypes ==
    ASSUME TypeOK, Heard
    PROVE  /\ reported' \in BOOLEAN
           /\ age' \in 0 .. Wrap - 1
           /\ quiet' \in 0 .. Wrap
BY ClockAssumption DEF Heard

(* handleSerialLine                                                        *)
LEMMA ReportTakenStep ==
    ASSUME Inductive, NEW v \in Addresses, ReportTaken(v)
    PROVE  Inductive'
<1> USE DEF ReportTaken
<1> DEFINE t == Select(ram.v6, v)
<1>1. ram \in Settings /\ t \in Addresses
  BY SelectType DEF Inductive, TypeOK, Settings
<1>2. ram' = [ram EXCEPT !.pc = v, !.inferred = FALSE, !.target = t]
  OBVIOUS
<1> HIDE DEF t
<1>3. /\ ram' \in Settings
      /\ ram'.ssid = ram.ssid /\ ram'.v6 = ram.v6 /\ ram'.auto = ram.auto
      /\ ram'.esp = ram.esp /\ ram'.pc = v /\ ram'.target = t
      /\ ram'.inferred = FALSE
  BY <1>1, <1>2 DEF Settings
<1>4. TargetSelected'
  BY <1>3 DEF TargetSelected, t
<1>5. Waiting' = {"pc", "inferred", "target"}
  BY QueueContents DEF Waiting
<1>6. \A k \in Keys \ {"target"} : k \notin Waiting' => ram'[k] = ram[k]
  BY <1>3, <1>5 DEF Keys
<1>7. TypeOK' /\ TargetSelected' /\ Stored' /\ OldTargetKept'
  BY <1>3, <1>4, <1>5, <1>6, Queues, HandlerStep, HeardTypes
     DEF Inductive, TypeOK
<1>8. Coherent'
  BY <1>3 DEF Inductive, Coherent, BaselineOfNetwork, InferredFollows
<1> QED
  BY <1>7, <1>8 DEF Inductive

\* A report that is no news changes its age alone.
LEMMA ReportOnlyHeardStep ==
    ASSUME Inductive, NEW v \in Addresses, ReportOnlyHeard(v)
    PROVE  Inductive'
<1> USE DEF ReportOnlyHeard
<1>1. TypeOK'
  BY HeardTypes DEF Inductive, TypeOK
<1>2. TargetSelected' /\ Stored' /\ OldTargetKept' /\ Coherent'
  BY DEF Inductive, TargetSelected, Stored, OldTargetKept, Waiting, Coherent,
         BaselineOfNetwork, InferredFollows
<1> QED
  BY <1>1, <1>2 DEF Inductive

(* syncPcIpv6Prefix                                                        *)
LEMMA ObservedType ==
    ASSUME Inductive, PrefixIsNew
    PROVE  /\ CurrentEsp \in Addresses
           /\ CurrentEsp # NoPrefix
           /\ Observed \in Baselines
           /\ Observed.prefix = CurrentEsp
           /\ Observed.on = ram.ssid
<1>1. CurrentEsp \in Addresses /\ CurrentEsp # NoPrefix
  BY AddressFacts DEF Inductive, TypeOK, CurrentEsp, PrefixIsNew
<1>2. ram.ssid \in Ssids
  BY DEF Inductive, TypeOK, Settings
<1> QED
  BY <1>1, <1>2 DEF Observed, Baselines

\* A rebase moves baseline and address to the new prefix together.
LEMMA SyncRebasesStep ==
    ASSUME Inductive, SyncRebases
    PROVE  Inductive'
<1> USE DEF SyncRebases
<1> DEFINE t == Select(ram.v6, CurrentEsp)
<1>1. ram \in Settings /\ t \in Addresses
  BY SelectType, ObservedType DEF Inductive, TypeOK, Settings
<1>2. ram' = [ram EXCEPT !.esp = Observed, !.pc = CurrentEsp,
                         !.inferred = TRUE, !.target = t]
  OBVIOUS
<1> HIDE DEF t
<1>3. /\ ram' \in Settings
      /\ ram'.ssid = ram.ssid /\ ram'.v6 = ram.v6 /\ ram'.auto = ram.auto
      /\ ram'.esp = Observed /\ ram'.pc = CurrentEsp /\ ram'.target = t
      /\ ram'.inferred = TRUE
  BY <1>1, <1>2, ObservedType DEF Settings
<1>4. TargetSelected'
  BY <1>3 DEF TargetSelected, t
<1>5. Waiting' = {"esp", "pc", "inferred", "target"}
  BY QueueContents DEF Waiting
<1>6. \A k \in Keys \ {"target"} : k \notin Waiting' => ram'[k] = ram[k]
  BY <1>3, <1>5 DEF Keys
<1>7. TypeOK' /\ TargetSelected' /\ Stored' /\ OldTargetKept'
  BY <1>3, <1>4, <1>5, <1>6, Queues, HandlerStep
     DEF Inductive, TypeOK, heartbeat
<1>8. Coherent'
  BY <1>3, ObservedType DEF Coherent, BaselineOfNetwork, InferredFollows
<1> QED
  BY <1>7, <1>8 DEF Inductive

(* An inferred address always can be rebased, so where the baseline is     *)
(* only observed, the address is not an inferred one.                      *)
LEMMA SyncObservesStep ==
    ASSUME Inductive, SyncObserves
    PROVE  Inductive'
<1> USE DEF SyncObserves
<1>1. ram \in Settings /\ ram' = [ram EXCEPT !.esp = Observed]
  BY DEF Inductive, TypeOK
<1>2. /\ ram' \in Settings
      /\ ram'.ssid = ram.ssid /\ ram'.v6 = ram.v6 /\ ram'.auto = ram.auto
      /\ ram'.esp = Observed /\ ram'.pc = ram.pc
      /\ ram'.target = ram.target /\ ram'.inferred = ram.inferred
  BY <1>1, ObservedType DEF Settings
<1>3. TargetSelected'
  BY <1>2 DEF Inductive, TargetSelected
<1>4. Waiting' = {"esp"}
  BY QueueContents DEF Waiting
<1>5. \A k \in Keys \ {"target"} : k \notin Waiting' => ram'[k] = ram[k]
  BY <1>2, <1>4 DEF Keys
<1>6. TypeOK' /\ TargetSelected' /\ Stored' /\ OldTargetKept'
  BY <1>2, <1>3, <1>4, <1>5, Queues, HandlerStep
     DEF Inductive, TypeOK, heartbeat
<1>7. ~torn => ~ram.inferred
  BY DEF CanRebase, Inductive, Coherent, InferredFollows
<1>8. Coherent'
  BY <1>2, <1>7, ObservedType DEF Coherent, BaselineOfNetwork, InferredFollows
<1> QED
  BY <1>6, <1>8 DEF Inductive

(* handleSaveConfig                                                        *)
LEMMA SaveDiscoveryStep ==
    ASSUME Inductive, NEW form \in Forms, SaveDiscovery(form)
    PROVE  Inductive'
<1> DEFINE pc == IF form.auto THEN ram.pc ELSE form.pc
           inferred == ram.inferred /\ form.auto /\ form.ssid = ram.ssid
           esp == BaselineAfter(ram, form.ssid)
           t == Select(form.v6, pc)
<1>1. /\ Idle
      /\ ram' = [ssid |-> form.ssid, v6 |-> form.v6, auto |-> form.auto,
                 pc |-> pc, inferred |-> inferred, esp |-> esp, target |-> t]
      /\ todo' = SaveKeys
      /\ reported' = (reported /\ form.auto = ram.auto)
      /\ espNet' = IF form.ssid = ram.ssid THEN espNet ELSE NoPrefix
      /\ UNCHANGED <<nvs, age, quiet, torn>>
  BY DEF SaveDiscovery
<1>2. ram \in Settings /\ form \in Forms
  BY DEF Inductive, TypeOK
<1>3. /\ form.ssid \in Ssids /\ form.v6 \in BOOLEAN /\ form.auto \in BOOLEAN
      /\ pc \in Addresses /\ inferred \in BOOLEAN
  BY <1>2 DEF Settings, Forms
<1>4. esp \in Baselines
  BY <1>2, <1>3, AddressFacts DEF BaselineAfter, Settings, Baselines
<1>5. t \in Addresses
  BY <1>3, SelectType
<1>6. Coherent'
  <2>1. form.ssid = ram.ssid => esp = ram.esp
    BY DEF BaselineAfter
  <2>2. form.ssid # ram.ssid => esp.prefix = NoPrefix
    BY DEF BaselineAfter
  <2>3. inferred => pc = ram.pc /\ ram.inferred /\ form.ssid = ram.ssid
    OBVIOUS
  <2> HIDE DEF pc, inferred, esp, t
  <2> QED
    BY <1>1, <2>1, <2>2, <2>3
       DEF Inductive, Coherent, BaselineOfNetwork, InferredFollows
<1>7. TargetSelected'
  BY <1>1 DEF TargetSelected
<1> HIDE DEF pc, inferred, esp, t
<1>8. ram' \in Settings
  BY <1>1, <1>3, <1>4, <1>5 DEF Settings
<1>9. Waiting' = Keys
  BY <1>1, QueueContents DEF Waiting
<1>10. "pc" \in Keys
  BY DEF Keys
<1>11. /\ espNet' \in Addresses
       /\ reported' \in BOOLEAN
  BY <1>1, AddressFacts DEF Inductive, TypeOK
<1>12. TypeOK' /\ TargetSelected' /\ Stored' /\ OldTargetKept'
  BY <1>1, <1>7, <1>8, <1>9, <1>10, <1>11, Queues, HandlerStep
     DEF Inductive, TypeOK
<1> QED
  BY <1>6, <1>12 DEF Inductive

(* One put.  RAM stays, and the key that is put is stored from now on.     *)
LEMMA PutFields ==
    ASSUME Inductive, Put
    PROVE  /\ nvs' \in Flash
           /\ \A j \in Keys : nvs'[j] = IF j = Head(todo) THEN ram[j]
                                                          ELSE nvs[j]
<1> DEFINE k == Head(todo)
<1>1. /\ k \in Keys
      /\ nvs' = [nvs EXCEPT ![k] = ram[k]]
  BY QueueMoves DEF Inductive, TypeOK, Put
<1>2. nvs \in Flash /\ ram \in Settings /\ Addresses \subseteq Addresses \cup {Absent}
  BY AddressFacts DEF Inductive, TypeOK
<1> SUFFICES /\ nvs' \in Flash
             /\ \A j \in Keys : nvs'[j] = IF j = k THEN ram[j] ELSE nvs[j]
  OBVIOUS
<1> HIDE DEF k
<1>3. CASE k = "ssid"
  <2>1. nvs' = [nvs EXCEPT !.ssid = ram.ssid]
    BY <1>1, <1>3
  <2> QED
    BY <1>2, <1>3, <2>1 DEF Flash, Settings, Keys
<1>4. CASE k = "target"
  <2>1. nvs' = [nvs EXCEPT !.target = ram.target]
    BY <1>1, <1>4
  <2> QED
    BY <1>2, <1>4, <2>1 DEF Flash, Settings, Keys
<1>5. CASE k = "v6"
  <2>1. nvs' = [nvs EXCEPT !.v6 = ram.v6]
    BY <1>1, <1>5
  <2> QED
    BY <1>2, <1>5, <2>1 DEF Flash, Settings, Keys
<1>6. CASE k = "auto"
  <2>1. nvs' = [nvs EXCEPT !.auto = ram.auto]
    BY <1>1, <1>6
  <2> QED
    BY <1>2, <1>6, <2>1 DEF Flash, Settings, Keys
<1>7. CASE k = "pc"
  <2>1. nvs' = [nvs EXCEPT !.pc = ram.pc]
    BY <1>1, <1>7
  <2> QED
    BY <1>2, <1>7, <2>1 DEF Flash, Settings, Keys
<1>8. CASE k = "esp"
  <2>1. nvs' = [nvs EXCEPT !.esp = ram.esp]
    BY <1>1, <1>8
  <2> QED
    BY <1>2, <1>8, <2>1 DEF Flash, Settings, Keys
<1>9. CASE k = "inferred"
  <2>1. nvs' = [nvs EXCEPT !.inferred = ram.inferred]
    BY <1>1, <1>9
  <2> QED
    BY <1>2, <1>9, <2>1 DEF Flash, Settings, Keys
<1> QED
  BY <1>1, <1>3, <1>4, <1>5, <1>6, <1>7, <1>8, <1>9 DEF Keys

\* A put stores one key and leaves the others as they were.
LEMMA PutStep ==
    ASSUME Inductive, Put
    PROVE  Inductive'
<1> DEFINE k == Head(todo)
<1>1. /\ k \in Keys
      /\ todo' \in Seq(Keys)
      /\ Waiting = {k} \cup Waiting'
      /\ UNCHANGED <<ram, espNet, reported, age, quiet, torn>>
  BY QueueMoves DEF Inductive, TypeOK, Put, heartbeat
<1>2. /\ nvs \in Flash /\ nvs' \in Flash /\ ram \in Settings
      /\ \A j \in Keys : nvs'[j] = IF j = k THEN ram[j] ELSE nvs[j]
  BY PutFields DEF Inductive, TypeOK
<1> HIDE DEF k
<1>3. TypeOK'
  BY <1>1, <1>2 DEF Inductive, TypeOK
<1>4. TargetSelected' /\ Coherent'
  BY <1>1 DEF Inductive, TargetSelected, Coherent, BaselineOfNetwork,
              InferredFollows
<1>5. ram.pc # Absent
  BY <1>2, AddressFacts DEF Settings
<1>6. Keys = {"ssid", "target", "v6", "auto", "pc", "esp", "inferred"}
  BY DEF Keys
<1>7. Stored'
  <2> SUFFICES ASSUME NEW j \in Keys \ {"target"}, j \notin Waiting'
               PROVE  ram[j] = Loaded(nvs')[j]
    BY <1>1 DEF Stored
  <2>1. j # k => ram[j] = Loaded(nvs)[j]
    BY <1>1 DEF Inductive, Stored
  <2>2. CASE j # "pc"
    <3>1. Loaded(nvs')[j] = nvs'[j] /\ Loaded(nvs)[j] = nvs[j]
      BY <1>2, <1>6, <2>2, LoadedType
    <3> QED
      BY <1>2, <2>1, <3>1
  <2>3. CASE j = "pc" /\ k = "pc"
    <3>1. nvs'.pc = ram.pc
      BY <1>2, <1>6, <2>3
    <3> QED
      BY <1>2, <1>5, <2>3, <3>1, LoadedType
  <2>4. CASE j = "pc" /\ k # "pc"
    <3>1. nvs'.pc = nvs.pc
      BY <1>2, <1>6, <2>4
    <3>2. nvs.pc = Absent => nvs'.target = nvs.target
      <4>1. nvs.pc = Absent => k # "target"
        BY <1>1, <2>4 DEF Inductive, OldTargetKept
      <4> QED
        BY <1>2, <1>6, <4>1
    <3> QED
      BY <1>2, <2>1, <2>4, <3>1, <3>2, LoadedType
  <2> QED
    BY <2>2, <2>3, <2>4
<1>8. OldTargetKept'
  <2>1. nvs'.pc = IF k = "pc" THEN ram.pc ELSE nvs.pc
    BY <1>2, <1>6
  <2> QED
    BY <1>1, <1>5, <2>1 DEF Inductive, OldTargetKept
<1> QED
  BY <1>3, <1>4, <1>7, <1>8 DEF Inductive

-----------------------------------------------------------------------------
(* Restarts                                                                *)

\* A factory reset starts from empty Preferences.
LEMMA FactoryResetStep ==
    ASSUME Inductive, NEW s \in Ssids, FactoryReset(s)
    PROVE  Inductive'
<1>1. EmptyFlash(s) \in Flash
  BY EmptyFlashType
<1>2. /\ TypeOK' /\ TargetSelected' /\ Stored' /\ OldTargetKept'
      /\ ram' = Loaded(EmptyFlash(s))
  BY <1>1, BootStep DEF FactoryReset, Inductive
<1>3. ram'.esp.prefix = NoPrefix /\ ram'.inferred = FALSE
  BY <1>1, <1>2, LoadedType DEF EmptyFlash
<1>4. Coherent'
  BY <1>3 DEF Coherent, BaselineOfNetwork, InferredFollows
<1> QED
  BY <1>2, <1>4 DEF Inductive

\* A power cut starts from what has been put so far.
LEMMA PowerCycleStep ==
    ASSUME Inductive, PowerCycle
    PROVE  Inductive'
<1>1. nvs \in Flash /\ torn' \in BOOLEAN
  BY DEF Inductive, TypeOK, PowerCycle
<1>2. /\ TypeOK' /\ TargetSelected' /\ Stored' /\ OldTargetKept'
      /\ ram' = Loaded(nvs)
  BY <1>1, BootStep DEF PowerCycle, Inductive
<1>3. ~torn' => ~torn /\ ram' = ram
  BY <1>2, IdleMeansStored DEF PowerCycle
<1>4. Coherent'
  BY <1>3 DEF Inductive, Coherent, BaselineOfNetwork, InferredFollows
<1> QED
  BY <1>2, <1>4 DEF Inductive

\* A change of the board's prefix touches no setting.
LEMMA OutsideStep ==
    ASSUME Inductive, espNet' \in Addresses, reported' \in BOOLEAN,
           age' \in 0 .. Wrap - 1, quiet' \in 0 .. Wrap,
           UNCHANGED <<ram, nvs, todo, torn>>
    PROVE  Inductive'
<1>1. TypeOK'
  BY DEF Inductive, TypeOK
<1>2. TargetSelected' /\ Stored' /\ OldTargetKept' /\ Coherent'
  BY DEF Inductive, TargetSelected, Stored, OldTargetKept, Waiting, Coherent,
         BaselineOfNetwork, InferredFollows
<1> QED
  BY <1>1, <1>2 DEF Inductive

\* The clock keeps age and silence within their bounds.
LEMMA TickTypes ==
    ASSUME TypeOK, Tick
    PROVE  age' \in 0 .. Wrap - 1 /\ quiet' \in 0 .. Wrap
BY ClockAssumption DEF TypeOK, Tick

\* A fresh or an upgraded board satisfies the invariant.
LEMMA InductiveInit == Init => Inductive
<1> SUFFICES ASSUME NEW s \in Ssids, NEW t \in Addresses, Init,
                    nvs = [EmptyFlash(s) EXCEPT !.target = t]
             PROVE  Inductive
  BY DEF Init
<1>1. /\ nvs \in Flash /\ ram = Loaded(nvs) /\ ram \in Settings
      /\ ram.esp = EmptyFlash(s).esp /\ ram.inferred = FALSE
  BY EmptyFlashType, LoadedType DEF Init, EmptyFlash
<1>2. TypeOK
  <2>1. <<>> \in Seq(Keys) /\ 0 \in 0 .. Wrap - 1 /\ 0 \in 0 .. Wrap
    BY ClockAssumption
  <2> QED
    BY <1>1, <2>1, AddressFacts DEF Init, TypeOK
<1>3. TargetSelected
  BY <1>1, LoadedType DEF TargetSelected
<1>4. Stored /\ OldTargetKept
  BY <1>1 DEF Init, Stored, OldTargetKept, Waiting
<1>5. Coherent
  BY <1>1 DEF Coherent, BaselineOfNetwork, InferredFollows, EmptyFlash
<1> QED
  BY <1>2, <1>3, <1>4, <1>5 DEF Inductive

\* Every step keeps the invariant.
LEMMA InductiveStep == Inductive /\ [Next]_vars => Inductive'
<1> SUFFICES ASSUME Inductive, [Next]_vars PROVE Inductive'
  OBVIOUS
<1>1. CASE \E v \in Addresses : ReportTaken(v) \/ ReportOnlyHeard(v)
  BY <1>1, ReportTakenStep, ReportOnlyHeardStep
<1>2. CASE SyncRebases \/ SyncObserves
  BY <1>2, SyncRebasesStep, SyncObservesStep
<1>3. CASE \E form \in Forms : SaveDiscovery(form)
  BY <1>3, SaveDiscoveryStep
<1>4. CASE Put
  BY <1>4, PutStep
<1>5. CASE \E s \in Ssids : FactoryReset(s)
  BY <1>5, FactoryResetStep
<1>6. CASE PowerCycle
  BY <1>6, PowerCycleStep
<1>7. CASE \E p \in Addresses : EspPrefixChanges(p)
  BY <1>7, OutsideStep DEF EspPrefixChanges, heartbeat, Inductive, TypeOK
<1>8. CASE Tick
  BY <1>8, OutsideStep, TickTypes DEF Tick, Inductive, TypeOK
<1>9. CASE UNCHANGED vars
  BY <1>9, OutsideStep DEF vars, Inductive, TypeOK
<1> QED
  BY <1>1, <1>2, <1>3, <1>4, <1>5, <1>6, <1>7, <1>8, <1>9 DEF Next

(* The age of a helper report, which every step but Tick, a report and a   *)
(* restart leaves alone.                                                   *)
LEMMA AgeStep ==
    ASSUME TypeOK, AgeIsTrue, [Next]_vars
    PROVE  AgeIsTrue'
<1>1. CASE Tick
  <2>1. /\ age \in 0 .. Wrap - 1 /\ quiet \in 0 .. Wrap /\ Wrap \in Nat
        /\ reported' = reported
        /\ age' = (age + 1) % Wrap
        /\ quiet' = IF quiet = Wrap THEN Wrap ELSE quiet + 1
    BY <1>1, ClockAssumption DEF TypeOK, Tick
  <2>2. CASE quiet' < Wrap
    <3>1. quiet' = quiet + 1 /\ quiet + 1 < Wrap /\ quiet < Wrap
      BY <2>1, <2>2
    <3>2. reported => age' = age + 1
      BY <2>1, <3>1 DEF AgeIsTrue
    <3> QED
      BY <2>1, <3>1, <3>2 DEF AgeIsTrue
  <2>3. CASE ~(quiet' < Wrap)
    BY <2>3 DEF AgeIsTrue
  <2> QED
    BY <2>2, <2>3
<1>2. CASE \E v \in Addresses : ReportTaken(v) \/ ReportOnlyHeard(v)
  BY <1>2 DEF ReportTaken, ReportOnlyHeard, Heard, AgeIsTrue
<1>3. CASE \E form \in Forms : SaveDiscovery(form)
  BY <1>3 DEF SaveDiscovery, AgeIsTrue
<1>4. CASE PowerCycle \/ \E s \in Ssids : FactoryReset(s)
  BY <1>4 DEF PowerCycle, FactoryReset, Boot, ReportedAfterBoot, AgeIsTrue
<1>5. CASE SyncRebases \/ SyncObserves \/ Put
  BY <1>5 DEF SyncRebases, SyncObserves, Put, heartbeat, AgeIsTrue
<1>6. CASE UNCHANGED vars \/ \E p \in Addresses : EspPrefixChanges(p)
  BY <1>6 DEF vars, EspPrefixChanges, heartbeat, AgeIsTrue
<1> QED
  BY <1>1, <1>2, <1>3, <1>4, <1>5, <1>6 DEF Next

(* The invariant that carries the results below.                           *)
THEOREM InductiveInvariant == Spec => []Inductive
BY InductiveInit, InductiveStep, PTL DEF Spec

(* Types are kept: no address is ever the mark of an absent key.           *)
THEOREM TypeCorrect == Spec => []TypeOK
<1>1. Inductive => TypeOK
  BY DEF Inductive
<1> QED
  BY <1>1, InductiveInvariant, PTL

(* Every handler puts every key it changes: a restart between two handlers *)
(* loses nothing (loadDiscoveryConfig after handleSerialLine,              *)
(* syncPcIpv6Prefix and saveConfig).                                       *)
THEOREM DiscoveryIsKept == Spec => []RestartKeepsDiscovery
<1>1. Inductive => RestartKeepsDiscovery
  BY IdleMeansStored DEF RestartKeepsDiscovery
<1> QED
  BY <1>1, InductiveInvariant, PTL

(* Unless a power cut tears the puts of a handler apart, the baseline is   *)
(* that of the configured network and an inferred address lies in the      *)
(* prefix this board last saw.                                             *)
THEOREM DiscoveryIsCoherent == Spec => []CoherentUnlessTorn
<1>1. Inductive => CoherentUnlessTorn
  BY DEF Inductive, Coherent, CoherentUnlessTorn
<1> QED
  BY <1>1, InductiveInvariant, PTL

(* In automatic mode an address that is not inferred is published only     *)
(* while the helper's last report is fresh, as long as the helper has not  *)
(* been silent for a whole round of millis().                              *)
THEOREM HelperIsHeard == Spec => []HelperHeard
<1>1. Init => AgeIsTrue
  BY DEF Init, AgeIsTrue
<1>2. Inductive /\ AgeIsTrue /\ [Next]_vars => AgeIsTrue'
  BY AgeStep DEF Inductive
<1>3. AgeIsTrue => HelperHeard
  BY DEF AgeIsTrue, HelperHeard, PcPublishable
<1> QED
  BY <1>1, <1>2, <1>3, InductiveInvariant, PTL DEF Spec
=============================================================================
