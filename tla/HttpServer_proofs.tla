------------------------- MODULE HttpServer_proofs -------------------------
(***************************************************************************)
(* HttpServer for any clients, pool size and timeouts: no connection is    *)
(* lost or overwritten, a stopped server holds nothing, the two timeouts   *)
(* end a connection neither early nor two passes late wherever millis()    *)
(* does not wrap meanwhile, and the server is the pool of HttpPool.  The   *)
(* inductive invariant adds that a free slot found by the scan is still    *)
(* free when it is used, and that the clock has moved as far as each       *)
(* connection's silence, or its wait for the close notify.                 *)
(***************************************************************************)
EXTENDS HttpServer, FiniteSetTheorems, TLAPS

\* The phases of a connection that exists.
Connected == {"open", "closing", "closed"}

-----------------------------------------------------------------------------
(* Arithmetic, the pool and the backlog *)

\* A time below the wrap is itself, any other comes out below it.
LEMMA ModOf ==
    ASSUME NEW a \in Nat, NEW w \in Nat \ {0}
    PROVE  a % w \in 0 .. w - 1 /\ (a < w => a % w = a)
  OBVIOUS

LEMMA PoolIs ==
    \A c : c \in InPool <=> c # None /\ \E i \in Slots : slot[i] = c
  BY DEF InPool

LEMMA TailOf ==
    ASSUME NEW S, NEW s \in Seq(S), s # <<>>
    PROVE  /\ Tail(s) \in Seq(S) /\ Head(s) \in S /\ Head(s) = s[1]
           /\ Len(s) \in Nat \ {0} /\ Len(Tail(s)) = Len(s) - 1
           /\ DOMAIN s = 1 .. Len(s) /\ DOMAIN Tail(s) = 1 .. Len(s) - 1
           /\ \A i \in DOMAIN Tail(s) : Tail(s)[i] = s[i + 1]
  OBVIOUS

LEMMA AppendOf ==
    ASSUME NEW S, NEW s \in Seq(S), NEW e \in S
    PROVE  /\ Append(s, e) \in Seq(S) /\ Len(s) \in Nat
           /\ Len(Append(s, e)) = Len(s) + 1
           /\ DOMAIN s = 1 .. Len(s) /\ DOMAIN Append(s, e) = 1 .. Len(s) + 1
           /\ \A i \in DOMAIN s : Append(s, e)[i] = s[i]
           /\ Append(s, e)[Len(s) + 1] = e
  OBVIOUS

LEMMA EmptyOf ==
    ASSUME NEW S
    PROVE  <<>> \in Seq(S) /\ Len(<<>>) = 0 /\ DOMAIN <<>> = {}
  OBVIOUS

\* Taking the head off the backlog leaves the rest waiting, once each, even if
\* the head itself no longer waits.
LEMMA HeadTaken ==
    ASSUME Inductive, backlog # <<>>, backlog' = Tail(backlog),
           \A d \in Clients \ {Head(backlog)} : phase'[d] = phase[d]
    PROVE  /\ backlog' \in Seq(Clients) /\ Len(backlog') <= MaxConnections
           /\ Head(backlog) \in Clients /\ phase[Head(backlog)] = "waiting"
           /\ BacklogWaits'
           /\ Waiting' = Waiting \ {Head(backlog)} /\ Head(backlog) \in Waiting
  <1>1. backlog \in Seq(Clients) /\ Len(backlog) <= MaxConnections /\ BacklogWaits
    BY DEF Inductive, TypeOK
  <1>2. /\ backlog' \in Seq(Clients) /\ Head(backlog) \in Clients
        /\ Head(backlog) = backlog[1]
        /\ Len(backlog) \in Nat \ {0} /\ Len(backlog') = Len(backlog) - 1
        /\ DOMAIN backlog = 1 .. Len(backlog)
        /\ DOMAIN backlog' = 1 .. Len(backlog) - 1
        /\ \A i \in DOMAIN backlog' : backlog'[i] = backlog[i + 1]
    BY <1>1, TailOf
  <1>3. Len(backlog') <= MaxConnections
    BY <1>1, <1>2, ServerAssumption
  <1>4. phase[Head(backlog)] = "waiting" /\ Head(backlog) \in Waiting
    BY <1>1, <1>2 DEF BacklogWaits, Waiting
  <1>5. \A i \in DOMAIN backlog' :
            /\ i + 1 \in DOMAIN backlog /\ backlog[i + 1] \in Clients
            /\ backlog[i + 1] # backlog[1]
    BY <1>1, <1>2 DEF BacklogWaits
  <1>6. BacklogWaits'
    <2>1. \A i \in DOMAIN backlog' : phase'[backlog'[i]] = "waiting"
      BY <1>1, <1>2, <1>5 DEF BacklogWaits
    <2>2. ASSUME NEW i \in DOMAIN backlog', NEW j \in DOMAIN backlog',
                 backlog'[i] = backlog'[j]
          PROVE  i = j
      <3>1. i + 1 = j + 1
        BY <1>1, <1>2, <1>5, <2>2 DEF BacklogWaits
      <3> QED
        BY <1>2, <3>1
    <2> QED
      BY <2>1, <2>2 DEF BacklogWaits
  <1>7. Waiting' = Waiting \ {Head(backlog)}
    <2>1. ASSUME NEW c \in Waiting' PROVE c \in Waiting \ {Head(backlog)}
      BY <1>2, <1>5, <2>1 DEF Waiting
    <2>2. ASSUME NEW c \in Waiting, c # Head(backlog) PROVE c \in Waiting'
      <3>1. PICK i \in DOMAIN backlog : backlog[i] = c
        BY DEF Waiting
      <3>2. i # 1
        BY <1>2, <2>2, <3>1
      <3>3. i - 1 \in DOMAIN backlog' /\ (i - 1) + 1 = i
        BY <1>2, <3>2
      <3>4. backlog'[i - 1] = c
        BY <1>2, <3>1, <3>3
      <3> QED
        BY <3>3, <3>4 DEF Waiting
    <2> QED
      BY <2>1, <2>2
  <1> QED
    BY <1>2, <1>3, <1>4, <1>6, <1>7

\* The next slot, or the listening socket after the last one.
LEMMA AdvanceHolds ==
    ASSUME TypeOK, pc = "scan", Advance
    PROVE  /\ at' \in Slots /\ pc' \in {"scan", "accept"}
           /\ \A i \in Slots : (pc' # "scan" \/ i < at') => i <= at
  BY ServerAssumption DEF Advance, TypeOK, Slots

\* A step that leaves the slots, the backlog and the connections' phases alone.
LEMMA SameConnections ==
    ASSUME Inductive, UNCHANGED <<slot, phase, backlog>>
    PROVE  /\ \A i, j \in Slots : slot'[i] = slot'[j] /\ slot'[i] # None => i = j
           /\ \A c \in Clients : phase'[c] \in Connected <=> c \in InPool'
           /\ BacklogWaits'
  BY DEF Inductive, PoolConsistent, BacklogWaits, InPool, Connected

\* The two halves of PoolConsistent and FreeIsFree.
LEMMA Consistent ==
    ASSUME \A i, j \in Slots : slot[i] = slot[j] /\ slot[i] # None => i = j,
           \A c \in Clients : phase[c] \in Connected <=> c \in InPool,
           FreeIsFree
    PROVE  PoolConsistent
  BY DEF PoolConsistent, FreeIsFree, Connected

\* A step that leaves the connections that stay and the time alone, and does not
\* move the scan past one of them.
LEMMA CountedKept ==
    ASSUME Inductive, clock' = clock, spent' = spent,
           \A i \in Slots : slot'[i] # None /\ phase'[slot'[i]] \in Live
               => /\ slot'[i] = slot[i] /\ phase'[slot[i]] = phase[slot[i]]
                  /\ stamp'[slot[i]] = stamp[slot[i]]
                  /\ silent'[slot[i]] = silent[slot[i]]
                  /\ Looked(i)' => Looked(i)
    PROVE  Counted'
  <1> SUFFICES ASSUME NEW i \in Slots, slot'[i] # None,
                      phase'[slot'[i]] \in Live, ~NearWrap(slot[i])'
               PROVE  /\ clock' = stamp'[slot'[i]] + silent'[slot'[i]]
                      /\ silent'[slot'[i]] <=
                             Patience(slot[i])' + PassLength + spent'
                      /\ Looked(i)' =>
                             silent'[slot'[i]] <= Patience(slot[i])' + spent'
    BY DEF Counted
  <1>1. /\ slot'[i] = slot[i] /\ phase'[slot[i]] = phase[slot[i]]
        /\ stamp'[slot[i]] = stamp[slot[i]] /\ silent'[slot[i]] = silent[slot[i]]
        /\ Looked(i)' => Looked(i)
    OBVIOUS
  <1>2. Patience(slot[i])' = Patience(slot[i]) /\ ~NearWrap(slot[i])
    BY <1>1 DEF Patience, NearWrap
  <1> QED
    BY <1>1, <1>2 DEF Inductive, Counted

\* Before the wrap, the code's test is right about the time that has passed.
LEMMA ExceededIs ==
    ASSUME Inductive, NEW i \in Slots, slot[i] # None,
           phase[slot[i]] \in Live, ~NearWrap(slot[i])
    PROVE  /\ Exceeded(slot[i]) <=> silent[slot[i]] > Patience(slot[i])
           /\ Patience(slot[i]) \in Nat /\ silent[slot[i]] \in Nat
           /\ {stamp[slot[i]], clock, spent, PassLength, Wrap} \subseteq Nat
           /\ spent <= PassLength
           /\ stamp[slot[i]] + Patience(slot[i]) + 2 * PassLength < Wrap
           /\ clock = stamp[slot[i]] + silent[slot[i]]
           /\ silent[slot[i]] <= Patience(slot[i]) + PassLength + spent
           /\ Looked(i) => silent[slot[i]] <= Patience(slot[i]) + spent
  <1> DEFINE c == slot[i]
  <1>1. /\ c \in Clients /\ stamp[c] \in Nat /\ silent[c] \in Nat
        /\ {clock, spent, PassLength, Timeout, Shutdown} \subseteq Nat
        /\ Wrap \in Nat \ {0} /\ spent <= PassLength
    BY ServerAssumption DEF Inductive, TypeOK
  <1>2. Patience(c) \in Nat
    BY <1>1 DEF Patience
  <1>3. stamp[c] + Patience(c) + 2 * PassLength < Wrap
    BY <1>1, <1>2 DEF NearWrap
  <1>4. /\ clock = stamp[c] + silent[c]
        /\ silent[c] <= Patience(c) + PassLength + spent
        /\ Looked(i) => silent[c] <= Patience(c) + spent
    BY DEF Inductive, Counted
  <1>5. (stamp[c] + Patience(c)) % Wrap = stamp[c] + Patience(c)
    <2>1. stamp[c] + Patience(c) \in Nat /\ stamp[c] + Patience(c) < Wrap
      BY <1>1, <1>2, <1>3
    <2> QED
      BY <1>1, <2>1, ModOf
  <1>6. Exceeded(c) <=> (stamp[c] + Patience(c)) % Wrap < clock
    BY DEF Exceeded, TimeoutExceeded, ShutdownExceeded, Patience
  <1> QED
    BY <1>1, <1>2, <1>3, <1>4, <1>5, <1>6

-----------------------------------------------------------------------------
(* Steps *)

LEMMA InitHolds == Init => Inductive
  <1> SUFFICES ASSUME Init PROVE Inductive
    OBVIOUS
  <1>1. /\ 0 \in 0 .. Wrap - 1 /\ 0 \in 0 .. Wrap /\ 0 \in Slots
        /\ 0 \in 0 .. PassLength
    BY ServerAssumption DEF Slots
  <1>2. backlog \in Seq(Clients) /\ Len(backlog) = 0 /\ DOMAIN backlog = {}
    BY EmptyOf DEF Init
  <1>3. TypeOK
    <2>1. {secure, running, listening, context} \subseteq BOOLEAN
      BY DEF Init
    <2>2. /\ stamp \in [Clients -> 0 .. Wrap - 1]
          /\ silent \in [Clients -> 0 .. Wrap]
      BY <1>1 DEF Init
    <2>3. talks \in [Clients -> BOOLEAN] /\ slot \in [Slots -> Clients \cup {None}]
      BY DEF Init
    <2> QED
      BY <1>1, <1>2, <2>1, <2>2, <2>3, ServerAssumption DEF Init, TypeOK
  <1>4. InPool = {}
    BY DEF Init, InPool
  <1> QED
    BY <1>2, <1>3, <1>4 DEF Init, Inductive, PoolConsistent,
       ReleasedWhenStopped, BacklogWaits, FreeIsFree, Listens, StartsEmpty, Counted

LEMMA BeginStep ==
    ASSUME Inductive, Begin
    PROVE  Inductive'
  <1>1. /\ pc = "rest" /\ running /\ pc' = "scan" /\ at' = 0 /\ free' = None
        /\ spent' = 0
        /\ UNCHANGED <<secure, running, listening, context, slot, phase, stamp,
                       talks, silent, backlog, clock>>
    BY DEF Begin, server, connection
  <1>2. TypeOK'
    <2>1. 0 \in Slots /\ 0 \in 0 .. PassLength
      BY ServerAssumption DEF Slots
    <2> QED
      BY <1>1, <2>1 DEF Inductive, TypeOK
  <1>3. FreeIsFree' /\ Listens' /\ ReleasedWhenStopped' /\ StartsEmpty'
    BY <1>1 DEF Inductive, FreeIsFree, Listens, ReleasedWhenStopped, StartsEmpty
  <1>4. PoolConsistent' /\ BacklogWaits'
    BY <1>1, <1>3, SameConnections DEF PoolConsistent, FreeIsFree, Connected
  <1>5. Counted'
    <2> SUFFICES ASSUME NEW i \in Slots, slot[i] # None, phase[slot[i]] \in Live,
                        ~NearWrap(slot[i])
                 PROVE  /\ clock = stamp[slot[i]] + silent[slot[i]]
                        /\ silent[slot[i]] <= Patience(slot[i]) + PassLength + 0
                        /\ ~(i < 0)
      BY <1>1 DEF Counted, NearWrap, Patience, Looked
    <2>1. Looked(i)
      BY <1>1 DEF Looked
    <2> QED
      BY <2>1, ExceededIs DEF Slots
  <1> QED
    BY <1>2, <1>3, <1>4, <1>5 DEF Inductive

LEMMA ScanEmptyStep ==
    ASSUME Inductive, ScanEmpty
    PROVE  Inductive'
  <1>1. /\ pc = "scan" /\ slot[at] = None /\ free' = at /\ Advance
        /\ UNCHANGED <<secure, running, listening, context, slot, phase, stamp,
                       talks, silent, backlog, clock, spent>>
    BY DEF ScanEmpty, server, connection, time
  <1>2. TypeOK
    BY DEF Inductive
  <1>3. /\ at' \in Slots /\ pc' \in {"scan", "accept"}
        /\ \A i \in Slots : (pc' # "scan" \/ i < at') => i <= at
    BY <1>1, <1>2, AdvanceHolds
  <1>4. TypeOK'
    BY <1>1, <1>2, <1>3 DEF TypeOK
  <1>5. FreeIsFree' /\ Listens' /\ ReleasedWhenStopped' /\ StartsEmpty'
    BY <1>1, <1>3 DEF Inductive, FreeIsFree, Listens, ReleasedWhenStopped,
       StartsEmpty
  <1>6. PoolConsistent' /\ BacklogWaits'
    BY <1>1, <1>5, SameConnections DEF PoolConsistent, FreeIsFree, Connected
  <1>7. Counted'
    <2>1. \A i \in Slots : i # at /\ i <= at => i < at
      BY <1>2, ServerAssumption DEF TypeOK, Slots
    <2>2. \A i \in Slots : slot[i] # None /\ Looked(i)' => Looked(i)
      BY <1>1, <1>3, <2>1 DEF Looked
    <2> QED
      BY <1>1, <2>2, CountedKept
  <1> QED
    BY <1>4, <1>5, <1>6, <1>7 DEF Inductive

LEMMA ScanClosedStep ==
    ASSUME Inductive, ScanClosed
    PROVE  Inductive'
  <1> DEFINE c == slot[at]
  <1>1. /\ pc = "scan" /\ c # None /\ phase[c] = "closed" /\ free' = at /\ Advance
        /\ slot' = [slot EXCEPT ![at] = None]
        /\ phase' = [phase EXCEPT ![c] = "away"]
        /\ stamp' = [stamp EXCEPT ![c] = 0]
        /\ talks' = [talks EXCEPT ![c] = FALSE]
        /\ silent' = [silent EXCEPT ![c] = 0]
        /\ UNCHANGED <<secure, running, listening, context, backlog, clock, spent>>
    BY DEF ScanClosed, Delete, server, time
  <1>2. TypeOK /\ at \in Slots /\ c \in Clients
    BY <1>1 DEF Inductive, TypeOK
  <1>3. /\ at' \in Slots /\ pc' \in {"scan", "accept"}
        /\ \A i \in Slots : (pc' # "scan" \/ i < at') => i <= at
    BY <1>1, <1>2, AdvanceHolds
  <1>4. 0 \in 0 .. Wrap - 1 /\ 0 \in 0 .. Wrap
    BY ServerAssumption
  <1>5. talks' \in [Clients -> BOOLEAN]
    BY <1>1, <1>2 DEF TypeOK
  <1>6. TypeOK'
    BY <1>1, <1>2, <1>3, <1>4, <1>5 DEF TypeOK
  <1>7. \A i \in Slots : i # at => slot'[i] = slot[i] /\ slot[i] # c
    BY <1>1, <1>2 DEF Inductive, PoolConsistent, TypeOK
  <1>8. slot'[at] = None
    BY <1>1, <1>2 DEF TypeOK
  <1>9. \A d \in Clients : d # c => phase'[d] = phase[d] /\ stamp'[d] = stamp[d]
                                    /\ silent'[d] = silent[d]
    BY <1>1, <1>2 DEF TypeOK
  <1>10. phase'[c] = "away"
    BY <1>1, <1>2 DEF TypeOK
  <1>11. FreeIsFree' /\ Listens' /\ ReleasedWhenStopped' /\ StartsEmpty'
    BY <1>1, <1>3, <1>8 DEF Inductive, FreeIsFree, Listens, ReleasedWhenStopped,
       StartsEmpty
  <1>12. \A i, j \in Slots : slot'[i] = slot'[j] /\ slot'[i] # None => i = j
    BY <1>7, <1>8 DEF Inductive, PoolConsistent
  <1>13. \A d \in Clients : phase'[d] \in Connected <=> d \in InPool'
    <2>1. \A d : d \in InPool' <=> d # None /\ \E i \in Slots : slot'[i] = d
      BY DEF InPool
    <2>2. c \notin InPool' /\ phase'[c] \notin Connected
      BY <1>1, <1>7, <1>8, <1>10, <2>1 DEF Connected
    <2>3. \A d \in Clients : d # c => (d \in InPool' <=> d \in InPool)
      BY <1>7, <1>8, <2>1, PoolIs
    <2> QED
      BY <1>9, <2>2, <2>3 DEF Inductive, PoolConsistent, Connected
  <1>14. BacklogWaits'
    <2>1. \A i \in DOMAIN backlog : backlog[i] \in Clients /\ backlog[i] # c
      BY <1>1, <1>2 DEF Inductive, BacklogWaits, TypeOK
    <2> QED
      BY <1>1, <1>9, <2>1 DEF Inductive, BacklogWaits
  <1>15. Counted'
    <2>1. \A i \in Slots : i # at /\ i <= at => i < at
      BY <1>2, ServerAssumption DEF Slots
    <2>2. \A i \in Slots : slot'[i] # None =>
              /\ i # at /\ slot'[i] = slot[i] /\ slot[i] \in Clients /\ slot[i] # c
      BY <1>2, <1>7, <1>8 DEF TypeOK
    <2>3. \A i \in Slots : i # at /\ Looked(i)' => Looked(i)
      BY <1>1, <1>3, <2>1 DEF Looked
    <2> QED
      BY <1>1, <1>9, <2>2, <2>3, CountedKept
  <1>16. PoolConsistent'
    BY <1>11, <1>12, <1>13 DEF PoolConsistent, FreeIsFree, Connected
  <1> QED
    BY <1>6, <1>11, <1>14, <1>15, <1>16 DEF Inductive

\* A connection that closeConnection leaves closing still has time to do so.
LEMMA ClosingInTime ==
    ASSUME Inductive, NEW i \in Slots, slot[i] # None,
           "closing" \in AfterClose(slot[i]),
           phase[slot[i]] = "closing" => ~NearWrap(slot[i])
    PROVE  IF phase[slot[i]] = "open"
              THEN StampAfterClose(slot[i]) = clock
              ELSE /\ phase[slot[i]] = "closing"
                   /\ StampAfterClose(slot[i]) = stamp[slot[i]]
                   /\ clock = stamp[slot[i]] + silent[slot[i]]
                   /\ silent[slot[i]] <= Shutdown
  <1>1. slot[i] \in InPool /\ slot[i] \in Clients
    BY PoolIs DEF Inductive, TypeOK
  <1>2. phase[slot[i]] \in Connected
    BY <1>1 DEF Inductive, PoolConsistent, Connected
  <1>3. phase[slot[i]] # "closed"
    BY DEF AfterClose
  <1>4. CASE phase[slot[i]] = "open"
    BY <1>4 DEF StampAfterClose
  <1>5. CASE phase[slot[i]] = "closing"
    <2>1. ~Exceeded(slot[i]) /\ Patience(slot[i]) = Shutdown
      BY <1>5 DEF AfterClose, Exceeded, Patience
    <2>2. /\ clock = stamp[slot[i]] + silent[slot[i]]
          /\ silent[slot[i]] \in Nat /\ ~(silent[slot[i]] > Shutdown)
      BY <1>5, <2>1, ExceededIs DEF Live
    <2> QED
      BY <1>5, <2>2, ServerAssumption DEF StampAfterClose
  <1> QED
    BY <1>2, <1>3, <1>4, <1>5 DEF Connected

\* The connection at the scan stays in its slot; what its loop() does keeps it
\* alive only if the timeout has not passed.
LEMMA ScanLiveStep ==
    ASSUME Inductive, ScanLive
    PROVE  Inductive'
  <1> DEFINE c == slot[at]
  <1>1. /\ pc = "scan" /\ c # None /\ phase[c] # "closed" /\ Advance
        /\ Transmit(c) \/ Idle(c) \/ Close(c)
        /\ UNCHANGED <<secure, running, listening, context, slot, backlog, free,
                       clock, spent>>
    BY DEF ScanLive, server, time
  <1>2. TypeOK /\ at \in Slots /\ c \in Clients /\ clock \in 0 .. Wrap - 1
    BY <1>1 DEF Inductive, TypeOK
  <1>3. /\ at' \in Slots /\ pc' \in {"scan", "accept"}
        /\ \A i \in Slots : (pc' # "scan" \/ i < at') => i <= at
    BY <1>1, <1>2, AdvanceHolds
  <1>4. c \in InPool /\ phase[c] \in Connected
    BY <1>1, <1>2, PoolIs DEF Inductive, PoolConsistent, Connected
  <1>5. 0 \in 0 .. Wrap
    BY ServerAssumption
  <1>6. /\ phase' \in [Clients -> {"away", "waiting", "open", "closing", "closed"}]
        /\ stamp' \in [Clients -> 0 .. Wrap - 1]
        /\ silent' \in [Clients -> 0 .. Wrap]
        /\ talks' \in [Clients -> BOOLEAN]
        /\ phase'[c] \in Connected
        /\ \A d \in Clients : d # c => phase'[d] = phase[d] /\ stamp'[d] = stamp[d]
                                       /\ silent'[d] = silent[d]
    <2>1. CASE Transmit(c)
      <3>1. talks' \in [Clients -> BOOLEAN]
        BY <1>2, <2>1 DEF Transmit, TypeOK
      <3> QED
        BY <1>2, <1>4, <1>5, <2>1, <3>1 DEF Transmit, TypeOK
    <2>2. CASE Idle(c)
      BY <1>2, <1>4, <2>2 DEF Idle, TypeOK, connection
    <2>3. CASE Close(c)
      <3>1. PICK p \in AfterClose(c) : phase' = [phase EXCEPT ![c] = p]
        BY <2>3 DEF Close
      <3>2. p \in {"closing", "closed"}
        BY <3>1 DEF AfterClose
      <3>3. StampAfterClose(c) \in 0 .. Wrap - 1
        BY <1>2 DEF StampAfterClose, TypeOK
      <3>4. talks' \in [Clients -> BOOLEAN]
        BY <1>2, <2>3 DEF Close, TypeOK
      <3>5. silent' \in [Clients -> 0 .. Wrap]
        BY <1>2, <1>5, <2>3 DEF Close, TypeOK
      <3> QED
        BY <1>2, <2>3, <3>1, <3>2, <3>3, <3>4, <3>5 DEF Close, TypeOK, Connected
    <2> QED
      BY <1>1, <2>1, <2>2, <2>3
  <1>7. TypeOK'
    BY <1>1, <1>2, <1>3, <1>6 DEF TypeOK
  <1>8. FreeIsFree' /\ Listens' /\ ReleasedWhenStopped' /\ StartsEmpty'
    BY <1>1, <1>3 DEF Inductive, FreeIsFree, Listens, ReleasedWhenStopped,
       StartsEmpty
  <1>9. \A d \in Clients : phase'[d] \in Connected <=> d \in InPool'
    <2>1. InPool' = InPool
      BY <1>1 DEF InPool
    <2> QED
      BY <1>4, <1>6, <2>1 DEF Inductive, PoolConsistent, Connected
  <1>10. PoolConsistent'
    BY <1>1, <1>8, <1>9 DEF Inductive, PoolConsistent, FreeIsFree, Connected
  <1>11. BacklogWaits'
    <2>1. \A i \in DOMAIN backlog : backlog[i] \in Clients /\ backlog[i] # c
      BY <1>2, <1>4 DEF Inductive, BacklogWaits, TypeOK, Connected
    <2> QED
      BY <1>1, <1>6, <2>1 DEF Inductive, BacklogWaits
  <1>12. Counted'
    <2> SUFFICES ASSUME NEW i \in Slots, slot[i] # None, phase'[slot[i]] \in Live,
                        ~NearWrap(slot[i])'
                 PROVE  /\ clock = stamp'[slot[i]] + silent'[slot[i]]
                        /\ silent'[slot[i]] <= Patience(slot[i])' + PassLength + spent
                        /\ Looked(i)' => silent'[slot[i]] <= Patience(slot[i])' + spent
      BY <1>1 DEF Counted
    <2>1. CASE i # at
      <3>1. slot[i] \in Clients /\ slot[i] # c
        BY <1>2, <2>1 DEF TypeOK, Inductive, PoolConsistent
      <3>2. Looked(i)' => Looked(i)
        BY <1>1, <1>2, <1>3, <2>1, ServerAssumption DEF Slots, Looked
      <3>3. /\ phase'[slot[i]] = phase[slot[i]] /\ stamp'[slot[i]] = stamp[slot[i]]
            /\ silent'[slot[i]] = silent[slot[i]]
        BY <1>6, <3>1
      <3>4. Patience(slot[i])' = Patience(slot[i]) /\ ~NearWrap(slot[i])
        BY <1>1, <3>3 DEF Patience, NearWrap
      <3> QED
        BY <3>2, <3>3, <3>4 DEF Inductive, Counted
    <2>2. CASE i = at
      <3>1. /\ clock \in Nat /\ spent \in Nat /\ PassLength \in Nat
            /\ Patience(slot[i])' \in Nat
        BY <1>2, ServerAssumption DEF TypeOK, Patience
      <3>2. SUFFICES clock = stamp'[c] + silent'[c] /\ silent'[c] <= Patience(slot[i])'
                     /\ silent'[c] \in Nat
        BY <2>2, <3>1
      <3>3. CASE Transmit(c)
        BY <1>1, <1>2, <2>2, <3>1, <3>3 DEF Transmit, TypeOK
      <3>4. CASE Idle(c)
        <4>1. /\ phase[c] = "open" /\ ~TimeoutExceeded(c)
              /\ UNCHANGED <<phase, stamp, silent>>
          BY <3>4 DEF Idle, connection
        <4>2. /\ Patience(slot[i])' = Patience(c) /\ ~NearWrap(c) /\ ~Exceeded(c)
              /\ phase[c] \in Live
          BY <1>1, <2>2, <4>1 DEF Patience, NearWrap, Exceeded, Live
        <4> QED
          BY <1>1, <1>2, <4>1, <4>2, ExceededIs
      <3>5. CASE Close(c)
        <4>1. PICK p \in AfterClose(c) : phase' = [phase EXCEPT ![c] = p]
          BY <3>5 DEF Close
        <4>2. p = "closing" /\ phase'[c] = "closing"
          BY <1>2, <2>2, <4>1 DEF TypeOK, AfterClose, Live
        <4>3. stamp'[c] = StampAfterClose(c)
              /\ silent'[c] = IF phase[c] = "open" THEN 0 ELSE silent[c]
          BY <1>2, <3>5 DEF Close, TypeOK
        <4>4. phase[c] = "closing" => ~NearWrap(c)
          BY <1>1, <2>2, <4>2, <4>3 DEF NearWrap, Patience, StampAfterClose, Live
        <4>5. IF phase[c] = "open" THEN StampAfterClose(c) = clock
              ELSE /\ phase[c] = "closing" /\ StampAfterClose(c) = stamp[c]
                   /\ clock = stamp[c] + silent[c] /\ silent[c] <= Shutdown
          BY <1>1, <1>2, <4>1, <4>2, <4>4, ClosingInTime
        <4>6. Patience(slot[i])' = Shutdown /\ silent'[c] \in Nat
          BY <1>1, <1>2, <1>6, <2>2, <4>2 DEF Patience
        <4> QED
          BY <3>1, <4>3, <4>5, <4>6
      <3> QED
        BY <1>1, <3>3, <3>4, <3>5
    <2> QED
      BY <2>1, <2>2
  <1> QED
    BY <1>7, <1>8, <1>10, <1>11, <1>12 DEF Inductive

LEMMA QuietStep ==
    ASSUME Inductive, AcceptNothing \/ HandshakeSucceeds
    PROVE  Inductive'
  <1>1. /\ pc \in {"accept", "handshake"} /\ pc' = "rest"
        /\ UNCHANGED <<secure, running, listening, context, slot, phase, stamp,
                       talks, silent, backlog, at, free, clock, spent>>
    BY DEF AcceptNothing, HandshakeSucceeds, server, connection, time
  <1>2. TypeOK'
    BY <1>1 DEF Inductive, TypeOK
  <1>3. FreeIsFree' /\ Listens' /\ ReleasedWhenStopped' /\ StartsEmpty'
    BY <1>1 DEF Inductive, FreeIsFree, Listens, ReleasedWhenStopped,
       StartsEmpty
  <1>4. PoolConsistent' /\ BacklogWaits'
    BY <1>1, <1>3, SameConnections DEF PoolConsistent, FreeIsFree, Connected
  <1>5. Counted'
    <2>1. \A i \in Slots : Looked(i)
      BY <1>1 DEF Looked
    <2> QED
      BY <1>1, <2>1, CountedKept
  <1> QED
    BY <1>2, <1>3, <1>4, <1>5 DEF Inductive

\* The head of the backlog takes the free slot.
LEMMA AcceptStep ==
    ASSUME Inductive, Accept
    PROVE  Inductive'
  <1> DEFINE c == Head(backlog)
  <1>1. /\ pc = "accept" /\ free # None /\ backlog # <<>>
        /\ slot' = [slot EXCEPT ![free] = c]
        /\ backlog' = Tail(backlog)
        /\ phase' = [phase EXCEPT ![c] = "open"]
        /\ stamp' = [stamp EXCEPT ![c] = clock]
        /\ talks' = [talks EXCEPT ![c] = TRUE]
        /\ silent' = [silent EXCEPT ![c] = 0]
        /\ pc' = IF secure THEN "handshake" ELSE "rest"
        /\ UNCHANGED <<secure, running, listening, context, at, free, clock, spent>>
    BY DEF Accept, Open, server, time
  <1>2. TypeOK /\ free \in Slots /\ slot[free] = None /\ clock \in 0 .. Wrap - 1
    BY <1>1 DEF Inductive, TypeOK, FreeIsFree
  <1>3. c \in Clients
    BY <1>1, <1>2, TailOf DEF TypeOK
  <1>4. \A d \in Clients : d # c => phase'[d] = phase[d] /\ stamp'[d] = stamp[d]
                                    /\ silent'[d] = silent[d]
    BY <1>1, <1>2, <1>3 DEF TypeOK
  <1>5. /\ backlog' \in Seq(Clients) /\ Len(backlog') <= MaxConnections
        /\ phase[c] = "waiting" /\ BacklogWaits'
    BY <1>1, <1>4, HeadTaken
  <1>6. 0 \in 0 .. Wrap
    BY ServerAssumption
  <1>7. talks' \in [Clients -> BOOLEAN]
    BY <1>1, <1>2, <1>3 DEF TypeOK
  <1>8. pc' \in {"handshake", "rest"}
    BY <1>1
  <1>9. TypeOK'
    BY <1>1, <1>2, <1>3, <1>5, <1>6, <1>7, <1>8 DEF TypeOK
  <1>10. c # None /\ slot'[free] = c /\ phase'[c] = "open" /\ silent'[c] = 0
         /\ stamp'[c] = clock
    BY <1>1, <1>2, <1>3, ServerAssumption DEF TypeOK
  <1>11. \A i \in Slots : i # free => slot'[i] = slot[i] /\ slot[i] # c
    <2>1. c \notin InPool
      BY <1>3, <1>5 DEF Inductive, PoolConsistent
    <2> QED
      BY <1>1, <1>2, <1>10, <2>1, PoolIs DEF TypeOK
  <1>12. running' /\ listening'
    BY <1>1 DEF Inductive, Listens
  <1>13. FreeIsFree' /\ Listens' /\ ReleasedWhenStopped' /\ StartsEmpty'
    BY <1>1, <1>8, <1>10, <1>12 DEF Inductive, FreeIsFree, Listens, ReleasedWhenStopped,
       StartsEmpty
  <1>14. \A i, j \in Slots : slot'[i] = slot'[j] /\ slot'[i] # None => i = j
    BY <1>10, <1>11 DEF Inductive, PoolConsistent
  <1>15. \A d \in Clients : phase'[d] \in Connected <=> d \in InPool'
    <2>1. \A d : d \in InPool' <=> d # None /\ \E i \in Slots : slot'[i] = d
      BY DEF InPool
    <2>2. c \in InPool' /\ phase'[c] \in Connected
      BY <1>2, <1>10, <2>1 DEF Connected
    <2>3. \A d \in Clients : d # c => (d \in InPool' <=> d \in InPool)
      BY <1>2, <1>10, <1>11, <2>1, PoolIs
    <2> QED
      BY <1>4, <2>2, <2>3 DEF Inductive, PoolConsistent, Connected
  <1>16. PoolConsistent'
    BY <1>13, <1>14, <1>15 DEF PoolConsistent, FreeIsFree, Connected
  <1>17. Counted'
    <2> SUFFICES ASSUME NEW i \in Slots, slot'[i] # None,
                        phase'[slot'[i]] \in Live, ~NearWrap(slot[i])'
                 PROVE  /\ clock = stamp'[slot'[i]] + silent'[slot'[i]]
                        /\ silent'[slot'[i]] <=
                               Patience(slot[i])' + PassLength + spent
                        /\ silent'[slot'[i]] <= Patience(slot[i])' + spent
      BY <1>1 DEF Counted
    <2>1. CASE i = free
      <3>1. /\ clock \in Nat /\ spent \in Nat /\ PassLength \in Nat
            /\ Patience(slot[i])' \in Nat
        BY <1>2, ServerAssumption DEF TypeOK, Patience
      <3> QED
        BY <1>10, <2>1, <3>1
    <2>2. CASE i # free
      <3>1. slot'[i] = slot[i] /\ slot[i] \in Clients /\ slot[i] # c
        BY <1>2, <1>11, <2>2 DEF TypeOK
      <3>2. /\ phase'[slot[i]] = phase[slot[i]] /\ stamp'[slot[i]] = stamp[slot[i]]
            /\ silent'[slot[i]] = silent[slot[i]]
        BY <1>4, <3>1
      <3>3. /\ Patience(slot[i])' = Patience(slot[i]) /\ ~NearWrap(slot[i])
            /\ Looked(i)
        BY <1>1, <3>1, <3>2 DEF Patience, NearWrap, Looked
      <3> QED
        BY <1>1, <3>1, <3>2, <3>3 DEF Inductive, Counted
    <2> QED
      BY <2>1, <2>2
  <1> QED
    BY <1>5, <1>9, <1>13, <1>16, <1>17 DEF Inductive

LEMMA AcceptFailsStep ==
    ASSUME Inductive, AcceptFails
    PROVE  Inductive'
  <1> DEFINE c == Head(backlog)
  <1>1. /\ pc = "accept" /\ free # None /\ backlog # <<>>
        /\ backlog' = Tail(backlog)
        /\ phase' = [phase EXCEPT ![c] = "away"]
        /\ pc' = "rest"
        /\ UNCHANGED <<secure, running, listening, context, slot, stamp, talks,
                       silent, at, free, clock, spent>>
    BY DEF AcceptFails, server, time
  <1>2. TypeOK
    BY DEF Inductive
  <1>3. c \in Clients
    BY <1>1, <1>2, TailOf DEF TypeOK
  <1>4. \A d \in Clients : d # c => phase'[d] = phase[d]
    BY <1>1, <1>2, <1>3 DEF TypeOK
  <1>5. /\ backlog' \in Seq(Clients) /\ Len(backlog') <= MaxConnections
        /\ phase[c] = "waiting" /\ BacklogWaits'
    BY <1>1, <1>4, HeadTaken
  <1>6. TypeOK'
    BY <1>1, <1>2, <1>3, <1>5 DEF TypeOK
  <1>7. running' /\ listening'
    BY <1>1 DEF Inductive, Listens
  <1>8. FreeIsFree' /\ Listens' /\ ReleasedWhenStopped' /\ StartsEmpty'
    BY <1>1, <1>7 DEF Inductive, FreeIsFree, Listens, ReleasedWhenStopped,
       StartsEmpty
  <1>9. InPool' = InPool /\ phase'[c] = "away"
    BY <1>1, <1>2, <1>3 DEF InPool, TypeOK
  <1>10. PoolConsistent'
    <2>1. \A d \in Clients : phase'[d] \in Connected <=> d \in InPool'
      BY <1>4, <1>5, <1>9 DEF Inductive, PoolConsistent, Connected
    <2> QED
      BY <1>1, <1>8, <2>1 DEF Inductive, PoolConsistent, FreeIsFree, Connected
  <1>11. Counted'
    <2>1. c \notin InPool
      BY <1>3, <1>5 DEF Inductive, PoolConsistent
    <2>2. \A i \in Slots : /\ slot[i] # None => phase'[slot[i]] = phase[slot[i]]
                          /\ Looked(i)
      BY <1>1, <1>2, <1>4, <2>1, PoolIs DEF TypeOK, Looked
    <2> QED
      BY <1>1, <2>2, CountedKept
  <1> QED
    BY <1>5, <1>6, <1>8, <1>10, <1>11 DEF Inductive

LEMMA HandshakeFailsStep ==
    ASSUME Inductive, HandshakeFails
    PROVE  Inductive'
  <1> DEFINE c == slot[free]
  <1>1. /\ pc = "handshake" /\ pc' = "rest"
        /\ \/ slot' = [slot EXCEPT ![free] = None] /\ Delete(c)
           \/ talks' = [talks EXCEPT ![c] = FALSE] /\ UNCHANGED <<slot, phase, stamp, silent>>
        /\ UNCHANGED <<secure, running, listening, context, backlog, at, free, clock, spent>>
    BY DEF HandshakeFails, server, time
  <1>2. TypeOK /\ free \in Slots /\ c # None /\ c \in Clients
    BY <1>1 DEF Inductive, TypeOK, FreeIsFree
  <1>3. FreeIsFree' /\ Listens' /\ ReleasedWhenStopped' /\ StartsEmpty'
    BY <1>1 DEF Inductive, FreeIsFree, Listens, ReleasedWhenStopped,
       StartsEmpty
  <1>4. CASE slot' = [slot EXCEPT ![free] = None] /\ Delete(c)
    <2>1. /\ phase' = [phase EXCEPT ![c] = "away"]
          /\ stamp' = [stamp EXCEPT ![c] = 0]
          /\ talks' = [talks EXCEPT ![c] = FALSE]
          /\ silent' = [silent EXCEPT ![c] = 0]
      BY <1>4 DEF Delete
    <2>2. 0 \in 0 .. Wrap - 1 /\ 0 \in 0 .. Wrap
      BY ServerAssumption
    <2>3. talks' \in [Clients -> BOOLEAN]
      BY <1>2, <2>1 DEF TypeOK
    <2>4. TypeOK'
      BY <1>1, <1>2, <1>4, <2>1, <2>2, <2>3 DEF TypeOK
    <2>5. \A i \in Slots : i # free => slot'[i] = slot[i] /\ slot[i] # c
      BY <1>2, <1>4 DEF Inductive, PoolConsistent, TypeOK
    <2>6. slot'[free] = None /\ phase'[c] = "away"
      BY <1>2, <1>4, <2>1 DEF TypeOK
    <2>7. \A d \in Clients : d # c => phase'[d] = phase[d] /\ stamp'[d] = stamp[d]
                                      /\ silent'[d] = silent[d]
      BY <1>2, <2>1 DEF TypeOK
    <2>8. \A d \in Clients : phase'[d] \in Connected <=> d \in InPool'
      <3>1. \A d : d \in InPool' <=> d # None /\ \E i \in Slots : slot'[i] = d
        BY DEF InPool
      <3>2. c \notin InPool' /\ phase'[c] \notin Connected
        BY <2>5, <2>6, <3>1 DEF Connected
      <3>3. \A d \in Clients : d # c => (d \in InPool' <=> d \in InPool)
        BY <2>5, <2>6, <3>1, PoolIs
      <3> QED
        BY <2>7, <3>2, <3>3 DEF Inductive, PoolConsistent, Connected
    <2>9. \A i, j \in Slots : slot'[i] = slot'[j] /\ slot'[i] # None => i = j
      BY <2>5, <2>6 DEF Inductive, PoolConsistent
    <2>10. PoolConsistent'
      BY <1>3, <2>8, <2>9, <1>1 DEF PoolConsistent, Connected
    <2>11. BacklogWaits'
      <3>1. phase[c] \in Connected
        BY <1>2, PoolIs DEF Inductive, PoolConsistent, Connected
      <3>2. \A i \in DOMAIN backlog : backlog[i] \in Clients /\ backlog[i] # c
        BY <1>2, <3>1 DEF Inductive, BacklogWaits, TypeOK, Connected
      <3> QED
        BY <1>1, <2>7, <3>2 DEF Inductive, BacklogWaits
    <2>12. Counted'
      <3>1. \A i \in Slots : slot'[i] # None =>
                /\ slot'[i] = slot[i] /\ Looked(i)
                /\ phase'[slot[i]] = phase[slot[i]] /\ stamp'[slot[i]] = stamp[slot[i]]
                /\ silent'[slot[i]] = silent[slot[i]]
        BY <1>1, <1>2, <2>5, <2>6, <2>7 DEF TypeOK, Looked
      <3> QED
        BY <1>1, <3>1, CountedKept
    <2> QED
      BY <1>3, <2>4, <2>10, <2>11, <2>12 DEF Inductive
  <1>5. CASE talks' = [talks EXCEPT ![c] = FALSE] /\ UNCHANGED <<slot, phase, stamp, silent>>
    <2>1. talks' \in [Clients -> BOOLEAN]
      BY <1>2, <1>5 DEF TypeOK
    <2>2. TypeOK'
      BY <1>1, <1>2, <1>5, <2>1 DEF TypeOK
    <2>3. PoolConsistent' /\ BacklogWaits'
      BY <1>1, <1>3, <1>5, SameConnections DEF PoolConsistent, FreeIsFree, Connected
    <2>4. Counted'
      <3>1. \A i \in Slots : Looked(i)
        BY <1>1 DEF Looked
      <3> QED
        BY <1>1, <1>5, <3>1, CountedKept
    <2> QED
      BY <1>3, <2>2, <2>3, <2>4 DEF Inductive
  <1> QED
    BY <1>1, <1>4, <1>5

\* A start finds an empty pool and nobody waiting, and leaves it like that.
LEMMA StartStep ==
    ASSUME Inductive, Start \/ SetupSSLCTX \/ SetupCert \/ SetupSocket \/ SocketFails
    PROVE  Inductive'
  <1>1. /\ pc \in {"rest", "context", "certificate", "socket"} /\ ~running
        /\ pc' \in {"rest", "context", "certificate", "socket"}
        /\ UNCHANGED <<secure, slot, phase, stamp, talks, silent, backlog, at, free>>
    BY DEF Start, SetupSSLCTX, SetupCert, SetupSocket, SocketFails, connection,
           Inductive, StartsEmpty, server
  <1>2. TypeOK
    BY DEF Inductive
  <1>3. InPool = {} /\ ~listening /\ backlog = <<>>
    BY <1>1 DEF Inductive, ReleasedWhenStopped, StartsEmpty, Listens
  <1>4. /\ {running', listening', context'} \subseteq BOOLEAN
        /\ listening' = running'
        /\ running' => pc' = "rest"
        /\ pc' = "rest" /\ ~running' => ~context'
        /\ pc' = "context" => ~context'
    <2>1. ~running /\ ~listening /\ {running, listening, context} \subseteq BOOLEAN
          /\ (pc = "rest" => ~context)
      BY <1>1, <1>2, <1>3 DEF Inductive, ReleasedWhenStopped, TypeOK
    <2>2. CASE Start
      BY <2>1, <2>2 DEF Start, server
    <2>3. CASE SetupSSLCTX
      BY <2>1, <2>3 DEF SetupSSLCTX
    <2>4. CASE SetupCert
      BY <2>1, <2>4 DEF SetupCert
    <2>5. CASE SetupSocket
      BY <2>1, <2>5 DEF SetupSocket
    <2>6. CASE SocketFails
      BY <2>1, <2>6 DEF SocketFails
    <2> QED
      BY <2>2, <2>3, <2>4, <2>5, <2>6
  <1>5. clock' \in 0 .. Wrap - 1 /\ spent' \in 0 .. PassLength
    <2>1. 0 \in 0 .. PassLength
      BY ServerAssumption
    <2> QED
      BY <1>2, <2>1 DEF Start, SetupSSLCTX, SetupCert, SetupSocket, SocketFails,
         TypeOK, time
  <1>6. TypeOK'
    BY <1>1, <1>2, <1>4, <1>5 DEF TypeOK
  <1>7. InPool' = {}
    BY <1>1, <1>3 DEF InPool
  <1>8. /\ FreeIsFree' /\ Listens' /\ ReleasedWhenStopped' /\ StartsEmpty'
    BY <1>1, <1>3, <1>4, <1>7
       DEF FreeIsFree, Listens, ReleasedWhenStopped, StartsEmpty
  <1>9. PoolConsistent' /\ BacklogWaits'
    BY <1>1, <1>8, SameConnections DEF PoolConsistent, FreeIsFree, Connected
  <1>10. Counted'
    BY <1>1, <1>3, PoolIs DEF Counted
  <1> QED
    BY <1>6, <1>8, <1>9, <1>10 DEF Inductive

LEMMA StopStep ==
    ASSUME Inductive, Stop
    PROVE  Inductive'
  <1>1. /\ pc \in {"rest", "scan"} /\ running /\ ~running' /\ pc' = "stopping"
        /\ running' \in BOOLEAN
        /\ UNCHANGED <<secure, listening, context, slot, phase, stamp, talks,
                       silent, backlog, at, free, clock, spent>>
    BY DEF Stop, Stoppable, connection, time
  <1>2. TypeOK'
    BY <1>1 DEF Inductive, TypeOK
  <1>3. FreeIsFree' /\ Listens' /\ ReleasedWhenStopped' /\ StartsEmpty'
    BY <1>1 DEF Inductive, FreeIsFree, Listens, ReleasedWhenStopped,
       StartsEmpty
  <1>4. PoolConsistent' /\ BacklogWaits'
    BY <1>1, <1>3, SameConnections DEF PoolConsistent, FreeIsFree, Connected
  <1>5. Counted'
    <2>1. \A i \in Slots : ~Looked(i)'
      BY <1>1 DEF Looked
    <2> QED
      BY <1>1, <2>1, CountedKept
  <1> QED
    BY <1>2, <1>3, <1>4, <1>5 DEF Inductive

\* The pool after a pass of stop() is the set of those still closing.
LEMMA StopPassStep ==
    ASSUME Inductive, StopPass
    PROVE  Inductive'
  <1>1. PICK left \in SUBSET {c \in InPool : "closing" \in AfterClose(c)} :
           /\ slot' = [i \in Slots |-> IF slot[i] \in left THEN slot[i] ELSE None]
           /\ phase' = [c \in Clients |->
                           IF c \in left THEN "closing"
                           ELSE IF phase[c] = "waiting" /\ left # {} THEN "waiting"
                           ELSE "away"]
           /\ stamp' = [c \in Clients |->
                           IF c \in left THEN StampAfterClose(c) ELSE 0]
           /\ talks' = [c \in Clients |-> FALSE]
           /\ silent' = [c \in Clients |->
                           IF c \in left /\ phase[c] = "closing" THEN silent[c]
                           ELSE 0]
           /\ IF left = {}
                 THEN /\ listening' = FALSE
                      /\ context' = FALSE
                      /\ backlog' = <<>>
                      /\ pc' = "rest"
                 ELSE UNCHANGED <<listening, context, backlog, pc>>
    BY DEF StopPass
  <1>2. /\ pc = "stopping" /\ spent' = 0
        /\ UNCHANGED <<secure, running, at, free, clock>>
    BY DEF StopPass
  <1>3. TypeOK /\ left \subseteq InPool /\ None \notin left
    BY <1>1, PoolIs DEF Inductive
  <1>4. clock' \in 0 .. Wrap - 1 /\ spent' \in 0 .. PassLength
    BY <1>2, <1>3, ServerAssumption DEF TypeOK
  <1>5. 0 \in 0 .. Wrap - 1 /\ 0 \in 0 .. Wrap
    BY ServerAssumption
  <1>6. stamp' \in [Clients -> 0 .. Wrap - 1]
    <2>1. \A c \in Clients : StampAfterClose(c) \in 0 .. Wrap - 1
      BY <1>3 DEF StampAfterClose, TypeOK
    <2> QED
      BY <1>1, <1>5, <2>1
  <1>7. backlog' \in Seq(Clients) /\ Len(backlog') <= MaxConnections
    <2>1. CASE left = {}
      BY <1>1, <2>1, EmptyOf, ServerAssumption
    <2>2. CASE left # {}
      BY <1>1, <1>3, <2>2 DEF TypeOK
    <2> QED
      BY <2>1, <2>2
  <1>8. /\ slot' \in [Slots -> Clients \cup {None}]
        /\ phase' \in [Clients -> {"away", "waiting", "open", "closing", "closed"}]
    BY <1>1, <1>3 DEF TypeOK
  <1>9. talks' \in [Clients -> BOOLEAN]
    BY <1>1
  <1>10. /\ {secure', running', listening', context'} \subseteq BOOLEAN
         /\ pc' \in {"rest", "stopping"}
    BY <1>1, <1>2, <1>3 DEF TypeOK
  <1>11. silent' \in [Clients -> 0 .. Wrap]
    BY <1>1, <1>3, <1>5 DEF TypeOK
  <1>12. TypeOK'
    BY <1>2, <1>3, <1>4, <1>6, <1>7, <1>8, <1>9, <1>10, <1>11 DEF TypeOK
  <1>13. InPool' = left
    <2>1. \A d : d \in InPool' <=> d # None /\ \E i \in Slots : slot'[i] = d
      BY DEF InPool
    <2>2. ASSUME NEW d \in left PROVE d \in InPool'
      BY <1>1, <1>3, <2>1, PoolIs
    <2>3. ASSUME NEW d \in InPool' PROVE d \in left
      BY <1>1, <2>1
    <2> QED
      BY <2>2, <2>3
  <1>14. FreeIsFree' /\ Listens' /\ ReleasedWhenStopped' /\ StartsEmpty'
    <2>1. ~running /\ listening
      BY <1>2 DEF Inductive, Listens
    <2> QED
      BY <1>1, <1>2, <1>13, <2>1 DEF FreeIsFree, Listens, ReleasedWhenStopped,
       StartsEmpty
  <1>15. PoolConsistent'
    <2>1. \A i, j \in Slots : slot'[i] = slot'[j] /\ slot'[i] # None => i = j
      BY <1>1 DEF Inductive, PoolConsistent
    <2>2. \A d \in Clients : phase'[d] \in Connected <=> d \in InPool'
      BY <1>1, <1>13 DEF Connected
    <2> QED
      BY <1>10, <2>1, <2>2 DEF PoolConsistent, Connected
  <1>16. BacklogWaits'
    <2>1. CASE left = {}
      BY <1>1, <2>1, EmptyOf DEF BacklogWaits
    <2>2. CASE left # {}
      <3>1. \A i \in DOMAIN backlog : backlog[i] \in Clients /\ backlog[i] \notin left
        <4>1. \A i \in DOMAIN backlog : backlog[i] \in Clients
          BY <1>3 DEF TypeOK
        <4> QED
          BY <1>3, <4>1 DEF Inductive, BacklogWaits, PoolConsistent
      <3> QED
        BY <1>1, <2>2, <3>1 DEF Inductive, BacklogWaits
    <2> QED
      BY <2>1, <2>2
  <1>17. Counted'
    <2> SUFFICES ASSUME NEW i \in Slots, slot'[i] # None,
                        phase'[slot'[i]] \in Live, ~NearWrap(slot[i])'
                 PROVE  /\ clock = stamp'[slot'[i]] + silent'[slot'[i]]
                        /\ silent'[slot'[i]] <= Patience(slot[i])'
                        /\ silent'[slot'[i]] \in Nat
      <3>1. PassLength \in Nat /\ {Timeout, Shutdown} \subseteq Nat
        BY ServerAssumption
      <3> QED
        BY <1>2, <3>1 DEF Counted, Patience
    <2> DEFINE c == slot[i]
    <2>1. /\ c \in left /\ c # None /\ c \in Clients /\ slot'[i] = c
          /\ "closing" \in AfterClose(c)
          /\ phase'[c] = "closing" /\ stamp'[c] = StampAfterClose(c)
          /\ silent'[c] = IF phase[c] = "closing" THEN silent[c] ELSE 0
      <3>1. c \in left /\ slot'[i] = c /\ c # None /\ c \in Clients
        BY <1>1, <1>3 DEF TypeOK
      <3> QED
        BY <1>1, <3>1
    <2>2. Patience(c)' = Shutdown
      BY <2>1 DEF Patience
    <2>3. phase[c] = "closing" => ~NearWrap(c)
      BY <2>1, <2>2 DEF NearWrap, Patience, StampAfterClose, Live
    <2>4. IF phase[c] = "open" THEN StampAfterClose(c) = clock
          ELSE /\ phase[c] = "closing" /\ StampAfterClose(c) = stamp[c]
               /\ clock = stamp[c] + silent[c] /\ silent[c] <= Shutdown
      BY <2>1, <2>3, ClosingInTime
    <2>5. clock \in Nat /\ silent[c] \in Nat /\ Shutdown \in Nat
      BY <1>3, <2>1, ServerAssumption DEF TypeOK
    <2> QED
      BY <2>1, <2>2, <2>4, <2>5
  <1> QED
    BY <1>12, <1>14, <1>15, <1>16, <1>17 DEF Inductive

LEMMA ArriveStep ==
    ASSUME Inductive, NEW c \in Clients, Arrive(c)
    PROVE  Inductive' /\ Waiting' = Waiting \cup {c}
  <1>1. /\ listening /\ phase[c] = "away" /\ Len(backlog) < MaxConnections
        /\ backlog' = Append(backlog, c)
        /\ phase' = [phase EXCEPT ![c] = "waiting"]
        /\ UNCHANGED <<secure, running, listening, context, slot, stamp, talks,
                       silent, pc, at, free, clock, spent>>
    BY DEF Arrive, server, position, time
  <1>2. TypeOK /\ backlog \in Seq(Clients)
    BY DEF Inductive, TypeOK
  <1>3. /\ backlog' \in Seq(Clients) /\ Len(backlog) \in Nat
        /\ Len(backlog') = Len(backlog) + 1
        /\ DOMAIN backlog = 1 .. Len(backlog) /\ DOMAIN backlog' = 1 .. Len(backlog) + 1
        /\ \A i \in DOMAIN backlog : backlog'[i] = backlog[i]
        /\ backlog'[Len(backlog) + 1] = c
    BY <1>1, <1>2, AppendOf
  <1>4. TypeOK'
    BY <1>1, <1>2, <1>3, ServerAssumption DEF TypeOK
  <1>5. InPool' = InPool /\ c \notin InPool
    BY <1>1 DEF InPool, Inductive, PoolConsistent
  <1>6. phase'[c] = "waiting" /\ \A d \in Clients : d # c => phase'[d] = phase[d]
    BY <1>1, <1>2 DEF TypeOK
  <1>7. running \/ pc = "stopping"
    BY <1>1 DEF Inductive, Listens
  <1>8. FreeIsFree' /\ Listens' /\ ReleasedWhenStopped' /\ StartsEmpty'
    BY <1>1, <1>7 DEF Inductive, FreeIsFree, Listens, ReleasedWhenStopped,
       StartsEmpty
  <1>9. PoolConsistent'
    <2>1. \A d \in Clients : phase'[d] \in Connected <=> d \in InPool'
      BY <1>1, <1>5, <1>6 DEF Inductive, PoolConsistent, Connected
    <2> QED
      BY <1>1, <2>1 DEF Inductive, PoolConsistent, Connected
  <1>10. \A i \in DOMAIN backlog : backlog[i] \in Clients /\ backlog[i] # c
    BY <1>1, <1>2, <1>3 DEF Inductive, BacklogWaits
  <1>11. \A i \in DOMAIN backlog' : i \in DOMAIN backlog \/ i = Len(backlog) + 1
    BY <1>3
  <1>12. BacklogWaits'
    BY <1>3, <1>6, <1>10, <1>11 DEF Inductive, BacklogWaits
  <1>13. Counted'
    <2>1. \A i \in Slots : slot[i] # None => phase'[slot[i]] = phase[slot[i]]
      BY <1>2, <1>5, <1>6, PoolIs DEF TypeOK
    <2>2. \A i \in Slots : Looked(i)' => Looked(i)
      BY <1>1 DEF Looked
    <2> QED
      BY <1>1, <2>1, <2>2, CountedKept
  <1>14. Waiting' = Waiting \cup {c}
    <2>1. Len(backlog) + 1 \in DOMAIN backlog' /\ DOMAIN backlog \subseteq DOMAIN backlog'
      BY <1>3
    <2> QED
      BY <1>3, <1>11, <2>1 DEF Waiting
  <1> QED
    BY <1>4, <1>8, <1>9, <1>12, <1>13, <1>14 DEF Inductive

LEMMA FallsSilentStep ==
    ASSUME Inductive, NEW c \in Clients, FallsSilent(c)
    PROVE  Inductive'
  <1>1. /\ talks' \in [Clients -> BOOLEAN]
        /\ UNCHANGED <<secure, running, listening, context, slot, phase, stamp,
                       silent, backlog, pc, at, free, clock, spent>>
    BY DEF FallsSilent, server, position, time, Inductive, TypeOK
  <1>2. TypeOK'
    BY <1>1 DEF Inductive, TypeOK
  <1>3. FreeIsFree' /\ Listens' /\ ReleasedWhenStopped' /\ StartsEmpty'
    BY <1>1 DEF Inductive, FreeIsFree, Listens, ReleasedWhenStopped, StartsEmpty, InPool
  <1>4. PoolConsistent' /\ BacklogWaits'
    BY <1>1, <1>3, SameConnections DEF PoolConsistent, FreeIsFree, Connected
  <1>5. Counted'
    <2>1. \A i \in Slots : Looked(i)' => Looked(i)
      BY <1>1 DEF Looked
    <2> QED
      BY <1>1, <2>1, CountedKept
  <1> QED
    BY <1>2, <1>3, <1>4, <1>5 DEF Inductive

\* A tick counts for every connection, and for the pass.
LEMMA ElapseStep ==
    ASSUME Inductive, Elapse
    PROVE  Inductive'
  <1>1. /\ spent < PassLength /\ spent' = spent + 1
        /\ clock' = (clock + 1) % Wrap
        /\ silent' = [c \in Clients |->
                         IF phase[c] \in Live /\ silent[c] < Wrap
                            THEN silent[c] + 1 ELSE silent[c]]
        /\ UNCHANGED <<secure, running, listening, context, slot, phase, stamp,
                       talks, backlog, pc, at, free>>
    BY DEF Elapse, server, position, Live
  <1>2. TypeOK
    BY DEF Inductive
  <1>3. clock' \in 0 .. Wrap - 1 /\ (clock + 1 < Wrap => clock' = clock + 1)
    <2>1. clock + 1 \in Nat /\ Wrap \in Nat \ {0}
      BY <1>2, ServerAssumption DEF TypeOK
    <2> QED
      BY <1>1, <2>1, ModOf
  <1>4. spent' \in 0 .. PassLength /\ silent' \in [Clients -> 0 .. Wrap]
    BY <1>1, <1>2, ServerAssumption DEF TypeOK
  <1>5. TypeOK'
    BY <1>1, <1>2, <1>3, <1>4 DEF TypeOK
  <1>6. FreeIsFree' /\ Listens' /\ ReleasedWhenStopped' /\ StartsEmpty'
    BY <1>1 DEF Inductive, FreeIsFree, Listens, ReleasedWhenStopped, StartsEmpty, InPool
  <1>7. PoolConsistent' /\ BacklogWaits'
    BY <1>1, <1>6, SameConnections DEF PoolConsistent, FreeIsFree, Connected
  <1>8. Counted'
    <2> SUFFICES ASSUME NEW i \in Slots, slot[i] # None, phase[slot[i]] \in Live,
                        ~NearWrap(slot[i])
                 PROVE  /\ clock' = stamp[slot[i]] + silent'[slot[i]]
                        /\ silent'[slot[i]] <= Patience(slot[i]) + PassLength + spent'
                        /\ Looked(i) => silent'[slot[i]] <= Patience(slot[i]) + spent'
      BY <1>1 DEF Counted, NearWrap, Patience, Looked
    <2> DEFINE c == slot[i]
    <2>1. /\ Patience(c) \in Nat /\ silent[c] \in Nat
          /\ {stamp[c], clock, spent, PassLength, Wrap} \subseteq Nat
          /\ stamp[c] + Patience(c) + 2 * PassLength < Wrap
          /\ clock = stamp[c] + silent[c]
          /\ silent[c] <= Patience(c) + PassLength + spent
          /\ Looked(i) => silent[c] <= Patience(c) + spent
      BY ExceededIs
    <2>2. clock + 1 < Wrap /\ silent[c] < Wrap
      BY <1>1, <2>1
    <2>3. clock' = clock + 1 /\ silent'[c] = silent[c] + 1
      BY <1>1, <1>2, <1>3, <2>2 DEF TypeOK
    <2> QED
      BY <1>1, <2>1, <2>3
  <1> QED
    BY <1>5, <1>6, <1>7, <1>8 DEF Inductive

LEMMA StutterStep ==
    ASSUME Inductive, UNCHANGED vars
    PROVE  Inductive'
  <1>1. UNCHANGED <<secure, running, listening, context, slot, phase, stamp,
                    talks, silent, backlog, pc, at, free, clock, spent>>
    BY DEF vars, server, connection, position, time
  <1>2. InPool' = InPool
    BY <1>1 DEF InPool
  <1> QED
    BY <1>1, <1>2 DEF Inductive, TypeOK, PoolConsistent, ReleasedWhenStopped,
       BacklogWaits, FreeIsFree, Listens, StartsEmpty, Counted, Looked, NearWrap,
       Patience, Slots

LEMMA NextStep ==
    ASSUME Inductive, [Next]_vars
    PROVE  Inductive'
  BY BeginStep, ScanEmptyStep, ScanClosedStep, ScanLiveStep, QuietStep, AcceptStep,
     AcceptFailsStep, HandshakeFailsStep, StartStep, StopStep, StopPassStep,
     ArriveStep, FallsSilentStep, ElapseStep, StutterStep DEF Next, Loop

THEOREM InductiveInvariant == Spec => []Inductive
  <1>1. Init => Inductive
    BY InitHolds
  <1>2. Inductive /\ [Next]_vars => Inductive'
    BY NextStep
  <1> QED
    BY <1>1, <1>2, PTL DEF Spec

\* HttpServer always has the types it declares: no index leaves the pool, no
\* time reaches the wrap, and the backlog never outgrows the pool.
THEOREM TypeCorrect == Spec => []TypeOK
  <1>1. Inductive => TypeOK
    BY DEF Inductive
  <1> QED
    BY <1>1, InductiveInvariant, PTL

\* loop() and stop() of HTTPServer never lose a connection and never put a new
\* one over a live one, for any number of clients and slots.
THEOREM PoolIsConsistent == Spec => []PoolConsistent
  <1>1. Inductive => PoolConsistent
    BY DEF Inductive
  <1> QED
    BY <1>1, InductiveInvariant, PTL

\* After stop(), called between passes or in a handler, or a start() that failed
\* at any of its steps, no connection, socket or TLS context is left.
THEOREM StoppedServerHoldsNothing == Spec => []ReleasedWhenStopped
  <1>1. Inductive => ReleasedWhenStopped
    BY DEF Inductive
  <1> QED
    BY <1>1, InductiveInvariant, PTL

\* Both timeouts end a connection no tick too early and less than two passes too
\* late, for any lengths of timeouts, passes and wrap, unless millis() wraps
\* before the first look that must find it.
THEOREM TimeoutIsKept == Spec => []TimeoutKept
  <1>1. Inductive => TimeoutKept
    <2> SUFFICES ASSUME Inductive, NEW c \in Clients, phase[c] \in Live, ~NearWrap(c)
                 PROVE  /\ Exceeded(c) <=> silent[c] > Patience(c)
                        /\ silent[c] <= Patience(c) + 2 * PassLength
      BY DEF TimeoutKept
    <2>1. PICK i \in Slots : slot[i] = c /\ c # None
      BY PoolIs DEF Inductive, PoolConsistent, Live
    <2> QED
      BY <2>1, ExceededIs
  <1> QED
    BY <1>1, InductiveInvariant, PTL

-----------------------------------------------------------------------------
(* The pool *)

\* With a free slot, fewer connections than slots are in the pool.
LEMMA RoomInPool ==
    ASSUME Inductive, NEW f \in Slots, slot[f] = None
    PROVE  Cardinality(InPool) < MaxConnections
  <1> DEFINE Rest == Slots \ {f}
             Place == [c \in InPool |-> CHOOSE i \in Slots : slot[i] = c]
  <1>1. \A c \in InPool : Place[c] \in Rest /\ slot[Place[c]] = c
    BY PoolIs
  <1>2. Place \in Injection(InPool, Rest)
    BY <1>1 DEF Injection, IsInjective
  <1>3. IsFiniteSet(Slots) /\ Cardinality(Slots) = MaxConnections
    <2>1. MaxConnections \in Nat \ {0} /\ 0 \in Int /\ MaxConnections - 1 \in Int
      BY ServerAssumption
    <2> QED
      BY <2>1, FS_Interval DEF Slots
  <1>4. IsFiniteSet(Rest) /\ Cardinality(Rest) = MaxConnections - 1
    BY <1>3, FS_RemoveElement
  <1>5. IsFiniteSet(InPool) /\ Cardinality(InPool) <= Cardinality(Rest)
    BY <1>2, <1>4, FS_Injection
  <1>6. Cardinality(InPool) \in Nat
    BY <1>5, FS_CardinalityType
  <1> QED
    BY <1>4, <1>5, <1>6, ServerAssumption

\* A step that leaves the status, the waiting and the pool alone stutters.
LEMMA PoolStutters ==
    ASSUME UNCHANGED <<running, listening, backlog>>, InPool' = InPool
    PROVE  UNCHANGED Pool!vars
  <1>1. Waiting' = Waiting
    BY DEF Waiting
  <1> QED
    BY <1>1 DEF Pool!vars, Status

LEMMA PoolAccepts ==
    ASSUME Inductive, Accept
    PROVE  Pool!Next
  <1> DEFINE c == Head(backlog)
  <1>1. /\ pc = "accept" /\ free # None /\ backlog # <<>>
        /\ slot' = [slot EXCEPT ![free] = c]
        /\ backlog' = Tail(backlog)
        /\ phase' = [phase EXCEPT ![c] = "open"]
        /\ UNCHANGED <<running, listening>>
    BY DEF Accept, Open, server
  <1>2. TypeOK /\ free \in Slots /\ slot[free] = None
    BY <1>1 DEF Inductive, TypeOK, FreeIsFree
  <1>3. \A d \in Clients \ {c} : phase'[d] = phase[d]
    BY <1>1, <1>2 DEF TypeOK
  <1>4. /\ c \in Clients
        /\ Waiting' = Waiting \ {c} /\ c \in Waiting
    BY <1>1, <1>3, HeadTaken
  <1>5. InPool' = InPool \cup {c}
    <2>1. \A d : d \in InPool' <=> d # None /\ \E i \in Slots : slot'[i] = d
      BY DEF InPool
    <2>2. \A i \in Slots : slot'[i] = IF i = free THEN c ELSE slot[i]
      BY <1>1, <1>2 DEF TypeOK
    <2>3. c # None
      BY <1>4, ServerAssumption
    <2>4. \A d : d \in InPool' <=> d \in InPool \cup {c}
      BY <1>2, <2>1, <2>2, <2>3, PoolIs
    <2> QED
      BY <2>4
  <1>6. Status = "open" /\ Status' = Status
    BY <1>1 DEF Inductive, Listens, Status
  <1>7. Pool!Cardinality(InPool) < MaxConnections
    <2>1. Cardinality(InPool) < MaxConnections
      BY <1>2, RoomInPool
    <2>2. Pool!Cardinality(InPool) = Cardinality(InPool)
      BY DEF Pool!Cardinality, Cardinality
    <2> QED
      BY <2>1, <2>2
  <1> QED
    BY <1>4, <1>5, <1>6, <1>7 DEF Pool!Next, Pool!Admit

LEMMA PoolGivesUp ==
    ASSUME Inductive, AcceptFails
    PROVE  Pool!Next
  <1> DEFINE c == Head(backlog)
  <1>1. /\ backlog # <<>> /\ backlog' = Tail(backlog)
        /\ phase' = [phase EXCEPT ![c] = "away"]
        /\ UNCHANGED <<running, listening, slot>>
    BY DEF AcceptFails, server
  <1>2. \A d \in Clients \ {c} : phase'[d] = phase[d]
    BY <1>1 DEF Inductive, TypeOK
  <1>3. c \in Clients /\ Waiting' = Waiting \ {c} /\ c \in Waiting
    BY <1>1, <1>2, HeadTaken
  <1>4. InPool' = InPool /\ Status' = Status
    BY <1>1 DEF InPool, Status
  <1> QED
    BY <1>3, <1>4 DEF Pool!Next, Pool!GiveUp

\* A connection that is deleted leaves the pool.
LEMMA PoolDismisses ==
    ASSUME Inductive, NEW f \in Slots, slot' = [slot EXCEPT ![f] = None],
           UNCHANGED <<running, listening, backlog>>
    PROVE  Pool!Next
  <1>1. \A i \in Slots : slot'[i] = IF i = f THEN None ELSE slot[i]
    BY DEF Inductive, TypeOK
  <1>2. InPool' \subseteq InPool
    <2>1. \A d : d \in InPool' <=> d # None /\ \E i \in Slots : slot'[i] = d
      BY DEF InPool
    <2> QED
      BY <1>1, <2>1, PoolIs
  <1>3. Waiting' = Waiting /\ Status' = Status
    BY DEF Waiting, Status
  <1> QED
    BY <1>2, <1>3 DEF Pool!Next, Pool!Dismiss

LEMMA PoolStops ==
    ASSUME Inductive, StopPass
    PROVE  Pool!Next
  <1>1. PICK left \in SUBSET {c \in InPool : "closing" \in AfterClose(c)} :
           /\ slot' = [i \in Slots |-> IF slot[i] \in left THEN slot[i] ELSE None]
           /\ IF left = {}
                 THEN /\ listening' = FALSE
                      /\ context' = FALSE
                      /\ backlog' = <<>>
                      /\ pc' = "rest"
                 ELSE UNCHANGED <<listening, context, backlog, pc>>
    BY DEF StopPass
  <1>2. pc = "stopping" /\ UNCHANGED running /\ ~running /\ listening
    BY DEF StopPass, Inductive, Listens
  <1>3. left \subseteq InPool /\ None \notin left
    BY <1>1, PoolIs
  <1>4. InPool' \subseteq left
    <2>1. \A d : d \in InPool' <=> d # None /\ \E i \in Slots : slot'[i] = d
      BY DEF InPool
    <2> QED
      BY <1>1, <2>1
  <1>5. CASE left = {}
    <2>1. Status = "closing" /\ Status' = "closed"
      BY <1>1, <1>2, <1>5 DEF Status
    <2>2. Waiting' = {}
      <3>1. DOMAIN backlog' = {}
        BY <1>1, <1>5, EmptyOf
      <3> QED
        BY <3>1 DEF Waiting
    <2> QED
      BY <1>4, <1>5, <2>1, <2>2 DEF Pool!Next, Pool!Closed
  <1>6. CASE left # {}
    <2>1. Waiting' = Waiting /\ Status' = Status
      BY <1>1, <1>2, <1>6 DEF Waiting, Status
    <2> QED
      BY <1>3, <1>4, <2>1 DEF Pool!Next, Pool!Dismiss
  <1> QED
    BY <1>5, <1>6

LEMMA PoolArrives ==
    ASSUME Inductive, NEW c \in Clients, Arrive(c)
    PROVE  Pool!Next
  <1>1. listening /\ phase[c] = "away" /\ UNCHANGED <<running, listening, slot>>
    BY DEF Arrive, server
  <1>2. Waiting' = Waiting \cup {c}
    BY ArriveStep
  <1>3. c \notin Waiting /\ c \notin InPool
    BY <1>1 DEF Waiting, Inductive, BacklogWaits, PoolConsistent
  <1>4. InPool' = InPool /\ Status' = Status /\ Status # "closed"
    BY <1>1 DEF InPool, Status
  <1> QED
    BY <1>2, <1>3, <1>4 DEF Pool!Next, Pool!Arrive

LEMMA PoolSteps ==
    ASSUME Inductive, [Next]_vars
    PROVE  [Pool!Next]_(Pool!vars)
  <1>1. CASE Begin \/ ScanEmpty \/ ScanLive \/ AcceptNothing \/ HandshakeSucceeds
             \/ Elapse \/ (\E c \in Clients : FallsSilent(c)) \/ UNCHANGED vars
    <2>1. UNCHANGED <<running, listening, slot, backlog>>
      BY <1>1 DEF Begin, ScanEmpty, ScanLive, AcceptNothing, HandshakeSucceeds,
         Elapse, FallsSilent, vars, server
    <2> QED
      BY <2>1, PoolStutters DEF InPool
  <1>2. CASE ScanClosed
    <2>1. at \in Slots
      BY DEF Inductive, TypeOK
    <2> QED
      BY <1>2, <2>1, PoolDismisses DEF ScanClosed, server
  <1>3. CASE HandshakeFails
    <2>1. free \in Slots
      BY <1>3 DEF HandshakeFails, Inductive, FreeIsFree, TypeOK
    <2>2. UNCHANGED <<running, listening, backlog>>
      BY <1>3 DEF HandshakeFails, server
    <2>3. CASE slot' = [slot EXCEPT ![free] = None]
      BY <2>1, <2>2, <2>3, PoolDismisses
    <2>4. CASE UNCHANGED slot
      BY <2>2, <2>4, PoolStutters DEF InPool
    <2> QED
      BY <1>3, <2>3, <2>4 DEF HandshakeFails
  <1>4. CASE Start \/ SetupSSLCTX \/ SetupCert \/ SocketFails
    <2>1. UNCHANGED <<running, listening, slot, backlog>>
      BY <1>4 DEF Start, SetupSSLCTX, SetupCert, SocketFails, server
    <2> QED
      BY <2>1, PoolStutters DEF InPool
  <1>5. CASE SetupSocket
    <2>1. Status = "closed" /\ Status' = "open"
      BY <1>5 DEF SetupSocket, Inductive, StartsEmpty, Listens, Status
    <2>2. InPool' = InPool /\ Waiting' = Waiting
      BY <1>5 DEF SetupSocket, InPool, Waiting
    <2> QED
      BY <2>1, <2>2 DEF Pool!Next, Pool!Open
  <1>6. CASE Stop
    <2>1. Status = "open" /\ Status' = "closing"
      BY <1>6 DEF Stop, Stoppable, Inductive, Listens, Status
    <2>2. InPool' = InPool /\ Waiting' = Waiting
      BY <1>6 DEF Stop, InPool, Waiting
    <2> QED
      BY <2>1, <2>2 DEF Pool!Next, Pool!Close
  <1> QED
    BY <1>1, <1>2, <1>3, <1>4, <1>5, <1>6, PoolAccepts, PoolGivesUp, PoolStops,
       PoolArrives DEF Next, Loop

\* The server of HTTPServer.cpp is the pool its clients are promised: it admits
\* only who waits, never more than maxConnections, nobody once it stops, and
\* every step of it is a step of the pool or none.
THEOREM PoolIsProvided == Spec => PoolProvided
  <1>1. Init => Pool!Init
    <2> SUFFICES ASSUME Init PROVE Pool!Init
      OBVIOUS
    <2>1. Status = "closed" /\ InPool = {}
      BY DEF Init, Status, InPool
    <2>2. Waiting = {}
      <3>1. DOMAIN backlog = {}
        BY EmptyOf DEF Init
      <3> QED
        BY <3>1 DEF Waiting
    <2> QED
      BY <2>1, <2>2 DEF Pool!Init
  <1>2. Inductive /\ [Next]_vars => [Pool!Next]_(Pool!vars)
    BY PoolSteps
  <1> QED
    BY <1>1, <1>2, InductiveInvariant, PTL DEF Spec, PoolProvided, Pool!Spec
=============================================================================
