-------------------------- MODULE UsbHelper_proofs --------------------------
(***************************************************************************)
(* UsbHelper for any nonces, addresses and buffer sizes: its types, and    *)
(* that an acknowledged report is the one the board has acted on.  The     *)
(* inductive invariant orders the two buffers: the writes of the open      *)
(* transaction are the last ones, and from the moment the board knows the  *)
(* nonce no report of an earlier transaction is left in front of it.       *)
(***************************************************************************)
EXTENDS UsbHelper, TLAPS

USE DEF Torn, Hello, Net, Reply, Accepted

-----------------------------------------------------------------------------
(* Buffers *)

\* Taking the head of a buffer shifts the rest.
LEMMA TailOf ==
    ASSUME NEW S, NEW s \in Seq(S), s # <<>>
    PROVE  /\ Tail(s) \in Seq(S)
           /\ Head(s) \in S
           /\ Head(s) = s[1]
           /\ Len(s) \in Nat \ {0}
           /\ Len(Tail(s)) = Len(s) - 1
           /\ \A i \in 1 .. Len(Tail(s)) : Tail(s)[i] = s[i + 1]
  OBVIOUS

\* Appending to a buffer leaves what it holds.
LEMMA AppendOf ==
    ASSUME NEW S, NEW s \in Seq(S), NEW e \in S
    PROVE  /\ Append(s, e) \in Seq(S)
           /\ Len(Append(s, e)) = Len(s) + 1
           /\ Len(s) \in Nat
           /\ \A i \in 1 .. Len(s) : Append(s, e)[i] = s[i]
           /\ Append(s, e)[Len(s) + 1] = e
  OBVIOUS

\* An emptied buffer is a buffer.
LEMMA EmptyOf ==
    ASSUME NEW S
    PROVE  <<>> \in Seq(S) /\ Len(<<>>) = 0
  OBVIOUS

\* A line is written whole, torn or not at all.
LEMMA WriteOf ==
    ASSUME NEW line \in Lines, toEsp \in Seq(Lines), Write(line)
    PROVE  /\ toEsp' \in Seq(Lines)
           /\ \/ toEsp' = toEsp
              \/ toEsp' = Append(toEsp, line)
              \/ toEsp' = Append(toEsp, Torn)
  <1>1. Torn \in Lines
    BY DEF Lines
  <1>2. Append(toEsp, line) \in Seq(Lines) /\ Append(toEsp, Torn) \in Seq(Lines)
    BY <1>1, AppendOf
  <1> QED
    BY <1>2 DEF Write

\* A reply is printed or lost; nothing else enters the buffer.
LEMMA AnswerOf ==
    ASSUME NEW reply \in Replies, toPc \in Seq(Replies), Answer(reply)
    PROVE  /\ toPc' \in Seq(Replies)
           /\ \A i \in 1 .. Len(toPc') :
                  toPc'[i] = reply \/ \E j \in 1 .. Len(toPc) : toPc'[i] = toPc[j]
           /\ NoncesIn(toPc') \subseteq NoncesIn(toPc) \cup {reply.n}
  <1>1. CASE toPc' = toPc
    BY <1>1 DEF NoncesIn
  <1>2. CASE toPc' = Append(toPc, reply)
    <2>1. /\ toPc' \in Seq(Replies)
          /\ Len(toPc') = Len(toPc) + 1
          /\ Len(toPc) \in Nat
          /\ \A i \in 1 .. Len(toPc) : toPc'[i] = toPc[i]
          /\ toPc'[Len(toPc) + 1] = reply
      BY <1>2, AppendOf
    <2>2. \A i \in 1 .. Len(toPc') :
              toPc'[i] = reply \/ \E j \in 1 .. Len(toPc) : toPc'[i] = toPc[j]
      BY <2>1
    <2> QED
      BY <2>1, <2>2 DEF NoncesIn
  <1> QED
    BY <1>1, <1>2 DEF Answer

-----------------------------------------------------------------------------
(* Pieces of the induction *)

\* The board polls a line, or the buffer towards it is emptied, without getting
\* to know the nonce of the open transaction.
LEMMA Polled ==
    ASSUME Inductive,
           \/ toEsp' = toEsp
           \/ toEsp' = <<>>
           \/ toEsp # <<>> /\ toEsp' = Tail(toEsp),
           UNCHANGED <<phase, nonce, network>>,
           Known' => Known
    PROVE  Ordered' /\ OnlyMine' /\ NetIsMine'
  <1>1. toEsp \in Seq(Lines) /\ Ordered /\ OnlyMine /\ NetIsMine
    BY DEF Inductive, TypeOK
  <1>2. CASE toEsp' = toEsp
    BY <1>1, <1>2 DEF Ordered, OnlyMine, NetIsMine, Mine
  <1>3. CASE toEsp' = <<>>
    BY <1>3 DEF Ordered, OnlyMine, NetIsMine
  <1>4. CASE toEsp # <<>> /\ toEsp' = Tail(toEsp)
    <2>1. /\ Len(toEsp) \in Nat \ {0}
          /\ Len(toEsp') = Len(toEsp) - 1
          /\ \A i \in 1 .. Len(toEsp') : toEsp'[i] = toEsp[i + 1]
      BY <1>1, <1>4, TailOf
    <2>2. Ordered'
      BY <1>1, <2>1 DEF Ordered, Mine
    <2>3. OnlyMine'
      BY <1>1, <2>1 DEF OnlyMine, Mine
    <2>4. NetIsMine'
      BY <1>1, <2>1 DEF NetIsMine, Mine
    <2> QED
      BY <2>2, <2>3, <2>4
  <1> QED
    BY <1>2, <1>3, <1>4

\* A closed port has no transaction to be wrong about.
LEMMA Closed ==
    ASSUME Close
    PROVE  Ordered' /\ OnlyMine' /\ NetIsMine' /\ AckIsMine' /\ IdleIsNone'
  BY DEF Close, Ordered, OnlyMine, NetIsMine, AckIsMine, IdleIsNone

\* No acknowledgement of the open transaction but the ones that waited already.
LEMMA NoNewAck ==
    ASSUME Inductive,
           UNCHANGED <<phase, nonce, network, heard>>,
           \A i \in 1 .. Len(toPc') :
               \/ toPc'[i] # Reply("ACK", nonce)
               \/ \E j \in 1 .. Len(toPc) : toPc'[i] = toPc[j]
    PROVE  AckIsMine' /\ IdleIsNone'
  BY DEF Inductive, AckIsMine, IdleIsNone

-----------------------------------------------------------------------------
(* The helper *)

\* Empty buffers are ordered.
LEMMA InitHolds == Init => Inductive
  <1> SUFFICES ASSUME Init PROVE Inductive
    OBVIOUS
  <1>1. TypeOK
    <2>1. heard \in Reports
      BY DEF Init, Reports
    <2>2. toEsp \in Seq(Lines) /\ toPc \in Seq(Replies)
      BY EmptyOf DEF Init
    <2> QED
      BY <2>1, <2>2 DEF Init, TypeOK
  <1>2. Ordered /\ OnlyMine /\ NetIsMine /\ AckIsMine /\ IdleIsNone
    BY DEF Init, Ordered, OnlyMine, NetIsMine, AckIsMine, IdleIsNone
  <1> QED
    BY <1>1, <1>2 DEF Inductive

\* A new transaction opens behind everything in the buffers, with a nonce they do not hold.
LEMMA SayHelloStep ==
    ASSUME Inductive, NEW n \in Nonces, SayHello(n)
    PROVE  Inductive'
  <1>1. TypeOK
    BY DEF Inductive
  <1>2. Hello(n) \in Lines
    BY DEF Lines
  <1>3. /\ toEsp' \in Seq(Lines)
        /\ \/ toEsp' = toEsp
           \/ toEsp' = Append(toEsp, Hello(n))
           \/ toEsp' = Append(toEsp, Torn)
    BY <1>1, <1>2, WriteOf DEF SayHello, TypeOK
  <1>4. /\ phase' = "hello" /\ nonce' = n /\ network' = pcAddr
        /\ toPc' \in {toPc, <<>>}
        /\ UNCHANGED <<last, due, dirty, serialNonce, auto, pc, inferred, heard,
                       pcAddr, plugged, calm>>
        /\ n \notin NoncesIn(toEsp) /\ n \notin NoncesIn(toPc')
        /\ n # serialNonce
    BY DEF SayHello, boardVars, envVars
  <1>5. TypeOK'
    <2>1. toPc' \in Seq(Replies)
      BY <1>1, <1>4, EmptyOf DEF TypeOK
    <2> QED
      BY <1>1, <1>3, <1>4, <2>1 DEF TypeOK
  <1>6. \A i \in 1 .. Len(toEsp) : toEsp[i].n # n
    BY <1>4 DEF NoncesIn
  <1>7. /\ Len(toEsp') \in Nat
        /\ \A i \in 1 .. Len(toEsp') : toEsp'[i].n = n =>
               i = Len(toEsp') /\ toEsp'[i].kind # "NET"
    <2>1. CASE toEsp' = toEsp
      BY <1>1, <1>6, <2>1 DEF TypeOK
    <2>2. ASSUME NEW e \in Lines, e.kind # "NET", toEsp' = Append(toEsp, e)
          PROVE  <1>7!:
      <3>1. /\ Len(toEsp') = Len(toEsp) + 1
            /\ Len(toEsp) \in Nat
            /\ \A i \in 1 .. Len(toEsp) : toEsp'[i] = toEsp[i]
            /\ toEsp'[Len(toEsp) + 1] = e
        BY <1>1, <2>2, AppendOf DEF TypeOK
      <3> QED
        BY <1>6, <2>2, <3>1
    <2>3. Torn \in Lines /\ Torn.kind # "NET" /\ Hello(n).kind # "NET"
      BY DEF Lines
    <2> QED
      BY <1>2, <1>3, <2>1, <2>2, <2>3
  <1>8. Ordered'
    BY <1>4, <1>7 DEF Ordered, Mine
  <1>9. OnlyMine'
    BY <1>4 DEF OnlyMine, Known
  <1>10. NetIsMine'
    BY <1>4, <1>7 DEF NetIsMine, Mine
  <1>11. AckIsMine'
    BY <1>4 DEF AckIsMine, NoncesIn
  <1>12. IdleIsNone'
    BY <1>1, <1>4, NoneAssumption DEF IdleIsNone, TypeOK
  <1> QED
    BY <1>5, <1>8, <1>9, <1>10, <1>11, <1>12 DEF Inductive

\* The helper reads: the buffer towards it is shifted.
LEMMA Read ==
    ASSUME Inductive, Reading
    PROVE  /\ toPc' \in Seq(Replies)
           /\ Head(toPc) \in Replies
           /\ Head(toPc).n \in NoncesIn(toPc)
           /\ NoncesIn(toPc') \subseteq NoncesIn(toPc)
           /\ \A i \in 1 .. Len(toPc') :
                  \E j \in 1 .. Len(toPc) : toPc'[i] = toPc[j]
           /\ \E j \in 1 .. Len(toPc) : Head(toPc) = toPc[j]
  <1>1. toPc \in Seq(Replies) /\ toPc # <<>> /\ toPc' = Tail(toPc)
    BY DEF Inductive, TypeOK, Reading
  <1>2. /\ toPc' \in Seq(Replies)
        /\ Head(toPc) \in Replies
        /\ Head(toPc) = toPc[1]
        /\ Len(toPc) \in Nat \ {0}
        /\ Len(toPc') = Len(toPc) - 1
        /\ \A i \in 1 .. Len(toPc') : toPc'[i] = toPc[i + 1]
    BY <1>1, TailOf
  <1>3. \A i \in 1 .. Len(toPc') : \E j \in 1 .. Len(toPc) : toPc'[i] = toPc[j]
    BY <1>2
  <1>4. 1 \in 1 .. Len(toPc)
    BY <1>2
  <1>5. NoncesIn(toPc') \subseteq NoncesIn(toPc)
    BY <1>3 DEF NoncesIn
  <1>6. Head(toPc).n \in NoncesIn(toPc)
    BY <1>2, <1>4 DEF NoncesIn
  <1> QED
    BY <1>2, <1>3, <1>4, <1>5, <1>6

\* The board has answered, so no older report is left in front of the one now sent.
LEMMA SendNetStep ==
    ASSUME Inductive, SendNet
    PROVE  Inductive'
  <1>1. TypeOK /\ Ordered /\ OnlyMine /\ NetIsMine /\ IdleIsNone
    BY DEF Inductive
  <1>2. /\ phase = "hello" /\ phase' = "report"
        /\ Head(toPc) = Reply("DEVICE", nonce)
        /\ UNCHANGED <<nonce, network, last, due, dirty, serialNonce, auto, pc,
                       inferred, heard, pcAddr, plugged, calm>>
    BY DEF SendNet, DeviceFound, boardVars, envVars
  <1>3. /\ toPc' \in Seq(Replies)
        /\ nonce \in NoncesIn(toPc) /\ nonce \in Nonces
        /\ \A i \in 1 .. Len(toPc') :
               \E j \in 1 .. Len(toPc) : toPc'[i] = toPc[j]
    BY <1>2, Read DEF SendNet, Replies
  <1>4. \A i \in 1 .. Len(toEsp) : toEsp[i].kind # "NET"
    BY <1>1, <1>2, <1>3 DEF OnlyMine, NetIsMine, Known
  <1>5. Net(nonce, network) \in Lines
    <2>1. network \in Addresses
      BY <1>1, <1>2 DEF IdleIsNone, TypeOK
    <2> QED
      BY <1>3, <2>1 DEF Lines
  <1>6. /\ toEsp' \in Seq(Lines)
        /\ \/ toEsp' = toEsp
           \/ toEsp' = Append(toEsp, Net(nonce, network))
           \/ toEsp' = Append(toEsp, Torn)
    BY <1>1, <1>5, WriteOf DEF SendNet, TypeOK
  <1>7. TypeOK'
    BY <1>1, <1>2, <1>3, <1>6 DEF TypeOK
  <1>8. \A i \in 1 .. Len(toEsp') : toEsp'[i].kind = "NET" =>
            toEsp'[i] = Net(nonce, network)
    <2>1. CASE toEsp' = toEsp
      BY <1>4, <2>1
    <2>2. ASSUME NEW e \in Lines, e = Net(nonce, network) \/ e.kind # "NET",
                 toEsp' = Append(toEsp, e)
          PROVE  <1>8!:
      <3>1. /\ Len(toEsp') = Len(toEsp) + 1
            /\ Len(toEsp) \in Nat
            /\ \A i \in 1 .. Len(toEsp) : toEsp'[i] = toEsp[i]
            /\ toEsp'[Len(toEsp) + 1] = e
        BY <1>1, <2>2, AppendOf DEF TypeOK
      <3> QED
        BY <1>4, <2>2, <3>1
    <2>3. Torn \in Lines /\ Torn.kind # "NET"
      BY DEF Lines
    <2> QED
      BY <1>5, <1>6, <2>1, <2>2, <2>3
  <1>9. Ordered' /\ OnlyMine' /\ NetIsMine'
    BY <1>2, <1>8 DEF Ordered, OnlyMine, NetIsMine, Mine
  <1>10. AckIsMine'
    BY <1>2, <1>3 DEF Inductive, AckIsMine
  <1>11. IdleIsNone'
    BY <1>1, <1>2 DEF IdleIsNone
  <1> QED
    BY <1>7, <1>9, <1>10, <1>11 DEF Inductive

\* An accepted acknowledgement ends the transaction.
LEMMA ReportDoneStep ==
    ASSUME Inductive, ReportDone
    PROVE  Inductive'
  <1>1. TypeOK'
    BY Read DEF ReportDone, AddressDone, Close, Inductive, TypeOK, boardVars,
                envVars
  <1> QED
    BY <1>1, Closed DEF ReportDone, Inductive

\* A refusal ends the transaction.
LEMMA ReportRejectedStep ==
    ASSUME Inductive, ReportRejected
    PROVE  Inductive'
  <1>1. TypeOK'
    BY Read DEF ReportRejected, Close, Inductive, TypeOK, boardVars, envVars
  <1> QED
    BY <1>1, Closed DEF ReportRejected, Inductive

\* Reading past a reply leaves the transaction as it was.
LEMMA SkipReplyStep ==
    ASSUME Inductive, SkipReply
    PROVE  Inductive'
  <1>1. Reading /\ UNCHANGED <<phase, nonce, network, last, due, toEsp, dirty,
                               serialNonce, auto, pc, inferred, heard, pcAddr,
                               plugged, calm>>
    BY DEF SkipReply, helperVars, boardVars, envVars
  <1>2. TypeOK'
    BY <1>1, Read DEF Inductive, TypeOK
  <1>3. Known' => Known
    BY <1>1, Read DEF Known
  <1>4. Ordered' /\ OnlyMine' /\ NetIsMine'
    BY <1>1, <1>3, Polled
  <1>5. AckIsMine' /\ IdleIsNone'
    BY <1>1, Read, NoNewAck
  <1> QED
    BY <1>2, <1>4, <1>5 DEF Inductive

\* A time-out ends the transaction, its lines stay behind.
LEMMA TimeOutStep ==
    ASSUME Inductive, TimeOut
    PROVE  Inductive'
  <1>1. TypeOK'
    BY DEF TimeOut, Close, Inductive, TypeOK, boardVars, envVars
  <1> QED
    BY <1>1, Closed DEF TimeOut, Inductive

-----------------------------------------------------------------------------
(* The board *)

\* The line the board polls, and what is left of the buffer.
LEMMA Poll ==
    ASSUME Inductive, Polling
    PROVE  /\ toEsp' \in Seq(Lines)
           /\ Head(toEsp) \in Lines
           /\ Head(toEsp) = toEsp[1]
           /\ Len(toEsp) \in Nat \ {0}
           /\ Len(toEsp') = Len(toEsp) - 1
           /\ \A i \in 1 .. Len(toEsp') : toEsp'[i] = toEsp[i + 1]
  BY TailOf DEF Inductive, TypeOK, Polling

\* A torn line, or a report outside its handshake, changes nothing but the line buffer.
LEMMA PollTornStep ==
    ASSUME Inductive, PollTorn \/ PollForeignNet
    PROVE  Inductive'
  <1>1. Polling /\ UNCHANGED <<phase, nonce, network, last, due, serialNonce,
                               auto, pc, inferred, heard, toPc, pcAddr, plugged,
                               calm>>
        /\ dirty' \in BOOLEAN
    BY DEF PollTorn, PollForeignNet, helperVars, boardVars, envVars, Inductive,
           TypeOK
  <1>2. TypeOK'
    BY <1>1, Poll DEF Inductive, TypeOK
  <1>3. Ordered' /\ OnlyMine' /\ NetIsMine'
    BY <1>1, Polled DEF Known, Polling
  <1>4. AckIsMine' /\ IdleIsNone'
    BY <1>1, NoNewAck
  <1> QED
    BY <1>2, <1>3, <1>4 DEF Inductive

\* Every poll that prints an answer other than an acknowledgement to a nonce
\* the board knows already.
LEMMA PollAnswered ==
    ASSUME Inductive, Polling,
           NEW k \in {"DEVICE", "INVALID"}, NEW n \in Nonces,
           toPc' = toPc \/ Answer(Reply(k, n)),
           UNCHANGED <<phase, nonce, network, last, due, auto, pc, inferred,
                       heard, pcAddr, plugged, calm>>,
           dirty' \in BOOLEAN,
           serialNonce' \in Nonces \cup {None},
           serialNonce' = nonce \/ n = nonce => Known
    PROVE  Inductive'
  <1>1. Reply(k, n) \in Replies
    BY DEF Replies
  <1>2. toPc \in Seq(Replies)
    BY DEF Inductive, TypeOK
  <1>3. /\ toPc' \in Seq(Replies)
        /\ \A i \in 1 .. Len(toPc') : toPc'[i] = Reply(k, n)
               \/ \E j \in 1 .. Len(toPc) : toPc'[i] = toPc[j]
        /\ NoncesIn(toPc') \subseteq NoncesIn(toPc) \cup {n}
    <2>1. CASE toPc' = toPc
      BY <1>2, <2>1 DEF NoncesIn
    <2>2. CASE Answer(Reply(k, n))
      BY <1>1, <1>2, <2>2, AnswerOf
    <2> QED
      BY <2>1, <2>2
  <1>4. TypeOK'
    BY <1>3, Poll DEF Inductive, TypeOK
  <1>5. Known' => Known
    BY <1>3 DEF Known
  <1>6. Ordered' /\ OnlyMine' /\ NetIsMine'
    BY <1>5, Polled DEF Polling
  <1>7. Reply(k, n) # Reply("ACK", nonce)
    BY Zenon
  <1>8. AckIsMine' /\ IdleIsNone'
    BY <1>3, <1>7, NoNewAck
  <1> QED
    BY <1>4, <1>6, <1>8 DEF Inductive

\* A line behind a torn one is lost, at most answered INVALID.
LEMMA PollDirtyStep ==
    ASSUME Inductive, PollDirty
    PROVE  Inductive'
  <1>1. /\ Polling
        /\ UNCHANGED <<phase, nonce, network, last, due, auto, pc, inferred,
                       heard, pcAddr, plugged, calm, serialNonce>>
        /\ dirty' \in BOOLEAN
        /\ \/ toPc' = toPc
           \/ serialNonce # None /\ Answer(Reply("INVALID", serialNonce))
    BY DEF PollDirty, helperVars, envVars
  <1>2. CASE serialNonce = None
    <2>1. toPc' = toPc
      BY <1>1, <1>2
    <2>2. TypeOK'
      BY <1>1, <2>1, Poll DEF Inductive, TypeOK
    <2>3. Ordered' /\ OnlyMine' /\ NetIsMine'
      BY <1>1, <2>1, Polled DEF Known, Polling
    <2>4. AckIsMine' /\ IdleIsNone'
      BY <1>1, <2>1, NoNewAck
    <2> QED
      BY <2>2, <2>3, <2>4 DEF Inductive
  <1>3. CASE serialNonce # None
    <2>1. serialNonce \in Nonces
      BY <1>3 DEF Inductive, TypeOK
    <2> QED
      BY <1>1, <2>1, PollAnswered DEF Known
  <1> QED
    BY <1>2, <1>3

\* A refused report is answered INVALID and not heard.
LEMMA PollRefusedNetStep ==
    ASSUME Inductive, PollRefusedNet
    PROVE  Inductive'
  <1>1. /\ Polling
        /\ UNCHANGED <<phase, nonce, network, last, due, auto, pc, inferred,
                       heard, pcAddr, plugged, calm, serialNonce, dirty>>
        /\ Head(toEsp).n = serialNonce
        /\ Head(toEsp).kind = "NET"
        /\ Answer(Reply("INVALID", serialNonce))
    BY DEF PollRefusedNet, helperVars, boardVars, envVars
  <1>2. serialNonce \in Nonces
    BY <1>1, Poll DEF Lines
  <1>3. dirty' \in BOOLEAN
    BY <1>1 DEF Inductive, TypeOK
  <1> QED
    BY <1>1, <1>2, <1>3, PollAnswered DEF Known

\* The board gets to know the nonce: every report behind this WAKE_HELLO is of
\* the open transaction, if the WAKE_HELLO is.
LEMMA PollHelloStep ==
    ASSUME Inductive, PollHello
    PROVE  Inductive'
  <1> DEFINE n == Head(toEsp).n
  <1>1. /\ Polling
        /\ UNCHANGED <<phase, nonce, network, last, due, auto, pc, inferred,
                       heard, pcAddr, plugged, calm, dirty>>
        /\ serialNonce' = n
        /\ Head(toEsp).kind = "HELLO"
        /\ Answer(Reply("DEVICE", n))
    BY DEF PollHello, helperVars, boardVars, envVars
  <1>2. n \in Nonces
    BY <1>1, Poll DEF Lines
  <1>3. dirty' \in BOOLEAN /\ serialNonce' \in Nonces \cup {None}
    BY <1>1, <1>2 DEF Inductive, TypeOK
  <1>4. CASE n # nonce
    <2> HIDE DEF n
    <2> QED
      BY <1>1, <1>2, <1>3, <1>4, PollAnswered
  <1>5. CASE n = nonce
    <2>1. /\ toPc \in Seq(Replies)
          /\ Reply("DEVICE", n) \in Replies
      BY <1>2 DEF Inductive, TypeOK, Replies
    <2>2. /\ toPc' \in Seq(Replies)
          /\ \A i \in 1 .. Len(toPc') : toPc'[i] = Reply("DEVICE", n)
                 \/ \E j \in 1 .. Len(toPc) : toPc'[i] = toPc[j]
      BY <1>1, <2>1, AnswerOf
    <2>3. TypeOK'
      BY <1>1, <1>3, <2>2, Poll DEF Inductive, TypeOK
    <2>4. Ordered' /\ NetIsMine'
      BY <1>1, Poll DEF Inductive, Ordered, NetIsMine, Mine
    <2>5. OnlyMine'
      BY <1>1, <1>5, Poll DEF Inductive, Ordered, OnlyMine, Mine
    <2>6. Reply("DEVICE", n) # Reply("ACK", nonce)
      BY Zenon
    <2>7. AckIsMine' /\ IdleIsNone'
      BY <1>1, <2>2, <2>6, NoNewAck
    <2> QED
      BY <2>3, <2>4, <2>5, <2>7 DEF Inductive
  <1> QED
    BY <1>4, <1>5

\* A report is heard: the open transaction's, or one that nobody has told the
\* helper about.
LEMMA PollNetStep ==
    ASSUME Inductive, PollNet
    PROVE  Inductive'
  <1> DEFINE n == Head(toEsp).n
             a == Head(toEsp).a
  <1>1. /\ Polling
        /\ UNCHANGED <<phase, nonce, network, last, due, auto, pcAddr, plugged,
                       calm, serialNonce, dirty>>
        /\ Head(toEsp).kind = "NET" /\ n = serialNonce /\ a \in Accepted
        /\ pc' = IF auto THEN a ELSE pc
        /\ inferred' = (inferred /\ ~auto)
        /\ heard' = [n |-> n, a |-> a]
        /\ Answer(Reply("ACK", n))
    BY DEF PollNet, Acceptable, helperVars, envVars
  <1>2. n \in Nonces /\ a \in Addresses
    BY <1>1, Poll DEF Lines
  <1>3. /\ toPc \in Seq(Replies)
        /\ Reply("ACK", n) \in Replies
    BY <1>2 DEF Inductive, TypeOK, Replies
  <1>4. /\ toPc' \in Seq(Replies)
        /\ \A i \in 1 .. Len(toPc') : toPc'[i] = Reply("ACK", n)
               \/ \E j \in 1 .. Len(toPc) : toPc'[i] = toPc[j]
        /\ NoncesIn(toPc') \subseteq NoncesIn(toPc) \cup {n}
    BY <1>1, <1>3, AnswerOf
  <1>5. heard' \in Reports
    BY <1>1, <1>2 DEF Reports
  <1>6. TypeOK'
    BY <1>1, <1>4, <1>5, Poll DEF Inductive, TypeOK
  <1>7. Known' => Known
    BY <1>1, <1>4 DEF Known
  <1>8. Ordered' /\ OnlyMine' /\ NetIsMine'
    BY <1>1, <1>7, Polled DEF Polling
  <1>9. IdleIsNone'
    BY <1>1 DEF Inductive, IdleIsNone
  <1>10. AckIsMine'
    <2> SUFFICES ASSUME phase # "idle",
                        NEW i \in 1 .. Len(toPc'),
                        toPc'[i] = Reply("ACK", nonce)
                 PROVE  heard' = [n |-> nonce, a |-> network]
      BY <1>1 DEF AckIsMine
    <2>1. CASE n = nonce
      <3>1. toEsp[1].kind = "NET" /\ Mine(toEsp[1]) /\ 1 \in 1 .. Len(toEsp)
        BY <1>1, <2>1, Poll DEF Mine
      <3>2. toEsp[1].a = network
        BY <3>1 DEF Inductive, NetIsMine
      <3> QED
        BY <1>1, <2>1, <3>2, Poll
    <2>2. CASE n # nonce
      <3>1. toEsp[1].kind = "NET" /\ ~Mine(toEsp[1]) /\ 1 \in 1 .. Len(toEsp)
        BY <1>1, <2>2, Poll DEF Mine
      <3>2. ~Known
        BY <3>1 DEF Inductive, OnlyMine
      <3>3. nonce \in NoncesIn(toPc')
        BY DEF NoncesIn
      <3> QED
        BY <1>4, <2>2, <3>2, <3>3 DEF Known
    <2> QED
      BY <2>1, <2>2
  <1> QED
    BY <1>6, <1>8, <1>9, <1>10 DEF Inductive

-----------------------------------------------------------------------------
(* The environment *)

\* Steps of the environment other than a restart of the helper: the open
\* transaction stays, buffers are kept or emptied.
LEMMA DisturbStep ==
    ASSUME Inductive,
           \/ \E a \in Addresses : PcMoves(a)
           \/ \E a \in Accepted : Rebase(a)
           \/ \E on \in BOOLEAN, a \in Accepted : SaveDiscovery(on, a)
           \/ Plug \/ BoardRestarts \/ Settle \/ HeartbeatDue
    PROVE  Inductive'
  <1>1. /\ UNCHANGED <<phase, nonce, network, last, heard>>
        /\ toEsp' = toEsp \/ toEsp' = <<>>
        /\ toPc' = toPc \/ toPc' = <<>>
        /\ serialNonce' = serialNonce \/ serialNonce' = None
    BY DEF PcMoves, Rebase, SaveDiscovery, Plug, BoardRestarts, Settle,
           HeartbeatDue, helperVars, boardVars, envVars
  <1>2. TypeOK
    BY DEF Inductive
  <1>3. /\ pcAddr' \in Addresses /\ pc' \in Accepted
        /\ plugged' \in BOOLEAN /\ calm' \in BOOLEAN /\ due' \in BOOLEAN
        /\ dirty' \in BOOLEAN /\ auto' \in BOOLEAN /\ inferred' \in BOOLEAN
    BY <1>2 DEF TypeOK, PcMoves, Rebase, SaveDiscovery, Plug, BoardRestarts,
                Settle, HeartbeatDue, helperVars, boardVars, envVars
  <1>4. toEsp' \in Seq(Lines) /\ toPc' \in Seq(Replies)
    BY <1>1, <1>2, EmptyOf DEF TypeOK
  <1>5. TypeOK'
    BY <1>1, <1>2, <1>3, <1>4 DEF TypeOK
  <1>6. CASE phase = "idle"
    <2>1. Ordered' /\ OnlyMine' /\ NetIsMine' /\ AckIsMine'
      BY <1>1, <1>6 DEF Ordered, OnlyMine, NetIsMine, AckIsMine
    <2>2. IdleIsNone'
      BY <1>1 DEF Inductive, IdleIsNone
    <2> QED
      BY <1>5, <2>1, <2>2 DEF Inductive
  <1>7. CASE phase # "idle"
    <2>1. nonce # None
      BY <1>7 DEF Inductive, IdleIsNone
    <2>2. NoncesIn(toPc') \subseteq NoncesIn(toPc)
      BY <1>1, EmptyOf DEF NoncesIn
    <2>3. Known' => Known
      BY <1>1, <2>1, <2>2 DEF Known
    <2>4. Ordered' /\ OnlyMine' /\ NetIsMine'
      BY <1>1, <2>3, Polled
    <2>5. AckIsMine' /\ IdleIsNone'
      BY <1>1, EmptyOf, NoNewAck
    <2> QED
      BY <1>5, <2>4, <2>5 DEF Inductive
  <1> QED
    BY <1>6, <1>7

\* A restarted helper has no transaction open.
LEMMA HelperRestartsStep ==
    ASSUME Inductive, HelperRestarts
    PROVE  Inductive'
  <1>1. TypeOK'
    BY DEF HelperRestarts, Close, Inductive, TypeOK, boardVars, envVars
  <1> QED
    BY <1>1, Closed DEF HelperRestarts, Inductive

\* Every step keeps the invariant.
LEMMA NextHolds == Inductive /\ [Next]_vars => Inductive'
  <1> SUFFICES ASSUME Inductive, [Next]_vars PROVE Inductive'
    OBVIOUS
  <1>1. CASE Helper
    BY <1>1, SayHelloStep, SendNetStep, ReportDoneStep, ReportRejectedStep,
       SkipReplyStep, TimeOutStep, DisturbStep DEF Helper
  <1>2. CASE Board
    BY <1>2, PollTornStep, PollDirtyStep, PollHelloStep, PollNetStep,
       PollRefusedNetStep DEF Board
  <1>3. CASE Environment
    BY <1>3, DisturbStep, HelperRestartsStep DEF Environment
  <1>4. CASE UNCHANGED vars
    BY <1>4 DEF vars, envVars, helperVars, boardVars, Inductive, TypeOK, Ordered,
                OnlyMine, NetIsMine, AckIsMine, IdleIsNone, Known, Mine
  <1> QED
    BY <1>1, <1>2, <1>3, <1>4 DEF Next

-----------------------------------------------------------------------------
(* Theorems *)

\* The two buffers stay ordered by transaction, whatever is lost or torn.
THEOREM InductiveHolds == Spec => []Inductive
  BY InitHolds, NextHolds, PTL DEF Spec

\* Every variable keeps its type; the board's address stays one its tests accept
\* (handleSerialLine takes none over that fails them).
THEOREM TypeCorrect == Spec => []TypeOK
  BY InductiveHolds, PTL DEF Inductive

\* What the helper takes for reported, the board has acted on last
\* (Send-WakeNetworkReport, lastAddresses).
THEOREM ReportsAreHeard == Spec => AckedIsHeard
  <1>1. ASSUME Inductive, ReportDone
        PROVE  heard = [n |-> nonce, a |-> last']
    <2>1. /\ phase # "idle"
          /\ Head(toPc) = Reply("ACK", nonce)
          /\ last' = network
      BY <1>1 DEF ReportDone, Acked, AddressDone, Reading
    <2>2. \E j \in 1 .. Len(toPc) : toPc[j] = Reply("ACK", nonce)
      BY <1>1, <2>1, Read DEF ReportDone
    <2> QED
      BY <1>1, <2>1, <2>2 DEF Inductive, AckIsMine
  <1>2. Inductive /\ [Next]_vars
            => [ReportDone => heard = [n |-> nonce, a |-> last']]_vars
    BY <1>1
  <1> QED
    BY InductiveHolds, <1>2, PTL DEF Spec, AckedIsHeard

-----------------------------------------------------------------------------
(* ReportLink *)

\* The buffer after a write that is not a report, after a poll and after a loss.
LEMMA NothingPosted ==
    ASSUME toEsp \in Seq(Lines), OneReport, NEW e \in Lines, e.kind # "NET",
           toEsp' = Append(toEsp, e)
    PROVE  OneReport' /\ Travelling' = Travelling
  <1>1. /\ Len(toEsp') = Len(toEsp) + 1
        /\ Len(toEsp) \in Nat
        /\ \A i \in 1 .. Len(toEsp) : toEsp'[i] = toEsp[i]
        /\ toEsp'[Len(toEsp) + 1] = e
    BY AppendOf
  <1>2. OneReport'
    BY <1>1 DEF OneReport
  <1>3. {j \in 1 .. Len(toEsp') : toEsp'[j].kind = "NET"}
            = {j \in 1 .. Len(toEsp) : toEsp[j].kind = "NET"}
    BY <1>1
  <1> QED
    BY <1>1, <1>2, <1>3 DEF Travelling

LEMMA AllLost ==
    ASSUME toEsp' = <<>>
    PROVE  OneReport' /\ Travelling' = {}
  <1>1. Len(toEsp') = 0
    BY EmptyOf
  <1> QED
    BY <1>1 DEF OneReport, Travelling

LEMMA PolledReport ==
    ASSUME Inductive, OneReport, Polling
    PROVE  /\ OneReport'
           /\ Head(toEsp).kind # "NET" => Travelling' = Travelling
           /\ Head(toEsp).kind = "NET" =>
                  ReportOf(Head(toEsp)) \in Travelling /\ Travelling' = {}
  <1>1. /\ Head(toEsp) = toEsp[1]
        /\ Len(toEsp) \in Nat \ {0}
        /\ Len(toEsp') = Len(toEsp) - 1
        /\ \A i \in 1 .. Len(toEsp') : toEsp'[i] = toEsp[i + 1]
    BY Poll
  <1>2. OneReport'
    BY <1>1 DEF OneReport
  <1>3. ASSUME Head(toEsp).kind # "NET"
        PROVE  Travelling' = Travelling
    <2>1. Travelling' \subseteq Travelling
      BY <1>1 DEF Travelling
    <2>2. ASSUME NEW i \in 1 .. Len(toEsp), toEsp[i].kind = "NET"
          PROVE  ReportOf(toEsp[i]) \in Travelling'
      <3>1. i # 1
        BY <1>1, <1>3, <2>2
      <3>2. i - 1 \in 1 .. Len(toEsp') /\ toEsp'[i - 1] = toEsp[i]
        BY <1>1, <3>1
      <3> QED
        BY <2>2, <3>2 DEF Travelling, ReportOf
    <2>3. Travelling \subseteq Travelling'
      BY <2>2 DEF Travelling
    <2> QED
      BY <2>1, <2>3
  <1>4. ASSUME Head(toEsp).kind = "NET"
        PROVE  ReportOf(Head(toEsp)) \in Travelling /\ Travelling' = {}
    <2>1. ReportOf(Head(toEsp)) \in Travelling
      BY <1>1, <1>4 DEF Travelling
    <2>2. \A i \in 1 .. Len(toEsp') : toEsp'[i].kind # "NET"
      BY <1>1, <1>4 DEF OneReport
    <2> QED
      BY <2>1, <2>2 DEF Travelling
  <1> QED
    BY <1>2, <1>3, <1>4

\* The board knows the nonce of the report that is sent, so none is in the buffer.
LEMMA LinkSends ==
    ASSUME Inductive, OneReport, SendNet
    PROVE  OneReport' /\ (Link!Send \/ UNCHANGED Link!vars)
  <1>1. TypeOK /\ OnlyMine /\ NetIsMine /\ IdleIsNone
    BY DEF Inductive
  <1>2. /\ phase = "hello" /\ phase' = "report"
        /\ Head(toPc) = Reply("DEVICE", nonce)
        /\ UNCHANGED <<nonce, network, last, auto, pc, heard, pcAddr>>
    BY DEF SendNet, DeviceFound, boardVars, envVars
  <1>3. nonce \in NoncesIn(toPc) /\ nonce \in Nonces
    BY <1>2, Read DEF SendNet, Replies
  <1>4. \A i \in 1 .. Len(toEsp) : toEsp[i].kind # "NET"
    BY <1>1, <1>2, <1>3 DEF OnlyMine, NetIsMine, Known
  <1>5. Travelling = {}
    BY <1>4 DEF Travelling
  <1> DEFINE line == Net(nonce, network)
  <1>6. line \in Lines /\ Torn \in Lines /\ Torn.kind # "NET"
    <2>1. network \in Addresses
      BY <1>1, <1>2 DEF IdleIsNone, TypeOK
    <2> QED
      BY <1>3, <2>1 DEF Lines
  <1>7. Offered' = Offered /\ Offered = {ReportOf(line)}
    BY <1>2 DEF Offered, ReportOf
  <1>8. CASE toEsp' = toEsp
    BY <1>2, <1>7, <1>8 DEF Link!vars, OneReport, Travelling
  <1>9. CASE toEsp' = Append(toEsp, Torn)
    <2>1. OneReport' /\ Travelling' = Travelling
      BY <1>1, <1>6, <1>9, NothingPosted DEF TypeOK
    <2> QED
      BY <1>2, <1>7, <2>1 DEF Link!vars
  <1>10. CASE toEsp' = Append(toEsp, line)
    <2> HIDE DEF line
    <2>1. /\ Len(toEsp') = Len(toEsp) + 1
          /\ Len(toEsp) \in Nat
          /\ \A i \in 1 .. Len(toEsp) : toEsp'[i] = toEsp[i]
          /\ toEsp'[Len(toEsp) + 1] = line
      BY <1>1, <1>6, <1>10, AppendOf DEF TypeOK
    <2>2. line.kind = "NET"
      BY DEF line
    <2>3. {j \in 1 .. Len(toEsp') : toEsp'[j].kind = "NET"} = {Len(toEsp) + 1}
      BY <1>4, <2>1, <2>2
    <2>4. Travelling' = {ReportOf(line)}
      BY <2>1, <2>3 DEF Travelling, ReportOf
    <2>5. OneReport'
      BY <1>4, <2>1 DEF OneReport
    <2> QED
      BY <1>2, <1>5, <1>7, <2>4, <2>5 DEF Link!Send
  <1> QED
    BY <1>1, <1>6, <1>8, <1>9, <1>10, WriteOf DEF SendNet, TypeOK

\* A new transaction is an offer of what the PC has.
LEMMA LinkOffers ==
    ASSUME Inductive, OneReport, NEW n \in Nonces, SayHello(n)
    PROVE  OneReport' /\ Link!Offer(n)
  <1>1. toEsp \in Seq(Lines)
    BY DEF Inductive, TypeOK
  <1>2. /\ phase = "idle" /\ phase' = "hello" /\ nonce' = n /\ network' = pcAddr
        /\ UNCHANGED <<last, auto, pc, heard, pcAddr>>
        /\ n \notin NoncesIn(toEsp)
    BY DEF SayHello, boardVars, envVars
  <1>3. Hello(n) \in Lines /\ Hello(n).kind # "NET" /\ Torn \in Lines
        /\ Torn.kind # "NET"
    BY DEF Lines
  <1>4. OneReport' /\ Travelling' = Travelling
    <2>1. \/ toEsp' = toEsp
          \/ toEsp' = Append(toEsp, Hello(n))
          \/ toEsp' = Append(toEsp, Torn)
      BY <1>1, <1>3, WriteOf DEF SayHello
    <2>2. CASE toEsp' = toEsp
      BY <2>2 DEF OneReport, Travelling
    <2> QED
      BY <1>1, <1>3, <2>1, <2>2, NothingPosted
  <1>5. Offered = {} /\ Offered' = {[n |-> n, a |-> pcAddr]}
    BY <1>2 DEF Offered
  <1>6. \A r \in Travelling : r.n # n
    BY <1>2 DEF Travelling, ReportOf, NoncesIn
  <1> QED
    BY <1>2, <1>4, <1>5, <1>6 DEF Link!Offer

\* The port is closed: the offer is concluded, or given up.
LEMMA LinkCloses ==
    ASSUME Inductive, OneReport,
           ReportDone \/ ReportRejected \/ TimeOut \/ HelperRestarts
    PROVE  OneReport' /\ (Link!Conclude \/ Link!GiveUp)
  <1>1. /\ Offered' = {}
        /\ UNCHANGED <<toEsp, pcAddr, heard, auto, pc>>
    BY DEF ReportDone, ReportRejected, TimeOut, HelperRestarts, Close, Offered,
           boardVars, envVars
  <1>2. OneReport' /\ Travelling' = Travelling
    BY <1>1 DEF OneReport, Travelling
  <1>3. CASE ReportDone
    <2>1. phase # "idle" /\ Head(toPc) = Reply("ACK", nonce) /\ last' = network
      BY <1>3 DEF ReportDone, Acked, AddressDone, Reading
    <2>2. heard = [n |-> nonce, a |-> network]
      BY <1>3, <2>1, Read DEF ReportDone, Inductive, AckIsMine
    <2>3. heard \in Offered /\ last' = heard.a
      BY <2>1, <2>2 DEF Offered
    <2> QED
      BY <1>1, <1>2, <2>3 DEF Link!Conclude
  <1>4. CASE ReportRejected \/ TimeOut \/ HelperRestarts
    <2>1. last' \in {last, None}
      BY <1>4 DEF ReportRejected, TimeOut, HelperRestarts
    <2> QED
      BY <1>1, <1>2, <2>1 DEF Link!GiveUp
  <1> QED
    BY <1>3, <1>4

\* A polled line is a report that is heard, or lost, or no report.
LEMMA LinkPolls ==
    ASSUME Inductive, OneReport, Board
    PROVE  OneReport' /\ (Link!Hear \/ Link!Lose \/ UNCHANGED Link!vars)
  <1>1. Polling /\ UNCHANGED <<pcAddr, phase, nonce, network, last, auto>>
    BY DEF Board, PollTorn, PollDirty, PollHello, PollNet, PollRefusedNet,
       PollForeignNet, helperVars, boardVars, envVars
  <1>2. Offered' = Offered
    BY <1>1 DEF Offered
  <1>3. CASE PollNet
    <2> DEFINE r == ReportOf(Head(toEsp))
    <2>1. /\ Head(toEsp).kind = "NET" /\ r.a \in Accepted
          /\ heard' = r /\ pc' = IF auto THEN r.a ELSE pc
      BY <1>3 DEF PollNet, Acceptable, ReportOf
    <2>2. OneReport' /\ r \in Travelling /\ Travelling' = {}
      BY <1>1, <2>1, PolledReport
    <2> QED
      BY <1>1, <1>2, <2>1, <2>2 DEF Link!Hear
  <1>4. CASE PollTorn \/ PollDirty \/ PollHello \/ PollRefusedNet \/ PollForeignNet
    <2>1. UNCHANGED <<heard, pc>>
      BY <1>4 DEF PollTorn, PollDirty, PollHello, PollRefusedNet, PollForeignNet,
         boardVars
    <2>2. OneReport' /\ (Travelling' = Travelling \/ Travelling' = {})
      BY <1>1, PolledReport
    <2> QED
      BY <1>1, <1>2, <2>1, <2>2 DEF Link!Lose, Link!vars
  <1> QED
    BY <1>3, <1>4 DEF Board

\* Disturbances move the PC, choose an address or lose what is on its way.
LEMMA LinkDisturbed ==
    ASSUME Inductive, Inductive', OneReport,
           \/ \E a \in Addresses : PcMoves(a)
           \/ \E a \in Accepted : Rebase(a)
           \/ \E on \in BOOLEAN, a \in Accepted : SaveDiscovery(on, a)
           \/ Plug \/ BoardRestarts \/ Settle \/ HeartbeatDue \/ SkipReply
    PROVE  /\ OneReport'
           /\ Link!Move \/ Link!Choose \/ Link!Lose \/ UNCHANGED Link!vars
  <1>1. UNCHANGED <<phase, nonce, network, last, heard>>
    BY DEF PcMoves, Rebase, SaveDiscovery, Plug, BoardRestarts, Settle, HeartbeatDue,
       SkipReply, helperVars, boardVars, envVars
  <1>2. Offered' = Offered
    BY <1>1 DEF Offered
  <1>3. toEsp' = toEsp => OneReport' /\ Travelling' = Travelling
    BY DEF OneReport, Travelling
  <1>4. CASE \E a \in Addresses : PcMoves(a)
    <2>1. pcAddr' \in Addresses /\ toEsp' = toEsp /\ UNCHANGED <<auto, pc>>
      BY <1>4 DEF PcMoves, boardVars
    <2> QED
      BY <1>1, <1>2, <1>3, <2>1 DEF Link!Move
  <1>5. CASE \/ \E a \in Accepted : Rebase(a)
             \/ \E on \in BOOLEAN, a \in Accepted : SaveDiscovery(on, a)
    <2>1. UNCHANGED <<pcAddr, toEsp>>
      BY <1>5 DEF Rebase, SaveDiscovery, envVars
    <2>2. auto' \in BOOLEAN /\ pc' \in Accepted
      BY DEF Inductive, TypeOK
    <2> QED
      BY <1>1, <1>2, <1>3, <2>1, <2>2 DEF Link!Choose
  <1>6. CASE Plug \/ BoardRestarts
    <2>1. UNCHANGED <<pcAddr, auto, pc>> /\ (toEsp' = toEsp \/ toEsp' = <<>>)
      BY <1>6 DEF Plug, BoardRestarts, boardVars, envVars
    <2> QED
      BY <1>1, <1>2, <1>3, <2>1, AllLost DEF Link!Lose, Link!vars
  <1>7. CASE Settle \/ HeartbeatDue \/ SkipReply
    <2>1. UNCHANGED <<pcAddr, auto, pc, toEsp>>
      BY <1>7 DEF Settle, HeartbeatDue, SkipReply, boardVars, envVars
    <2> QED
      BY <1>1, <1>2, <1>3, <2>1 DEF Link!vars
  <1> QED
    BY <1>4, <1>5, <1>6, <1>7

LEMMA LinkStep ==
    ASSUME Inductive, Inductive', OneReport, [Next]_vars
    PROVE  OneReport' /\ [Link!Next]_(Link!vars)
  <1>1. CASE Helper
    <2>1. ASSUME NEW n \in Nonces, SayHello(n)
          PROVE  OneReport' /\ Link!Next
      BY <2>1, LinkOffers DEF Link!Next
    <2> QED
      BY <1>1, <2>1, LinkSends, LinkCloses, LinkDisturbed DEF Helper, Link!Next
  <1>2. CASE Board
    BY <1>2, LinkPolls DEF Link!Next
  <1>3. CASE Environment
    BY <1>3, LinkDisturbed, LinkCloses DEF Environment, Link!Next
  <1>4. CASE UNCHANGED vars
    BY <1>4 DEF vars, envVars, helperVars, boardVars, Link!vars, Offered, Travelling,
       OneReport
  <1> QED
    BY <1>1, <1>2, <1>3, <1>4 DEF Next

\* The handshake is the link that is promised: reports are heard once or never and
\* in the order they were sent, and what the helper takes for reported is what the
\* board has heard last - for any nonces, addresses, buffers, losses and restarts.
THEOREM LinkIsProvided == Spec => ReportsProvided
  <1>1. Init => Link!Init /\ OneReport
    <2> SUFFICES ASSUME Init PROVE Link!Init /\ OneReport
      OBVIOUS
    <2>1. Len(toEsp) = 0
      BY EmptyOf DEF Init
    <2>2. Travelling = {} /\ Offered = {} /\ OneReport
      BY <2>1 DEF Init, Travelling, Offered, OneReport
    <2> QED
      BY <2>2 DEF Init, Link!Init
  <1>2. Inductive /\ Inductive' /\ OneReport /\ [Next]_vars
            => OneReport' /\ [Link!Next]_(Link!vars)
    BY LinkStep
  <1> QED
    BY <1>1, <1>2, InductiveHolds, PTL DEF Spec, ReportsProvided, Link!Spec
=============================================================================
