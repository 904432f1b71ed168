----------------------- MODULE HttpConnection_proofs -----------------------
(***************************************************************************)
(* HttpConnection for any scripts and limits: the receive buffer stays     *)
(* inside what the client sent and never holds more than a chunk, a        *)
(* connection is kept only after answers whose end the client can see, and *)
(* the board stops only after the client's network has failed or when a    *)
(* request asks for a WebSocket.  The inductive invariant adds that a      *)
(* request begins with the line read first, that only a failing network    *)
(* changes the state while a request is handled, and that keep is dropped  *)
(* with the answer that needs it.                                          *)
(*                                                                         *)
(* A second invariant, on top of the first, follows what was read of the   *)
(* head and the body: with it the connection stays in step with a client   *)
(* that sends the body it announces.                                       *)
(***************************************************************************)
EXTENDS HttpConnection, FiniteSetTheorems, TLAPS

-----------------------------------------------------------------------------
(* Minima, answers and the buffer *)

LEMMA MinusOf ==
    ASSUME NEW a \in Nat, NEW b \in Nat, b <= a
    PROVE  a - b \in Nat
  OBVIOUS

LEMMA MinusZero ==
    ASSUME NEW a \in Nat, NEW b \in Nat, a - b = 0
    PROVE  a = b
  OBVIOUS

LEMMA MinIs ==
    ASSUME NEW S \in SUBSET Int, NEW m \in S, \A y \in S : m <= y
    PROVE  Min(S) = m
  <1>1. Min(S) \in S /\ \A y \in S : Min(S) <= y
    BY Zenon DEF Min
  <1>2. Min(S) <= m /\ m <= Min(S) /\ m \in Int /\ Min(S) \in Int
    BY <1>1
  <1> QED
    BY <1>2

LEMMA MinOfTwo ==
    ASSUME NEW a \in Int, NEW b \in Int
    PROVE  Min({a, b}) = IF a <= b THEN a ELSE b
  <1>1. CASE a <= b
    <2>1. {a, b} \in SUBSET Int /\ a \in {a, b} /\ \A y \in {a, b} : a <= y
      BY <1>1
    <2> QED
      BY <1>1, <2>1, MinIs
  <1>2. CASE ~(a <= b)
    <2>1. {a, b} \in SUBSET Int /\ b \in {a, b} /\ \A y \in {a, b} : b <= y
      BY <1>2
    <2>2. Min({a, b}) = b
      BY <2>1, MinIs
    <2> QED
      BY <1>2, <2>2
  <1> QED
    BY <1>1, <1>2

LEMMA MinOfThree ==
    ASSUME NEW a \in Int, NEW b \in Int, NEW c \in Int
    PROVE  /\ Min({a, b, c}) \in {a, b, c}
           /\ Min({a, b, c}) <= a /\ Min({a, b, c}) <= b /\ Min({a, b, c}) <= c
  <1>1. PICK m \in {a, b, c} : m <= a /\ m <= b /\ m <= c
    OBVIOUS
  <1>2. {a, b, c} \in SUBSET Int /\ \A y \in {a, b, c} : m <= y
    BY <1>1
  <1>3. Min({a, b, c}) = m
    BY <1>1, <1>2, MinIs
  <1> QED
    BY <1>1, <1>3

Answers == [to : Nat, framed : BOOLEAN]

\* One answer more; framed, it leaves all of them framed if they were.
LEMMA AppendAnswer ==
    ASSUME NEW s \in Seq(Answers), NEW t \in Nat, NEW f \in BOOLEAN
    PROVE  /\ Append(s, [to |-> t, framed |-> f]) \in Seq(Answers)
           /\ f /\ (\A i \in DOMAIN s : s[i].framed) =>
                 \A i \in DOMAIN Append(s, [to |-> t, framed |-> f]) :
                     Append(s, [to |-> t, framed |-> f])[i].framed
  <1> DEFINE a == [to |-> t, framed |-> f]
  <1>1. a \in Answers /\ a.framed = f
    BY DEF Answers
  <1>2. /\ Append(s, a) \in Seq(Answers)
        /\ DOMAIN s = 1 .. Len(s) /\ DOMAIN Append(s, a) = 1 .. Len(s) + 1
        /\ Len(s) \in Nat
        /\ \A i \in DOMAIN s : Append(s, a)[i] = s[i]
        /\ Append(s, a)[Len(s) + 1] = a
    BY <1>1
  <1>3. \A i \in DOMAIN Append(s, a) : i \in DOMAIN s \/ i = Len(s) + 1
    BY <1>2
  <1> QED
    BY <1>1, <1>2, <1>3

\* A part of a sequence that is not empty begins with its first element.
LEMMA SubSeqOf ==
    ASSUME NEW S, NEW s \in Seq(S), NEW a \in 1 .. Len(s), NEW b \in 1 .. Len(s),
           a <= b
    PROVE  SubSeq(s, a, b) # <<>> /\ Head(SubSeq(s, a, b)) = s[a]
  <1>1. Len(s) \in Nat /\ a \in Int /\ b \in Int /\ b - a + 1 > 0
    OBVIOUS
  <1>2. SubSeq(s, a, b) = [i \in 1 .. (b - a + 1) |-> s[a + i - 1]]
    OBVIOUS
  <1>3. Len(SubSeq(s, a, b)) = b - a + 1
    BY <1>1, <1>2
  <1>4. 1 \in 1 .. (b - a + 1) /\ a + 1 - 1 = a
    BY <1>1
  <1>5. SubSeq(s, a, b)[1] = s[a]
    BY <1>2, <1>4
  <1> QED
    BY <1>1, <1>3, <1>5

\* The positions are natural numbers, in their order.
LEMMA Positions ==
    ASSUME TypeOK
    PROVE  /\ script \in Seq(Tokens) /\ Len(script) \in Nat
           /\ {sent, received, processed, lineStart, begin, Chunk} \subseteq Nat
           /\ begin <= lineStart /\ lineStart <= processed
           /\ processed <= received /\ received <= sent /\ sent <= Len(script)
           /\ received - processed <= Chunk
           /\ \A i \in 1 .. Len(script) : script[i] \in Tokens
  <1>1. script \in Seq(Tokens)
    BY ConnectionAssumption DEF TypeOK
  <1>2. Len(script) \in Nat /\ \A i \in 1 .. Len(script) : script[i] \in Tokens
    BY <1>1
  <1> QED
    BY <1>1, <1>2, ConnectionAssumption DEF TypeOK, Available

\* recv() leaves what is in the buffer and adds to it what fits; only a client
\* whose network failed changes the state.
LEMMA BufferMoves ==
    ASSUME TypeOK, UpdateBuffer
    PROVE  /\ received' \in 0 .. sent /\ received <= received'
           /\ received' - processed <= Chunk
           /\ UNCHANGED <<secure, overdue>>
           /\ gone' \in BOOLEAN /\ idle' \in BOOLEAN
           /\ state' = state \/ (state' = "error" /\ peer = "reset" /\ ~Closed)
           /\ received' > received => state' = state
  <1>1. /\ {sent, received, processed, Chunk} \subseteq Nat
        /\ processed <= received /\ received <= sent
        /\ received - processed <= Chunk
    BY Positions
  <1>2. UNCHANGED <<secure, overdue>>
    BY DEF UpdateBuffer
  <1>3. gone' \in BOOLEAN /\ idle' \in BOOLEAN
    BY DEF UpdateBuffer, TypeOK
  <1>4. state' = state \/ (state' = "error" /\ peer = "reset" /\ ~Closed)
    BY DEF UpdateBuffer
  <1>5. CASE received' = received
    BY <1>1, <1>2, <1>3, <1>4, <1>5
  <1>6. CASE /\ ~Closed /\ Available < Chunk /\ received < sent
             /\ received' = Min({sent, processed + Chunk})
             /\ UNCHANGED state
    <2>1. received' = IF sent <= processed + Chunk THEN sent ELSE processed + Chunk
      BY <1>1, <1>6, MinOfTwo
    <2> QED
      BY <1>1, <1>2, <1>3, <1>4, <1>6, <2>1 DEF Available
  <1> QED
    BY <1>5, <1>6 DEF UpdateBuffer

LEMMA BytesRead ==
    ASSUME TypeOK, NEW n \in Nat, ReadBytes(n)
    PROVE  /\ processed' \in processed .. received'
           /\ remaining' \in Nat \cup {None}
  <1>1. /\ received' \in Nat /\ processed \in Nat /\ processed <= received'
    BY BufferMoves, Positions DEF ReadBytes
  <1>2. PICK left \in Nat : left = received' - processed
    <2>1. received' - processed \in Nat
      BY <1>1, MinusOf
    <2> QED
      BY <2>1
  <1>3. CASE remaining = None
    <2>1. processed' = processed + Min({n, left}) /\ remaining' = None
      BY <1>2, <1>3 DEF ReadBytes
    <2>2. Min({n, left}) \in Nat /\ Min({n, left}) <= left
      BY <1>2, MinOfTwo
    <2> QED
      BY <1>1, <1>2, <2>1, <2>2
  <1>4. CASE remaining # None
    <2>1. remaining \in Nat
      BY <1>4 DEF TypeOK
    <2>2. /\ processed' = processed + Min({n, left, remaining})
          /\ remaining' = remaining - Min({n, left, remaining})
      BY <1>2, <1>4 DEF ReadBytes
    <2>3. /\ Min({n, left, remaining}) \in {n, left, remaining}
          /\ Min({n, left, remaining}) <= left /\ Min({n, left, remaining}) <= remaining
      <3>1. n \in Int /\ left \in Int /\ remaining \in Int
        BY <2>1
      <3> QED
        BY <3>1, MinOfThree, Zenon
    <2> QED
      BY <1>1, <1>2, <2>1, <2>2, <2>3
  <1> QED
    BY <1>3, <1>4

LEMMA CloseMoves ==
    ASSUME CloseConnection
    PROVE  state' \in {"closed", "error", "closing"} /\ overdue' = overdue
  BY DEF CloseConnection

-----------------------------------------------------------------------------
(* Steps *)

LEMMA InitHolds == Init => Inductive
  <1> SUFFICES ASSUME Init PROVE Inductive
    OBVIOUS
  <1>1. script \in Seq(Tokens) /\ Len(script) \in Nat
    BY ConnectionAssumption DEF Init
  <1>2. {secure, gone, idle, overdue, keep, buffered} \subseteq BOOLEAN
    BY DEF Init
  <1>3. /\ sent \in 0 .. Len(script) /\ received \in 0 .. sent
        /\ processed \in 0 .. received /\ lineStart \in 0 .. processed
        /\ begin \in 0 .. lineStart /\ Available <= Chunk
    BY <1>1, ConnectionAssumption DEF Init, Available
  <1>4. answers \in Seq([to : Nat, framed : BOOLEAN]) /\ DOMAIN answers = {}
    BY DEF Init
  <1>5. TypeOK
    BY <1>2, <1>3, <1>4 DEF Init, TypeOK, States
  <1>6. KeptIsFramed /\ CrashExplained /\ LastIsLast
    BY <1>4 DEF Init, KeptIsFramed, Unanswered, CrashExplained, Upgrading, LastIsLast, Framed
  <1>7. Begun /\ Placed
    BY DEF Init, Begun, Placed, Handling, Resources
  <1> QED
    BY <1>5, <1>6, <1>7 DEF Inductive

\* TypeOK after a step that may receive, but neither reads nor answers.
LEMMA TypeAfterBuffer ==
    ASSUME TypeOK, UpdateBuffer, UNCHANGED <<client, request, keep, buffered, answers>>,
           processed' \in processed .. received', remaining' \in Nat \cup {None},
           pc' \in Resources \cup {"rest", "checks", "line", "resolve", "answer",
                                   "discard", "end", "crashed"}
    PROVE  TypeOK'
  <1>1. /\ {sent, received, processed, lineStart, begin, Chunk} \subseteq Nat
        /\ begin <= lineStart /\ lineStart <= processed
    BY Positions
  <1>2. /\ received' \in 0 .. sent /\ received' - processed <= Chunk
        /\ UNCHANGED <<secure, overdue>> /\ gone' \in BOOLEAN /\ idle' \in BOOLEAN
        /\ state' = state \/ state' = "error"
    BY BufferMoves
  <1>3. UNCHANGED <<script, sent, peer, begin, lineStart, headers, keep, buffered, answers>>
    BY DEF client, request
  <1>4. {secure', gone', idle', overdue', keep', buffered'} \subseteq BOOLEAN
    BY <1>2, <1>3 DEF TypeOK
  <1>5. state' \in States
    BY <1>2 DEF TypeOK, States
  <1>6. /\ sent' \in 0 .. Len(script') /\ received' \in 0 .. sent'
        /\ processed' \in 0 .. received' /\ lineStart' \in 0 .. processed'
        /\ begin' \in 0 .. lineStart' /\ Available' <= Chunk
    BY <1>1, <1>2, <1>3 DEF TypeOK, Available
  <1> QED
    BY <1>3, <1>4, <1>5, <1>6 DEF TypeOK

LEMMA EnterStep ==
    ASSUME Inductive, Enter
    PROVE  Inductive'
  <1>1. /\ pc = "rest" /\ pc' = "checks" /\ UpdateBuffer
        /\ UNCHANGED <<client, processed, request, handling, answers>>
    BY DEF Enter
  <1>2. UNCHANGED <<script, sent, peer, processed, begin, lineStart, headers, keep,
                    remaining, buffered, answers>>
    BY <1>1 DEF client, request, handling
  <1>3. TypeOK
    BY DEF Inductive
  <1>4. TypeOK'
    <2>1. /\ processed \in Nat /\ received \in Nat /\ processed <= received
          /\ received <= received' /\ received' \in Nat
      BY <1>1, <1>3, Positions, BufferMoves
    <2>2. processed' \in processed .. received' /\ remaining' \in Nat \cup {None}
      BY <1>2, <1>3, <2>1 DEF TypeOK
    <2> QED
      BY <1>1, <1>2, <1>3, <2>2, TypeAfterBuffer
  <1>5. state' = state \/ state' = "error"
    BY <1>1, <1>3, BufferMoves
  <1>6. KeptIsFramed' /\ CrashExplained' /\ LastIsLast'
    BY <1>1, <1>2, <1>5 DEF Inductive, KeptIsFramed, Unanswered, CrashExplained, Upgrading, LastIsLast, Framed
  <1>7. Begun' /\ Placed'
    BY <1>1, <1>2, <1>5 DEF Inductive, Begun, Placed, Handling, Resources, Resource
  <1> QED
    BY <1>4, <1>6, <1>7 DEF Inductive

\* A step that only moves the state, to one in which no request is read.
LEMMA LeaveState ==
    ASSUME Inductive, pc' = "rest",
           state' \in {"closed", "error", "closing"},
           UNCHANGED <<client, secure, gone, idle, overdue, buffer, request,
                       handling>>,
           answers' \in Seq([to : Nat, framed : BOOLEAN])
    PROVE  Inductive'
  <1>1. UNCHANGED <<script, sent, peer, secure, gone, idle, overdue, received,
                    processed, begin, lineStart, headers, keep, remaining, buffered>>
    BY DEF client, buffer, request, handling
  <1>2. TypeOK'
    <2>1. {secure', gone', idle', overdue', keep', buffered'} \subseteq BOOLEAN
      BY <1>1 DEF Inductive, TypeOK
    <2> QED
      BY <1>1, <2>1 DEF Inductive, TypeOK, States, Available
  <1>3. KeptIsFramed' /\ CrashExplained' /\ LastIsLast'
    BY DEF KeptIsFramed, Unanswered, CrashExplained, Upgrading, LastIsLast
  <1>4. Begun' /\ Placed'
    BY DEF Begun, Placed, Handling, Resources
  <1> QED
    BY <1>2, <1>3, <1>4 DEF Inductive

LEMMA AbandonStep ==
    ASSUME Inductive, Abandon
    PROVE  Inductive'
  <1>1. /\ pc' = "rest" /\ CloseConnection
        /\ UNCHANGED <<client, secure, gone, idle, buffer, request, handling, answers>>
    BY DEF Abandon
  <1>2. state' \in {"closed", "error", "closing"} /\ overdue' = overdue
    BY <1>1, CloseMoves
  <1>3. answers' \in Seq([to : Nat, framed : BOOLEAN])
    BY <1>1 DEF Inductive, TypeOK
  <1> QED
    BY <1>1, <1>2, <1>3, LeaveState

LEMMA RaiseErrorStep ==
    ASSUME Inductive, RaiseError, pc' = "rest",
           UNCHANGED <<client, buffer, request, handling>>
    PROVE  Inductive'
  <1>1. begin \in Nat /\ answers \in Seq(Answers)
    BY Positions DEF Inductive, TypeOK, Answers
  <1>2. answers' \in Seq([to : Nat, framed : BOOLEAN])
    BY <1>1, AppendAnswer DEF RaiseError, Answers
  <1> QED
    BY <1>2, LeaveState DEF RaiseError

LEMMA DispatchStep ==
    ASSUME Inductive, Dispatch
    PROVE  Inductive'
  <1>1. pc = "checks" /\ UNCHANGED <<client, buffer, request, handling, answers>>
    BY DEF Dispatch
  <1>2. answers' \in Seq([to : Nat, framed : BOOLEAN])
    BY <1>1 DEF Inductive, TypeOK
  <1>3. UNCHANGED <<script, sent, peer, received, processed, begin, lineStart,
                    headers, keep, remaining, buffered, answers>>
    BY <1>1 DEF client, buffer, request, handling
  <1>4. CASE CloseConnection /\ pc' = "rest" /\ UNCHANGED <<secure, gone, idle>>
    <2>1. state' \in {"closed", "error", "closing"} /\ overdue' = overdue
      BY <1>4, CloseMoves
    <2> QED
      BY <1>1, <1>2, <1>4, <2>1, LeaveState
  <1>5. CASE /\ UNCHANGED link
             /\ \/ pc' = "line" /\ state \in {"initial", "request"}
                \/ pc' = "resolve" /\ state = "headers"
                \/ pc' = "rest"
    <2>1. UNCHANGED <<secure, state, gone, idle, overdue>>
      BY <1>5 DEF link
    <2>2. {secure', gone', idle', overdue', keep', buffered'} \subseteq BOOLEAN
      BY <1>3, <2>1 DEF Inductive, TypeOK
    <2>3. TypeOK'
      BY <1>3, <1>5, <2>1, <2>2 DEF Inductive, TypeOK, Available
    <2>4. KeptIsFramed' /\ CrashExplained' /\ LastIsLast'
      BY <1>1, <1>3, <1>5, <2>1 DEF Inductive, KeptIsFramed, Unanswered, CrashExplained, Upgrading,
         LastIsLast, Framed
    <2>5. Begun' /\ Placed'
      BY <1>1, <1>3, <1>5, <2>1 DEF Inductive, Begun, Placed, Handling, Resources,
         Resource
    <2> QED
      BY <2>3, <2>4, <2>5 DEF Inductive
  <1> QED
    BY <1>4, <1>5 DEF Dispatch

LEMMA ReadLineStopsStep ==
    ASSUME Inductive, ReadLineStops
    PROVE  Inductive'
  <1>1. /\ pc = "line" /\ pc' = "rest"
        /\ UNCHANGED <<script, sent, peer, secure, state, gone, idle, overdue,
                       received, processed, begin, lineStart, headers, keep,
                       remaining, buffered, answers>>
    BY DEF ReadLineStops, client, link, buffer, request, handling
  <1>2. {secure', gone', idle', overdue', keep', buffered'} \subseteq BOOLEAN
    BY <1>1 DEF Inductive, TypeOK
  <1>3. TypeOK'
    BY <1>1, <1>2 DEF Inductive, TypeOK, Available
  <1>4. KeptIsFramed' /\ CrashExplained' /\ LastIsLast'
    BY <1>1 DEF Inductive, KeptIsFramed, Unanswered, CrashExplained, Upgrading, LastIsLast, Framed
  <1>5. Begun' /\ Placed'
    BY <1>1 DEF Inductive, Begun, Placed, Handling, Resources, Resource
  <1> QED
    BY <1>3, <1>4, <1>5 DEF Inductive

\* An answer after more of the client's bytes were taken for the line.
LEMMA ReadTextStep ==
    ASSUME Inductive, ReadText
    PROVE  Inductive'
  <1>1. /\ pc = "line" /\ Available > 0 /\ processed' = processed + 1
        /\ \/ RaiseError /\ pc' = "rest"
           \/ UNCHANGED <<secure, state, gone, idle, overdue, answers, pc>>
        /\ UNCHANGED <<script, sent, peer, received, begin, lineStart, headers,
                       keep, remaining, buffered>>
    BY DEF ReadText, client, link, request, handling
  <1>2. /\ {sent, received, processed, lineStart, begin, Chunk} \subseteq Nat
        /\ begin <= lineStart /\ lineStart <= processed
        /\ processed <= received /\ received <= sent /\ received - processed <= Chunk
    BY Positions DEF Inductive
  <1>3. answers' \in Seq([to : Nat, framed : BOOLEAN])
    <2>1. begin \in Nat /\ answers \in Seq(Answers)
      BY <1>2 DEF Inductive, TypeOK, Answers
    <2> QED
      BY <1>1, <2>1, AppendAnswer DEF RaiseError, Answers
  <1>4. {secure', gone', idle', overdue', keep', buffered'} \subseteq BOOLEAN
    BY <1>1 DEF Inductive, TypeOK, RaiseError
  <1>5. TypeOK'
    <2>1. processed' \in 0 .. received /\ lineStart \in 0 .. processed'
          /\ Available' <= Chunk
      BY <1>1, <1>2 DEF Available
    <2>2. state' \in States /\ pc' \in {"rest", "line"}
      BY <1>1 DEF Inductive, TypeOK, RaiseError, States
    <2> QED
      BY <1>1, <1>3, <1>4, <2>1, <2>2 DEF Inductive, TypeOK
  <1>6. /\ state' = "error" /\ pc' = "rest"
        \/ UNCHANGED <<state, answers, pc>>
    BY <1>1 DEF RaiseError
  <1>7. KeptIsFramed' /\ CrashExplained' /\ LastIsLast'
    BY <1>1, <1>6 DEF Inductive, KeptIsFramed, Unanswered, CrashExplained, Upgrading, LastIsLast, Framed
  <1>8. Begun' /\ Placed'
    BY <1>1, <1>6 DEF Inductive, Begun, Placed, Handling, Resources, Resource
  <1> QED
    BY <1>5, <1>7, <1>8 DEF Inductive

LEMMA ReadCrTextStep ==
    ASSUME Inductive, ReadCrText
    PROVE  Inductive'
  BY RaiseErrorStep DEF ReadCrText

\* The line that was read begins where the connection says it does.
LEMMA ReadCrLfStep ==
    ASSUME Inductive, ReadCrLf
    PROVE  Inductive'
  <1> DEFINE text  == SubSeq(script, lineStart + 1, processed)
             first == IF text = <<>> THEN [t |-> "empty"] ELSE Head(text)
  <1>1. /\ pc = "line" /\ Available > 1
        /\ processed' = processed + 2 /\ lineStart' = processed + 2
        /\ \/ /\ state = "initial" /\ first.t \in Resources
              /\ state' = "request"
              /\ pc' = "rest"
              /\ UNCHANGED <<secure, gone, idle, overdue, headers, answers>>
           \/ /\ state = "request" /\ first.t \in Accepted
              /\ headers' = {h \in headers : Field(h.t) # Field(first.t)} \cup {first}
              /\ UNCHANGED <<link, pc, answers>>
           \/ /\ state = "request" /\ first.t = "empty"
              /\ state' = "headers"
              /\ pc' = "rest"
              /\ UNCHANGED <<secure, gone, idle, overdue, headers, answers>>
           \/ /\ RaiseError
              /\ pc' = "rest"
              /\ UNCHANGED headers
        /\ UNCHANGED <<script, sent, peer, received, begin, keep, remaining, buffered>>
    BY DEF ReadCrLf, client, handling
  <1>2. /\ script \in Seq(Tokens) /\ Len(script) \in Nat
        /\ {sent, received, processed, lineStart, begin, Chunk} \subseteq Nat
        /\ begin <= lineStart /\ lineStart <= processed
        /\ processed <= received /\ received <= sent /\ sent <= Len(script)
        /\ received - processed <= Chunk
        /\ \A i \in 1 .. Len(script) : script[i] \in Tokens
    BY Positions DEF Inductive
  <1>3. lineStart < processed =>
            lineStart + 1 \in 1 .. Len(script) /\ first = script[lineStart + 1]
    <2> SUFFICES ASSUME lineStart < processed
                 PROVE  lineStart + 1 \in 1 .. Len(script)
                        /\ first = script[lineStart + 1]
      OBVIOUS
    <2>1. lineStart + 1 \in 1 .. Len(script) /\ processed \in 1 .. Len(script)
          /\ lineStart + 1 <= processed
      BY <1>2
    <2>2. text # <<>> /\ Head(text) = script[lineStart + 1]
      BY <1>2, <2>1, SubSeqOf
    <2> QED
      BY <2>1, <2>2
  <1>4. lineStart = processed => first.t = "empty"
    <2>1. lineStart = processed => text = <<>>
      BY <1>2
    <2> QED
      BY <2>1
  <1>5. lineStart < processed \/ lineStart = processed
    BY <1>2
  <1>6. first.t \in Resources \cup Accepted =>
            lineStart < processed /\ first \in Tokens
    BY <1>2, <1>3, <1>4, <1>5 DEF Resources, Accepted
  <1>7. answers' \in Seq([to : Nat, framed : BOOLEAN])
    <2>1. begin \in Nat /\ answers \in Seq(Answers)
      BY <1>2 DEF Inductive, TypeOK, Answers
    <2> QED
      BY <1>1, <2>1, AppendAnswer DEF RaiseError, Answers
  <1>8. {secure', gone', idle', overdue', keep', buffered'} \subseteq BOOLEAN
    BY <1>1 DEF Inductive, TypeOK, RaiseError, link
  <1>9. headers' \subseteq Tokens
    BY <1>1, <1>6 DEF Inductive, TypeOK
  <1>10. state' \in States /\ pc' \in {"rest", "line"}
    BY <1>1 DEF Inductive, TypeOK, RaiseError, States, link
  <1>11. TypeOK'
    <2>1. processed + 2 <= received
      BY <1>1, <1>2 DEF Available
    <2>2. processed' \in 0 .. received /\ lineStart' \in 0 .. processed'
          /\ begin \in 0 .. lineStart'
      BY <1>1, <1>2, <2>1
    <2>3. received - (processed + 2) <= Chunk
      BY <1>2, <2>1
    <2>4. Available' <= Chunk
      BY <1>1, <2>3 DEF Available
    <2> QED
      BY <1>1, <1>7, <1>8, <1>9, <1>10, <2>2, <2>4 DEF Inductive, TypeOK
  <1>12. \/ state' = "error" /\ pc' = "rest"
         \/ state = "request" /\ UNCHANGED <<state, pc, answers>>
         \/ state = "request" /\ state' = "headers" /\ pc' = "rest" /\ answers' = answers
         \/ /\ state = "initial" /\ first.t \in Resources
            /\ state' = "request" /\ pc' = "rest" /\ answers' = answers
    BY <1>1 DEF RaiseError, link
  <1>13. KeptIsFramed' /\ CrashExplained' /\ LastIsLast'
    BY <1>1, <1>12 DEF Inductive, KeptIsFramed, Unanswered, CrashExplained, Upgrading, LastIsLast, Framed
  <1>14. state = "initial" /\ first.t \in Resources =>
            begin < Len(script) /\ Resource.t \in Resources
    <2> SUFFICES ASSUME state = "initial", first.t \in Resources
                 PROVE  begin < Len(script) /\ Resource.t \in Resources
      OBVIOUS
    <2>1. lineStart = begin /\ lineStart < processed /\ first = script[begin + 1]
      BY <1>3, <1>6 DEF Inductive, Begun
    <2> QED
      BY <1>2, <2>1 DEF Resource
  <1>15. Begun' /\ Placed'
    BY <1>1, <1>12, <1>14 DEF Inductive, Begun, Placed, Handling, Resources, Resource
  <1> QED
    BY <1>11, <1>13, <1>15 DEF Inductive

LEMMA ResolveStep ==
    ASSUME Inductive, Resolve
    PROVE  Inductive'
  <1>1. /\ pc = "resolve" /\ pc' \in {"page", Resource.t}
        /\ keep' = (\E h \in headers : h.t = "keep") /\ buffered' = keep'
        /\ remaining' = IF \E h \in headers : h.t = "length"
                           THEN (CHOOSE h \in headers : h.t = "length").n
                           ELSE None
        /\ UNCHANGED <<script, sent, peer, secure, state, gone, idle, overdue,
                       received, processed, begin, lineStart, headers, answers>>
    BY DEF Resolve, client, link, buffer, request
  <1>2. state = "headers" /\ pc' \in Resources
    BY <1>1 DEF Inductive, Begun, Placed, Resources
  <1>3. remaining' \in Nat \cup {None}
    <2>1. \A h \in headers : h.n \in Nat
      BY DEF Inductive, TypeOK, Tokens
    <2> QED
      BY <1>1, <2>1
  <1>4. keep' \in BOOLEAN
    BY <1>1, Zenon
  <1>5. {secure', gone', idle', overdue', keep', buffered'} \subseteq BOOLEAN
    BY <1>1, <1>4 DEF Inductive, TypeOK
  <1>6. TypeOK'
    BY <1>1, <1>2, <1>3, <1>5 DEF Inductive, TypeOK, Available
  <1>7. KeptIsFramed' /\ CrashExplained' /\ LastIsLast'
    BY <1>1, <1>2 DEF Inductive, KeptIsFramed, Unanswered, CrashExplained, Upgrading, LastIsLast, Framed,
       Resources
  <1>8. Begun' /\ Placed'
    BY <1>1, <1>2 DEF Inductive, Begun, Placed, Handling, Resources, Resource
  <1> QED
    BY <1>6, <1>7, <1>8 DEF Inductive

\* Reading the body may meet the failing network, and answers nothing.
LEMMA BodyStep ==
    ASSUME Inductive, pc \in {"form", "command", "discard"},
           pc' \in {"form", "command", "discard", "answer", "end"},
           pc' \in {"discard", "end"} <=> pc = "discard",
           UpdateBuffer \/ UNCHANGED <<link, received>>,
           UNCHANGED <<client, request, keep, buffered, answers>>,
           processed' \in processed .. received', remaining' \in Nat \cup {None}
    PROVE  Inductive'
  <1>1. UNCHANGED <<script, sent, peer, begin, lineStart, headers, keep, buffered, answers>>
    BY DEF client, request
  <1>2. state' = state \/ (state' = "error" /\ peer = "reset")
    BY BufferMoves DEF Inductive, link
  <1>3. pc' \in Resources \cup {"rest", "checks", "line", "resolve", "answer",
                                "discard", "end", "crashed"}
    BY DEF Resources
  <1>4. TypeOK'
    <2>1. CASE UpdateBuffer
      BY <1>3, <2>1, TypeAfterBuffer DEF Inductive
    <2>2. CASE UNCHANGED <<link, received>>
      <3>1. UNCHANGED <<secure, state, gone, idle, overdue, received>>
        BY <2>2 DEF link
      <3>2. {secure', gone', idle', overdue', keep', buffered'} \subseteq BOOLEAN
        BY <1>1, <3>1 DEF Inductive, TypeOK
      <3>3. /\ {received, processed, lineStart, begin, Chunk} \subseteq Nat
            /\ begin <= lineStart /\ lineStart <= processed
            /\ received - processed <= Chunk
        BY Positions DEF Inductive
      <3>4. processed' \in 0 .. received' /\ lineStart' \in 0 .. processed'
            /\ Available' <= Chunk
        BY <1>1, <3>1, <3>3 DEF Available
      <3> QED
        BY <1>1, <1>3, <3>1, <3>2, <3>4 DEF Inductive, TypeOK
    <2> QED
      BY <2>1, <2>2
  <1>5. KeptIsFramed' /\ CrashExplained' /\ LastIsLast'
    BY <1>1, <1>2 DEF Inductive, KeptIsFramed, Unanswered, CrashExplained, Upgrading, LastIsLast, Framed,
       Closed
  <1>6. Begun' /\ Placed'
    BY <1>1, <1>2 DEF Inductive, Begun, Placed, Handling, Resources, Resource
  <1> QED
    BY <1>4, <1>5, <1>6 DEF Inductive

LEMMA ParseFormStep ==
    ASSUME Inductive, ParseForm
    PROVE  Inductive'
  <1>1. pc = "form" /\ UNCHANGED <<client, request, keep, buffered, answers>>
    BY DEF ParseForm
  <1>2. {received, processed} \subseteq Nat /\ processed <= received /\ Chunk \in Nat
    BY Positions DEF Inductive
  <1>3. CASE RequestComplete /\ pc' = "answer" /\ UNCHANGED <<processed, remaining>>
    <2>1. UpdateBuffer \/ UNCHANGED <<link, received>>
      BY <1>3 DEF RequestComplete
    <2>2. received' \in Nat /\ processed <= received'
      BY <1>2, <2>1, BufferMoves DEF Inductive
    <2>3. processed' \in processed .. received' /\ remaining' \in Nat \cup {None}
      BY <1>2, <1>3, <2>2 DEF Inductive, TypeOK
    <2> QED
      BY <1>1, <1>3, <2>1, <2>3, BodyStep
  <1>4. CASE /\ remaining # 0
             /\ ReadBytes(IF remaining = None THEN Chunk ELSE remaining)
             /\ pc' = IF processed' = processed THEN "answer" ELSE "form"
    <2>1. (IF remaining = None THEN Chunk ELSE remaining) \in Nat
      BY <1>2 DEF Inductive, TypeOK
    <2>2. processed' \in processed .. received' /\ remaining' \in Nat \cup {None}
      BY <1>4, <2>1, BytesRead DEF Inductive
    <2>3. UpdateBuffer
      BY <1>4 DEF ReadBytes
    <2> QED
      BY <1>1, <1>4, <2>2, <2>3, BodyStep
  <1> QED
    BY <1>3, <1>4 DEF ParseForm

LEMMA DiscardStep ==
    ASSUME Inductive, Discard
    PROVE  Inductive'
  <1>1. /\ pc \in {"command", "discard"}
        /\ UNCHANGED <<client, request, keep, buffered, answers>>
    BY DEF Discard
  <1>2. {received, processed} \subseteq Nat /\ processed <= received
    BY Positions DEF Inductive
  <1>3. CASE /\ RequestComplete /\ UNCHANGED <<processed, remaining>>
             /\ pc' = IF pc = "command" THEN "answer" ELSE "end"
    <2>1. UpdateBuffer \/ UNCHANGED <<link, received>>
      BY <1>3 DEF RequestComplete
    <2>2. received' \in Nat /\ processed <= received'
      BY <1>2, <2>1, BufferMoves DEF Inductive
    <2>3. processed' \in processed .. received' /\ remaining' \in Nat \cup {None}
      BY <1>2, <1>3, <2>2 DEF Inductive, TypeOK
    <2> QED
      BY <1>1, <1>3, <2>1, <2>3, BodyStep
  <1>4. CASE ReadBytes(Unit) /\ UNCHANGED pc
    <2>1. Unit \in Nat
      BY ConnectionAssumption
    <2>2. processed' \in processed .. received' /\ remaining' \in Nat \cup {None}
      BY <1>4, <2>1, BytesRead DEF Inductive
    <2>3. UpdateBuffer
      BY <1>4 DEF ReadBytes
    <2> QED
      BY <1>1, <1>4, <2>2, <2>3, BodyStep
  <1> QED
    BY <1>3, <1>4 DEF Discard

\* A step of the handling that leaves the connection's state alone.
LEMMA QuietHandling ==
    ASSUME Inductive, pc' \in {"answer", "discard"},
           UNCHANGED <<client, link, buffer, request, remaining>>,
           keep' \in BOOLEAN, buffered' \in BOOLEAN,
           answers' \in Seq([to : Nat, framed : BOOLEAN])
    PROVE  TypeOK' /\ UNCHANGED <<script, peer, state, begin, lineStart>>
  <1>1. UNCHANGED <<script, sent, peer, secure, state, gone, idle, overdue,
                    received, processed, begin, lineStart, headers, remaining>>
    BY DEF client, link, buffer, request
  <1>2. {secure', gone', idle', overdue', keep', buffered'} \subseteq BOOLEAN
    BY <1>1 DEF Inductive, TypeOK
  <1> QED
    BY <1>1, <1>2 DEF Inductive, TypeOK, Available

LEMMA ReadPageStep ==
    ASSUME Inductive, ReadPage
    PROVE  Inductive'
  <1>1. /\ pc = "page" /\ pc' = "answer"
        /\ UNCHANGED <<client, link, buffer, request, remaining, keep, buffered, answers>>
    BY DEF ReadPage, handling
  <1>2. keep' \in BOOLEAN /\ buffered' \in BOOLEAN
    BY <1>1 DEF Inductive, TypeOK
  <1>3. answers' \in Seq([to : Nat, framed : BOOLEAN])
    BY <1>1 DEF Inductive, TypeOK
  <1>4. TypeOK' /\ UNCHANGED <<script, peer, state, begin, lineStart>>
    BY <1>1, <1>2, <1>3, QuietHandling
  <1>5. KeptIsFramed' /\ CrashExplained' /\ LastIsLast'
    BY <1>1, <1>4 DEF Inductive, KeptIsFramed, Unanswered, CrashExplained, Upgrading, LastIsLast, Framed
  <1>6. Begun' /\ Placed'
    BY <1>1, <1>4 DEF Inductive, Begun, Placed, Handling, Resources, Resource
  <1> QED
    BY <1>4, <1>5, <1>6 DEF Inductive

\* keep survives the answer only with an answer in the cache.
LEMMA AnswerStep ==
    ASSUME Inductive, Answer
    PROVE  Inductive'
  <1>1. /\ pc = "answer" /\ pc' = "discard" /\ keep' = buffered'
        /\ buffered' = (buffered /\ Resource.n <= CacheSize)
        /\ answers' = IF Closed \/ buffered' THEN answers
                      ELSE Append(answers, [to |-> begin, framed |-> FALSE])
        /\ UNCHANGED <<client, link, buffer, request, remaining>>
    BY DEF Answer
  <1>2. keep' \in BOOLEAN /\ buffered' \in BOOLEAN
    BY <1>1 DEF Inductive, TypeOK
  <1>3. answers' \in Seq([to : Nat, framed : BOOLEAN])
    <2>1. begin \in Nat /\ answers \in Seq(Answers)
      BY Positions DEF Inductive, TypeOK, Answers
    <2> QED
      BY <1>1, <2>1, AppendAnswer DEF Answers
  <1>4. TypeOK' /\ UNCHANGED <<script, peer, state, begin, lineStart>>
    BY <1>1, <1>2, <1>3, QuietHandling
  <1>5. state = "headers" \/ (state = "error" /\ peer = "reset")
    BY <1>1 DEF Inductive, Placed, Handling
  <1>6. KeptIsFramed' /\ CrashExplained'
    BY <1>1 DEF KeptIsFramed, Unanswered, CrashExplained, Upgrading
  <1>7. LastIsLast'
    <2> SUFFICES ASSUME keep', ~Closed' PROVE Framed'
      BY DEF LastIsLast
    <2>1. ~Closed /\ buffered' /\ answers' = answers
      BY <1>1, <1>4 DEF Closed
    <2>2. state = "headers"
      BY <1>5, <2>1 DEF Closed
    <2> QED
      BY <1>1, <2>1, <2>2 DEF Inductive, KeptIsFramed, Unanswered, Framed
  <1>8. Begun' /\ Placed'
    BY <1>1, <1>4, <1>5 DEF Inductive, Begun, Placed, Handling, Resources, Resource
  <1> QED
    BY <1>4, <1>6, <1>7, <1>8 DEF Inductive

\* The cached answer, if there is one, leaves the board.
LEMMA FinishStep ==
    ASSUME Inductive, Finish
    PROVE  Inductive'
  <1>1. /\ pc = "end" /\ pc' = "rest" /\ state' = "body" /\ headers' = {}
        /\ answers' = IF keep THEN Append(answers, [to |-> begin, framed |-> TRUE])
                              ELSE answers
        /\ UNCHANGED <<script, sent, peer, secure, gone, idle, overdue, received,
                       processed, begin, lineStart, keep, remaining, buffered>>
    BY DEF Finish, client, buffer, handling
  <1>2. answers' \in Seq([to : Nat, framed : BOOLEAN])
    <2>1. begin \in Nat /\ answers \in Seq(Answers)
      BY Positions DEF Inductive, TypeOK, Answers
    <2> QED
      BY <1>1, <2>1, AppendAnswer DEF Answers
  <1>3. {secure', gone', idle', overdue', keep', buffered'} \subseteq BOOLEAN
    BY <1>1 DEF Inductive, TypeOK
  <1>4. TypeOK'
    BY <1>1, <1>2, <1>3 DEF Inductive, TypeOK, Available, States
  <1>5. KeptIsFramed' /\ CrashExplained' /\ LastIsLast' /\ Begun' /\ Placed'
    BY <1>1 DEF KeptIsFramed, Unanswered, CrashExplained, Upgrading, LastIsLast, Begun, Placed, Handling,
       Resources
  <1> QED
    BY <1>4, <1>5 DEF Inductive

LEMMA KeepAliveStep ==
    ASSUME Inductive, KeepAlive
    PROVE  Inductive'
  <1>1. /\ pc = "end" /\ ~Closed /\ keep /\ pc' = "rest" /\ state' = "initial"
        /\ idle' = FALSE /\ headers' = {} /\ begin' = processed /\ lineStart' = processed
        /\ answers' = Append(answers, [to |-> begin, framed |-> TRUE])
        /\ UNCHANGED <<script, sent, peer, secure, gone, overdue, received,
                       processed, keep, remaining, buffered>>
    BY DEF KeepAlive, client, buffer, handling
  <1>2. begin \in Nat /\ answers \in Seq(Answers) /\ Framed
    BY <1>1, Positions DEF Inductive, TypeOK, Answers, LastIsLast
  <1>3. answers' \in Seq([to : Nat, framed : BOOLEAN]) /\ Framed'
    BY <1>1, <1>2, AppendAnswer DEF Answers, Framed
  <1>4. {secure', gone', idle', overdue', keep', buffered'} \subseteq BOOLEAN
    BY <1>1 DEF Inductive, TypeOK
  <1>5. TypeOK'
    <2>1. processed \in Nat
      BY Positions DEF Inductive
    <2>2. lineStart' \in 0 .. processed' /\ begin' \in 0 .. lineStart'
      BY <1>1, <2>1
    <2> QED
      BY <1>1, <1>3, <1>4, <2>2 DEF Inductive, TypeOK, Available, States
  <1>6. KeptIsFramed' /\ CrashExplained' /\ LastIsLast'
    BY <1>1, <1>3 DEF KeptIsFramed, Unanswered, CrashExplained, Upgrading, LastIsLast
  <1>7. Begun' /\ Placed'
    BY <1>1 DEF Begun, Placed, Handling, Resources
  <1> QED
    BY <1>5, <1>6, <1>7 DEF Inductive

LEMMA UpgradeStep ==
    ASSUME Inductive, Upgrade
    PROVE  Inductive'
  <1>1. /\ pc = "end" /\ Upgrading /\ pc' = "crashed"
        /\ UNCHANGED <<script, sent, peer, secure, state, gone, idle, overdue,
                       received, processed, begin, lineStart, headers, keep,
                       remaining, buffered, answers>>
    BY DEF Upgrade, client, link, buffer, request, handling
  <1>2. {secure', gone', idle', overdue', keep', buffered'} \subseteq BOOLEAN
    BY <1>1 DEF Inductive, TypeOK
  <1>3. TypeOK'
    BY <1>1, <1>2 DEF Inductive, TypeOK, Available
  <1>4. CrashExplained'
    BY <1>1 DEF CrashExplained, Upgrading
  <1>5. KeptIsFramed' /\ LastIsLast' /\ Begun' /\ Placed'
    BY <1>1 DEF Inductive, KeptIsFramed, Unanswered, LastIsLast, Begun, Placed,
       Handling, Resources, Resource
  <1> QED
    BY <1>3, <1>4, <1>5 DEF Inductive

LEMMA FinishClosedStep ==
    ASSUME Inductive, FinishClosed
    PROVE  Inductive'
  <1>1. /\ pc = "end" /\ Closed /\ pc' \in {"crashed", "rest"}
        /\ UNCHANGED <<script, sent, peer, secure, state, gone, idle, overdue,
                       received, processed, begin, lineStart, headers, keep,
                       remaining, buffered, answers>>
    BY DEF FinishClosed, client, link, buffer, request, handling
  <1>2. state = "error" /\ peer = "reset"
    BY <1>1 DEF Inductive, Placed, Handling, Closed
  <1>3. {secure', gone', idle', overdue', keep', buffered'} \subseteq BOOLEAN
    BY <1>1 DEF Inductive, TypeOK
  <1>4. TypeOK'
    BY <1>1, <1>3 DEF Inductive, TypeOK, Available
  <1>5. KeptIsFramed' /\ CrashExplained' /\ LastIsLast' /\ Begun' /\ Placed'
    BY <1>1, <1>2 DEF KeptIsFramed, Unanswered, CrashExplained, Upgrading, LastIsLast, Begun, Placed,
       Handling, Resources
  <1> QED
    BY <1>4, <1>5 DEF Inductive

\* The client and the clock move neither the board's place nor its answers.
LEMMA OutsideStep ==
    ASSUME Inductive, Send \/ Leave \/ Silence \/ ShutdownOverdue \/ UNCHANGED vars
    PROVE  Inductive'
  <1>1. UNCHANGED <<script, secure, state, gone, received, processed, begin,
                    lineStart, headers, pc, keep, remaining, buffered, answers>>
    BY DEF Send, Leave, Silence, ShutdownOverdue, vars, client, link, buffer,
       request, handling
  <1>2. {secure', gone', idle', overdue', keep', buffered'} \subseteq BOOLEAN
    BY <1>1 DEF Inductive, TypeOK, Send, Leave, Silence, ShutdownOverdue, vars, link
  <1>3. /\ sent' \in 0 .. Len(script) /\ received \in 0 .. sent'
        /\ peer' \in {"open", "fin", "reset"} /\ (peer = "reset" => peer' = "reset")
    <2>1. /\ {sent, received} \subseteq Nat /\ Len(script) \in Nat
          /\ received <= sent /\ sent <= Len(script)
      BY Positions DEF Inductive
    <2>2. \/ sent' = sent + 1 /\ sent < Len(script) /\ peer' = peer
          \/ sent' = sent /\ peer = "open" /\ peer' \in {"fin", "reset"}
          \/ sent' = sent /\ peer' = peer
      BY DEF Send, Leave, Silence, ShutdownOverdue, vars, client
    <2> QED
      BY <2>1, <2>2 DEF Inductive, TypeOK
  <1>4. TypeOK'
    BY <1>1, <1>2, <1>3 DEF Inductive, TypeOK, Available
  <1>5. KeptIsFramed' /\ CrashExplained' /\ LastIsLast'
    BY <1>1, <1>3 DEF Inductive, KeptIsFramed, Unanswered, CrashExplained, Upgrading, LastIsLast, Framed,
       Closed
  <1>6. Begun' /\ Placed'
    BY <1>1, <1>3 DEF Inductive, Begun, Placed, Handling, Resources, Resource
  <1> QED
    BY <1>4, <1>5, <1>6 DEF Inductive

LEMMA NextStep ==
    ASSUME Inductive, [Next]_vars
    PROVE  Inductive'
  <1>1. CASE ReadCrOnly
    BY <1>1, OutsideStep DEF ReadCrOnly
  <1> QED
    BY <1>1, EnterStep, AbandonStep, DispatchStep, ReadLineStopsStep, ReadTextStep,
       ReadCrTextStep, ReadCrLfStep, ResolveStep, ParseFormStep, DiscardStep,
       ReadPageStep, AnswerStep, UpgradeStep, FinishStep, KeepAliveStep, FinishClosedStep,
       OutsideStep DEF Next, Loop, ReadLine, Handle

-----------------------------------------------------------------------------
(* In step with the client *)

\* A request more has begun before the beginning that follows it.
LEMMA NextBefore ==
    ASSUME TypeOK, NEW b \in Begins(script), NEW e \in Nat, b < e,
           \A c \in Begins(script) : c <= b \/ e <= c
    PROVE  Before(e) = Before(b) + 1 /\ Before(b) \in Nat
  <1> DEFINE S(k) == {c \in Begins(script) : c < k}
  <1>1. Len(script) \in Nat
    BY Positions
  <1>2. Begins(script) \subseteq 0 .. Len(script) - 1 /\ IsFiniteSet(0 .. Len(script) - 1)
    <2>1. Len(script) - 1 \in Int
      BY <1>1
    <2>2. IsFiniteSet(0 .. Len(script) - 1)
      BY <2>1, FS_Interval
    <2> QED
      BY <2>2 DEF Begins
  <1>3. IsFiniteSet(S(b))
    <2>1. S(b) \in SUBSET (0 .. Len(script) - 1)
      BY <1>2
    <2> QED
      BY <1>2, <2>1, FS_Subset
  <1>4. S(e) = S(b) \cup {b} /\ b \notin S(b)
    <2>1. \A c \in Begins(script) : c \in Int
      BY <1>1, <1>2
    <2> QED
      BY <2>1
  <1>5. Cardinality(S(b)) \in Nat
    BY <1>3, FS_CardinalityType
  <1>6. Cardinality(S(e)) = Cardinality(S(b)) + 1
    BY <1>3, <1>4, FS_AddElement
  <1> QED
    BY <1>5, <1>6 DEF Before

\* What the line end at processed + 2 adds to the head.
LEMMA LineRead ==
    ASSUME TypeOK, Begun, HeadOpen, state \in {"initial", "request"},
           processed + 2 <= received,
           script[processed + 1].t = "cr", script[processed + 2].t = "lf"
    PROVE  /\ \A k \in lineStart + 1 .. processed + 1 : ~LineEnds(script, begin, k)
           /\ LineEnds(script, begin, processed + 2)
           /\ BlankEnds(script, begin, processed + 2)
                  <=> state = "request" /\ processed = lineStart
           /\ \A k \in lineStart + 1 .. processed + 1 : ~BlankEnds(script, begin, k)
           /\ \A t : Announced(script, begin, processed + 2, t) =
                         Announced(script, begin, lineStart, t) \cup
                         {k \in {lineStart} : state = "request" /\ script[k + 1].t = t}
  <1>1. /\ {received, processed, lineStart, begin} \subseteq Nat /\ Len(script) \in Nat
        /\ begin <= lineStart /\ lineStart <= processed
        /\ processed + 2 <= Len(script)
    BY Positions
  <1>2. /\ \A i \in lineStart + 1 .. processed : script[i].t # "cr"
        /\ state = "initial" => lineStart = begin
        /\ state = "request" => LineEnds(script, begin, lineStart)
    BY DEF HeadOpen, Begun
  <1>3. \A k \in lineStart + 1 .. processed + 1 : ~LineEnds(script, begin, k)
    <2> SUFFICES ASSUME NEW k \in lineStart + 1 .. processed + 1,
                        LineEnds(script, begin, k)
                 PROVE  FALSE
      OBVIOUS
    <2>1. k \in Int /\ begin + 2 <= k /\ script[k - 1].t = "cr"
      BY <1>1 DEF LineEnds
    <2>2. k - 1 = lineStart
      <3>1. k - 1 \in lineStart + 1 .. processed \/ k - 1 = lineStart
        BY <1>1, <2>1
      <3> QED
        BY <1>2, <2>1, <3>1
    <2>3. state = "request" /\ script[lineStart].t = "lf"
      BY <1>1, <1>2, <2>1, <2>2 DEF LineEnds
    <2> QED
      BY <2>1, <2>2, <2>3
  <1>4. LineEnds(script, begin, processed + 2)
    <2>1. processed + 2 \in begin + 2 .. Len(script) /\ processed + 2 - 1 = processed + 1
      BY <1>1
    <2> QED
      BY <1>1, <2>1 DEF LineEnds
  <1>5. LineEnds(script, begin, processed) <=> state = "request" /\ processed = lineStart
    <2>1. CASE processed = lineStart
      BY <1>1, <1>2, <2>1 DEF LineEnds
    <2>2. CASE processed # lineStart
      BY <1>1, <1>3, <2>2
    <2> QED
      BY <2>1, <2>2
  <1>6. BlankEnds(script, begin, processed + 2)
            <=> state = "request" /\ processed = lineStart
    <2>1. processed + 2 - 2 = processed
      BY <1>1
    <2>2. LineEnds(script, begin, processed + 2 - 2) <=> LineEnds(script, begin, processed)
      BY <2>1, Zenon
    <2>3. BlankEnds(script, begin, processed + 2) <=>
              /\ LineEnds(script, begin, processed + 2 - 2)
              /\ LineEnds(script, begin, processed + 2)
      BY <1>1 DEF BlankEnds
    <2> QED
      BY <1>4, <1>5, <2>2, <2>3
  <1>7. \A k \in lineStart + 1 .. processed + 1 : ~BlankEnds(script, begin, k)
    BY <1>3 DEF BlankEnds
  <1>8. ASSUME NEW t
        PROVE  Announced(script, begin, processed + 2, t) =
                   Announced(script, begin, lineStart, t) \cup
                   {k \in {lineStart} : state = "request" /\ script[k + 1].t = t}
    <2>1. begin .. processed + 2 - 1 =
              (begin .. lineStart - 1) \cup {lineStart} \cup (lineStart + 1 .. processed + 1)
      BY <1>1
    <2>2. LineEnds(script, begin, lineStart) <=> state = "request"
      BY <1>1, <1>2 DEF LineEnds
    <2>3. \A k \in begin .. processed + 2 - 1 :
              LineEnds(script, begin, k) =>
                  k \in begin .. lineStart - 1 \/ (k = lineStart /\ state = "request")
      BY <1>3, <2>1, <2>2, Zenon
    <2>4. lineStart \in begin .. processed + 2 - 1
      BY <1>1
    <2>5. begin .. lineStart - 1 \subseteq begin .. processed + 2 - 1
      BY <2>1
    <2>6. \A k : k \in Announced(script, begin, processed + 2, t) <=>
                 \/ k \in Announced(script, begin, lineStart, t)
                 \/ k = lineStart /\ state = "request" /\ script[k + 1].t = t
      BY <1>1, <2>2, <2>3, <2>4, <2>5 DEF Announced
    <2> QED
      BY <2>6, Zenon
  <1> QED
    BY <1>3, <1>4, <1>6, <1>7, <1>8

\* Reading the body moves the count by as much as the position.
LEMMA BytesCounted ==
    ASSUME TypeOK, NEW n \in Nat, ReadBytes(n)
    PROVE  /\ remaining = None <=> remaining' = None
           /\ remaining # None => processed' + remaining' = processed + remaining
  <1>1. None \notin Nat /\ processed \in Nat /\ received' \in Nat /\ processed <= received'
    BY BufferMoves, Positions, ConnectionAssumption DEF ReadBytes
  <1>2. PICK left \in Nat : left = received' - processed
    <2>1. received' - processed \in Nat
      BY <1>1, MinusOf
    <2> QED
      BY <2>1
  <1>3. CASE remaining = None
    BY <1>3 DEF ReadBytes
  <1>4. CASE remaining # None
    <2>1. remaining \in Nat
      BY <1>4 DEF TypeOK
    <2>2. PICK got : /\ got = Min({n, left, remaining})
                     /\ processed' = processed + got /\ remaining' = remaining - got
      BY <1>2, <1>4 DEF ReadBytes
    <2>3. got \in {n, left, remaining} /\ got <= remaining
      <3>1. n \in Int /\ left \in Int /\ remaining \in Int
        BY <2>1
      <3> QED
        BY <2>2, <3>1, MinOfThree, Zenon
    <2>4. got \in Nat /\ remaining' \in Nat
      BY <1>2, <2>1, <2>2, <2>3
    <2> QED
      BY <1>1, <1>4, <2>1, <2>2, <2>4
  <1> QED
    BY <1>3, <1>4

\* A step out of the request leaves nothing to show.
LEMMA LeftStep ==
    ASSUME state' \notin {"initial", "request", "headers"}
    PROVE  InductiveInStep'
  BY DEF InductiveInStep, Waited, Outstanding, Unanswered, HeadOpen, HeadRead, BodyCounted

\* A step that only moves pc, outside of the handling, shows nothing new.
LEMMA QuietStep ==
    ASSUME InductiveInStep, pc \notin Handling \cup {"crashed"}, pc' \notin Handling,
           state' = state \/ state' \notin {"initial", "request", "headers"},
           UNCHANGED <<script, sent, processed, begin, lineStart, headers, answers>>
    PROVE  InductiveInStep'
  <1>1. CASE state' = state
    <2>1. Waited'
      BY <1>1 DEF InductiveInStep, Waited, Outstanding, Unanswered, Before, Handling
    <2>2. HeadOpen' /\ HeadRead'
      BY <1>1 DEF InductiveInStep, HeadOpen, HeadRead
    <2>3. BodyCounted'
      BY <1>1 DEF InductiveInStep, BodyCounted, Handling
    <2> QED
      BY <2>1, <2>2, <2>3 DEF InductiveInStep
  <1> QED
    BY <1>1, LeftStep

LEMMA InStepInit == Init => InductiveInStep
  <1> SUFFICES ASSUME Init PROVE InductiveInStep
    OBVIOUS
  <1>1. /\ script \in Scripts /\ sent = 0 /\ begin = 0 /\ lineStart = 0 /\ processed = 0
        /\ headers = {} /\ state = "initial" /\ pc = "rest" /\ answers = <<>>
    BY DEF Init
  <1>2. script \in Seq(Tokens) /\ Len(script) \in Nat
    BY <1>1, ConnectionAssumption
  <1>3. Waited
    <2>1. 0 \in Begins(script) \cup {Len(script)}
      BY <1>1, ClientAssumption
    <2>2. \A c \in Begins(script) : c \in Nat
      BY <1>2 DEF Begins
    <2>3. {c \in Begins(script) : c < 0} = {}
      BY <2>2
    <2>4. Before(0) = 0
      BY <2>3, FS_EmptySet DEF Before
    <2>5. Len(answers) = 0 /\ DOMAIN answers = {}
      BY <1>1
    <2> QED
      BY <1>1, <2>1, <2>2, <2>4, <2>5 DEF Waited, Outstanding, Unanswered
  <1>4. \A k \in begin .. lineStart : ~LineEnds(script, begin, k)
    BY <1>1, <1>2 DEF LineEnds
  <1>5. \A t : Announced(script, begin, lineStart, t) = {}
    BY <1>1 DEF Announced
  <1>6. HeadOpen /\ HeadRead /\ BodyCounted
    BY <1>1, <1>4, <1>5 DEF HeadOpen, HeadRead, BodyCounted, BlankEnds
  <1> QED
    BY <1>3, <1>6 DEF InductiveInStep

\* Enter, Abandon, Dispatch and ReadLineStops.
LEMMA QuietActions ==
    ASSUME Inductive, InductiveInStep, Enter \/ Abandon \/ Dispatch \/ ReadLineStops
    PROVE  InductiveInStep'
  <1>1. pc \in {"rest", "checks", "line"} /\ pc' \in {"rest", "checks", "line", "resolve"}
    BY DEF Enter, Abandon, Dispatch, ReadLineStops
  <1>2. UNCHANGED <<script, sent, processed, begin, lineStart, headers, answers>>
    BY DEF Enter, Abandon, Dispatch, ReadLineStops, client, buffer, request
  <1>3. state' = state \/ state' \notin {"initial", "request", "headers"}
    <2>1. CASE Enter
      BY <2>1, BufferMoves DEF Enter, Inductive
    <2>2. CASE ReadLineStops
      BY <2>2 DEF ReadLineStops, link
    <2>3. CASE Abandon \/ Dispatch
      BY <2>3, CloseMoves DEF Abandon, Dispatch, link
    <2> QED
      BY <2>1, <2>2, <2>3
  <1>4. pc \notin Handling \cup {"crashed"} /\ pc' \notin Handling
    BY <1>1 DEF Handling, Resources
  <1> QED
    BY <1>2, <1>3, <1>4, QuietStep

LEMMA InStepReadText ==
    ASSUME Inductive, InductiveInStep, ReadText
    PROVE  InductiveInStep'
  <1>1. /\ pc = "line" /\ processed' = processed + 1 /\ Next1 # "cr"
        /\ UNCHANGED <<script, sent, begin, lineStart, headers>>
    BY DEF ReadText, client, request
  <1>2. CASE RaiseError
    BY <1>2, LeftStep DEF RaiseError
  <1>3. CASE UNCHANGED <<link, answers, pc>>
    <2>1. UNCHANGED <<state, answers, pc>>
      BY <1>3 DEF link
    <2>2. state \in {"initial", "request"} /\ {processed, lineStart} \subseteq Nat
      BY <1>1, Positions DEF Inductive, Placed
    <2>3. Waited'
      BY <1>1, <2>1, <2>2 DEF InductiveInStep, Waited, Outstanding, Unanswered, Before
    <2>4. \A i \in lineStart + 1 .. processed' : script[i].t # "cr"
      <3>1. \A i \in lineStart + 1 .. processed + 1 :
                i \in lineStart + 1 .. processed \/ i = processed + 1
        BY <2>2
      <3>2. \A i \in lineStart + 1 .. processed : script[i].t # "cr"
        BY <2>2 DEF InductiveInStep, HeadOpen
      <3> QED
        BY <1>1, <3>1, <3>2 DEF Next1
    <2>5. HeadOpen'
      BY <1>1, <2>1, <2>4 DEF InductiveInStep, HeadOpen
    <2>6. HeadRead' /\ BodyCounted'
      BY <1>1, <2>1, <2>2 DEF InductiveInStep, HeadRead, BodyCounted
    <2> QED
      BY <2>3, <2>5, <2>6 DEF InductiveInStep
  <1> QED
    BY <1>2, <1>3 DEF ReadText

LEMMA InStepReadCrLf ==
    ASSUME Inductive, InductiveInStep, ReadCrLf
    PROVE  InductiveInStep'
  <1> DEFINE text  == SubSeq(script, lineStart + 1, processed)
             first == IF text = <<>> THEN [t |-> "empty"] ELSE Head(text)
  <1>1. /\ pc = "line" /\ Available > 1
        /\ script[processed + 1].t = "cr" /\ script[processed + 2].t = "lf"
        /\ processed' = processed + 2 /\ lineStart' = processed + 2
        /\ UNCHANGED <<script, sent, begin, keep, remaining, buffered>>
    BY DEF ReadCrLf, Next1, client, handling
  <1>2. /\ {received, processed, lineStart, begin} \subseteq Nat /\ Len(script) \in Nat
        /\ begin <= lineStart /\ lineStart <= processed /\ processed + 2 <= received
        /\ received <= Len(script)
        /\ script \in Seq(Tokens) /\ \A i \in 1 .. Len(script) : script[i] \in Tokens
    <2>1. /\ {received, processed, lineStart, begin, sent} \subseteq Nat
          /\ Len(script) \in Nat
          /\ begin <= lineStart /\ lineStart <= processed
          /\ received <= sent /\ sent <= Len(script)
          /\ script \in Seq(Tokens) /\ \A i \in 1 .. Len(script) : script[i] \in Tokens
      BY Positions DEF Inductive
    <2> QED
      BY <1>1, <2>1 DEF Available
  <1>3. state \in {"initial", "request"}
    BY <1>1 DEF Inductive, Placed
  <1>4. /\ \A k \in lineStart + 1 .. processed + 1 : ~LineEnds(script, begin, k)
        /\ LineEnds(script, begin, processed + 2)
        /\ BlankEnds(script, begin, processed + 2)
               <=> state = "request" /\ processed = lineStart
        /\ \A k \in lineStart + 1 .. processed + 1 : ~BlankEnds(script, begin, k)
        /\ \A t : Announced(script, begin, processed + 2, t) =
                      Announced(script, begin, lineStart, t) \cup
                      {k \in {lineStart} : state = "request" /\ script[k + 1].t = t}
    <2>1. TypeOK /\ Begun /\ HeadOpen
      BY DEF Inductive, InductiveInStep
    <2> QED
      BY <1>1, <1>2, <1>3, <2>1, LineRead
  <1>5. \A k \in begin .. processed + 1 : ~BlankEnds(script, begin, k)
    <2>1. \A k \in begin .. processed + 1 :
              k \in begin .. lineStart \/ k \in lineStart + 1 .. processed + 1
      BY <1>2
    <2> QED
      BY <1>3, <1>4, <2>1 DEF InductiveInStep, HeadOpen
  <1>6. IF processed = lineStart
           THEN text = <<>> /\ first.t = "empty" /\ script[lineStart + 1].t = "cr"
           ELSE text # <<>> /\ first = script[lineStart + 1] /\ first \in Tokens
    <2>1. CASE processed = lineStart
      <3>1. text = <<>>
        BY <1>2, <2>1
      <3> QED
        BY <1>1, <2>1, <3>1
    <2>2. CASE processed # lineStart
      <3>1. /\ lineStart + 1 \in 1 .. Len(script) /\ processed \in 1 .. Len(script)
            /\ lineStart + 1 <= processed
        BY <1>2, <2>2
      <3>2. text # <<>> /\ Head(text) = script[lineStart + 1]
        BY <1>2, <3>1, SubSeqOf
      <3> QED
        BY <1>2, <2>2, <3>1, <3>2
    <2> QED
      BY <2>1, <2>2
  <1>7. \/ /\ state = "initial" /\ first.t \in Resources
           /\ state' = "request" /\ pc' = "rest" /\ UNCHANGED <<headers, answers>>
        \/ /\ state = "request" /\ first.t \in Accepted
           /\ headers' = {h \in headers : Field(h.t) # Field(first.t)} \cup {first}
           /\ UNCHANGED <<state, pc, answers>>
        \/ /\ state = "request" /\ first.t = "empty"
           /\ state' = "headers" /\ pc' = "rest" /\ UNCHANGED <<headers, answers>>
        \/ state' = "error"
    BY DEF ReadCrLf, RaiseError, link
  <1>8. SUFFICES ASSUME state' # "error" PROVE InductiveInStep'
    BY LeftStep
  <1>9. answers' = answers /\ pc' \in {"rest", "line"}
        /\ state' \in {"initial", "request", "headers"}
    BY <1>1, <1>3, <1>7, <1>8
  <1>10. Waited'
    BY <1>1, <1>3, <1>9 DEF InductiveInStep, Waited, Outstanding, Unanswered, Before
  <1>11. HeadOpen'
    <2> SUFFICES ASSUME state' \in {"initial", "request"}
                 PROVE  /\ state' = "request"
                        /\ ~BlankEnds(script, begin, processed + 2)
      <3>1. lineStart' + 1 .. processed' = {}
        BY <1>1, <1>2
      <3>2. \A k \in begin .. processed + 2 : k \in begin .. processed + 1 \/ k = processed + 2
        BY <1>2
      <3> QED
        BY <1>1, <1>4, <1>5, <3>1, <3>2 DEF HeadOpen
    <2>1. state' = "request"
      BY <1>3, <1>7, <1>8
    <2>2. state = "request" => processed # lineStart
      BY <1>6, <1>7, <1>8, <2>1 DEF Accepted
    <2> QED
      BY <1>4, <2>1, <2>2
  <1>12. HeadRead'
    <2>1. CASE state = "initial"
      <3>1. headers' = {} /\ state' = "request"
        BY <1>7, <1>8, <2>1 DEF InductiveInStep, HeadOpen
      <3>2. lineStart = begin
        BY <2>1 DEF Inductive, Begun
      <3>3. Announced(script, begin, lineStart, "length") = {}
        BY <1>2, <3>2 DEF Announced
      <3>4. Announced(script, begin, processed + 2, "length") = {}
        BY <1>4, <2>1, <3>3
      <3> QED
        BY <1>1, <3>1, <3>4 DEF HeadRead
    <2>2. CASE state = "request" /\ first.t \in Accepted
      <3>1. /\ headers' = {h \in headers : Field(h.t) # Field(first.t)} \cup {first}
            /\ first = script[lineStart + 1] /\ state' = "request"
        BY <1>6, <1>7, <1>8, <2>2 DEF Accepted, Resources
      <3>2. \A t : Announced(script, begin, lineStart, t) \subseteq
                   Announced(script, begin, processed + 2, t)
        BY <1>4
      <3>3. lineStart \in Announced(script, begin, processed + 2, first.t)
        BY <1>4, <2>2, <3>1
      <3>4. \A h \in headers' : \E k \in Announced(script, begin, processed + 2, h.t) :
                h = script[k + 1]
        BY <3>1, <3>2, <3>3, <1>3 DEF InductiveInStep, HeadRead
      <3>5. Announced(script, begin, processed + 2, "length") # {} =>
                \E h \in headers' : h.t = "length"
        BY <1>3, <1>4, <2>2, <3>1 DEF InductiveInStep, HeadRead, Accepted, Field
      <3> QED
        BY <1>1, <3>1, <3>4, <3>5 DEF HeadRead
    <2>3. CASE state = "request" /\ first.t = "empty"
      <3>1. headers' = headers /\ state' = "headers" /\ processed = lineStart
        <4>1. headers' = headers /\ state' = "headers"
          BY <1>7, <1>8, <2>3 DEF Accepted
        <4>2. processed = lineStart
          BY <1>6, <2>3 DEF Tokens, Heads, Headers, Resources, Accepted
        <4> QED
          BY <4>1, <4>2
      <3>2. Announced(script, begin, processed + 2, "length") =
                Announced(script, begin, lineStart, "length")
        BY <1>1, <1>4, <3>1
      <3>3. \A t : Announced(script, begin, lineStart, t) \subseteq
                   Announced(script, begin, processed + 2, t)
        BY <1>4
      <3>4. HeadEnds(script, begin, processed + 2)
        <4>1. processed + 2 - 1 = processed + 1
          BY <1>2
        <4> QED
          BY <1>2, <1>4, <1>5, <2>3, <3>1, <4>1 DEF HeadEnds
      <3> QED
        BY <1>1, <1>3, <3>1, <3>2, <3>3, <3>4 DEF InductiveInStep, HeadRead
    <2> QED
      BY <1>3, <1>7, <1>8, <2>1, <2>2, <2>3
  <1>13. BodyCounted'
    BY <1>1, <1>9 DEF BodyCounted, Handling, Resources
  <1> QED
    BY <1>10, <1>11, <1>12, <1>13 DEF InductiveInStep

\* The handling begins at the end of the head, with what the head announced.
LEMMA InStepResolve ==
    ASSUME Inductive, InductiveInStep, Resolve
    PROVE  InductiveInStep'
  <1>1. /\ pc = "resolve" /\ pc' \in {"page", Resource.t}
        /\ keep' = \E h \in headers : h.t = "keep"
        /\ buffered' = keep'
        /\ remaining' = IF \E h \in headers : h.t = "length"
                           THEN (CHOOSE h \in headers : h.t = "length").n
                           ELSE None
        /\ UNCHANGED <<script, sent, state, processed, begin, lineStart, headers, answers>>
    BY DEF Resolve, client, link, buffer, request
  <1>2. state = "headers" /\ Resource.t \in Resources
    BY <1>1 DEF Inductive, Placed, Begun
  <1>3. pc' \in Handling /\ pc' \notin {"discard", "end"}
    BY <1>1, <1>2 DEF Handling, Resources
  <1>4. pc \notin Handling
    BY <1>1 DEF Handling, Resources
  <1>5. Waited'
    BY <1>1, <1>2, <1>3 DEF InductiveInStep, Waited, Outstanding, Unanswered, Before
  <1>6. HeadOpen' /\ HeadRead'
    BY <1>1, <1>2 DEF InductiveInStep, HeadOpen, HeadRead
  <1>7. processed = lineStart
    BY <1>1, <1>2, <1>4 DEF InductiveInStep, BodyCounted
  <1>8. CASE \E h \in headers : h.t = "length"
    <2>1. PICK l \in headers : l.t = "length" /\ remaining' = l.n
      BY <1>1, <1>8
    <2>2. l.n \in Nat /\ processed \in Nat
      BY Positions DEF Inductive, TypeOK, Tokens
    <2>3. processed' + remaining' = lineStart' + l.n /\ remaining' # None
      BY <1>1, <1>7, <2>1, <2>2, ConnectionAssumption
    <2>4. keep' \/ buffered' => \E h \in headers' : h.t = "keep"
      BY <1>1
    <2>5. BodyCounted'
      BY <1>1, <1>3, <2>1, <2>3, <2>4 DEF BodyCounted
    <2> QED
      BY <1>5, <1>6, <2>5 DEF InductiveInStep
  <1>9. CASE ~\E h \in headers : h.t = "length"
    <2>1. remaining' = None
      BY <1>1, <1>9
    <2>2. keep' \/ buffered' => \E h \in headers' : h.t = "keep"
      BY <1>1
    <2>3. BodyCounted'
      BY <1>1, <1>3, <1>9, <2>1, <2>2 DEF BodyCounted
    <2> QED
      BY <1>5, <1>6, <2>3 DEF InductiveInStep
  <1> QED
    BY <1>8, <1>9

\* Reading the body leaves the request alone, and ends when it is all read.
LEMMA InStepBody ==
    ASSUME Inductive, InductiveInStep, pc \in Handling, pc' \in Handling,
           pc' \in {"discard", "end"} <=> pc \in {"discard", "end"},
           pc' = "end" => remaining' \in {0, None},
           state' = state \/ state' = "error",
           UNCHANGED <<script, sent, begin, lineStart, headers, keep, buffered, answers>>,
           remaining = None <=> remaining' = None,
           remaining # None => processed' + remaining' = processed + remaining
    PROVE  InductiveInStep'
  <1>1. CASE state' = "error"
    BY <1>1, LeftStep
  <1>2. CASE state' = state
    <2>1. state = "headers" \/ state = "error"
      BY DEF Inductive, Placed
    <2>2. Waited'
      BY <1>2, <2>1 DEF InductiveInStep, Waited, Outstanding, Unanswered, Before,
         Handling, Resources
    <2>3. HeadOpen' /\ HeadRead'
      BY <1>2, <2>1 DEF InductiveInStep, HeadOpen, HeadRead
    <2>4. BodyCounted'
      BY <1>2 DEF InductiveInStep, BodyCounted
    <2> QED
      BY <2>2, <2>3, <2>4 DEF InductiveInStep
  <1> QED
    BY <1>1, <1>2

LEMMA InStepParseForm ==
    ASSUME Inductive, InductiveInStep, ParseForm
    PROVE  InductiveInStep'
  <1>1. /\ pc = "form" /\ pc' \in {"form", "answer"}
        /\ UNCHANGED <<script, sent, begin, lineStart, headers, keep, buffered, answers>>
    BY DEF ParseForm, client, request
  <1>2. pc \in Handling /\ pc' \in Handling
    BY <1>1 DEF Handling, Resources
  <1>3. state' = state \/ state' = "error"
    <2>1. UpdateBuffer \/ UNCHANGED <<link, received>>
      BY DEF ParseForm, RequestComplete, ReadBytes
    <2> QED
      BY <2>1, BufferMoves DEF Inductive, link
  <1>4. /\ remaining = None <=> remaining' = None
        /\ remaining # None => processed' + remaining' = processed + remaining
    <2>1. CASE UNCHANGED <<processed, remaining>>
      BY <2>1
    <2>2. CASE ReadBytes(IF remaining = None THEN Chunk ELSE remaining)
      <3>1. (IF remaining = None THEN Chunk ELSE remaining) \in Nat
        BY ConnectionAssumption DEF Inductive, TypeOK
      <3> QED
        BY <2>2, <3>1, BytesCounted DEF Inductive
    <2> QED
      BY <2>1, <2>2 DEF ParseForm
  <1> QED
    BY <1>1, <1>2, <1>3, <1>4, InStepBody

LEMMA InStepDiscard ==
    ASSUME Inductive, InductiveInStep, Discard
    PROVE  InductiveInStep'
  <1>1. /\ pc \in {"command", "discard"}
        /\ UNCHANGED <<script, sent, begin, lineStart, headers, keep, buffered, answers>>
    BY DEF Discard, client, request
  <1>2. \/ /\ RequestComplete /\ UNCHANGED <<processed, remaining>>
           /\ pc' = IF pc = "command" THEN "answer" ELSE "end"
        \/ ReadBytes(Unit) /\ UNCHANGED pc
    BY DEF Discard
  <1>3. /\ pc \in Handling /\ pc' \in Handling
        /\ pc' \in {"discard", "end"} <=> pc \in {"discard", "end"}
    BY <1>1, <1>2 DEF Handling, Resources
  <1>4. pc' = "end" => remaining' \in {0, None}
    BY <1>1, <1>2 DEF RequestComplete
  <1>5. state' = state \/ state' = "error"
    <2>1. UpdateBuffer \/ UNCHANGED <<link, received>>
      BY <1>2 DEF RequestComplete, ReadBytes
    <2> QED
      BY <2>1, BufferMoves DEF Inductive, link
  <1>6. /\ remaining = None <=> remaining' = None
        /\ remaining # None => processed' + remaining' = processed + remaining
    BY <1>2, BytesCounted, ConnectionAssumption DEF Inductive
  <1> QED
    BY <1>1, <1>3, <1>4, <1>5, <1>6, InStepBody

\* An answer that stays in the cache is still to come for the client.
LEMMA InStepAnswer ==
    ASSUME Inductive, InductiveInStep, ReadPage \/ Answer
    PROVE  InductiveInStep'
  <1>1. /\ pc \in {"page", "answer"} /\ pc' \in {"answer", "discard"}
        /\ keep' \/ buffered' => keep \/ buffered
        /\ UNCHANGED <<script, sent, state, processed, begin, lineStart, headers,
                       remaining>>
    <2>1. keep' \/ buffered' => keep \/ buffered
      BY Zenon DEF ReadPage, Answer, handling
    <2> QED
      BY <2>1 DEF ReadPage, Answer, client, link, buffer, request, handling
  <1>2. state \notin {"initial", "request"} /\ pc \in Handling /\ pc' \in Handling
        /\ pc \notin {"discard", "end"}
    BY <1>1 DEF Inductive, Placed, Handling, Resources
  <1>3. Waited'
    <2> SUFFICES ASSUME state = "headers", pc' = "discard" => keep'
                 PROVE  answers' = answers
      BY <1>1, <1>2 DEF InductiveInStep, Waited, Outstanding, Unanswered, Before
    <2> QED
      BY DEF ReadPage, Answer
  <1>4. HeadOpen' /\ HeadRead'
    BY <1>1, <1>2 DEF InductiveInStep, HeadOpen, HeadRead
  <1>5. BodyCounted'
    BY <1>1, <1>2 DEF InductiveInStep, BodyCounted
  <1> QED
    BY <1>3, <1>4, <1>5 DEF InductiveInStep

\* The board stops with the request it was at.
LEMMA InStepUpgrade ==
    ASSUME InductiveInStep, Upgrade
    PROVE  InductiveInStep'
  <1>1. /\ pc = "end" /\ pc' = "crashed"
        /\ UNCHANGED <<script, sent, state, processed, begin, lineStart, headers>>
    BY DEF Upgrade, client, link, buffer, request
  <1>2. Waited' /\ BodyCounted'
    BY <1>1 DEF Waited, Outstanding, Unanswered, BodyCounted, Handling, Resources
  <1>3. HeadOpen' /\ HeadRead'
    BY <1>1 DEF InductiveInStep, HeadOpen, HeadRead
  <1> QED
    BY <1>2, <1>3 DEF InductiveInStep

\* The next request begins where the client begins it.
LEMMA InStepKeepAlive ==
    ASSUME Inductive, InductiveInStep, KeepAlive
    PROVE  InductiveInStep'
  <1>1. /\ pc = "end" /\ ~Closed /\ keep /\ pc' = "rest" /\ state' = "initial"
        /\ headers' = {} /\ begin' = processed /\ lineStart' = processed
        /\ answers' = Append(answers, [to |-> begin, framed |-> TRUE])
        /\ UNCHANGED <<script, sent, processed>>
    BY DEF KeepAlive, client, buffer
  <1>2. state = "headers" /\ begin < Len(script) /\ pc \in Handling
    BY <1>1 DEF Inductive, Placed, Begun, Handling, Closed
  <1>3. /\ {sent, processed, lineStart, begin} \subseteq Nat /\ Len(script) \in Nat
        /\ begin <= lineStart /\ lineStart <= processed
        /\ processed <= sent /\ sent <= Len(script) /\ script \in Seq(Tokens)
    <2>1. /\ {sent, received, processed, lineStart, begin} \subseteq Nat
          /\ Len(script) \in Nat /\ script \in Seq(Tokens)
          /\ begin <= lineStart /\ lineStart <= processed
          /\ processed <= received /\ received <= sent /\ sent <= Len(script)
      BY Positions DEF Inductive
    <2> QED
      BY <2>1
  <1>4. /\ begin \in Begins(script)
        /\ Len(answers) = Before(begin)
        /\ \A i \in DOMAIN answers : Before(answers[i].to) = i - 1
        /\ \A c \in Begins(script) : begin < c => sent <= c
    BY <1>1, <1>2, <1>3 DEF InductiveInStep, Waited, Outstanding, Unanswered
  <1>5. HeadEnds(script, begin, lineStart)
    BY <1>2 DEF InductiveInStep, HeadRead
  <1>6. Announced(script, begin, lineStart, "keep") # {}
    <2>1. PICK h \in headers : h.t = "keep"
      BY <1>1, <1>2 DEF InductiveInStep, BodyCounted
    <2> QED
      BY <1>2, <2>1 DEF InductiveInStep, HeadRead
  <1>7. lineStart \in 1 .. Len(script)
    BY <1>3, <1>5 DEF HeadEnds, BlankEnds, LineEnds
  <1>8. PICK e \in Begins(script) \cup {Len(script)} :
            /\ \A c \in Begins(script) : c <= begin \/ e <= c
            /\ Announced(script, begin, lineStart, "length") = {} => e = lineStart
            /\ \A k \in Announced(script, begin, lineStart, "length") :
                   e = lineStart + script[k + 1].n
    BY <1>4, <1>5, <1>6, <1>7, ClientAssumption DEF Inductive, TypeOK
  <1>9. e \in Nat /\ begin < lineStart
    BY <1>3, <1>5, <1>7 DEF Begins, HeadEnds, BlankEnds, LineEnds
  <1>10. processed = e
    <2>1. CASE remaining = None
      <3>1. \A h \in headers : h.t # "length"
        BY <1>2, <2>1 DEF InductiveInStep, BodyCounted
      <3>2. e = lineStart
        BY <1>2, <1>8, <3>1 DEF InductiveInStep, HeadRead
      <3>3. sent <= e
        BY <1>3, <1>4, <1>8, <1>9, <3>2
      <3> QED
        BY <1>3, <1>9, <3>2, <3>3
    <2>2. CASE remaining # None
      <3>1. remaining = 0
        BY <1>1, <1>2, <2>2 DEF InductiveInStep, BodyCounted
      <3>2. PICK h \in headers : h.t = "length" /\ processed + remaining = lineStart + h.n
        BY <1>2, <2>2 DEF InductiveInStep, BodyCounted
      <3>3. PICK k \in Announced(script, begin, lineStart, "length") : h = script[k + 1]
        BY <1>2, <3>2 DEF InductiveInStep, HeadRead
      <3> QED
        BY <1>3, <1>8, <1>9, <3>1, <3>2, <3>3
    <2> QED
      BY <2>1, <2>2
  <1>11. begin < e
    BY <1>3, <1>9, <1>10
  <1>12. Before(e) = Before(begin) + 1 /\ Before(begin) \in Nat
    BY <1>4, <1>8, <1>9, <1>11, NextBefore DEF Inductive
  <1>13. Waited'
    <2>1. answers \in Seq(Answers)
      BY DEF Inductive, TypeOK, Answers
    <2>2. [to |-> begin, framed |-> TRUE] \in Answers
      BY <1>3 DEF Answers
    <2>3. /\ Len(answers') = Len(answers) + 1
          /\ DOMAIN answers' = 1 .. Len(answers) + 1 /\ DOMAIN answers = 1 .. Len(answers)
          /\ \A i \in DOMAIN answers : answers'[i] = answers[i]
          /\ answers'[Len(answers) + 1].to = begin
      BY <1>1, <2>1, <2>2
    <2>4. \A i \in DOMAIN answers' : Before(answers'[i].to) = i - 1
      <3>1. \A i \in DOMAIN answers' : i \in DOMAIN answers \/ i = Len(answers) + 1
        BY <1>4, <1>12, <2>3
      <3>2. \A i \in DOMAIN answers : Before(answers'[i].to) = i - 1
        BY <1>4, <2>3, Zenon
      <3>3. ASSUME NEW i \in DOMAIN answers' PROVE Before(answers'[i].to) = i - 1
        <4>1. CASE i \in DOMAIN answers
          BY <3>2, <4>1
        <4>2. CASE i = Len(answers) + 1
          <5>1. answers'[i].to = begin
            BY <2>3, <4>2
          <5>2. Before(answers'[i].to) = Before(begin)
            BY <5>1, Zenon
          <5> QED
            BY <1>4, <1>12, <4>2, <5>2
        <4> QED
          BY <3>1, <4>1, <4>2
      <3> QED
        BY <3>3
    <2>5. Len(answers') = Before(e)
      BY <1>4, <1>12, <2>3
    <2>6. \A c \in Begins(script) : e < c => sent <= c
      <3>1. \A c \in Begins(script) : c \in Nat
        BY <1>3 DEF Begins
      <3> QED
        BY <1>4, <1>9, <1>3, <1>11, <3>1
    <2> QED
      BY <1>1, <1>8, <1>10, <2>4, <2>5, <2>6 DEF Waited, Before
  <1>14. HeadOpen'
    <2>1. /\ lineStart' + 1 .. processed' = {}
          /\ \A k \in begin' .. lineStart' : ~LineEnds(script, begin', k)
      BY <1>1, <1>3 DEF LineEnds
    <2> QED
      BY <1>1, <2>1 DEF HeadOpen, BlankEnds
  <1>15. HeadRead' /\ BodyCounted'
    <2>1. Announced(script', begin', lineStart', "length") = {}
      BY <1>1, <1>3 DEF Announced
    <2> QED
      BY <1>1, <2>1 DEF HeadRead, BodyCounted
  <1> QED
    BY <1>13, <1>14, <1>15 DEF InductiveInStep

\* A client that still waits for an answer does not begin another request.
LEMMA InStepSend ==
    ASSUME Inductive, InductiveInStep, Send
    PROVE  InductiveInStep'
  <1>1. /\ sent' = sent + 1 /\ (sent \in Begins(script) => Len(answers) = Before(sent))
        /\ UNCHANGED <<script, state, processed, begin, lineStart, headers, pc, keep,
                       remaining, buffered, answers>>
    BY DEF Send, link, buffer, request, handling
  <1>2. {sent, begin} \subseteq Nat /\ Len(script) \in Nat
    BY Positions DEF Inductive
  <1>3. Waited'
    <2> SUFFICES ASSUME Outstanding, NEW c \in Begins(script), begin < c
                 PROVE  sent + 1 <= c
      BY <1>1 DEF InductiveInStep, Waited, Outstanding, Unanswered, Before
    <2>1. sent <= c /\ c \in Nat /\ c < Len(script)
      BY <1>2 DEF InductiveInStep, Waited, Begins
    <2>2. begin \in Begins(script) /\ Len(answers) = Before(begin)
      BY <1>2, <2>1 DEF InductiveInStep, Waited
    <2>3. sent # c
      <3> SUFFICES ASSUME sent = c PROVE FALSE
        OBVIOUS
      <3>1. Before(c) = Before(begin)
        BY <1>1, <2>2
      <3>2. \A d \in Begins(script) : d <= begin \/ c <= d
        <4>1. \A d \in Begins(script) : d \in Nat
          BY <1>2 DEF Begins
        <4>2. \A d \in Begins(script) : begin < d => sent <= d
          BY DEF InductiveInStep, Waited
        <4> QED
          BY <1>2, <4>1, <4>2
      <3>3. Before(c) = Before(begin) + 1 /\ Before(begin) \in Nat
        BY <2>1, <2>2, <3>2, NextBefore DEF Inductive
      <3> QED
        BY <3>1, <3>3
    <2> QED
      BY <1>2, <2>1, <2>3
  <1>4. HeadOpen' /\ HeadRead' /\ BodyCounted'
    BY <1>1 DEF InductiveInStep, HeadOpen, HeadRead, BodyCounted
  <1> QED
    BY <1>3, <1>4 DEF InductiveInStep

LEMMA InStepOutside ==
    ASSUME InductiveInStep, Leave \/ Silence \/ ShutdownOverdue \/ UNCHANGED vars
    PROVE  InductiveInStep'
  <1>1. UNCHANGED <<script, sent, state, processed, begin, lineStart, headers, pc, keep,
                    remaining, buffered, answers>>
    BY DEF Leave, Silence, ShutdownOverdue, vars, client, link, buffer, request, handling
  <1>2. Waited'
    BY <1>1 DEF InductiveInStep, Waited, Outstanding, Unanswered, Before
  <1>3. HeadOpen' /\ HeadRead' /\ BodyCounted'
    BY <1>1 DEF InductiveInStep, HeadOpen, HeadRead, BodyCounted
  <1> QED
    BY <1>2, <1>3 DEF InductiveInStep

LEMMA InStepNext ==
    ASSUME Inductive, InductiveInStep, [Next]_vars
    PROVE  InductiveInStep'
  <1>1. CASE ReadCrOnly
    BY <1>1, InStepOutside DEF ReadCrOnly
  <1>2. CASE ReadCrText \/ Finish
    BY <1>2, LeftStep DEF ReadCrText, RaiseError, Finish
  <1>3. CASE FinishClosed
    <2>1. state' \in {"closed", "error"}
      BY <1>3 DEF FinishClosed, Closed, link
    <2> QED
      BY <2>1, LeftStep
  <1> QED
    BY <1>1, <1>2, <1>3, QuietActions, InStepReadText, InStepReadCrLf, InStepResolve,
       InStepParseForm, InStepDiscard, InStepAnswer, InStepUpgrade,
       InStepKeepAlive, InStepSend,
       InStepOutside DEF Next, Loop, ReadLine, Handle

-----------------------------------------------------------------------------
(* The return of loop() *)

\* A body that is read moves on as long as something of it is there.
LEMMA BytesMove ==
    ASSUME TypeOK, NEW n \in Nat \ {0}, ReadBytes(n), remaining # 0
    PROVE  \/ processed < processed'
           \/ processed' = processed /\ received' = processed
  <1>1. processed \in Nat /\ received' \in Nat /\ processed <= received'
    BY BufferMoves, Positions DEF ReadBytes
  <1>2. PICK left \in Nat : left = received' - processed
    <2>1. received' - processed \in Nat
      BY <1>1, MinusOf
    <2> QED
      BY <2>1
  <1>3. PICK got \in {n, left, remaining} : processed' = processed + got /\ got \in Nat
    <2>1. CASE remaining = None
      <3>1. processed' = processed + Min({n, left})
        BY <1>2, <2>1 DEF ReadBytes
      <3>2. Min({n, left}) \in {n, left} /\ Min({n, left}) \in Nat
        BY <1>2, MinOfTwo
      <3> QED
        BY <3>1, <3>2
    <2>2. CASE remaining # None
      <3>1. remaining \in Nat
        BY <2>2 DEF TypeOK
      <3>2. processed' = processed + Min({n, left, remaining})
        BY <1>2, <2>2 DEF ReadBytes
      <3>3. Min({n, left, remaining}) \in {n, left, remaining}
        <4>1. n \in Int /\ left \in Int /\ remaining \in Int
          BY <3>1
        <4> QED
          BY <4>1, MinOfThree, Zenon
      <3> QED
        BY <2>2, <3>1, <3>2, <3>3
    <2> QED
      BY <2>1, <2>2
  <1>4. CASE got = 0
    <2>1. left = 0
      BY <1>3, <1>4
    <2>2. received' - processed = 0
      BY <1>2, <2>1
    <2>3. received' = processed
      BY <1>1, <2>2, MinusZero
    <2>4. processed' = processed
      BY <1>1, <1>3, <1>4
    <2> QED
      BY <2>3, <2>4
  <1>5. CASE got # 0
    BY <1>1, <1>3, <1>5
  <1> QED
    BY <1>4, <1>5

Nearer == /\ script' = script /\ processed' \in processed .. Len(script)
          /\ pc' \in DOMAIN Rank
          /\ processed + Rank[pc'] < processed' + Rank[pc]

LEMMA NearerLeft ==
    ASSUME TypeOK, Nearer
    PROVE  Left' < Left
  <1>1. processed \in Nat /\ Len(script) \in Nat
    BY Positions
  <1>2. pc \in DOMAIN Rank
    BY DEF TypeOK, Resources, Rank
  <1>3. Rank[pc] \in Nat /\ Rank[pc'] \in Nat
    BY <1>2 DEF Nearer, Rank
  <1>4. Left = Len(script) - processed + Rank[pc]
    BY DEF Left
  <1>5. Left' = Len(script) - processed' + Rank[pc']
    BY DEF Left, Nearer, Rank
  <1> QED
    BY <1>1, <1>3, <1>4, <1>5 DEF Nearer

\* One step of loop() after another.
LEMMA LoopStep ==
    ASSUME Inductive, Inductive', Loop, pc # "rest"
    PROVE  \/ Left' < Left
           \/ vars' = vars
           \/ /\ pc \in {"command", "discard"} /\ remaining \notin {0, None}
              /\ Available' = 0 /\ UNCHANGED <<pc, processed>>
  <1>1. /\ TypeOK /\ TypeOK' /\ Begun /\ Placed
    BY DEF Inductive
  <1>2. /\ {processed, received} \subseteq Nat /\ Len(script) \in Nat
        /\ processed <= received /\ received <= Len(script)
        /\ {Chunk, Unit} \subseteq Nat \ {0} /\ None # 0
    BY <1>1, Positions, ConnectionAssumption
  <1>3. script' = script
    BY DEF Loop, ReadLine, Handle, Enter, Abandon, Dispatch, ReadLineStops, ReadText,
       ReadCrOnly, ReadCrText, ReadCrLf, Resolve, ParseForm, Discard, ReadPage, Answer,
       Upgrade, Finish, KeepAlive, FinishClosed, vars, client
  <1>4. processed' \in Nat /\ processed' <= Len(script)
    <2>1. /\ received' \in 0 .. sent' /\ processed' \in 0 .. received'
          /\ sent' \in 0 .. Len(script)
      BY <1>1, <1>3 DEF TypeOK
    <2> QED
      BY <1>2, <2>1
  <1>5. \/ Nearer
        \/ vars' = vars
        \/ /\ pc \in {"command", "discard"} /\ remaining \notin {0, None}
           /\ Available' = 0 /\ UNCHANGED <<pc, processed>>
    <2>1. CASE Abandon \/ Dispatch \/ ReadLineStops \/ ReadCrText \/ ReadPage \/ Answer
               \/ Upgrade \/ Finish \/ KeepAlive \/ FinishClosed
      <3>1. /\ processed' = processed
            /\ \/ pc = "checks" /\ pc' \in {"rest", "line", "resolve"}
               \/ pc = "line" /\ pc' = "rest"
               \/ pc = "page" /\ pc' = "answer"
               \/ pc = "answer" /\ pc' = "discard"
               \/ pc = "end" /\ pc' \in {"rest", "crashed"}
        BY <2>1 DEF Abandon, Dispatch, ReadLineStops, ReadCrText, ReadPage, Answer,
           Upgrade, Finish, KeepAlive, FinishClosed, buffer
      <3> QED
        BY <1>2, <1>3, <3>1 DEF Nearer, Rank
    <2>2. CASE ReadText \/ ReadCrLf
      <3>1. /\ processed' \in {processed + 1, processed + 2}
            /\ pc = "line" /\ pc' \in {"line", "rest"}
        BY <2>2 DEF ReadText, ReadCrLf
      <3> QED
        BY <1>2, <1>3, <1>4, <3>1 DEF Nearer, Rank
    <2>3. CASE Resolve
      <3>1. pc = "resolve" /\ processed' = processed /\ pc' \in {"page", Resource.t}
        BY <2>3 DEF Resolve, buffer
      <3>2. pc' \in Resources
        BY <1>1, <3>1 DEF Placed, Begun, Resources
      <3> QED
        BY <1>2, <1>3, <3>1, <3>2 DEF Nearer, Rank, Resources
    <2>4. CASE ParseForm
      <3>1. CASE UNCHANGED processed /\ pc' = "answer"
        BY <1>2, <1>3, <2>4, <3>1 DEF Nearer, Rank, ParseForm
      <3>2. CASE /\ remaining # 0
                 /\ ReadBytes(IF remaining = None THEN Chunk ELSE remaining)
                 /\ pc' = IF processed' = processed THEN "answer" ELSE "form"
        <4>1. (IF remaining = None THEN Chunk ELSE remaining) \in Nat \ {0}
          BY <1>1, <1>2, <3>2 DEF TypeOK
        <4>2. processed < processed' \/ processed' = processed
          BY <1>1, <3>2, <4>1, BytesMove
        <4> QED
          BY <1>2, <1>3, <1>4, <2>4, <3>2, <4>2 DEF Nearer, Rank, ParseForm
      <3> QED
        BY <2>4, <3>1, <3>2 DEF ParseForm
    <2>5. CASE Discard
      <3>1. CASE UNCHANGED processed /\ pc' = IF pc = "command" THEN "answer" ELSE "end"
        BY <1>2, <1>3, <2>5, <3>1 DEF Nearer, Rank, Discard
      <3>2. CASE /\ remaining # 0 /\ ReadBytes(Unit) /\ UNCHANGED pc
                 /\ remaining = None => processed' > processed
        <4>1. processed < processed' \/ (processed' = processed /\ received' = processed)
          BY <1>1, <1>2, <3>2, BytesMove
        <4>2. CASE processed < processed'
          BY <1>2, <1>3, <1>4, <2>5, <3>2, <4>2 DEF Nearer, Rank, Discard
        <4>3. CASE processed' = processed /\ received' = processed
          <5>1. remaining # None /\ Available' = 0
            BY <1>2, <3>2, <4>3 DEF Available
          <5> QED
            BY <2>5, <3>2, <4>3, <5>1 DEF Discard
        <4> QED
          BY <4>1, <4>2, <4>3
      <3> QED
        BY <2>5, <3>1, <3>2 DEF Discard
    <2>6. CASE ReadCrOnly
      BY <2>6 DEF ReadCrOnly
    <2>7. ~Enter
      BY DEF Enter
    <2> QED
      BY <2>1, <2>2, <2>3, <2>4, <2>5, <2>6, <2>7 DEF Loop, ReadLine, Handle
  <1> QED
    BY <1>1, <1>5, NearerLeft

-----------------------------------------------------------------------------
(* Theorems *)

THEOREM InductiveInvariant == Spec => []Inductive
  <1>1. Init => Inductive
    BY InitHolds
  <1>2. Inductive /\ [Next]_vars => Inductive'
    BY NextStep
  <1> QED
    BY <1>1, <1>2, PTL DEF Spec

\* The receive buffer of HTTPConnection stays inside what the client has sent
\* and holds at most HTTPS_CONNECTION_DATA_CHUNK_SIZE, whatever is sent.
THEOREM TypeCorrect == Spec => []TypeOK
  <1>1. Inductive => TypeOK
    BY DEF Inductive
  <1> QED
    BY <1>1, InductiveInvariant, PTL

\* For any scripts and any cache size, a connection goes on only after answers
\* whose end the client can see.
THEOREM KeptOnlyFramed == Spec => []KeptIsFramed
  <1>1. Inductive => KeptIsFramed
    BY DEF Inductive
  <1> QED
    BY <1>1, InductiveInvariant, PTL

\* For any scripts, the board stops in the handling of a request only after the
\* client's network has failed or when the request asked for a WebSocket.
THEOREM CrashIsExplained == Spec => []CrashExplained
  <1>1. Inductive => CrashExplained
    BY DEF Inductive
  <1> QED
    BY <1>1, InductiveInvariant, PTL

\* For any well-behaved clients, whatever they send: the connection begins a
\* request only where the client began one, after one answer to each before it.
THEOREM StaysInStep == Spec => []InStep
  <1>1. Init => InductiveInStep
    BY InStepInit
  <1>2. Inductive /\ InductiveInStep /\ [Next]_vars => InductiveInStep'
    BY InStepNext
  <1>3. InductiveInStep => InStep
    BY DEF InductiveInStep, Waited, Outstanding, InStep
  <1> QED
    BY <1>1, <1>2, <1>3, InductiveInvariant, PTL DEF Spec

\* For any scripts, loop() comes back after finitely many steps, but for the two
\* loops that wait in place: each other step of it has less left to do.
THEOREM LoopComesBack == Spec => LoopProgresses
  <1>1. Inductive /\ Inductive' /\ [Next]_vars =>
            [Loop /\ pc # "rest" =>
                 \/ Left' < Left
                 \/ /\ pc \in {"command", "discard"} /\ remaining \notin {0, None}
                    /\ Available' = 0 /\ UNCHANGED <<pc, processed>>]_vars
    BY LoopStep
  <1> QED
    BY <1>1, InductiveInvariant, PTL DEF Spec, LoopProgresses
=============================================================================
