--------------------------- MODULE HttpConnection ---------------------------
(***************************************************************************)
(* One connection of lib/esp32_https_server, from accept() to its end, and *)
(* the client at the other end of it.                                      *)
(*                                                                         *)
(* The client's bytes are tokens: a piece of text (a whole request line or *)
(* header, or padding that makes a line longer), a carriage return, a line *)
(* feed, a piece of a body.  The board's positions in what the client      *)
(* sends are absolute offsets, so its receive buffer holds the tokens      *)
(* processed + 1 .. received, and the text of the line it is reading       *)
(* lineStart + 1 .. processed.                                             *)
(*                                                                         *)
(* pc is where loop() of this connection is, or "rest" between two calls;  *)
(* between two steps of the board the client and the clock may move.       *)
(***************************************************************************)
EXTENDS Naturals, Sequences, FiniteSets, FiniteSetsExt

CONSTANTS
    Scripts,        \* what a client may send over one connection
    Chunk,          \* HTTPS_CONNECTION_DATA_CHUNK_SIZE, in tokens
    RequestLimit,   \* HTTPS_REQUEST_MAX_REQUEST_LENGTH, in tokens
    HeaderLimit,    \* HTTPS_REQUEST_MAX_HEADER_LENGTH, in tokens
    CacheSize,      \* HTTPS_KEEPALIVE_CACHESIZE
    Unit,           \* what discardRequestBody reads at a time
    None            \* no Content-Length

\* The resources by what their handlers do: a page reads no body, a form
\* parses it, a command discards it first; n is the size of the answer.  "upgrade"
\* stands for the headers with which a GET asks for a WebSocket.
Resources == {"page", "form", "command"}
Heads     == Resources \cup {"garbled"}
Accepted  == {"length", "keep", "upgrade"}
Headers   == Accepted \cup {"malformed"}
Tokens    == [t : Heads \cup Headers \cup {"pad", "cr", "lf", "body"}, n : Nat]

ASSUME ConnectionAssumption ==
    /\ \A s \in Scripts : s \in Seq(Tokens)
    /\ {Chunk, Unit} \subseteq Nat \ {0}
    /\ {RequestLimit, HeaderLimit, CacheSize} \subseteq Nat
    /\ None \notin Nat

VARIABLES
    script, sent, peer,                     \* the client
    secure, state, gone, idle, overdue,     \* the connection
    received, processed,                    \* the receive buffer
    begin, lineStart, headers,              \* the request
    pc, keep, remaining, buffered,          \* its handling
    answers                                 \* what was written to the socket

client   == <<script, sent, peer>>
link     == <<secure, state, gone, idle, overdue>>
buffer   == <<received, processed>>
request  == <<begin, lineStart, headers>>
handling == <<keep, remaining, buffered>>
vars     == <<client, link, buffer, request, pc, handling, answers>>

States == {"initial", "request", "headers", "body", "closing", "closed",
           "error"}

Closed    == state \in {"closed", "error"}
Available == received - processed
Next1     == script[processed + 1].t
Resource  == script[begin + 1]

\* checkWebsocket()
Upgrading == \E h \in headers : h.t = "upgrade"

-----------------------------------------------------------------------------
(* The connection's helpers *)

\* The plain connection closes at once.  TLS waits for the client's close
\* notify until HTTPS_SHUTDOWN_TIMEOUT, then gives up with an error; after an
\* error it waits for nothing.
CloseConnection ==
    \/ /\ state' = IF state = "error" THEN "error" ELSE "closed"
       /\ UNCHANGED overdue
    \/ /\ secure /\ state # "error" /\ overdue
       /\ state' = "error"
       /\ UNCHANGED overdue
    \/ /\ secure /\ state # "error" /\ ~overdue
       /\ state' = "closing"
       /\ UNCHANGED overdue

\* An error answer is written to the socket, which is then closed.
RaiseError ==
    /\ state' = "error"
    /\ answers' = Append(answers, [to |-> begin, framed |-> FALSE])
    /\ UNCHANGED <<secure, gone, idle, overdue>>

\* Mutant: the length of the unread rest is not taken off what recv() may fill.
UpdateBufferUnshifted ==
    /\ UNCHANGED <<secure, overdue, state, gone>>
    /\ \/ received' = received /\ UNCHANGED idle
       \/ ~Closed /\ received' = Min({sent, received + Chunk}) /\ idle' = FALSE

\* Mutant: a client that closes counts as a receive error.
UpdateBufferEndFails ==
    /\ UNCHANGED <<secure, overdue, gone>>
    /\ \/ received' = Min({sent, processed + Chunk}) /\ UNCHANGED <<state, idle>>
       \/ /\ ~Closed /\ sent = received /\ peer # "open"
          /\ state' = "error"
          /\ UNCHANGED <<received, idle>>

\* One recv(), if there is room and something to read: data, the end of the
\* client's stream, or an error, which closes the connection.
UpdateBuffer ==
    /\ UNCHANGED <<secure, overdue>>
    /\ \/ /\ Closed \/ Available = Chunk \/ (sent = received /\ peer = "open")
          /\ UNCHANGED <<received, state, gone, idle>>
       \/ /\ ~Closed /\ Available < Chunk /\ received < sent
          /\ received' = Min({sent, processed + Chunk})
          /\ idle' = FALSE
          /\ UNCHANGED <<state, gone>>
       \/ /\ ~Closed /\ Available < Chunk /\ sent = received /\ peer = "fin"
          /\ gone' = TRUE
          /\ UNCHANGED <<received, state, idle>>
       \/ /\ ~Closed /\ Available < Chunk /\ peer = "reset"
          /\ state' = "error"
          /\ UNCHANGED <<received, gone, idle>>

\* readBytes(n), which counts a body of known length down, and readBuffer.
ReadBytes(n) ==
    /\ UpdateBuffer
    /\ LET left == received' - processed
           got  == IF remaining = None THEN Min({n, left})
                                       ELSE Min({n, left, remaining})
       IN  /\ processed' = processed + got
           /\ remaining' = IF remaining = None THEN None ELSE remaining - got

-----------------------------------------------------------------------------
(* loop() *)

\* loop() begins; the server calls it while the connection is not closed.
Enter ==
    /\ pc = "rest" /\ ~Closed
    /\ UpdateBuffer
    /\ pc' = "checks"
    /\ UNCHANGED <<client, processed, request, handling, answers>>

\* Mutant: the timeout is not looked at.
AbandonedPatient == gone /\ Available = 0 /\ state \in {"initial", "request"}

\* The client has closed in the middle of a head, or has been silent for
\* HTTPS_CONNECTION_TIMEOUT.
Abandoned ==
    \/ gone /\ Available = 0 /\ state \in {"initial", "request"}
    \/ ~Closed /\ idle

Abandon ==
    /\ pc = "checks" /\ Abandoned
    /\ CloseConnection
    /\ pc' = "rest"
    /\ UNCHANGED <<client, secure, gone, idle, buffer, request, handling,
                   answers>>

\* The state machine takes its turn.
Dispatch ==
    /\ pc = "checks" /\ ~Abandoned
    /\ \/ /\ state \in {"initial", "request"}
          /\ pc' = "line"
          /\ UNCHANGED link
       \/ /\ state = "headers"
          /\ pc' = "resolve"
          /\ UNCHANGED link
       \/ /\ state \in {"body", "closing"}
          /\ CloseConnection
          /\ pc' = "rest"
          /\ UNCHANGED <<secure, gone, idle>>
       \/ /\ state = "error"
          /\ pc' = "rest"
          /\ UNCHANGED link
    /\ UNCHANGED <<client, buffer, request, handling, answers>>

LengthLimit == IF state = "initial" THEN RequestLimit ELSE HeaderLimit

\* readLine() has used up the buffer, and the line is not finished.
ReadLineStops ==
    /\ pc = "line" /\ Available = 0
    /\ pc' = "rest"
    /\ UNCHANGED <<client, link, buffer, request, handling, answers>>

\* Text is added to the line, until it is too long.
ReadText ==
    /\ pc = "line" /\ Available > 0 /\ Next1 # "cr"
    /\ processed' = processed + 1
    /\ IF processed' - lineStart > LengthLimit
          THEN RaiseError /\ pc' = "rest"
          ELSE UNCHANGED <<link, answers, pc>>
    /\ UNCHANGED <<client, received, request, handling>>

\* A carriage return with nothing after it in the buffer: readLine goes round
\* its while loop, which reads nothing more from the socket.
ReadCrOnly ==
    /\ pc = "line" /\ Available = 1 /\ Next1 = "cr"
    /\ UNCHANGED vars

ReadCrText ==
    /\ pc = "line" /\ Available > 1 /\ Next1 = "cr"
    /\ script[processed + 2].t # "lf"
    /\ RaiseError
    /\ pc' = "rest"
    /\ UNCHANGED <<client, buffer, request, handling>>

\* The name of a header: "keep" and "upgrade" are values of the same one.
Field(t) == IF t = "length" THEN "Content-Length" ELSE "Connection"

\* A request line needs two spaces, a header a colon and a space.  A header
\* replaces the one of its name.  An empty line ends the head.
ReadCrLf ==
    /\ pc = "line" /\ Available > 1 /\ Next1 = "cr"
    /\ script[processed + 2].t = "lf"
    /\ processed' = processed + 2
    /\ lineStart' = processed + 2
    /\ LET text  == SubSeq(script, lineStart + 1, processed)
           first == IF text = <<>> THEN [t |-> "empty"] ELSE Head(text)
       IN  \/ /\ state = "initial" /\ first.t \in Resources
              /\ state' = "request"
              /\ pc' = "rest"
              /\ UNCHANGED <<secure, gone, idle, overdue, headers, answers>>
           \/ /\ state = "request" /\ first.t \in Accepted
              /\ headers' = {h \in headers : Field(h.t) # Field(first.t)} \cup {first}
              /\ UNCHANGED <<link, pc, answers>>
           \/ /\ state = "request" /\ first.t = "empty"
              /\ state' = "headers"
              /\ pc' = "rest"
              /\ UNCHANGED <<secure, gone, idle, overdue, headers, answers>>
           \/ /\ IF state = "initial"
                    THEN first.t \notin Resources
                    ELSE first.t \notin Accepted \cup {"empty"}
              /\ RaiseError
              /\ pc' = "rest"
              /\ UNCHANGED headers
    /\ UNCHANGED <<client, received, begin, handling>>

-----------------------------------------------------------------------------
(* The request's handling, STATE_HEADERS_FINISHED *)

\* Some node always matches: the firmware sets a default one, and no node of a
\* WebSocket, so that a request to upgrade gets the default one.  The handshake
\* that answers it reads no body.
Resolve ==
    /\ pc = "resolve"
    /\ keep' = \E h \in headers : h.t = "keep"
    /\ buffered' = keep'
    /\ remaining' = IF \E h \in headers : h.t = "length"
                       THEN (CHOOSE h \in headers : h.t = "length").n
                       ELSE None
    /\ pc' = IF Upgrading THEN "page" ELSE Resource.t
    /\ UNCHANGED <<client, link, buffer, request, answers>>

\* requestComplete(): without a Content-Length the body ends where the client
\* has sent no more yet.
RequestComplete ==
    \/ remaining = 0 /\ UNCHANGED <<link, received>>
    \/ remaining = None /\ UpdateBuffer /\ received' = processed

\* The body parser reads until all has come or nothing comes.
ParseForm ==
    /\ pc = "form"
    /\ \/ /\ RequestComplete
          /\ pc' = "answer"
          /\ UNCHANGED <<processed, remaining>>
       \/ /\ remaining # 0
          /\ ReadBytes(IF remaining = None THEN Chunk ELSE remaining)
          /\ pc' = IF processed' = processed THEN "answer" ELSE "form"
    /\ UNCHANGED <<client, request, keep, buffered, answers>>

\* discardRequestBody(), called by the handler or after it.
Discard ==
    /\ pc \in {"command", "discard"}
    /\ \/ /\ RequestComplete
          /\ pc' = IF pc = "command" THEN "answer" ELSE "end"
          /\ UNCHANGED <<processed, remaining>>
       \/ /\ remaining # 0
          /\ ReadBytes(Unit)
          /\ remaining = None => processed' > processed
          /\ UNCHANGED pc
    /\ UNCHANGED <<client, request, keep, buffered, answers>>

ReadPage ==
    /\ pc = "page"
    /\ pc' = "answer"
    /\ UNCHANGED <<client, link, buffer, request, handling, answers>>

\* Mutants: the body the handler left is not discarded; an answer that outgrows
\* the cache leaves the connection alive.
AnswerOnly ==
    /\ pc = "answer"
    /\ buffered' = (buffered /\ Resource.n <= CacheSize)
    /\ keep' = buffered'
    /\ answers' = IF Closed \/ buffered' THEN answers
                  ELSE Append(answers, [to |-> begin, framed |-> FALSE])
    /\ pc' = "end"
    /\ UNCHANGED <<client, link, buffer, request, remaining>>

AnswerKept ==
    /\ pc = "answer"
    /\ buffered' = (buffered /\ Resource.n <= CacheSize)
    /\ answers' = IF Closed \/ buffered' THEN answers
                  ELSE Append(answers, [to |-> begin, framed |-> FALSE])
    /\ pc' = "discard"
    /\ UNCHANGED <<client, link, buffer, request, remaining, keep>>

\* The handler writes its answer: into the cache, if the connection is to be
\* kept and the answer fits, otherwise to the socket, with Connection: close.
Answer ==
    /\ pc = "answer"
    /\ buffered' = (buffered /\ Resource.n <= CacheSize)
    /\ keep' = buffered'
    /\ answers' = IF Closed \/ buffered' THEN answers
                  ELSE Append(answers, [to |-> begin, framed |-> FALSE])
    /\ pc' = "discard"
    /\ UNCHANGED <<client, link, buffer, request, remaining>>

\* After the handshake the default node, which is a ResourceNode, is taken for a
\* WebsocketNode: newHandler() calls what lies where its creator would be, the
\* address of a string, and the board stops.
Upgrade ==
    /\ pc = "end" /\ Upgrading
    /\ pc' = "crashed"
    /\ UNCHANGED <<client, link, buffer, request, handling, answers>>

\* The answer was the last, or the client has left: the next loop() closes.
Finish ==
    /\ pc = "end" /\ ~Closed /\ ~Upgrading
    /\ ~keep \/ gone
    /\ answers' = IF keep
                     THEN Append(answers, [to |-> begin, framed |-> TRUE])
                     ELSE answers
    /\ state' = "body"
    /\ headers' = {}
    /\ pc' = "rest"
    /\ UNCHANGED <<client, secure, gone, idle, overdue, buffer, begin,
                   lineStart, handling>>

\* The cached answer leaves with its Content-Length, and the connection starts
\* over.
KeepAlive ==
    /\ pc = "end" /\ ~Closed /\ ~Upgrading
    /\ keep /\ ~gone
    /\ answers' = Append(answers, [to |-> begin, framed |-> TRUE])
    /\ state' = "initial"
    /\ idle' = FALSE
    /\ headers' = {}
    /\ begin' = processed
    /\ lineStart' = processed
    /\ pc' = "rest"
    /\ UNCHANGED <<client, secure, gone, overdue, buffer, handling>>

\* The connection failed while the request was handled, and closeConnection
\* has freed the headers and cleared the pointer.  The keep-alive branch calls
\* clearAll() through it, which stops the board; otherwise ~HTTPRequest calls
\* clearAll() on the freed headers, which may.
FinishClosed ==
    /\ pc = "end" /\ Closed /\ ~Upgrading
    /\ \/ pc' = "crashed"
       \/ (~keep \/ gone) /\ pc' = "rest"
    /\ UNCHANGED <<client, link, buffer, request, handling, answers>>

-----------------------------------------------------------------------------
(* The client and the clock *)

\* Where the requests of a script begin.
Begins(s) == {k \in 0 .. Len(s) - 1 : s[k + 1].t \in Heads}
Before(k) == Cardinality({b \in Begins(script) : b < k})

\* In the request that begins at b: a line ends at k, an empty line ends at k,
\* the head ends at h, and the lines before h after which a header t follows.
LineEnds(s, b, k)     == k \in b + 2 .. Len(s) /\ s[k - 1].t = "cr" /\ s[k].t = "lf"
BlankEnds(s, b, k)    == LineEnds(s, b, k - 2) /\ LineEnds(s, b, k)
HeadEnds(s, b, h)     == BlankEnds(s, b, h) /\ \A k \in b .. h - 1 : ~BlankEnds(s, b, k)
Announced(s, b, h, t) == {k \in b .. h - 1 : LineEnds(s, b, k) /\ s[k + 1].t = t}

\* A client begins with a request.  If it asks to keep the connection, it sends
\* exactly the body it has announced, then its next request or nothing more; one
\* that does not ask may send what it likes.
ASSUME ClientAssumption ==
    \A s \in Scripts :
        /\ 0 \in Begins(s) \cup {Len(s)}
        /\ \A b \in Begins(s), h \in 1 .. Len(s) :
               HeadEnds(s, b, h) /\ Announced(s, b, h, "keep") # {} =>
                   \E e \in Begins(s) \cup {Len(s)} :
                       /\ \A c \in Begins(s) : c <= b \/ e <= c
                       /\ Announced(s, b, h, "length") = {} => e = h
                       /\ \A k \in Announced(s, b, h, "length") : e = h + s[k + 1].n

\* The client can see where each answer ends.
Framed == \A i \in DOMAIN answers : answers[i].framed

\* A client waits for an answer it can tell the end of before it sends its
\* next request.
Send ==
    /\ peer = "open" /\ ~Closed /\ sent < Len(script)
    /\ sent \in Begins(script) =>
           /\ Len(answers) = Before(sent)
           /\ Framed
    /\ sent' = sent + 1
    /\ UNCHANGED <<script, peer, link, buffer, request, pc, handling, answers>>

\* It closes, or its network goes away.
Leave ==
    /\ peer = "open" /\ ~Closed
    /\ peer' \in {"fin", "reset"}
    /\ UNCHANGED <<script, sent, link, buffer, request, pc, handling, answers>>

\* HTTPS_CONNECTION_TIMEOUT passes without a transmission.
Silence ==
    /\ ~idle /\ ~Closed
    /\ idle' = TRUE
    /\ UNCHANGED <<client, secure, state, gone, overdue, buffer, request, pc,
                   handling, answers>>

\* HTTPS_SHUTDOWN_TIMEOUT passes since the connection began to close.
ShutdownOverdue ==
    /\ state = "closing" /\ ~overdue
    /\ overdue' = TRUE
    /\ UNCHANGED <<client, secure, state, gone, idle, buffer, request, pc,
                   handling, answers>>

Init ==
    /\ script \in Scripts
    /\ sent = 0
    /\ peer = "open"
    /\ secure \in BOOLEAN
    /\ state = "initial"
    /\ gone = FALSE
    /\ idle = FALSE
    /\ overdue = FALSE
    /\ received = 0
    /\ processed = 0
    /\ begin = 0
    /\ lineStart = 0
    /\ headers = {}
    /\ pc = "rest"
    /\ keep = FALSE
    /\ remaining = None
    /\ buffered = FALSE
    /\ answers = <<>>

ReadLine == ReadLineStops \/ ReadText \/ ReadCrOnly \/ ReadCrText \/ ReadCrLf
Handle   == \/ Resolve \/ ParseForm \/ Discard \/ ReadPage \/ Answer
            \/ Upgrade \/ Finish \/ KeepAlive \/ FinishClosed
Loop     == Enter \/ Abandon \/ Dispatch \/ ReadLine \/ Handle

Next == Loop \/ Send \/ Leave \/ Silence \/ ShutdownOverdue

Spec == Init /\ [][Next]_vars

\* loop() is called again and again, and time passes.  The client owes nothing.
FairSpec ==
    Spec /\ WF_vars(Loop) /\ WF_vars(Silence) /\ WF_vars(ShutdownOverdue)

-----------------------------------------------------------------------------
(* Properties *)

TypeOK ==
    /\ script \in Scripts
    /\ peer \in {"open", "fin", "reset"}
    /\ {secure, gone, idle, overdue, keep, buffered} \subseteq BOOLEAN
    /\ state \in States
    /\ sent \in 0 .. Len(script)
    /\ received \in 0 .. sent
    /\ processed \in 0 .. received
    /\ lineStart \in 0 .. processed
    /\ begin \in 0 .. lineStart
    /\ Available <= Chunk
    /\ headers \subseteq Tokens
    /\ pc \in Resources \cup {"rest", "checks", "line", "resolve", "answer",
                              "discard", "end", "crashed"}
    /\ remaining \in Nat \cup {None}
    /\ answers \in Seq([to : Nat, framed : BOOLEAN])

\* The request the connection is at, or waits for, has no answer yet.
Unanswered ==
    /\ state \in {"initial", "request", "headers"}
    /\ pc \notin {"discard", "end", "crashed"}

\* The connection stays in step with its client: it begins a request only where
\* the client began one, never in the middle of a body ("because otherwise it
\* would be parsed in the next request"), and every request before it has had
\* its one answer, through short reads, bodies nobody read and keep-alive.
InStep ==
    Unanswered =>
           /\ begin \in Begins(script) \cup {Len(script)}
           /\ Len(answers) = Before(begin)
           /\ \A i \in DOMAIN answers : Before(answers[i].to) = i - 1

\* A connection is only kept after an answer whose end the client can see: an
\* answer that outgrew the cache has no Content-Length and ends the connection.
KeptIsFramed ==
    Unanswered => Framed

\* The board stops in the handling of a request for two reasons only: the headers
\* are used after they were freed, when the client's network failed during the
\* handling, or the request asked for a WebSocket.  A client that closes in order
\* stops nothing, wherever it does so.
CrashExplained ==
    pc = "crashed" => peer = "reset" \/ Upgrading

\* loop() cannot get past a carriage return that ends the buffer, and
\* discardRequestBody not past a body of which nothing more comes.
Stuck ==
    \/ pc = "line" /\ Available = 1 /\ Next1 = "cr"
    \/ pc \in {"command", "discard"} /\ remaining \notin {0, None}

\* Whatever the client does or fails to do, its connection ends and its slot
\* in the server becomes free, unless loop() is caught in one of these loops.
Ends ==
    <>(Closed /\ pc = "rest") \/ <>(pc = "crashed") \/ <>[]Stuck

\* readLine: "Look ahead for \n (if not possible, wait for next round": no
\* input keeps loop() from returning.
LoopReturns ==
    []<>(pc = "rest") \/ <>(pc = "crashed")

\* What a call of loop() can still do: tokens to take from the stream, and
\* places to pass on the way to its return.
Rank == [rest |-> 0, crashed |-> 0, end |-> 1, discard |-> 2, answer |-> 3,
         page |-> 4, form |-> 4, command |-> 4, line |-> 4, resolve |-> 5,
         checks |-> 6]
Left == Len(script) - processed + Rank[pc]

\* Every step of loop() and of the handlers it calls brings its return nearer,
\* whatever the client sends or fails to send, except two that go round in place:
\* readLine's at a carriage return that ends the buffer, which changes nothing,
\* and discardRequestBody's while nothing more of the announced body is there.
LoopProgresses ==
    [][Loop /\ pc # "rest" =>
           \/ Left' < Left
           \/ /\ pc \in {"command", "discard"} /\ remaining \notin {0, None}
              /\ Available' = 0 /\ UNCHANGED <<pc, processed>>]_vars

-----------------------------------------------------------------------------
(* What the proofs need beside the properties *)

Handling == Resources \cup {"answer", "discard", "end"}

\* A request begins with the line that is read first, and once that line is
\* accepted it names a resource.
Begun ==
    /\ state = "initial" => lineStart = begin
    /\ state \in {"request", "headers"} =>
           begin < Len(script) /\ Resource.t \in Resources

\* Where loop() is fits the state; only a failing network changes the state
\* during the handling of a request.
Placed ==
    /\ pc = "line" => state \in {"initial", "request"}
    /\ pc = "resolve" => state = "headers"
    /\ pc \in Handling => state = "headers" \/ (state = "error" /\ peer = "reset")

\* While the answer that ends the connection is the last, keep is not set.
LastIsLast ==
    pc \in {"discard", "end"} /\ keep /\ ~Closed => Framed

Inductive ==
    TypeOK /\ KeptIsFramed /\ CrashExplained /\ Begun /\ Placed /\ LastIsLast

\* The request has no answer on the wire; the answer may wait in the cache.
Outstanding ==
    \/ Unanswered
    \/ state = "headers" /\ pc \in {"discard", "end"} /\ keep

\* InStep up to the end of the handling, while the answer waits in the cache:
\* the client is not past the beginning of its next request.
Waited ==
    Outstanding =>
           /\ begin \in Begins(script) \cup {Len(script)}
           /\ Len(answers) = Before(begin)
           /\ \A i \in DOMAIN answers : Before(answers[i].to) = i - 1
           /\ \A c \in Begins(script) : begin < c => sent <= c

\* The line being read has no end yet, and the head none before it.
HeadOpen ==
    state \in {"initial", "request"} =>
        /\ \A i \in lineStart + 1 .. processed : script[i].t # "cr"
        /\ \A k \in begin .. lineStart : ~BlankEnds(script, begin, k)
        /\ state = "initial" => headers = {}
        /\ state = "request" => LineEnds(script, begin, lineStart)

\* What has been read of the head is what the client sent.
HeadRead ==
    state \in {"initial", "request", "headers"} =>
        /\ \A h \in headers : \E k \in Announced(script, begin, lineStart, h.t) :
               h = script[k + 1]
        /\ Announced(script, begin, lineStart, "length") # {} =>
               \E h \in headers : h.t = "length"
        /\ state = "headers" => HeadEnds(script, begin, lineStart)

\* The body is counted from the end of the head.
BodyCounted ==
    state = "headers" =>
        /\ pc \notin Handling \cup {"crashed"} => processed = lineStart
        /\ pc \in Handling /\ (keep \/ buffered) => \E h \in headers : h.t = "keep"
        /\ pc \in Handling /\ remaining = None => \A h \in headers : h.t # "length"
        /\ pc \in Handling /\ remaining # None =>
               \E h \in headers :
                   h.t = "length" /\ processed + remaining = lineStart + h.n
        /\ pc = "end" => remaining \in {0, None}

InductiveInStep == Waited /\ HeadOpen /\ HeadRead /\ BodyCounted
=============================================================================
