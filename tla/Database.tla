------------------------------ MODULE Database ------------------------------
(***************************************************************************)
(* The database (Database/database.cpp, ResultMatrix.h) and its clients:   *)
(* the workers, one of which at a time posts a result (writeToDatabase in  *)
(* Worker/worker.cpp; the controller's mutex_store_result), and a browser. *)
(*                                                                         *)
(* The server takes one connection after the other and takes what its      *)
(* single recv returns for the whole message.  TCP may cut a message       *)
(* anywhere, so recv returns any prefix.  A message is a sequence of       *)
(* tokens: the literals the parser looks for, single digits, and line      *)
(* endings; a cut inside a token leaves a FRAGMENT, which the parser       *)
(* matches with nothing.  httpParse is the state machine of the actions    *)
(* from ReadRequestLine on, one step per line of the header.               *)
(***************************************************************************)
EXTENDS Integers, Sequences, FiniteSets, SequencesExt

CONSTANTS
  Tasks,         \* the results: [field |-> <<matrix, row, column>>, value |-> , chunk |-> ]
  Queries,       \* what the browser asks for: [result_matrix, row, col], -1 for all
  IntValues,     \* how many values the database's int has: 2^32 in the code
  MaxFailures,   \* bound on the cuts of the workers' messages and answers
  MaxGets,       \* bound on the browser's requests
  NoTask         \* no task is being posted

ASSUME DatabaseAssumption ==
  /\ \A t \in Tasks : t.field \in Nat \X Nat \X Nat /\ t.value \in Int
  /\ \A q \in Queries : q.result_matrix \in Int /\ q.row \in Int /\ q.col \in Int
  /\ NoTask \notin Tasks
  /\ IntValues \in Nat \ {0}
  /\ MaxFailures \in Nat /\ MaxGets \in Nat

VARIABLES
  worker,          \* where writeToDatabase is
  task,            \* the task it posts
  sock_TCP,        \* what the worker gets to read: segments of the answer, and the end
  buf_worker,      \* what its buffer starts with
  acknowledged,    \* tasks for which it returned true
  backlog,         \* database: connections not accepted yet
  sent,            \* the message each client sent and the database has not read
  server,          \* where the database's loop is
  newsock_TCP,     \* the client it serves
  buf_TCP,         \* the tokens it received
  message,         \* the parser's position
  http,            \* what the parser found
  result_matrix,   \* the matrices, rows of cells
  page,            \* the values the last page showed to the browser
  counted,         \* history: the current task's value was added
  stored,          \* history: the tasks whose values were added
  failures, gets   \* the bounds' counters

workerVars == <<worker, task, acknowledged, buf_worker>>
parserVars == <<buf_TCP, message, http>>
countVars == <<counted, stored, failures, gets>>
vars == <<workerVars, sock_TCP, backlog, sent, server, newsock_TCP, parserVars,
          result_matrix, page, countVars>>

Clients == {"worker", "browser"}
None == -1
EmptyHttp == [command |-> "NONE", target |-> None, row |-> None, col |-> None,
              content_length |-> None, last_chunk |-> FALSE, content |-> 0]

Init ==
  /\ worker = "idle" /\ task = NoTask /\ acknowledged = {} /\ buf_worker = "empty"
  /\ sock_TCP = [answer |-> <<>>, closed |-> FALSE]
  /\ backlog = <<>> /\ sent = [c \in Clients |-> <<>>]
  /\ server = "accept" /\ newsock_TCP = "none"
  /\ buf_TCP = <<>> /\ message = 1 /\ http = EmptyHttp
  /\ result_matrix = [m \in {} |-> <<>>]
  /\ page = {}
  /\ counted = FALSE /\ stored = {} /\ failures = 0 /\ gets = 0

-----------------------------------------------------------------------------
(***************************************************************************)
(* Numbers and messages                                                    *)
(***************************************************************************)

\* An int wraps around.
Wrap(n) == ((n + IntValues \div 2) % IntValues) - IntValues \div 2

DigitChars == <<"0", "1", "2", "3", "4", "5", "6", "7", "8", "9">>
Digits == {DigitChars[i] : i \in 1 .. 10}
DigitValue(c) == (CHOOSE i \in 1 .. 10 : DigitChars[i] = c) - 1

DigitsOf[n \in Nat] ==
  IF n < 10 THEN <<DigitChars[n + 1]>>
  ELSE Append(DigitsOf[n \div 10], DigitChars[(n % 10) + 1])
numberToString(n) == IF n < 0 THEN <<"-">> \o DigitsOf[-n] ELSE DigitsOf[n]

\* The controller reads the matrices' sizes and their number into ints
\* (readMatrixSize), so that the numbers of the header fit into an int; the value
\* itself, a long long at the worker, need not.
ASSUME NumberAssumption ==
  \A t \in Tasks :
    /\ \A i \in 1 .. 3 : t.field[i] < IntValues \div 2
    /\ Len(numberToString(t.value)) < IntValues \div 2

CRLF == "CRLF"
NUL == "NUL"
FRAGMENT == "FRAGMENT"

Line(name, tokens) == <<name>> \o tokens \o <<CRLF>>

\* The worker's POST message.
PostMessage(t, last_chunk) ==
  <<"POST /">> \o numberToString(t.field[1]) \o <<" HTTP/", "1.1", CRLF>>
  \o Line("Row: ", numberToString(t.field[2])) \o Line("Column: ", numberToString(t.field[3]))
  \o Line("Last-Chunk: ", <<IF last_chunk THEN "TRUE" ELSE "FALSE">>)
  \o Line("Content-Length: ", numberToString(Len(numberToString(t.value))))
  \o <<CRLF, CRLF>> \o numberToString(t.value)

\* A browser's GET message.
GetMessage(q) ==
  <<"GET /">> \o numberToString(q.result_matrix) \o <<" HTTP/", "1.1", CRLF>>
  \o Line("Host: ", <<"database">>)
  \o (IF q.row = None THEN <<>> ELSE Line("Row: ", numberToString(q.row)))
  \o (IF q.col = None THEN <<>> ELSE Line("Column: ", numberToString(q.col)))
  \o <<CRLF>>

\* What one recv may return of a message, nothing if it times out.
Received(m) ==
  Prefixes(m)
  \cup {Append(SubSeq(m, 1, k - 1), FRAGMENT) :
          k \in {i \in 1 .. Len(m) : m[i] \notin Digits \cup {"-"}}}

-----------------------------------------------------------------------------
(***************************************************************************)
(* The worker's writeToDatabase and the browser                            *)
(***************************************************************************)

\* The controller's lastChunk: all other results of the field are stored.
LastChunk(t) == \A u \in Tasks \ {t} : u.field = t.field => u \in acknowledged

\* The worker connects and sends.  If the database has ended, the failed
\* connection goes unnoticed and the send or the receive loop never returns.
Post(t) ==
  /\ worker = "idle" /\ t \notin acknowledged
  /\ task' = t
  /\ sent' = [sent EXCEPT !["worker"] = PostMessage(t, LastChunk(t))]
  /\ buf_worker' = "message"
  /\ sock_TCP' = [answer |-> <<>>, closed |-> FALSE]
  /\ counted' = FALSE
  /\ IF server = "ended"
     THEN worker' = "lost" /\ UNCHANGED backlog
     ELSE worker' = "waiting" /\ backlog' = Append(backlog, "worker")
  /\ UNCHANGED <<acknowledged, server, newsock_TCP, parserVars, result_matrix, page,
                 stored, failures, gets>>

\* recv returns a segment, which overwrites the buffer from its start.
RecvSegment ==
  /\ worker = "waiting"
  /\ sock_TCP.answer # <<>>
  /\ buf_worker' = Head(sock_TCP.answer)
  /\ sock_TCP' = [sock_TCP EXCEPT !.answer = Tail(@)]
  /\ UNCHANGED <<worker, task, acknowledged, backlog, sent, server, newsock_TCP, parserVars,
                 result_matrix, page, countVars>>

\* The socket is closed; the buffer is not read again before it is filled.
HangUp ==
  /\ task' = NoTask /\ buf_worker' = "empty"
  /\ sock_TCP' = [answer |-> <<>>, closed |-> FALSE]

\* Mutant: any end of the connection is taken for an answer.
RecvEnd_NotCompared ==
  /\ worker = "waiting"
  /\ sock_TCP.answer = <<>> /\ sock_TCP.closed
  /\ worker' = "idle"
  /\ acknowledged' = acknowledged \cup {task}
  /\ HangUp
  /\ UNCHANGED <<backlog, sent, server, newsock_TCP, parserVars,
                 result_matrix, page, countVars>>

\* recv returns 0: only now the buffer is compared with the expected answer.
RecvEnd ==
  /\ worker = "waiting"
  /\ sock_TCP.answer = <<>> /\ sock_TCP.closed
  /\ worker' = "idle"
  /\ acknowledged' = IF buf_worker = "HTTP/1.1 200 OK" THEN acknowledged \cup {task} ELSE acknowledged
  /\ HangUp
  /\ UNCHANGED <<backlog, sent, server, newsock_TCP, parserVars,
                 result_matrix, page, countVars>>

\* The browser connects and asks for a page.
Ask(q) ==
  /\ gets < MaxGets /\ server # "ended"
  /\ newsock_TCP # "browser" /\ \A i \in DOMAIN backlog : backlog[i] # "browser"
  /\ gets' = gets + 1
  /\ sent' = [sent EXCEPT !["browser"] = GetMessage(q)]
  /\ backlog' = Append(backlog, "browser")
  /\ UNCHANGED <<workerVars, sock_TCP, server, newsock_TCP, parserVars, result_matrix, page,
                 counted, stored, failures>>

-----------------------------------------------------------------------------
(***************************************************************************)
(* httpParse                                                               *)
(***************************************************************************)

\* The buffer is filled with NULs behind the message.
Token(i) == IF i \in DOMAIN buf_TCP THEN buf_TCP[i] ELSE NUL

\* readNumberFromChars: an optional sign and the digits that follow.
NumberLength(i) ==
  LET first == IF Token(i) = "-" THEN i + 1 ELSE i
      ends == {j \in first .. Len(buf_TCP) + 1 : Token(j) \notin Digits}
  IN Min(ends) - i

\* The value of a sequence of digits, computed in an int.
ValueOf(digits) ==
  LET number[i \in 0 .. Len(digits)] ==
        IF i = 0 THEN 0 ELSE Wrap(10 * number[i - 1] + DigitValue(digits[i]))
  IN number[Len(digits)]

NumberAt(i) ==
  LET negative == Token(i) = "-"
      digits == SubSeq(buf_TCP, IF negative THEN i + 1 ELSE i, i + NumberLength(i) - 1)
  IN IF negative THEN Wrap(-ValueOf(digits)) ELSE ValueOf(digits)

Invalid == server' = "close" /\ UNCHANGED parserVars

\* The request line: a command, the number of a matrix, and a version.
ReadRequestLine ==
  /\ server = "request"
  /\ LET length == NumberLength(2)
         ends == {i \in 3 + length .. Len(buf_TCP) : buf_TCP[i] = CRLF}
     IN IF Token(1) \in {"GET /", "POST /"} /\ length > 0 /\ Token(2 + length) = " HTTP/" /\ ends # {}
        THEN /\ http' = [EmptyHttp EXCEPT !.command = IF Token(1) = "GET /" THEN "GET" ELSE "POST",
                                          !.target = NumberAt(2)]
             /\ message' = Min(ends) + 1
             /\ server' = "fields"
             /\ UNCHANGED buf_TCP
        ELSE Invalid
  /\ UNCHANGED <<workerVars, sock_TCP, backlog, sent, newsock_TCP, result_matrix, page, countVars>>

\* A field with a number, which must not be repeated and must end its line.
ReadNumberField(name, key) ==
  /\ server = "fields"
  /\ Token(message) = name
  /\ LET end == message + 1 + NumberLength(message + 1) IN
     IF http[key] = None /\ end > message + 1 /\ Token(end) = CRLF
     THEN /\ http' = [http EXCEPT ![key] = NumberAt(message + 1)]
          /\ message' = end + 1
          /\ UNCHANGED <<server, buf_TCP>>
     ELSE Invalid
  /\ UNCHANGED <<workerVars, sock_TCP, backlog, sent, newsock_TCP, result_matrix, page, countVars>>

ReadRow == ReadNumberField("Row: ", "row")
ReadColumn == ReadNumberField("Column: ", "col")
ReadContentLength == http.command = "POST" /\ ReadNumberField("Content-Length: ", "content_length")

AtLastChunk == http.command = "POST" /\ Token(message) = "Last-Chunk: "
               /\ Token(message + 1) \in {"TRUE", "FALSE"} /\ Token(message + 2) = CRLF

ReadLastChunk ==
  /\ server = "fields"
  /\ AtLastChunk
  /\ http' = [http EXCEPT !.last_chunk = Token(message + 1) = "TRUE"]
  /\ message' = message + 3
  /\ UNCHANGED <<workerVars, sock_TCP, backlog, sent, server, newsock_TCP, buf_TCP,
                 result_matrix, page, countVars>>

\* Mutant: the end of the buffer is not noticed.
SkipLine_RunOut ==
  /\ server = "fields"
  /\ Token(message) \notin {CRLF, "Row: ", "Column: "}
  /\ ~(http.command = "POST" /\ Token(message) = "Content-Length: ")
  /\ ~AtLastChunk
  /\ message' = message + 1
  /\ UNCHANGED <<workerVars, sock_TCP, backlog, sent, server, newsock_TCP, buf_TCP, http,
                 result_matrix, page, countVars>>

\* The rest of the line of any other field is skipped; there may be no end.
SkipLine ==
  /\ server = "fields"
  /\ Token(message) \notin {CRLF, "Row: ", "Column: "}
  /\ ~(http.command = "GET" /\ Token(message) = NUL)
  /\ ~(http.command = "POST" /\ Token(message) = "Content-Length: ")
  /\ ~AtLastChunk
  /\ LET ends == {i \in message .. Len(buf_TCP) : buf_TCP[i] = CRLF} IN
     IF ends = {} THEN Invalid
     ELSE /\ message' = Min(ends) + 1
          /\ UNCHANGED <<server, http, buf_TCP>>
  /\ UNCHANGED <<workerVars, sock_TCP, backlog, sent, newsock_TCP, result_matrix, page, countVars>>

\* The header of a GET may end without a blank line.
EndOfGet ==
  /\ server = "fields"
  /\ http.command = "GET" /\ Token(message) = NUL
  /\ server' = "valid"
  /\ UNCHANGED <<workerVars, sock_TCP, backlog, sent, newsock_TCP, parserVars, result_matrix,
                 page, countVars>>

\* Mutant: the body may be shorter than Content-Length.
BodyMatches_AnyLength(body) == http.content_length # None /\ NumberLength(body) > 0

\* The number in the body has exactly Content-Length characters.
BodyMatches(body) ==
  /\ http.content_length > 0
  /\ NumberLength(body) = http.content_length

\* Blank lines end the header; a POST has a body.
EndOfHeader ==
  /\ server = "fields"
  /\ Token(message) = CRLF
  /\ LET bodies == {i \in message .. Len(buf_TCP) + 1 : Token(i) # CRLF}
         body == Min(bodies)
     IN CASE http.command = "GET" -> server' = "valid" /\ UNCHANGED parserVars
          [] http.command = "POST" /\ BodyMatches(body) ->
               /\ http' = [http EXCEPT !.content = NumberAt(body)]
               /\ server' = "valid"
               /\ UNCHANGED <<buf_TCP, message>>
          [] OTHER -> Invalid
  /\ UNCHANGED <<workerVars, sock_TCP, backlog, sent, newsock_TCP, result_matrix, page, countVars>>

-----------------------------------------------------------------------------
(***************************************************************************)
(* ResultMatrix                                                            *)
(***************************************************************************)

Rows(m) == IF m \in DOMAIN result_matrix THEN result_matrix[m] ELSE <<>>
Padding(n, x) == [i \in 1 .. n |-> x]
Extended(s, n, x) == IF Len(s) < n THEN s \o Padding(n - Len(s), x) ELSE s

\* Mutant: cells are filled up with values that count as final.
NewCell_Final == [value |-> 0, final_value |-> TRUE]
NewCell == [value |-> 0, final_value |-> FALSE]

\* Mutant: the value replaces the sum.
CellPlus_Replace(cell, value) == [value |-> Wrap(value), final_value |-> TRUE]

\* The value is added, and called final: addResult is given TRUE.
CellPlus(cell, value) == [value |-> Wrap(cell.value + value), final_value |-> TRUE]

addResult(m, value, row, col) ==
  LET rows == Extended(Rows(m), row + 1, <<>>)
      cells == Extended(rows[row + 1], col + 1, NewCell)
  IN [rows EXCEPT ![row + 1] = [cells EXCEPT ![col + 1] = CellPlus(@, value)]]

\* getResult: a value, unless the cell is missing or not final and "X" is
\* shown.  The sizes are unsigned, so that no negative index is below one.
Shown(m, row, col) ==
  IF /\ row \in 0 .. Len(Rows(m)) - 1
     /\ col \in 0 .. Len(Rows(m)[row + 1]) - 1
     /\ Rows(m)[row + 1][col + 1].final_value
  THEN {[field |-> <<m, row, col>>, value |-> Rows(m)[row + 1][col + 1].value]}
  ELSE {}

getHTMLRow(m, row) ==
  IF row \in 0 .. Len(Rows(m)) - 1
  THEN UNION {Shown(m, row, col) : col \in 0 .. Len(Rows(m)[row + 1]) - 1}
  ELSE {}
getHTMLMatrix(m) == UNION {getHTMLRow(m, row) : row \in 0 .. Len(Rows(m)) - 1}

-----------------------------------------------------------------------------
(***************************************************************************)
(* The database's loop                                                     *)
(***************************************************************************)

Accept ==
  /\ server = "accept" /\ backlog # <<>>
  /\ newsock_TCP' = Head(backlog)
  /\ backlog' = Tail(backlog)
  /\ server' = "recv"
  /\ UNCHANGED <<workerVars, sock_TCP, sent, parserVars, result_matrix, page, countVars>>

\* The rest of the message is never read.  A cut of a worker's message is
\* counted, since the worker tries again.
Receive ==
  /\ server = "recv"
  /\ \E b \in Received(sent[newsock_TCP]) :
       /\ buf_TCP' = b
       /\ IF newsock_TCP = "worker" /\ b # sent["worker"]
          THEN failures < MaxFailures /\ failures' = failures + 1
          ELSE UNCHANGED failures
  /\ sent' = [sent EXCEPT ![newsock_TCP] = <<>>]
  /\ server' = "request"
  /\ UNCHANGED <<workerVars, sock_TCP, backlog, newsock_TCP, message, http,
                 result_matrix, page, counted, stored, gets>>

\* writeGETResponseToBuf: a matrix, a row, or a value; columns are not printed.
RespondGet ==
  /\ server = "valid" /\ http.command = "GET"
  /\ page' = CASE http.row = None /\ http.col = None -> getHTMLMatrix(http.target)
               [] http.row # None /\ http.col = None -> getHTMLRow(http.target, http.row)
               [] http.row = None /\ http.col # None -> {}
               [] OTHER -> Shown(http.target, http.row, http.col)
  /\ server' = "close"
  /\ UNCHANGED <<workerVars, sock_TCP, backlog, sent, newsock_TCP, parserVars, result_matrix,
                 countVars>>

\* The answer is one segment, or two, which the worker reads one after the other.
Answers == {<<"HTTP/1.1 200 OK">>} \cup (IF failures < MaxFailures THEN {<<"head", "tail">>} ELSE {})

\* The value is added and the POST answered.  vector::at throws, and ends the
\* program, if there was no row or no column.
RespondPost ==
  /\ server = "valid" /\ http.command = "POST"
  /\ IF http.row < 0 \/ http.col < 0
     THEN server' = "terminated" /\ UNCHANGED <<result_matrix, counted, stored, sock_TCP, failures>>
     ELSE /\ result_matrix' = [m \in DOMAIN result_matrix \cup {http.target} |->
               IF m = http.target THEN addResult(m, http.content, http.row, http.col)
               ELSE result_matrix[m]]
          /\ counted' = TRUE /\ stored' = stored \cup {task}
          /\ \E a \in Answers :
               /\ sock_TCP' = [sock_TCP EXCEPT !.answer = a]
               /\ failures' = failures + Len(a) - 1
          /\ server' = "close"
  /\ UNCHANGED <<workerVars, backlog, sent, newsock_TCP, parserVars, page, gets>>

\* Mutant: the connection is left open after an invalid message.
Close_OnlyIfValid ==
  /\ server = "close"
  /\ sock_TCP' = IF newsock_TCP = "worker" /\ sock_TCP.answer # <<>>
                 THEN [sock_TCP EXCEPT !.closed = TRUE] ELSE sock_TCP
  /\ newsock_TCP' = "none"
  /\ buf_TCP' = <<>> /\ message' = 1 /\ http' = EmptyHttp
  /\ server' = "accept"
  /\ UNCHANGED <<workerVars, backlog, sent, result_matrix, page, countVars>>

\* What the parser found is not read before it is written again, and is reset
\* here to tell fewer states apart.
Close ==
  /\ server = "close"
  /\ sock_TCP' = IF newsock_TCP = "worker" THEN [sock_TCP EXCEPT !.closed = TRUE] ELSE sock_TCP
  /\ newsock_TCP' = "none"
  /\ buf_TCP' = <<>> /\ message' = 1 /\ http' = EmptyHttp
  /\ server' = "accept"
  /\ UNCHANGED <<workerVars, backlog, sent, result_matrix, page, countVars>>

\* PROGR_TIMEOUT has passed: the program ends, which resets the connections
\* that were not accepted.
EndProgram ==
  /\ server = "accept"
  /\ server' = "ended"
  /\ sock_TCP' = IF worker = "waiting" THEN [sock_TCP EXCEPT !.closed = TRUE] ELSE sock_TCP
  /\ backlog' = <<>>
  /\ UNCHANGED <<workerVars, sent, newsock_TCP, parserVars, result_matrix, page, countVars>>

ReadField ==
  ReadRow \/ ReadColumn \/ ReadContentLength \/ ReadLastChunk \/ SkipLine \/ EndOfGet \/ EndOfHeader

ServerStep ==
  \/ Accept \/ Receive \/ ReadRequestLine \/ ReadField \/ RespondGet \/ RespondPost \/ Close

WorkerStep == RecvSegment \/ RecvEnd

Next ==
  \/ ServerStep \/ WorkerStep \/ EndProgram
  \/ \E t \in Tasks : Post(t)
  \/ \E q \in Queries : Ask(q)

Spec == Init /\ [][Next]_vars
=============================================================================
