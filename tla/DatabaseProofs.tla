--------------------------- MODULE DatabaseProofs ---------------------------
(***************************************************************************)
(* Proofs about the database and the worker that posts to it, for all      *)
(* tasks, queries, widths of the int and numbers of cuts: the types, that  *)
(* a POST which TCP cut is never taken for another one, that the page      *)
(* shows only what was stored, and that the database implements            *)
(* ChunkStore.                                                             *)
(*                                                                         *)
(* The inductive invariant says where the worker's one connection is, what *)
(* has been read of its message, and what the cells hold.                  *)
(***************************************************************************)
EXTENDS DatabaseProperties, MessageProofs

Cell == [value : Int, final_value : BOOLEAN]
OK == "HTTP/1.1 200 OK"
HttpRecord ==
  [command : {"NONE", "GET", "POST"}, target : Int, row : Int, col : Int,
   content_length : Int, last_chunk : BOOLEAN, content : Int]

\* The types, those that TypeOK leaves open included.
Types ==
  /\ TypeOK
  /\ sock_TCP \in [answer : {<<>>, <<OK>>, <<"head", "tail">>, <<"tail">>}, closed : BOOLEAN]
  /\ buf_worker \in {"empty", "message", OK, "head", "tail"}
  /\ sent \in [Clients -> Seq(MessageTokens)]
  /\ buf_TCP \in Seq(Tokens)
  /\ http \in HttpRecord
  /\ server \in {"accept", "recv", "request"} => message = 1
  /\ result_matrix = [m \in DOMAIN result_matrix |-> result_matrix[m]]
  /\ \A m \in DOMAIN result_matrix : m \in Int /\ result_matrix[m] \in Seq(Seq(Cell))

-----------------------------------------------------------------------------
\* The worker's message as it was sent: the flag does not change meanwhile.
Message == PostMessage(task, LastChunk(task))

Queued == \E i \in DOMAIN backlog : backlog[i] = "worker"
Served == newsock_TCP = "worker"

\* The worker's connection is in one place, and its message is in one place.
Connection ==
  /\ \A i, j \in DOMAIN backlog : backlog[i] = "worker" /\ backlog[j] = "worker" => i = j
  /\ Queued => ~Served
  /\ Queued \/ Served => worker = "waiting" /\ ~sock_TCP.closed
  /\ Queued \/ (Served /\ server = "recv") => sent["worker"] = Message
  /\ Queued \/ (Served /\ server \in {"recv", "request", "fields", "valid"}) =>
       sock_TCP.answer = <<>> /\ buf_worker = "message" /\ ~counted
  /\ buf_worker = OK \/ sock_TCP.answer = <<OK>> => counted

\* A browser only asks, so a POST comes from the worker.
Browser ==
  /\ sent["browser"] = <<>> \/ \E q \in Queries : sent["browser"] = GetMessage(q)
  /\ newsock_TCP = "browser" /\ server = "request" => Token(1) # "POST /"
  /\ server \in {"fields", "valid"} /\ http.command = "POST" => Served
  /\ server \in {"fields", "valid"} => http.command \in {"GET", "POST"}

\* Behind each line of the worker's message the parser has found what the
\* line says, and nothing of the lines to come.
Found(row, col, last_chunk, content_length) ==
  /\ http.row = row /\ http.col = col
  /\ http.last_chunk = last_chunk /\ http.content_length = content_length

Parsed ==
  Served =>
  /\ server \in {"request", "fields", "valid"} => IsCut(buf_TCP, Message)
  /\ server = "fields" =>
       /\ http.command = "POST" /\ http.target = task.field[1]
       /\ \/ message = RowAt(task) /\ Found(None, None, FALSE, None)
          \/ message = ColumnAt(task) /\ Found(task.field[2], None, FALSE, None)
          \/ message = LastChunkAt(task) /\ Found(task.field[2], task.field[3], FALSE, None)
          \/ message = LengthAt(task)
             /\ Found(task.field[2], task.field[3], LastChunk(task), None)
          \/ message = BlankAt(task)
             /\ Found(task.field[2], task.field[3], LastChunk(task), ValueLength(task))
  /\ server = "valid" =>
       /\ http.target = task.field[1] /\ http.content = Wrap(task.value)
       /\ Found(task.field[2], task.field[3], LastChunk(task), ValueLength(task))

\* A cell; where there is none, the one addResult creates.
CellAt(rows, row, col) ==
  IF row < Len(rows) /\ col < Len(rows[row + 1]) THEN rows[row + 1][col + 1] ELSE NewCell

\* A final cell holds a value that was added.
FinalWasStored ==
  \A m \in Int, row, col \in Nat :
    CellAt(Rows(m), row, col).final_value => \E t \in stored : t.field = <<m, row, col>>

IInv == Types /\ Connection /\ Browser /\ Parsed /\ FinalWasStored /\ ShownWasStored
-----------------------------------------------------------------------------
(***************************************************************************)
(* The messages                                                            *)
(***************************************************************************)

\* The first token of a message that begins with x.
LEMMA FirstHeld ==
  ASSUME NEW m, NEW x, Has(m, 1, <<x>>)
  PROVE  m[1] = x
BY HoldsSingle DEF Has

\* A line that a browser may leave out.
LEMMA OptionalLine ==
  ASSUME NEW name \in MessageTokens, NEW v \in Int
  PROVE  (IF v = None THEN <<>> ELSE Line(name, numberToString(v))) \in Seq(MessageTokens)
<1>1. Line(name, numberToString(v)) \in Seq(MessageTokens)
  BY NumberIsTokens, LineHolds
<1>2. <<>> \in Seq(MessageTokens)
  OBVIOUS
<1>3. QED
  BY <1>1, <1>2

\* A browser's message is a sequence of tokens that begins with "GET /".
LEMMA GetMessageTokens ==
  ASSUME NEW q \in Queries
  PROVE  GetMessage(q) \in Seq(MessageTokens) /\ GetMessage(q)[1] = "GET /"
<1> DEFINE a == <<"GET /">>
           b == numberToString(q.result_matrix)
           c == <<" HTTP/", "1.1", CRLF>>
           d == Line("Host: ", <<"database">>)
           e == IF q.row = None THEN <<>> ELSE Line("Row: ", numberToString(q.row))
           f == IF q.col = None THEN <<>> ELSE Line("Column: ", numberToString(q.col))
           g == <<CRLF>>
<1>1. q.result_matrix \in Int /\ q.row \in Int /\ q.col \in Int
  BY DatabaseAssumption
<1>2. /\ "GET /" \in MessageTokens /\ " HTTP/" \in MessageTokens /\ "1.1" \in MessageTokens
      /\ CRLF \in MessageTokens /\ "Host: " \in MessageTokens /\ "database" \in MessageTokens
      /\ "Row: " \in MessageTokens /\ "Column: " \in MessageTokens
  BY DEF MessageTokens
<1>3. a \in Seq(MessageTokens) /\ g \in Seq(MessageTokens)
  BY <1>2, Singleton
<1>4. b \in Seq(MessageTokens)
  BY <1>1, NumberIsTokens
<1>5. c \in Seq(MessageTokens)
  BY <1>2, Triple
<1>6. d \in Seq(MessageTokens)
  BY <1>2, Singleton, LineHolds
<1>7. e \in Seq(MessageTokens)
  <2> DEFINE name == "Row: "
             v == q.row
  <2>1. name \in MessageTokens /\ v \in Int
    BY <1>1, <1>2
  <2>2. e = IF v = None THEN <<>> ELSE Line(name, numberToString(v))
    OBVIOUS
  <2> HIDE DEF name, v, e
  <2>3. QED
    BY <2>1, <2>2, OptionalLine
<1>8. f \in Seq(MessageTokens)
  <2> DEFINE name == "Column: "
             v == q.col
  <2>1. name \in MessageTokens /\ v \in Int
    BY <1>1, <1>2
  <2>2. f = IF v = None THEN <<>> ELSE Line(name, numberToString(v))
    OBVIOUS
  <2> HIDE DEF name, v, f
  <2>3. QED
    BY <2>1, <2>2, OptionalLine
<1>9. Has(a, 1, a)
  <2>1. Len(a) = 1
    OBVIOUS
  <2> HIDE DEF a
  <2>2. QED
    BY <1>3, <2>1 DEF Has, Holds
<1>10. GetMessage(q) = a \o b \o c \o d \o e \o f \o g
  BY DEF GetMessage
<1>11. Has(a, 1, <<"GET /">>)
  BY <1>9
<1> DEFINE x == <<"GET /">>
<1> HIDE DEF a, b, c, d, e, f, g, x
<1>12. a \o b \in Seq(MessageTokens) /\ Has(a \o b, 1, x)
  BY <1>3, <1>4, <1>11, HasJoined DEF x
<1>13. a \o b \o c \in Seq(MessageTokens) /\ Has(a \o b \o c, 1, x)
  BY <1>12, <1>5, HasJoined
<1>14. a \o b \o c \o d \in Seq(MessageTokens) /\ Has(a \o b \o c \o d, 1, x)
  BY <1>13, <1>6, HasJoined
<1>15. a \o b \o c \o d \o e \in Seq(MessageTokens) /\ Has(a \o b \o c \o d \o e, 1, x)
  BY <1>14, <1>7, HasJoined
<1>16. a \o b \o c \o d \o e \o f \in Seq(MessageTokens) /\ Has(a \o b \o c \o d \o e \o f, 1, x)
  BY <1>15, <1>8, HasJoined
<1>17. /\ a \o b \o c \o d \o e \o f \o g \in Seq(MessageTokens)
       /\ Has(a \o b \o c \o d \o e \o f \o g, 1, x)
  BY <1>16, <1>3, HasJoined
<1>18. QED
  BY <1>10, <1>17, FirstHeld DEF x

\* Whatever the buffer holds, what is read from it fits an int.
LEMMA NumberAtInt ==
  ASSUME buf_TCP \in Seq(Tokens), NEW i \in 1 .. Len(buf_TCP) + 1
  PROVE  NumberAt(i) \in Int
<1> DEFINE n == NumberLength(i)
           digits == SubSeq(buf_TCP, First(i), i + n - 1)
<1>1. /\ n \in Nat /\ First(i) <= i + n /\ i + n <= Len(buf_TCP) + 1
      /\ \A j \in First(i) .. i + n - 1 : Token(j) \in Digits
  BY NumberLengthFacts
<1>2. First(i) \in i .. i + 1
  BY DEF First
<1>3. digits \in Seq(Digits)
  <2>1. \A j \in First(i) .. i + n - 1 : j \in DOMAIN buf_TCP /\ buf_TCP[j] \in Digits
    <3> HIDE DEF n
    <3>1. \A j \in First(i) .. i + n - 1 : j \in 1 .. Len(buf_TCP)
      BY <1>1, <1>2
    <3>2. QED
      BY <1>1, <3>1 DEF Token
  <2>2. First(i) \in Int /\ i + n - 1 \in Int
    BY <1>1, <1>2
  <2> HIDE DEF n
  <2>3. QED
    BY <2>1, <2>2, SubSeqProperties
<1>4. ValueOf(digits) \in Int
  BY <1>3, ValueOfInt
<1>5. Wrap(-ValueOf(digits)) \in Int
  BY <1>4, WrapInt
<1>6. NumberAt(i) = IF Token(i) = "-" THEN Wrap(-ValueOf(digits)) ELSE ValueOf(digits)
  BY DEF NumberAt, First
<1>7. QED
  BY <1>4, <1>5, <1>6

-----------------------------------------------------------------------------
(***************************************************************************)
(* ResultMatrix                                                            *)
(***************************************************************************)

\* Filling up keeps what is there and adds the given value behind it.
LEMMA ExtendedFacts ==
  ASSUME NEW S, NEW s \in Seq(S), NEW n \in Nat, NEW x \in S
  PROVE  /\ Extended(s, n, x) \in Seq(S)
         /\ Len(s) < n => Len(Extended(s, n, x)) = n
         /\ ~(Len(s) < n) => Len(Extended(s, n, x)) = Len(s)
         /\ \A i \in 1 .. Len(Extended(s, n, x)) :
              Extended(s, n, x)[i] = IF i <= Len(s) THEN s[i] ELSE x
<1>1. CASE ~(Len(s) < n)
  <2>1. Extended(s, n, x) = s
    BY <1>1 DEF Extended
  <2>2. QED
    BY <1>1, <2>1
<1>2. CASE Len(s) < n
  <2> DEFINE p == Padding(n - Len(s), x)
  <2>1. Extended(s, n, x) = s \o p
    BY <1>2 DEF Extended
  <2>2. n - Len(s) \in Nat
    BY <1>2
  <2>3. p \in Seq(S) /\ Len(p) = n - Len(s) /\ \A i \in 1 .. n - Len(s) : p[i] = x
    BY <2>2 DEF Padding
  <2> HIDE DEF p
  <2>4. /\ s \o p \in Seq(S) /\ Len(s \o p) = Len(s) + Len(p)
        /\ \A i \in 1 .. Len(s) : (s \o p)[i] = s[i]
        /\ \A i \in 1 .. Len(p) : (s \o p)[Len(s) + i] = p[i]
    BY <2>3, Joined
  <2>5. Len(s \o p) = n /\ Len(s) \in Nat
    BY <2>3, <2>4
  <2>6. ASSUME NEW i \in 1 .. n
        PROVE  (s \o p)[i] = IF i <= Len(s) THEN s[i] ELSE x
    <3>1. CASE i <= Len(s)
      BY <2>4, <3>1
    <3>2. CASE ~(i <= Len(s))
      <4>1. i - Len(s) \in 1 .. Len(p) /\ Len(s) + (i - Len(s)) = i /\ i - Len(s) \in 1 .. n - Len(s)
        BY <2>3, <2>5, <3>2
      <4>2. (s \o p)[i] = p[i - Len(s)] /\ p[i - Len(s)] = x
        BY <2>3, <2>4, <4>1
      <4>3. QED
        BY <3>2, <4>2
    <3>3. QED
      BY <3>1, <3>2
  <2>7. QED
    BY <1>2, <2>1, <2>4, <2>5, <2>6
<1>3. QED
  BY <1>1, <1>2

\* New cells are cells, and so are those to which a value was added.
LEMMA CellFacts ==
  /\ NewCell \in Cell
  /\ \A cell \in Cell, v \in Int : CellPlus(cell, v) \in Cell
<1>1. NewCell \in Cell
  BY DEF NewCell, Cell
<1>2. ASSUME NEW cell \in Cell, NEW v \in Int
      PROVE  CellPlus(cell, v) \in Cell
  <2>1. cell.value \in Int
    BY DEF Cell
  <2>2. Wrap(cell.value + v) \in Int
    BY <2>1, WrapInt
  <2>3. QED
    BY <2>2 DEF CellPlus, Cell
<1>3. QED
  BY <1>1, <1>2

\* The rows that result when a value is added to one cell: the other cells,
\* and those that are missing, are as they were.
AddedTo(old, value, row, col, new) ==
  /\ CellAt(new, row, col) = CellPlus(CellAt(old, row, col), value)
  /\ \A r, c \in Nat : r # row \/ c # col => CellAt(new, r, c) = CellAt(old, r, c)

\* addResult adds to one cell and leaves the others, however many rows and
\* cells it creates.
LEMMA AddResultFacts ==
  ASSUME NEW m, Rows(m) \in Seq(Seq(Cell)), NEW value \in Int, NEW row \in Nat, NEW col \in Nat
  PROVE  /\ addResult(m, value, row, col) \in Seq(Seq(Cell))
         /\ AddedTo(Rows(m), value, row, col, addResult(m, value, row, col))
<1> DEFINE old == Rows(m)
           rows == Extended(old, row + 1, <<>>)
           cells == Extended(rows[row + 1], col + 1, NewCell)
           newcells == [cells EXCEPT ![col + 1] = CellPlus(@, value)]
           new == [rows EXCEPT ![row + 1] = newcells]
<1>1. addResult(m, value, row, col) = new
  BY DEF addResult
<1>2. old \in Seq(Seq(Cell)) /\ <<>> \in Seq(Cell) /\ row + 1 \in Nat /\ col + 1 \in Nat
  OBVIOUS
<1> HIDE DEF old
<1>3. /\ rows \in Seq(Seq(Cell)) /\ Len(rows) = (IF Len(old) < row + 1 THEN row + 1 ELSE Len(old))
      /\ \A i \in 1 .. Len(rows) : rows[i] = IF i <= Len(old) THEN old[i] ELSE <<>>
  <2> DEFINE n == row + 1
             e == <<>>
             S == Seq(Cell)
  <2>1. n \in Nat /\ e \in S /\ old \in Seq(S)
    BY <1>2
  <2> HIDE DEF n, e, S
  <2>2. Extended(old, n, e) \in Seq(S)
    BY <2>1, ExtendedFacts
  <2>3. Len(old) < n => Len(Extended(old, n, e)) = n
    BY <2>1, ExtendedFacts
  <2>4. ~(Len(old) < n) => Len(Extended(old, n, e)) = Len(old)
    BY <2>1, ExtendedFacts
  <2>5. \A i \in 1 .. Len(Extended(old, n, e)) :
          Extended(old, n, e)[i] = IF i <= Len(old) THEN old[i] ELSE e
    BY <2>1, ExtendedFacts
  <2>6. QED
    BY <2>2, <2>3, <2>4, <2>5 DEF n, e, S
<1> HIDE DEF rows
<1>4. row + 1 \in 1 .. Len(rows) /\ Len(old) \in Nat /\ Len(rows) \in Nat
  BY <1>2, <1>3
<1>5. rows[row + 1] \in Seq(Cell)
  BY <1>3, <1>4
<1>6. /\ cells \in Seq(Cell)
      /\ Len(cells) = (IF Len(rows[row + 1]) < col + 1 THEN col + 1 ELSE Len(rows[row + 1]))
      /\ \A i \in 1 .. Len(cells) :
           cells[i] = IF i <= Len(rows[row + 1]) THEN rows[row + 1][i] ELSE NewCell
  <2> DEFINE n == col + 1
             s == rows[row + 1]
             e == NewCell
             S == Cell
  <2>1. n \in Nat /\ e \in S /\ s \in Seq(S)
    BY <1>2, <1>5, CellFacts
  <2> HIDE DEF n, s, e, S
  <2>2. Extended(s, n, e) \in Seq(S)
    BY <2>1, ExtendedFacts
  <2>3. Len(s) < n => Len(Extended(s, n, e)) = n
    BY <2>1, ExtendedFacts
  <2>4. ~(Len(s) < n) => Len(Extended(s, n, e)) = Len(s)
    BY <2>1, ExtendedFacts
  <2>5. \A i \in 1 .. Len(Extended(s, n, e)) :
          Extended(s, n, e)[i] = IF i <= Len(s) THEN s[i] ELSE e
    BY <2>1, ExtendedFacts
  <2>6. QED
    BY <2>2, <2>3, <2>4, <2>5 DEF n, s, e, S
<1> HIDE DEF cells
<1>7. col + 1 \in 1 .. Len(cells) /\ Len(cells) \in Nat /\ Len(rows[row + 1]) \in Nat
  BY <1>2, <1>5, <1>6
<1>8. CellPlus(cells[col + 1], value) \in Cell
  BY <1>6, <1>7, CellFacts
<1>9. /\ newcells \in Seq(Cell) /\ Len(newcells) = Len(cells)
      /\ \A i \in 1 .. Len(cells) :
           newcells[i] = IF i = col + 1 THEN CellPlus(cells[col + 1], value) ELSE cells[i]
  BY <1>6, <1>7, <1>8
<1> HIDE DEF newcells
<1>10. /\ new \in Seq(Seq(Cell)) /\ Len(new) = Len(rows)
       /\ \A i \in 1 .. Len(rows) : new[i] = IF i = row + 1 THEN newcells ELSE rows[i]
  BY <1>3, <1>4, <1>9
<1> HIDE DEF new
<1>11. ASSUME NEW r \in Nat, NEW c \in Nat
       PROVE  CellAt(rows, r, c) = CellAt(old, r, c)
  <2>1. CASE r < Len(old)
    <3>1. r + 1 \in 1 .. Len(rows) /\ r + 1 <= Len(old) /\ r < Len(rows)
      BY <1>3, <1>4, <2>1
    <3>2. rows[r + 1] = old[r + 1]
      BY <1>3, <3>1
    <3>3. QED
      BY <2>1, <3>1, <3>2 DEF CellAt
  <2>2. CASE ~(r < Len(old)) /\ r < Len(rows)
    <3>1. r + 1 \in 1 .. Len(rows) /\ ~(r + 1 <= Len(old))
      BY <1>4, <2>2
    <3>2. rows[r + 1] = <<>>
      BY <1>3, <3>1
    <3>3. ~(c < Len(rows[r + 1]))
      BY <3>2
    <3>4. QED
      BY <2>2, <3>3 DEF CellAt
  <2>3. CASE ~(r < Len(old)) /\ ~(r < Len(rows))
    BY <2>3 DEF CellAt
  <2>4. QED
    BY <2>1, <2>2, <2>3
<1>12. ASSUME NEW c \in Nat
       PROVE  CellAt(rows, row, c) = IF c < Len(cells) THEN cells[c + 1] ELSE NewCell
  <2>1. row < Len(rows)
    BY <1>4
  <2>2. CASE c < Len(cells)
    <3>1. c + 1 \in 1 .. Len(cells) /\ (c + 1 <= Len(rows[row + 1]) <=> c < Len(rows[row + 1]))
      BY <1>7, <2>2
    <3>2. cells[c + 1] = IF c + 1 <= Len(rows[row + 1]) THEN rows[row + 1][c + 1] ELSE NewCell
      BY <1>6, <3>1
    <3>3. QED
      BY <2>1, <2>2, <3>1, <3>2 DEF CellAt
  <2>3. CASE ~(c < Len(cells))
    <3>1. ~(c < Len(rows[row + 1]))
      BY <1>6, <1>7, <2>3
    <3>2. QED
      BY <2>3, <3>1 DEF CellAt
  <2>4. QED
    BY <2>2, <2>3
<1>13. ASSUME NEW r \in Nat, NEW c \in Nat
       PROVE  CellAt(new, r, c) = IF r = row /\ c = col THEN CellPlus(CellAt(old, r, c), value)
                                  ELSE CellAt(old, r, c)
  <2>1. CASE r # row
    <3>1. r < Len(rows) => r + 1 \in 1 .. Len(rows) /\ r + 1 # row + 1
      BY <1>4, <2>1
    <3>2. r < Len(rows) => new[r + 1] = rows[r + 1]
      BY <1>10, <3>1
    <3>3. CellAt(new, r, c) = CellAt(rows, r, c)
      BY <1>10, <3>2 DEF CellAt
    <3>4. QED
      BY <1>11, <2>1, <3>3
  <2>2. CASE r = row
    <3>1. new[r + 1] = newcells /\ r < Len(new)
      BY <1>4, <1>10, <2>2
    <3>2. CellAt(new, r, c) = IF c < Len(cells) THEN newcells[c + 1] ELSE NewCell
      BY <1>9, <3>1 DEF CellAt
    <3>3. CellAt(old, r, c) = IF c < Len(cells) THEN cells[c + 1] ELSE NewCell
      BY <1>11, <1>12, <2>2
    <3>4. CASE c = col
      <4>1. c < Len(cells) /\ c + 1 \in 1 .. Len(cells)
        BY <1>7, <3>4
      <4>2. newcells[c + 1] = CellPlus(cells[c + 1], value)
        BY <1>9, <3>4, <4>1
      <4>3. QED
        BY <2>2, <3>2, <3>3, <3>4, <4>1, <4>2
    <3>5. CASE c # col
      <4>1. c < Len(cells) => c + 1 \in 1 .. Len(cells) /\ c + 1 # col + 1
        BY <1>7, <3>5
      <4>2. c < Len(cells) => newcells[c + 1] = cells[c + 1]
        BY <1>9, <4>1
      <4>3. QED
        BY <3>2, <3>3, <3>5, <4>2
    <3>6. QED
      BY <3>4, <3>5
  <2>3. QED
    BY <2>1, <2>2
<1>14. QED
  BY <1>1, <1>10, <1>13 DEF old, AddedTo

-----------------------------------------------------------------------------
(***************************************************************************)
(* The types                                                               *)
(***************************************************************************)

\* The flag is TRUE or FALSE.
LEMMA LastChunkBoolean ==
  ASSUME NEW t
  PROVE  LastChunk(t) \in BOOLEAN
BY DEF LastChunk

\* The worker's message consists of tokens.
LEMMA PostMessageIsTokens ==
  ASSUME NEW t \in Tasks
  PROVE  PostMessage(t, LastChunk(t)) \in Seq(MessageTokens)
<1>1. LastChunk(t) \in BOOLEAN
  BY LastChunkBoolean
<1>2. QED
  BY <1>1, PostMessageParts

\* The types initially, and after each action.
LEMMA TypesInit ==
  ASSUME Init
  PROVE  Types
<1>1. <<>> \in Seq(MessageTokens) /\ <<>> \in Seq(Tokens) /\ Len(<<>>) = 0 /\ <<>> \in Seq(Clients)
  OBVIOUS
<1>2. MaxFailures \in Nat /\ MaxGets \in Nat /\ NoTask \notin Tasks
  BY DatabaseAssumption
<1>3. TypeOK
  <2>1. message \in 1 .. Len(buf_TCP) + 1
    <3>1. message = 1 /\ Len(buf_TCP) = 0
      BY <1>1 DEF Init
    <3>2. QED
      BY <3>1
  <2>2. failures \in 0 .. MaxFailures /\ gets \in 0 .. MaxGets
    BY <1>2 DEF Init
  <2>3. backlog \in Seq(Clients)
    BY <1>1 DEF Init
  <2>4. http.command = "NONE"
    BY DEF Init, EmptyHttp
  <2>5. QED
    BY <2>1, <2>2, <2>3, <2>4 DEF Init, TypeOK, ServerStates
<1>4. sent \in [Clients -> Seq(MessageTokens)]
  BY <1>1 DEF Init
<1>5. http \in HttpRecord
  BY DEF Init, EmptyHttp, None, HttpRecord
<1>6. sock_TCP \in [answer : {<<>>, <<OK>>, <<"head", "tail">>, <<"tail">>}, closed : BOOLEAN]
  BY DEF Init
<1>7. buf_worker \in {"empty", "message", OK, "head", "tail"}
  BY DEF Init
<1>8. result_matrix = [m \in DOMAIN result_matrix |-> result_matrix[m]]
  BY DEF Init
<1>9. DOMAIN result_matrix = {}
  BY DEF Init
<1>10. QED
  BY <1>1, <1>3, <1>4, <1>5, <1>6, <1>7, <1>8, <1>9 DEF Types, Init

LEMMA TypesPost ==
  ASSUME Types, NEW t \in Tasks, Post(t)
  PROVE  Types'
<1>1. PostMessage(t, LastChunk(t)) \in Seq(MessageTokens)
  BY PostMessageIsTokens
<1>2. sent' \in [Clients -> Seq(MessageTokens)]
  BY <1>1 DEF Types, Post, Clients
<1>3. backlog' \in Seq(Clients)
  <2> DEFINE c == "worker"
  <2>1. c \in Clients /\ backlog \in Seq(Clients) /\ backlog' \in {backlog, Append(backlog, c)}
    BY DEF Types, TypeOK, Post, Clients
  <2> HIDE DEF c
  <2>2. QED
    BY <2>1
<1>4. TypeOK'
  BY <1>3, DatabaseAssumption DEF Types, TypeOK, Post, parserVars
<1>5. QED
  BY <1>2, <1>4 DEF Types, Post, parserVars

LEMMA TypesRecvSegment ==
  ASSUME Types, RecvSegment
  PROVE  Types'
<1>1. TypeOK'
  BY DEF Types, TypeOK, RecvSegment, parserVars, countVars
<1>2. /\ buf_worker' \in {"empty", "message", OK, "head", "tail"}
      /\ sock_TCP' \in [answer : {<<>>, <<OK>>, <<"head", "tail">>, <<"tail">>}, closed : BOOLEAN]
  <2>1. CASE sock_TCP.answer = <<OK>>
    BY <2>1 DEF Types, RecvSegment
  <2>2. CASE sock_TCP.answer = <<"head", "tail">>
    BY <2>2 DEF Types, RecvSegment
  <2>3. CASE sock_TCP.answer = <<"tail">>
    BY <2>3 DEF Types, RecvSegment
  <2>4. QED
    BY <2>1, <2>2, <2>3 DEF Types, RecvSegment
<1>3. QED
  BY <1>1, <1>2 DEF Types, RecvSegment, parserVars

LEMMA TypesRecvEnd ==
  ASSUME Types, RecvEnd
  PROVE  Types'
<1>1. TypeOK'
  BY DatabaseAssumption DEF Types, TypeOK, RecvEnd, HangUp, parserVars, countVars
<1>2. QED
  BY <1>1 DEF Types, RecvEnd, HangUp, parserVars

LEMMA TypesAsk ==
  ASSUME Types, NEW q \in Queries, Ask(q)
  PROVE  Types'
<1>1. GetMessage(q) \in Seq(MessageTokens)
  BY GetMessageTokens
<1>2. sent' \in [Clients -> Seq(MessageTokens)]
  BY <1>1 DEF Types, Ask, Clients
<1>3. backlog' \in Seq(Clients)
  <2> DEFINE c == "browser"
  <2>1. c \in Clients /\ backlog \in Seq(Clients) /\ backlog' \in {backlog, Append(backlog, c)}
    BY DEF Types, TypeOK, Ask, Clients
  <2> HIDE DEF c
  <2>2. QED
    BY <2>1
<1>4. TypeOK'
  <2>1. gets' \in 0 .. MaxGets
    <3>1. gets \in 0 .. MaxGets /\ gets < MaxGets /\ gets' = gets + 1
      BY DEF Types, TypeOK, Ask
    <3>2. QED
      BY <3>1, DatabaseAssumption
  <2>2. QED
    BY <1>3, <2>1 DEF Types, TypeOK, Ask, parserVars, workerVars
<1>5. QED
  BY <1>2, <1>4 DEF Types, Ask, parserVars, workerVars

LEMMA TypesAccept ==
  ASSUME Types, Accept
  PROVE  Types'
<1>1. newsock_TCP' \in Clients /\ backlog' \in Seq(Clients) /\ "none" \notin Clients
  BY DEF Types, TypeOK, Accept, Clients
<1>2. TypeOK'
  BY <1>1 DEF Types, TypeOK, Accept, parserVars, workerVars, countVars, ServerStates
<1>3. QED
  BY <1>2 DEF Types, Accept, parserVars, workerVars

LEMMA TypesReceive ==
  ASSUME Types, Receive
  PROVE  Types'
<1>1. newsock_TCP \in Clients
  BY DEF Types, TypeOK, Receive
<1>2. PICK b \in Received(sent[newsock_TCP]) :
        buf_TCP' = b /\ failures' \in 0 .. MaxFailures
  BY DatabaseAssumption DEF Receive, Types, TypeOK
<1>3. sent[newsock_TCP] \in Seq(MessageTokens)
  BY <1>1 DEF Types
<1>4. buf_TCP' \in Seq(Tokens)
  BY <1>2, <1>3, ReceivedIsCut
<1>5. sent' \in [Clients -> Seq(MessageTokens)]
  <2>1. <<>> \in Seq(MessageTokens)
    OBVIOUS
  <2>2. QED
    BY <2>1, <1>1, Zenon DEF Types, Receive
<1>6. message' \in 1 .. Len(buf_TCP') + 1
  <2>1. message' = 1
    BY DEF Receive, Types
  <2>2. Len(buf_TCP') \in Nat
    BY <1>4
  <2>3. QED
    BY <2>1, <2>2
<1>7. TypeOK'
  BY <1>2, <1>6 DEF Types, TypeOK, Receive, workerVars, ServerStates
<1>8. QED
  BY <1>4, <1>5, <1>7 DEF Types, Receive, workerVars

\* What is not NUL was received.
LEMMA TokenInBuffer ==
  ASSUME buf_TCP \in Seq(Tokens), NEW i \in Nat \ {0}, Token(i) # NUL
  PROVE  i \in 1 .. Len(buf_TCP) /\ Token(i) = buf_TCP[i]
BY DEF Token

\* An invalid message leaves the parser where it is.
LEMMA TypesInvalid ==
  ASSUME Types, server \in {"request", "fields"}, Invalid,
         UNCHANGED <<workerVars, sock_TCP, backlog, sent, newsock_TCP, result_matrix, page, countVars>>
  PROVE  Types'
<1>1. TypeOK'
  BY DEF Types, TypeOK, Invalid, workerVars, parserVars, countVars, ServerStates
<1>2. QED
  BY <1>1 DEF Types, Invalid, workerVars, parserVars

\* The parser may go on if it stays in the buffer.
LEMMA TypesParser ==
  ASSUME Types, server \in {"request", "fields"},
         http' \in HttpRecord, message' \in 1 .. Len(buf_TCP) + 1, buf_TCP' = buf_TCP,
         server' \in {"fields", "valid"},
         UNCHANGED <<workerVars, sock_TCP, backlog, sent, newsock_TCP, result_matrix, page, countVars>>
  PROVE  Types'
<1>1. http'.command \in {"NONE", "GET", "POST"}
  BY DEF HttpRecord
<1>2. TypeOK'
  BY <1>1 DEF Types, TypeOK, workerVars, countVars, ServerStates
<1>3. QED
  BY <1>2 DEF Types, workerVars

\* Where a line ends in the buffer.
LEMMA LineEnd ==
  ASSUME buf_TCP \in Seq(Tokens), NEW i \in Nat \ {0}, NEW ends,
         ends = {j \in i .. Len(buf_TCP) : buf_TCP[j] = CRLF}, ends # {}
  PROVE  /\ Min(ends) \in i .. Len(buf_TCP) /\ buf_TCP[Min(ends)] = CRLF
         /\ \A j \in i .. Len(buf_TCP) : buf_TCP[j] = CRLF => Min(ends) <= j
<1>1. ends \in SUBSET Nat
  OBVIOUS
<1>2. Min(ends) \in ends /\ \A j \in ends : Min(ends) <= j
  BY <1>1, LeastElement
<1>3. QED
  BY <1>2

LEMMA TypesReadRequestLine ==
  ASSUME Types, ReadRequestLine
  PROVE  Types'
<1> DEFINE length == NumberLength(2)
           ends == {i \in 3 + length .. Len(buf_TCP) : buf_TCP[i] = CRLF}
           ok == Token(1) \in {"GET /", "POST /"} /\ length > 0 /\ Token(2 + length) = " HTTP/"
                 /\ ends # {}
<1>1. CASE ok
  <2>1. buf_TCP \in Seq(Tokens) /\ Len(buf_TCP) \in Nat
    BY DEF Types
  <2>2. 2 \in 1 .. Len(buf_TCP) + 1
    <3>1. Token(1) # NUL
      BY <1>1 DEF NUL
    <3>2. QED
      BY <2>1, <3>1, TokenInBuffer
  <2>3. length \in Nat /\ NumberAt(2) \in Int
    BY <2>1, <2>2, NumberLengthFacts, NumberAtInt
  <2> HIDE DEF length
  <2>4. Min(ends) \in 3 + length .. Len(buf_TCP)
    <3> DEFINE first == 3 + length
    <3>1. first \in Nat \ {0}
      BY <2>3
    <3>2. ends # {}
      BY <1>1
    <3>3. ends = {j \in first .. Len(buf_TCP) : buf_TCP[j] = CRLF}
      OBVIOUS
    <3> HIDE DEF first, ends
    <3>4. Min(ends) \in first .. Len(buf_TCP)
      BY <2>1, <3>1, <3>2, <3>3, LineEnd
    <3>5. QED
      BY <3>4 DEF first
  <2> HIDE DEF ends
  <2>5. /\ http' = [EmptyHttp EXCEPT !.command = IF Token(1) = "GET /" THEN "GET" ELSE "POST",
                                     !.target = NumberAt(2)]
        /\ message' = Min(ends) + 1 /\ server' = "fields" /\ buf_TCP' = buf_TCP
    <3>1. IF ok THEN http' = [EmptyHttp EXCEPT !.command = IF Token(1) = "GET /" THEN "GET" ELSE "POST",
                                              !.target = NumberAt(2)]
                    /\ message' = Min(ends) + 1 /\ server' = "fields" /\ UNCHANGED buf_TCP
          ELSE Invalid
      BY DEF ReadRequestLine, length, ends
    <3> HIDE DEF ok
    <3>2. QED
      BY <1>1, <3>1 DEF ok
  <2>6. http' \in HttpRecord
    <3> DEFINE command == IF Token(1) = "GET /" THEN "GET" ELSE "POST"
    <3>1. command \in {"NONE", "GET", "POST"}
      OBVIOUS
    <3>2. http' = [EmptyHttp EXCEPT !.command = command, !.target = NumberAt(2)]
      BY <2>5
    <3> HIDE DEF command
    <3>3. http' = [command |-> command, target |-> NumberAt(2), row |-> None, col |-> None,
                   content_length |-> None, last_chunk |-> FALSE, content |-> 0]
      BY <3>2 DEF EmptyHttp
    <3>4. None \in Int
      BY DEF None
    <3>5. QED
      BY <2>3, <3>1, <3>3, <3>4 DEF HttpRecord
  <2>7. message' \in 1 .. Len(buf_TCP) + 1
    BY <2>1, <2>3, <2>4, <2>5
  <2>8. QED
    BY <2>5, <2>6, <2>7, TypesParser DEF ReadRequestLine
<1>2. CASE ~ok
  <2>1. Invalid
    BY <1>2 DEF ReadRequestLine
  <2>2. QED
    BY <2>1, TypesInvalid DEF ReadRequestLine
<1>3. QED
  BY <1>1, <1>2

LEMMA TypesReadNumberField ==
  ASSUME Types, NEW name \in MessageTokens, NEW key \in {"row", "col", "content_length"},
         ReadNumberField(name, key)
  PROVE  Types'
<1> DEFINE end == message + 1 + NumberLength(message + 1)
           ok == http[key] = None /\ end > message + 1 /\ Token(end) = CRLF
<1>1. CASE ok
  <2>1. buf_TCP \in Seq(Tokens) /\ message \in 1 .. Len(buf_TCP) + 1 /\ Len(buf_TCP) \in Nat
    BY DEF Types, TypeOK
  <2>2. message + 1 \in 1 .. Len(buf_TCP) + 1
    <3>1. Token(message) = name
      BY DEF ReadNumberField
    <3>2. Token(message) # NUL
      BY <3>1, NoFragment DEF Tokens
    <3>3. QED
      BY <2>1, <3>2, TokenInBuffer
  <2>3. NumberLength(message + 1) \in Nat /\ NumberAt(message + 1) \in Int
    BY <2>1, <2>2, NumberLengthFacts, NumberAtInt
  <2>4. end \in Nat \ {0}
    BY <2>1, <2>3
  <2>5. end \in 1 .. Len(buf_TCP)
    <3> HIDE DEF end
    <3>1. Token(end) # NUL
      <4>1. CRLF # NUL
        BY DEF CRLF, NUL
      <4>2. QED
        BY <1>1, <4>1
    <3>2. QED
      BY <2>1, <2>4, <3>1, TokenInBuffer
  <2>6. /\ http' = [http EXCEPT ![key] = NumberAt(message + 1)]
        /\ message' = end + 1 /\ server' = server /\ buf_TCP' = buf_TCP
    BY <1>1 DEF ReadNumberField
  <2>7. http' \in HttpRecord
    <3>1. http \in HttpRecord
      BY DEF Types
    <3>2. CASE key = "row"
      BY <2>3, <2>6, <3>1, <3>2 DEF HttpRecord
    <3>3. CASE key = "col"
      BY <2>3, <2>6, <3>1, <3>3 DEF HttpRecord
    <3>4. CASE key = "content_length"
      BY <2>3, <2>6, <3>1, <3>4 DEF HttpRecord
    <3>5. QED
      BY <3>2, <3>3, <3>4
  <2> HIDE DEF end
  <2>8. message' \in 1 .. Len(buf_TCP) + 1
    BY <2>1, <2>5, <2>6
  <2>9. QED
    BY <2>6, <2>7, <2>8, TypesParser DEF ReadNumberField
<1>2. CASE ~ok
  <2>1. Invalid
    BY <1>2 DEF ReadNumberField
  <2>2. QED
    BY <2>1, TypesInvalid DEF ReadNumberField
<1>3. QED
  BY <1>1, <1>2

LEMMA TypesReadLastChunk ==
  ASSUME Types, ReadLastChunk
  PROVE  Types'
<1>1. buf_TCP \in Seq(Tokens) /\ message \in 1 .. Len(buf_TCP) + 1 /\ Len(buf_TCP) \in Nat
  BY DEF Types, TypeOK
<1>2. Token(message + 2) # NUL
  BY DEF ReadLastChunk, AtLastChunk, CRLF, NUL
<1>3. message + 2 \in 1 .. Len(buf_TCP)
  BY <1>1, <1>2, TokenInBuffer
<1>4. message' = message + 3
  BY DEF ReadLastChunk
<1>5. message' \in 1 .. Len(buf_TCP) + 1
  BY <1>1, <1>3, <1>4
<1>6. http' \in HttpRecord
  BY DEF Types, HttpRecord, ReadLastChunk
<1>7. QED
  BY <1>5, <1>6, TypesParser DEF ReadLastChunk

LEMMA TypesSkipLine ==
  ASSUME Types, SkipLine
  PROVE  Types'
<1> DEFINE ends == {i \in message .. Len(buf_TCP) : buf_TCP[i] = CRLF}
<1>1. CASE ends = {}
  <2>1. Invalid
    BY <1>1 DEF SkipLine
  <2>2. QED
    BY <2>1, TypesInvalid DEF SkipLine
<1>2. CASE ends # {}
  <2>1. buf_TCP \in Seq(Tokens) /\ message \in 1 .. Len(buf_TCP) + 1 /\ Len(buf_TCP) \in Nat
    BY DEF Types, TypeOK
  <2>2. Min(ends) \in message .. Len(buf_TCP)
    <3>1. message \in Nat \ {0}
      BY <2>1
    <3>2. ends # {} /\ ends = {j \in message .. Len(buf_TCP) : buf_TCP[j] = CRLF}
      BY <1>2
    <3> HIDE DEF ends
    <3>3. QED
      BY <2>1, <3>1, <3>2, LineEnd
  <2>3. message' = Min(ends) + 1 /\ UNCHANGED <<server, http, buf_TCP>>
    BY <1>2 DEF SkipLine
  <2> HIDE DEF ends
  <2>4. message' \in 1 .. Len(buf_TCP) + 1
    BY <2>1, <2>2, <2>3
  <2>5. http' \in HttpRecord
    BY <2>3 DEF Types
  <2>6. QED
    BY <2>3, <2>4, <2>5, TypesParser DEF SkipLine
<1>3. QED
  BY <1>1, <1>2

LEMMA TypesEndOfGet ==
  ASSUME Types, EndOfGet
  PROVE  Types'
<1>1. http' \in HttpRecord /\ message' \in 1 .. Len(buf_TCP) + 1
  BY DEF Types, TypeOK, EndOfGet, parserVars
<1>2. QED
  BY <1>1, TypesParser DEF EndOfGet, parserVars

\* Behind the blank lines there is a token, or the NUL behind the message.
LEMMA BodyBegins ==
  ASSUME buf_TCP \in Seq(Tokens), message \in 1 .. Len(buf_TCP) + 1, NEW bodies,
         bodies = {i \in message .. Len(buf_TCP) + 1 : Token(i) # CRLF}
  PROVE  /\ Min(bodies) \in message .. Len(buf_TCP) + 1 /\ Token(Min(bodies)) # CRLF
         /\ \A i \in message .. Len(buf_TCP) + 1 : Token(i) # CRLF => Min(bodies) <= i
<1>1. Len(buf_TCP) + 1 \in bodies
  <2>1. Len(buf_TCP) \in Nat /\ Len(buf_TCP) + 1 \notin DOMAIN buf_TCP
    OBVIOUS
  <2>2. Token(Len(buf_TCP) + 1) = NUL /\ NUL # CRLF
    BY <2>1 DEF Token, NUL, CRLF
  <2>3. QED
    BY <2>1, <2>2
<1>2. bodies \in SUBSET Nat
  OBVIOUS
<1>3. Min(bodies) \in bodies /\ \A j \in bodies : Min(bodies) <= j
  BY <1>1, <1>2, LeastElement
<1>4. QED
  BY <1>3

LEMMA TypesEndOfHeader ==
  ASSUME Types, EndOfHeader
  PROVE  Types'
<1> DEFINE bodies == {i \in message .. Len(buf_TCP) + 1 : Token(i) # CRLF}
           body == Min(bodies)
<1>1. buf_TCP \in Seq(Tokens) /\ message \in 1 .. Len(buf_TCP) + 1 /\ Len(buf_TCP) \in Nat
      /\ http \in HttpRecord
  BY DEF Types, TypeOK
<1>2. body \in message .. Len(buf_TCP) + 1
  BY <1>1, BodyBegins
<1> HIDE DEF bodies
<1>3. CASE http.command = "GET"
  <2>1. server' = "valid" /\ UNCHANGED parserVars
    BY <1>3 DEF EndOfHeader
  <2>2. QED
    BY <1>1, <2>1, TypesParser DEF EndOfHeader, parserVars
<1>4. CASE http.command = "POST" /\ BodyMatches(body)
  <2>1. http' = [http EXCEPT !.content = NumberAt(body)] /\ server' = "valid"
        /\ UNCHANGED <<buf_TCP, message>>
    BY <1>4 DEF EndOfHeader, bodies
  <2>2. NumberAt(body) \in Int
    <3> HIDE DEF body
    <3>1. body \in 1 .. Len(buf_TCP) + 1
      BY <1>1, <1>2
    <3>2. QED
      BY <1>1, <3>1, NumberAtInt
  <2>3. http' \in HttpRecord
    BY <1>1, <2>1, <2>2 DEF HttpRecord
  <2>4. QED
    BY <1>1, <2>1, <2>3, TypesParser DEF EndOfHeader
<1>5. CASE http.command # "GET" /\ ~(http.command = "POST" /\ BodyMatches(body))
  <2>1. Invalid
    BY <1>5 DEF EndOfHeader, bodies
  <2>2. QED
    BY <2>1, TypesInvalid DEF EndOfHeader
<1>6. QED
  BY <1>3, <1>4, <1>5

LEMMA TypesRespondGet ==
  ASSUME Types, RespondGet
  PROVE  Types'
<1>1. TypeOK'
  BY DEF Types, TypeOK, RespondGet, workerVars, parserVars, countVars, ServerStates
<1>2. QED
  BY <1>1 DEF Types, RespondGet, workerVars, parserVars

\* The rows of a matrix, of which there may be none.
LEMMA RowsAreSequences ==
  ASSUME Types, NEW m
  PROVE  Rows(m) \in Seq(Seq(Cell))
<1>1. <<>> \in Seq(Seq(Cell))
  OBVIOUS
<1>2. QED
  BY <1>1, Zenon DEF Types, Rows

\* An answer has one segment or two; a second one is counted.
LEMMA AnswersCounted ==
  ASSUME NEW a \in Answers, failures \in 0 .. MaxFailures
  PROVE  /\ a \in {<<OK>>, <<"head", "tail">>}
         /\ failures + Len(a) - 1 \in 0 .. MaxFailures
<1>1. MaxFailures \in Nat
  BY DatabaseAssumption
<1>2. CASE a = <<OK>>
  BY <1>1, <1>2
<1>3. CASE a = <<"head", "tail">> /\ failures < MaxFailures
  BY <1>1, <1>3
<1>4. QED
  BY <1>2, <1>3 DEF Answers, OK

\* The value that is added is that of the task a worker is posting.
LEMMA PostIsServed ==
  ASSUME Types, Connection, Browser, RespondPost
  PROVE  Served /\ worker = "waiting" /\ task \in Tasks
BY DEF Types, TypeOK, Connection, Browser, RespondPost

LEMMA TypesRespondPost ==
  ASSUME Types, RespondPost, task \in Tasks
  PROVE  Types'
<1>1. task \in Tasks \cup {NoTask} /\ stored \subseteq Tasks /\ http \in HttpRecord
  BY DEF Types, TypeOK
<1>2. CASE http.row < 0 \/ http.col < 0
  <2>1. server' = "terminated" /\ UNCHANGED <<result_matrix, counted, stored, sock_TCP, failures>>
    BY <1>2 DEF RespondPost
  <2>2. TypeOK'
    BY <2>1 DEF Types, TypeOK, RespondPost, workerVars, parserVars, ServerStates
  <2>3. QED
    BY <2>1, <2>2 DEF Types, RespondPost, workerVars, parserVars
<1>3. CASE ~(http.row < 0 \/ http.col < 0)
  <2>1. /\ result_matrix' = [m \in DOMAIN result_matrix \cup {http.target} |->
             IF m = http.target THEN addResult(m, http.content, http.row, http.col)
             ELSE result_matrix[m]]
        /\ counted' = TRUE /\ stored' = stored \cup {task} /\ server' = "close"
    BY <1>3 DEF RespondPost
  <2>2. PICK a \in Answers : sock_TCP' = [sock_TCP EXCEPT !.answer = a]
                             /\ failures' = failures + Len(a) - 1
    BY <1>3 DEF RespondPost
  <2>3. /\ a \in {<<OK>>, <<"head", "tail">>} /\ failures' \in 0 .. MaxFailures
    BY <2>2, AnswersCounted DEF Types, TypeOK
  <2>4. sock_TCP' \in [answer : {<<>>, <<OK>>, <<"head", "tail">>, <<"tail">>}, closed : BOOLEAN]
    BY <2>2, <2>3 DEF Types
  <2>5. TypeOK'
    BY <2>1, <2>3 DEF Types, TypeOK, RespondPost, workerVars, parserVars, ServerStates
  <2>6. /\ http.row \in Nat /\ http.col \in Nat /\ http.content \in Int /\ http.target \in Int
    BY <1>1, <1>3 DEF HttpRecord
  <2>7. addResult(http.target, http.content, http.row, http.col) \in Seq(Seq(Cell))
    BY <2>6, RowsAreSequences, AddResultFacts
  <2>8. \A m \in DOMAIN result_matrix' : m \in Int /\ result_matrix'[m] \in Seq(Seq(Cell))
    BY <2>1, <2>6, <2>7 DEF Types
  <2>9. result_matrix' = [m \in DOMAIN result_matrix' |-> result_matrix'[m]]
    BY <2>1
  <2>10. QED
    BY <2>1, <2>4, <2>5, <2>8, <2>9 DEF Types, RespondPost, workerVars, parserVars
<1>4. QED
  BY <1>2, <1>3

\* What the parser starts with.
LEMMA EmptyParser ==
  /\ <<>> \in Seq(Tokens) /\ 1 \in 1 .. Len(<<>>) + 1
  /\ EmptyHttp \in HttpRecord /\ EmptyHttp.command = "NONE"
<1>1. <<>> \in Seq(Tokens) /\ 1 \in 1 .. Len(<<>>) + 1
  OBVIOUS
<1>2. None \in Int
  BY DEF None
<1>3. EmptyHttp \in HttpRecord /\ EmptyHttp.command = "NONE"
  BY <1>2 DEF EmptyHttp, HttpRecord
<1>4. QED
  BY <1>1, <1>3

LEMMA TypesClose ==
  ASSUME Types, Close
  PROVE  Types'
<1>1. /\ newsock_TCP' = "none" /\ buf_TCP' = <<>> /\ message' = 1 /\ http' = EmptyHttp
      /\ server' = "accept"
  BY DEF Close
<1>2. message' \in 1 .. Len(buf_TCP') + 1 /\ http'.command \in {"NONE", "GET", "POST"}
  BY <1>1, EmptyParser
<1>3. TypeOK'
  BY <1>1, <1>2 DEF Types, TypeOK, Close, workerVars, countVars, ServerStates
<1>4. sock_TCP' \in [answer : {<<>>, <<OK>>, <<"head", "tail">>, <<"tail">>}, closed : BOOLEAN]
  BY DEF Types, Close
<1>5. buf_TCP' \in Seq(Tokens) /\ http' \in HttpRecord
  BY <1>1, EmptyParser
<1>6. QED
  BY <1>1, <1>3, <1>4, <1>5 DEF Types, Close, workerVars

LEMMA TypesEndProgram ==
  ASSUME Types, EndProgram
  PROVE  Types'
<1>1. <<>> \in Seq(Clients)
  OBVIOUS
<1>2. TypeOK'
  BY <1>1 DEF Types, TypeOK, EndProgram, workerVars, parserVars, countVars, ServerStates
<1>3. sock_TCP' \in [answer : {<<>>, <<OK>>, <<"head", "tail">>, <<"tail">>}, closed : BOOLEAN]
  BY DEF Types, EndProgram
<1>4. QED
  BY <1>2, <1>3 DEF Types, EndProgram, workerVars, parserVars

LEMMA TypesStutter ==
  ASSUME Types, UNCHANGED vars
  PROVE  Types'
<1>1. TypeOK'
  BY DEF Types, TypeOK, vars, workerVars, parserVars, countVars
<1>2. QED
  BY <1>1 DEF Types, vars, workerVars, parserVars

\* Every step keeps the types.
LEMMA TypesNext ==
  ASSUME Types, Connection, Browser, [Next]_vars
  PROVE  Types'
<1>1. ASSUME ReadRow
      PROVE  Types'
  <2> DEFINE name == "Row: "
             key == "row"
  <2>1. name \in MessageTokens /\ key \in {"row", "col", "content_length"} /\ ReadNumberField(name, key)
    BY <1>1 DEF ReadRow, MessageTokens
  <2> HIDE DEF name, key
  <2>2. QED
    BY <2>1, TypesReadNumberField
<1>2. ASSUME ReadColumn
      PROVE  Types'
  <2> DEFINE name == "Column: "
             key == "col"
  <2>1. name \in MessageTokens /\ key \in {"row", "col", "content_length"} /\ ReadNumberField(name, key)
    BY <1>2 DEF ReadColumn, MessageTokens
  <2> HIDE DEF name, key
  <2>2. QED
    BY <2>1, TypesReadNumberField
<1>3. ASSUME ReadContentLength
      PROVE  Types'
  <2> DEFINE name == "Content-Length: "
             key == "content_length"
  <2>1. name \in MessageTokens /\ key \in {"row", "col", "content_length"} /\ ReadNumberField(name, key)
    BY <1>3 DEF ReadContentLength, MessageTokens
  <2> HIDE DEF name, key
  <2>2. QED
    BY <2>1, TypesReadNumberField
<1>4. ASSUME ReadField
      PROVE  Types'
  BY <1>1, <1>2, <1>3, <1>4, TypesReadLastChunk, TypesSkipLine, TypesEndOfGet, TypesEndOfHeader
  DEF ReadField
<1>5. ASSUME ServerStep
      PROVE  Types'
  BY <1>4, <1>5, TypesAccept, TypesReceive, TypesReadRequestLine, TypesRespondGet,
     TypesRespondPost, PostIsServed, TypesClose DEF ServerStep
<1>6. QED
  BY <1>5, TypesRecvSegment, TypesRecvEnd, TypesEndProgram, TypesPost, TypesAsk, TypesStutter
  DEF Next, WorkerStep

-----------------------------------------------------------------------------
(***************************************************************************)
(* The worker's connection                                                 *)
(***************************************************************************)

\* While the worker waits, its message is the one it has sent.
LEMMA MessageStays ==
  ASSUME UNCHANGED <<task, acknowledged>>
  PROVE  Message' = Message /\ LastChunk(task)' = LastChunk(task)
<1>1. LastChunk(task)' = LastChunk(task)
  BY DEF LastChunk
<1>2. QED
  BY <1>1 DEF Message

\* There is no connection yet.
LEMMA ConnectionInit ==
  ASSUME Init
  PROVE  Connection
<1>1. backlog = <<>> /\ newsock_TCP = "none" /\ buf_worker = "empty" /\ sock_TCP.answer = <<>>
  BY DEF Init
<1>2. DOMAIN backlog = {}
  BY <1>1
<1>3. <<OK>> # <<>>
  OBVIOUS
<1>4. QED
  BY <1>1, <1>2, <1>3 DEF Connection, Queued, Served, OK

\* Steps that move on with a message, or end it, without an answer.
LEMMA ConnectionKept ==
  ASSUME Connection, server \in {"request", "fields", "valid"},
         server' \in {"request", "fields", "valid", "close"},
         UNCHANGED <<worker, task, sock_TCP, buf_worker, acknowledged, backlog, sent,
                     newsock_TCP, counted>>
  PROVE  Connection'
<1>1. Message' = Message
  BY MessageStays
<1>2. QED
  BY <1>1 DEF Connection, Queued, Served

\* The idle worker has no connection, so that its new one is the only one.
LEMMA ConnectionPost ==
  ASSUME Types, Connection, NEW t \in Tasks, Post(t)
  PROVE  Connection'
<1>1. ~Queued /\ ~Served /\ newsock_TCP' = newsock_TCP
  BY DEF Connection, Post
<1>2. sent'["worker"] = Message'
  <2>1. LastChunk(t)' = LastChunk(t)
    BY DEF LastChunk, Post
  <2>2. Message' = PostMessage(t, LastChunk(t))
    BY <2>1 DEF Message, Post
  <2>3. QED
    BY <2>2 DEF Types, Post, Clients
<1>3. \A i, j \in DOMAIN backlog' : backlog'[i] = "worker" /\ backlog'[j] = "worker" => i = j
  <2>1. backlog \in Seq(Clients) /\ \A i \in DOMAIN backlog : backlog[i] # "worker"
    BY <1>1 DEF Types, TypeOK, Queued
  <2>2. backlog' = backlog \/ backlog' = Append(backlog, "worker")
    BY DEF Post
  <2> DEFINE c == "worker"
  <2> HIDE DEF c
  <2>3. \A i \in DOMAIN Append(backlog, c) : i = Len(backlog) + 1 \/ (i \in DOMAIN backlog /\ Append(backlog, c)[i] = backlog[i])
    BY <2>1
  <2>4. QED
    BY <2>1, <2>2, <2>3 DEF c
<1>4. Queued' => worker' = "waiting"
  BY <1>1 DEF Post, Queued
<1>5. /\ sock_TCP'.answer = <<>> /\ ~sock_TCP'.closed /\ buf_worker' = "message" /\ ~counted'
  BY DEF Post
<1>6. <<OK>> # <<>> /\ OK # "message"
  BY DEF OK
<1>7. QED
  BY <1>1, <1>2, <1>3, <1>4, <1>5, <1>6 DEF Connection, Queued, Served

\* The worker gets a segment only after the database has answered.
LEMMA ConnectionRecvSegment ==
  ASSUME Types, Connection, RecvSegment
  PROVE  Connection'
<1>1. ~Queued /\ ~(Served /\ server \in {"recv", "request", "fields", "valid"})
  BY DEF Connection, RecvSegment
<1>2. buf_worker' = OK \/ sock_TCP'.answer = <<OK>> => counted
  <2>1. CASE sock_TCP.answer = <<OK>>
    BY <2>1 DEF Connection
  <2>2. CASE sock_TCP.answer = <<"head", "tail">>
    <3>1. buf_worker' = "head" /\ sock_TCP'.answer = <<"tail">>
      BY <2>2 DEF RecvSegment, Types
    <3>2. QED
      BY <3>1 DEF OK
  <2>3. CASE sock_TCP.answer = <<"tail">>
    <3>1. buf_worker' = "tail" /\ sock_TCP'.answer = <<>>
      BY <2>3 DEF RecvSegment, Types
    <3>2. QED
      BY <3>1 DEF OK
  <2>4. QED
    BY <2>1, <2>2, <2>3 DEF RecvSegment, Types
<1>3. sock_TCP'.closed = sock_TCP.closed
  BY DEF Types, RecvSegment
<1>4. QED
  BY <1>1, <1>2, <1>3 DEF Connection, Queued, Served, RecvSegment, countVars

\* The worker gets the end only when its connection is gone.
LEMMA ConnectionRecvEnd ==
  ASSUME Connection, RecvEnd
  PROVE  Connection'
<1>1. ~Queued /\ ~Served
  BY DEF Connection, RecvEnd
<1>2. <<OK>> # <<>> /\ OK # "empty"
  BY DEF OK
<1>3. QED
  BY <1>1, <1>2 DEF Connection, Queued, Served, RecvEnd, HangUp

\* The browser's connection is not the worker's.
LEMMA ConnectionAsk ==
  ASSUME Types, Connection, NEW q \in Queries, Ask(q)
  PROVE  Connection'
<1>1. Message' = Message
  BY MessageStays DEF Ask, workerVars
<1>2. \A i \in DOMAIN backlog' : backlog'[i] = "worker" => i \in DOMAIN backlog /\ backlog[i] = "worker"
  <2>1. backlog \in Seq(Clients) /\ backlog' = Append(backlog, "browser")
    BY DEF Types, TypeOK, Ask
  <2> DEFINE c == "browser"
  <2> HIDE DEF c
  <2>2. \A i \in DOMAIN Append(backlog, c) :
          \/ i = Len(backlog) + 1 /\ Append(backlog, c)[i] = c
          \/ i \in DOMAIN backlog /\ Append(backlog, c)[i] = backlog[i]
    BY <2>1
  <2>3. QED
    BY <2>1, <2>2 DEF c
<1>3. Queued' => Queued
  BY <1>2 DEF Queued
<1>4. sent'["worker"] = sent["worker"]
  BY DEF Types, Ask, Clients
<1>5. QED
  BY <1>1, <1>2, <1>3, <1>4 DEF Connection, Served, Ask, workerVars

\* A connection that is taken from the backlog is the one being served.
LEMMA ConnectionAccept ==
  ASSUME Types, Connection, Accept
  PROVE  Connection'
<1>1. Message' = Message
  BY MessageStays DEF Accept, workerVars
<1>2. /\ backlog \in Seq(Clients) /\ backlog # <<>> /\ backlog' = Tail(backlog)
      /\ newsock_TCP' = backlog[1] /\ 1 \in DOMAIN backlog
      /\ \A i \in DOMAIN backlog' : i + 1 \in DOMAIN backlog /\ backlog'[i] = backlog[i + 1] /\ i \in Nat \ {0}
  BY DEF Types, TypeOK, Accept
<1>3. Queued' \/ Served' => Queued
  BY <1>2 DEF Queued, Served
<1>4. Queued' => ~Served'
  <2>1. \A i \in DOMAIN backlog' : backlog'[i] = "worker" /\ backlog[1] = "worker" => i + 1 = 1
    BY <1>2 DEF Connection
  <2>2. \A i \in DOMAIN backlog' : i + 1 # 1
    BY <1>2
  <2>3. QED
    BY <1>2, <2>1, <2>2 DEF Queued, Served
<1>5. \A i, j \in DOMAIN backlog' : backlog'[i] = "worker" /\ backlog'[j] = "worker" => i = j
  <2>1. \A i, j \in DOMAIN backlog' : backlog'[i] = "worker" /\ backlog'[j] = "worker" => i + 1 = j + 1
    BY <1>2 DEF Connection
  <2>2. \A i, j \in DOMAIN backlog' : i + 1 = j + 1 => i = j
    BY <1>2
  <2>3. QED
    BY <2>1, <2>2
<1>6. QED
  BY <1>1, <1>3, <1>4, <1>5 DEF Connection, Accept, workerVars, countVars

\* The message that recv cuts is the worker's.
LEMMA ConnectionReceive ==
  ASSUME Types, Connection, Receive
  PROVE  Connection'
<1>1. Message' = Message
  BY MessageStays DEF Receive, workerVars
<1>2. ~Served => sent'["worker"] = sent["worker"]
  BY DEF Types, Receive, Served, Clients
<1>3. QED
  BY <1>1, <1>2 DEF Connection, Queued, Served, Receive, workerVars

\* The answer says OK only when the value is counted.
LEMMA ConnectionRespondPost ==
  ASSUME Types, Connection, Browser, RespondPost
  PROVE  Connection'
<1>1. Message' = Message
  BY MessageStays DEF RespondPost, workerVars
<1>2. Served /\ ~Queued
  BY PostIsServed DEF Connection
<1>3. CASE http.row < 0 \/ http.col < 0
  <2>1. server' = "terminated" /\ UNCHANGED <<result_matrix, counted, stored, sock_TCP, failures>>
    BY <1>3 DEF RespondPost
  <2>2. QED
    BY <1>1, <1>2, <2>1 DEF Connection, Queued, Served, RespondPost, workerVars
<1>4. CASE ~(http.row < 0 \/ http.col < 0)
  <2>1. server' = "close" /\ counted' = TRUE /\ sock_TCP'.closed = sock_TCP.closed
    BY <1>4 DEF Types, RespondPost
  <2>2. QED
    BY <1>1, <1>2, <2>1 DEF Connection, Queued, Served, RespondPost, workerVars
<1>5. QED
  BY <1>3, <1>4

\* The connection served is closed; another one of the worker does not exist.
LEMMA ConnectionClose ==
  ASSUME Types, Connection, Close
  PROVE  Connection'
<1>1. Message' = Message
  BY MessageStays DEF Close, workerVars
<1>2. ~Served' /\ (Queued' <=> Queued) /\ (Queued => ~Served)
  BY DEF Connection, Served, Queued, Close
<1>3. /\ sock_TCP'.answer = sock_TCP.answer
      /\ ~Served => sock_TCP' = sock_TCP
  BY DEF Types, Close, Served
<1>4. QED
  BY <1>1, <1>2, <1>3 DEF Connection, Close, workerVars, countVars

\* All connections are gone.
LEMMA ConnectionEndProgram ==
  ASSUME Types, Connection, EndProgram
  PROVE  Connection'
<1>1. ~Served' /\ ~Queued' /\ DOMAIN backlog' = {}
  BY DEF Types, TypeOK, EndProgram, Served, Queued
<1>2. sock_TCP'.answer = sock_TCP.answer
  BY DEF Types, EndProgram
<1>3. QED
  BY <1>1, <1>2 DEF Connection, EndProgram, workerVars, countVars

\* Every step keeps the worker's connection in one place.
LEMMA ConnectionNext ==
  ASSUME Types, Connection, Browser, [Next]_vars
  PROVE  Connection'
<1>1. ASSUME ReadRequestLine \/ ReadField \/ RespondGet
      PROVE  Connection'
  <2>1. server \in {"request", "fields", "valid"}
    BY <1>1 DEF ReadRequestLine, ReadField, ReadRow, ReadColumn, ReadContentLength, ReadNumberField,
       ReadLastChunk, SkipLine, EndOfGet, EndOfHeader, RespondGet
  <2>2. UNCHANGED <<worker, task, sock_TCP, buf_worker, acknowledged, backlog, sent,
                    newsock_TCP, counted>>
    BY <1>1 DEF ReadRequestLine, ReadField, ReadRow, ReadColumn, ReadContentLength, ReadNumberField,
       ReadLastChunk, SkipLine, EndOfGet, EndOfHeader, RespondGet, workerVars, countVars
  <2>3. server' \in {"request", "fields", "valid", "close"}
    BY <1>1, <2>1 DEF ReadRequestLine, ReadField, ReadRow, ReadColumn, ReadContentLength,
       ReadNumberField, ReadLastChunk, SkipLine, EndOfGet, EndOfHeader, RespondGet, Invalid
  <2>4. QED
    BY <2>1, <2>2, <2>3, ConnectionKept
<1>2. ASSUME UNCHANGED vars
      PROVE  Connection'
  <2>1. Message' = Message
    BY <1>2, MessageStays DEF vars, workerVars
  <2>2. QED
    BY <1>2, <2>1 DEF Connection, Queued, Served, vars, workerVars, countVars
<1>3. ASSUME ServerStep
      PROVE  Connection'
  BY <1>1, <1>3, ConnectionAccept, ConnectionReceive, ConnectionRespondPost, ConnectionClose
  DEF ServerStep
<1>4. QED
  BY <1>2, <1>3, ConnectionRecvSegment, ConnectionRecvEnd, ConnectionEndProgram, ConnectionPost,
     ConnectionAsk DEF Next, WorkerStep

-----------------------------------------------------------------------------
(***************************************************************************)
(* What the parser finds in the worker's message                           *)
(***************************************************************************)

\* A number of the header that ends its line is read whole.
LEMMA FieldIsWhole ==
  ASSUME NEW m \in Seq(MessageTokens), buf_TCP \in Seq(Tokens), IsCut(buf_TCP, m),
         NEW i \in Nat \ {0}, Token(i) \notin {NUL, FRAGMENT},
         NEW v \in Nat, v < IntValues \div 2,
         NEW length, length = Len(numberToString(v)),
         Holds(m, i + 1, numberToString(v)), m[i + length + 1] = CRLF, i + length + 1 <= Len(m),
         NEW end, end = i + 1 + NumberLength(i + 1), Token(end) = CRLF
  PROVE  NumberAt(i + 1) = v /\ end + 1 = i + length + 2
<1>1. i \in 1 .. Len(buf_TCP)
  BY TokenInBuffer
<1>2. i + 1 \in 1 .. Len(buf_TCP) + 1
  BY <1>1
<1>3. length \in Nat
  <2>1. numberToString(v) \in Seq(MessageTokens)
    BY NumberIsTokens
  <2>2. QED
    BY <2>1
<1>4. (i + 1) + length = i + length + 1
  BY <1>3
<1>5. m[(i + 1) + length] \notin Digits /\ (i + 1) + length <= Len(m)
  BY <1>4, NotDigits
<1>6. Token((i + 1) + NumberLength(i + 1)) \notin {NUL, FRAGMENT}
  BY DEF CRLF, NUL, FRAGMENT
<1>7. NumberLength(i + 1) = length /\ NumberAt(i + 1) = Wrap(v)
  <2> DEFINE k == i + 1
  <2>1. /\ k \in 1 .. Len(buf_TCP) + 1 /\ Holds(m, k, numberToString(v)) /\ k + length <= Len(m)
        /\ m[k + length] \notin Digits /\ Token(k + NumberLength(k)) \notin {NUL, FRAGMENT}
    BY <1>2, <1>5, <1>6
  <2> HIDE DEF k
  <2>2. NumberLength(k) = length /\ NumberAt(k) = Wrap(v)
    BY <2>1, HeaderNumber
  <2>3. QED
    BY <2>2 DEF k
<1>8. Wrap(v) = v
  <2>1. IntValues \in Nat \ {0}
    BY DatabaseAssumption
  <2>2. -(IntValues \div 2) <= v
    BY <2>1
  <2>3. QED
    BY <2>2, WrapKeeps
<1>9. QED
  BY <1>3, <1>7, <1>8

\* The lines are inside the message.
LEMMA LinesInside ==
  ASSUME NEW t \in Tasks, NEW last_chunk \in BOOLEAN, NEW m, m = PostMessage(t, last_chunk)
  PROVE  /\ FieldLength(t, 1) + 4 <= Len(m)
         /\ RowAt(t) = FieldLength(t, 1) + 5
         /\ RowAt(t) + FieldLength(t, 2) + 1 <= Len(m)
         /\ ColumnAt(t) = RowAt(t) + FieldLength(t, 2) + 2
         /\ ColumnAt(t) + FieldLength(t, 3) + 1 <= Len(m)
         /\ LastChunkAt(t) = ColumnAt(t) + FieldLength(t, 3) + 2
         /\ LastChunkAt(t) + 2 <= Len(m)
         /\ LengthAt(t) = LastChunkAt(t) + 3
         /\ LengthAt(t) + Len(numberToString(ValueLength(t))) + 1 <= Len(m)
         /\ BlankAt(t) = LengthAt(t) + Len(numberToString(ValueLength(t))) + 2
         /\ ValueAt(t) = BlankAt(t) + 2
<1> DEFINE n1 == FieldLength(t, 1)
           n2 == FieldLength(t, 2)
           n3 == FieldLength(t, 3)
           n4 == ValueLength(t)
           n5 == Len(numberToString(ValueLength(t)))
<1>1. /\ \A i \in 1 .. 3 : FieldLength(t, i) \in Nat \ {0}
      /\ n4 \in Nat \ {0} /\ n5 \in Nat \ {0}
  BY PositionsAreNat
<1>2. 1 \in 1 .. 3 /\ 2 \in 1 .. 3 /\ 3 \in 1 .. 3
  OBVIOUS
<1>3. n1 \in Nat /\ n2 \in Nat /\ n3 \in Nat /\ n4 \in Nat \ {0} /\ n5 \in Nat
  BY <1>1, <1>2
<1>4. /\ RowAt(t) = 5 + n1 /\ ColumnAt(t) = RowAt(t) + n2 + 2 /\ LastChunkAt(t) = ColumnAt(t) + n3 + 2
      /\ LengthAt(t) = LastChunkAt(t) + 3 /\ BlankAt(t) = LengthAt(t) + n5 + 2
      /\ ValueAt(t) = BlankAt(t) + 2
  BY DEF RowAt, ColumnAt, LastChunkAt, LengthAt, BlankAt, ValueAt
<1>5. Len(m) = ValueAt(t) + n4 - 1
  BY PostMessageTokens DEF PostLines
<1> HIDE DEF n1, n2, n3, n4, n5
<1>6. /\ n1 + 4 <= Len(m) /\ RowAt(t) = n1 + 5
      /\ RowAt(t) + n2 + 1 <= Len(m)
      /\ ColumnAt(t) + n3 + 1 <= Len(m)
      /\ LastChunkAt(t) + 2 <= Len(m)
      /\ LengthAt(t) + n5 + 1 <= Len(m)
  BY <1>3, <1>4, <1>5
<1>7. QED
  BY <1>4, <1>6 DEF n1, n2, n3, n4, n5

\* The tokens behind the number of the matrix.
LEMMA RequestLineTokens ==
  ASSUME NEW t \in Tasks, NEW last_chunk \in BOOLEAN, NEW m, m = PostMessage(t, last_chunk),
         NEW n, n = FieldLength(t, 1)
  PROVE  /\ m \in Seq(MessageTokens) /\ Holds(m, 2, numberToString(t.field[1]))
         /\ m[n + 2] \notin Digits /\ m[n + 3] # CRLF /\ m[n + 4] = CRLF
<1>1. " HTTP/" \notin Digits /\ "1.1" # CRLF
  <2>1. Digits = {"0", "1", "2", "3", "4", "5", "6", "7", "8", "9"}
    BY DigitFacts
  <2>2. " HTTP/" \notin Digits
    BY <2>1
  <2>3. "1.1" # CRLF
    BY DEF CRLF
  <2>4. QED
    BY <2>2, <2>3
<1>2. PostLines(m, t, last_chunk)
  BY PostMessageTokens
<1>3. QED
  BY <1>1, <1>2 DEF PostLines

\* The request line of the worker's message, if it is found valid.
LEMMA RequestLineIsWhole ==
  ASSUME NEW t \in Tasks, NEW last_chunk \in BOOLEAN, NEW m, m = PostMessage(t, last_chunk),
         buf_TCP \in Seq(Tokens), IsCut(buf_TCP, m),
         Token(1) \notin {NUL, FRAGMENT}, Token(2 + NumberLength(2)) \notin {NUL, FRAGMENT},
         NEW ends, ends = {i \in 3 + NumberLength(2) .. Len(buf_TCP) : buf_TCP[i] = CRLF}, ends # {}
  PROVE  Token(1) = m[1] /\ NumberAt(2) = t.field[1] /\ Min(ends) + 1 = RowAt(t)
<1> DEFINE v == t.field[1]
           n == FieldLength(t, 1)
<1>1. /\ m \in Seq(MessageTokens) /\ Holds(m, 2, numberToString(v))
      /\ m[n + 2] \notin Digits /\ m[n + 3] # CRLF /\ m[n + 4] = CRLF
  BY RequestLineTokens
<1>2. v \in Nat /\ n \in Nat \ {0} /\ n = Len(numberToString(v)) /\ v < IntValues \div 2
      /\ n + 4 <= Len(m) /\ RowAt(t) = n + 5
  <2>1. 1 \in 1 .. 3
    OBVIOUS
  <2>2. v \in Nat /\ n \in Nat \ {0}
    BY <2>1, PositionsAreNat
  <2>3. v < IntValues \div 2
    BY <2>1, NumberAssumption
  <2>4. QED
    BY <2>2, <2>3, LinesInside DEF FieldLength
<1>3. Token(1) # NUL /\ Token(1) # FRAGMENT
  OBVIOUS
<1>4. 1 <= Len(buf_TCP) /\ Token(1) = m[1]
  <2>1. 1 \in 1 .. 1
    OBVIOUS
  <2>2. QED
    BY <1>1, <1>3, <2>1, CutToken
<1>5. NumberLength(2) = n /\ NumberAt(2) = Wrap(v)
  <2>1. 2 \in 1 .. Len(buf_TCP) + 1
    BY <1>4
  <2>2. 2 + n = n + 2 /\ 2 + n <= Len(m)
    BY <1>1, <1>2
  <2>3. m[2 + n] \notin Digits
    BY <1>1, <2>2
  <2>4. Token(2 + NumberLength(2)) \notin {NUL, FRAGMENT}
    OBVIOUS
  <2> DEFINE k == 2
  <2>5. /\ k \in 1 .. Len(buf_TCP) + 1 /\ Holds(m, k, numberToString(v)) /\ k + n <= Len(m)
        /\ m[k + n] \notin Digits /\ Token(k + NumberLength(k)) \notin {NUL, FRAGMENT}
    BY <1>1, <2>1, <2>2, <2>3, <2>4
  <2> HIDE DEF k, n, v
  <2>6. NumberLength(k) = n /\ NumberAt(k) = Wrap(v)
    BY <1>1, <1>2, <2>5, HeaderNumber
  <2>7. QED
    BY <2>6 DEF k
<1>6. Wrap(v) = v
  <2>1. -(IntValues \div 2) <= v
    BY <1>2, DatabaseAssumption
  <2>2. QED
    BY <1>2, <2>1, WrapKeeps
<1> HIDE DEF n, v
<1>7. Min(ends) = n + 4
  <2>1. /\ Min(ends) \in n + 3 .. Len(buf_TCP) /\ buf_TCP[Min(ends)] = CRLF
        /\ \A j \in n + 3 .. Len(buf_TCP) : buf_TCP[j] = CRLF => Min(ends) <= j
    <3> DEFINE first == n + 3
    <3>1. first \in Nat \ {0} /\ first = 3 + NumberLength(2)
      BY <1>2, <1>5
    <3>2. ends = {i \in first .. Len(buf_TCP) : buf_TCP[i] = CRLF}
      BY <3>1
    <3> HIDE DEF first
    <3>3. /\ Min(ends) \in first .. Len(buf_TCP) /\ buf_TCP[Min(ends)] = CRLF
          /\ \A j \in first .. Len(buf_TCP) : buf_TCP[j] = CRLF => Min(ends) <= j
      BY <3>1, <3>2, LineEnd
    <3>4. QED
      BY <3>3 DEF first
  <2>2. Min(ends) \in Nat \ {0} /\ Min(ends) \in DOMAIN buf_TCP
    BY <1>2, <2>1
  <2>3. Token(Min(ends)) = CRLF /\ CRLF # NUL /\ CRLF # FRAGMENT
    BY <2>1, <2>2 DEF Token, CRLF, NUL, FRAGMENT
  <2>4. \A j \in 1 .. Min(ends) : buf_TCP[j] = m[j]
    BY <1>1, <2>2, <2>3, CutToken
  <2>5. Min(ends) # n + 3
    <3>1. n + 3 \in 1 .. n + 3
      BY <1>2
    <3>2. QED
      BY <1>1, <2>1, <2>4, <3>1
  <2>6. n + 4 <= Min(ends) /\ n + 4 \in n + 3 .. Len(buf_TCP) /\ n + 4 \in 1 .. Min(ends)
    BY <1>2, <2>1, <2>5
  <2>7. buf_TCP[n + 4] = CRLF
    BY <1>1, <2>4, <2>6
  <2>8. Min(ends) <= n + 4
    BY <2>1, <2>6, <2>7
  <2>9. QED
    BY <1>2, <2>2, <2>6, <2>8
<1>8. Token(1) = m[1]
  BY <1>4
<1>9. Min(ends) + 1 = RowAt(t)
  BY <1>2, <1>7
<1>10. QED
  BY <1>5, <1>6, <1>8, <1>9 DEF v

\* What the message holds while the worker is served.
LEMMA MessageFacts ==
  ASSUME Types, Connection, Served
  PROVE  /\ task \in Tasks /\ LastChunk(task) \in BOOLEAN
         /\ Message = PostMessage(task, LastChunk(task)) /\ Message \in Seq(MessageTokens)
         /\ PostLines(Message, task, LastChunk(task))
<1>1. task \in Tasks
  BY DEF Types, TypeOK, Connection
<1>2. LastChunk(task) \in BOOLEAN
  BY LastChunkBoolean
<1>3. PostLines(Message, task, LastChunk(task))
  BY <1>1, <1>2, PostMessageTokens DEF Message
<1>4. QED
  BY <1>1, <1>2, <1>3, PostMessageIsTokens DEF Message

\* At the beginning of a line of the worker's message the buffer holds the
\* line's name, or it ends, perhaps with a part of the name.
LEMMA AtLine ==
  ASSUME Types, Connection, Parsed, Served, server = "fields"
  PROVE  \/ Token(message) \in {NUL, FRAGMENT}
         \/ message = RowAt(task) /\ Token(message) = "Row: " /\ Found(None, None, FALSE, None)
         \/ message = ColumnAt(task) /\ Token(message) = "Column: "
            /\ Found(task.field[2], None, FALSE, None)
         \/ message = LastChunkAt(task) /\ Token(message) = "Last-Chunk: "
            /\ Found(task.field[2], task.field[3], FALSE, None)
         \/ message = LengthAt(task) /\ Token(message) = "Content-Length: "
            /\ Found(task.field[2], task.field[3], LastChunk(task), None)
         \/ message = BlankAt(task) /\ Token(message) = CRLF
            /\ Found(task.field[2], task.field[3], LastChunk(task), ValueLength(task))
<1>1. Message \in Seq(MessageTokens) /\ PostLines(Message, task, LastChunk(task))
  BY MessageFacts
<1>2. IsCut(buf_TCP, Message)
  BY DEF Parsed
<1>3. message \in Nat \ {0} /\ buf_TCP \in Seq(Tokens)
  BY DEF Types, TypeOK
<1>4. Token(message) \in {NUL, FRAGMENT} \/ Token(message) = Message[message]
  BY <1>1, <1>2, <1>3, CutTokens
<1>5. CASE Token(message) = Message[message]
  BY <1>1, <1>5, Zenon DEF PostLines, Parsed
<1>6. QED
  BY <1>4, <1>5

\* There is nothing to show while the worker's message is not being parsed.
LEMMA ParsedVacuous ==
  ASSUME ~Served' \/ server' \notin {"request", "fields", "valid"}
  PROVE  Parsed'
BY DEF Parsed

\* What the parser has found stays while the parser rests.
LEMMA ParsedKept ==
  ASSUME Parsed, UNCHANGED <<newsock_TCP, server, buf_TCP, message, http, task, acknowledged>>
  PROVE  Parsed'
<1>1. Message' = Message /\ LastChunk(task)' = LastChunk(task)
  BY MessageStays
<1>2. QED
  BY <1>1 DEF Parsed, Served, Found

\* The step behind a line of which the parser has found what it says.
LEMMA ParsedNextLine ==
  ASSUME Parsed, Served, server \in {"request", "fields"}, server' = "fields",
         UNCHANGED <<newsock_TCP, buf_TCP, task, acknowledged>>,
         http'.command = "POST", http'.target = task.field[1],
         \/ message' = RowAt(task) /\ http'.row = None /\ http'.col = None
            /\ http'.last_chunk = FALSE /\ http'.content_length = None
         \/ message' = ColumnAt(task) /\ http'.row = task.field[2] /\ http'.col = None
            /\ http'.last_chunk = FALSE /\ http'.content_length = None
         \/ message' = LastChunkAt(task) /\ http'.row = task.field[2] /\ http'.col = task.field[3]
            /\ http'.last_chunk = FALSE /\ http'.content_length = None
         \/ message' = LengthAt(task) /\ http'.row = task.field[2] /\ http'.col = task.field[3]
            /\ http'.last_chunk = LastChunk(task) /\ http'.content_length = None
         \/ message' = BlankAt(task) /\ http'.row = task.field[2] /\ http'.col = task.field[3]
            /\ http'.last_chunk = LastChunk(task) /\ http'.content_length = ValueLength(task)
  PROVE  Parsed'
<1>1. Message' = Message /\ LastChunk(task)' = LastChunk(task)
  BY MessageStays
<1>2. IsCut(buf_TCP, Message)
  BY DEF Parsed
<1>3. QED
  BY <1>1, <1>2 DEF Parsed, Served, Found

\* Each line of the message is followed by the next one.
LEMMA ParsedReadRequestLine ==
  ASSUME Types, Connection, Parsed, Served, ReadRequestLine
  PROVE  Parsed'
<1> DEFINE length == NumberLength(2)
           ends == {i \in 3 + length .. Len(buf_TCP) : buf_TCP[i] = CRLF}
           ok == Token(1) \in {"GET /", "POST /"} /\ length > 0 /\ Token(2 + length) = " HTTP/"
                 /\ ends # {}
<1>1. CASE ok
  <2>1. /\ task \in Tasks /\ LastChunk(task) \in BOOLEAN
        /\ Message = PostMessage(task, LastChunk(task))
        /\ PostLines(Message, task, LastChunk(task))
    BY MessageFacts
  <2>2. buf_TCP \in Seq(Tokens) /\ IsCut(buf_TCP, Message)
    BY DEF Types, Parsed, ReadRequestLine
  <2>3. Token(1) \notin {NUL, FRAGMENT} /\ Token(2 + length) \notin {NUL, FRAGMENT}
    BY <1>1, Zenon DEF NUL, FRAGMENT
  <2>4. ends # {}
    BY <1>1
  <2>5. Token(1) = Message[1] /\ NumberAt(2) = task.field[1] /\ Min(ends) + 1 = RowAt(task)
    BY <2>1, <2>2, <2>3, <2>4, RequestLineIsWhole
  <2>6. Token(1) = "POST /"
    BY <2>1, <2>5 DEF PostLines
  <2>7. /\ http' = [EmptyHttp EXCEPT !.command = IF Token(1) = "GET /" THEN "GET" ELSE "POST",
                                     !.target = NumberAt(2)]
        /\ message' = Min(ends) + 1 /\ server' = "fields" /\ buf_TCP' = buf_TCP
    <3>1. IF ok THEN http' = [EmptyHttp EXCEPT !.command = IF Token(1) = "GET /" THEN "GET" ELSE "POST",
                                              !.target = NumberAt(2)]
                    /\ message' = Min(ends) + 1 /\ server' = "fields" /\ UNCHANGED buf_TCP
          ELSE Invalid
      BY DEF ReadRequestLine
    <3> HIDE DEF ok
    <3>2. QED
      BY <1>1, <3>1 DEF ok
  <2>8. http' = [EmptyHttp EXCEPT !.command = "POST", !.target = NumberAt(2)]
    BY <2>6, <2>7
  <2>9. /\ http'.command = "POST" /\ http'.target = NumberAt(2) /\ http'.row = None
        /\ http'.col = None /\ http'.last_chunk = FALSE /\ http'.content_length = None
    BY <2>8 DEF EmptyHttp
  <2>10. server = "request" /\ UNCHANGED <<newsock_TCP, task, acknowledged>>
    BY DEF ReadRequestLine, workerVars
  <2> HIDE DEF ends, length, ok
  <2>11. QED
    BY <2>5, <2>7, <2>9, <2>10, ParsedNextLine
<1>2. CASE ~ok
  <2>1. Invalid
    BY <1>2 DEF ReadRequestLine
  <2>2. QED
    BY <2>1, ParsedVacuous DEF Invalid
<1>3. QED
  BY <1>1, <1>2

LEMMA ParsedReadRow ==
  ASSUME Types, Connection, Parsed, Served, ReadRow
  PROVE  Parsed'
<1> DEFINE end == message + 1 + NumberLength(message + 1)
           v == task.field[2]
           length == FieldLength(task, 2)
           m == Message
<1>1. server = "fields" /\ Token(message) = "Row: " /\ http \in HttpRecord
  BY DEF ReadRow, ReadNumberField, Types
<1>2. message = RowAt(task) /\ Found(None, None, FALSE, None)
  BY <1>1, AtLine DEF NUL, FRAGMENT, CRLF
<1>3. UNCHANGED <<newsock_TCP, task, acknowledged>>
  BY DEF ReadRow, ReadNumberField, workerVars
<1>4. CASE http["row"] = None /\ end > message + 1 /\ Token(end) = CRLF
  <2>1. task \in Tasks /\ LastChunk(task) \in BOOLEAN /\ m = PostMessage(task, LastChunk(task))
        /\ m \in Seq(MessageTokens) /\ PostLines(m, task, LastChunk(task))
    BY MessageFacts
  <2> HIDE DEF m
  <2>2. RowAt(task) \in Nat \ {0} /\ v \in Nat /\ length \in Nat /\ length = Len(numberToString(v))
    <3>1. 2 \in 1 .. 3
      OBVIOUS
    <3>2. task.field[2] \in Nat /\ FieldLength(task, 2) \in Nat \ {0}
      BY <2>1, <3>1, PositionsAreNat
    <3>3. QED
      BY <2>1, <3>2, PositionsAreNat DEF FieldLength
  <2>3. v < IntValues \div 2
    BY <2>1, NumberAssumption DEF ValueLength
  <2>4. ColumnAt(task) = RowAt(task) + length + 2 /\ RowAt(task) + length + 1 <= Len(m)
    BY <2>1, LinesInside
  <2>5. Holds(m, RowAt(task) + 1, numberToString(v)) /\ m[ColumnAt(task) - 1] = CRLF
    BY <2>1 DEF PostLines
  <2>6. ColumnAt(task) - 1 = RowAt(task) + length + 1
    BY <2>2, <2>4
  <2>7. Token(message) \notin {NUL, FRAGMENT}
    BY <1>1 DEF NUL, FRAGMENT
  <2>8. buf_TCP \in Seq(Tokens) /\ IsCut(buf_TCP, m)
    BY <1>1 DEF Types, Parsed, m
  <2>9. NumberAt(message + 1) = v /\ end + 1 = ColumnAt(task)
    <3> DEFINE i == message
    <3>1. /\ i \in Nat \ {0} /\ Token(i) \notin {NUL, FRAGMENT}
          /\ Holds(m, i + 1, numberToString(v)) /\ m[i + length + 1] = CRLF /\ i + length + 1 <= Len(m)
      BY <1>2, <2>2, <2>4, <2>5, <2>6, <2>7
    <3>2. end = i + 1 + NumberLength(i + 1) /\ Token(end) = CRLF
      BY <1>4
    <3> HIDE DEF i, v, length, end
    <3>3. NumberAt(i + 1) = v /\ end + 1 = i + length + 2
      BY <2>1, <2>2, <2>3, <2>8, <3>1, <3>2, FieldIsWhole
    <3>4. QED
      BY <1>2, <2>4, <3>3 DEF i
  <2>10. /\ http' = [http EXCEPT !["row"] = NumberAt(message + 1)] /\ message' = end + 1
         /\ server' = server /\ buf_TCP' = buf_TCP
    BY <1>4 DEF ReadRow, ReadNumberField
  <2>11. /\ http'.command = "POST" /\ http'.target = task.field[1]
         /\ http'.row = task.field[2] /\ http'.col = None /\ http'.last_chunk = FALSE /\ http'.content_length = None
    <3>1. http.command = "POST" /\ http.target = task.field[1]
      BY <1>1 DEF Parsed
    <3> HIDE DEF end, length
    <3>2. QED
      BY <1>1, <1>2, <2>9, <2>10, <3>1 DEF Found, HttpRecord
  <2>12. message' = ColumnAt(task)
    BY <2>9, <2>10
  <2> HIDE DEF end, v, length
  <2>13. QED
    BY <1>1, <1>3, <2>10, <2>11, <2>12, ParsedNextLine
<1>5. CASE ~(http["row"] = None /\ end > message + 1 /\ Token(end) = CRLF)
  <2>1. Invalid
    BY <1>5 DEF ReadRow, ReadNumberField
  <2>2. QED
    BY <2>1, ParsedVacuous DEF Invalid
<1>6. QED
  BY <1>4, <1>5

LEMMA ParsedReadColumn ==
  ASSUME Types, Connection, Parsed, Served, ReadColumn
  PROVE  Parsed'
<1> DEFINE end == message + 1 + NumberLength(message + 1)
           v == task.field[3]
           length == FieldLength(task, 3)
           m == Message
<1>1. server = "fields" /\ Token(message) = "Column: " /\ http \in HttpRecord
  BY DEF ReadColumn, ReadNumberField, Types
<1>2. message = ColumnAt(task) /\ Found(task.field[2], None, FALSE, None)
  BY <1>1, AtLine DEF NUL, FRAGMENT, CRLF
<1>3. UNCHANGED <<newsock_TCP, task, acknowledged>>
  BY DEF ReadColumn, ReadNumberField, workerVars
<1>4. CASE http["col"] = None /\ end > message + 1 /\ Token(end) = CRLF
  <2>1. task \in Tasks /\ LastChunk(task) \in BOOLEAN /\ m = PostMessage(task, LastChunk(task))
        /\ m \in Seq(MessageTokens) /\ PostLines(m, task, LastChunk(task))
    BY MessageFacts
  <2> HIDE DEF m
  <2>2. ColumnAt(task) \in Nat \ {0} /\ v \in Nat /\ length \in Nat /\ length = Len(numberToString(v))
    <3>1. 3 \in 1 .. 3
      OBVIOUS
    <3>2. task.field[3] \in Nat /\ FieldLength(task, 3) \in Nat \ {0}
      BY <2>1, <3>1, PositionsAreNat
    <3>3. QED
      BY <2>1, <3>2, PositionsAreNat DEF FieldLength
  <2>3. v < IntValues \div 2
    BY <2>1, NumberAssumption DEF ValueLength
  <2>4. LastChunkAt(task) = ColumnAt(task) + length + 2 /\ ColumnAt(task) + length + 1 <= Len(m)
    BY <2>1, LinesInside
  <2>5. Holds(m, ColumnAt(task) + 1, numberToString(v)) /\ m[LastChunkAt(task) - 1] = CRLF
    BY <2>1 DEF PostLines
  <2>6. LastChunkAt(task) - 1 = ColumnAt(task) + length + 1
    BY <2>2, <2>4
  <2>7. Token(message) \notin {NUL, FRAGMENT}
    BY <1>1 DEF NUL, FRAGMENT
  <2>8. buf_TCP \in Seq(Tokens) /\ IsCut(buf_TCP, m)
    BY <1>1 DEF Types, Parsed, m
  <2>9. NumberAt(message + 1) = v /\ end + 1 = LastChunkAt(task)
    <3> DEFINE i == message
    <3>1. /\ i \in Nat \ {0} /\ Token(i) \notin {NUL, FRAGMENT}
          /\ Holds(m, i + 1, numberToString(v)) /\ m[i + length + 1] = CRLF /\ i + length + 1 <= Len(m)
      BY <1>2, <2>2, <2>4, <2>5, <2>6, <2>7
    <3>2. end = i + 1 + NumberLength(i + 1) /\ Token(end) = CRLF
      BY <1>4
    <3> HIDE DEF i, v, length, end
    <3>3. NumberAt(i + 1) = v /\ end + 1 = i + length + 2
      BY <2>1, <2>2, <2>3, <2>8, <3>1, <3>2, FieldIsWhole
    <3>4. QED
      BY <1>2, <2>4, <3>3 DEF i
  <2>10. /\ http' = [http EXCEPT !["col"] = NumberAt(message + 1)] /\ message' = end + 1
         /\ server' = server /\ buf_TCP' = buf_TCP
    BY <1>4 DEF ReadColumn, ReadNumberField
  <2>11. /\ http'.command = "POST" /\ http'.target = task.field[1]
         /\ http'.row = task.field[2] /\ http'.col = task.field[3] /\ http'.last_chunk = FALSE /\ http'.content_length = None
    <3>1. http.command = "POST" /\ http.target = task.field[1]
      BY <1>1 DEF Parsed
    <3> HIDE DEF end, length
    <3>2. QED
      BY <1>1, <1>2, <2>9, <2>10, <3>1 DEF Found, HttpRecord
  <2>12. message' = LastChunkAt(task)
    BY <2>9, <2>10
  <2> HIDE DEF end, v, length
  <2>13. QED
    BY <1>1, <1>3, <2>10, <2>11, <2>12, ParsedNextLine
<1>5. CASE ~(http["col"] = None /\ end > message + 1 /\ Token(end) = CRLF)
  <2>1. Invalid
    BY <1>5 DEF ReadColumn, ReadNumberField
  <2>2. QED
    BY <2>1, ParsedVacuous DEF Invalid
<1>6. QED
  BY <1>4, <1>5

LEMMA ParsedReadContentLength ==
  ASSUME Types, Connection, Parsed, Served, ReadContentLength
  PROVE  Parsed'
<1> DEFINE end == message + 1 + NumberLength(message + 1)
           v == ValueLength(task)
           length == Len(numberToString(ValueLength(task)))
           m == Message
<1>1. server = "fields" /\ Token(message) = "Content-Length: " /\ http \in HttpRecord
  BY DEF ReadContentLength, ReadNumberField, Types
<1>2. message = LengthAt(task) /\ Found(task.field[2], task.field[3], LastChunk(task), None)
  BY <1>1, AtLine DEF NUL, FRAGMENT, CRLF
<1>3. UNCHANGED <<newsock_TCP, task, acknowledged>>
  BY DEF ReadContentLength, ReadNumberField, workerVars
<1>4. CASE http["content_length"] = None /\ end > message + 1 /\ Token(end) = CRLF
  <2>1. task \in Tasks /\ LastChunk(task) \in BOOLEAN /\ m = PostMessage(task, LastChunk(task))
        /\ m \in Seq(MessageTokens) /\ PostLines(m, task, LastChunk(task))
    BY MessageFacts
  <2> HIDE DEF m
  <2>2. LengthAt(task) \in Nat \ {0} /\ v \in Nat /\ length \in Nat /\ length = Len(numberToString(v))
    BY <2>1, PositionsAreNat
  <2>3. v < IntValues \div 2
    BY <2>1, NumberAssumption DEF ValueLength
  <2>4. BlankAt(task) = LengthAt(task) + length + 2 /\ LengthAt(task) + length + 1 <= Len(m)
    BY <2>1, LinesInside
  <2>5. Holds(m, LengthAt(task) + 1, numberToString(v)) /\ m[BlankAt(task) - 1] = CRLF
    BY <2>1 DEF PostLines
  <2>6. BlankAt(task) - 1 = LengthAt(task) + length + 1
    BY <2>2, <2>4
  <2>7. Token(message) \notin {NUL, FRAGMENT}
    BY <1>1 DEF NUL, FRAGMENT
  <2>8. buf_TCP \in Seq(Tokens) /\ IsCut(buf_TCP, m)
    BY <1>1 DEF Types, Parsed, m
  <2>9. NumberAt(message + 1) = v /\ end + 1 = BlankAt(task)
    <3> DEFINE i == message
    <3>1. /\ i \in Nat \ {0} /\ Token(i) \notin {NUL, FRAGMENT}
          /\ Holds(m, i + 1, numberToString(v)) /\ m[i + length + 1] = CRLF /\ i + length + 1 <= Len(m)
      BY <1>2, <2>2, <2>4, <2>5, <2>6, <2>7
    <3>2. end = i + 1 + NumberLength(i + 1) /\ Token(end) = CRLF
      BY <1>4
    <3> HIDE DEF i, v, length, end
    <3>3. NumberAt(i + 1) = v /\ end + 1 = i + length + 2
      BY <2>1, <2>2, <2>3, <2>8, <3>1, <3>2, FieldIsWhole
    <3>4. QED
      BY <1>2, <2>4, <3>3 DEF i
  <2>10. /\ http' = [http EXCEPT !["content_length"] = NumberAt(message + 1)] /\ message' = end + 1
         /\ server' = server /\ buf_TCP' = buf_TCP
    BY <1>4 DEF ReadContentLength, ReadNumberField
  <2>11. /\ http'.command = "POST" /\ http'.target = task.field[1]
         /\ http'.row = task.field[2] /\ http'.col = task.field[3] /\ http'.last_chunk = LastChunk(task) /\ http'.content_length = ValueLength(task)
    <3>1. http.command = "POST" /\ http.target = task.field[1]
      BY <1>1 DEF Parsed
    <3> HIDE DEF end, length
    <3>2. QED
      BY <1>1, <1>2, <2>9, <2>10, <3>1 DEF Found, HttpRecord
  <2>12. message' = BlankAt(task)
    BY <2>9, <2>10
  <2> HIDE DEF end, v, length
  <2>13. QED
    BY <1>1, <1>3, <2>10, <2>11, <2>12, ParsedNextLine
<1>5. CASE ~(http["content_length"] = None /\ end > message + 1 /\ Token(end) = CRLF)
  <2>1. Invalid
    BY <1>5 DEF ReadContentLength, ReadNumberField
  <2>2. QED
    BY <2>1, ParsedVacuous DEF Invalid
<1>6. QED
  BY <1>4, <1>5

LEMMA ParsedReadLastChunk ==
  ASSUME Types, Connection, Parsed, Served, ReadLastChunk
  PROVE  Parsed'
<1> DEFINE m == Message
<1>1. /\ server = "fields" /\ Token(message) = "Last-Chunk: " /\ http \in HttpRecord
      /\ Token(message + 2) = CRLF
  BY DEF ReadLastChunk, AtLastChunk, Types
<1>2. message = LastChunkAt(task) /\ Found(task.field[2], task.field[3], FALSE, None)
  BY <1>1, AtLine DEF NUL, FRAGMENT, CRLF
<1>3. UNCHANGED <<newsock_TCP, server, buf_TCP, task, acknowledged>>
  BY DEF ReadLastChunk, workerVars
<1>4. /\ task \in Tasks /\ m \in Seq(MessageTokens) /\ LastChunk(task) \in BOOLEAN
      /\ PostLines(m, task, LastChunk(task))
  BY MessageFacts
<1> HIDE DEF m
<1>5. LastChunkAt(task) \in Nat \ {0}
  BY <1>4, PositionsAreNat
<1>6. Token(message + 1) = m[message + 1]
  <2>1. buf_TCP \in Seq(Tokens) /\ IsCut(buf_TCP, m)
    BY <1>1 DEF Types, Parsed, m
  <2>2. message + 2 \in Nat \ {0} /\ message + 1 \in 1 .. message + 2
    BY <1>2, <1>5
  <2>3. Token(message + 2) # NUL /\ Token(message + 2) # FRAGMENT
    BY <1>1 DEF CRLF, NUL, FRAGMENT
  <2>4. QED
    BY <1>4, <2>1, <2>2, <2>3, CutToken
<1>7. m[message + 1] = Flag(LastChunk(task))
  BY <1>2, <1>4 DEF PostLines
<1>8. (Token(message + 1) = "TRUE") = LastChunk(task)
  BY <1>4, <1>6, <1>7 DEF Flag
<1>9. /\ http' = [http EXCEPT !.last_chunk = Token(message + 1) = "TRUE"]
      /\ message' = message + 3
  BY DEF ReadLastChunk
<1>10. message' = LengthAt(task)
  BY <1>2, <1>9 DEF LengthAt
<1>11. http.command = "POST" /\ http.target = task.field[1]
  BY <1>1 DEF Parsed
<1>12. /\ http'.command = "POST" /\ http'.target = task.field[1]
       /\ http'.row = task.field[2] /\ http'.col = task.field[3]
       /\ http'.last_chunk = LastChunk(task) /\ http'.content_length = None
  <2> DEFINE flag == Token(message + 1) = "TRUE"
  <2>1. flag = LastChunk(task) /\ http' = [http EXCEPT !.last_chunk = flag]
    BY <1>8, <1>9
  <2> HIDE DEF flag
  <2>2. QED
    BY <1>1, <1>2, <1>11, <2>1 DEF Found, HttpRecord
<1>13. QED
  BY <1>1, <1>3, <1>10, <1>12, ParsedNextLine

\* No line of the worker's message is skipped: what is not recognised is the
\* end of what was received.
LEMMA ParsedSkipLine ==
  ASSUME Types, Connection, Parsed, Served, SkipLine
  PROVE  Parsed'
<1> DEFINE ends == {i \in message .. Len(buf_TCP) : buf_TCP[i] = CRLF}
           m == Message
<1>1. /\ server = "fields" /\ http.command = "POST" /\ buf_TCP \in Seq(Tokens)
      /\ message \in Nat \ {0} /\ IsCut(buf_TCP, m)
  <2>1. server = "fields"
    BY DEF SkipLine
  <2>2. buf_TCP \in Seq(Tokens) /\ message \in Nat \ {0}
    BY DEF Types, TypeOK
  <2>3. http.command = "POST" /\ IsCut(buf_TCP, m)
    BY <2>1 DEF Parsed
  <2>4. QED
    BY <2>1, <2>2, <2>3
<1>2. /\ task \in Tasks /\ m \in Seq(MessageTokens) /\ LastChunk(task) \in BOOLEAN
      /\ PostLines(m, task, LastChunk(task))
  BY MessageFacts
<1> HIDE DEF m
<1>3. \/ Token(message) \in {NUL, FRAGMENT}
      \/ message = LastChunkAt(task) /\ Token(message) = "Last-Chunk: " /\ ~AtLastChunk
  <2>1. /\ Token(message) # CRLF /\ Token(message) # "Row: " /\ Token(message) # "Column: "
        /\ Token(message) # "Content-Length: " /\ ~AtLastChunk
    BY <1>1 DEF SkipLine
  <2>2. QED
    BY <1>1, <2>1, AtLine, Zenon
<1>4. ends = {}
  <2> SUFFICES ASSUME NEW i \in message .. Len(buf_TCP), buf_TCP[i] = CRLF
               PROVE  FALSE
    OBVIOUS
  <2>1. i \in Nat \ {0} /\ i \in DOMAIN buf_TCP
    BY <1>1
  <2>2. Token(i) = CRLF /\ Token(i) # NUL /\ Token(i) # FRAGMENT
    BY <2>1 DEF Token, CRLF, NUL, FRAGMENT
  <2>3. i <= Len(m) /\ \A j \in 1 .. i : Token(j) = m[j] /\ buf_TCP[j] = m[j]
    BY <1>1, <1>2, <2>1, <2>2, CutToken
  <2>4. message \in 1 .. i
    BY <1>1
  <2>5. m[message] \in MessageTokens
    BY <1>1, <1>2, <2>3
  <2>6. Token(message) \notin {NUL, FRAGMENT}
    <3>1. Token(message) = m[message]
      BY <2>3, <2>4
    <3>2. QED
      BY <2>5, <3>1, NoFragment DEF Tokens
  <2>7. message = LastChunkAt(task) /\ Token(message) = "Last-Chunk: " /\ ~AtLastChunk
    BY <1>3, <2>6
  <2>8. i # message
    BY <2>2, <2>7 DEF CRLF
  <2>9. i # message + 1
    <3>1. m[message + 1] = Flag(LastChunk(task))
      BY <1>2, <2>7 DEF PostLines
    <3>2. Flag(LastChunk(task)) # CRLF
      BY DEF Flag, CRLF
    <3>3. i \in 1 .. i
      BY <2>1
    <3>4. QED
      BY <2>2, <2>3, <3>1, <3>2, <3>3
  <2>10. message + 1 \in 1 .. i /\ message + 2 \in 1 .. i
    BY <1>1, <2>1, <2>8, <2>9
  <2>11. /\ Token(message + 1) = Flag(LastChunk(task)) /\ Token(message + 2) = CRLF
    BY <1>2, <2>3, <2>7, <2>10 DEF PostLines
  <2>12. Token(message + 1) \in {"TRUE", "FALSE"}
    BY <2>11 DEF Flag
  <2>13. QED
    BY <1>1, <2>7, <2>11, <2>12 DEF AtLastChunk
<1>5. Invalid
  BY <1>4 DEF SkipLine
<1>6. QED
  BY <1>5, ParsedVacuous DEF Invalid

\* The body that is found valid is the whole value.
LEMMA ParsedEndOfHeader ==
  ASSUME Types, Connection, Parsed, Served, EndOfHeader
  PROVE  Parsed'
<1> DEFINE bodies == {i \in message .. Len(buf_TCP) + 1 : Token(i) # CRLF}
           body == Min(bodies)
           m == Message
           t == task
<1>1. /\ server = "fields" /\ Token(message) = CRLF /\ http.command = "POST"
      /\ http.target = t.field[1] /\ http \in HttpRecord
      /\ buf_TCP \in Seq(Tokens) /\ IsCut(buf_TCP, m) /\ message \in 1 .. Len(buf_TCP) + 1
  BY DEF EndOfHeader, Types, TypeOK, Parsed
<1>2. message = BlankAt(t) /\ Found(t.field[2], t.field[3], LastChunk(t), ValueLength(t))
  BY <1>1, AtLine DEF NUL, FRAGMENT, CRLF
<1>3. UNCHANGED <<newsock_TCP, task, acknowledged>>
  BY DEF EndOfHeader, workerVars
<1>4. /\ t \in Tasks /\ m \in Seq(MessageTokens) /\ PostLines(m, t, LastChunk(t))
  BY MessageFacts
<1> HIDE DEF m, t
<1>5. /\ BlankAt(t) \in Nat \ {0} /\ ValueAt(t) \in Nat \ {0} /\ ValueLength(t) \in Nat \ {0}
      /\ t.value \in Int /\ ValueAt(t) = BlankAt(t) + 2
  BY <1>4, PositionsAreNat DEF ValueAt
<1>6. CASE BodyMatches(body)
  <2>1. /\ http' = [http EXCEPT !.content = NumberAt(body)] /\ server' = "valid"
        /\ UNCHANGED <<buf_TCP, message>>
    BY <1>1, <1>6 DEF EndOfHeader
  <2>2. NumberLength(body) = ValueLength(t)
    BY <1>2, <1>6 DEF BodyMatches, Found
  <2>3. /\ body \in message .. Len(buf_TCP) + 1 /\ Token(body) # CRLF
        /\ \A i \in message .. Len(buf_TCP) + 1 : Token(i) # CRLF => body <= i
    BY <1>1, BodyBegins
  <2> HIDE DEF body, bodies
  <2>4. Token(body) \notin {NUL, FRAGMENT}
    <3> SUFFICES ASSUME Token(body) \in {NUL, FRAGMENT}
                 PROVE  FALSE
      OBVIOUS
    <3>1. Token(body) \notin Digits /\ Token(body) # "-"
      BY NotDigits DEF NUL, FRAGMENT
    <3>2. body \in 1 .. Len(buf_TCP) + 1 /\ First(body) = body
      BY <1>1, <2>3, <3>1 DEF First
    <3>3. NumberLength(body) = 0
      <4>1. 0 \in Nat /\ First(body) <= body + 0 /\ body + 0 = body
            /\ \A j \in First(body) .. body + 0 - 1 : Token(j) \in Digits
        BY <3>2
      <4>2. Token(body + 0) \notin Digits
        BY <3>1, <4>1
      <4>3. QED
        BY <1>1, <3>2, <4>1, <4>2, NumberLengthIs
    <3>4. QED
      BY <1>5, <2>2, <3>3
  <2>5. body \in Nat \ {0} /\ body <= Len(buf_TCP) /\ body <= Len(m)
        /\ \A j \in 1 .. body : Token(j) = m[j]
    <3>1. body \in Nat \ {0}
      BY <1>1, <2>3
    <3>2. QED
      BY <1>1, <1>4, <2>4, <3>1, CutToken
  <2>6. body # BlankAt(t) /\ body # BlankAt(t) + 1
    <3>1. m[BlankAt(t)] = CRLF /\ m[BlankAt(t) + 1] = CRLF
      BY <1>4 DEF PostLines
    <3>2. body \in 1 .. body
      BY <2>5
    <3>3. QED
      BY <2>3, <2>5, <3>1, <3>2
  <2>7. ValueAt(t) <= body
    BY <1>1, <1>2, <1>5, <2>3, <2>5, <2>6
  <2>8. Holds(m, ValueAt(t), numberToString(t.value)) /\ Len(m) = ValueAt(t) + ValueLength(t) - 1
    BY <1>4 DEF PostLines
  <2>9. body = ValueAt(t)
    <3>1. ValueAt(t) \in message .. Len(buf_TCP) + 1 /\ ValueAt(t) \in 1 .. body
      BY <1>1, <1>2, <1>5, <2>5, <2>7
    <3>2. m[ValueAt(t)] # CRLF
      <4>1. numberToString(t.value) \in Seq(Digits \cup {"-"}) /\ Len(numberToString(t.value)) > 0
        BY <1>5, NumberToStringFacts
      <4>2. numberToString(t.value)[1] \in Digits \cup {"-"}
        BY <4>1
      <4>3. m[ValueAt(t) + 1 - 1] = numberToString(t.value)[1]
        <5>1. 1 \in 1 .. Len(numberToString(t.value))
          BY <4>1
        <5>2. QED
          BY <2>8, <5>1 DEF Holds
      <4>4. ValueAt(t) + 1 - 1 = ValueAt(t)
        BY <1>5
      <4>5. CRLF \notin Digits \cup {"-"}
        BY NotDigits DEF CRLF
      <4>6. QED
        BY <4>2, <4>3, <4>4, <4>5
    <3>3. Token(ValueAt(t)) # CRLF
      BY <2>5, <3>1, <3>2
    <3>4. QED
      BY <1>5, <2>3, <2>5, <2>7, <3>1, <3>3
  <2>10. NumberAt(body) = Wrap(t.value)
    <3>1. body \in 1 .. Len(buf_TCP) + 1 /\ body + Len(numberToString(t.value)) - 1 = Len(m)
          /\ Holds(m, body, numberToString(t.value))
          /\ NumberLength(body) = Len(numberToString(t.value))
      BY <1>1, <2>2, <2>5, <2>8, <2>9 DEF ValueLength
    <3>2. QED
      BY <1>1, <1>4, <1>5, <3>1, BodyNumber
  <2>11. http'.content = Wrap(t.value) /\ http'.target = t.field[1]
         /\ http'.row = t.field[2] /\ http'.col = t.field[3]
         /\ http'.last_chunk = LastChunk(t) /\ http'.content_length = ValueLength(t)
    BY <1>1, <1>2, <2>1, <2>10 DEF Found, HttpRecord
  <2>12. Message' = Message /\ LastChunk(task)' = LastChunk(task)
    BY <1>3, MessageStays
  <2>13. QED
    BY <1>1, <1>3, <2>1, <2>11, <2>12 DEF Parsed, Served, Found, t, m
<1>7. CASE ~BodyMatches(body)
  <2>1. Invalid
    BY <1>1, <1>7 DEF EndOfHeader
  <2>2. QED
    BY <2>1, ParsedVacuous DEF Invalid
<1>8. QED
  BY <1>6, <1>7

\* What is parsed is a cut of the worker's message.
LEMMA ParsedReceive ==
  ASSUME Types, Connection, Served, Receive
  PROVE  Parsed'
<1>1. sent["worker"] = Message /\ Message \in Seq(MessageTokens)
  BY MessageFacts DEF Connection, Receive
<1>2. buf_TCP' \in Received(sent["worker"])
  BY DEF Receive, Served
<1>3. IsCut(buf_TCP', Message)
  BY <1>1, <1>2, ReceivedIsCut
<1>4. Message' = Message
  BY MessageStays DEF Receive, workerVars
<1>5. server' = "request"
  BY DEF Receive
<1>6. QED
  BY <1>3, <1>4, <1>5 DEF Parsed

\* Every step keeps what the parser has found.
LEMMA ParsedNext ==
  ASSUME Types, Connection, Browser, Parsed, [Next]_vars
  PROVE  Parsed'
<1>1. ASSUME ReadRequestLine \/ ReadField
      PROVE  Parsed'
  <2>1. Served' = Served
    BY <1>1 DEF ReadRequestLine, ReadField, ReadRow, ReadColumn, ReadContentLength, ReadNumberField,
       ReadLastChunk, SkipLine, EndOfGet, EndOfHeader, Served
  <2>2. CASE ~Served
    BY <2>1, <2>2, ParsedVacuous
  <2>3. CASE Served
    <3>1. ~EndOfGet
      BY <2>3 DEF EndOfGet, Parsed
    <3>2. QED
      BY <1>1, <2>3, <3>1, ParsedReadRequestLine, ParsedReadRow, ParsedReadColumn,
         ParsedReadContentLength, ParsedReadLastChunk, ParsedSkipLine, ParsedEndOfHeader DEF ReadField
  <2>4. QED
    BY <2>2, <2>3
<1>2. ASSUME Receive
      PROVE  Parsed'
  <2>1. Served' = Served
    BY <1>2 DEF Receive, Served
  <2>2. QED
    BY <1>2, <2>1, ParsedReceive, ParsedVacuous
<1>3. ASSUME Accept \/ RespondGet \/ RespondPost \/ Close \/ EndProgram
      PROVE  Parsed'
  <2>1. server' \notin {"request", "fields", "valid"}
    BY <1>3 DEF Accept, RespondGet, RespondPost, Close, EndProgram
  <2>2. QED
    BY <2>1, ParsedVacuous
<1>4. ASSUME RecvSegment \/ \E q \in Queries : Ask(q)
      PROVE  Parsed'
  <2>1. UNCHANGED <<newsock_TCP, server, buf_TCP, message, http, task, acknowledged>>
    BY <1>4 DEF RecvSegment, Ask, workerVars, parserVars
  <2>2. QED
    BY <2>1, ParsedKept
<1>5. ASSUME RecvEnd \/ \E t \in Tasks : Post(t)
      PROVE  Parsed'
  <2>1. ~Served /\ newsock_TCP' = newsock_TCP
    BY <1>5 DEF RecvEnd, Post, Connection
  <2>2. QED
    BY <2>1, ParsedVacuous DEF Served
<1>6. ASSUME UNCHANGED vars
      PROVE  Parsed'
  BY <1>6, ParsedKept DEF vars, workerVars, parserVars
<1>7. QED
  BY <1>1, <1>2, <1>3, <1>4, <1>5, <1>6 DEF Next, ServerStep, WorkerStep

-----------------------------------------------------------------------------
(***************************************************************************)
(* The browser                                                             *)
(***************************************************************************)

\* Steps outside the parser.
LEMMA BrowserKept ==
  ASSUME Browser, UNCHANGED <<sent, newsock_TCP, http, buf_TCP>>,
         server' \in {"request", "fields", "valid"} => server' = server
  PROVE  Browser'
BY DEF Browser, Served, Token

\* A browser's message does not begin as a POST, however it is cut.
LEMMA BrowserReceive ==
  ASSUME Types, Browser, Receive
  PROVE  Browser'
<1>1. sent'["browser"] = <<>> \/ \E q \in Queries : sent'["browser"] = GetMessage(q)
  BY DEF Types, Browser, Receive, Clients
<1>2. ASSUME newsock_TCP = "browser"
      PROVE  Token(1)' # "POST /"
  <2> DEFINE m == sent["browser"]
             b == buf_TCP'
  <2>1. m \in Seq(MessageTokens) /\ b \in Received(m)
    BY <1>2 DEF Types, Receive, Clients
  <2>2. m = <<>> \/ (Len(m) >= 1 /\ m[1] = "GET /")
    <3>1. CASE m = <<>>
      BY <3>1
    <3>2. CASE \E q \in Queries : m = GetMessage(q)
      <4>1. m[1] = "GET /"
        BY <3>2, GetMessageTokens
      <4> HIDE DEF m
      <4>2. Len(m) \in Nat
        BY <2>1
      <4>3. CASE Len(m) = 0
        BY <2>1, <4>3
      <4>4. CASE Len(m) >= 1
        BY <4>1, <4>4, Zenon
      <4>5. Len(m) = 0 \/ Len(m) >= 1
        BY <4>2
      <4>6. QED
        BY <4>3, <4>4, <4>5, Zenon
    <3>3. QED
      BY <3>1, <3>2 DEF Browser
  <2> HIDE DEF m
  <2>3. IsCut(b, m) /\ b \in Seq(Tokens)
    BY <2>1, ReceivedIsCut
  <2>4. Token(1)' = IF 1 \in DOMAIN b THEN b[1] ELSE NUL
    BY DEF Token
  <2> HIDE DEF b
  <2>5. 1 \in DOMAIN b => b[1] = FRAGMENT \/ b[1] = m[1]
    BY <2>3 DEF IsCut
  <2>6. 1 \in DOMAIN b => m # <<>>
    BY <2>3 DEF IsCut
  <2>7. 1 \in DOMAIN b => b[1] = FRAGMENT \/ b[1] = "GET /"
    BY <2>2, <2>5, <2>6, Zenon
  <2>8. QED
    BY <2>4, <2>7 DEF FRAGMENT, NUL
<1>3. server' = "request" /\ newsock_TCP' = newsock_TCP
  BY DEF Receive
<1>4. QED
  BY <1>1, <1>2, <1>3 DEF Browser

\* The command is POST only for the worker's message.
LEMMA BrowserReadRequestLine ==
  ASSUME Types, Browser, ReadRequestLine
  PROVE  Browser'
<1>1. sent' = sent /\ newsock_TCP' = newsock_TCP
  BY DEF ReadRequestLine
<1>2. server' # "request" /\ server' # "valid"
  BY DEF ReadRequestLine, Invalid
<1>3. ASSUME server' = "fields"
      PROVE  http'.command \in {"GET", "POST"} /\ (http'.command = "POST" => Served)
  <2> DEFINE command == IF Token(1) = "GET /" THEN "GET" ELSE "POST"
             n == NumberAt(2)
  <2>1. /\ http' = [EmptyHttp EXCEPT !.command = command, !.target = n]
        /\ Token(1) \in {"GET /", "POST /"}
    BY <1>3, Zenon DEF ReadRequestLine, Invalid
  <2>2. command \in {"GET", "POST"} /\ (command = "POST" => Token(1) = "POST /")
    BY <2>1
  <2> HIDE DEF command, n
  <2>3. http'.command = command
    BY <2>1 DEF EmptyHttp
  <2>4. Token(1) = "POST /" => Served
    BY DEF Types, TypeOK, Browser, ReadRequestLine, Served, Clients
  <2>5. QED
    BY <2>2, <2>3, <2>4
<1>4. QED
  BY <1>1, <1>2, <1>3 DEF Browser, Served

\* The command stays.
LEMMA BrowserReadField ==
  ASSUME Types, Browser, ReadField
  PROVE  Browser'
<1>1. /\ server = "fields" /\ server' \in {"fields", "valid", "close"}
      /\ sent' = sent /\ newsock_TCP' = newsock_TCP
  BY DEF ReadField, ReadRow, ReadColumn, ReadContentLength, ReadNumberField,
     ReadLastChunk, SkipLine, EndOfGet, EndOfHeader, Invalid
<1>2. http'.command = http.command
  <2>1. http \in HttpRecord
    BY DEF Types
  <2>2. ASSUME NEW name, NEW key \in {"row", "col", "content_length"}, ReadNumberField(name, key)
        PROVE  http'.command = http.command
    <3>1. http' = http \/ http' = [http EXCEPT ![key] = NumberAt(message + 1)]
      BY <2>2 DEF ReadNumberField, Invalid, parserVars
    <3>2. QED
      BY <2>1, <3>1 DEF HttpRecord
  <2>3. CASE ReadRow
    BY <2>2, <2>3, Zenon DEF ReadRow
  <2>4. CASE ReadColumn
    BY <2>2, <2>4, Zenon DEF ReadColumn
  <2>5. CASE ReadContentLength
    BY <2>2, <2>5, Zenon DEF ReadContentLength
  <2>6. CASE ReadLastChunk
    BY <2>1, <2>6 DEF ReadLastChunk, HttpRecord
  <2>7. CASE SkipLine
    BY <2>7 DEF SkipLine, Invalid, parserVars
  <2>8. CASE EndOfGet
    BY <2>8 DEF EndOfGet, parserVars
  <2>9. CASE EndOfHeader
    <3>1. \E n : http' = http \/ http' = [http EXCEPT !.content = n]
      BY <2>9 DEF EndOfHeader, Invalid, parserVars
    <3>2. QED
      BY <2>1, <3>1 DEF HttpRecord
  <2>10. QED
    BY <2>3, <2>4, <2>5, <2>6, <2>7, <2>8, <2>9 DEF ReadField
<1>3. QED
  BY <1>1, <1>2 DEF Browser, Served

\* Every step keeps POST to the worker.
LEMMA BrowserNext ==
  ASSUME Types, Browser, [Next]_vars
  PROVE  Browser'
<1>1. ASSUME NEW t \in Tasks, Post(t)
      PROVE  Browser'
  <2>1. sent'["browser"] = sent["browser"] /\ Token(1)' = Token(1)
    BY <1>1 DEF Types, Post, Clients, parserVars, Token
  <2>2. QED
    BY <1>1, <2>1 DEF Browser, Served, Post, parserVars
<1>2. ASSUME NEW q \in Queries, Ask(q)
      PROVE  Browser'
  <2>1. sent'["browser"] = GetMessage(q) /\ Token(1)' = Token(1)
    BY <1>2 DEF Types, Ask, Clients, parserVars, Token
  <2>2. QED
    BY <1>2, <2>1 DEF Browser, Served, Ask, parserVars
<1>3. ASSUME RecvSegment \/ RecvEnd \/ UNCHANGED vars
      PROVE  Browser'
  <2>1. UNCHANGED <<sent, newsock_TCP, http, buf_TCP, server>>
    BY <1>3 DEF RecvSegment, RecvEnd, vars, parserVars
  <2>2. QED
    BY <2>1, BrowserKept
<1>4. ASSUME RespondGet \/ RespondPost \/ EndProgram \/ Accept \/ Close
      PROVE  Browser'
  <2>1. sent' = sent /\ server' \notin {"request", "fields", "valid"}
    BY <1>4 DEF RespondGet, RespondPost, EndProgram, Accept, Close
  <2>2. QED
    BY <2>1 DEF Browser
<1>5. QED
  BY <1>1, <1>2, <1>3, <1>4, BrowserReceive, BrowserReadRequestLine, BrowserReadField
  DEF Next, ServerStep, WorkerStep

-----------------------------------------------------------------------------
(***************************************************************************)
(* What is stored and shown                                                *)
(***************************************************************************)

\* A POST that is valid names a row and a column.
LEMMA PostHasIndices ==
  ASSUME Types, Connection, Browser, Parsed, RespondPost
  PROVE  ~(http.row < 0 \/ http.col < 0)
<1>1. Served /\ task \in Tasks /\ server = "valid"
  BY PostIsServed DEF RespondPost
<1>2. http.row = task.field[2] /\ http.col = task.field[3]
  BY <1>1 DEF Parsed, Found
<1>3. task.field \in Nat \X Nat \X Nat
  BY <1>1, DatabaseAssumption
<1>4. QED
  BY <1>2, <1>3

\* A valid POST adds its value to the cell of its field and to no other.
LEMMA PostStores ==
  ASSUME Types, Connection, Browser, Parsed, RespondPost
  PROVE  /\ task \in Tasks /\ ~counted /\ counted' = TRUE /\ stored' = stored \cup {task}
         /\ \A m \in Int, row, col \in Nat :
              CellAt(Rows(m)', row, col) =
                IF <<m, row, col>> = task.field
                THEN CellPlus(CellAt(Rows(m), row, col), Wrap(task.value))
                ELSE CellAt(Rows(m), row, col)
<1>1. Served /\ task \in Tasks /\ server = "valid"
  BY PostIsServed DEF RespondPost
<1>2. ~counted
  BY <1>1 DEF Connection
<1>3. /\ http.target = task.field[1] /\ http.row = task.field[2] /\ http.col = task.field[3]
      /\ http.content = Wrap(task.value)
  BY <1>1 DEF Parsed, Found
<1>4. /\ task.field \in Nat \X Nat \X Nat /\ task.value \in Int
  BY <1>1, DatabaseAssumption
<1>5. /\ http.target \in Nat /\ http.row \in Nat /\ http.col \in Nat
      /\ task.field = <<http.target, http.row, http.col>>
  BY <1>3, <1>4
<1>6. http.content \in Int
  BY <1>3, <1>4, WrapInt
<1>7. ~(http.row < 0 \/ http.col < 0)
  BY PostHasIndices
<1>8. /\ result_matrix' = [m \in DOMAIN result_matrix \cup {http.target} |->
           IF m = http.target THEN addResult(m, http.content, http.row, http.col)
           ELSE result_matrix[m]]
      /\ counted' = TRUE /\ stored' = stored \cup {task}
  BY <1>7 DEF RespondPost
<1>9. ASSUME NEW m \in Int, NEW row \in Nat, NEW col \in Nat
      PROVE  CellAt(Rows(m)', row, col) =
               IF <<m, row, col>> = task.field
               THEN CellPlus(CellAt(Rows(m), row, col), Wrap(task.value))
               ELSE CellAt(Rows(m), row, col)
  <2>1. CASE m = http.target
    <3>1. Rows(m)' = addResult(m, http.content, http.row, http.col)
      BY <1>8, <2>1 DEF Rows
    <3>2. Rows(m) \in Seq(Seq(Cell))
      BY RowsAreSequences
    <3>3. PICK v \in Int, r \in Nat, c \in Nat : v = http.content /\ r = http.row /\ c = http.col
      BY <1>5, <1>6
    <3> v \in Int /\ r \in Nat /\ c \in Nat
      BY <3>3
    <3>4. AddedTo(Rows(m), v, r, c, addResult(m, v, r, c))
      BY <3>2, AddResultFacts
    <3>5. /\ CellAt(addResult(m, v, r, c), r, c) = CellPlus(CellAt(Rows(m), r, c), v)
          /\ row # r \/ col # c => CellAt(addResult(m, v, r, c), row, col) = CellAt(Rows(m), row, col)
      BY <3>4 DEF AddedTo
    <3>6. <<m, row, col>> = task.field <=> row = r /\ col = c
      BY <1>5, <2>1, <3>3
    <3>7. QED
      BY <1>3, <3>1, <3>3, <3>5, <3>6
  <2>2. CASE m # http.target
    <3>1. Rows(m)' = Rows(m)
      BY <1>8, <2>2 DEF Rows
    <3>2. <<m, row, col>> # task.field
      BY <1>5, <2>2
    <3>3. QED
      BY <3>1, <3>2
  <2>3. QED
    BY <2>1, <2>2
<1>10. QED
  BY <1>1, <1>2, <1>8, <1>9

\* A cell becomes final when a value is added to it, and not otherwise.
LEMMA FinalNext ==
  ASSUME Types, Connection, Browser, Parsed, FinalWasStored, [Next]_vars
  PROVE  FinalWasStored'
<1>1. CASE RespondPost
  <2> SUFFICES ASSUME NEW m \in Int, NEW row \in Nat, NEW col \in Nat,
                      CellAt(Rows(m)', row, col).final_value
               PROVE  \E t \in stored' : t.field = <<m, row, col>>
    BY DEF FinalWasStored
  <2>1. CASE <<m, row, col>> = task.field
    BY <1>1, <2>1, PostStores
  <2>2. CASE <<m, row, col>> # task.field
    BY <1>1, <2>2, PostStores DEF FinalWasStored
  <2>3. QED
    BY <2>1, <2>2
<1>2. CASE ~RespondPost
  <2>1. UNCHANGED <<result_matrix, stored>>
    BY <1>2 DEF Next, ServerStep, WorkerStep, ReadField, Accept, Receive, ReadRequestLine, ReadRow,
       ReadColumn, ReadContentLength, ReadNumberField, ReadLastChunk, SkipLine, EndOfGet, EndOfHeader,
       RespondGet, Close, RecvSegment, RecvEnd, EndProgram, Post, Ask, countVars, vars
  <2>2. \A m : Rows(m)' = Rows(m)
    BY <2>1 DEF Rows
  <2>3. QED
    BY <2>1, <2>2 DEF FinalWasStored
<1>3. QED
  BY <1>1, <1>2

\* What a page shows of a field is in a final cell.
LEMMA ShownIsStored ==
  ASSUME Types, FinalWasStored, NEW m \in Int, NEW row, NEW col, NEW c \in Shown(m, row, col)
  PROVE  \E t \in stored : t.field = c.field
<1>1. /\ row \in 0 .. Len(Rows(m)) - 1 /\ col \in 0 .. Len(Rows(m)[row + 1]) - 1
      /\ Rows(m)[row + 1][col + 1].final_value /\ c.field = <<m, row, col>>
  BY DEF Shown
<1>2. Rows(m) \in Seq(Seq(Cell))
  BY RowsAreSequences
<1>3. Len(Rows(m)) \in Nat
  BY <1>2
<1>4. row \in Nat /\ row < Len(Rows(m)) /\ row + 1 \in 1 .. Len(Rows(m))
  BY <1>1, <1>3
<1>5. Len(Rows(m)[row + 1]) \in Nat
  BY <1>2, <1>4
<1>6. col \in Nat /\ col < Len(Rows(m)[row + 1])
  BY <1>1, <1>5
<1>7. CellAt(Rows(m), row, col).final_value
  BY <1>1, <1>4, <1>6 DEF CellAt
<1>8. QED
  BY <1>1, <1>4, <1>6, <1>7 DEF FinalWasStored

\* A page shows what is stored, and what is stored stays.
LEMMA ShownNext ==
  ASSUME Types, FinalWasStored, ShownWasStored, [Next]_vars
  PROVE  ShownWasStored'
<1>1. CASE RespondGet
  <2> DEFINE m == http.target
  <2>1. m \in Int /\ stored' = stored
    BY <1>1 DEF Types, HttpRecord, RespondGet, countVars
  <2>2. ASSUME NEW row, NEW c \in getHTMLRow(m, row)
        PROVE  \E t \in stored : t.field = c.field
    <3>1. PICK col : c \in Shown(m, row, col)
      BY <2>2 DEF getHTMLRow
    <3>2. QED
      BY <2>1, <3>1, ShownIsStored
  <2>3. ASSUME NEW c \in getHTMLMatrix(m)
        PROVE  \E t \in stored : t.field = c.field
    <3>1. PICK row : c \in getHTMLRow(m, row)
      BY <2>3 DEF getHTMLMatrix
    <3>2. QED
      BY <2>2, <3>1
  <2>4. \/ page' = getHTMLMatrix(m) \/ page' = getHTMLRow(m, http.row)
        \/ page' = {} \/ page' = Shown(m, http.row, http.col)
    <3>1. page' = CASE http.row = None /\ http.col = None -> getHTMLMatrix(http.target)
                    [] http.row # None /\ http.col = None -> getHTMLRow(http.target, http.row)
                    [] http.row = None /\ http.col # None -> {}
                    [] OTHER -> Shown(http.target, http.row, http.col)
      BY <1>1 DEF RespondGet
    <3>2. QED
      BY <3>1
  <2>5. ASSUME NEW c \in page'
        PROVE  \E t \in stored : t.field = c.field
    BY <2>1, <2>2, <2>3, <2>4, <2>5, ShownIsStored
  <2>6. QED
    BY <2>1, <2>5 DEF ShownWasStored
<1>2. CASE ~RespondGet
  <2>1. page' = page /\ stored \subseteq stored'
    BY <1>2 DEF Next, ServerStep, WorkerStep, ReadField, Accept, Receive, ReadRequestLine, ReadRow,
       ReadColumn, ReadContentLength, ReadNumberField, ReadLastChunk, SkipLine, EndOfGet, EndOfHeader,
       RespondPost, Close, RecvSegment, RecvEnd, EndProgram, Post, Ask, countVars, vars
  <2>2. QED
    BY <2>1 DEF ShownWasStored
<1>3. QED
  BY <1>1, <1>2

-----------------------------------------------------------------------------
(***************************************************************************)
(* The invariant                                                           *)
(***************************************************************************)

\* The invariant holds initially.
LEMMA IInvInit ==
  ASSUME Init
  PROVE  IInv
<1>1. Types
  BY TypesInit
<1>2. Connection
  BY ConnectionInit
<1>3. Browser
  BY DEF Browser, Init, Clients
<1>4. Parsed
  BY DEF Parsed, Served, Init
<1>5. FinalWasStored
  <2>1. \A m : Len(Rows(m)) = 0
    BY DEF Rows, Init
  <2>2. NewCell.final_value = FALSE
    BY DEF NewCell
  <2>3. \A m \in Int, row, col \in Nat : CellAt(Rows(m), row, col) = NewCell
    BY <2>1 DEF CellAt
  <2>4. QED
    BY <2>2, <2>3 DEF FinalWasStored
<1>6. ShownWasStored
  BY DEF ShownWasStored, Init
<1>7. QED
  BY <1>1, <1>2, <1>3, <1>4, <1>5, <1>6 DEF IInv

\* Every step keeps the invariant.
LEMMA IInvNext ==
  ASSUME IInv, [Next]_vars
  PROVE  IInv'
<1>1. Types /\ Connection /\ Browser /\ Parsed /\ FinalWasStored /\ ShownWasStored
  BY DEF IInv
<1>2. Types' /\ Connection' /\ Browser' /\ Parsed' /\ FinalWasStored' /\ ShownWasStored'
  BY <1>1, TypesNext, ConnectionNext, BrowserNext, ParsedNext, FinalNext, ShownNext
<1>3. QED
  BY <1>2 DEF IInv

\* The invariant holds in every state of the database and its clients.
THEOREM Invariant == Spec => []IInv
<1>1. Init => IInv
  BY IInvInit
<1>2. IInv /\ [Next]_vars => IInv'
  BY IInvNext
<1>3. QED
  BY <1>1, <1>2, PTL DEF Spec

\* The variables of the database, the worker's call and the browser keep their
\* types; so there is always one client served, and the parser's position
\* never leaves the received message.
THEOREM TypeCorrect == Spec => []TypeOK
<1>1. IInv => TypeOK
  BY DEF IInv, Types
<1>2. QED
  BY <1>1, Invariant, PTL

\* Wherever TCP cuts the messages, httpParse accepts a POST only with the
\* matrix, row, column, flag and value that the worker has sent.
THEOREM ValidPosts == Spec => []ValidPostIsWhole
<1>1. ASSUME IInv, server = "valid", http.command = "POST"
      PROVE  /\ newsock_TCP = "worker" /\ worker = "waiting"
             /\ <<http.target, http.row, http.col>> = task.field
             /\ http.content = Wrap(task.value)
             /\ http.last_chunk <=> LastChunk(task)
  <2>1. Types /\ Connection /\ Browser /\ Parsed
    BY <1>1 DEF IInv
  <2>2. Served
    BY <1>1, <2>1 DEF Browser
  <2>3. task \in Tasks /\ worker = "waiting"
    BY <2>1, <2>2 DEF Types, TypeOK, Connection
  <2>4. task.field \in Nat \X Nat \X Nat
    BY <2>3, DatabaseAssumption
  <2>5. /\ http.target = task.field[1] /\ http.row = task.field[2] /\ http.col = task.field[3]
        /\ http.content = Wrap(task.value) /\ http.last_chunk = LastChunk(task)
    BY <1>1, <2>1, <2>2 DEF Parsed, Found
  <2>6. <<http.target, http.row, http.col>> = task.field
    BY <2>4, <2>5
  <2>7. QED
    BY <2>2, <2>3, <2>5, <2>6 DEF Served
<1>2. IInv => ValidPostIsWhole
  BY <1>1 DEF ValidPostIsWhole
<1>3. QED
  BY <1>2, Invariant, PTL

\* A page shows a value only for a field of which a chunk was added: the cells
\* that addResult creates on the way never count as final.
THEOREM PagesShowStored == Spec => []ShownWasStored
<1>1. IInv => ShownWasStored
  BY DEF IInv
<1>2. QED
  BY <1>1, Invariant, PTL

\* The database does not die of an exception.
Running == server # "terminated"

\* No message of a worker or a browser, cut anywhere, makes the database call
\* vector::at with a negative index, which would end the program.
THEOREM NeverTerminates == Spec => []Running
<1>1. Init => Running
  BY DEF Init, Running
<1>2. ASSUME IInv, Running, [Next]_vars
      PROVE  Running'
  <2>1. CASE RespondPost
    <3>1. ~(http.row < 0 \/ http.col < 0)
      BY <1>2, <2>1, PostHasIndices DEF IInv
    <3>2. QED
      BY <2>1, <3>1 DEF RespondPost, Running
  <2>2. CASE ~RespondPost
    BY <1>2, <2>2 DEF Next, ServerStep, WorkerStep, ReadField, Accept, Receive, ReadRequestLine, ReadRow,
       ReadColumn, ReadContentLength, ReadNumberField, ReadLastChunk, SkipLine, EndOfGet, EndOfHeader,
       RespondGet, Close, RecvSegment, RecvEnd, EndProgram, Post, Ask, Invalid, Running, vars
  <2>3. QED
    BY <2>1, <2>2
<1>3. QED
  BY <1>1, <1>2, Invariant, PTL DEF Spec

-----------------------------------------------------------------------------
(***************************************************************************)
(* The database implements ChunkStore                                      *)
(***************************************************************************)

Fields == {t.field : t \in Tasks}

\* The fields of the tasks are a matrix, a row and a column.
LEMMA FieldsAreIndices ==
  ASSUME NEW f \in Fields
  PROVE  f \in Nat \X Nat \X Nat
BY DatabaseAssumption DEF Fields

\* A cell that is missing counts as a new one.
LEMMA CellAtCell ==
  ASSUME NEW rows \in Seq(Seq(Cell)), NEW row \in Nat, NEW col \in Nat
  PROVE  CellAt(rows, row, col) \in Cell
<1>1. CASE row < Len(rows) /\ col < Len(rows[row + 1])
  <2>1. row + 1 \in 1 .. Len(rows)
    BY <1>1
  <2>2. rows[row + 1] \in Seq(Cell)
    BY <2>1
  <2>3. col + 1 \in 1 .. Len(rows[row + 1])
    BY <1>1, <2>2
  <2>4. QED
    BY <1>1, <2>2, <2>3 DEF CellAt
<1>2. CASE ~(row < Len(rows) /\ col < Len(rows[row + 1]))
  BY <1>2, CellFacts DEF CellAt
<1>3. QED
  BY <1>1, <1>2

\* The stored sum of a field is the value of its cell.
LEMMA StoredSumIsCell ==
  ASSUME NEW f
  PROVE  /\ StoredSum(f) = CellAt(Rows(f[1]), f[2], f[3]).value
         /\ StoredSum(f)' = CellAt(Rows(f[1])', f[2], f[3]).value
BY DEF StoredSum, CellAt, NewCell

\* The sums change with the matrices only.
LEMMA StoredSumKept ==
  ASSUME result_matrix' = result_matrix
  PROVE  \A f : StoredSum(f)' = StoredSum(f)
BY DEF StoredSum, Rows

\* Initially nothing is stored.
LEMMA InitStores ==
  ASSUME Init
  PROVE  Store!Init
<1>1. \A f : Len(Rows(f[1])) = 0
  BY DEF Rows, Init
<1>2. \A f \in Fields : StoredSum(f) = 0
  BY <1>1, FieldsAreIndices DEF StoredSum
<1>3. QED
  BY <1>2 DEF Store!Init, Store!FieldsOf, Init, Fields

\* A POST that is answered is the abstract addition.
LEMMA RespondPostAdds ==
  ASSUME Types, Connection, Browser, Parsed, RespondPost
  PROVE  Store!Add
<1>1. task \in Tasks /\ ~counted /\ counted' = TRUE
  BY PostStores
<1>2. task' = task /\ acknowledged' = acknowledged
  BY DEF RespondPost, workerVars
<1>3. task # NoTask
  BY <1>1, DatabaseAssumption
<1>4. task.field \in Fields /\ task.value \in Int
  BY <1>1, DatabaseAssumption DEF Fields
<1>5. ASSUME NEW f \in Fields
      PROVE  StoredSum(f)' = IF f = task.field THEN Wrap(StoredSum(f) + task.value) ELSE StoredSum(f)
  <2>1. PICK m \in Nat, row \in Nat, col \in Nat : f = <<m, row, col>>
    BY FieldsAreIndices
  <2>2. f[1] = m /\ f[2] = row /\ f[3] = col
    BY <2>1
  <2>3. StoredSum(f) = CellAt(Rows(m), row, col).value /\ StoredSum(f)' = CellAt(Rows(m)', row, col).value
    BY <2>2, StoredSumIsCell
  <2>4. Rows(m) \in Seq(Seq(Cell))
    BY RowsAreSequences
  <2>5. CellAt(Rows(m), row, col) \in Cell
    BY <2>4, CellAtCell
  <2>6. CellAt(Rows(m), row, col).value \in Int
    BY <2>5 DEF Cell
  <2>7. \A i \in Int, r, c \in Nat :
          CellAt(Rows(i)', r, c) =
            IF <<i, r, c>> = task.field
            THEN CellPlus(CellAt(Rows(i), r, c), Wrap(task.value))
            ELSE CellAt(Rows(i), r, c)
    BY PostStores
  <2>8. CASE f = task.field
    <3>1. CellAt(Rows(m)', row, col) = CellPlus(CellAt(Rows(m), row, col), Wrap(task.value))
      BY <2>1, <2>7, <2>8
    <3>2. StoredSum(f)' = Wrap(StoredSum(f) + Wrap(task.value))
      BY <2>3, <3>1 DEF CellPlus
    <3>3. QED
      BY <1>4, <2>3, <2>6, <2>8, <3>2, WrapOfSum
  <2>9. CASE f # task.field
    BY <2>1, <2>3, <2>7, <2>9
  <2>10. QED
    BY <2>8, <2>9
<1>6. \A n \in Int : Store!Wrapped(n) = Wrap(n)
  BY DEF Store!Wrapped, Wrap
<1>7. \A f \in Fields : StoredSum(f) \in Int
  <2> SUFFICES ASSUME NEW f \in Fields PROVE StoredSum(f) \in Int
    OBVIOUS
  <2>1. f[1] \in Nat /\ f[2] \in Nat /\ f[3] \in Nat
    BY FieldsAreIndices
  <2>2. CellAt(Rows(f[1]), f[2], f[3]) \in Cell
    BY <2>1, RowsAreSequences, CellAtCell
  <2>3. QED
    BY <2>2, StoredSumIsCell DEF Cell
<1> DEFINE total == [f \in Fields |-> StoredSum(f)]
<1>8. total' = [total EXCEPT ![task.field] = Store!Wrapped(@ + task.value)]
  <2>1. \A f \in Fields : total'[f] = StoredSum(f)' /\ total[f] = StoredSum(f)
    OBVIOUS
  <2>2. Store!Wrapped(StoredSum(task.field) + task.value) = Wrap(StoredSum(task.field) + task.value)
    BY <1>4, <1>6, <1>7
  <2>3. QED
    BY <1>4, <1>5, <2>2
<1>9. QED
  BY <1>1, <1>2, <1>3, <1>8 DEF Store!Add, Fields

StoreUnchanged == UNCHANGED <<task, counted, acknowledged>> /\ \A f : StoredSum(f)' = StoredSum(f)

\* Posting begins an abstract post, the answer to a valid POST adds its value,
\* the end of the connection ends the post, and all else is a stutter.
LEMMA NextStores ==
  ASSUME Types, Connection, Browser, Parsed, [Next]_vars
  PROVE  [Store!Next]_(Store!vars)
<1>1. ASSUME result_matrix' = result_matrix
      PROVE  [f \in Fields |-> StoredSum(f)]' = [f \in Fields |-> StoredSum(f)]
  BY <1>1, StoredSumKept
<1>2. ASSUME NEW t \in Tasks, Post(t)
      PROVE  Store!Begin(t)
  <2>1. task = NoTask
    BY <1>2 DEF Types, TypeOK, Post
  <2>2. UNCHANGED <<result_matrix, acknowledged>> /\ task' = t /\ counted' = FALSE
    BY <1>2 DEF Post
  <2>3. QED
    BY <1>1, <2>1, <2>2 DEF Store!Begin, Fields
<1>3. ASSUME RecvEnd
      PROVE  Store!End(buf_worker = OK)
  <2>1. task # NoTask
    BY <1>3 DEF Types, TypeOK, RecvEnd
  <2>2. buf_worker = OK => counted
    BY DEF Connection
  <2>3. /\ UNCHANGED <<result_matrix, counted>> /\ task' = NoTask
        /\ acknowledged' = IF buf_worker = OK THEN acknowledged \cup {task} ELSE acknowledged
    BY <1>3 DEF RecvEnd, HangUp, countVars, OK
  <2>4. QED
    BY <1>1, <2>1, <2>2, <2>3 DEF Store!End, Fields
<1>4. ASSUME RespondPost
      PROVE  Store!Next
  BY <1>4, RespondPostAdds DEF Store!Next
<1>5. ASSUME ~RecvEnd, ~RespondPost, \A t \in Tasks : ~Post(t)
      PROVE  UNCHANGED Store!vars
  <2>1. UNCHANGED <<result_matrix, task, counted, acknowledged>>
    BY <1>5 DEF Next, ServerStep, WorkerStep, ReadField, Accept, Receive, ReadRequestLine, ReadRow,
       ReadColumn, ReadContentLength, ReadNumberField, ReadLastChunk, SkipLine, EndOfGet, EndOfHeader,
       RespondGet, Close, RecvSegment, EndProgram, Ask, workerVars, countVars, vars
  <2>2. QED
    BY <1>1, <2>1 DEF Store!vars, Fields
<1>6. QED
  <2>1. \A t \in Tasks : Post(t) => Store!Next
    BY <1>2 DEF Store!Next
  <2>2. RecvEnd => Store!Next
    BY <1>3 DEF Store!Next
  <2>3. QED
    BY <1>4, <1>5, <2>1, <2>2

\* Wherever messages and answers are cut, and whenever the database ends,
\* every result is added to its own field at most once per call of
\* writeToDatabase and to no other, and the worker is told that it is stored
\* only when it was: every behaviour is one of ChunkStore.
THEOREM DatabaseImplementsStore == Spec => StoreImplemented
<1>1. Init => Store!Init
  BY InitStores
<1>2. IInv /\ [Next]_vars => [Store!Next]_(Store!vars)
  BY NextStores DEF IInv
<1>3. QED
  BY <1>1, <1>2, Invariant, PTL DEF Spec, StoreImplemented, Store!Spec
-----------------------------------------------------------------------------
(***************************************************************************)
(* The flag of the last chunk                                              *)
(***************************************************************************)

\* What was acknowledged is in the database, and so is the task that is being
\* posted once its value was added.
AcknowledgedStored ==
  /\ acknowledged \subseteq stored
  /\ counted => task = NoTask \/ task \in stored

\* Every step keeps what was acknowledged in the database.
LEMMA AcknowledgedNext ==
  ASSUME IInv, AcknowledgedStored, [Next]_vars
  PROVE  AcknowledgedStored'
<1>1. CASE RecvEnd
  <2>1. buf_worker = OK => counted
    BY DEF IInv, Connection
  <2>2. task # NoTask
    BY <1>1 DEF IInv, Types, TypeOK, RecvEnd
  <2>3. /\ UNCHANGED <<stored, counted>> /\ task' = NoTask
        /\ acknowledged' = IF buf_worker = OK THEN acknowledged \cup {task} ELSE acknowledged
    BY <1>1 DEF RecvEnd, HangUp, countVars, OK
  <2>4. QED
    BY <2>1, <2>2, <2>3 DEF AcknowledgedStored
<1>2. CASE RespondPost
  <2>1. stored' = stored \cup {task} /\ UNCHANGED <<acknowledged, task>>
    BY <1>2, PostStores DEF IInv, RespondPost, workerVars
  <2>2. QED
    BY <2>1 DEF AcknowledgedStored
<1>3. CASE \E t \in Tasks : Post(t)
  BY <1>3 DEF Post, AcknowledgedStored
<1>4. CASE ~RecvEnd /\ ~RespondPost /\ ~ \E t \in Tasks : Post(t)
  <2>1. UNCHANGED <<acknowledged, stored, counted, task>>
    BY <1>4 DEF Next, ServerStep, WorkerStep, ReadField, Accept, Receive, ReadRequestLine, ReadRow,
       ReadColumn, ReadContentLength, ReadNumberField, ReadLastChunk, SkipLine, EndOfGet, EndOfHeader,
       RespondGet, Close, RecvSegment, EndProgram, Ask, workerVars, countVars, vars
  <2>2. QED
    BY <2>1 DEF AcknowledgedStored
<1>5. QED
  BY <1>1, <1>2, <1>3, <1>4

\* A POST with Last-Chunk: TRUE completes its field: LastChunk was evaluated
\* from what was acknowledged, the flag survives the parser, and what was
\* acknowledged is in the database.
THEOREM FlagsTrue == Spec => []LastChunkCompletes
<1>1. Init => AcknowledgedStored
  BY DEF Init, AcknowledgedStored
<1>2. IInv /\ AcknowledgedStored /\ [Next]_vars => AcknowledgedStored'
  BY AcknowledgedNext
<1>3. ValidPostIsWhole /\ AcknowledgedStored => LastChunkCompletes
  BY DEF ValidPostIsWhole, AcknowledgedStored, LastChunkCompletes, LastChunk
<1>4. QED
  BY <1>1, <1>2, <1>3, Invariant, ValidPosts, PTL DEF Spec

=============================================================================
