------------------------------ MODULE OrderCsv ------------------------------
(***************************************************************************)
(* Orders as CSV: ordersToCsv, and parseOrderCsv which reads the file back.*)
(* A text is a sequence of characters, those that matter to the format and *)
(* letters; an order has a name, an address and, in the last column, a     *)
(* time, which is plain.                                                   *)
(***************************************************************************)
EXTENDS Naturals, Sequences, SequencesExt

CONSTANTS
  Batches,  \* what may be exported: sequences of orders
  Letters   \* the characters without a meaning to the format

VARIABLES orders, file, input  \* input: whether the file was read, and its rows

vars == <<orders, file, input>>

Quote == "quote"
Comma == "comma"
CR == "return"
LF == "newline"

Characters == Letters \cup {Quote, Comma, CR, LF}
Plain(text) == \A i \in DOMAIN text : text[i] \notin {Quote, Comma, CR, LF}

\* An order has its three columns, of which one at least is filled in (its id is).
BatchOK(batch) ==
  /\ batch \in Seq(Seq(Seq(Characters)))
  /\ \A i \in DOMAIN batch : /\ Len(batch[i]) = 3 /\ Plain(batch[i][3])
                            /\ \E j \in DOMAIN batch[i] : batch[i][j] # <<>>
-----------------------------------------------------------------------------
(* Writing.                                                                *)

\* Fault: a cell with a quote is written as it is.
NeedsQuotesUnlessQuote(text) == \E c \in {Comma, CR, LF} : Contains(text, c)

NeedsQuotes(text) == \E c \in {Quote, Comma, CR, LF} : Contains(text, c)

Doubled(text) ==
  LET doubled[k \in 0 .. Len(text)] ==
        IF k = 0 THEN <<>>
        ELSE doubled[k - 1] \o (IF text[k] = Quote THEN <<Quote, Quote>> ELSE <<text[k]>>)
  IN doubled[Len(text)]

CsvCell(text) ==
  IF NeedsQuotes(text) THEN <<Quote>> \o Doubled(text) \o <<Quote>> ELSE text

Join(parts, separator) ==
  LET joined[k \in 0 .. Len(parts)] ==
        IF k = 0 THEN <<>>
        ELSE joined[k - 1] \o (IF k = 1 THEN <<>> ELSE separator) \o parts[k]
  IN joined[Len(parts)]

CsvRow(cells) == Join([i \in DOMAIN cells |-> CsvCell(cells[i])], <<Comma>>)

Header == <<<<"name">>, <<"address">>, <<"time">>>>

OrdersToCsv(batch) ==
  Join([i \in 1 .. Len(batch) + 1 |-> CsvRow(IF i = 1 THEN Header ELSE batch[i - 1])], <<CR, LF>>)
-----------------------------------------------------------------------------
(* Reading.                                                                *)

NoReturnAtEnd(field) ==
  IF field # <<>> /\ Last(field) = CR THEN Front(field) ELSE field

EndField(s) == [s EXCEPT !.row = Append(@, s.field), !.field = <<>>]

\* A row without a character in it is left out.
EndRow(s) ==
  LET row == Append(s.row, NoReturnAtEnd(s.field))
  IN [s EXCEPT !.rows = IF \E i \in DOMAIN row : row[i] # <<>> THEN Append(@, row) ELSE @,
               !.row = <<>>, !.field = <<>>]

\* One character; the second quote of a pair inside quotes is passed over.
Read(text, s, i) ==
  CASE s.quotes = "pair" -> [s EXCEPT !.quotes = "inside"]
    [] s.quotes = "inside" /\ text[i] = Quote ->
         IF i < Len(text) /\ text[i + 1] = Quote
         THEN [s EXCEPT !.field = Append(@, Quote), !.quotes = "pair"]
         ELSE [s EXCEPT !.quotes = "outside"]
    [] s.quotes = "outside" /\ text[i] = Quote -> [s EXCEPT !.quotes = "inside"]
    [] s.quotes = "outside" /\ text[i] = Comma -> EndField(s)
    [] s.quotes = "outside" /\ text[i] = LF -> EndRow(s)
    [] OTHER -> [s EXCEPT !.field = Append(@, text[i])]

Start == [rows |-> <<>>, row |-> <<>>, field |-> <<>>, quotes |-> "outside"]

\* <<>> also for a file that ends inside quotes, which is refused.
ParseCsv(text) ==
  LET state[k \in 0 .. Len(text)] == IF k = 0 THEN Start ELSE Read(text, state[k - 1], k)
      end == state[Len(text)]
  IN IF end.quotes = "inside" THEN <<>> ELSE EndRow(end).rows

IsSpace(c) == c \in {CR, LF}

Trim(text) ==
  LET kept == {i \in DOMAIN text : ~IsSpace(text[i])}
  IN IF kept = {} THEN <<>> ELSE SubSeq(text, Min(kept), Max(kept))

Trimmed(row) == [i \in DOMAIN row |-> Trim(row[i])]

\* The rows under a header that has the columns.
ParseOrderCsv(text) ==
  LET rows == ParseCsv(text)
  IN IF Len(rows) < 2 \/ Trimmed(rows[1]) # Header THEN <<>>
     ELSE [i \in 1 .. Len(rows) - 1 |-> Trimmed(rows[i + 1])]
-----------------------------------------------------------------------------
Init == orders \in Batches /\ file = <<>> /\ input = [read |-> FALSE, rows |-> <<>>]

Export ==
  /\ file = <<>>
  /\ file' = OrdersToCsv(orders)
  /\ UNCHANGED <<orders, input>>

Import ==
  /\ file # <<>> /\ ~input.read
  /\ input' = [read |-> TRUE, rows |-> ParseOrderCsv(file)]
  /\ UNCHANGED <<orders, file>>

Next == Export \/ Import

Spec == Init /\ [][Next]_vars
-----------------------------------------------------------------------------
\* What was exported is read back, cell by cell, but for white space at its ends.
CsvRoundTrips ==
  input.read => input.rows = [i \in DOMAIN orders |-> Trimmed(orders[i])]
=============================================================================
