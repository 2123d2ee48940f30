----------------------------- MODULE CsvParser ------------------------------
(***************************************************************************)
(* CsvParser::ParseLine (GoldenSite/csv_parser.h), called until it returns *)
(* no field, as SiteReader::ReadSite does: one pass over the characters of *)
(* a file, one character to an action.                                     *)
(*                                                                         *)
(* A file is written from a document: records of fields, a field being     *)
(* pieces of text that are in quotes or not.  The properties compare what  *)
(* is read with what the remarks before ParseLine (22-28) promise of it.   *)
(***************************************************************************)
EXTENDS Integers, SequencesExt, FiniteSetsExt

CONSTANT Documents   \* sequences of records

field_delimiter  == ","
record_delimiter == "\n"
quote_character  == "\""
whitespace_list  == {" ", "\t", "\n", "\f", "VT", "\r"}   \* "VT" is "\v"

\* What a writer that follows the remarks may write: plain pieces hold none of
\* the special characters, and two pieces in quotes are not neighbours.
Writable(doc) ==
  \A at \in DOMAIN doc : \A f \in DOMAIN doc[at] :
    LET pieces == doc[at][f] IN
    \A n \in DOMAIN pieces :
      /\ ~pieces[n].quoted => Range(pieces[n].text) \cap
           {field_delimiter, record_delimiter, quote_character} = {}
      /\ \A l \in 1 .. n - 1 : pieces[l].quoted /\ pieces[n].quoted =>
           \E between \in l + 1 .. n - 1 : pieces[between].text # <<>>

VARIABLES
  document,     \* what was written, for the properties
  closed,       \* the last record ends with its delimiter, too
  is,           \* the characters left
  pc,           \* "plain", "quoted", "done"
  records,      \* the records returned
  record, field,
  start, end    \* the last section in quotes, in field; -1 without one

vars == <<document, closed, is, pc, records, record, field, start, end>>

\* A file of the document: quotes in quotes are doubled.
Written(doc) ==
  LET Doubled(ch)  == IF ch = quote_character THEN <<ch, ch>> ELSE <<ch>>
      Piece(piece) == IF piece.quoted
                      THEN <<quote_character>>
                             \o FlattenSeq([n \in DOMAIN piece.text |-> Doubled(piece.text[n])])
                             \o <<quote_character>>
                      ELSE piece.text
      Field(pieces) == FlattenSeq([n \in DOMAIN pieces |-> Piece(pieces[n])])
      Record(rec)   == FlattenSeq([n \in DOMAIN rec |->
                         Field(rec[n]) \o (IF n < Len(rec) THEN <<field_delimiter>>
                                                           ELSE <<record_delimiter>>)])
  IN  FlattenSeq([n \in DOMAIN doc |-> Record(doc[n])])

Init ==
  /\ document \in Documents /\ closed \in BOOLEAN
  /\ is = IF closed THEN Written(document) ELSE Front(Written(document))
  /\ pc = "plain"
  /\ records = <<>> /\ record = <<>> /\ field = <<>>
  /\ start = -1 /\ end = -1

InText(ch) == is # <<>> /\ Head(is) = ch

\* Mutant: also in quotes.
TrimAll ==
  LET solid == {n \in DOMAIN field : field[n] \notin whitespace_list}
  IN  IF solid = {} THEN field ELSE SubSeq(field, Min(solid), Max(solid))

\* Positions count from 0, and a field without any other character than white
\* space is left as it is.
Trimmed ==
  LET solid == {n - 1 : n \in {i \in DOMAIN field : field[i] \notin whitespace_list}}
      end_pos == Max(solid)
      start_pos == Min(solid)
      upto == IF end > end_pos THEN end ELSE end_pos + 1
      from == IF start # -1 /\ start < start_pos THEN start ELSE start_pos
  IN  IF solid = {} THEN field ELSE SubSeq(field, from + 1, upto)

EndField ==
  /\ pc = "plain" /\ InText(field_delimiter)
  /\ record' = Append(record, Trimmed)
  /\ field' = <<>> /\ start' = -1 /\ end' = -1
  /\ is' = Tail(is)
  /\ UNCHANGED <<document, closed, pc, records>>

EndRecord ==
  /\ pc = "plain" /\ InText(record_delimiter)
  /\ records' = Append(records, Append(record, Trimmed))
  /\ record' = <<>> /\ field' = <<>> /\ start' = -1 /\ end' = -1
  /\ is' = Tail(is)
  /\ UNCHANGED <<document, closed, pc>>

OpenQuotes ==
  /\ pc = "plain" /\ InText(quote_character)
  /\ pc' = "quoted"
  /\ start' = Len(field)
  /\ is' = Tail(is)
  /\ UNCHANGED <<document, closed, records, record, field, end>>

PlainChar ==
  /\ pc = "plain" /\ is # <<>>
  /\ Head(is) \notin {field_delimiter, record_delimiter, quote_character}
  /\ field' = Append(field, Head(is))
  /\ is' = Tail(is)
  /\ UNCHANGED <<document, closed, pc, records, record, start, end>>

QuotedChar ==
  /\ pc = "quoted" /\ is # <<>> /\ Head(is) # quote_character
  /\ field' = Append(field, Head(is))
  /\ is' = Tail(is)
  /\ UNCHANGED <<document, closed, pc, records, record, start, end>>

\* is.peek()
QuoteFollows == Len(is) > 1 /\ is[2] = quote_character

QuoteLiteral ==
  /\ pc = "quoted" /\ InText(quote_character) /\ QuoteFollows
  /\ field' = Append(field, quote_character)
  /\ is' = Tail(Tail(is))
  /\ UNCHANGED <<document, closed, pc, records, record, start, end>>

CloseQuotes ==
  /\ pc = "quoted" /\ InText(quote_character) /\ ~QuoteFollows
  /\ pc' = "plain"
  /\ end' = Len(field)
  /\ is' = Tail(is)
  /\ UNCHANGED <<document, closed, records, record, field, start>>

\* What is in record is returned, what is in field is lost; the next call gives
\* an empty record, and the reader stops.
EndOfStream ==
  /\ pc \in {"plain", "quoted"} /\ is = <<>>
  /\ records' = IF record = <<>> THEN records ELSE Append(records, record)
  /\ pc' = "done"
  /\ UNCHANGED <<document, closed, is, record, field, start, end>>

Next == \/ EndField \/ EndRecord \/ OpenQuotes \/ PlainChar
        \/ QuotedChar \/ QuoteLiteral \/ CloseQuotes \/ EndOfStream

Returned == pc = "done" /\ UNCHANGED vars

Spec == Init /\ [][Next \/ Returned]_vars
-----------------------------------------------------------------------------
(* Properties *)

\* The characters of a field, with whether they are in quotes, and an opening
\* quote before those that are.
Characters(pieces) ==
  FlattenSeq([n \in DOMAIN pieces |->
    (IF pieces[n].quoted THEN <<[ch |-> quote_character, quoted |-> FALSE]>> ELSE <<>>)
    \o [m \in DOMAIN pieces[n].text |->
          [ch |-> pieces[n].text[m], quoted |-> pieces[n].quoted]]])

\* "leading and trailing white space is removed outside of quoted sections"
\* (23): what a field is to be read as.
Promised(pieces) ==
  LET all  == Characters(pieces)
      kept == {n \in DOMAIN all : all[n].quoted \/ all[n].ch \notin whitespace_list}
      part == IF kept = {} THEN <<>> ELSE SubSeq(all, Min(kept), Max(kept))
      read == SelectSeq(part, LAMBDA c : c.quoted \/ c.ch # quote_character)
  IN  [n \in DOMAIN read |-> read[n].ch]

PromisedRecord(rec) == [n \in DOMAIN rec |-> Promised(rec[n])]

\* The fields that are read as promised: empty ones, and those with something
\* in them but white space, if what is in quotes before that is in the last
\* section in quotes.
Regular(pieces) ==
  LET Solid(n) == \E ch \in Range(pieces[n].text) : ch \notin whitespace_list
      solid == {n \in DOMAIN pieces : Solid(n)}
      sections == {n \in DOMAIN pieces : pieces[n].quoted}
  IN  IF solid = {} THEN \A n \in DOMAIN pieces : pieces[n].text = <<>>
      ELSE \A n \in sections :
             \/ n = Max(sections) \/ n > Min(solid)
             \/ pieces[n].text # <<>> /\ pieces[n].text[1] \notin whitespace_list

AllRegular == \A at \in DOMAIN document : \A f \in DOMAIN document[at] : Regular(document[at][f])

\* Files are read as they were written: the fields without the white space
\* around them and with that in quotes, delimiters in quotes as characters, a
\* doubled quote as one.  Without the last delimiter the last field is lost,
\* and with it a record that has no other.
ReadsTheDocument ==
  pc = "done" /\ AllRegular =>
    LET all  == [at \in DOMAIN document |-> PromisedRecord(document[at])]
        rest == Front(Last(all))
    IN  records = IF closed THEN all
                  ELSE IF rest = <<>> THEN Front(all) ELSE Append(Front(all), rest)

\* The remarks of ParseLine, for every field of a file that ends with a
\* delimiter.
TrimsOutsideQuotes ==
  pc = "done" /\ closed =>
    records = [at \in DOMAIN document |-> PromisedRecord(document[at])]
=============================================================================
