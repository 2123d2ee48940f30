------------------------------ MODULE SiteFile ------------------------------
(***************************************************************************)
(* The GoldenSite program from the file of its page to the style sheets:   *)
(* CsvParser (module CsvParser) reads the records of the file, and ReadSite *)
(* and main (module SitePage) take them for the header and the rows of the *)
(* table.  The parser never looks at what the reader makes of a record, so *)
(* that reading all records first is the same as reading one to a row.     *)
(*                                                                         *)
(* Words that are no special characters count as one character.            *)
(***************************************************************************)
EXTENDS SitePage

CONSTANTS
  Documents,   \* what may be in the file
  FieldNames,  \* word -> field of a column with that name
  Values       \* word -> what it is to a reader

VARIABLES document, closed, is, parsing, records, record, field, start, end

fileVars == <<document, closed, is, parsing, records, record, field, start, end>>

CSV == INSTANCE CsvParser WITH pc <- parsing

ASSUME DocumentsAssumption == \A doc \in Documents : doc # <<>> /\ CSV!Writable(doc)
-----------------------------------------------------------------------------
\* SiteReader::GetField, by the exact name.
GetField(text) ==
  IF Len(text) = 1 /\ text[1] \in DOMAIN FieldNames THEN FieldNames[text[1]] ELSE "unknown"

\* A cell for the reader: of any other text than a word only that there is one.
CellOf(text) ==
  IF text = <<>> THEN <<>>
  ELSE IF Len(text) = 1 /\ text[1] \in DOMAIN Values THEN <<Values[text[1]]>> ELSE <<text>>

RowOf(rec) == [n \in DOMAIN rec |-> CellOf(rec[n])]
TableOf(recs) ==
  IF recs = <<>> THEN [header |-> <<>>, rows |-> <<>>]
  ELSE [header |-> [n \in DOMAIN recs[1] |-> GetField(recs[1][n])],
        rows   |-> [m \in 1 .. Len(recs) - 1 |-> RowOf(recs[m + 1])]]

Parse == CSV!Next /\ UNCHANGED vars

HandOver ==
  /\ parsing = "done"
  /\ parsing' = "handed over"
  /\ table' = TableOf(records)
  /\ UNCHANGED <<document, closed, is, records, record, field, start, end>>
  /\ UNCHANGED <<pc, read, row, sections, all_layouts, layout_permutations, p, drawing, drawn,
                 offset_y, max_height, ordered_dimensions, sheets, max_thumb_scale, images>>

Build == parsing = "handed over" /\ Next /\ UNCHANGED fileVars

SiteInit == Init /\ CSV!Init
SiteNext == Parse \/ HandOver \/ Build
SiteReturned == Returned /\ UNCHANGED fileVars

SiteSpec == SiteInit /\ [][SiteNext \/ SiteReturned]_<<vars, fileVars>>
-----------------------------------------------------------------------------
(* Properties *)

\* The parser returns what was written in the file (CsvParser, 22-28).
ReadsTheDocument == CSV!ReadsTheDocument

\* The remarks of the parser on white space (CsvParser, 23).
TrimsOutsideQuotes == CSV!TrimsOutsideQuotes

\* A file becomes the sections it was written for: one for every record behind
\* the header up to the first without a first field, but those with something
\* in a column for disabled; with the number of the record, and in the layout
\* group that it names.  The reader gets no further than the first that is
\* shorter than the header, or the last when it has no delimiter, as it looks for
\* a field behind its end (but a last record of one field is just lost), or that
\* has a picture that can not be read or a video without a dot, enabled or not.
SectionsAreTheRecords ==
  /\ parsing = "handed over" /\ pc # "read"
  /\ CSV!AllRegular /\ (closed \/ Len(document[Len(document)]) > 1)
  => LET told == TableOf([n \in DOMAIN document |-> CSV!PromisedRecord(document[n])])
         ends == {n \in DOMAIN told.rows : told.rows[n][1] = <<>>} \cup {Len(told.rows) + 1}
         rows == 1 .. Min(ends) - 1
         Told(n, name) == {told.rows[n][c] : c \in {d \in DOMAIN told.header :
                             told.header[d] = name /\ told.rows[n][d] # <<>>}}
         enabled == {n \in rows : Told(n, "disabled") = {}}
         stopped == {n \in rows : \/ Len(told.rows[n]) < Len(told.header)
                                  \/ ~closed /\ n = Len(told.rows)
                                  \/ \E cell \in Told(n, "poster") :
                                       IF cell[1].jpeg THEN cell[1].width = none ELSE ~cell[1].dot}
     IN  IF stopped # {}
         THEN pc \in {"aborted", "undefined"} /\ read = Min(stopped) /\ row = read - 1
         ELSE /\ Len(sections) = Cardinality(enabled)
              /\ \A n \in enabled : \E section \in Range(sections) :
                   /\ section.row = n - 1
                   /\ Told(n, "layout") # {} => <<section.layout>> \in Told(n, "layout")
=============================================================================
