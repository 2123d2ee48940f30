----------------------------- MODULE MCSiteFile -----------------------------
(***************************************************************************)
(* The program with its own five targets: on files of pages with one or    *)
(* two layout groups of three or four sections, and with rows that disturb *)
(* them; and on files for the parser, of one field with any short pieces,  *)
(* of two fields with a few, and of two records.                           *)
(***************************************************************************)
EXTENDS SiteFile

Widths == <<320, 480, 768, 960, 1280>>
Screens == {200, 319, 320, 479, 480, 481, 767, 768, 959, 960, 1279, 1280, 1600}

Plain(text)  == [quoted |-> FALSE, text |-> text]
Quoted(text) == [quoted |-> TRUE, text |-> text]
-----------------------------------------------------------------------------
(* Pages *)

MCFieldNames == [word \in {"name", "poster", "layout", "disabled", "dimensions"} |-> word]

Named(dot, jpeg, width, height) ==
  [dot |-> dot, jpeg |-> jpeg, width |-> width, height |-> height]
Picture(width, height) == Named(TRUE, TRUE, width, height)
Video == Named(TRUE, FALSE, -1, -1)

\* The name of bare has no dot, that of jpg is "jpg".
MCValues ==
  [wide |-> Picture(600, 400), tall |-> Picture(200, 900), lost |-> Picture(-1, -1),
   film |-> Video, bare |-> Named(FALSE, FALSE, -1, -1), jpg |-> Named(FALSE, TRUE, 300, 300),
   hd |-> <<640, 480>>]
  @@ ("0" :> 0) @@ ("1" :> 1) @@ ("2" :> 2) @@ ("5" :> 5)

Word(word)   == <<Plain(<<word>>)>>
Padded(word) == <<Plain(<<" ", word, " ">>)>>
Text         == <<Plain(<<" ">>), Quoted(<<"a", ",", "\"", "\n">>)>>
None         == <<Plain(<<>>)>>

Header ==
  <<Word("name"), Word("poster"), Word("words"), Padded("layout"), Word("disabled"), Word("dimensions")>>

Wide(id) == <<Word("a"), Word("wide"), Text, Word(id), None, None>>
Tall(id) == <<Word("a"), Padded("tall"), None, Padded(id), None, None>>
Film(id) == <<Text, Word("film"), None, Word(id), None, Word("hd")>>
Lost(id) == <<Word("a"), Word("lost"), None, Word(id), None, None>>
Bare(id) == <<Word("a"), Word("bare"), None, Word(id), Word("yes"), Word("hd")>>
Jpg(id)  == <<Word("a"), Word("jpg"), None, Word(id), None, None>>
Both(id) == <<Word("a"), Word("tall"), None, Word(id), None, Word("hd")>>
Film0(id) == <<Text, Word("film"), None, Word(id), None, None>>
Off(id)  == <<Word("a"), Word("tall"), None, Word(id), Word("yes"), None>>
Loose    == <<Word("a"), Word("tall"), None, None, None, None>>
Short    == <<Word("a"), Word("tall"), None>>
Nameless == <<None, Word("tall"), None, Word("0"), None, None>>
Blank    == <<None>>

Group3(id) == <<Wide(id), Film(id), Tall(id)>>
Group4(id) == <<Tall(id), Wide(id), Wide(id), Film(id)>>

Pages ==
  {Group3("0"), Group4("1"), Group3("5") \o Group4("2"), Group4("0") \o Group3("1"), <<>>, <<Loose>>}
Disturbed ==
  {InsertAt(Group4("0"), at, other) : at \in 1 .. 5,
     other \in {Off("0"), Lost("0"), Bare("0"), Film0("0"), Loose, Short, Nameless, Blank}}
  \cup {InsertAt(Group3("1") \o Group3("0"), at, other) : at \in 1 .. 6, other \in {Off("1"), Loose}}
Mixed == {<<Wide("0"), Tall("1"), Tall("0"), Wide("1"), Film("0"), Wide("1")>>,
          <<Wide("0"), Wide("0")>>, Group3("0") \o <<Wide("1")>>, Group3("0") \o <<Off("0"), Loose>>,
          <<Wide("0"), Jpg("0"), Both("0")>>}

\* The columns of posters and dimensions change places.
Swapped(rows) == [n \in DOMAIN rows |-> [rows[n] EXCEPT ![2] = rows[n][6], ![6] = rows[n][2]]]

PageDocuments ==
  {<<Header>> \o rows : rows \in Pages \cup Disturbed \cup Mixed}
  \cup {Swapped(<<Header, Jpg("0"), Both("0"), Film("0")>>)}

Leaf(label, left, top, right, bottom) ==
  [label |-> label, left |-> left, top |-> top, right |-> right, bottom |-> bottom]

\* The first two beside each other above the third, or above each other beside
\* it; the others below them.
Strips(n, w, top) == [m \in 1 .. n - 3 |-> Leaf(m + 2, 0, top + 50 * (m - 1), w, top + 50 * m)]
Flat(n, w) ==
  <<Leaf(0, 0, 0, w \div 2, 100), Leaf(2, 0, 100, w, 180), Leaf(1, w \div 2, 0, w, 100)>>
  \o Strips(n, w, 180)
High(n, w) ==
  Strips(n, w, 600)
  \o <<Leaf(2, w \div 4, 0, w, 600), Leaf(1, 0, 300, w \div 4, 600), Leaf(0, 0, 0, w \div 4, 300)>>

MCLayoutsOf ==
  [n \in 3 .. 8 |->
    {[t \in Target |-> <<Flat(n, Width(t)), High(n, Width(t))>>],
     [t \in Target |-> IF t = 0 THEN <<High(n, Width(t))>>
                       ELSE <<High(n, Width(t)), Flat(n, Width(t)), Flat(n, Width(t))>>],
     [t \in Target |-> IF t = 2 THEN <<>> ELSE <<Flat(n, Width(t))>>]}]
-----------------------------------------------------------------------------
(* Fields *)

Texts(chars, n) == UNION {[1 .. k -> chars] : k \in 0 .. n}

PlainPieces  == {Plain(text) : text \in Texts({"a", " "}, 2)}
QuotedPieces == {Quoted(text) : text \in Texts({"a", " ", ",", "\n", "\""}, 2)}
ShortQuoted  == {Quoted(text) : text \in Texts({"a", " "}, 2)}

OneField ==
  {<<f>> : f \in PlainPieces}
  \cup {<<f, g, h>> : f \in PlainPieces, g \in QuotedPieces, h \in PlainPieces}
  \cup {<<g, Plain(<<ch>>), h>> : g \in ShortQuoted, ch \in {"a", " "}, h \in ShortQuoted}

\* 'a""b""c' and the other examples of the comments (83-85).
Examples ==
  {<<Plain(<<"a">>), Quoted(<<>>), Plain(<<"b">>), Quoted(<<>>), Plain(<<"c">>)>>,
   <<Plain(<<"a">>), Quoted(<<"\"", "b", "\"">>), Plain(<<"c">>)>>,
   <<Quoted(<<"a", "\"", "b", "\"", "c">>)>>}

Few == {<<Plain(<<"a">>)>>, <<Plain(<<" ", "a", " ">>)>>,
        <<Plain(<<" ">>), Quoted(<<" ", "a">>), Plain(<<" ">>)>>,
        <<Quoted(<<"\n", "a", ",">>)>>}

FieldDocuments ==
  {<< <<f>> >> : f \in OneField \cup Examples}
  \cup {<< <<f, g>> >> : f, g \in Few}
  \cup {<< <<f, g>>, <<h>> >> : f, g, h \in Few}

MCDocuments == PageDocuments \cup FieldDocuments

\* The tables of the pages are such as the proofs about SitePage assume.
ASSUME PagesAssumption ==
  \A doc \in PageDocuments :
    LET page_table == TableOf([n \in DOMAIN doc |-> CSV!PromisedRecord(doc[n])])
    IN  IsTable(page_table) /\ 3 .. Len(page_table.rows) \subseteq DOMAIN LayoutsOf
NoTable == {[header |-> <<>>, rows |-> <<>>]}
=============================================================================
