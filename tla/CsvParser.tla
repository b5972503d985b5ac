----------------------------- MODULE CsvParser -----------------------------
(***************************************************************************)
(* products/services/csv-parser.service.ts: what becomes of a spreadsheet  *)
(* that is exported as CSV and parsed.                                     *)
(*                                                                         *)
(* The state is the sheet: its platforms, each with its columns (time,     *)
(* name, price), and one row of data.  A cell is a sequence of tokens:     *)
(* words, groups of digits and the characters the parser looks at.         *)
(***************************************************************************)
EXTENDS Naturals, SequencesExt

CONSTANTS
  Headings,      \* what the header calls a group of columns
  Recognised,    \* the headings the parser takes for platforms
  Titled,        \* names of games, as cells
  Regions,       \* what follows a name between parentheses
  Hints,         \* region -> the codes that extractRegion finds in it
  Products,      \* what a row may hold under a platform
  MaxColumns     \* bound: platforms of a sheet

VARIABLES
  layout,        \* cells of a platform: 3, or 4 with a blank one
  sheet          \* the platforms: heading and the product in the row

csvParserVars == <<layout, sheet>>

(* Tokens that the parser looks at, by name; Stamp is the cell "Carimbo de *)
(* data/hora" of the sub-header.                                           *)
QuoteMark == "quote"
Comma == "comma"
Dot   == "dot"
Opens == "parenthesis"
Stamp == <<"Carimbo">>

(* Prices: groups of digits before the decimals, and the decimals.  A      *)
(* thousand without decimals is left out: "7.234" is read as seven.        *)
Styles == {"BRL", "USD", "INT"}
Digits == [g \in {"7", "00", "50", "234"} |-> IF g = "7" THEN 1 ELSE IF g = "234" THEN 3 ELSE 2]
PriceTexts == [whole : {<<"7">>, <<"7", "234">>, <<"7", "234", "234">>}, part : {<<"50">>, <<"00">>}]
  \cup [whole : {<<"7">>, <<"234">>}, part : {<<>>}]

NoProduct == [filled |-> FALSE]
Product == [filled : {TRUE}, name : Titled, region : Regions \cup {"none"},
             price : PriceTexts, style : Styles]

(* What sanitizeInput drops, and the regions in the order they are tried.  *)
Dropped == {QuoteMark, "apostrophe", "less", "greater", "ampersand"}
RegionOrder == <<"br", "ar", "eu", "latam", "global", "conta">>

(* Names without markup and notes; a note loses nothing to sanitizeInput.  *)
ASSUME CsvParserAssumption ==
  /\ MaxColumns \in Nat
  /\ Headings \subseteq STRING /\ Recognised \subseteq Headings
  /\ \A n \in Titled : /\ n \in Seq(STRING) /\ n # <<>>
                       /\ Range(n) \cap {"less", "greater", Opens, Stamp[1]} = {}
  /\ Regions \subseteq STRING \ (Dropped \cup {Stamp[1]})
  /\ Products \subseteq Product

CsvParserTypeOK ==
  /\ layout \in {3, 4}
  /\ sheet \in Seq([heading : Headings, product : Product \cup {NoProduct}])

CsvParserInit == layout \in {3, 4} /\ sheet = <<>>

AddColumn(h, p) ==
  /\ Len(sheet) < MaxColumns
  /\ sheet' = Append(sheet, [heading |-> h, product |-> p])
  /\ UNCHANGED layout

CsvParserNext ==
  \E h \in Headings :
    \/ AddColumn(h, NoProduct)
    \/ \E p \in Products : AddColumn(h, p)

CsvParserSpec == CsvParserInit /\ [][CsvParserNext]_csvParserVars

-----------------------------------------------------------------------------
(* The elements of s at some of its places.                                *)
PlacesOf(s, t) == {i \in 1 .. Len(s) : s[i] = t}
Picked(s, places) == FlattenSeq([i \in 1 .. Len(s) |-> IF i \in places THEN <<s[i]>> ELSE <<>>])

(* The spreadsheet's export (external).                                    *)
Separated(cells, s) == FlattenSeq([i \in 1 .. Len(cells) |->
                                     IF i = 1 THEN cells[i] ELSE <<s>> \o cells[i]])
Escaped(cell) ==
  IF QuoteMark \in Range(cell) \/ Comma \in Range(cell)
  THEN <<QuoteMark>> \o FlattenSeq([i \in 1 .. Len(cell) |->
                      IF cell[i] = QuoteMark THEN <<QuoteMark, QuoteMark>> ELSE <<cell[i]>>]) \o <<QuoteMark>>
  ELSE cell
WriteLine(cells) == Separated([i \in 1 .. Len(cells) |-> Escaped(cells[i])], Comma)

Grouped(groups, s) == Separated([i \in 1 .. Len(groups) |-> <<groups[i]>>], s)
PriceCell(p) ==
  LET mark == IF p.style = "BRL" THEN Comma ELSE Dot
      whole == IF p.style = "INT" THEN p.price.whole
               ELSE Grouped(p.price.whole, IF p.style = "BRL" THEN Dot ELSE Comma)
  IN <<"currency">> \o whole \o (IF p.price.part = <<>> THEN <<>> ELSE <<mark>> \o p.price.part)
NameCell(p) == IF p.region = "none" THEN p.name ELSE p.name \o <<Opens, p.region, "closed">>

(* The three lines: the header names the platforms from the first cell on, *)
(* or over the blocks; the sub-header and the data are blocks.             *)
Block(three) == IF layout = 3 THEN three ELSE three \o << <<>> >>
Header(h) == IF layout = 3 THEN << <<h>> >> ELSE << <<>>, <<h>>, <<>>, <<>> >>
SubHeader == Block(<<Stamp, <<"Nome">>, <<"venda">> >>)
Data(p) == Block(IF p.filled THEN << <<"time">>, NameCell(p), PriceCell(p)>> ELSE << <<>>, <<>>, <<>> >>)

Lines == {"header", "subHeader", "data"}
Exported == [l \in Lines |->
  WriteLine(FlattenSeq([i \in 1 .. Len(sheet) |->
    CASE l = "header" -> Header(sheet[i].heading)
      [] l = "subHeader" -> SubHeader
      [] OTHER -> Data(sheet[i].product)]))]

-----------------------------------------------------------------------------
(* parseCsvLines: one line; a doubled quote inside quotes is one quote.    *)
NewLine == [cells |-> <<>>, current |-> <<>>, quoted |-> FALSE, skip |-> FALSE]
Push(st) == [st EXCEPT !.cells = Append(@, st.current), !.current = <<>>]
ReadChar(line, st, i) ==
  LET taken == [st EXCEPT !.current = Append(@, line[i])]
  IN CASE st.skip -> [st EXCEPT !.skip = FALSE]
       [] ~ st.skip /\ line[i] = QuoteMark ->
            IF st.quoted /\ i < Len(line) /\ line[i + 1] = QuoteMark
            THEN [taken EXCEPT !.skip = TRUE]
            ELSE [st EXCEPT !.quoted = ~ @]
       [] ~ st.skip /\ line[i] = Comma /\ ~ st.quoted -> Push(st)
       [] OTHER -> taken
ParseLine(line) ==
  LET read[i \in 0 .. Len(line)] ==
        IF i = 0 THEN NewLine ELSE ReadChar(line, read[i - 1], i)
  IN Push(read[Len(line)]).cells

(* extractPlatforms: the names of the header, in order, for the columns    *)
(* that start with a time in the sub-header.                               *)
DefaultNames == <<"XBOX", "STEAM/PC", "NINTENDO E-SHOP", "PLAYSTATION">>
FirstOf(s, n) == SubSeq(s, 1, IF Len(s) < n THEN Len(s) ELSE n)

ExtractPlatforms(header, sub) ==
  LET platform == {<<h>> : h \in Recognised}
      named  == Picked(header, {i \in 1 .. Len(header) : header[i] \in platform})
      starts == Picked([i \in 1 .. Len(sub) |-> i], PlacesOf(sub, Stamp))
      names  == IF named = <<>> THEN FirstOf(DefaultNames, Len(starts))
                ELSE [i \in 1 .. Len(named) |-> named[i][1]]
      found  == FirstOf(starts, Len(names))
  IN IF found = <<>>
     THEN [i \in 1 .. Len(DefaultNames) |-> [name |-> DefaultNames[i], column |-> 3 * i - 2]]
     ELSE [i \in 1 .. Len(found) |-> [name |-> names[i], column |-> found[i]]]

(* parsePrice, then parseFloat (external): the separator that comes last   *)
(* is the decimal mark, and a lone comma with three digits after it is     *)
(* not; parseFloat reads up to a second mark.                              *)
LastPlace(s, t) == IF PlacesOf(s, t) = {} THEN 0 ELSE Max(PlacesOf(s, t))
Without(s, t) == Picked(s, 1 .. Len(s) \ PlacesOf(s, t))
MarkFirst(s, t) == [i \in 1 .. Len(s) |-> IF i = Min(PlacesOf(s, t)) THEN Dot ELSE s[i]]
DigitsAfter(s, i) == Cardinality({d \in (i + 1 .. Len(s)) \X (1 .. 3) : d[2] <= Digits[s[d[1]]]})

(* Mutant: the comma is the decimal mark wherever it is.                   *)
CleanedInPortuguese(cell) ==
  LET s == Without(Without(cell, "currency"), Dot)
  IN IF PlacesOf(s, Comma) = {} THEN s ELSE MarkFirst(s, Comma)

Cleaned(cell) ==
  LET s == Without(cell, "currency")
      dot == LastPlace(s, Dot)
      comma == LastPlace(s, Comma)
  IN IF comma = 0 THEN s
     ELSE IF comma > dot /\ (dot # 0 \/ DigitsAfter(s, comma) <= 2)
          THEN MarkFirst(Without(s, Dot), Comma)
          ELSE Without(s, Comma)

NoDigits(s) == {i \in 1 .. Len(s) : s[i] \notin DOMAIN Digits}
Until(s) == SubSeq(s, 1, IF NoDigits(s) = {} THEN Len(s) ELSE Min(NoDigits(s)) - 1)
ParsePrice(cell) ==
  LET s     == Cleaned(cell)
      whole == Until(s)
      rest  == SubSeq(s, Len(whole) + 1, Len(s))
  IN [whole |-> whole,
      part  |-> IF rest # <<>> /\ Head(rest) = Dot THEN Until(Tail(rest)) ELSE <<>>]

Positive(price) == \E g \in Range(price.whole) \cup Range(price.part) : g # "00"

(* sanitizeInput, extractRegion, cleanName.                                *)
Sanitize(cell) == Picked(cell, {i \in 1 .. Len(cell) : cell[i] \notin Dropped})
ExtractRegion(cell) ==
  LET note  == PlacesOf(cell, Opens)
      codes == IF note = {} THEN {}
               ELSE {i \in 1 .. Len(RegionOrder) : RegionOrder[i] \in Hints[cell[Min(note) + 1]]}
  IN IF codes = {} THEN "none" ELSE RegionOrder[Min(codes)]
CleanName(cell) ==
  [i \in 1 .. (IF Opens \in Range(cell) THEN Min(PlacesOf(cell, Opens)) - 1 ELSE Len(cell)) |-> cell[i]]

(* parse, for the one row.                                                 *)
ReadProduct(row, platform) ==
  LET cell == row[platform.column + 1]
      price == ParsePrice(row[platform.column + 2])
  IN IF \/ platform.column + 2 > Len(row) \/ cell = <<>> \/ row[platform.column + 2] = <<>>
        \/ Stamp[1] \in Range(cell) \/ ~ Positive(price)
     THEN <<>>
     ELSE <<[platform |-> platform.name, name |-> CleanName(Sanitize(cell)),
             region |-> ExtractRegion(Sanitize(cell)), price |-> price]>>
Parsed ==
  LET lines == Exported
      cells == [l \in Lines |-> ParseLine(lines[l])]
      platforms == ExtractPlatforms(cells["header"], cells["subHeader"])
  IN FlattenSeq([i \in 1 .. Len(platforms) |-> ReadProduct(cells["data"], platforms[i])])

-----------------------------------------------------------------------------
(* A sheet with headings the parser knows and prices in one of the formats *)
(* its comment lists is imported as it was written: every product of the   *)
(* row, in order, under its own platform, with its price to the cent, its  *)
(* name but for quotation marks and ampersands, and a region if and only   *)
(* if its note hints at one.  A lost quote or a separator misread would    *)
(* shift cells or scale prices without an error.                           *)
RowsSurviveImport ==
  (\A i \in 1 .. Len(sheet) : sheet[i].heading \in Recognised) /\ sheet # <<>> =>
    LET written == Picked(sheet, {i \in 1 .. Len(sheet) : sheet[i].product.filled})
        parsed == Parsed
    IN
      /\ Len(parsed) = Len(written)
      /\ \A i \in 1 .. Len(written) :
           LET p == written[i].product
               hints == IF p.region = "none" THEN {} ELSE Range(RegionOrder) \cap Hints[p.region]
           IN
             /\ parsed[i].platform = written[i].heading
             /\ parsed[i].price = p.price
             /\ parsed[i].name = Picked(p.name, {k \in 1 .. Len(p.name) : p.name[k] \notin Dropped})
             /\ IF hints = {} THEN parsed[i].region = "none" ELSE parsed[i].region \in hints
=============================================================================
