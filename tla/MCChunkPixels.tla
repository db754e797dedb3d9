---------------------------- MODULE MCChunkPixels ----------------------------
(* Documents for ChunkPixels: sections of 3 x 3 x 3 blocks in words of four bits, *)
(* with one, two or three bits for a block.                                       *)
EXTENDS ChunkPixels

\* Text, as far as the files of colours need it.
Text(string) ==
  CASE string = "stone" -> <<115>> [] string = "water" -> <<119>>
    [] string = "glass" -> <<103>> [] string = "barrier" -> <<98>>
    [] string = "#f4f4f4"   -> <<35, 102, 52, 102, 52, 102, 52>>
    [] string = "#141414ee" -> <<35, 49, 52, 49, 52, 49, 52, 101, 101>>
    [] string = "#646464E6" -> <<35, 54, 52, 54, 52, 54, 52, 69, 54>>
    [] string = "#0000"     -> <<35, 48, 48, 48, 48>>
    [] string = "#1fa"      -> <<35, 49, 102, 97>>
    [] string = "#00ff7F"   -> <<35, 48, 48, 102, 102, 55, 70>>

EntryLine(id, css) == id \o <<Tab>> \o css
Header == <<105, 100>>

NamedBlocks == {"stone", "water", "glass", "barrier"}

BlockLines ==
  <<EntryLine(Text("stone"), Text("#f4f4f4")), EntryLine(Text("water"), Text("#141414ee")),
    <<Hash>>, EntryLine(Text("glass"), Text("#646464E6")), EntryLine(Text("barrier"), Text("#0000"))>>

BlockTable == init_block_list(Generated(<<<<Header>> \o BlockLines>>))

\* Red of what the lines say.
Color(tone, alpha) == [tone |-> tone, alpha |-> alpha]

ColorsOf ==
  [name \in NamedBlocks |->
     CASE name = "stone" -> Color(244, 255)  [] name = "water" -> Color(20, 238)
       [] name = "glass" -> Color(100, 230)  [] name = "barrier" -> Color(0, 0)]

\* The table has those colours: they are the ones that chunks are drawn with.
ASSUME TableHasThem ==
  \A name \in NamedBlocks :
    Color(BlockTable[Text(name)][1], BlockTable[Text(name)][4]) = ColorsOf[name]

\* IDs up to one that is too long; colours that are none: without #, of another length,
\* and with another character in either place.
Ids == {<<97>>, <<98>>, <<97, 98>>, <<97, 98, 99>>, <<97, 98, 99, 100>>}
Css == {Text(c) : c \in {"#0000", "#1fa", "#00ff7F", "#141414ee"}}
OddCss == {<<35, 49>>, <<49, 49, 49, 49>>, <<35, 49, 103, 49>>, <<35, 49, 103, 49, 49, 49, 49>>}

Lines ==
  {EntryLine(id, css) : id \in Ids, css \in Css} \cup {EntryLine(<<97>>, css) : css \in OddCss}
  \cup {<<>>, <<Hash, 97>>, <<97>>, EntryLine(<<97>>, Text("#1fa") \o <<Tab>>)}

SomeColorFiles ==
  {<<<<Header>> \o lines>> : lines \in BoundedSeq(Lines, 2)}
  \cup {<<<<Header, a>>, <<Header, b>>>> : a, b \in Lines}
  \cup {<<<<Header>> \o BlockLines>>}

SomeOverrides == [biome \in {1, 2} |-> 90 * biome]

\* No air but at 0.
LargePalette == <<"air", "stone", "water", "glass", "cable", "barrier">>
Palettes == {<<"air">>, <<"air", "stone">>, <<"air", "water", "stone">>, LargePalette}

\* The ids of a section: a, and below it b, in every column, the others shifted.
IdsOf(a, b, n) ==
  [i \in 0..(Width^3 - 1) |->
     ((IF i >= Width^2 THEN a ELSE b) + (i % Width^2)) % n]

\* The bits of a number.
BitsOf(n) == {k \in 0..MinBits + 3 : (n \div 2^k) % 2 = 1}

\* The game's packing: block after block, either through the words or within them.
Pack(ids, bits, stretched) ==
  LET per == WordBits \div bits
      place(i) == IF stretched THEN i * bits ELSE (i \div per) * WordBits + (i % per) * bits
      ones == UNION {{place(i) + k : k \in BitsOf(ids[i])} : i \in DOMAIN ids}
      words == (place(Width^3 - 1) + bits - 1) \div WordBits + 1
  IN [w \in 1..words |-> {b \in 0..(WordBits - 1) : (w - 1) * WordBits + b \in ones}]

\* Other light for each block of a byte, for blocks beside each other and in each section.
LightAt(at) == [i \in 1..LightSize |-> ((5 * i + at) % 16) * 16 + ((3 * i) % 16)]

Section(at, palette, ids, stretched) ==
  [y |-> at, palette |-> palette, light |-> LightAt(at), ids |-> ids, whole |-> TRUE,
   states |-> Pack(ids, Bits(palette), stretched)]

SectionsAt(at, palettesAt, stretched) ==
  UNION {{Section(at, p, IdsOf(a, b, Len(p)), stretched) : a, b \in 0..(Len(p) - 1)} :
           p \in palettesAt}

\* Biomes without and with an override.
Biomes(n) == [i \in 1..n |-> i % 3]

Document(sections, stretched) ==
  [kind |-> "chunk", biomes |-> IF stretched THEN Biomes(OldBiomesSize) ELSE Biomes(NewBiomesSize),
   sections |-> sections, lacks |-> {}, stretched |-> stretched]

\* A section of each palette below sections of the largest.
WholeDocuments ==
  UNION {{Document(<<low, Section(1, LargePalette, IdsOf(a, (a + 1) % 6, 6), st)>>, st) :
            low \in SectionsAt(0, Palettes, st), a \in 0..5} :
           st \in BOOLEAN}
  \cup {Document(<<low>>, FALSE) : low \in SectionsAt(0, Palettes, FALSE)}

\* Sections the game does not write.
Odd(section) ==
  {[section EXCEPT !.y = Missing], [section EXCEPT !.y = SectionCount],
   [section EXCEPT !.states = Missing], [section EXCEPT !.palette = Missing],
   [section EXCEPT !.light = Missing], [section EXCEPT !.light = <<1>>],
   [section EXCEPT !.palette = <<"air", Missing>> \o Tail(section.palette)],
   [section EXCEPT !.palette = <<>>],
   [section EXCEPT !.states = SubSeq(@, 1, Len(@) - 1), !.whole = FALSE]}

Plain(at, a, st) == Section(at, LargePalette, IdsOf(a, 1, 6), st)

OddDocuments ==
  UNION {{Document(<<odd, Plain(1, 3, st)>>, st) : odd \in Odd(Plain(0, a, st))} :
           a \in {2, 5}, st \in BOOLEAN}
  \cup UNION {{Document(<<Plain(0, 2, st), odd>>, st) : odd \in Odd(Plain(0, 3, st))} :
           st \in BOOLEAN}
  \cup {[Document(<<Plain(0, 2, FALSE)>>, FALSE) EXCEPT !.lacks = l] : l \in SUBSET Range(Fields)}
  \cup {[Document(<<>>, FALSE) EXCEPT !.kind = k] :
           k \in {"chunk", "Parse error", "Sections data not found", "Invalid Sections data type"}}

AllDocuments == WholeDocuments \cup OddDocuments
=============================================================================
