----------------------------- MODULE ChunkData -----------------------------
(***************************************************************************)
(* chunk of src/src/nbt/chunk.cc: a chunk read from a parsed document, and *)
(* the block at a place looked up in it.  A section holds a palette and,   *)
(* packed into words, an index of the palette for each of its blocks.      *)
(*                                                                         *)
(* A word is the set of its bits that are 1, counted from the lowest.  A   *)
(* document is a record: kind says whether the fields can be looked for at *)
(* all, sections is the list //Level/Sections, biomes the array of them,   *)
(* lacks the other fields it does not have, and stretched an old           *)
(* DataVersion.  A section is what the queries find in it, Missing where   *)
(* they find nothing or another type; ids is not in the file: it is what   *)
(* the game packed into states.                                            *)
(***************************************************************************)
EXTENDS Integers, Sequences, FiniteSets, FiniteSetsExt, SequencesExt

CONSTANTS
  Documents,     \* the documents that are looked at
  SectionCount,  \* PALETTE_Y_MAX, BLOCK_STATES_COUNT: sections of a chunk
  Width,         \* CHUNK_WIDTH: a section has as many blocks in each direction
  WordBits,      \* bits of an element of BlockStates
  MinBits,       \* the fewest bits of a block
  LightSize,     \* the length BlockLight must have: two blocks in a byte
  Missing        \* a null pointer, or an empty vector of light

ASSUME SizesAssumption ==
  /\ SectionCount \in Nat \ {0} /\ Width \in Nat \ {0, 1}
  /\ WordBits \in Nat \ {0} /\ MinBits \in 1..WordBits
  /\ LightSize \in Nat /\ Width * Width * Width <= 2 * LightSize

\* The loop over Palette: an element without Name is left out.
Named(palette) ==
  LET kept[j \in 0..Len(palette)] ==
        IF j = 0 THEN <<>>
        ELSE IF palette[j] = Missing THEN kept[j - 1] ELSE Append(kept[j - 1], palette[j])
  IN kept[Len(palette)]

\* LastUpdate, Biomes and DataVersion are looked for in this order.
Fields == <<"LastUpdate", "Biomes", "DataVersion">>

\* BIOME_DATA_OLD_VERSION_SIZE and BIOME_DATA_NEW_VERSION_SIZE.
OldBiomesSize == Width * Width
NewBiomesSize == 4 * Width * Width

\* What the constructor finds wrong with a document, and an array of biomes has numbers.
ASSUME FieldsAssumption ==
  \A d \in Documents :
    /\ d.kind \in {"chunk", "Parse error", "Sections data not found", "Invalid Sections data type"}
    /\ d.lacks \subseteq Range(Fields)
    /\ \A k \in 1..NewBiomesSize : k <= Len(d.biomes) => d.biomes[k] \in Nat

\* The sections are a list, a list of names is not a null pointer, and light is bytes.
ASSUME DocumentsAssumption ==
  \A d \in Documents :
    /\ Len(d.sections) \in Nat
    /\ \A i \in 1..Len(d.sections) :
         LET section == d.sections[i] IN
         /\ section.palette # Missing => Named(section.palette) # Missing
         /\ section.light # Missing /\ Len(section.light) = LightSize =>
              \A k \in 1..LightSize : section.light[k] \in Nat

VARIABLES
  document, next_section,  \* what is read, and the place in its sections
  palettes, block_states, block_lights,
  outcome                  \* "reading", "built", or the exception that is thrown

chunkVars == <<document, next_section, palettes, block_states, block_lights, outcome>>

Sections == 0..(SectionCount - 1)
NoSections == [s \in Sections |-> Missing]

ChunkInit ==
  /\ document \in Documents /\ next_section = 1
  /\ palettes = NoSections /\ block_states = NoSections /\ block_lights = NoSections
  /\ outcome = "reading"

-----------------------------------------------------------------------------
(* The constructor. *)

\* A byte has the light of two blocks, the first in its low bits.
decode_nibble(bytes) ==
  [k \in 1..(2 * Len(bytes)) |->
     IF k % 2 = 1 THEN bytes[(k + 1) \div 2] % 16 ELSE bytes[k \div 2] \div 16]

\* The document cannot be parsed, or has no list of sections.
Refuse ==
  /\ outcome = "reading" /\ document.kind # "chunk"
  /\ outcome' = document.kind
  /\ UNCHANGED <<document, next_section, palettes, block_states, block_lights>>

Reading == outcome = "reading" /\ document.kind = "chunk"
AtSection == Reading /\ next_section <= Len(document.sections)
Current == document.sections[next_section]

\* A section without Y, above the limit, or without BlockStates.
Skipped(section) ==
  section.y = Missing \/ section.y \notin Sections \/ section.states = Missing

SkipSection ==
  /\ AtSection /\ Skipped(Current)
  /\ next_section' = next_section + 1
  /\ UNCHANGED <<document, palettes, block_states, block_lights, outcome>>

\* Mutant: the palette is read before BlockStates is looked for.
PaletteFirst ==
  /\ AtSection /\ Current.y \in Sections
  /\ palettes' = IF Current.palette = Missing THEN palettes
                 ELSE [palettes EXCEPT ![Current.y] = Named(Current.palette)]
  /\ block_states' = IF Current.states = Missing THEN block_states
                     ELSE [block_states EXCEPT ![Current.y] = Current.states]
  /\ next_section' = next_section + 1
  /\ UNCHANGED <<document, block_lights, outcome>>

\* Without a palette, the light is not read either.
ReadSection ==
  /\ AtSection /\ ~Skipped(Current)
  /\ block_states' = [block_states EXCEPT ![Current.y] = Current.states]
  /\ IF Current.palette = Missing THEN UNCHANGED <<palettes, block_lights>>
     ELSE /\ palettes' = [palettes EXCEPT ![Current.y] = Named(Current.palette)]
          /\ block_lights' = IF Current.light # Missing /\ Len(Current.light) = LightSize
                             THEN [block_lights EXCEPT ![Current.y] = decode_nibble(Current.light)]
                             ELSE block_lights
  /\ next_section' = next_section + 1
  /\ UNCHANGED <<document, outcome>>

ReadFields ==
  /\ Reading /\ next_section > Len(document.sections)
  /\ outcome' = IF document.lacks = {} THEN "built"
                ELSE Fields[Min({i \in 1..3 : Fields[i] \in document.lacks})]
  /\ UNCHANGED <<document, next_section, palettes, block_states, block_lights>>

ChunkNext == Refuse \/ SkipSection \/ ReadSection \/ ReadFields

-----------------------------------------------------------------------------
(* The bits of a block. *)

ShiftRight(word, n) == {b - n : b \in {c \in word : c >= n}}
ShiftLeft(word, n) == {b + n : b \in word}
LowBits(word, n) == {b \in word : b < n}

\* Data of an old version go on in the next word where a word is full.
StretchedWord(index, bits) == (index * bits) \div WordBits
StretchedShift(index, bits) == (bits * index) % WordBits
Crosses(index, bits) == WordBits - StretchedShift(index, bits) < bits

\* Mutant: the bits of the second word are counted from those of the first.
WrongLeftover(index, bits) == (StretchedWord(index, bits) + 1) * WordBits % bits

\* How many bits of the second word belong to the block.
Leftover(index, bits) ==
  (bits - ((StretchedWord(index, bits) + 1) * WordBits % bits)) % bits

StretchedState(first, second, index, bits) ==
  LET shifted == ShiftRight(first, StretchedShift(index, bits))
      leftover == Leftover(index, bits)
  IN LowBits(IF Crosses(index, bits)
             THEN ShiftLeft(LowBits(second, leftover), bits - leftover) \cup shifted
             ELSE shifted,
             bits)

\* Data of a newer version leave the rest of a word unused.
UnstretchedWord(index, bits) == index \div (WordBits \div bits)
UnstretchedState(word, index, bits) ==
  LowBits(ShiftRight(word, (index % (WordBits \div bits)) * bits), bits)

-----------------------------------------------------------------------------
(* Looking up a block. *)

\* How many bits n has.
BitLength(n) == CHOOSE k \in 0..n : 2^k > n /\ (k = 0 \/ 2^(k - 1) <= n)

Bits(palette) == Max({MinBits, BitLength(Len(palette) - 1)})
IndexOf(x, y, z) == ((y % Width) * Width + z) * Width + x
NumberOf(word) == MapThenSumSet(LAMBDA b : 2^b, word)

WordOf(index, bits) ==
  IF document.stretched THEN StretchedWord(index, bits) ELSE UnstretchedWord(index, bits)

\* The word after the last one may be anything.
WordAt(states, n) == IF n < Len(states) THEN {states[n + 1]} ELSE SUBSET (0..(WordBits - 1))

PaletteIds(states, index, bits) ==
  LET n == WordOf(index, bits) IN
  IF ~document.stretched THEN {UnstretchedState(states[n + 1], index, bits)}
  ELSE IF Crosses(index, bits)
       THEN {StretchedState(states[n + 1], w, index, bits) : w \in WordAt(states, n + 1)}
       ELSE {StretchedState(states[n + 1], {}, index, bits)}

PaletteEntry(palette, id) == IF id = 0 \/ id >= Len(palette) THEN "air" ELSE palette[id + 1]

\* What get_block() may return: one name, except where it reads a word too far.
get_block(x, y, z) ==
  LET palette == palettes[y \div Width]
      states == block_states[y \div Width]
      bits == Bits(palette)
      index == IndexOf(x, y, z)
  IN IF palette = Missing THEN {"air"}
     ELSE IF palette = <<>> THEN {"air"}
     ELSE IF WordOf(index, bits) >= Len(states) THEN {"air"}
     ELSE {PaletteEntry(palette, NumberOf(n)) : n \in PaletteIds(states, index, bits)}

\* Mutant: one too high.
height_of_next_section ==
  LET filled == {s \in Sections : palettes[s] # Missing}
  IN IF filled = {} THEN 0 ELSE (Max(filled) + 1) * Width

get_max_height ==
  LET filled == {s \in Sections : palettes[s] # Missing}
  IN IF filled = {} THEN 0 ELSE (Max(filled) + 1) * Width - 1

get_block_light(x, y, z) ==
  LET light == block_lights[y \div Width] IN
  IF light = Missing THEN 0 ELSE light[IndexOf(x, y, z) + 1]

\* 64
BiomeHeight == (SectionCount * Width + 3) \div 4

get_biome(x, y, z) ==
  LET biomes == document.biomes IN
  IF Len(biomes) = OldBiomesSize THEN biomes[(z \div 2) * Width + (x \div 2) + 1]
  ELSE IF Len(biomes) = NewBiomesSize
  THEN biomes[(y \div BiomeHeight) * (Width * Width) + (z \div 4) * 4 + (x \div 4) + 1]
  ELSE 0

-----------------------------------------------------------------------------
(* Properties. *)

Heights == 0..(SectionCount * Width - 1)
Places == 0..(Width - 1)

Stores(section) == ~Skipped(section) /\ section.palette # Missing
OneForEachY ==
  \A i, j \in 1..Len(document.sections) :
    LET a == document.sections[i]
        b == document.sections[j]
    IN ~Skipped(a) /\ ~Skipped(b) /\ a.y = b.y => i = j

\* A section with all names in its palette and all blocks in its words.
AllThere(section) ==
  section.whole /\ \A k \in 1..Len(section.palette) : section.palette[k] # Missing

\* The document is one the game writes: a section for each Y at most, with all of it.
Whole ==
  /\ OneForEachY
  /\ \A i \in 1..Len(document.sections) :
       Stores(document.sections[i]) => AllThere(document.sections[i])

\* Where the game puts the first bit of a block, counted through all words: block
\* after block, or as many of them as a word can hold.
FirstBit(index, bits, stretched) ==
  IF stretched THEN index * bits
  ELSE (index \div (WordBits \div bits)) * WordBits + (index % (WordBits \div bits)) * bits

\* The bits from there on are the block's place in the palette.
Packed(section, index, bits, stretched) ==
  LET first == FirstBit(index, bits, stretched)
      word(b) == (first + b) \div WordBits
  IN /\ section.ids[index] \in 0..(Len(section.palette) - 1)
     /\ \A b \in 0..(bits - 1) : word(b) < Len(section.states)
     /\ section.ids[index] =
          NumberOf({b \in 0..(bits - 1) : (first + b) % WordBits \in section.states[word(b) + 1]})

\* That is how the game writes a section; air is the first name of its palette.
ASSUME PackedAssumption ==
  \A d \in Documents : \A i \in 1..Len(d.sections) :
    LET section == d.sections[i]
        bits == Bits(section.palette)
    IN Stores(section) /\ AllThere(section) =>
         /\ section.palette \in Seq(Range(section.palette))
         /\ section.palette # <<>> =>
              /\ section.palette[1] = "air"
              /\ bits \in 1..WordBits
              /\ section.states \in Seq(SUBSET (0..(WordBits - 1)))
              /\ \A x, y, z \in Places : Packed(section, IndexOf(x, y, z), bits, d.stretched)

\* The block the game packed at a place.
Stored(x, y, z) ==
  LET at == {i \in 1..Len(document.sections) :
               Stores(document.sections[i]) /\ document.sections[i].y = y \div Width}
  IN IF at = {} THEN "air"
     ELSE LET s == document.sections[CHOOSE i \in at : TRUE]
          IN IF s.palette = <<>> THEN "air" ELSE s.palette[s.ids[IndexOf(x, y, z)] + 1]

\* In a chunk that was built from a whole document, get_block() gives at every
\* place the block the game packed there, in both ways of packing and for every
\* number of bits; above get_max_height() there is nothing.
BlockIsTheOneStored ==
  outcome = "built" /\ Whole =>
    \A x, z \in Places, y \in Heights :
      /\ get_block(x, y, z) = {Stored(x, y, z)}
      /\ y > get_max_height => Stored(x, y, z) = "air"

\* What is kept for a section was read from the same section of the document: a
\* palette never without the block states that point into it, or with others'.
\* (A document with two sections for one Y still has states for each palette.)
SectionsBelongTogether ==
  \A s \in Sections :
    /\ palettes[s] # Missing => block_states[s] # Missing
    /\ block_lights[s] # Missing => palettes[s] # Missing
    /\ OneForEachY /\ palettes[s] # Missing =>
         \E i \in 1..Len(document.sections) :
           LET from == document.sections[i] IN
           /\ from.y = s /\ from.states = block_states[s] /\ from.palette # Missing
           /\ palettes[s] = Named(from.palette)
=============================================================================
