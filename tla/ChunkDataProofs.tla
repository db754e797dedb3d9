-------------------------- MODULE ChunkDataProofs --------------------------
(***************************************************************************)
(* What a chunk holds and what is looked up in it, for every size of words *)
(* and sections: a block is read from its own bits and is the one the game *)
(* packed, what is kept for a section comes from one section of the        *)
(* document, the layers of a column are those that are seen from above,    *)
(* the pixels that are drawn of a chunk are shaded each by itself, all     *)
(* variables keep their types, and the table of colours that the program   *)
(* reads is what the source files say, for every file.                     *)
(***************************************************************************)
EXTENDS ChunkPixels, SequenceTheorems, FiniteSetTheorems, WellFoundedInduction, TLAPS

-----------------------------------------------------------------------------
(* Quotient and remainder. *)

LEMMA NaturalDivision ==
  ASSUME NEW a \in Nat, NEW S \in Nat \ {0}
  PROVE  a \div S \in Nat /\ a % S \in 0..(S - 1) /\ a = S * (a \div S) + (a % S)
  BY SMT

LEMMA DivisionIsUnique ==
  ASSUME NEW q \in Nat, NEW S \in Nat \ {0}, NEW s \in 0..(S - 1)
  PROVE  (S * q + s) % S = s /\ (S * q + s) \div S = q
  BY SMT

-----------------------------------------------------------------------------
(* Bits. *)

\* Where the bits of a block are that go through the words one after the other:
\* at a distance of bits in the whole of the words, first and second being those
\* from the word on in which they begin.
OwnBits(first, second, index, bits) ==
  {b \in 0..(bits - 1) :
     IF StretchedShift(index, bits) + b < WordBits
     THEN StretchedShift(index, bits) + b \in first
     ELSE StretchedShift(index, bits) + b - WordBits \in second}

Word == SUBSET (0..(WordBits - 1))

\* A place counted in one word is a place in the whole of the words.
LEMMA PlaceOfABit ==
  ASSUME NEW index \in Nat, NEW bits \in Nat
  PROVE  /\ StretchedWord(index, bits) \in Nat
         /\ StretchedShift(index, bits) \in 0..(WordBits - 1)
         /\ index * bits = WordBits * StretchedWord(index, bits) + StretchedShift(index, bits)
<1>1. index * bits \in Nat /\ bits * index = index * bits  OBVIOUS
<1>2. WordBits \in Nat \ {0}  BY SizesAssumption
<1> QED  BY <1>1, <1>2, NaturalDivision DEF StretchedWord, StretchedShift

\* What the second word holds of a block is what the first has not.
LEMMA LeftoverOfABlock ==
  ASSUME NEW index \in Nat, NEW bits \in 1..WordBits, Crosses(index, bits)
  PROVE  Leftover(index, bits) = bits - (WordBits - StretchedShift(index, bits))
<1> DEFINE w == StretchedWord(index, bits)
           s == StretchedShift(index, bits)
           t == WordBits - s
<1>1. bits \in Nat \ {0} /\ WordBits \in Nat \ {0}  BY SizesAssumption
<1>2. w \in Nat /\ s \in 0..(WordBits - 1) /\ index * bits = WordBits * w + s
  BY <1>1, PlaceOfABit
<1>3. t \in 1..(bits - 1)  BY <1>1, <1>2 DEF Crosses
<1> HIDE DEF w, s
<1>4. (w + 1) * WordBits = bits * index + t
  <2>1. (w + 1) * WordBits = WordBits * w + WordBits  BY <1>1, <1>2
  <2>2. bits * index = index * bits  BY <1>1
  <2> QED  BY <2>1, <2>2, <1>1, <1>2
<1> HIDE DEF t
<1>5. ((w + 1) * WordBits) % bits = t
  <2>1. t \in 0..(bits - 1)  BY <1>3, <1>1
  <2>2. (bits * index + t) % bits = t  BY <2>1, <1>1, DivisionIsUnique
  <2> QED  BY <2>2, <1>4
<1>6. (bits - t) % bits = bits - t
  <2>1. bits - t \in 0..(bits - 1)  BY <1>3, <1>1
  <2>2. (bits * 0 + (bits - t)) % bits = bits - t  BY <2>1, <1>1, DivisionIsUnique
  <2>3. bits * 0 + (bits - t) = bits - t  BY <1>1, <1>3
  <2> QED  BY <2>2, <2>3
<1> QED  BY <1>5, <1>6 DEF Leftover, w, s, t

\* get_block() reads the bits of a block, and no others, also where they go on in
\* the next word: for every size of words, number of bits and place.
THEOREM StretchedBlockReadsItsBits ==
  ASSUME NEW index \in Nat, NEW bits \in 1..WordBits, NEW first \in Word, NEW second \in Word
  PROVE  StretchedState(first, second, index, bits) = OwnBits(first, second, index, bits)
<1> DEFINE s == StretchedShift(index, bits)
           t == WordBits - s
<1>1. bits \in Nat \ {0} /\ WordBits \in Nat \ {0}  BY SizesAssumption
<1>2. s \in 0..(WordBits - 1)  BY <1>1, PlaceOfABit
<1> HIDE DEF s
<1>3. \A b \in first : b \in 0..(WordBits - 1)  BY DEF Word
<1>4. \A b \in second : b \in 0..(WordBits - 1)  BY DEF Word
<1>5. \A b : b \in ShiftRight(first, s) <=> b \in Nat /\ b + s \in first
  BY <1>1, <1>2, <1>3 DEF ShiftRight
<1>6. CASE Crosses(index, bits)
  <2> DEFINE high == ShiftLeft(LowBits(second, bits - t), bits - (bits - t))
  <2>1. t \in 1..(bits - 1)  BY <1>1, <1>2, <1>6 DEF Crosses, s
  <2>2. \A b : b \in high <=> b \in t..(bits - 1) /\ b - t \in second
    BY <2>1, <1>1, <1>2, <1>4 DEF ShiftLeft, LowBits
  <2>3. StretchedState(first, second, index, bits) = LowBits(high \cup ShiftRight(first, s), bits)
    BY <1>6, LeftoverOfABlock DEF StretchedState, s
  <2> HIDE DEF high
  <2>4. ASSUME NEW b
        PROVE  b \in LowBits(high \cup ShiftRight(first, s), bits) <=>
                 /\ b \in 0..(bits - 1)
                 /\ IF s + b < WordBits THEN s + b \in first ELSE s + b - WordBits \in second
    <3>1. CASE b \notin 0..(bits - 1)
      BY <3>1, <2>1, <2>2, <1>1, <1>5 DEF LowBits
    <3>2. CASE b \in 0..(bits - 1) /\ s + b < WordBits
      BY <3>2, <2>1, <2>2, <1>1, <1>2, <1>5 DEF LowBits
    <3>3. CASE b \in 0..(bits - 1) /\ ~(s + b < WordBits)
      BY <3>3, <2>1, <2>2, <1>1, <1>2, <1>3, <1>5 DEF LowBits
    <3> QED  BY <3>1, <3>2, <3>3
  <2>5. OwnBits(first, second, index, bits) =
          {b \in 0..(bits - 1) :
             IF s + b < WordBits THEN s + b \in first ELSE s + b - WordBits \in second}
    BY DEF OwnBits, s
  <2> HIDE DEF t
  <2>6. LowBits(high \cup ShiftRight(first, s), bits) = OwnBits(first, second, index, bits)
    BY <2>4, <2>5
  <2> QED  BY <2>3, <2>6
<1>7. CASE ~Crosses(index, bits)
  <2>1. \A b \in 0..(bits - 1) : s + b < WordBits  BY <1>1, <1>2, <1>7 DEF Crosses, s
  <2>2. StretchedState(first, second, index, bits) = LowBits(ShiftRight(first, s), bits)
    BY <1>7 DEF StretchedState, s
  <2>3. \A b : b \in LowBits(ShiftRight(first, s), bits) <=> b \in 0..(bits - 1) /\ s + b \in first
    BY <1>1, <1>2, <1>5 DEF LowBits
  <2> QED  BY <2>1, <2>2, <2>3 DEF OwnBits, s
<1> QED  BY <1>6, <1>7

\* In data of a newer version the bits of a block are in one word.
THEOREM UnstretchedBlockReadsItsBits ==
  ASSUME NEW index \in Nat, NEW bits \in 1..WordBits, NEW word \in Word
  PROVE  LET start == (index % (WordBits \div bits)) * bits
         IN /\ start \in Nat /\ start + bits <= WordBits
            /\ UnstretchedState(word, index, bits) = {b \in 0..(bits - 1) : start + b \in word}
<1> DEFINE per == WordBits \div bits
           r == index % per
           start == r * bits
<1>1. bits \in Nat \ {0} /\ WordBits \in Nat \ {0}  BY SizesAssumption
<1>2. per \in Nat /\ bits * per <= WordBits
  BY <1>1, NaturalDivision
<1>3. per # 0
  <2>1. WordBits % bits \in 0..(bits - 1) /\ WordBits = bits * per + (WordBits % bits)
    BY <1>1, NaturalDivision
  <2>2. per = 0 => bits * per = 0  BY <1>1
  <2> QED  BY <1>1, <2>1, <2>2
<1> HIDE DEF per
<1>4. r \in 0..(per - 1)  BY <1>2, <1>3, NaturalDivision
<1> HIDE DEF r
<1>5. start \in Nat /\ start + bits <= WordBits
  <2>1. start = bits * r /\ r \in Nat  BY <1>1, <1>2, <1>4
  <2>2. bits * (per - 1 - r) >= 0  BY <1>1, <1>2, <1>4
  <2>3. bits * (per - 1 - r) = bits * per - bits - bits * r  BY <1>1, <1>2, <1>4
  <2> QED  BY <1>1, <1>2, <2>1, <2>2, <2>3
<1> HIDE DEF start
<1>6. UnstretchedState(word, index, bits) = LowBits(ShiftRight(word, start), bits)
  BY DEF UnstretchedState, start, r, per
<1>7. \A b : b \in LowBits(ShiftRight(word, start), bits) <=> b \in 0..(bits - 1) /\ start + b \in word
  BY <1>1, <1>5 DEF LowBits, ShiftRight, Word
<1> QED  BY <1>5, <1>6, <1>7 DEF start, r, per

-----------------------------------------------------------------------------
(* Sections. *)

\* A section that was read has given what is kept for its Y.
KeptFrom(i, s) ==
  LET from == document.sections[i] IN
  /\ ~Skipped(from) /\ from.y = s /\ from.palette # Missing
  /\ block_states[s] = from.states /\ palettes[s] = Named(from.palette)

KeptInv ==
  /\ document \in Documents /\ next_section \in Nat \ {0}
  /\ DOMAIN palettes = Sections /\ DOMAIN block_states = Sections
  /\ DOMAIN block_lights = Sections
  /\ \A s \in Sections :
       /\ palettes[s] # Missing => block_states[s] # Missing
       /\ block_lights[s] # Missing => palettes[s] # Missing
       /\ next_section <= Len(document.sections) + 1
       /\ OneForEachY /\ palettes[s] # Missing => \E i \in 1..(next_section - 1) : KeptFrom(i, s)

\* A section that is read replaces what is kept for its Y, or is the only one for it.
LEMMA SectionKept ==
  ASSUME KeptInv, ReadSection
  PROVE  KeptInv'
<1> DEFINE c == Current
<1>1. /\ AtSection /\ ~Skipped(c)
      /\ block_states' = [block_states EXCEPT ![c.y] = c.states]
      /\ next_section' = next_section + 1 /\ document' = document
  BY DEF ReadSection
<1>2. /\ next_section \in 1..Len(document.sections) /\ Len(document.sections) \in Nat
      /\ c = document.sections[next_section] /\ c.y \in Sections /\ c.states # Missing
  BY <1>1, DocumentsAssumption DEF KeptInv, AtSection, Current, Skipped
<1>3. OneForEachY' = OneForEachY  BY <1>1 DEF OneForEachY, Skipped
<1>4. \A i \in 1..(next_section - 1) : OneForEachY /\ ~Skipped(document.sections[i]) =>
        document.sections[i].y # c.y
  <2> SUFFICES ASSUME NEW i \in 1..(next_section - 1), OneForEachY,
                      ~Skipped(document.sections[i]), document.sections[i].y = c.y
               PROVE  FALSE
    OBVIOUS
  <2>1. i \in 1..Len(document.sections) /\ i # next_section  BY <1>2
  <2>2. ~Skipped(document.sections[next_section])  BY <1>1, <1>2
  <2>3. i = next_section  BY <1>2, <2>1, <2>2 DEF OneForEachY
  <2> QED  BY <2>1, <2>3
<1> HIDE DEF c
<1>5. CASE c.palette = Missing
  <2>1. palettes' = palettes /\ block_lights' = block_lights
    BY <1>5 DEF ReadSection, c
  <2>2. ASSUME NEW s \in Sections, OneForEachY, palettes[s] # Missing
        PROVE  \E i \in 1..(next_section' - 1) : KeptFrom(i, s)'
    <3>1. PICK i \in 1..(next_section - 1) : KeptFrom(i, s)  BY <2>2 DEF KeptInv
    <3>2. s # c.y  BY <2>2, <3>1, <1>4 DEF KeptFrom
    <3>3. KeptFrom(i, s)'  BY <1>1, <2>1, <3>1, <3>2 DEF KeptFrom, KeptInv, Skipped
    <3> QED  BY <3>3, <1>1, <1>2
  <2> QED  BY <1>1, <1>2, <1>3, <2>1, <2>2 DEF KeptInv
<1>6. CASE c.palette # Missing
  <2>1. /\ palettes' = [palettes EXCEPT ![c.y] = Named(c.palette)]
        /\ \/ block_lights' = [block_lights EXCEPT ![c.y] = decode_nibble(c.light)]
           \/ block_lights' = block_lights
    BY <1>6 DEF ReadSection, c
  <2>2. Named(c.palette) # Missing  BY <1>2, <1>6, DocumentsAssumption DEF KeptInv
  <2>3. ASSUME NEW s \in Sections, OneForEachY, palettes'[s] # Missing
        PROVE  \E i \in 1..(next_section' - 1) : KeptFrom(i, s)'
    <3>1. CASE s = c.y
      <4>1. PICK n : n = next_section  OBVIOUS
      <4>2. KeptFrom(n, s)'
        BY <1>1, <1>2, <1>6, <2>1, <3>1, <4>1 DEF KeptFrom, KeptInv, Skipped, c
      <4> QED  BY <4>1, <4>2, <1>1, <1>2
    <3>2. CASE s # c.y
      <4>1. palettes[s] # Missing  BY <2>1, <2>3, <3>2 DEF KeptInv
      <4>2. PICK i \in 1..(next_section - 1) : KeptFrom(i, s)  BY <2>3, <4>1 DEF KeptInv
      <4>3. KeptFrom(i, s)'  BY <1>1, <2>1, <3>2, <4>2 DEF KeptFrom, KeptInv, Skipped
      <4> QED  BY <4>3, <1>1, <1>2
    <3> QED  BY <3>1, <3>2
  <2>4. \A s \in Sections : /\ palettes'[s] # Missing => block_states'[s] # Missing
                            /\ block_lights'[s] # Missing => palettes'[s] # Missing
    BY <1>1, <1>2, <2>1, <2>2 DEF KeptInv
  <2> QED  BY <1>1, <1>2, <1>3, <2>1, <2>3, <2>4 DEF KeptInv
<1> QED  BY <1>5, <1>6

\* The steps that read nothing for a section.
LEMMA NothingKept ==
  ASSUME KeptInv, SkipSection \/ (UNCHANGED <<document, next_section, palettes, block_states, block_lights>>)
  PROVE  KeptInv'
<1>1. UNCHANGED <<document, palettes, block_states, block_lights>>  BY DEF SkipSection
<1>2. \A i, s : KeptFrom(i, s)' = KeptFrom(i, s)  BY <1>1 DEF KeptFrom, Skipped
<1>3. OneForEachY' = OneForEachY  BY <1>1 DEF OneForEachY, Skipped
<1>4. Len(document.sections) \in Nat  BY DocumentsAssumption DEF KeptInv
<1>5. next_section' = next_section
      \/ (next_section' = next_section + 1 /\ next_section <= Len(document.sections))
  BY DEF SkipSection, AtSection
<1>6. \A s \in Sections : OneForEachY /\ palettes[s] # Missing =>
        \E i \in 1..(next_section' - 1) : KeptFrom(i, s)
  BY <1>5 DEF KeptInv
<1> QED  BY <1>1, <1>2, <1>3, <1>4, <1>5, <1>6 DEF KeptInv

\* No step changes the document.
LEMMA DocumentKept == [Next]_allVars => document' = document
  BY DEF Next, ChunkNext, Refuse, SkipSection, ReadSection, ReadFields, chunkVars, allVars, vars

LEMMA KeptInit == Init => KeptInv
<1>1. Init => /\ document \in Documents /\ next_section = 1
              /\ palettes = NoSections /\ block_states = NoSections /\ block_lights = NoSections
  BY DEF Init, ChunkInit
<1> QED  BY <1>1, DocumentsAssumption DEF KeptInv, NoSections

LEMMA KeptStep == KeptInv /\ [Next]_allVars => KeptInv'
<1> SUFFICES ASSUME KeptInv, [Next]_allVars PROVE KeptInv'  OBVIOUS
<1>1. CASE Refuse  BY <1>1, NothingKept DEF Refuse
<1>2. CASE SkipSection  BY <1>2, NothingKept
<1>3. CASE ReadSection  BY <1>3, SectionKept
<1>4. CASE ReadFields  BY <1>4, NothingKept DEF ReadFields
<1>5. CASE UNCHANGED chunkVars  BY <1>5, NothingKept DEF chunkVars
<1> QED  BY <1>1, <1>2, <1>3, <1>4, <1>5 DEF Next, ChunkNext, allVars, vars

\* What is kept for a section belongs together, for every list of sections.
THEOREM KeptSectionsBelongTogether == Spec => []SectionsBelongTogether
<1>1. KeptInv => SectionsBelongTogether
  <2> SUFFICES ASSUME KeptInv, NEW s \in Sections, OneForEachY, palettes[s] # Missing
               PROVE  \E i \in 1..Len(document.sections) :
                        LET from == document.sections[i] IN
                        /\ from.y = s /\ from.states = block_states[s] /\ from.palette # Missing
                        /\ palettes[s] = Named(from.palette)
    BY DEF KeptInv, SectionsBelongTogether
  <2>1. PICK i \in 1..(next_section - 1) : KeptFrom(i, s)  BY DEF KeptInv
  <2>2. i \in 1..Len(document.sections)  BY <2>1, DocumentsAssumption DEF KeptInv
  <2> QED  BY <2>1, <2>2 DEF KeptFrom
<1> QED  BY <1>1, KeptInit, KeptStep, PTL DEF Spec

-----------------------------------------------------------------------------
(* Colours. *)

\* The greater and the smaller of two numbers.
LEMMA OfTwo ==
  ASSUME NEW a \in Int, NEW b \in Int
  PROVE  /\ Max({a, b}) = IF a >= b THEN a ELSE b
         /\ Min({a, b}) = IF a <= b THEN a ELSE b
<1>1. \E m \in {a, b} : \A n \in {a, b} : m >= n  OBVIOUS
<1>2. \E m \in {a, b} : \A n \in {a, b} : m <= n  OBVIOUS
<1>3. Max({a, b}) \in {a, b} /\ \A n \in {a, b} : Max({a, b}) >= n  BY <1>1 DEF Max
<1>4. Min({a, b}) \in {a, b} /\ \A n \in {a, b} : Min({a, b}) <= n  BY <1>2 DEF Min
<1> QED  BY <1>3, <1>4

\* A tone that gets brighter or darker stays one, and one that gets darker does
\* not get brighter.
LEMMA Brightened ==
  ASSUME NEW color \in AllColors, NEW amount \in Int
  PROVE  LET brighter == increase_brightness(color, amount) IN
         /\ brighter \in AllColors
         /\ brighter.alpha = color.alpha
         /\ amount <= 0 => brighter.tone <= color.tone
         /\ amount = 0 => brighter = color
         /\ amount <= 0 /\ color.tone = 0 => brighter = color
<1>1. color.tone \in 0..Full /\ color.alpha \in 0..Full /\ Full \in Nat
  BY ColorsAssumption DEF AllColors
<1> DEFINE tone == IF amount > 0 THEN Min({color.tone + amount, Full}) ELSE Max({color.tone + amount, 0})
<1>2. /\ tone \in 0..Full
      /\ amount <= 0 => tone <= color.tone
      /\ amount = 0 \/ (amount <= 0 /\ color.tone = 0) => tone = color.tone
  <2>1. /\ Min({color.tone + amount, Full}) = IF color.tone + amount <= Full THEN color.tone + amount ELSE Full
        /\ Max({color.tone + amount, 0}) = IF color.tone + amount >= 0 THEN color.tone + amount ELSE 0
    <3>1. color.tone + amount \in Int /\ Full \in Int /\ 0 \in Int  BY <1>1
    <3> HIDE <1>1
    <3> QED  BY <3>1, OfTwo
  <2> QED  BY <1>1, <2>1
<1>3. increase_brightness(color, amount) = [tone |-> tone, alpha |-> color.alpha]
  BY DEF increase_brightness, AllColors
<1> HIDE DEF tone
<1>4. color = [tone |-> color.tone, alpha |-> color.alpha]  BY DEF AllColors
<1>5. /\ increase_brightness(color, amount).tone = tone
      /\ increase_brightness(color, amount).alpha = color.alpha
      /\ increase_brightness(color, amount) \in AllColors
  BY <1>1, <1>2, <1>3 DEF AllColors
<1>6. tone = color.tone => increase_brightness(color, amount) = color
  BY <1>3, <1>4
<1> QED  BY <1>2, <1>5, <1>6

\* A factor is left out.
LEMMA Cancelled ==
  ASSUME NEW n \in Nat \ {0}, NEW a \in Int, NEW b \in Int, n * a <= n * b
  PROVE  a <= b
<1> SUFFICES ASSUME a >= b + 1 PROVE FALSE  OBVIOUS
<1>1. n * a >= n * (b + 1)  OBVIOUS
<1>2. n * (b + 1) = n * b + n  OBVIOUS
<1> QED  BY <1>1, <1>2

\* A quotient.
LEMMA Quotient ==
  ASSUME NEW a \in Nat, NEW n \in Nat \ {0}
  PROVE  a \div n \in Nat /\ n * (a \div n) <= a /\ a < n * (a \div n) + n
  OBVIOUS

\* What a blend is, and that it is no brighter than the brighter of the two.
LEMMA Blended ==
  ASSUME NEW fg \in AllColors, NEW bg \in AllColors, NEW most \in 0..Full,
         fg.tone <= most, bg.tone <= most
  PROVE  Blend(fg, bg) \in AllColors /\ Blend(fg, bg).tone <= most
<1>1. /\ fg.tone \in Nat /\ bg.tone \in Nat /\ fg.alpha \in 0..Full /\ bg.alpha \in 0..Full
      /\ Full \in Nat \ {0} /\ most \in Nat
  BY ColorsAssumption DEF AllColors
<1>2. CASE bg.alpha = 0  BY <1>2 DEF Blend
<1>3. CASE bg.alpha # 0
  <2> DEFINE F == Full  f == fg.alpha  b == bg.alpha
             q == (b * f) \div F
             alpha == (b + f) - q
             shining == (bg.tone * (F - f) * b) \div F
             tone == (fg.tone * f + shining) \div alpha
  <2>1. /\ F \in Nat \ {0} /\ f \in Nat /\ b \in Nat \ {0} /\ f <= F /\ b <= F
        /\ b * f \in Nat /\ F - f \in Nat /\ bg.tone * (F - f) * b \in Nat
    BY <1>1, <1>3
  <2>2. q \in Nat /\ F * q <= b * f /\ b * f < F * q + F  BY <2>1, Quotient
  <2>3. shining \in Nat /\ F * shining <= bg.tone * (F - f) * b  BY <2>1, Quotient
  <2>4. q <= f /\ q <= b
    <3>1. b * f <= F * f /\ b * f <= F * b  BY <2>1
    <3>2. F * q <= F * f /\ F * q <= F * b  BY <2>1, <2>2, <3>1
    <3> QED  BY <2>1, <2>2, <3>2
  <2>5. alpha \in Nat \ {0} /\ alpha <= F
    <3>1. (F - f) * (F - b) >= 0  BY <2>1
    <3>2. (F - f) * (F - b) = F * F - F * (b + f) + b * f  BY <2>1
    <3>3. F * (b + f) - F * F <= b * f  BY <2>1, <3>1, <3>2
    <3>4. F * (b + f - F) < F * (q + 1)  BY <2>1, <2>2, <3>3
    <3>5. b + f - F < q + 1  BY <2>1, <2>2, <3>4
    <3> QED  BY <2>1, <2>2, <2>4, <3>5
  <2>6. F * (fg.tone * f + shining) <= F * (alpha * most)
    <3>1. F * (fg.tone * f) <= F * (most * f)
      <4>1. fg.tone * f <= most * f  BY <1>1, <2>1
      <4> QED  BY <1>1, <2>1, <4>1
    <3>2. bg.tone * (F - f) * b <= most * (F - f) * b
      <4>1. bg.tone * (F - f) <= most * (F - f)  BY <1>1, <2>1
      <4> QED  BY <1>1, <2>1, <4>1
    <3>3. most * (F - f) * b = F * (most * b) - most * (b * f)  BY <1>1, <2>1
    <3>4. most * (F * q) <= most * (b * f)  BY <1>1, <2>1, <2>2
    <3>5. F * (alpha * most) = F * (most * b) + F * (most * f) - most * (F * q)
      BY <1>1, <2>1, <2>2
    <3>6. F * (fg.tone * f + shining) = F * (fg.tone * f) + F * shining  BY <1>1, <2>1, <2>3
    <3>7. /\ F * (fg.tone * f) \in Int /\ F * shining \in Int /\ F * (most * b) \in Int
          /\ F * (most * f) \in Int /\ most * (F * q) \in Int /\ most * (b * f) \in Int
      BY <1>1, <2>1, <2>2, <2>3
    <3>8. bg.tone * (F - f) * b \in Int /\ most * (F - f) * b \in Int  BY <1>1, <2>1
    <3>9. \A tf, sh, mb, mf, mq, mbf, bt, mt \in Int :
            tf <= mf /\ bt <= mt /\ mt = mb - mbf /\ mq <= mbf /\ sh <= bt
            => tf + sh <= mb + mf - mq
      OBVIOUS
    <3> HIDE DEF q, alpha, shining
    <3> QED  BY <2>3, <3>1, <3>2, <3>3, <3>4, <3>5, <3>6, <3>7, <3>8, <3>9
  <2>7. fg.tone * f + shining \in Nat /\ fg.tone * f + shining <= alpha * most
    <3>1. fg.tone * f + shining \in Nat /\ alpha * most \in Nat  BY <1>1, <2>1, <2>3, <2>5
    <3> HIDE DEF alpha, shining
    <3> QED  BY <2>1, <2>6, <3>1, Cancelled
  <2>8. tone \in Nat /\ tone <= most
    <3>1. tone \in Nat /\ alpha * tone <= fg.tone * f + shining  BY <2>5, <2>7, Quotient
    <3>2. alpha * tone <= alpha * most  BY <1>1, <2>5, <2>7, <3>1
    <3> QED  BY <1>1, <2>5, <3>1, <3>2
  <2>9. Blend(fg, bg) = [tone |-> tone, alpha |-> alpha]  BY <1>3 DEF Blend
  <2> HIDE DEF tone, alpha
  <2> QED  BY <1>1, <2>1, <2>5, <2>8, <2>9 DEF AllColors
<1> QED  BY <1>2, <1>3

\* What is opaque stays so below anything, and unchanged below nothing.
LEMMA BlendedOnOpaque ==
  ASSUME NEW fg \in AllColors, NEW bg \in AllColors, bg.alpha = Full
  PROVE  Blend(fg, bg).alpha = Full /\ (fg = None => Blend(fg, bg) = bg)
<1>1. /\ fg.tone \in Nat /\ bg.tone \in Nat /\ fg.alpha \in Nat /\ Full \in Nat \ {0}
  BY ColorsAssumption DEF AllColors
<1>2. \A a \in Nat : (Full * a) \div Full = a /\ (a * Full) \div Full = a
  BY <1>1
<1>3. Blend(fg, bg).alpha = (Full + fg.alpha) - (Full * fg.alpha) \div Full
  BY <1>1 DEF Blend
<1>4. Blend(fg, bg).alpha = Full  BY <1>1, <1>2, <1>3
<1>5. ASSUME fg = None
      PROVE  Blend(fg, bg) = bg
  <2>1. fg.tone = 0 /\ fg.alpha = 0  BY <1>5 DEF None
  <2>2. bg.tone * (Full - 0) * Full = (bg.tone * Full) * Full /\ bg.tone * Full \in Nat  BY <1>1
  <2>3. (bg.tone * (Full - 0) * Full) \div Full = bg.tone * Full  BY <1>1, <1>2, <2>2
  <2>4. Blend(fg, bg).tone = (0 * 0 + (bg.tone * (Full - 0) * Full) \div Full) \div Blend(fg, bg).alpha
    BY <1>1, <2>1 DEF Blend
  <2>5. Blend(fg, bg).tone = bg.tone  BY <1>1, <1>2, <1>4, <2>2, <2>3, <2>4
  <2>6. Blend(fg, bg) = [tone |-> Blend(fg, bg).tone, alpha |-> Blend(fg, bg).alpha]
    BY <1>1 DEF Blend
  <2>7. bg = [tone |-> bg.tone, alpha |-> bg.alpha]  BY DEF AllColors
  <2> QED  BY <1>4, <2>5, <2>6, <2>7
<1> QED  BY <1>4, <1>5

-----------------------------------------------------------------------------
(* Light and heights. *)

\* A set of numbers that are bounded has a greatest one.
LEMMA MaxOfSome ==
  ASSUME NEW n \in Nat, NEW S \in SUBSET (0..n), S # {}
  PROVE  Max(S) \in S /\ \A s \in S : Max(S) >= s
<1> DEFINE R == {ss \in Nat \X Nat : ss[1] < ss[2]}
           Gaps == {n - s : s \in S}
<1>1. IsWellFoundedOn(R, Nat)  BY NatLessThanWellFounded DEF OpToRel
<1>2. Gaps \subseteq Nat /\ Gaps # {}
  <2>1. PICK s \in S : TRUE  OBVIOUS
  <2>2. n - s \in Gaps  BY <2>1
  <2>3. \A t \in S : n - t \in Nat  OBVIOUS
  <2> QED  BY <2>2, <2>3
<1>3. PICK g \in Gaps : \A h \in Gaps : ~(<<h, g>> \in R)
  <2> HIDE DEF R, Gaps
  <2> QED  BY <1>1, <1>2, WFMin
<1>4. \A h \in Gaps : ~(h < g)  BY <1>2, <1>3
<1>5. PICK m \in S : g = n - m  OBVIOUS
<1>6. \A s \in S : m >= s
  <2> TAKE s \in S
  <2>1. n - s \in Gaps  OBVIOUS
  <2>2. ~(n - s < n - m)  BY <2>1, <1>4, <1>5
  <2> QED  BY <2>2
<1> HIDE DEF R, Gaps
<1> QED  BY <1>6 DEF Max

\* The light that is kept for a section is a byte for each height.
LightInv ==
  \A s \in Sections : block_lights[s] # Missing => \A k \in 1..(2 * LightSize) : block_lights[s][k] \in Nat

\* The blocks of bytes are twice as many, and numbers as they are.
LEMMA NibblesOfBytes ==
  ASSUME NEW bytes, Len(bytes) = LightSize
  PROVE  Len(decode_nibble(bytes)) = 2 * LightSize
<1> DEFINE light == decode_nibble(bytes)
           n == 2 * LightSize
<1>1. n \in Nat  BY SizesAssumption
<1>2. light \in [1..n -> Range(light)] /\ DOMAIN light = 1..n  BY DEF decode_nibble, Range
<1> HIDE DEF light, n
<1>3. light \in Seq(Range(light))  BY <1>1, <1>2, SeqDef
<1>4. Len(light) \in Nat /\ DOMAIN light = 1..Len(light)  BY <1>3, LenProperties
<1>5. Len(light) = n  BY <1>1, <1>2, <1>4
<1> QED  BY <1>5 DEF light, n

LEMMA NibblesAreNumbers ==
  ASSUME NEW bytes, Len(bytes) = LightSize, \A k \in 1..LightSize : bytes[k] \in Nat,
         NEW k \in 1..(2 * LightSize)
  PROVE  decode_nibble(bytes)[k] \in Nat
<1>1. LightSize \in Nat /\ k \in Nat /\ 1 <= k /\ k <= 2 * LightSize  BY SizesAssumption
<1>2. decode_nibble(bytes)[k] = IF k % 2 = 1 THEN bytes[(k + 1) \div 2] % 16
                               ELSE bytes[k \div 2] \div 16
  BY DEF decode_nibble
<1>3. CASE k % 2 = 1
  <2>1. (k + 1) \div 2 \in 1..LightSize  BY <1>1
  <2>2. bytes[(k + 1) \div 2] \in Nat  BY <2>1
  <2>3. \A byte \in Nat : byte % 16 \in Nat  OBVIOUS
  <2> QED  BY <1>2, <1>3, <2>2, <2>3
<1>4. CASE k % 2 # 1
  <2>1. k \div 2 \in 1..LightSize  BY <1>1, <1>4
  <2>2. bytes[k \div 2] \in Nat  BY <2>1
  <2>3. \A byte \in Nat : byte \div 16 \in Nat  OBVIOUS
  <2> QED  BY <1>2, <1>4, <2>2, <2>3
<1> QED  BY <1>3, <1>4

LEMMA LightInit == Init => LightInv
  BY DEF Init, ChunkInit, NoSections, LightInv

LEMMA LightStep == KeptInv /\ LightInv /\ [Next]_allVars => LightInv'
<1> SUFFICES ASSUME KeptInv, LightInv, [Next]_allVars PROVE LightInv'  OBVIOUS
<1>1. CASE UNCHANGED block_lights  BY <1>1 DEF LightInv
<1>2. CASE ReadSection
  <2>1. /\ AtSection /\ Current.y \in Sections
        /\ \/ UNCHANGED block_lights
           \/ /\ block_lights' = [block_lights EXCEPT ![Current.y] = decode_nibble(Current.light)]
              /\ Current.light # Missing /\ Len(Current.light) = LightSize
    BY <1>2 DEF ReadSection, Skipped
  <2>2. CASE UNCHANGED block_lights  BY <2>2 DEF LightInv
  <2>3. CASE /\ block_lights' = [block_lights EXCEPT ![Current.y] = decode_nibble(Current.light)]
             /\ Current.light # Missing /\ Len(Current.light) = LightSize
    <3>1. next_section \in 1..Len(document.sections) /\ document \in Documents
      BY <2>1, DocumentsAssumption DEF AtSection, KeptInv
    <3>2. \A k \in 1..LightSize : Current.light[k] \in Nat
      BY <2>3, <3>1, DocumentsAssumption DEF Current
    <3> DEFINE light == decode_nibble(Current.light)
    <3>3. \A k \in 1..(2 * LightSize) : light[k] \in Nat
      <4> HIDE DEF Current
      <4> QED  BY <2>3, <3>2, NibblesAreNumbers
    <3> HIDE DEF Current, light
    <3>4. \A s \in Sections : block_lights'[s] = IF s = Current.y THEN light ELSE block_lights[s]
      BY <2>3 DEF KeptInv, light
    <3> QED  BY <3>3, <3>4 DEF LightInv
  <2> QED  BY <2>1, <2>2, <2>3
<1> QED
  BY <1>1, <1>2 DEF Next, ChunkNext, Refuse, SkipSection, ReadFields, chunkVars, allVars, vars

\* The heights at which the scan may be.
LEMMA HeightsOfSections ==
  ASSUME NEW h \in Heights
  PROVE  h \in Nat /\ h \div Width \in Sections
<1>1. Width \in Nat \ {0} /\ SectionCount \in Nat \ {0}
  BY SizesAssumption
<1>2. h \in Nat /\ h < SectionCount * Width  BY <1>1 DEF Heights
<1>3. h % Width \in 0..(Width - 1)  BY <1>1, <1>2
<1>4. h \div Width \in Nat /\ Width * (h \div Width) <= h  BY <1>1, <1>2, Quotient
<1>5. Width * (h \div Width) < Width * SectionCount  BY <1>1, <1>2, <1>4
<1>6. h \div Width < SectionCount
  <2> SUFFICES ASSUME h \div Width >= SectionCount PROVE FALSE  BY <1>1, <1>4
  <2>1. Width * (h \div Width) >= Width * SectionCount  BY <1>1, <1>4
  <2> QED  BY <1>1, <1>4, <1>5, <2>1
<1> QED  BY <1>1, <1>2, <1>3, <1>4, <1>6 DEF Sections

LEMMA MaxHeightIsHeight == get_max_height \in Heights
<1> DEFINE filled == {s \in Sections : palettes[s] # Missing}
<1>1. Width \in Nat \ {0} /\ SectionCount \in Nat \ {0}  BY SizesAssumption
<1>2. CASE filled = {}
  <2>1. 0 <= SectionCount * Width - 1 /\ SectionCount * Width \in Nat  BY <1>1
  <2> QED  BY <1>2, <2>1 DEF get_max_height, Heights
<1>3. CASE filled # {}
  <2>1. Max(filled) \in 0..(SectionCount - 1)
    <3>1. filled \in SUBSET (0..(SectionCount - 1)) /\ SectionCount - 1 \in Nat  BY <1>1 DEF Sections
    <3> HIDE DEF filled
    <3> QED  BY <1>3, <3>1, MaxOfSome
  <2> HIDE DEF filled
  <2>2. /\ (Max(filled) + 1) * Width \in Nat /\ SectionCount * Width \in Nat
        /\ 1 <= (Max(filled) + 1) * Width /\ (Max(filled) + 1) * Width <= SectionCount * Width
    <3>1. PICK m \in 0..(SectionCount - 1) : m = Max(filled)  BY <2>1
    <3>2. 1 <= (m + 1) * Width /\ (m + 1) * Width <= SectionCount * Width  BY <1>1
    <3> QED  BY <1>1, <3>1, <3>2
  <2>3. get_max_height = (Max(filled) + 1) * Width - 1  BY <1>3 DEF get_max_height, filled
  <2> QED  BY <2>2, <2>3 DEF Heights
<1> QED  BY <1>2, <1>3

LEMMA MaxYIsHeight == MaxY \in Heights
<1>1. /\ Width \in Nat \ {0} /\ SectionCount \in Nat \ {0} /\ NetherMaxY \in Nat
      /\ SectionCount * Width \in Nat
  BY SizesAssumption, ColorsAssumption
<1>2. get_max_height \in Heights  BY MaxHeightIsHeight
<1> QED  BY <1>1, <1>2 DEF MaxY, Heights

-----------------------------------------------------------------------------
(* Looking up a block. *)

\* A set of numbers has a least one.
LEMMA LeastOfSome ==
  ASSUME NEW S \in SUBSET Nat, S # {}
  PROVE  \E s \in S : \A t \in S : s <= t
<1> DEFINE R == {ss \in Nat \X Nat : ss[1] < ss[2]}
<1>1. IsWellFoundedOn(R, Nat)  BY NatLessThanWellFounded DEF OpToRel
<1>2. PICK s \in S : \A t \in S : ~(<<t, s>> \in R)
  <2> HIDE DEF R
  <2> QED  BY <1>1, WFMin
<1>3. \A t \in S : ~(t < s)  BY <1>2
<1> QED  BY <1>3

\* The loop over Palette leaves nothing out that has a name.
LEMMA NamedOfAll ==
  ASSUME NEW S, NEW palette \in Seq(S), \A k \in 1..Len(palette) : palette[k] # Missing
  PROVE  Named(palette) = palette
<1> DEFINE D == 0..Len(palette)
           Step(f) == [j \in D |-> IF j = 0 THEN <<>>
                                   ELSE IF palette[j] = Missing THEN f[j - 1]
                                   ELSE Append(f[j - 1], palette[j])]
           kept == CHOOSE f : f = Step(f)
           front == [j \in D |-> SubSeq(palette, 1, j)]
<1>0. Len(palette) \in Nat  OBVIOUS
<1>1. Named(palette) = kept[Len(palette)]  BY DEF Named
<1>2. front = Step(front)
  <2> SUFFICES ASSUME NEW j \in D
               PROVE  SubSeq(palette, 1, j) =
                        (IF j = 0 THEN <<>>
                         ELSE IF palette[j] = Missing THEN front[j - 1]
                         ELSE Append(front[j - 1], palette[j]))
    OBVIOUS
  <2>1. CASE j = 0  BY <2>1
  <2>2. CASE j # 0
    <3>1. j - 1 \in D /\ j \in 1..Len(palette)  BY <2>2, <1>0
    <3>2. SubSeq(palette, 1, j) = Append(SubSeq(palette, 1, j - 1), palette[j])
      BY <3>1
    <3> QED  BY <2>2, <3>1, <3>2
  <2> QED  BY <2>1, <2>2
<1>3. kept = Step(kept)
  <2> HIDE DEF front
  <2> QED  BY <1>2
<1> HIDE DEF kept
<1>4. \A j \in D : kept[j] = front[j]
  <2> SUFFICES ASSUME NEW j \in D, kept[j] # front[j] PROVE FALSE  OBVIOUS
  <2> DEFINE Differ == {i \in D : kept[i] # front[i]}
  <2>1. Differ \subseteq Nat /\ Differ # {}
    <3> HIDE DEF Step, front
    <3>1. j \in Differ  OBVIOUS
    <3>2. D \subseteq Nat  BY <1>0
    <3> QED  BY <3>1, <3>2
  <2>2. PICK m \in Differ : \A t \in Differ : m <= t
    <3> HIDE DEF Differ
    <3> QED  BY <2>1, LeastOfSome
  <2>3. m \in D /\ kept[m] # front[m]  OBVIOUS
  <2>4. ASSUME NEW f, f = Step(f)
        PROVE  f[m] = IF m = 0 THEN <<>>
                      ELSE IF palette[m] = Missing THEN f[m - 1]
                      ELSE Append(f[m - 1], palette[m])
    <3> HIDE DEF front, Differ
    <3>1. Step(f)[m] = IF m = 0 THEN <<>>
                       ELSE IF palette[m] = Missing THEN f[m - 1]
                       ELSE Append(f[m - 1], palette[m])
      BY <2>3
    <3> HIDE DEF Step
    <3> QED  BY <2>4, <3>1
  <2> HIDE DEF Step, front, Differ
  <2>5. CASE m = 0  BY <1>2, <1>3, <2>3, <2>4, <2>5
  <2>6. CASE m # 0
    <3>1. m - 1 \in D /\ m - 1 < m  BY <2>3, <2>6, <1>0
    <3>2. kept[m - 1] = front[m - 1]  BY <2>2, <3>1, <1>0 DEF Differ
    <3> QED  BY <1>2, <1>3, <2>3, <2>4, <2>6, <3>1, <3>2
  <2> QED  BY <2>5, <2>6
<1>5. front[Len(palette)] = palette  BY <1>0
<1> QED  BY <1>0, <1>1, <1>4, <1>5

\* The bits from first on, counted through all words.
BitsFrom(states, first, bits) ==
  {b \in 0..(bits - 1) : (first + b) % WordBits \in states[(first + b) \div WordBits + 1]}

\* A bit counted from the beginning of a word on is in that word or in the next.
LEMMA BitInWords ==
  ASSUME NEW w \in Nat, NEW s \in 0..(WordBits - 1), NEW b \in 0..(WordBits - 1)
  PROVE  IF s + b < WordBits
         THEN (WordBits * w + s + b) % WordBits = s + b /\ (WordBits * w + s + b) \div WordBits = w
         ELSE /\ (WordBits * w + s + b) % WordBits = s + b - WordBits
              /\ (WordBits * w + s + b) \div WordBits = w + 1
<1>1. WordBits \in Nat \ {0}  BY SizesAssumption
<1>2. CASE s + b < WordBits
  <2>1. s + b \in 0..(WordBits - 1) /\ WordBits * w + s + b = WordBits * w + (s + b)
    BY <1>1, <1>2
  <2> QED  BY <1>1, <1>2, <2>1, DivisionIsUnique
<1>3. CASE ~(s + b < WordBits)
  <2>1. PICK v \in Nat : v = w + 1  OBVIOUS
  <2>2. PICK t \in 0..(WordBits - 1) : t = s + b - WordBits  BY <1>1, <1>3
  <2>3. WordBits * v = WordBits * w + WordBits  BY <1>1, <2>1
  <2>4. WordBits * w + s + b = WordBits * v + t  BY <1>1, <2>2, <2>3
  <2>5. (WordBits * v + t) % WordBits = t /\ (WordBits * v + t) \div WordBits = v
    BY <1>1, DivisionIsUnique
  <2> QED  BY <1>3, <2>1, <2>2, <2>4, <2>5
<1> QED  BY <1>2, <1>3

\* Of blocks that go on in the next word get_block() finds the bits the game packed,
\* and reads no word that is not there.
LEMMA StretchedIds ==
  ASSUME document.stretched, NEW states \in Seq(Word), NEW index \in Nat, NEW bits \in 1..WordBits,
         \A b \in 0..(bits - 1) : (index * bits + b) \div WordBits < Len(states)
  PROVE  /\ WordOf(index, bits) < Len(states)
         /\ PaletteIds(states, index, bits) = {BitsFrom(states, index * bits, bits)}
<1> DEFINE first == index * bits
           w == StretchedWord(index, bits)
           s == StretchedShift(index, bits)
<1>1. WordBits \in Nat \ {0} /\ bits \in Nat \ {0} /\ bits <= WordBits  BY SizesAssumption
<1>2. w \in Nat /\ s \in 0..(WordBits - 1) /\ first = WordBits * w + s
  BY <1>1, PlaceOfABit
<1>3. WordOf(index, bits) = w  BY DEF WordOf
<1> HIDE DEF w, s
<1>4. \A b \in 0..(bits - 1) :
        IF s + b < WordBits THEN (first + b) % WordBits = s + b /\ (first + b) \div WordBits = w
        ELSE /\ (first + b) % WordBits = s + b - WordBits
             /\ (first + b) \div WordBits = w + 1
  <2> TAKE b \in 0..(bits - 1)
  <2>1. b \in 0..(WordBits - 1)  BY <1>1
  <2> HIDE DEF first
  <2> QED  BY <1>2, <2>1, BitInWords
<1>5. w < Len(states)
  <2>1. 0 \in 0..(bits - 1) /\ s + 0 < WordBits  BY <1>1, <1>2
  <2> QED  BY <1>4, <2>1
<1>6. states[w + 1] \in Word
  BY <1>2, <1>5
<1>7. CASE Crosses(index, bits)
  <2>1. w + 1 < Len(states)
    <3>1. bits - 1 \in 0..(bits - 1) /\ ~(s + (bits - 1) < WordBits)
      BY <1>1, <1>2, <1>7 DEF Crosses, s
    <3> QED  BY <1>4, <3>1
  <2>2. WordAt(states, w + 1) = {states[w + 2]} /\ states[w + 2] \in Word
    BY <1>2, <2>1 DEF WordAt
  <2>3. PaletteIds(states, index, bits) = {StretchedState(states[w + 1], states[w + 2], index, bits)}
    BY <1>3, <1>7, <2>2 DEF PaletteIds
  <2>4. OwnBits(states[w + 1], states[w + 2], index, bits) = BitsFrom(states, first, bits)
    <3>1. w + 1 + 1 = w + 2  BY <1>2
    <3> HIDE DEF first
    <3> QED  BY <1>4, <3>1 DEF OwnBits, BitsFrom, s
  <2> QED  BY <1>3, <1>5, <1>6, <2>2, <2>3, <2>4, StretchedBlockReadsItsBits
<1>8. CASE ~Crosses(index, bits)
  <2>1. \A b \in 0..(bits - 1) : s + b < WordBits  BY <1>1, <1>2, <1>8 DEF Crosses, s
  <2>2. PaletteIds(states, index, bits) = {StretchedState(states[w + 1], {}, index, bits)}
    BY <1>3, <1>8 DEF PaletteIds
  <2>3. OwnBits(states[w + 1], {}, index, bits) = BitsFrom(states, first, bits)
    <3> HIDE DEF first
    <3> QED  BY <1>4, <2>1 DEF OwnBits, BitsFrom, s
  <2>4. {} \in Word  BY DEF Word
  <2> QED  BY <1>3, <1>5, <1>6, <2>2, <2>3, <2>4, StretchedBlockReadsItsBits
<1> QED  BY <1>7, <1>8

\* And of blocks that are in one word.
LEMMA UnstretchedIds ==
  ASSUME ~document.stretched, NEW states \in Seq(Word), NEW index \in Nat, NEW bits \in 1..WordBits,
         NEW first, first = FirstBit(index, bits, FALSE),
         \A b \in 0..(bits - 1) : (first + b) \div WordBits < Len(states)
  PROVE  /\ WordOf(index, bits) < Len(states)
         /\ PaletteIds(states, index, bits) = {BitsFrom(states, first, bits)}
<1> DEFINE w == UnstretchedWord(index, bits)
           start == (index % (WordBits \div bits)) * bits
<1>1. WordBits \in Nat \ {0} /\ bits \in Nat \ {0} /\ bits <= WordBits  BY SizesAssumption
<1>2. WordBits \div bits \in Nat \ {0}
  <2>1. bits * (WordBits \div bits) <= WordBits /\ WordBits < bits * (WordBits \div bits) + bits
        /\ WordBits \div bits \in Nat
    BY <1>1, Quotient
  <2>2. WordBits \div bits = 0 => bits * (WordBits \div bits) = 0  BY <1>1
  <2> QED  BY <1>1, <2>1, <2>2
<1>3. w \in Nat  BY <1>2, NaturalDivision DEF UnstretchedWord
<1>4. /\ start \in Nat /\ start + bits <= WordBits
      /\ \A word \in Word : UnstretchedState(word, index, bits) = {b \in 0..(bits - 1) : start + b \in word}
  <2>1. {} \in Word  BY DEF Word
  <2> QED  BY <2>1, UnstretchedBlockReadsItsBits
<1>5. first = WordBits * w + start
  <2>1. first = w * WordBits + start  BY DEF FirstBit, UnstretchedWord
  <2>2. w * WordBits = WordBits * w
    <3> HIDE DEF w
    <3> QED  BY <1>1, <1>3
  <2> QED  BY <2>1, <2>2
<1>6. WordOf(index, bits) = w  BY DEF WordOf
<1>7. PaletteIds(states, index, bits) = {UnstretchedState(states[w + 1], index, bits)}
  BY <1>6 DEF PaletteIds
<1> HIDE DEF w, start
<1>8. \A b \in 0..(bits - 1) : (first + b) % WordBits = start + b /\ (first + b) \div WordBits = w
  <2> TAKE b \in 0..(bits - 1)
  <2>1. start \in 0..(WordBits - 1) /\ b \in 0..(WordBits - 1) /\ start + b < WordBits
    BY <1>1, <1>4
  <2> QED  BY <1>3, <1>5, <2>1, BitInWords
<1>9. w < Len(states)
  <2>1. 0 \in 0..(bits - 1)  BY <1>1
  <2> QED  BY <1>8, <2>1
<1>10. states[w + 1] \in Word  BY <1>3, <1>9
<1>11. BitsFrom(states, first, bits) = {b \in 0..(bits - 1) : start + b \in states[w + 1]}
  BY <1>8 DEF BitsFrom
<1> QED  BY <1>4, <1>6, <1>7, <1>9, <1>10, <1>11

\* The number of a block in its section does not depend on the section.
LEMMA IndexIsNumber ==
  ASSUME NEW a \in Places, NEW h \in Heights, NEW b \in Places
  PROVE  /\ h % Width \in Places /\ IndexOf(a, h, b) \in Nat
         /\ IndexOf(a, h % Width, b) = IndexOf(a, h, b)
<1>1. Width \in Nat \ {0} /\ h \in Nat /\ a \in Nat /\ b \in Nat
  BY SizesAssumption, HeightsOfSections DEF Places
<1>2. h % Width \in 0..(Width - 1)  BY <1>1
<1>3. (h % Width) % Width = h % Width
  <2>1. (Width * 0 + (h % Width)) % Width = h % Width  BY <1>1, <1>2, DivisionIsUnique
  <2>2. Width * 0 + (h % Width) = h % Width  BY <1>1, <1>2
  <2> QED  BY <2>1, <2>2
<1>4. IndexOf(a, h, b) \in Nat
  <2>1. PICK r \in Nat : r = h % Width  BY <1>2
  <2>2. (r * Width + b) * Width + a \in Nat  BY <1>1
  <2> QED  BY <2>1, <2>2 DEF IndexOf
<1> QED  BY <1>2, <1>3, <1>4 DEF IndexOf, Places

\* The light of a block is one of those that were kept for its section.
LEMMA IndexInLight ==
  ASSUME NEW a \in Places, NEW h \in Heights, NEW b \in Places
  PROVE  IndexOf(a, h, b) + 1 \in 1..(2 * LightSize)
<1>1. /\ Width \in Nat \ {0} /\ LightSize \in Nat /\ Width * Width * Width <= 2 * LightSize
      /\ Width * Width * Width \in Nat /\ Width * Width \in Nat
  BY SizesAssumption
<1>2. /\ h % Width \in 0..(Width - 1) /\ a \in 0..(Width - 1) /\ b \in 0..(Width - 1)
      /\ IndexOf(a, h, b) \in Nat
  BY IndexIsNumber DEF Places
<1>3. PICK r \in 0..(Width - 1) : r = h % Width  BY <1>2
<1>4. r * Width <= (Width - 1) * Width /\ r * Width \in Nat  BY <1>1, <1>3
<1>5. (Width - 1) * Width = Width * Width - Width  BY <1>1
<1>6. r * Width + b <= Width * Width - 1 /\ r * Width + b \in Nat  BY <1>1, <1>2, <1>4, <1>5
<1>7. PICK row \in 0..(Width * Width - 1) : row = r * Width + b  BY <1>1, <1>6
<1>8. row * Width <= (Width * Width - 1) * Width /\ row * Width \in Nat  BY <1>1, <1>7
<1>9. (Width * Width - 1) * Width = Width * Width * Width - Width  BY <1>1
<1>10. row * Width + a <= Width * Width * Width - 1  BY <1>1, <1>2, <1>8, <1>9
<1>11. IndexOf(a, h, b) = row * Width + a  BY <1>3, <1>7 DEF IndexOf
<1> QED  BY <1>1, <1>2, <1>10, <1>11

LEMMA LightIsNumber ==
  ASSUME LightInv, NEW a \in Places, NEW h \in Heights, NEW b \in Places
  PROVE  get_block_light(a, h, b) \in Nat
<1>1. h \div Width \in Sections /\ IndexOf(a, h, b) + 1 \in 1..(2 * LightSize)
  BY HeightsOfSections, IndexInLight
<1> QED  BY <1>1 DEF LightInv, get_block_light

\* Of a section as the game writes it, with its palette and its words kept, every
\* block is the one the game packed.
LEMMA BlockOfSection ==
  ASSUME document \in Documents, NEW i \in 1..Len(document.sections), NEW section,
         section = document.sections[i], Stores(section), AllThere(section),
         NEW a \in Places, NEW h \in Heights, NEW b \in Places, section.y = h \div Width,
         palettes[section.y] = Named(section.palette), block_states[section.y] = section.states
  PROVE  get_block(a, h, b) =
           {IF section.palette = <<>> THEN "air" ELSE section.palette[section.ids[IndexOf(a, h, b)] + 1]}
<1> DEFINE palette == section.palette
           bits == Bits(palette)
           states == section.states
           index == IndexOf(a, h, b)
           id == section.ids[index]
           first == FirstBit(index, bits, document.stretched)
<1>1. /\ palette \in Seq(Range(palette)) /\ palette # Missing
      /\ palette # <<>> =>
           /\ palette[1] = "air" /\ bits \in 1..WordBits /\ states \in Seq(Word)
           /\ \A c, g, d \in Places :
                Packed(section, IndexOf(c, g, d), bits, document.stretched)
  BY PackedAssumption DEF Stores, Word
<1>2. Named(palette) = palette  BY <1>1, NamedOfAll DEF AllThere
<1>3. CASE palette = <<>>  BY <1>1, <1>2, <1>3 DEF get_block
<1>4. CASE palette # <<>>
  <2>1. index \in Nat /\ Packed(section, index, bits, document.stretched)
    <3>1. /\ h % Width \in Places /\ index \in Nat /\ IndexOf(a, h % Width, b) = index
      BY IndexIsNumber
    <3>2. Packed(section, IndexOf(a, h % Width, b), bits, document.stretched)  BY <1>1, <1>4, <3>1
    <3> QED  BY <3>1, <3>2
  <2>2. bits \in 1..WordBits /\ states \in Seq(Word) /\ palette[1] = "air"  BY <1>1, <1>4
  <2> HIDE DEF index, bits
  <2>3. /\ id \in 0..(Len(palette) - 1)
        /\ \A k \in 0..(bits - 1) : (first + k) \div WordBits < Len(states)
        /\ id = NumberOf(BitsFrom(states, first, bits))
    BY <2>1 DEF Packed, BitsFrom
  <2>4. WordOf(index, bits) < Len(states) /\ PaletteIds(states, index, bits) = {BitsFrom(states, first, bits)}
    <3>1. CASE document.stretched
      <4>1. first = index * bits  BY <3>1 DEF FirstBit
      <4>2. \A k \in 0..(bits - 1) : (index * bits + k) \div WordBits < Len(states)
        BY <2>3, <4>1
      <4> HIDE DEF first
      <4>3. /\ WordOf(index, bits) < Len(states)
            /\ PaletteIds(states, index, bits) = {BitsFrom(states, index * bits, bits)}
        BY <2>1, <2>2, <3>1, <4>2, StretchedIds
      <4> QED  BY <4>1, <4>3
    <3>2. CASE ~document.stretched
      <4>1. first = FirstBit(index, bits, FALSE)  BY <3>2 DEF FirstBit
      <4>2. \A k \in 0..(bits - 1) : (first + k) \div WordBits < Len(states)  BY <2>3
      <4>3. index \in Nat  BY <2>1
      <4> HIDE DEF first, states
      <4> QED  BY <2>2, <3>2, <4>1, <4>2, <4>3, UnstretchedIds
    <3> QED  BY <3>1, <3>2
  <2>5. PaletteEntry(palette, id) = palette[id + 1]
    <3>1. id \in Nat /\ id < Len(palette)  BY <1>1, <2>3
    <3>2. id = 0 => palette[id + 1] = "air"  BY <2>2
    <3> QED  BY <3>1, <3>2 DEF PaletteEntry
  <2>6. Len(states) \in Nat /\ WordOf(index, bits) \in Nat
    <3>1. Len(states) \in Nat  BY <2>2
    <3>2. WordOf(index, bits) \in Nat
      <4>1. WordBits \in Nat \ {0} /\ bits \in Nat \ {0}  BY <2>2, SizesAssumption
      <4>2. WordBits \div bits \in Nat \ {0}
        <5>1. WordBits \div bits \in Nat /\ WordBits < bits * (WordBits \div bits) + bits
          BY <4>1, Quotient
        <5>2. WordBits \div bits = 0 => bits * (WordBits \div bits) = 0  BY <4>1
        <5> QED  BY <2>2, <4>1, <5>1, <5>2
      <4>3. index * bits \in Nat  BY <2>1, <4>1
      <4> QED  BY <2>1, <4>1, <4>2, <4>3, NaturalDivision DEF WordOf, StretchedWord, UnstretchedWord
    <3> QED  BY <3>1, <3>2
  <2>7. get_block(a, h, b) = {PaletteEntry(palette, NumberOf(n)) : n \in PaletteIds(states, index, bits)}
    <3>1. ~(WordOf(index, bits) >= Len(states))  BY <2>4, <2>6
    <3> QED  BY <1>1, <1>2, <1>4, <3>1 DEF get_block, index, bits
  <2>8. get_block(a, h, b) = {PaletteEntry(palette, id)}  BY <2>3, <2>4, <2>7
  <2> QED  BY <1>4, <2>5, <2>8 DEF index
<1> QED  BY <1>3, <1>4

\* A section that was read and has a palette is kept, and a chunk that was built has
\* read all of them.
StoredInv ==
  /\ \A i \in 1..(next_section - 1) :
       Stores(document.sections[i]) => palettes[document.sections[i].y] # Missing
  /\ outcome = "built" => next_section > Len(document.sections)

LEMMA StoredInit == Init => StoredInv
  BY DEF Init, ChunkInit, StoredInv

LEMMA StoredStep == KeptInv /\ StoredInv /\ [Next]_allVars => StoredInv'
<1> SUFFICES ASSUME KeptInv, StoredInv, [Next]_allVars PROVE StoredInv'  OBVIOUS
<1>1. document' = document /\ next_section \in Nat \ {0}  BY DocumentKept DEF KeptInv
<1>2. \A section : Stores(section)' = Stores(section)  BY DEF Stores, Skipped
<1>3. CASE Refuse  BY <1>1, <1>2, <1>3, FieldsAssumption DEF Refuse, StoredInv, KeptInv
<1>4. CASE SkipSection
  <2>1. /\ next_section' = next_section + 1 /\ palettes' = palettes /\ outcome' # "built"
        /\ ~Stores(document.sections[next_section])
    BY <1>4 DEF SkipSection, AtSection, Reading, Current, Stores
  <2>2. \A i \in 1..(next_section' - 1) : i \in 1..(next_section - 1) \/ i = next_section
    BY <1>1, <2>1
  <2> QED  BY <1>1, <1>2, <2>1, <2>2 DEF StoredInv
<1>5. CASE ReadSection
  <2> DEFINE c == Current
  <2>1. /\ AtSection /\ next_section' = next_section + 1 /\ outcome' # "built"
        /\ c = document.sections[next_section] /\ c.y \in Sections
        /\ IF c.palette = Missing THEN palettes' = palettes
           ELSE palettes' = [palettes EXCEPT ![c.y] = Named(c.palette)]
    BY <1>5 DEF ReadSection, AtSection, Reading, Current, Skipped
  <2>2. next_section \in 1..Len(document.sections)
    BY <1>1, <2>1, DocumentsAssumption DEF AtSection, KeptInv
  <2>3. c.palette # Missing => Named(c.palette) # Missing
    BY <2>1, <2>2, DocumentsAssumption DEF KeptInv
  <2> HIDE DEF c
  <2>4. ASSUME NEW i \in 1..(next_section' - 1), Stores(document.sections[i])
        PROVE  palettes'[document.sections[i].y] # Missing
    <3>1. i \in 1..(next_section - 1) \/ i = next_section  BY <1>1, <2>1
    <3>2. document.sections[i].y \in Sections  BY <2>4 DEF Stores, Skipped
    <3>3. i \in 1..(next_section - 1) => palettes[document.sections[i].y] # Missing
      BY <2>4 DEF StoredInv
    <3>4. DOMAIN palettes = Sections  BY DEF KeptInv
    <3>5. i = next_section => c.palette # Missing  BY <2>1, <2>4 DEF Stores
    <3> QED  BY <2>1, <2>3, <3>1, <3>2, <3>3, <3>4, <3>5
  <2> QED  BY <1>1, <1>2, <2>1, <2>4 DEF StoredInv
<1>6. CASE ReadFields  BY <1>1, <1>2, <1>6 DEF ReadFields, StoredInv
<1>7. CASE UNCHANGED chunkVars  BY <1>1, <1>2, <1>7 DEF chunkVars, StoredInv
<1> QED  BY <1>3, <1>4, <1>5, <1>6, <1>7 DEF Next, ChunkNext, allVars, vars

LEMMA BlocksStored == KeptInv /\ StoredInv => BlockIsTheOneStored
<1> SUFFICES ASSUME KeptInv, StoredInv, outcome = "built", Whole,
                    NEW a \in Places, NEW b \in Places, NEW h \in Heights
             PROVE  /\ get_block(a, h, b) = {Stored(a, h, b)}
                    /\ h > get_max_height => Stored(a, h, b) = "air"
  BY DEF BlockIsTheOneStored
<1> DEFINE at == {i \in 1..Len(document.sections) :
                    Stores(document.sections[i]) /\ document.sections[i].y = h \div Width}
<1>1. h \div Width \in Sections /\ h \in Nat  BY HeightsOfSections
<1>2. CASE at = {}
  <2>1. palettes[h \div Width] = Missing
    <3> SUFFICES ASSUME palettes[h \div Width] # Missing PROVE FALSE  OBVIOUS
    <3>1. PICK i \in 1..(next_section - 1) : KeptFrom(i, h \div Width)
      BY <1>1 DEF KeptInv, Whole
    <3>2. i \in at
      BY <1>1, <3>1, DocumentsAssumption DEF KeptFrom, KeptInv, Stores
    <3> QED  BY <1>2, <3>2
  <2>2. Stored(a, h, b) = "air"  BY <1>2 DEF Stored
  <2> QED  BY <2>1, <2>2 DEF get_block
<1>3. CASE at # {}
  <2> DEFINE i == CHOOSE j \in at : TRUE
             section == document.sections[i]
  <2>1. i \in at  BY <1>3
  <2>2. Stored(a, h, b) =
          IF section.palette = <<>> THEN "air" ELSE section.palette[section.ids[IndexOf(a, h, b)] + 1]
    BY <1>3 DEF Stored
  <2> HIDE DEF i
  <2>3. i \in 1..Len(document.sections) /\ Stores(section) /\ section.y = h \div Width
    BY <2>1
  <2>4. AllThere(section)  BY <2>3 DEF Whole
  <2> HIDE DEF at
  <2>5. palettes[section.y] # Missing
    <3>1. i \in 1..(next_section - 1)  BY <2>3, <2>4, DocumentsAssumption DEF StoredInv, KeptInv
    <3> QED  BY <2>3, <2>4, <3>1 DEF StoredInv
  <2>6. palettes[section.y] = Named(section.palette) /\ block_states[section.y] = section.states
    <3>1. PICK j \in 1..(next_section - 1) : KeptFrom(j, section.y)
      BY <1>1, <2>3, <2>4, <2>5 DEF KeptInv, Whole
    <3>2. j \in 1..Len(document.sections)  BY <3>1, <1>1, DocumentsAssumption DEF KeptInv
    <3>3. j = i  BY <2>3, <2>4, <3>1, <3>2 DEF KeptFrom, Whole, OneForEachY, Stores
    <3> QED  BY <3>1, <3>3 DEF KeptFrom
  <2>7. get_block(a, h, b) = {Stored(a, h, b)}
    <3> HIDE DEF section
    <3>1. section = document.sections[i] /\ document \in Documents  BY DEF section, KeptInv
    <3> QED  BY <2>3, <2>4, <2>2, <2>6, <3>1, BlockOfSection
  <2>8. h <= get_max_height
    <3> DEFINE filled == {s \in Sections : palettes[s] # Missing}
    <3>1. h \div Width \in filled  BY <1>1, <2>3, <2>4, <2>5
    <3>2. Width \in Nat \ {0} /\ SectionCount \in Nat \ {0}  BY SizesAssumption
    <3>3. Max(filled) \in Nat /\ Max(filled) >= h \div Width
      <4>1. filled \in SUBSET (0..(SectionCount - 1)) /\ SectionCount - 1 \in Nat
        BY <3>2 DEF Sections
      <4> HIDE DEF filled
      <4>2. Max(filled) \in filled /\ \A s \in filled : Max(filled) >= s  BY <3>1, <4>1, MaxOfSome
      <4>3. Max(filled) \in 0..(SectionCount - 1)  BY <4>1, <4>2
      <4>4. Max(filled) \in Nat  BY <3>2, <4>3
      <4> QED  BY <3>1, <4>2, <4>4
    <3>4. get_max_height = (Max(filled) + 1) * Width - 1  BY <3>1 DEF get_max_height
    <3> HIDE DEF filled
    <3>5. PICK q \in Nat, m \in Nat : q = h \div Width /\ m = Max(filled)  BY <1>1, <3>3 DEF Sections
    <3>6. h < Width * q + Width  BY <1>1, <3>2, <3>5, Quotient
    <3>7. Width * q <= Width * m  BY <3>2, <3>3, <3>5
    <3>8. (m + 1) * Width = Width * m + Width  BY <3>2
    <3> QED  BY <1>1, <3>2, <3>4, <3>5, <3>6, <3>7, <3>8
  <2>9. ~(h > get_max_height)
    <3>1. get_max_height \in Int
      BY SizesAssumption, MaxHeightIsHeight DEF Heights
    <3> QED  BY <1>1, <2>8, <3>1
  <2> QED  BY <2>7, <2>9
<1> QED  BY <1>2, <1>3

\* For every width, every size of words and both ways of packing, and for every
\* document the game writes, get_block() gives the block that was packed.
THEOREM StoredBlockIsFound == Spec => []BlockIsTheOneStored
  BY BlocksStored, KeptInit, KeptStep, StoredInit, StoredStep, PTL DEF Spec

-----------------------------------------------------------------------------
(* The scan of the columns. *)

BiomesThere == {get_biome(a, h, b) : a \in Places, h \in Heights, b \in Places} \cup {0}

Layers ==
  [fg_color : AllColors, mid_color : AllColors, bg_color : AllColors,
   top_height : Heights, mid_height : Heights, opaque_height : Heights, top_biome : BiomesThere,
   flags : SUBSET {"BIOME_OVERRIDDEN", "IS_TRANSPARENT"}, block_light : Nat]

\* A column that is looked at down to h, one that was left, and one that is finished.
Begun(found, h) ==
  /\ found.opaque_height = 0 /\ found.mid_height <= found.top_height
  /\ IF found.fg_color = None THEN found.mid_height = 0 ELSE found.top_height > h

Left(found) == found.opaque_height <= found.top_height /\ found.mid_height <= found.top_height

Final(found) ==
  /\ Left(found)
  /\ found.bg_color.alpha = Full
  /\ found.top_height = found.opaque_height => found.fg_color = None /\ found.mid_color = None

Behind(p) == p[2] < z \/ (p[2] = z /\ p[1] < x)
Ahead(p) == p[2] > z \/ (p[2] = z /\ p[1] > x)

InScan ==
  /\ x \in Places /\ z \in Places /\ y \in Heights \cup {-1}
  /\ \A p \in Pixels : Behind(p) => Final(pixels[p])
  /\ \A p \in Pixels : Ahead(p) => pixels[p] = Blank

ScanInv ==
  /\ pixels \in [Pixels -> Layers]
  /\ pc \in {"idle", "scanning", "leaving", "scanned", "rows", "columns", "drawing", "drawn"}
  /\ pc = "idle" => x = 0 /\ z = 0 /\ \A p \in Pixels : pixels[p] = Blank
  /\ pc = "scanning" => InScan /\ Begun(pixel, y)
  /\ pc = "leaving" => InScan /\ Left(pixel)
  /\ pc \in {"scanned", "rows", "columns", "drawing", "drawn"} => \A p \in Pixels : Final(pixels[p])

LEMMA BlankIsLayers == Blank \in Layers /\ Begun(Blank, -1) /\ (\A h \in Heights : Begun(Blank, h)) /\ 0 \in Heights
<1>1. 0 \in Heights
  <2>1. SectionCount * Width \in Nat /\ SectionCount * Width >= 1  BY SizesAssumption
  <2> QED  BY <2>1 DEF Heights
<1>2. None \in AllColors  BY ColorsAssumption DEF None, AllColors
<1>3. Blank \in Layers  BY <1>1, <1>2 DEF Blank, Layers, BiomesThere
<1> QED  BY <1>1, <1>3 DEF Blank, Begun

\* The document stays as it is, and so what its biomes may be.
LEMMA LayersKept == [Next]_allVars => document' = document /\ Layers' = Layers
<1> SUFFICES ASSUME [Next]_allVars PROVE document' = document /\ Layers' = Layers  OBVIOUS
<1>1. document' = document  BY DocumentKept
<1>2. BiomesThere' = BiomesThere  BY <1>1 DEF BiomesThere, get_biome
<1> QED  BY <1>1, <1>2 DEF Layers

LEMMA ScanBegins == Init => ScanInv
<1> SUFFICES ASSUME Init PROVE ScanInv  OBVIOUS
<1>1. pixels = [p \in Pixels |-> Blank] /\ pc = "idle" /\ x = 0 /\ z = 0
  BY DEF Init, ScanInit, Pixels
<1> QED  BY <1>1, BlankIsLayers DEF ScanInv

\* What the body of the loop does to the pixel: it goes down, or leaves the column.
LEMMA PixelSet ==
  ASSUME ScanInv, [Next]_allVars, pc = "scanning", NEW new \in Layers, Set(new),
         \/ Begun(new, y - 1) /\ GoDown /\ y >= 0
         \/ Left(new) /\ pc' = "leaving" /\ UNCHANGED <<x, z, y>>
  PROVE  ScanInv'
<1>1. Layers' = Layers  BY LayersKept
<1>2. x' = x /\ z' = z /\ <<x, z>> \in Pixels /\ InScan  BY DEF GoDown, ScanInv, InScan, Pixels
<1>3. /\ pixels' \in [Pixels -> Layers] /\ pixels'[<<x, z>>] = new
      /\ \A p \in Pixels : p # <<x, z>> => pixels'[p] = pixels[p]
  BY <1>2 DEF Set, ScanInv
<1>4. y' \in Heights \cup {-1}
  <2>1. y \in Heights \cup {-1} /\ (SectionCount * Width \in Int)
    BY <1>2, SizesAssumption DEF InScan
  <2> QED  BY <2>1 DEF GoDown, Heights
<1>5. \A p \in Pixels : Behind(p) \/ Ahead(p) => p # <<x, z>>
  BY <1>2 DEF Behind, Ahead, InScan, Places
<1>6. InScan'
  <2>1. \A p \in Pixels : Behind(p)' = Behind(p) /\ Ahead(p)' = Ahead(p)
    BY <1>2 DEF Behind, Ahead
  <2>2. \A p \in Pixels : Behind(p)' => Final(pixels'[p])
    BY <1>2, <1>3, <1>5, <2>1 DEF InScan
  <2>3. \A p \in Pixels : Ahead(p)' => pixels'[p] = Blank
    BY <1>2, <1>3, <1>5, <2>1 DEF InScan
  <2> QED  BY <1>2, <1>4, <2>2, <2>3 DEF InScan
<1>7. CASE Begun(new, y - 1) /\ GoDown
  <2>1. pc' = "scanning" /\ y' = y - 1 /\ pixel' = new  BY <1>2, <1>3, <1>7 DEF GoDown, pixel
  <2> QED  BY <1>1, <1>3, <1>6, <1>7, <2>1 DEF ScanInv
<1>8. CASE Left(new) /\ pc' = "leaving"
  <2>1. pixel' = new  BY <1>2, <1>3 DEF pixel
  <2> QED  BY <1>1, <1>3, <1>6, <1>8, <2>1 DEF ScanInv
<1> QED  BY <1>7, <1>8

\* The light of a block that was seen.
LEMMA PixelLit ==
  ASSUME ScanInv, LightInv, [Next]_allVars, pc = "scanning", y >= 0,
         NEW new \in Layers, Begun(new, y - 1), GoDownWithLight(new)
  PROVE  ScanInv'
<1> DEFINE lit == [new EXCEPT !.block_light = get_block_light(x, new.top_height, z)]
<1>1. get_block_light(x, new.top_height, z) \in Nat
  <2>1. x \in Places /\ z \in Places /\ new.top_height \in Heights
    BY DEF ScanInv, InScan, Places, Layers
  <2> QED  BY <2>1, LightIsNumber
<1>2. lit \in Layers /\ Begun(lit, y - 1)  BY <1>1 DEF Layers, Begun
<1>3. Set(lit) /\ GoDown  BY DEF GoDownWithLight
<1> HIDE DEF lit
<1> QED  BY <1>2, <1>3, PixelSet

LEMMA ColorsTyped == \A block \in DOMAIN Colors : Colors[block] \in AllColors
  BY ColorsAssumption DEF AllColors, None

LEMMA ScanFirst ==
  ASSUME ScanInv, LightInv, [Next]_allVars, pc = "scanning", y >= 0, NEW block, SeeFirst(block)
  PROVE  ScanInv'
<1> DEFINE color == Colors[block]
           top == [pixel EXCEPT !.fg_color = color, !.top_height = y, !.flags = @ \cup Tint(block),
                                !.top_biome = get_biome(x, y, z)]
           ground == [top EXCEPT !.mid_color = color, !.mid_height = y,
                                 !.bg_color = color, !.opaque_height = y]
           clear == [top EXCEPT !.flags = @ \cup {"IS_TRANSPARENT"}]
<1>1. /\ pixel \in Layers /\ Begun(pixel, y) /\ y \in Heights /\ y \in Int /\ color \in AllColors
      /\ pixel.fg_color = None
  BY ColorsTyped DEF SeeFirst, ScanInv, InScan, Pixels, pixel, Heights
<1>2. get_biome(x, y, z) \in BiomesThere /\ Tint(block) \subseteq {"BIOME_OVERRIDDEN"}
  BY <1>1 DEF BiomesThere, ScanInv, InScan, Tint
<1> HIDE DEF color
<1>3. top \in Layers /\ top.top_height = y /\ top.mid_height = 0 /\ top.opaque_height = 0
  BY <1>1, <1>2 DEF Layers, Begun
<1>4. ground \in Layers /\ Left(ground)
  <2> HIDE DEF top
  <2>1. ground \in Layers  BY <1>1, <1>3 DEF Layers
  <2>2. ground.opaque_height = y /\ ground.mid_height = y /\ ground.top_height = y
    BY <1>3 DEF Layers
  <2> QED  BY <1>1, <2>1, <2>2 DEF Left
<1>5. clear \in Layers /\ Begun(clear, y - 1)
  <2>1. clear \in Layers /\ clear.top_height = y /\ clear.mid_height = 0 /\ clear.opaque_height = 0
    <3> HIDE DEF top
    <3> QED  BY <1>3 DEF Layers
  <2>2. 0 <= y  OBVIOUS
  <2> QED  BY <1>1, <2>1, <2>2 DEF Begun
<1>6. \/ Set(ground) /\ pc' = "leaving" /\ UNCHANGED <<x, z, y>>
      \/ GoDownWithLight(clear)
  BY DEF SeeFirst, Leave, color
<1> HIDE DEF ground, clear
<1> QED  BY <1>4, <1>5, <1>6, PixelSet, PixelLit

LEMMA ScanSecond ==
  ASSUME ScanInv, LightInv, [Next]_allVars, pc = "scanning", y >= 0, NEW block, SeeSecond(block)
  PROVE  ScanInv'
<1> DEFINE color == Colors[block]
           second == [pixel EXCEPT !.mid_color = color, !.mid_height = y]
           ground == [second EXCEPT !.bg_color = color, !.opaque_height = y]
<1>1. /\ pixel \in Layers /\ Begun(pixel, y) /\ y \in Heights /\ y \in Int /\ color \in AllColors
      /\ pixel.fg_color # None
  BY ColorsTyped DEF SeeSecond, ScanInv, InScan, Pixels, pixel, Heights
<1> HIDE DEF color
<1>2. pixel.top_height > y /\ pixel.top_height \in Int /\ pixel.opaque_height = 0
  BY <1>1 DEF Begun, Layers, Heights
<1>3. /\ second \in Layers /\ second.mid_height = y /\ second.opaque_height = 0
      /\ second.top_height = pixel.top_height /\ second.fg_color # None
  BY <1>1, <1>2 DEF Layers
<1>4. ground \in Layers /\ Left(ground)
  <2> HIDE DEF second
  <2>1. ground \in Layers  BY <1>1, <1>3 DEF Layers
  <2>2. ground.opaque_height = y /\ ground.mid_height = y /\ ground.top_height = pixel.top_height
    BY <1>3 DEF Layers
  <2> QED  BY <1>1, <1>2, <2>1, <2>2 DEF Left
<1>5. Begun(second, y - 1)
  <2> HIDE DEF second
  <2> QED  BY <1>1, <1>2, <1>3 DEF Begun
<1>6. \/ Set(ground) /\ pc' = "leaving" /\ UNCHANGED <<x, z, y>>
      \/ GoDownWithLight(second)
  BY DEF SeeSecond, Leave, color
<1> HIDE DEF ground, second
<1> QED  BY <1>3, <1>4, <1>5, <1>6, PixelSet, PixelLit

LEMMA ScanMore ==
  ASSUME ScanInv, LightInv, [Next]_allVars, pc = "scanning", y >= 0, NEW block, SeeMore(block)
  PROVE  ScanInv'
<1> DEFINE color == Blend(pixel.bg_color, Colors[block])
           more == [pixel EXCEPT !.bg_color = color]
           ground == [more EXCEPT !.opaque_height = y]
<1>1. /\ pixel \in Layers /\ Begun(pixel, y) /\ y \in Heights /\ y \in Int
      /\ pixel.fg_color # None /\ Colors[block] \in AllColors
  BY ColorsTyped DEF SeeMore, ScanInv, InScan, Pixels, pixel, Heights
<1>2. color \in AllColors
  <2>1. /\ pixel.bg_color \in AllColors /\ Full \in 0..Full
        /\ pixel.bg_color.tone <= Full /\ Colors[block].tone <= Full
    BY <1>1, ColorsAssumption DEF Layers, AllColors
  <2> QED  BY <1>1, <2>1, Blended
<1> HIDE DEF color
<1>3. pixel.top_height > y /\ pixel.top_height \in Int /\ pixel.opaque_height = 0
  BY <1>1 DEF Begun, Layers, Heights
<1>4. /\ more \in Layers /\ more.mid_height = pixel.mid_height /\ more.opaque_height = 0
      /\ more.top_height = pixel.top_height /\ more.fg_color # None
  BY <1>1, <1>2, <1>3 DEF Layers
<1>5. ground \in Layers /\ Left(ground)
  <2>1. pixel.mid_height <= pixel.top_height  BY <1>1 DEF Begun
  <2> HIDE DEF more
  <2> QED  BY <1>1, <1>3, <1>4, <2>1 DEF Layers, Left
<1>6. Begun(more, y - 1)
  <2>1. pixel.mid_height <= pixel.top_height  BY <1>1 DEF Begun
  <2> HIDE DEF more
  <2> QED  BY <1>1, <1>3, <1>4, <2>1 DEF Begun
<1>7. \/ Set(ground) /\ pc' = "leaving" /\ UNCHANGED <<x, z, y>>
      \/ GoDownWithLight(more)
  BY DEF SeeMore, Leave, color
<1> HIDE DEF ground, more
<1> QED  BY <1>4, <1>5, <1>6, <1>7, PixelSet, PixelLit

\* What is not looked at, and a block that is not known.
LEMMA ScanOn ==
  ASSUME ScanInv, LightInv, [Next]_allVars, pc = "scanning", y >= 0, NEW block,
         SeeAir(block) \/ PassOver(block) \/ SeeUnknown(block)
  PROVE  ScanInv'
<1>1. pixel \in Layers /\ Begun(pixel, y) /\ y \in Int /\ pixels \in [Pixels -> Layers]
  BY DEF ScanInv, InScan, Pixels, pixel, Heights
<1>2. Begun(pixel, y - 1)
  <2>1. pixel.top_height \in Int  BY <1>1 DEF Layers, Heights
  <2> QED  BY <1>1, <2>1 DEF Begun
<1>3. (Set(pixel) /\ GoDown) \/ GoDownWithLight(pixel)
  <2>1. pixels = [pixels EXCEPT ![<<x, z>>] = pixels[<<x, z>>]]  BY <1>1
  <2> QED  BY <2>1 DEF SeeAir, PassOver, SeeUnknown, Set, pixel
<1> QED  BY <1>1, <1>2, <1>3, PixelSet, PixelLit

LEMMA ScanBegin ==
  ASSUME ScanInv, [Next]_allVars, Begin
  PROVE  ScanInv'
<1>1. /\ pc = "idle" /\ pc' = "scanning" /\ y' = MaxY /\ UNCHANGED <<x, z, pixels>>
  BY DEF Begin
<1>2. x = 0 /\ z = 0 /\ \A p \in Pixels : pixels[p] = Blank  BY <1>1 DEF ScanInv
<1>3. 0 \in Places /\ \A p \in Pixels : ~Behind(p)'
  BY <1>1, <1>2, SizesAssumption DEF Behind, Pixels, Places
<1>4. InScan'  BY <1>1, <1>2, <1>3, MaxYIsHeight DEF InScan
<1>5. pixel' = Blank /\ Begun(Blank, y')
  BY <1>1, <1>2, <1>3, BlankIsLayers, MaxYIsHeight DEF pixel, Pixels
<1> QED  BY <1>1, <1>4, <1>5, LayersKept DEF ScanInv

LEMMA ScanBottom ==
  ASSUME ScanInv, [Next]_allVars, Bottom
  PROVE  ScanInv'
<1>1. /\ pc = "scanning" /\ pc' = "leaving" /\ UNCHANGED <<x, z, y, pixels>>
  BY DEF Bottom, locals
<1>2. InScan' = InScan /\ pixel' = pixel  BY <1>1 DEF InScan, Behind, Ahead, pixel
<1>3. Left(pixel)
  <2>1. Begun(pixel, y) /\ pixel \in Layers  BY <1>1 DEF ScanInv, InScan, Pixels, pixel
  <2>2. pixel.top_height \in Nat  BY <2>1, HeightsOfSections DEF Layers
  <2> QED  BY <2>1, <2>2 DEF Begun, Left
<1> QED  BY <1>1, <1>2, <1>3, LayersKept DEF ScanInv

\* A column is finished, and the next one is begun.
LEMMA ScanFinish ==
  ASSUME ScanInv, [Next]_allVars, Finish
  PROVE  ScanInv'
<1> DEFINE one == pixel.top_height = pixel.opaque_height
           second == pixel.mid_height = pixel.opaque_height
           new == [pixel EXCEPT !.bg_color.alpha = Full,
                                !.fg_color = IF one THEN None ELSE @,
                                !.mid_color = IF one \/ second THEN None ELSE @]
<1>1. /\ pc = "leaving" /\ Set(new) /\ y' = MaxY
      /\ x' = (x + 1) % Width /\ z' = (IF x' = 0 THEN z + 1 ELSE z)
      /\ pc' = IF z' = Width THEN "scanned" ELSE "scanning"
  BY DEF Finish
<1>2. /\ InScan /\ Left(pixel) /\ pixel \in Layers /\ x \in Places /\ z \in Places
      /\ <<x, z>> \in Pixels /\ Width \in Nat \ {0, 1}
  BY <1>1, SizesAssumption DEF ScanInv, InScan, Pixels, pixel
<1>3. new \in Layers /\ Final(new)
  <2>1. None \in AllColors /\ [pixel.bg_color EXCEPT !.alpha = Full] \in AllColors
    BY <1>2, ColorsAssumption DEF None, AllColors, Layers
  <2>2. new = [pixel EXCEPT !.bg_color = [pixel.bg_color EXCEPT !.alpha = Full],
                            !.fg_color = IF one THEN None ELSE @,
                            !.mid_color = IF one \/ second THEN None ELSE @]
    BY <1>2 DEF Layers
  <2>3. new \in Layers  BY <1>2, <2>1, <2>2 DEF Layers
  <2>4. /\ new.top_height = pixel.top_height /\ new.mid_height = pixel.mid_height
        /\ new.opaque_height = pixel.opaque_height
        /\ new.bg_color = [pixel.bg_color EXCEPT !.alpha = Full]
        /\ one => new.fg_color = None /\ new.mid_color = None
    BY <1>2, <2>2 DEF Layers
  <2>5. [pixel.bg_color EXCEPT !.alpha = Full].alpha = Full
    BY <1>2 DEF Layers, AllColors
  <2> HIDE DEF new
  <2> QED  BY <1>2, <2>3, <2>4, <2>5 DEF Left, Final
<1> HIDE DEF new
<1>4. /\ pixels' \in [Pixels -> Layers] /\ pixels'[<<x, z>>] = new
      /\ \A p \in Pixels : p # <<x, z>> => pixels'[p] = pixels[p]
  BY <1>1, <1>2, <1>3 DEF Set, ScanInv
<1>5. \/ x + 1 < Width /\ x' = x + 1 /\ z' = z
      \/ x + 1 = Width /\ x' = 0 /\ z' = z + 1
  BY <1>1, <1>2 DEF Places
<1>6. \A p \in Pixels : Behind(p)' => p = <<x, z>> \/ Behind(p)
  <2> SUFFICES ASSUME NEW a \in Places, NEW b \in Places, Behind(<<a, b>>)'
               PROVE  <<a, b>> = <<x, z>> \/ Behind(<<a, b>>)
    BY DEF Pixels
  <2> QED  BY <1>2, <1>5 DEF Behind, Places
<1>7. \A p \in Pixels : ~Behind(p)' => p # <<x, z>> /\ Ahead(p)
  <2> SUFFICES ASSUME NEW a \in Places, NEW b \in Places, ~Behind(<<a, b>>)'
               PROVE  <<a, b>> # <<x, z>> /\ Ahead(<<a, b>>)
    BY DEF Pixels
  <2> QED  BY <1>2, <1>5 DEF Behind, Ahead, Places
<1>8. \A p \in Pixels : Behind(p)' => Final(pixels'[p])
  BY <1>2, <1>3, <1>4, <1>6 DEF InScan
<1>9. CASE z' = Width
  <2>1. \A p \in Pixels : Behind(p)'  BY <1>2, <1>9 DEF Behind, Pixels, Places
  <2> QED  BY <1>1, <1>4, <1>8, <1>9, <2>1, LayersKept DEF ScanInv
<1>10. CASE z' # Width
  <2>1. x' \in Places /\ z' \in Places  BY <1>2, <1>5, <1>10 DEF Places
  <2>2. \A p \in Pixels : ~Behind(p)' => pixels'[p] = Blank
    BY <1>2, <1>4, <1>7 DEF InScan
  <2>3. \A p \in Pixels : Ahead(p)' => ~Behind(p)'
    BY <2>1 DEF Ahead, Behind, Pixels, Places
  <2>4. InScan'  BY <1>1, <1>8, <2>1, <2>2, <2>3, MaxYIsHeight DEF InScan
  <2>5. pixel' = Blank
    <3>1. PICK a \in Places, b \in Places : a = x' /\ b = z'  BY <2>1
    <3>2. <<a, b>> \in Pixels /\ ~Behind(<<a, b>>)'  BY <3>1 DEF Pixels, Behind, Places
    <3> QED  BY <2>2, <3>1, <3>2 DEF pixel
  <2>6. Begun(pixel', y')  BY <1>1, <2>5, BlankIsLayers, MaxYIsHeight
  <2> QED  BY <1>1, <1>4, <1>10, <2>4, <2>6, LayersKept DEF ScanInv
<1> QED  BY <1>9, <1>10

-----------------------------------------------------------------------------
(* The pixels are shaded. *)

\* The loops change tones of the ground, and nothing else.
LEMMA FinalKept ==
  ASSUME NEW found \in Layers, Final(found), NEW color \in AllColors,
         color.alpha = found.bg_color.alpha
  PROVE  LET new == [found EXCEPT !.bg_color = color] IN
         /\ new \in Layers /\ Final(new)
         /\ new.bg_color = color /\ new.opaque_height = found.opaque_height
         /\ new.block_light = found.block_light
<1> DEFINE new == [found EXCEPT !.bg_color = color]
<1>1. /\ new \in Layers /\ new.bg_color = color /\ new.opaque_height = found.opaque_height
      /\ new.top_height = found.top_height /\ new.mid_height = found.mid_height
      /\ new.fg_color = found.fg_color /\ new.mid_color = found.mid_color
      /\ new.block_light = found.block_light
  BY DEF Layers
<1> HIDE DEF new
<1>2. Final(new)  BY <1>1 DEF Final, Left
<1> QED  BY <1>1, <1>2 DEF new

\* Shading one pixel.
LEMMA Shaded ==
  ASSUME NEW states \in [Pixels -> Layers], \A p \in Pixels : Final(states[p]),
         NEW q \in Pixels, NEW amount \in Int
  PROVE  LET new == Shade(states, q, amount) IN
         /\ new \in [Pixels -> Layers]
         /\ \A p \in Pixels : /\ Final(new[p]) /\ new[p].opaque_height = states[p].opaque_height
                              /\ new[p].block_light = states[p].block_light
                              /\ p # q => new[p] = states[p]
         /\ new[q].bg_color = increase_brightness(states[q].bg_color, amount)
<1> DEFINE color == increase_brightness(states[q].bg_color, amount)
           found == [states[q] EXCEPT !.bg_color = color]
           new == Shade(states, q, amount)
<1>1. color \in AllColors /\ color.alpha = states[q].bg_color.alpha
  <2>1. states[q].bg_color \in AllColors  BY DEF Layers
  <2> QED  BY <2>1, Brightened
<1> HIDE DEF color
<1>2. /\ found \in Layers /\ Final(found) /\ found.bg_color = color
      /\ found.opaque_height = states[q].opaque_height /\ found.block_light = states[q].block_light
  BY <1>1, FinalKept
<1>3. new = [states EXCEPT ![q] = found]
  BY DEF Shade, color
<1> HIDE DEF found, new
<1>4. new \in [Pixels -> Layers] /\ new[q] = found /\ \A p \in Pixels : p # q => new[p] = states[p]
  BY <1>2, <1>3
<1> QED  BY <1>2, <1>4 DEF color, new

\* The colour of the ground when its biome has tinted it; after the rows; and after the columns.
Tint1(p) ==
  LET was == scanned[p] IN
  IF "BIOME_OVERRIDDEN" \in was.flags /\ was.fg_color = None
  THEN Tinted(was.bg_color, was.top_biome) ELSE was.bg_color
Tint2(p) == increase_brightness(Tint1(p), XToneChangeRatio * RiseX(p))
Tint3(p) == increase_brightness(Tint2(p), ZToneChangeRatio * RiseZ(p))

\* The pixels that the loops have passed.
RowPassed(p) == p[2] < z \/ (p[2] = z /\ p[1] < x /\ x >= 2)
ColumnPassed(p) == (p[2] < z /\ z >= 2) \/ (p[2] <= z /\ p[1] < x)

ShadeInv ==
  /\ pc = "rows" =>
       /\ x \in 1..Width /\ z \in 0..Width
       /\ \A p \in Pixels : pixels[p].bg_color = IF RowPassed(p) THEN Tint2(p) ELSE Tint1(p)
  /\ pc = "columns" =>
       /\ x \in 0..Width /\ z \in 1..Width
       /\ \A p \in Pixels : pixels[p].bg_color = IF ColumnPassed(p) THEN Tint3(p) ELSE Tint2(p)
  /\ pc \in {"rows", "columns"} =>
       \A p \in Pixels : pixels[p].block_light = scanned[p].block_light
  /\ pc \in {"drawing", "drawn"} => \A p \in Pixels : pixels[p].bg_color = Relief(p)
  /\ pc = "drawn" => image = [p \in Pixels |-> Drawn(pixels[p])]

\* What the inclinations are worked out from stays as it is.
LEMMA RisesKept ==
  ASSUME \A p \in Pixels : pixels'[p].opaque_height = pixels[p].opaque_height, scanned' = scanned,
         NEW p \in Pixels
  PROVE  /\ RiseX(p)' = RiseX(p) /\ RiseZ(p)' = RiseZ(p) /\ Tint1(p)' = Tint1(p)
         /\ Tint2(p)' = Tint2(p) /\ Tint3(p)' = Tint3(p)
<1>1. PICK a \in Places, b \in Places : p = <<a, b>>  BY DEF Pixels
<1>2. \A q, r \in Pixels : Slope(q, r)' = Slope(q, r)  BY DEF Slope
<1>3. /\ <<1, b>> \in Pixels /\ <<a, 1>> \in Pixels
      /\ a # 0 => <<a - 1, b>> \in Pixels
      /\ b # 0 => <<a, b - 1>> \in Pixels
  BY <1>1, SizesAssumption DEF Pixels, Places
<1>4. RiseX(p)' = RiseX(p) /\ RiseZ(p)' = RiseZ(p)
  BY <1>1, <1>2, <1>3 DEF RiseX, RiseZ, Rise
<1> QED  BY <1>4 DEF Tint1, Tint2, Tint3

LEMMA SlopeIsNumber == \A p, q : Slope(p, q) \in {-1, 0, 1}
  BY DEF Slope

LEMMA ShadeBegins ==
  ASSUME ScanInv, [Next]_allVars, HandleBiomes
  PROVE  ScanInv' /\ ShadeInv'
<1>1. /\ pc = "scanned" /\ pc' = "rows" /\ x' = 1 /\ z' = 0 /\ scanned' = pixels
      /\ \A p \in Pixels : Final(pixels[p])
  BY DEF HandleBiomes, ScanInv
<1> DEFINE over(p) == "BIOME_OVERRIDDEN" \in pixels[p].flags
           front(p) == [pixels[p] EXCEPT !.fg_color = Tinted(@, pixels[p].top_biome)]
           ground(p) == [pixels[p] EXCEPT !.bg_color = Tinted(@, pixels[p].top_biome)]
<1>2. pixels' = [p \in Pixels |->
                   IF ~over(p) THEN pixels[p]
                   ELSE IF pixels[p].fg_color # None THEN front(p) ELSE ground(p)]
  BY DEF HandleBiomes
<1>3. ASSUME NEW color \in AllColors, NEW biome
      PROVE  Tinted(color, biome) \in AllColors /\ Tinted(color, biome).alpha = color.alpha
  <2>1. CASE biome \in DOMAIN Overrides
    <3>1. Overrides[biome] \in 0..Full /\ color.tone \in 0..Full /\ Full \in Nat
      BY <2>1, OverridesAssumption, ColorsAssumption DEF AllColors
    <3>2. (color.tone + Overrides[biome]) \div 2 \in 0..Full  BY <3>1
    <3> QED  BY <2>1, <3>2 DEF Tinted, Mix, AllColors
  <2>2. CASE biome \notin DOMAIN Overrides  BY <2>2 DEF Tinted
  <2> QED  BY <2>1, <2>2
<1>4. ASSUME NEW p \in Pixels
      PROVE  /\ pixels'[p] \in Layers /\ Final(pixels'[p])
             /\ pixels'[p].opaque_height = pixels[p].opaque_height
             /\ pixels'[p].block_light = pixels[p].block_light
             /\ pixels'[p].bg_color = IF over(p) /\ pixels[p].fg_color = None
                                      THEN Tinted(pixels[p].bg_color, pixels[p].top_biome)
                                      ELSE pixels[p].bg_color
  <2>1. pixels[p] \in Layers /\ Final(pixels[p])  BY <1>1 DEF ScanInv
  <2>2. CASE ~over(p)  BY <1>2, <2>1, <2>2
  <2>3. CASE over(p) /\ pixels[p].fg_color # None
    <3>1. pixels'[p] = front(p)  BY <1>2, <2>3
    <3> DEFINE color == Tinted(pixels[p].fg_color, pixels[p].top_biome)
    <3>2. color \in AllColors  BY <1>3, <2>1 DEF Layers
    <3>3. front(p) = [pixels[p] EXCEPT !.fg_color = color]  BY <2>1 DEF Layers
    <3> HIDE DEF color, front
    <3>4. /\ front(p) \in Layers /\ front(p).top_height = pixels[p].top_height
          /\ front(p).mid_height = pixels[p].mid_height
          /\ front(p).opaque_height = pixels[p].opaque_height
          /\ front(p).bg_color = pixels[p].bg_color /\ front(p).block_light = pixels[p].block_light
      BY <2>1, <3>2, <3>3 DEF Layers
    <3> QED  BY <2>1, <2>3, <3>1, <3>4 DEF Final, Left
  <2>4. CASE over(p) /\ pixels[p].fg_color = None
    <3>1. pixels'[p] = ground(p)  BY <1>2, <2>4
    <3> DEFINE color == Tinted(pixels[p].bg_color, pixels[p].top_biome)
    <3>2. color \in AllColors /\ color.alpha = pixels[p].bg_color.alpha  BY <1>3, <2>1 DEF Layers
    <3>3. ground(p) = [pixels[p] EXCEPT !.bg_color = color]  BY <2>1 DEF Layers
    <3> HIDE DEF color, ground
    <3>4. /\ ground(p) \in Layers /\ Final(ground(p)) /\ ground(p).bg_color = color
          /\ ground(p).opaque_height = pixels[p].opaque_height
          /\ ground(p).block_light = pixels[p].block_light
      BY <2>1, <3>2, <3>3, FinalKept
    <3> QED  BY <2>4, <3>1, <3>4 DEF color
  <2> QED  BY <2>2, <2>3, <2>4
<1>5. pixels' \in [Pixels -> Layers]
  <2>1. DOMAIN pixels' = Pixels /\ pixels' = [p \in Pixels |-> pixels'[p]]  BY <1>2
  <2> QED  BY <1>4, <2>1
<1>6. ScanInv'  BY <1>1, <1>4, <1>5, LayersKept DEF ScanInv
<1>7. \A p \in Pixels : ~RowPassed(p)'
  BY <1>1 DEF RowPassed, Pixels, Places
<1>8. \A p \in Pixels : pixels'[p].bg_color = Tint1(p)'
  BY <1>1, <1>4 DEF Tint1
<1>9. 1 \in 1..Width /\ 0 \in 0..Width  BY SizesAssumption
<1> HIDE DEF over, front, ground
<1> QED  BY <1>1, <1>4, <1>6, <1>7, <1>8, <1>9 DEF ShadeInv

\* A pixel beside its left neighbour, and with the first of them the neighbour.
LEMMA RowStep ==
  ASSUME ScanInv, ShadeInv, [Next]_allVars, InclineRow
  PROVE  ScanInv' /\ ShadeInv'
<1> DEFINE left == <<x - 1, z>>
           cur == <<x, z>>
           amount == XToneChangeRatio * Slope(left, cur)
           first == IF x = 1 THEN Shade(pixels, left, amount) ELSE pixels
<1>1. /\ pc = "rows" /\ pc' = "rows" /\ x < Width /\ z < Width /\ x' = x + 1 /\ z' = z
      /\ scanned' = scanned /\ pixels' = Shade(first, cur, amount)
  BY DEF InclineRow, pixelVars
<1>2. /\ x \in 1..(Width - 1) /\ z \in Places /\ Width \in Nat /\ left \in Pixels /\ cur \in Pixels
      /\ left # cur /\ amount \in Int /\ pixels \in [Pixels -> Layers]
      /\ \A p \in Pixels : Final(pixels[p])
  <2>1. /\ x \in 1..(Width - 1) /\ z \in Places /\ Width \in Nat
    BY <1>1, SizesAssumption DEF ShadeInv, Places
  <2>2. Slope(left, cur) \in Int  BY SlopeIsNumber
  <2> QED  BY <1>1, <2>1, <2>2 DEF ScanInv, Pixels, Places, XToneChangeRatio
<1>3. RiseX(cur) = Slope(left, cur) /\ (x = 1 => RiseX(left) = Slope(left, cur))
  BY <1>2 DEF RiseX, Rise
<1>4. /\ first \in [Pixels -> Layers] /\ \A p \in Pixels : Final(first[p])
      /\ \A p \in Pixels : /\ first[p].opaque_height = pixels[p].opaque_height
                           /\ first[p].block_light = pixels[p].block_light
                           /\ p # left \/ x # 1 => first[p] = pixels[p]
      /\ x = 1 => first[left].bg_color = increase_brightness(pixels[left].bg_color, amount)
  <2> HIDE DEF left, amount
  <2>1. CASE x = 1  BY <1>2, <2>1, Shaded
  <2>2. CASE x # 1  BY <1>2, <2>2
  <2> QED  BY <2>1, <2>2
<1>5. /\ pixels' \in [Pixels -> Layers] /\ \A p \in Pixels : Final(pixels'[p])
      /\ \A p \in Pixels : /\ pixels'[p].opaque_height = first[p].opaque_height
                           /\ pixels'[p].block_light = first[p].block_light
                           /\ p # cur => pixels'[p] = first[p]
      /\ pixels'[cur].bg_color = increase_brightness(first[cur].bg_color, amount)
  <2> HIDE DEF first, cur, amount
  <2> QED  BY <1>1, <1>2, <1>4, Shaded
<1>6. \A p \in Pixels : Tint1(p)' = Tint1(p) /\ Tint2(p)' = Tint2(p)
  BY <1>1, <1>4, <1>5, RisesKept
<1>7. /\ \A p \in Pixels : RowPassed(p)' <=> RowPassed(p) \/ p = cur \/ (x = 1 /\ p = left)
      /\ ~RowPassed(cur) /\ (x = 1 => ~RowPassed(left))
  <2>1. ASSUME NEW a \in Places, NEW b \in Places
        PROVE  RowPassed(<<a, b>>)' <=> RowPassed(<<a, b>>) \/ <<a, b>> = cur \/ (x = 1 /\ <<a, b>> = left)
    BY <1>1, <1>2 DEF RowPassed, Places
  <2>2. ~RowPassed(cur) /\ (x = 1 => ~RowPassed(left))  BY <1>2 DEF RowPassed, Places
  <2> HIDE DEF cur, left
  <2>3. ASSUME NEW p \in Pixels
        PROVE  RowPassed(p)' <=> RowPassed(p) \/ p = cur \/ (x = 1 /\ p = left)
    <3>1. PICK a \in Places, b \in Places : p = <<a, b>>  BY DEF Pixels
    <3> QED  BY <2>1, <3>1
  <2> QED  BY <2>2, <2>3
<1>8. ASSUME NEW p \in Pixels
      PROVE  pixels'[p].bg_color = IF RowPassed(p)' THEN Tint2(p)' ELSE Tint1(p)'
  <2>1. pixels[p].bg_color = IF RowPassed(p) THEN Tint2(p) ELSE Tint1(p)  BY <1>1 DEF ShadeInv
  <2>2. /\ p = cur => Tint2(p) = increase_brightness(Tint1(p), amount)
        /\ x = 1 /\ p = left => Tint2(p) = increase_brightness(Tint1(p), amount)
    BY <1>3 DEF Tint2
  <2> HIDE DEF amount, first, cur, left
  <2>3. CASE p = cur  BY <1>2, <1>4, <1>5, <1>6, <1>7, <2>1, <2>2, <2>3
  <2>4. CASE p # cur /\ x = 1 /\ p = left  BY <1>4, <1>5, <1>6, <1>7, <2>1, <2>2, <2>4
  <2>5. CASE p # cur /\ ~(x = 1 /\ p = left)  BY <1>4, <1>5, <1>6, <1>7, <2>1, <2>5
  <2> QED  BY <2>3, <2>4, <2>5
<1>9. \A p \in Pixels : pixels'[p].block_light = scanned'[p].block_light
  BY <1>1, <1>4, <1>5 DEF ShadeInv
<1>10. ScanInv'  BY <1>1, <1>5, LayersKept DEF ScanInv
<1>11. x' \in 1..Width /\ z' \in 0..Width  BY <1>1, <1>2 DEF Places
<1> QED  BY <1>1, <1>8, <1>9, <1>10, <1>11 DEF ShadeInv

\* A pixel beside its upper neighbour, and with the first of them the neighbour.
LEMMA ColumnStep ==
  ASSUME ScanInv, ShadeInv, [Next]_allVars, InclineColumn
  PROVE  ScanInv' /\ ShadeInv'
<1> DEFINE upper == <<x, z - 1>>
           cur == <<x, z>>
           amount == ZToneChangeRatio * Slope(upper, cur)
           first == IF z = 1 THEN Shade(pixels, upper, amount) ELSE pixels
<1>1. /\ pc = "columns" /\ pc' = "columns" /\ x < Width /\ z < Width /\ x' = x + 1 /\ z' = z
      /\ scanned' = scanned /\ pixels' = Shade(first, cur, amount)
  BY DEF InclineColumn, pixelVars
<1>2. /\ x \in Places /\ z \in 1..(Width - 1) /\ Width \in Nat /\ upper \in Pixels /\ cur \in Pixels
      /\ upper # cur /\ amount \in Int /\ pixels \in [Pixels -> Layers]
      /\ \A p \in Pixels : Final(pixels[p])
  <2>1. /\ x \in Places /\ z \in 1..(Width - 1) /\ Width \in Nat
    BY <1>1, SizesAssumption DEF ShadeInv, Places
  <2>2. Slope(upper, cur) \in Int  BY SlopeIsNumber
  <2> QED  BY <1>1, <2>1, <2>2 DEF ScanInv, Pixels, Places, ZToneChangeRatio
<1>3. RiseZ(cur) = Slope(upper, cur) /\ (z = 1 => RiseZ(upper) = Slope(upper, cur))
  BY <1>2 DEF RiseZ, Rise
<1>4. /\ first \in [Pixels -> Layers] /\ \A p \in Pixels : Final(first[p])
      /\ \A p \in Pixels : /\ first[p].opaque_height = pixels[p].opaque_height
                           /\ first[p].block_light = pixels[p].block_light
                           /\ p # upper \/ z # 1 => first[p] = pixels[p]
      /\ z = 1 => first[upper].bg_color = increase_brightness(pixels[upper].bg_color, amount)
  <2> HIDE DEF upper, amount
  <2>1. CASE z = 1  BY <1>2, <2>1, Shaded
  <2>2. CASE z # 1  BY <1>2, <2>2
  <2> QED  BY <2>1, <2>2
<1>5. /\ pixels' \in [Pixels -> Layers] /\ \A p \in Pixels : Final(pixels'[p])
      /\ \A p \in Pixels : /\ pixels'[p].opaque_height = first[p].opaque_height
                           /\ pixels'[p].block_light = first[p].block_light
                           /\ p # cur => pixels'[p] = first[p]
      /\ pixels'[cur].bg_color = increase_brightness(first[cur].bg_color, amount)
  <2> HIDE DEF first, cur, amount
  <2> QED  BY <1>1, <1>2, <1>4, Shaded
<1>6. \A p \in Pixels : Tint2(p)' = Tint2(p) /\ Tint3(p)' = Tint3(p)
  BY <1>1, <1>4, <1>5, RisesKept
<1>7. /\ \A p \in Pixels : ColumnPassed(p)' <=> ColumnPassed(p) \/ p = cur \/ (z = 1 /\ p = upper)
      /\ ~ColumnPassed(cur) /\ (z = 1 => ~ColumnPassed(upper))
  <2>1. ASSUME NEW a \in Places, NEW b \in Places
        PROVE  ColumnPassed(<<a, b>>)' <=> ColumnPassed(<<a, b>>) \/ <<a, b>> = cur \/ (z = 1 /\ <<a, b>> = upper)
    BY <1>1, <1>2 DEF ColumnPassed, Places
  <2>2. ~ColumnPassed(cur) /\ (z = 1 => ~ColumnPassed(upper))  BY <1>2 DEF ColumnPassed, Places
  <2> HIDE DEF cur, upper
  <2>3. ASSUME NEW p \in Pixels
        PROVE  ColumnPassed(p)' <=> ColumnPassed(p) \/ p = cur \/ (z = 1 /\ p = upper)
    <3>1. PICK a \in Places, b \in Places : p = <<a, b>>  BY DEF Pixels
    <3> QED  BY <2>1, <3>1
  <2> QED  BY <2>2, <2>3
<1>8. ASSUME NEW p \in Pixels
      PROVE  pixels'[p].bg_color = IF ColumnPassed(p)' THEN Tint3(p)' ELSE Tint2(p)'
  <2>1. pixels[p].bg_color = IF ColumnPassed(p) THEN Tint3(p) ELSE Tint2(p)  BY <1>1 DEF ShadeInv
  <2>2. /\ p = cur => Tint3(p) = increase_brightness(Tint2(p), amount)
        /\ z = 1 /\ p = upper => Tint3(p) = increase_brightness(Tint2(p), amount)
    BY <1>3 DEF Tint3
  <2> HIDE DEF amount, first, cur, upper
  <2>3. CASE p = cur  BY <1>2, <1>4, <1>5, <1>6, <1>7, <2>1, <2>2, <2>3
  <2>4. CASE p # cur /\ z = 1 /\ p = upper  BY <1>4, <1>5, <1>6, <1>7, <2>1, <2>2, <2>4
  <2>5. CASE p # cur /\ ~(z = 1 /\ p = upper)  BY <1>4, <1>5, <1>6, <1>7, <2>1, <2>5
  <2> QED  BY <2>3, <2>4, <2>5
<1>9. \A p \in Pixels : pixels'[p].block_light = scanned'[p].block_light
  BY <1>1, <1>4, <1>5 DEF ShadeInv
<1>10. ScanInv'  BY <1>1, <1>5, LayersKept DEF ScanInv
<1>11. x' \in 0..Width /\ z' \in 1..Width  BY <1>1, <1>2 DEF Places
<1> QED  BY <1>1, <1>8, <1>9, <1>10, <1>11 DEF ShadeInv

\* The end of a row of the loops, and of the first of them.
LEMMA RowEnds ==
  ASSUME ScanInv, ShadeInv, [Next]_allVars, NextRow \/ RowsDone \/ NextColumnRow
  PROVE  ScanInv' /\ ShadeInv'
<1>1. UNCHANGED <<pixels, scanned>>  BY DEF NextRow, RowsDone, NextColumnRow, pixelVars
<1>2. \A p \in Pixels : Tint1(p)' = Tint1(p) /\ Tint2(p)' = Tint2(p) /\ Tint3(p)' = Tint3(p)
  BY <1>1, RisesKept
<1>3. Width \in Nat \ {0, 1}  BY SizesAssumption
<1>4. ScanInv'
  <2>1. pc \in {"rows", "columns"} /\ pc' \in {"rows", "columns"}
    BY DEF NextRow, RowsDone, NextColumnRow
  <2> QED  BY <1>1, <2>1, LayersKept DEF ScanInv
<1>5. CASE NextRow
  <2>1. pc = "rows" /\ pc' = "rows" /\ z < Width /\ x >= Width /\ x' = 1 /\ z' = z + 1
    BY <1>5 DEF NextRow
  <2>2. x = Width /\ z \in Places  BY <1>3, <2>1 DEF ShadeInv, Places
  <2>3. ASSUME NEW a \in Places, NEW b \in Places
        PROVE  RowPassed(<<a, b>>)' <=> RowPassed(<<a, b>>)
    BY <1>3, <2>1, <2>2 DEF RowPassed, Places
  <2>4. \A p \in Pixels : RowPassed(p)' <=> RowPassed(p)
    <3> SUFFICES ASSUME NEW p \in Pixels PROVE RowPassed(p)' <=> RowPassed(p)  OBVIOUS
    <3>1. PICK a \in Places, b \in Places : p = <<a, b>>  BY DEF Pixels
    <3> QED  BY <2>3, <3>1
  <2>5. x' \in 1..Width /\ z' \in 0..Width  BY <1>3, <2>1, <2>2 DEF Places
  <2> QED  BY <1>1, <1>2, <1>4, <2>1, <2>4, <2>5 DEF ShadeInv
<1>6. CASE RowsDone
  <2>1. pc = "rows" /\ pc' = "columns" /\ z = Width /\ x' = 0 /\ z' = 1  BY <1>6 DEF RowsDone
  <2>2. \A p \in Pixels : RowPassed(p)  BY <1>3, <2>1 DEF RowPassed, Pixels, Places
  <2>3. \A p \in Pixels : ~ColumnPassed(p)'  BY <2>1 DEF ColumnPassed, Pixels, Places
  <2>4. x' \in 0..Width /\ z' \in 1..Width  BY <1>3, <2>1
  <2> QED  BY <1>1, <1>2, <1>4, <2>1, <2>2, <2>3, <2>4 DEF ShadeInv
<1>7. CASE NextColumnRow
  <2>1. pc = "columns" /\ pc' = "columns" /\ z < Width /\ x >= Width /\ x' = 0 /\ z' = z + 1
    BY <1>7 DEF NextColumnRow
  <2>2. x = Width /\ z \in 1..(Width - 1)  BY <1>3, <2>1 DEF ShadeInv
  <2>3. ASSUME NEW a \in Places, NEW b \in Places
        PROVE  ColumnPassed(<<a, b>>)' <=> ColumnPassed(<<a, b>>)
    BY <1>3, <2>1, <2>2 DEF ColumnPassed, Places
  <2>4. \A p \in Pixels : ColumnPassed(p)' <=> ColumnPassed(p)
    <3> SUFFICES ASSUME NEW p \in Pixels PROVE ColumnPassed(p)' <=> ColumnPassed(p)  OBVIOUS
    <3>1. PICK a \in Places, b \in Places : p = <<a, b>>  BY DEF Pixels
    <3> QED  BY <2>3, <3>1
  <2>5. x' \in 0..Width /\ z' \in 1..Width  BY <1>3, <2>1, <2>2
  <2> QED  BY <1>1, <1>2, <1>4, <2>1, <2>4, <2>5 DEF ShadeInv
<1> QED  BY <1>5, <1>6, <1>7

\* The light of blocks, of each pixel by itself.
LEMMA LightStepOfPixels ==
  ASSUME ScanInv, ShadeInv, [Next]_allVars, HandleBlockLight
  PROVE  ScanInv' /\ ShadeInv'
<1> DEFINE color(p) == increase_brightness(pixels[p].bg_color, pixels[p].block_light * 5)
<1>1. /\ pc = "columns" /\ pc' = "drawing" /\ z >= Width /\ scanned' = scanned
      /\ pixels' = [p \in Pixels |->
           [pixels[p] EXCEPT !.bg_color = increase_brightness(@, pixels[p].block_light * 5)]]
  BY DEF HandleBlockLight, pixelVars
<1>2. z = Width /\ Width \in Nat \ {0, 1}  BY <1>1, SizesAssumption DEF ShadeInv
<1>3. \A p \in Pixels : ColumnPassed(p)  BY <1>2 DEF ColumnPassed, Pixels, Places
<1>4. ASSUME NEW p \in Pixels
      PROVE  /\ pixels'[p] \in Layers /\ Final(pixels'[p])
             /\ pixels'[p].opaque_height = pixels[p].opaque_height
             /\ pixels'[p].bg_color = increase_brightness(Tint3(p), 5 * scanned[p].block_light)
  <2>1. /\ pixels[p] \in Layers /\ Final(pixels[p]) /\ pixels[p].bg_color \in AllColors
        /\ pixels[p].block_light \in Nat
    BY <1>1 DEF ScanInv, Layers
  <2>2. color(p) \in AllColors /\ color(p).alpha = pixels[p].bg_color.alpha
    <3>1. pixels[p].block_light * 5 \in Int  BY <2>1
    <3> QED  BY <2>1, <3>1, Brightened
  <2>3. pixels'[p] = [pixels[p] EXCEPT !.bg_color = color(p)]  BY <1>1
  <2>4. /\ pixels'[p] \in Layers /\ Final(pixels'[p]) /\ pixels'[p].bg_color = color(p)
        /\ pixels'[p].opaque_height = pixels[p].opaque_height
    <3> HIDE DEF color
    <3> QED  BY <2>1, <2>2, <2>3, FinalKept
  <2>5. pixels[p].bg_color = Tint3(p) /\ pixels[p].block_light = scanned[p].block_light
    BY <1>1, <1>3 DEF ShadeInv
  <2>6. pixels[p].block_light * 5 = 5 * pixels[p].block_light  BY <2>1
  <2> QED  BY <2>4, <2>5, <2>6
<1>5. pixels' \in [Pixels -> Layers]
  <2>1. DOMAIN pixels' = Pixels /\ pixels' = [p \in Pixels |-> pixels'[p]]  BY <1>1
  <2> QED  BY <1>4, <2>1
<1>6. ScanInv'  BY <1>1, <1>4, <1>5, LayersKept DEF ScanInv
<1>7. ASSUME NEW p \in Pixels
      PROVE  pixels'[p].bg_color = Relief(p)'
  <2>1. Tint3(p)' = Tint3(p)  BY <1>1, <1>4, RisesKept
  <2>2. Relief(p)' = increase_brightness(Tint3(p)', 5 * scanned'[p].block_light)
    BY DEF Relief, Tint1, Tint2, Tint3
  <2> QED  BY <1>1, <1>4, <2>1, <2>2
<1> HIDE DEF color
<1> QED  BY <1>1, <1>6, <1>7 DEF ShadeInv

\* The other steps: drawing, and those of the chunk and of the scan.
LEMMA StepsBefore ==
  ASSUME ScanInv, ShadeInv, LightInv, [Next]_allVars, Draw \/ ScanNext \/ UNCHANGED scanVars,
         Draw \/ UNCHANGED pixelVars
  PROVE  ScanInv' /\ ShadeInv'
<1>1. CASE Draw
  <2>1. /\ pc = "drawing" /\ pc' = "drawn" /\ UNCHANGED <<pixels, scanned>>
        /\ image' = [p \in Pixels |-> Drawn(pixels[p])]
    BY <1>1 DEF Draw
  <2>2. ScanInv'  BY <2>1, LayersKept DEF ScanInv
  <2>3. \A p \in Pixels : Relief(p)' = Relief(p)
    <3>1. \A p \in Pixels : Relief(p) = increase_brightness(Tint3(p), 5 * scanned[p].block_light)
      BY DEF Relief, Tint1, Tint2, Tint3
    <3>2. \A p \in Pixels : Relief(p)' = increase_brightness(Tint3(p)', 5 * scanned'[p].block_light)
      BY DEF Relief, Tint1, Tint2, Tint3
    <3> QED  BY <2>1, <3>1, <3>2, RisesKept
  <2>4. image' = [p \in Pixels |-> Drawn(pixels'[p])]  BY <2>1
  <2> QED  BY <2>1, <2>2, <2>3, <2>4 DEF ShadeInv
<1>2. CASE UNCHANGED scanVars /\ UNCHANGED pixelVars
  <2>1. UNCHANGED <<pc, x, z, y, pixels, image, scanned>>
    BY <1>2 DEF scanVars, locals, pixelVars
  <2>2. ScanInv'
    <3>1. InScan' = InScan /\ pixel' = pixel  BY <2>1 DEF InScan, Behind, Ahead, pixel
    <3> QED  BY <2>1, <3>1, LayersKept DEF ScanInv
  <2>3. ASSUME NEW p \in Pixels
        PROVE  /\ RowPassed(p)' = RowPassed(p) /\ ColumnPassed(p)' = ColumnPassed(p)
               /\ Relief(p)' = Relief(p) /\ Tint1(p)' = Tint1(p) /\ Tint2(p)' = Tint2(p)
               /\ Tint3(p)' = Tint3(p)
    <3>1. /\ Relief(p) = increase_brightness(Tint3(p), 5 * scanned[p].block_light)
          /\ Relief(p)' = increase_brightness(Tint3(p)', 5 * scanned'[p].block_light)
      BY DEF Relief, Tint1, Tint2, Tint3
    <3>2. Tint1(p)' = Tint1(p) /\ Tint2(p)' = Tint2(p) /\ Tint3(p)' = Tint3(p)
      BY <2>1, RisesKept
    <3> QED  BY <2>1, <3>1, <3>2 DEF RowPassed, ColumnPassed
  <2> QED  BY <2>1, <2>2, <2>3 DEF ShadeInv
<1>3. CASE ScanNext /\ UNCHANGED pixelVars
  <2>1. ScanInv'
    <3>1. CASE Begin  BY <3>1, ScanBegin
    <3>2. CASE Bottom  BY <3>2, ScanBottom
    <3>3. CASE Finish  BY <3>3, ScanFinish
    <3>4. ASSUME NEW block \in Blocks,
                 \/ SeeAir(block) \/ PassOver(block) \/ SeeUnknown(block)
                 \/ SeeFirst(block) \/ SeeSecond(block) \/ SeeMore(block)
          PROVE  ScanInv'
      <4>1. pc = "scanning" /\ y >= 0  BY DEF Blocks, InLoop
      <4> QED  BY <3>4, <4>1, ScanOn, ScanFirst, ScanSecond, ScanMore
    <3> QED  BY <1>3, <3>1, <3>2, <3>3, <3>4 DEF ScanNext
  <2>2. pc \in {"idle", "scanning", "leaving"} /\ pc' \in {"scanning", "leaving", "scanned"}
    BY <1>3 DEF ScanNext, Begin, Bottom, Finish, Blocks, InLoop, SeeAir, PassOver, SeeUnknown,
                SeeFirst, SeeSecond, SeeMore, GoDownWithLight, GoDown, Leave
  <2> QED  BY <2>1, <2>2 DEF ShadeInv
<1> QED  BY <1>1, <1>2, <1>3

LEMMA ShadeStep == ScanInv /\ ShadeInv /\ LightInv /\ [Next]_allVars => ScanInv' /\ ShadeInv'
<1> SUFFICES ASSUME ScanInv, ShadeInv, LightInv, [Next]_allVars PROVE ScanInv' /\ ShadeInv'
  OBVIOUS
<1>1. CASE PipelineNext
  BY <1>1, ShadeBegins, RowStep, RowEnds, ColumnStep, LightStepOfPixels, StepsBefore DEF PipelineNext
<1>2. CASE ScanNext /\ UNCHANGED pixelVars  BY <1>2, StepsBefore
<1>3. CASE UNCHANGED <<scanVars, pixelVars>>  BY <1>3, StepsBefore
<1> QED  BY <1>1, <1>2, <1>3 DEF Next, allVars, vars

\* The greatest of three numbers.
LEMMA OfThree ==
  ASSUME NEW a \in Nat, NEW b \in Nat, NEW c \in Nat
  PROVE  /\ Max({a, b, c}) \in {a, b, c}
         /\ Max({a, b, c}) >= a /\ Max({a, b, c}) >= b /\ Max({a, b, c}) >= c
<1>1. \E m \in {a, b, c} : \A n \in {a, b, c} : m >= n  OBVIOUS
<1> QED  BY <1>1 DEF Max

\* What is drawn of a column that is finished.
LEMMA DrawnOfFinal ==
  ASSUME NEW found \in Layers, Final(found)
  PROVE  /\ Drawn(found).alpha = Full
         /\ found.top_height = found.opaque_height => Drawn(found) = found.bg_color
         /\ Drawn(found).tone <= Max({found.fg_color.tone, found.mid_color.tone, found.bg_color.tone})
<1> DEFINE depth == (found.mid_height - found.top_height) * HeightToneRatio
           ground_depth == (found.opaque_height - found.top_height) * HeightToneRatio
           second == increase_brightness(found.mid_color, depth)
           ground == increase_brightness(found.bg_color, ground_depth)
           above == Blend(found.fg_color, second)
           most == Max({found.fg_color.tone, found.mid_color.tone, found.bg_color.tone})
<1>1. /\ found.fg_color \in AllColors /\ found.mid_color \in AllColors /\ found.bg_color \in AllColors
      /\ found.top_height \in Nat /\ found.mid_height \in Nat /\ found.opaque_height \in Nat
      /\ found.mid_height <= found.top_height /\ found.opaque_height <= found.top_height
      /\ found.bg_color.alpha = Full
  BY HeightsOfSections DEF Layers, Final, Left
<1>2. /\ depth \in Int /\ depth <= 0 /\ ground_depth \in Int /\ ground_depth <= 0
      /\ found.top_height = found.opaque_height => ground_depth = 0
  BY <1>1 DEF HeightToneRatio
<1>3. /\ most \in 0..Full /\ found.fg_color.tone <= most /\ found.mid_color.tone <= most
      /\ found.bg_color.tone <= most
  <2>1. /\ found.fg_color.tone \in 0..Full /\ found.mid_color.tone \in 0..Full
        /\ found.bg_color.tone \in 0..Full /\ Full \in Nat
    BY <1>1, ColorsAssumption DEF AllColors
  <2> DEFINE ft == found.fg_color.tone  mt == found.mid_color.tone  bt == found.bg_color.tone
  <2>2. ft \in Nat /\ mt \in Nat /\ bt \in Nat  BY <2>1
  <2>3. most \in {ft, mt, bt} /\ most >= ft /\ most >= mt /\ most >= bt
    <3> HIDE DEF ft, mt, bt
    <3>1. most = Max({ft, mt, bt})  BY DEF ft, mt, bt, most
    <3> QED  BY <2>2, <3>1, OfThree
  <2> HIDE DEF most
  <2> QED  BY <2>1, <2>3
<1> HIDE DEF depth, ground_depth, most
<1>4. /\ second \in AllColors /\ second.tone <= most
      /\ ground \in AllColors /\ ground.tone <= most /\ ground.alpha = Full
      /\ found.top_height = found.opaque_height => ground = found.bg_color
      /\ found.mid_color.tone = 0 => second = found.mid_color
  <2>1. /\ second \in AllColors /\ second.tone <= found.mid_color.tone
        /\ found.mid_color.tone = 0 => second = found.mid_color
    BY <1>1, <1>2, Brightened
  <2>2. /\ ground \in AllColors /\ ground.tone <= found.bg_color.tone /\ ground.alpha = Full
        /\ found.top_height = found.opaque_height => ground = found.bg_color
    BY <1>1, <1>2, Brightened
  <2> HIDE DEF second, ground
  <2>3. second.tone \in Int /\ ground.tone \in Int /\ found.mid_color.tone \in Int
        /\ found.bg_color.tone \in Int /\ most \in Int
    BY <1>1, <1>3, <2>1, <2>2, ColorsAssumption DEF AllColors
  <2> QED  BY <1>3, <2>1, <2>2, <2>3
<1>5. Drawn(found) = Blend(above, ground)
  BY DEF Drawn, above, second, ground, depth, ground_depth
<1> HIDE DEF second, ground
<1>6. above \in AllColors /\ above.tone <= most  BY <1>1, <1>3, <1>4, Blended
<1>7. ASSUME found.top_height = found.opaque_height
      PROVE  above = None
  <2>1. found.fg_color = None /\ found.mid_color = None  BY <1>7 DEF Final
  <2>2. second = None  BY <1>4, <2>1 DEF None
  <2>3. second.alpha = 0  BY <2>2 DEF None
  <2> QED  BY <2>1, <2>3 DEF Blend
<1> HIDE DEF above
<1>8. Blend(above, ground).alpha = Full /\ (above = None => Blend(above, ground) = ground)
  BY <1>4, <1>6, BlendedOnOpaque
<1>9. Blend(above, ground).tone <= most  BY <1>3, <1>4, <1>6, Blended
<1> QED  BY <1>4, <1>5, <1>7, <1>8, <1>9 DEF most

\* The pixels of a chunk are shaded each by itself, for every size of a chunk, every
\* document and every table of colours: ScanInv gives each column layers in their
\* order from the top, ShadeInv says how far each of the loops in place has come.
THEOREM PixelsShadedAlone == Spec => []PixelsAreShaded
<1>1. Init => KeptInv /\ LightInv /\ ScanInv /\ ShadeInv
  <2>1. Init => ShadeInv  BY DEF Init, ScanInit, ShadeInv
  <2> QED  BY <2>1, KeptInit, LightInit, ScanBegins
<1>2. (KeptInv /\ LightInv /\ ScanInv /\ ShadeInv) /\ [Next]_allVars
        => (KeptInv /\ LightInv /\ ScanInv /\ ShadeInv)'
  BY KeptStep, LightStep, ShadeStep
<1>3. KeptInv /\ LightInv /\ ScanInv /\ ShadeInv => PixelsAreShaded
  <2> SUFFICES ASSUME ScanInv, ShadeInv, pc = "drawn", NEW p \in Pixels
               PROVE  /\ pixels[p].bg_color = Relief(p)
                      /\ image[p].alpha = Full
                      /\ pixels[p].top_height = pixels[p].opaque_height =>
                           image[p] = pixels[p].bg_color
                      /\ image[p].tone <= Max({pixels[p].fg_color.tone, pixels[p].mid_color.tone,
                                               pixels[p].bg_color.tone})
    BY DEF PixelsAreShaded
  <2>1. pixels[p] \in Layers /\ Final(pixels[p])  BY DEF ScanInv
  <2>2. image[p] = Drawn(pixels[p]) /\ pixels[p].bg_color = Relief(p)  BY DEF ShadeInv
  <2> QED  BY <2>1, <2>2, DrawnOfFinal
<1> QED  BY <1>1, <1>2, <1>3, PTL DEF Spec

-----------------------------------------------------------------------------
(* The types of the variables. *)

\* get_biome() reads no further than its array goes.
LEMMA BiomeIsNumber ==
  ASSUME document \in Documents, NEW a \in Places, NEW h \in Heights, NEW b \in Places
  PROVE  get_biome(a, h, b) \in Nat
<1> DEFINE n == Len(document.biomes)
<1>1. /\ Width \in Nat \ {0, 1} /\ SectionCount \in Nat \ {0} /\ a \in Nat /\ b \in Nat
      /\ a < Width /\ b < Width /\ h \in Nat /\ h < SectionCount * Width
      /\ SectionCount * Width \in Nat \ {0}
  BY SizesAssumption DEF Places, Heights
<1>2. \A k \in 1..NewBiomesSize : k <= n => document.biomes[k] \in Nat  BY FieldsAssumption
<1>3. \A u, v \in Nat : u <= v => Width * u <= Width * v  BY <1>1
<1>4. CASE n = OldBiomesSize
  <2>1. PICK u \in Nat, v \in Nat : u = b \div 2 /\ v = a \div 2  BY <1>1
  <2>2. 2 * u <= Width - 1 /\ 2 * v <= Width - 1 /\ u <= Width - 1 /\ v <= Width - 1  BY <1>1, <2>1
  <2>3. PICK r \in Nat : r = u * Width  BY <1>1
  <2>4. r <= Width * (Width - 1)
    <3>1. Width - 1 \in Nat /\ Width * u <= Width * (Width - 1)  BY <1>1, <1>3, <2>2
    <3> QED  BY <1>1, <2>1, <2>3, <3>1
  <2>5. Width * (Width - 1) = Width * Width - Width  BY <1>1
  <2>6. PICK s \in Nat : s = Width * Width  BY <1>1
  <2>7. r + v + 1 \in 1..s  BY <1>1, <2>2, <2>4, <2>5, <2>6
  <2>8. OldBiomesSize = s /\ NewBiomesSize = 4 * s
    BY <1>1, <2>6 DEF OldBiomesSize, NewBiomesSize
  <2>9. r + v + 1 \in 1..NewBiomesSize /\ r + v + 1 <= n  BY <1>4, <2>7, <2>8
  <2>10. get_biome(a, h, b) = document.biomes[r + v + 1]
    <3>1. get_biome(a, h, b) = document.biomes[(b \div 2) * Width + (a \div 2) + 1]
      BY <1>4 DEF get_biome
    <3> QED  BY <2>1, <2>3, <3>1
  <2> QED  BY <1>2, <2>9, <2>10
<1>5. CASE n # OldBiomesSize /\ n = NewBiomesSize
  <2>1. PICK u \in Nat, v \in Nat : u = b \div 4 /\ v = a \div 4  BY <1>1
  <2>2. 4 * u <= Width - 1 /\ 4 * v <= Width - 1  BY <1>1, <2>1
  <2>3. PICK t \in Nat : t = SectionCount * Width /\ t > 0  BY <1>1
  <2>4. BiomeHeight \in Nat \ {0} /\ t <= 4 * BiomeHeight  BY <2>3 DEF BiomeHeight
  <2>5. PICK g \in Nat : g = h \div BiomeHeight  BY <1>1, <2>4, NaturalDivision
  <2>6. g <= 3
    <3>1. BiomeHeight * g <= h  BY <1>1, <2>4, <2>5, Quotient
    <3>2. BiomeHeight * g < BiomeHeight * 4  BY <1>1, <2>3, <2>4, <3>1
    <3>3. g >= 4 => BiomeHeight * g >= BiomeHeight * 4  BY <2>4
    <3> QED  BY <2>4, <3>2, <3>3
  <2>7. PICK s \in Nat : s = Width * Width  BY <1>1
  <2>8. s >= 2 * Width
    <3>1. Width * 2 <= Width * Width  BY <1>1, <1>3
    <3> QED  BY <1>1, <2>7, <3>1
  <2>9. PICK r \in Nat : r = g * s /\ r <= 3 * s  BY <2>6, <2>7
  <2>10. r + u * 4 + v + 1 \in 1..(4 * s)  BY <1>1, <2>2, <2>8, <2>9
  <2>11. NewBiomesSize = 4 * s  BY <1>1, <2>7 DEF NewBiomesSize
  <2>12. get_biome(a, h, b) = document.biomes[r + u * 4 + v + 1]
    BY <1>5, <2>1, <2>5, <2>7, <2>9 DEF get_biome
  <2> QED  BY <1>2, <1>5, <2>10, <2>11, <2>12
<1>6. CASE n # OldBiomesSize /\ n # NewBiomesSize  BY <1>6 DEF get_biome
<1> QED  BY <1>4, <1>5, <1>6

\* The layers that are found are pixel states.
LEMMA LayersArePixelStates == KeptInv => Layers \subseteq PixelStates
<1> SUFFICES ASSUME KeptInv PROVE Layers \subseteq PixelStates  OBVIOUS
<1>1. BiomesThere \subseteq Nat  BY BiomeIsNumber DEF BiomesThere, KeptInv
<1> QED  BY <1>1 DEF Layers, PixelStates

\* What is drawn of a column is a colour.
LEMMA DrawnIsColor ==
  ASSUME NEW found \in Layers
  PROVE  Drawn(found) \in AllColors
<1> DEFINE depth == (found.mid_height - found.top_height) * HeightToneRatio
           ground_depth == (found.opaque_height - found.top_height) * HeightToneRatio
           second == increase_brightness(found.mid_color, depth)
           ground == increase_brightness(found.bg_color, ground_depth)
<1>1. /\ found.fg_color \in AllColors /\ found.mid_color \in AllColors /\ found.bg_color \in AllColors
      /\ found.top_height \in Nat /\ found.mid_height \in Nat /\ found.opaque_height \in Nat
  BY HeightsOfSections DEF Layers
<1>2. depth \in Int /\ ground_depth \in Int  BY <1>1 DEF HeightToneRatio
<1>3. second \in AllColors /\ ground \in AllColors  BY <1>1, <1>2, Brightened
<1>4. \A color \in AllColors : color.tone <= Full /\ Full \in 0..Full
  BY ColorsAssumption DEF AllColors
<1>5. Drawn(found) = Blend(Blend(found.fg_color, second), ground)  BY DEF Drawn
<1> HIDE DEF second, ground
<1>6. Blend(found.fg_color, second) \in AllColors  BY <1>1, <1>3, <1>4, Blended
<1> QED  BY <1>3, <1>4, <1>5, <1>6, Blended

Outcomes ==
  {"reading", "built", "Parse error", "Sections data not found", "Invalid Sections data type"}
  \cup Range(Fields)

\* What KeptInv and ScanInv do not say of the variables.
ChunkTypes ==
  /\ outcome \in Outcomes
  /\ next_section \in 1..(Len(document.sections) + 1)
  /\ \A s \in Sections : block_lights[s] # Missing => Len(block_lights[s]) = 2 * LightSize

PixelTypes ==
  /\ x \in 0..Width /\ z \in 0..Width /\ nether \in BOOLEAN
  /\ y \in Heights \cup {-1} /\ air_found \in BOOLEAN
  /\ unknown_blocks \cap DOMAIN Colors = {}
  /\ image \in [Pixels -> AllColors] /\ scanned \in [Pixels -> Layers]

LEMMA TypesInit == Init => ChunkTypes /\ PixelTypes
<1> SUFFICES ASSUME Init PROVE ChunkTypes /\ PixelTypes  OBVIOUS
<1>1. document \in Documents /\ Len(document.sections) \in Nat
  BY DocumentsAssumption DEF Init, ChunkInit
<1>2. ChunkTypes  BY <1>1 DEF Init, ChunkInit, ChunkTypes, Outcomes, NoSections
<1>3. Width \in Nat /\ None \in AllColors
  BY SizesAssumption, ColorsAssumption DEF None, AllColors
<1>4. pixels \in [Pixels -> Layers]  BY ScanBegins DEF ScanInv
<1>5. image = [p \in Pixels |-> None] /\ scanned = pixels /\ x = 0 /\ z = 0 /\ y = 0
      /\ nether \in BOOLEAN /\ air_found = FALSE /\ unknown_blocks = {}
  BY DEF Init, ScanInit
<1>6. x \in 0..Width /\ z \in 0..Width /\ y \in Heights \cup {-1}
  BY <1>3, <1>5, BlankIsLayers
<1>7. image \in [Pixels -> AllColors] /\ scanned \in [Pixels -> Layers]
  BY <1>3, <1>4, <1>5
<1>8. PixelTypes  BY <1>5, <1>6, <1>7 DEF PixelTypes
<1> QED  BY <1>2, <1>8

\* The first of the fields that are missing.
LEMMA FirstOfFields ==
  ASSUME NEW lacks \in SUBSET Range(Fields), lacks # {}
  PROVE  Fields[Min({i \in 1..3 : Fields[i] \in lacks})] \in Range(Fields)
<1> DEFINE at == {i \in 1..3 : Fields[i] \in lacks}
<1>1. DOMAIN Fields = 1..3  BY DEF Fields
<1>2. \E i \in 1..3 : Fields[i] \in lacks  BY <1>1 DEF Range
<1>3. at # {} /\ at \subseteq Nat  BY <1>2
<1> HIDE DEF at
<1>4. PICK m \in at : \A t \in at : m <= t  BY <1>3, LeastOfSome
<1>5. Min(at) \in at  BY <1>4 DEF Min
<1>6. Min(at) \in 1..3  BY <1>5 DEF at
<1> QED  BY <1>1, <1>6 DEF Range, at

LEMMA ChunkTypesStep == KeptInv /\ ChunkTypes /\ [Next]_allVars => ChunkTypes'
<1> SUFFICES ASSUME KeptInv, ChunkTypes, [Next]_allVars PROVE ChunkTypes'  OBVIOUS
<1>1. document' = document /\ document \in Documents /\ Len(document.sections) \in Nat
  BY DocumentKept, DocumentsAssumption DEF KeptInv
<1>2. Outcomes' = Outcomes  BY DEF Outcomes
<1>3. CASE Refuse
  <2>1. document.kind \in Outcomes  BY <1>1, <1>3, FieldsAssumption DEF Refuse, Outcomes
  <2> QED  BY <1>1, <1>2, <1>3, <2>1 DEF Refuse, ChunkTypes
<1>4. CASE SkipSection  BY <1>1, <1>2, <1>4 DEF SkipSection, AtSection, ChunkTypes
<1>5. CASE ReadSection
  <2>1. /\ AtSection /\ Current.y \in Sections /\ outcome' = outcome
        /\ next_section' = next_section + 1
        /\ \/ UNCHANGED block_lights
           \/ /\ block_lights' = [block_lights EXCEPT ![Current.y] = decode_nibble(Current.light)]
              /\ Len(decode_nibble(Current.light)) = 2 * LightSize
    BY <1>5, NibblesOfBytes DEF ReadSection, Skipped
  <2> HIDE DEF Current
  <2>2. DOMAIN block_lights = Sections  BY DEF KeptInv
  <2> QED  BY <1>1, <1>2, <2>1, <2>2 DEF AtSection, ChunkTypes
<1>6. CASE ReadFields
  <2>1. document.lacks \subseteq Range(Fields)  BY <1>1, FieldsAssumption
  <2>2. outcome' \in Outcomes
    BY <1>6, <2>1, FirstOfFields DEF ReadFields, Outcomes
  <2> QED  BY <1>1, <1>2, <1>6, <2>2 DEF ReadFields, ChunkTypes
<1>7. CASE UNCHANGED chunkVars  BY <1>1, <1>2, <1>7 DEF chunkVars, ChunkTypes
<1> QED  BY <1>3, <1>4, <1>5, <1>6, <1>7 DEF Next, ChunkNext, allVars, vars

LEMMA PixelTypesStep == KeptInv /\ ScanInv /\ ShadeInv /\ PixelTypes /\ [Next]_allVars => PixelTypes'
<1> SUFFICES ASSUME KeptInv, ScanInv, ShadeInv, PixelTypes, [Next]_allVars PROVE PixelTypes'  OBVIOUS
<1>1. Layers' = Layers  BY LayersKept
<1>2. Width \in Nat \ {0, 1} /\ pixels \in [Pixels -> Layers]  BY SizesAssumption DEF ScanInv
<1>3. CASE UNCHANGED <<scanVars, pixelVars>>
  BY <1>1, <1>3 DEF scanVars, locals, pixelVars, PixelTypes
<1>4. CASE ScanNext /\ UNCHANGED pixelVars
  <2>1. CASE Begin  BY <1>1, <1>4, <2>1, MaxYIsHeight DEF Begin, PixelTypes, pixelVars
  <2>2. CASE Bottom  BY <1>1, <1>4, <2>2 DEF Bottom, PixelTypes, pixelVars, locals
  <2>3. CASE Finish
    <3>1. x \in 0..(Width - 1) /\ z \in 0..(Width - 1)  BY <2>3 DEF Finish, ScanInv, InScan, Places
    <3>2. x' = (x + 1) % Width /\ z' = (IF x' = 0 THEN z + 1 ELSE z) /\ y' = MaxY
          /\ air_found' = FALSE /\ UNCHANGED <<nether, unknown_blocks>>
      BY <2>3 DEF Finish
    <3>3. x' \in 0..Width  BY <1>2, <3>1, <3>2
    <3>4. z' \in 0..Width  BY <1>2, <3>1, <3>2
    <3> QED  BY <1>1, <1>4, <3>2, <3>3, <3>4, MaxYIsHeight DEF PixelTypes, pixelVars
  <2>4. ASSUME NEW block \in Blocks,
               \/ SeeAir(block) \/ PassOver(block) \/ SeeUnknown(block)
               \/ SeeFirst(block) \/ SeeSecond(block) \/ SeeMore(block)
        PROVE  PixelTypes'
    <3>1. y >= 0 /\ y \in Heights  BY DEF Blocks, InLoop, PixelTypes
    <3>2. y' \in {y, y - 1} /\ UNCHANGED <<x, z, nether>>
      BY <2>4 DEF SeeAir, PassOver, SeeUnknown, SeeFirst, SeeSecond, SeeMore, GoDown, GoDownWithLight, Leave
    <3>3. y' \in Heights \cup {-1}
      <4>1. SectionCount * Width \in Int  BY SizesAssumption
      <4> QED  BY <3>1, <3>2, <4>1 DEF Heights
    <3>4. air_found' \in BOOLEAN
      BY <2>4 DEF SeeAir, PassOver, SeeUnknown, SeeFirst, SeeSecond, SeeMore, Look, PixelTypes
    <3>5. unknown_blocks' \cap DOMAIN Colors = {}
      BY <2>4 DEF SeeAir, PassOver, SeeUnknown, SeeFirst, SeeSecond, SeeMore, PixelTypes
    <3> QED  BY <1>1, <1>4, <3>2, <3>3, <3>4, <3>5 DEF PixelTypes, pixelVars
  <2> QED  BY <1>4, <2>1, <2>2, <2>3, <2>4 DEF ScanNext
<1>5. CASE PipelineNext
  <2>1. CASE HandleBiomes
    BY <1>1, <1>2, <2>1 DEF HandleBiomes, PixelTypes, restVars
  <2>2. CASE InclineRow \/ InclineColumn
    BY <1>1, <1>2, <2>2 DEF InclineRow, InclineColumn, PixelTypes, restVars, pixelVars
  <2>3. CASE NextRow \/ NextColumnRow
    BY <1>1, <1>2, <2>3 DEF NextRow, NextColumnRow, PixelTypes, restVars, pixelVars
  <2>4. CASE RowsDone \/ HandleBlockLight
    BY <1>1, <1>2, <2>4 DEF RowsDone, HandleBlockLight, PixelTypes, restVars, pixelVars
  <2>5. CASE Draw
    <3>1. \A p \in Pixels : Drawn(pixels[p]) \in AllColors  BY <1>2, DrawnIsColor
    <3>2. image' \in [Pixels -> AllColors]  BY <2>5, <3>1 DEF Draw
    <3> QED  BY <1>1, <2>5, <3>2 DEF Draw, PixelTypes, restVars
  <2> QED  BY <1>5, <2>1, <2>2, <2>3, <2>4, <2>5 DEF PipelineNext
<1> QED  BY <1>3, <1>4, <1>5 DEF Next, allVars, vars

\* All that is known of the variables goes together.
TypesInv == KeptInv /\ LightInv /\ ScanInv /\ ShadeInv /\ ChunkTypes /\ PixelTypes

LEMMA TypesKept == Spec => []TypesInv
<1>1. Init => TypesInv
  <2>1. Init => ShadeInv  BY DEF Init, ScanInit, ShadeInv
  <2> QED  BY <2>1, KeptInit, LightInit, ScanBegins, TypesInit DEF TypesInv
<1>2. TypesInv /\ [Next]_allVars => TypesInv'
  BY KeptStep, LightStep, ShadeStep, ChunkTypesStep, PixelTypesStep DEF TypesInv
<1> QED  BY <1>1, <1>2, PTL DEF Spec

\* The chunk, the scan and the pixels keep their types: no biome and no light is read
\* beyond its array, no loop leaves the chunk, and a colour stays one.
THEOREM TypeCorrect == Spec => []TypeOK
<1>1. TypesInv => TypeOK
  <2> SUFFICES ASSUME KeptInv, ScanInv, ChunkTypes, PixelTypes PROVE TypeOK  BY DEF TypesInv
  <2>1. pixels \in [Pixels -> PixelStates] /\ scanned \in [Pixels -> PixelStates]
    BY LayersArePixelStates DEF ScanInv, PixelTypes
  <2> QED  BY <2>1 DEF TypeOK, ScanInv, ChunkTypes, PixelTypes, Outcomes
<1> QED  BY <1>1, TypesKept, PTL

-----------------------------------------------------------------------------
(* The layers of a column. *)

LEMMA SeenFromAbove ==
  ASSUME NEW p
  PROVE  /\ MaxY \in Nat /\ Seen(p) \in SUBSET (0..MaxY)
         /\ \A g \in Seen(p) : ColorAt(p, g) # None
         /\ Seen(p) # {} => First(p) \in Seen(p) /\ \A g \in Seen(p) : First(p) >= g
         /\ Below(p, First(p)) # {} =>
              Second(p) \in Below(p, First(p)) /\ \A g \in Below(p, First(p)) : Second(p) >= g
<1>1. MaxY \in Nat  BY MaxYIsHeight, SizesAssumption DEF Heights
<1>2. Seen(p) \in SUBSET (0..MaxY) /\ \A g \in Seen(p) : ColorAt(p, g) # None  BY DEF Seen
<1>3. Below(p, First(p)) \in SUBSET (0..MaxY)  BY <1>2 DEF Below
<1> QED  BY <1>1, <1>2, <1>3, MaxOfSome DEF First, Second

\* The function that is defined by what it is at the next height is there: it can be
\* continued downwards from any height to the next, so no height is left.
Blends(f, from, n, deeper, colors) ==
  f = [h \in from..(n + 1) |->
         IF h = n + 1 THEN None
         ELSE IF h \in deeper THEN Blend(f[h + 1], colors[h]) ELSE f[h + 1]]

LEMMA BlendsExist ==
  ASSUME NEW n \in Nat, NEW deeper, NEW colors
  PROVE  \E f : Blends(f, 0, n, deeper, colors)
<1> USE DEF Blends
<1> DEFINE Continued(f, k) == Blends(f, k, n, deeper, colors)
           left == {k \in 0..(n + 1) : ~\E f : Continued(f, k)}
<1>1. left \in SUBSET (0..(n + 1)) /\ n + 1 \in Nat  OBVIOUS
<1>2. ASSUME left # {} PROVE FALSE
  <2> DEFINE k == Max(left)
  <2>1. k \in left /\ \A l \in left : k >= l
    <3> HIDE DEF left
    <3> QED  BY <1>1, <1>2, MaxOfSome
  <2> HIDE DEF k
  <2>2. k # n + 1
    <3> DEFINE f == [h \in (n + 1)..(n + 1) |-> None]
    <3>1. Continued(f, n + 1)  OBVIOUS
    <3> QED  BY <2>1, <3>1
  <2>3. k \in 0..n /\ k + 1 \in 0..(n + 1) /\ k + 1 \notin left
    <3> HIDE DEF left
    <3>1. k \in 0..(n + 1)  BY <1>1, <2>1
    <3>2. ~(k >= k + 1)  BY <3>1
    <3> QED  BY <2>1, <2>2, <3>1, <3>2
  <2>4. PICK f : Continued(f, k + 1)  BY <2>3
  <2> DEFINE below == IF k \in deeper THEN Blend(f[k + 1], colors[k]) ELSE f[k + 1]
             g == [h \in k..(n + 1) |-> IF h = k THEN below ELSE f[h]]
  <2>5. \A h \in (k + 1)..(n + 1) : g[h] = f[h]  BY <2>3
  <2>6. g[k] = below  BY <2>3
  <2> DEFINE body(h) == IF h = n + 1 THEN None
                        ELSE IF h \in deeper THEN Blend(g[h + 1], colors[h]) ELSE g[h + 1]
  <2>7. \A h \in k..(n + 1) : g[h] = body(h)
    <3> SUFFICES ASSUME NEW h \in k..(n + 1) PROVE g[h] = body(h)  OBVIOUS
    <3>1. CASE h = k
      <4>1. k + 1 \in (k + 1)..(n + 1)  BY <2>3
      <4>2. g[k + 1] = f[k + 1]  BY <4>1, <2>5
      <4> HIDE DEF g
      <4> QED  BY <2>3, <2>6, <3>1, <4>2
    <3>2. CASE h = n + 1 /\ h # k
      <4>1. h \in (k + 1)..(n + 1)  BY <2>3, <3>2
      <4>2. f[h] = None  BY <2>4, <3>2, <4>1
      <4>3. g[h] = f[h]  BY <2>5, <4>1
      <4> QED  BY <3>2, <4>2, <4>3
    <3>3. CASE h # n + 1 /\ h # k
      <4>1. h \in (k + 1)..(n + 1) /\ h + 1 \in (k + 1)..(n + 1)  BY <2>3, <3>3
      <4>2. f[h] = IF h \in deeper THEN Blend(f[h + 1], colors[h]) ELSE f[h + 1]
        BY <2>4, <3>3, <4>1
      <4>3. g[h] = f[h] /\ g[h + 1] = f[h + 1]  BY <2>5, <4>1
      <4> HIDE DEF g
      <4> QED  BY <3>3, <4>2, <4>3
    <3> QED  BY <3>1, <3>2, <3>3
  <2>8. Continued(g, k)
    <3>1. g = [h \in k..(n + 1) |-> g[h]]  OBVIOUS
    <3>2. g = [h \in k..(n + 1) |-> body(h)]
      <4> HIDE DEF g, body
      <4> QED  BY <2>7, <3>1
    <3> HIDE DEF g
    <3> QED  BY <3>2
  <2> QED  BY <2>1, <2>8
<1>3. \E f : Continued(f, 0)  BY <1>2
<1> QED  BY <1>3

LEMMA ThroughUnfolds ==
  ASSUME NEW p
  PROVE  /\ Through(p)[MaxY + 1] = None
         /\ \A h \in 0..MaxY :
              Through(p)[h] = IF h \in Below(p, Second(p))
                              THEN Blend(Through(p)[h + 1], ColorAt(p, h)) ELSE Through(p)[h + 1]
<1> DEFINE n == MaxY
           deeper == Below(p, Second(p))
           colors == [h \in 0..(n + 1) |-> ColorAt(p, h)]
           Is(f) == f = [h \in 0..(n + 1) |->
                           IF h = n + 1 THEN None
                           ELSE IF h \in deeper THEN Blend(f[h + 1], ColorAt(p, h)) ELSE f[h + 1]]
<1>1. n \in Nat  BY SeenFromAbove
<1>2. \E f : Is(f)
  <2>1. PICK f : Blends(f, 0, n, deeper, colors)
    <3> HIDE DEF n, deeper, colors
    <3> QED  BY <1>1, BlendsExist
  <2>2. \A h \in 0..(n + 1) : colors[h] = ColorAt(p, h)  OBVIOUS
  <2>3. Is(f)
    <3> HIDE DEF n, deeper, colors
    <3> QED  BY <2>1, <2>2 DEF Blends
  <2> QED  BY <2>3
<1>3. Through(p) = CHOOSE f : Is(f)  BY DEF Through
<1>4. Is(Through(p))  
  <2> HIDE DEF Is
  <2> QED  BY <1>2, <1>3
<1> QED  BY <1>1, <1>4

\* The first that is seen, with its height and whether it is tinted; and the second.
FirstFound(p, found) ==
  /\ found.fg_color = ColorAt(p, First(p)) /\ found.top_height = First(p)
  /\ "BIOME_OVERRIDDEN" \in found.flags <=> Column(p, First(p)) \in TintedBlocks

SecondFound(p, found) ==
  found.mid_color = ColorAt(p, Second(p)) /\ found.mid_height = Second(p)

\* What is known of the blocks above the one that is looked at next, at h.
Walked(p, h) ==
  /\ air_found <=> \E g \in (h + 1)..MaxY : Column(p, g) = "air"
  /\ h = MaxY => prev_block = ""
  /\ h < MaxY /\ (nether => air_found) => prev_block = Column(p, h + 1)

\* What was found of those that are seen above h: they are translucent, or the scan would
\* have left the column.
Found(p, h, found) ==
  /\ IF {g \in Seen(p) : g > h} = {}
     THEN found.fg_color = None /\ "BIOME_OVERRIDDEN" \notin found.flags
     ELSE /\ FirstFound(p, found) /\ found.fg_color.alpha # Full
          /\ found.block_light = get_block_light(p[1], First(p), p[2])
  /\ IF {g \in Below(p, First(p)) : g > h} = {} THEN found.mid_color = None
     ELSE SecondFound(p, found) /\ found.mid_color.alpha # Full
  /\ IF Below(p, First(p)) = {} THEN found.bg_color = None
     ELSE /\ found.bg_color = Through(p)[h + 1]
          /\ \A g \in (h + 1)..(MaxY + 1) : Through(p)[g].alpha # Full

\* What was found of a column that was left.
Done(p, found) ==
  Seen(p) # {} =>
    /\ FirstFound(p, found)
    /\ found.opaque_height = Ground(p).height /\ found.bg_color = Ground(p).color
    /\ First(p) # Ground(p).height =>
         /\ found.block_light = get_block_light(p[1], First(p), p[2])
         /\ Below(p, First(p)) # {} => SecondFound(p, found)

Completed == \A p \in Pixels : Behind(p) => LayersFound(p, pixels[p])

SurfaceInv ==
  /\ pc # "idle" => outcome = "built"
  /\ pc = "idle" => prev_block = "" /\ air_found = FALSE
  /\ Whole =>
       /\ pc = "scanning" =>
            y <= MaxY /\ Walked(<<x, z>>, y) /\ Found(<<x, z>>, y, pixel) /\ Completed
       /\ pc = "leaving" => Done(<<x, z>>, pixel) /\ Completed
       /\ pc = "scanned" => \A p \in Pixels : LayersFound(p, pixels[p])

\* Nothing is seen at h: what was found stays, but for the heights of what is not there.
LEMMA NothingSeen ==
  ASSUME NEW p, NEW h \in 0..MaxY, h \notin Seen(p), NEW old, NEW new, Found(p, h, old),
         new.fg_color = old.fg_color, new.mid_color = old.mid_color, new.bg_color = old.bg_color,
         "BIOME_OVERRIDDEN" \in new.flags <=> "BIOME_OVERRIDDEN" \in old.flags,
         old.fg_color # None =>
           /\ new.top_height = old.top_height
           /\ new.block_light \in {old.block_light, get_block_light(p[1], old.top_height, p[2])},
         old.mid_color # None => new.mid_height = old.mid_height
  PROVE  Found(p, h - 1, new)
<1> DEFINE above == {g \in Seen(p) : g > h}
           next == {g \in Below(p, First(p)) : g > h}
<1>1. MaxY \in Nat /\ h - 1 + 1 = h /\ Seen(p) \subseteq 0..MaxY  BY SeenFromAbove
<1>2. \A g \in Seen(p) : g > h - 1 <=> g > h  BY <1>1
<1>3. {g \in Seen(p) : g > h - 1} = above  BY <1>2
<1>4. {g \in Below(p, First(p)) : g > h - 1} = next  BY <1>2 DEF Below
<1>5. Through(p)[h] = Through(p)[h + 1]  BY ThroughUnfolds DEF Below
<1>6. above # {} => old.fg_color # None
  BY SeenFromAbove DEF Found, FirstFound
<1>7. next # {} => old.mid_color # None
  <2>1. next # {} => Second(p) \in Seen(p)  BY SeenFromAbove DEF Below
  <2> QED  BY <2>1, SeenFromAbove DEF Found, SecondFound
<1>8. Below(p, First(p)) # {} =>
        \A g \in ((h - 1) + 1)..(MaxY + 1) : Through(p)[g].alpha # Full
  <2>1. \A g \in h..(MaxY + 1) : g = h \/ g \in (h + 1)..(MaxY + 1)  BY <1>1
  <2>2. h + 1 \in (h + 1)..(MaxY + 1)  BY <1>1
  <2> QED  BY <1>1, <1>5, <2>1, <2>2 DEF Found
<1>9. IF above = {} THEN new.fg_color = None /\ "BIOME_OVERRIDDEN" \notin new.flags
      ELSE /\ FirstFound(p, new) /\ new.fg_color.alpha # Full
           /\ new.block_light = get_block_light(p[1], First(p), p[2])
  BY <1>6 DEF Found, FirstFound
<1>10. IF next = {} THEN new.mid_color = None
       ELSE SecondFound(p, new) /\ new.mid_color.alpha # Full
  BY <1>7 DEF Found, SecondFound
<1>11. IF Below(p, First(p)) = {} THEN new.bg_color = None
       ELSE /\ new.bg_color = Through(p)[(h - 1) + 1]
            /\ \A g \in ((h - 1) + 1)..(MaxY + 1) : Through(p)[g].alpha # Full
  BY <1>1, <1>5, <1>8 DEF Found
<1> QED  BY <1>3, <1>4, <1>9, <1>10, <1>11 DEF Found

\* The first that is seen is the first that is found.
LEMMA FirstIsSeen ==
  ASSUME NEW p, NEW h \in 0..MaxY, h \in Seen(p), NEW old, Found(p, h, old),
         old.fg_color = None
  PROVE  First(p) = h /\ {g \in Seen(p) : g > h} = {} /\ {g \in Below(p, First(p)) : g > h - 1} = {}
<1>1. Seen(p) \subseteq 0..MaxY /\ MaxY \in Nat
      /\ First(p) \in Seen(p) /\ \A g \in Seen(p) : First(p) >= g
  BY SeenFromAbove
<1>2. {g \in Seen(p) : g > h} = {}  BY SeenFromAbove DEF Found, FirstFound
<1>3. First(p) = h  BY <1>1, <1>2
<1>4. \A g \in Below(p, First(p)) : ~(g > h - 1)  BY <1>1, <1>3 DEF Below
<1> QED  BY <1>2, <1>3, <1>4

LEMMA FirstIsOpaque ==
  ASSUME NEW p, NEW h \in 0..MaxY, h \in Seen(p), NEW old, Found(p, h, old),
         old.fg_color = None, ColorAt(p, h).alpha = Full,
         NEW new, new.fg_color = ColorAt(p, h), new.top_height = h,
         "BIOME_OVERRIDDEN" \in new.flags <=> Column(p, h) \in TintedBlocks,
         new.bg_color = ColorAt(p, h), new.opaque_height = h
  PROVE  Done(p, new)
<1>1. First(p) = h  BY FirstIsSeen
<1>2. Ground(p) = [height |-> h, color |-> ColorAt(p, h)]  BY <1>1 DEF Ground
<1> QED  BY <1>1, <1>2 DEF Done, FirstFound

\* The blend goes on below h as above it.
LEMMA BlendGoesOn ==
  ASSUME NEW p, NEW h \in 0..MaxY, NEW old, Found(p, h, old), NEW new,
         IF Below(p, First(p)) = {} THEN new.bg_color = None
         ELSE new.bg_color = Through(p)[h] /\ Through(p)[h].alpha # Full
  PROVE  IF Below(p, First(p)) = {} THEN new.bg_color = None
         ELSE /\ new.bg_color = Through(p)[(h - 1) + 1]
              /\ \A g \in ((h - 1) + 1)..(MaxY + 1) : Through(p)[g].alpha # Full
<1>1. MaxY \in Nat /\ h - 1 + 1 = h  BY SeenFromAbove
<1>2. \A g \in h..(MaxY + 1) : g = h \/ g \in (h + 1)..(MaxY + 1)  BY <1>1
<1> QED  BY <1>1, <1>2 DEF Found

LEMMA BlendUnchanged ==
  ASSUME NEW p, NEW h \in 0..MaxY, h \notin Below(p, Second(p)) \/ Below(p, First(p)) = {},
         NEW old, Found(p, h, old), NEW new, new.bg_color = old.bg_color
  PROVE  IF Below(p, First(p)) = {} THEN new.bg_color = None
         ELSE new.bg_color = Through(p)[h] /\ Through(p)[h].alpha # Full
<1>1. MaxY \in Nat  BY SeenFromAbove
<1>2. h \notin Below(p, Second(p)) => Through(p)[h] = Through(p)[h + 1]  BY ThroughUnfolds
<1>3. h + 1 \in (h + 1)..(MaxY + 1)  BY <1>1
<1> QED  BY <1>2, <1>3 DEF Found

LEMMA FirstIsTranslucent ==
  ASSUME NEW p, NEW h \in 0..MaxY, h \in Seen(p), NEW old, Found(p, h, old),
         old.fg_color = None, ColorAt(p, h).alpha # Full,
         NEW new, new.fg_color = ColorAt(p, h), new.top_height = h,
         "BIOME_OVERRIDDEN" \in new.flags <=> Column(p, h) \in TintedBlocks,
         new.mid_color = old.mid_color, new.bg_color = old.bg_color,
         new.block_light = get_block_light(p[1], h, p[2])
  PROVE  Found(p, h - 1, new)
<1>1. /\ First(p) = h /\ {g \in Seen(p) : g > h} = {}
      /\ {g \in Below(p, First(p)) : g > h - 1} = {}
  BY FirstIsSeen
<1>2. {g \in Below(p, First(p)) : g > h} = {}  BY <1>1 DEF Below
<1>3. new.mid_color = None  BY <1>2 DEF Found
<1>4. h \notin Below(p, Second(p)) \/ Below(p, First(p)) = {}
  <2>1. Below(p, First(p)) # {} => Second(p) \in Below(p, First(p)) /\ Second(p) \in 0..MaxY
    BY SeenFromAbove DEF Below
  <2> QED  BY <1>1, <2>1 DEF Below
<1>5. IF Below(p, First(p)) = {} THEN new.bg_color = None
      ELSE /\ new.bg_color = Through(p)[(h - 1) + 1]
           /\ \A g \in ((h - 1) + 1)..(MaxY + 1) : Through(p)[g].alpha # Full
  BY <1>4, BlendUnchanged, BlendGoesOn
<1>6. FirstFound(p, new) /\ new.fg_color.alpha # Full /\ new.block_light = get_block_light(p[1], First(p), p[2])
  BY <1>1 DEF FirstFound
<1>7. {g \in Seen(p) : g > h - 1} # {}
  <2>1. h > h - 1  OBVIOUS
  <2> QED  BY <2>1
<1> QED  BY <1>1, <1>3, <1>5, <1>6, <1>7 DEF Found

\* So is the second, ...
LEMMA SecondIsSeen ==
  ASSUME NEW p, NEW h \in 0..MaxY, h \in Seen(p), NEW old, Found(p, h, old),
         old.fg_color # None, old.mid_color = None
  PROVE  /\ h \in Below(p, First(p)) /\ Second(p) = h
         /\ FirstFound(p, old) /\ old.fg_color.alpha # Full
         /\ old.block_light = get_block_light(p[1], First(p), p[2])
<1>1. /\ Seen(p) \subseteq 0..MaxY /\ MaxY \in Nat
      /\ First(p) \in Seen(p) /\ \A g \in Seen(p) : First(p) >= g
  BY SeenFromAbove
<1>2. /\ {g \in Seen(p) : g > h} # {} /\ FirstFound(p, old) /\ old.fg_color.alpha # Full
      /\ old.block_light = get_block_light(p[1], First(p), p[2])
  BY DEF Found
<1>3. First(p) > h  BY <1>1, <1>2
<1>4. h \in Below(p, First(p))  BY <1>3 DEF Below
<1>5. Second(p) \in Below(p, First(p)) /\ \A g \in Below(p, First(p)) : Second(p) >= g
  BY <1>4, SeenFromAbove
<1>6. Second(p) \in 0..MaxY /\ ColorAt(p, Second(p)) # None
  BY <1>1, <1>5, SeenFromAbove DEF Below
<1>7. ~(Second(p) > h)  BY <1>5, <1>6 DEF Found, SecondFound
<1> QED  BY <1>2, <1>4, <1>5, <1>6, <1>7

LEMMA SecondIsOpaque ==
  ASSUME NEW p, NEW h \in 0..MaxY, h \in Seen(p), NEW old, Found(p, h, old),
         old.fg_color # None, old.mid_color = None, ColorAt(p, h).alpha = Full,
         NEW new, new.fg_color = old.fg_color, new.top_height = old.top_height,
         new.flags = old.flags, new.block_light = old.block_light,
         new.mid_color = ColorAt(p, h), new.mid_height = h,
         new.bg_color = ColorAt(p, h), new.opaque_height = h
  PROVE  Done(p, new)
<1>1. /\ h \in Below(p, First(p)) /\ Second(p) = h /\ FirstFound(p, old)
      /\ old.fg_color.alpha # Full /\ old.block_light = get_block_light(p[1], First(p), p[2])
  BY SecondIsSeen
<1>2. Ground(p) = [height |-> h, color |-> ColorAt(p, h)]  BY <1>1 DEF Ground, FirstFound
<1> QED  BY <1>1, <1>2 DEF Done, FirstFound, SecondFound

LEMMA SecondIsTranslucent ==
  ASSUME NEW p, NEW h \in 0..MaxY, h \in Seen(p), NEW old, Found(p, h, old),
         old.fg_color # None, old.mid_color = None, ColorAt(p, h).alpha # Full,
         NEW new, new.fg_color = old.fg_color, new.top_height = old.top_height,
         new.flags = old.flags, new.block_light \in {old.block_light, get_block_light(p[1], old.top_height, p[2])},
         new.mid_color = ColorAt(p, h), new.mid_height = h, new.bg_color = old.bg_color
  PROVE  Found(p, h - 1, new)
<1>1. /\ h \in Below(p, First(p)) /\ Second(p) = h /\ FirstFound(p, old)
      /\ old.fg_color.alpha # Full /\ old.block_light = get_block_light(p[1], First(p), p[2])
  BY SecondIsSeen
<1>2. h > h - 1 /\ ~(h < h)  OBVIOUS
<1>3. {g \in Seen(p) : g > h - 1} # {} /\ {g \in Below(p, First(p)) : g > h - 1} # {}
  BY <1>1, <1>2
<1>4. h \notin Below(p, Second(p))  BY <1>1, <1>2 DEF Below
<1>5. IF Below(p, First(p)) = {} THEN new.bg_color = None
      ELSE /\ new.bg_color = Through(p)[(h - 1) + 1]
           /\ \A g \in ((h - 1) + 1)..(MaxY + 1) : Through(p)[g].alpha # Full
  BY <1>4, BlendUnchanged, BlendGoesOn
<1>6. FirstFound(p, new) /\ new.fg_color.alpha # Full /\ new.block_light = get_block_light(p[1], First(p), p[2])
  BY <1>1 DEF FirstFound
<1>7. SecondFound(p, new) /\ new.mid_color.alpha # Full  BY <1>1 DEF SecondFound
<1> QED  BY <1>3, <1>5, <1>6, <1>7 DEF Found

\* ... and what is seen below it is blended, the lowest last.
LEMMA MoreIsSeen ==
  ASSUME NEW p, NEW h \in 0..MaxY, h \in Seen(p), NEW old, Found(p, h, old),
         old.fg_color # None, old.mid_color # None
  PROVE  /\ FirstFound(p, old) /\ old.fg_color.alpha # Full
         /\ old.block_light = get_block_light(p[1], First(p), p[2])
         /\ SecondFound(p, old) /\ old.mid_color.alpha # Full
         /\ Below(p, First(p)) # {} /\ h \in Below(p, Second(p))
         /\ Through(p)[h] = Blend(old.bg_color, ColorAt(p, h))
<1>1. /\ Seen(p) \subseteq 0..MaxY /\ MaxY \in Nat
      /\ First(p) \in Seen(p) /\ \A g \in Seen(p) : First(p) >= g
  BY SeenFromAbove
<1>2. /\ FirstFound(p, old) /\ old.fg_color.alpha # Full
      /\ old.block_light = get_block_light(p[1], First(p), p[2])
  BY DEF Found
<1>3. /\ {g \in Below(p, First(p)) : g > h} # {}
      /\ SecondFound(p, old) /\ old.mid_color.alpha # Full
  BY DEF Found
<1>4. Below(p, First(p)) # {} /\ Second(p) > h
  <2>1. /\ Below(p, First(p)) # {} /\ Second(p) \in Below(p, First(p))
        /\ \A g \in Below(p, First(p)) : Second(p) >= g
    BY <1>3, SeenFromAbove
  <2>2. PICK g \in Below(p, First(p)) : g > h  BY <1>3
  <2>3. Second(p) \in Nat /\ g \in Nat /\ Second(p) >= g  BY <1>1, <2>1 DEF Below
  <2> QED  BY <2>1, <2>2, <2>3
<1>5. h \in Below(p, Second(p))  BY <1>4 DEF Below
<1>6. Through(p)[h] = Blend(old.bg_color, ColorAt(p, h))
  BY <1>4, <1>5, ThroughUnfolds DEF Found
<1> QED  BY <1>2, <1>3, <1>4, <1>5, <1>6

LEMMA MoreIsOpaque ==
  ASSUME NEW p, NEW h \in 0..MaxY, h \in Seen(p), NEW old, Found(p, h, old),
         old.fg_color # None, old.mid_color # None,
         NEW new, new.fg_color = old.fg_color, new.top_height = old.top_height,
         new.flags = old.flags, new.block_light = old.block_light,
         new.mid_color = old.mid_color, new.mid_height = old.mid_height,
         new.bg_color = Blend(old.bg_color, ColorAt(p, h)), new.bg_color.alpha = Full,
         new.opaque_height = h
  PROVE  Done(p, new)
<1> DEFINE stops == {g \in Below(p, Second(p)) : Through(p)[g].alpha = Full}
<1>1. /\ FirstFound(p, old) /\ old.fg_color.alpha # Full
      /\ old.block_light = get_block_light(p[1], First(p), p[2])
      /\ SecondFound(p, old) /\ old.mid_color.alpha # Full
      /\ Below(p, First(p)) # {} /\ h \in Below(p, Second(p))
      /\ Through(p)[h] = Blend(old.bg_color, ColorAt(p, h))
  BY MoreIsSeen
<1>2. h \in stops  BY <1>1
<1>3. stops \in SUBSET (0..MaxY) /\ MaxY \in Nat  BY SeenFromAbove DEF Below
<1>4. \A g \in stops : g <= h
  <2> SUFFICES ASSUME NEW g \in stops, g > h PROVE FALSE  BY <1>3
  <2>1. g \in (h + 1)..(MaxY + 1)  BY <1>3
  <2> QED  BY <1>1, <2>1 DEF Found
<1>5. Max(stops) = h
  <2>1. Max(stops) \in stops /\ \A g \in stops : Max(stops) >= g
    <3> HIDE DEF stops
    <3> QED  BY <1>2, <1>3, MaxOfSome
  <2> DEFINE last == Max(stops)
  <2>2. last \in stops /\ last >= h  BY <1>2, <2>1
  <2> HIDE DEF last
  <2>3. last \in 0..MaxY /\ last <= h
    <3> HIDE DEF stops
    <3> QED  BY <1>3, <1>4, <2>2
  <2>4. last = h  BY <2>2, <2>3
  <2> QED  BY <2>4 DEF last
<1>6. Ground(p) = [height |-> h, color |-> Through(p)[h]]
  BY <1>1, <1>2, <1>5 DEF Ground, FirstFound, SecondFound
<1> QED  BY <1>1, <1>6 DEF Done, FirstFound, SecondFound

LEMMA MoreIsTranslucent ==
  ASSUME NEW p, NEW h \in 0..MaxY, h \in Seen(p), NEW old, Found(p, h, old),
         old.fg_color # None, old.mid_color # None,
         NEW new, new.fg_color = old.fg_color, new.top_height = old.top_height,
         new.flags = old.flags, new.block_light \in {old.block_light, get_block_light(p[1], old.top_height, p[2])},
         new.mid_color = old.mid_color, new.mid_height = old.mid_height,
         new.bg_color = Blend(old.bg_color, ColorAt(p, h)), new.bg_color.alpha # Full
  PROVE  Found(p, h - 1, new)
<1>1. /\ FirstFound(p, old) /\ old.fg_color.alpha # Full
      /\ old.block_light = get_block_light(p[1], First(p), p[2])
      /\ SecondFound(p, old) /\ old.mid_color.alpha # Full
      /\ Below(p, First(p)) # {} /\ h \in Below(p, Second(p))
      /\ Through(p)[h] = Blend(old.bg_color, ColorAt(p, h))
  BY MoreIsSeen
<1>2. \A g \in Seen(p) : g > h => g > h - 1
  BY SeenFromAbove
<1>3. {g \in Seen(p) : g > h - 1} # {} /\ {g \in Below(p, First(p)) : g > h - 1} # {}
  <2>1. {g \in Below(p, First(p)) : g > h} # {}  BY DEF Found
  <2> QED  BY <1>2, <2>1 DEF Below
<1>4. IF Below(p, First(p)) = {} THEN new.bg_color = None
      ELSE /\ new.bg_color = Through(p)[(h - 1) + 1]
           /\ \A g \in ((h - 1) + 1)..(MaxY + 1) : Through(p)[g].alpha # Full
  BY <1>1, BlendGoesOn
<1>5. FirstFound(p, new) /\ new.fg_color.alpha # Full /\ new.block_light = get_block_light(p[1], First(p), p[2])
  BY <1>1 DEF FirstFound
<1>6. SecondFound(p, new) /\ new.mid_color.alpha # Full  BY <1>1 DEF SecondFound
<1> QED  BY <1>3, <1>4, <1>5, <1>6 DEF Found

\* A column that is looked at to the bottom has no ground.
LEMMA BottomIsDone ==
  ASSUME NEW p, NEW found, Found(p, -1, found), found.opaque_height = 0
  PROVE  Done(p, found)
<1> SUFFICES ASSUME Seen(p) # {} PROVE Done(p, found)  BY DEF Done
<1>1. MaxY \in Nat /\ Seen(p) \subseteq 0..MaxY /\ First(p) \in Seen(p) /\ -1 + 1 = 0
  BY SeenFromAbove
<1>2. \A g \in Seen(p) : g > -1  BY <1>1
<1>3. FirstFound(p, found) /\ found.fg_color.alpha # Full
      /\ found.block_light = get_block_light(p[1], First(p), p[2])
  BY <1>1, <1>2 DEF Found
<1>4. CASE Below(p, First(p)) = {}
  <2>1. Ground(p) = [height |-> 0, color |-> None]  BY <1>3, <1>4 DEF Ground, FirstFound
  <2>2. found.bg_color = None  BY <1>4 DEF Found
  <2> QED  BY <1>3, <1>4, <2>1, <2>2 DEF Done
<1>5. CASE Below(p, First(p)) # {}
  <2>1. SecondFound(p, found) /\ found.mid_color.alpha # Full
    <3>1. \A g \in Below(p, First(p)) : g > -1  BY <1>2 DEF Below
    <3>2. {g \in Below(p, First(p)) : g > -1} # {}  BY <1>5, <3>1
    <3> QED  BY <3>2 DEF Found
  <2>2. /\ found.bg_color = Through(p)[0]
        /\ \A g \in 0..(MaxY + 1) : Through(p)[g].alpha # Full
    BY <1>1, <1>5 DEF Found
  <2>3. {g \in Below(p, Second(p)) : Through(p)[g].alpha = Full} = {}
    <3>1. \A g \in Below(p, Second(p)) : g \in 0..(MaxY + 1)  BY <1>1 DEF Below
    <3> QED  BY <2>2, <3>1
  <2>4. Ground(p) = [height |-> 0, color |-> Through(p)[0]]
    BY <1>3, <1>5, <2>1, <2>3 DEF Ground, FirstFound, SecondFound
  <2> QED  BY <1>3, <2>1, <2>2, <2>4 DEF Done
<1> QED  BY <1>4, <1>5

\* The end of a column leaves what the property says.
LEMMA DoneIsFound ==
  ASSUME NEW p, NEW old \in Layers, Done(p, old),
         NEW new, new = [old EXCEPT !.bg_color.alpha = Full,
                                    !.fg_color = IF old.top_height = old.opaque_height THEN None ELSE @,
                                    !.mid_color = IF old.top_height = old.opaque_height
                                                     \/ old.mid_height = old.opaque_height THEN None ELSE @]
  PROVE  LayersFound(p, new)
<1> DEFINE one == old.top_height = old.opaque_height
           second == old.mid_height = old.opaque_height
<1>1. /\ new.bg_color = [old.bg_color EXCEPT !.alpha = Full]
      /\ new.fg_color = IF one THEN None ELSE old.fg_color
      /\ new.mid_color = IF one \/ second THEN None ELSE old.mid_color
      /\ new.top_height = old.top_height /\ new.mid_height = old.mid_height
      /\ new.opaque_height = old.opaque_height /\ new.flags = old.flags
      /\ new.block_light = old.block_light
  BY DEF Layers
<1> SUFFICES ASSUME Seen(p) # {} PROVE LayersFound(p, new)  BY DEF LayersFound
<1>2. /\ FirstFound(p, old)
      /\ old.opaque_height = Ground(p).height /\ old.bg_color = Ground(p).color
      /\ First(p) # Ground(p).height =>
           /\ old.block_light = get_block_light(p[1], First(p), p[2])
           /\ Below(p, First(p)) # {} => SecondFound(p, old)
  BY DEF Done
<1> QED  BY <1>1, <1>2 DEF LayersFound, FirstFound, SecondFound

\* The chunk stays as it is while it is scanned, and so does what is seen.
LEMMA ColumnsKept ==
  ASSUME UNCHANGED chunkVars, nether' = nether
  PROVE  /\ Whole' = Whole /\ MaxY' = MaxY
         /\ \A p : Seen(p)' = Seen(p)
         /\ \A p, h : Column(p, h)' = Column(p, h)
         /\ \A p, h, found : Found(p, h, found)' <=> Found(p, h, found)
         /\ \A p, found : Done(p, found)' <=> Done(p, found)
         /\ \A p, found : LayersFound(p, found)' <=> LayersFound(p, found)
<1>1. document' = document /\ palettes' = palettes /\ block_lights' = block_lights
  BY DEF chunkVars
<1>2. Whole' = Whole  BY <1>1 DEF Whole, OneForEachY
<1>3. MaxY' = MaxY
  <2>1. get_max_height' = get_max_height  BY <1>1 DEF get_max_height
  <2> QED  BY <2>1 DEF MaxY
<1>4. \A p, h : Column(p, h)' = Column(p, h)  BY <1>1 DEF Column, Stored
<1>5. \A p, h : ColorAt(p, h)' = ColorAt(p, h)  BY <1>4 DEF ColorAt
<1>6. \A p : Seen(p)' = Seen(p)  BY <1>3, <1>4, <1>5 DEF Seen
<1>7. \A p : First(p)' = First(p)  BY <1>6 DEF First
<1>8. \A p, h : Below(p, h)' = Below(p, h)  BY <1>6 DEF Below
<1>9. \A p : Second(p)' = Second(p)  BY <1>7, <1>8 DEF Second
<1>10. \A p : Through(p)' = Through(p)  BY <1>3, <1>5, <1>8, <1>9 DEF Through
<1>11. \A p : Ground(p)' = Ground(p)  BY <1>5, <1>7, <1>8, <1>9, <1>10 DEF Ground
<1>12. \A a, h, b : get_block_light(a, h, b)' = get_block_light(a, h, b)
  BY <1>1 DEF get_block_light
<1>13. \A p, found : FirstFound(p, found)' <=> FirstFound(p, found)
  BY <1>4, <1>5, <1>7 DEF FirstFound
<1>14. \A p, found : SecondFound(p, found)' <=> SecondFound(p, found)
  BY <1>5, <1>9 DEF SecondFound
<1>15. \A p, h, found : Found(p, h, found)' <=> Found(p, h, found)
  BY <1>3, <1>6, <1>7, <1>8, <1>10, <1>12, <1>13, <1>14 DEF Found
<1>16. \A p, found : Done(p, found)' <=> Done(p, found)
  BY <1>6, <1>7, <1>8, <1>11, <1>12, <1>13, <1>14 DEF Done
<1>17. \A p, found : LayersFound(p, found)' <=> LayersFound(p, found)
  BY <1>4, <1>5, <1>6, <1>7, <1>8, <1>9, <1>11, <1>12 DEF LayersFound
<1> QED  BY <1>2, <1>3, <1>4, <1>6, <1>15, <1>16, <1>17

InColumn == pc = "scanning" /\ y \in 0..MaxY /\ <<x, z>> \in Pixels /\ Walked(<<x, z>>, y)

\* The block that is looked at is seen if it is not passed over and has a color.
LEMMA BlockIsSeen ==
  ASSUME KeptInv, StoredInv, outcome = "built", Whole, InColumn, NEW block \in Blocks
  PROVE  /\ block = Column(<<x, z>>, y)
         /\ y \in Seen(<<x, z>>) <=>
              block # "air" /\ ~Unseen(block) /\ block \in DOMAIN Colors /\ Colors[block] # None
         /\ block \in DOMAIN Colors => ColorAt(<<x, z>>, y) = Colors[block]
<1> DEFINE p == <<x, z>>
<1>1. y \in Heights
  <2>1. MaxY \in Heights /\ SectionCount * Width - 1 \in Int  BY MaxYIsHeight, SizesAssumption
  <2> QED  BY <2>1 DEF InColumn, Heights
<1>2. x \in Places /\ z \in Places  BY DEF InColumn, Pixels
<1>3. block = Column(p, y)
  <2>1. Blocks = get_block(x, y, z)  BY DEF Blocks, InLoop, InColumn
  <2>2. get_block(x, y, z) = {Stored(x, y, z)}  BY <1>1, <1>2, BlocksStored DEF BlockIsTheOneStored
  <2> QED  BY <2>1, <2>2 DEF Column
<1>4. ColorAt(p, y) = IF block \in DOMAIN Colors THEN Colors[block] ELSE None
  BY <1>3 DEF ColorAt
<1>5. y \in 0..MaxY /\ MaxY \in Nat /\ Walked(p, y)  BY SeenFromAbove DEF InColumn
<1>6. y \in Seen(p) <=>
        /\ ColorAt(p, y) # None
        /\ y = MaxY \/ Column(p, y + 1) # block
        /\ nether => air_found
  BY <1>3, <1>5 DEF Seen, Walked
<1>7. block = "air" \/ block = "" => ColorAt(p, y) = None
  BY <1>4, TableAssumption
<1>8. ColorAt(p, y) # None =>
        (~Unseen(block) <=> (y = MaxY \/ Column(p, y + 1) # block) /\ (nether => air_found))
  <2>1. CASE y = MaxY  BY <1>5, <1>7, <2>1 DEF Walked, Unseen
  <2>2. CASE y # MaxY
    <3>1. y < MaxY  BY <1>5, <2>2
    <3> QED  BY <1>5, <2>2, <3>1 DEF Walked, Unseen
  <2> QED  BY <2>1, <2>2
<1>9. ColorAt(p, y) # None => block # "air" /\ block \in DOMAIN Colors /\ Colors[block] # None
  BY <1>4, <1>7
<1> QED  BY <1>3, <1>4, <1>6, <1>8, <1>9

\* Whatever is done with the block, the next one below it is looked at with what is known
\* of this one.
LEMMA WalkedOn ==
  ASSUME KeptInv, StoredInv, outcome = "built", Whole, InColumn, NEW block \in Blocks,
         UNCHANGED chunkVars, UNCHANGED <<nether, x, z>>, y' = y - 1,
         \/ block = "air" /\ air_found' = TRUE /\ prev_block' = "air"
         \/ block # "air" /\ Unseen(block) /\ UNCHANGED <<air_found, prev_block>>
         \/ Look(block)
  PROVE  y' <= MaxY' /\ Walked(<<x, z>>, y)' 
<1> DEFINE p == <<x, z>>
<1>1. /\ MaxY' = MaxY /\ (\A h : Column(p, h)' = Column(p, h)) /\ p' = p
  BY ColumnsKept
<1>2. y \in 0..MaxY /\ MaxY \in Nat /\ Walked(p, y) /\ block = Column(p, y)
  BY SeenFromAbove, BlockIsSeen DEF InColumn
<1>3. y' <= MaxY /\ y' + 1 = y /\ y' # MaxY /\ y' < MaxY  BY <1>2
<1>4. \A g : g \in y..MaxY <=> g = y \/ g \in (y + 1)..MaxY  BY <1>2
<1>5. air_found' <=> \E g \in y..MaxY : Column(p, g) = "air"
  <2>1. block = "air" => air_found' /\ \E g \in y..MaxY : Column(p, g) = "air"
    BY <1>2, <1>4 DEF Look
  <2>2. block # "air" => air_found' = air_found  BY DEF Look
  <2>3. block # "air" => ((\E g \in y..MaxY : Column(p, g) = "air")
                          <=> \E g \in (y + 1)..MaxY : Column(p, g) = "air")
    BY <1>2, <1>4
  <2>4. air_found <=> \E g \in (y + 1)..MaxY : Column(p, g) = "air"  BY <1>2 DEF Walked
  <2>5. CASE block = "air"  BY <2>1, <2>5
  <2>6. CASE block # "air"
    <3>1. air_found' = air_found  BY <2>2, <2>6
    <3>2. air_found' <=> air_found  BY <3>1
    <3>3. air_found <=> \E g \in y..MaxY : Column(p, g) = "air"  BY <2>3, <2>4, <2>6
    <3> QED  BY <3>2, <3>3
  <2> QED  BY <2>5, <2>6
<1>6. (nether => air_found') => prev_block' = Column(p, y)
  BY <1>2 DEF Walked, Look, Unseen
<1> QED  BY <1>1, <1>3, <1>5, <1>6 DEF Walked

\* A step in a column: only its own pixel changes.
LEMMA OthersKept ==
  ASSUME ScanInv, InScan, Completed, Whole, UNCHANGED chunkVars, UNCHANGED <<nether, x, z>>,
         NEW new, Set(new)
  PROVE  pixel' = new /\ Completed'
<1>1. pixels \in [Pixels -> Layers] /\ <<x, z>> \in Pixels  BY DEF ScanInv, InScan, Pixels
<1>2. pixels'[<<x, z>>] = new /\ \A p \in Pixels : p # <<x, z>> => pixels'[p] = pixels[p]
  BY <1>1 DEF Set
<1>3. pixel' = new  BY <1>2 DEF pixel
<1>4. \A p \in Pixels : Behind(p)' => Behind(p) /\ p # <<x, z>>
  BY DEF Behind, InScan, Pixels, Places
<1>5. \A p \in Pixels : Behind(p)' => LayersFound(p, pixels'[p])
  BY <1>2, <1>4 DEF Completed
<1>6. \A p, found : LayersFound(p, found)' <=> LayersFound(p, found)  BY ColumnsKept
<1>7. \A p \in Pixels : LayersFound(p, pixels'[p]) => LayersFound(p, pixels[p])'
  BY <1>6
<1>8. Completed'  BY <1>5, <1>7 DEF Completed
<1> QED  BY <1>3, <1>8

LEMMA SurfaceGoesOn ==
  ASSUME ScanInv, SurfaceInv, InColumn, InScan, Completed, Whole, UNCHANGED chunkVars,
         UNCHANGED <<nether, x, z>>, outcome = "built", pc' = "scanning", y' = y - 1,
         y' <= MaxY', Walked(<<x, z>>, y)',
         NEW new, Set(new), Found(<<x, z>>, y - 1, new)
  PROVE  SurfaceInv'
<1>1. pixel' = new /\ Completed'  BY OthersKept
<1>2. Found(<<x, z>>, y, pixel)'  
  <2>1. Found(<<x', z'>>, y', pixel')  BY <1>1
  <2>2. \A p, h, found : Found(p, h, found)' <=> Found(p, h, found)  BY ColumnsKept
  <2> QED  BY <2>1, <2>2
<1>3. outcome' = "built"  BY DEF chunkVars
<1> QED  BY <1>1, <1>2, <1>3 DEF SurfaceInv

LEMMA SurfaceLeaves ==
  ASSUME ScanInv, SurfaceInv, InScan, Completed, Whole, UNCHANGED chunkVars,
         UNCHANGED <<nether, x, z>>, outcome = "built", pc' = "leaving",
         NEW new, Set(new), Done(<<x, z>>, new)
  PROVE  SurfaceInv'
<1>1. pixel' = new /\ Completed'  BY OthersKept
<1>2. Done(<<x, z>>, pixel)'
  <2>1. Done(<<x', z'>>, pixel')  BY <1>1
  <2>2. \A p, found : Done(p, found)' <=> Done(p, found)  BY ColumnsKept
  <2> QED  BY <2>1, <2>2
<1>3. outcome' = "built"  BY DEF chunkVars
<1> QED  BY <1>1, <1>2, <1>3 DEF SurfaceInv

\* Where the body of the loop stands.
LEMMA AtBlock ==
  ASSUME KeptInv, StoredInv, ScanInv, SurfaceInv, Whole, NEW block \in Blocks,
         UNCHANGED chunkVars, Look(block) \/ SeeAir(block) \/ PassOver(block)
  PROVE  /\ outcome = "built" /\ InColumn /\ InScan /\ Completed
         /\ y \in 0..MaxY /\ MaxY \in Nat /\ pc = "scanning" /\ <<x, z>> \in Pixels
         /\ pixel \in Layers /\ Begun(pixel, y) /\ Found(<<x, z>>, y, pixel)
<1>1. pc = "scanning" /\ y >= 0
  BY DEF Blocks, InLoop
<1>2. /\ InScan /\ y \in Int /\ MaxY \in Nat /\ <<x, z>> \in Pixels
      /\ pixel \in Layers /\ Begun(pixel, y)
  BY <1>1, SeenFromAbove DEF ScanInv, InScan, Heights, Pixels, pixel
<1>3. /\ outcome = "built" /\ y <= MaxY /\ Walked(<<x, z>>, y)
      /\ Found(<<x, z>>, y, pixel) /\ Completed
  BY <1>1 DEF SurfaceInv
<1> QED  BY <1>1, <1>2, <1>3 DEF InColumn

\* Of the bodies of the loop that see nothing new.
LEMMA NothingNew ==
  ASSUME KeptInv, StoredInv, ScanInv, SurfaceInv, Whole, NEW block \in Blocks,
         UNCHANGED chunkVars, SeeAir(block) \/ PassOver(block) \/ SeeUnknown(block)
  PROVE  SurfaceInv'
<1> DEFINE p == <<x, z>>
           lit == [pixel EXCEPT !.block_light = get_block_light(x, pixel.top_height, z)]
<1>1. /\ outcome = "built" /\ InColumn /\ InScan /\ Completed
      /\ y \in 0..MaxY /\ MaxY \in Nat /\ pc = "scanning" /\ p \in Pixels
      /\ p[1] = x /\ p[2] = z
      /\ pixel \in Layers /\ Found(p, y, pixel)
  BY AtBlock DEF SeeUnknown
<1>2. y \notin Seen(p)
  BY <1>1, BlockIsSeen DEF SeeAir, PassOver, SeeUnknown
<1>3. GoDown
  BY DEF SeeAir, PassOver, SeeUnknown, GoDownWithLight
<1>4. UNCHANGED <<nether, x, z>> /\ y' = y - 1 /\ pc' = "scanning"
  BY <1>1, <1>3 DEF GoDown
<1>5. y' <= MaxY' /\ Walked(p, y)'
  BY <1>1, <1>4, WalkedOn DEF SeeAir, PassOver, SeeUnknown
<1>6. Set(pixel) \/ Set(lit)
  <2>1. pixels = [pixels EXCEPT ![<<x, z>>] = pixels[<<x, z>>]]  BY <1>1 DEF ScanInv
  <2> QED  BY <2>1 DEF SeeAir, PassOver, SeeUnknown, GoDownWithLight, Set, pixel
<1>7. /\ lit.fg_color = pixel.fg_color /\ lit.mid_color = pixel.mid_color
      /\ lit.bg_color = pixel.bg_color /\ lit.flags = pixel.flags
      /\ lit.top_height = pixel.top_height /\ lit.mid_height = pixel.mid_height
      /\ lit.block_light = get_block_light(x, pixel.top_height, z)
  BY <1>1 DEF Layers
<1> HIDE DEF lit, p
<1>8. Found(p, y - 1, pixel)  BY <1>1, <1>2, NothingSeen
<1>9. Found(p, y - 1, lit)  BY <1>1, <1>2, <1>7, NothingSeen
<1> QED  BY <1>1, <1>4, <1>5, <1>6, <1>8, <1>9, SurfaceGoesOn DEF p

LEMMA FirstSeen ==
  ASSUME KeptInv, StoredInv, ScanInv, SurfaceInv, Whole, NEW block \in Blocks,
         UNCHANGED chunkVars, SeeFirst(block)
  PROVE  SurfaceInv'
<1> DEFINE p == <<x, z>>
           color == Colors[block]
           top == [pixel EXCEPT !.fg_color = color, !.top_height = y, !.flags = @ \cup Tint(block),
                                !.top_biome = get_biome(x, y, z)]
           ground == [top EXCEPT !.mid_color = color, !.mid_height = y,
                                 !.bg_color = color, !.opaque_height = y]
           clear == [top EXCEPT !.flags = @ \cup {"IS_TRANSPARENT"}]
           lit == [clear EXCEPT !.block_light = get_block_light(x, clear.top_height, z)]
<1>1. /\ outcome = "built" /\ InColumn /\ InScan /\ Completed
      /\ y \in 0..MaxY /\ MaxY \in Nat /\ pc = "scanning" /\ p \in Pixels
      /\ p[1] = x /\ p[2] = z
      /\ pixel \in Layers /\ Found(p, y, pixel)
      /\ pixel.fg_color = None /\ block \in DOMAIN Colors /\ Look(block)
  BY AtBlock DEF SeeFirst
<1>2. /\ block = Column(p, y) /\ ColorAt(p, y) = color
      /\ y \in Seen(p) <=> color # None
  BY <1>1, BlockIsSeen DEF Look
<1>3. /\ UNCHANGED <<nether, x, z>>
      /\ \/ color.alpha = Full /\ Set(ground) /\ pc' = "leaving"
         \/ color.alpha # Full /\ Set(lit) /\ pc' = "scanning" /\ y' = y - 1
  BY <1>1 DEF SeeFirst, Leave, GoDownWithLight, GoDown
<1>4. "BIOME_OVERRIDDEN" \notin pixel.flags /\ pixel.mid_color = None
  <2>1. {g \in Seen(p) : g > y} = {}
    BY <1>1, SeenFromAbove DEF Found, FirstFound
  <2>2. {g \in Below(p, First(p)) : g > y} = {}  BY <2>1 DEF Below
  <2> QED  BY <1>1, <2>1, <2>2 DEF Found
<1>5. "BIOME_OVERRIDDEN" \in pixel.flags \cup Tint(block) <=> block \in TintedBlocks
  BY <1>4 DEF Tint
<1>6. /\ top.fg_color = color /\ top.top_height = y /\ top.flags = pixel.flags \cup Tint(block)
      /\ top.mid_color = pixel.mid_color /\ top.bg_color = pixel.bg_color
      /\ DOMAIN top = DOMAIN pixel
  BY <1>1 DEF Layers
<1> HIDE DEF top, color, p
<1>7. CASE color.alpha = Full
  <2>1. /\ ground.fg_color = color /\ ground.top_height = y /\ ground.bg_color = color
        /\ ground.opaque_height = y /\ ground.flags = top.flags
    BY <1>1, <1>6 DEF Layers
  <2>2. color # None  BY <1>7, ColorsAssumption DEF None
  <2> HIDE DEF ground
  <2>3. Done(p, ground)  BY <1>1, <1>2, <1>5, <1>6, <1>7, <2>1, <2>2, FirstIsOpaque
  <2> QED  BY <1>1, <1>3, <1>7, <2>3, SurfaceLeaves DEF p
<1>8. CASE color.alpha # Full
  <2>1. /\ clear.fg_color = color /\ clear.top_height = y /\ clear.mid_color = pixel.mid_color
        /\ clear.bg_color = pixel.bg_color /\ clear.flags = top.flags \cup {"IS_TRANSPARENT"}
        /\ DOMAIN clear = DOMAIN pixel
    BY <1>1, <1>6 DEF Layers
  <2> HIDE DEF clear
  <2>2. /\ lit.fg_color = color /\ lit.top_height = y /\ lit.mid_color = pixel.mid_color
        /\ lit.bg_color = pixel.bg_color /\ lit.flags = clear.flags
        /\ lit.block_light = get_block_light(x, y, z)
    BY <1>1, <2>1 DEF Layers
  <2>3. "BIOME_OVERRIDDEN" \in lit.flags <=> block \in TintedBlocks
    BY <1>5, <1>6, <2>1, <2>2
  <2> HIDE DEF lit
  <2>4. Found(p, y - 1, lit)
    <3>1. CASE color # None
      BY <1>1, <1>2, <1>8, <2>2, <2>3, <3>1, FirstIsTranslucent
    <3>2. CASE color = None
      <4>1. block \notin TintedBlocks  BY <1>1, <3>2, TableAssumption DEF color
      <4>2. "BIOME_OVERRIDDEN" \in lit.flags <=> "BIOME_OVERRIDDEN" \in pixel.flags
        BY <1>4, <2>3, <4>1
      <4> QED  BY <1>1, <1>2, <1>4, <2>2, <3>2, <4>2, NothingSeen
    <3> QED  BY <3>1, <3>2
  <2>5. y' <= MaxY' /\ Walked(<<x, z>>, y)'
    BY <1>1, <1>3, <1>8, WalkedOn
  <2> QED  BY <1>1, <1>3, <1>8, <2>4, <2>5, SurfaceGoesOn DEF p
<1> QED  BY <1>7, <1>8

LEMMA SecondSeen ==
  ASSUME KeptInv, StoredInv, ScanInv, SurfaceInv, Whole, NEW block \in Blocks,
         UNCHANGED chunkVars, SeeSecond(block)
  PROVE  SurfaceInv'
<1> DEFINE p == <<x, z>>
           color == Colors[block]
           second == [pixel EXCEPT !.mid_color = color, !.mid_height = y]
           ground == [second EXCEPT !.bg_color = color, !.opaque_height = y]
           lit == [second EXCEPT !.block_light = get_block_light(x, second.top_height, z)]
<1>1. /\ outcome = "built" /\ InColumn /\ InScan /\ Completed
      /\ y \in 0..MaxY /\ MaxY \in Nat /\ pc = "scanning" /\ p \in Pixels
      /\ p[1] = x /\ p[2] = z
      /\ pixel \in Layers /\ Found(p, y, pixel)
      /\ pixel.fg_color # None /\ pixel.mid_color = None
      /\ block \in DOMAIN Colors /\ Look(block)
  BY AtBlock DEF SeeSecond
<1>2. /\ block = Column(p, y) /\ ColorAt(p, y) = color
      /\ y \in Seen(p) <=> color # None
  BY <1>1, BlockIsSeen DEF Look
<1>3. /\ UNCHANGED <<nether, x, z>>
      /\ \/ color.alpha = Full /\ Set(ground) /\ pc' = "leaving"
         \/ color.alpha # Full /\ Set(lit) /\ pc' = "scanning" /\ y' = y - 1
  BY <1>1 DEF SeeSecond, Leave, GoDownWithLight, GoDown
<1>4. /\ second.fg_color = pixel.fg_color /\ second.top_height = pixel.top_height
      /\ second.flags = pixel.flags /\ second.block_light = pixel.block_light
      /\ second.mid_color = color /\ second.mid_height = y /\ second.bg_color = pixel.bg_color
      /\ DOMAIN second = DOMAIN pixel
  BY <1>1 DEF Layers
<1> HIDE DEF second, color, p
<1>5. CASE color.alpha = Full
  <2>1. /\ ground.fg_color = second.fg_color /\ ground.top_height = second.top_height
        /\ ground.flags = second.flags /\ ground.block_light = second.block_light
        /\ ground.mid_color = second.mid_color /\ ground.mid_height = second.mid_height
        /\ ground.bg_color = color /\ ground.opaque_height = y
    BY <1>1, <1>4 DEF Layers
  <2>2. color # None  BY <1>5, ColorsAssumption DEF None
  <2> HIDE DEF ground
  <2>3. Done(p, ground)  BY <1>1, <1>2, <1>4, <1>5, <2>1, <2>2, SecondIsOpaque
  <2> QED  BY <1>1, <1>3, <1>5, <2>3, SurfaceLeaves DEF p
<1>6. CASE color.alpha # Full
  <2>1. /\ lit.fg_color = pixel.fg_color /\ lit.top_height = pixel.top_height
        /\ lit.flags = pixel.flags /\ lit.block_light = get_block_light(x, pixel.top_height, z)
        /\ lit.mid_color = color /\ lit.mid_height = y /\ lit.bg_color = pixel.bg_color
    BY <1>1, <1>4 DEF Layers
  <2> HIDE DEF lit
  <2>2. CASE color # None
    <3>1. Found(p, y - 1, lit)  BY <1>1, <1>2, <1>6, <2>1, <2>2, SecondIsTranslucent
    <3>2. y' <= MaxY' /\ Walked(<<x, z>>, y)'  BY <1>1, <1>3, <1>6, WalkedOn
    <3> QED  BY <1>1, <1>3, <1>6, <3>1, <3>2, SurfaceGoesOn DEF p
  <2>3. CASE color = None
    <3>1. Found(p, y - 1, lit)  BY <1>1, <1>2, <2>1, <2>3, NothingSeen
    <3>2. y' <= MaxY' /\ Walked(<<x, z>>, y)'  BY <1>1, <1>3, <1>6, WalkedOn
    <3> QED  BY <1>1, <1>3, <1>6, <3>1, <3>2, SurfaceGoesOn DEF p
  <2> QED  BY <2>2, <2>3
<1> QED  BY <1>5, <1>6

LEMMA MoreSeen ==
  ASSUME KeptInv, StoredInv, ScanInv, SurfaceInv, Whole, NEW block \in Blocks,
         UNCHANGED chunkVars, SeeMore(block)
  PROVE  SurfaceInv'
<1> DEFINE p == <<x, z>>
           color == Blend(pixel.bg_color, Colors[block])
           more == [pixel EXCEPT !.bg_color = color]
           ground == [more EXCEPT !.opaque_height = y]
           lit == [more EXCEPT !.block_light = get_block_light(x, more.top_height, z)]
<1>1. /\ outcome = "built" /\ InColumn /\ InScan /\ Completed
      /\ y \in 0..MaxY /\ MaxY \in Nat /\ pc = "scanning" /\ p \in Pixels
      /\ p[1] = x /\ p[2] = z
      /\ pixel \in Layers /\ Found(p, y, pixel)
      /\ pixel.fg_color # None /\ pixel.mid_color # None
      /\ block \in DOMAIN Colors /\ Look(block)
  BY AtBlock DEF SeeMore
<1>2. /\ block = Column(p, y) /\ ColorAt(p, y) = Colors[block]
      /\ y \in Seen(p) <=> Colors[block] # None
  BY <1>1, BlockIsSeen DEF Look
<1>3. more.bg_color = color
  BY <1>1 DEF Layers
<1>4. /\ UNCHANGED <<nether, x, z>>
      /\ \/ color.alpha = Full /\ Set(ground) /\ pc' = "leaving"
         \/ color.alpha # Full /\ Set(lit) /\ pc' = "scanning" /\ y' = y - 1
  BY <1>1, <1>3 DEF SeeMore, Leave, GoDownWithLight, GoDown
<1>5. /\ more.fg_color = pixel.fg_color /\ more.top_height = pixel.top_height
      /\ more.flags = pixel.flags /\ more.block_light = pixel.block_light
      /\ more.mid_color = pixel.mid_color /\ more.mid_height = pixel.mid_height
      /\ DOMAIN more = DOMAIN pixel
  BY <1>1 DEF Layers
<1>6. /\ ground.fg_color = pixel.fg_color /\ ground.top_height = pixel.top_height
      /\ ground.flags = pixel.flags /\ ground.block_light = pixel.block_light
      /\ ground.mid_color = pixel.mid_color /\ ground.mid_height = pixel.mid_height
      /\ ground.bg_color = color /\ ground.opaque_height = y
  <2> HIDE DEF more
  <2> QED  BY <1>1, <1>3, <1>5 DEF Layers
<1>7. /\ lit.fg_color = pixel.fg_color /\ lit.top_height = pixel.top_height
      /\ lit.flags = pixel.flags /\ lit.block_light = get_block_light(x, pixel.top_height, z)
      /\ lit.mid_color = pixel.mid_color /\ lit.mid_height = pixel.mid_height
      /\ lit.bg_color = color
  <2> HIDE DEF more
  <2> QED  BY <1>1, <1>3, <1>5 DEF Layers
<1> HIDE DEF more, ground, lit, p
<1>8. CASE Colors[block] # None
  <2>1. y \in Seen(p) /\ color = Blend(pixel.bg_color, ColorAt(p, y))  BY <1>2, <1>8
  <2> HIDE DEF color
  <2>2. CASE color.alpha = Full
    <3>1. Done(p, ground)  BY <1>1, <1>6, <2>1, <2>2, MoreIsOpaque
    <3> QED  BY <1>1, <1>4, <2>2, <3>1, SurfaceLeaves DEF p
  <2>3. CASE color.alpha # Full
    <3>1. Found(p, y - 1, lit)  BY <1>1, <1>7, <2>1, <2>3, MoreIsTranslucent
    <3>2. y' <= MaxY' /\ Walked(<<x, z>>, y)'  BY <1>1, <1>4, <2>3, WalkedOn
    <3> QED  BY <1>1, <1>4, <2>3, <3>1, <3>2, SurfaceGoesOn DEF p
  <2> QED  BY <2>2, <2>3
<1>9. CASE Colors[block] = None
  <2>1. color = pixel.bg_color  BY <1>9 DEF Blend, None
  <2>2. color.alpha # Full
    <3>1. None.alpha # Full  BY ColorsAssumption DEF None
    <3>2. y + 1 \in (y + 1)..(MaxY + 1)  BY <1>1
    <3> QED  BY <1>1, <2>1, <3>1, <3>2 DEF Found
  <2> HIDE DEF color
  <2>3. Found(p, y - 1, lit)  BY <1>1, <1>2, <1>7, <1>9, <2>1, NothingSeen
  <2>4. y' <= MaxY' /\ Walked(<<x, z>>, y)'  BY <1>1, <1>4, <2>2, WalkedOn
  <2> QED  BY <1>1, <1>4, <2>2, <2>3, <2>4, SurfaceGoesOn DEF p
<1> QED  BY <1>8, <1>9

\* A column begins with nothing found.
LEMMA BlankIsFound ==
  ASSUME NEW p PROVE Found(p, MaxY, Blank)
<1>1. MaxY \in Nat /\ Seen(p) \subseteq 0..MaxY  BY SeenFromAbove
<1>2. {g \in Seen(p) : g > MaxY} = {}  BY <1>1
<1>3. {g \in Below(p, First(p)) : g > MaxY} = {}  BY <1>1 DEF Below
<1>4. Through(p)[MaxY + 1] = None /\ None.alpha # Full
  BY ThroughUnfolds, ColorsAssumption DEF None
<1>5. \A g \in (MaxY + 1)..(MaxY + 1) : g = MaxY + 1  BY <1>1
<1> QED  BY <1>2, <1>3, <1>4, <1>5 DEF Found, Blank

LEMMA WalkBegins == prev_block = "" /\ ~air_found => \A p : Walked(p, MaxY)
<1>1. MaxY \in Nat  BY SeenFromAbove
<1>2. \A n \in Nat : ~(n < n) /\ \A g \in (n + 1)..n : FALSE  OBVIOUS
<1>3. ~(MaxY < MaxY) /\ \A g \in (MaxY + 1)..MaxY : FALSE  BY <1>1, <1>2
<1> QED  BY <1>3 DEF Walked

LEMMA SurfaceInit == Init => SurfaceInv
  BY DEF Init, ChunkInit, ScanInit, SurfaceInv

LEMMA SurfaceBegins ==
  ASSUME ScanInv, ScanInv', SurfaceInv, Begin, UNCHANGED chunkVars
  PROVE  SurfaceInv'
<1>1. /\ pc = "idle" /\ outcome = "built" /\ pc' = "scanning" /\ y' = MaxY
      /\ UNCHANGED <<nether, x, z, air_found, prev_block, pixels>>
  BY DEF Begin
<1>2. /\ x = 0 /\ z = 0 /\ (\A p \in Pixels : pixels[p] = Blank)
      /\ prev_block = "" /\ air_found = FALSE
  BY <1>1 DEF ScanInv, SurfaceInv
<1>3. MaxY' = MaxY  BY <1>1, ColumnsKept
<1>4. MaxY \in Nat /\ <<x, z>> \in Pixels
  <2>1. 0 \in Places  BY SizesAssumption DEF Places
  <2> QED  BY <1>2, <2>1, SeenFromAbove DEF Pixels
<1>5. Walked(<<x, z>>, y)'
  <2>1. Walked(<<x, z>>, MaxY)  BY <1>2, WalkBegins
  <2>2. \A p, h : Column(p, h)' = Column(p, h)  BY <1>1, ColumnsKept
  <2> QED  BY <1>1, <1>3, <2>1, <2>2 DEF Walked
<1>6. Found(<<x, z>>, y, pixel)'
  <2>1. Found(<<x', z'>>, y', pixel')  BY <1>1, <1>2, <1>4, BlankIsFound DEF pixel
  <2>2. \A p, h, found : Found(p, h, found)' <=> Found(p, h, found)  BY <1>1, ColumnsKept
  <2> QED  BY <2>1, <2>2
<1>7. Completed'
  <2>1. \A p \in Pixels : ~Behind(p)'
    <3>1. x' = 0 /\ z' = 0  BY <1>1, <1>2
    <3> QED  BY <3>1, SizesAssumption DEF Behind, Pixels, Places
  <2> QED  BY <2>1 DEF Completed
<1>8. outcome' = "built" /\ y' <= MaxY'  BY <1>1, <1>3, <1>4 DEF chunkVars
<1> QED  BY <1>1, <1>5, <1>6, <1>7, <1>8 DEF SurfaceInv

LEMMA SurfaceEnds ==
  ASSUME ScanInv, SurfaceInv, Whole, Bottom, UNCHANGED chunkVars
  PROVE  SurfaceInv'
<1>1. /\ pc = "scanning" /\ pc' = "leaving" /\ y < 0 /\ UNCHANGED <<nether, x, y, z, pixels>>
  BY DEF Bottom, locals
<1>2. /\ InScan /\ Begun(pixel, y) /\ pixels \in [Pixels -> Layers] /\ <<x, z>> \in Pixels
      /\ y = -1
  BY <1>1, SizesAssumption DEF ScanInv, InScan, Heights, Pixels
<1>3. outcome = "built" /\ Found(<<x, z>>, -1, pixel) /\ Completed
  BY <1>1, <1>2 DEF SurfaceInv
<1>4. Done(<<x, z>>, pixel)  BY <1>2, <1>3, BottomIsDone DEF Begun
<1>5. Set(pixel)
  <2>1. pixels = [pixels EXCEPT ![<<x, z>>] = pixels[<<x, z>>]]  BY <1>2
  <2> QED  BY <1>1, <2>1 DEF Set, pixel
<1> QED  BY <1>1, <1>2, <1>3, <1>4, <1>5, SurfaceLeaves

\* A column is finished: what was found of it is what the property says.
LEMMA ColumnFinished ==
  ASSUME ScanInv, ScanInv', SurfaceInv, Whole, Finish, UNCHANGED chunkVars
  PROVE  SurfaceInv'
<1> DEFINE new == [pixel EXCEPT !.bg_color.alpha = Full,
                     !.fg_color = IF pixel.top_height = pixel.opaque_height THEN None ELSE @,
                     !.mid_color = IF pixel.top_height = pixel.opaque_height
                                      \/ pixel.mid_height = pixel.opaque_height THEN None ELSE @]
<1>1. /\ pc = "leaving" /\ Set(new) /\ y' = MaxY /\ nether' = nether
      /\ x' = (x + 1) % Width /\ z' = (IF x' = 0 THEN z + 1 ELSE z)
      /\ pc' = (IF z' = Width THEN "scanned" ELSE "scanning")
      /\ air_found' = FALSE /\ prev_block' = ""
  BY DEF Finish
<1>2. /\ InScan /\ pixel \in Layers /\ x \in Places /\ z \in Places
      /\ pixels \in [Pixels -> Layers] /\ <<x, z>> \in Pixels /\ Width \in Nat \ {0, 1}
  BY <1>1, SizesAssumption DEF ScanInv, InScan, Pixels, pixel
<1>3. Done(<<x, z>>, pixel) /\ Completed /\ outcome = "built"  BY <1>1 DEF SurfaceInv
<1>4. LayersFound(<<x, z>>, new)  BY <1>2, <1>3, DoneIsFound
<1> HIDE DEF new
<1>5. /\ pixels'[<<x, z>>] = new
      /\ \A p \in Pixels : p # <<x, z>> => pixels'[p] = pixels[p]
  BY <1>1, <1>2 DEF Set
<1>6. \/ x + 1 < Width /\ x' = x + 1 /\ z' = z
      \/ x + 1 = Width /\ x' = 0 /\ z' = z + 1
  <2>1. x' = (x + 1) % Width /\ z' = (IF x' = 0 THEN z + 1 ELSE z)  BY <1>1
  <2>2. x \in 0..(Width - 1) /\ Width \in Nat \ {0, 1}  BY <1>2 DEF Places
  <2> QED  BY <2>1, <2>2
<1>7. \A p \in Pixels : Behind(p)' => p = <<x, z>> \/ Behind(p)
  <2> SUFFICES ASSUME NEW a \in Places, NEW b \in Places, Behind(<<a, b>>)'
               PROVE  <<a, b>> = <<x, z>> \/ Behind(<<a, b>>)
    BY DEF Pixels
  <2> QED  BY <1>2, <1>6 DEF Behind, Places
<1>8. \A p \in Pixels : Behind(p)' => LayersFound(p, pixels'[p])
  BY <1>2, <1>3, <1>4, <1>5, <1>7 DEF Completed, InScan, Behind
<1>9. \A p, found : LayersFound(p, found)' <=> LayersFound(p, found)  BY <1>1, ColumnsKept
<1>10. Completed'  BY <1>8, <1>9 DEF Completed
<1>11. outcome' = "built"  BY <1>3 DEF chunkVars
<1>12. CASE z' = Width
  <2>1. \A p \in Pixels : Behind(p)'  BY <1>2, <1>12 DEF Behind, Pixels, Places
  <2>2. \A p \in Pixels : LayersFound(p, pixels[p])'  BY <2>1, <1>10 DEF Completed
  <2> QED  BY <1>1, <1>11, <1>12, <2>2 DEF SurfaceInv
<1>13. CASE z' # Width
  <2>1. x' \in Places /\ z' \in Places  BY <1>2, <1>6, <1>13 DEF Places
  <2>2. pixel' = Blank
    <3>1. <<x', z'>> \in Pixels  BY <2>1 DEF Pixels
    <3>2. <<x', z'>> # <<x, z>> /\ Ahead(<<x', z'>>)  BY <1>2, <1>6 DEF Ahead, Places
    <3> QED  BY <1>2, <1>5, <3>1, <3>2 DEF InScan, pixel
  <2>3. MaxY' = MaxY /\ MaxY \in Nat  BY <1>1, ColumnsKept, SeenFromAbove
  <2>4. Found(<<x, z>>, y, pixel)'
    <3>1. Found(<<x', z'>>, y', pixel')  BY <1>1, <2>2, BlankIsFound
    <3>2. \A p, h, found : Found(p, h, found)' <=> Found(p, h, found)  BY <1>1, ColumnsKept
    <3> QED  BY <3>1, <3>2
  <2>5. Walked(<<x, z>>, y)'
    <3>1. \A n \in Nat : ~(n < n) /\ \A g \in (n + 1)..n : FALSE  OBVIOUS
    <3>2. y' = MaxY' /\ MaxY' \in Nat  BY <1>1, <2>3
    <3>3. ~(y' < MaxY') /\ \A g \in (y' + 1)..MaxY' : FALSE  BY <3>1, <3>2
    <3> QED  BY <1>1, <3>2, <3>3 DEF Walked
  <2>6. y' <= MaxY'
    <3>1. y' = MaxY' /\ MaxY' \in Nat  BY <1>1, <2>3
    <3> QED  BY <3>1
  <2> QED  BY <1>1, <1>10, <1>11, <1>13, <2>4, <2>5, <2>6 DEF SurfaceInv
<1> QED  BY <1>12, <1>13

LEMMA SurfaceStep ==
  KeptInv /\ StoredInv /\ ScanInv /\ ScanInv' /\ SurfaceInv /\ [Next]_allVars => SurfaceInv'
<1> SUFFICES ASSUME KeptInv, StoredInv, ScanInv, ScanInv', SurfaceInv, [Next]_allVars
             PROVE  SurfaceInv'
  OBVIOUS
<1>1. CASE ChunkNext /\ UNCHANGED <<scanVars, pixelVars>>
  <2>1. pc = "idle" /\ UNCHANGED <<pc, prev_block, air_found>>
    BY <1>1 DEF SurfaceInv, ChunkNext, Refuse, SkipSection, ReadSection, ReadFields, AtSection,
       Reading, scanVars, locals
  <2> QED  BY <2>1 DEF SurfaceInv
<1>2. CASE ScanNext /\ UNCHANGED <<chunkVars, pixelVars>>
  <2> USE <1>2
  <2>1. CASE Begin  BY <2>1, SurfaceBegins
  <2>2. CASE ~Whole /\ ~Begin
    <3>1. document' = document  BY DEF chunkVars
    <3>2. Whole' = Whole  BY <3>1 DEF Whole, OneForEachY
    <3>3. outcome' = outcome  BY DEF chunkVars
    <3>4. pc # "idle" /\ pc' # "idle"
      BY <2>2 DEF ScanNext, Bottom, Finish, Blocks, InLoop, SeeAir, PassOver, SeeUnknown, SeeFirst,
         SeeSecond, SeeMore, GoDownWithLight, GoDown, Leave
    <3> QED  BY <2>2, <3>2, <3>3, <3>4 DEF SurfaceInv
  <2>3. CASE Whole /\ Bottom  BY <2>3, SurfaceEnds
  <2>4. CASE Whole /\ Finish  BY <2>4, ColumnFinished
  <2>5. ASSUME Whole, NEW block \in Blocks,
               \/ SeeAir(block) \/ PassOver(block) \/ SeeUnknown(block)
               \/ SeeFirst(block) \/ SeeSecond(block) \/ SeeMore(block)
        PROVE  SurfaceInv'
    BY <2>5, NothingNew, FirstSeen, SecondSeen, MoreSeen
  <2> QED  BY <2>1, <2>2, <2>3, <2>4, <2>5 DEF ScanNext
<1>3. CASE PipelineNext /\ UNCHANGED chunkVars
  <2>1. pc # "idle" /\ pc' \notin {"idle", "scanning", "leaving", "scanned"}
    BY <1>3 DEF PipelineNext, HandleBiomes, InclineRow, NextRow, RowsDone, InclineColumn,
       NextColumnRow, HandleBlockLight, Draw
  <2>2. outcome' = outcome  BY <1>3 DEF chunkVars
  <2> QED  BY <2>1, <2>2 DEF SurfaceInv
<1>4. CASE UNCHANGED allVars
  <2>1. UNCHANGED <<chunkVars, pc, nether, x, z, y, air_found, prev_block, pixels, outcome>>
    BY <1>4 DEF allVars, vars, scanVars, locals, chunkVars
  <2>2. /\ Whole' = Whole /\ MaxY' = MaxY /\ pixel' = pixel
        /\ \A p, h : Column(p, h)' = Column(p, h)
        /\ \A p, h, found : Found(p, h, found)' <=> Found(p, h, found)
        /\ \A p, found : Done(p, found)' <=> Done(p, found)
        /\ \A p, found : LayersFound(p, found)' <=> LayersFound(p, found)
    BY <2>1, ColumnsKept DEF pixel
  <2>3. \A p, h : Walked(p, h)' <=> Walked(p, h)  BY <2>1, <2>2 DEF Walked
  <2>4. Completed' <=> Completed  BY <2>1, <2>2 DEF Completed, Behind
  <2> QED  BY <2>1, <2>2, <2>3, <2>4 DEF SurfaceInv
<1> QED  BY <1>1, <1>2, <1>3, <1>4 DEF Next

\* For every chunk that the game writes whole, every table of colours and in the nether
\* too, the layers that a finished column has are those that are seen from above.
THEOREM LayersAreFound == Spec => []LayersAreSeen
<1>1. Init => KeptInv /\ StoredInv /\ LightInv /\ ScanInv /\ ShadeInv /\ SurfaceInv
  <2>1. Init => ShadeInv  BY DEF Init, ScanInit, ShadeInv
  <2> QED  BY <2>1, KeptInit, StoredInit, LightInit, ScanBegins, SurfaceInit
<1>2. KeptInv /\ StoredInv /\ LightInv /\ ScanInv /\ ShadeInv /\ SurfaceInv /\ [Next]_allVars
        => KeptInv' /\ StoredInv' /\ LightInv' /\ ScanInv' /\ ShadeInv' /\ SurfaceInv'
  BY KeptStep, StoredStep, LightStep, ShadeStep, SurfaceStep
<1>3. SurfaceInv => LayersAreSeen  BY DEF SurfaceInv, LayersAreSeen, Pixels
<1> QED  BY <1>1, <1>2, <1>3, PTL DEF Spec

-----------------------------------------------------------------------------
(* Pieces of sequences, and the numbers up to one. *)

PieceOf(S, s, m, k) ==
  /\ SubSeq(s, m, m + k - 1) \in Seq(S) /\ Len(SubSeq(s, m, m + k - 1)) = k
  /\ \A j \in 1..k : SubSeq(s, m, m + k - 1)[j] = s[m + j - 1]

LEMMA Piece ==
  ASSUME NEW S, NEW s, NEW m \in Int, NEW k \in Nat, \A j \in m..(m + k - 1) : s[j] \in S
  PROVE  PieceOf(S, s, m, k)
<1> DEFINE n == m + k - 1
<1>1. n \in Int /\ n - m + 1 = k /\ (m <= n <=> k # 0) /\ \A j \in m..n : s[j] \in S  OBVIOUS
<1> HIDE DEF n
<1>2. /\ SubSeq(s, m, n) \in Seq(S) /\ Len(SubSeq(s, m, n)) = IF m <= n THEN n - m + 1 ELSE 0
      /\ \A j \in 1..(n - m + 1) : SubSeq(s, m, n)[j] = s[m + j - 1]
  BY <1>1, SubSeqProperties
<1>3. Len(SubSeq(s, m, n)) = k  BY <1>1, <1>2
<1> QED  BY <1>1, <1>2, <1>3 DEF n, PieceOf

LEMMA UpTo ==
  ASSUME NEW S, NEW n \in Nat, 0 \in S, \A m \in 0..(n - 1) : m \in S => m + 1 \in S
  PROVE  \A m \in 0..n : m \in S
<1> SUFFICES ASSUME NEW k \in 0..n, k \notin S PROVE FALSE  OBVIOUS
<1> DEFINE R == {ss \in Nat \X Nat : ss[1] < ss[2]}
           D == {m \in 0..n : m \notin S}
<1>1. D \subseteq Nat /\ k \in D  OBVIOUS
<1>2. IsWellFoundedOn(R, Nat)  BY NatLessThanWellFounded DEF OpToRel
<1>3. PICK m \in D : \A t \in D : ~(<<t, m>> \in R)
  <2> HIDE DEF R, D
  <2> QED  BY <1>1, <1>2, WFMin
<1>4. m # 0 /\ m - 1 \in 0..(n - 1) /\ (m - 1) + 1 = m  OBVIOUS
<1>5. m - 1 \notin D
  <2>1. m - 1 \in Nat /\ m \in Nat /\ m - 1 < m  BY <1>4
  <2>2. <<m - 1, m>> \in R  BY <2>1
  <2> QED  BY <1>3, <2>2
<1>6. m - 1 \in S  BY <1>4, <1>5
<1> QED  BY <1>4, <1>6

Iterated(f, n, a, G) == f[0] = a /\ \A k \in 1..n : f[k] = G[<<k, f[k - 1]>>]

LEMMA Iterates ==
  ASSUME NEW R, NEW n \in Nat, NEW a \in R, NEW G \in [(1..n) \X R -> R]
  PROVE  \E f \in [0..n -> R] : Iterated(f, n, a, G)
<1> DEFINE Good(m, f) == f[0] = a /\ \A k \in 1..m : f[k] = G[<<k, f[k - 1]>>]
           S == {m \in 0..n : \E f \in [0..m -> R] : Good(m, f)}
<1>1. 0 \in S
  <2>1. Good(0, [k \in 0..0 |-> a])  OBVIOUS
  <2>2. [k \in 0..0 |-> a] \in [0..0 -> R]  OBVIOUS
  <2> HIDE DEF Good
  <2> QED  BY <2>1, <2>2
<1>2. ASSUME NEW m \in 0..(n - 1), m \in S PROVE m + 1 \in S
  <2>1. PICK f \in [0..m -> R] : Good(m, f)  BY <1>2
  <2> DEFINE g == [k \in 0..(m + 1) |-> IF k <= m THEN f[k] ELSE G[<<m + 1, f[m]>>]]
  <2>2. m \in 0..m /\ m + 1 \in 1..n /\ m + 1 \in 0..n /\ f[m] \in R  OBVIOUS
  <2>3. G[<<m + 1, f[m]>>] \in R
    <3>1. <<m + 1, f[m]>> \in (1..n) \X R  BY <2>2
    <3> QED  BY <3>1
  <2>4. g \in [0..(m + 1) -> R]  BY <2>3
  <2>5. g[0] = a  BY <2>1
  <2>6. ASSUME NEW k \in 1..(m + 1) PROVE g[k] = G[<<k, g[k - 1]>>]
    <3>1. CASE k \in 1..m
      <4>1. k \in 0..(m + 1) /\ k <= m /\ k - 1 \in 0..(m + 1) /\ k - 1 <= m  BY <3>1
      <4>2. g[k] = f[k] /\ g[k - 1] = f[k - 1]  BY <4>1
      <4>3. f[k] = G[<<k, f[k - 1]>>]  BY <2>1, <3>1
      <4> QED  BY <4>2, <4>3
    <3>2. CASE k = m + 1
      <4>1. k \in 0..(m + 1) /\ ~(k <= m) /\ k - 1 = m /\ m \in 0..(m + 1) /\ m <= m  BY <3>2
      <4>2. g[k] = G[<<m + 1, f[m]>>] /\ g[m] = f[m]  BY <4>1
      <4> QED  BY <3>2, <4>1, <4>2
    <3> QED  BY <3>1, <3>2
  <2> HIDE DEF g
  <2>7. Good(m + 1, g)  BY <2>5, <2>6
  <2> HIDE DEF Good
  <2> QED  BY <2>2, <2>4, <2>7
<1> HIDE DEF S
<1>3. n \in S
  <2>1. \A m \in 0..n : m \in S  BY <1>1, <1>2, UpTo
  <2> QED  BY <2>1
<1> QED  BY <1>3 DEF S, Iterated

LEMMA LeastOf ==
  ASSUME NEW D \in SUBSET Nat, D # {}
  PROVE  \E m \in D : \A t \in D : m <= t
<1> DEFINE R == {ss \in Nat \X Nat : ss[1] < ss[2]}
<1>1. IsWellFoundedOn(R, Nat)  BY NatLessThanWellFounded DEF OpToRel
<1>2. PICK d : d \in D  OBVIOUS
<1>3. PICK m \in D : \A t \in D : ~(<<t, m>> \in R)
  <2> HIDE DEF R
  <2> QED  BY <1>1, <1>2, WFMin
<1>4. ASSUME NEW t \in D PROVE m <= t
  <2>1. t \in Nat /\ m \in Nat  OBVIOUS
  <2>2. ~(t < m)
    <3> SUFFICES ASSUME t < m PROVE FALSE  OBVIOUS
    <3>1. <<t, m>> \in R  BY <2>1
    <3> QED  BY <1>3, <3>1
  <2> QED  BY <2>1, <2>2
<1> QED  BY <1>4

-----------------------------------------------------------------------------
(* The order of the set of block IDs. *)

\* Where a and b differ for the first time, a ends or has the lesser character.
BeforeAt(a, b, i) ==
  /\ i \in 1..Len(b) /\ i <= Len(a) + 1
  /\ \A k \in 1..(i - 1) : a[k] = b[k]
  /\ i <= Len(a) => a[i] < b[i]

LEMMA SameFront ==
  ASSUME NEW a \in Seq(Nat), NEW b \in Seq(Nat), NEW n \in Nat, n <= Len(a), n <= Len(b)
  PROVE  SubSeq(a, 1, n) = SubSeq(b, 1, n) <=> \A k \in 1..n : a[k] = b[k]
<1> DEFINE v == SubSeq(a, 1, 1 + n - 1)
           w == SubSeq(b, 1, 1 + n - 1)
<1>1. (\A k \in 1..(1 + n - 1) : a[k] \in Nat) /\ (\A k \in 1..(1 + n - 1) : b[k] \in Nat)
  OBVIOUS
<1>2. v \in Seq(Nat) /\ Len(v) = n /\ \A k \in 1..n : v[k] = a[1 + k - 1]
  <2>1. PieceOf(Nat, a, 1, n)  BY <1>1, Piece
  <2> QED  BY <2>1 DEF PieceOf
<1>3. w \in Seq(Nat) /\ Len(w) = n /\ \A k \in 1..n : w[k] = b[1 + k - 1]
  <2>1. PieceOf(Nat, b, 1, n)  BY <1>1, Piece
  <2> QED  BY <2>1 DEF PieceOf
<1>4. 1 + n - 1 = n /\ \A k \in 1..n : 1 + k - 1 = k  OBVIOUS
<1> HIDE DEF v, w
<1>5. v = w <=> \A k \in 1..n : a[k] = b[k]
  <2>1. ASSUME \A k \in 1..n : a[k] = b[k] PROVE v = w
    <3>1. ASSUME NEW k \in 1..n PROVE v[k] = w[k]
      <4>1. v[k] = a[1 + k - 1] /\ w[k] = b[1 + k - 1] /\ 1 + k - 1 = k  BY <1>2, <1>3, <1>4
      <4> QED  BY <2>1, <4>1
    <3> QED  BY <1>2, <1>3, <3>1, SeqEqual
  <2>2. ASSUME v = w, NEW k \in 1..n PROVE a[k] = b[k]  BY <1>2, <1>3, <1>4, <2>2
  <2> QED  BY <2>1, <2>2
<1> QED  BY <1>4, <1>5 DEF v, w

LEMMA BeforeIs ==
  ASSUME NEW a \in Seq(Nat), NEW b \in Seq(Nat)
  PROVE  Before(a, b) <=> \E i \in Nat : BeforeAt(a, b, i)
<1>1. ASSUME IsStrictPrefix(a, b) PROVE \E i \in Nat : BeforeAt(a, b, i)
  <2>1. Len(a) <= Len(b) /\ SubSeq(a, 1, Len(a)) = SubSeq(b, 1, Len(a)) /\ a # b
    BY <1>1 DEF IsStrictPrefix, IsPrefix
  <2>2. \A k \in 1..Len(a) : a[k] = b[k]  BY <2>1, SameFront
  <2>3. Len(a) # Len(b)  BY <2>1, <2>2, SeqEqual
  <2> DEFINE i == Len(a) + 1
  <2>4. i \in Nat /\ i \in 1..Len(b) /\ i <= Len(a) + 1 /\ i - 1 = Len(a) /\ ~(i <= Len(a))
    BY <2>1, <2>3
  <2> HIDE DEF i
  <2>5. BeforeAt(a, b, i)  BY <2>2, <2>4 DEF BeforeAt
  <2> QED  BY <2>4, <2>5
<1>2. ASSUME NEW i \in DOMAIN a \cap DOMAIN b, a[i] < b[i], SubSeq(a, 1, i - 1) = SubSeq(b, 1, i - 1)
      PROVE  \E j \in Nat : BeforeAt(a, b, j)
  <2>1. i \in 1..Len(a) /\ i \in 1..Len(b)  OBVIOUS
  <2>2. i - 1 \in Nat /\ i - 1 <= Len(a) /\ i - 1 <= Len(b) /\ i \in Nat /\ i <= Len(a) + 1  BY <2>1
  <2>3. \A k \in 1..(i - 1) : a[k] = b[k]  BY <1>2, <2>2, SameFront
  <2> QED  BY <1>2, <2>1, <2>2, <2>3 DEF BeforeAt
<1>3. ASSUME NEW i \in Nat, BeforeAt(a, b, i) PROVE Before(a, b)
  <2>1. /\ i \in 1..Len(b) /\ i <= Len(a) + 1 /\ \A k \in 1..(i - 1) : a[k] = b[k]
        /\ i <= Len(a) => a[i] < b[i]
    BY <1>3 DEF BeforeAt
  <2>2. i - 1 \in Nat /\ i - 1 <= Len(a) /\ i - 1 <= Len(b)  BY <2>1
  <2>3. SubSeq(a, 1, i - 1) = SubSeq(b, 1, i - 1)  BY <2>1, <2>2, SameFront
  <2>4. CASE i <= Len(a)
    <3>1. i \in DOMAIN a \cap DOMAIN b  BY <2>1, <2>4
    <3> QED  BY <2>1, <2>3, <2>4, <3>1 DEF Before
  <2>5. CASE i = Len(a) + 1
    <3>1. i - 1 = Len(a) /\ Len(a) # Len(b) /\ Len(a) <= Len(b)  BY <2>1, <2>5
    <3>2. IsStrictPrefix(a, b)  BY <2>3, <3>1 DEF IsStrictPrefix, IsPrefix
    <3> QED  BY <3>2 DEF Before
  <2> QED  BY <2>1, <2>4, <2>5
<1> QED  BY <1>1, <1>2, <1>3 DEF Before

LEMMA BeforeIrreflexive ==
  ASSUME NEW a \in Seq(Nat)
  PROVE  ~Before(a, a)
<1>1. ASSUME NEW i \in Nat, BeforeAt(a, a, i) PROVE FALSE
  <2>1. i \in 1..Len(a) /\ (i <= Len(a) => a[i] < a[i])  BY <1>1 DEF BeforeAt
  <2>2. i <= Len(a) /\ a[i] \in Nat  BY <2>1
  <2> QED  BY <2>1, <2>2
<1> QED  BY <1>1, BeforeIs

LEMMA BeforeTransitive ==
  ASSUME NEW a \in Seq(Nat), NEW b \in Seq(Nat), NEW c \in Seq(Nat), Before(a, b), Before(b, c)
  PROVE  Before(a, c)
<1>1. PICK i \in Nat : BeforeAt(a, b, i)  BY BeforeIs
<1>2. PICK j \in Nat : BeforeAt(b, c, j)  BY BeforeIs
<1>3. /\ i \in 1..Len(b) /\ i <= Len(a) + 1 /\ (\A k \in 1..(i - 1) : a[k] = b[k])
      /\ (i <= Len(a) => a[i] < b[i])
  BY <1>1 DEF BeforeAt
<1>4. /\ j \in 1..Len(c) /\ j <= Len(b) + 1 /\ (\A k \in 1..(j - 1) : b[k] = c[k])
      /\ (j <= Len(b) => b[j] < c[j])
  BY <1>2 DEF BeforeAt
<1>0. /\ Len(a) \in Nat /\ Len(b) \in Nat /\ Len(c) \in Nat
      /\ (\A k \in 1..Len(a) : a[k] \in Nat) /\ (\A k \in 1..Len(b) : b[k] \in Nat)
      /\ (\A k \in 1..Len(c) : c[k] \in Nat)
  OBVIOUS
<1>5. \E m \in Nat : BeforeAt(a, c, m)
  <2>1. CASE i < j
    <3>1. i \in 1..Len(c) /\ i \in 1..(j - 1) /\ \A k \in 1..(i - 1) : k \in 1..(j - 1)  BY <1>3, <1>4, <2>1
    <3>2. \A k \in 1..(i - 1) : a[k] = c[k]  BY <1>3, <1>4, <3>1
    <3>3. i <= Len(a) => a[i] < c[i]  BY <1>3, <1>4, <3>1
    <3> QED  BY <1>3, <3>1, <3>2, <3>3 DEF BeforeAt
  <2>2. CASE i = j
    <3>1. \A k \in 1..(i - 1) : a[k] = c[k]  BY <1>3, <1>4, <2>2
    <3>2. i <= Len(a) => a[i] < c[i]
      <4> HAVE i <= Len(a)
      <4>1. a[i] \in Nat /\ b[i] \in Nat /\ c[i] \in Nat  BY <1>0, <1>3, <1>4, <2>2
      <4>2. a[i] < b[i] /\ b[i] < c[i]  BY <1>3, <1>4, <2>2
      <4> QED  BY ONLY <4>1, <4>2
    <3> QED  BY <1>3, <1>4, <2>2, <3>1, <3>2 DEF BeforeAt
  <2>3. CASE j < i
    <3>1. /\ j \in 1..(i - 1) /\ j <= Len(a) + 1 /\ j <= Len(b)
          /\ \A k \in 1..(j - 1) : k \in 1..(i - 1)
      <4>1. i \in Nat /\ j \in Nat /\ 1 <= j /\ i <= Len(b) /\ i <= Len(a) + 1  BY <1>3, <1>4
      <4> QED  BY <1>0, <2>3, <4>1
    <3>2. \A k \in 1..(j - 1) : a[k] = c[k]  BY <1>3, <1>4, <3>1
    <3>3. a[j] = b[j] /\ b[j] < c[j]  BY <1>3, <1>4, <3>1
    <3> QED  BY <1>4, <3>1, <3>2, <3>3 DEF BeforeAt
  <2> QED  BY <2>1, <2>2, <2>3
<1> QED  BY <1>5, BeforeIs

LEMMA BeforeTotal ==
  ASSUME NEW a \in Seq(Nat), NEW b \in Seq(Nat), a # b
  PROVE  Before(a, b) \/ Before(b, a)
<1> DEFINE D == {i \in Nat : /\ i \in 1..(Len(a) + 1) /\ i <= Len(b) + 1
                             /\ (i > Len(a) \/ i > Len(b) \/ a[i] # b[i])}
<1>0. /\ Len(a) \in Nat /\ Len(b) \in Nat
      /\ (\A k \in 1..Len(a) : a[k] \in Nat) /\ (\A k \in 1..Len(b) : b[k] \in Nat)
  OBVIOUS
<1>1. D # {}
  <2>1. CASE Len(a) <= Len(b)
    <3>1. Len(a) + 1 \in D  BY <1>0, <2>1
    <3> QED  BY <3>1
  <2>2. CASE Len(b) < Len(a)
    <3>1. Len(b) + 1 \in D  BY <1>0, <2>2
    <3> QED  BY <3>1
  <2> QED  BY <1>0, <2>1, <2>2
<1>2. PICK i \in D : \A t \in D : i <= t
  <2> HIDE DEF D
  <2>1. D \in SUBSET Nat  BY DEF D
  <2> QED  BY <1>1, <2>1, LeastOf
<1>3. \A k \in 1..(i - 1) : a[k] = b[k]
  <2> TAKE k \in 1..(i - 1)
  <2>1. k \notin D  BY <1>2
  <2>2. k \in Nat /\ k \in 1..(Len(a) + 1) /\ k <= Len(b) + 1 /\ ~(k > Len(a)) /\ ~(k > Len(b))
    BY <1>0, <1>2
  <2> QED  BY <2>1, <2>2
<1>4. CASE i <= Len(a) /\ i <= Len(b)
  <2>1. a[i] # b[i] /\ a[i] \in Nat /\ b[i] \in Nat /\ i \in 1..Len(a) /\ i \in 1..Len(b)  BY <1>0, <1>2, <1>4
  <2>2. CASE a[i] < b[i]
    <3>1. BeforeAt(a, b, i)  BY <1>0, <1>2, <1>3, <2>1, <2>2 DEF BeforeAt
    <3> QED  BY <3>1, BeforeIs
  <2>3. CASE b[i] < a[i]
    <3>1. BeforeAt(b, a, i)  BY <1>0, <1>2, <1>3, <2>1, <2>3 DEF BeforeAt
    <3> QED  BY <3>1, BeforeIs
  <2> QED  BY <2>1, <2>2, <2>3
<1>5. CASE i > Len(a) /\ i <= Len(b)
  <2>1. BeforeAt(a, b, i)  BY <1>0, <1>2, <1>3, <1>5 DEF BeforeAt
  <2> QED  BY <2>1, BeforeIs
<1>6. CASE i > Len(b) /\ i <= Len(a)
  <2>1. BeforeAt(b, a, i)  BY <1>0, <1>2, <1>3, <1>6 DEF BeforeAt
  <2> QED  BY <2>1, BeforeIs
<1>7. CASE i > Len(a) /\ i > Len(b)
  <2>1. i = Len(a) + 1 /\ i = Len(b) + 1  BY <1>0, <1>2, <1>7
  <2>2. Len(a) = Len(b) /\ \A k \in 1..Len(a) : a[k] = b[k]  BY <1>0, <1>3, <2>1
  <2> QED  BY <2>2, SeqEqual
<1> QED  BY <1>0, <1>4, <1>5, <1>6, <1>7

\* The IDs of a set that come before one of them.
Lower(C, a) == {b \in C : Before(b, a)}
Rank(C, a) == Cardinality(Lower(C, a))

LEMMA LowerRank ==
  ASSUME NEW C \in SUBSET Seq(Nat), IsFiniteSet(C), NEW a \in C, NEW b \in C, Before(a, b)
  PROVE  Rank(C, a) < Rank(C, b)
<1>1. Lower(C, a) \subseteq C /\ Lower(C, b) \subseteq C  BY DEF Lower
<1>2. IsFiniteSet(Lower(C, a)) /\ IsFiniteSet(Lower(C, b))  BY <1>1, FS_Subset
<1>3. a \notin Lower(C, a)  BY BeforeIrreflexive DEF Lower
<1> DEFINE T == Lower(C, a) \cup {a}
<1>4. T \subseteq Lower(C, b)
  <2>1. ASSUME NEW c \in Lower(C, a) PROVE c \in Lower(C, b)
    <3>1. c \in C /\ Before(c, a)  BY DEF Lower
    <3>2. Before(c, b)  BY <3>1, BeforeTransitive
    <3> QED  BY <3>1, <3>2 DEF Lower
  <2>2. a \in Lower(C, b)  BY DEF Lower
  <2> QED  BY <2>1, <2>2
<1>5. Cardinality(T) = Cardinality(Lower(C, a)) + 1  BY <1>2, <1>3, FS_AddElement
<1>6. Cardinality(T) <= Cardinality(Lower(C, b))
  <2> HIDE DEF T
  <2> QED  BY <1>2, <1>4, FS_Subset
<1>7. Cardinality(Lower(C, a)) \in Nat /\ Cardinality(Lower(C, b)) \in Nat  BY <1>2, FS_CardinalityType
<1> QED  BY <1>5, <1>6, <1>7 DEF Rank

LEMMA RanksAre ==
  ASSUME NEW C \in SUBSET Seq(Nat), IsFiniteSet(C), NEW K, K = Cardinality(C)
  PROVE  /\ K \in Nat
         /\ \A a \in C : Rank(C, a) \in 0..(K - 1)
         /\ \A a, b \in C : Rank(C, a) = Rank(C, b) => a = b
         /\ \A n \in 0..(K - 1) : \E a \in C : Rank(C, a) = n
<1>0. K \in Nat  BY FS_CardinalityType
<1>1. ASSUME NEW a \in C PROVE Rank(C, a) \in 0..(K - 1)
  <2>1. Lower(C, a) \subseteq C /\ a \notin Lower(C, a)  BY BeforeIrreflexive DEF Lower
  <2>2. IsFiniteSet(Lower(C, a)) /\ Cardinality(Lower(C, a)) <= K /\ (K = Cardinality(Lower(C, a)) => C = Lower(C, a))
    BY <2>1, FS_Subset
  <2>3. Cardinality(Lower(C, a)) \in Nat  BY <2>2, FS_CardinalityType
  <2>4. Cardinality(Lower(C, a)) # K  BY <2>1, <2>2
  <2> QED  BY <1>0, <2>2, <2>3, <2>4 DEF Rank
<1>2. ASSUME NEW a \in C, NEW b \in C, Rank(C, a) = Rank(C, b) PROVE a = b
  <2> SUFFICES ASSUME a # b PROVE FALSE  OBVIOUS
  <2>1. Before(a, b) \/ Before(b, a)  BY BeforeTotal
  <2>2. Rank(C, a) < Rank(C, b) \/ Rank(C, b) < Rank(C, a)  BY <2>1, LowerRank
  <2>3. Rank(C, a) \in Nat /\ Rank(C, b) \in Nat  BY <1>0, <1>1
  <2> QED  BY <1>2, <2>2, <2>3
<1> DEFINE r == [a \in C |-> Rank(C, a)]
           T == 0..(K - 1)
<1>3. r \in Injection(C, T)
  <2>1. r \in [C -> T]  BY <1>1
  <2>2. \A a, b \in C : r[a] = r[b] => a = b  BY <1>2
  <2> HIDE DEF r, T
  <2> QED  BY <2>1, <2>2 DEF Injection, IsInjective
<1>4. IsFiniteSet(T) /\ Cardinality(T) = K
  <2>1. 0 \in Int /\ K - 1 \in Int  BY <1>0
  <2>2. IsFiniteSet(T) /\ Cardinality(T) = IF 0 > K - 1 THEN 0 ELSE (K - 1) - 0 + 1
    BY <2>1, FS_Interval
  <2>3. (IF 0 > K - 1 THEN 0 ELSE (K - 1) - 0 + 1) = K  BY <1>0
  <2> QED  BY <2>2, <2>3
<1>5. r \in Surjection(C, T)
  <2> HIDE DEF r, T
  <2> QED  BY <1>3, <1>4, FS_Injection
<1>6. ASSUME NEW n \in T PROVE \E a \in C : Rank(C, a) = n
  <2>1. \E a \in C : r[a] = n
    <3> HIDE DEF r, T
    <3> QED  BY <1>5 DEF Surjection
  <2> QED  BY <2>1
<1> QED  BY <1>0, <1>1, <1>2, <1>6

-----------------------------------------------------------------------------
(* What the generator writes. *)

JoinedOf(S, s, t, m, n) ==
  /\ s \o t \in Seq(S) /\ m \in Nat /\ n \in Nat /\ Len(s \o t) = m + n
  /\ \A j \in 1..m : (s \o t)[j] = s[j]
  /\ \A j \in 1..n : (s \o t)[m + j] = t[j]

LEMMA JoinedAt ==
  ASSUME NEW S, NEW s \in Seq(S), NEW t \in Seq(S), NEW m, m = Len(s), NEW n, n = Len(t)
  PROVE  JoinedOf(S, s, t, m, n)
<1> DEFINE c == s \o t
<1>1. /\ c \in Seq(S) /\ Len(c) = Len(s) + Len(t)
      /\ \A j \in 1..(Len(s) + Len(t)) : c[j] = IF j <= Len(s) THEN s[j] ELSE t[j - Len(s)]
  BY ConcatProperties
<1>2. m \in Nat /\ n \in Nat  OBVIOUS
<1> HIDE DEF c
<1>3. ASSUME NEW j \in 1..m PROVE c[j] = s[j]
  <2>1. j \in 1..(Len(s) + Len(t)) /\ j <= Len(s)  BY <1>2
  <2> QED  BY <1>1, <2>1
<1>4. ASSUME NEW j \in 1..n PROVE c[m + j] = t[j]
  <2> DEFINE i == m + j
  <2>1. i \in 1..(Len(s) + Len(t)) /\ ~(i <= Len(s)) /\ i - Len(s) = j  BY <1>2
  <2> HIDE DEF i
  <2>2. c[i] = t[j]  BY <1>1, <2>1
  <2> QED  BY <2>2 DEF i
<1> QED  BY <1>1, <1>2, <1>3, <1>4 DEF c, JoinedOf

\* A colour as it is in the array, and the tables that are written.
Rgba == {c \in Seq(Nat) : Len(c) = 4}
IsTable(colors) ==
  /\ DOMAIN colors \subseteq Seq(Nat) /\ IsFiniteSet(DOMAIN colors)
  /\ \A id \in DOMAIN colors : Len(id) \in 1..MaxLength
  /\ colors \in [DOMAIN colors -> Rgba]

\* An entry: the length, the ID, the length of the padding, and the colour backwards.
EntryOf(e, id, color, p) ==
  /\ e \in Seq(Nat) /\ p \in Nat /\ Len(e) = Len(id) + p + 6
  /\ e[1] = Len(id) /\ \A j \in 1..Len(id) : e[1 + j] = id[j]
  /\ e[Len(id) + 2] = p
  /\ \A j \in 1..4 : e[Len(id) + 2 + p + j] = color[5 - j]

LEMMA EntryIs ==
  ASSUME NEW id \in Seq(Nat), Len(id) \in 1..MaxLength, NEW color \in Rgba
  PROVE  EntryOf(Entry(id, color), id, color, required_padding(id))
<1> DEFINE n == Len(id)
           p == required_padding(id)
           pad == [i \in 1..p |-> 0]
           rev == Reverse(color)
           h == n % (MaxLength + 1)
           e1 == <<h>>
           e2 == e1 \o id
           e4 == <<p>>
           e3 == e2 \o e4
           e5 == e3 \o pad
           e == e5 \o rev
<1>1. n \in Nat /\ h = n /\ p \in Nat
  <2>1. n \in 1..MaxLength /\ MaxLength \in Nat  BY FilesAssumption
  <2>2. h = n
    <3> HIDE DEF n
    <3> QED  BY <2>1
  <2>3. n \in Nat  BY <2>1
  <2>4. p = (4 - ((n + 2) % 4)) % 4  BY DEF required_padding
  <2>5. p \in Nat
    <3> HIDE DEF n, p
    <3>1. (n + 2) % 4 \in 0..3  BY <2>3
    <3>2. 4 - ((n + 2) % 4) \in Nat  BY <3>1
    <3> QED  BY <2>4, <3>2
  <2> QED  BY <2>2, <2>3, <2>5
<1>2. Entry(id, color) = e  BY DEF Entry
<1>3. rev \in Seq(Nat) /\ Len(rev) = 4 /\ \A j \in 1..4 : rev[j] = color[5 - j]
  <2>1. color \in Seq(Nat) /\ Len(color) = 4  BY DEF Rgba
  <2>2. \A j \in 1..4 : (Len(color) - j) + 1 = 5 - j /\ 5 - j \in 1..4  BY <2>1
  <2>3. rev = [j \in 1..4 |-> color[5 - j]]  BY <2>1, <2>2 DEF Reverse
  <2>4. ASSUME NEW j \in 1..4 PROVE color[5 - j] \in Nat
    <3> DEFINE i == 5 - j
    <3>1. i \in 1..Len(color)  BY <2>1
    <3> HIDE DEF i
    <3>2. color[i] \in Nat  BY <2>1, <3>1, ElementOfSeq
    <3> QED  BY <3>2 DEF i
  <2> HIDE DEF rev
  <2> QED  BY <2>3, <2>4
<1>4. pad \in Seq(Nat) /\ Len(pad) = p
  <2> HIDE DEF p
  <2> QED  BY <1>1
<1> HIDE DEF p, pad, rev, h
<1>5. e1 \in Seq(Nat) /\ 1 = Len(e1) /\ e1[1] = n  BY <1>1
<1>6. e4 \in Seq(Nat) /\ 1 = Len(e4) /\ e4[1] = p  BY <1>1
<1> HIDE DEF n, e1, e4
<1>7. id \in Seq(Nat) /\ n = Len(id)  BY DEF n
<1>8. /\ e2 \in Seq(Nat) /\ Len(e2) = 1 + n /\ (\A j \in 1..1 : e2[j] = e1[j])
      /\ \A j \in 1..n : e2[1 + j] = id[j]
  <2>1. JoinedOf(Nat, e1, id, 1, n)  BY ONLY <1>5, <1>7, JoinedAt
  <2> QED  BY ONLY <2>1 DEF JoinedOf, e2
<1> HIDE DEF e2
<1> DEFINE n2 == 1 + n
<1>9. e2 \in Seq(Nat) /\ n2 = Len(e2)  BY <1>8
<1> HIDE DEF n2
<1>10. /\ e3 \in Seq(Nat) /\ Len(e3) = n2 + 1 /\ (\A j \in 1..n2 : e3[j] = e2[j])
       /\ \A j \in 1..1 : e3[n2 + j] = e4[j]
  <2>1. JoinedOf(Nat, e2, e4, n2, 1)  BY ONLY <1>6, <1>9, JoinedAt
  <2> QED  BY ONLY <2>1 DEF JoinedOf, e3
<1> HIDE DEF e3
<1> DEFINE n3 == n2 + 1
<1>11. e3 \in Seq(Nat) /\ n3 = Len(e3)  BY <1>10
<1>12. pad \in Seq(Nat) /\ p = Len(pad)  BY <1>4
<1> HIDE DEF n3
<1>13. /\ e5 \in Seq(Nat) /\ Len(e5) = n3 + p /\ (\A j \in 1..n3 : e5[j] = e3[j])
  <2>1. JoinedOf(Nat, e3, pad, n3, p)  BY ONLY <1>11, <1>12, JoinedAt
  <2> QED  BY ONLY <2>1 DEF JoinedOf, e5
<1> HIDE DEF e5
<1> DEFINE n5 == n3 + p
<1>14. e5 \in Seq(Nat) /\ n5 = Len(e5)  BY <1>13
<1>15. rev \in Seq(Nat) /\ 4 = Len(rev)  BY <1>3
<1> HIDE DEF n5
<1>16. /\ e \in Seq(Nat) /\ Len(e) = n5 + 4 /\ (\A j \in 1..n5 : e[j] = e5[j])
       /\ \A j \in 1..4 : e[n5 + j] = rev[j]
  <2>1. JoinedOf(Nat, e5, rev, n5, 4)  BY ONLY <1>14, <1>15, JoinedAt
  <2> QED  BY ONLY <2>1 DEF JoinedOf, e
<1> HIDE DEF e
<1>17. n2 = 1 + n /\ n3 = n + 2 /\ n5 = n + 2 + p  BY <1>1 DEF n2, n3, n5
<1>18. e[1] = n
  <2>1. 1 \in 1..1 /\ 1 \in 1..n2 /\ 1 \in 1..n3 /\ 1 \in 1..n5  BY <1>1, <1>17
  <2>2. e2[1] = n  BY ONLY <2>1, <1>5, <1>8
  <2>3. e3[1] = e2[1]  BY ONLY <2>1, <1>10
  <2>4. e5[1] = e3[1]  BY ONLY <2>1, <1>13
  <2>5. e[1] = e5[1]  BY ONLY <2>1, <1>16
  <2> QED  BY ONLY <2>2, <2>3, <2>4, <2>5
<1>19. ASSUME NEW j \in 1..n PROVE e[1 + j] = id[j]
  <2> DEFINE i == 1 + j
  <2>1. i \in 1..n2 /\ i \in 1..n3 /\ i \in 1..n5  BY <1>1, <1>17
  <2>2. e2[i] = id[j]  BY <1>8
  <2> HIDE DEF i
  <2>3. e[i] = e5[i] /\ e5[i] = e3[i] /\ e3[i] = e2[i]  BY <2>1, <1>10, <1>13, <1>16
  <2> QED  BY <2>2, <2>3 DEF i
<1>20. e[n + 2] = p
  <2>1. 1 \in 1..1 /\ n + 2 = n2 + 1 /\ n + 2 \in 1..n3 /\ n + 2 \in 1..n5  BY <1>1, <1>17
  <2> DEFINE i == n + 2
  <2>2. i = n2 + 1 /\ i \in 1..n3 /\ i \in 1..n5  BY <2>1
  <2> HIDE DEF i
  <2>3. e[i] = e3[i]  BY <2>2, <1>13, <1>16
  <2>4. e3[n2 + 1] = p  BY <2>1, <1>6, <1>10
  <2> QED  BY <2>2, <2>3, <2>4 DEF i
<1>21. ASSUME NEW j \in 1..4 PROVE e[n + 2 + p + j] = color[5 - j]
  <2>1. e[n5 + j] = color[5 - j]  BY <1>3, <1>16
  <2> QED  BY <2>1, <1>17
<1>22. Len(e) = n + p + 6  BY <1>1, <1>16, <1>17
<1> QED  BY <1>1, <1>2, <1>16, <1>18, <1>19, <1>20, <1>21, <1>22 DEF EntryOf, p, n

IdAt(colors, i) ==
  CHOOSE a \in DOMAIN colors : Cardinality({b \in DOMAIN colors : Before(b, a)}) = i - 1

LEMMA IdsInOrder ==
  ASSUME NEW colors, IsTable(colors), NEW K, K = Cardinality(DOMAIN colors)
  PROVE  /\ K \in Nat
         /\ \A i \in 1..K : IdAt(colors, i) \in DOMAIN colors
         /\ \A a \in DOMAIN colors : \E i \in 1..K : IdAt(colors, i) = a
<1> DEFINE C == DOMAIN colors
<1>1. C \in SUBSET Seq(Nat) /\ IsFiniteSet(C) /\ K = Cardinality(C)  BY DEF IsTable
<1>2. \A i : IdAt(colors, i) = CHOOSE a \in C : Rank(C, a) = i - 1  BY DEF IdAt, Rank, Lower
<1> HIDE DEF C
<1>3. /\ K \in Nat
      /\ \A a \in C : Rank(C, a) \in 0..(K - 1)
      /\ \A a, b \in C : Rank(C, a) = Rank(C, b) => a = b
      /\ \A n \in 0..(K - 1) : \E a \in C : Rank(C, a) = n
  BY <1>1, RanksAre
<1>4. ASSUME NEW i \in 1..K PROVE IdAt(colors, i) \in C /\ Rank(C, IdAt(colors, i)) = i - 1
  <2>1. i - 1 \in 0..(K - 1)  BY <1>3
  <2>2. \E a \in C : Rank(C, a) = i - 1  BY <1>3, <2>1
  <2> QED  BY <1>2, <2>2
<1>5. ASSUME NEW a \in C PROVE \E i \in 1..K : IdAt(colors, i) = a
  <2> DEFINE i == Rank(C, a) + 1
  <2>1. i \in 1..K /\ i - 1 = Rank(C, a)  BY <1>3
  <2>2. IdAt(colors, i) \in C /\ Rank(C, IdAt(colors, i)) = Rank(C, a)  BY <1>4, <2>1
  <2>3. IdAt(colors, i) = a  BY <1>3, <2>2
  <2> QED  BY <2>1, <2>3
<1> QED  BY <1>3, <1>4, <1>5 DEF C

EntryAt(colors, i) == Entry(IdAt(colors, i), colors[IdAt(colors, i)])

Written(colors) ==
  CHOOSE f : f = [i \in 0..Cardinality(DOMAIN colors) |->
                    IF i = 0 THEN <<>> ELSE f[i - 1] \o Entry(IdAt(colors, i), colors[IdAt(colors, i)])]

LEMMA EntryTyped ==
  ASSUME NEW colors, IsTable(colors), NEW K, K = Cardinality(DOMAIN colors), NEW i \in 1..K
  PROVE  /\ EntryOf(EntryAt(colors, i), IdAt(colors, i), colors[IdAt(colors, i)], required_padding(IdAt(colors, i)))
         /\ IdAt(colors, i) \in Seq(Nat) /\ Len(IdAt(colors, i)) \in 1..MaxLength
         /\ colors[IdAt(colors, i)] \in Rgba
<1> DEFINE id == IdAt(colors, i)
           color == colors[id]
<1>1. id \in DOMAIN colors  BY IdsInOrder
<1>2. id \in Seq(Nat) /\ Len(id) \in 1..MaxLength /\ color \in Rgba  BY <1>1 DEF IsTable
<1> HIDE DEF id, color
<1>3. EntryOf(Entry(id, color), id, color, required_padding(id))  BY ONLY <1>2, EntryIs
<1> QED  BY <1>2, <1>3 DEF EntryAt, id, color

LEMMA WrittenIs ==
  ASSUME NEW colors, IsTable(colors), NEW K, K = Cardinality(DOMAIN colors)
  PROVE  /\ write_content(colors) = Written(colors)[K]
         /\ Written(colors)[0] = <<>>
         /\ \A i \in 1..K : Written(colors)[i] = Written(colors)[i - 1] \o EntryAt(colors, i)
         /\ \A i \in 0..K : Written(colors)[i] \in Seq(Nat)
<1> DEFINE T == Seq(Nat)
           Step(f) == [i \in 0..Cardinality(DOMAIN colors) |->
                         IF i = 0 THEN <<>>
                         ELSE f[i - 1] \o Entry(IdAt(colors, i), colors[IdAt(colors, i)])]
           a == <<>>
           G == [w \in (1..K) \X T |-> w[2] \o EntryAt(colors, w[1])]
<1>1. K \in Nat /\ a \in T  BY IdsInOrder
<1>2. \A i \in 1..K : EntryAt(colors, i) \in T
  <2> TAKE i \in 1..K
  <2>1. EntryOf(EntryAt(colors, i), IdAt(colors, i), colors[IdAt(colors, i)], required_padding(IdAt(colors, i)))
    BY EntryTyped
  <2> QED  BY <2>1 DEF EntryOf
<1>3. ASSUME NEW w \in (1..K) \X T PROVE w[2] \o EntryAt(colors, w[1]) \in T
  <2>1. w[2] \in T /\ EntryAt(colors, w[1]) \in T  BY <1>2
  <2> QED  BY <2>1, ConcatProperties
<1>4. G \in [(1..K) \X T -> T]  BY <1>3
<1> HIDE DEF a, G, T
<1>5. PICK f \in [0..K -> T] : f[0] = a /\ \A k \in 1..K : f[k] = G[<<k, f[k - 1]>>]
  <2>1. \E f \in [0..K -> T] : Iterated(f, K, a, G)  BY ONLY <1>1, <1>4, Iterates
  <2> QED  BY <2>1 DEF Iterated
<1>6. f = Step(f)
  <2> SUFFICES ASSUME NEW i \in 0..K
               PROVE  f[i] = IF i = 0 THEN <<>>
                             ELSE f[i - 1] \o Entry(IdAt(colors, i), colors[IdAt(colors, i)])
    BY <1>5
  <2>1. CASE i = 0  BY <1>5, <2>1 DEF a
  <2>2. CASE i # 0
    <3>1. i \in 1..K /\ i - 1 \in 0..K  BY <1>1, <2>2
    <3>2. f[i] = G[<<i, f[i - 1]>>] /\ f[i - 1] \in T  BY <1>5, <3>1
    <3>3. G[<<i, f[i - 1]>>] = f[i - 1] \o EntryAt(colors, i)
      <4>1. <<i, f[i - 1]>> \in (1..K) \X T  BY <3>1, <3>2
      <4> QED  BY <4>1 DEF G
    <3> QED  BY <2>2, <3>2, <3>3 DEF EntryAt
  <2> QED  BY <2>1, <2>2
<1> DEFINE h == Written(colors)
<1>7. h = Step(h)  BY <1>6 DEF Written
<1>8. write_content(colors) = h[K]  BY DEF write_content, Written, IdAt
<1> HIDE DEF h
<1>9. h[0] = <<>>
  <2>1. 0 \in 0..Cardinality(DOMAIN colors)  BY <1>1
  <2>2. Step(h)[0] = <<>>  BY <2>1
  <2> HIDE DEF Step
  <2> QED  BY <1>7, <2>2
<1>10. ASSUME NEW i \in 1..K PROVE h[i] = h[i - 1] \o EntryAt(colors, i)
  <2>1. i \in 0..Cardinality(DOMAIN colors) /\ i # 0  BY <1>1
  <2>2. Step(h)[i] = h[i - 1] \o EntryAt(colors, i)  BY <2>1 DEF EntryAt
  <2> HIDE DEF Step
  <2> QED  BY <1>7, <2>2
<1>11. \A i \in 0..K : h[i] \in T
  <2> DEFINE S == {i \in 0..K : h[i] \in T}
  <2>1. 0 \in S  BY <1>1, <1>9 DEF a
  <2>2. ASSUME NEW i \in 0..(K - 1), i \in S PROVE i + 1 \in S
    <3>1. i + 1 \in 1..K /\ i + 1 \in 0..K /\ (i + 1) - 1 = i  BY <1>1
    <3>2. h[i + 1] = h[i] \o EntryAt(colors, i + 1)  BY <3>1, <1>10
    <3>3. h[i] \in T /\ EntryAt(colors, i + 1) \in T  BY <1>2, <2>2, <3>1
    <3>4. h[i] \o EntryAt(colors, i + 1) \in T  BY <3>3, ConcatProperties DEF T
    <3> QED  BY <3>1, <3>2, <3>4
  <2> HIDE DEF S
  <2>3. \A i \in 0..K : i \in S  BY <1>1, <2>1, <2>2, UpTo
  <2> QED  BY <2>3 DEF S
<1> QED  BY <1>8, <1>9, <1>10, <1>11 DEF h, T

-----------------------------------------------------------------------------
(* What the program reads. *)

\* What comes later does not change what is there.
Prefixed(s, t) == Len(s) <= Len(t) /\ \A j \in 1..Len(s) : t[j] = s[j]

LEMMA WrittenStays ==
  ASSUME NEW colors, IsTable(colors), NEW K, K = Cardinality(DOMAIN colors), NEW m \in 0..K, NEW i \in 0..m
  PROVE  Prefixed(Written(colors)[i], Written(colors)[m]) /\ m <= Len(Written(colors)[m])
<1> DEFINE W == Written(colors)
           S == {n \in 0..K : n <= Len(W[n]) /\ \A k \in 0..n : Prefixed(W[k], W[n])}
<1>1. K \in Nat  BY IdsInOrder
<1>2. /\ W[0] = <<>> /\ (\A k \in 1..K : W[k] = W[k - 1] \o EntryAt(colors, k))
      /\ \A k \in 0..K : W[k] \in Seq(Nat)
  BY WrittenIs
<1> HIDE DEF W
<1>3. 0 \in S
  <2>1. 0 <= Len(W[0]) /\ Prefixed(W[0], W[0])  BY <1>2 DEF Prefixed
  <2>2. \A k \in 0..0 : k = 0  OBVIOUS
  <2> QED  BY <1>1, <2>1, <2>2
<1>4. ASSUME NEW n \in 0..(K - 1), n \in S PROVE n + 1 \in S
  <2> DEFINE e == EntryAt(colors, n + 1)
             s == W[n]
             t == W[n + 1]
  <2>1. n + 1 \in 1..K /\ n + 1 \in 0..K /\ (n + 1) - 1 = n /\ n \in 0..K  BY <1>1
  <2>2. t = s \o e /\ s \in Seq(Nat)  BY <1>2, <2>1
  <2>3. e \in Seq(Nat) /\ Len(e) \in Nat \ {0}
    <3>1. /\ EntryOf(e, IdAt(colors, n + 1), colors[IdAt(colors, n + 1)], required_padding(IdAt(colors, n + 1)))
          /\ Len(IdAt(colors, n + 1)) \in 1..MaxLength
      BY <2>1, EntryTyped
    <3> QED  BY <3>1 DEF EntryOf
  <2> HIDE DEF e
  <2>4. JoinedOf(Nat, s, e, Len(s), Len(e))  BY <2>2, <2>3, JoinedAt
  <2>5. Len(t) = Len(s) + Len(e) /\ Len(s) \in Nat /\ \A j \in 1..Len(s) : t[j] = s[j]
    BY <2>2, <2>4 DEF JoinedOf
  <2>6. n <= Len(s) /\ \A k \in 0..n : Prefixed(W[k], s)  BY <1>4
  <2>7. n + 1 <= Len(t)  BY <2>3, <2>5, <2>6
  <2>8. ASSUME NEW k \in 0..(n + 1) PROVE Prefixed(W[k], t)
    <3>1. CASE k = n + 1
      <4>1. t \in Seq(Nat)  BY <1>2, <2>1
      <4> HIDE DEF t
      <4>2. Prefixed(t, t)  BY <4>1 DEF Prefixed
      <4> QED  BY <3>1, <4>2 DEF t
    <3>2. CASE k # n + 1
      <4> DEFINE u == W[k]
      <4>1. k \in 0..n /\ k \in 0..K  BY <1>1, <3>2
      <4>2. Len(u) <= Len(s) /\ (\A j \in 1..Len(u) : s[j] = u[j])  BY <2>6, <4>1 DEF Prefixed
      <4>3. Len(u) \in Nat  BY <1>2, <4>1
      <4> HIDE DEF u, t, s
      <4>4. Len(u) <= Len(t) /\ \A j \in 1..Len(u) : j \in 1..Len(s)  BY <2>3, <2>5, <4>2, <4>3
      <4>5. \A j \in 1..Len(u) : t[j] = u[j]  BY <2>5, <4>2, <4>4
      <4>6. Prefixed(u, t)  BY <4>4, <4>5 DEF Prefixed
      <4> QED  BY <4>6 DEF u
    <3> QED  BY <3>1, <3>2
  <2> HIDE DEF s
  <2> QED  BY <2>1, <2>7, <2>8
<1> HIDE DEF S
<1>5. \A n \in 0..K : n \in S  BY <1>1, <1>3, <1>4, UpTo
<1> QED  BY <1>5 DEF S, W

DataOf(colors) == write_content(colors) \o <<0>>

LEMMA DataAt ==
  ASSUME NEW colors, IsTable(colors), NEW K, K = Cardinality(DOMAIN colors), NEW d, d = DataOf(colors)
  PROVE  /\ d \in Seq(Nat) /\ K <= Len(d)
         /\ d[Len(Written(colors)[K]) + 1] = 0
         /\ \A i \in 1..K :
              /\ Len(Written(colors)[i - 1]) \in Nat
              /\ Len(Written(colors)[i]) = Len(Written(colors)[i - 1]) + Len(EntryAt(colors, i))
              /\ Len(Written(colors)[i - 1]) + Len(EntryAt(colors, i)) <= Len(d)
              /\ \A j \in 1..Len(EntryAt(colors, i)) :
                   d[Len(Written(colors)[i - 1]) + j] = EntryAt(colors, i)[j]
<1> DEFINE W == Written(colors)
           w == W[K]
           l == <<0>>
<1>1. K \in Nat  BY IdsInOrder
<1>2. /\ write_content(colors) = w /\ (\A k \in 1..K : W[k] = W[k - 1] \o EntryAt(colors, k))
      /\ \A k \in 0..K : W[k] \in Seq(Nat)
  BY WrittenIs
<1>3. \A i \in 0..K : Prefixed(W[i], w)
  <2> TAKE i \in 0..K
  <2>1. K \in 0..K  BY <1>1
  <2> QED  BY <2>1, WrittenStays
<1>4. K <= Len(w)
  <2>1. K \in 0..K  BY <1>1
  <2> QED  BY <2>1, WrittenStays
<1>5. w \in Seq(Nat)  BY <1>1, <1>2
<1>6. l \in Seq(Nat) /\ 1 = Len(l) /\ l[1] = 0  OBVIOUS
<1>7. d = w \o l  BY <1>2 DEF DataOf
<1> DEFINE n == Len(w)
<1> HIDE DEF l
<1>8. n = Len(w)  OBVIOUS
<1> HIDE DEF n
<1>9. JoinedOf(Nat, w, l, n, 1)
  <2> HIDE DEF w
  <2> QED  BY ONLY <1>5, <1>6, <1>8, JoinedAt
<1>10. /\ d \in Seq(Nat) /\ n \in Nat /\ Len(d) = n + 1 /\ (\A j \in 1..n : d[j] = w[j])
       /\ \A j \in 1..1 : d[n + j] = l[j]
  BY <1>7, <1>9 DEF JoinedOf
<1>11. d[n + 1] = 0  BY <1>6, <1>10
<1>12. K <= Len(d)  BY <1>1, <1>4, <1>8, <1>10
<1> HIDE DEF W
<1>13. ASSUME NEW i \in 1..K
       PROVE  /\ Len(W[i - 1]) \in Nat
              /\ Len(W[i]) = Len(W[i - 1]) + Len(EntryAt(colors, i))
              /\ Len(W[i - 1]) + Len(EntryAt(colors, i)) <= Len(d)
              /\ \A j \in 1..Len(EntryAt(colors, i)) : d[Len(W[i - 1]) + j] = EntryAt(colors, i)[j]
  <2> DEFINE s == W[i - 1]
             e == EntryAt(colors, i)
             t == W[i]
  <2>1. i - 1 \in 0..K /\ i \in 0..K  BY <1>1
  <2>2. t = s \o e /\ s \in Seq(Nat)  BY <1>2, <2>1
  <2>3. e \in Seq(Nat)
    <3>1. EntryOf(e, IdAt(colors, i), colors[IdAt(colors, i)], required_padding(IdAt(colors, i)))
      BY EntryTyped
    <3> QED  BY <3>1 DEF EntryOf
  <2>4. Len(t) <= n /\ \A j \in 1..Len(t) : w[j] = t[j]  BY <1>3, <1>8, <2>1 DEF Prefixed
  <2> HIDE DEF s, e, t
  <2>5. JoinedOf(Nat, s, e, Len(s), Len(e))  BY <2>2, <2>3, JoinedAt
  <2>6. /\ Len(s) \in Nat /\ Len(e) \in Nat /\ Len(t) = Len(s) + Len(e)
        /\ \A j \in 1..Len(e) : t[Len(s) + j] = e[j]
    BY <2>2, <2>5 DEF JoinedOf
  <2>7. Len(s) + Len(e) <= Len(d)  BY <1>10, <2>4, <2>6
  <2>8. ASSUME NEW j \in 1..Len(e) PROVE d[Len(s) + j] = e[j]
    <3> DEFINE k == Len(s) + j
    <3>1. k \in 1..Len(t) /\ k \in 1..n  BY <1>10, <2>4, <2>6, SMTT(30)
    <3>2. t[k] = e[j]  BY <2>6
    <3> HIDE DEF k
    <3>3. d[k] = w[k] /\ w[k] = t[k]  BY <1>10, <2>4, <3>1
    <3> QED  BY <3>2, <3>3 DEF k
  <2> QED  BY <2>6, <2>7, <2>8 DEF s, e, t
<1> QED  BY <1>8, <1>10, <1>11, <1>12, <1>13 DEF W

At(o, r) == [off |-> o, result |-> r]
With(r, id, color) == [k \in DOMAIN r \cup {id} |-> IF k = id THEN color ELSE r[k]]

Takes(d, o, r, e, id, color) == TakeEntry(d, At(o, r)) = At(o + Len(e), With(r, id, color))

LEMMA EntryIsTaken ==
  ASSUME NEW d \in Seq(Nat), NEW o \in Nat, NEW r, NEW e, NEW p,
         NEW id \in Seq(Nat), Len(id) # 0, NEW color \in Rgba, EntryOf(e, id, color, p),
         o + Len(e) <= Len(d), \A j \in 1..Len(e) : d[o + j] = e[j]
  PROVE  Takes(d, o, r, e, id, color)
<1> DEFINE n == Len(id)
           q == o + 2 + n + p
           name == SubSeq(d, o + 2, o + 1 + n)
           four == SubSeq(d, q + 1, q + 4)
           rev == Reverse(four)
<1>1. n \in Nat \ {0}  OBVIOUS
<1>2. /\ e \in Seq(Nat) /\ p \in Nat /\ Len(e) = n + p + 6
      /\ e[1] = n /\ (\A j \in 1..n : e[1 + j] = id[j]) /\ e[n + 2] = p
      /\ \A j \in 1..4 : e[n + 2 + p + j] = color[5 - j]
  BY DEF EntryOf
<1>3. color \in Seq(Nat) /\ Len(color) = 4  BY DEF Rgba
<1> HIDE DEF n
<1>4. d[o + 1] = n
  <2>1. 1 \in 1..Len(e)  BY <1>1, <1>2
  <2> QED  BY <1>2, <2>1
<1>5. name = id
  <2> DEFINE m == o + 2
             v == SubSeq(d, m, m + n - 1)
  <2>1. m \in Int /\ m + n - 1 = o + 1 + n /\ n \in Nat  BY <1>1
  <2>2. \A j \in m..(m + n - 1) : d[j] \in Nat
    <3> TAKE j \in m..(m + n - 1)
    <3>1. j \in 1..Len(d)  BY <1>1, <1>2
    <3> QED  BY <3>1
  <2> HIDE DEF m
  <2>3. v \in Seq(Nat) /\ Len(v) = n /\ \A j \in 1..n : v[j] = d[m + j - 1]
    <3>1. PieceOf(Nat, d, m, n)  BY ONLY <2>1, <2>2, Piece
    <3> QED  BY <3>1 DEF PieceOf
  <2> HIDE DEF v
  <2>4. ASSUME NEW j \in 1..n PROVE v[j] = id[j]
    <3>1. m + j - 1 = o + (1 + j)  BY DEF m
    <3> DEFINE i == 1 + j
    <3>2. i \in 1..Len(e) /\ e[i] = id[j]  BY <1>1, <1>2
    <3> HIDE DEF i
    <3>3. d[o + i] = e[i]  BY <3>2
    <3> QED  BY <2>3, <3>1, <3>2, <3>3 DEF i
  <2>5. v = id  BY <2>3, <2>4, SeqEqual DEF n
  <2> QED  BY <2>1, <2>5 DEF v, m
<1>6. d[o + 2 + n] = p
  <2> DEFINE i == n + 2
  <2>1. i \in 1..Len(e) /\ o + i = o + 2 + n  BY <1>1, <1>2
  <2> HIDE DEF i
  <2>2. d[o + i] = e[i]  BY <2>1
  <2> QED  BY <1>2, <2>1, <2>2 DEF i
<1>7. q \in Nat /\ q + 4 = o + Len(e)  BY <1>1, <1>2
<1>8. rev = color
  <2> DEFINE m == q + 1
             v == SubSeq(d, m, m + 4 - 1)
  <2>1. m \in Int /\ m + 4 - 1 = q + 4 /\ 4 \in Nat  BY <1>7
  <2>2. \A j \in m..(m + 4 - 1) : d[j] \in Nat
    <3> TAKE j \in m..(m + 4 - 1)
    <3>1. j \in 1..Len(d)
      <4> HIDE DEF q
      <4> QED  BY <1>2, <1>7
    <3> QED  BY <3>1
  <2> HIDE DEF m
  <2>3. v \in Seq(Nat) /\ Len(v) = 4 /\ \A j \in 1..4 : v[j] = d[m + j - 1]
    <3>1. PieceOf(Nat, d, m, 4)  BY ONLY <2>1, <2>2, Piece
    <3> QED  BY <3>1 DEF PieceOf
  <2> HIDE DEF v
  <2>4. ASSUME NEW j \in 1..4 PROVE v[j] = color[5 - j]
    <3> DEFINE i == n + 2 + p + j
    <3>1. m + j - 1 = o + i  BY <1>1, <1>2 DEF m
    <3>2. i \in 1..Len(e)
      <4>1. Len(e) = n + p + 6 /\ p \in Nat /\ j \in 1..4  BY <1>2
      <4> QED  BY <1>1, <4>1
    <3>3. e[i] = color[5 - j]  BY <1>2
    <3> HIDE DEF i
    <3>4. d[o + i] = e[i]  BY <3>2
    <3> QED  BY <2>3, <3>1, <3>3, <3>4
  <2>5. four = v  BY <2>1 DEF v, m
  <2>6. rev = [j \in 1..4 |-> v[(4 - j) + 1]]  BY <2>3, <2>5 DEF Reverse
  <2>7. ASSUME NEW j \in 1..4 PROVE v[(4 - j) + 1] = color[j]
    <3> DEFINE i == (4 - j) + 1
    <3>1. i \in 1..4 /\ 5 - i = j  OBVIOUS
    <3> HIDE DEF i
    <3>2. v[i] = color[5 - i]  BY <2>4, <3>1
    <3> QED  BY <3>1, <3>2 DEF i
  <2>8. color = [j \in 1..4 |-> color[j]]  BY <1>3
  <2> HIDE DEF rev
  <2> QED  BY <2>6, <2>7, <2>8
<1> DEFINE a == At(o, r)
<1>9. a.off = o /\ a.result = r  BY DEF At
<1> HIDE DEF a
<1>10. a.off + 2 + d[a.off + 1] + d[a.off + 2 + d[a.off + 1]] = q  BY <1>4, <1>6, <1>9
<1>11. SubSeq(d, a.off + 2, a.off + 1 + d[a.off + 1]) = id  BY <1>4, <1>5, <1>9
<1> HIDE DEF q, rev, four
<1>12. Reverse(SubSeq(d, q + 1, q + 4)) = color  BY <1>8 DEF rev, four
<1>13. TakeEntry(d, a) = At(q + 4, With(r, id, color))
  BY <1>1, <1>4, <1>9, <1>10, <1>11, <1>12 DEF TakeEntry, At, With
<1> QED  BY <1>7, <1>13 DEF a, Takes

IdsUpTo(colors, i) == {IdAt(colors, k) : k \in 1..i}
ReadUpTo(colors, i) == At(Len(Written(colors)[i]), [id \in IdsUpTo(colors, i) |-> colors[id]])

LEMMA EntriesAreTaken ==
  ASSUME NEW colors, IsTable(colors), NEW K, K = Cardinality(DOMAIN colors), NEW d, d = DataOf(colors)
  PROVE  /\ ReadUpTo(colors, 0) = At(0, NoColors)
         /\ \A i \in 1..K : TakeEntry(d, ReadUpTo(colors, i - 1)) = ReadUpTo(colors, i)
         /\ TakeEntry(d, ReadUpTo(colors, K)) = ReadUpTo(colors, K)
<1> DEFINE W == Written(colors)
<1>1. K \in Nat  BY IdsInOrder
<1>2. ReadUpTo(colors, 0) = At(0, NoColors)
  <2>1. IdsUpTo(colors, 0) = {}  BY DEF IdsUpTo
  <2>2. Len(W[0]) = 0  BY WrittenIs
  <2>3. [id \in IdsUpTo(colors, 0) |-> colors[id]] = NoColors  BY <2>1 DEF NoColors
  <2> QED  BY <2>2, <2>3 DEF ReadUpTo
<1>3. ASSUME NEW i \in 1..K PROVE TakeEntry(d, ReadUpTo(colors, i - 1)) = ReadUpTo(colors, i)
  <2> DEFINE id == IdAt(colors, i)
             color == colors[id]
             e == EntryAt(colors, i)
             p == required_padding(id)
             o == Len(W[i - 1])
             r == [k \in IdsUpTo(colors, i - 1) |-> colors[k]]
  <2>1. EntryOf(e, id, color, p) /\ id \in Seq(Nat) /\ Len(id) \in 1..MaxLength /\ color \in Rgba
    BY EntryTyped
  <2>2. /\ d \in Seq(Nat) /\ o \in Nat /\ Len(W[i]) = o + Len(e) /\ o + Len(e) <= Len(d)
        /\ \A j \in 1..Len(e) : d[o + j] = e[j]
    BY DataAt, SMTT(30)
  <2>3. Len(id) # 0  BY <2>1
  <2>4. With(r, id, color) = [k \in IdsUpTo(colors, i) |-> colors[k]]
    <3>1. DOMAIN r = IdsUpTo(colors, i - 1)  OBVIOUS
    <3>2. \A k \in DOMAIN r : r[k] = colors[k]  OBVIOUS
    <3>3. IdsUpTo(colors, i) = DOMAIN r \cup {id}
      <4>1. ASSUME NEW k \in 1..i PROVE IdAt(colors, k) \in IdsUpTo(colors, i - 1) \cup {id}
        <5>1. k = i \/ k \in 1..(i - 1)  BY <1>1
        <5> QED  BY <5>1 DEF IdsUpTo
      <4>2. ASSUME NEW k \in 1..(i - 1) PROVE IdAt(colors, k) \in IdsUpTo(colors, i)
        <5>1. k \in 1..i  BY <1>1
        <5> QED  BY <5>1 DEF IdsUpTo
      <4>3. id \in IdsUpTo(colors, i)
        <5>1. i \in 1..i  BY <1>1
        <5> QED  BY <5>1 DEF IdsUpTo
      <4>4. IdsUpTo(colors, i) \subseteq IdsUpTo(colors, i - 1) \cup {id}  BY <4>1 DEF IdsUpTo
      <4>5. IdsUpTo(colors, i - 1) \subseteq IdsUpTo(colors, i)
        <5>1. \A u \in IdsUpTo(colors, i - 1) : \E k \in 1..(i - 1) : u = IdAt(colors, k)  BY DEF IdsUpTo
        <5> QED  BY <4>2, <5>1
      <4> QED  BY <3>1, <4>3, <4>4, <4>5
    <3> HIDE DEF r, id
    <3> QED  BY <3>2, <3>3 DEF With
  <2> DEFINE t == At(o, r)
  <2>5. ReadUpTo(colors, i - 1) = t  BY DEF ReadUpTo
  <2>6. ReadUpTo(colors, i) = At(o + Len(e), With(r, id, color))  BY <2>2, <2>4 DEF ReadUpTo
  <2> HIDE DEF id, color, e, p, o, r
  <2>7. Takes(d, o, r, e, id, color)  BY ONLY <2>1, <2>2, <2>3, EntryIsTaken
  <2> QED  BY <2>5, <2>6, <2>7 DEF Takes, t
<1>4. TakeEntry(d, ReadUpTo(colors, K)) = ReadUpTo(colors, K)
  <2>1. d[Len(W[K]) + 1] = 0  BY DataAt
  <2>2. ReadUpTo(colors, K).off = Len(W[K])  BY DEF ReadUpTo, At
  <2> QED  BY <2>1, <2>2 DEF TakeEntry
<1> QED  BY <1>2, <1>3, <1>4

LoopOf(d) ==
  CHOOSE f : f = [n \in 0..Len(d) |->
                    IF n = 0 THEN [off |-> 0, result |-> NoColors] ELSE TakeEntry(d, f[n - 1])]

\* What write_content() has written init_block_list() reads as the same table, for every
\* table with IDs of 1 to MaxLength characters: whatever their number, order and padding,
\* the offsets of the two agree, and the colours are back in the order of their bytes.
THEOREM WrittenIsRead ==
  ASSUME NEW colors, IsTable(colors)
  PROVE  init_block_list(DataOf(colors)) = colors
<1> DEFINE K == Cardinality(DOMAIN colors)
           d == DataOf(colors)
           N == Len(d)
           R(n) == ReadUpTo(colors, IF n <= K THEN n ELSE K)
           Step(f) == [n \in 0..N |-> IF n = 0 THEN [off |-> 0, result |-> NoColors] ELSE TakeEntry(d, f[n - 1])]
           f == [n \in 0..N |-> R(n)]
<1>1. K \in Nat /\ N \in Nat /\ K <= N
  <2>1. d \in Seq(Nat) /\ K <= Len(d)  BY DataAt
  <2>2. K \in Nat  BY IdsInOrder
  <2> QED  BY <2>1, <2>2
<1>2. /\ ReadUpTo(colors, 0) = At(0, NoColors)
      /\ \A i \in 1..K : TakeEntry(d, ReadUpTo(colors, i - 1)) = ReadUpTo(colors, i)
      /\ TakeEntry(d, ReadUpTo(colors, K)) = ReadUpTo(colors, K)
  BY EntriesAreTaken
<1> HIDE DEF K, d, N
<1>3. R(0) = [off |-> 0, result |-> NoColors]  BY <1>1, <1>2 DEF At
<1>4. ASSUME NEW n \in 1..N PROVE R(n) = TakeEntry(d, R(n - 1))
  <2>1. CASE n <= K
    <3>1. n \in 1..K /\ n - 1 <= K  BY <1>1, <2>1
    <3> QED  BY <1>2, <2>1, <3>1
  <2>2. CASE ~(n <= K)
    <3>1. (IF n - 1 <= K THEN n - 1 ELSE K) = K  BY <1>1, <2>2
    <3> QED  BY <1>2, <2>2, <3>1
  <2> QED  BY <2>1, <2>2
<1> HIDE DEF R
<1>5. f = Step(f)
  <2> SUFFICES ASSUME NEW n \in 0..N
               PROVE  R(n) = IF n = 0 THEN [off |-> 0, result |-> NoColors] ELSE TakeEntry(d, f[n - 1])
    OBVIOUS
  <2>1. CASE n = 0  BY <1>3, <2>1
  <2>2. CASE n # 0
    <3>1. n \in 1..N /\ n - 1 \in 0..N  BY <1>1, <2>2
    <3>2. f[n - 1] = R(n - 1)  BY <3>1
    <3> QED  BY <1>4, <2>2, <3>1, <3>2
  <2> QED  BY <2>1, <2>2
<1> DEFINE h == LoopOf(d)
<1>6. h = Step(h)  BY <1>5 DEF LoopOf, N
<1>7. init_block_list(d) = h[N].result  BY DEF init_block_list, LoopOf, N
<1> HIDE DEF h
<1>8. h[0] = R(0)
  <2>1. 0 \in 0..N  BY <1>1
  <2>2. Step(h)[0] = [off |-> 0, result |-> NoColors]  BY <2>1
  <2> HIDE DEF Step
  <2> QED  BY <1>3, <1>6, <2>2
<1>9. ASSUME NEW n \in 1..N PROVE h[n] = TakeEntry(d, h[n - 1])
  <2>1. n \in 0..N /\ n # 0  BY <1>1
  <2>2. Step(h)[n] = TakeEntry(d, h[n - 1])  BY <2>1
  <2> HIDE DEF Step
  <2> QED  BY <1>6, <2>2
<1>10. h[N] = R(N)
  <2> DEFINE S == {n \in 0..N : h[n] = R(n)}
  <2>1. 0 \in S  BY <1>1, <1>8
  <2>2. ASSUME NEW n \in 0..(N - 1), n \in S PROVE n + 1 \in S
    <3>1. n + 1 \in 1..N /\ n + 1 \in 0..N /\ (n + 1) - 1 = n  BY <1>1
    <3>2. h[n + 1] = TakeEntry(d, h[n]) /\ R(n + 1) = TakeEntry(d, R(n)) /\ h[n] = R(n)
      BY <1>4, <1>9, <2>2, <3>1
    <3> QED  BY <3>1, <3>2
  <2> HIDE DEF S
  <2>3. \A n \in 0..N : n \in S  BY <1>1, <2>1, <2>2, UpTo
  <2>4. N \in 0..N  BY <1>1
  <2> QED  BY <2>3, <2>4 DEF S
<1>11. R(N) = ReadUpTo(colors, K)  BY <1>1 DEF R
<1>12. ReadUpTo(colors, K).result = [id \in IdsUpTo(colors, K) |-> colors[id]]  BY DEF ReadUpTo, At
<1>13. IdsUpTo(colors, K) = DOMAIN colors
  <2>1. \A i \in 1..K : IdAt(colors, i) \in DOMAIN colors  BY IdsInOrder DEF K
  <2>2. \A a \in DOMAIN colors : \E i \in 1..K : IdAt(colors, i) = a  BY IdsInOrder DEF K
  <2> QED  BY <2>1, <2>2 DEF IdsUpTo
<1>14. colors = [id \in DOMAIN colors |-> colors[id]]  BY DEF IsTable
<1> QED  BY <1>7, <1>10, <1>11, <1>12, <1>13, <1>14 DEF d

-----------------------------------------------------------------------------
(* The fields of a line. *)

Tabs(l) == {i \in DOMAIN l : l[i] = Tab}

LEMMA FieldsAre ==
  ASSUME NEW l \in Seq(Nat)
  PROVE  /\ Len(split_field(l)) = 2 => \E t \in DOMAIN l : Tabs(l) = {t}
         /\ \A t \in DOMAIN l : Tabs(l) = {t} =>
              /\ Len(split_field(l)) = 2
              /\ split_field(l)[1] = SubSeq(l, 1, t - 1)
              /\ split_field(l)[2] = SubSeq(l, t + 1, Len(l))
<1> DEFINE n == Len(l)
           T == Tabs(l)
           cuts == {0, n + 1} \cup T
           cut(k) == CHOOSE c \in cuts : Cardinality({d \in cuts : d < c}) = k - 1
           piece(k) == SubSeq(l, cut(k) + 1, cut(k + 1) - 1)
           F(q) == [k \in 1..q |-> piece(k)]
<1>1. n \in Nat /\ DOMAIN l = 1..n  OBVIOUS
<1>2. T \subseteq 1..n  BY <1>1 DEF Tabs
<1>3. IsFiniteSet(T) /\ Cardinality(T) \in Nat
  <2>1. IsFiniteSet(1..n)
    <3>1. 1 \in Int /\ n \in Int  BY <1>1
    <3> HIDE DEF n
    <3> QED  BY <3>1, FS_Interval
  <2> HIDE DEF n, T
  <2>2. IsFiniteSet(T)  BY <1>2, <2>1, FS_Subset
  <2> QED  BY <2>2, FS_CardinalityType
<1>4. Cardinality(cuts) = Cardinality(T) + 2
  <2> DEFINE U == T \cup {0}
             V == U \cup {n + 1}
  <2>1. 0 \notin T /\ n + 1 \notin U  BY <1>1, <1>2
  <2>2. cuts = V  OBVIOUS
  <2> HIDE DEF T
  <2>3. IsFiniteSet(U) /\ Cardinality(U) = Cardinality(T) + 1  BY <1>3, <2>1, FS_AddElement
  <2> HIDE DEF U, n
  <2>4. Cardinality(V) = Cardinality(U) + 1  BY <2>1, <2>3, FS_AddElement
  <2> HIDE DEF V, cuts
  <2> QED  BY <1>3, <2>2, <2>3, <2>4
<1>5. split_field(l) = F(Cardinality(cuts) - 1)  BY DEF split_field, Tabs
<1> DEFINE m == Cardinality(cuts) - 1
<1>6. m = Cardinality(T) + 1 /\ m \in Nat
  <2> HIDE DEF cuts, T
  <2> QED  BY <1>3, <1>4
<1> HIDE DEF cut, cuts, T, n, m, piece
<1>7. Len(F(m)) = m  BY <1>6
<1>8. ASSUME Len(split_field(l)) = 2 PROVE \E t \in DOMAIN l : Tabs(l) = {t}
  <2>1. m = 2  BY <1>5, <1>7, <1>8 DEF m
  <2>2. Cardinality(T) = 1  BY <1>3, <1>6, <2>1
  <2>3. \E t : T = {t}  BY <1>3, <2>2, FS_Singleton
  <2> QED  BY <1>1, <1>2, <2>3 DEF T
<1>9. ASSUME NEW t \in DOMAIN l, Tabs(l) = {t}
      PROVE  /\ Len(split_field(l)) = 2
             /\ split_field(l)[1] = SubSeq(l, 1, t - 1)
             /\ split_field(l)[2] = SubSeq(l, t + 1, Len(l))
  <2>1. Cardinality(T) = 1  BY <1>9, FS_Singleton DEF T
  <2>2. m = 2  BY <1>6, <2>1
  <2>3. t \in 1..n /\ cuts = {0, t, n + 1}  BY <1>1, <1>9 DEF cuts, T
  <2> DEFINE Lesser(c) == {d \in cuts : d < c}
  <2>4. Lesser(0) = {} /\ Lesser(t) = {0} /\ Lesser(n + 1) = {0} \cup {t}
    BY <1>1, <2>3
  <2>5. Cardinality(Lesser(0)) = 0 /\ Cardinality(Lesser(t)) = 1 /\ Cardinality(Lesser(n + 1)) = 2
    <3> DEFINE v == {0}
               u == v \cup {t}
    <3>1. IsFiniteSet(v) /\ Cardinality(v) = 1  BY FS_Singleton
    <3>2. t \notin v  BY <2>3
    <3>0. Lesser(t) = v /\ Lesser(n + 1) = u  BY <2>4
    <3> HIDE DEF v
    <3>3. Cardinality(u) = Cardinality(v) + 1  BY <3>1, <3>2, FS_AddElement
    <3> HIDE DEF u
    <3> HIDE DEF Lesser
    <3>4. Cardinality(Lesser(0)) = 0  BY <2>4, FS_EmptySet
    <3>5. Cardinality(Lesser(t)) = 1  BY <3>0, <3>1
    <3>6. Cardinality(Lesser(n + 1)) = 2  BY <3>0, <3>1, <3>3
    <3> QED  BY <3>4, <3>5, <3>6
  <2>6. \A c \in cuts : c = 0 \/ c = t \/ c = n + 1  BY <2>3
  <2> HIDE DEF Lesser
  <2>7. cut(1) = 0 /\ cut(2) = t /\ cut(3) = n + 1
    <3>1. \A k : cut(k) = CHOOSE c \in cuts : Cardinality(Lesser(c)) = k - 1  BY DEF cut, Lesser
    <3>2. cut(1) = 0  BY <2>3, <2>5, <2>6, <3>1
    <3>3. cut(2) = t  BY <2>3, <2>5, <2>6, <3>1
    <3>4. cut(3) = n + 1  BY <2>3, <2>5, <2>6, <3>1
    <3> QED  BY <3>2, <3>3, <3>4
  <2>8. split_field(l) = F(2)  BY <1>5, <2>2 DEF m
  <2>9. F(2)[1] = SubSeq(l, 1, t - 1)
    <3>1. F(2)[1] = piece(1)  OBVIOUS
    <3>2. piece(1) = SubSeq(l, cut(1) + 1, cut(2) - 1)  BY DEF piece
    <3>3. cut(1) + 1 = 1  BY <2>7
    <3> QED  BY <2>7, <3>1, <3>2, <3>3
  <2>10. F(2)[2] = SubSeq(l, t + 1, n)
    <3>1. F(2)[2] = piece(2)  OBVIOUS
    <3>2. piece(2) = SubSeq(l, cut(2) + 1, cut(3) - 1)  BY DEF piece
    <3>3. cut(3) - 1 = n  BY <1>1, <2>7
    <3> QED  BY <2>7, <3>1, <3>2, <3>3
  <2> QED  BY <1>5, <1>7, <2>2, <2>8, <2>9, <2>10 DEF n
<1> QED  BY <1>8, <1>9

FirstTab(l, t) == t \in 1..Len(l) /\ l[t] = Tab /\ \A k \in 1..(t - 1) : l[k] # Tab

LEMMA PartsOfLine ==
  ASSUME NEW l \in Seq(Nat), NEW t, FirstTab(l, t)
  PROVE  /\ IdIn(l) = SubSeq(l, 1, t - 1) /\ ColorIn(l) = SubSeq(l, t + 1, Len(l))
         /\ IdIn(l) \in Seq(Nat) /\ ColorIn(l) \in Seq(Nat)
         /\ Len(ColorIn(l)) = Len(l) - t
         /\ \A j \in 1..(Len(l) - t) : ColorIn(l)[j] = l[t + j]
<1> DEFINE n == Len(l)
<1>1. n \in Nat /\ DOMAIN l = 1..n /\ t \in 1..n /\ l[t] = Tab /\ \A k \in 1..(t - 1) : l[k] # Tab
  BY DEF FirstTab
<1> DEFINE P(i) == l[i] = Tab /\ \A k \in 1..(i - 1) : l[k] # Tab
<1>2. ASSUME NEW i \in 1..n, P(i) PROVE i = t
  <2>1. CASE i < t
    <3>1. i \in 1..(t - 1)  BY <1>1, <2>1
    <3> QED  BY <1>1, <1>2, <3>1
  <2>2. CASE t < i
    <3>1. t \in 1..(i - 1)  BY <1>1, <2>2
    <3> QED  BY <1>1, <1>2, <3>1
  <2> QED  BY <1>1, <2>1, <2>2
<1>3. (CHOOSE i \in DOMAIN l : l[i] = Tab /\ \A k \in 1..(i - 1) : l[k] # Tab) = t
  <2>1. P(t)  BY <1>1
  <2> QED  BY <1>1, <1>2, <2>1
<1>4. IdIn(l) = SubSeq(l, 1, t - 1)  BY <1>3 DEF IdIn
<1> DEFINE v == SubSeq(l, 1, 1 + (t - 1) - 1)
           m == t + 1
           w == SubSeq(l, m, m + (n - t) - 1)
<1>5. 1 + (t - 1) - 1 = t - 1 /\ m + (n - t) - 1 = n /\ t - 1 \in Nat /\ n - t \in Nat /\ m \in Int
  BY <1>1
<1>6. v \in Seq(Nat) /\ Len(v) = t - 1
  <2>1. \A j \in 1..(1 + (t - 1) - 1) : l[j] \in Nat
    <3> TAKE j \in 1..(1 + (t - 1) - 1)
    <3>1. j \in 1..Len(l)  BY <1>1
    <3> QED  BY <3>1
  <2> DEFINE k == t - 1
  <2>2. k \in Nat /\ \A j \in 1..(1 + k - 1) : l[j] \in Nat  BY <1>5, <2>1
  <2> HIDE DEF k
  <2>3. PieceOf(Nat, l, 1, k)  BY <2>2, Piece
  <2> QED  BY <2>3 DEF PieceOf, k
<1>7. w \in Seq(Nat) /\ Len(w) = n - t /\ \A j \in 1..(n - t) : w[j] = l[m + j - 1]
  <2>1. \A j \in m..(m + (n - t) - 1) : l[j] \in Nat
    <3> TAKE j \in m..(m + (n - t) - 1)
    <3>1. j \in 1..Len(l)  BY <1>1
    <3> QED  BY <3>1
  <2> DEFINE k == n - t
  <2>2. m \in Int /\ k \in Nat /\ \A j \in m..(m + k - 1) : l[j] \in Nat  BY <1>5, <2>1
  <2> HIDE DEF k, m
  <2>3. PieceOf(Nat, l, m, k)  BY <2>2, Piece
  <2> QED  BY <2>3 DEF PieceOf, k
<1>8. IdIn(l) = v  BY <1>4, <1>5
<1>9. Len(IdIn(l)) + 2 = t + 1
  <2> HIDE DEF v
  <2> QED  BY <1>1, <1>6, <1>8
<1>10. ColorIn(l) = SubSeq(l, t + 1, Len(l))  BY <1>9 DEF ColorIn
<1>11. ColorIn(l) = w  BY <1>5, <1>10
<1>12. \A j \in 1..(n - t) : m + j - 1 = t + j  BY <1>1
<1> HIDE DEF v, w, m
<1> QED  BY <1>4, <1>6, <1>7, <1>8, <1>10, <1>11, <1>12

LEMMA TabIsFirst ==
  ASSUME NEW l \in Seq(Nat), HasTab(l)
  PROVE  \E t \in 1..Len(l) : FirstTab(l, t)
<1> DEFINE D == {i \in 1..Len(l) : l[i] = Tab}
<1>1. D \in SUBSET Nat /\ D # {}  BY DEF HasTab
<1>2. PICK t \in D : \A u \in D : t <= u
  <2> HIDE DEF D
  <2> QED  BY <1>1, LeastOf
<1>3. ASSUME NEW k \in 1..(t - 1) PROVE l[k] # Tab
  <2>1. k \in 1..Len(l) /\ ~(t <= k)  OBVIOUS
  <2> QED  BY <1>2, <2>1
<1> QED  BY <1>2, <1>3 DEF FirstTab

\* A line that is an ID and a colour has them in its two fields.
LEMMA FieldsOfLine ==
  ASSUME NEW l \in Seq(Nat)
  PROVE  /\ Len(split_field(l)) = 2 => /\ HasTab(l)
                                       /\ split_field(l)[1] = IdIn(l) /\ split_field(l)[2] = ColorIn(l)
         /\ Proper(l) => Len(split_field(l)) = 2
<1>1. ASSUME Len(split_field(l)) = 2
      PROVE  HasTab(l) /\ split_field(l)[1] = IdIn(l) /\ split_field(l)[2] = ColorIn(l)
  <2>1. PICK t \in DOMAIN l : Tabs(l) = {t}  BY <1>1, FieldsAre
  <2>2. t \in 1..Len(l) /\ l[t] = Tab /\ \A k \in 1..Len(l) : l[k] = Tab => k = t  BY <2>1 DEF Tabs
  <2>3. FirstTab(l, t)
    <3>1. ASSUME NEW k \in 1..(t - 1) PROVE l[k] # Tab
      <4>1. k \in 1..Len(l) /\ k # t  BY <2>2
      <4> QED  BY <2>2, <4>1
    <3> QED  BY <2>2, <3>1 DEF FirstTab
  <2>4. HasTab(l)  BY <2>2 DEF HasTab
  <2>5. split_field(l)[1] = SubSeq(l, 1, t - 1) /\ split_field(l)[2] = SubSeq(l, t + 1, Len(l))
    BY <2>1, FieldsAre
  <2>6. IdIn(l) = SubSeq(l, 1, t - 1) /\ ColorIn(l) = SubSeq(l, t + 1, Len(l))
    BY <2>3, PartsOfLine
  <2> QED  BY <2>4, <2>5, <2>6
<1>2. ASSUME Proper(l) PROVE Len(split_field(l)) = 2
  <2>1. PICK t \in 1..Len(l) : FirstTab(l, t)  BY <1>2, TabIsFirst DEF Proper
  <2> DEFINE c == ColorIn(l)
             n == Len(l)
  <2>2. n \in Nat /\ t \in 1..n /\ l[t] = Tab /\ \A k \in 1..(t - 1) : l[k] # Tab  BY <2>1 DEF FirstTab
  <2>3. Len(c) = n - t /\ \A j \in 1..(n - t) : c[j] = l[t + j]  BY <2>1, PartsOfLine
  <2>4. c[1] = Hash /\ \A i \in 2..Len(c) : Digit(c[i]) # {}  BY <1>2 DEF Proper
  <2>5. Digit(Tab) = {}  BY DEF Digit, Tab
  <2> HIDE DEF c, n
  <2>6. ASSUME NEW u \in 1..n, l[u] = Tab PROVE u = t
    <3>1. ~(u < t)
      <4> SUFFICES ASSUME u < t PROVE FALSE  OBVIOUS
      <4>1. u \in 1..(t - 1)  BY <2>2
      <4> QED  BY <2>2, <2>6, <4>1
    <3>2. ~(t < u)
      <4> SUFFICES ASSUME t < u PROVE FALSE  OBVIOUS
      <4> DEFINE j == u - t
      <4>1. j \in 1..(n - t) /\ t + j = u  BY <2>2
      <4> HIDE DEF j
      <4>2. c[j] = Tab  BY <2>3, <2>6, <4>1
      <4>3. j = 1 \/ j \in 2..Len(c)  BY <2>2, <2>3, <4>1
      <4>4. CASE j = 1  BY <2>4, <4>2, <4>4 DEF Tab, Hash
      <4>5. CASE j \in 2..Len(c)  BY <2>4, <2>5, <4>2, <4>5
      <4> QED  BY <4>3, <4>4, <4>5
    <3> QED  BY <2>2, <3>1, <3>2
  <2>7. Tabs(l) = {t} /\ t \in DOMAIN l
    <3>1. DOMAIN l = 1..n  BY DEF n
    <3> QED  BY <2>2, <2>6, <3>1 DEF Tabs
  <2> QED  BY <2>7, FieldsAre
<1> QED  BY <1>1, <1>2

-----------------------------------------------------------------------------
(* Colours. *)

LEMMA DigitIs ==
  ASSUME NEW a \in Nat, Digit(a) # {}
  PROVE  Digit(a) = {Value(a)} /\ Value(a) \in Nat
<1>1. a \in 48..57 \/ a \in 65..70 \/ a \in 97..102  BY DEF Digit
<1>2. \E v \in Nat : Digit(a) = {v}
  <2>1. CASE a \in 48..57
    <3>1. Digit(a) = {a - 48} /\ a - 48 \in Nat  BY <2>1 DEF Digit
    <3> QED  BY <3>1
  <2>2. CASE a \in 65..70
    <3>1. Digit(a) = {a - 55} /\ a - 55 \in Nat  BY <2>2 DEF Digit
    <3> QED  BY <3>1
  <2>3. CASE a \in 97..102
    <3>1. Digit(a) = {a - 87} /\ a - 87 \in Nat  BY <2>3 DEF Digit
    <3> QED  BY <3>1
  <2> QED  BY <1>1, <2>1, <2>2, <2>3
<1> QED  BY <1>2 DEF Value

LEMMA ByteOfDigits ==
  ASSUME NEW a \in Nat, NEW b \in Nat, Digit(a) # {}, Digit(b) # {}
  PROVE  stoi(a, b) = {16 * Value(a) + Value(b)} /\ 16 * Value(a) + Value(b) \in Nat
<1>1. Digit(a) = {Value(a)} /\ Digit(b) = {Value(b)} /\ Value(a) \in Nat /\ Value(b) \in Nat
  BY DigitIs
<1>2. stoi(a, b) = {16 * h + l : h \in Digit(a), l \in Digit(b)}  BY DEF stoi
<1>3. stoi(a, b) = {16 * Value(a) + Value(b)}  BY <1>1, <1>2
<1> QED  BY <1>1, <1>3

\* What a line says its colour is.
ColorOf(c) == [k \in 1..4 |-> Channel(c, k)]
IsColor(c) ==
  /\ c \in Seq(Nat) /\ Len(c) \in {4, 5, 7, 9} /\ c[1] = Hash
  /\ \A i \in 2..Len(c) : Digit(c[i]) # {}

\* The two digits of a channel, which are those of 255 if it is not given.
High(c, k) ==
  IF Len(c) <= 5 THEN IF k < Len(c) THEN c[k + 1] ELSE 102 ELSE IF 2 * k < Len(c) THEN c[2 * k] ELSE 102
Low(c, k) ==
  IF Len(c) <= 5 THEN IF k < Len(c) THEN c[k + 1] ELSE 102 ELSE IF 2 * k < Len(c) THEN c[2 * k + 1] ELSE 102

LEMMA GivenChannels ==
  ASSUME NEW n \in {4, 5, 7, 9}, NEW k \in 1..4
  PROVE  /\ n <= 5 => n \in {4, 5} /\ n \notin {7, 9} /\ (~(k < n) => n = 4 /\ k = 4)
         /\ ~(n <= 5) => n \in {7, 9} /\ n \notin {4, 5} /\ (~(2 * k < n) => n = 7 /\ k = 4)
  OBVIOUS

LEMMA ChannelIs ==
  ASSUME NEW c, IsColor(c), NEW k \in 1..4
  PROVE  stoi(High(c, k), Low(c, k)) = {Channel(c, k)} /\ Channel(c, k) \in Nat
<1>1. c \in Seq(Nat) /\ Len(c) \in {4, 5, 7, 9} /\ \A i \in 2..Len(c) : Digit(c[i]) # {}  BY DEF IsColor
<1>2. \A i \in 2..Len(c) : c[i] \in Nat
  <2> TAKE i \in 2..Len(c)
  <2>1. i \in 1..Len(c)  BY <1>1
  <2> QED  BY <1>1, <2>1, ElementOfSeq
<1>3. Digit(102) = {15} /\ stoi(102, 102) = {255}
  <2>1. Digit(102) = {15}  BY DEF Digit
  <2> QED  BY <2>1 DEF stoi
<1>4. CASE Len(c) <= 5 /\ k < Len(c)
  <2> DEFINE i == k + 1
  <2>0. Len(c) \in {4, 5} /\ Len(c) \notin {7, 9}  BY <1>1, <1>4, GivenChannels
  <2>1. i \in 2..Len(c) /\ Len(c) \in {4, 5} /\ Len(c) \notin {7, 9}  BY <1>4, <2>0
  <2>2. High(c, k) = c[i] /\ Low(c, k) = c[i]  BY <1>4 DEF High, Low
  <2>3. Channel(c, k) = 17 * Value(c[i])  BY <1>4, <2>1 DEF Channel
  <2> HIDE DEF i
  <2> DEFINE a == c[i]
  <2>4. a \in Nat /\ Digit(a) # {}  BY <1>1, <1>2, <2>1
  <2> HIDE DEF a
  <2>5. stoi(a, a) = {16 * Value(a) + Value(a)} /\ Value(a) \in Nat  BY <2>4, ByteOfDigits, DigitIs
  <2>6. 16 * Value(a) + Value(a) = 17 * Value(a) /\ 17 * Value(a) \in Nat  BY <2>5
  <2> QED  BY <2>2, <2>3, <2>5, <2>6 DEF a
<1>5. CASE Len(c) <= 5 /\ ~(k < Len(c))
  <2>1. Len(c) = 4 /\ k = 4  BY <1>1, <1>5, GivenChannels
  <2>2. High(c, k) = 102 /\ Low(c, k) = 102  BY <1>5 DEF High, Low
  <2>3. Channel(c, k) = 255  BY <2>1 DEF Channel
  <2> QED  BY <1>3, <2>2, <2>3
<1>6. CASE ~(Len(c) <= 5) /\ 2 * k < Len(c)
  <2> DEFINE i == 2 * k
             j == 2 * k + 1
  <2>1. i \in 2..Len(c) /\ j \in 2..Len(c) /\ Len(c) \notin {4, 5} /\ Len(c) \in {7, 9}
    BY <1>1, <1>6, SMTT(30)
  <2>2. High(c, k) = c[i] /\ Low(c, k) = c[j]  BY <1>6 DEF High, Low
  <2>3. Channel(c, k) = 16 * Value(c[i]) + Value(c[j])  BY <1>6, <2>1 DEF Channel
  <2> HIDE DEF i, j
  <2> DEFINE a == c[i]
             b == c[j]
  <2>4. a \in Nat /\ Digit(a) # {} /\ b \in Nat /\ Digit(b) # {}  BY <1>1, <1>2, <2>1
  <2> HIDE DEF a, b
  <2>5. stoi(a, b) = {16 * Value(a) + Value(b)} /\ 16 * Value(a) + Value(b) \in Nat  BY <2>4, ByteOfDigits
  <2> QED  BY <2>2, <2>3, <2>5 DEF a, b
<1>7. CASE ~(Len(c) <= 5) /\ ~(2 * k < Len(c))
  <2>1. Len(c) = 7 /\ k = 4  BY <1>1, <1>7, GivenChannels
  <2>2. High(c, k) = 102 /\ Low(c, k) = 102  BY <1>7 DEF High, Low
  <2>3. Channel(c, k) = 255  BY <2>1 DEF Channel
  <2> QED  BY <1>3, <2>2, <2>3
<1> QED  BY <1>4, <1>5, <1>6, <1>7

LEMMA ColorIsRead ==
  ASSUME NEW c, IsColor(c)
  PROVE  set_css_color(c) = ColorOf(c) /\ ColorOf(c) \in Rgba /\ ColorOf(c) # Invalid
<1> DEFINE n == Len(c)
           s == Tail(c)
           given == IF n <= 5 THEN Doubled(s) ELSE s
           r == IF n \in {4, 7} THEN given \o <<102, 102>> ELSE given
           parsed == [i \in 1..4 |-> stoi(r[2 * i - 1], r[2 * i])]
<1>1. c \in Seq(Nat) /\ n \in {4, 5, 7, 9} /\ c[1] = Hash  BY DEF IsColor
<1>2. s \in Seq(Nat) /\ Len(s) = n - 1 /\ \A j \in 1..(n - 1) : s[j] = c[j + 1]
  <2>1. c # <<>>  BY <1>1
  <2> QED  BY <1>1, <2>1, HeadTailProperties
<1> HIDE DEF s
<1>3. set_css_color(c) =
        IF \E i \in 1..4 : parsed[i] = {} THEN Invalid ELSE [i \in 1..4 |-> CHOOSE v \in parsed[i] : TRUE]
  BY <1>1 DEF set_css_color, s
<1>4. ASSUME NEW k \in 1..4 PROVE r[2 * k - 1] = High(c, k) /\ r[2 * k] = Low(c, k)
  <2>0. n \in Nat  BY <1>1
  <2>1. given \in Seq(Nat) /\ Len(given) = IF n <= 5 THEN 2 * (n - 1) ELSE n - 1
    <3>1. CASE n <= 5
      <4>1. Doubled(s) = [i \in 1..(2 * (n - 1)) |-> s[(i + 1) \div 2]]  BY <1>2 DEF Doubled
      <4>2. \A i \in 1..(2 * (n - 1)) : (i + 1) \div 2 \in 1..(n - 1)  BY <1>1
      <4>3. \A i \in 1..(2 * (n - 1)) : s[(i + 1) \div 2] \in Nat  BY <1>2, <4>2, ElementOfSeq
      <4>4. 2 * (n - 1) \in Nat  BY <1>1
      <4> HIDE DEF n
      <4>5. Doubled(s) \in Seq(Nat) /\ Len(Doubled(s)) = 2 * (n - 1)  BY <4>1, <4>3, <4>4
      <4> QED  BY <3>1, <4>5
    <3>2. CASE ~(n <= 5)  BY <1>2, <3>2
    <3> QED  BY <3>1, <3>2
  <2>2. \A j \in 1..Len(given) : given[j] = IF n <= 5 THEN c[(j + 1) \div 2 + 1] ELSE c[j + 1]
    <3> TAKE j \in 1..Len(given)
    <3>1. CASE n <= 5
      <4>1. j \in 1..(2 * (n - 1))  BY <2>1, <3>1
      <4>2. (j + 1) \div 2 \in 1..(n - 1)  BY <1>1, <4>1
      <4>3. Doubled(s) = [i \in 1..(2 * (n - 1)) |-> s[(i + 1) \div 2]]  BY <1>2 DEF Doubled
      <4>4. given[j] = s[(j + 1) \div 2]  BY <3>1, <4>1, <4>3
      <4> QED  BY <1>2, <3>1, <4>2, <4>4
    <3>2. CASE ~(n <= 5)  BY <1>2, <2>1, <3>2
    <3> QED  BY <3>1, <3>2
  <2> HIDE DEF given
  <2> DEFINE e == <<102, 102>>
             m == Len(given)
  <2>3. e \in Seq(Nat) /\ 2 = Len(e) /\ e[1] = 102 /\ e[2] = 102  OBVIOUS
  <2> HIDE DEF e
  <2>4. m = Len(given)  OBVIOUS
  <2> HIDE DEF m
  <2>5. JoinedOf(Nat, given, e, m, 2)
    <3>1. given \in Seq(Nat)  BY <2>1
    <3>2. e \in Seq(Nat) /\ 2 = Len(e)  BY <2>3
    <3> QED  BY ONLY <2>4, <3>1, <3>2, JoinedAt
  <2>6. (\A j \in 1..m : (given \o e)[j] = given[j]) /\ \A j \in 1..2 : (given \o e)[m + j] = e[j]
    BY <2>5 DEF JoinedOf
  <2>7. \A j \in 1..m : r[j] = given[j]  BY <2>6 DEF e
  <2>8. ASSUME n \in {4, 7} PROVE r[7] = 102 /\ r[8] = 102
    <3>1. m = 6
      <4> HIDE DEF n
      <4>1. m = IF n <= 5 THEN 2 * (n - 1) ELSE n - 1  BY <2>1, <2>4
      <4>2. CASE n = 4  BY <4>1, <4>2
      <4>3. CASE n = 7  BY <4>1, <4>3
      <4> QED  BY <2>8, <4>2, <4>3
    <3>2. 7 = m + 1 /\ 8 = m + 2 /\ 1 \in 1..2 /\ 2 \in 1..2  BY <3>1
    <3>3. (given \o e)[m + 1] = 102 /\ (given \o e)[m + 2] = 102  BY <2>3, <2>6, <3>2
    <3>4. r = given \o e  BY <2>8 DEF e
    <3> HIDE DEF r
    <3> QED  BY <3>2, <3>3, <3>4
  <2> HIDE DEF r
  <2> DEFINE i == 2 * k - 1
             j == 2 * k
  <2>9. CASE n <= 5 /\ k < n
    <3>1. /\ i \in 1..m /\ j \in 1..m /\ (i + 1) \div 2 + 1 = k + 1 /\ (j + 1) \div 2 + 1 = k + 1
      <4>1. m = 2 * (n - 1)  BY <2>1, <2>4, <2>9
      <4> HIDE DEF n
      <4> QED  BY <1>1, <2>9, <4>1
    <3> HIDE DEF i, j, n
    <3>2. given[i] = c[k + 1] /\ given[j] = c[k + 1]  BY <2>2, <2>4, <2>9, <3>1
    <3>3. r[i] = c[k + 1] /\ r[j] = c[k + 1]  BY <2>7, <3>1, <3>2
    <3> QED  BY <2>9, <3>3 DEF High, Low, i, j, n
  <2>10. CASE n <= 5 /\ ~(k < n)
    <3>1. n = 4 /\ k = 4  BY <1>1, <2>10, GivenChannels
    <3>2. i = 7 /\ j = 8 /\ n \in {4, 7}  BY <3>1
    <3>3. r[i] = 102 /\ r[j] = 102  BY <2>8, <3>2
    <3> QED  BY <2>10, <3>3 DEF High, Low
  <2>11. CASE ~(n <= 5) /\ 2 * k < n
    <3>1. i \in 1..m /\ j \in 1..m /\ i + 1 = 2 * k /\ j + 1 = 2 * k + 1
      <4>1. m = n - 1  BY <2>1, <2>4, <2>11
      <4> HIDE DEF n
      <4> QED  BY <1>1, <2>11, <4>1
    <3> HIDE DEF i, j, n
    <3>2. given[i] = c[2 * k] /\ given[j] = c[2 * k + 1]  BY <2>2, <2>4, <2>11, <3>1
    <3>3. r[i] = c[2 * k] /\ r[j] = c[2 * k + 1]  BY <2>7, <3>1, <3>2
    <3> QED  BY <2>11, <3>3 DEF High, Low, i, j, n
  <2>12. CASE ~(n <= 5) /\ ~(2 * k < n)
    <3>1. n = 7 /\ k = 4  BY <1>1, <2>12, GivenChannels
    <3>2. i = 7 /\ j = 8 /\ n \in {4, 7}  BY <3>1
    <3>3. r[i] = 102 /\ r[j] = 102  BY <2>8, <3>2
    <3> QED  BY <2>12, <3>3 DEF High, Low
  <2> QED  BY <2>9, <2>10, <2>11, <2>12
<1> HIDE DEF r
<1>5. \A k \in 1..4 : parsed[k] = {Channel(c, k)} /\ Channel(c, k) \in Nat
  <2> TAKE k \in 1..4
  <2>1. parsed[k] = stoi(High(c, k), Low(c, k))  BY <1>4
  <2> QED  BY <2>1, ChannelIs
<1> HIDE DEF parsed
<1>6. set_css_color(c) = ColorOf(c)
  <2>1. ~\E i \in 1..4 : parsed[i] = {}  BY <1>5
  <2>2. \A k \in 1..4 : (CHOOSE v \in parsed[k] : TRUE) = Channel(c, k)  BY <1>5
  <2> QED  BY <1>3, <2>1, <2>2 DEF ColorOf
<1>7. ColorOf(c) \in Seq(Nat) /\ Len(ColorOf(c)) = 4  BY <1>5 DEF ColorOf
<1>8. ColorOf(c) # Invalid
  <2> DEFINE u == ColorOf(c)
             v == Invalid
  <2>1. Len(u) = 4  BY <1>7
  <2>2. Len(v) = 0  BY DEF Invalid
  <2> HIDE DEF u, v
  <2>3. u # v
    <3> SUFFICES ASSUME u = v PROVE FALSE  OBVIOUS
    <3>1. Len(u) = Len(v)  OBVIOUS
    <3> QED  BY <2>1, <2>2, <3>1
  <2> QED  BY <2>3 DEF u, v
<1> QED  BY <1>6, <1>7, <1>8 DEF Rgba

-----------------------------------------------------------------------------
(* What the generator loads. *)

\* What it may have loaded, whatever the lines are.
FirstFields == {split_field(l)[1] : l \in Seq(Nat)}
SecondFields == {set_css_color(split_field(l)[2]) : l \in Seq(Nat)}
Tables == UNION {[D -> SecondFields] : D \in SUBSET FirstFields}
Loads == {Loaded(ok, c) : ok \in BOOLEAN, c \in Tables}

LEMMA LoadedIs ==
  ASSUME NEW ok \in BOOLEAN, NEW c \in Tables
  PROVE  Loaded(ok, c) \in Loads
  BY DEF Loads

LEMMA LoadsAre ==
  ASSUME NEW to \in Loads
  PROVE  to.ok \in BOOLEAN /\ to.colors \in Tables
<1>1. PICK ok \in BOOLEAN, c \in Tables : to = Loaded(ok, c)  BY DEF Loads
<1> QED  BY <1>1 DEF Loaded

LEMMA LineIsLoaded ==
  ASSUME NEW to \in Loads, NEW l \in Seq(Nat)
  PROVE  /\ LoadLine(to, l) \in Loads
         /\ ~to.ok => ~LoadLine(to, l).ok
         /\ ~Comment(l) /\ HasTab(l) /\ Len(IdIn(l)) > MaxLength => ~LoadLine(to, l).ok
<1> DEFINE fields == split_field(l)
           id == fields[1]
           color == set_css_color(fields[2])
           c == to.colors
           next == With(c, id, color)
<1>1. to.ok \in BOOLEAN /\ c \in Tables  BY LoadsAre
<1>2. Loaded(FALSE, c) \in Loads  BY <1>1, LoadedIs
<1>3. next \in Tables
  <2>1. PICK D \in SUBSET FirstFields : c \in [D -> SecondFields]  BY <1>1 DEF Tables
  <2>2. id \in FirstFields /\ color \in SecondFields  BY DEF FirstFields, SecondFields
  <2> HIDE DEF id, color, c
  <2>3. D \cup {id} \in SUBSET FirstFields  BY <2>2
  <2>4. DOMAIN c = D  BY <2>1
  <2>5. next \in [D \cup {id} -> SecondFields]  BY <2>1, <2>2, <2>4 DEF With
  <2> HIDE DEF next
  <2> QED  BY <2>3, <2>5 DEF Tables
<1>4. Loaded(TRUE, next) \in Loads  BY <1>3, LoadedIs
<1>5. ~Loaded(FALSE, c).ok  BY DEF Loaded
<1>6. LoadLine(to, l) =
        IF ~to.ok \/ Comment(l) THEN to
        ELSE IF Len(fields) # 2 THEN Loaded(FALSE, c)
        ELSE IF TooLong(id) \/ color = Invalid THEN Loaded(FALSE, c)
        ELSE IF id \in DOMAIN c THEN to ELSE Loaded(TRUE, next)
  BY DEF LoadLine, Comment, With
<1>7. Len(fields) = 2 => HasTab(l) /\ id = IdIn(l)  BY FieldsOfLine
<1> HIDE DEF fields, id, color, c, next
<1>8. ASSUME ~Comment(l), HasTab(l), Len(IdIn(l)) > MaxLength PROVE ~LoadLine(to, l).ok
  <2>1. CASE ~to.ok  BY <1>6, <2>1
  <2>2. CASE to.ok /\ Len(fields) # 2  BY <1>5, <1>6, <1>8, <2>2
  <2>3. CASE to.ok /\ Len(fields) = 2
    <3>1. TooLong(id)  BY <1>7, <1>8, <2>3 DEF TooLong
    <3> QED  BY <1>5, <1>6, <1>8, <2>3, <3>1
  <2> QED  BY <1>1, <2>1, <2>2, <2>3
<1> QED  BY <1>2, <1>4, <1>6, <1>8

FileOf(to, file) ==
  CHOOSE f : f = [i \in 1..Len(file) |-> IF i = 1 THEN to ELSE LoadLine(f[i - 1], file[i])]

LEMMA FileIsLoaded ==
  ASSUME NEW to \in Loads, NEW file \in Seq(Seq(Nat)), file # <<>>
  PROVE  /\ FileOf(to, file)[1] = to
         /\ \A i \in 2..Len(file) : FileOf(to, file)[i] = LoadLine(FileOf(to, file)[i - 1], file[i])
         /\ \A i \in 1..Len(file) : FileOf(to, file)[i] \in Loads
<1> DEFINE n == Len(file)
           m == n - 1
           Step(f) == [i \in 1..n |-> IF i = 1 THEN to ELSE LoadLine(f[i - 1], file[i])]
           G == [w \in (1..m) \X Loads |-> LoadLine(w[2], file[w[1] + 1])]
<1>1. n \in Nat \ {0} /\ m \in Nat  BY EmptySeq
<1>2. \A i \in 1..n : file[i] \in Seq(Nat)  BY ElementOfSeq
<1>3. G \in [(1..m) \X Loads -> Loads]
  <2>1. ASSUME NEW w \in (1..m) \X Loads PROVE LoadLine(w[2], file[w[1] + 1]) \in Loads
    <3> DEFINE j == w[1] + 1
               v == w[2]
    <3>1. w[1] \in 1..m /\ v \in Loads  OBVIOUS
    <3>2. j \in 1..n  BY <1>1, <3>1
    <3> HIDE DEF j, v
    <3>3. LoadLine(v, file[j]) \in Loads  BY <1>2, <3>1, <3>2, LineIsLoaded
    <3> QED  BY <3>3 DEF j, v
  <2> QED  BY <2>1
<1> HIDE DEF n, m, G
<1>4. PICK g \in [0..m -> Loads] : g[0] = to /\ \A k \in 1..m : g[k] = G[<<k, g[k - 1]>>]
  <2>1. \E g \in [0..m -> Loads] : Iterated(g, m, to, G)  BY ONLY <1>1, <1>3, to \in Loads, Iterates
  <2> QED  BY <2>1 DEF Iterated
<1> DEFINE f == [i \in 1..n |-> g[i - 1]]
<1>5. f = Step(f)
  <2> SUFFICES ASSUME NEW i \in 1..n
               PROVE  g[i - 1] = IF i = 1 THEN to ELSE LoadLine(f[i - 1], file[i])
    OBVIOUS
  <2>1. CASE i = 1  BY <1>4, <2>1
  <2>2. CASE i # 1
    <3> DEFINE j == i - 1
    <3>1. j \in 1..m /\ j - 1 \in 0..m /\ j \in 1..n /\ j + 1 = i  BY <1>1, <2>2 DEF m
    <3> HIDE DEF j
    <3>2. g[j] = G[<<j, g[j - 1]>>] /\ g[j - 1] \in Loads  BY <1>4, <3>1
    <3>3. G[<<j, g[j - 1]>>] = LoadLine(g[j - 1], file[i])
      <4>1. <<j, g[j - 1]>> \in (1..m) \X Loads  BY <3>1, <3>2
      <4> QED  BY <3>1, <4>1 DEF G
    <3>4. f[j] = g[j - 1]  BY <3>1
    <3> HIDE DEF f
    <3> QED  BY <2>2, <3>2, <3>3, <3>4 DEF j
  <2> QED  BY <2>1, <2>2
<1> DEFINE h == FileOf(to, file)
<1>6. h = Step(h)  BY <1>5 DEF FileOf, n
<1> HIDE DEF h
<1>7. h[1] = to
  <2>1. 1 \in 1..n  BY <1>1
  <2>2. Step(h)[1] = to  BY <2>1
  <2> HIDE DEF Step
  <2> QED  BY <1>6, <2>2
<1>8. ASSUME NEW i \in 2..n PROVE h[i] = LoadLine(h[i - 1], file[i])
  <2>1. i \in 1..n /\ i # 1  BY <1>1
  <2>2. Step(h)[i] = LoadLine(h[i - 1], file[i])  BY <2>1
  <2> HIDE DEF Step
  <2> QED  BY <1>6, <2>2
<1>9. \A i \in 1..n : h[i] \in Loads
  <2> DEFINE S == {k \in 0..m : h[k + 1] \in Loads}
  <2>1. 0 \in S
    <3>1. 0 \in 0..m /\ 0 + 1 = 1  BY <1>1
    <3> QED  BY <1>7, <3>1
  <2>2. ASSUME NEW k \in 0..(m - 1), k \in S PROVE k + 1 \in S
    <3> DEFINE i == (k + 1) + 1
    <3>1. i \in 2..n /\ i \in 1..n /\ k + 1 \in 0..m /\ i - 1 = k + 1  BY <1>1 DEF m
    <3>2. h[k + 1] \in Loads  BY <2>2
    <3> HIDE DEF i
    <3>3. h[i] = LoadLine(h[i - 1], file[i]) /\ h[i - 1] \in Loads /\ file[i] \in Seq(Nat)
      BY <1>2, <1>8, <3>1, <3>2
    <3>4. h[i] \in Loads  BY <3>3, LineIsLoaded
    <3> QED  BY <3>1, <3>4 DEF i
  <2> HIDE DEF S
  <2>3. \A k \in 0..m : k \in S  BY <1>1, <2>1, <2>2, UpTo
  <2> TAKE i \in 1..n
  <2> DEFINE k == i - 1
  <2>4. k \in 0..m /\ k + 1 = i  BY <1>1 DEF m
  <2> HIDE DEF k
  <2> QED  BY <2>3, <2>4 DEF S
<1> QED  BY <1>7, <1>8, <1>9 DEF h, n

LEMMA ColorsOfFile ==
  ASSUME NEW to \in Loads, NEW file \in Seq(Seq(Nat))
  PROVE  /\ load_colors(to, file) \in Loads
         /\ load_colors(to, file) = IF ~to.ok \/ file = <<>> THEN Loaded(FALSE, to.colors)
                                    ELSE FileOf(to, file)[Len(file)]
<1>1. load_colors(to, file) = IF ~to.ok \/ file = <<>> THEN Loaded(FALSE, to.colors)
                              ELSE FileOf(to, file)[Len(file)]
  BY DEF load_colors, FileOf
<1>2. Loaded(FALSE, to.colors) \in Loads  BY LoadsAre, LoadedIs
<1>3. ASSUME file # <<>> PROVE FileOf(to, file)[Len(file)] \in Loads
  <2>1. Len(file) \in 1..Len(file)  BY <1>3, EmptySeq
  <2> QED  BY <1>3, <2>1, FileIsLoaded
<1> QED  BY <1>1, <1>2, <1>3

ElementsOf(files) ==
  CHOOSE f : f = [i \in 0..Len(files) |-> IF i = 0 THEN Loaded(TRUE, NoColors) ELSE load_colors(f[i - 1], files[i])]

LEMMA ElementsAre ==
  ASSUME NEW files \in Seq(Seq(Seq(Nat)))
  PROVE  /\ ElementsOf(files)[0] = Loaded(TRUE, NoColors)
         /\ \A i \in 1..Len(files) : ElementsOf(files)[i] = load_colors(ElementsOf(files)[i - 1], files[i])
         /\ \A i \in 0..Len(files) : ElementsOf(files)[i] \in Loads
         /\ Generated(files) = IF ElementsOf(files)[Len(files)].ok
                               THEN DataOf(ElementsOf(files)[Len(files)].colors) ELSE Invalid
<1> DEFINE n == Len(files)
           a == Loaded(TRUE, NoColors)
           Step(f) == [i \in 0..n |-> IF i = 0 THEN a ELSE load_colors(f[i - 1], files[i])]
           G == [w \in (1..n) \X Loads |-> load_colors(w[2], files[w[1]])]
<1>1. n \in Nat  OBVIOUS
<1>2. \A i \in 1..n : files[i] \in Seq(Seq(Nat))  BY ElementOfSeq
<1>3. a \in Loads
  <2>1. NoColors \in [{} -> SecondFields]  BY DEF NoColors
  <2>2. NoColors \in Tables  BY <2>1 DEF Tables
  <2> QED  BY <2>2, LoadedIs
<1>4. G \in [(1..n) \X Loads -> Loads]
  <2>1. ASSUME NEW w \in (1..n) \X Loads PROVE load_colors(w[2], files[w[1]]) \in Loads
    <3> DEFINE v == w[2]
               file == files[w[1]]
    <3>1. v \in Loads /\ file \in Seq(Seq(Nat))  BY <1>2
    <3> HIDE DEF v, file
    <3>2. load_colors(v, file) \in Loads  BY <3>1, ColorsOfFile
    <3> QED  BY <3>2 DEF v, file
  <2> QED  BY <2>1
<1> HIDE DEF n, a, G
<1>5. PICK f \in [0..n -> Loads] : f[0] = a /\ \A k \in 1..n : f[k] = G[<<k, f[k - 1]>>]
  <2>1. \E f \in [0..n -> Loads] : Iterated(f, n, a, G)  BY ONLY <1>1, <1>3, <1>4, Iterates
  <2> QED  BY <2>1 DEF Iterated
<1>6. f = Step(f)
  <2> SUFFICES ASSUME NEW i \in 0..n
               PROVE  f[i] = IF i = 0 THEN a ELSE load_colors(f[i - 1], files[i])
    BY <1>5
  <2>1. CASE i = 0  BY <1>5, <2>1
  <2>2. CASE i # 0
    <3>1. i \in 1..n /\ i - 1 \in 0..n  BY <1>1, <2>2
    <3>2. f[i] = G[<<i, f[i - 1]>>] /\ f[i - 1] \in Loads  BY <1>5, <3>1
    <3>3. G[<<i, f[i - 1]>>] = load_colors(f[i - 1], files[i])
      <4>1. <<i, f[i - 1]>> \in (1..n) \X Loads  BY <3>1, <3>2
      <4> QED  BY <4>1 DEF G
    <3> QED  BY <2>2, <3>2, <3>3
  <2> QED  BY <2>1, <2>2
<1> DEFINE h == ElementsOf(files)
<1>7. h = Step(h)  BY <1>6 DEF ElementsOf, n, a
<1>8. Generated(files) = IF h[n].ok THEN DataOf(h[n].colors) ELSE Invalid
  BY DEF Generated, ElementsOf, DataOf, n
<1> HIDE DEF h
<1>9. h[0] = a
  <2>1. 0 \in 0..n  BY <1>1
  <2>2. Step(h)[0] = a  BY <2>1
  <2> HIDE DEF Step
  <2> QED  BY <1>7, <2>2
<1>10. ASSUME NEW i \in 1..n PROVE h[i] = load_colors(h[i - 1], files[i])
  <2>1. i \in 0..n /\ i # 0  BY <1>1
  <2>2. Step(h)[i] = load_colors(h[i - 1], files[i])  BY <2>1
  <2> HIDE DEF Step
  <2> QED  BY <1>7, <2>2
<1>11. \A i \in 0..n : h[i] \in Loads
  <2> DEFINE S == {k \in 0..n : h[k] \in Loads}
  <2>1. 0 \in S  BY <1>1, <1>3, <1>9
  <2>2. ASSUME NEW k \in 0..(n - 1), k \in S PROVE k + 1 \in S
    <3> DEFINE i == k + 1
    <3>1. i \in 1..n /\ i \in 0..n /\ i - 1 = k  BY <1>1
    <3> HIDE DEF i
    <3>2. h[i] = load_colors(h[k], files[i]) /\ h[k] \in Loads /\ files[i] \in Seq(Seq(Nat))
      BY <1>2, <1>10, <2>2, <3>1
    <3>3. h[i] \in Loads  BY <3>2, ColorsOfFile
    <3> QED  BY <3>1, <3>3 DEF i
  <2> HIDE DEF S
  <2>3. \A k \in 0..n : k \in S  BY <1>1, <2>1, <2>2, UpTo
  <2> QED  BY <2>3 DEF S
<1> QED  BY <1>8, <1>9, <1>10, <1>11 DEF h, n, a

-----------------------------------------------------------------------------
(* The entries of the files. *)

LineAt(files, at) == files[at[1]][at[2]]
EntryIds(files, A) == {IdIn(LineAt(files, at)) : at \in A}
FirstIn(files, A, a) == \A b \in A : Precedes(b, a) => IdIn(LineAt(files, b)) # IdIn(LineAt(files, a))

\* What is loaded is what the entries say, for an ID what the first one about it says.
Represents(files, A, to) ==
  /\ to.ok /\ IsTable(to.colors) /\ DOMAIN to.colors = EntryIds(files, A)
  /\ \A a \in A : FirstIn(files, A, a) =>
       to.colors[IdIn(LineAt(files, a))] = ColorOf(ColorIn(LineAt(files, a)))

LEMMA PartsOfProper ==
  ASSUME NEW l \in Seq(Nat), Proper(l)
  PROVE  /\ IdIn(l) \in Seq(Nat) /\ Len(IdIn(l)) \in 1..MaxLength /\ IsColor(ColorIn(l))
         /\ Len(split_field(l)) = 2
         /\ split_field(l)[1] = IdIn(l) /\ split_field(l)[2] = ColorIn(l)
<1>1. PICK t \in 1..Len(l) : FirstTab(l, t)  BY TabIsFirst DEF Proper
<1>2. IdIn(l) \in Seq(Nat) /\ ColorIn(l) \in Seq(Nat)  BY <1>1, PartsOfLine
<1>3. Len(IdIn(l)) \in 1..MaxLength  BY DEF Proper
<1>4. IsColor(ColorIn(l))  BY <1>2 DEF Proper, IsColor
<1> QED  BY <1>2, <1>3, <1>4, FieldsOfLine

Grows(c, id, color) == IsTable(With(c, id, color)) /\ DOMAIN With(c, id, color) = DOMAIN c \cup {id}

LEMMA TableGrows ==
  ASSUME NEW c, IsTable(c), NEW id \in Seq(Nat), Len(id) \in 1..MaxLength, NEW color \in Rgba
  PROVE  Grows(c, id, color)
<1> DEFINE w == With(c, id, color)
           D == DOMAIN c \cup {id}
<1>1. /\ DOMAIN c \subseteq Seq(Nat) /\ IsFiniteSet(DOMAIN c) /\ c \in [DOMAIN c -> Rgba]
      /\ \A i \in DOMAIN c : Len(i) \in 1..MaxLength
  BY DEF IsTable
<1>2. w \in [D -> Rgba] /\ DOMAIN w = D  BY <1>1 DEF With
<1>3. IsFiniteSet(D)  BY <1>1, FS_AddElement
<1>4. D \subseteq Seq(Nat) /\ \A i \in D : Len(i) \in 1..MaxLength  BY <1>1
<1> HIDE DEF w, D
<1>5. IsTable(w)  BY <1>2, <1>3, <1>4 DEF IsTable
<1> QED  BY <1>2, <1>5 DEF w, D, Grows

LEMMA LineJoins ==
  ASSUME NEW files, NEW A, NEW at, at \notin A, NEW l \in Seq(Nat), l = LineAt(files, at),
         \A b \in A : Precedes(b, at) /\ ~Precedes(at, b), ~Precedes(at, at),
         ~Comment(l), Proper(l), NEW to, Represents(files, A, to)
  PROVE  Represents(files, A \cup {at}, LoadLine(to, l))
<1> DEFINE id == IdIn(l)
           color == ColorOf(ColorIn(l))
           c == to.colors
           B == A \cup {at}
<1>1. /\ id \in Seq(Nat) /\ Len(id) \in 1..MaxLength
      /\ split_field(l)[1] = id /\ split_field(l)[2] = ColorIn(l) /\ Len(split_field(l)) = 2
      /\ IsColor(ColorIn(l))
  BY PartsOfProper
<1>2. set_css_color(ColorIn(l)) = color /\ color \in Rgba /\ color # Invalid  BY <1>1, ColorIsRead
<1>3. ~TooLong(id)
  <2>1. MaxLength \in Nat  BY FilesAssumption
  <2> HIDE DEF id
  <2> QED  BY <1>1, <2>1 DEF TooLong
<1>4. /\ to.ok /\ IsTable(c) /\ DOMAIN c = EntryIds(files, A)
      /\ \A a \in A : FirstIn(files, A, a) =>
           c[IdIn(LineAt(files, a))] = ColorOf(ColorIn(LineAt(files, a)))
  BY DEF Represents
<1>5. LoadLine(to, l) = IF id \in DOMAIN c THEN to ELSE Loaded(TRUE, With(c, id, color))
  <2>1. ~(~to.ok \/ (l # <<>> /\ l[1] = Hash))  BY <1>4 DEF Comment
  <2> HIDE DEF id, color, c
  <2>2. LoadLine(to, l) =
          IF id \in DOMAIN to.colors THEN to
          ELSE Loaded(TRUE, [i \in DOMAIN to.colors \cup {id} |-> IF i = id THEN color ELSE to.colors[i]])
    BY <1>1, <1>2, <1>3, <2>1 DEF LoadLine
  <2> QED  BY <2>2 DEF With, c
<1>6. EntryIds(files, B) = EntryIds(files, A) \cup {id}  BY DEF EntryIds
<1>7. ASSUME NEW a \in A, FirstIn(files, B, a) PROVE FirstIn(files, A, a)  BY <1>7 DEF FirstIn
<1>8. FirstIn(files, B, at) <=> id \notin EntryIds(files, A)  BY DEF FirstIn, EntryIds
<1>9. CASE id \in DOMAIN c
  <2>1. LoadLine(to, l) = to  BY <1>5, <1>9
  <2>2. EntryIds(files, B) = DOMAIN c  BY <1>4, <1>6, <1>9
  <2>3. ~FirstIn(files, B, at)  BY <1>4, <1>8, <1>9
  <2>4. ASSUME NEW a \in B, FirstIn(files, B, a)
        PROVE  c[IdIn(LineAt(files, a))] = ColorOf(ColorIn(LineAt(files, a)))
    <3>1. a \in A  BY <2>3, <2>4
    <3> QED  BY <1>4, <1>7, <2>4, <3>1
  <2> HIDE DEF B
  <2>5. Represents(files, B, to)  BY <1>4, <2>2, <2>4 DEF Represents
  <2> QED  BY <2>1, <2>5 DEF B
<1>10. CASE id \notin DOMAIN c
  <2> DEFINE w == With(c, id, color)
             n == Loaded(TRUE, w)
  <2>1. LoadLine(to, l) = n  BY <1>5, <1>10
  <2>2. n.ok /\ n.colors = w  BY DEF Loaded
  <2>3. IsTable(w) /\ DOMAIN w = DOMAIN c \cup {id}
    <3> HIDE DEF id, color, c, w
    <3>1. Grows(c, id, color)  BY <1>1, <1>2, <1>4, TableGrows
    <3> QED  BY <3>1 DEF Grows, w
  <2>4. w[id] = color /\ \A i \in DOMAIN c : w[i] = c[i]  BY <1>10 DEF With
  <2> HIDE DEF w
  <2>5. ASSUME NEW a \in B, FirstIn(files, B, a)
        PROVE  w[IdIn(LineAt(files, a))] = ColorOf(ColorIn(LineAt(files, a)))
    <3>1. CASE a = at  BY <2>4, <3>1
    <3>2. CASE a \in A
      <4>1. IdIn(LineAt(files, a)) \in DOMAIN c  BY <1>4, <3>2 DEF EntryIds
      <4>2. c[IdIn(LineAt(files, a))] = ColorOf(ColorIn(LineAt(files, a)))  BY <1>4, <1>7, <2>5, <3>2
      <4> QED  BY <2>4, <4>1, <4>2
    <3> QED  BY <3>1, <3>2
  <2>6. DOMAIN w = EntryIds(files, B)  BY <1>4, <1>6, <2>3
  <2> HIDE DEF n, B
  <2>7. Represents(files, B, n)  BY <2>2, <2>3, <2>5, <2>6 DEF Represents
  <2> QED  BY <2>1, <2>7 DEF B
<1> QED  BY <1>9, <1>10

\* The entries up to a line of a file.
EntriesUpTo(files, f, i) == {at \in EntriesOf(files) : at[1] < f \/ (at[1] = f /\ at[2] <= i)}

IsEntry(files, at) ==
  \E f \in 1..Len(files) : \E i \in 2..Len(files[f]) : at = <<f, i>> /\ ~Comment(files[f][i])

LEMMA EntryPlace ==
  ASSUME NEW files \in Seq(Seq(Seq(Nat))), NEW at
  PROVE  at \in EntriesOf(files) <=> IsEntry(files, at)
<1>1. DOMAIN files = 1..Len(files)  OBVIOUS
<1>2. at \in EntriesOf(files) <=>
        (\E f \in DOMAIN files : at \in {f} \X (2..Len(files[f]))) /\ ~Comment(files[at[1]][at[2]])
  BY DEF EntriesOf
<1>3. ASSUME NEW f \in 1..Len(files), at \in {f} \X (2..Len(files[f])), ~Comment(files[at[1]][at[2]])
      PROVE  \E i \in 2..Len(files[f]) : at = <<f, i>> /\ ~Comment(files[f][i])
  <2>1. at = <<f, at[2]>> /\ at[1] = f /\ at[2] \in 2..Len(files[f])  BY <1>3
  <2> QED  BY <1>3, <2>1
<1>4. ASSUME NEW f \in 1..Len(files), NEW i \in 2..Len(files[f]), at = <<f, i>>, ~Comment(files[f][i])
      PROVE  at \in {f} \X (2..Len(files[f])) /\ ~Comment(files[at[1]][at[2]])
  BY <1>4
<1> QED  BY <1>1, <1>2, <1>3, <1>4 DEF IsEntry

LEMMA EntryIsPlace ==
  ASSUME NEW files \in Seq(Seq(Seq(Nat))), NEW b \in EntriesOf(files)
  PROVE  /\ b[1] \in 1..Len(files) /\ b[2] \in 2..Len(files[b[1]]) /\ b = <<b[1], b[2]>>
         /\ b[1] \in Nat /\ b[2] \in Nat /\ Len(files[b[1]]) \in Nat
<1>1. IsEntry(files, b)  BY EntryPlace
<1>2. PICK g \in 1..Len(files) : \E j \in 2..Len(files[g]) : b = <<g, j>>  BY ONLY <1>1 DEF IsEntry
<1>3. files[g] \in Seq(Seq(Nat))  BY ElementOfSeq
<1>4. Len(files[g]) \in Nat  BY <1>3
<1> QED  BY <1>2, <1>4

LEMMA LineOfFile ==
  ASSUME NEW files \in Seq(Seq(Seq(Nat))), NEW f \in 1..Len(files), NEW i \in 1..Len(files[f])
  PROVE  /\ files[f] \in Seq(Seq(Nat)) /\ files[f][i] \in Seq(Nat) /\ Len(files[f]) \in Nat
         /\ LineAt(files, <<f, i>>) = files[f][i]
<1>1. files[f] \in Seq(Seq(Nat))  BY ElementOfSeq
<1> DEFINE file == files[f]
<1>2. file \in Seq(Seq(Nat)) /\ i \in 1..Len(file)  BY <1>1
<1> HIDE DEF file
<1>3. file[i] \in Seq(Nat) /\ Len(file) \in Nat  BY <1>2, ElementOfSeq
<1> QED  BY <1>1, <1>3 DEF file, LineAt

LEMMA OneLineMore ==
  ASSUME NEW files \in Seq(Seq(Seq(Nat))), \A at \in EntriesOf(files) : Proper(LineAt(files, at)),
         NEW f \in 1..Len(files), NEW i \in 2..Len(files[f]),
         NEW to, Represents(files, EntriesUpTo(files, f, i - 1), to)
  PROVE  Represents(files, EntriesUpTo(files, f, i), LoadLine(to, files[f][i]))
<1> DEFINE A == EntriesUpTo(files, f, i - 1)
           B == EntriesUpTo(files, f, i)
           l == files[f][i]
           at == <<f, i>>
<1>0. f \in Nat /\ i \in Nat /\ i \in 1..Len(files[f])
  <2>1. files[f] \in Seq(Seq(Nat))  BY ElementOfSeq
  <2>2. Len(files[f]) \in Nat  BY <2>1
  <2> QED  BY <2>2
<1>1. l \in Seq(Nat) /\ l = LineAt(files, at)  BY <1>0, LineOfFile
<1>2. \A b \in EntriesOf(files) : b[1] \in Nat /\ b[2] \in Nat /\ b = <<b[1], b[2]>>
  BY EntryIsPlace
<1>3. \A b \in A : b \in EntriesOf(files) /\ (b[1] < f \/ (b[1] = f /\ b[2] <= i - 1))
  BY DEF EntriesUpTo
<1>4. at \notin A /\ \A b \in A : Precedes(b, at) /\ ~Precedes(at, b)
  <2>1. at[1] = f /\ at[2] = i  OBVIOUS
  <2> HIDE DEF at
  <2>2. at \notin A
    <3> SUFFICES ASSUME at \in A PROVE FALSE  OBVIOUS
    <3>1. at[1] < f \/ (at[1] = f /\ at[2] <= i - 1)  BY <1>3
    <3> QED  BY <1>0, <2>1, <3>1
  <2>3. ASSUME NEW b \in A PROVE Precedes(b, at) /\ ~Precedes(at, b)
    <3>1. b[1] \in Nat /\ b[2] \in Nat /\ (b[1] < f \/ (b[1] = f /\ b[2] <= i - 1))  BY <1>2, <1>3
    <3> QED  BY <1>0, <2>1, <3>1 DEF Precedes
  <2> QED  BY <2>2, <2>3
<1>5. ~Precedes(at, at)  BY <1>0 DEF Precedes
<1>6. A \subseteq B
  <2>1. ASSUME NEW b \in A PROVE b \in B
    <3>1. b \in EntriesOf(files) /\ b[2] \in Nat /\ (b[1] < f \/ (b[1] = f /\ b[2] <= i - 1))  BY <1>2, <1>3
    <3>2. b[1] < f \/ (b[1] = f /\ b[2] <= i)  BY <1>0, <3>1
    <3> QED  BY <3>1, <3>2 DEF EntriesUpTo
  <2> QED  BY <2>1
<1>7. ASSUME NEW b \in B, b # at PROVE b \in A
  <2>1. /\ b \in EntriesOf(files) /\ b[1] \in Nat /\ b[2] \in Nat /\ b = <<b[1], b[2]>>
        /\ (b[1] < f \/ (b[1] = f /\ b[2] <= i))
    BY <1>2 DEF EntriesUpTo
  <2>2. ~(b[1] = f /\ b[2] = i)  BY <1>7, <2>1
  <2>3. b[1] < f \/ (b[1] = f /\ b[2] <= i - 1)  BY <1>0, <2>1, <2>2
  <2> QED  BY <2>1, <2>3 DEF EntriesUpTo
<1>8. at \in B <=> ~Comment(l)
  <2>1. at \in EntriesOf(files) <=> ~Comment(l)
    <3>1. ASSUME at \in EntriesOf(files) PROVE ~Comment(l)
      <4>1. PICK g \in 1..Len(files) : \E j \in 2..Len(files[g]) : at = <<g, j>> /\ ~Comment(files[g][j])
        BY <3>1, EntryPlace DEF IsEntry
      <4> QED  BY <4>1
    <3>2. ASSUME ~Comment(l) PROVE at \in EntriesOf(files)  BY <3>2, EntryPlace DEF IsEntry
    <3> QED  BY <3>1, <3>2
  <2>2. at[1] = f /\ at[2] <= i  BY <1>0
  <2> HIDE DEF at
  <2> QED  BY <2>1, <2>2 DEF EntriesUpTo
<1> HIDE DEF A, B, l, at
<1>9. CASE Comment(l)
  <2>1. A = B  BY <1>6, <1>7, <1>8, <1>9
  <2>2. LoadLine(to, l) = to  BY <1>9 DEF LoadLine, Comment
  <2>3. Represents(files, B, LoadLine(to, l))  BY <2>1, <2>2 DEF A
  <2> QED  BY <2>3 DEF B, l
<1>10. CASE ~Comment(l)
  <2>1. B = A \cup {at}  BY <1>6, <1>7, <1>8, <1>10
  <2>2. Proper(l)
    <3>1. at \in EntriesOf(files)  BY <1>8, <1>10 DEF B, EntriesUpTo
    <3> QED  BY <1>1, <3>1
  <2>3. Represents(files, A, to)  BY DEF A
  <2>4. Represents(files, A \cup {at}, LoadLine(to, l))
    BY ONLY <1>1, <1>4, <1>5, <1>10, <2>2, <2>3, LineJoins
  <2> QED  BY <2>1, <2>4 DEF B, l
<1> QED  BY <1>9, <1>10

AllProper(files) ==
  /\ \A f \in DOMAIN files : files[f] # <<>>
  /\ \A at \in EntriesOf(files) : Proper(LineAt(files, at))

LEMMA OneFileMore ==
  ASSUME NEW files \in Seq(Seq(Seq(Nat))), AllProper(files), NEW f \in 1..Len(files),
         NEW to \in Loads, Represents(files, EntriesUpTo(files, f, 1), to)
  PROVE  Represents(files, EntriesUpTo(files, f, Len(files[f])), load_colors(to, files[f]))
<1> DEFINE file == files[f]
           n == Len(file)
           m == n - 1
           h == FileOf(to, file)
           S == {k \in 0..m : Represents(files, EntriesUpTo(files, f, k + 1), h[k + 1])}
<1>1. file \in Seq(Seq(Nat)) /\ file # <<>>
  <2>1. f \in DOMAIN files  OBVIOUS
  <2> QED  BY <2>1, ElementOfSeq DEF AllProper
<1>2. n \in Nat \ {0} /\ m \in Nat /\ m + 1 = n
  <2> HIDE DEF file
  <2>1. n \in Nat \ {0}  BY <1>1, EmptySeq
  <2> HIDE DEF n
  <2> QED  BY <2>1
<1>3. h[1] = to /\ \A i \in 2..n : h[i] = LoadLine(h[i - 1], file[i])
  <2> HIDE DEF file
  <2> QED  BY <1>1, FileIsLoaded
<1> HIDE DEF h
<1>4. 0 \in S
  <2>1. 0 \in 0..m /\ 0 + 1 = 1  BY <1>2
  <2> QED  BY <1>3, <2>1
<1>5. ASSUME NEW k \in 0..(m - 1), k \in S PROVE k + 1 \in S
  <2> DEFINE i == (k + 1) + 1
  <2>1. i \in 2..n /\ i - 1 = k + 1 /\ k + 1 \in 0..m  BY <1>2
  <2>2. Represents(files, EntriesUpTo(files, f, k + 1), h[k + 1])  BY <1>5
  <2> DEFINE from == h[k + 1]
  <2> HIDE DEF i
  <2>3. Represents(files, EntriesUpTo(files, f, i - 1), from)  BY <2>1, <2>2
  <2> HIDE DEF from
  <2>4. i \in 2..Len(files[f])  BY <2>1
  <2>5. \A at \in EntriesOf(files) : Proper(LineAt(files, at))  BY DEF AllProper
  <2>6. Represents(files, EntriesUpTo(files, f, i), LoadLine(from, files[f][i]))
    BY <2>3, <2>4, <2>5, OneLineMore
  <2>7. h[i] = LoadLine(from, files[f][i])  BY <1>3, <2>1 DEF from
  <2> QED  BY <2>1, <2>6, <2>7 DEF i
<1>6. m \in S
  <2> HIDE DEF S, m
  <2>1. \A k \in 0..m : k \in S  BY <1>2, <1>4, <1>5, UpTo
  <2> QED  BY <1>2, <2>1
<1>7. Represents(files, EntriesUpTo(files, f, n), h[n])
  <2> HIDE DEF n
  <2> QED  BY <1>2, <1>6
<1>8. load_colors(to, file) = h[n]
  <2>1. to.ok  BY DEF Represents
  <2> QED  BY <1>1, <2>1, ColorsOfFile DEF h
<1> QED  BY <1>7, <1>8

LEMMA FileBoundary ==
  ASSUME NEW files \in Seq(Seq(Seq(Nat)))
  PROVE  /\ EntriesUpTo(files, 1, 1) = {}
         /\ \A f \in 1..Len(files) : EntriesUpTo(files, f, Len(files[f])) = EntriesUpTo(files, f + 1, 1)
         /\ EntriesUpTo(files, Len(files) + 1, 1) = EntriesOf(files)
<1>1. \A b \in EntriesOf(files) :
        /\ b[1] \in 1..Len(files) /\ b[2] \in 2..Len(files[b[1]])
        /\ b[2] \in Nat /\ Len(files[b[1]]) \in Nat
  BY EntryIsPlace
<1>2. EntriesUpTo(files, 1, 1) = {}
  <2>1. ASSUME NEW b \in EntriesUpTo(files, 1, 1) PROVE FALSE
    <3>1. b \in EntriesOf(files) /\ (b[1] < 1 \/ (b[1] = 1 /\ b[2] <= 1))  BY DEF EntriesUpTo
    <3>2. b[1] \in 1..Len(files) /\ b[2] \in 2..Len(files[b[1]])  BY <1>1, <3>1
    <3> QED  BY <3>1, <3>2
  <2> QED  BY <2>1
<1>3. ASSUME NEW f \in 1..Len(files), NEW b \in EntriesOf(files)
      PROVE  (b[1] < f \/ (b[1] = f /\ b[2] <= Len(files[f]))) <=> (b[1] < f + 1 \/ (b[1] = f + 1 /\ b[2] <= 1))
  <2>1. /\ b[1] \in 1..Len(files) /\ b[2] \in 2..Len(files[b[1]])
        /\ b[2] \in Nat /\ Len(files[b[1]]) \in Nat
    BY <1>1
  <2>2. b[1] = f => b[2] <= Len(files[f])  BY <2>1
  <2>3. ~(b[2] <= 1)  BY <2>1
  <2>4. b[1] < f + 1 <=> (b[1] < f \/ b[1] = f)
    <3>1. b[1] \in Int /\ f \in Int  BY <2>1
    <3> QED  BY ONLY <3>1
  <2> QED  BY <2>2, <2>3, <2>4
<1>4. \A f \in 1..Len(files) : EntriesUpTo(files, f, Len(files[f])) = EntriesUpTo(files, f + 1, 1)
  BY <1>3 DEF EntriesUpTo
<1>5. EntriesUpTo(files, Len(files) + 1, 1) = EntriesOf(files)
  <2>1. ASSUME NEW b \in EntriesOf(files) PROVE b[1] < Len(files) + 1
    <3>1. b[1] \in 1..Len(files) /\ Len(files) \in Nat  BY <1>1
    <3> QED  BY <3>1
  <2> QED  BY <2>1 DEF EntriesUpTo
<1> QED  BY <1>2, <1>4, <1>5

LEMMA ProperIsLoaded ==
  ASSUME NEW files \in Seq(Seq(Seq(Nat))), AllProper(files)
  PROVE  Represents(files, EntriesOf(files), ElementsOf(files)[Len(files)])
<1> DEFINE n == Len(files)
           h == ElementsOf(files)
           S == {f \in 0..n : Represents(files, EntriesUpTo(files, f + 1, 1), h[f])}
<1>1. n \in Nat  OBVIOUS
<1>2. /\ h[0] = Loaded(TRUE, NoColors) /\ (\A i \in 1..n : h[i] = load_colors(h[i - 1], files[i]))
      /\ \A i \in 0..n : h[i] \in Loads
  BY ElementsAre
<1> HIDE DEF h
<1>3. 0 \in S
  <2> DEFINE e == {}
  <2>1. h[0].ok /\ h[0].colors = NoColors  BY <1>2 DEF Loaded
  <2>2. DOMAIN NoColors = {} /\ IsTable(NoColors)  BY FS_EmptySet DEF NoColors, IsTable
  <2>3. EntryIds(files, {}) = {}  BY DEF EntryIds
  <2>4. Represents(files, {}, h[0])  BY <2>1, <2>2, <2>3 DEF Represents
  <2>5. EntriesUpTo(files, 0 + 1, 1) = {}  BY FileBoundary
  <2>6. 0 \in 0..n  BY <1>1
  <2> QED  BY <2>4, <2>5, <2>6
<1>4. ASSUME NEW k \in 0..(n - 1), k \in S PROVE k + 1 \in S
  <2> DEFINE f == k + 1
             to == h[k]
  <2>1. f \in 1..n /\ f \in 0..n /\ f - 1 = k /\ k \in 0..n  BY <1>1
  <2>2. to \in Loads /\ Represents(files, EntriesUpTo(files, f, 1), to)  BY <1>2, <1>4, <2>1
  <2> HIDE DEF f
  <2>3. h[f] = load_colors(to, files[f])  BY <1>2, <2>1
  <2> HIDE DEF to
  <2>4. Represents(files, EntriesUpTo(files, f, Len(files[f])), load_colors(to, files[f]))
    BY <2>1, <2>2, OneFileMore
  <2>5. EntriesUpTo(files, f, Len(files[f])) = EntriesUpTo(files, f + 1, 1)  BY <2>1, FileBoundary
  <2>6. Represents(files, EntriesUpTo(files, f + 1, 1), h[f])  BY <2>3, <2>4, <2>5
  <2> QED  BY <2>1, <2>6 DEF f
<1>5. n \in S
  <2> HIDE DEF S, n
  <2>1. \A k \in 0..n : k \in S  BY <1>1, <1>3, <1>4, UpTo
  <2> QED  BY <1>1, <2>1
<1>6. EntriesUpTo(files, n + 1, 1) = EntriesOf(files)  BY FileBoundary
<1> QED  BY <1>5, <1>6 DEF h

\* The line that is the first one about an ID.
FirstAbout(files, id) ==
  CHOOSE a \in EntriesOf(files) :
    /\ IdIn(LineAt(files, a)) = id
    /\ \A b \in EntriesOf(files) : Precedes(b, a) => IdIn(LineAt(files, b)) # id

LEMMA FirstExists ==
  ASSUME NEW files \in Seq(Seq(Seq(Nat))), NEW id \in EntryIds(files, EntriesOf(files))
  PROVE  /\ FirstAbout(files, id) \in EntriesOf(files)
         /\ IdIn(LineAt(files, FirstAbout(files, id))) = id
         /\ FirstIn(files, EntriesOf(files), FirstAbout(files, id))
<1> DEFINE E == EntriesOf(files)
           P(a) == IdIn(LineAt(files, a)) = id
           F == {f \in Nat : \E a \in E : a[1] = f /\ P(a)}
<1>1. \A b \in E : b[1] \in Nat /\ b[2] \in Nat
  <2> TAKE b \in E
  <2>1. PICK g \in 1..Len(files) : \E j \in 2..Len(files[g]) : b = <<g, j>>  BY EntryPlace DEF IsEntry
  <2>2. files[g] \in Seq(Seq(Nat))  BY ElementOfSeq
  <2>3. Len(files[g]) \in Nat  BY <2>2
  <2> QED  BY <2>1, <2>3
<1>2. PICK e \in E : P(e)  BY DEF EntryIds
<1> HIDE DEF E, P
<1>3. PICK f \in F : \A g \in F : f <= g
  <2>1. F \in SUBSET Nat /\ F # {}  BY <1>1, <1>2
  <2> HIDE DEF F
  <2> QED  BY <2>1, LeastOf
<1> DEFINE I == {i \in Nat : \E a \in E : a[1] = f /\ a[2] = i /\ P(a)}
<1>4. PICK i \in I : \A j \in I : i <= j
  <2>1. I \in SUBSET Nat /\ I # {}  BY <1>1, <1>3
  <2> HIDE DEF I, F
  <2> QED  BY <2>1, LeastOf
<1>5. PICK a \in E : a[1] = f /\ a[2] = i /\ P(a)  BY <1>4
<1>6. ASSUME NEW b \in E, Precedes(b, a), P(b) PROVE FALSE
  <2>1. b[1] \in F /\ b[1] \in Nat /\ b[2] \in Nat  BY <1>1, <1>6
  <2>2. f <= b[1] /\ f \in Nat /\ i \in Nat  BY <1>3, <1>4, <2>1
  <2>3. b[1] = f /\ b[2] < i  BY <1>5, <1>6, <2>1, <2>2 DEF Precedes
  <2>4. b[2] \in I  BY <1>6, <2>1, <2>3
  <2>5. i <= b[2]  BY <1>4, <2>4
  <2> QED  BY <2>1, <2>2, <2>3, <2>5
<1> DEFINE Q(c) == P(c) /\ \A b \in E : Precedes(b, c) => ~P(b)
<1>7. Q(a)  BY <1>5, <1>6
<1>8. FirstAbout(files, id) = CHOOSE c \in E : Q(c)  BY DEF FirstAbout, P, E
<1> HIDE DEF Q
<1>9. FirstAbout(files, id) \in E /\ Q(FirstAbout(files, id))  BY <1>7, <1>8
<1> QED  BY <1>9 DEF Q, P, E, FirstIn

LEMMA ProperIsFaithful ==
  ASSUME NEW files \in Seq(Seq(Seq(Nat))), AllProper(files)
  PROVE  init_block_list(Generated(files)) =
           [id \in EntryIds(files, EntriesOf(files)) |-> ColorOf(ColorIn(LineAt(files, FirstAbout(files, id))))]
<1> DEFINE E == EntriesOf(files)
           to == ElementsOf(files)[Len(files)]
           c == to.colors
           first(id) == LineAt(files, FirstAbout(files, id))
<1>1. /\ to.ok /\ IsTable(c) /\ DOMAIN c = EntryIds(files, E)
      /\ \A a \in E : FirstIn(files, E, a) =>
           c[IdIn(LineAt(files, a))] = ColorOf(ColorIn(LineAt(files, a)))
  BY ProperIsLoaded DEF Represents
<1>2. Generated(files) = DataOf(c)  BY <1>1, ElementsAre
<1> HIDE DEF c
<1>3. init_block_list(DataOf(c)) = c  BY <1>1, WrittenIsRead
<1>4. \A id \in EntryIds(files, E) : c[id] = ColorOf(ColorIn(first(id)))
  <2> TAKE id \in EntryIds(files, E)
  <2> DEFINE a == FirstAbout(files, id)
  <2>1. a \in E /\ IdIn(LineAt(files, a)) = id /\ FirstIn(files, E, a)  BY FirstExists
  <2> HIDE DEF a
  <2>2. c[id] = ColorOf(ColorIn(LineAt(files, a)))  BY <1>1, <2>1
  <2> QED  BY <2>2 DEF a
<1>5. c = [id \in EntryIds(files, E) |-> c[id]]  BY <1>1 DEF IsTable
<1> QED  BY <1>2, <1>3, <1>4, <1>5

LEMMA TooLongIsRefused ==
  ASSUME NEW files \in Seq(Seq(Seq(Nat))), NEW at \in EntriesOf(files),
         HasTab(LineAt(files, at)), Len(IdIn(LineAt(files, at))) > MaxLength
  PROVE  Generated(files) = Invalid
<1>0. PICK f \in 1..Len(files) : \E i \in 2..Len(files[f]) : at = <<f, i>> /\ ~Comment(files[f][i])
  BY EntryPlace DEF IsEntry
<1>1. PICK i \in 2..Len(files[f]) : at = <<f, i>> /\ ~Comment(files[f][i])  BY <1>0
<1> DEFINE file == files[f]
           n == Len(file)
           h == ElementsOf(files)
           to == h[f - 1]
           l == file[i]
           g == FileOf(to, file)
           N == Len(files)
<1>2. file \in Seq(Seq(Nat)) /\ n \in Nat /\ i \in 1..n /\ l \in Seq(Nat) /\ l = LineAt(files, at)
  <2>1. file \in Seq(Seq(Nat))  BY ElementOfSeq
  <2>2. n \in Nat  BY <2>1
  <2>3. i \in 1..n  BY <1>1, <2>2
  <2> QED  BY <1>1, <2>1, <2>2, <2>3, LineOfFile
<1>3. file # <<>>
  <2> HIDE DEF file
  <2> QED  BY <1>2
<1>4. /\ (\A k \in 1..N : h[k] = load_colors(h[k - 1], files[k])) /\ (\A k \in 0..N : h[k] \in Loads)
      /\ Generated(files) = IF h[N].ok THEN DataOf(h[N].colors) ELSE Invalid
  BY ElementsAre
<1>5. N \in Nat /\ f \in 1..N /\ f - 1 \in 0..N  OBVIOUS
<1> HIDE DEF h, N
<1>6. to \in Loads /\ h[f] = load_colors(to, file)  BY <1>4, <1>5
<1>7. ~h[f].ok
  <2>1. h[f] = IF ~to.ok \/ file = <<>> THEN Loaded(FALSE, to.colors) ELSE g[n]
    <3> HIDE DEF to, file
    <3> QED  BY <1>2, <1>6, ColorsOfFile
  <2>2. ~Loaded(FALSE, to.colors).ok  BY DEF Loaded
  <2>3. (\A k \in 2..n : g[k] = LoadLine(g[k - 1], file[k])) /\ \A k \in 1..n : g[k] \in Loads
    <3> HIDE DEF to, file
    <3> QED  BY <1>2, <1>3, <1>6, FileIsLoaded
  <2> HIDE DEF g
  <2>4. ~g[i].ok
    <3>1. i - 1 \in 1..n /\ i \in 2..n  BY <1>1, <1>2, SMTT(30)
    <3> DEFINE v == g[i - 1]
    <3>2. v \in Loads /\ g[i] = LoadLine(v, l)  BY <2>3, <3>1
    <3> HIDE DEF v, l
    <3>3. ~Comment(l) /\ HasTab(l) /\ Len(IdIn(l)) > MaxLength  BY <1>1, <1>2 DEF l
    <3>4. ~LoadLine(v, l).ok  BY <1>2, <3>2, <3>3, LineIsLoaded
    <3> QED  BY <3>2, <3>4
  <2> DEFINE S == {k \in 0..n : k >= i => ~g[k].ok}
  <2>5. 0 \in S  BY <1>2
  <2>6. ASSUME NEW k \in 0..(n - 1), k \in S PROVE k + 1 \in S
    <3> DEFINE j == k + 1
    <3>0. j \in 1..n /\ j \in 0..n /\ j - 1 = k  BY <1>2
    <3>1. ASSUME j >= i PROVE ~g[j].ok
      <4>1. CASE j = i  BY <2>4, <4>1
      <4>2. CASE j # i
        <5>1. k >= i /\ k \in 1..n /\ j \in 2..n  BY <1>2, <3>1, <4>2
        <5> DEFINE v == g[k]
                   line == file[j]
        <5> HIDE DEF j
        <5>2. ~v.ok /\ v \in Loads /\ g[j] = LoadLine(v, line)  BY <2>3, <2>6, <3>0, <5>1
        <5>3. line \in Seq(Nat)
          <6> HIDE DEF file
          <6> QED  BY <1>2, <3>0, ElementOfSeq
        <5> HIDE DEF v, line
        <5>4. ~LoadLine(v, line).ok  BY <5>2, <5>3, LineIsLoaded
        <5> QED  BY <5>2, <5>4
      <4> QED  BY <4>1, <4>2
    <3> HIDE DEF j
    <3>2. j \in S  BY <3>0, <3>1
    <3> QED  BY <3>2 DEF j
  <2> HIDE DEF S, n
  <2>7. \A k \in 0..n : k \in S  BY <1>2, <2>5, <2>6, UpTo
  <2>8. n \in 0..n /\ n >= i  BY <1>2
  <2>9. ~g[n].ok  BY <2>7, <2>8 DEF S
  <2> QED  BY <2>1, <2>2, <2>9
<1> HIDE DEF to, file, n, g, l
<1> DEFINE S == {k \in 0..N : k >= f => ~h[k].ok}
<1>8. 0 \in S  BY <1>5
<1>9. ASSUME NEW k \in 0..(N - 1), k \in S PROVE k + 1 \in S
  <2> DEFINE j == k + 1
             v == h[k]
  <2>0. j \in 1..N /\ j \in 0..N /\ j - 1 = k /\ k \in 0..N  BY <1>5
  <2>1. ASSUME j >= f PROVE ~h[j].ok
    <3>1. CASE j = f  BY <1>7, <3>1
    <3>2. CASE j # f
      <4>1. k >= f  BY <1>5, <2>1, <3>2
      <4> HIDE DEF j
      <4>2. ~v.ok /\ v \in Loads /\ h[j] = load_colors(v, files[j])  BY <1>4, <1>9, <2>0, <4>1
      <4>3. files[j] \in Seq(Seq(Nat))  BY <2>0, ElementOfSeq DEF N
      <4> HIDE DEF v
      <4>4. load_colors(v, files[j]) = Loaded(FALSE, v.colors)  BY <4>2, <4>3, ColorsOfFile
      <4> QED  BY <4>2, <4>4 DEF Loaded
    <3> QED  BY <3>1, <3>2
  <2> HIDE DEF j
  <2>2. j \in S  BY <2>0, <2>1
  <2> QED  BY <2>2 DEF j
<1> HIDE DEF S
<1>10. \A k \in 0..N : k \in S  BY <1>5, <1>8, <1>9, UpTo
<1>11. N \in 0..N /\ N >= f  BY <1>5
<1>12. ~h[N].ok  BY <1>10, <1>11 DEF S
<1> QED  BY <1>4, <1>12

LEMMA FilesAreFaithful ==
  ASSUME NEW files \in Seq(Seq(Seq(Nat)))
  PROVE  Faithful(files)
<1>1. ASSUME AllProper(files)
      PROVE  init_block_list(Generated(files)) =
               [id \in EntryIds(files, EntriesOf(files)) |-> ColorOf(ColorIn(LineAt(files, FirstAbout(files, id))))]
  BY <1>1, ProperIsFaithful
<1>2. ASSUME NEW at \in EntriesOf(files), HasTab(LineAt(files, at)), Len(IdIn(LineAt(files, at))) > MaxLength
      PROVE  Generated(files) = Invalid
  BY <1>2, TooLongIsRefused
<1> QED  BY <1>1, <1>2 DEF Faithful, AllProper, EntryIds, LineAt, FirstAbout, ColorOf

LEMMA NoneIsMisread == Misread = {}
<1>1. ASSUME NEW files \in ColorFiles PROVE Faithful(files)
  <2>1. files \in Seq(Seq(Seq(Nat)))  BY FilesAssumption
  <2> QED  BY <2>1, FilesAreFaithful
<1> QED  BY <1>1 DEF Misread

\* The program that was built has the colours of its source files: for every block the
\* colour the first line about it says, and for no other, whatever files are given, of any
\* length, in any order, with repeated lines and with IDs of any length (none is built
\* for an ID too long); and no block of the table is among those a chunk calls unknown.
THEOREM TableAlwaysTheSources == Spec => []TableIsTheSources
<1>1. TypesInv => TableIsTheSources  BY NoneIsMisread DEF TypesInv, PixelTypes, TableIsTheSources
<1> QED  BY <1>1, TypesKept, PTL
============================================================================
