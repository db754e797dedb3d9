----------------------------- MODULE ColorTable -----------------------------
(***************************************************************************)
(* The colours of the blocks: tools/block_data_generator.cc puts the        *)
(* entries of the source files into one array of bytes when the program is  *)
(* built, and init_block_list() of src/image/blocks.cc reads them when it   *)
(* starts.  Text is a sequence of ASCII codes, and a file one of its lines. *)
(***************************************************************************)
EXTENDS Integers, Sequences, FiniteSets, SequencesExt

CONSTANTS
  ColorFiles,  \* the command lines (sequences of files) of the generator that are looked at
  MaxLength    \* the largest value of a byte (255), and so the longest block ID

ASSUME FilesAssumption == MaxLength \in Nat /\ ColorFiles \subseteq Seq(Seq(Seq(Nat)))

Tab == 9
Hash == 35
Whitespace == (9..13) \cup {32}

Invalid == <<>>
NoColors == [id \in {} |-> <<>>]

-----------------------------------------------------------------------------
(* The generator. *)

\* The value of a digit to base 16, if it is one.
Digit(c) ==
  CASE c \in 48..57  -> {c - 48}
    [] c \in 65..70  -> {c - 55}
    [] c \in 97..102 -> {c - 87}
    [] OTHER         -> {}

\* std::stoi() of two characters to base 16, as a byte: it may stop after the first one,
\* and lets a space or a sign precede the second.
stoi(a, b) ==
  IF Digit(a) # {} /\ Digit(b) # {}
  THEN {16 * h + l : h \in Digit(a), l \in Digit(b)}
  ELSE IF Digit(a) # {} THEN Digit(a)
  ELSE CASE a \in Whitespace \cup {43} -> Digit(b)
         [] a = 45                     -> {(256 - d) % 256 : d \in Digit(b)}
         [] OTHER                      -> {}

Doubled(s) == [i \in 1..(2 * Len(s)) |-> s[(i + 1) \div 2]]

\* Red, green, blue and alpha of #rgb, #rgba, #rrggbb or #rrggbbaa.
set_css_color(color) ==
  IF Len(color) \notin {4, 5, 7, 9} \/ color[1] # Hash THEN Invalid
  ELSE LET given == IF Len(color) <= 5 THEN Doubled(Tail(color)) ELSE Tail(color)
           rrggbbaa == IF Len(color) \in {4, 7} THEN given \o <<102, 102>> ELSE given
           parsed == [i \in 1..4 |-> stoi(rrggbbaa[2 * i - 1], rrggbbaa[2 * i])]
       IN IF \E i \in 1..4 : parsed[i] = {} THEN Invalid
          ELSE [i \in 1..4 |-> CHOOSE n \in parsed[i] : TRUE]

split_field(record) ==
  LET cuts == {0, Len(record) + 1} \cup {i \in DOMAIN record : record[i] = Tab}
      cut(k) == CHOOSE c \in cuts : Cardinality({d \in cuts : d < c}) = k - 1
  IN [k \in 1..(Cardinality(cuts) - 1) |-> SubSeq(record, cut(k) + 1, cut(k + 1) - 1)]

\* Mutant: one too many.
NearlyTooLong(namespace_id) == Len(namespace_id) > MaxLength + 1

TooLong(namespace_id) == Len(namespace_id) > MaxLength

Loaded(ok, colors) == [ok |-> ok, colors |-> colors]

\* One line: a block that is there already keeps its colour.
LoadLine(to, line) ==
  IF ~to.ok \/ (line # <<>> /\ line[1] = Hash) THEN to
  ELSE LET fields == split_field(line)
           color == set_css_color(fields[2])
       IN IF Len(fields) # 2 THEN Loaded(FALSE, to.colors)
          ELSE IF TooLong(fields[1]) \/ color = Invalid THEN Loaded(FALSE, to.colors)
          ELSE IF fields[1] \in DOMAIN to.colors THEN to
          ELSE Loaded(TRUE, [id \in DOMAIN to.colors \cup {fields[1]} |->
                               IF id = fields[1] THEN color ELSE to.colors[id]])

\* The first line of a file is its header.
load_colors(to, file) ==
  LET loaded[i \in 1..Len(file)] == IF i = 1 THEN to ELSE LoadLine(loaded[i - 1], file[i])
  IN IF ~to.ok \/ file = <<>> THEN Loaded(FALSE, to.colors) ELSE loaded[Len(file)]

\* The order of the set.
Before(a, b) ==
  \/ IsStrictPrefix(a, b)
  \/ \E i \in DOMAIN a \cap DOMAIN b : a[i] < b[i] /\ SubSeq(a, 1, i - 1) = SubSeq(b, 1, i - 1)

required_padding(namespace_id) == (4 - ((Len(namespace_id) + 2) % 4)) % 4

Entry(id, color) ==
  <<Len(id) % (MaxLength + 1)>> \o id
  \o <<required_padding(id)>> \o [i \in 1..required_padding(id) |-> 0]
  \o Reverse(color)

\* write_content(): the entries, in the order of the set.
write_content(colors) ==
  LET id(i) == CHOOSE a \in DOMAIN colors :
                 Cardinality({b \in DOMAIN colors : Before(b, a)}) = i - 1
      written[i \in 0..Cardinality(DOMAIN colors)] ==
        IF i = 0 THEN <<>> ELSE written[i - 1] \o Entry(id(i), colors[id(i)])
  IN written[Cardinality(DOMAIN colors)]

\* block_colors_data, or Invalid if the generator gives up.
Generated(files) ==
  LET elements[i \in 0..Len(files)] ==
        IF i = 0 THEN Loaded(TRUE, NoColors) ELSE load_colors(elements[i - 1], files[i])
      all == elements[Len(files)]
  IN IF all.ok THEN write_content(all.colors) \o <<0>> ELSE Invalid

-----------------------------------------------------------------------------
(* The program that has the array. *)

\* One turn of the loop, which a length of 0 ends; a later entry takes the place of an
\* earlier one.
TakeEntry(block_colors_data, l) ==
  LET len == block_colors_data[l.off + 1]
      block_name == SubSeq(block_colors_data, l.off + 2, l.off + 1 + len)
      color_off == l.off + 2 + len + block_colors_data[l.off + 2 + len]
      color == Reverse(SubSeq(block_colors_data, color_off + 1, color_off + 4))
  IN IF len = 0 THEN l
     ELSE [off |-> color_off + 4,
           result |-> [id \in DOMAIN l.result \cup {block_name} |->
                         IF id = block_name THEN color ELSE l.result[id]]]

init_block_list(block_colors_data) ==
  LET loop[n \in 0..Len(block_colors_data)] ==
        IF n = 0 THEN [off |-> 0, result |-> NoColors]
        ELSE TakeEntry(block_colors_data, loop[n - 1])
  IN loop[Len(block_colors_data)].result

-----------------------------------------------------------------------------
(* What the table should be. *)

\* What a line says, when it is an ID, a tab, a '#' and digits: one digit for each
\* channel, or two, and full alpha when that is not given.
Value(c) == CHOOSE n \in Digit(c) : TRUE
Channel(css, k) ==
  CASE Len(css) \in {4, 5} /\ k < Len(css)     -> 17 * Value(css[k + 1])
    [] Len(css) \in {7, 9} /\ 2 * k < Len(css) -> 16 * Value(css[2 * k]) + Value(css[2 * k + 1])
    [] OTHER                                   -> 255

IdIn(line) ==
  SubSeq(line, 1, (CHOOSE i \in DOMAIN line : line[i] = Tab /\ \A k \in 1..(i - 1) : line[k] # Tab) - 1)
ColorIn(line) == SubSeq(line, Len(IdIn(line)) + 2, Len(line))

HasTab(line) == \E i \in DOMAIN line : line[i] = Tab
Comment(line) == line # <<>> /\ line[1] = Hash
Proper(line) ==
  /\ HasTab(line)
  /\ Len(IdIn(line)) \in 1..MaxLength
  /\ Len(ColorIn(line)) \in {4, 5, 7, 9} /\ ColorIn(line)[1] = Hash
  /\ \A i \in 2..Len(ColorIn(line)) : Digit(ColorIn(line)[i]) # {}

\* The places of the lines that are entries, and what is there.
EntriesOf(files) ==
  {at \in UNION {{f} \X (2..Len(files[f])) : f \in DOMAIN files} : ~Comment(files[at[1]][at[2]])}
Precedes(a, b) == a[1] < b[1] \/ (a[1] = b[1] /\ a[2] < b[2])

\* What the program reads when the files are proper, and whether there is a program.
Faithful(files) ==
  LET entries == EntriesOf(files)
      line(at) == files[at[1]][at[2]]
      data == Generated(files)
      first(id) == line(CHOOSE a \in entries : /\ IdIn(line(a)) = id
                                               /\ \A b \in entries : Precedes(b, a) => IdIn(line(b)) # id)
  IN /\ (\A f \in DOMAIN files : files[f] # <<>>) /\ (\A at \in entries : Proper(line(at))) =>
          init_block_list(data) =
            [id \in {IdIn(line(at)) : at \in entries} |-> [k \in 1..4 |-> Channel(ColorIn(first(id)), k)]]
     /\ (\E at \in entries : HasTab(line(at)) /\ Len(IdIn(line(at))) > MaxLength) =>
          data = Invalid

\* The command lines for which that is not so.
Misread == {files \in ColorFiles : ~Faithful(files)}
=============================================================================
