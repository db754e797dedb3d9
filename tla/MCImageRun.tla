----------------------------- MODULE MCImageRun -----------------------------
(* Sources and region files of ImageRun, for TLC: two dimensions whose region  *)
(* files have the same name, and one file with a name std::stoi() throws for;  *)
(* and command lines of `image` for OptionParser.                              *)
EXTENDS ImageRun, TLC

SomeContents ==
  "Overworld" :> {"r.0.0.mca", "r.0.1.mca"} @@ "Nether" :> {"r.0.0.mca", "old.mca", "notes.txt"}
    @@ "File" :> {"r.a.b.mca"}

SomeKinds ==
  [n \in UNION {SomeContents[s] : s \in DOMAIN SomeContents} |->
     CASE n = "old.mca" -> "other" [] n = "r.a.b.mca" -> "badNumber"
       [] n = "notes.txt" -> "unusable" [] OTHER -> "region"]

\* The Nether was played in later than the Overworld.
SomeUpdates ==
  [s \in DOMAIN SomeContents |-> [n \in SomeContents[s] |-> IF s = "Nether" THEN 2 ELSE 1]]

\* "j:c:no:F:V"
ImageLetters == [l \in {"j", "c", "n", "o", "F", "V"} |-> l \notin {"n", "V"}]

Long(name, has_arg, val) == [name |-> name, has_arg |-> has_arg, val |-> val]

ImageLongOptions ==
  <<Long("jobs", "required", "j"), Long("cache-dir", "required", "c"), Long("clear", "no", "C"),
    Long("generate", "required", "G"), Long("nether", "no", "n"), Long("out", "required", "o"),
    Long("outname-format", "required", "F"), Long("label", "required", "l"),
    Long("help", "no", "h")>>

Says(text, options) == [text |-> text, options |-> options, operands |-> <<>>]

\* Options in each form, an argument that looks like an option, and operands.
SomePhrases ==
  {Says(<<"-nV">>, <<<<"n", NoArgument>>, <<"V", NoArgument>>>>),
   Says(<<"-j2">>, <<<<"j", "2">>>>),
   Says(<<"-nj", "2">>, <<<<"n", NoArgument>>, <<"j", "2">>>>),
   Says(<<"-o", "--">>, <<<<"o", "--">>>>),
   Says(<<"--out", "-n">>, <<<<"o", "-n">>>>),
   Says(<<"--outn=a=b">>, <<<<"F", "a=b">>>>),
   Says(<<"--ge=x">>, <<<<"G", "x">>>>),
   Says(<<"--clear">>, <<<<"C", NoArgument>>>>)}
  \cup {[text |-> <<x>>, options |-> <<>>, operands |-> <<x>>] : x \in {"-", "world"}}

Ends(text, operands) == [text |-> text, operands |-> operands, error |-> FALSE]
Fails(text) == [text |-> text, operands |-> <<>>, error |-> TRUE]

SomeEndings ==
  {Ends(<<>>, <<>>), Ends(<<"--">>, <<>>), Ends(<<"--", "-n", "nether">>, <<"-n", "nether">>),
   Fails(<<"-j">>), Fails(<<"--out">>), Fails(<<"--c=d">>), Fails(<<"-x", "world">>), Fails(<<"--nil">>)}
=============================================================================
