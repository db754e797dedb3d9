---------------------------- MODULE OptionParser ----------------------------
(***************************************************************************)
(* subprojects/regetopt/regetopt.c, which reads the options of every       *)
(* command: an operand is moved behind the other arguments when it is met, *)
(* so that in the end the options precede the operands.  argv[i] is the    *)
(* argument i of the command line, and argc one more than their number.    *)
(* ScanPass says the same of a command line in which nothing is moved.     *)
(***************************************************************************)
EXTENDS Integers, Sequences, FiniteSets

CONSTANTS
  OptString,    \* the short options: the letters, each with whether it takes an argument
  LongOptions,  \* the long ones, in their order: name, has_arg and val
  Phrases,      \* pieces of a command line: the text, and the options and operands it is
  Endings,      \* how a command line may end: the text, and its operands, or an error
  MaxPhrases,   \* bound: phrases before the ending
  PhrasePasses, \* bound: arguments and letters of a phrase
  NoArgument

\* Every phrase and every ending is read within its bound, and then the end.
MaxPasses == (MaxPhrases + 1) * PhrasePasses + 1

At(text, i) == SubSeq(text, i, i)
From(text, i) == SubSeq(text, i, Len(text))

\* option_argc counts the arguments that may still be options; optchar_index is the place in
\* a group of short ones.
Start(argv) ==
  [argv |-> argv, optind |-> 1, option_argc |-> Len(argv) + 1, optchar_index |-> 1,
   options |-> <<>>, status |-> "reading"]

Cur(p) == p.argv[p.optind]

\* What the command does with what regetopt() returns: take it, or end for ':' and '?'.
Error(p) == [p EXCEPT !.status = "error"]
Return(p, val, optarg) == [p EXCEPT !.options = Append(@, <<val, optarg>>)]

\* Mutant: an operand that was moved away is taken for an argument, too.
HasAny(p) == p.optind + 1 < Len(p.argv) + 1

HasNext(p) == p.optind + 1 < p.option_argc

-----------------------------------------------------------------------------
\* An argument is what follows the letter, or else the next argument.
regetopt_short(p) ==
  LET optopt == At(Cur(p), p.optchar_index + 1)
      last == p.optchar_index + 1 >= Len(Cur(p))
      past == [p EXCEPT !.optchar_index = 1, !.optind = IF last THEN @ + 2 ELSE @ + 1]
  IN CASE optopt \notin DOMAIN OptString -> Error(p)
       [] optopt \in DOMAIN OptString /\ ~OptString[optopt] ->
            Return([p EXCEPT !.optchar_index = @ + 1], optopt, NoArgument)
       [] optopt \in DOMAIN OptString /\ OptString[optopt] ->
            IF last /\ ~HasNext(p) THEN Error(p)
            ELSE Return(past, optopt,
                        IF last THEN p.argv[p.optind + 1]
                        ELSE From(Cur(p), p.optchar_index + 2))

\* The first '=' of an argument, or the place behind its end.
Eq(text) ==
  CHOOSE i \in 1..(Len(text) + 1) :
    /\ i = Len(text) + 1 \/ At(text, i) = "="
    /\ \A k \in 1..(i - 1) : At(text, k) # "="

Name(text) == SubSeq(text, 3, Eq(text) - 1)
Given(text) == Eq(text) <= Len(text)

Abbreviates(name, i) ==
  /\ Len(name) < Len(LongOptions[i].name)
  /\ SubSeq(LongOptions[i].name, 1, Len(name)) = name

\* The loop over the long options ends at the one of this name; before it, a second one that
\* the name abbreviates is an error.
Matches(name) ==
  LET exact == {i \in DOMAIN LongOptions : LongOptions[i].name = name}
      before == {i \in DOMAIN LongOptions :
                   (\A e \in exact : i < e) /\ Abbreviates(name, i)}
  IN IF Cardinality(before) > 1 THEN {}
     ELSE IF exact # {} THEN {CHOOSE e \in exact : \A f \in exact : e <= f}
     ELSE before

regetopt_long(p) ==
  LET match == Matches(Name(Cur(p)))
      option == LongOptions[CHOOSE i \in match : TRUE]
      after == From(Cur(p), Eq(Cur(p)) + 1)
      next(n) == [p EXCEPT !.optind = @ + n]
  IN CASE match = {} -> Error(p)
       [] match # {} /\ option.has_arg = "required" /\ ~Given(Cur(p)) ->
            IF HasNext(p) THEN Return(next(2), option.val, p.argv[p.optind + 1]) ELSE Error(p)
       [] match # {} /\ option.has_arg # "no" /\ Given(Cur(p)) -> Return(next(1), option.val, after)
       [] OTHER -> Return(next(1), option.val, NoArgument)

reorder_option(p) ==
  [p EXCEPT !.argv = SubSeq(p.argv, 1, p.optind - 1) \o From(p.argv, p.optind + 1) \o <<Cur(p)>>,
            !.option_argc = @ - 1]

IsOption(text) == Len(text) >= 2 /\ At(text, 1) = "-"
IsLong(text) == Len(text) > 2 /\ SubSeq(text, 1, 2) = "--"

\* From begin_parse to the next goto or return.
Pass(p) ==
  IF p.optind >= p.option_argc THEN [p EXCEPT !.status = "ended"]
  ELSE IF Cur(p) = "--" THEN [p EXCEPT !.optind = @ + 1, !.status = "ended"]
  ELSE IF ~IsOption(Cur(p)) THEN reorder_option(p)
  ELSE IF IsLong(Cur(p)) THEN regetopt_long(p)
  ELSE IF p.optchar_index >= Len(Cur(p)) THEN [p EXCEPT !.optchar_index = 1, !.optind = @ + 1]
  ELSE regetopt_short(p)

\* Every call, from the first one on.
regetopt(argv) ==
  LET passes[n \in 0..MaxPasses] ==
        IF n = 0 THEN Start(argv)
        ELSE LET p == passes[n - 1] IN IF p.status = "reading" THEN Pass(p) ELSE p
  IN passes[MaxPasses]

-----------------------------------------------------------------------------
(* What a command line says. *)

\* The arguments that are not read yet, in the order they were given in, and what was read.
Unread(text) ==
  [rest |-> text, operands |-> <<>>, options |-> <<>>, optchar_index |-> 1, status |-> "reading"]

\* An option is read as the first of a command line; the operands behind a "--" come before
\* the others.
ScanPass(s) ==
  IF s.rest = <<>> THEN [s EXCEPT !.status = "ended"]
  ELSE IF Head(s.rest) = "--"
       THEN [s EXCEPT !.rest = <<>>, !.operands = Tail(s.rest) \o @, !.status = "ended"]
  ELSE IF ~IsOption(Head(s.rest))
       THEN [s EXCEPT !.rest = Tail(@), !.operands = Append(@, Head(s.rest))]
  ELSE LET p == Pass([Start(s.rest) EXCEPT !.options = s.options,
                                           !.optchar_index = s.optchar_index])
       IN [s EXCEPT !.rest = From(s.rest, p.optind), !.options = p.options,
                    !.optchar_index = p.optchar_index, !.status = p.status]

\* A phrase or an ending, read until nothing of it is left.
ReadAlone(text) ==
  LET scans[n \in 0..PhrasePasses] ==
        IF n = 0 THEN Unread(text)
        ELSE LET s == scans[n - 1]
             IN IF s.status = "reading" /\ s.rest # <<>> THEN ScanPass(s) ELSE s
  IN scans[PhrasePasses]

\* Each phrase, alone, is the options and operands it is said to be; an ending has only
\* operands, behind a "--", or an error in it.
ASSUME BoundAssumption == PhrasePasses \in Nat /\ MaxPhrases \in Nat
ASSUME PhraseAssumption ==
  \A phrase \in Phrases :
    /\ phrase.text \in Seq(STRING)
    /\ ReadAlone(phrase.text) =
         [Unread(<<>>) EXCEPT !.options = phrase.options, !.operands = phrase.operands]
ASSUME EndingAssumption ==
  \A e \in Endings :
    /\ e.text \in Seq(STRING) /\ e.operands \in Seq(STRING)
    /\ e.error \in BOOLEAN
    /\ e.error => ReadAlone(e.text).status = "error" /\ ReadAlone(e.text).options = <<>>
    /\ ~e.error => (e.text = <<>> /\ e.operands = <<>>) \/ e.text = <<"--">> \o e.operands

\* What a sequence of phrases is.
Said(phrases) ==
  LET said[k \in 0..Len(phrases)] ==
        IF k = 0 THEN [text |-> <<>>, options |-> <<>>, operands |-> <<>>]
        ELSE [text |-> said[k - 1].text \o phrases[k].text,
              options |-> said[k - 1].options \o phrases[k].options,
              operands |-> said[k - 1].operands \o phrases[k].operands]
  IN said[Len(phrases)]

\* The options are read in their order, each with its argument.
Understood(phrases, ending) ==
  LET p == regetopt(Said(phrases).text \o ending.text) IN
    /\ p.options = Said(phrases).options
    /\ p.status = IF ending.error THEN "error" ELSE "ended"
    /\ ~ending.error => From(p.argv, p.optind) = ending.operands \o Said(phrases).operands

CommandLines == (UNION {[1..k -> Phrases] : k \in 0..MaxPhrases}) \X Endings

Misread ==
  {Said(l[1]).text \o l[2].text : l \in {m \in CommandLines : ~Understood(m[1], m[2])}}
=============================================================================
