------------------------------- MODULE Arguments -------------------------------
(***************************************************************************)
(* argparse::ArgumentParser as the programs use it: optional arguments     *)
(* that take one value, two flags that end the program, no positional      *)
(* arguments, no sub-parsers, no choices.                                  *)
(*                                                                         *)
(* A word of the command line is what the parser can tell of it:           *)
(*   name      "--state", "-h": looks like an option, known or not         *)
(*   letters   "-hv": one dash and letters                                 *)
(*   assigned  "--state=SYNC"                                              *)
(*   text      anything else that starts neither with a dash nor with a    *)
(*             digit; the empty word is one                                *)
(*   number    [0x|0b] and characters: digits 0..15, signs, points and     *)
(*             others; one without a prefix starts with a minus or a digit *)
(***************************************************************************)
EXTENDS Integers, Sequences, FiniteSets, SequencesExt, FiniteSetsExt, TLC

CONSTANT IntMax     \* std::numeric_limits<int>::max()

ASSUME ArgumentsAssumption == IntMax \in Nat \ {0}

Name(name) == [kind |-> "name", name |-> name]
Letters(letters) == [kind |-> "letters", letters |-> letters]
Assigned(name, word) == [kind |-> "assigned", name |-> name, word |-> word]
Text(text) == [kind |-> "text", text |-> text]
Number(prefix, chars) == [kind |-> "number", prefix |-> prefix, chars |-> chars]

\* The characters of a number that are no digits in any base.
Minus == 16
Plus == 17
Point == 18
Other == 19

\* What is known of a word: the characters of a number, also behind an equals sign.
Chars == 0..Other
IsNumeral(word) == word.kind = "number" => word.chars \in Seq(Chars)
IsWord(word) == IsNumeral(word) /\ (word.kind = "assigned" => IsNumeral(word.word))
IsCommandLine(line) == line \in Seq(ToSet(line)) /\ \A k \in DOMAIN line : IsWord(line[k])
-----------------------------------------------------------------------------
(* What a program tells the parser of an argument *)

NoDefault == "no default"

AddArgument(names) ==
  [names |-> names, min |-> 1, max |-> 1, required |-> FALSE, default |-> NoDefault,
   action |-> "store", choices |-> {}]
DefaultValue(argument, value) == [argument EXCEPT !.min = 0, !.default = value]
Required(argument) == [argument EXCEPT !.required = TRUE]
ScanInt(argument) == [argument EXCEPT !.action = "parse_number"]
Flag(argument) == [argument EXCEPT !.min = 0, !.max = 0, !.action = "exit"]

\* An action that knows some texts and throws a runtime_error for others.
Choose(argument, texts) == [argument EXCEPT !.action = "choose", !.choices = texts]

DefaultArguments == {Flag(AddArgument({"-h", "--help"})), Flag(AddArgument({"-v", "--version"}))}

Known(arguments, name) == \E a \in arguments : name \in a.names
Named(arguments, name) == CHOOSE a \in arguments : name \in a.names
-----------------------------------------------------------------------------
(* Conversions *)

ValueOf(v) == [thrown |-> "nothing", value |-> v]
Throws(exception) == [thrown |-> exception, value |-> NoDefault]

\* std::from_chars takes a minus in front of the digits, also behind a prefix.
IsNegative(chars) == chars # << >> /\ chars[1] = Minus
DigitsOf(chars) == IF IsNegative(chars) THEN Tail(chars) ELSE chars

\* Digits in base, as std::from_chars reads them and do_from_chars judges the
\* outcome: a range_error is a runtime_error, an invalid_argument is not.
FromChars(base, minus, digits) ==
  LET rest == SelectInSeq(digits, LAMBDA d : d >= base)
      read == IF rest = 0 THEN digits ELSE SubSeq(digits, 1, rest - 1)
      magnitude == FoldLeft(LAMBDA n, d : base * n + d, 0, read)
  IN CASE read = << >> -> Throws("invalid_argument")
       [] read # << >> /\ magnitude > (IF minus THEN IntMax + 1 ELSE IntMax) ->
            Throws("runtime_error")
       [] OTHER -> IF read = digits THEN ValueOf(IF minus THEN -magnitude ELSE magnitude)
                   ELSE Throws("invalid_argument")

Base(word) ==
  CASE word.prefix = "0x" -> 16
    [] word.prefix = "0b" -> 2
    [] word.prefix = "" /\ word.chars # << >> /\ word.chars[1] = 0 -> 8
    [] OTHER -> 10

ParseNumber(word) == IF word.kind = "text" THEN Throws("invalid_argument")
                     ELSE FromChars(Base(word), IsNegative(word.chars), DigitsOf(word.chars))

Act(argument, word) ==
  CASE argument.action = "store" -> ValueOf(word)
    [] argument.action = "parse_number" -> ParseNumber(word)
    [] argument.action = "choose" ->
         IF word.kind = "text" /\ word.text \in argument.choices THEN ValueOf(word.text)
         ELSE Throws("runtime_error")

\* A decimal literal: an integer without leading zeros, or digits with a point
\* among them, or either with an exponent, which may have a sign.
Decimals(chars) == chars # << >> /\ \A k \in DOMAIN chars : chars[k] <= 9
Mantissa(chars) == /\ \A k \in DOMAIN chars : chars[k] <= 9 \/ chars[k] = Point
                   /\ \A j, k \in DOMAIN chars : chars[j] = Point /\ chars[k] = Point => j = k
                   /\ \E k \in DOMAIN chars : chars[k] <= 9
Exponent(chars) ==
  Decimals(IF chars # << >> /\ chars[1] \in {Plus, Minus} THEN Tail(chars) ELSE chars)
IsDecimalLiteral(chars) ==
  LET letterE == 14
  IN \/ Mantissa(chars) /\ (Decimals(chars) /\ chars[1] = 0 => Len(chars) = 1)
     \/ \E k \in DOMAIN chars :
          /\ chars[k] = letterE
          /\ Mantissa(SubSeq(chars, 1, k - 1)) /\ Exponent(SubSeq(chars, k + 1, Len(chars)))

\* What is not taken for an option.
IsPositional(word) ==
  \/ word.kind = "text"
  \/ /\ word.kind = "number"
     /\ word.prefix = "" /\ IsNegative(word.chars) /\ Len(word.chars) > 1
          => IsDecimalLiteral(Tail(word.chars))

\* "--name=value" is split if there is such an option; a name with one dash is not.
Preprocess(arguments, argv) ==
  FlattenSeq([k \in DOMAIN argv |->
    IF argv[k].kind = "assigned" /\ Known(arguments, argv[k].name)
    THEN <<Name(argv[k].name), argv[k].word>> ELSE <<argv[k]>>])
-----------------------------------------------------------------------------
(* parse_args, one word or option at a time.  `arguments` is what the       *)
(* program has added to the parser.                                         *)

VARIABLES
  pc,        \* "parsing", how parse_args has ended, or what main does after it
  argv,      \* the command line, without the program's name
  words,     \* those that are left of it
  used,      \* the arguments with m_is_used, each as its set of names
  values     \* m_values: argument -> its value

parserVars == <<pc, argv, words, used, values>>

ParserInit(arguments, commands) ==
  /\ pc = "parsing"
  /\ argv \in commands
  /\ words = Preprocess(arguments, argv)
  /\ used = {} /\ values = << >>

\* parse_args ends: it throws, exits or returns.
End(how) == pc' = how /\ UNCHANGED <<argv, words, used, values>>

PositionalArgument ==
  /\ words # << >> /\ IsPositional(Head(words))
  /\ End("runtime_error")

\* The option that a dash and a letter name.  Both end the program.
ShortOption(letter) == CASE letter = "h" -> "-h" [] letter = "v" -> "-v" [] OTHER -> "unknown"

\* The option that a word names: itself, or its first letter.
OptionOf(word) == CASE word.kind = "name" -> word.name
                    [] word.kind = "letters" -> ShortOption(word.letters[1])
                    [] OTHER -> "unknown"

UnknownArgument(arguments) ==
  /\ words # << >> /\ ~IsPositional(Head(words))
  /\ ~Known(arguments, OptionOf(Head(words)))
  /\ End("runtime_error")

Given(rest) == rest # << >> /\ IsPositional(Head(rest))

TakeValue(argument, rest) ==
  LET result == Act(argument, Head(rest))
  IN \/ result.thrown # "nothing" /\ End(result.thrown)
     \/ /\ result.thrown = "nothing"
        /\ words' = Tail(rest)
        /\ used' = used \union {argument.names}
        /\ values' = [names \in DOMAIN values \union {argument.names} |->
                       IF names = argument.names THEN result.value ELSE values[names]]
        /\ UNCHANGED <<pc, argv>>

TakeNothing(argument, rest) ==
  /\ words' = rest
  /\ used' = used \union {argument.names}
  /\ UNCHANGED <<pc, argv, values>>

\* (Seeded fault: an option may be given again.)
ConsumeRepeatable(argument, rest) ==
  \/ argument.max = 0 /\ End("exit")
  \/ argument.min > 0 /\ ~Given(rest) /\ End("runtime_error")
  \/ argument.max > 0 /\ Given(rest) /\ TakeValue(argument, rest)
  \/ argument.max > 0 /\ argument.min = 0 /\ ~Given(rest) /\ TakeNothing(argument, rest)

\* Argument::consume.
Consume(argument, rest) ==
  \/ argument.names \in used /\ End("runtime_error")
  \/ /\ argument.names \notin used
     /\ \/ argument.max = 0 /\ End("exit")
        \/ argument.min > 0 /\ ~Given(rest) /\ End("runtime_error")
        \/ argument.max > 0 /\ Given(rest) /\ TakeValue(argument, rest)
        \/ argument.max > 0 /\ argument.min = 0 /\ ~Given(rest) /\ TakeNothing(argument, rest)

OptionalArgument(arguments) ==
  /\ words # << >> /\ ~IsPositional(Head(words))
  /\ Known(arguments, OptionOf(Head(words)))
  /\ Consume(Named(arguments, OptionOf(Head(words))), Tail(words))

\* All arguments are parsed; what is required must have been given.
Validate(arguments) ==
  /\ words = << >>
  /\ End(IF \E a \in arguments : a.required /\ a.names \notin used /\ a.default = NoDefault
         THEN "runtime_error" ELSE "parsed")

ParseArgs(arguments) ==
  /\ pc = "parsing"
  /\ \/ PositionalArgument
     \/ UnknownArgument(arguments)
     \/ OptionalArgument(arguments)
     \/ Validate(arguments)

\* The program's view of the result.
IsUsed(arguments, name) == Named(arguments, name).names \in used
Get(arguments, name) == LET argument == Named(arguments, name)
                        IN IF argument.names \in DOMAIN values THEN values[argument.names]
                           ELSE argument.default
-----------------------------------------------------------------------------
(* What a command line means, without a parser *)

\* What a digit counts, from its place: the last of n digits counts once.
PlaceValues(base, n) ==
  LET weight[k \in 1..n] == IF k = n THEN 1 ELSE base * weight[k + 1] IN weight

\* The int that a word denotes: a set of one int or none.
Denoted(word) ==
  IF word.kind # "number" THEN {}
  ELSE LET digits == DigitsOf(word.chars)
           base == Base(word)
           weight == PlaceValues(base, Len(digits))
           size == SumFunction([k \in DOMAIN digits |-> digits[k] * weight[k]])
       IN {n \in {IF IsNegative(word.chars) THEN -size ELSE size} :
             /\ digits # << >> /\ \A k \in DOMAIN digits : digits[k] < base
             /\ -(IntMax + 1) <= n /\ n <= IntMax}

Occurrences(argument, line) ==
  {k \in DOMAIN line : line[k].kind = "name" /\ line[k].name \in argument.names}

Suits(argument, word) ==
  /\ IsPositional(word)
  /\ argument.action = "parse_number" => Denoted(word) # {}
  /\ argument.action = "choose" => word.kind = "text" /\ word.text \in argument.choices

\* Options, each at most once and the required ones once, every one followed by
\* a value that suits it, which may be missing where there is a default.
Legal(arguments, line) ==
  /\ \A a \in arguments : Cardinality(Occurrences(a, line)) <= 1
  /\ \A a \in arguments : a.required => Occurrences(a, line) # {}
  /\ \A k \in DOMAIN line : \E a \in arguments :
       \/ /\ k \in Occurrences(a, line) /\ a.max = 1
          /\ \/ k + 1 \in DOMAIN line /\ Suits(a, line[k + 1])
             \/ a.min = 0 /\ (k + 1 \in DOMAIN line => ~IsPositional(line[k + 1]))
       \/ k - 1 \in Occurrences(a, line) /\ IsPositional(line[k])

Malformed(arguments, line) ==
  \E a \in arguments : \E k \in Occurrences(a, line) :
    /\ a.action = "parse_number"
    /\ k + 1 \in DOMAIN line /\ IsPositional(line[k + 1]) /\ Denoted(line[k + 1]) = {}

\* A command line is accepted exactly if it is legal, and then the program gets
\* the numbers that were written; only a flag ends the program otherwise, and
\* only a number that is none brings it down with an exception main does not catch.
CommandLineDecides(arguments) ==
  LET line == Preprocess(arguments, argv)
  IN /\ pc = "parsed" =>
          /\ Legal(arguments, line)
          /\ \A a \in arguments : \A k \in Occurrences(a, line) :
               a.action = "parse_number" => {values[a.names]} = Denoted(line[k + 1])
     /\ pc = "runtime_error" => ~Legal(arguments, line)
     /\ pc = "exit" => \E k \in DOMAIN line :
          \E a \in DefaultArguments : OptionOf(line[k]) \in a.names
     /\ pc = "invalid_argument" => Malformed(arguments, line)
=============================================================================
