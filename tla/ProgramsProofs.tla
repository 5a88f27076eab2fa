---------------------------- MODULE ProgramsProofs ----------------------------
(***************************************************************************)
(* Proofs about the two programs, for any command lines, any size of int,  *)
(* and any geometry of the shared memory.                                  *)
(***************************************************************************)
EXTENDS Programs, CollectionLemmas, TLAPS

(* The parser *)

\* What ends parse_args, as far as pc tells.
ParserPlaces == {"parsing", "parsed", "exit", "runtime_error", "invalid_argument"}

\* Arguments that take a value have an action that is known.
Actions(arguments) ==
  \A a \in arguments : a.max # 0 => a.action \in {"store", "parse_number", "choose"}

LEMMA ProgramActions == Actions(AppArguments) /\ Actions(ServiceArguments)
  BY DEF Actions, AppArguments, ServiceArguments, DefaultArguments, Flag, AddArgument, Choose,
         Required, DefaultValue, ScanInt

LEMMA NamedArgument ==
  ASSUME NEW arguments, NEW name, Known(arguments, name)
  PROVE  Named(arguments, name) \in arguments /\ name \in Named(arguments, name).names
  BY DEF Known, Named

\* An action converts the word, or throws one of two exceptions.
LEMMA ActThrows ==
  ASSUME NEW a, NEW word, a.action \in {"store", "parse_number", "choose"}
  PROVE  Act(a, word).thrown \in {"nothing", "runtime_error", "invalid_argument"}
  <1>1. \A v : ValueOf(v).thrown = "nothing"
    BY DEF ValueOf
  <1>2. \A e : Throws(e).thrown = e
    BY DEF Throws
  <1>3. ASSUME NEW base, NEW minus, NEW digits
        PROVE  FromChars(base, minus, digits).thrown
                 \in {"nothing", "runtime_error", "invalid_argument"}
    BY <1>1, <1>2, Zenon DEF FromChars
  <1>4. ParseNumber(word).thrown \in {"nothing", "runtime_error", "invalid_argument"}
    BY <1>2, <1>3 DEF ParseNumber
  <1>5. CASE a.action = "store"
    BY <1>1, <1>5 DEF Act
  <1>6. CASE a.action = "parse_number"
    BY <1>4, <1>6 DEF Act
  <1>7. CASE a.action = "choose"
    BY <1>1, <1>2, <1>7 DEF Act
  <1> QED
    BY <1>5, <1>6, <1>7

LEMMA ParserEnds ==
  ASSUME NEW arguments, Actions(arguments), ParseArgs(arguments)
  PROVE  pc' \in ParserPlaces
  <1>1. CASE PositionalArgument
    BY <1>1 DEF PositionalArgument, End, ParserPlaces
  <1>2. CASE UnknownArgument(arguments)
    BY <1>2 DEF UnknownArgument, End, ParserPlaces
  <1>3. CASE OptionalArgument(arguments)
    <2>1. PICK a \in arguments : Consume(a, Tail(words))
      BY <1>3, NamedArgument DEF OptionalArgument
    <2>2. ASSUME a.max > 0, TakeValue(a, Tail(words)) PROVE pc' \in ParserPlaces
      <3>1. a.action \in {"store", "parse_number", "choose"}
        BY <2>2 DEF Actions
      <3>2. ASSUME NEW word
            PROVE  Act(a, word).thrown \in {"nothing", "runtime_error", "invalid_argument"}
        BY ONLY <3>1, ActThrows
      <3> QED
        BY <2>2, <3>2 DEF TakeValue, End, ParserPlaces, ParseArgs
    <2>3. ASSUME TakeNothing(a, Tail(words)) PROVE pc' \in ParserPlaces
      BY <2>3 DEF TakeNothing, ParserPlaces, ParseArgs
    <2> QED
      BY <2>1, <2>2, <2>3 DEF Consume, End, ParserPlaces
  <1>4. CASE Validate(arguments)
    BY <1>4 DEF Validate, End, ParserPlaces
  <1> QED
    BY <1>1, <1>2, <1>3, <1>4 DEF ParseArgs
-----------------------------------------------------------------------------
(* The application *)

\* The requests to be waited for are those the Servicer has, each once, and
\* have been made.
Waits == /\ requestIds \in Seq(Nat) /\ requestMap = ToSet(requestIds) /\ Once(requestIds)
         /\ \A id \in requestMap : id < nextRequestId
         /\ nextRequestId \in Nat /\ lines \in Nat /\ named \in Nat

\* How many requests have been made when main is at a place, and which may be
\* waited for there.
Places ==
  CASE pc \in ParserPlaces -> requestIds = << >> /\ nextRequestId = 0 /\ named = 0
    [] pc = "file" -> requestIds = << >> /\ nextRequestId = 0 /\ named = 1
    [] pc = "list" -> /\ nextRequestId + lines = named
                      /\ State = "SYNC" => requestIds = << >>
    [] pc \in {"wait_file", "wait_list"} -> nextRequestId = named
    [] pc \in {"open_list", "return"} -> requestIds = << >> /\ nextRequestId = named
    [] pc \in {"failed", "aborted"} -> TRUE
    [] OTHER -> FALSE

AppInv == /\ Waits
          /\ program = "app" => Places
          /\ program # "app" => requestIds = << >> /\ nextRequestId = named

LEMMA AppInitially == Init => AppInv
  <1> SUFFICES ASSUME Init PROVE AppInv
    OBVIOUS
  <1>1. Waits
    BY DEF Init, AppInit, Waits, ToSet, Once
  <1>2. Places
    BY DEF Init, AppInit, ParserInit, Places, ParserPlaces
  <1> QED
    BY <1>1, <1>2 DEF AppInv, Init, AppInit

LEMMA CallSyncKept ==
  ASSUME Waits, CallSync, lines' \in Nat
  PROVE  Waits'
  <1>1. requestIds' = requestIds /\ requestMap' = requestMap /\ named' = named
    BY DEF CallSync
  <1>2. nextRequestId' \in Nat /\ \A n \in Nat : n < nextRequestId => n < nextRequestId'
    BY DEF CallSync, Waits
  <1>3. requestMap \subseteq Nat
    BY DEF Waits, ToSet
  <1> QED
    BY <1>1, <1>2, <1>3 DEF Waits

LEMMA CallAsyncKept ==
  ASSUME Waits, CallAsync, lines' \in Nat
  PROVE  Waits'
  <1>1. requestIds \in Seq(Nat) /\ nextRequestId \in Nat /\ requestMap = ToSet(requestIds)
    BY DEF Waits
  <1>2. nextRequestId \notin ToSet(requestIds)
    BY <1>1 DEF Waits
  <1>3. /\ requestIds' \in Seq(Nat)
        /\ ToSet(requestIds') = ToSet(requestIds) \cup {nextRequestId}
        /\ Once(requestIds')
    BY <1>1, <1>2, Pushed DEF Waits, CallAsync
  <1>4. requestMap' = ToSet(requestIds')
    BY <1>1, <1>3 DEF CallAsync
  <1>5. \A id \in requestMap' : id < nextRequestId'
    <2>1. requestMap \subseteq Nat
      BY <1>1 DEF ToSet
    <2> QED
      BY <1>1, <2>1 DEF CallAsync, Waits
  <1> QED
    BY <1>1, <1>3, <1>4, <1>5 DEF Waits, CallAsync

\* A request is waited for.
LEMMA WaitKept ==
  ASSUME Waits, requestIds # << >>, requestMap' = requestMap \ {Head(requestIds)},
         requestIds' = Tail(requestIds), UNCHANGED <<lines, nextRequestId, named>>
  PROVE  Waits'
  <1>1. /\ requestIds' \in Seq(Nat) /\ ToSet(requestIds') = requestMap' /\ Once(requestIds')
    BY Popped DEF Waits
  <1> QED
    BY <1>1 DEF Waits

LEMMA WaitsSame == ASSUME Waits, UNCHANGED appVars PROVE Waits'
  BY DEF Waits, appVars

LEMMA WaitsNext ==
  ASSUME Waits, AppNext
  PROVE  Waits'
  <1>1. ASSUME CallSync \/ CallAsync, lines' \in Nat PROVE Waits'
    BY <1>1, CallSyncKept, CallAsyncKept
  <1>2. CASE UNCHANGED appVars
    BY <1>2, WaitsSame
  <1>3. CASE MakeServicer
    BY <1>2, <1>3 DEF MakeServicer, Waits, Abort
  <1>4. CASE ProcessFile
    BY <1>1, <1>2, <1>4 DEF ProcessFile, Abort, Waits
  <1>5. CASE OpenList
    BY <1>2, <1>5 DEF OpenList, Abort, Waits
  <1>6. CASE NextFile
    <2>1. CASE lines > 0 /\ lines' = lines - 1 /\ (CallSync \/ CallAsync)
      <3>1. lines' \in Nat
        BY <2>1 DEF Waits
      <3> QED
        BY <1>1, <2>1, <3>1
    <2> QED
      BY <1>2, <1>6, <2>1 DEF NextFile, Abort
  <1>7. ASSUME NEW here, NEW next, Wait(here, next) PROVE Waits'
    BY <1>2, <1>7, WaitKept DEF Wait, Abort
  <1> QED
    BY <1>2, <1>3, <1>4, <1>5, <1>6, <1>7 DEF AppNext, NoFile

LEMMA PlacesNext ==
  ASSUME Waits, Places, AppNext
  PROVE  Places'
  <1>1. CASE ParseArgs(AppArguments) /\ UNCHANGED appVars
    <2>1. pc = "parsing" /\ pc' \in ParserPlaces
      BY <1>1, ParserEnds, ProgramActions DEF ParseArgs
    <2> QED
      BY <1>1, <2>1 DEF Places, ParserPlaces, appVars
  <1>2. CASE NoFile
    BY <1>2 DEF NoFile, Goto, Places, ParserPlaces
  <1>3. ASSUME NEW from, Abort(from) PROVE Places'
    BY <1>3 DEF Abort, Goto, Places, ParserPlaces
  <1>4. CASE MakeServicer
    <2>1. pc = "parsed" \/ \E from : Abort(from)
      BY <1>4 DEF MakeServicer, Goto
    <2> QED
      BY <1>3, <1>4, <2>1 DEF MakeServicer, Goto, Places, ParserPlaces, appVars
  <1>5. CASE ProcessFile
    <2>1. CASE Goto("file", AfterFile) /\ CallSync
      BY <2>1 DEF Goto, AfterFile, CallSync, Places, ParserPlaces
    <2>2. CASE Goto("file", "wait_file") /\ CallAsync
      BY <2>2 DEF Goto, CallAsync, Places, ParserPlaces
    <2> QED
      BY <1>3, <1>5, <2>1, <2>2 DEF ProcessFile
  <1>6. CASE OpenList
    BY <1>3, <1>6 DEF OpenList, Goto, Places, ParserPlaces, Waits
  <1>7. CASE NextFile
    <2>1. Goto("list", "list") => State' = State
      BY DEF Goto, State, Get
    <2>2. CASE /\ lines > 0 /\ Goto("list", "list") /\ lines' = lines - 1
               /\ IF State = "SYNC" THEN CallSync ELSE CallAsync
      <3>1. nextRequestId' = nextRequestId + 1 /\ named' = named
        BY <2>2 DEF CallSync, CallAsync
      <3>2. State = "SYNC" => requestIds' = << >>
        BY <2>2 DEF CallSync, Goto, Places, ParserPlaces
      <3> QED
        BY <2>1, <2>2, <3>1, <3>2 DEF Goto, Places, ParserPlaces, Waits
    <2>3. CASE /\ lines = 0 /\ UNCHANGED appVars
               /\ Goto("list", IF State = "SYNC" THEN "return" ELSE "wait_list")
      BY <2>3 DEF Goto, Places, ParserPlaces, appVars, Waits
    <2> QED
      BY <1>3, <1>7, <2>2, <2>3 DEF NextFile
  <1>8. ASSUME NEW here \in {"wait_file", "wait_list"}, NEW next \in {"open_list", "return"},
               Wait(here, next)
        PROVE  Places'
    <2>1. CASE Goto(here, here) /\ UNCHANGED <<lines, nextRequestId, named>>
      BY <2>1 DEF Goto, Places, ParserPlaces
    <2>2. CASE requestIds = << >> /\ Goto(here, next) /\ UNCHANGED appVars
      BY <2>2 DEF Goto, Places, ParserPlaces, appVars
    <2> QED
      BY <1>3, <1>8, <2>1, <2>2 DEF Wait
  <1>9. AfterFile \in {"open_list", "return"}
    BY DEF AfterFile
  <1> QED
    BY <1>1, <1>2, <1>4, <1>5, <1>6, <1>7, <1>8, <1>9 DEF AppNext

LEMMA AppStep == ASSUME AppInv, [Next]_vars PROVE AppInv'
  <1>1. CASE program = "app" /\ AppNext /\ program' = program
    BY <1>1, WaitsNext, PlacesNext DEF AppInv
  <1>2. CASE program = "service" /\ UNCHANGED <<program, appVars>>
    <2>1. Waits'
      BY <1>2, WaitsSame DEF AppInv
    <2> QED
      BY <1>2, <2>1 DEF AppInv, appVars
  <1>3. CASE UNCHANGED vars
    <2>1. Waits'
      BY <1>3, WaitsSame DEF AppInv, vars
    <2>2. Places => Places'
      BY <1>3 DEF Places, vars, parserVars, appVars, State, Get
    <2> QED
      BY <1>3, <2>1, <2>2 DEF AppInv, vars, appVars
  <1> QED
    BY <1>1, <1>2, <1>3 DEF Next

\* App waits once for every request it makes and for no other, and when main
\* returns it has done every file it was told to, with any command line and any
\* number of lines in its list.
THEOREM AppLeavesNothing == Spec => []NoRequestLeftBehind
  <1>1. AppInv => NoRequestLeftBehind
    <2> SUFFICES ASSUME AppInv PROVE NoRequestLeftBehind
      OBVIOUS
    <2>1. ToSet(requestIds) = requestMap /\ IsInjective(requestIds)
      BY LenProperties DEF AppInv, Waits, Once, IsInjective
    <2>2. pc = "return" => requestIds = << >> /\ nextRequestId = named
      BY DEF AppInv, Places, ParserPlaces
    <2>3. requestIds = << >> => requestMap = {}
      BY <2>1 DEF ToSet
    <2> QED
      BY <2>1, <2>2, <2>3 DEF NoRequestLeftBehind
  <1> QED
    BY <1>1, AppInitially, AppStep, PTL DEF Spec
-----------------------------------------------------------------------------
(* Numbers on the command line *)

\* g is what the fold over the digits makes of the first ones.
NumeralBy(g, base, digits) ==
  /\ FoldLeft(LAMBDA n, d : base * n + d, 0, digits) = g[DOMAIN digits]
  /\ \A t \in SUBSET DOMAIN digits :
       /\ g[t] \in Nat
       /\ g[t] = IF t = {} THEN 0 ELSE base * g[t \ {Max(t)}] + digits[Max(t)]

LEMMA NumeralSteps ==
  ASSUME NEW base \in Nat, NEW digits \in Seq(Nat)
  PROVE  \E g : NumeralBy(g, base, digits)
  <1> DEFINE S == DOMAIN digits
             op == [p \in S \X Nat |-> base * p[2] + digits[p[1]]]
             Folds(f) == f = [t \in SUBSET S |->
                                IF t = {} THEN 0
                                ELSE base * f[t \ {Max(t)}] + digits[Max(t)]]
  <1>1. S \in SUBSET Nat /\ IsFiniteSet(S) /\ \A k \in S : digits[k] \in Nat
    <2>1. S = 1..Len(digits) /\ Len(digits) \in Nat
      BY LenProperties
    <2>2. IsFiniteSet(1..Len(digits))
      BY <2>1, FS_Interval
    <2> QED
      BY <2>1, <2>2
  <1>2. \A m, n \in Nat : base * m + n \in Nat
    <2>1. \A m \in Nat : base * m \in Nat
      OBVIOUS
    <2> QED
      BY <2>1
  <1>3. op \in [S \X Nat -> Nat]
    BY <1>2, <1>1
  <1>4. PICK f \in [SUBSET S -> Nat] : FoldsTo(f, op, 0, S)
    BY <1>1, <1>3, FoldsExist
  <1>5. Folds(f)
    <2>1. ASSUME NEW t \in SUBSET S, t # {}
          PROVE  op[<<Max(t), f[t \ {Max(t)}]>>] = base * f[t \ {Max(t)}] + digits[Max(t)]
      <3>1. Max(t) \in S
        BY <1>1, <2>1, FS_Subset, Greatest
      <3>2. f[t \ {Max(t)}] \in Nat
        BY <1>4
      <3> QED
        BY <3>1, <3>2
    <2> HIDE DEF op
    <2> QED
      BY <1>4, <2>1 DEF FoldsTo
  <1> DEFINE g == CHOOSE h : Folds(h)
  <1>6. Folds(g)
    BY <1>5
  <1>7. FoldLeft(LAMBDA n, d : base * n + d, 0, digits) = g[S]
    BY DEF FoldLeft, MapThenFoldSet
  <1> DEFINE P == {t \in SUBSET S : g[t] \in Nat}
  <1> HIDE DEF g, op
  <1>8. {} \in P
    BY <1>6
  <1>9. ASSUME NEW t \in SUBSET S, t # {}, \A x \in t : t \ {x} \in P PROVE t \in P
    <2>1. Max(t) \in t
      BY <1>1, <1>9, FS_Subset, Greatest
    <2>2. g[t \ {Max(t)}] \in Nat /\ digits[Max(t)] \in Nat
      BY <1>1, <1>9, <2>1
    <2>3. g[t] = base * g[t \ {Max(t)}] + digits[Max(t)]
      BY <1>6, <1>9
    <2> HIDE DEF S, Folds
    <2>4. g[t] \in Nat
      <3>1. PICK m \in Nat, n \in Nat : m = g[t \ {Max(t)}] /\ n = digits[Max(t)]
        BY <2>2
      <3>2. g[t] = base * m + n
        BY <2>3, <3>1
      <3> QED
        BY <1>2, <3>2
    <2> QED
      BY <2>4
  <1>10. P = SUBSET S
    <2> HIDE DEF S
    <2>1. P \in SUBSET (SUBSET S)
      OBVIOUS
    <2> HIDE DEF P, Folds
    <2>2. IsFiniteSet(S) /\ {} \in P
      BY <1>1, <1>8
    <2> QED
      BY <1>9, <2>1, <2>2, SubsetsByInduction
  <1>11. NumeralBy(g, base, digits)
    <2>1. \A t \in SUBSET S :
            g[t] \in Nat /\ g[t] = IF t = {} THEN 0 ELSE base * g[t \ {Max(t)}] + digits[Max(t)]
      BY <1>6, <1>10
    <2> QED
      BY <1>7, <2>1 DEF NumeralBy
  <1> QED
    BY <1>11

\* A numeral denotes a number.
LEMMA NumeralValue ==
  ASSUME NEW base \in Nat, NEW digits \in Seq(Nat)
  PROVE  FoldLeft(LAMBDA n, d : base * n + d, 0, digits) \in Nat
  <1>1. PICK g : NumeralBy(g, base, digits)
    BY NumeralSteps
  <1> QED
    BY <1>1 DEF NumeralBy

\* What is behind a minus is characters too.
LEMMA DigitsBehindMinus ==
  ASSUME NEW chars \in Seq(Chars) PROVE DigitsOf(chars) \in Seq(Chars)
  BY DEF DigitsOf, IsNegative

\* The digits of a word are natural numbers.
LEMMA DigitsNatural ==
  ASSUME NEW digits \in Seq(Chars)
  PROVE  /\ digits \in Seq(Nat) /\ Len(digits) \in Nat /\ DOMAIN digits = 1..Len(digits)
         /\ \A k \in 1..Len(digits) : digits[k] \in Nat
  <1>1. Chars \subseteq Nat
    BY DEF Chars, Other
  <1>2. Len(digits) \in Nat /\ digits \in [1..Len(digits) -> Chars]
    BY LenProperties
  <1>3. digits \in [1..Len(digits) -> Nat]
    BY <1>1, <1>2
  <1>4. digits \in Seq(Nat)
    BY <1>2, <1>3, SeqDef
  <1> QED
    BY <1>2, <1>3, <1>4

\* from_chars reads the digits up to the first that is none in base.
LEMMA FromCharsReads ==
  ASSUME NEW base \in Nat, NEW minus, NEW digits \in Seq(Chars)
  PROVE  LET result == FromChars(base, minus, digits)
             magnitude == FoldLeft(LAMBDA n, d : base * n + d, 0, digits)
             limit == IF minus THEN IntMax + 1 ELSE IntMax
         IN IF digits # << >> /\ (\A k \in DOMAIN digits : digits[k] < base) /\ magnitude <= limit
            THEN result = ValueOf(IF minus THEN -magnitude ELSE magnitude)
            ELSE result \in {Throws("invalid_argument"), Throws("runtime_error")}
  <1> DEFINE I == {k \in 1..Len(digits) : digits[k] >= base}
             rest == SelectInSeq(digits, LAMBDA d : d >= base)
             read == IF rest = 0 THEN digits ELSE SubSeq(digits, 1, rest - 1)
             size == FoldLeft(LAMBDA n, d : base * n + d, 0, read)
             value == IF minus THEN -size ELSE size
             limit == IF minus THEN IntMax + 1 ELSE IntMax
             result == FromChars(base, minus, digits)
  <1>1. /\ digits \in Seq(Nat) /\ Len(digits) \in Nat /\ DOMAIN digits = 1..Len(digits)
        /\ \A k \in 1..Len(digits) : digits[k] \in Nat
    BY DigitsNatural
  <1>2. rest = IF I # {} THEN Min(I) ELSE 0
    BY DEF SelectInSeq
  <1>3. I # {} => Min(I) \in I
    <2>1. I # {} => \E m \in I : \A n \in I : m <= n
      <3>1. I \in SUBSET Nat
        BY <1>1
      <3> HIDE DEF I
      <3> QED
        BY <3>1, LeastNumber
    <2> HIDE DEF I
    <2> QED
      BY <2>1 DEF Min
  <1>4. result = CASE read = << >> -> Throws("invalid_argument")
                   [] read # << >> /\ size > limit -> Throws("runtime_error")
                   [] OTHER -> IF read = digits THEN ValueOf(value) ELSE Throws("invalid_argument")
    BY DEF FromChars
  <1> HIDE DEF rest, result, value, limit, size
  <1>5. CASE I = {}
    <2>1. rest = 0 /\ read = digits
      BY <1>2, <1>5
    <2>2. \A k \in DOMAIN digits : digits[k] < base
      BY <1>1, <1>5
    <2>3. size = FoldLeft(LAMBDA n, d : base * n + d, 0, digits)
      BY <2>1 DEF size
    <2>4. size \in Nat /\ limit \in Nat
      <3>1. FoldLeft(LAMBDA n, d : base * n + d, 0, digits) \in Nat
        BY <1>1, NumeralValue
      <3>2. limit \in Nat
        BY ArgumentsAssumption DEF limit
      <3> QED
        BY <2>3, <3>1, <3>2
    <2>5. size > limit <=> ~(size <= limit)
      BY <2>4
    <2> HIDE DEF read
    <2>6. IF digits # << >> /\ size <= limit THEN result = ValueOf(value)
          ELSE result \in {Throws("invalid_argument"), Throws("runtime_error")}
      BY <1>4, <2>1, <2>5, Zenon
    <2> QED
      BY <2>2, <2>3, <2>6 DEF value, limit, result
  <1>6. CASE I # {}
    <2>1. rest \in 1..Len(digits) /\ digits[rest] >= base
      BY <1>1, <1>2, <1>3, <1>6
    <2>2. ~ \A k \in DOMAIN digits : digits[k] < base
      BY <1>1, <2>1
    <2>3. read # digits
      <3>1. Len(SubSeq(digits, 1, rest - 1)) = rest - 1
        BY <1>1, <2>1, SubSeqProperties
      <3> QED
        BY <1>1, <2>1, <3>1
    <2> HIDE DEF read, I
    <2>4. result \in {Throws("invalid_argument"), Throws("runtime_error")}
      BY <1>4, <2>3, Zenon
    <2> QED
      BY <2>2, <2>4 DEF result
  <1> QED
    BY <1>5, <1>6

\* What from_chars makes of digits is an int if it is anything.
Ints == -(IntMax + 1)..IntMax

LEMMA CharsAreNumbers ==
  ASSUME NEW base \in Nat, NEW minus, NEW digits \in Seq(Chars),
         FromChars(base, minus, digits).thrown = "nothing"
  PROVE  FromChars(base, minus, digits).value \in Ints
  <1> DEFINE magnitude == FoldLeft(LAMBDA n, d : base * n + d, 0, digits)
             limit == IF minus THEN IntMax + 1 ELSE IntMax
             value == IF minus THEN -magnitude ELSE magnitude
  <1>1. magnitude \in Nat
    BY DigitsNatural, NumeralValue
  <1> HIDE DEF magnitude
  <1>2. magnitude <= limit => value \in Ints
    BY <1>1, ArgumentsAssumption DEF Ints
  <1>3. Throws("invalid_argument").thrown # "nothing" /\ Throws("runtime_error").thrown # "nothing"
    BY DEF Throws
  <1>4. ValueOf(value).value = value
    BY DEF ValueOf
  <1>5. \/ magnitude <= limit /\ FromChars(base, minus, digits) = ValueOf(value)
        \/ FromChars(base, minus, digits)
             \in {Throws("invalid_argument"), Throws("runtime_error")}
    BY FromCharsReads DEF magnitude
  <1> HIDE DEF value, limit
  <1> QED
    BY <1>2, <1>3, <1>4, <1>5

\* What the words that are left of a command line can be read as.
Readable(ws) == \E T : ws \in Seq(T) /\ \A w \in T : IsNumeral(w)

LEMMA Preprocessed ==
  ASSUME NEW arguments, NEW line, IsCommandLine(line)
  PROVE  Readable(Preprocess(arguments, line))
  <1> DEFINE seqs == [k \in DOMAIN line |->
                        IF line[k].kind = "assigned" /\ Known(arguments, line[k].name)
                        THEN <<Name(line[k].name), line[k].word>> ELSE <<line[k]>>]
             T == {w \in UNION {{Name(line[k].name), line[k].word, line[k]} : k \in DOMAIN line} :
                     IsNumeral(w)}
  <1>1. line \in Seq(ToSet(line)) /\ \A k \in DOMAIN line : IsWord(line[k])
    BY DEF IsCommandLine
  <1>2. DOMAIN line = 1..Len(line) /\ Len(line) \in Nat
    BY <1>1, LenProperties
  <1>3. ASSUME NEW k \in DOMAIN line PROVE seqs[k] \in Seq(T)
    <2>1. line[k] \in T
      BY <1>1 DEF IsWord
    <2>2. Name(line[k].name) \in T
      BY DEF Name, IsNumeral
    <2>3. line[k].kind = "assigned" => line[k].word \in T
      BY <1>1 DEF IsWord
    <2> HIDE DEF T
    <2> QED
      BY <2>1, <2>2, <2>3
  <1>4. seqs \in Seq(Seq(T))
    <2> HIDE DEF T
    <2>1. DOMAIN seqs = 1..Len(line)
      BY <1>2
    <2>2. seqs \in [1..Len(line) -> Seq(T)]
      BY <1>2, <1>3
    <2> HIDE DEF seqs
    <2> QED
      BY <1>2, <2>2, SeqDef
  <1>5. Preprocess(arguments, line) = FlattenSeq(seqs)
    BY DEF Preprocess
  <1>6. \A w \in T : IsNumeral(w)
    OBVIOUS
  <1> HIDE DEF seqs, T
  <1>7. FlattenSeq(seqs) \in Seq(T)
    BY <1>4, Flattened
  <1> QED
    BY <1>5, <1>6, <1>7 DEF Readable

\* An argument a that was given has an int as its value.
Valued(a) == a.names \in used => a.names \in DOMAIN values /\ values[a.names] \in Ints

\* The argument a must be given, with a number.
Demands(arguments, a) ==
  /\ a \in arguments
  /\ a.action = "parse_number" /\ a.min = 1 /\ a.required /\ a.default = NoDefault
  /\ \A b \in arguments : b.names = a.names => b = a


LEMMA ValuedNext ==
  ASSUME NEW arguments, NEW a, Actions(arguments), Demands(arguments, a), Readable(words),
         Valued(a), ParseArgs(arguments)
  PROVE  /\ Readable(words') /\ Valued(a)'
         /\ pc' = "parsed" => a.names \in used'
  <1>1. ASSUME NEW how, End(how) PROVE Readable(words') /\ Valued(a)' /\ used' = used /\ pc' = how
    <2>1. words' = words /\ used' = used /\ values' = values /\ pc' = how
      BY <1>1 DEF End
    <2>2. Valued(a)'
      BY <2>1 DEF Valued
    <2>3. Readable(words')
      BY <2>1 DEF Readable
    <2> QED
      BY <2>1, <2>2, <2>3
  <1>2. CASE PositionalArgument
    BY <1>1, <1>2 DEF PositionalArgument
  <1>3. CASE UnknownArgument(arguments)
    BY <1>1, <1>3 DEF UnknownArgument
  <1>4. CASE Validate(arguments)
    <2>1. a.names \notin used => \E b \in arguments : b.required /\ b.names \notin used
                                                     /\ b.default = NoDefault
      BY DEF Demands
    <2> QED
      BY <1>1, <1>4, <2>1 DEF Validate
  <1>5. CASE OptionalArgument(arguments)
    <2>1. PICK b \in arguments : Consume(b, Tail(words)) /\ words # << >>
      BY <1>5, NamedArgument DEF OptionalArgument
    <2>2. PICK T : words \in Seq(T) /\ \A w \in T : IsNumeral(w)
      BY DEF Readable
    <2>3. Tail(words) \in Seq(T)
      BY <2>1, <2>2, HeadTailProperties
    <2>4. CASE b.max > 0 /\ Given(Tail(words)) /\ TakeValue(b, Tail(words))
      <3> DEFINE rest == Tail(words)
                 result == Act(b, Head(rest))
      <3>1. rest # << >>
        BY <2>4 DEF Given
      <3>2. Head(rest) \in T /\ Tail(rest) \in Seq(T)
        BY <2>3, <3>1, HeadTailProperties
      <3>3. CASE result.thrown # "nothing" /\ End(result.thrown)
        <4>1. b.action \in {"store", "parse_number", "choose"}
          BY <2>4 DEF Actions
        <4>2. ASSUME NEW word PROVE Act(b, word).thrown # "parsed"
          BY ONLY <4>1, ActThrows
        <4> QED
          <5>1. result.thrown # "parsed"
            BY <4>2
          <5> HIDE DEF result
          <5> QED
            BY <1>1, <3>3, <5>1
      <3>4. CASE /\ result.thrown = "nothing"
                 /\ words' = Tail(rest)
                 /\ used' = used \union {b.names}
                 /\ values' = [names \in DOMAIN values \union {b.names} |->
                                IF names = b.names THEN result.value ELSE values[names]]
                 /\ UNCHANGED <<pc, argv>>
        <4>1. Readable(words')
          BY <2>2, <3>2, <3>4 DEF Readable
        <4>2. ASSUME b.names = a.names PROVE result.value \in Ints
          <5> DEFINE word == Head(rest)
          <5>1. IsNumeral(word) /\ IsPositional(word)
            BY <2>2, <2>4, <3>2 DEF Given
          <5>2. result = ParseNumber(word)
            <6>1. b.action = "parse_number"
              BY <4>2 DEF Demands
            <6> QED
              BY <6>1 DEF Act
          <5> HIDE DEF word, result
          <5>3. word.kind = "number"
            BY <3>4, <5>1, <5>2 DEF IsPositional, ParseNumber, Throws
          <5>4. DigitsOf(word.chars) \in Seq(Chars)
            BY <5>1, <5>3, DigitsBehindMinus DEF IsNumeral
          <5>5. Base(word) \in Nat
            BY DEF Base
          <5>6. result = FromChars(Base(word), IsNegative(word.chars), DigitsOf(word.chars))
            BY <5>2, <5>3 DEF ParseNumber
          <5> QED
            BY <3>4, <5>4, <5>5, <5>6, CharsAreNumbers
        <4>3. /\ DOMAIN values' = DOMAIN values \cup {b.names}
              /\ \A n \in DOMAIN values : n # b.names => values'[n] = values[n]
              /\ values'[b.names] = result.value
          BY <3>4
        <4> QED
          BY <3>4, <4>1, <4>2, <4>3 DEF Valued, ParseArgs
      <3> QED
        BY <2>4, <3>3, <3>4 DEF TakeValue
    <2>5. CASE b.min = 0 /\ TakeNothing(b, Tail(words))
      <3>1. b.names # a.names
        BY <2>5 DEF Demands
      <3>2. Readable(words')
        BY <2>2, <2>3, <2>5 DEF TakeNothing, Readable
      <3> QED
        BY <2>5, <3>1, <3>2 DEF TakeNothing, Valued, ParseArgs
    <2> QED
      BY <1>1, <2>1, <2>4, <2>5 DEF Consume
  <1> QED
    BY <1>2, <1>3, <1>4, <1>5 DEF ParseArgs
-----------------------------------------------------------------------------
(* The geometry of the shared memory *)

\* Segments that lie in memory and have no byte in common.
Usable(g) ==
  LET n == NumInternalSegments(g)
      segments == ShmSegments(g)
  IN /\ n <= Len(segments)
     /\ \A k \in 1..n :
          /\ 0 <= segments[k].physical /\ segments[k].physical < g.num
          /\ segments[k].addr + segments[k].size <= g.size
     /\ \A j, k \in 1..n : j < k =>
          \/ segments[j].physical # segments[k].physical
          \/ segments[j].addr + segments[j].size <= segments[k].addr

\* What the constructor makes when it does not throw: nothing, or physical segments
\* that are cut without a rest.
LEMMA CutWithoutRest ==
  ASSUME NEW num \in Int, NEW size \in Int, NEW rep \in Nat \ {0},
         Constructs(Geometry(num, size, rep)), NumInternalSegments(Geometry(num, size, rep)) > 0
  PROVE  \E p \in Nat \ {0} : /\ PerPhysical(Geometry(num, size, rep)) = p /\ size = p * rep
                              /\ NumInternalSegments(Geometry(num, size, rep)) = num * p
                              /\ num \in Nat \ {0}
  <1> DEFINE g == Geometry(num, size, rep)
             p == PerPhysical(g)
             n == NumInternalSegments(g)
  <1>1. g.num = num /\ g.size = size /\ g.rep = rep
    BY DEF Geometry
  <1>2. p = (size + rep - 1) \div rep /\ n = (num * size) \div rep
    BY <1>1 DEF PerPhysical, NumInternalSegments
  <1>3. num > 0 /\ size > 0 /\ ~Regrows(g)
    <2>1. num # 0
      <3>1. (0 * size) \div rep = 0
        OBVIOUS
      <3> QED
        BY <1>2, <3>1
    <2> QED
      BY <1>1, <2>1 DEF Constructs
  <1>4. p \in Nat \ {0} /\ p * rep >= size /\ (p - 1) * rep < size
    BY <1>2, <1>3
  <1>5. n \in Nat /\ n * rep <= num * size
    BY <1>2, <1>3
  <1>6. Len(ShmSegments(g)) = num * p
    <2>1. num * p \in Nat
      BY <1>3, <1>4
    <2> QED
      BY <1>1, <2>1 DEF ShmSegments
  <1>7. num * p <= n \/ num * p <= 1
    BY <1>3, <1>5, <1>6 DEF Regrows, Reserved
  <1>8. n > 0
    OBVIOUS
  <1> HIDE DEF p, n, g
  <1>9. num * p \in Nat /\ num * p <= n
    <2>1. num * p \in Nat
      BY <1>3, <1>4
    <2> QED
      BY <1>5, <1>7, <1>8, <2>1
  <1>10. size = p * rep
    <2>1. (num * p) * rep <= n * rep
      BY <1>5, <1>9
    <2>2. (num * p) * rep = num * (p * rep)
      BY <1>3, <1>4
    <2>3. num * (p * rep) <= num * size
      BY <1>5, <1>9, <2>1, <2>2
    <2>4. p * rep \in Int
      BY <1>4
    <2>5. p * rep <= size
      BY <1>3, <2>3, <2>4
    <2> QED
      BY <1>4, <2>4, <2>5
  <1>11. n <= num * p
    <2>1. num * size = (num * p) * rep
      BY <1>3, <1>4, <1>10
    <2>2. n * rep <= (num * p) * rep
      BY <1>5, <2>1
    <2> QED
      BY <1>5, <1>9, <2>2
  <1>12. n = num * p
    BY <1>5, <1>9, <1>11
  <1> QED
    BY <1>3, <1>4, <1>10, <1>12 DEF p, n, g

\* Where the segment of number m is, when each physical one has p: in the physical
\* segment m \div p, at place m % p.
LEMMA Place ==
  ASSUME NEW num \in Nat \ {0}, NEW p \in Nat \ {0}, NEW m \in 0..(num * p - 1)
  PROVE  /\ m \div p \in 0..(num - 1) /\ m % p \in 0..(p - 1)
         /\ m = p * (m \div p) + (m % p)
  <1>1. num * p \in Nat
    OBVIOUS
  <1>2. m \in Nat /\ m < num * p
    BY <1>1
  <1>3. m \div p \in Nat /\ m % p \in 0..(p - 1) /\ m = p * (m \div p) + (m % p)
    BY <1>2
  <1> DEFINE q == m \div p
  <1>4. q \in Nat /\ p * q <= m
    BY <1>2, <1>3
  <1> HIDE DEF q
  <1>5. ASSUME q >= num PROVE FALSE
    <2>1. p * q >= p * num
      BY <1>4, <1>5
    <2> QED
      BY <1>2, <1>4, <2>1
  <1>6. q \in 0..(num - 1)
    BY <1>4, <1>5
  <1> QED
    BY <1>3, <1>6 DEF q

\* Whatever the command line asks for, the constructor throws or makes a pool that
\* is usable.
LEMMA GeometryUsable ==
  ASSUME NEW num \in Int, NEW size \in Int, NEW rep \in Nat \ {0},
         Constructs(Geometry(num, size, rep))
  PROVE  Usable(Geometry(num, size, rep))
  <1> DEFINE g == Geometry(num, size, rep)
             n == NumInternalSegments(g)
             segments == ShmSegments(g)
  <1>1. g.num = num /\ g.size = size /\ g.rep = rep
    BY DEF Geometry
  <1>2. n \in Int
    BY <1>1 DEF NumInternalSegments
  <1>3. num * PerPhysical(g) \in Nat
    <2>1. PerPhysical(g) \in Int /\ (size > 0 => PerPhysical(g) \in Nat)
      BY <1>1 DEF PerPhysical
    <2>2. CASE num = 0
      BY <2>1, <2>2
    <2>3. CASE num > 0 /\ size > 0
      BY <2>1, <2>3
    <2> QED
      BY <1>1, <2>2, <2>3 DEF Constructs
  <1>4. Len(segments) = num * PerPhysical(g)
    BY <1>1, <1>3 DEF ShmSegments
  <1>5. CASE n <= 0
    <2>1. 1..n = {} /\ n <= Len(segments)
      BY <1>2, <1>3, <1>4, <1>5
    <2> HIDE DEF n, segments, g
    <2>2. Usable(g)
      BY <2>1 DEF Usable, n, segments
    <2> QED
      BY <2>2 DEF g
  <1>6. CASE n > 0
    <2>1. PICK p \in Nat \ {0} : PerPhysical(g) = p /\ size = p * rep /\ n = num * p
                                 /\ num \in Nat \ {0}
      BY <1>6, CutWithoutRest
    <2> DEFINE q(k) == (k - 1) \div p
               r(k) == (k - 1) % p
    <2>2. ASSUME NEW k \in 1..n
          PROVE  segments[k].physical = q(k) /\ segments[k].addr = rep * r(k)
                 /\ segments[k].size = rep
      BY <1>1, <2>1 DEF ShmSegments
    <2>3. ASSUME NEW k \in 1..n
          PROVE  /\ q(k) \in 0..(num - 1) /\ r(k) \in 0..(p - 1)
                 /\ k = p * q(k) + r(k) + 1
      <3>1. k - 1 \in 0..(num * p - 1)
        BY <1>2, <2>1
      <3> DEFINE m == k - 1
      <3> HIDE DEF m
      <3>2. /\ m \div p \in 0..(num - 1) /\ m % p \in 0..(p - 1)
            /\ m = p * (m \div p) + (m % p)
        BY <2>1, <3>1, Place DEF m
      <3>3. q(k) = m \div p /\ r(k) = m % p /\ k = m + 1
        BY <1>2 DEF m
      <3> QED
        BY <2>1, <3>2, <3>3
    <2> HIDE DEF q, r, n, segments, g
    <2>4. \A i, j \in 0..(p - 1) : i < j => rep * i + rep <= rep * j
      <3> SUFFICES ASSUME NEW i \in 0..(p - 1), NEW j \in 0..(p - 1), i < j
                   PROVE  rep * i + rep <= rep * j
        OBVIOUS
      <3>1. rep * (i + 1) <= rep * j
        OBVIOUS
      <3> QED
        BY <3>1
    <2>5. \A i \in 0..(p - 1) : rep * i + rep <= size
      <3> SUFFICES ASSUME NEW i \in 0..(p - 1) PROVE rep * i + rep <= size
        OBVIOUS
      <3>1. rep * (i + 1) <= rep * p
        OBVIOUS
      <3> QED
        BY <2>1, <3>1
    <2>6. ASSUME NEW j \in 1..n, NEW k \in 1..n, j < k, q(j) = q(k)
          PROVE  segments[j].addr + segments[j].size <= segments[k].addr
      <3>1. r(j) < r(k)
        <4> DEFINE a == p * q(j)
        <4>1. a \in Int /\ j = a + r(j) + 1 /\ k = a + r(k) + 1
          BY <2>1, <2>3, <2>6
        <4> HIDE DEF a
        <4> QED
          BY <2>3, <2>6, <4>1
      <3> QED
        BY <2>2, <2>3, <2>4, <3>1
    <2>7. \A k \in 1..n : /\ 0 <= segments[k].physical /\ segments[k].physical < g.num
                          /\ segments[k].addr + segments[k].size <= g.size
      BY <1>1, <2>2, <2>3, <2>5
    <2>8. n <= Len(segments)
      BY <1>2, <1>4, <2>1
    <2>9. Usable(g)
      BY <2>2, <2>6, <2>7, <2>8 DEF Usable, n, segments
    <2> QED
      BY <2>9 DEF g
  <1> QED
    BY <1>2, <1>5, <1>6
-----------------------------------------------------------------------------
(* The service *)

\* The two numbers that the service asks for.
Count == ScanInt(Required(AddArgument({"--n_sms"})))
Size == ScanInt(Required(AddArgument({"--sms_size"})))

LEMMA ServiceDemands ==
  /\ Demands(ServiceArguments, Count) /\ Count.names = {"--n_sms"}
  /\ Named(ServiceArguments, "--n_sms") = Count
  /\ Demands(ServiceArguments, Size) /\ Size.names = {"--sms_size"}
  /\ Named(ServiceArguments, "--sms_size") = Size
  <1>1. /\ Count.names = {"--n_sms"} /\ Count.action = "parse_number" /\ Count.min = 1
        /\ Count.required /\ Count.default = NoDefault
        /\ Size.names = {"--sms_size"} /\ Size.action = "parse_number" /\ Size.min = 1
        /\ Size.required /\ Size.default = NoDefault
    BY DEF Count, Size, ScanInt, Required, AddArgument
  <1>2. PICK help, version, scheduler :
          /\ ServiceArguments = {help, version, Count, Size, scheduler}
          /\ help.names = {"-h", "--help"} /\ version.names = {"-v", "--version"}
          /\ scheduler.names = {"--scheduler"}
    <2> DEFINE help == Flag(AddArgument({"-h", "--help"}))
               version == Flag(AddArgument({"-v", "--version"}))
               scheduler == Choose(DefaultValue(AddArgument({"--scheduler"}), "ROUND_ROBIN"),
                                   {"ROUND_ROBIN", "CREDIT"})
    <2>1. /\ help.names = {"-h", "--help"} /\ version.names = {"-v", "--version"}
          /\ scheduler.names = {"--scheduler"}
      BY DEF Flag, AddArgument, Choose, DefaultValue
    <2> HIDE DEF help, version, scheduler
    <2>2. ServiceArguments = {help, version, Count, Size, scheduler}
      BY DEF ServiceArguments, DefaultArguments, Count, Size, help, version, scheduler
    <2> QED
      BY <2>1, <2>2
  <1>3. \A b \in ServiceArguments : "--n_sms" \in b.names => b = Count
    BY <1>1, <1>2
  <1>4. \A b \in ServiceArguments : "--sms_size" \in b.names => b = Size
    BY <1>1, <1>2
  <1>5. Count \in ServiceArguments /\ Size \in ServiceArguments
    BY <1>2
  <1>6. Demands(ServiceArguments, Count) /\ Demands(ServiceArguments, Size)
    BY <1>1, <1>3, <1>4, <1>5 DEF Demands
  <1>7. /\ Named(ServiceArguments, "--n_sms") = Count
        /\ Named(ServiceArguments, "--sms_size") = Size
    BY <1>1, <1>3, <1>4, <1>5 DEF Named
  <1> QED
    BY <1>1, <1>6, <1>7

\* While the service reads its command line.
Reading == /\ pc = "parsing" => Readable(words)
           /\ Valued(Count) /\ Valued(Size)
           /\ pc = "parsed" => Count.names \in used /\ Size.names \in used

\* The service reads two numbers, and the pool that it makes of them is usable.
ServiceInv == /\ program = "service" /\ pc \in {"parsing", "parsed"} => Reading
              /\ PoolUsable

LEMMA ServiceInitially == Init => ServiceInv
  <1> SUFFICES ASSUME Init PROVE ServiceInv
    OBVIOUS
  <1>1. PoolUsable
    BY DEF Init, ServiceInit, PoolUsable
  <1>2. ASSUME program = "service" PROVE Reading
    <2>1. argv \in ServiceCommands /\ words = Preprocess(ServiceArguments, argv)
      BY <1>2 DEF Init, ParserInit, ProgramArguments
    <2>2. Readable(words)
      BY <2>1, CommandsAssumption, Preprocessed
    <2>3. used = {} /\ pc = "parsing"
      BY DEF Init, ParserInit
    <2> QED
      BY <2>2, <2>3 DEF Reading, Valued
  <1> QED
    BY <1>1, <1>2 DEF ServiceInv

LEMMA PoolSame == ASSUME PoolUsable, geometry' = geometry PROVE PoolUsable'
  <1>1. geometry # None => Usable(geometry)
    BY DEF PoolUsable, Usable
  <1>2. geometry' # None => Usable(geometry')
    BY <1>1
  <1> QED
    BY <1>2 DEF Usable, PoolUsable, NumInternalSegments, ShmSegments, PerPhysical

LEMMA NumbersGot ==
  ASSUME Reading, pc = "parsed"
  PROVE  Get(ServiceArguments, "--n_sms") \in Ints /\ Get(ServiceArguments, "--sms_size") \in Ints
  BY ServiceDemands DEF Reading, Valued, Get

LEMMA LaunchUsable ==
  ASSUME Reading, PoolUsable, Launch
  PROVE  PoolUsable'
  <1> DEFINE num == Get(ServiceArguments, "--n_sms")
             size == Get(ServiceArguments, "--sms_size")
             g == Geometry(num, size, InternalRepSize)
  <1>1. num \in Ints /\ size \in Ints
    BY NumbersGot DEF Launch
  <1>2. (Constructs(g) /\ geometry' = g) \/ geometry' = geometry
    BY DEF Launch
  <1>3. CASE Constructs(g) /\ geometry' = g
    <2> HIDE DEF num, size
    <2>1. Usable(g)
      BY <1>1, <1>3, GeometryUsable, ServiceAssumption, ArgumentsAssumption DEF Ints
    <2> HIDE DEF g
    <2>2. Usable(geometry')
      BY <1>3, <2>1
    <2> QED
      BY <2>2 DEF Usable, PoolUsable, NumInternalSegments, ShmSegments, PerPhysical
  <1> QED
    BY <1>2, <1>3, PoolSame

LEMMA ServiceStep == ASSUME ServiceInv, [Next]_vars PROVE ServiceInv'
  <1>1. CASE program = "service" /\ program' = program /\ ParseArgs(ServiceArguments)
             /\ UNCHANGED serviceVars
    <2>1. PoolUsable'
      BY <1>1, PoolSame DEF ServiceInv, serviceVars
    <2>2. Reading /\ pc = "parsing"
      BY <1>1 DEF ServiceInv, ParseArgs
    <2>3. /\ Readable(words') /\ Valued(Count)' /\ Valued(Size)'
          /\ pc' = "parsed" => Count.names \in used' /\ Size.names \in used'
      BY <1>1, <2>2, ServiceDemands, ProgramActions, ValuedNext DEF Reading
    <2>4. Reading'
      BY <2>3 DEF Reading
    <2> QED
      BY <2>1, <2>4 DEF ServiceInv
  <1>2. CASE program = "service" /\ program' = program /\ Launch
    <2>1. PoolUsable'
      BY <1>2, LaunchUsable DEF ServiceInv, Launch
    <2>2. pc' \in {"serving", "aborted"}
      BY <1>2 DEF Launch
    <2> QED
      BY <2>1, <2>2 DEF ServiceInv
  <1>3. CASE pc' \notin {"parsing", "parsed"} /\ geometry' = geometry
    BY <1>3, PoolSame DEF ServiceInv
  <1>4. CASE program = "app" /\ program' = program /\ UNCHANGED serviceVars
    BY <1>4, PoolSame DEF ServiceInv, serviceVars
  <1>5. CASE UNCHANGED vars
    <2>1. PoolUsable'
      BY <1>5, PoolSame DEF ServiceInv, vars, serviceVars
    <2>2. Reading => Reading'
      BY <1>5 DEF Reading, Valued, Readable, vars, parserVars
    <2> QED
      BY <1>5, <2>1, <2>2 DEF ServiceInv, vars, parserVars
  <1>6. ASSUME program = "service", program' = program, ServiceNext
        PROVE  ServiceInv'
    <2>1. CASE Registers \/ AnswersId \/ Attaches \/ Announced \/ Asks \/ Granted \/ Leaves \/ Left
      BY <1>3, <2>1 DEF Registers, AnswersId, Attaches, Announced, Asks, Granted, Leaves, Left, Step
    <2>2. CASE Answers
      BY <1>3, <2>2 DEF Answers, Step
    <2>3. ASSUME NEW segments, Writes(segments) PROVE ServiceInv'
      BY <1>3, <2>3 DEF Writes, Step
    <2> QED
      BY <1>1, <1>2, <1>6, <2>1, <2>2, <2>3 DEF ServiceNext
  <1> QED
    BY <1>4, <1>5, <1>6 DEF Next

\* A service that has started hands out only segments that lie in the memory it
\* mapped and have no byte in common: with any command line, any size of int and
\* any size of the internal segments.
THEOREM PoolIsUsable == Spec => []PoolUsable
  <1>1. ServiceInv => PoolUsable
    BY DEF ServiceInv
  <1> QED
    BY <1>1, ServiceInitially, ServiceStep, PTL DEF Spec
-----------------------------------------------------------------------------
(* The bytes of a number *)

\* rest is the function that Shifted computes its results with.
Shifts(rest, v, k) == rest = [j \in 0..k |-> IF j = 0 THEN v ELSE rest[j - 1] \div 256]

LEMMA ShiftsExist ==
  ASSUME NEW v, NEW n \in Nat
  PROVE  \E rest : Shifts(rest, v, n)
  <1> DEFINE N == {k \in Nat : \E rest : Shifts(rest, v, k)}
  <1>1. 0 \in N
    <2>1. Shifts([j \in 0..0 |-> v], v, 0)
      BY DEF Shifts
    <2> QED
      BY <2>1
  <1>2. ASSUME NEW k \in N PROVE k + 1 \in N
    <2>1. PICK g : Shifts(g, v, k)
      BY <1>2
    <2> DEFINE Result(f, j) == IF j = 0 THEN v ELSE f[j - 1] \div 256
               h == [j \in 0..(k + 1) |-> Result(g, j)]
    <2>2. k \in Nat
      OBVIOUS
    <2>3. \A j \in 0..k : h[j] = g[j]
      <3>1. \A j \in 0..k : g[j] = Result(g, j)
        BY <2>1 DEF Shifts
      <3>2. 0..k \subseteq 0..(k + 1)
        BY <2>2
      <3> HIDE DEF Result
      <3> QED
        BY <3>1, <3>2
    <2>4. \A j \in 0..(k + 1) : Result(g, j) = Result(h, j)
      <3>1. ASSUME NEW j \in 0..(k + 1), j # 0 PROVE h[j - 1] = g[j - 1]
        <4>1. j - 1 \in 0..k
          BY <2>2, <3>1
        <4> QED
          BY <2>3, <4>1
      <3> QED
        BY <3>1
    <2>5. Shifts(h, v, k + 1)
      BY <2>4, ZenonT(30) DEF Shifts
    <2> HIDE DEF h
    <2> QED
      BY <2>2, <2>5
  <1>3. N = Nat
    <2> N \in SUBSET Nat
      OBVIOUS
    <2> HIDE DEF N
    <2> QED
      BY <1>1, <1>2, NumbersByInduction
  <1> QED
    BY <1>3

\* Each byte less is a division more.
LEMMA ShiftedOnce ==
  ASSUME NEW v \in Int
  PROVE  /\ Shifted(v, 0) = v
         /\ \A k \in Nat : Shifted(v, k + 1) = Shifted(v, k) \div 256 /\ Shifted(v, k) \in Int
  <1> DEFINE rest(k) == CHOOSE r : Shifts(r, v, k)
  <1>1. ASSUME NEW k \in Nat
        PROVE  /\ Shifted(v, k) = rest(k)[k]
               /\ \A j \in 0..k : rest(k)[j] = IF j = 0 THEN v ELSE rest(k)[j - 1] \div 256
    <2>1. Shifts(rest(k), v, k)
      BY ShiftsExist
    <2> QED
      BY <2>1 DEF Shifts, Shifted
  <1> HIDE DEF rest
  <1>2. ASSUME NEW k \in Nat PROVE \A j \in 0..k : rest(k)[j] = rest(k + 1)[j]
    <2> DEFINE N == {j \in Nat : j <= k => rest(k)[j] = rest(k + 1)[j]}
    <2>1. 0 \in N
      BY <1>1
    <2>2. ASSUME NEW j \in N PROVE j + 1 \in N
      <3> SUFFICES ASSUME j + 1 <= k PROVE rest(k)[j + 1] = rest(k + 1)[j + 1]
        OBVIOUS
      <3>1. j \in Nat /\ j + 1 \in 0..k /\ j + 1 \in 0..(k + 1) /\ j + 1 # 0 /\ (j + 1) - 1 = j
        OBVIOUS
      <3>2. rest(k)[j] = rest(k + 1)[j]
        BY <3>1
      <3>3. /\ rest(k)[j + 1] = rest(k)[j] \div 256
            /\ rest(k + 1)[j + 1] = rest(k + 1)[j] \div 256
        BY <1>1, <3>1
      <3> QED
        BY <3>2, <3>3
    <2>3. N = Nat
      <3> N \in SUBSET Nat
        OBVIOUS
      <3> HIDE DEF N
      <3> QED
        BY <2>1, <2>2, NumbersByInduction
    <2> QED
      BY <2>3
  <1>3. Shifted(v, 0) = v
    BY <1>1
  <1>4. ASSUME NEW k \in Nat PROVE Shifted(v, k + 1) = Shifted(v, k) \div 256
    <2>1. k + 1 \in Nat /\ k + 1 \in 0..(k + 1) /\ k + 1 # 0 /\ (k + 1) - 1 = k /\ k \in 0..k
      OBVIOUS
    <2>2. rest(k + 1)[k + 1] = rest(k + 1)[k] \div 256
      BY <1>1, <2>1
    <2> QED
      BY <1>1, <1>2, <2>1, <2>2
  <1> DEFINE N == {k \in Nat : Shifted(v, k) \in Int}
  <1>5. 0 \in N
    BY <1>3
  <1>6. ASSUME NEW k \in N PROVE k + 1 \in N
    <2>1. k \in Nat /\ Shifted(v, k) \in Int
      OBVIOUS
    <2>2. Shifted(v, k + 1) \in Int
      BY <1>4, <2>1
    <2> QED
      BY <2>1, <2>2
  <1>7. N = Nat
    <2> N \in SUBSET Nat
      OBVIOUS
    <2> HIDE DEF N
    <2> QED
      BY <1>5, <1>6, NumbersByInduction
  <1> QED
    BY <1>3, <1>4, <1>7

\* What is between two numbers that have room has it, too; and a number
\* that has room has it in more bytes.
LEMMA ShiftedOrder ==
  ASSUME NEW v \in Int, NEW w \in Int, v <= w, NEW n \in Nat
  PROVE  Shifted(v, n) <= Shifted(w, n)
  <1> DEFINE N == {k \in Nat : Shifted(v, k) <= Shifted(w, k)}
  <1>1. 0 \in N
    BY ShiftedOnce
  <1>2. ASSUME NEW k \in N PROVE k + 1 \in N
    <2>1. /\ k \in Nat /\ Shifted(v, k) \in Int /\ Shifted(w, k) \in Int
          /\ Shifted(v, k) <= Shifted(w, k)
      BY ShiftedOnce
    <2>2. \A a, b \in Int : a <= b => a \div 256 <= b \div 256
      OBVIOUS
    <2> HIDE DEF N
    <2>3. Shifted(v, k + 1) <= Shifted(w, k + 1)
      BY <2>1, <2>2, ShiftedOnce
    <2> QED
      BY <2>1, <2>3 DEF N
  <1>3. N = Nat
    <2> N \in SUBSET Nat
      OBVIOUS
    <2> HIDE DEF N
    <2> QED
      BY <1>1, <1>2, NumbersByInduction
  <1> QED
    BY <1>3

LEMMA RepresentableBetween ==
  ASSUME NEW u \in Int, NEW v \in Int, NEW w \in Int, u <= v, v <= w, NEW n \in Nat \ {0},
         Representable(u, n), Representable(w, n)
  PROVE  Representable(v, n)
  <1>1. n - 1 \in Nat
    OBVIOUS
  <1>2. Shifted(u, n - 1) <= Shifted(v, n - 1) /\ Shifted(v, n - 1) <= Shifted(w, n - 1)
    BY <1>1, ShiftedOrder
  <1>3. /\ Shifted(u, n - 1) \in Int /\ Shifted(v, n - 1) \in Int /\ Shifted(w, n - 1) \in Int
        /\ Shifted(u, n - 1) >= -128 /\ Shifted(w, n - 1) <= 127
    <2>1. /\ Shifted(u, n - 1) \in Int /\ Shifted(v, n - 1) \in Int
          /\ Shifted(w, n - 1) \in Int
      BY <1>1, ShiftedOnce, ZenonT(30)
    <2>2. Shifted(u, n - 1) \in -128..127 /\ Shifted(w, n - 1) \in -128..127
      BY DEF Representable
    <2> QED
      BY <2>1, <2>2
  <1> HIDE DEF Representable
  <1>4. Shifted(v, n - 1) \in -128..127
    BY <1>2, <1>3
  <1> QED
    BY <1>4 DEF Representable

LEMMA RepresentableMore ==
  ASSUME NEW v \in Int, NEW n \in Nat \ {0}, Representable(v, n)
  PROVE  Representable(v, n + 1)
  <1> DEFINE s == Shifted(v, n - 1)
  <1>1. Shifted(v, (n + 1) - 1) = s \div 256 /\ s \in Int
    <2> DEFINE m == n - 1
    <2>1. m \in Nat /\ (n + 1) - 1 = m + 1
      OBVIOUS
    <2> HIDE DEF m
    <2>2. Shifted(v, m + 1) = Shifted(v, m) \div 256 /\ Shifted(v, m) \in Int
      BY <2>1, ShiftedOnce
    <2> QED
      BY <2>1, <2>2 DEF m
  <1>2. -128 <= s /\ s <= 127
    BY DEF Representable
  <1> HIDE DEF s
  <1>3. s \div 256 \in -128..127
    BY <1>1, <1>2
  <1> QED
    BY <1>1, <1>3 DEF Representable

\* A byte, and the number from this byte on.
LEMMA ByteSteps ==
  ASSUME NEW v \in Int, NEW k \in Nat \ {0}
  PROVE  /\ Byte(v, k) \in 0..255
         /\ Shifted(v, k - 1) = 256 * Shifted(v, k) + Byte(v, k)
  <1> DEFINE m == k - 1
             s == Shifted(v, m)
  <1>1. m \in Nat /\ k = m + 1
    OBVIOUS
  <1> HIDE DEF m
  <1>2. Shifted(v, m + 1) = s \div 256 /\ s \in Int
    BY <1>1, ShiftedOnce
  <1> HIDE DEF s
  <1>3. s % 256 \in 0..255 /\ s = 256 * (s \div 256) + (s % 256)
    BY <1>2
  <1>4. Byte(v, k) = s % 256
    BY DEF Byte, s, m
  <1> QED
    BY <1>1, <1>2, <1>3, <1>4 DEF s, m

\* A number that has room in n bytes is read back from them.
LEMMA BytesRead ==
  ASSUME NEW v \in Int, NEW n \in Nat \ {0}, Representable(v, n),
         NEW bytes \in Seq(Int), Len(bytes) = n, \A k \in 1..n : bytes[k] = Byte(v, k)
  PROVE  Value(bytes) = v
  <1> DEFINE Result(f, k) == IF k = n THEN Signed(bytes[k]) ELSE 256 * f[k + 1] + bytes[k]
             Reads(f) == f = [k \in 1..n |-> Result(f, k)]
             g == [k \in 1..n |-> Shifted(v, k - 1)]
             from == CHOOSE f : Reads(f)
  <1>1. Shifted(v, n - 1) = Signed(bytes[n])
    <2> DEFINE s == Shifted(v, n - 1)
    <2>1. s \in -128..127
      BY DEF Representable
    <2>2. bytes[n] = s % 256
      BY DEF Byte
    <2> HIDE DEF s
    <2>3. s \in Int /\ -128 <= s /\ s <= 127
      BY <2>1
    <2>4. s % 256 = IF s < 0 THEN s + 256 ELSE s
      BY <2>3
    <2> QED
      BY <2>2, <2>3, <2>4 DEF Signed, s
  <1>2. ASSUME NEW k \in 1..n PROVE g[k] = Result(g, k)
    <2>1. CASE k = n
      BY <1>1, <2>1
    <2>2. CASE k # n
      <3>1. k + 1 \in 1..n /\ (k + 1) - 1 = k /\ k \in Nat \ {0}
        BY <2>2
      <3>2. g[k + 1] = Shifted(v, k) /\ g[k] = Shifted(v, k - 1)
        BY <3>1
      <3> HIDE DEF g
      <3>3. g[k] = 256 * g[k + 1] + bytes[k]
        BY <3>1, <3>2, ByteSteps
      <3> QED
        BY <2>2, <3>3
    <2> QED
      BY <2>1, <2>2
  <1>3. Reads(g)
    <2>1. g = [k \in 1..n |-> g[k]]
      OBVIOUS
    <2> HIDE DEF g, Result
    <2> QED
      BY <1>2, <2>1
  <1>4. Reads(from)
    BY <1>3
  <1>5. Value(bytes) = from[1]
    BY DEF Value
  <1> HIDE DEF from
  <1>6. \A k \in 1..n : from[k] = Result(from, k)
    <2> HIDE DEF Result
    <2> QED
      BY <1>4
  <1> DEFINE N == {j \in Nat : j < n => from[n - j] = Shifted(v, n - j - 1)}
  <1>7. 0 \in N
    <2>1. n \in 1..n /\ n - 0 = n
      OBVIOUS
    <2>2. from[n] = Shifted(v, n - 1)
      BY <1>1, <1>6, <2>1
    <2> QED
      BY <2>1, <2>2
  <1>8. ASSUME NEW j \in N PROVE j + 1 \in N
    <2> SUFFICES ASSUME j + 1 < n PROVE from[n - (j + 1)] = Shifted(v, n - (j + 1) - 1)
      OBVIOUS
    <2> DEFINE k == n - (j + 1)
    <2>1. k \in 1..n /\ k # n /\ k \in Nat \ {0} /\ k + 1 = n - j /\ k = n - j - 1
      OBVIOUS
    <2>2. from[n - j] = Shifted(v, n - j - 1)
      OBVIOUS
    <2> HIDE DEF k, N
    <2>3. from[k + 1] = Shifted(v, k)
      BY <2>1, <2>2
    <2>4. from[k] = 256 * from[k + 1] + bytes[k] /\ bytes[k] = Byte(v, k)
      BY <1>6, <2>1, SMTT(30)
    <2>5. from[k] = Shifted(v, k - 1)
      BY <2>1, <2>3, <2>4, ByteSteps
    <2> QED
      BY <2>5 DEF k
  <1>9. N = Nat
    <2> N \in SUBSET Nat
      OBVIOUS
    <2> HIDE DEF N
    <2> QED
      BY <1>7, <1>8, NumbersByInduction
  <1>10. from[1] = Shifted(v, 0)
    <2>1. n - 1 \in Nat /\ n - 1 < n /\ n - (n - 1) = 1 /\ 1 - 1 = 0
      OBVIOUS
    <2>2. \A j \in Nat : j < n => from[n - j] = Shifted(v, n - j - 1)
      <3> SUFFICES ASSUME NEW j \in Nat PROVE j \in N
        OBVIOUS
      <3> HIDE DEF N
      <3> QED
        BY <1>9
    <2>3. from[n - (n - 1)] = Shifted(v, n - (n - 1) - 1)
      BY <2>1, <2>2
    <2> QED
      BY <2>1, <2>3
  <1> QED
    BY <1>5, <1>10, ShiftedOnce

\* A number in a buffer.
HasBytes(buffer, at, v, width) == \A k \in 1..width : buffer[at + k] = Byte(v, k)

LEMMA NumberRead ==
  ASSUME NEW v \in Int, NEW n \in Nat \ {0}, Representable(v, n), NEW buffer, NEW at \in Nat,
         HasBytes(buffer, at, v, n)
  PROVE  Value(SubSeq(buffer, at + 1, at + n)) = v
  <1> DEFINE bytes == SubSeq(buffer, at + 1, at + n)
  <1>1. \A i \in (at + 1)..(at + n) : buffer[i] \in Int
    <2> SUFFICES ASSUME NEW i \in (at + 1)..(at + n) PROVE buffer[i] \in Int
      OBVIOUS
    <2>1. i - at \in 1..n /\ i - at \in Nat \ {0} /\ at + (i - at) = i
      OBVIOUS
    <2>2. buffer[at + (i - at)] = Byte(v, i - at)
      BY <2>1 DEF HasBytes
    <2>3. Byte(v, i - at) \in 0..255
      BY <2>1, ByteSteps
    <2> QED
      BY <2>1, <2>2, <2>3
  <1>2. at + 1 \in Int /\ at + n \in Int /\ at + 1 <= at + n /\ at + n - (at + 1) + 1 = n
    OBVIOUS
  <1>3. /\ bytes \in Seq(Int) /\ Len(bytes) = n
        /\ \A k \in 1..n : bytes[k] = buffer[at + 1 + k - 1]
    BY <1>1, <1>2, SubSeqProperties
  <1> HIDE DEF bytes
  <1>4. \A k \in 1..n : bytes[k] = Byte(v, k)
    <2> SUFFICES ASSUME NEW k \in 1..n PROVE bytes[k] = Byte(v, k)
      OBVIOUS
    <2>1. at + 1 + k - 1 = at + k
      OBVIOUS
    <2> QED
      BY <1>3, <2>1 DEF HasBytes
  <1>5. Value(bytes) = v
    BY <1>3, <1>4, BytesRead
  <1> QED
    BY <1>5 DEF bytes

LEMMA IntRead ==
  ASSUME NEW v \in Int, Representable(v, SizeofInt), NEW buffer, NEW at \in Nat,
         HasBytes(buffer, at, v, SizeofInt)
  PROVE  IntAt(buffer, at) = v
  BY NumberRead DEF IntAt, SizeofInt

LEMMA SizeTRead ==
  ASSUME NEW v \in Int, Representable(v, SizeofSizeT), NEW buffer, NEW at \in Nat,
         HasBytes(buffer, at, v, SizeofSizeT)
  PROVE  SizeTAt(buffer, at) = v
  BY NumberRead DEF SizeTAt, SizeofSizeT
-----------------------------------------------------------------------------
(* Messages *)

LEMMA Representable4Is8 ==
  ASSUME NEW v \in Int, Representable(v, SizeofInt)
  PROVE  Representable(v, SizeofSizeT)
  <1>1. Representable(v, 4)
    BY DEF SizeofInt
  <1>2. Representable(v, 5)
    BY <1>1, RepresentableMore
  <1>3. Representable(v, 6)
    BY <1>2, RepresentableMore
  <1>4. Representable(v, 7)
    BY <1>3, RepresentableMore
  <1>5. Representable(v, 8)
    BY <1>4, RepresentableMore
  <1> QED
    BY <1>5 DEF SizeofSizeT

LEMMA SmallRepresentable ==
  ASSUME NEW v \in 0..127
  PROVE  Representable(v, SizeofInt)
  <1>1. Representable(v, 1)
    <2>1. Shifted(v, 0) = v
      BY ShiftedOnce
    <2>2. Shifted(v, 1 - 1) = v
      BY <2>1
    <2> QED
      BY <2>2 DEF Representable
  <1>2. Representable(v, 2)
    BY <1>1, RepresentableMore
  <1>3. Representable(v, 3)
    BY <1>2, RepresentableMore
  <1>4. Representable(v, 4)
    BY <1>3, RepresentableMore
  <1> QED
    BY <1>4 DEF SizeofInt

\* A number in the bytes it is written as.
LEMMA Written ==
  ASSUME NEW v \in Int, NEW width \in Nat
  PROVE  /\ Bytes(v, width) \in Seq(Int) /\ Len(Bytes(v, width)) = width
         /\ HasBytes(Bytes(v, width), 0, v, width)
  <1>1. \A k \in 1..width : Byte(v, k) \in Int
    <2> SUFFICES ASSUME NEW k \in 1..width PROVE Byte(v, k) \in Int
      OBVIOUS
    <2>1. k \in Nat \ {0}
      OBVIOUS
    <2>2. Byte(v, k) \in 0..255
      BY <2>1, ByteSteps
    <2> QED
      BY <2>2
  <1>2. Bytes(v, width) \in [1..width -> Int]
    BY <1>1 DEF Bytes
  <1>3. Bytes(v, width) \in Seq(Int)
    BY <1>2, SeqDef
  <1>4. Len(Bytes(v, width)) = width
    BY DEF Bytes
  <1>5. HasBytes(Bytes(v, width), 0, v, width)
    BY DEF HasBytes, Bytes
  <1> QED
    BY <1>3, <1>4, <1>5

\* And in a longer buffer.
LEMMA WrittenFirst ==
  ASSUME NEW s \in Seq(Int), NEW t \in Seq(Int), NEW at \in Nat, NEW v, NEW width \in Nat,
         HasBytes(s, at, v, width), at + width <= Len(s)
  PROVE  HasBytes(s \o t, at, v, width)
  <1> SUFFICES ASSUME NEW k \in 1..width PROVE (s \o t)[at + k] = Byte(v, k)
    BY DEF HasBytes
  <1>1. at + k \in 1..Len(s)
    BY LenProperties
  <1>2. (s \o t)[at + k] = s[at + k]
    BY <1>1, ConcatProperties
  <1> QED
    BY <1>2 DEF HasBytes

LEMMA WrittenBehind ==
  ASSUME NEW s \in Seq(Int), NEW t \in Seq(Int), NEW at \in Nat, NEW v, NEW width \in Nat,
         HasBytes(t, at, v, width), at + width <= Len(t)
  PROVE  HasBytes(s \o t, Len(s) + at, v, width)
  <1> SUFFICES ASSUME NEW k \in 1..width PROVE (s \o t)[(Len(s) + at) + k] = Byte(v, k)
    BY DEF HasBytes
  <1>1. Len(s) \in Nat /\ Len(t) \in Nat
    BY LenProperties
  <1>2. /\ (Len(s) + at) + k \in 1..(Len(s) + Len(t)) /\ (Len(s) + at) + k > Len(s)
        /\ (Len(s) + at) + k - Len(s) = at + k
    BY <1>1
  <1>3. (s \o t)[(Len(s) + at) + k] = t[at + k]
    BY <1>1, <1>2, ConcatProperties
  <1> QED
    BY <1>3 DEF HasBytes

\* One number more.
LEMMA WrittenNext ==
  ASSUME NEW s \in Seq(Int), NEW v \in Int, NEW width \in Nat
  PROVE  /\ s \o Bytes(v, width) \in Seq(Int) /\ Len(s \o Bytes(v, width)) = Len(s) + width
         /\ HasBytes(s \o Bytes(v, width), Len(s), v, width)
  <1> DEFINE t == Bytes(v, width)
  <1>1. t \in Seq(Int) /\ Len(t) = width /\ HasBytes(t, 0, v, width)
    BY Written
  <1> HIDE DEF t
  <1>2. s \o t \in Seq(Int) /\ Len(s \o t) = Len(s) + width /\ Len(s) \in Nat
    BY <1>1, ConcatProperties, LenProperties
  <1>3. HasBytes(s \o t, Len(s) + 0, v, width)
    BY <1>1, WrittenBehind
  <1>4. Len(s) + 0 = Len(s)
    BY <1>2
  <1> QED
    BY <1>2, <1>3, <1>4 DEF t

LEMMA WrittenBefore ==
  ASSUME NEW s \in Seq(Int), NEW v \in Int, NEW width \in Nat, NEW at \in Nat, NEW n \in Nat,
         NEW u, HasBytes(s, at, u, n), at + n <= Len(s)
  PROVE  HasBytes(s \o Bytes(v, width), at, u, n)
  BY Written, WrittenFirst

\* A message is its type and then its contents.
LEMMA Serialized ==
  ASSUME NEW type \in 0..127, NEW contents \in Seq(Int)
  PROVE  /\ IntBytes(type) \o contents \in Seq(Int)
         /\ Len(IntBytes(type) \o contents) = SizeofInt + Len(contents)
         /\ IntAt(IntBytes(type) \o contents, 0) = type
  <1> DEFINE head == IntBytes(type)
  <1>1. type \in Int
    OBVIOUS
  <1> Representable(type, SizeofInt)
    BY SmallRepresentable
  <1>2. head \in Seq(Int) /\ Len(head) = SizeofInt /\ HasBytes(head, 0, type, SizeofInt)
    BY <1>1, Written DEF IntBytes, SizeofInt
  <1> HIDE DEF head
  <1>3. head \o contents \in Seq(Int) /\ Len(head \o contents) = SizeofInt + Len(contents)
    BY <1>2, ConcatProperties
  <1>4. HasBytes(head \o contents, 0, type, SizeofInt)
    <2>1. 0 \in Nat /\ SizeofInt \in Nat /\ 0 + SizeofInt <= Len(head)
      BY <1>2 DEF SizeofInt
    <2> QED
      BY <1>2, <2>1, WrittenFirst
  <1>5. IntAt(head \o contents, 0) = type
    BY <1>1, <1>4, IntRead
  <1> QED
    BY <1>3, <1>5 DEF head

LEMMA SerializedAt ==
  ASSUME NEW type \in 0..127, NEW contents \in Seq(Int), NEW at \in Nat, NEW n \in Nat,
         NEW v, HasBytes(contents, at, v, n), at + n <= Len(contents)
  PROVE  HasBytes(IntBytes(type) \o contents, SizeofInt + at, v, n)
  <1> DEFINE head == IntBytes(type)
  <1>1. type \in Int
    OBVIOUS
  <1>2. head \in Seq(Int) /\ Len(head) = SizeofInt
    BY <1>1, Written DEF IntBytes, SizeofInt
  <1> HIDE DEF head
  <1>3. HasBytes(head \o contents, Len(head) + at, v, n)
    BY <1>2, WrittenBehind
  <1> QED
    BY <1>2, <1>3 DEF head

\* What is read for a type.
LEMMA RegistrationTypes ==
  ASSUME NEW buffer
  PROVE  /\ IntAt(buffer, 0) = 0 =>
              DeserializeRegistrationQueue(buffer) = DeserializeRegistration(buffer)
         /\ IntAt(buffer, 0) = 1 =>
              DeserializeRegistrationQueue(buffer) = DeserializeQueueCreation(buffer)
         /\ IntAt(buffer, 0) = 2 =>
              DeserializeRegistrationQueue(buffer) = DeserializeQueueDeletion(buffer)
  <1> DEFINE registration == MQClientMessageType.REGISTRATION
             creation == MQClientMessageType.QUEUE_CREATION
             deletion == MQClientMessageType.QUEUE_DELETION
             type == IntAt(buffer, 0)
  <1>1. registration = 0 /\ creation = 1 /\ deletion = 2
    BY DEF MQClientMessageType
  <1>2. DeserializeRegistrationQueue(buffer) =
          CASE type = registration -> DeserializeRegistration(buffer)
            [] type = creation -> DeserializeQueueCreation(buffer)
            [] type = deletion -> DeserializeQueueDeletion(buffer)
            [] OTHER -> [type |-> "unknown message type"]
    BY DEF DeserializeRegistrationQueue
  <1>3. registration # creation /\ registration # deletion /\ creation # deletion
    BY <1>1
  <1> HIDE DEF registration, creation, deletion, type
  <1>4. type = registration =>
          DeserializeRegistrationQueue(buffer) = DeserializeRegistration(buffer)
    BY <1>2, <1>3, Zenon
  <1>5. type = creation =>
          DeserializeRegistrationQueue(buffer) = DeserializeQueueCreation(buffer)
    BY <1>2, <1>3, Zenon
  <1>6. type = deletion =>
          DeserializeRegistrationQueue(buffer) = DeserializeQueueDeletion(buffer)
    BY <1>2, <1>3, Zenon
  <1> QED
    BY <1>1, <1>4, <1>5, <1>6 DEF type

\* What a registration message, an announcement and a farewell are read as.
LEMMA RegistrationArrives ==
  /\ DeserializeRegistrationQueue(SerializeRegistration(Registration)) = Registration
  /\ Len(SerializeRegistration(Registration)) = RegistrationSize
  <1> DEFINE bytes == IntBytes(0) \o << >>
  <1>1. << >> \in Seq(Int) /\ Len(<< >>) = 0 /\ 0 \in 0..127
    BY EmptySeq
  <1>2. Len(bytes) = SizeofInt + 0 /\ IntAt(bytes, 0) = 0
    BY <1>1, Serialized
  <1>3. SerializeRegistration(Registration) = bytes
    BY DEF SerializeRegistration, SerializeClient, MQClientMessageType
  <1> HIDE DEF bytes
  <1>4. DeserializeRegistrationQueue(bytes) = Registration
    BY <1>2, RegistrationTypes DEF DeserializeRegistration
  <1> QED
    BY <1>2, <1>3, <1>4 DEF RegistrationSize, ClientHeaderSize, SizeofInt

LEMMA QueueCreationArrives ==
  ASSUME NEW id \in Int, NEW priority \in Int, Representable(id, SizeofInt),
         Representable(priority, SizeofInt)
  PROVE  LET m == QueueCreation(id, priority)
         IN /\ DeserializeRegistrationQueue(SerializeQueueCreation(m)) = m
            /\ Len(SerializeQueueCreation(m)) = QueueCreationSize
  <1> DEFINE m == QueueCreation(id, priority)
             s == IntBytes(id)
             t == s \o IntBytes(priority)
             bytes == IntBytes(1) \o t
  <1>1. SizeofInt \in Nat /\ 0 \in Nat /\ SizeofInt = 4
    BY DEF SizeofInt
  <1>2. s \in Seq(Int) /\ Len(s) = SizeofInt /\ HasBytes(s, 0, id, SizeofInt)
    BY <1>1, Written DEF IntBytes
  <1> HIDE DEF s
  <1>3. /\ t \in Seq(Int) /\ Len(t) = SizeofInt + SizeofInt
        /\ HasBytes(t, SizeofInt, priority, SizeofInt) /\ HasBytes(t, 0, id, SizeofInt)
    <2>1. 0 + SizeofInt <= Len(s)
      BY <1>1, <1>2
    <2>2. HasBytes(t, 0, id, SizeofInt)
      BY <1>1, <1>2, <2>1, WrittenBefore DEF IntBytes
    <2> QED
      BY <1>1, <1>2, <2>2, WrittenNext, ZenonT(30) DEF IntBytes
  <1> HIDE DEF t
  <1>4. /\ Len(bytes) = SizeofInt + (SizeofInt + SizeofInt) /\ IntAt(bytes, 0) = 1
        /\ HasBytes(bytes, SizeofInt + 0, id, SizeofInt)
        /\ HasBytes(bytes, SizeofInt + SizeofInt, priority, SizeofInt)
    <2>1. 1 \in 0..127 /\ 0 + SizeofInt <= Len(t) /\ SizeofInt + SizeofInt <= Len(t)
      BY <1>1, <1>3
    <2> QED
      BY <1>1, <1>3, <2>1, Serialized, SerializedAt
  <1>5. SerializeQueueCreation(m) = bytes
    BY DEF SerializeQueueCreation, SerializeClient, MQClientMessageType, QueueCreation, m, s, t
  <1> HIDE DEF bytes
  <1>6. IntAt(bytes, SizeofInt) = id /\ IntAt(bytes, 2 * SizeofInt) = priority
    BY <1>1, <1>4, IntRead
  <1>7. DeserializeRegistrationQueue(bytes) = m
    BY <1>4, <1>6, RegistrationTypes DEF DeserializeQueueCreation
  <1> QED
    BY <1>1, <1>4, <1>5, <1>7 DEF QueueCreationSize, ClientHeaderSize

LEMMA QueueDeletionArrives ==
  ASSUME NEW id \in Int, Representable(id, SizeofInt)
  PROVE  LET m == QueueDeletion(id)
         IN /\ DeserializeRegistrationQueue(SerializeQueueDeletion(m)) = m
            /\ Len(SerializeQueueDeletion(m)) = QueueDeletionSize
  <1> DEFINE m == QueueDeletion(id)
             s == IntBytes(id)
             bytes == IntBytes(2) \o s
  <1>1. SizeofInt \in Nat /\ 0 \in Nat /\ SizeofInt = 4
    BY DEF SizeofInt
  <1>2. s \in Seq(Int) /\ Len(s) = SizeofInt /\ HasBytes(s, 0, id, SizeofInt)
    BY <1>1, Written DEF IntBytes
  <1> HIDE DEF s
  <1>3. /\ Len(bytes) = SizeofInt + SizeofInt /\ IntAt(bytes, 0) = 2
        /\ HasBytes(bytes, SizeofInt + 0, id, SizeofInt)
    <2>1. 2 \in 0..127 /\ 0 + SizeofInt <= Len(s)
      BY <1>1, <1>2
    <2> QED
      BY <1>1, <1>2, <2>1, Serialized, SerializedAt
  <1>4. SerializeQueueDeletion(m) = bytes
    BY DEF SerializeQueueDeletion, SerializeClient, MQClientMessageType, QueueDeletion, m, s
  <1> HIDE DEF bytes
  <1>5. IntAt(bytes, SizeofInt) = id
    BY <1>1, <1>3, IntRead
  <1>6. DeserializeRegistrationQueue(bytes) = m
    BY <1>3, <1>5, RegistrationTypes DEF DeserializeQueueDeletion
  <1> QED
    BY <1>1, <1>3, <1>4, <1>6 DEF QueueDeletionSize, ClientHeaderSize

LEMMA RequestArrives ==
  ASSUME NEW id \in Int, NEW size \in Int, Representable(id, SizeofInt),
         Representable(size, SizeofSizeT)
  PROVE  LET m == Request(id, size)
         IN DeserializeRequest(SerializeRequest(m)) = m /\ Len(SerializeRequest(m)) = RequestSize
  <1> DEFINE m == Request(id, size)
             s == IntBytes(id)
             t == s \o SizeTBytes(size)
             bytes == IntBytes(3) \o t
  <1>1. SizeofInt \in Nat /\ 0 \in Nat /\ SizeofInt = 4 /\ SizeofSizeT \in Nat /\ SizeofSizeT = 8
    BY DEF SizeofInt, SizeofSizeT
  <1>2. s \in Seq(Int) /\ Len(s) = SizeofInt /\ HasBytes(s, 0, id, SizeofInt)
    BY <1>1, Written DEF IntBytes
  <1> HIDE DEF s
  <1>3. /\ t \in Seq(Int) /\ Len(t) = SizeofInt + SizeofSizeT
        /\ HasBytes(t, SizeofInt, size, SizeofSizeT) /\ HasBytes(t, 0, id, SizeofInt)
    <2>1. 0 + SizeofInt <= Len(s)
      BY <1>1, <1>2
    <2> QED
      BY <1>1, <1>2, <2>1, WrittenNext, WrittenBefore, ZenonT(30) DEF SizeTBytes
  <1> HIDE DEF t
  <1>4. /\ Len(bytes) = SizeofInt + (SizeofInt + SizeofSizeT)
        /\ HasBytes(bytes, SizeofInt + 0, id, SizeofInt)
        /\ HasBytes(bytes, SizeofInt + SizeofInt, size, SizeofSizeT)
    <2>1. 3 \in 0..127 /\ 0 + SizeofInt <= Len(t) /\ SizeofInt + SizeofSizeT <= Len(t)
      BY <1>1, <1>3
    <2> QED
      BY <1>1, <1>3, <2>1, Serialized, SerializedAt
  <1>5. SerializeRequest(m) = bytes
    BY DEF SerializeRequest, SerializeClient, MQClientMessageType, Request, m, s, t
  <1> HIDE DEF bytes
  <1>6. IntAt(bytes, SizeofInt) = id /\ SizeTAt(bytes, 2 * SizeofInt) = size
    BY <1>1, <1>4, IntRead, SizeTRead
  <1>7. DeserializeRequest(bytes) = m
    BY <1>6 DEF DeserializeRequest
  <1> QED
    BY <1>1, <1>4, <1>5, <1>7 DEF RequestSize, ClientHeaderSize

LEMMA IdArrives ==
  ASSUME NEW id \in Int, NEW num \in Int, NEW size \in Int, NEW rep \in Int,
         Representable(id, SizeofInt), Representable(num, SizeofSizeT),
         Representable(size, SizeofSizeT), Representable(rep, SizeofSizeT)
  PROVE  LET m == Id(id, num, size, rep)
         IN DeserializeId(SerializeId(m)) = m /\ Len(SerializeId(m)) = IdSize
  <1> DEFINE m == Id(id, num, size, rep)
             s == IntBytes(id)
             t == s \o SizeTBytes(num)
             u == t \o SizeTBytes(size)
             w == u \o SizeTBytes(rep)
             bytes == IntBytes(0) \o w
  <1>1. SizeofInt \in Nat /\ 0 \in Nat /\ SizeofInt = 4 /\ SizeofSizeT \in Nat /\ SizeofSizeT = 8
    BY DEF SizeofInt, SizeofSizeT
  <1>2. s \in Seq(Int) /\ Len(s) = 4 /\ HasBytes(s, 0, id, 4)
    BY <1>1, Written DEF IntBytes
  <1> HIDE DEF s
  <1>3. t \in Seq(Int) /\ Len(t) = 12 /\ HasBytes(t, 4, num, 8)
    <2>1. t \in Seq(Int) /\ Len(t) = Len(s) + 8
      BY <1>1, <1>2, WrittenNext DEF SizeTBytes
    <2>2. HasBytes(t, Len(s), num, 8)
      BY <1>1, <1>2, WrittenNext DEF SizeTBytes
    <2> QED
      BY <1>1, <1>2, <2>1, <2>2
  <1>4. HasBytes(t, 0, id, 4)
    <2>1. 0 + 4 <= Len(s)
      BY <1>2
    <2> QED
      BY <1>1, <1>2, <2>1, WrittenBefore DEF SizeTBytes
  <1> HIDE DEF t
  <1>5. u \in Seq(Int) /\ Len(u) = 20 /\ HasBytes(u, 12, size, 8)
    <2>1. u \in Seq(Int) /\ Len(u) = Len(t) + 8
      BY <1>1, <1>3, WrittenNext DEF SizeTBytes
    <2>2. HasBytes(u, Len(t), size, 8)
      BY <1>1, <1>3, WrittenNext DEF SizeTBytes
    <2> QED
      BY <1>1, <1>3, <2>1, <2>2
  <1>6. HasBytes(u, 0, id, 4) /\ HasBytes(u, 4, num, 8)
    <2>1. 0 + 4 <= Len(t) /\ 4 + 8 <= Len(t)
      BY <1>3
    <2> QED
      BY <1>1, <1>3, <1>4, <2>1, WrittenBefore DEF SizeTBytes
  <1> HIDE DEF u
  <1>7. w \in Seq(Int) /\ Len(w) = 28 /\ HasBytes(w, 20, rep, 8)
    <2>1. w \in Seq(Int) /\ Len(w) = Len(u) + 8
      BY <1>1, <1>5, WrittenNext DEF SizeTBytes
    <2>2. HasBytes(w, Len(u), rep, 8)
      BY <1>1, <1>5, WrittenNext DEF SizeTBytes
    <2> QED
      BY <1>1, <1>5, <2>1, <2>2
  <1>8. HasBytes(w, 0, id, 4) /\ HasBytes(w, 4, num, 8) /\ HasBytes(w, 12, size, 8)
    <2>1. 0 + 4 <= Len(u) /\ 4 + 8 <= Len(u) /\ 12 + 8 <= Len(u)
      BY <1>5
    <2> QED
      BY <1>1, <1>5, <1>6, <2>1, WrittenBefore DEF SizeTBytes
  <1> HIDE DEF w
  <1>9. 0 \in 0..127
    OBVIOUS
  <1>10. Len(bytes) = 32
    <2>1. Len(bytes) = SizeofInt + Len(w)
      BY <1>7, <1>9, Serialized
    <2> QED
      BY <1>1, <1>7, <2>1
  <1>11. HasBytes(bytes, 4, id, 4) /\ HasBytes(bytes, 8, num, 8)
    <2>1. 0 + 4 <= Len(w) /\ 4 + 8 <= Len(w)
      BY <1>7
    <2>2. HasBytes(bytes, SizeofInt + 0, id, 4) /\ HasBytes(bytes, SizeofInt + 4, num, 8)
      BY <1>7, <1>8, <1>9, <2>1, SerializedAt
    <2> QED
      BY <1>1, <2>2
  <1>12. HasBytes(bytes, 16, size, 8) /\ HasBytes(bytes, 24, rep, 8)
    <2>1. 12 + 8 <= Len(w) /\ 20 + 8 <= Len(w)
      BY <1>7
    <2>2. HasBytes(bytes, SizeofInt + 12, size, 8) /\ HasBytes(bytes, SizeofInt + 20, rep, 8)
      BY <1>7, <1>8, <1>9, <2>1, SerializedAt
    <2> QED
      BY <1>1, <2>2
  <1>13. SerializeId(m) = bytes
    BY DEF SerializeId, SerializeServer, MQServerMessageType, Id, m, s, t, u, w
  <1> HIDE DEF bytes
  <1>14. IntAt(bytes, 4) = id
    BY <1>1, <1>11, IntRead
  <1>15. SizeTAt(bytes, 8) = num /\ SizeTAt(bytes, 16) = size /\ SizeTAt(bytes, 24) = rep
    BY <1>1, <1>11, <1>12, SizeTRead
  <1>16. DeserializeId(bytes) = m
    BY <1>1, <1>14, <1>15 DEF DeserializeId
  <1> QED
    BY <1>1, <1>10, <1>13, <1>16 DEF IdSize, ServerHeaderSize

\* The ids of a response, one int after the other.
LEMMA IdsWritten ==
  ASSUME NEW ids \in Seq(Int)
  PROVE  LET bytes == [k \in 1..(SizeofInt * Len(ids)) |->
                         Byte(ids[(k - 1) \div SizeofInt + 1], ((k - 1) % SizeofInt) + 1)]
         IN /\ bytes \in Seq(Int) /\ Len(bytes) = SizeofInt * Len(ids)
            /\ \A i \in 1..Len(ids) : HasBytes(bytes, (i - 1) * SizeofInt, ids[i], SizeofInt)
  <1> DEFINE n == Len(ids)
             bytes == [k \in 1..(SizeofInt * Len(ids)) |->
                         Byte(ids[(k - 1) \div SizeofInt + 1], ((k - 1) % SizeofInt) + 1)]
  <1>1. n \in Nat /\ SizeofInt = 4 /\ \A i \in 1..n : ids[i] \in Int
    BY LenProperties DEF SizeofInt
  <1> HIDE DEF n
  <1>2. \A k \in 1..(4 * n) : (k - 1) \div 4 + 1 \in 1..n /\ ((k - 1) % 4) + 1 \in Nat \ {0}
    <2> SUFFICES ASSUME NEW k \in 1..(4 * n)
                 PROVE  (k - 1) \div 4 + 1 \in 1..n /\ ((k - 1) % 4) + 1 \in Nat \ {0}
      OBVIOUS
    <2> DEFINE m == k - 1
    <2>1. m \in Nat /\ m < 4 * n
      BY <1>1
    <2> HIDE DEF m
    <2>2. m \div 4 + 1 \in 1..n /\ (m % 4) + 1 \in Nat \ {0}
      BY <1>1, <2>1
    <2> QED
      BY <2>2 DEF m
  <1>3. bytes = [k \in 1..(4 * n) |-> Byte(ids[(k - 1) \div 4 + 1], ((k - 1) % 4) + 1)]
    BY <1>1 DEF n
  <1> HIDE DEF bytes
  <1>4. \A k \in 1..(4 * n) : bytes[k] \in Int
    <2> SUFFICES ASSUME NEW k \in 1..(4 * n) PROVE bytes[k] \in Int
      OBVIOUS
    <2> DEFINE i == (k - 1) \div 4 + 1
               j == ((k - 1) % 4) + 1
    <2>1. i \in 1..n /\ j \in Nat \ {0}
      BY <1>2
    <2>2. bytes[k] = Byte(ids[i], j)
      BY <1>3
    <2> HIDE DEF i, j
    <2>3. Byte(ids[i], j) \in 0..255
      BY <1>1, <2>1, ByteSteps
    <2>4. \A b \in 0..255 : b \in Int
      OBVIOUS
    <2> QED
      BY <2>2, <2>3, <2>4
  <1>5. 4 * n \in Nat
    BY <1>1
  <1>6. DOMAIN bytes = 1..(4 * n)
    BY <1>3
  <1>7. bytes \in [1..(4 * n) -> Int]
    BY <1>3, <1>4, <1>6
  <1>8. bytes \in Seq(Int)
    BY <1>5, <1>7, SeqDef
  <1>9. Len(bytes) = 4 * n
    BY <1>3, <1>5
  <1>10. ASSUME NEW i \in 1..n PROVE HasBytes(bytes, (i - 1) * 4, ids[i], 4)
    <2> SUFFICES ASSUME NEW j \in 1..4 PROVE bytes[(i - 1) * 4 + j] = Byte(ids[i], j)
      BY DEF HasBytes
    <2> DEFINE k == (i - 1) * 4 + j
    <2>1. k \in 1..(4 * n)
      BY <1>1
    <2> DEFINE m == k - 1
    <2>2. m = 4 * (i - 1) + (j - 1) /\ i - 1 \in Nat /\ j - 1 \in 0..3
      BY <1>1
    <2> HIDE DEF m
    <2>3. m \div 4 = i - 1 /\ m % 4 = j - 1
      BY <2>2
    <2>4. (k - 1) \div 4 + 1 = i /\ ((k - 1) % 4) + 1 = j
      BY <1>1, <2>3 DEF m
    <2> HIDE DEF k
    <2>5. bytes[k] = Byte(ids[(k - 1) \div 4 + 1], ((k - 1) % 4) + 1)
      BY <1>3, <2>1
    <2> QED
      BY <2>4, <2>5 DEF k
  <1> QED
    BY <1>1, <1>8, <1>9, <1>10 DEF n, bytes

LEMMA ResponseArrives ==
  ASSUME NEW id \in Int, Representable(id, SizeofInt),
         NEW ids \in Seq(Int), Representable(Len(ids), SizeofSizeT),
         \A i \in 1..Len(ids) : Representable(ids[i], SizeofInt)
  PROVE  LET m == Response(id, ids)
         IN /\ DeserializeResponse(SerializeResponse(m)) = m
            /\ Len(SerializeResponse(m)) = ResponseSize(ids)
  <1> DEFINE m == Response(id, ids)
             n == Len(ids)
             idBytes == [k \in 1..(SizeofInt * Len(ids)) |->
                           Byte(ids[(k - 1) \div SizeofInt + 1], ((k - 1) % SizeofInt) + 1)]
             s == IntBytes(id)
             t == s \o SizeTBytes(n)
             u == t \o idBytes
             bytes == IntBytes(1) \o u
  <1>1. SizeofInt \in Nat /\ 0 \in Nat /\ SizeofInt = 4 /\ SizeofSizeT \in Nat /\ SizeofSizeT = 8
    BY DEF SizeofInt, SizeofSizeT
  <1>2. n \in Nat /\ \A i \in 1..n : ids[i] \in Int
    BY LenProperties
  <1>3. n \in Int /\ 8 \in Nat
    BY <1>2
  <1>4. /\ idBytes \in Seq(Int) /\ Len(idBytes) = 4 * n
        /\ \A i \in 1..n : HasBytes(idBytes, (i - 1) * 4, ids[i], 4)
    BY <1>1, IdsWritten
  <1>5. SerializeResponse(m) = bytes
    BY DEF SerializeResponse, SerializeServer, MQServerMessageType, Response, m, n, s, t, u, idBytes
  <1> HIDE DEF idBytes
  <1>6. s \in Seq(Int) /\ Len(s) = 4 /\ HasBytes(s, 0, id, 4)
    BY <1>1, Written DEF IntBytes
  <1> HIDE DEF s, n
  <1>7. t \in Seq(Int) /\ Len(t) = 12 /\ HasBytes(t, 4, n, 8)
    <2>1. t \in Seq(Int) /\ Len(t) = Len(s) + 8
      BY <1>1, <1>3, <1>6, WrittenNext DEF SizeTBytes
    <2>2. HasBytes(t, Len(s), n, 8)
      BY <1>1, <1>3, <1>6, WrittenNext DEF SizeTBytes
    <2> QED
      BY <1>6, <2>1, <2>2
  <1>8. HasBytes(t, 0, id, 4)
    <2>1. 0 + 4 <= Len(s)
      BY <1>6
    <2> QED
      BY <1>1, <1>3, <1>6, <2>1, WrittenBefore DEF SizeTBytes
  <1> HIDE DEF t
  <1>9. u \in Seq(Int) /\ Len(u) = 12 + 4 * n
    <2>1. u \in Seq(Int) /\ Len(u) = Len(t) + Len(idBytes)
      BY <1>4, <1>7, ConcatProperties
    <2> QED
      BY <1>4, <1>7, <2>1
  <1>10. HasBytes(u, 0, id, 4) /\ HasBytes(u, 4, n, 8)
    <2>1. 0 + 4 <= Len(t) /\ 4 + 8 <= Len(t)
      BY <1>7
    <2> QED
      BY <1>4, <1>7, <1>8, <2>1, WrittenFirst
  <1>11. ASSUME NEW i \in 1..n PROVE HasBytes(u, 12 + (i - 1) * 4, ids[i], 4)
    <2> DEFINE at == (i - 1) * 4
    <2>1. at \in Nat /\ at + 4 <= Len(idBytes)
      BY <1>2, <1>4
    <2>2. HasBytes(idBytes, at, ids[i], 4)
      BY <1>4
    <2> HIDE DEF at
    <2>3. HasBytes(u, Len(t) + at, ids[i], 4)
      BY <1>4, <1>7, <2>1, <2>2, WrittenBehind
    <2> QED
      BY <1>7, <2>3 DEF at
  <1> HIDE DEF u
  <1>12. 1 \in 0..127
    OBVIOUS
  <1>13. Len(bytes) = 16 + 4 * n
    <2>1. Len(bytes) = SizeofInt + Len(u)
      BY <1>9, <1>12, Serialized
    <2> QED
      BY <1>1, <1>2, <1>9, <2>1
  <1>14. HasBytes(bytes, 4, id, 4) /\ HasBytes(bytes, 8, n, 8)
    <2>1. 0 + 4 <= Len(u) /\ 4 + 8 <= Len(u)
      BY <1>2, <1>9
    <2>2. HasBytes(bytes, SizeofInt + 0, id, 4) /\ HasBytes(bytes, SizeofInt + 4, n, 8)
      BY <1>9, <1>10, <1>12, <2>1, SerializedAt
    <2> QED
      BY <1>1, <2>2
  <1>15. ASSUME NEW i \in 1..n PROVE HasBytes(bytes, 16 + (i - 1) * 4, ids[i], 4)
    <2> DEFINE at == 12 + (i - 1) * 4
    <2>1. at \in Nat /\ at + 4 <= Len(u) /\ 4 + at = 16 + (i - 1) * 4
      BY <1>2, <1>9
    <2>2. HasBytes(u, at, ids[i], 4)
      BY <1>11
    <2> HIDE DEF at
    <2>3. HasBytes(bytes, SizeofInt + at, ids[i], 4)
      BY <1>9, <1>12, <2>1, <2>2, SerializedAt
    <2> QED
      BY <1>1, <2>1, <2>3
  <1> HIDE DEF bytes
  <1>16. IntAt(bytes, 4 + 0) = id /\ SizeTAt(bytes, 8) = n
    BY <1>1, <1>2, <1>14, IntRead, SizeTRead DEF n
  <1>17. ASSUME NEW i \in 1..n PROVE IntAt(bytes, 16 + (i - 1) * 4) = ids[i]
    <2> DEFINE at == 16 + (i - 1) * 4
    <2>1. at \in Nat
      BY <1>2
    <2>2. HasBytes(bytes, at, ids[i], SizeofInt)
      BY <1>1, <1>15
    <2> HIDE DEF at
    <2>3. IntAt(bytes, at) = ids[i]
      BY <1>2, <2>1, <2>2, IntRead DEF n
    <2> QED
      BY <2>3 DEF at
  <1>18. [i \in 1..n |-> IntAt(bytes, 16 + (i - 1) * 4)] = ids
    BY <1>2, <1>17, LenProperties DEF n
  <1>19. DeserializeResponse(bytes) = m
    <2>1. 2 * SizeofInt = 8 /\ SizeofInt = 4 + 0 /\ 2 * SizeofInt + SizeofSizeT = 16
      BY <1>1
    <2>2. DeserializeResponse(bytes) =
            Response(IntAt(bytes, 4 + 0), [i \in 1..n |-> IntAt(bytes, 16 + (i - 1) * 4)])
      BY <1>1, <1>16, <2>1 DEF DeserializeResponse
    <2> QED
      BY <1>16, <1>18, <2>2
  <1> QED
    BY <1>1, <1>5, <1>13, <1>19 DEF ResponseSize, ServerHeaderSize, n
-----------------------------------------------------------------------------
(* The messages of the service *)

LEMMA Divisions ==
  ASSUME NEW a \in Nat, NEW m \in Nat \ {0}, NEW n \in Nat \ {0}, m <= n
  PROVE  a \div n <= a \div m
  <1> DEFINE p == a \div m
             q == a \div n
  <1>1. p \in Nat /\ a < m * p + m
    OBVIOUS
  <1>2. q \in Nat /\ n * q <= a
    OBVIOUS
  <1> HIDE DEF p, q
  <1>3. m * q <= n * q /\ m * q \in Nat /\ m * (p + 1) = m * p + m
    BY <1>1, <1>2
  <1>4. m * q < m * (p + 1)
    BY <1>1, <1>2, <1>3
  <1>5. q < p + 1
    BY <1>1, <1>2, <1>4
  <1> QED
    BY <1>1, <1>2, <1>5 DEF p, q

LEMMA Dividends ==
  ASSUME NEW a \in Int, NEW b \in Int, NEW n \in Nat \ {0}, a <= b
  PROVE  a \div n <= b \div n
  <1> DEFINE p == a \div n
             q == b \div n
  <1>1. p \in Int /\ n * p <= a /\ q \in Int /\ b < n * q + n
    OBVIOUS
  <1> HIDE DEF p, q
  <1>2. n * p < n * (q + 1)
    BY <1>1
  <1>3. p < q + 1
    BY <1>1, <1>2
  <1> QED
    BY <1>1, <1>3 DEF p, q

\* The service's memory, made of the numbers it was given.
Made == \E num, size \in Ints : /\ geometry = Geometry(num, size, InternalRepSize)
                                /\ Constructs(geometry)

\* A request is granted one segment or more, and no more than a worker's share
\* unless it is the one.
LEMMA SegmentsGranted ==
  ASSUME Made, NEW fileSize \in Nat, NEW waiting \in Nat
  PROVE  LET n == SegmentsFor(geometry, fileSize, waiting)
         IN n \in Nat \ {0} /\ (n = 1 \/ n <= Share(geometry, 0) \div InternalRepSize)
  <1> DEFINE rep == InternalRepSize
             total == geometry.num * geometry.size
             share == Share(geometry, waiting)
             bytes == Smaller(share, RoundUp(fileSize))
  <1>1. rep \in Nat \ {0} /\ NumWorkers \in Nat \ {0}
    BY ServiceAssumption
  <1>2. total \in Nat
    <2>1. PICK num \in Ints, size \in Ints : geometry = Geometry(num, size, rep)
                                             /\ Constructs(geometry)
      BY DEF Made
    <2>2. num \in Int /\ size \in Int /\ geometry.num = num /\ geometry.size = size
      BY <2>1, ArgumentsAssumption DEF Ints, Geometry
    <2>3. num = 0 \/ (num > 0 /\ size > 0)
      BY <2>1, <2>2 DEF Constructs
    <2>4. CASE num = 0
      BY <2>2, <2>4
    <2>5. CASE num > 0 /\ size > 0
      BY <2>2, <2>5
    <2> QED
      BY <2>3, <2>4, <2>5
  <1> HIDE DEF rep, total
  <1>3. ASSUME NEW n \in Nat PROVE RoundUp(n) \in Nat
    <2> DEFINE pieces == (n + rep - 1) \div rep
    <2>1. n + rep - 1 \in Nat
      BY <1>1
    <2>2. pieces \in Nat
      BY <1>1, <2>1
    <2>3. RoundUp(n) = pieces * rep
      BY DEF RoundUp, rep
    <2> HIDE DEF pieces
    <2> QED
      BY <1>1, <2>2, <2>3
  <1>4. ASSUME NEW m \in Nat, NEW n \in Nat, m <= n PROVE RoundUp(m) <= RoundUp(n)
    <2> DEFINE p == (m + rep - 1) \div rep
               q == (n + rep - 1) \div rep
    <2>1. p \in Int /\ q \in Int
      BY <1>1
    <2>2. p <= q
      BY <1>1, <1>4, Dividends
    <2>3. RoundUp(m) = p * rep /\ RoundUp(n) = q * rep
      BY DEF RoundUp, rep
    <2> HIDE DEF p, q
    <2> QED
      BY <1>1, <2>1, <2>2, <2>3
  <1>5. share \in Nat /\ Share(geometry, 0) \in Nat /\ share <= Share(geometry, 0)
    <2> DEFINE mine == total \div (waiting + NumWorkers)
               most == total \div NumWorkers
    <2>1. /\ waiting + NumWorkers \in Nat \ {0} /\ 0 + NumWorkers = NumWorkers
          /\ NumWorkers <= waiting + NumWorkers
      BY <1>1
    <2>2. mine \in Nat /\ most \in Nat
      BY <1>1, <1>2, <2>1
    <2>3. mine <= most
      BY <1>1, <1>2, <2>1, Divisions
    <2>4. share = RoundUp(mine) /\ Share(geometry, 0) = RoundUp(most)
      BY <2>1 DEF Share, total
    <2> HIDE DEF mine, most, share
    <2> QED
      BY <1>3, <1>4, <2>2, <2>3, <2>4
  <1> HIDE DEF share
  <1>6. bytes \in Nat /\ bytes <= Share(geometry, 0)
    <2>1. RoundUp(fileSize) \in Nat
      BY <1>3
    <2> QED
      BY <1>5, <2>1 DEF Smaller
  <1>7. SegmentsFor(geometry, fileSize, waiting) = IF bytes < rep THEN 1 ELSE bytes \div rep
    BY DEF SegmentsFor, share, rep
  <1> HIDE DEF bytes
  <1>8. bytes >= rep => bytes \div rep \in Nat \ {0}
    BY <1>1, <1>6
  <1>9. bytes \div rep <= Share(geometry, 0) \div rep
    BY <1>1, <1>5, <1>6, Dividends
  <1>10. bytes < rep \/ bytes >= rep
    BY <1>1, <1>6
  <1> QED
    BY <1>7, <1>8, <1>9, <1>10 DEF rep

\* Segments in ascending order are no more than there are.
LEMMA Ascending ==
  ASSUME NEW n \in Nat \ {0}, NEW m \in Int, NEW ids \in [1..n -> 0..(m - 1)],
         \A j, k \in 1..n : j < k => ids[j] < ids[k]
  PROVE  n <= m
  <1> DEFINE N == {k \in Nat : k + 1 \in 1..n => ids[k + 1] >= k}
  <1>1. 0 \in N
    <2>1. 0 + 1 \in 1..n
      OBVIOUS
    <2> QED
      BY <2>1
  <1>2. ASSUME NEW k \in N PROVE k + 1 \in N
    <2> SUFFICES ASSUME (k + 1) + 1 \in 1..n PROVE ids[(k + 1) + 1] >= k + 1
      OBVIOUS
    <2>1. k \in Nat /\ k + 1 \in 1..n /\ k + 1 < (k + 1) + 1
      OBVIOUS
    <2>2. ids[k + 1] >= k /\ ids[k + 1] < ids[(k + 1) + 1]
      BY <2>1
    <2>3. ids[k + 1] \in Int /\ ids[(k + 1) + 1] \in Int
      BY <2>1
    <2> HIDE DEF N
    <2> QED
      BY <2>1, <2>2, <2>3
  <1>3. N = Nat
    <2> N \in SUBSET Nat
      OBVIOUS
    <2> HIDE DEF N
    <2> QED
      BY <1>1, <1>2, NumbersByInduction
  <1>4. \A k \in Nat : k + 1 \in 1..n => ids[k + 1] >= k
    <2> SUFFICES ASSUME NEW k \in Nat PROVE k \in N
      OBVIOUS
    <2> HIDE DEF N
    <2> QED
      BY <1>3
  <1> HIDE DEF N
  <1>5. n - 1 \in Nat /\ (n - 1) + 1 \in 1..n /\ (n - 1) + 1 = n
    OBVIOUS
  <1>6. ids[n] >= n - 1
    BY <1>4, <1>5
  <1>7. ids[n] \in 0..(m - 1)
    BY <1>5
  <1> QED
    BY <1>6, <1>7

\* What MessagesArrive says of a message.
Arrives(mail) ==
  LET type == mail.message.type
  IN /\ mail.message = CASE type = "ID" -> DeserializeId(mail.bytes)
                         [] type = "REQUEST" -> DeserializeRequest(mail.bytes)
                         [] type = "RESPONSE" -> DeserializeResponse(mail.bytes)
                         [] OTHER -> DeserializeRegistrationQueue(mail.bytes)
     /\ Len(mail.bytes) = mail.size
     /\ mail.size <= (IF type \in {"REQUEST", "RESPONSE"} THEN ClientMsgSize
                      ELSE RegistrationMsgSize)

LEMMA MailArrives ==
  ASSUME NEW message, NEW bytes
  PROVE  LET mail == Mail(message, bytes, Len(bytes))
         IN /\ /\ message.type = "ID" /\ message = DeserializeId(bytes)
               /\ Len(bytes) <= RegistrationMsgSize
               => Arrives(mail)
            /\ /\ message.type = "REQUEST" /\ message = DeserializeRequest(bytes)
               /\ Len(bytes) <= ClientMsgSize
               => Arrives(mail)
            /\ /\ message.type = "RESPONSE" /\ message = DeserializeResponse(bytes)
               /\ Len(bytes) <= ClientMsgSize
               => Arrives(mail)
            /\ /\ message.type \in {"REGISTRATION", "QUEUE_CREATION", "QUEUE_DELETION"}
               /\ message = DeserializeRegistrationQueue(bytes)
               /\ Len(bytes) <= RegistrationMsgSize
               => Arrives(mail)
  <1> DEFINE mail == Mail(message, bytes, Len(bytes))
             type == message.type
  <1>1. mail.message = message /\ mail.bytes = bytes /\ mail.size = Len(bytes)
    BY DEF Mail
  <1>2. Arrives(mail) <=>
          /\ message = CASE type = "ID" -> DeserializeId(bytes)
                         [] type = "REQUEST" -> DeserializeRequest(bytes)
                         [] type = "RESPONSE" -> DeserializeResponse(bytes)
                         [] OTHER -> DeserializeRegistrationQueue(bytes)
          /\ Len(bytes) <= (IF type \in {"REQUEST", "RESPONSE"} THEN ClientMsgSize
                            ELSE RegistrationMsgSize)
    BY <1>1, Zenon DEF Arrives
  <1> HIDE DEF mail, type
  <1>3. type = "ID" /\ message = DeserializeId(bytes) /\ Len(bytes) <= RegistrationMsgSize
        => Arrives(mail)
    BY <1>2, Zenon
  <1>4. type = "REQUEST" /\ message = DeserializeRequest(bytes) /\ Len(bytes) <= ClientMsgSize
        => Arrives(mail)
    BY <1>2, Zenon
  <1>5. type = "RESPONSE" /\ message = DeserializeResponse(bytes) /\ Len(bytes) <= ClientMsgSize
        => Arrives(mail)
    BY <1>2, Zenon
  <1>6. /\ type \in {"REGISTRATION", "QUEUE_CREATION", "QUEUE_DELETION"}
        /\ message = DeserializeRegistrationQueue(bytes) /\ Len(bytes) <= RegistrationMsgSize
        => Arrives(mail)
    BY <1>2, Zenon
  <1> QED
    BY <1>3, <1>4, <1>5, <1>6 DEF mail, type

\* The number of a segment travels as an int.
Started == program = "service" /\ pc \notin ParserPlaces \cup {"aborted"}
IdsFit == Started => Representable(NumInternalSegments(geometry), SizeofInt)

\* The segments that were granted are different ones.
GrantedOnce ==
  /\ granted \in Seq(0..(NumInternalSegments(geometry) - 1)) /\ Len(granted) > 0
  /\ \A j, k \in DOMAIN granted : j < k => granted[j] < granted[k]

\* Where the started service is.
ServicePlaces == {"serving", "registering", "numbered", "attached", "registered", "asked",
                  "answered", "too large", "exchanging", "leaving", "left"}

\* What a started service and its client know of each other.
Introduced ==
  /\ pc \in ServicePlaces /\ Made
  /\ pc \in {"registering", "numbered", "attached", "asked", "leaving"} => Arrives(wire)
  /\ pc \in {"serving", "registered", "too large", "exchanging", "left"} => wire = None
  /\ pc = "numbered" => \E id \in ClientIds :
       wire.message = Id(id, geometry.num, geometry.size, geometry.rep)
  /\ pc \notin {"serving", "registering", "numbered"} => clientId \in ClientIds /\ view = geometry
  /\ pc = "asked" => \E n \in FileSizes : wire.message = Request(0, n)
  /\ pc \in {"answered", "exchanging"} => GrantedOnce

\* And of those segments.
Agreed ==
  /\ pc = "answered" => wire.message = Response(0, granted) /\ Arrives(wire)
  /\ pc = "exchanging" => received = granted
  /\ pc = "too large" => ResponseSize(<< >>)
       + SizeofInt * (Share(geometry, 0) \div InternalRepSize) > ClientMsgSize

MessagesInv ==
  /\ program \in {"app", "service"}
  /\ ~Started => wire = None
  /\ Started => Introduced /\ (IdsFit => Agreed)

LEMMA TypesSent ==
  /\ Registration.type = "REGISTRATION"
  /\ \A i, p : QueueCreation(i, p).type = "QUEUE_CREATION"
  /\ \A i : QueueDeletion(i).type = "QUEUE_DELETION"
  /\ \A i, n : Request(i, n).type = "REQUEST"
  /\ \A i, n, s, r : Id(i, n, s, r).type = "ID"
  /\ \A i, s : Response(i, s).type = "RESPONSE"
  BY DEF Registration, QueueCreation, QueueDeletion, Request, Id, Response

LEMMA Room == /\ IdSize = 32 /\ RegistrationSize = 4 /\ QueueCreationSize = 12
              /\ QueueDeletionSize = 8 /\ RequestSize = 16
              /\ \A s : ResponseSize(s) = 16 + 4 * Len(s)
              /\ RegistrationMsgSize >= 32 /\ ClientMsgSize >= 20
  <1>1. /\ IdSize = 32 /\ RegistrationSize = 4 /\ QueueCreationSize = 12
        /\ QueueDeletionSize = 8 /\ RequestSize = 16
    BY DEF IdSize, RegistrationSize, QueueCreationSize, QueueDeletionSize, RequestSize,
           ServerHeaderSize, ClientHeaderSize, SizeofInt, SizeofSizeT
  <1>2. \A s : ResponseSize(s) = 16 + 4 * Len(s)
    BY DEF ResponseSize, ServerHeaderSize, SizeofInt, SizeofSizeT
  <1>3. Len(<<0>>) = 1
    OBVIOUS
  <1> QED
    BY <1>1, <1>2, <1>3, ServiceAssumption

LEMMA RegistersArrive == ASSUME Registers PROVE Arrives(wire')
  <1> DEFINE bytes == SerializeRegistration(Registration)
  <1>1. wire' = Mail(Registration, bytes, Len(bytes)) /\ Len(bytes) = RegistrationSize
    BY RegistrationArrives DEF Registers
  <1>2. DeserializeRegistrationQueue(bytes) = Registration
    BY RegistrationArrives
  <1> HIDE DEF bytes
  <1>3. Len(bytes) <= RegistrationMsgSize
    BY <1>1, Room, ServiceAssumption
  <1> QED
    BY <1>1, <1>2, <1>3, TypesSent, MailArrives

LEMMA IntsFit == \A v \in Ints : Representable(v, SizeofSizeT)
  <1> SUFFICES ASSUME NEW v \in Ints PROVE Representable(v, SizeofSizeT)
    OBVIOUS
  <1>1. /\ IntMax \in Int /\ -(IntMax + 1) \in Int /\ v \in Int
        /\ -(IntMax + 1) <= v /\ v <= IntMax /\ SizeofSizeT \in Nat \ {0}
    BY ArgumentsAssumption DEF Ints, SizeofSizeT
  <1>2. Representable(IntMax, SizeofSizeT) /\ Representable(-(IntMax + 1), SizeofSizeT)
    BY ServiceAssumption
  <1> QED
    BY <1>1, <1>2, RepresentableBetween

LEMMA MadeFits ==
  ASSUME Made
  PROVE  /\ geometry.num \in Int /\ geometry.size \in Int /\ geometry.rep = InternalRepSize
         /\ Representable(geometry.num, SizeofSizeT) /\ Representable(geometry.size, SizeofSizeT)
         /\ geometry = Geometry(geometry.num, geometry.size, geometry.rep)
  <1>1. PICK num \in Ints, size \in Ints : geometry = Geometry(num, size, InternalRepSize)
    BY DEF Made
  <1>2. num \in Int /\ size \in Int
    BY ArgumentsAssumption DEF Ints
  <1>3. geometry.num = num /\ geometry.size = size /\ geometry.rep = InternalRepSize
    BY <1>1 DEF Geometry
  <1> QED
    BY <1>1, <1>2, <1>3, IntsFit

LEMMA AnswersIdArrive ==
  ASSUME Made, AnswersId
  PROVE  /\ \E id \in ClientIds :
              wire'.message = Id(id, geometry.num, geometry.size, geometry.rep)
         /\ Arrives(wire')
  <1>1. PICK id \in ClientIds :
          LET m == Id(id, geometry.num, geometry.size, geometry.rep)
          IN wire' = Mail(m, SerializeId(m), IdSize)
    BY DEF AnswersId
  <1> DEFINE m == Id(id, geometry.num, geometry.size, geometry.rep)
             bytes == SerializeId(m)
  <1>2. id \in Int /\ Representable(id, SizeofInt)
    BY ServiceAssumption
  <1>3. Representable(InternalRepSize, SizeofSizeT) /\ InternalRepSize \in Int
    BY ServiceAssumption
  <1>4. DeserializeId(bytes) = m /\ Len(bytes) = IdSize
    BY <1>2, <1>3, MadeFits, IdArrives
  <1>5. wire' = Mail(m, bytes, Len(bytes)) /\ m.type = "ID"
    BY <1>1, <1>4, TypesSent
  <1>6. wire'.message = m
    BY <1>5 DEF Mail
  <1> HIDE DEF bytes, m
  <1>7. Len(bytes) <= RegistrationMsgSize
    BY <1>4, Room, ServiceAssumption
  <1>8. Arrives(wire')
    BY <1>4, <1>5, <1>7, MailArrives
  <1> QED
    BY <1>6, <1>8 DEF m

LEMMA Received ==
  ASSUME NEW mail, Arrives(mail)
  PROVE  /\ mail.message.type = "ID" => DeserializeId(mail.bytes) = mail.message
         /\ mail.message.type = "REQUEST" => DeserializeRequest(mail.bytes) = mail.message
         /\ mail.message.type = "RESPONSE" => DeserializeResponse(mail.bytes) = mail.message
  <1> DEFINE type == mail.message.type
  <1>1. mail.message = CASE type = "ID" -> DeserializeId(mail.bytes)
                         [] type = "REQUEST" -> DeserializeRequest(mail.bytes)
                         [] type = "RESPONSE" -> DeserializeResponse(mail.bytes)
                         [] OTHER -> DeserializeRegistrationQueue(mail.bytes)
    BY DEF Arrives
  <1> HIDE DEF type
  <1>2. type = "ID" => DeserializeId(mail.bytes) = mail.message
    BY <1>1, Zenon
  <1>3. type = "REQUEST" => DeserializeRequest(mail.bytes) = mail.message
    BY <1>1, Zenon
  <1>4. type = "RESPONSE" => DeserializeResponse(mail.bytes) = mail.message
    BY <1>1, Zenon
  <1> QED
    BY <1>2, <1>3, <1>4 DEF type

LEMMA AttachesArrive ==
  ASSUME Made, NEW id \in ClientIds, Attaches, Arrives(wire),
         wire.message = Id(id, geometry.num, geometry.size, geometry.rep)
  PROVE  clientId' = id /\ view' = geometry /\ Arrives(wire')
  <1> DEFINE m == DeserializeId(wire.bytes)
             announcement == QueueCreation(m.clientId, 64)
             bytes == SerializeQueueCreation(announcement)
  <1>1. m = Id(id, geometry.num, geometry.size, geometry.rep)
    BY Received, TypesSent
  <1>2. /\ m.clientId = id /\ m.numShmSegments = geometry.num
        /\ m.shmSegmentSize = geometry.size /\ m.internalRepSize = geometry.rep
    BY <1>1 DEF Id
  <1>3. /\ clientId' = m.clientId
        /\ view' = Geometry(m.numShmSegments, m.shmSegmentSize, m.internalRepSize)
        /\ wire' = Mail(announcement, bytes, QueueCreationSize)
    BY DEF Attaches
  <1> HIDE DEF m
  <1>4. clientId' = id /\ view' = geometry
    BY <1>2, <1>3, MadeFits
  <1>5. id \in Int /\ Representable(id, SizeofInt)
    BY ServiceAssumption
  <1>6. 64 \in Int /\ Representable(64, SizeofInt)
    BY SmallRepresentable
  <1>7. DeserializeRegistrationQueue(bytes) = announcement /\ Len(bytes) = QueueCreationSize
    BY <1>2, <1>5, <1>6, QueueCreationArrives
  <1>8. announcement.type = "QUEUE_CREATION"
    BY TypesSent
  <1> HIDE DEF bytes, announcement
  <1>9. Len(bytes) <= RegistrationMsgSize
    BY <1>7, Room, ServiceAssumption
  <1>10. wire' = Mail(announcement, bytes, Len(bytes))
    BY <1>3, <1>7
  <1>11. Arrives(wire')
    BY <1>7, <1>8, <1>9, <1>10, MailArrives
  <1> QED
    BY <1>4, <1>11

LEMMA AsksArrive ==
  ASSUME Asks
  PROVE  (\E n \in FileSizes : wire'.message = Request(0, n)) /\ Arrives(wire')
  <1>1. PICK n \in FileSizes :
          LET m == Request(0, n) IN wire' = Mail(m, SerializeRequest(m), RequestSize)
    BY DEF Asks
  <1> DEFINE m == Request(0, n)
             bytes == SerializeRequest(m)
  <1>2. n \in Int /\ Representable(n, SizeofSizeT)
    BY ServiceAssumption
  <1>3. 0 \in Int /\ Representable(0, SizeofInt)
    BY SmallRepresentable
  <1>4. DeserializeRequest(bytes) = m /\ Len(bytes) = RequestSize
    BY <1>2, <1>3, RequestArrives
  <1>5. wire' = Mail(m, bytes, Len(bytes)) /\ m.type = "REQUEST"
    BY <1>1, <1>4, TypesSent
  <1>6. wire'.message = m
    BY <1>5 DEF Mail
  <1> HIDE DEF bytes, m
  <1>7. Len(bytes) <= ClientMsgSize
    BY <1>4, Room, ServiceAssumption
  <1>8. Arrives(wire')
    BY <1>4, <1>5, <1>7, MailArrives
  <1> QED
    BY <1>6, <1>8 DEF m

\* The segments of a request are different ones, and their numbers fit.
LEMMA IdsGranted ==
  ASSUME Made, Representable(NumInternalSegments(geometry), SizeofInt),
         NEW fileSize \in Nat, NEW waiting \in Nat,
         NEW ids \in [1..SegmentsFor(geometry, fileSize, waiting)
                        -> 0..(NumInternalSegments(geometry) - 1)],
         \A j, k \in DOMAIN ids : j < k => ids[j] < ids[k]
  PROVE  /\ ids \in Seq(Int) /\ Len(ids) = SegmentsFor(geometry, fileSize, waiting)
         /\ Representable(Len(ids), SizeofSizeT)
         /\ \A i \in 1..Len(ids) : Representable(ids[i], SizeofInt)
  <1> DEFINE n == SegmentsFor(geometry, fileSize, waiting)
             m == NumInternalSegments(geometry)
  <1>1. n \in Nat \ {0}
    BY SegmentsGranted
  <1>2. m \in Int
    BY MadeFits, ServiceAssumption DEF NumInternalSegments
  <1>3. Representable(0, SizeofInt) /\ SizeofInt \in Nat \ {0} /\ 0 \in Int
    BY SmallRepresentable DEF SizeofInt
  <1>4. DOMAIN ids = 1..n /\ \A k \in 1..n : ids[k] \in 0..(m - 1)
    OBVIOUS
  <1>5. ids \in [1..n -> 0..(m - 1)] /\ \A j, k \in 1..n : j < k => ids[j] < ids[k]
    BY <1>4
  <1>6. Representable(m, SizeofInt)
    OBVIOUS
  <1> HIDE DEF n, m
  <1>7. n <= m
    BY <1>1, <1>2, <1>5, Ascending
  <1>8. ids \in Seq(Int) /\ Len(ids) = n
    <2>1. ids \in [1..n -> Int]
      BY <1>2, <1>5
    <2> QED
      BY <1>1, <2>1, SeqDef, LenProperties
  <1>9. ASSUME NEW v \in Int, 0 <= v, v <= m PROVE Representable(v, SizeofInt)
    BY <1>2, <1>3, <1>6, <1>9, RepresentableBetween
  <1>10. Representable(n, SizeofSizeT)
    BY <1>1, <1>7, <1>9, Representable4Is8
  <1>11. ASSUME NEW i \in 1..n PROVE Representable(ids[i], SizeofInt)
    <2>1. ids[i] \in Int /\ 0 <= ids[i] /\ ids[i] <= m
      BY <1>2, <1>4
    <2> QED
      BY <1>9, <2>1
  <1> QED
    BY <1>8, <1>10, <1>11 DEF n

LEMMA AnswersArrive ==
  ASSUME Made, Representable(NumInternalSegments(geometry), SizeofInt), Answers,
         NEW fileSize \in FileSizes, wire.message = Request(0, fileSize), Arrives(wire)
  PROVE  /\ pc' = "answered" => wire'.message = Response(0, granted') /\ Arrives(wire')
         /\ pc' \in {"answered", "too large"}
         /\ pc' = "too large" => wire' = None /\ ResponseSize(<< >>)
              + SizeofInt * (Share(geometry, 0) \div InternalRepSize) > ClientMsgSize
  <1> DEFINE request == DeserializeRequest(wire.bytes)
             pool == 0..(NumInternalSegments(geometry) - 1)
  <1>1. request = Request(0, fileSize)
    BY Received, TypesSent
  <1>2. request.requestId = 0 /\ request.fileSize = fileSize
    BY <1>1 DEF Request
  <1> DEFINE Grants(ids) ==
               LET m == Response(request.requestId, ids)
               IN /\ \A j, k \in DOMAIN ids : j < k => ids[j] < ids[k]
                  /\ granted' = ids
                  /\ \/ /\ ResponseSize(ids) <= ClientMsgSize
                        /\ Step("asked", "answered")
                        /\ wire' = Mail(m, SerializeResponse(m), ResponseSize(ids))
                     \/ /\ ResponseSize(ids) > ClientMsgSize
                        /\ Step("asked", "too large")
                        /\ wire' = None
  <1>3. PICK waiting \in 0..MaxWaiting :
          \E ids \in [1..SegmentsFor(geometry, request.fileSize, waiting) -> pool] : Grants(ids)
    BY DEF Answers
  <1>4. PICK ids \in [1..SegmentsFor(geometry, request.fileSize, waiting) -> pool] : Grants(ids)
    BY <1>3
  <1> HIDE DEF request, pool
  <1> DEFINE m == Response(0, ids)
             bytes == SerializeResponse(m)
             n == SegmentsFor(geometry, fileSize, waiting)
  <1>5. fileSize \in Nat /\ waiting \in Nat
    BY ServiceAssumption
  <1>6. ids \in [1..n -> 0..(NumInternalSegments(geometry) - 1)]
    BY <1>2 DEF pool
  <1>7. \A j, k \in DOMAIN ids : j < k => ids[j] < ids[k]
    BY <1>4
  <1>8. /\ ids \in Seq(Int) /\ Len(ids) = n /\ Representable(Len(ids), SizeofSizeT)
        /\ \A i \in 1..Len(ids) : Representable(ids[i], SizeofInt)
    BY <1>5, <1>6, <1>7, IdsGranted
  <1>9. Representable(0, SizeofInt) /\ 0 \in Int
    BY SmallRepresentable
  <1>10. DeserializeResponse(bytes) = m /\ Len(bytes) = ResponseSize(ids)
    BY <1>8, <1>9, ResponseArrives
  <1>11. m.type = "RESPONSE"
    BY TypesSent
  <1>12. CASE /\ ResponseSize(ids) <= ClientMsgSize /\ Step("asked", "answered")
              /\ wire' = Mail(m, bytes, ResponseSize(ids))
    <2>1. wire' = Mail(m, bytes, Len(bytes)) /\ Len(bytes) <= ClientMsgSize
      BY <1>10, <1>12
    <2>2. wire'.message = m
      BY <2>1 DEF Mail
    <2>3. wire'.message = Response(0, granted')
      BY <1>4, <2>2
    <2> HIDE DEF m, bytes
    <2>4. Arrives(wire')
      BY <1>10, <1>11, <2>1, MailArrives
    <2> QED
      BY <1>12, <2>3, <2>4 DEF Step
  <1>13. CASE ResponseSize(ids) > ClientMsgSize /\ Step("asked", "too large") /\ wire' = None
    <2> DEFINE most == Share(geometry, 0) \div InternalRepSize
    <2>1. n \in Nat \ {0} /\ (n = 1 \/ n <= most)
      BY <1>5, SegmentsGranted
    <2>2. ResponseSize(ids) = 16 + 4 * n /\ ResponseSize(<< >>) = 16 /\ SizeofInt = 4
      <3>1. ResponseSize(ids) = 16 + 4 * Len(ids) /\ ResponseSize(<< >>) = 16 + 4 * Len(<< >>)
        BY ONLY Room
      <3>2. Len(<< >>) = 0
        OBVIOUS
      <3> QED
        BY <1>8, <3>1, <3>2 DEF SizeofInt
    <2>3. most \in Int
      <3>1. InternalRepSize \in Nat \ {0} /\ NumWorkers \in Nat \ {0}
        BY ServiceAssumption
      <3>2. geometry.num * geometry.size \in Int
        BY MadeFits
      <3> DEFINE x == (geometry.num * geometry.size) \div (0 + NumWorkers)
      <3>3. x \in Int
        BY <3>1, <3>2
      <3> HIDE DEF x
      <3>4. RoundUp(x) \in Int
        BY <3>1, <3>3 DEF RoundUp
      <3>5. Share(geometry, 0) = RoundUp(x)
        BY DEF Share, x
      <3> QED
        BY <3>1, <3>4, <3>5
    <2> HIDE DEF most, n
    <2>4. 16 + 4 * most > ClientMsgSize
      <3>1. ClientMsgSize \in Nat /\ ClientMsgSize >= 20
        BY Room, ServiceAssumption
      <3>2. 16 + 4 * n > ClientMsgSize
        BY <1>13, <2>2
      <3> QED
        BY <2>1, <2>3, <3>1, <3>2
    <2> QED
      BY <1>13, <2>2, <2>4 DEF Step, most
  <1> QED
    BY <1>2, <1>4, <1>12, <1>13

LEMMA LeavesArrive == ASSUME Leaves, clientId \in ClientIds PROVE Arrives(wire')
  <1> DEFINE m == QueueDeletion(clientId)
             bytes == SerializeQueueDeletion(m)
  <1>1. clientId \in Int /\ Representable(clientId, SizeofInt)
    BY ServiceAssumption
  <1>2. DeserializeRegistrationQueue(bytes) = m /\ Len(bytes) = QueueDeletionSize
    BY <1>1, QueueDeletionArrives
  <1>3. wire' = Mail(m, bytes, Len(bytes)) /\ m.type = "QUEUE_DELETION"
    BY <1>2, TypesSent DEF Leaves
  <1> HIDE DEF m, bytes
  <1>4. Len(bytes) <= RegistrationMsgSize
    BY <1>2, Room, ServiceAssumption
  <1> QED
    BY <1>2, <1>3, <1>4, MailArrives

LEMMA GrantsOnce ==
  ASSUME Made, Answers, NEW fileSize \in FileSizes, wire.message = Request(0, fileSize),
         Arrives(wire)
  PROVE  /\ granted' \in Seq(0..(NumInternalSegments(geometry) - 1)) /\ Len(granted') > 0
         /\ \A j, k \in DOMAIN granted' : j < k => granted'[j] < granted'[k]
         /\ pc' \in {"answered", "too large"} /\ (pc' = "too large" => wire' = None)
  <1> DEFINE request == DeserializeRequest(wire.bytes)
             pool == 0..(NumInternalSegments(geometry) - 1)
             Grants(ids) ==
               LET m == Response(request.requestId, ids)
               IN /\ \A j, k \in DOMAIN ids : j < k => ids[j] < ids[k]
                  /\ granted' = ids
                  /\ \/ /\ ResponseSize(ids) <= ClientMsgSize
                        /\ Step("asked", "answered")
                        /\ wire' = Mail(m, SerializeResponse(m), ResponseSize(ids))
                     \/ /\ ResponseSize(ids) > ClientMsgSize
                        /\ Step("asked", "too large")
                        /\ wire' = None
  <1>1. request.fileSize = fileSize
    BY Received, TypesSent DEF Request
  <1>2. PICK waiting \in 0..MaxWaiting :
          \E ids \in [1..SegmentsFor(geometry, request.fileSize, waiting) -> pool] : Grants(ids)
    BY DEF Answers
  <1>3. PICK ids \in [1..SegmentsFor(geometry, request.fileSize, waiting) -> pool] : Grants(ids)
    BY <1>2
  <1>4. granted' = ids /\ \A j, k \in DOMAIN ids : j < k => ids[j] < ids[k]
    BY <1>3
  <1>5. pc' \in {"answered", "too large"} /\ (pc' = "too large" => wire' = None)
    BY <1>3 DEF Step
  <1> HIDE DEF request, pool, Grants
  <1> DEFINE n == SegmentsFor(geometry, fileSize, waiting)
  <1>6. n \in Nat \ {0}
    <2>1. fileSize \in Nat /\ waiting \in Nat
      BY ServiceAssumption
    <2> QED
      BY <2>1, SegmentsGranted
  <1>7. ids \in [1..n -> pool]
    BY <1>1, <1>3
  <1> HIDE DEF n
  <1>8. ids \in Seq(pool) /\ Len(ids) = n
    BY <1>6, <1>7, SeqDef, LenProperties
  <1>9. Len(ids) > 0
    BY <1>6, <1>8
  <1>10. \A j, k \in DOMAIN granted' : j < k => granted'[j] < granted'[k]
    BY <1>4
  <1> QED
    BY <1>4, <1>5, <1>8, <1>9, <1>10 DEF pool

LEMMA GrantedArrives ==
  ASSUME Granted, wire.message = Response(0, granted), Arrives(wire)
  PROVE  received' = granted
  <1>1. DeserializeResponse(wire.bytes) = Response(0, granted)
    BY Received, TypesSent
  <1>2. received' = DeserializeResponse(wire.bytes).shmSegmentIds
    BY DEF Granted
  <1> QED
    BY <1>1, <1>2 DEF Response

\* A step of a started service leaves its memory as it is.
LEMMA MadeSame ==
  ASSUME geometry' = geometry
  PROVE  /\ Made' = Made
         /\ Representable(NumInternalSegments(geometry), SizeofInt)'
              = Representable(NumInternalSegments(geometry), SizeofInt)
         /\ (Share(geometry, 0) \div InternalRepSize)' = Share(geometry, 0) \div InternalRepSize
  <1>1. Made' = Made
    BY DEF Made
  <1>2. NumInternalSegments(geometry)' = NumInternalSegments(geometry)
    BY DEF NumInternalSegments
  <1>3. Share(geometry, 0)' = Share(geometry, 0)
    BY DEF Share
  <1> QED
    BY <1>1, <1>2, <1>3

LEMMA GrantedSame ==
  ASSUME geometry' = geometry, granted' = granted, GrantedOnce
  PROVE  GrantedOnce'
  <1>1. NumInternalSegments(geometry)' = NumInternalSegments(geometry)
    BY DEF NumInternalSegments
  <1>2. granted' \in Seq(0..(NumInternalSegments(geometry) - 1)) /\ Len(granted') > 0
    BY DEF GrantedOnce
  <1>3. \A j, k \in DOMAIN granted' : j < k => granted'[j] < granted'[k]
    BY DEF GrantedOnce
  <1> QED
    BY <1>1, <1>2, <1>3 DEF GrantedOnce

LEMMA MessagesInitially == Init => MessagesInv
  BY DEF Init, ParserInit, ServiceInit, MessagesInv, Started, ParserPlaces

LEMMA LaunchMakes ==
  ASSUME ServiceInv, MessagesInv, program = "service", Launch, program' = program
  PROVE  MessagesInv'
  <1> DEFINE num == Get(ServiceArguments, "--n_sms")
             size == Get(ServiceArguments, "--sms_size")
             g == Geometry(num, size, InternalRepSize)
  <1>1. num \in Ints /\ size \in Ints
    BY NumbersGot DEF ServiceInv, Launch
  <1>2. /\ \/ Constructs(g) /\ pc' = "serving" /\ geometry' = g
           \/ pc' = "aborted"
        /\ wire' = wire /\ pc = "parsed"
    BY DEF Launch
  <1>3. wire' = None
    BY <1>2 DEF MessagesInv, Started, ParserPlaces
  <1>4. CASE pc' = "aborted"
    BY <1>3, <1>4 DEF MessagesInv, Started
  <1>5. CASE Constructs(g) /\ pc' = "serving" /\ geometry' = g
    <2> HIDE DEF num, size
    <2>1. \E n, s \in Ints : geometry' = Geometry(n, s, InternalRepSize) /\ Constructs(geometry')
      BY <1>1, <1>5
    <2>2. Made'
      BY <2>1 DEF Made
    <2>3. Introduced'
      BY <1>3, <1>5, <2>2 DEF Introduced, ServicePlaces
    <2>4. Agreed'
      BY <1>5 DEF Agreed
    <2> QED
      BY <1>3, <1>5, <2>3, <2>4 DEF MessagesInv, Started, ParserPlaces
  <1> QED
    BY <1>2, <1>4, <1>5

\* A step of a started service, by what it does to what is known.
LEMMA MessagesKept ==
  ASSUME MessagesInv, program' = program, Started, Started', geometry' = geometry,
         Made => /\ Introduced => Introduced'
                 /\ Introduced /\ Representable(NumInternalSegments(geometry), SizeofInt)
                    /\ Agreed => Agreed'
  PROVE  MessagesInv'
  <1>1. Made /\ Introduced
    BY DEF MessagesInv, Introduced
  <1>2. IdsFit' => Representable(NumInternalSegments(geometry), SizeofInt)
    BY MadeSame DEF IdsFit
  <1>3. IdsFit' => Agreed'
    <2>1. IdsFit' => IdsFit
      BY <1>2 DEF IdsFit
    <2> QED
      BY <1>1, <1>2, <2>1 DEF MessagesInv
  <1> QED
    BY <1>1, <1>3 DEF MessagesInv

LEMMA MovesOn ==
  ASSUME NEW from, NEW to, Step(from, to), from \in ServicePlaces, to \in ServicePlaces,
         program = "service", program' = program
  PROVE  Started /\ Started' /\ pc = from /\ pc' = to
  BY DEF Step, Started, ServicePlaces, ParserPlaces

LEMMA MessagesMove ==
  ASSUME MessagesInv, program = "service", program' = program,
         \/ Registers \/ AnswersId \/ Attaches \/ Announced \/ Asks \/ Answers \/ Granted
         \/ Leaves \/ Left \/ \E segments : Writes(segments)
  PROVE  MessagesInv'
  <1>1. CASE Registers
    <2>1. /\ pc = "serving" /\ pc' = "registering" /\ Started /\ Started'
          /\ geometry' = geometry
      BY <1>1, MovesOn DEF Registers, ServicePlaces
    <2>2. Arrives(wire')
      BY <1>1, RegistersArrive
    <2>3. Made => Introduced'
      BY <2>1, <2>2, MadeSame DEF Introduced, Arrives, ServicePlaces
    <2>4. Agreed'
      BY <2>1 DEF Agreed
    <2> QED
      BY <2>1, <2>3, <2>4, MessagesKept
  <1>2. CASE AnswersId
    <2>1. /\ pc = "registering" /\ pc' = "numbered" /\ Started /\ Started'
          /\ geometry' = geometry
      BY <1>2, MovesOn DEF AnswersId, ServicePlaces
    <2>2. Made => /\ \E id \in ClientIds :
                       wire'.message = Id(id, geometry'.num, geometry'.size, geometry'.rep)
                  /\ Arrives(wire')
      BY <1>2, <2>1, AnswersIdArrive
    <2>3. Made => Introduced'
      BY <2>1, <2>2, MadeSame DEF Introduced, Arrives, ServicePlaces
    <2>4. Agreed'
      BY <2>1 DEF Agreed
    <2> QED
      BY <2>1, <2>3, <2>4, MessagesKept
  <1>3. CASE Attaches
    <2>1. /\ pc = "numbered" /\ pc' = "attached" /\ Started /\ Started'
          /\ geometry' = geometry
      BY <1>3, MovesOn DEF Attaches, ServicePlaces
    <2>2. ASSUME Introduced PROVE Introduced'
      <3>1. PICK id \in ClientIds :
              wire.message = Id(id, geometry.num, geometry.size, geometry.rep)
        BY <2>1, <2>2 DEF Introduced
      <3>2. Made /\ Arrives(wire)
        BY <2>1, <2>2 DEF Introduced
      <3>3. clientId' = id /\ view' = geometry /\ Arrives(wire')
        BY <1>3, <3>1, <3>2, AttachesArrive
      <3> QED
        BY <2>1, <3>2, <3>3, MadeSame DEF Introduced, Arrives, ServicePlaces
    <2>3. Agreed'
      BY <2>1 DEF Agreed
    <2> QED
      BY <2>1, <2>2, <2>3, MessagesKept
  <1>4. CASE Announced
    <2>1. /\ pc = "attached" /\ pc' = "registered" /\ Started /\ Started'
          /\ geometry' = geometry /\ clientId' = clientId /\ view' = view /\ wire' = None
      BY <1>4, MovesOn DEF Announced, ServicePlaces
    <2>2. Introduced => Introduced'
      BY <2>1, MadeSame DEF Introduced, ServicePlaces
    <2>3. Agreed'
      BY <2>1 DEF Agreed
    <2> QED
      BY <2>1, <2>2, <2>3, MessagesKept
  <1>5. CASE Asks
    <2>1. /\ pc = "registered" /\ pc' = "asked" /\ Started /\ Started'
          /\ geometry' = geometry /\ clientId' = clientId /\ view' = view
      BY <1>5, MovesOn DEF Asks, ServicePlaces
    <2>2. (\E n \in FileSizes : wire'.message = Request(0, n)) /\ Arrives(wire')
      BY <1>5, AsksArrive
    <2>3. Introduced => Introduced'
      BY <2>1, <2>2, MadeSame DEF Introduced, Arrives, ServicePlaces
    <2>4. Agreed'
      BY <2>1 DEF Agreed
    <2> QED
      BY <2>1, <2>3, <2>4, MessagesKept
  <1>6. CASE Answers
    <2>1. /\ pc = "asked" /\ pc' \in {"answered", "too large"} /\ Started /\ Started'
          /\ geometry' = geometry /\ clientId' = clientId /\ view' = view
      <3>1. Step("asked", "answered") \/ Step("asked", "too large")
        BY <1>6 DEF Answers
      <3>2. geometry' = geometry /\ clientId' = clientId /\ view' = view
        BY <1>6 DEF Answers
      <3> QED
        BY <3>1, <3>2, MovesOn DEF ServicePlaces
    <2>2. ASSUME Introduced PROVE \E n \in FileSizes : wire.message = Request(0, n)
      BY <2>1, <2>2 DEF Introduced
    <2>3. ASSUME Introduced PROVE Introduced'
      <3>1. PICK n \in FileSizes : wire.message = Request(0, n)
        BY <2>2, <2>3
      <3>2. Made /\ Arrives(wire)
        BY <2>1, <2>3 DEF Introduced
      <3>3. /\ granted' \in Seq(0..(NumInternalSegments(geometry) - 1)) /\ Len(granted') > 0
            /\ \A j, k \in DOMAIN granted' : j < k => granted'[j] < granted'[k]
            /\ pc' = "too large" => wire' = None
        BY <1>6, <3>1, <3>2, GrantsOnce
      <3>4. GrantedOnce'
        <4>1. NumInternalSegments(geometry)' = NumInternalSegments(geometry)
          BY <2>1 DEF NumInternalSegments
        <4> QED
          BY <3>3, <4>1 DEF GrantedOnce
      <3> QED
        BY <2>1, <2>3, <3>3, <3>4, MadeSame DEF Introduced, ServicePlaces
    <2>4. ASSUME Introduced, Representable(NumInternalSegments(geometry), SizeofInt)
          PROVE  Agreed'
      <3>1. PICK n \in FileSizes : wire.message = Request(0, n)
        BY <2>2, <2>4
      <3>2. Made /\ Arrives(wire)
        BY <2>1, <2>4 DEF Introduced
      <3>3. /\ pc' = "answered" => wire'.message = Response(0, granted') /\ Arrives(wire')
            /\ pc' = "too large" => ResponseSize(<< >>)
                 + SizeofInt * (Share(geometry, 0) \div InternalRepSize) > ClientMsgSize
        BY <1>6, <2>4, <3>1, <3>2, AnswersArrive
      <3> QED
        BY <2>1, <3>3, MadeSame DEF Agreed, Arrives
    <2> QED
      BY <2>1, <2>3, <2>4, MessagesKept
  <1>7. CASE Granted
    <2>1. /\ pc = "answered" /\ pc' = "exchanging" /\ Started /\ Started'
          /\ geometry' = geometry /\ clientId' = clientId /\ view' = view /\ wire' = None
          /\ granted' = granted
      BY <1>7, MovesOn DEF Granted, ServicePlaces
    <2>2. Introduced => Introduced'
      BY <2>1, MadeSame, GrantedSame DEF Introduced, ServicePlaces
    <2>3. Agreed => Agreed'
      <3>1. Agreed => wire.message = Response(0, granted) /\ Arrives(wire)
        BY <2>1 DEF Agreed
      <3>2. Agreed => received' = granted
        BY <1>7, <3>1, GrantedArrives
      <3> QED
        BY <2>1, <3>2 DEF Agreed
    <2> QED
      BY <2>1, <2>2, <2>3, MessagesKept
  <1>8. CASE Leaves
    <2>1. /\ pc = "exchanging" /\ pc' = "leaving" /\ Started /\ Started'
          /\ geometry' = geometry /\ clientId' = clientId /\ view' = view
      BY <1>8, MovesOn DEF Leaves, ServicePlaces
    <2>2. Introduced => Arrives(wire')
      BY <1>8, <2>1, LeavesArrive DEF Introduced
    <2>3. Introduced => Introduced'
      BY <2>1, <2>2, MadeSame DEF Introduced, Arrives, ServicePlaces
    <2>4. Agreed'
      BY <2>1 DEF Agreed
    <2> QED
      BY <2>1, <2>3, <2>4, MessagesKept
  <1>9. CASE Left
    <2>1. /\ pc = "leaving" /\ pc' = "left" /\ Started /\ Started'
          /\ geometry' = geometry /\ clientId' = clientId /\ view' = view /\ wire' = None
      BY <1>9, MovesOn DEF Left, ServicePlaces
    <2>2. Introduced => Introduced'
      BY <2>1, MadeSame DEF Introduced, ServicePlaces
    <2>3. Agreed'
      BY <2>1 DEF Agreed
    <2> QED
      BY <2>1, <2>2, <2>3, MessagesKept
  <1>10. ASSUME NEW segments, Writes(segments) PROVE MessagesInv'
    <2>1. /\ pc = "exchanging" /\ pc' = "exchanging" /\ Started /\ Started'
          /\ geometry' = geometry /\ clientId' = clientId /\ view' = view /\ wire' = wire
          /\ granted' = granted /\ received' = received
      BY <1>10, MovesOn DEF Writes, ServicePlaces
    <2>2. Introduced => Introduced'
      BY <2>1, MadeSame, GrantedSame DEF Introduced, ServicePlaces
    <2>3. Agreed => Agreed'
      BY <2>1 DEF Agreed
    <2> QED
      BY <2>1, <2>2, <2>3, MessagesKept
  <1> QED
    BY <1>1, <1>2, <1>3, <1>4, <1>5, <1>6, <1>7, <1>8, <1>9, <1>10

LEMMA MessagesStep == ASSUME ServiceInv, MessagesInv, [Next]_vars PROVE MessagesInv'
  <1>1. CASE UNCHANGED serviceVars /\ program' = program /\ pc' = pc
    <2>1. Started' = Started /\ geometry' = geometry
      BY <1>1 DEF Started, serviceVars
    <2>2. CASE ~Started
      BY <1>1, <2>1, <2>2 DEF MessagesInv, serviceVars
    <2>3. CASE Started
      <3>1. Introduced => Introduced'
        BY <1>1, <2>1, MadeSame, GrantedSame DEF Introduced, Arrives, serviceVars
      <3>2. Agreed => Agreed'
        BY <1>1, <2>1, MadeSame DEF Agreed, Arrives, serviceVars
      <3> QED
        BY <1>1, <2>1, <2>3, <3>1, <3>2, MessagesKept
    <2> QED
      BY <2>2, <2>3
  <1>2. CASE program = "app" /\ program' = program /\ UNCHANGED serviceVars
    BY <1>2 DEF MessagesInv, Started, serviceVars
  <1>3. CASE program = "service" /\ program' = program /\ ParseArgs(ServiceArguments)
             /\ UNCHANGED serviceVars
    <2>1. pc = "parsing" /\ pc' \in ParserPlaces
      BY <1>3, ParserEnds, ProgramActions DEF ParseArgs
    <2> QED
      BY <1>3, <2>1 DEF MessagesInv, Started, ParserPlaces, serviceVars
  <1>4. CASE program = "service" /\ program' = program /\ ServiceNext
    <2>1. CASE Launch
      BY <1>4, <2>1, LaunchMakes
    <2>2. CASE \/ Registers \/ AnswersId \/ Attaches \/ Announced \/ Asks \/ Answers \/ Granted
               \/ Leaves \/ Left \/ \E segments : Writes(segments)
      BY <1>4, <2>2, MessagesMove
    <2> QED
      BY <1>3, <1>4, <2>1, <2>2 DEF ServiceNext
  <1> QED
    BY <1>1, <1>2, <1>4 DEF Next, vars, parserVars

\* The receiver of a message makes of its bytes what the sender meant, and a
\* response is too large only if a worker's share of the pool has more segments
\* than it has room for: for any command line, any sizes of int, of the internal
\* segments and of the queues' messages, as long as the numbers of the segments,
\* which travel as ints, have room in an int.
THEOREM EveryMessageArrives == Spec => [](IdsFit => MessagesArrive)
  <1>1. ASSUME AppInv, MessagesInv, IdsFit PROVE MessagesArrive
    <2>1. wire # None => Arrives(wire)
      BY <1>1 DEF MessagesInv, Introduced, Agreed, ServicePlaces
    <2>2. pc = "too large" => ResponseSize(<< >>)
            + SizeofInt * (Share(geometry, 0) \div InternalRepSize) > ClientMsgSize
      <3> SUFFICES ASSUME pc = "too large"
                   PROVE  ResponseSize(<< >>)
                     + SizeofInt * (Share(geometry, 0) \div InternalRepSize) > ClientMsgSize
        OBVIOUS
      <3>1. program # "app"
        BY <1>1 DEF AppInv, Places, ParserPlaces
      <3>2. Started
        BY <1>1, <3>1 DEF MessagesInv, Started, ParserPlaces
      <3> QED
        BY <1>1, <3>2 DEF MessagesInv, Agreed
    <2> QED
      BY <2>1, <2>2 DEF MessagesArrive, Arrives
  <1>2. (AppInv /\ ServiceInv /\ MessagesInv) /\ [Next]_vars
          => (AppInv /\ ServiceInv /\ MessagesInv)'
    BY AppStep, ServiceStep, MessagesStep
  <1>3. Init => AppInv /\ ServiceInv /\ MessagesInv
    BY AppInitially, ServiceInitially, MessagesInitially
  <1> QED
    BY <1>1, <1>2, <1>3, PTL DEF Spec
-----------------------------------------------------------------------------
(* Segments that are written and read as one *)

\* FoldLeft's parts of a sequence are its beginnings.
LEMMA Beginnings ==
  ASSUME NEW n \in Nat
  PROVE  /\ 1..n \in SUBSET Nat /\ IsFiniteSet(1..n) /\ 1..0 = {}
         /\ \A k \in 1..n : /\ 1..k \in SUBSET (1..n) /\ 1..k # {}
                            /\ Max(1..k) = k /\ (1..k) \ {Max(1..k)} = 1..(k - 1)
  <1>1. ASSUME NEW k \in 1..n PROVE Max(1..k) = k
    <2>1. 1..k \in SUBSET Nat /\ IsFiniteSet(1..k) /\ k \in 1..k
      BY FS_Interval
    <2>2. Max(1..k) \in 1..k /\ \A m \in 1..k : m <= Max(1..k)
      BY <2>1, Greatest
    <2> QED
      BY <2>1, <2>2
  <1>2. IsFiniteSet(1..n)
    BY FS_Interval
  <1>3. \A k \in 1..n : 1..k \in SUBSET (1..n) /\ 1..k # {} /\ (1..k) \ {k} = 1..(k - 1)
    OBVIOUS
  <1> QED
    BY <1>1, <1>2, <1>3

\* How many bytes n segments have.
BytesOf(n, rep) == n * rep

LEMMA BytesCounted ==
  ASSUME NEW n \in Nat, NEW rep \in Nat \ {0}
  PROVE  /\ BytesOf(n, rep) \in Nat /\ BytesOf(0, rep) = 0
         /\ \A k \in 1..n : /\ BytesOf(k - 1, rep) \in Nat
                            /\ BytesOf(k, rep) = BytesOf(k - 1, rep) + rep
                            /\ BytesOf(k, rep) <= BytesOf(n, rep)
  <1>1. n * rep \in Nat /\ 0 * rep = 0
    OBVIOUS
  <1>2. ASSUME NEW k \in 1..n
        PROVE  (k - 1) * rep \in Nat /\ k * rep = (k - 1) * rep + rep /\ k * rep <= n * rep
    OBVIOUS
  <1> QED
    BY <1>1, <1>2 DEF BytesOf

\* Where byte p of n segments is.
Location(segments, rep, p) ==
  LET s == segments[p \div rep + 1] IN <<s.physical, s.addr + (p % rep)>>

\* n segments of rep bytes each that lie in D without a common byte.
Apart(segments, n, rep, D) ==
  /\ DOMAIN segments = 1..n /\ D \subseteq Int \X Int
  /\ \A k \in 1..n : /\ segments[k].size = rep
                     /\ segments[k].physical \in Int /\ segments[k].addr \in Int
  /\ \A p \in 0..(BytesOf(n, rep) - 1) : Location(segments, rep, p) \in D
  /\ \A p, q \in 0..(BytesOf(n, rep) - 1) :
       Location(segments, rep, p) = Location(segments, rep, q) => p = q

\* FragmentedShmSegment's size.
LEMMA FragmentsSum ==
  ASSUME NEW n \in Nat, NEW segments, NEW rep \in Nat \ {0},
         DOMAIN segments = 1..n, \A k \in 1..n : segments[k].size = rep
  PROVE  FragmentedSize(segments) = n * rep
  <1> DEFINE S == 1..n
             op == [p \in S \X Nat |-> p[2] + segments[p[1]].size]
             Folds(f) == f = [t \in SUBSET S |->
                                IF t = {} THEN 0
                                ELSE f[t \ {Max(t)}] + segments[Max(t)].size]
             g == CHOOSE h : Folds(h)
  <1>1. op \in [S \X Nat -> Nat]
    OBVIOUS
  <1>2. PICK f \in [SUBSET S -> Nat] : FoldsTo(f, op, 0, S)
    <2>1. S \in SUBSET Nat /\ IsFiniteSet(S) /\ 0 \in Nat
      BY Beginnings
    <2> HIDE DEF S, op
    <2> QED
      BY <1>1, <2>1, FoldsExist
  <1>3. Folds(f)
    <2>1. ASSUME NEW t \in SUBSET S, t # {}
          PROVE  op[<<Max(t), f[t \ {Max(t)}]>>] = f[t \ {Max(t)}] + segments[Max(t)].size
      <3>1. Max(t) \in S
        BY <2>1, Beginnings, FS_Subset, Greatest
      <3>2. f[t \ {Max(t)}] \in Nat
        BY <1>2
      <3> QED
        BY <3>1, <3>2
    <2> HIDE DEF op
    <2> QED
      BY <1>2, <2>1 DEF FoldsTo
  <1>4. Folds(g)
    BY <1>3
  <1>5. FragmentedSize(segments) = g[1..n]
    BY Zenon DEF FragmentedSize, FoldLeft, MapThenFoldSet
  <1> HIDE DEF g, op
  <1>6. g[1..0] = 0
    BY <1>4, Beginnings
  <1>7. ASSUME NEW k \in 1..n PROVE g[1..k] = g[1..(k - 1)] + rep
    <2>1. /\ 1..k \in SUBSET S /\ 1..k # {} /\ Max(1..k) = k
          /\ (1..k) \ {Max(1..k)} = 1..(k - 1)
      BY Beginnings
    <2>2. g[1..k] = g[(1..k) \ {Max(1..k)}] + segments[Max(1..k)].size
      BY <1>4, <2>1
    <2> QED
      BY <2>1, <2>2
  <1> HIDE DEF Folds
  <1> DEFINE N == {k \in Nat : k <= n => g[1..k] = k * rep}
  <1>8. ASSUME NEW k \in N PROVE k + 1 \in N
    <2> SUFFICES ASSUME k + 1 <= n PROVE g[1..(k + 1)] = (k + 1) * rep
      OBVIOUS
    <2>1. k \in Nat /\ k + 1 \in 1..n /\ (k + 1) - 1 = k /\ g[1..k] = k * rep
      OBVIOUS
    <2>2. g[1..(k + 1)] = k * rep + rep
      BY <1>7, <2>1
    <2> QED
      BY <2>1, <2>2
  <1>9. N = Nat
    <2>1. 0 \in N /\ N \in SUBSET Nat
      BY <1>6
    <2> HIDE DEF N
    <2> QED
      BY <1>8, <2>1, NumbersByInduction
  <1>10. g[1..n] = n * rep
    BY <1>9
  <1> QED
    BY <1>5, <1>10

\* What WriteStep is given and makes.
ToWrite(D) == [mem : [D -> Int], data : Seq(Int), offset : Nat]

LEMMA PartOf ==
  ASSUME NEW data \in Seq(Int), NEW m \in 0..Len(data)
  PROVE  /\ SubSeq(data, 1, m) \in Seq(Int) /\ Len(SubSeq(data, 1, m)) = m
         /\ \A k \in 1..m : SubSeq(data, 1, m)[k] = data[k]
         /\ SubSeq(data, m + 1, Len(data)) \in Seq(Int)
         /\ Len(SubSeq(data, m + 1, Len(data))) = Len(data) - m
         /\ \A k \in 1..(Len(data) - m) : SubSeq(data, m + 1, Len(data))[k] = data[m + k]
  <1>1. Len(data) \in Nat /\ \A k \in 1..Len(data) : data[k] \in Int
    BY LenProperties
  <1>2. /\ SubSeq(data, 1, m) \in Seq(Int) /\ Len(SubSeq(data, 1, m)) = m
        /\ \A k \in 1..m : SubSeq(data, 1, m)[k] = data[k]
    <2>1. \A k \in 1..m : data[k] \in Int
      BY <1>1
    <2> DEFINE s == SubSeq(data, 1, m)
    <2>2. s \in Seq(Int) /\ Len(s) = IF 1 <= m THEN m - 1 + 1 ELSE 0
      BY <2>1, SubSeqProperties
    <2>3. \A k \in 1..(m - 1 + 1) : s[k] = data[1 + k - 1]
      BY <2>1, SubSeqProperties
    <2> QED
      BY <1>1, <2>2, <2>3
  <1>3. /\ SubSeq(data, m + 1, Len(data)) \in Seq(Int)
        /\ Len(SubSeq(data, m + 1, Len(data))) = Len(data) - m
        /\ \A k \in 1..(Len(data) - m) : SubSeq(data, m + 1, Len(data))[k] = data[m + k]
    <2> DEFINE s == SubSeq(data, m + 1, Len(data))
               l == Len(data)
    <2>1. l \in Nat /\ m + 1 \in Int /\ \A k \in (m + 1)..l : data[k] \in Int
      BY <1>1
    <2>2. s \in Seq(Int) /\ Len(s) = IF m + 1 <= l THEN l - (m + 1) + 1 ELSE 0
      BY <2>1, SubSeqProperties
    <2>3. \A k \in 1..(l - (m + 1) + 1) : s[k] = data[m + 1 + k - 1]
      BY <2>1, SubSeqProperties
    <2> QED
      BY <1>1, <2>2, <2>3
  <1> QED
    BY <1>2, <1>3

\* What WriteContiguous leaves is memory.
LEMMA ContiguousKeeps ==
  ASSUME NEW D, D \subseteq Int \X Int, NEW mem \in [D -> Int], NEW segment,
         segment.addr \in Int, NEW data \in Seq(Int), NEW offset \in Nat
  PROVE  /\ WriteContiguous(mem, segment, data, offset) \in [D -> Int]
         /\ \A a \in D : WriteContiguous(mem, segment, data, offset)[a] =
              LET k == a[2] - segment.addr - offset
              IN IF a[1] = segment.physical /\ k \in 0..(Len(data) - 1) THEN data[k + 1]
                 ELSE mem[a]
  <1> DEFINE k(a) == a[2] - segment.addr - offset
             Result(a) == IF a[1] = segment.physical /\ k(a) \in 0..(Len(data) - 1)
                          THEN data[k(a) + 1] ELSE mem[a]
  <1>1. WriteContiguous(mem, segment, data, offset) = [a \in D |-> Result(a)]
    BY DEF WriteContiguous
  <1>2. ASSUME NEW a \in D PROVE Result(a) \in Int
    <2>1. k(a) \in Int /\ Len(data) \in Nat /\ \A i \in 1..Len(data) : data[i] \in Int
      BY LenProperties
    <2> HIDE DEF k
    <2>2. k(a) \in 0..(Len(data) - 1) => data[k(a) + 1] \in Int
      BY <2>1
    <2> QED
      BY <2>2
  <1> HIDE DEF Result
  <1>3. WriteContiguous(mem, segment, data, offset) \in [D -> Int]
    BY <1>1, <1>2
  <1> QED
    BY <1>1, <1>3 DEF Result

\* What a step over one segment makes of it, by how much is left to skip or to write.
WriteStepMakes(result, D, todo, segment, size, n) ==
  /\ result \in ToWrite(D)
  /\ todo.data = << >> => result = todo
  /\ todo.data # << >> /\ todo.offset >= size =>
       /\ result.mem = todo.mem /\ result.data = todo.data
       /\ result.offset = todo.offset - size
  /\ todo.data # << >> /\ todo.offset < size =>
       /\ n \in 1..Len(todo.data) /\ n <= size - todo.offset
       /\ n = size - todo.offset \/ n = Len(todo.data)
       /\ result.mem = WriteContiguous(todo.mem, segment, SubSeq(todo.data, 1, n), todo.offset)
       /\ result.data = SubSeq(todo.data, n + 1, Len(todo.data))
       /\ result.offset = 0

LEMMA WriteSteps ==
  ASSUME NEW D, D \subseteq Int \X Int, NEW segment, NEW size \in Nat, segment.addr \in Int,
         segment.size = size, NEW todo \in ToWrite(D)
  PROVE  WriteStepMakes(WriteStep(todo, segment), D, todo, segment, size,
                        Smaller(size - todo.offset, Len(todo.data)))
  <1> DEFINE n == Smaller(size - todo.offset, Len(todo.data))
             result == WriteStep(todo, segment)
  <1>1. /\ todo.mem \in [D -> Int] /\ todo.data \in Seq(Int) /\ todo.offset \in Nat
        /\ size \in Nat
        /\ todo = [mem |-> todo.mem, data |-> todo.data, offset |-> todo.offset]
    BY DEF ToWrite
  <1>2. Len(todo.data) \in Nat /\ (todo.data # << >> => Len(todo.data) > 0)
    BY <1>1, LenProperties, EmptySeq
  <1>3. CASE todo.data = << >>
    <2>1. result = todo
      BY <1>3 DEF WriteStep
    <2> HIDE DEF result, n
    <2>2. WriteStepMakes(result, D, todo, segment, size, n)
      BY <1>3, <2>1 DEF WriteStepMakes
    <2> QED
      BY <2>2 DEF result, n
  <1>4. CASE todo.data # << >> /\ todo.offset >= size
    <2>1. result = [todo EXCEPT !.offset = todo.offset - size]
      BY <1>4 DEF WriteStep
    <2>2. todo.offset - size \in Nat
      BY <1>1, <1>4
    <2> HIDE DEF result
    <2>3. /\ result.mem = todo.mem /\ result.data = todo.data
          /\ result.offset = todo.offset - size
      BY <1>1, <2>1
    <2>4. result \in ToWrite(D)
      BY <2>1, <2>2 DEF ToWrite
    <2>5. ~(todo.offset < size)
      BY <1>1, <1>4
    <2> HIDE DEF n
    <2>6. WriteStepMakes(result, D, todo, segment, size, n)
      BY <1>4, <2>3, <2>4, <2>5 DEF WriteStepMakes
    <2> QED
      BY <2>6 DEF result, n
  <1>5. CASE todo.data # << >> /\ todo.offset < size
    <2>1. /\ n \in 1..Len(todo.data) /\ n <= size - todo.offset
          /\ n = size - todo.offset \/ n = Len(todo.data)
      BY <1>1, <1>2, <1>5 DEF Smaller
    <2>2. ~(todo.offset >= size)
      BY <1>1, <1>5
    <2>3. result = [mem |-> WriteContiguous(todo.mem, segment, SubSeq(todo.data, 1, n),
                                            todo.offset),
                    data |-> SubSeq(todo.data, n + 1, Len(todo.data)), offset |-> 0]
      BY <1>5, <2>2 DEF WriteStep
    <2> HIDE DEF n, result
    <2>4. /\ SubSeq(todo.data, 1, n) \in Seq(Int)
          /\ SubSeq(todo.data, n + 1, Len(todo.data)) \in Seq(Int)
      BY <1>1, <1>2, <2>1, PartOf
    <2>5. WriteContiguous(todo.mem, segment, SubSeq(todo.data, 1, n), todo.offset) \in [D -> Int]
      BY <1>1, <2>4, ContiguousKeeps
    <2>6. result \in ToWrite(D)
      BY <2>3, <2>4, <2>5 DEF ToWrite
    <2>7. /\ result.mem = WriteContiguous(todo.mem, segment, SubSeq(todo.data, 1, n), todo.offset)
          /\ result.data = SubSeq(todo.data, n + 1, Len(todo.data)) /\ result.offset = 0
      BY <2>3
    <2>8. WriteStepMakes(result, D, todo, segment, size, n)
      BY <1>5, <2>1, <2>2, <2>6, <2>7 DEF WriteStepMakes
    <2> QED
      BY <2>8 DEF n, result
  <1>6. todo.offset >= size \/ todo.offset < size
    BY <1>1
  <1> QED
    BY <1>3, <1>4, <1>5, <1>6

\* WriteFragmented takes these steps, one for each segment.
LEMMA WriteFolds ==
  ASSUME NEW D, NEW n \in Nat, NEW segments, NEW rep \in Nat \ {0},
         Apart(segments, n, rep, D), NEW mem \in [D -> Int], NEW data \in Seq(Int),
         NEW offset \in Nat
  PROVE  \E r \in [0..n -> ToWrite(D)] :
           /\ r[0] = [mem |-> mem, data |-> data, offset |-> offset]
           /\ \A k \in 1..n : r[k] = WriteStep(r[k - 1], segments[k])
           /\ WriteFragmented(mem, segments, data, offset) = r[n].mem
  <1> DEFINE S == 1..n
             T == ToWrite(D)
             base == [mem |-> mem, data |-> data, offset |-> offset]
             op == [p \in S \X T |-> WriteStep(p[2], segments[p[1]])]
             Folds(f) == f = [t \in SUBSET S |->
                                IF t = {} THEN base
                                ELSE WriteStep(f[t \ {Max(t)}], segments[Max(t)])]
             g == CHOOSE h : Folds(h)
  <1>1. ASSUME NEW k \in S, NEW todo \in T PROVE WriteStep(todo, segments[k]) \in T
    <2>1. /\ segments[k].size = rep /\ segments[k].addr \in Int /\ D \subseteq Int \X Int
          /\ rep \in Nat
      BY DEF Apart
    <2> HIDE DEF S
    <2>2. WriteStepMakes(WriteStep(todo, segments[k]), D, todo, segments[k], rep,
                         Smaller(rep - todo.offset, Len(todo.data)))
      BY <2>1, WriteSteps
    <2> QED
      BY <2>2 DEF WriteStepMakes
  <1>2. base \in T
    BY DEF ToWrite
  <1>3. PICK f \in [SUBSET S -> T] : FoldsTo(f, op, base, S)
    <2>1. S \in SUBSET Nat /\ IsFiniteSet(S)
      BY Beginnings
    <2> HIDE DEF S, T, base
    <2>2. op \in [S \X T -> T]
      BY <1>1
    <2> HIDE DEF op
    <2> QED
      BY <1>2, <2>1, <2>2, FoldsExist
  <1> HIDE DEF base, T
  <1>4. Folds(f)
    <2>1. ASSUME NEW t \in SUBSET S, t # {}
          PROVE  op[<<Max(t), f[t \ {Max(t)}]>>]
                   = WriteStep(f[t \ {Max(t)}], segments[Max(t)])
      <3>1. Max(t) \in S
        BY <2>1, Beginnings, FS_Subset, Greatest
      <3>2. f[t \ {Max(t)}] \in T
        BY <1>3
      <3> QED
        BY <3>1, <3>2
    <2> HIDE DEF op
    <2> QED
      BY <1>3, <2>1 DEF FoldsTo
  <1>5. Folds(g)
    BY <1>4
  <1>6. WriteFragmented(mem, segments, data, offset) = g[1..n].mem
    <2>1. DOMAIN segments = S
      BY DEF Apart
    <2>2. WriteFragmented(mem, segments, data, offset) =
            LET iter[t \in SUBSET (DOMAIN segments)] ==
                  IF t = {} THEN base ELSE WriteStep(iter[t \ {Max(t)}], segments[Max(t)])
            IN iter[DOMAIN segments].mem
      BY Zenon DEF WriteFragmented, FoldLeft, MapThenFoldSet, base
    <2> QED
      BY <2>1, <2>2
  <1> HIDE DEF g, op
  <1>7. g[1..0] = base
    BY <1>5, Beginnings
  <1>8. ASSUME NEW k \in 1..n PROVE g[1..k] = WriteStep(g[1..(k - 1)], segments[k])
    <2>1. /\ 1..k \in SUBSET S /\ 1..k # {} /\ Max(1..k) = k
          /\ (1..k) \ {Max(1..k)} = 1..(k - 1)
      BY Beginnings
    <2>2. g[1..k] = WriteStep(g[(1..k) \ {Max(1..k)}], segments[Max(1..k)])
      BY <1>5, <2>1
    <2> QED
      BY <2>1, <2>2
  <1> HIDE DEF Folds
  <1> DEFINE N == {k \in Nat : k <= n => g[1..k] \in T}
  <1>9. ASSUME NEW k \in N PROVE k + 1 \in N
    <2> SUFFICES ASSUME k + 1 <= n PROVE g[1..(k + 1)] \in T
      OBVIOUS
    <2>1. k \in Nat /\ (k <= n => g[1..k] \in T)
      OBVIOUS
    <2> HIDE DEF N
    <2>2. k \in Nat /\ k + 1 \in 1..n /\ (k + 1) - 1 = k /\ k <= n
      BY <2>1
    <2>3. g[1..k] \in T
      BY <2>1, <2>2
    <2>4. g[1..(k + 1)] = WriteStep(g[1..k], segments[k + 1])
      BY <1>8, <2>2
    <2> QED
      BY <1>1, <2>2, <2>3, <2>4
  <1>10. N = Nat
    <2>1. 0 \in N /\ N \in SUBSET Nat
      BY <1>2, <1>7
    <2> HIDE DEF N
    <2> QED
      BY <1>9, <2>1, NumbersByInduction
  <1> DEFINE r == [k \in 0..n |-> g[1..k]]
  <1>11. r \in [0..n -> T]
    BY <1>10
  <1>12. r[0] = base /\ r[n] = g[1..n]
    BY <1>7
  <1>13. \A k \in 1..n : r[k] = WriteStep(r[k - 1], segments[k])
    <2> SUFFICES ASSUME NEW k \in 1..n PROVE r[k] = WriteStep(r[k - 1], segments[k])
      OBVIOUS
    <2>1. k \in 0..n /\ k - 1 \in 0..n
      OBVIOUS
    <2> QED
      BY <1>8, <2>1
  <1> HIDE DEF r
  <1> QED
    BY <1>6, <1>11, <1>12, <1>13 DEF base, T

\* The byte o of segment k.
HasByte(n, segments, rep, k, o) ==
  LET p == BytesOf(k - 1, rep) + o
  IN /\ p \in 0..(BytesOf(n, rep) - 1)
     /\ Location(segments, rep, p) = <<segments[k].physical, segments[k].addr + o>>

LEMMA ByteAt ==
  ASSUME NEW n \in Nat, NEW segments, NEW rep \in Nat \ {0}, NEW k \in 1..n,
         NEW o \in 0..(rep - 1)
  PROVE  HasByte(n, segments, rep, k, o)
  <1> DEFINE p == BytesOf(k - 1, rep) + o
  <1>1. p \in Nat /\ p \div rep = k - 1 /\ p % rep = o
    <2> DEFINE q == k - 1
    <2>1. q \in Nat /\ q * rep \in Nat /\ q * rep = rep * q
      OBVIOUS
    <2> HIDE DEF q
    <2>2. (q * rep + o) \div rep = q /\ (q * rep + o) % rep = o /\ q * rep + o \in Nat
      BY <2>1
    <2> QED
      BY <2>2 DEF q, BytesOf
  <1>2. p < BytesOf(n, rep) /\ BytesOf(n, rep) \in Int
    <2>1. /\ BytesOf(k, rep) <= BytesOf(n, rep) /\ BytesOf(k, rep) = BytesOf(k - 1, rep) + rep
          /\ BytesOf(k - 1, rep) \in Int /\ BytesOf(n, rep) \in Int
      <3>1. k \in Nat /\ k \in 1..n
        OBVIOUS
      <3>2. /\ BytesOf(k, rep) <= BytesOf(n, rep) /\ BytesOf(k - 1, rep) \in Nat
            /\ BytesOf(k, rep) = BytesOf(k - 1, rep) + rep
        BY <3>1, BytesCounted
      <3>3. BytesOf(n, rep) \in Nat
        BY BytesCounted
      <3> QED
        BY <3>2, <3>3
    <2> QED
      BY <2>1
  <1> HIDE DEF p
  <1>3. p \in 0..(BytesOf(n, rep) - 1)
    BY <1>1, <1>2
  <1>4. p \div rep + 1 = k
    BY <1>1
  <1>5. Location(segments, rep, p) = <<segments[k].physical, segments[k].addr + o>>
    BY <1>1, <1>4 DEF Location
  <1> QED
    BY <1>3, <1>5 DEF HasByte, p

\* The bytes of all segments, with data written over those from byte first on.
Overwrites(after, mem, D, n, segments, rep, first, data) ==
  /\ \A p \in 0..(BytesOf(n, rep) - 1) :
       after[Location(segments, rep, p)] =
         IF first <= p /\ p < first + Len(data) THEN data[p - first + 1]
         ELSE mem[Location(segments, rep, p)]
  /\ \A a \in D : (\A p \in 0..(BytesOf(n, rep) - 1) : a # Location(segments, rep, p))
                  => after[a] = mem[a]

LEMMA ContiguousWrites ==
  ASSUME NEW D, NEW n \in Nat, NEW segments, NEW rep \in Nat \ {0},
         Apart(segments, n, rep, D), NEW mem \in [D -> Int], NEW data \in Seq(Int),
         NEW k \in 1..n, NEW offset \in Nat, offset + Len(data) <= rep
  PROVE  Overwrites(WriteContiguous(mem, segments[k], data, offset), mem, D, n, segments, rep,
                    BytesOf(k - 1, rep) + offset, data)
  <1> DEFINE after == WriteContiguous(mem, segments[k], data, offset)
             before == BytesOf(k - 1, rep)
             total == BytesOf(n, rep)
             first == before + offset
             at(a) == a[2] - segments[k].addr - offset
             Hit(a) == a[1] = segments[k].physical /\ at(a) \in 0..(Len(data) - 1)
  <1>1. /\ Len(data) \in Nat /\ before \in Nat /\ first \in Nat /\ total \in Nat
        /\ segments[k].addr \in Int /\ D \subseteq Int \X Int
    <2>1. before \in Nat /\ total \in Nat
      BY BytesCounted
    <2> HIDE DEF before, total
    <2>2. Len(data) \in Nat /\ first \in Nat
      BY <2>1, LenProperties
    <2>3. segments[k].addr \in Int /\ D \subseteq Int \X Int
      BY DEF Apart
    <2> QED
      BY <2>1, <2>2, <2>3
  <1> HIDE DEF total, before
  <1>2. ASSUME NEW a \in D PROVE after[a] = IF Hit(a) THEN data[at(a) + 1] ELSE mem[a]
    BY DEF WriteContiguous
  <1> HIDE DEF after
  <1>3. ASSUME NEW i \in 0..(Len(data) - 1)
        PROVE  /\ first + i \in 0..(total - 1)
               /\ Location(segments, rep, first + i)
                    = <<segments[k].physical, segments[k].addr + offset + i>>
    <2> DEFINE o == offset + i
    <2>1. o \in 0..(rep - 1)
      BY <1>1
    <2>2. first + i = before + o
      BY <1>1
    <2>3. segments[k].addr + offset + i = segments[k].addr + o
      BY <1>1, SMTT(30)
    <2> HIDE DEF o, first
    <2>4. HasByte(n, segments, rep, k, o)
      BY <2>1, ByteAt
    <2>5. /\ before + o \in 0..(total - 1)
          /\ Location(segments, rep, before + o)
               = <<segments[k].physical, segments[k].addr + o>>
      BY <2>4 DEF HasByte, before, total
    <2> QED
      BY <2>2, <2>3, <2>5
  <1> HIDE DEF first
  <1>4. ASSUME NEW a \in D, Hit(a)
        PROVE  a = Location(segments, rep, first + at(a)) /\ first + at(a) \in 0..(total - 1)
    <2> DEFINE i == at(a)
    <2>1. i \in 0..(Len(data) - 1) /\ a \in Int \X Int
      BY <1>1, <1>4
    <2>2. a = <<a[1], a[2]>> /\ a[2] \in Int
      BY <2>1
    <2>3. a[2] = segments[k].addr + offset + i
      BY <1>1, <2>2, SMTT(30)
    <2>4. a[1] = segments[k].physical
      BY <1>4
    <2> HIDE DEF i
    <2>5. a = <<segments[k].physical, segments[k].addr + offset + i>>
      BY <2>2, <2>3, <2>4
    <2> QED
      BY <1>3, <2>1, <2>5 DEF i
  <1>5. ASSUME NEW i \in 0..(Len(data) - 1)
        PROVE  LET a == Location(segments, rep, first + i)
               IN a \in D /\ Hit(a) /\ at(a) = i
    <2> DEFINE a == Location(segments, rep, first + i)
    <2>1. a \in D
      BY <1>3 DEF Apart, total
    <2>2. a[1] = segments[k].physical /\ a[2] = segments[k].addr + offset + i
      BY <1>3
    <2>3. at(a) = i
      <3> DEFINE addr == segments[k].addr
      <3>1. addr \in Int /\ i \in Int /\ a[2] = addr + offset + i
        BY <1>1, <2>2
      <3> HIDE DEF addr, a
      <3>2. a[2] - addr - offset = i
        BY <3>1
      <3> QED
        BY <3>2 DEF addr
    <2> QED
      BY <2>1, <2>2, <2>3
  <1>6. ASSUME NEW p \in 0..(total - 1)
        PROVE  after[Location(segments, rep, p)] =
                 IF first <= p /\ p < first + Len(data) THEN data[p - first + 1]
                 ELSE mem[Location(segments, rep, p)]
    <2> DEFINE a == Location(segments, rep, p)
    <2>1. a \in D /\ p \in Nat
      BY <1>1 DEF Apart, total
    <2>2. CASE first <= p /\ p < first + Len(data)
      <3> DEFINE i == p - first
      <3>1. i \in 0..(Len(data) - 1) /\ first + i = p
        <4> HIDE DEF a
        <4>1. /\ p \in Int /\ first \in Int /\ Len(data) \in Int
              /\ first <= p /\ p < first + Len(data)
          BY <1>1, <2>1, <2>2
        <4> QED
          BY <4>1
      <3> HIDE DEF i, Hit, at
      <3>2. Hit(a) /\ at(a) = i
        BY <1>5, <3>1
      <3>3. after[a] = data[i + 1]
        BY <1>2, <2>1, <3>2
      <3> QED
        BY <2>2, <3>3 DEF i
    <2>3. CASE ~(first <= p /\ p < first + Len(data))
      <3>1. ~Hit(a)
        <4> SUFFICES ASSUME Hit(a) PROVE FALSE
          OBVIOUS
        <4>1. at(a) \in 0..(Len(data) - 1)
          OBVIOUS
        <4>2. a = Location(segments, rep, first + at(a)) /\ first + at(a) \in 0..(total - 1)
          BY <1>4, <2>1
        <4> HIDE DEF Hit, at
        <4>3. p = first + at(a)
          BY <4>2 DEF Apart, total
        <4> QED
          BY <1>1, <2>1, <2>3, <4>1, <4>3, SMTT(30)
      <3> HIDE DEF Hit, at
      <3> QED
        BY <1>2, <2>1, <2>3, <3>1
    <2> QED
      BY <2>2, <2>3
  <1>7. ASSUME NEW a \in D, \A p \in 0..(total - 1) : a # Location(segments, rep, p)
        PROVE  after[a] = mem[a]
    <2>1. ~Hit(a)
      BY <1>4, <1>7
    <2> HIDE DEF Hit, at
    <2> QED
      BY <1>2, <2>1
  <1> QED
    BY <1>6, <1>7 DEF Overwrites, after, first, before, total

\* How far the loop has come after some of the segments: the bytes before offset + w are
\* written, the rest of the data is left, and it belongs where the next segment begins, or
\* after as many bytes as are still to be skipped.
WrittenUpTo(todo, position, w, D, n, segments, rep, mem, data, offset) ==
  /\ w \in 0..Len(data)
  /\ Len(todo.data) = Len(data) - w
  /\ \A i \in 1..(Len(data) - w) : todo.data[i] = data[w + i]
  /\ w < Len(data) => position + todo.offset = offset + w
  /\ \A p \in 0..(BytesOf(n, rep) - 1) :
       todo.mem[Location(segments, rep, p)] =
         IF offset <= p /\ p < offset + w THEN data[p - offset + 1]
         ELSE mem[Location(segments, rep, p)]
  /\ \A a \in D : (\A p \in 0..(BytesOf(n, rep) - 1) : a # Location(segments, rep, p))
                  => todo.mem[a] = mem[a]

\* One segment more.
LEMMA WriteMoves ==
  ASSUME NEW D, NEW n \in Nat, NEW segments, NEW rep \in Nat \ {0},
         Apart(segments, n, rep, D), NEW mem \in [D -> Int], NEW data \in Seq(Int),
         NEW offset \in Nat, NEW k \in 1..n, NEW todo \in ToWrite(D), NEW w,
         WrittenUpTo(todo, BytesOf(k - 1, rep), w, D, n, segments, rep, mem, data, offset)
  PROVE  \E v : WrittenUpTo(WriteStep(todo, segments[k]), BytesOf(k, rep), v,
                            D, n, segments, rep, mem, data, offset)
  <1> DEFINE result == WriteStep(todo, segments[k])
             L == Len(data)
             before == BytesOf(k - 1, rep)
             after == BytesOf(k, rep)
             total == BytesOf(n, rep)
             m == Smaller(rep - todo.offset, Len(todo.data))
             part == SubSeq(todo.data, 1, m)
             at(p) == Location(segments, rep, p)
  <1>1. /\ segments[k].addr \in Int /\ D \subseteq Int \X Int /\ segments[k].size = rep
    BY DEF Apart
  <1>2. /\ todo.mem \in [D -> Int] /\ todo.data \in Seq(Int) /\ todo.offset \in Nat
        /\ L \in Nat /\ Len(todo.data) \in Nat
    BY LenProperties DEF ToWrite
  <1>3. before \in Int /\ after = before + rep /\ total \in Int
    BY BytesCounted
  <1> HIDE DEF at, L
  <1>4. /\ w \in 0..L /\ Len(todo.data) = L - w
        /\ \A i \in 1..(L - w) : todo.data[i] = data[w + i]
        /\ w < L => before + todo.offset = offset + w
        /\ \A p \in 0..(total - 1) :
             todo.mem[at(p)] = IF offset <= p /\ p < offset + w THEN data[p - offset + 1]
                               ELSE mem[at(p)]
        /\ \A a \in D : (\A p \in 0..(total - 1) : a # at(p)) => todo.mem[a] = mem[a]
    BY DEF WrittenUpTo, at, L
  <1> HIDE DEF before, after, total
  <1>5. WriteStepMakes(result, D, todo, segments[k], rep, m)
    BY <1>1, WriteSteps
  <1> HIDE DEF result, m, part
  <1>6. todo.data # << >> => w < L
    BY <1>2, <1>4, EmptySeq
  <1>7. CASE todo.data = << >>
    <2>1. Len(todo.data) = 0
      BY <1>2, <1>7, EmptySeq
    <2>2. ~(w < L)
      BY <1>2, <1>4, <2>1
    <2>3. result = todo
      BY <1>5, <1>7 DEF WriteStepMakes
    <2>4. WrittenUpTo(result, after, w, D, n, segments, rep, mem, data, offset)
      BY <1>4, <2>2, <2>3 DEF WrittenUpTo, at, L, total
    <2> QED
      BY <2>4 DEF result, after
  <1>8. CASE todo.data # << >> /\ todo.offset >= rep
    <2>1. result.mem = todo.mem /\ result.data = todo.data /\ result.offset = todo.offset - rep
      BY <1>5, <1>8 DEF WriteStepMakes
    <2>2. after + result.offset = offset + w
      BY <1>2, <1>3, <1>4, <1>6, <1>8, <2>1, SMTT(30)
    <2>3. WrittenUpTo(result, after, w, D, n, segments, rep, mem, data, offset)
      BY <1>4, <2>1, <2>2 DEF WrittenUpTo, at, L, total
    <2> QED
      BY <2>3 DEF result, after
  <1>9. CASE todo.data # << >> /\ todo.offset < rep
    <2> DEFINE v == w + m
    <2>1. /\ m \in 1..Len(todo.data) /\ m <= rep - todo.offset
          /\ m = rep - todo.offset \/ m = Len(todo.data)
          /\ result.mem = WriteContiguous(todo.mem, segments[k], part, todo.offset)
          /\ result.data = SubSeq(todo.data, m + 1, Len(todo.data))
          /\ result.offset = 0
      BY <1>5, <1>9 DEF WriteStepMakes, part
    <2>2. before + todo.offset = offset + w /\ w < L
      BY <1>4, <1>6, <1>9
    <2>3. v \in 0..L
      BY <1>2, <1>4, <2>1
    <2>4. m \in 0..Len(todo.data)
      BY <2>1
    <2>5. /\ part \in Seq(Int) /\ Len(part) = m
          /\ \A i \in 1..m : part[i] = todo.data[i]
      BY <1>2, <2>4, PartOf DEF part
    <2>6. /\ Len(result.data) = Len(todo.data) - m
          /\ \A i \in 1..(Len(todo.data) - m) : result.data[i] = todo.data[m + i]
      <3> DEFINE rest == SubSeq(todo.data, m + 1, Len(todo.data))
      <3>1. /\ Len(rest) = Len(todo.data) - m
            /\ \A i \in 1..(Len(todo.data) - m) : rest[i] = todo.data[m + i]
        BY <1>2, <2>4, PartOf
      <3> HIDE DEF rest
      <3>2. result.data = rest
        BY <2>1 DEF rest
      <3> QED
        BY <3>1, <3>2
    <2>7. /\ Len(result.data) = L - v
          /\ \A i \in 1..(L - v) : result.data[i] = data[v + i]
      <3>1. m \in Nat /\ w \in Nat /\ Len(todo.data) = L - w
        BY <1>4, <2>4
      <3>2. Len(todo.data) - m = L - v
        BY <1>2, <3>1
      <3>3. ASSUME NEW i \in 1..(L - v) PROVE result.data[i] = data[v + i]
        <4>1. result.data[i] = todo.data[m + i]
          BY <2>6, <3>2
        <4>2. m + i \in 1..(L - w) /\ w + (m + i) = v + i
          BY <1>2, <3>1
        <4> QED
          BY <1>4, <4>1, <4>2
      <3> QED
        BY <2>6, <3>2, <3>3
    <2>8. v < L => after + result.offset = offset + v
      <3>1. w \in Int /\ m \in Int /\ Len(todo.data) = L - w
        BY <1>4, <2>4
      <3> SUFFICES ASSUME v < L PROVE after + result.offset = offset + v
        OBVIOUS
      <3>2. m = rep - todo.offset
        BY <1>2, <2>1, <3>1
      <3>3. result.offset = 0
        BY <2>1
      <3>4. after = offset + w + m
        <4>1. /\ todo.offset \in Int /\ before \in Int /\ rep \in Int /\ offset \in Int
              /\ after = before + rep /\ before + todo.offset = offset + w
          BY <1>2, <1>3, <2>2
        <4> QED
          BY ONLY <3>1, <3>2, <4>1
      <3> QED
        BY <3>1, <3>3, <3>4
    <2>9. todo.offset + Len(part) <= rep
      <3>1. m \in Int /\ Len(part) = m
        BY <2>4, <2>5
      <3> QED
        BY <1>2, <2>1, <3>1
    <2>10. Overwrites(result.mem, todo.mem, D, n, segments, rep, before + todo.offset, part)
      <3>1. Overwrites(WriteContiguous(todo.mem, segments[k], part, todo.offset), todo.mem, D, n,
                       segments, rep, BytesOf(k - 1, rep) + todo.offset, part)
        BY <1>2, <2>5, <2>9, ContiguousWrites
      <3> QED
        BY <2>1, <3>1 DEF before
    <2>11. /\ \A p \in 0..(total - 1) :
               result.mem[at(p)] =
                 IF before + todo.offset <= p /\ p < before + todo.offset + Len(part)
                 THEN part[p - (before + todo.offset) + 1] ELSE todo.mem[at(p)]
          /\ \A a \in D : (\A p \in 0..(total - 1) : a # at(p)) => result.mem[a] = todo.mem[a]
      BY <2>10 DEF Overwrites, at, total
    <2>12. ASSUME NEW p \in 0..(total - 1)
           PROVE  result.mem[at(p)] = IF offset <= p /\ p < offset + v THEN data[p - offset + 1]
                                      ELSE mem[at(p)]
      <3>1. p \in Nat /\ w \in Nat /\ m \in Nat
        BY <1>3, <1>4, <2>4
      <3>2. result.mem[at(p)] = IF offset + w <= p /\ p < offset + w + m
                                THEN part[p - (offset + w) + 1] ELSE todo.mem[at(p)]
        BY <2>2, <2>5, <2>11
      <3>3. todo.mem[at(p)] = IF offset <= p /\ p < offset + w THEN data[p - offset + 1]
                              ELSE mem[at(p)]
        BY <1>4
      <3>4. CASE offset + w <= p /\ p < offset + w + m
        <4> DEFINE i == p - (offset + w) + 1
        <4>1. i \in 1..m /\ w + i = p - offset + 1
          BY <3>1, <3>4
        <4>2. offset <= p /\ p < offset + v
          BY <3>1, <3>4
        <4>3. result.mem[at(p)] = part[i]
          BY <3>2, <3>4
        <4> HIDE DEF i
        <4>4. i \in 1..(L - w)
          BY <1>2, <1>4, <2>1, <3>1, <4>1
        <4> QED
          BY <1>4, <2>5, <4>1, <4>2, <4>3, <4>4
      <3>5. CASE ~(offset + w <= p /\ p < offset + w + m)
        <4>1. (offset <= p /\ p < offset + v) <=> (offset <= p /\ p < offset + w)
          BY <3>1, <3>5
        <4> QED
          BY <3>2, <3>3, <3>5, <4>1
      <3> QED
        BY <3>4, <3>5
    <2>13. \A a \in D : (\A p \in 0..(total - 1) : a # at(p)) => result.mem[a] = mem[a]
      BY <1>4, <2>11
    <2> HIDE DEF v
    <2>14. WrittenUpTo(result, after, v, D, n, segments, rep, mem, data, offset)
      BY <2>1, <2>3, <2>7, <2>8, <2>12, <2>13 DEF WrittenUpTo, at, L, total
    <2> QED
      BY <2>14 DEF result, after
  <1>10. todo.offset >= rep \/ todo.offset < rep
    BY <1>2
  <1> QED
    BY <1>7, <1>8, <1>9, <1>10

\* WriteFragmented writes the data at its offset, counted over all segments, and nothing else.
LEMMA FragmentsWritten ==
  ASSUME NEW D, NEW n \in Nat, NEW segments, NEW rep \in Nat \ {0},
         Apart(segments, n, rep, D), NEW mem \in [D -> Int], NEW data \in Seq(Int),
         NEW offset \in Nat, offset + Len(data) <= BytesOf(n, rep)
  PROVE  LET after == WriteFragmented(mem, segments, data, offset)
         IN /\ after \in [D -> Int]
            /\ Overwrites(after, mem, D, n, segments, rep, offset, data)
  <1> DEFINE Upto(todo, position, w) ==
               WrittenUpTo(todo, position, w, D, n, segments, rep, mem, data, offset)
             base == [mem |-> mem, data |-> data, offset |-> offset]
  <1>1. PICK r \in [0..n -> ToWrite(D)] :
          /\ r[0] = base
          /\ \A k \in 1..n : r[k] = WriteStep(r[k - 1], segments[k])
          /\ WriteFragmented(mem, segments, data, offset) = r[n].mem
    BY WriteFolds
  <1>2. Len(data) \in Nat
    BY LenProperties
  <1>3. Upto(base, 0, 0)
    <2>1. base.mem = mem /\ base.data = data /\ base.offset = offset
      OBVIOUS
    <2> HIDE DEF base
    <2> QED
      BY <1>2, <2>1 DEF WrittenUpTo
  <1> HIDE DEF base
  <1> DEFINE N == {k \in Nat : k <= n => \E w : Upto(r[k], BytesOf(k, rep), w)}
  <1>4. ASSUME NEW k \in N PROVE k + 1 \in N
    <2> SUFFICES ASSUME k + 1 <= n PROVE \E w : Upto(r[k + 1], BytesOf(k + 1, rep), w)
      OBVIOUS
    <2>1. k \in Nat /\ (k <= n => \E w : Upto(r[k], BytesOf(k, rep), w))
      OBVIOUS
    <2> HIDE DEF N
    <2>2. k + 1 \in 1..n /\ (k + 1) - 1 = k /\ k \in 0..n /\ k <= n
      BY <2>1
    <2> HIDE DEF Upto
    <2>3. PICK w : Upto(r[k], BytesOf(k, rep), w)
      BY <2>1, <2>2
    <2>4. r[k + 1] = WriteStep(r[k], segments[k + 1]) /\ r[k] \in ToWrite(D)
      BY <1>1, <2>2
    <2> DEFINE j == k + 1
    <2>5. j \in 1..n /\ j - 1 = k
      BY <2>2
    <2> HIDE DEF j
    <2>6. Upto(r[k], BytesOf(j - 1, rep), w)
      BY <2>3, <2>5
    <2>7. \E v : Upto(WriteStep(r[k], segments[j]), BytesOf(j, rep), v)
      BY <2>4, <2>5, <2>6, WriteMoves DEF Upto
    <2> QED
      BY <2>4, <2>7 DEF j
  <1>5. N = Nat
    <2>1. 0 \in N /\ N \in SUBSET Nat
      <3>1. BytesOf(0, rep) = 0
        BY BytesCounted
      <3> HIDE DEF Upto
      <3> QED
        BY <1>1, <1>3, <3>1
    <2> HIDE DEF N
    <2> QED
      BY <1>4, <2>1, NumbersByInduction
  <1>6. PICK w : Upto(r[n], BytesOf(n, rep), w)
    BY <1>5
  <1> HIDE DEF N
  <1>7. r[n] \in ToWrite(D) /\ r[n].mem \in [D -> Int] /\ r[n].offset \in Nat
    BY <1>1 DEF ToWrite
  <1>8. w = Len(data)
    <2>1. w \in 0..Len(data) /\ (w < Len(data) => BytesOf(n, rep) + r[n].offset = offset + w)
      BY <1>6 DEF WrittenUpTo
    <2>2. BytesOf(n, rep) \in Int
      BY BytesCounted
    <2> QED
      BY <1>2, <1>7, <2>1, <2>2
  <1> QED
    BY <1>1, <1>6, <1>7, <1>8 DEF WrittenUpTo, Overwrites

\* What ReadStep is given and makes.
ToRead == [data : Seq(Int), dataSize : Nat, offset : Nat]

\* ContiguousShmSegment::read, and the bytes of all segments.
Reads(s, mem, segments, rep, first, m) ==
  /\ s \in Seq(Int) /\ Len(s) = m
  /\ \A i \in 1..m : s[i] = mem[Location(segments, rep, first + i - 1)]

LEMMA ContiguousReads ==
  ASSUME NEW D, NEW n \in Nat, NEW segments, NEW rep \in Nat \ {0},
         Apart(segments, n, rep, D), NEW mem \in [D -> Int], NEW k \in 1..n,
         NEW m \in Nat, NEW offset \in Nat, offset + m <= rep
  PROVE  Reads(ReadContiguous(mem, segments[k], m, offset), mem, segments, rep,
               BytesOf(k - 1, rep) + offset, m)
  <1> DEFINE s == ReadContiguous(mem, segments[k], m, offset)
             before == BytesOf(k - 1, rep)
             total == BytesOf(n, rep)
  <1>1. segments[k].addr \in Int /\ before \in Int /\ total \in Int
    <2>1. before \in Int /\ total \in Int
      BY BytesCounted
    <2>2. segments[k].addr \in Int
      BY DEF Apart
    <2> QED
      BY <2>1, <2>2
  <1> HIDE DEF before, total
  <1>2. ASSUME NEW i \in 1..m
        PROVE  /\ <<segments[k].physical, segments[k].addr + offset + i - 1>> \in D
               /\ Location(segments, rep, before + offset + i - 1)
                    = <<segments[k].physical, segments[k].addr + offset + i - 1>>
    <2> DEFINE o == offset + i - 1
    <2>1. o \in 0..(rep - 1)
      OBVIOUS
    <2>2. before + offset + i - 1 = before + o
      BY <1>1
    <2>3. segments[k].addr + offset + i - 1 = segments[k].addr + o
      BY <1>1
    <2> HIDE DEF o
    <2>4. HasByte(n, segments, rep, k, o)
      BY <2>1, ByteAt
    <2>5. /\ before + o \in 0..(total - 1)
          /\ Location(segments, rep, before + o)
               = <<segments[k].physical, segments[k].addr + o>>
      BY <2>4 DEF HasByte, before, total
    <2>6. Location(segments, rep, before + o) \in D
      BY <2>5 DEF Apart, total
    <2> QED
      BY <2>2, <2>3, <2>5, <2>6
  <1>3. s = [i \in 1..m |-> mem[<<segments[k].physical, segments[k].addr + offset + i - 1>>]]
    BY DEF ReadContiguous
  <1> HIDE DEF s
  <1>4. ASSUME NEW i \in 1..m
        PROVE  s[i] = mem[Location(segments, rep, before + offset + i - 1)] /\ s[i] \in Int
    BY <1>2, <1>3
  <1>5. s \in [1..m -> Int]
    BY <1>3, <1>4
  <1>6. s \in Seq(Int) /\ Len(s) = m
    BY <1>5, SeqDef, LenProperties
  <1> QED
    BY <1>4, <1>6 DEF Reads, s, before

\* What a step over one segment makes of it, by how much is left to skip or to read.
ReadStepMakes(result, todo, part, rep, m) ==
  /\ result \in ToRead
  /\ todo.dataSize = 0 => result = todo
  /\ todo.dataSize # 0 /\ todo.offset >= rep =>
       /\ result.data = todo.data /\ result.dataSize = todo.dataSize
       /\ result.offset = todo.offset - rep
  /\ todo.dataSize # 0 /\ todo.offset < rep =>
       /\ m \in 1..todo.dataSize /\ todo.offset + m <= rep
       /\ m = rep - todo.offset \/ m = todo.dataSize
       /\ result.data = todo.data \o part
       /\ result.dataSize = todo.dataSize - m /\ result.offset = 0

LEMMA ReadSteps ==
  ASSUME NEW D, NEW n \in Nat, NEW segments, NEW rep \in Nat \ {0},
         Apart(segments, n, rep, D), NEW mem \in [D -> Int], NEW k \in 1..n,
         NEW todo \in ToRead
  PROVE  LET m == Smaller(rep - todo.offset, todo.dataSize)
         IN ReadStepMakes(ReadStep(mem, todo, segments[k]), todo,
                          ReadContiguous(mem, segments[k], m, todo.offset), rep, m)
  <1> DEFINE m == Smaller(rep - todo.offset, todo.dataSize)
             part == ReadContiguous(mem, segments[k], m, todo.offset)
             result == ReadStep(mem, todo, segments[k])
  <1>1. /\ todo.data \in Seq(Int) /\ todo.dataSize \in Nat /\ todo.offset \in Nat
        /\ todo = [data |-> todo.data, dataSize |-> todo.dataSize, offset |-> todo.offset]
        /\ segments[k].size = rep
    BY DEF ToRead, Apart
  <1>2. CASE todo.dataSize = 0
    <2>1. result = todo
      BY <1>2 DEF ReadStep
    <2> HIDE DEF result, part, m
    <2>2. ReadStepMakes(result, todo, part, rep, m)
      BY <1>2, <2>1 DEF ReadStepMakes
    <2> QED
      BY <2>2 DEF result, part, m
  <1>3. CASE todo.dataSize # 0 /\ todo.offset >= rep
    <2>1. result = [todo EXCEPT !.offset = todo.offset - rep]
      BY <1>1, <1>3 DEF ReadStep
    <2>2. todo.offset - rep \in Nat
      BY <1>1, <1>3
    <2> HIDE DEF result, part, m
    <2>3. /\ result.data = todo.data /\ result.dataSize = todo.dataSize
          /\ result.offset = todo.offset - rep
      BY <1>1, <2>1
    <2>4. result \in ToRead
      BY <2>1, <2>2 DEF ToRead
    <2>5. ~(todo.offset < rep)
      BY <1>1, <1>3
    <2>6. ReadStepMakes(result, todo, part, rep, m)
      BY <1>3, <2>3, <2>4, <2>5 DEF ReadStepMakes
    <2> QED
      BY <2>6 DEF result, part, m
  <1>4. CASE todo.dataSize # 0 /\ todo.offset < rep
    <2>1. /\ m \in 1..todo.dataSize /\ todo.offset + m <= rep
          /\ m = rep - todo.offset \/ m = todo.dataSize
      BY <1>1, <1>4 DEF Smaller
    <2>2. ~(todo.offset >= rep)
      BY <1>1, <1>4
    <2>3. result = [data |-> todo.data \o part, dataSize |-> todo.dataSize - m, offset |-> 0]
      BY <1>1, <1>4, <2>2 DEF ReadStep
    <2> HIDE DEF m, result
    <2>4. m \in Nat /\ todo.dataSize - m \in Nat
      BY <1>1, <2>1
    <2>5. part \in Seq(Int)
      BY <1>1, <2>1, <2>4, ContiguousReads DEF Reads
    <2> HIDE DEF part
    <2>6. todo.data \o part \in Seq(Int)
      BY <1>1, <2>5, ConcatProperties
    <2>7. result \in ToRead
      BY <2>3, <2>4, <2>6 DEF ToRead
    <2>8. /\ result.data = todo.data \o part /\ result.dataSize = todo.dataSize - m
          /\ result.offset = 0
      BY <2>3
    <2>9. ReadStepMakes(result, todo, part, rep, m)
      BY <1>4, <2>1, <2>2, <2>7, <2>8 DEF ReadStepMakes
    <2> QED
      BY <2>9 DEF m, part, result
  <1>5. todo.offset >= rep \/ todo.offset < rep
    BY <1>1
  <1> QED
    BY <1>2, <1>3, <1>4, <1>5

\* ReadFragmented takes these steps, one for each segment.
ReadInSteps(r, n, segments, mem, dataSize, offset) ==
  /\ r[0] = [data |-> << >>, dataSize |-> dataSize, offset |-> offset]
  /\ \A k \in 1..n : r[k] = ReadStep(mem, r[k - 1], segments[k])
  /\ ReadFragmented(mem, segments, dataSize, offset) = r[n].data

LEMMA ReadFolds ==
  ASSUME NEW D, NEW n \in Nat, NEW segments, NEW rep \in Nat \ {0},
         Apart(segments, n, rep, D), NEW mem \in [D -> Int], NEW dataSize \in Nat,
         NEW offset \in Nat
  PROVE  \E r \in [0..n -> ToRead] : ReadInSteps(r, n, segments, mem, dataSize, offset)
  <1> DEFINE S == 1..n
             base == [data |-> << >>, dataSize |-> dataSize, offset |-> offset]
             op == [p \in S \X ToRead |-> ReadStep(mem, p[2], segments[p[1]])]
             Folds(f) == f = [t \in SUBSET S |->
                                IF t = {} THEN base
                                ELSE ReadStep(mem, f[t \ {Max(t)}], segments[Max(t)])]
             g == CHOOSE h : Folds(h)
  <1>1. ASSUME NEW k \in S, NEW todo \in ToRead
        PROVE  ReadStep(mem, todo, segments[k]) \in ToRead
    BY ReadSteps DEF ReadStepMakes
  <1>2. base \in ToRead
    <2>1. << >> \in Seq(Int)
      BY EmptySeq
    <2> QED
      BY <2>1 DEF ToRead
  <1>3. PICK f \in [SUBSET S -> ToRead] : FoldsTo(f, op, base, S)
    <2>1. S \in SUBSET Nat /\ IsFiniteSet(S)
      BY Beginnings
    <2> HIDE DEF S, base
    <2>2. op \in [S \X ToRead -> ToRead]
      BY <1>1
    <2> HIDE DEF op
    <2> QED
      BY <1>2, <2>1, <2>2, FoldsExist
  <1> HIDE DEF base
  <1>4. Folds(f)
    <2>1. ASSUME NEW t \in SUBSET S, t # {}
          PROVE  op[<<Max(t), f[t \ {Max(t)}]>>]
                   = ReadStep(mem, f[t \ {Max(t)}], segments[Max(t)])
      <3>1. Max(t) \in S
        BY <2>1, Beginnings, FS_Subset, Greatest
      <3>2. f[t \ {Max(t)}] \in ToRead
        BY <1>3
      <3> QED
        BY <3>1, <3>2
    <2> HIDE DEF op
    <2> QED
      BY <1>3, <2>1 DEF FoldsTo
  <1>5. Folds(g)
    BY <1>4
  <1>6. ReadFragmented(mem, segments, dataSize, offset) = g[1..n].data
    <2>1. DOMAIN segments = S
      BY DEF Apart
    <2>2. ReadFragmented(mem, segments, dataSize, offset) =
            LET iter[t \in SUBSET (DOMAIN segments)] ==
                  IF t = {} THEN base ELSE ReadStep(mem, iter[t \ {Max(t)}], segments[Max(t)])
            IN iter[DOMAIN segments].data
      BY Zenon DEF ReadFragmented, FoldLeft, MapThenFoldSet, base
    <2> QED
      BY <2>1, <2>2
  <1> HIDE DEF g, op
  <1>7. g[1..0] = base
    BY <1>5, Beginnings
  <1>8. ASSUME NEW k \in 1..n PROVE g[1..k] = ReadStep(mem, g[1..(k - 1)], segments[k])
    <2>1. /\ 1..k \in SUBSET S /\ 1..k # {} /\ Max(1..k) = k
          /\ (1..k) \ {Max(1..k)} = 1..(k - 1)
      BY Beginnings
    <2>2. g[1..k] = ReadStep(mem, g[(1..k) \ {Max(1..k)}], segments[Max(1..k)])
      BY <1>5, <2>1
    <2> QED
      BY <2>1, <2>2
  <1> HIDE DEF Folds
  <1> DEFINE N == {k \in Nat : k <= n => g[1..k] \in ToRead}
  <1>9. ASSUME NEW k \in N PROVE k + 1 \in N
    <2> SUFFICES ASSUME k + 1 <= n PROVE g[1..(k + 1)] \in ToRead
      OBVIOUS
    <2>1. k \in Nat /\ (k <= n => g[1..k] \in ToRead)
      OBVIOUS
    <2> HIDE DEF N
    <2>2. k \in Nat /\ k + 1 \in 1..n /\ (k + 1) - 1 = k /\ k <= n
      BY <2>1
    <2>3. g[1..k] \in ToRead
      BY <2>1, <2>2
    <2>4. g[1..(k + 1)] = ReadStep(mem, g[1..k], segments[k + 1])
      BY <1>8, <2>2
    <2> QED
      BY <1>1, <2>2, <2>3, <2>4
  <1>10. N = Nat
    <2>1. 0 \in N /\ N \in SUBSET Nat
      BY <1>2, <1>7
    <2> HIDE DEF N
    <2> QED
      BY <1>9, <2>1, NumbersByInduction
  <1> DEFINE r == [k \in 0..n |-> g[1..k]]
  <1>11. r \in [0..n -> ToRead]
    BY <1>10
  <1>12. r[0] = base /\ r[n] = g[1..n]
    BY <1>7
  <1>13. \A k \in 1..n : r[k] = ReadStep(mem, r[k - 1], segments[k])
    <2> SUFFICES ASSUME NEW k \in 1..n PROVE r[k] = ReadStep(mem, r[k - 1], segments[k])
      OBVIOUS
    <2>1. k \in 0..n /\ k - 1 \in 0..n
      OBVIOUS
    <2> QED
      BY <1>8, <2>1
  <1> HIDE DEF r
  <1> QED
    BY <1>6, <1>11, <1>12, <1>13 DEF base, ReadInSteps

\* How far the loop has come after some of the segments: w bytes are read, and the next one
\* is where the next segment begins, or as many bytes after that as are still to be skipped.
ReadUpTo(todo, position, w, segments, rep, mem, dataSize, offset) ==
  /\ w \in 0..dataSize
  /\ Len(todo.data) = w /\ todo.dataSize = dataSize - w
  /\ \A i \in 1..w : todo.data[i] = mem[Location(segments, rep, offset + i - 1)]
  /\ w < dataSize => position + todo.offset = offset + w

\* One segment more.
LEMMA ReadMoves ==
  ASSUME NEW D, NEW n \in Nat, NEW segments, NEW rep \in Nat \ {0},
         Apart(segments, n, rep, D), NEW mem \in [D -> Int], NEW dataSize \in Nat,
         NEW offset \in Nat, NEW k \in 1..n, NEW todo \in ToRead, NEW w,
         ReadUpTo(todo, BytesOf(k - 1, rep), w, segments, rep, mem, dataSize, offset)
  PROVE  \E v : ReadUpTo(ReadStep(mem, todo, segments[k]), BytesOf(k, rep), v,
                         segments, rep, mem, dataSize, offset)
  <1> DEFINE result == ReadStep(mem, todo, segments[k])
             before == BytesOf(k - 1, rep)
             after == BytesOf(k, rep)
             m == Smaller(rep - todo.offset, todo.dataSize)
             part == ReadContiguous(mem, segments[k], m, todo.offset)
             at(p) == mem[Location(segments, rep, p)]
  <1>1. todo.data \in Seq(Int) /\ todo.offset \in Nat /\ todo.dataSize \in Nat
    BY DEF ToRead
  <1>2. before \in Int /\ after = before + rep
    BY BytesCounted
  <1> HIDE DEF at
  <1>3. /\ w \in 0..dataSize /\ Len(todo.data) = w /\ todo.dataSize = dataSize - w
        /\ \A i \in 1..w : todo.data[i] = at(offset + i - 1)
        /\ w < dataSize => before + todo.offset = offset + w
    BY DEF ReadUpTo, at
  <1> HIDE DEF before, after
  <1>4. ReadStepMakes(result, todo, part, rep, m)
    BY ReadSteps
  <1>5. w < dataSize <=> todo.dataSize # 0
    BY <1>1, <1>3
  <1> HIDE DEF result, m
  <1>6. CASE todo.dataSize = 0
    <2>1. ReadUpTo(result, after, w, segments, rep, mem, dataSize, offset)
      BY <1>3, <1>4, <1>5, <1>6 DEF ReadUpTo, ReadStepMakes, at
    <2> QED
      BY <2>1 DEF result, after
  <1>7. CASE todo.dataSize # 0 /\ todo.offset >= rep
    <2>1. result.data = todo.data /\ result.dataSize = todo.dataSize
          /\ result.offset = todo.offset - rep
      BY <1>4, <1>7 DEF ReadStepMakes
    <2>2. after + result.offset = offset + w
      BY <1>1, <1>2, <1>3, <1>5, <1>7, <2>1
    <2>3. ReadUpTo(result, after, w, segments, rep, mem, dataSize, offset)
      BY <1>3, <2>1, <2>2 DEF ReadUpTo, at
    <2> QED
      BY <2>3 DEF result, after
  <1>8. CASE todo.dataSize # 0 /\ todo.offset < rep
    <2> DEFINE v == w + m
    <2>1. /\ m \in 1..todo.dataSize /\ todo.offset + m <= rep
          /\ m = rep - todo.offset \/ m = todo.dataSize
          /\ result.data = todo.data \o part
          /\ result.dataSize = todo.dataSize - m /\ result.offset = 0
      BY <1>4, <1>8 DEF ReadStepMakes
    <2>2. before + todo.offset = offset + w
      BY <1>3, <1>5, <1>8
    <2>3. m \in Nat /\ w \in Nat /\ v \in 0..dataSize /\ result.dataSize = dataSize - v
      BY <1>1, <1>3, <2>1
    <2>4. Reads(part, mem, segments, rep, before + todo.offset, m)
      BY <1>1, <2>1, <2>3, ContiguousReads DEF before
    <2>5. /\ part \in Seq(Int) /\ Len(part) = m
          /\ \A i \in 1..m : part[i] = at(before + todo.offset + i - 1)
      BY <2>4 DEF Reads, at
    <2> HIDE DEF part
    <2>6. /\ Len(result.data) = v
          /\ \A i \in 1..v : result.data[i] = IF i <= w THEN todo.data[i] ELSE part[i - w]
      <3>1. result.data = todo.data \o part
        BY <2>1
      <3>2. /\ Len(todo.data \o part) = Len(todo.data) + Len(part)
            /\ \A i \in 1..(Len(todo.data) + Len(part)) : (todo.data \o part)[i] =
                 IF i <= Len(todo.data) THEN todo.data[i] ELSE part[i - Len(todo.data)]
        BY <1>1, <2>5, ConcatProperties, ZenonT(30)
      <3>3. Len(todo.data) = w /\ Len(part) = m
        BY <1>3, <2>5
      <3> QED
        BY <3>1, <3>2, <3>3
    <2>7. ASSUME NEW i \in 1..v PROVE result.data[i] = at(offset + i - 1)
      <3>1. CASE i <= w
        <4>1. i \in 1..w
          BY <2>3, <3>1
        <4> QED
          BY <1>3, <2>6, <3>1, <4>1
      <3>2. CASE ~(i <= w)
        <4>1. i - w \in 1..m
          BY <2>3, <3>2
        <4>2. part[i - w] = at(before + todo.offset + (i - w) - 1)
          BY <2>5, <4>1
        <4>3. before + todo.offset + (i - w) - 1 = offset + i - 1
          BY <1>1, <1>2, <2>2, <2>3
        <4> QED
          BY <2>6, <3>2, <4>2, <4>3
      <3> QED
        BY <3>1, <3>2
    <2>8. v < dataSize => after + result.offset = offset + v
      <3> SUFFICES ASSUME v < dataSize PROVE after + result.offset = offset + v
        OBVIOUS
      <3>1. m = rep - todo.offset
        BY <1>1, <1>3, <2>1, <2>3
      <3>2. result.offset = 0
        BY <2>1
      <3>3. after = offset + w + m
        <4>1. /\ todo.offset \in Int /\ before \in Int /\ rep \in Int /\ offset \in Int
              /\ w \in Int /\ m \in Int
              /\ after = before + rep /\ before + todo.offset = offset + w
          BY <1>1, <1>2, <2>2, <2>3
        <4> QED
          BY ONLY <3>1, <4>1
      <3> QED
        BY <2>3, <3>2, <3>3
    <2> HIDE DEF v
    <2>9. ReadUpTo(result, after, v, segments, rep, mem, dataSize, offset)
      BY <2>3, <2>6, <2>7, <2>8 DEF ReadUpTo, at
    <2> QED
      BY <2>9 DEF result, after
  <1>9. todo.offset >= rep \/ todo.offset < rep
    BY <1>1
  <1> QED
    BY <1>6, <1>7, <1>8, <1>9

\* ReadFragmented reads the bytes from the offset on, counted over all segments.
LEMMA FragmentsRead ==
  ASSUME NEW D, NEW n \in Nat, NEW segments, NEW rep \in Nat \ {0},
         Apart(segments, n, rep, D), NEW mem \in [D -> Int], NEW dataSize \in Nat,
         NEW offset \in Nat, offset + dataSize <= BytesOf(n, rep)
  PROVE  Reads(ReadFragmented(mem, segments, dataSize, offset), mem, segments, rep, offset,
               dataSize)
  <1> DEFINE Upto(todo, position, w) ==
               ReadUpTo(todo, position, w, segments, rep, mem, dataSize, offset)
             base == [data |-> << >>, dataSize |-> dataSize, offset |-> offset]
  <1>1. PICK r \in [0..n -> ToRead] :
          /\ r[0] = base
          /\ \A k \in 1..n : r[k] = ReadStep(mem, r[k - 1], segments[k])
          /\ ReadFragmented(mem, segments, dataSize, offset) = r[n].data
    <2>1. \E r \in [0..n -> ToRead] : ReadInSteps(r, n, segments, mem, dataSize, offset)
      BY ReadFolds
    <2> QED
      BY <2>1 DEF ReadInSteps
  <1>2. Upto(base, 0, 0)
    <2>1. base.data = << >> /\ base.dataSize = dataSize /\ base.offset = offset
      OBVIOUS
    <2>2. Len(base.data) = 0
      BY EmptySeq
    <2> HIDE DEF base
    <2> QED
      BY <2>1, <2>2 DEF ReadUpTo
  <1> HIDE DEF base
  <1> DEFINE N == {k \in Nat : k <= n => \E w : Upto(r[k], BytesOf(k, rep), w)}
  <1>3. ASSUME NEW k \in N PROVE k + 1 \in N
    <2> SUFFICES ASSUME k + 1 <= n PROVE \E w : Upto(r[k + 1], BytesOf(k + 1, rep), w)
      OBVIOUS
    <2>1. k \in Nat /\ (k <= n => \E w : Upto(r[k], BytesOf(k, rep), w))
      OBVIOUS
    <2> HIDE DEF N
    <2>2. k + 1 \in 1..n /\ (k + 1) - 1 = k /\ k \in 0..n /\ k <= n
      BY <2>1
    <2> HIDE DEF Upto
    <2>3. PICK w : Upto(r[k], BytesOf(k, rep), w)
      BY <2>1, <2>2
    <2>4. r[k + 1] = ReadStep(mem, r[k], segments[k + 1]) /\ r[k] \in ToRead
      BY <1>1, <2>2
    <2> DEFINE j == k + 1
    <2>5. j \in 1..n /\ j - 1 = k
      BY <2>2
    <2> HIDE DEF j
    <2>6. Upto(r[k], BytesOf(j - 1, rep), w)
      BY <2>3, <2>5
    <2>7. \E v : Upto(ReadStep(mem, r[k], segments[j]), BytesOf(j, rep), v)
      BY <2>4, <2>5, <2>6, ReadMoves DEF Upto
    <2> QED
      BY <2>4, <2>7 DEF j
  <1>4. N = Nat
    <2>1. 0 \in N /\ N \in SUBSET Nat
      <3>1. BytesOf(0, rep) = 0
        BY BytesCounted
      <3> HIDE DEF Upto
      <3> QED
        BY <1>1, <1>2, <3>1
    <2> HIDE DEF N
    <2> QED
      BY <1>3, <2>1, NumbersByInduction
  <1>5. PICK w : Upto(r[n], BytesOf(n, rep), w)
    BY <1>4
  <1> HIDE DEF N
  <1>6. r[n] \in ToRead /\ r[n].data \in Seq(Int) /\ r[n].offset \in Nat
    BY <1>1 DEF ToRead
  <1>7. w = dataSize
    <2>1. w \in 0..dataSize /\ (w < dataSize => BytesOf(n, rep) + r[n].offset = offset + w)
      BY <1>5 DEF ReadUpTo
    <2>2. BytesOf(n, rep) \in Int
      BY BytesCounted
    <2> QED
      BY <1>6, <2>1, <2>2
  <1> QED
    BY <1>1, <1>5, <1>6, <1>7 DEF ReadUpTo, Reads
-----------------------------------------------------------------------------
(* The segments of a request *)

Cells(g) == (0..(g.num - 1)) \X (0..(g.size - 1))

\* The segments that were granted lie in the memory, and without a common byte.
LEMMA GrantedApart ==
  ASSUME Made, GrantedOnce
  PROVE  Apart(SegmentsOf(geometry, granted), Len(granted), InternalRepSize, Cells(geometry))
  <1> DEFINE rep == InternalRepSize
             n == Len(granted)
             N == NumInternalSegments(geometry)
             segments == SegmentsOf(geometry, granted)
             all == ShmSegments(geometry)
  <1>1. PICK num \in Ints, size \in Ints :
          geometry = Geometry(num, size, rep) /\ Constructs(geometry)
    BY DEF Made
  <1>2. /\ num \in Int /\ size \in Int /\ rep \in Nat \ {0}
        /\ geometry.num = num /\ geometry.size = size /\ geometry.rep = rep
    BY <1>1, ArgumentsAssumption, ServiceAssumption DEF Ints, Geometry
  <1>3. N \in Int
    BY <1>2 DEF NumInternalSegments
  <1>4. /\ n \in Nat \ {0} /\ DOMAIN granted = 1..n /\ \A k \in 1..n : granted[k] \in 0..(N - 1)
        /\ \A j, k \in 1..n : j < k => granted[j] < granted[k]
    <2>1. /\ granted \in Seq(0..(N - 1)) /\ Len(granted) > 0
          /\ \A j, k \in DOMAIN granted : j < k => granted[j] < granted[k]
      BY DEF GrantedOnce
    <2> HIDE DEF N
    <2>2. /\ n \in Nat /\ DOMAIN granted = 1..n /\ \A k \in 1..n : granted[k] \in 0..(N - 1)
      BY <2>1, LenProperties
    <2> QED
      BY <2>1, <2>2
  <1> HIDE DEF n
  <1>5. N > 0
    <2>1. granted[1] \in 0..(N - 1)
      BY <1>4
    <2> QED
      BY <1>3, <2>1
  <1>6. PICK p \in Nat \ {0} : /\ PerPhysical(geometry) = p /\ size = p * rep /\ N = num * p
                               /\ num \in Nat \ {0}
    BY <1>1, <1>2, <1>5, CutWithoutRest
  <1>7. ASSUME NEW k \in 1..N
        PROVE  /\ all[k].physical \in Nat /\ all[k].addr \in Nat /\ all[k].size = rep
    <2>1. all[k].physical = (k - 1) \div p /\ all[k].addr = rep * ((k - 1) % p)
          /\ all[k].size = rep
      BY <1>2, <1>6 DEF ShmSegments
    <2> DEFINE r == (k - 1) % p
    <2>2. (k - 1) \div p \in Nat /\ r \in Nat
      BY <1>3, <1>6
    <2> HIDE DEF r
    <2>3. rep * r \in Nat
      BY <1>2, <2>2
    <2> QED
      BY <2>1, <2>2, <2>3 DEF r
  <1>8. /\ \A k \in 1..N : all[k].physical < num /\ all[k].addr + rep <= size
        /\ \A j, k \in 1..N : j < k =>
             \/ all[j].physical # all[k].physical
             \/ all[j].addr + rep <= all[k].addr
    <2>1. Usable(geometry)
      BY <1>1, <1>2, GeometryUsable
    <2> HIDE DEF N, all
    <2> QED
      BY <1>2, <1>7, <2>1 DEF Usable, N, all
  <1>9. /\ DOMAIN segments = 1..n
        /\ \A k \in 1..n : granted[k] + 1 \in 1..N /\ segments[k] = all[granted[k] + 1]
    BY <1>3, <1>4 DEF SegmentsOf
  <1> HIDE DEF N, segments, all, rep
  <1>10. ASSUME NEW k \in 1..n
         PROVE  /\ segments[k].size = rep /\ segments[k].physical \in 0..(num - 1)
                /\ segments[k].addr \in Nat /\ segments[k].addr + rep <= size
    BY <1>2, <1>7, <1>8, <1>9
  <1>11. ASSUME NEW b \in 0..(BytesOf(n, rep) - 1)
         PROVE  /\ (b \div rep) + 1 \in 1..n /\ b % rep \in 0..(rep - 1)
                /\ b = rep * (b \div rep) + (b % rep)
    <2>1. b \div rep \in 0..(n - 1) /\ b % rep \in 0..(rep - 1)
          /\ b = rep * (b \div rep) + (b % rep)
      <3>1. b \in 0..(n * rep - 1)
        BY DEF BytesOf
      <3> QED
        BY <1>2, <1>4, <3>1, Place
    <2> QED
      BY <1>4, <2>1
  <1>12. Cells(geometry) \subseteq Int \X Int
    BY <1>2 DEF Cells
  <1>13. ASSUME NEW b \in 0..(BytesOf(n, rep) - 1)
         PROVE  Location(segments, rep, b) \in Cells(geometry)
    <2> DEFINE k == (b \div rep) + 1
               o == b % rep
    <2>1. k \in 1..n /\ o \in 0..(rep - 1)
      BY <1>11
    <2>2. Location(segments, rep, b) = <<segments[k].physical, segments[k].addr + o>>
      BY DEF Location
    <2> HIDE DEF k, o
    <2>3. segments[k].addr + o \in 0..(size - 1)
      BY <1>2, <1>10, <2>1
    <2> QED
      BY <1>2, <1>10, <2>1, <2>2, <2>3 DEF Cells
  <1>14. ASSUME NEW j \in 1..n, NEW k \in 1..n, j < k, NEW i \in 0..(rep - 1),
                NEW o \in 0..(rep - 1), segments[j].physical = segments[k].physical,
                segments[j].addr + i = segments[k].addr + o
         PROVE  FALSE
    <2>1. /\ granted[j] + 1 \in 1..N /\ granted[k] + 1 \in 1..N
          /\ granted[j] + 1 < granted[k] + 1
      <3>1. granted[j] < granted[k] /\ granted[j] \in 0..(N - 1) /\ granted[k] \in 0..(N - 1)
        BY <1>4, <1>14
      <3> QED
        BY <1>3, <3>1
    <2>2. segments[j].addr + rep <= segments[k].addr
      BY <1>8, <1>9, <1>14, <2>1
    <2>3. segments[j].addr \in Nat /\ segments[k].addr \in Nat
      BY <1>10
    <2> QED
      BY <1>2, <1>14, <2>2, <2>3
  <1>15. ASSUME NEW b \in 0..(BytesOf(n, rep) - 1), NEW c \in 0..(BytesOf(n, rep) - 1),
                Location(segments, rep, b) = Location(segments, rep, c)
         PROVE  b = c
    <2> DEFINE j == (b \div rep) + 1
               k == (c \div rep) + 1
               i == b % rep
               o == c % rep
    <2>1. j \in 1..n /\ k \in 1..n /\ i \in 0..(rep - 1) /\ o \in 0..(rep - 1)
      BY <1>11
    <2>2. Location(segments, rep, b) = <<segments[j].physical, segments[j].addr + i>>
      BY DEF Location
    <2>3. Location(segments, rep, c) = <<segments[k].physical, segments[k].addr + o>>
      BY DEF Location
    <2>4. b = rep * (b \div rep) + i /\ c = rep * (c \div rep) + o
      BY <1>11
    <2>5. b \div rep \in Int /\ c \div rep \in Int
      BY <1>2, <1>4
    <2>6. j = k => b \div rep = c \div rep
      BY <2>5
    <2> HIDE DEF j, k, i, o
    <2>7. /\ segments[j].physical = segments[k].physical
          /\ segments[j].addr + i = segments[k].addr + o
      <3>1. <<segments[j].physical, segments[j].addr + i>>
              = <<segments[k].physical, segments[k].addr + o>>
        BY <1>15, <2>2, <2>3
      <3> QED
        BY ONLY <3>1
    <2>8. j = k
      BY <1>4, <1>14, <2>1, <2>7
    <2>9. i = o
      BY <1>2, <1>10, <2>1, <2>7, <2>8
    <2> QED
      BY <2>4, <2>6, <2>8, <2>9
  <1> QED
    BY <1>2, <1>9, <1>10, <1>12, <1>13, <1>15 DEF Apart, rep, n, segments

\* The bytes of the segments are what was written, and no other byte was.
Stores(g, ids, mem, s) ==
  LET last == BytesOf(Len(ids), InternalRepSize) - 1
      at(p) == Location(SegmentsOf(g, ids), InternalRepSize, p)
  IN /\ mem \in [Cells(g) -> Int] /\ s \in Seq(Int) /\ Len(s) = BytesOf(Len(ids), InternalRepSize)
     /\ \A p \in 0..last : mem[at(p)] = s[p + 1]
     /\ \A a \in Cells(g) : (\A p \in 0..last : a # at(p)) => mem[a] = 0

StoredInv ==
  /\ writes \in Nat
  /\ Started /\ pc \notin {"too large", "exchanging", "leaving", "left"} =>
       memory = [a \in Cells(geometry) |-> 0]
  /\ Started /\ IdsFit /\ pc = "exchanging" => Stores(geometry, granted, memory, content)

\* How many bytes the segments have.
LEMMA GrantedSize ==
  ASSUME Made, GrantedOnce
  PROVE  /\ FragmentedSize(SegmentsOf(geometry, granted)) = BytesOf(Len(granted), InternalRepSize)
         /\ Len(granted) \in Nat /\ InternalRepSize \in Nat \ {0}
         /\ BytesOf(Len(granted), InternalRepSize) \in Nat
  <1>1. InternalRepSize \in Nat \ {0} /\ Len(granted) \in Nat
    BY ServiceAssumption, LenProperties DEF GrantedOnce
  <1>2. /\ DOMAIN SegmentsOf(geometry, granted) = 1..Len(granted)
        /\ \A k \in 1..Len(granted) : SegmentsOf(geometry, granted)[k].size = InternalRepSize
    BY GrantedApart DEF Apart
  <1>3. FragmentedSize(SegmentsOf(geometry, granted)) = BytesOf(Len(granted), InternalRepSize)
    BY <1>1, <1>2, FragmentsSum DEF BytesOf
  <1>4. BytesOf(Len(granted), InternalRepSize) \in Nat
    BY <1>1, BytesCounted
  <1> QED
    BY <1>1, <1>3, <1>4

\* The memory is empty at first, and so is what was written.
LEMMA GrantedStores ==
  ASSUME Made, GrantedOnce, view = geometry, memory = [a \in Cells(geometry) |-> 0],
         Granted, received' = granted
  PROVE  Stores(geometry, granted, memory', content')
  <1> DEFINE size == BytesOf(Len(granted), InternalRepSize)
             at(p) == Location(SegmentsOf(geometry, granted), InternalRepSize, p)
  <1>1. size \in Nat /\ FragmentedSize(SegmentsOf(geometry, granted)) = size
    BY GrantedSize
  <1>2. \A p \in 0..(size - 1) : at(p) \in Cells(geometry)
    BY GrantedApart DEF Apart
  <1> HIDE DEF size, at
  <1>3. memory' = [a \in Cells(geometry) |-> 0] /\ content' = [k \in 1..size |-> 0]
    BY <1>1 DEF Granted
  <1>4. content' \in Seq(Int) /\ Len(content') = size
    <2>1. content' \in [1..size -> Int]
      BY <1>3
    <2> QED
      BY <1>1, <2>1, SeqDef, LenProperties
  <1>5. \A p \in 0..(size - 1) : memory'[at(p)] = content'[p + 1]
    BY <1>1, <1>2, <1>3
  <1> QED
    <2>1. memory' \in [Cells(geometry) -> Int] /\ \A a \in Cells(geometry) : memory'[a] = 0
      BY <1>3
    <2> QED
      BY <1>4, <1>5, <2>1 DEF Stores, size, at

\* A write through the segments changes both alike.
LEMMA WritesStore ==
  ASSUME Made, GrantedOnce, Stores(geometry, granted, memory, content), writes \in Nat,
         Writes(SegmentsOf(geometry, granted))
  PROVE  Stores(geometry, granted, memory', content')
  <1> DEFINE total == BytesOf(Len(granted), InternalRepSize)
             segments == SegmentsOf(geometry, granted)
             at(p) == Location(segments, InternalRepSize, p)
  <1>1. total \in Nat /\ FragmentedSize(segments) = total
    BY GrantedSize
  <1>2. PICK offset \in 0..total : \E size \in 1..total :
          LET data == [k \in 1..size |-> 10 * writes + k]
          IN /\ Fits(segments, size, offset)
             /\ memory' = WriteFragmented(memory, segments, data, offset)
             /\ content' = [k \in DOMAIN content |->
                              IF k - offset \in DOMAIN data THEN data[k - offset] ELSE content[k]]
    BY <1>1 DEF Writes
  <1>3. PICK size \in 1..total :
          LET data == [k \in 1..size |-> 10 * writes + k]
          IN /\ Fits(segments, size, offset)
             /\ memory' = WriteFragmented(memory, segments, data, offset)
             /\ content' = [k \in DOMAIN content |->
                              IF k - offset \in DOMAIN data THEN data[k - offset] ELSE content[k]]
    BY <1>2
  <1> DEFINE data == [k \in 1..size |-> 10 * writes + k]
  <1>4. offset \in Nat /\ size \in Nat /\ offset + size <= total
    BY <1>1, <1>3 DEF Fits
  <1>5. data \in Seq(Int) /\ Len(data) = size /\ DOMAIN data = 1..size
    <2>1. data \in [1..size -> Int]
      OBVIOUS
    <2> HIDE DEF data
    <2> QED
      BY <1>4, <2>1, SeqDef, LenProperties
  <1>6. /\ memory' = WriteFragmented(memory, segments, data, offset)
        /\ content' = [k \in DOMAIN content |->
                         IF k - offset \in DOMAIN data THEN data[k - offset] ELSE content[k]]
    BY <1>3
  <1> HIDE DEF data
  <1>7. /\ memory \in [Cells(geometry) -> Int] /\ content \in Seq(Int) /\ Len(content) = total
        /\ \A p \in 0..(total - 1) : memory[at(p)] = content[p + 1]
        /\ \A a \in Cells(geometry) : (\A p \in 0..(total - 1) : a # at(p)) => memory[a] = 0
    BY DEF Stores
  <1>8. /\ memory' \in [Cells(geometry) -> Int]
        /\ \A p \in 0..(total - 1) :
             memory'[at(p)] = IF offset <= p /\ p < offset + Len(data) THEN data[p - offset + 1]
                              ELSE memory[at(p)]
        /\ \A a \in Cells(geometry) : (\A p \in 0..(total - 1) : a # at(p))
                                      => memory'[a] = memory[a]
    <2>1. Apart(segments, Len(granted), InternalRepSize, Cells(geometry))
      BY GrantedApart
    <2>2. Len(granted) \in Nat /\ InternalRepSize \in Nat \ {0}
      BY GrantedSize
    <2>3. offset + Len(data) <= BytesOf(Len(granted), InternalRepSize)
      BY <1>4, <1>5
    <2> HIDE DEF segments
    <2> QED
      <3>1. /\ WriteFragmented(memory, segments, data, offset) \in [Cells(geometry) -> Int]
            /\ Overwrites(WriteFragmented(memory, segments, data, offset), memory,
                          Cells(geometry), Len(granted), segments, InternalRepSize, offset, data)
        BY <1>4, <1>5, <1>7, <2>1, <2>2, <2>3, FragmentsWritten
      <3>2. /\ memory' \in [Cells(geometry) -> Int]
            /\ Overwrites(memory', memory, Cells(geometry), Len(granted), segments,
                          InternalRepSize, offset, data)
        BY <1>6, <3>1
      <3> QED
        BY <3>2 DEF Overwrites, total, at
  <1> HIDE DEF total, at, segments
  <1>9. DOMAIN content = 1..total /\ \A k \in 1..total : content[k] \in Int
    BY <1>7, LenProperties
  <1>10. ASSUME NEW k \in 1..total
         PROVE  content'[k] = IF k - offset \in 1..size THEN data[k - offset] ELSE content[k]
    BY <1>5, <1>6, <1>9
  <1>11. content' \in Seq(Int) /\ Len(content') = total
    <2>1. \A k \in 1..size : data[k] \in Int
      BY <1>5, LenProperties
    <2>2. content' \in [1..total -> Int]
      BY <1>5, <1>6, <1>9, <2>1
    <2> QED
      BY <1>1, <2>2, SeqDef, LenProperties
  <1>12. ASSUME NEW p \in 0..(total - 1) PROVE memory'[at(p)] = content'[p + 1]
    <2>1. p + 1 \in 1..total /\ (p + 1) - offset = p - offset + 1
      BY <1>1, <1>4
    <2>2. (p + 1) - offset \in 1..size <=> offset <= p /\ p < offset + size
      BY <1>1, <1>4
    <2>3. memory'[at(p)] = IF offset <= p /\ p < offset + size THEN data[p - offset + 1]
                           ELSE content[p + 1]
      BY <1>5, <1>7, <1>8
    <2>4. content'[p + 1] = IF offset <= p /\ p < offset + size THEN data[p - offset + 1]
                            ELSE content[p + 1]
      BY <1>10, <2>1, <2>2
    <2> QED
      BY <2>3, <2>4
  <1> QED
    BY <1>7, <1>8, <1>11, <1>12 DEF Stores, total, at, segments

LEMMA StoredInitially == Init => StoredInv
  BY DEF Init, ParserInit, ServiceInit, StoredInv, Started, ParserPlaces

LEMMA StoresPrimed ==
  Stores(geometry, granted, memory, content)'
    <=> Stores(geometry', granted', memory', content')
  BY DEF Stores, Cells, SegmentsOf

\* A step of a started service that leaves the segments and their bytes as they are.
LEMMA StoredKept ==
  ASSUME StoredInv, writes' = writes, geometry' = geometry, granted' = granted,
         memory' = memory, content' = content, Started' => Started,
         Started' /\ pc' \notin {"too large", "exchanging", "leaving", "left"}
           => pc \notin {"too large", "exchanging", "leaving", "left"},
         Started' => pc' # "exchanging" \/ pc = "exchanging"
  PROVE  StoredInv'
  <1>1. IdsFit' /\ Started' => IdsFit
    BY MadeSame DEF IdsFit
  <1>2. Started' /\ IdsFit' /\ pc' = "exchanging"
        => Stores(geometry', granted', memory', content')
    BY <1>1 DEF StoredInv
  <1>3. Started' /\ pc' \notin {"too large", "exchanging", "leaving", "left"}
        => memory' = [a \in Cells(geometry') |-> 0]
    BY DEF StoredInv
  <1> QED
    BY <1>2, <1>3, StoresPrimed DEF StoredInv, Cells

LEMMA StoredStep ==
  ASSUME MessagesInv, MessagesInv', StoredInv, [Next]_vars
  PROVE  StoredInv'
  <1>1. CASE UNCHANGED serviceVars /\ program' = program
             /\ (pc' = pc \/ program = "app" \/ (pc = "parsing" /\ pc' \in ParserPlaces))
    <2>1. Started' => Started /\ pc' = pc
      BY <1>1 DEF Started
    <2> QED
      BY <1>1, <2>1, StoredKept DEF serviceVars
  <1>2. CASE program = "service" /\ program' = program /\ ServiceNext
    <2>1. CASE ParseArgs(ServiceArguments) /\ UNCHANGED serviceVars
      <3>1. pc = "parsing" /\ pc' \in ParserPlaces
        BY <2>1, ParserEnds, ProgramActions DEF ParseArgs
      <3> QED
        BY <1>1, <1>2, <2>1, <3>1
    <2>2. CASE Launch
      <3> DEFINE g == Geometry(Get(ServiceArguments, "--n_sms"),
                               Get(ServiceArguments, "--sms_size"), InternalRepSize)
      <3>1. /\ \/ /\ pc' = "serving" /\ geometry' = g
                  /\ memory' = [a \in (0..(g.num - 1)) \X (0..(g.size - 1)) |-> 0]
               \/ pc' = "aborted"
            /\ writes' = writes
        BY <2>2 DEF Launch
      <3> HIDE DEF g
      <3>2. CASE pc' = "aborted"
        BY <3>1, <3>2 DEF StoredInv, Started
      <3>3. CASE /\ pc' = "serving" /\ geometry' = g
                 /\ memory' = [a \in (0..(g.num - 1)) \X (0..(g.size - 1)) |-> 0]
        <4>1. memory' = [a \in Cells(geometry') |-> 0]
          BY <3>3 DEF Cells
        <4> QED
          BY <3>1, <3>3, <4>1 DEF StoredInv, Cells
      <3> QED
        BY <3>1, <3>2, <3>3
    <2>3. CASE \/ Registers \/ AnswersId \/ Attaches \/ Announced \/ Asks \/ Leaves \/ Left
      <3>1. Started
        BY <1>2, <2>3 DEF Registers, AnswersId, Attaches, Announced, Asks, Leaves, Left, Step,
                          Started, ParserPlaces
      <3>2. /\ writes' = writes /\ geometry' = geometry /\ granted' = granted
            /\ memory' = memory /\ content' = content
        BY <2>3 DEF Registers, AnswersId, Attaches, Announced, Asks, Leaves, Left
      <3>3. /\ pc' \notin {"too large", "exchanging", "leaving", "left"}
                 => pc \notin {"too large", "exchanging", "leaving", "left"}
            /\ pc' # "exchanging"
        BY <2>3 DEF Registers, AnswersId, Attaches, Announced, Asks, Leaves, Left, Step
      <3> QED
        BY <3>1, <3>2, <3>3, StoredKept
    <2>4. CASE Answers
      <3>1. /\ Step("asked", "answered") \/ Step("asked", "too large")
            /\ geometry' = geometry /\ memory' = memory /\ writes' = writes
        BY <2>4 DEF Answers
      <3>2. pc = "asked" /\ pc' \in {"answered", "too large"} /\ Started
        BY <1>2, <3>1 DEF Step, Started, ParserPlaces
      <3>3. memory' = [a \in Cells(geometry') |-> 0]
        BY <3>1, <3>2 DEF StoredInv
      <3> QED
        BY <3>1, <3>2, <3>3 DEF StoredInv, Cells
    <2>5. CASE Granted
      <3>1. /\ pc = "answered" /\ pc' = "exchanging" /\ Started /\ Started'
            /\ geometry' = geometry /\ granted' = granted /\ writes' = writes
        BY <1>2, <2>5, MovesOn DEF Granted, ServicePlaces
      <3>2. ASSUME IdsFit' PROVE Stores(geometry', granted', memory', content')
        <4>1. IdsFit
          BY <3>1, <3>2, MadeSame DEF IdsFit
        <4>2. Made /\ GrantedOnce /\ view = geometry
          BY <3>1 DEF MessagesInv, Introduced
        <4>3. received' = granted
          BY <3>1, <3>2 DEF MessagesInv, Agreed
        <4>4. memory = [a \in Cells(geometry) |-> 0]
          BY <3>1 DEF StoredInv
        <4>5. Stores(geometry, granted, memory', content')
          BY <2>5, <4>2, <4>3, <4>4, GrantedStores
        <4> QED
          BY <3>1, <4>5
      <3> QED
        BY <3>1, <3>2, StoresPrimed DEF StoredInv
    <2>6. ASSUME NEW segments \in {ServiceSegments, ClientSegments}, Writes(segments)
          PROVE  StoredInv'
      <3>1. /\ pc = "exchanging" /\ pc' = "exchanging" /\ Started /\ Started'
            /\ geometry' = geometry /\ granted' = granted /\ writes' = writes + 1
        BY <1>2, <2>6, MovesOn DEF Writes, ServicePlaces
      <3>2. ASSUME IdsFit' PROVE Stores(geometry', granted', memory', content')
        <4>1. IdsFit
          BY <3>1, <3>2, MadeSame DEF IdsFit
        <4>2. Made /\ GrantedOnce /\ view = geometry
          BY <3>1 DEF MessagesInv, Introduced
        <4>3. received = granted
          BY <3>1, <4>1 DEF MessagesInv, Agreed
        <4>4. Stores(geometry, granted, memory, content) /\ writes \in Nat
          BY <3>1, <4>1 DEF StoredInv
        <4>5. segments = SegmentsOf(geometry, granted)
          BY <4>2, <4>3 DEF ServiceSegments, ClientSegments
        <4>6. Stores(geometry, granted, memory', content')
          BY <2>6, <4>2, <4>4, <4>5, WritesStore
        <4> QED
          BY <3>1, <4>6
      <3>3. writes' \in Nat
        BY <3>1 DEF StoredInv
      <3> QED
        BY <3>1, <3>2, <3>3, StoresPrimed DEF StoredInv
    <2> QED
      BY <1>2, <2>1, <2>2, <2>3, <2>4, <2>5, <2>6 DEF ServiceNext
  <1> QED
    BY <1>1, <1>2 DEF Next, vars, parserVars

\* What either side reads of the segments is what was written there.
LEMMA StoredReads ==
  ASSUME Made, GrantedOnce, Stores(geometry, granted, memory, content),
         NEW offset \in 0..Len(content), NEW size \in 0..Len(content),
         Fits(SegmentsOf(geometry, granted), size, offset)
  PROVE  ReadFragmented(memory, SegmentsOf(geometry, granted), size, offset)
           = SubSeq(content, offset + 1, offset + size)
  <1> DEFINE segments == SegmentsOf(geometry, granted)
             total == BytesOf(Len(granted), InternalRepSize)
             result == ReadFragmented(memory, segments, size, offset)
             part == SubSeq(content, offset + 1, offset + size)
             at(p) == Location(segments, InternalRepSize, p)
  <1>1. /\ FragmentedSize(segments) = total /\ total \in Nat
        /\ Len(granted) \in Nat /\ InternalRepSize \in Nat \ {0}
    BY GrantedSize
  <1>2. /\ memory \in [Cells(geometry) -> Int] /\ content \in Seq(Int) /\ Len(content) = total
        /\ \A p \in 0..(total - 1) : memory[at(p)] = content[p + 1]
    BY DEF Stores
  <1>3. offset \in Nat /\ size \in Nat /\ offset + size <= total
    BY <1>1, <1>2 DEF Fits
  <1>4. Apart(segments, Len(granted), InternalRepSize, Cells(geometry))
    BY GrantedApart
  <1> HIDE DEF segments
  <1>5. Reads(result, memory, segments, InternalRepSize, offset, size)
    BY <1>1, <1>2, <1>3, <1>4, FragmentsRead DEF total
  <1> HIDE DEF total, result
  <1>6. /\ result \in Seq(Int) /\ Len(result) = size
        /\ \A i \in 1..size : result[i] = memory[at(offset + i - 1)]
    BY <1>5 DEF Reads
  <1> HIDE DEF at
  <1>7. part \in Seq(Int) /\ Len(part) = size
        /\ \A i \in 1..size : part[i] = content[offset + i]
    <2>1. \A k \in (offset + 1)..(offset + size) : content[k] \in Int
      <3>1. \A k \in 1..total : content[k] \in Int
        BY <1>2, LenProperties
      <3> QED
        BY <1>1, <1>3, <3>1
    <2>2. part \in Seq(Int)
          /\ Len(part) = IF offset + 1 <= offset + size THEN offset + size - (offset + 1) + 1 ELSE 0
      BY <1>2, <1>3, <2>1, SubSeqProperties
    <2>3. \A i \in 1..(offset + size - (offset + 1) + 1) : part[i] = content[offset + 1 + i - 1]
      BY <1>2, <1>3, <2>1, SubSeqProperties
    <2> HIDE DEF part
    <2>4. Len(part) = size
      BY <1>3, <2>2
    <2>5. ASSUME NEW i \in 1..size PROVE part[i] = content[offset + i]
      <3>1. i \in 1..(offset + size - (offset + 1) + 1) /\ offset + 1 + i - 1 = offset + i
        BY <1>3
      <3> QED
        BY <2>3, <3>1
    <2> QED
      BY <2>2, <2>4, <2>5
  <1> HIDE DEF part
  <1>8. ASSUME NEW i \in 1..size PROVE result[i] = part[i]
    <2>1. offset + i - 1 \in 0..(total - 1) /\ (offset + i - 1) + 1 = offset + i
      BY <1>1, <1>3
    <2>2. memory[at(offset + i - 1)] = content[offset + i]
      BY <1>2, <2>1
    <2> QED
      BY <1>6, <1>7, <2>2
  <1>9. result = part
    BY <1>6, <1>7, <1>8, SeqEqual
  <1> QED
    BY <1>9 DEF result, part, segments

\* And the other bytes of the memory are as they were mapped.
LEMMA OthersUntouched ==
  ASSUME Made, GrantedOnce, Stores(geometry, granted, memory, content)
  PROVE  LET own == {<<s.physical, s.addr + k>> : s \in ToSet(ServiceSegments),
                                                  k \in 0..(InternalRepSize - 1)}
         IN \A a \in DOMAIN memory \ own : memory[a] = 0
  <1> DEFINE segments == SegmentsOf(geometry, granted)
             n == Len(granted)
             rep == InternalRepSize
             own == {<<s.physical, s.addr + k>> : s \in ToSet(ServiceSegments), k \in 0..(rep - 1)}
  <1>1. n \in Nat /\ rep \in Nat \ {0} /\ DOMAIN segments = 1..n
    BY GrantedSize, GrantedApart DEF Apart
  <1>2. /\ DOMAIN memory = Cells(geometry)
        /\ \A a \in Cells(geometry) :
             (\A p \in 0..(BytesOf(n, rep) - 1) : a # Location(segments, rep, p)) => memory[a] = 0
    BY DEF Stores
  <1>3. ASSUME NEW p \in 0..(BytesOf(n, rep) - 1) PROVE Location(segments, rep, p) \in own
    <2> DEFINE k == (p \div rep) + 1
               o == p % rep
    <2>1. k \in 1..n /\ o \in 0..(rep - 1)
      <3>1. p \in 0..(n * rep - 1)
        BY DEF BytesOf
      <3>2. CASE n = 0
        BY <1>1, <3>1, <3>2
      <3>3. CASE n # 0
        <4>1. p \div rep \in 0..(n - 1) /\ p % rep \in 0..(rep - 1)
          BY <1>1, <3>1, <3>3, Place
        <4> QED
          BY <1>1, <4>1
      <3> QED
        BY <3>2, <3>3
    <2>2. Location(segments, rep, p) = <<segments[k].physical, segments[k].addr + o>>
      BY DEF Location
    <2> HIDE DEF k, o, segments
    <2>3. segments[k] \in ToSet(segments)
      BY <1>1, <2>1 DEF ToSet
    <2>4. segments[k] \in ToSet(ServiceSegments)
      BY <2>3 DEF ServiceSegments, segments
    <2> QED
      BY <2>1, <2>2, <2>4
  <1> HIDE DEF own, segments
  <1>4. \A a \in DOMAIN memory \ own : memory[a] = 0
    BY <1>2, <1>3
  <1> QED
    BY <1>4 DEF own

\* Whatever part of its segments the service or the client reads is what was last
\* written there by either of them, and the other segments keep their bytes: for
\* any geometry the service starts with, any segments that are granted and any
\* offsets and sizes, as long as the numbers of the segments arrive.
THEOREM SegmentsAreShared == Spec => [](IdsFit => ReadsWhatWasWritten)
  <1>1. ASSUME AppInv, MessagesInv, StoredInv, IdsFit PROVE ReadsWhatWasWritten
    <2> SUFFICES ASSUME pc = "exchanging" PROVE ReadsWhatWasWritten
      BY DEF ReadsWhatWasWritten
    <2>1. Started
      <3>1. program # "app"
        BY <1>1 DEF AppInv, Places, ParserPlaces
      <3> QED
        BY <1>1, <3>1 DEF MessagesInv, Started, ParserPlaces
    <2>2. Made /\ GrantedOnce /\ view = geometry /\ received = granted
      BY <1>1, <2>1 DEF MessagesInv, Introduced, Agreed
    <2>3. Stores(geometry, granted, memory, content)
      BY <1>1, <2>1 DEF StoredInv
    <2>4. ServiceSegments = SegmentsOf(geometry, granted)
          /\ ClientSegments = SegmentsOf(geometry, granted)
      BY <2>2 DEF ServiceSegments, ClientSegments
    <2>5. ASSUME NEW offset \in 0..Len(content), NEW size \in 0..Len(content),
                 NEW segments \in {ServiceSegments, ClientSegments}, Fits(segments, size, offset)
          PROVE  ReadFragmented(memory, segments, size, offset)
                   = SubSeq(content, offset + 1, offset + size)
      <3>1. segments = SegmentsOf(geometry, granted)
        BY <2>4
      <3> QED
        BY <2>2, <2>3, <2>5, <3>1, StoredReads
    <2>6. LET own == {<<s.physical, s.addr + k>> : s \in ToSet(ServiceSegments),
                                                   k \in 0..(InternalRepSize - 1)}
          IN \A a \in DOMAIN memory \ own : memory[a] = 0
      BY <2>2, <2>3, OthersUntouched
    <2> QED
      BY <2>5, <2>6 DEF ReadsWhatWasWritten
  <1>2. (AppInv /\ ServiceInv /\ MessagesInv /\ StoredInv) /\ [Next]_vars
          => (AppInv /\ ServiceInv /\ MessagesInv /\ StoredInv)'
    BY AppStep, ServiceStep, MessagesStep, StoredStep
  <1>3. Init => AppInv /\ ServiceInv /\ MessagesInv /\ StoredInv
    BY AppInitially, ServiceInitially, MessagesInitially, StoredInitially
  <1> QED
    BY <1>1, <1>2, <1>3, PTL DEF Spec

-----------------------------------------------------------------------------
(* The command line *)

\* The place values exist.
LEMMA PlaceValuesExist ==
  ASSUME NEW base \in Nat, NEW n \in Nat
  PROVE  \E w \in [1..n -> Nat] :
           \A k \in 1..n : w[k] = IF k = n THEN 1 ELSE base * w[k + 1]
  <1> DEFINE Eq(w, j) == \A k \in (n - j + 1)..n : w[k] = IF k = n THEN 1 ELSE base * w[k + 1]
             N == {j \in Nat : j <= n => \E w \in [(n - j + 1)..n -> Nat] : Eq(w, j)}
  <1>1. 0 \in N
    <2> DEFINE w == [k \in (n - 0 + 1)..n |-> 0]
    <2>1. (n - 0 + 1)..n = {}
      OBVIOUS
    <2>2. w \in [(n - 0 + 1)..n -> Nat]
      OBVIOUS
    <2> HIDE DEF w
    <2>3. Eq(w, 0)
      BY <2>1
    <2>4. \E u \in [(n - 0 + 1)..n -> Nat] : Eq(u, 0)
      BY <2>2, <2>3
    <2> QED
      BY <2>4
  <1>2. ASSUME NEW j \in N PROVE j + 1 \in N
    <2> HIDE DEF Eq
    <2> SUFFICES ASSUME j + 1 <= n
                 PROVE  \E w \in [(n - (j + 1) + 1)..n -> Nat] : Eq(w, j + 1)
      OBVIOUS
    <2> USE DEF Eq
    <2>1. PICK u \in [(n - j + 1)..n -> Nat] : Eq(u, j)
      BY <1>2
    <2> DEFINE m == n - j
               w == [k \in m..n |-> IF k = n THEN 1 ELSE base * u[k + 1]]
    <2>2. m \in Nat /\ m <= n /\ n - (j + 1) + 1 = m /\ n - j + 1 = m + 1 /\ m > 0
      BY <1>2
    <2>3. /\ u \in [(m + 1)..n -> Nat]
          /\ \A k \in (m + 1)..n : u[k] = IF k = n THEN 1 ELSE base * u[k + 1]
      BY <2>1
    <2> HIDE DEF m
    <2>4. \A k \in m..n : k # n => k + 1 \in (m + 1)..n
      BY <2>2
    <2>5. \A a \in Nat : base * a \in Nat
      OBVIOUS
    <2>6. w \in [m..n -> Nat]
      <3>1. ASSUME NEW k \in m..n PROVE w[k] \in Nat
        BY <2>3, <2>4, <2>5
      <3> QED
        BY <3>1
    <2>7. \A k \in (m + 1)..n : w[k] = u[k]
      BY <2>2, <2>3
    <2>8. \A k \in m..n : w[k] = IF k = n THEN 1 ELSE base * w[k + 1]
      BY <2>4, <2>7
    <2> HIDE DEF w
    <2> QED
      BY <2>2, <2>6, <2>8
  <1>3. N = Nat
    <2> N \in SUBSET Nat
      OBVIOUS
    <2> HIDE DEF N
    <2> QED
      BY <1>1, <1>2, NumbersByInduction
  <1>4. \E w \in [(n - n + 1)..n -> Nat] : Eq(w, n)
    <2> HIDE DEF Eq
    <2>1. n \in N
      BY <1>3
    <2> QED
      BY <2>1
  <1>5. n - n + 1 = 1
    OBVIOUS
  <1> QED
    BY <1>4, <1>5

\* The place value of a digit is that of the next one times the base; the last has 1.
LEMMA Weights ==
  ASSUME NEW base \in Nat, NEW n \in Nat
  PROVE  /\ PlaceValues(base, n) \in [1..n -> Nat]
         /\ \A k \in 1..n : PlaceValues(base, n)[k] =
              IF k = n THEN 1 ELSE base * PlaceValues(base, n)[k + 1]
  <1> DEFINE Eq(w) == w = [k \in 1..n |-> IF k = n THEN 1 ELSE base * w[k + 1]]
             v == CHOOSE w : Eq(w)
  <1>1. PICK w \in [1..n -> Nat] : \A k \in 1..n : w[k] = IF k = n THEN 1 ELSE base * w[k + 1]
    BY PlaceValuesExist
  <1>2. Eq(w)
    <2> DEFINE u == [k \in 1..n |-> IF k = n THEN 1 ELSE base * w[k + 1]]
    <2>1. \A k \in 1..n : w[k] = u[k]
      BY <1>1
    <2>2. w = [k \in 1..n |-> w[k]] /\ u = [k \in 1..n |-> u[k]]
      OBVIOUS
    <2> HIDE DEF u
    <2>3. [k \in 1..n |-> w[k]] = [k \in 1..n |-> u[k]]
      BY <2>1, Zenon
    <2>4. w = u
      BY <2>2, <2>3, Zenon
    <2> QED
      BY <2>4 DEF u
  <1>3. Eq(v)
    BY <1>2
  <1>4. PlaceValues(base, n) = v
    BY DEF PlaceValues
  <1> HIDE DEF v
  <1>5. \A k \in 1..n : v[k] = IF k = n THEN 1 ELSE base * v[k + 1]
    BY <1>3
  <1>6. \A k \in 1..n : v[k] = w[k]
    <2> DEFINE N == {j \in Nat : j < n => v[n - j] = w[n - j]}
    <2>1. 0 \in N
      BY <1>1, <1>5
    <2>2. ASSUME NEW j \in N PROVE j + 1 \in N
      <3> SUFFICES ASSUME j + 1 < n PROVE v[n - (j + 1)] = w[n - (j + 1)]
        OBVIOUS
      <3> DEFINE k == n - (j + 1)
      <3>1. k \in 1..n /\ k # n /\ k + 1 = n - j
        OBVIOUS
      <3>2. v[n - j] = w[n - j]
        BY <2>2
      <3> HIDE DEF k, N
      <3>3. v[k] = base * v[k + 1] /\ w[k] = base * w[k + 1]
        BY <1>1, <1>5, <3>1
      <3> QED
        BY <3>1, <3>2, <3>3 DEF k
    <2>3. N = Nat
      <3> N \in SUBSET Nat
        OBVIOUS
      <3> HIDE DEF N
      <3> QED
        BY <2>1, <2>2, NumbersByInduction
    <2>4. ASSUME NEW k \in 1..n PROVE v[k] = w[k]
      <3>1. n - k \in Nat /\ n - k < n /\ n - (n - k) = k
        OBVIOUS
      <3>2. n - k \in N
        BY ONLY <2>3, <3>1
      <3> QED
        BY <3>1, <3>2
    <2> QED
      BY <2>4
  <1>7. v \in [1..n -> Nat]
    <2>1. v = [k \in 1..n |-> v[k]]
      BY <1>3
    <2>2. \A k \in 1..n : v[k] \in Nat
      BY <1>1, <1>6
    <2> QED
      BY <2>1, <2>2
  <1> QED
    BY <1>4, <1>5, <1>7

\* Reading the digits from the left comes to the sum of what each one counts.
LEMMA ReadAsSum ==
  ASSUME NEW base \in Nat, NEW digits \in Seq(Nat)
  PROVE  LET w == PlaceValues(base, Len(digits))
         IN SumFunction([k \in DOMAIN digits |-> digits[k] * w[k]]) =
              FoldLeft(LAMBDA n, d : base * n + d, 0, digits)
  <1> DEFINE n == Len(digits)
             w == PlaceValues(base, n)
             f == [k \in DOMAIN digits |-> digits[k] * w[k]]
  <1>1. n \in Nat /\ DOMAIN digits = 1..n /\ \A k \in 1..n : digits[k] \in Nat
    BY LenProperties
  <1>2. w \in [1..n -> Nat] /\ \A k \in 1..n : w[k] = IF k = n THEN 1 ELSE base * w[k + 1]
    BY <1>1, Weights
  <1>3. PICK g : NumeralBy(g, base, digits)
    BY NumeralSteps
  <1> HIDE DEF n, w
  <1>4. \A k \in 1..n : f[k] = digits[k] * w[k] /\ f[k] \in Nat
    <2>1. \A a, b \in Nat : a * b \in Nat
      OBVIOUS
    <2> QED
      BY <1>1, <1>2, <2>1
  <1>5. DOMAIN f = 1..n /\ SumFunction(f) = SumFunctionOnSet(f, 1..n)
    BY <1>1 DEF SumFunction
  <1> HIDE DEF f
  <1>6. g[{}] = 0 /\ \A j \in 1..n : /\ g[1..j] \in Nat
                                      /\ g[1..j] = base * g[1..(j - 1)] + digits[j]
    <2>1. g[{}] = 0
      BY <1>3 DEF NumeralBy
    <2>2. ASSUME NEW j \in 1..n
          PROVE  g[1..j] \in Nat /\ g[1..j] = base * g[1..(j - 1)] + digits[j]
      <3>1. 1..j \in SUBSET (1..n) /\ 1..j # {} /\ (1..j) \ {j} = 1..(j - 1)
        <4>1. j \in Nat /\ 1 <= j /\ j <= n
          BY <1>1
        <4>2. 1..j \in SUBSET (1..n) /\ j \in 1..j
          BY <1>1, <4>1
        <4>3. (1..j) \ {j} = 1..(j - 1)
          BY <4>1
        <4> QED
          BY <4>2, <4>3
      <3>2. Max(1..j) = j
        <4>1. /\ j \in 1..j /\ \A i \in 1..j : j >= i
          BY <1>1
        <4>2. \A m \in 1..j : (\A i \in 1..j : m >= i) => m = j
          BY <1>1
        <4> QED
          BY <4>1, <4>2 DEF Max
      <3> QED
        BY <1>1, <1>3, <3>1, <3>2 DEF NumeralBy
    <2> QED
      BY <2>1, <2>2
  <1> DEFINE N == {j \in Nat : j + 1 <= n =>
                     SumFunctionOnSet(f, 1..(j + 1)) = g[1..(j + 1)] * w[j + 1]}
  <1>7. ASSUME NEW j \in Nat, j + 1 <= n
        PROVE  SumFunctionOnSet(f, 1..(j + 1)) = f[j + 1] + SumFunctionOnSet(f, 1..j)
    <2>1. IsFiniteSet(1..(j + 1)) /\ (1..(j + 1)) \ {j + 1} = 1..j /\ j + 1 \in 1..(j + 1)
      BY FS_Interval
    <2>2. \A x \in 1..(j + 1) : f[x] \in Nat
      BY <1>1, <1>4, <1>7
    <2>3. SumFunctionOnSet(f, 1..(j + 1)) =
            f[j + 1] + SumFunctionOnSet(f, (1..(j + 1)) \ {j + 1})
      BY <2>1, <2>2, SumSplit, Zenon
    <2> QED
      BY <2>1, <2>3
  <1>8. 0 \in N
    <2> SUFFICES ASSUME 0 + 1 <= n
                 PROVE  SumFunctionOnSet(f, 1..(0 + 1)) = g[1..(0 + 1)] * w[0 + 1]
      OBVIOUS
    <2>1. SumFunctionOnSet(f, 1..(0 + 1)) = f[0 + 1] + SumFunctionOnSet(f, 1..0)
      BY <1>7
    <2>2. 1..0 = {} /\ 0 + 1 = 1 /\ 1 - 1 = 0 /\ 1 \in 1..n
      BY <1>1
    <2>3. SumFunctionOnSet(f, 1..0) = 0
      BY <2>2, SumEmpty
    <2>4. f[1] = digits[1] * w[1] /\ f[1] \in Nat
      BY <1>4, <2>2
    <2>5. g[1..1] = digits[1]
      <3>1. ASSUME NEW j \in 1..n, j = 1
            PROVE  g[1..j] = base * 0 + digits[j]
        <4>1. g[1..j] = base * g[1..(j - 1)] + digits[j]
          BY <1>6
        <4>2. 1..(j - 1) = {}
          BY <3>1
        <4> QED
          BY <1>6, <4>1, <4>2
      <3>2. digits[1] \in Nat /\ base * 0 + digits[1] = digits[1]
        BY <1>1, <2>2
      <3>3. g[1..1] = base * 0 + digits[1]
        BY <2>2, <3>1
      <3> QED
        BY <3>2, <3>3
    <2> QED
      BY <2>1, <2>2, <2>3, <2>4, <2>5
  <1>9. ASSUME NEW j \in N PROVE j + 1 \in N
    <2> SUFFICES ASSUME j + 1 + 1 <= n
                 PROVE  SumFunctionOnSet(f, 1..(j + 1 + 1)) = g[1..(j + 1 + 1)] * w[j + 1 + 1]
      OBVIOUS
    <2> DEFINE k == j + 1
    <2>1. k \in 1..n /\ k + 1 \in 1..n /\ k # n /\ k + 1 - 1 = k /\ k \in Nat /\ k + 1 <= n
      BY <1>1
    <2>2. SumFunctionOnSet(f, 1..k) = g[1..k] * w[k]
      BY <1>1
    <2> HIDE DEF k, N
    <2>3. SumFunctionOnSet(f, 1..(k + 1)) = f[k + 1] + SumFunctionOnSet(f, 1..k)
      BY <1>7, <2>1
    <2>4. f[k + 1] = digits[k + 1] * w[k + 1] /\ w[k] = base * w[k + 1]
      BY <1>2, <1>4, <2>1
    <2>5. g[1..(k + 1)] = base * g[1..k] + digits[k + 1]
      BY <1>6, <2>1
    <2>6. SumFunctionOnSet(f, 1..(k + 1)) = g[1..(k + 1)] * w[k + 1]
      <3>1. PICK a \in Nat, b \in Nat, c \in Nat : a = g[1..k] /\ b = w[k + 1] /\ c = digits[k + 1]
        BY <1>1, <1>2, <1>6, <2>1
      <3>2. SumFunctionOnSet(f, 1..(k + 1)) = c * b + a * (base * b)
        BY <2>2, <2>3, <2>4, <3>1
      <3>3. g[1..(k + 1)] * w[k + 1] = (base * a + c) * b
        BY <2>5, <3>1
      <3>4. c * b + a * (base * b) = (base * a + c) * b
        BY ONLY a \in Nat, b \in Nat, c \in Nat, base \in Nat, SMTT(30)
      <3> QED
        BY <3>2, <3>3, <3>4
    <2> QED
      BY <2>6 DEF k
  <1>10. N = Nat
    <2> N \in SUBSET Nat
      OBVIOUS
    <2> HIDE DEF N
    <2> QED
      BY <1>8, <1>9, NumbersByInduction
  <1>11. SumFunction(f) = g[DOMAIN digits]
    <2>1. CASE n = 0
      <3>1. 1..n = {}
        BY <2>1
      <3> QED
        BY <1>1, <1>5, <1>6, <3>1, SumEmpty
    <2>2. CASE n # 0
      <3>1. n - 1 \in Nat /\ n - 1 + 1 = n /\ n \in 1..n
        BY <1>1, <2>2
      <3>2. n - 1 \in N
        BY ONLY <1>10, <3>1
      <3>3. w[n] = 1
        BY <1>2, <3>1
      <3>4. SumFunctionOnSet(f, 1..n) = g[1..n] * 1
        BY <3>1, <3>2, <3>3
      <3>5. g[1..n] \in Nat
        BY <1>6, <3>1
      <3> QED
        BY <1>1, <1>5, <3>4, <3>5
    <2> QED
      BY <2>1, <2>2
  <1>12. FoldLeft(LAMBDA m, d : base * m + d, 0, digits) = g[DOMAIN digits]
    BY <1>3 DEF NumeralBy
  <1> QED
    BY <1>11, <1>12 DEF f, w, n

\* parse_number has the number that the word denotes, and throws if there is none.
LEMMA NumberDenoted ==
  ASSUME NEW word, IsNumeral(word), word.kind \in {"text", "number"}
  PROVE  IF ParseNumber(word).thrown = "nothing"
         THEN Denoted(word) = {ParseNumber(word).value}
         ELSE Denoted(word) = {}
  <1>1. \A v : ValueOf(v).thrown = "nothing" /\ ValueOf(v).value = v
    BY DEF ValueOf
  <1>2. Throws("invalid_argument").thrown # "nothing" /\ Throws("runtime_error").thrown # "nothing"
    BY DEF Throws
  <1>3. CASE word.kind = "text"
    BY <1>2, <1>3 DEF ParseNumber, Denoted
  <1>4. CASE word.kind = "number"
    <2> DEFINE digits == DigitsOf(word.chars)
               base == Base(word)
               minus == IsNegative(word.chars)
               magnitude == FoldLeft(LAMBDA n, d : base * n + d, 0, digits)
               limit == IF minus THEN IntMax + 1 ELSE IntMax
               w == PlaceValues(base, Len(digits))
               size == SumFunction([k \in DOMAIN digits |-> digits[k] * w[k]])
               value == IF minus THEN -magnitude ELSE magnitude
               fine == digits # << >> /\ \A k \in DOMAIN digits : digits[k] < base
    <2>1. digits \in Seq(Chars) /\ base \in Nat
      BY <1>4, DigitsBehindMinus DEF IsNumeral, Base
    <2>2. ParseNumber(word) = FromChars(base, minus, digits)
      BY <1>4 DEF ParseNumber
    <2>3. Denoted(word) = {n \in {IF minus THEN -size ELSE size} :
                             fine /\ -(IntMax + 1) <= n /\ n <= IntMax}
      BY <1>4 DEF Denoted
    <2>4. digits \in Seq(Nat)
      BY <2>1, DigitsNatural
    <2> HIDE DEF digits, base, minus
    <2>5. IF fine /\ magnitude <= limit
          THEN FromChars(base, minus, digits) = ValueOf(value)
          ELSE FromChars(base, minus, digits)
                 \in {Throws("invalid_argument"), Throws("runtime_error")}
      BY <2>1, FromCharsReads
    <2>6. size = magnitude
      BY <2>1, <2>4, ReadAsSum
    <2>7. magnitude \in Nat
      BY <2>1, <2>4, NumeralValue
    <2> HIDE DEF size, magnitude, fine
    <2>8. Denoted(word) = IF fine /\ magnitude <= limit THEN {value} ELSE {}
      <3>1. magnitude <= limit <=> -(IntMax + 1) <= value /\ value <= IntMax
        BY <2>7, ArgumentsAssumption
      <3>2. Denoted(word) = {n \in {value} : fine /\ -(IntMax + 1) <= n /\ n <= IntMax}
        BY <2>3, <2>6
      <3> HIDE DEF value, limit
      <3> QED
        BY <3>1, <3>2
    <2> HIDE DEF value, limit
    <2> QED
      BY <1>1, <1>2, <2>2, <2>5, <2>8
  <1> QED
    BY <1>3, <1>4

\* An action that takes a word without throwing finds that it suits the argument,
\* and one that throws that it does not.
LEMMA ActSuits ==
  ASSUME NEW a, a.action \in {"store", "parse_number", "choose"},
         NEW word, IsNumeral(word), IsPositional(word)
  PROVE  /\ Act(a, word).thrown = "nothing" <=> Suits(a, word)
         /\ Act(a, word).thrown \in {"nothing", "runtime_error", "invalid_argument"}
         /\ Act(a, word).thrown = "nothing" /\ a.action = "parse_number" =>
              Denoted(word) = {Act(a, word).value}
         /\ Act(a, word).thrown = "invalid_argument" =>
              a.action = "parse_number" /\ Denoted(word) = {}
  <1>1. word.kind \in {"text", "number"}
    BY DEF IsPositional
  <1>2. \A v : ValueOf(v).thrown = "nothing"
    BY DEF ValueOf
  <1>3. \A e : Throws(e).thrown = e
    BY DEF Throws
  <1>4. Act(a, word).thrown \in {"nothing", "runtime_error", "invalid_argument"}
    BY ActThrows
  <1>5. CASE a.action = "store"
    BY <1>2, <1>4, <1>5 DEF Act, Suits
  <1>6. CASE a.action = "choose"
    <2>1. Act(a, word) = IF word.kind = "text" /\ word.text \in a.choices THEN ValueOf(word.text)
                         ELSE Throws("runtime_error")
      BY <1>6 DEF Act
    <2>2. Suits(a, word) <=> word.kind = "text" /\ word.text \in a.choices
      BY <1>6 DEF Suits
    <2> QED
      BY <1>2, <1>3, <1>6, <2>1, <2>2
  <1>7. CASE a.action = "parse_number"
    <2>1. Act(a, word) = ParseNumber(word)
      BY <1>7 DEF Act
    <2>2. Suits(a, word) <=> Denoted(word) # {}
      BY <1>7 DEF Suits
    <2>3. IF ParseNumber(word).thrown = "nothing"
          THEN Denoted(word) = {ParseNumber(word).value}
          ELSE Denoted(word) = {}
      BY <1>1, NumberDenoted
    <2> QED
      BY <1>4, <1>7, <2>1, <2>2, <2>3
  <1> QED
    BY <1>5, <1>6, <1>7

\* The arguments of a program: each has names of its own; flags, which are the
\* only ones with a name of one letter, end the program; the others have a value.
IsFlag(a) == a \in DefaultArguments /\ a.max = 0 /\ a.min = 0 /\ ~a.required
TakesValue(a) ==
  /\ a.max = 1 /\ a.min \in {0, 1} /\ a.action \in {"store", "parse_number", "choose"}
  /\ a.action = "parse_number" => a.min = 1
  /\ a.required => a.default = NoDefault
  /\ "-h" \notin a.names /\ "-v" \notin a.names
WellFormed(arguments) ==
  /\ \A a, b \in arguments : \A name : name \in a.names /\ name \in b.names => a = b
  /\ \A a \in arguments :
       a.names # {} /\ "unknown" \notin a.names /\ (IsFlag(a) \/ TakesValue(a))

Owned(arguments, names) ==
  \E owner : \A a \in arguments : a.names \subseteq names /\ \A name \in a.names : owner[name] = a

\* A name belongs to one argument.
LEMMA OwnersApart ==
  ASSUME NEW arguments, NEW names, Owned(arguments, names)
  PROVE  \A a, b \in arguments : \A name : name \in a.names /\ name \in b.names => a = b
  BY DEF Owned

\* The arguments of every program are flags.
LEMMA DefaultFlags ==
  LET help == Flag(AddArgument({"-h", "--help"}))
      version == Flag(AddArgument({"-v", "--version"}))
  IN /\ DefaultArguments = {help, version}
     /\ help.names = {"-h", "--help"} /\ version.names = {"-v", "--version"}
     /\ IsFlag(help) /\ IsFlag(version)
  BY DEF DefaultArguments, Flag, AddArgument, IsFlag

\* The arguments of the service are well formed.
LEMMA ServiceWellFormed == WellFormed(ServiceArguments)
  <1> DEFINE help == Flag(AddArgument({"-h", "--help"}))
             version == Flag(AddArgument({"-v", "--version"}))
             scheduler == Choose(DefaultValue(AddArgument({"--scheduler"}), "ROUND_ROBIN"),
                                 {"ROUND_ROBIN", "CREDIT"})
  <1>1. /\ help.names = {"-h", "--help"} /\ version.names = {"-v", "--version"}
        /\ IsFlag(help) /\ IsFlag(version)
    BY DefaultFlags
  <1>2. /\ scheduler.names = {"--scheduler"} /\ TakesValue(scheduler)
        /\ Count.names = {"--n_sms"} /\ TakesValue(Count)
        /\ Size.names = {"--sms_size"} /\ TakesValue(Size)
    BY DEF Choose, DefaultValue, AddArgument, Count, Size, ScanInt, Required, TakesValue, NoDefault
  <1>3. ServiceArguments = {help, version, scheduler, Count, Size}
    BY DEF ServiceArguments, DefaultArguments, Count, Size
  <1> HIDE DEF help, version, scheduler
  <1> DEFINE names == {"-h", "--help", "-v", "--version", "--scheduler", "--n_sms", "--sms_size"}
             owner == [name \in names |->
                         IF name \in {"-h", "--help"} THEN help
                         ELSE IF name \in {"-v", "--version"} THEN version
                         ELSE IF name = "--scheduler" THEN scheduler
                         ELSE IF name = "--n_sms" THEN Count ELSE Size]
  <1>4. \A a \in ServiceArguments : a.names \subseteq names /\ \A name \in a.names : owner[name] = a
    BY <1>1, <1>2, <1>3
  <1>5. Owned(ServiceArguments, names)
    <2> HIDE DEF owner, names
    <2> QED
      BY <1>4 DEF Owned
  <1>6. \A a \in ServiceArguments : a.names # {} /\ "unknown" \notin a.names
    BY <1>1, <1>2, <1>3
  <1>7. \A a \in ServiceArguments : IsFlag(a) \/ TakesValue(a)
    BY <1>1, <1>2, <1>3
  <1> QED
    BY <1>5, <1>6, <1>7, OwnersApart DEF WellFormed

\* The arguments of the application are well formed.
LEMMA AppWellFormed == WellFormed(AppArguments)
  <1> DEFINE help == Flag(AddArgument({"-h", "--help"}))
             version == Flag(AddArgument({"-v", "--version"}))
             state == Choose(Required(AddArgument({"--state"})), {"SYNC", "ASYNC"})
             file == AddArgument({"--file"})
             files == AddArgument({"--files"})
             priority == ScanInt(AddArgument({"--priority"}))
             log == AddArgument({"--log"})
  <1>1. /\ help.names = {"-h", "--help"} /\ version.names = {"-v", "--version"}
        /\ IsFlag(help) /\ IsFlag(version)
    BY DefaultFlags
  <1>2. /\ state.names = {"--state"} /\ TakesValue(state)
        /\ file.names = {"--file"} /\ TakesValue(file)
        /\ files.names = {"--files"} /\ TakesValue(files)
    BY DEF Choose, AddArgument, Required, TakesValue, NoDefault
  <1>3. /\ priority.names = {"--priority"} /\ TakesValue(priority)
        /\ log.names = {"--log"} /\ TakesValue(log)
    BY DEF ScanInt, AddArgument, TakesValue, NoDefault
  <1>4. AppArguments = {help, version, state, file, files, priority, log}
    BY DEF AppArguments, DefaultArguments
  <1> HIDE DEF help, version, state, file, files, priority, log
  <1> DEFINE names == {"-h", "--help", "-v", "--version", "--state", "--file", "--files",
                       "--priority", "--log"}
             owner == [name \in names |->
                         IF name \in {"-h", "--help"} THEN help
                         ELSE IF name \in {"-v", "--version"} THEN version
                         ELSE IF name = "--state" THEN state
                         ELSE IF name = "--file" THEN file
                         ELSE IF name = "--files" THEN files
                         ELSE IF name = "--priority" THEN priority ELSE log]
  <1>5. \A a \in AppArguments : a.names \subseteq names /\ \A name \in a.names : owner[name] = a
    BY <1>1, <1>2, <1>3, <1>4
  <1>6. Owned(AppArguments, names)
    <2> HIDE DEF owner, names
    <2> QED
      BY <1>5 DEF Owned
  <1>7. \A a \in AppArguments : a.names # {} /\ "unknown" \notin a.names
    BY <1>1, <1>2, <1>3, <1>4
  <1>8. \A a \in AppArguments : IsFlag(a) \/ TakesValue(a)
    BY <1>1, <1>2, <1>3, <1>4
  <1> QED
    BY <1>6, <1>7, <1>8, OwnersApart DEF WellFormed
-----------------------------------------------------------------------------
\* The word at place k of the line is an option with what it needs, or the value of one.
Placed(arguments, line, k) ==
  \E a \in arguments :
    \/ /\ k \in Occurrences(a, line) /\ a.max = 1
       /\ \/ k + 1 \in DOMAIN line /\ Suits(a, line[k + 1])
          \/ a.min = 0 /\ (k + 1 \in DOMAIN line => ~IsPositional(line[k + 1]))
    \/ k - 1 \in Occurrences(a, line) /\ IsPositional(line[k])

\* The words ws are those of the line from the p-th on.
Rest(ws, line, p) ==
  /\ \E T : ws \in Seq(T)
  /\ p \in 0..Len(line) /\ Len(ws) = Len(line) - p
  /\ \A i \in 1..Len(ws) : ws[i] = line[p + i]

\* What the parser knows of the first p words.
Found(arguments, line, p) ==
  /\ \A a \in arguments : a.names \in used <=> \E k \in Occurrences(a, line) : k <= p
  /\ \A a \in arguments : \A j, k \in Occurrences(a, line) : j <= p /\ k <= p => j = k
  /\ \A a \in arguments : \A k \in Occurrences(a, line) :
       k <= p /\ a.action = "parse_number" =>
         /\ a.names \in DOMAIN values /\ k + 1 \in DOMAIN line
         /\ Denoted(line[k + 1]) = {values[a.names]}

\* The first p words of the line have been parsed, and were legal.
Parsed(arguments, line, p) ==
  /\ Rest(words, line, p) /\ Found(arguments, line, p)
  /\ \A k \in 1..p : Placed(arguments, line, k)
  /\ \A a \in arguments : p \in Occurrences(a, line) /\ p + 1 \in DOMAIN line =>
       ~IsPositional(line[p + 1])

\* A line that can be read is a sequence of such words.
LEMMA ReadableLine ==
  ASSUME NEW line, Readable(line)
  PROVE  /\ Len(line) \in Nat /\ DOMAIN line = 1..Len(line)
         /\ \A k \in 1..Len(line) : IsNumeral(line[k])
  <1>1. PICK T : line \in Seq(T) /\ \A w \in T : IsNumeral(w)
    BY DEF Readable
  <1>2. Len(line) \in Nat /\ line \in [1..Len(line) -> T]
    BY <1>1, LenProperties
  <1> QED
    BY <1>1, <1>2

\* Only a name is an occurrence of an argument, and no name is positional.
LEMMA OccurrencesAre ==
  ASSUME NEW a, NEW line, NEW k \in Occurrences(a, line)
  PROVE  /\ k \in DOMAIN line /\ line[k].kind = "name" /\ line[k].name \in a.names
         /\ ~IsPositional(line[k])
  BY DEF Occurrences, IsPositional

\* The word that is read next.
LEMMA NextWord ==
  ASSUME NEW line, Len(line) \in Nat, NEW ws, NEW p, Rest(ws, line, p)
  PROVE  /\ p \in 0..Len(line) /\ (ws = << >> <=> p = Len(line))
         /\ ws # << >> => /\ p + 1 \in 1..Len(line) /\ Head(ws) = line[p + 1]
                          /\ Rest(Tail(ws), line, p + 1)
  <1>1. PICK T : ws \in Seq(T)
    BY DEF Rest
  <1>2. /\ p \in 0..Len(line) /\ Len(ws) = Len(line) - p /\ Len(ws) \in Nat
        /\ \A i \in 1..Len(ws) : ws[i] = line[p + i]
    BY DEF Rest
  <1>3. ws = << >> <=> Len(ws) = 0
    BY <1>1, EmptySeq
  <1>4. ASSUME ws # << >>
        PROVE  /\ p + 1 \in 1..Len(line) /\ Head(ws) = line[p + 1]
               /\ Rest(Tail(ws), line, p + 1)
    <2>1. p + 1 \in 1..Len(line) /\ Len(ws) # 0 /\ 1 \in 1..Len(ws)
      BY <1>2, <1>3, <1>4
    <2>2. /\ Tail(ws) \in Seq(T) /\ Len(Tail(ws)) = Len(ws) - 1 /\ Head(ws) = ws[1]
          /\ \A i \in 1..Len(Tail(ws)) : Tail(ws)[i] = ws[i + 1]
      BY <1>1, <1>4, HeadTailProperties
    <2>3. \A i \in 1..Len(Tail(ws)) : Tail(ws)[i] = line[p + 1 + i]
      <3>1. ASSUME NEW i \in 1..Len(Tail(ws)) PROVE Tail(ws)[i] = line[p + 1 + i]
        <4>1. i + 1 \in 1..Len(ws) /\ p + (i + 1) = p + 1 + i
          BY <1>2, <2>2
        <4> QED
          BY <1>2, <2>2, <4>1
      <3> QED
        BY <3>1
    <2>4. Len(Tail(ws)) = Len(line) - (p + 1) /\ p + 1 \in 0..Len(line)
      BY <1>2, <2>1, <2>2
    <2> QED
      BY <1>2, <2>1, <2>2, <2>3, <2>4 DEF Rest
  <1> QED
    BY <1>2, <1>3, <1>4
-----------------------------------------------------------------------------
(* How the parser ends *)

\* What the parser has left is the rest of the line.
LEMMA WordParsed ==
  ASSUME NEW arguments, NEW line, Readable(line), NEW p, Parsed(arguments, line, p)
  PROVE  /\ p \in 0..Len(line) /\ p \in Nat /\ (words = << >> <=> p = Len(line))
         /\ words # << >> => /\ p + 1 \in DOMAIN line /\ Head(words) = line[p + 1]
                             /\ Rest(Tail(words), line, p + 1)
  <1>1. Rest(words, line, p)
    BY DEF Parsed
  <1>2. Len(line) \in Nat /\ DOMAIN line = 1..Len(line)
    BY ReadableLine
  <1>3. /\ p \in 0..Len(line) /\ (words = << >> <=> p = Len(line))
        /\ words # << >> => /\ p + 1 \in 1..Len(line) /\ Head(words) = line[p + 1]
                            /\ Rest(Tail(words), line, p + 1)
    BY <1>1, <1>2, NextWord
  <1>4. p \in 0..Len(line)
    BY <1>3
  <1>5. p \in Nat
    BY ONLY <1>2, <1>4
  <1> QED
    BY <1>2, <1>3, <1>5, Zenon

\* The word at p + 1 is placed by itself or by the name before it.
LEMMA PlacedAs ==
  ASSUME NEW arguments, NEW line, NEW p \in Nat, Placed(arguments, line, p + 1)
  PROVE  \E a \in arguments :
           \/ /\ p + 1 \in Occurrences(a, line) /\ a.max = 1
              /\ \/ p + 2 \in DOMAIN line /\ Suits(a, line[p + 2])
                 \/ a.min = 0 /\ (p + 2 \in DOMAIN line => ~IsPositional(line[p + 2]))
           \/ p \in Occurrences(a, line) /\ IsPositional(line[p + 1])
  <1> DEFINE k == p + 1
             i == k - 1
             j == k + 1
  <1>1. PICK a \in arguments :
          \/ /\ k \in Occurrences(a, line) /\ a.max = 1
             /\ \/ j \in DOMAIN line /\ Suits(a, line[j])
                \/ a.min = 0 /\ (j \in DOMAIN line => ~IsPositional(line[j]))
          \/ i \in Occurrences(a, line) /\ IsPositional(line[k])
    BY Zenon DEF Placed
  <1>2. i = p /\ j = p + 2
    OBVIOUS
  <1> HIDE DEF i, j
  <1> QED
    BY <1>1, <1>2

\* A line is not legal when a word of it has no place.
LEMMA NotPlaced ==
  ASSUME NEW arguments, NEW line, NEW k \in DOMAIN line, ~Placed(arguments, line, k)
  PROVE  ~Legal(arguments, line)
  BY DEF Legal, Placed

\* A line is not legal when it gives an argument twice.
LEMMA GivenTwice ==
  ASSUME NEW arguments, NEW line, Readable(line), NEW a \in arguments,
         NEW j \in Occurrences(a, line), NEW k \in Occurrences(a, line), j # k
  PROVE  ~Legal(arguments, line)
  <1>1. IsFiniteSet(Occurrences(a, line))
    <2>1. DOMAIN line = 1..Len(line) /\ Len(line) \in Nat
      BY ReadableLine
    <2>2. IsFiniteSet(DOMAIN line) /\ Occurrences(a, line) \subseteq DOMAIN line
      BY <2>1, FS_Interval DEF Occurrences
    <2> QED
      BY <2>2, FS_Subset
  <1>2. Cardinality({j, k}) = 2 /\ {j, k} \subseteq Occurrences(a, line)
    <2>1. IsFiniteSet({j}) /\ Cardinality({j}) = 1
      BY FS_Singleton
    <2>2. Cardinality({j} \cup {k}) = Cardinality({j}) + 1 /\ {j} \cup {k} = {j, k}
      BY <2>1, FS_AddElement
    <2> QED
      BY <2>1, <2>2
  <1>3. Cardinality({j, k}) <= Cardinality(Occurrences(a, line))
    BY <1>1, <1>2, FS_Subset
  <1>4. Cardinality(Occurrences(a, line)) \in Nat
    BY <1>1, FS_CardinalityType
  <1>5. ~(Cardinality(Occurrences(a, line)) <= 1)
    BY <1>2, <1>3, <1>4
  <1> QED
    BY <1>5 DEF Legal

\* A set whose elements are all the same has one at most.
LEMMA AtMostOnce ==
  ASSUME NEW S, \A j, k \in S : j = k
  PROVE  Cardinality(S) <= 1
  <1>1. CASE S = {}
    BY <1>1, FS_EmptySet
  <1>2. CASE S # {}
    <2>1. PICK x \in S : S = {x}
      BY <1>2
    <2> QED
      BY <2>1, FS_Singleton
  <1> QED
    BY <1>1, <1>2

\* A value where no option asks for one.
LEMMA PositionalEnds ==
  ASSUME NEW arguments, NEW line, Readable(line), NEW p, Parsed(arguments, line, p),
         PositionalArgument
  PROVE  ~Legal(arguments, line)
  <1>1. p \in Int /\ p + 1 \in DOMAIN line /\ IsPositional(line[p + 1])
    BY WordParsed DEF PositionalArgument
  <1>2. ~Placed(arguments, line, p + 1)
    <2>1. p \in Nat
      BY WordParsed
    <2>2. \A a \in arguments : p + 1 \notin Occurrences(a, line)
      BY <1>1, OccurrencesAre
    <2>3. \A a \in arguments : p \notin Occurrences(a, line)
      BY <1>1 DEF Parsed
    <2> QED
      BY <2>1, <2>2, <2>3, PlacedAs
  <1> QED
    BY <1>1, <1>2, NotPlaced

\* A word that names no argument.
LEMMA UnknownEnds ==
  ASSUME NEW arguments, NEW line, Readable(line), NEW p, Parsed(arguments, line, p),
         UnknownArgument(arguments)
  PROVE  ~Legal(arguments, line)
  <1>1. /\ p + 1 \in DOMAIN line /\ ~IsPositional(line[p + 1])
        /\ ~Known(arguments, OptionOf(line[p + 1]))
    BY WordParsed DEF UnknownArgument
  <1>2. ASSUME NEW a \in arguments PROVE p + 1 \notin Occurrences(a, line)
    <2> SUFFICES ASSUME p + 1 \in Occurrences(a, line) PROVE FALSE
      OBVIOUS
    <2>1. OptionOf(line[p + 1]) = line[p + 1].name /\ line[p + 1].name \in a.names
      BY OccurrencesAre DEF OptionOf
    <2> QED
      BY <1>1, <2>1 DEF Known
  <1>3. ~Placed(arguments, line, p + 1)
    BY <1>1, <1>2 DEF Placed
  <1> QED
    BY <1>1, <1>3, NotPlaced

\* The argument a that the next word asks for: a flag, or one that the word names.
Asked(arguments, line, p, a) ==
  /\ a \in arguments /\ p + 1 \in DOMAIN line /\ ~IsPositional(line[p + 1])
  /\ OptionOf(line[p + 1]) \in a.names

\* The argument asked for occurs where it is named; only a flag may be asked for by letters.
LEMMA NamedOrFlag ==
  ASSUME NEW arguments, WellFormed(arguments), NEW line, NEW p, NEW a,
         Asked(arguments, line, p, a)
  PROVE  /\ p + 1 \in Occurrences(a, line) <=> line[p + 1].kind = "name"
         /\ ~IsFlag(a) => p + 1 \in Occurrences(a, line)
  <1>1. CASE line[p + 1].kind = "name"
    BY <1>1 DEF Asked, Occurrences, OptionOf
  <1>2. CASE line[p + 1].kind # "name"
    <2>1. OptionOf(line[p + 1]) \in {"-h", "-v", "unknown"}
      BY <1>2 DEF OptionOf, ShortOption
    <2>2. IsFlag(a)
      BY <2>1 DEF Asked, WellFormed, TakesValue
    <2>3. p + 1 \notin Occurrences(a, line)
      BY <1>2, OccurrencesAre
    <2> QED
      BY <1>2, <2>2, <2>3
  <1> QED
    BY <1>1, <1>2

\* No other argument is asked for by the same word.
LEMMA OnlyOne ==
  ASSUME NEW arguments, WellFormed(arguments), NEW line, NEW k,
         NEW a \in arguments, NEW b \in arguments,
         k \in Occurrences(a, line), k \in Occurrences(b, line)
  PROVE  a = b
  BY DEF WellFormed, Occurrences

\* An argument is known by its names.
LEMMA OnlyNames ==
  ASSUME NEW arguments, WellFormed(arguments), NEW a \in arguments, NEW b \in arguments,
         a.names = b.names
  PROVE  a = b
  <1>1. PICK name : name \in a.names
    BY DEF WellFormed
  <1> QED
    BY <1>1 DEF WellFormed

\* An option that was given before.
LEMMA RepeatedEnds ==
  ASSUME NEW arguments, WellFormed(arguments), NEW line, Readable(line), NEW p,
         Parsed(arguments, line, p), NEW a, Asked(arguments, line, p, a), a.names \in used
  PROVE  ~Legal(arguments, line)
  <1>1. p \in Nat
    BY WordParsed
  <1>2. a \in arguments /\ p + 1 \in DOMAIN line /\ ~IsPositional(line[p + 1])
    BY DEF Asked
  <1>3. CASE line[p + 1].kind = "name"
    <2>1. p + 1 \in Occurrences(a, line)
      BY <1>3, NamedOrFlag
    <2>2. PICK k \in Occurrences(a, line) : k <= p
      BY <1>2 DEF Parsed, Found
    <2>3. k # p + 1
      BY <1>1, <2>2
    <2> QED
      BY <1>2, <2>1, <2>3, GivenTwice
  <1>4. CASE line[p + 1].kind # "name"
    <2>1. \A b \in arguments : p + 1 \notin Occurrences(b, line)
      BY <1>4, OccurrencesAre
    <2>2. ~Placed(arguments, line, p + 1)
      BY <1>1, <1>2, <2>1, PlacedAs
    <2> QED
      BY <1>2, <2>2, NotPlaced
  <1> QED
    BY <1>3, <1>4

\* An option whose value is missing, or does not suit it.
LEMMA UnsuitedEnds ==
  ASSUME NEW arguments, WellFormed(arguments), NEW line, NEW p \in Nat,
         NEW a, Asked(arguments, line, p, a), ~IsFlag(a),
         p + 2 \in DOMAIN line => ~Suits(a, line[p + 2]),
         a.min = 0 => p + 2 \in DOMAIN line /\ IsPositional(line[p + 2])
  PROVE  ~Legal(arguments, line)
  <1>1. a \in arguments /\ p + 1 \in DOMAIN line /\ ~IsPositional(line[p + 1])
    BY DEF Asked
  <1>2. p + 1 \in Occurrences(a, line)
    BY NamedOrFlag
  <1>3. \A b \in arguments : p + 1 \in Occurrences(b, line) => b = a
    BY <1>1, <1>2, OnlyOne
  <1>4. ~Placed(arguments, line, p + 1)
    <2> SUFFICES ASSUME Placed(arguments, line, p + 1) PROVE FALSE
      OBVIOUS
    <2>1. PICK b \in arguments :
            /\ p + 1 \in Occurrences(b, line)
            /\ \/ p + 2 \in DOMAIN line /\ Suits(b, line[p + 2])
               \/ b.min = 0 /\ (p + 2 \in DOMAIN line => ~IsPositional(line[p + 2]))
      BY <1>1, PlacedAs
    <2>2. b = a
      BY <1>3, <2>1
    <2> QED
      BY <2>1, <2>2
  <1> QED
    BY <1>1, <1>4, NotPlaced
-----------------------------------------------------------------------------
\* What the arguments and the line say of the place the parser has reached when it has
\* taken an option, with a value or without.
LEMMA OptionPlaced ==
  ASSUME NEW arguments, WellFormed(arguments), NEW line, NEW p \in Nat,
         NEW a, Asked(arguments, line, p, a), ~IsFlag(a),
         \/ p + 2 \in DOMAIN line /\ Suits(a, line[p + 2])
         \/ a.min = 0 /\ (p + 2 \in DOMAIN line => ~IsPositional(line[p + 2]))
  PROVE  Placed(arguments, line, p + 1)
  <1> DEFINE k == p + 1
             j == k + 1
  <1>1. j = p + 2
    OBVIOUS
  <1> HIDE DEF j
  <1>2. a \in arguments /\ k \in Occurrences(a, line)
    BY NamedOrFlag DEF Asked
  <1>3. a.max = 1
    BY <1>2 DEF WellFormed, TakesValue
  <1>4. \/ j \in DOMAIN line /\ Suits(a, line[j])
        \/ a.min = 0 /\ (j \in DOMAIN line => ~IsPositional(line[j]))
    BY <1>1
  <1> HIDE DEF k
  <1>5. Placed(arguments, line, k)
    BY <1>2, <1>3, <1>4, Zenon DEF Placed, j
  <1> QED
    BY <1>5 DEF k

\* The value behind a name has its place.
LEMMA ValuePlaced ==
  ASSUME NEW arguments, NEW line, NEW p \in Nat, NEW a \in arguments,
         p + 1 \in Occurrences(a, line), IsPositional(line[p + 2])
  PROVE  Placed(arguments, line, p + 2)
  <1> DEFINE k == p + 2
             i == k - 1
  <1>1. i = p + 1
    OBVIOUS
  <1> HIDE DEF i, k
  <1>2. Placed(arguments, line, k)
    <2>1. i \in Occurrences(a, line) /\ IsPositional(line[k])
      BY <1>1 DEF k
    <2> QED
      BY <2>1, Zenon DEF Placed, i
  <1> QED
    BY <1>2 DEF k

\* The option at p + 1, the only one up to q that is new, is found.
LEMMA OptionFound ==
  ASSUME NEW arguments, WellFormed(arguments), NEW line, NEW p \in Nat, NEW q \in Nat, p + 1 <= q,
         Found(arguments, line, p), NEW a \in arguments, p + 1 \in Occurrences(a, line),
         a.names \notin used, used' = used \cup {a.names},
         \A b \in arguments : \A k \in Occurrences(b, line) : k <= q => k <= p \/ k = p + 1,
         \A b \in arguments : \A k \in Occurrences(b, line) : k <= p => k <= q,
         \A n \in DOMAIN values : n # a.names => n \in DOMAIN values' /\ values'[n] = values[n],
         a.action = "parse_number" =>
           /\ a.names \in DOMAIN values' /\ p + 2 \in DOMAIN line
           /\ Denoted(line[p + 2]) = {values'[a.names]}
  PROVE  Found(arguments, line, q)'
  <1>1. \A b \in arguments : p + 1 \in Occurrences(b, line) => b = a
    BY OnlyOne
  <1>2. \A b \in arguments : b.names = a.names => b = a
    BY OnlyNames
  <1>3. \A k \in Occurrences(a, line) : ~(k <= p)
    BY DEF Found
  <1>4. ASSUME NEW b \in arguments
        PROVE  b.names \in used' <=> \E k \in Occurrences(b, line) : k <= q
    <2>1. CASE b = a
      BY <2>1
    <2>2. CASE b # a
      <3>1. b.names \in used' <=> b.names \in used
        BY <1>2, <2>2
      <3>2. \A k \in Occurrences(b, line) : k <= p <=> k <= q
        BY <1>1, <2>2
      <3> QED
        BY <3>1, <3>2 DEF Found
    <2> QED
      BY <2>1, <2>2
  <1>5. ASSUME NEW b \in arguments, NEW j \in Occurrences(b, line), NEW k \in Occurrences(b, line),
               j <= q, k <= q
        PROVE  j = k
    <2>1. CASE b = a
      BY <1>3, <1>5, <2>1
    <2>2. CASE b # a
      <3>1. j <= p /\ k <= p
        BY <1>1, <1>5, <2>2
      <3> QED
        BY <3>1 DEF Found
    <2> QED
      BY <2>1, <2>2
  <1>6. ASSUME NEW b \in arguments, NEW k \in Occurrences(b, line),
               k <= q, b.action = "parse_number"
        PROVE  /\ b.names \in DOMAIN values' /\ k + 1 \in DOMAIN line
               /\ Denoted(line[k + 1]) = {values'[b.names]}
    <2>1. CASE b = a
      <3>1. k = p + 1
        BY <1>3, <1>6, <2>1
      <3>2. p + 1 + 1 = p + 2
        OBVIOUS
      <3>3. k + 1 = p + 2
        BY <3>1, <3>2
      <3> HIDE <3>1
      <3> QED
        BY <1>6, <2>1, <3>3
    <2>2. CASE b # a
      <3>1. k <= p
        BY <1>1, <1>6, <2>2
      <3>2. /\ b.names \in DOMAIN values /\ k + 1 \in DOMAIN line
            /\ Denoted(line[k + 1]) = {values[b.names]}
        BY <1>6, <3>1 DEF Found
      <3>3. b.names # a.names
        BY <1>2, <2>2
      <3>4. b.names \in DOMAIN values' /\ values'[b.names] = values[b.names]
        BY <3>2, <3>3
      <3> QED
        BY <3>2, <3>4
    <2> QED
      BY <2>1, <2>2
  <1> QED
    BY <1>4, <1>5, <1>6, Zenon DEF Found

\* The word behind the next, if there is one.
LEMMA WordBehind ==
  ASSUME NEW arguments, NEW line, Readable(line), NEW p, Parsed(arguments, line, p), words # << >>
  PROVE  /\ Given(Tail(words)) <=> p + 2 \in DOMAIN line /\ IsPositional(line[p + 2])
         /\ Given(Tail(words)) => /\ Head(Tail(words)) = line[p + 2]
                                 /\ Rest(Tail(Tail(words)), line, p + 2)
  <1> DEFINE rest == Tail(words)
             q == p + 1
             j == q + 1
  <1>1. p \in Nat /\ Rest(rest, line, q) /\ q \in DOMAIN line
    BY WordParsed
  <1>2. Len(line) \in Nat /\ DOMAIN line = 1..Len(line)
    BY ReadableLine
  <1>3. j = p + 2
    BY <1>1
  <1>4. q \in Nat /\ q <= Len(line)
    BY <1>1, <1>2
  <1> HIDE DEF rest, q
  <1>5. j \in 1..Len(line) <=> q # Len(line)
    <2>1. Len(line) \in Nat
      BY <1>2
    <2> QED
      BY ONLY <1>4, <2>1
  <1>6. rest = << >> <=> q = Len(line)
    BY <1>1, <1>2, NextWord
  <1>7. rest # << >> => Head(rest) = line[j] /\ Rest(Tail(rest), line, j)
    BY <1>1, <1>2, NextWord
  <1> HIDE DEF j
  <1>8. Given(rest) <=> j \in DOMAIN line /\ IsPositional(line[j])
    BY <1>2, <1>5, <1>6, <1>7 DEF Given
  <1>9. Given(rest) => Head(rest) = line[j] /\ Rest(Tail(rest), line, j)
    BY <1>7 DEF Given
  <1> QED
    BY <1>3, <1>8, <1>9 DEF rest

\* An option that takes the next word leaves a legal part of the line behind.
LEMMA ValueTaken ==
  ASSUME NEW arguments, WellFormed(arguments), NEW line, Readable(line), NEW p,
         Parsed(arguments, line, p), NEW a, Asked(arguments, line, p, a), ~IsFlag(a),
         a.names \notin used, words # << >>, Given(Tail(words)),
         Act(a, Head(Tail(words))).thrown = "nothing",
         words' = Tail(Tail(words)), used' = used \union {a.names},
         values' = [names \in DOMAIN values \union {a.names} |->
                     IF names = a.names THEN Act(a, Head(Tail(words))).value ELSE values[names]]
  PROVE  Parsed(arguments, line, p + 2)'
  <1> DEFINE rest == Tail(words)
             value == Act(a, Head(rest)).value
  <1>1. p \in Nat /\ Rest(rest, line, p + 1) /\ p + 1 \in DOMAIN line
    BY WordParsed
  <1>2. /\ Len(line) \in Nat /\ DOMAIN line = 1..Len(line)
        /\ \A k \in 1..Len(line) : IsNumeral(line[k])
    BY ReadableLine
  <1>3. /\ p + 2 \in DOMAIN line /\ IsPositional(line[p + 2]) /\ Head(rest) = line[p + 2]
        /\ Rest(Tail(rest), line, p + 2)
    BY WordBehind
  <1>4. a \in arguments /\ p + 1 \in Occurrences(a, line) /\ ~IsPositional(line[p + 1])
    BY NamedOrFlag DEF Asked
  <1>5. a.action \in {"store", "parse_number", "choose"}
    BY <1>4 DEF WellFormed, TakesValue
  <1>6. IsNumeral(line[p + 2]) /\ IsPositional(line[p + 2])
    BY <1>2, <1>3
  <1>7. /\ Suits(a, line[p + 2])
        /\ a.action = "parse_number" => Denoted(line[p + 2]) = {value}
    <2>1. Act(a, line[p + 2]).thrown = "nothing" /\ value = Act(a, line[p + 2]).value
      BY <1>3
    <2>2. /\ Act(a, line[p + 2]).thrown = "nothing" <=> Suits(a, line[p + 2])
          /\ Act(a, line[p + 2]).thrown = "nothing" /\ a.action = "parse_number" =>
               Denoted(line[p + 2]) = {Act(a, line[p + 2]).value}
      BY <1>5, <1>6, ActSuits
    <2> QED
      BY <2>1, <2>2
  <1>8. /\ DOMAIN values' = DOMAIN values \cup {a.names} /\ values'[a.names] = value
         /\ \A n \in DOMAIN values : n # a.names => values'[n] = values[n]
    OBVIOUS
  <1> HIDE DEF rest, value
  <1>9. Found(arguments, line, p + 2)'
    <2>1. \A b \in arguments : p + 2 \notin Occurrences(b, line)
      BY <1>6, OccurrencesAre
    <2>2. \A b \in arguments : \A k \in Occurrences(b, line) : k \in Nat
      BY <1>2 DEF Occurrences
    <2>3. \A k \in Nat : k <= p + 2 <=> k <= p \/ k = p + 1 \/ k = p + 2
      BY <1>1
    <2>4. \A b \in arguments : \A k \in Occurrences(b, line) : k <= p + 2 <=> k <= p \/ k = p + 1
      BY <2>1, <2>2, <2>3
    <2>5. Found(arguments, line, p)
      BY DEF Parsed
    <2>6. p + 1 <= p + 2 /\ p + 2 \in Nat
      BY <1>1
    <2>7. a.action = "parse_number" =>
            /\ a.names \in DOMAIN values' /\ p + 2 \in DOMAIN line
            /\ Denoted(line[p + 2]) = {values'[a.names]}
      BY <1>3, <1>7, <1>8
    <2>8. \A n \in DOMAIN values : n # a.names => n \in DOMAIN values' /\ values'[n] = values[n]
      BY <1>8
    <2> QED
      BY <1>1, <1>4, <2>4, <2>5, <2>6, <2>7, <2>8, OptionFound
  <1>10. \A k \in 1..(p + 2) : Placed(arguments, line, k)
    <2>1. Placed(arguments, line, p + 1)
      BY <1>1, <1>3, <1>7, OptionPlaced
    <2>2. Placed(arguments, line, p + 2)
      BY <1>1, <1>4, <1>6, ValuePlaced
    <2>3. \A k \in 1..p : Placed(arguments, line, k)
      BY DEF Parsed
    <2>4. \A k \in 1..(p + 2) : k \in 1..p \/ k = p + 1 \/ k = p + 2
      BY <1>1
    <2> QED
      BY <2>1, <2>2, <2>3, <2>4
  <1>11. \A b \in arguments : p + 2 \notin Occurrences(b, line)
    BY <1>6, OccurrencesAre
  <1>12. Rest(words', line, p + 2)
    BY <1>3 DEF rest
  <1> QED
    BY <1>9, <1>10, <1>11, <1>12 DEF Parsed

\* An option that takes no word leaves a legal part of the line behind.
LEMMA NothingTaken ==
  ASSUME NEW arguments, WellFormed(arguments), NEW line, Readable(line), NEW p,
         Parsed(arguments, line, p), NEW a, Asked(arguments, line, p, a), ~IsFlag(a),
         a.min = 0, a.names \notin used, words # << >>, ~Given(Tail(words)),
         words' = Tail(words), used' = used \union {a.names}, values' = values
  PROVE  Parsed(arguments, line, p + 1)'
  <1> DEFINE rest == Tail(words)
  <1>1. p \in Nat /\ Rest(rest, line, p + 1) /\ p + 1 \in DOMAIN line
    BY WordParsed
  <1>2. Len(line) \in Nat /\ DOMAIN line = 1..Len(line)
    BY ReadableLine
  <1>3. p + 1 + 1 = p + 2
    BY <1>1
  <1>4. p + 2 \in DOMAIN line => ~IsPositional(line[p + 2])
    BY WordBehind
  <1>5. a \in arguments /\ p + 1 \in Occurrences(a, line) /\ ~IsPositional(line[p + 1])
    BY NamedOrFlag DEF Asked
  <1>6. a.action # "parse_number"
    BY <1>5 DEF WellFormed, TakesValue
  <1> HIDE DEF rest
  <1>7. Found(arguments, line, p + 1)'
    <2>1. \A b \in arguments : \A k \in Occurrences(b, line) : k \in Nat
      BY <1>2 DEF Occurrences
    <2>2. \A k \in Nat : k <= p + 1 <=> k <= p \/ k = p + 1
      BY <1>1
    <2>3. \A b \in arguments : \A k \in Occurrences(b, line) : k <= p + 1 <=> k <= p \/ k = p + 1
      BY <2>1, <2>2
    <2>4. Found(arguments, line, p)
      BY DEF Parsed
    <2>5. p + 1 <= p + 1 /\ p + 1 \in Nat
      BY <1>1
    <2> QED
      BY <1>1, <1>5, <1>6, <2>3, <2>4, <2>5, OptionFound
  <1>8. \A k \in 1..(p + 1) : Placed(arguments, line, k)
    <2>1. Placed(arguments, line, p + 1)
      BY <1>1, <1>4, OptionPlaced
    <2>2. \A k \in 1..p : Placed(arguments, line, k)
      BY DEF Parsed
    <2>3. \A k \in 1..(p + 1) : k \in 1..p \/ k = p + 1
      BY <1>1
    <2> QED
      BY <2>1, <2>2, <2>3
  <1>9. p + 1 + 1 \in DOMAIN line => ~IsPositional(line[p + 1 + 1])
    BY <1>3, <1>4
  <1>10. Rest(words', line, p + 1)
    BY <1>1 DEF rest
  <1> QED
    BY <1>7, <1>8, <1>9, <1>10 DEF Parsed

\* What the end of the parser, how, says of the line.
Decides(how, arguments, line, vals) ==
  /\ how = "parsed" =>
       /\ Legal(arguments, line)
       /\ \A a \in arguments : \A k \in Occurrences(a, line) :
            a.action = "parse_number" => {vals[a.names]} = Denoted(line[k + 1])
  /\ how = "runtime_error" => ~Legal(arguments, line)
  /\ how = "exit" => \E k \in DOMAIN line :
       \E a \in DefaultArguments : OptionOf(line[k]) \in a.names
  /\ how = "invalid_argument" => Malformed(arguments, line)

\* validate: the parser has taken the whole line, and looks for what is required.
LEMMA ValidateDecides ==
  ASSUME NEW arguments, WellFormed(arguments), NEW line, Readable(line), NEW p,
         Parsed(arguments, line, p), Validate(arguments)
  PROVE  pc' # "parsing" /\ Decides(pc', arguments, line, values')
  <1>1. p = Len(line)
    BY WordParsed DEF Validate
  <1>2. Len(line) \in Nat /\ DOMAIN line = 1..Len(line)
    BY ReadableLine
  <1>3. values' = values
    BY DEF Validate, End
  <1>4. \A a \in arguments : \A k \in Occurrences(a, line) : k <= p
    BY <1>1, <1>2 DEF Occurrences
  <1>5. \A a \in arguments : a.names \in used <=> Occurrences(a, line) # {}
    BY <1>4 DEF Parsed, Found
  <1>6. CASE /\ pc' = "runtime_error"
             /\ \E a \in arguments : a.required /\ a.names \notin used
    <2>1. ~Legal(arguments, line)
      BY <1>5, <1>6 DEF Legal
    <2> QED
      BY <1>6, <2>1 DEF Decides
  <1>7. CASE /\ pc' = "parsed"
             /\ \A a \in arguments : a.required => a.names \in used \/ a.default # NoDefault
    <2>1. \A a \in arguments : Cardinality(Occurrences(a, line)) <= 1
      BY <1>4, AtMostOnce DEF Parsed, Found
    <2>2. \A a \in arguments : a.required => Occurrences(a, line) # {}
      <3>1. \A a \in arguments : a.required => a.default = NoDefault
        BY DEF WellFormed, IsFlag, TakesValue
      <3> QED
        BY <1>5, <1>7, <3>1
    <2>3. \A k \in DOMAIN line : Placed(arguments, line, k)
      BY <1>1, <1>2 DEF Parsed
    <2>4. Legal(arguments, line)
      BY <2>1, <2>2, <2>3, Zenon DEF Legal, Placed
    <2>5. ASSUME NEW a \in arguments, NEW k \in Occurrences(a, line), a.action = "parse_number"
          PROVE  {values'[a.names]} = Denoted(line[k + 1])
      BY <1>3, <1>4, <2>5 DEF Parsed, Found
    <2> QED
      BY <1>7, <2>4, <2>5, Zenon DEF Decides
  <1> QED
    BY <1>6, <1>7 DEF Validate, End

\* An option takes one more legal part of the line, or ends the parser and shows why.
LEMMA OptionDecides ==
  ASSUME NEW arguments, WellFormed(arguments), NEW line, Readable(line), NEW p,
         Parsed(arguments, line, p), OptionalArgument(arguments), pc = "parsing"
  PROVE  \/ pc' = "parsing" /\ \E q : Parsed(arguments, line, q)'
         \/ pc' # "parsing" /\ Decides(pc', arguments, line, values')
  <1>1. p \in Nat /\ words # << >> /\ p + 1 \in DOMAIN line /\ Head(words) = line[p + 1]
    BY WordParsed DEF OptionalArgument
  <1>2. PICK a : Asked(arguments, line, p, a) /\ Consume(a, Tail(words))
    BY <1>1, NamedArgument DEF OptionalArgument, Asked
  <1>3. a \in arguments /\ ~IsPositional(line[p + 1]) /\ (IsFlag(a) \/ TakesValue(a))
    BY <1>2 DEF Asked, WellFormed
  <1> DEFINE rest == Tail(words)
             result == Act(a, Head(rest))
  <1>4. CASE a.names \in used /\ End("runtime_error")
    <2>1. ~Legal(arguments, line)
      BY <1>2, <1>4, RepeatedEnds
    <2> QED
      BY <1>4, <2>1 DEF Decides, End
  <1>5. CASE a.max = 0 /\ End("exit")
    <2>1. IsFlag(a)
      BY <1>3, <1>5 DEF TakesValue
    <2>2. \E b \in DefaultArguments : OptionOf(line[p + 1]) \in b.names
      BY <1>2, <2>1 DEF IsFlag, Asked
    <2> QED
      BY <1>1, <1>5, <2>2 DEF Decides, End
  <1>6. CASE a.min > 0 /\ ~Given(rest) /\ End("runtime_error")
    <2>1. ~IsFlag(a) /\ a.min # 0
      BY <1>6 DEF IsFlag
    <2>2. ~(p + 2 \in DOMAIN line /\ IsPositional(line[p + 2]))
      BY <1>1, <1>6, WordBehind
    <2>3. p + 2 \in DOMAIN line => ~Suits(a, line[p + 2])
      BY <2>2 DEF Suits
    <2>4. ~Legal(arguments, line)
      BY <1>1, <1>2, <2>1, <2>3, UnsuitedEnds
    <2> QED
      BY <1>6, <2>4 DEF Decides, End
  <1>7. CASE a.names \notin used /\ a.max > 0 /\ Given(rest) /\ TakeValue(a, rest)
    <2>1. ~IsFlag(a) /\ TakesValue(a)
      BY <1>3, <1>7 DEF IsFlag
    <2>2. /\ p + 2 \in DOMAIN line /\ IsPositional(line[p + 2])
          /\ Head(rest) = line[p + 2]
      BY <1>1, <1>7, WordBehind
    <2>3. CASE /\ result.thrown = "nothing"
               /\ words' = Tail(rest)
               /\ used' = used \union {a.names}
               /\ values' = [names \in DOMAIN values \union {a.names} |->
                              IF names = a.names THEN result.value ELSE values[names]]
               /\ UNCHANGED <<pc, argv>>
      <3>1. Parsed(arguments, line, p + 2)'
        BY <1>1, <1>2, <1>7, <2>1, <2>3, ValueTaken
      <3> QED
        BY <2>3, <3>1
    <2>4. CASE result.thrown # "nothing" /\ End(result.thrown)
      <3>1. IsNumeral(line[p + 2])
        BY <2>2, ReadableLine
      <3>2. a.action \in {"store", "parse_number", "choose"}
        BY <2>1 DEF TakesValue
      <3>3. /\ Act(a, line[p + 2]).thrown = "nothing" <=> Suits(a, line[p + 2])
            /\ Act(a, line[p + 2]).thrown \in {"nothing", "runtime_error", "invalid_argument"}
            /\ Act(a, line[p + 2]).thrown = "invalid_argument" =>
                 a.action = "parse_number" /\ Denoted(line[p + 2]) = {}
        BY <2>2, <3>1, <3>2, ActSuits
      <3>4. result = Act(a, line[p + 2])
        BY <2>2
      <3> HIDE DEF result, rest
      <3>5. /\ pc' \in {"runtime_error", "invalid_argument"} /\ pc' = Act(a, line[p + 2]).thrown
            /\ ~Suits(a, line[p + 2])
        BY <2>4, <3>3, <3>4 DEF End
      <3>6. CASE pc' = "runtime_error"
        <4>1. ~Legal(arguments, line)
          BY <1>1, <1>2, <2>1, <2>2, <3>5, UnsuitedEnds
        <4> QED
          BY <3>6, <4>1 DEF Decides
      <3>7. CASE pc' = "invalid_argument"
        <4>1. a.action = "parse_number" /\ Denoted(line[p + 2]) = {}
          BY <3>3, <3>5, <3>7
        <4>2. p + 1 \in Occurrences(a, line)
          BY <1>2, <2>1, NamedOrFlag
        <4> DEFINE k == p + 1
                   j == k + 1
        <4>3. j = p + 2
          BY <1>1
        <4> HIDE DEF j
        <4>4. j \in DOMAIN line /\ IsPositional(line[j]) /\ Denoted(line[j]) = {}
          BY <2>2, <4>1, <4>3
        <4> HIDE DEF k
        <4>5. k \in Occurrences(a, line)
          BY <4>2 DEF k
        <4>6. Malformed(arguments, line)
          BY <1>3, <4>1, <4>4, <4>5, Zenon DEF Malformed, j
        <4> QED
          BY <3>7, <4>6 DEF Decides
      <3> QED
        BY <3>5, <3>6, <3>7
    <2> QED
      BY <1>7, <2>3, <2>4 DEF TakeValue
  <1>8. CASE /\ a.names \notin used /\ a.max > 0 /\ a.min = 0 /\ ~Given(rest)
             /\ TakeNothing(a, rest)
    <2>1. ~IsFlag(a)
      BY <1>8 DEF IsFlag
    <2>2. Parsed(arguments, line, p + 1)'
      BY <1>1, <1>2, <1>8, <2>1, NothingTaken DEF TakeNothing
    <2> QED
      BY <1>8, <2>2 DEF TakeNothing
  <1> QED
    BY <1>2, <1>4, <1>5, <1>6, <1>7, <1>8 DEF Consume

\* A step of parse_args takes one more legal part, or its end says what the line is.
LEMMA ParserDecides ==
  ASSUME NEW arguments, WellFormed(arguments), NEW line, Readable(line), NEW p,
         Parsed(arguments, line, p), ParseArgs(arguments)
  PROVE  \/ pc' = "parsing" /\ \E q : Parsed(arguments, line, q)'
         \/ pc' # "parsing" /\ Decides(pc', arguments, line, values')
  <1>1. CASE PositionalArgument
    BY <1>1, PositionalEnds DEF PositionalArgument, End, Decides
  <1>2. CASE UnknownArgument(arguments)
    BY <1>2, UnknownEnds DEF UnknownArgument, End, Decides
  <1>3. CASE OptionalArgument(arguments)
    BY <1>3, OptionDecides DEF ParseArgs
  <1>4. CASE Validate(arguments)
    BY <1>4, ValidateDecides
  <1> QED
    BY <1>1, <1>2, <1>3, <1>4 DEF ParseArgs
\* The command line as the parser splits it.
Line == Preprocess(ProgramArguments, argv)

\* The parser has taken a legal part of the line, or its end says what the line is.
LineInv ==
  /\ program \in {"app", "service"}
  /\ pc \in ParserPlaces => Readable(Line)
  /\ pc = "parsing" => \E p : Parsed(ProgramArguments, Line, p)
  /\ Decides(pc, ProgramArguments, Line, values)

\* No word is taken yet.
LEMMA LineInitially == Init => LineInv
  <1> SUFFICES ASSUME Init PROVE LineInv
    OBVIOUS
  <1>1. argv \in AppCommands \cup ServiceCommands /\ words = Line /\ pc = "parsing" /\ used = {}
    BY DEF Init, ParserInit, Line
  <1>2. Readable(Line)
    BY <1>1, CommandsAssumption, Preprocessed DEF Line
  <1>3. PICK line : line = Line
    OBVIOUS
  <1>4. Len(line) \in Nat /\ DOMAIN line = 1..Len(line) /\ Readable(line)
    BY <1>2, <1>3, ReadableLine
  <1>5. \A a : \A k \in Occurrences(a, line) : ~(k <= 0) /\ k # 0
    BY <1>4 DEF Occurrences
  <1>6. Rest(words, line, 0)
    <2>1. \E T : words \in Seq(T)
      BY <1>1, <1>2 DEF Readable
    <2>2. words = line /\ 0 \in 0..Len(line) /\ Len(line) = Len(line) - 0
      BY <1>1, <1>3, <1>4
    <2>3. \A i \in 1..Len(line) : line[i] = line[0 + i]
      BY <1>4
    <2> QED
      BY <2>1, <2>2, <2>3 DEF Rest
  <1>7. Found(ProgramArguments, line, 0)
    BY <1>1, <1>5 DEF Found
  <1>8. Parsed(ProgramArguments, line, 0)
    BY <1>5, <1>6, <1>7 DEF Parsed
  <1>9. Decides(pc, ProgramArguments, Line, values)
    BY <1>1 DEF Decides
  <1> QED
    BY <1>1, <1>2, <1>3, <1>8, <1>9 DEF LineInv, Init

\* A program that has done with its command line is nowhere in the parser.
LEMMA BehindParser ==
  ASSUME LineInv, program' = program, pc' \notin ParserPlaces
  PROVE  LineInv'
  BY DEF LineInv, Decides, ParserPlaces

\* The steps of parse_args keep the invariant.
LEMMA LineParsed ==
  ASSUME LineInv, program' = program, ParseArgs(ProgramArguments), argv' = argv
  PROVE  LineInv'
  <1>1. PICK line, arguments : line = Line /\ arguments = ProgramArguments
    OBVIOUS
  <1>2. line = Line' /\ arguments = ProgramArguments'
    BY <1>1 DEF Line, ProgramArguments
  <1>3. WellFormed(arguments) /\ Actions(arguments)
    BY <1>1, AppWellFormed, ServiceWellFormed, ProgramActions DEF ProgramArguments
  <1>4. Readable(line) /\ \E p : Parsed(arguments, line, p)
    BY <1>1 DEF LineInv, ParseArgs, ParserPlaces
  <1>5. PICK p : Parsed(arguments, line, p)
    BY <1>4
  <1>6. ParseArgs(arguments)
    BY <1>1
  <1>7. \/ pc' = "parsing" /\ \E q : Parsed(arguments, line, q)'
        \/ pc' # "parsing" /\ Decides(pc', arguments, line, values')
    BY <1>3, <1>4, <1>5, <1>6, ParserDecides
  <1>8. Readable(Line')
    BY <1>2, <1>4
  <1>9. pc' = "parsing" => (\E q : Parsed(ProgramArguments, Line, q))'
    <2> SUFFICES ASSUME pc' = "parsing" PROVE (\E q : Parsed(ProgramArguments, Line, q))'
      OBVIOUS
    <2>1. PICK q : Parsed(arguments, line, q)'
      BY <1>7
    <2>2. Parsed(ProgramArguments, Line, q)'
      BY <1>2, <2>1 DEF Parsed, Found
    <2> QED
      BY <2>2
  <1>10. Decides(pc', ProgramArguments', Line', values')
    <2>1. pc' = "parsing" => Decides(pc', ProgramArguments', Line', values')
      BY DEF Decides
    <2> QED
      BY <1>2, <1>7, <2>1
  <1> QED
    <2>1. program' \in {"app", "service"}
      BY DEF LineInv
    <2>2. Decides(pc, ProgramArguments, Line, values)'
      BY <1>10
    <2> QED
      BY <1>8, <1>9, <2>1, <2>2 DEF LineInv

\* parse_args leaves the command line alone.
LEMMA ParserKeepsLine == ASSUME NEW arguments, ParseArgs(arguments) PROVE argv' = argv
  <1>1. ASSUME NEW how, End(how) PROVE argv' = argv
    BY <1>1 DEF End
  <1>2. ASSUME NEW a, Consume(a, Tail(words)) PROVE argv' = argv
    <2>1. TakeValue(a, Tail(words)) => argv' = argv
      BY <1>1 DEF TakeValue
    <2>2. TakeNothing(a, Tail(words)) => argv' = argv
      BY DEF TakeNothing
    <2> QED
      BY <1>1, <1>2, <2>1, <2>2 DEF Consume
  <1> QED
    BY <1>1, <1>2 DEF ParseArgs, PositionalArgument, UnknownArgument, OptionalArgument, Validate

\* What the application does behind parse_args does not go back to it.
LEMMA AppBehindParser ==
  ASSUME AppNext, ~(ParseArgs(AppArguments) /\ UNCHANGED appVars)
  PROVE  pc' \notin ParserPlaces
  <1>1. ASSUME NEW from, Abort(from) PROVE pc' \notin ParserPlaces
    BY <1>1 DEF Abort, Goto, ParserPlaces
  <1>2. CASE NoFile
    BY <1>2 DEF NoFile, Goto, ParserPlaces
  <1>3. CASE MakeServicer
    BY <1>1, <1>3 DEF MakeServicer, Goto, ParserPlaces
  <1>4. AfterFile \in {"open_list", "return"}
    BY DEF AfterFile
  <1>5. CASE ProcessFile
    BY <1>1, <1>4, <1>5 DEF ProcessFile, Goto, ParserPlaces
  <1>6. CASE OpenList
    BY <1>1, <1>6 DEF OpenList, Goto, ParserPlaces
  <1>7. CASE NextFile
    <2>1. (IF State = "SYNC" THEN "return" ELSE "wait_list") \in {"return", "wait_list"}
      OBVIOUS
    <2> QED
      BY <1>1, <1>7, <2>1 DEF NextFile, Goto, ParserPlaces
  <1>8. ASSUME NEW here \in {"wait_file", "wait_list"}, NEW next \in {"open_list", "return"},
               Wait(here, next)
        PROVE  pc' \notin ParserPlaces
    BY <1>1, <1>8 DEF Wait, Goto, ParserPlaces
  <1> QED
    BY <1>2, <1>3, <1>4, <1>5, <1>6, <1>7, <1>8 DEF AppNext

\* What the service does behind parse_args does not go back to it.
LEMMA ServiceBehindParser ==
  ASSUME ServiceNext, ~(ParseArgs(ServiceArguments) /\ UNCHANGED serviceVars)
  PROVE  pc' \notin ParserPlaces
  <1>1. CASE Launch
    BY <1>1 DEF Launch, ParserPlaces
  <1>2. CASE Registers \/ AnswersId \/ Attaches \/ Announced \/ Asks \/ Granted \/ Leaves \/ Left
    BY <1>2 DEF Registers, AnswersId, Attaches, Announced, Asks, Granted, Leaves, Left, Step,
                ParserPlaces
  <1>3. CASE Answers
    BY <1>3 DEF Answers, Step, ParserPlaces
  <1>4. ASSUME NEW segments, Writes(segments) PROVE pc' \notin ParserPlaces
    BY <1>4 DEF Writes, Step, ParserPlaces
  <1> QED
    BY <1>1, <1>2, <1>3, <1>4 DEF ServiceNext

\* Every step keeps the invariant.
LEMMA LineStep == ASSUME LineInv, [Next]_vars PROVE LineInv'
  <1>1. CASE program' = program /\ ParseArgs(ProgramArguments)
    BY <1>1, LineParsed, ParserKeepsLine
  <1>2. CASE program' = program /\ pc' \notin ParserPlaces
    BY <1>2, BehindParser
  <1>3. CASE UNCHANGED vars
    <2>1. /\ program' = program /\ pc' = pc /\ argv' = argv /\ words' = words /\ used' = used
          /\ values' = values
      BY <1>3 DEF vars, parserVars
    <2>2. Line' = Line /\ ProgramArguments' = ProgramArguments
      BY <2>1 DEF Line, ProgramArguments
    <2> QED
      BY <2>1, <2>2 DEF LineInv, Parsed, Found
  <1>4. CASE program' = program /\ program = "app" /\ AppNext
    <2>1. ProgramArguments = AppArguments
      BY <1>4 DEF ProgramArguments
    <2> QED
      BY <1>1, <1>2, <1>4, <2>1, AppBehindParser
  <1>5. CASE program' = program /\ program = "service" /\ ServiceNext
    <2>1. ProgramArguments = ServiceArguments
      BY <1>5 DEF ProgramArguments
    <2> QED
      BY <1>1, <1>2, <1>5, <2>1, ServiceBehindParser
  <1> QED
    BY <1>3, <1>4, <1>5 DEF Next

\* Each program accepts exactly the command lines that are legal for it, and has the
\* numbers that were written on them; a line with a number that is none is the only
\* one to end it with another exception than the one main catches.  This is about any
\* words on the line and any size of int.
THEOREM LinesAreDecided == Spec => []CommandLinesDecide
  <1>1. LineInv => CommandLinesDecide
    BY DEF LineInv, Decides, Line, CommandLinesDecide, CommandLineDecides
  <1> QED
    BY <1>1, LineInitially, LineStep, PTL DEF Spec
===============================================================================
