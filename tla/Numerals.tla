------------------------------ MODULE Numerals -------------------------------
(***************************************************************************)
(* How Martin reads numbers out: cardinals, ordinals, decimals and amounts *)
(* of money in German, where the ones come before the tens, one loses its  *)
(* "s" inside a word, and an ordinal changes only the last part.           *)
(*                                                                         *)
(* A word is a sequence of the parts it is spoken in, each with what it    *)
(* stands for; reading one back is defined here by itself, from the        *)
(* grammar, and shows what a listener hears.                               *)
(***************************************************************************)
EXTENDS Integers, Sequences, SequencesExt

CONSTANTS MaxNumber \* bound: tried are the numbers up to it, and with as many thousands

ASSUME NumeralsAssumption == MaxNumber \in 1 .. 999

VARIABLES
  form,   \* what is to be read out
  number, \* an integer, or the part of it before the comma
  digits  \* the digits behind the comma

numeralVars == <<form, number, digits>>

Digit == 0 .. 9

NumeralsTypeOK ==
  /\ form \in {"cardinal", "ordinal", "decimal", "euro"}
  /\ number \in 0 .. (1001 * MaxNumber + 9)
  /\ digits \in Seq(Digit) /\ Len(digits) \in 1 .. 2

Ten == {n \in 0 .. MaxNumber : n % 10 = 0}

NumeralsInit ==
  /\ form \in {"cardinal", "ordinal", "decimal", "euro"}
  /\ number \in UNION {{n, 1000 + n, 1000 * n, 1001 * n} : n \in Ten}
  /\ digits = <<0>>

Num(n)  == <<"num", n>>
Ein     == <<"ein", 1>>
Und     == <<"und", 0>>
Hundert == <<"hundert", 100>>
Tausend == <<"tausend", 1000>>
Ster    == <<"ster", 0>>

-----------------------------------------------------------------------------
(* The rules.                                                              *)

NUM_TO_WORD     == 0 .. 20 \cup {30, 40, 50, 60, 70, 80, 90}
ORDINAL_TO_WORD == 1 .. 20 \cup {30}

\* number_to_words below a hundred: the ones, then the tens.
Tens(n) ==
  IF n \in NUM_TO_WORD THEN <<Num(n)>>
  ELSE << IF n % 10 = 1 THEN Ein ELSE Num(n % 10), Und, Num(n - (n % 10)) >>

\* What follows a hundred or a thousand; nothing follows a round one.
Rest(word, n) == IF n = 0 THEN <<>> ELSE word

\* Below a thousand.
Hundreds(n) ==
  IF n < 100 THEN Tens(n)
  ELSE (IF n \div 100 = 1 THEN <<Ein>> ELSE Tens(n \div 100))
         \o <<Hundert>> \o Rest(Tens(n % 100), n % 100)

\* Mutant of Cardinal: behind the thousands the hundreds are forgotten.
CardinalRestOfHundred(n) ==
  IF n < 1000 THEN Hundreds(n)
  ELSE (IF n \div 1000 = 1 THEN <<Ein>> ELSE Hundreds(n \div 1000))
         \o <<Tausend>> \o Rest(Hundreds(n % 100), n % 100)

\* number_to_words, below a million.
Cardinal(n) ==
  IF n < 1000 THEN Hundreds(n)
  ELSE (IF n \div 1000 = 1 THEN <<Ein>> ELSE Hundreds(n \div 1000))
         \o <<Tausend>> \o Rest(Hundreds(n % 1000), n % 1000)

\* ordinal_to_words of the last two digits.
OrdinalTens(n) ==
  IF n \in ORDINAL_TO_WORD THEN <<(<<"ord", n>>)>> ELSE Tens(n) \o <<Ster>>

\* ordinal_to_words: the cardinal, with the last two digits made an ordinal.
Ordinal(n) ==
  IF n < 100 THEN OrdinalTens(n)
  ELSE LET cardinal == Cardinal(n)
           suffix   == Tens(n % 100)
       IN IF n % 100 = 0 \/ ~IsSuffix(suffix, cardinal)
          THEN cardinal \o <<Ster>>
          ELSE SubSeq(cardinal, 1, Len(cardinal) - Len(suffix)) \o OrdinalTens(n % 100)

\* decimal_to_words: the digits behind the comma are read one by one.
Decimal(n, ds) == <<Cardinal(n), [i \in DOMAIN ds |-> Tens(ds[i])]>>

\* Before a unit one is "ein", whatever digits it is written with.
NumberWord(n) == IF n = 1 THEN <<Ein>> ELSE Cardinal(n)

\* The cents of one digit are tens.
Cents(ds) == 10 * ds[1] + (IF Len(ds) = 1 THEN 0 ELSE ds[2])

\* _normalize_euro_amounts: the euros, and the cents if there are any.
Euro(n, ds) ==
  <<NumberWord(n), IF Cents(ds) = 0 THEN <<>> ELSE Cardinal(Cents(ds))>>

\* The next number to try, of the same ten.
NextNumber ==
  /\ number % 10 # 9
  /\ number' = number + 1
  /\ digits' \in {<<number' % 10>>, <<number' % 10, (number' \div 10) % 10>>}
  /\ UNCHANGED form

NumeralsNext == NextNumber

NumeralsSpec == NumeralsInit /\ [][NumeralsNext]_numeralVars

-----------------------------------------------------------------------------
(* Reading back.                                                           *)

\* Where a part of the word stands; 0: it has none.
At(part, word) == IF \E i \in DOMAIN word : word[i] = part
                  THEN CHOOSE i \in DOMAIN word : word[i] = part ELSE 0

Before(i, word) == SubSeq(word, 1, i - 1)
Behind(i, word) == SubSeq(word, i + 1, Len(word))

\* The number a part stands for; a part left out is nothing.
Value(i, word) == IF i \in DOMAIN word THEN word[i][2] ELSE 0

\* Below a hundred there are four parts at most, and they add up.
ReadTens(word) ==
  IF Len(word) > 4 THEN -1
  ELSE Value(1, word) + Value(2, word) + Value(3, word) + Value(4, word)

ReadHundreds(word) ==
  LET i == At(Hundert, word) IN
  (IF i = 0 THEN 0 ELSE 100 * ReadTens(Before(i, word))) + ReadTens(Behind(i, word))

Read(word) ==
  LET i == At(Tausend, word) IN
  (IF i = 0 THEN 0 ELSE 1000 * ReadHundreds(Before(i, word)))
    + ReadHundreds(Behind(i, word))

\* The parts that may end an ordinal: its own word for what ends in 1 to 20 or
\* in 30, and "-ster" behind everything else.
EndsAsOrdinal(word, n) ==
  Last(word) = IF n % 100 \in ORDINAL_TO_WORD THEN <<"ord", n % 100>> ELSE Ster

\* What is read out is the number that was written, in every form, on both
\* sides of a hundred and of a thousand and with one and two digits of cents
\* (number_to_words, ordinal_to_words, decimal_to_words and the amounts).
ReadsBack ==
  /\ form = "cardinal" => Read(Cardinal(number)) = number
  /\ form = "ordinal" =>
       Read(Ordinal(number)) = number /\ EndsAsOrdinal(Ordinal(number), number)
  /\ form = "decimal" =>
       LET word == Decimal(number, digits) IN
       Read(word[1]) = number /\ \A i \in DOMAIN digits : Read(word[2][i]) = digits[i]
  /\ form = "euro" =>
       LET word == Euro(number, digits) IN
       100 * Read(word[1]) + Read(word[2])
         = 100 * number + (IF Len(digits) = 1 THEN 10 * digits[1]
                           ELSE 10 * digits[1] + digits[2])
=============================================================================
