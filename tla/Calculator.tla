------------------------------ MODULE Calculator ------------------------------
(***************************************************************************)
(* The calc command of the shell, src/modules/calc/calc.cpp: reading an    *)
(* expression, computing it in int32, and printing the result.  A call     *)
(* ends with an outcome: what it printed, or the exception it raised.      *)
(* Messages are told apart only by their kind.                             *)
(***************************************************************************)
EXTENDS Integers, Strings

CONSTANT BITS    \* 32, the width of an int

\* The last three conjuncts follow from the first, but the provers know no powers.
ASSUME CalculatorAssumption ==
  /\ BITS \in Nat \ {0, 1}
  /\ 2 ^ BITS > 0
  /\ 2 ^ 0 = 1
  /\ \A k \in 1 .. BITS : 2 ^ k = 2 * 2 ^ (k - 1)

INT_MAX == 2 ^ (BITS - 1) - 1
INT_MIN == -(INT_MAX + 1)
Ints == INT_MIN .. INT_MAX

\* Arithmetic wraps: the compiler does not optimise, and the processor wraps.
Wrap(x) == ((x - INT_MIN) % (2 ^ BITS)) + INT_MIN

\* An int printed through print_uint32.
Unsigned(x) == x % (2 ^ BITS)

Abs(x) == IF x < 0 THEN -x ELSE x

\* Division towards zero, as in C.
Quotient(a, b) ==
  IF (a < 0) = (b < 0) THEN Abs(a) \div Abs(b) ELSE -(Abs(a) \div Abs(b))

Digits == <<"0", "1", "2", "3", "4", "5", "6", "7", "8", "9">>
DigitValue == [c \in Range(Digits) |-> (CHOOSE i \in 1 .. 10 : Digits[i] = c) - 1]

-----------------------------------------------------------------------------

\* Wrong variant: a plus sign is not read.
Signs_NoPlus == {"-"}

Signs == {"-", "+"}

\* A sign and digits, from position p on.
parse_int_token(s, p) ==
  LET start  == skip_spaces(s, p)
      first  == IF CharAt(s, start) \in Signs THEN start + 1 ELSE start
      after  == Least({q \in first .. Len(s) + 1 : CharAt(s, q) \notin Range(Digits)})
      result == FoldLeft(LAMBDA v, c : Wrap(v * 10 + DigitValue[c]), 0,
                         SubSeq(s, first, after - 1))
  IN  [ok |-> first < after, next |-> after,
       value |-> IF CharAt(s, start) = "-" THEN Wrap(-result) ELSE result]

Operators == {"+", "-", "*", "/"}

parse_expression(s) ==
  LET left  == parse_int_token(s, 1)
      op    == skip_spaces(s, left.next)
      right == parse_int_token(s, op + 1)
  IN  IF /\ left.ok
         /\ CharAt(s, op) \in Operators
         /\ right.ok
         /\ skip_spaces(s, right.next) = Len(s) + 1
      THEN [ok |-> TRUE, left |-> left.value, op |-> s[op], right |-> right.value]
      ELSE [ok |-> FALSE]

HelpWords == {<<"h", "e", "l", "p">>, <<"-", "h">>,
              <<"-", "-", "h", "e", "l", "p">>}

is_help_request(s) ==
  LET start == skip_spaces(s, 1)
      after == Least({q \in start .. Len(s) + 1 :
                        CharAt(s, q) \in Blanks \cup {NUL}})
  IN  /\ SubSeq(s, start, after - 1) \in HelpWords
      /\ skip_spaces(s, after) = Len(s) + 1

-----------------------------------------------------------------------------

\* The digits of n, the first of them first, as print_int32 and print_uint32
\* fill their buffer from the last one.
Decimal[n \in Nat] ==
  IF n < 10 THEN <<Digits[n + 1]>> ELSE Append(Decimal[n \div 10], Digits[(n % 10) + 1])

print_uint32(value) == Decimal[Unsigned(value)]

print_int32(value) ==
  IF value < 0 THEN <<"-">> \o Decimal[-value] ELSE Decimal[value]

\* A null pointer: the one sequence here that is no string.
Null == <<NUL>>
Outcome(kind) == [kind |-> kind, text |-> << >>]
Result(text) == [kind |-> "result", text |-> text]
print_result(value) == Result(print_int32(value))

\* Wrong variant: the guard is gone.
calc_div_NoGuard(a, b) ==
  IF b = 0 THEN Outcome("trap") ELSE print_result(Quotient(a, b))

\* idiv raises #DE when the quotient does not fit.
calc_div(a, b) ==
  CASE b = 0                           -> Outcome("error")
    [] b # 0 /\ Quotient(a, b) \notin Ints -> Outcome("trap")
    [] OTHER                           -> print_result(Quotient(a, b))

calc_add(a, b) == print_result(Wrap(a + b))
calc_sub(a, b) == print_result(Wrap(a - b))
calc_mul(a, b) == print_result(Wrap(a * b))

calc_expression(e) ==
  CASE e.op = "+" -> calc_add(e.left, e.right)
    [] e.op = "-" -> calc_sub(e.left, e.right)
    [] e.op = "*" -> calc_mul(e.left, e.right)
    [] e.op = "/" -> calc_div(e.left, e.right)

calc_init(args) ==
  CASE args = Null -> Outcome("usage")
    [] args # Null /\ is_help_request(args) -> Outcome("help")
    [] args # Null /\ ~is_help_request(args) ->
         IF parse_expression(args).ok THEN calc_expression(parse_expression(args))
                                      ELSE Outcome("usage")
=============================================================================
