---------------------------------- MODULE Calc ----------------------------------
(***************************************************************************)
(* Calls of the functions of src/modules/calc/calc.cpp and what they       *)
(* print, against what an expression and a function mean.  calc_init is    *)
(* the one that the shell calls.                                           *)
(***************************************************************************)
EXTENDS MathFunctions

CONSTANTS
  Lines,    \* what is typed behind "calc"
  Angles,   \* degrees
  Slopes    \* arguments of the inverse functions

ASSUME CalcAssumption ==
  Lines \subseteq Seq(STRING) /\ Angles \subseteq Int /\ Slopes \subseteq Int

VARIABLES call, outcome
callVars == <<call, outcome>>

Idle == [fn |-> "none", args |-> << >>]
NoOutcome == Outcome("none")

\* A call and what it came to; a trap or a loop without end is the last.
Call(fn, args, result) ==
  /\ call = Idle
  /\ call' = [fn |-> fn, args |-> args]
  /\ outcome' = result

Return ==
  /\ outcome.kind \notin {"none", "trap", "hang"}
  /\ call' = Idle
  /\ outcome' = NoOutcome

Expression ==
  \/ \E line \in Lines : Call("calc_init", line, calc_init(line))
  \/ Call("calc_init", Null, calc_init(Null))

IntegerFunction ==
  \E a \in Ints :
    \/ Call("sqr", <<a>>, calc_sqr(a))
    \/ Call("log10", <<a>>, calc_log10(a))
    \/ \E b \in Ints :
         \/ Call("pow", <<a, b>>, calc_pow(a, b))
         \/ Call("root", <<a, b>>, calc_root(a, b))
         \/ Call("log", <<a, b>>, calc_log(a, b))
         \/ Call("tetration", <<a, b>>, calc_tetration(a, b))

LimitedFunction ==
  \E n \in -1 .. FibonacciLimit + 1 :
    \/ Call("factorial", <<n>>, calc_factorial(n))
    \/ Call("fibonacci", <<n>>, calc_fibonacci(n))

FixedPointFunction ==
  \/ \E angle \in Angles :
       \/ Call("sin", <<angle>>, calc_sin(angle))
       \/ Call("cos", <<angle>>, calc_cos(angle))
       \/ Call("tan", <<angle>>, calc_tan(angle))
       \/ Call("ctg", <<angle>>, calc_ctg(angle))
  \/ \E value \in Slopes :
       \/ Call("asin", <<value>>, calc_asin(value))
       \/ Call("acos", <<value>>, calc_acos(value))
       \/ Call("atan", <<value>>, calc_atan(value))
       \/ Call("actg", <<value>>, calc_actg(value))

CalcInit == call = Idle /\ outcome = NoOutcome

CalcNext ==
  Expression \/ IntegerFunction \/ LimitedFunction \/ FixedPointFunction \/ Return

CalcSpec == CalcInit /\ [][CalcNext]_callVars

-----------------------------------------------------------------------------

(* What text means. *)

NumberOf(digits) == FoldLeft(LAMBDA v, c : v * 10 + DigitValue[c], 0, digits)

AllIn(s, i, j, chars) == \A k \in i .. j : s[k] \in chars

\* s from i to j is a number, and which one it is.
IsNumber(s, i, j) ==
  LET first == IF s[i] \in {"-", "+"} THEN i + 1 ELSE i
  IN  i <= j /\ first <= j /\ AllIn(s, first, j, Range(Digits))

Number(s, i, j) ==
  LET first == IF s[i] \in {"-", "+"} THEN i + 1 ELSE i
      size  == NumberOf(SubSeq(s, first, j))
  IN  IF s[i] = "-" THEN -size ELSE size

\* A text that is a number, and which one.
Reads(text, n) == IsNumber(text, 1, Len(text)) /\ Number(text, 1, Len(text)) = n

\* The places i1 <= j1 < op < i2 <= j2 of two numbers and an operator that,
\* with blanks around them, are the whole of s.
Readings(s) ==
  {r \in [i1: DOMAIN s, j1: DOMAIN s, op: {k \in DOMAIN s : s[k] \in Operators},
          i2: DOMAIN s, j2: DOMAIN s] :
     /\ r.i1 <= r.j1 /\ r.j1 < r.op /\ r.op < r.i2 /\ r.i2 <= r.j2
     /\ AllIn(s, 1, r.i1 - 1, Blanks) /\ AllIn(s, r.j1 + 1, r.op - 1, Blanks)
     /\ AllIn(s, r.op + 1, r.i2 - 1, Blanks) /\ AllIn(s, r.j2 + 1, Len(s), Blanks)
     /\ IsNumber(s, r.i1, r.j1) /\ IsNumber(s, r.i2, r.j2)}

Computes(op, a, b, r) ==
  CASE op = "+" -> r = Wrap(a + b)
    [] op = "-" -> r = Wrap(a - b)
    [] op = "*" -> r = Wrap(a * b)
    [] op = "/" -> b # 0 /\ Abs(a - b * r) < Abs(b) /\ (a - b * r) * a >= 0

\* A line is computed when it is two numbers around an operator, and only then,
\* and the int it prints is right modulo the width of an int, up to the signs
\* and blanks that can be put together.  Division by 0 is refused, and nothing
\* but the least int divided by -1 raises an exception, which halts the kernel
\* (calc.cpp:11-67, 330-396).
ExpressionMeans ==
  call.fn = "calc_init" =>
    IF call.args = Null \/ Readings(call.args) = {}
    THEN outcome.kind \in {"usage", "help"}
    ELSE \A r \in Readings(call.args) :
           LET op == call.args[r.op]
               a  == Wrap(Number(call.args, r.i1, r.j1))
               b  == Wrap(Number(call.args, r.i2, r.j2))
           IN  CASE op = "/" /\ b = 0 -> outcome.kind = "error"
                 [] op = "/" /\ a = INT_MIN /\ b = -1 -> outcome.kind = "trap"
                 [] OTHER ->
                      /\ outcome.kind = "result"
                      /\ \E n \in Ints : Reads(outcome.text, n) /\ Computes(op, a, b, n)

-----------------------------------------------------------------------------

(* What the functions mean. *)

\* A number that is printed.
Prints(n) == outcome.kind = "result" /\ Reads(outcome.text, n)

\* base^exp, or something above every int for what is above every int.
Above == 2 ^ BITS
Capped(x) == IF x < Above THEN x ELSE Above

Power(base, exp) ==
  LET power[k \in Nat] == IF k = 0 THEN 1 ELSE Capped(power[k - 1] * base)
  IN  power[exp]

\* The tower of powers of the given height, which is at least 1.
Tower(base, height) ==
  FoldLeft(LAMBDA tower, b : Power(b, tower), base, Repeated(base, height - 1))

Factorial[n \in Nat] == IF n = 0 THEN 1 ELSE n * Factorial[n - 1]

Fibonacci(n) ==
  LET text == calc_fibonacci(n).text IN Number(text, 1, Len(text))

SqrExact(a) == a * a < Above => Prints(a * a)

PowExact(a, b) ==
  b >= 0 /\ Power(Abs(a), b) < Above /\ (a >= 0 \/ b % 2 = 0)
    => Prints(Power(Abs(a), b))

\* The search starts at half its argument, and goes above it for the least ones
\* alone.
RootExact(a, b) ==
  /\ b <= 0 <=> outcome.kind = "error"
  /\ (a > 0 /\ b > 0 /\ 2 * a <= INT_MAX
      /\ Power(IF a < 4 THEN a ELSE (a + 1) \div 2, b) <= INT_MAX)
       => \E r \in 1 .. INT_MAX : Prints(r) /\ Power(r, b) <= a /\ a < Power(r + 1, b)

\* The last power is up to b times a.
LogExact(a, b) ==
  /\ (a <= 0 \/ b <= 1) <=> outcome.kind = "error"
  /\ (b > 1 /\ a > 0 /\ a <= INT_MAX \div b)
       => \E r \in 0 .. INT_MAX : Prints(r) /\ Power(b, r) <= a /\ a < Power(b, r + 1)

TetrationExact(a, b) ==
  IF b < 0 \/ (a < 0 /\ b # 0) THEN outcome.kind = "error"
  ELSE IF b = 0 THEN Prints(1)
  ELSE IF Tower(a, b) <= INT_MAX THEN Prints(Tower(a, b))
  ELSE outcome.kind = "error"

FactorialExact(n) ==
  IF n \in 0 .. 12 THEN Prints(Factorial[n]) ELSE outcome.kind = "error"

FibonacciExact(n) ==
  IF n \notin 0 .. 46 THEN outcome.kind = "error"
  ELSE Prints(IF n < 2 THEN n ELSE Fibonacci(n - 1) + Fibonacci(n - 2))

\* The integer functions are right wherever no intermediate result overflows,
\* and only an overflow can make one of them loop for ever.  tetration is
\* refused where its result is no int, factorial and fibonacci where 32 bits do
\* not hold them (calc.cpp:136-169, 398-488, 602-712).
IntegersExact ==
  LET a == call.args[1]
      b == call.args[2]
  IN
  CASE call.fn = "sqr"       -> SqrExact(a)
    [] call.fn = "pow"       -> PowExact(a, b)
    [] call.fn = "root"      -> RootExact(a, b)
    [] call.fn = "log"       -> LogExact(a, b)
    [] call.fn = "log10"     -> LogExact(a, 10)
    [] call.fn = "tetration" -> TetrationExact(a, b)
    [] call.fn = "factorial" -> FactorialExact(a)
    [] call.fn = "fibonacci" -> FibonacciExact(a)
    [] OTHER -> TRUE

(* The functions of angles. *)

\* The whole number a text is, without its sign and its point.
Read(text) ==
  LET digits == SelectSeq(text, LAMBDA c : c \in Range(Digits))
  IN  IF Head(text) = "-" THEN -NumberOf(digits) ELSE NumberOf(digits)

Near(x, y, tolerance) == Abs(x - y) <= tolerance

Sin(angle) == sin_fp(deg_to_rad_fp(angle))
Cos(angle) == cos_fp(deg_to_rad_fp(angle))

\* cos 1 degree and sin 1 degree.
COS1 == 9998
SIN1 == 175

\* The same direction within half a turn; the series is exact up to there.
Direction(angle) == ((angle + 180) % 360) - 180
InSeries(angle) == Abs(Direction(angle)) <= 146

\* Sine and cosine start at 0 and 1 and go on from degree to degree by the
\* addition theorem, through every quadrant and beyond a turn, as far as the
\* terms of their series fit an int: up to 146 degrees from 0; tangent and
\* cotangent are there refused exactly where they do not exist, and are the
\* quotients of the two; asin and acos of what they accept add up to a right
\* angle (calc.cpp:176-222, 490-578).  calc_atan and calc_actg, which have whole
\* degrees printed as ten-thousandths, are not among what is right.
TrigAgrees ==
  LET x == call.args[1]
      r == Read(outcome.text)
      smooth == InSeries(x) /\ InSeries(x - 1)
  IN
  CASE call.fn = "sin" ->
         /\ smooth => Near(r * FP, Sin(x - 1) * COS1 + Cos(x - 1) * SIN1, 4 * FP)
         /\ Direction(x) = 0 => r = 0
    [] call.fn = "cos" ->
         /\ smooth => Near(r * FP, Cos(x - 1) * COS1 - Sin(x - 1) * SIN1, 4 * FP)
         /\ Direction(x) = 0 => r = FP
    [] call.fn = "tan" /\ InSeries(x) ->
         IF x % 180 = 90 THEN outcome.kind = "error"
         ELSE /\ outcome.kind = "result"
              /\ Near(r * Cos(x), Sin(x) * FP, FP)
    [] call.fn = "ctg" /\ InSeries(x) ->
         IF x % 180 = 0 THEN outcome.kind = "error"
         ELSE /\ outcome.kind = "result"
              /\ Near(r * Sin(x), Cos(x) * FP, FP)
    [] call.fn \in {"asin", "acos"} ->
         IF x \in {-1, 0, 1}
         THEN Read(calc_asin(x).text) + Read(calc_acos(x).text) = 90 * FP
              /\ (x = 1 /\ call.fn = "asin" => r = 90 * FP)
         ELSE outcome.kind = "error"
    [] OTHER -> TRUE

\* What the names sin and cos promise of every angle: no result above 1, up to
\* rounding (README.md:95).  A run refutes it beyond 146 degrees.
SineAtMostOne ==
  call.fn \in {"sin", "cos"} => Abs(Read(outcome.text)) <= FP + 3
=============================================================================
