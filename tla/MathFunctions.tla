----------------------------- MODULE MathFunctions -----------------------------
(***************************************************************************)
(* The functions of src/modules/calc/calc.cpp that the shell does not      *)
(* reach yet.  The first part computes in int32, BITS wide.  factorial,    *)
(* fibonacci and the fixed-point functions have limits and scales that     *)
(* belong to 32 bits; they are modelled at that width, overflow included.  *)
(***************************************************************************)
EXTENDS Calculator

Times(n) == [i \in 1 .. n |-> i]
Repeated(x, n) == [i \in 1 .. n |-> x]

\* base^n as a loop of n multiplications computes it.
PowerLoop(base, n) == FoldLeft(LAMBDA r, b : Wrap(r * b), 1, Repeated(base, n))

calc_sqr(a) == Result(print_uint32(Wrap(a * a)))

calc_pow(base, exp) == Result(print_uint32(PowerLoop(base, exp)))

\* What a loop comes to that is back in a state it was in: no int.
Hang == INT_MAX + 1

\* The binary search of calc_root: one turn, after a break with an empty range,
\* and what the search comes to.  The ranges seen tell when it goes in circles.
RootState == [a : Int, n : Int, low : Int, high : Int, result : Int,
              seen : SUBSET (Int \X Int)]

RootTurn(s) ==
  LET mid     == Quotient(Wrap(s.low + s.high), 2)
      mid_pow == PowerLoop(mid, s.n)
      more    == [s EXCEPT !.seen = @ \cup {<<s.low, s.high>>}]
  IN  IF mid_pow = s.a THEN [more EXCEPT !.result = mid, !.low = s.high + 1]
      ELSE IF mid_pow < s.a THEN [more EXCEPT !.result = mid, !.low = mid + 1]
      ELSE [more EXCEPT !.high = mid - 1]

RootSearch[s \in RootState] ==
  IF s.low > s.high THEN s.result
  ELSE IF <<s.low, s.high>> \in s.seen THEN Hang
  ELSE RootSearch[RootTurn(s)]

Found(value) == IF value = Hang THEN Outcome("hang") ELSE Result(print_uint32(value))

calc_root(a, n) ==
  IF n <= 0 THEN Outcome("error")
  ELSE Found(RootSearch[[a |-> a, n |-> n, low |-> 1, high |-> a, result |-> 1,
                         seen |-> {}]])

\* The loop of calc_log, and its correction when it has gone too far.
LogState == [a : Int, base : Int, power : Int, result : Int, seen : SUBSET Int]

LogTurn(s) == [s EXCEPT !.power = Wrap(@ * s.base), !.result = @ + 1,
                        !.seen = @ \cup {s.power}]

LogLoop[s \in LogState] ==
  IF s.power >= s.a THEN (IF s.power > s.a THEN s.result - 1 ELSE s.result)
  ELSE IF s.power \in s.seen THEN Hang
  ELSE LogLoop[LogTurn(s)]

calc_log(a, base) ==
  IF a <= 0 \/ base <= 1 THEN Outcome("error")
  ELSE Found(LogLoop[[a |-> a, base |-> base, power |-> 1, result |-> 0, seen |-> {}]])

calc_log10(a) == calc_log(a, 10)

\* Wrong variant: one too many is let through.
MulOverflows_OffByOne(a, b) ==
  \/ a > 0 /\ b > 0 /\ a > Quotient(INT_MAX, b) + 1
  \/ a > 0 /\ b < 0 /\ b < Quotient(INT_MIN, a)

\* The refusals of checked_mul_int, for factors that are not 0.
MulOverflows(a, b) ==
  \/ a = -1 /\ b = INT_MIN
  \/ b = -1 /\ a = INT_MIN
  \/ a > 0 /\ b > 0 /\ a > Quotient(INT_MAX, b)
  \/ a > 0 /\ b < 0 /\ b < Quotient(INT_MIN, a)
  \/ a < 0 /\ b > 0 /\ a < Quotient(INT_MIN, b)
  \/ a < 0 /\ b < 0 /\ b < Quotient(INT_MAX, a)

\* The product, in a set that is empty when it is refused.
checked_mul_int(a, b) ==
  IF a = 0 \/ b = 0 THEN {0}
  ELSE IF MulOverflows(a, b) THEN {} ELSE {Wrap(a * b)}

\* One more level of the tower, none when it overflows or is bound to.
TowerLevel(tower, base) ==
  UNION {IF result > BITS - 1 THEN {}
         ELSE FoldLeft(LAMBDA power, b : UNION {checked_mul_int(p, b) : p \in power},
                       {1}, Repeated(base, result)) : result \in tower}

calc_tetration(base, height) ==
  LET tower == FoldLeft(LAMBDA t, b : TowerLevel(t, b), {base},
                        Repeated(base, height - 1))
  IN  CASE height < 0                -> Outcome("error")
        [] height = 0                -> print_result(1)
        [] height > 0 /\ base = 0    -> print_result(IF height % 2 = 0 THEN 1 ELSE 0)
        [] height > 0 /\ base < 0    -> Outcome("error")
        [] height > 0 /\ base > 0    ->
             IF tower = {} THEN Outcome("error")
             ELSE print_result(CHOOSE result \in tower : TRUE)

-----------------------------------------------------------------------------

(* At 32 bits. *)

FactorialLimit == 12
FibonacciLimit == 46

calc_factorial(n) ==
  IF n < 0 \/ n > FactorialLimit THEN Outcome("error")
  ELSE print_result(FoldLeft(LAMBDA r, i : r * i, 1, Times(n)))

\* Pairs a, b of the loop; for 0 the result is printed as it is.
calc_fibonacci(n) ==
  IF n < 0 \/ n > FibonacciLimit THEN Outcome("error")
  ELSE IF n = 0 THEN print_result(0)
  ELSE print_result(FoldLeft(LAMBDA ab, i : <<ab[2], ab[1] + ab[2]>>,
                             <<0, 1>>, Times(n - 1))[2])

FP == 10000
PI_FP == 31416
HALF_PI_FP == 15708

\* Wrong variant: half a turn.
TWO_PI_FP_Half == 31416

TWO_PI_FP == 62832

deg_to_rad_fp(degrees) == Quotient(degrees * PI_FP, 180)
rad_to_deg_fp(radians) == Quotient(radians * 180, PI_FP)

normalize_rad_fp[x \in Int] ==
  IF x > PI_FP THEN normalize_rad_fp[x - TWO_PI_FP]
  ELSE IF x < -PI_FP THEN normalize_rad_fp[x + TWO_PI_FP] ELSE x

\* t * x in an int of 32 bits, from its two halves; x is below 2^15.
Times32(t, x) ==
  LET half == 2 ^ 16
      low  == (t % half) * x
      high == (t \div half) * x + low \div half
  IN  (((high + half \div 2) % half) - half \div 2) * half + (low % half)

\* Six more terms of a series of even or odd powers (parity 0 or 1) of x, from
\* its first.  The products of large terms overflow.
Series(x, first, parity) ==
  LET Square(t) == Quotient(Times32(-Quotient(Times32(t, x), FP), x), FP)
      denom(k)  == (2 * k - 1 + parity) * (2 * k + parity)
  IN  FoldLeft(LAMBDA s, k : LET t == Quotient(Square(s.term), denom(k))
                             IN  [term |-> t, sum |-> s.sum + t],
               [term |-> first, sum |-> first], Times(6)).sum

sin_fp(radians) ==
  LET x == normalize_rad_fp[radians]
  IN  Series(x, x, 1)

cos_fp(radians) ==
  LET x == normalize_rad_fp[radians]
  IN  Series(x, FP, 0)

\* The series of the arctangent for 0 <= z <= FP, of nine terms.
AtanSeries(z) ==
  FoldLeft(LAMBDA s, n :
             LET zpow == Quotient(Quotient(s.zpow * z, FP) * z, FP)
                 term == zpow \div (2 * n + 1)
             IN  [zpow |-> zpow, sum |-> IF n % 2 = 1 THEN s.sum - term ELSE s.sum + term],
           [zpow |-> z, sum |-> z], Times(8)).sum

atan_fp_core(z) ==
  LET size   == Abs(z)
      result == IF size <= FP THEN AtanSeries(size)
                ELSE HALF_PI_FP - AtanSeries((FP * FP) \div size)
  IN  IF z < 0 THEN -result ELSE result

\* A fixed-point number of scale FP: its integer part, and four digits.
print_scaled_result(scaled) ==
  LET size == Abs(scaled) IN
  Result((IF scaled < 0 THEN <<"-">> ELSE << >>)
         \o Decimal[size \div FP] \o <<".">>
         \o [i \in 1 .. 4 |-> Digits[(((size % FP) \div 10 ^ (4 - i)) % 10) + 1]])

calc_sin(angle) == print_scaled_result(sin_fp(deg_to_rad_fp(angle)))
calc_cos(angle) == print_scaled_result(cos_fp(deg_to_rad_fp(angle)))

\* a / b, or the message that it is undefined.
Ratio(a, b) ==
  IF b \in {-1, 0, 1} THEN Outcome("error") ELSE print_scaled_result(Quotient(a * FP, b))

calc_tan(angle) ==
  Ratio(sin_fp(deg_to_rad_fp(angle)), cos_fp(deg_to_rad_fp(angle)))
calc_ctg(angle) ==
  Ratio(cos_fp(deg_to_rad_fp(angle)), sin_fp(deg_to_rad_fp(angle)))

calc_asin(value) ==
  IF value \in -1 .. 1 THEN print_scaled_result(value * 900000) ELSE Outcome("error")
calc_acos(value) ==
  IF value \in -1 .. 1 THEN print_scaled_result((1 - value) * 900000)
                       ELSE Outcome("error")

calc_atan(value) == print_scaled_result(rad_to_deg_fp(atan_fp_core(value * FP)))
calc_actg(value) ==
  print_scaled_result(900000 - IF value = 0 THEN 0
                               ELSE rad_to_deg_fp(atan_fp_core(value * FP)))
=============================================================================
