------------------------------- MODULE Numeric -------------------------------
(***************************************************************************)
(* The decimal arithmetic of crates/types/src/numeric.rs: BigDecimal as    *)
(* the code has it, digit by digit, in a computation that applies one      *)
(* operation after the other to a running value, against the same          *)
(* computation on integers.                                                *)
(*                                                                         *)
(* A magnitude is a sequence of decimal digits, in `digits` with the most  *)
(* significant first; the operations reverse it ("LSF").  A text is a      *)
(* sequence of characters.                                                 *)
(***************************************************************************)
EXTENDS Integers, Sequences, SequencesExt, TLC

CONSTANTS
    Decimals,       \* the texts of the operands
    DIV_SCALE,      \* fractional digits of a quotient (16 in the code)
    MaxDigits       \* bound on the digits of the running value

ASSUME NumericAssumption == DIV_SCALE \in Nat /\ MaxDigits \in Nat

VARIABLES
    acc,            \* the running value, a BigDecimal
    exact           \* history: the number it should be, [n, scale]: n / 10^scale

numericVars == <<acc, exact>>

-----------------------------------------------------------------------------
(* Magnitudes, least significant digit first *)

Indices(n) == [i \in 1..n |-> i]
At(a, i) == IF i \in DOMAIN a THEN a[i] ELSE 0
Longer(a, b) == IF Len(a) >= Len(b) THEN Len(a) ELSE Len(b)
AllZero(a) == \A i \in DOMAIN a : a[i] = 0
Zeros(n) == [i \in 1..n |-> 0]

\* MUTANT of mag_add: a carry out of the last digit is dropped.
mag_add_short(a, b) ==
    LET step(s, i) == [out |-> Append(s.out, (At(a, i) + At(b, i) + s.carry) % 10),
                       carry |-> (At(a, i) + At(b, i) + s.carry) \div 10]
    IN  FoldLeft(step, [out |-> <<>>, carry |-> 0], Indices(Longer(a, b))).out

mag_add(a, b) ==
    LET step(s, i) == [out |-> Append(s.out, (At(a, i) + At(b, i) + s.carry) % 10),
                       carry |-> (At(a, i) + At(b, i) + s.carry) \div 10]
        sum == FoldLeft(step, [out |-> <<>>, carry |-> 0], Indices(Longer(a, b)))
    IN  IF sum.carry > 0 THEN Append(sum.out, sum.carry) ELSE sum.out

\* For a >= b.
mag_sub(a, b) ==
    LET diff(s, i) == a[i] - At(b, i) - s.borrow
        step(s, i) == [out |-> Append(s.out, diff(s, i) + (IF diff(s, i) < 0 THEN 10 ELSE 0)),
                       borrow |-> IF diff(s, i) < 0 THEN 1 ELSE 0]
    IN  FoldLeft(step, [out |-> <<>>, borrow |-> 0], Indices(Len(a))).out

\* The length without high-order zeros, then the first digit that differs.
Significant(a) == {i \in DOMAIN a : a[i] # 0}

mag_cmp(a, b) ==
    LET top(s) == IF s = {} THEN 0 ELSE CHOOSE i \in s : \A j \in s : j <= i
        la == top(Significant(a))
        lb == top(Significant(b))
        differ == top({i \in 1..la : a[i] # b[i]})
    IN  CASE la < lb -> -1
          [] la > lb -> 1
          [] la = lb /\ differ = 0 -> 0
          [] la = lb /\ differ > 0 -> IF a[differ] < b[differ] THEN -1 ELSE 1

\* By one digit.
mag_scale(a, q) ==
    LET step(s, d) == [out |-> Append(s.out, (d * q + s.carry) % 10), carry |-> (d * q + s.carry) \div 10]
        product == FoldLeft(step, [out |-> <<>>, carry |-> 0], a)
    IN  IF q = 0 THEN <<0>>
        ELSE IF product.carry > 0 THEN Append(product.out, product.carry) ELSE product.out

\* Without zeros in front; one digit stays.
trim_leading_zeros(msf) ==
    LET nonzero == {i \in DOMAIN msf : msf[i] # 0 \/ i = Len(msf)}
        first == CHOOSE i \in nonzero : \A j \in nonzero : i <= j
    IN  SubSeq(msf, first, Len(msf))

-----------------------------------------------------------------------------
(* BigDecimal *)

is_zero(d) == AllZero(d.digits)

\* Zeros in front of the integer part go, up to its last digit, and zero is
\* positive.
normalize(d) ==
    LET digits == IF d.digits = <<>> THEN <<0>> ELSE d.digits
        int_len == IF Len(digits) > d.scale THEN Len(digits) - d.scale ELSE 0
        keeps == {i \in 1..int_len : digits[i] # 0 \/ i = int_len}
        first == IF keeps = {} THEN 1 ELSE CHOOSE i \in keeps : \A j \in keeps : i <= j
    IN  [negative |-> d.negative /\ ~AllZero(digits), scale |-> d.scale,
         digits |-> SubSeq(digits, first, Len(digits))]

from_lsf(negative, lsf, scale) ==
    normalize([negative |-> negative, digits |-> Reverse(lsf), scale |-> scale])

zero == [negative |-> FALSE, digits |-> <<0>>, scale |-> 0]

neg(d) == IF is_zero(d) THEN d ELSE [d EXCEPT !.negative = ~@]

aligned_lsf(d, scale) ==
    (IF scale > d.scale THEN Zeros(scale - d.scale) ELSE <<>>) \o Reverse(d.digits)

MaxScale(a, b) == IF a.scale >= b.scale THEN a.scale ELSE b.scale

add(a, b) ==
    LET scale == MaxScale(a, b)
        x == aligned_lsf(a, scale)
        y == aligned_lsf(b, scale)
    IN  CASE a.negative = b.negative -> from_lsf(a.negative, mag_add(x, y), scale)
          [] a.negative # b.negative /\ mag_cmp(x, y) = 0 -> from_lsf(FALSE, Zeros(scale + 1), scale)
          [] a.negative # b.negative /\ mag_cmp(x, y) = 1 -> from_lsf(a.negative, mag_sub(x, y), scale)
          [] a.negative # b.negative /\ mag_cmp(x, y) = -1 -> from_lsf(b.negative, mag_sub(y, x), scale)

sub(a, b) == add(a, neg(b))

\* One row of the product: x times every digit of b, added from digit i on; the
\* last carry goes into the digits above.
MulRow(x, b, i, prod) ==
    LET step(s, j) == LET cur == s.prod[i + j - 1] + x * b[j] + s.carry
                      IN  [prod |-> [s.prod EXCEPT ![i + j - 1] = cur % 10], carry |-> cur \div 10]
        row == FoldLeft(step, [prod |-> prod, carry |-> 0], Indices(Len(b)))
        carry(s, k) == LET cur == s.prod[k] + s.carry
                       IN  IF s.carry = 0 THEN s
                           ELSE [prod |-> [s.prod EXCEPT ![k] = cur % 10], carry |-> cur \div 10]
    IN  FoldLeft(carry, row, [k \in 1..(Len(prod) - i - Len(b) + 1) |-> i + Len(b) + k - 1]).prod

\* The scale of a product of zero is 0, otherwise the sum of the scales.
mul(a, b) ==
    LET x == Reverse(a.digits)
        y == Reverse(b.digits)
        row(prod, i) == MulRow(x[i], y, i, prod)
    IN  IF is_zero(a) \/ is_zero(b) THEN zero
        ELSE from_lsf(a.negative # b.negative,
                      FoldLeft(row, Zeros(Len(x) + Len(y)), Indices(Len(x))), a.scale + b.scale)

\* The digit q of a quotient, the largest with den * q <= rem, by bisection.
RECURSIVE Bisect(_, _, _, _, _)
Bisect(den, rem, lo, hi, q) ==
    LET mid == (lo + hi) \div 2
    IN  IF lo > hi THEN q
        ELSE IF mag_cmp(mag_scale(den, mid), rem) # 1
             THEN IF mid = 9 THEN mid ELSE Bisect(den, rem, mid + 1, hi, mid)
             ELSE IF mid = 0 THEN q ELSE Bisect(den, rem, lo, mid - 1, q)

\* rem tries the digits from 9 down.
LargestDigit(den, rem) ==
    CHOOSE q \in 0..9 : /\ mag_cmp(mag_scale(den, q), rem) # 1
                        /\ \A c \in (q + 1)..9 : mag_cmp(mag_scale(den, c), rem) = 1

\* Long division, digit by digit: the quotient and the remainder.  Division
\* bisects for each digit.
LongDivision(num, den, bisects) ==
    LET step(s, d) ==
          LET rem == Reverse(trim_leading_zeros(Append(s.rem, d)))
              q == IF bisects THEN Bisect(den, rem, 0, 9, 0) ELSE LargestDigit(den, rem)
          IN  [quotient |-> Append(s.quotient, q),
               rem |-> trim_leading_zeros(Reverse(mag_sub(rem, mag_scale(den, q))))]
    IN  FoldLeft(step, [quotient |-> <<>>, rem |-> <<0>>], num)

\* The last digit of the quotient is a guard digit that rounds the others.
finish_div(negative, num, den, scale) ==
    LET quotient == LongDivision(num, Reverse(den), TRUE).quotient
        kept == Reverse(Front(quotient))
        lsf == IF kept = <<>> THEN <<0>> ELSE kept
    IN  from_lsf(negative, IF Last(quotient) >= 5 THEN mag_add(lsf, <<1>>) ELSE lsf, scale)

\* For b # 0.  The dividend, or if its scale is large the divisor, is extended
\* until the quotient has one digit more than asked for.
div_scale(a, b, scale) ==
    LET shift == scale + 1 + b.scale - a.scale
        sign == a.negative # b.negative
    IN  CASE is_zero(a) -> from_lsf(FALSE, Zeros(IF scale > 1 THEN scale ELSE 1), scale)
          [] ~is_zero(a) /\ shift >= 0 -> finish_div(sign, a.digits \o Zeros(shift), b.digits, scale)
          [] ~is_zero(a) /\ shift < 0 -> finish_div(sign, a.digits, b.digits \o Zeros(-shift), scale)

rem(a, b) ==
    LET scale == MaxScale(a, b)
        left == LongDivision(Reverse(aligned_lsf(a, scale)), aligned_lsf(b, scale), FALSE).rem
    IN  from_lsf(a.negative, Reverse(left), scale)

cmp(a, b) ==
    LET scale == MaxScale(a, b)
        ord == mag_cmp(aligned_lsf(a, scale), aligned_lsf(b, scale))
    IN  CASE is_zero(a) /\ is_zero(b) -> 0
          [] ~(is_zero(a) /\ is_zero(b)) /\ a.negative # b.negative -> IF a.negative THEN -1 ELSE 1
          [] ~(is_zero(a) /\ is_zero(b)) /\ a.negative = b.negative -> IF a.negative THEN -ord ELSE ord

-----------------------------------------------------------------------------
(* Text *)

Digit == [c \in {"0", "1", "2", "3", "4", "5", "6", "7", "8", "9"} |->
            CHOOSE n \in 0..9 : ToString(n) = c]

Number(digits) == FoldLeft(LAMBDA n, d : 10 * n + d, 0, digits)
Digits(s) == LET d == SelectSeq(s, LAMBDA c : c \in DOMAIN Digit) IN [i \in DOMAIN d |-> Digit[d[i]]]

Unsigned(s) == IF s # <<>> /\ s[1] \in {"+", "-"} THEN Tail(s) ELSE s
AllDigits(s) == s # <<>> /\ \A i \in DOMAIN s : s[i] \in DOMAIN Digit

to_canonical_string(d) ==
    LET n == Len(d.digits)
        int_len == IF n > d.scale THEN n - d.scale ELSE 0
        chars == [i \in 1..n |-> ToString(d.digits[i])]
        pad == IF d.scale > n THEN d.scale - n ELSE 0
    IN  (IF d.negative /\ ~is_zero(d) THEN <<"-">> ELSE <<>>)
        \o (IF int_len = 0 THEN <<"0">> ELSE SubSeq(chars, 1, int_len))
        \o (IF d.scale = 0 THEN <<>>
            ELSE <<".">> \o [i \in 1..pad |-> "0"] \o SubSeq(chars, int_len + 1, n))

\* A sign, digits with at most one point, and an exponent that moves the point;
\* <<>> for any other text.
parse(text) ==
    LET body == Unsigned(text)
        marks == {i \in DOMAIN body : body[i] = "e"}
        mark == IF marks = {} THEN Len(body) + 1 ELSE CHOOSE i \in marks : \A j \in marks : i <= j
        mantissa == SubSeq(body, 1, mark - 1)
        power == SubSeq(body, mark + 1, Len(body))
        dots == {i \in DOMAIN mantissa : mantissa[i] = "."}
        digits == Digits(mantissa)
        fraction == IF dots = {} THEN 0 ELSE Len(mantissa) - (CHOOSE i \in dots : TRUE)
        exp == IF marks = {} THEN 0
               ELSE (IF power[1] = "-" THEN -1 ELSE 1) * Number(Digits(power))
        scale == fraction - exp
        padded == IF scale < 0 THEN digits \o Zeros(-scale) ELSE digits
    IN  IF \/ digits = <<>> \/ Len(digits) + Len(SetToSeq(dots)) # Len(mantissa) \/ Len(SetToSeq(dots)) > 1
           \/ marks # {} /\ ~AllDigits(Unsigned(power))
        THEN <<>>
        ELSE <<normalize([negative |-> text[1] = "-", digits |-> padded,
                          scale |-> IF scale < 0 THEN 0 ELSE scale])>>

-----------------------------------------------------------------------------
(* The computation *)

\* The number a BigDecimal stands for.
Signed(d) == (IF d.negative THEN -1 ELSE 1) * Number(d.digits)
Denoted(d) == [n |-> Signed(d), scale |-> d.scale]

Operands == {parse(t)[1] : t \in {l \in Decimals : parse(l) # <<>>}}

NumericInit == acc \in Operands /\ exact = Denoted(acc)

Fits(d) == Len(d.digits) <= MaxDigits /\ d.scale <= MaxDigits

Becomes(d, e) ==
    /\ Fits(d)
    /\ acc' = d
    /\ exact' = e

Pow10[n \in Nat] == IF n = 0 THEN 1 ELSE 10 * Pow10[n - 1]
Abs(n) == IF n < 0 THEN -n ELSE n
Sign(n) == IF n < 0 THEN -1 ELSE IF n > 0 THEN 1 ELSE 0

\* Both numerators over the larger power of ten.
Common(x, y) ==
    LET scale == IF x.scale >= y.scale THEN x.scale ELSE y.scale
    IN  [x |-> x.n * Pow10[scale - x.scale], y |-> y.n * Pow10[scale - y.scale], scale |-> scale]

\* Rounded half away from zero, and truncated.
RoundedQuotient(n, d) == Sign(n) * Sign(d) * ((2 * Abs(n) + Abs(d)) \div (2 * Abs(d)))
TruncatedRest(n, d) == Sign(n) * (Abs(n) % Abs(d))

Add(y) ==
    LET c == Common(exact, Denoted(y))
    IN  Becomes(add(acc, y), [n |-> c.x + c.y, scale |-> c.scale])

Subtract(y) ==
    LET c == Common(exact, Denoted(y))
    IN  Becomes(sub(acc, y), [n |-> c.x - c.y, scale |-> c.scale])

Multiply(y) ==
    LET n == exact.n * Signed(y)
    IN  Becomes(mul(acc, y), [n |-> n, scale |-> IF n = 0 THEN 0 ELSE exact.scale + y.scale])

Divide(y) ==
    /\ ~is_zero(y)
    /\ LET c == Common(exact, Denoted(y))
       IN  Becomes(div_scale(acc, y, DIV_SCALE),
                   [n |-> RoundedQuotient(c.x * Pow10[DIV_SCALE], c.y), scale |-> DIV_SCALE])

Remainder(y) ==
    /\ ~is_zero(y)
    /\ LET c == Common(exact, Denoted(y))
       IN  Becomes(rem(acc, y), [n |-> TruncatedRest(c.x, c.y), scale |-> c.scale])

NumericNext ==
    \E y \in Operands : Add(y) \/ Subtract(y) \/ Multiply(y) \/ Divide(y) \/ Remainder(y)

NumericSpec == NumericInit /\ [][NumericNext]_numericVars

-----------------------------------------------------------------------------
(* Properties *)

\* Whatever was computed, the digits stand for the exact result (a quotient is
\* rounded half up at its last digit), zero is never negative, the order of two
\* numbers is that of what they stand for, and the text that goes to the client
\* and to the heap file reads back as the same number with the same scale.
NumericIsExact ==
    /\ Denoted(acc) = exact
    /\ acc.negative => exact.n < 0
    /\ \A y \in Operands :
          LET c == Common(exact, Denoted(y)) IN cmp(acc, y) = Sign(c.x - c.y)
    /\ LET read == parse(to_canonical_string(acc))
       IN  read # <<>> /\ Denoted(read[1]) = exact
=============================================================================
