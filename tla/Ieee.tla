-------------------------------- MODULE Ieee --------------------------------
(***************************************************************************)
(* Floating-point numbers as the functions of musl take them apart.  A     *)
(* finite number is                                                        *)
(*   (-1)^sign * ((1 + frac / 2^kept) * 2^exp + lowest bit)                *)
(* where the lowest bit, 2^low, is of the fraction if low < exp - kept,    *)
(* and counted in frac if not; low = exp for a power of two.  Results are  *)
(* sets: what is not an infinity, a zero or no number is About(s, q), of   *)
(* sign s and of the magnitude 2^q to 2^(q+1).                             *)
(***************************************************************************)
EXTENDS Integers, Sequences

DOUBLE == [m |-> 52, bias |-> 1023, kept |-> 20]
FLOAT == [m |-> 23, bias |-> 127, kept |-> 23]
EXTENDED == [m |-> 63, bias |-> 16383, kept |-> 15]

NotFinite(class, s) == [class |-> class, sign |-> s, exp |-> 0, frac |-> 0, low |-> 0]
Finite(s, e, f, l) == [class |-> "finite", sign |-> s, exp |-> e, frac |-> f, low |-> l]
PowerOf2(s, e) == Finite(s, e, 0, e)

NaN == <<"nan", 0, 0>>
Inf(s) == <<"inf", s, 0>>
Zero(s) == <<"zero", s, 0>>
About(s, q) == <<"about", s, q>>
One(s) == About(s, 0)
Itself(v) == CASE v.class = "finite" -> About(v.sign, v.exp) [] OTHER -> <<v.class, v.sign, 0>>

\* The range of a format: what is beyond it is an infinity, or rounds to zero.
Rounded(f, s, q) ==
    CASE q > f.bias -> Inf(s)
      [] q < 0 - f.bias - f.m -> Zero(s)
      [] OTHER -> About(s, q)

Bool(b) == IF b THEN 1 ELSE 0
Least(a, b) == IF a < b THEN a ELSE b

\* The exponent field, and the bits above the fraction with the sign.
Special(f) == 2 * f.bias + 1
Field(f, v) ==
    CASE v.class = "zero" -> 0
      [] v.class = "finite" -> IF v.exp <= 0 - f.bias THEN 0 ELSE v.exp + f.bias
      [] OTHER -> Special(f)
Top(f, v) == v.sign * (Special(f) + 1) + Field(f, v)

\* The high word without the sign: all bits of a float, the upper ones of a double.
Word(f, v) ==
    CASE v.class = "zero" -> 0
      [] v.class = "inf" -> Special(f) * 2 ^ f.kept
      [] v.class = "nan" -> Special(f) * 2 ^ f.kept + 2 ^ (f.kept - 1)
      [] OTHER ->
            IF Field(f, v) = 0
            THEN (2 ^ f.kept + v.frac) \div 2 ^ Least(30, 1 - f.bias - v.exp)
            ELSE Field(f, v) * 2 ^ f.kept + v.frac

IsOne(v) == v.class = "finite" /\ v.exp = 0 /\ v.low = 0
AboveOne(v) == v.class = "inf" \/ (v.class = "finite" /\ v.exp >= 0 /\ ~IsOne(v))

\* v - lo >= hi - lo, unsigned.
Outside(v, lo, hi) == v < lo \/ v >= hi

\* A function with early returns: the result of the first row whose guard is true, or
\* else one of those of the general path.
Early(rows, general) ==
    IF \E i \in DOMAIN rows : rows[i][1]
    THEN {rows[CHOOSE i \in DOMAIN rows : rows[i][1] /\ \A j \in 1 .. (i - 1) : ~rows[j][1]][2]}
    ELSE general

-----------------------------------------------------------------------------

\* The logarithm of base 2 of a finite magnitude: it is of the sign of `below', and lies
\* between least and most, times 2^scale.
Log2(f, e, frac, low) ==
    LET between(a, c, b, neg) == [least |-> a, most |-> c, scale |-> b, below |-> neg]
        toOne == 2 ^ f.kept - frac
    IN CASE low = e -> between(IF e < 0 THEN 0 - e ELSE e, IF e < 0 THEN 0 - e ELSE e, 0, e < 0)
         [] low # e /\ e >= 1 -> between(e, e + 1, 0, FALSE)
         [] low # e /\ e < -1 -> between(0 - e - 1, 0 - e, 0, TRUE)
         [] low # e /\ e = 0 /\ frac = 0 -> between(1, 2, low, FALSE)
         [] low # e /\ e = 0 /\ frac # 0 -> between(frac, (3 * (frac + 1)) \div 2, 0 - f.kept, FALSE)
         [] OTHER -> between(toOne - 1, 2 * toOne, 0 - f.kept - 1, TRUE)

\* Nothing tells larger magnitudes apart.
Limit(f) == f.bias + f.m + 10

Scaled(f, n, t) ==
    CASE n = 0 \/ t < -30 -> 0
      [] n # 0 /\ t >= -30 /\ t < 0 -> Least(Limit(f), n \div 2 ^ (0 - t))
      [] OTHER -> IF n >= Limit(f) \/ t >= 15 THEN Limit(f) ELSE Least(Limit(f), n * 2 ^ t)

Floors(negative, least, most) ==
    IF negative THEN (0 - most - 1) .. (0 - least) ELSE least .. most

\* The integers at or below y * log, for a finite y.
Product(f, log, y) ==
    LET digits == (2 ^ f.kept + y.frac) \div 2 ^ (f.kept - 4)
        inexact == Bool(y.low < y.exp - 4)
    IN IF log.most = 0 THEN {0} ELSE
       Floors((y.sign = 1) # log.below,
              Scaled(f, log.least * digits, log.scale + y.exp - 4),
              Scaled(f, log.most * (digits + inexact), log.scale + y.exp - 4))

\* Those at or below v * least / 2^10 to v * most / 2^10.
Multiple(f, v, least, most) ==
    LET digits == (2 ^ f.kept + v.frac) \div 2 ^ (f.kept - 10)
        inexact == Bool(v.low < v.exp - 10)
    IN IF v.class = "zero" THEN {0} ELSE
       Floors(v.sign = 1,
              Scaled(f, digits * least, v.exp - 20),
              Scaled(f, (digits + inexact) * most, v.exp - 20))

\* The integral parts of v and of v / ln2.
Integral(f, v) == Multiple(f, v, 1024, 1024)
Octaves(f, v) == Multiple(f, v, 1477, 1478)

=============================================================================
