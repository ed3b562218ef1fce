------------------------------- MODULE ExpLog -------------------------------
(***************************************************************************)
(* The exponentials and logarithms of one argument (musl/exp.c, exp2.c,    *)
(* expf.c, exp2f.c, log.c, log2.c, logf.c, log2f.c, scalbnf.c), modelled   *)
(* as Pow is.  What a logarithm returns is [least, most, scale, below], the *)
(* bounds of the logarithm of base 2 of its argument.                      *)
(***************************************************************************)
EXTENDS Pow

\* The word is above w, of a number whose bits below it are zero.
Above(f, v, w) == Word(f, v) > w \/ (Word(f, v) = w /\ v.low < v.exp - f.kept)

SpecialCaseExp(q, sbits) ==
    IF q >= 0
    THEN FromScale(DOUBLE, (sbits - 1009) % 4096, 1009)
    ELSE FromScale(DOUBLE, (sbits + 1022) % 4096, -1022)

SpecialCaseExp2(q, sbits) ==
    IF q >= 0
    THEN FromScale(DOUBLE, (sbits - 1) % 4096, 1)
    ELSE FromScale(DOUBLE, (sbits + 1022) % 4096, -1022)

\* Arguments below 2^-54 and from 512 on are told apart by their exponents: 0x3c9, 0x408.
Exp(x) ==
    LET abstop == Field(DOUBLE, x)
        far == Outside(abstop, 969, 1032)
    IN Early(<<<<far /\ abstop < 969, One(0)>>,
               <<far /\ x.class = "inf" /\ x.sign = 1, Zero(0)>>,
               <<far /\ abstop >= 2047, Itself(x)>>,
               <<far /\ abstop >= 1033, IF x.sign = 1 THEN Zero(0) ELSE Inf(0)>>>>,
             {IF far THEN SpecialCaseExp(q, SBits(q, 0)) ELSE FromScale(DOUBLE, SBits(q, 0), 0)
                : q \in Octaves(DOUBLE, x)})

\* A negative argument is too large only from -1075 on: the word is compared.
Exp2(x) ==
    LET abstop == Field(DOUBLE, x)
        far == Outside(abstop, 969, 1032)
        huge == 1033 * 2 ^ 20 + 51 * 2 ^ 10         \* of 1075
        large == 1032 * 2 ^ 20 + 832 * 2 ^ 10       \* of 928
    IN Early(<<<<far /\ abstop < 969, One(0)>>,
               <<far /\ x.class = "inf" /\ x.sign = 1, Zero(0)>>,
               <<far /\ abstop >= 2047, Itself(x)>>,
               <<far /\ abstop >= 1033 /\ x.sign = 0, Inf(0)>>,
               <<far /\ abstop >= 1033 /\ Word(DOUBLE, x) >= huge, Zero(0)>>>>,
             {IF far /\ Above(DOUBLE, x, large)
              THEN SpecialCaseExp2(q, SBits(q, 0))
              ELSE FromScale(DOUBLE, SBits(q, 0), 0)
                : q \in Integral(DOUBLE, x)})

Exp2F(x) ==
    LET abstop == Field(FLOAT, x)
        far == abstop >= 134
    IN Early(<<<<far /\ x.class = "inf" /\ x.sign = 1, Zero(0)>>,
               <<far /\ abstop >= 255, Itself(x)>>,
               <<far /\ x.sign = 0, Inf(0)>>,
               <<far /\ Word(FLOAT, x) >= 134 * 2 ^ 23 + 11 * 2 ^ 17, Zero(0)>>>>,    \* 150
             {FromScale(FLOAT, SBits(q, 0), 0) : q \in Integral(FLOAT, x)})

\* Steps of at most 127 and -126, each of which may leave the range, and a last one of what
\* remains, at most one more.
ScalbnF(e, n) ==
    LET step == IF n > 127 THEN 127 ELSE -126
        steps == IF n \in -126 .. 127 THEN 0 ELSE IF n - step \in -126 .. 127 THEN 1 ELSE 2
        after[i \in 0 .. steps] == IF i = 0 THEN About(0, e)
                                   ELSE IF after[i - 1][1] = "about"
                                   THEN Rounded(FLOAT, 0, after[i - 1][3] + step)
                                   ELSE after[i - 1]
        remains == n - steps * step
        last == IF remains > 127 THEN 127 ELSE IF remains < -126 THEN -126 ELSE remains
    IN IF after[steps][1] = "about"
       THEN Rounded(FLOAT, 0, after[steps][3] + last)
       ELSE after[steps]

\* k is the integer nearest to x / ln2, and what remains is between 2^-1 and 2.
ExpF(x) ==
    LET hx == Word(FLOAT, x)
        large == hx >= 1118743632                   \* 0x42aeac50
        Nearest(q) == CASE hx > 1065686418 -> {q, q + 1}                \* 0x3f851592
                        [] hx > 1051816472 /\ hx <= 1065686418 -> {1 - 2 * x.sign}  \* 0x3eb17218
                        [] OTHER -> {0}
    IN Early(<<<<x.class = "nan", NaN>>,
               <<large /\ hx >= 1118925336 /\ x.sign = 0, Inf(0)>>,     \* 0x42b17218
               <<large /\ hx >= 1120924085 /\ x.sign = 1, Zero(0)>>,    \* 0x42cff1b5
               <<hx <= 956301312, One(0)>>>>,                           \* 0x39000000
             UNION {{ScalbnF(q - k, k) : k \in Nearest(q)} : q \in Octaves(FLOAT, x)})

\* The logarithm found, or the pole at zero, or no number.
LogIs(bounds) == <<"log", bounds>>
LogOfSpecial(x) ==
    <<<<x.class = "zero", Inf(1)>>,
      <<x.class = "inf" /\ x.sign = 0, Inf(0)>>,
      <<x.class = "nan" \/ x.sign = 1, NaN>>>>

\* Near one the difference to it is taken, which is exact.
NearOne(x, lo, hi) == x.sign = 0 /\ x.class = "finite" /\ ~Outside(Word(DOUBLE, x), lo, hi)
AtOne(x) == LogIs(Log2(DOUBLE, x.exp, x.frac, x.low))

\* LO and HI are 0x3fee0000 and 0x3ff10900.
Log(x) ==
    LET ix == Normalized(DOUBLE, x)
    IN IF NearOne(x, 1072562176, 1072761088)
       THEN {IF IsOne(x) THEN Zero(0) ELSE AtOne(x)}
       ELSE Early(LogOfSpecial(x), {LogIs(LogFrom(DOUBLE, ix, LogOff, x))})

\* LO and HI are 0x3feea4af and 0x3ff0b559.
LogBase2(x) ==
    LET ix == Normalized(DOUBLE, x)
    IN IF NearOne(x, 1022 * 2 ^ 20 + 959663, 1023 * 2 ^ 20 + 46425)
       THEN {IF IsOne(x) THEN Zero(0) ELSE AtOne(x)}
       ELSE Early(LogOfSpecial(x), {LogIs(LogFrom(DOUBLE, ix, LogOff, x))})

LogF(x) ==
    LET ix == Normalized(FLOAT, x)
    IN IF IsOne(x) /\ x.sign = 0
       THEN {Zero(0)}
       ELSE Early(LogOfSpecial(x), {LogIs(LogFrom(FLOAT, ix, LogOffF, x))})

LogBase2F(x) ==
    LET ix == Normalized(FLOAT, x)
    IN IF IsOne(x) /\ x.sign = 0
       THEN {Zero(0)}
       ELSE Early(LogOfSpecial(x), {LogIs(LogFrom(FLOAT, ix, LogOffF, x))})

=============================================================================
