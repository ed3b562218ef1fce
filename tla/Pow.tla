-------------------------------- MODULE Pow ---------------------------------
(***************************************************************************)
(* pow and powf (musl/pow.c, powf.c): the special cases, the logarithm's   *)
(* reduction, the exponential's thresholds and the exponent of its scale,  *)
(* which is computed modulo the exponent field and the sign.  The          *)
(* polynomials are taken to be accurate.                                   *)
(***************************************************************************)
EXTENDS Ieee

\* Twice the word, less one, so that zero is above infinity.
ZeroInfNan(v) == v.class # "finite"
ZeroInfNanF(v) == v.class # "finite"

\* The lowest bit of the fraction, f.m when there is none, and the lowest bit of the
\* exponent field is the next one.
LowBit(f, v) == v.low - v.exp + f.m
BitSet(f, v, i) == IF i = f.m THEN Field(f, v) % 2 = 1 ELSE LowBit(f, v) = i

\* 0 for no integer, 1 for an odd and 2 for an even one.
CheckInt(v) ==
    LET e == Field(DOUBLE, v)
        unit == 1023 + 52 - e
    IN CASE e < 1023 -> 0
         [] e > 1023 + 52 -> 2
         [] OTHER -> IF LowBit(DOUBLE, v) < unit THEN 0 ELSE IF BitSet(DOUBLE, v, unit) THEN 1 ELSE 2

CheckIntF(v) ==
    LET e == Field(FLOAT, v)
        unit == 127 + 23 - e
    IN CASE e < 127 -> 0
         [] e > 127 + 23 -> 2
         [] OTHER -> IF LowBit(FLOAT, v) < unit THEN 0 ELSE IF BitSet(FLOAT, v, unit) THEN 1 ELSE 2

\* The word of a subnormal is scaled up, and its exponent then counted below zero.
IsSubnormal(f, v) == Field(f, v) = 0
Normalized(f, v) ==
    IF IsSubnormal(f, v)
    THEN Word(f, [v EXCEPT !.exp = @ + f.m]) - f.m * 2 ^ f.kept
    ELSE Word(f, v)

\* x = 2^k z, where the word of z is off up to twice that; what the table and the
\* polynomial then give is the logarithm of 2^k z.
LogFrom(f, ix, off, v) ==
    LET k == (ix - off) \div 2 ^ f.kept
        z == ix - k * 2 ^ f.kept
        e == k + (z \div 2 ^ f.kept) - f.bias
    IN Log2(f, e, z % (2 ^ f.kept), e - (v.exp - v.low))

PowOff == 1022 * 2 ^ 20 + 431445            \* 0x3fe69555
LogOff == 1022 * 2 ^ 20 + 393216            \* 0x3fe60000
LogOffF == 126 * 2 ^ 23 + 3342336           \* 0x3f330000

LogInline(ix, v) == LogFrom(DOUBLE, ix, PowOff, v)
Log2InlineF(ix, v) == LogFrom(FLOAT, ix, LogOffF, v)

\* A double put together of a sign and exponent field, then multiplied by 2^shift.
FromScale(f, top, shift) ==
    IF top % 2048 \in {0, 2047}
    THEN <<"no scale", 0, top>>
    ELSE Rounded(f, top \div 2048, (top % 2048) - 1023 + shift)

\* With q the integral part of the power of two, which sbits has in its exponent.
SBits(q, signBias) == (1023 + q + 2048 * signBias) % 4096

\* Mutant: the scale is used as it was computed.
SpecialCaseMutant(q, sbits) == FromScale(DOUBLE, sbits, 0)

\* Positive powers may overflow into the sign, negative ones into the subnormals.
SpecialCase(q, sbits) ==
    IF q >= 0
    THEN FromScale(DOUBLE, (sbits - 1009) % 4096, 1009)
    ELSE FromScale(DOUBLE, (sbits + 1022) % 4096, -1022)

\* The magnitude of the exponent of e for 2^q.
Natural(q) == ((IF q < 0 THEN 0 - q ELSE q) * 6931) \div 10000

\* sign * 2^q; tiny arguments give one, which is 2^0 here.
ExpInline(q, signBias) ==
    CASE Natural(q) >= 1024 -> IF q < 0 THEN Zero(signBias) ELSE Inf(signBias)
      [] Natural(q) \in 512 .. 1023 -> SpecialCase(q, SBits(q, signBias))
      [] OTHER -> FromScale(DOUBLE, SBits(q, signBias), 0)

Exp2InlineF(q, signBias) == FromScale(FLOAT, SBits(q, signBias), 0)

\* y is a zero, an infinity or no number.
PowOfSpecialY(x, y) ==
    <<<<y.class = "zero", One(0)>>,
      <<IsOne(x) /\ x.sign = 0, One(0)>>,
      <<x.class = "nan" \/ y.class = "nan", NaN>>,
      <<IsOne(x), One(0)>>,
      <<~AboveOne(x) <=> y.sign = 0, Zero(0)>>,
      <<TRUE, Inf(0)>>>>

\* x is, and y is finite: 1 / x^2 or x^2.
PowOfSpecialX(x, y, yint) ==
    LET sign == Bool(x.sign = 1 /\ yint = 1)
    IN <<<<x.class = "nan", NaN>>,
         <<(x.class = "zero") <=> y.sign = 1, Inf(sign)>>,
         <<TRUE, Zero(sign)>>>>

Pow(x, y) ==
    LET farX == Outside(Top(DOUBLE, x), 1, 2047)
        farY == Outside(Field(DOUBLE, y), 958, 1086)
        special == farX \/ farY
        negative == special /\ x.sign = 1
        signBias == Bool(negative /\ CheckInt(y) = 1)
        ix == IF special THEN Normalized(DOUBLE, x) ELSE Word(DOUBLE, x)
    IN IF special /\ ZeroInfNan(y)
       THEN Early(PowOfSpecialY(x, y), {})
       ELSE IF special /\ ZeroInfNan(x)
       THEN Early(PowOfSpecialX(x, y, CheckInt(y)), {})
       ELSE Early(<<<<negative /\ CheckInt(y) = 0, NaN>>,
                    <<farY /\ IsOne(x), One(0)>>,
                    <<farY /\ Field(DOUBLE, y) < 958, One(0)>>,
                    <<farY /\ (AboveOne(x) <=> y.sign = 0), Inf(0)>>,
                    <<farY, Zero(0)>>>>,
                  {ExpInline(q, signBias) : q \in Product(DOUBLE, LogInline(ix, x), y)})

\* 126 <= |y log2(x)| is looked at again.
PowF(x, y) ==
    LET special == Outside(Word(FLOAT, x), 2 ^ 23, 255 * 2 ^ 23) \/ x.sign = 1 \/ ZeroInfNanF(y)
        negative == x.sign = 1
        signBias == Bool(negative /\ CheckIntF(y) = 1)
        ix == IF special THEN Normalized(FLOAT, x) ELSE Word(FLOAT, x)
    IN IF special /\ ZeroInfNanF(y)
       THEN Early(PowOfSpecialY(x, y), {})
       ELSE IF special /\ ZeroInfNanF(x)
       THEN Early(PowOfSpecialX(x, y, CheckIntF(y)), {})
       ELSE Early(<<<<negative /\ CheckIntF(y) = 0, NaN>>>>,
                  {CASE q >= 128 -> Inf(signBias)
                     [] q < -150 -> Zero(signBias)
                     [] OTHER -> Exp2InlineF(q, signBias)
                   : q \in Product(FLOAT, Log2InlineF(ix, x), y)})

=============================================================================
