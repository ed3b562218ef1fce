-------------------------------- MODULE Libm --------------------------------
(***************************************************************************)
(* Calls of the mathematical functions of musl, and what C (Annex F) says  *)
(* of their results: the special cases, and the magnitude of all others.   *)
(***************************************************************************)
EXTENDS ExpLog, Powl, Lgamma, TLC

CONSTANT MathCalls      \* [fn, x, y], what is asked; y is the integer of scalbnf

VARIABLES
    mathCall,           \* the call under way
    results,            \* what it may return
    answered

mathVars == <<mathCall, results, answered>>

\* scalbnf leaves the classes and the sign to the products.
Scalbn(x, n) ==
    IF x.class # "finite" THEN {Itself(x)}
    ELSE {LET r == ScalbnF(x.exp, n) IN <<r[1], x.sign, r[3]>>}

\* The function's body: what it returns for the arguments.
Compute(c) ==
    CASE c.fn = "pow" -> Pow(c.x, c.y)
      [] c.fn = "powf" -> PowF(c.x, c.y)
      [] c.fn = "powl" -> Powl(c.x, c.y)
      [] c.fn = "exp" -> Exp(c.x)
      [] c.fn = "exp2" -> Exp2(c.x)
      [] c.fn = "expf" -> ExpF(c.x)
      [] c.fn = "exp2f" -> Exp2F(c.x)
      [] c.fn = "log" -> Log(c.x)
      [] c.fn = "log2" -> LogBase2(c.x)
      [] c.fn = "logf" -> LogF(c.x)
      [] c.fn = "log2f" -> LogBase2F(c.x)
      [] c.fn = "scalbnf" -> Scalbn(c.x, c.y)
      [] c.fn = "lgamma_r" -> Lgamma(c.x)
      [] c.fn = "lgammal_r" -> LgammaL(c.x)

NoCall == [fn |-> "none"]

MathInit == mathCall = NoCall /\ results = {} /\ answered = FALSE

CallMath ==
    /\ mathCall = NoCall
    /\ mathCall' \in MathCalls
    /\ UNCHANGED <<results, answered>>

ReturnMath ==
    /\ mathCall # NoCall /\ ~answered
    /\ results' = Compute(mathCall)
    /\ answered' = TRUE
    /\ UNCHANGED mathCall

MathNext == CallMath \/ ReturnMath

-----------------------------------------------------------------------------

FormatOf == [fn \in {"pow", "exp", "exp2", "log", "log2", "lgamma_r"} |-> DOUBLE]
            @@ [fn \in {"powf", "expf", "exp2f", "logf", "log2f", "scalbnf"} |-> FLOAT]
            @@ [fn \in {"powl", "lgammal_r"} |-> EXTENDED]

BaseTwoLog(f, x) == Log2(f, x.exp, x.frac, x.low)
Negative(x) == x.sign = 1 /\ x.class # "zero"

\* pow (F.10.4.4): what the classes of the arguments decide, and the nearest powers of
\* two to 2^(y log2 |x|), negated for an odd power of a negative number.
PowAnnexF(f, x, y) ==
    LET sign == Bool(x.sign = 1 /\ OddInteger(y))
    IN CASE y.class = "zero" \/ (IsOne(x) /\ x.sign = 0) -> {One(0)}
         [] IsOne(x) /\ y.class = "inf" -> {One(0)}
         [] "nan" \in {x.class, y.class} /\ y.class # "zero" /\ (~IsOne(x) \/ x.sign = 1) -> {NaN}
         [] x.class = "finite" /\ x.sign = 1 /\ y.class = "finite" /\ ~IsInteger(y) -> {NaN}
         [] OTHER ->
              IF x.class = "finite" /\ y.class = "finite"
              THEN {Rounded(f, sign, q) : q \in Product(f, BaseTwoLog(f, x), y)}
              ELSE {IF AboveOne(x) <=> y.sign = 0 THEN Inf(sign) ELSE Zero(sign)}

\* exp and exp2 (F.10.3.1, 2).
ExpAnnexF(f, x, powers) ==
    CASE x.class = "finite" -> {Rounded(f, 0, q) : q \in powers}
      [] x.class = "zero" -> {One(0)}
      [] x.class = "inf" -> {IF x.sign = 1 THEN Zero(0) ELSE Inf(0)}
      [] OTHER -> {NaN}

\* log and log2 (F.10.3.7, 10).
LogAnnexF(f, x) ==
    CASE x.class = "nan" \/ Negative(x) -> {NaN}
      [] x.class = "zero" -> {Inf(1)}
      [] OTHER -> IF x.class = "inf" THEN {Inf(0)}
                  ELSE IF IsOne(x) THEN {Zero(0)} ELSE {LogIs(BaseTwoLog(f, x))}

\* A negative integer is a pole of the gamma function.
Pole(x) == x.class = "finite" /\ x.sign = 1 /\ x.low >= 0

\* The gamma function is negative between -1 and 0, -3 and -2, ...
GammaSign(f, x) == IF x.sign = 1 /\ Part(f, x) % 2 = 0 THEN -1 ELSE 1

\* |x| in units of 2^-12, up to 2^15, and the domain of each approximation in them, with
\* a unit for the words' last bits: 1.7316 to 2, 1.2316 to 1.7316, 0.9 to 1.2316, 2 to 3.
UnitsOf(f, v) ==
    IF v.exp < -12 THEN 0 ELSE IF v.exp > 2 THEN 2 ^ 15 ELSE (2 ^ f.kept + v.frac) \div 2 ^ (f.kept - 12 - v.exp)
Domain == <<7092 .. 8191, 5044 .. 7093, 3686 .. 5045, 8192 .. 12287>>

\* The range of lgamma(x), x * (ln x - 1) for a large x: ln x is x.exp to x.exp + 1 times
\* 0.693 to 0.694, and an infinity is returned for what is beyond the format.
Ranges(f, x) ==
    LET room == 1000 * 2 ^ Least(f.bias + 1 - x.exp, 20)
    IN (IF x.exp * 693 - 1000 < room THEN {"finite"} ELSE {})
       \cup (IF 2 * ((x.exp + 1) * 694 - 1000) >= room THEN {"inf"} ELSE {})

\* lgamma (F.10.5.3) but for the poles: its class and sign, and that it is taken from an
\* approximation of the reduced argument.
LgammaRight(f, x, r) ==
    CASE x.class = "nan" -> r[1] = "nan"
      [] x.class \in {"inf", "zero"} -> r[1] = "inf"
      [] OTHER ->
            /\ r[1] \in Ranges(f, x) \cup {"zero"}
            /\ x.sign = 0 \/ ~BesideInteger(f, x) => r[2] = GammaSign(f, x)
            /\ r[1] = "zero" => x.sign = 0 /\ x.low = x.exp /\ x.exp \in {0, 1}
            /\ Len(r) = 4 => IF r[4] <= 3
                             THEN UnitsOf(f, x) + r[3] * 2 ^ 12 \in Domain[r[4] + 1]
                             ELSE UnitsOf(f, x) = 2 ^ 15 /\ r[3] = 0

\* What C allows the call to return.
Allowed(c) ==
    LET f == FormatOf[c.fn]
    IN CASE c.fn \in {"pow", "powf", "powl"} -> PowAnnexF(f, c.x, c.y)
         [] c.fn \in {"exp", "expf"} -> ExpAnnexF(f, c.x, Octaves(f, c.x))
         [] c.fn \in {"exp2", "exp2f"} -> ExpAnnexF(f, c.x, Integral(f, c.x))
         [] c.fn \in {"log", "log2", "logf", "log2f"} -> LogAnnexF(f, c.x)
         [] c.fn = "scalbnf" ->
                {IF c.x.class = "finite" THEN Rounded(f, c.x.sign, c.x.exp + c.y) ELSE Itself(c.x)}
         [] OTHER -> {r \in results : Pole(c.x) \/ LgammaRight(f, c.x, r)}

\* A call returns what C says of the function: musl's tests on the bits of the arguments,
\* and its arithmetic on exponents that wraps, are right.  Not of lgamma at a negative
\* integer (LgammaPoles), of its sign where the rounding of pi * x reaches over one, nor of
\* powl of the largest finite number, which is no argument here (known limits).
MathRight == answered => results # {} /\ results \subseteq Allowed(mathCall)

\* lgamma is infinite at the negative integers, as lgamma.c:75 and lgammal.c:84 say; the
\* code gives the logarithm of what its rounded sine is there.
LgammaPoles ==
    answered /\ mathCall.fn \in {"lgamma_r", "lgammal_r"} /\ Pole(mathCall.x) =>
        \A r \in results : r[1] \in {"inf", "-inf"}

=============================================================================
