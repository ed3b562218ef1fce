------------------------------- MODULE Lgamma -------------------------------
(***************************************************************************)
(* lgamma_r and lgammal_r (musl/lgamma.c, lgammal.c): the special cases,   *)
(* the sign of the gamma function, and the reduction to the argument of    *)
(* one of the approximations.  A result is <<class, sign, steps, part>>:   *)
(* the approximation `part' was used at |x| + steps, and the value is      *)
(* finite, "inf", "-inf" or "nan".                                         *)
(***************************************************************************)
EXTENDS Ieee

\* The integral part of |x|; no number above 2^kept that is not one is an argument here.
Part(f, v) == IF v.exp \in 0 .. f.kept THEN (2 ^ f.kept + v.frac) \div 2 ^ (f.kept - v.exp) ELSE 0

\* |x| is an integer, or so near one that the rounding of pi * x reaches over it.
BesideInteger(f, v) ==
    \/ v.low >= 0
    \/ /\ v.low < v.exp - 50 /\ v.exp >= -1
       /\ LET unit == 2 ^ (f.kept - v.exp)
          IN v.exp <= f.kept => (2 ^ f.kept + v.frac) % unit \in {0, unit - 1}

\* sin(pi * x) of a positive x, a double in both functions: pi * x is rounded and never a
\* multiple of pi, so beside an integer the sign is that of the error, and elsewhere
\* alternates; it is never 0.  From 2^1022 on pi * x may overflow, and from 2^1023 it does.
SinPi(f, v) ==
    (IF v.exp >= 1022 THEN {"nan"} ELSE {})
    \cup (IF v.exp > 1022 THEN {}
          ELSE IF BesideInteger(f, v) THEN {"positive", "negative"}
          ELSE {IF Part(f, v) % 2 = 0 THEN "positive" ELSE "negative"})

\* *signgamp, and what the sine says of nadj.
Signs(f, x) ==
    IF x.sign = 0
    THEN {[sign |-> 1, sine |-> "none"]}
    ELSE {[sign |-> IF t = "positive" THEN -1 ELSE 1, sine |-> t] : t \in SinPi(f, x)}

Used(sign, steps, part) == <<"finite", sign, steps, part>>

\* x * (log(x) - 1): beside the limit of the format the second factor is 1.37 to 1.39
\* times 2^9, or 2^13.
Products(f, x) ==
    LET size == x.exp + (IF f = DOUBLE THEN 9 ELSE 13)
        fits == size < f.bias \/ (size = f.bias /\ 2 * x.frac < 2 ^ f.kept)
        overflows == size > f.bias \/ (size = f.bias /\ 4 * x.frac >= 2 ^ f.kept)
    IN (IF fits THEN {"finite"} ELSE {}) \cup (IF overflows THEN {"inf"} ELSE {})

\* r, or nadj - r of a negative x.
Final(s, class) ==
    CASE s.sine = "nan" -> "nan"
      [] s.sine # "nan" /\ s.sine # "none" /\ class = "inf" -> "-inf"
      [] OTHER -> class

Largest(f, x, s, part) == {<<Final(s, class), s.sign, 0, part>> : class \in Products(f, x)}

\* Below 0.9 lgamma(x+1) - log(x) is used.
SegmentBelow2(ix) ==
    IF ix <= 1072483532                                         \* 0x3feccccc
    THEN [steps |-> 1, part |-> CASE ix >= 1072130372 -> 0      \* 0x3fe76944
                                  [] ix >= 1070442081 /\ ix < 1072130372 -> 1  \* 0x3fcda661
                                  [] OTHER -> 2]
    ELSE [steps |-> 0, part |-> CASE ix >= 1073460419 -> 0      \* 0x3ffbb4c3
                                  [] ix >= 1072936132 /\ ix < 1073460419 -> 1  \* 0x3ff3b4c4
                                  [] OTHER -> 2]

Lgamma(x) ==
    LET ix == Word(DOUBLE, x)
        i == Part(DOUBLE, x)
        segment == SegmentBelow2(ix)
    IN UNION {
         Early(<<<<x.class = "nan", <<"nan", 1>>>>,
                 <<x.class = "inf", <<"inf", 1>>>>,
                 <<ix < (1023 - 70) * 2 ^ 20,
                   <<IF x.class = "zero" THEN "inf" ELSE "finite", 1 - 2 * x.sign>>>>,
                 <<s.sine = "zero", <<"inf", 1>>>>,
                 <<ix \in {1023 * 2 ^ 20, 1024 * 2 ^ 20} /\ x.low = x.exp /\ x.sign = 0, <<"zero", 1>>>>,
                 <<ix \in {1023 * 2 ^ 20, 1024 * 2 ^ 20} /\ x.low = x.exp, <<"finite", s.sign>>>>,
                 <<ix < 1024 * 2 ^ 20, Used(s.sign, segment.steps, segment.part)>>,
                 <<ix < 1026 * 2 ^ 20, Used(s.sign, 2 - i, 3)>>,
                 <<ix < 1081 * 2 ^ 20, Used(s.sign, 0, 4)>>>>, Largest(DOUBLE, x, s, 5))
         : s \in Signs(DOUBLE, x)}

\* The word of an extended number has the leading one of its significand: 0x8000.
WordL(v) == IF v.class = "zero" THEN 0
            ELSE IF v.class # "finite" THEN Special(EXTENDED) * 2 ^ 16
            ELSE Field(EXTENDED, v) * 2 ^ 16 + 2 ^ 15 + v.frac

SegmentBelow2L(ix) ==
    IF ix <= 1073669734                                         \* 0x3ffee666
    THEN [steps |-> 1, part |-> CASE ix >= 1073658698 -> 0      \* 0x3ffebb4a
                                  [] ix >= 1073540403 /\ ix < 1073658698 -> 1  \* 0x3ffced33
                                  [] OTHER -> 2]
    ELSE [steps |-> 0, part |-> CASE ix >= 1073733030 -> 0      \* 0x3fffdda6
                                  [] ix >= 1073716646 /\ ix < 1073733030 -> 1  \* 0x3fff9da6
                                  [] OTHER -> 2]

\* The significand u.i.m has its leading one, so that one and two are not recognised.
LgammaL(x) ==
    LET ix == WordL(x)
        i == Part(EXTENDED, x)
        segment == SegmentBelow2L(ix)
    IN UNION {
         Early(<<<<x.class = "nan", <<"nan", 1>>>>,
                 <<x.class = "inf", <<"inf", 1>>>>,
                 <<ix < 1069580288,                             \* 0x3fc08000
                   <<IF x.class = "zero" THEN "inf" ELSE "finite", 1 - 2 * x.sign>>>>,
                 <<s.sine = "zero", <<"inf", 1>>>>,
                 <<ix < 1073774592, Used(s.sign, segment.steps, segment.part)>>,   \* 0x40008000
                 <<ix < 1073905664, Used(s.sign, 2 - i, 3)>>,                      \* 0x40028000
                 <<ix < 1078034432, Used(s.sign, 0, 4)>>>>,                        \* 0x40418000
               Largest(EXTENDED, x, s, 5))
         : s \in Signs(EXTENDED, x)}

=============================================================================
