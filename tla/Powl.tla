-------------------------------- MODULE Powl --------------------------------
(***************************************************************************)
(* powl of the x87's extended precision (musl/powl.c): its special cases,  *)
(* the integral powers of integers, and the power as a multiple of 1/32 of *)
(* an octave.  The largest finite number, which the code treats as the     *)
(* infinity, is not an argument here.                                      *)
(***************************************************************************)
EXTENDS Ieee

NXT == 32
IsInteger(v) == v.class # "finite" \/ v.low >= 0
OddInteger(v) == v.class = "finite" /\ v.low = 0
Big(v) == AboveOne(v)

\* By squaring; a negative power is the reciprocal of the positive one, which must not
\* overflow: for a subnormal result the reciprocal of the base is raised instead.
Powil(x, y) ==
    {LET tiny == q < -16381
         reciprocal == (y.sign = 1) # tiny
         power == IF reciprocal THEN 0 - q ELSE q
     IN CASE q > 16383 -> Inf(0)
          [] q < -16446 -> Zero(0)
          [] OTHER -> IF power > 16383 THEN Zero(0) ELSE Rounded(EXTENDED, 0, q)
     : q \in Product(EXTENDED, Log2(EXTENDED, x.exp, x.frac, x.low), y)}

\* e / NXT as an integer i, by a division toward zero, and one of the 33 entries of A.
Antilog(e) ==
    LET i == IF e < 0 THEN 0 - ((0 - e) \div NXT) ELSE (e \div NXT) + 1
        entry == NXT * i - e
    IN IF entry \in 0 .. 32
       THEN Rounded(EXTENDED, 0, (NXT * i - entry - 1) \div NXT)
       ELSE <<"no entry", 0, entry>>

Negated(r, nflg) == IF nflg THEN <<r[1], 1, r[3]>> ELSE r

Powl(x, y) ==
    LET positive == y.sign = 0
        nflg == x.sign = 1 /\ OddInteger(y)
        small == y.exp < 15
        log == Log2(EXTENDED, x.exp, x.frac, x.low)
    IN Early(<<<<x.class = "nan", IF y.class = "zero" THEN One(0) ELSE NaN>>,
               <<y.class = "nan", IF IsOne(x) /\ x.sign = 0 THEN One(0) ELSE NaN>>,
               <<IsOne(x) /\ x.sign = 0, One(0)>>,
               <<IsOne(x) /\ y.class = "inf", One(0)>>,
               <<y.class = "zero", One(0)>>,
               <<IsOne(y) /\ positive, Itself(x)>>,
               <<y.class = "inf" /\ Big(x), IF positive THEN Inf(0) ELSE Zero(0)>>,
               <<y.class = "inf" /\ positive /\ x.class # "zero", Zero(0)>>,
               <<y.class = "inf" /\ ~positive, Inf(0)>>,
               <<x.class = "inf" /\ x.sign = 0, IF positive THEN Inf(0) ELSE Zero(0)>>,
               <<x.class = "inf", IF positive THEN Inf(Bool(nflg)) ELSE Zero(Bool(nflg))>>,
               <<x.class = "zero", IF positive THEN Zero(Bool(nflg)) ELSE Inf(Bool(nflg))>>,
               <<x.sign = 1 /\ ~IsInteger(y), NaN>>>>,
             {Negated(r, nflg) : r \in
                IF IsInteger(x) /\ IsInteger(y) /\ small
                THEN Powil(x, y)
                ELSE {CASE q > 16384 -> Inf(0)
                        [] q < -16448 -> Zero(0)
                        [] OTHER -> Antilog(NXT * q + part)
                      : q \in Product(EXTENDED, log, y), part \in {1, NXT}}})

=============================================================================
