--------------------------- MODULE HexBusHost_proofs ---------------------------
(* Proofs about the class HEXBUS, for every bus, word length, length of call  *)
(* and number base, and every program and line that the class serves.         *)
EXTENDS HexBusHost, DataLemmas

Answer == {"A", "R", "K", "E"}
Char == Letter \cup Digit \cup Newline \cup {"NUL"}

-----------------------------------------------------------------------------
(* The letter the host is inside, and the characters behind it.               *)

\* The first j digits of v, as a number.
Top(v, j) == v \div Power[WordLen - j]

\* Of the digits of v, those behind the first j follow the place p, and no other.
Rest(x, p, v, j) ==
    /\ p + WordLen - j <= Len(x)
    /\ \A i \in j + 1 .. WordLen : x[p + i - j] = Digits(v)[i]
    /\ p + WordLen - j < Len(x) => x[p + WordLen - j + 1] \notin Digit

\* The letter at p comes with the word v, of which the host has read w if p = 1; all
\* that came of it, if e, or else what came after it last forgot.
Holds(x, w, p, v, e) ==
    \E j \in 0 .. WordLen : /\ p > 1 => j = 0
                            /\ p = 1 => w <= Top(v, j) /\ (e => w = Top(v, j))
                            /\ Rest(x, p, v, j)

\* Digits follow digits, and the letters of words that have some.
Grammar(x) ==
    /\ x[1] \notin Digit
    /\ \A p \in 2 .. Len(x) : x[p] \in Digit => x[p - 1] \in Digit \cup {"A", "R", "K"}

\* The host takes a character that ends the word it was reading, or one that does not.
Ended(x, y) ==
    /\ Len(x) >= 2 /\ x[2] \notin Digit
    /\ Len(y) = Len(x) - 1
    /\ \A i \in 1 .. Len(y) : y[i] = x[i + 1]
Continued(x, y) ==
    /\ Len(x) >= 2 /\ x[2] \in Digit
    /\ Len(y) = Len(x) - 1
    /\ y[1] = x[1]
    /\ \A i \in 2 .. Len(y) : y[i] = x[i + 1]

\* The port sends characters.
Grown(x, y) ==
    /\ Len(y) >= Len(x)
    /\ \A i \in 1 .. Len(x) : y[i] = x[i]
    /\ Len(y) > Len(x) => y[Len(x) + 1] \notin Digit

-----------------------------------------------------------------------------
(* Words and digits.                                                          *)

LEMMA Sizes ==
    /\ Base \in Nat \ {0} /\ WordLen \in Nat \ {0} /\ Glyphs \in Seq(Digit)
    /\ Power[0] = 1
    /\ \A k \in 0 .. WordLen : Power[k] \in Nat \ {0}
    /\ \A k \in 1 .. WordLen : Power[k] = Base * Power[k - 1]
    /\ AddrSpace \in Nat \ {0} /\ 4 * AddrSpace <= Power[WordLen]
<1>1. Base \in Nat /\ WordLen \in Nat \ {0} /\ AddrSpace \in Nat \ {0} /\ Glyphs \in Seq(Digit)
  BY HostAssumption, LenProperties DEF Base
<1>2. /\ Power[0] = 1
      /\ \A k \in 0 .. WordLen : Power[k] \in Nat
      /\ \A k \in 1 .. WordLen : Power[k] = Base * Power[k - 1]
  <2>1. \E f : f = [k \in 0 .. WordLen |-> IF k = 0 THEN 1 ELSE Base * f[k - 1]]
    BY <1>1, PowersExist
  <2>2. Power = [k \in 0 .. WordLen |-> IF k = 0 THEN 1 ELSE Base * Power[k - 1]]
    BY <2>1, Zenon DEF Power
  <2>3. \A k \in 0 .. WordLen : Power[k] = IF k = 0 THEN 1 ELSE Base * Power[k - 1]
    BY <2>2, Zenon
  <2> QED BY <1>1, <2>3, PowersAre
<1>3. Base # 0
  <2> SUFFICES ASSUME Base = 0 PROVE FALSE OBVIOUS
  <2>1. WordLen \in 1 .. WordLen /\ Power[WordLen - 1] \in Nat
    BY <1>1, <1>2
  <2>2. Power[WordLen] = 0
    BY <1>2, <2>1
  <2> QED BY <1>1, <2>2, HostAssumption
<1> DEFINE S == {k \in Nat : k <= WordLen => Power[k] # 0}
<1>4. S = Nat
  <2>1. S \subseteq Nat /\ 0 \in S
    BY <1>2
  <2>2. ASSUME NEW k \in S PROVE k + 1 \in S
    <3> SUFFICES ASSUME k + 1 <= WordLen PROVE Power[k + 1] # 0
      OBVIOUS
    <3>1. k + 1 \in 1 .. WordLen /\ k \in 0 .. WordLen /\ (k + 1) - 1 = k /\ Power[k] # 0
      BY <1>1
    <3>2. Power[k + 1] = Base * Power[k] /\ Power[k] \in Nat
      BY <1>2, <3>1
    <3> QED BY <1>1, <1>3, <3>1, <3>2
  <2> HIDE DEF S
  <2> QED BY <2>1, <2>2, Induction
<1>5. \A k \in 0 .. WordLen : Power[k] \in Nat \ {0}
  BY <1>1, <1>2, <1>4
<1> QED BY <1>1, <1>2, <1>3, <1>5, HostAssumption

\* Which digits there are, and what they are worth.
LEMMA Glyph ==
    ASSUME NEW k \in 0 .. Base - 1
    PROVE  Glyphs[k + 1] \in Digit /\ Worth(Glyphs[k + 1]) = k
<1>1. k + 1 \in 1 .. Len(Glyphs) /\ DOMAIN Glyphs = 1 .. Len(Glyphs)
  BY Sizes, LenProperties DEF Base
<1>2. Glyphs[k + 1] \in Digit
  BY <1>1, Sizes, LenProperties
<1>3. \A i \in DOMAIN Glyphs : Glyphs[i] = Glyphs[k + 1] => i = k + 1
  BY <1>1, HostAssumption DEF IsInjective
<1>4. (CHOOSE i \in DOMAIN Glyphs : Glyphs[i] = Glyphs[k + 1]) = k + 1
  BY <1>1, <1>3
<1>5. Worth(Glyphs[k + 1]) = (k + 1) - 1
  BY <1>4, Zenon DEF Worth
<1> QED BY <1>2, <1>5

LEMMA WorthType == ASSUME NEW d \in Digit PROVE Worth(d) \in 0 .. Base - 1
<1>1. DOMAIN Glyphs = 1 .. Base
  BY Sizes, LenProperties DEF Base
<1>2. \E i \in DOMAIN Glyphs : Glyphs[i] = d
  BY DEF Digit, ToSet
<1>3. (CHOOSE i \in DOMAIN Glyphs : Glyphs[i] = d) \in DOMAIN Glyphs
  BY <1>2
<1> QED BY <1>1, <1>3, Sizes DEF Worth

LEMMA DigitsOf ==
    ASSUME NEW v \in Word, NEW i \in 1 .. WordLen
    PROVE  /\ Digits(v)[i] \in Digit
           /\ Worth(Digits(v)[i]) = (v \div Power[WordLen - i]) % Base
<1> DEFINE m == Power[WordLen - i]
<1>1. m \in Nat \ {0} /\ v \in Nat
  BY Sizes DEF Word
<1> HIDE DEF m
<1>2. v \div m \in Nat
  BY <1>1, ModRange
<1>3. (v \div m) % Base \in 0 .. Base - 1
  BY <1>2, Sizes, ModRange
<1>4. Digits(v)[i] = Glyphs[((v \div m) % Base) + 1]
  BY DEF Digits, m
<1> QED BY <1>3, <1>4, Glyph DEF m

LEMMA TopOf ==
    ASSUME NEW v \in Word
    PROVE  /\ Top(v, 0) = 0 /\ Top(v, WordLen) = v
           /\ \A j \in 0 .. WordLen : Top(v, j) \in Word
           /\ \A j \in 0 .. WordLen - 1 :
                 Top(v, j + 1) = Base * Top(v, j) + Worth(Digits(v)[j + 1])
<1> DEFINE M == Power[WordLen]
<1>1. v \in Nat /\ v < M /\ M \in Nat \ {0} /\ WordLen \in Nat
  BY Sizes DEF Word
<1>2. \A m \in Nat \ {0} : v \div m \in Nat /\ v \div m <= v
  <2> TAKE m \in Nat \ {0}
  <2> DEFINE q == v \div m
  <2>1. q \in Nat /\ v % m \in 0 .. m - 1 /\ v = m * q + (v % m)
    BY <1>1, ModRange
  <2> HIDE DEF q
  <2>2. m * q >= q
    BY <2>1
  <2>3. m * q \in Nat /\ v % m \in Nat
    BY <2>1
  <2>4. q <= v
    BY <1>1, <2>1, <2>2, <2>3
  <2> QED BY <2>1, <2>4 DEF q
<1>3. ASSUME NEW j \in 0 .. WordLen PROVE Top(v, j) \in Word
  <2>1. Power[WordLen - j] \in Nat \ {0}
    BY Sizes
  <2>2. Top(v, j) \in Nat /\ Top(v, j) <= v
    BY <1>2, <2>1 DEF Top
  <2> QED BY <1>1, <2>2 DEF Word
<1>4. Top(v, 0) = 0
  <2> DEFINE q == v \div M
  <2>1. q \in Nat /\ v % M \in 0 .. M - 1 /\ v = M * q + (v % M)
    BY <1>1, ModRange
  <2>2. q = v \div M
    OBVIOUS
  <2> HIDE DEF q
  <2>3. ~(q >= 1)
    <3> SUFFICES ASSUME q >= 1 PROVE FALSE OBVIOUS
    <3>1. M * q >= M
      BY <1>1, <2>1
    <3> HIDE DEF M
    <3> QED BY <1>1, <2>1, <3>1
  <2>4. q = 0
    BY <2>1, <2>3
  <2>5. WordLen - 0 = WordLen
    BY <1>1
  <2> QED BY <2>2, <2>4, <2>5 DEF Top
<1>5. Top(v, WordLen) = v
  <2>1. WordLen - WordLen = 0 /\ Power[0] = 1
    BY <1>1, Sizes
  <2> QED BY <1>1, <2>1 DEF Top
<1>6. ASSUME NEW j \in 0 .. WordLen - 1
      PROVE  Top(v, j + 1) = Base * Top(v, j) + Worth(Digits(v)[j + 1])
  <2> DEFINE m == Power[WordLen - (j + 1)]
  <2>1. Power[WordLen - j] = Base * m /\ m \in Nat \ {0} /\ Base \in Nat \ {0}
    <3>1. WordLen - j \in 1 .. WordLen /\ (WordLen - j) - 1 = WordLen - (j + 1)
          /\ WordLen - (j + 1) \in 0 .. WordLen
      BY <1>1
    <3> QED BY <3>1, Sizes
  <2>2. Top(v, j) = v \div (Base * m) /\ Top(v, j + 1) = v \div m
    BY <2>1 DEF Top
  <2>3. Worth(Digits(v)[j + 1]) = (v \div m) % Base
    <3>1. j + 1 \in 1 .. WordLen
      BY <1>1
    <3> QED BY <3>1, DigitsOf
  <2> HIDE DEF m
  <2>4. v \div m = Base * (v \div (Base * m)) + ((v \div m) % Base)
    BY <1>1, <2>1, DivTwice
  <2>5. v \div m = Base * Top(v, j) + Worth(Digits(v)[j + 1])
    BY <2>2, <2>3, <2>4
  <2> QED BY <2>2, <2>5
<1> QED BY <1>3, <1>4, <1>5, <1>6

-----------------------------------------------------------------------------
(* What happens to words on their way, when the host takes a character and    *)
(* when the port sends more.                                                  *)

LEMMA GrammarKept ==
    ASSUME NEW x \in Seq(Char), NEW y \in Seq(Char), Len(x) >= 1, Grammar(x)
    PROVE  /\ Ended(x, y) => Grammar(y)
           /\ Continued(x, y) => Grammar(y) /\ x[1] \in {"A", "R", "K"}
<1>1. Len(x) \in Nat /\ Len(y) \in Nat
  BY LenProperties
<1>2. ASSUME Ended(x, y) PROVE Grammar(y)
  <2>1. y[1] \notin Digit
    <3>1. 1 \in 1 .. Len(y) /\ 1 + 1 = 2
      BY <1>1, <1>2 DEF Ended
    <3> QED BY <1>2, <3>1 DEF Ended
  <2>2. ASSUME NEW p \in 2 .. Len(y), y[p] \in Digit PROVE y[p - 1] \in Digit \cup {"A", "R", "K"}
    <3>1. p \in 1 .. Len(y) /\ p - 1 \in 1 .. Len(y) /\ p + 1 \in 2 .. Len(x) /\ (p + 1) - 1 = p
          /\ (p - 1) + 1 = p
      BY <1>1, <1>2 DEF Ended
    <3>2. y[p] = x[p + 1] /\ y[p - 1] = x[p]
      BY <1>2, <3>1 DEF Ended
    <3> QED BY <2>2, <3>1, <3>2 DEF Grammar
  <2> QED BY <2>1, <2>2 DEF Grammar
<1>3. ASSUME Continued(x, y) PROVE Grammar(y) /\ x[1] \in {"A", "R", "K"}
  <2>1. x[1] \in {"A", "R", "K"}
    <3>1. 2 \in 2 .. Len(x) /\ 2 - 1 = 1
      BY <1>1, <1>3 DEF Continued
    <3> QED BY <1>3, <3>1 DEF Grammar, Continued
  <2>2. y[1] = x[1] /\ y[1] \notin Digit
    BY <1>3 DEF Continued, Grammar
  <2>3. ASSUME NEW p \in 2 .. Len(y), y[p] \in Digit PROVE y[p - 1] \in Digit \cup {"A", "R", "K"}
    <3>1. CASE p = 2
      BY <2>1, <2>2, <3>1
    <3>2. CASE p # 2
      <4>1. p - 1 \in 2 .. Len(y) /\ p + 1 \in 2 .. Len(x) /\ (p + 1) - 1 = p /\ (p - 1) + 1 = p
        BY <1>1, <1>3, <3>2 DEF Continued
      <4>2. y[p] = x[p + 1] /\ y[p - 1] = x[p]
        BY <1>3, <4>1 DEF Continued
      <4> QED BY <2>3, <4>1, <4>2 DEF Grammar
    <3> QED BY <3>1, <3>2
  <2> QED BY <2>1, <2>2, <2>3 DEF Grammar
<1> QED BY <1>2, <1>3

\* Where no letter asks for digits there are none.
LEMMA NoDigits ==
    ASSUME NEW x \in Seq(Char), Len(x) >= 1, Grammar(x),
           \A p \in 1 .. Len(x) : x[p] \notin {"A", "R", "K"}
    PROVE  \A p \in 1 .. Len(x) : x[p] \notin Digit
<1> DEFINE S == {p \in 1 .. Len(x) : x[p] \in Digit}
<1>1. Len(x) \in Nat
  BY LenProperties
<1> SUFFICES ASSUME S # {} PROVE FALSE
  OBVIOUS
<1>2. S \subseteq Nat
  BY <1>1
<1>3. PICK p \in S : \A q \in S : p <= q
  <2> HIDE DEF S
  <2> QED BY <1>2, Least
<1>4. p \in 2 .. Len(x) /\ p - 1 \in 1 .. Len(x) /\ x[p] \in Digit
  BY <1>1 DEF Grammar
<1>5. x[p - 1] \in Digit
  BY <1>4 DEF Grammar
<1>6. p - 1 \in S
  BY <1>4, <1>5
<1> QED BY <1>1, <1>3, <1>4, <1>6

\* A word is over when a character that is no digit follows it.
LEMMA WordRead ==
    ASSUME NEW x \in Seq(Char), NEW v \in Word, NEW w, NEW e, Len(x) >= 2, x[2] \notin Digit,
           Holds(x, w, 1, v, e)
    PROVE  w <= v /\ (e => w = v)
<1>1. Len(x) \in Nat /\ WordLen \in Nat
  BY LenProperties, Sizes
<1>2. PICK j \in 0 .. WordLen : w <= Top(v, j) /\ (e => w = Top(v, j)) /\ Rest(x, 1, v, j)
  BY DEF Holds
<1>3. j = WordLen
  <2> SUFFICES ASSUME j # WordLen PROVE FALSE
    OBVIOUS
  <2>1. j + 1 \in j + 1 .. WordLen /\ j + 1 \in 1 .. WordLen /\ 1 + (j + 1) - j = 2
    BY <1>1
  <2>2. x[2] = Digits(v)[j + 1]
    BY <1>2, <2>1 DEF Rest
  <2> QED BY <2>1, <2>2, DigitsOf
<1> QED BY <1>2, <1>3, TopOf

LEMMA HoldsEnded ==
    ASSUME NEW x \in Seq(Char), NEW y \in Seq(Char), Ended(x, y),
           NEW v \in Word, NEW w, NEW u, NEW e, NEW p \in 2 .. Len(x), Holds(x, w, p, v, e),
           p = 2 => u = 0
    PROVE  Holds(y, u, p - 1, v, e)
<1>1. Len(x) \in Nat /\ Len(y) \in Nat /\ WordLen \in Nat /\ Len(y) = Len(x) - 1
  BY LenProperties, Sizes DEF Ended
<1>2. WordLen - 0 = WordLen /\ p > 1 /\ Rest(x, p, v, 0)
  BY <1>1 DEF Holds
<1>3. Rest(y, p - 1, v, 0)
  <2>1. (p - 1) + WordLen - 0 <= Len(y)
    BY <1>1, <1>2 DEF Rest
  <2>2. ASSUME NEW i \in 0 + 1 .. WordLen PROVE y[(p - 1) + i - 0] = Digits(v)[i]
    <3>1. (p - 1) + i - 0 \in 1 .. Len(y) /\ ((p - 1) + i - 0) + 1 = p + i - 0
      BY <1>1, <1>2, <2>1
    <3>2. y[(p - 1) + i - 0] = x[p + i - 0]
      BY <3>1 DEF Ended
    <3> QED BY <1>2, <3>2 DEF Rest
  <2>3. ASSUME (p - 1) + WordLen - 0 < Len(y) PROVE y[(p - 1) + WordLen - 0 + 1] \notin Digit
    <3>1. (p - 1) + WordLen - 0 + 1 \in 1 .. Len(y) /\ p + WordLen - 0 < Len(x)
          /\ ((p - 1) + WordLen - 0 + 1) + 1 = p + WordLen - 0 + 1
      BY <1>1, <2>3
    <3>2. y[(p - 1) + WordLen - 0 + 1] = x[p + WordLen - 0 + 1]
      BY <3>1 DEF Ended
    <3> QED BY <1>2, <3>1, <3>2 DEF Rest
  <2> QED BY <2>1, <2>2, <2>3 DEF Rest
<1>4. p - 1 = 1 => u <= Top(v, 0) /\ u = Top(v, 0)
  BY <1>1, TopOf
<1>5. 0 \in 0 .. WordLen
  BY <1>1
<1> QED BY <1>3, <1>4, <1>5 DEF Holds

\* The next digit of the word that the host is reading.
LEMMA HoldsRead ==
    ASSUME NEW x \in Seq(Char), NEW y \in Seq(Char), Continued(x, y),
           NEW v \in Word, NEW w \in Word, NEW e, Holds(x, w, 1, v, e)
    PROVE  Holds(y, (Base * w + Worth(x[2])) % Power[WordLen], 1, v, e)
<1>1. Len(x) \in Nat /\ Len(y) \in Nat /\ WordLen \in Nat /\ Len(y) = Len(x) - 1 /\ Len(x) >= 2
  BY LenProperties, Sizes DEF Continued
<1>2. PICK j \in 0 .. WordLen : w <= Top(v, j) /\ (e => w = Top(v, j)) /\ Rest(x, 1, v, j)
  BY DEF Holds
<1>3. j # WordLen
  <2> SUFFICES ASSUME j = WordLen PROVE FALSE
    OBVIOUS
  <2>1. 1 + WordLen - j < Len(x) /\ 1 + WordLen - j + 1 = 2
    BY <1>1
  <2>2. x[2] \notin Digit
    BY <1>2, <2>1 DEF Rest
  <2> QED BY <2>2 DEF Continued
<1>4. j + 1 \in 0 .. WordLen /\ j \in 0 .. WordLen - 1
  BY <1>1, <1>3
<1>5. x[2] = Digits(v)[j + 1]
  <2>1. j + 1 \in j + 1 .. WordLen /\ 1 + (j + 1) - j = 2
    BY <1>1, <1>4
  <2> QED BY <1>2, <2>1 DEF Rest
<1> DEFINE u == Base * w + Worth(x[2])
<1>6. u % Power[WordLen] <= Top(v, j + 1) /\ (e => u % Power[WordLen] = Top(v, j + 1))
  <2> DEFINE t == Top(v, j)
  <2> DEFINE d == Worth(x[2])
  <2> DEFINE M == Power[WordLen]
  <2>1. t \in Nat /\ w \in Nat /\ d \in Nat /\ Base \in Nat /\ M \in Nat \ {0}
    <3>1. Top(v, j) \in Word /\ x[2] \in Digit
      BY TopOf DEF Continued
    <3>2. \A k \in Word : k \in Nat
      BY DEF Word
    <3>3. WordLen \in 0 .. WordLen /\ Worth(x[2]) \in 0 .. Base - 1
      BY <1>1, <3>1, WorthType
    <3> QED BY <3>1, <3>2, <3>3, Sizes
  <2>2. Top(v, j + 1) = Base * t + d /\ Top(v, j + 1) \in 0 .. M - 1
    BY <1>4, <1>5, TopOf DEF Word
  <2>3. w <= t /\ (e => w = t)
    BY <1>2
  <2>4. u = Base * w + d
    OBVIOUS
  <2> HIDE DEF t, d, u, M
  <2>5. Base * w <= Base * t /\ Base * w \in Nat /\ Base * t \in Nat
    BY <2>1, <2>3
  <2>6. u \in Nat /\ u <= Top(v, j + 1) /\ (e => u = Top(v, j + 1))
    BY <2>1, <2>2, <2>3, <2>4, <2>5
  <2>7. \A k \in Nat : k < M => k % M = k
    BY <2>1
  <2>8. u % M = u
    BY <2>1, <2>2, <2>6, <2>7
  <2> QED BY <2>6, <2>8 DEF M
<1> HIDE DEF u
<1>7. Rest(y, 1, v, j + 1)
  <2>1. 1 + WordLen - (j + 1) <= Len(y)
    BY <1>1, <1>2 DEF Rest
  <2>2. ASSUME NEW i \in (j + 1) + 1 .. WordLen PROVE y[1 + i - (j + 1)] = Digits(v)[i]
    <3>1. 1 + i - (j + 1) \in 2 .. Len(y) /\ (1 + i - (j + 1)) + 1 = 1 + i - j /\ i \in j + 1 .. WordLen
      BY <1>1, <2>1
    <3>2. y[1 + i - (j + 1)] = x[1 + i - j]
      BY <3>1 DEF Continued
    <3> QED BY <1>2, <3>1, <3>2 DEF Rest
  <2>3. ASSUME 1 + WordLen - (j + 1) < Len(y) PROVE y[1 + WordLen - (j + 1) + 1] \notin Digit
    <3>1. 1 + WordLen - (j + 1) + 1 \in 2 .. Len(y) /\ 1 + WordLen - j < Len(x)
          /\ (1 + WordLen - (j + 1) + 1) + 1 = 1 + WordLen - j + 1
      BY <1>1, <1>4, <2>3
    <3>2. y[1 + WordLen - (j + 1) + 1] = x[1 + WordLen - j + 1]
      BY <3>1 DEF Continued
    <3> QED BY <1>2, <3>1, <3>2 DEF Rest
  <2> QED BY <2>1, <2>2, <2>3 DEF Rest
<1> QED BY <1>4, <1>6, <1>7 DEF Holds, u

\* The words behind it stay as they are.
LEMMA HoldsContinued ==
    ASSUME NEW x \in Seq(Char), NEW y \in Seq(Char), Continued(x, y),
           NEW v \in Word, NEW w, NEW u, NEW e, NEW p \in 3 .. Len(x), Holds(x, w, p, v, e)
    PROVE  Holds(y, u, p - 1, v, e)
<1>1. Len(x) \in Nat /\ Len(y) \in Nat /\ WordLen \in Nat /\ Len(y) = Len(x) - 1
  BY LenProperties, Sizes DEF Continued
<1>2. WordLen - 0 = WordLen /\ p > 1 /\ Rest(x, p, v, 0)
  BY <1>1 DEF Holds
<1>3. Rest(y, p - 1, v, 0)
  <2>1. (p - 1) + WordLen - 0 <= Len(y)
    BY <1>1, <1>2 DEF Rest
  <2>2. ASSUME NEW i \in 0 + 1 .. WordLen PROVE y[(p - 1) + i - 0] = Digits(v)[i]
    <3>1. (p - 1) + i - 0 \in 2 .. Len(y) /\ ((p - 1) + i - 0) + 1 = p + i - 0
      BY <1>1, <1>2, <2>1
    <3>2. y[(p - 1) + i - 0] = x[p + i - 0]
      BY <3>1 DEF Continued
    <3> QED BY <1>2, <3>2 DEF Rest
  <2>3. ASSUME (p - 1) + WordLen - 0 < Len(y) PROVE y[(p - 1) + WordLen - 0 + 1] \notin Digit
    <3>1. (p - 1) + WordLen - 0 + 1 \in 2 .. Len(y) /\ p + WordLen - 0 < Len(x)
          /\ ((p - 1) + WordLen - 0 + 1) + 1 = p + WordLen - 0 + 1
      BY <1>1, <2>3
    <3>2. y[(p - 1) + WordLen - 0 + 1] = x[p + WordLen - 0 + 1]
      BY <3>1 DEF Continued
    <3> QED BY <1>2, <3>1, <3>2 DEF Rest
  <2> QED BY <2>1, <2>2, <2>3 DEF Rest
<1>4. p - 1 # 1 /\ 0 \in 0 .. WordLen
  BY <1>1
<1> QED BY <1>3, <1>4 DEF Holds

LEMMA HoldsGrown ==
    ASSUME NEW x \in Seq(Char), NEW y \in Seq(Char), Grown(x, y),
           NEW v \in Word, NEW w, NEW e, NEW p \in 1 .. Len(x), Holds(x, w, p, v, e)
    PROVE  Holds(y, w, p, v, e)
<1>1. Len(x) \in Nat /\ Len(y) \in Nat /\ WordLen \in Nat /\ Len(x) <= Len(y)
  BY LenProperties, Sizes DEF Grown
<1>2. PICK j \in 0 .. WordLen : /\ p > 1 => j = 0
                                /\ p = 1 => w <= Top(v, j) /\ (e => w = Top(v, j))
                                /\ Rest(x, p, v, j)
  BY DEF Holds
<1> DEFINE f == p + WordLen - j
<1>3. f \in 1 .. Len(x) /\ f <= Len(y)
  BY <1>1, <1>2 DEF Rest
<1>4. ASSUME NEW i \in j + 1 .. WordLen PROVE y[p + i - j] = Digits(v)[i]
  <2>1. p + i - j \in 1 .. Len(x)
    BY <1>1, <1>3
  <2>2. y[p + i - j] = x[p + i - j]
    BY <2>1 DEF Grown
  <2> QED BY <1>2, <2>2 DEF Rest
<1>5. ASSUME f < Len(y) PROVE y[f + 1] \notin Digit
  <2>1. CASE f < Len(x)
    <3>1. f + 1 \in 1 .. Len(x)
      BY <1>1, <1>3, <2>1
    <3>2. y[f + 1] = x[f + 1]
      BY <3>1 DEF Grown
    <3> QED BY <1>2, <2>1, <3>2 DEF Rest
  <2>2. CASE f = Len(x)
    BY <1>5, <2>2 DEF Grown
  <2> QED BY <1>1, <1>3, <2>1, <2>2
<1>6. Rest(y, p, v, j)
  BY <1>3, <1>4, <1>5 DEF Rest
<1> QED BY <1>2, <1>6 DEF Holds

\* The digits of a word, behind its letter, at the end.
LEMMA HoldsNew ==
    ASSUME NEW x \in Seq(Char), NEW v \in Word, NEW c, NEW w, NEW e, Len(x) >= 1,
           NEW y \in Seq(Char), y = x \o (<<c>> \o Digits(v))
    PROVE  /\ Len(y) = Len(x) + 1 + WordLen /\ y[Len(x) + 1] = c
           /\ \A i \in 1 .. Len(x) : y[i] = x[i]
           /\ \A i \in Len(x) + 2 .. Len(y) : y[i] \in Digit
           /\ Holds(y, w, Len(x) + 1, v, e)
<1> DEFINE d == Digits(v)
<1> DEFINE t == <<c>> \o d
<1>1. Len(x) \in Nat /\ WordLen \in Nat
  BY LenProperties, Sizes
<1>2. d \in Seq(Digit) /\ Len(d) = WordLen
  <2>1. d = [i \in 1 .. WordLen |-> d[i]]
    BY DEF Digits
  <2>2. \A i \in 1 .. WordLen : d[i] \in Digit
    BY DigitsOf
  <2> HIDE DEF d
  <2>3. [i \in 1 .. WordLen |-> d[i]] \in Seq(Digit)
    BY <1>1, <2>2, IsASeq
  <2>4. d \in Seq(Digit) /\ DOMAIN d = 1 .. WordLen
    BY <2>1, <2>3
  <2>5. Len(d) \in Nat /\ DOMAIN d = 1 .. Len(d)
    BY <2>4, LenProperties
  <2> QED BY <1>1, <2>4, <2>5
<1> HIDE DEF d
<1> DEFINE U == Char \cup Digit \cup {c}
<1>3. <<c>> \in Seq(U) /\ d \in Seq(U) /\ x \in Seq(U) /\ Len(<<c>>) = 1 /\ <<c>>[1] = c
  <2>1. Digit \subseteq U /\ Char \subseteq U /\ c \in U
    OBVIOUS
  <2> HIDE DEF U
  <2> QED BY <1>2, <2>1, SeqMonotonic
<1> HIDE DEF U
<1>4. t \in Seq(U) /\ Len(t) = 1 + WordLen /\ t[1] = c
      /\ \A i \in 2 .. 1 + WordLen : t[i] = d[i - 1]
  <2>1. t \in Seq(U) /\ Len(t) = Len(<<c>>) + Len(d) /\ \A i \in 1 .. Len(<<c>>) + Len(d) :
           t[i] = IF i <= Len(<<c>>) THEN <<c>>[i] ELSE d[i - Len(<<c>>)]
    BY <1>3, ConcatProperties
  <2> QED BY <1>1, <1>2, <1>3, <2>1
<1> HIDE DEF t
<1>5. Len(y) = Len(x) + Len(t) /\ \A i \in 1 .. Len(x) + Len(t) :
         y[i] = IF i <= Len(x) THEN x[i] ELSE t[i - Len(x)]
  <2>1. y = x \o t
    BY DEF t, d
  <2>2. Len(x \o t) = Len(x) + Len(t) /\ \A i \in 1 .. Len(x) + Len(t) :
           (x \o t)[i] = IF i <= Len(x) THEN x[i] ELSE t[i - Len(x)]
    BY <1>3, <1>4, ConcatProperties
  <2> QED BY <2>1, <2>2, Zenon
<1>6. Len(y) = Len(x) + 1 + WordLen /\ y[Len(x) + 1] = c /\ \A i \in 1 .. Len(x) : y[i] = x[i]
  BY <1>1, <1>4, <1>5
<1>7. ASSUME NEW i \in 1 .. WordLen PROVE y[Len(x) + 1 + i] = d[i]
  <2>1. Len(x) + 1 + i \in 1 .. Len(x) + Len(t) /\ ~(Len(x) + 1 + i <= Len(x))
        /\ (Len(x) + 1 + i) - Len(x) = i + 1 /\ i + 1 \in 2 .. 1 + WordLen /\ (i + 1) - 1 = i
    BY <1>1, <1>4
  <2> QED BY <1>4, <1>5, <2>1
<1>8. ASSUME NEW i \in Len(x) + 2 .. Len(y) PROVE y[i] \in Digit
  <2>1. i - Len(x) - 1 \in 1 .. WordLen /\ Len(x) + 1 + (i - Len(x) - 1) = i
    BY <1>1, <1>6
  <2>2. d[i - Len(x) - 1] \in Digit
    BY <1>2, <2>1, LenProperties
  <2>3. y[Len(x) + 1 + (i - Len(x) - 1)] = d[i - Len(x) - 1]
    BY <1>7, <2>1
  <2> QED BY <2>1, <2>2, <2>3
<1>9. Rest(y, Len(x) + 1, v, 0)
  <2>1. (Len(x) + 1) + WordLen - 0 = Len(y)
    BY <1>1, <1>6
  <2>2. ASSUME NEW i \in 0 + 1 .. WordLen PROVE y[(Len(x) + 1) + i - 0] = Digits(v)[i]
    <3>1. i \in 1 .. WordLen /\ (Len(x) + 1) + i - 0 = Len(x) + 1 + i
      BY <1>1
    <3> QED BY <1>7, <3>1 DEF d
  <2>3. ~((Len(x) + 1) + WordLen - 0 < Len(y)) /\ (Len(x) + 1) + WordLen - 0 <= Len(y)
    BY <1>1, <2>1
  <2> QED BY <2>2, <2>3 DEF Rest
<1>10. Len(x) + 1 # 1 /\ 0 \in 0 .. WordLen
  BY <1>1
<1> QED BY <1>6, <1>8, <1>9, <1>10 DEF Holds

-----------------------------------------------------------------------------
(* What else is on its way to a host that waits for one answer.               *)

\* But for the answer at q there are confirmations of the address v before it, if ok.
OnlyConfirms(x, w, q, ok, v) ==
    \A p \in 1 .. Len(x) : p # q /\ x[p] \in Answer =>
        p < q /\ x[p] = "A" /\ ok /\ Holds(x, w, p, v, TRUE)

\* Before q there are fewer than k idle words, of AbortCountdown at most.
FewZs(x, q, k) ==
    /\ k \in 1 .. AbortCountdown
    /\ \A i \in 1 .. Len(x) : i < q /\ x[i] = "Z" => k > 1
    /\ \A i, j \in 1 .. Len(x) : i < j /\ j < q /\ x[i] = "Z" /\ x[j] = "Z" => k > 2
    /\ \A i, j, h \in 1 .. Len(x) :
          ~(i < j /\ j < h /\ h < q /\ x[i] = "Z" /\ x[j] = "Z" /\ x[h] = "Z")

LEMMA ConfirmsEnded ==
    ASSUME NEW x \in Seq(Char), NEW y \in Seq(Char), Ended(x, y),
           NEW v \in Word, NEW w, NEW u, NEW ok, NEW q \in 2 .. Len(x) + 1,
           OnlyConfirms(x, w, q, ok, v), y[1] = "A" => u = 0
    PROVE  OnlyConfirms(y, u, q - 1, ok, v)
<1>1. Len(x) \in Nat /\ Len(y) \in Nat /\ Len(y) = Len(x) - 1
  BY LenProperties DEF Ended
<1> SUFFICES ASSUME NEW p \in 1 .. Len(y), p # q - 1, y[p] \in Answer
             PROVE  p < q - 1 /\ y[p] = "A" /\ ok /\ Holds(y, u, p, v, TRUE)
  BY DEF OnlyConfirms
<1>2. p + 1 \in 2 .. Len(x) /\ p + 1 \in 1 .. Len(x) /\ p + 1 # q /\ y[p] = x[p + 1]
      /\ (p + 1) - 1 = p
  BY <1>1 DEF Ended
<1>3. p + 1 < q /\ x[p + 1] = "A" /\ ok /\ Holds(x, w, p + 1, v, TRUE)
  BY <1>2 DEF OnlyConfirms
<1>4. p + 1 = 2 => u = 0
  <2> SUFFICES ASSUME p + 1 = 2 PROVE u = 0
    OBVIOUS
  <2>1. p = 1
    BY <1>1
  <2> QED BY <1>2, <1>3, <2>1
<1>5. Holds(y, u, (p + 1) - 1, v, TRUE)
  BY <1>2, <1>3, <1>4, HoldsEnded
<1>6. p < q - 1
  BY <1>1, <1>3
<1> QED BY <1>2, <1>3, <1>5, <1>6

LEMMA ConfirmsContinued ==
    ASSUME NEW x \in Seq(Char), NEW y \in Seq(Char), Continued(x, y),
           NEW v \in Word, NEW w \in Word, NEW ok, NEW q \in 1 .. Len(x) + 1, q # 2,
           OnlyConfirms(x, w, q, ok, v)
    PROVE  OnlyConfirms(y, (Base * w + Worth(x[2])) % Power[WordLen],
                        IF q = 1 THEN 1 ELSE q - 1, ok, v)
<1> DEFINE u == (Base * w + Worth(x[2])) % Power[WordLen]
<1> DEFINE r == IF q = 1 THEN 1 ELSE q - 1
<1>1. Len(x) \in Nat /\ Len(y) \in Nat /\ Len(y) = Len(x) - 1 /\ Len(x) >= 2
  BY LenProperties DEF Continued
<1> SUFFICES ASSUME NEW p \in 1 .. Len(y), p # r, y[p] \in Answer
             PROVE  p < r /\ y[p] = "A" /\ ok /\ Holds(y, u, p, v, TRUE)
  BY DEF OnlyConfirms
<1>2. CASE p = 1
  <2>1. q # 1 /\ y[1] = x[1] /\ 1 \in 1 .. Len(x)
    BY <1>1, <1>2 DEF Continued
  <2>2. 1 < q /\ x[1] = "A" /\ ok /\ Holds(x, w, 1, v, TRUE)
    BY <1>2, <2>1 DEF OnlyConfirms
  <2>3. Holds(y, u, 1, v, TRUE)
    BY <2>2, HoldsRead
  <2>4. 1 < r
    BY <2>1
  <2> QED BY <1>2, <2>1, <2>2, <2>3, <2>4
<1>3. CASE p # 1
  <2>1. p + 1 \in 3 .. Len(x) /\ p + 1 \in 1 .. Len(x) /\ y[p] = x[p + 1] /\ (p + 1) - 1 = p
    BY <1>1, <1>3 DEF Continued
  <2>2. p + 1 # q
    BY <1>1, <1>3
  <2>3. p + 1 < q /\ x[p + 1] = "A" /\ ok /\ Holds(x, w, p + 1, v, TRUE)
    BY <2>1, <2>2 DEF OnlyConfirms
  <2>4. Holds(y, u, (p + 1) - 1, v, TRUE)
    BY <2>1, <2>3, HoldsContinued
  <2>5. p < r
    BY <1>1, <2>3
  <2> QED BY <2>1, <2>3, <2>4, <2>5
<1> QED BY <1>2, <1>3

LEMMA ConfirmsGrown ==
    ASSUME NEW x \in Seq(Char), NEW y \in Seq(Char), Grown(x, y),
           NEW v \in Word, NEW w, NEW ok, NEW q \in 1 .. Len(x) + 1, NEW r \in 1 .. Len(y) + 1,
           IF q <= Len(x) THEN r = q ELSE r > Len(x),
           OnlyConfirms(x, w, q, ok, v),
           \A p \in Len(x) + 1 .. Len(y) : p # r => y[p] \notin Answer
    PROVE  OnlyConfirms(y, w, r, ok, v)
<1>1. Len(x) \in Nat /\ Len(y) \in Nat /\ Len(x) <= Len(y)
  BY LenProperties DEF Grown
<1> SUFFICES ASSUME NEW p \in 1 .. Len(y), p # r, y[p] \in Answer
             PROVE  p < r /\ y[p] = "A" /\ ok /\ Holds(y, w, p, v, TRUE)
  BY DEF OnlyConfirms
<1>2. p \in 1 .. Len(x)
  BY <1>1
<1>3. y[p] = x[p] /\ p # q
  BY <1>1, <1>2 DEF Grown
<1>4. p < q /\ x[p] = "A" /\ ok /\ Holds(x, w, p, v, TRUE)
  BY <1>2, <1>3 DEF OnlyConfirms
<1>5. Holds(y, w, p, v, TRUE)
  BY <1>2, <1>4, HoldsGrown
<1>6. p < r
  BY <1>1, <1>2, <1>4
<1> QED BY <1>3, <1>4, <1>5, <1>6

LEMMA FewEnded ==
    ASSUME NEW x \in Seq(Char), NEW y \in Seq(Char), Ended(x, y),
           NEW q \in 2 .. Len(x) + 1, NEW k, FewZs(x, q, k)
    PROVE  FewZs(y, q - 1, IF x[1] = "Z" THEN k - 1 ELSE k)
<1>1. Len(x) \in Nat /\ Len(y) \in Nat /\ Len(y) = Len(x) - 1 /\ Len(x) >= 2
  BY LenProperties DEF Ended
<1>2. k \in 1 .. 3
  BY DEF FewZs, AbortCountdown
<1>3. \A i \in 1 .. Len(y) : i + 1 \in 1 .. Len(x) /\ y[i] = x[i + 1]
  BY <1>1 DEF Ended
<1>4. 1 \in 1 .. Len(x) /\ 1 < q
  BY <1>1
<1> DEFINE m == IF x[1] = "Z" THEN k - 1 ELSE k
<1>5. m \in 1 .. AbortCountdown
  BY <1>2, <1>4 DEF FewZs, AbortCountdown
<1>6. ASSUME NEW i \in 1 .. Len(y), i < q - 1, y[i] = "Z" PROVE m > 1
  <2>1. i + 1 \in 1 .. Len(x) /\ x[i + 1] = "Z" /\ 1 < i + 1 /\ i + 1 < q
    BY <1>1, <1>3, <1>6
  <2>2. k > 1 /\ (x[1] = "Z" => k > 2)
    BY <1>4, <2>1 DEF FewZs
  <2> QED BY <1>2, <2>2
<1>7. ASSUME NEW i \in 1 .. Len(y), NEW j \in 1 .. Len(y), i < j, j < q - 1, y[i] = "Z", y[j] = "Z"
      PROVE  m > 2
  <2>1. i + 1 \in 1 .. Len(x) /\ x[i + 1] = "Z" /\ 1 < i + 1 /\ i + 1 < j + 1
        /\ j + 1 \in 1 .. Len(x) /\ x[j + 1] = "Z" /\ j + 1 < q
    BY <1>1, <1>3, <1>7
  <2>2. k > 2 /\ x[1] # "Z"
    BY <1>4, <2>1 DEF FewZs
  <2> QED BY <1>2, <2>2
<1>8. ASSUME NEW i \in 1 .. Len(y), NEW j \in 1 .. Len(y), NEW h \in 1 .. Len(y),
             i < j, j < h, h < q - 1, y[i] = "Z", y[j] = "Z", y[h] = "Z"
      PROVE  FALSE
  <2>1. /\ i + 1 \in 1 .. Len(x) /\ j + 1 \in 1 .. Len(x) /\ h + 1 \in 1 .. Len(x)
        /\ x[i + 1] = "Z" /\ x[j + 1] = "Z" /\ x[h + 1] = "Z"
        /\ i + 1 < j + 1 /\ j + 1 < h + 1 /\ h + 1 < q
    BY <1>1, <1>3, <1>8
  <2> QED BY <2>1 DEF FewZs
<1> HIDE DEF m
<1> QED BY <1>5, <1>6, <1>7, <1>8 DEF FewZs, m

LEMMA FewContinued ==
    ASSUME NEW x \in Seq(Char), NEW y \in Seq(Char), Continued(x, y), x[1] # "Z",
           NEW q \in 1 .. Len(x) + 1, q # 2, NEW k, FewZs(x, q, k)
    PROVE  FewZs(y, IF q = 1 THEN 1 ELSE q - 1, k)
<1> DEFINE r == IF q = 1 THEN 1 ELSE q - 1
<1>1. Len(x) \in Nat /\ Len(y) \in Nat /\ Len(y) = Len(x) - 1 /\ Len(x) >= 2
  BY LenProperties DEF Continued
<1>2. ASSUME NEW i \in 1 .. Len(y), i < r, y[i] = "Z"
      PROVE  i + 1 \in 1 .. Len(x) /\ x[i + 1] = "Z" /\ i + 1 < q
  <2>1. i # 1
    BY <1>2 DEF Continued
  <2>2. i \in 2 .. Len(y) /\ i + 1 \in 1 .. Len(x) /\ i + 1 < q
    BY <1>1, <1>2, <2>1
  <2> QED BY <1>2, <2>2 DEF Continued
<1> HIDE DEF r
<1>3. r \in Nat
  BY <1>1 DEF r
<1>4. ASSUME NEW i \in 1 .. Len(y), i < r, y[i] = "Z" PROVE k > 1
  BY <1>2, <1>4 DEF FewZs
<1>5. ASSUME NEW i \in 1 .. Len(y), NEW j \in 1 .. Len(y), i < j, j < r, y[i] = "Z", y[j] = "Z"
      PROVE  k > 2
  <2>1. i < r /\ i + 1 < j + 1
    BY <1>1, <1>3, <1>5
  <2>2. /\ i + 1 \in 1 .. Len(x) /\ x[i + 1] = "Z" /\ i + 1 < q
        /\ j + 1 \in 1 .. Len(x) /\ x[j + 1] = "Z" /\ j + 1 < q
    BY <1>2, <1>5, <2>1
  <2> QED BY <2>1, <2>2 DEF FewZs
<1>6. ASSUME NEW i \in 1 .. Len(y), NEW j \in 1 .. Len(y), NEW h \in 1 .. Len(y),
             i < j, j < h, h < r, y[i] = "Z", y[j] = "Z", y[h] = "Z"
      PROVE  FALSE
  <2>1. i < r /\ j < r /\ i + 1 < j + 1 /\ j + 1 < h + 1
    BY <1>1, <1>3, <1>6
  <2>2. /\ i + 1 \in 1 .. Len(x) /\ x[i + 1] = "Z" /\ i + 1 < q
        /\ j + 1 \in 1 .. Len(x) /\ x[j + 1] = "Z" /\ j + 1 < q
        /\ h + 1 \in 1 .. Len(x) /\ x[h + 1] = "Z" /\ h + 1 < q
    BY <1>2, <1>6, <2>1
  <2> QED BY <2>1, <2>2 DEF FewZs
<1>7. k \in 1 .. AbortCountdown
  BY DEF FewZs
<1>8. FewZs(y, r, k)
  BY <1>4, <1>5, <1>6, <1>7 DEF FewZs
<1> QED BY <1>8 DEF r

LEMMA FewGrown ==
    ASSUME NEW x \in Seq(Char), NEW y \in Seq(Char), Grown(x, y),
           NEW q \in 1 .. Len(x) + 1, NEW r \in 1 .. Len(y) + 1, NEW k, FewZs(x, q, k),
           r >= q, \A p \in Len(x) + 1 .. Len(y) : p < r => y[p] # "Z",
           q <= Len(x) => r = q
    PROVE  FewZs(y, r, k)
<1>1. Len(x) \in Nat /\ Len(y) \in Nat /\ Len(x) <= Len(y)
  BY LenProperties DEF Grown
<1>2. ASSUME NEW i \in 1 .. Len(y), i < r, y[i] = "Z"
      PROVE  i \in 1 .. Len(x) /\ x[i] = "Z" /\ i < q
  <2>1. i \in 1 .. Len(x)
    BY <1>1, <1>2
  <2>2. y[i] = x[i]
    BY <2>1 DEF Grown
  <2> QED BY <1>1, <1>2, <2>1, <2>2
<1>3. ASSUME NEW i \in 1 .. Len(y), i < r, y[i] = "Z" PROVE k > 1
  BY <1>2, <1>3 DEF FewZs
<1>4. ASSUME NEW i \in 1 .. Len(y), NEW j \in 1 .. Len(y), i < j, j < r, y[i] = "Z", y[j] = "Z"
      PROVE  k > 2
  <2>1. i < r
    BY <1>1, <1>4
  <2>2. /\ i \in 1 .. Len(x) /\ x[i] = "Z" /\ i < q
        /\ j \in 1 .. Len(x) /\ x[j] = "Z" /\ j < q
    BY <1>2, <1>4, <2>1
  <2> QED BY <1>4, <2>2 DEF FewZs
<1>5. ASSUME NEW i \in 1 .. Len(y), NEW j \in 1 .. Len(y), NEW h \in 1 .. Len(y),
             i < j, j < h, h < r, y[i] = "Z", y[j] = "Z", y[h] = "Z"
      PROVE  FALSE
  <2>1. i < r /\ j < r
    BY <1>1, <1>5
  <2>2. /\ i \in 1 .. Len(x) /\ x[i] = "Z" /\ i < q
        /\ j \in 1 .. Len(x) /\ x[j] = "Z" /\ j < q
        /\ h \in 1 .. Len(x) /\ x[h] = "Z" /\ h < q
    BY <1>2, <1>5, <2>1
  <2> QED BY <1>5, <2>2 DEF FewZs
<1>6. k \in 1 .. AbortCountdown
  BY DEF FewZs
<1> QED BY <1>3, <1>4, <1>5, <1>6 DEF FewZs

-----------------------------------------------------------------------------
(* The inductive invariant.                                                   *)

\* The letter the host is inside, and with it all that it has to read.
Cur == IF m_isspace THEN "NL" ELSE m_cmd
Ahead == <<Cur>> \o Stream

CommandWord == [sub : {"ADDR"}, word : Addr, inc : BOOLEAN]
               \cup [sub : {"WR", "RD"}, word : Word, inc : BOOLEAN]
Call == [op : {"none", "writeio", "writev", "readv"}, a : Addr, inc : BOOLEAN, vals : Seq(Word)]

Types ==
    /\ m_cmd \in Letter \cup {"NUL"}
    /\ m_isspace \in BOOLEAN /\ m_inc \in BOOLEAN /\ m_addr_set \in BOOLEAN
    /\ m_lastaddr \in Addr /\ m_nacks \in 0 .. MaxLen /\ n \in 0 .. MaxLen
    /\ m_interrupt_flag \in BOOLEAN /\ m_bus_err \in BOOLEAN
    /\ word \in Word /\ abort_countdown \in 0 .. AbortCountdown
    /\ pc \in Where /\ outcome \in {"none", "ok", "buserr", "exit"}
    /\ call \in Call /\ Len(call.vals) <= MaxLen /\ buf \in Seq(Word) /\ sent \in Seq(CommandWord)
    /\ dev_addr \in Addr /\ dev_inc \in BOOLEAN
    /\ mem \in [Mapped -> Word] /\ shadow \in [Mapped -> Word]
    /\ last_cr \in BOOLEAN /\ erred \in BOOLEAN
    /\ wire \in Seq(Letter \cup Digit \cup Newline)
    /\ line \in Seq(Letter \cup Digit \cup Newline)
    /\ usage \in Usages /\ ints \in 0 .. usage.ints /\ cleared \in 0 .. ints

Length == Len(call.vals)
Spot(k) == Advance(call.a, call.inc, k)
AddrWord == 4 * call.a + (IF call.inc THEN 0 ELSE 1)

ReadSoFar ==
    /\ Len(buf) = n
    /\ \A i \in 1 .. n : Spot(i - 1) \in Mapped /\ buf[i] = mem[Spot(i - 1)]

\* Between calls nothing is on its way that belongs to one.
IdleOK ==
    /\ sent = <<>>
    /\ \A p \in 1 .. Len(Ahead) : Ahead[p] \notin Answer
    /\ mem = shadow
    /\ outcome = "ok" /\ call.op = "readv" => n = Length /\ ReadSoFar
    /\ AddressAgrees

\* A word is asked for: the address is to be sent first; or the request is on its way;
\* or the port has answered it, at q.
Asking ==
    /\ sent = <<Cmd("ADDR", call.a, call.inc), Cmd("RD", 0, FALSE)>>
    /\ n = 0
    /\ \A p \in 1 .. Len(Ahead) : Ahead[p] \notin Answer
    /\ FewZs(Ahead, Len(Ahead) + 1, abort_countdown)
Asked ==
    /\ sent = <<Cmd("RD", 0, FALSE)>>
    /\ dev_addr = Spot(n) /\ dev_inc = call.inc
    /\ OnlyConfirms(Ahead, word, Len(Ahead) + 1, n = 0, AddrWord)
    /\ FewZs(Ahead, Len(Ahead) + 1, abort_countdown)
Answered(q) ==
    /\ sent = <<>>
    /\ dev_addr = Spot(n + 1) /\ dev_inc = call.inc
    /\ \/ Ahead[q] = "R" /\ Spot(n) \in Mapped /\ Holds(Ahead, word, q, mem[Spot(n)], TRUE)
       \/ Ahead[q] = "E" /\ Spot(n) \notin Mapped /\ erred
    /\ OnlyConfirms(Ahead, word, q, n = 0, AddrWord)
    /\ FewZs(Ahead, q, abort_countdown)

ReadOK ==
    /\ call.op = "readv" /\ call.inc \in usage.reads
    /\ n < Length
    /\ m_lastaddr = Spot(n) /\ m_inc = call.inc
    /\ mem = shadow
    /\ ReadSoFar
    /\ ~usage.errors => \A i \in 1 .. Length : Spot(i - 1) \in Mapped
    /\ outcome = "none"
    /\ \/ Asking
       \/ Asked
       \/ \E q \in 1 .. Len(Ahead) : Answered(q)

\* The words writev has sent, and those of them that the port has not taken.
Words == IF n < Length THEN n + 1 ELSE Length
Writing(d) == [i \in 1 .. Words - d |-> Cmd("WR", call.vals[d + i], FALSE)]

\* No word is written yet; or d are, and the address was confirmed before them.
Opening ==
    /\ m_nacks = 0
    /\ mem = shadow
    /\ sent = <<Cmd("ADDR", call.a, FALSE)>> \o Writing(0)
    /\ \A p \in 1 .. Len(Ahead) : Ahead[p] \notin Answer
Confirming ==
    /\ \A p \in 1 .. Len(Ahead) : Ahead[p] = "A" =>
          /\ m_nacks = 0
          /\ \A k \in 1 .. Len(Ahead) : Ahead[k] = "K" => p < k
          /\ Holds(Ahead, word, p, AddrWord, TRUE \in usage.reads)
    /\ TRUE \in usage.reads /\ (\A p \in 1 .. Len(Ahead) : Ahead[p] # "A") => ~m_inc
Written(d) ==
    /\ m_nacks + Pending("K") = d
    /\ mem = IF d = 0 THEN shadow ELSE [shadow EXCEPT ![call.a] = call.vals[d]]
    /\ sent = Writing(d)
    /\ dev_addr = call.a /\ ~dev_inc
    /\ \A p \in 1 .. Len(Ahead) : Ahead[p] \notin {"R", "E"}
    /\ Confirming

WriteOK ==
    /\ call.op \in {"writev", "writeio"} /\ ~call.inc /\ call.a \in Mapped
    /\ FALSE \in usage.writes
    /\ Length > 0 /\ n <= Length
    /\ outcome = "none"
    /\ \/ Opening
       \/ \E d \in 0 .. Words : Written(d)

Phase ==
    /\ pc = "idle" => IdleOK
    /\ pc = "readword" => ReadOK
    /\ pc \in {"acks", "readidle"} => WriteOK
    /\ pc # "exit"

\* Of a line that comes whole the host stops only at the end.
Lines ==
    ~usage.pieces =>
        /\ line # <<>> => Last(line) = "NL"
        /\ line = <<>> \/ pc = "acks" => Cur \notin Answer

Counts ==
    /\ Pending("Z") <= usage.idles
    /\ Pending("I") <= ints
    /\ InterruptKept

HInv == Types /\ Grammar(Ahead) /\ Phase /\ Lines /\ Counts /\ NoFalseError
IInv == Served(usage) => HInv

-----------------------------------------------------------------------------
(* How steps change what is ahead of the host.                                *)

LEMMA Join ==
    ASSUME NEW b \in Char, NEW s \in Seq(Char)
    PROVE  /\ <<b>> \o s \in Seq(Char) /\ Len(<<b>> \o s) = Len(s) + 1
           /\ (<<b>> \o s)[1] = b
           /\ \A i \in 1 .. Len(s) : (<<b>> \o s)[i + 1] = s[i]
           /\ \A i \in 2 .. Len(s) + 1 : (<<b>> \o s)[i] = s[i - 1]
<1>1. <<b>> \in Seq(Char) /\ Len(<<b>>) = 1 /\ <<b>>[1] = b
  OBVIOUS
<1>2. Len(s) \in Nat
  BY LenProperties
<1> DEFINE x == <<b>> \o s
<1>3. x \in Seq(Char) /\ Len(x) = Len(<<b>>) + Len(s) /\ \A i \in 1 .. Len(<<b>>) + Len(s) :
         x[i] = IF i <= Len(<<b>>) THEN <<b>>[i] ELSE s[i - Len(<<b>>)]
  BY <1>1, ConcatProperties
<1> HIDE DEF x
<1>4. Len(x) = Len(s) + 1 /\ x[1] = b /\ \A i \in 2 .. Len(s) + 1 : x[i] = s[i - 1]
  BY <1>1, <1>2, <1>3
<1>5. ASSUME NEW i \in 1 .. Len(s) PROVE x[i + 1] = s[i]
  <2>1. i + 1 \in 2 .. Len(s) + 1 /\ (i + 1) - 1 = i
    BY <1>2
  <2> QED BY <1>4, <2>1
<1> QED BY <1>3, <1>4, <1>5 DEF x

LEMMA Taking ==
    ASSUME NEW b \in Char, NEW s \in Seq(Char), s # <<>>
    PROVE  /\ (<<b>> \o s)[2] = s[1] /\ s[1] \in Char /\ Tail(s) \in Seq(Char)
           /\ s[1] \notin Digit => Ended(<<b>> \o s, <<s[1]>> \o Tail(s))
           /\ s[1] \in Digit => Continued(<<b>> \o s, <<b>> \o Tail(s))
<1> DEFINE x == <<b>> \o s
<1> DEFINE t == Tail(s)
<1>1. s[1] \in Char /\ t \in Seq(Char) /\ Len(t) = Len(s) - 1 /\ \A i \in 1 .. Len(t) : t[i] = s[i + 1]
  BY HeadTailProperties
<1>2. Len(s) \in Nat \ {0}
  BY EmptySeq, LenProperties
<1>3. x \in Seq(Char) /\ Len(x) = Len(s) + 1 /\ x[1] = b
      /\ \A i \in 2 .. Len(s) + 1 : x[i] = s[i - 1]
  BY Join
<1> HIDE DEF x, t
<1>4. x[2] = s[1] /\ Len(x) >= 2
  BY <1>2, <1>3
<1>5. ASSUME s[1] \notin Digit PROVE Ended(x, <<s[1]>> \o t)
  <2> DEFINE y == <<s[1]>> \o t
  <2>1. Len(y) = Len(t) + 1 /\ y[1] = s[1] /\ \A i \in 2 .. Len(t) + 1 : y[i] = t[i - 1]
    BY <1>1, Join
  <2> HIDE DEF y
  <2>2. Len(y) = Len(x) - 1
    BY <1>1, <1>2, <1>3, <2>1
  <2>3. ASSUME NEW i \in 1 .. Len(y) PROVE y[i] = x[i + 1]
    <3>1. CASE i = 1
      BY <1>4, <2>1, <3>1
    <3>2. CASE i # 1
      <4>1. i \in 2 .. Len(t) + 1 /\ i - 1 \in 1 .. Len(t) /\ i + 1 \in 2 .. Len(s) + 1
            /\ (i - 1) + 1 = i /\ (i + 1) - 1 = i
        BY <1>1, <1>2, <2>1, <3>2
      <4>2. y[i] = t[i - 1] /\ t[i - 1] = s[i] /\ x[i + 1] = s[i]
        BY <1>1, <1>3, <2>1, <4>1
      <4> QED BY <4>2
    <3> QED BY <3>1, <3>2
  <2>4. Ended(x, y)
    BY <1>4, <1>5, <2>2, <2>3 DEF Ended
  <2> QED BY <2>4 DEF y
<1>6. ASSUME s[1] \in Digit PROVE Continued(x, <<b>> \o t)
  <2> DEFINE y == <<b>> \o t
  <2>1. Len(y) = Len(t) + 1 /\ y[1] = b /\ \A i \in 2 .. Len(t) + 1 : y[i] = t[i - 1]
    BY <1>1, Join
  <2> HIDE DEF y
  <2>2. Len(y) = Len(x) - 1
    BY <1>1, <1>2, <1>3, <2>1
  <2>3. ASSUME NEW i \in 2 .. Len(y) PROVE y[i] = x[i + 1]
    <3>1. i \in 2 .. Len(t) + 1 /\ i - 1 \in 1 .. Len(t) /\ i + 1 \in 2 .. Len(s) + 1
          /\ (i - 1) + 1 = i /\ (i + 1) - 1 = i
      BY <1>1, <1>2, <2>1
    <3>2. y[i] = t[i - 1] /\ t[i - 1] = s[i] /\ x[i + 1] = s[i]
      BY <1>1, <1>3, <2>1, <3>1
    <3> QED BY <3>2
  <2>4. Continued(x, y)
    BY <1>3, <1>4, <1>6, <2>1, <2>2, <2>3 DEF Continued
  <2> QED BY <2>4 DEF y
<1> QED BY <1>1, <1>4, <1>5, <1>6 DEF x, t

LEMMA Sending ==
    ASSUME NEW b \in Char, NEW s \in Seq(Char), NEW t \in Seq(Char),
           t # <<>> => t[1] \notin Digit
    PROVE  /\ s \o t \in Seq(Char) /\ <<b>> \o (s \o t) = (<<b>> \o s) \o t
           /\ Grown(<<b>> \o s, <<b>> \o (s \o t))
           /\ Len(<<b>> \o (s \o t)) = Len(<<b>> \o s) + Len(t)
           /\ \A i \in 1 .. Len(t) : (<<b>> \o (s \o t))[Len(<<b>> \o s) + i] = t[i]
<1> DEFINE x == <<b>> \o s
<1> DEFINE y == <<b>> \o (s \o t)
<1>1. x \in Seq(Char) /\ <<b>> \in Seq(Char)
  BY Join
<1>2. s \o t \in Seq(Char)
  BY ConcatProperties
<1>3. y = x \o t
  <2>1. Regroups(<<b>>, s, t)
    BY <1>1, Grouping
  <2> QED BY <2>1 DEF Regroups
<1>4. Len(x) \in Nat /\ Len(t) \in Nat
  BY <1>1, LenProperties
<1>5. Len(x \o t) = Len(x) + Len(t) /\ \A i \in 1 .. Len(x) + Len(t) :
         (x \o t)[i] = IF i <= Len(x) THEN x[i] ELSE t[i - Len(x)]
  BY <1>1, ConcatProperties
<1> HIDE DEF x, y
<1>6. Len(y) = Len(x) + Len(t) /\ \A i \in 1 .. Len(x) + Len(t) :
         y[i] = IF i <= Len(x) THEN x[i] ELSE t[i - Len(x)]
  BY <1>3, <1>5, Zenon
<1>7. \A i \in 1 .. Len(x) : y[i] = x[i]
  BY <1>4, <1>6
<1>8. \A i \in 1 .. Len(t) : y[Len(x) + i] = t[i]
  <2> TAKE i \in 1 .. Len(t)
  <2>1. Len(x) + i \in 1 .. Len(x) + Len(t) /\ ~(Len(x) + i <= Len(x)) /\ (Len(x) + i) - Len(x) = i
    BY <1>4
  <2> QED BY <1>6, <2>1
<1>9. Len(y) > Len(x) => y[Len(x) + 1] \notin Digit
  <2> SUFFICES ASSUME Len(y) > Len(x) PROVE y[Len(x) + 1] \notin Digit
    OBVIOUS
  <2>1. 1 \in 1 .. Len(t) /\ t # <<>>
    BY <1>4, <1>6, EmptySeq
  <2> QED BY <1>8, <2>1
<1>10. Grown(x, y)
  BY <1>4, <1>6, <1>7, <1>9 DEF Grown
<1> QED BY <1>2, <1>3, <1>6, <1>8, <1>10 DEF x, y

LEMMA Characters ==
    ASSUME Types
    PROVE  /\ wire \in Seq(Char) /\ line \in Seq(Char) /\ Stream \in Seq(Char) /\ Cur \in Char
           /\ Cur \notin Digit /\ Ahead \in Seq(Char) /\ Len(Ahead) = Len(Stream) + 1
           /\ Len(Stream) \in Nat /\ Ahead[1] = Cur
           /\ \A i \in 1 .. Len(Stream) : Ahead[i + 1] = Stream[i]
<1>1. Letter \cup Digit \cup Newline \subseteq Char
  BY DEF Char
<1>2. wire \in Seq(Char) /\ line \in Seq(Char)
  BY <1>1, SeqMonotonic DEF Types
<1>3. Stream \in Seq(Char)
  BY <1>2, ConcatProperties DEF Stream
<1>4. Cur \in Char /\ Cur \notin Digit
  BY HostAssumption DEF Types, Cur, Char, Newline
<1> QED BY <1>2, <1>3, <1>4, Join, LenProperties DEF Ahead

\* The letters, none of which is a newline or a digit.
LEMMA Letters ==
    /\ Letter \subseteq Char /\ Digit \cap Letter = {} /\ "NL" \notin Digit /\ "NUL" \notin Digit
    /\ "NL" \notin Letter /\ Answer \subseteq Letter /\ Digit \cap Answer = {}
    /\ "NL" \in Char
BY HostAssumption DEF Letter, Answer, Char, Newline

LEMMA PendingIs ==
    ASSUME Types, NEW l \in Letter
    PROVE  /\ Pending(l) = Count(Stream, l) + (IF Cur = l THEN 1 ELSE 0)
           /\ Count(Stream, l) \in Nat /\ Pending(l) \in Nat
           /\ (\A p \in 1 .. Len(Ahead) : Ahead[p] # l) => Pending(l) = 0
           /\ Pending(l) = 0 => \A p \in 1 .. Len(Ahead) : Ahead[p] # l
<1>1. (~m_isspace /\ m_cmd = l) <=> Cur = l
  BY Letters DEF Types, Cur
<1>2. Stream \in Seq(Char) /\ Len(Stream) \in Nat /\ Len(Ahead) = Len(Stream) + 1
      /\ Ahead[1] = Cur /\ \A i \in 1 .. Len(Stream) : Ahead[i + 1] = Stream[i]
  BY Characters
<1>3. Count(Stream, l) \in Nat /\ (Count(Stream, l) = 0 <=> \A i \in 1 .. Len(Stream) : Stream[i] # l)
  BY <1>2, CountType
<1>4. Pending(l) = (IF Cur = l THEN 1 ELSE 0) + Count(Stream, l)
  BY <1>1, Zenon DEF Pending, Count
<1>5. Pending(l) = Count(Stream, l) + (IF Cur = l THEN 1 ELSE 0)
  BY <1>3, <1>4
<1>6. ASSUME \A p \in 1 .. Len(Ahead) : Ahead[p] # l PROVE Pending(l) = 0
  <2>1. 1 \in 1 .. Len(Ahead) /\ \A i \in 1 .. Len(Stream) : i + 1 \in 1 .. Len(Ahead)
    BY <1>2
  <2>2. Cur # l /\ \A i \in 1 .. Len(Stream) : Stream[i] # l
    BY <1>2, <1>6, <2>1
  <2> QED BY <1>3, <1>5, <2>2
<1>7. ASSUME Pending(l) = 0, NEW p \in 1 .. Len(Ahead) PROVE Ahead[p] # l
  <2>1. Cur # l /\ Count(Stream, l) = 0
    BY <1>3, <1>5, <1>7
  <2>2. CASE p = 1
    BY <1>2, <2>1, <2>2
  <2>3. CASE p # 1
    <3>1. p - 1 \in 1 .. Len(Stream) /\ (p - 1) + 1 = p
      BY <1>2, <2>3
    <3> QED BY <1>2, <1>3, <2>1, <3>1
  <2> QED BY <2>2, <2>3
<1> QED BY <1>3, <1>5, <1>6, <1>7

LEMMA PendingNext ==
    ASSUME Types', NEW l \in Letter
    PROVE  Pending(l)' = Count(Stream', l) + (IF Cur' = l THEN 1 ELSE 0) /\ Count(Stream', l) \in Nat
<1>1. (~m_isspace' /\ m_cmd' = l) <=> Cur' = l
  BY Letters DEF Types, Cur
<1>2. Stream' \in Seq(Char)
  <2>1. Letter \cup Digit \cup Newline \subseteq Char
    BY DEF Char
  <2>2. wire' \in Seq(Char) /\ line' \in Seq(Char)
    BY <2>1, SeqMonotonic DEF Types
  <2> QED BY <2>2, ConcatProperties DEF Stream
<1>3. Count(Stream', l) \in Nat
  BY <1>2, CountType
<1>4. Pending(l)' = (IF Cur' = l THEN 1 ELSE 0) + Count(Stream', l)
  BY <1>1, Zenon DEF Pending, Count
<1> QED BY <1>3, <1>4

\* The host takes the character that ends a word, or one more digit of it; the port sends
\* t; or neither.
TakeEnd ==
    /\ Stream # <<>> /\ Stream[1] \notin Digit
    /\ Stream' = Tail(Stream) /\ Cur' = Stream[1]
    /\ Stream[1] \in Letter => word' = 0
TakeDigit ==
    /\ Stream # <<>> /\ Stream[1] \in Digit
    /\ Stream' = Tail(Stream) /\ Cur' = Cur
    /\ word' = (Base * word + Worth(Stream[1])) % Power[WordLen]
Send(t) ==
    /\ t \in Seq(Char) /\ (t # <<>> => t[1] \notin Digit)
    /\ Stream' = Stream \o t /\ Cur' = Cur
Stay == Stream' = Stream /\ Cur' = Cur

LEMMA EndTaken ==
    ASSUME Types, Types', Grammar(Ahead), TakeEnd
    PROVE  /\ Ended(Ahead, Ahead') /\ Ahead' \in Seq(Char) /\ Grammar(Ahead')
           /\ Len(Ahead) >= 2 /\ Ahead[2] \notin Digit /\ Ahead'[1] = Cur'
           /\ Ahead'[1] \in Letter => word' = 0
           /\ \A l \in Letter : Pending(l) = Pending(l)' + (IF Ahead[1] = l THEN 1 ELSE 0)
<1>1. Stream \in Seq(Char) /\ Cur \in Char /\ Ahead \in Seq(Char) /\ Ahead[1] = Cur
      /\ Len(Ahead) = Len(Stream) + 1 /\ Len(Stream) \in Nat
  BY Characters
<1>2. Ahead' = <<Stream[1]>> \o Tail(Stream)
  BY DEF TakeEnd, Ahead
<1>3. /\ (<<Cur>> \o Stream)[2] = Stream[1] /\ Stream[1] \in Char /\ Tail(Stream) \in Seq(Char)
      /\ Ended(<<Cur>> \o Stream, <<Stream[1]>> \o Tail(Stream))
  BY <1>1, Taking DEF TakeEnd
<1>4. Ended(Ahead, Ahead') /\ Ahead[2] \notin Digit
  BY <1>2, <1>3 DEF Ahead, TakeEnd
<1>5. Ahead' \in Seq(Char) /\ Ahead'[1] = Stream[1]
  BY <1>2, <1>3, Join
<1>6. Grammar(Ahead')
  BY <1>1, <1>4, <1>5, GrammarKept DEF Ended
<1>7. ASSUME NEW l \in Letter
      PROVE  Pending(l) = Pending(l)' + (IF Ahead[1] = l THEN 1 ELSE 0)
  <2>1. Pending(l) = Count(Stream, l) + (IF Cur = l THEN 1 ELSE 0)
    BY PendingIs
  <2>2. Pending(l)' = Count(Tail(Stream), l) + (IF Stream[1] = l THEN 1 ELSE 0)
        /\ Count(Tail(Stream), l) \in Nat
    BY PendingNext DEF TakeEnd
  <2>3. Count(Stream, l) = Count(Tail(Stream), l) + (IF Stream[1] = l THEN 1 ELSE 0)
    BY <1>1, CountTail DEF TakeEnd
  <2> QED BY <1>1, <2>1, <2>2, <2>3
<1> QED BY <1>1, <1>4, <1>5, <1>6, <1>7 DEF TakeEnd, Ended

LEMMA DigitTaken ==
    ASSUME Types, Types', Grammar(Ahead), TakeDigit
    PROVE  /\ Continued(Ahead, Ahead') /\ Ahead' \in Seq(Char) /\ Grammar(Ahead')
           /\ Len(Ahead) >= 2 /\ Ahead[2] \in Digit /\ Ahead[1] \in {"A", "R", "K"}
           /\ word' = (Base * word + Worth(Ahead[2])) % Power[WordLen]
           /\ \A l \in Letter : Pending(l)' = Pending(l)
<1>1. Stream \in Seq(Char) /\ Cur \in Char /\ Ahead \in Seq(Char) /\ Ahead[1] = Cur
      /\ Len(Ahead) = Len(Stream) + 1 /\ Len(Stream) \in Nat
  BY Characters
<1>2. Ahead' = <<Cur>> \o Tail(Stream)
  BY DEF TakeDigit, Ahead
<1>3. /\ (<<Cur>> \o Stream)[2] = Stream[1] /\ Tail(Stream) \in Seq(Char)
      /\ Continued(<<Cur>> \o Stream, <<Cur>> \o Tail(Stream))
  BY <1>1, Taking DEF TakeDigit
<1>4. Continued(Ahead, Ahead') /\ Ahead[2] = Stream[1]
  BY <1>2, <1>3 DEF Ahead
<1>5. Ahead' \in Seq(Char)
  BY <1>1, <1>2, <1>3, Join
<1>6. Grammar(Ahead') /\ Ahead[1] \in {"A", "R", "K"}
  BY <1>1, <1>4, <1>5, GrammarKept DEF Continued
<1>7. ASSUME NEW l \in Letter PROVE Pending(l)' = Pending(l)
  <2>1. Pending(l) = Count(Stream, l) + (IF Cur = l THEN 1 ELSE 0)
    BY PendingIs
  <2>2. Pending(l)' = Count(Tail(Stream), l) + (IF Cur = l THEN 1 ELSE 0)
        /\ Count(Tail(Stream), l) \in Nat
    BY PendingNext DEF TakeDigit
  <2>3. Count(Stream, l) = Count(Tail(Stream), l) + (IF Stream[1] = l THEN 1 ELSE 0)
    BY <1>1, CountTail DEF TakeDigit
  <2>4. Stream[1] # l
    BY Letters DEF TakeDigit
  <2> QED BY <2>1, <2>2, <2>3, <2>4
<1> QED BY <1>4, <1>5, <1>6, <1>7 DEF TakeDigit, Continued

LEMMA Sent ==
    ASSUME Types, Types', NEW t, Send(t)
    PROVE  /\ Grown(Ahead, Ahead') /\ Ahead' \in Seq(Char)
           /\ Len(Ahead') = Len(Ahead) + Len(t) /\ Ahead' = Ahead \o t
           /\ \A i \in 1 .. Len(t) : Ahead'[Len(Ahead) + i] = t[i]
           /\ \A l \in Letter : Pending(l)' = Pending(l) + Count(t, l)
<1>1. Stream \in Seq(Char) /\ Cur \in Char /\ t \in Seq(Char)
  BY Characters DEF Send
<1>2. Ahead = <<Cur>> \o Stream /\ Ahead' = <<Cur>> \o (Stream \o t)
  BY DEF Ahead, Send
<1>3. /\ Stream \o t \in Seq(Char) /\ <<Cur>> \o (Stream \o t) = (<<Cur>> \o Stream) \o t
      /\ Grown(<<Cur>> \o Stream, <<Cur>> \o (Stream \o t))
      /\ Len(<<Cur>> \o (Stream \o t)) = Len(<<Cur>> \o Stream) + Len(t)
      /\ \A i \in 1 .. Len(t) : (<<Cur>> \o (Stream \o t))[Len(<<Cur>> \o Stream) + i] = t[i]
  BY <1>1, Sending DEF Send
<1>4. Ahead' \in Seq(Char)
  BY <1>1, <1>2, <1>3, Join
<1>5. ASSUME NEW l \in Letter PROVE Pending(l)' = Pending(l) + Count(t, l)
  <2>1. Pending(l) = Count(Stream, l) + (IF Cur = l THEN 1 ELSE 0)
    BY PendingIs
  <2>2. Pending(l)' = Count(Stream \o t, l) + (IF Cur = l THEN 1 ELSE 0)
    BY PendingNext DEF Send
  <2>3. Count(Stream \o t, l) = Count(Stream, l) + Count(t, l)
    BY <1>1, CountJoin
  <2>4. Count(t, l) \in Nat
    BY <1>1, CountType
  <2>5. Count(Stream, l) \in Nat
    BY <1>1, CountType
  <2> QED BY <2>1, <2>2, <2>3, <2>4, <2>5
<1> QED BY <1>2, <1>3, <1>4, <1>5

LEMMA Stayed ==
    ASSUME Types, Types', Stay
    PROVE  Ahead' = Ahead /\ \A l \in Letter : Pending(l)' = Pending(l)
<1>1. Ahead' = Ahead
  BY DEF Stay, Ahead
<1>2. ASSUME NEW l \in Letter PROVE Pending(l)' = Pending(l)
  BY PendingIs, PendingNext DEF Stay
<1> QED BY <1>1, <1>2

\* The grammar of what the port sends.
LEMMA GrammarSent ==
    ASSUME NEW x \in Seq(Char), NEW y \in Seq(Char), Grammar(x), Grown(x, y), Len(x) >= 1,
           \A i \in Len(x) + 2 .. Len(y) : y[i] \in Digit => y[i - 1] \in Digit \cup {"A", "R", "K"}
    PROVE  Grammar(y)
<1>1. Len(x) \in Nat /\ Len(y) \in Nat
  BY LenProperties
<1>2. y[1] \notin Digit
  BY <1>1 DEF Grown, Grammar
<1>3. ASSUME NEW p \in 2 .. Len(y), y[p] \in Digit PROVE y[p - 1] \in Digit \cup {"A", "R", "K"}
  <2>1. CASE p <= Len(x)
    <3>1. p \in 2 .. Len(x) /\ p \in 1 .. Len(x) /\ p - 1 \in 1 .. Len(x)
      BY <1>1, <2>1
    <3>2. y[p] = x[p] /\ y[p - 1] = x[p - 1]
      BY <3>1 DEF Grown
    <3> QED BY <1>3, <3>1, <3>2 DEF Grammar
  <2>2. CASE p = Len(x) + 1
    BY <1>1, <1>3, <2>2 DEF Grown
  <2>3. CASE p > Len(x) + 1
    BY <1>1, <1>3, <2>3
  <2> QED BY <1>1, <2>1, <2>2, <2>3
<1> QED BY <1>2, <1>3 DEF Grammar

-----------------------------------------------------------------------------
(* Addresses.                                                                 *)

LEMMA Advances ==
    ASSUME NEW a \in Addr, NEW i \in BOOLEAN, NEW k \in Nat
    PROVE  /\ Advance(a, i, k) \in Addr /\ Advance(a, i, 0) = a /\ Advance(a, FALSE, k) = a
           /\ Advance(Advance(a, i, k), i, 1) = Advance(a, i, k + 1)
<1>1. AddrSpace \in Nat \ {0} /\ a \in Nat /\ a < AddrSpace /\ Addr = 0 .. AddrSpace - 1
  BY Sizes DEF Addr
<1>2. a % AddrSpace = a
  <2>1. (AddrSpace * 0 + a) % AddrSpace = a
    BY <1>1, ModUnique
  <2>2. AddrSpace * 0 + a = a
    BY <1>1
  <2> QED BY <2>1, <2>2, Zenon
<1>3. Advance(a, i, 0) = a /\ Advance(a, FALSE, k) = a
  <2>1. a + (IF i THEN 0 ELSE 0) = a /\ a + 0 = a
    BY <1>1
  <2> QED BY <1>2, <2>1 DEF Advance
<1>4. Advance(a, i, k) \in Addr
  <2>1. a + (IF i THEN k ELSE 0) \in Nat
    BY <1>1
  <2> QED BY <1>1, <2>1, ModRange DEF Advance
<1>5. Advance(Advance(a, i, k), i, 1) = Advance(a, i, k + 1)
  <2>1. CASE i
    <3>1. (1 * ((a + k) % AddrSpace) + 1) % AddrSpace = (1 * (a + k) + 1) % AddrSpace
      <4>1. AddrSpace \in Nat \ {0} /\ 1 \in Nat /\ a + k \in Nat
        BY <1>1
      <4> QED BY <4>1, ModEarly, Zenon
    <3>2. (a + k) % AddrSpace \in Nat
      BY <1>1, ModRange
    <3>3. 1 * ((a + k) % AddrSpace) = (a + k) % AddrSpace /\ 1 * (a + k) + 1 = a + (k + 1)
      BY <1>1, <3>2
    <3>4. (((a + k) % AddrSpace) + 1) % AddrSpace = (a + (k + 1)) % AddrSpace
      BY <3>1, <3>3, Zenon
    <3> QED BY <2>1, <3>4, Zenon DEF Advance
  <2>2. CASE ~i
    <3>1. i = FALSE
      BY <2>2
    <3>2. Advance(a, FALSE, k) = a /\ Advance(a, FALSE, k + 1) = a /\ Advance(a, FALSE, 1) = a
      BY <1>1, <1>2 DEF Advance
    <3> QED BY <3>1, <3>2, Zenon
  <2> QED BY <2>1, <2>2
<1> QED BY <1>3, <1>4, <1>5

\* The word that confirms an address, and what the host makes of it.
LEMMA AddressWords ==
    ASSUME NEW a \in Addr, NEW i \in BOOLEAN, NEW v, v = 4 * a + (IF i THEN 0 ELSE 1)
    PROVE  /\ v \in Word /\ v \div 4 = a /\ (v % 2 = 0) = i
           /\ \A w \in Nat : w <= v => w \in Word /\ w \div 4 \in Addr
<1>1. AddrSpace \in Nat \ {0} /\ a \in Nat /\ a < AddrSpace /\ Addr = 0 .. AddrSpace - 1
      /\ WordLen \in Nat /\ 4 * AddrSpace <= Power[WordLen] /\ Power[WordLen] \in Nat
  <2>1. WordLen \in 0 .. WordLen
    BY Sizes
  <2> QED BY <2>1, Sizes DEF Addr
<1> HIDE DEF Addr
<1>2. v \in Nat /\ v < 4 * AddrSpace /\ Word = 0 .. Power[WordLen] - 1
  BY <1>1 DEF Word
<1>3. v \div 4 = a
  BY <1>1
<1>4. (v % 2 = 0) = i
  <2>1. CASE i
    <3>1. v = 4 * a
      BY <1>1, <2>1
    <3>2. v % 2 = 0
      BY <1>1, <3>1
    <3> QED BY <2>1, <3>2
  <2>2. CASE ~i
    <3>1. v = 4 * a + 1
      BY <2>2
    <3>2. v % 2 = 1
      BY <1>1, <3>1
    <3> QED BY <2>2, <3>2
  <2> QED BY <2>1, <2>2
<1>5. ASSUME NEW w \in Nat, w <= v PROVE w \in Word /\ w \div 4 \in Addr
  <2>1. w < 4 * AddrSpace
    BY <1>1, <1>2, <1>5
  <2>2. w \div 4 \in Nat /\ w \div 4 < AddrSpace
    BY <1>1, <2>1
  <2>3. w \in Word
    BY <1>1, <1>2, <2>1
  <2> QED BY <1>1, <2>2, <2>3
<1>6. v \in Word
  BY <1>1, <1>2
<1> QED BY <1>3, <1>4, <1>5, <1>6

LEMMA WordsAndDigits ==
    /\ Word \subseteq Nat /\ 0 \in Word
    /\ \A v \in Word : Digits(v) \in Seq(Digit) /\ Len(Digits(v)) = WordLen
    /\ \A w \in Nat, d \in Digit : (Base * w + Worth(d)) % Power[WordLen] \in Word
<1>1. WordLen \in 0 .. WordLen /\ Power[WordLen] \in Nat \ {0}
  <2>1. WordLen \in 0 .. WordLen
    BY Sizes
  <2> QED BY <2>1, Sizes
<1>2. Word = 0 .. Power[WordLen] - 1 /\ Word \subseteq Nat /\ 0 \in Word
  BY <1>1 DEF Word
<1>3. ASSUME NEW v \in Word PROVE Digits(v) \in Seq(Digit) /\ Len(Digits(v)) = WordLen
  <2>1. \A i \in 1 .. WordLen : Digits(v)[i] \in Digit
    BY DigitsOf
  <2>2. Digits(v) = [i \in 1 .. WordLen |-> Digits(v)[i]]
    BY DEF Digits
  <2>3. Digits(v) \in [1 .. WordLen -> Digit]
    BY <2>1, <2>2, Zenon
  <2> QED BY <2>3, Sizes
<1>4. ASSUME NEW w \in Nat, NEW d \in Digit
      PROVE  (Base * w + Worth(d)) % Power[WordLen] \in Word
  <2>1. Worth(d) \in 0 .. Base - 1 /\ Base \in Nat
    BY WorthType, Sizes
  <2>2. Base * w + Worth(d) \in Nat
    BY <2>1
  <2> QED BY <1>1, <1>2, <2>2, ModRange
<1> QED BY <1>2, <1>3, <1>4

-----------------------------------------------------------------------------
(* The characters that readword and readidle read.                            *)

\* What becomes of the word that ends.
Noted ==
    /\ m_nacks' = m_nacks + (IF Cur = "K" THEN 1 ELSE 0)
    /\ m_interrupt_flag' = (m_interrupt_flag \/ Cur = "I")
    /\ Cur = "A" => m_inc' = (word % 2 = 0) /\ m_lastaddr' = word \div 4
    /\ Cur \in {"R", "K"} => m_lastaddr' = NextAddress /\ m_inc' = m_inc
    /\ Cur \notin {"A", "R", "K"} => m_lastaddr' = m_lastaddr /\ m_inc' = m_inc
    /\ m_addr_set' \in BOOLEAN

LEMMA NotedIs == ASSUME Types, Note, AddrSet PROVE Noted
<1>1. \A l \in Letter : (~m_isspace /\ m_cmd = l) <=> Cur = l
  BY Letters DEF Types, Cur
<1>2. (~m_isspace /\ m_cmd = "K") <=> Cur = "K"
  BY <1>1 DEF Letter
<1>3. (~m_isspace /\ m_cmd = "A") <=> Cur = "A"
  BY <1>1 DEF Letter
<1>4. (~m_isspace /\ m_cmd = "R") <=> Cur = "R"
  BY <1>1 DEF Letter
<1>5. (~m_isspace /\ m_cmd = "I") <=> Cur = "I"
  BY <1>1 DEF Letter
<1>6. m_nacks' = m_nacks + (IF Cur = "K" THEN 1 ELSE 0)
  BY <1>2 DEF Note, Acks
<1>7. m_interrupt_flag' = (m_interrupt_flag \/ Cur = "I")
  BY <1>5, Zenon DEF Note
<1>8. Cur = "A" => m_inc' = (word % 2 = 0) /\ m_lastaddr' = word \div 4
  BY <1>3, Zenon DEF Note
<1>9. Cur \in {"R", "K"} => m_lastaddr' = NextAddress /\ m_inc' = m_inc
  BY <1>2, <1>4, Zenon DEF Note
<1>10. Cur \notin {"A", "R", "K"} => m_lastaddr' = m_lastaddr /\ m_inc' = m_inc
  BY <1>2, <1>3, <1>4, Zenon DEF Note
<1>11. m_addr_set' \in BOOLEAN
  BY DEF Types, AddrSet
<1> QED BY <1>6, <1>7, <1>8, <1>9, <1>10, <1>11 DEF Noted

LEMMA LineTaken ==
    ASSUME Types, line # <<>>, line' = Tail(line), wire' = wire
    PROVE  Stream # <<>> /\ Stream[1] = Head(line) /\ Stream' = Tail(Stream)
           /\ Head(line) \in Letter \cup Digit \cup Newline
<1>1. wire \in Seq(Letter \cup Digit \cup Newline) /\ line \in Seq(Letter \cup Digit \cup Newline)
  BY DEF Types
<1>2. Stream' = Tail(line) \o wire
  BY DEF Stream
<1>3. Stream # <<>> /\ Stream[1] = Head(line) /\ Tail(Stream) = Tail(line) \o wire
  BY <1>1, TailJoin DEF Stream
<1>4. Head(line) \in Letter \cup Digit \cup Newline
  BY <1>1, HeadTailProperties
<1> QED BY <1>2, <1>3, <1>4

\* The next character is one more digit of a word that has some, or it ends the word.
LEMMA NextCharacter ==
    ASSUME Types, Grammar(Ahead), Stream # <<>>
    PROVE  /\ Ahead[2] = Stream[1] /\ Len(Ahead) >= 2
           /\ Stream[1] \in Digit => Cur \in {"A", "R", "K"} /\ ~m_isspace /\ Cur = m_cmd
<1>1. Stream \in Seq(Char) /\ Len(Ahead) = Len(Stream) + 1 /\ Len(Stream) \in Nat
      /\ Cur \notin Digit /\ Ahead[1] = Cur /\ \A i \in 1 .. Len(Stream) : Ahead[i + 1] = Stream[i]
  BY Characters
<1>2. Len(Stream) >= 1
  BY <1>1, EmptySeq
<1>3. Ahead[2] = Stream[1] /\ Len(Ahead) >= 2
  <2>1. 1 \in 1 .. Len(Stream) /\ 1 + 1 = 2
    BY <1>1, <1>2
  <2> QED BY <1>1, <1>2, <2>1
<1>4. ASSUME Stream[1] \in Digit PROVE Cur \in {"A", "R", "K"}
  <2>1. 2 \in 2 .. Len(Ahead) /\ 2 - 1 = 1
    BY <1>1, <1>3
  <2>2. Ahead[1] \in Digit \cup {"A", "R", "K"}
    BY <1>3, <1>4, <2>1 DEF Grammar
  <2> QED BY <1>1, <2>2
<1>5. Cur \in {"A", "R", "K"} => ~m_isspace /\ Cur = m_cmd
  BY DEF Cur
<1> QED BY <1>3, <1>4, <1>5

LEMMA DigitAccumulated ==
    ASSUME Types, Grammar(Ahead), line # <<>>, line' = Tail(line), wire' = wire,
           Accumulate(Head(line)), m_isspace' \in {m_isspace, FALSE}
    PROVE  /\ TakeDigit /\ m_isspace' = m_isspace
           /\ UNCHANGED <<m_cmd, addr_vars, m_nacks, flags>>
<1>1. Stream # <<>> /\ Stream[1] = Head(line) /\ Stream' = Tail(Stream)
  BY LineTaken
<1>2. Stream[1] \in Digit /\ word' = (Base * word + Worth(Stream[1])) % Power[WordLen]
      /\ UNCHANGED <<m_cmd, addr_vars, m_nacks, flags>>
  BY <1>1, Zenon DEF Accumulate
<1>3. ~m_isspace
  BY <1>1, <1>2, NextCharacter
<1>4. m_isspace' = m_isspace
  BY <1>3 DEF Types
<1>5. Cur' = Cur
  BY <1>2, <1>4 DEF Cur
<1> QED BY <1>1, <1>2, <1>4, <1>5, Zenon DEF TakeDigit

LEMMA WordEnded ==
    ASSUME Types, line # <<>>, line' = Tail(line), wire' = wire, Ends(Head(line)),
           \/ StartWord(Head(line))
           \/ m_isspace /\ Head(line) \in Newline /\ UNCHANGED <<m_cmd, m_isspace, word>>
    PROVE  TakeEnd
<1>1. Stream # <<>> /\ Stream[1] = Head(line) /\ Stream' = Tail(Stream)
      /\ Head(line) \in Letter \cup Digit \cup Newline /\ Stream[1] \notin Digit
  BY LineTaken DEF Ends
<1>2. Newline = {"NL"} /\ "NL" \notin Letter
  BY Letters DEF Newline
<1>3. Cur' = Stream[1]
  BY <1>1, <1>2 DEF StartWord, Cur, Types
<1>4. Stream[1] \in Letter => word' = 0
  BY <1>1, <1>2 DEF StartWord
<1> QED BY <1>1, <1>3, <1>4 DEF TakeEnd

\* Of a readword: the answer is asked for, or on its way; the idle words do not end it.
LEMMA Waiting ==
    ASSUME Types, ReadOK
    PROVE  /\ abort_countdown \in 1 .. AbortCountdown /\ (Cur = "Z" => abort_countdown > 1)
           /\ OnlyConfirms(Ahead, word, Len(Ahead) + 1, n = 0, AddrWord)
              \/ \E q \in 1 .. Len(Ahead) : Answered(q)
           /\ Cur # "K"
<1>1. Len(Ahead) \in Nat /\ Len(Ahead) >= 1 /\ Ahead[1] = Cur
  BY Characters
<1>2. CASE Asking \/ Asked
  <2>1. OnlyConfirms(Ahead, word, Len(Ahead) + 1, n = 0, AddrWord)
    BY <1>2 DEF Asking, Asked, OnlyConfirms
  <2>2. FewZs(Ahead, Len(Ahead) + 1, abort_countdown)
    BY <1>2 DEF Asking, Asked
  <2>3. 1 \in 1 .. Len(Ahead) /\ 1 < Len(Ahead) + 1 /\ 1 # Len(Ahead) + 1
    BY <1>1
  <2>4. Cur # "K"
    BY <1>1, <2>1, <2>3 DEF OnlyConfirms, Answer
  <2> QED BY <1>1, <2>1, <2>2, <2>3, <2>4 DEF FewZs
<1>3. ASSUME NEW q \in 1 .. Len(Ahead), Answered(q)
      PROVE  /\ abort_countdown \in 1 .. AbortCountdown /\ (Cur = "Z" => abort_countdown > 1)
             /\ Cur # "K"
  <2>1. Ahead[q] \in {"R", "E"} /\ FewZs(Ahead, q, abort_countdown)
        /\ OnlyConfirms(Ahead, word, q, n = 0, AddrWord)
    BY <1>3 DEF Answered
  <2>2. CASE q = 1
    BY <1>1, <2>1, <2>2 DEF FewZs
  <2>3. CASE q # 1
    <3>1. 1 \in 1 .. Len(Ahead) /\ 1 < q
      BY <1>1, <2>3
    <3>2. Cur # "K"
      BY <1>1, <2>1, <2>3, <3>1 DEF OnlyConfirms, Answer
    <3> QED BY <1>1, <2>1, <3>1, <3>2 DEF FewZs
  <2> QED BY <2>2, <2>3
<1> QED BY <1>2, <1>3 DEF ReadOK

LEMMA ReadTaken ==
    ASSUME Types, Grammar(Ahead), Phase, ReadWord
    PROVE  /\ pc = "readword" /\ ReadOK /\ line # <<>> /\ line' = Tail(line)
           /\ UNCHANGED <<call, port_vars, usage, shadow, erred, cleared>>
           /\ \/ /\ TakeDigit
                 /\ UNCHANGED <<m_isspace, m_cmd, addr_vars, m_nacks, flags, pc, outcome,
                                abort_countdown, n, buf, sent>>
              \/ /\ TakeEnd /\ Noted /\ m_cmd' \in Letter \cup {"NUL"}
                 /\ m_isspace' \in BOOLEAN /\ word' \in {0, word} /\ m_bus_err' \in BOOLEAN
                 /\ \/ Cur = "R" /\ GotWord
                    \/ Cur = "E" /\ Throw /\ UNCHANGED <<abort_countdown, n, buf, sent>>
                    \/ /\ Cur \notin {"R", "E"}
                       /\ abort_countdown' = abort_countdown - (IF Cur = "Z" THEN 1 ELSE 0)
                       /\ UNCHANGED <<pc, outcome, n, buf, sent>>
<1>1. pc = "readword" /\ line # <<>> /\ line' = Tail(line) /\ ReadOK
      /\ UNCHANGED <<call, port_vars, usage, shadow, erred, cleared>>
  BY DEF ReadWord, Phase
<1>2. wire' = wire
  BY <1>1 DEF port_vars
<1>3. CASE Accumulate(Head(line)) /\ m_isspace' = FALSE
           /\ UNCHANGED <<pc, outcome, abort_countdown, n, buf, sent>>
  BY <1>1, <1>2, <1>3, DigitAccumulated
<1>4. CASE ~(Accumulate(Head(line)) /\ m_isspace' = FALSE
             /\ UNCHANGED <<pc, outcome, abort_countdown, n, buf, sent>>)
  <2> DEFINE kind == IF m_isspace THEN "none" ELSE m_cmd
  <2>1. /\ Ends(Head(line)) /\ Note /\ AddrSet
        /\ m_bus_err' = (m_bus_err \/ kind = "E")
        /\ \/ kind = "Z" /\ abort_countdown = 1 /\ UNCHANGED <<m_cmd, m_isspace, word>>
           \/ ~(kind = "Z" /\ abort_countdown = 1) /\ StartWord(Head(line))
        /\ \/ kind = "R" /\ GotWord
           \/ /\ kind = "E" /\ Throw
              /\ UNCHANGED <<abort_countdown, n, buf, sent>>
           \/ /\ kind = "Z"
              /\ abort_countdown' = abort_countdown - 1
              /\ \/ abort_countdown = 1 /\ Throw
                 \/ abort_countdown > 1 /\ UNCHANGED <<pc, outcome>>
              /\ UNCHANGED <<n, buf, sent>>
           \/ /\ kind \notin {"R", "E", "Z"}
              /\ UNCHANGED <<pc, outcome, abort_countdown, n, buf, sent>>
    BY <1>4, Zenon DEF ReadWord
  <2>2. \A l \in Letter : kind = l <=> Cur = l
    BY Letters DEF Types, Cur, Letter
  <2>3. (kind = "R" <=> Cur = "R") /\ (kind = "E" <=> Cur = "E") /\ (kind = "Z" <=> Cur = "Z")
    BY <2>2 DEF Letter
  <2>4. abort_countdown \in 1 .. AbortCountdown /\ (Cur = "Z" => abort_countdown > 1)
    BY <1>1, Waiting
  <2>5. ~(kind = "Z" /\ abort_countdown = 1)
    BY <2>3, <2>4
  <2> HIDE DEF kind
  <2>6. StartWord(Head(line))
    BY <2>1, <2>5, Zenon
  <2>7. TakeEnd
    BY <1>1, <1>2, <2>1, <2>6, WordEnded
  <2>8. Noted
    BY <2>1, NotedIs
  <2>9. m_bus_err' \in BOOLEAN
    BY <2>1, Zenon
  <2>10. m_cmd' \in Letter \cup {"NUL"} /\ m_isspace' \in BOOLEAN /\ word' = 0
    <3>1. Head(line) \in Letter \cup Newline
      BY <1>1, <1>2, <2>1, LineTaken DEF Ends
    <3>2. m_cmd' \in Letter \cup {"NUL"}
      BY <2>6, <3>1 DEF StartWord, Types
    <3>3. m_isspace' \in BOOLEAN
      BY <2>6 DEF StartWord
    <3>4. word' = 0
      BY <2>6 DEF StartWord
    <3> QED BY <3>2, <3>3, <3>4
  <2>11. CASE kind = "R" /\ GotWord
    BY <1>1, <2>3, <2>7, <2>8, <2>9, <2>10, <2>11
  <2>12. CASE kind = "E" /\ Throw /\ UNCHANGED <<abort_countdown, n, buf, sent>>
    BY <1>1, <2>3, <2>7, <2>8, <2>9, <2>10, <2>12
  <2>13. CASE kind = "Z" /\ abort_countdown' = abort_countdown - 1
              /\ UNCHANGED <<n, buf, sent, pc, outcome>>
    BY <1>1, <2>3, <2>7, <2>8, <2>9, <2>10, <2>13
  <2>14. CASE kind \notin {"R", "E", "Z"}
              /\ UNCHANGED <<pc, outcome, abort_countdown, n, buf, sent>>
    <3>1. Cur \notin {"R", "E", "Z"}
      BY <2>3, <2>14
    <3>2. abort_countdown' = abort_countdown - (IF Cur = "Z" THEN 1 ELSE 0)
      BY <2>4, <2>14, <3>1
    <3> QED BY <1>1, <2>7, <2>8, <2>9, <2>10, <2>14, <3>1, <3>2
  <2> QED BY <2>1, <2>5, <2>3, <2>4, <2>11, <2>12, <2>13, <2>14
<1> QED BY <1>3, <1>4

LEMMA IdleTaken ==
    ASSUME Types, Grammar(Ahead), Phase, ReadIdle
    PROVE  /\ pc = "readidle" /\ WriteOK /\ line # <<>> /\ line' = Tail(line)
           /\ UNCHANGED <<abort_countdown, call, n, buf, sent, port_vars, usage, shadow, erred, cleared>>
           /\ UNCHANGED <<pc, outcome>>
           /\ \/ TakeDigit /\ UNCHANGED <<m_cmd, m_isspace, addr_vars, m_nacks, flags>>
              \/ /\ TakeEnd /\ Noted /\ m_cmd' \in Letter \cup {"NUL"}
                 /\ m_isspace' \in BOOLEAN /\ word' \in {0, word} /\ m_bus_err' \in BOOLEAN
<1>1. pc = "readidle" /\ line # <<>> /\ line' = Tail(line) /\ WriteOK
      /\ UNCHANGED <<abort_countdown, call, n, buf, sent, port_vars, usage, shadow, erred, cleared>>
  BY DEF ReadIdle, Phase
<1>2. wire' = wire
  BY <1>1 DEF port_vars
<1>3. CASE Accumulate(Head(line)) /\ UNCHANGED <<m_isspace, pc, outcome>>
  BY <1>1, <1>2, <1>3, DigitAccumulated
<1>4. CASE ~(Accumulate(Head(line)) /\ UNCHANGED <<m_isspace, pc, outcome>>)
  <2>1. ~ReadIdleError
    <3>1. Ahead[1] = Cur /\ 1 \in 1 .. Len(Ahead)
      BY Characters
    <3>2. Cur # "E"
      BY <1>1, <3>1 DEF WriteOK, Opening, Written, Answer
    <3> QED BY <3>2 DEF ReadIdleError, Cur
  <2>2. /\ Ends(Head(line)) /\ Note /\ AddrSet
        /\ m_bus_err' = IF ~m_isspace /\ m_cmd = "T" THEN FALSE ELSE m_bus_err
        /\ \/ m_isspace /\ Head(line) \in Newline /\ UNCHANGED <<m_cmd, m_isspace, word>>
           \/ ~(m_isspace /\ Head(line) \in Newline) /\ StartWord(Head(line))
        /\ UNCHANGED <<pc, outcome>>
    BY <1>4, <2>1, Zenon DEF ReadIdle
  <2>3. TakeEnd
    BY <1>1, <1>2, <2>2, WordEnded
  <2>4. Noted
    BY <2>2, NotedIs
  <2>5. m_bus_err' \in BOOLEAN
    BY <2>2 DEF Types
  <2>6. m_cmd' \in Letter \cup {"NUL"} /\ m_isspace' \in BOOLEAN /\ word' \in {0, word}
    <3>1. Head(line) \in Letter \cup Newline
      BY <1>1, <1>2, <2>2, LineTaken DEF Ends
    <3>2. CASE StartWord(Head(line))
      <4>1. m_cmd' \in Letter \cup {"NUL"}
        BY <3>1, <3>2 DEF StartWord, Types
      <4>2. m_isspace' \in BOOLEAN
        BY <3>2 DEF StartWord
      <4>3. word' = 0
        BY <3>2 DEF StartWord
      <4> QED BY <4>1, <4>2, <4>3
    <3>3. CASE UNCHANGED <<m_cmd, m_isspace, word>>
      BY <3>3 DEF Types
    <3> QED BY <2>2, <3>2, <3>3
  <2> QED BY <1>1, <2>2, <2>3, <2>4, <2>5, <2>6
<1> QED BY <1>3, <1>4

-----------------------------------------------------------------------------
(* Every step keeps the types.                                                *)

LEMMA Single == ASSUME NEW S, NEW x \in S PROVE <<x>> \in Seq(S)
OBVIOUS

LEMMA ServeTypes ==
    ASSUME Types, Serve
    PROVE  Types'
<1> DEFINE cmd == Head(sent)
<1> DEFINE C == Letter \cup Digit \cup Newline
<1>1. cmd \in CommandWord /\ Tail(sent) \in Seq(CommandWord)
  BY HeadTailProperties DEF Types, Serve
<1>2. sent' \in Seq(CommandWord)
  BY <1>1 DEF Serve
<1>3. dev_addr \in Addr /\ dev_inc \in BOOLEAN /\ mem \in [Mapped -> Word] /\ wire \in Seq(C)
      /\ erred \in BOOLEAN
  BY DEF Types
<1>4. Advance(dev_addr, dev_inc, 1) \in Addr
  BY <1>3, Advances
<1>5. cmd.sub \in {"ADDR", "WR", "RD"} /\ cmd.inc \in BOOLEAN /\ cmd.word \in Word \cup Addr
      /\ (cmd.sub = "ADDR" => cmd.word \in Addr) /\ (cmd.sub # "ADDR" => cmd.word \in Word)
  BY <1>1 DEF CommandWord
<1>6. /\ sent' = Tail(sent)
      /\ dev_addr' = IF cmd.sub = "ADDR" THEN cmd.word ELSE Advance(dev_addr, dev_inc, 1)
      /\ dev_inc' = IF cmd.sub = "ADDR" THEN cmd.inc ELSE dev_inc
      /\ mem' = IF cmd.sub = "WR" /\ dev_addr \in Mapped THEN [mem EXCEPT ![dev_addr] = cmd.word] ELSE mem
      /\ erred' = (erred \/ (cmd.sub # "ADDR" /\ ~(dev_addr \in Mapped)))
      /\ wire' = wire \o
                CASE cmd.sub = "ADDR" ->
                        <<"A">> \o Digits(4 * cmd.word + (IF cmd.inc THEN 0 ELSE 1))
                  [] cmd.sub # "ADDR" /\ ~(dev_addr \in Mapped) -> <<"E">>
                  [] cmd.sub = "WR" /\ dev_addr \in Mapped -> <<"K">> \o Digits(0)
                  [] cmd.sub = "RD" /\ dev_addr \in Mapped -> <<"R">> \o Digits(mem[dev_addr])
      /\ last_cr' = FALSE
      /\ UNCHANGED <<host_vars, line, ints, usage, shadow, cleared>>
  BY DEF Serve
<1> HIDE DEF cmd, C
<1>7. dev_addr' \in Addr /\ dev_inc' \in BOOLEAN /\ erred' \in BOOLEAN
  BY <1>3, <1>4, <1>5, <1>6
<1>8. mem' \in [Mapped -> Word]
  BY <1>3, <1>5, <1>6
<1>9. ASSUME NEW v \in Word, NEW c \in Letter PROVE <<c>> \o Digits(v) \in Seq(C)
  <2>1. Digits(v) \in Seq(C)
    <3>1. Digits(v) \in Seq(Digit) /\ Digit \subseteq C
      BY WordsAndDigits DEF C
    <3> QED BY <3>1, SeqMonotonic
  <2>2. <<c>> \in Seq(C)
    BY DEF C
  <2> QED BY <2>1, <2>2, ConcatProperties
<1>10. wire' \in Seq(C)
  <2>1. CASE cmd.sub = "ADDR"
    <3>1. 4 * cmd.word + (IF cmd.inc THEN 0 ELSE 1) \in Word
      BY <1>5, <2>1, AddressWords
    <3>2. <<"A">> \o Digits(4 * cmd.word + (IF cmd.inc THEN 0 ELSE 1)) \in Seq(C)
      BY <1>9, <3>1 DEF Letter
    <3>3. wire' = wire \o (<<"A">> \o Digits(4 * cmd.word + (IF cmd.inc THEN 0 ELSE 1)))
      BY <1>6, <2>1
    <3> QED BY <1>3, <3>2, <3>3, ConcatProperties
  <2>2. CASE cmd.sub # "ADDR" /\ dev_addr \notin Mapped
    <3>1. <<"E">> \in Seq(C)
      BY DEF Letter, C
    <3>2. wire' = wire \o <<"E">>
      BY <1>6, <2>2
    <3> QED BY <1>3, <3>1, <3>2, ConcatProperties
  <2>3. CASE cmd.sub = "WR" /\ dev_addr \in Mapped
    <3>1. <<"K">> \o Digits(0) \in Seq(C)
      BY <1>9, WordsAndDigits DEF Letter
    <3>2. wire' = wire \o (<<"K">> \o Digits(0))
      BY <1>6, <2>3
    <3> QED BY <1>3, <3>1, <3>2, ConcatProperties
  <2>4. CASE cmd.sub = "RD" /\ dev_addr \in Mapped
    <3>1. mem[dev_addr] \in Word
      BY <1>3, <2>4
    <3>2. <<"R">> \o Digits(mem[dev_addr]) \in Seq(C)
      BY <1>9, <3>1 DEF Letter
    <3>3. wire' = wire \o (<<"R">> \o Digits(mem[dev_addr]))
      BY <1>6, <2>4
    <3> QED BY <1>3, <3>2, <3>3, ConcatProperties
  <2> QED BY <1>5, <2>1, <2>2, <2>3, <2>4
<1> QED BY <1>2, <1>6, <1>7, <1>8, <1>10 DEF Types, host_vars, addr_vars, flags, Cur, C

LEMMA PortTypes ==
    ASSUME Types, Interrupt \/ EndLine \/ Idle \/ Arrive
    PROVE  Types'
<1> DEFINE C == Letter \cup Digit \cup Newline
<1>1. wire \in Seq(C) /\ line \in Seq(C)
  BY DEF Types
<1>2. "NL" \in C /\ "I" \in C /\ "Z" \in C
  BY DEF Letter, Newline
<1>3. CASE Interrupt
  <2>1. Append(wire, "I") \in Seq(C)
    BY <1>1, <1>2, AppendProperties
  <2>2. ints' \in 0 .. usage.ints /\ cleared \in 0 .. ints'
    <3>1. usage.ints \in Nat
      BY HostAssumption DEF Types
    <3> QED BY <1>3, <3>1 DEF Types, Interrupt
  <2> HIDE DEF C
  <2> QED BY <1>3, <2>1, <2>2 DEF Types, Interrupt, host_vars, addr_vars, flags, C
<1>4. CASE EndLine
  <2>1. wire \o <<"NL">> \in Seq(C)
    BY <1>1, <1>2, ConcatProperties
  <2> HIDE DEF C
  <2> QED BY <1>4, <2>1 DEF Types, EndLine, host_vars, addr_vars, flags, C
<1>5. CASE Idle
  <2>1. <<"Z">> \in Seq(C)
    BY <1>2
  <2> HIDE DEF C
  <2> QED BY <1>5, <2>1 DEF Types, Idle, host_vars, addr_vars, flags, C
<1>6. CASE Arrive
  <2>1. Head(wire) \in C /\ Tail(wire) \in Seq(C)
    BY <1>1, <1>6, HeadTailProperties DEF Arrive
  <2>2. Append(line, Head(wire)) \in Seq(C) /\ line \o wire \in Seq(C) /\ <<>> \in Seq(C)
    BY <1>1, <2>1, AppendProperties, ConcatProperties
  <2> HIDE DEF C
  <2>3. line' \in Seq(C) /\ wire' \in Seq(C)
    BY <1>6, <2>1, <2>2 DEF Arrive
  <2> QED BY <1>6, <2>3 DEF Types, Arrive, host_vars, addr_vars, flags, C
<1> QED BY <1>3, <1>4, <1>5, <1>6

LEMMA CallTypes ==
    ASSUME Types, Writes \/ Reads
    PROVE  Types'
<1>1. ASSUME NEW a \in Addr, NEW inc \in BOOLEAN, NEW w \in Word, NEW sub \in {"WR", "RD"}
      PROVE  sent \o AddressCommand(a, inc) \o <<Cmd(sub, w, FALSE)>> \in Seq(CommandWord)
  <2>1. Cmd("ADDR", a, inc) \in CommandWord /\ Cmd(sub, w, FALSE) \in CommandWord
    BY DEF Cmd, CommandWord
  <2>2. AddressCommand(a, inc) \in Seq(CommandWord) /\ <<Cmd(sub, w, FALSE)>> \in Seq(CommandWord)
    <3> HIDE DEF CommandWord
    <3>1. <<Cmd("ADDR", a, inc)>> \in Seq(CommandWord) /\ <<Cmd(sub, w, FALSE)>> \in Seq(CommandWord)
          /\ <<>> \in Seq(CommandWord)
      BY <2>1, Single, EmptySeq
    <3> QED BY <3>1, Zenon DEF AddressCommand
  <2>3. sent \in Seq(CommandWord)
    BY DEF Types
  <2> QED BY <2>2, <2>3, ConcatProperties
<1>2. usage.writes \subseteq BOOLEAN /\ usage.reads \subseteq BOOLEAN
  BY HostAssumption DEF Types
<1>3. MaxLen \in Nat \ {0} /\ 0 \in Word /\ Values \subseteq Word
  BY HostAssumption, WordsAndDigits
<1>4. ASSUME NEW io \in BOOLEAN, NEW a \in Addr, NEW inc \in usage.writes, NEW vals \in Lists(Values),
             CallWrite(io, a, inc, vals)
      PROVE  Types'
  <2>1. PICK k \in 1 .. MaxLen : vals \in [1 .. k -> Values]
    BY DEF Lists
  <2>2. vals \in Seq(Word) /\ Len(vals) = k /\ k <= MaxLen /\ vals[1] \in Word
    BY <1>3, <2>1
  <2>3. sent' \in Seq(CommandWord)
    BY <1>1, <1>2, <1>4, <2>2 DEF CallWrite
  <2>4. call' = [op |-> IF io THEN "writeio" ELSE "writev", a |-> a, inc |-> inc, vals |-> vals]
        /\ m_lastaddr' = a
    BY <1>4 DEF CallWrite, Begin
  <2>5. call' \in Call /\ Len(call'.vals) <= MaxLen
    BY <1>2, <2>2, <2>4 DEF Call
  <2>6. /\ n' = 0 /\ m_nacks' = 0 /\ buf' = <<>> /\ outcome' = "none" /\ erred' = FALSE
        /\ m_addr_set' = TRUE /\ pc' = "acks"
        /\ UNCHANGED <<m_cmd, m_isspace, m_inc, m_interrupt_flag, m_bus_err, word, abort_countdown,
                       dev_addr, dev_inc, mem, last_cr, wire, ints, line, usage, shadow, cleared>>
    BY <1>4 DEF CallWrite, Begin, flags, port_vars
  <2>7. n' \in 0 .. MaxLen /\ m_nacks' \in 0 .. MaxLen /\ buf' \in Seq(Word)
    BY <1>3, <2>6
  <2>8. pc' \in Where /\ outcome' \in {"none", "ok", "buserr", "exit"}
    BY <2>6 DEF Where
  <2> QED BY <2>3, <2>4, <2>5, <2>6, <2>7, <2>8, Zenon DEF Types
<1>5. ASSUME NEW a \in Addr, NEW inc \in usage.reads, NEW len \in 1 .. MaxLen, CallRead(a, inc, len)
      PROVE  Types'
  <2> DEFINE vals == [i \in 1 .. len |-> 0]
  <2>1. vals \in Seq(Word) /\ Len(vals) = len /\ len <= MaxLen
    BY <1>3
  <2>2. sent' \in Seq(CommandWord)
    BY <1>1, <1>2, <1>3, <1>5 DEF CallRead
  <2>3. call' = [op |-> "readv", a |-> a, inc |-> inc, vals |-> vals] /\ m_lastaddr' = a
    BY <1>5 DEF CallRead, Begin
  <2> HIDE DEF vals
  <2>4. call' \in Call /\ Len(call'.vals) <= MaxLen
    BY <1>2, <2>1, <2>3 DEF Call
  <2>5. /\ n' = 0 /\ buf' = <<>> /\ outcome' = "none" /\ erred' = FALSE
        /\ m_addr_set' = TRUE /\ pc' = "readword" /\ m_inc' = inc /\ word' = 0
        /\ abort_countdown' = AbortCountdown
        /\ UNCHANGED <<m_cmd, m_isspace, m_nacks, m_interrupt_flag, m_bus_err,
                       dev_addr, dev_inc, mem, last_cr, wire, ints, line, usage, shadow, cleared>>
    BY <1>5 DEF CallRead, Begin, flags, port_vars
  <2>6. n' \in 0 .. MaxLen /\ word' \in Word /\ abort_countdown' \in 0 .. AbortCountdown
        /\ buf' \in Seq(Word)
    BY <1>3, <2>5 DEF AbortCountdown
  <2>7. pc' \in Where /\ outcome' \in {"none", "ok", "buserr", "exit"} /\ m_inc' \in BOOLEAN
    BY <1>2, <2>5 DEF Where
  <2> QED BY <2>2, <2>3, <2>4, <2>5, <2>6, <2>7, Zenon DEF Types
<1> QED BY <1>4, <1>5 DEF Writes, Reads

\* The address that the host takes from a word is one, and it does not count more
\* acknowledgements than a call writes words.
LEMMA NotedTypes ==
    ASSUME Types, Grammar(Ahead), ReadOK \/ WriteOK, Stream # <<>>, Stream[1] \notin Digit, Noted
    PROVE  m_lastaddr' \in Addr /\ m_nacks' \in 0 .. MaxLen /\ m_inc' \in BOOLEAN
<1>1. Ahead \in Seq(Char) /\ Ahead[1] = Cur /\ Len(Ahead) >= 2 /\ Ahead[2] \notin Digit
      /\ 1 \in 1 .. Len(Ahead) /\ 1 # Len(Ahead) + 1
  BY Characters, NextCharacter
<1>2. call.a \in Addr /\ call.inc \in BOOLEAN /\ m_lastaddr \in Addr /\ m_inc \in BOOLEAN
      /\ m_nacks \in 0 .. MaxLen /\ word \in Word
  BY DEF Types, Call
<1>3. AddrWord \in Word /\ \A w \in Nat : w <= AddrWord => w \div 4 \in Addr
  BY <1>2, AddressWords DEF AddrWord
<1>4. ASSUME Cur = "A" PROVE word <= AddrWord
  <2>1. CASE ReadOK
    <3>1. OnlyConfirms(Ahead, word, Len(Ahead) + 1, n = 0, AddrWord)
          \/ \E q \in 1 .. Len(Ahead) : Answered(q)
      BY <2>1, Waiting
    <3>2. Holds(Ahead, word, 1, AddrWord, TRUE)
      BY <1>1, <1>4, <3>1 DEF Answered, OnlyConfirms, Answer
    <3> QED BY <1>1, <1>3, <3>2, WordRead
  <2>2. CASE WriteOK
    <3>1. PICK d : Written(d)
      BY <1>1, <1>4, <2>2 DEF WriteOK, Opening, Answer
    <3>2. Holds(Ahead, word, 1, AddrWord, TRUE \in usage.reads)
      BY <1>1, <1>4, <3>1 DEF Written, Confirming
    <3> QED BY <1>1, <1>3, <3>2, WordRead
  <2> QED BY <2>1, <2>2
<1>5. ASSUME Cur = "K" PROVE m_nacks + 1 <= MaxLen
  <2>1. WriteOK
    BY <1>5, Waiting
  <2>2. PICK d \in 0 .. Words : Written(d)
    BY <1>1, <1>5, <2>1 DEF WriteOK, Opening, Answer
  <2>3. Pending("K") = Count(Stream, "K") + 1 /\ Count(Stream, "K") \in Nat
    BY <1>5, PendingIs DEF Letter
  <2>4. Words <= Length /\ Length <= MaxLen /\ Length \in Nat /\ Words \in Nat
    <3>1. Length \in Nat /\ n \in Nat
      BY LenProperties DEF Types, Call, Length
    <3> QED BY <3>1 DEF Words, Types, Length
  <2>5. m_nacks + Pending("K") = d
    BY <2>2 DEF Written
  <2>6. d <= Length /\ d \in Nat
    BY <2>4
  <2>7. m_nacks \in Nat /\ MaxLen \in Nat
    BY <1>2, HostAssumption
  <2> HIDE DEF Length
  <2> QED BY <2>3, <2>4, <2>5, <2>6, <2>7
<1>6. m_lastaddr' \in Addr
  <2>1. CASE Cur = "A"
    BY <1>2, <1>3, <1>4, <2>1, WordsAndDigits DEF Noted
  <2>2. CASE Cur \in {"R", "K"}
    <3>1. NextAddress \in Addr
      BY <1>2, Advances DEF NextAddress
    <3> QED BY <2>2, <3>1 DEF Noted
  <2>3. CASE Cur \notin {"A", "R", "K"}
    BY <1>2, <2>3 DEF Noted
  <2> QED BY <2>1, <2>2, <2>3
<1>7. m_nacks' \in 0 .. MaxLen
  <2>1. m_nacks' = m_nacks + (IF Cur = "K" THEN 1 ELSE 0)
    BY DEF Noted
  <2> QED BY <1>2, <1>5, <2>1, HostAssumption
<1>8. m_inc' \in BOOLEAN
  BY <1>2 DEF Noted
<1> QED BY <1>6, <1>7, <1>8

LEMMA ReadWordTypes ==
    ASSUME Types, Grammar(Ahead), Phase, ReadWord
    PROVE  Types'
<1>1. /\ pc = "readword" /\ ReadOK /\ line # <<>> /\ line' = Tail(line)
      /\ UNCHANGED <<call, port_vars, usage, shadow, erred, cleared>>
  BY ReadTaken
<1>2. line' \in Seq(Letter \cup Digit \cup Newline)
  BY <1>1, HeadTailProperties DEF Types
<1>3. word \in Word /\ n \in 0 .. MaxLen /\ sent \in Seq(CommandWord) /\ buf \in Seq(Word)
      /\ abort_countdown \in 1 .. AbortCountdown /\ (Cur = "Z" => abort_countdown > 1)
  BY <1>1, Waiting DEF Types
<1>4. CASE /\ TakeDigit
           /\ UNCHANGED <<m_isspace, m_cmd, addr_vars, m_nacks, flags, pc, outcome,
                          abort_countdown, n, buf, sent>>
  <2>1. word' \in Word
    BY <1>3, <1>4, WordsAndDigits DEF TakeDigit
  <2> QED BY <1>1, <1>2, <1>4, <2>1 DEF Types, addr_vars, flags, port_vars
<1>5. CASE /\ TakeEnd /\ Noted /\ m_cmd' \in Letter \cup {"NUL"}
           /\ m_isspace' \in BOOLEAN /\ word' \in {0, word} /\ m_bus_err' \in BOOLEAN
           /\ \/ Cur = "R" /\ GotWord
              \/ Cur = "E" /\ Throw /\ UNCHANGED <<abort_countdown, n, buf, sent>>
              \/ /\ Cur \notin {"R", "E"}
                 /\ abort_countdown' = abort_countdown - (IF Cur = "Z" THEN 1 ELSE 0)
                 /\ UNCHANGED <<pc, outcome, n, buf, sent>>
  <2>1. m_lastaddr' \in Addr /\ m_nacks' \in 0 .. MaxLen /\ m_inc' \in BOOLEAN
    BY <1>1, <1>5, NotedTypes DEF TakeEnd
  <2>2. word' \in Word
    BY <1>3, <1>5, WordsAndDigits
  <2>3. m_addr_set' \in BOOLEAN /\ m_interrupt_flag' \in BOOLEAN
    BY <1>5 DEF Noted
  <2>4. /\ abort_countdown' \in 0 .. AbortCountdown /\ n' \in 0 .. MaxLen
        /\ buf' \in Seq(Word) /\ sent' \in Seq(CommandWord)
        /\ pc' \in Where /\ outcome' \in {"none", "ok", "buserr", "exit"}
    <3>1. CASE Cur = "R" /\ GotWord
      <4>1. Append(buf, word) \in Seq(Word)
        BY <1>3, AppendProperties
      <4>2. Cmd("RD", 0, FALSE) \in CommandWord
        BY WordsAndDigits DEF Cmd, CommandWord
      <4>3. Append(sent, Cmd("RD", 0, FALSE)) \in Seq(CommandWord)
        BY <1>3, <4>2, AppendProperties
      <4>4. sent' \in Seq(CommandWord)
        BY <1>3, <3>1, <4>3, Zenon DEF GotWord
      <4>5. n' = n + 1 /\ n < Len(call.vals) /\ Len(call.vals) <= MaxLen /\ Len(call.vals) \in Nat
        BY <1>1, <3>1, LenProperties DEF GotWord, ReadOK, Length, Types, Call
      <4>6. n' \in 0 .. MaxLen
        BY <1>3, <4>5, HostAssumption
      <4>7. pc' \in Where /\ outcome' \in {"none", "ok", "buserr", "exit"}
        BY <3>1 DEF GotWord, ReadReturns, Types, Where
      <4> QED BY <3>1, <4>1, <4>4, <4>6, <4>7 DEF GotWord, AbortCountdown
    <3>2. CASE Cur = "E" /\ Throw /\ UNCHANGED <<abort_countdown, n, buf, sent>>
      BY <3>2 DEF Throw, Types, Where
    <3>3. CASE /\ Cur \notin {"R", "E"}
               /\ abort_countdown' = abort_countdown - (IF Cur = "Z" THEN 1 ELSE 0)
               /\ UNCHANGED <<pc, outcome, n, buf, sent>>
      <4>1. abort_countdown' \in 0 .. AbortCountdown
        BY <1>3, <3>3 DEF AbortCountdown
      <4> QED BY <3>3, <4>1 DEF Types
    <3> QED BY <1>5, <3>1, <3>2, <3>3
  <2> QED BY <1>1, <1>2, <1>5, <2>1, <2>2, <2>3, <2>4 DEF Types, port_vars
<1> QED BY <1>4, <1>5, ReadTaken

LEMMA ReturnsTypes ==
    ASSUME Types, Grammar(Ahead), Phase, Returns
    PROVE  Types'
<1>1. CASE WriteWord
  <2>1. sent \in Seq(CommandWord) /\ call.vals \in Seq(Word) /\ n \in Nat /\ Len(call.vals) \in Nat
    BY LenProperties DEF Types, Call
  <2>2. sent' \in Seq(CommandWord)
    <3>1. CASE n + 1 < Len(call.vals)
      <4>1. n + 2 \in 1 .. Len(call.vals)
        BY <2>1, <3>1
      <4>2. call.vals[n + 2] \in Word
        BY <2>1, <4>1, ElementOfSeq
      <4>3. Cmd("WR", call.vals[n + 2], FALSE) \in CommandWord
        BY <4>2 DEF Cmd, CommandWord
      <4>4. sent' = Append(sent, Cmd("WR", call.vals[n + 2], FALSE))
        BY <1>1, <3>1 DEF WriteWord
      <4> QED BY <2>1, <4>3, <4>4, AppendProperties
    <3>2. CASE ~(n + 1 < Len(call.vals))
      <4>1. sent' = sent
        BY <1>1, <3>2 DEF WriteWord
      <4> QED BY <2>1, <4>1
    <3> QED BY <3>1, <3>2
  <2>3. n' \in 0 .. MaxLen
    <3>1. n' = n + 1 /\ n < Len(call.vals) /\ Len(call.vals) <= MaxLen /\ MaxLen \in Nat
      BY <1>1, HostAssumption DEF WriteWord, Types
    <3> QED BY <2>1, <3>1
  <2> QED BY <1>1, <2>2, <2>3 DEF Types, WriteWord, addr_vars, flags, port_vars
<1>2. CASE WriteReturns
  <2>1. call.a \in Addr /\ call.inc \in BOOLEAN /\ Len(call.vals) \in Nat /\ m_lastaddr \in Addr
        /\ call.vals \in Seq(Word)
    BY LenProperties DEF Types, Call
  <2>2. m_lastaddr' \in Addr
    <3>1. Advance(m_lastaddr, call.inc, Len(call.vals)) \in Addr
      BY <2>1, Advances
    <3> QED BY <1>2, <2>1, <3>1 DEF WriteReturns
  <2>3. m_addr_set' \in BOOLEAN
    BY <1>2 DEF WriteReturns, Types
  <2>4. shadow' \in [Mapped -> Word]
    <3> DEFINE Here(a) == {i \in DOMAIN call.vals : Advance(call.a, call.inc, i - 1) = a}
    <3> DEFINE last(a) == CHOOSE i \in Here(a) : \A j \in Here(a) : j <= i
    <3>1. shadow' = [a \in Mapped |-> IF Here(a) = {} THEN shadow[a] ELSE call.vals[last(a)]]
      BY <1>2 DEF WriteReturns
    <3>2. ASSUME NEW a \in Mapped, Here(a) # {} PROVE call.vals[last(a)] \in Word
      <4> DEFINE H == Here(a)
      <4>1. H \subseteq 1 .. Len(call.vals)
        BY <2>1
      <4>2. \E i \in H : \A j \in H : j <= i
        <5> DEFINE L == {Len(call.vals) - i : i \in H}
        <5>1. L \subseteq Nat /\ L # {}
          <6> HIDE DEF H
          <6>1. \A i \in H : Len(call.vals) - i \in Nat
            BY <2>1, <4>1
          <6>2. H # {}
            BY <3>2 DEF H
          <6> QED BY <6>1, <6>2
        <5> HIDE DEF L
        <5>2. PICK x \in L : \A y \in L : x <= y
          BY <5>1, Least
        <5> USE DEF L
        <5> HIDE DEF H
        <5>3. PICK i \in H : x = Len(call.vals) - i
          OBVIOUS
        <5>4. ASSUME NEW j \in H PROVE j <= i
          <6>1. x <= Len(call.vals) - j
            BY <5>2
          <6> QED BY <2>1, <4>1, <5>3, <6>1
        <5> QED BY <5>3, <5>4
      <4>3. last(a) \in H
        BY <4>2, Zenon
      <4> HIDE DEF H, last
      <4> QED BY <2>1, <4>1, <4>3, ElementOfSeq
    <3> HIDE DEF last, Here
    <3>3. shadow \in [Mapped -> Word]
      BY DEF Types
    <3> QED BY <3>1, <3>2, <3>3
  <2> QED BY <1>2, <2>2, <2>3, <2>4 DEF Types, WriteReturns, flags, port_vars, Where
<1>3. CASE EnterReadIdle
  <2>1. word' \in Word /\ pc' \in Where
    BY <1>3, WordsAndDigits DEF EnterReadIdle, Where
  <2> QED BY <1>3, <2>1 DEF Types, EnterReadIdle, addr_vars, flags, port_vars
<1>4. CASE LeaveReadIdle
  <2>1. pc' \in Where
    BY <1>4 DEF LeaveReadIdle, Where
  <2> QED BY <1>4, <2>1 DEF Types, LeaveReadIdle, addr_vars, flags, port_vars
<1>5. CASE ReadIdle
  <2>1. /\ pc = "readidle" /\ WriteOK /\ line # <<>> /\ line' = Tail(line)
        /\ UNCHANGED <<abort_countdown, call, n, buf, sent, port_vars, usage, shadow, erred, cleared>>
        /\ UNCHANGED <<pc, outcome>>
    BY <1>5, IdleTaken
  <2>2. line' \in Seq(Letter \cup Digit \cup Newline)
    BY <2>1, HeadTailProperties DEF Types
  <2>3. word \in Word
    BY DEF Types
  <2>4. CASE TakeDigit /\ UNCHANGED <<m_cmd, m_isspace, addr_vars, m_nacks, flags>>
    <3>1. word' \in Word
      BY <2>3, <2>4, WordsAndDigits DEF TakeDigit
    <3> QED BY <2>1, <2>2, <2>4, <3>1 DEF Types, addr_vars, flags, port_vars
  <2>5. CASE /\ TakeEnd /\ Noted /\ m_cmd' \in Letter \cup {"NUL"}
             /\ m_isspace' \in BOOLEAN /\ word' \in {0, word} /\ m_bus_err' \in BOOLEAN
    <3>1. m_lastaddr' \in Addr /\ m_nacks' \in 0 .. MaxLen /\ m_inc' \in BOOLEAN
      BY <2>1, <2>5, NotedTypes DEF TakeEnd
    <3>2. word' \in Word
      BY <2>3, <2>5, WordsAndDigits
    <3>3. m_addr_set' \in BOOLEAN /\ m_interrupt_flag' \in BOOLEAN
      BY <2>5 DEF Noted
    <3> QED BY <2>1, <2>2, <2>5, <3>1, <3>2, <3>3 DEF Types, port_vars
  <2> QED BY <1>5, <2>4, <2>5, IdleTaken
<1> QED BY <1>1, <1>2, <1>3, <1>4, <1>5, ReadWordTypes DEF Returns

LEMMA RestTypes ==
    ASSUME Types, Counts, Usleep \/ Clear
    PROVE  Types'
<1>1. CASE Usleep
  <2>1. line \in Seq(Letter \cup Digit \cup Newline) /\ Len(line) \in Nat
    BY LenProperties DEF Types
  <2> DEFINE k == IF Len(line) < 16 THEN Len(line) ELSE 16
  <2>2. k \in 0 .. Len(line)
    BY <2>1
  <2>3. line' = SubSeq(line, k + 1, Len(line)) /\ m_interrupt_flag' = (m_interrupt_flag \/ HasInterrupt(SubSeq(line, 1, k)))
        /\ m_bus_err' = HasError(SubSeq(line, 1, k))
    BY <1>1 DEF Usleep
  <2> HIDE DEF k
  <2>4. line' \in Seq(Letter \cup Digit \cup Newline)
    BY <2>1, <2>2, <2>3, Cut
  <2>5. m_interrupt_flag' \in BOOLEAN
    BY <2>3
  <2>6. m_bus_err' \in BOOLEAN
    BY <2>3 DEF HasError, Types
  <2> QED BY <1>1, <2>4, <2>5, <2>6 DEF Types, Usleep, addr_vars, port_vars
<1>2. CASE Clear
  <2>1. Pending("I") \in Nat /\ Pending("I") <= ints /\ ints \in Nat
    <3>1. Pending("I") \in Nat
      BY PendingIs DEF Letter
    <3> QED BY <3>1 DEF Counts, Types
  <2>2. cleared' = ints - Pending("I") /\ ints' = ints
    BY <1>2 DEF Clear, port_vars
  <2>3. cleared' \in 0 .. ints'
    BY <2>1, <2>2
  <2> QED BY <1>2, <2>3 DEF Types, Clear, addr_vars, port_vars
<1> QED BY <1>1, <1>2

LEMMA StepTypes ==
    ASSUME HInv, [Next]_vars
    PROVE  Types'
<1> USE DEF HInv
<1>1. CASE UNCHANGED vars
  BY <1>1 DEF Types, vars, host_vars, addr_vars, flags, port_vars
<1> QED BY <1>1, ServeTypes, PortTypes, CallTypes, ReturnsTypes, RestTypes DEF Next, Port

-----------------------------------------------------------------------------
(* Interrupts, newlines, idle words and pieces that arrive.                   *)

Quiet(t) ==
    /\ Send(t)
    /\ \A i \in 1 .. Len(t) : t[i] \notin Digit \cup Answer /\ (t[i] = "Z" => sent = <<>>)
    /\ UNCHANGED <<host_vars, sent, dev_addr, dev_inc, mem, usage, shadow, erred, cleared>>

LEMMA OneMore ==
    ASSUME Types, NEW b \in Letter \cup Newline, line' = line, wire' = wire \o <<b>>,
           UNCHANGED host_vars
    PROVE  Send(<<b>>) /\ Len(<<b>>) = 1 /\ <<b>>[1] = b /\ b \notin Digit
<1>1. wire \in Seq(Char) /\ line \in Seq(Char)
  BY Characters
<1>2. b \in Char /\ b \notin Digit
  BY Letters DEF Char, Newline
<1>3. <<b>> \in Seq(Char)
  BY <1>2, Single
<1>4. line \o (wire \o <<b>>) = (line \o wire) \o <<b>>
  <2>1. Regroups(line, wire, <<b>>)
    BY <1>1, <1>3, Grouping
  <2> QED BY <2>1 DEF Regroups
<1>5. Stream' = Stream \o <<b>>
  BY <1>4, Zenon DEF Stream
<1>6. Cur' = Cur
  BY DEF Cur, host_vars
<1> QED BY <1>2, <1>3, <1>5, <1>6 DEF Send

LEMMA Nothing == ASSUME Types, Stay PROVE Send(<<>>)
<1>1. Stream \in Seq(Char)
  BY Characters
<1>2. Stream \o <<>> = Stream
  BY <1>1, ConcatEmptySeq
<1>3. <<>> \in Seq(Char)
  BY EmptySeq
<1> QED BY <1>2, <1>3 DEF Send, Stay

LEMMA ArriveStays == ASSUME Types, Arrive PROVE Stay
<1>1. wire \in Seq(Char) /\ line \in Seq(Char) /\ wire # <<>>
  BY Characters DEF Arrive
<1>2. Append(line, Head(wire)) \o Tail(wire) = line \o wire
  BY <1>1, MoveHead
<1>3. (line \o wire) \o <<>> = line \o wire
  BY <1>1, ConcatEmptySeq, ConcatProperties
<1>4. \/ line' = Append(line, Head(wire)) /\ wire' = Tail(wire)
      \/ line' = line \o wire /\ wire' = <<>>
  BY DEF Arrive
<1>5. Stream' = Stream
  BY <1>2, <1>3, <1>4, Zenon DEF Stream
<1>6. Cur' = Cur
  BY DEF Arrive, Cur, host_vars
<1> QED BY <1>5, <1>6 DEF Stay

LEMMA QuietIs ==
    ASSUME Types, Interrupt \/ EndLine \/ Idle \/ Arrive
    PROVE  \E t : Quiet(t)
<1>1. CASE Interrupt
  <2>1. wire \in Seq(Char)
    BY Characters
  <2>2. wire' = wire \o <<"I">>
    <3>1. Append(wire, "I") = wire \o <<"I">>
      BY <2>1, Letters, AppendIsConcat DEF Letter
    <3> QED BY <1>1, <3>1 DEF Interrupt
  <2>3. Send(<<"I">>) /\ Len(<<"I">>) = 1 /\ <<"I">>[1] = "I" /\ "I" \notin Digit
    BY <1>1, <2>2, OneMore DEF Letter, Interrupt
  <2>4. Quiet(<<"I">>)
    BY <1>1, <2>3 DEF Quiet, Interrupt, Answer
  <2> QED BY <2>4
<1>2. CASE EndLine
  <2>1. Send(<<"NL">>) /\ Len(<<"NL">>) = 1 /\ <<"NL">>[1] = "NL" /\ "NL" \notin Digit
    BY <1>2, OneMore DEF Newline, EndLine
  <2>2. Quiet(<<"NL">>)
    BY <1>2, <2>1 DEF Quiet, EndLine, Answer
  <2> QED BY <2>2
<1>3. CASE Idle
  <2>1. <<>> \o <<"Z">> = <<"Z">>
    OBVIOUS
  <2>2. wire' = wire \o <<"Z">> /\ sent = <<>>
    BY <1>3, <2>1 DEF Idle
  <2>3. Send(<<"Z">>) /\ Len(<<"Z">>) = 1 /\ <<"Z">>[1] = "Z" /\ "Z" \notin Digit
    BY <1>3, <2>2, OneMore DEF Letter, Idle
  <2>4. Quiet(<<"Z">>)
    BY <1>3, <2>2, <2>3 DEF Quiet, Idle, Answer
  <2> QED BY <2>4
<1>4. CASE Arrive
  <2>1. Send(<<>>)
    BY <1>4, ArriveStays, Nothing
  <2>2. Quiet(<<>>)
    BY <1>4, <2>1 DEF Quiet, Arrive
  <2> QED BY <2>2
<1> QED BY <1>1, <1>2, <1>3, <1>4

\* What is ahead of the host after one of them.
LEMMA QuietAhead ==
    ASSUME Types, Types', Grammar(Ahead), NEW t, Quiet(t)
    PROVE  /\ Grown(Ahead, Ahead') /\ Grammar(Ahead') /\ Ahead' \in Seq(Char)
           /\ Len(Ahead) \in Nat /\ Len(Ahead') \in Nat /\ Len(Ahead') >= Len(Ahead)
           /\ \A p \in 1 .. Len(Ahead) : Ahead'[p] = Ahead[p]
           /\ \A p \in Len(Ahead) + 1 .. Len(Ahead') :
                 Ahead'[p] \notin Answer /\ (Ahead'[p] = "Z" => sent = <<>>)
           /\ Pending("K")' = Pending("K")
<1>1. /\ Grown(Ahead, Ahead') /\ Ahead' \in Seq(Char) /\ Len(Ahead') = Len(Ahead) + Len(t)
      /\ \A i \in 1 .. Len(t) : Ahead'[Len(Ahead) + i] = t[i]
      /\ Pending("K")' = Pending("K") + Count(t, "K")
  BY Sent DEF Quiet, Letter
<1>2. Ahead \in Seq(Char) /\ t \in Seq(Char)
  BY Characters DEF Quiet, Send
<1>3. Len(Ahead) \in Nat /\ Len(t) \in Nat /\ Len(Ahead) >= 1
  BY <1>2, LenProperties, Characters
<1>4. ASSUME NEW p \in Len(Ahead) + 1 .. Len(Ahead')
      PROVE  Ahead'[p] \notin Answer \cup Digit /\ (Ahead'[p] = "Z" => sent = <<>>)
  <2>1. p - Len(Ahead) \in 1 .. Len(t) /\ Len(Ahead) + (p - Len(Ahead)) = p
    BY <1>1, <1>3
  <2>2. Ahead'[p] = t[p - Len(Ahead)]
    BY <1>1, <2>1
  <2> QED BY <2>1, <2>2 DEF Quiet
<1>5. \A i \in 1 .. Len(t) : t[i] # "K"
  BY DEF Quiet, Answer
<1>6. Count(t, "K") = 0
  BY <1>2, <1>5, CountType
<1>7. Pending("K") \in Nat
  BY PendingIs DEF Letter
<1>8. Grammar(Ahead')
  <2>1. \A i \in Len(Ahead) + 2 .. Len(Ahead') : Ahead'[i] \notin Digit
    BY <1>1, <1>3, <1>4
  <2> QED BY <1>1, <1>2, <1>3, <2>1, GrammarSent
<1> QED BY <1>1, <1>3, <1>4, <1>6, <1>7, <1>8 DEF Grown

LEMMA QuietPhase ==
    ASSUME Types, Types', Grammar(Ahead), Phase, NEW t, Quiet(t)
    PROVE  Phase'
<1> DEFINE y == Ahead'
<1>1. /\ Grown(Ahead, y) /\ y \in Seq(Char)
      /\ Len(Ahead) \in Nat /\ Len(y) \in Nat /\ Len(y) >= Len(Ahead)
      /\ \A p \in 1 .. Len(Ahead) : y[p] = Ahead[p]
      /\ \A p \in Len(Ahead) + 1 .. Len(y) : y[p] \notin Answer /\ (y[p] = "Z" => sent = <<>>)
      /\ Pending("K")' = Pending("K")
  BY QuietAhead
<1>2. UNCHANGED <<pc, call, n, buf, outcome, m_inc, m_addr_set, m_lastaddr, m_nacks, word,
                  abort_countdown, sent, dev_addr, dev_inc, mem, usage, shadow, erred, cleared>>
  BY DEF Quiet, host_vars, addr_vars
<1>3. Ahead \in Seq(Char) /\ AddrWord \in Word /\ Spot(n) \in Addr
  <2>1. call.a \in Addr /\ call.inc \in BOOLEAN /\ n \in Nat
    BY DEF Types, Call
  <2> QED BY <2>1, Characters, AddressWords, Advances DEF AddrWord, Spot
<1> HIDE DEF y
<1>4. ASSUME \A p \in 1 .. Len(Ahead) : Ahead[p] \notin Answer
      PROVE  \A p \in 1 .. Len(y) : y[p] \notin Answer
  BY <1>1, <1>4
<1>5. ASSUME NEW q \in 1 .. Len(Ahead) + 1, NEW r \in 1 .. Len(y) + 1,
             IF q <= Len(Ahead) THEN r = q ELSE r = Len(y) + 1,
             OnlyConfirms(Ahead, word, q, n = 0, AddrWord)
      PROVE  OnlyConfirms(y, word, r, n = 0, AddrWord)
  <2>1. IF q <= Len(Ahead) THEN r = q ELSE r > Len(Ahead)
    BY <1>1, <1>5
  <2>2. \A p \in Len(Ahead) + 1 .. Len(y) : p # r => y[p] \notin Answer
    BY <1>1
  <2> QED BY <1>1, <1>3, <1>5, <2>1, <2>2, ConfirmsGrown
<1>6. ASSUME sent # <<>>, FewZs(Ahead, Len(Ahead) + 1, abort_countdown)
      PROVE  FewZs(y, Len(y) + 1, abort_countdown)
  <2>1. Len(Ahead) + 1 \in 1 .. Len(Ahead) + 1 /\ Len(y) + 1 \in 1 .. Len(y) + 1
        /\ Len(y) + 1 >= Len(Ahead) + 1 /\ ~(Len(Ahead) + 1 <= Len(Ahead))
    BY <1>1
  <2>2. \A p \in Len(Ahead) + 1 .. Len(y) : p < Len(y) + 1 => y[p] # "Z"
    BY <1>1, <1>6
  <2> QED BY <1>1, <1>3, <1>6, <2>1, <2>2, FewGrown
<1>7. ASSUME NEW q \in 1 .. Len(Ahead), FewZs(Ahead, q, abort_countdown)
      PROVE  FewZs(y, q, abort_countdown)
  <2>1. q \in 1 .. Len(Ahead) + 1 /\ q \in 1 .. Len(y) + 1 /\ q >= q
        /\ \A p \in Len(Ahead) + 1 .. Len(y) : p < q => y[p] # "Z"
    BY <1>1
  <2> QED BY <1>1, <1>3, <1>7, <2>1, FewGrown
<1>8. CASE pc = "idle"
  <2>1. IdleOK
    BY <1>8 DEF Phase
  <2>2. \A p \in 1 .. Len(y) : y[p] \notin Answer
    BY <1>4, <2>1 DEF IdleOK
  <2>3. IdleOK'
    BY <1>2, <2>1, <2>2 DEF IdleOK, ReadSoFar, AddressAgrees, Length, Spot, y
  <2>4. pc' = "idle"
    BY <1>2, <1>8
  <2> QED BY <2>3, <2>4, Zenon DEF Phase
<1>9. CASE pc = "readword"
  <2>1. ReadOK
    BY <1>9 DEF Phase
  <2>2. ASSUME Asking PROVE Asking'
    <3>1. sent # <<>> /\ FewZs(y, Len(y) + 1, abort_countdown) /\ \A p \in 1 .. Len(y) : y[p] \notin Answer
      BY <1>4, <1>6, <2>2 DEF Asking
    <3> QED BY <1>2, <2>2, <3>1 DEF Asking, y
  <2>3. ASSUME Asked PROVE Asked'
    <3>1. sent # <<>> /\ FewZs(y, Len(y) + 1, abort_countdown)
      BY <1>6, <2>3 DEF Asked
    <3>2. OnlyConfirms(y, word, Len(y) + 1, n = 0, AddrWord)
      <4>1. Len(Ahead) + 1 \in 1 .. Len(Ahead) + 1 /\ Len(y) + 1 \in 1 .. Len(y) + 1
            /\ ~(Len(Ahead) + 1 <= Len(Ahead))
        BY <1>1
      <4> QED BY <1>5, <2>3, <4>1 DEF Asked
    <3> QED BY <1>2, <2>3, <3>1, <3>2 DEF Asked, AddrWord, Spot, y
  <2>4. ASSUME NEW q \in 1 .. Len(Ahead), Answered(q)
        PROVE  q \in 1 .. Len(y) /\ Answered(q)'
    <3>1. q \in 1 .. Len(y) /\ q \in 1 .. Len(Ahead) + 1 /\ q \in 1 .. Len(y) + 1 /\ y[q] = Ahead[q]
      BY <1>1
    <3>2. FewZs(y, q, abort_countdown) /\ OnlyConfirms(y, word, q, n = 0, AddrWord)
      BY <1>5, <1>7, <2>4, <3>1 DEF Answered
    <3>3. \/ y[q] = "R" /\ Spot(n) \in Mapped /\ Holds(y, word, q, mem[Spot(n)], TRUE)
          \/ y[q] = "E" /\ Spot(n) \notin Mapped /\ erred
      <4>1. CASE Ahead[q] = "R" /\ Spot(n) \in Mapped /\ Holds(Ahead, word, q, mem[Spot(n)], TRUE)
        <5>1. mem[Spot(n)] \in Word
          BY <4>1 DEF Types
        <5> QED BY <1>1, <1>3, <3>1, <4>1, <5>1, HoldsGrown
      <4>2. CASE Ahead[q] = "E" /\ Spot(n) \notin Mapped /\ erred
        BY <3>1, <4>2
      <4> QED BY <2>4, <4>1, <4>2 DEF Answered
    <3> QED BY <1>2, <2>4, <3>1, <3>2, <3>3 DEF Answered, AddrWord, Spot, y
  <2>5. Asking' \/ Asked' \/ \E q \in 1 .. Len(y) : Answered(q)'
    BY <2>1, <2>2, <2>3, <2>4, Zenon DEF ReadOK
  <2>6. ReadOK'
    BY <1>2, <2>1, <2>5 DEF ReadOK, ReadSoFar, Length, Spot, y
  <2>7. pc' = "readword"
    BY <1>2, <1>9
  <2> QED BY <2>6, <2>7, Zenon DEF Phase
<1>10. CASE pc \in {"acks", "readidle"}
  <2>1. WriteOK
    BY <1>10 DEF Phase
  <2>2. ASSUME Opening PROVE Opening'
    <3>1. \A p \in 1 .. Len(y) : y[p] \notin Answer
      BY <1>4, <2>2 DEF Opening
    <3> QED BY <1>2, <2>2, <3>1 DEF Opening, Writing, Words, Length, y
  <2>3. ASSUME NEW d \in 0 .. Words, Written(d)
        PROVE  Written(d)'
    <3>1. \A p \in 1 .. Len(y) : y[p] \notin {"R", "E"}
      BY <1>1, <2>3 DEF Written, Answer
    <3>2. ASSUME NEW p \in 1 .. Len(y), y[p] = "A"
          PROVE  /\ m_nacks = 0 /\ \A k \in 1 .. Len(y) : y[k] = "K" => p < k
                 /\ Holds(y, word, p, AddrWord, TRUE \in usage.reads)
      <4>1. p \in 1 .. Len(Ahead) /\ Ahead[p] = "A"
        BY <1>1, <3>2 DEF Answer
      <4>2. /\ m_nacks = 0 /\ \A k \in 1 .. Len(Ahead) : Ahead[k] = "K" => p < k
            /\ Holds(Ahead, word, p, AddrWord, TRUE \in usage.reads)
        BY <2>3, <4>1 DEF Written, Confirming
      <4>3. Holds(y, word, p, AddrWord, TRUE \in usage.reads)
        BY <1>1, <1>3, <4>1, <4>2, HoldsGrown
      <4>4. \A k \in 1 .. Len(y) : y[k] = "K" => k \in 1 .. Len(Ahead) /\ Ahead[k] = "K"
        BY <1>1 DEF Answer
      <4> QED BY <4>2, <4>3, <4>4
    <3>3. TRUE \in usage.reads /\ (\A p \in 1 .. Len(y) : y[p] # "A") => ~m_inc
      <4>1. (\A p \in 1 .. Len(y) : y[p] # "A") => \A p \in 1 .. Len(Ahead) : Ahead[p] # "A"
        BY <1>1
      <4> QED BY <2>3, <4>1 DEF Written, Confirming
    <3>4. Confirming'
      BY <1>2, <3>2, <3>3 DEF Confirming, AddrWord, y
    <3> QED BY <1>1, <1>2, <2>3, <3>1, <3>4 DEF Written, Writing, Words, Length, y
  <2>4. Words' = Words
    BY <1>2 DEF Words, Length
  <2>5. WriteOK'
    <3>1. Opening' \/ \E d \in 0 .. Words : Written(d)'
      BY <2>1, <2>2, <2>3, Zenon DEF WriteOK
    <3> QED BY <1>2, <2>1, <2>4, <3>1 DEF WriteOK, Length
  <2>6. pc' \in {"acks", "readidle"}
    BY <1>2, <1>10
  <2> QED BY <2>5, <2>6, Zenon DEF Phase
<1> QED BY <1>8, <1>9, <1>10 DEF Phase, Types, Where

-----------------------------------------------------------------------------
(* The port serves a command.                                                 *)

LEMMA AppendJoined ==
    ASSUME NEW S, NEW c \in S, NEW s \in Seq(S), NEW w \in S
    PROVE  Append(<<c>> \o s, w) = <<c>> \o Append(s, w)
<1>1. <<c>> \in Seq(S) /\ <<w>> \in Seq(S) /\ <<c>> \o s \in Seq(S)
  BY Single, ConcatProperties
<1>2. Append(<<c>> \o s, w) = (<<c>> \o s) \o <<w>>
  BY <1>1, AppendIsConcat
<1>3. Append(s, w) = s \o <<w>>
  BY AppendIsConcat
<1>4. <<c>> \o (s \o <<w>>) = (<<c>> \o s) \o <<w>>
  <2>1. Regroups(<<c>>, s, <<w>>)
    BY <1>1, Grouping
  <2> QED BY <2>1 DEF Regroups
<1> QED BY <1>2, <1>3, <1>4, Zenon

LEMMA Replies ==
    ASSUME Types, Types', Grammar(Ahead), Serve, NEW t \in Seq(Char), t # <<>>, t[1] \in Answer,
           \A i \in 2 .. Len(t) : t[i] \in Digit, t[1] = "E" => Len(t) = 1, wire' = wire \o t
    PROVE  /\ Grown(Ahead, Ahead') /\ Ahead' = Ahead \o t /\ Grammar(Ahead') /\ Ahead' \in Seq(Char)
           /\ Len(Ahead) \in Nat /\ Len(Ahead') \in Nat /\ Len(Ahead') >= Len(Ahead) + 1
           /\ \A p \in 1 .. Len(Ahead) : Ahead'[p] = Ahead[p]
           /\ Ahead'[Len(Ahead) + 1] = t[1]
           /\ \A p \in Len(Ahead) + 2 .. Len(Ahead') : Ahead'[p] \in Digit
           /\ \A l \in Letter : Pending(l)' = Pending(l) + (IF t[1] = l THEN 1 ELSE 0)
<1>1. wire \in Seq(Char) /\ line \in Seq(Char) /\ Ahead \in Seq(Char) /\ Len(Ahead) >= 1
  BY Characters
<1>2. Len(Ahead) \in Nat /\ Len(t) \in Nat \ {0}
  BY <1>1, LenProperties, EmptySeq
<1>3. Send(t)
  <2>1. t[1] \notin Digit
    BY Letters
  <2>2. line \o (wire \o t) = (line \o wire) \o t
    <3>1. Regroups(line, wire, t)
      BY <1>1, Grouping
    <3> QED BY <3>1 DEF Regroups
  <2>3. Stream' = Stream \o t
    <3>1. line' = line
      BY DEF Serve
    <3> QED BY <2>2, <3>1, Zenon DEF Stream
  <2>4. Cur' = Cur
    BY DEF Serve, host_vars, Cur
  <2> QED BY <2>1, <2>3, <2>4 DEF Send
<1>4. /\ Grown(Ahead, Ahead') /\ Ahead' \in Seq(Char)
      /\ Len(Ahead') = Len(Ahead) + Len(t) /\ Ahead' = Ahead \o t
      /\ \A i \in 1 .. Len(t) : Ahead'[Len(Ahead) + i] = t[i]
      /\ \A l \in Letter : Pending(l)' = Pending(l) + Count(t, l)
  BY <1>3, Sent
<1>5. \A p \in 1 .. Len(Ahead) : Ahead'[p] = Ahead[p]
  BY <1>4 DEF Grown
<1>6. Ahead'[Len(Ahead) + 1] = t[1]
  BY <1>2, <1>4
<1>7. \A p \in Len(Ahead) + 2 .. Len(Ahead') : Ahead'[p] \in Digit
  <2> TAKE p \in Len(Ahead) + 2 .. Len(Ahead')
  <2>1. p - Len(Ahead) \in 2 .. Len(t) /\ p - Len(Ahead) \in 1 .. Len(t) /\ Len(Ahead) + (p - Len(Ahead)) = p
    BY <1>2, <1>4
  <2>2. Ahead'[p] = t[p - Len(Ahead)]
    BY <1>4, <2>1
  <2> QED BY <2>1, <2>2
<1>8. Grammar(Ahead')
  <2>1. ASSUME NEW i \in Len(Ahead) + 2 .. Len(Ahead')
        PROVE  Ahead'[i - 1] \in Digit \cup {"A", "R", "K"}
    <3>1. CASE i = Len(Ahead) + 2
      <4>1. Len(t) > 1 /\ i - 1 = Len(Ahead) + 1
        BY <1>2, <1>4, <3>1
      <4> QED BY <1>6, <4>1 DEF Answer
    <3>2. CASE i # Len(Ahead) + 2
      <4>1. i - 1 \in Len(Ahead) + 2 .. Len(Ahead')
        BY <1>2, <1>4, <3>2
      <4> QED BY <1>7, <4>1
    <3> QED BY <3>1, <3>2
  <2> QED BY <1>1, <1>4, <2>1, GrammarSent
<1>9. ASSUME NEW l \in Letter PROVE Count(t, l) = IF t[1] = l THEN 1 ELSE 0
  <2>1. Tail(t) \in Seq(Char) /\ Len(Tail(t)) = Len(t) - 1 /\ \A i \in 1 .. Len(Tail(t)) : Tail(t)[i] = t[i + 1]
    BY HeadTailProperties
  <2>2. \A i \in 1 .. Len(Tail(t)) : Tail(t)[i] # l
    <3> TAKE i \in 1 .. Len(Tail(t))
    <3>1. i + 1 \in 2 .. Len(t)
      BY <1>2, <2>1
    <3> QED BY <2>1, <3>1, Letters
  <2>3. Count(Tail(t), l) = 0
    BY <2>1, <2>2, CountType
  <2>4. Count(t, l) = Count(Tail(t), l) + IF t[1] = l THEN 1 ELSE 0
    BY CountTail
  <2> QED BY <2>3, <2>4
<1> QED BY <1>2, <1>4, <1>5, <1>6, <1>7, <1>8, <1>9

\* A reply that carries a word.
LEMMA WordReplies ==
    ASSUME Types, Types', Grammar(Ahead), Serve, NEW c \in {"A", "R", "K"}, NEW v \in Word,
           wire' = wire \o (<<c>> \o Digits(v))
    PROVE  /\ Grown(Ahead, Ahead') /\ Grammar(Ahead') /\ Ahead' \in Seq(Char)
           /\ Len(Ahead) \in Nat /\ Len(Ahead') \in Nat /\ Len(Ahead') >= Len(Ahead) + 1
           /\ \A p \in 1 .. Len(Ahead) : Ahead'[p] = Ahead[p]
           /\ Ahead'[Len(Ahead) + 1] = c
           /\ \A p \in Len(Ahead) + 2 .. Len(Ahead') : Ahead'[p] \in Digit
           /\ \A e : Holds(Ahead', word', Len(Ahead) + 1, v, e)
           /\ \A l \in Letter : Pending(l)' = Pending(l) + (IF c = l THEN 1 ELSE 0)
<1> DEFINE t == <<c>> \o Digits(v)
<1>1. c \in Char /\ c \in Answer /\ c # "E"
  BY DEF Char, Letter, Answer
<1>2. Digits(v) \in Seq(Digit) /\ Len(Digits(v)) = WordLen /\ Digit \subseteq Char
  BY WordsAndDigits DEF Char
<1>3. Digits(v) \in Seq(Char)
  BY <1>2, SeqMonotonic
<1>4. t \in Seq(Char) /\ Len(t) = Len(Digits(v)) + 1 /\ t[1] = c
      /\ \A i \in 2 .. Len(Digits(v)) + 1 : t[i] = Digits(v)[i - 1]
  BY <1>1, <1>3, Join
<1>5. WordLen \in Nat \ {0}
  BY Sizes
<1> HIDE DEF t
<1>6. \A i \in 2 .. Len(t) : t[i] \in Digit
  <2> TAKE i \in 2 .. Len(t)
  <2>1. i - 1 \in 1 .. WordLen /\ i \in 2 .. Len(Digits(v)) + 1
    BY <1>2, <1>4, <1>5
  <2> QED BY <1>4, <2>1, DigitsOf
<1>7. t # <<>>
  BY <1>2, <1>4, <1>5, EmptySeq
<1>8. wire' = wire \o t
  BY Zenon DEF t
<1>9. /\ Grown(Ahead, Ahead') /\ Ahead' = Ahead \o t /\ Grammar(Ahead') /\ Ahead' \in Seq(Char)
      /\ Len(Ahead) \in Nat /\ Len(Ahead') \in Nat /\ Len(Ahead') >= Len(Ahead) + 1
      /\ \A p \in 1 .. Len(Ahead) : Ahead'[p] = Ahead[p]
      /\ Ahead'[Len(Ahead) + 1] = t[1]
      /\ \A p \in Len(Ahead) + 2 .. Len(Ahead') : Ahead'[p] \in Digit
      /\ \A l \in Letter : Pending(l)' = Pending(l) + (IF t[1] = l THEN 1 ELSE 0)
  BY <1>1, <1>4, <1>6, <1>7, <1>8, Replies
<1>10. ASSUME NEW e PROVE Holds(Ahead', word', Len(Ahead) + 1, v, e)
  <2>1. Ahead \in Seq(Char) /\ Len(Ahead) >= 1
    BY Characters
  <2>2. Ahead' = Ahead \o (<<c>> \o Digits(v))
    BY <1>9, Zenon DEF t
  <2> QED BY <1>9, <2>1, <2>2, HoldsNew
<1>11. \A l \in Letter : Pending(l)' = Pending(l) + (IF c = l THEN 1 ELSE 0)
  BY <1>4, <1>9
<1>12. Ahead'[Len(Ahead) + 1] = c
  BY <1>4, <1>9
<1> QED BY <1>9, <1>10, <1>11, <1>12

LEMMA TwoCommands == \A a, b : Head(<<a, b>>) = a /\ Tail(<<a, b>>) = <<b>>
OBVIOUS

LEMMA ServeRead ==
    ASSUME Types, Types', Grammar(Ahead), ReadOK, Serve
    PROVE  ReadOK' /\ Grammar(Ahead') /\ Pending("I")' = Pending("I") /\ Pending("Z")' = Pending("Z")
<1>1. UNCHANGED <<pc, call, n, buf, outcome, m_inc, m_addr_set, m_lastaddr, m_nacks, word,
                  abort_countdown, usage, shadow>>
  BY DEF Serve, host_vars, addr_vars
<1>2. Ahead \in Seq(Char) /\ AddrWord \in Word /\ Spot(n) \in Addr /\ n \in Nat
      /\ call.a \in Addr /\ call.inc \in BOOLEAN /\ Spot(0) = call.a
      /\ Advance(Spot(n), call.inc, 1) = Spot(n + 1) /\ Advance(call.a, call.inc, 0) = call.a
  <2>1. call.a \in Addr /\ call.inc \in BOOLEAN /\ n \in Nat
    BY DEF Types, Call
  <2>2. Ahead \in Seq(Char)
    BY Characters
  <2>3. AddrWord \in Word
    BY <2>1, AddressWords DEF AddrWord
  <2>4. Advance(call.a, call.inc, n) \in Addr /\ Advance(call.a, call.inc, 0) = call.a
        /\ Advance(Advance(call.a, call.inc, n), call.inc, 1) = Advance(call.a, call.inc, n + 1)
    BY <2>1, Advances
  <2> QED BY <2>1, <2>2, <2>3, <2>4, Zenon DEF Spot
<1>3. Pending("I") \in Nat /\ Pending("Z") \in Nat /\ "I" \in Letter /\ "Z" \in Letter
  BY PendingIs DEF Letter
<1>4. CASE Asking
  <2>1. sent = <<Cmd("ADDR", call.a, call.inc), Cmd("RD", 0, FALSE)>>
    BY <1>4 DEF Asking
  <2>2. Head(sent) = Cmd("ADDR", call.a, call.inc) /\ Tail(sent) = <<Cmd("RD", 0, FALSE)>>
    BY <2>1, TwoCommands
  <2>3. /\ sent' = <<Cmd("RD", 0, FALSE)>> /\ dev_addr' = call.a /\ dev_inc' = call.inc
        /\ mem' = mem /\ wire' = wire \o (<<"A">> \o Digits(AddrWord))
    BY <2>2 DEF Serve, Cmd, AddrWord
  <2>4. /\ Grown(Ahead, Ahead') /\ Grammar(Ahead') /\ Ahead' \in Seq(Char)
        /\ Len(Ahead) \in Nat /\ Len(Ahead') \in Nat /\ Len(Ahead') >= Len(Ahead) + 1
        /\ \A p \in 1 .. Len(Ahead) : Ahead'[p] = Ahead[p]
        /\ Ahead'[Len(Ahead) + 1] = "A"
        /\ \A p \in Len(Ahead) + 2 .. Len(Ahead') : Ahead'[p] \in Digit
        /\ \A e : Holds(Ahead', word', Len(Ahead) + 1, AddrWord, e)
        /\ \A l \in Letter : Pending(l)' = Pending(l) + (IF "A" = l THEN 1 ELSE 0)
    BY <1>2, <2>3, WordReplies
  <2> DEFINE y == Ahead'
  <2> HIDE DEF y
  <2>5. OnlyConfirms(y, word, Len(y) + 1, TRUE, AddrWord)
    <3> SUFFICES ASSUME NEW p \in 1 .. Len(y), p # Len(y) + 1, y[p] \in Answer
                 PROVE  p < Len(y) + 1 /\ y[p] = "A" /\ TRUE /\ Holds(y, word, p, AddrWord, TRUE)
      BY DEF OnlyConfirms
    <3>1. CASE p \in 1 .. Len(Ahead)
      <4>1. y[p] = Ahead[p]
        BY <2>4, <3>1 DEF y
      <4>2. Ahead[p] \notin Answer
        BY <1>4, <3>1 DEF Asking
      <4> QED BY <4>1, <4>2
    <3>2. CASE p = Len(Ahead) + 1
      <4>1. Holds(y, word, p, AddrWord, TRUE)
        BY <1>1, <2>4, <3>2 DEF y
      <4>2. y[p] = "A"
        BY <2>4, <3>2 DEF y
      <4>3. p < Len(y) + 1
        BY <2>4 DEF y
      <4> QED BY <4>1, <4>2, <4>3
    <3>3. CASE p \in Len(Ahead) + 2 .. Len(y)
      BY <2>4, <3>3, Letters DEF y
    <3>4. p \in 1 .. Len(Ahead) \/ p = Len(Ahead) + 1 \/ p \in Len(Ahead) + 2 .. Len(y)
      <4>1. Len(Ahead) \in Nat /\ Len(y) \in Nat
        BY <2>4 DEF y
      <4> QED BY <4>1
    <3> QED BY <3>1, <3>2, <3>3, <3>4
  <2>6. FewZs(y, Len(y) + 1, abort_countdown)
    <3>1. \A p \in Len(Ahead) + 1 .. Len(y) : y[p] # "Z"
      <4>1. \A p \in Len(Ahead) + 1 .. Len(y) : p = Len(Ahead) + 1 \/ p \in Len(Ahead) + 2 .. Len(y)
        BY <2>4
      <4>2. "Z" \notin Digit
        BY Letters DEF Letter
      <4> QED BY <2>4, <4>1, <4>2 DEF y
    <3>2. Len(Ahead) + 1 \in 1 .. Len(Ahead) + 1 /\ Len(y) + 1 \in 1 .. Len(y) + 1
          /\ Len(y) + 1 >= Len(Ahead) + 1 /\ ~(Len(Ahead) + 1 <= Len(Ahead))
      BY <2>4 DEF y
    <3> QED BY <1>2, <1>4, <2>4, <3>1, <3>2, FewGrown DEF Asking, y
  <2>7. n = 0 /\ (n = 0) = TRUE
    BY <1>4 DEF Asking
  <2>8. Asked'
    BY <1>1, <1>2, <2>3, <2>5, <2>6, <2>7 DEF Asked, AddrWord, Spot, y
  <2>9. ReadOK'
    BY <1>1, <2>3, <2>8 DEF ReadOK, ReadSoFar, Length, Spot
  <2>10. Pending("I")' = Pending("I") /\ Pending("Z")' = Pending("Z")
    BY <1>3, <2>4
  <2> QED BY <2>4, <2>9, <2>10
<1>5. CASE Asked
  <2>1. sent = <<Cmd("RD", 0, FALSE)>> /\ dev_addr = Spot(n) /\ dev_inc = call.inc
    BY <1>5 DEF Asked
  <2>2. Head(sent) = Cmd("RD", 0, FALSE) /\ Tail(sent) = <<>>
    BY <2>1
  <2>3. /\ sent' = <<>> /\ dev_addr' = Spot(n + 1) /\ dev_inc' = call.inc /\ mem' = mem
    BY <1>2, <2>1, <2>2 DEF Serve, Cmd
  <2>4. IF Spot(n) \in Mapped THEN wire' = wire \o (<<"R">> \o Digits(mem[Spot(n)]))
                              ELSE wire' = wire \o <<"E">> /\ erred'
    <3>1. Head(sent).sub = "RD" /\ dev_addr = Spot(n)
      BY <2>1, <2>2 DEF Cmd
    <3>2. CASE Spot(n) \in Mapped
      <4>1. wire' = wire \o (<<"R">> \o Digits(mem[dev_addr]))
        BY <3>1, <3>2 DEF Serve
      <4> QED BY <3>1, <3>2, <4>1, Zenon
    <3>3. CASE Spot(n) \notin Mapped
      <4>1. wire' = wire \o <<"E">> /\ erred'
        BY <3>1, <3>3 DEF Serve
      <4> QED BY <3>3, <4>1
    <3> QED BY <3>2, <3>3
  <2> DEFINE y == Ahead'
  <2>5. /\ Grown(Ahead, y) /\ Grammar(y) /\ y \in Seq(Char)
        /\ Len(Ahead) \in Nat /\ Len(y) \in Nat /\ Len(y) >= Len(Ahead) + 1
        /\ \A p \in 1 .. Len(Ahead) : y[p] = Ahead[p]
        /\ \A p \in Len(Ahead) + 2 .. Len(y) : y[p] \in Digit
        /\ Pending("I")' = Pending("I") /\ Pending("Z")' = Pending("Z")
        /\ \/ /\ y[Len(Ahead) + 1] = "R" /\ Spot(n) \in Mapped
              /\ Holds(y, word, Len(Ahead) + 1, mem[Spot(n)], TRUE)
           \/ y[Len(Ahead) + 1] = "E" /\ Spot(n) \notin Mapped /\ erred'
    <3>1. CASE Spot(n) \in Mapped
      <4>1. mem[Spot(n)] \in Word
        BY <3>1 DEF Types
      <4> DEFINE v == mem[Spot(n)]
      <4> HIDE DEF v
      <4>2. v \in Word /\ wire' = wire \o (<<"R">> \o Digits(v)) /\ "R" \in {"A", "R", "K"}
        BY <2>4, <3>1, <4>1 DEF v
      <4>3. /\ Grown(Ahead, Ahead') /\ Grammar(Ahead') /\ Ahead' \in Seq(Char)
            /\ Len(Ahead) \in Nat /\ Len(Ahead') \in Nat /\ Len(Ahead') >= Len(Ahead) + 1
            /\ \A p \in 1 .. Len(Ahead) : Ahead'[p] = Ahead[p]
            /\ Ahead'[Len(Ahead) + 1] = "R"
            /\ \A p \in Len(Ahead) + 2 .. Len(Ahead') : Ahead'[p] \in Digit
            /\ \A e : Holds(Ahead', word', Len(Ahead) + 1, v, e)
            /\ \A l \in Letter : Pending(l)' = Pending(l) + (IF "R" = l THEN 1 ELSE 0)
        BY <4>2, WordReplies
      <4>4. Pending("I")' = Pending("I") /\ Pending("Z")' = Pending("Z")
        BY <1>3, <4>3
      <4>5. Holds(Ahead', word, Len(Ahead) + 1, v, TRUE)
        BY <1>1, <4>3
      <4> QED BY <3>1, <4>3, <4>4, <4>5 DEF v
    <3>2. CASE Spot(n) \notin Mapped
      <4>1. <<"E">> \in Seq(Char) /\ Len(<<"E">>) = 1 /\ <<"E">>[1] = "E" /\ <<"E">> # <<>>
            /\ "E" \in Answer
        BY Letters DEF Letter, Answer
      <4>2. wire' = wire \o <<"E">> /\ erred'
        BY <2>4, <3>2
      <4>3. /\ Grown(Ahead, Ahead') /\ Grammar(Ahead') /\ Ahead' \in Seq(Char)
            /\ Len(Ahead) \in Nat /\ Len(Ahead') \in Nat /\ Len(Ahead') >= Len(Ahead) + 1
            /\ \A p \in 1 .. Len(Ahead) : Ahead'[p] = Ahead[p]
            /\ Ahead'[Len(Ahead) + 1] = "E"
            /\ \A p \in Len(Ahead) + 2 .. Len(Ahead') : Ahead'[p] \in Digit
            /\ \A l \in Letter : Pending(l)' = Pending(l) + (IF "E" = l THEN 1 ELSE 0)
        <5> DEFINE t == <<"E">>
        <5> HIDE DEF t
        <5>1. t \in Seq(Char) /\ t # <<>> /\ t[1] = "E" /\ t[1] \in Answer /\ Len(t) = 1
              /\ (\A i \in 2 .. Len(t) : t[i] \in Digit) /\ wire' = wire \o t
          BY <4>1, <4>2 DEF t
        <5> QED BY <5>1, Replies
      <4>4. Pending("I")' = Pending("I") /\ Pending("Z")' = Pending("Z")
        BY <1>3, <4>3
      <4> QED BY <3>2, <4>2, <4>3, <4>4
    <3> QED BY <3>1, <3>2
  <2> HIDE DEF y
  <2>11. PICK q : q = Len(Ahead) + 1
    OBVIOUS
  <2>6. OnlyConfirms(y, word, q, n = 0, AddrWord)
    <3>1. q \in 1 .. Len(Ahead) + 1 /\ q \in 1 .. Len(y) + 1
          /\ (IF q <= Len(Ahead) THEN q = q ELSE q > Len(Ahead))
      BY <2>5, <2>11
    <3>2. \A p \in Len(Ahead) + 1 .. Len(y) : p # q => y[p] \notin Answer
      <4>1. \A p \in Len(Ahead) + 1 .. Len(y) : p # q => p \in Len(Ahead) + 2 .. Len(y)
        BY <2>5, <2>11
      <4> QED BY <2>5, <4>1, Letters
    <3>3. OnlyConfirms(Ahead, word, q, n = 0, AddrWord)
      BY <1>5, <2>11 DEF Asked
    <3> QED BY <1>2, <2>5, <3>1, <3>2, <3>3, ConfirmsGrown
  <2>7. FewZs(y, q, abort_countdown)
    <3>1. q \in 1 .. Len(Ahead) + 1 /\ q \in 1 .. Len(y) + 1 /\ q >= q
          /\ \A p \in Len(Ahead) + 1 .. Len(y) : p < q => y[p] # "Z"
      BY <2>5, <2>11
    <3>2. FewZs(Ahead, q, abort_countdown)
      BY <1>5, <2>11 DEF Asked
    <3> QED BY <1>2, <2>5, <3>1, <3>2, FewGrown
  <2>8. q \in 1 .. Len(y)
    BY <2>5, <2>11
  <2>9. Answered(q)'
    <3>1. \/ y[q] = "R" /\ Spot(n) \in Mapped /\ Holds(y, word, q, mem[Spot(n)], TRUE)
          \/ y[q] = "E" /\ Spot(n) \notin Mapped /\ erred'
      BY <2>5, <2>11
    <3> QED BY <1>1, <2>3, <2>6, <2>7, <3>1 DEF Answered, AddrWord, Spot, y
  <2>10. ReadOK'
    BY <1>1, <2>3, <2>8, <2>9 DEF ReadOK, ReadSoFar, Length, Spot, y
  <2> QED BY <2>5, <2>10 DEF y
<1>6. ASSUME NEW q, Answered(q) PROVE FALSE
  BY <1>6 DEF Answered, Serve
<1> QED BY <1>4, <1>5, <1>6 DEF ReadOK

\* The words that writev has sent, one after the other.
LEMMA WordsAre ==
    ASSUME Types, WriteOK
    PROVE  Words \in Nat /\ Words > 0 /\ Words <= Length /\ Length \in Nat /\ n \in Nat
           /\ call.vals \in Seq(Word) /\ call.a \in Addr /\ call.a \in Mapped
<1>1. n \in Nat /\ Length \in Nat /\ Length > 0 /\ call.vals \in Seq(Word) /\ call.a \in Addr
      /\ call.a \in Mapped
  BY LenProperties DEF Types, Call, WriteOK, Length
<1> QED BY <1>1 DEF Words

LEMMA Alone == \A a : <<a>> # <<>> /\ Head(<<a>>) = a /\ Tail(<<a>>) = <<>>
OBVIOUS

LEMMA Appended == \A a : Append(<<>>, a) = <<a>>
OBVIOUS

LEMMA NextWritten ==
    ASSUME Types, WriteOK, NEW d \in 0 .. Words
    PROVE  /\ d = Words => Writing(d) = <<>>
           /\ d < Words => /\ Writing(d) # <<>> /\ Head(Writing(d)) = Cmd("WR", call.vals[d + 1], FALSE)
                           /\ Tail(Writing(d)) = Writing(d + 1) /\ call.vals[d + 1] \in Word
                           /\ d + 1 \in 1 .. Words
<1>1. Words \in Nat /\ Words <= Length /\ Length \in Nat /\ call.vals \in Seq(Word)
  BY WordsAre
<1> DEFINE f(i) == Cmd("WR", call.vals[i], FALSE)
<1> DEFINE s == [i \in 1 .. Words - d |-> f(d + i)]
<1> DEFINE C == {f(i) : i \in 1 .. Words}
<1>2. s = Writing(d)
  BY DEF Writing
<1>3. ASSUME d = Words PROVE s = <<>>
  <2> HIDE DEF f
  <2>1. Words - d = 0 /\ 0 \in Nat
    BY <1>1, <1>3
  <2>2. s = [i \in 1 .. 0 |-> f(d + i)]
    BY <2>1
  <2>3. s \in Seq(C) /\ Len(s) = 0
    BY <2>1, <2>2
  <2> HIDE DEF s, C
  <2> QED BY <2>3, EmptySeq
<1>4. ASSUME d < Words
      PROVE  /\ s # <<>> /\ Head(s) = f(d + 1) /\ Tail(s) = [i \in 1 .. Words - (d + 1) |-> f((d + 1) + i)]
             /\ call.vals[d + 1] \in Word /\ d + 1 \in 1 .. Words
  <2> HIDE DEF f
  <2>1. Words - d \in Nat \ {0} /\ d + 1 \in 1 .. Words
    BY <1>1, <1>4
  <2>2. \A i \in 1 .. Words - d : d + i \in 1 .. Words
    BY <1>1, <1>4
  <2>3. s \in Seq(C) /\ Len(s) = Words - d /\ \A i \in 1 .. Words - d : s[i] = f(d + i)
    BY <2>1, <2>2
  <2> HIDE DEF s, C
  <2>4. s # <<>> /\ Head(s) = f(d + 1)
    <3>1. s # <<>>
      BY <2>1, <2>3, EmptySeq
    <3>2. 1 \in 1 .. Words - d
      BY <2>1
    <3> QED BY <2>3, <3>1, <3>2, HeadTailProperties
  <2> DEFINE t == Tail(s)
  <2> DEFINE u == [i \in 1 .. Words - (d + 1) |-> f((d + 1) + i)]
  <2>5. t \in Seq(C) /\ Len(t) = Len(s) - 1 /\ \A i \in 1 .. Len(t) : t[i] = s[i + 1]
    BY <2>3, <2>4, HeadTailProperties
  <2>6. Len(t) = Words - (d + 1) /\ Words - (d + 1) \in Nat
    BY <1>1, <2>1, <2>3, <2>5
  <2>7. ASSUME NEW i \in 1 .. Words - (d + 1)
        PROVE  t[i] = f((d + 1) + i)
    <3>1. i + 1 \in 1 .. Words - d /\ d + (i + 1) = (d + 1) + i
      BY <1>1, <2>1
    <3> QED BY <2>3, <2>5, <2>6, <3>1
  <2>8. DOMAIN t = 1 .. Words - (d + 1) /\ t = [i \in DOMAIN t |-> t[i]]
    BY <2>5, <2>6, LenProperties
  <2> HIDE DEF t
  <2>9. t = u
    BY <2>7, <2>8
  <2>10. call.vals[d + 1] \in Word
    <3>1. d + 1 \in 1 .. Len(call.vals)
      BY <1>1, <2>1 DEF Length
    <3> QED BY <1>1, <3>1, ElementOfSeq
  <2> QED BY <2>1, <2>4, <2>9, <2>10 DEF t
<1>5. Writing(d + 1) = [i \in 1 .. Words - (d + 1) |-> f((d + 1) + i)]
  BY DEF Writing
<1>6. f(d + 1) = Cmd("WR", call.vals[d + 1], FALSE)
  OBVIOUS
<1> HIDE DEF f, s
<1>7. CASE d < Words
  <2>1. d # Words
    BY <1>1, <1>7
  <2> QED BY <1>2, <1>4, <1>5, <1>6, <1>7, <2>1, Zenon
<1>8. CASE ~(d < Words)
  BY <1>2, <1>3, <1>8
<1> QED BY <1>7, <1>8

LEMMA ServeWrite ==
    ASSUME Types, Types', Grammar(Ahead), WriteOK, Serve
    PROVE  WriteOK' /\ Grammar(Ahead') /\ Pending("I")' = Pending("I") /\ Pending("Z")' = Pending("Z")
<1>1. UNCHANGED <<pc, call, n, buf, outcome, m_inc, m_addr_set, m_lastaddr, m_nacks, word,
                  abort_countdown, usage, shadow>>
  BY DEF Serve, host_vars, addr_vars
<1>2. Words \in Nat /\ Words > 0 /\ call.a \in Addr /\ call.a \in Mapped /\ call.inc = FALSE
      /\ Words' = Words /\ \A d : Writing(d)' = Writing(d)
  <2>1. call.inc \in BOOLEAN /\ ~call.inc
    BY DEF WriteOK, Types, Call
  <2> QED BY <1>1, <2>1, WordsAre DEF Words, Writing, Length
<1>3. Pending("I") \in Nat /\ Pending("Z") \in Nat /\ "I" \in Letter /\ "Z" \in Letter
      /\ Pending("K") \in Nat /\ "K" \in Letter
  BY PendingIs DEF Letter
<1>4. AddrWord \in Word /\ 0 \in Word /\ Advance(call.a, FALSE, 1) = call.a /\ Ahead \in Seq(Char)
  <2>1. AddrWord \in Word
    BY <1>2, AddressWords DEF AddrWord
  <2>2. Advance(call.a, FALSE, 1) = call.a
    BY <1>2, Advances
  <2> QED BY <2>1, <2>2, WordsAndDigits, Characters
<1>5. CASE Opening
  <2>1. sent = <<Cmd("ADDR", call.a, FALSE)>> \o Writing(0) /\ m_nacks = 0 /\ mem = shadow
        /\ \A p \in 1 .. Len(Ahead) : Ahead[p] \notin Answer
    BY <1>5 DEF Opening
  <2>2. Head(sent) = Cmd("ADDR", call.a, FALSE) /\ Tail(sent) = Writing(0)
    <3>1. Writing(0) \in Seq(CommandWord)
      <4>1. ASSUME NEW i \in 1 .. Words - 0
            PROVE  Cmd("WR", call.vals[0 + i], FALSE) \in CommandWord
        <5>1. i - 1 \in 0 .. Words /\ i - 1 < Words /\ (i - 1) + 1 = 0 + i
          BY <1>2
        <5>2. call.vals[(i - 1) + 1] \in Word
          BY <5>1, NextWritten
        <5>3. call.vals[0 + i] \in Word
          BY <5>1, <5>2, Zenon
        <5> QED BY <5>3 DEF Cmd, CommandWord
      <4>2. Words - 0 \in Nat
        BY <1>2
      <4> DEFINE f(i) == Cmd("WR", call.vals[0 + i], FALSE)
      <4>3. Writing(0) = [i \in 1 .. Words - 0 |-> f(i)]
        BY DEF Writing
      <4> HIDE DEF f
      <4>4. \A i \in 1 .. Words - 0 : f(i) \in CommandWord
        BY <4>1 DEF f
      <4> QED BY <4>2, <4>3, <4>4
    <3>2. Cmd("ADDR", call.a, FALSE) \in CommandWord
      BY <1>2 DEF Cmd, CommandWord
    <3> DEFINE c == Cmd("ADDR", call.a, FALSE)
    <3> DEFINE w == Writing(0)
    <3> HIDE DEF c, w
    <3>3. <<c>> \in Seq(CommandWord) /\ <<c>> # <<>> /\ Head(<<c>>) = c /\ Tail(<<c>>) = <<>>
          /\ w \in Seq(CommandWord)
      <4>1. c \in CommandWord
        BY <3>2 DEF c
      <4>2. w \in Seq(CommandWord)
        BY <3>1 DEF w
      <4> QED BY <4>1, <4>2, Single, Alone
    <3>4. <<c>> \o w # <<>> /\ (<<c>> \o w)[1] = c /\ Tail(<<c>> \o w) = <<>> \o w
      BY <3>3, TailJoin
    <3>5. <<>> \o w = w
      BY <3>3, ConcatEmptySeq
    <3>6. sent = <<c>> \o w
      BY <2>1, Zenon DEF c, w
    <3>7. sent \in Seq(CommandWord) /\ sent # <<>>
      BY DEF Types, Serve
    <3>8. Head(sent) = sent[1]
      BY <3>7, HeadTailProperties
    <3> QED BY <3>4, <3>5, <3>6, <3>8, Zenon DEF c, w
  <2>3. /\ sent' = Writing(0) /\ dev_addr' = call.a /\ dev_inc' = FALSE
        /\ mem' = mem /\ wire' = wire \o (<<"A">> \o Digits(AddrWord))
    <3>1. Head(sent).sub = "ADDR" /\ Head(sent).word = call.a /\ Head(sent).inc = FALSE
      BY <2>2 DEF Cmd
    <3>2. AddrWord = 4 * call.a + 1
      BY <1>2 DEF AddrWord
    <3> QED BY <2>2, <3>1, <3>2 DEF Serve
  <2>4. /\ Grammar(Ahead') /\ Ahead' \in Seq(Char)
        /\ Len(Ahead) \in Nat /\ Len(Ahead') \in Nat /\ Len(Ahead') >= Len(Ahead) + 1
        /\ \A p \in 1 .. Len(Ahead) : Ahead'[p] = Ahead[p]
        /\ Ahead'[Len(Ahead) + 1] = "A"
        /\ \A p \in Len(Ahead) + 2 .. Len(Ahead') : Ahead'[p] \in Digit
        /\ \A e : Holds(Ahead', word', Len(Ahead) + 1, AddrWord, e)
        /\ \A l \in Letter : Pending(l)' = Pending(l) + (IF "A" = l THEN 1 ELSE 0)
    BY <1>4, <2>3, WordReplies
  <2> DEFINE y == Ahead'
  <2> HIDE DEF y
  <2>5. ASSUME NEW p \in 1 .. Len(y)
        PROVE  /\ p # Len(Ahead) + 1 => y[p] \notin Answer
               /\ p = Len(Ahead) + 1 => y[p] = "A" /\ \A e : Holds(y, word, p, AddrWord, e)
    <3>1. CASE p \in 1 .. Len(Ahead)
      <4>1. y[p] = Ahead[p] /\ p # Len(Ahead) + 1
        BY <2>4, <3>1 DEF y
      <4> QED BY <2>1, <3>1, <4>1
    <3>2. CASE p = Len(Ahead) + 1
      BY <1>1, <2>4, <3>2 DEF y
    <3>3. CASE p \in Len(Ahead) + 2 .. Len(y)
      <4>1. y[p] \in Digit /\ p # Len(Ahead) + 1
        BY <2>4, <3>3 DEF y
      <4> QED BY <4>1, Letters
    <3>4. p \in 1 .. Len(Ahead) \/ p = Len(Ahead) + 1 \/ p \in Len(Ahead) + 2 .. Len(y)
      <4>1. Len(Ahead) \in Nat /\ Len(y) \in Nat
        BY <2>4 DEF y
      <4> QED BY <4>1
    <3> QED BY <3>1, <3>2, <3>3, <3>4
  <2>6. \A p \in 1 .. Len(y) : y[p] \notin {"R", "E", "K"}
    BY <2>5 DEF Answer
  <2>7. Len(Ahead) + 1 \in 1 .. Len(y) /\ y[Len(Ahead) + 1] = "A"
    BY <2>4 DEF y
  <2>8. Confirming'
    <3>1. ASSUME NEW p \in 1 .. Len(y), y[p] = "A"
          PROVE  Holds(y, word, p, AddrWord, TRUE \in usage.reads)
      BY <2>5, <3>1 DEF Answer
    <3>2. ~(\A p \in 1 .. Len(y) : y[p] # "A")
      BY <2>7
    <3> QED BY <1>1, <2>1, <2>6, <3>1, <3>2 DEF Confirming, AddrWord, y
  <2>9. Pending("I")' = Pending("I") /\ Pending("Z")' = Pending("Z") /\ Pending("K")' = 0
    <3>1. \A p \in 1 .. Len(Ahead) : Ahead[p] # "K"
      BY <2>1 DEF Answer
    <3>2. Pending("K") = 0
      BY <1>3, <3>1, PendingIs
    <3> QED BY <1>3, <2>4, <3>2
  <2>10. Written(0)'
    BY <1>1, <1>2, <2>1, <2>3, <2>6, <2>8, <2>9 DEF Written, y
  <2>11. 0 \in 0 .. Words'
    BY <1>2
  <2>12. \E d \in 0 .. Words' : Written(d)'
    BY <2>10, <2>11
  <2>13. WriteOK'
    BY <1>1, <2>12 DEF WriteOK, Length
  <2> QED BY <2>4, <2>9, <2>13
<1>6. ASSUME NEW d \in 0 .. Words, Written(d)
      PROVE  WriteOK' /\ Grammar(Ahead') /\ Pending("I")' = Pending("I") /\ Pending("Z")' = Pending("Z")
  <2>1. sent = Writing(d) /\ sent # <<>> /\ dev_addr = call.a /\ ~dev_inc
        /\ m_nacks + Pending("K") = d
        /\ mem = (IF d = 0 THEN shadow ELSE [shadow EXCEPT ![call.a] = call.vals[d]])
        /\ \A p \in 1 .. Len(Ahead) : Ahead[p] \notin {"R", "E"}
    BY <1>6 DEF Written, Serve
  <2>2. d < Words
    <3>1. d # Words
      BY <2>1, NextWritten
    <3> QED BY <1>2, <3>1
  <2>3. Head(sent) = Cmd("WR", call.vals[d + 1], FALSE)
        /\ Tail(sent) = Writing(d + 1) /\ call.vals[d + 1] \in Word /\ d + 1 \in 1 .. Words
    BY <2>1, <2>2, NextWritten
  <2>4. /\ sent' = Writing(d + 1) /\ dev_addr' = call.a /\ dev_inc' = FALSE
        /\ mem' = [mem EXCEPT ![call.a] = call.vals[d + 1]]
        /\ wire' = wire \o (<<"K">> \o Digits(0))
    <3>1. Head(sent).sub = "WR" /\ Head(sent).word = call.vals[d + 1]
      BY <2>3 DEF Cmd
    <3>2. dev_inc = FALSE
      BY <2>1 DEF Types
    <3> QED BY <1>2, <1>4, <2>1, <2>3, <3>1, <3>2 DEF Serve
  <2>5. /\ Grown(Ahead, Ahead') /\ Grammar(Ahead') /\ Ahead' \in Seq(Char)
        /\ Len(Ahead) \in Nat /\ Len(Ahead') \in Nat /\ Len(Ahead') >= Len(Ahead) + 1
        /\ \A p \in 1 .. Len(Ahead) : Ahead'[p] = Ahead[p]
        /\ Ahead'[Len(Ahead) + 1] = "K"
        /\ \A p \in Len(Ahead) + 2 .. Len(Ahead') : Ahead'[p] \in Digit
        /\ \A l \in Letter : Pending(l)' = Pending(l) + (IF "K" = l THEN 1 ELSE 0)
    BY <1>4, <2>4, WordReplies
  <2>6. mem' = [shadow EXCEPT ![call.a] = call.vals[d + 1]]
    <3>1. shadow \in [Mapped -> Word]
      BY DEF Types
    <3> QED BY <1>2, <2>1, <2>4, <3>1
  <2>7. Pending("I")' = Pending("I") /\ Pending("Z")' = Pending("Z") /\ m_nacks' + Pending("K")' = d + 1
    <3>1. Pending("K")' = Pending("K") + 1 /\ m_nacks \in Nat
      BY <1>3, <2>5 DEF Types
    <3> QED BY <1>1, <1>3, <2>1, <2>5, <3>1
  <2> DEFINE y == Ahead'
  <2> HIDE DEF y
  <2>8. ASSUME NEW p \in 1 .. Len(y), p \notin 1 .. Len(Ahead)
        PROVE  y[p] \in Digit \cup {"K"} /\ p > Len(Ahead)
    <3>1. Len(Ahead) \in Nat /\ Len(y) \in Nat
      BY <2>5 DEF y
    <3>2. p = Len(Ahead) + 1 \/ p \in Len(Ahead) + 2 .. Len(y)
      BY <2>8, <3>1
    <3>3. p > Len(Ahead)
      BY <2>8, <3>1
    <3> QED BY <2>5, <3>2, <3>3 DEF y
  <2>9. "A" \notin Digit /\ "R" \notin Digit /\ "E" \notin Digit
    BY Letters DEF Letter
  <2>10. \A p \in 1 .. Len(y) : y[p] \notin {"R", "E"}
    <3> TAKE p \in 1 .. Len(y)
    <3>1. CASE p \in 1 .. Len(Ahead)
      BY <2>1, <2>5, <3>1 DEF y
    <3>2. CASE p \notin 1 .. Len(Ahead)
      BY <2>8, <2>9, <3>2
    <3> QED BY <3>1, <3>2
  <2>11. ASSUME NEW p \in 1 .. Len(y), y[p] = "A"
         PROVE  /\ m_nacks = 0 /\ \A k \in 1 .. Len(y) : y[k] = "K" => p < k
                /\ Holds(y, word, p, AddrWord, TRUE \in usage.reads)
    <3>1. p \in 1 .. Len(Ahead)
      BY <2>8, <2>9, <2>11
    <3>2. Ahead[p] = "A"
      BY <2>5, <2>11, <3>1 DEF y
    <3>3. /\ m_nacks = 0 /\ \A k \in 1 .. Len(Ahead) : Ahead[k] = "K" => p < k
          /\ Holds(Ahead, word, p, AddrWord, TRUE \in usage.reads)
      BY <1>6, <3>1, <3>2 DEF Written, Confirming
    <3>4. Holds(y, word, p, AddrWord, TRUE \in usage.reads)
      BY <1>4, <2>5, <3>1, <3>3, HoldsGrown DEF y
    <3>5. ASSUME NEW k \in 1 .. Len(y), y[k] = "K" PROVE p < k
      <4>1. CASE k \in 1 .. Len(Ahead)
        BY <2>5, <3>3, <3>5, <4>1 DEF y
      <4>2. CASE k \notin 1 .. Len(Ahead)
        <5>1. k > Len(Ahead)
          BY <2>8, <4>2
        <5>2. Len(Ahead) \in Nat
          BY <2>5
        <5> QED BY <3>1, <5>1, <5>2
      <4> QED BY <4>1, <4>2
    <3> QED BY <3>3, <3>4, <3>5
  <2>12. Confirming'
    <3>1. (\A p \in 1 .. Len(y) : y[p] # "A") => \A p \in 1 .. Len(Ahead) : Ahead[p] # "A"
      <4>1. ASSUME NEW p \in 1 .. Len(Ahead) PROVE p \in 1 .. Len(y) /\ y[p] = Ahead[p]
        BY <2>5 DEF y
      <4> QED BY <4>1
    <3>2. TRUE \in usage.reads /\ (\A p \in 1 .. Len(y) : y[p] # "A") => ~m_inc
      BY <1>6, <3>1 DEF Written, Confirming
    <3> QED BY <1>1, <2>11, <3>2 DEF Confirming, AddrWord, y
  <2>13. Written(d + 1)'
    <3>1. d + 1 # 0
      BY <1>2
    <3> QED BY <1>1, <1>2, <2>4, <2>6, <2>7, <2>10, <2>12, <3>1 DEF Written, y
  <2>14. \E k \in 0 .. Words' : Written(k)'
    <3>1. d + 1 \in 0 .. Words'
      BY <1>2, <2>3
    <3> QED BY <2>13, <3>1
  <2>15. WriteOK'
    BY <1>1, <2>14 DEF WriteOK, Length
  <2> QED BY <2>5, <2>7, <2>15
<1> QED BY <1>5, <1>6 DEF WriteOK

LEMMA ServePhase ==
    ASSUME Types, Types', Grammar(Ahead), Phase, Serve
    PROVE  Phase' /\ Grammar(Ahead') /\ Pending("I")' = Pending("I") /\ Pending("Z")' = Pending("Z")
<1>1. pc' = pc /\ pc \in Where
  BY DEF Serve, host_vars, Types
<1>2. CASE pc = "idle"
  BY <1>2 DEF Phase, IdleOK, Serve
<1>3. CASE pc = "readword"
  <2>1. ReadOK
    BY <1>3 DEF Phase
  <2>2. ReadOK' /\ Grammar(Ahead') /\ Pending("I")' = Pending("I") /\ Pending("Z")' = Pending("Z")
    BY <2>1, ServeRead
  <2>3. pc' = "readword"
    BY <1>1, <1>3
  <2> QED BY <2>2, <2>3, Zenon DEF Phase
<1>4. CASE pc \in {"acks", "readidle"}
  <2>1. WriteOK
    BY <1>4 DEF Phase
  <2>2. WriteOK' /\ Grammar(Ahead') /\ Pending("I")' = Pending("I") /\ Pending("Z")' = Pending("Z")
    BY <2>1, ServeWrite
  <2>3. pc' \in {"acks", "readidle"}
    BY <1>1, <1>4
  <2> QED BY <2>2, <2>3, Zenon DEF Phase
<1>5. CASE pc = "exit"
  BY <1>5 DEF Phase
<1> QED BY <1>1, <1>2, <1>3, <1>4, <1>5 DEF Where

-----------------------------------------------------------------------------
(* readword takes a character.                                                *)

LEMMA FewCounted ==
    ASSUME NEW x \in Seq(Char), NEW q, Count(x, "Z") < AbortCountdown
    PROVE  FewZs(x, q, AbortCountdown)
<1>1. ASSUME NEW i \in 1 .. Len(x), NEW j \in 1 .. Len(x), NEW h \in 1 .. Len(x),
             i < j, j < h, x[i] = "Z", x[j] = "Z", x[h] = "Z"
      PROVE  FALSE
  <2> DEFINE S == {k \in 1 .. Len(x) : x[k] = "Z"}
  <2>1. IsFiniteSet(S) /\ Cardinality(S) = Count(x, "Z") /\ Count(x, "Z") \in Nat
    BY CountType DEF Count
  <2>2. {i, j, h} \subseteq S
    BY <1>1
  <2>3. Cardinality({i, j, h}) = 3
    <3>1. i # j /\ j # h /\ i # h
      <4>1. i \in Int /\ j \in Int /\ h \in Int
        BY LenProperties
      <4> QED BY <1>1, <4>1
    <3>2. IsFiniteSet({i}) /\ Cardinality({i}) = 1
      BY FS_Singleton
    <3>3. IsFiniteSet({i, j}) /\ Cardinality({i, j}) = 2
      <4>1. {i, j} = {i} \cup {j} /\ j \notin {i}
        BY <3>1
      <4>2. IsFiniteSet({i} \cup {j}) /\ Cardinality({i} \cup {j}) = Cardinality({i}) + 1
        BY <3>2, <4>1, FS_AddElement
      <4>3. Cardinality({i} \cup {j}) = 1 + 1 /\ 1 + 1 = 2
        <5>1. 1 + 1 = 2
          OBVIOUS
        <5> QED BY <3>2, <4>2, <5>1, Zenon
      <4> QED BY <4>1, <4>2, <4>3, Zenon
    <3>4. {i, j, h} = {i, j} \cup {h} /\ h \notin {i, j}
      BY <3>1
    <3>5. Cardinality({i, j} \cup {h}) = Cardinality({i, j}) + 1
      BY <3>3, <3>4, FS_AddElement
    <3>6. 2 + 1 = 3
      OBVIOUS
    <3> QED BY <3>3, <3>4, <3>5, <3>6, Zenon
  <2> HIDE DEF S
  <2>4. Cardinality({i, j, h}) <= Cardinality(S)
    BY <2>1, <2>2, FS_Subset
  <2> QED BY <2>1, <2>3, <2>4 DEF AbortCountdown
<1> QED BY <1>1 DEF FewZs, AbortCountdown

LEMMA FewIdles ==
    ASSUME Types, Counts, Served(usage)
    PROVE  FewZs(Ahead, Len(Ahead) + 1, AbortCountdown)
<1>1. Stream \in Seq(Char) /\ Cur \in Char /\ Ahead \in Seq(Char)
  BY Characters
<1>2. Pending("Z") = Count(Stream, "Z") + (IF Cur = "Z" THEN 1 ELSE 0) /\ Pending("Z") \in Nat
  BY PendingIs DEF Letter
<1>3. <<Cur>> \in Seq(Char)
  BY <1>1, Single
<1>4. Count(<<Cur>> \o Stream, "Z") = Count(<<Cur>>, "Z") + Count(Stream, "Z")
  BY <1>1, <1>3, CountJoin
<1>5. Count(<<Cur>>, "Z") = IF Cur = "Z" THEN 1 ELSE 0
  BY CountOne
<1>6. Count(Stream, "Z") \in Nat
  BY <1>1, CountType
<1>7. Count(Ahead, "Z") = Pending("Z")
  <2>1. Count(Ahead, "Z") = Count(<<Cur>>, "Z") + Count(Stream, "Z")
    BY <1>4, Zenon DEF Ahead
  <2> QED BY <1>2, <1>5, <1>6, <2>1
<1>8. Pending("Z") <= usage.idles /\ usage.idles < AbortCountdown /\ usage.idles \in Nat
  BY HostAssumption DEF Counts, Served, Types, AbortCountdown
<1>9. Count(Ahead, "Z") < AbortCountdown
  BY <1>2, <1>7, <1>8 DEF AbortCountdown
<1> QED BY <1>1, <1>9, FewCounted

\* One more digit of the word it is in.
LEMMA DigitRead ==
    ASSUME Types, Types', Grammar(Ahead), ReadOK, TakeDigit,
           UNCHANGED <<call, n, buf, outcome, m_inc, m_lastaddr, abort_countdown, sent,
                       dev_addr, dev_inc, mem, usage, shadow, erred>>
    PROVE  ReadOK'
<1>1. /\ Continued(Ahead, Ahead') /\ Ahead' \in Seq(Char)
      /\ Len(Ahead) >= 2 /\ Ahead[2] \in Digit /\ Ahead[1] \in {"A", "R", "K"}
      /\ word' = (Base * word + Worth(Ahead[2])) % Power[WordLen]
  BY DigitTaken
<1>2. Len(Ahead') = Len(Ahead) - 1 /\ Len(Ahead) \in Nat /\ Ahead'[1] = Ahead[1]
      /\ \A i \in 2 .. Len(Ahead') : Ahead'[i] = Ahead[i + 1]
  BY <1>1, Characters DEF Continued
<1>3. Ahead \in Seq(Char) /\ AddrWord \in Word /\ Spot(n) \in Addr /\ word \in Word
      /\ Ahead[1] \in Answer /\ Ahead[1] # "Z" /\ 1 \in 1 .. Len(Ahead)
  <2>1. call.a \in Addr /\ call.inc \in BOOLEAN /\ n \in Nat /\ word \in Word
    BY DEF Types, Call
  <2>2. Ahead \in Seq(Char)
    BY Characters
  <2>3. AddrWord \in Word
    BY <2>1, AddressWords DEF AddrWord
  <2>4. Spot(n) \in Addr
    BY <2>1, Advances DEF Spot
  <2> QED BY <1>1, <1>2, <2>1, <2>2, <2>3, <2>4 DEF Answer
<1> DEFINE y == Ahead'
<1> DEFINE q(k) == IF k = 1 THEN 1 ELSE k - 1
<1>4. ASSUME NEW k \in 1 .. Len(Ahead) + 1, k # 2,
             OnlyConfirms(Ahead, word, k, n = 0, AddrWord), FewZs(Ahead, k, abort_countdown)
      PROVE  OnlyConfirms(y, word', q(k), n = 0, AddrWord) /\ FewZs(y, q(k), abort_countdown)
  <2>1. OnlyConfirms(y, (Base * word + Worth(Ahead[2])) % Power[WordLen], q(k), n = 0, AddrWord)
    BY <1>1, <1>3, <1>4, ConfirmsContinued
  <2>2. FewZs(y, q(k), abort_countdown)
    BY <1>1, <1>3, <1>4, FewContinued
  <2> QED BY <1>1, <2>1, <2>2, Zenon
<1>5. ~Asking
  BY <1>3 DEF Asking
<1>6. ASSUME Asked PROVE Asked'
  <2>1. Len(Ahead) + 1 \in 1 .. Len(Ahead) + 1 /\ Len(Ahead) + 1 # 2 /\ q(Len(Ahead) + 1) = Len(y) + 1
    BY <1>1, <1>2
  <2>2. OnlyConfirms(y, word', q(Len(Ahead) + 1), n = 0, AddrWord)
        /\ FewZs(y, q(Len(Ahead) + 1), abort_countdown)
    BY <1>4, <1>6, <2>1 DEF Asked
  <2>3. OnlyConfirms(y, word', Len(y) + 1, n = 0, AddrWord) /\ FewZs(y, Len(y) + 1, abort_countdown)
    BY <2>1, <2>2, Zenon
  <2> HIDE DEF y, q
  <2> QED BY <1>6, <2>3 DEF Asked, AddrWord, Spot, y
<1>7. ASSUME NEW k \in 1 .. Len(Ahead), Answered(k)
      PROVE  \E r \in 1 .. Len(y) : Answered(r)'
  <2>1. Ahead[k] \in {"R", "E"} /\ k # 2 /\ k \in 1 .. Len(Ahead) + 1
    <3>1. Ahead[k] \in {"R", "E"}
      BY <1>7 DEF Answered
    <3>2. "R" \notin Digit /\ "E" \notin Digit
      BY Letters DEF Letter
    <3> QED BY <1>1, <1>2, <3>1, <3>2
  <2>2. PICK r : r = q(k)
    OBVIOUS
  <2>3. OnlyConfirms(y, word', r, n = 0, AddrWord) /\ FewZs(y, r, abort_countdown)
    <3>1. OnlyConfirms(y, word', q(k), n = 0, AddrWord) /\ FewZs(y, q(k), abort_countdown)
      BY <1>4, <1>7, <2>1 DEF Answered
    <3> QED BY <2>2, <3>1, Zenon
  <2>4. r \in 1 .. Len(y) /\ y[r] = Ahead[k]
    <3>1. CASE k = 1
      BY <1>1, <1>2, <2>2, <3>1
    <3>2. CASE k # 1
      <4>1. k - 1 \in 2 .. Len(y) /\ (k - 1) + 1 = k /\ r = k - 1
        BY <1>1, <1>2, <2>1, <2>2, <3>2
      <4> QED BY <1>2, <4>1
    <3> QED BY <3>1, <3>2
  <2>5. ASSUME NEW v \in Word, Holds(Ahead, word, k, v, TRUE) PROVE Holds(y, word', r, v, TRUE)
    <3>1. CASE k = 1
      <4>1. Holds(y, (Base * word + Worth(Ahead[2])) % Power[WordLen], 1, v, TRUE)
        BY <1>1, <1>3, <2>5, <3>1, HoldsRead
      <4> QED BY <1>1, <2>2, <3>1, <4>1
    <3>2. CASE k # 1
      <4>1. k \in 3 .. Len(Ahead)
        BY <1>2, <2>1, <3>2
      <4>2. Holds(y, word', k - 1, v, TRUE)
        BY <1>1, <1>3, <2>5, <4>1, HoldsContinued
      <4> QED BY <2>2, <3>2, <4>2
    <3> QED BY <3>1, <3>2
  <2>6. \/ y[r] = "R" /\ Spot(n) \in Mapped /\ Holds(y, word', r, mem[Spot(n)], TRUE)
        \/ y[r] = "E" /\ Spot(n) \notin Mapped /\ erred
    <3>1. CASE Ahead[k] = "R" /\ Spot(n) \in Mapped /\ Holds(Ahead, word, k, mem[Spot(n)], TRUE)
      <4>1. mem[Spot(n)] \in Word
        BY <3>1 DEF Types
      <4> QED BY <2>4, <2>5, <3>1, <4>1
    <3>2. CASE Ahead[k] = "E" /\ Spot(n) \notin Mapped /\ erred
      BY <2>4, <3>2
    <3> QED BY <1>7, <3>1, <3>2 DEF Answered
  <2> HIDE DEF y, q
  <2>7. Answered(r)'
    BY <1>7, <2>3, <2>6 DEF Answered, AddrWord, Spot, y
  <2> QED BY <2>4, <2>7
<1>8. Asking' \/ Asked' \/ \E r \in 1 .. Len(Ahead') : Answered(r)'
  BY <1>5, <1>6, <1>7, Zenon DEF ReadOK
<1> HIDE DEF y, q
<1> QED BY <1>8 DEF ReadOK, ReadSoFar, Length, Spot

\* The word that ends is not the answer.
LEMMA OtherRead ==
    ASSUME Types, Types', Grammar(Ahead), ReadOK, TakeEnd, Noted, Cur \notin {"R", "E"},
           abort_countdown' = abort_countdown - (IF Cur = "Z" THEN 1 ELSE 0),
           UNCHANGED <<call, n, buf, outcome, sent, dev_addr, dev_inc, mem, usage, shadow, erred>>
    PROVE  ReadOK'
<1>1. /\ Ended(Ahead, Ahead') /\ Ahead' \in Seq(Char)
      /\ Len(Ahead) >= 2 /\ Ahead[2] \notin Digit /\ Ahead'[1] = Cur'
      /\ Ahead'[1] \in Letter => word' = 0
  BY EndTaken
<1>2. Len(Ahead') = Len(Ahead) - 1 /\ Len(Ahead) \in Nat
      /\ \A i \in 1 .. Len(Ahead') : Ahead'[i] = Ahead[i + 1]
  BY <1>1, Characters DEF Ended
<1>3. Ahead \in Seq(Char) /\ AddrWord \in Word /\ AddrWord \div 4 = call.a
      /\ (AddrWord % 2 = 0) = call.inc /\ Spot(0) = call.a /\ Ahead[1] = Cur /\ 1 \in 1 .. Len(Ahead)
  <2>1. call.a \in Addr /\ call.inc \in BOOLEAN /\ n \in Nat /\ word \in Word
    BY DEF Types, Call
  <2>2. Ahead \in Seq(Char) /\ Ahead[1] = Cur
    BY Characters
  <2>3. AddrWord \in Word /\ AddrWord \div 4 = call.a /\ (AddrWord % 2 = 0) = call.inc
    BY <2>1, AddressWords DEF AddrWord
  <2>4. Spot(0) = call.a
    BY <2>1, Advances DEF Spot
  <2> QED BY <1>1, <1>2, <2>2, <2>3, <2>4
<1>4. abort_countdown' = IF Ahead[1] = "Z" THEN abort_countdown - 1 ELSE abort_countdown
  <2>1. abort_countdown \in 1 .. 3
    BY Waiting DEF AbortCountdown
  <2> QED BY <1>3, <2>1
<1> DEFINE y == Ahead'
<1>5. ASSUME NEW q \in 2 .. Len(Ahead) + 1, OnlyConfirms(Ahead, word, q, n = 0, AddrWord)
      PROVE  OnlyConfirms(y, word', q - 1, n = 0, AddrWord)
  <2>1. y[1] = "A" => word' = 0
    BY <1>1 DEF Letter
  <2> QED BY <1>1, <1>3, <1>5, <2>1, ConfirmsEnded
<1>6. ASSUME NEW q \in 2 .. Len(Ahead) + 1, FewZs(Ahead, q, abort_countdown)
      PROVE  FewZs(y, q - 1, abort_countdown')
  BY <1>1, <1>3, <1>4, <1>6, FewEnded
<1>7. m_lastaddr' = Spot(n) /\ m_inc' = call.inc
  <2>1. m_lastaddr = Spot(n) /\ m_inc = call.inc
    BY DEF ReadOK
  <2>2. CASE Cur = "A"
    <3>1. OnlyConfirms(Ahead, word, Len(Ahead) + 1, n = 0, AddrWord)
          \/ \E q \in 1 .. Len(Ahead) : Answered(q)
      BY Waiting
    <3>2. n = 0 /\ Holds(Ahead, word, 1, AddrWord, TRUE)
      <4>1. CASE OnlyConfirms(Ahead, word, Len(Ahead) + 1, n = 0, AddrWord)
        <5>1. 1 # Len(Ahead) + 1
          BY <1>2, <1>1
        <5> QED BY <1>3, <2>2, <4>1, <5>1 DEF OnlyConfirms, Answer
      <4>2. CASE \E q \in 1 .. Len(Ahead) : Answered(q)
        BY <1>3, <2>2, <4>2 DEF Answered, OnlyConfirms, Answer
      <4> QED BY <3>1, <4>1, <4>2
    <3>3. word = AddrWord
      BY <1>1, <1>3, <3>2, WordRead
    <3> QED BY <1>3, <2>2, <3>2, <3>3 DEF Noted
  <2>3. CASE Cur # "A"
    <3>1. Cur \notin {"A", "R", "K"}
      BY <2>3, Waiting
    <3> QED BY <2>1, <3>1 DEF Noted
  <2> QED BY <2>2, <2>3
<1>8. ASSUME Asking PROVE Asking'
  <2>1. \A p \in 1 .. Len(y) : y[p] \notin Answer
    <3> TAKE p \in 1 .. Len(y)
    <3>1. p + 1 \in 1 .. Len(Ahead)
      BY <1>2
    <3> QED BY <1>2, <1>8, <3>1 DEF Asking
  <2>2. Len(Ahead) + 1 \in 2 .. Len(Ahead) + 1 /\ (Len(Ahead) + 1) - 1 = Len(y) + 1
    BY <1>1, <1>2
  <2>3. FewZs(y, (Len(Ahead) + 1) - 1, abort_countdown')
    BY <1>6, <1>8, <2>2 DEF Asking
  <2>4. FewZs(y, Len(y) + 1, abort_countdown')
    BY <2>2, <2>3, Zenon
  <2> HIDE DEF y
  <2> QED BY <1>8, <2>1, <2>4 DEF Asking, y
<1>9. ASSUME Asked PROVE Asked'
  <2>1. Len(Ahead) + 1 \in 2 .. Len(Ahead) + 1 /\ (Len(Ahead) + 1) - 1 = Len(y) + 1
    BY <1>1, <1>2
  <2>2. FewZs(y, (Len(Ahead) + 1) - 1, abort_countdown')
        /\ OnlyConfirms(y, word', (Len(Ahead) + 1) - 1, n = 0, AddrWord)
    BY <1>5, <1>6, <1>9, <2>1 DEF Asked
  <2>3. FewZs(y, Len(y) + 1, abort_countdown') /\ OnlyConfirms(y, word', Len(y) + 1, n = 0, AddrWord)
    BY <2>1, <2>2, Zenon
  <2> HIDE DEF y
  <2> QED BY <1>9, <2>3 DEF Asked, AddrWord, Spot, y
<1>10. ASSUME NEW k \in 1 .. Len(Ahead), Answered(k)
       PROVE  \E r \in 1 .. Len(y) : Answered(r)'
  <2>1. Ahead[k] \in {"R", "E"} /\ k # 1 /\ k \in 2 .. Len(Ahead) /\ k \in 2 .. Len(Ahead) + 1
    <3>1. Ahead[k] \in {"R", "E"}
      BY <1>10 DEF Answered
    <3> QED BY <1>2, <1>3, <3>1
  <2>2. PICK r : r = k - 1
    OBVIOUS
  <2>3. r \in 1 .. Len(y) /\ y[r] = Ahead[k]
    <3>1. r \in 1 .. Len(y) /\ r + 1 = k
      BY <1>2, <2>1, <2>2
    <3> QED BY <1>2, <3>1
  <2>4. OnlyConfirms(y, word', r, n = 0, AddrWord) /\ FewZs(y, r, abort_countdown')
    <3>1. OnlyConfirms(y, word', k - 1, n = 0, AddrWord) /\ FewZs(y, k - 1, abort_countdown')
      BY <1>5, <1>6, <1>10, <2>1 DEF Answered
    <3> QED BY <2>2, <3>1, Zenon
  <2>5. ASSUME NEW v \in Word, Ahead[k] = "R", Holds(Ahead, word, k, v, TRUE)
        PROVE  Holds(y, word', r, v, TRUE)
    <3>1. k = 2 => word' = 0
      <4>1. k = 2 => y[1] = "R"
        BY <1>2, <2>2, <2>3, <2>5
      <4> QED BY <1>1, <4>1 DEF Letter
    <3>2. Holds(y, word', k - 1, v, TRUE)
      BY <1>1, <1>3, <2>1, <2>5, <3>1, HoldsEnded
    <3> QED BY <2>2, <3>2, Zenon
  <2>6. \/ y[r] = "R" /\ Spot(n) \in Mapped /\ Holds(y, word', r, mem[Spot(n)], TRUE)
        \/ y[r] = "E" /\ Spot(n) \notin Mapped /\ erred
    <3>1. CASE Ahead[k] = "R" /\ Spot(n) \in Mapped /\ Holds(Ahead, word, k, mem[Spot(n)], TRUE)
      <4>1. mem[Spot(n)] \in Word
        BY <3>1 DEF Types
      <4> QED BY <2>3, <2>5, <3>1, <4>1
    <3>2. CASE Ahead[k] = "E" /\ Spot(n) \notin Mapped /\ erred
      BY <2>3, <3>2
    <3> QED BY <1>10, <3>1, <3>2 DEF Answered
  <2> HIDE DEF y
  <2>7. Answered(r)'
    BY <1>10, <2>4, <2>6 DEF Answered, AddrWord, Spot, y
  <2> QED BY <2>3, <2>7
<1>11. Asking' \/ Asked' \/ \E r \in 1 .. Len(Ahead') : Answered(r)'
  BY <1>8, <1>9, <1>10, Zenon DEF ReadOK
<1> HIDE DEF y
<1> QED BY <1>7, <1>11 DEF ReadOK, ReadSoFar, Length, Spot

\* The host is inside the answer, and there is none behind it.
LEMMA Arrived ==
    ASSUME Types, ReadOK, Cur \in {"R", "E"}
    PROVE  Answered(1) /\ \A p \in 2 .. Len(Ahead) : Ahead[p] \notin Answer
<1>1. Ahead[1] = Cur /\ 1 \in 1 .. Len(Ahead) /\ Len(Ahead) \in Nat /\ 1 # Len(Ahead) + 1
      /\ Ahead[1] \in Answer /\ Ahead[1] # "A"
  BY Characters DEF Answer
<1>2. ~Asking
  BY <1>1 DEF Asking
<1>3. ~Asked
  BY <1>1 DEF Asked, OnlyConfirms
<1>4. PICK q \in 1 .. Len(Ahead) : Answered(q)
  BY <1>2, <1>3 DEF ReadOK
<1>5. q = 1
  BY <1>1, <1>4 DEF Answered, OnlyConfirms
<1>6. ASSUME NEW p \in 2 .. Len(Ahead) PROVE Ahead[p] \notin Answer
  <2>1. p \in 1 .. Len(Ahead) /\ p # 1 /\ ~(p < 1)
    BY <1>1
  <2> QED BY <1>4, <1>5, <2>1 DEF Answered, OnlyConfirms
<1> QED BY <1>4, <1>5, <1>6

LEMMA AnswerTaken ==
    ASSUME Types, Types', Grammar(Ahead), ReadOK, Counts, Served(usage),
           TakeEnd, Noted, Cur = "R", GotWord, pc = "readword",
           UNCHANGED <<call, dev_addr, dev_inc, mem, usage, shadow, erred>>
    PROVE  Phase'
<1>1. /\ Ended(Ahead, Ahead') /\ Ahead' \in Seq(Char)
      /\ Len(Ahead) >= 2 /\ Ahead[2] \notin Digit
  BY EndTaken
<1>2. Len(Ahead') = Len(Ahead) - 1 /\ Len(Ahead) \in Nat
      /\ \A i \in 1 .. Len(Ahead') : Ahead'[i] = Ahead[i + 1]
  BY <1>1, Characters DEF Ended
<1>3. Answered(1) /\ Ahead[1] = "R" /\ Ahead \in Seq(Char)
      /\ \A p \in 2 .. Len(Ahead) : Ahead[p] \notin Answer
  BY Arrived, Characters
<1>4. /\ sent = <<>> /\ dev_addr = Spot(n + 1) /\ dev_inc = call.inc
      /\ Spot(n) \in Mapped /\ Holds(Ahead, word, 1, mem[Spot(n)], TRUE)
  BY <1>3 DEF Answered
<1>5. word = mem[Spot(n)]
  <2>1. mem[Spot(n)] \in Word
    BY <1>4 DEF Types
  <2> QED BY <1>1, <1>3, <1>4, <2>1, WordRead
<1>6. call.a \in Addr /\ call.inc \in BOOLEAN /\ n \in Nat /\ Length \in Nat /\ n < Length
      /\ m_inc = call.inc /\ m_lastaddr = Spot(n) /\ call.op = "readv" /\ buf \in Seq(Word)
      /\ word \in Word /\ mem = shadow /\ ReadSoFar
  BY LenProperties DEF Types, Call, ReadOK, Length
<1>7. m_lastaddr' = Spot(n + 1) /\ m_inc' = call.inc
  <2>1. Advance(Spot(n), call.inc, 1) = Spot(n + 1)
    BY <1>6, Advances DEF Spot
  <2>2. m_lastaddr' = NextAddress /\ m_inc' = m_inc
    BY DEF Noted
  <2> QED BY <1>6, <2>1, <2>2 DEF NextAddress
<1>8. \A p \in 1 .. Len(Ahead') : Ahead'[p] \notin Answer
  <2> TAKE p \in 1 .. Len(Ahead')
  <2>1. p + 1 \in 2 .. Len(Ahead)
    BY <1>2
  <2> QED BY <1>2, <1>3, <2>1
<1>9. buf' = Append(buf, word) /\ n' = n + 1 /\ abort_countdown' = AbortCountdown
  BY DEF GotWord
<1>10. ReadSoFar'
  <2>1. Len(buf') = n' /\ (\A i \in 1 .. n : buf'[i] = buf[i]) /\ buf'[n + 1] = word
    <3>1. Len(buf) = n
      BY <1>6 DEF ReadSoFar
    <3> QED BY <1>6, <1>9, <3>1, AppendProperties
  <2>2. ASSUME NEW i \in 1 .. n + 1
        PROVE  Spot(i - 1) \in Mapped /\ buf'[i] = mem[Spot(i - 1)]
    <3>1. CASE i \in 1 .. n
      BY <1>6, <2>1, <3>1 DEF ReadSoFar
    <3>2. CASE i = n + 1
      <4>1. i - 1 = n
        BY <1>6, <3>2
      <4> QED BY <1>4, <1>5, <2>1, <3>2, <4>1
    <3> QED BY <1>6, <3>1, <3>2
  <2> QED BY <1>9, <2>1, <2>2 DEF ReadSoFar, Spot
<1>11. Length' = Length
  BY DEF Length
<1>12. CASE n + 1 < Length
  <2>1. sent' = <<Cmd("RD", 0, FALSE)>> /\ pc' = pc /\ outcome' = outcome
    <3>1. sent' = Append(sent, Cmd("RD", 0, FALSE)) /\ pc' = pc /\ outcome' = outcome
      <4>1. ~(n + 1 = Len(call.vals))
        BY <1>6, <1>12 DEF Length
      <4> QED BY <4>1 DEF GotWord
    <3>2. Append(<<>>, Cmd("RD", 0, FALSE)) = <<Cmd("RD", 0, FALSE)>>
      BY Appended
    <3> QED BY <1>4, <3>1, <3>2, Zenon
  <2> DEFINE y == Ahead'
  <2>2. OnlyConfirms(y, word', Len(y) + 1, n' = 0, AddrWord)
    BY <1>8 DEF OnlyConfirms
  <2>3. FewZs(y, Len(y) + 1, AbortCountdown)
    <3>1. FewZs(Ahead, Len(Ahead) + 1, AbortCountdown)
      BY FewIdles
    <3>2. Len(Ahead) + 1 \in 2 .. Len(Ahead) + 1 /\ (Len(Ahead) + 1) - 1 = Len(y) + 1
      BY <1>1, <1>2
    <3>3. FewZs(y, (Len(Ahead) + 1) - 1, IF Ahead[1] = "Z" THEN AbortCountdown - 1 ELSE AbortCountdown)
      BY <1>1, <1>3, <3>1, <3>2, FewEnded
    <3>4. (IF Ahead[1] = "Z" THEN AbortCountdown - 1 ELSE AbortCountdown) = AbortCountdown
      BY <1>3
    <3> QED BY <3>2, <3>3, <3>4, Zenon
  <2> HIDE DEF y
  <2>4. Asked'
    BY <1>4, <1>9, <2>1, <2>2, <2>3 DEF Asked, AddrWord, Spot, y
  <2>5. ReadOK'
    BY <1>4, <1>6, <1>7, <1>9, <1>10, <1>11, <1>12, <2>1, <2>4 DEF ReadOK, Spot
  <2>6. pc' = "readword"
    BY <2>1
  <2> QED BY <2>5, <2>6, Zenon DEF Phase
<1>13. CASE ~(n + 1 < Length)
  <2>1. n + 1 = Length
    BY <1>6, <1>13
  <2>2. sent' = sent /\ ReadReturns
    <3>1. n + 1 = Len(call.vals) /\ ~(n + 1 < Len(call.vals))
      BY <2>1, <1>13 DEF Length
    <3> QED BY <3>1 DEF GotWord
  <2>3. pc' = "idle" /\ outcome' = "ok"
    <3>1. m_lastaddr' = Advance(call.a, call.inc, Len(call.vals))
      BY <1>7, <2>1 DEF Spot, Length
    <3> QED BY <2>2, <3>1 DEF ReadReturns
  <2>4. AddressAgrees'
    BY <1>4, <1>7 DEF AddressAgrees
  <2>5. IdleOK'
    BY <1>4, <1>6, <1>8, <1>9, <1>10, <1>11, <2>1, <2>2, <2>4 DEF IdleOK
  <2> QED BY <2>3, <2>5, Zenon DEF Phase
<1> QED BY <1>12, <1>13

LEMMA ErrorTaken ==
    ASSUME Types, Types', Grammar(Ahead), ReadOK, Served(usage),
           TakeEnd, Noted, Cur = "E", Throw,
           UNCHANGED <<call, n, buf, sent, dev_addr, dev_inc, mem, usage, shadow, erred>>
    PROVE  Phase' /\ erred'
<1>1. /\ Ended(Ahead, Ahead') /\ Len(Ahead) >= 2
  BY EndTaken
<1>2. Len(Ahead') = Len(Ahead) - 1 /\ Len(Ahead) \in Nat
      /\ \A i \in 1 .. Len(Ahead') : Ahead'[i] = Ahead[i + 1]
  BY <1>1, Characters DEF Ended
<1>3. Answered(1) /\ Ahead[1] = "E" /\ \A p \in 2 .. Len(Ahead) : Ahead[p] \notin Answer
  BY Arrived, Characters
<1>4. sent = <<>> /\ Spot(n) \notin Mapped /\ erred
  BY <1>3 DEF Answered
<1>5. n \in Nat /\ Length \in Nat /\ n < Length /\ mem = shadow
      /\ (~usage.errors => \A i \in 1 .. Length : Spot(i - 1) \in Mapped)
  BY LenProperties DEF Types, Call, ReadOK, Length
<1>6. usage.errors
  <2>1. n + 1 \in 1 .. Length /\ (n + 1) - 1 = n
    BY <1>5
  <2> QED BY <1>4, <1>5, <2>1
<1>7. TRUE \notin usage.writes \cup usage.reads
  BY <1>6 DEF Served
<1>8. \A p \in 1 .. Len(Ahead') : Ahead'[p] \notin Answer
  <2> TAKE p \in 1 .. Len(Ahead')
  <2>1. p + 1 \in 2 .. Len(Ahead)
    BY <1>2
  <2> QED BY <1>2, <1>3, <2>1
<1>9. AddressAgrees'
  BY <1>7 DEF AddressAgrees
<1>10. pc' = "idle" /\ outcome' = "buserr"
  BY DEF Throw
<1>11. IdleOK'
  BY <1>4, <1>5, <1>8, <1>9, <1>10 DEF IdleOK
<1> QED BY <1>4, <1>10, <1>11, Zenon DEF Phase

LEMMA ReadWordPhase ==
    ASSUME Types, Types', Grammar(Ahead), Phase, Counts, Served(usage), NoFalseError, ReadWord
    PROVE  Phase' /\ NoFalseError'
<1>1. /\ pc = "readword" /\ ReadOK
      /\ UNCHANGED <<call, port_vars, usage, shadow, erred, cleared>>
  BY ReadTaken
<1>2. UNCHANGED <<dev_addr, dev_inc, mem>>
  BY <1>1 DEF port_vars
<1>3. outcome = "none"
  BY <1>1 DEF ReadOK
<1>4. CASE /\ TakeDigit
           /\ UNCHANGED <<m_isspace, m_cmd, addr_vars, m_nacks, flags, pc, outcome,
                          abort_countdown, n, buf, sent>>
  <2>1. ReadOK'
    BY <1>1, <1>2, <1>4, DigitRead DEF addr_vars
  <2>2. pc' = "readword" /\ outcome' = "none"
    BY <1>1, <1>3, <1>4
  <2> QED BY <2>1, <2>2, Zenon DEF Phase, NoFalseError
<1>5. CASE TakeEnd /\ Noted /\ Cur = "R" /\ GotWord
  <2>1. Phase'
    BY <1>1, <1>2, <1>5, AnswerTaken
  <2>2. outcome' \in {"none", "ok", "exit"}
    BY <1>3, <1>5 DEF GotWord, ReadReturns
  <2> QED BY <2>1, <2>2 DEF NoFalseError
<1>6. CASE TakeEnd /\ Noted /\ Cur = "E" /\ Throw /\ UNCHANGED <<abort_countdown, n, buf, sent>>
  <2>1. Phase' /\ erred'
    BY <1>1, <1>2, <1>6, ErrorTaken
  <2> QED BY <2>1 DEF NoFalseError
<1>7. CASE /\ TakeEnd /\ Noted /\ Cur \notin {"R", "E"}
           /\ abort_countdown' = abort_countdown - (IF Cur = "Z" THEN 1 ELSE 0)
           /\ UNCHANGED <<pc, outcome, n, buf, sent>>
  <2>1. ReadOK'
    BY <1>1, <1>2, <1>7, OtherRead
  <2>2. pc' = "readword" /\ outcome' = "none"
    BY <1>1, <1>3, <1>7
  <2> QED BY <2>1, <2>2, Zenon DEF Phase, NoFalseError
<1> QED BY <1>4, <1>5, <1>6, <1>7, ReadTaken

-----------------------------------------------------------------------------
(* readidle, and writev around it.                                            *)

LEMMA ReadIdlePhase ==
    ASSUME Types, Types', Grammar(Ahead), Phase, ReadIdle
    PROVE  Phase'
<1>1. /\ pc = "readidle" /\ WriteOK
      /\ UNCHANGED <<call, n, buf, sent, port_vars, usage, shadow, erred, pc, outcome>>
      /\ \/ TakeDigit /\ UNCHANGED <<m_cmd, m_isspace, addr_vars, m_nacks, flags>>
         \/ TakeEnd /\ Noted
  BY IdleTaken
<1>2. UNCHANGED <<dev_addr, dev_inc, mem>>
  BY <1>1 DEF port_vars
<1>3. call.a \in Addr /\ call.inc = FALSE /\ AddrWord \in Word /\ AddrWord % 2 # 0
      /\ word \in Word /\ Ahead \in Seq(Char) /\ Ahead[1] = Cur /\ Words' = Words
      /\ \A d : Writing(d)' = Writing(d)
  <2>1. call.a \in Addr /\ call.inc = FALSE /\ word \in Word
    BY <1>1 DEF Types, Call, WriteOK
  <2>2. AddrWord \in Word /\ (AddrWord % 2 = 0) = call.inc
    BY <2>1, AddressWords DEF AddrWord
  <2>3. Words' = Words /\ \A d : Writing(d)' = Writing(d)
    BY <1>1 DEF Words, Writing, Length
  <2> QED BY <2>1, <2>2, <2>3, Characters
<1> DEFINE y == Ahead'
<1>4. /\ y \in Seq(Char) /\ Len(Ahead) \in Nat /\ Len(Ahead) >= 2 /\ Len(y) = Len(Ahead) - 1
      /\ \A i \in 2 .. Len(y) : y[i] = Ahead[i + 1]
      /\ \/ /\ TakeDigit /\ Continued(Ahead, y) /\ Ahead[2] \in Digit /\ y[1] = Ahead[1]
            /\ word' = (Base * word + Worth(Ahead[2])) % Power[WordLen]
            /\ \A l \in Letter : Pending(l)' = Pending(l)
            /\ UNCHANGED <<m_inc, m_nacks>>
         \/ /\ TakeEnd /\ Noted /\ Ended(Ahead, y) /\ Ahead[2] \notin Digit /\ y[1] = Ahead[2]
            /\ (y[1] \in Letter => word' = 0)
            /\ \A l \in Letter : Pending(l) = Pending(l)' + (IF Ahead[1] = l THEN 1 ELSE 0)
  <2>1. Len(Ahead) \in Nat
    BY Characters
  <2>2. CASE TakeDigit /\ UNCHANGED <<m_cmd, m_isspace, addr_vars, m_nacks, flags>>
    <3>1. /\ Continued(Ahead, Ahead') /\ Ahead' \in Seq(Char)
          /\ Len(Ahead) >= 2 /\ Ahead[2] \in Digit
          /\ word' = (Base * word + Worth(Ahead[2])) % Power[WordLen]
          /\ \A l \in Letter : Pending(l)' = Pending(l)
      BY <2>2, DigitTaken
    <3>2. /\ Len(Ahead') = Len(Ahead) - 1 /\ Ahead'[1] = Ahead[1]
          /\ \A i \in 2 .. Len(Ahead') : Ahead'[i] = Ahead[i + 1]
      BY <3>1 DEF Continued
    <3> QED BY <2>1, <2>2, <3>1, <3>2 DEF addr_vars
  <2>3. CASE TakeEnd /\ Noted
    <3>1. /\ Ended(Ahead, Ahead') /\ Ahead' \in Seq(Char)
          /\ Len(Ahead) >= 2 /\ Ahead[2] \notin Digit
          /\ Ahead'[1] \in Letter => word' = 0
          /\ \A l \in Letter : Pending(l) = Pending(l)' + (IF Ahead[1] = l THEN 1 ELSE 0)
      BY <2>3, EndTaken
    <3>2. Len(Ahead') = Len(Ahead) - 1 /\ \A i \in 1 .. Len(Ahead') : Ahead'[i] = Ahead[i + 1]
      BY <3>1 DEF Ended
    <3>3. 1 \in 1 .. Len(Ahead') /\ 1 + 1 = 2 /\ \A i \in 2 .. Len(Ahead') : i \in 1 .. Len(Ahead')
      BY <2>1, <3>1, <3>2
    <3>4. Ahead'[1] = Ahead[2]
      BY <3>2, <3>3
    <3>5. \A i \in 2 .. Len(Ahead') : Ahead'[i] = Ahead[i + 1]
      BY <3>2, <3>3
    <3> QED BY <2>1, <2>3, <3>1, <3>2, <3>4, <3>5
  <2> QED BY <1>1, <2>2, <2>3
<1> HIDE DEF y
<1>5. ASSUME NEW p \in 1 .. Len(y)
      PROVE  \E k \in 1 .. Len(Ahead) : y[p] = Ahead[k] /\ (k = p + 1 \/ (k = 1 /\ p = 1 /\ TakeDigit))
  <2>1. CASE p = 1
    <3>1. 1 \in 1 .. Len(Ahead) /\ 2 \in 1 .. Len(Ahead) /\ 2 = 1 + 1
      BY <1>4
    <3> QED BY <1>4, <2>1, <3>1
  <2>2. CASE p # 1
    <3>1. p \in 2 .. Len(y) /\ p + 1 \in 1 .. Len(Ahead)
      BY <1>4, <2>2
    <3> QED BY <1>4, <3>1
  <2> QED BY <2>1, <2>2
<1>6. CASE Opening
  <2>1. \A p \in 1 .. Len(y) : y[p] \notin Answer
    BY <1>5, <1>6 DEF Opening
  <2>2. 1 \in 1 .. Len(Ahead)
    BY <1>4
  <2>3. m_nacks' = m_nacks
    <3>1. Ahead[1] # "K" /\ m_nacks \in Nat
      BY <1>6, <2>2 DEF Opening, Answer, Types
    <3> QED BY <1>3, <1>4, <3>1 DEF Noted
  <2>4. Opening'
    BY <1>1, <1>2, <1>3, <1>6, <2>1, <2>3 DEF Opening, y
  <2>5. WriteOK'
    BY <1>1, <2>4 DEF WriteOK, Length
  <2>6. pc' = "readidle"
    BY <1>1
  <2> QED BY <2>5, <2>6, Zenon DEF Phase
<1>7. ASSUME NEW d \in 0 .. Words, Written(d)
      PROVE  Phase'
  <2>1. \A p \in 1 .. Len(y) : y[p] \notin {"R", "E"}
    BY <1>5, <1>7 DEF Written
  <2>2. m_nacks' + Pending("K")' = d
    <3>1. m_nacks + Pending("K") = d /\ "K" \in Letter /\ m_nacks \in Nat /\ Pending("K") \in Nat
      BY <1>7, PendingIs DEF Written, Letter, Types
    <3>2. Pending("K")' = Count(Stream', "K") + (IF Cur' = "K" THEN 1 ELSE 0) /\ Count(Stream', "K") \in Nat
      BY <3>1, PendingNext
    <3>3. PICK k \in Nat : k = Pending("K")'
      BY <3>2
    <3>4. CASE TakeDigit /\ Pending("K")' = Pending("K") /\ m_nacks' = m_nacks
      BY <3>1, <3>4
    <3>5. CASE m_nacks' = m_nacks + (IF Cur = "K" THEN 1 ELSE 0)
               /\ Pending("K") = Pending("K")' + (IF Cur = "K" THEN 1 ELSE 0)
      BY <3>1, <3>3, <3>5
    <3> QED BY <1>3, <1>4, <3>1, <3>4, <3>5 DEF Noted
  <2>3. ASSUME NEW p \in 1 .. Len(y), y[p] = "A"
        PROVE  /\ m_nacks' = 0 /\ \A k \in 1 .. Len(y) : y[k] = "K" => p < k
               /\ Holds(y, word', p, AddrWord, TRUE \in usage.reads)
    <3>1. PICK i \in 1 .. Len(Ahead) : Ahead[i] = "A" /\ (i = p + 1 \/ (i = 1 /\ p = 1 /\ TakeDigit))
      BY <1>5, <2>3
    <3>2. /\ m_nacks = 0 /\ \A k \in 1 .. Len(Ahead) : Ahead[k] = "K" => i < k
          /\ Holds(Ahead, word, i, AddrWord, TRUE \in usage.reads)
      BY <1>7, <3>1 DEF Written, Confirming
    <3>3. m_nacks' = 0
      <4>1. 1 \in 1 .. Len(Ahead) /\ ~(i < 1)
        BY <1>4
      <4>2. Ahead[1] # "K"
        BY <3>2, <4>1
      <4> QED BY <1>3, <1>4, <3>2, <4>2 DEF Noted
    <3>4. ASSUME NEW k \in 1 .. Len(y), y[k] = "K" PROVE p < k
      <4>1. PICK j \in 1 .. Len(Ahead) : Ahead[j] = "K" /\ (j = k + 1 \/ (j = 1 /\ k = 1 /\ TakeDigit))
        BY <1>5, <3>4
      <4>2. i < j
        BY <3>2, <4>1
      <4>3. p # k
        BY <2>3, <3>4
      <4> QED BY <1>4, <3>1, <4>1, <4>2, <4>3
    <3>5. Holds(y, word', p, AddrWord, TRUE \in usage.reads)
      <4>1. CASE i = 1 /\ p = 1 /\ TakeDigit
        <5>1. Continued(Ahead, y) /\ word' = (Base * word + Worth(Ahead[2])) % Power[WordLen]
          BY <1>4, <4>1 DEF TakeDigit, TakeEnd
        <5>2. Holds(Ahead, word, 1, AddrWord, TRUE \in usage.reads)
          BY <3>2, <4>1
        <5>3. Holds(y, (Base * word + Worth(Ahead[2])) % Power[WordLen], 1, AddrWord, TRUE \in usage.reads)
          BY <1>3, <1>4, <5>1, <5>2, HoldsRead
        <5> QED BY <4>1, <5>1, <5>3, Zenon
      <4>2. CASE i = p + 1 /\ Continued(Ahead, y) /\ Ahead[2] \in Digit
        <5>1. i # 2
          BY <3>1, <4>2, Letters DEF Letter
        <5>2. i \in 3 .. Len(Ahead) /\ i - 1 = p
          BY <1>4, <4>2, <5>1
        <5>3. Holds(y, word', i - 1, AddrWord, TRUE \in usage.reads)
          BY <1>3, <1>4, <3>2, <4>2, <5>2, HoldsContinued
        <5> QED BY <5>2, <5>3, Zenon
      <4>3. CASE i = p + 1 /\ Ended(Ahead, y) /\ (y[1] \in Letter => word' = 0)
        <5>1. i \in 2 .. Len(Ahead) /\ i - 1 = p
          BY <1>4, <4>3
        <5>2. i = 2 => word' = 0
          <6>1. i = 2 => y[1] = "A"
            BY <2>3, <5>1
          <6> QED BY <4>3, <6>1 DEF Letter
        <5>3. Holds(y, word', i - 1, AddrWord, TRUE \in usage.reads)
          BY <1>3, <1>4, <3>2, <4>3, <5>1, <5>2, HoldsEnded
        <5> QED BY <5>1, <5>3, Zenon
      <4> QED BY <1>4, <3>1, <4>1, <4>2, <4>3
    <3> QED BY <3>3, <3>4, <3>5
  <2>4. TRUE \in usage.reads /\ (\A p \in 1 .. Len(y) : y[p] # "A") => ~m_inc'
    <3> SUFFICES ASSUME TRUE \in usage.reads, \A p \in 1 .. Len(y) : y[p] # "A"
                 PROVE  ~m_inc'
      OBVIOUS
    <3>1. 1 \in 1 .. Len(Ahead) /\ 1 \in 1 .. Len(y)
      BY <1>4
    <3>2. CASE Ahead[1] = "A"
      <4>1. TakeEnd /\ Noted /\ Ahead[2] \notin Digit
        BY <1>4, <3>1, <3>2
      <4>2. Holds(Ahead, word, 1, AddrWord, TRUE)
        <5>1. Holds(Ahead, word, 1, AddrWord, TRUE \in usage.reads)
          BY <1>7, <3>1, <3>2 DEF Written, Confirming
        <5> QED BY <5>1 DEF Holds
      <4>3. word = AddrWord
        BY <1>3, <1>4, <4>1, <4>2, WordRead
      <4> QED BY <1>3, <3>2, <4>1, <4>3 DEF Noted
    <3>3. CASE Ahead[1] # "A"
      <4>1. \A p \in 1 .. Len(Ahead) : Ahead[p] # "A"
        <5> TAKE p \in 1 .. Len(Ahead)
        <5>1. CASE p = 1
          BY <3>3, <5>1
        <5>2. CASE p = 2
          <6>1. Ahead[2] \in Digit \/ Ahead[2] = y[1]
            BY <1>4
          <6>2. "A" \notin Digit
            BY Letters DEF Letter
          <6> QED BY <3>1, <5>2, <6>1, <6>2
        <5>3. CASE p \notin {1, 2}
          <6>1. p - 1 \in 2 .. Len(y) /\ (p - 1) + 1 = p /\ p - 1 \in 1 .. Len(y)
            BY <1>4, <5>3
          <6> QED BY <1>4, <6>1
        <5> QED BY <5>1, <5>2, <5>3
      <4>2. ~m_inc
        BY <1>7, <4>1 DEF Written, Confirming
      <4>3. Ahead[1] # "R"
        BY <1>7, <3>1 DEF Written
      <4>4. m_inc' = m_inc
        BY <1>3, <1>4, <3>3, <4>3 DEF Noted
      <4> QED BY <4>2, <4>4
    <3> QED BY <3>2, <3>3
  <2>5. Confirming'
    BY <1>1, <2>3, <2>4 DEF Confirming, AddrWord, y
  <2>6. Written(d)'
    BY <1>1, <1>2, <1>3, <1>7, <2>1, <2>2, <2>5 DEF Written, y
  <2>7. WriteOK'
    BY <1>1, <1>3, <2>6 DEF WriteOK, Length
  <2>8. pc' = "readidle"
    BY <1>1
  <2> QED BY <2>7, <2>8, Zenon DEF Phase
<1> QED BY <1>1, <1>6, <1>7 DEF WriteOK

LEMMA WriteWordPhase ==
    ASSUME Types, Phase, WriteWord
    PROVE  Phase'
<1>1. /\ pc = "acks" /\ n < Len(call.vals) /\ n' = n + 1 /\ m_nacks >= n
      /\ sent' = (IF n + 1 < Len(call.vals) THEN Append(sent, Cmd("WR", call.vals[n + 2], FALSE)) ELSE sent)
      /\ UNCHANGED <<pc, call, outcome, m_nacks, m_inc, word, dev_addr, dev_inc, mem, usage, shadow, Ahead>>
      /\ Pending("K")' = Pending("K")
  <2>1. Stay
    BY DEF WriteWord, Stay, Stream, Cur, port_vars
  <2>2. Ahead' = Ahead
    BY <2>1 DEF Stay, Ahead
  <2>3. Pending("K")' = Pending("K")
    BY DEF Pending, Stream, WriteWord, port_vars
  <2>4. m_nacks >= n
    BY DEF WriteWord, Missing, Types
  <2> QED BY <2>2, <2>3, <2>4 DEF WriteWord, addr_vars, port_vars
<1>2. WriteOK
  BY <1>1 DEF Phase
<1>3. Words \in Nat /\ Words = n + 1 /\ n \in Nat /\ Length \in Nat /\ Length > 0 /\ n < Length
      /\ call.vals \in Seq(Word) /\ Length' = Length
      /\ Words' = (IF n + 1 < Length THEN n + 2 ELSE n + 1)
  <2>1. n \in Nat /\ Length \in Nat /\ Length > 0 /\ n < Length /\ call.vals \in Seq(Word) /\ Length' = Length
    BY <1>1, <1>2, WordsAre DEF Length
  <2>2. Words = n + 1
    BY <2>1 DEF Words
  <2>3. Words' = IF n' < Length' THEN n' + 1 ELSE Length'
    BY DEF Words
  <2>4. Words' = (IF n + 1 < Length THEN n + 2 ELSE n + 1)
    <3>1. n' = n + 1
      BY <1>1
    <3> QED BY <2>1, <2>3, <3>1
  <2> QED BY <2>1, <2>2, <2>4
\* What is sent after it.
<1>4. ASSUME NEW d \in 0 .. Words
      PROVE  \/ Words' = Words /\ Writing(d)' = Writing(d)
             \/ /\ Words' = Words + 1
                /\ Writing(d) \in Seq(CommandWord)
                /\ Writing(d)' = Append(Writing(d), Cmd("WR", call.vals[n + 2], FALSE))
                /\ n + 1 < Len(call.vals)
  <2>1. CASE ~(n + 1 < Length)
    <3>1. Words' = Words
      BY <1>3, <2>1
    <3>2. Writing(d)' = Writing(d)
      BY <1>1, <3>1 DEF Writing
    <3> QED BY <3>1, <3>2
  <2>2. CASE n + 1 < Length
    <3>1. Words' = n + 2
      BY <1>3, <2>2
    <3> DEFINE f(i) == Cmd("WR", call.vals[d + i], FALSE)
    <3>2. Writing(d) = [i \in 1 .. (n + 1) - d |-> f(i)]
      BY <1>3 DEF Writing
    <3>3. Writing(d)' = [i \in 1 .. (n + 2) - d |-> f(i)]
      <4>1. Writing(d)' = [i \in 1 .. Words' - d |-> Cmd("WR", call'.vals[d + i], FALSE)]
        BY DEF Writing
      <4>2. call' = call
        BY <1>1
      <4> QED BY <3>1, <4>1, <4>2, Zenon
    <3>4. d \in 0 .. n + 1
      BY <1>3
    <3>5. \A i \in 1 .. (n + 2) - d : f(i) \in CommandWord
      <4> TAKE i \in 1 .. (n + 2) - d
      <4>1. d + i \in 1 .. Len(call.vals)
        BY <1>3, <2>2, <3>4 DEF Length
      <4>2. call.vals[d + i] \in Word
        BY <1>3, <4>1, ElementOfSeq
      <4> QED BY <4>2 DEF Cmd, CommandWord
    <3>6. f((n + 2) - d) = Cmd("WR", call.vals[n + 2], FALSE)
      <4>1. d + ((n + 2) - d) = n + 2
        BY <1>3, <3>4
      <4> QED BY <4>1, Zenon
    <3> HIDE DEF f
    <3> DEFINE k == (n + 1) - d
    <3>7. k \in Nat /\ (n + 2) - d = k + 1
      BY <1>3, <3>4
    <3> HIDE DEF k
    <3> DEFINE a == [i \in 1 .. k |-> f(i)]
    <3> DEFINE b == [i \in 1 .. k + 1 |-> f(i)]
    <3>8. a \in Seq(CommandWord) /\ Len(a) = k /\ \A i \in 1 .. k : a[i] = f(i)
      BY <3>5, <3>7
    <3>9. b \in Seq(CommandWord) /\ DOMAIN b = 1 .. k + 1
      BY <3>5, <3>7
    <3>10. b = Append(a, f(k + 1))
      <4> DEFINE c == Append(a, f(k + 1))
      <4>1. f(k + 1) \in CommandWord
        <5>1. k + 1 \in 1 .. (n + 2) - d
          BY <3>7
        <5> QED BY <3>5, <5>1
      <4> HIDE DEF a
      <4>2. c \in Seq(CommandWord) /\ Len(c) = k + 1 /\ (\A i \in 1 .. k : c[i] = a[i]) /\ c[k + 1] = f(k + 1)
        BY <3>8, <4>1, AppendProperties
      <4>3. DOMAIN c = 1 .. k + 1 /\ c = [i \in DOMAIN c |-> c[i]]
        BY <4>2, LenProperties
      <4> HIDE DEF c
      <4>4. \A i \in 1 .. k + 1 : c[i] = f(i)
        BY <3>7, <3>8, <4>2
      <4>5. c = b
        BY <4>3, <4>4
      <4> QED BY <4>5 DEF c
    <3>11. Writing(d) = a /\ Writing(d)' = b
      BY <3>2, <3>3, <3>7, Zenon DEF k
    <3>12. f(k + 1) = Cmd("WR", call.vals[n + 2], FALSE)
      BY <3>6, <3>7
    <3>13. Words' = Words + 1 /\ n + 1 < Len(call.vals)
      BY <1>3, <2>2, <3>1 DEF Length
    <3> HIDE DEF a, b
    <3> QED BY <3>8, <3>10, <3>11, <3>12, <3>13
  <2> QED BY <2>1, <2>2
<1>5. sent \in Seq(CommandWord)
  BY DEF Types
<1>6. CASE Opening
  <2>1. sent = <<Cmd("ADDR", call.a, FALSE)>> \o Writing(0) /\ 0 \in 0 .. Words
    BY <1>3, <1>6 DEF Opening
  <2>2. sent' = <<Cmd("ADDR", call.a, FALSE)>> \o Writing(0)'
    <3>1. CASE Words' = Words /\ Writing(0)' = Writing(0)
      <4>1. ~(n + 1 < Len(call.vals))
        BY <1>3, <3>1 DEF Length
      <4>2. sent' = sent
        BY <1>1, <4>1
      <4> QED BY <2>1, <3>1, <4>2, Zenon
    <3>2. CASE /\ Words' = Words + 1
               /\ Writing(0) \in Seq(CommandWord)
               /\ Writing(0)' = Append(Writing(0), Cmd("WR", call.vals[n + 2], FALSE))
               /\ n + 1 < Len(call.vals)
      <4> DEFINE c == Cmd("ADDR", call.a, FALSE)
      <4> DEFINE w == Cmd("WR", call.vals[n + 2], FALSE)
      <4> DEFINE s == Writing(0)
      <4>1. c \in CommandWord
        BY WordsAre, <1>2 DEF Cmd, CommandWord
      <4>2. w \in CommandWord
        <5>1. n + 2 \in 1 .. Len(call.vals)
          BY <1>3, <3>2 DEF Length
        <5>2. call.vals[n + 2] \in Word
          BY <1>3, <5>1, ElementOfSeq
        <5> QED BY <5>2 DEF Cmd, CommandWord
      <4>3. s \in Seq(CommandWord)
        BY <3>2
      <4>4. sent' = Append(sent, w) /\ sent = <<c>> \o s /\ s' = Append(s, w)
        BY <1>1, <2>1, <3>2
      <4> HIDE DEF c, w, s
      <4>5. Append(<<c>> \o s, w) = <<c>> \o Append(s, w)
        BY <4>1, <4>2, <4>3, AppendJoined
      <4> QED BY <4>4, <4>5, Zenon DEF c, s
    <3> QED BY <1>4, <2>1, <3>1, <3>2
  <2>3. Opening'
    BY <1>1, <1>6, <2>2 DEF Opening
  <2>4. n' <= Length' /\ Length' > 0
    BY <1>1, <1>3
  <2>5. WriteOK'
    BY <1>1, <1>2, <2>3, <2>4 DEF WriteOK
  <2>6. pc' = "acks"
    BY <1>1
  <2> QED BY <2>5, <2>6, Zenon DEF Phase
<1>7. ASSUME NEW d \in 0 .. Words, Written(d)
      PROVE  Phase'
  <2>1. sent = Writing(d)
    BY <1>7 DEF Written
  <2>2. sent' = Writing(d)' /\ d \in 0 .. Words'
    <3>1. CASE Words' = Words /\ Writing(d)' = Writing(d)
      <4>1. ~(n + 1 < Len(call.vals))
        BY <1>3, <3>1 DEF Length
      <4>2. sent' = sent
        BY <1>1, <4>1
      <4> QED BY <1>3, <2>1, <3>1, <4>2
    <3>2. CASE /\ Words' = Words + 1
               /\ Writing(d) \in Seq(CommandWord)
               /\ Writing(d)' = Append(Writing(d), Cmd("WR", call.vals[n + 2], FALSE))
               /\ n + 1 < Len(call.vals)
      <4>1. sent' = Append(sent, Cmd("WR", call.vals[n + 2], FALSE))
        BY <1>1, <3>2
      <4>2. sent' = Writing(d)'
        BY <2>1, <3>2, <4>1, Zenon
      <4>3. d \in 0 .. Words'
        BY <1>3, <3>2
      <4> QED BY <4>2, <4>3
    <3> QED BY <1>4, <2>1, <3>1, <3>2
  <2>3. Confirming'
    BY <1>1, <1>7 DEF Written, Confirming, AddrWord
  <2>4. Written(d)'
    BY <1>1, <1>7, <2>2, <2>3 DEF Written
  <2>5. n' <= Length' /\ Length' > 0
    BY <1>1, <1>3
  <2>6. WriteOK'
    BY <1>1, <1>2, <2>2, <2>4, <2>5 DEF WriteOK
  <2>7. pc' = "acks"
    BY <1>1
  <2> QED BY <2>6, <2>7, Zenon DEF Phase
<1> QED BY <1>2, <1>6, <1>7 DEF WriteOK

LEMMA WriteReturnsPhase ==
    ASSUME Types, Phase, WriteReturns, Served(usage)
    PROVE  Phase'
<1>1. /\ pc = "acks" /\ n = Len(call.vals) /\ m_nacks >= n /\ pc' = "idle" /\ outcome' = "ok"
      /\ UNCHANGED <<call, m_inc, word, sent, dev_addr, dev_inc, mem, usage, Ahead>>
  <2>1. Stay
    BY DEF WriteReturns, Stay, Stream, Cur, port_vars
  <2>2. Ahead' = Ahead
    BY <2>1 DEF Stay, Ahead
  <2>3. m_nacks >= n
    BY DEF WriteReturns, Missing, Types
  <2> QED BY <2>2, <2>3 DEF WriteReturns, port_vars
<1>2. WriteOK
  BY <1>1 DEF Phase
<1>3. Words = Length /\ n = Length /\ Length \in Nat /\ Length > 0 /\ call.a \in Addr /\ call.a \in Mapped
      /\ call.inc = FALSE /\ call.op \in {"writev", "writeio"}
  <2>1. n = Length /\ Length \in Nat /\ Length > 0 /\ call.a \in Addr /\ call.a \in Mapped
    BY <1>1, <1>2, WordsAre DEF Length
  <2>2. call.inc = FALSE /\ call.op \in {"writev", "writeio"}
    BY <1>2 DEF WriteOK, Types, Call
  <2> QED BY <2>1, <2>2 DEF Words
<1>4. ~Opening
  BY <1>1, <1>3 DEF Opening
<1>5. PICK d \in 0 .. Words : Written(d)
  BY <1>2, <1>4 DEF WriteOK
<1>6. d = Length /\ Pending("K") = 0 /\ m_nacks > 0
  <2>1. Pending("K") \in Nat /\ m_nacks \in Nat
    BY PendingIs DEF Letter, Types
  <2>2. m_nacks + Pending("K") = d
    BY <1>5 DEF Written
  <2> QED BY <1>1, <1>3, <2>1, <2>2
<1>7. \A p \in 1 .. Len(Ahead) : Ahead[p] \notin Answer
  <2> TAKE p \in 1 .. Len(Ahead)
  <2>1. Ahead[p] # "K"
    BY <1>6, PendingIs DEF Letter
  <2>2. Ahead[p] # "A"
    <3>1. Confirming /\ m_nacks # 0
      BY <1>5, <1>6 DEF Written
    <3> QED BY <3>1 DEF Confirming
  <2>3. Ahead[p] \notin {"R", "E"}
    BY <1>5 DEF Written
  <2> QED BY <2>1, <2>2, <2>3 DEF Answer
<1>8. sent = <<>>
  <2>1. Writing(d) = <<>>
    BY <1>2, <1>3, <1>5, <1>6, NextWritten
  <2> QED BY <1>5, <2>1 DEF Written
<1>9. mem = shadow'
  <2> DEFINE Here(a) == {i \in DOMAIN call.vals : Advance(call.a, call.inc, i - 1) = a}
  <2> DEFINE last(a) == CHOOSE i \in Here(a) : \A j \in Here(a) : j <= i
  <2>1. shadow' = [a \in Mapped |-> IF Here(a) = {} THEN shadow[a] ELSE call.vals[last(a)]]
    BY DEF WriteReturns
  <2>2. \A i \in DOMAIN call.vals : Advance(call.a, call.inc, i - 1) = call.a
    <3> TAKE i \in DOMAIN call.vals
    <3>1. DOMAIN call.vals = 1 .. Length
      BY LenProperties DEF Types, Call, Length
    <3>2. i - 1 \in Nat
      BY <1>3, <3>1
    <3>3. Advance(call.a, FALSE, i - 1) = call.a
      BY <1>3, <3>2, Advances
    <3> QED BY <1>3, <3>3
  <2>3. DOMAIN call.vals = 1 .. Length /\ Length \in DOMAIN call.vals
    <3>1. DOMAIN call.vals = 1 .. Length
      BY LenProperties DEF Types, Call, Length
    <3> QED BY <1>3, <3>1
  <2>4. Here(call.a) = 1 .. Length
    BY <2>2, <2>3
  <2>5. \A a : a # call.a => Here(a) = {}
    BY <2>2
  <2>6. last(call.a) = Length
    <3>1. last(call.a) = CHOOSE i \in 1 .. Length : \A j \in 1 .. Length : j <= i
      BY <2>4, Zenon
    <3>2. \E i \in 1 .. Length : \A j \in 1 .. Length : j <= i
      <4>1. Length \in 1 .. Length /\ \A j \in 1 .. Length : j <= Length
        BY <1>3
      <4> QED BY <4>1
    <3>3. last(call.a) \in 1 .. Length /\ \A j \in 1 .. Length : j <= last(call.a)
      BY <3>1, <3>2, Zenon
    <3> HIDE DEF last
    <3>4. Length <= last(call.a)
      BY <1>3, <3>3
    <3> QED BY <1>3, <3>3, <3>4
  <2>7. Here(call.a) # {}
    <3>1. Length \in 1 .. Length
      BY <1>3
    <3> HIDE DEF Here
    <3> QED BY <2>4, <3>1, Zenon
  <2> HIDE DEF Here, last
  <2>8. shadow' = [a \in Mapped |-> IF a = call.a THEN call.vals[Length] ELSE shadow[a]]
    BY <2>1, <2>5, <2>6, <2>7
  <2>9. mem = [shadow EXCEPT ![call.a] = call.vals[Length]]
    BY <1>3, <1>5, <1>6 DEF Written
  <2>10. shadow \in [Mapped -> Word]
    BY DEF Types
  <2> QED BY <2>8, <2>9, <2>10
<1>10. AddressAgrees'
  <2>1. TRUE \in usage.reads => ~m_inc
    <3>1. \A p \in 1 .. Len(Ahead) : Ahead[p] # "A"
      BY <1>7 DEF Answer
    <3> QED BY <1>5, <3>1 DEF Written, Confirming
  <2>2. TRUE \notin usage.writes
    BY DEF Served
  <2> QED BY <1>1, <2>1, <2>2 DEF AddressAgrees
<1>11. IdleOK'
  <2>1. call'.op # "readv"
    BY <1>1, <1>3
  <2> QED BY <1>1, <1>7, <1>8, <1>9, <1>10, <2>1 DEF IdleOK
<1> QED BY <1>1, <1>11, Zenon DEF Phase

LEMMA AroundPhase ==
    ASSUME Types, Phase, Lines, EnterReadIdle \/ LeaveReadIdle, Served(usage)
    PROVE  Phase'
<1>1. /\ pc \in {"acks", "readidle"} /\ pc' \in {"acks", "readidle"}
      /\ UNCHANGED <<call, n, outcome, m_nacks, m_inc, sent, dev_addr, dev_inc, mem, usage, shadow, Ahead>>
      /\ Pending("K")' = Pending("K")
  <2>1. Stay
    BY DEF EnterReadIdle, LeaveReadIdle, Stay, Stream, Cur, port_vars
  <2>2. Ahead' = Ahead
    BY <2>1 DEF Stay, Ahead
  <2>3. UNCHANGED <<m_cmd, m_isspace, Stream>>
    BY <2>1 DEF Stay, EnterReadIdle, LeaveReadIdle
  <2>4. Pending("K")' = Pending("K")
    BY <2>3, Zenon DEF Pending
  <2> QED BY <2>4, <2>2, <2>3 DEF EnterReadIdle, LeaveReadIdle, addr_vars, port_vars
<1>2. WriteOK
  BY <1>1 DEF Phase
<1>3. Words' = Words /\ \A d : Writing(d)' = Writing(d)
  BY <1>1 DEF Words, Writing, Length
<1>4. CASE Opening
  <2>1. Opening'
    BY <1>1, <1>3, <1>4 DEF Opening
  <2>2. WriteOK'
    BY <1>1, <1>2, <2>1 DEF WriteOK, Length
  <2> QED BY <1>1, <2>2, Zenon DEF Phase
<1>5. ASSUME NEW d \in 0 .. Words, Written(d)
      PROVE  Phase'
  <2>1. ASSUME NEW p \in 1 .. Len(Ahead), Ahead[p] = "A"
        PROVE  Holds(Ahead, word', p, AddrWord, TRUE \in usage.reads)
    <3>1. Holds(Ahead, word, p, AddrWord, TRUE \in usage.reads)
      BY <1>5, <2>1 DEF Written, Confirming
    <3>2. CASE word' = word
      BY <3>1, <3>2
    <3>3. CASE p # 1
      BY <3>1, <3>3 DEF Holds
    <3>4. CASE p = 1 /\ EnterReadIdle
      <4>1. word' = 0 /\ pc = "acks"
        BY <3>4 DEF EnterReadIdle
      <4>2. Ahead[1] = Cur
        BY Characters
      <4>3. usage.pieces
        BY <2>1, <3>4, <4>1, <4>2 DEF Lines, Answer
      <4>4. TRUE \notin usage.reads
        BY <1>2, <4>3 DEF Served, WriteOK
      <4>5. AddrWord \in Word
        <5>1. call.a \in Addr /\ call.inc \in BOOLEAN
          BY DEF Types, Call
        <5> QED BY <5>1, AddressWords DEF AddrWord
      <4>6. \A j \in 0 .. WordLen : 0 <= Top(AddrWord, j)
        <5> TAKE j \in 0 .. WordLen
        <5>1. Top(AddrWord, j) \in Nat
          BY <4>5, TopOf, WordsAndDigits
        <5> QED BY <5>1
      <4> QED BY <3>1, <3>4, <4>1, <4>4, <4>6 DEF Holds
    <3>5. word' = word \/ EnterReadIdle
      BY DEF LeaveReadIdle
    <3> QED BY <3>2, <3>3, <3>4, <3>5
  <2>2. Confirming'
    BY <1>1, <1>5, <2>1 DEF Written, Confirming, AddrWord
  <2>3. Written(d)'
    BY <1>1, <1>3, <1>5, <2>2 DEF Written
  <2>4. WriteOK'
    BY <1>1, <1>2, <1>3, <2>3 DEF WriteOK, Length
  <2> QED BY <1>1, <2>4, Zenon DEF Phase
<1> QED BY <1>2, <1>4, <1>5 DEF WriteOK

-----------------------------------------------------------------------------
(* Calls begin, and what happens between them.                                *)

LEMMA WritesPhase ==
    ASSUME Types, Types', Phase, Served(usage), Writes
    PROVE  Phase'
<1>1. PICK io \in BOOLEAN, a \in Addr, inc \in usage.writes, vals \in Lists(Values) :
           /\ {Advance(a, inc, i - 1) : i \in DOMAIN vals} \subseteq Mapped
           /\ CallWrite(io, a, inc, vals)
  BY DEF Writes
<1>2. inc = FALSE /\ FALSE \in usage.writes
  BY <1>1 DEF Served
<1>3. PICK k \in 1 .. MaxLen : vals \in [1 .. k -> Values]
  BY <1>1 DEF Lists
<1>4. vals \in Seq(Word) /\ Len(vals) = k /\ DOMAIN vals = 1 .. k /\ k \in Nat /\ k > 0 /\ 1 \in DOMAIN vals
  BY <1>3, HostAssumption
<1>5. a \in Mapped
  <2>1. Advance(a, inc, 1 - 1) \in Mapped
    BY <1>1, <1>4
  <2>2. Advance(a, inc, 0) = a
    BY <1>2, Advances
  <2> QED BY <2>1, <2>2
<1>6. /\ pc = "idle" /\ pc' = "acks" /\ outcome' = "none" /\ n' = 0 /\ m_nacks' = 0
      /\ call' = [op |-> IF io THEN "writeio" ELSE "writev", a |-> a, inc |-> FALSE, vals |-> vals]
      /\ sent' = sent \o AddressCommand(a, FALSE) \o <<Cmd("WR", vals[1], FALSE)>>
      /\ UNCHANGED <<word, dev_addr, dev_inc, mem, usage, shadow, Ahead>>
  <2>1. Stay
    BY <1>1 DEF CallWrite, Stay, Stream, Cur, port_vars
  <2>2. Ahead' = Ahead
    BY <2>1 DEF Stay, Ahead
  <2> QED BY <1>1, <1>2, <2>2 DEF CallWrite, Begin, port_vars
<1>7. IdleOK
  BY <1>6 DEF Phase
<1>8. AddressCommand(a, FALSE) = <<Cmd("ADDR", a, FALSE)>> /\ sent = <<>>
  BY <1>7 DEF AddressCommand, IdleOK
<1>9. sent' = <<Cmd("ADDR", a, FALSE)>> \o <<Cmd("WR", vals[1], FALSE)>>
  <2> DEFINE c == <<Cmd("ADDR", a, FALSE)>>
  <2> DEFINE w == <<Cmd("WR", vals[1], FALSE)>>
  <2>1. c \in Seq({Cmd("ADDR", a, FALSE)})
    BY Single
  <2>2. sent' = (<<>> \o c) \o w
    BY <1>6, <1>8, Zenon
  <2> HIDE DEF c, w
  <2>3. <<>> \o c = c
    BY <2>1, ConcatEmptySeq
  <2> QED BY <2>2, <2>3, Zenon DEF c, w
<1>10. Length' = k /\ Words' = 1
  <2>1. Length' = k
    BY <1>4, <1>6 DEF Length
  <2>2. Words' = IF n' < Length' THEN n' + 1 ELSE Length'
    BY DEF Words
  <2> QED BY <1>4, <1>6, <2>1, <2>2
<1>11. Writing(0)' = <<Cmd("WR", vals[1], FALSE)>>
  <2>1. Writing(0)' = [i \in 1 .. Words' - 0 |-> Cmd("WR", call'.vals[0 + i], FALSE)]
    BY DEF Writing
  <2>2. call'.vals = vals
    BY <1>6
  <2>3. Words' - 0 = 1 /\ 0 + 1 = 1
    BY <1>10
  <2> DEFINE f(i) == Cmd("WR", vals[0 + i], FALSE)
  <2>4. Writing(0)' = [i \in 1 .. 1 |-> f(i)]
    BY <2>1, <2>2, <2>3, Zenon
  <2>5. f(1) = Cmd("WR", vals[1], FALSE)
    BY <2>3, Zenon
  <2> HIDE DEF f
  <2>6. [i \in 1 .. 1 |-> f(i)] = <<f(1)>>
    OBVIOUS
  <2> QED BY <2>4, <2>5, <2>6, Zenon
<1>12. Opening'
  BY <1>6, <1>7, <1>9, <1>11 DEF Opening, IdleOK
<1>13. WriteOK'
  <2>1. call'.op \in {"writev", "writeio"} /\ call'.inc = FALSE /\ call'.a = a
    BY <1>6
  <2>2. Length' > 0 /\ n' <= Length' /\ outcome' = "none" /\ usage' = usage
    BY <1>4, <1>6, <1>10
  <2> QED BY <1>2, <1>5, <1>12, <2>1, <2>2 DEF WriteOK
<1>14. pc' \in {"acks", "readidle"}
  BY <1>6
<1> QED BY <1>13, <1>14, Zenon DEF Phase

LEMMA Both == ASSUME NEW a, NEW b PROVE <<a>> \o <<b>> = <<a, b>>
<1> DEFINE S == {a, b}
<1>1. <<a>> \in Seq(S) /\ <<b>> \in Seq(S) /\ <<a, b>> \in Seq(S)
  OBVIOUS
<1> HIDE DEF S
<1> DEFINE x == <<a>>
<1> DEFINE y == <<b>>
<1> DEFINE z == <<a, b>>
<1>2. Len(x) = 1 /\ Len(y) = 1 /\ Len(z) = 2 /\ x[1] = a /\ y[1] = b /\ z[1] = a /\ z[2] = b
  OBVIOUS
<1> HIDE DEF x, y, z
<1>3. x \in Seq(S) /\ y \in Seq(S) /\ z \in Seq(S)
  BY <1>1 DEF x, y, z
<1>5. x \o y \in Seq(S) /\ Len(x \o y) = 2 /\ (x \o y)[1] = a /\ (x \o y)[2] = b
  BY <1>2, <1>3, ConcatProperties
<1>6. \A i \in 1 .. 2 : (x \o y)[i] = z[i]
  BY <1>2, <1>5
<1>4. x \o y = z
  BY <1>2, <1>3, <1>5, <1>6, SeqEqual
<1> QED BY <1>4 DEF x, y, z

LEMMA ReadsPhase ==
    ASSUME Types, Types', Phase, Counts, Served(usage), Reads
    PROVE  Phase'
<1>1. PICK a \in Addr, inc \in usage.reads, len \in 1 .. MaxLen :
           /\ usage.errors \/ {Advance(a, inc, i - 1) : i \in 1 .. len} \subseteq Mapped
           /\ CallRead(a, inc, len)
  BY DEF Reads
<1> DEFINE vals == [i \in 1 .. len |-> 0]
<1>2. len \in Nat /\ len > 0 /\ inc \in BOOLEAN /\ Len(vals) = len
  BY HostAssumption DEF Types
<1> HIDE DEF vals
<1>3. /\ pc = "idle" /\ pc' = "readword" /\ outcome' = "none" /\ n' = 0 /\ buf' = <<>>
      /\ call' = [op |-> "readv", a |-> a, inc |-> inc, vals |-> vals]
      /\ sent' = sent \o AddressCommand(a, inc) \o <<Cmd("RD", 0, FALSE)>>
      /\ m_lastaddr' = a /\ m_inc' = inc /\ abort_countdown' = AbortCountdown
      /\ UNCHANGED <<dev_addr, dev_inc, mem, usage, shadow, Ahead>>
  <2>1. Stay
    BY <1>1 DEF CallRead, Stay, Stream, Cur, port_vars
  <2>2. Ahead' = Ahead
    BY <2>1 DEF Stay, Ahead
  <2> QED BY <1>1, <2>2 DEF CallRead, Begin, port_vars, vals
<1>4. IdleOK
  BY <1>3 DEF Phase
<1>5. FewZs(Ahead, Len(Ahead) + 1, AbortCountdown)
  BY FewIdles
<1>6. Length' = len /\ Spot(0)' = a /\ \A i : Spot(i)' = Advance(a, inc, i)
  <2>1. Advance(a, inc, 0) = a
    BY <1>2, Advances
  <2> QED BY <1>2, <1>3, <2>1 DEF Length, Spot
<1>7. Asking' \/ Asked'
  <2> DEFINE c == Cmd("ADDR", a, inc)
  <2> DEFINE r == Cmd("RD", 0, FALSE)
  <2> HIDE DEF c, r
  <2>1. sent' = AddressCommand(a, inc) \o <<r>>
    <3>1. AddressCommand(a, inc) \in Seq({c})
      <4>1. <<c>> \in Seq({c}) /\ <<>> \in Seq({c})
        BY Single, EmptySeq
      <4> QED BY <4>1, Zenon DEF AddressCommand, c
    <3>2. <<>> \o AddressCommand(a, inc) = AddressCommand(a, inc)
      BY <3>1, ConcatEmptySeq
    <3>3. sent = <<>>
      BY <1>4 DEF IdleOK
    <3> QED BY <1>3, <3>2, <3>3, Zenon DEF r
  <2>2. CASE m_addr_set /\ inc /\ m_inc /\ a = m_lastaddr
    <3>1. dev_inc /\ dev_addr = a
      BY <1>3, <1>4, <2>2 DEF IdleOK, AddressAgrees
    <3>2. sent' = <<r>>
      <4>1. AddressCommand(a, inc) = <<>>
        BY <2>2 DEF AddressCommand
      <4>2. <<>> \o <<r>> = <<r>>
        OBVIOUS
      <4> QED BY <2>1, <4>1, <4>2, Zenon
    <3>3. dev_inc' = inc /\ dev_addr' = Spot(n)'
      <4>1. dev_inc = inc
        BY <2>2, <3>1 DEF Types
      <4>2. Spot(n)' = Advance(a, inc, 0)
        BY <1>3 DEF Spot
      <4>3. Advance(a, inc, 0) = a
        BY <1>2, Advances
      <4> QED BY <1>3, <3>1, <4>1, <4>2, <4>3
    <3>4. OnlyConfirms(Ahead, word', Len(Ahead) + 1, n' = 0, AddrWord')
      BY <1>4 DEF IdleOK, OnlyConfirms
    <3>5. Asked'
      BY <1>3, <1>5, <1>6, <3>1, <3>2, <3>3, <3>4 DEF Asked, r
    <3> QED BY <3>5
  <2>3. CASE ~(m_addr_set /\ inc /\ m_inc /\ a = m_lastaddr)
    <3>1. AddressCommand(a, inc) = <<c>>
      BY <2>3 DEF AddressCommand, c
    <3>2. <<c>> \o <<r>> = <<c, r>>
      BY Both
    <3>3. sent' = <<c, r>>
      BY <2>1, <3>1, <3>2, Zenon
    <3>4. Asking'
      BY <1>3, <1>4, <1>5, <3>3 DEF Asking, IdleOK, c, r
    <3> QED BY <3>4
  <2> QED BY <2>2, <2>3
<1>8. ReadSoFar'
  BY <1>3 DEF ReadSoFar
<1>9. ~usage.errors => \A i \in 1 .. len : Advance(a, inc, i - 1) \in Mapped
  BY <1>1
<1>10. ReadOK'
  BY <1>1, <1>2, <1>3, <1>4, <1>6, <1>7, <1>8, <1>9 DEF ReadOK, IdleOK
<1> QED BY <1>3, <1>10, Zenon DEF Phase
\* usleep takes characters away, none of them of an answer.
LEMMA UsleepTakes ==
    ASSUME Types, Usleep
    PROVE  \E got \in Seq(Char) :
              /\ line = got \o line' /\ Stream = got \o Stream' /\ Cur' = Cur
              /\ m_interrupt_flag' = (m_interrupt_flag \/ HasInterrupt(got))
              /\ line' \in Seq(Char) /\ Stream' \in Seq(Char)
<1>1. line \in Seq(Char) /\ wire \in Seq(Char) /\ Len(line) \in Nat
  <2>1. line \in Seq(Char) /\ wire \in Seq(Char)
    BY Characters
  <2> QED BY <2>1, LenProperties
<1> DEFINE k == IF Len(line) < 16 THEN Len(line) ELSE 16
<1> DEFINE got == SubSeq(line, 1, k)
<1>2. k \in 0 .. Len(line)
  BY <1>1
<1>3. /\ line' = SubSeq(line, k + 1, Len(line)) /\ wire' = wire
      /\ m_interrupt_flag' = (m_interrupt_flag \/ HasInterrupt(got))
      /\ Cur' = Cur
  BY DEF Usleep, port_vars, Cur
<1> HIDE DEF k
<1>4. got \in Seq(Char) /\ line' \in Seq(Char) /\ got \o line' = line
  BY <1>1, <1>2, <1>3, Cut, Rejoin
<1> HIDE DEF got
<1>5. Stream' = line' \o wire /\ Stream = (got \o line') \o wire
  BY <1>3, <1>4 DEF Stream
<1>6. (got \o line') \o wire = got \o (line' \o wire)
  <2>1. Regroups(got, line', wire)
    BY <1>1, <1>4, Grouping
  <2> QED BY <2>1 DEF Regroups
<1>7. line' \o wire \in Seq(Char)
  BY <1>1, <1>4, ConcatProperties
<1>8. Stream = got \o Stream'
  BY <1>5, <1>6, Zenon
<1> QED BY <1>3, <1>4, <1>5, <1>7, <1>8

LEMMA UsleepAhead ==
    ASSUME Types, Types', Grammar(Ahead), IdleOK, NEW got \in Seq(Char),
           Stream = got \o Stream', Cur' = Cur, Stream' \in Seq(Char)
    PROVE  /\ \A p \in 1 .. Len(Ahead') : Ahead'[p] \notin Answer
           /\ Grammar(Ahead')
           /\ \A l \in Letter : Pending(l) = Pending(l)' + Count(got, l)
<1>1. Len(got) \in Nat /\ Len(Stream') \in Nat /\ Len(Stream) = Len(got) + Len(Stream')
      /\ \A i \in 1 .. Len(Stream') : Stream[Len(got) + i] = Stream'[i]
  <2> DEFINE s == Stream'
  <2>1. s \in Seq(Char) /\ Stream = got \o s
    OBVIOUS
  <2> HIDE DEF s
  <2>2. Len(got) \in Nat /\ Len(s) \in Nat
    BY <2>1, LenProperties
  <2>3. Len(Stream) = Len(got) + Len(s)
        /\ \A i \in 1 .. Len(got) + Len(s) : Stream[i] = IF i <= Len(got) THEN got[i] ELSE s[i - Len(got)]
    BY <2>1, ConcatProperties
  <2>4. ASSUME NEW i \in 1 .. Len(s) PROVE Stream[Len(got) + i] = s[i]
    <3>1. Len(got) + i \in 1 .. Len(got) + Len(s) /\ ~(Len(got) + i <= Len(got)) /\ (Len(got) + i) - Len(got) = i
      BY <2>2
    <3> QED BY <2>3, <3>1
  <2> QED BY <2>2, <2>3, <2>4 DEF s
<1>2. /\ Ahead \in Seq(Char) /\ Len(Ahead) = Len(Stream) + 1 /\ Ahead[1] = Cur
      /\ \A i \in 1 .. Len(Stream) : Ahead[i + 1] = Stream[i]
  BY Characters
<1>3. /\ Ahead' \in Seq(Char) /\ Len(Ahead') = Len(Stream') + 1 /\ Ahead'[1] = Cur
      /\ \A i \in 1 .. Len(Stream') : Ahead'[i + 1] = Stream'[i]
  <2>1. Ahead' = <<Cur>> \o Stream'
    BY DEF Ahead
  <2>2. Cur \in Char
    BY Characters
  <2> QED BY <2>1, <2>2, Join
<1>4. ASSUME NEW p \in 1 .. Len(Ahead') PROVE \E q \in 1 .. Len(Ahead) : Ahead'[p] = Ahead[q]
  <2>1. CASE p = 1
    <3>1. 1 \in 1 .. Len(Ahead)
      BY <1>1, <1>2
    <3> QED BY <1>2, <1>3, <2>1, <3>1
  <2>2. CASE p # 1
    <3>1. p - 1 \in 1 .. Len(Stream') /\ (p - 1) + 1 = p
          /\ Len(got) + (p - 1) \in 1 .. Len(Stream) /\ Len(got) + p \in 1 .. Len(Ahead)
          /\ (Len(got) + (p - 1)) + 1 = Len(got) + p
      BY <1>1, <1>2, <1>3, <2>2
    <3>2. Ahead'[p] = Stream'[p - 1]
      BY <1>3, <3>1
    <3>3. Stream'[p - 1] = Stream[Len(got) + (p - 1)]
      BY <1>1, <3>1
    <3>4. Stream[Len(got) + (p - 1)] = Ahead[Len(got) + p]
      BY <1>2, <3>1
    <3>5. Ahead'[p] = Ahead[Len(got) + p]
      BY <3>2, <3>3, <3>4, Zenon
    <3> QED BY <3>1, <3>5, Zenon
  <2> QED BY <2>1, <2>2
<1>5. \A q \in 1 .. Len(Ahead) : Ahead[q] \notin Answer
  BY DEF IdleOK
<1>6. \A q \in 1 .. Len(Ahead) : Ahead[q] \notin Digit
  <2>1. \A q \in 1 .. Len(Ahead) : Ahead[q] \notin {"A", "R", "K"}
    BY <1>5 DEF Answer
  <2>2. Len(Ahead) >= 1
    BY <1>1, <1>2
  <2> QED BY <1>2, <2>1, <2>2, NoDigits
<1>7. \A p \in 1 .. Len(Ahead') : Ahead'[p] \notin Answer /\ Ahead'[p] \notin Digit
  BY <1>4, <1>5, <1>6
<1>8. Grammar(Ahead')
  <2>1. 1 \in 1 .. Len(Ahead')
    BY <1>1, <1>3
  <2>2. \A p \in 2 .. Len(Ahead') : p \in 1 .. Len(Ahead')
    OBVIOUS
  <2>3. Ahead'[1] \notin Digit
    BY <1>7, <2>1
  <2>4. \A p \in 2 .. Len(Ahead') : Ahead'[p] \notin Digit
    BY <1>7, <2>2
  <2> QED BY <2>3, <2>4, Zenon DEF Grammar
<1>9. ASSUME NEW l \in Letter PROVE Pending(l) = Pending(l)' + Count(got, l)
  <2>1. Pending(l) = Count(Stream, l) + (IF Cur = l THEN 1 ELSE 0)
    BY PendingIs
  <2>2. Pending(l)' = Count(Stream', l) + (IF Cur' = l THEN 1 ELSE 0) /\ Count(Stream', l) \in Nat
    BY PendingNext
  <2>3. Count(Stream, l) = Count(got, l) + Count(Stream', l)
    BY CountJoin
  <2>4. Count(got, l) \in Nat
    BY CountType
  <2> QED BY <2>1, <2>2, <2>3, <2>4
<1> QED BY <1>7, <1>8, <1>9

LEMMA UsleepPhase ==
    ASSUME Types, Types', Grammar(Ahead), Phase, Usleep
    PROVE  Phase' /\ Grammar(Ahead')
<1>1. /\ pc = "idle" /\ pc' = "idle"
      /\ UNCHANGED <<m_addr_set, m_inc, m_lastaddr, call, n, buf, outcome, sent, dev_addr, dev_inc,
                     mem, usage, shadow>>
  BY DEF Usleep, addr_vars, port_vars
<1>2. IdleOK
  BY <1>1 DEF Phase
<1>3. (\A p \in 1 .. Len(Ahead') : Ahead'[p] \notin Answer) /\ Grammar(Ahead')
  BY <1>2, UsleepTakes, UsleepAhead
<1>4. AddressAgrees'
  BY <1>1, <1>2 DEF IdleOK, AddressAgrees
<1>5. ReadSoFar => ReadSoFar'
  BY <1>1 DEF ReadSoFar, Spot
<1>6. IdleOK'
  BY <1>1, <1>2, <1>3, <1>4, <1>5 DEF IdleOK, Length
<1> QED BY <1>1, <1>3, <1>6, Zenon DEF Phase

LEMMA ClearPhase ==
    ASSUME Types, Phase, Clear
    PROVE  Phase'
<1>1. /\ pc = "idle" /\ pc' = "idle"
      /\ UNCHANGED <<m_addr_set, m_inc, m_lastaddr, call, n, buf, outcome, sent, dev_addr, dev_inc,
                     mem, usage, shadow, Ahead>>
  <2>1. Stay
    BY DEF Clear, Stay, Stream, Cur, port_vars
  <2>2. Ahead' = Ahead
    BY <2>1 DEF Stay, Ahead
  <2> QED BY <2>2 DEF Clear, addr_vars, port_vars
<1>2. IdleOK
  BY <1>1 DEF Phase
<1>3. AddressAgrees'
  BY <1>1, <1>2 DEF IdleOK, AddressAgrees
<1>4. ReadSoFar => ReadSoFar'
  BY <1>1 DEF ReadSoFar, Spot
<1>5. IdleOK'
  BY <1>1, <1>2, <1>3, <1>4 DEF IdleOK, Length
<1> QED BY <1>1, <1>5, Zenon DEF Phase

-----------------------------------------------------------------------------
(* The phase, the grammar, the end of the line and the counts, step by step.  *)

LEMMA StaySteps ==
    ASSUME Writes \/ Reads \/ Clear \/ WriteWord \/ WriteReturns \/ EnterReadIdle \/ LeaveReadIdle
    PROVE  Stay /\ UNCHANGED <<line, ints, usage>>
<1>1. CASE Writes
  <2>1. PICK io, a, inc, vals : CallWrite(io, a, inc, vals)
    BY <1>1 DEF Writes
  <2> QED BY <2>1 DEF CallWrite, Stay, Stream, Cur, port_vars
<1>2. CASE Reads
  <2>1. PICK a, inc, len : CallRead(a, inc, len)
    BY <1>2 DEF Reads
  <2> QED BY <2>1 DEF CallRead, Stay, Stream, Cur, port_vars
<1>3. CASE Clear \/ WriteWord \/ WriteReturns
  <2>1. UNCHANGED <<line, port_vars, usage, m_cmd, m_isspace>>
    BY <1>3 DEF Clear, WriteWord, WriteReturns
  <2> QED BY <2>1 DEF Stay, Stream, Cur, port_vars
<1>4. CASE EnterReadIdle \/ LeaveReadIdle
  <2>1. UNCHANGED <<line, port_vars, usage, m_cmd, m_isspace>>
    BY <1>4 DEF EnterReadIdle, LeaveReadIdle
  <2> QED BY <2>1 DEF Stay, Stream, Cur, port_vars
<1> QED BY <1>1, <1>2, <1>3, <1>4

LEMMA StepPhase ==
    ASSUME Types, Types', Grammar(Ahead), Phase, Lines, Counts, NoFalseError, Served(usage), Next
    PROVE  Phase'
<1>1. CASE Writes \/ Reads
  BY <1>1, WritesPhase, ReadsPhase
<1>2. CASE Usleep \/ Clear
  BY <1>2, UsleepPhase, ClearPhase
<1>3. CASE WriteWord \/ WriteReturns \/ EnterReadIdle \/ LeaveReadIdle
  BY <1>3, WriteWordPhase, WriteReturnsPhase, AroundPhase
<1>4. CASE ReadIdle \/ ReadWord
  BY <1>4, ReadIdlePhase, ReadWordPhase
<1>5. CASE Serve
  BY <1>5, ServePhase
<1>6. CASE Interrupt \/ EndLine \/ Idle \/ Arrive
  <2>1. PICK t : Quiet(t)
    BY <1>6, QuietIs
  <2> QED BY <2>1, QuietPhase
<1> QED BY <1>1, <1>2, <1>3, <1>4, <1>5, <1>6 DEF Next, Returns, Port

LEMMA StepGrammar ==
    ASSUME Types, Types', Grammar(Ahead), Phase, Next
    PROVE  Grammar(Ahead')
<1>1. CASE Writes \/ Reads \/ Clear \/ WriteWord \/ WriteReturns \/ EnterReadIdle \/ LeaveReadIdle
  <2>1. Ahead' = Ahead
    BY <1>1, StaySteps, Stayed
  <2> QED BY <2>1
<1>2. CASE Usleep
  BY <1>2, UsleepPhase
<1>3. CASE ReadIdle \/ ReadWord
  <2>1. TakeDigit \/ TakeEnd
    BY <1>3, IdleTaken, ReadTaken
  <2> QED BY <2>1, DigitTaken, EndTaken
<1>4. CASE Serve
  BY <1>4, ServePhase
<1>5. CASE Interrupt \/ EndLine \/ Idle \/ Arrive
  <2>1. PICK t : Quiet(t)
    BY <1>5, QuietIs
  <2> QED BY <2>1, QuietAhead
<1> QED BY <1>1, <1>2, <1>3, <1>4, <1>5 DEF Next, Returns, Port

LEMMA StepError ==
    ASSUME Types, Types', Grammar(Ahead), Phase, Counts, NoFalseError, Served(usage), Next
    PROVE  NoFalseError'
<1>1. CASE Writes
  <2>1. PICK io, a, inc, vals : CallWrite(io, a, inc, vals)
    BY <1>1 DEF Writes
  <2> QED BY <2>1 DEF CallWrite, Begin, NoFalseError
<1>2. CASE Reads
  <2>1. PICK a, inc, len : CallRead(a, inc, len)
    BY <1>2 DEF Reads
  <2> QED BY <2>1 DEF CallRead, Begin, NoFalseError
<1>3. CASE Usleep \/ Clear \/ WriteWord \/ WriteReturns \/ EnterReadIdle \/ LeaveReadIdle
  BY <1>3 DEF Usleep, Clear, WriteWord, WriteReturns, EnterReadIdle, LeaveReadIdle, NoFalseError
<1>4. CASE ReadIdle
  <2>1. UNCHANGED <<outcome, erred>>
    BY <1>4, IdleTaken
  <2> QED BY <2>1 DEF NoFalseError
<1>5. CASE ReadWord
  BY <1>5, ReadWordPhase
<1>6. CASE Serve
  BY <1>6 DEF Serve, host_vars, NoFalseError
<1>7. CASE Interrupt \/ EndLine \/ Idle \/ Arrive
  BY <1>7 DEF Interrupt, EndLine, Idle, Arrive, host_vars, NoFalseError
<1> QED BY <1>1, <1>2, <1>3, <1>4, <1>5, <1>6, <1>7 DEF Next, Returns, Port

\* The last character of a line is not lost before the others.
LEMMA LastKept ==
    ASSUME NEW s \in Seq(Char), NEW got \in Seq(Char), NEW r \in Seq(Char), s = got \o r, r # <<>>
    PROVE  Last(r) = Last(s) /\ s # <<>>
<1>1. Len(got) \in Nat /\ Len(r) \in Nat \ {0} /\ Len(s) = Len(got) + Len(r)
      /\ \A i \in 1 .. Len(got) + Len(r) : s[i] = IF i <= Len(got) THEN got[i] ELSE r[i - Len(got)]
  BY LenProperties, EmptySeq, ConcatProperties
<1>2. Len(s) \in 1 .. Len(got) + Len(r) /\ ~(Len(s) <= Len(got)) /\ Len(s) - Len(got) = Len(r)
  BY <1>1
<1>3. s[Len(s)] = r[Len(r)]
  BY <1>1, <1>2
<1>4. s # <<>>
  BY <1>1, EmptySeq
<1> QED BY <1>3, <1>4 DEF Last

LEMMA StepLines ==
    ASSUME Types, Types', Grammar(Ahead), Phase, Lines, Next
    PROVE  Lines'
<1>1. line \in Seq(Char) /\ wire \in Seq(Char) /\ Len(Ahead) >= 1 /\ Ahead[1] = Cur
  BY Characters
<1>2. pc = "idle" => Cur \notin Answer
  BY <1>1 DEF Phase, IdleOK
<1>3. CASE Writes \/ Reads \/ Clear \/ WriteWord \/ WriteReturns \/ EnterReadIdle \/ LeaveReadIdle
  <2>1. UNCHANGED <<line, usage>> /\ Cur' = Cur
    BY <1>3, StaySteps DEF Stay
  <2>2. pc' = "acks" => pc \in {"idle", "acks"} \/ line = <<>>
    <3>1. CASE Writes
      <4>1. PICK io, a, inc, vals : CallWrite(io, a, inc, vals)
        BY <3>1 DEF Writes
      <4> QED BY <4>1 DEF CallWrite, Begin
    <3>2. CASE Reads
      <4>1. PICK a, inc, len : CallRead(a, inc, len)
        BY <3>2 DEF Reads
      <4> QED BY <4>1 DEF CallRead
    <3> QED BY <1>3, <3>1, <3>2 DEF Clear, WriteWord, WriteReturns, EnterReadIdle, LeaveReadIdle
  <2> QED BY <1>2, <2>1, <2>2, Zenon DEF Lines
<1>4. CASE Usleep
  <2>1. PICK got \in Seq(Char) : line = got \o line' /\ Cur' = Cur /\ line' \in Seq(Char)
    BY <1>4, UsleepTakes
  <2>2. pc = "idle" /\ pc' = "idle" /\ usage' = usage
    BY <1>4 DEF Usleep
  <2>3. line' # <<>> => Last(line') = Last(line) /\ line # <<>>
    <3>1. PICK r \in Seq(Char) : r = line'
      BY <2>1
    <3> QED BY <1>1, <2>1, <3>1, LastKept
  <2> QED BY <1>2, <2>1, <2>2, <2>3, Zenon DEF Lines
<1>5. CASE ReadIdle \/ ReadWord
  <2>1. /\ line # <<>> /\ line' = Tail(line) /\ usage' = usage
        /\ TakeDigit \/ TakeEnd
        /\ pc' # "acks"
    <3>1. CASE ReadIdle
      BY <3>1, IdleTaken
    <3>2. CASE ReadWord
      BY <3>2, ReadTaken DEF GotWord, ReadReturns, Throw
    <3> QED BY <1>5, <3>1, <3>2
  <2>2. /\ Len(line) \in Nat \ {0} /\ Tail(line) \in Seq(Char) /\ Len(Tail(line)) = Len(line) - 1
        /\ \A i \in 1 .. Len(Tail(line)) : Tail(line)[i] = line[i + 1]
    BY <1>1, <2>1, LenProperties, EmptySeq, HeadTailProperties
  <2>3. line' # <<>> => Last(line') = Last(line)
    <3>1. CASE Tail(line) # <<>>
      <4>1. Len(Tail(line)) # 0
        BY <2>2, <3>1, EmptySeq
      <4>2. Len(Tail(line)) \in 1 .. Len(Tail(line)) /\ Len(Tail(line)) + 1 = Len(line)
        BY <2>2, <4>1
      <4>3. Tail(line)[Len(Tail(line))] = line[Len(line)]
        BY <2>2, <4>2
      <4> QED BY <2>1, <4>3 DEF Last
    <3> QED BY <2>1, <3>1
  <2>4. ASSUME line' = <<>>, ~usage.pieces PROVE Cur' \notin Answer
    <3>1. Len(line) = 1
      <4>1. Len(Tail(line)) = 0
        BY <2>1, <2>4, EmptySeq
      <4>2. Len(Tail(line)) = Len(line) - 1 /\ Len(line) \in Nat
        BY <2>2
      <4> QED BY <4>1, <4>2
    <3>2. line[1] = "NL"
      BY <2>1, <2>4, <3>1 DEF Lines, Last
    <3>3. Head(line) = line[1]
      BY <1>1, <2>1, HeadTailProperties
    <3>4. Stream[1] = Head(line)
      <4>1. Stream[1] = line[1]
        BY <1>1, <2>1, <3>3, TailJoin DEF Stream
      <4> QED BY <3>3, <4>1
    <3>5. Stream[1] = "NL"
      BY <3>2, <3>3, <3>4
    <3>6. Cur' = "NL"
      BY <2>1, <3>5, Letters DEF TakeDigit, TakeEnd
    <3> QED BY <3>6, Letters
  <2> QED BY <2>1, <2>3, <2>4, Zenon DEF Lines
<1>6. CASE Serve \/ Interrupt \/ EndLine \/ Idle
  <2>1. UNCHANGED <<line, usage, pc, Cur>>
    BY <1>6 DEF Serve, Interrupt, EndLine, Idle, host_vars, Cur
  <2> QED BY <2>1, Zenon DEF Lines
<1>7. CASE Arrive
  <2>1. UNCHANGED <<usage, pc, Cur>> /\ wire # <<>>
    BY <1>7 DEF Arrive, host_vars, Cur
  <2>2. ASSUME ~usage.pieces
        PROVE  line' # <<>> /\ Last(line') = "NL" /\ (pc' = "acks" => Cur' \notin Answer)
    <3>1. line' = line \o wire /\ Last(wire) = "NL"
      BY <1>7, <2>2 DEF Arrive
    <3>2. line \o wire \in Seq(Char)
      BY <1>1, ConcatProperties
    <3>3. Last(wire) = Last(line \o wire) /\ line \o wire # <<>>
      BY <1>1, <2>1, <3>2, LastKept
    <3> QED BY <2>1, <2>2, <3>1, <3>3 DEF Lines
  <2> QED BY <2>1, <2>2, Zenon DEF Lines
<1> QED BY <1>3, <1>4, <1>5, <1>6, <1>7 DEF Next, Returns, Port

LEMMA StepCounts ==
    ASSUME Types, Types', Grammar(Ahead), Phase, Counts, Next
    PROVE  Counts'
<1>1. /\ Pending("Z") \in Nat /\ Pending("Z") <= usage.idles
      /\ Pending("I") \in Nat /\ Pending("I") <= ints /\ ints \in Nat /\ cleared \in Nat
      /\ usage.idles \in Nat
  <2>1. Pending("Z") \in Nat /\ Pending("I") \in Nat
    BY PendingIs DEF Letter
  <2>2. ints \in Nat /\ cleared \in Nat /\ usage.idles \in Nat
    BY HostAssumption DEF Types
  <2> QED BY <2>1, <2>2 DEF Counts
<1>2. CASE Clear
  <2>1. Stay /\ UNCHANGED <<ints, usage>> /\ cleared' = ints - Pending("I")
    BY <1>2, StaySteps DEF Clear
  <2>2. Pending("Z")' = Pending("Z") /\ Pending("I")' = Pending("I")
    BY <2>1, Stayed DEF Letter
  <2> QED BY <1>1, <2>1, <2>2 DEF Counts, InterruptKept
<1>3. CASE Writes \/ Reads \/ WriteWord \/ WriteReturns \/ EnterReadIdle \/ LeaveReadIdle \/ Arrive
  <2>1. Stay /\ UNCHANGED <<ints, usage>>
    <3>1. CASE Arrive
      BY <3>1, ArriveStays DEF Arrive
    <3> QED BY <1>3, <3>1, StaySteps
  <2>2. Pending("Z")' = Pending("Z") /\ Pending("I")' = Pending("I")
    BY <2>1, Stayed DEF Letter
  <2>3. UNCHANGED <<cleared, m_interrupt_flag>>
    <3>1. CASE Writes
      <4>1. PICK io, a, inc, vals : CallWrite(io, a, inc, vals)
        BY <3>1 DEF Writes
      <4> QED BY <4>1 DEF CallWrite, flags
    <3>2. CASE Reads
      <4>1. PICK a, inc, len : CallRead(a, inc, len)
        BY <3>2 DEF Reads
      <4> QED BY <4>1 DEF CallRead, flags
    <3>3. CASE Arrive
      BY <3>3 DEF Arrive, host_vars, flags
    <3> QED BY <1>3, <3>1, <3>2, <3>3 DEF WriteWord, WriteReturns, EnterReadIdle, LeaveReadIdle, flags
  <2> QED BY <1>1, <2>1, <2>2, <2>3 DEF Counts, InterruptKept
<1>4. CASE Usleep
  <2>1. PICK got \in Seq(Char) :
           /\ Stream = got \o Stream' /\ Cur' = Cur /\ Stream' \in Seq(Char)
           /\ m_interrupt_flag' = (m_interrupt_flag \/ HasInterrupt(got))
    BY <1>4, UsleepTakes
  <2>2. IdleOK
    BY <1>4 DEF Usleep, Phase
  <2>3. /\ Pending("Z") = Pending("Z")' + Count(got, "Z")
        /\ Pending("I") = Pending("I")' + Count(got, "I")
    BY <2>1, <2>2, UsleepAhead DEF Letter
  <2>4. PICK z \in Nat, i \in Nat, cz \in Nat, ci \in Nat :
           z = Pending("Z")' /\ i = Pending("I")' /\ cz = Count(got, "Z") /\ ci = Count(got, "I")
    <3>1. Pending("Z")' \in Nat /\ Pending("I")' \in Nat
      BY PendingNext DEF Letter
    <3>2. Count(got, "Z") \in Nat /\ Count(got, "I") \in Nat
      BY CountType
    <3> QED BY <3>1, <3>2
  <2>5. ci # 0 => HasInterrupt(got)
    <3>1. ASSUME ci # 0 PROVE \E j \in 1 .. Len(got) : got[j] = "I"
      BY <2>4, <3>1, CountType
    <3>2. DOMAIN got = 1 .. Len(got)
      BY LenProperties
    <3> QED BY <3>1, <3>2 DEF HasInterrupt, ToSet
  <2>6. UNCHANGED <<ints, cleared, usage>>
    BY <1>4 DEF Usleep, port_vars
  <2>7. z <= usage.idles /\ i <= ints
    BY <1>1, <2>3, <2>4
  <2>8. ASSUME ints - i > cleared PROVE m_interrupt_flag'
    <3>1. CASE ci # 0
      BY <2>1, <2>5, <3>1
    <3>2. CASE ci = 0
      <4>1. ints - Pending("I") > cleared
        BY <1>1, <2>3, <2>4, <2>8, <3>2
      <4> QED BY <2>1, <4>1 DEF Counts, InterruptKept
    <3> QED BY <3>1, <3>2
  <2> QED BY <2>4, <2>6, <2>7, <2>8 DEF Counts, InterruptKept
<1>5. CASE ReadIdle \/ ReadWord
  <2>1. /\ UNCHANGED <<ints, cleared, usage>>
        /\ \/ TakeDigit /\ m_interrupt_flag' = m_interrupt_flag
           \/ TakeEnd /\ m_interrupt_flag' = (m_interrupt_flag \/ Cur = "I")
    <3>1. CASE ReadIdle
      BY <3>1, IdleTaken DEF Noted, flags, port_vars
    <3>2. CASE ReadWord
      BY <3>2, ReadTaken DEF Noted, flags, port_vars
    <3> QED BY <1>5, <3>1, <3>2
  <2>2. CASE TakeDigit /\ m_interrupt_flag' = m_interrupt_flag
    <3>1. Pending("Z")' = Pending("Z") /\ Pending("I")' = Pending("I")
      BY <2>2, DigitTaken DEF Letter
    <3> QED BY <1>1, <2>1, <2>2, <3>1 DEF Counts, InterruptKept
  <2>3. CASE TakeEnd /\ m_interrupt_flag' = (m_interrupt_flag \/ Cur = "I")
    <3>1. /\ Pending("Z") = Pending("Z")' + (IF Ahead[1] = "Z" THEN 1 ELSE 0)
          /\ Pending("I") = Pending("I")' + (IF Ahead[1] = "I" THEN 1 ELSE 0)
      BY <2>3, EndTaken DEF Letter
    <3>2. PICK z \in Nat, i \in Nat : z = Pending("Z")' /\ i = Pending("I")'
      <4>1. Pending("Z")' \in Nat /\ Pending("I")' \in Nat
        BY PendingNext DEF Letter
      <4> QED BY <4>1
    <3>3. Ahead[1] = Cur
      BY Characters
    <3>4. z <= usage.idles /\ i <= ints
      BY <1>1, <3>1, <3>2
    <3>5. ASSUME ints - i > cleared PROVE m_interrupt_flag'
      <4>1. CASE Cur = "I"
        BY <2>3, <4>1
      <4>2. CASE Cur # "I"
        <5>1. Pending("I") = i
          BY <3>1, <3>2, <3>3, <4>2
        <5> QED BY <2>3, <3>5, <5>1 DEF Counts, InterruptKept
      <4> QED BY <4>1, <4>2
    <3> QED BY <2>1, <3>2, <3>4, <3>5 DEF Counts, InterruptKept
  <2> QED BY <2>1, <2>2, <2>3
<1>6. CASE Serve
  <2>1. Pending("Z")' = Pending("Z") /\ Pending("I")' = Pending("I")
    BY <1>6, ServePhase
  <2>2. UNCHANGED <<ints, cleared, usage, m_interrupt_flag>>
    BY <1>6 DEF Serve, host_vars, flags
  <2> QED BY <2>1, <2>2 DEF Counts, InterruptKept
<1>7. CASE Interrupt \/ EndLine \/ Idle
  <2>1. UNCHANGED <<cleared, usage, m_interrupt_flag>>
    BY <1>7 DEF Interrupt, EndLine, Idle, host_vars, flags
  <2>2. PICK b \in {"I", "NL", "Z"} :
           /\ Send(<<b>>)
           /\ b = "I" => ints' = ints + 1
           /\ b # "I" => ints' = ints
           /\ b = "Z" => Pending("Z") < usage.idles
    <3>1. CASE Interrupt
      <4>1. wire' = wire \o <<"I">>
        <5>1. wire \in Seq(Char)
          BY Characters
        <5>2. Append(wire, "I") = wire \o <<"I">>
          BY <5>1, Letters, AppendIsConcat DEF Letter
        <5> QED BY <3>1, <5>2 DEF Interrupt
      <4>2. Send(<<"I">>)
        BY <3>1, <4>1, OneMore DEF Letter, Interrupt
      <4> QED BY <3>1, <4>2 DEF Interrupt
    <3>2. CASE EndLine
      <4>1. Send(<<"NL">>)
        BY <3>2, OneMore DEF Newline, EndLine
      <4> QED BY <3>2, <4>1 DEF EndLine
    <3>3. CASE Idle
      <4>1. <<>> \o <<"Z">> = <<"Z">>
        OBVIOUS
      <4>2. wire' = wire \o <<"Z">>
        BY <3>3, <4>1 DEF Idle
      <4>3. Send(<<"Z">>)
        BY <3>3, <4>2, OneMore DEF Letter, Idle
      <4> QED BY <3>3, <4>3 DEF Idle
    <3> QED BY <1>7, <3>1, <3>2, <3>3
  <2>3. /\ Pending("Z")' = Pending("Z") + (IF b = "Z" THEN 1 ELSE 0)
        /\ Pending("I")' = Pending("I") + (IF b = "I" THEN 1 ELSE 0)
    BY <2>2, Sent, CountOne DEF Letter
  <2>4. PICK i \in Nat : i = ints'
    BY <1>1, <2>2
  <2>5. Pending("Z")' <= usage'.idles /\ Pending("I")' <= i
    BY <1>1, <2>1, <2>2, <2>3, <2>4
  <2>6. InterruptKept'
    BY <1>1, <2>1, <2>2, <2>3, <2>4 DEF Counts, InterruptKept
  <2> QED BY <2>4, <2>5, <2>6 DEF Counts
<1> QED BY <1>2, <1>3, <1>4, <1>5, <1>6, <1>7 DEF Next, Returns, Port

-----------------------------------------------------------------------------
(* The invariant.                                                             *)

LEMMA InitOK == ASSUME Init PROVE HInv
<1>1. 0 \in Word /\ 0 \in Addr /\ Mapped \subseteq Addr /\ Addr \subseteq Word /\ MaxLen \in Nat
      /\ WordLen \in Nat
  <2>1. Addr \subseteq Word
    BY Sizes DEF Addr, Word
  <2> QED BY <2>1, Sizes, HostAssumption DEF Word, Addr
<1>2. usage \in Usages /\ usage.ints \in Nat /\ usage.idles \in Nat
  BY HostAssumption DEF Init
<1>3. line \in {<<>>, <<"T", "NL">>} /\ wire = <<>>
  BY DEF Init
<1>4. line \in Seq(Letter \cup Digit \cup Newline) /\ line \in Seq(Char)
  <2>1. <<"T", "NL">> \in Seq(Letter \cup Digit \cup Newline)
    BY DEF Letter, Newline
  <2>2. line \in Seq(Letter \cup Digit \cup Newline)
    BY <1>3, <2>1, EmptySeq
  <2>3. Letter \cup Digit \cup Newline \subseteq Char
    BY DEF Char
  <2> QED BY <2>2, <2>3, SeqMonotonic
<1>5. Types
  <2>1. call \in Call /\ Len(call.vals) = 0
    BY <1>1 DEF Init, Call
  <2>2. buf \in Seq(Word) /\ sent \in Seq(CommandWord) /\ wire \in Seq(Letter \cup Digit \cup Newline)
    BY DEF Init
  <2>3. mem \in [Mapped -> Word] /\ shadow \in [Mapped -> Word]
    BY <1>1 DEF Init
  <2>4. ints \in 0 .. usage.ints /\ cleared \in 0 .. ints
    BY <1>2 DEF Init
  <2>5. m_nacks \in 0 .. MaxLen /\ n \in 0 .. MaxLen /\ Len(call.vals) <= MaxLen
    BY <1>1, <2>1 DEF Init
  <2>6. abort_countdown \in 0 .. AbortCountdown
    BY DEF Init, AbortCountdown
  <2> QED BY <1>1, <1>2, <1>4, <2>1, <2>2, <2>3, <2>4, <2>5, <2>6 DEF Init, Types, Where
<1>6. Stream = line
  <2>1. line \o <<>> = line
    BY <1>4, ConcatEmptySeq
  <2> QED BY <1>3, <2>1 DEF Stream
<1>7. Len(line) \in Nat /\ \A i \in 1 .. Len(line) : line[i] \in {"T", "NL"}
  BY <1>3
<1>8. Cur \in {"NL", "NUL"}
  BY DEF Init, Cur
<1>9. Len(Ahead) \in Nat \ {0} /\ \A p \in 1 .. Len(Ahead) : Ahead[p] \in {"T", "NL", "NUL"}
  <2>1. Len(Ahead) = Len(line) + 1 /\ Ahead[1] = Cur /\ \A i \in 1 .. Len(line) : Ahead[i + 1] = line[i]
    BY <1>5, <1>6, Characters
  <2>2. ASSUME NEW p \in 1 .. Len(Ahead) PROVE Ahead[p] \in {"T", "NL", "NUL"}
    <3>1. CASE p = 1
      BY <1>8, <2>1, <3>1
    <3>2. CASE p # 1
      <4>1. p - 1 \in 1 .. Len(line) /\ (p - 1) + 1 = p
        BY <1>7, <2>1, <3>2
      <4>2. Ahead[p] = line[p - 1]
        BY <2>1, <4>1
      <4> QED BY <1>7, <4>1, <4>2
    <3> QED BY <3>1, <3>2
  <2> QED BY <1>7, <2>1, <2>2
<1>10. Grammar(Ahead)
  <2>1. "T" \notin Digit
    BY Letters DEF Letter
  <2>2. \A p \in 1 .. Len(Ahead) : Ahead[p] \notin Digit
    BY <1>9, <2>1, Letters
  <2>3. 1 \in 1 .. Len(Ahead) /\ \A p \in 2 .. Len(Ahead) : p \in 1 .. Len(Ahead)
    BY <1>9
  <2> QED BY <2>2, <2>3, Zenon DEF Grammar
<1>11. Phase
  <2>1. \A p \in 1 .. Len(Ahead) : Ahead[p] \notin Answer
    BY <1>9 DEF Answer
  <2>2. IdleOK
    BY <2>1 DEF Init, IdleOK, AddressAgrees
  <2> QED BY <2>2 DEF Init, Phase
<1>12. Lines
  <2>1. line # <<>> => Last(line) = "NL"
    BY <1>3 DEF Last
  <2>2. Cur \notin Answer
    BY <1>8 DEF Answer
  <2> QED BY <2>1, <2>2 DEF Lines
<1>13. Counts
  <2>1. \A l \in {"Z", "I"} : \A p \in 1 .. Len(Ahead) : Ahead[p] # l
    BY <1>9
  <2>2. Pending("Z") = 0 /\ Pending("I") = 0
    BY <1>5, <2>1, PendingIs DEF Letter
  <2> QED BY <1>2, <2>2 DEF Counts, InterruptKept, Init
<1> QED BY <1>5, <1>10, <1>11, <1>12, <1>13 DEF HInv, NoFalseError, Init

LEMMA StepOK ==
    ASSUME HInv, Served(usage), [Next]_vars
    PROVE  HInv'
<1>1. Types'
  BY StepTypes
<1>2. CASE UNCHANGED vars
  <2>1. Stay /\ UNCHANGED <<host_vars, sent, port_vars, line, usage, shadow, erred, cleared>>
    BY <1>2 DEF vars, Stay, Stream, Cur, host_vars, port_vars
  <2>2. Quiet(<<>>)
    BY <2>1, Nothing DEF Quiet, HInv, port_vars
  <2>3. Phase' /\ Grammar(Ahead')
    BY <1>1, <2>2, QuietPhase, QuietAhead DEF HInv
  <2>4. Pending("Z")' = Pending("Z") /\ Pending("I")' = Pending("I")
    BY <1>1, <2>1, Stayed DEF HInv, Letter
  <2>5. Lines' /\ NoFalseError'
    BY <2>1 DEF HInv, Lines, NoFalseError, Stay, host_vars
  <2>6. Counts'
    BY <2>1, <2>4 DEF HInv, Counts, InterruptKept, host_vars, port_vars, flags
  <2> QED BY <1>1, <2>3, <2>5, <2>6, Zenon DEF HInv
<1>3. CASE Next
  <2>1. Types /\ Grammar(Ahead) /\ Phase /\ Lines /\ Counts /\ NoFalseError
    BY DEF HInv
  <2>2. Phase' /\ Grammar(Ahead') /\ NoFalseError'
    BY <1>1, <1>3, <2>1, StepPhase, StepGrammar, StepError
  <2>3. Lines' /\ Counts'
    BY <1>1, <1>3, <2>1, StepLines, StepCounts
  <2> QED BY <1>1, <2>2, <2>3, Zenon DEF HInv
<1> QED BY <1>2, <1>3

\* What a program and its line are does not change.
LEMMA UsageKept == ASSUME [Next]_vars PROVE usage' = usage
<1>1. CASE Writes
  <2>1. PICK io, a, inc, vals : CallWrite(io, a, inc, vals)
    BY <1>1 DEF Writes
  <2> QED BY <2>1 DEF CallWrite
<1>2. CASE Reads
  <2>1. PICK a, inc, len : CallRead(a, inc, len)
    BY <1>2 DEF Reads
  <2> QED BY <2>1 DEF CallRead
<1>3. CASE Usleep \/ Clear \/ WriteWord \/ WriteReturns \/ EnterReadIdle
  BY <1>3 DEF Usleep, Clear, WriteWord, WriteReturns, EnterReadIdle
<1>4. CASE ReadIdle \/ LeaveReadIdle \/ ReadWord
  BY <1>4 DEF ReadIdle, LeaveReadIdle, ReadWord
<1>5. CASE Port
  BY <1>5 DEF Port, Serve, Interrupt, EndLine, Idle, Arrive
<1>6. CASE UNCHANGED vars
  BY <1>6 DEF vars
<1> QED BY <1>1, <1>2, <1>3, <1>4, <1>5, <1>6 DEF Next, Returns

\* For a program and a line that the class serves, the host, the line and the port agree
\* at every step on what was asked and what is answered: all that follows rests on it.
THEOREM Invariant == Spec => []IInv
<1>1. Init => IInv
  BY InitOK DEF IInv
<1>2. IInv /\ [Next]_vars => IInv'
  <2> SUFFICES ASSUME IInv, [Next]_vars, Served(usage)' PROVE HInv'
    BY DEF IInv
  <2>1. Served(usage)
    BY UsageKept, Zenon DEF Served
  <2> QED BY <2>1, StepOK DEF IInv
<1> QED BY <1>1, <1>2, PTL DEF Spec

\* Calls: what follows from the invariant in a state.
LEMMA Follows ==
    ASSUME IInv, Served(usage)
    PROVE  TypeOK /\ CallsDoAsTheySay /\ InStep /\ NoFalseError /\ NoExit /\ AddressAgrees
           /\ InterruptKept
<1>1. Types /\ Phase /\ Counts /\ NoFalseError
  BY DEF IInv, HInv
<1>2. TypeOK
  BY <1>1 DEF Types, TypeOK, Call
<1>3. pc = "idle" => IdleOK
  BY <1>1 DEF Phase
<1>4. CallsDoAsTheySay
  <2> SUFFICES ASSUME pc = "idle", outcome = "ok"
               PROVE  /\ mem = shadow
                      /\ call.op = "readv" =>
                            /\ Len(buf) = Len(call.vals)
                            /\ \A i \in DOMAIN buf :
                                  LET a == Advance(call.a, call.inc, i - 1)
                                  IN  a \in Mapped /\ buf[i] = mem[a]
    BY DEF CallsDoAsTheySay
  <2>1. mem = shadow
    BY <1>3 DEF IdleOK
  <2>2. ASSUME call.op = "readv"
        PROVE  /\ Len(buf) = Len(call.vals)
               /\ \A i \in DOMAIN buf :
                     Advance(call.a, call.inc, i - 1) \in Mapped
                     /\ buf[i] = mem[Advance(call.a, call.inc, i - 1)]
    <3>1. n = Length /\ ReadSoFar
      BY <1>3, <2>2 DEF IdleOK
    <3>2. Len(buf) = Len(call.vals) /\ Len(buf) = n
      BY <3>1 DEF ReadSoFar, Length
    <3>3. DOMAIN buf = 1 .. n
      BY <1>1, <3>2, LenProperties DEF Types
    <3> QED BY <3>1, <3>2, <3>3 DEF ReadSoFar, Spot
  <2> QED BY <2>1, <2>2
<1>5. InStep
  <2> SUFFICES ASSUME pc = "idle"
               PROVE  sent = <<>> /\ \A c \in {"A", "R", "K", "E"} : c \notin ToSet(Stream)
    BY DEF InStep
  <2>1. sent = <<>> /\ \A p \in 1 .. Len(Ahead) : Ahead[p] \notin Answer
    BY <1>3 DEF IdleOK
  <2>2. /\ Stream \in Seq(Char) /\ Len(Ahead) = Len(Stream) + 1 /\ Len(Stream) \in Nat
        /\ \A i \in 1 .. Len(Stream) : Ahead[i + 1] = Stream[i]
    BY <1>1, Characters
  <2>3. ASSUME NEW i \in 1 .. Len(Stream) PROVE Stream[i] \notin Answer
    <3>1. i + 1 \in 1 .. Len(Ahead)
      BY <2>2
    <3> QED BY <2>1, <2>2, <3>1
  <2>4. DOMAIN Stream = 1 .. Len(Stream)
    BY <2>2, LenProperties
  <2> QED BY <2>1, <2>3, <2>4 DEF ToSet, Answer
<1>6. NoExit /\ InterruptKept
  BY <1>1 DEF Phase, NoExit, Counts
<1>7. AddressAgrees
  BY <1>3, Zenon DEF IdleOK, AddressAgrees
<1> QED BY <1>1, <1>2, <1>4, <1>5, <1>6, <1>7

\* Every variable keeps its type; acknowledgements and words stay within a call's length.
THEOREM Typed == Spec => [](Served(usage) => TypeOK)
BY Invariant, Follows, PTL

\* writev, writeio and readv do as they say, whatever address encode_address leaves out.
THEOREM Done == Spec => [](Served(usage) => CallsDoAsTheySay)
BY Invariant, Follows, PTL

\* No answer of one call is left for readword of the next.
THEOREM NothingLeft == Spec => [](Served(usage) => InStep)
BY Invariant, Follows, PTL

\* Only an error that the port reported makes readv or writev throw: readword does not
\* give up on an answer that is still to come.
THEOREM TrueErrors == Spec => [](Served(usage) => NoFalseError)
BY Invariant, Follows, PTL

\* The address that readv checks at its end is always the one it expects.
THEOREM NeverExits == Spec => [](Served(usage) => NoExit)
BY Invariant, Follows, PTL

\* Where encode_address would send nothing, the port has the address.
THEOREM Addresses == Spec => [](Served(usage) => AddressAgrees)
BY Invariant, Follows, PTL

\* readword, readidle and usleep lose no interrupt.
THEOREM Kept == Spec => [](Served(usage) => InterruptKept)
BY Invariant, Follows, PTL
=============================================================================
