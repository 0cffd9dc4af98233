---------------------------- MODULE NumeralProofs ----------------------------
(***************************************************************************)
(* What the operators of CoffeeStrings compute, for strings of any length: *)
(* the cuts at a NUL and at the end of a buffer, and the loops of s_atoul  *)
(* and s_ultoa against the notation they are meant to read and write.      *)
(*                                                                         *)
(* Induction is by sets: the least number that is not in a set of numbers  *)
(* cannot be zero and cannot follow a member.                              *)
(***************************************************************************)
EXTENDS CoffeeStrings, WellFoundedInduction, TLAPS

-----------------------------------------------------------------------------
Below == {p \in Nat \X Nat : p[1] < p[2]}

\* A set of natural numbers has a least member.
LEMMA LeastNumber ==
    ASSUME NEW T \in SUBSET Nat, T # {}
    PROVE  \E x \in T : \A y \in T : x <= y
  <1>1. IsWellFoundedOn(Below, Nat)
    <2>1. IsWellFoundedOn(OpToRel(<, Nat), Nat)
      BY NatLessThanWellFounded
    <2>2. Below = OpToRel(<, Nat)
      BY DEF Below, OpToRel
    <2> QED BY <2>1, <2>2
  <1>2. PICK x \in T : \A y \in T : ~(<<y, x>> \in Below)
    BY <1>1, WFMin
  <1>3. ASSUME NEW y \in T PROVE x <= y
    <2>1. x \in Nat /\ y \in Nat
      OBVIOUS
    <2>2. ~(y < x)
      BY <1>2, <2>1 DEF Below
    <2> QED BY <2>1, <2>2
  <1> QED BY <1>3

\* A set that holds zero and with each number the next holds all of them.
LEMMA Induction ==
    ASSUME NEW T \in SUBSET Nat, 0 \in T, \A n \in T : n + 1 \in T
    PROVE  T = Nat
  <1> SUFFICES ASSUME Nat \ T # {} PROVE FALSE
    OBVIOUS
  <1>1. PICK x \in Nat \ T : \A y \in Nat \ T : x <= y
    BY LeastNumber
  <1>2. x - 1 \in T /\ (x - 1) + 1 = x
    BY <1>1
  <1> QED BY <1>1, <1>2

\* A set that holds a number whenever it holds all smaller ones.
LEMMA StrongInduction ==
    ASSUME NEW T \in SUBSET Nat, \A n \in Nat : (\A m \in 0 .. n - 1 : m \in T) => n \in T
    PROVE  T = Nat
  <1> SUFFICES ASSUME Nat \ T # {} PROVE FALSE
    OBVIOUS
  <1>1. PICK x \in Nat \ T : \A y \in Nat \ T : x <= y
    BY LeastNumber
  <1>2. \A m \in 0 .. x - 1 : m \in T
    BY <1>1
  <1> QED BY <1>1, <1>2

\* A bounded set of natural numbers has a maximum.
LEMMA MaxOf ==
    ASSUME NEW l \in Nat, NEW S \in SUBSET (0 .. l), S # {}
    PROVE  Max(S) \in S /\ \A y \in S : y <= Max(S)
  <1> DEFINE T == {x \in Nat : x <= l /\ l - x \in S}
  <1>1. T # {}
    <2>1. PICK y \in S : TRUE
      OBVIOUS
    <2>2. l - y \in T
      BY <2>1
    <2> QED BY <2>2
  <1>2. PICK x \in T : \A y \in T : x <= y
    BY <1>1, LeastNumber
  <1>3. ASSUME NEW y \in S PROVE l - x >= y
    <2>1. l - y \in T
      OBVIOUS
    <2> QED BY <1>2, <2>1
  <1>4. \E m \in S : \A y \in S : m >= y
    BY <1>2, <1>3
  <1>5. Max(S) \in S /\ \A y \in S : Max(S) >= y
    BY <1>4 DEF Max
  <1> QED BY <1>5

\* The smaller of two numbers.
LEMMA MinOfTwo ==
    ASSUME NEW a \in Int, NEW b \in Int
    PROVE  Min({a, b}) = IF a <= b THEN a ELSE b
  <1> DEFINE m == IF a <= b THEN a ELSE b
  <1>1. m \in {a, b} /\ \A y \in {a, b} : m <= y
    OBVIOUS
  <1>2. \A x \in {a, b} : (\A y \in {a, b} : x <= y) => x = m
    OBVIOUS
  <1> QED BY <1>1, <1>2 DEF Min

-----------------------------------------------------------------------------
\* The length of the longest beginning of 1 .. l that lies in G.
LEMMA LongestPrefix ==
    ASSUME NEW l \in Nat, NEW G \in SUBSET (1 .. l), NEW S,
           S = {n \in 0 .. l : \A i \in 1 .. n : i \in G}
    PROVE  /\ Max(S) \in 0 .. l
           /\ \A i \in 1 .. Max(S) : i \in G
           /\ Max(S) < l => Max(S) + 1 \notin G
  <1> DEFINE m == Max(S)
  <1>1. 0 \in S
    OBVIOUS
  <1>2. m \in S /\ \A y \in S : y <= m
    BY <1>1, MaxOf
  <1>3. ASSUME m < l, m + 1 \in G PROVE FALSE
    <2>1. m + 1 \in S
      BY <1>2, <1>3
    <2> QED BY <1>2, <2>1
  <1> QED BY <1>2, <1>3

\* CString is the part before the first NUL.
LEMMA CStringIsPrefix ==
    ASSUME NEW s \in Seq(Int)
    PROVE  \E m \in 0 .. Len(s) : /\ CString(s) = SubSeq(s, 1, m)
                                  /\ \A i \in 1 .. m : s[i] # Nul
                                  /\ m < Len(s) => s[m + 1] = Nul
  <1> DEFINE G == {i \in 1 .. Len(s) : s[i] # Nul}
             S == {n \in 0 .. Len(s) : \A i \in 1 .. n : s[i] # Nul}
             m == Max(S)
  <1>1. S = {n \in 0 .. Len(s) : \A i \in 1 .. n : i \in G}
    OBVIOUS
  <1>2. G \in SUBSET (1 .. Len(s)) /\ Len(s) \in Nat
    OBVIOUS
  <1> HIDE DEF S, G
  <1>3. m \in 0 .. Len(s) /\ (\A i \in 1 .. m : i \in G) /\ (m < Len(s) => m + 1 \notin G)
    BY <1>1, <1>2, LongestPrefix
  <1>4. CString(s) = SubSeq(s, 1, m)
    BY DEF CString, PrefixOf, S
  <1> QED BY <1>2, <1>3, <1>4 DEF G

\* The digits s_atoul reads are the part before the first character that is none.
LEMMA DigitsArePrefix ==
    ASSUME NEW s \in Seq(Int)
    PROVE  \E m \in 0 .. Len(s) : /\ PrefixOf(s, IsDigit) = SubSeq(s, 1, m)
                                  /\ \A i \in 1 .. m : IsDigit(s[i])
                                  /\ m < Len(s) => ~IsDigit(s[m + 1])
  <1> DEFINE G == {i \in 1 .. Len(s) : IsDigit(s[i])}
             S == {n \in 0 .. Len(s) : \A i \in 1 .. n : IsDigit(s[i])}
             m == Max(S)
  <1>1. S = {n \in 0 .. Len(s) : \A i \in 1 .. n : i \in G}
    OBVIOUS
  <1>2. G \in SUBSET (1 .. Len(s)) /\ Len(s) \in Nat
    OBVIOUS
  <1> HIDE DEF S, G
  <1>3. m \in 0 .. Len(s) /\ (\A i \in 1 .. m : i \in G) /\ (m < Len(s) => m + 1 \notin G)
    BY <1>1, <1>2, LongestPrefix
  <1>4. PrefixOf(s, IsDigit) = SubSeq(s, 1, m)
    BY DEF PrefixOf, S
  <1> QED BY <1>2, <1>3, <1>4 DEF G

(***************************************************************************)
(* A string that passes through a buffer for n characters unchanged.       *)
(***************************************************************************)
Fits(t, n) == t \in Seq(Int) /\ Len(t) <= n /\ \A i \in 1 .. Len(t) : t[i] # Nul

\* What is left of a string after a buffer fits it, and is how the string begins.
LEMMA CutFits ==
    ASSUME NEW s \in Seq(Int), NEW n \in Nat
    PROVE  /\ Fits(Cut(s, n), n)
           /\ Len(Cut(s, n)) <= Len(s)
           /\ \A i \in 1 .. Len(Cut(s, n)) : Cut(s, n)[i] = s[i]
  <1> DEFINE l == Min({Len(s), n})
             t == SubSeq(s, 1, l)
  <1>1. l \in 0 .. Len(s) /\ l <= n
    BY MinOfTwo
  <1> HIDE DEF l
  <1>2. t \in Seq(Int) /\ Len(t) = l /\ \A i \in 1 .. l : t[i] = s[i]
    BY <1>1
  <1> HIDE DEF t
  <1>3. PICK m \in 0 .. Len(t) : /\ CString(t) = SubSeq(t, 1, m)
                                 /\ \A i \in 1 .. m : t[i] # Nul
    BY <1>2, CStringIsPrefix
  <1>4. Cut(s, n) = SubSeq(t, 1, m)
    BY <1>3 DEF Cut, t, l
  <1> DEFINE c == SubSeq(t, 1, m)
  <1>5. c \in Seq(Int) /\ Len(c) = m /\ \A i \in 1 .. m : c[i] = t[i]
    BY <1>2, <1>3
  <1> QED BY <1>1, <1>2, <1>3, <1>4, <1>5 DEF Fits

\* A buffer leaves a string alone that fits it.
LEMMA CutKeeps ==
    ASSUME NEW n \in Nat, NEW t, Fits(t, n)
    PROVE  Cut(t, n) = t
  <1>1. t \in Seq(Int) /\ Len(t) <= n
    BY DEF Fits
  <1>2. Min({Len(t), n}) = Len(t) /\ SubSeq(t, 1, Len(t)) = t
    BY <1>1, MinOfTwo
  <1>3. PICK m \in 0 .. Len(t) : /\ CString(t) = SubSeq(t, 1, m)
                                 /\ m < Len(t) => t[m + 1] = Nul
    BY <1>1, CStringIsPrefix
  <1>4. m = Len(t)
    BY <1>1, <1>3 DEF Fits
  <1> QED BY <1>2, <1>3, <1>4 DEF Cut

-----------------------------------------------------------------------------
\* Division with remainder.
LEMMA Division ==
    ASSUME NEW a \in Nat, NEW b \in Nat \ {0}
    PROVE  /\ a \div b \in Nat /\ a % b \in 0 .. b - 1
           /\ a = b * (a \div b) + (a % b)
  OBVIOUS

\* The remainder is the only one.
LEMMA Remainder ==
    ASSUME NEW b \in Nat \ {0}, NEW q \in Int, NEW r \in 0 .. b - 1
    PROVE  (b * q + r) % b = r
  OBVIOUS

\* Numbers that differ by a multiple have the same remainder.
LEMMA SameRemainder ==
    ASSUME NEW b \in Nat \ {0}, NEW x \in Nat, NEW q \in Nat
    PROVE  (b * q + x) % b = x % b
  <1>1. x % b \in 0 .. b - 1 /\ x \div b \in Nat /\ x = b * (x \div b) + (x % b)
    BY Division
  <1>2. b * q + x = b * (q + (x \div b)) + (x % b)
    BY <1>1
  <1>3. q + (x \div b) \in Int
    BY <1>1
  <1> QED BY <1>1, <1>2, <1>3, Remainder

\* A step of s_atoul's loop may reduce before or after.
LEMMA ReduceBefore ==
    ASSUME NEW x \in Nat, NEW d \in Nat
    PROVE  ((x % Modulus) * Base + d) % Modulus = (x * Base + d) % Modulus
  <1> DEFINE q == x \div Modulus
             r == x % Modulus
  <1>1. Modulus \in Nat \ {0} /\ Base \in Nat
    BY NumeralsFit
  <1>2. q \in Nat /\ r \in Nat /\ x = Modulus * q + r
    BY <1>1, Division
  <1> HIDE DEF q, r
  <1>3. x * Base + d = Modulus * (q * Base) + (r * Base + d)
    BY <1>1, <1>2
  <1>4. q * Base \in Nat /\ r * Base + d \in Nat
    BY <1>1, <1>2
  <1>5. (Modulus * (q * Base) + (r * Base + d)) % Modulus = (r * Base + d) % Modulus
    BY <1>1, <1>4, SameRemainder
  <1> QED BY <1>3, <1>5 DEF r

\* So may the addition of two balances.
LEMMA ReduceBoth ==
    ASSUME NEW b \in Nat \ {0}, NEW x \in Nat, NEW y \in Nat
    PROVE  ((x % b) + (y % b)) % b = (x + y) % b
  <1> DEFINE q == x \div b
             r == x % b
             p == y \div b
             t == y % b
  <1>1. q \in Nat /\ r \in Nat /\ x = b * q + r
    BY Division
  <1>2. p \in Nat /\ t \in Nat /\ y = b * p + t
    BY Division
  <1> HIDE DEF q, r, p, t
  <1>3. x + y = b * (q + p) + (r + t)
    BY <1>1, <1>2
  <1>4. q + p \in Nat /\ r + t \in Nat
    BY <1>1, <1>2
  <1>5. (b * (q + p) + (r + t)) % b = (r + t) % b
    BY <1>4, SameRemainder
  <1> QED BY <1>3, <1>5 DEF r, t

-----------------------------------------------------------------------------
(***************************************************************************)
(* Power is defined by a recursion over all numbers.  Its beginnings exist *)
(* and agree, so the function that is made of them solves it.              *)
(***************************************************************************)
PowerUpTo(g, n) ==
    /\ g \in [0 .. n -> Nat \ {0}]
    /\ g[0] = 1
    /\ \A i \in 1 .. n : g[i] = Base * g[i - 1]

\* The recursion can be followed up to any n.
LEMMA PowerBegins == \A n \in Nat : \E g : PowerUpTo(g, n)
  <1> DEFINE T == {n \in Nat : \E g : PowerUpTo(g, n)}
  <1>1. 0 \in T
    <2>1. PowerUpTo([i \in 0 .. 0 |-> 1], 0)
      BY DEF PowerUpTo
    <2> QED BY <2>1
  <1>2. ASSUME NEW n \in T PROVE n + 1 \in T
    <2>1. PICK g : PowerUpTo(g, n)
      BY <1>2
    <2> DEFINE h == [i \in 0 .. n + 1 |-> IF i <= n THEN g[i] ELSE Base * g[n]]
    <2>2. Base \in Nat \ {0} /\ n \in Nat
      BY <1>2, NumeralsFit
    <2>3. Base * g[n] \in Nat \ {0}
      BY <2>1, <2>2 DEF PowerUpTo
    <2>4. h \in [0 .. n + 1 -> Nat \ {0}]
      BY <2>1, <2>2, <2>3 DEF PowerUpTo
    <2>5. h[0] = 1
      BY <2>1, <2>2 DEF PowerUpTo
    <2>6. ASSUME NEW i \in 1 .. n + 1 PROVE h[i] = Base * h[i - 1]
      BY <2>1, <2>2 DEF PowerUpTo
    <2>7. PowerUpTo(h, n + 1)
      BY <2>4, <2>5, <2>6 DEF PowerUpTo
    <2> QED BY <2>2, <2>7
  <1>3. T = Nat
    <2> HIDE DEF T
    <2>1. T \in SUBSET Nat
      BY DEF T
    <2> QED BY <1>1, <1>2, <2>1, Induction
  <1> QED BY <1>3

\* Two beginnings agree as far as both go.
LEMMA PowersAgree ==
    ASSUME NEW m \in Nat, NEW n \in Nat, NEW g, NEW h, PowerUpTo(g, m), PowerUpTo(h, n)
    PROVE  \A i \in Nat : i <= m /\ i <= n => g[i] = h[i]
  <1> DEFINE T == {i \in Nat : i <= m /\ i <= n => g[i] = h[i]}
  <1>1. 0 \in T
    BY DEF PowerUpTo
  <1>2. ASSUME NEW i \in T PROVE i + 1 \in T
    BY <1>2 DEF PowerUpTo
  <1>3. T = Nat
    <2> HIDE DEF T
    <2>1. T \in SUBSET Nat
      BY DEF T
    <2> QED BY <1>1, <1>2, <2>1, Induction
  <1> QED BY <1>3

\* The powers of the base, as they are defined.
LEMMA PowerIs ==
    /\ Power \in [Nat -> Nat \ {0}]
    /\ Power[0] = 1
    /\ \A n \in Nat : Power[n + 1] = Base * Power[n]
  <1> DEFINE Solves(f) == f = [n \in Nat |-> IF n = 0 THEN 1 ELSE Base * f[n - 1]]
             Begin(n)  == CHOOSE g : PowerUpTo(g, n)
             f         == [n \in Nat |-> Begin(n)[n]]
  <1>1. \A n \in Nat : PowerUpTo(Begin(n), n)
    BY PowerBegins
  <1> HIDE DEF Begin
  <1>2. f[0] = 1
    BY <1>1 DEF PowerUpTo
  <1>3. ASSUME NEW n \in Nat \ {0} PROVE f[n] = Base * f[n - 1]
    <2>1. n - 1 \in Nat
      OBVIOUS
    <2>2. Begin(n)[n - 1] = Begin(n - 1)[n - 1]
      BY <1>1, <2>1, PowersAgree
    <2>3. Begin(n)[n] = Base * Begin(n)[n - 1]
      BY <1>1 DEF PowerUpTo
    <2> QED BY <2>1, <2>2, <2>3
  <1>4. Solves(f)
    BY <1>2, <1>3
  <1>5. Power = CHOOSE g : Solves(g)
    BY DEF Power
  <1>6. Solves(Power)
    <2> HIDE DEF Solves, f
    <2> QED BY <1>4, <1>5
  <1>7. Power[0] = 1 /\ \A n \in Nat \ {0} : Power[n] = Base * Power[n - 1]
    BY <1>6
  <1>8. \A n \in Nat : Power[n + 1] = Base * Power[n]
    BY <1>7
  <1> DEFINE T == {n \in Nat : Power[n] \in Nat \ {0}}
  <1>9. 0 \in T
    BY <1>7
  <1>10. ASSUME NEW n \in T PROVE n + 1 \in T
    BY <1>8, NumeralsFit
  <1>11. T = Nat
    <2> HIDE DEF T
    <2>1. T \in SUBSET Nat
      BY DEF T
    <2> QED BY <1>9, <1>10, <2>1, Induction
  <1>12. DOMAIN Power = Nat /\ Power = [n \in Nat |-> Power[n]]
    BY <1>6
  <1>13. \A n \in Nat : Power[n] \in Nat \ {0}
    BY <1>11
  <1> HIDE DEF T
  <1>14. Power \in [Nat -> Nat \ {0}]
    BY <1>12, <1>13
  <1> QED BY <1>7, <1>8, <1>14

-----------------------------------------------------------------------------
(***************************************************************************)
(* The number that the first k digits of t denote, read from the left, for *)
(* every k.                                                                *)
(***************************************************************************)
Digit == 0 .. Base - 1

ReadUpTo(t, n, h) ==
    /\ h \in [0 .. n -> Nat]
    /\ h[0] = 0
    /\ \A k \in 1 .. n : h[k] = h[k - 1] * Base + t[k]

Reads(t, h) == ReadUpTo(t, Len(t), h)

\* Every sequence of digits can be read.
LEMMA Readable ==
    ASSUME NEW t \in Seq(Digit)
    PROVE  \E h : Reads(t, h)
  <1> DEFINE T == {n \in Nat : n <= Len(t) => \E h : ReadUpTo(t, n, h)}
  <1>1. 0 \in T
    <2>1. ReadUpTo(t, 0, [k \in 0 .. 0 |-> 0])
      BY DEF ReadUpTo
    <2> QED BY <2>1
  <1>2. ASSUME NEW n \in T, n + 1 <= Len(t) PROVE \E h : ReadUpTo(t, n + 1, h)
    <2>1. PICK g : ReadUpTo(t, n, g)
      BY <1>2
    <2> DEFINE h == [k \in 0 .. n + 1 |-> IF k <= n THEN g[k] ELSE g[n] * Base + t[n + 1]]
    <2>2. n \in Nat /\ Base \in Nat /\ t[n + 1] \in Nat
      BY <1>2, NumeralsFit DEF Digit
    <2>3. h \in [0 .. n + 1 -> Nat]
      BY <2>1, <2>2 DEF ReadUpTo
    <2>4. h[0] = 0
      BY <2>1, <2>2 DEF ReadUpTo
    <2>5. ASSUME NEW k \in 1 .. n + 1 PROVE h[k] = h[k - 1] * Base + t[k]
      <3>1. CASE k <= n
        <4>1. k \in 1 .. n /\ h[k] = g[k] /\ h[k - 1] = g[k - 1]
          BY <2>2, <3>1
        <4> QED BY <2>1, <4>1 DEF ReadUpTo
      <3>2. CASE k = n + 1
        BY <2>2, <3>2
      <3> QED BY <2>2, <3>1, <3>2
    <2> QED BY <2>3, <2>4, <2>5 DEF ReadUpTo
  <1>3. T = Nat
    <2>1. \A n \in T : n + 1 \in T
      BY <1>2
    <2> HIDE DEF T
    <2>2. T \in SUBSET Nat
      BY DEF T
    <2> QED BY <1>1, <2>1, <2>2, Induction
  <1>4. Len(t) \in Nat
    OBVIOUS
  <1> QED BY <1>3, <1>4 DEF Reads

(***************************************************************************)
(* The sum of the digits by their places is what reading from the left     *)
(* gives: after k of n digits, the sum is what has been read, shifted by   *)
(* the n - k places that are left.                                         *)
(***************************************************************************)
LEMMA Distributes ==
    ASSUME NEW a \in Nat, NEW b \in Nat, NEW c \in Nat, NEW d \in Nat
    PROVE  (a * b + c) * d = a * (b * d) + c * d
  OBVIOUS

SumSolves(s, n, f) ==
    f = [m \in 0 .. n |-> IF m = 0 THEN 0 ELSE f[m - 1] + s[m] * Power[n - m]]

\* Whatever solves the recursion of Denotes gives what was read.
LEMMA PlacesRead ==
    ASSUME NEW s \in Seq(Int), NEW n \in 0 .. Len(s), \A i \in 1 .. n : IsDigit(s[i]),
           NEW h, ReadUpTo(s, n, h)
    PROVE  LET f == CHOOSE g : SumSolves(s, n, g) IN f[n] = h[n]
  <1> DEFINE g == [m \in 0 .. n |-> h[m] * Power[n - m]]
  <1>1. n \in Nat /\ Base \in Nat /\ \A i \in 1 .. n : s[i] \in Nat
    BY NumeralsFit DEF IsDigit
  <1>2. \A m \in 0 .. n : h[m] \in Nat /\ Power[n - m] \in Nat
    <2> SUFFICES ASSUME NEW m \in 0 .. n PROVE h[m] \in Nat /\ Power[n - m] \in Nat
      OBVIOUS
    <2>1. n - m \in Nat
      BY <1>1
    <2> QED BY <2>1, PowerIs DEF ReadUpTo
  <1>3. ASSUME NEW m \in 1 .. n
        PROVE  h[m] * Power[n - m] = h[m - 1] * Power[n - (m - 1)] + s[m] * Power[n - m]
    <2>1. n - m \in Nat /\ m - 1 \in 0 .. n /\ n - (m - 1) = (n - m) + 1
      BY <1>1
    <2>2. Power[n - (m - 1)] = Base * Power[n - m]
      BY <2>1, PowerIs
    <2>3. h[m] = h[m - 1] * Base + s[m]
      BY DEF ReadUpTo
    <2>4. m \in 0 .. n /\ h[m - 1] \in Nat /\ s[m] \in Nat /\ Power[n - m] \in Nat
      BY <1>1, <1>2, <2>1
    <2>5. (h[m - 1] * Base + s[m]) * Power[n - m]
            = h[m - 1] * (Base * Power[n - m]) + s[m] * Power[n - m]
      <3> DEFINE a == h[m - 1]
                 c == s[m]
                 d == Power[n - m]
      <3>1. a \in Nat /\ c \in Nat /\ d \in Nat /\ Base \in Nat
        BY <1>1, <2>4
      <3> HIDE DEF a, c, d
      <3>2. (a * Base + c) * d = a * (Base * d) + c * d
        BY <3>1, Distributes
      <3> QED BY <3>2 DEF a, c, d
    <2> QED BY <2>2, <2>3, <2>5
  <1>4. SumSolves(s, n, g)
    <2>1. g[0] = 0
      BY <1>1, <1>2, PowerIs DEF ReadUpTo
    <2>2. ASSUME NEW m \in 1 .. n PROVE g[m] = g[m - 1] + s[m] * Power[n - m]
      <3>1. m \in 0 .. n /\ m - 1 \in 0 .. n
        BY <1>1
      <3> QED BY <1>3, <3>1
    <2>3. \A m \in 0 .. n : m = 0 \/ m \in 1 .. n
      BY <1>1
    <2>4. \A m \in 0 .. n : g[m] = IF m = 0 THEN 0 ELSE g[m - 1] + s[m] * Power[n - m]
      BY <2>1, <2>2, <2>3
    <2> HIDE DEF g
    <2>5. g = [m \in 0 .. n |-> g[m]]
      BY DEF g
    <2> QED BY <2>4, <2>5 DEF SumSolves
  <1> DEFINE f == CHOOSE u : SumSolves(s, n, u)
  <1>5. SumSolves(s, n, f)
    BY <1>4
  <1> HIDE DEF f, g
  <1> DEFINE T == {m \in Nat : m <= n => f[m] = h[m] * Power[n - m]}
  <1>6. 0 \in T
    <2>1. f[0] = 0
      BY <1>1, <1>5 DEF SumSolves
    <2>2. h[0] * Power[n - 0] = 0
      BY <1>1, <1>2, PowerIs DEF ReadUpTo
    <2> QED BY <2>1, <2>2
  <1>7. ASSUME NEW m \in T, m + 1 <= n PROVE f[m + 1] = h[m + 1] * Power[n - (m + 1)]
    <2>1. m + 1 \in 1 .. n /\ (m + 1) - 1 = m /\ m + 1 # 0 /\ m + 1 \in 0 .. n
      BY <1>1, <1>7
    <2>2. f[m + 1] = f[m] + s[m + 1] * Power[n - (m + 1)]
      BY <1>5, <2>1 DEF SumSolves
    <2>3. f[m] = h[m] * Power[n - m]
      BY <1>1, <1>7, <2>1
    <2> QED BY <1>3, <2>1, <2>2, <2>3
  <1>8. T = Nat
    <2>1. \A m \in T : m + 1 \in T
      BY <1>7
    <2> HIDE DEF T
    <2>2. T \in SUBSET Nat
      BY DEF T
    <2> QED BY <1>6, <2>1, <2>2, Induction
  <1>9. f[n] = h[n] * Power[n - n]
    BY <1>1, <1>8
  <1>10. Power[n - n] = 1 /\ h[n] \in Nat
    BY <1>1, <1>2, PowerIs
  <1> QED BY <1>9, <1>10 DEF f

\* The reference definition reads the leading digits from the left.
LEMMA DenotesIs ==
    ASSUME NEW s \in Seq(Int), NEW n \in 0 .. Len(s), \A i \in 1 .. n : IsDigit(s[i]),
           n < Len(s) => ~IsDigit(s[n + 1]),
           NEW h, ReadUpTo(s, n, h)
    PROVE  Denotes(s) = h[n]
  <1> DEFINE Stops(m) == /\ \A i \in 1 .. m : IsDigit(s[i])
                         /\ m < Len(s) => ~IsDigit(s[m + 1])
             c == CHOOSE m \in 0 .. Len(s) : Stops(m)
  <1>1. c \in 0 .. Len(s) /\ Stops(c)
    <2>1. \E m \in 0 .. Len(s) : Stops(m)
      OBVIOUS
    <2> HIDE DEF Stops
    <2> QED BY <2>1
  <1> HIDE DEF c
  <1>2. c = n
    <2>1. ~(c < n)
      <3> SUFFICES ASSUME c < n PROVE FALSE
        OBVIOUS
      <3>1. c + 1 \in 1 .. n /\ c < Len(s)
        BY <1>1
      <3> QED BY <1>1, <3>1
    <2>2. ~(n < c)
      <3> SUFFICES ASSUME n < c PROVE FALSE
        OBVIOUS
      <3>1. n + 1 \in 1 .. c /\ n < Len(s)
        BY <1>1
      <3> QED BY <1>1, <3>1
    <2> QED BY <1>1, <2>1, <2>2
  <1> DEFINE f == CHOOSE g : SumSolves(s, n, g)
  <1>3. Denotes(s) = f[n]
    BY <1>2 DEF Denotes, SumSolves, c
  <1> QED BY <1>3, PlacesRead

(***************************************************************************)
(* FoldLeft takes the sets of positions apart from the right.  For every   *)
(* sequence there is a function that does so, and any that does agrees on  *)
(* the first k positions with the loop of s_atoul.                         *)
(***************************************************************************)
FoldsUpTo(t, n, f) ==
    f = [s \in SUBSET (1 .. n) |->
            IF s = {} THEN 0 ELSE (f[s \ {Max(s)}] * Base + t[Max(s)]) % Modulus]

\* The largest position is the last.
LEMMA LastPosition ==
    ASSUME NEW n \in Nat, NEW s \in SUBSET (1 .. n + 1), n + 1 \in s
    PROVE  Max(s) = n + 1
  <1>1. s \in SUBSET (0 .. n + 1) /\ n + 1 \in Nat /\ s # {}
    OBVIOUS
  <1>2. Max(s) \in s /\ \A y \in s : y <= Max(s)
    BY <1>1, MaxOf
  <1>3. Max(s) \in 1 .. n + 1 /\ n + 1 <= Max(s)
    BY <1>2
  <1> QED BY <1>3

\* The recursion of FoldLeft can be followed to any position.
LEMMA FoldBegins ==
    ASSUME NEW t \in Seq(Digit)
    PROVE  \A n \in Nat : \E f : FoldsUpTo(t, n, f)
  <1> DEFINE T == {n \in Nat : \E f : FoldsUpTo(t, n, f)}
  <1>1. 0 \in T
    <2> DEFINE f == [s \in SUBSET (1 .. 0) |-> 0]
    <2>1. \A s \in SUBSET (1 .. 0) : s = {}
      OBVIOUS
    <2>2. FoldsUpTo(t, 0, f)
      BY <2>1 DEF FoldsUpTo
    <2> QED BY <2>2
  <1>2. ASSUME NEW n \in T PROVE n + 1 \in T
    <2>1. PICK g : FoldsUpTo(t, n, g)
      BY <1>2
    <2>2. n \in Nat
      BY <1>2
    <2> DEFINE Step(v, d) == (v * Base + d) % Modulus
               f == [s \in SUBSET (1 .. n + 1) |->
                        IF n + 1 \in s THEN Step(g[s \ {n + 1}], t[n + 1]) ELSE g[s]]
    <2>3. ASSUME NEW s \in SUBSET (1 .. n + 1)
          PROVE  f[s] = IF s = {} THEN 0 ELSE Step(f[s \ {Max(s)}], t[Max(s)])
      <3>1. CASE n + 1 \in s
        <4>1. Max(s) = n + 1 /\ s # {}
          BY <2>2, <3>1, LastPosition
        <4>2. s \ {n + 1} \in SUBSET (1 .. n + 1) /\ n + 1 \notin s \ {n + 1}
          OBVIOUS
        <4>3. f[s \ {n + 1}] = g[s \ {n + 1}]
          BY <4>2
        <4>4. f[s] = Step(g[s \ {n + 1}], t[n + 1])
          BY <3>1
        <4> HIDE DEF f, Step
        <4> QED BY <4>1, <4>3, <4>4
      <3>2. CASE n + 1 \notin s
        <4>1. s \in SUBSET (1 .. n) /\ f[s] = g[s]
          BY <2>2, <3>2
        <4>2. \A x : /\ s \ {x} \in SUBSET (1 .. n + 1)
                     /\ n + 1 \notin s \ {x}
          BY <3>2
        <4>3. f[s \ {Max(s)}] = g[s \ {Max(s)}]
          BY <4>2
        <4>4. g[s] = IF s = {} THEN 0 ELSE Step(g[s \ {Max(s)}], t[Max(s)])
          BY <2>1, <4>1 DEF FoldsUpTo
        <4> HIDE DEF f, Step
        <4> QED BY <4>1, <4>3, <4>4
      <3> QED BY <3>1, <3>2
    <2>4. f = [s \in SUBSET (1 .. n + 1) |-> f[s]]
      OBVIOUS
    <2> HIDE DEF f
    <2>5. FoldsUpTo(t, n + 1, f)
      BY <2>3, <2>4 DEF FoldsUpTo
    <2> QED BY <2>2, <2>5
  <1>3. T = Nat
    <2> HIDE DEF T
    <2>1. T \in SUBSET Nat
      BY DEF T
    <2> QED BY <1>1, <1>2, <2>1, Induction
  <1> QED BY <1>3

\* The fold over digits is the number they denote, reduced.
LEMMA FoldReads ==
    ASSUME NEW t \in Seq(Digit), NEW h, Reads(t, h)
    PROVE  FoldLeft(LAMBDA v, d : (v * Base + d) % Modulus, 0, t) = h[Len(t)] % Modulus
  <1> DEFINE l == Len(t)
             f == CHOOSE g : FoldsUpTo(t, l, g)
  <1>1. l \in Nat /\ DOMAIN t = 1 .. l /\ Base \in Nat /\ Modulus \in Nat \ {0}
    BY NumeralsFit
  <1>2. FoldLeft(LAMBDA v, d : (v * Base + d) % Modulus, 0, t) = f[1 .. l]
    BY <1>1 DEF FoldLeft, MapThenFoldSet, FoldsUpTo
  <1>3. FoldsUpTo(t, l, f)
    BY <1>1, FoldBegins
  <1>4. \A k \in 0 .. l : h[k] \in Nat
    BY DEF Reads, ReadUpTo
  <1>5. \A k \in 1 .. l : t[k] \in Nat
    <2>1. Digit \subseteq Nat
      BY <1>1 DEF Digit
    <2>2. \A k \in 1 .. l : t[k] \in Digit
      OBVIOUS
    <2> QED BY <2>1, <2>2
  <1> HIDE DEF f, l
  <1> DEFINE T == {k \in Nat : k <= l => f[1 .. k] = h[k] % Modulus}
  <1>6. 0 \in T
    <2>1. 1 .. 0 = {} /\ {} \in SUBSET (1 .. l)
      OBVIOUS
    <2>2. f[{}] = 0
      BY <1>3, <2>1 DEF FoldsUpTo
    <2>3. h[0] % Modulus = 0
      BY <1>1 DEF Reads, ReadUpTo
    <2> QED BY <2>1, <2>2, <2>3
  <1>7. ASSUME NEW k \in T, k + 1 <= l PROVE f[1 .. k + 1] = h[k + 1] % Modulus
    <2>1. k \in Nat /\ k \in 0 .. l /\ k + 1 \in 1 .. l /\ (k + 1) - 1 = k
      BY <1>1, <1>7
    <2>2. /\ 1 .. k + 1 \in SUBSET (1 .. l) /\ k + 1 \in 1 .. k + 1
          /\ (1 .. k + 1) \ {k + 1} = 1 .. k
      <3>1. \A x : x \in 1 .. k + 1 => x \in 1 .. l
        BY <1>1, <2>1
      <3>2. \A x : x \in (1 .. k + 1) \ {k + 1} <=> x \in 1 .. k
        BY <2>1
      <3> QED BY <2>1, <3>1, <3>2
    <2>3. Max(1 .. k + 1) = k + 1
      BY <2>1, <2>2, LastPosition
    <2>4. f[1 .. k + 1] = (f[1 .. k] * Base + t[k + 1]) % Modulus
      BY <1>3, <2>2, <2>3 DEF FoldsUpTo
    <2>5. f[1 .. k] = h[k] % Modulus
      BY <1>1, <1>7, <2>1
    <2>6. h[k + 1] = h[k] * Base + t[k + 1]
      BY <2>1 DEF Reads, ReadUpTo, l
    <2>7. h[k] \in Nat /\ t[k + 1] \in Nat
      BY <1>4, <1>5, <2>1
    <2>8. ((h[k] % Modulus) * Base + t[k + 1]) % Modulus = (h[k] * Base + t[k + 1]) % Modulus
      <3> DEFINE x == h[k]
                 d == t[k + 1]
      <3>1. x \in Nat /\ d \in Nat
        BY <2>7
      <3> HIDE DEF x, d
      <3>2. ((x % Modulus) * Base + d) % Modulus = (x * Base + d) % Modulus
        BY <3>1, ReduceBefore
      <3> QED BY <3>2 DEF x, d
    <2> QED BY <2>4, <2>5, <2>6, <2>8
  <1>8. T = Nat
    <2>1. \A k \in T : k + 1 \in T
      BY <1>7
    <2> HIDE DEF T
    <2>2. T \in SUBSET Nat
      BY DEF T
    <2> QED BY <1>6, <2>1, <2>2, Induction
  <1>9. f[1 .. l] = h[l] % Modulus
    BY <1>1, <1>8
  <1> QED BY <1>2, <1>9 DEF l

\* s_atoul reads what the leading digits denote, modulo the word size.
LEMMA AtoulIs ==
    ASSUME NEW s \in Seq(Int)
    PROVE  Denotes(s) \in Nat /\ s_atoul(s) = Denotes(s) % Modulus
  <1>1. PICK m \in 0 .. Len(s) : /\ PrefixOf(s, IsDigit) = SubSeq(s, 1, m)
                                 /\ \A i \in 1 .. m : IsDigit(s[i])
                                 /\ m < Len(s) => ~IsDigit(s[m + 1])
    BY DigitsArePrefix
  <1> DEFINE t == SubSeq(s, 1, m)
  <1>2. t \in Seq(Digit) /\ Len(t) = m /\ \A i \in 1 .. m : t[i] = s[i]
    BY <1>1 DEF IsDigit, Digit
  <1> HIDE DEF t
  <1>3. PICK h : Reads(t, h)
    BY <1>2, Readable
  <1>4. ReadUpTo(s, m, h)
    BY <1>2, <1>3 DEF Reads, ReadUpTo
  <1>5. Denotes(s) = h[m]
    BY <1>1, <1>4, DenotesIs
  <1>6. s_atoul(s) = h[m] % Modulus
    BY <1>1, <1>2, <1>3, FoldReads DEF s_atoul, t
  <1>7. h[m] \in Nat
    BY <1>4 DEF ReadUpTo
  <1> QED BY <1>5, <1>6, <1>7

-----------------------------------------------------------------------------
\* A number is larger than its quotient, and the remainder is a digit.
LEMMA Quotient ==
    ASSUME NEW v \in Nat \ {0}
    PROVE  /\ v \div Base \in 0 .. v - 1 /\ v % Base \in Digit
           /\ v = (v \div Base) * Base + (v % Base)
  <1>1. Base \in Nat \ {0} /\ Base >= 2
    BY NumeralsFit
  <1> DEFINE q == v \div Base
             r == v % Base
  <1>2. q \in Nat /\ r \in 0 .. Base - 1 /\ v = Base * q + r
    BY <1>1, Division
  <1> HIDE DEF q, r
  <1>3. Base * q = q * Base
    BY <1>1, <1>2
  <1>4. q < v
    <2>1. CASE q = 0
      BY <1>2, <2>1
    <2>2. CASE q > 0
      <3>1. Base * q >= 2 * q
        BY <1>1, <1>2
      <3> QED BY <1>1, <1>2, <2>2, <3>1
    <2> QED BY <1>2, <2>1, <2>2
  <1> QED BY <1>2, <1>3, <1>4 DEF Digit, q, r

\* The loop of s_ultoa for all numbers up to n.
LoopSolves(n, g) ==
    g = [v \in 0 .. n |-> IF v = 0 THEN <<>> ELSE <<v % Base>> \o g[v \div Base]]

\* The loop of s_ultoa can be followed up to any number.
LEMMA LoopBegins == \A n \in Nat : \E g : LoopSolves(n, g)
  <1> DEFINE T == {n \in Nat : \E g : LoopSolves(n, g)}
  <1>1. 0 \in T
    <2>1. LoopSolves(0, [v \in 0 .. 0 |-> <<>>])
      BY DEF LoopSolves
    <2> QED BY <2>1
  <1>2. ASSUME NEW n \in T PROVE n + 1 \in T
    <2>1. PICK g : LoopSolves(n, g)
      BY <1>2
    <2>2. n \in Nat
      BY <1>2
    <2> DEFINE Step(v, s) == <<v % Base>> \o s
               h == [v \in 0 .. n + 1 |-> IF v <= n THEN g[v]
                                          ELSE Step(n + 1, g[(n + 1) \div Base])]
    <2>3. ASSUME NEW v \in 1 .. n + 1 PROVE h[v] = Step(v, h[v \div Base])
      <3>1. v \in Nat \ {0} /\ v \div Base \in 0 .. v - 1
        BY <2>2, Quotient
      <3>2. v \div Base \in 0 .. n /\ v \div Base <= n /\ v \div Base \in 0 .. n + 1
        BY <2>2, <3>1
      <3> DEFINE q == v \div Base
      <3> HIDE DEF q
      <3>3. h[q] = g[q]
        BY <3>2 DEF q
      <3>4. CASE v <= n
        <4>1. v \in 0 .. n /\ v # 0 /\ h[v] = g[v]
          BY <2>2, <3>1, <3>4
        <4>2. g[v] = Step(v, g[q])
          BY <2>1, <4>1 DEF LoopSolves, q
        <4> HIDE DEF h, Step
        <4> QED BY <3>3, <4>1, <4>2 DEF q
      <3>5. CASE v = n + 1
        <4>1. h[v] = Step(v, g[q])
          BY <2>2, <3>5 DEF q
        <4> HIDE DEF h, Step
        <4> QED BY <3>3, <4>1 DEF q
      <3>6. v <= n \/ v = n + 1
        BY <2>2
      <3> HIDE DEF h, Step
      <3> QED BY <3>4, <3>5, <3>6
    <2>4. h[0] = <<>>
      <3>1. g[0] = <<>>
        BY <2>1, <2>2 DEF LoopSolves
      <3> QED BY <2>2, <3>1
    <2>5. h = [v \in 0 .. n + 1 |-> h[v]]
      OBVIOUS
    <2>6. \A v \in 0 .. n + 1 : v = 0 \/ v \in 1 .. n + 1
      BY <2>2
    <2> HIDE DEF h, Step
    <2>7. \A v \in 0 .. n + 1 : h[v] = IF v = 0 THEN <<>> ELSE Step(v, h[v \div Base])
      BY <2>3, <2>4, <2>6
    <2>8. LoopSolves(n + 1, h)
      BY <2>5, <2>7 DEF LoopSolves, Step
    <2> QED BY <2>2, <2>8
  <1>3. T = Nat
    <2> HIDE DEF T
    <2>1. T \in SUBSET Nat
      BY DEF T
    <2> QED BY <1>1, <1>2, <2>1, Induction
  <1> QED BY <1>3

\* DigitLoop is the loop of s_ultoa.
LEMMA DigitLoopIs ==
    /\ DigitLoop[0] = <<>>
    /\ \A v \in 1 .. Modulus - 1 : DigitLoop[v] = <<v % Base>> \o DigitLoop[v \div Base]
  <1>1. Modulus - 1 \in Nat
    BY NumeralsFit
  <1>2. DigitLoop = CHOOSE g : LoopSolves(Modulus - 1, g)
    BY DEF DigitLoop, LoopSolves
  <1>3. LoopSolves(Modulus - 1, DigitLoop)
    BY <1>1, <1>2, LoopBegins
  <1>4. 0 \in 0 .. Modulus - 1 /\ \A v \in 1 .. Modulus - 1 : v \in 0 .. Modulus - 1 /\ v # 0
    BY <1>1
  <1> QED BY <1>3, <1>4 DEF LoopSolves

\* One more digit on the right.
LEMMA ReadsAppended ==
    ASSUME NEW t \in Seq(Digit), NEW h, Reads(t, h), NEW r \in Digit,
           NEW u, Len(u) = Len(t) + 1, u[Len(t) + 1] = r, \A i \in 1 .. Len(t) : u[i] = t[i]
    PROVE  \E g : Reads(u, g) /\ g[Len(t) + 1] = h[Len(t)] * Base + r
  <1> DEFINE n == Len(t)
             g == [k \in 0 .. n + 1 |-> IF k <= n THEN h[k] ELSE h[n] * Base + r]
  <1>1. n \in Nat /\ Base \in Nat /\ r \in Nat
    BY NumeralsFit DEF Digit
  <1>2. h \in [0 .. n -> Nat] /\ h[0] = 0 /\ \A k \in 1 .. n : h[k] = h[k - 1] * Base + t[k]
    BY DEF Reads, ReadUpTo
  <1>3. Len(u) = n + 1 /\ u[n + 1] = r /\ \A i \in 1 .. n : u[i] = t[i]
    OBVIOUS
  <1> HIDE DEF n
  <1>4. h[n] * Base + r \in Nat
    <2>1. h[n] \in Nat
      BY <1>1, <1>2
    <2> DEFINE x == h[n]
    <2> HIDE DEF x
    <2>2. x * Base + r \in Nat
      BY <1>1, <2>1 DEF x
    <2> QED BY <2>2 DEF x
  <1>5. g \in [0 .. n + 1 -> Nat] /\ g[0] = 0
    BY <1>1, <1>2, <1>4
  <1>6. ASSUME NEW k \in 1 .. n + 1 PROVE g[k] = g[k - 1] * Base + u[k]
    <2>1. CASE k <= n
      <3>1. k \in 1 .. n /\ g[k] = h[k] /\ g[k - 1] = h[k - 1]
        BY <1>1, <2>1
      <3> QED BY <1>2, <1>3, <3>1
    <2>2. CASE k = n + 1
      <3>1. g[k] = h[n] * Base + r /\ g[k - 1] = h[n]
        BY <1>1, <2>2
      <3> QED BY <1>3, <2>2, <3>1
    <2> QED BY <1>1, <2>1, <2>2
  <1>7. g[n + 1] = h[n] * Base + r
    BY <1>1
  <1>8. ReadUpTo(u, n + 1, g)
    BY <1>5, <1>6 DEF ReadUpTo
  <1> QED BY <1>3, <1>7, <1>8 DEF Reads, n

\* A digit put in front comes last when the digits are turned round.
LEMMA ReverseOf ==
    ASSUME NEW d \in Seq(Digit), NEW r \in Digit
    PROVE  /\ Reverse(d) \in Seq(Digit) /\ Len(Reverse(d)) = Len(d)
           /\ <<r>> \o d \in Seq(Digit) /\ Len(<<r>> \o d) = Len(d) + 1
           /\ \A i \in 1 .. Len(d) : Reverse(<<r>> \o d)[i] = Reverse(d)[i]
           /\ Reverse(<<r>> \o d)[Len(d) + 1] = r
  <1> DEFINE e == <<r>> \o d
             n == Len(d)
  <1>1. e \in Seq(Digit) /\ Len(e) = n + 1 /\ e[1] = r /\ \A i \in 1 .. n : e[i + 1] = d[i]
    OBVIOUS
  <1>2. n \in Nat /\ n = Len(d)
    OBVIOUS
  <1> HIDE DEF e, n
  <1>3. \A i \in 1 .. n + 1 : Reverse(e)[i] = e[((n + 1) - i) + 1]
    BY <1>1 DEF Reverse
  <1>4. \A i \in 1 .. n : Reverse(d)[i] = d[(n - i) + 1]
    BY <1>2 DEF Reverse
  <1>5. Reverse(d) \in Seq(Digit) /\ Len(Reverse(d)) = n
    <2>1. \A i \in 1 .. n : (n - i) + 1 \in 1 .. n
      BY <1>2
    <2>2. \A i \in 1 .. n : d[(n - i) + 1] \in Digit
      BY <1>2, <2>1
    <2>3. Reverse(d) = [i \in 1 .. n |-> d[(n - i) + 1]]
      BY <1>2 DEF Reverse
    <2> QED BY <1>2, <2>2, <2>3
  <1>6. ASSUME NEW i \in 1 .. n PROVE Reverse(e)[i] = Reverse(d)[i]
    <2>1. i \in 1 .. n + 1 /\ (n - i) + 1 \in 1 .. n /\ ((n + 1) - i) + 1 = ((n - i) + 1) + 1
      BY <1>2
    <2> QED BY <1>1, <1>3, <1>4, <2>1
  <1>7. Reverse(e)[n + 1] = r
    <2>1. n + 1 \in 1 .. n + 1 /\ ((n + 1) - (n + 1)) + 1 = 1
      BY <1>2
    <2> QED BY <1>1, <1>3, <2>1
  <1> QED BY <1>1, <1>2, <1>5, <1>6, <1>7 DEF e, n

(***************************************************************************)
(* What the loop of s_ultoa leaves for v, the last digit first: digits     *)
(* without leading zeros, as few as v needs, that read back as v.          *)
(***************************************************************************)
Written(v, d) ==
    /\ d \in Seq(Digit)
    /\ v > 0 => d # <<>> /\ d[Len(d)] # 0
    /\ \A m \in Nat : v < Power[m] => Len(d) <= m
    /\ \E h : Reads(Reverse(d), h) /\ h[Len(d)] = v

\* Before its first turn the loop has written zero.
LEMMA NothingWritten == Written(0, <<>>)
  <1>1. <<>> \in Seq(Digit) /\ Len(<<>>) = 0 /\ Len(Reverse(<<>>)) = 0
    BY DEF Reverse
  <1> DEFINE h == [k \in 0 .. 0 |-> 0]
  <1>2. Reads(Reverse(<<>>), h) /\ h[Len(<<>>)] = 0
    BY <1>1 DEF Reads, ReadUpTo
  <1> HIDE DEF h
  <1> QED BY <1>1, <1>2 DEF Written

\* One turn of the loop writes one digit more.
LEMMA DigitWritten ==
    ASSUME NEW v \in Nat \ {0}, NEW d, Written(v \div Base, d)
    PROVE  Written(v, <<v % Base>> \o d)
  <1> DEFINE q == v \div Base
             r == v % Base
             e == <<r>> \o d
  <1>1. q \in 0 .. v - 1 /\ r \in Digit /\ v = q * Base + r /\ Base \in Nat \ {0, 1}
    BY Quotient, NumeralsFit
  <1>2. Written(q, d)
    OBVIOUS
  <1> HIDE DEF q, r
  <1>3. d \in Seq(Digit) /\ Len(d) \in Nat
    BY <1>2 DEF Written
  <1>4. /\ e \in Seq(Digit) /\ Len(e) = Len(d) + 1
        /\ \A i \in 1 .. Len(d) : e[i + 1] = d[i]
        /\ e[1] = r
    BY <1>1, <1>3
  <1>5. e # <<>> /\ e[Len(e)] # 0
    <2>1. CASE q = 0
      <3>1. \E h : Reads(Reverse(d), h) /\ h[Len(d)] = 0
        BY <1>2, <2>1 DEF Written
      <3>2. Len(d) <= 0
        BY <1>2, <2>1, PowerIs DEF Written
      <3>3. r # 0 /\ Len(e) = 1
        BY <1>1, <1>3, <1>4, <2>1, <3>2
      <3> QED BY <1>4, <3>3
    <2>2. CASE q > 0
      <3>1. d # <<>> /\ d[Len(d)] # 0
        BY <1>2, <2>2 DEF Written
      <3>2. Len(d) \in 1 .. Len(d)
        BY <1>3, <3>1
      <3> QED BY <1>4, <3>1, <3>2
    <2> QED BY <1>1, <2>1, <2>2
  <1>6. ASSUME NEW m \in Nat, v < Power[m] PROVE Len(e) <= m
    <2>1. m # 0
      BY <1>6, PowerIs
    <2>2. m - 1 \in Nat /\ (m - 1) + 1 = m
      BY <2>1
    <2>3. Power[m] = Base * Power[m - 1]
      BY <2>2, PowerIs
    <2> DEFINE p == Power[m - 1]
    <2>4. p \in Nat /\ q * Base + r < Base * p
      BY <1>1, <1>6, <2>2, <2>3, PowerIs
    <2> HIDE DEF p
    <2>5. q < p
      <3> SUFFICES ASSUME q >= p PROVE FALSE
        BY <1>1, <2>4
      <3>1. q * Base >= p * Base
        BY <1>1, <2>4
      <3> QED BY <1>1, <2>4, <3>1 DEF Digit
    <2>6. Len(d) <= m - 1
      BY <1>2, <2>2, <2>5 DEF Written, p
    <2> QED BY <1>3, <1>4, <2>2, <2>6
  <1>7. \E g : Reads(Reverse(e), g) /\ g[Len(e)] = v
    <2>1. PICK h : Reads(Reverse(d), h) /\ h[Len(d)] = q
      BY <1>2 DEF Written
    <2> DEFINE t == Reverse(d)
               u == Reverse(e)
    <2>2. /\ t \in Seq(Digit) /\ Len(t) = Len(d)
          /\ \A i \in 1 .. Len(d) : u[i] = t[i]
          /\ u[Len(d) + 1] = r
      BY <1>1, <1>3, ReverseOf
    <2>3. Len(u) = Len(d) + 1
      BY <1>1, <1>4, ReverseOf
    <2> HIDE DEF t, u, e
    <2>4. Reads(t, h)
      BY <2>1 DEF t
    <2>5. /\ Len(u) = Len(t) + 1 /\ u[Len(t) + 1] = r
          /\ \A i \in 1 .. Len(t) : u[i] = t[i]
      BY <2>2, <2>3
    <2>6. \E g : Reads(u, g) /\ g[Len(t) + 1] = h[Len(t)] * Base + r
      BY <1>1, <2>2, <2>4, <2>5, ReadsAppended
    <2> QED BY <1>1, <1>4, <2>1, <2>2, <2>6 DEF u
  <1> HIDE DEF e
  <1>8. Written(v, e)
    BY <1>4, <1>5, <1>6, <1>7 DEF Written
  <1> QED BY <1>8 DEF e, r

\* The loop writes every number of a word.
LEMMA LoopWrites ==
    ASSUME NEW v \in 0 .. Modulus - 1
    PROVE  Written(v, DigitLoop[v])
  <1> DEFINE T == {n \in Nat : n < Modulus => Written(n, DigitLoop[n])}
  <1>1. ASSUME NEW n \in Nat, \A m \in 0 .. n - 1 : m \in T, n < Modulus
        PROVE  Written(n, DigitLoop[n])
    <2>1. CASE n = 0
      BY <2>1, NothingWritten, DigitLoopIs
    <2>2. CASE n # 0
      <3>1. n \in Nat \ {0} /\ n \in 1 .. Modulus - 1 /\ n \div Base \in 0 .. n - 1
        <4>1. n \in Nat \ {0}
          BY <2>2
        <4>2. n \in 1 .. Modulus - 1
          BY <1>1, <4>1, NumeralsFit
        <4> QED BY <4>1, <4>2, Quotient
      <3> DEFINE q == n \div Base
      <3>2. q \in 0 .. n - 1 /\ q < Modulus
        BY <3>1, NumeralsFit
      <3> HIDE DEF q
      <3>3. Written(q, DigitLoop[q])
        BY <1>1, <3>2
      <3>4. DigitLoop[n] = <<n % Base>> \o DigitLoop[q]
        BY <3>1, DigitLoopIs DEF q
      <3>5. Written(n, <<n % Base>> \o DigitLoop[q])
        BY <3>1, <3>3, DigitWritten DEF q
      <3> QED BY <3>4, <3>5
    <2> QED BY <2>1, <2>2
  <1>2. \A n \in Nat : (\A m \in 0 .. n - 1 : m \in T) => n \in T
    BY <1>1
  <1>3. T = Nat
    <2> HIDE DEF T
    <2>1. T \in SUBSET Nat
      BY DEF T
    <2> QED BY <1>2, <2>1, StrongInduction
  <1>4. v \in Nat /\ v < Modulus
    BY NumeralsFit
  <1> QED BY <1>3, <1>4

-----------------------------------------------------------------------------
\* The members of a sequence of digits are digits.
LEMMA DigitsOf ==
    ASSUME NEW s \in Seq(Digit)
    PROVE  \A i \in 1 .. Len(s) : IsDigit(s[i])
  <1>1. \A i \in 1 .. Len(s) : s[i] \in Digit
    OBVIOUS
  <1> QED BY <1>1 DEF IsDigit, Digit

\* Digits are characters, one byte each, and none of them ends a string.
LEMMA DigitsAreText ==
    ASSUME NEW s \in Seq(Digit), NEW n \in Nat, Len(s) <= n
    PROVE  s \in Seq(Int) /\ Fits(s, n) /\ WellFormed(s)
  <1>1. \A i \in 1 .. Len(s) : s[i] \in 0 .. Base - 1
    BY DigitsOf DEF IsDigit
  <1>2. \A i \in 1 .. Len(s) : s[i] \in Int /\ s[i] >= 0
    BY <1>1, NumeralsFit
  <1>3. s \in Seq(Int)
    BY <1>2
  <1> QED BY <1>2, <1>3 DEF Fits, WellFormed, Nul, LeadByte, TailByte

\* A sequence of digits denotes what reading all of it gives.
LEMMA DigitsDenote ==
    ASSUME NEW s \in Seq(Digit), NEW h, Reads(s, h)
    PROVE  Denotes(s) = h[Len(s)]
  <1>1. s \in Seq(Int) /\ Len(s) \in 0 .. Len(s) /\ ~(Len(s) < Len(s))
    BY DigitsAreText
  <1>2. \A i \in 1 .. Len(s) : IsDigit(s[i])
    BY DigitsOf
  <1>3. ReadUpTo(s, Len(s), h)
    BY DEF Reads
  <1> QED BY <1>1, <1>2, <1>3, DenotesIs

\* s_ultoa writes the numeral of v, and the buffer of a value holds all of it.
LEMMA UltoaWrites ==
    ASSUME NEW v \in 0 .. Modulus - 1, VAL_SIZE > 1
    PROVE  /\ s_ultoa(v, VAL_MAX) \in Seq(Digit)
           /\ Len(s_ultoa(v, VAL_MAX)) <= VAL_SIZE - 1
           /\ IsNumeral(s_ultoa(v, VAL_MAX))
           /\ Denotes(s_ultoa(v, VAL_MAX)) = v
  <1> DEFINE s == s_ultoa(v, VAL_MAX)
  <1>1. VAL_MAX = VAL_SIZE /\ VAL_SIZE - 1 \in Nat /\ VAL_SIZE - 1 >= 1
    BY SizesAgree
  <1>2. Base \in Nat \ {0, 1} /\ Modulus \in Nat /\ v \in Nat
    BY NumeralsFit
  <1>3. CASE v = 0
    <2>1. s = <<0>>
      BY <1>3 DEF s_ultoa
    <2> HIDE DEF s
    <2>2. s \in Seq(Digit) /\ Len(s) = 1 /\ s[1] = 0
      BY <1>2, <2>1 DEF Digit
    <2>3. IsNumeral(s)
      BY <1>2, <2>2 DEF IsNumeral, IsDigit
    <2> DEFINE h == [k \in 0 .. 1 |-> 0]
    <2>4. Reads(s, h)
      <3>1. h \in [0 .. 1 -> Nat] /\ h[0] = 0
        OBVIOUS
      <3>2. ASSUME NEW k \in 1 .. 1 PROVE h[k] = h[k - 1] * Base + s[k]
        <4>1. k = 1 /\ h[1] = 0 /\ h[0] = 0
          OBVIOUS
        <4> HIDE DEF h
        <4> QED BY <1>2, <2>2, <4>1
      <3> HIDE DEF h
      <3> QED BY <2>2, <3>1, <3>2 DEF Reads, ReadUpTo
    <2>5. Denotes(s) = h[Len(s)]
      <3> HIDE DEF h
      <3> QED BY <2>2, <2>4, DigitsDenote
    <2>6. h[1] = 0
      OBVIOUS
    <2> QED BY <1>1, <1>3, <2>2, <2>3, <2>5, <2>6 DEF s
  <1>4. CASE v # 0
    <2> DEFINE d == DigitLoop[v]
               t == Reverse(d)
    <2>1. Written(v, d)
      BY LoopWrites
    <2> HIDE DEF d
    <2>2. d \in Seq(Digit) /\ d # <<>> /\ d[Len(d)] # 0
      BY <1>2, <1>4, <2>1 DEF Written
    <2>3. Len(d) <= VAL_SIZE - 1
      <3>1. v < Power[VAL_SIZE - 1]
        <4>1. Power[VAL_SIZE - 1] \in Nat /\ Modulus <= Power[VAL_SIZE - 1]
          BY <1>1, PowerIs, NumeralsFit
        <4> QED BY <1>2, <4>1
      <3> QED BY <1>1, <2>1, <3>1 DEF Written
    <2>4. t \in Seq(Digit) /\ Len(t) = Len(d)
      <3>1. 0 \in Digit
        BY <1>2 DEF Digit
      <3> QED BY <2>2, <3>1, ReverseOf
    <2>5. t[1] = d[Len(d)] /\ Len(d) \in Nat /\ Len(d) >= 1
      BY <2>2 DEF Reverse
    <2>6. PICK h : Reads(t, h) /\ h[Len(d)] = v
      BY <2>1 DEF Written
    <2> HIDE DEF t
    <2>7. Fits(t, VAL_SIZE - 1)
      BY <1>1, <2>3, <2>4, DigitsAreText
    <2>8. s = t
      BY <1>1, <1>4, <2>7, CutKeeps DEF s_ultoa, t, d
    <2>9. IsNumeral(t)
      BY <2>2, <2>4, <2>5, DigitsOf DEF IsNumeral
    <2>10. Denotes(t) = v
      BY <2>4, <2>6, DigitsDenote
    <2> QED BY <2>3, <2>4, <2>8, <2>9, <2>10
  <1> QED BY <1>3, <1>4
=============================================================================
