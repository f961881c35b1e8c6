------------------------------- MODULE Loops --------------------------------
(***************************************************************************)
(* Lemmas for proofs about loops.  The models write a loop of the code as  *)
(* a recursive function of the number of its turns.  That such a function  *)
(* is what its equation says, and induction on the number of turns, are    *)
(* stated here about sets and functions, without operator parameters; then *)
(* the same of a loop that is defined from its end, and facts of division. *)
(***************************************************************************)
EXTENDS Integers, TLAPS, WellFoundedInduction

\* Induction: a set with 0 and the successor of each of its numbers has them all.
LEMMA Induct ==
  ASSUME NEW S, 0 \in S, \A n \in Nat : n \in S => n + 1 \in S
  PROVE  Nat \subseteq S
<1> SUFFICES ASSUME Nat \ S # {} PROVE FALSE
  OBVIOUS
<1>1. PICK x \in Nat \ S : \A y \in Nat \ S : ~ (<<y, x>> \in OpToRel(<, Nat))
  BY NatLessThanWellFounded, WFMin
<1>2. \A y \in Nat \ S : ~ (y < x)
  BY <1>1 DEF OpToRel
<1>3. x - 1 \in Nat /\ x - 1 \in S
  BY <1>2
<1>4. QED
  BY <1>3

\* The least of a set of numbers.
LEMMA LeastIn ==
  ASSUME NEW S \in SUBSET Nat, S # {}
  PROVE  \E x \in S : \A y \in S : x <= y
<1>1. PICK x \in S : \A y \in S : ~ (<<y, x>> \in OpToRel(<, Nat))
  BY NatLessThanWellFounded, WFMin
<1>2. \A y \in S : ~ (y < x)
  BY <1>1 DEF OpToRel
<1>3. \A y \in S : x <= y
  BY <1>2
<1>4. QED
  BY <1>3

\* The states of a loop: f[0] before the first turn, f[i] after turn i.
Turns(f, X, init, step, n) ==
  /\ f \in [0 .. n -> X]
  /\ f[0] = init
  /\ \A i \in 1 .. n : f[i] = step[<<i, f[i - 1]>>]

\* A loop of n turns has a state after each of them.
LEMMA TurnsExist ==
  ASSUME NEW X, NEW init \in X, NEW step \in [Nat \X X -> X], NEW n \in Nat
  PROVE  \E f : Turns(f, X, init, step, n)
<1> DEFINE S == {k \in Nat : \E f : Turns(f, X, init, step, k)}
<1>1. 0 \in S
  <2>1. Turns([i \in 0 .. 0 |-> init], X, init, step, 0)
    BY DEF Turns
  <2>2. QED
    BY <2>1
<1>2. ASSUME NEW k \in Nat, k \in S PROVE k + 1 \in S
  <2>1. PICK f : Turns(f, X, init, step, k)
    BY <1>2
  <2> DEFINE g == [i \in 0 .. k + 1 |-> IF i = k + 1 THEN step[<<k + 1, f[k]>>] ELSE f[i]]
  <2>2. Turns(g, X, init, step, k + 1)
    <3>1. step[<<k + 1, f[k]>>] \in X
      BY <2>1 DEF Turns
    <3>2. g \in [0 .. k + 1 -> X]
      BY <2>1, <3>1 DEF Turns
    <3>3. g[0] = init
      BY <2>1 DEF Turns
    <3>4. ASSUME NEW i \in 1 .. k + 1 PROVE g[i] = step[<<i, g[i - 1]>>]
      <4>1. CASE i = k + 1
        <5>1. g[i] = step[<<k + 1, f[k]>>] /\ g[i - 1] = f[k]
          BY <4>1
        <5>2. QED
          BY <5>1, <4>1
      <4>2. CASE i # k + 1
        <5>1. i \in 1 .. k /\ g[i] = f[i] /\ g[i - 1] = f[i - 1]
          BY <4>2
        <5>2. QED
          BY <5>1, <2>1 DEF Turns
      <4>3. QED
        BY <4>1, <4>2
    <3>5. QED
      BY <3>2, <3>3, <3>4 DEF Turns
  <2> HIDE DEF g
  <2>3. k + 1 \in Nat
    OBVIOUS
  <2>4. QED
    BY <2>2, <2>3
<1> HIDE DEF S
<1>3. Nat \subseteq S
  BY <1>1, <1>2, Induct
<1>4. QED
  BY <1>3 DEF S

\* Two runs of a loop agree as far as both go.
LEMMA TurnsAgree ==
  ASSUME NEW X, NEW init, NEW step, NEW f, NEW g, NEW n \in Nat, NEW m \in Nat,
         Turns(f, X, init, step, n), Turns(g, X, init, step, m),
         NEW k \in Nat, k <= n, k <= m
  PROVE  f[k] = g[k]
<1> DEFINE S == {j \in Nat : j <= n /\ j <= m => f[j] = g[j]}
<1>1. 0 \in S
  BY DEF Turns
<1>2. ASSUME NEW j \in Nat, j \in S PROVE j + 1 \in S
  <2> SUFFICES ASSUME j + 1 <= n, j + 1 <= m PROVE f[j + 1] = g[j + 1]
    OBVIOUS
  <2>1. f[j] = g[j]
    BY <1>2
  <2>2. j + 1 \in 1 .. n /\ j + 1 \in 1 .. m /\ (j + 1) - 1 = j
    OBVIOUS
  <2>3. f[j + 1] = step[<<j + 1, f[j]>>] /\ g[j + 1] = step[<<j + 1, g[j]>>]
    BY <2>2 DEF Turns
  <2>4. QED
    BY <2>1, <2>3
<1> HIDE DEF S
<1>3. Nat \subseteq S
  BY <1>1, <1>2, Induct
<1>4. QED
  BY <1>3 DEF S

\* Two loops agree if every turn of theirs keeps them so.
LEMMA SameLoop ==
  ASSUME NEW f, NEW g, NEW m \in Nat, f[0] = g[0],
         \A k \in 0 .. m - 1 : f[k] = g[k] => f[k + 1] = g[k + 1]
  PROVE  f[m] = g[m]
<1> DEFINE S == {k \in Nat : k <= m => f[k] = g[k]}
<1>1. 0 \in S
  OBVIOUS
<1>2. ASSUME NEW k \in Nat, k \in S PROVE k + 1 \in S
  <2> SUFFICES ASSUME k + 1 <= m PROVE f[k + 1] = g[k + 1]
    OBVIOUS
  <2>1. k \in 0 .. m - 1 /\ f[k] = g[k]
    BY <1>2
  <2>2. QED
    BY <2>1
<1> HIDE DEF S
<1>3. Nat \subseteq S
  BY <1>1, <1>2, Induct
<1>4. QED
  BY <1>3 DEF S

------------------------------------------------------------------------------
(* Loops that go ahead.                                                      *)

\* Induction from above: a set with each number of a range whose successors in the
\* range it has.
LEMMA InductDown ==
  ASSUME NEW lo \in Int, NEW hi \in Int, NEW S,
         \A p \in lo .. hi : (\A q \in p + 1 .. hi : q \in S) => p \in S
  PROVE  \A p \in lo .. hi : p \in S
<1> DEFINE T == {n \in Nat : \A p \in lo .. hi : p > hi - n => p \in S}
<1>1. 0 \in T
  OBVIOUS
<1>2. ASSUME NEW n \in Nat, n \in T PROVE n + 1 \in T
  <2>1. ASSUME NEW p \in lo .. hi, p > hi - (n + 1) PROVE p \in S
    <3>1. \A q \in p + 1 .. hi : q \in S
      BY <1>2, <2>1
    <3>2. QED
      BY <3>1
  <2>2. QED
    BY <2>1
<1> HIDE DEF T
<1>3. Nat \subseteq T
  BY <1>1, <1>2, Induct
<1>4. ASSUME NEW p \in lo .. hi PROVE p \in S
  <2>1. hi - p + 1 \in T
    BY <1>3
  <2>2. QED
    BY <2>1 DEF T
<1>5. QED
  BY <1>4

\* A loop that gives a value at the end, and on the way one made of the place and
\* the value further ahead.
GoesAhead(lo, hi, X, more, jump, leaf, join) ==
  /\ lo \in Int /\ hi \in Int
  /\ \A p \in lo .. hi : p \notin more => leaf[p] \in X
  /\ \A p \in lo .. hi, x \in X : join[<<p, x>>] \in X
  /\ \A p \in lo .. hi : p \in more => jump[p] \in p + 1 .. hi

ValuesAhead(f, lo, hi, X, more, jump, leaf, join) ==
  /\ f \in [lo .. hi -> X]
  /\ \A p \in lo .. hi : f[p] = IF p \in more THEN join[<<p, f[jump[p]]>>] ELSE leaf[p]

\* Such a loop has a value at each place.
LEMMA ValuesAheadExist ==
  ASSUME NEW lo, NEW hi, NEW X, NEW more, NEW jump, NEW leaf, NEW join,
         GoesAhead(lo, hi, X, more, jump, leaf, join)
  PROVE  \E f : ValuesAhead(f, lo, hi, X, more, jump, leaf, join)
<1>0. /\ lo \in Int /\ hi \in Int
      /\ \A p \in lo .. hi : p \notin more => leaf[p] \in X
      /\ \A p \in lo .. hi, x \in X : join[<<p, x>>] \in X
      /\ \A p \in lo .. hi : p \in more => jump[p] \in p + 1 .. hi
  BY DEF GoesAhead
<1> SUFFICES \E f \in [lo .. hi -> X] : \A p \in lo .. hi :
               f[p] = IF p \in more THEN join[<<p, f[jump[p]]>>] ELSE leaf[p]
  BY DEF ValuesAhead
<1> USE <1>0
<1> DEFINE A(k) == {p \in lo .. hi : p > hi - k}
           Good(f, k) == /\ f \in [A(k) -> X]
                         /\ \A p \in A(k) :
                              f[p] = IF p \in more THEN join[<<p, f[jump[p]]>>] ELSE leaf[p]
           T == {k \in Nat : \E f : Good(f, k)}
<1>1. 0 \in T
  <2>1. A(0) = {}
    OBVIOUS
  <2>2. Good([p \in A(0) |-> lo], 0)
    BY <2>1
  <2>3. QED
    BY <2>2
<1>2. ASSUME NEW k \in Nat, k \in T PROVE k + 1 \in T
  <2>1. PICK f : Good(f, k)
    BY <1>2
  <2> DEFINE new == hi - k
             v == IF new \in more THEN join[<<new, f[jump[new]]>>] ELSE leaf[new]
             g == [p \in A(k + 1) |-> IF p = new THEN v ELSE f[p]]
  <2>2. \A p \in A(k + 1) : p # new => p \in A(k)
    OBVIOUS
  <2>3. \A p \in A(k + 1) : p \in more => jump[p] \in A(k) /\ jump[p] # new /\ jump[p] \in A(k + 1)
    OBVIOUS
  <2>4. new \in A(k + 1) => v \in X
    <3>1. ASSUME new \in A(k + 1) PROVE v \in X
      <4>1. new \in lo .. hi
        BY <3>1
      <4>2. new \in more => f[jump[new]] \in X
        BY <2>1, <2>3, <3>1
      <4>3. QED
        BY <4>1, <4>2
    <3>2. QED
      BY <3>1
  <2>5. \A p \in A(k) : f[p] \in X
    BY <2>1
  <2>6. g \in [A(k + 1) -> X]
    BY <2>2, <2>4, <2>5
  <2>7. ASSUME NEW p \in A(k + 1)
        PROVE  g[p] = IF p \in more THEN join[<<p, g[jump[p]]>>] ELSE leaf[p]
    <3>1. p \in more => g[jump[p]] = f[jump[p]]
      BY <2>3, <2>7
    <3>2. p # new => g[p] = f[p] /\ p \in A(k)
      BY <2>2, <2>7
    <3>3. p = new => g[p] = v
      BY <2>7
    <3>4. p # new => f[p] = IF p \in more THEN join[<<p, f[jump[p]]>>] ELSE leaf[p]
      BY <2>1, <3>2
    <3> HIDE DEF g, A
    <3>5. QED
      BY <3>1, <3>2, <3>3, <3>4
  <2>8. Good(g, k + 1)
    BY <2>6, <2>7
  <2> HIDE DEF g, Good
  <2>9. QED
    BY <2>8
<1> HIDE DEF T
<1>3. Nat \subseteq T
  BY <1>1, <1>2, Induct
<1>4. CASE lo <= hi
  <2>1. hi - lo + 1 \in T
    BY <1>3, <1>4
  <2>2. PICK f : Good(f, hi - lo + 1)
    BY <2>1 DEF T
  <2>3. A(hi - lo + 1) = lo .. hi
    OBVIOUS
  <2>4. QED
    BY <2>2, <2>3
<1>5. CASE ~ (lo <= hi)
  <2>1. lo .. hi = {}
    BY <1>5
  <2>2. [p \in lo .. hi |-> lo] \in [lo .. hi -> X]
    BY <2>1
  <2>3. QED
    BY <2>1, <2>2
<1>6. QED
  BY <1>4, <1>5

------------------------------------------------------------------------------
(* Division, which the loops that go sector by sector and cluster by cluster  *)
(* rest on.                                                                  *)

\* A number is its quotient and its remainder.
LEMMA DivMod ==
  ASSUME NEW a \in Int, NEW b \in Nat \ {0}
  PROVE  /\ a \div b \in Int /\ a % b \in 0 .. b - 1
         /\ a = (a \div b) * b + (a % b)
<1>1. a \div b \in Int /\ a % b \in 0 .. b - 1
  OBVIOUS
<1>2. a = (a \div b) * b + (a % b)
  OBVIOUS
<1>3. QED
  BY <1>1, <1>2

\* The quotient is the one with a remainder below the divisor.
LEMMA DivIs ==
  ASSUME NEW a \in Int, NEW b \in Nat \ {0}, NEW q \in Int, NEW r \in 0 .. b - 1, a = q * b + r
  PROVE  a \div b = q /\ a % b = r
<1>1. a = (a \div b) * b + (a % b) /\ a \div b \in Int /\ a % b \in 0 .. b - 1
  BY DivMod
<1> DEFINE d == q - (a \div b)
<1>2. d * b = (a % b) - r /\ d \in Int
  BY <1>1
<1> HIDE DEF d
<1>3. ~ (d >= 1)
  BY <1>1, <1>2
<1>4. ~ (d <= -1)
  BY <1>1, <1>2
<1>5. d = 0
  BY <1>2, <1>3, <1>4
<1>6. QED
  BY <1>1, <1>5 DEF d

\* A number below the product has its quotient below the factor.
LEMMA DivBelow ==
  ASSUME NEW a \in Int, NEW b \in Nat \ {0}, NEW m \in Int
  PROVE  (a < m * b) <=> (a \div b < m)
<1>1. a = (a \div b) * b + (a % b) /\ a \div b \in Int /\ a % b \in 0 .. b - 1
  BY DivMod
<1> DEFINE d == m - (a \div b)
<1>2. m * b - a = d * b - (a % b) /\ d \in Int
  BY <1>1
<1> HIDE DEF d
<1>3. CASE d >= 1
  <2>1. d * b >= b
    BY <1>2, <1>3
  <2>2. a < m * b
    BY <1>1, <1>2, <2>1
  <2>3. QED
    BY <1>1, <1>3, <2>2 DEF d
<1>4. CASE d <= 0
  <2>1. d * b <= 0
    BY <1>2, <1>4
  <2>2. ~ (a < m * b)
    BY <1>1, <1>2, <2>1
  <2>3. QED
    BY <1>1, <1>4, <2>2 DEF d
<1>5. QED
  BY <1>2, <1>3, <1>4

\* Two divisions are one.
\* Two divisions are one.
LEMMA DivDiv ==
  ASSUME NEW v \in Nat, NEW a \in Nat \ {0}, NEW b \in Nat \ {0}
  PROVE  (v \div a) \div b = v \div (b * a)
<1> DEFINE q == v \div a
           r == v % a
           d == q \div b
           e == q % b
<1>1. q \in Int /\ r \in 0 .. a - 1 /\ v = q * a + r
  BY DivMod
<1> HIDE DEF q, r
<1>2. d \in Int /\ e \in 0 .. b - 1 /\ q = d * b + e
  BY <1>1, DivMod
<1> HIDE DEF d, e
<1> DEFINE c == b * a
           s == e * a + r
<1>3. c \in Nat \ {0}
  OBVIOUS
<1>4. s \in 0 .. c - 1
  <2>1. e * a <= (b - 1) * a /\ e * a >= 0
    BY <1>2
  <2>2. (b - 1) * a = c - a
    OBVIOUS
  <2>3. e * a \in Int /\ c \in Int
    BY <1>2
  <2> DEFINE x == e * a
  <2> HIDE DEF x, c
  <2>4. x + r \in 0 .. c - 1
    BY <1>1, <2>1, <2>2, <2>3 DEF x
  <2>5. QED
    BY <2>4 DEF x
<1>5. v = d * c + s
  <2>1. q * a = (d * b) * a + e * a
    BY <1>1, <1>2
  <2>2. (d * b) * a = d * (b * a)
    BY <1>2
  <2>3. QED
    BY <1>1, <1>2, <2>1, <2>2
<1> HIDE DEF c, s
<1>6. v \div c = d
  BY <1>2, <1>3, <1>4, <1>5, DivIs
<1>7. QED
  BY <1>6 DEF c, d, q

=============================================================================
