----------------------------- MODULE RirProofs -----------------------------
(***************************************************************************)
(* The country table, for words of any width and files of any length.      *)
(*                                                                         *)
(* LookupIP invents no country (AnswerIsCovered), it misses no row of a    *)
(* table without overlaps (CoveredIsFound), and its search halves          *)
(* (ProbesHalve).  The invariant is the search's: the row that hi points   *)
(* at, if any, does not end before the address; and, without overlaps,     *)
(* every row before lo does.  The second part is where the order counts:   *)
(* rows sorted by their first addresses are then sorted by their last ones *)
(* too (EndsAscend).                                                       *)
(*                                                                         *)
(* Build's rows say what the lines say (RowsSayWhatLinesSay): a prefix is  *)
(* a quotient, of the high word or of the low one, and a count that ends   *)
(* with the address space wraps to its last address.  The invariant is the *)
(* record (Recorded) that each row is RowOf a line of the table's family.  *)
(*                                                                         *)
(* CIDRsFromV4Count's blocks are the range (BlocksAreTheRow): by induction *)
(* on what remains, once for the recursion to have a value (CIDRsIsCut)    *)
(* and once for what it is (CIDRsDecompose).  The induction is over a set  *)
(* of naturals (Induction), whose least non-member there is not.           *)
(***************************************************************************)
EXTENDS Rir, FiniteSetTheorems, WellFoundedInduction, TLAPS

Pair == Int \X Int

----------------------------------------------------------------------------
(* Naturals and powers of 2.                                               *)

\* A set of naturals has a least one.
LEMMA LeastNatural ==
  ASSUME NEW T, T \subseteq Nat, T # {}
  PROVE  \E n \in T : \A m \in T : n <= m
<1> DEFINE R == OpToRel(<, Nat)
<1>1. IsWellFoundedOn(R, Nat)
  BY NatLessThanWellFounded, Zenon
<1>2. \A m, n \in Nat : m < n => <<m, n>> \in R
  BY DEF OpToRel
<1> HIDE DEF R
<1>3. PICK n \in T : \A m \in T : <<m, n>> \notin R
  BY <1>1, WFMin
<1>4. \A m \in T : n <= m
  <2> SUFFICES ASSUME NEW m \in T, ~ n <= m PROVE FALSE
    OBVIOUS
  <2>1. m \in Nat /\ n \in Nat
    OBVIOUS
  <2>2. m < n
    BY <2>1
  <2> QED
    BY <1>2, <1>3, <2>1, <2>2
<1> QED
  BY <1>4

\* Induction on the naturals, over a set: what holds of all is its membership.
LEMMA Induction ==
  ASSUME NEW S, 0 \in S, \A n \in Nat : n \in S => n + 1 \in S
  PROVE  \A n \in Nat : n \in S
<1> SUFFICES ASSUME NEW k \in Nat, k \notin S PROVE FALSE
  OBVIOUS
<1>1. PICK n \in Nat \ S : \A m \in Nat \ S : n <= m
  BY LeastNatural
<1>2. n - 1 \in Nat /\ n - 1 \in S
  BY <1>1
<1> QED
  BY <1>1, <1>2

\* 1 << n is a positive number: it is the number of subsets of 1..n.
LEMMA PowerPositive == ASSUME NEW n \in Nat PROVE 2^n \in Nat \ {0}
<1>1. IsFiniteSet(1..n) /\ Cardinality(1..n) = n
  BY FS_Interval
<1>2. IsFiniteSet(SUBSET (1..n)) /\ Cardinality(SUBSET (1..n)) = 2^n
  BY <1>1, FS_SUBSET
<1>3. Cardinality(SUBSET (1..n)) \in Nat /\ Cardinality(SUBSET (1..n)) # 0
  BY <1>2, FS_CardinalityType, FS_EmptySet
<1> QED
  BY <1>2, <1>3

\* 1 << 0 is 1.
LEMMA PowerZero == 2^0 = 1
<1>1. IsFiniteSet({}) /\ Cardinality({}) = 0
  BY FS_EmptySet
<1>2. Cardinality(SUBSET {}) = 2^0
  BY <1>1, FS_SUBSET
<1>3. SUBSET {} = {{}}
  OBVIOUS
<1> QED
  BY <1>2, <1>3, FS_Singleton

\* 1 << (n + 1) is twice 1 << n: a subset has n + 1 or has not.
LEMMA PowerNext == ASSUME NEW n \in Nat PROVE 2^(n + 1) = 2 * 2^n
<1> DEFINE A == SUBSET (1..n)
           B == {a \cup {n + 1} : a \in A}
           f == [a \in A |-> a \cup {n + 1}]
<1>1. IsFiniteSet(1..n) /\ Cardinality(1..n) = n
      /\ IsFiniteSet(1..n + 1) /\ Cardinality(1..n + 1) = n + 1
  BY FS_Interval
<1>2. IsFiniteSet(A) /\ Cardinality(A) = 2^n
  BY <1>1, FS_SUBSET
<1>3. Cardinality(SUBSET (1..n + 1)) = 2^(n + 1)
  BY <1>1, FS_SUBSET
<1>4. \A a \in A : n + 1 \notin a
  OBVIOUS
<1>5. f \in Bijection(A, B)
  <2>1. f \in [A -> B] /\ \A b \in B : \E a \in A : f[a] = b
    OBVIOUS
  <2>2. \A a, b \in A : f[a] = f[b] => a = b
    BY <1>4
  <2> QED
    BY <2>1, <2>2 DEF Bijection, Injection, Surjection, IsInjective
<1>6. IsFiniteSet(B) /\ Cardinality(B) = Cardinality(A)
  <2>1. ExistsBijection(A, B)
    BY <1>5 DEF ExistsBijection
  <2> QED
    BY <1>2, <2>1, FS_Bijection
<1>7. A \cap B = {}
  BY <1>4
<1>8. SUBSET (1..n + 1) = A \cup B
  <2>1. ASSUME NEW a \in SUBSET (1..n + 1), a \notin A PROVE a \in B
    <3>1. n + 1 \in a
      BY <2>1
    <3>2. a \ {n + 1} \in A /\ a = (a \ {n + 1}) \cup {n + 1}
      BY <3>1
    <3> QED
      BY <3>2
  <2>2. \A b \in B : b \in SUBSET (1..n + 1)
    <3>1. 1..n \cup {n + 1} \subseteq 1..n + 1
      OBVIOUS
    <3> QED
      BY <3>1
  <2>3. \A a \in A : a \in SUBSET (1..n + 1)
    OBVIOUS
  <2> QED
    BY <2>1, <2>2, <2>3
<1> HIDE DEF A, B, f
<1>9. Cardinality(A \cup B) = Cardinality(A) + Cardinality(B) - Cardinality({})
  BY <1>2, <1>6, <1>7, FS_Union
<1>10. Cardinality({}) = 0
  BY FS_EmptySet
<1>11. 2^n \in Nat
  BY PowerPositive
<1>12. Cardinality(A \cup B) = 2 * 2^n
  BY <1>2, <1>6, <1>9, <1>10, <1>11
<1> QED
  BY <1>3, <1>8, <1>12

\* Shifts add up.
LEMMA PowerSum ==
  ASSUME NEW m \in Nat, NEW n \in Nat
  PROVE  2^(m + n) = 2^m * 2^n
<1> DEFINE S == {k \in Nat : 2^(m + k) = 2^m * 2^k}
<1>1. \A k \in Nat : 2^k \in Nat
  BY PowerPositive
<1>2. 0 \in S
  BY <1>1, PowerZero
<1>3. \A k \in Nat : k \in S => k + 1 \in S
  <2> SUFFICES ASSUME NEW k \in Nat, 2^(m + k) = 2^m * 2^k
               PROVE  2^(m + (k + 1)) = 2^m * 2^(k + 1)
    OBVIOUS
  <2>1. 2^((m + k) + 1) = 2 * 2^(m + k) /\ 2^(k + 1) = 2 * 2^k
    BY PowerNext
  <2>2. m + (k + 1) = (m + k) + 1
    OBVIOUS
  <2>3. ASSUME NEW a \in Nat, NEW b \in Nat PROVE 2 * (a * b) = a * (2 * b)
    OBVIOUS
  <2> QED
    BY <1>1, <2>1, <2>2, <2>3
<1> HIDE DEF S
<1>4. n \in S
  BY <1>2, <1>3, Induction
<1> QED
  BY <1>4 DEF S

----------------------------------------------------------------------------
(* Quotients.                                                              *)

\* The multiples of a number are in the order of its factors.
LEMMA TimesMonotonic ==
  ASSUME NEW a \in Nat, NEW b \in Nat, NEW c \in Nat, a <= b
  PROVE  c * a <= c * b /\ c * b = c * a + c * (b - a) /\ c * (b-a) \in Nat
OBVIOUS

\* A quotient and a remainder are what they should be.
LEMMA Division ==
  ASSUME NEW n \in Nat, NEW d \in Nat \ {0}
  PROVE  /\ n \div d \in Nat /\ n % d \in 0..d - 1
         /\ n = d * (n \div d) + (n % d)
OBVIOUS

\* No others are.
LEMMA DivisionIsUnique ==
  ASSUME NEW d \in Nat \ {0}, NEW q \in Nat, NEW r \in 0..d - 1,
         NEW n, n = d * q + r
  PROVE  n \div d = q /\ n % d = r
<1>1. n \in Nat
  OBVIOUS
<1>2. n \div d \in Nat /\ n % d \in 0..d - 1 /\ n = d * (n \div d) + (n % d)
  BY <1>1, Division
<1> DEFINE p == n \div d
           t == n % d
<1> HIDE DEF p, t
<1>3. p \in Nat /\ t \in 0..d - 1 /\ d * q + r = d * p + t
  BY <1>2 DEF p, t
<1>4. CASE p < q
  <2>1. d * q = d * p + d * (q - p) /\ d * (q - p) >= d
    BY <1>3, <1>4
  <2> QED
    BY <1>3, <2>1
<1>5. CASE q < p
  <2>1. d * p = d * q + d * (p - q) /\ d * (p - q) >= d
    BY <1>3, <1>5
  <2> QED
    BY <1>3, <2>1
<1>6. CASE p = q
  BY <1>3, <1>6 DEF p, t
<1> QED
  BY <1>3, <1>4, <1>5, <1>6

\* x with its low bits filled stays in the word.
LEMMA FillIsIn ==
  ASSUME NEW P \in Nat \ {0}, NEW Q \in Nat \ {0}, NEW x \in 0..P * Q - 1
  PROVE  /\ x \div P \in 0..Q - 1
         /\ x - (x % P) + (P - 1) \in 0..P * Q - 1
<1> DEFINE d == x \div P
           r == x % P
<1>1. d \in Nat /\ r \in 0..P - 1 /\ x = P * d + r
  BY Division
<1> HIDE DEF d, r
<1>2. d < Q
  <2> SUFFICES ASSUME Q <= d PROVE FALSE
    BY <1>1
  <2>1. P * Q <= P * d
    BY <1>1, TimesMonotonic
  <2> QED
    BY <1>1, <2>1
<1>3. P * (d + 1) <= P * Q
  BY <1>1, <1>2, TimesMonotonic
<1>4. P * (d + 1) = P * d + P
  BY <1>1
<1>5. x - r + (P - 1) \in 0..P * Q - 1
  BY <1>1, <1>3, <1>4
<1> QED
  BY <1>1, <1>2, <1>5 DEF d, r

\* The numbers with the quotient of an aligned one are a block.
LEMMA SameQuotient ==
  ASSUME NEW P \in Nat \ {0}, NEW x \in Nat, NEW s \in Nat, s % P = 0
  PROVE  x \div P = s \div P <=> s <= x /\ x <= s + (P - 1)
<1> DEFINE d == x \div P
           r == x % P
           e == s \div P
<1>1. d \in Nat /\ r \in 0..P - 1 /\ x = P * d + r
  BY Division
<1>2. e \in Nat /\ s = P * e + (s % P)
  BY Division
<1> HIDE DEF d, r, e
<1>3. s = P * e
  BY <1>2
<1>4. CASE d < e
  <2>1. P * e = P * d + P * (e - d) /\ P * (e - d) >= P
    BY <1>1, <1>2, <1>3, <1>4
  <2> QED
    BY <1>1, <1>2, <1>3, <1>4, <2>1 DEF d, e
<1>5. CASE e < d
  <2>1. P * d = P * e + P * (d - e) /\ P * (d - e) >= P
    BY <1>1, <1>2, <1>3, <1>5
  <2> QED
    BY <1>1, <1>2, <1>3, <1>5, <2>1 DEF d, e
<1>6. CASE d = e
  BY <1>1, <1>2, <1>3, <1>6 DEF d, e
<1> QED
  BY <1>1, <1>2, <1>4, <1>5, <1>6

\* An address divided within its high word.
LEMMA DivideHigh ==
  ASSUME NEW M \in Nat \ {0}, NEW P \in Nat \ {0},
         NEW x \in Nat, NEW y \in 0..M - 1, NEW n, n = x * M + y, NEW m, m = P * M
  PROVE  n \div m = x \div P
<1> DEFINE d == x \div P
           r == x % P
<1>1. d \in Nat /\ r \in 0..P - 1 /\ x = P * d + r
  BY Division
<1> HIDE DEF d, r
<1>2. x * M + y = (P * M) * d + (r * M + y)
  <2>1. x * M = (P * d + r) * M
    BY <1>1
  <2>2. (P * d + r) * M = (P * d) * M + r * M
    BY <1>1
  <2>3. (P * d) * M = (P * M) * d
    BY <1>1
  <2>4. x * M \in Nat /\ r * M \in Nat /\ (P * M) * d \in Nat
    BY <1>1
  <2> QED
    BY <2>1, <2>2, <2>3, <2>4
<1>3. r * M + y \in 0..P * M - 1 /\ P * M \in Nat \ {0}
  <2>1. M * (r + 1) <= M * P
    BY <1>1, TimesMonotonic
  <2>2. /\ M * (r + 1) = r * M + M /\ M * P = P * M
        /\ r * M \in Nat /\ P * M \in Nat
    BY <1>1
  <2> QED
    BY <1>1, <2>1, <2>2
<1>4. n = m * d + (r * M + y) /\ r * M + y \in 0..m - 1 /\ m \in Nat \ {0}
  BY <1>2, <1>3
<1> DEFINE t == r * M + y
<1>5. t \in 0..m - 1 /\ n = m * d + t
  BY <1>4
<1> HIDE DEF t
<1>6. n \div m = d
  BY <1>1, <1>4, <1>5, DivisionIsUnique
<1> QED
  BY <1>6 DEF d

\* An address divided within its low word.
LEMMA DivideLow ==
  ASSUME NEW P \in Nat \ {0}, NEW Q \in Nat \ {0}, NEW x \in Nat, NEW y \in Nat,
         NEW n, n = x * (P * Q) + y
  PROVE  n \div P = x * Q + (y \div P)
<1> DEFINE d == y \div P
           r == y % P
<1>1. d \in Nat /\ r \in 0..P - 1 /\ y = P * d + r
  BY Division
<1> HIDE DEF d, r
<1>2. x * (P * Q) + y = P * (x * Q + d) + r
  <2>1. x * (P * Q) = P * (x * Q)
    OBVIOUS
  <2>2. P * (x * Q + d) = P * (x * Q) + P * d
    BY <1>1
  <2>3. P * d \in Nat /\ P * (x * Q) \in Nat
    BY <1>1
  <2> QED
    BY <1>1, <2>1, <2>2, <2>3
<1> DEFINE q == x * Q + d
<1>3. q \in Nat /\ n = P * q + r
  BY <1>1, <1>2
<1> HIDE DEF q
<1>4. n \div P = q
  BY <1>1, <1>3, DivisionIsUnique
<1> QED
  BY <1>4 DEF d

\* A sum that leaves the word once comes back by its size.
LEMMA WrapOnce ==
  ASSUME NEW d \in Nat \ {0}, NEW r \in 0..d - 1, NEW n, n = d + r
  PROVE  n % d = r
<1> DEFINE q == 1
<1>1. q \in Nat /\ n = d * q + r
  OBVIOUS
<1> HIDE DEF q
<1> QED
  BY <1>1, DivisionIsUnique

\* Two words are one number.
LEMMA PairIsNumber ==
  ASSUME NEW M \in Nat \ {0}, NEW a \in Nat, NEW b \in 0..M - 1,
         NEW c \in Nat, NEW d \in 0..M - 1,
         NEW m, m = a * M + b, NEW n, n = c * M + d
  PROVE  m = n <=> a = c /\ b = d
<1>1. ASSUME m = n PROVE a = c /\ b = d
  <2>1. n = M * a + b /\ n = M * c + d
    BY <1>1
  <2>2. n \div M = a /\ n % M = b
    BY <2>1, DivisionIsUnique
  <2>3. n \div M = c /\ n % M = d
    BY <2>1, DivisionIsUnique
  <2> QED
    BY <2>2, <2>3
<1> QED
  BY <1>1

----------------------------------------------------------------------------
(* The order of addresses.                                                 *)

\* cmp128 orders addresses totally.
LEMMA LeqTotal == ASSUME NEW a \in Pair, NEW b \in Pair PROVE Leq(a, b) \/ Leq(b, a)
BY DEF Pair, Leq

\* cmp128's order is transitive.
LEMMA LeqTransitive ==
  ASSUME NEW a \in Pair, NEW b \in Pair, NEW c \in Pair, Leq(a, b), Leq(b, c)
  PROVE  Leq(a, c)
BY DEF Pair, Leq

----------------------------------------------------------------------------
(* Words and addresses.                                                    *)

\* A word is divided by each smaller power of 2.
LEMMA WordDivides ==
  ASSUME NEW n \in 0..Bits
  PROVE  /\ 2^n \in Nat \ {0} /\ 2^(Bits - n) \in Nat \ {0}
         /\ 2^Bits = 2^n * 2^(Bits - n)
<1>1. n \in Nat /\ Bits - n \in Nat /\ n + (Bits - n) = Bits
  BY RirAssumption
<1> QED
  BY <1>1, PowerPositive, PowerSum

\* The mask of prefixEnd128 gives a word.
LEMMA FillIsWord ==
  ASSUME NEW x \in Word, NEW n \in 0..Bits
  PROVE  Fill(x, n) \in Word
<1>1. x \in 0..2^n * 2^(Bits - n) - 1
  BY WordDivides DEF Word
<1> QED
  BY <1>1, WordDivides, FillIsIn DEF Fill, Word

\* A word is a number, less than a positive one.
LEMMA WordIsNumber ==
  /\ 2^Bits \in Nat \ {0}
  /\ \A x \in Word : x \in Nat /\ x < 2^Bits
  /\ 0 \in Word /\ 2^Bits - 1 \in Word
  /\ \A n \in Nat : n % 2^Bits \in Word
<1>1. 2^Bits \in Nat \ {0}
  BY RirAssumption, PowerPositive
<1>2. ASSUME NEW m \in Nat \ {0}, NEW n \in Nat PROVE n % m \in 0..m - 1
  OBVIOUS
<1> DEFINE M == 2^Bits
<1>3. M \in Nat \ {0} /\ Word = 0..M - 1 /\ \A n \in Nat : n % M \in 0..M - 1
  BY <1>1, <1>2 DEF Word
<1> HIDE DEF M
<1>4. /\ \A x \in Word : x \in Nat /\ x < M
      /\ 0 \in Word /\ M - 1 \in Word
      /\ \A n \in Nat : n % M \in Word
  BY <1>3
<1> QED
  BY <1>3, <1>4 DEF M

\* prefixEnd128 gives an address.
LEMMA PrefixEndIsAddr ==
  ASSUME NEW a \in Addr, NEW len \in 1..2 * Bits
  PROVE  PrefixEnd(a, len) \in Addr
<1>1. Bits \in Nat
  BY RirAssumption
<1>2. a = <<a[1], a[2]>> /\ a[1] \in Word /\ a[2] \in Word
  BY DEF Addr
<1>3. ASSUME len <= Bits PROVE Fill(a[1], Bits - len) \in Word
  BY <1>1, <1>2, <1>3, FillIsWord
<1>4. ASSUME ~ len <= Bits PROVE Fill(a[2], 2 * Bits - len) \in Word
  BY <1>1, <1>2, <1>4, FillIsWord
<1> QED
  BY <1>2, <1>3, <1>4, WordIsNumber DEF PrefixEnd, Addr

\* The last address of an IPv4 line, in a word's arithmetic.
V4End(l) == <<0, (l.start[2] + l.value + 2^Bits - 1) % 2^Bits>>

\* It is an address, whatever the count.
LEMMA V4LineTyped ==
  ASSUME NEW l \in V4Lines
  PROVE  /\ l \in Line /\ l.start[1] = 0 /\ l.start[2] \in Word
         /\ l.start = <<0, l.start[2]>>
         /\ V4End(l) \in Addr
<1>1. /\ l \in Line /\ l.start[1] = 0 /\ l.start[2] \in Word
      /\ l.start = <<0, l.start[2]>>
  BY WordIsNumber DEF V4Lines, Line, Addr
<1>2. l.start[2] + l.value + 2^Bits - 1 \in Nat
  BY <1>1, WordIsNumber DEF Line
<1> QED
  BY <1>1, <1>2, WordIsNumber DEF V4End, Addr

\* The last address of an IPv6 line is one too.
LEMMA V6LineTyped ==
  ASSUME NEW l \in V6Lines
  PROVE  /\ l \in Line /\ l.start \in Addr /\ l.value \in 1..2 * Bits
         /\ PrefixEnd(l.start, l.value) \in Addr
<1>1. l \in Line /\ l.start \in Addr /\ l.value \in 1..2 * Bits
  BY RirAssumption DEF V6Lines, Line
<1> QED
  BY <1>1, PrefixEndIsAddr

\* An address is a pair.
LEMMA AddrIsPair == Addr \subseteq Pair
BY WordIsNumber DEF Addr, Pair

----------------------------------------------------------------------------
(* The search's invariant.                                                 *)

\* Rows have addresses at both ends, and a country.
RowsTyped ==
  rows \subseteq [cc : Countries, start : Pair, end : Pair]

\* Once it is made, the table holds all rows, in the order of their starts.
TableHoldsRows(n) ==
  /\ table \in [1..n -> rows]
  /\ \A r \in rows : \E i \in 1..n : table[i] = r
  /\ Sorted(table)

\* Every row before lo ends before the address.
PassedRowsEnd == \A k \in 1..lo : ~ Leq(addr, table[k].end)

\* The search of a table of n rows.
SearchInvariant(n) ==
  /\ addr \in Pair
  /\ lo \in Nat /\ hi \in 0..n /\ lo <= hi
  /\ left \in Nat /\ hi - lo <= left
  /\ hi < n => Leq(addr, At(hi).end)
  /\ Disjoint => PassedRowsEnd

IInv ==
  /\ RowsTyped
  /\ pc \in {"read", "ready", "search", "answered"}
  /\ pc # "read" => \E n \in 0..MaxRows :
       /\ TableHoldsRows(n)
       /\ pc = "search" => SearchInvariant(n)
  /\ AnswerIsCovered
  /\ CoveredIsFound

----------------------------------------------------------------------------
(* A table without overlaps.                                               *)

\* Sorting disjoint rows by their first addresses sorts them by their last.
LEMMA EndsAscend ==
  ASSUME RowsTyped, Disjoint, NEW n \in Nat, TableHoldsRows(n),
         NEW i \in 1..n, NEW j \in 1..n, i <= j
  PROVE  Leq(table[i].end, table[j].end)
<1> DEFINE r == table[i]
           s == table[j]
<1>1. /\ r \in rows /\ s \in rows
      /\ r.start \in Pair /\ r.end \in Pair /\ s.start \in Pair /\ s.end \in Pair
  BY DEF TableHoldsRows, RowsTyped
<1>2. CASE r = s
  BY <1>1, <1>2, LeqTotal
<1>3. CASE r # s
  <2>1. i < j
    BY <1>3
  <2>2. Leq(r.start, s.start)
    BY <2>1 DEF TableHoldsRows, Sorted
  <2>3. Leq(s.start, s.end)
    BY <1>1 DEF Disjoint
  <2>4. Leq(r.start, s.end)
    BY <1>1, <2>2, <2>3, LeqTransitive
  <2>5. ~ Leq(s.start, r.end)
    BY <1>1, <1>3, <2>4 DEF Disjoint
  <2>6. Leq(r.end, s.start)
    BY <1>1, <2>5, LeqTotal
  <2> QED
    BY <1>1, <2>3, <2>6, LeqTransitive
<1> QED
  BY <1>2, <1>3

\* Two rows of a table without overlaps that hold one address are the same.
LEMMA OneRow ==
  ASSUME RowsTyped, Disjoint, NEW a \in Pair,
         NEW r \in rows, NEW s \in rows, Within(a, r), Within(a, s)
  PROVE  r = s
<1>1. /\ r.start \in Pair /\ r.end \in Pair /\ s.start \in Pair /\ s.end \in Pair
  BY DEF RowsTyped
<1>2. Leq(r.start, s.end) /\ Leq(s.start, r.end)
  BY <1>1, LeqTransitive DEF Within
<1> QED
  BY <1>2 DEF Disjoint

----------------------------------------------------------------------------
(* Each action keeps the invariant.                                        *)

\* An empty table has the invariant.
LEMMA InitIInv == Init => IInv
BY DEF Init, IInv, RowsTyped, AnswerIsCovered, CoveredIsFound

\* A row with addresses at both ends is appended.
LEMMA AddRowKeeps ==
  ASSUME IInv, NEW l, NEW end, AddRow(l, end),
         l.cc \in Countries, l.start \in Pair, end \in Pair
  PROVE  IInv'
BY DEF AddRow, searching, IInv, RowsTyped, AnswerIsCovered, CoveredIsFound

\* Build appends such rows only.
LEMMA ReadLineKeeps == IInv /\ ReadLine => IInv'
<1> SUFFICES ASSUME IInv, ReadLine PROVE IInv'
  OBVIOUS
<1>1. ASSUME NEW l \in V4Lines, AddV4(l) PROVE IInv'
  <2>1. l.cc \in Countries /\ l.start \in Pair /\ V4End(l) \in Pair
    BY V4LineTyped, AddrIsPair DEF Line
  <2>2. AddRow(l, V4End(l))
    BY <1>1 DEF AddV4, V4End
  <2> QED
    BY <2>1, <2>2, AddRowKeeps
<1>2. ASSUME NEW l \in V6Lines, AddV6(l) PROVE IInv'
  <2> DEFINE end == PrefixEnd(l.start, l.value)
  <2>1. l.cc \in Countries /\ l.start \in Pair /\ end \in Pair
    BY V6LineTyped, AddrIsPair DEF Line
  <2>2. AddRow(l, end)
    BY <1>2 DEF AddV6
  <2> HIDE DEF end
  <2> QED
    BY <2>1, <2>2, AddRowKeeps
<1> QED
  BY <1>1, <1>2 DEF ReadLine

\* A failed Build leaves no rows.
LEMMA RejectKeeps == IInv /\ Reject => IInv'
BY DEF Reject, searching, IInv, RowsTyped, AnswerIsCovered, CoveredIsFound

\* Sorting makes a table of all the rows.
LEMMA SortKeeps == IInv /\ Sort => IInv'
<1> SUFFICES ASSUME IInv, Sort PROVE IInv'
  OBVIOUS
<1>1. PICK n \in 0..MaxRows : table' \in {t \in Orders(n) : Sorted(t)}
  BY DEF Sort
<1>2. TableHoldsRows(n)'
  BY <1>1 DEF Sort, Orders, TableHoldsRows, Sorted
<1> QED
  BY <1>2 DEF Sort, IInv, RowsTyped, AnswerIsCovered, CoveredIsFound

\* A search begins with the whole table.
LEMMA AskKeeps == IInv /\ Ask => IInv'
<1> SUFFICES ASSUME IInv, Ask PROVE IInv'
  OBVIOUS
<1>1. PICK n \in 0..MaxRows : TableHoldsRows(n)
  BY DEF IInv, Ask
<1>2. n \in Nat /\ DOMAIN table = 1..n
  BY <1>1, RirAssumption DEF TableHoldsRows
<1>3. hi' = n /\ left' = n
  BY <1>2, RirAssumption DEF Ask
<1>4. addr' \in Pair
  BY RirAssumption, PowerPositive DEF Ask, Addresses, Addr, Word, Pair
<1>5. SearchInvariant(n)'
  BY <1>2, <1>3, <1>4 DEF Ask, SearchInvariant, PassedRowsEnd
<1>6. TableHoldsRows(n)'
  BY <1>1 DEF Ask, TableHoldsRows, Sorted
<1> QED
  BY <1>5, <1>6 DEF Ask, IInv, RowsTyped, AnswerIsCovered, CoveredIsFound

\* A probe halves the search, and passes only rows that end too early.
LEMMA ProbeKeeps == IInv /\ Probe => IInv'
<1> SUFFICES ASSUME IInv, Probe PROVE IInv'
  OBVIOUS
<1>1. PICK n \in 0..MaxRows : TableHoldsRows(n) /\ SearchInvariant(n)
  BY DEF IInv, Probe
<1>2. n \in Nat
  BY RirAssumption
<1>3. Middle \in Nat /\ lo <= Middle /\ Middle < hi /\ hi \in 0..n
  BY <1>1, <1>2 DEF SearchInvariant, Probe, Middle
<1>4. TableHoldsRows(n)'
  BY <1>1 DEF Probe, TableHoldsRows, Sorted
<1>5. SearchInvariant(n)'
  <2>1. CASE Leq(addr, At(Middle).end)
    BY <1>1, <1>2, <1>3, <2>1
       DEF Probe, SearchInvariant, At, PassedRowsEnd, Disjoint, Middle
  <2>2. CASE ~ Leq(addr, At(Middle).end)
    <3>1. lo' = Middle + 1 /\ hi' = hi /\ left' = left \div 2
      BY <2>2 DEF Probe
    <3>2. hi' - lo' <= left'
      BY <1>1, <1>2, <1>3, <3>1 DEF SearchInvariant, Middle
    <3>3. Disjoint => PassedRowsEnd'
      <4> SUFFICES ASSUME Disjoint, NEW k \in 1..Middle + 1
                   PROVE  ~ Leq(addr, table[k].end)
        BY <1>3, <3>1 DEF Probe, PassedRowsEnd
      <4>1. Leq(table[k].end, table[Middle + 1].end)
        BY <1>1, <1>2, <1>3, EndsAscend DEF IInv
      <4>2. table[k].end \in Pair /\ table[Middle + 1].end \in Pair
        BY <1>1, <1>2, <1>3 DEF IInv, RowsTyped, TableHoldsRows
      <4> QED
        BY <1>1, <2>2, <4>1, <4>2, LeqTransitive DEF At, SearchInvariant
    <3>4. Disjoint' <=> Disjoint
      BY DEF Probe, Disjoint
    <3> QED
      BY <1>1, <1>2, <1>3, <3>1, <3>2, <3>3, <3>4 DEF Probe, SearchInvariant, At
  <2> QED
    BY <2>1, <2>2
<1> QED
  BY <1>4, <1>5 DEF Probe, IInv, RowsTyped, AnswerIsCovered, CoveredIsFound

\* The answer is the country of a row with the address, and of the only one.
LEMMA AnswerKeeps == IInv /\ Answer => IInv'
<1> SUFFICES ASSUME IInv, Answer PROVE IInv'
  OBVIOUS
<1>1. PICK n \in 0..MaxRows : TableHoldsRows(n) /\ SearchInvariant(n)
  BY DEF IInv, Answer
<1>2. n \in Nat /\ DOMAIN table = 1..n
  BY <1>1, RirAssumption DEF TableHoldsRows
<1>3. lo \in 0..n /\ lo = hi /\ addr \in Pair
  BY <1>1, <1>2 DEF SearchInvariant, Answer
<1>4. TableHoldsRows(n)'
  BY <1>1 DEF Answer, TableHoldsRows, Sorted
<1>5. ASSUME lo < n, Leq(At(lo).start, addr)
      PROVE  At(lo) \in rows /\ Within(addr, At(lo)) /\ answer' = At(lo).cc
  BY <1>1, <1>2, <1>3, <1>5 DEF TableHoldsRows, SearchInvariant, At, Within, Answer
<1>6. AnswerIsCovered'
  <2>1. CASE lo < n /\ Leq(At(lo).start, addr)
    BY <1>5, <2>1 DEF Answer, AnswerIsCovered, Within
  <2>2. CASE ~ (lo < n /\ Leq(At(lo).start, addr))
    BY <1>2, <1>3, <2>2 DEF Answer, AnswerIsCovered
  <2> QED
    BY <2>1, <2>2
<1>7. CoveredIsFound'
  <2> SUFFICES ASSUME Disjoint, NEW r \in rows, Within(addr, r)
               PROVE  answer' = r.cc
    BY DEF Answer, CoveredIsFound, Disjoint, Within
  <2>1. PICK k \in 1..n : table[k] = r
    BY <1>1 DEF TableHoldsRows
  <2>2. lo < k
    BY <1>1, <1>3, <2>1 DEF SearchInvariant, PassedRowsEnd, Within
  <2>3. lo < n /\ lo + 1 \in 1..n /\ lo + 1 <= k
    BY <1>2, <1>3, <2>1, <2>2
  <2>4. At(lo).start \in Pair /\ r.start \in Pair /\ At(lo) \in rows
    BY <1>1, <2>3 DEF IInv, RowsTyped, TableHoldsRows, At
  <2>5. Leq(At(lo).start, r.start)
    <3>1. CASE lo + 1 = k
      BY <2>1, <2>4, <3>1, LeqTotal DEF At
    <3>2. CASE lo + 1 < k
      BY <1>1, <1>2, <2>1, <2>3, <3>2 DEF TableHoldsRows, Sorted, At
    <3> QED
      BY <2>3, <3>1, <3>2
  <2>6. Leq(At(lo).start, addr)
    BY <1>3, <2>4, <2>5, LeqTransitive DEF Within
  <2>7. At(lo) = r
    BY <1>3, <1>5, <2>3, <2>6, OneRow DEF IInv
  <2> QED
    BY <1>5, <2>3, <2>6, <2>7
<1> QED
  BY <1>4, <1>6, <1>7 DEF Answer, IInv, RowsTyped

\* A step that changes nothing keeps the invariant.
LEMMA StutterKeeps == IInv /\ UNCHANGED vars => IInv'
<1> SUFFICES ASSUME IInv, UNCHANGED vars PROVE IInv'
  OBVIOUS
<1>1. /\ rows' = rows /\ table' = table /\ pc' = pc /\ addr' = addr
      /\ lo' = lo /\ hi' = hi /\ left' = left /\ answer' = answer
  BY DEF vars
<1>2. ASSUME NEW n \in 0..MaxRows
      PROVE  /\ TableHoldsRows(n)' <=> TableHoldsRows(n)
             /\ SearchInvariant(n)' <=> SearchInvariant(n)
  BY <1>1 DEF TableHoldsRows, Sorted, SearchInvariant, PassedRowsEnd, At, Disjoint
<1>3. RowsTyped' /\ AnswerIsCovered' /\ CoveredIsFound'
  BY <1>1 DEF IInv, RowsTyped, AnswerIsCovered, CoveredIsFound, Disjoint, Within
<1> QED
  BY <1>1, <1>2, <1>3 DEF IInv

\* The invariant is one.
LEMMA Invariance == Spec => []IInv
<1>1. IInv /\ [Next]_vars => IInv'
  BY ReadLineKeeps, RejectKeeps, SortKeeps, AskKeeps, ProbeKeeps, AnswerKeeps,
     StutterKeeps DEF Next
<1> QED
  BY <1>1, InitIInv, PTL DEF Spec

----------------------------------------------------------------------------
(* What a line says and what its row holds.                                *)

End(l) == IF family = "v4" THEN V4End(l) ELSE PrefixEnd(l.start, l.value)

RowOf(l) == [cc |-> l.cc, start |-> l.start, end |-> End(l)]

\* The rows are those of the lines, each of the table's family.
Recorded ==
  /\ \A l \in lines : IF family = "v4" THEN l \in V4Lines /\ l.value # 0
                                       ELSE l \in V6Lines
  /\ rows = {RowOf(l) : l \in lines}

TypeInvariant ==
  /\ TypeOK
  /\ pc = "read" => table = <<>>
  /\ Recorded

\* An empty table is typed.
LEMMA InitTypes == Init => TypeInvariant
<1> SUFFICES ASSUME Init PROVE TypeInvariant
  OBVIOUS
<1>1. 0 \in 0..MaxRows /\ table \in [1..0 -> rows]
  BY RirAssumption DEF Init
<1>2. addr \in Addr
  BY WordIsNumber DEF Init, Addr
<1> QED
  BY <1>1, <1>2 DEF Init, TypeInvariant, TypeOK, Recorded

\* A line and its row are recorded together.
LEMMA AddRowTypes ==
  ASSUME TypeInvariant, NEW l \in Line, AddRow(l, End(l)), End(l) \in Addr,
         IF family = "v4" THEN l \in V4Lines /\ l.value # 0 ELSE l \in V6Lines
  PROVE  TypeInvariant'
<1>1. /\ lines' = lines \cup {l} /\ rows' = rows \cup {RowOf(l)}
      /\ family' = family /\ pc' = pc /\ pc = "read" /\ table' = table
      /\ addr' = addr /\ lo' = lo /\ hi' = hi /\ left' = left /\ answer' = answer
  BY DEF AddRow, searching, RowOf
<1>2. \A m : RowOf(m)' = RowOf(m)
  BY <1>1 DEF RowOf, End, V4End, PrefixEnd
<1>3. RowOf(l) \in Row
  BY DEF RowOf, Row, Line
<1>4. Recorded'
  BY <1>1, <1>2 DEF TypeInvariant, Recorded
<1>5. table = <<>> /\ 0 \in 0..MaxRows /\ table' \in [1..0 -> rows']
  BY <1>1, RirAssumption DEF TypeInvariant
<1> QED
  BY <1>1, <1>3, <1>4, <1>5 DEF TypeInvariant, TypeOK

\* Build records lines of the format.
LEMMA ReadLineTypes == TypeInvariant /\ ReadLine => TypeInvariant'
<1> SUFFICES ASSUME TypeInvariant, ReadLine PROVE TypeInvariant'
  OBVIOUS
<1>1. ASSUME family = "v4", NEW l \in V4Lines, AddV4(l) PROVE TypeInvariant'
  <2>1. l.value # 0 /\ AddRow(l, End(l)) /\ End(l) = V4End(l)
    BY <1>1 DEF AddV4, V4End, End
  <2> QED
    BY <1>1, <2>1, V4LineTyped, AddRowTypes
<1>2. ASSUME family = "v6", NEW l \in V6Lines, AddV6(l) PROVE TypeInvariant'
  <2>1. AddRow(l, End(l)) /\ End(l) = PrefixEnd(l.start, l.value)
    BY <1>2 DEF AddV6, End
  <2> QED
    BY <1>2, <2>1, V6LineTyped, AddRowTypes
<1> QED
  BY <1>1, <1>2 DEF ReadLine

\* The rest of the steps read what is recorded.
LEMMA StepTypes == TypeInvariant /\ [Next]_vars => TypeInvariant'
<1> SUFFICES ASSUME TypeInvariant, [Next]_vars PROVE TypeInvariant'
  OBVIOUS
<1>0. ASSUME family' = family, lines' = lines, rows' = rows PROVE Recorded'
  <2>1. \A l : RowOf(l)' = RowOf(l)
    BY <1>0 DEF RowOf, End, V4End, PrefixEnd
  <2> QED
    BY <1>0, <2>1 DEF TypeInvariant, Recorded
<1>1. CASE ReadLine
  BY <1>1, ReadLineTypes
<1>2. CASE Reject
  <2>1. 0 \in 0..MaxRows /\ table' \in [1..0 -> rows']
    BY <1>2, RirAssumption DEF Reject, searching, TypeInvariant
  <2> QED
    BY <1>2, <2>1 DEF Reject, searching, TypeInvariant, TypeOK, Recorded
<1>3. CASE Sort
  <2>1. \E n \in 0..MaxRows : table' \in [1..n -> rows']
    BY <1>3 DEF Sort, Orders
  <2> QED
    BY <1>0, <1>3, <2>1 DEF Sort, TypeInvariant, TypeOK
<1>4. CASE Ask
  <2>1. addr' \in Addr
    BY <1>4 DEF Ask, Addresses
  <2>2. hi' \in Nat /\ left' \in Nat
    BY <1>4, RirAssumption DEF Ask
  <2> QED
    BY <1>0, <1>4, <2>1, <2>2 DEF Ask, TypeInvariant, TypeOK
<1>5. CASE Probe
  <2>1. Middle \in Nat /\ left \div 2 \in Nat
    BY DEF TypeInvariant, TypeOK, Middle
  <2> QED
    BY <1>0, <1>5, <2>1 DEF Probe, TypeInvariant, TypeOK
<1>6. CASE Answer
  <2>1. ASSUME lo + 1 \in DOMAIN table PROVE At(lo).cc \in Countries
    BY <2>1 DEF TypeInvariant, TypeOK, At, Row
  <2> QED
    BY <1>0, <1>6, <2>1 DEF Answer, TypeInvariant, TypeOK
<1>7. CASE UNCHANGED vars
  BY <1>0, <1>7 DEF vars, TypeInvariant, TypeOK
<1> QED
  BY <1>1, <1>2, <1>3, <1>4, <1>5, <1>6, <1>7 DEF Next

\* The types and the record are invariant.
LEMMA TypeInvariance == Spec => []TypeInvariant
BY InitTypes, StepTypes, PTL DEF Spec

----------------------------------------------------------------------------
(* What a line says is what its row holds.                                 *)

\* An IPv4 line that ends with the address space, or before: the sum does not
\* wrap.
LEMMA V4Says ==
  ASSUME NEW l \in V4Lines, l.value # 0, Number(l.start) + l.value <= 2^Bits,
         NEW a \in Addr, a[1] = 0, family = "v4"
  PROVE  Says(l, a) <=> Within(a, RowOf(l))
<1> DEFINE M == 2^Bits
           s == l.start[2]
           v == l.value
           n == s + v + M - 1
<1>1. M \in Nat \ {0} /\ s \in 0..M - 1 /\ a[2] \in 0..M - 1 /\ v \in Nat \ {0}
  BY V4LineTyped, WordIsNumber DEF V4Lines, Addr, Word
<1>2. Number(l.start) = s /\ Number(a) = a[2]
  BY <1>1, V4LineTyped DEF Number
<1>3. s + v <= M
  BY <1>2
<1>4. V4End(l) = <<0, n % M>>
  BY DEF V4End
<1>5. Says(l, a) <=> s <= a[2] /\ a[2] < s + v
  BY <1>2 DEF Says
<1>6. Within(a, RowOf(l)) <=> s <= a[2] /\ a[2] <= n % M
  <2>1. /\ RowOf(l).start = l.start /\ RowOf(l).end = <<0, n % M>>
        /\ l.start[1] = 0
    BY <1>4, V4LineTyped DEF RowOf, End
  <2> HIDE DEF n, M
  <2> QED
    BY <2>1 DEF Within, Leq
<1> HIDE DEF M, s, v
<1>7. n = M + (s + v - 1) /\ s + v - 1 \in 0..M - 1
  BY <1>1, <1>3
<1> HIDE DEF n
<1>8. n % M = s + v - 1
  BY <1>1, <1>7, WrapOnce
<1> QED
  BY <1>1, <1>5, <1>6, <1>8

\* A prefix of at most a word: those that share bits of the high word.
LEMMA ShortPrefixSays ==
  ASSUME NEW l \in V6Lines, l.value <= Bits, NEW a \in Addr, family = "v6"
  PROVE  Says(l, a) <=> Within(a, RowOf(l))
<1> DEFINE M == 2^Bits
           P == 2^(Bits - l.value)
           rest == 2^(2 * Bits - l.value)
           h == l.start[1]
<1>1. /\ Bits \in Nat \ {0} /\ l.value \in 1..Bits
      /\ l.start \in Addr /\ l.start[2] = 0 /\ h % P = 0
  BY V6LineTyped, RirAssumption DEF V6Lines, Aligned
<1>2. Bits - l.value \in Nat /\ 2 * Bits - l.value = (Bits - l.value) + Bits
  BY <1>1
<1>3. M \in Nat \ {0} /\ P \in Nat \ {0} /\ rest = P * M
  BY <1>1, <1>2, PowerPositive, PowerSum
<1>4. h \in Nat /\ a[1] \in Nat /\ a[2] \in 0..M - 1
  BY <1>1, WordIsNumber DEF Addr, Word
<1>5. Number(a) = a[1] * M + a[2] /\ Number(l.start) = h * M + 0
  BY <1>1, <1>4 DEF Number
<1>6. End(l) = <<h - (h % P) + (P - 1), M - 1>>
  BY <1>1 DEF End, PrefixEnd, Fill
<1>7. Says(l, a) <=> Number(a) \div rest = Number(l.start) \div rest
  BY DEF Says
<1>8. Within(a, RowOf(l)) <=>
        /\ h < a[1] \/ (h = a[1] /\ 0 <= a[2])
        /\ a[1] < h + (P - 1) \/ (a[1] = h + (P - 1) /\ a[2] <= M - 1)
  <2>1. /\ RowOf(l).start = l.start
        /\ RowOf(l).end = <<h - (h % P) + (P - 1), M - 1>>
    BY <1>6 DEF RowOf
  <2>2. h - (h % P) + (P - 1) = h + (P - 1)
    BY <1>1, <1>3, <1>4
  <2> QED
    BY <1>1, <2>1, <2>2 DEF Within, Leq
<1> HIDE DEF M, P, h, rest
<1>9. Says(l, a) <=> a[1] \div P = h \div P
  <2> DEFINE x == a[1]
             y == a[2]
             z == 0
             m == Number(a)
             n == Number(l.start)
  <2>1. /\ x \in Nat /\ y \in 0..M - 1 /\ z \in 0..M - 1
        /\ m = x * M + y /\ n = h * M + z
    BY <1>3, <1>4, <1>5
  <2>2. Says(l, a) <=> m \div rest = n \div rest
    BY <1>7
  <2> HIDE DEF x, y, z, m, n
  <2>3. m \div rest = x \div P /\ n \div rest = h \div P
    <3>1. m \div rest = x \div P
      BY <1>3, <1>4, <2>1, DivideHigh
    <3>2. n \div rest = h \div P
      BY <1>3, <1>4, <2>1, DivideHigh
    <3> QED
      BY <3>1, <3>2
  <2> QED
    BY <2>2, <2>3 DEF x
<1>10. Says(l, a) <=> h <= a[1] /\ a[1] <= h + (P - 1)
  BY <1>1, <1>3, <1>4, <1>9, SameQuotient
<1> QED
  BY <1>3, <1>4, <1>8, <1>10

\* A longer prefix: those with the same high word that share bits of the low
\* one.
LEMMA LongPrefixSays ==
  ASSUME NEW l \in V6Lines, ~ l.value <= Bits, NEW a \in Addr, family = "v6"
  PROVE  Says(l, a) <=> Within(a, RowOf(l))
<1> DEFINE n == 2 * Bits - l.value
           P == 2^n
           Q == 2^(Bits - n)
           h == l.start[1]
           s == l.start[2]
<1>1. n \in 0..Bits /\ l.start \in Addr /\ s % P = 0
  BY V6LineTyped, RirAssumption DEF V6Lines, Aligned
<1>2. P \in Nat \ {0} /\ Q \in Nat \ {0} /\ 2^Bits = P * Q
  BY <1>1, WordDivides
<1>3. /\ h \in Nat /\ a[1] \in Nat
      /\ s \in 0..P * Q - 1 /\ a[2] \in 0..P * Q - 1
      /\ s \in Nat /\ a[2] \in Nat
  BY <1>1, <1>2, WordIsNumber DEF Addr, Word
<1>4. Number(a) = a[1] * (P * Q) + a[2] /\ Number(l.start) = h * (P * Q) + s
  BY <1>2 DEF Number
<1>5. Says(l, a) <=> Number(a) \div P = Number(l.start) \div P
  BY DEF Says
<1>6. RowOf(l).start = l.start /\ RowOf(l).end = <<h, s + (P - 1)>>
  <2>1. CASE n = 0
    <3>1. P = 1
      BY <2>1, PowerZero
    <3>4. l.value = 2 * Bits
      BY <2>1, V6LineTyped, RirAssumption
    <3>2. End(l) = l.start /\ l.start = <<h, s>>
      BY <1>1, <3>4 DEF End, PrefixEnd, Addr
    <3>3. s = s + (P - 1)
      BY <1>3, <3>1
    <3> QED
      BY <3>2, <3>3 DEF RowOf
  <2>2. CASE n # 0
    <3>1. End(l) = <<h, s - (s % P) + (P - 1)>>
      BY <2>2, V6LineTyped, RirAssumption DEF End, PrefixEnd, Fill
    <3>2. s - (s % P) + (P - 1) = s + (P - 1)
      BY <1>1, <1>2, <1>3
    <3> QED
      BY <3>1, <3>2 DEF RowOf
  <2> QED
    BY <2>1, <2>2
<1>7. Within(a, RowOf(l)) <=>
        /\ h < a[1] \/ (h = a[1] /\ s <= a[2])
        /\ a[1] < h \/ (a[1] = h /\ a[2] <= s + (P - 1))
  <2> HIDE DEF P
  <2> QED
    BY <1>6 DEF Within, Leq
<1> HIDE DEF n, P, Q, h, s
<1> DEFINE x == a[1]
           y == a[2]
           m == Number(a)
           n0 == Number(l.start)
           d == y \div P
           e == s \div P
<1>8. /\ x \in Nat /\ y \in Nat /\ y \in 0..P * Q - 1
      /\ m = x * (P * Q) + y /\ n0 = h * (P * Q) + s
      /\ Says(l, a) <=> m \div P = n0 \div P
  BY <1>3, <1>4, <1>5
<1>9. /\ Within(a, RowOf(l)) <=> x = h /\ s <= y /\ y <= s + (P - 1)
  BY <1>2, <1>3, <1>7
<1> HIDE DEF x, y, m, n0
<1>10. m \div P = x * Q + d /\ n0 \div P = h * Q + e
  BY <1>2, <1>3, <1>8, DivideLow
<1>11. /\ d \in 0..Q - 1 /\ e \in 0..Q - 1
       /\ d = e <=> s <= y /\ y <= s + (P - 1)
  BY <1>1, <1>2, <1>3, <1>8, FillIsIn, SameQuotient
<1> HIDE DEF d, e
<1>12. m \div P = n0 \div P <=> x = h /\ d = e
  BY <1>2, <1>3, <1>8, <1>10, <1>11, PairIsNumber
<1> QED
  BY <1>8, <1>9, <1>11, <1>12

\* So for every line of a file whose counts end with the address space.
LEMMA LineSays ==
  ASSUME Recorded, NEW l \in lines, NEW a \in Addresses,
         family \in {"v4", "v6"},
         family = "v4" => Number(l.start) + l.value <= 2^Bits
  PROVE  Says(l, a) <=> Within(a, RowOf(l))
BY V4Says, ShortPrefixSays, LongPrefixSays DEF Recorded, Addresses

\* So the rows of a file say what its lines say.
LEMMA RecordedSays == TypeInvariant => RowsSayWhatLinesSay
<1> SUFFICES
      ASSUME TypeInvariant,
             \A l \in lines :
               family = "v4" => Number(l.start) + l.value <= 2^Bits,
             NEW a \in Addresses, NEW c \in Countries
      PROVE  (\E l \in lines : l.cc = c /\ Says(l, a))
               <=> (\E r \in rows : r.cc = c /\ Within(a, r))
  BY DEF RowsSayWhatLinesSay
<1>1. \A l \in lines : /\ RowOf(l).cc = l.cc
                       /\ Says(l, a) <=> Within(a, RowOf(l))
  BY LineSays DEF TypeInvariant, TypeOK, RowOf
<1>2. rows = {RowOf(l) : l \in lines}
  BY DEF TypeInvariant, Recorded
<1> QED
  BY <1>1, <1>2

----------------------------------------------------------------------------
(* The loops of CIDRsFromV4Count.                                          *)

\* The inner loop ends, with a block that remains, that is aligned, and that
\* cannot be doubled.  No divisor in it is 0.
LEMMA ExponentIsLargest ==
  ASSUME NEW c \in Word, NEW r \in Word, r # 0
  PROVE  LET k == Exponent(c, r) IN
         /\ k \in 0..Bits /\ ~ Grows(k, c, r)
         /\ 2^k \in Nat \ {0} /\ 2^k <= r /\ c % 2^k = 0
<1> DEFINE k == Exponent(c, r)
           T == {i \in 0..Bits : ~ Grows(i, c, r)}
<1>1. /\ Bits \in Nat /\ 2^Bits \in Nat
      /\ c \in Nat /\ r \in Nat \ {0} /\ r < 2^Bits
  BY WordIsNumber, RirAssumption
<1>2. Bits \in T
  <2>1. ASSUME NEW m \in Nat, r < m PROVE ~ m <= r \div 2
    BY <1>1, <2>1
  <2> QED
    BY <1>1, <2>1 DEF Grows
<1>3. PICK i \in T : \A j \in T : i <= j
  <2>1. T \subseteq Nat /\ T # {}
    BY <1>1, <1>2
  <2> HIDE DEF T
  <2> QED
    BY <2>1, LeastNatural
<1>4. i \in 0..Bits /\ ~ Grows(i, c, r) /\ \A j \in 0..i - 1 : Grows(j, c, r)
  <2>1. \A j \in 0..i - 1 : j \in 0..Bits /\ ~ i <= j
    BY <1>1, <1>3
  <2> QED
    BY <1>3, <2>1
<1>5. k \in 0..Bits /\ ~ Grows(k, c, r) /\ \A j \in 0..k - 1 : Grows(j, c, r)
  BY <1>4 DEF Exponent
<1> HIDE DEF k, T
<1>6. 2^k \in Nat \ {0}
  BY <1>5, PowerPositive
<1>7. CASE k = 0
  <2>1. 2^k = 1
    BY <1>7, PowerZero
  <2> QED
    BY <1>1, <1>5, <2>1 DEF k
<1>8. CASE k # 0
  <2> DEFINE p == 2^(k - 1)
  <2>1. k - 1 \in Nat /\ k - 1 \in 0..k - 1 /\ (k - 1) + 1 = k
    BY <1>5, <1>8
  <2>2. p \in Nat \ {0} /\ 2^k = 2 * p
    BY <2>1, PowerPositive, PowerNext
  <2>3. Grows(k - 1, c, r)
    BY <1>5, <2>1
  <2>4. p <= r \div 2 /\ c % ((2 * p) % 2^Bits) = 0
    BY <2>3 DEF Grows
  <2> HIDE DEF p
  <2>5. 2 * p <= r
    BY <1>1, <2>2, <2>4
  <2>6. (2 * p) % 2^Bits = 2 * p
    <3> DEFINE M == 2^Bits
    <3>1. M \in Nat /\ 2 * p < M
      BY <1>1, <2>5, <2>2
    <3> HIDE DEF M
    <3>2. (2 * p) % M = 2 * p
      BY <3>1, <2>2
    <3> QED
      BY <3>2 DEF M
  <2> QED
    BY <1>5, <1>6, <2>2, <2>4, <2>5, <2>6 DEF k
<1> QED
  BY <1>7, <1>8

\* The blocks that a table of shorter ranges gives a range.
Cut(table0, r) ==
  [c \in Word |->
     IF r = 0 THEN {}
     ELSE LET k == Exponent(c, r)
          IN {<<c - (c % 2^k), k>>} \cup table0[r - 2^k][(c + 2^k) % 2^Bits]]

\* They depend on the shorter ranges only.
LEMMA CutIsLocal ==
  ASSUME NEW r \in Word, NEW f, NEW g, \A i \in 0..r - 1 : f[i] = g[i]
  PROVE  Cut(f, r) = Cut(g, r)
<1>1. CASE r = 0
  BY <1>1 DEF Cut
<1>2. CASE r # 0
  <2>1. \A c \in Word : f[r - 2^Exponent(c, r)] = g[r - 2^Exponent(c, r)]
    <3> SUFFICES ASSUME NEW c \in Word
                 PROVE  r - 2^Exponent(c, r) \in 0..r - 1
      OBVIOUS
    <3>1. 2^Exponent(c, r) \in Nat \ {0} /\ 2^Exponent(c, r) <= r
      BY <1>2, ExponentIsLargest
    <3> DEFINE p == 2^Exponent(c, r)
    <3>2. p \in Nat \ {0} /\ p <= r /\ r \in Nat
      BY <3>1, WordIsNumber
    <3> HIDE DEF p
    <3>3. r - p \in 0..r - 1
      BY <3>2
    <3> QED
      BY <3>3 DEF p
  <2> QED
    BY <1>2, <2>1 DEF Cut
<1> QED
  BY <1>1, <1>2

\* So the recursion defines a table for every length.
LEMMA CIDRsIsCut == CIDRs = [r \in Word |-> Cut(CIDRs, r)]
<1> DEFINE Made(n, f) == f = [r \in 0..n |-> Cut(f, r)]
           S == {n \in Nat : n < 2^Bits => \E f : Made(n, f)}
<1>1. 2^Bits \in Nat \ {0} /\ Word = 0..2^Bits - 1
  BY WordIsNumber DEF Word
<1>2. 0 \in S
  <2> DEFINE f == [r \in 0..0 |-> [c \in Word |-> {}]]
  <2>1. \A r \in 0..0 : Cut(f, r) = [c \in Word |-> {}]
    BY DEF Cut
  <2>2. Made(0, f)
    BY <2>1
  <2> QED
    BY <2>2
<1>3. ASSUME NEW n \in Nat, n \in S PROVE n + 1 \in S
  <2> SUFFICES ASSUME n + 1 < 2^Bits PROVE \E g : Made(n + 1, g)
    OBVIOUS
  <2>1. PICK f : Made(n, f)
    BY <1>1, <1>3
  <2> DEFINE g == [r \in 0..n + 1 |-> IF r <= n THEN f[r] ELSE Cut(f, r)]
  <2>2. \A i \in 0..n : g[i] = f[i]
    OBVIOUS
  <2>3. ASSUME NEW r \in 0..n + 1 PROVE g[r] = Cut(g, r)
    <3>1. r \in Word /\ \A i \in 0..r - 1 : i \in 0..n
      BY <1>1
    <3>2. Cut(f, r) = Cut(g, r)
      BY <2>2, <3>1, CutIsLocal
    <3>3. g[r] = Cut(f, r)
      BY <2>1
    <3> QED
      BY <3>2, <3>3
  <2>4. Made(n + 1, g)
    BY <2>3
  <2> QED
    BY <2>4
<1> HIDE DEF S
<1>4. 2^Bits - 1 \in S
  BY <1>1, <1>2, <1>3, Induction
<1>5. \E f : f = [r \in Word |-> Cut(f, r)]
  BY <1>1, <1>4 DEF S
<1>6. CIDRs = CHOOSE f : f = [r \in Word |-> Cut(f, r)]
  BY DEF CIDRs, Cut
<1> QED
  BY <1>5, <1>6

----------------------------------------------------------------------------
(* The blocks of a range.                                                  *)

\* Two blocks that neither overlap nor are the halves of a larger one.
Apart(b, c) ==
  /\ Block(b) \cap Block(c) = {}
  /\ ~ (b[2] = c[2] /\ b[1] \div 2^(b[2] + 1) = c[1] \div 2^(c[2] + 1))

\* What the blocks of the r addresses from c are to be.
Decomposes(blocks, c, r) ==
  /\ blocks \subseteq Nat \X Nat
  /\ UNION {Block(b) : b \in blocks} = c..c + r - 1
  /\ \A a, b \in blocks : a # b => Apart(a, b)

\* The first block is not half of one with a later block: an even one would have
\* been doubled, and an odd one is the second half.
LEMMA NoLaterHalf ==
  ASSUME NEW p \in Nat \ {0}, NEW c \in Nat, c % p = 0,
         NEW x \in Nat, c + p <= x, x \div (2 * p) = c \div (2 * p)
  PROVE  c % (2 * p) = 0 /\ x < c + 2 * p
<1> DEFINE P == 2 * p
           q == c \div P
           s == c % P
           t == x % P
<1>1. P \in Nat \ {0}
  OBVIOUS
<1>2. q \in Nat /\ s \in 0..P - 1 /\ c = P * q + s
  BY <1>1, Division
<1>3. t \in 0..P - 1 /\ x = P * q + t
  <2> HIDE DEF P
  <2>1. t \in 0..P - 1 /\ x = P * (x \div P) + t
    BY <1>1, Division
  <2> QED
    BY <2>1 DEF P
<1>4. s < p
  BY <1>1, <1>2, <1>3
<1>5. s = 0
  <2>1. c = p * (2 * q) + s
    BY <1>2
  <2> DEFINE u == 2 * q
  <2>2. u \in Nat /\ s \in 0..p - 1 /\ c = p * u + s
    BY <1>2, <1>4, <2>1
  <2> HIDE DEF u, s
  <2>3. c % p = s
    BY <2>2, DivisionIsUnique
  <2> QED
    BY <2>3
<1> QED
  BY <1>2, <1>3, <1>5

\* CIDRsFromV4Count decomposes a range of any length that fits the address
\* space.
LEMMA CIDRsDecompose ==
  ASSUME NEW r \in Word, NEW c \in Word, c + r <= 2^Bits
  PROVE  Decomposes(CIDRs[r][c], c, r)
<1> DEFINE Good(i) ==
             \A d \in Word : d + i <= 2^Bits => Decomposes(CIDRs[i][d], d, i)
           S == {n \in Nat : \A i \in 0..n : i < 2^Bits => Good(i)}
<1>0. 2^Bits \in Nat \ {0} /\ Word = 0..2^Bits - 1
  BY WordIsNumber DEF Word
<1>1. \A i \in Word : CIDRs[i] = Cut(CIDRs, i)
  BY CIDRsIsCut
<1>2. \A d \in Word : CIDRs[0][d] = {}
  BY <1>1, WordIsNumber DEF Cut
<1>3. Good(0)
  <2> SUFFICES ASSUME NEW d \in Word PROVE Decomposes({}, d, 0)
    BY <1>2
  <2>1. d..d + 0 - 1 = {}
    BY WordIsNumber
  <2> QED
    BY <2>1 DEF Decomposes
<1>4. ASSUME NEW i \in Word, i # 0, NEW d \in Word, d + i <= 2^Bits,
             \A j \in 0..i - 1 : Good(j)
      PROVE  Decomposes(CIDRs[i][d], d, i)
  <2> DEFINE k == Exponent(d, i)
             p == 2^k
             j == i - p
             e == (d + p) % 2^Bits
             first == <<d - (d % p), k>>
             rest == CIDRs[j][e]
  <2>1. /\ k \in 0..Bits /\ ~ Grows(k, d, i)
        /\ p \in Nat \ {0} /\ p <= i /\ d % p = 0
    BY <1>4, ExponentIsLargest
  <2>2. CIDRs[i][d] = {first} \cup rest
    BY <1>1, <1>4 DEF Cut
  <2>3. i \in Nat \ {0} /\ d \in Nat /\ k \in Nat /\ i < 2^Bits
    BY <1>4, <2>1, WordIsNumber
  <2>4. first = <<d, k>> /\ Block(first) = d..d + p - 1
    BY <2>1, <2>3 DEF Block
  <2>5. Decomposes(rest, d + p, j)
    <3>1. CASE j = 0
      <4>1. e \in Word /\ rest = {}
        BY <1>2, <2>1, <2>3, <3>1, WordIsNumber
      <4>2. d + p..d + p + j - 1 = {}
        BY <2>1, <2>3, <3>1
      <4> QED
        BY <4>1, <4>2 DEF Decomposes
    <3>2. CASE j # 0
      <4> DEFINE M == 2^Bits
      <4>1. d + p < M /\ d + p \in 0..M - 1 /\ j \in 0..i - 1 /\ d + p + j <= M
        <5> HIDE DEF M, p
        <5>1. p \in Nat \ {0} /\ p < i /\ d + i <= M /\ M \in Nat
          BY <1>0, <1>4, <2>1, <2>3, <3>2 DEF M
        <5> QED
          BY <2>3, <5>1
      <4>2. e = d + p
        <5> HIDE DEF M, p
        <5>1. \A n \in 0..M - 1 : n % M = n
          BY <1>0 DEF M
        <5> QED
          BY <4>1, <5>1 DEF M
      <4> QED
        BY <1>0, <1>4, <4>1, <4>2
    <3> QED
      BY <3>1, <3>2
  <2> HIDE DEF k, p, j, e, first, rest
  <2>6. first \in Nat \X Nat /\ rest \subseteq Nat \X Nat
    BY <2>3, <2>4, <2>5 DEF Decomposes
  <2>7. UNION {Block(b) : b \in {first} \cup rest} = d..d + i - 1
    <3>1. UNION {Block(b) : b \in rest} = d + p..d + i - 1
      BY <2>1, <2>3, <2>5 DEF Decomposes, j
    <3>2. (d..d + p - 1) \cup (d + p..d + i - 1) = d..d + i - 1
      BY <2>1, <2>3
    <3>3. UNION {Block(b) : b \in {first} \cup rest}
            = Block(first) \cup UNION {Block(b) : b \in rest}
      OBVIOUS
    <3> QED
      BY <2>4, <3>1, <3>2, <3>3
  <2>8. ASSUME NEW b \in rest PROVE Apart(first, b) /\ Apart(b, first)
    <3> DEFINE x == b[1]
               l == b[2]
    <3>1. x \in Nat /\ l \in Nat
      BY <2>6
    <3>2. Block(b) \subseteq d + p..d + i - 1
      <4>1. Block(b) \subseteq UNION {Block(a) : a \in rest}
        OBVIOUS
      <4> QED
        BY <2>1, <2>3, <2>5, <4>1 DEF Decomposes, j
    <3>3. Block(first) \cap Block(b) = {}
      BY <2>1, <2>3, <2>4, <3>2
    <3>4. first[1] = d /\ first[2] = k
      BY <2>4
    <3>5. ~ (l = k /\ x \div 2^(k + 1) = d \div 2^(k + 1))
      <4> SUFFICES ASSUME l = k, x \div 2^(k + 1) = d \div 2^(k + 1) PROVE FALSE
        OBVIOUS
      <4>1. 2^(k + 1) = 2 * p
        BY <2>3, PowerNext DEF p
      <4>2. Block(b) = x..x + p - 1
        BY DEF Block, p
      <4> HIDE DEF x
      <4>3. d + p <= x /\ x + p <= d + i
        <5>1. x \in x..x + p - 1 /\ x + p - 1 \in x..x + p - 1
          BY <2>1, <3>1
        <5>2. x \in d + p..d + i - 1 /\ x + p - 1 \in d + p..d + i - 1
          BY <3>2, <4>2, <5>1
        <5> QED
          BY <2>1, <2>3, <3>1, <5>2
      <4>4. d % (2 * p) = 0
        BY <2>1, <2>3, <3>1, <4>1, <4>3, NoLaterHalf
      <4>5. 2 * p <= i /\ p <= i \div 2
        BY <2>1, <2>3, <3>1, <4>3
      <4>6. (2 * p) % 2^Bits = 2 * p
        <5> DEFINE M == 2^Bits
        <5>1. M \in Nat /\ 2 * p < M
          BY <1>0, <2>1, <2>3, <4>5
        <5> HIDE DEF M
        <5>2. (2 * p) % M = 2 * p
          BY <2>1, <5>1
        <5> QED
          BY <5>2 DEF M
      <4>7. Grows(k, d, i)
        BY <2>1, <4>4, <4>5, <4>6 DEF Grows, p
      <4> QED
        BY <2>1, <4>7
    <3> QED
      BY <3>3, <3>4, <3>5 DEF Apart
  <2>9. \A a, b \in {first} \cup rest : a # b => Apart(a, b)
    BY <2>5, <2>8 DEF Decomposes
  <2> QED
    BY <2>2, <2>6, <2>7, <2>9 DEF Decomposes
<1>5. 0 \in S
  BY <1>3
<1>6. ASSUME NEW n \in Nat, n \in S PROVE n + 1 \in S
  <2> SUFFICES ASSUME NEW i \in 0..n + 1, i < 2^Bits PROVE Good(i)
    OBVIOUS
  <2>1. CASE i <= n
    BY <1>6, <2>1
  <2>2. CASE i = n + 1
    <3>1. i \in Word /\ i # 0 /\ \A j \in 0..i - 1 : j \in 0..n /\ j < 2^Bits
      BY <1>0, <2>2
    <3>2. \A j \in 0..i - 1 : Good(j)
      BY <1>6, <3>1
    <3> HIDE DEF Good
    <3>3. ASSUME NEW d \in Word, d + i <= 2^Bits
          PROVE  Decomposes(CIDRs[i][d], d, i)
      BY <1>4, <3>1, <3>2, <3>3
    <3> QED
      BY <3>3 DEF Good
  <2> QED
    BY <2>1, <2>2
<1> HIDE DEF S
<1>7. r \in S
  BY <1>5, <1>6, Induction, WordIsNumber
<1>8. Good(r)
  BY <1>7, WordIsNumber DEF S
<1> QED
  BY <1>8

\* So the blocks of a line's range are the addresses of its row.
LEMMA RecordedBlocks == TypeInvariant => BlocksAreTheRow
<1> SUFFICES ASSUME TypeInvariant, family = "v4", NEW l \in lines,
                    l.value < 2^Bits, Number(l.start) + l.value <= 2^Bits
             PROVE  Decomposes(CIDRs[l.value][l.start[2]], l.start[2], l.value)
  BY DEF BlocksAreTheRow, Decomposes, Apart
<1>1. l \in V4Lines
  BY DEF TypeInvariant, Recorded
<1>2. l.start[1] = 0 /\ l.start[2] \in Word /\ l.value \in Nat
  BY <1>1, V4LineTyped DEF Line
<1>3. l.value \in Word /\ l.start[2] + l.value <= 2^Bits
  <2>1. Number(l.start) = l.start[2]
    BY <1>2, WordIsNumber DEF Number
  <2> QED
    BY <1>2, <2>1, WordIsNumber DEF Word
<1> QED
  BY <1>2, <1>3, CIDRsDecompose

----------------------------------------------------------------------------
(* The theorems.                                                           *)

\* LookupIP never answers with a country that no row gives to the address.
THEOREM NoInventedCountry == Spec => []AnswerIsCovered
<1>1. IInv => AnswerIsCovered
  BY DEF IInv
<1> QED
  BY <1>1, Invariance, PTL

\* In a table without overlaps, LookupIP finds the row of every address.
THEOREM NoMissedRow == Spec => []CoveredIsFound
<1>1. IInv => CoveredIsFound
  BY DEF IInv
<1> QED
  BY <1>1, Invariance, PTL

\* LookupIP probes at most 1 + log2(len) rows.
THEOREM SearchIsBinary == Spec => []ProbesHalve
<1>1. IInv => ProbesHalve
  BY DEF IInv, SearchInvariant, ProbesHalve
<1> QED
  BY <1>1, Invariance, PTL

\* Every variable keeps its type; addresses stay words, and the table is one of
\* the rows.
THEOREM Typed == Spec => []TypeOK
<1>1. TypeInvariant => TypeOK
  BY DEF TypeInvariant
<1> QED
  BY <1>1, TypeInvariance, PTL

\* The rows that Build makes of a file hold the addresses that its lines say.
THEOREM RowsAreLines == Spec => []RowsSayWhatLinesSay
BY RecordedSays, TypeInvariance, PTL

\* CIDRsFromV4Count decomposes the range of a line into the addresses of its
\* row, each in one block, and no two blocks are the halves of a larger one.
THEOREM BlocksAreRows == Spec => []BlocksAreTheRow
BY RecordedBlocks, TypeInvariance, PTL
=============================================================================
