-------------------------------- MODULE Rir --------------------------------
(***************************************************************************)
(* The country table (internal/rir): Build reads a delegated-stats file    *)
(* line by line into rows and sorts them by their first address; LookupIP  *)
(* then searches for the first row whose LAST address is not before the    *)
(* one asked for.  That the order of the first addresses serves a search   *)
(* by the last ones is what the registries' files, without overlaps, give; *)
(* nothing in the code asks for it.                                        *)
(*                                                                         *)
(* An address is a pair of machine words, high and low.  An IPv4 address   *)
(* and an AS number have one word, the low one (LookupASN is LookupIP's    *)
(* IPv4 branch over again).  A table is for one of the two families.       *)
(***************************************************************************)
EXTENDS Integers, FiniteSets

CONSTANTS
  Bits,        \* bits of a word: 32 for IPv4, 64 for each half of IPv6
  Countries,
  NoCC,        \* "", no match
  MaxRows      \* bound: lines of a file that become rows

ASSUME RirAssumption ==
  /\ Bits \in Nat \ {0}
  /\ NoCC \notin Countries
  /\ MaxRows \in Nat

VARIABLES
  family,      \* what the table holds: "v4" (or AS numbers) or "v6"
  lines,       \* history: the lines that became rows
  rows,        \* the rows appended so far; equal rows count once
  table,       \* the rows in order, once the file is read
  pc,
  addr,        \* the address LookupIP is asked for
  lo, hi,      \* sort.Search's i and j, from 0
  left,        \* history: the table's length, halved by every probe
  answer

vars == <<family, lines, rows, table, pc, addr, lo, hi, left, answer>>

----------------------------------------------------------------------------
Word == 0..2^Bits - 1
Addr == Word \X Word
Addresses == {a \in Addr : family = "v4" => a[1] = 0}

\* Value counts addresses, or is the length of a prefix.
Line == [cc : Countries, start : Addr, value : Nat]
Row  == [cc : Countries, start : Addr, end : Addr]

\* cmp128(a, b) <= 0.
Leq(a, b) == a[1] < b[1] \/ (a[1] = b[1] /\ a[2] <= b[2])

\* What sort.Slice may make of a set of rows: rows that start together come in
\* any order, since it is not stable.
Sorted(t) == \A i, j \in DOMAIN t : i < j => Leq(t[i].start, t[j].start)
Orders(n) ==
  {t \in [1..n -> rows] :
     /\ \A r \in rows : \E i \in 1..n : t[i] = r
     /\ \A i, j \in 1..n : t[i] = t[j] => i = j}

Init ==
  /\ family \in {"v4", "v6"}
  /\ lines = {}
  /\ rows = {}
  /\ table = <<>>
  /\ pc = "read"
  /\ addr = <<0, 0>>
  /\ lo = 0
  /\ hi = 0
  /\ left = 0
  /\ answer = NoCC

searching == <<table, addr, lo, hi, left, answer>>

----------------------------------------------------------------------------
(* Build.                                                                  *)

\* x | (1<<n - 1), in a word.
Fill(x, n) == x - (x % 2^n) + (2^n - 1)

\* Faulty variant: the low word of a short prefix is left as it is.
PrefixEndHigh(a, len) ==
  IF len <= Bits THEN <<Fill(a[1], Bits - len), a[2]>>
  ELSE <<a[1], Fill(a[2], 2 * Bits - len)>>

\* prefixEnd128: the last address of a prefix.
PrefixEnd(a, len) ==
  IF len = 2 * Bits THEN a
  ELSE IF len <= Bits THEN <<Fill(a[1], Bits - len), 2^Bits - 1>>
  ELSE <<a[1], Fill(a[2], 2 * Bits - len)>>

AddRow(l, end) ==
  /\ pc = "read"
  /\ Cardinality(lines) < MaxRows
  /\ lines' = lines \cup {l}
  /\ rows' = rows \cup {[cc |-> l.cc, start |-> l.start, end |-> end]}
  /\ UNCHANGED <<family, pc, searching>>

\* The count of addresses is cut to a word, and the sum wraps.  Other lines of
\* this type (no address at all, a country that is not two letters) and the
\* summaries, comments and the version line change nothing.
AddV4(l) ==
  /\ l.value # 0
  /\ AddRow(l, <<0, (l.start[2] + l.value + 2^Bits - 1) % 2^Bits>>)

AddV6(l) == l.value \in 1..2 * Bits /\ AddRow(l, PrefixEnd(l.start, l.value))

\* The lines of a file: counts up to and beyond the size of a word; prefixes
\* that start at their first address, as the registries write them.
V4Lines ==
  [cc : Countries, start : {a \in Addr : a[1] = 0}, value : 0..2^Bits + 1]

Aligned(l) ==
  IF l.value <= Bits THEN l.start[2] = 0 /\ l.start[1] % 2^(Bits - l.value) = 0
  ELSE l.start[2] % 2^(2 * Bits - l.value) = 0

V6Lines == {l \in [cc : Countries, start : Addr, value : 1..2 * Bits] : Aligned(l)}

ReadLine ==
  \/ family = "v4" /\ \E l \in V4Lines : AddV4(l)
  \/ family = "v6" /\ \E l \in V6Lines : AddV6(l)

\* A short line, an unknown type, a number or an address that does not parse,
\* a prefix of no or too many bits: Build fails, and starts over when there is
\* another file.
Reject ==
  /\ pc = "read"
  /\ lines' = {}
  /\ rows' = {}
  /\ UNCHANGED <<family, pc, searching>>

\* Faulty variant: the rows keep the order of the file.
SortNot ==
  /\ pc = "read"
  /\ \E n \in 0..MaxRows : table' \in Orders(n)
  /\ pc' = "ready"
  /\ UNCHANGED <<family, lines, rows, addr, lo, hi, left, answer>>

\* The end of the file: sort.Slice by Start.
Sort ==
  /\ pc = "read"
  /\ \E n \in 0..MaxRows : table' \in {t \in Orders(n) : Sorted(t)}
  /\ pc' = "ready"
  /\ UNCHANGED <<family, lines, rows, addr, lo, hi, left, answer>>

----------------------------------------------------------------------------
(* LookupIP.                                                               *)

\* sort.Search(len, ...) begins.
Ask ==
  /\ pc \in {"ready", "answered"}
  /\ addr' \in Addresses
  /\ lo' = 0
  /\ \E n \in 0..MaxRows : DOMAIN table = 1..n /\ hi' = n /\ left' = n
  /\ pc' = "search"
  /\ answer' = NoCC
  /\ UNCHANGED <<family, lines, rows, table>>

Middle == (lo + hi) \div 2

\* Row number k, from 0.
At(k) == table[k + 1]

Probe ==
  /\ pc = "search" /\ lo < hi
  /\ IF Leq(addr, At(Middle).end) THEN hi' = Middle /\ UNCHANGED lo
                                  ELSE lo' = Middle + 1 /\ UNCHANGED hi
  /\ left' = left \div 2
  /\ UNCHANGED <<family, lines, rows, table, pc, addr, answer>>

\* Faulty variant: the row that was found is not asked where it starts.
AnswerFirst ==
  /\ pc = "search" /\ lo = hi
  /\ answer' = IF lo + 1 \in DOMAIN table THEN At(lo).cc ELSE NoCC
  /\ pc' = "answered"
  /\ UNCHANGED <<family, lines, rows, table, addr, lo, hi, left>>

Answer ==
  /\ pc = "search" /\ lo = hi
  /\ answer' = IF lo + 1 \in DOMAIN table /\ Leq(At(lo).start, addr)
               THEN At(lo).cc ELSE NoCC
  /\ pc' = "answered"
  /\ UNCHANGED <<family, lines, rows, table, addr, lo, hi, left>>

----------------------------------------------------------------------------
(* CIDRsFromV4Count: a range as aligned blocks, each as its first address  *)
(* and the logarithm of its length.                                        *)

\* Faulty variant: a block starts where the last one has ended.
GrowsAnywhere(k, cursor, remain) ==
  /\ 2^k <= remain \div 2
  /\ (2 * 2^k) % 2^Bits # 0

\* The loop's condition on a block of 2^k: half of what remains holds it, the
\* next size is aligned here, and is not beyond the word.  The remainder is
\* taken before that is known: a divisor of 0 would be a panic.
Grows(k, cursor, remain) ==
  /\ 2^k <= remain \div 2
  /\ cursor % ((2 * 2^k) % 2^Bits) = 0
  /\ (2 * 2^k) % 2^Bits # 0

Exponent(cursor, remain) ==
  CHOOSE k \in 0..Bits :
    ~ Grows(k, cursor, remain) /\ \A j \in 0..k - 1 : Grows(j, cursor, remain)

\* netip's Prefix clears the bits of the host.
CIDRs[remain \in Word] ==
  [cursor \in Word |->
     IF remain = 0 THEN {}
     ELSE LET k == Exponent(cursor, remain)
          IN {<<cursor - (cursor % 2^k), k>>}
               \cup CIDRs[remain - 2^k][(cursor + 2^k) % 2^Bits]]

----------------------------------------------------------------------------
Next == ReadLine \/ Reject \/ Sort \/ Ask \/ Probe \/ Answer

Spec == Init /\ [][Next]_vars

----------------------------------------------------------------------------
(* Properties.                                                             *)

TypeOK ==
  /\ family \in {"v4", "v6"}
  /\ lines \in SUBSET Line
  /\ rows \in SUBSET Row
  /\ \E n \in 0..MaxRows : table \in [1..n -> rows]
  /\ pc \in {"read", "ready", "search", "answered"}
  /\ addr \in Addr
  /\ lo \in Nat
  /\ hi \in Nat
  /\ left \in Nat
  /\ answer \in Countries \cup {NoCC}

Within(a, r) == Leq(r.start, a) /\ Leq(a, r.end)

\* No address has two rows, and no row has no address.
Disjoint ==
  /\ \A r \in rows : Leq(r.start, r.end)
  /\ \A r, s \in rows : r = s \/ ~ Leq(r.start, s.end) \/ ~ Leq(s.start, r.end)

\* LookupIP never answers with a country that no row gives to the address,
\* whatever the file: overlaps and counts that wrap can hide a row, not invent
\* a country.
AnswerIsCovered ==
  pc = "answered" /\ answer # NoCC =>
    \E r \in rows : r.cc = answer /\ Within(addr, r)

\* In a table without overlaps, LookupIP finds the row of every address that
\* has one, although the rows are in the order of their first addresses and
\* searched by their last ones.
CoveredIsFound ==
  pc = "answered" /\ Disjoint =>
    \A r \in rows : Within(addr, r) => answer = r.cc

\* Every probe halves what is left to search, so that LookupIP returns, after
\* at most 1 + log2(len) probes.
ProbesHalve == pc = "search" => hi - lo <= left

Number(a) == a[1] * 2^Bits + a[2]

\* What a line says in the format's terms: so many addresses from the first, or
\* those that share so many bits with it.
Says(l, a) ==
  IF family = "v4"
  THEN Number(l.start) <= Number(a) /\ Number(a) < Number(l.start) + l.value
  ELSE LET rest == 2^(2 * Bits - l.value)
       IN Number(a) \div rest = Number(l.start) \div rest

\* The rows hold the addresses that the lines say, to the last one of a count
\* that ends with the address space and the prefix that ends with a word.
RowsSayWhatLinesSay ==
  pc = "ready" /\ (\A l \in lines : family = "v4" => Number(l.start) + l.value <= 2^Bits) =>
    \A a \in Addresses, c \in Countries :
      (\E l \in lines : l.cc = c /\ Says(l, a))
        <=> (\E r \in rows : r.cc = c /\ Within(a, r))

Block(b) == b[1]..b[1] + 2^b[2] - 1

\* CIDRsFromV4Count decomposes a line's range into the addresses of the row that
\* Build makes of it: each in one block, and with the fewest blocks, no two of
\* which are the halves of a larger one.
BlocksAreTheRow ==
  pc = "ready" /\ family = "v4" =>
    \A l \in lines : l.value < 2^Bits /\ Number(l.start) + l.value <= 2^Bits =>
      LET blocks == CIDRs[l.value][l.start[2]] IN
      /\ UNION {Block(b) : b \in blocks} = l.start[2]..l.start[2] + l.value - 1
      /\ \A b, c \in blocks : b # c =>
           /\ Block(b) \cap Block(c) = {}
           /\ ~ (b[2] = c[2] /\ b[1] \div 2^(b[2] + 1) = c[1] \div 2^(c[2] + 1))
=============================================================================
