-------------------------------- MODULE Util ---------------------------------
(***************************************************************************)
(* The arithmetic the driver stands on: no_os_util.c and the helpers at    *)
(* the end of ad9361_util.c.  Each function is what its loop computes; a   *)
(* behaviour is one call, and the invariants compare what it returns with  *)
(* a reference definition.  A uint32_t has WordBits bits here, a byte      *)
(* ByteBits, and the 64-bit products are of words of HalfBits.             *)
(***************************************************************************)
EXTENDS Integers, Sequences, FiniteSets
LOCAL INSTANCE SequencesExt
LOCAL INSTANCE Bitwise

CONSTANTS
  WordBits,     \* 32
  Halves,       \* <<16, 8, 4, 2, 1>>: the steps of a search by halves
  ByteBits,     \* 8
  HalfBits,     \* 32, of a uint64_t's halves
  FieldVals,    \* the values put into fields
  Numbers,      \* the operands of the divisions
  Arrays        \* the arrays find_closest() looks in

ASSUME UtilAssumption ==
  /\ WordBits \in Nat \ {0} /\ ByteBits \in Nat \ {0} /\ HalfBits \in Nat \ {0}
  /\ Numbers \subseteq Nat /\ FieldVals \subseteq Nat

VARIABLE given   \* the function called and its arguments

UWords    == 0..2 ^ WordBits - 1
IsSet(w, i) == (w \div 2 ^ i) % 2 = 1
SetBits(w)  == {i \in 0..WordBits - 1 : IsSet(w, i)}
Upto(n)     == [i \in 1..n |-> i - 1]

-----------------------------------------------------------------------------
(* One word. *)

\* no_os_find_first_set_bit(): shifted right until the lowest bit is one.
FirstSetBit(w) ==
  LET scan[x \in 1..2 ^ WordBits - 1] == IF x % 2 = 1 THEN 0 ELSE 1 + scan[x \div 2]
  IN  IF w = 0 THEN WordBits ELSE scan[w]

\* no_os_find_last_set_bit(), no_os_log_base_2(): the last one seen, low bits first.
LastSetBit(w) == FoldLeft(LAMBDA last, i : IF IsSet(w, i) THEN i ELSE last, WordBits, Upto(WordBits))

\* Mutant: the lower half is kept where the upper one is needed.
FirstBit_unshifted(w) ==
  FoldLeft(LAMBDA n, h : IF w % 2 ^ h = 0 THEN n + h ELSE n, 0, Halves)

\* find_first_bit(), by which the SPI layer shifts: halves, without the zero word.
FirstBit(w) ==
  FoldLeft(LAMBDA acc, h : IF acc.w % 2 ^ h = 0 THEN [n |-> acc.n + h, w |-> acc.w \div 2 ^ h] ELSE acc,
           [n |-> 0, w |-> w], Halves).n

\* ilog2()
ILog2(x) ==
  FoldLeft(LAMBDA acc, h : IF acc.x \div 2 ^ h # 0 THEN [n |-> acc.n + h, x |-> acc.x \div 2 ^ h] ELSE acc,
           [n |-> 0, x |-> x], Halves).n

\* Mutant: the root of a square is found one too low.
Isqrt_strict(x) ==
  FoldLeft(LAMBDA acc, m :
             LET b == acc.y + m
             IN  IF acc.x > b THEN [x |-> acc.x - b, y |-> acc.y \div 2 + m] ELSE [acc EXCEPT !.y = @ \div 2],
           [x |-> x, y |-> 0], [i \in 1..WordBits \div 2 |-> 4 ^ (WordBits \div 2 - i)]).y

\* int_sqrt(): a digit of the root for each power of four.
Isqrt(x) ==
  FoldLeft(LAMBDA acc, m :
             LET b == acc.y + m
             IN  IF acc.x >= b THEN [x |-> acc.x - b, y |-> acc.y \div 2 + m] ELSE [acc EXCEPT !.y = @ \div 2],
           [x |-> x, y |-> 0], [i \in 1..WordBits \div 2 |-> 4 ^ (WordBits \div 2 - i)]).y

\* no_os_hweight8(), and the wider ones of two halves.
Weight8(w)     == FoldLeft(LAMBDA n, i : IF IsSet(w, i) THEN n + 1 ELSE n, 0, Upto(WordBits \div 2))
HammingWeight(w) == Weight8(w \div 2 ^ (WordBits \div 2)) + Weight8(w % 2 ^ (WordBits \div 2))

\* no_os_sign_extend16(), no_os_sign_extend32(): up to the sign bit and back.
SignExtend(w, index) ==
  LET s == 2 ^ (WordBits - 1 - index)
      t == (w * s) % 2 ^ WordBits
  IN  (IF t >= 2 ^ (WordBits - 1) THEN t - 2 ^ WordBits ELSE t) \div s

-----------------------------------------------------------------------------
(* Fields of a word. *)

\* no_os_field_prep(), no_os_field_get(), no_os_field_max(), of a mask that is not 0.
FieldPrep(mask, v) == ((v * 2 ^ FirstSetBit(mask)) % 2 ^ WordBits) & mask
FieldGet(mask, w)  == (w & mask) \div 2 ^ FirstSetBit(mask)
FieldMax(mask)     == mask \div 2 ^ FirstSetBit(mask)

-----------------------------------------------------------------------------
(* Two numbers. *)

\* no_os_greatest_common_divisor(): Euclid, or the other one of a zero.
CommonDivisor(a, b) ==
  LET most == IF a > b THEN a ELSE b
      euclid[x \in 0..most, y \in 0..most] == IF y = 0 THEN x ELSE euclid[y, x % y]
  IN  IF a = 0 \/ b = 0 THEN most ELSE euclid[a, b]

\* Mutant: the product is not divided.
CommonMultiple_product(a, b) == (a * b) % 2 ^ WordBits

\* no_os_lowest_common_multiple()
CommonMultiple(a, b) ==
  IF a = 0 \/ b = 0 THEN 0 ELSE ((a \div CommonDivisor(a, b)) * b) % 2 ^ WordBits

\* no_os_rational_best_approximation(): the reduced fraction, or 0/0 if it is too large.
Approximation(n, d, maxN, maxD) ==
  LET g == CommonDivisor(n, d)
  IN  IF n \div g > maxN \/ d \div g > maxD THEN [n |-> 0, d |-> 0] ELSE [n |-> n \div g, d |-> d \div g]

\* no_os_div64_u64_rem() and its kin: quotient and remainder, C's for a signed dividend.
DivRem(n, d) ==
  LET q == IF n < 0 THEN -((-n) \div d) ELSE n \div d
  IN  [q |-> q, r |-> n - q * d]

\* no_os_mul_u64_u32_shr(): the halves of a multiplied and shifted apart.
MulShr(a, mul, shift) ==
  LET half == 2 ^ HalfBits
      al   == a % half
      ah   == a \div half
  IN  ((al * mul) \div 2 ^ shift + (IF ah = 0 THEN 0 ELSE ah * mul * 2 ^ (HalfBits - shift))) % (half * half)

\* no_os_mul_u64_u32_div(): a bit of the quotient at a time, from a 96-bit product
\* into whose high part the upper half of the low one is added once more.
MulDiv(a, mul, d) ==
  LET half == 2 ^ HalfBits
      wide == half * half
      ll   == (a % half) * mul
      hl   == (a \div half) * mul
      step(acc, i) ==
        LET rem == (acc.rem * 2 + acc.low \div (wide \div 2)) % wide
            fit == rem >= d
        IN  [rem |-> IF fit THEN rem - d ELSE rem, low |-> (acc.low * 2) % wide,
             q |-> acc.q + (IF fit THEN 2 ^ (2 * HalfBits - 1 - i) ELSE 0)]
  IN  FoldLeft(step, [rem |-> hl \div half + ll \div half, low |-> (ll + (hl % half) * half) % wide, q |-> 0],
               Upto(2 * HalfBits)).q

-----------------------------------------------------------------------------
(* Arrays and bytes. *)

\* Mutant: the last of the closest.
FindClosest_last(v, a) ==
  LET off(i) == IF a[i] > v THEN a[i] - v ELSE v - a[i]
  IN  FoldLeft(LAMBDA best, i : IF off(i + 1) <= off(best + 1) THEN i ELSE best, 0, Upto(Len(a)))

\* no_os_find_closest(): the first index with the smallest difference.
FindClosest(v, a) ==
  LET off(i) == IF a[i] > v THEN a[i] - v ELSE v - a[i]
  IN  FoldLeft(LAMBDA best, i : IF off(i + 1) < off(best + 1) THEN i ELSE best, 0, Upto(Len(a)))

AsByte(x) == x % 2 ^ ByteBits

\* no_os_put_unaligned_be16() to _le64(): n bytes of a value that may be wider.
PutBe(n, v) == [i \in 1..n |-> AsByte(v \div 2 ^ (ByteBits * (n - i)))]
PutLe(n, v) == [i \in 1..n |-> AsByte(v \div 2 ^ (ByteBits * (i - 1)))]

\* no_os_get_unaligned_be16() to _le64()
GetBe(buf) == FoldLeft(LAMBDA acc, b : acc * 2 ^ ByteBits + b, 0, buf)
GetLe(buf) == FoldLeft(LAMBDA acc, i : acc + buf[i + 1] * 2 ^ (ByteBits * i), 0, Upto(Len(buf)))

\* Mutant: the check of the length is missing, and the rest of it left out.
MemSwapped_any(buf, step) ==
  [i \in DOMAIN buf |->
     LET k == ((i - 1) \div step) * step + (step - ((i - 1) % step)) IN buf[IF k \in DOMAIN buf THEN k ELSE i]]

\* no_os_memswap64(): every group of step bytes backwards, if they are whole groups.
MemSwapped(buf, step) ==
  IF step \notin 2..8 \/ Len(buf) < step \/ Len(buf) % step # 0 THEN buf
  ELSE [i \in DOMAIN buf |-> buf[((i - 1) \div step) * step + (step - ((i - 1) % step))]]

-----------------------------------------------------------------------------
(* A behaviour is one call. *)

UtilInit == given = [of |-> "none"]

Asked(call) == given.of = "none" /\ given' = call

GiveWord == \E w \in UWords : Asked([of |-> "word", w |-> w])

GiveField == \E m \in UWords \ {0}, v \in FieldVals : Asked([of |-> "field", mask |-> m, v |-> v])

GivePair == \E a, b \in Numbers : Asked([of |-> "pair", a |-> a, b |-> b])

GiveWide ==
  \E a \in 0..4 ^ HalfBits - 1, m \in 0..2 ^ HalfBits - 1, d \in 1..2 ^ HalfBits - 1 :
    Asked([of |-> "wide", a |-> a, mul |-> m, d |-> d])

GiveArray == \E a \in Arrays, v \in 0..10 : Asked([of |-> "array", array |-> a, v |-> v])

UtilNext == GiveWord \/ GiveField \/ GivePair \/ GiveWide \/ GiveArray

UtilSpec == UtilInit /\ [][UtilNext]_given

\* The variable has its type: one of the groups of functions was called.
UtilTypeOK == given.of \in {"none", "word", "field", "pair", "wide", "array"}

-----------------------------------------------------------------------------
(* Properties. *)

\* The scans and the searches by halves find the lowest and the highest bit, the SPI
\* layer's find_first_bit() (ad9361_util.c:274) the same as no-OS's, int_sqrt() the
\* root rounded down, a field's sign its value.
WordsRight ==
  given.of = "word" =>
    LET w == given.w
        bits == SetBits(w)
    IN  /\ w # 0 => /\ FirstSetBit(w) \in bits /\ \A i \in bits : FirstSetBit(w) <= i
                    /\ LastSetBit(w) \in bits /\ \A i \in bits : i <= LastSetBit(w)
                    /\ FirstBit(w) = FirstSetBit(w) /\ ILog2(w) = LastSetBit(w)
        /\ w = 0 => FirstSetBit(w) = WordBits /\ LastSetBit(w) = WordBits
        /\ Isqrt(w) * Isqrt(w) <= w /\ w < (Isqrt(w) + 1) * (Isqrt(w) + 1)
        /\ HammingWeight(w) = Cardinality(bits)
        /\ \A i \in 0..WordBits - 1 :
             LET x == SignExtend(w, i) IN -(2 ^ i) <= x /\ x < 2 ^ i /\ (x - w) % 2 ^ (i + 1) = 0

\* What is put into a field is got from it and touches no bit beside it, as far as the
\* mask has no holes; the maximum is the largest that is not cut.
FieldsRight ==
  given.of = "field" =>
    LET m == given.mask
        v == given.v
        whole == \A i \in FirstSetBit(m)..LastSetBit(m) : IsSet(m, i)
    IN  /\ SetBits(FieldPrep(m, v)) \subseteq SetBits(m)
        /\ whole => /\ FieldGet(m, FieldPrep(m, v)) = v % (FieldMax(m) + 1)
                    /\ FieldMax(m) + 1 = 2 ^ Cardinality(SetBits(m))

\* gcd and lcm are the greatest and the least, a reduced fraction is the given one and
\* cannot be reduced, a remainder is smaller than the divisor.
PairsRight ==
  given.of = "pair" =>
    LET a == given.a
        b == given.b
        g == CommonDivisor(a, b)
        l == CommonMultiple(a, b)
        f == Approximation(a, b, 9, 7)
        s == DivRem(-a, b)
    IN  /\ a # 0 \/ b # 0 =>
             /\ a % g = 0 /\ b % g = 0 /\ \A d \in 1..a + b : a % d = 0 /\ b % d = 0 => d <= g
             /\ f.n * b = f.d * a /\ f.n <= 9 /\ f.d <= 7
             /\ f.n = 0 /\ f.d = 0 => \A n \in 0..9, d \in 0..7 : n * b = d * a => n = 0 /\ d = 0
        /\ a # 0 /\ b # 0 =>
             l % a = 0 /\ l % b = 0 /\ l > 0 /\ \A m \in 1..l - 1 : m % a # 0 \/ m % b # 0
        /\ b # 0 => s.q * b + s.r = -a /\ s.r \in (1 - b)..0

\* The products wider than a word: the shifted one is exact modulo the word; the
\* divided one where the low halves' product leaves the low half of the word only.
WideRight ==
  given.of = "wide" =>
    LET p == given.a * given.mul
    IN  /\ \A s \in 0..HalfBits : MulShr(given.a, given.mul, s) = (p \div 2 ^ s) % 4 ^ HalfBits
        /\ (given.a % 2 ^ HalfBits) * given.mul < 2 ^ HalfBits /\ p \div given.d < 4 ^ HalfBits =>
             MulDiv(given.a, given.mul, given.d) = p \div given.d

\* Nothing is closer than the closest, nor as close before it; swapping groups of bytes
\* twice gives the buffer back; big and little endian are each other's mirror and hold
\* the value.
ArraysRight ==
  given.of = "array" =>
    LET a == given.array
        k == FindClosest(given.v, a) + 1
        off(i) == IF a[i] > given.v THEN a[i] - given.v ELSE given.v - a[i]
    IN  /\ k \in DOMAIN a /\ \A i \in DOMAIN a : off(k) <= off(i) /\ (off(k) = off(i) => k <= i)
        /\ \A step \in 1..4 : LET once == MemSwapped(a, step) IN
             /\ MemSwapped(once, step) = a
             /\ once # a => \A i \in DOMAIN a : LET j == i + step + 1 - 2 * (((i - 1) % step) + 1) IN
                              j \in DOMAIN a /\ once[i] = a[j]
        /\ \A n \in 2..4 : LET v == given.v * 23 IN
             /\ GetBe(PutBe(n, v)) = v % 2 ^ (n * ByteBits) /\ GetLe(PutLe(n, v)) = v % 2 ^ (n * ByteBits)
             /\ PutLe(n, v) = Reverse(PutBe(n, v))

\* The arithmetic of the driver is what its callers take it for.
UtilAgrees == WordsRight /\ FieldsRight /\ PairsRight /\ WideRight /\ ArraysRight
=============================================================================
