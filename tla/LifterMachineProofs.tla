------------------------ MODULE LifterMachineProofs ------------------------
(***************************************************************************)
(* What liftInstr pushes for an instruction does what the processor does,   *)
(* for any instructions, machine states and width of a byte.                *)
(*                                                                         *)
(* Every helper of the lifter is a step of the code it has pushed so far.   *)
(* Ran(c, o, s) says that function c, which came of o.before, has pushed    *)
(* instructions that take the machine o.mc to state s; a push is one more   *)
(* Execute (PushRan).  What reads (readReg, computeAddr, readOperand) leaves *)
(* registers and memory and Gives a value; what writes (writeReg,           *)
(* writeOperand) then Shows the machine the processor has.  Each handler    *)
(* reads, computes and writes: Done, the instruction is as the processor's. *)
(*                                                                         *)
(* The order is that of the arguments: powers of two, words, sums of bits,   *)
(* memory, running code, registers, addresses, operands, the handlers.      *)
(***************************************************************************)
EXTENDS LifterProofs, LifterMachine, WellFoundedInduction

(***************************************************************************)
(* Powers of two.                                                          *)
(***************************************************************************)

\* A set of numbers that is not empty has a least one.
LEMMA LeastNat ==
  ASSUME NEW S \in SUBSET Nat, S # {}
  PROVE  \E x \in S : \A y \in S : x <= y
<1> DEFINE R == OpToRel(<, Nat)
<1>1. PICK x \in S : \A y \in S : ~ (<<y, x>> \in R)
  <2>1. IsWellFoundedOn(R, Nat)
    BY NatLessThanWellFounded
  <2> HIDE DEF R
  <2> QED
    BY <2>1, WFMin
<1>2. ASSUME NEW y \in S, y < x PROVE FALSE
  <2>1. <<y, x>> \in Nat \X Nat /\ <<y, x>>[1] < <<y, x>>[2]
    BY <1>2
  <2>2. <<y, x>> \in R
    BY <2>1 DEF OpToRel
  <2> QED
    BY <1>1, <2>2
<1> HIDE DEF R
<1>3. S \subseteq Int
  OBVIOUS
<1> QED
  BY <1>2, <1>3

\* The recursion that defines the powers of two has a solution.
LEMMA Pow2Def ==
  \A n \in Nat : Pow2[n] = IF n = 0 THEN 1 ELSE 2 * Pow2[n - 1]
<1> DEFINE Powers(f, n) == f = [j \in 0 .. n |-> IF j = 0 THEN 1 ELSE 2 * f[j - 1]]
           Bad == {n \in Nat : ~ \E f : Powers(f, n)}
<1>1. \A n \in Nat : \E f : Powers(f, n)
  <2>1. SUFFICES ASSUME Bad # {} PROVE FALSE
    OBVIOUS
  <2>2. PICK x \in Bad : \A y \in Bad : x <= y
    <3>1. Bad \in SUBSET Nat
      OBVIOUS
    <3> HIDE DEF Bad
    <3> QED
      BY <2>1, <3>1, LeastNat
  <2>3. x # 0
    <3>1. Powers([j \in 0 .. 0 |-> 1], 0)
      OBVIOUS
    <3> HIDE DEF Powers
    <3> QED
      BY <3>1
  <2>4. x - 1 \in Nat /\ x - 1 \notin Bad
    <3>1. x \in Nat
      OBVIOUS
    <3> HIDE DEF Bad
    <3> QED
      BY <2>2, <2>3, <3>1
  <2>5. PICK f : Powers(f, x - 1)
    BY <2>4
  <2> DEFINE h == [j \in 0 .. x |-> IF j = x THEN 2 * f[x - 1] ELSE f[j]]
  <2>6. ASSUME NEW j \in 0 .. x
        PROVE  h[j] = IF j = 0 THEN 1 ELSE 2 * h[j - 1]
    <3>1. CASE j = x
      BY <2>2, <2>3, <3>1
    <3>2. CASE j # x
      <4>1. j \in 0 .. x - 1 /\ (j # 0 => j - 1 \in 0 .. x - 1)
        BY <2>2, <3>2
      <4>2. f[j] = IF j = 0 THEN 1 ELSE 2 * f[j - 1]
        BY <2>5, <4>1
      <4>3. h[j] = f[j] /\ (j # 0 => h[j - 1] = f[j - 1])
        BY <2>2, <3>2, <4>1
      <4> QED
        BY <4>2, <4>3
    <3> QED
      BY <3>1, <3>2
  <2>7. Powers(h, x)
    <3>1. h = [j \in 0 .. x |-> h[j]]
      OBVIOUS
    <3> HIDE DEF h
    <3> QED
      BY <2>6, <3>1
  <2> HIDE DEF h, Powers
  <2> QED
    BY <2>7
<1> DEFINE g(n) == CHOOSE f : Powers(f, n)
<1>2. \A n \in Nat : Powers(g(n), n)
  <2> HIDE DEF Powers
  <2> QED
    BY <1>1
<1>3. \A n \in Nat : \A j \in 0 .. n : g(n)[j] = IF j = 0 THEN 1 ELSE 2 * g(n)[j - 1]
  <2>1. \A n \in Nat : \A f : Powers(f, n) => 
          \A j \in 0 .. n : f[j] = IF j = 0 THEN 1 ELSE 2 * f[j - 1]
    OBVIOUS
  <2> HIDE DEF Powers, g
  <2> QED
    BY <1>2, <2>1
<1> HIDE DEF g
<1>4. ASSUME NEW n \in Nat, NEW m \in Nat, n <= m PROVE g(m)[n] = g(n)[n]
  <2> DEFINE Diff == {j \in 0 .. n : g(m)[j] # g(n)[j]}
  <2>1. SUFFICES ASSUME Diff # {} PROVE FALSE
    BY <1>4
  <2>2. PICK x \in Diff : \A y \in Diff : x <= y
    <3>1. Diff \in SUBSET Nat
      OBVIOUS
    <3> HIDE DEF Diff
    <3> QED
      BY <2>1, <3>1, LeastNat
  <2>3. x \in 0 .. n /\ x \in 0 .. m /\ x - 1 \notin Diff
    BY <1>4, <2>2
  <2>4. CASE x = 0
    BY <1>3, <2>2, <2>3, <2>4
  <2>5. CASE x > 0
    <3>1. g(m)[x - 1] = g(n)[x - 1]
      BY <2>3, <2>5
    <3>2. g(m)[x] = 2 * g(m)[x - 1] /\ g(n)[x] = 2 * g(n)[x - 1]
      BY <1>3, <2>3, <2>5
    <3> QED
      BY <2>2, <3>1, <3>2
  <2> QED
    BY <2>3, <2>4, <2>5
<1> DEFINE Sol(f) == f = [n \in Nat |-> IF n = 0 THEN 1 ELSE 2 * f[n - 1]]
           h == [n \in Nat |-> g(n)[n]]
<1>5. ASSUME NEW n \in Nat PROVE h[n] = IF n = 0 THEN 1 ELSE 2 * h[n - 1]
  <2>1. CASE n = 0
    BY <1>3, <2>1
  <2>2. CASE n # 0
    <3>1. n - 1 \in Nat /\ n \in 0 .. n
      BY <2>2
    <3>2. g(n)[n] = 2 * g(n)[n - 1] /\ g(n)[n - 1] = g(n - 1)[n - 1]
      BY <1>3, <1>4, <2>2, <3>1
    <3> QED
      BY <2>2, <3>1, <3>2
  <2> QED
    BY <2>1, <2>2
<1>6. Sol(h)
  <2>1. h = [n \in Nat |-> h[n]]
    OBVIOUS
  <2> HIDE DEF h
  <2> QED
    BY <1>5, <2>1
<1>7. Sol(Pow2)
  <2>1. Pow2 = CHOOSE f : Sol(f)
    BY DEF Pow2
  <2> HIDE DEF h, Sol
  <2> QED
    BY <1>6, <2>1
<1> QED
  BY <1>7

\* They are positive.
LEMMA Pow2Nat == \A n \in Nat : Pow2[n] \in Nat \ {0}
<1> DEFINE Bad == {n \in Nat : Pow2[n] \notin Nat \ {0}}
<1>1. SUFFICES ASSUME Bad # {} PROVE FALSE
  OBVIOUS
<1>2. PICK x \in Bad : \A y \in Bad : x <= y
  <2>1. Bad \in SUBSET Nat
    OBVIOUS
  <2> HIDE DEF Bad
  <2> QED
    BY <1>1, <2>1, LeastNat
<1>3. x \in Nat /\ x - 1 \notin Bad
  BY <1>2
<1>4. CASE x = 0
  BY <1>2, <1>4, Pow2Def
<1>5. CASE x # 0
  <2>1. x - 1 \in Nat /\ Pow2[x - 1] \in Nat \ {0}
    BY <1>3, <1>5
  <2>2. Pow2[x] = 2 * Pow2[x - 1]
    BY <1>3, <1>5, Pow2Def
  <2> QED
    BY <1>2, <2>1, <2>2
<1> QED
  BY <1>4, <1>5

\* The power of a sum is the product.
LEMMA Pow2Sum == \A m, n \in Nat : Pow2[m + n] = Pow2[m] * Pow2[n]
<1> SUFFICES ASSUME NEW m \in Nat PROVE \A n \in Nat : Pow2[m + n] = Pow2[m] * Pow2[n]
  OBVIOUS
<1> DEFINE Bad == {n \in Nat : Pow2[m + n] # Pow2[m] * Pow2[n]}
<1>1. SUFFICES ASSUME Bad # {} PROVE FALSE
  OBVIOUS
<1>2. PICK x \in Bad : \A y \in Bad : x <= y
  <2>1. Bad \in SUBSET Nat
    OBVIOUS
  <2> HIDE DEF Bad
  <2> QED
    BY <1>1, <2>1, LeastNat
<1>3. x \in Nat /\ x - 1 \notin Bad /\ Pow2[m + x] # Pow2[m] * Pow2[x]
  BY <1>2
<1>4. CASE x = 0
  <2>1. Pow2[x] = 1 /\ m + x = m /\ Pow2[m] \in Nat
    BY <1>4, Pow2Def, Pow2Nat
  <2> QED
    BY <1>3, <2>1
<1>5. CASE x # 0
  <2>1. x - 1 \in Nat /\ Pow2[m + (x - 1)] = Pow2[m] * Pow2[x - 1]
    BY <1>3, <1>5
  <2>2. m + x \in Nat /\ m + x # 0 /\ m + x - 1 = m + (x - 1)
    BY <1>3, <1>5
  <2>3. Pow2[x] = 2 * Pow2[x - 1] /\ Pow2[m + x] = 2 * Pow2[m + x - 1]
    BY <1>3, <1>5, <2>2, Pow2Def
  <2>4. ASSUME NEW a \in Nat, NEW b \in Nat PROVE 2 * (a * b) = a * (2 * b)
    OBVIOUS
  <2>5. Pow2[m] \in Nat /\ Pow2[x - 1] \in Nat
    BY <2>1, Pow2Nat
  <2>6. Pow2[m + x] = 2 * (Pow2[m] * Pow2[x - 1])
    BY <2>1, <2>2, <2>3
  <2> QED
    BY <1>3, <2>3, <2>4, <2>5, <2>6
<1> QED
  BY <1>4, <1>5

\* A smaller power divides a larger one.
LEMMA Pow2Divides ==
  ASSUME NEW m \in Nat, NEW n \in Nat, m <= n
  PROVE  /\ n - m \in Nat /\ Pow2[n] = Pow2[m] * Pow2[n - m]
         /\ Pow2[m] <= Pow2[n]
<1>1. n - m \in Nat /\ m + (n - m) = n
  OBVIOUS
<1>2. Pow2[n] = Pow2[m] * Pow2[n - m]
  <2>1. Pow2[m + (n - m)] = Pow2[m] * Pow2[n - m]
    BY <1>1, Pow2Sum
  <2> QED
    BY <1>1, <2>1
<1>3. ASSUME NEW a \in Nat \ {0}, NEW b \in Nat \ {0} PROVE a <= a * b
  BY <1>3
<1> QED
  BY <1>1, <1>2, <1>3, Pow2Nat

(***************************************************************************)
(* Division with remainder, and words.                                     *)
(***************************************************************************)

LEMMA Division ==
  ASSUME NEW x \in Int, NEW a \in Nat \ {0}
  PROVE  /\ x = a * (x \div a) + (x % a)
         /\ x \div a \in Int
         /\ x % a \in 0 .. a - 1
  BY SMT

\* Quotient and remainder are determined.
LEMMA DivisionUnique ==
  ASSUME NEW a \in Nat \ {0}, NEW q \in Int, NEW r \in 0 .. a - 1, NEW x \in Int,
         x = a * q + r
  PROVE  x \div a = q /\ x % a = r
<1> DEFINE p == x \div a
           s == x % a
<1>1. p \in Int /\ s \in 0 .. a - 1 /\ x = a * p + s
  BY Division
<1> HIDE DEF p, s
<1>2. a * (p - q) = r - s
  BY <1>1
<1>3. p = q
  <2>1. SUFFICES ASSUME p # q PROVE FALSE
    OBVIOUS
  <2>2. CASE p - q >= 1
    <3>1. a * (p - q) >= a
      BY <1>1, <2>2
    <3> QED
      BY <1>1, <1>2, <3>1
  <2>3. CASE p - q <= -1
    <3>1. a * (q - p) >= a
      BY <1>1, <2>3
    <3>2. a * (q - p) = s - r
      BY <1>1
    <3> QED
      BY <1>1, <3>1, <3>2
  <2> QED
    BY <1>1, <2>1, <2>2, <2>3
<1>4. s = r
  BY <1>1, <1>3
<1> QED
  BY <1>3, <1>4 DEF p, s

\* A remainder is that of any number that differs by a multiple.
LEMMA ModShift ==
  ASSUME NEW a \in Nat \ {0}, NEW x \in Int, NEW k \in Int
  PROVE  (x + a * k) % a = x % a /\ (x + a * k) \div a = (x \div a) + k
<1> DEFINE q == x \div a
           r == x % a
<1>1. x = a * q + r /\ q \in Int /\ r \in 0 .. a - 1
  BY Division
<1> HIDE DEF q, r
<1>2. x + a * k = a * (q + k) + r /\ q + k \in Int /\ x + a * k \in Int
  BY <1>1
<1>3. (x + a * k) \div a = q + k /\ (x + a * k) % a = r
  <2> DEFINE y == x + a * k
             p == q + k
  <2>1. y \in Int /\ p \in Int /\ y = a * p + r
    BY <1>2
  <2> HIDE DEF y, p
  <2>2. y \div a = p /\ y % a = r
    BY <1>1, <2>1, DivisionUnique
  <2> QED
    BY <2>2 DEF y, p
<1> QED
  BY <1>3 DEF q, r

LEMMA Congruent ==
  ASSUME NEW a \in Nat \ {0}, NEW y \in Int, NEW k \in Int, NEW x, x = y + a * k
  PROVE  x % a = y % a
  BY ModShift

LEMMA ModSmall ==
  ASSUME NEW a \in Nat \ {0}, NEW x \in 0 .. a - 1
  PROVE  x % a = x /\ x \div a = 0
<1>1. x = a * 0 + x /\ x \in Int
  OBVIOUS
<1> QED
  BY <1>1, DivisionUnique

\* A sum, a difference and a product may be reduced before or after.
LEMMA ModOps ==
  ASSUME NEW a \in Nat \ {0}, NEW x \in Int, NEW y \in Int
  PROVE  /\ ((x % a) + y) % a = (x + y) % a
         /\ (x + (y % a)) % a = (x + y) % a
         /\ ((x % a) * y) % a = (x * y) % a
         /\ (x * (y % a)) % a = (x * y) % a
         /\ (x % a) % a = x % a
<1> DEFINE p == x \div a
           r == x % a
           q == y \div a
           s == y % a
<1>1. x = a * p + r /\ p \in Int /\ r \in 0 .. a - 1
  BY Division
<1>2. y = a * q + s /\ q \in Int /\ s \in 0 .. a - 1
  BY Division
<1> HIDE DEF p, r, q, s
<1>3. (r + y) % a = (x + y) % a
  <2> DEFINE u == r + y
             v == x + y
  <2>1. v = u + a * p /\ u \in Int
    BY <1>1
  <2> HIDE DEF u, v
  <2>2. v % a = u % a
    BY <1>1, <2>1, Congruent
  <2> QED
    BY <2>2 DEF u, v
<1>4. (x + s) % a = (x + y) % a
  <2> DEFINE u == x + s
             v == x + y
  <2>1. v = u + a * q /\ u \in Int
    BY <1>2
  <2> HIDE DEF u, v
  <2>2. v % a = u % a
    BY <1>2, <2>1, Congruent
  <2> QED
    BY <2>2 DEF u, v
<1>5. (r * y) % a = (x * y) % a
  <2>1. x * y = r * y + a * (p * y)
    <3>1. x * y = (a * p + r) * y
      BY <1>1
    <3>2. (a * p + r) * y = r * y + a * (p * y)
      BY <1>1
    <3> QED
      BY <3>1, <3>2
  <2>2. r * y \in Int /\ p * y \in Int
    BY <1>1
  <2> QED
    BY <2>1, <2>2, Congruent
<1>6. (x * s) % a = (x * y) % a
  <2>1. x * y = x * s + a * (x * q)
    <3>1. x * y = x * (a * q + s)
      BY <1>2
    <3>2. x * (a * q + s) = x * s + a * (x * q)
      BY <1>2
    <3> QED
      BY <3>1, <3>2
  <2>2. x * s \in Int /\ x * q \in Int
    BY <1>2
  <2> QED
    BY <2>1, <2>2, Congruent
<1>7. r % a = r
  BY <1>1, ModSmall
<1> QED
  BY <1>3, <1>4, <1>5, <1>6, <1>7 DEF r, s

\* A remainder by a multiple keeps the remainder by the factor.
LEMMA ModMod ==
  ASSUME NEW a \in Nat \ {0}, NEW k \in Nat \ {0}, NEW x \in Int
  PROVE  (x % (a * k)) % a = x % a
<1> DEFINE m == a * k
           q == x \div m
           r == x % m
<1>1. m \in Nat \ {0}
  <2>1. a * k >= a
    OBVIOUS
  <2> QED
    BY <2>1
<1>2. x = m * q + r /\ q \in Int /\ r \in Int
  <2> HIDE DEF m
  <2> QED
    BY <1>1, Division
<1> HIDE DEF q, r
<1> DEFINE p == k * q
<1>3. x = r + a * p /\ p \in Int
  BY <1>2
<1> HIDE DEF p
<1>4. r \in Int
  BY <1>2
<1>5. x % a = r % a
  BY <1>3, <1>4, Congruent
<1> QED
  BY <1>5 DEF r, m

Types == Sizes \cup {"i1", "ptr"}
M(ty) == Pow2[Width(ty)]

LEMMA Widths ==
  /\ ByteBits \in Nat \ {0}
  /\ \A ty \in Types : byteWidth(ty) \in {1, 2, 4, 8} /\ Width(ty) = byteWidth(ty) * ByteBits
                       /\ Width(ty) \in Nat \ {0}
  /\ byteWidth("i8") = 1 /\ byteWidth("i16") = 2 /\ byteWidth("i32") = 4
  /\ byteWidth("i64") = 8 /\ byteWidth("ptr") = 8
<1>1. ByteBits \in Nat \ {0}
  BY IRAssumption
<1>2. \A ty \in Types : byteWidth(ty) \in {1, 2, 4, 8}
  BY DEF Types, Sizes, byteWidth
<1>3. /\ byteWidth("i8") = 1 /\ byteWidth("i16") = 2 /\ byteWidth("i32") = 4
      /\ byteWidth("i64") = 8 /\ byteWidth("ptr") = 8
  BY DEF byteWidth
<1>4. \A ty \in Types : Width(ty) = byteWidth(ty) * ByteBits
  BY DEF Width
<1>5. \A b \in {1, 2, 4, 8} : b * ByteBits \in Nat \ {0}
  BY <1>1
<1> QED
  BY <1>1, <1>2, <1>3, <1>4, <1>5

\* How the widths compare.
LEMMA WidthOrder ==
  /\ \A ty \in Types : Width(ty) <= Width("i64")
  /\ \A ty \in Sizes : Width("i8") <= Width(ty)
  /\ Width("ptr") = Width("i64")
  /\ Width("i8") = ByteBits
  /\ \A a, b \in Sizes : Width(a) = Width(b) => a = b
<1>1. Width("i8") = ByteBits /\ Width("i16") = 2 * ByteBits /\ Width("i32") = 4 * ByteBits
      /\ Width("i64") = 8 * ByteBits /\ Width("ptr") = 8 * ByteBits
  BY Widths DEF Types, Sizes
<1>2. Width("i1") = ByteBits
  BY Widths DEF Width, byteWidth
<1>3. ByteBits \in Nat \ {0}
  BY Widths
<1> QED
  BY <1>1, <1>2, <1>3 DEF Types, Sizes

LEMMA Moduli ==
  /\ \A ty \in Types : M(ty) \in Nat \ {0} /\ M(ty) >= 2 /\ M(ty) <= M("i64")
  /\ M("ptr") = M("i64")
  /\ M("i8") = Pow2[ByteBits]
<1>1. \A ty \in Types : M(ty) \in Nat \ {0}
  BY Widths, Pow2Nat DEF M
<1>2. \A ty \in Types : M(ty) >= 2
  <2>1. SUFFICES ASSUME NEW ty \in Types PROVE M(ty) >= 2
    OBVIOUS
  <2>2. Pow2[0] = 1
    BY Pow2Def
  <2>3. Pow2[1] = 2
    BY <2>2, Pow2Def
  <2>4. Width(ty) \in Nat /\ 1 <= Width(ty)
    BY Widths
  <2> QED
    BY <2>3, <2>4, Pow2Divides DEF M
<1>3. \A ty \in Types : M(ty) <= M("i64")
  BY Widths, WidthOrder, Pow2Divides DEF M, Types, Sizes
<1> QED
  BY <1>1, <1>2, <1>3, WidthOrder DEF M

\* Words of a type.
LEMMA WrapWord ==
  ASSUME NEW ty \in Types, NEW x \in Int
  PROVE  /\ Wrap(x, ty) \in Words(ty) /\ Wrap(x, ty) \in Int
         /\ x \in Words(ty) => Wrap(x, ty) = x
         /\ Wrap(Wrap(x, ty), ty) = Wrap(x, ty)
<1>1. M(ty) \in Nat \ {0}
  BY Moduli
<1>2. x % M(ty) \in 0 .. M(ty) - 1
  BY <1>1, Division
<1>3. \A y \in 0 .. M(ty) - 1 : y % M(ty) = y
  BY <1>1, ModSmall
<1> QED
  BY <1>2, <1>3 DEF Wrap, Words, M

LEMMA WordInt ==
  \A ty \in Types : Words(ty) \subseteq Nat /\ 0 \in Words(ty) /\ 1 \in Words(ty)
<1>1. \A ty \in Types : M(ty) \in Nat \ {0} /\ M(ty) >= 2
  BY Moduli
<1> QED
  BY <1>1 DEF Words, M

\* A word of a narrow type is one of a wider type.
LEMMA WordWider ==
  ASSUME NEW a \in Types, NEW b \in Types, Width(a) <= Width(b)
  PROVE  Words(a) \subseteq Words(b)
<1>1. M(a) <= M(b) /\ M(a) \in Nat /\ M(b) \in Nat
  BY Widths, Moduli, Pow2Divides DEF M
<1> QED
  BY <1>1 DEF Words, M

LEMMA WrapNarrow ==
  ASSUME NEW a \in Types, NEW b \in Types, Width(a) <= Width(b), NEW x \in Int
  PROVE  Wrap(Wrap(x, b), a) = Wrap(x, a)
<1>1. /\ Width(b) - Width(a) \in Nat
      /\ M(b) = M(a) * Pow2[Width(b) - Width(a)]
  BY Widths, Pow2Divides DEF M
<1>2. Pow2[Width(b) - Width(a)] \in Nat \ {0} /\ M(a) \in Nat \ {0}
  BY <1>1, Pow2Nat, Moduli
<1>3. (x % M(b)) % M(a) = x % M(a)
  BY <1>1, <1>2, ModMod
<1> QED
  BY <1>3 DEF Wrap, M

\* Addresses are words of 64 bits.
LEMMA WrapPtr == \A x : Wrap(x, "ptr") = Wrap(x, "i64") /\ Words("ptr") = Words("i64")
  BY WidthOrder DEF Wrap, Words

\* A sum, a difference and a product may be wrapped before or after.
LEMMA WrapOps ==
  ASSUME NEW ty \in Types, NEW x \in Int, NEW y \in Int
  PROVE  /\ Wrap(Wrap(x, ty) + y, ty) = Wrap(x + y, ty)
         /\ Wrap(x + Wrap(y, ty), ty) = Wrap(x + y, ty)
         /\ Wrap(Wrap(x, ty) * y, ty) = Wrap(x * y, ty)
         /\ Wrap(x * Wrap(y, ty), ty) = Wrap(x * y, ty)
<1>1. M(ty) \in Nat \ {0}
  BY Moduli
<1>2. \A z : Wrap(z, ty) = z % M(ty)
  BY DEF Wrap, M
<1> DEFINE m == M(ty)
<1> HIDE DEF m
<1>3. m \in Nat \ {0}
  BY <1>1 DEF m
<1>4. /\ ((x % m) + y) % m = (x + y) % m
      /\ (x + (y % m)) % m = (x + y) % m
      /\ ((x % m) * y) % m = (x * y) % m
      /\ (x * (y % m)) % m = (x * y) % m
  BY <1>3, ModOps
<1> QED
  BY <1>2, <1>4 DEF m

\* A word and the number it stands for differ by a multiple.
LEMMA SignedWord ==
  ASSUME NEW ty \in Types, NEW x \in Words(ty)
  PROVE  Signed(x, ty) \in Int /\ Wrap(Signed(x, ty), ty) = x
<1>1. M(ty) \in Nat \ {0} /\ x \in 0 .. M(ty) - 1 /\ x \in Int
  BY Moduli, WordInt DEF Words, M
<1>2. (x + M(ty) * (-1)) % M(ty) = x % M(ty)
  BY <1>1, ModShift
<1>3. x + M(ty) * (-1) = x - M(ty)
  BY <1>1
<1>4. x % M(ty) = x
  BY <1>1, ModSmall
<1>5. Signed(x, ty) \in {x, x - M(ty)}
  BY DEF Signed, M
<1> QED
  BY <1>1, <1>2, <1>3, <1>4, <1>5 DEF Wrap, M


(***************************************************************************)
(* Sums and bits.                                                          *)
(***************************************************************************)

\* The recursion that defines a sum has a solution.
LEMMA TotalDef ==
  ASSUME NEW parts
  PROVE  /\ Total(parts, 0) = 0
         /\ \A n \in Nat : Total(parts, n + 1) = Total(parts, n) + parts[n]
<1> DEFINE Sums(f, n) ==
             f = [j \in 0 .. n |-> IF j = 0 THEN 0 ELSE f[j - 1] + parts[j - 1]]
           Bad == {n \in Nat : ~ \E f : Sums(f, n)}
<1>1. \A n \in Nat : \E f : Sums(f, n)
  <2>1. SUFFICES ASSUME Bad # {} PROVE FALSE
    OBVIOUS
  <2>2. PICK x \in Bad : \A y \in Bad : x <= y
    <3>1. Bad \in SUBSET Nat
      OBVIOUS
    <3> HIDE DEF Bad
    <3> QED
      BY <2>1, <3>1, LeastNat
  <2>3. x # 0
    <3>1. Sums([j \in 0 .. 0 |-> 0], 0)
      OBVIOUS
    <3> HIDE DEF Sums
    <3> QED
      BY <3>1
  <2>4. x - 1 \in Nat /\ x - 1 \notin Bad
    <3>1. x \in Nat
      OBVIOUS
    <3> HIDE DEF Bad
    <3> QED
      BY <2>2, <2>3, <3>1
  <2>5. PICK f : Sums(f, x - 1)
    BY <2>4
  <2> DEFINE h == [j \in 0 .. x |-> IF j = x THEN f[x - 1] + parts[x - 1] ELSE f[j]]
  <2>6. ASSUME NEW j \in 0 .. x
        PROVE  h[j] = IF j = 0 THEN 0 ELSE h[j - 1] + parts[j - 1]
    <3>1. CASE j = x
      BY <2>2, <2>3, <3>1
    <3>2. CASE j # x
      <4>1. j \in 0 .. x - 1 /\ (j # 0 => j - 1 \in 0 .. x - 1)
        BY <2>2, <3>2
      <4>2. f[j] = IF j = 0 THEN 0 ELSE f[j - 1] + parts[j - 1]
        BY <2>5, <4>1
      <4>3. h[j] = f[j] /\ (j # 0 => h[j - 1] = f[j - 1])
        BY <2>2, <3>2, <4>1
      <4> QED
        BY <4>2, <4>3
    <3> QED
      BY <3>1, <3>2
  <2>7. Sums(h, x)
    <3>1. h = [j \in 0 .. x |-> h[j]]
      OBVIOUS
    <3> HIDE DEF h
    <3> QED
      BY <2>6, <3>1
  <2> HIDE DEF h, Sums
  <2> QED
    BY <2>7
<1> DEFINE g(n) == CHOOSE f : Sums(f, n)
<1>2. \A n \in Nat : Sums(g(n), n)
  <2> HIDE DEF Sums
  <2> QED
    BY <1>1
<1>3. \A n \in Nat : \A j \in 0 .. n : g(n)[j] = IF j = 0 THEN 0 ELSE g(n)[j - 1] + parts[j - 1]
  <2>1. \A n \in Nat : \A f : Sums(f, n) =>
          \A j \in 0 .. n : f[j] = IF j = 0 THEN 0 ELSE f[j - 1] + parts[j - 1]
    OBVIOUS
  <2> HIDE DEF Sums, g
  <2> QED
    BY <1>2, <2>1
<1>4. \A n \in Nat : Total(parts, n) = g(n)[n]
  BY DEF Total
<1> HIDE DEF g
<1>5. ASSUME NEW n \in Nat, NEW m \in Nat, n <= m PROVE g(m)[n] = g(n)[n]
  <2> DEFINE Diff == {j \in 0 .. n : g(m)[j] # g(n)[j]}
  <2>1. SUFFICES ASSUME Diff # {} PROVE FALSE
    BY <1>5
  <2>2. PICK x \in Diff : \A y \in Diff : x <= y
    <3>1. Diff \in SUBSET Nat
      OBVIOUS
    <3> HIDE DEF Diff
    <3> QED
      BY <2>1, <3>1, LeastNat
  <2>3. x \in 0 .. n /\ x \in 0 .. m /\ x - 1 \notin Diff
    BY <1>5, <2>2
  <2>4. CASE x = 0
    BY <1>3, <2>2, <2>3, <2>4
  <2>5. CASE x > 0
    <3>1. g(m)[x - 1] = g(n)[x - 1]
      BY <2>3, <2>5
    <3>2. /\ g(m)[x] = g(m)[x - 1] + parts[x - 1]
          /\ g(n)[x] = g(n)[x - 1] + parts[x - 1]
      BY <1>3, <2>3, <2>5
    <3> QED
      BY <2>2, <3>1, <3>2
  <2> QED
    BY <2>3, <2>4, <2>5
<1>6. g(0)[0] = 0
  BY <1>3
<1>7. ASSUME NEW n \in Nat PROVE g(n + 1)[n + 1] = g(n)[n] + parts[n]
  <2>1. n + 1 \in Nat /\ n + 1 \in 0 .. n + 1 /\ n + 1 # 0 /\ (n + 1) - 1 = n /\ n <= n + 1
    OBVIOUS
  <2>2. g(n + 1)[n + 1] = g(n + 1)[n] + parts[n]
    BY <1>3, <2>1
  <2> QED
    BY <1>5, <2>1, <2>2
<1> QED
  BY <1>4, <1>6, <1>7

\* A sum of parts that fit between the members of a growing sequence.
LEMMA TotalRange ==
  ASSUME NEW n \in Nat, NEW parts, NEW Q, \A k \in 0 .. n : Q[k] \in Int,
         \A k \in 0 .. n - 1 : parts[k] \in 0 .. Q[k + 1] - Q[k]
  PROVE  \A k \in 0 .. n : Total(parts, k) \in 0 .. Q[k] - Q[0]
<1> DEFINE Bad == {k \in 0 .. n : Total(parts, k) \notin 0 .. Q[k] - Q[0]}
<1>1. SUFFICES ASSUME Bad # {} PROVE FALSE
  OBVIOUS
<1>2. PICK x \in Bad : \A y \in Bad : x <= y
  <2>1. Bad \in SUBSET Nat
    OBVIOUS
  <2> HIDE DEF Bad
  <2> QED
    BY <1>1, <2>1, LeastNat
<1>3. x \in 0 .. n /\ x - 1 \notin Bad
  BY <1>2
<1>4. CASE x = 0
  BY <1>2, <1>3, <1>4, TotalDef
<1>5. CASE x # 0
  <2> DEFINE y == x - 1
  <2>1. y \in 0 .. n - 1 /\ y \in 0 .. n /\ y \in Nat /\ y + 1 = x
    BY <1>3, <1>5
  <2>2. Total(parts, y) \in 0 .. Q[y] - Q[0]
    BY <1>3, <2>1
  <2> HIDE DEF y
  <2>3. Total(parts, x) = Total(parts, y) + parts[y]
    BY <2>1, TotalDef
  <2>4. parts[y] \in 0 .. Q[x] - Q[y]
    BY <2>1
  <2>5. Q[x] \in Int /\ Q[y] \in Int /\ Q[0] \in Int
    BY <1>3, <2>1
  <2> QED
    BY <1>2, <2>2, <2>3, <2>4, <2>5
<1> QED
  BY <1>4, <1>5

\* Sums of the same parts are the same.
LEMMA TotalSame ==
  ASSUME NEW n \in Nat, NEW p, NEW q, \A k \in 0 .. n - 1 : p[k] = q[k]
  PROVE  Total(p, n) = Total(q, n)
<1> DEFINE Bad == {k \in 0 .. n : Total(p, k) # Total(q, k)}
<1>1. SUFFICES ASSUME Bad # {} PROVE FALSE
  OBVIOUS
<1>2. PICK x \in Bad : \A y \in Bad : x <= y
  <2>1. Bad \in SUBSET Nat
    OBVIOUS
  <2> HIDE DEF Bad
  <2> QED
    BY <1>1, <2>1, LeastNat
<1>3. x \in 0 .. n /\ x - 1 \notin Bad
  BY <1>2
<1>4. CASE x = 0
  BY <1>2, <1>4, TotalDef
<1>5. CASE x # 0
  <2> DEFINE y == x - 1
  <2>1. y \in 0 .. n - 1 /\ y \in Nat /\ y + 1 = x
    BY <1>3, <1>5
  <2>2. Total(p, y) = Total(q, y)
    BY <1>3, <2>1
  <2> HIDE DEF y
  <2>3. Total(p, x) = Total(p, y) + p[y] /\ Total(q, x) = Total(q, y) + q[y]
    BY <2>1, TotalDef
  <2> QED
    BY <1>2, <2>1, <2>2, <2>3
<1> QED
  BY <1>4, <1>5

Bit(x, k) == (x \div Pow2[k]) % 2

\* One more bit of a remainder.
LEMMA ModStep ==
  ASSUME NEW x \in Int, NEW p \in Nat \ {0}
  PROVE  x % (2 * p) = (x % p) + p * ((x \div p) % 2)
<1> DEFINE q == x \div p
           r == x % p
           h == q \div 2
           b == q % 2
<1>1. x = p * q + r /\ q \in Int /\ r \in 0 .. p - 1
  BY Division
<1>2. q = 2 * h + b /\ h \in Int /\ b \in {0, 1}
  <2> HIDE DEF q
  <2>1. q = 2 * h + b /\ h \in Int /\ b \in 0 .. 1
    BY <1>1, Division
  <2> QED
    BY <2>1
<1> HIDE DEF q, r, h, b
<1>3. x = (2 * p) * h + (p * b + r)
  <2>1. p * (2 * h + b) = (2 * p) * h + p * b
    BY <1>2
  <2> QED
    BY <1>1, <1>2, <2>1
<1> DEFINE m == 2 * p
           s == p * b + r
<1>4. m \in Nat \ {0} /\ s \in 0 .. m - 1
  BY <1>1, <1>2
<1>5. x = m * h + s
  BY <1>3
<1> HIDE DEF m, s
<1>6. x % m = s
  BY <1>2, <1>4, <1>5, DivisionUnique
<1>7. s = r + p * b
  BY <1>1, <1>2 DEF s
<1> QED
  BY <1>6, <1>7 DEF m, r, b, q

LEMMA BitOr == \A x \in Int, k \in Nat : Bit(x, k) \in {0, 1}
<1>1. \A x \in Int, k \in Nat : x \div Pow2[k] \in Int
  BY Pow2Nat, Division
<1>2. \A y \in Int : y % 2 \in {0, 1}
  OBVIOUS
<1> QED
  BY <1>1, <1>2 DEF Bit

\* A number is the sum of its bits.
LEMMA NumberBits ==
  ASSUME NEW x \in Words("i64") PROVE Number(Bits(x)) = x
<1> DEFINE N == Width("i64")
           parts == [k \in BitNumbers |-> IF k \in Bits(x) THEN Pow2[k] ELSE 0]
           Bad == {k \in 0 .. N : Total(parts, k) # x % Pow2[k]}
<1>1. N \in Nat \ {0} /\ x \in 0 .. Pow2[N] - 1 /\ x \in Int
  BY Widths, WordInt DEF Words, Types, Sizes
<1>2. \A k \in 0 .. N - 1 : parts[k] = Pow2[k] * Bit(x, k)
  <2>1. SUFFICES ASSUME NEW k \in 0 .. N - 1 PROVE parts[k] = Pow2[k] * Bit(x, k)
    OBVIOUS
  <2>2. k \in BitNumbers /\ (k \in Bits(x) <=> Bit(x, k) = 1)
    BY DEF BitNumbers, Bits, Bit
  <2>3. Bit(x, k) \in {0, 1} /\ Pow2[k] \in Int
    BY <1>1, BitOr, Pow2Nat
  <2>4. parts[k] = IF Bit(x, k) = 1 THEN Pow2[k] ELSE 0
    BY <2>2
  <2> QED
    BY <2>3, <2>4
<1> HIDE DEF parts, N
<1>3. Bad = {}
  <2>1. SUFFICES ASSUME Bad # {} PROVE FALSE
    OBVIOUS
  <2>2. PICK n \in Bad : \A y \in Bad : n <= y
    <3>1. Bad \in SUBSET Nat
      OBVIOUS
    <3> HIDE DEF Bad
    <3> QED
      BY <2>1, <3>1, LeastNat
  <2>3. n \in 0 .. N /\ n - 1 \notin Bad /\ Total(parts, n) # x % Pow2[n]
    BY <2>2
  <2>4. CASE n = 0
    <3>1. x % 1 = 0
      BY <1>1
    <3> QED
      BY <2>3, <2>4, <3>1, TotalDef, Pow2Def
  <2>5. CASE n # 0
    <3> DEFINE k == n - 1
    <3>1. k \in 0 .. N /\ k \in 0 .. N - 1 /\ k \in Nat /\ k + 1 = n
      BY <1>1, <2>3, <2>5
    <3>2. Total(parts, k) = x % Pow2[k]
      BY <2>3, <3>1
    <3> HIDE DEF k
    <3>3. Total(parts, n) = (x % Pow2[k]) + Pow2[k] * Bit(x, k)
      BY <1>2, <3>1, <3>2, TotalDef
    <3>4. Pow2[n] = 2 * Pow2[k] /\ Pow2[k] \in Nat \ {0}
      <4>1. n \in Nat /\ n # 0 /\ n - 1 = k
        BY <3>1
      <4> QED
        BY <3>1, <4>1, Pow2Def, Pow2Nat
    <3>5. x % (2 * Pow2[k]) = (x % Pow2[k]) + Pow2[k] * Bit(x, k)
      BY <1>1, <3>4, ModStep DEF Bit
    <3> QED
      BY <2>3, <3>3, <3>4, <3>5
  <2> QED
    BY <2>4, <2>5
<1>4. N \in 0 .. N
  BY <1>1
<1>5. Total(parts, N) = x % Pow2[N]
  BY <1>3, <1>4
<1>6. x % Pow2[N] = x
  BY <1>1, Pow2Nat, ModSmall
<1> QED
  BY <1>5, <1>6 DEF Number, parts, N

\* Bits below the width of a type make a word of it.
LEMMA NumberWord ==
  ASSUME NEW ty \in Types, NEW bits, bits \cap BitNumbers \subseteq 0 .. Width(ty) - 1
  PROVE  Number(bits) \in Words(ty)
<1> DEFINE N == Width("i64")
           w == Width(ty)
           parts == [k \in BitNumbers |-> IF k \in bits THEN Pow2[k] ELSE 0]
           Q == [k \in Nat |-> IF k <= w THEN Pow2[k] ELSE Pow2[w]]
<1>1. N \in Nat /\ w \in Nat /\ w <= N
  BY Widths, WidthOrder DEF Types, Sizes
<1>2. \A k \in 0 .. N : Q[k] \in Int
  BY <1>1, Pow2Nat
<1>3. \A k \in 0 .. N - 1 : parts[k] \in 0 .. Q[k + 1] - Q[k]
  <2>1. SUFFICES ASSUME NEW k \in 0 .. N - 1 PROVE parts[k] \in 0 .. Q[k + 1] - Q[k]
    OBVIOUS
  <2>2. k \in BitNumbers /\ k \in Nat /\ k + 1 \in Nat
    BY DEF BitNumbers
  <2>3. Pow2[k + 1] = 2 * Pow2[k] /\ Pow2[k] \in Nat /\ Pow2[w] \in Nat
    <3>1. k + 1 # 0 /\ (k + 1) - 1 = k
      BY <2>2
    <3> QED
      BY <1>1, <2>2, <3>1, Pow2Def, Pow2Nat
  <2>4. CASE k < w
    <3>1. Q[k] = Pow2[k] /\ Q[k + 1] = Pow2[k + 1]
      BY <1>1, <2>2, <2>4
    <3>2. parts[k] \in {0, Pow2[k]}
      BY <2>2
    <3> HIDE DEF Q, parts
    <3> QED
      BY <2>3, <3>1, <3>2
  <2>5. CASE ~(k < w)
    <3>1. Q[k] = Pow2[w] /\ Q[k + 1] = Pow2[w]
      BY <1>1, <2>2, <2>5
    <3>2. parts[k] = 0
      BY <1>1, <2>2, <2>5
    <3> HIDE DEF Q, parts
    <3> QED
      BY <2>3, <3>1, <3>2
  <2> QED
    BY <2>4, <2>5
<1>4. Q[0] = 1 /\ Q[N] = Pow2[w]
  <2>1. Q[N] = Pow2[w]
    BY <1>1
  <2> QED
    BY <1>1, <2>1, Pow2Def
<1>5. Number(bits) = Total(parts, N)
  BY DEF Number
<1>6. N \in 0 .. N
  BY <1>1
<1> HIDE DEF Q, parts, N
<1>7. Total(parts, N) \in 0 .. Q[N] - Q[0]
  BY <1>1, <1>2, <1>3, <1>6, TotalRange
<1> QED
  BY <1>4, <1>5, <1>7 DEF Words

\* The bits of h * 2^w + v: those of v, then those of h.
LEMMA BitSplit ==
  ASSUME NEW w \in Nat, NEW h \in Nat, NEW v \in 0 .. Pow2[w] - 1, NEW k \in Nat
  PROVE  Bit(h * Pow2[w] + v, k) = IF k < w THEN Bit(v, k) ELSE Bit(h, k - w)
<1> DEFINE x == h * Pow2[w] + v
<1>1. Pow2[w] \in Nat \ {0} /\ Pow2[k] \in Nat \ {0}
  BY Pow2Nat
<1>2. x \in Int
  BY <1>1
<1>3. CASE k < w
  <2> DEFINE p == Pow2[k]
             d == Pow2[w - k]
             e == Pow2[w - k - 1]
             q == v \div p
             r == v % p
  <2>1. Pow2[w] = p * d
    BY <1>3, Pow2Divides
  <2>2. d = 2 * e /\ e \in Nat
    <3>1. w - k \in Nat /\ w - k # 0 /\ w - k - 1 \in Nat
      BY <1>3
    <3> QED
      BY <3>1, Pow2Def, Pow2Nat
  <2>4. p \in Nat \ {0} /\ p \in Int /\ v \in Int
    BY <1>1
  <2> HIDE DEF p, d, e
  <2>3. v = p * q + r /\ q \in Int /\ r \in 0 .. p - 1
    BY <2>4, Division
  <2> HIDE DEF q, r
  <2> DEFINE g == 2 * (h * e) + q
  <2>5. g \in Int
    BY <2>2, <2>3
  <2>6. x = p * g + r
    <3>1. h * (p * (2 * e)) = p * (2 * (h * e))
      BY <2>2, <2>4
    <3>2. h * Pow2[w] = p * (2 * (h * e))
      BY <2>1, <2>2, <3>1
    <3>3. p * (2 * (h * e) + q) = p * (2 * (h * e)) + p * q
      BY <2>2, <2>3, <2>4
    <3>4. h * e \in Int /\ p * (2 * (h * e)) \in Int /\ p * q \in Int
      BY <2>2, <2>3, <2>4
    <3> QED
      BY <2>3, <3>2, <3>3, <3>4
  <2>7. x \div p = g
    <3> HIDE DEF x, g
    <3> QED
      BY <1>2, <2>3, <2>4, <2>5, <2>6, DivisionUnique
  <2>8. g % 2 = q % 2
    <3> DEFINE t == h * e
    <3>1. t \in Int
      BY <2>2
    <3> HIDE DEF t
    <3>2. (q + 2 * t) % 2 = q % 2
      BY <2>3, <3>1, ModShift
    <3>3. q + 2 * t = 2 * t + q
      BY <2>3, <3>1
    <3> QED
      BY <3>2, <3>3 DEF t
  <2> HIDE DEF x, g
  <2> QED
    BY <1>3, <2>7, <2>8 DEF Bit, p, q, x
<1>4. CASE ~(k < w)
  <2> DEFINE p == Pow2[w]
             d == Pow2[k - w]
             q == h \div d
             r == h % d
  <2>1. Pow2[k] = p * d /\ k - w \in Nat
    BY <1>4, Pow2Divides
  <2>2. d \in Nat \ {0}
    BY <2>1, Pow2Nat
  <2> HIDE DEF d
  <2>3. h = d * q + r /\ q \in Int /\ r \in 0 .. d - 1
    BY <2>2, Division
  <2> HIDE DEF q, r
  <2>4. p \in Nat \ {0} /\ v \in 0 .. p - 1
    BY <1>1
  <2>5. x = h * p + v
    OBVIOUS
  <2> HIDE DEF p, x
  <2> DEFINE m == p * d
             s == r * p + v
  <2>6. m \in Nat \ {0}
    BY <1>1, <2>1
  <2>7. s \in 0 .. m - 1
    <3>1. r <= d - 1 /\ r \in Int /\ r >= 0
      BY <2>2, <2>3
    <3>2. r * p <= (d - 1) * p /\ r * p >= 0 /\ r * p \in Int
      BY <2>2, <2>4, <3>1
    <3>3. (d - 1) * p = p * d - p
      BY <2>2, <2>4
    <3>4. v >= 0 /\ v <= p - 1 /\ v \in Int
      BY <2>4
    <3>5. s \in Int /\ m \in Int
      BY <2>6, <3>2, <3>4
    <3> QED
      BY <2>2, <2>4, <3>2, <3>3, <3>4, <3>5
  <2>8. x = m * q + s
    <3>1. (d * q + r) * p = (p * d) * q + r * p
      BY <2>2, <2>3, <2>4
    <3>2. x = (d * q + r) * p + v
      BY <2>3, <2>5
    <3>3. (p * d) * q \in Int /\ r * p \in Int /\ v \in Int
      BY <2>2, <2>3, <2>4
    <3> QED
      BY <3>1, <3>2, <3>3
  <2> HIDE DEF m, s
  <2>9. x \div m = q
    BY <1>2, <2>3, <2>6, <2>7, <2>8, DivisionUnique
  <2> QED
    BY <1>4, <2>1, <2>9 DEF Bit, m, q, d, x, p
<1> QED
  BY <1>3, <1>4

\* No bit above the highest.
LEMMA BitHigh ==
  ASSUME NEW w \in Nat, NEW v \in 0 .. Pow2[w] - 1, NEW k \in Nat, w <= k
  PROVE  Bit(v, k) = 0
<1>1. Pow2[w] <= Pow2[k] /\ Pow2[w] \in Nat /\ Pow2[k] \in Nat \ {0}
  BY Pow2Divides, Pow2Nat
<1>2. v \in 0 .. Pow2[k] - 1
  BY <1>1
<1>3. v \div Pow2[k] = 0
  BY <1>1, <1>2, ModSmall
<1> QED
  BY <1>3 DEF Bit

\* All bits of 2^n - 1 are set.
LEMMA BitOnes ==
  ASSUME NEW n \in Nat, NEW k \in Nat, k < n
  PROVE  Bit(Pow2[n] - 1, k) = 1
<1> DEFINE p == Pow2[k]
           d == Pow2[n - k]
           e == Pow2[n - k - 1]
<1>1. Pow2[n] = p * d
  BY Pow2Divides
<1>2. d = 2 * e /\ e \in Nat \ {0}
  <2>1. n - k \in Nat /\ n - k # 0 /\ n - k - 1 \in Nat
    OBVIOUS
  <2> QED
    BY <2>1, Pow2Def, Pow2Nat
<1>3. p \in Nat \ {0}
  BY Pow2Nat
<1> HIDE DEF p, d, e
<1> DEFINE x == Pow2[n] - 1
           q == 2 * e - 1
           r == p - 1
<1>4. x \in Int /\ q \in Int /\ r \in 0 .. p - 1
  BY <1>1, <1>2, <1>3
<1>5. x = p * q + r
  <2>1. p * (2 * e - 1) = p * (2 * e) - p
    BY <1>2, <1>3
  <2>2. p * (2 * e) \in Int
    BY <1>2, <1>3
  <2> QED
    BY <1>1, <1>2, <1>3, <2>1, <2>2
<1> HIDE DEF x, q, r
<1>6. x \div p = q
  BY <1>3, <1>4, <1>5, DivisionUnique
<1>7. q % 2 = 1
  BY <1>2 DEF q
<1> QED
  BY <1>6, <1>7 DEF Bit, x, p

LEMMA BitsMember == \A x, k : k \in Bits(x) <=> k \in BitNumbers /\ Bit(x, k) = 1
BY DEF Bits, Bit

\* The bits of a word are below its width.
LEMMA WordBits ==
  ASSUME NEW ty \in Types, NEW x \in Words(ty)
  PROVE  Bits(x) \subseteq 0 .. Width(ty) - 1
<1>1. SUFFICES ASSUME NEW k \in Bits(x) PROVE k \in 0 .. Width(ty) - 1
  OBVIOUS
<1>2. k \in Nat /\ Bit(x, k) = 1 /\ Width(ty) \in Nat
  BY Widths, BitsMember DEF BitNumbers
<1>3. ~(Width(ty) <= k)
  BY <1>2, BitHigh DEF Words
<1> QED
  BY <1>2, <1>3

\* A number split at the width of a type.
LEMMA WordSplit ==
  ASSUME NEW ty \in Types, NEW old \in Words("i64")
  PROVE  /\ Wrap(old, ty) \in 0 .. Pow2[Width(ty)] - 1
         /\ old \div Pow2[Width(ty)] \in Nat
         /\ old = (old \div Pow2[Width(ty)]) * Pow2[Width(ty)] + Wrap(old, ty)
<1> DEFINE m == Pow2[Width(ty)]
<1>1. m \in Nat \ {0} /\ old \in Nat
  BY Moduli, WordInt DEF M, Types, Sizes
<1> HIDE DEF m
<1>2. old = m * (old \div m) + (old % m) /\ old \div m \in Int /\ old % m \in 0 .. m - 1
  BY <1>1, Division
<1>3. old \div m \in Nat
  BY <1>1
<1>4. m * (old \div m) = (old \div m) * m
  BY <1>1, <1>2
<1> QED
  BY <1>2, <1>3, <1>4 DEF Wrap, m

\* The mask KeepMask clears the low bits.
LEMMA MaskKeeps ==
  ASSUME NEW ty \in Types, NEW old \in Words("i64")
  PROVE  /\ old - Wrap(old, ty) \in Words("i64")
         /\ Compute("AND", old, Wrap(-Pow2[Width(ty)], "i64"), "i64") = old - Wrap(old, ty)
<1> DEFINE w == Width(ty)
           N == Width("i64")
           p == Pow2[w]
           h == old \div p
           y == h * p + 0
           a == Pow2[N - w] - 1
           mask == a * p + 0
<1>1. w \in Nat /\ N \in Nat /\ w <= N /\ N - w \in Nat
  BY Widths, WidthOrder DEF Types, Sizes
<1>2. p \in Nat \ {0} /\ Pow2[N] \in Nat \ {0} /\ a \in Nat /\ Pow2[N] = p * Pow2[N - w]
      /\ p <= Pow2[N] /\ Pow2[N - w] \in Nat \ {0}
  BY <1>1, Pow2Nat, Pow2Divides
<1>3. h \in Nat /\ Wrap(old, ty) \in 0 .. p - 1 /\ old = h * p + Wrap(old, ty)
  BY WordSplit
<1>4. old \in 0 .. Pow2[N] - 1
  BY DEF Words
<1> HIDE DEF h, p
<1>5. h * p \in Nat
  BY <1>2, <1>3
<1>6. y = old - Wrap(old, ty) /\ y \in Words("i64")
  <2>1. y = old - Wrap(old, ty)
    BY <1>2, <1>3, <1>5
  <2>2. y \in 0 .. Pow2[N] - 1
    BY <1>2, <1>3, <1>4, <1>5
  <2> QED
    BY <2>1, <2>2 DEF Words
<1>7. Wrap(-p, "i64") = mask
  <2> DEFINE m == Pow2[N]
  <2>1. mask = m - p
    <3>1. (Pow2[N - w] - 1) * p = p * Pow2[N - w] - p
      BY <1>2
    <3> QED
      BY <1>2, <3>1
  <2>2. m - p \in 0 .. m - 1
    BY <1>2
  <2> DEFINE z == -p
             u == m - p
             q == -1
  <2>3. u \in 0 .. m - 1 /\ z \in Int /\ q \in Int /\ z = m * q + u
    <3>1. m * (-1) = -m
      BY <1>2
    <3> QED
      BY <1>2, <2>2, <3>1
  <2>5. m \in Nat \ {0}
    BY <1>2
  <2> HIDE DEF m, z, u, q
  <2>4. z % m = u
    BY <2>3, <2>5, DivisionUnique
  <2> QED
    BY <2>1, <2>4 DEF Wrap, z, u, m
<1>8. Bits(old) \cap Bits(mask) = Bits(y)
  <2>1. ASSUME NEW k \in BitNumbers
        PROVE  Bit(old, k) = 1 /\ Bit(mask, k) = 1 <=> Bit(y, k) = 1
    <3>1. k \in Nat /\ k < N
      BY <1>1, <2>1 DEF BitNumbers
    <3>2. 0 \in 0 .. Pow2[w] - 1 /\ Wrap(old, ty) \in 0 .. Pow2[w] - 1
      BY <1>2, <1>3 DEF p
    <3>3. Bit(0, k) = 0
      <4>1. Pow2[0] = 1
        BY Pow2Def
      <4> QED
        BY <3>1, <4>1, BitHigh
    <3>4. CASE k < w
      <4>1. Bit(y, k) = Bit(0, k)
        BY <1>1, <1>3, <3>1, <3>2, <3>4, BitSplit DEF p
      <4>2. Bit(mask, k) = Bit(0, k)
        BY <1>1, <1>2, <3>1, <3>2, <3>4, BitSplit DEF p
      <4> QED
        BY <3>3, <4>1, <4>2
    <3>5. CASE ~(k < w)
      <4>1. Bit(old, k) = Bit(h, k - w)
        BY <1>1, <1>3, <3>1, <3>2, <3>5, BitSplit DEF p
      <4>2. Bit(y, k) = Bit(h, k - w)
        BY <1>1, <1>3, <3>1, <3>2, <3>5, BitSplit DEF p
      <4>3. Bit(mask, k) = Bit(a, k - w)
        BY <1>1, <1>2, <3>1, <3>2, <3>5, BitSplit DEF p
      <4>4. Bit(a, k - w) = 1
        <5>1. k - w \in Nat /\ k - w < N - w
          BY <1>1, <3>1, <3>5
        <5> QED
          BY <1>1, <5>1, BitOnes
      <4> QED
        BY <4>1, <4>2, <4>3, <4>4
    <3> QED
      BY <3>4, <3>5
  <2> HIDE DEF mask, y
  <2> QED
    BY <2>1, BitsMember
<1> HIDE DEF y, mask
<1>9. Number(Bits(y)) = y
  BY <1>6, NumberBits
<1> QED
  BY <1>6, <1>7, <1>8, <1>9 DEF Compute, p

\* What is put under the mask is added.
LEMMA MaskJoins ==
  ASSUME NEW ty \in Types, NEW old \in Words("i64"), NEW x \in Words(ty)
  PROVE  /\ old - Wrap(old, ty) + x \in Words("i64")
         /\ Compute("OR", old - Wrap(old, ty), x, "i64") = old - Wrap(old, ty) + x
<1> DEFINE w == Width(ty)
           N == Width("i64")
           p == Pow2[w]
           h == old \div p
           y == h * p + 0
           z == h * p + x
<1>1. w \in Nat /\ N \in Nat /\ w <= N /\ N - w \in Nat
  BY Widths, WidthOrder DEF Types, Sizes
<1>2. p \in Nat \ {0} /\ Pow2[N] = p * Pow2[N - w] /\ Pow2[N - w] \in Nat \ {0}
  BY <1>1, Pow2Nat, Pow2Divides
<1>3. h \in Nat /\ Wrap(old, ty) \in 0 .. p - 1 /\ old = h * p + Wrap(old, ty)
  BY WordSplit
<1>4. old \in 0 .. Pow2[N] - 1 /\ x \in 0 .. p - 1
  BY DEF Words
<1> HIDE DEF h, p
<1>5. h * p \in Nat
  BY <1>2, <1>3
<1>6. y = old - Wrap(old, ty) /\ z = old - Wrap(old, ty) + x
  BY <1>2, <1>3, <1>4, <1>5
<1>7. z \in Words("i64")
  <2> DEFINE d == Pow2[N - w]
  <2>1. d \in Nat \ {0} /\ Pow2[N] = p * d
    BY <1>2
  <2> HIDE DEF d
  <2>2. h * p < p * d
    BY <1>2, <1>3, <1>4, <1>5, <2>1
  <2>3. h < d
    <3>1. SUFFICES ASSUME h >= d PROVE FALSE
      BY <1>3, <2>1
    <3>2. h * p >= d * p /\ d * p = p * d
      BY <1>2, <1>3, <2>1, <3>1
    <3> QED
      BY <1>2, <1>5, <2>1, <2>2, <3>2
  <2>4. h * p <= (d - 1) * p /\ (d - 1) * p = p * d - p
    BY <1>2, <1>3, <2>1, <2>3
  <2>5. p * d \in Nat
    BY <1>2, <2>1
  <2>6. z \in 0 .. p * d - 1
    BY <1>2, <1>4, <1>5, <2>4, <2>5
  <2> QED
    BY <2>1, <2>6 DEF Words
<1>8. Bits(y) \cup Bits(x) = Bits(z)
  <2>1. ASSUME NEW k \in BitNumbers
        PROVE  Bit(y, k) = 1 \/ Bit(x, k) = 1 <=> Bit(z, k) = 1
    <3>1. k \in Nat
      BY <1>1, <2>1 DEF BitNumbers
    <3>2. 0 \in 0 .. Pow2[w] - 1 /\ x \in 0 .. Pow2[w] - 1
      BY <1>2, <1>4 DEF p
    <3>3. Bit(0, k) = 0
      <4>1. Pow2[0] = 1
        BY Pow2Def
      <4> QED
        BY <3>1, <4>1, BitHigh
    <3>4. CASE k < w
      <4>1. Bit(y, k) = 0
        BY <1>1, <1>3, <3>1, <3>2, <3>3, <3>4, BitSplit DEF p
      <4>2. Bit(z, k) = Bit(x, k)
        BY <1>1, <1>3, <3>1, <3>2, <3>4, BitSplit DEF p
      <4> QED
        BY <4>1, <4>2
    <3>5. CASE ~(k < w)
      <4>1. Bit(y, k) = Bit(h, k - w)
        BY <1>1, <1>3, <3>1, <3>2, <3>5, BitSplit DEF p
      <4>2. Bit(z, k) = Bit(h, k - w)
        BY <1>1, <1>3, <3>1, <3>2, <3>5, BitSplit DEF p
      <4>3. Bit(x, k) = 0
        BY <1>1, <3>1, <3>2, <3>5, BitHigh
      <4> QED
        BY <4>1, <4>2, <4>3
    <3> QED
      BY <3>4, <3>5
  <2> HIDE DEF z, y
  <2> QED
    BY <2>1, BitsMember
<1> HIDE DEF y, z
<1>9. Number(Bits(z)) = z
  BY <1>7, NumberBits
<1> QED
  BY <1>6, <1>7, <1>8, <1>9 DEF Compute

(***************************************************************************)
(* What instructions compute, load and store is a word.                     *)
(***************************************************************************)

LEMMA ShiftDown ==
  ASSUME NEW x \in Nat, NEW p \in Nat \ {0}
  PROVE  x \div p \in 0 .. x
<1> DEFINE q == x \div p
           r == x % p
<1>1. x = p * q + r /\ q \in Int /\ r \in 0 .. p - 1
  BY Division
<1> HIDE DEF q, r
<1>2. q >= 0
  <2>1. SUFFICES ASSUME q <= -1 PROVE FALSE
    BY <1>1
  <2>2. p * q <= p * (-1) /\ p * q \in Int
    BY <1>1, <2>1
  <2> QED
    BY <1>1, <2>2
<1>3. p * q >= q
  BY <1>1, <1>2
<1>4. p * q \in Int
  BY <1>1
<1> QED
  BY <1>1, <1>2, <1>3, <1>4 DEF q

LEMMA QuotientInt ==
  ASSUME NEW x \in Int, NEW y \in Int, y # 0
  PROVE  Quotient(x, y) \in Int
<1> DEFINE Size(n) == IF n < 0 THEN -n ELSE n
<1>1. Size(x) \in Nat /\ Size(y) \in Nat \ {0}
  OBVIOUS
<1>2. Size(x) \div Size(y) \in Int
  <2> HIDE DEF Size
  <2> QED
    BY <1>1, Division
<1>3. Quotient(x, y) \in {Size(x) \div Size(y), -(Size(x) \div Size(y))}
  BY DEF Quotient
<1> DEFINE q == Size(x) \div Size(y)
<1> HIDE DEF q
<1> QED
  BY <1>2, <1>3 DEF q

Shifts == {"SHL", "LSHR", "ASHR"}
Binaries == {"ADD", "SUB", "MUL", "AND", "OR", "XOR"}

LEMMA ComputeWord ==
  ASSUME NEW ty \in Types, NEW x \in Words(ty), NEW y \in Nat, NEW opcode,
         \/ opcode \in Binaries /\ y \in Words(ty)
         \/ opcode \in Shifts
  PROVE  Compute(opcode, x, y, ty) \in Words(ty)
<1>1. x \in Nat /\ x \in Int /\ y \in Int
  BY WordInt
<1>2. CASE opcode \in {"ADD", "SUB", "MUL"}
  <2>1. x + y \in Int /\ x - y \in Int /\ x * y \in Int
    BY <1>1
  <2> QED
    BY <1>2, <2>1, WrapWord DEF Compute
<1>3. CASE opcode \in {"AND", "OR", "XOR"}
  <2>1. Bits(x) \subseteq 0 .. Width(ty) - 1 /\ Bits(y) \subseteq 0 .. Width(ty) - 1
    BY <1>3, WordBits DEF Shifts
  <2>2. /\ Number(Bits(x) \cap Bits(y)) \in Words(ty)
        /\ Number(Bits(x) \cup Bits(y)) \in Words(ty)
        /\ Number((Bits(x) \cup Bits(y)) \ (Bits(x) \cap Bits(y))) \in Words(ty)
    BY <2>1, NumberWord
  <2> QED
    BY <1>3, <2>2 DEF Compute
<1>4. CASE opcode = "LSHR"
  <2>1. x \div Pow2[y] \in 0 .. x
    BY <1>1, Pow2Nat, ShiftDown
  <2>2. x \in 0 .. M(ty) - 1 /\ M(ty) \in Nat
    BY Moduli DEF Words, M
  <2>3. x \div Pow2[y] \in 0 .. M(ty) - 1
    BY <2>1, <2>2
  <2> QED
    BY <1>4, <2>3 DEF Compute, Words, M
<1>5. CASE opcode = "SHL"
  <2>1. x * Pow2[y] \in Int
    BY <1>1, Pow2Nat
  <2> QED
    BY <1>5, <2>1, WrapWord DEF Compute
<1>6. CASE opcode = "ASHR"
  <2>1. Signed(x, ty) \div Pow2[y] \in Int
    BY SignedWord, Pow2Nat, Division
  <2> QED
    BY <1>6, <2>1, WrapWord DEF Compute
<1> QED
  BY <1>2, <1>3, <1>4, <1>5, <1>6 DEF Binaries, Shifts

\* Memory.
Memories == [Words("ptr") -> Words("i8")]

LEMMA ByteWord ==
  /\ \A x, k \in Int : Wrap(x, "ptr") \in Words("ptr") /\ ByteAt(x, k) \in Words("ptr")
  /\ Words("i8") = 0 .. Pow2[ByteBits] - 1
<1>1. \A x \in Int : Wrap(x, "ptr") \in Words("ptr")
  BY WrapWord DEF Types
<1>2. \A x, k \in Int : x + k \in Int
  OBVIOUS
<1>3. Words("i8") = 0 .. Pow2[ByteBits] - 1
  BY WidthOrder DEF Words
<1> QED
  BY <1>1, <1>2, <1>3 DEF ByteAt

LEMMA LoadWord ==
  ASSUME NEW m \in Memories, NEW addr \in Int, NEW ty \in Types
  PROVE  LoadFrom(m, addr, ty) \in Words(ty)
<1> DEFINE n == byteWidth(ty)
           parts == [k \in 0 .. n - 1 |-> m[ByteAt(addr, k)] * Pow2[k * ByteBits]]
           Q == [k \in Nat |-> Pow2[k * ByteBits]]
<1>1. n \in Nat \ {0} /\ ByteBits \in Nat \ {0} /\ Width(ty) = n * ByteBits
  BY Widths
<1> HIDE DEF n
<1>2. \A k \in Nat : k * ByteBits \in Nat /\ Pow2[k * ByteBits] \in Nat \ {0}
  BY <1>1, Pow2Nat
<1>3. \A k \in Nat : Q[k] = Pow2[k * ByteBits] /\ Q[k] \in Nat
  BY <1>2
<1>4. ASSUME NEW k \in 0 .. n - 1
      PROVE  parts[k] \in 0 .. Q[k + 1] - Q[k]
  <2> DEFINE b == m[ByteAt(addr, k)]
             p == Pow2[k * ByteBits]
             d == Pow2[ByteBits]
  <2>1. b \in 0 .. d - 1
    <3>1. ByteAt(addr, k) \in Words("ptr")
      BY ByteWord
    <3>2. m[ByteAt(addr, k)] \in Words("i8")
      BY <3>1 DEF Memories
    <3> QED
      BY <3>2, ByteWord
  <2>2. p \in Nat \ {0} /\ d \in Nat \ {0}
    BY <1>1, <1>2, Pow2Nat
  <2>3. Q[k + 1] = p * d
    <3>1. (k + 1) * ByteBits = k * ByteBits + ByteBits
      BY <1>1
    <3>2. Pow2[k * ByteBits + ByteBits] = p * d
      BY <1>1, <1>2, Pow2Sum
    <3> QED
      BY <1>3, <3>1, <3>2
  <2>4. parts[k] = b * p /\ Q[k] = p
    BY <1>3
  <2> HIDE DEF b, p, d, parts, Q
  <2>5. b * p >= 0 /\ b * p <= (d - 1) * p /\ b * p \in Int
    BY <2>1, <2>2
  <2>6. (d - 1) * p = p * d - p /\ p * d \in Int
    BY <2>2
  <2> QED
    BY <2>2, <2>3, <2>4, <2>5, <2>6
<1>5. \A k \in 0 .. n : Q[k] \in Int
  BY <1>1, <1>3
<1>6. Q[0] = 1 /\ Q[n] = Pow2[Width(ty)]
  <2>1. 0 * ByteBits = 0
    BY <1>1
  <2> QED
    BY <1>1, <1>3, <2>1, Pow2Def
<1>7. n \in Nat /\ n \in 0 .. n
  BY <1>1
<1> HIDE DEF parts, Q
<1>8. Total(parts, n) \in 0 .. Q[n] - Q[0]
  BY <1>4, <1>5, <1>7, TotalRange
<1> QED
  BY <1>6, <1>8 DEF LoadFrom, Words, parts, n

LEMMA StoreTyped ==
  ASSUME NEW m \in Memories, NEW addr \in Int, NEW ty \in Types, NEW x \in Int
  PROVE  StoreTo(m, addr, ty, x) \in Memories
<1>1. DOMAIN m = Words("ptr")
  BY DEF Memories
<1>2. ASSUME NEW a \in Words("ptr"), NEW k \in Nat
      PROVE  (x \div Pow2[k * ByteBits]) % Pow2[ByteBits] \in Words("i8")
  <2>1. k * ByteBits \in Nat /\ ByteBits \in Nat
    BY Widths
  <2>2. Pow2[k * ByteBits] \in Nat \ {0} /\ Pow2[ByteBits] \in Nat \ {0}
    BY <2>1, Pow2Nat
  <2>3. x \div Pow2[k * ByteBits] \in Int
    BY <2>2, Division
  <2>4. (x \div Pow2[k * ByteBits]) % Pow2[ByteBits] \in 0 .. Pow2[ByteBits] - 1
    BY <2>2, <2>3, Division
  <2> QED
    BY <2>4, ByteWord
<1>3. \A a \in Words("ptr") : Wrap(a - addr, "ptr") \in Nat
  <2>1. \A a \in Words("ptr") : a - addr \in Int
    BY WordInt DEF Types
  <2> QED
    BY <2>1, ByteWord, WordInt DEF Types
<1>4. \A a \in Words("ptr") : m[a] \in Words("i8")
  BY DEF Memories
<1> QED
  BY <1>1, <1>2, <1>3, <1>4, Zenon DEF StoreTo, Memories

(***************************************************************************)
(* Running instructions one by one.                                        *)
(***************************************************************************)

LEMMA RunDef ==
  ASSUME NEW S, NEW insts \in Seq(S), NEW mc
  PROVE  /\ insts = <<>> => Run(insts, mc) = Start(mc)
         /\ \A e : Run(Append(insts, e), mc) = Execute(Run(insts, mc), e)
<1> DEFINE Runs(f, q, n) ==
             f = [j \in 0 .. n |-> IF j = 0 THEN Start(mc) ELSE Execute(f[j - 1], q[j])]
<1>1. ASSUME NEW q PROVE \A n \in Nat : \E f : Runs(f, q, n)
  <2> DEFINE Bad == {n \in Nat : ~ \E f : Runs(f, q, n)}
  <2>1. SUFFICES ASSUME Bad # {} PROVE FALSE
    OBVIOUS
  <2>2. PICK x \in Bad : \A y \in Bad : x <= y
    <3>1. Bad \in SUBSET Nat
      OBVIOUS
    <3> HIDE DEF Bad
    <3> QED
      BY <2>1, <3>1, LeastNat
  <2>3. x # 0
    <3>1. Runs([j \in 0 .. 0 |-> Start(mc)], q, 0)
      OBVIOUS
    <3> HIDE DEF Runs
    <3> QED
      BY <3>1
  <2>4. x - 1 \in Nat /\ x - 1 \notin Bad
    <3>1. x \in Nat
      OBVIOUS
    <3> HIDE DEF Bad
    <3> QED
      BY <2>2, <2>3, <3>1
  <2>5. PICK f : Runs(f, q, x - 1)
    BY <2>4
  <2> DEFINE h == [j \in 0 .. x |-> IF j = x THEN Execute(f[x - 1], q[x]) ELSE f[j]]
  <2>6. ASSUME NEW j \in 0 .. x
        PROVE  h[j] = IF j = 0 THEN Start(mc) ELSE Execute(h[j - 1], q[j])
    <3>1. CASE j = x
      BY <2>2, <2>3, <3>1
    <3>2. CASE j # x
      <4>1. j \in 0 .. x - 1 /\ (j # 0 => j - 1 \in 0 .. x - 1)
        BY <2>2, <3>2
      <4>2. f[j] = IF j = 0 THEN Start(mc) ELSE Execute(f[j - 1], q[j])
        BY <2>5, <4>1
      <4>3. h[j] = f[j] /\ (j # 0 => h[j - 1] = f[j - 1])
        BY <2>2, <3>2, <4>1
      <4> QED
        BY <4>2, <4>3
    <3> QED
      BY <3>1, <3>2
  <2>7. Runs(h, q, x)
    <3>1. h = [j \in 0 .. x |-> h[j]]
      OBVIOUS
    <3> HIDE DEF h
    <3> QED
      BY <2>6, <3>1
  <2> HIDE DEF h, Runs
  <2> QED
    BY <2>7
<1> DEFINE g(q, n) == CHOOSE f : Runs(f, q, n)
<1>2. \A q : \A n \in Nat : Runs(g(q, n), q, n)
  <2> HIDE DEF Runs
  <2> QED
    BY <1>1
<1>3. \A q : \A n \in Nat : \A j \in 0 .. n :
        g(q, n)[j] = IF j = 0 THEN Start(mc) ELSE Execute(g(q, n)[j - 1], q[j])
  <2>1. \A q : \A n \in Nat : \A f : Runs(f, q, n) =>
          \A j \in 0 .. n : f[j] = IF j = 0 THEN Start(mc) ELSE Execute(f[j - 1], q[j])
    OBVIOUS
  <2> HIDE DEF Runs, g
  <2> QED
    BY <1>2, <2>1
<1>4. \A q : Run(q, mc) = g(q, Len(q))[Len(q)]
  BY DEF Run
<1> HIDE DEF g
<1>5. ASSUME insts = <<>> PROVE Run(insts, mc) = Start(mc)
  <2>1. Len(insts) = 0
    BY <1>5
  <2> QED
    BY <1>3, <1>4, <2>1
<1>6. ASSUME NEW e PROVE Run(Append(insts, e), mc) = Execute(Run(insts, mc), e)
  <2> DEFINE q == Append(insts, e)
             n == Len(insts)
  <2>1. n \in Nat /\ Len(q) = n + 1 /\ q[n + 1] = e /\ \A k \in 1 .. n : q[k] = insts[k]
    BY AppendSeq
  <2> HIDE DEF q, n
  <2> DEFINE Diff == {j \in 0 .. n : g(q, n + 1)[j] # g(insts, n)[j]}
  <2>2. Diff = {}
    <3>1. SUFFICES ASSUME Diff # {} PROVE FALSE
      OBVIOUS
    <3>2. PICK x \in Diff : \A y \in Diff : x <= y
      <4>1. Diff \in SUBSET Nat
        OBVIOUS
      <4> HIDE DEF Diff
      <4> QED
        BY <3>1, <4>1, LeastNat
    <3>3. x \in 0 .. n /\ x \in 0 .. n + 1 /\ x - 1 \notin Diff /\ n + 1 \in Nat
      BY <2>1, <3>2
    <3>4. CASE x = 0
      BY <1>3, <2>1, <3>2, <3>3, <3>4
    <3>5. CASE x > 0
      <4>1. g(q, n + 1)[x - 1] = g(insts, n)[x - 1]
        BY <2>1, <3>3, <3>5
      <4>2. /\ g(q, n + 1)[x] = Execute(g(q, n + 1)[x - 1], q[x])
            /\ g(insts, n)[x] = Execute(g(insts, n)[x - 1], insts[x])
        BY <1>3, <2>1, <3>3, <3>5
      <4>3. q[x] = insts[x]
        BY <2>1, <3>3, <3>5
      <4> QED
        BY <3>2, <4>1, <4>2, <4>3
    <3> QED
      BY <3>3, <3>4, <3>5
  <2>3. g(q, n + 1)[n] = g(insts, n)[n]
    BY <2>1, <2>2
  <2>4. g(q, n + 1)[n + 1] = Execute(g(q, n + 1)[n], e)
    <3>1. n + 1 \in Nat /\ n + 1 \in 0 .. n + 1 /\ n + 1 # 0 /\ (n + 1) - 1 = n
      BY <2>1
    <3> QED
      BY <1>3, <2>1, <3>1
  <2> QED
    BY <1>4, <2>1, <2>3, <2>4 DEF q, n
<1> QED
  BY <1>5, <1>6

\* What is new in a log that grows.
LEMMA NewAppend ==
  ASSUME NEW S, NEW log \in Seq(S), NEW before, Len(before) \in 0 .. Len(log), NEW e
  PROVE  /\ New(log, before) \in Seq(S)
         /\ New(Append(log, e), before) = Append(New(log, before), e)
         /\ Len(before) \in 0 .. Len(Append(log, e))
<1> DEFINE n == Len(before)
           q == Append(log, e)
           a == SubSeq(q, n + 1, Len(q))
           b == Append(SubSeq(log, n + 1, Len(log)), e)
<1>1. Len(log) \in Nat /\ n \in Nat /\ n <= Len(log) /\ Len(q) = Len(log) + 1
      /\ q[Len(log) + 1] = e /\ \A k \in 1 .. Len(log) : q[k] = log[k]
  BY AppendSeq
<1>2. SubSeq(log, n + 1, Len(log)) \in Seq(S) /\ Len(SubSeq(log, n + 1, Len(log))) = Len(log) - n
      /\ \A k \in 1 .. Len(log) - n : SubSeq(log, n + 1, Len(log))[k] = log[n + k]
  <2>1. \A k \in n + 1 .. Len(log) : log[k] \in S
    BY <1>1, ElementOfSeq
  <2> QED
    BY <1>1, <2>1, SMTT(30)
<1>3. Len(b) = Len(log) - n + 1
      /\ (\A k \in 1 .. Len(log) - n : b[k] = log[n + k])
      /\ b[Len(log) - n + 1] = e
  BY <1>1, <1>2, AppendSeq
<1>4. b \in Seq(S \cup {e})
  BY <1>2, AppendSeq
<1>5. q \in Seq(S \cup {e})
  BY AppendSeq
<1>6. a \in Seq(S \cup {e}) /\ Len(a) = Len(log) - n + 1
      /\ \A k \in 1 .. Len(log) - n + 1 : a[k] = q[n + k]
  <2>1. \A k \in n + 1 .. Len(q) : q[k] \in S \cup {e}
    BY <1>1, <1>5, ElementOfSeq
  <2> HIDE DEF q
  <2> QED
    BY <1>1, <1>5, <2>1, SMTT(30)
<1>7. \A k \in 1 .. Len(log) - n + 1 : a[k] = b[k]
  <2> HIDE DEF a, b, q
  <2>1. SUFFICES ASSUME NEW k \in 1 .. Len(log) - n + 1 PROVE a[k] = b[k]
    OBVIOUS
  <2>2. CASE k = Len(log) - n + 1
    BY <1>1, <1>3, <1>6, <2>2
  <2>3. CASE k # Len(log) - n + 1
    <3>1. k \in 1 .. Len(log) - n /\ n + k \in 1 .. Len(log)
      BY <1>1, <2>3
    <3> QED
      BY <1>1, <1>3, <1>6, <3>1
  <2> QED
    BY <2>2, <2>3
<1>8. a = b
  <2> HIDE DEF a, b
  <2> QED
    BY <1>3, <1>4, <1>6, <1>7, SeqEqual
<1>9. New(log, before) = SubSeq(log, n + 1, Len(log)) /\ New(q, before) = a
  BY DEF New
<1>10. n \in 0 .. Len(q)
  BY <1>1
<1> HIDE DEF a
<1> QED
  BY <1>2, <1>8, <1>9, <1>10

(***************************************************************************)
(* A function being lifted, and the state its new instructions run to.      *)
(* The origin o: the function before the instruction, the machine it starts  *)
(* from, and whether the copies of the block count (all) or not.            *)
(***************************************************************************)

GprNames == {Gprs[k] : k \in 1 .. 16}
MachineOK(mc) == mc \in [r : [GprNames -> Words("i64")], m : Memories, rip : Words("i64")]

Log(c, o) == IF o.all THEN c.pushed ELSE c.insts

StateOK(s, next) ==
  /\ \E D : s \in [v : [D -> Int], m : Memories] /\ 0 .. 15 \subseteq D /\ D \subseteq 0 .. next - 1
  /\ \A id \in 0 .. 15 : s.v[id] \in Words("i64")

Ran(c, o, s) ==
  /\ \E S : c \in [insts : Seq(S), pushed : Seq(S), next : Nat, thrown : BOOLEAN]
  /\ c.next >= 20
  /\ StateOK(s, c.next)
  /\ ~c.thrown => /\ Len(Log(o.before, o)) \in 0 .. Len(Log(c, o))
                  /\ s = Run(New(Log(c, o), Log(o.before, o)), o.mc)

\* What reading leaves, and what a register may lose.
Reads(t, s) ==
  /\ t.m = s.m
  /\ \A id \in DOMAIN s.v : id \in DOMAIN t.v /\ t.v[id] = s.v[id]
Lasts(t, s) ==
  \A id \in DOMAIN s.v : id \in DOMAIN t.v /\ (id \notin 0 .. 15 => t.v[id] = s.v[id])

\* The value v of type ty is x; only 64 bits are read in place.
Held(v, s, x, ty) ==
  /\ Value(s, v) = {x} /\ x \in Int
  /\ v.ty = ty
  /\ v.kind = "vreg" /\ v.id \in 0 .. 15 => ty = "i64"

\* r is the function after reading x from state s.
Gives(r, o, s, x, ty) == \E t : Ran(r.c, o, t) /\ Reads(t, s) /\ Held(r.v, t, x, ty)

Shows(s, mc) == SameRegisters(s, mc) /\ s.m = mc.m

LEMMA ReadsRefl == \A s : Reads(s, s) /\ Lasts(s, s)
BY DEF Reads, Lasts

LEMMA ReadsTrans == \A s, t, u : Reads(u, t) /\ Reads(t, s) => Reads(u, s)
BY DEF Reads

LEMMA ReadsLasts == \A s, t, u : /\ Reads(t, s) => Lasts(t, s)
                                 /\ Lasts(u, t) /\ Lasts(t, s) => Lasts(u, s)
BY DEF Reads, Lasts

LEMMA ReadsHeld ==
  ASSUME NEW s, NEW t, Reads(t, s), NEW v, NEW x, NEW ty, Held(v, s, x, ty)
  PROVE  Held(v, t, x, ty)
<1>1. CASE v.kind = "vreg"
  <2>1. v.id \in DOMAIN s.v
    BY <1>1 DEF Held, Value
  <2>2. Value(t, v) = Value(s, v)
    BY <1>1, <2>1 DEF Reads, Value
  <2> QED
    BY <2>2 DEF Held
<1>2. CASE v.kind # "vreg"
  BY <1>2 DEF Held, Value
<1> QED
  BY <1>1, <1>2

\* A value that is not a register's outlasts what is written to registers.
LEMMA LastsHeld ==
  ASSUME NEW s, NEW t, Lasts(t, s), NEW v, NEW x, NEW ty, Held(v, s, x, ty), ty # "i64"
  PROVE  Held(v, t, x, ty)
<1>1. CASE v.kind = "vreg"
  <2>1. v.id \in DOMAIN s.v /\ v.id \notin 0 .. 15
    BY <1>1 DEF Held, Value
  <2>2. Value(t, v) = Value(s, v)
    BY <1>1, <2>1 DEF Lasts, Value
  <2> QED
    BY <2>2 DEF Held
<1>2. CASE v.kind # "vreg"
  BY <1>2 DEF Held, Value
<1> QED
  BY <1>1, <1>2

LEMMA ReadsShows ==
  ASSUME NEW c, NEW o, NEW s, NEW t, NEW mc, Ran(c, o, s), Reads(t, s), Shows(s, mc)
  PROVE  Shows(t, mc)
<1>1. 0 .. 15 \subseteq DOMAIN s.v
  BY DEF Ran, StateOK
<1> QED
  BY <1>1 DEF Reads, Shows, SameRegisters

LEMMA GivesReads ==
  ASSUME NEW r, NEW o, NEW s, NEW t, NEW x, NEW ty, Reads(t, s), Gives(r, o, t, x, ty)
  PROVE  Gives(r, o, s, x, ty)
BY ReadsTrans DEF Gives

LEMMA ImmHeld ==
  ASSUME NEW s, NEW x \in Int, NEW ty \in Types
  PROVE  Held(Imm(x, ty), s, Wrap(x, ty), ty)
BY WrapWord DEF Held, Imm, Value

LEMMA ImmGives ==
  ASSUME NEW c, NEW o, NEW s, Ran(c, o, s), NEW x \in Int, NEW ty \in Types
  PROVE  Gives([c |-> c, v |-> Imm(x, ty)], o, s, Wrap(x, ty), ty)
BY ImmHeld, ReadsRefl DEF Gives

(***************************************************************************)
(* A push runs the instruction, if its log counts.                         *)
(***************************************************************************)

LEMMA PushRan ==
  ASSUME NEW c, NEW o, NEW s, Ran(c, o, s), NEW where \in {"block", "copy"}, NEW inst, NEW t,
         t = IF o.all \/ where = "block" THEN Execute(s, inst) ELSE s,
         StateOK(t, c.next)
  PROVE  Ran(pushInst(c, where, inst), o, t)
<1> DEFINE d == pushInst(c, where, inst)
<1>1. PICK S : c \in [insts : Seq(S), pushed : Seq(S), next : Nat, thrown : BOOLEAN]
  BY DEF Ran
<1>2. c.next >= 20
  BY DEF Ran
<1>3. CASE isTerminated(c.insts)
  <2>1. d = [c EXCEPT !.thrown = TRUE]
    BY <1>3 DEF pushInst
  <2>2. /\ d \in [insts : Seq(S), pushed : Seq(S), next : Nat, thrown : BOOLEAN]
        /\ d.next = c.next /\ d.thrown
    BY <1>1, <2>1
  <2> HIDE DEF d
  <2>3. Ran(d, o, t)
    BY <1>2, <2>2 DEF Ran
  <2> QED
    BY <2>3 DEF d
<1>4. CASE ~isTerminated(c.insts)
  <2>1. /\ d.pushed = Append(c.pushed, inst)
        /\ d.insts = IF where = "block" THEN Append(c.insts, inst) ELSE c.insts
        /\ d.next = c.next
        /\ d.thrown = c.thrown
    BY <1>1, <1>4 DEF pushInst, Pushed
  <2>2. d \in [insts : Seq(S \cup {inst}), pushed : Seq(S \cup {inst}), next : Nat, thrown : BOOLEAN]
    <3>1. c.insts \in Seq(S \cup {inst})
      BY <1>1, SeqDef
    <3>2. d = [insts |-> d.insts, pushed |-> d.pushed, next |-> d.next, thrown |-> d.thrown]
      BY <1>1, <1>4 DEF pushInst, Pushed
    <3>3. d.pushed \in Seq(S \cup {inst}) /\ d.insts \in Seq(S \cup {inst})
      BY <1>1, <2>1, <3>1, AppendSeq
    <3>4. d.next \in Nat /\ d.thrown \in BOOLEAN
      BY <1>1, <2>1
    <3> HIDE DEF d
    <3> QED
      BY <3>2, <3>3, <3>4
  <2> HIDE DEF d
  <2>3. ASSUME ~c.thrown
        PROVE  /\ Len(Log(o.before, o)) \in 0 .. Len(Log(d, o))
               /\ t = Run(New(Log(d, o), Log(o.before, o)), o.mc)
    <3> DEFINE log == Log(c, o)
               b == Log(o.before, o)
    <3>1. log \in Seq(S) /\ Len(b) \in 0 .. Len(log) /\ s = Run(New(log, b), o.mc)
      BY <1>1, <2>3 DEF Log, Ran
    <3>2. CASE o.all \/ where = "block"
      <4>1. Log(d, o) = Append(log, inst) /\ t = Execute(s, inst)
        BY <2>1, <3>2 DEF Log
      <4> HIDE DEF log, b
      <4>2. /\ New(log, b) \in Seq(S)
            /\ New(Append(log, inst), b) = Append(New(log, b), inst)
            /\ Len(b) \in 0 .. Len(Append(log, inst))
        BY <3>1, NewAppend
      <4>3. Run(Append(New(log, b), inst), o.mc) = Execute(Run(New(log, b), o.mc), inst)
        BY <4>2, RunDef
      <4>4. Len(b) \in 0 .. Len(Log(d, o)) /\ t = Run(New(Log(d, o), b), o.mc)
        BY <3>1, <4>1, <4>2, <4>3
      <4> QED
        BY <4>4 DEF b
    <3>3. CASE ~(o.all \/ where = "block")
      <4>1. Log(d, o) = log /\ t = s
        BY <2>1, <3>3 DEF Log
      <4> QED
        BY <3>1, <4>1
    <3> QED
      BY <3>2, <3>3
  <2>4. Ran(d, o, t)
    BY <1>2, <2>1, <2>2, <2>3 DEF Ran
  <2> QED
    BY <2>4 DEF d
<1> QED
  BY <1>3, <1>4

LEMMA AllocRan ==
  ASSUME NEW c, NEW o, NEW s, Ran(c, o, s)
  PROVE  /\ Ran(allocVreg(c), o, s)
         /\ allocVreg(c).next = c.next + 1 /\ c.next \in Nat /\ c.next >= 20
<1>1. PICK S : c \in [insts : Seq(S), pushed : Seq(S), next : Nat, thrown : BOOLEAN]
  BY DEF Ran
<1> DEFINE d == allocVreg(c)
<1>2. /\ d \in [insts : Seq(S), pushed : Seq(S), next : Nat, thrown : BOOLEAN]
      /\ d.next = c.next + 1 /\ d.insts = c.insts /\ d.pushed = c.pushed /\ d.thrown = c.thrown
  BY <1>1 DEF allocVreg
<1> HIDE DEF d
<1>3. c.next \in Nat /\ c.next >= 20
  BY <1>1 DEF Ran
<1>4. StateOK(s, d.next)
  <2>1. PICK D : s \in [v : [D -> Int], m : Memories] /\ 0 .. 15 \subseteq D /\ D \subseteq 0 .. c.next - 1
    BY DEF Ran, StateOK
  <2>2. D \subseteq 0 .. d.next - 1
    <3>1. d.next - 1 = c.next /\ \A n \in 0 .. c.next - 1 : n \in 0 .. c.next
      BY <1>2, <1>3
    <3> QED
      BY <2>1, <3>1
  <2> QED
    BY <2>1, <2>2 DEF Ran, StateOK
<1>5. Log(d, o) = Log(c, o)
  BY <1>2 DEF Log
<1>6. Ran(d, o, s)
  BY <1>2, <1>3, <1>4, <1>5 DEF Ran
<1> QED
  BY <1>2, <1>3, <1>6 DEF d

\* v has one value, x.
Worth(s, v, x) == Value(s, v) = {x}

SetV(s, id, x) == [s EXCEPT !.v = Define(s.v, id, x)]

\* Defining a virtual register.
LEMMA DefineState ==
  ASSUME NEW n \in Nat, NEW s, StateOK(s, n), NEW id \in 0 .. n - 1, NEW x \in Int,
         id \in 0 .. 15 => x \in Words("i64"), n >= 20
  PROVE  LET t == SetV(s, id, x)
         IN  /\ StateOK(t, n)
             /\ t.m = s.m
             /\ id \in DOMAIN t.v /\ t.v[id] = x
             /\ \A j \in DOMAIN s.v : j \in DOMAIN t.v /\ (j # id => t.v[j] = s.v[j])
<1> DEFINE t == SetV(s, id, x)
<1>1. PICK D : s \in [v : [D -> Int], m : Memories] /\ 0 .. 15 \subseteq D /\ D \subseteq 0 .. n - 1
  BY DEF StateOK
<1>2. DOMAIN s.v = D
  BY <1>1
<1> DEFINE w == Define(s.v, id, x)
<1>3. /\ w = [j \in D \cup {id} |-> IF j = id THEN x ELSE s.v[j]]
  BY <1>2 DEF Define
<1>4. w \in [D \cup {id} -> Int]
  BY <1>1, <1>3
<1>5. t.v = w /\ t.m = s.m /\ t \in [v : [D \cup {id} -> Int], m : Memories]
  <2> HIDE DEF w
  <2>1. t = [s EXCEPT !.v = w]
    BY DEF w, SetV
  <2> QED
    BY <1>1, <1>4, <2>1
<1> HIDE DEF w, t
<1>6. \A j \in D \cup {id} : w[j] = IF j = id THEN x ELSE s.v[j]
  BY <1>3
<1>7. DOMAIN w = D \cup {id}
  BY <1>4
<1>8. StateOK(t, n)
  <2>1. 0 .. 15 \subseteq D \cup {id} /\ D \cup {id} \subseteq 0 .. n - 1
    BY <1>1
  <2>2. \A j \in 0 .. 15 : t.v[j] \in Words("i64")
    BY <1>1, <1>5, <1>6 DEF StateOK
  <2> QED
    BY <1>5, <2>1, <2>2 DEF StateOK
<1> QED
  BY <1>2, <1>5, <1>6, <1>7, <1>8 DEF t

(***************************************************************************)
(* The result of an instruction in a new temporary.                        *)
(***************************************************************************)

Moving == {"MOV", "ZEXT", "TRUNC", "INTTOPTR", "PTRTOINT"}
Unaries == Moving \cup {"LOAD", "SEXT", "NOT", "NEG"}
Dividing == {"UDIV", "UREM", "SDIV", "SREM"}

Un(m, opcode, ty, from, x) ==
  CASE opcode = "LOAD" -> LoadFrom(m, x, ty)
    [] opcode = "SEXT" -> Wrap(Signed(x, from), ty)
    [] opcode = "NOT" -> Wrap(-1 - x, ty)
    [] opcode = "NEG" -> Wrap(-x, ty)
    [] OTHER -> Wrap(x, ty)

UnOf(s, opcode, ty, v, x) == Un(s.m, opcode, ty, v.ty, x)

LEMMA ExecuteUn ==
  ASSUME NEW s, NEW v, NEW x, NEW ty, NEW id, NEW opcode \in Unaries,
         Worth(s, v, x)
  PROVE  Execute(s, Inst(opcode, {id}, ty, <<v>>)) = SetV(s, id, UnOf(s, opcode, ty, v, x))
<1> DEFINE inst == Inst(opcode, {id}, ty, <<v>>)
           known == [k \in 1 .. Len(inst.operands) |-> Value(s, inst.operands[k])]
           f == [k \in 1 .. Len(known) |-> CHOOSE z \in known[k] : TRUE]
<1>1. /\ inst.operands = <<v>> /\ inst.opcode = opcode /\ inst.ty = ty /\ inst.dst = {id}
      /\ Len(inst.operands) = 1 /\ inst.operands[1] = v
  BY DEF Inst
<1> HIDE DEF inst
<1>2. known = <<{x}>>
  BY <1>1 DEF Worth
<1>3. Len(known) = 1 /\ known[1] = {x}
  BY <1>2
<1> HIDE DEF known
<1>4. f[1] = x
  BY <1>3
<1>5. Execute(s, inst) = [s EXCEPT !.v = Define(s.v, CHOOSE j \in {id} : TRUE, Result(s, inst, f))]
  <2>1. ~ \E k \in 1 .. Len(known) : known[k] = {}
    BY <1>3
  <2>2. inst.opcode # "STORE"
    BY <1>1 DEF Unaries, Moving
  <2> QED
    BY <1>1, <2>1, <2>2 DEF Execute, known
<1> HIDE DEF f
<1>6. Result(s, inst, f) = UnOf(s, opcode, ty, v, x)
  BY <1>1, <1>4 DEF Result, UnOf, Un, Unaries, Moving
<1>7. (CHOOSE j \in {id} : TRUE) = id
  OBVIOUS
<1> QED
  BY <1>5, <1>6, <1>7 DEF inst, SetV

LEMMA ExecuteBin ==
  ASSUME NEW s, NEW v, NEW x, NEW w, NEW y, NEW ty, NEW id,
         NEW opcode \in Binaries \cup Shifts \cup Dividing,
         Worth(s, v, x), Worth(s, w, y)
  PROVE  Execute(s, Inst(opcode, {id}, ty, <<v, w>>))
           = SetV(s, id, Compute(opcode, x, y, ty))
<1> DEFINE inst == Inst(opcode, {id}, ty, <<v, w>>)
           known == [k \in 1 .. Len(inst.operands) |-> Value(s, inst.operands[k])]
           f == [k \in 1 .. Len(known) |-> CHOOSE z \in known[k] : TRUE]
<1>1. /\ inst.opcode = opcode /\ inst.ty = ty /\ inst.dst = {id}
      /\ Len(inst.operands) = 2 /\ inst.operands[1] = v /\ inst.operands[2] = w
  BY DEF Inst
<1> HIDE DEF inst
<1>2. known = <<{x}, {y}>>
  BY <1>1 DEF Worth
<1>3. Len(known) = 2 /\ known[1] = {x} /\ known[2] = {y}
  BY <1>2
<1> HIDE DEF known
<1>4. f[1] = x /\ f[2] = y
  BY <1>3
<1>5. Execute(s, inst) = [s EXCEPT !.v = Define(s.v, CHOOSE j \in {id} : TRUE, Result(s, inst, f))]
  <2>1. ~ \E k \in 1 .. Len(known) : known[k] = {}
    BY <1>3
  <2>2. inst.opcode # "STORE"
    BY <1>1 DEF Binaries, Shifts, Dividing
  <2> QED
    BY <1>1, <2>1, <2>2 DEF Execute, known
<1> HIDE DEF f
<1>6. Result(s, inst, f) = Compute(opcode, x, y, ty)
  BY <1>1, <1>4 DEF Result, Binaries, Shifts, Dividing
<1>7. (CHOOSE j \in {id} : TRUE) = id
  OBVIOUS
<1> QED
  BY <1>5, <1>6, <1>7 DEF inst, SetV

StoreOf(s, a, v, x) == [s EXCEPT !.m = StoreTo(s.m, a, v.ty, x)]

LEMMA ExecuteStore ==
  ASSUME NEW s, NEW v, NEW x, NEW w, NEW a, Worth(s, v, x), Worth(s, w, a)
  PROVE  Execute(s, Store(v, w)) = StoreOf(s, a, v, x)
<1> DEFINE inst == Store(v, w)
           known == [k \in 1 .. Len(inst.operands) |-> Value(s, inst.operands[k])]
           f == [k \in 1 .. Len(known) |-> CHOOSE z \in known[k] : TRUE]
<1>1. /\ inst.opcode = "STORE"
      /\ Len(inst.operands) = 2 /\ inst.operands[1] = v /\ inst.operands[2] = w
  BY DEF Inst, Store
<1> HIDE DEF inst
<1>2. known = <<{x}, {a}>>
  BY <1>1 DEF Worth
<1>3. Len(known) = 2 /\ known[1] = {x} /\ known[2] = {a}
  BY <1>2
<1> HIDE DEF known
<1>4. f[1] = x /\ f[2] = a
  BY <1>3
<1>5. Execute(s, inst) = [s EXCEPT !.m = StoreTo(s.m, f[2], v.ty, f[1])]
  <2>1. ~ \E k \in 1 .. Len(known) : known[k] = {}
    BY <1>3
  <2> QED
    BY <1>1, <2>1 DEF Execute, known
<1> HIDE DEF f
<1> QED
  BY <1>4, <1>5 DEF inst, StoreOf

\* An instruction that defines a new temporary as y.
LEMMA IntoGives ==
  ASSUME NEW c, NEW o, NEW s, Ran(c, o, s), NEW where \in {"block", "copy"},
         o.all \/ where = "block",
         NEW opcode, NEW ty, NEW operands, NEW y \in Int,
         Execute(s, Inst(opcode, {c.next}, ty, operands)) = SetV(s, c.next, y)
  PROVE  Gives(Into(c, where, opcode, ty, operands), o, s, y, ty)
<1> DEFINE id == c.next
           d == allocVreg(c)
           inst == Inst(opcode, {id}, ty, operands)
           t == SetV(s, id, y)
           r == Into(c, where, opcode, ty, operands)
<1>1. Ran(d, o, s) /\ d.next = id + 1 /\ id \in Nat /\ id >= 20
  BY AllocRan
<1>2. StateOK(s, d.next)
  BY <1>1 DEF Ran
<1>3. /\ StateOK(t, d.next) /\ t.m = s.m /\ id \in DOMAIN t.v /\ t.v[id] = y
      /\ \A j \in DOMAIN s.v : j \in DOMAIN t.v /\ (j # id => t.v[j] = s.v[j])
  <2>1. d.next \in Nat /\ id \in 0 .. d.next - 1 /\ d.next >= 20 /\ id \notin 0 .. 15
    BY <1>1
  <2> HIDE DEF id, d
  <2> QED
    BY <1>2, <2>1, DefineState
<1>4. id \notin DOMAIN s.v
  <2>1. PICK D : s \in [v : [D -> Int], m : Memories] /\ D \subseteq 0 .. id - 1
    BY DEF Ran, StateOK
  <2>2. DOMAIN s.v = D /\ id \notin 0 .. id - 1
    BY <1>1, <2>1
  <2> QED
    BY <2>1, <2>2
<1>5. t = IF o.all \/ where = "block" THEN Execute(s, inst) ELSE s
  OBVIOUS
<1>6. r = [c |-> pushInst(d, where, inst), v |-> VReg(id, ty)]
  BY DEF Into
<1> HIDE DEF t, d, inst, r
<1>7. Ran(r.c, o, t)
  BY <1>1, <1>3, <1>5, <1>6, PushRan
<1>8. Reads(t, s)
  BY <1>3, <1>4 DEF Reads
<1>9. Held(r.v, t, y, ty)
  <2>1. r.v.kind = "vreg" /\ r.v.id = id /\ r.v.ty = ty
    BY <1>6 DEF VReg
  <2>2. Value(t, r.v) = {y}
    BY <1>3, <2>1 DEF Value
  <2> QED
    BY <1>1, <2>1, <2>2 DEF Held
<1> QED
  BY <1>7, <1>8, <1>9 DEF Gives, r

LEMMA IntoUn ==
  ASSUME NEW c, NEW o, NEW s, Ran(c, o, s), NEW where \in {"block", "copy"},
         o.all \/ where = "block", NEW opcode \in Unaries, NEW ty,
         NEW v, NEW x, NEW from, Held(v, s, x, from), NEW y, y \in Int, y = Un(s.m, opcode, ty, from, x)
  PROVE  Gives(Into(c, where, opcode, ty, <<v>>), o, s, y, ty)
<1>1. Worth(s, v, x)
  BY DEF Held, Worth
<1>4. v.ty = from
  BY DEF Held, Worth
<1> DEFINE id == c.next
<1> HIDE DEF id
<1>2. Execute(s, Inst(opcode, {id}, ty, <<v>>)) = SetV(s, id, UnOf(s, opcode, ty, v, x))
  BY <1>1, ExecuteUn
<1>5. y = UnOf(s, opcode, ty, v, x)
  BY <1>4 DEF UnOf
<1>3. Execute(s, Inst(opcode, {c.next}, ty, <<v>>)) = SetV(s, c.next, y)
  BY <1>2, <1>5, Zenon DEF id
<1> QED
  BY <1>3, IntoGives

LEMMA IntoBin ==
  ASSUME NEW c, NEW o, NEW s, Ran(c, o, s), NEW where \in {"block", "copy"},
         o.all \/ where = "block", NEW opcode \in Binaries \cup Shifts \cup Dividing, NEW ty,
         NEW v, NEW x, NEW from, Held(v, s, x, from),
         NEW w, NEW y, NEW from2, Held(w, s, y, from2),
         NEW z \in Int, z = Compute(opcode, x, y, ty)
  PROVE  Gives(Into(c, where, opcode, ty, <<v, w>>), o, s, z, ty)
<1>1. Worth(s, v, x) /\ Worth(s, w, y)
  BY DEF Held, Worth
<1> DEFINE id == c.next
<1> HIDE DEF id
<1>2. Execute(s, Inst(opcode, {id}, ty, <<v, w>>))
        = SetV(s, id, Compute(opcode, x, y, ty))
  BY <1>1, ExecuteBin
<1>3. Execute(s, Inst(opcode, {c.next}, ty, <<v, w>>)) = SetV(s, c.next, z)
  BY <1>2, Zenon DEF id
<1> QED
  BY <1>3, IntoGives

\* The same of a value just read.
LEMMA ThenUn ==
  ASSUME NEW r, NEW o, NEW s, NEW x, NEW from, Gives(r, o, s, x, from),
         NEW opcode \in Unaries, NEW ty, NEW y \in Int, y = Un(s.m, opcode, ty, from, x)
  PROVE  Gives(Then(r, "block", opcode, ty), o, s, y, ty)
<1>1. PICK t : Ran(r.c, o, t) /\ Reads(t, s) /\ Held(r.v, t, x, from)
  BY DEF Gives
<1>2. y = Un(t.m, opcode, ty, from, x)
  BY <1>1 DEF Reads
<1>3. Gives(Into(r.c, "block", opcode, ty, <<r.v>>), o, t, y, ty)
  BY <1>1, <1>2, IntoUn
<1>4. Gives(Then(r, "block", opcode, ty), o, t, y, ty)
  BY <1>3 DEF Then
<1> QED
  BY <1>1, <1>4, GivesReads

(***************************************************************************)
(* Registers.                                                              *)
(***************************************************************************)

\* A register that is tracked, and no second byte.
RegOK(reg) == gprVRegIds(reg) # {} /\ reg.part \in {"q", "d", "w", "l"}

RegId(reg) == gprVReg(reg).id

LEMMA GprsDistinct == \A j, k \in 0 .. 15 : Gprs[j + 1] = Gprs[k + 1] => j = k
<1>1. SUFFICES ASSUME NEW j \in 0 .. 15, NEW k \in 0 .. 15, j < k
               PROVE  Gprs[j + 1] # Gprs[k + 1]
  OBVIOUS
<1>2. CASE j \in 0 .. 3
  BY <1>1, <1>2 DEF Gprs
<1>3. CASE j \in 4 .. 7
  BY <1>1, <1>3 DEF Gprs
<1>4. CASE j \in 8 .. 15
  BY <1>1, <1>4 DEF Gprs
<1> QED
  BY <1>2, <1>3, <1>4

LEMMA GprId ==
  ASSUME NEW reg, gprVRegIds(reg) # {}
  PROVE  /\ RegId(reg) \in 0 .. 15 /\ gprVReg(reg) = VReg(RegId(reg), "i64")
         /\ Gprs[RegId(reg) + 1] = reg.name /\ reg.name \in GprNames
         /\ \A j \in 0 .. 15 : j # RegId(reg) => Gprs[j + 1] # reg.name
<1> DEFINE id == CHOOSE id \in gprVRegIds(reg) : TRUE
<1>1. id \in gprVRegIds(reg)
  OBVIOUS
<1>2. id \in 0 .. 15 /\ Gprs[id + 1] = reg.name
  BY <1>1 DEF gprVRegIds, canonicalReg
<1>3. gprVReg(reg) = VReg(id, "i64")
  BY DEF gprVReg
<1> HIDE DEF id
<1>4. RegId(reg) = id
  BY <1>3 DEF RegId, VReg
<1>5. \A j \in 0 .. 15 : j # id => Gprs[j + 1] # reg.name
  BY <1>2, GprsDistinct
<1>6. reg.name \in GprNames
  <2>1. id + 1 \in 1 .. 16
    BY <1>2
  <2> QED
    BY <1>2, <2>1 DEF GprNames
<1> QED
  BY <1>2, <1>3, <1>4, <1>5, <1>6

LEMMA RegTypes ==
  ASSUME NEW reg, RegOK(reg)
  PROVE  /\ typeOfReg(reg) \in Sizes /\ typeOfReg(reg) \in Types
         /\ reg.part = "q" <=> typeOfReg(reg) = "i64"
         /\ reg.part = "d" <=> typeOfReg(reg) = "i32"
         /\ reg.part # "h"
BY DEF RegOK, typeOfReg, Sizes, Types

LEMMA RegWord ==
  ASSUME NEW reg, RegOK(reg), NEW mc, MachineOK(mc)
  PROVE  /\ mc.r[reg.name] \in Words("i64") /\ mc.r[reg.name] \in Int
         /\ RegGet(mc, reg) = Wrap(mc.r[reg.name], typeOfReg(reg))
         /\ RegGet(mc, reg) \in Words(typeOfReg(reg)) /\ RegGet(mc, reg) \in Int
         /\ typeOfReg(reg) = "i64" => RegGet(mc, reg) = mc.r[reg.name]
<1>1. reg.name \in GprNames
  BY GprId DEF RegOK
<1>2. mc.r[reg.name] \in Words("i64")
  BY <1>1 DEF MachineOK
<1>3. mc.r[reg.name] \in Int
  BY <1>2, WordInt DEF Types, Sizes
<1>4. RegGet(mc, reg) = Wrap(mc.r[reg.name], typeOfReg(reg))
  BY RegTypes DEF RegGet
<1> QED
  BY <1>2, <1>3, <1>4, RegTypes, WrapWord

LEMMA ReadReg ==
  ASSUME NEW c, NEW o, NEW s, Ran(c, o, s), NEW mc, MachineOK(mc), Shows(s, mc),
         NEW reg, RegOK(reg), o.all \/ typeOfReg(reg) = "i64"
  PROVE  Gives(readReg(c, reg), o, s, RegGet(mc, reg), typeOfReg(reg))
<1> DEFINE id == RegId(reg)
           ty == typeOfReg(reg)
           x == mc.r[reg.name]
           y == RegGet(mc, reg)
<1>1. id \in 0 .. 15 /\ gprVReg(reg) = VReg(id, "i64") /\ Gprs[id + 1] = reg.name
  BY GprId DEF RegOK
<1>2. s.v[id] = x /\ id \in DOMAIN s.v
  BY <1>1 DEF Shows, SameRegisters, Ran, StateOK
<1>3. x \in Int /\ y \in Int /\ y = Wrap(x, ty) /\ (ty = "i64" => y = x)
  BY RegWord
<1>4. gprVRegIds(reg) # {}
  BY DEF RegOK
<1> HIDE DEF id, ty, x, y
<1>5. Held(gprVReg(reg), s, x, "i64")
  BY <1>1, <1>2, <1>3 DEF Held, VReg, Value
<1>6. CASE ty = "i64"
  <2>1. readReg(c, reg) = [c |-> c, v |-> gprVReg(reg)]
    BY <1>4, <1>6 DEF readReg, ty
  <2>2. Gives(readReg(c, reg), o, s, x, "i64")
    BY <1>5, <2>1, ReadsRefl DEF Gives
  <2> QED
    BY <1>3, <1>6, <2>2 DEF ty, y
<1>7. CASE ty # "i64"
  <2>1. readReg(c, reg) = Into(c, "copy", "TRUNC", ty, <<gprVReg(reg)>>)
    BY <1>4, <1>7 DEF readReg, ty
  <2>2. y = Un(s.m, "TRUNC", ty, "i64", x)
    BY <1>3 DEF Un
  <2>3. o.all /\ "TRUNC" \in Unaries
    BY <1>7 DEF ty, Unaries, Moving
  <2>4. Gives(Into(c, "copy", "TRUNC", ty, <<gprVReg(reg)>>), o, s, y, ty)
    BY <1>3, <1>5, <2>2, <2>3, IntoUn
  <2> QED
    BY <2>1, <2>4 DEF ty, y
<1> QED
  BY <1>6, <1>7

(***************************************************************************)
(* Writing a register.                                                     *)
(***************************************************************************)

LEMMA PutMachine ==
  ASSUME NEW reg, RegOK(reg), NEW mc, MachineOK(mc), NEW x \in Words(typeOfReg(reg))
  PROVE  /\ MachineOK(RegPut(mc, reg, x))
         /\ RegPut(mc, reg, x).m = mc.m
         /\ \A name \in GprNames :
              RegPut(mc, reg, x).r[name] =
                IF name # reg.name THEN mc.r[name]
                ELSE IF typeOfReg(reg) \in {"i64", "i32"} THEN x
                ELSE mc.r[reg.name] - Wrap(mc.r[reg.name], typeOfReg(reg)) + x
<1> DEFINE old == mc.r[reg.name]
           ty == typeOfReg(reg)
           y == IF reg.part \in {"q", "d"} THEN x ELSE old + (x - RegGet(mc, reg)) * 1
           z == IF ty \in {"i64", "i32"} THEN x ELSE old - Wrap(old, ty) + x
<1>1. RegPut(mc, reg, x) = [mc EXCEPT !.r[reg.name] = y]
  BY RegTypes DEF RegPut
<1>2. /\ old \in Words("i64") /\ old \in Int /\ RegGet(mc, reg) = Wrap(old, ty)
      /\ Wrap(old, ty) \in Int /\ ty \in Types /\ x \in Int
  BY RegWord, RegTypes, WordInt
<1>3. y = z
  BY <1>2, RegTypes
<1>4. z \in Words("i64")
  <2>1. Words(ty) \subseteq Words("i64")
    BY <1>2, WordWider, WidthOrder DEF Types, Sizes
  <2>2. old - Wrap(old, ty) + x \in Words("i64")
    BY <1>2, MaskJoins
  <2> QED
    BY <2>1, <2>2
<1>5. reg.name \in GprNames
  BY GprId DEF RegOK
<1> HIDE DEF y, z
<1>6. /\ [mc EXCEPT !.r[reg.name] = z] \in [r : [GprNames -> Words("i64")], m : Memories, rip : Words("i64")]
      /\ [mc EXCEPT !.r[reg.name] = z].m = mc.m
      /\ \A name \in GprNames :
           [mc EXCEPT !.r[reg.name] = z].r[name] = IF name # reg.name THEN mc.r[name] ELSE z
  BY <1>4, <1>5 DEF MachineOK
<1> QED
  BY <1>1, <1>3, <1>6 DEF MachineOK, z

\* The machine a register write is to show: the processor's if copies count.
After(o, before, now) == IF o.all THEN now ELSE before

Writes(d, o, s, mc) == \E t : Ran(d, o, t) /\ Lasts(t, s) /\ Shows(t, mc)

LEMMA DefineReg ==
  ASSUME NEW c, NEW o, NEW s, Ran(c, o, s), NEW mc, MachineOK(mc), Shows(s, mc), o.all,
         NEW reg, RegOK(reg), NEW x \in Words(typeOfReg(reg)),
         NEW y \in Int, y = RegPut(mc, reg, x).r[reg.name],
         NEW inst, Execute(s, inst) = SetV(s, RegId(reg), y)
  PROVE  Writes(pushInst(c, "copy", inst), o, s, RegPut(mc, reg, x))
<1> DEFINE id == RegId(reg)
           t == SetV(s, id, y)
           after == RegPut(mc, reg, x)
           d == pushInst(c, "copy", inst)
<1>1. /\ id \in 0 .. 15 /\ Gprs[id + 1] = reg.name /\ reg.name \in GprNames
      /\ \A j \in 0 .. 15 : j # id => Gprs[j + 1] # reg.name
  BY GprId DEF RegOK
<1>2. /\ MachineOK(after) /\ after.m = mc.m
      /\ \A name \in GprNames : name # reg.name => after.r[name] = mc.r[name]
  BY PutMachine
<1>3. y \in Words("i64")
  BY <1>1, <1>2 DEF MachineOK
<1>4. c.next \in Nat /\ c.next >= 20 /\ StateOK(s, c.next)
  BY DEF Ran
<1> HIDE DEF id, after, d
<1>5. id \in 0 .. c.next - 1
  BY <1>1, <1>4
<1> DEFINE n == c.next
<1> HIDE DEF n
<1>6. n \in Nat /\ n >= 20 /\ StateOK(s, n) /\ id \in 0 .. n - 1
  BY <1>4, <1>5 DEF n
<1>7. /\ StateOK(t, n) /\ t.m = s.m /\ id \in DOMAIN t.v /\ t.v[id] = y
      /\ \A j \in DOMAIN s.v : j \in DOMAIN t.v /\ (j # id => t.v[j] = s.v[j])
  BY <1>3, <1>6, DefineState
<1>8. t = IF o.all \/ "copy" = "block" THEN Execute(s, inst) ELSE s
  BY DEF id
<1> HIDE DEF t
<1>9. Ran(d, o, t)
  BY <1>7, <1>8, PushRan DEF n, d
<1>10. Lasts(t, s)
  BY <1>1, <1>7 DEF Lasts
<1>11. Shows(t, after)
  <2>1. \A j \in 0 .. 15 : s.v[j] = mc.r[Gprs[j + 1]] /\ j \in DOMAIN s.v
    BY <1>4 DEF Shows, SameRegisters, StateOK
  <2>2. \A j \in 0 .. 15 : Gprs[j + 1] \in GprNames
    BY DEF GprNames
  <2>3. ASSUME NEW j \in 0 .. 15 PROVE t.v[j] = after.r[Gprs[j + 1]]
    <3>1. CASE j = id
      <4>1. after.r[reg.name] = y
        BY DEF after
      <4> QED
        BY <1>1, <1>7, <3>1, <4>1
    <3>2. CASE j # id
      BY <1>1, <1>2, <1>7, <2>1, <2>2, <3>2
    <3> QED
      BY <3>1, <3>2
  <2> QED
    BY <1>2, <1>7, <2>3 DEF Shows, SameRegisters
<1> QED
  BY <1>9, <1>10, <1>11 DEF Writes, after, d

LEMMA WritesReads ==
  ASSUME NEW d, NEW o, NEW s, NEW t, NEW mc, Reads(t, s), Writes(d, o, t, mc)
  PROVE  Writes(d, o, s, mc)
BY ReadsLasts DEF Writes

\* Where copies do not count, what goes to them changes nothing.
LEMMA CopyRan ==
  ASSUME NEW c, NEW o, NEW s, Ran(c, o, s), ~o.all, NEW inst
  PROVE  Ran(pushInst(c, "copy", inst), o, s)
<1>1. StateOK(s, c.next)
  BY DEF Ran
<1>2. s = IF o.all \/ "copy" = "block" THEN Execute(s, inst) ELSE s
  OBVIOUS
<1> QED
  BY <1>1, <1>2, PushRan

LEMMA CopyInto ==
  ASSUME NEW c, NEW o, NEW s, Ran(c, o, s), ~o.all, NEW opcode, NEW ty, NEW operands
  PROVE  Ran(Into(c, "copy", opcode, ty, operands).c, o, s)
<1>1. Ran(allocVreg(c), o, s)
  BY AllocRan
<1>2. Ran(pushInst(allocVreg(c), "copy", Inst(opcode, {c.next}, ty, operands)), o, s)
  BY <1>1, CopyRan
<1> QED
  BY <1>2 DEF Into

\* Nothing is written to a register that is not tracked.
LEMMA WriteNone ==
  ASSUME NEW c, NEW reg, NEW v, gprVRegIds(reg) = {} PROVE writeReg(c, reg, v) = c
BY DEF writeReg

LEMMA WriteRegForm ==
  ASSUME NEW c, NEW reg, NEW v, RegOK(reg)
  PROVE  LET ty == typeOfReg(reg)
             To(f, opcode, operands) ==
               pushInst(f, "copy", Inst(opcode, {RegId(reg)}, "i64", operands))
             zext == Into(c, "copy", "ZEXT", "i64", <<v>>)
             masked == Into(c, "copy", "AND", "i64", <<gprVReg(reg), KeepMask(ty)>>)
             wide == Into(masked.c, "copy", "ZEXT", "i64", <<v>>)
         IN  /\ ty = "i64" => writeReg(c, reg, v) = To(c, "MOV", <<v>>)
             /\ ty = "i32" => writeReg(c, reg, v) = To(zext.c, "MOV", <<zext.v>>)
             /\ ty \notin {"i64", "i32"} =>
                  writeReg(c, reg, v) = To(wide.c, "OR", <<masked.v, wide.v>>)
<1>1. gprVRegIds(reg) # {}
  BY DEF RegOK
<1> QED
  BY <1>1 DEF writeReg, RegId

LEMMA WriteRegCopy ==
  ASSUME NEW c, NEW o, NEW s, Ran(c, o, s), ~o.all, NEW reg, RegOK(reg), NEW v
  PROVE  Ran(writeReg(c, reg, v), o, s)
<1> DEFINE ty == typeOfReg(reg)
           zext == Into(c, "copy", "ZEXT", "i64", <<v>>)
           masked == Into(c, "copy", "AND", "i64", <<gprVReg(reg), KeepMask(ty)>>)
           wide == Into(masked.c, "copy", "ZEXT", "i64", <<v>>)
<1>1. Ran(zext.c, o, s) /\ Ran(masked.c, o, s)
  BY CopyInto
<1>2. Ran(wide.c, o, s)
  <2> HIDE DEF masked
  <2> QED
    BY <1>1, CopyInto
<1>3. /\ ty = "i64" =>
           writeReg(c, reg, v) = pushInst(c, "copy", Inst("MOV", {RegId(reg)}, "i64", <<v>>))
      /\ ty = "i32" =>
           writeReg(c, reg, v) = pushInst(zext.c, "copy", Inst("MOV", {RegId(reg)}, "i64", <<zext.v>>))
      /\ ty \notin {"i64", "i32"} =>
           writeReg(c, reg, v)
             = pushInst(wide.c, "copy", Inst("OR", {RegId(reg)}, "i64", <<masked.v, wide.v>>))
  BY WriteRegForm
<1> HIDE DEF zext, wide, masked, ty
<1>4. CASE ty = "i64"
  BY <1>3, <1>4, CopyRan
<1>5. CASE ty = "i32"
  BY <1>1, <1>3, <1>5, CopyRan
<1>6. CASE ty \notin {"i64", "i32"}
  BY <1>2, <1>3, <1>6, CopyRan
<1> QED
  BY <1>4, <1>5, <1>6

LEMMA WriteReg ==
  ASSUME NEW c, NEW o, NEW s, Ran(c, o, s), NEW mc, MachineOK(mc), Shows(s, mc),
         NEW reg, RegOK(reg), NEW v, NEW x \in Words(typeOfReg(reg)), NEW from, Held(v, s, x, from)
  PROVE  Writes(writeReg(c, reg, v), o, s, After(o, mc, RegPut(mc, reg, x)))
<1> DEFINE ty == typeOfReg(reg)
           id == RegId(reg)
           after == RegPut(mc, reg, x)
           old == mc.r[reg.name]
           rest == old - Wrap(old, ty)
           zext == Into(c, "copy", "ZEXT", "i64", <<v>>)
           masked == Into(c, "copy", "AND", "i64", <<gprVReg(reg), KeepMask(ty)>>)
           wide == Into(masked.c, "copy", "ZEXT", "i64", <<v>>)
<1>1. CASE ~o.all
  <2>1. Ran(writeReg(c, reg, v), o, s)
    BY <1>1, WriteRegCopy
  <2> QED
    BY <1>1, <2>1, ReadsRefl DEF Writes, After
<1>2. CASE o.all
  <2>1. /\ ty = "i64" =>
             writeReg(c, reg, v) = pushInst(c, "copy", Inst("MOV", {id}, "i64", <<v>>))
        /\ ty = "i32" =>
             writeReg(c, reg, v) = pushInst(zext.c, "copy", Inst("MOV", {id}, "i64", <<zext.v>>))
        /\ ty \notin {"i64", "i32"} =>
             writeReg(c, reg, v)
               = pushInst(wide.c, "copy", Inst("OR", {id}, "i64", <<masked.v, wide.v>>))
    BY WriteRegForm
  <2>2. /\ ty \in Types /\ ty \in Sizes /\ Words(ty) \subseteq Words("i64") /\ x \in Int
        /\ x \in Words("i64") /\ Wrap(x, "i64") = x
    <3>1. ty \in Types /\ ty \in Sizes
      BY RegTypes
    <3>2. Words(ty) \subseteq Words("i64")
      BY <3>1, WordWider, WidthOrder DEF Types, Sizes
    <3>3. "i64" \in Types
      BY DEF Types, Sizes
    <3>4. x \in Int /\ x \in Words("i64")
      BY <3>1, <3>2, WordInt
    <3> QED
      BY <3>1, <3>2, <3>3, <3>4, WrapWord
  <2>3. /\ "MOV" \in Unaries /\ "ZEXT" \in Unaries
        /\ \A m, a, b : Un(m, "MOV", a, b, x) = Wrap(x, a) /\ Un(m, "ZEXT", a, b, x) = Wrap(x, a)
    BY DEF Unaries, Moving, Un
  <2>4. After(o, mc, after) = after
    BY <1>2 DEF After
  <2>5. /\ old \in Words("i64") /\ old \in Int
    BY RegWord
  <2>6. after.r[reg.name] = IF ty \in {"i64", "i32"} THEN x ELSE rest + x
    BY PutMachine, GprId DEF RegOK
  <2> HIDE DEF ty, id, after, old, zext, masked, wide
  <2>7. ASSUME NEW f, NEW t, Ran(f, o, t), Shows(t, mc), NEW w, NEW from2, Held(w, t, x, from2),
               ty \in {"i64", "i32"}
        PROVE  Writes(pushInst(f, "copy", Inst("MOV", {id}, "i64", <<w>>)), o, t, after)
    <3> DEFINE inst == Inst("MOV", {id}, "i64", <<w>>)
    <3>1. Execute(t, inst) = SetV(t, id, x)
      <4>1. Worth(t, w, x)
        BY <2>7 DEF Held, Worth
      <4>2. Execute(t, inst) = SetV(t, id, UnOf(t, "MOV", "i64", w, x))
        BY <2>3, <4>1, ExecuteUn
      <4>3. UnOf(t, "MOV", "i64", w, x) = x
        BY <2>2, <2>3 DEF UnOf
      <4> QED
        BY <4>2, <4>3
    <3> HIDE DEF inst
    <3> QED
      BY <1>2, <2>2, <2>6, <2>7, <3>1, DefineReg DEF id, after, ty, inst
  <2>8. CASE ty = "i64"
    BY <2>1, <2>4, <2>7, <2>8 DEF after
  <2>9. CASE ty = "i32"
    <3>1. Gives(zext, o, s, x, "i64")
      BY <1>2, <2>2, <2>3, IntoUn DEF zext
    <3>2. PICK t : Ran(zext.c, o, t) /\ Reads(t, s) /\ Held(zext.v, t, x, "i64")
      BY <3>1 DEF Gives
    <3>3. Shows(t, mc)
      BY <3>2, ReadsShows
    <3>4. Writes(pushInst(zext.c, "copy", Inst("MOV", {id}, "i64", <<zext.v>>)), o, t, after)
      BY <2>7, <2>9, <3>2, <3>3
    <3> QED
      BY <2>1, <2>4, <2>9, <3>2, <3>4, WritesReads DEF after
  <2>10. CASE ty \notin {"i64", "i32"}
    <3>1. Held(gprVReg(reg), s, old, "i64")
      <4>1. id \in 0 .. 15 /\ gprVReg(reg) = VReg(id, "i64") /\ Gprs[id + 1] = reg.name
        BY GprId DEF RegOK, id
      <4>2. s.v[id] = old /\ id \in DOMAIN s.v
        BY <4>1 DEF Shows, SameRegisters, Ran, StateOK, old
      <4> QED
        BY <2>5, <4>1, <4>2 DEF Held, VReg, Value
    <3>2. Held(KeepMask(ty), s, Wrap(-Pow2[Width(ty)], "i64"), "i64")
      <4>1. -Pow2[Width(ty)] \in Int
        BY <2>2, Widths, Pow2Nat
      <4> QED
        BY <4>1, ImmHeld DEF KeepMask, Types, Sizes
    <3>3. /\ rest \in Words("i64") /\ rest \in Int
          /\ Compute("AND", old, Wrap(-Pow2[Width(ty)], "i64"), "i64") = rest
          /\ rest + x \in Words("i64")
          /\ Compute("OR", rest, x, "i64") = rest + x
      <4>1. x \in Words(ty)
        BY DEF ty
      <4>2. /\ rest \in Words("i64")
            /\ Compute("AND", old, Wrap(-Pow2[Width(ty)], "i64"), "i64") = rest
        BY <2>2, <2>5, MaskKeeps
      <4>3. /\ rest + x \in Words("i64")
            /\ Compute("OR", rest, x, "i64") = rest + x
        BY <2>2, <2>5, <4>1, MaskJoins
      <4> QED
        BY <4>2, <4>3, WordInt DEF Types, Sizes
    <3> DEFINE sum == rest + x
    <3>4. sum \in Int
      BY <2>2, <3>3
    <3> HIDE DEF rest
    <3>5. Gives(masked, o, s, rest, "i64")
      <4>1. "AND" \in Binaries \cup Shifts \cup Dividing
        BY DEF Binaries
      <4> QED
        BY <1>2, <3>1, <3>2, <3>3, <4>1, IntoBin DEF masked
    <3>6. PICK t : Ran(masked.c, o, t) /\ Reads(t, s) /\ Held(masked.v, t, rest, "i64")
      BY <3>5 DEF Gives
    <3>7. Held(v, t, x, from)
      BY <3>6, ReadsHeld
    <3>8. Gives(wide, o, t, x, "i64")
      BY <1>2, <2>2, <2>3, <3>6, <3>7, IntoUn DEF wide
    <3>9. PICK u : Ran(wide.c, o, u) /\ Reads(u, t) /\ Held(wide.v, u, x, "i64")
      BY <3>8 DEF Gives
    <3>10. Held(masked.v, u, rest, "i64") /\ Reads(u, s) /\ Shows(u, mc)
      <4>1. Held(masked.v, u, rest, "i64")
        BY <3>6, <3>9, ReadsHeld
      <4>2. Reads(u, s)
        BY <3>6, <3>9, ReadsTrans
      <4> QED
        BY <4>1, <4>2, ReadsShows
    <3> DEFINE inst == Inst("OR", {id}, "i64", <<masked.v, wide.v>>)
    <3>11. Execute(u, inst) = SetV(u, id, sum)
      <4>1. Worth(u, masked.v, rest) /\ Worth(u, wide.v, x)
        BY <3>9, <3>10 DEF Held, Worth
      <4>2. "OR" \in Binaries \cup Shifts \cup Dividing
        BY DEF Binaries
      <4>3. Execute(u, inst) = SetV(u, id, Compute("OR", rest, x, "i64"))
        BY <4>1, <4>2, ExecuteBin
      <4> QED
        BY <3>3, <4>3
    <3>12. sum = after.r[reg.name]
      BY <2>6, <2>10
    <3> HIDE DEF inst, sum
    <3>13. Writes(pushInst(wide.c, "copy", inst), o, u, after)
      BY <1>2, <3>4, <3>9, <3>10, <3>11, <3>12, DefineReg DEF id, after
    <3> QED
      BY <2>1, <2>4, <2>10, <3>10, <3>13, WritesReads DEF after, inst
  <2> QED
    BY <2>8, <2>9, <2>10
<1> QED
  BY <1>1, <1>2

(***************************************************************************)
(* Addresses.                                                              *)
(***************************************************************************)

BaseOK(reg) == reg = NoReg \/ (RegOK(reg) /\ reg.part \in {"q", "d"})
MemOK(op) ==
  /\ op.kind = "mem" /\ BaseOK(op.base) /\ BaseOK(op.index)
  /\ op.scale \in {1, 2, 4, 8} /\ op.disp \in Int /\ op.ty \in Sizes

\* What the lifter reads of the operand is in the log.
Fits(o, op) == o.all \/ \A reg \in RegsOf(op) : typeOfReg(reg) = "i64"

LEMMA NotTracked == gprVRegIds(NoReg) = {} /\ gprVRegIds(RIP) = {}
<1>1. \A j \in 0 .. 15 : Gprs[j + 1] # "NONE" /\ Gprs[j + 1] # "RIP"
  BY DEF Gprs
<1> QED
  BY <1>1 DEF gprVRegIds, canonicalReg, NoReg, RIP

\* What a register adds to an address.
Part(mc, reg) == IF reg = NoReg THEN 0 ELSE RegGet(mc, reg)

LEMMA PartWord ==
  ASSUME NEW mc, MachineOK(mc), NEW reg, BaseOK(reg)
  PROVE  Part(mc, reg) \in Words("i64") /\ Part(mc, reg) \in Int
<1>1. CASE reg = NoReg
  BY <1>1, WordInt DEF Part, Types, Sizes
<1>2. CASE reg # NoReg
  <2>1. RegOK(reg) /\ Part(mc, reg) = RegGet(mc, reg)
    BY <1>2 DEF BaseOK, Part
  <2>2. RegGet(mc, reg) \in Words(typeOfReg(reg)) /\ RegGet(mc, reg) \in Int
    BY <2>1, RegWord
  <2>3. typeOfReg(reg) \in Types /\ Width(typeOfReg(reg)) <= Width("i64") /\ "i64" \in Types
    BY <2>1, RegTypes, WidthOrder DEF Types, Sizes
  <2>4. Words(typeOfReg(reg)) \subseteq Words("i64")
    BY <2>3, WordWider
  <2> QED
    BY <2>1, <2>2, <2>4
<1> QED
  BY <1>1, <1>2

LEMMA SumParts ==
  ASSUME NEW mc, MachineOK(mc), NEW op, MemOK(op)
  PROVE  /\ AddressSum(mc, op) = Part(mc, op.base) + Part(mc, op.index) * op.scale + op.disp
         /\ Part(mc, op.base) \in Int /\ Part(mc, op.index) * op.scale \in Int
         /\ AddressSum(mc, op) \in Int
<1>1. Part(mc, op.base) \in Int /\ Part(mc, op.index) \in Int
  BY PartWord DEF MemOK
<1>2. op.base # RIP
  <2>1. NoReg # RIP
    BY DEF NoReg, RIP
  <2> QED
    BY <2>1, NotTracked DEF MemOK, BaseOK, RegOK
<1>3. Part(mc, op.index) * op.scale = IF op.index = NoReg THEN 0 ELSE RegGet(mc, op.index) * op.scale
  <2>1. 0 * op.scale = 0
    BY DEF MemOK
  <2> QED
    BY <2>1 DEF Part
<1>4. Part(mc, op.index) * op.scale \in Int /\ op.disp \in Int
  BY <1>1 DEF MemOK
<1>5. AddressSum(mc, op) = Part(mc, op.base) + Part(mc, op.index) * op.scale + op.disp
  BY <1>2, <1>3 DEF AddressSum, Part
<1> QED
  BY <1>1, <1>4, <1>5

\* r gives a number congruent to x.
GivesMod(r, o, s, x) ==
  \E w, ty : w \in Int /\ Gives(r, o, s, w, ty) /\ Wrap(w, "i64") = Wrap(x, "i64")

LEMMA BaseMod ==
  ASSUME NEW c, NEW o, NEW s, Ran(c, o, s), NEW mc, MachineOK(mc), Shows(s, mc),
         NEW op, MemOK(op), Fits(o, op)
  PROVE  GivesMod(BaseOf(c, op), o, s, Part(mc, op.base))
<1>1. CASE op.base = NoReg
  <2>1. BaseOf(c, op) = [c |-> c, v |-> Imm(0, "i64")]
    BY <1>1 DEF BaseOf
  <2>2. Gives(BaseOf(c, op), o, s, Wrap(0, "i64"), "i64")
    <3>1. 0 \in Int /\ "i64" \in Types
      BY DEF Types, Sizes
    <3>2. Gives([c |-> c, v |-> Imm(0, "i64")], o, s, Wrap(0, "i64"), "i64")
      BY <3>1, ImmGives
    <3> QED
      BY <2>1, <3>2
  <2>3. Wrap(0, "i64") \in Int /\ Wrap(Wrap(0, "i64"), "i64") = Wrap(0, "i64")
    BY WrapWord DEF Types, Sizes
  <2> QED
    BY <1>1, <2>2, <2>3 DEF GivesMod, Part
<1>2. CASE op.base # NoReg
  <2>1. RegOK(op.base) /\ op.base # RIP
    BY <1>2, NotTracked DEF MemOK, BaseOK, RegOK
  <2>2. BaseOf(c, op) = readReg(c, op.base)
    BY <1>2, <2>1 DEF BaseOf
  <2>3. o.all \/ typeOfReg(op.base) = "i64"
    BY <1>2 DEF Fits, RegsOf, MemOK
  <2>4. Gives(readReg(c, op.base), o, s, RegGet(mc, op.base), typeOfReg(op.base))
    BY <2>1, <2>3, ReadReg
  <2>5. RegGet(mc, op.base) \in Int
    BY <2>1, RegWord
  <2> QED
    BY <1>2, <2>2, <2>4, <2>5 DEF GivesMod, Part
<1> QED
  BY <1>1, <1>2

LEMMA IndexMod ==
  ASSUME NEW c, NEW r, NEW o, NEW s, Ran(c, o, s), NEW mc, MachineOK(mc), Shows(s, mc),
         NEW op, MemOK(op), Fits(o, op), NEW x \in Int, GivesMod(r, o, s, x)
  PROVE  GivesMod(WithIndex(r, op), o, s, x + Part(mc, op.index) * op.scale)
<1>1. CASE op.index = NoReg
  <2>1. x + Part(mc, op.index) * op.scale = x
    BY <1>1 DEF Part, MemOK
  <2>2. WithIndex(r, op) = r
    BY <1>1 DEF WithIndex
  <2> QED
    BY <2>1, <2>2
<1>2. CASE op.index # NoReg
  <2> DEFINE idx == readReg(r.c, op.index)
             i == RegGet(mc, op.index)
             n == op.scale
             scaled == IF n > 1 THEN Into(idx.c, "block", "MUL", "i64", <<idx.v, Imm(n, "i64")>>)
                                ELSE idx
             out == Into(scaled.c, "block", "ADD", "i64", <<r.v, scaled.v>>)
  <2>1. RegOK(op.index) /\ n \in {1, 2, 4, 8} /\ n \in Int /\ "i64" \in Types
    BY <1>2 DEF MemOK, BaseOK, Types, Sizes
  <2>2. WithIndex(r, op) = out
    BY <1>2 DEF WithIndex
  <2>3. PICK w, ty : w \in Int /\ Gives(r, o, s, w, ty) /\ Wrap(w, "i64") = Wrap(x, "i64")
    BY DEF GivesMod
  <2>4. PICK t : Ran(r.c, o, t) /\ Reads(t, s) /\ Held(r.v, t, w, ty)
    BY <2>3 DEF Gives
  <2>5. o.all \/ typeOfReg(op.index) = "i64"
    BY <1>2 DEF Fits, RegsOf, MemOK
  <2>6. i \in Int /\ Part(mc, op.index) = i
    BY <1>2, <2>1, RegWord DEF Part
  <2>7. Gives(idx, o, t, i, typeOfReg(op.index))
    <3>1. Ran(r.c, o, t)
      BY <2>4
    <3>3. Shows(t, mc)
      BY <2>4, ReadsShows
    <3> QED
      BY <2>1, <2>5, <3>1, <3>3, ReadReg
  <2> HIDE DEF idx, i, n
  <2>8. GivesMod(scaled, o, t, i * n) /\ i * n \in Int
    <3>1. i * n \in Int
      BY <2>1, <2>6
    <3>2. CASE n > 1
      <4>1. PICK u : Ran(idx.c, o, u) /\ Reads(u, t) /\ Held(idx.v, u, i, typeOfReg(op.index))
        BY <2>7 DEF Gives
      <4>2. Held(Imm(n, "i64"), u, Wrap(n, "i64"), "i64")
        BY <2>1, ImmHeld
      <4>3. Compute("MUL", i, Wrap(n, "i64"), "i64") = Wrap(i * n, "i64")
        BY <2>1, <2>6, WrapOps DEF Compute
      <4>4. Wrap(i * n, "i64") \in Int /\ Wrap(Wrap(i * n, "i64"), "i64") = Wrap(i * n, "i64")
        BY <2>1, <3>1, WrapWord
      <4>5. "MUL" \in Binaries \cup Shifts \cup Dividing
        BY DEF Binaries
      <4>6. Gives(scaled, o, u, Wrap(i * n, "i64"), "i64")
        BY <3>2, <4>1, <4>2, <4>3, <4>4, <4>5, IntoBin
      <4>7. Gives(scaled, o, t, Wrap(i * n, "i64"), "i64")
        BY <4>1, <4>6, GivesReads
      <4> QED
        BY <3>1, <4>4, <4>7 DEF GivesMod
    <3>3. CASE ~(n > 1)
      <4>1. n = 1 /\ i * n = i /\ scaled = idx
        BY <2>1, <2>6, <3>3
      <4> QED
        BY <2>6, <2>7, <4>1 DEF GivesMod
    <3> QED
      BY <3>2, <3>3
  <2> HIDE DEF scaled
  <2>9. PICK k, from : k \in Int /\ Gives(scaled, o, t, k, from) /\ Wrap(k, "i64") = Wrap(i * n, "i64")
    BY <2>8 DEF GivesMod
  <2>10. PICK u : Ran(scaled.c, o, u) /\ Reads(u, t) /\ Held(scaled.v, u, k, from)
    BY <2>9 DEF Gives
  <2>18. w \in Int /\ k \in Int
    BY <2>3, <2>9
  <2>11. Held(r.v, u, w, ty)
    BY <2>4, <2>10, ReadsHeld
  <2>12. Wrap(w + k, "i64") \in Int /\ Wrap(w + k, "i64") = Compute("ADD", w, k, "i64")
    <3>1. w + k \in Int
      BY <2>18
    <3> QED
      BY <2>1, <3>1, WrapWord DEF Compute
  <2>13. Gives(out, o, u, Wrap(w + k, "i64"), "i64")
    <3>1. "ADD" \in Binaries \cup Shifts \cup Dividing
      BY DEF Binaries
    <3> QED
      BY <2>10, <2>11, <2>12, <3>1, IntoBin
  <2>14. Gives(out, o, s, Wrap(w + k, "i64"), "i64")
    <3>1. Reads(u, s)
      BY <2>4, <2>10, ReadsTrans
    <3> QED
      BY <2>13, <3>1, GivesReads
  <2>15. Wrap(Wrap(w + k, "i64"), "i64") = Wrap(x + i * n, "i64")
    <3> DEFINE j == i * n
    <3>0. j \in Int
      BY <2>8
    <3> HIDE DEF j
    <3>1. Wrap(Wrap(w + k, "i64"), "i64") = Wrap(w + k, "i64")
      <4>1. w + k \in Int
        BY <2>18
      <4> QED
        BY <2>1, <4>1, WrapWord
    <3>2. Wrap(Wrap(w, "i64") + k, "i64") = Wrap(w + k, "i64")
      BY <2>1, <2>18, WrapOps
    <3>3. Wrap(Wrap(x, "i64") + k, "i64") = Wrap(x + k, "i64")
      BY <2>1, <2>18, WrapOps
    <3>4. Wrap(x + Wrap(k, "i64"), "i64") = Wrap(x + k, "i64")
      BY <2>1, <2>18, WrapOps
    <3>5. Wrap(x + Wrap(j, "i64"), "i64") = Wrap(x + j, "i64")
      BY <2>1, <3>0, WrapOps
    <3>6. Wrap(k, "i64") = Wrap(j, "i64")
      BY <2>9 DEF j
    <3>7. Wrap(w + k, "i64") = Wrap(x + j, "i64")
      BY <2>3, <3>2, <3>3, <3>4, <3>5, <3>6
    <3> QED
      BY <3>1, <3>7 DEF j
  <2>16. Wrap(w + k, "i64") \in Int
    BY <2>12
  <2>17. x + Part(mc, op.index) * op.scale = x + i * n
    BY <2>6 DEF n
  <2> QED
    BY <2>2, <2>14, <2>15, <2>16, <2>17 DEF GivesMod
<1> QED
  BY <1>1, <1>2

LEMMA DispMod ==
  ASSUME NEW r, NEW o, NEW s, NEW op, MemOK(op), NEW x \in Int, GivesMod(r, o, s, x)
  PROVE  GivesMod(WithDisp(r, op), o, s, x + op.disp)
<1> DEFINE n == op.disp
           out == Into(r.c, "block", "ADD", "i64", <<r.v, Imm(n, "i64")>>)
<1>1. n \in Int /\ "i64" \in Types
  BY DEF MemOK, Types, Sizes
<1>2. WithDisp(r, op) = IF n = 0 THEN r ELSE out
  BY DEF WithDisp
<1> HIDE DEF n
<1>3. CASE n = 0
  <2>1. x + n = x
    BY <1>3
  <2> QED
    BY <1>2, <1>3, <2>1 DEF n
<1>4. CASE n # 0
  <2>1. PICK w, ty : w \in Int /\ Gives(r, o, s, w, ty) /\ Wrap(w, "i64") = Wrap(x, "i64")
    BY DEF GivesMod
  <2>9. w \in Int
    BY <2>1
  <2>2. PICK t : Ran(r.c, o, t) /\ Reads(t, s) /\ Held(r.v, t, w, ty)
    BY <2>1 DEF Gives
  <2>3. Held(Imm(n, "i64"), t, Wrap(n, "i64"), "i64")
    BY <1>1, ImmHeld
  <2>4. Compute("ADD", w, Wrap(n, "i64"), "i64") = Wrap(w + n, "i64")
    BY <1>1, <2>9, WrapOps DEF Compute
  <2>5. Wrap(w + n, "i64") \in Int /\ Wrap(Wrap(w + n, "i64"), "i64") = Wrap(w + n, "i64")
    <3>1. w + n \in Int
      BY <1>1, <2>9
    <3> QED
      BY <1>1, <3>1, WrapWord
  <2>6. Gives(out, o, t, Wrap(w + n, "i64"), "i64")
    <3>1. "ADD" \in Binaries \cup Shifts \cup Dividing
      BY DEF Binaries
    <3> QED
      BY <2>2, <2>3, <2>4, <2>5, <3>1, IntoBin
  <2>7. Gives(out, o, s, Wrap(w + n, "i64"), "i64")
    BY <2>2, <2>6, GivesReads
  <2>8. Wrap(w + n, "i64") = Wrap(x + n, "i64")
    <3>1. Wrap(Wrap(w, "i64") + n, "i64") = Wrap(w + n, "i64")
      BY <1>1, <2>9, WrapOps
    <3>2. Wrap(Wrap(x, "i64") + n, "i64") = Wrap(x + n, "i64")
      BY <1>1, WrapOps
    <3> QED
      BY <2>1, <3>1, <3>2
  <2> QED
    BY <1>2, <1>4, <2>5, <2>7, <2>8 DEF GivesMod, n
<1> QED
  BY <1>3, <1>4

\* computeAddr computes the sum of the address, modulo 2^64.
LEMMA AddrGives ==
  ASSUME NEW c, NEW o, NEW s, Ran(c, o, s), NEW mc, MachineOK(mc), Shows(s, mc),
         NEW op, MemOK(op), Fits(o, op)
  PROVE  Gives(computeAddr(c, op), o, s, Wrap(AddressSum(mc, op), "ptr"), "ptr")
<1> DEFINE b == BaseOf(c, op)
           i == WithIndex(b, op)
           d == WithDisp(i, op)
           pb == Part(mc, op.base)
           pi == Part(mc, op.index) * op.scale
           sum == AddressSum(mc, op)
<1>1. sum = pb + pi + op.disp /\ pb \in Int /\ pi \in Int /\ sum \in Int
  BY SumParts
<1>2. GivesMod(b, o, s, pb)
  BY BaseMod
<1>3. GivesMod(i, o, s, pb + pi)
  <2> HIDE DEF b
  <2> QED
    BY <1>1, <1>2, IndexMod
<1>4. pb + pi \in Int
  BY <1>1
<1> HIDE DEF pb, pi, sum, i
<1> DEFINE x == pb + pi
<1>5. x \in Int /\ GivesMod(i, o, s, x)
  BY <1>3, <1>4
<1> HIDE DEF x
<1>6. GivesMod(d, o, s, x + op.disp)
  BY <1>5, DispMod
<1>7. x + op.disp = sum
  BY <1>1 DEF x
<1> HIDE DEF d
<1>8. PICK w, ty : w \in Int /\ Gives(d, o, s, w, ty) /\ Wrap(w, "i64") = Wrap(sum, "i64")
  BY <1>6, <1>7 DEF GivesMod
<1>9. Wrap(sum, "ptr") = Wrap(w, "ptr") /\ Wrap(w, "ptr") \in Int
  BY <1>8, WrapPtr, WrapWord DEF Types
<1>10. "INTTOPTR" \in Unaries /\ Un(s.m, "INTTOPTR", "ptr", ty, w) = Wrap(w, "ptr")
  BY DEF Unaries, Moving, Un
<1>11. Gives(Then(d, "block", "INTTOPTR", "ptr"), o, s, Wrap(w, "ptr"), "ptr")
  BY <1>8, <1>9, <1>10, ThenUn
<1>12. computeAddr(c, op) = Then(d, "block", "INTTOPTR", "ptr")
  BY DEF computeAddr, d, i, b
<1> QED
  BY <1>9, <1>11, <1>12 DEF sum

(***************************************************************************)
(* Operands.                                                               *)
(***************************************************************************)

OpOK(op) == (op.kind = "reg" /\ RegOK(op.reg)) \/ IsImm(op) \/ MemOK(op)
AddrExact(mc, op) ==
  op.kind = "mem" /\ AddressType(op) = "i32" => AddressSum(mc, op) = Address(mc, op)

\* What the lifter reads of an operand, and its type.
Fetched(mc, op, hint) ==
  CASE op.kind = "reg" -> RegGet(mc, op.reg)
    [] op.kind = "imm" -> Wrap(op.value, hint)
    [] op.kind = "mem" -> LoadFrom(mc.m, Wrap(AddressSum(mc, op), "ptr"), hint)
FetchType(op, hint) == IF op.kind = "reg" THEN typeOfReg(op.reg) ELSE hint

LEMMA OpKinds ==
  ASSUME NEW op, OpOK(op)
  PROVE  /\ op.kind \in {"reg", "imm", "mem"}
         /\ op.kind = "reg" => RegOK(op.reg)
         /\ op.kind = "imm" => op.value \in Int /\ op.ty \in Sizes
         /\ op.kind = "mem" => MemOK(op)
         /\ OperandType(op) \in Sizes /\ OperandType(op) \in Types
         /\ \A hint : FetchType(op, hint) = IF op.kind = "reg" THEN OperandType(op) ELSE hint
<1>1. /\ op.kind \in {"reg", "imm", "mem"}
      /\ op.kind = "reg" => RegOK(op.reg)
      /\ op.kind = "imm" => op.value \in Int /\ op.ty \in Sizes
      /\ op.kind = "mem" => MemOK(op)
  BY DEF OpOK, IsImm, MemOK
<1>2. OperandType(op) \in Sizes
  BY <1>1, RegTypes DEF OperandType, MemOK
<1> QED
  BY <1>1, <1>2 DEF Types, FetchType, OperandType

LEMMA FetchedWord ==
  ASSUME NEW mc, MachineOK(mc), NEW op, OpOK(op), NEW hint \in Types
  PROVE  /\ FetchType(op, hint) \in Types
         /\ Fetched(mc, op, hint) \in Words(FetchType(op, hint))
         /\ Fetched(mc, op, hint) \in Int
<1>1. FetchType(op, hint) \in Types
  BY OpKinds DEF FetchType
<1>2. CASE op.kind = "reg"
  BY <1>2, OpKinds, RegWord DEF Fetched, FetchType
<1>3. CASE op.kind = "imm"
  BY <1>3, OpKinds, WrapWord DEF Fetched, FetchType
<1>4. CASE op.kind = "mem"
  <2> DEFINE a == Wrap(AddressSum(mc, op), "ptr")
  <2>1. a \in Int
    BY <1>4, OpKinds, SumParts, WrapWord DEF Types
  <2>2. mc.m \in Memories
    BY DEF MachineOK
  <2>3. LoadFrom(mc.m, a, hint) \in Words(hint)
    <3> HIDE DEF a
    <3> QED
      BY <2>1, <2>2, LoadWord
  <2>4. Fetched(mc, op, hint) = LoadFrom(mc.m, a, hint) /\ FetchType(op, hint) = hint
    BY <1>4 DEF Fetched, FetchType
  <2> QED
    BY <1>1, <2>3, <2>4, WordInt
<1> QED
  BY <1>1, <1>2, <1>3, <1>4, OpKinds

LEMMA ReadOp ==
  ASSUME NEW c, NEW o, NEW s, Ran(c, o, s), NEW mc, MachineOK(mc), Shows(s, mc),
         NEW op, OpOK(op), Fits(o, op), NEW hint \in Types
  PROVE  Gives(readOperand(c, op, hint), o, s, Fetched(mc, op, hint), FetchType(op, hint))
<1>1. CASE op.kind = "reg"
  <2>1. readOperand(c, op, hint) = readReg(c, op.reg)
    BY <1>1 DEF readOperand
  <2>2. RegOK(op.reg)
    BY <1>1, OpKinds
  <2>3. op.reg # NoReg
    BY <2>2, NotTracked DEF RegOK
  <2>4. o.all \/ typeOfReg(op.reg) = "i64"
    BY <1>1, <2>3 DEF Fits, RegsOf
  <2>5. Gives(readReg(c, op.reg), o, s, RegGet(mc, op.reg), typeOfReg(op.reg))
    BY <2>2, <2>4, ReadReg
  <2> QED
    BY <1>1, <2>1, <2>5 DEF Fetched, FetchType
<1>2. CASE op.kind = "imm"
  <2>1. readOperand(c, op, hint) = [c |-> c, v |-> Imm(op.value, hint)]
    BY <1>2 DEF readOperand
  <2>2. op.value \in Int
    BY <1>2, OpKinds
  <2>3. Gives([c |-> c, v |-> Imm(op.value, hint)], o, s, Wrap(op.value, hint), hint)
    BY <2>2, ImmGives
  <2> QED
    BY <1>2, <2>1, <2>3 DEF Fetched, FetchType
<1>3. CASE op.kind = "mem"
  <2> DEFINE a == Wrap(AddressSum(mc, op), "ptr")
             r == computeAddr(c, op)
  <2>1. readOperand(c, op, hint) = Then(r, "block", "LOAD", hint)
    BY <1>3 DEF readOperand
  <2>2. Gives(r, o, s, a, "ptr")
    BY <1>3, OpKinds, AddrGives
  <2>3. Fetched(mc, op, hint) \in Int
    BY FetchedWord
  <2>4. Fetched(mc, op, hint) = Un(s.m, "LOAD", hint, "ptr", a) /\ "LOAD" \in Unaries
    BY <1>3 DEF Fetched, Un, Shows, Unaries
  <2>5. FetchType(op, hint) = hint
    BY <1>3 DEF FetchType
  <2> HIDE DEF a, r
  <2>6. Gives(Then(r, "block", "LOAD", hint), o, s, Fetched(mc, op, hint), hint)
    BY <2>2, <2>3, <2>4, ThenUn
  <2> QED
    BY <2>1, <2>5, <2>6
<1> QED
  BY <1>1, <1>2, <1>3, OpKinds

\* The address the lifter computes is the processor's.
LEMMA AddrRight ==
  ASSUME NEW mc, MachineOK(mc), NEW op, MemOK(op), AddrExact(mc, op)
  PROVE  Wrap(AddressSum(mc, op), "ptr") = Address(mc, op)
<1>1. AddressSum(mc, op) \in Int /\ op.kind = "mem"
  BY SumParts DEF MemOK
<1>2. CASE AddressType(op) = "i32"
  <2>1. AddressSum(mc, op) = Wrap(AddressSum(mc, op), "i32")
    BY <1>1, <1>2 DEF AddrExact, Address
  <2>2. Wrap(AddressSum(mc, op), "i32") \in Words("i32")
    BY <1>1, WrapWord DEF Types, Sizes
  <2>3. Words("i32") \subseteq Words("i64")
    BY WordWider, WidthOrder DEF Types, Sizes
  <2>4. AddressSum(mc, op) \in Words("ptr")
    BY <2>1, <2>2, <2>3, WrapPtr
  <2>5. Wrap(AddressSum(mc, op), "ptr") = AddressSum(mc, op)
    BY <1>1, <2>4, WrapWord DEF Types
  <2> QED
    BY <1>2, <2>1, <2>5 DEF Address
<1>3. CASE AddressType(op) # "i32"
  <2>1. AddressType(op) = "ptr"
    BY <1>3 DEF AddressType
  <2> QED
    BY <2>1 DEF Address
<1> QED
  BY <1>2, <1>3

\* What the lifter reads is what the processor reads.
LEMMA FetchedRight ==
  ASSUME NEW mc, MachineOK(mc), NEW op, OpOK(op), AddrExact(mc, op), NEW ty,
         op.kind = "mem" => op.ty = ty
  PROVE  Fetched(mc, op, ty) = Get(mc, op, ty)
<1>1. CASE op.kind \in {"reg", "imm"}
  BY <1>1 DEF Fetched, Get
<1>2. CASE op.kind = "mem"
  BY <1>2, OpKinds, AddrRight DEF Fetched, Get
<1> QED
  BY <1>1, <1>2, OpKinds

(***************************************************************************)
(* Writing an operand.                                                     *)
(***************************************************************************)

Keeps(t, s) == \A id \in DOMAIN s.v : id \in DOMAIN t.v /\ t.v[id] = s.v[id]

\* The machine a write is to show.
PutAfter(o, mc, op, x) == IF op.kind = "mem" \/ o.all THEN Put(mc, op, x) ELSE mc

Stored(d, o, s, mc, op) ==
  \E t : /\ Ran(d, o, t) /\ Shows(t, mc)
         /\ IF op.kind = "mem" THEN Keeps(t, s) ELSE Lasts(t, s)

LEMMA KeepsHeld ==
  ASSUME NEW s, NEW t, Keeps(t, s), NEW v, NEW x, NEW ty, Held(v, s, x, ty)
  PROVE  Held(v, t, x, ty)
<1>1. CASE v.kind = "vreg"
  <2>1. v.id \in DOMAIN s.v
    BY <1>1 DEF Held, Value
  <2>2. Value(t, v) = Value(s, v)
    BY <1>1, <2>1 DEF Keeps, Value
  <2> QED
    BY <2>2 DEF Held
<1>2. CASE v.kind # "vreg"
  BY <1>2 DEF Held, Value
<1> QED
  BY <1>1, <1>2

LEMMA PutOK ==
  ASSUME NEW mc, MachineOK(mc), NEW op, OpOK(op), op.kind # "imm", NEW x \in Int,
         op.kind = "reg" => x \in Words(typeOfReg(op.reg))
  PROVE  MachineOK(Put(mc, op, x)) /\ (op.kind = "reg" => Put(mc, op, x).m = mc.m)
<1>1. CASE op.kind = "reg"
  BY <1>1, OpKinds, PutMachine DEF Put
<1>2. CASE op.kind = "mem"
  <2> DEFINE m == StoreTo(mc.m, Address(mc, op), op.ty, x)
  <2>1. Put(mc, op, x) = [mc EXCEPT !.m = m]
    BY <1>2 DEF Put
  <2>2. Address(mc, op) \in Int /\ op.ty \in Types
    <3>1. AddressSum(mc, op) \in Int
      BY <1>2, OpKinds, SumParts
    <3>2. AddressType(op) \in Types
      BY DEF AddressType, Types, Sizes
    <3> QED
      BY <1>2, <3>1, <3>2, OpKinds, WrapWord DEF Address, MemOK, Types
  <2>3. mc.m \in Memories
    BY DEF MachineOK
  <2>4. m \in Memories
    BY <2>2, <2>3, StoreTyped
  <2> HIDE DEF m
  <2> QED
    BY <1>2, <2>1, <2>4 DEF MachineOK
<1> QED
  BY <1>1, <1>2, OpKinds

LEMMA WriteOp ==
  ASSUME NEW c, NEW o, NEW s, Ran(c, o, s), NEW mc, MachineOK(mc), Shows(s, mc),
         NEW op, OpOK(op), op.kind # "imm", Fits(o, op), AddrExact(mc, op),
         NEW v, NEW x \in Int, NEW ty, Held(v, s, x, ty),
         op.kind = "reg" => x \in Words(typeOfReg(op.reg)),
         op.kind = "mem" => ty = op.ty
  PROVE  Stored(writeOperand(c, op, v), o, s, PutAfter(o, mc, op, x), op)
<1>1. CASE op.kind = "reg"
  <2>1. writeOperand(c, op, v) = writeReg(c, op.reg, v)
    BY <1>1 DEF writeOperand
  <2>2. RegOK(op.reg)
    BY <1>1, OpKinds
  <2>3. x \in Words(typeOfReg(op.reg))
    BY <1>1
  <2>4. Writes(writeReg(c, op.reg, v), o, s, After(o, mc, RegPut(mc, op.reg, x)))
    BY <2>2, <2>3, WriteReg
  <2>5. PutAfter(o, mc, op, x) = After(o, mc, RegPut(mc, op.reg, x))
    BY <1>1 DEF PutAfter, Put, After
  <2> QED
    BY <1>1, <2>1, <2>4, <2>5 DEF Writes, Stored
<1>2. CASE op.kind = "mem"
  <2> DEFINE ptr == computeAddr(c, op)
             a == Address(mc, op)
             m == StoreTo(mc.m, a, op.ty, x)
             inst == Store(v, ptr.v)
  <2>1. writeOperand(c, op, v) = pushInst(ptr.c, "block", inst)
    BY <1>2 DEF writeOperand
  <2>2. Gives(ptr, o, s, a, "ptr")
    BY <1>2, OpKinds, AddrGives, AddrRight
  <2>3. PICK t : Ran(ptr.c, o, t) /\ Reads(t, s) /\ Held(ptr.v, t, a, "ptr")
    BY <2>2 DEF Gives
  <2>4. Held(v, t, x, ty) /\ Shows(t, mc)
    BY <2>3, ReadsHeld, ReadsShows
  <2> DEFINE u == StoreOf(t, a, v, x)
  <2>5. Execute(t, inst) = u
    <3>1. Worth(t, v, x) /\ Worth(t, ptr.v, a)
      BY <2>3, <2>4 DEF Held, Worth
    <3> HIDE DEF ptr, a
    <3> QED
      BY <3>1, ExecuteStore
  <2>6. u = [t EXCEPT !.m = m]
    <3>1. v.ty = op.ty /\ t.m = mc.m
      BY <1>2, <2>4 DEF Held, Shows
    <3> QED
      BY <3>1 DEF StoreOf
  <2>7. MachineOK(Put(mc, op, x)) /\ Put(mc, op, x) = [mc EXCEPT !.m = m]
    BY <1>2, PutOK DEF Put
  <2>8. m \in Memories
    <3> HIDE DEF m
    <3>1. [mc EXCEPT !.m = m].m = m
      BY DEF MachineOK
    <3> QED
      BY <2>7, <3>1 DEF MachineOK
  <2> HIDE DEF ptr, inst, a, m, u
  <2>9. StateOK(u, ptr.c.next) /\ u.v = t.v /\ u.m = m
    <3>1. PICK D : /\ t \in [v : [D -> Int], m : Memories]
                   /\ 0 .. 15 \subseteq D /\ D \subseteq 0 .. ptr.c.next - 1
      BY <2>3 DEF Ran, StateOK
    <3>2. u \in [v : [D -> Int], m : Memories] /\ u.v = t.v /\ u.m = m
      BY <2>6, <2>8, <3>1
    <3>3. \A id \in 0 .. 15 : t.v[id] \in Words("i64")
      BY <2>3 DEF Ran, StateOK
    <3> QED
      BY <3>1, <3>2, <3>3 DEF StateOK
  <2>10. u = IF o.all \/ "block" = "block" THEN Execute(t, inst) ELSE t
    BY <2>5
  <2>11. Ran(pushInst(ptr.c, "block", inst), o, u)
    BY <2>3, <2>9, <2>10, PushRan
  <2>12. Keeps(u, s)
    BY <2>3, <2>9 DEF Reads, Keeps
  <2>13. Shows(u, Put(mc, op, x))
    <3>1. Put(mc, op, x).m = m /\ Put(mc, op, x).r = mc.r
      BY <2>7 DEF MachineOK
    <3> QED
      BY <2>4, <2>9, <3>1 DEF Shows, SameRegisters
  <2> QED
    BY <1>2, <2>1, <2>11, <2>12, <2>13 DEF Stored, PutAfter
<1> QED
  BY <1>1, <1>2, OpKinds

(***************************************************************************)
(* An instruction that is ready to be lifted, and lifted right.             *)
(***************************************************************************)

Ready(c, o, s, mc, i) ==
  /\ Ran(c, o, s) /\ MachineOK(mc) /\ Shows(s, mc)
  /\ Covered(mc, i) /\ Decoded(i) /\ i.ops \in Seq(OperandsOf(i))
  /\ o.all \/ AllWide(i)

Overwritten(i) ==
  /\ OperandType(i.ops[1]) = "i64" /\ i.mn \notin {"CMP", "TEST"}
  /\ i.ops[1].kind = "reg" \/ i.mn = "IMUL"

\* The record has the processor's values.
RecordRight(f, t, mc, i) ==
  i.mn \in Arithmetics /\ ~Overwritten(i) =>
    /\ f.valid /\ f.ty = OperandType(i.ops[1])
    /\ Value(t, f.lhs) = {Left(mc, i)}
    /\ Value(t, f.rhs) = {Right(mc, i)}
    /\ Value(t, f.result) = {Outcome(mc, i)}

Effect(t, o, mc) == t.m = mc.m /\ (o.all => SameRegisters(t, mc))

\* h is the function and the flags after the instruction.
Done(h, o, mc, i) ==
  \E t : Ran(h.c, o, t) /\ Effect(t, o, Processor(mc, i)) /\ RecordRight(h.flags, t, mc, i)

LEMMA ShowsEffect ==
  ASSUME NEW t, NEW o, NEW mc, NEW after, Shows(t, After(o, mc, after)), mc.m = after.m
  PROVE  Effect(t, o, after)
BY DEF Shows, After, Effect

\* An operand of an instruction that is ready.
LEMMA OpReady ==
  ASSUME NEW c, NEW o, NEW s, NEW mc, NEW i, Ready(c, o, s, mc, i), NEW k \in 1 .. Len(i.ops),
         IsReg(i.ops[k]) \/ IsImm(i.ops[k]) \/ IsMem(i.ops[k])
  PROVE  OpOK(i.ops[k]) /\ Fits(o, i.ops[k]) /\ AddrExact(mc, i.ops[k])
<1> DEFINE op == i.ops[k]
<1>1. op \in OperandsOf(i)
  BY DEF OperandsOf
<1>2. \A reg \in RegsOf(op) : gprVRegIds(reg) # {} /\ reg.part # "h"
  BY <1>1 DEF Ready, Covered, Plain
<1>3. Fits(o, op)
  BY <1>1 DEF Ready, AllWide, Fits
<1>4. AddrExact(mc, op)
  BY <1>1 DEF Ready, Covered, AddrExact
<1> HIDE DEF op
<1>5. CASE IsReg(op)
  <2>1. op.reg \in RegsOf(op)
    BY <1>5 DEF IsReg, RegsOf
  <2>2. op.reg.part \in {"q", "d", "w", "l", "h"}
    BY <1>5 DEF IsReg, Registers
  <2>3. RegOK(op.reg)
    BY <1>2, <2>1, <2>2 DEF RegOK
  <2>4. OpOK(op)
    BY <1>5, <2>3 DEF OpOK, IsReg
  <2> QED
    BY <1>3, <1>4, <2>4 DEF op
<1>6. CASE IsImm(op)
  BY <1>3, <1>4, <1>6 DEF OpOK, op
<1>7. CASE IsMem(op)
  <2>1. RegsOf(op) = {op.base, op.index} \ {NoReg}
    BY <1>7 DEF IsMem, RegsOf
  <2>2. op.base.part \in {"q", "d"} /\ op.index.part \in {"q", "d"}
    BY <1>7 DEF IsMem
  <2>3. \A reg \in {op.base, op.index} : BaseOK(reg)
    BY <1>2, <2>1, <2>2 DEF BaseOK, RegOK
  <2>4. OpOK(op)
    BY <1>7, <2>3 DEF OpOK, MemOK, IsMem
  <2> QED
    BY <1>3, <1>4, <2>4 DEF op
<1> QED
  BY <1>5, <1>6, <1>7 DEF op

LEMMA IsKinds ==
  ASSUME NEW op
  PROVE  /\ IsReg(op) => op.kind = "reg" /\ IsPlace(op) /\ OperandType(op) = typeOfReg(op.reg)
         /\ IsImm(op) => op.kind = "imm" /\ OperandType(op) = op.ty
         /\ IsMem(op) => op.kind = "mem" /\ IsPlace(op) /\ OperandType(op) = op.ty
         /\ IsPlace(op) => op.kind # "imm"
BY DEF IsReg, IsImm, IsMem, IsPlace, OperandType

\* x is the function after computing z of a and b.
Computed(x, o, s, a, b, z, ty) ==
  \E t : /\ Ran(x.c, o, t) /\ Reads(t, s)
         /\ Held(x.lhs, t, a, ty) /\ Held(x.rhs, t, b, ty) /\ Held(x.v, t, z, ty)

LEMMA CombineRan ==
  ASSUME NEW o, NEW s, NEW t, Reads(t, s), NEW l, NEW a, NEW ty, Held(l.v, t, a, ty),
         NEW r, NEW b, Gives(r, o, t, b, ty),
         NEW opcode \in Binaries \cup Shifts, NEW z, z \in Int, z = Compute(opcode, a, b, ty)
  PROVE  Computed(Combine(l, r, opcode, ty), o, s, a, b, z, ty)
<1>1. PICK u : Ran(r.c, o, u) /\ Reads(u, t) /\ Held(r.v, u, b, ty)
  BY DEF Gives
<1>2. Held(l.v, u, a, ty)
  BY <1>1, ReadsHeld
<1> DEFINE x == Into(r.c, "block", opcode, ty, <<l.v, r.v>>)
<1>3. Gives(x, o, u, z, ty)
  BY <1>1, <1>2, IntoBin
<1> HIDE DEF x
<1>4. PICK w : Ran(x.c, o, w) /\ Reads(w, u) /\ Held(x.v, w, z, ty)
  BY <1>3 DEF Gives
<1>5. Held(l.v, w, a, ty) /\ Held(r.v, w, b, ty)
  BY <1>1, <1>2, <1>4, ReadsHeld
<1>6. Reads(w, s)
  BY <1>1, <1>4, ReadsTrans
<1>7. Combine(l, r, opcode, ty) = [c |-> x.c, v |-> x.v, lhs |-> l.v, rhs |-> r.v]
  BY DEF Combine, x
<1> QED
  BY <1>4, <1>5, <1>6, <1>7 DEF Computed

LEMMA OperateRan ==
  ASSUME NEW c, NEW o, NEW s, Ran(c, o, s), NEW mc, MachineOK(mc), Shows(s, mc),
         NEW a, OpOK(a), Fits(o, a), NEW b, OpOK(b), Fits(o, b), NEW ty \in Types,
         FetchType(a, ty) = ty, FetchType(b, ty) = ty, NEW opcode \in Binaries
  PROVE  /\ Computed(Operate(c, opcode, ty, a, b), o, s, Fetched(mc, a, ty), Fetched(mc, b, ty),
                     Compute(opcode, Fetched(mc, a, ty), Fetched(mc, b, ty), ty), ty)
         /\ Compute(opcode, Fetched(mc, a, ty), Fetched(mc, b, ty), ty) \in Words(ty)
<1> DEFINE l == readOperand(c, a, ty)
           r == readOperand(l.c, b, ty)
           x == Fetched(mc, a, ty)
           y == Fetched(mc, b, ty)
           z == Compute(opcode, x, y, ty)
<1>1. x \in Words(ty) /\ y \in Words(ty) /\ y \in Nat
  BY FetchedWord, WordInt
<1>2. z \in Words(ty) /\ z \in Int
  <2> HIDE DEF x, y
  <2>1. z \in Words(ty)
    BY <1>1, ComputeWord
  <2> QED
    BY <2>1, WordInt
<1>3. Gives(l, o, s, x, ty)
  BY ReadOp
<1>4. PICK t : Ran(l.c, o, t) /\ Reads(t, s) /\ Held(l.v, t, x, ty)
  BY <1>3 DEF Gives
<1>5. Shows(t, mc)
  BY <1>4, ReadsShows
<1>6. Gives(r, o, t, y, ty)
  <2> HIDE DEF l
  <2> QED
    BY <1>4, <1>5, ReadOp
<1>7. opcode \in Binaries \cup Shifts
  OBVIOUS
<1>8. Operate(c, opcode, ty, a, b) = Combine(l, r, opcode, ty)
  BY DEF Operate
<1> HIDE DEF l, r, x, y, z
<1>9. Computed(Combine(l, r, opcode, ty), o, s, x, y, z, ty)
  BY <1>2, <1>4, <1>6, <1>7, CombineRan DEF z
<1> QED
  BY <1>2, <1>8, <1>9 DEF x, y, z

\* The record of an instruction that has just been computed.
RecordHeld(f, t, mc, i) ==
  LET ty == OperandType(i.ops[1])
  IN  /\ f.valid /\ f.ty = ty
      /\ Held(f.lhs, t, Left(mc, i), ty)
      /\ Held(f.rhs, t, Right(mc, i), ty)
      /\ Held(f.result, t, Outcome(mc, i), ty)

\* The result goes to the first operand: what is left of an instruction that
\* has computed it.
LEMMA Finish ==
  ASSUME NEW c, NEW o, NEW s, NEW mc, NEW i, Ready(c, o, s, mc, i), Len(i.ops) >= 1,
         IsPlace(i.ops[1]), NEW d, NEW t, Ran(d, o, t), Reads(t, s),
         NEW v, NEW x \in Words(OperandType(i.ops[1])), Held(v, t, x, OperandType(i.ops[1])),
         Processor(mc, i) = Put(mc, i.ops[1], x), i.mn \notin {"CMP", "TEST"},
         NEW f, i.mn \in Arithmetics /\ ~Overwritten(i) => RecordHeld(f, t, mc, i)
  PROVE  Done([c |-> writeOperand(d, i.ops[1], v), flags |-> f], o, mc, i)
<1> DEFINE op == i.ops[1]
           ty == OperandType(op)
           e == writeOperand(d, op, v)
<1>1. OpOK(op) /\ Fits(o, op) /\ AddrExact(mc, op) /\ op.kind # "imm"
  <2>1. 1 \in 1 .. Len(i.ops)
    BY DEF Ready
  <2> QED
    BY <2>1, OpReady, IsKinds DEF IsPlace
<1>2. Shows(t, mc) /\ MachineOK(mc)
  BY ReadsShows DEF Ready
<1>3. x \in Int /\ ty \in Types /\ ty \in Sizes
  BY <1>1, OpKinds, WordInt
<1>4. op.kind = "reg" => x \in Words(typeOfReg(op.reg))
  BY DEF OperandType
<1>5. op.kind = "mem" => ty = op.ty
  BY DEF OperandType
<1> HIDE DEF ty, op
<1>6. Held(v, t, x, ty)
  BY DEF ty, op
<1>7. Stored(writeOperand(d, op, v), o, t, PutAfter(o, mc, op, x), op)
  BY <1>1, <1>2, <1>3, <1>4, <1>5, <1>6, WriteOp
<1>8. PICK u : /\ Ran(e, o, u) /\ Shows(u, PutAfter(o, mc, op, x))
               /\ IF op.kind = "mem" THEN Keeps(u, t) ELSE Lasts(u, t)
  BY <1>7 DEF Stored
<1>9. Effect(u, o, Put(mc, op, x))
  <2>1. CASE op.kind = "mem" \/ o.all
    BY <1>8, <2>1 DEF PutAfter, Shows, Effect
  <2>2. CASE ~(op.kind = "mem" \/ o.all)
    <3>1. op.kind = "reg"
      BY <1>1, <2>2, OpKinds
    <3>2. Put(mc, op, x).m = mc.m
      BY <1>1, <1>2, <1>3, <1>4, <3>1, PutOK
    <3> QED
      BY <1>8, <2>2, <3>2 DEF PutAfter, Shows, Effect
  <2> QED
    BY <2>1, <2>2
<1>10. RecordRight(f, u, mc, i)
  <2>1. SUFFICES ASSUME i.mn \in Arithmetics, ~Overwritten(i)
                 PROVE  /\ f.valid /\ f.ty = ty
                        /\ Value(u, f.lhs) = {Left(mc, i)}
                        /\ Value(u, f.rhs) = {Right(mc, i)}
                        /\ Value(u, f.result) = {Outcome(mc, i)}
    BY DEF RecordRight, ty, op
  <2>2. op.kind = "mem" \/ ty # "i64"
    BY <1>1, <2>1, OpKinds DEF Overwritten, ty, op
  <2>3. \A w, y : Held(w, t, y, ty) => Held(w, u, y, ty)
    BY <1>8, <2>2, KeepsHeld, LastsHeld
  <2>4. /\ f.valid /\ f.ty = ty
        /\ Held(f.lhs, t, Left(mc, i), ty) /\ Held(f.rhs, t, Right(mc, i), ty)
        /\ Held(f.result, t, Outcome(mc, i), ty)
    BY <2>1 DEF RecordHeld, ty, op
  <2>5. /\ Held(f.lhs, u, Left(mc, i), ty) /\ Held(f.rhs, u, Right(mc, i), ty)
        /\ Held(f.result, u, Outcome(mc, i), ty)
    BY <2>3, <2>4
  <2> QED
    BY <2>4, <2>5 DEF Held
<1> QED
  BY <1>8, <1>9, <1>10 DEF Done, e, op

\* The same of a result and its record together.
LEMMA UpdateDone ==
  ASSUME NEW c, NEW o, NEW s, NEW mc, NEW i, Ready(c, o, s, mc, i), Len(i.ops) >= 1,
         IsPlace(i.ops[1]), i.mn \notin {"CMP", "TEST"},
         Processor(mc, i) = Put(mc, i.ops[1], Outcome(mc, i)),
         Outcome(mc, i) \in Words(OperandType(i.ops[1])),
         NEW x, Computed(x, o, s, Left(mc, i), Right(mc, i), Outcome(mc, i), OperandType(i.ops[1])),
         NEW op
  PROVE  Done(Update(x, i.ops, op, OperandType(i.ops[1])), o, mc, i)
<1> DEFINE ty == OperandType(i.ops[1])
           f == Recorded(x, op, ty)
<1>1. PICK t : /\ Ran(x.c, o, t) /\ Reads(t, s)
               /\ Held(x.lhs, t, Left(mc, i), ty) /\ Held(x.rhs, t, Right(mc, i), ty)
               /\ Held(x.v, t, Outcome(mc, i), ty)
  BY DEF Computed
<1>2. /\ f.valid /\ f.ty = ty
      /\ f.lhs = x.lhs /\ f.rhs = x.rhs /\ f.result = x.v
  BY DEF Recorded, Flags
<1> HIDE DEF f
<1>3. RecordHeld(f, t, mc, i)
  BY <1>1, <1>2 DEF RecordHeld
<1>4. Done([c |-> writeOperand(x.c, i.ops[1], x.v), flags |-> f], o, mc, i)
  BY <1>1, <1>3, Finish
<1> QED
  BY <1>4 DEF Update, f

(***************************************************************************)
(* The instructions, one lemma for each handler.                           *)
(***************************************************************************)

\* The operand is one the lifter can read and the processor reads as ty.
Operand(o, mc, op, ty) ==
  /\ OpOK(op) /\ Fits(o, op) /\ AddrExact(mc, op)
  /\ op.kind # "imm" => OperandType(op) = ty

LEMMA OperandReady ==
  ASSUME NEW c, NEW o, NEW s, NEW mc, NEW i, Ready(c, o, s, mc, i), NEW k \in 1 .. Len(i.ops),
         IsPlace(i.ops[k]) \/ IsImm(i.ops[k])
  PROVE  /\ Operand(o, mc, i.ops[k], OperandType(i.ops[k]))
         /\ IsImm(i.ops[k]) => \A ty : Operand(o, mc, i.ops[k], ty)
         /\ OperandType(i.ops[k]) \in Types /\ OperandType(i.ops[k]) \in Sizes
<1>1. IsReg(i.ops[k]) \/ IsImm(i.ops[k]) \/ IsMem(i.ops[k])
  BY DEF IsPlace
<1>2. OpOK(i.ops[k]) /\ Fits(o, i.ops[k]) /\ AddrExact(mc, i.ops[k])
  BY <1>1, OpReady
<1>3. IsImm(i.ops[k]) => i.ops[k].kind = "imm"
  BY IsKinds
<1> QED
  BY <1>2, <1>3, OpKinds DEF Operand

LEMMA OperandRight ==
  ASSUME NEW o, NEW mc, MachineOK(mc), NEW op, NEW ty \in Types, Operand(o, mc, op, ty)
  PROVE  /\ Fetched(mc, op, ty) = Get(mc, op, ty) /\ FetchType(op, ty) = ty
         /\ Get(mc, op, ty) \in Words(ty) /\ Get(mc, op, ty) \in Int
<1>1. FetchType(op, ty) = ty
  BY OpKinds DEF Operand
<1>2. op.kind = "mem" => op.ty = ty
  BY DEF Operand, OperandType
<1>3. Fetched(mc, op, ty) = Get(mc, op, ty)
  BY <1>2, FetchedRight DEF Operand
<1>4. Fetched(mc, op, ty) \in Words(ty) /\ Fetched(mc, op, ty) \in Int
  BY <1>1, FetchedWord DEF Operand
<1> QED
  BY <1>1, <1>3, <1>4

LEMMA ReadRight ==
  ASSUME NEW c, NEW o, NEW s, Ran(c, o, s), NEW mc, MachineOK(mc), Shows(s, mc),
         NEW op, NEW ty \in Types, Operand(o, mc, op, ty)
  PROVE  Gives(readOperand(c, op, ty), o, s, Get(mc, op, ty), ty)
<1>1. Gives(readOperand(c, op, ty), o, s, Fetched(mc, op, ty), FetchType(op, ty))
  BY ReadOp DEF Operand
<1> QED
  BY <1>1, OperandRight

LEMMA OperateRight ==
  ASSUME NEW c, NEW o, NEW s, Ran(c, o, s), NEW mc, MachineOK(mc), Shows(s, mc),
         NEW ty \in Types, NEW a, Operand(o, mc, a, ty), NEW b, Operand(o, mc, b, ty),
         NEW opcode \in Binaries
  PROVE  /\ Computed(Operate(c, opcode, ty, a, b), o, s, Get(mc, a, ty), Get(mc, b, ty),
                     Compute(opcode, Get(mc, a, ty), Get(mc, b, ty), ty), ty)
         /\ Compute(opcode, Get(mc, a, ty), Get(mc, b, ty), ty) \in Words(ty)
<1>1. /\ OpOK(a) /\ Fits(o, a) /\ FetchType(a, ty) = ty /\ Fetched(mc, a, ty) = Get(mc, a, ty)
      /\ OpOK(b) /\ Fits(o, b) /\ FetchType(b, ty) = ty /\ Fetched(mc, b, ty) = Get(mc, b, ty)
  BY OperandRight DEF Operand
<1>2. /\ Computed(Operate(c, opcode, ty, a, b), o, s, Fetched(mc, a, ty), Fetched(mc, b, ty),
                  Compute(opcode, Fetched(mc, a, ty), Fetched(mc, b, ty), ty), ty)
      /\ Compute(opcode, Fetched(mc, a, ty), Fetched(mc, b, ty), ty) \in Words(ty)
  BY <1>1, OperateRan
<1> QED
  BY <1>1, <1>2

Twos == {"ADD", "SUB", "AND", "OR", "XOR", "CMP", "TEST"}

\* ADD, SUB, AND, OR, XOR, CMP and TEST compute the processor's outcome.
LEMMA TwoRight ==
  ASSUME NEW c, NEW o, NEW s, NEW mc, NEW i, Ready(c, o, s, mc, i), i.mn \in Twos
  PROVE  LET ty == OperandType(i.ops[1])
         IN  /\ Computed(Operate(c, Arithmetic(i), ty, i.ops[1], i.ops[2]), o, s,
                         Left(mc, i), Right(mc, i), Outcome(mc, i), ty)
             /\ Outcome(mc, i) \in Words(ty)
             /\ Len(i.ops) = 2 /\ IsPlace(i.ops[1])
<1> DEFINE ty == OperandType(i.ops[1])
<1>1. /\ Len(i.ops) = 2 /\ IsPlace(i.ops[1])
      /\ IsImm(i.ops[2]) \/ (IsPlace(i.ops[2]) /\ ty = OperandType(i.ops[2]))
  BY DEF Ready, Decoded, Twos
<1>2. 1 \in 1 .. Len(i.ops) /\ 2 \in 1 .. Len(i.ops)
  BY <1>1
<1>3. Operand(o, mc, i.ops[1], ty) /\ ty \in Types
  BY <1>1, <1>2, OperandReady
<1>4. Operand(o, mc, i.ops[2], ty)
  BY <1>1, <1>2, OperandReady
<1>5. Arithmetic(i) \in Binaries
  BY DEF Arithmetic, Twos, Binaries
<1>6. /\ Left(mc, i) = Get(mc, i.ops[1], ty) /\ Right(mc, i) = Get(mc, i.ops[2], ty)
      /\ Outcome(mc, i) = Compute(Arithmetic(i), Left(mc, i), Right(mc, i), ty)
  BY <1>1 DEF Left, Right, Outcome, Twos
<1> HIDE DEF ty
<1>7. /\ Computed(Operate(c, Arithmetic(i), ty, i.ops[1], i.ops[2]), o, s, Get(mc, i.ops[1], ty),
                  Get(mc, i.ops[2], ty),
                  Compute(Arithmetic(i), Get(mc, i.ops[1], ty), Get(mc, i.ops[2], ty), ty), ty)
      /\ Compute(Arithmetic(i), Get(mc, i.ops[1], ty), Get(mc, i.ops[2], ty), ty) \in Words(ty)
  BY <1>3, <1>4, <1>5, OperateRight DEF Ready
<1> QED
  BY <1>1, <1>6, <1>7 DEF ty

LEMMA BinaryDone ==
  ASSUME NEW c, NEW o, NEW s, NEW mc, NEW i, Ready(c, o, s, mc, i),
         i.mn \in {"ADD", "SUB", "AND", "OR", "XOR"}
  PROVE  Done(Binary(c, i.mn, i.ops), o, mc, i)
<1> DEFINE ty == OperandType(i.ops[1])
           x == Operate(c, i.mn, ty, i.ops[1], i.ops[2])
<1>1. i.mn \in Twos /\ Arithmetic(i) = i.mn /\ i.mn \notin {"CMP", "TEST"}
  BY DEF Arithmetic, Twos
<1>2. /\ Computed(x, o, s, Left(mc, i), Right(mc, i), Outcome(mc, i), ty)
      /\ Outcome(mc, i) \in Words(ty) /\ Len(i.ops) = 2 /\ IsPlace(i.ops[1])
  BY <1>1, TwoRight
<1>3. Processor(mc, i) = Put(mc, i.ops[1], Outcome(mc, i))
  BY DEF Processor
<1>4. Binary(c, i.mn, i.ops) = Update(x, i.ops, i.mn, ty)
  BY DEF Binary
<1> HIDE DEF x
<1>6. Len(i.ops) >= 1
  BY <1>2
<1>5. Done(Update(x, i.ops, i.mn, ty), o, mc, i)
  <2> DEFINE op == i.mn
  <2> HIDE DEF op
  <2>1. Done(Update(x, i.ops, op, ty), o, mc, i)
    BY <1>1, <1>2, <1>3, <1>6, UpdateDone
  <2> QED
    BY <2>1 DEF op
<1> QED
  BY <1>4, <1>5

\* A record that holds where nothing was written.
LEMMA HeldRight ==
  ASSUME NEW f, NEW t, NEW mc, NEW i, RecordHeld(f, t, mc, i)
  PROVE  RecordRight(f, t, mc, i)
BY DEF RecordHeld, RecordRight, Held

LEMMA CompareDone ==
  ASSUME NEW c, NEW o, NEW s, NEW mc, NEW i, Ready(c, o, s, mc, i), i.mn \in {"CMP", "TEST"}
  PROVE  Done(Compare(c, Arithmetic(i), i.ops), o, mc, i)
<1> DEFINE ty == OperandType(i.ops[1])
           x == Operate(c, Arithmetic(i), ty, i.ops[1], i.ops[2])
           f == Recorded(x, Arithmetic(i), ty)
<1>1. i.mn \in Twos
  BY DEF Twos
<1>2. Computed(x, o, s, Left(mc, i), Right(mc, i), Outcome(mc, i), ty)
  BY <1>1, TwoRight
<1>3. Compare(c, Arithmetic(i), i.ops) = [c |-> x.c, flags |-> f]
  BY DEF Compare
<1>4. f.valid /\ f.ty = ty /\ f.lhs = x.lhs /\ f.rhs = x.rhs /\ f.result = x.v
  BY DEF Recorded, Flags
<1> HIDE DEF x, f
<1>5. PICK t : /\ Ran(x.c, o, t) /\ Reads(t, s)
               /\ Held(x.lhs, t, Left(mc, i), ty) /\ Held(x.rhs, t, Right(mc, i), ty)
               /\ Held(x.v, t, Outcome(mc, i), ty)
  BY <1>2 DEF Computed
<1>6. RecordHeld(f, t, mc, i)
  BY <1>4, <1>5 DEF RecordHeld
<1>7. Processor(mc, i) = mc
  BY DEF Processor
<1>8. Shows(t, mc)
  BY <1>5, ReadsShows DEF Ready
<1>9. Effect(t, o, Processor(mc, i))
  BY <1>7, <1>8 DEF Shows, Effect
<1> QED
  BY <1>3, <1>5, <1>6, <1>9, HeldRight DEF Done

\* Handlers that ask for the type of a register get that of the operand.
LEMMA WholeType ==
  ASSUME NEW op, IsPlace(op), Whole(op)
  PROVE  typeOfReg(regValue(op)) = OperandType(op)
BY DEF IsPlace, IsReg, IsMem, Whole, regValue, OperandType, typeOfReg, NoReg

LEMMA StepDone ==
  ASSUME NEW c, NEW o, NEW s, NEW mc, NEW i, Ready(c, o, s, mc, i), i.mn \in {"INC", "DEC"}, NEW op
  PROVE  Done(Step(c, Arithmetic(i), op, i.ops), o, mc, i)
<1> DEFINE ty == OperandType(i.ops[1])
           src == readOperand(c, i.ops[1], ty)
           one == [c |-> src.c, v |-> Imm(1, ty)]
           x == Combine(src, one, Arithmetic(i), ty)
           a == Get(mc, i.ops[1], ty)
<1>1. Len(i.ops) = 1 /\ IsPlace(i.ops[1]) /\ 1 \in 1 .. Len(i.ops) /\ Len(i.ops) >= 1
  BY DEF Ready, Decoded
<1>2. typeOfReg(regValue(i.ops[1])) = ty
  BY <1>1, WholeType DEF Ready, Covered
<1>3. Operand(o, mc, i.ops[1], ty) /\ ty \in Types
  BY <1>1, OperandReady
<1>4. Arithmetic(i) \in Binaries /\ Arithmetic(i) \in Binaries \cup Shifts
  BY DEF Arithmetic, Binaries
<1>5. Left(mc, i) = a /\ Right(mc, i) = 1 /\ Outcome(mc, i) = Compute(Arithmetic(i), a, 1, ty)
  BY DEF Left, Right, Outcome
<1>6. Processor(mc, i) = Put(mc, i.ops[1], Outcome(mc, i)) /\ i.mn \notin {"CMP", "TEST"}
  BY DEF Processor
<1>7. Step(c, Arithmetic(i), op, i.ops) = Update(x, i.ops, op, ty)
  BY <1>2 DEF Step
<1>8. a \in Words(ty) /\ a \in Int
  BY <1>3, OperandRight DEF Ready
<1>9. Gives(src, o, s, a, ty)
  BY <1>3, ReadRight DEF Ready
<1>10. 1 \in Words(ty) /\ Wrap(1, ty) = 1
  BY <1>3, WordInt, WrapWord
<1> HIDE DEF a, src
<1>11. Compute(Arithmetic(i), a, 1, ty) \in Words(ty) /\ Compute(Arithmetic(i), a, 1, ty) \in Int
  BY <1>3, <1>4, <1>8, <1>10, ComputeWord, WordInt
<1>12. PICK t : Ran(src.c, o, t) /\ Reads(t, s) /\ Held(src.v, t, a, ty)
  BY <1>9 DEF Gives
<1>13. Gives(one, o, t, 1, ty)
  BY <1>3, <1>10, <1>12, ImmGives
<1> DEFINE opcode == Arithmetic(i)
           z == Compute(opcode, a, 1, ty)
<1> HIDE DEF ty, one
<1>14. Computed(Combine(src, one, opcode, ty), o, s, a, 1, z, ty)
  <2>1. z \in Int /\ z = Compute(opcode, a, 1, ty) /\ opcode \in Binaries \cup Shifts
    BY <1>4, <1>11
  <2> HIDE DEF z, opcode
  <2> QED
    BY <1>12, <1>13, <2>1, CombineRan
<1>15. Computed(x, o, s, Left(mc, i), Right(mc, i), Outcome(mc, i), ty)
  BY <1>5, <1>14
<1>16. Outcome(mc, i) \in Words(ty)
  BY <1>5, <1>11
<1> HIDE DEF x
<1>17. Done(Update(x, i.ops, op, ty), o, mc, i)
  BY <1>1, <1>6, <1>15, <1>16, UpdateDone DEF ty
<1> QED
  BY <1>7, <1>17

\* The count of a shift, a byte, is the same number in every type.
LEMMA CountRight ==
  ASSUME NEW c, NEW o, NEW s, NEW mc, NEW i, Ready(c, o, s, mc, i), i.mn \in {"SHL", "SHR", "SAR"},
         NEW d, NEW t, Ran(d, o, t), Shows(t, mc)
  PROVE  /\ Gives(Then(readOperand(d, i.ops[2], "i8"), "block", "ZEXT", OperandType(i.ops[1])),
                  o, t, Right(mc, i), OperandType(i.ops[1]))
         /\ Right(mc, i) \in Nat
<1> DEFINE op == i.ops[2]
           ty == OperandType(i.ops[1])
           x == Get(mc, op, "i8")
           r == readOperand(d, op, "i8")
<1>1. /\ Len(i.ops) = 2 /\ IsPlace(i.ops[1]) /\ 1 \in 1 .. Len(i.ops) /\ 2 \in 1 .. Len(i.ops)
      /\ (IsImm(op) /\ op.value \in Words("i8")) \/ (IsReg(op) /\ OperandType(op) = "i8")
  BY DEF Ready, Decoded
<1>2. "i8" \in Types /\ "i8" \in Sizes /\ ty \in Types /\ ty \in Sizes
  BY <1>1, OperandReady DEF Types, Sizes
<1>3. Operand(o, mc, op, "i8")
  BY <1>1, OperandReady, IsKinds
<1>4. x \in Words("i8") /\ x \in Int /\ Gives(r, o, t, x, "i8")
  BY <1>2, <1>3, OperandRight, ReadRight DEF Ready
<1>5. Words("i8") \subseteq Words(ty)
  BY <1>2, WidthOrder, WordWider
<1>6. Right(mc, i) = x
  <2>1. Right(mc, i) = Get(mc, op, ty)
    BY <1>1 DEF Right
  <2>2. CASE IsReg(op)
    BY <2>1, <2>2 DEF IsReg, Get
  <2>3. CASE IsImm(op) /\ op.value \in Words("i8")
    <3>1. Get(mc, op, ty) = Wrap(op.value, ty) /\ x = Wrap(op.value, "i8") /\ op.value \in Int
      BY <2>3 DEF IsImm, Get
    <3>2. Wrap(op.value, ty) = op.value /\ Wrap(op.value, "i8") = op.value
      BY <1>2, <1>5, <2>3, <3>1, WrapWord
    <3> QED
      BY <2>1, <3>1, <3>2
  <2> QED
    BY <1>1, <2>2, <2>3
<1> HIDE DEF x, op, ty, r
<1>7. x = Un(t.m, "ZEXT", ty, "i8", x) /\ "ZEXT" \in Unaries
  <2>1. Wrap(x, ty) = x
    BY <1>2, <1>4, <1>5, WrapWord
  <2> QED
    BY <2>1 DEF Un, Unaries, Moving
<1>8. Gives(Then(r, "block", "ZEXT", ty), o, t, x, ty)
  BY <1>4, <1>7, ThenUn
<1>9. x \in Nat
  BY <1>2, <1>4, WordInt
<1> QED
  BY <1>6, <1>8, <1>9 DEF op, ty, r

LEMMA ShiftDone ==
  ASSUME NEW c, NEW o, NEW s, NEW mc, NEW i, Ready(c, o, s, mc, i), i.mn \in {"SHL", "SHR", "SAR"},
         NEW op
  PROVE  Done(Shift(c, Arithmetic(i), op, i.ops), o, mc, i)
<1> DEFINE ty == OperandType(i.ops[1])
           val == readOperand(c, i.ops[1], ty)
           amt == Then(readOperand(val.c, i.ops[2], "i8"), "block", "ZEXT", ty)
           x == Combine(val, amt, Arithmetic(i), ty)
           a == Get(mc, i.ops[1], ty)
           b == Right(mc, i)
<1>1. Len(i.ops) = 2 /\ IsPlace(i.ops[1]) /\ 1 \in 1 .. Len(i.ops) /\ Len(i.ops) >= 1
  BY DEF Ready, Decoded
<1>2. typeOfReg(regValue(i.ops[1])) = ty
  BY <1>1, WholeType DEF Ready, Covered
<1>3. Operand(o, mc, i.ops[1], ty) /\ ty \in Types
  BY <1>1, OperandReady
<1>4. Arithmetic(i) \in Shifts /\ Arithmetic(i) \in Binaries \cup Shifts
  BY DEF Arithmetic, Shifts
<1>5. Left(mc, i) = a /\ Outcome(mc, i) = Compute(Arithmetic(i), a, b, ty)
  BY DEF Left, Outcome
<1>6. Processor(mc, i) = Put(mc, i.ops[1], Outcome(mc, i)) /\ i.mn \notin {"CMP", "TEST"}
  BY DEF Processor
<1>7. Shift(c, Arithmetic(i), op, i.ops) = Update(x, i.ops, op, ty)
  BY <1>2 DEF Shift
<1>8. a \in Words(ty) /\ a \in Int
  BY <1>3, OperandRight DEF Ready
<1>9. Gives(val, o, s, a, ty)
  BY <1>3, ReadRight DEF Ready
<1> DEFINE d == val.c
<1>10. PICK t : Ran(d, o, t) /\ Reads(t, s) /\ Held(val.v, t, a, ty)
  BY <1>9 DEF Gives
<1> HIDE DEF a, val, d
<1>11. Shows(t, mc)
  BY <1>10, ReadsShows DEF Ready
<1>12. Gives(Then(readOperand(d, i.ops[2], "i8"), "block", "ZEXT", ty), o, t, b, ty) /\ b \in Nat
  BY <1>10, <1>11, CountRight
<1>13. Gives(amt, o, t, b, ty)
  BY <1>12 DEF d
<1> DEFINE opcode == Arithmetic(i)
           z == Compute(opcode, a, b, ty)
<1> HIDE DEF ty, amt, b
<1>14. z \in Words(ty) /\ z \in Int
  BY <1>3, <1>4, <1>8, <1>12, ComputeWord, WordInt
<1>15. Computed(Combine(val, amt, opcode, ty), o, s, a, b, z, ty)
  <2>1. z \in Int /\ z = Compute(opcode, a, b, ty) /\ opcode \in Binaries \cup Shifts
    BY <1>4, <1>14
  <2> HIDE DEF z, opcode
  <2> QED
    BY <1>10, <1>13, <2>1, CombineRan
<1>16. Computed(x, o, s, Left(mc, i), Right(mc, i), Outcome(mc, i), ty)
  BY <1>5, <1>15 DEF b
<1>17. Outcome(mc, i) \in Words(ty)
  BY <1>5, <1>14
<1> HIDE DEF x
<1>18. Done(Update(x, i.ops, op, ty), o, mc, i)
  BY <1>1, <1>6, <1>16, <1>17, UpdateDone DEF ty
<1> QED
  BY <1>7, <1>18

LEMMA UnaryDone ==
  ASSUME NEW c, NEW o, NEW s, NEW mc, NEW i, Ready(c, o, s, mc, i), i.mn \in {"NOT", "NEG"}, NEW old
  PROVE  Done(Unary(c, i.mn, i.ops, old), o, mc, i)
<1> DEFINE ty == OperandType(i.ops[1])
           src == readOperand(c, i.ops[1], ty)
           x == Then(src, "block", i.mn, ty)
           a == Get(mc, i.ops[1], ty)
           f == IF i.mn = "NEG" THEN Flags("SUB", x.v, Imm(0, ty), src.v, ty) ELSE old
           y == Wrap(IF i.mn = "NEG" THEN -a ELSE -1 - a, ty)
<1>1. Len(i.ops) = 1 /\ IsPlace(i.ops[1]) /\ 1 \in 1 .. Len(i.ops) /\ Len(i.ops) >= 1
  BY DEF Ready, Decoded
<1>2. typeOfReg(regValue(i.ops[1])) = ty
  BY <1>1, WholeType DEF Ready, Covered
<1>3. Operand(o, mc, i.ops[1], ty) /\ ty \in Types
  BY <1>1, OperandReady
<1>4. Unary(c, i.mn, i.ops, old) = [c |-> writeOperand(x.c, i.ops[1], x.v), flags |-> f]
  BY <1>2 DEF Unary
<1>5. a \in Words(ty) /\ a \in Int
  BY <1>3, OperandRight DEF Ready
<1>6. Gives(src, o, s, a, ty)
  BY <1>3, ReadRight DEF Ready
<1>7. y \in Words(ty) /\ y \in Int
  <2>1. (IF i.mn = "NEG" THEN -a ELSE -1 - a) \in Int
    BY <1>5
  <2> QED
    BY <1>3, <2>1, WrapWord
<1>8. i.mn = "NEG" => Left(mc, i) = 0 /\ Right(mc, i) = a /\ Outcome(mc, i) = y
  <2>1. 0 - a = -a
    BY <1>5
  <2> QED
    BY <1>1, <2>1 DEF Left, Right, Outcome, Compute
<1>9. Processor(mc, i) = Put(mc, i.ops[1], y) /\ i.mn \notin {"CMP", "TEST"}
  BY <1>8 DEF Processor
<1> HIDE DEF a, src
<1>10. PICK t : Ran(src.c, o, t) /\ Reads(t, s) /\ Held(src.v, t, a, ty)
  BY <1>6 DEF Gives
<1>11. i.mn \in Unaries /\ y = Un(t.m, i.mn, ty, ty, a)
  BY DEF Unaries, Un
<1> DEFINE opcode == i.mn
           into == Into(src.c, "block", opcode, ty, <<src.v>>)
<1>12. Gives(into, o, t, y, ty)
  <2> HIDE DEF y, opcode, into
  <2>1. opcode \in Unaries /\ y = Un(t.m, opcode, ty, ty, a)
    BY <1>11 DEF opcode
  <2> QED
    BY <1>7, <1>10, <2>1, IntoUn DEF into
<1>13. x = into
  BY DEF Then
<1> HIDE DEF x, y, ty, into
<1>14. PICK u : Ran(x.c, o, u) /\ Reads(u, t) /\ Held(x.v, u, y, ty)
  BY <1>12, <1>13 DEF Gives
<1>15. Held(src.v, u, a, ty) /\ Held(Imm(0, ty), u, 0, ty)
  <2>1. Wrap(0, ty) = 0 /\ 0 \in Int
    BY <1>3, WordInt, WrapWord
  <2> QED
    BY <1>3, <1>10, <1>14, <2>1, ReadsHeld, ImmHeld
<1>16. Reads(u, s)
  BY <1>10, <1>14, ReadsTrans
<1>17. i.mn \in Arithmetics /\ ~Overwritten(i) => RecordHeld(f, u, mc, i)
  <2>1. SUFFICES ASSUME i.mn = "NEG" PROVE RecordHeld(f, u, mc, i)
    BY DEF Arithmetics
  <2>2. f.valid /\ f.ty = ty /\ f.lhs = Imm(0, ty) /\ f.rhs = src.v /\ f.result = x.v
    BY <2>1 DEF Flags
  <2> HIDE DEF f
  <2> QED
    BY <1>8, <1>14, <1>15, <2>1, <2>2 DEF RecordHeld, ty
<1> HIDE DEF f
<1>18. Done([c |-> writeOperand(x.c, i.ops[1], x.v), flags |-> f], o, mc, i)
  BY <1>1, <1>7, <1>9, <1>14, <1>16, <1>17, Finish DEF ty
<1> QED
  BY <1>4, <1>18

(***************************************************************************)
(* Moves.                                                                  *)
(***************************************************************************)

\* What a move with extension writes.
Extended(opcode, x, from, ty) == Wrap(IF opcode = "SEXT" THEN Signed(x, from) ELSE x, ty)

LEMMA ExtendedWord ==
  ASSUME NEW from \in Types, NEW ty \in Types, NEW x \in Words(from), NEW opcode
  PROVE  /\ Extended(opcode, x, from, ty) \in Words(ty)
         /\ opcode = "ZEXT" /\ x \in Words(ty) => Extended(opcode, x, from, ty) = x
<1>1. Signed(x, from) \in Int /\ x \in Int
  BY SignedWord, WordInt
<1> QED
  BY <1>1, WrapWord DEF Extended

LEMMA ExtendRan ==
  ASSUME NEW c, NEW o, NEW s, Ran(c, o, s), NEW mc, MachineOK(mc), Shows(s, mc), NEW ops,
         ops[1].kind = "reg", RegOK(ops[1].reg), NEW from \in Types, from = OperandType(ops[2]),
         Operand(o, mc, ops[2], from), ops[2].kind = "reg" \/ ops[2].ty # "i64",
         NEW opcode \in {"ZEXT", "SEXT"}
  PROVE  Writes(Extend(c, opcode, ops), o, s,
                After(o, mc, RegPut(mc, ops[1].reg,
                      Extended(opcode, Get(mc, ops[2], from), from, typeOfReg(ops[1].reg)))))
<1> DEFINE reg == ops[1].reg
           ty == typeOfReg(reg)
           x == Get(mc, ops[2], from)
           y == Extended(opcode, x, from, ty)
           src == readOperand(c, ops[2], from)
           wide == Then(src, "block", opcode, ty)
<1>1. Extend(c, opcode, ops) = writeReg(wide.c, reg, wide.v)
  BY DEF Extend, regValue
<1>2. x \in Words(from) /\ x \in Int
  BY OperandRight
<1>3. ty \in Types
  BY RegTypes
<1>4. y \in Words(ty) /\ y \in Int
  <2> HIDE DEF x, ty
  <2> QED
    BY <1>2, <1>3, ExtendedWord, WordInt
<1>5. Gives(src, o, s, x, from)
  BY ReadRight
<1> HIDE DEF x, src
<1>6. y = Un(s.m, opcode, ty, from, x) /\ opcode \in Unaries
  BY DEF Un, Extended, Unaries, Moving
<1> HIDE DEF y
<1>7. Gives(wide, o, s, y, ty)
  BY <1>4, <1>5, <1>6, ThenUn
<1> HIDE DEF wide
<1>8. PICK t : Ran(wide.c, o, t) /\ Reads(t, s) /\ Held(wide.v, t, y, ty)
  BY <1>7 DEF Gives
<1>9. Shows(t, mc)
  BY <1>8, ReadsShows
<1>10. Writes(writeReg(wide.c, reg, wide.v), o, t, After(o, mc, RegPut(mc, reg, y)))
  <2> DEFINE d == wide.c
             v == wide.v
  <2>1. Ran(d, o, t) /\ Held(v, t, y, ty)
    BY <1>8
  <2> HIDE DEF d, v, reg
  <2>2. Writes(writeReg(d, reg, v), o, t, After(o, mc, RegPut(mc, reg, y)))
    BY <1>4, <1>9, <2>1, WriteReg DEF reg
  <2> QED
    BY <2>2 DEF d, v
<1>11. Writes(writeReg(wide.c, reg, wide.v), o, s, After(o, mc, RegPut(mc, reg, y)))
  BY <1>8, <1>10, WritesReads
<1> QED
  BY <1>1, <1>11 DEF y, x

\* A register write that is all an instruction without a record does.
LEMMA WritesDone ==
  ASSUME NEW d, NEW o, NEW s, NEW mc, NEW i,
         i.mn \notin Arithmetics \/ Overwritten(i),
         Writes(d, o, s, After(o, mc, Processor(mc, i))), mc.m = Processor(mc, i).m, NEW f
  PROVE  Done([c |-> d, flags |-> f], o, mc, i)
<1>1. PICK t : Ran(d, o, t) /\ Lasts(t, s) /\ Shows(t, After(o, mc, Processor(mc, i)))
  BY DEF Writes
<1>2. Effect(t, o, Processor(mc, i))
  BY <1>1, ShowsEffect
<1> QED
  BY <1>1, <1>2 DEF Done, RecordRight

\* Of a register or memory the processor reads all.
LEMMA GetPlace ==
  ASSUME NEW op, IsPlace(op) PROVE \A mc, a, b : Get(mc, op, a) = Get(mc, op, b)
BY DEF IsPlace, IsReg, IsMem, Get

LEMMA ExtendDone ==
  ASSUME NEW c, NEW o, NEW s, NEW mc, NEW i, Ready(c, o, s, mc, i), i.mn \in {"MOVZX", "MOVSX"}, NEW f
  PROVE  Done([c |-> Extend(c, IF i.mn = "MOVZX" THEN "ZEXT" ELSE "SEXT", i.ops), flags |-> f],
              o, mc, i)
<1> DEFINE opcode == IF i.mn = "MOVZX" THEN "ZEXT" ELSE "SEXT"
           reg == i.ops[1].reg
           ty == typeOfReg(reg)
           from == OperandType(i.ops[2])
           x == Get(mc, i.ops[2], from)
           y == Extended(opcode, x, from, ty)
<1>1. /\ Len(i.ops) = 2 /\ IsReg(i.ops[1]) /\ IsPlace(i.ops[2]) /\ Narrower(i.ops[2], i.ops[1])
      /\ IsMem(i.ops[2]) => i.ops[2].ty # "i64"
      /\ 1 \in 1 .. Len(i.ops) /\ 2 \in 1 .. Len(i.ops) /\ IsPlace(i.ops[1])
  BY DEF Ready, Decoded, IsPlace
<1>2. /\ Operand(o, mc, i.ops[2], from) /\ from \in Types
      /\ Operand(o, mc, i.ops[1], OperandType(i.ops[1]))
  BY <1>1, OperandReady
<1>3. /\ i.ops[1].kind = "reg" /\ RegOK(reg) /\ OperandType(i.ops[1]) = ty
      /\ ty \in Types
      /\ i.ops[2].kind = "reg" \/ i.ops[2].ty # "i64"
  BY <1>1, <1>2, IsKinds, OpKinds, RegTypes DEF Operand, IsPlace
<1>4. x \in Words(from)
  BY <1>2, OperandRight DEF Ready
<1>5. Writes(Extend(c, opcode, i.ops), o, s, After(o, mc, RegPut(mc, reg, y)))
  <2> DEFINE ops == i.ops
  <2>1. /\ ops[1].kind = "reg" /\ RegOK(ops[1].reg) /\ from = OperandType(ops[2])
        /\ Operand(o, mc, ops[2], from)
        /\ ops[2].kind = "reg" \/ ops[2].ty # "i64"
    BY <1>2, <1>3
  <2>2. opcode \in {"ZEXT", "SEXT"} /\ from \in Types
    BY <1>2
  <2>3. Ran(c, o, s) /\ MachineOK(mc) /\ Shows(s, mc)
    BY DEF Ready
  <2> HIDE DEF ops, opcode, from
  <2>4. Writes(Extend(c, opcode, ops), o, s,
               After(o, mc, RegPut(mc, ops[1].reg,
                     Extended(opcode, Get(mc, ops[2], from), from, typeOfReg(ops[1].reg)))))
    BY <2>1, <2>2, <2>3, ExtendRan
  <2> QED
    BY <2>4 DEF ops
<1>6. Put(mc, i.ops[1], y) = RegPut(mc, reg, y)
  BY <1>3 DEF Put
<1>7. Processor(mc, i) = RegPut(mc, reg, y)
  <2>1. Get(mc, i.ops[2], ty) = x
    BY <1>1, GetPlace
  <2>2. CASE i.mn = "MOVZX"
    <3>1. Processor(mc, i) = Put(mc, i.ops[1], x)
      BY <1>3, <2>1, <2>2 DEF Processor
    <3>2. x \in Words(ty)
      BY <1>1, <1>2, <1>3, <1>4, WordWider DEF Narrower
    <3>3. y = x
      <4>1. opcode = "ZEXT"
        BY <2>2
      <4> HIDE DEF opcode, x, ty, from
      <4> QED
        BY <1>2, <1>3, <1>4, <3>2, <4>1, ExtendedWord
    <3> QED
      BY <1>6, <3>1, <3>3
  <2>3. CASE i.mn = "MOVSX"
    <3>1. Processor(mc, i) = Put(mc, i.ops[1], Wrap(Signed(x, from), ty))
      BY <1>3, <2>1, <2>3 DEF Processor
    <3>2. y = Wrap(Signed(x, from), ty)
      BY <2>3 DEF Extended
    <3> QED
      BY <1>6, <3>1, <3>2
  <2> QED
    BY <2>2, <2>3
<1>8. RegPut(mc, reg, y).m = mc.m
  <2>1. y \in Words(ty)
    <3> HIDE DEF opcode, x, ty, from
    <3> QED
      BY <1>2, <1>3, <1>4, ExtendedWord
  <2> HIDE DEF y
  <2> QED
    BY <1>3, <2>1, PutMachine DEF Ready
<1>9. i.mn \notin Arithmetics
  BY DEF Arithmetics
<1> HIDE DEF y, opcode
<1>10. Done([c |-> Extend(c, opcode, i.ops), flags |-> f], o, mc, i)
  BY <1>5, <1>7, <1>8, <1>9, WritesDone
<1> QED
  BY <1>10 DEF opcode

\* A register that has been written reads as what was written, and writing
\* that again changes nothing.
LEMMA PutTwice ==
  ASSUME NEW reg, RegOK(reg), NEW mc, MachineOK(mc), NEW x \in Words(typeOfReg(reg))
  PROVE  /\ RegGet(RegPut(mc, reg, x), reg) = x
         /\ RegPut(RegPut(mc, reg, x), reg, x) = RegPut(mc, reg, x)
<1> DEFINE ty == typeOfReg(reg)
           mc1 == RegPut(mc, reg, x)
           mc2 == RegPut(mc1, reg, x)
           old == mc.r[reg.name]
           new == mc1.r[reg.name]
<1>1. ty \in Types /\ x \in Int /\ Wrap(x, ty) = x
  BY RegTypes, WordInt, WrapWord
<1>2. reg.name \in GprNames
  BY GprId DEF RegOK
<1>3. /\ MachineOK(mc1) /\ mc1.m = mc.m
      /\ new = IF ty \in {"i64", "i32"} THEN x ELSE old - Wrap(old, ty) + x
  BY <1>2, PutMachine
<1>4. old \in Int /\ Wrap(old, ty) \in Int
  BY <1>1, RegWord, WrapWord
<1> HIDE DEF mc1
<1>5. new \in Int /\ RegGet(mc1, reg) = Wrap(new, ty)
  BY <1>3, RegWord
<1> HIDE DEF ty, old, new
<1>6. Wrap(new, ty) = x
  <2>1. CASE ty \in {"i64", "i32"}
    BY <1>1, <1>3, <2>1
  <2>2. CASE ty \notin {"i64", "i32"}
    <3> DEFINE d == x - Wrap(old, ty)
    <3>1. d \in Int /\ new = old + d /\ Wrap(old, ty) + d = x
      BY <1>1, <1>3, <1>4, <2>2
    <3> HIDE DEF d
    <3>2. Wrap(Wrap(old, ty) + d, ty) = Wrap(old + d, ty)
      BY <1>1, <1>4, <3>1, WrapOps
    <3> QED
      BY <1>1, <3>1, <3>2
  <2> QED
    BY <2>1, <2>2
<1>7. /\ \A name \in GprNames :
           mc2.r[name] = IF name # reg.name THEN mc1.r[name]
                         ELSE IF ty \in {"i64", "i32"} THEN x ELSE new - Wrap(new, ty) + x
      /\ mc2.m = mc1.m /\ MachineOK(mc2)
  BY <1>3, PutMachine DEF ty, new
<1>8. mc2.r[reg.name] = new
  <2>1. ty \notin {"i64", "i32"} => new - Wrap(new, ty) + x = new
    BY <1>1, <1>5, <1>6
  <2> QED
    BY <1>2, <1>3, <1>7, <2>1
<1>9. mc2.r = mc1.r
  <2>1. \A name \in GprNames : mc2.r[name] = mc1.r[name]
    BY <1>7, <1>8 DEF new
  <2>2. mc1.r \in [GprNames -> Words("i64")] /\ mc2.r \in [GprNames -> Words("i64")]
    BY <1>3, <1>7 DEF MachineOK
  <2> HIDE DEF mc2
  <2> DEFINE a == mc1.r
             b == mc2.r
  <2> HIDE DEF a, b
  <2>3. a \in [GprNames -> Words("i64")] /\ b \in [GprNames -> Words("i64")]
    BY <2>2 DEF a, b
  <2>4. \A name \in GprNames : b[name] = a[name]
    BY <2>1 DEF a, b
  <2>5. a = b
    BY <2>3, <2>4
  <2> QED
    BY <2>5 DEF a, b
<1>10. mc2.rip = mc1.rip
  <2>1. \E y : mc2 = [mc1 EXCEPT !.r[reg.name] = y]
    BY DEF RegPut
  <2>2. PICK y : mc2 = [mc1 EXCEPT !.r[reg.name] = y]
    BY <2>1
  <2> HIDE DEF mc2
  <2> QED
    BY <1>3, <2>2 DEF MachineOK
<1>11. mc2 = mc1
  <2> HIDE DEF mc2
  <2> QED
    BY <1>3, <1>7, <1>9, <1>10 DEF MachineOK
<1> QED
  BY <1>5, <1>6, <1>11 DEF mc1

\* MOV to a register: the source read a second time is what was read first.
LEMMA MovReg ==
  ASSUME NEW c, NEW o, NEW s, NEW mc, NEW i, Ready(c, o, s, mc, i), i.mn = "MOV",
         i.ops[1].kind = "reg", RegOK(i.ops[1].reg),
         NEW ty \in Types, ty = typeOfReg(i.ops[1].reg), ty = OperandType(i.ops[2]),
         i.ops[2].kind = "reg" \/ i.ops[2].ty # "i64",
         NEW x, x = Get(mc, i.ops[2], ty), Operand(o, mc, i.ops[2], ty),
         Get(RegPut(mc, i.ops[1].reg, x), i.ops[2], ty) = x,
         Operand(o, RegPut(mc, i.ops[1].reg, x), i.ops[2], ty), NEW f
  PROVE  Done([c |-> Mov(c, i.ops), flags |-> f], o, mc, i)
<1> DEFINE ops == i.ops
           reg == ops[1].reg
           mc1 == RegPut(mc, reg, x)
           now == After(o, mc, mc1)
           src == readOperand(c, ops[2], ty)
           d == writeReg(src.c, reg, src.v)
<1>1. Mov(c, ops) = Extend(d, "ZEXT", ops)
  BY DEF Mov, writeOperand
<1>2. x \in Words(ty)
  BY OperandRight DEF Ready
<1>3. Gives(src, o, s, x, ty)
  BY ReadRight DEF Ready
<1>4. Processor(mc, i) = mc1 /\ i.mn \notin Arithmetics
  BY DEF Processor, Put, OperandType, Arithmetics
<1>5. MachineOK(mc1) /\ mc1.m = mc.m /\ RegPut(mc1, reg, x) = mc1
  <2>1. RegOK(reg) /\ MachineOK(mc) /\ x \in Words(typeOfReg(reg))
    BY <1>2 DEF Ready
  <2> HIDE DEF reg, ops
  <2> QED
    BY <2>1, PutMachine, PutTwice
<1>6. /\ ops[1].kind = "reg" /\ RegOK(reg) /\ reg = ops[1].reg /\ ty = typeOfReg(reg)
      /\ ty = OperandType(ops[2]) /\ ty \in Types
      /\ ops[2].kind = "reg" \/ ops[2].ty # "i64"
      /\ x = Get(mc, ops[2], ty) /\ Operand(o, mc, ops[2], ty)
      /\ Get(mc1, ops[2], ty) = x /\ Operand(o, mc1, ops[2], ty)
  OBVIOUS
<1> HIDE DEF src, mc1, reg, ops, now
<1>7. PICK t : Ran(src.c, o, t) /\ Reads(t, s) /\ Held(src.v, t, x, ty)
  BY <1>3 DEF Gives
<1>8. Shows(t, mc) /\ MachineOK(mc)
  BY <1>7, ReadsShows DEF Ready
<1>9. Writes(d, o, t, now)
  <2> DEFINE e == src.c
             v == src.v
  <2>1. Ran(e, o, t) /\ Held(v, t, x, ty)
    BY <1>7
  <2> HIDE DEF e, v
  <2>2. Writes(writeReg(e, reg, v), o, t, After(o, mc, RegPut(mc, reg, x)))
    BY <1>2, <1>6, <1>8, <2>1, WriteReg
  <2> QED
    BY <2>2 DEF e, v, now, mc1
<1> HIDE DEF d
<1>10. PICK u : Ran(d, o, u) /\ Lasts(u, t) /\ Shows(u, now)
  BY <1>9 DEF Writes
<1>11. /\ MachineOK(now) /\ Operand(o, now, ops[2], ty) /\ Get(now, ops[2], ty) = x
       /\ After(o, now, RegPut(now, reg, x)) = now
  BY <1>5, <1>6, <1>8 DEF now, After
<1>12. Extended("ZEXT", x, ty, ty) = x
  BY <1>2, <1>6, ExtendedWord
<1>13. Writes(Extend(d, "ZEXT", ops), o, u, now)
  <2> DEFINE opcode == "ZEXT"
  <2>1. opcode \in {"ZEXT", "SEXT"}
    OBVIOUS
  <2> HIDE DEF opcode
  <2>2. Writes(Extend(d, opcode, ops), o, u,
               After(o, now, RegPut(now, ops[1].reg,
                     Extended(opcode, Get(now, ops[2], ty), ty, typeOfReg(ops[1].reg)))))
    BY <1>6, <1>10, <1>11, <2>1, ExtendRan
  <2> QED
    BY <1>6, <1>11, <1>12, <2>2 DEF opcode
<1>14. Writes(Mov(c, ops), o, u, After(o, mc, Processor(mc, i)))
  BY <1>1, <1>4, <1>13 DEF now
<1> QED
  BY <1>4, <1>5, <1>14, WritesDone DEF ops

\* MOV to memory: what follows is only read.
LEMMA MovMem ==
  ASSUME NEW c, NEW o, NEW s, NEW mc, NEW i, Ready(c, o, s, mc, i), i.mn = "MOV",
         i.ops[1].kind = "mem", NEW ty \in Types, ty = OperandType(i.ops[1]), ty = OperandType(i.ops[2]),
         Operand(o, mc, i.ops[1], ty), Operand(o, mc, i.ops[2], ty), NEW f
  PROVE  Done([c |-> Mov(c, i.ops), flags |-> f], o, mc, i)
<1> DEFINE ops == i.ops
           op == ops[1]
           x == Get(mc, ops[2], ty)
           mc1 == Put(mc, op, x)
           src == readOperand(c, ops[2], ty)
           d == writeOperand(src.c, op, src.v)
           from == IF ops[2].kind # "reg" /\ ops[2].ty = "i64" THEN "i8" ELSE ty
           r == readOperand(d, ops[2], from)
           wide == Then(r, "block", "ZEXT", "i64")
<1>1. Mov(c, ops) = wide.c
  <2>1. ops[1].kind # "reg" /\ regValue(ops[1]) = NoReg
    BY DEF regValue
  <2>2. typeOfReg(NoReg) = "i64"
    BY DEF typeOfReg, NoReg
  <2>3. Mov(c, ops) = Extend(d, "ZEXT", ops)
    BY <2>1 DEF Mov
  <2>4. Extend(d, "ZEXT", ops) = writeReg(wide.c, NoReg, wide.v)
    BY <2>1, <2>2 DEF Extend
  <2> QED
    BY <2>3, <2>4, NotTracked, WriteNone
<1>2. x \in Words(ty) /\ x \in Int /\ Gives(src, o, s, x, ty)
  BY OperandRight, ReadRight DEF Ready
<1>3. Processor(mc, i) = mc1 /\ i.mn \notin Arithmetics
  BY DEF Processor, Arithmetics
<1>4. /\ op.kind = "mem" /\ OpOK(op) /\ Fits(o, op) /\ AddrExact(mc, op) /\ ty = op.ty
      /\ OpOK(ops[2]) /\ Fits(o, ops[2]) /\ from \in Types /\ MachineOK(mc)
  BY DEF Operand, OperandType, Types, Sizes, Ready
<1> HIDE DEF op, ops, src, from, x
<1>5. PICK t : Ran(src.c, o, t) /\ Reads(t, s) /\ Held(src.v, t, x, ty)
  BY <1>2 DEF Gives
<1>6. Shows(t, mc)
  BY <1>5, ReadsShows DEF Ready
<1>7. Stored(d, o, t, PutAfter(o, mc, op, x), op)
  <2> DEFINE e == src.c
             v == src.v
  <2>1. Ran(e, o, t) /\ Held(v, t, x, ty)
    BY <1>5
  <2> HIDE DEF e, v
  <2>2. Stored(writeOperand(e, op, v), o, t, PutAfter(o, mc, op, x), op)
    BY <1>2, <1>4, <1>6, <2>1, WriteOp
  <2> QED
    BY <2>2 DEF e, v
<1>8. PutAfter(o, mc, op, x) = mc1 /\ MachineOK(mc1)
  BY <1>2, <1>4, PutOK DEF PutAfter
<1> HIDE DEF d, mc1
<1>9. PICK u : Ran(d, o, u) /\ Shows(u, mc1)
  BY <1>7, <1>8 DEF Stored
<1> DEFINE y == Fetched(mc1, ops[2], from)
<1>10. Gives(r, o, u, y, FetchType(ops[2], from)) /\ y \in Int
  BY <1>4, <1>8, <1>9, ReadOp, FetchedWord
<1> DEFINE z == Wrap(y, "i64")
<1>11. z \in Int /\ z = Un(u.m, "ZEXT", "i64", FetchType(ops[2], from), y) /\ "ZEXT" \in Unaries
  <2>1. z \in Int
    <3> HIDE DEF y
    <3> QED
      BY <1>10, WrapWord DEF Types, Sizes
  <2> QED
    BY <2>1 DEF Un, Unaries, Moving
<1> HIDE DEF r, y, z
<1>12. Gives(wide, o, u, z, "i64")
  BY <1>10, <1>11, ThenUn
<1> HIDE DEF wide
<1>13. PICK w : Ran(wide.c, o, w) /\ Reads(w, u)
  BY <1>12 DEF Gives
<1>14. Shows(w, mc1)
  BY <1>9, <1>13, ReadsShows
<1>15. Effect(w, o, Processor(mc, i)) /\ RecordRight(f, w, mc, i)
  BY <1>3, <1>14 DEF Shows, Effect, RecordRight
<1> QED
  BY <1>1, <1>13, <1>15 DEF Done, ops

\* An operand that does not read the register is not changed by writing it.
LEMMA PutElsewhere ==
  ASSUME NEW mc, MachineOK(mc), NEW reg, RegOK(reg), NEW x \in Words(typeOfReg(reg)),
         NEW o, NEW ty, NEW op, Operand(o, mc, op, ty), op.kind # "reg",
         \A a \in RegsOf(op) : a.name # reg.name
  PROVE  /\ Get(RegPut(mc, reg, x), op, ty) = Get(mc, op, ty)
         /\ Operand(o, RegPut(mc, reg, x), op, ty)
<1> DEFINE mc1 == RegPut(mc, reg, x)
<1>1. /\ MachineOK(mc1) /\ mc1.m = mc.m
      /\ \A name \in GprNames : name # reg.name => mc1.r[name] = mc.r[name]
  BY PutMachine
<1> HIDE DEF mc1
<1>2. CASE op.kind = "imm"
  BY <1>2 DEF Get, Operand, AddrExact, mc1
<1>3. CASE op.kind = "mem"
  <2>1. MemOK(op)
    BY <1>3, OpKinds DEF Operand
  <2>2. \A a \in {op.base, op.index} : Part(mc1, a) = Part(mc, a)
    <3>1. SUFFICES ASSUME NEW a \in {op.base, op.index}, a # NoReg
                   PROVE RegGet(mc1, a) = RegGet(mc, a)
      BY DEF Part
    <3>2. a \in RegsOf(op) /\ RegOK(a)
      BY <1>3, <2>1, <3>1 DEF RegsOf, MemOK, BaseOK
    <3>3. a.name \in GprNames
      BY <3>2, GprId DEF RegOK
    <3>4. mc1.r[a.name] = mc.r[a.name]
      BY <1>1, <3>2, <3>3
    <3> QED
      BY <1>1, <3>2, <3>4, RegWord
  <2>3. AddressSum(mc1, op) = AddressSum(mc, op)
    BY <1>1, <2>1, <2>2, SumParts
  <2>4. Address(mc1, op) = Address(mc, op)
    BY <2>3 DEF Address
  <2> QED
    BY <1>1, <1>3, <2>3, <2>4 DEF Get, Operand, AddrExact, mc1
<1> QED
  BY <1>2, <1>3, OpKinds DEF Operand

LEMMA MovDone ==
  ASSUME NEW c, NEW o, NEW s, NEW mc, NEW i, Ready(c, o, s, mc, i), i.mn = "MOV", NEW f
  PROVE  Done([c |-> Mov(c, i.ops), flags |-> f], o, mc, i)
<1> DEFINE dst == i.ops[1]
           src == i.ops[2]
           ty == OperandType(src)
<1>1. /\ IsPlace(dst) /\ (IsPlace(src) \/ IsImm(src))
      /\ IsReg(dst) /\ IsReg(src) => OperandType(dst) = ty
      /\ 1 \in 1 .. Len(i.ops) /\ 2 \in 1 .. Len(i.ops)
  BY DEF Ready, Decoded
<1>2. /\ Operand(o, mc, dst, OperandType(dst)) /\ Operand(o, mc, src, ty) /\ ty \in Types
  BY <1>1, OperandReady
<1>3. MovesTwice(dst, src)
  BY DEF Ready, Covered
<1>4. CASE dst.kind = "mem" /\ OperandType(src) = OperandType(dst)
  BY <1>2, <1>4, MovMem
<1>5. CASE dst.kind = "reg"
  <2>1. RegOK(dst.reg) /\ OperandType(dst) = typeOfReg(dst.reg)
    BY <1>2, <1>5, OpKinds DEF Operand, OperandType
  <2>2. ty = typeOfReg(dst.reg)
    <3>1. IsReg(dst)
      BY <1>1, <1>5 DEF IsPlace, IsMem
    <3>2. src.kind = "reg" => IsReg(src)
      BY <1>1 DEF IsPlace, IsMem, IsImm
    <3> QED
      BY <1>1, <1>3, <1>5, <2>1, <3>1, <3>2 DEF MovesTwice
  <2> DEFINE x == Get(mc, src, ty)
             mc1 == RegPut(mc, dst.reg, x)
  <2>3. x \in Words(ty)
    BY <1>2, OperandRight DEF Ready
  <2>4. /\ Get(mc1, src, ty) = x /\ Operand(o, mc1, src, ty)
        /\ src.kind = "reg" \/ src.ty # "i64"
    <3>1. CASE src.kind = "reg"
      <4>1. RegOK(src.reg) /\ x = RegGet(mc, src.reg) /\ typeOfReg(src.reg) = ty
        BY <1>2, <3>1, OpKinds DEF Operand, Get, OperandType
      <4>2. MachineOK(mc1)
        BY <2>1, <2>2, <2>3, PutMachine DEF Ready
      <4>3. RegGet(mc1, src.reg) = x
        <5>1. CASE src.reg.name = dst.reg.name
          <6>1. RegGet(mc1, dst.reg) = x
            BY <2>1, <2>2, <2>3, PutTwice DEF Ready
          <6>2. RegGet(mc1, src.reg) = RegGet(mc1, dst.reg)
            BY <2>1, <2>2, <4>1, <4>2, <5>1, RegWord
          <6> QED
            BY <6>1, <6>2
        <5>2. CASE src.reg.name # dst.reg.name
          <6>1. src.reg.name \in GprNames
            BY <4>1, GprId DEF RegOK
          <6>2. mc1.r[src.reg.name] = mc.r[src.reg.name]
            BY <2>1, <2>2, <2>3, <5>2, <6>1, PutMachine DEF Ready
          <6> QED
            BY <4>1, <4>2, <6>2, RegWord DEF Ready
        <5> QED
          BY <5>1, <5>2
      <4> HIDE DEF mc1
      <4>4. Get(mc1, src, ty) = x
        BY <3>1, <4>3 DEF Get
      <4>5. Operand(o, mc1, src, ty)
        BY <1>2, <3>1 DEF Operand, AddrExact
      <4> QED
        BY <3>1, <4>4, <4>5
    <3>2. CASE src.kind # "reg"
      <4>1. ty # "i64" /\ \A a \in RegsOf(src) : a.name # dst.reg.name
        BY <1>3, <1>5, <3>2 DEF MovesTwice, canonicalReg
      <4>2. src.ty # "i64"
        BY <3>2, <4>1 DEF OperandType
      <4> HIDE DEF ty, src, dst
      <4>3. Get(mc1, src, ty) = x /\ Operand(o, mc1, src, ty)
        BY <1>2, <2>1, <2>2, <2>3, <3>2, <4>1, PutElsewhere DEF Ready
      <4> QED
        BY <4>2, <4>3
    <3> QED
      BY <3>1, <3>2
  <2> HIDE DEF x
  <2> QED
    BY <1>2, <1>5, <2>1, <2>2, <2>4, MovReg DEF x
<1> QED
  BY <1>3, <1>4, <1>5 DEF MovesTwice

(***************************************************************************)
(* Addresses, products and quotients.                                      *)
(***************************************************************************)

LEMMA LeaDone ==
  ASSUME NEW c, NEW o, NEW s, NEW mc, NEW i, Ready(c, o, s, mc, i), i.mn = "LEA", NEW f
  PROVE  Done([c |-> Lea(c, i.ops), flags |-> f], o, mc, i)
<1> DEFINE op == i.ops[2]
           reg == i.ops[1].reg
           ty == typeOfReg(reg)
           a == Address(mc, op)
           ptr == computeAddr(c, op)
           addr == Then(ptr, "block", "PTRTOINT", "i16")
           v == VReg(addr.v.id, "i64")
<1>1. /\ IsReg(i.ops[1]) /\ ty # "i8" /\ IsMem(op)
      /\ 1 \in 1 .. Len(i.ops) /\ 2 \in 1 .. Len(i.ops) /\ IsPlace(i.ops[1]) /\ IsPlace(op)
  BY DEF Ready, Decoded, IsPlace
<1>2. Operand(o, mc, op, OperandType(op)) /\ Operand(o, mc, i.ops[1], OperandType(i.ops[1]))
  BY <1>1, OperandReady
<1>3. /\ RegOK(reg) /\ MemOK(op) /\ OperandType(i.ops[1]) = ty /\ ty \in Sizes /\ ty \in Types
      /\ Fits(o, op) /\ AddrExact(mc, op) /\ MachineOK(mc) /\ Ran(c, o, s) /\ Shows(s, mc)
  BY <1>1, <1>2, IsKinds, OpKinds, RegTypes DEF Operand, Ready
<1>4. Lea(c, i.ops) = writeReg(addr.c, reg, v)
  BY DEF Lea
<1>5. a < Pow2[Width("i16")]
  BY DEF Ready, Covered
<1>6. Processor(mc, i) = RegPut(mc, reg, Wrap(a, ty)) /\ i.mn \notin Arithmetics
  BY <1>3 DEF Processor, Arithmetics
<1> HIDE DEF reg, op
<1>7. a = Wrap(AddressSum(mc, op), "ptr") /\ a \in Words("ptr") /\ a \in Nat
  <2>1. a = Wrap(AddressSum(mc, op), "ptr") /\ AddressSum(mc, op) \in Int
    BY <1>3, AddrRight, SumParts
  <2>2. "ptr" \in Types
    BY DEF Types
  <2>3. a \in Words("ptr")
    BY <2>1, <2>2, WrapWord
  <2> QED
    BY <2>1, <2>2, <2>3, WordInt
<1>8. a \in Words("i16") /\ a \in Words(ty)
  <2> DEFINE m == Pow2[Width("i16")]
  <2>1. m \in Nat
    BY Moduli DEF M, Types, Sizes
  <2>2. a \in 0 .. m - 1
    <3> HIDE DEF m, a
    <3> QED
      BY <1>5, <1>7, <2>1 DEF m
  <2>3. Width("i16") <= Width(ty)
    BY <1>1, <1>3, Widths DEF Types, Sizes
  <2>4. Words("i16") \subseteq Words(ty)
    BY <1>3, <2>3, WordWider DEF Types, Sizes
  <2> QED
    BY <2>2, <2>4 DEF Words
<1>9. Wrap(a, "i16") = a /\ Wrap(a, ty) = a
  <2> HIDE DEF a, ty
  <2> QED
    BY <1>3, <1>7, <1>8, WrapWord DEF Types, Sizes
<1>10. Gives(ptr, o, s, a, "ptr")
  BY <1>3, <1>7, AddrGives
<1> HIDE DEF a, ptr, ty
<1>11. a = Un(s.m, "PTRTOINT", "i16", "ptr", a) /\ "PTRTOINT" \in Unaries
  BY <1>9 DEF Un, Unaries, Moving
<1>12. Gives(addr, o, s, a, "i16")
  BY <1>7, <1>10, <1>11, ThenUn
<1>13. addr.v.kind = "vreg"
  BY DEF Then, Into, VReg
<1> HIDE DEF addr
<1>14. PICK t : Ran(addr.c, o, t) /\ Reads(t, s) /\ Held(addr.v, t, a, "i16")
  BY <1>12 DEF Gives
<1>15. Held(v, t, a, "i64")
  BY <1>13, <1>14 DEF Held, VReg, Value
<1>16. Shows(t, mc)
  BY <1>3, <1>14, ReadsShows
<1>17. Writes(writeReg(addr.c, reg, v), o, t, After(o, mc, RegPut(mc, reg, a)))
  <2> DEFINE d == addr.c
  <2>1. Ran(d, o, t)
    BY <1>14
  <2> HIDE DEF d, v
  <2>2. Writes(writeReg(d, reg, v), o, t, After(o, mc, RegPut(mc, reg, a)))
    BY <1>3, <1>8, <1>15, <1>16, <2>1, WriteReg DEF ty
  <2> QED
    BY <2>2 DEF d
<1>18. RegPut(mc, reg, a).m = mc.m
  BY <1>3, <1>8, PutMachine DEF ty
<1> QED
  BY <1>4, <1>6, <1>9, <1>17, <1>18, WritesDone

\* A value no register write disturbs.
Apart(v) == v.kind = "vreg" => v.id \notin 0 .. 15

LEMMA ApartHeld ==
  ASSUME NEW s, NEW t, Lasts(t, s), NEW v, Apart(v), NEW x, NEW ty, Held(v, s, x, ty)
  PROVE  Held(v, t, x, ty)
<1>1. CASE v.kind = "vreg"
  <2>1. v.id \in DOMAIN s.v /\ v.id \notin 0 .. 15
    BY <1>1 DEF Held, Value, Apart
  <2>2. Value(t, v) = Value(s, v)
    BY <1>1, <2>1 DEF Lasts, Value
  <2> QED
    BY <2>2 DEF Held
<1>2. CASE v.kind # "vreg"
  BY <1>2 DEF Held, Value
<1> QED
  BY <1>1, <1>2

LEMMA IntoApart ==
  ASSUME NEW c, NEW o, NEW s, Ran(c, o, s), NEW where, NEW opcode, NEW ty, NEW operands
  PROVE  Apart(Into(c, where, opcode, ty, operands).v)
<1>1. c.next \in Nat /\ c.next >= 20
  BY AllocRan
<1>2. Into(c, where, opcode, ty, operands).v = VReg(c.next, ty)
  BY DEF Into
<1> QED
  BY <1>1, <1>2 DEF Apart, VReg

LEMMA PairRegs ==
  /\ RegOK(RAX) /\ RegOK(RDX) /\ typeOfReg(RAX) = "i64" /\ typeOfReg(RDX) = "i64"
  /\ RAX.name = "RAX" /\ RDX.name = "RDX"
  /\ RAX # NoReg
<1>1. 0 \in gprVRegIds(RAX) /\ 3 \in gprVRegIds(RDX)
  BY DEF gprVRegIds, Gprs, canonicalReg, RAX, RDX
<1> QED
  BY <1>1 DEF RegOK, RAX, RDX, NoReg, typeOfReg

\* The two writes of one-operand IMUL, DIV and IDIV.
LEMMA PairWrites ==
  ASSUME NEW d, NEW o, NEW s, Ran(d, o, s), NEW mc, MachineOK(mc), Shows(s, mc),
         NEW v, NEW x \in Words("i64"), NEW a, Held(v, s, x, a),
         NEW w, NEW y \in Words("i64"), NEW b, Held(w, s, y, b), Apart(w),
         NEW after, after = RegPut(RegPut(mc, RAX, x), RDX, y)
  PROVE  /\ Writes(writeReg(writeReg(d, RAX, v), RDX, w), o, s, After(o, mc, after))
         /\ after.m = mc.m
<1> DEFINE mc1 == RegPut(mc, RAX, x)
           now == After(o, mc, mc1)
           e == writeReg(d, RAX, v)
<1>1. MachineOK(mc1) /\ mc1.m = mc.m /\ after.m = mc1.m
  <2>1. MachineOK(mc1) /\ mc1.m = mc.m
    BY PairRegs, PutMachine
  <2>2. after = RegPut(mc1, RDX, y)
    OBVIOUS
  <2> HIDE DEF mc1
  <2>3. RegPut(mc1, RDX, y).m = mc1.m
    BY <2>1, PairRegs, PutMachine
  <2> QED
    BY <2>1, <2>2, <2>3
<1>2. Writes(e, o, s, now)
  BY PairRegs, WriteReg
<1>3. MachineOK(now) /\ After(o, now, RegPut(now, RDX, y)) = After(o, mc, after)
  BY <1>1 DEF After
<1> HIDE DEF mc1, now, e
<1>4. PICK t : Ran(e, o, t) /\ Lasts(t, s) /\ Shows(t, now)
  BY <1>2 DEF Writes
<1>5. Held(w, t, y, b)
  BY <1>4, ApartHeld
<1>6. Writes(writeReg(e, RDX, w), o, t, After(o, now, RegPut(now, RDX, y)))
  BY <1>3, <1>4, <1>5, PairRegs, WriteReg
<1>7. PICK u : Ran(writeReg(e, RDX, w), o, u) /\ Lasts(u, t) /\ Shows(u, After(o, mc, after))
  BY <1>3, <1>6 DEF Writes
<1>8. Lasts(u, s)
  BY <1>4, <1>7, ReadsLasts
<1> QED
  BY <1>1, <1>7, <1>8 DEF Writes, e

\* IMUL with two operands and three.
LEMMA MultiplyDone ==
  ASSUME NEW c, NEW o, NEW s, NEW mc, NEW i, Ready(c, o, s, mc, i), i.mn = "IMUL",
         Len(i.ops) \in {2, 3}
  PROVE  Done(Multiply(c, i.ops), o, mc, i)
<1> DEFINE ty == OperandType(i.ops[1])
           a == i.ops[Len(i.ops) - 1]
           b == i.ops[Len(i.ops)]
           x == Operate(c, "MUL", ty, a, b)
<1>1. /\ IsReg(i.ops[1]) /\ IsPlace(i.ops[1]) /\ IsPlace(i.ops[2]) /\ OperandType(i.ops[2]) = ty
      /\ Len(i.ops) = 3 => IsImm(i.ops[3])
      /\ 1 \in 1 .. Len(i.ops) /\ 2 \in 1 .. Len(i.ops) /\ (Len(i.ops) = 3 => 3 \in 1 .. Len(i.ops))
      /\ Len(i.ops) >= 1 /\ Len(i.ops) # 1
  BY DEF Ready, Decoded
<1>2. Operand(o, mc, i.ops[1], ty) /\ Operand(o, mc, i.ops[2], ty) /\ ty \in Types
  BY <1>1, OperandReady
<1>3. Len(i.ops) = 3 => Operand(o, mc, i.ops[3], ty)
  BY <1>1, OperandReady
<1>4. Operand(o, mc, a, ty) /\ Operand(o, mc, b, ty)
  <2>1. CASE Len(i.ops) = 2
    BY <1>2, <2>1
  <2>2. CASE Len(i.ops) = 3
    BY <1>2, <1>3, <2>2
  <2> QED
    BY <2>1, <2>2
<1>5. i.ops[1].kind = "reg" /\ ty = typeOfReg(i.ops[1].reg)
  BY <1>1, IsKinds
<1>6. Multiply(c, i.ops) = Update(x, i.ops, "IMUL", ty)
  <2>1. writeReg(x.c, i.ops[1].reg, x.v) = writeOperand(x.c, i.ops[1], x.v)
    BY <1>5 DEF writeOperand
  <2>2. Multiply(c, i.ops) = [c |-> writeReg(x.c, i.ops[1].reg, x.v), flags |-> Recorded(x, "IMUL", ty)]
    BY <1>1, <1>5 DEF Multiply
  <2> QED
    BY <2>1, <2>2 DEF Update
<1>7. /\ Left(mc, i) = Get(mc, a, ty) /\ Right(mc, i) = Get(mc, b, ty)
      /\ Outcome(mc, i) = Compute("MUL", Get(mc, a, ty), Get(mc, b, ty), ty)
  <2>1. Right(mc, i) = Get(mc, b, ty)
    BY DEF Right
  <2>2. Left(mc, i) = Get(mc, a, ty)
    <3>1. CASE Len(i.ops) = 2
      BY <3>1 DEF Left
    <3>2. CASE Len(i.ops) = 3
      BY <3>2 DEF Left
    <3> QED
      BY <3>1, <3>2
  <2> QED
    BY <2>1, <2>2 DEF Outcome, Arithmetic
<1>8. Processor(mc, i) = Put(mc, i.ops[1], Outcome(mc, i)) /\ i.mn \notin {"CMP", "TEST"}
  BY <1>1 DEF Processor
<1>9. /\ Computed(x, o, s, Left(mc, i), Right(mc, i), Outcome(mc, i), ty)
      /\ Outcome(mc, i) \in Words(ty)
  <2> DEFINE opcode == "MUL"
  <2>1. opcode \in Binaries
    BY DEF Binaries
  <2> HIDE DEF ty, a, b, opcode
  <2>2. /\ Computed(Operate(c, opcode, ty, a, b), o, s, Get(mc, a, ty), Get(mc, b, ty),
                    Compute(opcode, Get(mc, a, ty), Get(mc, b, ty), ty), ty)
        /\ Compute(opcode, Get(mc, a, ty), Get(mc, b, ty), ty) \in Words(ty)
    BY <1>2, <1>4, <2>1, OperateRight DEF Ready
  <2> QED
    BY <1>7, <2>2 DEF opcode
<1> HIDE DEF x
<1>10. Done(Update(x, i.ops, "IMUL", ty), o, mc, i)
  <2> DEFINE op == "IMUL"
  <2> HIDE DEF op
  <2>1. Done(Update(x, i.ops, op, ty), o, mc, i)
    BY <1>1, <1>8, <1>9, UpdateDone
  <2> QED
    BY <2>1 DEF op
<1> QED
  BY <1>6, <1>10

\* The low half of a product of two numbers is the product of the words.
LEMMA ProductWord ==
  ASSUME NEW x \in Words("i64"), NEW y \in Words("i64")
  PROVE  /\ Signed(x, "i64") * Signed(y, "i64") \in Int
         /\ Wrap(Signed(x, "i64") * Signed(y, "i64"), "i64") = Wrap(x * y, "i64")
<1> DEFINE a == Signed(x, "i64")
           b == Signed(y, "i64")
<1>1. "i64" \in Types
  BY DEF Types, Sizes
<1>2. a \in Int /\ b \in Int /\ Wrap(a, "i64") = x /\ Wrap(b, "i64") = y /\ x \in Int /\ y \in Int
  BY <1>1, SignedWord, WordInt
<1> HIDE DEF a, b
<1>3. Wrap(Wrap(a, "i64") * b, "i64") = Wrap(a * b, "i64")
  BY <1>1, <1>2, WrapOps
<1>4. Wrap(x * Wrap(b, "i64"), "i64") = Wrap(x * b, "i64")
  BY <1>1, <1>2, WrapOps
<1>5. a * b \in Int
  BY <1>2
<1> QED
  BY <1>2, <1>3, <1>4, <1>5 DEF a, b

\* RAX as an operand, as one-operand IMUL makes it.
Accumulator == [kind |-> "reg", reg |-> RAX]

LEMMA AccumulatorRight ==
  ASSUME NEW o, NEW mc, MachineOK(mc)
  PROVE  /\ Operand(o, mc, Accumulator, "i64")
         /\ Get(mc, Accumulator, "i64") = mc.r["RAX"]
         /\ mc.r["RAX"] \in Words("i64") /\ mc.r["RAX"] \in Nat
<1> DEFINE op == Accumulator
<1>1. op.kind = "reg" /\ op.reg = RAX
  BY DEF Accumulator
<1> HIDE DEF op
<1>2. OperandType(op) = "i64" /\ RegsOf(op) = {RAX}
  BY <1>1, PairRegs DEF OperandType, RegsOf
<1>3. RegGet(mc, RAX) = mc.r["RAX"] /\ mc.r["RAX"] \in Words("i64")
  BY PairRegs, RegWord
<1>4. mc.r["RAX"] \in Nat
  BY <1>3, WordInt DEF Types, Sizes
<1> QED
  BY <1>1, <1>2, <1>3, <1>4, PairRegs DEF Operand, OpOK, Fits, AddrExact, Get, op

\* IMUL with one operand, of a product that fits.
LEMMA MultiplyOneDone ==
  ASSUME NEW c, NEW o, NEW s, NEW mc, NEW i, Ready(c, o, s, mc, i), i.mn = "IMUL", Len(i.ops) = 1
  PROVE  Done(Multiply(c, i.ops), o, mc, i)
<1> DEFINE op == i.ops[1]
           x == Operate(c, "MUL", "i64", Accumulator, op)
           a == mc.r["RAX"]
           b == Get(mc, op, "i64")
           y == Wrap(a * b, "i64")
           p == Product(mc, i)
           zero == Imm(0, "i64")
           f == Recorded(x, "IMUL", "i64")
<1>1. /\ IsPlace(op) /\ 1 \in 1 .. Len(i.ops) /\ OperandType(op) = "i64" /\ MachineOK(mc)
      /\ p \in 0 .. Pow2[Width("i64")] - 1
  BY DEF Ready, Decoded, Covered
<1>2. "i64" \in Types
  BY DEF Types, Sizes
<1>3. Operand(o, mc, op, "i64") /\ b \in Words("i64") /\ b \in Int
  BY <1>1, <1>2, OperandReady, OperandRight
<1>4. /\ Operand(o, mc, Accumulator, "i64") /\ Get(mc, Accumulator, "i64") = a
      /\ a \in Words("i64") /\ a \in Int
  BY <1>1, AccumulatorRight
<1>5. Multiply(c, i.ops) = [c |-> writeReg(writeReg(x.c, RAX, x.v), RDX, zero), flags |-> f]
  BY DEF Multiply, Accumulator
<1>6. y \in Words("i64") /\ y \in Int
  <2>1. a * b \in Int
    BY <1>3, <1>4
  <2> HIDE DEF a, b
  <2> QED
    BY <1>2, <2>1, WrapWord
<1>7. p = Signed(a, "i64") * Signed(b, "i64") /\ p \in Int /\ Wrap(p, "i64") = y
  <2>1. Left(mc, i) = a /\ Right(mc, i) = b
    BY <1>1 DEF Left, Right
  <2>2. p = Signed(a, "i64") * Signed(b, "i64")
    BY <2>1 DEF Product
  <2> HIDE DEF p, a, b
  <2> QED
    BY <1>3, <1>4, <2>2, ProductWord DEF y
<1>8. p \div Pow2[Width("i64")] = 0 /\ Wrap(0, "i64") = 0 /\ 0 \in Words("i64")
  <2> DEFINE m == M("i64")
  <2>1. m \in Nat \ {0} /\ p \in 0 .. m - 1
    BY <1>1, <1>2, Moduli DEF M
  <2> HIDE DEF m, p
  <2>2. p \div m = 0
    BY <2>1, ModSmall
  <2>3. 0 \in Words("i64") /\ Wrap(0, "i64") = 0
    BY <1>2, WordInt, WrapWord
  <2> QED
    BY <2>2, <2>3 DEF m, M
<1> DEFINE after == RegPut(RegPut(mc, RAX, y), RDX, 0)
<1>9. Processor(mc, i) = after
  <2>1. Processor(mc, i) = SetPair(mc, p, p \div Pow2[Width("i64")])
    BY DEF Processor
  <2> HIDE DEF p, y
  <2> QED
    BY <1>7, <1>8, <2>1 DEF SetPair
<1>10. Computed(x, o, s, a, b, y, "i64")
  <2> DEFINE opcode == "MUL"
             acc == Accumulator
             ty == "i64"
  <2>1. opcode \in Binaries /\ ty \in Types /\ Operand(o, mc, acc, ty) /\ Operand(o, mc, op, ty)
    BY <1>2, <1>3, <1>4 DEF Binaries
  <2> HIDE DEF opcode, acc, op, ty
  <2>2. Computed(Operate(c, opcode, ty, acc, op), o, s, Get(mc, acc, ty), Get(mc, op, ty),
                 Compute(opcode, Get(mc, acc, ty), Get(mc, op, ty), ty), ty)
    BY <2>1, OperateRight DEF Ready
  <2>3. Compute("MUL", a, b, "i64") = y
    BY DEF Compute
  <2> QED
    BY <1>4, <2>2, <2>3 DEF opcode, acc, ty
<1> HIDE DEF x, a, b, y, zero, f
<1>11. PICK t : Ran(x.c, o, t) /\ Reads(t, s) /\ Held(x.v, t, y, "i64")
  BY <1>10 DEF Computed
<1>12. Shows(t, mc)
  BY <1>11, ReadsShows DEF Ready
<1>13. Held(zero, t, 0, "i64") /\ Apart(zero)
  <2>1. Held(Imm(0, "i64"), t, Wrap(0, "i64"), "i64")
    BY <1>2, ImmHeld
  <2>2. Apart(Imm(0, "i64"))
    BY DEF Apart, Imm
  <2> QED
    BY <1>8, <2>1, <2>2 DEF zero
<1> DEFINE d == x.c
           v == x.v
<1>14. Ran(d, o, t) /\ Held(v, t, y, "i64")
  BY <1>11
<1> HIDE DEF d, v, after
<1>15. /\ Writes(writeReg(writeReg(d, RAX, v), RDX, zero), o, t, After(o, mc, after))
       /\ after.m = mc.m
  <2>1. after = RegPut(RegPut(mc, RAX, y), RDX, 0)
    BY DEF after
  <2> QED
    BY <1>1, <1>6, <1>8, <1>12, <1>13, <1>14, <2>1, PairWrites
<1>16. Overwritten(i)
  BY <1>1 DEF Overwritten
<1>17. Done([c |-> writeReg(writeReg(d, RAX, v), RDX, zero), flags |-> f], o, mc, i)
  BY <1>9, <1>15, <1>16, WritesDone
<1> QED
  BY <1>5, <1>17 DEF d, v

\* Without a sign the quotient is the division of natural numbers.
LEMMA UnsignedQuotient ==
  ASSUME NEW x \in Nat, NEW y \in Nat, y # 0
  PROVE  /\ Quotient(x, y) = x \div y /\ x - (x \div y) * y = x % y
         /\ x \div y \in 0 .. x /\ x % y \in 0 .. y - 1
<1> DEFINE q == x \div y
           r == x % y
<1>1. x = y * q + r /\ q \in Int /\ r \in 0 .. y - 1
  BY Division
<1>2. q \in 0 .. x
  BY ShiftDown
<1>3. Quotient(x, y) = q
  BY DEF Quotient
<1> HIDE DEF q, r
<1>4. x - q * y = r
  BY <1>1
<1> QED
  BY <1>1, <1>2, <1>3, <1>4 DEF q, r

\* The opcodes compute the processor's quotient and remainder.
LEMMA DivideRight ==
  ASSUME NEW mc, NEW i, i.mn \in {"DIV", "IDIV"}, NEW a \in Words("i64"), NEW b \in Words("i64"),
         a = mc.r["RAX"], b = Right(mc, i),
         Pair(mc, i) = (IF i.mn = "DIV" THEN mc.r["RAX"] ELSE Signed(mc.r["RAX"], "i64")),
         Divisor(mc, i) # 0
  PROVE  LET q == Quotient(Pair(mc, i), Divisor(mc, i))
             quotient == IF i.mn = "DIV" THEN "UDIV" ELSE "SDIV"
             remainder == IF i.mn = "DIV" THEN "UREM" ELSE "SREM"
         IN  /\ Compute(quotient, a, b, "i64") = Wrap(q, "i64")
             /\ Compute(remainder, a, b, "i64") = Wrap(Pair(mc, i) - q * Divisor(mc, i), "i64")
             /\ Wrap(q, "i64") \in Words("i64") /\ Wrap(q, "i64") \in Int
             /\ Wrap(Pair(mc, i) - q * Divisor(mc, i), "i64") \in Words("i64")
             /\ Wrap(Pair(mc, i) - q * Divisor(mc, i), "i64") \in Int
<1>1. "i64" \in Types /\ a \in Nat /\ b \in Nat
  BY WordInt DEF Types, Sizes
<1>2. CASE i.mn = "DIV"
  <2>1. Pair(mc, i) = a /\ Divisor(mc, i) = b /\ b # 0
    BY <1>2 DEF Divisor
  <2> DEFINE q == a \div b
             r == a % b
  <2>2. /\ Quotient(a, b) = q /\ a - q * b = r /\ q \in 0 .. a /\ r \in 0 .. b - 1
    BY <1>1, <2>1, UnsignedQuotient
  <2>3. Compute("UDIV", a, b, "i64") = q /\ Compute("UREM", a, b, "i64") = r
    BY DEF Compute
  <2> HIDE DEF q, r
  <2>4. q \in Words("i64") /\ r \in Words("i64")
    <3> DEFINE m == M("i64")
    <3>1. m \in Nat /\ a \in 0 .. m - 1 /\ b \in 0 .. m - 1 /\ Words("i64") = 0 .. m - 1
      BY <1>1, Moduli DEF Words, M
    <3> HIDE DEF m
    <3>2. q \in Int /\ 0 <= q /\ q <= a /\ r \in Int /\ 0 <= r /\ r < b
      BY <1>1, <2>2
    <3>3. q \in 0 .. m - 1 /\ r \in 0 .. m - 1
      BY <1>1, <3>1, <3>2
    <3> QED
      BY <3>1, <3>3
  <2>5. Wrap(q, "i64") = q /\ Wrap(r, "i64") = r /\ q \in Int /\ r \in Int
    BY <1>1, <2>2, <2>4, WrapWord, WordInt
  <2> QED
    BY <1>2, <2>1, <2>2, <2>3, <2>4, <2>5
<1>3. CASE i.mn = "IDIV"
  <2> DEFINE x == Signed(a, "i64")
             y == Signed(b, "i64")
             q == Quotient(x, y)
             r == x - q * y
  <2>1. Pair(mc, i) = x /\ Divisor(mc, i) = y /\ y # 0
    BY <1>3 DEF Divisor
  <2>2. x \in Int /\ y \in Int
    BY <1>1, SignedWord
  <2>3. /\ Compute("SDIV", a, b, "i64") = Wrap(q, "i64")
        /\ Compute("SREM", a, b, "i64") = Wrap(x - y * q, "i64")
    BY DEF Compute
  <2> HIDE DEF x, y
  <2>4. q \in Int
    BY <2>1, <2>2, QuotientInt
  <2> HIDE DEF q
  <2>5. y * q = q * y /\ r \in Int
    BY <2>2, <2>4
  <2>6. Compute("SREM", a, b, "i64") = Wrap(r, "i64")
    BY <2>3, <2>5
  <2>7. /\ Wrap(q, "i64") \in Words("i64") /\ Wrap(r, "i64") \in Words("i64")
        /\ Wrap(q, "i64") \in Int /\ Wrap(r, "i64") \in Int
    <3> HIDE DEF r
    <3> QED
      BY <1>1, <2>4, <2>5, WrapWord
  <2> QED
    BY <1>3, <2>1, <2>3, <2>6, <2>7 DEF q
<1> QED
  BY <1>2, <1>3

\* DIV and IDIV of a register that is extended into RDX.
LEMMA DivideDone ==
  ASSUME NEW c, NEW o, NEW s, NEW mc, NEW i, Ready(c, o, s, mc, i), i.mn \in {"DIV", "IDIV"},
         NEW quotient, quotient = IF i.mn = "DIV" THEN "UDIV" ELSE "SDIV",
         NEW remainder, remainder = IF i.mn = "DIV" THEN "UREM" ELSE "SREM"
  PROVE  Done(Divide(c, quotient, remainder, i.ops), o, mc, i)
<1> DEFINE op == i.ops[1]
           src == readOperand(c, op, "i64")
           rax == gprVReg(RAX)
           q == Into(src.c, "block", quotient, "i64", <<rax, src.v>>)
           r == Into(q.c, "block", remainder, "i64", <<rax, src.v>>)
           a == mc.r["RAX"]
           b == Get(mc, op, "i64")
           n == Quotient(Pair(mc, i), Divisor(mc, i))
           y == Wrap(n, "i64")
           z == Wrap(Pair(mc, i) - n * Divisor(mc, i), "i64")
           after == RegPut(RegPut(mc, RAX, y), RDX, z)
<1>1. /\ IsPlace(op) /\ 1 \in 1 .. Len(i.ops) /\ OperandType(op) = "i64" /\ MachineOK(mc)
      /\ Len(i.ops) = 1 /\ Divisor(mc, i) # 0 /\ Ran(c, o, s) /\ Shows(s, mc)
      /\ Pair(mc, i) = (IF i.mn = "DIV" THEN mc.r["RAX"] ELSE Signed(mc.r["RAX"], "i64"))
  BY DEF Ready, Decoded, Covered, Divides
<1>2. "i64" \in Types
  BY DEF Types, Sizes
<1>3. /\ Operand(o, mc, op, "i64") /\ b \in Words("i64") /\ b \in Int
      /\ Gives(src, o, s, b, "i64")
  BY <1>1, <1>2, OperandReady, OperandRight, ReadRight
<1>4. a \in Words("i64") /\ a \in Int
  BY <1>1, AccumulatorRight
<1>5. Divide(c, quotient, remainder, i.ops)
        = [c |-> writeReg(writeReg(r.c, RAX, q.v), RDX, r.v), flags |-> NoFlags]
  BY DEF Divide
<1>6. /\ Compute(quotient, a, b, "i64") = y /\ Compute(remainder, a, b, "i64") = z
      /\ y \in Words("i64") /\ y \in Int /\ z \in Words("i64") /\ z \in Int
  <2>1. b = Right(mc, i)
    BY <1>1 DEF Right
  <2> HIDE DEF b
  <2> QED
    BY <1>1, <1>3, <1>4, <2>1, DivideRight
<1>7. Processor(mc, i) = after /\ i.mn \notin Arithmetics
  BY DEF Processor, SetPair, Arithmetics
<1>8. quotient \in Dividing /\ remainder \in Dividing
  BY DEF Dividing
<1> HIDE DEF src, q, r, a, b, n, y, z, after, rax
<1>9. PICK t : Ran(src.c, o, t) /\ Reads(t, s) /\ Held(src.v, t, b, "i64")
  BY <1>3 DEF Gives
<1> DEFINE HeldAcc(u) == Held(rax, u, a, "i64")
<1>10. ASSUME NEW e, NEW u, Ran(e, o, u), Reads(u, s) PROVE HeldAcc(u) /\ Shows(u, mc)
  <2> DEFINE id == RegId(RAX)
  <2>1. id \in 0 .. 15 /\ rax = VReg(id, "i64") /\ Gprs[id + 1] = "RAX"
    BY PairRegs, GprId DEF RegOK, rax
  <2> HIDE DEF id
  <2>2. Shows(u, mc)
    BY <1>1, <1>10, ReadsShows
  <2>3. u.v[id] = a /\ id \in DOMAIN u.v
    BY <1>10, <2>1, <2>2 DEF Shows, SameRegisters, Ran, StateOK, a
  <2> QED
    BY <1>4, <2>1, <2>2, <2>3 DEF Held, VReg, Value
<1> HIDE DEF HeldAcc
<1>11. Gives(q, o, t, y, "i64")
  <2> DEFINE d == src.c
             v == src.v
  <2>1. Ran(d, o, t) /\ Held(rax, t, a, "i64") /\ Held(v, t, b, "i64")
    BY <1>9, <1>10 DEF HeldAcc
  <2>2. quotient \in Binaries \cup Shifts \cup Dividing /\ y = Compute(quotient, a, b, "i64")
    BY <1>6, <1>8
  <2> HIDE DEF d, v
  <2>3. Gives(Into(d, "block", quotient, "i64", <<rax, v>>), o, t, y, "i64")
    BY <1>6, <2>1, <2>2, IntoBin
  <2> QED
    BY <2>3 DEF q, d, v
<1>12. PICK u : Ran(q.c, o, u) /\ Reads(u, t) /\ Held(q.v, u, y, "i64")
  BY <1>11 DEF Gives
<1>13. Reads(u, s) /\ Held(src.v, u, b, "i64")
  BY <1>9, <1>12, ReadsTrans, ReadsHeld
<1>14. Gives(r, o, u, z, "i64") /\ Apart(r.v)
  <2> DEFINE d == q.c
             v == src.v
  <2>1. Ran(d, o, u) /\ Held(rax, u, a, "i64") /\ Held(v, u, b, "i64")
    BY <1>10, <1>12, <1>13 DEF HeldAcc
  <2>2. remainder \in Binaries \cup Shifts \cup Dividing /\ z = Compute(remainder, a, b, "i64")
    BY <1>6, <1>8
  <2> HIDE DEF d, v
  <2>3. Gives(Into(d, "block", remainder, "i64", <<rax, v>>), o, u, z, "i64")
    BY <1>6, <2>1, <2>2, IntoBin
  <2>4. Apart(Into(d, "block", remainder, "i64", <<rax, v>>).v)
    BY <2>1, IntoApart
  <2> QED
    BY <2>3, <2>4 DEF r, d, v
<1>15. PICK w : Ran(r.c, o, w) /\ Reads(w, u) /\ Held(r.v, w, z, "i64")
  BY <1>14 DEF Gives
<1>16. Reads(w, s) /\ Held(q.v, w, y, "i64")
  BY <1>12, <1>13, <1>15, ReadsTrans, ReadsHeld
<1>17. Shows(w, mc)
  BY <1>10, <1>15, <1>16
<1> DEFINE d == r.c
           v1 == q.v
           v2 == r.v
<1>18. Ran(d, o, w) /\ Held(v1, w, y, "i64") /\ Held(v2, w, z, "i64") /\ Apart(v2)
  BY <1>14, <1>15, <1>16
<1> HIDE DEF d, v1, v2
<1>19. /\ Writes(writeReg(writeReg(d, RAX, v1), RDX, v2), o, w, After(o, mc, after))
       /\ after.m = mc.m
  <2>1. after = RegPut(RegPut(mc, RAX, y), RDX, z)
    BY DEF after
  <2> QED
    BY <1>1, <1>6, <1>17, <1>18, <2>1, PairWrites
<1>20. Done([c |-> writeReg(writeReg(d, RAX, v1), RDX, v2), flags |-> NoFlags], o, mc, i)
  <2> DEFINE f == NoFlags
  <2> HIDE DEF f
  <2>1. Done([c |-> writeReg(writeReg(d, RAX, v1), RDX, v2), flags |-> f], o, mc, i)
    BY <1>7, <1>19, WritesDone
  <2> QED
    BY <2>1 DEF f
<1> QED
  BY <1>5, <1>20 DEF d, v1, v2

(***************************************************************************)
(* Whatever the instruction, what liftInstr pushed for it does what the     *)
(* processor does.                                                         *)
(***************************************************************************)

LEMMA LiftDone ==
  ASSUME NEW c, NEW o, NEW s, NEW mc, NEW i, Ready(c, o, s, mc, i), NEW f
  PROVE  Done(liftInstr(c, f, i), o, mc, i)
<1>1. i.mn \in Handled
  BY DEF Ready, Covered
<1>2. CASE i.mn = "MOV"
  BY <1>2, MovDone DEF liftInstr
<1>3. CASE i.mn \in {"MOVZX", "MOVSX"}
  <2>1. liftInstr(c, f, i)
          = [c |-> Extend(c, IF i.mn = "MOVZX" THEN "ZEXT" ELSE "SEXT", i.ops), flags |-> f]
    BY <1>3 DEF liftInstr
  <2> QED
    BY <1>3, <2>1, ExtendDone
<1>4. CASE i.mn = "LEA"
  BY <1>4, LeaDone DEF liftInstr
<1>5. CASE i.mn \in {"ADD", "SUB", "AND", "OR", "XOR"}
  BY <1>5, BinaryDone DEF liftInstr
<1>6. CASE i.mn \in {"CMP", "TEST"}
  <2>1. liftInstr(c, f, i) = Compare(c, Arithmetic(i), i.ops)
    BY <1>6 DEF liftInstr, Arithmetic
  <2> QED
    BY <1>6, <2>1, CompareDone
<1>7. CASE i.mn = "IMUL"
  <2>1. liftInstr(c, f, i) = Multiply(c, i.ops)
    BY <1>7 DEF liftInstr
  <2>2. Len(i.ops) \in {1, 2, 3}
    BY <1>7 DEF Ready, Decoded
  <2> QED
    BY <1>7, <2>1, <2>2, MultiplyDone, MultiplyOneDone
<1>8. CASE i.mn \in {"DIV", "IDIV"}
  <2> DEFINE quotient == IF i.mn = "DIV" THEN "UDIV" ELSE "SDIV"
             remainder == IF i.mn = "DIV" THEN "UREM" ELSE "SREM"
  <2>1. liftInstr(c, f, i) = Divide(c, quotient, remainder, i.ops)
    BY <1>8 DEF liftInstr
  <2> QED
    BY <1>8, <2>1, DivideDone
<1>9. CASE i.mn \in {"NOT", "NEG"}
  BY <1>9, UnaryDone DEF liftInstr
<1>10. CASE i.mn \in {"SHL", "SHR", "SAR"}
  <2>1. \E op : liftInstr(c, f, i) = Shift(c, Arithmetic(i), op, i.ops)
    BY <1>10 DEF liftInstr, Arithmetic
  <2> QED
    BY <1>10, <2>1, ShiftDone
<1>11. CASE i.mn \in {"INC", "DEC"}
  <2>1. \E op : liftInstr(c, f, i) = Step(c, Arithmetic(i), op, i.ops)
    BY <1>11 DEF liftInstr, Arithmetic
  <2> QED
    BY <1>11, <2>1, StepDone
<1> QED
  BY <1>1, <1>2, <1>3, <1>4, <1>5, <1>6, <1>7, <1>8, <1>9, <1>10, <1>11 DEF Handled, Arithmetics

(***************************************************************************)
(* The start of an instruction, and the invariant.                         *)
(***************************************************************************)

Origin(all, c, mc) == [all |-> all, before |-> c, mc |-> mc]

LEMMA MachinesOK == \A mc \in Machines : MachineOK(mc)
BY MachineAssumption DEF MachineOK, GprNames, Memories

LEMMA StartShows ==
  ASSUME NEW mc, MachineOK(mc), NEW n \in Nat, n >= 20
  PROVE  StateOK(Start(mc), n) /\ Shows(Start(mc), mc)
<1> DEFINE v == [id \in 0 .. 15 |-> mc.r[Gprs[id + 1]]]
<1>1. Start(mc) = [v |-> v, m |-> mc.m]
  BY DEF Start
<1>2. \A id \in 0 .. 15 : mc.r[Gprs[id + 1]] \in Words("i64")
  <2>1. \A id \in 0 .. 15 : Gprs[id + 1] \in GprNames
    BY DEF GprNames
  <2> QED
    BY <2>1 DEF MachineOK
<1>3. \A id \in 0 .. 15 : v[id] = mc.r[Gprs[id + 1]] /\ v[id] \in Words("i64")
  BY <1>2
<1>4. Words("i64") \subseteq Int
  BY WordInt DEF Types, Sizes
<1>5. v \in [0 .. 15 -> Int]
  BY <1>2, <1>4
<1>6. mc.m \in Memories
  BY DEF MachineOK
<1> HIDE DEF v
<1>7. /\ Start(mc) \in [v : [0 .. 15 -> Int], m : Memories]
      /\ Start(mc).v = v /\ Start(mc).m = mc.m
  BY <1>1, <1>5, <1>6
<1>8. 0 .. 15 \subseteq 0 .. n - 1
  OBVIOUS
<1> QED
  BY <1>3, <1>7, <1>8 DEF StateOK, Shows, SameRegisters

\* Nothing has been pushed yet: the state is the start.
LEMMA StartRan ==
  ASSUME NEW c, Good(c), NEW mc, MachineOK(mc), NEW all \in BOOLEAN
  PROVE  Ran(c, Origin(all, c, mc), Start(mc))
<1> DEFINE o == Origin(all, c, mc)
           log == Log(c, o)
<1>1. PICK S : c \in [insts : Seq(S), pushed : Seq(S), next : Nat, thrown : BOOLEAN]
  BY DEF Good
<1>2. c.next \in Nat /\ c.next >= 20
  BY NextNat
<1>3. o.before = c /\ o.mc = mc
  BY DEF Origin
<1>4. log \in Seq(S)
  BY <1>1 DEF Log
<1> HIDE DEF log, o
<1>5. Len(log) \in 0 .. Len(log) /\ Len(log) \in Nat
  BY <1>4
<1>6. New(log, log) = <<>>
  BY <1>4, <1>5 DEF New
<1>7. Run(<<>>, mc) = Start(mc)
  <2>1. <<>> \in Seq({})
    OBVIOUS
  <2> QED
    BY <2>1, RunDef
<1>8. StateOK(Start(mc), c.next)
  BY <1>2, StartShows
<1>9. /\ Len(Log(o.before, o)) \in 0 .. Len(Log(c, o))
      /\ Start(mc) = Run(New(Log(c, o), Log(o.before, o)), o.mc)
  BY <1>3, <1>5, <1>6, <1>7 DEF log
<1> QED
  BY <1>1, <1>2, <1>8, <1>9 DEF Ran, o

\* The function and the flags are what the instruction lifted last made of the
\* function before it.
LiftInv ==
  /\ IInv
  /\ last.instr.mn # "none" =>
       /\ last.instr \in Instrs /\ Good(last.before)
       /\ \E f : /\ fn = liftInstr(last.before, f, last.instr).c
                 /\ flags = liftInstr(last.before, f, last.instr).flags

LEMMA Init_LiftInv == Init => LiftInv
BY Init_IInv DEF Init, LiftInv

LEMMA Next_LiftInv == LiftInv /\ [Next]_vars => LiftInv'
<1> SUFFICES ASSUME LiftInv, [Next]_vars PROVE LiftInv'
  OBVIOUS
<1>1. IInv'
  BY Next_IInv DEF LiftInv
<1>2. CASE LiftInstr
  <2>1. PICK i \in Instrs : /\ fn' = liftInstr(fn, flags, i).c
                            /\ flags' = liftInstr(fn, flags, i).flags
                            /\ last' = [instr |-> i, before |-> fn]
    BY <1>2 DEF LiftInstr
  <2>2. last'.instr = i /\ last'.before = fn
    BY <2>1
  <2>3. Good(fn)
    BY DEF LiftInv, IInv
  <2>4. \E f : /\ fn' = liftInstr(last'.before, f, last'.instr).c
               /\ flags' = liftInstr(last'.before, f, last'.instr).flags
    BY <2>1, <2>2
  <2> QED
    BY <1>1, <2>2, <2>3, <2>4 DEF LiftInv
<1>3. CASE NextBlock
  BY <1>1, <1>3 DEF LiftInv, NextBlock
<1>4. CASE UNCHANGED vars
  BY <1>1, <1>4 DEF LiftInv, vars
<1> QED
  BY <1>2, <1>3, <1>4 DEF Next

\* What holds after an instruction that did not throw, on either log.
LEMMA LiftedRight ==
  ASSUME LiftInv, Lifted, NEW mc \in Machines, Covered(mc, last.instr),
         NEW all \in BOOLEAN, all \/ AllWide(last.instr)
  PROVE  LET s == Run(IF all THEN Pushes ELSE Kept, mc)
         IN  /\ s.m = Processor(mc, last.instr).m
             /\ all => SameRegisters(s, Processor(mc, last.instr))
             /\ RecordRight(flags, s, mc, last.instr)
<1> DEFINE c == last.before
           i == last.instr
           o == Origin(all, c, mc)
           after == Processor(mc, i)
<1>1. /\ i \in Instrs /\ Good(c) /\ ~fn.thrown
  BY DEF LiftInv, Lifted
<1>2. PICK f : fn = liftInstr(c, f, i).c /\ flags = liftInstr(c, f, i).flags
  BY DEF LiftInv, Lifted
<1>3. MachineOK(mc)
  BY MachinesOK
<1>4. Ran(c, o, Start(mc)) /\ Shows(Start(mc), mc)
  <2>1. 20 \in Nat /\ 20 >= 20
    OBVIOUS
  <2> HIDE DEF c
  <2> QED
    BY <1>1, <1>3, <2>1, StartRan, StartShows
<1>5. i.ops \in Seq(OperandsOf(i)) /\ Decoded(i)
  BY <1>1, DecoderAssumption DEF Covered
<1>6. o.all = all /\ o.before = c /\ o.mc = mc
  BY DEF Origin
<1>7. Ready(c, o, Start(mc), mc, i)
  BY <1>3, <1>4, <1>5, <1>6 DEF Ready
<1> HIDE DEF c, i, o, after
<1>8. Done(liftInstr(c, f, i), o, mc, i)
  BY <1>7, LiftDone
<1>9. PICK t : Ran(fn, o, t) /\ Effect(t, o, Processor(mc, i)) /\ RecordRight(flags, t, mc, i)
  BY <1>2, <1>8 DEF Done
<1>10. t = Run(New(Log(fn, o), Log(c, o)), mc)
  BY <1>1, <1>6, <1>9 DEF Ran
<1>11. New(Log(fn, o), Log(c, o)) = IF all THEN Pushes ELSE Kept
  BY <1>6 DEF Log, Pushes, Kept, c
<1>12. t.m = after.m /\ (all => SameRegisters(t, after))
  BY <1>6, <1>9 DEF Effect, after
<1> QED
  BY <1>9, <1>10, <1>11, <1>12 DEF after, i

(***************************************************************************)
(* The theorems.                                                           *)
(***************************************************************************)

\* PushesExact for any instructions, machines and width of a byte: what
\* liftInstr pushes for an instruction, to the block and to its copies, leaves
\* every register and all of memory as the processor leaves them.
THEOREM Pushes_Exact == Spec => []PushesExact
<1>1. LiftInv => PushesExact
  <2> SUFFICES ASSUME LiftInv, Lifted,
                      NEW mc \in {x \in Machines : Covered(x, last.instr)}
               PROVE  LET s == Run(Pushes, mc)
                          after == Processor(mc, last.instr)
                      IN  SameRegisters(s, after) /\ s.m = after.m
    BY DEF PushesExact
  <2>1. mc \in Machines /\ Covered(mc, last.instr)
    OBVIOUS
  <2>2. TRUE \in BOOLEAN
    OBVIOUS
  <2> QED
    BY <2>1, <2>2, LiftedRight
<1> QED
  BY <1>1, Init_LiftInv, Next_LiftInv, PTL DEF Spec

\* StoresExact for any instructions, machines and width of a byte: the part of
\* it that the block keeps stores what the processor stores, where it stores it,
\* as long as no operand is a narrow register.
THEOREM Stores_Exact == Spec => []StoresExact
<1>1. LiftInv => StoresExact
  <2> SUFFICES ASSUME LiftInv, Lifted,
                      NEW mc \in {x \in Machines : Covered(x, last.instr) /\ AllWide(last.instr)}
               PROVE  Run(Kept, mc).m = Processor(mc, last.instr).m
    BY DEF StoresExact
  <2>1. mc \in Machines /\ Covered(mc, last.instr) /\ AllWide(last.instr)
    OBVIOUS
  <2>2. FALSE \in BOOLEAN
    OBVIOUS
  <2> QED
    BY <2>1, <2>2, LiftedRight
<1> QED
  BY <1>1, Init_LiftInv, Next_LiftInv, PTL DEF Spec

\* RecordExact for any instructions, machines and width of a byte: after the
\* instruction the values recorded for the flags are those the processor set its
\* flags from.
THEOREM Record_Exact == Spec => []RecordExact
<1>1. LiftInv => RecordExact
  <2> DEFINE i == last.instr
             Written == /\ OperandType(i.ops[1]) = "i64" /\ i.mn \notin {"CMP", "TEST"}
                        /\ i.ops[1].kind = "reg" \/ i.mn = "IMUL"
  <2> SUFFICES ASSUME LiftInv, Lifted, i.mn \in Arithmetics, ~Written,
                      NEW mc \in {x \in Machines : Covered(x, i)}
               PROVE  LET s == Run(Pushes, mc)
                      IN  /\ flags.valid /\ flags.ty = OperandType(i.ops[1])
                          /\ Value(s, flags.lhs) = {Left(mc, i)}
                          /\ Value(s, flags.rhs) = {Right(mc, i)}
                          /\ Value(s, flags.result) = {Outcome(mc, i)}
    BY DEF RecordExact
  <2>1. mc \in Machines /\ Covered(mc, i)
    OBVIOUS
  <2>2. TRUE \in BOOLEAN
    OBVIOUS
  <2>3. ~Overwritten(i)
    BY DEF Overwritten
  <2>4. RecordRight(flags, Run(Pushes, mc), mc, i)
    BY <2>1, <2>2, LiftedRight
  <2> QED
    BY <2>3, <2>4 DEF RecordRight
<1> QED
  BY <1>1, Init_LiftInv, Next_LiftInv, PTL DEF Spec
=============================================================================
