-------------------------- MODULE XskSocketProofs --------------------------
(***************************************************************************)
(* What is proved of XskSocket for all sizes of the pool and of the rings: *)
(* the types; that the destructor releases what one load made; and that    *)
(* the TCP program sorts packets as documented.  The first sections also   *)
(* serve XskFrameProofs, whose subject is the frames: they say when a      *)
(* frame that moves leaves every frame with one owner.                     *)
(*                                                                         *)
(* TypeOK is not inductive: a batch reads n_pkts descriptors of the RX     *)
(* ring, which have to be there, and what is delivered has to be bounded   *)
(* by what arrived (Phases).                                               *)
(***************************************************************************)
EXTENDS XskSocket, TLAPS

-----------------------------------------------------------------------------
(* Sequences                                                               *)

\* A sequence without its first n elements.
LEMMA SubSeqFacts ==
  ASSUME NEW S, NEW s \in Seq(S), NEW n \in 0 .. Len(s)
  PROVE  /\ SubSeq(s, n + 1, Len(s)) \in Seq(S)
         /\ Len(SubSeq(s, n + 1, Len(s))) = Len(s) - n
         /\ \A k \in 1 .. Len(s) - n : SubSeq(s, n + 1, Len(s))[k] = s[k + n]
  OBVIOUS

\* A sequence with one more element.
LEMMA AppendFacts ==
  ASSUME NEW S, NEW s \in Seq(S), NEW x \in S
  PROVE  /\ Append(s, x) \in Seq(S)
         /\ Len(Append(s, x)) = Len(s) + 1
         /\ \A k \in 1 .. Len(s) : Append(s, x)[k] = s[k]
         /\ Append(s, x)[Len(s) + 1] = x
  OBVIOUS

-----------------------------------------------------------------------------
(* Frames moving from one owner to the next                                *)

\* What f holds at the places of A, and that it holds it once.
Of(f, A) == {f[a] : a \in A}
OneEach(f, A) == \A a, b \in A : f[a] = f[b] => a = b

\* Every frame is in one of four sets and in no other.
Parted(F, E, R, H) ==
    /\ F \cap E = {} /\ F \cap R = {} /\ F \cap H = {}
    /\ E \cap R = {} /\ E \cap H = {} /\ R \cap H = {}
    /\ Frames = F \cup E \cup R \cup H

\* Every frame is at one place, for an allocator fr, n entries en of the FILL ring,
\* an RX ring rq to be read from lo on, and h with the kernel.
Owners(fr, n, en, rq, lo, h) ==
    /\ OneEach(fr, 1 .. Len(fr)) /\ OneEach(en, 0 .. n - 1) /\ OneEach(rq, lo .. Len(rq))
    /\ Parted(Of(fr, 1 .. Len(fr)), Of(en, 0 .. n - 1), Of(rq, lo .. Len(rq)), {h} \ {Null})

\* g holds at a .. b what f holds at c .. d.
Shifts(g, a, b, f, c, d) ==
    /\ a \in Int /\ b \in Int /\ c \in Int /\ d \in Int /\ d - c = b - a
    /\ \A k \in a .. b : g[k] = f[k + (c - a)]

\* What is held at shifted places is the same, and held once if it was.
LEMMA Shifted ==
  ASSUME NEW g, NEW a, NEW b, NEW f, NEW c, NEW d, Shifts(g, a, b, f, c, d)
  PROVE  /\ Of(g, a .. b) = Of(f, c .. d)
         /\ OneEach(f, c .. d) => OneEach(g, a .. b)
<1> USE DEF Shifts
<1>1. \A k \in a .. b : k + (c - a) \in c .. d
  OBVIOUS
<1>2. \A k \in c .. d : k - (c - a) \in a .. b /\ (k - (c - a)) + (c - a) = k
  OBVIOUS
<1>3. ASSUME NEW x \in Of(g, a .. b) PROVE x \in Of(f, c .. d)
  BY <1>1 DEF Of
<1>4. ASSUME NEW x \in Of(f, c .. d) PROVE x \in Of(g, a .. b)
  <2>1. PICK k \in c .. d : x = f[k]
    BY DEF Of
  <2>2. k - (c - a) \in a .. b /\ g[k - (c - a)] = x
    BY <1>2, <2>1
  <2> QED BY <2>2 DEF Of
<1>5. ASSUME OneEach(f, c .. d), NEW j \in a .. b, NEW k \in a .. b, g[j] = g[k]
      PROVE  j = k
  <2>1. j + (c - a) = k + (c - a)
    BY <1>1, <1>5 DEF OneEach
  <2> QED BY <2>1
<1> QED BY <1>3, <1>4, <1>5, Zenon DEF OneEach

\* a .. d falls into a .. b and c .. d.
Divides(a, b, c, d) ==
    a \in Int /\ b \in Int /\ c = b + 1 /\ d \in Int /\ a - 1 <= b /\ b <= d

\* Of f, what holds of a .. d holds of its parts.
Halves(f, a, b, c, d) ==
    /\ Of(f, a .. d) = Of(f, a .. b) \cup Of(f, c .. d)
    /\ OneEach(f, a .. d) <=>
          /\ OneEach(f, a .. b) /\ OneEach(f, c .. d)
          /\ Of(f, a .. b) \cap Of(f, c .. d) = {}

\* What is held at a range of places is what is held at its two parts.
LEMMA Split ==
  ASSUME NEW f, NEW a, NEW b, NEW c, NEW d, Divides(a, b, c, d)
  PROVE  Halves(f, a, b, c, d)
<1> DEFINE A == a .. b
           B == c .. d
<1>1. a .. d = A \cup B /\ A \cap B = {}
  BY DEF Divides
<1> HIDE DEF A, B
<1>2. Of(f, A \cup B) = Of(f, A) \cup Of(f, B)
  BY DEF Of
<1>3. OneEach(f, A \cup B) <=> OneEach(f, A) /\ OneEach(f, B) /\ Of(f, A) \cap Of(f, B) = {}
  BY <1>1 DEF Of, OneEach
<1> QED BY <1>1, <1>2, <1>3, Zenon DEF A, B, Halves

\* One place holds one thing.
LEMMA Single ==
  ASSUME NEW f, NEW a \in Int
  PROVE  Of(f, a .. a) = {f[a]} /\ OneEach(f, a .. a)
<1>1. a .. a = {a}
  OBVIOUS
<1> QED BY <1>1 DEF Of, OneEach

\* fill_rx_ring: m frames go from the front of the allocator to the end of the
\* FILL ring.
LEMMA LendFrames ==
  ASSUME NEW fr, NEW m \in Nat, NEW fr1, Len(fr) \in Nat, m <= Len(fr),
         Len(fr1) = Len(fr) - m, \A k \in 1 .. Len(fr) - m : fr1[k] = fr[k + m],
         NEW n \in Nat, NEW en, NEW en1,
         \A k \in 0 .. n - 1 : en1[k] = en[k],
         \A k \in n .. n + m - 1 : en1[k] = fr[k - n + 1],
         NEW rq, NEW lo, NEW h,
         Owners(fr, n, en, rq, lo, h)
  PROVE  Owners(fr1, n + m, en1, rq, lo, h)
<1> DEFINE F == Of(fr, 1 .. Len(fr))
           F1 == Of(fr1, 1 .. Len(fr1))
           E == Of(en, 0 .. n - 1)
           E1 == Of(en1, 0 .. n + m - 1)
           M == Of(fr, 1 .. m)
           R == Of(rq, lo .. Len(rq))
<1>1. /\ OneEach(fr, 1 .. Len(fr)) /\ OneEach(en, 0 .. n - 1) /\ OneEach(rq, lo .. Len(rq))
      /\ Parted(F, E, R, {h} \ {Null})
  BY DEF Owners
<1>2. /\ F = M \cup Of(fr, m + 1 .. Len(fr)) /\ M \cap Of(fr, m + 1 .. Len(fr)) = {}
      /\ OneEach(fr, 1 .. m) /\ OneEach(fr, m + 1 .. Len(fr))
  <2>1. Divides(1, m, m + 1, Len(fr))
    BY DEF Divides
  <2>2. Halves(fr, 1, m, m + 1, Len(fr))
    BY <2>1, Split
  <2> QED BY <1>1, <2>2 DEF Halves
<1>3. F1 = Of(fr, m + 1 .. Len(fr)) /\ OneEach(fr1, 1 .. Len(fr1))
  <2>1. Shifts(fr1, 1, Len(fr1), fr, m + 1, Len(fr))
    BY DEF Shifts
  <2> QED BY <1>2, <2>1, Shifted
<1>4. Of(en1, n .. n + m - 1) = M /\ OneEach(en1, n .. n + m - 1)
  <2>1. Shifts(en1, n, n + m - 1, fr, 1, m)
    BY DEF Shifts
  <2> QED BY <1>2, <2>1, Shifted
<1>5. Of(en1, 0 .. n - 1) = E /\ OneEach(en1, 0 .. n - 1)
  <2>1. Shifts(en1, 0, n - 1, en, 0, n - 1)
    BY DEF Shifts
  <2> QED BY <1>1, <2>1, Shifted
<1>6. E \cap M = {}
  BY <1>1, <1>2 DEF Parted
<1>7. E1 = E \cup M /\ OneEach(en1, 0 .. n + m - 1)
  <2>1. Divides(0, n - 1, n, n + m - 1)
    <3>1. n = (n - 1) + 1 /\ n - 1 \in Int /\ n + m - 1 \in Int
      OBVIOUS
    <3>2. 0 - 1 <= n - 1 /\ n - 1 <= n + m - 1
      OBVIOUS
    <3> QED BY <3>1, <3>2 DEF Divides
  <2>3. Halves(en1, 0, n - 1, n, n + m - 1)
    BY <2>1, Split
  <2> QED BY <1>4, <1>5, <1>6, <2>3 DEF Halves
<1>8. Parted(F1, E1, R, {h} \ {Null})
  <2>1. F = M \cup F1 /\ M \cap F1 = {} /\ E1 = E \cup M
    BY <1>2, <1>3, <1>7
  <2> HIDE DEF F, F1, E, E1, M, R
  <2> QED BY <1>1, <2>1 DEF Parted
<1> QED BY <1>1, <1>3, <1>7, <1>8 DEF Owners

\* The kernel takes the first entry of the FILL ring.
LEMMA TakeFrame ==
  ASSUME NEW fr, NEW n \in Nat \ {0}, NEW en, NEW en1, en[0] # Null,
         \A k \in 0 .. n - 2 : en1[k] = en[k + 1],
         NEW rq, NEW lo,
         Owners(fr, n, en, rq, lo, Null)
  PROVE  Owners(fr, n - 1, en1, rq, lo, en[0])
<1> DEFINE F == Of(fr, 1 .. Len(fr))
           E == Of(en, 0 .. n - 1)
           E1 == Of(en1, 0 .. (n - 1) - 1)
           R == Of(rq, lo .. Len(rq))
<1>1. /\ OneEach(fr, 1 .. Len(fr)) /\ OneEach(en, 0 .. n - 1) /\ OneEach(rq, lo .. Len(rq))
      /\ Parted(F, E, R, {Null} \ {Null})
  BY DEF Owners
<1>2. /\ E = {en[0]} \cup Of(en, 1 .. n - 1) /\ {en[0]} \cap Of(en, 1 .. n - 1) = {}
      /\ OneEach(en, 1 .. n - 1)
  <2>1. Divides(0, 0, 1, n - 1)
    BY DEF Divides
  <2>2. Of(en, 0 .. 0) = {en[0]}
    BY Single
  <2>3. Halves(en, 0, 0, 1, n - 1)
    BY <2>1, Split
  <2> QED BY <1>1, <2>2, <2>3 DEF Halves
<1>3. E1 = Of(en, 1 .. n - 1) /\ OneEach(en1, 0 .. (n - 1) - 1)
  <2>1. Shifts(en1, 0, (n - 1) - 1, en, 1, n - 1)
    BY DEF Shifts
  <2> QED BY <1>2, <2>1, Shifted
<1>4. Parted(F, E1, R, {en[0]} \ {Null})
  <2>1. E = {en[0]} \cup E1 /\ {en[0]} \cap E1 = {}
    BY <1>2, <1>3
  <2> HIDE DEF F, E, E1, R
  <2> QED BY <1>1, <2>1 DEF Parted
<1> QED BY <1>1, <1>3, <1>4 DEF Owners

\* The kernel puts the frame it holds at the end of the RX ring.
LEMMA DeliverFrame ==
  ASSUME NEW fr, NEW n, NEW en, NEW rq \in Seq(Frames), NEW lo \in 1 .. Len(rq) + 1,
         NEW h \in Frames, h # Null,
         Owners(fr, n, en, rq, lo, h)
  PROVE  Owners(fr, n, en, Append(rq, h), lo, Null)
<1> DEFINE rq1 == Append(rq, h)
           F == Of(fr, 1 .. Len(fr))
           E == Of(en, 0 .. n - 1)
           R == Of(rq, lo .. Len(rq))
           R1 == Of(rq1, lo .. Len(rq) + 1)
<1>1. /\ OneEach(fr, 1 .. Len(fr)) /\ OneEach(en, 0 .. n - 1) /\ OneEach(rq, lo .. Len(rq))
      /\ Parted(F, E, R, {h} \ {Null})
  BY DEF Owners
<1>2. /\ Len(rq1) = Len(rq) + 1 /\ Len(rq) \in Nat
      /\ \A k \in 1 .. Len(rq) : rq1[k] = rq[k]
      /\ rq1[Len(rq) + 1] = h
  BY AppendFacts
<1> HIDE DEF rq1
<1>3. Of(rq1, lo .. Len(rq)) = R /\ OneEach(rq1, lo .. Len(rq))
  <2>1. Shifts(rq1, lo, Len(rq), rq, lo, Len(rq))
    BY <1>2 DEF Shifts
  <2> QED BY <1>1, <2>1, Shifted
<1>4. /\ Of(rq1, Len(rq) + 1 .. Len(rq) + 1) = {h}
      /\ OneEach(rq1, Len(rq) + 1 .. Len(rq) + 1)
  <2>1. Len(rq) + 1 \in Int
    BY <1>2
  <2> QED BY <1>2, <2>1, Single, Zenon
<1>5. R \cap {h} = {}
  BY <1>1 DEF Parted
<1>6. R1 = R \cup {h} /\ OneEach(rq1, lo .. Len(rq) + 1)
  <2>1. Divides(lo, Len(rq), Len(rq) + 1, Len(rq) + 1)
    BY <1>2 DEF Divides
  <2>3. Halves(rq1, lo, Len(rq), Len(rq) + 1, Len(rq) + 1)
    BY <2>1, Split
  <2> QED BY <1>3, <1>4, <1>5, <2>3, Zenon DEF Halves
<1>7. Parted(F, E, R1, {Null} \ {Null})
  <2> HIDE DEF F, E, R, R1
  <2> QED BY <1>1, <1>6 DEF Parted
<1> QED BY <1>1, <1>2, <1>6, <1>7 DEF Owners, rq1

\* process_rx_batch gives the frame of the next descriptor back to the allocator.
LEMMA ReturnFrame ==
  ASSUME NEW fr \in Seq(Frames), NEW n, NEW en,
         NEW rq \in Seq(Frames), NEW lo \in 1 .. Len(rq), NEW h,
         Owners(fr, n, en, rq, lo, h)
  PROVE  Owners(Append(fr, rq[lo]), n, en, rq, lo + 1, h)
<1> DEFINE fr1 == Append(fr, rq[lo])
           F == Of(fr, 1 .. Len(fr))
           F1 == Of(fr1, 1 .. Len(fr) + 1)
           E == Of(en, 0 .. n - 1)
           R == Of(rq, lo .. Len(rq))
           R1 == Of(rq, lo + 1 .. Len(rq))
<1>1. /\ OneEach(fr, 1 .. Len(fr)) /\ OneEach(en, 0 .. n - 1) /\ OneEach(rq, lo .. Len(rq))
      /\ Parted(F, E, R, {h} \ {Null})
  BY DEF Owners
<1>2. /\ Len(fr1) = Len(fr) + 1 /\ Len(fr) \in Nat
      /\ \A k \in 1 .. Len(fr) : fr1[k] = fr[k]
      /\ fr1[Len(fr) + 1] = rq[lo]
  BY AppendFacts
<1>3. R = {rq[lo]} \cup R1 /\ {rq[lo]} \cap R1 = {} /\ OneEach(rq, lo + 1 .. Len(rq))
  <2>1. Divides(lo, lo, lo + 1, Len(rq)) /\ lo \in Int
    BY DEF Divides
  <2>2. Halves(rq, lo, lo, lo + 1, Len(rq)) /\ Of(rq, lo .. lo) = {rq[lo]}
    BY <2>1, Split, Single
  <2> QED BY <1>1, <2>2, Zenon DEF Halves
<1> HIDE DEF fr1
<1>4. Of(fr1, 1 .. Len(fr)) = F /\ OneEach(fr1, 1 .. Len(fr))
  <2>1. Shifts(fr1, 1, Len(fr), fr, 1, Len(fr))
    BY <1>2 DEF Shifts
  <2> QED BY <1>1, <2>1, Shifted
<1>5. /\ Of(fr1, Len(fr) + 1 .. Len(fr) + 1) = {rq[lo]}
      /\ OneEach(fr1, Len(fr) + 1 .. Len(fr) + 1)
  <2>1. Len(fr) + 1 \in Int
    BY <1>2
  <2>2. /\ Of(fr1, Len(fr) + 1 .. Len(fr) + 1) = {fr1[Len(fr) + 1]}
        /\ OneEach(fr1, Len(fr) + 1 .. Len(fr) + 1)
    BY <2>1, Single, Zenon
  <2> QED BY <1>2, <2>2, Zenon
<1>6. F \cap {rq[lo]} = {}
  BY <1>1, <1>3 DEF Parted
<1>7. F1 = F \cup {rq[lo]} /\ OneEach(fr1, 1 .. Len(fr) + 1)
  <2>1. Divides(1, Len(fr), Len(fr) + 1, Len(fr) + 1)
    BY <1>2 DEF Divides
  <2>3. Halves(fr1, 1, Len(fr), Len(fr) + 1, Len(fr) + 1)
    BY <2>1, Split
  <2> QED BY <1>4, <1>5, <1>6, <2>3, Zenon DEF Halves
<1>8. Parted(F1, E, R1, {h} \ {Null})
  <2> HIDE DEF F, F1, E, R, R1
  <2> QED BY <1>1, <1>3, <1>7 DEF Parted
<1> QED BY <1>1, <1>2, <1>3, <1>7, <1>8 DEF Owners, fr1

\* xsk_ring_cons__release drops descriptors whose frames are back already.
LEMMA ReleaseDescriptors ==
  ASSUME NEW fr, NEW n, NEW en, NEW rq \in Seq(Frames), NEW m \in 0 .. Len(rq), NEW h,
         Owners(fr, n, en, rq, m + 1, h)
  PROVE  Owners(fr, n, en, SubSeq(rq, m + 1, Len(rq)), 1, h)
<1> DEFINE rq1 == SubSeq(rq, m + 1, Len(rq))
<1>1. /\ Len(rq1) = Len(rq) - m /\ Len(rq) \in Nat
      /\ \A k \in 1 .. Len(rq) - m : rq1[k] = rq[k + m]
  BY SubSeqFacts
<1> HIDE DEF rq1
<1>2. /\ Of(rq1, 1 .. Len(rq1)) = Of(rq, m + 1 .. Len(rq))
      /\ OneEach(rq, m + 1 .. Len(rq)) => OneEach(rq1, 1 .. Len(rq1))
  <2>1. Shifts(rq1, 1, Len(rq1), rq, m + 1, Len(rq))
    BY <1>1 DEF Shifts
  <2> QED BY <2>1, Shifted
<1> QED BY <1>2 DEF Owners, rq1

-----------------------------------------------------------------------------
(* Remainders                                                              *)

\* A remainder lies below its modulus.
LEMMA ModRange == \A a \in Int, m \in Nat \ {0} : a % m \in 0 .. m - 1
  OBVIOUS

\* A number is a multiple of the modulus plus its remainder.
LEMMA ModDivision ==
  \A a \in Int, m \in Nat \ {0} : \E q \in Int : a = q * m + (a % m)
<1> SUFFICES ASSUME NEW a \in Int, NEW m \in Nat \ {0}
             PROVE  \E q \in Int : a = q * m + (a % m)
  BY Zenon
<1>1. a \div m \in Int /\ a = (a \div m) * m + (a % m)
  OBVIOUS
<1> QED BY <1>1, Zenon

\* No other number below the modulus is the remainder.
LEMMA ModUnique ==
  ASSUME NEW m \in Nat \ {0}, NEW q \in Int, NEW r \in 0 .. m - 1
  PROVE  (q * m + r) % m = r
<1> DEFINE a == q * m + r
<1>1. a \in Int
  OBVIOUS
<1>2. PICK p \in Int : a = p * m + (a % m)
  BY <1>1, ModDivision, Zenon
<1>3. a % m \in 0 .. m - 1
  BY <1>1, ModRange
<1>4. (q - p) * m = (a % m) - r
  <2>1. (q - p) * m = q * m - p * m
    OBVIOUS
  <2>2. q * m \in Int /\ p * m \in Int
    OBVIOUS
  <2> QED BY <1>2, <1>3, <2>1, <2>2
<1>5. q - p > -1 /\ q - p < 1
  <2>1. CASE q - p >= 1
    <3>1. (q - p) * m >= m
      BY <2>1
    <3> QED BY <3>1, <1>3, <1>4
  <2>2. CASE q - p <= -1
    <3>1. (q - p) * m <= -m
      BY <2>2
    <3> QED BY <3>1, <1>3, <1>4
  <2> QED BY <2>1, <2>2
<1>6. q = p
  BY <1>5
<1> QED BY <1>2, <1>3, <1>6

\* The provers look for a % b by this name.
Mod(a, b) == a % b

\* Remainders within one round of the modulus: a ring index that wraps at
\* most once.
LEMMA ModSmall ==
  ASSUME NEW m \in Nat \ {0}, NEW a \in Int
  PROVE  /\ a \in 0 .. m - 1 => Mod(a, m) = a
         /\ a \in -m .. -1 => Mod(a, m) = a + m
         /\ a \in m .. 2 * m - 1 => Mod(a, m) = a - m
<1>1. ASSUME a \in 0 .. m - 1 PROVE Mod(a, m) = a
  <2>1. (0 * m + a) % m = a
    BY <1>1, ModUnique
  <2> QED BY <2>1 DEF Mod
<1>2. ASSUME a \in -m .. -1 PROVE Mod(a, m) = a + m
  <2>1. ((-1) * m + (a + m)) % m = a + m
    BY <1>2, ModUnique
  <2>2. (-1) * m + (a + m) = a
    OBVIOUS
  <2> QED BY <2>1, <2>2 DEF Mod
<1>3. ASSUME a \in m .. 2 * m - 1 PROVE Mod(a, m) = a - m
  <2>1. (1 * m + (a - m)) % m = a - m
    BY <1>3, ModUnique
  <2>2. 1 * m + (a - m) = a
    OBVIOUS
  <2> QED BY <2>1, <2>2 DEF Mod
<1> QED BY <1>1, <1>2, <1>3

\* Whole rounds do not change a remainder.
LEMMA ModShift ==
  ASSUME NEW m \in Nat \ {0}, NEW a \in Int, NEW b \in Int, NEW q \in Int, a = b + q * m
  PROVE  a % m = b % m
<1>1. PICK p \in Int : b = p * m + (b % m)
  BY ModDivision, Zenon
<1>2. b % m \in 0 .. m - 1
  BY ModRange
<1>3. ((p + q) * m + (b % m)) % m = b % m
  BY <1>2, ModUnique
<1>4. a = (p + q) * m + (b % m)
  <2>1. (p + q) * m = p * m + q * m
    OBVIOUS
  <2>2. p * m \in Int /\ q * m \in Int
    OBVIOUS
  <2> QED BY <1>1, <1>2, <2>1, <2>2
<1> QED BY <1>3, <1>4

-----------------------------------------------------------------------------
(* Indices of the FILL ring                                                *)

\* How many entries lie between a producer index p and a consumer index c of a
\* ring: p gains n entries by a submit, c loses one when the kernel takes one,
\* and the index range may wrap in between.
LEMMA Level ==
  ASSUME NEW p \in 0 .. IndexRange - 1, NEW c \in 0 .. IndexRange - 1
  PROVE  /\ (p - c) % IndexRange \in 0 .. IndexRange - 1
         /\ ((p - c) % IndexRange = 0) <=> p = c
         /\ \A n \in Nat : ((p - c) % IndexRange) + n < IndexRange =>
               (((p + n) % IndexRange) - c) % IndexRange = ((p - c) % IndexRange) + n
         /\ (p - c) % IndexRange > 0 =>
               (p - ((c + 1) % IndexRange)) % IndexRange = ((p - c) % IndexRange) - 1
<1> DEFINE m == IndexRange
           L == Mod(p - c, m)
<1>1. m \in Nat \ {0}
  BY SizeAssumption
<1>2. p \in 0 .. m - 1 /\ c \in 0 .. m - 1
  OBVIOUS
<1> HIDE DEF m
<1>3. L = IF p >= c THEN p - c ELSE p - c + m
  <2>1. CASE p >= c
    <3>1. p - c \in 0 .. m - 1
      BY <1>1, <1>2, <2>1
    <3> QED BY <1>1, <2>1, <3>1, ModSmall
  <2>2. CASE p < c
    <3>1. p - c \in -m .. -1
      BY <1>1, <1>2, <2>2
    <3> QED BY <1>1, <1>2, <2>2, <3>1, ModSmall
  <2> QED BY <1>2, <2>1, <2>2
<1>4. L \in 0 .. m - 1 /\ (L = 0 <=> p = c)
  BY <1>1, <1>2, <1>3
<1>5. ASSUME NEW n \in Nat, L + n < m
      PROVE  Mod(Mod(p + n, m) - c, m) = L + n
  <2> DEFINE pn == Mod(p + n, m)
  <2>1. pn = IF p + n < m THEN p + n ELSE p + n - m
    <3>1. p + n \in 0 .. 2 * m - 1
      BY <1>1, <1>2, <1>4, <1>5
    <3> QED BY <1>1, <3>1, ModSmall
  <2>2. pn \in 0 .. m - 1
    BY <1>1, <1>2, <1>4, <1>5, <2>1
  <2>3. CASE pn >= c
    <3>1. pn - c \in 0 .. m - 1 /\ pn - c = L + n
      BY <1>1, <1>2, <1>3, <1>4, <1>5, <2>1, <2>2, <2>3
    <3> QED BY <1>1, <3>1, ModSmall
  <2>4. CASE pn < c
    <3>1. pn - c \in -m .. -1 /\ pn - c + m = L + n
      BY <1>1, <1>2, <1>3, <1>4, <1>5, <2>1, <2>2, <2>4
    <3> QED BY <1>1, <3>1, ModSmall
  <2> QED BY <1>2, <2>2, <2>3, <2>4
<1>6. ASSUME L > 0
      PROVE  Mod(p - Mod(c + 1, m), m) = L - 1
  <2> DEFINE cn == Mod(c + 1, m)
  <2>1. cn = IF c + 1 < m THEN c + 1 ELSE 0
    <3>1. c + 1 \in 0 .. 2 * m - 1
      BY <1>1, <1>2
    <3> QED BY <1>1, <1>2, <3>1, ModSmall
  <2>2. CASE p >= cn
    <3>1. p - cn \in 0 .. m - 1 /\ p - cn = L - 1
      BY <1>1, <1>2, <1>3, <1>6, <2>1, <2>2
    <3> QED BY <1>1, <3>1, ModSmall
  <2>3. CASE p < cn
    <3>1. p - cn \in -m .. -1 /\ p - cn + m = L - 1
      BY <1>1, <1>2, <1>3, <1>6, <2>1, <2>3
    <3> QED BY <1>1, <3>1, ModSmall
  <2> QED BY <1>1, <1>2, <2>1, <2>2, <2>3
<1> QED BY <1>4, <1>5, <1>6 DEF m, Mod

\* The index range is a whole number of rounds of the FILL ring, so an index
\* that wraps stays at its slot.
LEMMA Rounds == \E n \in Int : IndexRange = n * FillSize
<1>1. IndexRange \in Int /\ FillSize \in Nat \ {0} /\ IndexRange % FillSize = 0
  BY SizeAssumption
<1>2. PICK n \in Int : IndexRange = n * FillSize + (IndexRange % FillSize)
  BY <1>1, ModDivision, Zenon
<1>3. IndexRange = n * FillSize
  BY <1>1, <1>2
<1> QED BY <1>3

\* Entries less than a round apart are in different slots.
LEMMA SlotsDiffer ==
  ASSUME NEW m \in Nat \ {0}, NEW a \in Int, NEW j \in 0 .. m - 1, NEW k \in 0 .. m - 1,
         (a + j) % m = (a + k) % m
  PROVE  j = k
<1>0. a + j \in Int /\ a + k \in Int
  OBVIOUS
<1>1. PICK p \in Int : a + j = p * m + ((a + j) % m)
  BY <1>0, ModDivision, Zenon
<1>2. PICK q \in Int : a + k = q * m + ((a + k) % m)
  BY <1>0, ModDivision, Zenon
<1>3. (a + j) % m \in Int
  BY ModRange
<1>4. j - k = (p - q) * m
  <2>1. (p - q) * m = p * m - q * m
    OBVIOUS
  <2>2. p * m \in Int /\ q * m \in Int
    OBVIOUS
  <2> QED BY <1>1, <1>2, <1>3, <2>1, <2>2
<1>5. ~(p - q >= 1)
  <2> SUFFICES ASSUME p - q >= 1 PROVE FALSE
    OBVIOUS
  <2>1. (p - q) * m >= m
    OBVIOUS
  <2> QED BY <1>4, <2>1
<1>6. ~(p - q <= -1)
  <2> SUFFICES ASSUME p - q <= -1 PROVE FALSE
    OBVIOUS
  <2>1. (p - q) * m <= -m
    OBVIOUS
  <2> QED BY <1>4, <2>1
<1>7. p - q = 0
  BY <1>5, <1>6
<1> QED BY <1>4, <1>7

\* The slot k places after the next consumer index is the one k + 1 places
\* after this one, also where the index wraps.
LEMMA SlotStep ==
  ASSUME NEW c \in 0 .. IndexRange - 1, NEW k \in Nat
  PROVE  (((c + 1) % IndexRange) + k) % FillSize = (c + (k + 1)) % FillSize
<1>1. PICK n \in Int : IndexRange = n * FillSize
  BY Rounds
<1>2. FillSize \in Nat \ {0} /\ IndexRange \in Nat \ {0}
  BY SizeAssumption
<1>3. Mod(c + 1, IndexRange) = c + 1 \/ Mod(c + 1, IndexRange) = c + 1 - IndexRange
  BY <1>2, ModSmall
<1> DEFINE d == (c + 1) % IndexRange
<1>4. d = c + 1 \/ d = c + 1 - IndexRange
  BY <1>3 DEF Mod
<1> HIDE DEF d
<1>5. CASE d = c + 1
  BY <1>5 DEF d
<1>6. CASE d = c + 1 - IndexRange
  <2>1. d + k \in Int /\ c + (k + 1) \in Int
    BY <1>2, <1>6
  <2>2. (-n) * FillSize = -IndexRange
    BY <1>1, <1>2
  <2>3. d + k = c + (k + 1) + (-n) * FillSize
    BY <1>2, <1>6, <2>2
  <2>4. (d + k) % FillSize = (c + (k + 1)) % FillSize
    <3> DEFINE A == d + k
               B == c + (k + 1)
    <3>1. A \in Int /\ B \in Int /\ -n \in Int /\ A = B + (-n) * FillSize
      BY <2>1, <2>3
    <3> HIDE DEF A, B
    <3>2. A % FillSize = B % FillSize
      BY <1>2, <3>1, ModShift, Zenon
    <3> QED BY <3>2 DEF A, B
  <2> QED BY <2>4 DEF d
<1> QED BY <1>4, <1>5, <1>6

\* A slot counted from the consumer index, counted from the producer index: what
\* fill_rx_ring does by idx + i and the kernel by its own index.
LEMMA SlotFromProducer ==
  ASSUME NEW p \in 0 .. IndexRange - 1, NEW c \in 0 .. IndexRange - 1, NEW k \in Nat
  PROVE  (((c + k) % FillSize) - p) % FillSize
            = (k - ((p - c) % IndexRange)) % FillSize
<1>1. PICK n \in Int : IndexRange = n * FillSize
  BY Rounds
<1>2. FillSize \in Nat \ {0} /\ IndexRange \in Nat \ {0}
  BY SizeAssumption
<1> DEFINE l == (p - c) % IndexRange
           s == (c + k) % FillSize
<1>3. PICK e \in {0, 1} : p = c + l - e * IndexRange
  <2>1. p - c \in Int
    BY <1>2
  <2>2. Mod(p - c, IndexRange) = p - c \/ Mod(p - c, IndexRange) = p - c + IndexRange
    BY <1>2, <2>1, ModSmall
  <2>3. l = p - c \/ l = p - c + IndexRange
    BY <2>2 DEF Mod
  <2> HIDE DEF l
  <2>4. CASE l = p - c
    <3>1. p = c + l - 0 * IndexRange
      BY <1>2, <2>4
    <3> QED BY <3>1
  <2>5. CASE l = p - c + IndexRange
    <3>1. p = c + l - 1 * IndexRange
      BY <1>2, <2>5
    <3> QED BY <3>1
  <2> QED BY <2>3, <2>4, <2>5
<1>4. PICK q \in Int : c + k = q * FillSize + s
  <2>1. c + k \in Int
    BY <1>2
  <2> QED BY <1>2, <2>1, ModDivision, Zenon
<1>5. l \in Int /\ s \in Int
  BY <1>2, ModRange
<1> HIDE DEF l, s
<1>6. s - p = (k - l) + (e * n - q) * FillSize
  <2>1. (e * n - q) * FillSize = e * IndexRange - q * FillSize
    BY <1>1, <1>2, <1>3
  <2>2. e * IndexRange \in Int /\ q * FillSize \in Int
    BY <1>2
  <2> QED BY <1>2, <1>3, <1>4, <1>5, <2>1, <2>2
<1>7. s - p \in Int /\ k - l \in Int /\ e * n - q \in Int
  BY <1>2, <1>5
<1>8. (s - p) % FillSize = (k - l) % FillSize
  BY <1>2, <1>6, <1>7, ModShift, Zenon
<1> QED BY <1>8 DEF l, s

-----------------------------------------------------------------------------
(* Types                                                                   *)

\* The entries of the FILL ring that the kernel has not taken, next one first.
Entries == [k \in 0 .. FillLevel - 1 |-> fill[(fill_cons + k) % FillSize]]

\* Before the loop nothing has been lent; in a batch its descriptors are there.
Phases ==
    /\ pc \in {"start", "ready", "gone"} =>
          fill_prod = fill_cons /\ held = Null /\ rx = <<>>
    /\ pc = "batch" => n_pkts <= Len(rx)
    /\ delivered <= arrivals

\* The invariant behind TypeOK.
TInv == TypeOK /\ Phases

\* The assumptions on the sizes, with the ring sizes not zero.
LEMMA Sizes ==
  /\ NumFrames \in Nat \ {0} /\ RxSize \in Nat \ {0} /\ Batch \in Nat \ {0}
  /\ FillSize \in Nat \ {0} /\ Batch <= FillSize
  /\ IndexRange \in Nat \ {0} /\ FillSize < IndexRange
  BY SizeAssumption

\* The FILL ring holds at most FillSize entries, and none when its indices agree.
LEMMA FillLevelFacts ==
  ASSUME TypeOK
  PROVE  /\ FillLevel \in 0 .. FillSize
         /\ (FillLevel = 0) <=> (fill_prod = fill_cons)
<1>1. fill_prod \in 0 .. IndexRange - 1 /\ fill_cons \in 0 .. IndexRange - 1
  BY DEF TypeOK
<1>2. /\ FillLevel \in 0 .. IndexRange - 1
      /\ (FillLevel = 0) <=> (fill_prod = fill_cons)
  BY <1>1, Level, Zenon DEF FillLevel
<1>3. FillLevel <= FillSize
  BY DEF TypeOK
<1> QED BY <1>2, <1>3, Sizes

\* The initial state has its types.
LEMMA TypeInit == Init => TInv
<1> SUFFICES ASSUME Init PROVE TInv
  OBVIOUS
<1>1. (0 - 0) % IndexRange = 0
  BY Level, Sizes
<1>2. FillLevel = 0
  BY <1>1 DEF Init, FillLevel
<1>3. fill \in [Slots -> Frames] /\ content \in [Frames -> Nat]
  BY Sizes DEF Init, Slots, Frames
<1>4. /\ free \in Seq(Frames) /\ rx \in Seq(Frames) /\ Len(rx) <= RxSize
      /\ got \in Seq(Nat)
  BY Sizes DEF Init
<1>5. FillLevel <= FillSize
  BY <1>2, Sizes
<1>6. /\ fill_prod \in 0 .. IndexRange - 1 /\ fill_cons \in 0 .. IndexRange - 1
      /\ n_pkts \in 0 .. Batch /\ i \in 0 .. n_pkts
      /\ delivered \in 0 .. MaxPackets /\ arrivals \in 0 .. MaxPackets
      /\ loads \in 0 .. MaxLoads
  BY Sizes, BoundAssumption DEF Init
<1>7. TypeOK
  BY <1>3, <1>4, <1>5, <1>6, Zenon DEF Init, TypeOK, Handle
<1> QED BY <1>7 DEF Init, TInv, Phases

\* The constructor keeps the types: the allocator starts with every frame.
LEMMA ConstructType == TInv /\ Construct => TInv'
<1> SUFFICES ASSUME TInv, Construct PROVE TInv'
  OBVIOUS
<1> USE DEF handles, fillVars, kernelVars, loopVars
<1>1. free' \in Seq(Frames)
  <2>1. \A k \in 1 .. NumFrames : k - 1 \in Frames
    BY Sizes DEF Frames
  <2>2. [k \in 1 .. NumFrames |-> k - 1] \in Seq(Frames)
    BY <2>1, Sizes
  <2> QED BY <2>2, Zenon DEF TInv, TypeOK, Construct
<1>2. FillLevel' = FillLevel
  BY DEF Construct, FillLevel
<1>3. TypeOK'
  BY <1>1, <1>2, Zenon DEF TInv, TypeOK, Construct, UmemConstruct, Handle
<1> QED BY <1>3 DEF TInv, Phases, Construct

\* load_bpf_program keeps the types, whichever of its calls fails.
LEMMA LoadBpfProgramType ==
  ASSUME NEW failed \in 1 .. 7, TInv, LoadBpfProgram(failed)
  PROVE  TInv'
<1> USE DEF fillVars, kernelVars, loopVars
<1>1. FillLevel' = FillLevel
  BY Zenon DEF LoadBpfProgram, FillLevel
<1>2. loads + 1 \in 1 .. MaxLoads /\ loads' = loads + 1
  BY BoundAssumption DEF TInv, TypeOK, LoadBpfProgram
<1>3. prog_' \in Handle /\ xsk_umem_' \in Handle /\ xsk_' \in Handle
  BY <1>2, Zenon DEF TInv, TypeOK, LoadBpfProgram, Handle
<1>4. objects' \subseteq {"prog", "umem", "xsk"} \X (1 .. MaxLoads)
  BY <1>2 DEF TInv, TypeOK, LoadBpfProgram
<1>5. TypeOK'
  BY <1>1, <1>2, <1>3, <1>4, BoundAssumption DEF TInv, TypeOK, LoadBpfProgram
<1> QED BY <1>5, Zenon DEF TInv, Phases, LoadBpfProgram

\* The destructor keeps the types.
LEMMA DestroyType == TInv /\ Destroy => TInv'
<1> SUFFICES ASSUME TInv, Destroy PROVE TInv'
  BY Zenon
<1> USE DEF handles, fillVars, kernelVars, loopVars
<1>1. FillLevel' = FillLevel
  BY DEF Destroy, FillLevel
<1>2. objects' \subseteq objects
  BY Zenon DEF Destroy, Release, UmemDelete
<1>3. TypeOK'
  BY <1>1, <1>2, Zenon DEF TInv, TypeOK, Destroy, Handle
<1> QED BY <1>3 DEF TInv, Phases, Destroy

\* Entering the socket into the map keeps the types.
LEMMA MapSocketType == TInv /\ MapSocket => TInv'
<1> SUFFICES ASSUME TInv, MapSocket PROVE TInv'
  BY Zenon
<1> USE DEF handles, setupVars, fillVars, kernelVars, loopVars
<1>1. FillLevel' = FillLevel
  BY DEF MapSocket, FillLevel
<1> QED BY <1>1, Zenon DEF TInv, TypeOK, Phases, MapSocket, Handle

\* Entering run_rx_loop keeps the types.
LEMMA RunRxLoopType == TInv /\ RunRxLoop => TInv'
<1> SUFFICES ASSUME TInv, RunRxLoop PROVE TInv'
  BY Zenon
<1> USE DEF handles, setupVars, fillVars, kernelVars, loopVars
<1>1. FillLevel' = FillLevel
  BY DEF RunRxLoop, FillLevel
<1> QED BY <1>1, Zenon DEF TInv, TypeOK, Phases, RunRxLoop, Handle

\* What fill_rx_ring does to the FILL ring: reserve grants the batch only when it
\* fits, the entries before the producer index stay and those behind it get the
\* frames from the allocator.
LEMMA FillRxRingFacts ==
  ASSUME TInv, FillRxRing
  PROVE  /\ Reserve(Batch) \in {0, Batch} /\ FillLevel + Reserve(Batch) <= FillSize
         /\ Allocated(Reserve(Batch)) \in 0 .. Len(free)
         /\ Allocated(Reserve(Batch)) <= Reserve(Batch)
         /\ fill_prod' \in 0 .. IndexRange - 1
         /\ FillLevel' = FillLevel + Reserve(Batch)
         /\ \A s \in Slots : LET k == (s - fill_prod) % FillSize IN
               fill'[s] = IF k < Allocated(Reserve(Batch)) THEN free[k + 1] ELSE fill[s]
<1> DEFINE n == Reserve(Batch)
           al == Allocated(n)
<1>1. FillLevel \in 0 .. FillSize
  BY FillLevelFacts DEF TInv
<1>2. n \in {0, Batch} /\ FillLevel + n <= FillSize
  BY <1>1, Sizes DEF Reserve
<1>3. Len(free) \in Nat
  BY DEF TInv, TypeOK
<1>4. al \in 0 .. Len(free) /\ al <= n
  BY <1>2, <1>3, Sizes DEF Allocated
<1> HIDE DEF al
<1>5. fill_prod' = (fill_prod + n) % IndexRange /\ fill_cons' = fill_cons
  BY DEF FillRxRing, Submit, kernelVars
<1> HIDE DEF n
<1>6. fill_prod \in 0 .. IndexRange - 1 /\ fill_cons \in 0 .. IndexRange - 1 /\ n \in Nat
  BY <1>2, Sizes DEF TInv, TypeOK
<1>7. fill_prod' \in 0 .. IndexRange - 1
  <2>1. fill_prod + n \in Int
    BY <1>6
  <2> QED BY <1>5, <2>1, ModRange, Sizes, Zenon
<1>8. FillLevel' = FillLevel + n
  <2>1. FillLevel + n < IndexRange
    BY <1>1, <1>2, Sizes
  <2>2. \A k \in Nat : ((fill_prod - fill_cons) % IndexRange) + k < IndexRange =>
           (((fill_prod + k) % IndexRange) - fill_cons) % IndexRange
              = ((fill_prod - fill_cons) % IndexRange) + k
    BY <1>6, Level, Zenon
  <2>3. ((fill_prod - fill_cons) % IndexRange) + n < IndexRange
    BY <2>1 DEF FillLevel
  <2>4. (((fill_prod + n) % IndexRange) - fill_cons) % IndexRange
           = ((fill_prod - fill_cons) % IndexRange) + n
    BY <1>6, <2>2, <2>3, Zenon
  <2> QED BY <1>5, <2>4 DEF FillLevel
<1>9. ASSUME NEW s \in Slots
      PROVE  LET k == (s - fill_prod) % FillSize IN
               fill'[s] = IF k < al THEN free[k + 1] ELSE fill[s]
  <2> DEFINE k == (s - fill_prod) % FillSize
  <2>1. fill'[s] = IF k + 1 <= al THEN free[k + 1] ELSE fill[s]
    BY DEF FillRxRing, al, n
  <2>2. k \in Int
    <3>1. s - fill_prod \in Int
      BY <1>6, Sizes DEF Slots
    <3> QED BY <3>1, ModRange, Sizes
  <2> HIDE DEF k
  <2>3. k + 1 <= al <=> k < al
    BY <1>3, <1>4, <2>2
  <2> QED BY <2>1, <2>3, Zenon DEF k
<1> QED BY <1>2, <1>4, <1>7, <1>8, <1>9 DEF al, n

\* fill_rx_ring keeps the types: the entries it submits fit into the ring.
LEMMA FillRxRingType == TInv /\ FillRxRing => TInv'
<1> SUFFICES ASSUME TInv, FillRxRing PROVE TInv'
  BY Zenon
<1> USE DEF handles, setupVars, kernelVars, loopVars
<1> DEFINE al == Allocated(Reserve(Batch))
<1>1. al \in 0 .. Len(free) /\ fill_prod' \in 0 .. IndexRange - 1 /\ FillLevel' <= FillSize
  BY FillRxRingFacts
<1>2. free' \in Seq(Frames)
  <2>1. free \in Seq(Frames) /\ free' = SubSeq(free, al + 1, Len(free))
    BY DEF TInv, TypeOK, FillRxRing
  <2> HIDE DEF al
  <2> QED BY <1>1, <2>1, SubSeqFacts, Zenon
<1>3. fill' \in [Slots -> Frames]
  <2>1. ASSUME NEW s \in Slots PROVE fill'[s] \in Frames
    <3> DEFINE k == (s - fill_prod) % FillSize
    <3>1. fill'[s] = IF k < al THEN free[k + 1] ELSE fill[s]
      BY FillRxRingFacts
    <3>2. k \in Nat
      <4>1. s - fill_prod \in Int
        BY Sizes DEF Slots, TInv, TypeOK
      <4> QED BY <4>1, ModRange, Sizes
    <3>3. free \in Seq(Frames) /\ fill[s] \in Frames
      BY DEF TInv, TypeOK
    <3> HIDE DEF k, al
    <3> QED BY <1>1, <3>1, <3>2, <3>3
  <2>2. fill' = [s \in Slots |-> fill'[s]]
    BY DEF FillRxRing
  <2> QED BY <2>1, <2>2
<1>4. TypeOK'
  BY <1>1, <1>2, <1>3, Zenon DEF TInv, TypeOK, FillRxRing, Handle
<1> QED BY <1>4, Zenon DEF TInv, Phases, FillRxRing

\* The peek at the RX ring keeps the types: it returns no more descriptors than
\* there are.
LEMMA PollRxRingType == TInv /\ PollRxRing => TInv'
<1> SUFFICES ASSUME TInv, PollRxRing PROVE TInv'
  BY Zenon
<1> USE DEF handles, setupVars, fillVars, kernelVars
<1>1. FillLevel' = FillLevel
  BY DEF PollRxRing, FillLevel
<1>2. Len(rx) \in Nat
  BY DEF TInv, TypeOK
<1>3. Peek \in 0 .. Batch /\ Peek <= Len(rx)
  BY <1>2, Sizes DEF Peek
<1>4. n_pkts' \in 0 .. Batch /\ i' \in 0 .. n_pkts' /\ n_pkts' <= Len(rx)
  BY <1>3 DEF PollRxRing
<1>5. TypeOK'
  BY <1>1, <1>4, Zenon DEF TInv, TypeOK, PollRxRing, Handle
<1> QED BY <1>4, <1>5 DEF TInv, Phases, PollRxRing

\* A turn of process_rx_batch keeps the types.
LEMMA ProcessPacketType ==
  ASSUME NEW parsed \in BOOLEAN, TInv, ProcessPacket(parsed)
  PROVE  TInv'
<1> USE DEF handles, setupVars, fillVars, kernelVars
<1>1. FillLevel' = FillLevel
  BY Zenon DEF ProcessPacket, FillLevel
<1>2. rx \in Seq(Frames) /\ i + 1 \in 1 .. Len(rx) /\ i' = i + 1 /\ i' \in 0 .. n_pkts
  BY Sizes DEF TInv, TypeOK, Phases, ProcessPacket
<1>3. rx[i + 1] \in Frames
  BY <1>2
<1>4. rx[i + 1] # Null /\ GetFrame(rx[i + 1]) # Null
  BY <1>3, Sizes, BoundAssumption DEF Frames, GetFrame
<1>a. /\ got' = Append(got, content[rx[i + 1]])
      /\ free' = Append(free, rx[i + 1])
      /\ pkt_count_' \in {pkt_count_, pkt_count_ + 1}
      /\ parse_errors_' \in {parse_errors_, parse_errors_ + 1}
  BY <1>4 DEF ProcessPacket, FreeFrame
<1>5. free' \in Seq(Frames) /\ got' \in Seq(Nat)
  BY <1>3, <1>a, AppendFacts, Zenon DEF TInv, TypeOK
<1>6. pkt_count_' \in Nat /\ parse_errors_' \in Nat
  <2>1. pkt_count_ \in Nat /\ parse_errors_ \in Nat
    BY Zenon DEF TInv, TypeOK
  <2> QED BY <1>a, <2>1
<1>7. TypeOK'
  BY <1>1, <1>2, <1>5, <1>6, Zenon DEF TInv, TypeOK, ProcessPacket, Handle
<1> QED BY <1>7 DEF TInv, Phases, ProcessPacket

\* The release of the batch keeps the types: the descriptors are still there.
LEMMA ReleaseBatchType == TInv /\ ReleaseBatch => TInv'
<1> SUFFICES ASSUME TInv, ReleaseBatch PROVE TInv'
  BY Zenon
<1> USE DEF handles, setupVars, fillVars, kernelVars, loopVars
<1>1. FillLevel' = FillLevel
  BY Zenon DEF ReleaseBatch, FillLevel
<1>2. rx \in Seq(Frames) /\ n_pkts \in 0 .. Len(rx) /\ Len(rx) <= RxSize
  BY Sizes DEF TInv, TypeOK, Phases, ReleaseBatch
<1>3. rx' \in Seq(Frames) /\ Len(rx') = Len(rx) - n_pkts
  BY <1>2, SubSeqFacts DEF ReleaseBatch, ReleaseCount
<1>4. Len(rx') <= RxSize
  BY <1>2, <1>3, Sizes
<1>5. TypeOK'
  BY <1>1, <1>3, <1>4, Zenon DEF TInv, TypeOK, ReleaseBatch, Handle
<1> QED BY <1>5 DEF TInv, Phases, ReleaseBatch

\* A packet that arrives changes the rings only when the kernel has a frame for
\* it: the one it holds, or the next entry of the FILL ring, which goes into the
\* RX ring or stays with the kernel.
LEMMA ArriveCases ==
  ASSUME TInv, NEW p, Arrive(p)
  PROVE  \/ UNCHANGED <<fill_cons, held, rx, content, delivered>>
         \/ /\ pc \in {"fill", "poll", "batch"} /\ KernelFrame \in Frames
            /\ \/ held # Null /\ KernelFrame = held /\ fill_cons' = fill_cons
               \/ /\ held = Null /\ FillLevel > 0 /\ KernelFrame = Entries[0]
                  /\ fill_cons' = (fill_cons + 1) % IndexRange
            /\ \/ /\ Len(rx) < RxSize
                  /\ rx' = Append(rx, KernelFrame)
                  /\ content' = [content EXCEPT ![KernelFrame] = delivered + 1]
                  /\ delivered' = delivered + 1
                  /\ held' = Null
               \/ held' = KernelFrame /\ UNCHANGED <<rx, content, delivered>>
<1>1. CASE ~(Destination(p) = "xsk" /\ (held # Null \/ FillLevel > 0))
  BY <1>1 DEF Arrive
<1>2. CASE Destination(p) = "xsk" /\ (held # Null \/ FillLevel > 0)
  <2>1. pc \in {"fill", "poll", "batch"}
    <3>1. CASE FillLevel > 0
      <4>1. fill_prod # fill_cons
        BY <3>1, FillLevelFacts DEF TInv
      <4> QED BY <4>1 DEF TInv, TypeOK, Phases
    <3>2. CASE held # Null
      BY <3>2 DEF TInv, TypeOK, Phases
    <3> QED BY <1>2, <3>1, <3>2
  <2>2. fill_cons \in Int /\ fill_cons % FillSize \in Slots /\ fill_cons + 0 = fill_cons
    <3>1. fill_cons \in Int /\ fill_cons + 0 = fill_cons
      BY Sizes DEF TInv, TypeOK
    <3>2. fill_cons % FillSize \in 0 .. FillSize - 1
      BY <3>1, ModRange, Sizes, Zenon
    <3> QED BY <3>1, <3>2 DEF Slots
  <2>3. KernelFrame \in Frames
    BY <2>2 DEF KernelFrame, TInv, TypeOK
  <2>4. held = Null => KernelFrame = Entries[0]
    <3> SUFFICES ASSUME held = Null PROVE KernelFrame = Entries[0]
      OBVIOUS
    <3>1. FillLevel > 0
      BY <1>2
    <3>2. 0 \in 0 .. FillLevel - 1
      BY <3>1, FillLevelFacts, Sizes DEF TInv
    <3> QED BY <2>2, <3>2 DEF KernelFrame, Entries
  <2>5. held # Null => KernelFrame = held
    BY DEF KernelFrame
  <2>6. fill_cons' = IF held # Null THEN fill_cons ELSE (fill_cons + 1) % IndexRange
    BY <1>2, Zenon DEF Arrive
  <2>7. \/ /\ Len(rx) < RxSize
           /\ rx' = Append(rx, KernelFrame)
           /\ content' = [content EXCEPT ![KernelFrame] = delivered + 1]
           /\ delivered' = delivered + 1
           /\ held' = Null
        \/ held' = KernelFrame /\ UNCHANGED <<rx, content, delivered>>
    BY <1>2 DEF Arrive
  <2>8. \/ held # Null /\ KernelFrame = held /\ fill_cons' = fill_cons
        \/ /\ held = Null /\ FillLevel > 0 /\ KernelFrame = Entries[0]
           /\ fill_cons' = (fill_cons + 1) % IndexRange
    BY <1>2, <2>4, <2>5, <2>6
  <2> QED BY <2>1, <2>3, <2>7, <2>8
<1> QED BY <1>1, <1>2

\* The kernel takes one entry of the FILL ring.
LEMMA Taken ==
  ASSUME TypeOK, FillLevel > 0, fill_prod' = fill_prod,
         fill_cons' = (fill_cons + 1) % IndexRange
  PROVE  fill_cons' \in 0 .. IndexRange - 1 /\ FillLevel' = FillLevel - 1
<1>1. fill_prod \in 0 .. IndexRange - 1 /\ fill_cons \in 0 .. IndexRange - 1
  BY DEF TypeOK
<1>2. fill_cons + 1 \in Int
  BY <1>1, Sizes
<1>3. fill_cons' \in 0 .. IndexRange - 1
  BY <1>2, ModRange, Sizes, Zenon
<1>4. (fill_prod - fill_cons) % IndexRange > 0
  BY DEF FillLevel
<1>5. (fill_prod - ((fill_cons + 1) % IndexRange)) % IndexRange
         = ((fill_prod - fill_cons) % IndexRange) - 1
  BY <1>1, <1>4, Level, Zenon
<1>6. FillLevel' = FillLevel - 1
  BY <1>5 DEF FillLevel
<1> QED BY <1>3, <1>6, Zenon

\* An arrival keeps the types: the kernel never takes from an empty FILL ring nor
\* puts into a full RX ring.
LEMMA ArriveType == ASSUME TInv, NEW p, Arrive(p) PROVE TInv'
<1> USE DEF handles, setupVars, fillVars, loopVars
<1>1. arrivals' = arrivals + 1 /\ arrivals' \in 0 .. MaxPackets
  BY BoundAssumption DEF TInv, TypeOK, Arrive
<1>2. fill_prod' = fill_prod /\ pc' = pc /\ n_pkts' = n_pkts /\ i' = i
  BY Zenon DEF Arrive
<1>3. /\ fill_cons' \in 0 .. IndexRange - 1 /\ FillLevel' <= FillSize
      /\ (FillLevel' = FillLevel /\ fill_cons' = fill_cons) \/ pc \in {"fill", "poll", "batch"}
  <2>1. FillLevel \in 0 .. FillSize
    BY FillLevelFacts, Zenon DEF TInv
  <2>2. CASE fill_cons' = fill_cons
    <3>1. FillLevel' = FillLevel
      BY <1>2, <2>2 DEF FillLevel
    <3> QED BY <2>2, <3>1 DEF TInv, TypeOK
  <2>3. CASE FillLevel > 0 /\ fill_cons' = (fill_cons + 1) % IndexRange
               /\ pc \in {"fill", "poll", "batch"}
    <3>1. fill_cons' \in 0 .. IndexRange - 1 /\ FillLevel' = FillLevel - 1
      BY <1>2, <2>3, Taken DEF TInv
    <3>2. FillLevel' <= FillSize
      BY <2>1, <3>1, Sizes
    <3> QED BY <2>3, <3>1, <3>2
  <2> QED BY <2>2, <2>3, ArriveCases
<1>4. /\ rx' \in Seq(Frames) /\ Len(rx') <= RxSize /\ Len(rx') >= Len(rx)
      /\ held' \in Frames \cup {Null}
      /\ content' \in [Frames -> Nat]
      /\ delivered' \in Nat /\ delivered' <= arrivals'
  <2>1. /\ rx \in Seq(Frames) /\ Len(rx) <= RxSize /\ Len(rx) \in Nat
        /\ held \in Frames \cup {Null} /\ content \in [Frames -> Nat]
        /\ delivered \in Nat /\ arrivals \in Nat /\ delivered <= arrivals
    BY DEF TInv, TypeOK, Phases
  <2>2. CASE UNCHANGED <<fill_cons, held, rx, content, delivered>>
    BY <1>1, <2>1, <2>2
  <2>3. CASE /\ KernelFrame \in Frames /\ Len(rx) < RxSize
             /\ rx' = Append(rx, KernelFrame)
             /\ content' = [content EXCEPT ![KernelFrame] = delivered + 1]
             /\ delivered' = delivered + 1
             /\ held' = Null
    <3>1. rx' \in Seq(Frames) /\ Len(rx') = Len(rx) + 1
      BY <2>1, <2>3, AppendFacts
    <3>2. Len(rx') <= RxSize /\ Len(rx') >= Len(rx)
      BY <2>1, <2>3, <3>1, Sizes
    <3>3. content' \in [Frames -> Nat] /\ delivered' \in Nat /\ delivered' <= arrivals'
      BY <1>1, <2>1, <2>3
    <3> QED BY <2>3, <3>1, <3>2, <3>3, Zenon
  <2>4. CASE KernelFrame \in Frames /\ held' = KernelFrame /\ UNCHANGED <<rx, content, delivered>>
    BY <1>1, <2>1, <2>4
  <2> QED BY <2>2, <2>3, <2>4, ArriveCases, Zenon
<1>5. delivered' \in 0 .. MaxPackets
  BY <1>1, <1>4, BoundAssumption
<1>6. TypeOK'
  BY <1>1, <1>2, <1>3, <1>4, <1>5, Zenon DEF TInv, TypeOK, Arrive, Handle
<1>7. pc' = "batch" => n_pkts' <= Len(rx')
  BY <1>2, <1>4, Sizes DEF TInv, TypeOK, Phases
<1>8. pc' \in {"start", "ready", "gone"} =>
          fill_prod' = fill_cons' /\ held' = Null /\ rx' = <<>>
  BY <1>2, ArriveCases DEF TInv, Phases
<1> QED BY <1>4, <1>6, <1>7, <1>8, Zenon DEF TInv, Phases

\* Every step keeps the types.
LEMMA TypeNext == TInv /\ [Next]_vars => TInv'
<1> SUFFICES ASSUME TInv, [Next]_vars PROVE TInv'
  OBVIOUS
<1>1. CASE Setup
  BY <1>1, ConstructType, DestroyType, MapSocketType, LoadBpfProgramType DEF Setup
<1>2. CASE RunRxLoop
  BY <1>2, RunRxLoopType
<1>3. CASE Loop
  BY <1>3, FillRxRingType, PollRxRingType, ProcessPacketType, ReleaseBatchType DEF Loop
<1>4. CASE \E p \in Packets : Arrive(p)
  BY <1>4, ArriveType, Zenon
<1>5. CASE UNCHANGED vars
  <2> USE DEF vars, setupVars, handles, fillVars, kernelVars, loopVars
  <2>1. FillLevel' = FillLevel
    BY <1>5 DEF FillLevel
  <2> QED BY <1>5, <2>1 DEF TInv, TypeOK, Phases, Handle
<1> QED BY <1>1, <1>2, <1>3, <1>4, <1>5 DEF Next

\* The variables keep their types, whatever the sizes of the rings and the pool
\* and wherever the ring indices wrap; in particular fill_rx_ring never submits
\* more entries than the FILL ring has places.
THEOREM TypeCorrect == Spec => []TypeOK
<1>1. Spec => []TInv
  BY TypeInit, TypeNext, PTL DEF Spec
<1>2. TInv => TypeOK
  BY DEF TInv
<1> QED BY <1>1, <1>2, PTL

-----------------------------------------------------------------------------
(* Objects                                                                 *)

\* The objects of the first load are those the handles name.
Handled ==
    /\ pc = "start" => loads = 0
    /\ loads = 0 => objects = {}
    /\ loads <= 1 /\ pc # "gone" =>
          objects \subseteq {<<"prog", prog_>>, <<"umem", xsk_umem_>>, <<"xsk", xsk_>>}
    /\ LeaksOnlyByReload

\* ~XskSocket closes the socket before it deletes the UMEM, so that no object its
\* handles name is left.
LEMMA ReleaseAll ==
  ASSUME objects \subseteq {<<"prog", prog_>>, <<"umem", xsk_umem_>>, <<"xsk", xsk_>>}
  PROVE  Release(objects) = {}
<1> DEFINE o == objects \ {<<"xsk", xsk_>>}
<1>1. o \subseteq {<<"prog", prog_>>, <<"umem", xsk_umem_>>}
  OBVIOUS
<1>2. <<"xsk", xsk_umem_>> \notin o
  BY <1>1
<1>3. UmemDelete(o, xsk_umem_) = o \ {<<"umem", xsk_umem_>>}
  BY <1>2 DEF UmemDelete
<1> QED BY <1>1, <1>3, Zenon DEF Release

\* There are no objects before the constructor.
LEMMA HandledInit == Init => Handled
  BY DEF Init, Handled, LeaksOnlyByReload

\* Every step keeps the objects of the first load named by the handles.
LEMMA HandledNext == ASSUME TInv, Handled, [Next]_vars PROVE Handled'
<1>1. CASE UNCHANGED <<objects, loads, prog_, xsk_umem_, xsk_>> /\ (pc' = "gone" <=> pc = "gone")
           /\ (pc' = "start" <=> pc = "start")
  BY <1>1 DEF Handled, LeaksOnlyByReload
<1>2. CASE Construct
  <2>1. UNCHANGED <<objects, loads, prog_, xsk_umem_, xsk_>>
    BY <1>2 DEF Construct, handles
  <2>2. objects = {} /\ loads = 0 /\ pc' # "start"
    BY <1>2 DEF Handled, Construct
  <2> QED BY <2>1, <2>2 DEF Handled, LeaksOnlyByReload
<1>3. CASE Destroy
  <2>1. pc = "ready" /\ pc' = "gone" /\ loads' = loads /\ objects' = Release(objects)
    BY <1>3, Zenon DEF Destroy
  <2>2. loads \in Nat /\ (loads = 0 => loads <= 1)
    BY BoundAssumption DEF TInv, TypeOK
  <2>3. loads <= 1 => objects' = {}
    BY <2>1, ReleaseAll DEF Handled
  <2> QED BY <2>1, <2>2, <2>3 DEF Handled, LeaksOnlyByReload
<1>4. ASSUME NEW failed \in 1 .. 7, LoadBpfProgram(failed) PROVE Handled'
  <2>1. loads \in Nat /\ loads' = loads + 1 /\ pc' = pc /\ pc = "ready"
    BY <1>4, BoundAssumption DEF LoadBpfProgram, TInv, TypeOK
  <2>2. CASE loads = 0
    <3>1. objects = {} /\ loads' = 1
      BY <2>1, <2>2 DEF Handled
    <3>2. objects' \subseteq {<<"prog", prog_'>>, <<"umem", xsk_umem_'>>, <<"xsk", xsk_'>>}
      <4>1. \A x \in objects' : x \in {<<"prog", prog_'>>, <<"umem", xsk_umem_'>>, <<"xsk", xsk_'>>}
        BY <1>4, <3>1, Zenon DEF LoadBpfProgram
      <4> QED BY <4>1
    <3> QED BY <2>1, <3>1, <3>2 DEF Handled, LeaksOnlyByReload
  <2>3. CASE loads # 0
    <3>1. ~(loads' <= 1) /\ loads' # 0
      BY <2>1, <2>3
    <3> QED BY <2>1, <3>1 DEF Handled, LeaksOnlyByReload
  <2> QED BY <2>2, <2>3, Zenon
<1>5. CASE MapSocket \/ RunRxLoop \/ Loop \/ \E p \in Packets : Arrive(p)
  <2>1. UNCHANGED <<objects, loads, prog_, xsk_umem_, xsk_>> /\ pc \notin {"start", "gone"}
        /\ pc' \notin {"start", "gone"}
    BY <1>5, Zenon DEF MapSocket, RunRxLoop, Loop, FillRxRing, PollRxRing, ProcessPacket,
                ReleaseBatch, Arrive, setupVars, handles
  <2> QED BY <1>1, <2>1, Zenon
<1>6. CASE UNCHANGED vars
  BY <1>1, <1>6 DEF vars, setupVars, handles
<1> QED BY <1>2, <1>3, <1>4, <1>5, <1>6 DEF Next, Setup

\* When the socket is gone, all that one call of load_bpf_program made is
\* released, whichever of its calls failed.
THEOREM ObjectsReleased == Spec => []LeaksOnlyByReload
<1>1. Init => TInv /\ Handled
  BY TypeInit, HandledInit
<1>2. TInv /\ Handled /\ [Next]_vars => (TInv /\ Handled)'
  BY TypeNext, HandledNext
<1>3. Handled => LeaksOnlyByReload
  BY DEF Handled
<1> QED BY <1>1, <1>2, <1>3, PTL DEF Spec

-----------------------------------------------------------------------------
(* The TCP program                                                         *)

\* Values of a field of two bytes.
Field16 == {x \in Nat : x \div 256 \in 0 .. 255}

\* Packets as they may stand on the wire, with whatever in their IP header.
WirePacket ==
    [h_proto : Field16, protocol : 0 .. 255, source : Field16, dest : Field16,
     ihl : 0 .. 15, option : Field16, len : Nat, queue : Nat]

\* redirect.bpf.c is attached, and packets are such packets.
TcpFilter == Filter = "tcp" /\ Packets \subseteq WirePacket

\* bpf_ntohs gives back the value that was sent in a 16-bit field.
LEMMA ReadAsSent == \A x \in Field16 : bpf_ntohs(Load16(x)) = x
<1> TAKE x \in Field16
<1> DEFINE hi == x \div 256
           lo == x % 256
<1>1. hi \in 0 .. 255 /\ lo \in 0 .. 255 /\ x = hi * 256 + lo
  BY DEF Field16
<1>3. Load16(x) = lo * 256 + hi
  BY DEF Load16, Swap16
<1> HIDE DEF hi, lo
<1>4. (lo * 256 + hi) % 256 = hi /\ (lo * 256 + hi) \div 256 = lo
  BY <1>1
<1> QED BY <1>1, <1>3, <1>4 DEF bpf_ntohs, Swap16

\* What redirect.bpf.c answers to a packet with a whole IP header: the two early
\* length checks are implied by the one on the TCP header, and the ports are read
\* behind the IP options.
LEMMA TcpVerdict ==
  ASSUME NEW p \in WirePacket, WholeIpHeader(p)
  PROVE  xdp_redirect_fix(p) = IF TcpFix(p) THEN RedirectMap(p.queue, "PASS") ELSE XDP_PASS
<1>1. /\ p.h_proto \in Field16 /\ p.source \in Field16 /\ p.dest \in Field16
      /\ p.ihl \in 0 .. 15 /\ p.len \in Nat
  BY Zenon DEF WirePacket
<1>2. /\ FieldAt(p, TcpOffset(p)) = p.source
      /\ FieldAt(p, TcpOffset(p) + 2) = p.dest
  BY <1>1 DEF FieldAt, TcpOffset, EthLen
<1>3. /\ bpf_ntohs(Load16(p.h_proto)) = p.h_proto
      /\ bpf_ntohs(Load16(p.source)) = p.source /\ bpf_ntohs(Load16(p.dest)) = p.dest
  BY <1>1, ReadAsSent, Zenon
<1>4. TcpFix(p) <=> /\ EthLen <= p.len
                    /\ bpf_ntohs(Load16(p.h_proto)) = ETH_P_IP
                    /\ EthLen + IpLen <= p.len
                    /\ p.protocol = IPPROTO_TCP
                    /\ TcpOffset(p) + TcpLen <= p.len
                    /\ \/ bpf_ntohs(Load16(FieldAt(p, TcpOffset(p) + 2))) = TcpFixPort
                       \/ bpf_ntohs(Load16(FieldAt(p, TcpOffset(p)))) = TcpFixPort
  <2>1. p.h_proto = ETH_P_IP /\ TcpOffset(p) + TcpLen <= p.len
          => EthLen <= p.len /\ EthLen + IpLen <= p.len
    BY <1>1 DEF WholeIpHeader, TcpOffset, TcpLen, EthLen, IpLen
  <2>2. TcpFix(p) <=> /\ p.h_proto = ETH_P_IP /\ p.protocol = IPPROTO_TCP
                      /\ TcpOffset(p) + TcpLen <= p.len
                      /\ p.dest = TcpFixPort \/ p.source = TcpFixPort
    BY <1>1 DEF TcpFix, IsIPv4, TcpOffset
  <2> QED BY <1>2, <1>3, <2>1, <2>2, Zenon
<1> QED BY <1>4 DEF xdp_redirect_fix, RedirectTcp

\* Where a packet with a whole IP header goes behind redirect.bpf.c.
LEMMA TcpDestination ==
  ASSUME TcpFilter, NEW p \in Packets, WholeIpHeader(p)
  PROVE  Destination(p) = IF TcpFix(p) /\ mapped /\ p.queue = 0 THEN "xsk" ELSE "stack"
<1>1. Verdict(p) = IF TcpFix(p) THEN RedirectMap(p.queue, "PASS") ELSE XDP_PASS
  BY TcpVerdict, Zenon DEF TcpFilter, Verdict
<1>2. CASE TcpFix(p)
  <2>1. Verdict(p) = [action |-> "REDIRECT", key |-> p.queue, otherwise |-> "PASS"]
    BY <1>1, <1>2, Zenon DEF RedirectMap
  <2> QED BY <1>2, <2>1 DEF Destination
<1>3. CASE ~TcpFix(p)
  <2>1. Verdict(p) = [action |-> "PASS", key |-> 0, otherwise |-> "PASS"]
    BY <1>1, <1>3 DEF XDP_PASS
  <2> QED BY <1>3, <2>1 DEF Destination
<1> QED BY <1>2, <1>3

\* No packet goes to the socket from another queue or before the socket is in the
\* map, whatever its IP header says.
LEMMA TcpToStack ==
  ASSUME TcpFilter, NEW p \in Packets, ~mapped \/ p.queue # 0
  PROVE  Destination(p) = "stack"
<1>1. Verdict(p) = RedirectMap(p.queue, "PASS") \/ Verdict(p) = XDP_PASS
  BY DEF TcpFilter, Verdict, xdp_redirect_fix, RedirectTcp
<1> QED BY <1>1 DEF Destination, RedirectMap, XDP_PASS

\* The last arrival went where it should.
Sorted == StackGetsTheRest /\ FixIsRedirected

\* Every arrival is sorted as it should be; no other step is an arrival.
LEMMA SortedNext == ASSUME TcpFilter, Sorted, [Next]_vars PROVE Sorted'
<1>1. CASE last' = last
  BY <1>1 DEF Sorted, StackGetsTheRest, FixIsRedirected
<1>2. CASE last' = NoArrival
  BY <1>2, Zenon DEF Sorted, StackGetsTheRest, FixIsRedirected
<1>3. ASSUME NEW p \in Packets, Arrive(p) PROVE Sorted'
  <2>1. last' = [pkt |-> p, mapped |-> mapped, to |-> Destination(p)]
    BY <1>3 DEF Arrive
  <2>2. Fix(p) <=> TcpFix(p)
    BY DEF TcpFilter, Fix
  <2>3. last'.pkt = p /\ last'.mapped = mapped /\ last'.to = Destination(p)
    BY <2>1
  <2>4. ~mapped \/ p.queue # 0 => Destination(p) = "stack"
    BY TcpToStack, Zenon
  <2>5. ~Fix(p) /\ WholeIpHeader(p) => Destination(p) = "stack"
    BY <2>2, TcpDestination, Zenon
  <2>6. Fix(p) /\ mapped /\ p.queue = 0 => Destination(p) = "xsk"
    BY <2>2, TcpDestination, Zenon DEF TcpFix, IsIPv4
  <2>7. StackGetsTheRest'
    BY <2>3, <2>4, <2>5, Zenon DEF StackGetsTheRest
  <2>8. FixIsRedirected'
    BY <2>3, <2>6, Zenon DEF FixIsRedirected
  <2> QED BY <2>7, <2>8, Zenon DEF Sorted
<1> QED BY <1>1, <1>2, <1>3, Zenon DEF Next, vars

\* Every arrival is sorted as it should be, for the TCP program.
LEMMA SortedAlways == ASSUME TcpFilter PROVE Spec => []Sorted
<1>1. Init => Sorted
  BY DEF Init, Sorted, StackGetsTheRest, FixIsRedirected
<1>2. Sorted /\ [Next]_vars => Sorted'
  BY SortedNext
<1> QED BY <1>1, <1>2, PTL DEF Spec

\* Behind redirect.bpf.c what is not FIX over TCP and has a whole IP header, options
\* included, goes to the stack, and so does every packet, whatever its header, that
\* comes on another queue or finds no socket.
THEOREM TcpStackGetsTheRest == ASSUME TcpFilter PROVE Spec => []StackGetsTheRest
<1>1. Sorted => StackGetsTheRest
  BY DEF Sorted
<1> QED BY <1>1, SortedAlways, PTL

\* Behind redirect.bpf.c every FIX packet on the socket's queue is the socket's
\* once it is in the map, whatever IP options it has.
THEOREM TcpFixIsRedirected == ASSUME TcpFilter PROVE Spec => []FixIsRedirected
<1>1. Sorted => FixIsRedirected
  BY DEF Sorted
<1> QED BY <1>1, SortedAlways, PTL
=============================================================================
