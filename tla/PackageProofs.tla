--------------------------- MODULE PackageProofs ---------------------------
(***************************************************************************)
(* Proofs about Package, with the bitstream parser and the register map it *)
(* is made of, for packages of any size and content.                       *)
(***************************************************************************)
EXTENDS Package, SequenceTheorems, TLAPS

LEMMA KeyValues ==
  /\ Key["a"] = 97 /\ Key["b"] = 98 /\ Key["c"] = 99 /\ Key["d"] = 100 /\ Key["e"] = 101
  /\ After["a"] = "b" /\ After["b"] = "c" /\ After["c"] = "d" /\ After["d"] = "e"
BY DEF Key, After

LEMMA HeaderLen == Len(header) = 13
BY DEF header

-----------------------------------------------------------------------------
(***************************************************************************)
(* The table of bitreverse8() has each byte with its bits turned round.    *)
(***************************************************************************)
LEMMA ByteIsNat == ASSUME NEW x \in Byte PROVE x \in Nat
BY DEF Byte

LEMMA TwoAt ==
  ASSUME NEW p \in Seq(Byte), NEW q \in Seq(Byte)
  PROVE  /\ p \o q \in Seq(Byte) /\ Len(p \o q) = Len(p) + Len(q)
         /\ \A j \in 1 .. Len(p) : (p \o q)[j] = p[j]
         /\ \A j \in 1 .. Len(q) : (p \o q)[Len(p) + j] = q[j]
<1>1. PICK K \in Nat, L \in Nat : K = Len(p) /\ L = Len(q)
  BY LenProperties
<1>2. PICK t : t = p \o q
  OBVIOUS
<1>3. /\ \A i \in 1 .. K + L : t[i] = IF i <= K THEN p[i] ELSE q[i - K]
      /\ p \o q \in Seq(Byte) /\ Len(p \o q) = K + L
  BY <1>1, <1>2, ConcatProperties, Zenon
<1>4. ASSUME NEW j \in 1 .. K PROVE t[j] = p[j]
  <2>1. j \in 1 .. K + L /\ j <= K
    OBVIOUS
  <2> QED BY <1>3, <2>1, Zenon
<1>5. ASSUME NEW j \in 1 .. L PROVE t[K + j] = q[j]
  <2>1. PICK m \in 1 .. K + L : m = K + j /\ ~(m <= K) /\ m - K = j
    OBVIOUS
  <2>2. t[m] = q[m - K]
    BY <1>3, <2>1, Zenon
  <2> QED BY <2>1, <2>2, Zenon
<1> QED BY <1>1, <1>2, <1>3, <1>4, <1>5, Zenon

LEMMA FourOf ==
  ASSUME NEW p \in Seq(Byte), NEW q \in Seq(Byte), NEW r \in Seq(Byte), NEW s \in Seq(Byte)
  PROVE  /\ p \o q \o r \o s \in Seq(Byte)
         /\ Len(p \o q \o r \o s) = Len(p) + Len(q) + Len(r) + Len(s)
<1>1. p \o q \in Seq(Byte) /\ Len(p \o q) = Len(p) + Len(q)
  BY TwoAt, Zenon
<1>2. (p \o q) \o r \in Seq(Byte) /\ Len((p \o q) \o r) = Len(p) + Len(q) + Len(r)
  BY <1>1, TwoAt, Zenon
<1> QED BY <1>2, TwoAt, Zenon

LEMMA R2Type ==
  ASSUME NEW m \in Nat, m <= 63 PROVE R2(m) \in Seq(Byte) /\ Len(R2(m)) = 4
<1>1. m \in Byte /\ m + 2 * 64 \in Byte /\ m + 1 * 64 \in Byte /\ m + 3 * 64 \in Byte
  BY SMT DEF Byte
<1> QED BY <1>1 DEF R2

LEMMA R4Type ==
  ASSUME NEW m \in Nat, m <= 15 PROVE R4(m) \in Seq(Byte) /\ Len(R4(m)) = 16
<1>1. PICK p \in Seq(Byte), q \in Seq(Byte), r \in Seq(Byte), s \in Seq(Byte) :
        /\ p = R2(m) /\ q = R2(m + 2 * 16) /\ r = R2(m + 1 * 16) /\ s = R2(m + 3 * 16)
        /\ Len(p) = 4 /\ Len(q) = 4 /\ Len(r) = 4 /\ Len(s) = 4
  BY R2Type
<1>2. p \o q \o r \o s \in Seq(Byte) /\ Len(p \o q \o r \o s) = 16
  <2>1. /\ p \o q \o r \o s \in Seq(Byte)
        /\ Len(p \o q \o r \o s) = Len(p) + Len(q) + Len(r) + Len(s)
    BY FourOf, SMT
  <2>2. Len(p) = 4 /\ Len(q) = 4 /\ Len(r) = 4 /\ Len(s) = 4
    BY <1>1
  <2> QED BY <2>1, <2>2
<1>3. R4(m) = p \o q \o r \o s
  BY <1>1, Zenon DEF R4
<1> QED BY <1>2, <1>3

LEMMA R6Type ==
  ASSUME NEW m \in Nat, m <= 3 PROVE R6(m) \in Seq(Byte) /\ Len(R6(m)) = 64
<1>1. PICK p \in Seq(Byte), q \in Seq(Byte), r \in Seq(Byte), s \in Seq(Byte) :
        /\ p = R4(m) /\ q = R4(m + 2 * 4) /\ r = R4(m + 1 * 4) /\ s = R4(m + 3 * 4)
        /\ Len(p) = 16 /\ Len(q) = 16 /\ Len(r) = 16 /\ Len(s) = 16
  BY R4Type
<1>2. p \o q \o r \o s \in Seq(Byte) /\ Len(p \o q \o r \o s) = 64
  <2>1. /\ p \o q \o r \o s \in Seq(Byte)
        /\ Len(p \o q \o r \o s) = Len(p) + Len(q) + Len(r) + Len(s)
    BY FourOf, SMT
  <2>2. Len(p) = 16 /\ Len(q) = 16 /\ Len(r) = 16 /\ Len(s) = 16
    BY <1>1
  <2> QED BY <2>1, <2>2
<1>3. R6(m) = p \o q \o r \o s
  BY <1>1, Zenon DEF R6
<1> QED BY <1>2, <1>3

\* t is made of p, q, r and s, which are of one length.
Quarters(t, p, q, r, s) ==
  \A i \in 1 .. Len(p) :
    /\ t[i] = p[i] /\ t[Len(p) + i] = q[i]
    /\ t[2 * Len(p) + i] = r[i] /\ t[3 * Len(p) + i] = s[i]

LEMMA FourAt ==
  ASSUME NEW p \in Seq(Byte), NEW q \in Seq(Byte), NEW r \in Seq(Byte), NEW s \in Seq(Byte),
         Len(q) = Len(p), Len(r) = Len(p), Len(s) = Len(p)
  PROVE  Quarters(p \o q \o r \o s, p, q, r, s)
<1> SUFFICES ASSUME NEW i \in 1 .. Len(p)
             PROVE  /\ (p \o q \o r \o s)[i] = p[i]
                    /\ (p \o q \o r \o s)[Len(p) + i] = q[i]
                    /\ (p \o q \o r \o s)[2 * Len(p) + i] = r[i]
                    /\ (p \o q \o r \o s)[3 * Len(p) + i] = s[i]
  BY Zenon DEF Quarters
<1>0. PICK L \in Nat : Len(p) = L /\ Len(q) = L /\ Len(r) = L /\ Len(s) = L /\ i \in 1 .. L
  BY LenProperties
<1>1. PICK K2 \in Nat, K3 \in Nat : K2 = L + L /\ K3 = K2 + L /\ K2 = 2 * L /\ K3 = 3 * L
  OBVIOUS
<1>2. PICK pq \in Seq(Byte) :
        /\ pq = p \o q /\ Len(pq) = K2
        /\ \A j \in 1 .. L : pq[j] = p[j]
        /\ \A j \in 1 .. L : pq[L + j] = q[j]
  <2>1. /\ p \o q \in Seq(Byte) /\ Len(p \o q) = L + L
        /\ \A j \in 1 .. L : (p \o q)[j] = p[j]
        /\ \A j \in 1 .. L : (p \o q)[L + j] = q[j]
    <3>1. /\ p \o q \in Seq(Byte) /\ Len(p \o q) = Len(p) + Len(q)
          /\ \A j \in 1 .. Len(p) : (p \o q)[j] = p[j]
          /\ \A j \in 1 .. Len(q) : (p \o q)[Len(p) + j] = q[j]
      BY TwoAt, Zenon
    <3> QED BY <1>0, <3>1, Zenon
  <2>2. Len(p \o q) = K2
    BY <1>1, <2>1, Zenon
  <2> QED BY <2>1, <2>2, Zenon
<1>3. PICK pqr \in Seq(Byte) :
        /\ pqr = pq \o r /\ Len(pqr) = K3
        /\ \A j \in 1 .. K2 : pqr[j] = pq[j]
        /\ \A j \in 1 .. L : pqr[K2 + j] = r[j]
  <2>1. /\ pq \o r \in Seq(Byte) /\ Len(pq \o r) = K2 + L
        /\ \A j \in 1 .. K2 : (pq \o r)[j] = pq[j]
        /\ \A j \in 1 .. L : (pq \o r)[K2 + j] = r[j]
    <3>1. /\ pq \o r \in Seq(Byte) /\ Len(pq \o r) = Len(pq) + Len(r)
          /\ \A j \in 1 .. Len(pq) : (pq \o r)[j] = pq[j]
          /\ \A j \in 1 .. Len(r) : (pq \o r)[Len(pq) + j] = r[j]
      BY TwoAt, Zenon
    <3> QED BY <1>0, <1>2, <3>1, Zenon
  <2>2. Len(pq \o r) = K3
    BY <1>1, <2>1, Zenon
  <2> QED BY <2>1, <2>2, Zenon
<1>4. PICK t :
        /\ t = pqr \o s
        /\ \A j \in 1 .. K3 : t[j] = pqr[j]
        /\ \A j \in 1 .. L : t[K3 + j] = s[j]
  <2>1. /\ \A j \in 1 .. Len(pqr) : (pqr \o s)[j] = pqr[j]
        /\ \A j \in 1 .. Len(s) : (pqr \o s)[Len(pqr) + j] = s[j]
    BY TwoAt, Zenon
  <2> QED BY <1>0, <1>3, <2>1, ZenonT(40)
<1>5. /\ i \in 1 .. K2 /\ i \in 1 .. K3 /\ L + i \in 1 .. K2 /\ L + i \in 1 .. K3
      /\ K2 + i \in 1 .. K3
  BY <1>0, <1>1
<1>6. t[i] = p[i] /\ t[L + i] = q[i] /\ t[K2 + i] = r[i] /\ t[K3 + i] = s[i]
  BY <1>0, <1>2, <1>3, <1>4, <1>5, ZenonT(40)
<1>7. t = p \o q \o r \o s
  BY <1>2, <1>3, <1>4, Zenon
<1> QED BY <1>0, <1>1, <1>6, <1>7, Zenon

\* The two bits of u in the other order
Swapped(u) == 2 * (u % 2) + (u \div 2)

LEMMA SwappedValues ==
  /\ Swapped(0) = 0 /\ Swapped(1) = 2 /\ Swapped(2) = 1 /\ Swapped(3) = 3
  /\ \A u \in 0 .. 3 : Swapped(u) \in 0 .. 3
BY SMT DEF Swapped

LEMMA R2At ==
  ASSUME NEW m \in Nat, m <= 63, NEW u \in 0 .. 3
  PROVE  R2(m)[u + 1] = m + 64 * Swapped(u)
<1>1. R2(m)[1] = m /\ R2(m)[2] = m + 128 /\ R2(m)[3] = m + 64 /\ R2(m)[4] = m + 192
  BY SMT DEF R2
<1> QED BY <1>1, SwappedValues

LEMMA R4At ==
  ASSUME NEW m \in Nat, m <= 15, NEW u \in 0 .. 3, NEW i \in 1 .. 4
  PROVE  R4(m)[4 * u + i] = R2(m + 16 * Swapped(u))[i]
<1>1. PICK p \in Seq(Byte), q \in Seq(Byte), r \in Seq(Byte), s \in Seq(Byte) :
        /\ p = R2(m) /\ q = R2(m + 2 * 16) /\ r = R2(m + 1 * 16) /\ s = R2(m + 3 * 16)
        /\ Len(p) = 4 /\ Len(q) = 4 /\ Len(r) = 4 /\ Len(s) = 4
  BY R2Type
<1>2. PICK t : t = R4(m) /\ t = p \o q \o r \o s
  BY <1>1, Zenon DEF R4
<1>3. t[i] = p[i] /\ t[4 + i] = q[i] /\ t[2 * 4 + i] = r[i] /\ t[3 * 4 + i] = s[i]
  <2>1. /\ p \in Seq(Byte) /\ q \in Seq(Byte) /\ r \in Seq(Byte) /\ s \in Seq(Byte)
        /\ Len(q) = Len(p) /\ Len(r) = Len(p) /\ Len(s) = Len(p) /\ i \in 1 .. Len(p)
    BY <1>1
  <2>2. Quarters(t, p, q, r, s)
    BY <1>2, <2>1, FourAt, Zenon
  <2> QED BY <1>1, <2>1, <2>2, Zenon DEF Quarters
<1>4. CASE u = 0
  <2>1. 4 * u + i = i /\ m + 16 * Swapped(u) = m
    BY <1>4, SwappedValues
  <2> QED BY <1>1, <1>2, <1>3, <2>1, Zenon
<1>5. CASE u = 1
  <2>1. 4 * u + i = 4 + i /\ m + 16 * Swapped(u) = m + 2 * 16
    BY <1>5, SwappedValues
  <2> QED BY <1>1, <1>2, <1>3, <2>1, Zenon
<1>6. CASE u = 2
  <2>1. 4 * u + i = 2 * 4 + i /\ m + 16 * Swapped(u) = m + 1 * 16
    BY <1>6, SwappedValues
  <2> QED BY <1>1, <1>2, <1>3, <2>1, Zenon
<1>7. CASE u = 3
  <2>1. 4 * u + i = 3 * 4 + i /\ m + 16 * Swapped(u) = m + 3 * 16
    BY <1>7, SwappedValues
  <2> QED BY <1>1, <1>2, <1>3, <2>1, Zenon
<1> QED BY <1>4, <1>5, <1>6, <1>7

LEMMA R6At ==
  ASSUME NEW m \in Nat, m <= 3, NEW u \in 0 .. 3, NEW i \in 1 .. 16
  PROVE  R6(m)[16 * u + i] = R4(m + 4 * Swapped(u))[i]
<1>1. PICK p \in Seq(Byte), q \in Seq(Byte), r \in Seq(Byte), s \in Seq(Byte) :
        /\ p = R4(m) /\ q = R4(m + 2 * 4) /\ r = R4(m + 1 * 4) /\ s = R4(m + 3 * 4)
        /\ Len(p) = 16 /\ Len(q) = 16 /\ Len(r) = 16 /\ Len(s) = 16
  BY R4Type
<1>2. PICK t : t = R6(m) /\ t = p \o q \o r \o s
  BY <1>1, Zenon DEF R6
<1>3. t[i] = p[i] /\ t[16 + i] = q[i] /\ t[2 * 16 + i] = r[i] /\ t[3 * 16 + i] = s[i]
  <2>1. /\ p \in Seq(Byte) /\ q \in Seq(Byte) /\ r \in Seq(Byte) /\ s \in Seq(Byte)
        /\ Len(q) = Len(p) /\ Len(r) = Len(p) /\ Len(s) = Len(p) /\ i \in 1 .. Len(p)
    BY <1>1
  <2>2. Quarters(t, p, q, r, s)
    BY <1>2, <2>1, FourAt, Zenon
  <2> QED BY <1>1, <2>1, <2>2, Zenon DEF Quarters
<1>4. CASE u = 0
  <2>1. 16 * u + i = i /\ m + 4 * Swapped(u) = m
    BY <1>4, SwappedValues
  <2> QED BY <1>1, <1>2, <1>3, <2>1, Zenon
<1>5. CASE u = 1
  <2>1. 16 * u + i = 16 + i /\ m + 4 * Swapped(u) = m + 2 * 4
    BY <1>5, SwappedValues
  <2> QED BY <1>1, <1>2, <1>3, <2>1, Zenon
<1>6. CASE u = 2
  <2>1. 16 * u + i = 2 * 16 + i /\ m + 4 * Swapped(u) = m + 1 * 4
    BY <1>6, SwappedValues
  <2> QED BY <1>1, <1>2, <1>3, <2>1, Zenon
<1>7. CASE u = 3
  <2>1. 16 * u + i = 3 * 16 + i /\ m + 4 * Swapped(u) = m + 3 * 4
    BY <1>7, SwappedValues
  <2> QED BY <1>1, <1>2, <1>3, <2>1, Zenon
<1> QED BY <1>4, <1>5, <1>6, <1>7

LEMMA MapAt ==
  ASSUME NEW u \in 0 .. 3, NEW i \in 1 .. 64
  PROVE  map[64 * u + i] = R6(Swapped(u))[i]
<1>1. PICK p \in Seq(Byte), q \in Seq(Byte), r \in Seq(Byte), s \in Seq(Byte) :
        /\ p = R6(0) /\ q = R6(2) /\ r = R6(1) /\ s = R6(3)
        /\ Len(p) = 64 /\ Len(q) = 64 /\ Len(r) = 64 /\ Len(s) = 64
  BY R6Type
<1>2. PICK t : t = map /\ t = p \o q \o r \o s
  BY <1>1, Zenon DEF map
<1>3. t[i] = p[i] /\ t[64 + i] = q[i] /\ t[2 * 64 + i] = r[i] /\ t[3 * 64 + i] = s[i]
  <2>1. /\ p \in Seq(Byte) /\ q \in Seq(Byte) /\ r \in Seq(Byte) /\ s \in Seq(Byte)
        /\ Len(q) = Len(p) /\ Len(r) = Len(p) /\ Len(s) = Len(p) /\ i \in 1 .. Len(p)
    BY <1>1
  <2>2. Quarters(t, p, q, r, s)
    BY <1>2, <2>1, FourAt, Zenon
  <2> QED BY <1>1, <2>1, <2>2, ZenonT(40) DEF Quarters
<1>4. CASE u = 0
  <2>1. 64 * u + i = i /\ Swapped(u) = 0
    BY <1>4, SwappedValues
  <2> QED BY <1>1, <1>2, <1>3, <2>1, Zenon
<1>5. CASE u = 1
  <2>1. 64 * u + i = 64 + i /\ Swapped(u) = 2
    BY <1>5, SwappedValues
  <2> QED BY <1>1, <1>2, <1>3, <2>1, Zenon
<1>6. CASE u = 2
  <2>1. 64 * u + i = 2 * 64 + i /\ Swapped(u) = 1
    BY <1>6, SwappedValues
  <2> QED BY <1>1, <1>2, <1>3, <2>1, Zenon
<1>7. CASE u = 3
  <2>1. 64 * u + i = 3 * 64 + i /\ Swapped(u) = 3
    BY <1>7, SwappedValues
  <2> QED BY <1>1, <1>2, <1>3, <2>1, Zenon
<1> QED BY <1>4, <1>5, <1>6, <1>7

\* The pairs of bits of a byte come in the other order, each with its bits in the other
\* order.
Pairs(u, v, w, z) == 64 * u + 16 * v + 4 * w + z

LEMMA ReversedPairs ==
  ASSUME NEW u \in 0 .. 3, NEW v \in 0 .. 3, NEW w \in 0 .. 3, NEW z \in 0 .. 3
  PROVE  bitreverse8(Pairs(u, v, w, z))
           = Swapped(u) + 4 * Swapped(v) + 16 * Swapped(w) + 64 * Swapped(z)
<1>1. PICK m1 \in Nat, m2 \in Nat, m3 \in Nat :
        /\ m1 = Swapped(u) /\ m2 = m1 + 4 * Swapped(v) /\ m3 = m2 + 16 * Swapped(w)
        /\ m1 <= 3 /\ m2 <= 15 /\ m3 <= 63
  BY SwappedValues
<1>2. PICK i1 \in 1 .. 64, i2 \in 1 .. 16, i3 \in 1 .. 4 :
        /\ i3 = z + 1 /\ i2 = 4 * w + i3 /\ i1 = 16 * v + i2
        /\ 64 * u + 16 * v + 4 * w + z + 1 = 64 * u + i1
  <2>1. PICK k \in Nat : k = z + 1 /\ k \in 1 .. 4
    OBVIOUS
  <2>2. PICK j \in Nat : j = 4 * w + k /\ j \in 1 .. 16
    BY <2>1
  <2>3. PICK i \in Nat : i = 16 * v + j /\ i \in 1 .. 64
    BY <2>2
  <2>4. 64 * u + 16 * v + 4 * w + z + 1 = 64 * u + i
    BY <2>1, <2>2, <2>3
  <2> QED BY <2>1, <2>2, <2>3, <2>4, Zenon
<1>3. bitreverse8(Pairs(u, v, w, z)) = map[64 * u + i1]
  BY <1>2, Zenon DEF bitreverse8, Pairs
<1>4. map[64 * u + i1] = R6(m1)[i1]
  BY <1>1, MapAt, Zenon
<1>5. R6(m1)[i1] = R4(m2)[i2]
  BY <1>1, <1>2, R6At, ZenonT(40)
<1>6. R4(m2)[i2] = R2(m3)[i3]
  BY <1>1, <1>2, R4At, ZenonT(40)
<1>7. R2(m3)[i3] = m3 + 64 * Swapped(z)
  BY <1>1, <1>2, R2At, Zenon
<1>8. m3 + 64 * Swapped(z) = Swapped(u) + 4 * Swapped(v) + 16 * Swapped(w) + 64 * Swapped(z)
  BY <1>1, SwappedValues
<1> QED BY <1>3, <1>4, <1>5, <1>6, <1>7, <1>8, Zenon

\* The byte of these bits, from the lowest
Bits(x0, x1, x2, x3, x4, x5, x6, x7) ==
  x0 + 2 * x1 + 4 * x2 + 8 * x3 + 16 * x4 + 32 * x5 + 64 * x6 + 128 * x7

LEMMA BitsOf ==
  ASSUME NEW x0 \in 0 .. 1, NEW x1 \in 0 .. 1, NEW x2 \in 0 .. 1, NEW x3 \in 0 .. 1,
         NEW x4 \in 0 .. 1, NEW x5 \in 0 .. 1, NEW x6 \in 0 .. 1, NEW x7 \in 0 .. 1,
         NEW x, x = Bits(x0, x1, x2, x3, x4, x5, x6, x7)
  PROVE  /\ Bit(x, 0) = x0 /\ Bit(x, 1) = x1 /\ Bit(x, 2) = x2 /\ Bit(x, 3) = x3
         /\ Bit(x, 4) = x4 /\ Bit(x, 5) = x5 /\ Bit(x, 6) = x6 /\ Bit(x, 7) = x7
<1>. x \in Nat /\ x = x0 + 2 * x1 + 4 * x2 + 8 * x3 + 16 * x4 + 32 * x5 + 64 * x6 + 128 * x7
  BY DEF Bits
<1>0. Bit(x, 0) = x0
  <2>1. Bit(x, 0) = (x \div 1) % 2
    BY SMT DEF Bit
  <2> QED BY <2>1, SMT
<1>1. Bit(x, 1) = x1
  <2>1. Bit(x, 1) = (x \div 2) % 2
    BY SMT DEF Bit
  <2> QED BY <2>1, SMT
<1>2. Bit(x, 2) = x2
  <2>1. Bit(x, 2) = (x \div 4) % 2
    BY SMT DEF Bit
  <2> QED BY <2>1, SMT
<1>3. Bit(x, 3) = x3
  <2>1. Bit(x, 3) = (x \div 8) % 2
    BY SMT DEF Bit
  <2> QED BY <2>1, SMT
<1>4. Bit(x, 4) = x4
  <2>1. Bit(x, 4) = (x \div 16) % 2
    BY SMT DEF Bit
  <2> QED BY <2>1, SMT
<1>5. Bit(x, 5) = x5
  <2>1. Bit(x, 5) = (x \div 32) % 2
    BY SMT DEF Bit
  <2> QED BY <2>1, SMT
<1>6. Bit(x, 6) = x6
  <2>1. Bit(x, 6) = (x \div 64) % 2
    BY SMT DEF Bit
  <2> QED BY <2>1, SMT
<1>7. Bit(x, 7) = x7
  <2>1. Bit(x, 7) = (x \div 128) % 2
    BY SMT DEF Bit
  <2> QED BY <2>1, SMT
<1> QED BY <1>0, <1>1, <1>2, <1>3, <1>4, <1>5, <1>6, <1>7, Zenon

LEMMA Reversed ==
  ASSUME NEW x \in Byte
  PROVE  /\ bitreverse8(x) \in Byte
         /\ \A k \in 0 .. 7 : Bit(bitreverse8(x), k) = Bit(x, 7 - k)
<1>1. PICK x7 \in 0 .. 1, r7 \in 0 .. 127 : x = 128 * x7 + r7
  BY SMT DEF Byte
<1>2. PICK x6 \in 0 .. 1, r6 \in 0 .. 63 : r7 = 64 * x6 + r6
  BY SMT
<1>3. PICK x5 \in 0 .. 1, r5 \in 0 .. 31 : r6 = 32 * x5 + r5
  BY SMT
<1>4. PICK x4 \in 0 .. 1, r4 \in 0 .. 15 : r5 = 16 * x4 + r4
  BY SMT
<1>5. PICK x3 \in 0 .. 1, r3 \in 0 .. 7 : r4 = 8 * x3 + r3
  BY SMT
<1>6. PICK x2 \in 0 .. 1, r2 \in 0 .. 3 : r3 = 4 * x2 + r2
  BY SMT
<1>7. PICK x1 \in 0 .. 1, x0 \in 0 .. 1 : r2 = 2 * x1 + x0
  BY SMT
<1>8. x \in Nat /\ x = Bits(x0, x1, x2, x3, x4, x5, x6, x7)
  BY <1>1, <1>2, <1>3, <1>4, <1>5, <1>6, <1>7 DEF Bits, Byte
<1>9. PICK u \in 0 .. 3, v \in 0 .. 3, w \in 0 .. 3, z \in 0 .. 3 :
        /\ u = 2 * x7 + x6 /\ v = 2 * x5 + x4 /\ w = 2 * x3 + x2 /\ z = 2 * x1 + x0
        /\ x = Pairs(u, v, w, z)
  BY <1>8 DEF Bits, Pairs
<1>10. /\ Swapped(u) = x7 + 2 * x6 /\ Swapped(v) = x5 + 2 * x4
       /\ Swapped(w) = x3 + 2 * x2 /\ Swapped(z) = x1 + 2 * x0
  BY <1>9, SMT DEF Swapped
<1>11. PICK y : y = bitreverse8(x)
  OBVIOUS
<1>12. y = Swapped(u) + 4 * Swapped(v) + 16 * Swapped(w) + 64 * Swapped(z)
  <2>1. bitreverse8(Pairs(u, v, w, z))
          = Swapped(u) + 4 * Swapped(v) + 16 * Swapped(w) + 64 * Swapped(z)
    BY ReversedPairs, SMT
  <2> QED BY <1>9, <1>11, <2>1, Zenon
<1>13. y \in Byte /\ y = Bits(x7, x6, x5, x4, x3, x2, x1, x0)
  BY <1>10, <1>12 DEF Byte, Bits
<1>14. /\ Bit(y, 0) = x7 /\ Bit(y, 1) = x6 /\ Bit(y, 2) = x5 /\ Bit(y, 3) = x4
       /\ Bit(y, 4) = x3 /\ Bit(y, 5) = x2 /\ Bit(y, 6) = x1 /\ Bit(y, 7) = x0
  BY <1>13, BitsOf, SMT
<1>15. /\ Bit(x, 0) = x0 /\ Bit(x, 1) = x1 /\ Bit(x, 2) = x2 /\ Bit(x, 3) = x3
       /\ Bit(x, 4) = x4 /\ Bit(x, 5) = x5 /\ Bit(x, 6) = x6 /\ Bit(x, 7) = x7
  BY <1>8, BitsOf, SMT
<1>16. ASSUME NEW k \in 0 .. 7 PROVE Bit(y, k) = Bit(x, 7 - k)
  <2>1. PICK j : j = 7 - k
    OBVIOUS
  <2>2. \/ (k = 0 /\ j = 7) \/ (k = 1 /\ j = 6) \/ (k = 2 /\ j = 5) \/ (k = 3 /\ j = 4)
        \/ (k = 4 /\ j = 3) \/ (k = 5 /\ j = 2) \/ (k = 6 /\ j = 1) \/ (k = 7 /\ j = 0)
    BY <2>1
  <2>3. Bit(y, k) = Bit(x, j)
    BY <1>14, <1>15, <2>2, Zenon
  <2> QED BY <2>1, <2>3, Zenon
<1> QED BY <1>11, <1>13, <1>16, Zenon
-----------------------------------------------------------------------------
\* The size is what is left of the file.
TypeInv == TypeOK /\ SizeIsRest

LEMMA DataType ==
  ASSUME TypeInv, NEW i \in Nat, i < size PROVE data(i) \in Byte
<1>1. pos + i + 1 \in 1 .. Len(file)
  BY LenProperties DEF TypeInv, TypeOK, SizeIsRest
<1> QED BY <1>1, ElementOfSeq DEF data, TypeInv, TypeOK

\* The length of a string is a number, and that of the data is.
LEMMA LengthType ==
  ASSUME TypeInv
  PROVE  /\ size >= 3 => Length16 \in Nat
         /\ size >= 5 => Length32 \in Nat
<1>1. ASSUME NEW i \in Nat, i < size PROVE data(i) \in Nat
  BY <1>1, DataType DEF Byte
<1>2. size \in Nat
  BY DEF TypeInv, TypeOK
<1>3. ASSUME size >= 3 PROVE Length16 \in Nat
  <2>1. data(1) \in Nat /\ data(2) \in Nat
    BY <1>1, <1>2, <1>3
  <2> HIDE DEF data
  <2> QED BY <2>1 DEF Length16
<1>4. ASSUME size >= 5 PROVE Length32 \in Nat
  <2>1. data(1) \in Nat /\ data(2) \in Nat /\ data(3) \in Nat /\ data(4) \in Nat
    BY <1>1, <1>2, <1>4
  <2> QED BY <2>1 DEF Length32
<1> QED BY <1>3, <1>4

\* bit_do_parse_field_str() does as the format says.
LEMMA StringParsed ==
  ASSUME TypeInv, NEW k \in Strings, ParseStr(k)
  PROVE  /\ field = k /\ UNCHANGED <<file, bit_length, sent>>
         /\ pos' \in Nat /\ size' \in Nat /\ pos' + size' = Len(file)
         /\ \/ field' = "refused" /\ ~StringAt(pos + 1, k) /\ UNCHANGED at
            \/ /\ StringAt(pos + 1, k) /\ field' = After[k]
               /\ pos' + 1 = End(pos + 1)
               /\ at' = [at EXCEPT ![k] = pos + 3]
<1>1. pos \in Nat /\ size \in Nat /\ pos + size = Len(file) /\ Len(file) \in Nat
  BY LenProperties DEF TypeInv, TypeOK, SizeIsRest
<1>2. /\ data(0) = file[pos + 1] /\ data(1) = file[pos + 1 + 1] /\ data(2) = file[pos + 1 + 2]
  BY <1>1 DEF data
<1>3. Begins(k, 2) <=> pos + 1 + 2 <= Len(file) /\ file[pos + 1] = Key[k]
  BY <1>1, <1>2 DEF Begins
<1>4. size >= 3 => Length16 \in Nat
  BY LengthType
<1>5. End(pos + 1) = pos + 1 + 3 + file[pos + 1 + 1] * 256 + file[pos + 1 + 2]
  BY DEF End
<1>6. Begins(k, 2) => Length16 \in Nat /\ size >= 3
  BY <1>4 DEF Begins
<1>7. Begins(k, 2) => End(pos + 1) = pos + 4 + Length16
  <2> SUFFICES ASSUME size >= 3 PROVE End(pos + 1) = pos + 4 + Length16
    BY <1>6
  <2>1. PICK u \in Nat, w \in Nat : data(1) = u /\ data(2) = w
    <3>1. data(1) \in Byte /\ data(2) \in Byte
      <4>1. 1 \in Nat /\ 1 < size /\ 2 \in Nat /\ 2 < size
        BY <1>1
      <4> QED BY <4>1, DataType, Zenon
    <3>2. data(1) \in Nat /\ data(2) \in Nat
      BY <3>1, ByteIsNat, Zenon
    <3> QED BY <3>2, Zenon
  <2>2. Length16 = u * 256 + w
    BY <2>1 DEF Length16
  <2>3. End(pos + 1) = pos + 1 + 3 + u * 256 + w
    BY <1>2, <1>5, <2>1
  <2> QED BY <1>1, <2>2, <2>3
<1>8. Begins(k, 2) => (Fits(2, Length16) <=> End(pos + 1) <= Len(file) + 1)
  BY <1>1, <1>6, <1>7 DEF Fits
<1>9. StringAt(pos + 1, k) <=> Begins(k, 2) /\ Fits(2, Length16)
  BY <1>3, <1>8 DEF StringAt
<1>10. field = k /\ UNCHANGED <<file, bit_length, sent>>
  BY DEF ParseStr
<1>11. CASE ~Begins(k, 2) /\ Refuse /\ UNCHANGED <<pos, size, at>>
  BY <1>1, <1>9, <1>10, <1>11 DEF Refuse
<1>12. CASE Begins(k, 2) /\ ~Fits(2, Length16) /\ Refuse /\ Advance(3) /\ UNCHANGED at
  BY <1>1, <1>6, <1>9, <1>10, <1>12 DEF Refuse, Advance
<1>13. CASE /\ Begins(k, 2) /\ Fits(2, Length16)
            /\ Advance(3 + Length16) /\ field' = After[k]
            /\ at' = [at EXCEPT ![k] = pos + 3]
  <2>1. pos' = pos + (3 + Length16) /\ size' = size - (3 + Length16) /\ size >= 3 + Length16
    BY <1>1, <1>6, <1>13 DEF Advance, Fits
  <2>2. StringAt(pos + 1, k)
    BY <1>9, <1>13
  <2>3. Length16 \in Nat /\ End(pos + 1) = pos + 4 + Length16
    BY <1>6, <1>7, <1>13
  <2>4. /\ pos' \in Nat /\ size' \in Nat /\ pos' + size' = Len(file)
        /\ pos' + 1 = End(pos + 1)
    BY <1>1, <2>1, <2>3
  <2> QED BY <1>10, <1>13, <2>2, <2>4
<1> QED BY <1>11, <1>12, <1>13 DEF ParseStr

\* bit_do_parse_field7() does, too.
LEMMA BitsParsed ==
  ASSUME TypeInv, ParseBits
  PROVE  /\ field = "e" /\ UNCHANGED <<file, at, sent>>
         /\ pos' \in Nat /\ size' \in Nat /\ pos' + size' = Len(file) /\ bit_length' \in Nat
         /\ \/ field' = "refused" /\ \A m \in Nat : ~DataAt(pos + 1, m)
            \/ field' = "accepted" /\ DataAt(pos + 1, bit_length') /\ bit_length' \in 0 .. Len(file)
               /\ pos' = pos + 5
<1>1. /\ pos \in Nat /\ size \in Nat /\ pos + size = Len(file) /\ Len(file) \in Nat
      /\ bit_length \in Nat
  BY LenProperties DEF TypeInv, TypeOK, SizeIsRest
<1>2. /\ data(0) = file[pos + 1] /\ data(1) = file[pos + 1 + 1] /\ data(2) = file[pos + 1 + 2]
      /\ data(3) = file[pos + 1 + 3] /\ data(4) = file[pos + 1 + 4]
  BY <1>1 DEF data
<1>3. Begins("e", 4) <=> pos + 1 + 4 <= Len(file) /\ file[pos + 1] = Key["e"]
  BY <1>1, <1>2 DEF Begins
<1>4. Begins("e", 4) => Length32 \in Nat /\ size >= 5
  BY LengthType DEF Begins
<1>5. Length32 = ((file[pos + 1 + 1] * 256 + file[pos + 1 + 2]) * 256 + file[pos + 1 + 3]) * 256
                   + file[pos + 1 + 4]
  BY <1>2 DEF Length32
<1>6. ASSUME NEW m \in Nat
      PROVE  DataAt(pos + 1, m) <=> Begins("e", 4) /\ m = Length32 /\ Fits(4, m)
  <2>1. pos + 1 + 4 + m <= Len(file) <=> size >= 1 + 4 + m
    BY <1>1
  <2> QED BY <1>3, <1>5, <2>1 DEF DataAt, Fits
<1>7. CASE ~Begins("e", 4) /\ Refuse /\ UNCHANGED <<pos, size, bit_length>>
  BY <1>1, <1>6, <1>7 DEF ParseBits, Refuse
<1>8. CASE /\ Begins("e", 4) /\ Advance(5) /\ bit_length' = Length32
           /\ field' = IF Fits(4, Length32) THEN "accepted" ELSE "refused"
  <2>1. PICK l \in Nat : l = Length32
    BY <1>4, <1>8
  <2>2. pos' \in Nat /\ size' \in Nat /\ pos' + size' = Len(file)
    BY <1>1, <1>4, <1>8 DEF Advance
  <2>3. field = "e" /\ UNCHANGED <<file, at, sent>>
    BY DEF ParseBits
  <2>4. CASE Fits(4, l)
    <3>1. l \in 0 .. Len(file)
      BY <1>1, <2>4 DEF Fits
    <3>2. DataAt(pos + 1, l)
      BY <1>6, <1>8, <2>1, <2>4
    <3>3. pos' = pos + 5
      BY <1>8 DEF Advance
    <3> QED BY <1>8, <2>1, <2>2, <2>3, <2>4, <3>1, <3>2, <3>3
  <2>5. CASE ~Fits(4, l)
    BY <1>6, <1>8, <2>1, <2>2, <2>3, <2>5
  <2> QED BY <2>4, <2>5
<1> QED BY <1>7, <1>8 DEF ParseBits

LEMMA TypeInit == Init => TypeInv
BY FilesAssumption, LenProperties DEF Init, TypeInv, TypeOK, SizeIsRest

LEMMA TypeStep == TypeInv /\ [Next]_vars => TypeInv'
<1> SUFFICES ASSUME TypeInv, [Next]_vars PROVE TypeInv'
  OBVIOUS
<1>0. /\ TypeOK /\ pos \in Nat /\ size \in Nat /\ pos + size = Len(file)
      /\ file \in Seq(Byte) /\ Len(file) \in Nat
  BY LenProperties DEF TypeInv, TypeOK, SizeIsRest
<1>1. CASE ParseHeader
  <2>1. pos' \in Nat /\ size' \in Nat /\ pos' + size' = Len(file) /\ field' \in {"a", "refused"}
    <3>1. CASE HeaderMatches /\ Advance(Len(header)) /\ field' = "a"
      <4>1. size >= 13 /\ pos' = pos + 13 /\ size' = size - 13
        BY <3>1, HeaderLen DEF HeaderMatches, Advance
      <4> QED BY <1>0, <3>1, <4>1
    <3>2. CASE ~HeaderMatches /\ Refuse /\ UNCHANGED <<pos, size>>
      BY <1>0, <3>2 DEF Refuse
    <3> QED BY <1>1, <3>1, <3>2 DEF ParseHeader
  <2>2. UNCHANGED <<file, at, bit_length, sent>>
    BY <1>1 DEF ParseHeader
  <2>3. field' \in Strings \cup {"header", "e", "accepted", "refused", "sent", "NULL"}
    BY <2>1 DEF Strings
  <2> QED BY <1>0, <2>1, <2>2, <2>3 DEF TypeInv, TypeOK, SizeIsRest
<1>2. ASSUME NEW k \in Strings, ParseStr(k) PROVE TypeInv'
  <2>1. at' \in [Strings -> Nat]
    <3>1. pos + 3 \in Nat /\ at \in [Strings -> Nat]
      BY <1>0 DEF TypeOK
    <3> QED BY <1>2, <3>1, StringParsed
  <2>2. field' \in {"refused", "b", "c", "d", "e"}
    BY <1>2, StringParsed, KeyValues DEF Strings
  <2>3. /\ UNCHANGED <<file, bit_length, sent>>
        /\ pos' \in Nat /\ size' \in Nat /\ pos' + size' = Len(file)
    BY <1>2, StringParsed
  <2> QED BY <1>0, <2>1, <2>2, <2>3 DEF TypeInv, TypeOK, SizeIsRest, Strings
<1>3. CASE ParseBits
  <2>1. /\ UNCHANGED <<file, at, sent>>
        /\ pos' \in Nat /\ size' \in Nat /\ pos' + size' = Len(file) /\ bit_length' \in Nat
        /\ field' \in {"refused", "accepted"}
    BY <1>3, BitsParsed
  <2> QED BY <1>0, <2>1 DEF TypeInv, TypeOK, SizeIsRest
<1>4. CASE Upload
  <2>1. ASSUME NEW i \in 1 .. size PROVE bitreverse8(data(i - 1)) \in Byte
    <3>1. i - 1 \in Nat /\ i - 1 < size
      BY <1>0
    <3>2. data(i - 1) \in Byte
      BY <3>1, DataType
    <3> QED BY <3>2, Reversed
  <2>2. Payload \in Seq(Byte)
    BY <1>0, <2>1 DEF Payload
  <2>3. /\ UNCHANGED <<file, pos, size, at, bit_length>> /\ sent' = Payload
        /\ field' \in {"NULL", "sent"}
    BY <1>4 DEF Upload
  <2> QED BY <1>0, <2>2, <2>3 DEF TypeInv, TypeOK, SizeIsRest
<1>5. CASE UNCHANGED vars
  BY <1>0, <1>5 DEF vars, TypeInv, TypeOK, SizeIsRest
<1> QED BY <1>1, <1>2, <1>3, <1>4, <1>5 DEF Next

-----------------------------------------------------------------------------
(***************************************************************************)
(* How far the parser has come is how far the file has the format.         *)
(***************************************************************************)
HeaderThere == Len(header) <= Len(file) /\ SubSeq(file, 1, Len(header)) = header

AThere == HeaderThere /\ StringAt(a, "a") /\ at["a"] = a + 2
BThere == AThere /\ StringAt(b, "b") /\ at["b"] = b + 2
CThere == BThere /\ StringAt(c, "c") /\ at["c"] = c + 2
DThere == CThere /\ StringAt(d, "d") /\ at["d"] = d + 2

Taken == field \in {"accepted", "sent", "NULL"}

FormatInv ==
  /\ field = "header" => pos = 0
  /\ field = "a" => HeaderThere /\ pos + 1 = a
  /\ field = "b" => AThere /\ pos + 1 = b
  /\ field = "c" => BThere /\ pos + 1 = c
  /\ field = "d" => CThere /\ pos + 1 = d
  /\ field = "e" => DThere /\ pos + 1 = e
  /\ Taken => /\ DThere /\ DataAt(e, bit_length) /\ bit_length \in 0 .. Len(file)
              /\ pos = e + 4
  /\ field = "refused" => ~WellFormed

LEMMA FormatInit == Init => FormatInv
BY DEF Init, FormatInv, Taken

\* The format depends on the file alone.
LEMMA FormatKept ==
  ASSUME file' = file
  PROVE  /\ HeaderThere' = HeaderThere /\ WellFormed' = WellFormed
         /\ a' = a /\ b' = b /\ c' = c /\ d' = d /\ e' = e
         /\ \A p, k : StringAt(p, k)' = StringAt(p, k)
         /\ \A p, m : DataAt(p, m)' = DataAt(p, m)
<1>1. /\ \A p, k : StringAt(p, k)' = StringAt(p, k)
      /\ \A p, m : DataAt(p, m)' = DataAt(p, m)
      /\ \A p : End(p)' = End(p)
  BY DEF StringAt, DataAt, End
<1>2. HeaderThere' = HeaderThere /\ a' = a
  BY DEF HeaderThere, a
<1>3. b' = b
  BY <1>1, <1>2 DEF b, End
<1>4. c' = c
  BY <1>1, <1>3 DEF c, End
<1>5. d' = d
  BY <1>1, <1>4 DEF d, End
<1>6. e' = e
  BY <1>1, <1>5 DEF e, End
<1>7. WellFormed' = WellFormed
  BY <1>1, <1>2, <1>3, <1>4, <1>5, <1>6 DEF WellFormed
<1> QED BY <1>1, <1>2, <1>3, <1>4, <1>5, <1>6, <1>7

\* A string field that is there makes the next one begin behind it.
LEMMA FormatStr ==
  ASSUME TypeInv, FormatInv, NEW k \in Strings, ParseStr(k)
  PROVE  FormatInv'
<1>0. at \in [Strings -> Nat] /\ {"a", "b", "c", "d"} = Strings
  BY DEF TypeInv, TypeOK, Strings
<1>1. file' = file /\ field = k
  BY StringParsed
<1>2. CASE field' = "refused" /\ ~StringAt(pos + 1, k)
  <2>1. \E p \in {a, b, c, d} : pos + 1 = p /\ (WellFormed => StringAt(p, k))
    BY <1>0, <1>1 DEF FormatInv, WellFormed
  <2>2. ~WellFormed
    BY <1>2, <2>1
  <2>3. ~WellFormed'
    BY <1>1, <2>2, FormatKept
  <2> QED BY <1>2, <2>3 DEF FormatInv, Taken
<1>3. CASE /\ StringAt(pos + 1, k) /\ field' = After[k]
           /\ pos' + 1 = End(pos + 1)
           /\ at' = [at EXCEPT ![k] = pos + 3]
  <2>0. pos \in Nat /\ pos + 3 = pos + 1 + 2
    BY DEF TypeInv, TypeOK
  <2>1. CASE k = "a"
    <3>1. HeaderThere /\ pos + 1 = a /\ field' = "b" /\ at'["a"] = a + 2
      BY <1>0, <1>1, <1>3, <2>0, <2>1, KeyValues DEF FormatInv
    <3>2. AThere' /\ pos' + 1 = b'
      BY <1>1, <1>3, <2>1, <3>1, FormatKept DEF AThere, b
    <3> QED BY <3>1, <3>2 DEF FormatInv, Taken
  <2>2. CASE k = "b"
    <3>1. AThere /\ pos + 1 = b /\ field' = "c" /\ at'["b"] = b + 2 /\ at'["a"] = at["a"]
      BY <1>0, <1>1, <1>3, <2>0, <2>2, KeyValues DEF FormatInv
    <3>2. BThere' /\ pos' + 1 = c'
      BY <1>1, <1>3, <2>2, <3>1, FormatKept DEF AThere, BThere, c
    <3> QED BY <3>1, <3>2 DEF FormatInv, Taken
  <2>3. CASE k = "c"
    <3>1. /\ BThere /\ pos + 1 = c /\ field' = "d" /\ at'["c"] = c + 2
          /\ at'["a"] = at["a"] /\ at'["b"] = at["b"]
      BY <1>0, <1>1, <1>3, <2>0, <2>3, KeyValues DEF FormatInv
    <3>2. CThere' /\ pos' + 1 = d'
      BY <1>1, <1>3, <2>3, <3>1, FormatKept DEF AThere, BThere, CThere, d
    <3> QED BY <3>1, <3>2 DEF FormatInv, Taken
  <2>4. CASE k = "d"
    <3>1. /\ CThere /\ pos + 1 = d /\ field' = "e" /\ at'["d"] = d + 2
          /\ at'["a"] = at["a"] /\ at'["b"] = at["b"] /\ at'["c"] = at["c"]
      BY <1>0, <1>1, <1>3, <2>0, <2>4, KeyValues DEF FormatInv
    <3>2. DThere' /\ pos' + 1 = e'
      BY <1>1, <1>3, <2>4, <3>1, FormatKept DEF AThere, BThere, CThere, DThere, e
    <3> QED BY <3>1, <3>2 DEF FormatInv, Taken
  <2> QED BY <1>0, <2>1, <2>2, <2>3, <2>4
<1> QED BY <1>2, <1>3, StringParsed

LEMMA FormatStep == TypeInv /\ FormatInv /\ [Next]_vars => FormatInv'
<1> SUFFICES ASSUME TypeInv, FormatInv, [Next]_vars PROVE FormatInv'
  OBVIOUS
<1>1. CASE ParseHeader
  <2>1. file' = file /\ pos = 0 /\ size = Len(file) /\ Len(file) \in Nat
    BY <1>1, LenProperties DEF ParseHeader, FormatInv, TypeInv, TypeOK, SizeIsRest
  <2>2. HeaderMatches <=> HeaderThere
    BY <2>1, HeaderLen DEF HeaderMatches, HeaderThere
  <2>3. CASE HeaderMatches /\ Advance(Len(header)) /\ field' = "a"
    <3>1. pos' = Len(header) /\ HeaderThere'
      BY <2>1, <2>2, <2>3, HeaderLen, FormatKept DEF Advance
    <3>2. pos' + 1 = a'
      BY <3>1 DEF a
    <3> QED BY <2>3, <3>1, <3>2 DEF FormatInv, Taken
  <2>4. CASE ~HeaderMatches /\ field' = "refused"
    <3>1. ~WellFormed'
      BY <2>1, <2>2, <2>4, FormatKept DEF WellFormed, HeaderThere
    <3> QED BY <2>4, <3>1 DEF FormatInv, Taken
  <2> QED BY <1>1, <2>3, <2>4 DEF ParseHeader, Refuse
<1>2. ASSUME NEW k \in Strings, ParseStr(k) PROVE FormatInv'
  BY <1>2, FormatStr
<1>3. CASE ParseBits
  <2>1. /\ file' = file /\ at' = at /\ DThere /\ pos + 1 = e
    BY <1>3, BitsParsed DEF FormatInv
  <2>2. CASE field' = "refused" /\ \A m \in Nat : ~DataAt(pos + 1, m)
    <3>1. ~WellFormed
      BY <2>1, <2>2 DEF WellFormed
    <3>2. ~WellFormed'
      BY <2>1, <3>1, FormatKept
    <3> QED BY <2>2, <3>2 DEF FormatInv, Taken
  <2>3. CASE /\ field' = "accepted" /\ DataAt(pos + 1, bit_length') /\ bit_length' \in 0 .. Len(file)
             /\ pos' = pos + 5
    <3>1. DThere'
      BY <2>1, FormatKept DEF AThere, BThere, CThere, DThere
    <3>2. DataAt(e, bit_length)'
      BY <2>1, <2>3, FormatKept, SMTT(30) DEF DataAt
    <3>3. bit_length' \in 0 .. Len(file')
      BY <2>1, <2>3
    <3>4. pos' = e' + 4
      <4>1. pos \in Nat /\ pos' = pos + 1 + 4
        BY <2>3 DEF TypeInv, TypeOK
      <4> QED BY <2>1, <4>1, FormatKept
    <3> QED BY <2>3, <3>1, <3>2, <3>3, <3>4 DEF FormatInv, Taken
  <2> QED BY <1>3, <2>2, <2>3, BitsParsed
\* Nothing that the format is about changes.
<1>4. ASSUME UNCHANGED <<file, at, bit_length, pos>>, field' = field \/ (Taken /\ field' \in {"NULL", "sent"})
      PROVE  FormatInv'
  <2>1. /\ HeaderThere' = HeaderThere /\ AThere' = AThere /\ BThere' = BThere
        /\ CThere' = CThere /\ DThere' = DThere
    BY <1>4, FormatKept DEF AThere, BThere, CThere, DThere
  <2>2. DataAt(e, bit_length)' = DataAt(e, bit_length)
    BY <1>4, FormatKept DEF DataAt
  <2>3. a' = a /\ b' = b /\ c' = c /\ d' = d /\ e' = e /\ WellFormed' = WellFormed
    BY <1>4, FormatKept
  <2>4. CASE field' = field
    BY <1>4, <2>1, <2>2, <2>3, <2>4 DEF FormatInv, Taken
  <2>5. CASE Taken /\ field' \in {"NULL", "sent"}
    BY <1>4, <2>1, <2>2, <2>3, <2>5 DEF FormatInv, Taken
  <2> QED BY <1>4, <2>4, <2>5
<1>5. CASE Upload
  BY <1>4, <1>5 DEF Upload, Taken
<1>6. CASE UNCHANGED vars
  BY <1>4, <1>6 DEF vars
<1> QED BY <1>1, <1>2, <1>3, <1>5, <1>6 DEF Next


-----------------------------------------------------------------------------
(***************************************************************************)
(* What has been sent is what was left of the file, turned round.          *)
(***************************************************************************)
SentInv == field \in {"sent", "NULL"} => sent = Payload

BitInv == TypeInv /\ FormatInv /\ SentInv

LEMMA SentStep == TypeInv /\ SentInv /\ [Next]_vars => SentInv'
<1> SUFFICES ASSUME TypeInv, SentInv, [Next]_vars PROVE SentInv'
  OBVIOUS
<1>1. ASSUME field' \notin {"sent", "NULL"} PROVE SentInv'
  BY <1>1 DEF SentInv
<1>2. CASE ParseHeader
  BY <1>1, <1>2 DEF ParseHeader, Refuse
<1>3. ASSUME NEW k \in Strings, ParseStr(k) PROVE SentInv'
  <2>1. field' \in {"refused", "b", "c", "d", "e"}
    BY <1>3, StringParsed, KeyValues DEF Strings
  <2> QED BY <1>1, <2>1
<1>4. CASE ParseBits
  BY <1>1, <1>4, BitsParsed
<1>5. ASSUME UNCHANGED <<file, pos, size>> PROVE Payload' = Payload
  BY <1>5 DEF Payload, data
<1>6. CASE Upload
  <2>1. sent' = Payload /\ UNCHANGED <<file, pos, size>>
    BY <1>6 DEF Upload
  <2> QED BY <1>5, <2>1, Zenon DEF SentInv
<1>7. CASE UNCHANGED vars
  <2>1. sent' = sent /\ field' = field /\ UNCHANGED <<file, pos, size>>
    BY <1>7 DEF vars
  <2> QED BY <1>5, <2>1, Zenon DEF SentInv
<1> QED BY <1>2, <1>3, <1>4, <1>6, <1>7 DEF Next

LEMMA BitStepKept == BitInv /\ [Next]_vars => BitInv'
BY TypeStep, FormatStep, SentStep DEF BitInv

\* A file that is opened
Opened ==
  /\ file \in Seq(Byte) /\ field = "header" /\ pos = 0 /\ size = Len(file)
  /\ at = [k \in Strings |-> 0] /\ bit_length = 0 /\ sent = << >>

LEMMA OpenedInv == Opened => BitInv
<1> SUFFICES ASSUME Opened PROVE BitInv
  OBVIOUS
<1>1. TypeInv
  BY LenProperties DEF Opened, TypeInv, TypeOK, SizeIsRest
<1>2. FormatInv
  BY DEF Opened, FormatInv, Taken
<1>3. SentInv
  BY DEF Opened, SentInv
<1> QED BY <1>1, <1>2, <1>3 DEF BitInv

\* bit_init() accepts exactly the files of the format.
LEMMA Accepts == BitInv => AcceptsFormat
<1> SUFFICES ASSUME TypeInv, FormatInv PROVE AcceptsFormat
  BY DEF BitInv
<1>1. Taken => WellFormed
  BY DEF FormatInv, WellFormed, AThere, BThere, CThere, DThere, HeaderThere
<1>2. Taken => /\ DataAt(e, bit_length)
               /\ at["a"] = a + 2 /\ at["b"] = b + 2 /\ at["c"] = c + 2 /\ at["d"] = d + 2
  BY DEF FormatInv, AThere, BThere, CThere, DThere
<1>3. at \in [Strings -> Nat]
  BY DEF TypeInv, TypeOK
<1>4. Taken => at = [a |-> a + 2, b |-> b + 2, c |-> c + 2, d |-> d + 2]
  BY <1>2, <1>3 DEF Strings
<1> QED BY <1>1, <1>2, <1>4 DEF AcceptsFormat, FormatInv, Taken

\* What is sent is the end of the file behind the length of the data.
LEMMA Sends == BitInv => DataSent
<1> SUFFICES ASSUME BitInv, field \in {"sent", "NULL"}
             PROVE  /\ Len(sent) = Len(file) - (e + 4) /\ Len(sent) >= bit_length
                    /\ \A i \in DOMAIN sent, k \in 0 .. 7 : Bit(sent[i], k) = Bit(file[e + 4 + i], 7 - k)
  BY DEF DataSent
<1>1. /\ file \in Seq(Byte) /\ Len(file) \in Nat /\ pos \in Nat /\ size \in Nat
      /\ pos + size = Len(file) /\ sent = Payload
  BY LenProperties DEF BitInv, TypeInv, TypeOK, SizeIsRest, SentInv
<1>2. pos = e + 4 /\ DataAt(e, bit_length) /\ bit_length \in 0 .. Len(file)
  BY DEF BitInv, FormatInv, Taken
<1>3. e + 4 + bit_length <= Len(file)
  BY <1>2 DEF DataAt
<1>4. Len(sent) = size /\ DOMAIN sent = 1 .. size
  BY <1>1 DEF Payload
<1>5. Len(sent) = Len(file) - (e + 4) /\ Len(sent) >= bit_length
  BY <1>1, <1>2, <1>3, <1>4
<1>6. ASSUME NEW i \in 1 .. size, NEW k \in 0 .. 7
      PROVE  Bit(sent[i], k) = Bit(file[e + 4 + i], 7 - k)
  <2>1. sent[i] = bitreverse8(data(i - 1))
    BY <1>1 DEF Payload
  <2>2. i - 1 \in Nat /\ i - 1 < size /\ pos + (i - 1) + 1 = pos + i
    BY <1>1
  <2>3. data(i - 1) \in Byte
    BY <2>2, DataType, Zenon DEF BitInv
  <2>4. data(i - 1) = file[e + 4 + i]
    <3>1. data(i - 1) = file[pos + (i - 1) + 1]
      BY DEF data
    <3> QED BY <1>2, <2>2, <3>1, Zenon
  <2>5. PICK x \in Byte : x = data(i - 1)
    BY <2>3, Zenon
  <2>6. Bit(bitreverse8(x), k) = Bit(x, 7 - k)
    BY <2>5, Reversed, Zenon
  <2> QED BY <2>1, <2>4, <2>5, <2>6, Zenon
<1> QED BY <1>4, <1>5, <1>6, Zenon

-----------------------------------------------------------------------------
(***************************************************************************)
(* The register map: each register has the address of its last line.       *)
(***************************************************************************)
Line == [kind : STRING, key : STRING, value : Nat] \cup {M!Skip}

LEMMA LineValue == ASSUME NEW l \in Line PROVE l.value \in Nat
<1>1. CASE l = M!Skip
  BY <1>1 DEF M!Skip
<1>2. CASE l \in [kind : STRING, key : STRING, value : Nat]
  BY <1>2
<1> QED BY <1>1, <1>2 DEF Line

\* The texts of PackagesAssumption
LEMMA TextLines ==
  ASSUME NEW f \in Seq([kind : STRING, key : STRING, value : Nat]) PROVE f \in Seq(Line)
<1>1. [kind : STRING, key : STRING, value : Nat] \subseteq Line
  BY Zenon DEF Line
<1> QED BY <1>1, SeqMonotonic, Zenon

MapTypeOK ==
  /\ pc \in {"new", "idle", "line", "validate", "load", "aborted", "freed"}
  /\ text \in Seq(Line) /\ source \in Seq(Line)
  /\ addr \in [Names -> Nat] /\ inUse \in [Names -> Nat]
  /\ pc = "line" => n \in 1 .. Len(text)

\* The lines of the text in use before line k: the last one of register r counts.
LastBefore(r, k) ==
  \/ addr[r] = M!Missing
  \/ \E i \in M!LinesOf(text, r) :
       /\ i < k /\ addr[r] = text[i].value
       /\ \A j \in M!LinesOf(text, r) : j < k => j <= i

AddrInv ==
  /\ pc = "line" => \A r \in Names : LastBefore(r, n)
  /\ pc \in {"validate", "load"} => \A r \in Names : LastBefore(r, Len(text) + 1)

MapInv ==
  /\ MapTypeOK /\ AddrInv
  /\ pc = "load" => M!Complete /\ source # << >>
  /\ M!InUseIsOfOneText

LEMMA MapInit == M!Init => MapInv
<1> SUFFICES ASSUME M!Init PROVE MapInv
  OBVIOUS
<1>1. MapTypeOK
  BY DEF M!Init, M!NoAddr, M!Missing, MapTypeOK
<1>2. AddrInv /\ (pc = "load" => M!Complete /\ source # << >>) /\ M!InUseIsOfOneText
  BY DEF M!Init, AddrInv, M!InUseIsOfOneText
<1> QED BY <1>1, <1>2 DEF MapInv

\* What is in use is not part of what a step changes.
LEMMA InUseKept ==
  ASSUME UNCHANGED <<inUse, source>>, M!InUseIsOfOneText PROVE M!InUseIsOfOneText'
BY ZenonT(40) DEF M!InUseIsOfOneText, M!LinesOf

\* A call fails.
LEMMA FailedKept ==
  ASSUME MapInv, M!Failed, UNCHANGED <<text, inUse, source, addr>> PROVE MapInv'
<1>1. pc' \in {"freed", "idle"}
  BY DEF M!Failed
<1>2. MapTypeOK'
  BY <1>1 DEF MapInv, MapTypeOK
<1>3. M!InUseIsOfOneText'
  BY InUseKept, Zenon DEF MapInv
<1> QED BY <1>1, <1>2, <1>3 DEF MapInv, AddrInv

\* A text is read into the buffer.
LEMMA ReadKept ==
  ASSUME MapInv, NEW f \in Seq(Line) \ {<< >>}, M!ReadText(f) PROVE MapInv'
<1>1. /\ text' \in {f, <<M!Skip>>} /\ n' = 1 /\ addr' = M!NoAddr /\ pc' = "line"
      /\ UNCHANGED <<inUse, source>>
  BY Zenon DEF M!ReadText
<1>2. PICK t : t = text'
  OBVIOUS
<1>3. t \in Seq(Line) /\ 1 \in 1 .. Len(t)
  <2>1. CASE t = f
    <3>1. Len(f) \in Nat /\ Len(f) # 0
      BY LenProperties, EmptySeq
    <3> QED BY <2>1, <3>1
  <2>2. CASE t = <<M!Skip>>
    <3>1. M!Skip \in Line
      BY DEF Line
    <3> QED BY <2>2, <3>1
  <2> QED BY <1>1, <1>2, <2>1, <2>2
<1>4. M!NoAddr \in [Names -> Nat] /\ \A r \in Names : M!NoAddr[r] = M!Missing
  BY DEF M!NoAddr, M!Missing
<1>5. MapTypeOK'
  BY <1>1, <1>2, <1>3, <1>4 DEF MapInv, MapTypeOK
<1>6. AddrInv'
  <2>1. ASSUME NEW r \in Names PROVE LastBefore(r, n)'
    BY <1>1, <1>4, Zenon DEF LastBefore
  <2> QED BY <1>1, <2>1 DEF AddrInv
<1>7. M!InUseIsOfOneText'
  BY <1>1, InUseKept, Zenon DEF MapInv
<1> QED BY <1>1, <1>5, <1>6, <1>7 DEF MapInv

\* A line more: its register has its address, every other one that of before.
LEMMA LineTaken ==
  ASSUME MapInv, pc = "line", text' = text, addr' = M!Assigned, NEW r \in Names
  PROVE  \A k : k = n + 1 => LastBefore(r, k)'
<1>0. /\ n \in 1 .. Len(text) /\ text \in Seq(Line) /\ addr \in [Names -> Nat]
      /\ DOMAIN text = 1 .. Len(text) /\ Len(text) \in Nat
  BY LenProperties DEF MapInv, MapTypeOK
<1>1. LastBefore(r, n)
  BY DEF MapInv, AddrInv
<1> SUFFICES ASSUME NEW k, k = n + 1 PROVE LastBefore(r, k)'
  OBVIOUS
<1>2. PICK lines : lines = M!LinesOf(text, r) /\ lines \subseteq 1 .. Len(text)
  BY <1>0 DEF M!LinesOf
<1>3. CASE n \in lines
  <2>1. text[n].kind = "pair" /\ text[n].key = r
    BY <1>2, <1>3 DEF M!LinesOf
  <2>2. addr'[r] = text[n].value
    BY <1>0, <2>1 DEF M!Assigned, M!line
  <2>3. \A j \in lines : j < k => j <= n
    BY <1>0, <1>2
  <2>4. n < k
    BY <1>0
  <2>5. \E i \in lines : /\ i < k /\ addr'[r] = text[i].value
                         /\ \A j \in lines : j < k => j <= i
    BY <1>3, <2>2, <2>3, <2>4, Zenon
  <2> QED BY <1>2, <2>5, Zenon DEF LastBefore, M!LinesOf
<1>4. CASE n \notin lines
  <2>1. addr'[r] = addr[r]
    <3>1. ~(text[n].kind = "pair" /\ text[n].key = r)
      BY <1>0, <1>2, <1>4 DEF M!LinesOf
    <3> QED BY <1>0, <3>1 DEF M!Assigned, M!line
  <2>2. CASE addr[r] = M!Missing
    BY <2>1, <2>2, Zenon DEF LastBefore
  <2>3. CASE \E i \in lines : /\ i < n /\ addr[r] = text[i].value
                              /\ \A j \in lines : j < n => j <= i
    <3>1. PICK i \in lines : /\ i < n /\ addr[r] = text[i].value
                             /\ \A j \in lines : j < n => j <= i
      BY <2>3, Zenon
    <3>2. i < k /\ \A j \in lines : j < k => j < n
      BY <1>0, <1>2, <1>4, <3>1
    <3>3. \E h \in lines : /\ h < k /\ addr'[r] = text[h].value
                           /\ \A j \in lines : j < k => j <= h
      BY <2>1, <3>1, <3>2, Zenon
    <3> QED BY <1>2, <3>3, Zenon DEF LastBefore, M!LinesOf
  <2> QED BY <1>1, <1>2, <2>2, <2>3, Zenon DEF LastBefore
<1> QED BY <1>3, <1>4

LEMMA ParseKept ==
  ASSUME MapInv, M!ParseLine PROVE MapInv'
<1>0. /\ pc = "line" /\ UNCHANGED <<text, inUse, source>> /\ M!InUseIsOfOneText'
      /\ n \in 1 .. Len(text) /\ text \in Seq(Line) /\ addr \in [Names -> Nat]
      /\ Len(text) \in Nat
  BY InUseKept, LenProperties DEF M!ParseLine, MapInv, MapTypeOK
<1>1. CASE pc' = "aborted" /\ UNCHANGED <<addr, n, ret>>
  BY <1>0, <1>1 DEF MapInv, MapTypeOK, AddrInv
<1>2. CASE M!Failed /\ UNCHANGED <<addr, n>>
  BY <1>0, <1>2, FailedKept
<1>3. CASE /\ addr' = M!Assigned
           /\ IF n < Len(text) THEN n' = n + 1 /\ UNCHANGED pc
              ELSE pc' = "validate" /\ UNCHANGED n
  <2>1. M!Assigned \in [Names -> Nat]
    <3>1. M!line \in Line
      BY <1>0, ElementOfSeq DEF M!line
    <3>2. PICK l \in Line : l = M!line
      BY <3>1, Zenon
    <3>3. l.value \in Nat
      BY <3>2, LineValue
    <3> QED BY <1>0, <3>2, <3>3 DEF M!Assigned
  <2>2. PICK k : k = n + 1
    OBVIOUS
  <2>3. \A r \in Names : LastBefore(r, k)'
    BY <1>0, <1>3, <2>2, LineTaken, Zenon
  <2>4. CASE n < Len(text) /\ n' = k /\ pc' = "line"
    <3>1. MapTypeOK'
      BY <1>0, <1>3, <2>1, <2>2, <2>4 DEF MapInv, MapTypeOK
    <3>2. AddrInv'
      BY <2>3, <2>4, Zenon DEF AddrInv, LastBefore
    <3> QED BY <1>0, <2>4, <3>1, <3>2 DEF MapInv
  <2>5. CASE ~(n < Len(text)) /\ pc' = "validate"
    <3>1. MapTypeOK'
      BY <1>0, <1>3, <2>1, <2>5 DEF MapInv, MapTypeOK
    <3>2. k = Len(text) + 1
      BY <1>0, <2>2, <2>5
    <3>3. AddrInv'
      <4>1. \A r \in Names : LastBefore(r, Len(text) + 1)'
        BY <1>0, <2>3, <3>2, Zenon DEF LastBefore
      <4> QED BY <2>5, <4>1 DEF AddrInv
    <3> QED BY <1>0, <2>5, <3>1, <3>3 DEF MapInv
  <2> QED BY <1>0, <1>3, <2>2, <2>4, <2>5
<1> QED BY <1>1, <1>2, <1>3 DEF M!ParseLine

\* A complete map comes into use: every register has its last line.
LEMMA UseKept ==
  ASSUME MapInv, pc \in {"validate", "load"}, M!Complete, M!Use, UNCHANGED <<text, n, addr>>
  PROVE  MapInv'
<1>1. inUse' = addr /\ source' = text /\ pc' = "idle"
  BY DEF M!Use
<1>2. text \in Seq(Line) /\ Len(text) \in Nat /\ DOMAIN text = 1 .. Len(text)
  BY LenProperties DEF MapInv, MapTypeOK
<1>3. ASSUME NEW r \in Names
      PROVE  \E i \in M!LinesOf(text, r) : /\ \A j \in M!LinesOf(text, r) : j <= i
                                           /\ addr[r] = text[i].value
  <2>1. LastBefore(r, Len(text) + 1) /\ addr[r] # M!Missing
    BY Zenon DEF MapInv, AddrInv, M!Complete
  <2>2. PICK lines : lines = M!LinesOf(text, r) /\ lines \subseteq 1 .. Len(text)
    BY <1>2 DEF M!LinesOf
  <2>3. \A j \in lines : j < Len(text) + 1
    BY <1>2, <2>2
  <2> QED BY <2>1, <2>2, <2>3, Zenon DEF LastBefore
<1>4. M!InUseIsOfOneText'
  <2>1. ASSUME NEW r \in Names
        PROVE  \E i \in M!LinesOf(source, r)' : /\ \A j \in M!LinesOf(source, r)' : j <= i
                                                /\ inUse'[r] = (source[i].value)'
    <3>1. M!LinesOf(source, r)' = M!LinesOf(text, r)
      BY <1>1, Zenon DEF M!LinesOf
    <3>2. \A i : (source[i].value)' = text[i].value
      BY <1>1, Zenon
    <3> QED BY <1>1, <1>3, <3>1, <3>2, Zenon
  <2> QED BY <2>1, Zenon DEF M!InUseIsOfOneText
<1>5. MapTypeOK'
  BY <1>1 DEF MapInv, MapTypeOK
<1> QED BY <1>1, <1>4, <1>5 DEF MapInv, AddrInv

LEMMA ValidateKept ==
  ASSUME MapInv, M!Validate PROVE MapInv'
<1>0. pc = "validate" /\ UNCHANGED <<text, n, addr>>
  BY DEF M!Validate, M!parser
<1>1. CASE M!Failed /\ UNCHANGED <<inUse, source>>
  BY <1>0, <1>1, FailedKept
<1>2. CASE M!Complete /\ M!Use
  BY <1>0, <1>2, UseKept
<1>3. CASE M!Complete /\ source # << >> /\ pc' = "load" /\ UNCHANGED <<inUse, source, ret>>
  <2>1. MapTypeOK'
    BY <1>0, <1>3 DEF MapInv, MapTypeOK
  <2>2. M!InUseIsOfOneText'
    BY <1>3, InUseKept, Zenon DEF MapInv
  <2>3. AddrInv'
    <3>1. \A r \in Names : LastBefore(r, Len(text) + 1)
      BY <1>0, Zenon DEF MapInv, AddrInv
    <3>2. \A r \in Names : LastBefore(r, Len(text) + 1)'
      BY <1>0, <3>1, Zenon DEF LastBefore
    <3> QED BY <1>3, <3>2 DEF AddrInv
  <2>4. M!Complete' /\ source' # << >>
    BY <1>0, <1>3, Zenon DEF M!Complete
  <2> QED BY <2>1, <2>2, <2>3, <2>4 DEF MapInv
<1> QED BY <1>1, <1>2, <1>3 DEF M!Validate

LEMMA MapKept ==
  ASSUME MapInv, UNCHANGED map_vars PROVE MapInv'
<1>1. UNCHANGED <<pc, text, n, addr, inUse, source>>
  BY DEF map_vars
<1>2. MapTypeOK' /\ M!InUseIsOfOneText'
  BY <1>1, InUseKept DEF MapInv, MapTypeOK
<1>3. AddrInv'
  BY <1>1 DEF MapInv, AddrInv, LastBefore, M!LinesOf
<1>4. pc' = "load" => M!Complete' /\ source' # << >>
  BY <1>1 DEF MapInv, M!Complete
<1> QED BY <1>2, <1>3, <1>4 DEF MapInv

-----------------------------------------------------------------------------
PackageInv == BitInv /\ MapInv

LEMMA PackageStart == PackageInit => PackageInv
<1> SUFFICES ASSUME PackageInit PROVE PackageInv
  OBVIOUS
<1>1. Opened
  BY DEF PackageInit, Opened
<1> QED BY <1>1, OpenedInv, MapInit DEF PackageInit, PackageInv

LEMMA BitsKept == ASSUME BitInv, UNCHANGED vars PROVE BitInv'
BY BitStepKept

LEMMA PackageStep == PackageInv /\ [PackageNext]_package_vars => PackageInv'
<1> SUFFICES ASSUME BitInv, MapInv, [PackageNext]_package_vars PROVE BitInv' /\ MapInv'
  BY DEF PackageInv
<1>1. CASE pc = "new" /\ M!Read /\ UNCHANGED vars
  <2>1. PICK f \in Texts : M!ReadText(f)
    BY <1>1, Zenon DEF M!Read
  <2>2. f \in Seq(Line) \ {<< >>}
    BY PackagesAssumption, TextLines
  <2> QED BY <1>1, <2>1, <2>2, BitsKept, ReadKept
<1>2. CASE /\ pc = "idle"
           /\ \E p \in Packages :
                /\ M!ReadText(p[1])
                /\ file' = p[2] /\ field' = "header" /\ pos' = 0 /\ size' = Len(p[2])
                /\ at' = [k \in Strings |-> 0] /\ bit_length' = 0 /\ sent' = << >>
  <2>1. PICK p \in Packages :
          /\ M!ReadText(p[1])
          /\ file' = p[2] /\ field' = "header" /\ pos' = 0 /\ size' = Len(p[2])
          /\ at' = [k \in Strings |-> 0] /\ bit_length' = 0 /\ sent' = << >>
    BY <1>2, Zenon
  <2>2. p[1] \in Seq(Line) \ {<< >>} /\ p[2] \in Seq(Byte)
    <3>1. p[1] \in Seq([kind : STRING, key : STRING, value : Nat]) \ {<< >>} /\ p[2] \in Files
      BY PackagesAssumption
    <3> QED BY <3>1, FilesAssumption, TextLines
  <2>3. Opened'
    BY <2>1, <2>2 DEF Opened
  <2>4. MapInv'
    BY <2>1, <2>2, ReadKept, Zenon
  <2> QED BY <2>3, <2>4, OpenedInv, PTL
<1>3. CASE ReadMapFails
  <2>1. M!Failed /\ UNCHANGED <<text, inUse, source, addr>> /\ UNCHANGED vars
    BY <1>3 DEF ReadMapFails, M!ReadFails, M!parser
  <2> QED BY <2>1, BitsKept, FailedKept
<1>4. CASE MapStep
  BY <1>4, BitsKept, ParseKept, ValidateKept DEF MapStep
<1>5. CASE BitStep
  BY <1>5, BitStepKept, MapKept DEF BitStep
<1>6. CASE M!LoadFails /\ UNCHANGED vars
  <2>1. M!Failed /\ UNCHANGED <<text, inUse, source, addr>>
    BY <1>6 DEF M!LoadFails, M!parser
  <2> QED BY <1>6, <2>1, BitsKept, FailedKept
<1>7. CASE Sent
  <2>1. CASE M!LoadFails
    BY <1>6, <1>7, <2>1 DEF Sent
  <2>2. CASE pc = "load" /\ M!Use /\ UNCHANGED <<text, n, addr>>
    <3>1. M!Complete
      BY <2>2 DEF MapInv
    <3> QED BY <1>7, <2>2, <3>1, BitsKept, UseKept DEF Sent
  <2> QED BY <1>7, <2>1, <2>2 DEF Sent, M!Load, M!parser
<1>8. CASE Refused
  BY <1>6, <1>8 DEF Refused
<1>9. CASE NotSent
  BY <1>6, <1>9 DEF NotSent
<1>10. CASE UNCHANGED package_vars
  BY <1>10, BitsKept, MapKept DEF package_vars
<1> QED BY <1>1, <1>2, <1>3, <1>4, <1>5, <1>7, <1>8, <1>9, <1>10 DEF PackageNext, ReadMap

-----------------------------------------------------------------------------
\* The parser by itself, for any file: what follows from bit->size, what is accepted,
\* and what is sent.
THEOREM BitParserCorrect == Spec => [](TypeOK /\ SizeIsRest /\ AcceptsFormat /\ DataSent)
<1>1. Init => BitInv
  BY OpenedInv, FilesAssumption DEF Init, Opened
<1>2. BitInv => TypeOK /\ SizeIsRest /\ AcceptsFormat /\ DataSent
  BY Accepts, Sends DEF BitInv, TypeInv
<1> QED BY <1>1, <1>2, BitStepKept, PTL DEF Spec

LEMMA PackageInvariant == PackageSpec => []PackageInv
BY PackageStart, PackageStep, PTL DEF PackageSpec

\* Type correctness of both files' state: also what is sent is bytes.
THEOREM TypeCorrect == PackageSpec => [](TypeOK /\ MapTypeOK)
<1>1. PackageInv => TypeOK /\ MapTypeOK
  BY DEF PackageInv, BitInv, TypeInv, MapInv
<1> QED BY <1>1, PackageInvariant, PTL

\* bit->size is what the file has from bit->data on, whatever is in the file.
THEOREM SizeIsRestCorrect == PackageSpec => []SizeIsRest
<1>1. PackageInv => SizeIsRest
  BY DEF PackageInv, BitInv, TypeInv
<1> QED BY <1>1, PackageInvariant, PTL

\* bit_init() accepts exactly the files of the format, and finds each field where it
\* is, for files of any size.
THEOREM AcceptsFormatCorrect == PackageSpec => []AcceptsFormat
<1>1. PackageInv => AcceptsFormat
  BY Accepts DEF PackageInv
<1> QED BY <1>1, PackageInvariant, PTL

\* What has been sent is the end of the file, the bits of each byte reversed: for data
\* of any length and content.
THEOREM DataSentCorrect == PackageSpec => []DataSent
<1>1. PackageInv => DataSent
  BY Sends DEF PackageInv
<1> QED BY <1>1, PackageInvariant, PTL

\* The map in use is the whole map of one text, for texts of any length.
THEOREM InUseIsOfOneTextCorrect == PackageSpec => []InUseIsOfOneText
<1>1. PackageInv => InUseIsOfOneText
  BY DEF PackageInv, MapInv, InUseIsOfOneText
<1> QED BY <1>1, PackageInvariant, PTL

\* A map comes into use complete, and behind the bitstream of its package.
THEOREM MapFollowsBitsCorrect == PackageSpec => MapFollowsBits
<1> DEFINE Follows ==
      inUse' # inUse =>
        /\ ret' = 0 /\ pc' = "idle" /\ source' = text /\ M!Complete
        /\ source # << >> => WellFormed /\ field = "sent" /\ DataSent
<1>1. PackageInv /\ [PackageNext]_package_vars => [Follows]_package_vars
  <2> SUFFICES ASSUME PackageInv, PackageNext PROVE Follows
    OBVIOUS
  <2> SUFFICES ASSUME inUse' # inUse
               PROVE  /\ ret' = 0 /\ pc' = "idle" /\ source' = text /\ M!Complete
                      /\ source # << >> => WellFormed /\ field = "sent" /\ DataSent
    OBVIOUS
  <2>1. CASE MapStep
    <3>1. M!Complete /\ source = << >> /\ M!Use
      BY <2>1 DEF MapStep, M!ParseLine, M!Validate
    <3> QED BY <3>1 DEF M!Use
  <2>2. CASE Sent
    <3>1. pc = "load" /\ M!Use /\ field = "sent"
      BY <2>2 DEF Sent, M!Load, M!LoadFails
    <3>2. M!Complete /\ DataSent /\ AcceptsFormat
      BY <3>1, Accepts, Sends DEF PackageInv, MapInv
    <3>3. WellFormed
      BY <3>1, <3>2 DEF AcceptsFormat
    <3> QED BY <3>1, <3>2, <3>3 DEF M!Use
  <2>3. CASE ReadMap
    <3>1. UNCHANGED inUse
      BY <2>3, Zenon DEF ReadMap, M!Read, M!ReadText
    <3> QED BY <3>1
  <2>4. CASE ReadMapFails \/ Refused \/ NotSent
    BY <2>4 DEF ReadMapFails, Refused, NotSent, M!ReadFails, M!LoadFails
  <2>5. CASE BitStep
    BY <2>5 DEF BitStep, map_vars
  <2> QED BY <2>1, <2>2, <2>3, <2>4, <2>5 DEF PackageNext
<1>2. MapFollowsBits <=> [][Follows]_package_vars
  BY PTL DEF MapFollowsBits
<1> QED BY <1>1, <1>2, PackageInvariant, PTL DEF PackageSpec
=============================================================================
