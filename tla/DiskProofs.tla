----------------------------- MODULE DiskProofs -----------------------------
(***************************************************************************)
(* Proofs about Disk, for any drives, partition tables, sector sizes and   *)
(* requests, where three bytes are enough for the number of a sector       *)
(* (AddressesFit): answers of writes are true, partitions are confined,    *)
(* and drives are devices of bytes.                                        *)
(***************************************************************************)
EXTENDS Disk, TLAPS

(***************************************************************************)
(* Arithmetic: products, quotients and remainders                          *)
(***************************************************************************)

LEMMA MulMono ==
    ASSUME NEW a \in Nat, NEW b \in Nat, NEW c \in Nat, b < c
    PROVE  a * b + a <= a * c
OBVIOUS

LEMMA MulLe ==
    ASSUME NEW a \in Nat, NEW b \in Nat, NEW c \in Nat, b <= c
    PROVE  a * b <= a * c
OBVIOUS

LEMMA DivMod ==
    ASSUME NEW a \in Nat, NEW b \in Nat \ {0}
    PROVE  /\ a \div b \in Nat /\ a % b \in 0..(b - 1)
           /\ a = b * (a \div b) + (a % b)
OBVIOUS

LEMMA DivUnique ==
    ASSUME NEW a \in Nat, NEW b \in Nat \ {0}, NEW q \in Nat, NEW r \in 0..(b - 1), a = b * q + r
    PROVE  a \div b = q /\ a % b = r
<1>1. /\ a \div b \in Nat /\ a % b \in 0..(b - 1)
      /\ a = b * (a \div b) + (a % b)
  BY DivMod
<1>2. ~(a \div b < q)
  <2> SUFFICES ASSUME a \div b < q PROVE FALSE  OBVIOUS
  <2>1. b * (a \div b) + b <= b * q  BY <1>1, MulMono
  <2> QED BY <1>1, <2>1
<1>3. ~(q < a \div b)
  <2> SUFFICES ASSUME q < a \div b PROVE FALSE  OBVIOUS
  <2>1. b * q + b <= b * (a \div b)  BY <1>1, MulMono
  <2> QED BY <1>1, <2>1
<1> QED  BY <1>1, <1>2, <1>3

(***************************************************************************)
(* Sectors and bytes                                                       *)
(***************************************************************************)

\* The first byte of a sector.
Start(s) == SectorSize * s

LEMMA Sizes ==
    /\ SectorSize \in Nat /\ SectorSize > 0 /\ SectorSize # 0
    /\ NSectors \in Nat /\ NSectors > 0 /\ NBytes \in Nat /\ NBytes = Start(NSectors)
BY DiskAssumption DEF NBytes, Start

LEMMA StartStep ==
    ASSUME NEW s \in Nat
    PROVE  Start(s) \in Nat /\ Start(s + 1) = Start(s) + SectorSize
<1>1. SectorSize \in Nat  BY Sizes
<1> QED  BY <1>1 DEF Start

LEMMA StartSum ==
    ASSUME NEW s \in Nat, NEW t \in Nat
    PROVE  Start(s + t) = Start(s) + Start(t) /\ Start(0) = 0
<1>1. SectorSize \in Nat  BY Sizes
<1> QED  BY <1>1 DEF Start

LEMMA StartMono ==
    ASSUME NEW s \in Nat, NEW t \in Nat
    PROVE  s < t => Start(s) + SectorSize <= Start(t)
<1>1. SectorSize \in Nat  BY Sizes
<1> QED  BY <1>1, MulMono DEF Start

\* The sector and the place in it of a byte, and the other way round.
LEMMA ByteInSector ==
    ASSUME NEW i \in Nat
    PROVE  /\ i \div SectorSize \in Nat /\ i % SectorSize \in 0..(SectorSize - 1)
           /\ i = Start(i \div SectorSize) + (i % SectorSize)
<1>1. SectorSize \in Nat \ {0}  BY Sizes
<1> QED  BY <1>1, DivMod DEF Start

LEMMA SectorOfByte ==
    ASSUME NEW i \in Nat, NEW s \in Nat, Start(s) <= i, i < Start(s) + SectorSize
    PROVE  i \div SectorSize = s /\ i % SectorSize = i - Start(s)
<1>1. SectorSize \in Nat \ {0} /\ Start(s) \in Nat  BY Sizes, StartStep
<1>2. i - Start(s) \in 0..(SectorSize - 1)  BY <1>1
<1>3. i = SectorSize * s + (i - Start(s))
  <2>1. Start(s) = SectorSize * s  BY DEF Start
  <2> QED  BY <2>1, <1>1
<1> HIDE DEF Start
<1> QED  BY <1>1, <1>2, <1>3, DivUnique

\* A drive has the bytes of its sectors.
LEMMA SectorOnDrive ==
    ASSUME NEW s \in Sector
    PROVE  s \in Nat /\ Start(s) + SectorSize <= NBytes
<1>1. s \in Nat /\ s < NSectors  BY Sizes DEF Sector
<1> QED  BY <1>1, Sizes, StartMono

LEMMA ByteOnDrive ==
    ASSUME NEW i \in 0..(NBytes - 1)
    PROVE  i \div SectorSize \in Sector /\ i % SectorSize \in 0..(SectorSize - 1)
<1> DEFINE s == i \div SectorSize
<1>1. i \in Nat /\ i < Start(NSectors)  BY Sizes
<1>2. s \in Nat /\ i % SectorSize \in 0..(SectorSize - 1) /\ i = Start(s) + (i % SectorSize)
  BY <1>1, ByteInSector
<1> HIDE DEF s
<1>3. s < NSectors
  <2> SUFFICES ASSUME NSectors <= s  PROVE FALSE  BY <1>2, Sizes
  <2>1. Start(NSectors) <= Start(s)  BY <1>2, Sizes, MulLe DEF Start
  <2> QED  BY <2>1, <1>1, <1>2, StartStep, Sizes
<1> QED  BY <1>2, <1>3, Sizes DEF Sector, s

\* sector_count is the number of whole or partial sectors of a length.
LEMMA CountReach ==
    ASSUME NEW len \in Nat, NEW k \in Nat
    PROVE  sector_count(len) \in Nat /\ (k < sector_count(len) <=> Start(k) < len)
<1> DEFINE q == len \div SectorSize  r == len % SectorSize
<1>1. q \in Nat /\ r \in 0..(SectorSize - 1) /\ len = Start(q) + r  BY ByteInSector
<1>2. sector_count(len) = q + (IF r # 0 THEN 1 ELSE 0)  BY DEF sector_count
<1> HIDE DEF q, r
<1>3. SectorSize \in Nat /\ SectorSize > 0 /\ Start(k) \in Nat /\ Start(q) \in Nat  BY <1>1, Sizes, StartStep
<1>4. (k < q => Start(k) + SectorSize <= Start(q)) /\ (q < k => Start(q) + SectorSize <= Start(k))
  BY <1>1, StartMono
<1> QED  BY <1>1, <1>2, <1>3, <1>4

\* Where three bytes are enough for the number of a sector, a drive that has the sector
\* the registers say has the one that was meant.
LEMMA AddressedIsMeant ==
    ASSUME NSectors <= Byte * Byte * Byte, NEW s \in Nat, s < Byte * Byte * Byte, Present(s)
    PROVE  s \in Sector /\ addressed(s) = s
<1> DEFINE B == Byte  a == s \div B  low == s % B  b == a \div B  mid == a % B
<1>1. B \in Nat \ {0} /\ Nibble \in Nat \ {0}
  <2>1. Nibble \in Nat \ {0} /\ Byte = Nibble * Nibble  BY DiskAssumption
  <2> QED  BY <2>1
<1>2. a \in Nat /\ low \in 0..(B - 1) /\ s = B * a + low
  <2> HIDE DEF B
  <2> QED  BY <1>1, DivMod
<1>3. b \in Nat /\ mid \in 0..(B - 1) /\ a = B * b + mid
  <2> HIDE DEF B, a
  <2> QED  BY <1>1, <1>2, DivMod
<1> DEFINE h == s \div (B * B)  hi == h % B  x == hi \div Nibble
<1>4. addressed(s) = low + B * mid + B * B * hi + B * B * B * x
  BY DEF addressed, LBA28
<1> HIDE DEF a, b, low, mid
<1>5. h = b
  <2>1. s = (B * B) * b + (B * mid + low)  BY <1>1, <1>2, <1>3
  <2>2. B * mid + low \in 0..(B * B - 1)
    <3>1. B * mid + B <= B * B  BY <1>1, <1>3, MulMono
    <3>2. B * mid \in Nat  BY <1>1, <1>3
    <3> QED  BY <1>1, <1>2, <3>1, <3>2
  <2>3. B * B \in Nat \ {0}  BY <1>1
  <2> HIDE DEF B
  <2> QED  BY <2>1, <2>2, <2>3, <1>3, DivUnique
<1>6. hi = b
  <2>1. b < B
    <3> SUFFICES ASSUME B <= b  PROVE FALSE  BY <1>1, <1>3
    <3>1. (B * B) * B <= (B * B) * b  BY <1>1, <1>3, MulLe
    <3>2. s = (B * B) * b + (B * mid + low)  BY <1>1, <1>2, <1>3
    <3>3. B * mid \in Nat /\ (B * B) * B = B * B * B  BY <1>1, <1>3
    <3> QED  BY <3>1, <3>2, <3>3, <1>1, <1>2, <1>3
  <2>2. b = B * 0 + b  BY <1>1, <1>3
  <2> HIDE DEF B
  <2> QED  BY <2>1, <2>2, <1>1, <1>3, <1>5, DivUnique
<1>7. x \in Nat  BY <1>1, <1>3, <1>6, DivMod
<1> HIDE DEF h, hi, x
<1>8. addressed(s) = s + (B * B * B) * x
  <2>1. s = B * (B * b + mid) + low  BY <1>2, <1>3
  <2> QED  BY <2>1, <1>1, <1>2, <1>3, <1>4, <1>6, <1>7
<1>9. addressed(s) < B * B * B /\ addressed(s) \in Sector  BY <1>1, Sizes DEF Present, Sector
<1>10. x = 0
  <2> SUFFICES ASSUME 1 <= x  PROVE FALSE  BY <1>7
  <2>1. (B * B * B) * 1 <= (B * B * B) * x  BY <1>1, <1>7, MulLe
  <2>2. (B * B * B) \in Nat /\ (B * B * B) * 1 = (B * B * B)  BY <1>1
  <2> QED  BY <2>1, <2>2, <1>1, <1>7, <1>8, <1>9
<1>11. (B * B * B) * x = 0  BY <1>1, <1>10
<1> QED  BY <1>8, <1>9, <1>11

(***************************************************************************)
(* The loop over the sectors of a request                                  *)
(***************************************************************************)

\* Where sector number k of a request at byte `at' begins to count, and how many bytes
\* the sectors before it have dealt with.
From(at, k) == IF k = 0 THEN at % SectorSize ELSE 0
Done(at, k) == IF k = 0 THEN 0 ELSE Start((at \div SectorSize) + k) - at

LEMMA LoopPlace ==
    ASSUME NEW at \in Nat, NEW len \in Nat \ {0}, NEW k \in Nat, k < sector_count(len),
           NEW s, s = (at \div SectorSize) + k
    PROVE  /\ s \in Nat /\ From(at, k) \in 0..(SectorSize - 1)
           /\ Done(at, k) \in 0..(len - 1) /\ Done(at, k) <= Start(k)
           /\ Start(s) \in Nat /\ Start(s) + From(at, k) = at + Done(at, k) /\ Start(s) < at + len
           /\ Done(at, k + 1) = Done(at, k) + (SectorSize - From(at, k))
<1> DEFINE q == at \div SectorSize  m == at % SectorSize
<1>1. q \in Nat /\ m \in 0..(SectorSize - 1) /\ at = Start(q) + m  BY ByteInSector
<1>2. From(at, k) = (IF k = 0 THEN m ELSE 0) /\ Done(at, k) = (IF k = 0 THEN 0 ELSE Start(q + k) - at)
      /\ Done(at, k + 1) = Start(q + (k + 1)) - at
  BY DEF From, Done
<1> HIDE DEF q, m
<1>3. s = q + k  BY DEF q
<1>4. Start(k) < len  BY CountReach
<1>5. SectorSize \in Nat /\ SectorSize > 0  BY Sizes
<1>6. Start(q) \in Nat /\ Start(k) \in Nat /\ Start(k + 1) = Start(k) + SectorSize  BY <1>1, StartStep
<1>7. Start(q + k) = Start(q) + Start(k) /\ Start(q + (k + 1)) = Start(q) + Start(k + 1) /\ Start(0) = 0
  BY <1>1, StartSum
<1>8. k # 0 => SectorSize <= Start(k)
  <2>1. 0 < k => Start(0) + SectorSize <= Start(k)  BY StartMono
  <2> QED  BY <2>1, <1>5, <1>7
<1>9. k = 0 => Start(k) = 0  BY <1>7
<1> HIDE DEF Start
<1> QED  BY <1>1, <1>2, <1>3, <1>4, <1>5, <1>6, <1>7, <1>8, <1>9

\* The addresses of a drive and of the partitions need no more than three bytes: with
\* sectors of 512 bytes, drives of at most 8 GiB.  Beyond them LBA28 wraps around, and a
\* request that starts there reaches the sectors at the beginning of the drive.
AddressesFit ==
    /\ NBytes + MaxLen <= Start(Byte * Byte * Byte)
    /\ \A d \in Drives, n \in 1..4 :
         Partitions[d][n].first + Partitions[d][n].count <= Byte * Byte * Byte

\* A request whose bytes have addresses, and which is within its partition.
InPlace(file, at, len) ==
    /\ file \in Drives \X (0..4) /\ at \in Nat /\ len \in Nat \ {0}
    /\ at + len <= Start(Byte * Byte * Byte)
    /\ file[2] # 0 =>
         LET part == Partitions[file[1]][file[2]]
         IN  Start(part.first) <= at /\ at + len <= Start(part.first + part.count)

\* The sector of a step of the loop is the one that was meant, of the partition.
LEMMA SectorMeant ==
    ASSUME AddressesFit, NEW file, NEW at, NEW len, InPlace(file, at, len),
           NEW k \in Nat, k < sector_count(len), NEW s, s = (at \div SectorSize) + k, Present(s)
    PROVE  /\ s \in Sector /\ addressed(s) = s
           /\ file[2] # 0 => LET part == Partitions[file[1]][file[2]]
                             IN  s \in part.first..(part.first + part.count - 1)
<1> DEFINE C == Byte * Byte * Byte
<1>1. file \in Drives \X (0..4) /\ at \in Nat /\ len \in Nat \ {0} /\ at + len <= Start(C)  BY DEF InPlace
<1>2. /\ s \in Nat /\ From(at, k) \in 0..(SectorSize - 1)
      /\ Done(at, k) \in 0..(len - 1)
      /\ Start(s) \in Nat /\ Start(s) + From(at, k) = at + Done(at, k) /\ Start(s) < at + len
  BY <1>1, LoopPlace
<1>3. C \in Nat
  <2>1. Nibble \in Nat /\ Byte = Nibble * Nibble  BY DiskAssumption
  <2>2. Byte \in Nat  BY <2>1
  <2> QED  BY <2>2
<1>4. NBytes + MaxLen <= Start(C) /\ MaxLen \in Nat  BY DiskAssumption DEF AddressesFit
<1> HIDE DEF C
<1>5. Start(C) \in Nat  BY <1>3, StartStep
<1>6. s < C
  <2> SUFFICES ASSUME C <= s  PROVE FALSE  BY <1>2, <1>3
  <2>1. Start(C) <= Start(s)
    <3>1. C < s => Start(C) + SectorSize <= Start(s)  BY <1>2, <1>3, StartMono
    <3> QED  BY <3>1, <1>2, <1>3, <1>5, Sizes
  <2> QED  BY <2>1, <1>1, <1>2, <1>5
<1>7. NSectors <= C
  <2> SUFFICES ASSUME C < NSectors  PROVE FALSE  BY <1>3, Sizes
  <2>1. Start(C) + SectorSize <= Start(NSectors)  BY <1>3, Sizes, StartMono
  <2> QED  BY <2>1, <1>4, <1>5, Sizes
<1>8. s \in Sector /\ addressed(s) = s  BY <1>2, <1>6, <1>7, AddressedIsMeant DEF C
<1>9. ASSUME file[2] # 0
      PROVE  s \in Partitions[file[1]][file[2]].first..
                   (Partitions[file[1]][file[2]].first + Partitions[file[1]][file[2]].count - 1)
  <2> DEFINE f == Partitions[file[1]][file[2]].first  c == Partitions[file[1]][file[2]].count
  <2>1. f \in Nat /\ c \in Nat
    <3>1. file[1] \in Drives /\ file[2] \in 1..4  BY <1>1, <1>9
    <3>2. Partitions[file[1]][file[2]] \in [first : Nat, count : Nat]  BY <3>1, DiskAssumption
    <3> QED  BY <3>2
  <2>2. Start(f) <= at /\ at + len <= Start(f + c)  BY <1>9 DEF InPlace
  <2> HIDE DEF f, c
  <2>3. Start(f) \in Nat /\ Start(f + c) \in Nat /\ f + c \in Nat  BY <2>1, StartStep
  <2>4. ~(s < f)
    <3>1. s < f => Start(s) + SectorSize <= Start(f)  BY <1>2, <2>1, StartMono
    <3> QED  BY <3>1, <1>1, <1>2, <2>2, <2>3, Sizes
  <2>5. ~(f + c <= s)
    <3>1. f + c < s => Start(f + c) + SectorSize <= Start(s)  BY <1>2, <2>3, StartMono
    <3> QED  BY <3>1, <1>1, <1>2, <2>2, <2>3, Sizes
  <2>6. s \in f..(f + c - 1)  BY <2>1, <2>4, <2>5, <1>2
  <2> QED  BY <2>6 DEF f, c
<1> QED  BY <1>8, <1>9

(***************************************************************************)
(* A sector is written                                                     *)
(***************************************************************************)

Platter == [Drives -> [Sector -> [0..(SectorSize - 1) -> Value]]]
WriteReq ==
    [op : {"write"}, file : Drives \X (0..4), at : Nat, len : Nat \ {0}, k : Nat,
     pos : Nat, written : Nat, value : Value, check : BOOLEAN]

LEMMA PlatterByte ==
    ASSUME NEW p \in Platter, NEW d \in Drives, NEW t \in Sector, NEW j \in 0..(SectorSize - 1)
    PROVE  p[d][t][j] \in Value
<1> DEFINE J == 0..(SectorSize - 1)
<1>1. p \in [Drives -> [Sector -> [J -> Value]]] /\ j \in J  BY DEF Platter
<1> HIDE DEF J
<1>2. p[d] \in [Sector -> [J -> Value]]  BY <1>1
<1>3. p[d][t] \in [J -> Value]  BY <1>2
<1> QED  BY <1>1, <1>3

LEMMA SectorReplaced ==
    ASSUME NEW p \in Platter, NEW e \in Drives, NEW s \in Sector, NEW new \in [0..(SectorSize - 1) -> Value]
    PROVE  [p EXCEPT ![e] = [p[e] EXCEPT ![s] = new]] \in Platter
<1> DEFINE T == [0..(SectorSize - 1) -> Value]
<1>1. p \in [Drives -> [Sector -> T]] /\ new \in T  BY DEF Platter
<1> HIDE DEF T
<1>2. p[e] \in [Sector -> T]  BY <1>1
<1>3. [p[e] EXCEPT ![s] = new] \in [Sector -> T]  BY <1>1, <1>2
<1>4. [p EXCEPT ![e] = [p[e] EXCEPT ![s] = new]] \in [Drives -> [Sector -> T]]  BY <1>1, <1>3
<1> QED  BY <1>4 DEF Platter, T

LEMMA FlatByte ==
    ASSUME NEW p \in Platter, NEW d \in Drives, NEW i \in 0..(NBytes - 1)
    PROVE  /\ Flat(p)[d][i] = p[d][i \div SectorSize][i % SectorSize] /\ Flat(p)[d][i] \in Value
           /\ i \div SectorSize \in Sector /\ i % SectorSize \in 0..(SectorSize - 1)
<1>1. i \div SectorSize \in Sector /\ i % SectorSize \in 0..(SectorSize - 1)  BY ByteOnDrive
<1>2. Flat(p)[d][i] = p[d][i \div SectorSize][i % SectorSize]  BY DEF Flat
<1>3. p[d][i \div SectorSize][i % SectorSize] \in Value  BY <1>1, PlatterByte
<1> QED  BY <1>1, <1>2, <1>3

LEMMA FlatType ==
    ASSUME NEW p \in Platter
    PROVE  Flat(p) \in [Drives -> [0..(NBytes - 1) -> Value]]
<1>1. \A d \in Drives, i \in 0..(NBytes - 1) : p[d][i \div SectorSize][i % SectorSize] \in Value
  BY FlatByte
<1> QED  BY <1>1 DEF Flat

LEMMA MinOfTwo ==
    ASSUME NEW a \in Int, NEW b \in Int
    PROVE  Min({a, b}) = IF a <= b THEN a ELSE b
<1> DEFINE c == IF a <= b THEN a ELSE b
<1>1. c \in {a, b} /\ \A y \in {a, b} : c <= y  OBVIOUS
<1>2. \A x \in {a, b} : (\A y \in {a, b} : x <= y) => x = c  OBVIOUS
<1> QED  BY <1>1, <1>2 DEF Min

\* The numbers of a step: n bytes, up to the end of the sector or of the data.
LEMMA TakeOf ==
    ASSUME NEW r \in WriteReq, r.k < sector_count(r.len), r.pos = Done(r.at, r.k)
    PROVE  /\ sector_from(r) = From(r.at, r.k)
           /\ sector_take(r) \in 1..(SectorSize - From(r.at, r.k))
           /\ r.pos + sector_take(r) <= r.len
           /\ \/ sector_take(r) = SectorSize - From(r.at, r.k)
              \/ r.pos + sector_take(r) = r.len
           /\ ~reads_first(r) => From(r.at, r.k) = 0 /\ sector_take(r) = SectorSize
           /\ r.k + 1 < sector_count(r.len) => sector_take(r) = SectorSize - From(r.at, r.k)
<1> DEFINE at == r.at  len == r.len  k == r.k  from == From(at, k)  pos == Done(at, k)
           n == sector_take(r)
<1>1. at \in Nat /\ len \in Nat \ {0} /\ k \in Nat /\ k < sector_count(len)  BY DEF WriteReq
<1>2. sector_from(r) = from  BY DEF sector_from, From
<1>3. n = Min({SectorSize - from, len - pos})  BY <1>2 DEF sector_take
<1>4. reads_first(r) <=> (k = sector_count(len) - 1 /\ len % SectorSize # 0) \/ (k = 0 /\ at % SectorSize # 0)
  BY DEF reads_first
<1>5. from = IF k = 0 THEN at % SectorSize ELSE 0  BY DEF From
<1>6. r.pos = pos  OBVIOUS
<1> HIDE DEF at, len, k, n
<1>7. from \in 0..(SectorSize - 1) /\ pos \in 0..(len - 1) /\ pos <= Start(k)  BY <1>1, LoopPlace
<1> HIDE DEF from, pos
<1>8. n = IF SectorSize - from <= len - pos THEN SectorSize - from ELSE len - pos
  BY <1>1, <1>3, <1>7, MinOfTwo, Sizes
<1>9. Start(k) \in Nat /\ Start(k + 1) = Start(k) + SectorSize /\ Start(k) < len
  BY <1>1, StartStep, CountReach
<1>10. k + 1 < sector_count(len) => SectorSize <= len - pos
  <2>1. k + 1 < sector_count(len) => Start(k + 1) < len  BY <1>1, CountReach
  <2> QED  BY <2>1, <1>1, <1>7, <1>9, Sizes
<1>11. len % SectorSize = 0 => SectorSize <= len - pos
  <2> SUFFICES ASSUME len % SectorSize = 0  PROVE SectorSize <= len - pos  OBVIOUS
  <2> DEFINE q == len \div SectorSize
  <2>1. q \in Nat /\ len = Start(q) + (len % SectorSize)  BY <1>1, ByteInSector
  <2> HIDE DEF q
  <2>2. Start(q) = len  BY <2>1, <1>1, StartStep
  <2>3. k < q
    <3> SUFFICES ASSUME q <= k  PROVE FALSE  BY <1>1, <2>1
    <3>1. q < k => Start(q) + SectorSize <= Start(k)  BY <1>1, <2>1, StartMono
    <3> QED  BY <3>1, <1>1, <1>9, <2>1, <2>2, Sizes
  <2>4. Start(k) + SectorSize <= Start(q)  BY <1>1, <2>1, <2>3, StartMono
  <2> QED  BY <2>2, <2>4, <1>1, <1>7, <1>9, Sizes
<1>12. sector_count(len) \in Nat  BY <1>1, CountReach
<1>13. ~reads_first(r) => from = 0 /\ n = SectorSize
  <2> SUFFICES ASSUME ~reads_first(r)  PROVE from = 0 /\ n = SectorSize  OBVIOUS
  <2>1. from = 0  BY <1>4, <1>5
  <2>2. SectorSize <= len - pos  BY <1>1, <1>4, <1>10, <1>11, <1>12
  <2> QED  BY <2>1, <2>2, <1>8, Sizes
<1>14. n \in 1..(SectorSize - from) /\ pos + n <= len /\ (n = SectorSize - from \/ pos + n = len)
  BY <1>1, <1>7, <1>8, Sizes
<1>15. k + 1 < sector_count(len) => n = SectorSize - from
  <2> SUFFICES ASSUME k + 1 < sector_count(len)  PROVE n = SectorSize - from  OBVIOUS
  <2> QED  BY <1>1, <1>7, <1>8, <1>10, Sizes
<1> QED  BY <1>2, <1>6, <1>13, <1>14, <1>15 DEF at, len, k, from, n

Overwritten(p, r, s, p1) ==
    p1 = [p EXCEPT ![r.file[1]] = [p[r.file[1]] EXCEPT ![s] = new_sector(r, p[r.file[1]][s])]]

\* A step of a write puts its bytes at their places and leaves all others alone.
LEMMA SectorWritten ==
    ASSUME NEW p \in Platter, NEW r \in WriteReq, r.k < sector_count(r.len), r.pos = Done(r.at, r.k),
           NEW s \in Sector, s = (r.at \div SectorSize) + r.k,
           NEW p1, Overwritten(p, r, s, p1)
    PROVE  /\ p1 \in Platter
           /\ r.at + r.pos + sector_take(r) <= NBytes
           /\ \A d \in Drives, i \in 0..(NBytes - 1) :
                Flat(p1)[d][i] = IF d = r.file[1] /\ i \in (r.at + r.pos)..(r.at + r.pos + sector_take(r) - 1)
                                 THEN r.value ELSE Flat(p)[d][i]
<1> DEFINE at == r.at  from == From(r.at, r.k)  pos == r.pos  n == sector_take(r)  e == r.file[1]
           v == r.value  new == new_sector(r, p[e][s])
<1>1. at \in Nat /\ r.len \in Nat \ {0} /\ r.k \in Nat /\ pos \in Nat /\ e \in Drives /\ v \in Value
  BY DEF WriteReq
<1>2. /\ sector_from(r) = from /\ n \in 1..(SectorSize - from)
      /\ ~reads_first(r) => from = 0 /\ n = SectorSize
  BY TakeOf
<1>3. from \in 0..(SectorSize - 1) /\ Start(s) \in Nat /\ Start(s) + from = at + pos
  <2> HIDE DEF at, from, pos, n, e, v, new
  <2>1. r.at \in Nat  BY <1>1 DEF at
  <2>2. From(r.at, r.k) \in 0..(SectorSize - 1) /\ Start(s) \in Nat
        /\ Start(s) + From(r.at, r.k) = r.at + Done(r.at, r.k)
    BY <1>1, <2>1, LoopPlace
  <2> QED  BY <2>2, Zenon DEF at, from, pos
<1>4. s \in Nat /\ Start(s) + SectorSize <= NBytes  BY SectorOnDrive
<1>5. p1 = [p EXCEPT ![e] = [p[e] EXCEPT ![s] = new]]  BY DEF Overwritten
<1>6. new = [j \in 0..(SectorSize - 1) |-> IF j \in from..(from + n - 1) THEN v
                                           ELSE IF reads_first(r) THEN p[e][s][j] ELSE 0]
  BY <1>2 DEF new_sector
<1> DEFINE b == r.at + r.pos + sector_take(r) - 1
<1>7. b = at + pos + n - 1  OBVIOUS
<1>8. r.at + r.pos + sector_take(r) = at + pos + n  OBVIOUS
<1> HIDE DEF at, from, pos, n, e, v, new
<1>9. \A j \in 0..(SectorSize - 1) :
        new[j] = IF Start(s) + j \in (at + pos)..b THEN v ELSE p[e][s][j]
  <2> SUFFICES ASSUME NEW j \in 0..(SectorSize - 1)
               PROVE  new[j] = IF Start(s) + j \in (at + pos)..b THEN v ELSE p[e][s][j]
    OBVIOUS
  <2>1. new[j] = IF j \in from..(from + n - 1) THEN v
                 ELSE IF reads_first(r) THEN p[e][s][j] ELSE 0
    BY <1>6
  <2>2. j \in from..(from + n - 1) <=> Start(s) + j \in (at + pos)..b
    BY <1>1, <1>2, <1>3, <1>7, Sizes
  <2>3. reads_first(r) \/ j \in from..(from + n - 1)  BY <1>1, <1>2, <1>3, Sizes
  <2> QED  BY <2>1, <2>2, <2>3
<1> HIDE DEF b
<1>10. new \in [0..(SectorSize - 1) -> Value]
  <2>1. 0 \in Value  BY DiskAssumption DEF Value
  <2>2. \A j \in 0..(SectorSize - 1) : p[e][s][j] \in Value  BY <1>1, PlatterByte
  <2>3. reads_first(r) \in BOOLEAN  BY DEF reads_first
  <2> QED  BY <2>1, <2>2, <1>1, <1>6
<1>11. p1 \in Platter
  <2>1. [p EXCEPT ![e] = [p[e] EXCEPT ![s] = new]] \in Platter  BY <1>1, <1>10, SectorReplaced
  <2> QED  BY <2>1, <1>5, Zenon
<1>12. \A d \in Drives, t \in Sector : p1[d][t] = IF d = e /\ t = s THEN new ELSE p[d][t]
  BY <1>1, <1>5 DEF Platter
<1>13. at + pos + n <= NBytes  BY <1>1, <1>2, <1>3, <1>4, Sizes
<1>14. ASSUME NEW d \in Drives, NEW i \in 0..(NBytes - 1)
       PROVE  Flat(p1)[d][i] = IF d = e /\ i \in (at + pos)..b THEN v ELSE Flat(p)[d][i]
  <2> DEFINE t == i \div SectorSize  j == i % SectorSize
  <2>1. /\ Flat(p1)[d][i] = p1[d][t][j] /\ Flat(p)[d][i] = p[d][t][j]
        /\ t \in Sector /\ j \in 0..(SectorSize - 1)
    BY <1>11, <1>14, FlatByte
  <2>2. i \in Nat /\ t \in Nat /\ i = Start(t) + j  BY <1>14, Sizes, ByteInSector
  <2> HIDE DEF t, j
  <2>3. CASE d = e /\ t = s
    <3>1. p1[d][t][j] = new[j]  BY <1>12, <2>1, <2>3
    <3>2. new[j] = IF i \in (at + pos)..b THEN v ELSE p[e][s][j]  BY <1>9, <2>1, <2>2, <2>3
    <3> QED  BY <2>1, <2>3, <3>1, <3>2
  <2>4. CASE d = e /\ t # s
    <3>1. (t < s => Start(t) + SectorSize <= Start(s)) /\ (s < t => Start(s) + SectorSize <= Start(t))
      BY <1>4, <2>2, StartMono
    <3>2. Start(t) \in Nat  BY <2>2, StartStep
    <3>3. i \notin (at + pos)..b
      BY <1>1, <1>2, <1>3, <1>4, <1>7, <2>1, <2>2, <2>4, <3>1, <3>2, Sizes
    <3> QED  BY <1>12, <2>1, <2>4, <3>3
  <2>5. CASE d # e
    BY <1>12, <2>1, <2>5
  <2> QED  BY <2>3, <2>4, <2>5
<1> QED  BY <1>8, <1>11, <1>13, <1>14 DEF at, pos, n, e, v, b

\* Words are counted from even places: where the data are even, so is the count.
LEMMA EvenPlaces ==
    ASSUME NEW at \in Nat, at % 2 = 0, NEW k \in Nat
    PROVE  From(at, k) % 2 = 0
<1>1. \A q \in Nat : Start(q) % 2 = 0
  <2> SUFFICES ASSUME NEW q \in Nat  PROVE Start(q) % 2 = 0  OBVIOUS
  <2> DEFINE h == SectorSize \div 2
  <2>1. h \in Nat /\ SectorSize = 2 * h  BY DiskAssumption
  <2> HIDE DEF h
  <2>2. Start(q) = 2 * (h * q)  BY <2>1 DEF Start
  <2>3. h * q \in Nat  BY <2>1
  <2> DEFINE x == h * q
  <2> HIDE DEF x
  <2>4. Start(q) = 2 * x /\ x \in Nat  BY <2>2, <2>3 DEF x
  <2> QED  BY <2>4
<1>2. /\ at \div SectorSize \in Nat /\ at % SectorSize \in 0..(SectorSize - 1)
      /\ at = Start(at \div SectorSize) + (at % SectorSize)
  BY ByteInSector
<1> DEFINE q == at \div SectorSize  m == at % SectorSize
<1>3. Start(q) \in Nat /\ Start(q) % 2 = 0  BY <1>1, <1>2, StartStep
<1>4. m \in Nat /\ at = Start(q) + m  BY <1>2, Sizes
<1>5. From(at, k) = IF k = 0 THEN m ELSE 0  BY DEF From
<1> HIDE DEF q, m
<1> QED  BY <1>3, <1>4, <1>5

LEMMA WordsCounted ==
    ASSUME NEW r \in WriteReq, r.k < sector_count(r.len), r.pos = Done(r.at, r.k)
    PROVE  /\ 2 * words(sector_from(r), sector_take(r)) \in Nat
           /\ r.at % 2 = 0 /\ sector_take(r) = SectorSize - From(r.at, r.k) =>
                2 * words(sector_from(r), sector_take(r)) = sector_take(r)
<1> DEFINE f == From(r.at, r.k)  n == sector_take(r)
<1>1. r.at \in Nat /\ r.len \in Nat \ {0} /\ r.k \in Nat  BY DEF WriteReq
<1>2. sector_from(r) = f /\ n \in 1..(SectorSize - f)  BY TakeOf
<1>3. f \in 0..(SectorSize - 1)  BY <1>1, LoopPlace
<1>4. r.at % 2 = 0 => f % 2 = 0  BY <1>1, EvenPlaces
<1>5. words(f, n) = ((f + n - 1) \div 2) - (f \div 2) + 1  BY DEF words
<1>6. SectorSize % 2 = 0  BY DiskAssumption
<1> HIDE DEF f, n
<1>7. 2 * words(f, n) \in Nat  BY <1>2, <1>3, <1>5, Sizes
<1>8. f % 2 = 0 /\ n = SectorSize - f => 2 * words(f, n) = n  BY <1>2, <1>3, <1>5, <1>6, Sizes
<1> QED  BY <1>2, <1>4, <1>7, <1>8 DEF f, n

(***************************************************************************)
(* The inductive invariant                                                 *)
(***************************************************************************)

ReadReq ==
    [op : {"read"}, file : Drives \X (0..4), at : Nat, len : Nat \ {0}, k : Nat,
     got : Seq(Value), expect : Int]

\* What has been read are the bytes from `at' on; what has been written is there.
BytesFrom(p, d, at, g) ==
    \A i \in 1..Len(g) : (at + i) - 1 \in 0..(NBytes - 1) /\ g[i] = Flat(p)[d][(at + i) - 1]
Holds(p, d, from, to, v) == \A i \in from..(to - 1) : i \in 0..(NBytes - 1) /\ Flat(p)[d][i] = v

\* A read has the bytes of the sectors so far, a write has put those of its data.
ReadInv(p, r) ==
    /\ r \in ReadReq /\ InPlace(r.file, r.at, r.len) /\ r.k < sector_count(r.len)
    /\ Len(r.got) = Done(r.at, r.k) /\ BytesFrom(p, r.file[1], r.at, r.got)
WriteInv(p, r) ==
    /\ r \in WriteReq /\ InPlace(r.file, r.at, r.len) /\ r.k < sector_count(r.len)
    /\ r.pos = Done(r.at, r.k) /\ Holds(p, r.file[1], r.at, r.at + r.pos, r.value)
    /\ r.at % 2 = 0 => r.written = r.pos

DrivesInv ==
    /\ platter \in Platter /\ files \subseteq Drives \X (0..4) /\ counts \in [Drives -> {0, NSectors}]
    /\ panicked \in {"no", "assert", "device"} /\ writes \in 0..MaxWrites

RequestInv ==
    \/ req = Idle /\ CheckedWriteIsThere /\ CountIsHonest
    \/ ReadInv(platter, req) /\ result = None
    \/ WriteInv(platter, req) /\ result = None

DiskInv == DrivesInv /\ RequestInv

(***************************************************************************)
(* Requests begin                                                          *)
(***************************************************************************)

\* A file's range is checked before a request is made of it.
LEMMA RequestInPlace ==
    ASSUME AddressesFit, NEW f \in Drives \X (0..4), NEW offset \in 0..NBytes, NEW len \in 1..MaxLen,
           in_range(f, offset, len)
    PROVE  InPlace(f, partition_offset(f) + offset, len)
<1>1. f[1] \in Drives /\ f[2] \in 0..4  OBVIOUS
<1>2. offset \in Nat /\ len \in Nat \ {0} /\ len <= MaxLen /\ offset <= NBytes /\ MaxLen \in Nat
  BY Sizes, DiskAssumption
<1> DEFINE C == Byte * Byte * Byte
<1>3. C \in Nat
  <2>1. Nibble \in Nat /\ Byte = Nibble * Nibble  BY DiskAssumption
  <2>2. Byte \in Nat  BY <2>1
  <2> QED  BY <2>2
<1>4. NBytes + MaxLen <= Start(C) /\ Start(C) \in Nat  BY <1>3, StartStep DEF AddressesFit
<1> HIDE DEF C
<1>5. CASE f[2] = 0
  <2>1. partition_offset(f) = 0  BY <1>5 DEF partition_offset
  <2>2. partition_offset(f) + offset \in Nat /\ (partition_offset(f) + offset) + len <= Start(C)
    BY <2>1, <1>2, <1>4, Sizes
  <2> QED  BY <1>2, <1>5, <2>2 DEF InPlace, C
<1>6. CASE f[2] # 0
  <2> DEFINE part == Partitions[f[1]][f[2]]  a == part.first  c == part.count
  <2>1. a \in Nat /\ c \in Nat
    <3>1. f[2] \in 1..4  BY <1>1, <1>6
    <3>2. part \in [first : Nat, count : Nat]  BY <1>1, <3>1, DiskAssumption
    <3> QED  BY <3>2
  <2>2. a + c <= C
    <3>1. f[2] \in 1..4  BY <1>1, <1>6
    <3> QED  BY <1>1, <3>1 DEF AddressesFit, C
  <2>3. partition_offset(f) = Start(a) /\ partition_size(f) = Start(c)
    <3>1. partition_offset(f) = a * SectorSize /\ partition_size(f) = c * SectorSize
      BY <1>6 DEF partition_offset, partition_size
    <3> HIDE DEF a, c
    <3> QED  BY <3>1, <2>1, Sizes DEF Start
  <2>4. offset + len <= partition_size(f)  BY <1>6 DEF in_range
  <2>5. Start(a) <= partition_offset(f) + offset /\ (partition_offset(f) + offset) + len <= Start(a + c)
        /\ partition_offset(f) + offset \in Nat /\ Start(a + c) <= Start(C)
    <3> HIDE DEF a, c, part
    <3>1. Start(a + c) = Start(a) + Start(c) /\ Start(a) \in Nat /\ Start(c) \in Nat
      BY <2>1, StartSum, StartStep
    <3>2. a + c < C => Start(a + c) + SectorSize <= Start(C)
      BY <2>1, <1>3, StartMono
    <3>3. Start(a + c) <= Start(C)  BY <3>1, <3>2, <1>3, <1>4, <2>1, <2>2, Sizes
    <3> QED  BY <3>1, <3>3, <2>3, <2>4, <1>2
  <2>6. (partition_offset(f) + offset) + len <= Start(C)
    <3> HIDE DEF a, c, part
    <3>1. Start(a + c) \in Nat  BY <2>1, StartStep
    <3> QED  BY <3>1, <2>5, <1>2, <1>4
  <2> QED  BY <1>2, <2>5, <2>6 DEF InPlace, C
<1> QED  BY <1>5, <1>6

\* A request that begins has read and written nothing.
LEMMA FirstSector ==
    ASSUME NEW at \in Nat, NEW len \in Nat \ {0}
    PROVE  0 < sector_count(len) /\ Done(at, 0) = 0
<1>1. Start(0) = 0  BY StartSum
<1>2. 0 < sector_count(len) <=> Start(0) < len  BY CountReach
<1> QED  BY <1>1, <1>2 DEF Done

LEMMA FreshRead ==
    ASSUME NEW p, NEW file, NEW at, NEW len, InPlace(file, at, len), NEW expect \in Int
    PROVE  ReadInv(p, ReadOf(file, at, len, expect))
<1> DEFINE r == ReadOf(file, at, len, expect)
<1>1. file \in Drives \X (0..4) /\ at \in Nat /\ len \in Nat \ {0}  BY DEF InPlace
<1>2. /\ r = [op |-> "read", file |-> file, at |-> at, len |-> len, k |-> 0, got |-> <<>>, expect |-> expect]
      /\ r.file = file /\ r.at = at /\ r.len = len /\ r.k = 0 /\ r.got = <<>>
  BY DEF ReadOf
<1>3. r \in ReadReq
  <2>1. <<>> \in Seq(Value)  OBVIOUS
  <2> HIDE DEF r
  <2> QED  BY <1>1, <1>2, <2>1 DEF ReadReq
<1> HIDE DEF r
<1>4. 0 < sector_count(len) /\ Done(at, 0) = 0  BY <1>1, FirstSector
<1>5. BytesFrom(p, r.file[1], r.at, r.got)  BY <1>2 DEF BytesFrom
<1>6. InPlace(r.file, r.at, r.len) /\ r.k < sector_count(r.len) /\ Len(r.got) = Done(r.at, r.k)
  BY <1>2, <1>4
<1>7. ReadInv(p, r)  BY <1>3, <1>5, <1>6 DEF ReadInv
<1> QED  BY <1>7 DEF r

LEMMA FreshWrite ==
    ASSUME NEW p, NEW file, NEW at, NEW len, InPlace(file, at, len), NEW value \in Value,
           NEW check \in BOOLEAN,
           NEW r, r = [op |-> "write", file |-> file, at |-> at, len |-> len, k |-> 0,
                       pos |-> 0, written |-> 0, value |-> value, check |-> check]
    PROVE  WriteInv(p, r)
<1>1. file \in Drives \X (0..4) /\ at \in Nat /\ len \in Nat \ {0}  BY DEF InPlace
<1>2. r.file = file /\ r.at = at /\ r.len = len /\ r.k = 0 /\ r.pos = 0 /\ r.written = 0
  OBVIOUS
<1>3. r \in WriteReq
  BY <1>1, Zenon DEF WriteReq
<1>4. 0 < sector_count(len) /\ Done(at, 0) = 0  BY <1>1, FirstSector
<1>5. Holds(p, r.file[1], r.at, r.at + r.pos, r.value)  BY <1>1, <1>2 DEF Holds
<1>6. InPlace(r.file, r.at, r.len) /\ r.k < sector_count(r.len) /\ r.pos = Done(r.at, r.k) /\ r.written = r.pos
  BY <1>2, <1>4
<1> QED  BY <1>3, <1>5, <1>6 DEF WriteInv

(***************************************************************************)
(* A sector is read                                                        *)
(***************************************************************************)

LEMMA Joined ==
    ASSUME NEW S, NEW g \in Seq(S), NEW t \in Seq(S)
    PROVE  /\ g \o t \in Seq(S) /\ Len(g \o t) = Len(g) + Len(t) /\ Len(g) \in Nat
           /\ \A i \in 1..Len(g) : (g \o t)[i] = g[i]
           /\ \A i \in 1..Len(t) : (g \o t)[Len(g) + i] = t[i]
OBVIOUS

LEMMA FunctionIsSeq ==
    ASSUME NEW S, NEW n \in Nat, NEW t \in [1..n -> S]
    PROVE  t \in Seq(S) /\ Len(t) = n
OBVIOUS

\* A part of a sector, as a sequence: its bytes are those of the drive from a place on.
LEMMA PartOfSector ==
    ASSUME NEW p \in Platter, NEW d \in Drives, NEW s \in Sector, NEW from \in 0..(SectorSize - 1),
           NEW n, n = SectorSize - from,
           NEW t, t = [i \in 1..n |-> p[d][s][from + i - 1]]
    PROVE  /\ t \in Seq(Value) /\ Len(t) = n
           /\ BytesFrom(p, d, Start(s) + from, t)
<1>1. n \in Nat  BY Sizes
<1>2. s \in Nat /\ Start(s) \in Nat /\ Start(s) + SectorSize <= NBytes  BY SectorOnDrive, StartStep
<1>3. \A i \in 1..n : (from + i) - 1 \in 0..(SectorSize - 1) /\ from + (i - 1) = (from + i) - 1
  BY Sizes
<1>4. \A i \in 1..n : p[d][s][(from + i) - 1] \in Value  BY <1>3, PlatterByte
<1>5. \A i \in 1..n : t[i] = p[d][s][(from + i) - 1]  BY <1>3
<1>6. t \in [1..n -> Value]
  <2>1. t = [i \in 1..n |-> t[i]]  OBVIOUS
  <2> QED  BY <1>4, <1>5, <2>1
<1>7. t \in Seq(Value) /\ Len(t) = n  BY <1>1, <1>6, FunctionIsSeq
<1>8. ASSUME NEW i \in 1..n
      PROVE  ((Start(s) + from) + i) - 1 \in 0..(NBytes - 1)
             /\ t[i] = Flat(p)[d][((Start(s) + from) + i) - 1]
  <2> DEFINE b == ((Start(s) + from) + i) - 1  j == (from + i) - 1
  <2>1. j \in 0..(SectorSize - 1)  BY <1>3
  <2>2. /\ b = Start(s) + j /\ b \in Nat /\ b \in 0..(NBytes - 1)
        /\ Start(s) <= b /\ b < Start(s) + SectorSize /\ b - Start(s) = j
    BY <1>1, <1>2, <2>1, Sizes
  <2>3. t[i] = p[d][s][j]  BY <1>5
  <2> HIDE DEF b, j
  <2>4. b \div SectorSize = s /\ b % SectorSize = b - Start(s)  BY <1>2, <2>2, SectorOfByte
  <2>5. Flat(p)[d][b] = p[d][s][j]  BY <2>2, <2>4, FlatByte
  <2> QED  BY <2>2, <2>3, <2>5 DEF b
<1> QED  BY <1>7, <1>8 DEF BytesFrom

\* Bytes that follow each other can be put together.
LEMMA BytesJoined ==
    ASSUME NEW p, NEW d, NEW at \in Nat, NEW g \in Seq(Value), NEW t \in Seq(Value),
           BytesFrom(p, d, at, g), BytesFrom(p, d, at + Len(g), t)
    PROVE  BytesFrom(p, d, at, g \o t)
<1> DEFINE a == Len(g)  c == Len(t)
<1>1. /\ Len(g \o t) = a + c /\ a \in Nat /\ c \in Nat
      /\ \A i \in 1..a : (g \o t)[i] = g[i]
      /\ \A i \in 1..c : (g \o t)[a + i] = t[i]
  BY Joined
<1>2. /\ \A i \in 1..a : (at + i) - 1 \in 0..(NBytes - 1) /\ g[i] = Flat(p)[d][(at + i) - 1]
      /\ \A i \in 1..c : ((at + a) + i) - 1 \in 0..(NBytes - 1) /\ t[i] = Flat(p)[d][((at + a) + i) - 1]
  BY DEF BytesFrom
<1> HIDE DEF a, c
<1>3. ASSUME NEW i \in 1..(a + c)
      PROVE  (at + i) - 1 \in 0..(NBytes - 1) /\ (g \o t)[i] = Flat(p)[d][(at + i) - 1]
  <2>1. CASE i \in 1..a
    BY <1>1, <1>2, <2>1
  <2>2. CASE i \notin 1..a
    <3> DEFINE j == i - a
    <3>1. j \in 1..c /\ i = a + j /\ ((at + a) + j) - 1 = (at + i) - 1  BY <1>1, <2>2
    <3> HIDE DEF j
    <3>2. (g \o t)[a + j] = t[j]  BY <1>1, <3>1
    <3>3. ((at + a) + j) - 1 \in 0..(NBytes - 1) /\ t[j] = Flat(p)[d][((at + a) + j) - 1]  BY <1>2, <3>1
    <3> QED  BY <3>1, <3>2, <3>3
  <2> QED  BY <2>1, <2>2
<1> QED  BY <1>1, <1>3 DEF BytesFrom

\* What a step of the loop adds to what has been read are the bytes that follow.
LEMMA SectorRead ==
    ASSUME platter \in Platter, NEW r, ReadInv(platter, r),
           NEW s \in Sector, s = (r.at \div SectorSize) + r.k, addressed(s) = s
    PROVE  /\ sector_read(r) \in Seq(Value) /\ Len(sector_read(r)) = Done(r.at, r.k + 1)
           /\ BytesFrom(platter, r.file[1], r.at, sector_read(r))
           /\ r.at + Len(sector_read(r)) <= NBytes
<1> DEFINE at == r.at  d == r.file[1]  from == From(r.at, r.k)  g == r.got  n == SectorSize - from
           t == [i \in 1..n |-> platter[d][s][from + i - 1]]  L == Done(r.at, r.k)
<1>1. /\ at \in Nat /\ r.len \in Nat \ {0} /\ r.k \in Nat /\ d \in Drives /\ g \in Seq(Value)
      /\ r.k < sector_count(r.len)
  BY DEF ReadInv, ReadReq
<1>2. Len(g) = L /\ BytesFrom(platter, d, at, g)  BY DEF ReadInv
<1>3. /\ s \in Nat /\ from \in 0..(SectorSize - 1) /\ L \in Nat
      /\ Start(s) \in Nat /\ Start(s) + from = at + L
      /\ Done(r.at, r.k + 1) = L + n
  <2>1. r.at \in Nat /\ r.len \in Nat \ {0} /\ r.k \in Nat /\ r.k < sector_count(r.len)  BY <1>1
  <2> HIDE DEF at, from, g, d, t, L, n
  <2>2. /\ s \in Nat /\ From(r.at, r.k) \in 0..(SectorSize - 1) /\ Done(r.at, r.k) \in 0..(r.len - 1)
        /\ Start(s) \in Nat /\ Start(s) + From(r.at, r.k) = r.at + Done(r.at, r.k)
        /\ Done(r.at, r.k + 1) = Done(r.at, r.k) + (SectorSize - From(r.at, r.k))
    BY <2>1, LoopPlace, ZenonT(40)
  <2>3. Done(r.at, r.k) \in Nat  BY <2>1, <2>2
  <2> QED  BY <2>2, <2>3, Zenon DEF at, from, L, n
<1>4. sector_read(r) = g \o t  BY DEF sector_read, From
<1>5. Start(s) + SectorSize <= NBytes  BY SectorOnDrive
<1> HIDE DEF at, d, from, g, L
<1>6. t \in Seq(Value) /\ Len(t) = n /\ BytesFrom(platter, d, Start(s) + from, t)
  BY <1>1, <1>3, PartOfSector
<1> HIDE DEF t
<1>7. BytesFrom(platter, d, at + Len(g), t)  BY <1>2, <1>3, <1>6
<1>8. BytesFrom(platter, d, at, g \o t)  BY <1>1, <1>2, <1>6, <1>7, BytesJoined
<1>9. g \o t \in Seq(Value) /\ Len(g \o t) = L + n
  <2>1. g \o t \in Seq(Value) /\ Len(g \o t) = Len(g) + Len(t)  BY <1>1, <1>6, Joined
  <2> QED  BY <2>1, <1>2, <1>6
<1>10. at + (L + n) <= NBytes  BY <1>1, <1>3, <1>5, Sizes
<1> QED  BY <1>3, <1>4, <1>8, <1>9, <1>10 DEF at, d

(***************************************************************************)
(* Steps                                                                   *)
(***************************************************************************)

LEMMA InitDisk == Init => DiskInv
<1> SUFFICES ASSUME Init  PROVE DiskInv  OBVIOUS
<1>1. 1 \in Value /\ 0 \in 0..MaxWrites  BY DiskAssumption DEF Value
<1>2. platter \in Platter  BY <1>1 DEF Init, Platter
<1>3. DrivesInv  BY <1>1, <1>2 DEF Init, DrivesInv
<1>4. RequestInv  BY DEF Init, RequestInv, CheckedWriteIsThere, CountIsHonest, None
<1> QED  BY <1>3, <1>4 DEF DiskInv

\* The request tells which of the three cases a state is in.
LEMMA WhichRequest ==
    ASSUME DiskInv
    PROVE  /\ req.op = "read" => ReadInv(platter, req) /\ result = None
           /\ req.op = "write" => WriteInv(platter, req) /\ result = None
           /\ req = Idle => CheckedWriteIsThere /\ CountIsHonest
           /\ req = Idle \/ req.op = "read" \/ req.op = "write"
<1>1. Idle.op = "idle"  BY DEF Idle
<1>2. \A p, r : ReadInv(p, r) => r.op = "read"  BY DEF ReadInv, ReadReq
<1>3. \A p, r : WriteInv(p, r) => r.op = "write"  BY DEF WriteInv, WriteReq
<1> QED  BY <1>1, <1>2, <1>3 DEF DiskInv, RequestInv

\* A step of a write puts the next bytes, in the sector that was meant.
LEMMA WriteSectorEffect ==
    ASSUME AddressesFit, DiskInv, WriteSector, NEW n, n = sector_take(req)
    PROVE  /\ WriteInv(platter, req) /\ result = None /\ platter' \in Platter
           /\ n \in Nat \ {0} /\ req.pos + n <= req.len /\ (req.at + req.pos) + n <= NBytes
           /\ \A d \in Drives, i \in 0..(NBytes - 1) :
                Flat(platter')[d][i] = IF d = req.file[1] /\ i \in (req.at + req.pos)..((req.at + req.pos + n) - 1)
                                       THEN req.value ELSE Flat(platter)[d][i]
           /\ \A d \in Drives, t \in Sector : platter'[d][t] # platter[d][t] =>
                /\ d = req.file[1]
                /\ req.file[2] # 0 => LET part == Partitions[d][req.file[2]]
                                      IN  t \in part.first..(part.first + part.count - 1)
<1> DEFINE s == (req.at \div SectorSize) + req.k  e == req.file[1]
<1>1. WriteInv(platter, req) /\ result = None /\ platter \in Platter
  BY WhichRequest DEF WriteSector, DiskInv, DrivesInv
<1>2. req \in WriteReq /\ InPlace(req.file, req.at, req.len) /\ req.k < sector_count(req.len)
      /\ req.pos = Done(req.at, req.k)
  BY <1>1 DEF WriteInv
<1>3. req.at \in Nat /\ req.len \in Nat \ {0} /\ req.k \in Nat /\ req.pos \in Nat /\ e \in Drives
  BY <1>2 DEF WriteReq
<1>4. Present(s)  BY DEF WriteSector
<1>5. platter' = [platter EXCEPT ![e][addressed(s)] = new_sector(req, @)]  BY DEF WriteSector
<1> HIDE DEF s
<1>6. /\ s \in Sector /\ addressed(s) = s
      /\ req.file[2] # 0 => LET part == Partitions[e][req.file[2]]
                            IN  s \in part.first..(part.first + part.count - 1)
  BY <1>2, <1>3, <1>4, SectorMeant DEF s
<1>7. platter' = [platter EXCEPT ![e][s] = new_sector(req, @)]  BY <1>5, <1>6
<1>8. n \in 1..(SectorSize - From(req.at, req.k)) /\ req.pos + n <= req.len
  BY <1>2, TakeOf
<1>9. n \in Nat \ {0}
  <2>1. From(req.at, req.k) \in 0..(SectorSize - 1)  BY <1>2, <1>3, LoopPlace
  <2> QED  BY <2>1, <1>8, Sizes
<1>10. /\ platter' \in Platter
       /\ req.at + req.pos + n <= NBytes
       /\ \A d \in Drives, i \in 0..(NBytes - 1) :
            Flat(platter')[d][i] = IF d = e /\ i \in (req.at + req.pos)..(req.at + req.pos + n - 1)
                                   THEN req.value ELSE Flat(platter)[d][i]
  <2>1. s = (req.at \div SectorSize) + req.k  BY DEF s
  <2>2. /\ platter' \in Platter
        /\ req.at + req.pos + sector_take(req) <= NBytes
        /\ \A d \in Drives, i \in 0..(NBytes - 1) :
             Flat(platter')[d][i] = IF d = req.file[1] /\ i \in (req.at + req.pos)..(req.at + req.pos + sector_take(req) - 1)
                                    THEN req.value ELSE Flat(platter)[d][i]
    <3> DEFINE p1 == platter'
    <3>1. Overwritten(platter, req, s, p1)  BY <1>7 DEF Overwritten
    <3> HIDE DEF p1
    <3>2. /\ p1 \in Platter
          /\ req.at + req.pos + sector_take(req) <= NBytes
          /\ \A d \in Drives, i \in 0..(NBytes - 1) :
               Flat(p1)[d][i] = IF d = req.file[1] /\ i \in (req.at + req.pos)..(req.at + req.pos + sector_take(req) - 1)
                                THEN req.value ELSE Flat(platter)[d][i]
      BY <3>1, <2>1, <1>1, <1>2, <1>6, SectorWritten
    <3> QED  BY <3>2 DEF p1
  <2> QED  BY <2>2
<1>11. \A d \in Drives, t \in Sector : platter'[d][t] # platter[d][t] => d = e /\ t = s
  <2> DEFINE new == new_sector(req, platter[e][s])
  <2>1. platter' = [platter EXCEPT ![e] = [platter[e] EXCEPT ![s] = new]]  BY <1>7
  <2> HIDE DEF new
  <2> QED  BY <2>1, <1>1, <1>3, <1>6 DEF Platter
<1>12. req.at + req.pos + n - 1 = (req.at + req.pos + n) - 1  BY <1>3, <1>9
<1> QED  BY <1>1, <1>6, <1>8, <1>9, <1>10, <1>11, <1>12

\* The end of a write, as the caller sees it.
LEMMA WriteSectorKeeps ==
    ASSUME AddressesFit, DiskInv, WriteSector  PROVE DiskInv'
<1> DEFINE n == sector_take(req)  w == req.written + 2 * words(sector_from(req), n)
           at == req.at  pos == req.pos  v == req.value  d == req.file[1]  F == Flat(platter')
<1>1. /\ WriteInv(platter, req) /\ result = None /\ platter' \in Platter
      /\ n \in Nat \ {0} /\ pos + n <= req.len /\ (at + pos) + n <= NBytes
      /\ \A e \in Drives, i \in 0..(NBytes - 1) :
           F[e][i] = IF e = d /\ i \in (at + pos)..((at + pos + n) - 1) THEN v ELSE Flat(platter)[e][i]
  BY WriteSectorEffect
<1>2. /\ req \in WriteReq /\ InPlace(req.file, at, req.len) /\ req.k < sector_count(req.len)
      /\ pos = Done(at, req.k) /\ Holds(platter, d, at, at + pos, v)
      /\ at % 2 = 0 => req.written = pos
  BY <1>1 DEF WriteInv
<1>3. /\ at \in Nat /\ req.len \in Nat \ {0} /\ req.k \in Nat /\ pos \in Nat /\ req.written \in Nat
      /\ v \in Value /\ d \in Drives
  BY <1>2 DEF WriteReq
<1>4. /\ 2 * words(sector_from(req), n) \in Nat
      /\ at % 2 = 0 /\ n = SectorSize - From(at, req.k) => 2 * words(sector_from(req), n) = n
  BY <1>2, WordsCounted
<1>5. /\ n = SectorSize - From(at, req.k) \/ pos + n = req.len
      /\ req.k + 1 < sector_count(req.len) => n = SectorSize - From(at, req.k)
  BY <1>2, TakeOf
<1>6. Done(at, req.k + 1) = Done(at, req.k) + (SectorSize - From(at, req.k))
  BY <1>2, <1>3, LoopPlace
<1>7. /\ files' = files /\ counts' = counts /\ panicked' = panicked /\ writes' = writes
      /\ IF req.k + 1 < sector_count(req.len)
         THEN req' = [req EXCEPT !.k = @ + 1, !.pos = @ + n, !.written = w] /\ result' = result
         ELSE after_write(req, w)
  BY DEF WriteSector
<1>8. w \in Nat /\ (at % 2 = 0 => w = pos + 2 * words(sector_from(req), n))  BY <1>2, <1>3, <1>4
<1>9. DrivesInv'  BY <1>1, <1>7 DEF DiskInv, DrivesInv
<1> DEFINE m == 2 * words(sector_from(req), n)  f == From(at, req.k)
<1>10. m \in Nat /\ (at % 2 = 0 /\ n = SectorSize - f => m = n) /\ (at % 2 = 0 => w = pos + m)
  BY <1>4, <1>8
<1> HIDE DEF n, w, F, m, f
<1>11. Holds(platter', d, at, at + pos + n, v)
  <2> SUFFICES ASSUME NEW i \in at..((at + pos + n) - 1)
               PROVE  i \in 0..(NBytes - 1) /\ F[d][i] = v
    <3>1. at + pos + n - 1 = (at + pos + n) - 1  BY <1>1, <1>3
    <3> QED  BY <3>1 DEF Holds, F
  <2> HIDE DEF at, pos, d, v
  <2>1. i \in 0..(NBytes - 1)  BY <1>1, <1>3, Sizes
  <2>2. CASE i \in (at + pos)..((at + pos + n) - 1)
    BY <1>1, <1>3, <2>1, <2>2
  <2>3. CASE i \notin (at + pos)..((at + pos + n) - 1)
    <3>1. i \in at..((at + pos) - 1)  BY <1>1, <1>3, <2>3
    <3>2. (at + pos) - 1 = at + pos - 1  BY <1>3
    <3>3. Flat(platter)[d][i] = v  BY <1>2, <3>1, <3>2 DEF Holds
    <3> QED  BY <1>1, <1>3, <2>1, <2>3, <3>3
  <2> QED  BY <2>1, <2>2, <2>3
<1>12. CASE req.k + 1 < sector_count(req.len)
  <2>1. req' = [req EXCEPT !.k = @ + 1, !.pos = @ + n, !.written = w] /\ result' = None
    BY <1>1, <1>7, <1>12
  <2>2. n = SectorSize - f  BY <1>5, <1>12 DEF f
  <2>3. pos + n = Done(at, req.k + 1)  BY <1>2, <1>6, <2>2 DEF f
  <2>4. at % 2 = 0 => w = pos + n  BY <1>10, <2>2
  <2>5. req' \in WriteReq
    <3>1. req.k + 1 \in Nat /\ pos + n \in Nat /\ w \in Nat  BY <1>1, <1>3, <1>8
    <3> QED  BY <1>2, <2>1, <3>1 DEF WriteReq
  <2>6. /\ req'.file = req.file /\ req'.at = at /\ req'.len = req.len /\ req'.value = v
        /\ req'.k = req.k + 1 /\ req'.pos = pos + n /\ req'.written = w
    BY <1>2, <2>1 DEF WriteReq
  <2>7. at + (pos + n) = at + pos + n  BY <1>1, <1>3
  <2>8. /\ InPlace(req'.file, req'.at, req'.len) /\ req'.k < sector_count(req'.len)
        /\ req'.pos = Done(req'.at, req'.k) /\ Holds(platter', req'.file[1], req'.at, req'.at + req'.pos, req'.value)
        /\ req'.at % 2 = 0 => req'.written = req'.pos
    BY <1>2, <1>11, <1>12, <2>3, <2>4, <2>6, <2>7
  <2>9. WriteInv(platter', req')  BY <2>5, <2>8 DEF WriteInv
  <2> QED  BY <1>9, <2>1, <2>9 DEF DiskInv, RequestInv
<1>13. CASE ~(req.k + 1 < sector_count(req.len))
  <2>1. after_write(req, w)  BY <1>7, <1>13
  <2>2. CASE req.check
    <3>1. req' = ReadOf(req.file, req.at, req.len, req.value) /\ result' = None
      BY <2>1, <2>2 DEF after_write
    <3>2. req.value \in Int  BY <1>3 DEF Value
    <3>3. ReadInv(platter', ReadOf(req.file, req.at, req.len, req.value))  BY <1>2, <3>2, FreshRead
    <3> QED  BY <1>9, <3>1, <3>3 DEF DiskInv, RequestInv
  <2>3. CASE ~req.check
    <3>1. /\ req' = Idle
          /\ result' = [kind |-> "count", file |-> req.file, at |-> req.at, len |-> req.len,
                        value |-> req.value, count |-> w]
      BY <2>1, <2>3 DEF after_write
    <3>2. CheckedWriteIsThere'  BY <3>1 DEF CheckedWriteIsThere
    <3>3. at % 2 = 0 /\ w >= req.len => pos + n = req.len
      <4> SUFFICES ASSUME at % 2 = 0, w >= req.len, pos + n # req.len  PROVE FALSE  OBVIOUS
      <4>1. n = SectorSize - f  BY <1>5 DEF f
      <4>2. w = pos + n  BY <1>10, <4>1
      <4> QED  BY <4>2, <1>1, <1>3
    <3>4. CountIsHonest'
      <4>1. /\ result'.kind = "count" /\ result'.at = at /\ result'.len = req.len /\ result'.count = w
            /\ result'.file[1] = d /\ result'.value = v
        BY <3>1
      <4> SUFFICES ASSUME at % 2 = 0, w >= req.len, NEW i \in at..(at + req.len - 1)
                   PROVE  Flat(platter')[d][i] = v
        BY <4>1 DEF CountIsHonest
      <4>2. at + pos + n = at + req.len  BY <1>1, <1>3, <3>3
      <4>3. Holds(platter', d, at, at + req.len, v)  BY <4>2, <1>11
      <4>4. at + req.len - 1 = (at + req.len) - 1  BY <1>3
      <4>5. i \in at..((at + req.len) - 1)  BY <4>4
      <4> HIDE DEF at, d, v
      <4> QED  BY <4>3, <4>5 DEF Holds
    <3> QED  BY <1>9, <3>1, <3>2, <3>4 DEF DiskInv, RequestInv
  <2> QED  BY <2>2, <2>3
<1> QED  BY <1>12, <1>13

LEMMA Prefix ==
    ASSUME NEW S, NEW g \in Seq(S), NEW m \in 0..Len(g)
    PROVE  /\ SubSeq(g, 1, m) \in Seq(S) /\ Len(SubSeq(g, 1, m)) = m /\ DOMAIN SubSeq(g, 1, m) = 1..m
           /\ \A i \in 1..m : SubSeq(g, 1, m)[i] = g[i]
OBVIOUS

\* A read has the bytes that follow; if it has as many as were asked for, they are those.
ReadData(r) == SubSeq(sector_read(r), 1, Min({Len(sector_read(r)), r.len}))
ReadMore(r) == r.k + 1 < sector_count(r.len) /\ Len(sector_read(r)) < r.len

LEMMA ReadSectorEffect ==
    ASSUME AddressesFit, DiskInv, ReadSector
    PROVE  /\ ReadInv(platter, req) /\ result = None /\ platter \in Platter
           /\ sector_read(req) \in Seq(Value) /\ Len(sector_read(req)) = Done(req.at, req.k + 1)
           /\ BytesFrom(platter, req.file[1], req.at, sector_read(req))
           /\ Len(ReadData(req)) = req.len =>
                /\ req.at + req.len <= NBytes /\ ReadData(req) \in [1..req.len -> Value]
                /\ \A i \in 1..req.len : /\ (req.at + i) - 1 \in 0..(NBytes - 1)
                                         /\ ReadData(req)[i] = Flat(platter)[req.file[1]][(req.at + i) - 1]
<1> DEFINE s == (req.at \div SectorSize) + req.k  g == sector_read(req)  data == ReadData(req)
           at == req.at  len == req.len  d == req.file[1]
<1>1. ReadInv(platter, req) /\ result = None /\ platter \in Platter
  BY WhichRequest DEF ReadSector, DiskInv, DrivesInv
<1>2. InPlace(req.file, at, len) /\ req.k < sector_count(len) /\ req.k \in Nat /\ at \in Nat /\ len \in Nat \ {0}
  BY <1>1 DEF ReadInv, ReadReq
<1>3. Present(s)  BY DEF ReadSector
<1> HIDE DEF s
<1>4. s = (req.at \div SectorSize) + req.k  BY DEF s
<1>5. s \in Sector /\ addressed(s) = s
  BY <1>2, <1>3, <1>4, SectorMeant
<1>6. /\ g \in Seq(Value) /\ Len(g) = Done(at, req.k + 1) /\ BytesFrom(platter, d, at, g)
      /\ at + Len(g) <= NBytes
  BY <1>1, <1>4, <1>5, SectorRead
<1>7. data = SubSeq(g, 1, Min({Len(g), len}))  BY DEF ReadData
<1> HIDE DEF g, data, at, len, d
<1> DEFINE c == Len(g)  m == Min({c, len})
<1>8. c \in Nat  BY <1>6
<1> HIDE DEF c
<1>9. m = (IF c <= len THEN c ELSE len) /\ m \in 0..c
  <2>1. m = IF c <= len THEN c ELSE len  BY <1>2, <1>8, MinOfTwo
  <2> HIDE DEF m
  <2> QED  BY <2>1, <1>2, <1>8
<1> HIDE DEF m
<1>10. /\ data \in Seq(Value) /\ Len(data) = m /\ DOMAIN data = 1..m
       /\ \A i \in 1..m : data[i] = g[i]
  <2>1. m \in 0..Len(g) /\ data = SubSeq(g, 1, m)  BY <1>7, <1>9 DEF c, m
  <2> QED  BY <2>1, <1>6, Prefix
<1>11. \A i \in 1..c : (at + i) - 1 \in 0..(NBytes - 1) /\ g[i] = Flat(platter)[d][(at + i) - 1]
  BY <1>6 DEF BytesFrom, c
<1>12. ASSUME Len(data) = len
       PROVE  /\ at + len <= NBytes /\ data \in [1..len -> Value]
              /\ \A i \in 1..len : (at + i) - 1 \in 0..(NBytes - 1) /\ data[i] = Flat(platter)[d][(at + i) - 1]
  <2>1. m = len /\ len <= c  BY <1>2, <1>8, <1>9, <1>10, <1>12
  <2>2. at + c <= NBytes  BY <1>6 DEF c
  <2>3. at + len <= NBytes  BY <2>1, <2>2, <1>2, <1>8, Sizes
  <2>4. \A i \in 1..len : i \in 1..c /\ data[i] = g[i]  BY <1>2, <1>8, <1>10, <2>1
  <2>5. \A i \in 1..len : (at + i) - 1 \in 0..(NBytes - 1) /\ data[i] = Flat(platter)[d][(at + i) - 1]
    BY <1>11, <2>4
  <2>6. data \in [1..len -> Value]  BY <1>10, <2>1
  <2> QED  BY <2>3, <2>5, <2>6
<1> QED  BY <1>1, <1>6, <1>12 DEF g, data, at, len, d

LEMMA ReadSectorKeeps ==
    ASSUME AddressesFit, DiskInv, ReadSector  PROVE DiskInv'
<1> DEFINE g == sector_read(req)  data == ReadData(req)
           at == req.at  len == req.len  d == req.file[1]
<1>1. /\ ReadInv(platter, req) /\ result = None
      /\ g \in Seq(Value) /\ Len(g) = Done(at, req.k + 1) /\ BytesFrom(platter, d, at, g)
      /\ Len(data) = len => \A i \in 1..len : data[i] = Flat(platter)[d][(at + i) - 1]
      /\ Len(data) = len => DOMAIN data = 1..len
  BY ReadSectorEffect
<1>2. /\ req \in ReadReq /\ InPlace(req.file, at, len) /\ at \in Nat /\ len \in Nat \ {0} /\ req.k \in Nat
  BY <1>1 DEF ReadInv, ReadReq
<1>3. platter' = platter /\ files' = files /\ counts' = counts /\ writes' = writes  BY DEF ReadSector
<1> DEFINE same == \A i \in DOMAIN data : data[i] = req.expect
<1>4. \/ /\ ReadMore(req)
         /\ req' = [req EXCEPT !.k = @ + 1, !.got = g]
         /\ result' = result /\ panicked' = panicked
      \/ panicked' = "assert" /\ req' = req /\ result' = result
      \/ /\ Len(data) = len
         /\ req' = Idle
         /\ result' = IF req.expect = -1
                      THEN [kind |-> "data", drive |-> d, offset |-> at, len |-> len, data |-> data]
                      ELSE [kind |-> IF same THEN "written" ELSE "none", file |-> req.file, at |-> at,
                            len |-> len, value |-> req.expect]
         /\ panicked' = panicked
  BY DEF ReadSector, ReadData, ReadMore
<1> HIDE DEF g, data
<1>5. CASE ReadMore(req) /\ req' = [req EXCEPT !.k = @ + 1, !.got = g] /\ result' = result /\ panicked' = panicked
  <2>1. req.k + 1 < sector_count(len)  BY <1>5 DEF ReadMore
  <2>2. req' \in ReadReq
    <3>1. req.k + 1 \in Nat  BY <1>2
    <3> QED  BY <1>1, <1>2, <1>5, <3>1 DEF ReadReq
  <2>3. req'.file = req.file /\ req'.at = at /\ req'.len = len /\ req'.k = req.k + 1 /\ req'.got = g
    BY <1>2, <1>5 DEF ReadReq
  <2>4. /\ InPlace(req'.file, req'.at, req'.len) /\ req'.k < sector_count(req'.len)
        /\ Len(req'.got) = Done(req'.at, req'.k) /\ BytesFrom(platter', req'.file[1], req'.at, req'.got)
    BY <1>1, <1>2, <1>3, <2>1, <2>3
  <2>5. ReadInv(platter', req')  BY <2>2, <2>4 DEF ReadInv
  <2>6. DrivesInv'  BY <1>3, <1>5 DEF DiskInv, DrivesInv
  <2> QED  BY <1>1, <1>5, <2>5, <2>6 DEF DiskInv, RequestInv
<1>6. CASE panicked' = "assert" /\ req' = req /\ result' = result
  <2>1. DrivesInv'  BY <1>3, <1>6 DEF DiskInv, DrivesInv
  <2> QED  BY <1>1, <1>3, <1>6, <2>1 DEF DiskInv, RequestInv
<1>7. CASE /\ Len(data) = len /\ req' = Idle /\ panicked' = panicked
           /\ result' = IF req.expect = -1
                        THEN [kind |-> "data", drive |-> d, offset |-> at, len |-> len, data |-> data]
                        ELSE [kind |-> IF same THEN "written" ELSE "none", file |-> req.file, at |-> at,
                              len |-> len, value |-> req.expect]
  <2>1. DrivesInv'  BY <1>3, <1>7 DEF DiskInv, DrivesInv
  <2>2. result'.kind # "count"  BY <1>7
  <2>3. CountIsHonest'  BY <2>2 DEF CountIsHonest
  <2>4. CheckedWriteIsThere'
    <3> SUFFICES ASSUME result'.kind = "written"
                 PROVE  \A i \in result'.at..(result'.at + result'.len - 1) :
                          Flat(platter')[result'.file[1]][i] = result'.value
      BY DEF CheckedWriteIsThere
    <3>1. same /\ result'.file = req.file /\ result'.at = at /\ result'.len = len /\ result'.value = req.expect
      <4> HIDE DEF same
      <4> QED  BY <1>7
    <3>2. ASSUME NEW i \in at..(at + len - 1)  PROVE Flat(platter)[d][i] = req.expect
      <4> DEFINE j == (i - at) + 1
      <4>1. j \in 1..len /\ (at + j) - 1 = i  BY <1>2
      <4> HIDE DEF j
      <4>2. data[j] = Flat(platter)[d][(at + j) - 1]  BY <1>1, <1>7, <4>1
      <4>3. data[j] = req.expect  BY <1>1, <1>7, <3>1, <4>1
      <4> QED  BY <4>1, <4>2, <4>3
    <3> QED  BY <1>3, <3>1, <3>2
  <2> QED  BY <1>7, <2>1, <2>3, <2>4 DEF DiskInv, RequestInv
<1> QED  BY <1>4, <1>5, <1>6, <1>7

LEMMA WriteFailsKeeps ==
    ASSUME DiskInv, WriteFails  PROVE DiskInv'
<1>1. WriteInv(platter, req) /\ result = None  BY WhichRequest DEF WriteFails
<1>2. InPlace(req.file, req.at, req.len) /\ req.value \in Int
  BY <1>1 DEF WriteInv, WriteReq, Value
<1>3. DrivesInv'  BY DEF WriteFails, DiskInv, DrivesInv
<1>4. result' = None  BY DEF WriteFails
<1>5. CASE req.check
  <2>1. req' = ReadOf(req.file, req.at, req.len, req.value)  BY <1>5 DEF WriteFails
  <2>2. ReadInv(platter', req')  BY <1>2, <2>1, FreshRead
  <2> QED  BY <1>3, <1>4, <2>2 DEF DiskInv, RequestInv
<1>6. CASE ~req.check
  <2>1. req' = Idle  BY <1>6 DEF WriteFails
  <2>2. CheckedWriteIsThere' /\ CountIsHonest'  BY <1>4 DEF CheckedWriteIsThere, CountIsHonest, None
  <2> QED  BY <1>3, <2>1, <2>2 DEF DiskInv, RequestInv
<1> QED  BY <1>5, <1>6

LEMMA StepDisk ==
    ASSUME AddressesFit, DiskInv, [Next]_vars  PROVE DiskInv'
<1>0. /\ DrivesInv /\ RequestInv /\ files \subseteq Drives \X (0..4)  BY DEF DiskInv, DrivesInv
<1>1. ASSUME NEW d \in Drives, Boot(d)  PROVE DiskInv'
  <2>1. files' \subseteq Drives \X (0..4)
    <3>1. PICK read \in SUBSET {p \in 1..4 : Partitions[d][p].count # 0} :
                 files' = files \cup {<<d, 0>>} \cup {<<d, p>> : p \in read}
      BY <1>1 DEF Boot
    <3> QED  BY <1>0, <3>1
  <2>2. /\ platter' = platter /\ counts' = counts /\ req' = req /\ result' = result
        /\ panicked' = panicked /\ writes' = writes
    BY <1>1 DEF Boot
  <2>3. DrivesInv'  BY <1>0, <2>1, <2>2 DEF DrivesInv
  <2>4. RequestInv'  BY <1>0, <2>2 DEF RequestInv, CheckedWriteIsThere, CountIsHonest
  <2> QED  BY <2>3, <2>4 DEF DiskInv
<1>2. ASSUME NEW f \in files, GetSize(f)  PROVE DiskInv'
  <2>1. req = Idle /\ req' = req /\ platter' = platter /\ files' = files /\ writes' = writes
    BY <1>2 DEF GetSize, Ready
  <2>2. /\ counts' = counts \/ counts' = [counts EXCEPT ![f[1]] = NSectors]
        /\ panicked' = panicked \/ panicked' = "device"
        /\ result' = result \/ result'.kind = "size"
    BY <1>2 DEF GetSize
  <2>3. DrivesInv'  BY <1>0, <2>1, <2>2 DEF DrivesInv
  <2>4. CheckedWriteIsThere /\ CountIsHonest  BY <2>1, WhichRequest
  <2>5. (CheckedWriteIsThere /\ CountIsHonest)'
    <3>1. CASE result' = result  BY <3>1, <2>1, <2>4 DEF CheckedWriteIsThere, CountIsHonest
    <3>2. CASE result'.kind = "size"  BY <3>2 DEF CheckedWriteIsThere, CountIsHonest
    <3> QED  BY <2>2, <3>1, <3>2
  <2> QED  BY <2>1, <2>3, <2>5 DEF DiskInv, RequestInv
<1>3. ASSUME Return  PROVE DiskInv'
  <2>1. req' = Idle /\ result' = None /\ UNCHANGED <<platter, files, counts, panicked, writes>>
    BY <1>3 DEF Return
  <2>2. DrivesInv'  BY <1>0, <2>1 DEF DrivesInv
  <2>3. (CheckedWriteIsThere /\ CountIsHonest)'  BY <2>1 DEF CheckedWriteIsThere, CountIsHonest, None
  <2> QED  BY <2>1, <2>2, <2>3 DEF DiskInv, RequestInv
<1>4. ASSUME NEW f \in files, NEW offset \in 0..NBytes, NEW len \in 1..MaxLen, Read(f, offset, len)
      PROVE  DiskInv'
  <2>1. /\ req' = ReadOf(f, partition_offset(f) + offset, len, -1) /\ result = None /\ in_range(f, offset, len)
        /\ UNCHANGED <<platter, files, counts, result, panicked, writes>>
    BY <1>4 DEF Read, Ready
  <2>2. InPlace(f, partition_offset(f) + offset, len)  BY <1>0, <2>1, RequestInPlace
  <2>3. ReadInv(platter', req')
    <3>1. -1 \in Int  OBVIOUS
    <3> QED  BY <2>1, <2>2, <3>1, FreshRead
  <2>4. DrivesInv'  BY <1>0, <2>1 DEF DrivesInv
  <2> QED  BY <2>1, <2>3, <2>4 DEF DiskInv, RequestInv
<1>5. ASSUME NEW f \in files, NEW offset \in 0..NBytes, NEW len \in 1..MaxLen, NEW check \in BOOLEAN,
             Write(f, offset, len, check)
      PROVE  DiskInv'
  <2>1. /\ req' = [op |-> "write", file |-> f, at |-> partition_offset(f) + offset, len |-> len, k |-> 0,
                   pos |-> 0, written |-> 0, value |-> writes + 2, check |-> check]
        /\ result = None /\ in_range(f, offset, len) /\ writes < MaxWrites /\ writes' = writes + 1
        /\ UNCHANGED <<platter, files, counts, result, panicked>>
    BY <1>5, Zenon DEF Write, Ready
  <2>2. InPlace(f, partition_offset(f) + offset, len)  BY <1>0, <2>1, RequestInPlace
  <2>3. writes + 2 \in Value /\ writes' \in 0..MaxWrites
    BY <1>0, <2>1, DiskAssumption DEF DrivesInv, Value
  <2>4. WriteInv(platter', req')
    <3> DEFINE a == partition_offset(f) + offset  v == writes + 2
    <3> HIDE DEF a, v
    <3>1. /\ InPlace(f, a, len) /\ v \in Value
          /\ req' = [op |-> "write", file |-> f, at |-> a, len |-> len, k |-> 0,
                     pos |-> 0, written |-> 0, value |-> v, check |-> check]
      BY <2>1, <2>2, <2>3, Zenon DEF a, v
    <3> QED  BY <3>1, FreshWrite, Zenon
  <2>5. DrivesInv'  BY <1>0, <2>1, <2>3 DEF DrivesInv
  <2> QED  BY <2>1, <2>4, <2>5 DEF DiskInv, RequestInv
<1>6. CASE ReadSector  BY <1>6, ReadSectorKeeps
<1>7. CASE ReadFails
  <2>1. req' = Idle /\ result' = None /\ UNCHANGED <<platter, files, counts, panicked, writes>>
    BY <1>7 DEF ReadFails
  <2>2. DrivesInv'  BY <1>0, <2>1 DEF DrivesInv
  <2>3. (CheckedWriteIsThere /\ CountIsHonest)'  BY <2>1 DEF CheckedWriteIsThere, CountIsHonest, None
  <2> QED  BY <2>1, <2>2, <2>3 DEF DiskInv, RequestInv
<1>8. CASE WriteSector  BY <1>8, WriteSectorKeeps
<1>9. CASE WriteFails  BY <1>9, WriteFailsKeeps
<1>10. CASE WritePanics
  <2>1. panicked' = "device" /\ UNCHANGED <<platter, files, counts, req, result, writes>>
    BY <1>10 DEF WritePanics
  <2>2. DrivesInv'  BY <1>0, <2>1 DEF DrivesInv
  <2>3. RequestInv'  BY <1>0, <2>1 DEF RequestInv, CheckedWriteIsThere, CountIsHonest
  <2> QED  BY <2>2, <2>3 DEF DiskInv
<1>11. CASE UNCHANGED vars
  <2>1. UNCHANGED <<platter, files, counts, req, result, panicked, writes>>  BY <1>11 DEF vars
  <2>2. DrivesInv'  BY <1>0, <2>1 DEF DrivesInv
  <2>3. RequestInv'  BY <1>0, <2>1 DEF RequestInv, CheckedWriteIsThere, CountIsHonest
  <2> QED  BY <2>2, <2>3 DEF DiskInv
<1> QED  BY <1>1, <1>2, <1>3, <1>4, <1>5, <1>6, <1>7, <1>8, <1>9, <1>10, <1>11 DEF Next

(***************************************************************************)
(* Theorems                                                                *)
(***************************************************************************)

\* Requests under way have read and written the bytes of the sectors they are past: the
\* inductive invariant of the drives.
THEOREM DiskInvariant == ASSUME AddressesFit  PROVE Spec => []DiskInv
<1>1. Init => DiskInv  BY InitDisk
<1>2. DiskInv /\ [Next]_vars => DiskInv'  BY StepDisk
<1> QED  BY <1>1, <1>2, PTL DEF Spec

\* A write that Ext2FS has read back, and a write at an even offset that counts as many
\* bytes as it was given, is on the disk.
THEOREM AnswersOfWritesAreTrue == ASSUME AddressesFit  PROVE Spec => []WritesAreHonest
<1>1. DiskInv => WritesAreHonest
  <2> SUFFICES ASSUME DiskInv  PROVE WritesAreHonest  OBVIOUS
  <2>1. CheckedWriteIsThere /\ CountIsHonest
    <3>1. result = None => CheckedWriteIsThere /\ CountIsHonest
      BY DEF CheckedWriteIsThere, CountIsHonest, None
    <3> QED  BY <3>1, WhichRequest
  <2>2. req.op \in {"idle", "read", "write"}
    <3>1. Idle.op = "idle"  BY DEF Idle
    <3> QED  BY <3>1, WhichRequest
  <2>3. ASSUME req.op = "write"  PROVE req.pos \in 0..(req.len - 1) /\ req.value \in Value
    <3>1. WriteInv(platter, req)  BY <2>3, WhichRequest
    <3>2. /\ req.at \in Nat /\ req.len \in Nat \ {0} /\ req.k \in Nat /\ req.k < sector_count(req.len)
          /\ req.pos = Done(req.at, req.k) /\ req.value \in Value
      BY <3>1 DEF WriteInv, WriteReq
    <3>3. Done(req.at, req.k) \in 0..(req.len - 1)  BY <3>2, LoopPlace
    <3> QED  BY <3>2, <3>3
  <2>4. TypeOK  BY <2>2, <2>3 DEF TypeOK, DiskInv, DrivesInv, Platter
  <2> QED  BY <2>1, <2>4 DEF WritesAreHonest
<1> QED  BY <1>1, DiskInvariant, PTL

\* The platter changes in one place only: a sector is written.
LEMMA OnlyWritesChange ==
    ASSUME [Next]_vars, platter' # platter  PROVE WriteSector
BY DEF Next, vars, Boot, GetSize, Return, Read, Write, ReadSector, ReadFails, WriteFails, WritePanics

\* A write through the file of a partition stays within the partition.
THEOREM PartitionsStayConfined == ASSUME AddressesFit  PROVE Spec => PartitionsConfined
<1>1. ASSUME DiskInv, [Next]_vars
      PROVE  [\A d \in Drives, s \in Sector :
                platter'[d][s] # platter[d][s] =>
                  /\ d = req.file[1]
                  /\ req.file[2] # 0 => LET p == Partitions[d][req.file[2]]
                                        IN s \in p.first..(p.first + p.count - 1)]_vars
  <2>1. CASE platter' = platter  BY <2>1
  <2>2. CASE platter' # platter
    <3>1. WriteSector  BY <1>1, <2>2, OnlyWritesChange
    <3> QED  BY <1>1, <3>1, WriteSectorEffect
  <2> QED  BY <2>1, <2>2
<1> QED  BY <1>1, DiskInvariant, PTL DEF Spec, PartitionsConfined

(***************************************************************************)
(* The refinement: drives of bytes                                         *)
(***************************************************************************)

Nobody == [drive |-> "none"]
Putting == IF req.op = "write"
           THEN [drive |-> req.file[1], at |-> req.at + req.pos, end |-> req.at + req.len, value |-> req.value]
           ELSE Nobody
Answered == IF result.kind = "data"
            THEN [drive |-> result.drive, offset |-> result.offset, len |-> result.len, data |-> result.data]
            ELSE Nobody

\* The actions of ByteDevice, of the drives.
LEMMA SeenBegin ==
    ASSUME Putting = Nobody, Putting' \in [drive : Drives, at : Nat, end : Nat, value : Value],
           platter' = platter, Answered' = Nobody
    PROVE  Device!Begin
BY Zenon DEF Device!Begin, Device!NoWrite, Device!NoAnswer, Putting, Answered, Nobody, Flat

LEMMA SeenPut ==
    ASSUME NEW to, Putting # Nobody, to \in (Putting.at + 1)..Putting.end,
           Flat(platter') = [Flat(platter) EXCEPT ![Putting.drive] =
                               [i \in DOMAIN @ |-> IF i \in Putting.at..(to - 1) THEN Putting.value ELSE @[i]]],
           Putting' \in {[Putting EXCEPT !.at = to], Nobody}, Answered' = Answered
    PROVE  Device!Put(to)
BY Zenon DEF Device!Put, Device!NoWrite, Putting, Answered, Nobody, Flat

LEMMA SeenStop ==
    ASSUME Putting # Nobody, Putting' = Nobody, platter' = platter, Answered' = Answered
    PROVE  Device!Stop
BY Zenon DEF Device!Stop, Device!NoWrite, Putting, Answered, Nobody, Flat

LEMMA SeenAnswer ==
    ASSUME NEW d \in Drives, NEW offset, NEW len, NEW data,
           Answered' = [drive |-> d, offset |-> offset, len |-> len, data |-> data],
           offset + len <= NBytes,
           data = [k \in 1..len |-> Flat(platter)[d][offset + k - 1]],
           platter' = platter, Putting' = Putting
    PROVE  Device!Answer
<1>1. /\ Answered'.drive \in Drives /\ Answered'.offset + Answered'.len <= NBytes
      /\ Answered'.data = [k \in 1..Answered'.len |-> Flat(platter)[Answered'.drive][Answered'.offset + k - 1]]
  OBVIOUS
<1> QED  BY <1>1, Zenon DEF Device!Answer, Putting, Answered, Nobody, Flat

LEMMA SeenForget ==
    ASSUME Answered' = Nobody, platter' = platter, Putting' = Putting
    PROVE  Device!Forget
BY Zenon DEF Device!Forget, Device!NoAnswer, Putting, Answered, Nobody, Flat

\* A step that does not show.
LEMMA Hidden ==
    ASSUME platter' = platter, Putting' = Putting, Answered' = Answered
    PROVE  UNCHANGED <<Flat(platter),
                       IF req.op = "write"
                       THEN [drive |-> req.file[1], at |-> req.at + req.pos, end |-> req.at + req.len, value |-> req.value]
                       ELSE [drive |-> "none"],
                       IF result.kind = "data"
                       THEN [drive |-> result.drive, offset |-> result.offset, len |-> result.len, data |-> result.data]
                       ELSE [drive |-> "none"]>>
BY Zenon DEF Putting, Answered, Nobody

LEMMA InitSeen == Init => Device!Init
<1> SUFFICES ASSUME Init  PROVE Device!Init  OBVIOUS
<1>1. platter \in Platter  BY InitDisk DEF DiskInv, DrivesInv
<1>2. Flat(platter) \in [Drives -> [0..(NBytes - 1) -> Value]]  BY <1>1, FlatType
<1>3. Putting = Nobody /\ Answered = Nobody  BY DEF Init, Putting, Answered, Idle, None
<1> QED  BY <1>2, <1>3, Zenon DEF Device!Init, Device!NoWrite, Device!NoAnswer, Putting, Answered, Nobody

\* The write under way is one of the device, and is not the record that says there is none.
LEMMA PuttingIs ==
    ASSUME NEW d, NEW at, NEW end, NEW v, NEW r, r = [drive |-> d, at |-> at, end |-> end, value |-> v]
    PROVE  /\ r # Nobody /\ r.drive = d /\ r.at = at /\ r.end = end /\ r.value = v
           /\ \A to : [r EXCEPT !.at = to] = [drive |-> d, at |-> to, end |-> end, value |-> v]
<1>1. "at" \in DOMAIN r /\ "at" \notin DOMAIN Nobody  BY DEF Nobody
<1>2. r # Nobody  BY <1>1, Zenon
<1> QED  BY <1>2

LEMMA WriteSeen ==
    ASSUME AddressesFit, DiskInv, NEW f \in files, NEW offset \in 0..NBytes, NEW len \in 1..MaxLen,
           NEW check \in BOOLEAN, Write(f, offset, len, check)
    PROVE  Device!Begin
<1> DEFINE a == partition_offset(f) + offset  v == writes + 2
<1>1. /\ req' = [op |-> "write", file |-> f, at |-> a, len |-> len, k |-> 0,
                 pos |-> 0, written |-> 0, value |-> v, check |-> check]
      /\ req = Idle /\ result = None /\ in_range(f, offset, len) /\ writes < MaxWrites
      /\ UNCHANGED <<platter, result>>
  BY Zenon DEF Write, Ready
<1>2. f \in Drives \X (0..4) /\ writes \in 0..MaxWrites  BY DEF DiskInv, DrivesInv
<1>3. InPlace(f, a, len)  BY <1>1, <1>2, RequestInPlace
<1>4. v \in Value  BY <1>1, <1>2, DiskAssumption DEF Value
<1>5. a \in Nat /\ len \in Nat /\ f[1] \in Drives  BY <1>2, <1>3 DEF InPlace
<1> HIDE DEF a, v
<1>6. Putting = Nobody /\ Answered' = Nobody  BY <1>1 DEF Putting, Answered, Idle, None
<1>7. Putting' = [drive |-> f[1], at |-> a + 0, end |-> a + len, value |-> v]
  <2>1. req'.op = "write" /\ req'.file = f /\ req'.at = a /\ req'.len = len /\ req'.pos = 0 /\ req'.value = v
    BY <1>1
  <2> QED  BY <2>1, Zenon DEF Putting
<1>8. Putting' \in [drive : Drives, at : Nat, end : Nat, value : Value]
  <2>1. a + 0 \in Nat /\ a + len \in Nat  BY <1>5
  <2> QED  BY <1>4, <1>5, <1>7, <2>1
<1> QED  BY <1>1, <1>6, <1>8, SeenBegin

\* The bytes of the drives after a sector has been written, as a function.
Wrote(p, p1, d, a, to, v) ==
    \A e \in Drives, i \in 0..(NBytes - 1) :
      Flat(p1)[e][i] = IF e = d /\ i \in a..(to - 1) THEN v ELSE Flat(p)[e][i]

LEMMA BytesPut ==
    ASSUME NEW p \in Platter, NEW p1 \in Platter, NEW d \in Drives, NEW a, NEW to, NEW v,
           Wrote(p, p1, d, a, to, v)
    PROVE  Flat(p1) = [Flat(p) EXCEPT ![d] = [i \in DOMAIN @ |-> IF i \in a..(to - 1) THEN v ELSE @[i]]]
<1> DEFINE I == 0..(NBytes - 1)  F == Flat(p)  G == Flat(p1)  R == a..(to - 1)
           h == [i \in I |-> IF i \in R THEN v ELSE F[d][i]]
<1>1. F \in [Drives -> [I -> Value]] /\ G \in [Drives -> [I -> Value]]  BY FlatType
<1>2. \A e \in Drives, i \in I : G[e][i] = IF e = d /\ i \in R THEN v ELSE F[e][i]  BY DEF Wrote
<1> HIDE DEF I, F, G, R
<1>3. DOMAIN F[d] = I  BY <1>1
<1>4. \A e \in Drives : G[e] = [i \in I |-> G[e][i]] /\ F[e] = [i \in I |-> F[e][i]]  BY <1>1
<1>5. \A e \in Drives : G[e] = IF e = d THEN h ELSE F[e]
  <2> TAKE e \in Drives
  <2>1. CASE e = d
    <3>1. \A i \in I : G[d][i] = h[i]  BY <1>2
    <3> QED  BY <2>1, <3>1, <1>4
  <2>2. CASE e # d
    <3>1. \A i \in I : G[e][i] = F[e][i]  BY <1>2, <2>2
    <3> QED  BY <2>2, <3>1, <1>4
  <2> QED  BY <2>1, <2>2
<1> HIDE DEF h
<1>6. G = [F EXCEPT ![d] = h]  BY <1>1, <1>5
<1>7. h = [i \in DOMAIN F[d] |-> IF i \in R THEN v ELSE F[d][i]]  BY <1>3 DEF h
<1>8. G = [F EXCEPT ![d] = [i \in DOMAIN @ |-> IF i \in R THEN v ELSE @[i]]]  BY <1>6, <1>7
<1> QED  BY <1>8 DEF F, G, R

LEMMA WriteSectorSeen ==
    ASSUME AddressesFit, DiskInv, WriteSector
    PROVE  \E to \in 1..NBytes : Device!Put(to)
<1> DEFINE n == sector_take(req)  w == req.written + 2 * words(sector_from(req), n)
           a == req.at + req.pos  end == req.at + req.len  d == req.file[1]  v == req.value  to == a + n
<1>1. /\ WriteInv(platter, req) /\ result = None /\ platter' \in Platter
      /\ n \in Nat \ {0} /\ req.pos + n <= req.len /\ a + n <= NBytes
      /\ \A e \in Drives, i \in 0..(NBytes - 1) :
           Flat(platter')[e][i] = IF e = d /\ i \in a..((req.at + req.pos + n) - 1)
                                  THEN v ELSE Flat(platter)[e][i]
  BY WriteSectorEffect
<1>2. /\ req \in WriteReq /\ req.op = "write" /\ req.at \in Nat /\ req.len \in Nat /\ req.pos \in Nat
      /\ d \in Drives /\ v \in Value
  BY <1>1 DEF WriteInv, WriteReq
<1>3. /\ IF req.k + 1 < sector_count(req.len)
         THEN req' = [req EXCEPT !.k = @ + 1, !.pos = @ + n, !.written = w] /\ result' = result
         ELSE after_write(req, w)
  BY DEF WriteSector
<1>4. platter \in Platter  BY DEF DiskInv, DrivesInv
<1> HIDE DEF n, w
<1>5. /\ a \in Nat /\ to \in Nat /\ to \in (a + 1)..end /\ to \in 1..NBytes /\ req.at + (req.pos + n) = to
      /\ (req.at + req.pos + n) = to
  BY <1>1, <1>2, Sizes
<1>6. Putting = [drive |-> d, at |-> a, end |-> end, value |-> v]  BY <1>2, Zenon DEF Putting
<1>7. \A e \in Drives, i \in 0..(NBytes - 1) :
        Flat(platter')[e][i] = IF e = d /\ i \in a..(to - 1) THEN v ELSE Flat(platter)[e][i]
  BY <1>1, <1>5
<1>8. Putting' = [drive |-> d, at |-> to, end |-> end, value |-> v] \/ Putting' = Nobody
  <2>1. CASE req' = [req EXCEPT !.k = @ + 1, !.pos = @ + n, !.written = w]
    <3>1. /\ req'.op = "write" /\ req'.file = req.file /\ req'.at = req.at /\ req'.len = req.len
          /\ req'.value = v /\ req'.pos = req.pos + n
      BY <1>2, <2>1 DEF WriteReq
    <3>2. Putting' = [drive |-> d, at |-> req.at + (req.pos + n), end |-> end, value |-> v]
      BY <3>1, Zenon DEF Putting
    <3> QED  BY <1>5, <3>2
  <2>2. CASE after_write(req, w)
    <3>1. req'.op # "write"
      <4>1. Idle.op # "write" /\ ReadOf(req.file, req.at, req.len, req.value).op # "write"
        BY DEF Idle, ReadOf
      <4>2. req' = Idle \/ req' = ReadOf(req.file, req.at, req.len, req.value)
        BY <2>2, Zenon DEF after_write
      <4> QED  BY <4>1, <4>2
    <3> QED  BY <3>1, Zenon DEF Putting
  <2> QED  BY <1>3, <2>1, <2>2
<1>9. Answered' = Answered
  <2>1. result.kind # "data"  BY <1>1 DEF None
  <2>2. result'.kind # "data"
    <3>1. CASE result' = result  BY <2>1, <3>1
    <3>2. CASE after_write(req, w)
      <4>1. \/ result' = None
            \/ result' = [kind |-> "count", file |-> req.file, at |-> req.at, len |-> req.len,
                          value |-> req.value, count |-> w]
        BY <3>2, Zenon DEF after_write
      <4> QED  BY <4>1 DEF None
    <3> QED  BY <1>3, <3>1, <3>2
  <2> QED  BY <2>1, <2>2, Zenon DEF Answered
<1> HIDE DEF a, end, d, v, to
<1>10. Flat(platter') = [Flat(platter) EXCEPT ![d] = [i \in DOMAIN @ |-> IF i \in a..(to - 1) THEN v ELSE @[i]]]
  <2> DEFINE p1 == platter'
  <2>1. p1 \in Platter /\ Wrote(platter, p1, d, a, to, v)  BY <1>1, <1>7 DEF Wrote
  <2> HIDE DEF p1
  <2>2. Flat(p1) = [Flat(platter) EXCEPT ![d] = [i \in DOMAIN @ |-> IF i \in a..(to - 1) THEN v ELSE @[i]]]
    BY <1>2, <1>4, <2>1, BytesPut
  <2> QED  BY <2>2 DEF p1
<1>11. /\ Putting # Nobody /\ Putting.drive = d /\ Putting.at = a /\ Putting.end = end /\ Putting.value = v
       /\ [Putting EXCEPT !.at = to] = [drive |-> d, at |-> to, end |-> end, value |-> v]
  BY <1>6, PuttingIs
<1>12. Flat(platter') = [Flat(platter) EXCEPT ![Putting.drive] =
                           [i \in DOMAIN @ |-> IF i \in Putting.at..(to - 1) THEN Putting.value ELSE @[i]]]
  BY <1>10, <1>11
<1>13. to \in (Putting.at + 1)..Putting.end /\ Putting' \in {[Putting EXCEPT !.at = to], Nobody}
  BY <1>5, <1>8, <1>11
<1>14. Device!Put(to)  BY <1>9, <1>11, <1>12, <1>13, SeenPut
<1> QED  BY <1>5, <1>14

\* The end of a read answers with the bytes that were asked for, or nothing shows.
Unseen == platter' = platter /\ Putting' = Putting /\ Answered' = Answered

LEMMA ReadSectorSeen ==
    ASSUME AddressesFit, DiskInv, ReadSector  PROVE Device!Answer \/ Unseen
<1> DEFINE data == ReadData(req)  at == req.at  len == req.len  d == req.file[1]
<1>1. /\ ReadInv(platter, req) /\ result = None
      /\ Len(data) = len =>
           /\ at + len <= NBytes /\ data \in [1..len -> Value]
           /\ \A i \in 1..len : data[i] = Flat(platter)[d][(at + i) - 1]
  BY ReadSectorEffect
<1>2. req.op = "read" /\ at \in Nat /\ len \in Nat \ {0} /\ d \in Drives /\ req \in ReadReq
  BY <1>1 DEF ReadInv, ReadReq
<1>3. platter' = platter  BY DEF ReadSector
<1>4. \/ req' = [req EXCEPT !.k = @ + 1, !.got = sector_read(req)] /\ result' = result
      \/ req' = req /\ result' = result
      \/ /\ Len(data) = len /\ req' = Idle
         /\ \/ result' = [kind |-> "data", drive |-> d, offset |-> at, len |-> len, data |-> data]
            \/ result'.kind \in {"written", "none"}
  <2>1. \/ req' = [req EXCEPT !.k = @ + 1, !.got = sector_read(req)] /\ result' = result
        \/ req' = req /\ result' = result
        \/ /\ Len(data) = len /\ req' = Idle
           /\ result' = IF req.expect = -1
                        THEN [kind |-> "data", drive |-> d, offset |-> at, len |-> len, data |-> data]
                        ELSE [kind |-> IF \A i \in DOMAIN data : data[i] = req.expect THEN "written" ELSE "none",
                              file |-> req.file, at |-> at, len |-> len, value |-> req.expect]
    BY DEF ReadSector, ReadData
  <2> DEFINE same == \A i \in DOMAIN data : data[i] = req.expect
             o == [kind |-> IF same THEN "written" ELSE "none",
                   file |-> req.file, at |-> at, len |-> len, value |-> req.expect]
  <2>2. o.kind \in {"written", "none"}
    <3> HIDE DEF same, at, len, data
    <3> QED  OBVIOUS
  <2>3. \/ req' = [req EXCEPT !.k = @ + 1, !.got = sector_read(req)] /\ result' = result
        \/ req' = req /\ result' = result
        \/ /\ Len(data) = len /\ req' = Idle
           /\ \/ result' = [kind |-> "data", drive |-> d, offset |-> at, len |-> len, data |-> data]
              \/ result' = o
    BY <2>1, Zenon
  <2> HIDE DEF o
  <2> QED  BY <2>2, <2>3, Zenon
<1>5. Putting = Nobody /\ Answered = Nobody
  <2>1. result.kind # "data"  BY <1>1 DEF None
  <2> QED  BY <1>2, <2>1 DEF Putting, Answered
<1>6. Putting' = Nobody
  <2>1. req'.op # "write"
    <3> DEFINE next == [req EXCEPT !.k = @ + 1, !.got = sector_read(req)]
    <3>1. next.op = "read" /\ Idle.op = "idle"  BY <1>2 DEF ReadReq, Idle
    <3>2. req' = next \/ req' = req \/ req' = Idle  BY <1>4, Zenon
    <3> HIDE DEF next
    <3> QED  BY <3>1, <3>2, <1>2
  <2> QED  BY <2>1 DEF Putting
<1> HIDE DEF data
<1>7. CASE result' = result \/ result'.kind \in {"written", "none"}
  <2>1. result'.kind # "data"  BY <1>1, <1>7 DEF None
  <2>2. Answered' = Nobody  BY <2>1 DEF Answered
  <2> QED  BY <1>3, <1>5, <1>6, <2>2 DEF Unseen
<1>8. CASE Len(data) = len /\ result' = [kind |-> "data", drive |-> d, offset |-> at, len |-> len, data |-> data]
  <2>1. Answered' = [drive |-> d, offset |-> at, len |-> len, data |-> data]  BY <1>8 DEF Answered
  <2>2. data = [i \in 1..len |-> Flat(platter)[d][at + i - 1]]
    <3>1. \A i \in 1..len : at + i - 1 = (at + i) - 1  BY <1>2
    <3>2. data \in [1..len -> Value] /\ \A i \in 1..len : data[i] = Flat(platter)[d][at + i - 1]
      BY <1>1, <1>8, <3>1
    <3> QED  BY <3>2
  <2>3. at + len <= NBytes  BY <1>1, <1>8
  <2>4. Device!Answer
    <3> HIDE DEF at, len, d
    <3> QED  BY <1>2, <1>3, <1>5, <1>6, <2>1, <2>2, <2>3, SeenAnswer
  <2> QED  BY <2>4
<1> QED  BY <1>4, <1>7, <1>8

LEMMA WriteFailsSeen ==
    ASSUME DiskInv, WriteFails  PROVE Device!Stop
<1>1. WriteInv(platter, req) /\ result = None /\ req.op = "write"  BY WhichRequest DEF WriteFails
<1>2. Putting # Nobody
  <2>1. Putting = [drive |-> req.file[1], at |-> req.at + req.pos, end |-> req.at + req.len, value |-> req.value]
    BY <1>1 DEF Putting
  <2> QED  BY <2>1, PuttingIs
<1>3. req'.op # "write"
  <2>1. Idle.op # "write" /\ ReadOf(req.file, req.at, req.len, req.value).op # "write"  BY DEF Idle, ReadOf
  <2>2. req' = Idle \/ req' = ReadOf(req.file, req.at, req.len, req.value)  BY Zenon DEF WriteFails
  <2> QED  BY <2>1, <2>2
<1>4. Putting' = Nobody  BY <1>3 DEF Putting
<1>5. platter' = platter /\ result' = result  BY <1>1 DEF WriteFails
<1>6. Answered' = Answered  BY <1>5 DEF Answered
<1> QED  BY <1>2, <1>4, <1>5, <1>6, SeenStop

\* Every step is one of the device, or does not show.
LEMMA StepSeen ==
    ASSUME AddressesFit, DiskInv, [Next]_vars  PROVE Device!Next \/ Unseen
<1>1. ASSUME NEW d \in Drives, Boot(d)  PROVE Unseen
  <2>1. UNCHANGED <<platter, req, result>>  BY <1>1 DEF Boot
  <2> QED  BY <2>1 DEF Unseen, Putting, Answered
<1>2. ASSUME NEW f \in files, GetSize(f)  PROVE Unseen
  <2>1. UNCHANGED <<platter, req>> /\ result = None /\ (result' = result \/ result'.kind = "size")
    BY <1>2 DEF GetSize, Ready
  <2>2. Answered' = Answered  BY <2>1 DEF Answered, None
  <2> QED  BY <2>1, <2>2 DEF Unseen, Putting
<1>3. ASSUME Return  PROVE Device!Next
  <2>1. UNCHANGED <<platter, req>> /\ result' = None  BY <1>3 DEF Return
  <2>2. Answered' = Nobody /\ Putting' = Putting  BY <2>1 DEF Answered, None, Putting
  <2>3. Device!Forget  BY <2>1, <2>2, SeenForget
  <2> QED  BY <2>3, Zenon DEF Device!Next
<1>4. ASSUME NEW f \in files, NEW offset \in 0..NBytes, NEW len \in 1..MaxLen, Read(f, offset, len)
      PROVE  Unseen
  <2>1. /\ platter' = platter /\ result' = result /\ req = Idle
        /\ req' = ReadOf(f, partition_offset(f) + offset, len, -1)
    BY <1>4 DEF Read, Ready
  <2>2. req.op # "write" /\ req'.op # "write"  BY <2>1 DEF Idle, ReadOf
  <2> QED  BY <2>1, <2>2 DEF Unseen, Putting, Answered
<1>5. ASSUME NEW f \in files, NEW offset \in 0..NBytes, NEW len \in 1..MaxLen, NEW check \in BOOLEAN,
             Write(f, offset, len, check)
      PROVE  Device!Next
  <2>1. Device!Begin  BY <1>5, WriteSeen
  <2> QED  BY <2>1, Zenon DEF Device!Next
<1>6. ASSUME ReadSector  PROVE Device!Next \/ Unseen
  <2>1. Device!Answer \/ Unseen  BY <1>6, ReadSectorSeen
  <2> QED  BY <2>1, Zenon DEF Device!Next
<1>7. ASSUME ReadFails  PROVE Unseen
  <2>1. platter' = platter /\ req.op = "read" /\ req' = Idle /\ result' = None  BY <1>7 DEF ReadFails
  <2>2. result = None  BY <2>1, WhichRequest
  <2> QED  BY <2>1, <2>2 DEF Unseen, Putting, Answered, Idle
<1>8. ASSUME WriteSector  PROVE Device!Next
  <2>1. \E to \in 1..NBytes : Device!Put(to)  BY <1>8, WriteSectorSeen
  <2> QED  BY <2>1, Zenon DEF Device!Next
<1>9. ASSUME WriteFails  PROVE Device!Next
  <2>1. Device!Stop  BY <1>9, WriteFailsSeen
  <2> QED  BY <2>1, Zenon DEF Device!Next
<1>10. ASSUME WritePanics  PROVE Unseen
  <2>1. UNCHANGED <<platter, req, result>>  BY <1>10 DEF WritePanics
  <2> QED  BY <2>1 DEF Unseen, Putting, Answered
<1>11. ASSUME UNCHANGED vars  PROVE Unseen
  <2>1. UNCHANGED <<platter, req, result>>  BY <1>11 DEF vars
  <2> QED  BY <2>1 DEF Unseen, Putting, Answered
<1> QED  BY <1>1, <1>2, <1>3, <1>4, <1>5, <1>6, <1>7, <1>8, <1>9, <1>10, <1>11 DEF Next

\* Sector by sector, with errors at any point, drives and partitions are devices of bytes.
THEOREM DrivesAreByteDevices == ASSUME AddressesFit  PROVE Spec => ImplementsByteDevice
<1>1. Init => Device!Init  BY InitSeen
<1>2. DiskInv /\ [Next]_vars =>
        [Device!Next]_<<Flat(platter),
                        IF req.op = "write"
                        THEN [drive |-> req.file[1], at |-> req.at + req.pos, end |-> req.at + req.len,
                              value |-> req.value]
                        ELSE [drive |-> "none"],
                        IF result.kind = "data"
                        THEN [drive |-> result.drive, offset |-> result.offset, len |-> result.len,
                              data |-> result.data]
                        ELSE [drive |-> "none"]>>
  BY StepSeen, Hidden, Zenon DEF Unseen
<1>3. Spec => []DiskInv  BY DiskInvariant
<1> QED  BY <1>1, <1>2, <1>3, PTL DEF Spec, ImplementsByteDevice, Device!Spec
=============================================================================
