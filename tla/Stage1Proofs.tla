---------------------------- MODULE Stage1Proofs ----------------------------
(***************************************************************************)
(* For all register widths, media and files with room below 1 MB: the      *)
(* first stage lays the sectors of one file out without gaps, across       *)
(* segments, and on a sound medium that file is STAGE2.BIN, complete.      *)
(***************************************************************************)
EXTENDS Stage1, TLAPS

-----------------------------------------------------------------------------
(* Arithmetic.                                                             *)

LEMMA MulStep ==
  ASSUME NEW a \in Nat, NEW b \in Nat, NEW c \in Nat, a < b
  PROVE  a * c + c <= b * c
  OBVIOUS

LEMMA DivFacts ==
  ASSUME NEW a \in Nat, NEW m \in Nat \ {0}
  PROVE  a \div m \in Nat /\ a = (a \div m) * m + (a % m)
  OBVIOUS

LEMMA ModUnique ==
  ASSUME NEW q \in Nat, NEW m \in Nat \ {0}, NEW r \in 0..(m - 1)
  PROVE  (q * m + r) % m = r
  OBVIOUS

(* Multiples of m below b, itself a multiple of m, leave room for m more.  *)
LEMMA NextMultiple ==
  ASSUME NEW a \in Nat, NEW b \in Nat, NEW m \in Nat \ {0},
         a % m = 0, b % m = 0, a < b
  PROVE  a + m <= b /\ (a + m) % m = 0
<1>1. PICK q \in Nat : a = q * m
  <2>1. a \div m \in Nat /\ a = (a \div m) * m
    BY DivFacts
  <2> QED
    BY <2>1
<1>2. PICK r \in Nat : b = r * m
  <2>1. b \div m \in Nat /\ b = (b \div m) * m
    BY DivFacts
  <2> QED
    BY <2>1
<1>3. q < r
  <2> SUFFICES ASSUME r <= q PROVE FALSE
    BY <1>1, <1>2
  <2>1. r = q \/ r * m + m <= q * m
    BY <1>1, <1>2, MulStep
  <2> QED
    BY <1>1, <1>2, <2>1
<1>4. a + m <= b
  BY <1>1, <1>2, <1>3, MulStep
<1>5. a + m = (q + 1) * m + 0 /\ q + 1 \in Nat /\ 0 \in 0..(m - 1)
  BY <1>1
<1>6. ((q + 1) * m + 0) % m = 0
  BY <1>5, ModUnique
<1> QED
  BY <1>4, <1>5, <1>6

LEMMA ModSmall ==
  ASSUME NEW m \in Nat \ {0}, NEW r \in 0..(m - 1)
  PROVE  r % m = r
  OBVIOUS

LEMMA Widths ==
  /\ Half \in Nat \ {0} /\ Full \in Nat \ {0}
  /\ SectorSize \in Nat \ {0} /\ Para \in Nat \ {0}
  /\ Seg0 \in 0..(Half - 1) /\ Off0 \in 0..(Half - 1)
  /\ EdxHighs \subseteq Nat
  BY WidthAssumption DEF WidthAssumption

LEMMA Alignment ==
  /\ Half % SectorSize = 0 /\ Half % Para = 0
  /\ Full % (SectorSize * Half) = 0 /\ Off0 % SectorSize = 0
  BY WidthAssumption DEF WidthAssumption

USE Widths

-----------------------------------------------------------------------------
(* The inductive invariant.                                                *)

Untouched == \A a \in Linear : mem[a] = Junk

Picked == entry <= Len(dir) /\ ~Skips(dir[entry])

File == dir[entry]

\* The first n sectors of the file, and nothing else, have been asked for.
Loaded(n) ==
  /\ \A a \in Linear : mem[a] # Junk =>
       \E j \in 0..(n - 1) : a = Base + j * SectorSize /\ mem[a] = File.lba + j
  /\ ~flaky => \A j \in 0..(n - 1) : mem[Base + j * SectorSize] = File.lba + j

\* Sectors read so far.
Progress == sector - File.lba

InLoop ==
  pc = "sLoop" =>
    /\ Picked
    /\ Progress \in 0..(RoundUp(File.size) - 1)
    /\ cx = RoundUp(File.size) - Progress
    /\ off % SectorSize = 0
    /\ seg * Para + off = Base + Progress * SectorSize
    /\ Loaded(Progress)

Outside ==
  /\ pc \in {"iterate_descriptor", "check_descriptor", "read_root"} => entry = 1
  /\ pc = "got_file" => Picked
  /\ pc \notin {"sLoop", "jump", "stage2"} => Untouched
  /\ pc \in {"jump", "stage2"} => \/ Untouched /\ entry > Len(dir)
                                  \/ Picked /\ Loaded(RoundUp(File.size))

\* On a sound medium that can be read the search is on the right way.
BootOnly == /\ vd <= Len(disk.vds)
            /\ \A j \in 1..(vd - 1) : disk.vds[j] = "boot"

OnTheWay ==
  Sound /\ ~flaky =>
    /\ pc = "iterate_descriptor" => BootOnly
    /\ pc = "check_descriptor" => BootOnly /\ pvd = disk.vds[vd]
    /\ pc \in {"iterate_entry", "got_file", "sLoop", "jump", "stage2"} =>
         dir = disk.root /\ \A j \in 1..(entry - 1) : Skips(disk.root[j])

IInv == TypeOK /\ InLoop /\ Outside /\ OnTheWay

-----------------------------------------------------------------------------
(* What the media are like, and what the loader makes of a size.           *)

LEMMA DirFacts ==
  ASSUME TypeOK
  PROVE  /\ Len(dir) \in Nat
         /\ \A k \in 1..Len(dir) : dir[k] \in Records
         /\ Picked => entry \in 1..Len(dir) /\ File \in Records /\ HasRoom(File)
<1>1. dir \in Seq(Records)
  BY DiskAssumption DEF TypeOK, DiskAssumption
<1>2. \A k \in DOMAIN dir : Skips(dir[k]) \/ HasRoom(dir[k])
  BY RoomAssumption DEF TypeOK, RoomAssumption
<1>3. entry \in 1..(Len(dir) + 1)
  BY DEF TypeOK
<1> QED
  BY <1>1, <1>2, <1>3 DEF Picked, File

(* A file that may be picked has a size, so its count of sectors is one.   *)
LEMMA SizeKnown ==
  ASSUME TypeOK, Picked
  PROVE  RoundUp(File.size) \in Nat
<1>1. File.size \in Nat
  BY DirFacts DEF HasRoom
<1>2. File.size + SectorSize - 1 \in Nat
  BY <1>1
<1> QED
  BY <1>2, DivFacts DEF RoundUp

LEMMA MediumFacts ==
  ASSUME TypeOK
  PROVE  /\ disk.vds \in Seq(Descriptors) /\ Len(disk.vds) \in Nat
         /\ disk.root \in Seq(Records) /\ Len(disk.root) \in Nat
<1>1. disk.vds \in Seq(Descriptors) /\ disk.root \in Seq(Records)
  BY DiskAssumption DEF TypeOK, DiskAssumption
<1> QED
  BY <1>1

(* The sector count that reaches the loop is that of the file, whatever    *)
(* EDX was before the division.                                            *)
LEMMA LoopCountIsSectors ==
  ASSUME NEW e \in Records, HasRoom(e), edxHigh \in Nat, Edx(e) < SectorSize
  PROVE  /\ Quotient(e) \in 0..(Full - 1)
         /\ LoopCount(Quotient(e)) = RoundUp(e.size)
         /\ RoundUp(e.size) \in 1..(Half - 1)
<1> DEFINE n == RoundUp(e.size)
           f == Full \div SectorSize
<1>1. /\ e.size \in 1..(Full - SectorSize)
      /\ Rounded(e.size) = e.size + SectorSize - 1
      /\ Rounded(e.size) \in Nat /\ Rounded(e.size) < Full
  BY DEF HasRoom, Rounded
<1>2. n = Rounded(e.size) \div SectorSize /\ n \in 1..(Half - 1)
  <2>1. n = Rounded(e.size) \div SectorSize
    BY <1>1 DEF RoundUp
  <2>2. n \in Nat /\ n > 0
    BY <1>1 DEF RoundUp
  <2> QED
    BY <2>1, <2>2 DEF HasRoom
<1>3. Edx(e) \in Nat
  BY DEF Edx, Records
<1>4. PICK q \in Nat : Full = q * (SectorSize * Half)
  <2> DEFINE m == SectorSize * Half
  <2>1. m \in Nat \ {0} /\ Full % m = 0
    BY Alignment
  <2> HIDE DEF m
  <2>2. Full \div m \in Nat /\ Full = (Full \div m) * m
    BY <2>1, DivFacts
  <2> QED
    BY <2>2 DEF m
<1>5. f = q * Half /\ f \in Nat /\ Full = f * SectorSize
  <2>1. q * Half \in Nat /\ Full = (q * Half) * SectorSize
    BY <1>4
  <2>2. ((q * Half) * SectorSize + 0) \div SectorSize = q * Half
    BY <2>1
  <2> QED
    BY <2>1, <2>2
<1>6. n < f
  <2>1. n * SectorSize <= Rounded(e.size)
    BY <1>1, <1>2
  <2> SUFFICES ASSUME f <= n PROVE FALSE
    BY <1>2, <1>5
  <2>2. f * SectorSize <= n * SectorSize
    BY <1>2, <1>5, MulStep
  <2> QED
    BY <1>1, <1>2, <1>5, <2>1, <2>2
<1>7. Edx(e) * f + f <= Full
  <2>1. Edx(e) * f + f <= SectorSize * f
    BY <1>3, <1>5, MulStep
  <2> QED
    BY <1>5, <2>1
<1>8. Quotient(e) = (Edx(e) * q) * Half + n /\ Quotient(e) = Edx(e) * f + n
  BY <1>2, <1>3, <1>4, <1>5 DEF Quotient
<1>9. Quotient(e) \in 0..(Full - 1)
  BY <1>2, <1>3, <1>5, <1>6, <1>7, <1>8
<1>10. LoopCount(Quotient(e)) = n
  <2>1. Edx(e) * q \in Nat /\ n \in 0..(Half - 1) /\ Half \in Nat \ {0}
    BY <1>2, <1>3, <1>4
  <2>2. ((Edx(e) * q) * Half + n) % Half = n
    BY <2>1, ModUnique
  <2> QED
    BY <1>8, <2>2 DEF LoopCount
<1> QED
  BY <1>2, <1>9, <1>10

-----------------------------------------------------------------------------
(* One sector is read; its address is the one behind the last.             *)

(* The packet's address is one of real mode.                               *)
LEMMA AddressInRange ==
  ASSUME seg \in 0..(Half - 1), off \in 0..(Half - 1)
  PROVE  seg * Para + off \in Linear
<1>1. seg * Para + Para <= Half * Para /\ (Half - 1) * Para = Half * Para - Para
  BY MulStep
<1>2. seg * Para \in Nat /\ Half * Para \in Nat
  OBVIOUS
<1> QED
  BY <1>1, <1>2 DEF Linear

(* As long as another sector follows the segment does not wrap.            *)
LEMMA AddressAdvances ==
  ASSUME seg \in 0..(Half - 1), off \in 0..(Half - 1), off % SectorSize = 0,
         NEW k \in Nat, NEW n \in Nat, k + 1 < n,
         seg * Para + off = Base + k * SectorSize,
         Base + n * SectorSize <= Half * Para
  PROVE  /\ NextSegment(seg, off) * Para + NextOffset(off)
              = Base + (k + 1) * SectorSize
         /\ NextOffset(off) % SectorSize = 0
<1> DEFINE flat == seg * Para
<1>1. flat \in Nat /\ Base \in Nat /\ k * SectorSize \in Nat
      /\ (k + 1) * SectorSize = k * SectorSize + SectorSize
  BY DEF Base
<1>2. off + SectorSize <= Half /\ (off + SectorSize) % SectorSize = 0
  <2>1. off \in Nat /\ off < Half /\ Half % SectorSize = 0
    BY Alignment
  <2> QED
    BY <2>1, NextMultiple
<1>3. CASE off + SectorSize < Half
  <2>1. NextOffset(off) = off + SectorSize /\ NextSegment(seg, off) = seg
    <3>1. off + SectorSize \in 0..(Half - 1) /\ off + SectorSize # 0
      BY <1>3
    <3>2. (off + SectorSize) % Half = off + SectorSize
      BY <3>1, ModSmall
    <3> QED
      BY <3>1, <3>2 DEF NextOffset, NextSegment
  <2>2. flat + (off + SectorSize) = Base + (k + 1) * SectorSize
    BY <1>1
  <2> QED
    BY <1>2, <2>1, <2>2
<1>4. CASE off + SectorSize = Half
  <2> DEFINE d == Half \div Para
  <2>1. d \in Nat /\ Half = d * Para
    BY Alignment, DivFacts
  <2> HIDE DEF d
  <2>2. (seg + d) * Para = flat + Half
    BY <2>1
  <2>3. (seg + d) * Para = Base + (k + 1) * SectorSize
    <3>1. flat + off = Base + k * SectorSize
      OBVIOUS
    <3> HIDE DEF flat
    <3> QED
      BY <1>1, <1>4, <2>2, <3>1
  <2>4. (k + 1) * SectorSize + SectorSize <= n * SectorSize
    BY MulStep
  <2>5. (seg + d) * Para < Half * Para
    <3>1. (k + 1) * SectorSize \in Nat /\ n * SectorSize \in Nat
          /\ Half * Para \in Nat
      OBVIOUS
    <3> QED
      BY <1>1, <2>3, <2>4, <3>1
  <2>6. seg + d < Half
    <3> SUFFICES ASSUME Half <= seg + d PROVE FALSE
      BY <2>1
    <3>1. Half = seg + d \/ Half * Para + Para <= (seg + d) * Para
      BY <2>1, MulStep
    <3>2. Half * Para \in Nat /\ (seg + d) * Para \in Nat
      BY <2>1
    <3> QED
      BY <2>5, <3>1, <3>2
  <2>7. NextOffset(off) = 0 /\ NextSegment(seg, off) = seg + d
    <3>1. Half % Half = 0
      OBVIOUS
    <3>2. seg + d \in 0..(Half - 1)
      BY <2>1, <2>6
    <3>3. (seg + d) % Half = seg + d
      BY <3>2, ModSmall
    <3> QED
      BY <1>4, <3>1, <3>3 DEF NextOffset, NextSegment, d
  <2> QED
    BY <2>1, <2>3, <2>7
<1> QED
  BY <1>2, <1>3, <1>4

(* The memory holds one sector more, and where reads may fail still only   *)
(* sectors of the file at their places.                                    *)
LEMMA SectorIsLoaded ==
  ASSUME NEW k \in Nat, Loaded(k), mem \in [Linear -> Nat \cup {Junk}],
         Base + k * SectorSize \in Linear, File.lba \in Nat,
         mem' \in Reads([mem EXCEPT ![Base + k * SectorSize] = File.lba + k], mem),
         UNCHANGED <<dir, entry, flaky>>
  PROVE  Loaded(k + 1)'
<1> DEFINE addr == Base + k * SectorSize
<1>1. \/ mem' = [mem EXCEPT ![addr] = File.lba + k]
      \/ flaky /\ mem' = mem
  BY DEF Reads
<1>2. File' = File /\ flaky' = flaky
  BY DEF File
<1>3. ASSUME NEW a \in Linear, mem'[a] # Junk
      PROVE  \E j \in 0..k : a = Base + j * SectorSize /\ mem'[a] = File.lba + j
  <2>1. CASE a = addr /\ mem'[a] = File.lba + k
    BY <2>1
  <2>2. CASE mem'[a] = mem[a]
    BY <1>3, <2>2 DEF Loaded
  <2> QED
    BY <1>1, <2>1, <2>2
<1>4. ASSUME ~flaky, NEW j \in 0..k
      PROVE  mem'[Base + j * SectorSize] = File.lba + j
  <2>1. mem' = [mem EXCEPT ![addr] = File.lba + k]
    BY <1>1, <1>4
  <2>2. CASE j = k
    BY <2>1, <2>2
  <2>3. CASE j < k
    <3>1. /\ Base \in Nat /\ j * SectorSize \in Nat /\ k * SectorSize \in Nat
          /\ j * SectorSize + SectorSize <= k * SectorSize
      BY <2>3, MulStep DEF Base
    <3>2. Base + j * SectorSize \in Linear /\ Base + j * SectorSize # addr
      BY <3>1 DEF Linear
    <3>3. mem[Base + j * SectorSize] = File.lba + j
      BY <1>4, <2>3 DEF Loaded
    <3> QED
      BY <2>1, <3>2, <3>3
  <2> QED
    BY <2>2, <2>3
<1>5. k + 1 - 1 = k
  OBVIOUS
<1> QED
  BY <1>2, <1>3, <1>4, <1>5 DEF Loaded

LEMMA SLoopKeeps == IInv /\ SLoop => IInv'
<1> SUFFICES ASSUME IInv, SLoop PROVE IInv'
  OBVIOUS
<1>1. PICK n \in Nat, k \in Nat : n = RoundUp(File.size) /\ k = Progress
  <2>1. RoundUp(File.size) \in Nat
    BY SizeKnown DEF IInv, InLoop, SLoop
  <2> QED
    BY <2>1 DEF IInv, InLoop, SLoop
<1>2. /\ Picked /\ File \in Records /\ HasRoom(File) /\ n < Half
      /\ k \in 0..(n - 1) /\ cx = n - k /\ sector = File.lba + k
      /\ File.lba \in Nat /\ off % SectorSize = 0
      /\ Base + n * SectorSize <= Half * Para
      /\ seg * Para + off = Base + k * SectorSize
      /\ Loaded(k)
  <2>1. Picked /\ File \in Records /\ HasRoom(File) /\ File.lba \in Nat
    BY DirFacts DEF IInv, InLoop, SLoop, Records
  <2>2. n < Half /\ Base + n * SectorSize <= Half * Para
    BY <1>1, <2>1 DEF HasRoom
  <2>3. sector \in Nat /\ sector = File.lba + k
    BY <1>1, <2>1 DEF IInv, TypeOK, Progress
  <2> QED
    BY <1>1, <2>1, <2>2, <2>3 DEF IInv, InLoop, SLoop
<1>3. /\ UNCHANGED <<disk, flaky, vd, pvd, dir, entry, edxHigh, count>>
      /\ File' = File /\ sector' = sector + 1
      /\ RoundUp(File.size)' = n /\ Progress' = k + 1
  BY <1>1, <1>2 DEF SLoop, NextSector, File, Progress, RoundUp
<1>4. seg \in 0..(Half - 1) /\ off \in 0..(Half - 1)
  BY DEF IInv, TypeOK
<1>5. Base + k * SectorSize \in Linear
  BY <1>2, <1>4, AddressInRange
<1>6. /\ mem' \in [Linear -> Nat \cup {Junk}]
      /\ Loaded(k + 1)'
  <2>1. mem' \in Reads([mem EXCEPT ![Base + k * SectorSize] = File.lba + k], mem)
    BY <1>2 DEF SLoop
  <2>2. mem \in [Linear -> Nat \cup {Junk}]
    BY DEF IInv, TypeOK
  <2>3. Loaded(k + 1)'
    BY <1>2, <1>3, <1>5, <2>1, <2>2, SectorIsLoaded
  <2>4. File.lba + k \in Nat
    BY <1>2
  <2> QED
    BY <1>5, <2>1, <2>2, <2>3, <2>4 DEF Reads
<1>7. /\ cx' = n - (k + 1)
      /\ pc' = IF k + 1 = n THEN "jump" ELSE "sLoop"
  <2>1. cx - 1 \in 0..(Half - 1)
    BY <1>2
  <2>2. cx' = cx - 1
    BY <2>1, ModSmall DEF SLoop
  <2> QED
    BY <1>2, <2>2 DEF SLoop
<1>8. seg' \in 0..(Half - 1) /\ off' \in 0..(Half - 1)
  BY <1>4 DEF SLoop, NextOffset, NextSegment
<1>9. k + 1 < n => /\ seg' * Para + off' = Base + (k + 1) * SectorSize
                   /\ off' % SectorSize = 0
  BY <1>2, <1>4, AddressAdvances DEF SLoop
<1>10. TypeOK'
  <2>1. cx' \in 0..(Half - 1) /\ sector' \in Nat
    BY <1>2, <1>3, <1>7
  <2> QED
    BY <1>3, <1>6, <1>7, <1>8, <2>1 DEF IInv, TypeOK
<1>11. Picked'
  BY <1>2, <1>3 DEF Picked
<1>12. InLoop'
  <2> SUFFICES ASSUME k + 1 # n PROVE InLoop'
    BY <1>7 DEF InLoop
  <2>1. k + 1 < n /\ k + 1 \in 0..(n - 1)
    BY <1>2
  <2>2. Loaded(Progress)'
    BY <1>3, <1>6 DEF Loaded
  <2> QED
    BY <1>3, <1>7, <1>9, <1>11, <2>1, <2>2 DEF InLoop
<1>13. Outside'
  <2>1. pc' = "jump" => Loaded(RoundUp(File.size))'
    BY <1>3, <1>6, <1>7 DEF Loaded
  <2> QED
    BY <1>7, <1>11, <2>1 DEF Outside
<1>14. OnTheWay'
  <2>1. Sound' = Sound /\ flaky' = flaky
    BY <1>3 DEF Sound
  <2>2. pc = "sLoop" /\ pc' \in {"sLoop", "jump"}
    BY <1>7 DEF SLoop
  <2>3. Sound /\ ~flaky => dir = disk.root /\ \A j \in 1..(entry - 1) : Skips(disk.root[j])
    BY <2>2 DEF IInv, OnTheWay
  <2>4. Sound /\ ~flaky => dir' = disk'.root /\ \A j \in 1..(entry' - 1) : Skips(disk'.root[j])
    BY <1>3, <2>3
  <2> QED
    BY <2>1, <2>2, <2>4 DEF OnTheWay
<1> QED
  BY <1>10, <1>12, <1>13, <1>14 DEF IInv

-----------------------------------------------------------------------------
(* The other steps leave memory alone.                                     *)

\* What every step but those of the loop keeps.
Still == UNCHANGED <<disk, flaky, dir, edxHigh, fileVars>>

LEMMA StillFacts ==
  ASSUME Still
  PROVE  /\ Untouched' = Untouched /\ Picked' = Picked /\ Sound' = Sound
         /\ Loaded(RoundUp(File.size))' = Loaded(RoundUp(File.size))
  BY DEF Still, fileVars, Untouched, Picked, Sound, Loaded, RoundUp, File

(* Where the primary descriptor of a sound medium lies.                    *)
LEMMA SoundFacts ==
  ASSUME TypeOK, Sound
  PROVE  \E p \in 1..Len(disk.vds) : /\ disk.vds[p] = "pvd"
                                     /\ \A j \in 1..(p - 1) : disk.vds[j] = "boot"
<1>1. DOMAIN disk.vds = 1..Len(disk.vds)
  BY MediumFacts
<1> QED
  BY <1>1 DEF Sound

LEMMA InitGood == Init => IInv
<1> SUFFICES ASSUME Init PROVE IInv
  OBVIOUS
<1>1. TypeOK
  <2>1. dir \in OldDirs /\ dir \in Seq(Records) /\ Len(dir) \in Nat
    BY DiskAssumption DEF Init, DiskAssumption
  <2>2. mem \in [Linear -> Nat \cup {Junk}]
    BY DEF Init
  <2> QED
    BY <2>1, <2>2 DEF Init, TypeOK
<1>2. OnTheWay
  <2>1. Sound => 1 <= Len(disk.vds)
    BY <1>1, SoundFacts
  <2> QED
    BY <2>1 DEF Init, OnTheWay, BootOnly
<1>3. Untouched
  BY DEF Init, Untouched
<1> QED
  BY <1>1, <1>2, <1>3 DEF Init, IInv, InLoop, Outside

LEMMA ReadDescriptorKeeps == IInv /\ ReadDescriptor => IInv'
<1> SUFFICES ASSUME IInv, ReadDescriptor PROVE IInv'
  OBVIOUS
<1>1. Still /\ vd' = vd /\ pc' = "check_descriptor"
  BY DEF ReadDescriptor, Still
<1>2. TypeOK'
  <2>1. pvd' \in Descriptors \cup {"none", "invalid"}
    <3>1. vd \in Nat /\ pvd \in Descriptors \cup {"none", "invalid"}
      BY DEF IInv, TypeOK, Descriptors
    <3>2. Descriptor(vd) = "invalid" \/ vd = 0 \/ Descriptor(vd) \in Descriptors
      BY <3>1, MediumFacts DEF IInv, Descriptor
    <3>3. vd # 0
      BY DEF IInv, TypeOK
    <3> QED
      BY <3>1, <3>2, <3>3 DEF ReadDescriptor, Reads
  <2> QED
    BY <1>1, <2>1 DEF IInv, TypeOK, Still, fileVars, Descriptors
<1>3. Outside'
  BY <1>1, StillFacts DEF IInv, Outside, ReadDescriptor, Still, fileVars
<1>4. OnTheWay'
  <2> SUFFICES ASSUME Sound, ~flaky PROVE OnTheWay'
    BY <1>1, StillFacts DEF OnTheWay, Still
  <2>1. BootOnly
    BY DEF IInv, OnTheWay, ReadDescriptor
  <2>2. pvd' = disk.vds[vd]
    BY <2>1 DEF ReadDescriptor, Reads, Descriptor, BootOnly
  <2> QED
    BY <1>1, <2>1, <2>2 DEF OnTheWay, BootOnly, Still
<1> QED
  BY <1>1, <1>2, <1>3, <1>4 DEF IInv, InLoop

LEMMA CheckDescriptorKeeps == IInv /\ CheckDescriptor => IInv'
<1> SUFFICES ASSUME IInv, CheckDescriptor PROVE IInv'
  OBVIOUS
<1>1. Still /\ pvd' = pvd
  BY DEF CheckDescriptor, Still
<1>2. pc' \in {"iterate_entry", "read_root", "iterate_descriptor"}
  BY DEF CheckDescriptor, AfterDescriptor
<1>3. TypeOK'
  <2>1. vd' \in Nat \ {0}
    BY DEF IInv, TypeOK, CheckDescriptor, NextDescriptor
  <2> QED
    BY <1>1, <1>2, <2>1 DEF IInv, TypeOK, Still, fileVars
<1>4. Outside'
  BY <1>1, <1>2, StillFacts DEF IInv, Outside, CheckDescriptor, Still, fileVars
<1>5. OnTheWay'
  <2> SUFFICES ASSUME Sound, ~flaky PROVE OnTheWay'
    BY <1>1, StillFacts DEF OnTheWay, Still
  <2>1. BootOnly /\ pvd = disk.vds[vd] /\ vd \in Nat \ {0}
    BY DEF IInv, OnTheWay, TypeOK, CheckDescriptor
  <2>2. PICK p \in 1..Len(disk.vds) :
          disk.vds[p] = "pvd" /\ \A j \in 1..(p - 1) : disk.vds[j] = "boot"
    BY SoundFacts DEF IInv
  <2>3. vd <= p
    BY <2>1, <2>2 DEF BootOnly
  <2>4. CASE vd = p
    <3>1. pc' = "read_root"
      BY <2>1, <2>2, <2>4 DEF CheckDescriptor, AfterDescriptor
    <3> QED
      BY <3>1 DEF OnTheWay
  <2>5. CASE vd < p
    <3>1. vd \in 1..(p - 1) /\ pvd = "boot"
      BY <2>1, <2>2, <2>5
    <3>2. pc' = "iterate_descriptor"
      BY <3>1 DEF CheckDescriptor, AfterDescriptor
    <3>3. vd' = vd + 1
      BY <2>1, <3>2 DEF CheckDescriptor, NextDescriptor, BootOnly
    <3>4. BootOnly'
      BY <1>1, <2>2, <2>5, <3>1, <3>3 DEF BootOnly, Still
    <3> QED
      BY <3>2, <3>4 DEF OnTheWay
  <2> QED
    BY <2>1, <2>2, <2>3, <2>4, <2>5
<1> QED
  BY <1>2, <1>3, <1>4, <1>5 DEF IInv, InLoop

LEMMA ReadRootKeeps == IInv /\ ReadRoot => IInv'
<1> SUFFICES ASSUME IInv, ReadRoot PROVE IInv'
  OBVIOUS
<1>1. /\ UNCHANGED <<disk, flaky, vd, pvd, edxHigh, fileVars>>
      /\ pc' = "iterate_entry" /\ dir' \in {disk.root, dir}
      /\ ~flaky => dir' = disk.root
  BY DEF ReadRoot, Reads
<1>2. entry = 1 /\ Untouched
  BY DEF IInv, Outside, ReadRoot
<1>3. TypeOK'
  <2>1. Len(dir') \in Nat
    BY <1>1, DirFacts, MediumFacts DEF IInv
  <2> QED
    BY <1>1, <1>2, <2>1 DEF IInv, TypeOK, fileVars
<1>4. Outside' /\ OnTheWay'
  BY <1>1, <1>2 DEF Outside, OnTheWay, Untouched, fileVars
<1> QED
  BY <1>1, <1>3, <1>4 DEF IInv, InLoop

LEMMA NextEntryKeeps == IInv /\ NextEntry => IInv'
<1> SUFFICES ASSUME IInv, NextEntry PROVE IInv'
  OBVIOUS
<1>1. /\ UNCHANGED <<pc, disk, flaky, vd, pvd, dir, edxHigh, count, cx, seg, off,
                     sector, mem>>
      /\ pc = "iterate_entry" /\ entry' = entry + 1
      /\ entry <= Len(dir) /\ Skips(dir[entry])
  BY DEF NextEntry
<1>2. Len(dir) \in Nat /\ entry \in 1..(Len(dir) + 1)
  BY DirFacts DEF IInv, TypeOK
<1>3. TypeOK'
  BY <1>1, <1>2 DEF IInv, TypeOK
<1>4. Outside'
  BY <1>1 DEF IInv, Outside, Untouched
<1>5. OnTheWay'
  <2>1. Sound' = Sound
    BY <1>1 DEF Sound
  <2> QED
    BY <1>1, <1>2, <2>1 DEF IInv, OnTheWay
<1> QED
  BY <1>1, <1>3, <1>4, <1>5 DEF IInv, InLoop

(* The search ends, with a file or without, or the division fails.         *)
LEMMA SearchEnds ==
  ASSUME IInv, Still, UNCHANGED <<vd, pvd>>,
         \/ pc = "iterate_entry" /\ pc' = "jump" /\ entry > Len(dir)
         \/ pc = "iterate_entry" /\ pc' = "got_file" /\ Picked
         \/ pc = "got_file" /\ pc' = "crashed"
         \/ pc = "jump" /\ pc' = "stage2"
  PROVE  IInv'
<1>1. TypeOK'
  BY DEF IInv, TypeOK, Still, fileVars
<1>2. Outside'
  BY StillFacts DEF IInv, Outside, Still, fileVars
<1>3. OnTheWay'
  BY StillFacts DEF IInv, OnTheWay, Still, fileVars
<1> QED
  BY <1>1, <1>2, <1>3 DEF IInv, InLoop

LEMMA StartLoadKeeps == IInv /\ StartLoad => IInv'
<1> SUFFICES ASSUME IInv, StartLoad PROVE IInv'
  OBVIOUS
<1>1. /\ UNCHANGED <<disk, flaky, vd, pvd, dir, entry, edxHigh, mem>>
      /\ pc = "got_file" /\ pc' = "sLoop" /\ seg' = Seg0 /\ off' = Off0
      /\ sector' = File.lba /\ count' = Quotient(File) /\ cx' = LoopCount(Quotient(File))
      /\ Edx(File) < SectorSize
  BY DEF StartLoad, File
<1>2. Picked /\ File \in Records /\ HasRoom(File) /\ Untouched
  BY <1>1, DirFacts DEF IInv, Outside
<1>3. /\ count' \in 0..(Full - 1) /\ cx' = RoundUp(File.size)
      /\ RoundUp(File.size) \in 1..(Half - 1)
  <2>1. edxHigh \in Nat
    BY DEF IInv, TypeOK
  <2> QED
    BY <1>1, <1>2, <2>1, LoopCountIsSectors
<1>4. File.lba \in Nat /\ File' = File /\ RoundUp(File.size)' = RoundUp(File.size)
  BY <1>1, <1>2 DEF Records, File, RoundUp
<1>5. TypeOK'
  BY <1>1, <1>3, <1>4 DEF IInv, TypeOK
<1>6. InLoop'
  <2>1. Progress' = 0
    BY <1>1, <1>4 DEF Progress
  <2>2. Loaded(Progress)'
    BY <1>1, <1>2, <2>1 DEF Loaded, Untouched
  <2>3. Picked'
    BY <1>1, <1>2 DEF Picked
  <2>4. off' % SectorSize = 0
    BY <1>1, Alignment
  <2>5. seg' * Para + off' = Base + 0 * SectorSize
    BY <1>1 DEF Base
  <2>6. cx' = RoundUp(File.size)' - 0 /\ 0 \in 0..(RoundUp(File.size)' - 1)
    BY <1>3, <1>4
  <2> QED
    BY <2>1, <2>2, <2>3, <2>4, <2>5, <2>6 DEF InLoop
<1>7. Outside'
  BY <1>1 DEF Outside
<1>8. OnTheWay'
  <2>1. Sound' = Sound
    BY <1>1 DEF Sound
  <2> QED
    BY <1>1, <2>1 DEF IInv, OnTheWay
<1> QED
  BY <1>5, <1>6, <1>7, <1>8 DEF IInv

LEMMA StutterKeeps == IInv /\ UNCHANGED vars => IInv'
<1> SUFFICES ASSUME IInv, UNCHANGED vars PROVE IInv'
  OBVIOUS
<1>1. Still /\ UNCHANGED <<pc, vd, pvd>>
  BY DEF vars, Still, fileVars
<1>2. TypeOK' /\ Outside' /\ OnTheWay'
  BY <1>1, StillFacts
     DEF IInv, TypeOK, Outside, OnTheWay, BootOnly, Still, fileVars
<1>3. InLoop'
  BY <1>1 DEF IInv, InLoop, Picked, Loaded, Progress, RoundUp, File, Still, fileVars
<1> QED
  BY <1>2, <1>3 DEF IInv

LEMMA Step == IInv /\ [Next]_vars => IInv'
<1> SUFFICES ASSUME IInv, [Next]_vars PROVE IInv'
  OBVIOUS
<1>1. CASE ReadDescriptor
  BY <1>1, ReadDescriptorKeeps
<1>2. CASE CheckDescriptor
  BY <1>2, CheckDescriptorKeeps
<1>3. CASE ReadRoot
  BY <1>3, ReadRootKeeps
<1>4. CASE NextEntry
  BY <1>4, NextEntryKeeps
<1>5. CASE DidntFind
  BY <1>5, SearchEnds DEF DidntFind, Still
<1>6. CASE FoundFile
  BY <1>6, SearchEnds DEF FoundFile, Still, Picked
<1>7. CASE DivideError
  BY <1>7, SearchEnds DEF DivideError, Still
<1>8. CASE StartLoad
  BY <1>8, StartLoadKeeps
<1>9. CASE SLoop
  BY <1>9, SLoopKeeps
<1>10. CASE Jump
  BY <1>10, SearchEnds DEF Jump, Still
<1>11. CASE UNCHANGED vars
  BY <1>11, StutterKeeps
<1> QED
  BY <1>1, <1>2, <1>3, <1>4, <1>5, <1>6, <1>7, <1>8, <1>9, <1>10, <1>11 DEF Next

THEOREM Invariance == Spec => []IInv
<1> QED
  BY InitGood, Step, PTL DEF Spec

-----------------------------------------------------------------------------
(* The theorems.                                                           *)

(* Every register of the first stage stays in its width, every address it  *)
(* writes is one of real mode, and the record it looks at is one of the    *)
(* directory sector or the end of it.                                      *)
THEOREM TypeCorrect == Spec => []TypeOK
<1>1. IInv => TypeOK
  BY DEF IInv
<1> QED
  BY <1>1, Invariance, PTL

(* Segment and offset always name the address behind what was read, and    *)
(* all that lies in memory is one file in its order, also where int 13h    *)
(* fails and nobody looks at the carry flag (disk.inc:61-88).              *)
THEOREM LoadKeepsOrder == Spec => []LoadIsContiguous
<1>1. ASSUME IInv PROVE LoadIsContiguous
  <2>1. pc = "sLoop" =>
          seg * Para + off = Base + (sector - dir[entry].lba) * SectorSize
    BY <1>1 DEF IInv, InLoop, Progress, File
  <2>2. ASSUME NEW a \in Linear, mem[a] # Junk
        PROVE  a - Base = (mem[a] - dir[entry].lba) * SectorSize
    <3>1. Picked /\ \E n \in Int : Loaded(n)
      BY <1>1, <2>2, SizeKnown DEF IInv, Outside, InLoop, Untouched
    <3>2. PICK j \in Nat : a = Base + j * SectorSize /\ mem[a] = File.lba + j
      BY <2>2, <3>1 DEF Loaded
    <3>3. File.lba \in Nat
      BY <1>1, <3>1, DirFacts DEF IInv, Records
    <3> QED
      BY <3>2, <3>3 DEF File, Base
  <2> QED
    BY <2>1, <2>2 DEF LoadIsContiguous
<1> QED
  BY <1>1, Invariance, PTL

(* Main jumps into a complete STAGE2.BIN whenever the medium is sound and  *)
(* can be read, whatever its size below 1 MB, its place on the medium and  *)
(* the number of descriptors before the primary one.                       *)
THEOREM Stage2IsIntact == Spec => []Stage2Intact
<1>1. ASSUME IInv PROVE Stage2Intact
  <2> SUFFICES ASSUME pc = "stage2", Sound, ~flaky
               PROVE  \E i \in DOMAIN disk.root :
                        IsStage2(disk.root[i]) /\ Holds(disk.root[i])
    BY DEF Stage2Intact
  <2>1. dir = disk.root /\ \A j \in 1..(entry - 1) : Skips(disk.root[j])
    BY <1>1 DEF IInv, OnTheWay
  <2>2. DOMAIN disk.root = 1..Len(disk.root) /\ Len(disk.root) \in Nat
    BY <1>1, MediumFacts DEF IInv
  <2>3. PICK i \in DOMAIN disk.root : IsStage2(disk.root[i])
    BY DEF Sound
  <2>4. ~Skips(disk.root[i])
    BY <2>3 DEF IsStage2, Skips, Matches
  <2>5. entry <= Len(dir)
    BY <1>1, <2>1, <2>2, <2>3, <2>4 DEF IInv, TypeOK
  <2>6. Picked /\ Loaded(RoundUp(File.size))
    BY <1>1, <2>1, <2>2, <2>5 DEF IInv, TypeOK, Outside
  <2>7. entry \in DOMAIN disk.root /\ File = disk.root[entry] /\ File \in Records
    BY <1>1, <2>1, <2>2, <2>6, DirFacts DEF IInv, File
  <2>8. IsStage2(File)
    BY <2>6, <2>7 DEF Picked, Sound, Skips, Matches, IsStage2, File, Records, Names
  <2>9. Holds(File)
    BY <2>6 DEF Loaded, Holds
  <2> QED
    BY <2>7, <2>8, <2>9
<1> QED
  BY <1>1, Invariance, PTL
=============================================================================
