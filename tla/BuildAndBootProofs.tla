------------------------- MODULE BuildAndBootProofs -------------------------
(***************************************************************************)
(* For every header the first build may find, any number of runs of the    *)
(* revision tool, and a screen of any size: the numbers on their way from  *)
(* the header to the image, and the place of every character on the        *)
(* screen.                                                                 *)
(***************************************************************************)
EXTENDS BuildAndBoot, WellFoundedInduction, SequenceTheorems, TLAPS

USE ConsoleAssumption DEF ConsoleAssumption

-----------------------------------------------------------------------------
(* What the tool reads from a header.                                      *)

Lines == [name : R!Names, value : Nat]
Texts == Seq(Lines)

\* Every line of h has one in g with its name and no smaller number.
Below(h, g) ==
  \A i \in DOMAIN h : \E j \in DOMAIN g :
    /\ h[i].name = g[j].name
    /\ h[i].value <= g[j].value

LEMMA LineFacts ==
  ASSUME NEW h \in Texts
  PROVE  /\ Len(h) \in Nat /\ DOMAIN h = 1..Len(h)
         /\ \A i \in DOMAIN h : h[i] \in Lines /\ h[i].value \in Nat
<1>1. Len(h) \in Nat /\ DOMAIN h = 1..Len(h) /\ \A i \in DOMAIN h : h[i] \in Lines
  BY DEF Texts
<1>2. \A l \in Lines : l.value \in Nat
  BY DEF Lines
<1> QED
  BY <1>1, <1>2

LEMMA LeastNat ==
  ASSUME NEW S \in SUBSET Nat, S # {}
  PROVE  \E x \in S : \A y \in S : x <= y
<1>1. PICK x \in S : \A y \in S : ~ (<<y, x>> \in OpToRel(<, Nat))
  BY NatLessThanWellFounded, WFMin
<1>2. ASSUME NEW y \in S PROVE ~ (y < x)
  BY <1>1 DEF OpToRel
<1> QED
  BY <1>2

(* The number read for a field is one that stands in a line of its name.   *)
LEMMA ReadFromLine ==
  ASSUME NEW h \in Texts, NEW f \in R!Fields
  PROVE  \/ /\ \A i \in DOMAIN h : h[i].name # f
            /\ R!GetRevision(h)[f] = 0
         \/ \E i \in DOMAIN h : h[i].name = f /\ R!GetRevision(h)[f] = h[i].value
<1> DEFINE found == {i \in DOMAIN h : h[i].name = f}
           last == CHOOSE i \in found : \A j \in found : j <= i
<1>1. R!GetRevision(h)[f] = IF found = {} THEN 0 ELSE h[last].value
  BY Zenon DEF R!GetRevision
<1>2. CASE found # {}
  <2> DEFINE behind == {Len(h) - i : i \in found}
  <2>1. \A i \in found : i \in 1..Len(h) /\ Len(h) \in Nat
    BY LineFacts
  <2>2. behind \in SUBSET Nat /\ behind # {}
    BY <1>2, <2>1
  <2>3. PICK d \in behind : \A e \in behind : d <= e
    BY <2>2, LeastNat
  <2>4. PICK i \in found : d = Len(h) - i
    BY <2>3
  <2>5. ASSUME NEW j \in found PROVE j <= i
    <3>1. d <= Len(h) - j
      BY <2>3
    <3> HIDE DEF found, behind
    <3> QED
      BY <2>1, <2>4, <3>1
  <2>6. last \in found
    BY <2>4, <2>5, Zenon
  <2> QED
    BY <1>1, <1>2, <2>6, Zenon
<1> QED
  BY <1>1, <1>2, Zenon

LEMMA RevisionType ==
  ASSUME NEW h \in Texts
  PROVE  R!GetRevision(h) \in [R!Fields -> Nat]
<1>1. ASSUME NEW f \in R!Fields PROVE R!GetRevision(h)[f] \in Nat
  BY ReadFromLine, LineFacts
<1> QED
  BY <1>1 DEF R!GetRevision

(* Without lines every number is 0.                                        *)
LEMMA NoLines == <<>> \in Texts /\ \A f \in R!Fields : R!GetRevision(<<>>)[f] = 0
BY DEF Texts, R!GetRevision

(* What main has written is read back as it was.                           *)
LEMMA WrittenIsRead ==
  ASSUME NEW n \in [R!Fields -> Nat]
  PROVE  R!Generated(n) \in Texts /\ R!GetRevision(R!Generated(n)) = n
<1> DEFINE g == R!Generated(n)
<1>1. g \in Texts /\ DOMAIN g = 1..7
  <2>1. \A name \in R!Names, value \in Nat : R!Line(name, value) \in Lines
    BY DEF R!Line, Lines
  <2>2. \A f \in R!Fields : n[f] \in Nat
    OBVIOUS
  <2>3. /\ R!Line("guard", 0) \in Lines /\ R!Line("BUILD_DATE", 0) \in Lines
        /\ R!Line("BUILD_SYSTEM", 0) \in Lines /\ R!Line("endif", 0) \in Lines
    BY <2>1 DEF R!Names
  <2>4. /\ R!Line("REVISION_MAJOR", n["REVISION_MAJOR"]) \in Lines
        /\ R!Line("REVISION_MINOR", n["REVISION_MINOR"]) \in Lines
        /\ R!Line("REVISION_BUILD", n["REVISION_BUILD"]) \in Lines
    BY <2>1, <2>2 DEF R!Fields, R!Names
  <2> QED
    BY <2>3, <2>4 DEF R!Generated, Texts
<1>2. \A f \in R!Fields : \E i \in 1..7 : g[i].name = f
  BY DEF R!Generated, R!Line, R!Fields
<1>3. \A f \in R!Fields : \A i \in 1..7 : g[i].name = f => g[i].value = n[f]
  BY DEF R!Generated, R!Line, R!Fields
<1> HIDE DEF g
<1>4. ASSUME NEW f \in R!Fields PROVE R!GetRevision(g)[f] = n[f]
  <2>1. \E i \in DOMAIN g : g[i].name = f
    BY <1>1, <1>2
  <2>2. \E i \in DOMAIN g : g[i].name = f /\ R!GetRevision(g)[f] = g[i].value
    BY <1>1, <2>1, ReadFromLine, Zenon
  <2> QED
    BY <1>1, <1>3, <2>2
<1>5. R!GetRevision(g) \in [R!Fields -> Nat]
  BY <1>1, RevisionType
<1> QED
  BY <1>1, <1>4, <1>5 DEF g

(* A number is cut by a division.                                          *)
LEMMA CutFacts ==
  ASSUME NEW line \in Lines, NEW power \in R!Powers
  PROVE  /\ R!Cut(line, power) \in Lines
         /\ R!Cut(line, power).name = line.name
         /\ R!Cut(line, power).value <= line.value
<1>1. \A v \in Nat : v \div power \in Nat /\ v \div power <= v
  BY DEF R!Powers
<1>2. line.value \in Nat /\ line.value \div power \in Nat
      /\ line.value \div power <= line.value
  BY <1>1 DEF Lines
<1>3. R!Cut(line, power) = [line EXCEPT !.value = line.value \div power]
  BY Zenon DEF R!Cut
<1> DEFINE v == line.value \div power
<1>4. v \in Nat /\ v <= line.value
  BY <1>2
<1> HIDE DEF v
<1>5. /\ [line EXCEPT !.value = v] \in Lines
      /\ [line EXCEPT !.value = v].name = line.name
      /\ [line EXCEPT !.value = v].value <= line.value
  BY <1>4 DEF Lines
<1> QED
  BY <1>3, <1>5, Zenon DEF v

(* What is left of it when the write is cut short, within a number or not, *)
(* reads as no larger numbers; it is complete only if nothing is missing.  *)
LEMMA CutIsBelow ==
  ASSUME NEW n \in [R!Fields -> Nat], NEW h \in R!Prefixes(R!Generated(n))
  PROVE  /\ h \in Texts
         /\ \A f \in R!Fields : R!GetRevision(h)[f] <= n[f]
         /\ Len(h) = Len(R!Generated(n)) => h = R!Generated(n)
<1> DEFINE g == R!Generated(n)
<1>1. g \in Texts /\ Len(g) \in Nat /\ DOMAIN g = 1..Len(g) /\ R!GetRevision(g) = n
  BY WrittenIsRead DEF Texts
<1>2. /\ \A f \in R!Fields : \A i \in DOMAIN g : g[i].name = f => g[i].value = n[f]
      /\ g[Len(g)].value = 0
  BY DEF R!Generated, R!Line, R!Fields
<1>0. \A power \in R!Powers : power \in Nat /\ power > 0
  BY DEF R!Powers
<1> HIDE DEF g
<1>3. h \in Texts /\ Below(h, g) /\ (Len(h) = Len(g) => h = g)
  <2>1. CASE \E k \in 0..Len(g) : h = SubSeq(g, 1, k)
    <3>1. PICK k \in 0..Len(g) : h = SubSeq(g, 1, k)
      BY <2>1
    <3>2. h \in Texts /\ DOMAIN h = 1..k /\ \A i \in 1..k : h[i] = g[i]
      BY <1>1, <3>1 DEF Texts
    <3> QED
      <4>1. Below(h, g)
        BY <1>1, <3>2, LineFacts DEF Below
      <4>2. Len(h) = k
        BY <1>1, <3>1 DEF Texts
      <4>3. SubSeq(g, 1, Len(g)) = g
        BY <1>1 DEF Texts
      <4> QED
        BY <3>1, <3>2, <4>1, <4>2, <4>3, Zenon
  <2>2. CASE \E k \in DOMAIN g : \E power \in {p \in R!Powers : p <= g[k].value} :
               h = Append(SubSeq(g, 1, k - 1), R!Cut(g[k], power))
    <3>1. PICK k \in DOMAIN g, power \in R!Powers :
                 /\ power <= g[k].value
                 /\ h = Append(SubSeq(g, 1, k - 1), R!Cut(g[k], power))
      BY <2>2
    <3> DEFINE cut == R!Cut(g[k], power)
    <3>2. g[k] \in Lines /\ k \in 1..Len(g) /\ k # Len(g)
      BY <1>0, <1>1, <1>2, <3>1 DEF Texts
    <3>3. cut \in Lines /\ cut.name = g[k].name /\ cut.value <= g[k].value
      BY <3>2, CutFacts, Zenon
    <3> HIDE DEF cut
    <3>4. SubSeq(g, 1, k - 1) \in Texts /\ Len(SubSeq(g, 1, k - 1)) = k - 1
          /\ \A i \in 1..(k - 1) : SubSeq(g, 1, k - 1)[i] = g[i]
      BY <1>1, <3>2 DEF Texts
    <3>5. h \in Texts /\ DOMAIN h = 1..k /\ h[k] = cut
          /\ \A i \in 1..(k - 1) : h[i] = g[i]
      BY <3>1, <3>2, <3>3, <3>4 DEF Texts, cut
    <3>6. ASSUME NEW i \in 1..k
          PROVE  h[i].name = g[i].name /\ h[i].value <= g[i].value /\ i \in DOMAIN g
      <4>1. i \in DOMAIN g /\ (i = k \/ i \in 1..(k - 1))
        BY <1>1, <3>2
      <4>2. g[i].value \in Nat
        BY <1>1, <4>1, LineFacts
      <4> QED
        BY <3>3, <3>5, <4>1, <4>2
    <3> QED
      <4>1. Below(h, g)
        BY <3>5, <3>6 DEF Below
      <4>2. Len(h) = k
        BY <1>1, <3>2, <3>5 DEF Texts
      <4> QED
        BY <3>2, <3>5, <4>1, <4>2
  <2> QED
    BY <2>1, <2>2 DEF R!Prefixes, g
<1>4. ASSUME NEW f \in R!Fields PROVE R!GetRevision(h)[f] <= n[f]
  <2>1. CASE R!GetRevision(h)[f] = 0
    BY <2>1
  <2>2. CASE \E i \in DOMAIN h : h[i].name = f /\ R!GetRevision(h)[f] = h[i].value
    BY <1>2, <1>3, <2>2 DEF Below
  <2> QED
    BY <1>3, <2>1, <2>2, ReadFromLine
<1> QED
  BY <1>3, <1>4 DEF g

-----------------------------------------------------------------------------
(* The inductive invariant of the build: while the header is as a run has  *)
(* left it, it says what the runs have asked for, or less once one was cut *)
(* short; while it is empty, the numbers about to be written do.  Behind a *)
(* run that has returned 0 it is what this run has generated, or a prefix. *)

Shows(n) == /\ ~damaged => n = counted
            /\ \A f \in R!Fields : n[f] <= counted[f]

Counted == /\ header \in Texts
           /\ tool # "generating" => Shows(R!GetRevision(header))
           /\ tool = "parsed" => numbers = R!GetRevision(header)
           /\ tool = "generating" => header = <<>> /\ Shows(numbers)
           /\ tool = "idle" /\ status = 0 /\ runs > 0 =>
                header \in {R!Generated(numbers)} \cup R!Prefixes(R!Generated(numbers))

RevInv == TypeOK /\ Counted

LEMMA RunsBound == MaxRuns \in Nat
BY HeaderAssumption DEF HeaderAssumption

LEMMA IncrementFacts ==
  ASSUME NEW c \in R!Commands, NEW n \in [R!Fields -> Nat]
  PROVE  /\ R!FieldOf[c] \in R!Fields
         /\ [n EXCEPT ![R!FieldOf[c]] = @ + 1] \in [R!Fields -> Nat]
BY DEF R!Commands, R!FieldOf, R!Fields

LEMMA RevisionInit == Init => RevInv
<1> SUFFICES ASSUME Init PROVE RevInv
  OBVIOUS
<1>1. /\ header \in Texts /\ tool = "idle" /\ counted = R!GetRevision(header)
      /\ numbers = R!GetRevision(<<>>) /\ runs = 0 /\ image = NoImage
      /\ command = "build" /\ status = 0 /\ damaged = FALSE
  BY HeaderAssumption DEF HeaderAssumption, Init, R!Init, Texts, Lines
<1>2. counted \in [R!Fields -> Nat] /\ numbers \in [R!Fields -> Nat]
  BY <1>1, NoLines, RevisionType
<1>3. R!TypeOK
  <2>1. runs \in 0..MaxRuns /\ status \in {0, 1} /\ command \in R!Commands
    BY <1>1, RunsBound DEF R!Commands
  <2> QED
    BY <1>1, <1>2, <2>1 DEF R!TypeOK
<1>4. /\ machine = "off" /\ DOMAIN videoMem = Rows /\ DOMAIN over = Rows
      /\ \A r \in Rows : DOMAIN videoMem[r] = Columns
      /\ cursor_line \in 0..IdentityLines
  BY IdentityAssumption DEF IdentityAssumption, Init, Off, BlankLine, Nowhere
<1>5. Shows(counted)
  BY <1>2 DEF Shows
<1> QED
  BY <1>1, <1>3, <1>4, <1>5 DEF RevInv, TypeOK, Cleared, Counted

(* Steps of the revision tool.                                             *)
LEMMA CountKeeps == RevInv /\ Count => RevInv'
<1> SUFFICES ASSUME RevInv, Count PROVE RevInv'
  OBVIOUS
<1>1. R!Next /\ machine = "off" /\ UNCHANGED <<consoleVars, image, machine, cursor_line>>
  BY DEF Count
<1>2. /\ header \in Texts /\ R!TypeOK
      /\ command \in R!Commands
      /\ numbers \in [R!Fields -> Nat] /\ counted \in [R!Fields -> Nat]
      /\ R!GetRevision(header) \in [R!Fields -> Nat]
  BY RevisionType DEF RevInv, TypeOK, R!TypeOK, Counted
<1> DEFINE more(n) == [n EXCEPT ![R!FieldOf[command]] = @ + 1]
<1> DEFINE Kept == R!TypeOK' /\ Counted'
<1>3. Kept
  <2>1. ASSUME NEW c \in R!Commands, R!Parse(c) PROVE Kept
    <3>1. runs' \in 0..MaxRuns
      BY <2>1, RunsBound DEF R!Parse, RevInv, TypeOK, R!TypeOK
    <3> QED
      BY <1>2, <2>1, <3>1 DEF R!Parse, RevInv, R!TypeOK, Counted, Shows
  <2>2. CASE R!InvalidOutput
    BY <1>2, <2>2 DEF R!InvalidOutput, RevInv, R!TypeOK, Counted, Shows
  <2>3. CASE R!Truncate
    <3>1. more(numbers) \in [R!Fields -> Nat] /\ more(counted) \in [R!Fields -> Nat]
      BY <1>2, IncrementFacts
    <3>2. numbers' = more(numbers) /\ counted' = more(counted)
      BY <2>3 DEF R!Truncate
    <3>3. Shows(numbers)
      BY <2>3 DEF R!Truncate, RevInv, Counted
    <3>4. \A f \in R!Fields : more(numbers)[f] <= more(counted)[f] /\ counted[f] <= more(counted)[f]
      BY <1>2, <3>3 DEF Shows
    <3>5. Shows(numbers)'
      BY <2>3, <3>2, <3>3, <3>4 DEF Shows, R!Truncate
    <3>6. R!TypeOK'
      BY <1>2, <2>3, <3>1, <3>2 DEF R!Truncate, R!TypeOK
    <3> QED
      BY <2>3, <3>2, <3>4, <3>5, <3>6, NoLines DEF R!Truncate, Counted
  <2>4. CASE R!Write
    <3>1. header' = R!Generated(numbers) /\ UNCHANGED <<numbers, counted, damaged>>
      BY <2>4 DEF R!Write
    <3>2. header' \in Texts /\ R!GetRevision(header)' = numbers
      BY <1>2, <3>1, WrittenIsRead DEF R!GetRevision
    <3>3. Shows(numbers)
      BY <2>4 DEF R!Write, RevInv, Counted
    <3>4. Shows(R!GetRevision(header))'
      BY <3>1, <3>2, <3>3 DEF Shows
    <3>5. header' = R!Generated(numbers')
      BY <3>1
    <3> QED
      BY <1>2, <2>4, <3>1, <3>2, <3>4, <3>5 DEF R!Write, Counted, R!TypeOK
  <2>5. CASE tool = "generating" /\ (R!WriteFails \/ R!Killed)
    <3>1. /\ header' \in {header} \cup R!Prefixes(R!Generated(numbers))
          /\ tool' = "idle" /\ status' \in {0, 1} /\ damaged'
          /\ status' = 0 => header' \in R!Prefixes(R!Generated(numbers))
          /\ UNCHANGED <<command, numbers, counted, runs>>
      <4>1. CASE R!WriteFails
        BY <4>1 DEF R!WriteFails
      <4>2. CASE R!Killed
        <5>1. header' \in {header} \cup R!Prefixes(R!Generated(numbers))
          BY <2>5, <4>2 DEF R!Killed
        <5>2. damaged'
          BY <2>5, <4>2, Zenon DEF R!Killed
        <5> QED
          BY <4>2, <5>1, <5>2 DEF R!Killed
      <4> QED
        BY <2>5, <4>1, <4>2
    <3>2. Shows(numbers) /\ header = <<>>
      BY <2>5 DEF RevInv, Counted
    <3>3. header' \in Texts /\ \A f \in R!Fields : R!GetRevision(header')[f] <= numbers[f]
      BY <1>2, <3>1, <3>2, NoLines, CutIsBelow
    <3>4. R!GetRevision(header') \in [R!Fields -> Nat]
      BY <3>3, RevisionType
    <3>5. \A f \in R!Fields : R!GetRevision(header')[f] <= counted[f]
      BY <1>2, <3>2, <3>3, <3>4 DEF Shows
    <3>6. Shows(R!GetRevision(header))'
      BY <3>1, <3>5 DEF Shows, R!GetRevision
    <3>7. R!TypeOK'
      BY <1>2, <3>1 DEF R!TypeOK
    <3>8. status' = 0 => header' \in R!Prefixes(R!Generated(numbers'))
      BY <3>1
    <3> QED
      BY <1>2, <3>1, <3>3, <3>6, <3>7, <3>8 DEF Counted
  <2>6. CASE tool # "generating" /\ R!Killed
    BY <1>2, <2>6 DEF R!Killed, RevInv, R!TypeOK, Counted, Shows
  <2> QED
    BY <1>1, <2>1, <2>2, <2>3, <2>4, <2>5, <2>6 DEF R!Next, R!WriteFails
<1>4. TypeOK'
  BY <1>1, <1>3 DEF RevInv, TypeOK, Cleared, consoleVars, Rows, Columns
<1> QED
  BY <1>3, <1>4 DEF RevInv

LEMMA HeaderStays ==
  ASSUME RevInv, UNCHANGED revisionVars
  PROVE  R!TypeOK' /\ Counted'
<1>1. UNCHANGED <<header, tool, command, numbers, status, counted, damaged, runs>>
  BY DEF revisionVars
<1>2. R!TypeOK'
  BY <1>1 DEF RevInv, TypeOK, R!TypeOK
<1>3. R!GetRevision(header)' = R!GetRevision(header)
  BY <1>1 DEF R!GetRevision
<1>4. Shows(R!GetRevision(header))' = Shows(R!GetRevision(header))
  BY <1>1, <1>3 DEF Shows
<1>5. Shows(numbers)' = Shows(numbers)
  BY <1>1 DEF Shows
<1>6. Counted'
  BY <1>1, <1>3, <1>4, <1>5 DEF RevInv, Counted
<1> QED
  BY <1>2, <1>6

(* The numbers in the image are those of a complete header.                *)
LEMMA CompileKeeps == RevInv /\ Compile => RevInv'
<1> SUFFICES ASSUME RevInv, Compile PROVE RevInv'
  OBVIOUS
<1>1. /\ image' = R!GetRevision(header)
      /\ UNCHANGED <<revisionVars, consoleVars, machine, cursor_line>>
  BY DEF Compile
<1>2. image' \in [R!Fields -> Nat]
  BY <1>1, RevisionType DEF RevInv, Counted
<1>3. R!TypeOK' /\ Counted'
  BY <1>1, HeaderStays
<1>4. TypeOK'
  BY <1>1, <1>2, <1>3 DEF RevInv, TypeOK, Cleared, consoleVars, Rows, Columns
<1> QED
  BY <1>3, <1>4 DEF RevInv

(* Whatever leaves the header and the tool alone, and takes the image away *)
(* or leaves it, keeps what is said of them.                               *)
LEMMA BuildStays ==
  ASSUME RevInv, UNCHANGED revisionVars, image' \in {image, NoImage}
  PROVE  /\ R!TypeOK' /\ Counted'
         /\ image' = NoImage \/ image' \in [R!Fields -> Nat]
<1>1. R!TypeOK' /\ Counted'
  BY HeaderStays
<1>2. image' = NoImage \/ image' \in [R!Fields -> Nat]
  BY DEF RevInv, TypeOK
<1> QED
  BY <1>1, <1>2

-----------------------------------------------------------------------------
(* The cursor stays on the screen.                                         *)

Screen == /\ DOMAIN videoMem = Rows /\ \A r \in Rows : DOMAIN videoMem[r] = Columns
          /\ DOMAIN over = Rows
          /\ Cleared => row \in Rows /\ column \in Columns

LEMMA MoveStays ==
  ASSUME NEW r \in 0..SCREEN_HEIGHT, NEW c \in Columns, NEW mem, NEW marks,
         DOMAIN mem = Rows, \A q \in Rows : DOMAIN mem[q] = Columns,
         DOMAIN marks = Rows, MoveTo(r, c, mem, marks)
  PROVE  Screen'
<1>1. row' \in Rows /\ column' \in Columns
  BY DEF MoveTo, Full, Rows
<1>2. /\ DOMAIN videoMem' = Rows /\ \A q \in Rows : DOMAIN videoMem'[q] = Columns
      /\ DOMAIN over' = Rows
  <2>1. CASE Full(r)
    BY <2>1 DEF MoveTo, Scrolled, Up, BlankLine
  <2>2. CASE ~Full(r)
    BY <2>2 DEF MoveTo
  <2> QED
    BY <2>1, <2>2
<1> QED
  BY <1>1, <1>2 DEF Screen

LEMMA PrintStays ==
  ASSUME Screen, Cleared, boot_print
  PROVE  Screen'
<1>1. row \in Rows /\ column \in Columns /\ row + 1 \in 0..SCREEN_HEIGHT
      /\ row \in 0..SCREEN_HEIGHT /\ 0 \in Columns
  BY DEF Screen, Rows, Columns
<1>2. CASE PutNewLine
  BY <1>1, <1>2, MoveStays DEF PutNewLine, Screen
<1>3. CASE PutCharacter
  <2> DEFINE mem == [videoMem EXCEPT ![row][column] = Head(str)]
             marks == [over EXCEPT ![row] = @ \ {column}]
  <2>1. /\ DOMAIN mem = Rows /\ \A q \in Rows : DOMAIN mem[q] = Columns
        /\ DOMAIN marks = Rows
    BY <1>1 DEF Screen
  <2>2. IF column + 1 >= SCREEN_WIDTH THEN MoveTo(row + 1, 0, mem, marks)
                                      ELSE MoveTo(row, column + 1, mem, marks)
    BY <1>3 DEF PutCharacter
  <2> HIDE DEF mem, marks
  <2>3. CASE column + 1 >= SCREEN_WIDTH
    BY <1>1, <2>1, <2>2, <2>3, MoveStays
  <2>4. CASE ~(column + 1 >= SCREEN_WIDTH)
    <3>1. column + 1 \in Columns
      BY <1>1, <2>4 DEF Columns
    <3> QED
      BY <1>1, <2>1, <2>2, <2>4, <3>1, MoveStays
  <2> QED
    BY <2>3, <2>4
<1> QED
  BY <1>2, <1>3 DEF boot_print

LEMMA ClearedScreen ==
  ASSUME boot_clear_screen
  PROVE  Screen'
BY DEF boot_clear_screen, Screen, Rows, Columns, BlankLine, Nowhere

(* What is written past boot_print leaves the cursor where it is.          *)
LEMMA WrittenOver ==
  ASSUME Screen, NEW r \in Rows, NEW size, WriteOver(r, size), Cleared' => Cleared
  PROVE  Screen'
<1>1. DOMAIN videoMem' = Rows /\ \A q \in Rows : DOMAIN videoMem'[q] = Columns
  BY DEF Screen, WriteOver
<1>2. DOMAIN over' = Rows /\ UNCHANGED <<row, column>>
  BY DEF Screen, WriteOver
<1>3. Cleared' => row' \in Rows /\ column' \in Columns
  BY <1>2 DEF Screen, Rows, Columns
<1> QED
  BY <1>1, <1>2, <1>3 DEF Screen

LEMMA FirstRow == 0 \in Rows /\ \A r \in 0..IdentityLines : r < IdentityLines => r \in Rows
BY IdentityAssumption DEF IdentityAssumption, Rows

LEMMA MachineKeeps ==
  /\ RevInv
  /\ \/ Clean \/ PowerOn \/ init_print_stage2 \/ print_fixed_size_string
     \/ PrintMore \/ PrintNext \/ PrintString32 \/ PowerOff
  => RevInv'
<1> SUFFICES ASSUME RevInv,
                    \/ Clean \/ PowerOn \/ init_print_stage2 \/ print_fixed_size_string
                    \/ PrintMore \/ PrintNext \/ PrintString32 \/ PowerOff
             PROVE  RevInv'
  OBVIOUS
<1>1. UNCHANGED revisionVars /\ image' \in {image, NoImage}
  BY DEF Clean, PowerOn, init_print_stage2, print_fixed_size_string, PrintMore, PrintNext,
         PrintString32, PowerOff
<1>2. /\ Screen' /\ machine' \in {"off", "on", "identifying", "printing", "halted"}
      /\ cursor_line' \in 0..IdentityLines
  <2>1. /\ Screen /\ machine \in {"off", "on", "identifying", "printing", "halted"}
        /\ cursor_line \in 0..IdentityLines /\ IdentityLines \in Nat
    BY IdentityAssumption DEF IdentityAssumption, RevInv, TypeOK, Screen
  <2>2. CASE Clean
    BY <2>1, <2>2 DEF Clean, Screen, consoleVars, Cleared
  <2>3. CASE PowerOn
    <3>1. /\ DOMAIN videoMem' = Rows /\ \A r \in Rows : DOMAIN videoMem'[r] = Columns
          /\ over' = over /\ machine' = "on" /\ cursor_line' = cursor_line
      BY <2>3 DEF PowerOn, Off, BlankLine
    <3> QED
      BY <2>1, <3>1 DEF Screen, Cleared
  <2>4. CASE init_print_stage2
    BY <2>1, <2>4, ClearedScreen DEF init_print_stage2
  <2>5. CASE print_fixed_size_string
    <3>1. Cleared /\ machine' = machine /\ cursor_line < IdentityLines
          /\ cursor_line' = cursor_line + 1
      BY <2>5 DEF print_fixed_size_string, Cleared
    <3>2. CASE UNCHANGED consoleVars
      BY <2>1, <3>1, <3>2 DEF Screen, consoleVars, Cleared
    <3>3. CASE \E size \in Sizes : WriteOver(cursor_line, size)
      <4>1. Screen'
        BY <2>1, <3>1, <3>3, FirstRow, WrittenOver
      <4> QED
        BY <2>1, <3>1, <4>1
    <3> QED
      BY <2>5, <3>2, <3>3 DEF print_fixed_size_string
  <2>6. CASE PrintMore
    <3>1. UNCHANGED <<videoMem, row, column, over, cursor_line>> /\ machine' = "printing"
          /\ Cleared
      BY <2>6 DEF PrintMore, Say, Cleared
    <3> QED
      BY <2>1, <3>1 DEF Screen
  <2>7. CASE PrintNext
    <3>1. Cleared /\ boot_print /\ UNCHANGED <<machine, cursor_line>>
      BY <2>7 DEF PrintNext, Cleared
    <3> QED
      BY <2>1, <3>1, PrintStays
  <2>8. CASE PrintString32
    <3>1. Cleared /\ machine' = "halted" /\ cursor_line' = cursor_line
          /\ \E size \in Sizes : WriteOver(0, size)
      BY <2>8 DEF PrintString32, Cleared
    <3>2. Screen'
      BY <2>1, <3>1, FirstRow, WrittenOver
    <3> QED
      BY <2>1, <3>1, <3>2
  <2>9. CASE PowerOff
    BY <2>1, <2>9 DEF PowerOff, Screen, Off, BlankLine, Nowhere, Cleared
  <2> QED
    BY <2>2, <2>3, <2>4, <2>5, <2>6, <2>7, <2>8, <2>9
<1> QED
  BY <1>1, <1>2, BuildStays DEF RevInv, TypeOK, Screen

LEMMA NothingHappens == RevInv /\ UNCHANGED vars => RevInv'
<1> SUFFICES ASSUME RevInv, UNCHANGED vars PROVE RevInv'
  OBVIOUS
<1>1. /\ UNCHANGED revisionVars /\ image' = image /\ UNCHANGED consoleVars
      /\ machine' = machine /\ cursor_line' = cursor_line
  BY DEF vars
<1>2. /\ Screen' /\ machine' \in {"off", "on", "identifying", "printing", "halted"}
      /\ cursor_line' \in 0..IdentityLines
  BY <1>1 DEF RevInv, TypeOK, Screen, consoleVars, Cleared
<1> QED
  BY <1>1, <1>2, BuildStays DEF RevInv, TypeOK, Screen

LEMMA Invariance == Spec => []RevInv
<1>1. RevInv /\ [Next]_vars => RevInv'
  BY CountKeeps, CompileKeeps, MachineKeeps, NothingHappens DEF Next
<1> QED
  BY <1>1, RevisionInit, PTL DEF Spec

(* The type invariant (print.c, revision.c): in particular the cursor is   *)
(* on the screen from the clear on, for a screen of any size.              *)
THEOREM TypeCorrect == Spec => []TypeOK
<1>1. RevInv => TypeOK
  BY DEF RevInv
<1> QED
  BY <1>1, Invariance, PTL

(* Runs of the tool that end in their own time never lose a number, and no *)
(* run makes one larger than what was asked for (revision.c:main).         *)
THEOREM NumbersAreKept == Spec => []NumbersKept
<1>1. RevInv => NumbersKept
  BY DEF RevInv, NumbersKept, R!Kept, Counted, Shows
<1> QED
  BY <1>1, Invariance, PTL

(* Whatever is compiled are the numbers of the last run of the tool, none  *)
(* ahead of what was asked for and, if no run was cut short, exactly those *)
(* (revision.c:225-226, the dependencies of src/Makefile:27).              *)
THEOREM ImageIsCounted == Spec => CompiledAsCounted
<1> DEFINE A == image' \notin {image, NoImage} =>
                  /\ image' = numbers
                  /\ \A f \in R!Fields : image'[f] <= counted[f]
                  /\ ~damaged => image' = counted
<1>1. ASSUME RevInv, Compile PROVE A
  <2>1. /\ tool = "idle" /\ status = 0 /\ runs > 0
        /\ header = R!Generated(R!GetRevision(header)) /\ image' = R!GetRevision(header)
    BY <1>1 DEF Compile, R!Complete
  <2>2. header \in Texts /\ numbers \in [R!Fields -> Nat]
        /\ R!GetRevision(header) \in [R!Fields -> Nat]
    BY <1>1, RevisionType DEF RevInv, TypeOK, R!TypeOK, Counted
  <2>3. header = R!Generated(numbers)
    <3>1. CASE header \in R!Prefixes(R!Generated(numbers))
      <4>1. \A n \in [R!Fields -> Nat] : Len(R!Generated(n)) = 7
        BY DEF R!Generated
      <4>2. Len(header) = 7 /\ Len(R!Generated(numbers)) = 7
        <5>1. Len(R!Generated(R!GetRevision(header))) = 7
          BY <2>2, <4>1, Zenon
        <5> QED
          BY <2>1, <2>2, <4>1, <5>1, Zenon
      <4> QED
        BY <2>2, <3>1, <4>2, CutIsBelow
    <3> QED
      BY <1>1, <2>1, <3>1 DEF RevInv, Counted
  <2>4. R!GetRevision(header) = numbers
    BY <2>2, <2>3, WrittenIsRead
  <2>5. Shows(R!GetRevision(header))
    BY <1>1, <2>1 DEF RevInv, Counted
  <2> QED
    BY <2>1, <2>4, <2>5 DEF Shows
<1>2. ASSUME ~Compile, [Next]_vars PROVE A
  <2>1. image' \in {image, NoImage}
    BY <1>2 DEF Next, vars, Count, Clean, PowerOn, init_print_stage2, print_fixed_size_string,
                PrintMore, PrintNext, PrintString32, PowerOff
  <2> QED
    BY <2>1
<1>3. RevInv /\ [Next]_vars => [A]_vars
  BY <1>1, <1>2
<1> QED
  BY <1>3, Invariance, PTL DEF Spec, CompiledAsCounted

-----------------------------------------------------------------------------
(* The characters that are printed.                                        *)

Chars == UNION ({{NewLine, Dot}}
                \cup {{s[i] : i \in DOMAIN s} : s \in Strings}
                \cup {Range(IntString(n)) : n \in Nat}
                \cup {Range(HexString(v)) : v \in Values})

LEMMA CharFacts ==
  /\ NewLine \in Chars /\ Dot \in Chars
  /\ \A s \in Strings : {s[i] : i \in DOMAIN s} \subseteq Chars
  /\ \A n \in Nat : Range(IntString(n)) \subseteq Chars
  /\ \A v \in Values : Range(HexString(v)) \subseteq Chars
BY Zenon DEF Chars

LEMMA DigitsAreText ==
  ASSUME NEW value, NEW n \in Nat, NEW base
  PROVE  Digits(value, n, base) \in Seq(Range(Digits(value, n, base)))
<1> DEFINE d == Digits(value, n, base)
<1>1. DOMAIN d = 1..n /\ \A i \in 1..n : d[i] \in Range(d)
  BY DEF Digits, Range
<1>2. d = [i \in 1..n |-> d[i]]
  BY DEF Digits
<1> DEFINE V == Range(d)
<1>3. [i \in 1..n |-> d[i]] \in Seq(V)
  <2> HIDE DEF d, V
  <2> SUFFICES \A i \in 1..n : d[i] \in V
    OBVIOUS
  <2> QED
    BY <1>1 DEF V
<1> QED
  BY <1>2, <1>3, Zenon

LEMMA IntStringIsText ==
  ASSUME NEW n \in Nat
  PROVE  IntString(n) \in Seq(Chars)
<1>1. Range(IntString(n)) \subseteq Chars
  BY CharFacts
<1>2. IntString(n) \in Seq(Range(IntString(n)))
  <2>1. CASE n = 0
    BY <2>1 DEF IntString, Range
  <2>2. CASE n # 0
    <3> DEFINE S == {k \in 1..IntDigits : n < 10^k} \cup {IntDigits}
    <3>1. S \in SUBSET Nat /\ S # {}
      OBVIOUS
    <3>2. Min(S) \in Nat
      BY <3>1, LeastNat DEF Min
    <3>3. DigitCount(n) \in Nat
      BY <3>2 DEF DigitCount
    <3> QED
      BY <2>2, <3>3, DigitsAreText DEF IntString
  <2> QED
    BY <2>1, <2>2
<1> QED
  BY <1>1, <1>2

LEMMA HexStringIsText ==
  ASSUME NEW value \in Values
  PROVE  HexString(value) \in Seq(Chars)
<1>1. Range(HexString(value)) \subseteq Chars
  BY CharFacts
<1>2. HexString(value) \in Seq(Range(HexString(value)))
  BY DigitsAreText DEF HexString
<1> QED
  BY <1>1, <1>2

LEMMA StringIsText ==
  ASSUME NEW s \in Strings
  PROVE  s \in Seq(Chars)
<1> DEFINE D == {s[i] : i \in DOMAIN s}
<1>1. D \subseteq Chars /\ s \in Seq(D)
  BY CharFacts, TextAssumption, Zenon DEF TextAssumption
<1> HIDE DEF D
<1> QED
  BY <1>1

LEMMA BannerIsText ==
  ASSUME NEW n \in [R!Fields -> Nat]
  PROVE  Banner([f \in R!Fields |-> IntString(n[f])]) \in Seq(Chars)
<1> DEFINE numeral == [f \in R!Fields |-> IntString(n[f])]
<1>1. \A f \in R!Fields : numeral[f] \in Seq(Chars)
  BY IntStringIsText
<1>2. /\ numeral["REVISION_MAJOR"] \in Seq(Chars)
      /\ numeral["REVISION_MINOR"] \in Seq(Chars)
      /\ numeral["REVISION_BUILD"] \in Seq(Chars)
  BY <1>1 DEF R!Fields
<1> HIDE DEF numeral
<1>3. /\ <<Dot, NewLine, NewLine, Dot, NewLine, Dot, NewLine,
           Dot, NewLine, Dot, NewLine, Dot>> \in Seq(Chars)
      /\ <<Dot>> \in Seq(Chars) /\ <<NewLine>> \in Seq(Chars)
  BY CharFacts
<1> QED
  BY <1>2, <1>3 DEF Banner, numeral

-----------------------------------------------------------------------------
(* The screen and the lines that should be on it.                          *)

OnScreen == /\ lines \in Seq(Seq(Chars)) /\ Len(lines) \in 1..SCREEN_HEIGHT
            /\ Len(Last(lines)) < SCREEN_WIDTH
            /\ ShowsLines

ScreenInv == OnScreen /\ str \in Seq(Chars)

IsScreen(mem, marks) == /\ DOMAIN mem = Rows /\ \A r \in Rows : DOMAIN mem[r] = Columns
                        /\ DOMAIN marks = Rows

LEMMA LastFacts ==
  ASSUME NEW S, NEW ls \in Seq(S), Len(ls) > 0
  PROVE  /\ Last(ls) \in S /\ Last(ls) = ls[Len(ls)]
         /\ Front(ls) \in Seq(S) /\ Len(Front(ls)) = Len(ls) - 1
         /\ \A i \in 1..(Len(ls) - 1) : Front(ls)[i] = ls[i]
<1> DEFINE n == Len(ls) - 1
<1>1. n \in Nat /\ \A i \in 1..n : ls[i] \in S
  OBVIOUS
<1> HIDE DEF n
<1>2. /\ SubSeq(ls, 1, n) \in Seq(S) /\ Len(SubSeq(ls, 1, n)) = n
      /\ \A i \in 1..n : SubSeq(ls, 1, n)[i] = ls[i]
  <2>1. /\ SubSeq(ls, 1, n) \in Seq(S)
        /\ Len(SubSeq(ls, 1, n)) = IF 1 <= n THEN n - 1 + 1 ELSE 0
        /\ \A i \in 1..(n - 1 + 1) : SubSeq(ls, 1, n)[i] = ls[1 + i - 1]
    BY <1>1, SubSeqProperties
  <2>2. n - 1 + 1 = n /\ \A i \in 1..n : 1 + i - 1 = i
    BY <1>1
  <2> QED
    BY <1>1, <2>1, <2>2
<1>3. Front(ls) = SubSeq(ls, 1, n)
  BY Zenon DEF Front, n
<1> QED
  BY <1>2, <1>3 DEF Last, n

(* The last line replaced by one, or by one and the beginning of the next. *)
WithEnd(ls, end) == Front(ls) \o end
Longer(line)     == <<line>>
Ended(line)      == <<line, <<>>>>

Replaces(t, ls, end) == /\ Len(t) = Len(ls) - 1 + Len(end)
                        /\ \A i \in 1..(Len(ls) - 1) : t[i] = ls[i]
                        /\ \A i \in 1..Len(end) : t[Len(ls) - 1 + i] = end[i]

LEMMA EndReplaced ==
  ASSUME NEW S, NEW ls \in Seq(S), Len(ls) > 0, NEW end \in Seq(S)
  PROVE  WithEnd(ls, end) \in Seq(S) /\ Replaces(WithEnd(ls, end), ls, end)
<1> DEFINE t == WithEnd(ls, end)
<1>1. /\ Front(ls) \in Seq(S) /\ Len(Front(ls)) = Len(ls) - 1
      /\ \A i \in 1..(Len(ls) - 1) : Front(ls)[i] = ls[i]
  BY LastFacts, Zenon
<1>2. PICK f \in Seq(S) : f = Front(ls)
  BY <1>1, Zenon
<1>3. /\ f \o end \in Seq(S) /\ Len(f \o end) = Len(f) + Len(end)
      /\ \A i \in 1..(Len(f) + Len(end)) :
           (f \o end)[i] = IF i <= Len(f) THEN f[i] ELSE end[i - Len(f)]
  BY ConcatProperties, Zenon
<1>4. t = f \o end
  BY <1>2, Zenon DEF WithEnd
<1> HIDE DEF t
<1>5. /\ t \in Seq(S) /\ Len(t) = Len(f) + Len(end)
      /\ \A i \in 1..(Len(f) + Len(end)) :
           t[i] = IF i <= Len(f) THEN f[i] ELSE end[i - Len(f)]
  BY <1>3, <1>4, Zenon
<1>6. Len(f) = Len(ls) - 1 /\ \A i \in 1..(Len(ls) - 1) : f[i] = ls[i]
  BY <1>1, <1>2, Zenon
<1>7. Len(f) \in Nat /\ Len(end) \in Nat
  OBVIOUS
<1>8. ASSUME NEW i \in 1..Len(f) PROVE t[i] = ls[i]
  <2>1. i \in 1..(Len(f) + Len(end)) /\ i <= Len(f) /\ i \in 1..(Len(ls) - 1)
    BY <1>6, <1>7
  <2> QED
    BY <1>5, <1>6, <2>1
<1>9. ASSUME NEW i \in 1..Len(end) PROVE t[Len(f) + i] = end[i]
  <2>1. /\ Len(f) + i \in 1..(Len(f) + Len(end)) /\ ~(Len(f) + i <= Len(f))
        /\ (Len(f) + i) - Len(f) = i
    BY <1>7
  <2> QED
    BY <1>5, <2>1
<1> QED
  BY <1>5, <1>6, <1>8, <1>9, Zenon DEF t, Replaces

LEMMA Replaced ==
  ASSUME NEW S, NEW ls \in Seq(S), Len(ls) > 0, NEW a \in S
  PROVE  /\ WithEnd(ls, Longer(a)) \in Seq(S)
         /\ Replaces(WithEnd(ls, Longer(a)), ls, Longer(a))
         /\ Len(Longer(a)) = 1 /\ Longer(a)[1] = a
<1>1. Longer(a) \in Seq(S) /\ Len(Longer(a)) = 1 /\ Longer(a)[1] = a
  BY DEF Longer
<1> QED
  BY <1>1, EndReplaced, Zenon

\* t is u and an empty line.
NewLineAfter(t, u) == /\ Len(t) = Len(u) + 1
                      /\ \A i \in 1..Len(u) : t[i] = u[i]
                      /\ t[Len(u) + 1] = <<>>

LEMMA Begun ==
  ASSUME NEW S, NEW ls \in Seq(S), Len(ls) > 0, NEW a \in S, <<>> \in S,
         NEW u, Replaces(u, ls, Longer(a))
  PROVE  WithEnd(ls, Ended(a)) \in Seq(S) /\ NewLineAfter(WithEnd(ls, Ended(a)), u)
<1> DEFINE t == WithEnd(ls, Ended(a))
<1>1. /\ Ended(a) \in Seq(S) /\ Len(Ended(a)) = 2
      /\ Ended(a)[1] = a /\ Ended(a)[2] = <<>>
      /\ Len(Longer(a)) = 1 /\ Longer(a)[1] = a
  BY DEF Ended, Longer
<1>2. t \in Seq(S) /\ Replaces(t, ls, Ended(a))
  BY <1>1, EndReplaced, Zenon
<1> HIDE DEF t
<1>3. /\ Len(ls) \in Nat /\ Len(ls) - 1 + 1 = Len(ls) /\ Len(ls) - 1 + 2 = Len(ls) + 1
      /\ 1 \in 1..2 /\ 2 \in 1..2 /\ 1 \in 1..1
  OBVIOUS
<1>4. Len(t) = Len(ls) + 1 /\ t[Len(ls)] = a /\ t[Len(ls) + 1] = <<>>
  BY <1>1, <1>2, <1>3 DEF Replaces
<1>5. Len(u) = Len(ls) /\ u[Len(ls)] = a
  BY <1>1, <1>3 DEF Replaces
<1>6. ASSUME NEW i \in 1..Len(u) PROVE t[i] = u[i]
  <2>1. i = Len(ls) \/ i \in 1..(Len(ls) - 1)
    <3>1. \A m \in Nat : \A j \in 1..m : j = m \/ j \in 1..(m - 1)
      OBVIOUS
    <3>2. i \in 1..Len(ls)
      BY <1>5, Zenon
    <3> QED
      BY <1>3, <3>1, <3>2, Zenon
  <2> QED
    BY <1>2, <1>4, <1>5, <2>1 DEF Replaces
<1> QED
  BY <1>2, <1>4, <1>5, <1>6 DEF t, NewLineAfter

LEMMA TailingFacts ==
  ASSUME NEW S, NEW ls \in Seq(S)
  PROVE  /\ Len(ls) <= SCREEN_HEIGHT => Tailing(ls) = ls
         /\ Len(ls) = SCREEN_HEIGHT + 1 =>
              /\ Tailing(ls) \in Seq(S) /\ Len(Tailing(ls)) = SCREEN_HEIGHT
              /\ \A i \in 1..SCREEN_HEIGHT : Tailing(ls)[i] = ls[i + 1]
<1>1. Len(ls) \in Nat
  OBVIOUS
<1>2. CASE Len(ls) <= SCREEN_HEIGHT
  <2>1. 1 + Max({0, Len(ls) - SCREEN_HEIGHT}) = 1
    BY <1>1, <1>2 DEF Max
  <2>2. Tailing(ls) = SubSeq(ls, 1, Len(ls))
    BY <2>1, Zenon DEF Tailing
  <2> QED
    BY <1>2, <2>2
<1>3. CASE Len(ls) = SCREEN_HEIGHT + 1
  <2>1. 1 + Max({0, Len(ls) - SCREEN_HEIGHT}) = 2
    BY <1>1, <1>3 DEF Max
  <2>2. Tailing(ls) = SubSeq(ls, 2, Len(ls))
    BY <2>1, Zenon DEF Tailing
  <2> QED
    BY <1>1, <1>3, <2>2
<1> QED
  BY <1>2, <1>3

(* The character goes behind the end of the last line.                     *)
LEMMA CharacterShown ==
  ASSUME ScreenInv, IsScreen(videoMem, over), NEW ch \in Chars, NEW t,
         t = WithEnd(lines, Longer(Append(Last(lines), ch)))
  PROVE  /\ t \in Seq(Seq(Chars)) /\ Replaces(t, lines, Longer(Append(Last(lines), ch)))
         /\ Shown([videoMem EXCEPT ![row][column] = ch],
                  [over EXCEPT ![row] = @ \ {column}], t)
<1> DEFINE line == Last(lines)
           longer == Append(line, ch)
           n == Len(lines)
<1>1. /\ lines \in Seq(Seq(Chars)) /\ n \in Nat /\ n \in 1..SCREEN_HEIGHT
      /\ line \in Seq(Chars) /\ line = lines[n] /\ Len(line) \in Nat
  <2>1. lines \in Seq(Seq(Chars)) /\ n \in 1..SCREEN_HEIGHT
    BY DEF ScreenInv, OnScreen
  <2>2. n > 0
    BY <2>1
  <2>3. line \in Seq(Chars) /\ line = lines[n]
    BY <2>1, <2>2, LastFacts, Zenon
  <2> HIDE DEF line
  <2> QED
    BY <2>1, <2>3
<1>2. /\ row = n - 1 /\ column = Len(line) /\ row \in Rows /\ column \in Columns
      /\ Shown(videoMem, over, lines)
  BY <1>1 DEF ScreenInv, OnScreen, ShowsLines, Rows, Columns
<1>3. /\ longer \in Seq(Chars) /\ Len(longer) = Len(line) + 1 /\ longer[Len(line) + 1] = ch
      /\ \A i \in 1..Len(line) : longer[i] = line[i]
  BY <1>1
<1>4. /\ t \in Seq(Seq(Chars)) /\ Len(t) = n /\ t[n] = longer
      /\ \A i \in 1..(n - 1) : t[i] = lines[i]
      /\ Replaces(t, lines, Longer(longer))
  <2>1. n > 0
    BY <1>1
  <2>2. longer \in Seq(Chars) /\ t = WithEnd(lines, Longer(longer))
    BY <1>3, Zenon
  <2>3. lines \in Seq(Seq(Chars))
    BY <1>1
  <2> HIDE DEF line, longer
  <2>4. /\ WithEnd(lines, Longer(longer)) \in Seq(Seq(Chars))
        /\ Replaces(WithEnd(lines, Longer(longer)), lines, Longer(longer))
        /\ Len(Longer(longer)) = 1 /\ Longer(longer)[1] = longer
    BY <2>1, <2>2, <2>3, Replaced, Zenon
  <2>5. t \in Seq(Seq(Chars)) /\ Replaces(t, lines, Longer(longer))
    BY <2>2, <2>4
  <2>6. n - 1 + 1 = n /\ 1 \in 1..1
    BY <1>1
  <2> QED
    BY <2>4, <2>5, <2>6 DEF Replaces
<1> HIDE DEF line, longer
<1>5. /\ Padded(longer)[column] = ch
      /\ \A c \in Columns : c # column => Padded(longer)[c] = Padded(line)[c]
  <2>1. ASSUME NEW c \in Columns
        PROVE  (IF c = column THEN ch ELSE IF c < Len(line) THEN line[c + 1] ELSE Blank)
                 = (IF c < Len(longer) THEN longer[c + 1] ELSE Blank)
    <3>1. c \in Nat /\ c + 1 \in 1..(c + 1)
      BY DEF Columns
    <3>2. CASE c = column
      BY <1>1, <1>2, <1>3, <3>1, <3>2
    <3>3. CASE c < column
      <4>1. c + 1 \in 1..Len(line)
        BY <1>1, <1>2, <3>1, <3>3
      <4> QED
        BY <1>1, <1>2, <1>3, <3>1, <3>3, <4>1
    <3>4. CASE c > column
      BY <1>1, <1>2, <1>3, <3>1, <3>4
    <3> QED
      BY <1>1, <1>2, <3>1, <3>2, <3>3, <3>4
  <2> QED
    BY <1>2, <2>1 DEF Padded
<1>6. Shown([videoMem EXCEPT ![row][column] = ch], [over EXCEPT ![row] = @ \ {column}], t)
  <2> DEFINE mem == [videoMem EXCEPT ![row][column] = ch]
             marks == [over EXCEPT ![row] = @ \ {column}]
  <2>1. ASSUME NEW r \in Rows, NEW c \in Columns \ marks[r]
        PROVE  mem[r][c] = Expected(t, r)[c]
    <3>1. c \notin over[r] => videoMem[r][c] = Expected(lines, r)[c]
      BY <1>2 DEF Shown
    <3>2. CASE r = row
      <4>1. r < n /\ r + 1 = n
        BY <1>1, <1>2, <3>2
      <4>2. Expected(lines, r) = Padded(line) /\ Expected(t, r) = Padded(longer)
        BY <1>1, <1>4, <4>1, Zenon DEF Expected
      <4>3. mem[r][c] = (IF c = column THEN ch ELSE videoMem[r][c])
            /\ (c \notin over[r] \/ c = column)
        BY <1>2, <3>2 DEF IsScreen
      <4> QED
        BY <1>5, <3>1, <4>2, <4>3
    <3>3. CASE r # row
      <4>1. r < n => t[r + 1] = lines[r + 1]
        <5>1. r \in Nat
          BY DEF Rows
        <5>2. r < n => r + 1 \in 1..(n - 1)
          BY <1>1, <1>2, <3>3, <5>1
        <5> QED
          BY <1>4, <5>2
      <4>2. Expected(t, r) = Expected(lines, r)
        BY <1>4, <4>1 DEF Expected
      <4>3. mem[r] = videoMem[r] /\ marks[r] = over[r]
        BY <1>2, <3>3 DEF IsScreen
      <4> HIDE DEF mem, marks
      <4> QED
        BY <3>1, <4>2, <4>3
    <3> QED
      BY <3>2, <3>3
  <2> QED
    BY <2>1 DEF Shown
<1> QED
  BY <1>4, <1>6 DEF longer, line

(* The cursor goes to the beginning of a new line.                         *)
LEMMA LineBegun ==
  ASSUME NEW mem, NEW marks, NEW ls \in Seq(Seq(Chars)), Len(ls) \in 1..SCREEN_HEIGHT,
         Shown(mem, marks, ls), NEW t \in Seq(Seq(Chars)), NewLineAfter(t, ls),
         MoveTo(Len(ls), 0, mem, marks), lines' = Tailing(t)
  PROVE  OnScreen'
<1>0. /\ Len(t) = Len(ls) + 1 /\ t[Len(ls) + 1] = <<>>
      /\ \A i \in 1..Len(ls) : t[i] = ls[i]
  BY DEF NewLineAfter
<1> USE <1>0
<1>1. \A r \in Rows : \A c \in Columns \ marks[r] : mem[r][c] = Expected(ls, r)[c]
  BY DEF Shown
<1>2. Padded(<<>>) = BlankLine
  BY DEF Padded, BlankLine, Columns
<1>3. CASE Len(ls) < SCREEN_HEIGHT
  <2>1. lines' = t /\ videoMem' = mem /\ over' = marks /\ row' = Len(ls) /\ column' = 0
    BY <1>0, <1>3, TailingFacts DEF MoveTo, Full
  <2>2. Last(t) = <<>>
    BY <1>0 DEF Last
  <2>3. Shown(mem, marks, t)
    <3>1. ASSUME NEW r \in Rows
          PROVE  Expected(ls, r) = Expected(t, r)
      <4>1. r \in Nat /\ Len(ls) \in Nat
        BY DEF Rows
      <4>2. CASE r < Len(ls)
        <5>1. r + 1 \in 1..Len(ls) /\ r < Len(t)
          BY <4>1, <4>2
        <5> QED
          BY <4>2, <5>1 DEF Expected
      <4>3. CASE r = Len(ls)
        BY <1>2, <4>1, <4>3 DEF Expected
      <4>4. CASE r > Len(ls)
        BY <4>1, <4>4 DEF Expected
      <4> QED
        BY <4>1, <4>2, <4>3, <4>4
    <3> QED
      BY <1>1, <3>1, Zenon DEF Shown
  <2> QED
    BY <1>3, <2>1, <2>2, <2>3 DEF OnScreen, ShowsLines
<1>4. CASE Len(ls) = SCREEN_HEIGHT
  <2>1. /\ lines' \in Seq(Seq(Chars)) /\ Len(lines') = SCREEN_HEIGHT
        /\ \A i \in 1..SCREEN_HEIGHT : lines'[i] = t[i + 1]
    BY <1>4, TailingFacts
  <2>2. /\ videoMem' = Scrolled(mem) /\ over' = Up(marks, {})
        /\ row' = SCREEN_HEIGHT - 1 /\ column' = 0
    BY <1>4 DEF MoveTo, Full
  <2>3. Last(lines') = <<>>
    BY <1>4, <2>1 DEF Last
  <2>4. Shown(videoMem', over', lines')
    <3>1. ASSUME NEW r \in Rows, NEW c \in Columns \ over'[r]
          PROVE  videoMem'[r][c] = Expected(lines', r)[c]
      <4>1. r < Len(lines') /\ lines'[r + 1] = t[r + 2]
        <5>1. r \in Nat /\ r + 1 \in 1..SCREEN_HEIGHT /\ r < SCREEN_HEIGHT
          BY DEF Rows
        <5>2. (r + 1) + 1 = r + 2
          BY <5>1
        <5> QED
          BY <2>1, <5>1, <5>2
      <4>2. Expected(lines', r) = Padded(t[r + 2])
        BY <4>1 DEF Expected
      <4>3. CASE r + 1 \in Rows
        <5>1. videoMem'[r] = mem[r + 1] /\ over'[r] = marks[r + 1]
          BY <2>2, <4>3 DEF Scrolled, Up
        <5>2. Expected(ls, r + 1) = Padded(ls[r + 2]) /\ t[r + 2] = ls[r + 2]
          <6>1. r \in Nat /\ r + 1 < Len(ls) /\ r + 2 \in 1..Len(ls) /\ (r + 1) + 1 = r + 2
            <7>1. r \in Nat /\ r + 1 <= SCREEN_HEIGHT - 1 /\ SCREEN_HEIGHT \in Nat
              BY <4>3 DEF Rows
            <7> QED
              BY ONLY <1>4, <7>1, SMT
          <6>2. t[r + 2] = ls[r + 2]
            BY <6>1
          <6> QED
            BY <6>1, <6>2, Zenon DEF Expected
        <5> QED
          BY <1>1, <4>2, <4>3, <5>1, <5>2
      <4>4. CASE r + 1 \notin Rows
        <5>1. r + 2 = Len(ls) + 1
          BY <1>4, <4>4 DEF Rows
        <5>2. t[r + 2] = <<>>
          BY <5>1
        <5>3. videoMem'[r] = BlankLine
          BY <2>2, <4>4 DEF Scrolled, Up
        <5> QED
          BY <1>2, <4>2, <5>2, <5>3
      <4> QED
        BY <4>3, <4>4
    <3> QED
      BY <3>1, Zenon DEF Shown
  <2> QED
    BY <2>1, <2>2, <2>3, <2>4 DEF OnScreen, ShowsLines
<1> QED
  BY <1>3, <1>4

(* One character, where the caller means what is printed.                  *)
LEMMA CharacterPrinted ==
  ASSUME ScreenInv, IsScreen(videoMem, over), str = meant, boot_print
  PROVE  ScreenInv'
<1> DEFINE ch == Head(str)
           line == Last(lines)
<1>1. /\ lines \in Seq(Seq(Chars)) /\ Len(lines) \in 1..SCREEN_HEIGHT /\ Len(lines) > 0
      /\ Shown(videoMem, over, lines) /\ row = Len(lines) - 1 /\ column = Len(line)
      /\ Len(line) < SCREEN_WIDTH /\ str \in Seq(Chars)
  BY DEF ScreenInv, OnScreen, ShowsLines
<1>2. line \in Seq(Chars) /\ line = lines[Len(lines)]
  <2>1. lines \in Seq(Seq(Chars)) /\ Len(lines) > 0
    BY <1>1
  <2> QED
    BY <2>1, LastFacts, Zenon
<1>3. /\ ch \in Chars /\ str' \in Seq(Chars)
      /\ lines' = Tailing(WithEnd(lines, Extended(line, ch)))
  BY <1>1 DEF boot_print, WithEnd
<1>4. row + 1 = Len(lines) /\ Len(line) \in Nat /\ <<>> \in Seq(Chars)
  BY <1>1, <1>2
<1> HIDE DEF line
<1>5. CASE PutNewLine
  <2> DEFINE t == WithEnd(lines, Ended(line))
  <2>1. MoveTo(Len(lines), 0, videoMem, over) /\ Extended(line, ch) = Ended(line)
    BY <1>4, <1>5 DEF PutNewLine, Extended, Ended
  <2>2. t \in Seq(Seq(Chars)) /\ NewLineAfter(t, lines)
    <3>1. Len(Longer(line)) = 1 /\ Longer(line)[1] = line
      BY DEF Longer
    <3>2. Replaces(lines, lines, Longer(line))
      BY <1>1, <1>2, <3>1 DEF Replaces
    <3> QED
      BY <1>1, <1>2, <1>4, <3>2, Begun, Zenon
  <2>3. lines' = Tailing(t)
    BY <1>3, <2>1, Zenon
  <2> HIDE DEF t
  <2> QED
    BY <1>1, <1>3, <2>1, <2>2, <2>3, LineBegun DEF ScreenInv
<1>6. CASE PutCharacter
  <2> DEFINE longer == Append(line, ch)
             u == WithEnd(lines, Longer(longer))
             mem == [videoMem EXCEPT ![row][column] = ch]
             marks == [over EXCEPT ![row] = @ \ {column}]
  <2>1. ch # NewLine /\ longer \in Seq(Chars) /\ Len(longer) = Len(line) + 1
    BY <1>2, <1>3, <1>6 DEF PutCharacter
  <2>2. u \in Seq(Seq(Chars)) /\ Replaces(u, lines, Longer(longer)) /\ Shown(mem, marks, u)
    BY <1>3, CharacterShown, Zenon DEF line
  <2>3. Len(u) = Len(lines) /\ u[Len(lines)] = longer
    <3>1. Len(Longer(longer)) = 1 /\ Longer(longer)[1] = longer
      BY DEF Longer
    <3>2. Len(lines) - 1 + 1 = Len(lines) /\ 1 \in 1..1
      BY <1>1
    <3> HIDE DEF u, longer
    <3> QED
      BY <2>2, <3>1, <3>2 DEF Replaces
  <2>4. IF column + 1 >= SCREEN_WIDTH THEN MoveTo(row + 1, 0, mem, marks)
                                      ELSE MoveTo(row, column + 1, mem, marks)
    BY <1>6 DEF PutCharacter
  <2>5. CASE column + 1 >= SCREEN_WIDTH
    <3> DEFINE t == WithEnd(lines, Ended(longer))
    <3>1. MoveTo(Len(u), 0, mem, marks)
      BY <1>4, <2>3, <2>4, <2>5
    <3>2. Extended(line, ch) = Ended(longer)
      <4>1. Len(line) + 1 = SCREEN_WIDTH /\ ch # NewLine
        BY <1>1, <1>4, <2>1, <2>5
      <4> QED
        BY <4>1, Zenon DEF Extended, Ended
    <3>3. t \in Seq(Seq(Chars)) /\ NewLineAfter(t, u)
      BY <1>1, <1>4, <2>1, <2>2, Begun, Zenon
    <3>4. lines' = Tailing(t)
      BY <1>3, <3>2, Zenon
    <3> HIDE DEF t, u, mem, marks, longer
    <3> QED
      BY <1>1, <1>3, <2>2, <2>3, <3>1, <3>3, <3>4, LineBegun DEF ScreenInv
  <2>6. CASE ~(column + 1 >= SCREEN_WIDTH)
    <3>1. videoMem' = mem /\ over' = marks /\ row' = Len(u) - 1 /\ column' = Len(longer)
      BY <1>1, <2>1, <2>3, <2>4, <2>6 DEF MoveTo, Full
    <3>2. Extended(line, ch) = Longer(longer)
      BY <1>1, <1>4, <2>1, <2>6 DEF Extended, Longer
    <3>3. lines' = Tailing(u)
      BY <1>3, <3>2, Zenon
    <3>4. Len(longer) < SCREEN_WIDTH
      BY <1>1, <1>4, <2>1, <2>6
    <3> HIDE DEF u, mem, marks, longer
    <3>5. lines' = u
      BY <1>1, <2>2, <2>3, <3>3, TailingFacts
    <3> QED
      BY <1>1, <1>3, <2>1, <2>2, <2>3, <3>1, <3>4, <3>5 DEF ScreenInv, OnScreen, ShowsLines, Last
  <2> QED
    BY <2>5, <2>6
<1> QED
  BY <1>5, <1>6 DEF boot_print

-----------------------------------------------------------------------------
(* The conversion of numbers by boot_print_int and boot_print_hex is not   *)
(* part of the proofs; where it gives the digits it should, this holds.    *)
NumeralsRight ==
  /\ image # NoImage => \A f \in R!Fields : IntString(image[f]) = Decimal(image[f])
  /\ \A value \in Values : HexString(value) = Hex(value)

ShowsInv == /\ machine # "off" => image # NoImage
            /\ Cleared => ScreenInv /\ str = meant

LEMMA BannerPrinted ==
  ASSUME RevInv, NumeralsRight, image # NoImage, init_print_stage2
  PROVE  ScreenInv' /\ str' = meant'
<1>1. image \in [R!Fields -> Nat]
  BY DEF RevInv, TypeOK
<1>2. str' \in Seq(Chars)
  BY <1>1, BannerIsText DEF init_print_stage2
<1>3. /\ lines' = <<<<>>>> /\ row' = 0 /\ column' = 0
      /\ videoMem' = [r \in Rows |-> BlankLine]
  BY DEF init_print_stage2, boot_clear_screen
<1>4. /\ lines' \in Seq(Seq(Chars)) /\ Len(lines') = 1
      /\ lines'[1] = <<>> /\ Last(lines') = <<>>
  BY <1>3 DEF Last
<1>5. ShowsLines'
  <2>1. Padded(<<>>) = BlankLine
    BY DEF Padded, BlankLine, Columns
  <2>2. ASSUME NEW r \in Rows
        PROVE  Expected(lines', r) = BlankLine
    BY <1>4, <2>1 DEF Rows, Expected
  <2>3. Shown(videoMem', over', lines')
    BY <1>3, <2>2 DEF Shown
  <2> QED
    BY <1>3, <1>4, <2>3 DEF ShowsLines
<1>6. str' = meant'
  <2>1. [f \in R!Fields |-> IntString(image[f])] = [f \in R!Fields |-> Decimal(image[f])]
    BY DEF NumeralsRight
  <2> QED
    BY <2>1, Zenon DEF init_print_stage2
<1> QED
  BY <1>2, <1>4, <1>5, <1>6 DEF ScreenInv, OnScreen

(* What is written past boot_print is marked.                              *)
LEMMA OverShown ==
  ASSUME ScreenInv, IsScreen(videoMem, over), NEW r \in Rows, NEW size, WriteOver(r, size)
  PROVE  ScreenInv'
<1> DEFINE written == {c \in Columns : c < size}
<1>1. /\ videoMem' = [videoMem EXCEPT
                       ![r] = [c \in Columns |-> IF c \in written THEN Dot ELSE @[c]]]
      /\ over' = [over EXCEPT ![r] = @ \cup written]
      /\ UNCHANGED <<row, column, str, lines>>
  BY DEF WriteOver
<1>2. ASSUME NEW q \in Rows, NEW c \in Columns \ over'[q]
      PROVE  videoMem'[q][c] = Expected(lines, q)[c]
  <2>1. c \notin over[q] /\ videoMem'[q][c] = videoMem[q][c]
    BY <1>1 DEF IsScreen
  <2> QED
    BY <2>1 DEF ScreenInv, OnScreen, ShowsLines, Shown
<1> HIDE DEF written
<1>3. Shown(videoMem', over', lines')
  BY <1>1, <1>2 DEF Shown
<1> QED
  BY <1>1, <1>3 DEF ScreenInv, OnScreen, ShowsLines

LEMMA ShowsKept == RevInv /\ NumeralsRight /\ ShowsInv /\ [Next]_vars => ShowsInv'
<1> SUFFICES ASSUME RevInv, NumeralsRight, ShowsInv, [Next]_vars PROVE ShowsInv'
  OBVIOUS
<1>1. machine' # "off" => image' # NoImage
  BY DEF ShowsInv, Next, vars, Count, Compile, Clean, PowerOn, init_print_stage2,
         print_fixed_size_string, PrintMore, PrintNext, PrintString32, PowerOff
<1>2. IsScreen(videoMem, over)
  BY DEF RevInv, TypeOK, IsScreen
<1>3. ASSUME Cleared' PROVE ScreenInv' /\ str' = meant'
  <2>1. CASE Cleared /\ UNCHANGED consoleVars
    BY <2>1 DEF consoleVars, ShowsInv, ScreenInv, OnScreen, ShowsLines
  <2>2. CASE init_print_stage2
    BY <2>2, BannerPrinted DEF init_print_stage2, ShowsInv
  <2>3. CASE PrintMore
    <3>1. ScreenInv /\ UNCHANGED <<videoMem, over, row, column, lines>>
          /\ \/ str' \in Strings /\ meant' = str'
             \/ \E value \in Values : str' = HexString(value) /\ meant' = Hex(value)
      BY <2>3 DEF PrintMore, Say, ShowsInv, Cleared
    <3>2. str' \in Seq(Chars) /\ str' = meant'
      BY <3>1, StringIsText, HexStringIsText DEF NumeralsRight
    <3> QED
      BY <3>1, <3>2 DEF ScreenInv, OnScreen, ShowsLines
  <2>4. CASE PrintNext
    <3>1. ScreenInv /\ str = meant
      BY <2>4 DEF PrintNext, ShowsInv, Cleared
    <3>2. str' = meant'
      BY <2>4, <3>1, Zenon DEF PrintNext, boot_print
    <3> QED
      BY <1>2, <2>4, <3>1, <3>2, CharacterPrinted DEF PrintNext
  <2>5. ASSUME NEW r \in Rows, NEW size, WriteOver(r, size), Cleared
        PROVE  ScreenInv' /\ str' = meant'
    <3>1. ScreenInv /\ str = meant
      BY <2>5 DEF ShowsInv
    <3> QED
      BY <1>2, <2>5, <3>1, OverShown DEF WriteOver
  <2>6. CASE print_fixed_size_string
    <3>1. Cleared /\ (cursor_line \in Rows \/ UNCHANGED consoleVars)
      BY <2>6, FirstRow DEF print_fixed_size_string, Cleared, RevInv, TypeOK
    <3> QED
      BY <2>1, <2>5, <2>6, <3>1 DEF print_fixed_size_string
  <2>7. CASE PrintString32
    BY <2>5, <2>7, FirstRow DEF PrintString32, Cleared
  <2> QED
    BY <1>3, <2>1, <2>2, <2>3, <2>4, <2>6, <2>7
       DEF Next, vars, Count, Compile, Clean, PowerOn, PowerOff, Cleared
<1> QED
  BY <1>1, <1>3 DEF ShowsInv

(* As long as numbers are converted to the digits that denote them, the    *)
(* screen shows the end of the text after every character, except where    *)
(* the assembly code has written over it, for a screen of any size, any    *)
(* texts, and whatever it showed before (print.c, print32.inc).            *)
THEOREM ScreenIsRight == Spec /\ []NumeralsRight => []ScreenShowsText
<1>1. Init => ShowsInv
  BY DEF Init, ShowsInv, Cleared
<1>2. ShowsInv => ScreenShowsText
  BY DEF ShowsInv, ScreenInv, OnScreen, ScreenShowsText
<1> QED
  BY <1>1, <1>2, ShowsKept, Invariance, PTL DEF Spec
=============================================================================
