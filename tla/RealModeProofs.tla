--------------------------- MODULE RealModeProofs ---------------------------
(***************************************************************************)
(* Two services of the boot code in real mode.                             *)
(*                                                                         *)
(* For every keyboard: however CPU, controller firmware and keyboard       *)
(* interleave, EnableA20Gate leaves the keyboard on and the gate open, and *)
(* touches nothing else of the output port unless a scan code was waiting  *)
(* when the keyboard was turned off.                                       *)
(*                                                                         *)
(* For every table a BIOS may have that ends below the second stage, and   *)
(* for both ways to end it: LoadMemoryMap records exactly the usable       *)
(* entries, in order, each marked valid.                                   *)
(***************************************************************************)
EXTENDS A20Gate, MemoryMap, TLAPS

USE RestAssumption, CommandAssumption DEF Commands

-----------------------------------------------------------------------------
(* EnableA20Gate: the inductive invariant says, at each label, what may be *)
(* under way between the CPU and the controller.                           *)

\* The controller has taken all it was sent.
Quiet == ibf = NoByte /\ ~dataNext

\* A command was sent and perhaps taken.
Sent(command) == ibf \in {command, NoByte} /\ ~dataNext

BeforeKbc == pc \in {"check", "bios", "check_bios", "kbc", "disable"}
               => Quiet /\ ~owed /\ kbOn

Asking == /\ pc = "ask" => Sent(AD) /\ ~owed
          /\ pc \in {"answer", "announce"} => Sent(D0)
          /\ pc \in {"announce", "write"} => saved \in Bytes

\* The next byte the controller gets is the one for the output port.
Writing == pc = "write" => \/ ibf = D1 /\ ~dataNext
                           \/ ibf = NoByte /\ dataNext /\ ~owed

GateOpen == wired => a20

Enabling ==
  pc = "enable" => /\ ~owed
                   /\ \/ ibf \in Bytes /\ ibf.a20 = 1 /\ dataNext
                      \/ Quiet /\ GateOpen

Settling == pc = "settle" => /\ Sent(AE) /\ ~owed /\ GateOpen
                             /\ ibf = NoByte => kbOn

AfterKbc == /\ pc \in {"check_kbc", "rebooted", "done"} => Quiet /\ ~owed /\ kbOn
            /\ pc \in {"check_kbc", "rebooted"} => GateOpen

\* Interrupts stay off and nothing more is typed once AD is taken; then the
\* only byte that can come back is the port.
Undisturbed ==
  /\ pc \in {"disable", "ask", "answer", "announce", "write", "enable", "settle"}
       => ~ifl
  /\ pc = "ask" /\ ibf = NoByte => ~kbOn /\ (early \/ obf = NoByte)
  /\ pc \in {"answer", "announce", "write"} => ~kbOn
  /\ pc = "answer" /\ ibf = D0 => ~owed /\ (early \/ obf = NoByte)
  /\ pc = "answer" /\ ibf = NoByte
       => early \/ obf = IF owed THEN NoByte ELSE port
  /\ pc \in {"announce", "write"} => early \/ saved = port
  /\ pc = "enable" /\ ibf \in Bytes => early \/ ibf = WithA20(port)

IInv == /\ TypeOK
        /\ BeforeKbc /\ Asking /\ Writing /\ Enabling /\ Settling /\ AfterKbc
        /\ Undisturbed

-----------------------------------------------------------------------------

(* or al, 2 makes a byte with the A20 bit set.                             *)
LEMMA WithA20Facts ==
  ASSUME NEW b \in Bytes
  PROVE  WithA20(b) \in Bytes /\ WithA20(b).a20 = 1
  BY DEF WithA20, Bytes

LEMMA InitIInv == Init => IInv
<1> SUFFICES ASSUME Init PROVE IInv
  OBVIOUS
<1>1. port \in Bytes
  BY DEF Init
<1>2. TypeOK
  BY <1>1 DEF Init, TypeOK
<1>3. BeforeKbc /\ Asking /\ Writing /\ Enabling /\ Settling /\ AfterKbc
  BY DEF Init, BeforeKbc, Asking, Writing, Enabling, Settling, AfterKbc, Quiet
<1>4. Undisturbed
  BY DEF Init, Undisturbed
<1> QED
  BY <1>2, <1>3, <1>4 DEF IInv

(* The CPU's steps.  Each waits for what its label says of the controller. *)
LEMMA CPUKeeps == IInv /\ CPU => IInv'
<1> SUFFICES ASSUME IInv, CPU PROVE IInv'
  OBVIOUS
<1> USE DEF IInv, TypeOK, BeforeKbc, Asking, Writing, Enabling, Settling,
            AfterKbc, Undisturbed, Quiet, Sent, GateOpen, Goto,
            kbcVars
<1>1. CASE CheckA20Gate("check", "bios") \/ CheckA20Gate("check_bios", "kbc")
           \/ CheckA20Gate("check_kbc", "rebooted")
  BY <1>1 DEF CheckA20Gate
<1>2. CASE A20MethodBios
  BY <1>2 DEF A20MethodBios
<1>3. CASE StartKbc
  BY <1>3 DEF StartKbc
<1>4. CASE Out("disable", "ask", AD) \/ Out("ask", "answer", D0)
           \/ Out("announce", "write", D1)
  BY <1>4 DEF Out, A20Wait
<1>5. CASE ReadAnswer
  <2>1. obf \in Bytes /\ saved' = obf /\ obf' = NoByte
    BY <1>5 DEF ReadAnswer, A20Wait2
  <2> QED
    BY <1>5, <2>1 DEF ReadAnswer
<1>6. CASE Out("write", "enable", WithA20(saved))
  <2>1. /\ saved \in Bytes /\ ibf' = WithA20(saved)
        /\ ibf' \in Bytes /\ ibf'.a20 = 1
    BY <1>6, WithA20Facts DEF Out
  <2> QED
    BY <1>6, <2>1 DEF Out, A20Wait
<1>7. CASE Out("enable", "settle", AE)
  BY <1>7 DEF Out, A20Wait
<1>8. CASE Settle
  BY <1>8 DEF Settle, A20Wait
<1> QED
  BY <1>1, <1>2, <1>3, <1>4, <1>5, <1>6, <1>7, <1>8 DEF CPU

(* The controller, the keyboard and IRQ 1, at every label.                 *)
LEMMA HardwareKeeps == IInv /\ (Controller \/ KeyPress \/ Irq1) => IInv'
<1> SUFFICES ASSUME IInv, Controller \/ KeyPress \/ Irq1 PROVE IInv'
  OBVIOUS
<1> USE DEF IInv, TypeOK, BeforeKbc, Asking, Writing, Enabling, Settling,
            AfterKbc, Undisturbed, Quiet, Sent, GateOpen, cpuVars
<1>1. CASE pc # "reset" /\ TakeCommand
  <2>1. /\ ibf \in Commands /\ ~owed /\ ibf' = NoByte
        /\ kbOn' = (ibf = AE \/ (kbOn /\ ibf # AD))
        /\ owed' = (ibf = D0) /\ dataNext' = (ibf = D1)
        /\ UNCHANGED <<pc, ifl, saved, a20, wired, obf, port>>
        /\ early' = (IF ibf = AD THEN obf # NoByte ELSE early)
    BY <1>1 DEF TakeCommand
  <2>2. TypeOK'
    BY <2>1
  <2>3. (BeforeKbc /\ Asking)'
    BY <2>1
  <2>4. (Writing /\ Enabling)'
    BY <2>1
  <2>5. (Settling /\ AfterKbc)'
    BY <2>1
  <2>6. Undisturbed'
    BY <2>1
  <2> QED
    BY <2>2, <2>3, <2>4, <2>5, <2>6
<1>2. CASE pc # "reset" /\ Answer
  BY <1>2 DEF Answer
<1>3. CASE pc # "reset" /\ TakeData
  <2>1. pc = "enable" /\ ibf \in Bytes /\ ibf.a20 = 1 /\ dataNext
    BY <1>3 DEF TakeData
  <2>2. /\ ibf' = NoByte /\ ~dataNext' /\ port' = ibf
        /\ a20' = (IF wired THEN ibf.a20 = 1 ELSE a20)
        /\ pc' \in {"reset", "enable"}
        /\ UNCHANGED <<ifl, wired, saved, owed, obf, kbOn, early>>
    BY <1>3, <2>1 DEF TakeData
  <2>3. TypeOK'
    <3>1. a20' \in BOOLEAN
      BY <2>2
    <3>2. dataNext' \in BOOLEAN
      BY <1>3 DEF TakeData
    <3> QED
      BY <2>1, <2>2, <3>1, <3>2
  <2>4. (BeforeKbc /\ Asking /\ Writing /\ Settling /\ AfterKbc)'
    BY <2>2
  <2>5. Enabling'
    BY <2>1, <2>2
  <2>6. Undisturbed'
    BY <2>1, <2>2
  <2> QED
    BY <2>3, <2>4, <2>5, <2>6
<1>4. CASE KeyPress
  BY <1>4 DEF KeyPress
<1>5. CASE Irq1
  BY <1>5 DEF Irq1
<1> QED
  BY <1>1, <1>2, <1>3, <1>4, <1>5 DEF Controller

LEMMA Invariance == Spec => []IInv
<1>1. IInv /\ UNCHANGED vars => IInv'
  BY DEF vars, IInv, TypeOK, BeforeKbc, Asking, Writing, Enabling, Settling,
         AfterKbc, Undisturbed, Quiet, Sent, GateOpen
<1>2. IInv /\ [Next]_vars => IInv'
  BY <1>1, CPUKeeps, HardwareKeeps DEF Next
<1> QED
  BY InitIInv, <1>2, PTL DEF Spec

(* Buffers, port and flags keep their types (a20.inc).                     *)
THEOREM TypeCorrect == Spec => []TypeOK
  BY Invariance, PTL DEF IInv

(* Whatever is typed and whatever byte comes back, keyboard and gate are   *)
(* ready when the sequence is over (a20.inc:80-128).                       *)
THEOREM KeyboardAndGateAreReady == Spec => []KeyboardAndGateReady
<1>1. IInv => KeyboardAndGateReady
  BY DEF IInv, AfterKbc, GateOpen, KeyboardAndGateReady, KeyboardBack,
         WiredGateOpens
<1> QED
  BY <1>1, Invariance, PTL

(* Whatever is typed once the keyboard is off, the byte written to the     *)
(* output port is the port itself with the A20 bit set (a20.inc:80-128).   *)
THEOREM OnlyA20IsSet == Spec => OnlyA20Changes
<1>1. IInv /\ [Next]_vars => [early \/ port' \in {port, WithA20(port)}]_vars
  <2> SUFFICES ASSUME IInv, [Next]_vars, ~early
               PROVE  port' \in {port, WithA20(port)}
    OBVIOUS
  <2>1. CASE Controller /\ TakeData
    <3>1. port' = port \/ (port' = ibf /\ ibf \in Bytes /\ dataNext)
      BY <2>1 DEF TakeData
    <3>2. ibf \in Bytes => pc = "enable"
      BY <2>1 DEF Controller, IInv, TypeOK, BeforeKbc, Asking, Writing, Settling, AfterKbc,
             Quiet, Sent
    <3> QED
      BY <3>1, <3>2 DEF IInv, Undisturbed
  <2>2. CASE ~(Controller /\ TakeData)
    BY <2>2 DEF Next, CPU, CheckA20Gate, A20MethodBios, StartKbc, Out, ReadAnswer,
           Settle, kbcVars, Controller, TakeCommand, Answer, KeyPress, Irq1, vars
  <2> QED
    BY <2>1, <2>2
<1> QED
  BY <1>1, Invariance, PTL DEF Spec, OnlyA20Changes

-----------------------------------------------------------------------------
(* LoadMemoryMap: the slots below ebp hold what the entries handed out so  *)
(* far come to, the slot at ebp the one not yet looked at.                 *)
USE MapAssumption DEF MapAssumption

\* The entry the last call has stored.
Latest == IF next = 0 THEN Len(table) ELSE next - 1

Listed(n) == Lists(n) /\ EntriesValid /\ ebp <= n

Fetched == /\ Latest \in 1..Len(table)
           /\ page[ebp + 1] = Stored(Latest)
           /\ cl = table[Latest].bytes
           /\ Listed(Latest - 1)

Progress == /\ label = "first" => next = 1 /\ ebp = 0
            /\ label = "MediasRes" => Fetched
            /\ label = "cLoop" => next > 0 /\ Listed(next - 1)
            /\ label = "Done" => Listed(Len(table))

MapIInv == MapTypeOK /\ Progress

-----------------------------------------------------------------------------

LEMMA TableFacts ==
  ASSUME table \in Tables
  PROVE  /\ Len(table) \in Nat /\ Len(table) < Slots
         /\ \A n \in 1..Len(table) : table[n] \in Entries
  OBVIOUS

(* An entry is accepted exactly if a reader of the map can use it, and     *)
(* then it carries the valid bit.                                          *)
LEMMA AcceptsUsable ==
  ASSUME NEW n \in 1..Len(table), table \in Tables,
         cl = table[n].bytes, page[ebp + 1] = Stored(n)
  PROVE  /\ Accepts <=> Usable(n)
         /\ Accepts => page[ebp + 1].attr = 1
<1>1. table[n] \in Entries
  BY TableFacts
<1>2. /\ page[ebp + 1].entry = n
      /\ page[ebp + 1].attr = IF table[n].bytes = 24 THEN table[n].attr ELSE 1
  BY DEF Stored, Forced
<1> QED
  BY <1>1, <1>2 DEF Accepts, Ignored, Usable, Entries

(* The dword is set in the slot behind what is recorded.                   *)
LEMMA PresetFacts ==
  ASSUME MapTypeOK, ebp < Slots
  PROVE  /\ Preset \in [1..Slots -> [entry : 0..Len(table), attr : {0, 1}]]
         /\ \A k \in 1..ebp : Preset[k] = page[k]
<1>1. /\ ebp \in Nat /\ ebp + 1 \in 1..Slots /\ ebp + 1 \notin 1..ebp
      /\ 1..ebp \subseteq 1..Slots /\ Slots \in Nat
      /\ page \in [1..Slots -> [entry : 0..Len(table), attr : {0, 1}]]
  BY DEF MapTypeOK
<1> DEFINE set == [page[ebp + 1] EXCEPT !.attr = 1]
<1>2. set \in [entry : 0..Len(table), attr : {0, 1}]
  BY <1>1
<1>3. Preset = [page EXCEPT ![ebp + 1] = set]
  BY <1>1 DEF Preset, Forced
<1> HIDE DEF set
<1> QED
  BY <1>1, <1>2, <1>3

(* A call stores behind what is recorded and touches none of it.           *)
LEMMA QueryFetches ==
  ASSUME MapTypeOK, next > 0, Listed(next - 1), Query,
         UNCHANGED <<table, endsBy, ebp>>
  PROVE  /\ page' \in [1..Slots -> [entry : 0..Len(table), attr : {0, 1}]]
         /\ next' \in 0..(Len(table) + 1) /\ cl' \in {0, 20, 24}
         /\ Fetched'
<1> USE DEF MapTypeOK, Listed
<1>1. /\ next \in 1..Len(table) /\ Len(table) \in Nat /\ Len(table) <= Slots
      /\ table[next] \in Entries
      /\ ebp \in Nat /\ ebp + 1 \in 1..Slots
  BY TableFacts DEF Query, Carry
<1>2. Stored(next) \in [entry : 0..Len(table), attr : {0, 1}]
  BY <1>1 DEF Stored, Forced, Entries
<1>3. page' = [page EXCEPT ![ebp + 1] = Stored(next)]
  BY DEF Query
<1>4. page' \in [1..Slots -> [entry : 0..Len(table), attr : {0, 1}]]
  BY <1>1, <1>2, <1>3
<1>5. /\ next' \in 0..(Len(table) + 1) /\ Latest' = next
      /\ cl' = table[next].bytes /\ cl' \in {0, 20, 24}
  <2> HIDE DEF MapTypeOK, Listed
  <2>1. cl' = table[next].bytes /\ next' = After(next) /\ table' = table
    BY DEF Query
  <2>2. table[next].bytes \in {0, 20, 24}
    BY <1>1 DEF Entries
  <2>3. After(next) = IF next = Len(table) THEN After(next) ELSE next + 1
    BY <1>1 DEF After
  <2>4. next = Len(table) => After(next) \in {0, next + 1}
    BY DEF After
  <2>5. Latest' = next
    BY <1>1, <2>1, <2>3, <2>4 DEF Latest
  <2>6. next' \in 0..(Len(table) + 1)
    BY <1>1, <2>1, <2>3, <2>4
  <2> QED
    BY <2>1, <2>2, <2>5, <2>6
<1>6. page'[ebp + 1] = Stored(next) /\ \A k \in 1..ebp : page'[k] = page[k]
  BY <1>1, <1>3
<1>7. Recorded' = Recorded
  BY <1>6 DEF Recorded
<1>8. Listed(Latest - 1)'
  <2>1. \A m : Usable(m)' <=> Usable(m)
    BY DEF Usable
  <2>2. ebp' = ebp /\ Lists(Latest - 1)'
    BY <1>5, <1>7, <2>1 DEF Lists
  <2> QED
    BY <1>5, <1>6, <2>2 DEF EntriesValid
<1>9. Stored(Latest)' = Stored(next)
  BY <1>5 DEF Stored, Forced
<1> QED
  BY <1>1, <1>4, <1>5, <1>6, <1>8, <1>9 DEF Fetched

(* Looking at one more entry extends the list by it, or leaves it out.     *)
LEMMA ParseExtends == MapIInv /\ ParseEntry => MapIInv'
<1> SUFFICES ASSUME MapIInv, ParseEntry PROVE MapIInv'
  OBVIOUS
<1> DEFINE n == Latest
<1>1. /\ n \in 1..Len(table) /\ cl = table[n].bytes /\ page[ebp + 1] = Stored(n)
      /\ table \in Tables /\ Len(table) \in Nat /\ Len(table) <= Slots
      /\ ebp \in Nat /\ ebp <= n - 1 /\ Listed(n - 1)
      /\ UNCHANGED <<table, endsBy, next, page, cl>> /\ n' = n
  BY TableFacts DEF MapIInv, MapTypeOK, Progress, Fetched, ParseEntry, Listed, Latest
<1> HIDE DEF n
<1>2. /\ Accepts <=> Usable(n)
      /\ Accepts => page[ebp + 1].attr = 1
      /\ page[ebp + 1].entry = n
  BY <1>1, AcceptsUsable DEF Stored
<1>3. ebp' = IF Usable(n) THEN ebp + 1 ELSE ebp
  BY <1>2 DEF ParseEntry
<1>4. Listed(n)'
  <2>1. \A m : Usable(m)' <=> Usable(m)
    BY <1>1 DEF Usable
  <2>2. CASE ~Usable(n)
    <3>1. {m \in 1..n : Usable(m)} = {m \in 1..(n - 1) : Usable(m)}
      BY <1>1, <2>2
    <3>2. Recorded' = Recorded /\ ebp' = ebp
      BY <1>1, <1>3, <2>2 DEF Recorded
    <3>3. Lists(n)'
      BY <1>1, <2>1, <3>1, <3>2 DEF Listed, Lists
    <3>4. EntriesValid' /\ ebp' <= n
      BY <1>1, <3>2 DEF Listed, EntriesValid
    <3> QED
      BY <1>1, <3>3, <3>4 DEF Listed
  <2>3. CASE Usable(n)
    <3>1. {m \in 1..n : Usable(m)} = {m \in 1..(n - 1) : Usable(m)} \cup {n}
      BY <1>1, <2>3
    <3>2. /\ ebp' = ebp + 1 /\ 1..ebp' = 1..ebp \cup {ebp + 1}
          /\ Recorded'[ebp + 1] = n
          /\ \A k \in 1..ebp : Recorded'[k] = Recorded[k]
      BY <1>1, <1>2, <1>3, <2>3 DEF Recorded
    <3>3. \A k \in 1..ebp : Recorded[k] \in 1..(n - 1)
      BY <1>1 DEF Listed, Lists
    <3>4. {Recorded'[k] : k \in 1..ebp'} = {Recorded[k] : k \in 1..ebp} \cup {n}
      BY <3>2
    <3>5. ({Recorded[k] : k \in 1..ebp} = {m \in 1..n : Usable(m)})'
      BY <1>1, <2>1, <3>1, <3>4 DEF Listed, Lists
    <3>6. (\A j, k \in 1..ebp : j < k => Recorded[j] < Recorded[k])'
      <4> SUFFICES ASSUME NEW j \in 1..ebp', NEW k \in 1..ebp', j < k
                   PROVE  Recorded'[j] < Recorded'[k]
        BY <1>1
      <4>1. j \in 1..ebp
        BY <1>1, <3>2
      <4>2. CASE k = ebp + 1
        BY <1>1, <3>2, <3>3, <4>1, <4>2
      <4>3. CASE k \in 1..ebp
        BY <1>1, <3>2, <4>1, <4>3 DEF Listed, Lists
      <4> QED
        BY <3>2, <4>2, <4>3
    <3>7. EntriesValid' /\ ebp' <= n
      BY <1>1, <1>2, <2>3, <3>2 DEF Listed, EntriesValid
    <3> QED
      BY <1>1, <3>5, <3>6, <3>7 DEF Listed, Lists
  <2> QED
    BY <2>2, <2>3
<1>5. /\ label' = IF next = 0 THEN "Done" ELSE "cLoop"
      /\ n = IF next = 0 THEN Len(table) ELSE next - 1
  BY DEF ParseEntry, ListEnded, n, Latest
<1>6. Progress'
  <2>1. CASE next = 0
    BY <1>1, <1>4, <1>5, <2>1 DEF Progress, Listed, Lists
  <2>2. CASE next # 0
    <3>1. /\ label' = "cLoop" /\ next' - 1 = n /\ next' > 0
      BY <1>1, <1>5, <2>2 DEF MapIInv, MapTypeOK
    <3>2. Listed(next - 1)'
      BY <1>1, <1>4, <3>1 DEF Listed, Lists
    <3> QED
      BY <3>1, <3>2 DEF Progress
  <2> QED
    BY <2>1, <2>2
<1>7. ebp' \in 0..Slots
  BY <1>1, <1>3
<1>8. MapTypeOK'
  BY <1>1, <1>5, <1>7 DEF MapIInv, MapTypeOK
<1> QED
  BY <1>6, <1>8 DEF MapIInv

LEMMA MapInvariance == MapSpec => []MapIInv
<1>1. MapInit => MapIInv
  <2> SUFFICES ASSUME MapInit PROVE MapIInv
    OBVIOUS
  <2>1. page \in [1..Slots -> [entry : 0..Len(table), attr : {0, 1}]]
    BY TableFacts DEF MapInit, Zero
  <2>2. 1 \in 0..(Len(table) + 1)
    BY TableFacts DEF MapInit
  <2>3. ebp \in 0..Slots
    BY DEF MapInit
  <2>4. MapTypeOK
    BY <2>1, <2>2, <2>3 DEF MapInit, MapTypeOK
  <2> QED
    BY <2>4 DEF MapInit, MapIInv, Progress
<1>2. MapIInv /\ [MapNext]_mapVars => MapIInv'
  <2> SUFFICES ASSUME MapIInv, [MapNext]_mapVars PROVE MapIInv'
    OBVIOUS
  <2>1. CASE FirstCall
    <3>1. Listed(next - 1) /\ next > 0
      BY <2>1 DEF FirstCall, MapIInv, Progress, Listed, Lists, EntriesValid, Recorded
    <3> QED
      BY <2>1, <3>1, QueryFetches DEF FirstCall, MapIInv, MapTypeOK, Progress
  <2>2. CASE LaterCall
    <3>1. Listed(next - 1) /\ next > 0
      BY <2>2 DEF LaterCall, MapIInv, Progress
    <3> QED
      BY <2>2, <3>1, QueryFetches DEF LaterCall, MapIInv, MapTypeOK, Progress
  <2>3. CASE NotSupported
    <3>1. /\ ebp = 0 /\ ebp < Slots /\ page' = Preset /\ label' = "NoMemoryMap"
          /\ UNCHANGED <<table, endsBy, next, cl, ebp>>
      BY <2>3 DEF NotSupported, MapIInv, MapTypeOK, Progress
    <3> QED
      BY <3>1, PresetFacts DEF MapIInv, MapTypeOK, Progress
  <2>4. CASE LastCall
    <3>1. /\ next = Len(table) + 1 /\ Listed(next - 1) /\ label' = "Done"
          /\ Len(table) \in Nat /\ Len(table) < Slots /\ page' = Preset
          /\ UNCHANGED <<table, endsBy, next, cl, ebp>>
      BY <2>4, TableFacts DEF LastCall, Carry, MapIInv, MapTypeOK, Progress
    <3>2. /\ ebp \in Nat /\ ebp < Slots
          /\ page' \in [1..Slots -> [entry : 0..Len(table), attr : {0, 1}]]
          /\ \A k \in 1..ebp : page'[k] = page[k]
      <4>1. ebp \in Nat /\ ebp < Slots
        BY <3>1 DEF Listed, MapIInv, MapTypeOK
      <4> QED
        BY <3>1, <4>1, PresetFacts DEF MapIInv
    <3>3. Recorded' = Recorded
      BY <3>1, <3>2 DEF Recorded
    <3>4. Listed(Len(table))'
      <4>1. \A m : Usable(m)' <=> Usable(m)
        BY <3>1 DEF Usable
      <4>2. Len(table)' = Len(table) /\ next - 1 = Len(table) /\ ebp' = ebp
        BY <3>1
      <4>3. Lists(Len(table))'
        BY <3>1, <3>3, <4>1, <4>2 DEF Listed, Lists
      <4>4. EntriesValid'
        BY <3>1, <3>2 DEF Listed, EntriesValid
      <4> QED
        BY <3>1, <4>2, <4>3, <4>4 DEF Listed
    <3> QED
      BY <3>1, <3>2, <3>4 DEF MapIInv, MapTypeOK, Progress
  <2>5. CASE ParseEntry
    BY <2>5, ParseExtends
  <2>6. CASE UNCHANGED mapVars
    <3>1. MapTypeOK'
      BY <2>6 DEF mapVars, MapIInv, MapTypeOK
    <3>2. Progress'
      BY <2>6 DEF mapVars, MapIInv, Progress, Fetched, Latest, Stored, Forced, Listed,
                  Lists, Recorded, EntriesValid, Usable
    <3> QED
      BY <3>1, <3>2 DEF MapIInv
  <2> QED
    BY <2>1, <2>2, <2>3, <2>4, <2>5, <2>6 DEF MapNext
<1> QED
  BY <1>1, <1>2, PTL DEF MapSpec

(* Registers and page keep their types; no entry is written to or behind   *)
(* the second stage (memory.inc:99-203).                                   *)
THEOREM MapTypeCorrect == MapSpec => []MapTypeOK
  BY MapInvariance, PTL DEF MapIInv

(* Every usable range is handed to the kernel, once, in the BIOS's order   *)
(* and marked valid, and nothing else is.                                  *)
THEOREM MapIsComplete == MapSpec => []MapComplete
<1>1. MapIInv => MapComplete
  BY DEF MapIInv, Progress, Listed, MapComplete
<1> QED
  BY <1>1, MapInvariance, PTL
=============================================================================
