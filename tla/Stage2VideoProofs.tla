-------------------------- MODULE Stage2VideoProofs -------------------------
(***************************************************************************)
(* The second stage.  First what Stage2Boot guarantees for every set of    *)
(* kernel sizes and addresses.  HandoffComplete is not inductive: it       *)
(* speaks of the last label only, and IInv says, label by label, what has  *)
(* been established on the way there.  Then the second stage with its mode *)
(* search: it implements Stage2Boot, so all that holds of it, and for      *)
(* every video BIOS the kernel is told the mode the search was for.        *)
(***************************************************************************)
EXTENDS Stage2Video, TLAPS

-----------------------------------------------------------------------------
(* The boot without the search.                                            *)

ReturnLabels == {"to_Temp16Bit", "Temp16Bit", "enter32_again",
                 "to_ProtectedMode", "ProtectedMode", "final_cli", "handoff",
                 "kernel"}

\* The labels that are only reached once the kernel is in memory.
LoadedLabels == ReturnLabels \cup {"leave32", "PrepareToJumpToReal"}

\* The labels behind EnableA20Gate on the way to the kernel.
OpenLabels == LoadedLabels \cup LoadLabels
                \cup {"InstallGdt32", "VesaSetup", "enter32", "to_Temp32Bit",
                      "Temp32Bit"}

SizedInv == /\ pc \in {"GetLowerMemorySize", "SetupMemory"}
                 => "BootLoaderName" \in header
            /\ pc \in OpenLabels \cup {"EnableA20Gate"} => Sized \subseteq header
            /\ pc \in OpenLabels => a20

KernelInv == /\ pc \in LoadedLabels \cup {"kernel_size", "load_elf32", "kernel_addr"}
                  => g_kernelSize \in Values
             /\ pc \in LoadedLabels \cup {"load_elf32", "kernel_addr"}
                  => descriptor["KernelSize"] = g_kernelSize
             /\ pc \in LoadedLabels => descriptor["KernelAddr"] = g_kernelAddress

ModeInv == /\ pc \in LoadLabels => pe /\ bits = 32 /\ ~ifl
           /\ pc = "Temp32Bit" => pe /\ bits = 32
           /\ pc = "to_Temp32Bit" => pe
           /\ pc \in {"PrepareToJumpToReal", "to_Temp16Bit", "Temp16Bit",
                      "enter32_again", "to_ProtectedMode"} => bits = 16
           /\ pc \in {"to_ProtectedMode", "ProtectedMode", "final_cli",
                      "handoff", "kernel"} => pe
           /\ pc \in {"ProtectedMode", "final_cli", "handoff", "kernel"}
                => bits = 32
           /\ pc \in {"final_cli", "handoff", "kernel"} => masked
           /\ pc \in {"handoff", "kernel"} => ~ifl

IInv == TypeOK /\ SizedInv /\ KernelInv /\ ModeInv /\ VideoConsistent

LEMMA InitIInv == Init => IInv
  BY Stage2Assumption
  DEF Init, IInv, TypeOK, SizedInv, KernelInv, ModeInv, VideoConsistent,
      Labels, RealLabels, LoadLabels, ModeLabels, ErrorLabels, Ends, Sized,
      Video, LoadedLabels, ReturnLabels, OpenLabels

(* The real mode part fills the header; nothing else is disturbed.         *)
LEMMA RealModeKeeps == IInv /\ RealMode => IInv'
<1> SUFFICES ASSUME IInv, RealMode PROVE IInv'
  OBVIOUS
<1> USE DEF IInv, TypeOK, SizedInv, KernelInv, ModeInv, VideoConsistent,
            Labels, RealLabels, LoadLabels, ModeLabels, ErrorLabels, Ends,
            Sized, Video, LoadedLabels, ReturnLabels, OpenLabels, Goto, cpu,
            info
<1>1. CASE Entry
  BY <1>1 DEF Entry
<1>2. CASE GetLowerMemorySize
  BY <1>2 DEF GetLowerMemorySize
<1>3. CASE SetupMemory
  BY <1>3 DEF SetupMemory
<1>4. CASE NoMemorySize
  BY <1>4 DEF NoMemorySize
<1>5. CASE EnableA20Gate
  BY <1>5 DEF EnableA20Gate
<1>6. CASE A20Fails
  BY <1>6 DEF A20Fails
<1>7. CASE InstallGdt32
  BY <1>7 DEF InstallGdt32
<1>8. CASE VesaSetup
  <2>1. PICK outcome \in {"none", "no_mode", "mode"} : VesaStores(outcome)
    BY <1>8 DEF VesaSetup
  <2>2. StoredFields(outcome) \in {{}, {"VBEControllerInfo"}, Video}
    BY DEF StoredFields
  <2>3. QED
    BY <2>1, <2>2 DEF VesaStores
<1>9. QED
  BY <1>1, <1>2, <1>3, <1>4, <1>5, <1>6, <1>7, <1>8 DEF RealMode, RealServices

(* The loading phase records the kernel's size and address as they are     *)
(* after the loaders, not before them.                                     *)
LEMMA LoadingKeeps == IInv /\ Loading => IInv'
<1> SUFFICES ASSUME IInv, Loading PROVE IInv'
  OBVIOUS
<1> USE DEF IInv, TypeOK, SizedInv, KernelInv, ModeInv, VideoConsistent,
            Labels, RealLabels, LoadLabels, ModeLabels, ErrorLabels, Ends,
            Sized, Video, LoadedLabels, ReturnLabels, OpenLabels, Goto, cpu,
            info
<1>1. CASE Enter32
  BY <1>1 DEF Enter32, SetPE, LoadCS
<1>2. CASE Temp32Bit
  BY <1>2 DEF Temp32Bit
<1>3. CASE Detect
  BY <1>3 DEF Detect
<1>4. CASE CheckAtapi
  BY <1>4 DEF CheckAtapi
<1>5. CASE LoadKernel
  BY <1>5 DEF LoadKernel
<1>6. CASE LoadKernelFails
  BY <1>6 DEF LoadKernelFails
<1>7. CASE KernelSize
  BY <1>7 DEF KernelSize
<1>8. CASE LoadElf32
  BY <1>8 DEF LoadElf32
<1>9. CASE LoadElf32Fails
  BY <1>9 DEF LoadElf32Fails
<1>10. CASE KernelAddr
  BY <1>10 DEF KernelAddr
<1>11. CASE NoATAPIDevice
  BY <1>11 DEF NoATAPIDevice
<1>12. CASE ErrorLabel
  BY <1>12 DEF ErrorLabel
<1>13. CASE LoadDerails
  BY <1>13 DEF LoadDerails
<1>14. QED
  BY <1>1, <1>2, <1>3, <1>4, <1>5, <1>6, <1>7, <1>8, <1>9, <1>10, <1>11,
     <1>12, <1>13 DEF Loading

(* The way back only moves mode bits.                                      *)
LEMMA LeavingKeeps == IInv /\ Leaving => IInv'
<1> SUFFICES ASSUME IInv, Leaving PROVE IInv'
  OBVIOUS
<1> USE DEF IInv, TypeOK, SizedInv, KernelInv, ModeInv, VideoConsistent,
            Labels, RealLabels, LoadLabels, ModeLabels, ErrorLabels, Ends,
            Sized, Video, LoadedLabels, ReturnLabels, OpenLabels, Goto, cpu,
            info
<1>1. CASE LeaveProtected
  BY <1>1 DEF LeaveProtected, LoadCS
<1>2. CASE PrepareToJumpToReal
  BY <1>2 DEF PrepareToJumpToReal, LoadCS
<1>3. CASE Temp16Bit
  BY <1>3 DEF Temp16Bit
<1>4. CASE EnterAgain
  BY <1>4 DEF EnterAgain, SetPE, LoadCS
<1>5. CASE MaskPICs
  BY <1>5 DEF MaskPICs
<1>6. CASE FinalCli
  BY <1>6 DEF FinalCli
<1>7. CASE JumpToKernel
  BY <1>7 DEF JumpToKernel
<1>8. QED
  BY <1>1, <1>2, <1>3, <1>4, <1>5, <1>6, <1>7 DEF Leaving

(* A tick ends the boot or changes nothing: no label it reaches promises   *)
(* anything.                                                               *)
LEMMA TickKeeps == IInv /\ TimerTick => IInv'
  BY DEF TimerTick, IInv, TypeOK, SizedInv, KernelInv, ModeInv,
         VideoConsistent, Labels, RealLabels, LoadLabels, ModeLabels,
         ErrorLabels, Ends, Sized, Video, LoadedLabels, ReturnLabels,
         OpenLabels, Goto, cpu, info

LEMMA StutterKeeps == IInv /\ UNCHANGED vars => IInv'
  BY DEF vars, IInv, TypeOK, SizedInv, KernelInv, ModeInv, VideoConsistent

LEMMA Invariance == Spec => []IInv
<1>1. IInv /\ [Next]_vars => IInv'
  BY RealModeKeeps, LoadingKeeps, LeavingKeeps, TickKeeps, StutterKeeps
  DEF Next, CPU
<1>2. QED
  BY InitIInv, <1>1, PTL DEF Spec

-----------------------------------------------------------------------------

(* Every variable of the second stage keeps its type.                      *)
THEOREM TypeCorrect == Spec => []TypeOK
<1>1. IInv => TypeOK
  BY DEF IInv
<1>2. QED
  BY Invariance, <1>1, PTL

(* The kernel (stage2.asm:400) is only ever entered in flat 32-bit mode    *)
(* with interrupts off and masked, A20 on, a filled header and the final   *)
(* size and address of the image.                                          *)
THEOREM HandoffIsComplete == Spec => []HandoffComplete
<1>1. IInv => HandoffComplete
  BY DEF IInv, TypeOK, SizedInv, KernelInv, ModeInv, HandoffComplete,
         LoadedLabels, ReturnLabels, OpenLabels
<1>2. QED
  BY Invariance, <1>1, PTL

(* The C code of the loader (stage2.asm:170-246) runs in the mode it was   *)
(* compiled for, out of the reach of interrupts, and the code assembled    *)
(* for 16 bits behind stage2.asm:275 runs with a 16-bit CS.                *)
THEOREM CodeRunsInItsMode == Spec => []ModeMatchesCode
<1>1. IInv => ModeMatchesCode
  BY DEF IInv, ModeInv, ModeMatchesCode, LoadingUndisturbed, BackInRealMode
<1>2. QED
  BY Invariance, <1>1, PTL

-----------------------------------------------------------------------------
(* The search is a refinement.                                             *)

(* A step of the search is invisible, the last one is VesaSetup.           *)
LEMMA StepImplements == [BootNext]_bootVars => [Next]_vars
<1> SUFFICES ASSUME [BootNext]_bootVars PROVE [Next]_vars
  OBVIOUS
<1>1. CASE Elsewhere(RealServices)
  BY <1>1 DEF Elsewhere, RealMode, CPU, Next
<1>2. CASE Searching
  BY <1>2 DEF Searching
<1>3. CASE SearchEnds
  <2>1. video' \in {"none", "no_mode", "mode"} /\ VesaStores(video')
    BY <1>3 DEF SearchEnds, V!Ended
  <2>2. VesaSetup
    BY <2>1 DEF VesaSetup
  <2> QED
    BY <2>2 DEF RealMode, CPU, Next
<1>4. CASE Elsewhere(Loading) \/ Elsewhere(Leaving) \/ Elsewhere(TimerTick)
  BY <1>4 DEF Elsewhere, CPU, Next
<1>5. CASE UNCHANGED bootVars
  BY <1>5 DEF bootVars
<1> QED
  BY <1>1, <1>2, <1>3, <1>4, <1>5 DEF BootNext, BootCPU

(* The detailed second stage implements the abstract one.                  *)
THEOREM ImplementsBoot == BootSpec => Spec
<1>1. BootInit => Init
  BY DEF BootInit
<1> QED
  BY <1>1, StepImplements, PTL DEF BootSpec, Spec

(* The guarantees of Stage2Boot for the second stage with its search.      *)
THEOREM BootHandoff == BootSpec => [](HandoffComplete /\ ModeMatchesCode)
  BY ImplementsBoot, HandoffIsComplete, CodeRunsInItsMode, PTL

-----------------------------------------------------------------------------
(* The search.  SearchInv says what is known after esi - 1 entries.        *)

Suitable(i) == /\ bios.found[i] \in DOMAIN bios.modes
               /\ V!Suits(bios.modes[bios.found[i]])

NothingYet == /\ wOptimizedVesaMode = 0
              /\ wCurrentRes = <<0, 0>>
              /\ \A i \in 1..(esi - 1) : ~Suitable(i)

FirstKept == /\ wOptimizedVesaMode \in DOMAIN bios.modes
             /\ wCurrentRes = <<1024, 768>>
             /\ \E i \in 1..(esi - 1) :
                  /\ Suitable(i) /\ wOptimizedVesaMode = bios.found[i]
                  /\ \A j \in 1..(esi - 1) : Suitable(j) => i <= j

AllSeen == esi = Len(bios.found) + 1

SearchInv ==
  /\ bios \in Bioses
  /\ esi \in 1..(Len(bios.found) + 1)
  /\ NothingYet \/ FirstKept
  /\ video \in {"controller", "search", "reload", "none", "no_mode", "mode"}
  /\ video = "none" => ~bios.vbe
  /\ video = "no_mode" => AllSeen /\ NothingYet
  /\ video \in {"reload", "mode"} => AllSeen /\ FirstKept
  /\ video = "mode" => VesaModeInfo = wOptimizedVesaMode
  /\ VesaModeInfo \in DOMAIN bios.modes \cup {0}

LEMMA BiosFacts == ASSUME bios \in Bioses
                   PROVE  /\ bios.found \in Seq(Nat \ {0})
                          /\ Len(bios.found) \in Nat
                          /\ 0 \notin DOMAIN bios.modes
  BY BiosAssumption DEF BiosAssumption

LEMMA InitSearch == BootInit => SearchInv
<1> SUFFICES ASSUME BootInit PROVE SearchInv
  OBVIOUS
<1>1. bios \in Bioses /\ Len(bios.found) \in Nat
  BY BiosFacts DEF BootInit, V!Init
<1> QED
  BY <1>1 DEF BootInit, V!Init, SearchInv, NothingYet

(* A mode is taken if it suits and none was taken before: the second one   *)
(* is no larger than the first.                                            *)
LEMMA TryModeKeeps == SearchInv /\ V!TryMode => SearchInv'
<1> SUFFICES ASSUME SearchInv, V!TryMode PROVE SearchInv'
  OBVIOUS
<1> DEFINE mode == bios.found[esi]
<1>1. /\ bios \in Bioses /\ Len(bios.found) \in Nat
      /\ 0 \notin DOMAIN bios.modes
  BY BiosFacts DEF SearchInv
<1>2. /\ esi \in 1..Len(bios.found) /\ esi' = esi + 1 /\ bios' = bios
      /\ video = "search" /\ video' = "search"
  BY <1>1 DEF SearchInv, V!TryMode
<1>7. VesaModeInfo' \in DOMAIN bios'.modes \cup {0}
  BY <1>2 DEF V!TryMode, V!Query
<1>3. \A i : Suitable(i)' <=> Suitable(i)
  BY <1>2 DEF Suitable
<1>4. V!Taken(mode) <=> Suitable(esi) /\ NothingYet
  <2>1. CASE NothingYet
    BY <2>1 DEF NothingYet, V!Taken, V!Suits, V!Better, Suitable
  <2>2. CASE FirstKept
    BY <1>1, <2>2 DEF FirstKept, NothingYet, V!Taken, V!Suits, V!Better
  <2> QED
    BY <2>1, <2>2 DEF SearchInv
<1>5. CASE V!Taken(mode)
  <2>1. /\ wOptimizedVesaMode' = mode
        /\ wCurrentRes' = bios.modes[mode].res
    BY <1>5 DEF V!TryMode
  <2>2. wCurrentRes' = <<1024, 768>> /\ mode \in DOMAIN bios.modes
    BY <1>5, <2>1 DEF V!Taken, V!Suits
  <2>3. Suitable(esi) /\ \A j \in 1..(esi - 1) : ~Suitable(j)
    BY <1>4, <1>5 DEF NothingYet
  <2>4. FirstKept'
    BY <1>2, <1>3, <2>1, <2>2, <2>3 DEF FirstKept
  <2> QED
    BY <1>1, <1>2, <1>7, <2>4 DEF SearchInv
<1>6. CASE ~V!Taken(mode)
  <2>1. UNCHANGED <<wCurrentRes, wOptimizedVesaMode>>
    BY <1>6 DEF V!TryMode
  <2>2. CASE NothingYet
    <3>1. \A i \in 1..esi : ~Suitable(i)
      BY <1>2, <1>4, <1>6, <2>2 DEF NothingYet
    <3>2. NothingYet'
      BY <1>2, <1>3, <2>1, <2>2, <3>1 DEF NothingYet
    <3> QED
      BY <1>1, <1>2, <1>7, <3>2 DEF SearchInv
  <2>3. CASE FirstKept
    <3>1. PICK i \in 1..(esi - 1) :
             /\ Suitable(i) /\ wOptimizedVesaMode = bios.found[i]
             /\ \A j \in 1..(esi - 1) : Suitable(j) => i <= j
      BY <2>3 DEF FirstKept
    <3>2. i \in 1..esi /\ \A j \in 1..esi : Suitable(j) => i <= j
      BY <1>2, <3>1
    <3>3. FirstKept'
      BY <1>2, <1>3, <2>1, <2>3, <3>1, <3>2 DEF FirstKept
    <3> QED
      BY <1>1, <1>2, <1>7, <3>3 DEF SearchInv
  <2> QED
    BY <2>2, <2>3 DEF SearchInv
<1> QED
  BY <1>5, <1>6

(* The end of the list and the query that restores the block.              *)
LEMMA SearchKeeps == SearchInv /\ V!Next => SearchInv'
<1> SUFFICES ASSUME SearchInv, V!Next PROVE SearchInv'
  OBVIOUS
<1> USE DEF SearchInv, NothingYet, FirstKept, AllSeen, Suitable
<1>1. Len(bios.found) \in Nat /\ 0 \notin DOMAIN bios.modes
  BY BiosFacts
<1>2. CASE V!GetController
  BY <1>1, <1>2 DEF V!GetController
<1>3. CASE V!TryMode
  BY <1>3, TryModeKeeps
<1>4. CASE V!EndOfList
  BY <1>1, <1>4 DEF V!EndOfList
<1>5. CASE V!Reload
  BY <1>1, <1>5 DEF V!Reload, V!Query
<1> QED
  BY <1>2, <1>3, <1>4, <1>5 DEF V!Next

-----------------------------------------------------------------------------
(* The search and the boot.                                                *)

BeforeVideo == {"stage2_entry", "GetLowerMemorySize", "SetupMemory",
                "EnableA20Gate", "InstallGdt32", "VesaSetup"}
AfterVideo == OpenLabels \ {"InstallGdt32", "VesaSetup"}

Announced == V!Ended /\ ("VBEMode" \in header <=> video = "mode")

Coupling == /\ pc \in BeforeVideo => "VBEMode" \notin header
            /\ pc \in AfterVideo => Announced

BootInv == SearchInv /\ Coupling

LEMMA InitBoot == BootInit => BootInv
<1>1. BootInit => Coupling
  BY DEF BootInit, Init, Coupling, AfterVideo, OpenLabels, LoadedLabels,
         ReturnLabels, LoadLabels
<1> QED
  BY <1>1, InitSearch DEF BootInv

(* Outside VesaSetup no step touches what the search found.                *)
LEMMA ElsewhereKeeps ==
  ASSUME BootInv, UNCHANGED videoVars,
         RealServices \/ Loading \/ Leaving \/ TimerTick \/ UNCHANGED vars
  PROVE  BootInv'
<1>1. SearchInv'
  BY DEF BootInv, videoVars, SearchInv, NothingYet, FirstKept, AllSeen, Suitable
<1> USE DEF BootInv, Coupling, Announced, videoVars, V!Ended, BeforeVideo,
            AfterVideo, OpenLabels, LoadedLabels, ReturnLabels, LoadLabels,
            Goto, info
<1>2. CASE RealServices
  <2>1. /\ pc \in BeforeVideo /\ pc' \notin AfterVideo
        /\ \/ header' = header
           \/ header' = header \cup {"BootLoaderName"}
           \/ header' = header \cup {"MemMapAddr", "MemMapLength"}
           \/ header' = header \cup {"MemMapAddr", "MemMapLength",
                                    "MemoryLo", "MemoryHi"}
    BY <1>2 DEF RealServices, Entry, GetLowerMemorySize, SetupMemory,
                NoMemorySize, EnableA20Gate, A20Fails, InstallGdt32
  <2> QED
    BY <1>1, <2>1
<1>3. CASE Loading
  <2>1. header' = header /\ (pc' \in AfterVideo => pc \in AfterVideo)
                         /\ pc' \notin BeforeVideo
    BY <1>3 DEF Loading, Enter32, SetPE, LoadCS, Temp32Bit, Detect, CheckAtapi,
                LoadKernel, LoadKernelFails, KernelSize, LoadElf32,
                LoadElf32Fails, LoadDerails, KernelAddr, NoATAPIDevice, ErrorLabel
  <2> QED
    BY <1>1, <2>1
<1>4. CASE Leaving
  BY <1>1, <1>4 DEF Leaving, LeaveProtected, PrepareToJumpToReal, LoadCS, SetPE,
                    Temp16Bit, EnterAgain, MaskPICs, FinalCli, JumpToKernel
<1>5. CASE TimerTick
  BY <1>1, <1>5 DEF TimerTick
<1>6. CASE UNCHANGED vars
  BY <1>1, <1>6 DEF vars
<1> QED
  BY <1>1, <1>2, <1>3, <1>4, <1>5, <1>6

(* The last step of the search stores its outcome.                         *)
LEMMA SearchEndsWell == BootInv /\ SearchEnds => BootInv'
<1> SUFFICES ASSUME BootInv, SearchEnds PROVE BootInv'
  OBVIOUS
<1>1. SearchInv'
  BY SearchKeeps DEF BootInv, SearchEnds
<1>2. /\ V!Ended' /\ pc' = "enter32" /\ "VBEMode" \notin header
      /\ header' = header \cup StoredFields(video')
  BY DEF BootInv, Coupling, BeforeVideo, SearchEnds, VesaStores, Goto
<1>3. "VBEMode" \in StoredFields(video') <=> video' = "mode"
  BY <1>2 DEF V!Ended, StoredFields, Video
<1> QED
  BY <1>1, <1>2, <1>3 DEF BootInv, Coupling, Announced, BeforeVideo

LEMMA BootInvariance == BootSpec => []BootInv
<1>1. BootInv /\ [BootNext]_bootVars => BootInv'
  <2> SUFFICES ASSUME BootInv, [BootNext]_bootVars PROVE BootInv'
    OBVIOUS
  <2>1. CASE Searching
    <3>1. SearchInv'
      BY <2>1, SearchKeeps DEF BootInv, Searching
    <3>2. Coupling'
      BY <2>1 DEF BootInv, Searching, Coupling, vars, AfterVideo
    <3> QED
      BY <3>1, <3>2 DEF BootInv
  <2>2. CASE SearchEnds
    BY <2>2, SearchEndsWell
  <2>3. CASE UNCHANGED bootVars
    BY <2>3, ElsewhereKeeps DEF bootVars
  <2> QED
    BY <2>1, <2>2, <2>3, ElsewhereKeeps DEF BootNext, BootCPU, Elsewhere
<1> QED
  BY InitBoot, <1>1, PTL DEF BootSpec

(* The boot and the search keep their types: the search stays in its list, *)
(* and no mode number is ever kept but one the BIOS has a block for.       *)
THEOREM BootTypeCorrect == BootSpec => []BootTypeOK
<1>1. SearchInv => V!TypeOK
  <2> SUFFICES ASSUME SearchInv PROVE V!TypeOK
    OBVIOUS
  <2>1. wCurrentRes \in Nat \X Nat /\ wOptimizedVesaMode \in DOMAIN bios.modes \cup {0}
    BY DEF SearchInv, NothingYet, FirstKept
  <2> QED
    BY <2>1 DEF SearchInv, V!TypeOK
<1>2. BootInv => V!TypeOK
  BY <1>1 DEF BootInv
<1>3. TypeOK /\ BootInv => BootTypeOK
  BY <1>2 DEF BootTypeOK
<1> QED
  BY <1>3, BootInvariance, ImplementsBoot, TypeCorrect, PTL

(* For every BIOS the kernel is told a mode exactly if the search found    *)
(* one, the first that suits of those in sight of the loader, and the      *)
(* block it is handed is that mode's (vesa.inc:249-291).                   *)
THEOREM ModeIsHandedOver == BootSpec => []ModeHandedOver
<1>1. ASSUME BootInv, pc = "kernel" PROVE ModeHandedOver
  <2>1. Announced /\ SearchInv
    BY <1>1 DEF BootInv, Coupling, AfterVideo, OpenLabels, LoadedLabels,
                ReturnLabels
  <2>2. V!BlockIsOfMode
    BY <2>1 DEF V!BlockIsOfMode, SearchInv, FirstKept, Suitable
  <2>3. ASSUME bios.vbe, bios.found = bios.offered PROVE V!FirstSuitable
    <3>1. DOMAIN bios.found = 1..(esi - 1) /\ Len(bios.found) \in Nat
          /\ AllSeen
      <4>1. video \in {"no_mode", "mode"} /\ AllSeen
        BY <2>1, <2>3 DEF Announced, V!Ended, SearchInv
      <4> QED
        BY <4>1, <2>1, BiosFacts DEF SearchInv, AllSeen
    <3>2. V!SuitableIn(bios.offered) = {i \in 1..(esi - 1) : Suitable(i)}
      BY <2>3, <3>1 DEF V!SuitableIn, Suitable
    <3>3. CASE video = "mode"
      <4>1. FirstKept
        BY <2>1, <3>3 DEF SearchInv
      <4>2. PICK i \in 1..(esi - 1) :
               /\ Suitable(i) /\ wOptimizedVesaMode = bios.found[i]
               /\ \A j \in 1..(esi - 1) : Suitable(j) => i <= j
        BY <4>1 DEF FirstKept
      <4> QED
        BY <2>3, <3>2, <3>3, <4>2 DEF V!FirstSuitable
    <3>4. CASE video = "no_mode"
      <4>1. NothingYet
        BY <2>1, <3>4 DEF SearchInv
      <4> QED
        BY <3>2, <3>4, <4>1 DEF V!FirstSuitable, NothingYet
    <3> QED
      BY <2>1, <2>3, <3>3, <3>4 DEF Announced, V!Ended, SearchInv
  <2>4. bios.vbe => V!FirstSuitable
    BY <2>3 DEF V!FirstSuitable
  <2> QED
    BY <2>1, <2>2, <2>4 DEF ModeHandedOver, Announced
<1>2. BootInv => ModeHandedOver
  BY <1>1 DEF ModeHandedOver
<1> QED
  BY <1>2, BootInvariance, PTL
=============================================================================
