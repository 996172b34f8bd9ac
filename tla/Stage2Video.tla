---------------------------- MODULE Stage2Video -----------------------------
(***************************************************************************)
(* The second stage with its video mode search in place of the outcome     *)
(* Stage2Boot chooses for it: while pc is "VesaSetup" the steps are those  *)
(* of Vesa, and the last of them stores what the search ended with in      *)
(* BootHeader.                                                             *)
(***************************************************************************)
EXTENDS Stage2Boot, Sequences

CONSTANTS Bioses

\* 0 is no mode number; of all blocks only those of the BIOS are described.
ASSUME BiosAssumption ==
  \A b \in Bioses : b.found \in Seq(Nat \ {0}) /\ DOMAIN b.modes \subseteq Nat \ {0}

VARIABLES bios, video, esi, wCurrentRes, wOptimizedVesaMode, VesaModeInfo

V == INSTANCE Vesa

videoVars == <<bios, video, esi, wCurrentRes, wOptimizedVesaMode, VesaModeInfo>>
bootVars == <<vars, videoVars>>

BootInit == Init /\ V!Init

\* The steps of the second stage outside VesaSetup.
Elsewhere(step) == step /\ UNCHANGED videoVars

Searching == /\ pc = "VesaSetup"
             /\ V!Next /\ ~V!Ended'
             /\ UNCHANGED vars

SearchEnds == /\ pc = "VesaSetup"
              /\ V!Next /\ V!Ended'
              /\ VesaStores(video')

BootCPU == \/ Elsewhere(RealServices) \/ Searching \/ SearchEnds
           \/ Elsewhere(Loading) \/ Elsewhere(Leaving)

BootNext == BootCPU \/ Elsewhere(TimerTick)

BootSpec == BootInit /\ [][BootNext]_bootVars

\* As in Stage2Boot: the CPU keeps executing, except perhaps in a poll, and
\* the PIT keeps ticking.
BootFairSpec == /\ BootSpec
                /\ WF_bootVars(pc \notin Polls /\ BootCPU)
                /\ WF_bootVars(Elsewhere(TimerTick))

-----------------------------------------------------------------------------

BootTypeOK == TypeOK /\ V!TypeOK

(* The kernel is told a video mode exactly if the BIOS has one of the kind *)
(* the loader wants in the list the loader can see, the first of them, and *)
(* the block at VBEModeInfo describes that mode and no other the search    *)
(* looked at (vesa.inc:269-276).  Where the BIOS keeps its list outside    *)
(* segment 0 the mode announced, if any, is still one of that kind.        *)
ModeHandedOver ==
  pc = "kernel" => /\ "VBEMode" \in header <=> video = "mode"
                   /\ V!BlockIsOfMode
                   /\ bios.vbe => V!FirstSuitable
=============================================================================
