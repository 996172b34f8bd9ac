-------------------------------- MODULE Vesa --------------------------------
(***************************************************************************)
(* VesaSetup (vesa.inc:226-291) and the search behind it (94-197): the     *)
(* BIOS's list of video modes is walked up to its end, each mode is asked  *)
(* for its block with int 10h, and the number of the one that suits is     *)
(* kept.  All blocks go through the one buffer VesaModeInfo, which is also *)
(* what the kernel is handed, so the block is fetched again at the end.    *)
(*                                                                         *)
(* Of the far pointer to the list only the offset is used (es is 0): a     *)
(* list outside segment 0 is not found, and words of low memory are taken  *)
(* for mode numbers up to the first 0xFFFF.                                *)
(***************************************************************************)
EXTENDS Naturals, Sequences

CONSTANTS Bioses   \* the video BIOSes: [vbe, offered, found, modes]

(* vbe: int 10h, AX = 4F00h succeeds; offered: its mode list; found: the   *)
(* words behind the offset of its list pointer, up to 0xFFFF; modes: the   *)
(* block of each mode number that AX = 4F01h answers.                      *)

VARIABLES bios,
          video,              \* what VesaSetup is doing
          esi,                \* entry of the list
          wCurrentRes,        \* wCurrentResX, wCurrentResY
          wOptimizedVesaMode, \* 0 until a mode is found
          VesaModeInfo        \* the mode whose block is in the buffer, or 0

Init == /\ bios \in Bioses
        /\ video = "controller"
        /\ esi = 1
        /\ wCurrentRes = <<0, 0>>
        /\ wOptimizedVesaMode = 0
        /\ VesaModeInfo = 0

TypeOK == /\ video \in {"controller", "search", "reload", "none", "no_mode", "mode"}
          /\ esi \in 1..(Len(bios.found) + 1)
          /\ wCurrentRes \in Nat \X Nat
          /\ {wOptimizedVesaMode, VesaModeInfo} \subseteq DOMAIN bios.modes \cup {0}

Ended == video \in {"none", "no_mode", "mode"}

-----------------------------------------------------------------------------

\* Faulty variant: the block the search left in the buffer is handed over.
ReloadForgotten == /\ video = "reload"
                   /\ video' = "mode"
                   /\ UNCHANGED <<bios, esi, wCurrentRes, wOptimizedVesaMode,
                                  VesaModeInfo>>

\* VesaGetVideoModes.
GetController == /\ video = "controller"
                 /\ video' = IF bios.vbe THEN "search" ELSE "none"
                 /\ UNCHANGED <<bios, esi, wCurrentRes, wOptimizedVesaMode,
                                VesaModeInfo>>

\* Color, graphics and linear frame buffer; 32 bits per pixel; 1024x768.
Suits(block) == block = [lfb |-> TRUE, bpp |-> 32, res |-> <<1024, 768>>]

\* "Check if we have better stored".
Better(res) == res[1] > wCurrentRes[1] /\ res[2] > wCurrentRes[2]

\* The buffer is cleared before every query, and a query may fail.
Query(mode) == VesaModeInfo' = IF mode \in DOMAIN bios.modes THEN mode ELSE 0

Taken(mode) == /\ mode \in DOMAIN bios.modes
               /\ Suits(bios.modes[mode])
               /\ Better(bios.modes[mode].res)

TryMode == /\ video = "search" /\ esi <= Len(bios.found)
           /\ LET mode == bios.found[esi] IN
              /\ Query(mode)
              /\ IF Taken(mode)
                   THEN /\ wCurrentRes' = bios.modes[mode].res
                        /\ wOptimizedVesaMode' = mode
                   ELSE UNCHANGED <<wCurrentRes, wOptimizedVesaMode>>
           /\ esi' = esi + 1
           /\ UNCHANGED <<bios, video>>

EndOfList == /\ video = "search" /\ esi > Len(bios.found)
             /\ VesaModeInfo' = 0
             /\ video' = IF wOptimizedVesaMode = 0 THEN "no_mode" ELSE "reload"
             /\ UNCHANGED <<bios, esi, wCurrentRes, wOptimizedVesaMode>>

Reload == /\ video = "reload"
          /\ Query(wOptimizedVesaMode)
          /\ video' = "mode"
          /\ UNCHANGED <<bios, esi, wCurrentRes, wOptimizedVesaMode>>

Next == GetController \/ TryMode \/ EndOfList \/ Reload

-----------------------------------------------------------------------------

SuitableIn(list) ==
  {i \in DOMAIN list : list[i] \in DOMAIN bios.modes /\ Suits(bios.modes[list[i]])}

\* A list that the loop can find gives its first suitable mode.
FirstSuitable ==
  bios.found = bios.offered =>
    IF video = "mode"
      THEN \E i \in SuitableIn(bios.offered) :
             /\ wOptimizedVesaMode = bios.offered[i]
             /\ \A j \in SuitableIn(bios.offered) : i <= j
      ELSE SuitableIn(bios.offered) = {}

\* Wherever the list was, the mode announced is one the BIOS has, of the
\* wanted kind, and the block in the buffer is its own.
BlockIsOfMode ==
  video = "mode" => /\ wOptimizedVesaMode \in DOMAIN bios.modes
                    /\ Suits(bios.modes[wOptimizedVesaMode])
                    /\ VesaModeInfo = wOptimizedVesaMode
=============================================================================
