---------------------------- MODULE BuildAndBoot ----------------------------
(***************************************************************************)
(* The build number on its way from headers/revision.h to the screen: the  *)
(* revision tool counts (Revision), print.c is compiled with what the      *)
(* header says, and the machine that boots the image prints it in its      *)
(* banner (Console).                                                       *)
(*                                                                         *)
(* print.elf depends on print.c alone (src/src/boot/stage2/Makefile), so a *)
(* build that finds one keeps it, with the version it was compiled with.   *)
(***************************************************************************)
EXTENDS Console

CONSTANTS Starts, MaxRuns,   \* see Revision
          Strings,           \* what is printed after the banner
          Values,            \* numbers printed after it, in hexadecimal
          Sizes,             \* sizes of the texts written by assembly code
          IdentityLines,     \* lines written for the drives, 12 in the code
          MaxTexts,          \* bound on the texts printed with boot_print
          NoImage            \* there is no print.elf

VARIABLES header, tool, command, numbers, status, counted, damaged, runs,
          image,             \* numbers in print.elf, or NoImage
          machine,           \* "off", "on", "identifying", "printing", "halted"
          cursor_line,       \* next row of print_fixed_size_string
          texts              \* how many texts were printed after the banner

R == INSTANCE Revision

\* A header is made of the tool's lines, each any number of times and in any
\* order; texts are strings.
ASSUME HeaderAssumption ==
  Starts \subseteq Seq([name : R!Names, value : Nat]) /\ MaxRuns \in Nat
ASSUME TextAssumption == \A s \in Strings : s \in Seq({s[i] : i \in DOMAIN s})

\* The lines for the drives fit on the screen.
ASSUME IdentityAssumption == /\ Sizes \subseteq Nat
                             /\ IdentityLines \in 0..SCREEN_HEIGHT

revisionVars == <<header, tool, command, numbers, status, counted, damaged, runs>>
vars == <<revisionVars, consoleVars, image, machine, cursor_line, texts>>

Off == [r \in Rows |-> BlankLine]

Init == /\ R!Init
        /\ image = NoImage
        /\ machine = "off"
        /\ videoMem = Off /\ row = 0 /\ column = 0
        /\ str = <<>> /\ meant = <<>> /\ lines = <<<<>>>> /\ over = Nowhere
        /\ cursor_line = 0
        /\ texts = 0

-----------------------------------------------------------------------------
(* The build.                                                              *)

Count == /\ machine = "off"
         /\ R!Next
         /\ UNCHANGED <<consoleVars, image, machine, cursor_line, texts>>

\* Faulty variant: a header that can be cut anywhere and still compiles.
CompileAny == /\ machine = "off"
              /\ tool = "idle" /\ runs > 0 /\ command = "build" /\ status = 0
              /\ image = NoImage
              /\ image' = R!GetRevision(header)
              /\ UNCHANGED <<revisionVars, consoleVars, machine, cursor_line, texts>>

\* make goes on after increase-build only when that has returned 0; of a
\* header without its #endif the compiler takes nothing.
Compile == /\ machine = "off"
           /\ tool = "idle" /\ runs > 0 /\ command = "build" /\ status = 0
           /\ image = NoImage
           /\ R!Complete
           /\ image' = R!GetRevision(header)
           /\ UNCHANGED <<revisionVars, consoleVars, machine, cursor_line, texts>>

\* make clean
Clean == /\ machine = "off" /\ tool = "idle"
         /\ image' = NoImage
         /\ UNCHANGED <<revisionVars, consoleVars, machine, cursor_line, texts>>

-----------------------------------------------------------------------------
(* The machine.                                                            *)

\* init_print_stage2 has run.
Cleared == machine \in {"identifying", "printing", "halted"}

\* Nothing clears .bss or the screen before stage 2 starts; cursor_line is
\* part of the binary.
PowerOn == /\ machine = "off" /\ tool = "idle" /\ image # NoImage
           /\ machine' = "on"
           /\ videoMem' \in {Off, [r \in Rows |-> [c \in Columns |-> Dot]]}
           /\ row' \in {0, SCREEN_HEIGHT} /\ column' \in {0, SCREEN_WIDTH}
           /\ UNCHANGED <<revisionVars, str, meant, lines, over, image,
                          cursor_line, texts>>

\* The strings of init_print_stage2; a Dot stands for each piece of fixed
\* text.
Banner(numeral) ==
  <<Dot, NewLine, NewLine, Dot, NewLine,
    Dot, NewLine, Dot, NewLine, Dot, NewLine, Dot>>
  \o numeral["REVISION_MAJOR"] \o <<Dot>>
  \o numeral["REVISION_MINOR"] \o <<Dot>>
  \o numeral["REVISION_BUILD"] \o <<NewLine>>

init_print_stage2 ==
  /\ machine = "on"
  /\ boot_clear_screen
  /\ str' = Banner([f \in R!Fields |-> IntString(image[f])])
  /\ lines' = <<<<>>>>
  /\ meant' = Banner([f \in R!Fields |-> Decimal(image[f])])
  /\ machine' = "identifying"
  /\ UNCHANGED <<revisionVars, image, cursor_line, texts>>

\* identify_ata_devices, which follows the banner in every boot: one to three
\* lines for each drive.  The upper half of EAX is as the C code left it; when
\* it is not 0 the line goes elsewhere.
print_fixed_size_string ==
  /\ machine = "identifying" /\ str = <<>>
  /\ cursor_line < IdentityLines
  /\ cursor_line' = cursor_line + 1
  /\ \/ \E size \in Sizes : WriteOver(cursor_line, size)
     \/ UNCHANGED consoleVars
  /\ UNCHANGED <<revisionVars, image, machine, texts>>

\* boot_print and boot_print_hex, called from anywhere after it.
PrintMore ==
  /\ machine \in {"identifying", "printing"} /\ texts < MaxTexts
  /\ machine' = "printing"
  /\ texts' = texts + 1
  /\ \/ \E string \in Strings : Say(string, string)
     \/ \E value \in Values : Say(HexString(value), Hex(value))
  /\ UNCHANGED <<revisionVars, image, cursor_line>>

PrintNext == /\ machine \in {"identifying", "printing"}
             /\ boot_print
             /\ UNCHANGED <<revisionVars, image, machine, cursor_line, texts>>

\* PrintString32 at NoATAPIDevice, where a boot ends (behind the error labels
\* stands code the CPU decodes in another mode, see Stage2Boot).
PrintString32 ==
  /\ machine = "printing" /\ str = <<>>
  /\ machine' = "halted"
  /\ \E size \in Sizes : WriteOver(0, size)
  /\ UNCHANGED <<revisionVars, image, cursor_line, texts>>

PowerOff == /\ machine # "off"
            /\ machine' = "off"
            /\ videoMem' = Off /\ row' = 0 /\ column' = 0
            /\ str' = <<>> /\ meant' = <<>> /\ lines' = <<<<>>>> /\ over' = Nowhere
            /\ cursor_line' = 0
            /\ texts' = 0
            /\ UNCHANGED <<revisionVars, image>>

Next == \/ Count \/ Compile \/ Clean
        \/ PowerOn \/ init_print_stage2 \/ print_fixed_size_string
        \/ PrintMore \/ PrintNext \/ PrintString32 \/ PowerOff

Spec == Init /\ [][Next]_vars

-----------------------------------------------------------------------------

\* Types of the build and of the console (print.c, revision.c): the cursor
\* is on the screen from the clear on, however printing goes.
TypeOK ==
  /\ R!TypeOK
  /\ image = NoImage \/ image \in [R!Fields -> Nat]
  /\ machine \in {"off", "on", "identifying", "printing", "halted"}
  /\ cursor_line \in 0..IdentityLines
  /\ DOMAIN videoMem = Rows /\ \A r \in Rows : DOMAIN videoMem[r] = Columns
  /\ DOMAIN over = Rows
  /\ Cleared => row \in Rows /\ column \in Columns

\* After every character the screen shows the end of the text printed so far,
\* broken into lines at newlines and at the right border, with numbers as they
\* are written by hand (boot_print, boot_scroll, boot_print_int,
\* boot_print_hex), whatever memory held at power on.  Only what the assembly
\* code has written straight into the video memory stands over it, moves up
\* with it, and goes when boot_print writes there (print_fixed_size_string,
\* PrintString32).
ScreenShowsText == Cleared => ShowsLines

\* Runs of the revision tool that end in their own time never lose a number,
\* and no run makes one larger than what has been asked for, also when the
\* header was cut short in the middle of a number (GetRevision, main).
NumbersKept == R!Kept

\* Whatever is compiled into an image are the numbers of the last run of the
\* revision tool, none ahead of what was asked for and, as long as no run was
\* cut short, exactly those; also when a full disk cut the header and the tool
\* returned 0 all the same (revision.c:225-226, src/Makefile:27).
CompiledAsCounted ==
  [][image' \notin {image, NoImage} =>
       /\ image' = numbers
       /\ \A f \in R!Fields : image'[f] <= counted[f]
       /\ ~damaged => image' = counted]_vars
=============================================================================
