----------------------------- MODULE Stage2Boot -----------------------------
(***************************************************************************)
(* The second stage from its entry to the jump into the kernel             *)
(* (stage2.asm:43-404): real mode services, the temporary 32-bit stay in   *)
(* which the kernel is read and unpacked, the way back through 16-bit      *)
(* protected mode to real mode, and the final protected mode.  The CPU's   *)
(* mode bits are part of the state, because each piece of code was         *)
(* assembled for one mode and interrupts are only serviced in real mode:   *)
(* no protected mode IDT is ever loaded.                                   *)
(*                                                                         *)
(* What the called routines do is the subject of other modules (Vesa,      *)
(* AtapiRead, Iso9660FS, ElfLoad, A20Gate, MemoryMap); here only their     *)
(* results count, and that some of them need not have one: Polls.          *)
(* Stage2Video puts Vesa in the place of VesaSetup.                        *)
(***************************************************************************)
EXTENDS Naturals

CONSTANTS Values,   \* what g_kernelSize and g_kernelAddress may be set to
          Stale     \* what a variable holds that no code has set yet

ASSUME Stage2Assumption == Stale \notin Values

VARIABLES pc,             \* label reached, or how the boot ended
          pe,             \* CR0.PE
          bits,           \* operand size CS makes the CPU decode for: 16 or 32
          ifl,            \* IF, the interrupt flag
          masked,         \* both PICs masked
          a20,            \* the A20 line
          header,         \* fields of BootHeader that have been stored
          descriptor,     \* BootDescriptor: KernelSize, KernelAddr
          g_kernelSize,   \* set by load_kernel (vfs.c)
          g_kernelAddress \* set by load_elf32 (elf.c)

cpu  == <<pe, bits, ifl, masked>>
info == <<header, descriptor, g_kernelSize, g_kernelAddress>>
vars == <<pc, pe, bits, ifl, masked, a20, header, descriptor, g_kernelSize,
          g_kernelAddress>>

RealLabels == {"stage2_entry", "GetLowerMemorySize", "SetupMemory",
               "EnableA20Gate", "InstallGdt32", "VesaSetup"}
LoadLabels == {"init_print_stage2", "identify_ata_devices",
               "detect_ata_devices", "check_and_set_atapi_device", "load_kernel",
               "kernel_size", "load_elf32", "kernel_addr", "leave32"}
ModeLabels == {"enter32", "to_Temp32Bit", "Temp32Bit", "PrepareToJumpToReal",
               "to_Temp16Bit", "Temp16Bit", "enter32_again",
               "to_ProtectedMode", "ProtectedMode", "final_cli", "handoff"}
ErrorLabels == {"NoATAPIDevice", "ErrorLoadingKernel", "ELFParseLoadingError",
                "GetLowerMemory_Error"}
Ends == {"kernel", "halted", "rebooted", "crashed", "derailed", "undefined"}

Labels == RealLabels \cup LoadLabels \cup ModeLabels \cup ErrorLabels \cup Ends

(* What is called here waits for a drive without a bound: the BSY poll of  *)
(* ata.inc:299-303, those of ata.c:233, 281 and 297, and those of a read   *)
(* (ata.c:510-550), which also never ends if its command was lost.         *)
(* load_kernel stands for init_vfs too.  On a medium or an iso_fs with     *)
(* directory sizes that are no whole number of sectors its search need not *)
(* end either (Iso9660FS).                                                 *)
Polls == {"identify_ata_devices", "detect_ata_devices", "load_kernel"}

Sized == {"BootLoaderName", "MemMapAddr", "MemMapLength", "MemoryLo",
          "MemoryHi"}
Video == {"VBEControllerInfo", "VBEModeInfo", "VBEMode"}

TypeOK == /\ pc \in Labels
          /\ pe \in BOOLEAN /\ ifl \in BOOLEAN
          /\ masked \in BOOLEAN /\ a20 \in BOOLEAN
          /\ bits \in {16, 32}
          /\ header \subseteq Sized \cup Video
          /\ descriptor \in [{"KernelSize", "KernelAddr"} -> Values \cup {Stale}]
          /\ g_kernelSize \in Values \cup {Stale}
          /\ g_kernelAddress \in Values \cup {Stale}

(* Stage 1 jumps here in real mode with interrupts on (stage1.asm:77, 248). *)
Init == /\ pc = "stage2_entry"
        /\ pe = FALSE
        /\ bits = 16
        /\ ifl = TRUE
        /\ masked = FALSE
        /\ a20 \in BOOLEAN
        /\ header = {}
        /\ descriptor = [f \in {"KernelSize", "KernelAddr"} |-> Stale]
        /\ g_kernelSize = Stale
        /\ g_kernelAddress = Stale

Goto(from, to) == pc = from /\ pc' = to

-----------------------------------------------------------------------------
(* Faulty variants of the sequence, one per property.                      *)

\* The wrong variable is copied into the boot descriptor.
KernelAddrSize == /\ Goto("kernel_addr", "leave32")
                  /\ descriptor' = [descriptor EXCEPT !["KernelAddr"] = g_kernelSize]
                  /\ UNCHANGED <<cpu, a20, header, g_kernelSize, g_kernelAddress>>

\* The size of a file that was never opened is taken.
LoadKernelNoSize == /\ Goto("load_kernel", "kernel_size")
                    /\ g_kernelSize' = 0
                    /\ UNCHANGED <<cpu, a20, header, descriptor, g_kernelAddress>>

\* The cli on arrival in the temporary 32-bit area is forgotten.
Temp32BitNoCli == /\ Goto("Temp32Bit", "init_print_stage2")
                  /\ UNCHANGED <<cpu, a20, info>>

\* Without a device the detection starts over.
NoATAPIDeviceRetry == /\ Goto("NoATAPIDevice", "init_print_stage2")
                      /\ UNCHANGED <<cpu, a20, info>>

\* VBEMode is stored before a suitable mode is known.
StoredFieldsEarly(outcome) ==
  CASE outcome = "none" -> {}
    [] outcome = "no_mode" -> {"VBEControllerInfo", "VBEMode"}
    [] outcome = "mode" -> Video

\* A near jump leaves CS as it is.
LeaveProtectedNear == /\ Goto("leave32", "PrepareToJumpToReal")
                      /\ UNCHANGED <<cpu, a20, info>>

-----------------------------------------------------------------------------
(* Real mode, BIOS available.                                              *)

Entry == /\ Goto("stage2_entry", "GetLowerMemorySize")
         /\ header' = header \cup {"BootLoaderName"}
         /\ UNCHANGED <<cpu, a20, descriptor, g_kernelSize, g_kernelAddress>>

GetLowerMemorySize == /\ \/ Goto("GetLowerMemorySize", "SetupMemory")
                         \/ Goto("GetLowerMemorySize", "GetLowerMemory_Error")
                      /\ UNCHANGED <<cpu, a20, info>>

\* A missing memory map is stored as length 0 and goes unnoticed; only both
\* sizes being 0 stops the boot (memory.inc:249-263).
SetupMemory == /\ header' = header \cup {"MemMapAddr", "MemMapLength",
                                         "MemoryLo", "MemoryHi"}
               /\ Goto("SetupMemory", "EnableA20Gate")
               /\ UNCHANGED <<cpu, a20, descriptor, g_kernelSize, g_kernelAddress>>

NoMemorySize == /\ Goto("SetupMemory", "halted")
                /\ header' = header \cup {"MemMapAddr", "MemMapLength"}
                /\ ifl' = FALSE
                /\ UNCHANGED <<pe, bits, masked, a20, descriptor, g_kernelSize,
                               g_kernelAddress>>

\* Already on, or switched on by the BIOS or the keyboard controller.
EnableA20Gate == /\ Goto("EnableA20Gate", "InstallGdt32")
                 /\ a20' = TRUE
                 /\ UNCHANGED <<cpu, info>>

\* SystemFail: wait for a key, warm boot (common.inc:8-14).
A20Fails == /\ Goto("EnableA20Gate", "rebooted")
            /\ ~a20
            /\ UNCHANGED <<cpu, a20, info>>

\* cli, lgdt, sti.
InstallGdt32 == /\ Goto("InstallGdt32", "VesaSetup")
                /\ ifl' = TRUE
                /\ UNCHANGED <<pe, bits, masked, a20, info>>

\* No VBE, no suitable mode, or a mode whose block is handed over.
StoredFields(outcome) ==
  CASE outcome = "none" -> {}
    [] outcome = "no_mode" -> {"VBEControllerInfo"}
    [] outcome = "mode" -> Video

VesaStores(outcome) ==
  /\ Goto("VesaSetup", "enter32")
  /\ header' = header \cup StoredFields(outcome)
  /\ UNCHANGED <<cpu, a20, descriptor, g_kernelSize, g_kernelAddress>>

VesaSetup == \E outcome \in {"none", "no_mode", "mode"} : VesaStores(outcome)

RealServices == \/ Entry \/ GetLowerMemorySize \/ SetupMemory \/ NoMemorySize
                \/ EnableA20Gate \/ A20Fails \/ InstallGdt32

RealMode == RealServices \/ VesaSetup

-----------------------------------------------------------------------------
(* The temporary stay in 32-bit protected mode.                            *)

SetPE(from, to) == /\ Goto(from, to)
                   /\ pe' = TRUE
                   /\ UNCHANGED <<bits, ifl, masked, a20, info>>

\* A far jump through a code descriptor of the GDT.
LoadCS(from, to, size) == /\ Goto(from, to)
                          /\ bits' = size
                          /\ UNCHANGED <<pe, ifl, masked, a20, info>>

Enter32 == SetPE("enter32", "to_Temp32Bit") \/ LoadCS("to_Temp32Bit", "Temp32Bit", 32)

Temp32Bit == /\ Goto("Temp32Bit", "init_print_stage2")
             /\ ifl' = FALSE
             /\ UNCHANGED <<pe, bits, masked, a20, info>>

Detect == /\ \/ Goto("init_print_stage2", "identify_ata_devices")
             \/ Goto("identify_ata_devices", "detect_ata_devices")
             \/ Goto("detect_ata_devices", "check_and_set_atapi_device")
          /\ UNCHANGED <<cpu, a20, info>>

CheckAtapi == /\ \/ Goto("check_and_set_atapi_device", "load_kernel")
                 \/ Goto("check_and_set_atapi_device", "NoATAPIDevice")
              /\ UNCHANGED <<cpu, a20, info>>

\* load_kernel sets g_kernelSize once the file is open (vfs.c:50-81).
LoadKernel == /\ Goto("load_kernel", "kernel_size")
              /\ g_kernelSize' \in Values
              /\ UNCHANGED <<cpu, a20, header, descriptor, g_kernelAddress>>

LoadKernelFails == /\ Goto("load_kernel", "ErrorLoadingKernel")
                   /\ UNCHANGED <<cpu, a20, info>>

KernelSize == /\ Goto("kernel_size", "load_elf32")
              /\ descriptor' = [descriptor EXCEPT !["KernelSize"] = g_kernelSize]
              /\ UNCHANGED <<cpu, a20, header, g_kernelSize, g_kernelAddress>>

\* An ELF file without a PT_LOAD segment leaves g_kernelAddress as it was.
LoadElf32 == /\ Goto("load_elf32", "kernel_addr")
             /\ g_kernelAddress' \in Values \cup {g_kernelAddress}
             /\ UNCHANGED <<cpu, a20, header, descriptor, g_kernelSize>>

LoadElf32Fails == /\ Goto("load_elf32", "ELFParseLoadingError")
                  /\ UNCHANGED <<cpu, a20, info>>

(* A disorderly medium (Iso9660FS) or a file with an unsafe layout         *)
(* (ElfLoad) makes the loader write over itself.                           *)
LoadDerails == /\ pc \in {"load_kernel", "load_elf32"}
               /\ pc' = "derailed"
               /\ UNCHANGED <<cpu, a20, info>>

KernelAddr == /\ Goto("kernel_addr", "leave32")
              /\ descriptor' = [descriptor EXCEPT !["KernelAddr"] = g_kernelAddress]
              /\ UNCHANGED <<cpu, a20, header, g_kernelSize, g_kernelAddress>>

NoATAPIDevice == /\ Goto("NoATAPIDevice", "halted")
                 /\ ifl' = FALSE
                 /\ UNCHANGED <<pe, bits, masked, a20, info>>

\* Both error labels are assembled after BITS 16 (stage2.asm:274, 289-299):
\* decoded for another operand size their bytes are other instructions.
ErrorLabel == /\ pc \in {"ErrorLoadingKernel", "ELFParseLoadingError"}
              /\ pc' = IF bits = 16 THEN "halted" ELSE "undefined"
              /\ UNCHANGED <<cpu, a20, info>>

Loading == \/ Enter32 \/ Temp32Bit \/ Detect \/ CheckAtapi \/ LoadKernel
           \/ LoadKernelFails \/ KernelSize \/ LoadElf32 \/ LoadElf32Fails
           \/ LoadDerails \/ KernelAddr \/ NoATAPIDevice \/ ErrorLabel

-----------------------------------------------------------------------------
(* Back to real mode, and to protected mode for good.                      *)

LeaveProtected == LoadCS("leave32", "PrepareToJumpToReal", 16)

\* lidt of the real mode table, then PE off; the far jump follows.
PrepareToJumpToReal == \/ /\ Goto("PrepareToJumpToReal", "to_Temp16Bit")
                          /\ pe' = FALSE
                          /\ UNCHANGED <<bits, ifl, masked, a20, info>>
                       \/ LoadCS("to_Temp16Bit", "Temp16Bit", 16)

Temp16Bit == /\ Goto("Temp16Bit", "enter32_again")
             /\ ifl' = TRUE
             /\ UNCHANGED <<pe, bits, masked, a20, info>>

EnterAgain == \/ SetPE("enter32_again", "to_ProtectedMode")
              \/ LoadCS("to_ProtectedMode", "ProtectedMode", 32)

MaskPICs == /\ Goto("ProtectedMode", "final_cli")
            /\ masked' = TRUE
            /\ UNCHANGED <<pe, bits, ifl, a20, info>>

FinalCli == /\ Goto("final_cli", "handoff")
            /\ ifl' = FALSE
            /\ UNCHANGED <<pe, bits, masked, a20, info>>

JumpToKernel == /\ Goto("handoff", "kernel")
                /\ UNCHANGED <<cpu, a20, info>>

Leaving == \/ LeaveProtected \/ PrepareToJumpToReal \/ Temp16Bit \/ EnterAgain
           \/ MaskPICs \/ FinalCli \/ JumpToKernel

-----------------------------------------------------------------------------
(* The timer.  In real mode its handler returns; in protected mode the     *)
(* real mode vector table is read as an IDT and the CPU is lost.  A tick   *)
(* also ends the hlt of GetLowerMemory_Error (memory.inc:39), behind which *)
(* execution runs on into GetMemorySize with eight registers on the stack. *)

TimerTick == /\ ifl /\ ~masked /\ pc \notin Ends
             /\ \/ pe /\ pc' = "crashed"
                \/ ~pe /\ Goto("GetLowerMemory_Error", "undefined")
             /\ UNCHANGED <<cpu, a20, info>>

CPU == RealMode \/ Loading \/ Leaving

Next == CPU \/ TimerTick

Spec == Init /\ [][Next]_vars

\* The CPU keeps executing and the PIT keeps ticking; nobody promises that a
\* poll ends.
FairSpec == Spec /\ WF_vars(pc \notin Polls /\ CPU) /\ WF_vars(TimerTick)

-----------------------------------------------------------------------------
(* Properties.                                                             *)

\* A VBE mode is only announced together with the block that describes it
\* and the controller block it was found in.
VideoConsistent ==
  ("VBEMode" \in header \/ "VBEModeInfo" \in header) =>
     Video \subseteq header

(* When the kernel gets control, the CPU is as its entry point expects     *)
(* (flat 32-bit protected mode, no interrupt possible, A20 on), every      *)
(* header field the loader promises is there and BootDescriptor holds what *)
(* load_kernel and load_elf32 ended with, not what they began with.  What  *)
(* the header says of the video mode is either complete or absent.         *)
HandoffComplete ==
  pc = "kernel" => /\ pe /\ bits = 32 /\ ~ifl /\ masked /\ a20
                   /\ Sized \subseteq header
                   /\ g_kernelSize \in Values
                   /\ descriptor = [KernelSize |-> g_kernelSize,
                                    KernelAddr |-> g_kernelAddress]
                   /\ VideoConsistent

\* The drivers, the file system and the ELF loader never run with an
\* interrupt that could reach them.
LoadingUndisturbed ==
  pc \in LoadLabels => pe /\ bits = 32 /\ ~ifl

\* Code assembled for 16 bits runs with a 16-bit CS once the loader is done.
BackInRealMode ==
  pc \in {"PrepareToJumpToReal", "to_Temp16Bit", "Temp16Bit",
          "enter32_again", "to_ProtectedMode"} => bits = 16

(* Every part of the second stage that lies on the way to the kernel runs  *)
(* in the mode it was assembled or compiled for, across the four mode      *)
(* switches, and the C code (by far the longest part of the boot) out of   *)
(* the reach of interrupts.                                                *)
ModeMatchesCode == LoadingUndisturbed /\ BackInRealMode

\* The error paths that have no end of their own.
Unended == {"GetLowerMemory_Error", "ErrorLoadingKernel", "ELFParseLoadingError"}

(* Every boot ends in the kernel, with the CPU halted or in a warm boot,   *)
(* except those that wait for a drive for ever, that reach one of three    *)
(* error labels, that are overwritten while the kernel is loaded, or that  *)
(* a timer tick finds in protected mode.  No loop leads from one of the    *)
(* called parts back to an earlier one.                                    *)
Terminates == \/ <>(pc \in {"kernel", "halted", "rebooted"})
              \/ <>[](pc \in Polls)
              \/ <>(pc \in Unended \cup {"derailed", "crashed"})

(* stage2.asm:374-375 interrupts are disabled "as they are no more         *)
(* available": none is taken while PE is set.                              *)
NoInterruptInProtectedMode == pc # "crashed"
=============================================================================
