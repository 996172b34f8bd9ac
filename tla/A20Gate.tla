------------------------------ MODULE A20Gate -------------------------------
(***************************************************************************)
(* EnableA20Gate (a20.inc:132-181) and the keyboard controller it talks to.*)
(* The CPU, the controller's firmware and the person at the keyboard are   *)
(* three processes: the CPU polls the status register (port 64h) and       *)
(* exchanges bytes through port 60h, whose output buffer the controller    *)
(* uses both for scan codes and for answers to commands.                   *)
(*                                                                         *)
(* Of a byte the two bits that matter in the controller's output port are  *)
(* told apart, bit 0, which resets the CPU when it is written as 0, and    *)
(* bit 1, the A20 line; the others are kept together.  A key may send any  *)
(* byte.                                                                   *)
(***************************************************************************)
EXTENDS Naturals

CONSTANTS Rest,        \* values bits 2 to 7 may have, 0..63 in the machine
          AD, AE,      \* commands: keyboard off, keyboard on
          D0, D1,      \* commands: read, write the output port
          NoByte       \* an empty buffer

Bytes == [run : {0, 1}, a20 : {0, 1}, rest : Rest]
Commands == {AD, AE, D0, D1}

ASSUME RestAssumption == Rest # {}
ASSUME CommandAssumption == /\ Commands \cap Bytes = {}
                            /\ NoByte \notin Bytes \cup Commands
                            /\ AD # AE /\ AD # D0 /\ AD # D1
                            /\ AE # D0 /\ AE # D1 /\ D0 # D1

VARIABLES pc,
          ifl,        \* interrupt flag: IRQ 1 empties the output buffer
          a20,        \* the line itself
          wired,      \* whether this board lets the controller drive it
          saved,      \* byte read from port 60h
          ibf,        \* input buffer: command or data not yet taken
          dataNext,   \* the next byte is data for the output port
          owed,       \* an answer to D0 waits for the output buffer
          obf,        \* output buffer
          port,       \* the output port
          kbOn,       \* keyboard interface enabled
          early       \* history: a scan code was already waiting when the
                      \* controller took AD

cpuVars == <<pc, ifl, saved>>
kbcVars == <<ibf, dataNext, owed, obf, port, kbOn, early>>
vars == <<pc, ifl, a20, wired, saved, ibf, dataNext, owed, obf, port, kbOn,
          early>>

TypeOK ==
  /\ pc \in {"check", "bios", "check_bios", "kbc", "disable", "ask", "answer",
             "announce", "write", "enable", "settle", "check_kbc", "done",
             "rebooted", "reset"}
  /\ {ifl, a20, wired, dataNext, owed, kbOn, early} \subseteq BOOLEAN
  /\ saved \in Bytes \cup {NoByte}
  /\ ibf \in Commands \cup Bytes \cup {NoByte}
  /\ obf \in Bytes \cup {NoByte}
  /\ port \in Bytes

Init == /\ pc = "check"
        /\ ifl = TRUE
        /\ a20 \in BOOLEAN /\ wired \in BOOLEAN
        /\ saved = NoByte
        /\ ibf = NoByte /\ dataNext = FALSE /\ owed = FALSE /\ obf = NoByte
        /\ port \in {b \in Bytes : b.run = 1 /\ b.a20 = IF wired /\ a20 THEN 1 ELSE 0}
        /\ kbOn = TRUE
        /\ early = FALSE

Goto(from, to) == pc = from /\ pc' = to

-----------------------------------------------------------------------------
(* Faulty variants, one per property.                                      *)

\* A20Wait2 waits for the input buffer.
A20Wait2Input == ibf = NoByte

\* The controller's answer is written back as it is.
WithA20Unset(b) == b

\* add al, 2 instead of or al, 2.
WithA20Added(b) == [b EXCEPT !.a20 = @ + 1]

\* The last A20Wait is missing, the keyboard is still off at the sti.
SettleNot == /\ Goto("settle", "check_kbc")
             /\ ifl' = TRUE
             /\ UNCHANGED <<a20, wired, saved, kbcVars>>

\* A failed check starts the sequence over.
CheckA20Again(from, next) ==
  /\ pc = from
  /\ pc' = IF a20 THEN "done" ELSE IF from = "check_kbc" THEN "bios" ELSE next
  /\ UNCHANGED <<ifl, a20, wired, saved, kbcVars>>

-----------------------------------------------------------------------------
(* EnableA20Gate.                                                          *)

\* The wrap-around test of CheckA20Gate; flags are saved and restored.
CheckA20Gate(from, next) == /\ pc = from
                            /\ pc' = IF a20 THEN "done" ELSE next
                            /\ UNCHANGED <<ifl, a20, wired, saved, kbcVars>>

\* int 15h, AX = 2401h: works or is not supported.
A20MethodBios == /\ Goto("bios", "check_bios")
                 /\ a20' \in {a20, TRUE}
                 /\ UNCHANGED <<ifl, wired, saved, kbcVars>>

\* cli on entry of A20MethodKeyboardController.
StartKbc == /\ Goto("kbc", "disable")
            /\ ifl' = FALSE
            /\ UNCHANGED <<a20, wired, saved, kbcVars>>

A20Wait == ibf = NoByte
A20Wait2 == obf # NoByte

\* A20Wait, then out 64h or out 60h.
Out(from, to, byte) == /\ Goto(from, to)
                       /\ A20Wait
                       /\ ibf' = byte
                       /\ UNCHANGED <<ifl, a20, wired, saved, dataNext, owed,
                                      obf, port, kbOn, early>>

\* or al, 2
WithA20(b) == [b EXCEPT !.a20 = 1]

\* An empty buffer would read as anything.
ReadAnswer == /\ Goto("answer", "announce")
              /\ A20Wait2
              /\ saved' \in (IF obf = NoByte THEN Bytes ELSE {obf})
              /\ obf' = NoByte
              /\ UNCHANGED <<ifl, a20, wired, ibf, dataNext, owed, port, kbOn,
                              early>>

Settle == /\ Goto("settle", "check_kbc")
          /\ A20Wait
          /\ ifl' = TRUE
          /\ UNCHANGED <<a20, wired, saved, kbcVars>>

CPU == \/ CheckA20Gate("check", "bios")
       \/ A20MethodBios
       \/ CheckA20Gate("check_bios", "kbc")
       \/ StartKbc
       \/ Out("disable", "ask", AD)
       \/ Out("ask", "answer", D0)
       \/ ReadAnswer
       \/ Out("announce", "write", D1)
       \/ Out("write", "enable", WithA20(saved))
       \/ Out("enable", "settle", AE)
       \/ Settle
       \/ CheckA20Gate("check_kbc", "rebooted")

-----------------------------------------------------------------------------
(* The controller, the keyboard, and the BIOS handler of IRQ 1 (hardware   *)
(* and firmware, modelled from what the code expects of them).             *)

TakeCommand == /\ ibf \in Commands /\ ~owed
               /\ ibf' = NoByte
               /\ kbOn' = (ibf = AE \/ (kbOn /\ ibf # AD))
               /\ owed' = (ibf = D0)
               /\ dataNext' = (ibf = D1)
               /\ early' = IF ibf = AD THEN obf # NoByte ELSE early
               /\ UNCHANGED <<cpuVars, a20, wired, obf, port>>

Answer == /\ owed /\ obf = NoByte
          /\ obf' = port
          /\ owed' = FALSE
          /\ UNCHANGED <<cpuVars, a20, wired, ibf, dataNext, port, kbOn, early>>

\* Data for the output port; bit 0 written as 0 resets the CPU.
TakeData == /\ ibf \in Bytes /\ ~owed
            /\ ibf' = NoByte
            /\ dataNext' = FALSE
            /\ IF dataNext
                 THEN /\ port' = ibf
                      /\ a20' = IF wired THEN ibf.a20 = 1 ELSE a20
                      /\ pc' = IF ibf.run = 0 THEN "reset" ELSE pc
                 ELSE UNCHANGED <<port, a20, pc>>
            /\ UNCHANGED <<ifl, wired, saved, owed, obf, kbOn, early>>

Controller == pc # "reset" /\ (TakeCommand \/ Answer \/ TakeData)

KeyPress == /\ pc # "reset" /\ kbOn /\ obf = NoByte
            /\ obf' \in Bytes
            /\ UNCHANGED <<cpuVars, a20, wired, ibf, dataNext, owed, port, kbOn,
                           early>>

Irq1 == /\ pc # "reset" /\ ifl /\ obf # NoByte
        /\ obf' = NoByte
        /\ UNCHANGED <<cpuVars, a20, wired, ibf, dataNext, owed, port, kbOn,
                       early>>

Next == CPU \/ Controller \/ KeyPress \/ Irq1

Spec == Init /\ [][Next]_vars

\* The CPU and the firmware go on; nobody has to press a key.
FairSpec == Spec /\ WF_vars(CPU) /\ WF_vars(Controller)

-----------------------------------------------------------------------------
(* Properties.                                                             *)

\* The 0xAE has been carried out before interrupts return.
KeyboardBack == pc \in {"check_kbc", "done", "rebooted"} => kbOn

WiredGateOpens ==
  pc \in {"check_kbc", "rebooted"} => (wired => a20)

(* When the sequence is over the keyboard works again, and a controller    *)
(* that drives the A20 line has it on, whatever was typed meanwhile and    *)
(* also when the byte it was given back was not its own.                   *)
KeyboardAndGateReady == KeyboardBack /\ WiredGateOpens

(* The method only sets bit 1 of the output port, whatever is typed once   *)
(* the keyboard is off, and however the three processes interleave: when   *)
(* no scan code was waiting at that moment, what the CPU reads is the      *)
(* port, and what it writes back is the port with A20 on.  (A scan code    *)
(* that was waiting is written back instead, reset bit and all.)           *)
OnlyA20Changes == [][early \/ port' \in {port, WithA20(port)}]_vars

(* The gate is open, or the machine is on its way to a warm boot.          *)
Terminates == <>(pc \in {"done", "rebooted", "reset"})

(* a20.inc:95 "Save the current state of the output port".                 *)
SavedIsOutputPort == pc = "announce" => saved = port
=============================================================================
