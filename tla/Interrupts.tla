----------------------------- MODULE Interrupts -----------------------------
(***************************************************************************)
(* The gates of src/src/idt/idt.c, the wrapper of idt.asm, and what they   *)
(* do to the code they interrupt.  All gates are interrupt gates, so a     *)
(* handler runs with interrupts off and is one step here.  The PIC is      *)
(* taken as kernel_remap_master_pic leaves it: nothing masked, a line is   *)
(* served again only after an end-of-interrupt, and the disk's line comes  *)
(* in through a second PIC.                                                *)
(***************************************************************************)
EXTENDS Terminal

CONSTANTS
  Key,      \* what "A key" is short for
  Error     \* what "Divide by zero error!" is short for

ASSUME MessageAssumption == Key \in Letters /\ Error \in Letters

VARIABLES
  isr,           \* the bits in service; "cascade" is the master's for "disk"
  output_full    \* the keyboard controller waits for its data to be read

interruptVars == <<isr, output_full>>

InterruptsInit == isr = {} /\ output_full = FALSE

-----------------------------------------------------------------------------
(* Mutant of Gate: the keyboard's gate points at its wrapper. *)
Gate_Wrapped(line) == "wrapper"

(* idt_init: one gate does not point at the assembler wrapper. *)
Gate(line) == IF line = "keyboard" THEN "function" ELSE "wrapper"

(* What taking a line sets in service. *)
Bits(line) == IF line = "disk" THEN {"cascade", "disk"} ELSE {line}

(* The bits that keep a line waiting: its own and those before it. *)
Before(line) ==
  CASE line = "timer"    -> {"timer"}
    [] line = "keyboard" -> {"timer", "keyboard"}
    [] line = "disk"     -> {"timer", "keyboard", "cascade", "disk"}

(* Mutant of idt_acknowledge_interrupt: a handler forgets it. *)
idt_acknowledge_interrupt_Forgotten(bits) == bits

(***************************************************************************)
(* An end-of-interrupt, to the master only: it clears the first bit that   *)
(* the master has in service.                                              *)
(***************************************************************************)
idt_acknowledge_interrupt(bits) ==
  IF "timer" \in bits THEN bits \ {"timer"}
  ELSE IF "keyboard" \in bits THEN bits \ {"keyboard"}
  ELSE bits \ {"cascade"}

(* The handler's address in ecx matters where the foreground needed it. *)
Lost == IF ecx = "free" THEN "free" ELSE "lost"

(* What a handler prints. *)
Message(line) == IF line = "keyboard" THEN <<Key>> ELSE <<>>

(***************************************************************************)
(* The way back.  The wrapper ends with sti and iret; ecx holds the        *)
(* handler's address, because it was overwritten before pushad.  The bare  *)
(* function ends with ret: the flags stay on the stack, with interrupts    *)
(* off, and the stack is two words too low for everything but a jmp $.     *)
(***************************************************************************)
Return(gate) ==
  /\ ecx' = Lost
  /\ flag' = (gate = "wrapper")
  /\ mode' = IF gate = "wrapper" \/ pc = "halt" THEN mode ELSE "wild"
  /\ UNCHANGED pc

(* The processor takes the first line that is requested and not held up. *)
Deliverable(line) ==
  /\ mode = "run" /\ flag
  /\ line \in irr
  /\ isr \cap Before(line) = {}
  /\ \A other \in irr \ {line} : other \in Before(line) => isr \cap Before(other) # {}

(* idt_null for the timer and the disk, idt_keyboard for the keyboard. *)
TakeInterrupt(line) ==
  /\ Deliverable(line)
  /\ irr' = irr \ {line}
  /\ isr' = idt_acknowledge_interrupt(isr \cup Bits(line))
  /\ IF Message(line) = <<>> THEN UNCHANGED terminalVars
                              ELSE println(Message(line))
  /\ Return(Gate(line))
  /\ UNCHANGED <<character, cell, output_full>>

(***************************************************************************)
(* idt_zero: it prints and returns to the instruction that divided, which  *)
(* divides again.  No end-of-interrupt is due for an exception.            *)
(***************************************************************************)
DivideError ==
  /\ At("divide")
  /\ println(<<Error>>)
  /\ UNCHANGED <<character, cell, interruptVars, cpuVars>>

(* kernel_enable_interrupts, at the end of the initialisation. *)
kernel_enable_interrupts ==
  /\ At("ready")
  /\ ~flag
  /\ flag' = TRUE
  /\ UNCHANGED <<terminalVars, character, cell, interruptVars, mode, pc, ecx, irr>>

-----------------------------------------------------------------------------
(* The timer ticks; a tick that comes before the last was served is lost. *)
Tick ==
  /\ mode = "run"
  /\ "timer" \notin irr
  /\ irr' = irr \cup {"timer"}
  /\ UNCHANGED <<terminalVars, character, cell, interruptVars, mode, pc, flag, ecx>>

(* A key is pressed: one request, until somebody reads the key. *)
KeyPressed ==
  /\ mode = "run"
  /\ ~output_full
  /\ output_full' = TRUE
  /\ irr' = irr \cup {"keyboard"}
  /\ UNCHANGED <<terminalVars, character, cell, isr, mode, pc, flag, ecx>>

-----------------------------------------------------------------------------
InterruptsTypeOK ==
  /\ isr \subseteq {"timer", "keyboard", "cascade", "disk"}
  /\ irr \subseteq Lines
  /\ output_full \in BOOLEAN

(***************************************************************************)
(* Between two instructions of the foreground no bit of the master is in   *)
(* service, so no line behind it is held up for good; what stays is the    *)
(* disk's bit at the second PIC, which no handler acknowledges: after its  *)
(* first interrupt the disk never gets another.                            *)
(***************************************************************************)
OnlyTheDiskStaysInService == isr \subseteq {"disk"}

DiskInterruptsOnce ==
  [][/\ OnlyTheDiskStaysInService'
     /\ "disk" \in isr => "disk" \in isr' /\ ("disk" \in irr => "disk" \in irr')]_interruptVars
=============================================================================
