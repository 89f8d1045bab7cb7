------------------------------- MODULE Machine ------------------------------
(***************************************************************************)
(* The foreground, the interrupt handlers and the disk controller          *)
(* together.  The foreground prints, reads and writes sectors and copies   *)
(* buffers, with interrupts off until kernel_main enables them and on      *)
(* after that; interrupts and the controller's steps fall between any two  *)
(* of its steps.                                                           *)
(***************************************************************************)
EXTENDS Interrupts, AtaDisk

CONSTANTS
  MaxCalls,       \* bound: calls of the disk
  MaxStatements   \* bound: calls of the disk and characters printed

ASSUME StatementAssumption == Letters \ {Key, Error} # {}

VARIABLES calls, prints

screenVars == <<terminalVars, character, cell>>
boundVars  == <<calls, prints>>
vars == <<cpuVars, screenVars, interruptVars, ataVars, boundVars>>

Init ==
  /\ mode = "run" /\ pc = "ready" /\ flag = FALSE /\ ecx = "free" /\ irr = {}
  /\ TerminalInit
  /\ InterruptsInit
  /\ AtaInit
  /\ calls = 0 /\ prints = 0

-----------------------------------------------------------------------------
WriteCharacter(c) ==
  /\ calls + prints < MaxStatements
  /\ prints' = prints + 1
  /\ terminal_write_char(c)
  /\ UNCHANGED <<interruptVars, ataVars, calls>>

CallDisk(op, lba, count) ==
  /\ calls < MaxCalls
  /\ calls + prints < MaxStatements
  /\ calls' = calls + 1
  /\ disk_block(op, lba, count)
  /\ UNCHANGED <<screenVars, interruptVars, prints>>

(***************************************************************************)
(* One round of the copy loops of disk_stream_read and disk_stream_write:  *)
(* a pointer is in ecx when the byte's address is computed.                *)
(***************************************************************************)
LoadPointer ==
  /\ At("ready")
  /\ pc' = "copy"
  /\ ecx' = "pointer"
  /\ UNCHANGED <<mode, flag, irr, screenVars, interruptVars, ataVars, boundVars>>

CopyByte ==
  /\ At("copy")
  /\ pc' = "ready"
  /\ mode' = IF ecx = "pointer" THEN mode ELSE "wild"
  /\ ecx' = "free"
  /\ UNCHANGED <<flag, irr, screenVars, interruptVars, ataVars, boundVars>>

(***************************************************************************)
(* A division by a zero from the boot sector of a disk.  It never ends, so *)
(* it counts for all the statements that the bound has left.               *)
(***************************************************************************)
Divide ==
  /\ At("ready")
  /\ calls + prints < MaxStatements
  /\ prints' = MaxStatements - calls
  /\ GoTo("divide")
  /\ UNCHANGED <<screenVars, interruptVars, ataVars, calls>>

(* kernel_main returns to _start. *)
Halt ==
  /\ At("ready")
  /\ flag
  /\ GoTo("halt")
  /\ UNCHANGED <<screenVars, interruptVars, ataVars, boundVars>>

Step ==
  \/ TerminalSteps /\ UNCHANGED <<interruptVars, ataVars, boundVars>>
  \/ DriverSteps /\ UNCHANGED <<screenVars, interruptVars, boundVars>>
  \/ CopyByte

Statement ==
  \/ \E c \in {CHOOSE l \in Letters \ {Key, Error} : TRUE, EOL} : WriteCharacter(c)
  \/ \E op \in {"READ", "WRITE"}, lba \in Lbas, count \in Counts :
       CallDisk(op, lba, count)
  \/ LoadPointer
  \/ Divide
  \/ kernel_enable_interrupts /\ UNCHANGED <<ataVars, boundVars>>
  \/ Halt

Controller == ControllerSteps /\ UNCHANGED <<screenVars, interruptVars, boundVars>>

Served(line) == TakeInterrupt(line) /\ UNCHANGED <<ataVars, boundVars>>

TakeSome == \E line \in Lines : Served(line)

Next ==
  \/ Statement
  \/ Step
  \/ DivideError /\ UNCHANGED <<ataVars, boundVars>>
  \/ Controller
  \/ TakeSome
  \/ (Tick \/ KeyPressed) /\ UNCHANGED <<ataVars, boundVars>>

(***************************************************************************)
(* The processor goes on with the function it is in, the controller with   *)
(* its command, and a request that can be served is.  The keyboard's is    *)
(* served although the timer comes before it: between two ticks there is   *)
(* time for a key.                                                         *)
(***************************************************************************)
Fairness ==
  /\ WF_vars(Step)
  /\ WF_vars(Controller)
  /\ WF_vars(TakeSome)
  /\ SF_vars(Served("keyboard"))

Spec == Init /\ [][Next]_vars /\ Fairness

-----------------------------------------------------------------------------
(* Type correctness of the whole machine. *)
TypeOK ==
  /\ mode \in {"run", "wild"}
  /\ flag \in BOOLEAN
  /\ ecx \in {"free", "colour", "pointer", "lost"}
  /\ TerminalTypeOK
  /\ InterruptsTypeOK
  /\ AtaTypeOK

(***************************************************************************)
(* A key ends all interrupts: the gate without a wrapper leaves them off,  *)
(* also where it does no other harm, in the loop behind kernel_main.       *)
(***************************************************************************)
KeyEndsInterrupts ==
  (output_full /\ pc = "halt") ~> (mode = "wild" \/ [](~flag))
=============================================================================
