-------------------------------- MODULE Cpu ---------------------------------
(***************************************************************************)
(* What the kernel's code shares with the interrupt handlers: where the    *)
(* foreground is, whether the processor accepts interrupts, the one        *)
(* register that the handlers lose, and the requests at the PIC.           *)
(***************************************************************************)

VARIABLES
  mode,  \* "run", or "wild" once code runs with a lost stack or pointer
  pc,    \* "ready" between statements of kernel_main, "halt" in jmp $, or
         \* the next step of the function that runs
  flag,  \* the interrupt flag of EFLAGS
  ecx,   \* what the foreground keeps in ecx: a value it needs, "free", "lost"
  irr    \* the lines whose request the PIC has latched

cpuVars == <<mode, pc, flag, ecx, irr>>

(* The interrupts this machine raises, in the order of their priority.     *)
Lines == {"timer", "keyboard", "disk"}

At(step) == mode = "run" /\ pc = step

(* The foreground goes on to a step without a change to the rest. *)
GoTo(step) == pc' = step /\ UNCHANGED <<mode, flag, ecx, irr>>
=============================================================================
