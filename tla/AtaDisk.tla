------------------------------ MODULE AtaDisk -------------------------------
(***************************************************************************)
(* The port protocol of src/src/lib/io/disk.c against the controller it    *)
(* talks to.  The driver sets the registers one outb after the other,      *)
(* writes the command, and before each sector polls for DRQ and nothing    *)
(* else.  The controller, as qemu-system-i386 of the Makefile emulates it, *)
(* takes no register and no command while a command is under way, and      *)
(* stores the last sector of a write after the driver has returned.        *)
(***************************************************************************)
EXTENDS Cpu, Integers, Sequences

CONSTANTS
  CountMod,     \* sector counts are a uint8_t, and 0 stands for this many
  Base,         \* an address register holds a digit to this base
  DiskSectors,  \* the disk has the sectors 0 .. DiskSectors - 1
  Lbas           \* bound: the addresses that calls are given

ASSUME AtaAssumption ==
  /\ CountMod \in Nat \ {0, 1} /\ Base \in Nat \ {0}
  /\ DiskSectors \in Nat /\ DiskSectors < Base * Base   \* some address is behind the disk
  /\ Lbas \subseteq 0 .. (Base * Base - 1)

VARIABLES
  call,       \* the last or current call, see Calls
  registers,  \* count, and the two digits of the address
  ata,        \* "idle", "busy" before DRQ, "ready" (DRQ), "storing", "error"
  command,    \* what the controller does: "READ" or "WRITE"
  left,       \* the sectors it has not yet moved to or from the driver
  buffer,     \* its sector buffer
  platter     \* the stored sectors

ataVars == <<call, registers, ata, command, left, buffer, platter>>

Platter  == 0 .. (DiskSectors - 1)
Counts   == 0 .. (CountMod - 1)
Contents == ({"old"} \X Platter) \cup ({"new"} \X (1 .. CountMod)) \cup {<<"junk", 0>>}

(***************************************************************************)
(* One call of disk_read_sector or disk_write_sector.  got is what a read  *)
(* has put into the caller's buffer; overlapped and after are observations:*)
(* the controller ignored something of this call, and what came before it. *)
(***************************************************************************)
Calls ==
  [op : {"READ", "WRITE"}, lba : Lbas \cup {0}, count : Counts, moved : Counts,
   got : Seq(Contents), answer : {"none", "OK", "INVALID_ARGUMENT"},
   overlapped : BOOLEAN, after : {"nothing", "READ", "WRITE", "overlapped"}]

NoCall == [op |-> "READ", lba |-> 0, count |-> 0, moved |-> 0, got |-> <<>>,
           answer |-> "none", overlapped |-> FALSE, after |-> "nothing"]

AtaInit ==
  /\ call = NoCall
  /\ registers = [count |-> 1, lo |-> 0, hi |-> 0]
  /\ ata = "idle"
  /\ command = "READ"
  /\ left = 0
  /\ buffer = <<"junk", 0>>
  /\ platter = [s \in Platter |-> <<"old", s>>]

-----------------------------------------------------------------------------
(***************************************************************************)
(* The driver.                                                             *)
(***************************************************************************)
What(earlier) ==
  IF earlier.overlapped THEN "overlapped"
  ELSE IF earlier.moved = 0 THEN earlier.after ELSE earlier.op

(* disk_read_block and disk_write_block. *)
disk_block(op, lba, count) ==
  /\ At("ready")
  /\ call' = [NoCall EXCEPT !.op = op, !.lba = lba, !.count = count,
                            !.after = What(call),
                            !.answer = IF count = 0 THEN "INVALID_ARGUMENT" ELSE "none"]
  /\ GoTo(IF count = 0 THEN "ready" ELSE "out count")
  /\ UNCHANGED <<registers, ata, command, left, buffer, platter>>

Accepting == ata \in {"idle", "error"}

(* outb to a register. *)
Out(register, value, step, next) ==
  /\ At(step)
  /\ registers' = IF Accepting THEN [registers EXCEPT ![register] = value]
                               ELSE registers
  /\ call' = [call EXCEPT !.overlapped = @ \/ ~Accepting]
  /\ GoTo(next)
  /\ UNCHANGED <<ata, command, left, buffer, platter>>

(***************************************************************************)
(* disk_init_disk_from_lba.  The topmost digit, with the drive, has the    *)
(* same value in every call and is left out.                               *)
(***************************************************************************)
disk_init_disk_from_lba ==
  \/ Out("count", call.count, "out count", "out lo")
  \/ Out("lo", call.lba % Base, "out lo", "out hi")
  \/ Out("hi", call.lba \div Base, "out hi", "out command")

OutCommand ==
  /\ At("out command")
  /\ IF Accepting
       THEN /\ command' = call.op
            /\ ata' = "busy"
            /\ left' = IF registers.count = 0 THEN CountMod ELSE registers.count
       ELSE UNCHANGED <<command, ata, left>>
  /\ call' = [call EXCEPT !.overlapped = @ \/ ~Accepting]
  /\ GoTo("poll")
  /\ UNCHANGED <<registers, buffer, platter>>

(* The loop around insb: no way out but DRQ. *)
Poll ==
  /\ At("poll")
  /\ ata = "ready"
  /\ GoTo("transfer")
  /\ UNCHANGED ataVars

(* Mutant of AllMoved: the loop runs once more. *)
AllMoved_OneMore(moved) == moved > call.count

(* Mutant of AllMoved: the loop is one round short. *)
AllMoved_OneLess(moved) == moved + 1 >= call.count

AllMoved(moved) == moved = call.count

(* What the controller makes of 256 words in the direction it expects. *)
TakeSector ==
  \/ /\ command = "READ"
     /\ left' = left - 1
     /\ ata' = IF left = 1 THEN "idle" ELSE "busy"
     /\ UNCHANGED buffer
  \/ /\ command = "WRITE"
     /\ buffer' = <<"new", call.moved + 1>>
     /\ ata' = "storing"
     /\ UNCHANGED left

(* 256 words through the data port. *)
Transfer ==
  LET moved == call.moved + 1
  IN  /\ At("transfer")
      /\ IF command = call.op THEN TakeSector ELSE UNCHANGED <<left, ata, buffer>>
      /\ call' = [call EXCEPT
           !.moved  = moved,
           !.got    = IF call.op = "WRITE" THEN @
                      ELSE Append(@, IF command = "READ" THEN buffer ELSE <<"junk", 0>>),
           !.answer = IF AllMoved(moved) THEN "OK" ELSE @]
      /\ GoTo(IF AllMoved(moved) THEN "ready" ELSE "poll")
      /\ UNCHANGED <<registers, command, platter>>

DriverSteps == disk_init_disk_from_lba \/ OutCommand \/ Poll \/ Transfer

-----------------------------------------------------------------------------
(***************************************************************************)
(* The controller.  It counts its registers on as it goes, and requests an *)
(* interrupt with each sector, which this driver has no use for.           *)
(***************************************************************************)
Address == registers.lo + Base * registers.hi

CountOn ==
  LET next == (Address + 1) % (Base * Base)
  IN  registers' = [count |-> (registers.count - 1) % CountMod,
                    lo |-> next % Base, hi |-> next \div Base]

Interrupt == irr' = irr \cup {"disk"} /\ UNCHANGED <<mode, pc, flag, ecx>>

(* A sector that does not exist or cannot be read or stored. *)
Fails == ata' = "error" /\ UNCHANGED <<registers, left, buffer, platter>>

Fetch ==
  /\ mode = "run" /\ ata = "busy" /\ command = "READ"
  /\ \/ Fails
     \/ /\ Address \in Platter
        /\ buffer' = platter[Address]
        /\ CountOn
        /\ ata' = "ready"
        /\ UNCHANGED <<left, platter>>
  /\ Interrupt
  /\ UNCHANGED <<call, command>>

AskForData ==
  /\ mode = "run" /\ ata = "busy" /\ command = "WRITE"
  /\ ata' = "ready"
  /\ UNCHANGED <<cpuVars, call, registers, command, left, buffer, platter>>

Store ==
  /\ mode = "run" /\ ata = "storing"
  /\ \/ Fails
     \/ /\ Address \in Platter
        /\ platter' = [platter EXCEPT ![Address] = buffer]
        /\ CountOn
        /\ left' = left - 1
        /\ ata' = IF left = 1 THEN "idle" ELSE "ready"
        /\ UNCHANGED buffer
  /\ Interrupt
  /\ UNCHANGED <<call, command>>

ControllerSteps == Fetch \/ AskForData \/ Store

-----------------------------------------------------------------------------
AtaTypeOK ==
  /\ call \in Calls
  /\ registers \in [count : Counts, lo : 0 .. (Base - 1), hi : 0 .. (Base - 1)]
  /\ ata \in {"idle", "busy", "ready", "storing", "error"}
  /\ command \in {"READ", "WRITE"}
  /\ left \in 0 .. CountMod
  /\ buffer \in Contents
  /\ platter \in [Platter -> Contents]

(***************************************************************************)
(* What OK from disk_read_block and disk_write_block means, for a call     *)
(* none of whose register writes was ignored: a read delivered the sectors *)
(* in order; a write has all of its sectors on the disk but the last,      *)
(* which the controller may still be storing, or may have failed to store  *)
(* without anybody being told.                                             *)
(***************************************************************************)
OkMeansTransferred ==
  call.answer = "OK" /\ ~call.overlapped /\ pc # "transfer" =>
    \A i \in 1 .. call.count :
      LET sector == call.lba + i - 1
      IN  IF call.op = "READ"
            THEN Len(call.got) >= i /\ sector \in Platter /\ call.got[i] = platter[sector]
            ELSE \/ sector \in Platter /\ platter[sector] = <<"new", i>>
                 \/ /\ i = call.count
                    /\ \/ ata = "error"
                       \/ ata = "storing" /\ buffer = <<"new", i>> /\ Address = sector

(***************************************************************************)
(* Only what follows a write can find the controller busy: a call whose    *)
(* registers or command were ignored comes after a write that returned     *)
(* before its last sector was stored, or after another such call.          *)
(***************************************************************************)
OnlyWritesOverlap ==
  call.overlapped => call.after \in {"WRITE", "overlapped"}

(***************************************************************************)
(* A call comes to an end, unless the controller reports an error, which   *)
(* the polling loop does not look at, or ignored what the call asked for.  *)
(***************************************************************************)
Calling == pc \in {"out count", "out lo", "out hi", "out command", "poll", "transfer"}

CallsComeToAnEnd ==
  Calling ~> (~Calling \/ mode = "wild" \/ call.overlapped \/ ata = "error")
=============================================================================
