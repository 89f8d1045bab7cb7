---------------------------- MODULE MachineProofs ----------------------------
(***************************************************************************)
(* Theorems about Machine, for every disk, screen and schedule: which      *)
(* calls can find the controller busy, what the handlers leave in service, *)
(* what OK from a call means, and what the screen shows.                   *)
(***************************************************************************)
EXTENDS Machine, SequenceTheorems, TLAPS

(* The steps that touch neither the disk nor a call of it. *)
Apart ==
  /\ UNCHANGED ataVars
  /\ pc' = pc \/ (~Calling /\ ~Calling')

(***************************************************************************)
(* The strengthening of OnlyWritesOverlap.                                 *)
(***************************************************************************)
Outs == {"out count", "out lo", "out hi", "out command"}

Excused == {"WRITE", "overlapped"}

(* Types of what the argument reads. *)
DiskTypes ==
  /\ call \in Calls
  /\ registers.count \in Counts
  /\ registers = [count |-> registers.count, lo |-> registers.lo, hi |-> registers.hi]
  /\ ata \in {"idle", "busy", "ready", "storing", "error"}
  /\ command \in {"READ", "WRITE"}
  /\ left \in Nat
  /\ buffer \in Contents
  /\ platter \in [Platter -> Contents]

(* Where the driver is in a call. *)
Progress ==
  /\ Calling => call.moved < call.count
  /\ pc \in Outs => call.moved = 0
  /\ pc = "transfer" => ata = "ready"
  /\ pc \in {"out lo", "out hi", "out command"} /\ ~call.overlapped =>
       Accepting /\ registers.count = call.count

(* Where the controller is, and that it and an undisturbed call agree. *)
Agreement ==
  /\ ~Accepting => left > 0
  /\ ata = "storing" => command = "WRITE"
  /\ pc \in {"poll", "transfer"} /\ ~call.overlapped =>
       /\ command = call.op
       /\ call.op = "READ" /\ ~Accepting => left = call.count - call.moved

(* Who is to blame for a busy controller. *)
Blame ==
  /\ ~Accepting /\ ~Calling => What(call) \in Excused
  /\ ~Accepting /\ pc \in Outs => call.after \in Excused
  /\ call.overlapped => call.after \in Excused

DiskInv == DiskTypes /\ Progress /\ Agreement /\ Blame

-----------------------------------------------------------------------------
LEMMA InitDiskInv == Init => DiskInv
<1> SUFFICES ASSUME Init PROVE DiskInv
  OBVIOUS
<1>1. call \in Calls
  BY AtaAssumption DEF Init, AtaInit, NoCall, Calls, Counts
<1>2. buffer \in Contents /\ platter \in [Platter -> Contents]
  BY AtaAssumption DEF Init, AtaInit, Contents, Platter
<1>3. Accepting /\ ~Calling
  BY DEF Init, AtaInit, Accepting, Calling
<1>4. registers.count \in Counts
  BY AtaAssumption DEF Init, AtaInit, Counts
<1> QED
  BY <1>1, <1>2, <1>3, <1>4
  DEF Init, AtaInit, NoCall, DiskInv, DiskTypes, Progress, Agreement, Blame, Outs, Calling

(* Steps apart from the disk. *)
LEMMA ApartKeepsDiskInv == DiskInv /\ Apart => DiskInv'
  BY DEF DiskInv, DiskTypes, Progress, Agreement, Blame, Apart, ataVars, Accepting,
         Calling, Outs, What

(* Sector counts. *)
LEMMA CountFacts ==
  /\ CountMod \in Nat /\ CountMod > 1
  /\ 0 \in Counts
  /\ \A n \in Counts : n \in Nat /\ n < CountMod
  /\ \A n \in Nat : n < CountMod => n \in Counts
  BY AtaAssumption DEF Counts

LEMMA Positive == \A n \in Nat : n # 0 <=> n > 0
  OBVIOUS

LEMMA CountsOn == ASSUME NEW n \in Counts PROVE (n - 1) % CountMod \in Counts
  BY AtaAssumption DEF Counts

-----------------------------------------------------------------------------
(***************************************************************************)
(* The driver's steps.                                                     *)
(***************************************************************************)
LEMMA DiskBlockKeeps ==
  ASSUME DiskInv, NEW op \in {"READ", "WRITE"}, NEW lba \in Lbas, NEW count \in Counts,
         disk_block(op, lba, count)
  PROVE  DiskInv'
<1> USE DEF DiskInv, DiskTypes, disk_block, At, GoTo
<1>1. What(call) \in {"nothing", "READ", "WRITE", "overlapped"}
  BY DEF Calls, What
<1>2. call' \in Calls
  <2>1. call' = [op |-> op, lba |-> lba, count |-> count, moved |-> 0, got |-> <<>>,
                 answer |-> IF count = 0 THEN "INVALID_ARGUMENT" ELSE "none",
                 overlapped |-> FALSE, after |-> What(call)]
    BY DEF NoCall
  <2>2. 0 \in Counts
    BY CountFacts
  <2> HIDE DEF disk_block
  <2> QED
    BY <1>1, <2>1, <2>2 DEF Calls
<1>3. ~Calling
  BY DEF Calling
<1>4. /\ call'.moved = 0 /\ ~call'.overlapped
      /\ call'.after = What(call) /\ call'.count = count
  BY DEF NoCall
<1>5. What(call)' = What(call)
  BY <1>4 DEF What
<1>6. Progress'
  <2>1. pc' \in {"ready", "out count"}
    OBVIOUS
  <2>2. pc' = "out count" => call'.moved < call'.count
    <3> SUFFICES ASSUME pc' = "out count" PROVE 0 < count
      BY <1>4
    <3>1. count # 0 /\ count \in Nat
      BY CountFacts
    <3>2. count > 0
      BY <3>1, Positive, Zenon
    <3> QED
      BY <3>2, Zenon
  <2> HIDE DEF disk_block, DiskInv, DiskTypes
  <2> QED
    BY <1>4, <2>1, <2>2 DEF Progress, Calling, Outs
<1>7. Agreement'
  BY DEF Agreement, Accepting
<1>8. Blame'
  BY <1>3, <1>4, <1>5 DEF Blame, Accepting, Outs, Calling
<1> QED
  BY <1>2, <1>6, <1>7, <1>8

LEMMA OutKeeps ==
  ASSUME DiskInv, NEW register \in {"count", "lo", "hi"}, NEW value,
         NEW step \in Outs, NEW next \in Outs,
         Out(register, value, step, next),
         register = "count" => value = call.count,
         register # "count" => step # "out count",
         next # "out count"
  PROVE  DiskInv'
<1> USE DEF DiskInv, DiskTypes
<1>1. /\ call'.overlapped = (call.overlapped \/ ~Accepting)
      /\ call' \in Calls
  BY DEF Out, Calls
<1>2. /\ call'.count = call.count /\ call'.moved = call.moved /\ call'.op = call.op
      /\ call'.after = call.after
  BY DEF Out, Calls
<1>3. call.count \in Counts
  BY DEF Calls
<1>4. registers'.count \in Counts
  BY <1>3 DEF Out
<1>5. registers' = [count |-> registers'.count, lo |-> registers'.lo, hi |-> registers'.hi]
  BY DEF Out
<1>6. /\ Accepting /\ register = "count" => registers'.count = call.count
      /\ register # "count" => registers'.count = registers.count
  BY DEF Out
<1>7. pc = step /\ pc' = next /\ UNCHANGED <<ata, command, left, buffer, platter>>
  BY DEF Out, At, GoTo
<1>8. Progress'
  BY <1>1, <1>2, <1>6, <1>7 DEF Progress, Outs, Calling, Accepting
<1>9. Agreement'
  BY <1>7 DEF Agreement, Outs, Accepting
<1>10. Blame'
  BY <1>1, <1>2, <1>7 DEF Blame, Outs, Accepting, Calling
<1> QED
  BY <1>1, <1>4, <1>5, <1>7, <1>8, <1>9, <1>10

LEMMA RegistersKeep ==
  ASSUME DiskInv, disk_init_disk_from_lba
  PROVE  DiskInv'
<1>1. CASE Out("count", call.count, "out count", "out lo")
  BY <1>1, OutKeeps DEF Outs
<1>2. CASE Out("lo", call.lba % Base, "out lo", "out hi")
  BY <1>2, OutKeeps DEF Outs
<1>3. CASE Out("hi", call.lba \div Base, "out hi", "out command")
  BY <1>3, OutKeeps DEF Outs
<1> QED
  BY <1>1, <1>2, <1>3 DEF disk_init_disk_from_lba

LEMMA OutCommandKeeps ==
  ASSUME DiskInv, OutCommand
  PROVE  DiskInv'
<1> USE DEF DiskInv, DiskTypes, OutCommand, At, GoTo
<1>1. /\ call'.overlapped = (call.overlapped \/ ~Accepting)
      /\ call' \in Calls
  BY DEF Calls
<1>2. /\ call'.count = call.count /\ call'.moved = call.moved /\ call'.op = call.op
      /\ call'.after = call.after
      /\ call.count \in Nat /\ call.moved \in Nat /\ call.op \in {"READ", "WRITE"}
  BY CountFacts DEF Calls
<1>3. /\ command' \in {"READ", "WRITE"}
      /\ ata' \in {"idle", "busy", "ready", "storing", "error"}
      /\ left' \in Nat
  BY <1>2, CountFacts
<1>4. Progress'
  BY <1>1, <1>2 DEF Progress, Outs, Calling
<1>5. /\ Accepting => left' > 0 /\ (registers.count # 0 => left' = registers.count)
      /\ Accepting => command' = call.op /\ ata' = "busy"
      /\ ~Accepting => UNCHANGED <<command, ata, left>>
      /\ pc = "out command" /\ pc' = "poll"
  <2>1. Accepting => left' = IF registers.count = 0 THEN CountMod ELSE registers.count
    OBVIOUS
  <2>2. registers.count \in Nat
    BY CountFacts
  <2>3. ASSUME Accepting
        PROVE  left' > 0 /\ (registers.count # 0 => left' = registers.count)
    <3> HIDE DEF OutCommand, DiskInv, DiskTypes
    <3> QED
      BY <2>1, <2>2, <2>3, CountFacts
  <2>4. Accepting => command' = call.op /\ ata' = "busy"
    OBVIOUS
  <2>5. ~Accepting => UNCHANGED <<command, ata, left>>
    OBVIOUS
  <2>6. pc = "out command" /\ pc' = "poll"
    OBVIOUS
  <2> HIDE DEF OutCommand, DiskInv, DiskTypes
  <2> QED
    BY <2>3, <2>4, <2>5, <2>6
<1>6. Agreement'
  <2>1. call.moved = 0 /\ call.count > 0
    BY <1>2, <1>5 DEF Progress, Outs, Calling
  <2>2. ~call.overlapped => registers.count = call.count
    BY <1>5 DEF Progress
  <2>3. CASE Accepting
    <3>1. command' = call.op /\ ata' = "busy" /\ left' > 0
      BY <1>5, <2>3
    <3>2. ~call'.overlapped => left' = call'.count - call'.moved
      <4> SUFFICES ASSUME ~call'.overlapped PROVE left' = call.count - call.moved
        BY <1>2
      <4>1. registers.count = call.count
        BY <1>1, <2>2
      <4> HIDE DEF OutCommand, DiskInv, DiskTypes
      <4>2. left' = call.count
        <5>1. call.count # 0
          BY <1>2, <2>1, Positive, Zenon
        <5> QED
          BY <1>5, <2>3, <4>1, <5>1, Zenon
      <4> QED
        BY <1>2, <2>1, <4>2
    <3> HIDE DEF OutCommand, DiskInv, DiskTypes
    <3> QED
      BY <1>2, <3>1, <3>2 DEF Agreement
  <2>4. CASE ~Accepting
    <3>1. /\ UNCHANGED <<command, ata, left>>
          /\ left > 0
          /\ call'.overlapped
      BY <1>1, <1>5, <2>4 DEF Agreement
    <3>2. ata = "storing" => command = "WRITE"
      BY DEF Agreement
    <3> HIDE DEF OutCommand, DiskInv, DiskTypes
    <3> QED
      BY <3>1, <3>2 DEF Agreement
  <2> QED
    BY <2>3, <2>4
<1>7. Blame'
  BY <1>1, <1>2 DEF Blame, Outs, Accepting, Calling
<1> QED
  BY <1>1, <1>3, <1>4, <1>6, <1>7

LEMMA PollKeeps ==
  ASSUME DiskInv, Poll
  PROVE  DiskInv'
  BY DEF DiskInv, DiskTypes, Poll, At, GoTo, ataVars, Progress, Agreement, Blame,
         Accepting, Calling, Outs, What

LEMMA TransferKeeps ==
  ASSUME DiskInv, Transfer
  PROVE  DiskInv'
<1> USE DEF DiskInv, DiskTypes
<1>1. /\ pc = "transfer" /\ ata = "ready" /\ ~Accepting /\ left > 0
      /\ pc' \in {"ready", "poll"}
      /\ registers' = registers /\ command' = command /\ platter' = platter
  BY DEF Transfer, At, GoTo, AllMoved, Progress, Agreement, Accepting
<1>2. /\ call.op \in {"READ", "WRITE"} /\ call.lba \in Lbas \cup {0}
      /\ call.count \in Nat /\ call.moved \in Nat /\ call.got \in Seq(Contents)
      /\ call.moved < call.count /\ call.count < CountMod /\ CountMod \in Nat
      /\ call.after \in {"nothing", "READ", "WRITE", "overlapped"}
      /\ call.count \in Counts
  BY <1>1, CountFacts DEF Calls, Progress, Calling
<1>3. /\ call'.op = call.op /\ call'.count = call.count /\ call'.after = call.after
      /\ call'.overlapped = call.overlapped /\ call'.moved = call.moved + 1
  BY DEF Transfer, Calls
<1>4. pc' = IF call.moved + 1 = call.count THEN "ready" ELSE "poll"
  BY DEF Transfer, AllMoved, GoTo
<1>5. call.moved + 1 \in Counts /\ call.moved + 1 \in 1 .. CountMod
  <2>1. call.moved + 1 \in Nat /\ call.moved + 1 < CountMod /\ call.moved + 1 >= 1
    <3> HIDE DEF DiskInv, DiskTypes
    <3> QED
      BY <1>2
  <2> HIDE DEF DiskInv, DiskTypes
  <2> QED
    BY <2>1, <1>2, CountFacts
<1>6. <<"junk", 0>> \in Contents /\ <<"new", call.moved + 1>> \in Contents
  BY <1>5 DEF Contents
<1>7. call' \in Calls
  <2>1. call'.got \in Seq(Contents)
    <3>1. call'.got = IF call.op = "WRITE" THEN call.got
                      ELSE Append(call.got, IF command = "READ" THEN buffer
                                                                ELSE <<"junk", 0>>)
      BY DEF Transfer, Calls
    <3>2. (IF command = "READ" THEN buffer ELSE <<"junk", 0>>) \in Contents
      BY <1>6
    <3> HIDE DEF DiskInv, DiskTypes
    <3> QED
      BY <1>2, <3>1, <3>2
  <2>2. call' = [op |-> call'.op, lba |-> call'.lba, count |-> call'.count,
                 moved |-> call'.moved, got |-> call'.got, answer |-> call'.answer,
                 overlapped |-> call'.overlapped, after |-> call'.after]
    BY DEF Transfer, Calls
  <2>3. /\ call'.answer \in {"none", "OK", "INVALID_ARGUMENT"}
        /\ call'.lba = call.lba /\ call.overlapped \in BOOLEAN
    BY DEF Transfer, Calls
  <2> HIDE DEF DiskInv, DiskTypes
  <2> QED
    BY <1>2, <1>3, <1>5, <2>1, <2>2, <2>3 DEF Calls
<1>8. CASE command = call.op /\ command = "READ"
  <2>1. left' = left - 1 /\ ata' = (IF left = 1 THEN "idle" ELSE "busy") /\ buffer' = buffer
    BY <1>8 DEF Transfer, TakeSector
  <2>2. left' \in Nat /\ (left # 1 => left' > 0)
    <3>1. left \in Nat
      OBVIOUS
    <3> HIDE DEF DiskInv, DiskTypes
    <3> QED
      BY <1>1, <2>1, <3>1
  <2>3. ~call.overlapped => left = call.count - call.moved
    BY <1>1, <1>8 DEF Agreement
  <2>4. Agreement'
    <3>1. ~Accepting' => left # 1
      BY <2>1 DEF Accepting
    <3>2. ~call.overlapped => left' = call'.count - call'.moved
      <4> HIDE DEF DiskInv, DiskTypes
      <4> QED
        BY <1>2, <1>3, <2>1, <2>3
    <3> HIDE DEF DiskInv, DiskTypes
    <3> QED
      BY <1>1, <1>3, <1>8, <2>1, <2>2, <3>1, <3>2 DEF Agreement
  <2>5. Progress'
    <3> HIDE DEF DiskInv, DiskTypes
    <3> QED
      BY <1>2, <1>3, <1>4 DEF Progress, Calling, Outs
  <2>6. Blame'
    <3>1. ~call.overlapped /\ ~Accepting' => pc' = "poll"
      <4> SUFFICES ASSUME ~call.overlapped, ~Accepting', call.moved + 1 = call.count
                   PROVE  FALSE
        BY <1>4
      <4>1. left # 1
        BY <2>1 DEF Accepting
      <4>2. left = 1
        <5> HIDE DEF DiskInv, DiskTypes
        <5> QED
          BY <1>2, <2>3
      <4> QED
        BY <4>1, <4>2
    <3>2. call.overlapped => call.after \in Excused
      BY DEF Blame
    <3> HIDE DEF DiskInv, DiskTypes
    <3> QED
      BY <1>1, <1>3, <3>1, <3>2 DEF Blame, What, Excused, Outs, Calling
  <2> QED
    BY <1>1, <1>7, <2>1, <2>2, <2>4, <2>5, <2>6
<1>9. CASE ~(command = call.op /\ command = "READ")
  <2>1. left' = left /\ buffer' \in Contents /\ ata' \in {"ready", "storing"}
    BY <1>1, <1>6, <1>9 DEF Transfer, TakeSector
  <2>2. ata' = "storing" => command = "WRITE"
    BY <1>1 DEF Transfer, TakeSector
  <2>3. call.op = "WRITE" \/ call.overlapped
    BY <1>1, <1>9 DEF Agreement, Calls
  <2>4. Agreement'
    <3>1. ~call.overlapped => command = call.op
      BY <1>1 DEF Agreement
    <3> HIDE DEF DiskInv, DiskTypes
    <3> QED
      BY <1>1, <1>3, <2>1, <2>2, <2>3, <3>1 DEF Agreement
  <2>5. Progress'
    <3> HIDE DEF DiskInv, DiskTypes
    <3> QED
      BY <1>2, <1>3, <1>4 DEF Progress, Calling, Outs
  <2>6. Blame'
    <3>1. call.overlapped => call.after \in Excused
      BY DEF Blame
    <3>2. call'.moved # 0
      <4> HIDE DEF DiskInv, DiskTypes
      <4> QED
        BY <1>2, <1>3
    <3> HIDE DEF DiskInv, DiskTypes
    <3> QED
      BY <1>1, <1>3, <2>3, <3>1, <3>2 DEF Blame, What, Excused, Outs, Calling
  <2> QED
    BY <1>1, <1>7, <2>1, <2>4, <2>5, <2>6
<1> QED
  BY <1>8, <1>9

-----------------------------------------------------------------------------
(***************************************************************************)
(* The controller's steps.                                                 *)
(***************************************************************************)
LEMMA CountOnKeeps ==
  ASSUME DiskInv, CountOn
  PROVE  /\ registers'.count \in Counts
         /\ registers' = [count |-> registers'.count, lo |-> registers'.lo,
                          hi |-> registers'.hi]
  BY CountsOn DEF CountOn, DiskInv, DiskTypes

LEMMA FailsKeeps ==
  ASSUME DiskInv, Fails, pc' = pc, UNCHANGED <<call, command>>, ata \in {"busy", "storing"}
  PROVE  DiskInv'
  BY DEF DiskInv, DiskTypes, Fails, Progress, Agreement, Blame, Accepting, Calling, Outs, What

LEMMA FetchKeeps ==
  ASSUME DiskInv, Fetch
  PROVE  DiskInv'
<1> USE DEF DiskInv
<1>1. ata = "busy" /\ pc' = pc /\ UNCHANGED <<call, command>>
  BY DEF Fetch, Interrupt
<1>2. CASE Fails
  BY <1>1, <1>2, FailsKeeps
<1>3. CASE ~Fails
  <2>1. /\ Address \in Platter /\ buffer' = platter[Address] /\ CountOn
        /\ ata' = "ready" /\ UNCHANGED <<left, platter>>
    BY <1>3 DEF Fetch
  <2>2. DiskTypes'
    BY <1>1, <2>1, CountOnKeeps DEF DiskTypes
  <2> QED
    BY <1>1, <2>1, <2>2 DEF Progress, Agreement, Blame, Accepting, Calling, Outs, What
<1> QED
  BY <1>2, <1>3

LEMMA AskForDataKeeps ==
  ASSUME DiskInv, AskForData
  PROVE  DiskInv'
  BY DEF DiskInv, DiskTypes, AskForData, cpuVars, Progress, Agreement, Blame,
         Accepting, Calling, Outs, What

LEMMA StoreKeeps ==
  ASSUME DiskInv, Store
  PROVE  DiskInv'
<1> USE DEF DiskInv
<1>1. ata = "storing" /\ pc' = pc /\ UNCHANGED <<call, command>>
  BY DEF Store, Interrupt
<1>2. CASE Fails
  BY <1>1, <1>2, FailsKeeps
<1>3. CASE ~Fails
  <2>1. /\ Address \in Platter /\ platter' = [platter EXCEPT ![Address] = buffer] /\ CountOn
        /\ left' = left - 1 /\ ata' = (IF left = 1 THEN "idle" ELSE "ready")
        /\ UNCHANGED buffer
    BY <1>3 DEF Store
  <2>2. command = "WRITE" /\ left \in Nat /\ left > 0
    BY <1>1 DEF Agreement, DiskTypes, Accepting
  <2>3. left' \in Nat /\ (left # 1 => left' > 0)
    <3> HIDE DEF DiskInv
    <3> QED
      BY <2>1, <2>2
  <2>4. DiskTypes'
    BY <1>1, <2>1, <2>3, CountOnKeeps DEF DiskTypes
  <2>5. Progress'
    BY <1>1, <2>1 DEF Progress, Accepting, Calling, Outs
  <2>6. Agreement'
    <3>1. ~Accepting' => left' > 0
      BY <2>1, <2>3 DEF Accepting
    <3> QED
      BY <1>1, <2>1, <2>2, <3>1 DEF Agreement, Accepting
  <2>7. Blame'
    BY <1>1 DEF Blame, Accepting, Calling, Outs, What
  <2> QED
    BY <2>4, <2>5, <2>6, <2>7
<1> QED
  BY <1>2, <1>3

-----------------------------------------------------------------------------
(***************************************************************************)
(* All steps.                                                              *)
(***************************************************************************)
LEMMA DiskStepsAre ==
  ASSUME [Next]_vars
  PROVE  \/ Apart \/ DriverSteps \/ ControllerSteps
         \/ \E op \in {"READ", "WRITE"}, lba \in Lbas, count \in Counts :
              disk_block(op, lba, count)
<1>1. CASE Statement
  <2>1. ASSUME NEW c, WriteCharacter(c)
        PROVE  Apart
    BY <2>1 DEF WriteCharacter, terminal_write_char, At, GoTo, Calling, Apart
  <2>2. LoadPointer \/ Divide \/ Halt => Apart
    BY DEF LoadPointer, Divide, Halt, At, GoTo, Apart, Calling
  <2>3. kernel_enable_interrupts /\ UNCHANGED <<ataVars, boundVars>> => Apart
    BY DEF kernel_enable_interrupts, Apart
  <2> QED
    BY <1>1, <2>1, <2>2, <2>3 DEF Statement, CallDisk
<1>2. CASE Step
  <2>1. TerminalSteps /\ UNCHANGED <<interruptVars, ataVars, boundVars>> => Apart
    BY DEF TerminalSteps, TestRow, ComputeIndex, StoreCharacter, Advance, At, GoTo, Calling, Apart
  <2>2. CopyByte => Apart
    BY DEF CopyByte, At, Apart, Calling
  <2> QED
    BY <1>2, <2>1, <2>2 DEF Step
<1>3. Controller => ControllerSteps
  BY DEF Controller
<1>4. DivideError /\ UNCHANGED <<ataVars, boundVars>> => Apart
  BY DEF DivideError, cpuVars, Apart
<1>5. TakeSome => Apart
  BY DEF TakeSome, Served, TakeInterrupt, Return, Apart
<1>6. (Tick \/ KeyPressed) /\ UNCHANGED <<ataVars, boundVars>> => Apart
  BY DEF Tick, KeyPressed, Apart
<1>7. UNCHANGED vars => Apart
  BY DEF vars, cpuVars, Apart
<1> QED
  BY <1>1, <1>2, <1>3, <1>4, <1>5, <1>6, <1>7 DEF Next

LEMMA NextKeeps ==
  ASSUME DiskInv, [Next]_vars
  PROVE  DiskInv'
  BY DiskStepsAre, ApartKeepsDiskInv, DiskBlockKeeps, RegistersKeep, OutCommandKeeps,
     PollKeeps, TransferKeeps, FetchKeeps, AskForDataKeeps, StoreKeeps
  DEF DriverSteps, ControllerSteps

(***************************************************************************)
(* Only what follows a write can find the controller busy, for every disk, *)
(* every width of the registers and every number of calls, and whatever    *)
(* interrupts come in between.                                             *)
(***************************************************************************)
THEOREM WritesOverlapOnly == Spec => []OnlyWritesOverlap
<1>1. DiskInv => OnlyWritesOverlap
  BY DEF DiskInv, Blame, Excused, OnlyWritesOverlap
<1> QED
  BY <1>1, InitDiskInv, NextKeeps, PTL DEF Spec

-----------------------------------------------------------------------------
(***************************************************************************)
(* The lines in service.  An interrupt is taken only when no bit before    *)
(* its own is set, and its handler's end-of-interrupt clears the bit that  *)
(* taking it has set at the master.                                        *)
(***************************************************************************)
LEMMA ServingKeeps ==
  ASSUME OnlyTheDiskStaysInService, NEW line \in Lines, TakeInterrupt(line)
  PROVE  /\ OnlyTheDiskStaysInService'
         /\ "disk" \in isr => "disk" \in isr' /\ ("disk" \in irr => "disk" \in irr')
<1>1. /\ isr' = idt_acknowledge_interrupt(isr \cup Bits(line))
      /\ irr' = irr \ {line}
      /\ isr \cap Before(line) = {}
  BY DEF TakeInterrupt, Deliverable
<1>2. CASE line = "timer"
  BY <1>1, <1>2 DEF Bits, idt_acknowledge_interrupt, OnlyTheDiskStaysInService
<1>3. CASE line = "keyboard"
  BY <1>1, <1>3 DEF Bits, idt_acknowledge_interrupt, OnlyTheDiskStaysInService
<1>4. CASE line = "disk"
  <2>1. "disk" \notin isr
    BY <1>1, <1>4 DEF Before
  <2>2. isr = {}
    BY <2>1 DEF OnlyTheDiskStaysInService
  <2>3. isr' = {"disk"}
    BY <1>1, <1>4, <2>2 DEF Bits, idt_acknowledge_interrupt
  <2> QED
    BY <2>1, <2>3 DEF OnlyTheDiskStaysInService
<1> QED
  BY <1>2, <1>3, <1>4 DEF Lines

(* What one step may do to the lines in service. *)
DiskWaits == "disk" \in isr => "disk" \in isr' /\ ("disk" \in irr => "disk" \in irr')

LEMMA NextServes ==
  ASSUME OnlyTheDiskStaysInService, [Next]_vars
  PROVE  /\ OnlyTheDiskStaysInService'
         /\ UNCHANGED interruptVars \/ (OnlyTheDiskStaysInService' /\ DiskWaits)
<1>1. CASE Statement
  <2>1. UNCHANGED interruptVars
    BY <1>1 DEF Statement, WriteCharacter, CallDisk, LoadPointer, Divide, Halt,
                kernel_enable_interrupts
  <2> QED
    BY <2>1 DEF interruptVars, OnlyTheDiskStaysInService
<1>2. CASE Step \/ Controller
  <2>1. UNCHANGED interruptVars
    BY <1>2 DEF Step, CopyByte, Controller
  <2> QED
    BY <2>1 DEF interruptVars, OnlyTheDiskStaysInService
<1>3. CASE DivideError /\ UNCHANGED <<ataVars, boundVars>>
  BY <1>3 DEF DivideError, interruptVars, OnlyTheDiskStaysInService
<1>4. ASSUME NEW line \in Lines, Served(line)
      PROVE  OnlyTheDiskStaysInService' /\ DiskWaits
  BY <1>4, ServingKeeps DEF Served, DiskWaits
<1>5. CASE (Tick \/ KeyPressed) /\ UNCHANGED <<ataVars, boundVars>>
  BY <1>5 DEF Tick, KeyPressed, interruptVars, OnlyTheDiskStaysInService, DiskWaits
<1>6. CASE UNCHANGED vars
  BY <1>6 DEF vars, interruptVars, OnlyTheDiskStaysInService
<1> QED
  BY <1>1, <1>2, <1>3, <1>4, <1>5, <1>6 DEF Next, TakeSome

(***************************************************************************)
(* No handler leaves a bit of the master in service, so no line is held up *)
(* for good; only the disk's bit stays, and from then on the disk's        *)
(* requests wait: on every schedule of the interrupts.                     *)
(***************************************************************************)
THEOREM DiskServedOnce == Spec => DiskInterruptsOnce
<1>1. Init => OnlyTheDiskStaysInService
  BY DEF Init, InterruptsInit, OnlyTheDiskStaysInService
<1>2. OnlyTheDiskStaysInService /\ [Next]_vars => OnlyTheDiskStaysInService'
  BY NextServes
<1>3. OnlyTheDiskStaysInService /\ [Next]_vars =>
        [/\ OnlyTheDiskStaysInService'
         /\ "disk" \in isr => "disk" \in isr' /\ ("disk" \in irr => "disk" \in irr')
        ]_interruptVars
  BY NextServes DEF DiskWaits
<1> QED
  BY <1>1, <1>2, <1>3, PTL DEF Spec, DiskInterruptsOnce

-----------------------------------------------------------------------------
(***************************************************************************)
(* The strengthening of OkMeansTransferred: where the controller's address *)
(* is, and which sectors have been moved so far.                           *)
(***************************************************************************)
Answers ==
  /\ Calling => call.answer # "OK"
  /\ call.answer = "OK" => call.moved = call.count

(* The controller was given the command of this call. *)
Underway == pc \in {"poll", "transfer"} \/ call.moved > 0

AddressSet ==
  /\ pc \in {"out hi", "out command"} => registers.lo = call.lba % Base
  /\ pc = "out command" => registers.hi = call.lba \div Base

Delivered(i) ==
  call.lba + i - 1 \in Platter /\ call.got[i] = platter[call.lba + i - 1]

Reads ==
  call.op = "READ" =>
    /\ Len(call.got) = call.moved /\ \A i \in 1 .. call.moved : Delivered(i)
    /\ Underway =>
         /\ ata = "busy" => Address = call.lba + call.moved
         /\ ata = "ready" => /\ Address = call.lba + call.moved + 1
                             /\ call.lba + call.moved \in Platter
                             /\ buffer = platter[call.lba + call.moved]

Stored(i) ==
  call.lba + i - 1 \in Platter /\ platter[call.lba + i - 1] = <<"new", i>>

Writes ==
  call.op = "WRITE" /\ Underway =>
    /\ ata = "busy" => call.moved = 0 /\ Address = call.lba
    /\ ata = "ready" => Address = call.lba + call.moved
    /\ ata = "storing" => /\ call.moved > 0 /\ Address = call.lba + call.moved - 1
                          /\ buffer = <<"new", call.moved>>
    /\ \A i \in 1 .. call.moved :
         Stored(i) \/ (i = call.moved /\ ata \in {"error", "storing"})

DataInv ==
  /\ registers.lo \in Nat /\ registers.hi \in Nat
  /\ Answers
  /\ ~call.overlapped =>
       /\ AddressSet /\ Reads /\ Writes
       /\ Underway => command = call.op

LEMMA DigitsOf ==
  ASSUME NEW x \in Nat
  PROVE  /\ x % Base \in Nat /\ x \div Base \in Nat
         /\ (x % Base) + Base * (x \div Base) = x
<1>1. Base \in Nat /\ Base > 0
  BY AtaAssumption
<1> QED
  BY <1>1

LEMMA CountedOn ==
  ASSUME registers.lo \in Nat, registers.hi \in Nat, registers.count \in Counts, CountOn
  PROVE  /\ registers'.lo \in Nat /\ registers'.hi \in Nat
         /\ Address \in Nat /\ (Address \in Platter => Address' = Address + 1)
<1>1. Base \in Nat /\ Base > 0 /\ Base * Base \in Nat /\ Base * Base > 0
  BY AtaAssumption
<1>2. Address \in Nat
  BY <1>1 DEF Address
<1> DEFINE next == (Address + 1) % (Base * Base)
<1>3. registers'.lo = next % Base /\ registers'.hi = next \div Base
  BY DEF CountOn
<1> HIDE DEF next
<1>4. next \in Nat
  BY <1>1, <1>2 DEF next
<1>5. Address \in Platter => next = Address + 1
  <2>1. Address \in Platter => Address + 1 < Base * Base
    BY <1>1, <1>2, AtaAssumption DEF Platter
  <2>2. \A x, y \in Nat : x < y => x % y = x
    OBVIOUS
  <2> QED
    BY <1>1, <1>2, <2>1, <2>2 DEF next
<1>6. Address' = next
  BY <1>3, <1>4, DigitsOf DEF Address
<1> QED
  BY <1>2, <1>3, <1>4, <1>5, <1>6, DigitsOf

LEMMA NoneMoved == ASSUME NEW n, n = 0 PROVE ~(n > 0) /\ 1 .. n = {}
  OBVIOUS

LEMMA CallFacts ==
  ASSUME DiskTypes
  PROVE  /\ call.op \in {"READ", "WRITE"} /\ call.lba \in Nat /\ call.lba < Base * Base
         /\ call.count \in Nat /\ call.moved \in Nat /\ Base * Base \in Nat
         /\ call.got \in Seq(Contents) /\ call.overlapped \in BOOLEAN
<1>1. Base \in Nat /\ Base > 0 /\ Base * Base \in Nat /\ Base * Base > 0
  BY AtaAssumption
<1>2. call.lba \in Lbas \cup {0}
  BY DEF DiskTypes, Calls
<1>3. call.lba \in Nat /\ call.lba < Base * Base
  <2>1. call.lba \in 0 .. (Base * Base - 1)
    <3>1. 0 \in 0 .. (Base * Base - 1)
      BY <1>1
    <3> QED
      BY <1>2, <3>1, AtaAssumption
  <2> QED
    BY <1>1, <2>1
<1> QED
  BY <1>1, <1>3, CountFacts DEF DiskTypes, Calls

LEMMA InitData == Init => DataInv
<1> SUFFICES ASSUME Init PROVE DataInv
  OBVIOUS
<1>1. ~Underway /\ ~Calling
  BY DEF Init, AtaInit, NoCall, Underway, Calling
<1>2. Len(<<>>) = 0
  BY EmptySeq
<1> QED
  BY <1>1, <1>2 DEF Init, AtaInit, NoCall, DataInv, Answers, AddressSet, Reads, Writes, Calling

(* Steps apart from the disk. *)
LEMMA ApartKeepsData == DataInv /\ Apart => DataInv'
<1> SUFFICES ASSUME DataInv, Apart PROVE DataInv'
  OBVIOUS
<1>1. /\ UNCHANGED <<call, registers, ata, command, left, buffer, platter>>
      /\ pc' = pc \/ (~Calling /\ ~Calling')
  BY DEF Apart, ataVars
<1>2. Underway' = Underway /\ Address' = Address /\ (Calling' => Calling)
  BY <1>1 DEF Underway, Calling, Address
<1>3. Answers' /\ (AddressSet => AddressSet')
  BY <1>1, <1>2 DEF DataInv, Answers, AddressSet, Calling
<1>4. Reads => Reads'
  BY <1>1, <1>2 DEF Reads, Delivered
<1>5. Writes => Writes'
  BY <1>1, <1>2 DEF Writes, Stored
<1> QED
  BY <1>1, <1>2, <1>3, <1>4, <1>5 DEF DataInv

LEMMA DiskBlockMoves ==
  ASSUME DataInv, NEW op, NEW lba, NEW count, disk_block(op, lba, count)
  PROVE  DataInv'
<1>1. /\ UNCHANGED registers /\ call'.moved = 0 /\ call'.got = <<>> /\ call'.answer # "OK"
      /\ pc' \in {"ready", "out count"}
  BY DEF disk_block, NoCall, GoTo
<1>2. ~(call'.moved > 0) /\ 1 .. call'.moved = {}
  BY <1>1, NoneMoved, Zenon
<1>3. ~Underway' /\ Len(<<>>) = 0
  BY <1>1, <1>2, EmptySeq DEF Underway
<1> QED
  BY <1>1, <1>2, <1>3 DEF DataInv, Answers, AddressSet, Reads, Writes

LEMMA OutMoves ==
  ASSUME DiskInv, DataInv, disk_init_disk_from_lba
  PROVE  DataInv'
<1>1. /\ UNCHANGED <<ata, command, left, buffer, platter>>
      /\ call'.moved = 0 /\ call'.op = call.op /\ call'.lba = call.lba /\ call'.got = call.got
      /\ call'.answer = call.answer /\ call'.overlapped = (call.overlapped \/ ~Accepting)
      /\ pc \in {"out count", "out lo", "out hi"} /\ pc' \in {"out lo", "out hi", "out command"}
      /\ call.moved = 0
  <2>1. call.moved = 0
    BY DEF DiskInv, Progress, Outs, disk_init_disk_from_lba, Out, At
  <2> QED
    BY <2>1 DEF disk_init_disk_from_lba, Out, At, GoTo, DiskInv, DiskTypes, Calls
<1>2. call.lba \in Nat /\ call.lba % Base \in Nat /\ call.lba \div Base \in Nat
  BY CallFacts, DigitsOf DEF DiskInv
<1>3. registers'.lo \in Nat /\ registers'.hi \in Nat
  BY <1>2 DEF disk_init_disk_from_lba, Out, DiskInv, DiskTypes, DataInv
<1>4. Answers'
  BY <1>1 DEF DataInv, Answers, Calling
<1>5. ~Underway /\ ~Underway'
  <2>1. ~(call.moved > 0) /\ ~(call'.moved > 0)
    BY <1>1, NoneMoved, Zenon
  <2> QED
    BY <1>1, <2>1 DEF Underway
<1>6. ~call'.overlapped => AddressSet'
  <2> SUFFICES ASSUME ~call.overlapped, Accepting PROVE AddressSet'
    BY <1>1
  <2>1. AddressSet
    BY DEF DataInv
  <2>2. CASE Out("count", call.count, "out count", "out lo")
    BY <2>2 DEF AddressSet, Out, GoTo
  <2>3. CASE Out("lo", call.lba % Base, "out lo", "out hi")
    BY <1>1, <2>3 DEF AddressSet, Out, GoTo, DiskInv, DiskTypes
  <2>4. CASE Out("hi", call.lba \div Base, "out hi", "out command")
    BY <1>1, <2>1, <2>4 DEF AddressSet, Out, At, GoTo, DiskInv, DiskTypes
  <2> QED
    BY <2>2, <2>3, <2>4 DEF disk_init_disk_from_lba
<1>7. ~call'.overlapped => Reads' /\ Writes'
  BY <1>1, <1>5 DEF DataInv, Reads, Writes, Delivered
<1> QED
  BY <1>1, <1>3, <1>4, <1>5, <1>6, <1>7 DEF DataInv

LEMMA OutCommandMoves ==
  ASSUME DiskInv, DataInv, OutCommand
  PROVE  DataInv'
<1>1. /\ UNCHANGED <<registers, buffer, platter>>
      /\ call.moved = 0 /\ call'.moved = 0 /\ call'.op = call.op /\ call'.lba = call.lba
      /\ call'.got = call.got /\ call'.answer = call.answer
      /\ call'.overlapped = (call.overlapped \/ ~Accepting)
      /\ pc = "out command" /\ pc' = "poll"
      /\ Accepting => command' = call.op /\ ata' = "busy"
  <2>1. call.moved = 0
    BY DEF DiskInv, Progress, Outs, OutCommand, At
  <2> QED
    BY <2>1 DEF OutCommand, At, GoTo, DiskInv, DiskTypes, Calls
<1>2. Answers'
  BY <1>1 DEF DataInv, Answers, Calling
<1> SUFFICES ASSUME ~call.overlapped, Accepting
             PROVE  AddressSet' /\ Reads' /\ Writes'
  BY <1>1, <1>2 DEF DataInv
<1>3. Address' = call.lba
  <2>1. registers.lo = call.lba % Base /\ registers.hi = call.lba \div Base
    BY <1>1 DEF DataInv, AddressSet
  <2> QED
    BY <1>1, <2>1, CallFacts, DigitsOf DEF DiskInv, Address
<1>4. call.lba + 0 = call.lba
  BY CallFacts DEF DiskInv
<1>5. AddressSet'
  BY <1>1 DEF AddressSet
<1>6. Reads'
  BY <1>1, <1>3, <1>4 DEF Reads, DataInv, Delivered
<1>7. Writes'
  <2>1. 1 .. call'.moved = {}
    BY <1>1, NoneMoved, Zenon
  <2> QED
    BY <1>1, <1>3, <2>1 DEF Writes
<1> QED
  BY <1>5, <1>6, <1>7

LEMMA PollMoves ==
  ASSUME DataInv, Poll
  PROVE  DataInv'
<1>1. /\ UNCHANGED <<call, registers, ata, command, left, buffer, platter>>
      /\ pc = "poll" /\ pc' = "transfer"
  BY DEF Poll, At, GoTo, ataVars
<1>2. Underway' = Underway /\ Address' = Address /\ Calling
  BY <1>1 DEF Underway, Calling, Address
<1>3. Answers' /\ AddressSet'
  BY <1>1, <1>2 DEF DataInv, Answers, AddressSet
<1>4. (Reads => Reads') /\ (Writes => Writes')
  BY <1>1, <1>2 DEF Reads, Delivered, Writes, Stored
<1> QED
  BY <1>1, <1>2, <1>3, <1>4 DEF DataInv

LEMMA TransferMoves ==
  ASSUME DiskInv, DataInv, Transfer
  PROVE  DataInv'
<1> DEFINE lba == call.lba
           moved == call.moved
<1>1. /\ pc = "transfer" /\ ata = "ready" /\ Calling /\ Underway
      /\ registers' = registers /\ command' = command /\ platter' = platter
      /\ Address' = Address
  BY DEF Transfer, At, Calling, Underway, DiskInv, Progress, Address
<1>2. /\ call.op \in {"READ", "WRITE"} /\ lba \in Nat /\ moved \in Nat
      /\ call.got \in Seq(Contents) /\ call.count \in Nat
  BY CallFacts DEF DiskInv
<1>3. /\ call'.op = call.op /\ call'.lba = lba /\ call'.count = call.count
      /\ call'.overlapped = call.overlapped /\ call'.moved = moved + 1
      /\ call'.answer = IF moved + 1 = call.count THEN "OK" ELSE call.answer
      /\ call'.got = IF call.op = "WRITE" THEN call.got
                     ELSE Append(call.got, IF command = "READ" THEN buffer ELSE <<"junk", 0>>)
      /\ pc' = IF moved + 1 = call.count THEN "ready" ELSE "poll"
  BY DEF Transfer, AllMoved, GoTo, DiskInv, DiskTypes, Calls
<1>4. Answers'
  BY <1>1, <1>3 DEF DataInv, Answers, Calling
<1> SUFFICES ASSUME ~call.overlapped PROVE AddressSet' /\ Reads' /\ Writes' /\ command' = call'.op
  BY <1>1, <1>3, <1>4 DEF DataInv
<1>5. Reads /\ Writes /\ command = call.op
  BY <1>1 DEF DataInv
<1>6. AddressSet'
  BY <1>3 DEF AddressSet
<1>7. CASE call.op = "READ"
  <2>1. /\ Len(call.got) = moved /\ \A i \in 1 .. moved : Delivered(i)
        /\ Address = lba + moved + 1 /\ lba + moved \in Platter /\ buffer = platter[lba + moved]
    BY <1>1, <1>5, <1>7 DEF Reads
  <2>2. call'.got = Append(call.got, buffer)
    BY <1>3, <1>5, <1>7
  <2>3. buffer \in Contents
    BY DEF DiskInv, DiskTypes
  <2>4. ata' \in {"idle", "busy"}
    BY <1>5, <1>7 DEF Transfer, TakeSector
  <2> HIDE DEF lba, moved
  <2>5. /\ Len(call'.got) = moved + 1 /\ call'.got[moved + 1] = buffer
        /\ \A i \in 1 .. moved : call'.got[i] = call.got[i]
    BY <1>2, <2>1, <2>2, <2>3, AppendProperties
  <2>6. ASSUME NEW i \in 1 .. (moved + 1)
        PROVE  lba + i - 1 \in Platter /\ call'.got[i] = platter[lba + i - 1]
    <3>1. CASE i \in 1 .. moved
      BY <2>1, <2>5, <3>1 DEF Delivered, lba
    <3>2. CASE i = moved + 1
      <4>1. lba + i - 1 = lba + moved
        BY <1>2, <3>2
      <4> QED
        BY <2>1, <2>5, <3>2, <4>1
    <3> QED
      BY <1>2, <3>1, <3>2
  <2>7. Address' = lba + (moved + 1)
    BY <1>1, <1>2, <2>1
  <2>8. Reads'
    BY <1>1, <1>3, <2>4, <2>5, <2>6, <2>7 DEF Reads, Delivered, lba
  <2> QED
    BY <1>1, <1>3, <1>5, <1>6, <1>7, <2>8 DEF Writes
<1>8. CASE call.op = "WRITE"
  <2>1. Address = lba + moved /\ \A i \in 1 .. moved : Stored(i)
    BY <1>1, <1>5, <1>8 DEF Writes
  <2>2. ata' = "storing" /\ buffer' = <<"new", moved + 1>>
    BY <1>5, <1>8 DEF Transfer, TakeSector
  <2> HIDE DEF lba, moved
  <2>3. moved + 1 > 0 /\ Address' = lba + (moved + 1) - 1
    BY <1>1, <1>2, <2>1
  <2>4. ASSUME NEW i \in 1 .. (moved + 1)
        PROVE  (lba + i - 1 \in Platter /\ platter[lba + i - 1] = <<"new", i>>) \/ i = moved + 1
    <3>1. CASE i \in 1 .. moved
      BY <2>1, <3>1 DEF Stored, lba
    <3> QED
      BY <1>2, <3>1
  <2>5. Writes'
    BY <1>1, <1>3, <2>2, <2>3, <2>4 DEF Writes, Stored
  <2> QED
    BY <1>1, <1>3, <1>5, <1>6, <1>8, <2>5 DEF Reads
<1> QED
  BY <1>2, <1>7, <1>8

-----------------------------------------------------------------------------
(* The controller's steps change nothing of the call. *)
LEMMA ControllerLeaves ==
  ASSUME DataInv, UNCHANGED <<pc, call, command>>
  PROVE  /\ Answers' /\ Underway' = Underway
         /\ pc \notin {"out hi", "out command"} \/ UNCHANGED registers =>
              (AddressSet => AddressSet')
<1>1. Answers'
  BY DEF DataInv, Answers, Calling
<1> QED
  BY <1>1 DEF Underway, AddressSet

LEMMA FailsMoves ==
  ASSUME DataInv, Fails, UNCHANGED <<pc, call, command>>
  PROVE  DataInv'
<1>1. ata' = "error" /\ UNCHANGED <<registers, left, buffer, platter>>
  BY DEF Fails
<1>2. (Reads => Reads') /\ (Writes => Writes')
  BY <1>1, ControllerLeaves DEF Reads, Delivered, Writes, Stored
<1> QED
  BY <1>1, <1>2, ControllerLeaves DEF DataInv

LEMMA AskForDataMoves ==
  ASSUME DiskInv, DataInv, AskForData
  PROVE  DataInv'
<1>1. /\ ata = "busy" /\ ata' = "ready" /\ command = "WRITE"
      /\ UNCHANGED <<pc, call, command, registers, buffer, platter>> /\ Address' = Address
  BY DEF AskForData, cpuVars, Address
<1>2. call.lba + 0 = call.lba
  BY CallFacts DEF DiskInv
<1>3. Underway /\ command = call.op /\ Reads => Reads'
  BY <1>1, ControllerLeaves DEF Reads
<1>4. Underway /\ Writes => Writes'
  BY <1>1, <1>2, ControllerLeaves DEF Writes, Stored
<1>5. ~Underway => (Reads => Reads') /\ (Writes => Writes')
  BY <1>1, ControllerLeaves DEF Reads, Delivered, Writes
<1> QED
  BY <1>1, <1>3, <1>4, <1>5, ControllerLeaves DEF DataInv

LEMMA FetchMoves ==
  ASSUME DiskInv, DataInv, Fetch
  PROVE  DataInv'
<1>1. ata = "busy" /\ command = "READ" /\ UNCHANGED <<pc, call, command>>
  BY DEF Fetch, Interrupt
<1>2. CASE Fails
  BY <1>1, <1>2, FailsMoves
<1>3. CASE ~Fails
  <2>1. /\ Address \in Platter /\ buffer' = platter[Address] /\ CountOn
        /\ ata' = "ready" /\ UNCHANGED <<left, platter>>
    BY <1>3 DEF Fetch
  <2>2. registers'.lo \in Nat /\ registers'.hi \in Nat /\ Address' = Address + 1
    BY <2>1, CountedOn DEF DiskInv, DiskTypes, DataInv
  <2>3. ~call.overlapped => pc \notin {"out hi", "out command"}
    BY <1>1 DEF DiskInv, Progress, Accepting
  <2>4. Underway /\ command = call.op /\ Reads => Reads'
    <3> SUFFICES ASSUME Underway, call.op = "READ", Reads PROVE Reads'
      BY <1>1 DEF Reads
    <3>1. Address = call.lba + call.moved
      BY <1>1 DEF Reads
    <3>2. Address' = call.lba + call.moved + 1
      BY <2>2, <3>1
    <3> QED
      BY <1>1, <2>1, <3>1, <3>2 DEF Reads, Delivered
  <2>5. Underway /\ command = call.op /\ Writes => Writes'
    BY <1>1 DEF Writes
  <2>6. ~Underway => (Reads => Reads') /\ (Writes => Writes')
    BY <1>1, <2>1, ControllerLeaves DEF Reads, Delivered, Writes
  <2>7. ASSUME ~call.overlapped
        PROVE  AddressSet' /\ Reads' /\ Writes' /\ (Underway' => command' = call'.op)
    <3>1. AddressSet /\ Reads /\ Writes /\ (Underway => command = call.op)
      BY <2>7 DEF DataInv
    <3>2. AddressSet' /\ Underway' = Underway
      BY <1>1, <2>3, <2>7, <3>1, ControllerLeaves
    <3> QED
      BY <1>1, <2>4, <2>5, <2>6, <3>1, <3>2
  <2>8. Answers' /\ call' = call
    BY <1>1, ControllerLeaves
  <2> QED
    BY <2>2, <2>7, <2>8 DEF DataInv
<1> QED
  BY <1>2, <1>3

LEMMA StoreMoves ==
  ASSUME DiskInv, DataInv, Store
  PROVE  DataInv'
<1>1. ata = "storing" /\ command = "WRITE" /\ UNCHANGED <<pc, call, command>>
  BY DEF Store, Interrupt, DiskInv, Agreement
<1>2. CASE Fails
  BY <1>1, <1>2, FailsMoves
<1>3. CASE ~Fails
  <2>1. /\ Address \in Platter /\ platter' = [platter EXCEPT ![Address] = buffer] /\ CountOn
        /\ ata' \in {"idle", "ready"} /\ UNCHANGED buffer
    BY <1>3 DEF Store
  <2>2. registers'.lo \in Nat /\ registers'.hi \in Nat /\ Address' = Address + 1
        /\ Address \in Nat
    BY <2>1, CountedOn DEF DiskInv, DiskTypes, DataInv
  <2>3. ~call.overlapped => pc \notin {"out hi", "out command"}
    BY <1>1 DEF DiskInv, Progress, Accepting
  <2>4. Underway /\ command = call.op /\ Reads => Reads'
    BY <1>1 DEF Reads
  <2>5. Underway /\ command = call.op /\ Writes => Writes'
    <3> SUFFICES ASSUME Underway, call.op = "WRITE", Writes PROVE Writes'
      BY <1>1 DEF Writes
    <3> DEFINE lba == call.lba
               moved == call.moved
    <3>1. /\ moved > 0 /\ Address = lba + moved - 1 /\ buffer = <<"new", moved>>
          /\ \A i \in 1 .. moved : Stored(i) \/ i = moved
      BY <1>1 DEF Writes
    <3>2. lba \in Nat /\ moved \in Nat
      BY CallFacts DEF DiskInv
    <3>3. DOMAIN platter = Platter
      BY DEF DiskInv, DiskTypes
    <3> HIDE DEF lba, moved
    <3>4. Address' = lba + moved
      BY <2>2, <3>1, <3>2
    <3>5. ASSUME NEW i \in 1 .. moved
          PROVE  lba + i - 1 \in Platter /\ platter'[lba + i - 1] = <<"new", i>>
      <4>1. CASE i = moved
        BY <2>1, <3>1, <3>3, <4>1
      <4>2. CASE i # moved
        <5>1. Stored(i) /\ lba + i - 1 # Address
          BY <3>1, <3>2, <4>2
        <5> QED
          BY <2>1, <3>3, <5>1 DEF Stored, lba
      <4> QED
        BY <4>1, <4>2
    <3>6. call'.moved = moved /\ call'.lba = lba /\ ata' # "busy" /\ ata' # "storing"
      BY <1>1, <2>1 DEF lba, moved
    <3> QED
      BY <3>4, <3>5, <3>6 DEF Writes, Stored
  <2>6. ~Underway => (Reads => Reads') /\ (Writes => Writes')
    <3> SUFFICES ASSUME ~Underway, Reads PROVE Reads'
      BY <1>1, ControllerLeaves DEF Writes
    <3>1. ~(call.moved > 0) /\ call.moved \in Nat
      BY CallFacts DEF Underway, DiskInv
    <3>2. 1 .. call.moved = {}
      BY <3>1
    <3> QED
      BY <1>1, <3>2, ControllerLeaves DEF Reads
  <2>7. ASSUME ~call.overlapped
        PROVE  AddressSet' /\ Reads' /\ Writes' /\ (Underway' => command' = call'.op)
    <3>1. AddressSet /\ Reads /\ Writes /\ (Underway => command = call.op)
      BY <2>7 DEF DataInv
    <3>2. AddressSet' /\ Underway' = Underway
      BY <1>1, <2>3, <2>7, <3>1, ControllerLeaves
    <3> QED
      BY <1>1, <2>4, <2>5, <2>6, <3>1, <3>2
  <2>8. Answers' /\ call' = call
    BY <1>1, ControllerLeaves
  <2> QED
    BY <2>2, <2>7, <2>8 DEF DataInv
<1> QED
  BY <1>2, <1>3

-----------------------------------------------------------------------------
LEMMA NextMoves ==
  ASSUME DiskInv, DataInv, [Next]_vars
  PROVE  DataInv'
  BY DiskStepsAre, ApartKeepsData, DiskBlockMoves, OutMoves, OutCommandMoves, PollMoves,
     TransferMoves, FetchMoves, AskForDataMoves, StoreMoves
  DEF DriverSteps, ControllerSteps

(***************************************************************************)
(* A call that answers OK, and of which the controller ignored nothing,    *)
(* has delivered its sectors in order, or stored all of its own but the    *)
(* last: for every disk smaller than its addresses can count, every number *)
(* of sectors and calls, and whatever interrupts come in between.          *)
(***************************************************************************)
THEOREM OkTransfers == Spec => []OkMeansTransferred
<1>1. DiskInv /\ DataInv => OkMeansTransferred
  <2> SUFFICES ASSUME DiskInv, DataInv, call.answer = "OK", ~call.overlapped,
                      NEW i \in 1 .. call.count
               PROVE  LET sector == call.lba + i - 1
                      IN  IF call.op = "READ"
                            THEN /\ Len(call.got) >= i /\ sector \in Platter
                                 /\ call.got[i] = platter[sector]
                            ELSE \/ sector \in Platter /\ platter[sector] = <<"new", i>>
                                 \/ /\ i = call.count
                                    /\ \/ ata = "error"
                                       \/ /\ ata = "storing" /\ buffer = <<"new", i>>
                                          /\ Address = sector
    BY DEF OkMeansTransferred
  <2>1. /\ call.moved = call.count /\ call.count \in Nat /\ call.lba \in Nat
        /\ call.op \in {"READ", "WRITE"}
    BY CallFacts DEF DataInv, Answers, DiskInv
  <2>2. Underway /\ Reads /\ Writes
    BY <2>1 DEF Underway, DataInv
  <2>3. CASE call.op = "READ"
    <3>1. Len(call.got) = call.count /\ Delivered(i)
      BY <2>1, <2>2, <2>3 DEF Reads
    <3> QED
      BY <2>1, <2>3, <3>1 DEF Delivered
  <2>4. CASE call.op = "WRITE"
    <3>1. Stored(i) \/ (i = call.count /\ ata \in {"error", "storing"})
      BY <2>1, <2>2, <2>4 DEF Writes
    <3>2. ata = "storing" => /\ Address = call.lba + call.count - 1
                             /\ buffer = <<"new", call.count>>
      BY <2>1, <2>2, <2>4 DEF Writes
    <3> QED
      BY <2>4, <3>1, <3>2 DEF Stored
  <2> QED
    BY <2>1, <2>3, <2>4
<1> QED
  BY <1>1, InitDiskInv, InitData, NextKeeps, NextMoves, PTL DEF Spec

-----------------------------------------------------------------------------
(***************************************************************************)
(* The strengthening of ScreenShowsWhatWasPrinted: where the cursor is at  *)
(* each place of terminal_write_char, and what the row it is in shows.     *)
(***************************************************************************)
Video == [Cells -> {Blank} \cup [letter : Letters, colour : Colours]]

Row == current_terminal_y * VGA_WIDTH

(* Column number i of the cursor's row, from 1. *)
Shown(i) ==
  video_mem[Row + i - 1] # Blank /\ video_mem[Row + i - 1].letter = typed[i]

Printing == pc \in {"row", "index", "store", "advance"}

ScreenTypes ==
  /\ video_mem \in Video /\ typed \in Seq(Letters)
  /\ current_terminal_x \in Nat /\ current_terminal_y \in Nat

InRow ==
  /\ current_terminal_x = Len(typed) /\ current_terminal_x <= VGA_WIDTH
  /\ current_terminal_x > 0 => current_terminal_y < VGA_HEIGHT
  /\ \A i \in 1 .. current_terminal_x : Shown(i)

AtCharacter ==
  /\ Printing => current_terminal_x < VGA_WIDTH /\ character \in Letters
  /\ pc \in {"index", "store", "advance"} => current_terminal_y < VGA_HEIGHT
  /\ pc \in {"store", "advance"} => cell = Row + current_terminal_x
  /\ pc = "advance" => video_mem[cell] # Blank /\ video_mem[cell].letter = character

ScreenInv == mode = "run" => ScreenTypes /\ InRow /\ AtCharacter

-----------------------------------------------------------------------------
(* A column of a row of the screen is one of its cells. *)
LEMMA RowFits ==
  ASSUME NEW x \in Nat, NEW y \in Nat, x < VGA_WIDTH, y < VGA_HEIGHT
  PROVE  y * VGA_WIDTH \in Nat /\ y * VGA_WIDTH + x \in Cells
<1>1. VGA_WIDTH \in Nat /\ VGA_HEIGHT \in Nat /\ VGA_WIDTH > 0
  BY TerminalAssumption
<1>2. \A a, b, w \in Nat : a < b => a * w + w <= w * b
  <2> SUFFICES ASSUME NEW a \in Nat, NEW b \in Nat, NEW w \in Nat, a < b
               PROVE  a * w + w <= w * b
    OBVIOUS
  <2>1. b - a - 1 \in Nat /\ w * (b - a - 1) \in Nat
    OBVIOUS
  <2>2. w * b = a * w + w + w * (b - a - 1)
    OBVIOUS
  <2>3. a * w \in Nat /\ w * b \in Nat
    OBVIOUS
  <2> QED
    BY <2>1, <2>2, <2>3
<1>3. y * VGA_WIDTH \in Nat /\ VGA_WIDTH * VGA_HEIGHT \in Nat
  BY <1>1
<1>4. y * VGA_WIDTH + VGA_WIDTH <= VGA_WIDTH * VGA_HEIGHT
  BY <1>1, <1>2
<1> QED
  BY <1>1, <1>3, <1>4 DEF Cells

LEMMA Made ==
  ASSUME NEW c \in Letters, NEW colour \in Colours
  PROVE  /\ terminal_make_char(c, colour) \in {Blank} \cup [letter : Letters, colour : Colours]
         /\ terminal_make_char(c, colour) # Blank
         /\ terminal_make_char(c, colour).letter = c
<1>1. terminal_make_char(c, colour) \in [letter : Letters, colour : Colours]
  BY DEF terminal_make_char
<1> QED
  BY <1>1, TerminalAssumption DEF terminal_make_char

-----------------------------------------------------------------------------
(***************************************************************************)
(* println of a message of one character.                                  *)
(***************************************************************************)
LEMMA OnePrinted ==
  ASSUME NEW base, NEW c
  PROVE  print(base, <<c>>) = Written(base, c)
<1> DEFINE seq == <<c>>
           Iter(g) == g = [s \in SUBSET {1} |->
                             IF s = {} THEN base ELSE Written(g[s \ {Max(s)}], seq[Max(s)])]
           h == [s \in SUBSET {1} |-> IF s = {} THEN base ELSE Written(base, c)]
<1>1. DOMAIN seq = {1} /\ seq[1] = c
  OBVIOUS
<1>2. Max({1}) = 1
  BY DEF Max
<1>3. print(base, seq) = (CHOOSE g : Iter(g))[{1}]
  BY <1>1 DEF print, FoldLeft, MapThenFoldSet
<1> HIDE DEF seq
<1>4. {1} \ {1} = {} /\ {1} # {} /\ \A s \in SUBSET {1} : s = {} \/ s = {1}
  OBVIOUS
<1>5. Iter(h)
  <2>1. h = [s \in SUBSET {1} |-> h[s]] /\ h[{}] = base /\ h[{1}] = Written(base, c)
    BY DEF h
  <2> HIDE DEF h
  <2>2. \A s \in SUBSET {1} :
          h[s] = IF s = {} THEN base ELSE Written(h[s \ {Max(s)}], seq[Max(s)])
    <3>1. h[{1}] = Written(h[{1} \ {Max({1})}], seq[Max({1})])
      BY <1>1, <1>2, <1>4, <2>1
    <3> QED
      BY <1>4, <2>1, <3>1
  <2> QED
    BY <2>1, <2>2
<1>6. ASSUME NEW g, Iter(g) PROVE g[{1}] = Written(base, c)
  <2>1. \A s \in SUBSET {1} :
          g[s] = IF s = {} THEN base ELSE Written(g[s \ {Max(s)}], seq[Max(s)])
    <3> DEFINE G(s) == IF s = {} THEN base ELSE Written(g[s \ {Max(s)}], seq[Max(s)])
    <3>1. g = [s \in SUBSET {1} |-> G(s)]
      BY <1>6
    <3> HIDE DEF G
    <3>2. \A s \in SUBSET {1} : g[s] = G(s)
      BY <3>1
    <3> QED
      BY <3>2 DEF G
  <2>2. g[{}] = base
    BY <2>1
  <2>3. g[{1}] = Written(g[{1} \ {Max({1})}], seq[Max({1})])
    BY <1>4, <2>1
  <2> QED
    BY <1>1, <1>2, <1>4, <2>2, <2>3
<1> HIDE DEF Iter, h
<1>7. (CHOOSE g : Iter(g))[{1}] = Written(base, c)
  BY <1>5, <1>6
<1> QED
  BY <1>3, <1>7 DEF seq

(* A handler's line ends with the cursor at the left border. *)
LEMMA LinePrinted ==
  ASSUME ScreenTypes, NEW c \in Letters, println(<<c>>)
  PROVE  ScreenTypes' /\ typed' = <<>> /\ current_terminal_x' = 0
<1> DEFINE start == [video |-> video_mem, cursor |-> Cursor]
           at == WrapRow(WrapColumn(Cursor))
           middle == [video  |-> [video_mem EXCEPT ![Index(at)] = terminal_make_char(c, "white")],
                      cursor |-> Advanced(at, c)]
           end == [middle EXCEPT !.cursor = NextRow(@)]
<1>1. c # EOL
  BY TerminalAssumption
<1>2. print(start, <<c>>) = Written(start, c)
  BY OnePrinted
<1>3. Written(start, c) = middle
  BY <1>1 DEF Written
<1>4. Written(middle, EOL) = end
  BY DEF Written
<1>5. Written(print(start, <<c>>), EOL) = end
  BY <1>2, <1>3, <1>4
<1>6. video_mem' = end.video /\ SetCursor(end.cursor)
  BY <1>5 DEF println
<1>7. at.y \in Nat
  BY TerminalAssumption DEF ScreenTypes, WrapRow, WrapColumn, NextRow, Cursor
<1>8. middle.cursor.y = at.y
  BY DEF Advanced, WrapRow, WrapColumn, NextRow, Cursor
<1>9. end.cursor = [x |-> 0, y |-> at.y + 1, typed |-> <<>>]
  BY <1>8 DEF NextRow
<1>10. end.video = [video_mem EXCEPT ![Index(at)] = terminal_make_char(c, "white")]
  OBVIOUS
<1> HIDE DEF at, end
<1>11. video_mem' \in Video
  <2>1. terminal_make_char(c, "white") \in {Blank} \cup [letter : Letters, colour : Colours]
    BY Made DEF Colours
  <2> QED
    BY <1>6, <1>10, <2>1 DEF ScreenTypes, Video
<1>12. current_terminal_x' = 0 /\ current_terminal_y' = at.y + 1 /\ typed' = <<>>
  BY <1>6, <1>9 DEF SetCursor
<1> QED
  BY <1>7, <1>11, <1>12, EmptySeq DEF ScreenTypes

-----------------------------------------------------------------------------
LEMMA InitScreen == Init => ScreenInv
<1> SUFFICES ASSUME Init PROVE ScreenInv
  OBVIOUS
<1>1. /\ video_mem = [c \in Cells |-> Blank] /\ current_terminal_x = 0
      /\ current_terminal_y = 0 /\ typed = <<>> /\ pc = "ready"
  BY DEF Init, TerminalInit, terminal_clear
<1>2. Len(<<>>) = 0 /\ <<>> \in Seq(Letters)
  BY EmptySeq
<1> QED
  BY <1>1, <1>2, TerminalAssumption DEF ScreenInv, ScreenTypes, Video, InRow, AtCharacter, Printing

(* Steps that print nothing. *)
Silent ==
  /\ mode = "run" /\ UNCHANGED screenVars
  /\ pc' = pc \/ ~Printing'

LEMMA SilentKeeps ==
  ASSUME ScreenInv, Silent
  PROVE  ScreenInv'
<1>1. /\ ScreenTypes /\ InRow /\ AtCharacter
      /\ UNCHANGED <<video_mem, current_terminal_x, current_terminal_y, character, cell, typed>>
  BY DEF ScreenInv, Silent, screenVars, terminalVars
<1>2. ScreenTypes' /\ InRow' /\ Row' = Row
  BY <1>1 DEF ScreenTypes, InRow, Shown, Row
<1>3. AtCharacter'
  BY <1>1, <1>2 DEF AtCharacter, Silent, Printing
<1> QED
  BY <1>2, <1>3 DEF ScreenInv

(* A handler prints where nothing is in the middle of a character. *)
LEMMA PrintlnKeeps ==
  ASSUME ScreenInv, mode = "run", NEW c \in Letters, println(<<c>>), ~Printing'
  PROVE  ScreenInv'
<1>1. ScreenTypes' /\ typed' = <<>> /\ current_terminal_x' = 0
  BY LinePrinted DEF ScreenInv
<1>2. InRow'
  <2>1. Len(<<>>) = 0 /\ 0 <= VGA_WIDTH /\ 1 .. 0 = {}
    BY EmptySeq, TerminalAssumption
  <2> QED
    BY <1>1, <2>1 DEF InRow
<1> QED
  BY <1>1, <1>2 DEF ScreenInv, AtCharacter, Printing

LEMMA WriteKeeps ==
  ASSUME ScreenInv, NEW c \in Letters \cup {EOL}, terminal_write_char(c)
  PROVE  ScreenInv'
<1>1. /\ ScreenTypes /\ InRow /\ mode = "run" /\ video_mem' = video_mem
  BY DEF ScreenInv, terminal_write_char, At
<1>2. /\ current_terminal_x \in Nat /\ current_terminal_y \in Nat
      /\ VGA_WIDTH \in Nat /\ VGA_WIDTH > 0 /\ Len(<<>>) = 0 /\ <<>> \in Seq(Letters)
  BY <1>1, EmptySeq, TerminalAssumption DEF ScreenTypes
<1>3. ASSUME SetCursor(NextRow(Cursor)) PROVE ScreenTypes' /\ InRow' /\ current_terminal_x' = 0
  <2>1. current_terminal_x' = 0 /\ current_terminal_y' = current_terminal_y + 1 /\ typed' = <<>>
    BY <1>3 DEF SetCursor, NextRow, Cursor
  <2>2. 1 .. 0 = {}
    OBVIOUS
  <2> QED
    BY <1>1, <1>2, <2>1, <2>2 DEF ScreenTypes, InRow
<1>4. CASE c = EOL
  <2>1. pc' = "ready" /\ SetCursor(NextRow(Cursor))
    BY <1>4 DEF terminal_write_char, GoTo
  <2> QED
    BY <1>3, <2>1 DEF ScreenInv, AtCharacter, Printing
<1>5. CASE c # EOL
  <2>1. pc' = "row" /\ character' = c /\ SetCursor(WrapColumn(Cursor)) /\ c \in Letters
    BY <1>5 DEF terminal_write_char, GoTo
  <2>2. ScreenTypes' /\ InRow' /\ current_terminal_x' < VGA_WIDTH
    <3>1. CASE current_terminal_x >= VGA_WIDTH
      <4>1. SetCursor(NextRow(Cursor))
        BY <2>1, <3>1 DEF WrapColumn, Cursor
      <4> QED
        BY <1>2, <1>3, <4>1
    <3>2. CASE ~(current_terminal_x >= VGA_WIDTH)
      <4>1. UNCHANGED <<current_terminal_x, current_terminal_y, typed>>
        BY <2>1, <3>2 DEF WrapColumn, Cursor, SetCursor
      <4>2. ScreenTypes' /\ InRow'
        BY <1>1, <4>1 DEF ScreenTypes, InRow, Shown, Row
      <4> QED
        BY <1>2, <3>2, <4>1, <4>2
    <3> QED
      BY <3>1, <3>2
  <2> QED
    BY <2>1, <2>2 DEF ScreenInv, AtCharacter, Printing
<1> QED
  BY <1>4, <1>5

LEMMA TestRowKeeps ==
  ASSUME ScreenInv, TestRow
  PROVE  ScreenInv'
<1>1. /\ ScreenTypes /\ InRow /\ mode = "run" /\ video_mem' = video_mem /\ character' = character
      /\ current_terminal_x < VGA_WIDTH /\ character \in Letters /\ pc' = "index"
  BY DEF ScreenInv, TestRow, At, GoTo, AtCharacter, Printing
<1>2. /\ current_terminal_x \in Nat /\ current_terminal_y \in Nat
      /\ VGA_HEIGHT \in Nat /\ VGA_HEIGHT > 0
  BY <1>1, TerminalAssumption DEF ScreenTypes
<1>3. current_terminal_x' = current_terminal_x /\ typed' = typed
  BY DEF TestRow, SetCursor, WrapRow, Cursor
<1>4. CASE current_terminal_y >= VGA_HEIGHT
  <2>1. current_terminal_y' = 0
    BY <1>4 DEF TestRow, SetCursor, WrapRow, Cursor
  <2>2. current_terminal_x = 0
    BY <1>1, <1>2, <1>4 DEF InRow
  <2>3. 1 .. 0 = {}
    OBVIOUS
  <2> QED
    BY <1>1, <1>2, <1>3, <2>1, <2>2, <2>3
    DEF ScreenInv, ScreenTypes, InRow, AtCharacter, Printing
<1>5. CASE ~(current_terminal_y >= VGA_HEIGHT)
  <2>1. current_terminal_y' = current_terminal_y
    BY <1>5 DEF TestRow, SetCursor, WrapRow, Cursor
  <2>2. ScreenTypes' /\ InRow'
    BY <1>1, <1>3, <2>1 DEF ScreenTypes, InRow, Shown, Row
  <2>3. current_terminal_y < VGA_HEIGHT
    BY <1>2, <1>5
  <2> QED
    BY <1>1, <1>3, <2>1, <2>2, <2>3 DEF ScreenInv, AtCharacter, Printing
<1> QED
  BY <1>4, <1>5

LEMMA ComputeIndexKeeps ==
  ASSUME ScreenInv, ComputeIndex
  PROVE  ScreenInv'
<1>1. /\ ScreenTypes /\ InRow /\ AtCharacter /\ mode = "run" /\ pc = "index" /\ pc' = "store"
      /\ UNCHANGED <<video_mem, current_terminal_x, current_terminal_y, typed, character>>
      /\ cell' = Row + current_terminal_x
  BY DEF ScreenInv, ComputeIndex, At, terminalVars, Index, Cursor, Row
<1>2. ScreenTypes' /\ InRow' /\ Row' = Row
  BY <1>1 DEF ScreenTypes, InRow, Shown, Row
<1> QED
  BY <1>1, <1>2 DEF ScreenInv, AtCharacter, Printing

LEMMA StoreKeepsScreen ==
  ASSUME ScreenInv, StoreCharacter
  PROVE  ScreenInv'
<1>1. /\ ScreenTypes /\ InRow /\ AtCharacter /\ mode = "run" /\ pc = "store" /\ pc' = "advance"
      /\ UNCHANGED <<current_terminal_x, current_terminal_y, typed, character, cell>>
  BY DEF ScreenInv, StoreCharacter, At
<1>2. PICK colour \in Colours :
        video_mem' = [video_mem EXCEPT ![cell] = terminal_make_char(character, colour)]
  BY DEF StoreCharacter, Colours
<1>3. /\ current_terminal_x \in Nat /\ current_terminal_y \in Nat
      /\ current_terminal_x < VGA_WIDTH /\ current_terminal_y < VGA_HEIGHT
      /\ cell = Row + current_terminal_x /\ character \in Letters /\ video_mem \in Video
  BY <1>1 DEF ScreenTypes, AtCharacter, Printing
<1>4. Row \in Nat /\ cell \in Cells
  BY <1>3, RowFits DEF Row
<1>5. /\ terminal_make_char(character, colour)
           \in {Blank} \cup [letter : Letters, colour : Colours]
      /\ terminal_make_char(character, colour) # Blank
      /\ terminal_make_char(character, colour).letter = character
  BY <1>3, Made
<1> DEFINE char == terminal_make_char(character, colour)
<1> HIDE DEF char
<1>6. /\ video_mem' = [video_mem EXCEPT ![cell] = char] /\ char # Blank
      /\ char.letter = character /\ char \in {Blank} \cup [letter : Letters, colour : Colours]
  BY <1>2, <1>5 DEF char
<1>7. /\ video_mem' \in Video /\ video_mem'[cell] = char
      /\ \A other : other # cell => video_mem'[other] = video_mem[other]
  BY <1>3, <1>4, <1>6 DEF Video
<1>8. ASSUME NEW i \in 1 .. current_terminal_x PROVE Shown(i)'
  <2>1. Shown(i)
    BY <1>1 DEF InRow
  <2>2. Row + i - 1 # cell /\ Row' = Row
    BY <1>1, <1>3, <1>4 DEF Row
  <2> QED
    BY <1>1, <1>7, <2>1, <2>2 DEF Shown
<1>9. ScreenTypes' /\ InRow'
  BY <1>1, <1>7, <1>8 DEF ScreenTypes, InRow
<1>10. AtCharacter'
  BY <1>1, <1>3, <1>6, <1>7 DEF AtCharacter, Printing, Row
<1> QED
  BY <1>9, <1>10 DEF ScreenInv

LEMMA AdvanceKeeps ==
  ASSUME ScreenInv, Advance
  PROVE  ScreenInv'
<1> DEFINE x == current_terminal_x
<1>1. /\ ScreenTypes /\ InRow /\ AtCharacter /\ mode = "run" /\ pc = "advance" /\ pc' = "ready"
      /\ UNCHANGED video_mem
  BY DEF ScreenInv, Advance, At, GoTo
<1>2. /\ current_terminal_x' = x + 1 /\ current_terminal_y' = current_terminal_y
      /\ typed' = Append(typed, character)
  BY DEF Advance, SetCursor, Advanced, Cursor
<1>3. /\ x \in Nat /\ current_terminal_y \in Nat /\ typed \in Seq(Letters) /\ x = Len(typed)
      /\ x < VGA_WIDTH /\ current_terminal_y < VGA_HEIGHT /\ VGA_WIDTH \in Nat
      /\ cell = Row + x /\ character \in Letters
      /\ video_mem[cell] # Blank /\ video_mem[cell].letter = character
  BY <1>1, TerminalAssumption DEF ScreenTypes, InRow, AtCharacter, Printing
<1>4. /\ typed' \in Seq(Letters) /\ Len(typed') = x + 1 /\ typed'[x + 1] = character
      /\ \A i \in 1 .. x : typed'[i] = typed[i]
  BY <1>2, <1>3, AppendProperties
<1>5. Row \in Nat /\ Row' = Row
  BY <1>2, <1>3, RowFits DEF Row
<1>6. ASSUME NEW i \in 1 .. (x + 1) PROVE Shown(i)'
  <2>1. CASE i \in 1 .. x
    BY <1>1, <1>4, <1>5, <2>1 DEF InRow, Shown
  <2>2. CASE i = x + 1
    <3>1. Row + i - 1 = cell
      BY <1>3, <1>5, <2>2
    <3> QED
      BY <1>1, <1>3, <1>4, <1>5, <2>2, <3>1 DEF Shown
  <2> QED
    BY <1>3, <2>1, <2>2
<1>7. ScreenTypes'
  BY <1>1, <1>2, <1>3, <1>4 DEF ScreenTypes
<1>8. InRow'
  BY <1>2, <1>3, <1>4, <1>6 DEF InRow
<1> QED
  BY <1>1, <1>7, <1>8 DEF ScreenInv, AtCharacter, Printing

-----------------------------------------------------------------------------
(* A key is served in the middle of nothing but the loop behind kernel_main, *)
(* or the machine runs wild.                                               *)
LEMMA ServedKeeps ==
  ASSUME ScreenInv, NEW line \in Lines, Served(line)
  PROVE  ScreenInv'
<1>1. mode = "run" /\ UNCHANGED <<pc, character, cell>>
  BY DEF Served, TakeInterrupt, Deliverable, Return
<1>2. CASE line = "keyboard"
  <2>1. println(<<Key>>)
    BY <1>2, EmptySeq DEF Served, TakeInterrupt, Message
  <2>2. pc = "halt" \/ mode' = "wild"
    BY <1>2 DEF Served, TakeInterrupt, Return, Gate
  <2>3. CASE pc = "halt"
    <3>1. ~Printing'
      BY <1>1, <2>3 DEF Printing
    <3> QED
      BY <1>1, <2>1, <3>1, PrintlnKeeps, MessageAssumption
  <2>4. CASE mode' = "wild"
    BY <2>4 DEF ScreenInv
  <2> QED
    BY <2>2, <2>3, <2>4
<1>3. CASE line # "keyboard"
  <2>1. UNCHANGED terminalVars
    BY <1>3 DEF Served, TakeInterrupt, Message
  <2> QED
    BY <1>1, <2>1, SilentKeeps DEF Silent, screenVars
<1> QED
  BY <1>2, <1>3

LEMMA NextScreen ==
  ASSUME ScreenInv, [Next]_vars
  PROVE  ScreenInv'
<1>1. CASE Statement
  <2>1. ASSUME NEW c \in {CHOOSE l \in Letters \ {Key, Error} : TRUE, EOL}, WriteCharacter(c)
        PROVE  ScreenInv'
    <3>1. c \in Letters \cup {EOL}
      BY StatementAssumption
    <3> QED
      BY <2>1, <3>1, WriteKeeps DEF WriteCharacter
  <2>2. ASSUME NEW op, NEW lba, NEW count, CallDisk(op, lba, count)
        PROVE  ScreenInv'
    BY <2>2, SilentKeeps DEF CallDisk, disk_block, At, GoTo, Silent, Printing
  <2>3. LoadPointer \/ Divide \/ Halt => Silent
    BY DEF LoadPointer, Divide, Halt, At, GoTo, Silent, Printing
  <2>4. kernel_enable_interrupts => Silent
    BY DEF kernel_enable_interrupts, At, Silent, screenVars
  <2> QED
    BY <1>1, <2>1, <2>2, <2>3, <2>4, SilentKeeps DEF Statement
<1>2. CASE Step
  <2>1. CASE TerminalSteps
    BY <2>1, TestRowKeeps, ComputeIndexKeeps, StoreKeepsScreen, AdvanceKeeps DEF TerminalSteps
  <2>2. DriverSteps /\ UNCHANGED <<screenVars, interruptVars, boundVars>> => Silent
    <3>1. disk_init_disk_from_lba /\ UNCHANGED screenVars => Silent
      BY DEF disk_init_disk_from_lba, Out, At, GoTo, Silent, Printing
    <3>2. (OutCommand \/ Poll \/ Transfer) /\ UNCHANGED screenVars => Silent
      BY DEF OutCommand, Poll, Transfer, At, GoTo, Silent, Printing
    <3> QED
      BY <3>1, <3>2 DEF DriverSteps
  <2>3. CopyByte => Silent
    BY DEF CopyByte, At, Silent, Printing
  <2> QED
    BY <1>2, <2>1, <2>2, <2>3, SilentKeeps DEF Step
<1>3. Controller => Silent
  BY DEF Controller, ControllerSteps, Fetch, AskForData, Store, Interrupt, cpuVars, Silent
<1>4. CASE DivideError
  <2>1. mode = "run" /\ println(<<Error>>) /\ ~Printing'
    BY <1>4 DEF DivideError, At, cpuVars, Printing
  <2> QED
    BY <2>1, PrintlnKeeps, MessageAssumption
<1>5. Tick \/ KeyPressed => Silent
  BY DEF Tick, KeyPressed, Silent, screenVars
<1>6. CASE UNCHANGED vars
  <2>1. CASE mode = "run"
    BY <1>6, <2>1, SilentKeeps DEF vars, cpuVars, Silent
  <2>2. CASE mode # "run"
    BY <1>6, <2>2 DEF vars, cpuVars, ScreenInv
  <2> QED
    BY <2>1, <2>2
<1> QED
  BY <1>1, <1>2, <1>3, <1>4, <1>5, <1>6, SilentKeeps, ServedKeeps DEF Next, TakeSome

(***************************************************************************)
(* The row of the cursor shows what was printed since its column was 0,    *)
(* and a character is stored in a cell of the screen behind those: for     *)
(* every size of the screen and every number of characters, and wherever   *)
(* handlers print in between.                                              *)
(***************************************************************************)
THEOREM ScreenShows == Spec => []ScreenShowsWhatWasPrinted
<1>1. ScreenInv => ScreenShowsWhatWasPrinted
  <2> SUFFICES ASSUME ScreenTypes, InRow, AtCharacter
               PROVE  /\ Len(typed) <= VGA_WIDTH
                      /\ \A i \in 1 .. Len(typed) :
                           LET shown == video_mem[current_terminal_y * VGA_WIDTH + i - 1]
                           IN  shown # Blank /\ shown.letter = typed[i]
                      /\ pc \in {"store", "advance"} => cell \in Cells /\ cell = Index(Cursor)
    BY DEF ScreenInv, ScreenShowsWhatWasPrinted
  <2>1. Len(typed) <= VGA_WIDTH
    BY DEF InRow
  <2>2. \A i \in 1 .. Len(typed) : Shown(i)
    BY DEF InRow
  <2>3. ASSUME pc \in {"store", "advance"} PROVE cell \in Cells /\ cell = Index(Cursor)
    <3>1. cell = Row + current_terminal_x
      BY <2>3 DEF AtCharacter
    <3>2. Row + current_terminal_x \in Cells
      BY <2>3, RowFits DEF AtCharacter, ScreenTypes, Printing, Row
    <3> QED
      BY <3>1, <3>2 DEF Index, Cursor, Row
  <2> QED
    BY <2>1, <2>2, <2>3 DEF Shown, Row
<1> QED
  BY <1>1, InitScreen, NextScreen, PTL DEF Spec
=============================================================================
