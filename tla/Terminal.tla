------------------------------ MODULE Terminal ------------------------------
(***************************************************************************)
(* The terminal, src/src/lib/terminal.c.  terminal_write_char is taken in  *)
(* the pieces between which an interrupt may fall; a handler prints its    *)
(* whole message with interrupts off.                                      *)
(***************************************************************************)
EXTENDS Cpu, Integers, SequencesExt

CONSTANTS
  VGA_WIDTH, VGA_HEIGHT,
  Letters,       \* what is printed, EOL apart
  EOL,
  Blank          \* the 0 that terminal_clear writes

VARIABLES
  video_mem,            \* cells in rows, one behind the other
  current_terminal_x,
  current_terminal_y,
  character,            \* terminal_write_char's argument, Blank outside it
  cell,                 \* the index it has computed, in esi
  typed                 \* observation: what was printed since column 0

terminalVars == <<video_mem, current_terminal_x, current_terminal_y, typed>>

(* print's 0xF, or the last byte of a handler's address. *)
Colours == {"white", "odd"}

ASSUME TerminalAssumption ==
  /\ VGA_WIDTH \in Nat \ {0} /\ VGA_HEIGHT \in Nat \ {0}
  /\ EOL \notin Letters /\ Blank \notin Letters
  /\ Blank \notin [letter : Letters, colour : Colours]   \* no character is a NUL

Cells == 0 .. (VGA_WIDTH * VGA_HEIGHT - 1)

(* terminal_make_char. *)
terminal_make_char(letter, colour) == [letter |-> letter, colour |-> colour]

(* terminal_clear, which writes 0 for letter and colour. *)
terminal_clear ==
  /\ video_mem = [c \in Cells |-> Blank]
  /\ current_terminal_x = 0
  /\ current_terminal_y = 0
  /\ typed = <<>>

TerminalInit == terminal_clear /\ character = Blank /\ cell = 0

-----------------------------------------------------------------------------
(* The cursor and what lies before it, as one value. *)
Cursor == [x |-> current_terminal_x, y |-> current_terminal_y, typed |-> typed]

SetCursor(cursor) ==
  /\ current_terminal_x' = cursor.x
  /\ current_terminal_y' = cursor.y
  /\ typed' = cursor.typed

(* x = 0, y += 1: for EOL without a look at the height. *)
NextRow(cursor) == [x |-> 0, y |-> cursor.y + 1, typed |-> <<>>]

(* Mutant of WrapColumn: the test lets one column too many through. *)
WrapColumn_Late(cursor) ==
  IF cursor.x > VGA_WIDTH THEN NextRow(cursor) ELSE cursor

WrapColumn(cursor) ==
  IF cursor.x >= VGA_WIDTH THEN NextRow(cursor) ELSE cursor

WrapRow(cursor) ==
  IF cursor.y >= VGA_HEIGHT THEN [cursor EXCEPT !.y = 0] ELSE cursor

Index(cursor) == cursor.y * VGA_WIDTH + cursor.x

Advanced(cursor, letter) ==
  [cursor EXCEPT !.x = @ + 1, !.typed = Append(@, letter)]

-----------------------------------------------------------------------------
(* terminal_write_char, as far as the test for the right border. *)
terminal_write_char(c) ==
  /\ At("ready")
  /\ \/ /\ c = EOL
        /\ SetCursor(NextRow(Cursor))
        /\ GoTo("ready")
        /\ UNCHANGED character
     \/ /\ c # EOL
        /\ character' = c
        /\ SetCursor(WrapColumn(Cursor))
        /\ GoTo("row")
  /\ UNCHANGED <<video_mem, cell>>

TestRow ==
  /\ At("row")
  /\ SetCursor(WrapRow(Cursor))
  /\ GoTo("index")
  /\ UNCHANGED <<video_mem, character, cell>>

(* The colour waits in ecx for the call of terminal_make_char. *)
ComputeIndex ==
  /\ At("index")
  /\ cell' = Index(Cursor)
  /\ ecx' = "colour"
  /\ pc' = "store"
  /\ UNCHANGED <<terminalVars, character, mode, flag, irr>>

StoreCharacter ==
  /\ At("store")
  /\ video_mem' = [video_mem EXCEPT ![cell] =
       terminal_make_char(character, IF ecx = "colour" THEN "white" ELSE "odd")]
  /\ ecx' = "free"
  /\ pc' = "advance"
  /\ UNCHANGED <<current_terminal_x, current_terminal_y, typed, character, cell,
                 mode, flag, irr>>

Advance ==
  /\ At("advance")
  /\ SetCursor(Advanced(Cursor, character))
  /\ character' = Blank
  /\ cell' = 0
  /\ GoTo("ready")
  /\ UNCHANGED video_mem

TerminalSteps == TestRow \/ ComputeIndex \/ StoreCharacter \/ Advance

-----------------------------------------------------------------------------
(* terminal_write_char without an interruption, on cursor and screen. *)
Written(screen, c) ==
  IF c = EOL THEN [screen EXCEPT !.cursor = NextRow(@)]
  ELSE LET at == WrapRow(WrapColumn(screen.cursor))
       IN  [video  |-> [screen.video EXCEPT ![Index(at)] =
                          terminal_make_char(c, "white")],
            cursor |-> Advanced(at, c)]

print(screen, message) == FoldLeft(Written, screen, message)

(* println, as a handler runs it. *)
println(message) ==
  LET start  == [video |-> video_mem, cursor |-> Cursor]
      screen == Written(print(start, message), EOL)
  IN  video_mem' = screen.video /\ SetCursor(screen.cursor)

-----------------------------------------------------------------------------
TerminalTypeOK ==
  /\ video_mem \in [Cells -> {Blank} \cup [letter : Letters, colour : Colours]]
  /\ current_terminal_x \in 0 .. VGA_WIDTH
  /\ current_terminal_y \in Nat
  /\ character \in Letters \cup {Blank}
  /\ cell \in Nat
  /\ typed \in Seq(Letters)

(***************************************************************************)
(* The screen is what was printed, one character after the other: the row  *)
(* the cursor is in begins with what was printed since its column was 0,   *)
(* which is never more than a row; and a character about to be stored goes *)
(* to a cell of the screen, behind those.  The handlers print too, in the  *)
(* middle of terminal_write_char; what they print must not end up inside   *)
(* or under it.                                                            *)
(***************************************************************************)
ScreenShowsWhatWasPrinted ==
  mode = "run" =>
    /\ Len(typed) <= VGA_WIDTH
    /\ \A i \in 1 .. Len(typed) :
         LET shown == video_mem[current_terminal_y * VGA_WIDTH + i - 1]
         IN  shown # Blank /\ shown.letter = typed[i]
    /\ pc \in {"store", "advance"} => cell \in Cells /\ cell = Index(Cursor)
=============================================================================
