------------------------------- MODULE Console -------------------------------
(***************************************************************************)
(* The interactive console (console.c): it polls the keyboard and the      *)
(* serial line, edits a command line, echoes it on the terminal, executes  *)
(* it, and halts the processor when nothing is pending.  Every interrupt   *)
(* ends the halt; the serial line raises none.  The VGA text terminal      *)
(* (tty.c) comes first, as operators on its state, the cursor and the      *)
(* cells; the character classes are those of the kernel's ctype.h.         *)
(***************************************************************************)
EXTENDS Integers, Sequences, SequencesExt, FiniteSets

CONSTANTS Rows, Cols,    \* VGA_HEIGHT, VGA_WIDTH
          Letters        \* the printable characters that occur

TerminalAssumption == Rows \in Nat \ {0, 1} /\ Cols \in Nat \ {0, 1}

Blank == " "
Printable == Letters \cup {Blank, ">"}
Space == {"\t", "\n", "\r", "VT", "DEL"}      \* isspace counts 127, not '\b'
Chars == Printable \cup Space \cup {"BS", "ESC"}
Cells == (0..Rows - 1) \X (0..Cols - 1)

Terminals == [row : 0..Rows - 1, col : 0..Cols - 1, cell : [Cells -> Printable]]

\* terminal_initialize, on a cursor that starts at the origin
Cleared == [row |-> 0, col |-> 0, cell |-> [p \in Cells |-> Blank]]

\* The switch of terminal_putchar, before the cursor is brought back on the screen.
Put(t, c) ==
  CASE c \in {"\n", "\r"} -> [t EXCEPT !.row = t.row + 1, !.col = 0]
    [] c = "VT" -> [t EXCEPT !.row = t.row + 1]
    [] c = "\t" -> [t EXCEPT !.col = ((t.col + 4) \div 4) * 4]
    [] c = "DEL" /\ t.col > 0 ->
         [t EXCEPT !.col = t.col - 1, !.cell[<<t.row, t.col - 1>>] = Blank]
    [] c = "DEL" /\ t.col = 0 /\ t.row > 0 ->
         [t EXCEPT !.row = t.row - 1, !.col = Cols - 1,
                   !.cell[<<t.row - 1, Cols - 1>>] = Blank]
    [] c = "DEL" /\ t.col = 0 /\ t.row = 0 -> t
    [] OTHER -> [t EXCEPT !.col = t.col + 1, !.cell[<<t.row, t.col>>] = c]

Wrap(t) == IF t.col >= Cols THEN [t EXCEPT !.row = t.row + 1, !.col = 0] ELSE t

\* terminal_scroll and terminal_delete_last_line
Scroll(t) ==
  IF t.row < Rows THEN t
  ELSE [t EXCEPT !.row = Rows - 1,
                 !.cell = [p \in Cells |->
                    IF p[1] = Rows - 1 THEN Blank ELSE t.cell[<<p[1] + 1, p[2]>>]]]

putchar(t, c) ==
  IF c \in Printable \cup Space THEN Scroll(Wrap(Put(t, c))) ELSE t

write_string(t, s) == FoldLeft(putchar, t, s)

\* The n characters before the cursor, in reading order.
Position(t) == t.row * Cols + t.col
TextBefore(t, n) ==
  [i \in 1..n |-> LET p == Position(t) - n + i - 1
                  IN  t.cell[<<p \div Cols, p % Cols>>]]
-----------------------------------------------------------------------------
CONSTANTS CommandMax,    \* KERNEL_CONSOLE_COMMAND_MAX
          MaxKeys,       \* bound on the bytes that arrive
          MaxPending,    \* bound on the bytes that wait in each queue
          Exit,          \* the command line "exit"
          Displays       \* a subset of BOOLEAN: may the boot find a framebuffer?

ConsoleAssumption == CommandMax \in Nat \ {0} /\ MaxKeys \in Nat /\ MaxPending \in Nat
                            /\ Displays \subseteq BOOLEAN

Inputs == Letters \cup {"\n", "BS", "ESC"}

VARIABLES keyboard, serial,   \* bytes waiting in the key ring and in the UART
          keys,               \* bytes that have arrived
          framebuffer,        \* framebuffer_available
          term, command, pc, done,
          erased              \* a character of this line has been erased

input == <<keyboard, serial, keys>>
vars  == <<keyboard, serial, keys, framebuffer, term, command, pc, done, erased>>

PrintPrompt(t) == write_string(t, <<"\n", ">", Blank>>)

Init ==
  /\ keyboard = << >> /\ serial = << >> /\ keys = 0
  /\ framebuffer \in Displays
  /\ term = IF framebuffer THEN Cleared ELSE PrintPrompt(Cleared)
  /\ command = << >> /\ pc = "poll" /\ done = FALSE /\ erased = FALSE
-----------------------------------------------------------------------------
(* Interrupts and arrivals *)

\* The keyboard interrupt rings a byte, and any interrupt ends hlt.
KeyArrives(k) ==
  /\ keys < MaxKeys /\ keys' = keys + 1
  /\ Len(keyboard) < MaxPending /\ keyboard' = Append(keyboard, k)
  /\ pc' = IF pc = "halted" THEN "poll" ELSE pc
  /\ UNCHANGED <<serial, framebuffer, term, command, done, erased>>

SerialArrives(k) ==
  /\ keys < MaxKeys /\ keys' = keys + 1
  /\ Len(serial) < MaxPending /\ serial' = Append(serial, k)
  /\ UNCHANGED <<keyboard, framebuffer, term, command, pc, done, erased>>

Tick ==
  /\ pc = "halted" /\ pc' = "poll"
  /\ UNCHANGED <<input, framebuffer, term, command, done, erased>>
-----------------------------------------------------------------------------
(* The loop *)

\* kernel_console_execute_command: what it prints, shortened to a letter between newlines.
execute_command(t, c) ==
  IF c = << >> \/ c = Exit THEN t ELSE write_string(t, <<"\n", CHOOSE l \in Letters : TRUE, "\n">>)

EnterKey ==
  LET ran == execute_command(putchar(term, "\n"), command)
  IN  /\ done' = (command = Exit)
      /\ command' = IF done' THEN command ELSE << >>
      /\ erased' = IF done' THEN erased ELSE FALSE
      /\ term' = IF done' THEN ran ELSE PrintPrompt(ran)

EraseKey ==
  /\ command' = IF command = << >> THEN command ELSE Front(command)
  /\ term' = IF command = << >> THEN term ELSE putchar(term, "BS")
  /\ erased' = (erased \/ command # << >>)
  /\ UNCHANGED done

EchoAnyway(k) ==
  /\ command' = IF Len(command) < CommandMax THEN Append(command, k) ELSE command
  /\ term' = putchar(term, k)
  /\ UNCHANGED <<done, erased>>

LetterKey(k) ==
  /\ command' = IF Len(command) < CommandMax THEN Append(command, k) ELSE command
  /\ term' = IF Len(command) < CommandMax THEN putchar(term, k) ELSE term
  /\ UNCHANGED <<done, erased>>

Handle(k) ==
  \/ /\ k = "ESC" /\ done' = TRUE
     /\ UNCHANGED <<term, command, erased>>
  \/ /\ k # "ESC" /\ framebuffer
     /\ UNCHANGED <<term, command, done, erased>>
  \/ k = "\n" /\ ~framebuffer /\ EnterKey
  \/ k = "BS" /\ ~framebuffer /\ EraseKey
  \/ k \in Letters /\ ~framebuffer /\ LetterKey(k)

PollKeyboardOnly ==
  /\ pc = "poll" /\ ~done
  /\ \/ /\ keyboard # << >>
        /\ Handle(Head(keyboard))
        /\ keyboard' = Tail(keyboard)
        /\ UNCHANGED <<serial, pc>>
     \/ /\ keyboard = << >>
        /\ pc' = "halt"
        /\ UNCHANGED <<keyboard, serial, term, command, done, erased>>
  /\ UNCHANGED <<keys, framebuffer>>

\* One turn of the loop: the keyboard first, then the serial line, else hlt is next.
Poll ==
  /\ pc = "poll" /\ ~done
  /\ \/ /\ keyboard # << >>
        /\ Handle(Head(keyboard))
        /\ keyboard' = Tail(keyboard)
        /\ UNCHANGED <<serial, pc>>
     \/ /\ keyboard = << >> /\ serial # << >>
        /\ Handle(Head(serial))
        /\ serial' = Tail(serial)
        /\ UNCHANGED <<keyboard, pc>>
     \/ /\ keyboard = << >> /\ serial = << >>
        /\ pc' = "halt"
        /\ UNCHANGED <<keyboard, serial, term, command, done, erased>>
  /\ UNCHANGED <<keys, framebuffer>>

\* A byte that arrived since the poll does not keep the processor awake.
Halt ==
  /\ pc = "halt" /\ pc' = "halted"
  /\ UNCHANGED <<input, framebuffer, term, command, done, erased>>

Next ==
  \/ \E k \in Inputs : KeyArrives(k) \/ SerialArrives(k)
  \/ Tick \/ Poll \/ Halt

\* The timer ticks for ever, and nothing else competes with the loop for the processor.
Spec == Init /\ [][Next]_vars /\ WF_vars(Tick) /\ WF_vars(Poll) /\ WF_vars(Halt)
-----------------------------------------------------------------------------
(* The cursor never leaves the screen and the command never outgrows its   *)
(* buffer, whatever is typed and printed (tty.c:123-134, console.c:248).   *)
TypeOK ==
  /\ keyboard \in Seq(Inputs) /\ serial \in Seq(Inputs) /\ keys \in 0..MaxKeys
  /\ framebuffer \in BOOLEAN /\ done \in BOOLEAN /\ erased \in BOOLEAN
  /\ pc \in {"poll", "halt", "halted"}
  /\ term \in Terminals
  /\ command \in Seq(Letters) /\ Len(command) <= CommandMax

Echo == TextBefore(term, Len(command))

(* While nothing on the line has been erased, the characters before the    *)
(* cursor spell the command buffer and follow the prompt, across the line  *)
(* wraps and scrolls of the echo (console.c:246-252, tty.c:117-134).       *)
EchoSpellsCommand ==
  ~framebuffer /\ ~done /\ ~erased
    => TextBefore(term, Len(command) + 2) = <<">", Blank>> \o command

(* The terminal erases the last character written wherever the cursor is,  *)
(* on the line before too, and after a scroll (tty.c:103-116).             *)
EraseUndoesWrite ==
  \A c \in Letters :
    LET wrote == putchar(term, c)
        back  == putchar(wrote, "DEL")
        n     == Position(back)
    IN  /\ TextBefore(wrote, n + 1) = Append(TextBefore(back, n), c)
        /\ back.cell[<<back.row, back.col>>] = Blank

(* After a backspace the screen shows the command as it now is: what will  *)
(* run is what is displayed.                                               *)
BackspaceShown == ~framebuffer /\ ~done => Echo = command

(* Every byte that arrives is taken by the loop, although the test for     *)
(* pending input and hlt are separate and the serial line raises no        *)
(* interrupt: the next timer tick ends the halt (console.c:199-260).       *)
InputServed ==
  /\ (keyboard # << >>) ~> (keyboard = << >> \/ done)
  /\ (serial # << >>) ~> (serial = << >> \/ done)
=============================================================================
