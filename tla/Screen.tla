------------------------------- MODULE Screen -------------------------------
(***************************************************************************)
(* The text screen: what getchar (student-distrib/keyboard.c), write_      *)
(* Terminal (terminal.c), printf (lib.c) and switch_terminal (multi-       *)
(* process.c) do to the page of video memory, to the position x, y of the  *)
(* next character and to the hardware cursor.                              *)
(*                                                                         *)
(* A cell is blank or a character with the terminal on screen when it was  *)
(* written, which is also what selects its colour; other attributes are    *)
(* left out.  System calls and getchar run with interrupts off, so each is *)
(* one action; a program's output is written byte by byte, a longer write  *)
(* being a run of such steps.  Two things go on with interrupts on, and    *)
(* keys and switches come between their steps: read_Terminal, from its sti *)
(* to the emptied buffer, and the printf of an exception.  Which bytes a   *)
(* read delivers is in module LineInput, which programs run in             *)
(* ProcessTerminals.                                                       *)
(*                                                                         *)
(* The page holds more cells than the screen shows (2048, 2000 of them     *)
(* visible).  A character behind the page is a page fault in the kernel,   *)
(* where this module ends (module ExceptionHalt has what follows).         *)
(***************************************************************************)
EXTENDS Integers, Sequences

CONSTANTS
    TERMINAL_WIDTH,     \* 80
    TERMINAL_HEIGHT,    \* 24, the number of the last row
    PAGE_CELLS,         \* 2048
    BUFFER_SIZE,        \* 128
    Terminals,
    Letters, Symbols, Backslash, Plain,     \* printable keys, by their table entries
    KeysOn,             \* the keys pressed while terminal t is on screen
    Busy                \* terminals whose programs run while on screen

NUM_COLS == TERMINAL_WIDTH
NUM_ROWS == TERMINAL_HEIGHT + 1
Visible == NUM_ROWS * NUM_COLS

ASSUME SizeAssumption ==
    /\ TERMINAL_WIDTH \in Nat \ {0, 1} /\ TERMINAL_HEIGHT \in Nat \ {0}
    /\ PAGE_CELLS \in Nat /\ Visible < PAGE_CELLS
    /\ BUFFER_SIZE \in Nat
ASSUME TerminalAssumption == Terminals \subseteq 0 .. 2 /\ 0 \in Terminals

Printables == Letters \cup Symbols \cup Backslash \cup Plain \cup {"l"}
Blank == <<"blank">>
Chars == Printables \X {"low", "high", "question"} \cup {<<"output">>}
Cells == {Blank} \cup Terminals \X Chars
NUL == <<"NUL">>                \* a byte of the line that a read has cleared
Bytes == Chars \cup {NUL}
Page == 0 .. PAGE_CELLS - 1

VARIABLES
    vid,                        \* the page at VIDEO
    x, y,                       \* keyboard.c: where the next character goes
    screen_x, screen_y,         \* lib.c: where printf goes on
    fault,                      \* a character was written behind the page
    cursor,                     \* the hardware cursor
    line,                       \* buffer[0 .. buffer_Size - 1]
    enter_flag, buffer_flag,
    capsLockFlag, shiftKeyHoldDown, ctrlKeyHoldDown, altKeyFlag,
    saved,                      \* three_term_buf[t]: video_mem_hist, pos_x, pos_y and the line
    reading,                    \* t: its program is in read_Terminal, behind the wait
    cleared,                    \* t: the bytes of the line that read has cleared
    printing,                   \* t: page_fault has printed the address, not its newline
    \* history: the characters typed on t since its last output and still shown
    \* before x, y; whether a read emptied the buffer behind them; whether a shell
    \* was restarted and nothing moved the cursor since
    echoed, emptied, restarted

screen == <<vid, x, y, screen_x, screen_y, fault>>
modifiers == <<capsLockFlag, shiftKeyHoldDown, ctrlKeyHoldDown, altKeyFlag>>
program == <<reading, cleared, printing>>
echo == <<echoed, emptied>>
vars == <<screen, cursor, line, enter_flag, buffer_flag, modifiers, saved, program, echo, restarted>>

-----------------------------------------------------------------------------
(***************************************************************************)
(* The screen as a value, and what one character does to it.               *)
(***************************************************************************)
Scr == [vid |-> vid, x |-> x, y |-> y, screen_x |-> screen_x, screen_y |-> screen_y, fault |-> fault]

Shows(s) ==
    /\ vid' = s.vid /\ x' = s.x /\ y' = s.y /\ fault' = s.fault
    /\ screen_x' = s.screen_x /\ screen_y' = s.screen_y

Cell(px, py) == py * TERMINAL_WIDTH + px
Text(c) == <<buffer_flag, c>>

\* *where = c
PutCell(s, c, where) ==
    [s EXCEPT !.vid = [i \in Page |-> IF i = where THEN c ELSE s.vid[i]],
              !.fault = s.fault \/ where >= PAGE_CELLS]

WriteCharacter(s, c, px, py) == PutCell(s, c, Cell(px, py))

\* The visible cells only.
clear(v) == [i \in Page |-> IF i < Visible THEN Blank ELSE v[i]]

\* Called in the row behind the last one.
scroll(s) ==
    [s EXCEPT !.vid = [i \in Page |->
                          IF i < TERMINAL_HEIGHT * TERMINAL_WIDTH THEN s.vid[i + TERMINAL_WIDTH]
                          ELSE IF i < Visible THEN Blank ELSE s.vid[i]],
              !.y = s.y - 1]

ScrollPastEnd(s) == IF s.y = TERMINAL_HEIGHT + 1 THEN scroll(s) ELSE s

NewLine(s) == ScrollPastEnd([s EXCEPT !.x = 0, !.y = s.y + 1])

\* mutant: a typed character in the last column opens a row below the screen
Echo_PastEnd(s, c) ==
    LET w == WriteCharacter(s, Text(c), s.x, s.y) IN
    IF s.x + 1 = TERMINAL_WIDTH
    THEN [w EXCEPT !.x = 0, !.y = s.y + 1]
    ELSE [w EXCEPT !.x = s.x + 1]

\* A typed character: in the last row it does not wrap.
Echo(s, c) ==
    LET w == WriteCharacter(s, Text(c), s.x, s.y) IN
    IF s.x + 1 = TERMINAL_WIDTH /\ s.y < TERMINAL_HEIGHT
    THEN [w EXCEPT !.x = 0, !.y = s.y + 1]
    ELSE [w EXCEPT !.x = s.x + 1]

\* One byte of write_Terminal, whose first lines bring y back on the screen.
OnScreen(s) ==
    ScrollPastEnd(IF s.y = TERMINAL_HEIGHT + 2 THEN [s EXCEPT !.y = s.y - 1] ELSE s)

WriteNewLine(s) == NewLine(OnScreen(s))

WriteByte(s, c) ==
    LET o == OnScreen(s)
        w == WriteCharacter(o, Text(c), o.x, o.y)
    IN  IF o.x + 1 = TERMINAL_WIDTH /\ o.y < TERMINAL_HEIGHT + 1
        THEN ScrollPastEnd([w EXCEPT !.x = 0, !.y = o.y + 1])
        ELSE [w EXCEPT !.x = o.x + 1]

\* A newline takes screen_y behind the last row; the character after it is
\* written there and only then is screen_y brought back.
putc(s, c) ==
    LET w == PutCell(s, Text(c), NUM_COLS * s.screen_y + s.screen_x)
    IN  [w EXCEPT !.screen_x = (s.screen_x + 1) % NUM_COLS,
                  !.screen_y = s.screen_y % NUM_ROWS]

putc_newline(s) == [s EXCEPT !.screen_x = 0, !.screen_y = s.screen_y + 1]

Init ==
    /\ vid = [i \in Page |-> Blank]
    /\ x = 0 /\ y = 0 /\ cursor = 0
    /\ screen_x = 0 /\ screen_y \in 1 .. NUM_ROWS      \* after the lines printed at boot
    /\ fault = FALSE
    /\ line = <<>>
    /\ enter_flag = 0 /\ buffer_flag = 0
    /\ capsLockFlag = 0 /\ shiftKeyHoldDown = 0 /\ ctrlKeyHoldDown = 0 /\ altKeyFlag = 0
    /\ saved = [t \in Terminals |->
                  [video_mem_hist |-> [i \in Page |-> Blank], pos_x |-> 0, pos_y |-> 0, line |-> <<>>]]
    /\ reading = [t \in Terminals |-> FALSE]
    /\ cleared = [t \in Terminals |-> 0]
    /\ printing = [t \in Terminals |-> FALSE]
    /\ echoed = [t \in Terminals |-> 0]
    /\ emptied = [t \in Terminals |-> FALSE]
    /\ restarted = FALSE

-----------------------------------------------------------------------------
(***************************************************************************)
(* getchar, by key.  Tab, the keys without a case of their own effect and  *)
(* releases of printable keys change nothing.                              *)
(***************************************************************************)
Key(k) == ~fault /\ k \in KeysOn[buffer_flag]

fb_move_cursor ==
    /\ cursor' = Cell(x', y')
    /\ restarted' = FALSE

Set(f, v) == [f EXCEPT ![buffer_flag] = v]      \* for the terminal on screen

EchoedBecomes(n) == echoed' = Set(echoed, n) /\ UNCHANGED emptied
EchoEnds == echoed' = Set(echoed, 0) /\ emptied' = Set(emptied, FALSE)

Enter ==
    /\ Key("ENTER")
    /\ enter_flag' = 1
    /\ Shows(NewLine(Scr))
    /\ fb_move_cursor
    /\ EchoEnds
    /\ UNCHANGED <<line, buffer_flag, modifiers, saved, program>>

\* A modifier key moves nothing on the screen.
Modifier(k) ==
    /\ Key(k)
    /\ UNCHANGED <<screen, cursor, line, enter_flag, buffer_flag, saved, program, echo, restarted>>

CapsLock ==
    /\ Modifier("CAPSLOCK")
    /\ capsLockFlag' = 1 - capsLockFlag
    /\ UNCHANGED <<shiftKeyHoldDown, ctrlKeyHoldDown, altKeyFlag>>

\* One flag for both shift keys, one for both Ctrl and one for both Alt keys.
Shift ==
    /\ \/ Modifier("SHIFT_PRESSED") /\ shiftKeyHoldDown' = 1
       \/ Modifier("SHIFT_RELEASED") /\ shiftKeyHoldDown' = 0
    /\ UNCHANGED <<capsLockFlag, ctrlKeyHoldDown, altKeyFlag>>

Ctrl ==
    /\ \/ Modifier("CNTRL_PRESSED") /\ ctrlKeyHoldDown' = 1
       \/ Modifier("CNTRL_RELEASED") /\ ctrlKeyHoldDown' = 0
    /\ UNCHANGED <<capsLockFlag, shiftKeyHoldDown, altKeyFlag>>

Alt ==
    /\ \/ Modifier("RALT_PRESSED") /\ altKeyFlag' = 1
       \/ Modifier("RALT_RELEASED") /\ altKeyFlag' = 0
    /\ UNCHANGED <<capsLockFlag, shiftKeyHoldDown, ctrlKeyHoldDown>>

\* The four tables, as to the upper or lower character of the key; the tables for
\* shift differ in the backslash key.
kbdus(k) == <<k, "low">>
capitalCharacters(k) == IF k \in Letters THEN <<k, "high">> ELSE <<k, "low">>
shiftCharacters(k) ==
    IF k \in Backslash THEN <<k, "question">> ELSE IF k \in Plain THEN <<k, "low">> ELSE <<k, "high">>
shiftAndCaps(k) == IF k \in Symbols THEN <<k, "high">> ELSE <<k, "low">>

\* The character takes its place on the line and on the screen.
Typed(c) ==
    /\ Len(line) < BUFFER_SIZE
    /\ line' = Append(line, c)
    /\ Shows(Echo(Scr, c))
    /\ fb_move_cursor
    /\ EchoedBecomes(echoed[buffer_flag] + 1)
    /\ UNCHANGED <<enter_flag, buffer_flag, modifiers, saved, program>>

Printable(k) ==
    /\ Key(k)
    /\ x < TERMINAL_WIDTH + 1 /\ y < TERMINAL_HEIGHT + 1
    /\ Typed(CASE shiftKeyHoldDown = 0 /\ capsLockFlag = 0 -> kbdus(k)
               [] shiftKeyHoldDown = 0 /\ capsLockFlag = 1 -> capitalCharacters(k)
               [] shiftKeyHoldDown = 1 /\ capsLockFlag = 0 -> shiftCharacters(k)
               [] shiftKeyHoldDown = 1 /\ capsLockFlag = 1 -> shiftAndCaps(k))

\* The key l has a case of its own, which does not test the position.
KeyL ==
    /\ Key("l")
    /\ ctrlKeyHoldDown = 0
    /\ Typed(<<"l", IF capsLockFlag = shiftKeyHoldDown THEN "low" ELSE "high">>)

CtrlL ==
    /\ Key("l")
    /\ ctrlKeyHoldDown = 1
    /\ Shows([Scr EXCEPT !.vid = clear(vid), !.x = 0, !.y = 0])
    /\ line' = <<>>
    /\ fb_move_cursor
    /\ EchoEnds
    /\ UNCHANGED <<enter_flag, buffer_flag, modifiers, saved, program>>

\* mutant: back to the row above, but behind its last column
Rubout_Behind(s) ==
    IF s.x > 0
    THEN [WriteCharacter(s, Blank, s.x - 1, s.y) EXCEPT !.x = s.x - 1]
    ELSE [WriteCharacter(s, Blank, TERMINAL_WIDTH, s.y - 1)
            EXCEPT !.x = TERMINAL_WIDTH, !.y = s.y - 1]

Rubout(s) ==
    IF s.x > 0
    THEN [WriteCharacter(s, Blank, s.x - 1, s.y) EXCEPT !.x = s.x - 1]
    ELSE [WriteCharacter(s, Blank, TERMINAL_WIDTH - 1, s.y - 1)
            EXCEPT !.x = TERMINAL_WIDTH - 1, !.y = s.y - 1]

\* At 0, 0 the line keeps its character.  charactersOnScreen and tabbed are never
\* set, so their cases do not arise.
Backspace ==
    /\ Key("BACKSPACE")
    /\ IF Len(line) > 0 /\ ~(x = 0 /\ y = 0)
       THEN /\ line' = SubSeq(line, 1, Len(line) - 1)
            /\ Shows(Rubout(Scr))
            /\ EchoedBecomes(IF echoed[buffer_flag] > 0 THEN echoed[buffer_flag] - 1 ELSE 0)
       ELSE UNCHANGED <<line, screen, echo>>
    /\ fb_move_cursor
    /\ UNCHANGED <<enter_flag, buffer_flag, modifiers, saved, program>>

-----------------------------------------------------------------------------
(***************************************************************************)
(* Alt+F1..F3.                                                             *)
(***************************************************************************)
FKey(n) == <<"F1", "F2", "F3">>[n + 1]

SavedTerminal ==
    [saved EXCEPT ![buffer_flag] = [video_mem_hist |-> vid, pos_x |-> x, pos_y |-> y, line |-> line]]

\* mutant: only the cells that are shown are brought back
BroughtBack_Visible(n) ==
    [i \in Page |-> IF i < Visible THEN saved[n].video_mem_hist[i] ELSE vid[i]]

BroughtBack(n) == saved[n].video_mem_hist

\* All of the page is saved and brought back, and the cursor moves.
switch_terminal(n) ==
    /\ Key(FKey(n))
    /\ altKeyFlag = 1 /\ buffer_flag # n
    /\ saved' = SavedTerminal
    /\ Shows([Scr EXCEPT !.vid = BroughtBack(n), !.x = saved[n].pos_x, !.y = saved[n].pos_y])
    /\ line' = saved[n].line
    /\ buffer_flag' = n
    /\ fb_move_cursor
    /\ UNCHANGED <<enter_flag, modifiers, program, echo>>

\* The table of processes is full and terminal n has no shell: the message, a
\* newline and text, is written whether Alt is held or not.
TableFull(n) ==
    /\ Key(FKey(n))
    /\ Shows(WriteByte(WriteNewLine(Scr), <<"output">>))
    /\ fb_move_cursor
    /\ EchoEnds
    /\ UNCHANGED <<line, enter_flag, buffer_flag, modifiers, saved, program>>

-----------------------------------------------------------------------------
(***************************************************************************)
(* What the program on screen and the kernel on its behalf do.             *)
(***************************************************************************)
Running == ~fault /\ buffer_flag \in Busy /\ ~reading[buffer_flag] /\ ~printing[buffer_flag]

\* mutant: the cursor moves only when the row does
write_Terminal_LazyCursor(newline) ==
    /\ Running
    /\ Shows(IF newline THEN WriteNewLine(Scr) ELSE WriteByte(Scr, <<"output">>))
    /\ IF y' # y THEN fb_move_cursor ELSE UNCHANGED <<cursor, restarted>>
    /\ EchoEnds
    /\ UNCHANGED <<line, enter_flag, buffer_flag, modifiers, saved, program>>

write_Terminal(newline) ==
    /\ Running
    /\ Shows(IF newline THEN WriteNewLine(Scr) ELSE WriteByte(Scr, <<"output">>))
    /\ fb_move_cursor
    /\ EchoEnds
    /\ UNCHANGED <<line, enter_flag, buffer_flag, modifiers, saved, program>>

\* read_Terminal, step by step.  The wait ends; copying the line changes nothing here.
read_Terminal ==
    /\ Running
    /\ enter_flag = 1
    /\ enter_flag' = 0
    /\ reading' = Set(reading, TRUE)
    /\ UNCHANGED <<screen, cursor, line, buffer_flag, modifiers, saved, cleared, printing, echo,
                   restarted>>

\* buffer[i] = '\0'
ClearByte ==
    /\ ~fault /\ reading[buffer_flag]
    /\ cleared[buffer_flag] < Len(line)
    /\ line' = [line EXCEPT ![cleared[buffer_flag] + 1] = NUL]
    /\ cleared' = Set(cleared, cleared[buffer_flag] + 1)
    /\ UNCHANGED <<screen, cursor, enter_flag, buffer_flag, modifiers, saved, reading, printing, echo,
                   restarted>>

\* buffer_Size = 0, whatever was typed since the copy, and the read returns.
EmptyBuffer ==
    /\ ~fault /\ reading[buffer_flag]
    /\ cleared[buffer_flag] >= Len(line)
    /\ line' = <<>>
    /\ reading' = Set(reading, FALSE)
    /\ cleared' = Set(cleared, 0)
    /\ emptied' = Set(emptied, emptied[buffer_flag] \/ echoed[buffer_flag] > 0)
    /\ UNCHANGED <<screen, cursor, enter_flag, buffer_flag, modifiers, saved, printing, echoed,
                   restarted>>

\* One character of the printf of an exception handler, set_handler or sigreturn.
printf ==
    /\ Running
    /\ Shows(putc(Scr, <<"output">>))
    /\ EchoEnds
    /\ UNCHANGED <<cursor, line, enter_flag, buffer_flag, modifiers, saved, program, restarted>>

\* page_fault prints the address on a line of its own.  The page can be the one a
\* read copies to: the read ends with its program.
page_fault ==
    /\ ~fault /\ buffer_flag \in Busy /\ ~printing[buffer_flag]
    /\ cleared[buffer_flag] = 0
    /\ Shows(putc(Scr, <<"output">>))
    /\ EchoEnds
    /\ printing' = Set(printing, TRUE)
    /\ reading' = Set(reading, FALSE)
    /\ UNCHANGED <<cursor, line, enter_flag, buffer_flag, modifiers, saved, cleared, restarted>>

page_fault_newline ==
    /\ ~fault /\ printing[buffer_flag]
    /\ Shows(putc_newline(Scr))
    /\ printing' = Set(printing, FALSE)
    /\ UNCHANGED <<cursor, line, enter_flag, buffer_flag, modifiers, saved, reading, cleared, echo,
                   restarted>>

\* The shell ended with status 0 and its loop starts it again.
RestartShell ==
    /\ Running
    /\ Shows([Scr EXCEPT !.vid = clear(vid), !.x = 0, !.y = 0])
    /\ restarted' = TRUE
    /\ EchoEnds
    /\ UNCHANGED <<cursor, line, enter_flag, buffer_flag, modifiers, saved, program>>

Next ==
    \/ Enter \/ CapsLock \/ Shift \/ Ctrl \/ Alt
    \/ \E k \in Printables \ {"l"} : Printable(k)
    \/ KeyL \/ CtrlL \/ Backspace
    \/ \E n \in Terminals : switch_terminal(n) \/ TableFull(n)
    \/ \E newline \in BOOLEAN : write_Terminal(newline)
    \/ read_Terminal \/ ClearByte \/ EmptyBuffer
    \/ printf \/ page_fault \/ page_fault_newline
    \/ RestartShell

Spec == Init /\ [][Next]_vars

-----------------------------------------------------------------------------
Pages == [Page -> Cells]

\* Where x, y may stand: in every row but the last one within the row, and in the
\* last one or behind its end.
Positions == {p \in Nat \X (0 .. TERMINAL_HEIGHT) :
                p[2] < TERMINAL_HEIGHT => p[1] < TERMINAL_WIDTH}

ScreenTypeOK ==
    /\ vid \in Pages
    /\ <<x, y>> \in Positions
    /\ screen_x \in 0 .. NUM_COLS - 1 /\ screen_y \in Nat
    /\ fault \in BOOLEAN /\ restarted \in BOOLEAN
    /\ cursor \in Nat
    /\ line \in Seq(Bytes) /\ Len(line) <= BUFFER_SIZE
    /\ enter_flag \in {0, 1} /\ buffer_flag \in Terminals
    /\ capsLockFlag \in {0, 1} /\ shiftKeyHoldDown \in {0, 1}
    /\ ctrlKeyHoldDown \in {0, 1} /\ altKeyFlag \in {0, 1}
    /\ \A t \in Terminals :
          /\ saved[t].video_mem_hist \in Pages
          /\ <<saved[t].pos_x, saved[t].pos_y>> \in Positions
          /\ saved[t].line \in Seq(Bytes) /\ Len(saved[t].line) <= BUFFER_SIZE
    /\ reading \in [Terminals -> BOOLEAN] /\ printing \in [Terminals -> BOOLEAN]
    /\ cleared \in [Terminals -> Nat]
    /\ echoed \in [Terminals -> Nat] /\ emptied \in [Terminals -> BOOLEAN]

\* Terminal t as it is on screen, or as it was when it left the screen.
PageOf(t) == IF t = buffer_flag THEN vid ELSE saved[t].video_mem_hist
LineOf(t) == IF t = buffer_flag THEN line ELSE saved[t].line
PosOf(t) == IF t = buffer_flag THEN Cell(x, y) ELSE Cell(saved[t].pos_x, saved[t].pos_y)

\* No terminal's page holds a character written while another terminal was on
\* screen, the part of the page that is not shown included, however keys, output,
\* kernel messages and switches follow each other: everything is written to one
\* video page (WriteCharacter, putc) that switch_terminal copies out and in.
NoForeignText ==
    \A t \in Terminals, i \in Page : PageOf(t)[i] = Blank \/ PageOf(t)[i][1] = t

\* The characters shown before the cursor that were typed since the last output are
\* the end of the line in the buffer, also after the line ran over rows or was typed
\* behind the last column, after Backspaces and after other terminals were on screen
\* (getchar writes buffer and screen apart).  While a read clears the line, this is
\* so of the bytes it has not come to; once it has emptied the buffer, what was typed
\* ahead or meanwhile is still shown but no longer on the line, until output or Enter.
EchoIsLine ==
    ~fault => \A t \in Terminals : ~emptied[t] =>
        LET n == Len(LineOf(t)) IN
        /\ echoed[t] <= n
        /\ \A j \in 0 .. echoed[t] - 1 :
              n - j > cleared[t] => PageOf(t)[PosOf(t) - 1 - j] = <<t, LineOf(t)[n - j]>>

\* The hardware cursor stands where the next character will go, except after a
\* shell was restarted, until the first key or output: the loops of switch_terminal
\* and multi_terminal_init set x and y without moving it.
CursorFollows == ~restarted => cursor = Cell(x, y)
=============================================================================
