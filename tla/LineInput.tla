----------------------------- MODULE LineInput -----------------------------
(***************************************************************************)
(* Lines typed at the keyboard: getchar and read_Terminal (student-distrib *)
(* /keyboard.c) and the part of switch_terminal (multiprocess.c) that      *)
(* exchanges the line of the terminal on screen.                           *)
(*                                                                         *)
(* read_Terminal turns interrupts on, so a key can arrive between any two  *)
(* of its steps; the build does not optimise, so each step goes to memory. *)
(* Each terminal runs one program, and only the one on screen proceeds: an *)
(* interrupted read stays where it is until its terminal is back.          *)
(*                                                                         *)
(* A character is the terminal it was typed on and the key: which of the   *)
(* four tables shift and caps lock select is left out, and so is the       *)
(* cursor.  Backspace on a full line also overwrites the byte behind the   *)
(* array, which is no part of the state modelled here.                     *)
(***************************************************************************)
EXTENDS Integers, Sequences, SequencesExt

CONSTANTS
    BUFFER_SIZE,    \* 128
    Terminals,
    Readers,        \* terminals whose programs read
    Keys            \* printable keys

ASSUME BufferAssumption == BUFFER_SIZE \in Nat \ {0}
ASSUME ScreenAssumption == 0 \in Terminals /\ Readers \subseteq Terminals

Zero == "0"         \* '\0'
Blank == " "
NewLine == "n"
Untouched == "u"    \* a byte of the program's buffer that read left alone
Typed(t) == {t} \X Keys
Bytes == Terminals \X Keys \cup {<<Zero>>, <<Blank>>, <<NewLine>>, <<Untouched>>}

VARIABLES
    buffer, buffer_Size, enter_flag,            \* globals of keyboard.c
    buffer_flag,                                \* the terminal on screen
    saved_keyboard_buffer, cur_buffer_Size,     \* of three_term_buf[t]
    pc,         \* where the read of t stands, "idle" outside read_Terminal
    buf,        \* the buffer the program of t passed
    numberOfBytesRead, i,                       \* locals of the read of t
    \* history: what was typed on t since its last read, with its corrections;
    \* whether a key came while the read of t was copying
    line, disturbed

kbd == <<buffer, buffer_Size, enter_flag>>
saved == <<saved_keyboard_buffer, cur_buffer_Size>>
reads == <<pc, buf, numberOfBytesRead, i>>
vars == <<kbd, buffer_flag, saved, reads, line, disturbed>>

Init ==
    /\ buffer = [j \in 0 .. BUFFER_SIZE - 1 |-> <<Zero>>]
    /\ buffer_Size = 0
    /\ enter_flag = 0
    /\ buffer_flag = 0
    /\ saved_keyboard_buffer = [t \in Terminals |-> [j \in 0 .. BUFFER_SIZE - 1 |-> <<Zero>>]]
    /\ cur_buffer_Size = [t \in Terminals |-> 0]
    /\ pc = [t \in Terminals |-> "idle"]
    /\ buf = [t \in Terminals |-> [j \in 0 .. BUFFER_SIZE |-> <<Untouched>>]]
    /\ numberOfBytesRead = [t \in Terminals |-> 0]
    /\ i = [t \in Terminals |-> 0]
    /\ line = [t \in Terminals |-> <<>>]
    /\ disturbed = [t \in Terminals |-> FALSE]

-----------------------------------------------------------------------------
(***************************************************************************)
(* getchar, by key.  Modifier keys and those it ignores change nothing     *)
(* modelled here.                                                          *)
(***************************************************************************)
\* The read of the terminal on screen is past its wait.
Copying == pc[buffer_flag] \notin {"idle", "spin", "woken"}

\* The line on screen becomes l in the history.
LineBecomes(l) ==
    /\ line' = [line EXCEPT ![buffer_flag] = l]
    /\ disturbed' = [disturbed EXCEPT ![buffer_flag] = @ \/ Copying]

\* buffer[j] = byte
Put(j, byte) == buffer' = [x \in DOMAIN buffer |-> IF x = j THEN byte ELSE buffer[x]]

Enter ==
    /\ enter_flag' = 1
    /\ UNCHANGED <<buffer, buffer_Size, buffer_flag, saved, reads, line, disturbed>>

RoomInBuffer_OneMore == buffer_Size <= BUFFER_SIZE   \* mutant: off by one

RoomInBuffer == buffer_Size < BUFFER_SIZE

\* A printable key, also the key l without Ctrl.
Printable(k) ==
    /\ RoomInBuffer
    /\ Put(buffer_Size, <<buffer_flag, k>>)
    /\ buffer_Size' = buffer_Size + 1
    /\ LineBecomes(Append(line[buffer_flag], <<buffer_flag, k>>))
    /\ UNCHANGED <<enter_flag, buffer_flag, saved, reads>>

Backspace ==
    /\ buffer_Size > 0
    /\ Put(buffer_Size, <<Blank>>)
    /\ buffer_Size' = buffer_Size - 1
    /\ LineBecomes(Front(line[buffer_flag]))
    /\ UNCHANGED <<enter_flag, buffer_flag, saved, reads>>

\* mutant: the screen is cleared and a pending Enter with it
CtrlL_DropsEnter ==
    /\ buffer_Size' = 0
    /\ enter_flag' = 0
    /\ LineBecomes(<<>>)
    /\ UNCHANGED <<buffer, buffer_flag, saved, reads>>

CtrlL ==
    /\ buffer_Size' = 0
    /\ LineBecomes(<<>>)
    /\ UNCHANGED <<buffer, enter_flag, buffer_flag, saved, reads>>

\* mutant: the last character is not saved
fill_buffer_Short(old) ==
    [j \in DOMAIN old |-> IF j < buffer_Size - 1 THEN buffer[j] ELSE old[j]]

\* Only the characters of the line are saved.
fill_buffer(old) ==
    [j \in DOMAIN old |-> IF j < buffer_Size THEN buffer[j] ELSE old[j]]

\* mutant: only the line is brought back, as only the line was saved
Restore_LineOnly(n) ==
    /\ buffer' = [j \in DOMAIN buffer |->
                    IF j < cur_buffer_Size[n] THEN saved_keyboard_buffer[n][j] ELSE buffer[j]]
    /\ buffer_Size' = cur_buffer_Size[n]

\* All of the array is brought back.
Restore(n) ==
    /\ buffer' = saved_keyboard_buffer[n]
    /\ buffer_Size' = cur_buffer_Size[n]

\* Alt+F1..F3; the switch of processes is in module ProcessTerminals.
SwitchTerminal(n) ==
    /\ n # buffer_flag
    /\ saved_keyboard_buffer' =
           [saved_keyboard_buffer EXCEPT ![buffer_flag] = fill_buffer(@)]
    /\ cur_buffer_Size' = [cur_buffer_Size EXCEPT ![buffer_flag] = buffer_Size]
    /\ Restore(n)
    /\ buffer_flag' = n
    /\ UNCHANGED <<enter_flag, reads, line, disturbed>>

-----------------------------------------------------------------------------
(***************************************************************************)
(* read_Terminal, by the program of the terminal on screen.                *)
(***************************************************************************)
At(here) == pc[buffer_flag] = here
Goto(there) == pc' = [pc EXCEPT ![buffer_flag] = there]
n == numberOfBytesRead[buffer_flag]

CallRead ==
    /\ At("idle") /\ Goto("spin")
    /\ buffer_flag \in Readers
    /\ UNCHANGED <<kbd, buffer_flag, saved, buf, numberOfBytesRead, i, line, disturbed>>

\* while (enter_flag == 0)
Wake ==
    /\ At("spin") /\ Goto("woken")
    /\ enter_flag = 1
    /\ UNCHANGED <<kbd, buffer_flag, saved, buf, numberOfBytesRead, i, line, disturbed>>

TakeEnter ==
    /\ At("woken") /\ Goto("test")
    /\ enter_flag' = 0
    /\ numberOfBytesRead' = [numberOfBytesRead EXCEPT ![buffer_flag] = 0]
    /\ UNCHANGED <<buffer, buffer_Size, buffer_flag, saved, buf, i, line, disturbed>>

\* mutant: the last character is not copied
CopyTest_Short ==
    /\ At("test") /\ Goto(IF n + 1 < buffer_Size THEN "copy" ELSE "newline")
    /\ UNCHANGED <<kbd, buffer_flag, saved, buf, numberOfBytesRead, i, line, disturbed>>

CopyTest ==
    /\ At("test") /\ Goto(IF n < buffer_Size THEN "copy" ELSE "newline")
    /\ UNCHANGED <<kbd, buffer_flag, saved, buf, numberOfBytesRead, i, line, disturbed>>

CopyByte ==
    /\ At("copy") /\ Goto("test")
    /\ buf' = [buf EXCEPT ![buffer_flag][n] = buffer[n]]
    /\ numberOfBytesRead' = [numberOfBytesRead EXCEPT ![buffer_flag] = @ + 1]
    /\ UNCHANGED <<kbd, buffer_flag, saved, i, line, disturbed>>

PutNewLine ==
    /\ At("newline") /\ Goto("clear")
    /\ buf' = [buf EXCEPT ![buffer_flag][buffer_Size] = <<NewLine>>]
    /\ numberOfBytesRead' = [numberOfBytesRead EXCEPT ![buffer_flag] = @ + 1]
    /\ i' = [i EXCEPT ![buffer_flag] = 0]
    /\ UNCHANGED <<kbd, buffer_flag, saved, line, disturbed>>

\* One round of the loop that clears the buffer.
ClearByte ==
    /\ At("clear")
    /\ i[buffer_flag] < buffer_Size
    /\ Put(i[buffer_flag], <<Zero>>)
    /\ i' = [i EXCEPT ![buffer_flag] = @ + 1]
    /\ UNCHANGED <<buffer_Size, enter_flag, buffer_flag, saved, pc, buf,
                   numberOfBytesRead, line, disturbed>>

ClearDone ==
    /\ At("clear") /\ Goto("reset")
    /\ i[buffer_flag] >= buffer_Size
    /\ UNCHANGED <<kbd, buffer_flag, saved, buf, numberOfBytesRead, i, line, disturbed>>

\* buffer_Size = 0 and the return; what was typed since the copy is dropped.  The
\* program takes the bytes and passes an empty buffer the next time.
ResetSize ==
    /\ At("reset") /\ Goto("idle")
    /\ buffer_Size' = 0
    /\ line' = [line EXCEPT ![buffer_flag] = <<>>]
    /\ buf' = [buf EXCEPT ![buffer_flag] = [j \in DOMAIN @ |-> <<Untouched>>]]
    /\ numberOfBytesRead' = [numberOfBytesRead EXCEPT ![buffer_flag] = 0]
    /\ i' = [i EXCEPT ![buffer_flag] = 0]
    /\ disturbed' = [disturbed EXCEPT ![buffer_flag] = FALSE]
    /\ UNCHANGED <<buffer, enter_flag, buffer_flag, saved>>

Read == Wake \/ TakeEnter \/ CopyTest \/ CopyByte \/ PutNewLine \/ ClearByte \/ ClearDone \/ ResetSize

Next ==
    \/ Enter
    \/ \E k \in Keys : Printable(k)
    \/ Backspace
    \/ CtrlL
    \/ \E t \in Terminals : SwitchTerminal(t)
    \/ CallRead
    \/ Read

Spec == Init /\ [][Next]_vars

\* Between two keys the interrupted program runs on.
FairSpec == Spec /\ WF_vars(Read)

-----------------------------------------------------------------------------
TypeOK ==
    /\ buffer \in [0 .. BUFFER_SIZE - 1 -> Bytes]
    /\ buffer_Size \in 0 .. BUFFER_SIZE
    /\ enter_flag \in {0, 1}
    /\ buffer_flag \in Terminals
    /\ saved_keyboard_buffer \in [Terminals -> [0 .. BUFFER_SIZE - 1 -> Bytes]]
    /\ cur_buffer_Size \in [Terminals -> 0 .. BUFFER_SIZE]
    /\ pc \in [Terminals -> {"idle", "spin", "woken", "test", "copy", "newline", "clear", "reset"}]
    /\ buf \in [Terminals -> [0 .. BUFFER_SIZE -> Bytes]]
    /\ numberOfBytesRead \in [Terminals -> 0 .. BUFFER_SIZE + 1]
    /\ i \in [Terminals -> 0 .. BUFFER_SIZE]
    /\ disturbed \in [Terminals -> BOOLEAN]

\* The line of terminal t as the kernel has it.
SizeOf(t) == IF t = buffer_flag THEN buffer_Size ELSE cur_buffer_Size[t]
CharOf(t, j) == IF t = buffer_flag THEN buffer[j] ELSE saved_keyboard_buffer[t][j]

\* Every terminal's unread line is what was typed on it, whatever was typed, read
\* and cleared on the other terminals in the meantime and however often the user
\* went to and fro (getchar, fill_buffer and switch_terminal share one buffer).
LinesKept ==
    \A t \in Terminals :
        /\ SizeOf(t) = Len(line[t])
        /\ pc[t] \notin {"clear", "reset"} =>
              \A j \in 1 .. Len(line[t]) : CharOf(t, j - 1) = line[t][j]

\* A read during whose copying no key changed the line delivers the line and a
\* newline, and counts them, even if the user looked at other terminals between
\* any two steps of it (read_Terminal).
ReadDeliversLine ==
    \A t \in Terminals :
        pc[t] \in {"clear", "reset"} /\ ~disturbed[t] =>
            /\ numberOfBytesRead[t] = Len(line[t]) + 1
            /\ \A j \in 1 .. Len(line[t]) : buf[t][j - 1] = line[t][j]
            /\ buf[t][Len(line[t])] = <<NewLine>>

\* No read, disturbed or not, delivers a character typed on another terminal:
\* this is why switch_terminal brings back all of the array and not only the
\* line, for a copy may be interrupted between its test and its access.
NoForeignBytes ==
    \A t \in Terminals, j \in 0 .. BUFFER_SIZE :
        \A u \in Terminals \ {t} : buf[t][j] \notin Typed(u)

\* A read of the terminal on screen ends after Enter, however the user goes on
\* typing and correcting, unless another terminal is brought on screen first.
EnterEndsRead ==
    \A t \in Terminals :
        buffer_flag = t /\ pc[t] = "spin" /\ enter_flag = 1
            ~> pc[t] = "idle" \/ buffer_flag # t
=============================================================================
