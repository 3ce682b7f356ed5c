# TLA+ verification of the WindOS kernel

WindOS is a small 32-bit x86 teaching kernel (`student-distrib/`): one CPU, six
process slots, three virtual terminals, a read-only file system, ten system calls
and no scheduler. The process that runs is the one of the terminal on screen; only
the keys Alt+F1..F3 change it. This directory holds TLA+ models of the parts whose
correctness depends on sequences of calls and on interrupts, TLC configurations that
check them on small instances, and TLAPS proofs for every value of the constants.
`PROJECT.json` lists components, runs, mutants, the correspondence between
definitions and source lines, findings, hazards and theorems.

## Inventory of the system

| part | state it keeps | operations | interacts with |
|---|---|---|---|
| process table (`syscalls.c`) | `PCB_array` (flag, isActive, terminalNumber, parent, saved stack pointers, file array), `current_process_ID`, `parent_process_ID`, `tss.esp0`, the program page | `execute`, `halt`, lookups by terminal | terminals (which terminal a program belongs to), file system (loads the program) |
| virtual terminals (`multiprocess.c`) | `three_term_buf` (context, line, cursor, screen copy), `nxt_term` | `multi_terminal_init`, `switch_terminal`, the loops that run a shell again | called from the keyboard interrupt; calls `execute` |
| keyboard (`keyboard.c`) | `buffer`, `buffer_Size`, `enter_flag`, modifier flags, cursor, `buffer_flag` | `getchar` (interrupt), `read_Terminal` (spins with interrupts on) | terminals, screen |
| exceptions (`IDT.c`, `wrapper.S`) | gate types | one handler per vector, all call `sys_call_halt(1)` | process table |
| file system (`file_sys.c`) | the image, `read_directory_index` | `read_dentry_by_*`, `read_data`, `file_read`, `read_directory` | descriptors, `execute` |
| file descriptors (`syscalls.c`) | `file_array` of each PCB | `open`, `close`, `read`, `write`, `getargs` | file system, clock, terminals |
| screen (`terminal.c`, `keyboard.c`) | video memory, `x`, `y` | `write_Terminal`, `scroll`, `WriteCharacter` | everything that prints |
| clock (`RTC.c`), timer (`PIT.c`), interrupt controller (`i8259.c`) | `RTC_iflag`, device registers | `RTC_Read`, `RTC_Write`, handlers, `send_eoi` | descriptors |
| boot, paging, library, user programs | fixed tables | set-up | |

What is hard here:

* **Agreement of many records.** Which process runs is recorded in five places that
  `execute`, `halt` and `switch_terminal` set by different routes. They must agree
  after every sequence of nested programs and terminal switches.
* **Saved stack pointers.** `halt` and `switch_terminal` return by loading a stack
  pointer that was saved earlier; the frame it points to must still be there.
* **Interrupts.** Interrupt and system-call gates turn interrupts off, but the
  exception gates do not, and `read_Terminal` and `RTC_Read` turn them on again.
* **One keyboard buffer and one Enter flag for three terminals.**
* **Unsigned arithmetic** in `read_data`.
* **Records written in part.** `open`, `close`, `execute` and `halt` each set some of a
  descriptor's fields; the tests of `fd` and `flags` are all that keeps a call from a
  null pointer. The index of the directory is one for all processes.
* **One video page for three terminals**, with positions kept in four places (`x`, `y`;
  the copies in `write_Terminal`; the saved ones; the hardware cursor) and a last row
  whose lines run on behind the screen.
* **Edge-triggered interrupts** that are turned on in the middle of boot, and a handler
  that leaves for another terminal's stack instead of returning.

## Modules

| module | models | state and actions |
|---|---|---|
| `ProcessTerminals` | `execute`, `halt`, `switch_terminal`, the Alt+F keys | the PCB fields as functions of the slot, the globals, the saved contexts. `ExecuteProgram`, `ExecuteInvalid`, `ExecuteFull`, `HaltProgram`, `HaltBaseShell`, `RestartShell`, `StartTerminal`, `ResumeTerminal` |
| `MCProcessTerminals` | | the instance TLC checks, with the refinement |
| `JobStacks` | what the above promises a user | a stack of jobs per terminal: `StartJob`, `EndJob`, `Look`, `OpenTerminal` |
| `ProcessRefinement` | the refinement mapping | jobs of a terminal = the chain of parents that ends in the process its lookup finds |
| `ProcessTerminalsProofs`, `ProcessRefinementProofs` | | TLAPS proofs |
| `ExceptionHalt`, `MCExceptionHalt`, `ExceptionHaltProofs` | the halt of a faulting program, one assignment at a time | extends `ProcessTerminals` with a program counter per terminal: `Fault`, `HaltEsp0`, `HaltField`, `HaltParentID`, `HaltCurrentID`, `HaltReturn`, `InterruptedHalt`, `ResumeLost`; TLAPS proofs |
| `LineInput`, `LineInputProofs` | `getchar`, `read_Terminal`, the exchange of lines in `switch_terminal` | keys by kind, the read step by step; TLAPS proofs |
| `FileRead`, `FileReadProofs` | `file_read`, `read_data` | one action per round of a copying loop; TLAPS proofs |
| `FileDescriptors`, `FileDescriptorsProofs` | `int 0x80`: `open`, `close`, `read`, `write`, `getargs`, `vidmap`, `set_handler`, `sigreturn`, the directory; what `execute` and `halt` do to files and arguments | extends `ProcessTerminals` with `file_array`, `command_global`, `read_directory_index`, `eax`; every step of the process table is taken together with its effect on these: `SYSTEM_CALL_ECE`, `ReadOverrun`, `Execute`, `Halt`, `KernelStep`; TLAPS proofs |
| `UserPrograms`, `MCUserPrograms` | `shell`, `ls`, `grep`, `cat`, `syserr` as clients of those calls | a program, a place and locals per slot; the programs interleave where the user switches terminals; proofs in `FileDescriptorsProofs` |
| `Screen`, `MCScreen`, `ScreenProofs` | `getchar` (echo, tables, modifiers), `write_Terminal`, `scroll`, `clear`, `printf`, the video part of `switch_terminal`, the hardware cursor | the page of video memory, both positions, the saved pages; one action per key, output or message, `read_Terminal` and `page_fault` in steps; TLAPS proofs |
| `Interrupts`, `InterruptsProofs` | boot from `i8259_init` on, both 8259s, timer, clock, keyboard line, `RTC_Read` step by step | the controllers by line, the step of boot, a place per terminal; a handler is one action from acknowledgement to `iret`; TLAPS proofs |

Abstractions, and why they keep what matters:

* A PCB pointer and a kernel stack are their slot number; a saved stack pointer is
  the frame it points to: the slot on whose stack `execute` was called, or
  `BaseFrame(t)` for the shell loop of terminal t. The history variables `home` and
  `popped` record on whose stack the frame of a loop is and whether that stack has been
  unwound since. A return to a frame that is gone leads, nondeterministically, to mode
  `"undefined"`, which ends the behaviour.
* A system call and an interrupt handler are one action: their gates turn interrupts
  off. Code that runs with interrupts on is split into steps (`ExceptionHalt`, `LineInput`,
  `Screen`, `Interrupts`).
* Programs are the choice of the next call. Parsing a command is the choice of a valid
  or an invalid name. A shell only exits with status 0.
* A character is the terminal it was typed on and its key, so that a character on the
  wrong terminal shows. Case tables and cursor are left out.
* A byte of a file is its position, so that a byte in the wrong place shows. In
  `FileDescriptors` a file is only its length: a read delivers what `FileRead` shows of it.
  A read in the middle of a file of 0 bytes, or of a negative number whose sum with the
  position wraps round (`Overruns`), copies on until it faults and the program is halted
  (`ReadOverrun`).
* A name is a sequence of characters, of which `strncmp` looks at `NAMESIZE`; a command is
  the sequence of its words. `execute` takes what is in front of the last blank for the
  name, `getargs` what is behind the first: commands of three words start nothing.
* A read of the terminal or the clock is, among the descriptors, the step in which it
  returns; how it waits is in `LineInput` and `Interrupts`.
* A cell of the screen is blank or a character with the terminal that was on screen when
  it was written (which selects its colour in the code too), so that text on a wrong
  terminal shows. The four tables are modelled by which keys they change. The page holds
  more cells than are visible (2048 and 2000); a character behind the page is a fault in
  the kernel, where `Screen` ends.
* The controllers, the clock's register C and the scancode port are external; they are
  modelled by what the kernel uses of them: edges, priority with the cascade on line 2,
  specific end of interrupt, special mask mode, and that a device raises its line again
  only after it was read.

## Runs

Passing runs:

* `processes` (5 slots, 3 terminals): the agreement of the records (`RunningProcess`),
  the parent relation (`ParentsWait`), the lookup by terminal
  (`OneRunnerPerTerminal`), the saved contexts (`SavedContext`), and that a step other than
  a switch leaves the processes of other terminals alone (`BackgroundUntouched`). The same
  steps implement `JobStacks` (`ImplementsJobStacks`), and every slot in use is on exactly
  one of the stacks (`NoOrphans`). Five slots hold three shells and two programs, or one
  shell and four nested programs: a full table, a table with holes and nested programs on
  two terminals all occur. The properties say nothing of states after a restarted shell
  came back in another slot (`relocated`) - that defect has a run of its own - and the
  search stops there (`HealthySpec`). `VIEW` leaves out what execute last returned.
* `exceptions` (4 slots, 2 terminals): a program faults and the user switches terminals at
  any of the eight points of the halt, any number of times and with halts on both terminals
  at once. Six of the points do the parent no harm: unless a switch came between the
  assignment to `tss.esp0` and the second one to `isActive` (points 2 and 3, history variable
  `cut`), all records agree on the parent when the halt is over, and the process it returns
  to is the one that called `execute` (`RestoredUnlessCut`). Between the two
  disagreements of runs `fault_interrupted` and `stack_reused` lies what the code does
  promise: until its slot is released no other process gets the kernel stack a halt runs on
  (`StackKeptUntilRelease`). The search stops at the first `cut`.
* `file_read` (blocks of 4 bytes, files of up to three and a half blocks, requests
  of 0 to 20 bytes): slices without a gap, right counts, and that reading ends.
  Requests of 0 bytes are made at position 0 only (see `read_nothing`).
* `line_input` (2 terminals, lines of 2 characters, reads on terminal 0): lines are
  kept apart, an undisturbed read delivers its line, no read delivers a character of
  another terminal, and Enter ends the read of the terminal on screen. Two characters
  make full lines, lines corrected below what was copied, and copies interrupted
  between test and access.

* `user_programs` (4 slots, 4 descriptors, 2 terminals, a directory of 8 entries, names
  cut at 3 characters; the program that makes any call also reads 0, -1 and -700 bytes): descriptors of every process are sound (`DescriptorsSound`), no
  call goes through a null pointer (`NoNullCall`), `syserr` passes all its tests
  (`SyserrPasses`), a listing that has the directory to itself is complete
  (`ListsWholeDirectory`), `grep` never runs out of descriptors (`GrepNeverFails`: seven
  files through one descriptor), `cat` prints the file of its own command line
  (`CatPrintsItsFile`), and no step touches the files of another terminal
  (`BackgroundFilesUntouched`). On terminal 0 every program but `ls` is run, on terminal
  1 `ls` and nested shells, so that listings interleave and the table fills. The
  constraint `ListingsApart` keeps two costly cases from being combined with a listing
  that is under way: the program that makes any call and nested shells; `VIEW` leaves out
  what no step reads again (free slots, the saved context of the terminal on screen).
* `screen` (2 rows of 2 columns, a page of 5 cells, lines of 2 characters, 2 terminals):
  positions (`ScreenTypeOK`), no text on a wrong terminal (`NoForeignText`), the characters
  typed and shown before the cursor are the end of the line in the buffer (`EchoIsLine`) and
  the hardware cursor follows (`CursorFollows`). A read of the line takes the Enter, clears
  the bytes and empties the buffer in steps, with keys and switches between any two. What was
  typed after the copy is dropped by the last step and stays on the screen; `emptied` records
  this, and `EchoIsLine` says nothing of the terminal until its next output or Enter. While
  the bytes are cleared it holds for those that are left. `page_fault` prints its address and
  the newline in two steps, so that the messages of two terminals can interleave. Two characters wrap a row, two in the last row go on
  behind it to the cell that is not shown, and the next one faults. Constraints:
  at most one modifier key at a time and at most four characters on both pages, fewer in
  the middle of a read or of a message and under a modifier. Each
  terminal takes the keys the other one does not; only terminal 0 runs programs.
* `interrupts` (2 terminals, any lines pending at power-on, keys at any time): nothing is in
  service when interrupts are on but the keyboard's interrupt after its handler page-faulted
  (`NothingInService`), no device waits with a high line the controller has forgotten
  (`NoEdgeLost`), a read of the clock returns only after a tick of its own
  (`ReadWaitsForTick`) and does return (`TickEndsRead`), keys are taken (`KeysTaken`), and
  once the first shell runs a switch cannot fault (`SwitchSafeAfterBoot`; before that
  it can: an Alt+F key in the last steps of boot copies the screen through pointers not set
  yet). Two kinds of key fault in the handler before its end of interrupt
  (`KEYBOARD_Fault`): l, when its echo falls behind the mapped page, and the F keys
  between `sti` and `init_PCB_array`. Where the echo falls is in `Screen`; here each l may
  fault. `page_fault` halts the program then and `IRQ1` stays in service (`stuck`), after
  which neither keys nor the clock are delivered; the liveness properties end there. A key
  pressed before `i8259_init` loses its edge (`missed`). With two terminals a key finds a
  terminal that is on screen, one that is not and one without a shell, during boot and after.

Runs that show a disagreement between code and comment:

* `shell_loop_popped`: a shell opened by Alt+F lives in a loop inside
  `switch_terminal`, on the kernel stack of the process that was interrupted. When
  that terminal is resumed its stack is unwound; a later `exit` of the shell returns to
  where the loop was.
* `shell_slot_change`: `exit` frees the shell's slot and the loop takes the first free
  one. If a lower slot is free, the new shell is recorded as a child of the old record;
  some steps later the lookup for the terminal finds nothing and returns 69.
* `fault_interrupted`: exceptions are trap gates; a switch of terminals between the
  assignment to `tss.esp0` and those to `isActive` undoes the first.
* `stack_reused`: the slot is free from line 64 on while the halt still runs on that slot's
  kernel stack. Alt+F to another terminal, a program started there, and the stack is lost:
  the switch back goes on with what the other program left (`ResumeLost`).
* `read_nothing`: `read_data` of 0 bytes at an offset above 0 decrements an unsigned 0.

More disagreements need no run and are listed under findings: a full table returns 0
and not -1 and has by then overwritten the caller's arguments, the shell's test for 256
after an exception can never succeed, `read_Terminal` ignores `nbytes`, the directory
index outlives a listing that was cut short, `RTC_Write` ignores its buffer and writes a
logarithm for a rate, the timer's divisor for 10 Hz does not fit 16 bits, `send_eoi` turns on special mask mode,
`file_read` returns a count where its comment says 0, the two keys above fault in their
handler, and characters typed during a read are shown and dropped.

Deadlock checking is off where the behaviour may end: after an undefined return or a
fault, and where a specification stops at the change of slot.

### Fairness

* `FileRead!FairSpec`: weak fairness of the next step (the loops run with interrupts
  off, the program goes on calling `read`) and strong fairness of a request for at
  least one byte (a program that asks for nothing for ever gets nowhere).
* `LineInput!FairSpec`: weak fairness of the steps of the read on screen: an interrupt
  returns to the interrupted program. No fairness is assumed of the user, who may
  type, correct and switch for ever. `EnterEndsRead` is stated up to the next switch,
  since `enter_flag` is one for all terminals and another reader may take it.

* `Interrupts!FairSpec`: weak fairness of boot, of the steps of a read on screen (the
  processor goes on) and of the clock's tick; weak fairness of the timer's handler, which
  has the highest priority, and strong fairness of the keyboard's and the clock's: timer
  ticks come some 50 ms apart and a handler takes microseconds, so a lower line that asks
  again and again is served. `TickEndsRead` is stated up to the next switch, since a
  program that is not on screen stands still, and up to a fault in a key's handler.

## Proofs

`ProcessTerminalsProofs` proves, for every number of slots from 1 to 69 (69 is the
lookup's failure value) and of terminals from 1 to 255 (255 is `(uint8_t) -1`), that the
properties of run `processes` about the table hold. Nothing else is assumed; the assumptions are
`SlotsAssumption`, `TerminalsAssumption` and `StatusAssumption` of `ProcessTerminals`.
The properties are not inductive one by one: that `halt` wakes the right
process needs the parent relation, that needs the uniqueness of the active process of
a terminal, and what is resumed needs the saved context, so the invariant `Inv` is their
conjunction with the types, two facts about slot 0 and about a shell between two
rounds of its loop (`BootShell`, `RestartOnScreen`), and that no terminal is opened on a
full table (`StartNeverSpins`). There is one lemma per action; all
are about healthy states, and `Vacuous` disposes of the others.
`BackgroundUntouched` is an action property that follows from the invariant.

`ProcessRefinementProofs` proves that `ProcessTerminals` implements `JobStacks` up to the
first change of slot (`HealthySpec`), and that no slot is lost (`NoOrphans`), from the same
assumptions. The mapping chooses, for every started terminal, the chain of parents that
ends in the process the lookup finds. `Inv` does not say that there is one: a cycle of
processes that wait for each other, apart from every shell, satisfies it. The
invariant `RInv` therefore adds `Chained`: all live processes of a started terminal are on
one chain without repetition from its shell to its active process. `ChainUnique` shows that
two chains with the same end are equal, so that the choice is determined. It is an
induction on the length, done without an induction theorem: `LeastNatural` gives the first
distance from the end at which two chains differ, and there they cannot. `FitsTable`
bounds the length of a chain by the number of slots. Then there is one lemma
per action: `execute` appends to the chain on screen (`ExecuteStep`), `halt` drops its last
element (`HaltStep`), Alt+F opens a chain of one or only looks (`StartTerminalStep`,
`ResumeTerminalStep`), and the rest changes no chain.

`ExceptionHaltProofs` proves both properties of run `exceptions` for every number of slots
and terminals, any number of halts under way at once and switches at any of the eight
points, from the assumptions of `ProcessTerminals` alone; only what a behaviour does
after its first `cut` is left open, and there run `fault_interrupted` refutes the property.
In the middle of a halt the process table is inconsistent and `Inv` false, so the proof
looks at another state, in which every halt happens at once when it releases its slot:
before that the faulting process is still active and its parent waits, after it the
process is gone and its parent runs. It is defined from the real one (`wasActive`,
`wasParent`, `wasCurrent`, ..., `V == INSTANCE ProcessTerminalsProofs WITH ...`). In it one
step of a halt is the whole `HaltProgram(1)`, the others do nothing, and every other step is
itself, so the invariant of `ProcessTerminals` and its proof are reused as they are. The
second half of `XInv`, `Linked`, says for each halt exactly which of its assignments the real
table, the globals and the saved contexts have seen; a halt that was left at one of the
points 5 to 8 keeps its record only until its slot is given away (`Kept`). The delicate case is
the switch back to a terminal whose halt stands in its middle: there the lookup may find the
parent and not the saved process (`LookupDuringHalt`), and this is the value of `tss.esp0`
that the rest of the halt needs.

`FileReadProofs` proves `BufferIsSlice`, `ReturnsWhatFits` and the type invariant for every
block size, word size, set of files and requests that satisfy `ProperRequests` (empty
requests at position 0 only, no sum that wraps round), and for these also
`CopiesAtMostLength`, which run `read_nothing` refutes without the hypothesis. The invariant adds `Balance` (copied and
left make up the request) and `Aligned` (block start plus index in the block, index in
the caller's buffer and count agree in each phase); the slice alone says nothing of
where the next byte comes from. The induction step of the loops is one lemma,
`CopyByteInv`, shared by the three phases.

`LineInputProofs` proves the four safety properties of `LineInput` for every buffer size,
set of terminals, set of readers and set of keys. The invariant `LInv` adds how far an
undisturbed read has come (`Progress`: the bytes copied are a beginning of the line and
the count is that of the place), which `ReadDeliversLine` needs at the end only, and
that all bytes of the shared buffer and of the saved ones, the stale ones behind the
lines included, come from their own terminal. Without the stale bytes `NoForeignBytes` is
not inductive: a key typed during a copy makes the line longer than what the copy has
tested, and Backspace makes it shorter.

`FileDescriptorsProofs` proves the four properties of `FileDescriptors` for every size of
table, file array (at least 2), name and directory, and for every program: `DSpec` lets
the running process make any of any set of calls, with reads of any 32-bit number of bytes:
those that run on end the program (`OverrunHalts`). The assumptions are those of
`ProcessTerminals` and the named ones of `FileDescriptors`, of which `TypesAssumption` says
that the image has no entry of an unknown type, for which `open` would return with a
descriptor in use that keeps the device its last owner left. The invariant `DInv` is
`Inv` of `ProcessTerminals`, reused because every step of `DSpec` is one of `Spec` or
leaves its variables alone, with the types, `DescriptorsSound` and `NoNullCall`: that a
call finds the descriptors of a live process needs `RunningProcess`, and that execute's
new array goes to no process that is in use needs the free slot. `NoNullCall` is kept
because the descriptor a call uses is sound.

The same module proves the four properties of the programs in `UserPrograms`, for every
set of commands typed and every image. Assumed are, by name, `DescriptorsAssumption` (an
array of at least 4: `grep` needs the directory and a file beside its terminal; the code
has 8), `TypedAssumption` and `RequestsAssumption` (types), and `ImageAssumption`: all
entries of the image have names, are those `read_directory` counts up to and are files or
the clock except ".", and the names `syserr` takes for missing ones are missing. It is
true of `filesys_img`, and something like it is needed: with a directory entry of another
name `grep` would take entries out of its own listing by reading it, and with a file of the name that `syserr`
opens in vain its test would fail. `TypedAssumption` to `ImageAssumption` are evaluated
by TLC in run `user_programs`. Two of the theorems have a hypothesis on the commands:

* `GrepsHaveArguments` for `GrepNeverFails`: `grep` without a pattern returns 3 by design;
* `CatsReadFiles` for `CatPrintsItsFile`: `cat` of the directory prints names, `cat` of the
  clock nothing, and neither is a file with a length.

Both are true of the commands of run `user_programs` (an `ASSUME` of `MCUserPrograms`).
`SyserrPasses` and `ListsWholeDirectory` need neither.

The invariant `UInv` is `DInv` with one conjunct per slot and program that ties the place
in the program to what is open. `LsOK`: the descriptor it reads is the directory's.
`GrepOK`: the directory, and between `open` and `close` exactly one file beside it, is all
that is open (`OnlyOpen`) - that nothing else is open is what makes the next `open` succeed,
and `GrepNeverFails` says nothing of it. `CatOK`: its copy of the command is the one typed,
its descriptor is that file's and its position is what was printed so far. `SyserrOK`: what
is left of the script is its tail from some step j, and what is open then is a function of
j (`OpenAfter`): while `err_open_lots` runs, an initial part of the array, otherwise nothing.
`ListingOK`: a listing that has the directory to itself has delivered exactly the entries
below the shared index. A step of one program changes only its own slot; for the others
`CallPrivate` and the lemmas behind `BackgroundFilesUntouched` say that nothing has
changed, except the directory index, and then `alone` is given up. There is one lemma per
program (`LsStep`, `GrepStep`, `CatStep`, `SyserrStep`, `FreeStep`, `ShellStep`) and one each for
a return from `main` (`StartStep`) and for the user (`BackgroundStepKeeps`). What a call
returns to a process with given descriptors is proved once per call before them. TLC
cannot evaluate `UInv` (`SyserrOK` quantifies over the integers); its consequences are the
run's invariants. `ProgramsKeepFiles` adds that the programs keep the properties of
`DSpec` - `USpec` lets them make calls that are not among `Calls`, so this is not a
consequence of the theorems about `DSpec` - the wrong calls of `syserr` included.

`ScreenProofs` proves the four properties of `Screen` for every width of at least 2,
height of at least 1, page larger than the screen, length of line, set of terminals out of
0, 1, 2 and set of keys. Each operator on the screen (`NewLine`, `Echo`, `WriteByte`,
`Rubout`, `putc`, ...) has a lemma: it keeps a good screen good, and for the two that move
along a line, it writes one cell and moves by one, also at the end of a row. The invariant
`SInv` adds to the properties that saved terminals are as good as the one on screen, that
the next character is at most one cell behind the page unless a write has faulted, that the
echo is not longer than the cells before it, and how far a read has cleared the line:
without these a character typed in the last row could fall on the echo or outside the page.
`EchoIsLine` is shown with keys, output of other terminals and switches between any two
steps of a read.

`InterruptsProofs` proves the safety properties of `Interrupts` for every set of
terminals out of 0, 1, 2 and every frequency in the ranges of `RTC.h` and `PIT.h`. `IInv`
ties what is set up to the number of boot steps done (`SetUp`: the clock is on only after
step 4, another terminal is on screen and a handler can have faulted only after step 8),
which is why `i8259_init` loses no edge but a key's, and says that a reader that finds the flag set
saw a tick (`TickSeen`), which `ReadWaitsForTick` needs one step earlier. The faults of key
handlers are part of it: what they leave in service is the keyboard's line and no more.

TLC checked `LInv` and `XInv` on small instances before they were proved; `NoOrphans` in run
`processes` is the form of `Chained` that TLC can evaluate. Only model-checked
are the liveness properties (`ReadsWholeFile`, `EnterEndsRead`, `TickEndsRead`, `KeysTaken`),
since fairness is out of the prover's reach. Every other property of a passing run is
stated by a theorem.

## Not modelled

* Lengths in bytes of commands and arguments: the copies for `getargs` are not bounded
  by their 40 bytes, so nothing can be said of longer commands (listed as hazards).
* What programs draw through `vidmap`, the bits of page table entries and segment
  descriptors, the multiboot printout, number formatting in `printf`: data and
  straight-line set-up that no other part reads back.
* `hello`, `testprint`, `counter`, `pingpong`, `sigtest`, `emulate` and `fish`: their calls
  are among those of the program that makes any call.
* `scheduler` (empty), `getchar1` and `rand_cmwc` (not called).
* Which characters a read that runs on behind its buffer overwrites before it faults.
* Faults of key handlers inside `ExceptionHalt`, which are in `Interrupts`.

## Plan

Done, in this order because everything else runs on the process table: process table and
terminals with proofs, exceptions, file data with proofs, line input, descriptors and
programs with proofs, screen, boot and interrupts with proofs; then the proofs of line
input, of the refinement of `JobStacks` and of the interrupted halts; then the proofs of
the programs; last the halts with switches at any point, the steps of reads on the screen and
the faults of key handlers. Left: nothing that was planned. The hazards without a
property say in `PROJECT.json` why they have none.
