-------------------------- MODULE ProcessTerminals --------------------------
(***************************************************************************)
(* The process table and the three virtual terminals of the kernel:        *)
(* sys_call_execute and sys_call_halt (student-distrib/syscalls.c),        *)
(* switch_terminal and the base shell loops (multiprocess.c), and the      *)
(* Alt+F1..F3 keys that call them (keyboard.c).                            *)
(*                                                                         *)
(* There is one CPU.  Vectors from 32 up are interrupt gates, so a system  *)
(* call and an IRQ handler run with interrupts off: each is one action.    *)
(* The keyboard can interrupt user code and the spinning reads; in both    *)
(* the process state is that of mode = "user".  The timer handler only     *)
(* acknowledges its interrupt: only the Alt+F keys change the running      *)
(* process.  Faults of user programs are in module ExceptionHalt.          *)
(*                                                                         *)
(* Pointers are identities.  A PCB pointer and a kernel stack are the slot *)
(* number of their process.  A saved stack pointer is the frame it points  *)
(* to: s for an execute system call made on the kernel stack of slot s,    *)
(* BaseFrame(t) for the call in the shell loop that started terminal t.    *)
(***************************************************************************)
EXTENDS Integers, FiniteSets

CONSTANTS
    SIZE_OF_PCB_ARRAY,  \* slots of PCB_array, 6
    NUM_TERMINALS,      \* length of three_term_buf, 3
    Statuses            \* exit statuses programs use, bytes

ASSUME SlotsAssumption == SIZE_OF_PCB_ARRAY \in 1 .. 69
ASSUME TerminalsAssumption == NUM_TERMINALS \in 1 .. 255
ASSUME StatusAssumption == Statuses \subseteq 0..255 /\ 0 \in Statuses

Slots == 0 .. SIZE_OF_PCB_ARRAY - 1
Terminals == 0 .. NUM_TERMINALS - 1

Null == -1              \* a null PCB pointer, a zeroed esp
NoTerminal == 255       \* (uint8_t) -1
NoProcess == 69         \* get_current_process_ID's default
BootStack == -2         \* the stack entry() runs on
BaseFrame(t) == SIZE_OF_PCB_ARRAY + t
BaseFrames == {BaseFrame(t) : t \in Terminals}

VARIABLES
    \* fields of PCB_array[i]
    flag, isActive, terminalNumber, parent_PCB, esp, parent_ESP0,
    \* globals of syscalls.c, tss.esp0 and page_directory[32]
    parent_process_ID, current_process_ID, esp0, page,
    \* fields of three_term_buf[t]
    execute_status, PID, PPID, saved_esp,
    buffer_flag,        \* keyboard.c: the terminal on screen
    nxt_term,           \* multiprocess.c: target of the last switch
    mode,               \* what the CPU does between two actions
    loop,               \* mode "restart": the terminal whose loop runs
    ret,                \* what execute last returned to a program, and why
    \* history: the terminal on whose running process's stack the shell loop
    \* of t lives; that stack has been popped; a shell changed its slot
    home, popped, relocated

pcb == <<flag, isActive, terminalNumber, parent_PCB, esp, parent_ESP0>>
cpu == <<parent_process_ID, current_process_ID, esp0, page>>
term == <<execute_status, PID, PPID, saved_esp>>
vars == <<pcb, cpu, term, buffer_flag, nxt_term, mode, loop, ret,
          home, popped, relocated>>

FreeSlots == {i \in Slots : flag[i] = 0}

is_PCB_array_full == FreeSlots = {}

FirstFree_AfterLoop == SIZE_OF_PCB_ARRAY   \* mutant: the index after the loop

\* mutant: the search tests isActive in place of flag
FirstFree_Inactive ==
    LET S == {i \in Slots : isActive[i] = 0}
    IN  CHOOSE i \in S : \A j \in S : i <= j

\* The slot the search of execute finds.
FirstFree == CHOOSE i \in FreeSlots : \A j \in FreeSlots : i <= j

\* The running process of a terminal, as the code looks it up.
get_current_process_ID(t) ==
    LET S == {i \in Slots : terminalNumber[i] = t /\ isActive[i] = 1}
    IN  IF S = {} THEN NoProcess ELSE CHOOSE i \in S : \A j \in S : i <= j

(***************************************************************************)
(* The state once multi_terminal_init(0) has run its first shell: slot 0   *)
(* on terminal 0, its loop on the boot stack.                              *)
(***************************************************************************)
Init ==
    /\ flag = [i \in Slots |-> IF i = 0 THEN 1 ELSE 0]
    /\ isActive = [i \in Slots |-> IF i = 0 THEN 1 ELSE 0]
    /\ terminalNumber = [i \in Slots |-> IF i = 0 THEN 0 ELSE NoTerminal]
    /\ parent_PCB = [i \in Slots |-> IF i = 0 THEN 0 ELSE Null]
    /\ esp = [i \in Slots |-> IF i = 0 THEN BaseFrame(0) ELSE Null]
    /\ parent_ESP0 = [i \in Slots |-> BootStack]
    /\ parent_process_ID = 0 /\ current_process_ID = 0
    /\ esp0 = 0 /\ page = 0
    /\ execute_status = [t \in Terminals |-> IF t = 0 THEN 1 ELSE 0]
    /\ PID = [t \in Terminals |-> 0]
    /\ PPID = [t \in Terminals |-> 0]
    /\ saved_esp = [t \in Terminals |-> BootStack]
    /\ buffer_flag = 0 /\ nxt_term = 0
    /\ mode = "user" /\ loop = 0
    /\ ret = [why |-> "none", eax |-> 0]
    /\ home = [t \in Terminals |-> t]
    /\ popped = [t \in Terminals |-> FALSE]
    /\ relocated = FALSE

(***************************************************************************)
(* sys_call_execute of a valid program, from the search for a slot to the  *)
(* iret, when a slot is free; frame is where its caller waits and t what   *)
(* get_nxt_term returns.                                                   *)
(***************************************************************************)
sys_call_execute(frame, t) ==
    LET i == FirstFree
        first == execute_status[t] = 0
        parent == IF i = 0 \/ first THEN i ELSE parent_process_ID
    IN  /\ flag' = [flag EXCEPT ![i] = 1]
        /\ current_process_ID' = i
        /\ parent_process_ID' = IF i # 0 THEN i ELSE parent_process_ID
        /\ parent_PCB' = [parent_PCB EXCEPT ![i] = parent]
        /\ page' = i
        /\ execute_status' = [execute_status EXCEPT ![t] = 1]
        /\ isActive' = IF parent # i
                       THEN [isActive EXCEPT ![parent] = 0, ![i] = 1]
                       ELSE IF first THEN [isActive EXCEPT ![i] = 1]
                       ELSE isActive
        /\ terminalNumber' =
               IF parent # i
               THEN [terminalNumber EXCEPT ![i] = terminalNumber[parent]]
               ELSE IF first THEN [terminalNumber EXCEPT ![i] = t]
               ELSE terminalNumber
        /\ parent_ESP0' = [parent_ESP0 EXCEPT ![i] = esp0]
        /\ esp0' = i
        /\ esp' = [esp EXCEPT ![i] = frame]
        /\ mode' = "user"

\* The running program calls execute with a valid program name.
ExecuteProgram ==
    /\ mode = "user"
    /\ ~is_PCB_array_full
    /\ sys_call_execute(esp0, nxt_term)
    /\ UNCHANGED <<PID, PPID, saved_esp, buffer_flag, nxt_term, loop, ret,
                   home, popped, relocated>>

\* The name is not in the file system, or its file is not an executable.
ExecuteInvalid ==
    /\ mode = "user"
    /\ ret' = [why |-> "invalid", eax |-> -1]
    /\ UNCHANGED <<pcb, cpu, term, buffer_flag, nxt_term, mode, loop,
                   home, popped, relocated>>

\* All slots are taken: execute prints its message and returns.
ExecuteFull ==
    /\ mode = "user"
    /\ is_PCB_array_full
    /\ ret' = [why |-> "full", eax |-> 0]
    /\ UNCHANGED <<pcb, cpu, term, buffer_flag, nxt_term, mode, loop,
                   home, popped, relocated>>

(***************************************************************************)
(* sys_call_halt.                                                          *)
(***************************************************************************)
\* mutant: the halting process stays active
ReleasePCB_StaysActive(c, parent) ==
    /\ isActive' = [isActive EXCEPT ![parent] = 1]
    /\ terminalNumber' = [terminalNumber EXCEPT ![c] = NoTerminal]
    /\ parent_PCB' = [parent_PCB EXCEPT ![c] = Null]
    /\ esp' = [esp EXCEPT ![c] = Null]

\* The PCB of process c is cleared and its parent wakes.
ReleasePCB(c, parent) ==
    /\ isActive' = [isActive EXCEPT ![parent] = 1, ![c] = 0]
    /\ terminalNumber' = [terminalNumber EXCEPT ![c] = NoTerminal]
    /\ parent_PCB' = [parent_PCB EXCEPT ![c] = Null]
    /\ esp' = [esp EXCEPT ![c] = Null]

\* mutant: parent_process_ID is left as it was
BecomeParent_KeepsParentID(parent) ==
    /\ current_process_ID' = parent
    /\ page' = parent
    /\ UNCHANGED parent_process_ID

BecomeParent(parent) ==
    /\ parent_process_ID' = parent
    /\ current_process_ID' = parent
    /\ page' = parent

\* The assignments of sys_call_halt, for both branches of its test.
HaltCurrent ==
    LET c == current_process_ID
        parent == parent_PCB[c]
    IN  /\ esp0' = parent_ESP0[c]
        /\ flag' = [flag EXCEPT ![c] = 0]
        /\ IF parent = c
           THEN /\ page' = c
                /\ UNCHANGED <<isActive, terminalNumber, parent_PCB, esp,
                               parent_process_ID, current_process_ID>>
           ELSE ReleasePCB(c, parent) /\ BecomeParent(parent)
        /\ UNCHANGED parent_ESP0

\* A program started by another one halts: its parent's execute returns.
HaltProgram(status) ==
    /\ mode = "user"
    /\ esp[parent_process_ID] \in Slots
    /\ HaltCurrent
    /\ ret' = [why |-> "halt", eax |-> status]
    /\ UNCHANGED <<term, buffer_flag, nxt_term, mode, loop,
                   home, popped, relocated>>

\* The shell of a shell loop exits, always with status 0: control returns to
\* the loop's frame.  If the stack that holds the frame has been popped since,
\* what is there by now is not determined by the program: the loop may go on
\* or anything else may happen.
HaltBaseShell ==
    /\ mode = "user"
    /\ esp[parent_process_ID] \in BaseFrames
    /\ LET t == esp[parent_process_ID] - SIZE_OF_PCB_ARRAY
       IN  /\ HaltCurrent
           /\ loop' = t
           /\ \/ mode' = "restart"
              \/ popped[t] /\ mode' = "undefined"
    /\ UNCHANGED <<term, buffer_flag, nxt_term, ret, home, popped, relocated>>

\* while (check == 0) ... sys_call_execute(shell): the next round of a loop,
\* interrupts still off.
RestartShell ==
    /\ mode = "restart"
    /\ sys_call_execute(BaseFrame(loop), nxt_term)
    /\ relocated' = (relocated \/ FirstFree # current_process_ID)
    /\ UNCHANGED <<PID, PPID, saved_esp, buffer_flag, nxt_term, loop, ret,
                   home, popped>>

(***************************************************************************)
(* switch_terminal(buffer_flag, n, buffer), the part that concerns         *)
(* processes; stack is the kernel stack the key interrupt runs on.         *)
(* SaveContext is its first half, for the terminal that is left.           *)
(***************************************************************************)
SaveContext_NoPPID(n, stack) ==     \* mutant: PPID is not saved
    /\ PID' = [PID EXCEPT ![buffer_flag] = current_process_ID]
    /\ saved_esp' = [saved_esp EXCEPT ![buffer_flag] = stack]
    /\ buffer_flag' = n
    /\ nxt_term' = n
    /\ UNCHANGED PPID

SaveContext(n, stack) ==
    /\ PID' = [PID EXCEPT ![buffer_flag] = current_process_ID]
    /\ PPID' = [PPID EXCEPT ![buffer_flag] = parent_process_ID]
    /\ saved_esp' = [saved_esp EXCEPT ![buffer_flag] = stack]
    /\ buffer_flag' = n
    /\ nxt_term' = n

\* The key handler's test before it switches.
SwitchAllowed(n) ==
    /\ n # buffer_flag
    /\ ~(is_PCB_array_full /\ execute_status[n] = 0)

\* First switch to n: its shell is started from the interrupt handler, on the
\* kernel stack of the process that was interrupted.  With no slot free the
\* loop there would call execute for ever.
StartTerminal(n, stack) ==
    /\ mode = "user"
    /\ SwitchAllowed(n)
    /\ execute_status[n] = 0
    /\ SaveContext(n, stack)
    /\ IF is_PCB_array_full
       THEN /\ mode' = "spin"
            /\ UNCHANGED <<pcb, cpu, execute_status>>
       ELSE sys_call_execute(BaseFrame(n), n)
    /\ home' = [home EXCEPT ![n] = buffer_flag]
    /\ UNCHANGED <<loop, ret, popped, relocated>>

\* Switch to a terminal that has a shell: its saved frame is resumed.
ResumeTerminal(n, stack) ==
    LET p == get_current_process_ID(n)
    IN  /\ mode = "user"
        /\ SwitchAllowed(n)
        /\ execute_status[n] = 1
        /\ SaveContext(n, stack)
        /\ parent_process_ID' = PPID[n]
        /\ current_process_ID' = PID[n]
        /\ esp0' = p
        /\ page' = p
        /\ mode' = IF p = NoProcess THEN "undefined" ELSE "user"
        /\ popped' = [t \in Terminals |->
                        popped[t] \/ (home[t] = n /\ t # n)]
        /\ UNCHANGED <<pcb, execute_status, loop, ret, home, relocated>>

Next ==
    \/ ExecuteProgram
    \/ ExecuteInvalid
    \/ ExecuteFull
    \/ \E s \in Statuses : HaltProgram(s)
    \/ HaltBaseShell
    \/ RestartShell
    \/ \E n \in Terminals : StartTerminal(n, esp0) \/ ResumeTerminal(n, esp0)

Spec == Init /\ [][Next]_vars

-----------------------------------------------------------------------------
TypeOK ==
    /\ flag \in [Slots -> {0, 1}]
    /\ isActive \in [Slots -> {0, 1}]
    /\ terminalNumber \in [Slots -> Terminals \cup {NoTerminal}]
    /\ parent_PCB \in [Slots -> Slots \cup {Null}]
    /\ esp \in [Slots -> Slots \cup BaseFrames \cup {Null}]
    /\ parent_ESP0 \in [Slots -> Slots \cup {BootStack}]
    /\ parent_process_ID \in Slots /\ current_process_ID \in Slots
    /\ esp0 \in Slots \cup {BootStack, NoProcess}
    /\ page \in Slots \cup {NoProcess}
    /\ execute_status \in [Terminals -> {0, 1}]
    /\ PID \in [Terminals -> Slots] /\ PPID \in [Terminals -> Slots]
    /\ saved_esp \in [Terminals -> Slots \cup {BootStack}]
    /\ buffer_flag \in Terminals /\ nxt_term \in Terminals
    /\ mode \in {"user", "restart", "spin", "undefined"}
    /\ loop \in Terminals
    /\ ret \in [why : {"none", "invalid", "full", "halt", "exception"}, eax : -1 .. 255]
    /\ home \in [Terminals -> Terminals]
    /\ popped \in [Terminals -> BOOLEAN]
    /\ relocated \in BOOLEAN

(***************************************************************************)
(* What holds as long as no restarted shell has come back in another slot  *)
(* (relocated) and no popped shell loop was returned to.                   *)
(***************************************************************************)
Healthy == mode \in {"user", "restart"} /\ ~relocated

\* Slots that hold a process; a shell between two rounds of its loop counts.
Live == {i \in Slots : flag[i] = 1 \/ (mode = "restart" /\ i = current_process_ID)}

Started == {t \in Terminals : execute_status[t] = 1}

\* The process that runs is the one all of the kernel agrees on: it is the
\* current and the "parent" process, its page is mapped, an interrupt enters on
\* its kernel stack, and it belongs to the terminal on screen (execute, halt and
\* switch_terminal each set these five by different routes).
RunningProcess ==
    Healthy =>
        /\ nxt_term = buffer_flag
        /\ buffer_flag \in Started
        /\ current_process_ID \in Live
        /\ isActive[current_process_ID] = 1
        /\ terminalNumber[current_process_ID] = buffer_flag
        /\ parent_process_ID = current_process_ID
        /\ page = current_process_ID
        /\ mode = "user" => esp0 = current_process_ID

\* The record of process i: its parent is a live, waiting process of the same
\* terminal; i returns to the execute call on the parent's kernel stack and
\* leaves that stack as the one interrupts enter on.  A process without a parent
\* is its terminal's shell and returns to the shell loop.
HasWaitingParent(i) ==
    LET p == parent_PCB[i] IN
    /\ p \in Live
    /\ terminalNumber[i] \in Started
    /\ terminalNumber[p] = terminalNumber[i]
    /\ IF p = i THEN esp[i] = BaseFrame(terminalNumber[i])
                ELSE isActive[p] = 0 /\ esp[i] = p /\ parent_ESP0[i] = p

SameParent(i, j) ==
    parent_PCB[i] = parent_PCB[j] /\ parent_PCB[i] # i /\ parent_PCB[j] # j

\* Every process has such a parent, and a parent waits for one child only: halt
\* wakes the caller of the execute that started the process, and nobody else.
ParentsWait ==
    Healthy =>
        /\ \A i \in Live : HasWaitingParent(i)
        /\ \A i, j \in Live : SameParent(i, j) => i = j

\* Every started terminal has one process that runs when it is on screen and
\* free slots are never mistaken for it: what get_current_process_ID finds.
OneRunnerPerTerminal ==
    Healthy =>
        /\ \A i, j \in Slots :
              /\ isActive[i] = 1 /\ isActive[j] = 1
              /\ terminalNumber[i] = terminalNumber[j]
              => i = j
        /\ \A i \in Slots \ Live : isActive[i] = 0 /\ terminalNumber[i] = NoTerminal

\* The context saved for terminal t is that of a process which is active on t.
IsContextOf(t) ==
    /\ PID[t] \in Live
    /\ isActive[PID[t]] = 1
    /\ terminalNumber[PID[t]] = t
    /\ PPID[t] = PID[t]
    /\ saved_esp[t] = PID[t]

\* What switch_terminal saved for a terminal in the background is the context of
\* the process its lookup will find when the terminal is resumed.
SavedContext ==
    Healthy => \A t \in Started \ {buffer_flag} : IsContextOf(t)

\* Slot 0 is for ever the shell of terminal 0, which execute's test
\* current_process_ID != 0 relies on.
BootShell ==
    Healthy =>
        /\ 0 \in Live /\ parent_PCB[0] = 0 /\ terminalNumber[0] = 0
        /\ 0 \in Started

\* The loop that runs a shell again is that of the terminal on screen.
RestartOnScreen ==
    Healthy /\ mode = "restart" =>
        /\ loop = buffer_flag
        /\ parent_PCB[current_process_ID] = current_process_ID
        /\ flag[current_process_ID] = 0
        /\ esp0 = parent_ESP0[current_process_ID]

\* The key handler's test keeps switch_terminal from looping for a free slot.
StartNeverSpins == mode # "spin"

Consistent ==
    /\ RunningProcess
    /\ ParentsWait
    /\ OneRunnerPerTerminal
    /\ SavedContext
    /\ BootShell
    /\ RestartOnScreen
    /\ StartNeverSpins

Record(i) ==
    <<flag[i], isActive[i], terminalNumber[i], parent_PCB[i], esp[i], parent_ESP0[i]>>

\* A step that does not switch terminals changes nothing of the processes of
\* the terminals in the background, though all share one table.
BackgroundStep ==
    Healthy /\ Healthy' /\ buffer_flag' = buffer_flag =>
        \A i \in Slots :
            flag[i] = 1 /\ terminalNumber[i] # buffer_flag => Record(i)' = Record(i)

BackgroundUntouched == [][BackgroundStep]_vars

-----------------------------------------------------------------------------
(***************************************************************************)
(* What comments of the source say and the code does not do.               *)
(***************************************************************************)

\* syscalls.c:86, "jump to execute return": halt of a shell returns to its loop.
HaltReturnsToExecute == mode # "undefined"

\* syscalls.c:616, "Get the process ID of that terminal": every started
\* terminal has a process for switch_terminal to resume (here also the frame of
\* the last loop that ran is intact, so nothing undefined has happened).
TerminalHasProcess ==
    mode = "user" /\ ~popped[loop] =>
        \A t \in Started : get_current_process_ID(t) # NoProcess
=============================================================================
