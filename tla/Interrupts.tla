----------------------------- MODULE Interrupts -----------------------------
(***************************************************************************)
(* Boot, the interrupt controllers, the timer, the real-time clock and the *)
(* keyboard as a source of interrupts (student-distrib/kernel.c, i8259.c,  *)
(* IDT.c, PIT.c, RTC.c, Paging.c, wrapper.S), with the reads of the clock  *)
(* by programs on several terminals.                                       *)
(*                                                                         *)
(* A handler runs with interrupts off and is one action, from the          *)
(* controller's acknowledgement to the iret.  Boot and RTC_Read run with   *)
(* interrupts on in part: each step of theirs is an action.  The program   *)
(* of a terminal that is not on screen stands still (there is no           *)
(* scheduler); an Alt+F key resumes the other terminal's context.          *)
(*                                                                         *)
(* The devices are modelled as the kernel uses them: lines are edge        *)
(* triggered; the clock's line is high while register C has not been read, *)
(* the keyboard's while the scancode has not been read.                    *)
(*                                                                         *)
(* Two keys page-fault in their handler before its end of interrupt: l     *)
(* when its echo falls behind the mapped page of video memory (module      *)
(* Screen has the positions; here each l may), and F1 to F3 before the     *)
(* process table is set up.                                                *)
(***************************************************************************)
EXTENDS Integers, Sequences

CONSTANTS
    Terminals,
    DEFAULT_FREQ,       \* what RTC_Write asks for, whatever its buffer says: 1024
    TIMER_FREQ          \* PIT_init(10)

PIT_IRQ == 0
KEYBOARD_IRQ == 1
CASCADE == 2            \* the slave hangs on this line of the master
RTC_INTERRUPT == 8
HALFWAY == 8
Lines == {PIT_IRQ, KEYBOARD_IRQ, RTC_INTERRUPT}
AllLines == Lines \cup {CASCADE}

LOWRANGE == 3
HIGHRANGE == 15
DEFAULT_RATE_FOR_RTC == 6
HIGHEST_FREQ == 1193180
WORD == 65535           \* the largest value of 16 bits

ASSUME ClockAssumption ==
    /\ DEFAULT_FREQ \in 1 .. WORD           \* for 0 the loop of RTC_set_frequency does not end
    /\ TIMER_FREQ \in 10 .. 50
ASSUME TerminalAssumption == Terminals \subseteq 0 .. 2 /\ 0 \in Terminals

None == -1
Other == -2
KeyL == -3                              \* l without Ctrl
PlainF == -4                            \* F1, F2 or F3 without Alt
Keys == {Other, KeyL, PlainF} \cup Terminals    \* a terminal's number is Alt with its F key
FKeys == {PlainF} \cup Terminals

VARIABLES
    boot,                   \* steps of entry that are done
    pc,                     \* where the program of t stands
    buffer_flag,
    fault,                  \* a page fault that leaves nothing to go on with, where this
                            \* module ends: in switch_terminal, or in the key handler
    irr, isr, imr, special, \* the two controllers, by line
    video_mem_hist,         \* terminals whose saved page is mapped
    PF, PIE, rate,          \* registers C, B and A of the clock
    divisor,                \* of the timer
    scancode,               \* in the keyboard's output buffer
    RTC_iflag,
    \* history: a tick was handled since the read of t was called; a key's handler
    \* faulted before its end of interrupt; i8259_init forgot the edge of a key
    ticked, stuck, missed

controllers == <<irr, isr, imr, special>>
setup == <<video_mem_hist, PIE, divisor>>
clock == <<PF, rate, RTC_iflag>>
vars == <<boot, pc, buffer_flag, fault, controllers, setup, clock, scancode, ticked, stuck, missed>>

Init ==
    /\ boot = 0
    /\ pc = [t \in Terminals |-> "off"]
    /\ buffer_flag = 0
    /\ fault = "no"
    /\ irr \in SUBSET Lines /\ isr = {} /\ imr = {} /\ special = FALSE
    /\ video_mem_hist = {}
    /\ PF \in BOOLEAN /\ PIE = FALSE /\ rate = DEFAULT_RATE_FOR_RTC
    /\ divisor = 0
    /\ scancode = None
    /\ RTC_iflag = 0
    /\ ticked = [t \in Terminals |-> FALSE]
    /\ stuck = FALSE /\ missed = FALSE

-----------------------------------------------------------------------------
(***************************************************************************)
(* Boot, in the order of entry.                                            *)
(***************************************************************************)
\* mutant: the clock is set up first
BootOrder_ClockFirst ==
    <<"RTC_init", "i8259_init", "IDT_init", "init_paging", "enable_2", "enable_8", "enable_1", "sti",
      "initialize_boot", "init_PCB_array", "PIT_init", "terminal_2", "terminal_1", "terminal_0",
      "execute">>

BootOrder ==
    <<"i8259_init", "IDT_init", "init_paging", "RTC_init", "enable_2", "enable_8", "enable_1", "sti",
      "initialize_boot", "init_PCB_array", "PIT_init", "terminal_2", "terminal_1", "terminal_0",
      "execute">>

Booting == boot < Len(BootOrder)
Done(step) == \E j \in 1 .. boot : BootOrder[j] = step

\* Only terminal 0's context boots, and only until a shell was started in its place
\* by a switch back to it.
Step(s) ==
    /\ fault = "no" /\ buffer_flag = 0 /\ pc[0] = "off"
    /\ Booting /\ BootOrder[boot + 1] = s
    /\ boot' = boot + 1
    /\ UNCHANGED <<buffer_flag, fault, scancode, RTC_iflag, rate, PF, ticked, stuck>>

\* ICW1 forgets the edges seen so far; a key that waits raises no other.
i8259_init ==
    /\ Step("i8259_init")
    /\ irr' = {} /\ isr' = {} /\ imr' = AllLines /\ special' = FALSE
    /\ missed' = (scancode # None)
    /\ UNCHANGED <<pc, setup>>

\* Periodic interrupts on; if register C holds a tick the line rises.
RTC_init ==
    /\ Step("RTC_init")
    /\ PIE' = TRUE
    /\ irr' = IF PF /\ ~PIE THEN irr \cup {RTC_INTERRUPT} ELSE irr
    /\ UNCHANGED <<pc, isr, imr, special, video_mem_hist, divisor, missed>>

enable_irq(n, mask) == mask \ {n}
disable_irq(n, mask) == mask \cup {n}

EnableStep ==
    /\ \/ Step("enable_2") /\ imr' = enable_irq(CASCADE, imr)
       \/ Step("enable_8") /\ imr' = enable_irq(RTC_INTERRUPT, imr)
       \/ Step("enable_1") /\ imr' = enable_irq(KEYBOARD_IRQ, imr)
    /\ UNCHANGED <<pc, irr, isr, special, setup, missed>>

\* The steps that set up what this module says nothing more of, sti (InterruptsOn) and
\* the process table, which the F keys look at.
QuietStep ==
    /\ \/ Step("IDT_init") \/ Step("init_paging")
       \/ Step("sti") \/ Step("initialize_boot") \/ Step("init_PCB_array")
    /\ UNCHANGED <<pc, controllers, setup, missed>>

\* The counter takes the low 16 bits of the divisor.
PIT_init ==
    /\ Step("PIT_init")
    /\ divisor' = (HIGHEST_FREQ \div TIMER_FREQ) % (WORD + 1)
    /\ imr' = enable_irq(PIT_IRQ, disable_irq(PIT_IRQ, imr))
    /\ UNCHANGED <<pc, irr, isr, special, video_mem_hist, PIE, missed>>

\* mutant: the terminals share one pointer
multi_terminal_init_Shared(n) ==
    /\ Step(<<"terminal_0", "terminal_1", "terminal_2">>[n + 1])
    /\ video_mem_hist' = {n}
    /\ UNCHANGED <<pc, controllers, PIE, divisor, missed>>

\* The page that keeps terminal n's screen; terminal 0 comes last.
multi_terminal_init(n) ==
    /\ Step(<<"terminal_0", "terminal_1", "terminal_2">>[n + 1])
    /\ video_mem_hist' = video_mem_hist \cup {n}
    /\ UNCHANGED <<pc, controllers, PIE, divisor, missed>>

\* The first shell; entry does not come back.
ExecuteShell ==
    /\ Step("execute")
    /\ pc' = [pc EXCEPT ![0] = "user"]
    /\ UNCHANGED <<controllers, setup, missed>>

Boot ==
    \/ i8259_init \/ RTC_init \/ EnableStep \/ QuietStep \/ PIT_init
    \/ \E n \in 0 .. 2 : multi_terminal_init(n)
    \/ ExecuteShell

-----------------------------------------------------------------------------
(***************************************************************************)
(* The controllers.                                                        *)
(***************************************************************************)
\* The interrupt flag between two actions: on after the sti of boot, and in every
\* program and in what RTC_Read does after its sti.
InterruptsOn == Booting /\ buffer_flag = 0 => Done("sti")

Level(l) == IF l >= HALFWAY THEN CASCADE ELSE l

\* In service at the same or a higher level; in special mask mode masked lines in
\* service do not count.
Blocked(l) ==
    \/ l \in isr
    \/ \E m \in isr : m < HALFWAY /\ m <= Level(l) /\ ~(special /\ m \in imr)

Asks(l) == l \in irr /\ l \notin imr /\ Level(l) \notin imr

Deliverable(l) ==
    /\ fault = "no" /\ InterruptsOn
    /\ Asks(l) /\ ~Blocked(l)
    /\ \A m \in Lines : Asks(m) => Level(l) <= Level(m)

Acknowledged(l) == isr \cup {l, Level(l)}

\* mutant: the master is not told that the slave's interrupt is over
send_eoi_SlaveOnly(l, inService) ==
    /\ isr' = inService \ {l}
    /\ special' = special

\* For a line of the slave three commands go out: the end of its level at the
\* slave, the end of the cascade at the master, and 0x60 | 8, which the master
\* does not take for an end of interrupt but for "set special mask mode".
send_eoi(l, inService) ==
    /\ isr' = inService \ {l, Level(l)}
    /\ special' = (special \/ l >= HALFWAY)

\* A handler that ends where it interrupted.
Interrupt(l) ==
    /\ Deliverable(l)
    /\ irr' = irr \ {l}
    /\ send_eoi(l, Acknowledged(l))
    /\ UNCHANGED <<boot, pc, imr, setup, rate, stuck, missed>>

\* mutant: nothing is left of the handler once the scheduler is taken out
PIT_handler_Empty ==
    /\ Deliverable(PIT_IRQ)
    /\ irr' = irr \ {PIT_IRQ}
    /\ isr' = Acknowledged(PIT_IRQ)
    /\ UNCHANGED <<boot, pc, imr, special, setup, clock, buffer_flag, fault, scancode, ticked, stuck,
                   missed>>

PIT_handler ==
    /\ Interrupt(PIT_IRQ)
    /\ UNCHANGED <<buffer_flag, fault, PF, RTC_iflag, scancode, ticked>>

RTC_handler ==
    /\ Interrupt(RTC_INTERRUPT)
    /\ PF' = FALSE
    /\ RTC_iflag' = 1
    /\ ticked' = [t \in Terminals |-> TRUE]
    /\ UNCHANGED <<buffer_flag, fault, scancode>>

\* inb has taken the scancode of a key.
TakeKey ==
    /\ Deliverable(KEYBOARD_IRQ)
    /\ scancode' = None
    /\ irr' = irr \ {KEYBOARD_IRQ}

\* Alt+F: switch_terminal copies the screen out and in, which needs both terminals'
\* pages.  A terminal without a shell gets one, terminal 0 too if boot did not come to
\* it; the other contexts were interrupted by a key and go on where they were.
Switch(n) ==
    /\ scancode = n /\ n \in Terminals \ {buffer_flag}
    /\ Done("init_PCB_array")
    /\ buffer_flag' = n
    /\ fault' = IF {buffer_flag, n} \subseteq video_mem_hist THEN "no" ELSE "switch"
    /\ pc' = IF pc[n] = "off" THEN [pc EXCEPT ![n] = "user"] ELSE pc

\* mutant: the controller is told only when the old context is resumed
KEYBOARD_LateEoi(n) ==
    /\ TakeKey /\ Switch(n)
    /\ isr' = Acknowledged(KEYBOARD_IRQ) /\ special' = special
    /\ UNCHANGED <<boot, imr, setup, clock, ticked, stuck, missed>>

\* The end of the interrupt is sent before switch_terminal is called.
KEYBOARD_Switch(n) ==
    /\ TakeKey /\ Switch(n)
    /\ send_eoi(KEYBOARD_IRQ, Acknowledged(KEYBOARD_IRQ))
    /\ UNCHANGED <<boot, imr, setup, clock, ticked, stuck, missed>>

\* Alt+F for a terminal without a shell only writes a message when the table of
\* processes is full, which takes a terminal that has one.
OnlyMessage(n) == pc[n] = "off" /\ \E m \in Terminals : pc[m] # "off"

\* Any other key: send_eoi comes at the end.
KEYBOARD ==
    /\ TakeKey
    /\ scancode \in FKeys => Done("init_PCB_array")
    /\ scancode \in Terminals \ {buffer_flag} => OnlyMessage(scancode)
    /\ send_eoi(KEYBOARD_IRQ, Acknowledged(KEYBOARD_IRQ))
    /\ UNCHANGED <<boot, pc, imr, setup, clock, buffer_flag, fault, ticked, stuck, missed>>

\* The handler faults before send_eoi: is_PCB_array_full follows null pointers until
\* init_PCB_array, and there is no process for page_fault to halt; or WriteCharacter
\* writes behind the page.  page_fault then halts the program on screen: the one that
\* started it goes on, but there is none behind boot or the shell of a terminal, whose
\* loop ends with the status of the fault.
KEYBOARD_Fault ==
    /\ TakeKey
    /\ \/ /\ scancode \in FKeys /\ ~Done("init_PCB_array")
          /\ fault' = "key" /\ pc' = pc
       \/ /\ scancode = KeyL
          /\ fault' = "key" /\ pc' = pc
       \/ /\ scancode = KeyL /\ pc[buffer_flag] # "off"
          /\ fault' = fault /\ pc' = [pc EXCEPT ![buffer_flag] = "user"]
    /\ isr' = Acknowledged(KEYBOARD_IRQ)
    /\ stuck' = TRUE
    /\ UNCHANGED <<boot, imr, special, setup, clock, buffer_flag, ticked, missed>>

-----------------------------------------------------------------------------
(***************************************************************************)
(* The program of the terminal on screen and its read of the clock.        *)
(***************************************************************************)
Goes(from, to) ==
    /\ fault = "no"
    /\ pc[buffer_flag] = from
    /\ pc' = [pc EXCEPT ![buffer_flag] = to]
    /\ UNCHANGED <<boot, buffer_flag, fault, controllers, setup, PF, rate, scancode, stuck, missed>>

\* The system call up to sti.
RTC_Read ==
    /\ Goes("user", "clear")
    /\ ticked' = [ticked EXCEPT ![buffer_flag] = FALSE]
    /\ UNCHANGED RTC_iflag

\* mutant: the flag keeps what an earlier tick left
ClearFlag_Kept ==
    /\ Goes("clear", "spin")
    /\ UNCHANGED <<RTC_iflag, ticked>>

ClearFlag ==
    /\ Goes("clear", "spin")
    /\ RTC_iflag' = 0
    /\ UNCHANGED ticked

Wake ==
    /\ Goes("spin", "woken")
    /\ RTC_iflag = 1
    /\ UNCHANGED <<RTC_iflag, ticked>>

\* cli and the return to the program, which sets the flag again.
Return ==
    /\ Goes("woken", "user")
    /\ UNCHANGED <<RTC_iflag, ticked>>

Halvings[n \in 1 .. WORD] == IF n = 1 THEN 0 ELSE 1 + Halvings[n \div 2]

\* mutant: the frequency itself goes into register A
RTC_set_frequency_Raw(freq) == freq % 16

\* The logarithm of the frequency goes into register A as the rate, if it is one.
RTC_set_frequency(freq) ==
    IF Halvings[freq] \in LOWRANGE .. HIGHRANGE THEN Halvings[freq] % 16 ELSE DEFAULT_RATE_FOR_RTC

RTC_Write ==
    /\ fault = "no"
    /\ pc[buffer_flag] = "user"
    /\ rate' = RTC_set_frequency(DEFAULT_FREQ)
    /\ UNCHANGED <<boot, pc, buffer_flag, fault, controllers, setup, PF, RTC_iflag, scancode, ticked,
                   stuck, missed>>

-----------------------------------------------------------------------------
(***************************************************************************)
(* The devices.                                                            *)
(***************************************************************************)
TimerTick ==
    /\ fault = "no"
    /\ irr' = irr \cup {PIT_IRQ}
    /\ UNCHANGED <<boot, pc, buffer_flag, fault, isr, imr, special, setup, clock, scancode, ticked,
                   stuck, missed>>

\* The line rises unless register C still holds an earlier tick.
ClockTick ==
    /\ fault = "no"
    /\ rate \in LOWRANGE .. HIGHRANGE
    /\ PF' = TRUE
    /\ irr' = IF PIE /\ ~PF THEN irr \cup {RTC_INTERRUPT} ELSE irr
    /\ UNCHANGED <<boot, pc, buffer_flag, fault, isr, imr, special, setup, rate, RTC_iflag, scancode,
                   ticked, stuck, missed>>

\* The next scancode comes when the last one was taken.
PressKey(k) ==
    /\ fault = "no"
    /\ scancode = None
    /\ scancode' = k
    /\ irr' = irr \cup {KEYBOARD_IRQ}
    /\ UNCHANGED <<boot, pc, buffer_flag, fault, isr, imr, special, setup, clock, ticked, stuck, missed>>

Keyboard == KEYBOARD \/ KEYBOARD_Fault \/ \E n \in Terminals : KEYBOARD_Switch(n)
Reading == ClearFlag \/ Wake \/ Return

Next ==
    \/ Boot
    \/ PIT_handler \/ RTC_handler \/ Keyboard
    \/ RTC_Read \/ Reading \/ RTC_Write
    \/ TimerTick \/ ClockTick \/ \E k \in Keys : PressKey(k)

Spec == Init /\ [][Next]_vars

\* The processor goes on, the clock ticks, and as the devices are slow against
\* their handlers, a line of lower priority gets its turn.
FairSpec ==
    /\ Spec
    /\ WF_vars(Boot) /\ WF_vars(Reading) /\ WF_vars(ClockTick)
    /\ WF_vars(PIT_handler) /\ SF_vars(RTC_handler) /\ SF_vars(Keyboard)

-----------------------------------------------------------------------------
InterruptsTypeOK ==
    /\ boot \in 0 .. Len(BootOrder)
    /\ pc \in [Terminals -> {"off", "user", "clear", "spin", "woken"}]
    /\ buffer_flag \in Terminals /\ fault \in {"no", "switch", "key"}
    /\ irr \subseteq Lines /\ isr \subseteq AllLines /\ imr \subseteq AllLines /\ special \in BOOLEAN
    /\ video_mem_hist \subseteq 0 .. 2
    /\ PF \in BOOLEAN /\ PIE \in BOOLEAN /\ rate \in LOWRANGE .. HIGHRANGE
    /\ divisor \in 0 .. WORD
    /\ scancode \in Keys \cup {None}
    /\ RTC_iflag \in {0, 1}
    /\ ticked \in [Terminals -> BOOLEAN] /\ stuck \in BOOLEAN /\ missed \in BOOLEAN

\* Whenever interrupts are on, none is in service but the one of a key whose handler
\* faulted: each other handler's end of interrupt reached every controller that
\* acknowledged it, the cascaded one and the one that leaves for another terminal
\* included, and none of them ends the keyboard's in its stead (send_eoi, getchar).
NothingInService == InterruptsOn => isr = IF stuck THEN {KEYBOARD_IRQ} ELSE {}

\* No device is left waiting for an acknowledgement that cannot come: while the
\* clock's or the keyboard's line is high, its edge is pending at the controller
\* (RTC_handler reads register C, getchar the scancode; boot resets the controllers
\* before it turns the clock on).  A key pressed before that reset is the exception.
NoEdgeLost ==
    /\ PF /\ PIE => RTC_INTERRUPT \in irr
    /\ scancode # None => KEYBOARD_IRQ \in irr \/ missed

\* A read of the clock that is about to return saw a tick after its call, although
\* the flag is shared by all terminals and ticks go on while others are on screen
\* (RTC_Read, RTC_handler).
ReadWaitsForTick == \A t \in Terminals : pc[t] = "woken" => ticked[t]

\* Changing terminals cannot fault once the first shell runs: by then every
\* terminal's page is mapped (multi_terminal_init, switch_terminal).
SwitchSafeAfterBoot == [][~Booting /\ fault = "no" => fault' # "switch"]_vars

\* A read of the clock ends, unless another terminal comes on screen before it does or
\* a key's handler faulted: the clock is below the keyboard at the controller.
TickEndsRead ==
    \A t \in Terminals :
        pc[t] \in {"clear", "spin", "woken"} /\ buffer_flag = t
            ~> pc[t] = "user" \/ buffer_flag # t \/ fault # "no" \/ stuck

\* Every key pressed is taken by the handler, whatever else interrupts, unless the
\* handler faulted or the key came before boot reset the controllers.
KeysTaken == scancode # None ~> scancode = None \/ fault # "no" \/ stuck \/ missed
=============================================================================
