-------------------------- MODULE InterruptsProofs --------------------------
(***************************************************************************)
(* Proofs about Interrupts for every set of terminals and every frequency. *)
(***************************************************************************)
EXTENDS Interrupts, TLAPS

\* What boot has set up by its steps done, and what cannot have happened before.
SetUp ==
    /\ PIE => boot >= 4
    /\ buffer_flag # 0 => boot >= 8
    /\ stuck => boot >= 8 /\ KEYBOARD_IRQ \notin imr
    /\ boot >= 12 => 2 \in video_mem_hist
    /\ boot >= 13 => 1 \in video_mem_hist
    /\ boot >= 14 => 0 \in video_mem_hist

\* In service is nothing but a keyboard interrupt whose handler faulted.
InService == isr = IF stuck THEN {KEYBOARD_IRQ} ELSE {}

\* A read that finds the flag set, or found it, saw a tick.
TickSeen ==
    \A t \in Terminals : pc[t] = "woken" \/ (pc[t] = "spin" /\ RTC_iflag = 1) => ticked[t]

\* The type invariant in two parts, the truth values and the others.
FlagsTyped ==
    /\ fault \in {"no", "switch", "key"} /\ special \in BOOLEAN
    /\ stuck \in BOOLEAN /\ missed \in BOOLEAN
    /\ PF \in BOOLEAN /\ PIE \in BOOLEAN
    /\ ticked \in [Terminals -> BOOLEAN]

ValuesTyped ==
    /\ boot \in 0 .. 15
    /\ pc \in [Terminals -> {"off", "user", "clear", "spin", "woken"}]
    /\ buffer_flag \in Terminals
    /\ irr \subseteq Lines /\ imr \subseteq AllLines
    /\ video_mem_hist \subseteq 0 .. 2
    /\ rate \in LOWRANGE .. HIGHRANGE
    /\ divisor \in 0 .. WORD
    /\ scancode \in Keys \cup {None}
    /\ RTC_iflag \in {0, 1}

IInv == FlagsTyped /\ ValuesTyped /\ SetUp /\ InService /\ NoEdgeLost /\ TickSeen

LEMMA BootSteps ==
    /\ Len(BootOrder) = 15
    /\ BootOrder[1] = "i8259_init" /\ BootOrder[2] = "IDT_init" /\ BootOrder[3] = "init_paging"
    /\ BootOrder[4] = "RTC_init" /\ BootOrder[5] = "enable_2" /\ BootOrder[6] = "enable_8"
    /\ BootOrder[7] = "enable_1" /\ BootOrder[8] = "sti" /\ BootOrder[9] = "initialize_boot"
    /\ BootOrder[10] = "init_PCB_array" /\ BootOrder[11] = "PIT_init"
    /\ BootOrder[12] = "terminal_2" /\ BootOrder[13] = "terminal_1" /\ BootOrder[14] = "terminal_0"
    /\ BootOrder[15] = "execute"
BY DEF BootOrder

\* A step of boot happens at its place only.
LEMMA StepAt ==
    ASSUME boot \in 0 .. 15
    PROVE  /\ Step("i8259_init") => boot = 0
           /\ Step("RTC_init") => boot = 3
           /\ Step("terminal_2") => boot = 11
           /\ Step("terminal_1") => boot = 12
           /\ Step("terminal_0") => boot = 13
           /\ \A s : Step(s) => boot < 15 /\ boot' = boot + 1 /\ buffer_flag = 0
<1>1. \A s : Step(s) => boot < 15 /\ boot' = boot + 1 /\ buffer_flag = 0 /\ BootOrder[boot + 1] = s
  BY BootSteps DEF Step, Booting
<1>2. boot < 15 => boot \in {0, 1, 2, 3, 4, 5, 6, 7, 8, 9, 10, 11, 12, 13, 14}
  OBVIOUS
<1> QED BY <1>1, <1>2, BootSteps

\* What is done once interrupts are on.
LEMMA DoneAt == boot \in 0 .. 15 /\ Done("sti") => boot >= 8
<1> SUFFICES ASSUME boot \in 0 .. 15, NEW j \in 1 .. boot, BootOrder[j] = "sti"
             PROVE  boot >= 8
  BY DEF Done
<1>1. j \in {1, 2, 3, 4, 5, 6, 7} \/ j >= 8
  OBVIOUS
<1> QED BY <1>1, BootSteps

\* Interrupts are delivered after the sti of boot only, also on another terminal.
LEMMA DeliveredAfterSti ==
    ASSUME ValuesTyped, SetUp, InterruptsOn
    PROVE  boot >= 8
BY BootSteps, DoneAt DEF ValuesTyped, SetUp, InterruptsOn, Booting

\* A keyboard interrupt in service holds back itself and the clock.
LEMMA StuckBlocks ==
    ASSUME SetUp, InService, stuck, NEW l \in Lines, ~Blocked(l)
    PROVE  l = PIT_IRQ
<1>1. isr = {1} /\ 1 \notin imr
  BY Zenon DEF InService, SetUp, KEYBOARD_IRQ
<1>2. l # 1
  BY <1>1 DEF Blocked
<1>3. l # 8
  BY <1>1 DEF Blocked, Level, HALFWAY, CASCADE
<1> QED BY <1>2, <1>3 DEF Lines, PIT_IRQ, KEYBOARD_IRQ, RTC_INTERRUPT

\* The end of interrupt reaches all that acknowledged the line, and no other.
LEMMA EoiEnds ==
    ASSUME SetUp, InService, stuck \in BOOLEAN, NEW l \in Lines, Deliverable(l),
           send_eoi(l, Acknowledged(l))
    PROVE  isr' = isr
<1>1. isr' = (isr \cup {l, Level(l)}) \ {l, Level(l)}
  BY Zenon DEF send_eoi, Acknowledged
<1>2. CASE stuck
  <2>1. l = PIT_IRQ
    BY <1>2, StuckBlocks, Zenon DEF Deliverable
  <2>2. l = 0 /\ Level(l) = 0 /\ isr = {1}
    BY <1>2, <2>1 DEF PIT_IRQ, Level, HALFWAY, InService, KEYBOARD_IRQ
  <2> QED BY <1>1, <2>2
<1>3. CASE ~stuck
  BY <1>1, <1>3 DEF InService
<1> QED BY <1>2, <1>3

LEMMA LinesTyped == /\ {PIT_IRQ, KEYBOARD_IRQ, RTC_INTERRUPT, CASCADE} \subseteq AllLines
                    /\ {PIT_IRQ, KEYBOARD_IRQ, RTC_INTERRUPT} = Lines
                    /\ PIT_IRQ # RTC_INTERRUPT /\ PIT_IRQ # KEYBOARD_IRQ
                    /\ KEYBOARD_IRQ # RTC_INTERRUPT
BY DEF AllLines, Lines, PIT_IRQ, KEYBOARD_IRQ, RTC_INTERRUPT, CASCADE

LEMMA WordTyped == 0 \in 0 .. WORD /\ \A q \in Nat : q % (WORD + 1) \in 0 .. WORD
<1>1. PICK w \in Nat : w = WORD
  BY DEF WORD
<1>2. 0 \in 0 .. w /\ \A q \in Nat : q % (w + 1) \in 0 .. w
  OBVIOUS
<1> QED BY <1>1, <1>2

\* The parts of the invariant.
LEMMA Parts == IInv => /\ FlagsTyped /\ ValuesTyped /\ SetUp /\ InService /\ NoEdgeLost /\ TickSeen
                       /\ boot \in 0 .. 15 /\ stuck \in BOOLEAN
<1> SUFFICES ASSUME IInv PROVE FlagsTyped /\ ValuesTyped /\ SetUp /\ InService /\ NoEdgeLost
                               /\ TickSeen /\ boot \in 0 .. 15 /\ stuck \in BOOLEAN
  OBVIOUS
<1>1. FlagsTyped /\ ValuesTyped /\ SetUp /\ InService /\ NoEdgeLost /\ TickSeen
  BY Zenon DEF IInv
<1> QED BY <1>1, Zenon DEF FlagsTyped, ValuesTyped

LEMMA InitInv == Init => IInv
<1> SUFFICES ASSUME Init PROVE IInv OBVIOUS
<1>1. FlagsTyped
  BY Zenon DEF Init, FlagsTyped
<1>2. ValuesTyped
  BY TerminalAssumption, WordTyped
  DEF Init, ValuesTyped, LOWRANGE, HIGHRANGE, DEFAULT_RATE_FOR_RTC
<1>3. SetUp /\ NoEdgeLost /\ InService
  BY DEF Init, SetUp, NoEdgeLost, InService
<1>4. TickSeen
  BY DEF Init, TickSeen
<1> QED BY <1>1, <1>2, <1>3, <1>4 DEF IInv

QuietSteps == {"IDT_init", "init_paging", "enable_2", "enable_8", "enable_1", "sti",
               "initialize_boot", "init_PCB_array", "PIT_init", "execute"}

LEMMA QuietStepAt ==
    ASSUME boot \in 0 .. 15, NEW s \in QuietSteps, Step(s)
    PROVE  boot' = boot + 1 /\ boot \in {1, 2, 4, 5, 6, 7, 8, 9, 10, 14}
<1>1. boot < 15 /\ boot' = boot + 1 /\ BootOrder[boot + 1] = s
  BY BootSteps DEF Step, Booting
<1>2. boot \in {0, 1, 2, 3, 4, 5, 6, 7, 8, 9, 10, 11, 12, 13, 14}
  BY <1>1
<1>3. boot \notin {0, 3, 11, 12, 13}
  BY <1>1, BootSteps DEF QuietSteps
<1> QED BY <1>1, <1>2, <1>3

\* The steps of boot that neither reset a controller, turn the clock on nor map a page.
LEMMA QuietStepInv ==
    ASSUME IInv, \E s \in QuietSteps : Step(s),
           UNCHANGED <<irr, isr, special, video_mem_hist, PIE, missed>>,
           imr' \subseteq imr, divisor' \in 0 .. WORD,
           pc' \in [Terminals -> {"off", "user", "clear", "spin", "woken"}],
           \A t \in Terminals : pc'[t] = pc[t] \/ pc'[t] = "user"
    PROVE  IInv'
<1>1. /\ FlagsTyped /\ ValuesTyped /\ SetUp /\ InService /\ NoEdgeLost /\ TickSeen
      /\ boot \in 0 .. 15
  BY Parts, Zenon
<1>2. boot' = boot + 1 /\ boot \in {1, 2, 4, 5, 6, 7, 8, 9, 10, 14}
  BY <1>1, QuietStepAt
<1>3. UNCHANGED <<buffer_flag, fault, scancode, RTC_iflag, rate, PF, ticked, stuck>>
  BY Zenon DEF Step
<1>4. FlagsTyped'
  BY <1>1, <1>3, Zenon DEF FlagsTyped
<1>5. ValuesTyped'
  BY <1>1, <1>2, <1>3 DEF ValuesTyped
<1>6. SetUp'
  BY <1>1, <1>2, <1>3 DEF SetUp
<1>7. TickSeen'
  BY <1>1, <1>3 DEF TickSeen
<1>8. NoEdgeLost' /\ InService'
  BY <1>1, <1>3, Zenon DEF NoEdgeLost, InService
<1> QED BY <1>4, <1>5, <1>6, <1>7, <1>8, Zenon DEF IInv

\* Boot turns the clock on after it has reset the controllers.
LEMMA BootInv == IInv /\ Boot => IInv'
<1> SUFFICES ASSUME IInv, Boot PROVE IInv' OBVIOUS
<1>0. /\ FlagsTyped /\ ValuesTyped /\ SetUp /\ InService /\ NoEdgeLost /\ TickSeen
      /\ boot \in 0 .. 15 /\ stuck \in BOOLEAN
  BY Parts, Zenon
<1>1. CASE i8259_init
  <2>1. boot = 0 /\ boot' = 1
    BY <1>0, <1>1, StepAt DEF i8259_init
  <2>2. ~PIE /\ ~stuck /\ buffer_flag = 0
    BY <1>0, <2>1 DEF SetUp
  <2>3. /\ UNCHANGED <<buffer_flag, fault, scancode, RTC_iflag, rate, PF, ticked, stuck>>
        /\ UNCHANGED <<pc, video_mem_hist, PIE, divisor>>
        /\ irr' = {} /\ isr' = {} /\ imr' = AllLines /\ special' = FALSE
        /\ missed' = (scancode # None)
    BY <1>1, Zenon DEF i8259_init, Step, setup
  <2>4. missed' \in BOOLEAN
    BY <2>3
  <2>5. FlagsTyped'
    BY <1>0, <2>3, <2>4, Zenon DEF FlagsTyped
  <2>6. ValuesTyped'
    BY <1>0, <2>1, <2>3 DEF ValuesTyped
  <2>7. SetUp'
    BY <2>1, <2>2, <2>3 DEF SetUp
  <2>8. TickSeen'
    BY <1>0, <2>3 DEF TickSeen
  <2>9. NoEdgeLost' /\ InService'
    BY <2>2, <2>3, Zenon DEF NoEdgeLost, InService
  <2> QED BY <2>5, <2>6, <2>7, <2>8, <2>9 DEF IInv
<1>3. CASE RTC_init
  <2>1. boot = 3 /\ boot' = 4
    BY <1>0, <1>3, StepAt DEF RTC_init
  <2>2. ~PIE
    BY <1>0, <2>1 DEF SetUp
  <2>3. /\ UNCHANGED <<buffer_flag, fault, scancode, RTC_iflag, rate, PF, ticked, stuck>>
        /\ UNCHANGED <<pc, isr, imr, special, video_mem_hist, divisor, missed>>
        /\ PIE' = TRUE
        /\ irr' = IF PF THEN irr \cup {RTC_INTERRUPT} ELSE irr
    BY <1>3, <2>2 DEF RTC_init, Step
  <2>4. FlagsTyped'
    BY <1>0, <2>3, Zenon DEF FlagsTyped
  <2>5. ValuesTyped'
    BY <1>0, <2>1, <2>3, LinesTyped DEF ValuesTyped
  <2>6. SetUp'
    BY <1>0, <2>1, <2>3 DEF SetUp
  <2>7. TickSeen'
    BY <1>0, <2>3 DEF TickSeen
  <2>8. NoEdgeLost' /\ InService'
    BY <1>0, <2>3 DEF NoEdgeLost, InService
  <2> QED BY <2>4, <2>5, <2>6, <2>7, <2>8 DEF IInv
<1>4. CASE EnableStep
  <2>1. \E s \in QuietSteps : Step(s)
    BY <1>4, Zenon DEF EnableStep, QuietSteps
  <2>2. imr' \subseteq imr
    BY <1>4 DEF EnableStep, enable_irq
  <2>3. UNCHANGED <<irr, isr, special, video_mem_hist, PIE, divisor, pc, missed>>
    BY <1>4, Zenon DEF EnableStep, setup
  <2> QED BY <1>0, <2>1, <2>2, <2>3, QuietStepInv DEF ValuesTyped
<1>5. CASE QuietStep \/ ExecuteShell
  <2>1. \E s \in QuietSteps : Step(s)
    BY <1>5, Zenon DEF QuietStep, ExecuteShell, QuietSteps
  <2>2. UNCHANGED <<irr, isr, imr, special, video_mem_hist, PIE, divisor, missed>>
    BY <1>5, Zenon DEF QuietStep, ExecuteShell, controllers, setup
  <2>3. /\ pc' \in [Terminals -> {"off", "user", "clear", "spin", "woken"}]
        /\ \A t \in Terminals : pc'[t] = pc[t] \/ pc'[t] = "user"
    BY <1>0, <1>5 DEF ValuesTyped, QuietStep, ExecuteShell
  <2> QED BY <1>0, <2>1, <2>2, <2>3, QuietStepInv DEF ValuesTyped
<1>6. CASE PIT_init
  <2>1. \E s \in QuietSteps : Step(s)
    BY <1>6, Zenon DEF PIT_init, QuietSteps
  <2>2. divisor' \in 0 .. WORD
    <3>1. PICK q \in Nat : q = HIGHEST_FREQ \div TIMER_FREQ
      BY ClockAssumption DEF HIGHEST_FREQ
    <3> QED BY <1>6, <3>1, WordTyped DEF PIT_init
  <2>3. imr' \subseteq imr
    BY <1>6 DEF PIT_init, enable_irq, disable_irq
  <2>4. UNCHANGED <<pc, irr, isr, special, video_mem_hist, PIE, missed>>
    BY <1>6, Zenon DEF PIT_init
  <2> QED BY <1>0, <2>1, <2>2, <2>3, <2>4, QuietStepInv DEF ValuesTyped
<1>7. CASE \E n \in 0 .. 2 : multi_terminal_init(n)
  <2>1. PICK n \in 0 .. 2 : multi_terminal_init(n)
    BY <1>7
  <2>2. /\ n = 0 => Step("terminal_0")
        /\ n = 1 => Step("terminal_1")
        /\ n = 2 => Step("terminal_2")
        /\ n \in {0, 1, 2}
    BY <2>1 DEF multi_terminal_init
  <2>3. boot = 13 - n /\ boot' = boot + 1
    BY <1>0, <2>2, StepAt
  <2>4. /\ UNCHANGED <<buffer_flag, fault, scancode, RTC_iflag, rate, PF, ticked, stuck>>
        /\ UNCHANGED <<pc, irr, isr, imr, special, PIE, divisor, missed>>
        /\ video_mem_hist' = video_mem_hist \cup {n}
    BY <2>1, Zenon DEF multi_terminal_init, Step, controllers
  <2>5. FlagsTyped'
    BY <1>0, <2>4, Zenon DEF FlagsTyped
  <2>6. ValuesTyped'
    BY <1>0, <2>2, <2>3, <2>4 DEF ValuesTyped
  <2>7. SetUp'
    BY <1>0, <2>2, <2>3, <2>4 DEF SetUp
  <2>8. TickSeen'
    BY <1>0, <2>4 DEF TickSeen
  <2>9. NoEdgeLost' /\ InService'
    BY <1>0, <2>4, Zenon DEF NoEdgeLost, InService
  <2> QED BY <2>5, <2>6, <2>7, <2>8, <2>9 DEF IInv
<1> QED BY <1>1, <1>3, <1>4, <1>5, <1>6, <1>7, Zenon DEF Boot

\* The timer's and the clock's handler leave boot and programs alone.
LEMMA InterruptEnds ==
    ASSUME SetUp, InService, stuck \in BOOLEAN, NEW l \in Lines, Interrupt(l)
    PROVE  /\ isr' = isr /\ irr' = irr \ {l}
           /\ UNCHANGED <<boot, pc, imr, video_mem_hist, PIE, divisor, rate, stuck, missed>>
           /\ special \in BOOLEAN => special' \in BOOLEAN
<1>1. isr' = isr
  BY EoiEnds, Zenon DEF Interrupt
<1>2. special \in BOOLEAN => special' \in BOOLEAN
  BY Zenon DEF Interrupt, send_eoi
<1> QED BY <1>1, <1>2, Zenon DEF Interrupt, setup

\* The keyboard's handler, where it reaches its end of interrupt.
LEMMA KeyEnds ==
    ASSUME SetUp, InService, stuck \in BOOLEAN, KEYBOARD \/ \E n \in Terminals : KEYBOARD_Switch(n)
    PROVE  /\ isr' = isr /\ irr' = irr \ {KEYBOARD_IRQ} /\ scancode' = None
           /\ UNCHANGED <<boot, imr, video_mem_hist, PIE, divisor, PF, rate, RTC_iflag, ticked,
                          stuck, missed>>
           /\ special \in BOOLEAN => special' \in BOOLEAN
<1>1. /\ TakeKey /\ send_eoi(KEYBOARD_IRQ, Acknowledged(KEYBOARD_IRQ))
      /\ UNCHANGED <<boot, imr, setup, clock, ticked, stuck, missed>>
  BY Zenon DEF KEYBOARD, KEYBOARD_Switch
<1>2. isr' = isr
  BY <1>1, LinesTyped, EoiEnds, Zenon DEF TakeKey
<1>3. special \in BOOLEAN => special' \in BOOLEAN
  BY <1>1, Zenon DEF send_eoi
<1> QED BY <1>1, <1>2, <1>3, Zenon DEF TakeKey, setup, clock

\* Each handler reads the register that keeps its device's line high.
LEMMA HandlersInv == IInv /\ (PIT_handler \/ RTC_handler) => IInv'
<1> SUFFICES ASSUME IInv, PIT_handler \/ RTC_handler PROVE IInv' OBVIOUS
<1>0. /\ FlagsTyped /\ ValuesTyped /\ SetUp /\ InService /\ NoEdgeLost /\ TickSeen
      /\ boot \in 0 .. 15 /\ stuck \in BOOLEAN
  BY Parts, Zenon
<1>1. PICK l \in Lines : Interrupt(l)
  BY LinesTyped DEF PIT_handler, RTC_handler
<1>2. /\ isr' = isr
      /\ UNCHANGED <<boot, pc, imr, video_mem_hist, PIE, divisor, rate, stuck, missed>>
      /\ special' \in BOOLEAN
  BY <1>0, <1>1, InterruptEnds, Zenon DEF FlagsTyped
<1>3. UNCHANGED <<buffer_flag, fault>>
  BY Zenon DEF PIT_handler, RTC_handler
<1>4. CASE PIT_handler
  <2>1. irr' = irr \ {PIT_IRQ} /\ UNCHANGED <<PF, RTC_iflag, scancode, ticked>>
    BY <1>4, Zenon DEF PIT_handler, Interrupt
  <2>2. FlagsTyped'
    BY <1>0, <1>2, <1>3, <2>1, Zenon DEF FlagsTyped
  <2>3. ValuesTyped'
    BY <1>0, <1>2, <1>3, <2>1 DEF ValuesTyped
  <2>4. SetUp'
    BY <1>0, <1>2, <1>3, <2>1 DEF SetUp
  <2>5. NoEdgeLost' /\ InService'
    BY <1>0, <1>2, <2>1, LinesTyped DEF NoEdgeLost, InService
  <2>6. TickSeen'
    BY <1>0, <1>2, <2>1 DEF TickSeen
  <2> QED BY <1>2, <2>2, <2>3, <2>4, <2>5, <2>6 DEF IInv
<1>5. CASE RTC_handler
  <2>1. /\ irr' = irr \ {RTC_INTERRUPT} /\ scancode' = scancode
        /\ PF' = FALSE /\ RTC_iflag' = 1 /\ ticked' = [t \in Terminals |-> TRUE]
    BY <1>5, Zenon DEF RTC_handler, Interrupt
  <2>2. FlagsTyped'
    BY <1>0, <1>2, <1>3, <2>1, Zenon DEF FlagsTyped
  <2>3. ValuesTyped'
    BY <1>0, <1>2, <1>3, <2>1 DEF ValuesTyped
  <2>4. SetUp'
    BY <1>0, <1>2, <1>3, <2>1 DEF SetUp
  <2>5. NoEdgeLost' /\ InService'
    BY <1>0, <1>2, <2>1, LinesTyped DEF NoEdgeLost, InService
  <2>6. TickSeen'
    BY <2>1 DEF TickSeen
  <2> QED BY <1>2, <2>2, <2>3, <2>4, <2>5, <2>6 DEF IInv
<1> QED BY <1>4, <1>5

\* A key that the handler is done with, a switch of terminals included: it comes after
\* the sti of boot, and ends its interrupt before it leaves.
LEMMA KeyInv == IInv /\ (KEYBOARD \/ \E n \in Terminals : KEYBOARD_Switch(n)) => IInv'
<1> SUFFICES ASSUME IInv, KEYBOARD \/ \E n \in Terminals : KEYBOARD_Switch(n) PROVE IInv' OBVIOUS
<1>0. /\ FlagsTyped /\ ValuesTyped /\ SetUp /\ InService /\ NoEdgeLost /\ TickSeen
      /\ boot \in 0 .. 15 /\ stuck \in BOOLEAN
  BY Parts, Zenon
<1>1. InterruptsOn
  BY Zenon DEF KEYBOARD, KEYBOARD_Switch, TakeKey, Deliverable
<1>2. boot >= 8
  BY <1>0, <1>1, DeliveredAfterSti
<1>3. /\ isr' = isr /\ irr' = irr \ {KEYBOARD_IRQ} /\ scancode' = None
      /\ UNCHANGED <<boot, imr, video_mem_hist, PIE, divisor, PF, rate, RTC_iflag, ticked,
                     stuck, missed>>
      /\ special' \in BOOLEAN
  BY <1>0, KeyEnds, Zenon DEF FlagsTyped
<1>4. fault' \in {"no", "switch", "key"}
  BY <1>0, Zenon DEF KEYBOARD, KEYBOARD_Switch, Switch, FlagsTyped
<1>5. /\ buffer_flag' \in Terminals
      /\ pc' \in [Terminals -> {"off", "user", "clear", "spin", "woken"}]
      /\ \A t \in Terminals : pc'[t] = pc[t] \/ pc'[t] = "user"
  BY <1>0 DEF KEYBOARD, KEYBOARD_Switch, Switch, ValuesTyped
<1>6. FlagsTyped'
  BY <1>0, <1>3, <1>4, Zenon DEF FlagsTyped
<1>7. ValuesTyped'
  BY <1>0, <1>3, <1>5 DEF ValuesTyped
<1>8. SetUp'
  BY <1>0, <1>2, <1>3 DEF SetUp
<1>9. NoEdgeLost' /\ InService'
  BY <1>0, <1>3, LinesTyped DEF NoEdgeLost, InService
<1>10. TickSeen'
  BY <1>0, <1>3, <1>5 DEF TickSeen
<1> QED BY <1>6, <1>7, <1>8, <1>9, <1>10 DEF IInv

\* A key whose handler faults: the first one leaves the keyboard's interrupt in
\* service, and no other key is delivered after it.
LEMMA KeyFaultInv == IInv /\ KEYBOARD_Fault => IInv'
<1> SUFFICES ASSUME IInv, KEYBOARD_Fault PROVE IInv' OBVIOUS
<1>0. /\ FlagsTyped /\ ValuesTyped /\ SetUp /\ InService /\ NoEdgeLost /\ TickSeen
      /\ boot \in 0 .. 15 /\ stuck \in BOOLEAN
  BY Parts, Zenon
<1>1. Deliverable(KEYBOARD_IRQ)
  BY Zenon DEF KEYBOARD_Fault, TakeKey
<1>2. boot >= 8 /\ KEYBOARD_IRQ \notin imr
  BY <1>0, <1>1, DeliveredAfterSti DEF Deliverable, Asks
<1>3. ~stuck
  BY <1>0, <1>1, StuckBlocks, LinesTyped, Zenon DEF Deliverable
<1>4. /\ isr' = isr \cup {KEYBOARD_IRQ, Level(KEYBOARD_IRQ)} /\ stuck' = TRUE
      /\ irr' = irr \ {KEYBOARD_IRQ} /\ scancode' = None
      /\ UNCHANGED <<boot, imr, special, video_mem_hist, PIE, divisor, PF, rate, RTC_iflag,
                     buffer_flag, ticked, missed>>
  BY Zenon DEF KEYBOARD_Fault, TakeKey, Acknowledged, setup, clock
<1>5. isr' = {KEYBOARD_IRQ}
  BY <1>0, <1>3, <1>4 DEF InService, Level, HALFWAY, KEYBOARD_IRQ
<1>6. fault' \in {"no", "switch", "key"}
  BY <1>0, Zenon DEF KEYBOARD_Fault, FlagsTyped
<1>7. /\ pc' \in [Terminals -> {"off", "user", "clear", "spin", "woken"}]
      /\ \A t \in Terminals : pc'[t] = pc[t] \/ pc'[t] = "user"
  BY <1>0 DEF KEYBOARD_Fault, ValuesTyped
<1>8. FlagsTyped'
  BY <1>0, <1>4, <1>6, Zenon DEF FlagsTyped
<1>9. ValuesTyped'
  BY <1>0, <1>4, <1>7 DEF ValuesTyped
<1>10. SetUp'
  BY <1>0, <1>2, <1>4 DEF SetUp
<1>11. NoEdgeLost' /\ InService'
  BY <1>0, <1>4, <1>5, LinesTyped DEF NoEdgeLost, InService
<1>12. TickSeen'
  BY <1>0, <1>4, <1>7 DEF TickSeen
<1> QED BY <1>8, <1>9, <1>10, <1>11, <1>12 DEF IInv

\* What a program does changes its own place, the flag and its history only.
LEMMA ProgramInv == IInv /\ (RTC_Read \/ Reading \/ RTC_Write) => IInv'
<1> SUFFICES ASSUME IInv, RTC_Read \/ Reading \/ RTC_Write PROVE IInv' OBVIOUS
<1>0. /\ FlagsTyped /\ ValuesTyped /\ SetUp /\ InService /\ NoEdgeLost /\ TickSeen
      /\ boot \in 0 .. 15 /\ stuck \in BOOLEAN
  BY Parts, Zenon
<1>1. UNCHANGED <<boot, buffer_flag, fault, irr, isr, imr, special, stuck, missed,
                  video_mem_hist, PIE, divisor, PF, scancode>>
  BY Zenon DEF RTC_Read, Reading, ClearFlag, Wake, Return, RTC_Write, Goes, controllers, setup
<1>2. SetUp' /\ NoEdgeLost' /\ InService'
  BY <1>0, <1>1, Zenon DEF SetUp, NoEdgeLost, InService
<1>3. CASE RTC_Write
  <2>1. UNCHANGED <<pc, RTC_iflag, ticked>>
    BY <1>3, Zenon DEF RTC_Write
  <2>2. rate' \in LOWRANGE .. HIGHRANGE
    <3>1. PICK h : h = Halvings[DEFAULT_FREQ]
      OBVIOUS
    <3>2. rate' = IF h \in 3 .. 15 THEN h % 16 ELSE 6
      BY <1>3, <3>1 DEF RTC_Write, RTC_set_frequency, LOWRANGE, HIGHRANGE, DEFAULT_RATE_FOR_RTC
    <3> QED BY <3>2 DEF LOWRANGE, HIGHRANGE
  <2>3. FlagsTyped'
    BY <1>0, <1>1, <2>1, Zenon DEF FlagsTyped
  <2>4. ValuesTyped'
    BY <1>0, <1>1, <2>1, <2>2 DEF ValuesTyped
  <2>5. TickSeen'
    BY <1>0, <2>1 DEF TickSeen
  <2> QED BY <1>2, <2>3, <2>4, <2>5 DEF IInv
<1>4. CASE RTC_Read
  <2>1. /\ pc' = [pc EXCEPT ![buffer_flag] = "clear"]
        /\ ticked' = [ticked EXCEPT ![buffer_flag] = FALSE]
        /\ UNCHANGED <<RTC_iflag, rate>>
    BY <1>4, Zenon DEF RTC_Read, Goes
  <2>2. FlagsTyped'
    BY <1>0, <1>1, <2>1, Zenon DEF FlagsTyped
  <2>3. ValuesTyped'
    BY <1>0, <1>1, <2>1 DEF ValuesTyped
  <2>4. TickSeen'
    BY <1>0, <2>1 DEF TickSeen, ValuesTyped, FlagsTyped
  <2> QED BY <1>2, <2>2, <2>3, <2>4 DEF IInv
<1>5. CASE Reading
  <2>1. ticked' = ticked /\ rate' = rate
    BY <1>5, Zenon DEF Reading, ClearFlag, Wake, Return, Goes
  <2>2. \/ pc' = [pc EXCEPT ![buffer_flag] = "spin"] /\ RTC_iflag' = 0
        \/ /\ pc' = [pc EXCEPT ![buffer_flag] = "woken"] /\ RTC_iflag' = RTC_iflag
           /\ pc[buffer_flag] = "spin" /\ RTC_iflag = 1
        \/ pc' = [pc EXCEPT ![buffer_flag] = "user"] /\ RTC_iflag' = RTC_iflag
    BY <1>5, Zenon DEF Reading, ClearFlag, Wake, Return, Goes
  <2>3. FlagsTyped'
    BY <1>0, <1>1, <2>1, Zenon DEF FlagsTyped
  <2>4. ValuesTyped'
    BY <1>0, <1>1, <2>1, <2>2 DEF ValuesTyped
  <2>5. TickSeen'
    BY <1>0, <2>1, <2>2 DEF TickSeen, ValuesTyped
  <2> QED BY <1>2, <2>3, <2>4, <2>5 DEF IInv
<1> QED BY <1>3, <1>4, <1>5

\* A device that raises its line raises the edge.
LEMMA DevicesInv == IInv /\ (TimerTick \/ ClockTick \/ \E k \in Keys : PressKey(k)) => IInv'
<1> SUFFICES ASSUME IInv, TimerTick \/ ClockTick \/ \E k \in Keys : PressKey(k) PROVE IInv' OBVIOUS
<1>0. /\ FlagsTyped /\ ValuesTyped /\ SetUp /\ InService /\ NoEdgeLost /\ TickSeen
      /\ boot \in 0 .. 15 /\ stuck \in BOOLEAN
  BY Parts, Zenon
<1>1. UNCHANGED <<boot, pc, buffer_flag, fault, isr, imr, special, stuck, missed,
                  video_mem_hist, PIE, divisor, rate, RTC_iflag, ticked>>
  BY Zenon DEF TimerTick, ClockTick, PressKey, setup, clock
<1>2. TickSeen' /\ InService'
  BY <1>0, <1>1, Zenon DEF TickSeen, InService
<1>3. CASE TimerTick
  <2>1. irr' = irr \cup {PIT_IRQ} /\ UNCHANGED <<PF, scancode>>
    BY <1>3, Zenon DEF TimerTick, clock
  <2>2. FlagsTyped'
    BY <1>0, <1>1, <2>1, Zenon DEF FlagsTyped
  <2>3. ValuesTyped'
    BY <1>0, <1>1, <2>1, LinesTyped DEF ValuesTyped
  <2>4. SetUp'
    BY <1>0, <1>1, <2>1, Zenon DEF SetUp
  <2>5. NoEdgeLost'
    BY <1>0, <1>1, <2>1, Zenon DEF NoEdgeLost
  <2> QED BY <1>2, <2>2, <2>3, <2>4, <2>5 DEF IInv
<1>4. CASE ClockTick
  <2>1. /\ PF' = TRUE /\ scancode' = scancode
        /\ irr' = IF PIE /\ ~PF THEN irr \cup {RTC_INTERRUPT} ELSE irr
    BY <1>4, Zenon DEF ClockTick
  <2>2. FlagsTyped'
    BY <1>0, <1>1, <2>1, Zenon DEF FlagsTyped
  <2>3. ValuesTyped'
    BY <1>0, <1>1, <2>1, LinesTyped DEF ValuesTyped
  <2>4. NoEdgeLost'
    BY <1>0, <1>1, <2>1 DEF NoEdgeLost
  <2>5. SetUp'
    BY <1>0, <1>1, <2>1, Zenon DEF SetUp
  <2> QED BY <1>2, <2>2, <2>3, <2>4, <2>5 DEF IInv
<1>5. CASE \E k \in Keys : PressKey(k)
  <2>1. PICK k \in Keys : PressKey(k)
    BY <1>5
  <2>2. scancode' = k /\ PF' = PF /\ irr' = irr \cup {KEYBOARD_IRQ}
    BY <2>1, Zenon DEF PressKey, clock
  <2>4. FlagsTyped'
    BY <1>0, <1>1, <2>2, Zenon DEF FlagsTyped
  <2>5. ValuesTyped'
    BY <1>0, <1>1, <2>2, LinesTyped DEF ValuesTyped
  <2>6. SetUp'
    BY <1>0, <1>1, <2>2, Zenon DEF SetUp
  <2>7. NoEdgeLost'
    BY <1>0, <1>1, <2>2 DEF NoEdgeLost
  <2> QED BY <1>2, <2>4, <2>5, <2>6, <2>7 DEF IInv
<1> QED BY <1>3, <1>4, <1>5

LEMMA NextInv == IInv /\ [Next]_vars => IInv'
<1> SUFFICES ASSUME IInv, [Next]_vars PROVE IInv' OBVIOUS
<1>1. CASE Boot
  BY <1>1, BootInv
<1>2. CASE PIT_handler \/ RTC_handler
  BY <1>2, HandlersInv
<1>3. CASE Keyboard
  BY <1>3, KeyInv, KeyFaultInv, Zenon DEF Keyboard
<1>4. CASE RTC_Read \/ Reading \/ RTC_Write
  BY <1>4, ProgramInv
<1>5. CASE TimerTick \/ ClockTick \/ \E k \in Keys : PressKey(k)
  BY <1>5, DevicesInv
<1>6. CASE UNCHANGED vars
  <2>1. UNCHANGED <<boot, pc, buffer_flag, fault, irr, isr, imr, special, stuck, missed,
                    video_mem_hist, PIE, divisor, PF, rate, RTC_iflag, scancode, ticked>>
    BY <1>6, Zenon DEF vars, controllers, setup, clock
  <2>2. IInv => (FlagsTyped /\ SetUp /\ NoEdgeLost /\ TickSeen)'
    BY <2>1, Zenon DEF IInv, FlagsTyped, SetUp, NoEdgeLost, TickSeen
  <2>3. IInv => (ValuesTyped /\ InService)'
    BY <2>1, Zenon DEF IInv, ValuesTyped, InService
  <2> QED BY <2>2, <2>3, Zenon DEF IInv
<1> QED BY <1>1, <1>2, <1>3, <1>4, <1>5, <1>6, Zenon DEF Next

\* The inductive invariant holds in every state of boot and of the running system.
THEOREM IInvHolds == Spec => []IInv
BY InitInv, NextInv, PTL DEF Spec

\* Every variable of boot, controllers and clock keeps its type.
THEOREM InterruptsTyped == Spec => []InterruptsTypeOK
<1>1. IInv => InterruptsTypeOK
  <2> SUFFICES ASSUME IInv PROVE InterruptsTypeOK OBVIOUS
  <2>1. FlagsTyped /\ ValuesTyped /\ isr \subseteq AllLines
    BY LinesTyped DEF IInv, InService
  <2>2. boot \in 0 .. Len(BootOrder)
    BY <2>1, BootSteps DEF ValuesTyped
  <2> QED BY <2>1, <2>2, Zenon DEF InterruptsTypeOK, FlagsTyped, ValuesTyped
<1> QED BY <1>1, IInvHolds, PTL

\* No handler leaves an interrupt in service but the keyboard's that faulted, whatever
\* the order of interrupts and of changes of terminal (send_eoi, getchar).
THEOREM NothingInServiceHolds == Spec => []NothingInService
<1>1. IInv => NothingInService
  BY Zenon DEF IInv, InService, NothingInService
<1> QED BY <1>1, IInvHolds, PTL

\* The edges of clock and keyboard are pending as long as their lines are high
\* (RTC_handler, getchar, RTC_init after i8259_init), but for a key before that reset.
THEOREM NoEdgeLostHolds == Spec => []NoEdgeLost
<1>1. IInv => NoEdgeLost
  BY DEF IInv
<1> QED BY <1>1, IInvHolds, PTL

\* A read of the clock returns after a tick only, for any number of terminals that
\* share the flag (RTC_Read, RTC_handler).
THEOREM ReadWaitsForTickHolds == Spec => []ReadWaitsForTick
<1>1. IInv => ReadWaitsForTick
  BY Zenon DEF IInv, TickSeen, ReadWaitsForTick
<1> QED BY <1>1, IInvHolds, PTL

\* No change of terminals faults once the first shell runs (multi_terminal_init,
\* switch_terminal).
THEOREM SwitchSafeHolds == Spec => SwitchSafeAfterBoot
<1>1. IInv /\ [Next]_vars => [~Booting /\ fault = "no" => fault' # "switch"]_vars
  <2> SUFFICES ASSUME IInv, Next, ~Booting, fault = "no" PROVE fault' # "switch"
    BY Zenon
  <2>1. ValuesTyped /\ SetUp
    BY Parts, Zenon
  <2>2. {0, 1, 2} \subseteq video_mem_hist
    BY <2>1, BootSteps DEF SetUp, ValuesTyped, Booting
  <2>3. ASSUME NEW n \in Terminals, KEYBOARD_Switch(n) PROVE fault' = "no"
    <3>1. n \in {0, 1, 2} /\ buffer_flag \in {0, 1, 2}
      BY <2>1, TerminalAssumption DEF ValuesTyped
    <3>2. fault' = IF {buffer_flag, n} \subseteq video_mem_hist THEN "no" ELSE "switch"
      BY <2>3, Zenon DEF KEYBOARD_Switch, Switch
    <3> QED BY <2>2, <3>1, <3>2
  <2>4. ASSUME ~ \E n \in Terminals : KEYBOARD_Switch(n) PROVE fault' \in {fault, "key"}
    <3>1. CASE Boot
      <4>1. \E s : Step(s)
        BY <3>1, Zenon DEF Boot, i8259_init, RTC_init, EnableStep, QuietStep, PIT_init,
                    multi_terminal_init, ExecuteShell
      <4> QED BY <4>1, Zenon DEF Step
    <3>2. CASE PIT_handler \/ RTC_handler \/ KEYBOARD
      BY <3>2, Zenon DEF PIT_handler, RTC_handler, KEYBOARD
    <3>3. CASE KEYBOARD_Fault
      BY <3>3, Zenon DEF KEYBOARD_Fault
    <3>4. CASE RTC_Read \/ Reading \/ RTC_Write
      BY <3>4, Zenon DEF RTC_Read, Reading, ClearFlag, Wake, Return, RTC_Write, Goes
    <3>5. CASE TimerTick \/ ClockTick \/ \E k \in Keys : PressKey(k)
      BY <3>5, Zenon DEF TimerTick, ClockTick, PressKey
    <3> QED BY <2>4, <3>1, <3>2, <3>3, <3>4, <3>5, Zenon DEF Next, Keyboard
  <2> QED BY <2>3, <2>4
<1> QED BY <1>1, IInvHolds, PTL DEF Spec, SwitchSafeAfterBoot
=============================================================================
