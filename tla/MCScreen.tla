------------------------------ MODULE MCScreen ------------------------------
(***************************************************************************)
(* An instance of Screen for TLC.                                          *)
(***************************************************************************)
EXTENDS Screen, FiniteSets

MCKeysOn == [t \in {0, 1} |->
    IF t = 0
    THEN {"ENTER", "BACKSPACE", "SHIFT_PRESSED", "SHIFT_RELEASED",
          "RALT_PRESSED", "RALT_RELEASED", "a", FKey(0), FKey(1)}
    ELSE {"l", "CAPSLOCK", "CNTRL_PRESSED", "CNTRL_RELEASED", "RALT_PRESSED", "RALT_RELEASED", FKey(0)}]

\* States with two modifiers in force are not explored further.
OneModifier == capsLockFlag + shiftKeyHoldDown + ctrlKeyHoldDown + altKeyFlag <= 1

\* What is saved of the terminal on screen is dead: leaving it overwrites it.
View == <<screen, cursor, line, enter_flag, buffer_flag, modifiers,
          [t \in Terminals \ {buffer_flag} |-> saved[t]], program, echo, restarted>>

\* Four characters fill a screen; at most three when both pages hold some or while a
\* read is under way, two fewer while page_fault is printing and three fewer while a
\* modifier other than Alt is in force.
Characters(t) == Cardinality({i \in Page : PageOf(t)[i] # Blank})
FewCharacters ==
    LET Both == IF Characters(0) > 0 /\ Characters(1) > 0 THEN 1 ELSE 0
        Held == capsLockFlag + shiftKeyHoldDown + ctrlKeyHoldDown
        Printing == Cardinality({t \in Terminals : printing[t]})
        Reads == Cardinality({t \in Terminals : reading[t]})
    IN  Characters(0) + Characters(1) + Both + 3 * Held + 2 * Printing + Reads <= 4
=============================================================================
