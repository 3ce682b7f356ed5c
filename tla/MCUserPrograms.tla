--------------------------- MODULE MCUserPrograms ---------------------------
(***************************************************************************)
(* Model checking of UserPrograms: an image with a directory, the clock    *)
(* and six programs; one file is longer than one read of cat.              *)
(***************************************************************************)
EXTENDS UserPrograms

Program(name, p, length) ==
    [name |-> name, type |-> "SINGLE_FILE", length |-> length, program |-> p]

MCDirectory ==
    LET entries == <<
            [name |-> <<".">>, type |-> "DIRECTORY", length |-> 0, program |-> ""],
            Program(<<"h", "e">>, "shell", 1500), Program(<<"f">>, "free", 1000),
            Program(<<"l", "s">>, "ls", 1000), Program(<<"g", "r">>, "grep", 1000),
            Program(<<"c", "a">>, "cat", 1000),
            [name |-> <<"r", "t">>, type |-> "RTC", length |-> 0, program |-> ""],
            Program(<<"s", "y", "s">>, "syserr", 1000) >>
    IN  [f \in 0 .. Len(entries) - 1 |-> entries[f + 1]]

MCShellName == <<"h", "e">>

\* On terminal 0 every program but ls is run; on terminal 1 ls and more shells.
MCTyped == [t \in Terminals |->
    IF t = 0
    THEN { <<<<"f">>>>, <<<<"g", "r">>, <<"x">>>>,
           <<<<"c", "a">>, <<"h", "e">>>>, <<<<"c", "a">>>>, <<<<"c", "a">>, <<"x">>>>,
           <<<<"s", "y", "s">>>>, <<<<"r", "t">>>> }
    ELSE { <<<<"l", "s">>>>, <<<<"h", "e">>>> }]

ASSUME GrepsHaveArguments /\ CatsReadFiles

Call(call, arg) == [call |-> call, arg |-> arg, nbytes |-> 600]

MCCalls ==
    {Call("open", name) : name \in {<<"f">>}} \cup
    {Call(call, fd) : call \in {"read", "write", "close"}, fd \in -1 .. SIZE_OF_FILE_ARRAY} \cup
    {[Call("read", 2) EXCEPT !.nbytes = n] : n \in {0, -1, -700}} \cup
    {Call("vidmap", TRUE), Call("set_handler", 0), Call("sigreturn", 0), Call("getargs", 0)}

\* Shells run from shells, which fill the table, and free programs, which make
\* calls in any order, are not combined with listings that are under way.
ListingsApart ==
    read_directory_index # 0 =>
        \A i \in Live : prog[i] # "free" /\ (prog[i] = "shell" => parent_PCB[i] = i)

\* What is still read: records, descriptors and commands of free slots, results
\* already looked at, the context saved for the terminal on screen and histories
\* of ProcessTerminals are left out.
View ==
    <<[i \in Live |-> <<Record(i), file_array[i], command_global[i]>>],
      cpu, execute_status,
      [t \in Terminals \ {buffer_flag} |-> <<PID[t], PPID[t], saved_esp[t]>>],
      buffer_flag, nxt_term, mode, mode = "restart" /\ loop = 1, relocated,
      read_directory_index, eax = NullCall, programs>>
=============================================================================
