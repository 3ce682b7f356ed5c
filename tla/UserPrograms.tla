---------------------------- MODULE UserPrograms ----------------------------
(***************************************************************************)
(* The programs of the image (syscalls/ece391*.c) as clients of the calls  *)
(* in FileDescriptors: each makes the calls its main makes, in order, and  *)
(* branches on what they return.  "free" is a program that makes any call. *)
(* A program goes on only while it is its terminal's last and its terminal *)
(* is on screen, so any two of them interleave at the user's pleasure.     *)
(*                                                                         *)
(* Calls that only print (ece391_fdputs) change no state of this model and *)
(* are left out, except where a program prints data it has read.           *)
(***************************************************************************)
EXTENDS FileDescriptors

CONSTANTS
    Typed,          \* Typed[t]: the commands typed on terminal t
    Requests        \* sizes of grep's reads: 1024 less the line kept

ASSUME TypedAssumption == \A t \in Terminals : Typed[t] \subseteq Seq(Seq(Chars))
ASSUME RequestsAssumption == Requests \subseteq Nat \ {0}

\* grep has the directory and a file open beside its terminal; there are 8.
ASSUME DescriptorsAssumption == SIZE_OF_FILE_ARRAY >= 4

\* filesys_img: its 17 entries are those read_directory delivers, all have names,
\* the directory is ".", no other name starts with a period, and the names that
\* ece391syserr.c takes for missing ones are missing.
ASSUME ImageAssumption ==
    /\ NAMESIZE >= 1
    /\ Entries = 0 .. NUM_DIRECTORY
    /\ \A f \in Entries : /\ Directory[f].name # <<>>
                          /\ Directory[f].type = "DIRECTORY" <=> Directory[f].name[1] = "."
                          /\ Cut(Directory[f].name) # Cut(<<"h", "e", "e">>)
                          /\ Cut(Directory[f].name) # Cut(<<"s">>)
    /\ \E f \in Entries : Directory[f].name = <<".">>

VARIABLES
    prog, pc, loc,  \* the program in slot i, where it is, its locals
    \* history: the entries a listing has had so far; it had the directory to
    \* itself; the command that started the program
    out, alone, typed

uvars == <<dvars, prog, pc, loc, out, alone, typed>>
programs == <<prog, pc, loc, out, alone, typed>>

me == current_process_ID
Idle == [fd |-> 0, file |-> 0, entry |-> 0, n |-> 0, status |-> 0, script |-> <<>>, failed |-> {}]

At(p, l) == mode = "user" /\ prog[me] = p /\ pc[me] = l
Goto(l) == pc' = [pc EXCEPT ![me] = l]
Keep(locals) == loc' = [loc EXCEPT ![me] = locals]

\* main returns and _start halts with the value: the next step.
Return(status) == Goto("halt") /\ Keep([loc[me] EXCEPT !.status = status])

\* A program goes on behind a call, or ends with a status.
Branch(goesOn, there, status) ==
    IF goesOn THEN Goto(there) /\ UNCHANGED loc ELSE Return(status)

\* The history of a listing: an entry goes to its reader.  A listing that starts
\* behind the first entry is not alone, and neither is one under way in which
\* another process reads the directory.
NoteDirectory ==
    LET late == loc[me].n = 0 /\ read_directory_index # 0
        underWay(i) == prog[i] \in {"ls", "grep"} /\ loc[i].n > 0
    IN  IF read_directory_index' = read_directory_index THEN UNCHANGED <<out, alone>>
        ELSE /\ alone' = [i \in Slots |-> alone[i] /\ ~(IF i = me THEN late ELSE underWay(i))]
             /\ out' = [i \in Slots |->
                           IF ~alone'[i] THEN <<>>
                           ELSE IF i = me /\ eax' > 0 THEN Append(out[i], read_directory_index)
                           ELSE out[i]]

\* The running program makes a call.
Make(k) == SYSTEM_CALL_ECE(k) /\ NoteDirectory /\ UNCHANGED <<prog, typed>>

Do(call, arg, nbytes) == Make([call |-> call, arg |-> arg, nbytes |-> nbytes])

UInit ==
    /\ DInit
    /\ prog = [i \in Slots |-> IF i = 0 THEN "shell" ELSE ""]
    /\ pc = [i \in Slots |-> "main"]
    /\ loc = [i \in Slots |-> Idle]
    /\ out = [i \in Slots |-> <<>>]
    /\ alone = [i \in Slots |-> TRUE]
    /\ typed = [i \in Slots |-> <<ShellName>>]

-----------------------------------------------------------------------------
(***************************************************************************)
(* Programs come and go with their slots.                                  *)
(***************************************************************************)
Load(i, p, command) ==
    /\ prog' = [prog EXCEPT ![i] = p]
    /\ pc' = [pc EXCEPT ![i] = "main"]
    /\ loc' = [loc EXCEPT ![i] = Idle]
    /\ out' = [out EXCEPT ![i] = <<>>]
    /\ alone' = [alone EXCEPT ![i] = TRUE]
    /\ typed' = [typed EXCEPT ![i] = command]

\* One round of the shell: a line is read and executed, or it is "exit".  The
\* shell waits in execute while its child runs.  An empty line only starts the
\* next round.
Shell ==
    /\ At("shell", "main")
    /\ \/ \E command \in Typed[buffer_flag] :
             /\ Execute(command)
             /\ IF me' = me THEN UNCHANGED programs
                ELSE Load(me', Directory[Found(command[1])].program, command)
       \/ Return(0) /\ UNCHANGED <<dvars, prog, out, alone, typed>>

_start ==
    /\ mode = "user" /\ pc[me] = "halt"
    /\ Halt(loc[me].status)
    /\ Load(me, "", <<ShellName>>)

\* Alt+F keys and the shell loops: a process in a slot that was free is a shell.
Background ==
    /\ KernelStep
    /\ IF flag[me'] = 0 THEN Load(me', "shell", <<ShellName>>)
                        ELSE UNCHANGED programs

-----------------------------------------------------------------------------
(***************************************************************************)
(* ls and grep.                                                            *)
(***************************************************************************)
OpenDirectory ==
    /\ Do("open", <<".">>, 0)
    /\ IF eax' = -1 THEN Return(2)
       ELSE Goto("next") /\ Keep([loc[me] EXCEPT !.fd = eax'])

\* One round of the loop over the directory; entry is what buf is needed for.
NextEntry(there, entry) ==
    /\ Do("read", loc[me].fd, NAMESIZE)
    /\ IF eax' <= 0 THEN Return(IF eax' = 0 THEN 0 ELSE 3)
       ELSE Goto(there) /\ Keep([loc[me] EXCEPT !.n = 1, !.entry = entry])

Ls ==
    \/ At("ls", "main") /\ OpenDirectory
    \/ At("ls", "next") /\ NextEntry("write", 0)
    \/ At("ls", "write") /\ Do("write", 1, 0) /\ Branch(eax' # -1, "next", 3)

GetArgs(there) == Do("getargs", 0, 1024) /\ Branch(eax' = 0, there, 3)

\* The name in buf; a directory is left out.
EntryName == Cut(Directory[loc[me].entry].name)

\* mutant: the file stays open
do_one_file_NoClose ==
    \/ /\ At("grep", "file")
       /\ Do("open", EntryName, 0)
       /\ IF eax' = -1 THEN Return(3) ELSE Goto("data") /\ Keep([loc[me] EXCEPT !.file = eax'])
    \/ /\ At("grep", "data")
       /\ \E size \in Requests : Do("read", loc[me].file, size)
       /\ IF eax' = -1 THEN Return(3)
          ELSE Goto(IF eax' = 0 THEN "next" ELSE "data") /\ UNCHANGED loc

\* The file is read to its end; which of its lines are printed is left out.
do_one_file ==
    \/ /\ At("grep", "file")
       /\ Do("open", EntryName, 0)
       /\ IF eax' = -1 THEN Return(3) ELSE Goto("data") /\ Keep([loc[me] EXCEPT !.file = eax'])
    \/ /\ At("grep", "data")
       /\ \E size \in Requests : Do("read", loc[me].file, size)
       /\ IF eax' = -1 THEN Return(3)
          ELSE Goto(IF eax' = 0 THEN "close" ELSE "data") /\ UNCHANGED loc
    \/ /\ At("grep", "close")
       /\ Do("close", loc[me].file, 0)
       /\ Branch(eax' # -1, "next", 3)

Grep ==
    \/ At("grep", "main") /\ GetArgs("open")
    \/ At("grep", "open") /\ OpenDirectory
    \/ /\ At("grep", "next")
       /\ NextEntry(IF Directory[read_directory_index].name[1] = "." THEN "next" ELSE "file",
                    read_directory_index)
    \/ do_one_file

(***************************************************************************)
(* cat.                                                                    *)
(***************************************************************************)
Cat ==
    \/ At("cat", "main") /\ GetArgs("open")
    \/ /\ At("cat", "open")
       /\ Do("open", Argument[1], 0)
       /\ IF eax' = -1 THEN Return(2) ELSE Goto("read") /\ Keep([loc[me] EXCEPT !.fd = eax'])
    \/ /\ At("cat", "read")
       /\ Do("read", loc[me].fd, 1024)
       /\ IF eax' <= 0 THEN Return(IF eax' = 0 THEN 0 ELSE 3)
          ELSE Goto("write") /\ Keep([loc[me] EXCEPT !.n = @ + eax'])
    \/ At("cat", "write") /\ Do("write", 1, 0) /\ Branch(eax' # -1, "read", 3)

(***************************************************************************)
(* syserr: the calls of its tests, each with what is demanded of it.       *)
(***************************************************************************)
NEG_FD == -1073741823
BIG_FD == 1073741823

Try(test, call, arg, want) ==
    [test |-> test, k |-> [call |-> call, arg |-> arg, nbytes |-> 31], want |-> want]

\* One call for every descriptor from first on, all of which must be refused.
ForAll(test, call, first) ==
    [x \in 1 .. SIZE_OF_FILE_ARRAY - first |-> Try(test, call, first + x - 1, "refused")]

err_neg_fd == << Try(1, "read", NEG_FD, "refused"), Try(1, "write", NEG_FD, "refused"),
                 Try(1, "close", NEG_FD, "refused") >>

err_big_fd == << Try(2, "read", BIG_FD, "refused"), Try(2, "write", BIG_FD, "refused"),
                 Try(2, "close", BIG_FD, "refused") >>

\* One open more than there are descriptors; exactly one may fail.
err_open_lots ==
    [x \in 1 .. SIZE_OF_FILE_ARRAY - 1 |-> Try(3, "open", <<".">>, "count")] \o
    [x \in 1 .. SIZE_OF_FILE_ARRAY - 2 |->
        Try(3, "close", x + 1, IF x = SIZE_OF_FILE_ARRAY - 2 THEN "once" ELSE "")]

\* "helloo", "shel" and the empty string.
err_open == << Try(4, "open", <<"h", "e", "e">>, "refused"),
               Try(4, "open", <<"s">>, "refused"), Try(4, "open", <<>>, "refused") >>

err_unopened == ForAll(5, "close", 0) \o ForAll(5, "read", 2) \o ForAll(5, "write", 2)

err_vidmap == << Try(6, "vidmap", FALSE, "refused"), Try(6, "vidmap", FALSE, "refused") >>

err_stdin_out == << Try(7, "write", 0, "refused"), Try(7, "read", 1, "refused") >>

err_syscall_num == [x \in 1 .. 3 |-> Try(8, "invalid", 0, "refused")]

Tests == << err_neg_fd, err_big_fd, err_open_lots, err_open,
            err_unopened, err_vidmap, err_stdin_out, err_syscall_num >>

\* The line typed: 0 for all tests, the number of one, or neither.
Selected(select) ==
    IF select = 0
    THEN err_neg_fd \o err_big_fd \o err_open_lots \o err_open \o
         err_unopened \o err_vidmap \o err_stdin_out \o err_syscall_num
    ELSE IF select \in DOMAIN Tests THEN Tests[select] ELSE <<>>

\* What is demanded of the call is not what it returned (n counts refused opens).
Failed(want, n) ==
    \/ want = "refused" /\ eax' # -1
    \/ want = "once" /\ n # 1

RunTest ==
    LET step == Head(loc[me].script)
        n == IF step.want = "count" /\ eax' = -1 THEN loc[me].n + 1 ELSE loc[me].n
    IN  /\ Make(step.k)
        /\ Keep([loc[me] EXCEPT !.script = Tail(@), !.n = n,
                    !.failed = IF Failed(step.want, n) THEN @ \cup {step.test} ELSE @])
        /\ UNCHANGED pc

Syserr ==
    \/ /\ At("syserr", "main")
       /\ Do("read", 0, 127)
       /\ IF eax' = -1 THEN Return(2)
          ELSE \E select \in 0 .. Len(Tests) + 1 :
                   Goto("test") /\ Keep([loc[me] EXCEPT !.script = Selected(select)])
    \/ At("syserr", "test") /\ loc[me].script # <<>> /\ RunTest
    \/ /\ At("syserr", "test") /\ loc[me].script = <<>>
       /\ Return(2 * Cardinality(loc[me].failed))
       /\ UNCHANGED <<dvars, prog, out, alone, typed>>

-----------------------------------------------------------------------------
Free ==
    /\ At("free", "main")
    /\ \/ \E k \in Calls : Make(k) /\ UNCHANGED <<pc, loc>>
       \/ \E k \in Calls : ReadOverrun(k) /\ Load(me, "", <<ShellName>>)
       \/ \E s \in Statuses : Return(s) /\ UNCHANGED <<dvars, prog, out, alone, typed>>

UNext ==
    \/ Shell
    \/ _start
    \/ Background
    \/ Ls
    \/ Grep
    \/ Cat
    \/ Syserr
    \/ Free

USpec == UInit /\ [][UNext /\ Healthy']_uvars

-----------------------------------------------------------------------------
\* The repository's own test of the system calls reports success, whatever the
\* other terminals run meanwhile and whatever ran in its slot before.
SyserrPasses == \A i \in Slots : prog[i] = "syserr" => loc[i].failed = {}

\* What main of p returned, once it has.
Returned(i, p, status) == prog[i] = p /\ pc[i] = "halt" /\ loc[i].status = status

\* A listing that has the directory to itself is the whole directory, in order,
\* though the end is found by a constant and the index is shared and never reset
\* by open (read_directory and the loops of ls and grep).
ListsWholeDirectory ==
    \A i \in Slots :
        (Returned(i, "ls", 0) \/ Returned(i, "grep", 0)) /\ alone[i] =>
            out[i] = [x \in 1 .. Cardinality(Entries) |-> x - 1]

\* grep opens every file of the image with fewer descriptors than files: it
\* closes what it opens and close makes the descriptor free again, so no call of
\* it fails, also if other listings take entries away from it.
GrepNeverFails ==
    \A i \in Slots : ~Returned(i, "grep", 2) /\ ~Returned(i, "grep", 3)

\* cat prints all of the file that is named on its own command line and fails if
\* there is no such file: the command goes through the record of whichever
\* process execute takes for the current one (execute's copy, getargs, open, read).
CatPrintsItsFile ==
    \A i \in Slots :
        prog[i] = "cat" /\ pc[i] = "halt" =>
            IF Len(typed[i]) = 2 /\ read_dentry_by_name(typed[i][2]) # {}
            THEN /\ loc[i].status = 0
                 /\ file_array[i][loc[i].fd].inode = Found(typed[i][2])
                 /\ loc[i].n = Directory[Found(typed[i][2])].length
            ELSE loc[i].status # 0

-----------------------------------------------------------------------------
(***************************************************************************)
(* What the last two suppose of the commands that are typed.               *)
(***************************************************************************)
\* Whoever runs grep gives it a pattern; without one it says so and returns 3.
GrepsHaveArguments ==
    \A t \in Terminals : \A command \in Typed[t] :
        Executable(command) /\ Directory[Found(command[1])].program = "grep" =>
            Len(command) >= 2

\* cat is asked for files, not for the directory, of which it prints the names,
\* or the clock.
CatsReadFiles ==
    \A t \in Terminals : \A command \in Typed[t] :
        /\ Executable(command) /\ Directory[Found(command[1])].program = "cat"
        /\ Len(command) = 2 /\ read_dentry_by_name(command[2]) # {}
        => Directory[Found(command[2])].type = "SINGLE_FILE"
=============================================================================
