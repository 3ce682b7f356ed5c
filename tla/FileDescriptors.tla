--------------------------- MODULE FileDescriptors ---------------------------
(***************************************************************************)
(* The system calls on files and arguments (student-distrib/syscalls.c),   *)
(* their dispatch through the device tables, and the directory of the file *)
(* system (file_sys.c), on top of ProcessTerminals: every step of the      *)
(* process table is taken together with what execute and halt do to the    *)
(* file array and to the copy of the command.                              *)
(*                                                                         *)
(* Interrupts are off in a system call, so each one is one action.  The    *)
(* two that wait, read_Terminal and RTC_Read, change nothing of this state *)
(* while they wait; here they are the step in which they return.           *)
(*                                                                         *)
(* A name is a sequence of characters, a command the sequence of its words *)
(* (the blanks between them), an inode the number of its directory entry,  *)
(* and a file the number of its bytes.                                     *)
(***************************************************************************)
EXTENDS ProcessTerminals, Sequences

CONSTANTS
    SIZE_OF_FILE_ARRAY, \* 8
    NAMESIZE,           \* 32, also MAX_NUM_CHAR
    NUM_DIRECTORY,      \* 16, the highest index read_directory delivers
    Chars,              \* characters of names
    Directory,          \* the entries of the image: name, type, length, program
    ShellName,          \* the program the shell loops start
    LineLengths,        \* of the lines typed, with their newlines
    Calls,              \* the system calls programs make, with their arguments
    Commands            \* the commands they execute

LAST_FILE_ARRAY_INDEX == SIZE_OF_FILE_ARRAY - 1
FILE_ARRAY_START == 2
FDs == 0 .. LAST_FILE_ARRAY_INDEX
Entries == DOMAIN Directory
Types == {"RTC", "DIRECTORY", "SINGLE_FILE"}
MAX_INT == 2147483647   \* of 32 bits

ASSUME FileArrayAssumption == SIZE_OF_FILE_ARRAY \in Nat /\ SIZE_OF_FILE_ARRAY >= 2
ASSUME DirectoryAssumption ==
    /\ Entries \subseteq Nat
    /\ 0 .. NUM_DIRECTORY \subseteq Entries
    /\ \A f \in Entries : /\ Directory[f].name \in Seq(Chars)
                          /\ Directory[f].length \in 0 .. MAX_INT
\* So it is in filesys_img; for another type sys_call_open keeps a descriptor in use
\* with the device it had before.
ASSUME TypesAssumption == \A f \in Entries : Directory[f].type \in Types
ASSUME NameAssumption == NAMESIZE \in Nat
ASSUME LinesAssumption == LineLengths \subseteq Nat \ {0}
ASSUME CallsAssumption ==
    \A k \in Calls : /\ k.call = "read" => k.arg \in Int /\ k.nbytes \in -MAX_INT - 1 .. MAX_INT
                     /\ k.call \in {"write", "close"} => k.arg \in Int
ASSUME IndexAssumption == NUM_DIRECTORY \in 0 .. 254

VARIABLES
    file_array, command_global,     \* fields of PCB_array[i]
    read_directory_index,           \* file_sys.c
    eax                             \* what the last of these calls returned

files == <<file_array, command_global, read_directory_index, eax>>
dvars == <<vars, files>>

NoDevice == "0"         \* a null file_op_table_ptr
NullCall == -2          \* not a result: the call went through a null pointer
Devices == {"STDIN", "STDOUT", "RTC_DEV", "DIR_DEV", "FILE_DEV", NoDevice}

\* A string of which strncmp and read_directory look at NAMESIZE bytes.
Cut(name) == SubSeq(name, 1, IF Len(name) < NAMESIZE THEN Len(name) ELSE NAMESIZE)

\* mutant: the names are compared up to the end of the first
strncmp_Prefix(s1, s2) == Len(s1) <= Len(s2) /\ s1 = SubSeq(s2, 1, Len(s1))

strncmp(s1, s2) == Cut(s1) = Cut(s2)

read_dentry_by_name(fname) == {f \in Entries : strncmp(Directory[f].name, fname)}

Found(fname) == CHOOSE f \in read_dentry_by_name(fname) :
                    \A g \in read_dentry_by_name(fname) : f <= g

(***************************************************************************)
(* The file array.                                                         *)
(***************************************************************************)
Descriptor(device, inode, position, inUse) ==
    [ops |-> device, inode |-> inode, file_position |-> position, flags |-> inUse]

\* What execute sets up, and what halt leaves.
FreshArray ==
    [fd \in FDs |-> IF fd = 0 THEN Descriptor("STDIN", -1, 0, 1)
                    ELSE IF fd = 1 THEN Descriptor("STDOUT", -1, 0, 1)
                    ELSE Descriptor(NoDevice, -1, 0, 0)]

ClosedArray == [fd \in FDs |-> Descriptor(NoDevice, -1, -1, 0)]

Current == file_array[current_process_ID]

Set(fd, descriptor) ==
    file_array' = [file_array EXCEPT ![current_process_ID][fd] = descriptor]

DeviceOf(type) ==
    CASE type = "RTC" -> "RTC_DEV"
      [] type = "DIRECTORY" -> "DIR_DEV"
      [] type = "SINGLE_FILE" -> "FILE_DEV"

FreeFDs == {fd \in FILE_ARRAY_START .. LAST_FILE_ARRAY_INDEX : Current[fd].flags = 0}

\* An entry of unknown type takes the descriptor and leaves its old device.
sys_call_open(filename) ==
    /\ IF filename = <<>> \/ read_dentry_by_name(filename) = {} \/ FreeFDs = {}
       THEN eax' = -1 /\ UNCHANGED file_array
       ELSE LET f == Found(filename)
                fd == CHOOSE x \in FreeFDs : \A y \in FreeFDs : x <= y
                known == Directory[f].type \in Types
            IN  /\ Set(fd, Descriptor(IF known THEN DeviceOf(Directory[f].type) ELSE Current[fd].ops,
                                      f, 0, 1))
                /\ eax' = IF known THEN fd ELSE -1
    /\ UNCHANGED <<command_global, read_directory_index>>

\* mutant: the flag is counted down
sys_call_close_Counts(fd) ==
    /\ IF fd < FILE_ARRAY_START \/ fd > LAST_FILE_ARRAY_INDEX
       THEN eax' = -1 /\ UNCHANGED file_array
       ELSE /\ Set(fd, [Current[fd] EXCEPT !.flags = @ - 1])
            /\ eax' = 0
    /\ UNCHANGED <<command_global, read_directory_index>>

\* The device's close does nothing; device, inode and position stay.
sys_call_close(fd) ==
    /\ IF fd < FILE_ARRAY_START \/ fd > LAST_FILE_ARRAY_INDEX \/ Current[fd].flags = 0
       THEN eax' = -1 /\ UNCHANGED file_array
       ELSE /\ Set(fd, [Current[fd] EXCEPT !.flags = 0])
            /\ eax' = IF Current[fd].ops = NoDevice THEN NullCall ELSE 0
    /\ UNCHANGED <<command_global, read_directory_index>>

(***************************************************************************)
(* The read and write functions of the devices.                            *)
(***************************************************************************)
\* Enter was pressed: the line is at least the newline.
read_Terminal == eax' \in LineLengths /\ UNCHANGED <<file_array, read_directory_index>>

\* The tick came.
RTC_Read == eax' = 0 /\ UNCHANGED <<file_array, read_directory_index>>

read_directory_Short ==     \* mutant: the last entry is taken for the end
    /\ IF read_directory_index >= NUM_DIRECTORY
       THEN eax' = 0 /\ read_directory_index' = 0
       ELSE /\ eax' = Len(Cut(Directory[read_directory_index].name))
            /\ read_directory_index' = read_directory_index + 1
    /\ UNCHANGED file_array

\* The index is one for all descriptors of all processes.
read_directory ==
    /\ IF read_directory_index > NUM_DIRECTORY
       THEN eax' = 0 /\ read_directory_index' = 0
       ELSE /\ eax' = Len(Cut(Directory[read_directory_index].name))
            /\ read_directory_index' = read_directory_index + 1
    /\ UNCHANGED file_array

\* In the middle of a file the 0 bytes of an empty request are counted down before
\* they are tested, and for a negative one, taken for 2^32 more, position and length
\* may wrap round in their sum: the copy runs on behind file and buffer.
Overruns(fd, nbytes) ==
    /\ Current[fd].ops = "FILE_DEV"
    /\ Current[fd].file_position \in 1 .. Directory[Current[fd].inode].length - 1
    /\ nbytes \in -Current[fd].file_position .. 0

\* What module FileRead shows of file_read and read_data; any other negative request
\* is more than is left.
file_read(fd, nbytes) ==
    LET left == Directory[Current[fd].inode].length - Current[fd].file_position
        copied == IF nbytes \in 0 .. left THEN nbytes ELSE left
    IN  /\ ~Overruns(fd, nbytes)
        /\ eax' = copied
        /\ Set(fd, [Current[fd] EXCEPT !.file_position = @ + copied])
        /\ UNCHANGED read_directory_index

\* STDOUT.read is a null pointer.
CallRead(fd, nbytes) ==
    \/ Current[fd].ops = "STDIN" /\ read_Terminal
    \/ Current[fd].ops = "RTC_DEV" /\ RTC_Read
    \/ Current[fd].ops = "DIR_DEV" /\ read_directory
    \/ Current[fd].ops = "FILE_DEV" /\ file_read(fd, nbytes)
    \/ /\ Current[fd].ops \in {"STDOUT", NoDevice}
       /\ eax' = NullCall
       /\ UNCHANGED <<file_array, read_directory_index>>

sys_call_read_NoStdoutTest(fd, nbytes) ==   \* mutant: fd 1 is not refused
    /\ IF fd > LAST_FILE_ARRAY_INDEX \/ fd < 0 \/ Current[fd].flags = 0
       THEN eax' = -1 /\ UNCHANGED <<file_array, read_directory_index>>
       ELSE CallRead(fd, nbytes)
    /\ UNCHANGED command_global

sys_call_read(fd, nbytes) ==
    /\ IF fd = 1 \/ fd > LAST_FILE_ARRAY_INDEX \/ fd < 0 \/ Current[fd].flags = 0
       THEN eax' = -1 /\ UNCHANGED <<file_array, read_directory_index>>
       ELSE CallRead(fd, nbytes)
    /\ UNCHANGED command_global

\* write_Terminal and RTC_Write return 0, write_directory and file_write refuse,
\* STDIN.write is a null pointer.
WriteResult(device) ==
    CASE device \in {"STDOUT", "RTC_DEV"} -> 0
      [] device \in {"DIR_DEV", "FILE_DEV"} -> -1
      [] OTHER -> NullCall

sys_call_write(fd) ==
    /\ eax' = IF fd = 0 \/ fd > LAST_FILE_ARRAY_INDEX \/ fd < 0 \/ Current[fd].flags = 0
              THEN -1 ELSE WriteResult(Current[fd].ops)
    /\ UNCHANGED <<file_array, command_global, read_directory_index>>

(***************************************************************************)
(* The other calls.                                                        *)
(***************************************************************************)
\* The words behind the first blank; none is an error.
Argument == Tail(command_global[current_process_ID])

sys_call_getargs(nbytes) ==
    /\ eax' = IF nbytes <= 0 \/ Len(command_global[current_process_ID]) < 2 THEN -1 ELSE 0
    /\ UNCHANGED <<file_array, command_global, read_directory_index>>

\* The pointer is in the program's 4 MB or it is refused.  The page that is mapped
\* is the same for every caller and stays mapped.
sys_call_vidmap(inProgram) ==
    /\ eax' = IF inProgram THEN 0 ELSE -1
    /\ UNCHANGED <<file_array, command_global, read_directory_index>>

\* They print their names.
sys_call_set_handler ==
    eax' = 0 /\ UNCHANGED <<file_array, command_global, read_directory_index>>

sys_call_sigreturn ==
    eax' = 0 /\ UNCHANGED <<file_array, command_global, read_directory_index>>

INVALID_SYS_CALL ==
    eax' = -1 /\ UNCHANGED <<file_array, command_global, read_directory_index>>

\* int 0x80 of the running program, all but halt and execute.
SYSTEM_CALL_ECE(k) ==
    /\ mode = "user"
    /\ \/ k.call = "read" /\ sys_call_read(k.arg, k.nbytes)
       \/ k.call = "write" /\ sys_call_write(k.arg)
       \/ k.call = "open" /\ sys_call_open(k.arg)
       \/ k.call = "close" /\ sys_call_close(k.arg)
       \/ k.call = "getargs" /\ sys_call_getargs(k.nbytes)
       \/ k.call = "vidmap" /\ sys_call_vidmap(k.arg)
       \/ k.call = "set_handler" /\ sys_call_set_handler
       \/ k.call = "sigreturn" /\ sys_call_sigreturn
       \/ k.call = "invalid" /\ INVALID_SYS_CALL
    /\ UNCHANGED vars

(***************************************************************************)
(* execute and halt.                                                       *)
(***************************************************************************)
\* The command is cut at its last blank; what is in front of it is the name.
ProgramOf(command) ==
    LET words == IF Len(command) > 1 THEN SubSeq(command, 1, Len(command) - 1) ELSE command
    IN  IF Len(words) = 1 THEN read_dentry_by_name(words[1]) ELSE {}

\* The file exists and starts with the magic number.
Executable(command) ==
    /\ ProgramOf(command) # {}
    /\ Directory[Found(command[1])].program # ""

\* mutant: the command is copied before current_process_ID is the new slot
Arguments_OfCaller(command) ==
    command_global' = [command_global EXCEPT ![current_process_ID] = command]

Arguments(command) ==
    command_global' = [command_global EXCEPT ![current_process_ID'] = command]

\* mutant: execute leaves the array as the last owner of the slot left it
NewProcess_OldArray(command) ==
    /\ Arguments(command)
    /\ UNCHANGED <<file_array, read_directory_index, eax>>

NewProcess(command) ==
    /\ Arguments(command)
    /\ file_array' = [file_array EXCEPT ![current_process_ID'] = FreshArray]
    /\ UNCHANGED <<read_directory_index, eax>>

EndProcess ==
    /\ file_array' = [file_array EXCEPT ![current_process_ID] = ClosedArray]
    /\ UNCHANGED <<command_global, read_directory_index, eax>>

\* With no slot free the caller's copy of its own command is overwritten.
Execute(command) ==
    \/ Executable(command) /\ ExecuteProgram /\ NewProcess(command)
    \/ /\ Executable(command) /\ ExecuteFull /\ Arguments(command)
       /\ UNCHANGED <<file_array, read_directory_index, eax>>
    \/ ~Executable(command) /\ ExecuteInvalid /\ UNCHANGED files

Halt(status) == (HaltProgram(status) \/ HaltBaseShell) /\ EndProcess

\* A read that runs on until it faults, and page_fault halts the program.
ReadOverrun(k) ==
    /\ k.call = "read" /\ k.arg \in FDs /\ Current[k.arg].flags = 1
    /\ Overruns(k.arg, k.nbytes)
    /\ HaltProgram(1) /\ EndProcess

\* The steps the running program has no part in.
KernelStep ==
    \/ RestartShell /\ NewProcess(<<ShellName>>)
    \/ \E n \in Terminals : StartTerminal(n, esp0) /\ NewProcess(<<ShellName>>)
    \/ \E n \in Terminals : ResumeTerminal(n, esp0) /\ UNCHANGED files

DInit ==
    /\ Init
    /\ file_array = [i \in Slots |-> IF i = 0 THEN FreshArray ELSE ClosedArray]
    /\ command_global = [i \in Slots |-> <<ShellName>>]
    /\ read_directory_index = 0
    /\ eax = 0

DNext ==
    \/ \E k \in Calls : SYSTEM_CALL_ECE(k)
    \/ \E k \in Calls : ReadOverrun(k)
    \/ \E command \in Commands : Execute(command)
    \/ \E s \in Statuses : Halt(s)
    \/ KernelStep

\* Any program, as long as the process table is healthy (see ProcessTerminals).
DSpec == DInit /\ [][DNext /\ Healthy']_dvars

-----------------------------------------------------------------------------
FilesTypeOK ==
    /\ file_array \in [Slots -> [FDs -> [ops : Devices, inode : Int, file_position : Int, flags : {0, 1}]]]
    /\ DOMAIN command_global = Slots
    /\ read_directory_index \in 0 .. NUM_DIRECTORY + 1
    /\ eax \in Int

\* Descriptor d, open above 1: its device is that of the file it names and its
\* position is in the file.
OpenFile(d) ==
    /\ d.inode \in Entries
    /\ d.ops = DeviceOf(Directory[d.inode].type)
    /\ d.file_position \in 0 .. Directory[d.inode].length

\* A process has its terminal at 0 and 1 and every open descriptor above them is
\* sound, whoever had the slot and the descriptor before: open, close, read,
\* execute and halt each write some of the fields and leave the others stale.
DescriptorsSound ==
    \A i \in Slots :
        flag[i] = 1 =>
            /\ file_array[i][0].flags = 1 /\ file_array[i][0].ops = "STDIN"
            /\ file_array[i][1].flags = 1 /\ file_array[i][1].ops = "STDOUT"
            /\ \A fd \in FILE_ARRAY_START .. LAST_FILE_ARRAY_INDEX :
                  file_array[i][fd].flags = 1 => OpenFile(file_array[i][fd])

\* No system call jumps through a null pointer, though closed descriptors keep a
\* device and the terminal's devices have no write and no read (the tests of fd
\* and flags in read, write and close are all there is).
NoNullCall == eax # NullCall

Private(i) == <<file_array[i], command_global[i]>>

\* A step that does not switch terminals changes no descriptor and no argument of
\* a process of another terminal, though execute looks for slots in one table.
BackgroundFilesUntouched ==
    [][buffer_flag' = buffer_flag =>
          \A i \in Slots : flag[i] = 1 /\ terminalNumber[i] # buffer_flag =>
                              Private(i)' = Private(i)]_dvars
=============================================================================
