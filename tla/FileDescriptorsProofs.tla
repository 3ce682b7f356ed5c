----------------------- MODULE FileDescriptorsProofs -----------------------
(***************************************************************************)
(* Proofs about FileDescriptors for every image, every size of the tables  *)
(* and every program, where a program is any sequence of calls out of      *)
(* Calls; and about the programs of UserPrograms on top of it, for every   *)
(* image and every set of commands that are typed.                         *)
(***************************************************************************)
EXTENDS UserPrograms, ProcessTerminalsProofs, FiniteSetTheorems

Desc == [ops : Devices, inode : Int, file_position : Int, flags : {0, 1}]

FInv == FilesTypeOK /\ DescriptorsSound

\* What the proofs use of the image.
LEMMA DirectoryFacts ==
    /\ Entries \subseteq Nat
    /\ 0 .. NUM_DIRECTORY \subseteq Entries
    /\ \A f \in Entries : /\ Directory[f].name \in Seq(Chars)
                          /\ Directory[f].type \in Types
                          /\ Directory[f].length \in Nat
<1>0. MAX_INT \in Nat
  BY SMT DEF MAX_INT
<1>1. 0 .. MAX_INT \subseteq Nat
  BY <1>0, SMT
<1>2. /\ Entries \subseteq Nat
      /\ 0 .. NUM_DIRECTORY \subseteq Entries
      /\ \A f \in Entries : Directory[f].name \in Seq(Chars) /\ Directory[f].length \in 0 .. MAX_INT
  BY DirectoryAssumption, Zenon
<1> QED BY <1>1, <1>2, TypesAssumption, Zenon

\* Every step is a step of the process table or leaves it alone, or is the fault of a
\* read that ran on.
LEMMA StepsOfTable == DNext => [Next]_vars \/ HaltProgram(1)
BY Zenon DEF DNext, SYSTEM_CALL_ECE, ReadOverrun, Execute, Halt, KernelStep, Next

LEMMA OneIsStatus == 1 \in 0..255
OBVIOUS

\* Every step keeps the invariant of the process table.
LEMMA TableInv == Inv /\ [DNext /\ Healthy']_dvars => Inv'
<1>1. [DNext /\ Healthy']_dvars => [Next]_vars \/ HaltProgram(1)
  BY StepsOfTable, Zenon DEF dvars
<1>2. Inv /\ HaltProgram(1) => Inv'
  BY OneIsStatus, HaltStatusInv
<1> QED BY <1>1, <1>2, NextInv, Zenon

\* While a program runs, its slot is in use.
LEMMA CurrentInUse ==
    ASSUME Inv, Healthy, mode = "user"
    PROVE  /\ current_process_ID \in Slots /\ flag[current_process_ID] = 1
           /\ terminalNumber[current_process_ID] = buffer_flag
BY DEF Inv, WellTyped, Consistent, RunningProcess, Live, Healthy

LEMMA FDRanges ==
    /\ 0 \in FDs /\ 1 \in FDs
    /\ FILE_ARRAY_START .. LAST_FILE_ARRAY_INDEX \subseteq FDs
    /\ \A fd \in FDs : fd # 0 /\ fd # 1 => fd \in FILE_ARRAY_START .. LAST_FILE_ARRAY_INDEX
    /\ \A fd \in Int : fd >= 0 /\ fd <= LAST_FILE_ARRAY_INDEX => fd \in FDs
BY FileArrayAssumption DEF FDs, FILE_ARRAY_START, LAST_FILE_ARRAY_INDEX

LEMMA FreshArrayTyped == FreshArray \in [FDs -> Desc] /\ ClosedArray \in [FDs -> Desc]
BY DEF FreshArray, ClosedArray, Descriptor, Desc, Devices, NoDevice

LEMMA DeviceOfType ==
    ASSUME NEW f \in Entries
    PROVE  /\ DeviceOf(Directory[f].type) \in {"RTC_DEV", "DIR_DEV", "FILE_DEV"}
           /\ DeviceOf(Directory[f].type) \in Devices
BY DirectoryFacts DEF DeviceOf, Types, Devices

\* The bytes of a name that read_directory delivers.
LEMMA NameLength ==
    ASSUME NEW f \in Entries
    PROVE  Len(Cut(Directory[f].name)) \in Nat
<1>1. PICK name \in Seq(Chars) : name = Directory[f].name
  BY DirectoryFacts
<1>2. PICK n \in Nat : Cut(Directory[f].name) = SubSeq(name, 1, n) /\ n <= Len(name)
  BY <1>1, NameAssumption DEF Cut
<1> QED BY <1>1, <1>2

\* A descriptor that open returns, or one that read leaves, may replace what was
\* at fd in the current array; it is sound or not in use.
LEMMA SetSound ==
    ASSUME FInv, current_process_ID \in Slots, UNCHANGED flag,
           NEW fd \in FILE_ARRAY_START .. LAST_FILE_ARRAY_INDEX,
           NEW d \in Desc, d.flags = 1 => OpenFile(d),
           Set(fd, d)
    PROVE  /\ file_array' \in [Slots -> [FDs -> Desc]]
           /\ DescriptorsSound'
<1>1. PICK c \in Slots : c = current_process_ID
  OBVIOUS
<1>2. file_array \in [Slots -> [FDs -> Desc]] /\ fd \in FDs /\ fd # 0 /\ fd # 1
  BY FDRanges DEF FInv, FilesTypeOK, Desc, FILE_ARRAY_START
<1>3. file_array' = [file_array EXCEPT ![c] = [file_array[c] EXCEPT ![fd] = d]]
  BY <1>1 DEF Set
<1>4. [file_array[c] EXCEPT ![fd] = d] \in [FDs -> Desc]
  BY <1>2
<1>5. file_array' \in [Slots -> [FDs -> Desc]]
  BY <1>2, <1>3, <1>4
<1>6. \A i \in Slots, x \in FDs :
          file_array'[i][x] = IF i = c /\ x = fd THEN d ELSE file_array[i][x]
  BY <1>2, <1>3
<1>7. ASSUME NEW i \in Slots, flag'[i] = 1
      PROVE  /\ file_array'[i][0].flags = 1 /\ file_array'[i][0].ops = "STDIN"
             /\ file_array'[i][1].flags = 1 /\ file_array'[i][1].ops = "STDOUT"
             /\ \A x \in FILE_ARRAY_START .. LAST_FILE_ARRAY_INDEX :
                   file_array'[i][x].flags = 1 => OpenFile(file_array'[i][x])
  <2>1. flag[i] = 1
    BY <1>7
  <2>2. /\ file_array'[i][0] = file_array[i][0]
        /\ file_array'[i][1] = file_array[i][1]
    BY <1>2, <1>6, FDRanges
  <2>3. ASSUME NEW x \in FILE_ARRAY_START .. LAST_FILE_ARRAY_INDEX,
               file_array'[i][x].flags = 1
        PROVE  OpenFile(file_array'[i][x])
    <3>1. file_array'[i][x] = d \/ file_array'[i][x] = file_array[i][x]
      BY <1>6, FDRanges
    <3>2. file_array[i][x].flags = 1 => OpenFile(file_array[i][x])
      BY <2>1 DEF FInv, DescriptorsSound
    <3> QED BY <2>3, <3>1, <3>2
  <2> QED BY <2>1, <2>2, <2>3 DEF FInv, DescriptorsSound
<1>8. DescriptorsSound'
  BY <1>7 DEF DescriptorsSound, OpenFile
<1> QED BY <1>5, <1>8

\* A call that leaves the file array alone leaves it sound.
LEMMA SameArraySound ==
    ASSUME DescriptorsSound, UNCHANGED <<flag, file_array>>
    PROVE  DescriptorsSound'
BY DEF DescriptorsSound, OpenFile

-----------------------------------------------------------------------------
(***************************************************************************)
(* The calls.                                                              *)
(***************************************************************************)
\* What is shown of every call: the invariant is kept and nothing null called.
CallSafe == FilesTypeOK' /\ DescriptorsSound' /\ eax' # NullCall

\* Only the current array changes, at a descriptor above 1.
LEMMA SafeSet ==
    ASSUME FInv, current_process_ID \in Slots, UNCHANGED flag,
           NEW fd \in FILE_ARRAY_START .. LAST_FILE_ARRAY_INDEX,
           NEW d \in Desc, d.flags = 1 => OpenFile(d), Set(fd, d),
           UNCHANGED <<command_global, read_directory_index>>,
           eax' \in Int, eax' # NullCall
    PROVE  CallSafe
<1>1. file_array' \in [Slots -> [FDs -> Desc]] /\ DescriptorsSound'
  BY SetSound
<1> QED BY <1>1 DEF CallSafe, FInv, FilesTypeOK, Desc

\* Nothing changes but the index of the directory, in its range.
LEMMA SafeSame ==
    ASSUME FInv, UNCHANGED <<flag, file_array, command_global>>,
           read_directory_index' \in 0 .. NUM_DIRECTORY + 1,
           eax' \in Int, eax' # NullCall
    PROVE  CallSafe
<1>1. DescriptorsSound'
  BY SameArraySound DEF FInv
<1> QED BY <1>1 DEF CallSafe, FInv, FilesTypeOK

\* The descriptor at fd of a process.
LEMMA CurrentTyped ==
    ASSUME FInv, current_process_ID \in Slots, flag[current_process_ID] = 1,
           NEW fd \in FDs
    PROVE  /\ Current[fd] \in Desc
           /\ fd = 0 => Current[fd].ops = "STDIN"
           /\ fd = 1 => Current[fd].ops = "STDOUT"
           /\ fd \in FILE_ARRAY_START .. LAST_FILE_ARRAY_INDEX /\ Current[fd].flags = 1
                 => OpenFile(Current[fd])
BY DEF FInv, FilesTypeOK, DescriptorsSound, Current, Desc

LEMMA FoundIsEntry ==
    ASSUME NEW name, read_dentry_by_name(name) # {}
    PROVE  Found(name) \in Entries /\ Cut(Directory[Found(name)].name) = Cut(name)
<1>1. read_dentry_by_name(name) \subseteq Nat
  BY DirectoryFacts DEF read_dentry_by_name
<1>2. \E x \in read_dentry_by_name(name) : \A y \in read_dentry_by_name(name) : x <= y
  BY <1>1, LeastNatural
<1>3. Found(name) \in read_dentry_by_name(name)
  BY <1>2, Zenon DEF Found
<1> QED BY <1>3 DEF read_dentry_by_name, strncmp

\* The types of the image are known, so open gives the descriptor its file's device.
LEMMA OpenTakes ==
    ASSUME NEW filename, sys_call_open(filename),
           ~(filename = <<>> \/ read_dentry_by_name(filename) = {} \/ FreeFDs = {})
    PROVE  /\ Set(CHOOSE x \in FreeFDs : \A y \in FreeFDs : x <= y,
                  Descriptor(DeviceOf(Directory[Found(filename)].type), Found(filename), 0, 1))
           /\ eax' = CHOOSE x \in FreeFDs : \A y \in FreeFDs : x <= y
           /\ UNCHANGED <<command_global, read_directory_index>>
<1>1. Directory[Found(filename)].type \in Types
  BY FoundIsEntry, TypesAssumption, Zenon
<1> QED BY <1>1, Zenon DEF sys_call_open

LEMMA OpenSafe ==
    ASSUME FInv, current_process_ID \in Slots, UNCHANGED flag,
           NEW filename, sys_call_open(filename)
    PROVE  CallSafe
<1>1. CASE filename = <<>> \/ read_dentry_by_name(filename) = {} \/ FreeFDs = {}
  <2>1. eax' = -1 /\ UNCHANGED <<file_array, command_global, read_directory_index>>
    BY <1>1 DEF sys_call_open
  <2>2. read_directory_index \in 0 .. NUM_DIRECTORY + 1
    BY DEF FInv, FilesTypeOK
  <2> QED BY <2>1, <2>2, SafeSame DEF NullCall
<1>2. CASE ~(filename = <<>> \/ read_dentry_by_name(filename) = {} \/ FreeFDs = {})
  <2>1. PICK f, fd : /\ f = Found(filename)
                     /\ fd = CHOOSE x \in FreeFDs : \A y \in FreeFDs : x <= y
    BY Zenon
  <2>2. f \in Entries
    BY <1>2, <2>1, FoundIsEntry, Zenon
  <2>3. fd \in FILE_ARRAY_START .. LAST_FILE_ARRAY_INDEX
    <3>1. FreeFDs \subseteq Nat /\ FreeFDs # {}
      BY <1>2 DEF FreeFDs, FILE_ARRAY_START
    <3>2. \E x \in FreeFDs : \A y \in FreeFDs : x <= y
      BY <3>1, LeastNatural
    <3>3. fd \in FreeFDs
      BY <2>1, <3>2, Zenon
    <3> QED BY <3>3 DEF FreeFDs
  <2>4. PICK d : d = Descriptor(DeviceOf(Directory[f].type), f, 0, 1)
    BY Zenon
  <2>5. d \in Desc /\ OpenFile(d)
    <3>1. PICK dev : dev = DeviceOf(Directory[f].type) /\ dev \in Devices
      BY <2>2, DeviceOfType
    <3>2. d = [ops |-> dev, inode |-> f, file_position |-> 0, flags |-> 1]
      BY <2>4, <3>1 DEF Descriptor
    <3>3. f \in Int /\ 0 \in 0 .. Directory[f].length
      BY <2>2, DirectoryFacts
    <3>4. d \in Desc
      BY <3>1, <3>2, <3>3 DEF Desc
    <3>5. OpenFile(d)
      BY <2>2, <3>1, <3>2, <3>3 DEF OpenFile
    <3> QED BY <3>4, <3>5
  <2>6. Set(fd, d) /\ eax' = fd /\ UNCHANGED <<command_global, read_directory_index>>
    <3>1. /\ Set(CHOOSE x \in FreeFDs : \A y \in FreeFDs : x <= y,
                 Descriptor(DeviceOf(Directory[Found(filename)].type), Found(filename), 0, 1))
          /\ eax' = CHOOSE x \in FreeFDs : \A y \in FreeFDs : x <= y
          /\ UNCHANGED <<command_global, read_directory_index>>
      BY <1>2, OpenTakes, Zenon
    <3> QED BY <2>1, <2>4, <3>1, Zenon
  <2>7. eax' \in Int /\ eax' # NullCall
    BY <2>3, <2>6 DEF FILE_ARRAY_START, NullCall
  <2> QED BY <2>3, <2>5, <2>6, <2>7, SafeSet
<1> QED BY <1>1, <1>2

LEMMA CloseSafe ==
    ASSUME FInv, current_process_ID \in Slots, flag[current_process_ID] = 1, UNCHANGED flag,
           NEW fd \in Int, sys_call_close(fd)
    PROVE  CallSafe
<1>1. CASE fd < FILE_ARRAY_START \/ fd > LAST_FILE_ARRAY_INDEX \/ Current[fd].flags = 0
  <2>1. eax' = -1 /\ UNCHANGED <<file_array, command_global, read_directory_index>>
    BY <1>1 DEF sys_call_close
  <2>2. read_directory_index \in 0 .. NUM_DIRECTORY + 1
    BY DEF FInv, FilesTypeOK
  <2> QED BY <2>1, <2>2, SafeSame DEF NullCall
<1>2. CASE ~(fd < FILE_ARRAY_START \/ fd > LAST_FILE_ARRAY_INDEX \/ Current[fd].flags = 0)
  <2>1. fd \in FILE_ARRAY_START .. LAST_FILE_ARRAY_INDEX /\ fd \in FDs
    BY <1>2, FDRanges, FileArrayAssumption DEF FILE_ARRAY_START, LAST_FILE_ARRAY_INDEX
  <2>2. Current[fd] \in Desc /\ OpenFile(Current[fd])
    BY <1>2, <2>1, CurrentTyped DEF Desc
  <2>3. PICK d : d = [Current[fd] EXCEPT !.flags = 0]
    BY Zenon
  <2>4. d \in Desc /\ d.flags = 0
    BY <2>2, <2>3 DEF Desc
  <2>5. Current[fd].ops # NoDevice
    BY <2>2, DeviceOfType DEF OpenFile, NoDevice
  <2>6. Set(fd, d) /\ eax' = 0 /\ UNCHANGED <<command_global, read_directory_index>>
    BY <1>2, <2>3, <2>5 DEF sys_call_close
  <2>7. eax' \in Int /\ eax' # NullCall
    BY <2>6 DEF NullCall
  <2> QED BY <2>1, <2>4, <2>6, <2>7, SafeSet
<1> QED BY <1>1, <1>2

\* The only descriptors that are read are the terminal's input and open files.
LEMMA ReadSafe ==
    ASSUME FInv, current_process_ID \in Slots, flag[current_process_ID] = 1, UNCHANGED flag,
           NEW fd \in Int, NEW nbytes \in Int, sys_call_read(fd, nbytes)
    PROVE  CallSafe
<1>0. read_directory_index \in 0 .. NUM_DIRECTORY + 1
  BY DEF FInv, FilesTypeOK
<1>1. CASE fd = 1 \/ fd > LAST_FILE_ARRAY_INDEX \/ fd < 0 \/ Current[fd].flags = 0
  <2>1. eax' = -1 /\ UNCHANGED <<file_array, command_global, read_directory_index>>
    BY <1>1 DEF sys_call_read
  <2> QED BY <1>0, <2>1, SafeSame DEF NullCall
<1>2. CASE ~(fd = 1 \/ fd > LAST_FILE_ARRAY_INDEX \/ fd < 0 \/ Current[fd].flags = 0)
  <2>1. fd \in FDs /\ fd # 1
    BY <1>2, FDRanges, FileArrayAssumption DEF LAST_FILE_ARRAY_INDEX
  <2>2. Current[fd] \in Desc /\ Current[fd].flags = 1
    BY <1>2, <2>1, CurrentTyped DEF Desc
  <2>3. /\ fd = 0 => Current[fd].ops = "STDIN"
        /\ fd # 0 => /\ fd \in FILE_ARRAY_START .. LAST_FILE_ARRAY_INDEX
                     /\ OpenFile(Current[fd])
    BY <2>1, <2>2, FDRanges, CurrentTyped
  <2>4. fd # 0 => Current[fd].ops \in {"RTC_DEV", "DIR_DEV", "FILE_DEV"}
    BY <2>3, DeviceOfType DEF OpenFile
  <2>5. CallRead(fd, nbytes) /\ UNCHANGED command_global
    BY <1>2 DEF sys_call_read
  <2>6. CASE Current[fd].ops = "STDIN" /\ read_Terminal
    <3>1. eax' \in Int /\ eax' # NullCall /\ UNCHANGED <<file_array, read_directory_index>>
      BY <2>6, LinesAssumption DEF read_Terminal, NullCall
    <3> QED BY <1>0, <2>5, <3>1, SafeSame
  <2>7. CASE Current[fd].ops = "RTC_DEV" /\ RTC_Read
    <3>1. eax' \in Int /\ eax' # NullCall /\ UNCHANGED <<file_array, read_directory_index>>
      BY <2>7 DEF RTC_Read, NullCall
    <3> QED BY <1>0, <2>5, <3>1, SafeSame
  <2>8. CASE Current[fd].ops = "DIR_DEV" /\ read_directory
    <3>1. UNCHANGED file_array
      BY <2>8 DEF read_directory
    <3>2. CASE read_directory_index > NUM_DIRECTORY
      <4>1. eax' = 0 /\ read_directory_index' = 0
        BY <2>8, <3>2 DEF read_directory
      <4> QED BY <2>5, <3>1, <4>1, IndexAssumption, SafeSame DEF NullCall
    <3>3. CASE ~(read_directory_index > NUM_DIRECTORY)
      <4>1. /\ eax' = Len(Cut(Directory[read_directory_index].name))
            /\ read_directory_index' = read_directory_index + 1
        BY <2>8, <3>3 DEF read_directory
      <4>2. read_directory_index' \in 0 .. NUM_DIRECTORY + 1
        BY <1>0, <3>3, <4>1, IndexAssumption
      <4>3. read_directory_index \in Entries
        BY <1>0, <3>3, IndexAssumption, DirectoryFacts
      <4>4. eax' \in Nat
        BY <4>1, <4>3, NameLength
      <4> QED BY <2>5, <3>1, <4>2, <4>4, SafeSame DEF NullCall
    <3> QED BY <3>2, <3>3
  <2>9. CASE Current[fd].ops = "FILE_DEV" /\ file_read(fd, nbytes)
    <3>1. /\ fd # 0 /\ OpenFile(Current[fd])
          /\ fd \in FILE_ARRAY_START .. LAST_FILE_ARRAY_INDEX
      BY <2>3, <2>9
    <3>2. PICK len, pos, copied :
              /\ len = Directory[Current[fd].inode].length
              /\ pos = Current[fd].file_position
              /\ copied = IF nbytes \in 0 .. len - pos THEN nbytes ELSE len - pos
      BY Zenon
    <3>3. len \in Nat /\ pos \in 0 .. len
      BY <3>1, <3>2, DirectoryFacts DEF OpenFile
    <3>4. copied \in Nat /\ pos + copied \in 0 .. len
      BY <3>2, <3>3
    <3>5. PICK d : d = [Current[fd] EXCEPT !.file_position = pos + copied]
      BY Zenon
    <3>6. /\ d \in Desc /\ d.inode = Current[fd].inode /\ d.ops = Current[fd].ops
          /\ d.file_position = pos + copied
      BY <2>2, <3>4, <3>5 DEF Desc
    <3>7. OpenFile(d)
      BY <3>1, <3>2, <3>4, <3>6 DEF OpenFile
    <3>8. eax' = copied /\ Set(fd, d) /\ UNCHANGED read_directory_index
      BY <2>9, <3>2, <3>5 DEF file_read
    <3>9. eax' \in Int /\ eax' # NullCall
      BY <3>4, <3>8 DEF NullCall
    <3> QED BY <2>5, <3>1, <3>6, <3>7, <3>8, <3>9, SafeSet
  <2>10. Current[fd].ops \notin {"STDOUT", NoDevice}
    BY <2>3, <2>4 DEF NoDevice
  <2> QED BY <2>5, <2>6, <2>7, <2>8, <2>9, <2>10, Zenon DEF CallRead
<1> QED BY <1>1, <1>2

LEMMA WriteSafe ==
    ASSUME FInv, current_process_ID \in Slots, flag[current_process_ID] = 1, UNCHANGED flag,
           NEW fd \in Int, sys_call_write(fd)
    PROVE  CallSafe
<1>0. read_directory_index \in 0 .. NUM_DIRECTORY + 1
  BY DEF FInv, FilesTypeOK
<1>1. UNCHANGED <<file_array, command_global, read_directory_index>>
  BY DEF sys_call_write
<1>2. CASE fd = 0 \/ fd > LAST_FILE_ARRAY_INDEX \/ fd < 0 \/ Current[fd].flags = 0
  <2>1. eax' = -1
    BY <1>2 DEF sys_call_write
  <2> QED BY <1>0, <1>1, <2>1, SafeSame DEF NullCall
<1>3. CASE ~(fd = 0 \/ fd > LAST_FILE_ARRAY_INDEX \/ fd < 0 \/ Current[fd].flags = 0)
  <2>1. fd \in FDs /\ fd # 0
    BY <1>3, FDRanges, FileArrayAssumption DEF LAST_FILE_ARRAY_INDEX
  <2>2. Current[fd] \in Desc /\ Current[fd].flags = 1
    BY <1>3, <2>1, CurrentTyped DEF Desc
  <2>3. Current[fd].ops \in {"STDOUT", "RTC_DEV", "DIR_DEV", "FILE_DEV"}
    BY <2>1, <2>2, FDRanges, CurrentTyped, DeviceOfType DEF OpenFile
  <2>4. eax' = WriteResult(Current[fd].ops)
    BY <1>3 DEF sys_call_write
  <2>5. eax' \in {0, -1}
    BY <2>3, <2>4 DEF WriteResult
  <2> QED BY <1>0, <1>1, <2>5, SafeSame DEF NullCall
<1> QED BY <1>2, <1>3

\* A call whose arguments are those of its system call.
ProperCall(k) ==
    /\ k.call = "read" => k.arg \in Int /\ k.nbytes \in Int
    /\ k.call \in {"write", "close"} => k.arg \in Int

LEMMA CallsProper == \A k \in Calls : ProperCall(k)
<1>1. -MAX_INT - 1 .. MAX_INT \subseteq Int
  BY SMT
<1> QED BY <1>1, CallsAssumption, Zenon DEF ProperCall

LEMMA SystemCallSafe ==
    ASSUME Inv, FInv, Healthy, NEW k, ProperCall(k), SYSTEM_CALL_ECE(k)
    PROVE  CallSafe
<1>1. mode = "user" /\ UNCHANGED flag
  BY Zenon DEF SYSTEM_CALL_ECE, vars, pcb
<1>2. current_process_ID \in Slots /\ flag[current_process_ID] = 1
  BY <1>1, CurrentInUse
<1>3. read_directory_index \in 0 .. NUM_DIRECTORY + 1
  BY DEF FInv, FilesTypeOK
<1>4. CASE k.call = "read" /\ sys_call_read(k.arg, k.nbytes)
  <2>0. k.arg \in Int /\ k.nbytes \in Int
    BY <1>4, Zenon DEF ProperCall
  <2>1. PICK fd \in Int, nbytes \in Int : sys_call_read(fd, nbytes)
    BY <1>4, <2>0, Zenon
  <2> QED BY <1>1, <1>2, <2>1, ReadSafe
<1>5. CASE k.call = "write" /\ sys_call_write(k.arg)
  <2>1. PICK fd \in Int : sys_call_write(fd)
    BY <1>5 DEF ProperCall
  <2> QED BY <1>1, <1>2, <2>1, WriteSafe
<1>6. CASE k.call = "open" /\ sys_call_open(k.arg)
  BY <1>1, <1>2, <1>6, OpenSafe
<1>7. CASE k.call = "close" /\ sys_call_close(k.arg)
  <2>1. PICK fd \in Int : sys_call_close(fd)
    BY <1>7 DEF ProperCall
  <2> QED BY <1>1, <1>2, <2>1, CloseSafe
<1>8. ASSUME eax' \in {0, -1}, UNCHANGED <<file_array, command_global, read_directory_index>>
      PROVE  CallSafe
  BY <1>1, <1>3, <1>8, SafeSame DEF NullCall
<1>9. CASE k.call = "getargs" /\ sys_call_getargs(k.nbytes)
  <2>1. eax' \in {0, -1} /\ UNCHANGED <<file_array, command_global, read_directory_index>>
    BY <1>9 DEF sys_call_getargs
  <2> QED BY <1>8, <2>1
<1>10. CASE k.call = "vidmap" /\ sys_call_vidmap(k.arg)
  <2>1. eax' \in {0, -1} /\ UNCHANGED <<file_array, command_global, read_directory_index>>
    BY <1>10, Zenon DEF sys_call_vidmap
  <2> QED BY <1>8, <2>1
<1>11. CASE sys_call_set_handler \/ sys_call_sigreturn \/ INVALID_SYS_CALL
  <2>1. eax' \in {0, -1} /\ UNCHANGED <<file_array, command_global, read_directory_index>>
    BY <1>11 DEF sys_call_set_handler, sys_call_sigreturn, INVALID_SYS_CALL
  <2> QED BY <1>8, <2>1
<1> QED
  BY <1>4, <1>5, <1>6, <1>7, <1>9, <1>10, <1>11, Zenon DEF SYSTEM_CALL_ECE

-----------------------------------------------------------------------------
(***************************************************************************)
(* execute, halt and the keys.                                             *)
(***************************************************************************)
\* What a step of the table does to the slots: one that was free is taken for
\* the new current process, or none is taken.
Takes(i) == /\ i \in Slots /\ flag[i] = 0 /\ current_process_ID' = i
            /\ flag' = [flag EXCEPT ![i] = 1]

\* The array of a new process is the fresh one.
LEMMA NewSafe ==
    ASSUME Inv, Healthy, FInv, NEW i, Takes(i), NEW command, NewProcess(command)
    PROVE  FInv' /\ \A j \in Slots \ {i} : Private(j)' = Private(j)
<1>1. flag \in [Slots -> {0, 1}]
  BY DEF Inv, WellTyped, TypeOK
<1>2. file_array \in [Slots -> [FDs -> Desc]]
  BY DEF FInv, FilesTypeOK, Desc
<1>3. file_array' = [file_array EXCEPT ![i] = FreshArray] /\ i \in Slots
  BY DEF NewProcess, Takes
<1>4. command_global' = [command_global EXCEPT ![i] = command]
  BY DEF NewProcess, Takes, Arguments
<1>5. FilesTypeOK'
  <2>1. file_array' \in [Slots -> [FDs -> Desc]]
    BY <1>2, <1>3, FreshArrayTyped
  <2>2. DOMAIN command_global' = Slots
    BY <1>4 DEF FInv, FilesTypeOK
  <2> QED BY <2>1, <2>2 DEF FInv, FilesTypeOK, NewProcess, Desc
<1>6. DescriptorsSound'
  <2>1. ASSUME NEW j \in Slots, flag'[j] = 1
        PROVE  /\ file_array'[j][0].flags = 1 /\ file_array'[j][0].ops = "STDIN"
               /\ file_array'[j][1].flags = 1 /\ file_array'[j][1].ops = "STDOUT"
               /\ \A fd \in FILE_ARRAY_START .. LAST_FILE_ARRAY_INDEX :
                     file_array'[j][fd].flags = 1 => OpenFile(file_array'[j][fd])
    <3>1. CASE j = i
      <4>1. file_array'[j] = FreshArray
        BY <1>2, <1>3, <3>1
      <4>2. ASSUME NEW fd \in FILE_ARRAY_START .. LAST_FILE_ARRAY_INDEX
            PROVE  FreshArray[fd].flags = 0
        BY FDRanges DEF FreshArray, Descriptor, FILE_ARRAY_START
      <4> QED BY <4>1, <4>2, FDRanges DEF FreshArray, Descriptor
    <3>2. CASE j # i
      <4>1. file_array'[j] = file_array[j] /\ flag[j] = 1
        BY <1>1, <1>2, <1>3, <2>1, <3>2 DEF Takes
      <4> QED BY <4>1 DEF FInv, DescriptorsSound
    <3> QED BY <3>1, <3>2
  <2> QED BY <2>1 DEF DescriptorsSound, OpenFile
<1>7. \A j \in Slots \ {i} : Private(j)' = Private(j)
  BY <1>2, <1>3, <1>4 DEF Private, FInv, FilesTypeOK
<1> QED BY <1>5, <1>6, <1>7 DEF FInv

\* The array of a process that ends is closed.
LEMMA EndSafe ==
    ASSUME Inv, Healthy, FInv, current_process_ID \in Slots,
           flag' = [flag EXCEPT ![current_process_ID] = 0], EndProcess
    PROVE  FInv' /\ \A j \in Slots \ {current_process_ID} : Private(j)' = Private(j)
<1>0. PICK c \in Slots : c = current_process_ID
  OBVIOUS
<1>1. flag \in [Slots -> {0, 1}] /\ flag' = [flag EXCEPT ![c] = 0]
  BY <1>0 DEF Inv, WellTyped, TypeOK
<1>2. file_array \in [Slots -> [FDs -> Desc]]
  BY DEF FInv, FilesTypeOK, Desc
<1>3. /\ file_array' = [file_array EXCEPT ![c] = ClosedArray]
      /\ UNCHANGED <<command_global, read_directory_index, eax>>
  BY <1>0 DEF EndProcess
<1>4. FilesTypeOK'
  <2>1. file_array' \in [Slots -> [FDs -> Desc]]
    BY <1>2, <1>3, FreshArrayTyped
  <2> QED BY <1>3, <2>1 DEF FInv, FilesTypeOK, Desc
<1>5. DescriptorsSound'
  <2>1. ASSUME NEW j \in Slots, flag'[j] = 1
        PROVE  file_array'[j] = file_array[j] /\ flag[j] = 1
    BY <1>1, <1>2, <1>3, <2>1
  <2> QED BY <2>1 DEF FInv, DescriptorsSound, OpenFile
<1>6. \A j \in Slots \ {c} : Private(j)' = Private(j)
  BY <1>2, <1>3 DEF Private
<1> QED BY <1>0, <1>4, <1>5, <1>6 DEF FInv

\* The process that runs, in both modes.
LEMMA CurrentSlot ==
    ASSUME Inv, Healthy
    PROVE  /\ current_process_ID \in Slots /\ terminalNumber[current_process_ID] = buffer_flag
           /\ flag \in [Slots -> {0, 1}] /\ mode \in {"user", "restart"}
BY DEF Inv, WellTyped, TypeOK, Consistent, RunningProcess, Live, Healthy

\* A call changes no array but the caller's and no command.
LEMMA CallPrivate ==
    ASSUME FInv, NEW k, SYSTEM_CALL_ECE(k)
    PROVE  /\ UNCHANGED command_global
           /\ \A i \in Slots : i # current_process_ID => file_array'[i] = file_array[i]
<1>0. PICK c : c = current_process_ID
  BY Zenon
<1>1. ASSUME NEW fd, NEW d, Set(fd, d)
      PROVE  \A i \in Slots : i # c => file_array'[i] = file_array[i]
  BY <1>0, <1>1 DEF Set, FInv, FilesTypeOK
<1>2. UNCHANGED file_array \/ \E fd, d : Set(fd, d)
  <2>1. \A fd, n : sys_call_read(fd, n) => UNCHANGED file_array \/ \E x, d : Set(x, d)
    BY Zenon DEF sys_call_read, CallRead, read_Terminal, RTC_Read, read_directory, file_read
  <2>2. \A name : sys_call_open(name) => UNCHANGED file_array \/ \E x, d : Set(x, d)
    BY Zenon DEF sys_call_open
  <2>3. \A fd : sys_call_close(fd) => UNCHANGED file_array \/ \E x, d : Set(x, d)
    BY Zenon DEF sys_call_close
  <2> QED
    BY <2>1, <2>2, <2>3, Zenon
       DEF SYSTEM_CALL_ECE, sys_call_write, sys_call_getargs, sys_call_vidmap,
           sys_call_set_handler, sys_call_sigreturn, INVALID_SYS_CALL
<1>3. UNCHANGED command_global
  BY DEF SYSTEM_CALL_ECE, sys_call_read, sys_call_open, sys_call_close, sys_call_write,
         sys_call_getargs, sys_call_vidmap, sys_call_set_handler, sys_call_sigreturn,
         INVALID_SYS_CALL
<1> QED BY <1>0, <1>1, <1>2, <1>3

\* It also keeps the invariant and calls nothing null.
LEMMA CallKeeps ==
    ASSUME Inv, Healthy, FInv, NEW k, ProperCall(k), SYSTEM_CALL_ECE(k)
    PROVE  /\ FInv' /\ NoNullCall' /\ UNCHANGED command_global
           /\ \A i \in Slots : i # current_process_ID => file_array'[i] = file_array[i]
<1>1. FInv' /\ NoNullCall'
  BY SystemCallSafe DEF CallSafe, FInv, NoNullCall
<1> QED BY <1>1, CallPrivate

\* What a new process in slot i finds.
NewIn(i, command) ==
    /\ i = current_process_ID' /\ i \in Slots /\ flag[i] = 0
    /\ file_array' = [file_array EXCEPT ![i] = FreshArray]
    /\ command_global' = [command_global EXCEPT ![i] = command]
    /\ UNCHANGED read_directory_index

LEMMA ExecuteTakes ==
    ASSUME NEW f, NEW t, sys_call_execute(f, t), FreeSlots # {}
    PROVE  \E i : Takes(i)
BY FirstFreeIsFree DEF sys_call_execute, Takes

LEMMA TakesNew ==
    ASSUME Inv, Healthy, FInv, NoNullCall, NEW i, Takes(i), NEW command, NewProcess(command)
    PROVE  /\ FInv' /\ NoNullCall' /\ NewIn(i, command)
           /\ \A j \in Slots : flag[j] = 1 => Private(j)' = Private(j)
<1>1. flag[i] = 0 /\ UNCHANGED eax
  BY DEF Takes, NewProcess
<1>2. NewIn(i, command)
  BY DEF Takes, NewProcess, NewIn, Arguments
<1> QED BY <1>1, <1>2, NewSafe DEF NoNullCall

\* execute starts a process in a free slot or leaves all arrays as they are; with
\* a full table the caller's copy of its command is lost.
LEMMA ExecuteKeeps ==
    ASSUME Inv, Healthy, FInv, NoNullCall, NEW command, Execute(command)
    PROVE  /\ FInv' /\ NoNullCall'
           /\ \A j \in Slots : flag[j] = 1 /\ j # current_process_ID => Private(j)' = Private(j)
           /\ \/ /\ Executable(command) /\ \E i : NewIn(i, command)
              \/ /\ UNCHANGED <<current_process_ID, file_array, read_directory_index>>
                 /\ \A j \in Slots : j # current_process_ID => Private(j)' = Private(j)
<1>0. PICK c : c = current_process_ID
  BY Zenon
<1>1. CASE Executable(command) /\ ExecuteProgram /\ NewProcess(command)
  <2>1. PICK i : Takes(i)
    BY <1>1, ExecuteTakes DEF ExecuteProgram, is_PCB_array_full
  <2> QED BY <1>1, <2>1, TakesNew
<1>2. CASE ExecuteFull /\ Arguments(command) /\ UNCHANGED <<file_array, read_directory_index, eax>>
  <2>1. UNCHANGED <<flag, current_process_ID>>
    BY <1>2 DEF ExecuteFull, pcb, cpu
  <2>2. command_global' = [command_global EXCEPT ![c] = command]
    BY <1>0, <1>2, <2>1 DEF Arguments
  <2>3. FilesTypeOK' /\ DescriptorsSound'
    BY <1>2, <2>1, <2>2, SameArraySound DEF FInv, FilesTypeOK
  <2>4. \A j \in Slots : j # c => Private(j)' = Private(j)
    BY <1>2, <2>2 DEF Private, FInv, FilesTypeOK
  <2> QED BY <1>0, <1>2, <2>1, <2>3, <2>4 DEF FInv, NoNullCall
<1>3. CASE ExecuteInvalid /\ UNCHANGED files
  <2>1. UNCHANGED <<flag, current_process_ID, file_array, command_global, read_directory_index, eax>>
    BY <1>3 DEF ExecuteInvalid, pcb, cpu, files
  <2> QED BY <2>1, SameArraySound DEF FInv, FilesTypeOK, NoNullCall, Private
<1> QED BY <1>1, <1>2, <1>3, Zenon DEF Execute

\* halt closes the array of the process that ends and no other.
LEMMA HaltKeeps ==
    ASSUME Inv, Healthy, FInv, NoNullCall, NEW s, Halt(s)
    PROVE  /\ FInv' /\ NoNullCall' /\ UNCHANGED read_directory_index
           /\ \A j \in Slots : j # current_process_ID => Private(j)' = Private(j)
<1>1. HaltCurrent /\ EndProcess
  BY Zenon DEF Halt, HaltProgram, HaltBaseShell
<1>2. /\ flag' = [flag EXCEPT ![current_process_ID] = 0]
      /\ UNCHANGED <<eax, read_directory_index>>
  BY <1>1 DEF HaltCurrent, EndProcess
<1> QED BY <1>1, <1>2, CurrentSlot, EndSafe DEF NoNullCall

LEMMA OverrunHalts == ASSUME NEW k, ReadOverrun(k) PROVE Halt(1) /\ mode = "user"
BY Zenon DEF ReadOverrun, Halt, HaltProgram

\* A shell is started in a free slot, or a process that is in use resumed.
LEMMA KernelKeeps ==
    ASSUME Inv, Healthy, FInv, NoNullCall, KernelStep
    PROVE  /\ FInv' /\ NoNullCall'
           /\ buffer_flag' = buffer_flag =>
                 \A j \in Slots : flag[j] = 1 => Private(j)' = Private(j)
           /\ \/ \E i : NewIn(i, <<ShellName>>)
              \/ /\ UNCHANGED <<file_array, command_global, read_directory_index>>
                 /\ flag[current_process_ID'] = 1
<1>1. CASE RestartShell /\ NewProcess(<<ShellName>>)
  <2>1. FreeSlots # {}
    BY <1>1, CurrentSlot DEF Inv, Consistent, RestartOnScreen, RestartShell, FreeSlots
  <2>2. PICK i : Takes(i)
    BY <1>1, <2>1, ExecuteTakes DEF RestartShell
  <2> QED BY <1>1, <2>2, TakesNew
<1>2. ASSUME NEW n \in Terminals, StartTerminal(n, esp0), NewProcess(<<ShellName>>)
      PROVE  FInv' /\ NoNullCall' /\ buffer_flag' # buffer_flag /\ \E i : NewIn(i, <<ShellName>>)
  <2>1. ~is_PCB_array_full /\ buffer_flag' # buffer_flag
    BY <1>2 DEF StartTerminal, SwitchAllowed, SaveContext
  <2>2. PICK i : Takes(i)
    BY <1>2, <2>1, ExecuteTakes DEF StartTerminal, is_PCB_array_full
  <2> QED BY <1>2, <2>1, <2>2, TakesNew
<1>3. ASSUME NEW n \in Terminals, ResumeTerminal(n, esp0), UNCHANGED files
      PROVE  /\ FInv' /\ NoNullCall' /\ buffer_flag' # buffer_flag
             /\ UNCHANGED <<file_array, command_global, read_directory_index>>
             /\ flag[current_process_ID'] = 1
  <2>1. UNCHANGED <<flag, file_array, command_global, read_directory_index, eax>>
    BY <1>3 DEF ResumeTerminal, pcb, files
  <2>2. buffer_flag' # buffer_flag /\ n # buffer_flag /\ mode = "user"
    BY <1>3 DEF ResumeTerminal, SwitchAllowed, SaveContext
  <2>3. current_process_ID' = PID[n] /\ n \in Started
    BY <1>3 DEF ResumeTerminal, Started
  <2>4. PID[n] \in Live
    BY <2>2, <2>3 DEF Inv, Consistent, SavedContext, IsContextOf
  <2>5. flag[current_process_ID'] = 1
    BY <2>2, <2>3, <2>4 DEF Live
  <2> QED BY <2>1, <2>2, <2>5, SameArraySound DEF FInv, FilesTypeOK, NoNullCall
<1> QED BY <1>1, <1>2, <1>3, Zenon DEF KernelStep

\* One step of the specification keeps the invariant, calls nothing null, and
\* reaches only files of the terminal on screen.
LEMMA StepSafe ==
    ASSUME Inv, Healthy, FInv, NoNullCall, DNext, Healthy'
    PROVE  /\ FInv' /\ NoNullCall'
           /\ buffer_flag' = buffer_flag =>
                 \A i \in Slots : flag[i] = 1 /\ terminalNumber[i] # buffer_flag =>
                                     Private(i)' = Private(i)
<1>1. \A i \in Slots : terminalNumber[i] # buffer_flag => i # current_process_ID
  BY CurrentSlot
<1>2. CASE \E k \in Calls : SYSTEM_CALL_ECE(k)
  <2>1. PICK k \in Calls : SYSTEM_CALL_ECE(k)
    BY <1>2
  <2>2. ProperCall(k)
    BY CallsProper
  <2> QED BY <1>1, <2>1, <2>2, CallKeeps DEF Private
<1>3. CASE \E command \in Commands : Execute(command)
  BY <1>1, <1>3, ExecuteKeeps
<1>4. CASE \E s \in Statuses : Halt(s)
  BY <1>1, <1>4, HaltKeeps
<1>5. CASE KernelStep
  BY <1>5, KernelKeeps
<1>6. CASE \E k \in Calls : ReadOverrun(k)
  BY <1>1, <1>6, OverrunHalts, HaltKeeps
<1> QED BY <1>2, <1>3, <1>4, <1>5, <1>6, Zenon DEF DNext

-----------------------------------------------------------------------------
DInv == Inv /\ Healthy /\ FInv /\ NoNullCall

LEMMA DInitInv == DInit => DInv
<1> SUFFICES ASSUME DInit PROVE DInv
  OBVIOUS
<1>1. Inv /\ Healthy
  BY InitInv DEF DInit, Init, Healthy
<1>2. FilesTypeOK /\ NoNullCall
  BY FreshArrayTyped, IndexAssumption DEF DInit, FilesTypeOK, Desc, NoNullCall, NullCall
<1>3. DescriptorsSound
  <2>1. ASSUME NEW i \in Slots, flag[i] = 1 PROVE file_array[i] = FreshArray
    BY <2>1 DEF DInit, Init
  <2>2. \A fd \in FILE_ARRAY_START .. LAST_FILE_ARRAY_INDEX : FreshArray[fd].flags = 0
    BY FDRanges DEF FreshArray, Descriptor, FILE_ARRAY_START
  <2>3. /\ FreshArray[0].flags = 1 /\ FreshArray[0].ops = "STDIN"
        /\ FreshArray[1].flags = 1 /\ FreshArray[1].ops = "STDOUT"
    BY FDRanges DEF FreshArray, Descriptor
  <2> QED BY <2>1, <2>2, <2>3 DEF DescriptorsSound
<1> QED BY <1>1, <1>2, <1>3 DEF DInv, FInv

LEMMA DInvStep == DInv /\ [DNext /\ Healthy']_dvars => DInv'
<1> SUFFICES ASSUME DInv, [DNext /\ Healthy']_dvars PROVE DInv'
  OBVIOUS
<1>1. Inv'
  BY TableInv DEF DInv
<1>2. CASE DNext /\ Healthy'
  BY <1>1, <1>2, StepSafe DEF DInv
<1>3. CASE UNCHANGED dvars
  <2>1. UNCHANGED <<flag, mode, relocated, file_array, command_global, read_directory_index, eax>>
    BY <1>3, Zenon DEF dvars, vars, pcb, files
  <2> QED BY <1>1, <2>1, SameArraySound DEF DInv, FInv, FilesTypeOK, NoNullCall, Healthy
<1> QED BY <1>2, <1>3

\* The inductive invariant: that of the process table, and the files'.
THEOREM DInvHolds == DSpec => []DInv
BY DInitInv, DInvStep, PTL DEF DSpec

\* Every process has its terminal at 0 and 1 and sound descriptors above, for all
\* programs, images and sizes of the tables.
THEOREM DescriptorsSoundHolds == DSpec => []DescriptorsSound
<1>1. DInv => DescriptorsSound
  BY DEF DInv, FInv
<1> QED BY <1>1, DInvHolds, PTL

\* No program can make the kernel call through a null pointer of a device table.
THEOREM NoNullCallHolds == DSpec => []NoNullCall
<1>1. DInv => NoNullCall
  BY DEF DInv
<1> QED BY <1>1, DInvHolds, PTL

\* The state has its type; the index of the directory never leaves its byte.
THEOREM FilesTyped == DSpec => []FilesTypeOK
<1>1. DInv => FilesTypeOK
  BY DEF DInv, FInv
<1> QED BY <1>1, DInvHolds, PTL

\* No step on one terminal reaches descriptors or arguments of another one's.
THEOREM BackgroundFilesHolds == DSpec => BackgroundFilesUntouched
<1>1. ASSUME DInv, [DNext /\ Healthy']_dvars
      PROVE  [buffer_flag' = buffer_flag =>
                 \A i \in Slots : flag[i] = 1 /\ terminalNumber[i] # buffer_flag =>
                                     Private(i)' = Private(i)]_dvars
  <2>1. CASE DNext /\ Healthy'
    BY <2>1, StepSafe, <1>1 DEF DInv
  <2> QED BY <1>1, <2>1
<1> QED BY <1>1, DInvHolds, PTL DEF DSpec, BackgroundFilesUntouched
-----------------------------------------------------------------------------
(***************************************************************************)
(* The programs of UserPrograms.  What a program may rely on between two   *)
(* of its calls concerns its own slot only; the listing alone depends on   *)
(* the index that all processes share.                                     *)
(***************************************************************************)
FileFDs == FILE_ARRAY_START .. LAST_FILE_ARRAY_INDEX

\* The descriptors above the terminal's that are open in array a.
OnlyOpen(a, S) == \A fd \in FileFDs : a[fd].flags = 1 <=> fd \in S

\* Descriptor fd of array a is open and of this device.
OpenAs(a, fd, device) == fd \in FileFDs /\ a[fd].flags = 1 /\ a[fd].ops = device

LocalsOK(l) ==
    /\ l = [fd |-> l.fd, file |-> l.file, entry |-> l.entry, n |-> l.n, status |-> l.status,
            script |-> l.script, failed |-> l.failed]
    /\ l.fd \in Int /\ l.file \in Int /\ l.n \in Nat
    /\ l.entry \in Entries /\ l.status \in 0..255

(***************************************************************************)
(* The programs at their places: their locals l, their array a, the copy   *)
(* of their command that getargs reads and the command that was typed.     *)
(***************************************************************************)
LsOK(at, l, a) ==
    /\ at \in {"main", "next", "write", "halt"}
    /\ at \in {"next", "write"} => OpenAs(a, l.fd, "DIR_DEV")

\* grep has the directory open, and between open and close one file beside it.
GrepOK(at, l, a, copy) ==
    /\ GrepsHaveArguments => Len(copy) >= 2
    /\ at \in {"main", "open", "next", "file", "data", "close", "halt"}
    /\ at \in {"main", "open"} => OnlyOpen(a, {})
    /\ at \in {"next", "file", "data", "close"} => OpenAs(a, l.fd, "DIR_DEV")
    /\ at \in {"next", "file"} => OnlyOpen(a, {l.fd})
    /\ at = "file" => Directory[l.entry].name[1] # "."
    /\ at \in {"data", "close"} =>
          /\ OnlyOpen(a, {l.fd, l.file})
          /\ l.file \in FileFDs /\ l.file # l.fd
          /\ a[l.file].ops # "DIR_DEV"
    /\ at = "halt" => l.status = 0 \/ Len(copy) < 2

\* The command of cat names a file of the image.
Names(command) == Len(command) = 2 /\ read_dentry_by_name(command[2]) # {}

\* cat has printed its file up to the position of its descriptor.
CatOK(at, l, a, copy, command) ==
    /\ copy = command /\ Len(command) \in {1, 2}
    /\ Names(command) => Directory[Found(command[2])].type = "SINGLE_FILE"
    /\ at \in {"main", "open", "read", "write", "halt"}
    /\ at \in {"main", "open"} => OnlyOpen(a, {}) /\ l.n = 0
    /\ at = "open" => Len(command) = 2
    /\ at \in {"read", "write"} =>
          /\ Names(command)
          /\ OpenAs(a, l.fd, "FILE_DEV")
          /\ a[l.fd].inode = Found(command[2])
          /\ a[l.fd].file_position = l.n
    /\ at = "halt" =>
          IF Names(command)
          THEN /\ l.status = 0
               /\ a[l.fd].inode = Found(command[2])
               /\ l.n = Directory[Found(command[2])].length
          ELSE l.status # 0

(***************************************************************************)
(* The script of syserr.  Its steps are numbered so that those of          *)
(* err_open_lots are 1 .. 2 * SIZE_OF_FILE_ARRAY - 3; all others are calls *)
(* that have to be refused as long as nothing is open.                     *)
(***************************************************************************)
RefusedCall(k) ==
    \/ k.call = "read" /\ k.arg \in Int /\ k.arg # 0 /\ k.nbytes \in Nat
    \/ k.call = "write" /\ k.arg \in Int /\ k.arg # 1
    \/ k.call = "close" /\ k.arg \in Int
    \/ k.call = "open" /\ (k.arg = <<>> \/ read_dentry_by_name(k.arg) = {})
    \/ k.call = "vidmap" /\ ~k.arg
    \/ k.call = "invalid"

Lots == SIZE_OF_FILE_ARRAY - 1      \* the opens of err_open_lots

LastOfLots == 2 * SIZE_OF_FILE_ARRAY - 3

\* Step number j of a script may be t.
Expected(t, j) ==
    /\ j \in 1 .. Lots => t = Try(3, "open", <<".">>, "count")
    /\ j \in Lots + 1 .. LastOfLots =>
          t = Try(3, "close", j - Lots + 1, IF j = LastOfLots THEN "once" ELSE "")
    /\ j \notin 1 .. LastOfLots => t.want = "refused" /\ RefusedCall(t.k)

\* The rest of a script of which the steps up to number j have been taken.
RestFrom(s, j) ==
    /\ \E S : s \in Seq(S)
    /\ \A x \in 1 .. Len(s) : Expected(s[x], j + x)

\* The descriptors that are open behind step number j.
OpenAfter(j) ==
    {fd \in FileFDs : IF j <= Lots THEN fd <= j + 1 ELSE fd > j - Lots + 1}

\* So many opens have been refused behind step number j: none, or the last.
RefusedAfter(j) == IF j < Lots THEN 0 ELSE 1

SyserrOK(at, l, a) ==
    /\ l.failed = {}
    /\ at \in {"main", "test", "halt"}
    /\ at = "main" => OnlyOpen(a, {}) /\ l.n = 0
    /\ at = "test" =>
          \E j \in Int : /\ RestFrom(l.script, j)
                         /\ OnlyOpen(a, OpenAfter(j))
                         /\ l.n = RefusedAfter(j)

\* The entries from the first to one that is not included.
Listed(n) == [x \in 1 .. n |-> x - 1]

\* What a listing that has the directory to itself has delivered when the index
\* of the directory is next.
ListingOK(at, l, delivered, next) ==
    /\ l.n = 0 => delivered = <<>>
    /\ l.n # 0 /\ ~(at = "halt" /\ l.status = 0) => delivered = Listed(next)
    /\ at = "halt" /\ l.status = 0 => delivered = Listed(NUM_DIRECTORY + 1)

ProgramTypes ==
    /\ DOMAIN prog = Slots /\ DOMAIN pc = Slots /\ DOMAIN loc = Slots
    /\ DOMAIN out = Slots /\ DOMAIN alone = Slots /\ DOMAIN typed = Slots

ListingInv(i) ==
    prog[i] \in {"ls", "grep"} /\ alone[i] =>
        ListingOK(pc[i], loc[i], out[i], read_directory_index)

\* What concerns slot i alone.
SlotInv(i) ==
    /\ LocalsOK(loc[i])
    /\ prog[i] = "ls" => LsOK(pc[i], loc[i], file_array[i])
    /\ prog[i] = "grep" => GrepOK(pc[i], loc[i], file_array[i], command_global[i])
    /\ CatsReadFiles /\ prog[i] = "cat" =>
          CatOK(pc[i], loc[i], file_array[i], command_global[i], typed[i])
    /\ prog[i] = "syserr" => SyserrOK(pc[i], loc[i], file_array[i])

UInv == DInv /\ ProgramTypes /\ \A i \in Slots : SlotInv(i) /\ ListingInv(i)

-----------------------------------------------------------------------------
(***************************************************************************)
(* What the calls return to the process c that runs and do to its array.   *)
(***************************************************************************)
Runs(c) == DInv /\ mode = "user" /\ c = current_process_ID

LEMMA RunsFacts ==
    ASSUME NEW c, Runs(c)
    PROVE  /\ c \in Slots /\ flag[c] = 1 /\ buffer_flag \in Terminals
           /\ file_array \in [Slots -> [FDs -> Desc]]
           /\ Current = file_array[c]
           /\ DOMAIN command_global = Slots
           /\ read_directory_index \in 0 .. NUM_DIRECTORY + 1
<1>1. c \in Slots /\ flag[c] = 1
  BY CurrentInUse DEF Runs, DInv
<1>2. buffer_flag \in Terminals
  BY DEF Runs, DInv, Inv, WellTyped, TypeOK
<1> QED BY <1>1, <1>2 DEF Runs, DInv, FInv, FilesTypeOK, Desc, Current

\* The descriptors above the terminal's, and what they are when open.
LEMMA FileFDsAre ==
    /\ FileFDs \subseteq FDs /\ FileFDs \subseteq Int
    /\ \A fd \in Int : fd \in FileFDs <=> fd >= 2 /\ fd <= LAST_FILE_ARRAY_INDEX
    /\ LAST_FILE_ARRAY_INDEX = SIZE_OF_FILE_ARRAY - 1 /\ SIZE_OF_FILE_ARRAY \in Nat
BY FileArrayAssumption DEF FileFDs, FDs, FILE_ARRAY_START, LAST_FILE_ARRAY_INDEX

LEMMA OpenIsSound ==
    ASSUME NEW c, Runs(c), NEW fd \in FileFDs
    PROVE  /\ fd \in FDs /\ file_array[c][fd] \in Desc
           /\ file_array[c][fd].flags \in {0, 1}
           /\ file_array[c][fd].flags = 1 =>
                 /\ OpenFile(file_array[c][fd])
                 /\ file_array[c][fd].ops \in {"RTC_DEV", "DIR_DEV", "FILE_DEV"}
<1>1. fd \in FDs /\ file_array[c][fd] \in Desc
  BY RunsFacts, FileFDsAre
<1>2. file_array[c][fd].flags = 1 => OpenFile(file_array[c][fd])
  BY RunsFacts DEF Runs, DInv, FInv, DescriptorsSound, FileFDs
<1>3. OpenFile(file_array[c][fd]) => file_array[c][fd].ops \in {"RTC_DEV", "DIR_DEV", "FILE_DEV"}
  BY DeviceOfType DEF OpenFile
<1> QED BY <1>1, <1>2, <1>3 DEF Desc

\* Array a with descriptor d at fd.
Replaced(a, b, fd, d) ==
    b[fd] = d /\ \A x \in FDs : x # fd => b[x] = a[x]

LEMMA SetReplaces ==
    ASSUME NEW c, Runs(c), NEW fd \in FileFDs, NEW d, Set(fd, d)
    PROVE  Replaced(file_array[c], file_array'[c], fd, d)
<1>1. file_array' = [file_array EXCEPT ![c] = [file_array[c] EXCEPT ![fd] = d]]
  BY DEF Set, Runs
<1>2. file_array'[c] = [file_array[c] EXCEPT ![fd] = d]
  BY <1>1, RunsFacts
<1> QED BY <1>2, RunsFacts, FileFDsAre DEF Replaced

\* A new descriptor for the file called name.
NewDescriptor(name) ==
    Descriptor(DeviceOf(Directory[Found(name)].type), Found(name), 0, 1)

\* open takes the first free descriptor, if there is one.
LEMMA OpenResult ==
    ASSUME NEW c, Runs(c), NEW name, sys_call_open(name)
    PROVE  /\ UNCHANGED read_directory_index
           /\ \/ /\ \/ name = <<>>
                    \/ read_dentry_by_name(name) = {}
                    \/ \A fd \in FileFDs : file_array[c][fd].flags = 1
                 /\ eax' = -1 /\ file_array'[c] = file_array[c]
              \/ /\ name # <<>> /\ read_dentry_by_name(name) # {}
                 /\ eax' \in FileFDs
                 /\ file_array[c][eax'].flags = 0
                 /\ \A y \in FileFDs : file_array[c][y].flags = 0 => eax' <= y
                 /\ Replaced(file_array[c], file_array'[c], eax', NewDescriptor(name))
<1>0. FreeFDs = {fd \in FileFDs : file_array[c][fd].flags = 0}
  BY RunsFacts DEF FreeFDs, FileFDs
<1>1. CASE name = <<>> \/ read_dentry_by_name(name) = {} \/ FreeFDs = {}
  <2>1. eax' = -1 /\ UNCHANGED <<file_array, read_directory_index>>
    BY <1>1 DEF sys_call_open
  <2>2. FreeFDs = {} => \A fd \in FileFDs : file_array[c][fd].flags = 1
    BY <1>0, OpenIsSound
  <2> QED BY <1>1, <2>1, <2>2
<1>2. CASE ~(name = <<>> \/ read_dentry_by_name(name) = {} \/ FreeFDs = {})
  <2>1. PICK fd : fd = CHOOSE x \in FreeFDs : \A y \in FreeFDs : x <= y
    BY Zenon
  <2>2. fd \in FreeFDs /\ \A y \in FreeFDs : fd <= y
    <3>1. FreeFDs \subseteq Nat /\ FreeFDs # {}
      BY <1>2 DEF FreeFDs, FILE_ARRAY_START
    <3>2. \E x \in FreeFDs : \A y \in FreeFDs : x <= y
      BY <3>1, LeastNatural
    <3> QED BY <2>1, <3>2, Zenon
  <2>3. Set(fd, NewDescriptor(name)) /\ eax' = fd /\ UNCHANGED read_directory_index
    BY <1>2, <2>1, OpenTakes, Zenon DEF NewDescriptor
  <2>4. fd \in FileFDs /\ file_array[c][fd].flags = 0
    BY <1>0, <2>2
  <2>5. Replaced(file_array[c], file_array'[c], fd, NewDescriptor(name))
    BY <2>3, <2>4, SetReplaces
  <2> QED BY <1>0, <1>2, <2>2, <2>3, <2>4, <2>5
<1> QED BY <1>1, <1>2

\* close refuses what is not open.
LEMMA CloseResult ==
    ASSUME NEW c, Runs(c), NEW fd \in Int, sys_call_close(fd)
    PROVE  /\ UNCHANGED read_directory_index
           /\ IF fd \in FileFDs /\ file_array[c][fd].flags = 1
              THEN /\ eax' = 0
                   /\ Replaced(file_array[c], file_array'[c], fd,
                               [file_array[c][fd] EXCEPT !.flags = 0])
              ELSE eax' = -1 /\ file_array'[c] = file_array[c]
<1>0. /\ fd \in FileFDs <=> ~(fd < FILE_ARRAY_START \/ fd > LAST_FILE_ARRAY_INDEX)
      /\ Current = file_array[c]
  BY FileFDsAre, RunsFacts DEF FILE_ARRAY_START
<1>1. CASE fd \in FileFDs /\ file_array[c][fd].flags = 1
  <2>1. /\ Set(fd, [file_array[c][fd] EXCEPT !.flags = 0])
        /\ eax' = IF file_array[c][fd].ops = NoDevice THEN NullCall ELSE 0
        /\ UNCHANGED read_directory_index
    BY <1>0, <1>1 DEF sys_call_close
  <2>2. file_array[c][fd].ops # NoDevice
    BY <1>1, OpenIsSound DEF NoDevice
  <2> QED BY <1>1, <2>1, <2>2, SetReplaces
<1>2. CASE ~(fd \in FileFDs /\ file_array[c][fd].flags = 1)
  <2>1. fd \in FileFDs => file_array[c][fd].flags = 0
    BY <1>2, OpenIsSound
  <2>2. eax' = -1 /\ UNCHANGED <<file_array, read_directory_index>>
    BY <1>0, <2>1 DEF sys_call_close
  <2> QED BY <1>2, <2>2
<1> QED BY <1>1, <1>2

\* read and write refuse what is not open, and the terminal's wrong end.
LEMMA ReadRefused ==
    ASSUME NEW c, Runs(c), NEW fd \in Int, NEW n, sys_call_read(fd, n), fd # 0,
           fd \in FileFDs => file_array[c][fd].flags = 0
    PROVE  /\ eax' = -1 /\ UNCHANGED read_directory_index
           /\ file_array'[c] = file_array[c]
<1>1. fd = 1 \/ fd > LAST_FILE_ARRAY_INDEX \/ fd < 0 \/ Current[fd].flags = 0
  BY RunsFacts, FileFDsAre
<1> QED BY <1>1 DEF sys_call_read

LEMMA WriteRefused ==
    ASSUME NEW c, Runs(c), NEW fd \in Int, sys_call_write(fd), fd # 1,
           fd \in FileFDs => file_array[c][fd].flags = 0
    PROVE  /\ eax' = -1 /\ UNCHANGED read_directory_index
           /\ file_array'[c] = file_array[c]
<1>1. fd = 0 \/ fd > LAST_FILE_ARRAY_INDEX \/ fd < 0 \/ Current[fd].flags = 0
  BY RunsFacts, FileFDsAre
<1> QED BY <1>1 DEF sys_call_write

\* A program can always write to its terminal.
LEMMA WriteTerminal ==
    ASSUME NEW c, Runs(c), sys_call_write(1)
    PROVE  /\ eax' = 0 /\ UNCHANGED read_directory_index
           /\ file_array'[c] = file_array[c]
<1>1. file_array[c][1].flags = 1 /\ file_array[c][1].ops = "STDOUT"
  BY RunsFacts DEF Runs, DInv, FInv, DescriptorsSound
<1>2. ~(1 = 0 \/ 1 > LAST_FILE_ARRAY_INDEX \/ 1 < 0 \/ Current[1].flags = 0)
  BY <1>1, RunsFacts, FileFDsAre, FileArrayAssumption
<1>3. eax' = WriteResult(Current[1].ops) /\ UNCHANGED <<file_array, read_directory_index>>
  BY <1>2 DEF sys_call_write
<1>4. WriteResult("STDOUT") = 0
  BY DEF WriteResult
<1> QED BY <1>1, <1>3, <1>4, RunsFacts

\* and read a line from it.
LEMMA ReadTerminal ==
    ASSUME NEW c, Runs(c), NEW n, sys_call_read(0, n)
    PROVE  /\ eax' \in Nat \ {0} /\ UNCHANGED read_directory_index
           /\ file_array'[c] = file_array[c]
<1>1. file_array[c][0].flags = 1 /\ file_array[c][0].ops = "STDIN"
  BY RunsFacts DEF Runs, DInv, FInv, DescriptorsSound
<1>2. ~(0 = 1 \/ 0 > LAST_FILE_ARRAY_INDEX \/ 0 < 0 \/ Current[0].flags = 0)
  BY <1>1, RunsFacts, FileFDsAre, FileArrayAssumption
<1>3. CallRead(0, n)
  BY <1>2 DEF sys_call_read
<1>4. read_Terminal
  BY <1>1, <1>3, RunsFacts DEF CallRead, NoDevice
<1> QED BY <1>4, LinesAssumption DEF read_Terminal

\* An open descriptor is read by its device.
LEMMA ReadOpen ==
    ASSUME NEW c, Runs(c), NEW fd \in FileFDs, file_array[c][fd].flags = 1,
           NEW n, sys_call_read(fd, n)
    PROVE  /\ file_array[c][fd].ops = "RTC_DEV" => RTC_Read
           /\ file_array[c][fd].ops = "DIR_DEV" => read_directory
           /\ file_array[c][fd].ops = "FILE_DEV" => file_read(fd, n)
<1>1. ~(fd = 1 \/ fd > LAST_FILE_ARRAY_INDEX \/ fd < 0 \/ Current[fd].flags = 0)
  BY RunsFacts, FileFDsAre
<1>2. CallRead(fd, n)
  BY <1>1 DEF sys_call_read
<1> QED BY <1>2, RunsFacts, Zenon DEF CallRead, NoDevice

LEMMA SameSeq ==
    ASSUME NEW S, NEW u \in Seq(S), NEW v \in Seq(S), Len(u) = Len(v),
           \A x \in 1 .. Len(u) : u[x] = v[x]
    PROVE  u = v
OBVIOUS

\* The names are not empty, so a read of an entry returns more than 0.
LEMMA NameNotEmpty ==
    ASSUME NEW f \in Entries
    PROVE  /\ Directory[f].name \in Seq(Chars) /\ Len(Directory[f].name) \in Nat \ {0}
           /\ Cut(Directory[f].name) \in Seq(Chars)
           /\ Len(Cut(Directory[f].name)) \in Nat \ {0}
           /\ Cut(Directory[f].name)[1] = Directory[f].name[1]
           /\ Cut(Cut(Directory[f].name)) = Cut(Directory[f].name)
<1>1. PICK name : name = Directory[f].name
  OBVIOUS
<1>2. name \in Seq(Chars) /\ name # <<>>
  BY <1>1, DirectoryFacts, ImageAssumption
<1>3. Len(name) \in Nat \ {0}
  BY <1>2
<1>4. PICK m : m = IF Len(name) < NAMESIZE THEN Len(name) ELSE NAMESIZE
  OBVIOUS
<1>5. m \in 1 .. Len(name) /\ m <= NAMESIZE
  BY <1>3, <1>4, NameAssumption, ImageAssumption
<1>6. Cut(name) = SubSeq(name, 1, m)
  BY <1>4 DEF Cut
<1>7. PICK short : short = SubSeq(name, 1, m)
  OBVIOUS
<1>8. short \in Seq(Chars) /\ Len(short) = m /\ short[1] = name[1]
  BY <1>2, <1>5, <1>7
<1>9. Cut(short) = SubSeq(short, 1, m)
  BY <1>4, <1>5, <1>8, NameAssumption DEF Cut
<1>10. SubSeq(short, 1, m) = short
  <2>1. /\ SubSeq(short, 1, m) \in Seq(Chars) /\ Len(SubSeq(short, 1, m)) = m
        /\ \A x \in 1 .. m : SubSeq(short, 1, m)[x] = short[x]
    BY <1>5, <1>8
  <2> QED BY <1>5, <1>8, <2>1, SameSeq
<1> QED BY <1>1, <1>2, <1>3, <1>5, <1>6, <1>7, <1>8, <1>9, <1>10

\* A read of the directory delivers the next entry, or starts again.
LEMMA ReadDirectory ==
    ASSUME NEW c, Runs(c), NEW fd, OpenAs(file_array[c], fd, "DIR_DEV"),
           NEW n, sys_call_read(fd, n)
    PROVE  /\ file_array'[c] = file_array[c]
           /\ \/ /\ read_directory_index = NUM_DIRECTORY + 1
                 /\ eax' = 0 /\ read_directory_index' = 0
              \/ /\ read_directory_index \in 0 .. NUM_DIRECTORY
                 /\ eax' \in Nat \ {0}
                 /\ read_directory_index' = read_directory_index + 1
<1>1. read_directory
  BY ReadOpen DEF OpenAs
<1>2. CASE read_directory_index > NUM_DIRECTORY
  <2>1. read_directory_index = NUM_DIRECTORY + 1
    BY <1>2, RunsFacts, IndexAssumption
  <2> QED BY <1>1, <1>2, <2>1 DEF read_directory
<1>3. CASE ~(read_directory_index > NUM_DIRECTORY)
  <2>1. read_directory_index \in 0 .. NUM_DIRECTORY
    BY <1>3, RunsFacts, IndexAssumption
  <2>2. read_directory_index \in Entries
    BY <2>1, DirectoryFacts
  <2>3. /\ UNCHANGED file_array /\ read_directory_index' = read_directory_index + 1
        /\ eax' = Len(Cut(Directory[read_directory_index].name))
    BY <1>1, <1>3 DEF read_directory
  <2>4. eax' \in Nat \ {0}
    BY <2>2, <2>3, NameNotEmpty
  <2> QED BY <2>1, <2>3, <2>4
<1> QED BY <1>2, <1>3

\* Descriptor e is d with the position moved.
Moved(d, e, count) ==
    /\ e.ops = d.ops /\ e.inode = d.inode /\ e.flags = d.flags
    /\ e.file_position = d.file_position + count

\* What is left of the file of descriptor d.
Left(d) == Directory[d.inode].length - d.file_position

\* A read of a file moves the position by what it returns, at most to the end.
LEMMA ReadFile ==
    ASSUME NEW c, Runs(c), NEW fd, OpenAs(file_array[c], fd, "FILE_DEV"),
           NEW n \in Nat, sys_call_read(fd, n)
    PROVE  /\ Left(file_array[c][fd]) \in Nat
           /\ eax' = IF Left(file_array[c][fd]) < n THEN Left(file_array[c][fd]) ELSE n
           /\ Moved(file_array[c][fd], file_array'[c][fd], eax')
           /\ \A x \in FDs : x # fd => file_array'[c][x] = file_array[c][x]
           /\ UNCHANGED read_directory_index
<1>1. fd \in FileFDs /\ file_array[c][fd].flags = 1 /\ Current = file_array[c]
  BY RunsFacts DEF OpenAs
<1>2. file_read(fd, n)
  BY <1>1, ReadOpen DEF OpenAs
<1>3. PICK d : d = Current[fd]
  OBVIOUS
<1>4. OpenFile(d) /\ d \in Desc
  BY <1>1, <1>3, OpenIsSound
<1>5. PICK left, copied : left = Left(d) /\ copied = IF left < n THEN left ELSE n
  OBVIOUS
<1>6. left \in Nat /\ copied \in Nat
  <2>1. PICK len \in Nat : len = Directory[d.inode].length
    BY <1>4, DirectoryFacts DEF OpenFile
  <2>2. PICK pos : pos = d.file_position /\ pos \in 0 .. len
    BY <1>4, <2>1 DEF OpenFile
  <2>3. left = len - pos
    BY <1>5, <2>1, <2>2 DEF Left
  <2> QED BY <1>5, <2>1, <2>2, <2>3
<1>7. PICK e : e = [Current[fd] EXCEPT !.file_position = @ + copied]
  BY Zenon
<1>8. Moved(d, e, copied)
  <2>1. PICK pos \in Int : pos = d.file_position
    BY <1>4 DEF Desc
  <2>2. e = [d EXCEPT !.file_position = pos + copied]
    BY <1>3, <1>7, <2>1, Zenon
  <2> QED BY <1>4, <1>6, <2>1, <2>2 DEF Desc, Moved
<1>9. eax' = copied /\ Set(fd, e) /\ UNCHANGED read_directory_index
  <2>1. copied = IF n \in 0 .. left THEN n ELSE left
    BY <1>5, <1>6
  <2>2. left = Directory[Current[fd].inode].length - Current[fd].file_position
    BY <1>3, <1>5, Zenon DEF Left
  <2> QED BY <1>2, <1>7, <2>1, <2>2, Zenon DEF file_read
<1>10. Replaced(file_array[c], file_array'[c], fd, e)
  BY <1>1, <1>9, SetReplaces
<1> QED BY <1>1, <1>3, <1>5, <1>6, <1>8, <1>9, <1>10 DEF Replaced

\* A read of what is not the directory does not fail, moves no index and leaves
\* every descriptor as it is, but for a position.
LEMMA ReadOther ==
    ASSUME NEW c, Runs(c), NEW fd \in FileFDs, file_array[c][fd].flags = 1,
           file_array[c][fd].ops # "DIR_DEV", NEW n \in Nat, sys_call_read(fd, n)
    PROVE  /\ eax' \in Nat /\ UNCHANGED read_directory_index
           /\ \A x \in FDs : /\ file_array'[c][x].flags = file_array[c][x].flags
                             /\ file_array'[c][x].ops = file_array[c][x].ops
<1>1. CASE file_array[c][fd].ops = "RTC_DEV"
  <2>1. RTC_Read
    BY <1>1, ReadOpen
  <2> QED BY <2>1 DEF RTC_Read
<1>2. CASE file_array[c][fd].ops = "FILE_DEV"
  <2>1. OpenAs(file_array[c], fd, "FILE_DEV")
    BY <1>2 DEF OpenAs
  <2> QED BY <2>1, ReadFile DEF Moved
<1> QED BY <1>1, <1>2, OpenIsSound

-----------------------------------------------------------------------------
(***************************************************************************)
(* A step of the program that runs.                                        *)
(***************************************************************************)
LEMMA CallIs ==
    ASSUME NEW k, SYSTEM_CALL_ECE(k)
    PROVE  /\ mode = "user" /\ UNCHANGED vars
           /\ k.call = "read" => sys_call_read(k.arg, k.nbytes)
           /\ k.call = "write" => sys_call_write(k.arg)
           /\ k.call = "open" => sys_call_open(k.arg)
           /\ k.call = "close" => sys_call_close(k.arg)
           /\ k.call = "getargs" => sys_call_getargs(k.nbytes)
           /\ k.call = "vidmap" => sys_call_vidmap(k.arg)
           /\ k.call = "invalid" => INVALID_SYS_CALL
BY Zenon DEF SYSTEM_CALL_ECE

LEMMA DoIs ==
    ASSUME NEW call, NEW arg, NEW nbytes, Do(call, arg, nbytes)
    PROVE  /\ \E k : k = [call |-> call, arg |-> arg, nbytes |-> nbytes] /\ Make(k)
           /\ call = "read" => sys_call_read(arg, nbytes)
           /\ call = "write" => sys_call_write(arg)
           /\ call = "open" => sys_call_open(arg)
           /\ call = "close" => sys_call_close(arg)
           /\ call = "getargs" => sys_call_getargs(nbytes)
<1>1. PICK k : k = [call |-> call, arg |-> arg, nbytes |-> nbytes]
  OBVIOUS
<1>2. Make(k)
  BY <1>1, Zenon DEF Do
<1>3. SYSTEM_CALL_ECE(k)
  BY <1>2, Zenon DEF Make
<1>4. k.call = call /\ k.arg = arg /\ k.nbytes = nbytes
  BY <1>1
<1> QED BY <1>1, <1>2, <1>3, <1>4, CallIs, Zenon

\* Only the running program's place and locals change.
Local ==
    /\ DOMAIN pc' = Slots /\ DOMAIN loc' = Slots
    /\ \A j \in Slots : j # me => pc'[j] = pc[j] /\ loc'[j] = loc[j]

Moves(at, l) == Local /\ pc'[me] = at /\ loc'[me] = l

LEMMA GotoKeeps ==
    ASSUME ProgramTypes, me \in Slots, NEW at, Goto(at)
    PROVE  /\ \A l : Keep(l) => Moves(at, l)
           /\ UNCHANGED loc => Moves(at, loc[me])
BY DEF ProgramTypes, Goto, Keep, Moves, Local, me

\* The locals with another status.
LEMMA WithStatus ==
    ASSUME NEW l, LocalsOK(l), NEW s \in 0..255
    PROVE  \A r : r = [l EXCEPT !.status = s] =>
           /\ LocalsOK(r) /\ r.status = s
           /\ r.fd = l.fd /\ r.file = l.file /\ r.n = l.n /\ r.failed = l.failed
BY DEF LocalsOK

LEMMA ReturnMoves ==
    ASSUME ProgramTypes, me \in Slots, LocalsOK(loc[me]), NEW s \in 0..255, Return(s)
    PROVE  \E r : /\ Moves("halt", r) /\ LocalsOK(r) /\ r.status = s
                  /\ r.fd = loc[me].fd /\ r.file = loc[me].file /\ r.n = loc[me].n
                  /\ r.failed = loc[me].failed
<1>1. PICK r : r = [loc[me] EXCEPT !.status = s]
  BY Zenon
<1>2. Moves("halt", r)
  BY <1>1, GotoKeeps, Zenon DEF Return
<1>3. /\ LocalsOK(r) /\ r.status = s
      /\ r.fd = loc[me].fd /\ r.file = loc[me].file /\ r.n = loc[me].n
      /\ r.failed = loc[me].failed
  <2>1. PICK l : l = loc[me] /\ LocalsOK(l)
    BY Zenon
  <2>2. r = [l EXCEPT !.status = s]
    BY <1>1, <2>1, Zenon
  <2>3. /\ LocalsOK(r) /\ r.status = s
        /\ r.fd = l.fd /\ r.file = l.file /\ r.n = l.n /\ r.failed = l.failed
    BY <2>1, <2>2, WithStatus
  <2> QED BY <2>1, <2>3, Zenon
<1> QED BY <1>2, <1>3, Zenon

\* What a call leaves alone.
LEMMA MakeKeeps ==
    ASSUME UInv, NEW k, ProperCall(k), Make(k)
    PROVE  /\ DInv' /\ Runs(me) /\ UNCHANGED <<current_process_ID, prog, typed, command_global>>
           /\ \A j \in Slots : j # me => file_array'[j] = file_array[j]
           /\ eax' \in Int
<1>1. SYSTEM_CALL_ECE(k) /\ UNCHANGED <<prog, typed>>
  BY DEF Make
<1>2. mode = "user" /\ UNCHANGED vars
  BY <1>1, CallIs
<1>3. UNCHANGED <<mode, relocated, current_process_ID>>
  BY <1>2, Zenon DEF vars, cpu
<1>4. DInv
  BY DEF UInv
<1>5. Inv'
  BY <1>2, <1>4, NextInv DEF DInv
<1>6. /\ FInv' /\ NoNullCall' /\ UNCHANGED command_global
      /\ \A i \in Slots : i # current_process_ID => file_array'[i] = file_array[i]
  BY <1>1, <1>4, CallKeeps DEF DInv
<1>7. DInv'
  BY <1>3, <1>4, <1>5, <1>6 DEF DInv, Healthy
<1>8. eax' \in Int
  BY <1>6 DEF FInv, FilesTypeOK
<1> QED BY <1>1, <1>2, <1>3, <1>4, <1>6, <1>7, <1>8 DEF Runs, me

\* A listing that goes on without this step, or has not begun.
LEMMA NoteOthers ==
    ASSUME UInv, NoteDirectory, UNCHANGED prog,
           NEW j \in Slots, j # me, pc'[j] = pc[j], loc'[j] = loc[j]
    PROVE  ListingInv(j)'
<1>1. CASE read_directory_index' = read_directory_index
  <2>1. UNCHANGED <<out, alone>>
    BY <1>1 DEF NoteDirectory
  <2> QED BY <1>1, <2>1 DEF UInv, ListingInv
<1>2. CASE read_directory_index' # read_directory_index
  <2>0. SUFFICES ASSUME prog[j] \in {"ls", "grep"}, alone'[j]
                 PROVE  ListingOK(pc[j], loc[j], out'[j], read_directory_index')
    BY DEF ListingInv
  <2>1. alone[j] /\ ~(prog[j] \in {"ls", "grep"} /\ loc[j].n > 0)
    BY <1>2, <2>0, Zenon DEF NoteDirectory
  <2>2. out'[j] = out[j]
    BY <1>2, <2>0, Zenon DEF NoteDirectory
  <2>3. loc[j].n = 0
    <3>1. LocalsOK(loc[j])
      BY DEF UInv, SlotInv
    <3>2. loc[j].n \in Nat
      BY <3>1, Zenon DEF LocalsOK
    <3> QED BY <2>0, <2>1, <3>2
  <2>4. ListingOK(pc[j], loc[j], out[j], read_directory_index)
    BY <2>0, <2>1 DEF UInv, ListingInv
  <2> QED BY <2>2, <2>3, <2>4 DEF ListingOK
<1> QED BY <1>1, <1>2

LEMMA NoteDomains ==
    ASSUME ProgramTypes, NoteDirectory
    PROVE  DOMAIN out' = Slots /\ DOMAIN alone' = Slots
BY DEF ProgramTypes, NoteDirectory

\* The invariant of a slot whose part of the state does not change.
LEMMA SameSlot ==
    ASSUME NEW i \in Slots, SlotInv(i),
           prog'[i] = prog[i], pc'[i] = pc[i], loc'[i] = loc[i], typed'[i] = typed[i],
           file_array'[i] = file_array[i], command_global'[i] = command_global[i]
    PROVE  SlotInv(i)'
BY DEF SlotInv

\* It remains to look at the slot of the program that runs.
LEMMA CallStep ==
    ASSUME UInv, NEW k, ProperCall(k), Make(k), Local, SlotInv(me)', ListingInv(me)'
    PROVE  UInv'
<1>1. /\ DInv' /\ UNCHANGED <<current_process_ID, prog, typed, command_global>>
      /\ \A j \in Slots : j # me => file_array'[j] = file_array[j]
  BY MakeKeeps
<1>2. me' = me /\ NoteDirectory
  BY <1>1 DEF me, Make
<1>3. ASSUME NEW j \in Slots PROVE SlotInv(j)' /\ ListingInv(j)'
  <2>1. CASE j = me
    BY <1>2, <2>1
  <2>2. CASE j # me
    <3>1. pc'[j] = pc[j] /\ loc'[j] = loc[j]
      BY <2>2 DEF Local
    <3>2. SlotInv(j)'
      BY <1>1, <2>2, <3>1, SameSlot DEF UInv
    <3> QED BY <1>1, <1>2, <2>2, <3>1, <3>2, NoteOthers
  <2> QED BY <2>1, <2>2
<1>4. ProgramTypes'
  BY <1>1, <1>2, NoteDomains DEF UInv, ProgramTypes, Local
<1> QED BY <1>1, <1>3, <1>4 DEF UInv

\* The same for a step without a call.
LEMMA QuietStep ==
    ASSUME UInv, UNCHANGED <<dvars, prog, out, alone, typed>>, Local,
           SlotInv(me)', ListingInv(me)'
    PROVE  UInv'
<1>1. UNCHANGED <<current_process_ID, mode, relocated, flag, file_array, command_global,
                  read_directory_index, eax>>
  BY Zenon DEF dvars, vars, pcb, cpu, files
<1>2. DInv'
  <2>1. Inv'
    BY NextInv DEF UInv, DInv, dvars
  <2> QED BY <1>1, <2>1, SameArraySound DEF UInv, DInv, FInv, FilesTypeOK, NoNullCall, Healthy
<1>3. ASSUME NEW j \in Slots PROVE SlotInv(j)' /\ ListingInv(j)'
  <2>1. CASE j = me
    BY <1>1, <2>1 DEF me
  <2>2. CASE j # me
    <3>1. pc'[j] = pc[j] /\ loc'[j] = loc[j]
      BY <2>2 DEF Local
    <3>2. SlotInv(j)'
      BY <1>1, <3>1, SameSlot DEF UInv
    <3>3. ListingInv(j)'
      BY <1>1, <3>1 DEF UInv, ListingInv
    <3> QED BY <3>2, <3>3
  <2> QED BY <2>1, <2>2
<1> QED BY <1>2, <1>3 DEF UInv, ProgramTypes, Local

LEMMA DirectoryFound ==
    /\ <<".">> # <<>> /\ read_dentry_by_name(<<".">>) # {}
    /\ Found(<<".">>) \in Entries /\ Directory[Found(<<".">>)].type = "DIRECTORY"
<1>1. PICK f \in Entries : Directory[f].name = <<".">>
  BY ImageAssumption
<1>2. f \in read_dentry_by_name(<<".">>)
  BY <1>1 DEF read_dentry_by_name, strncmp
<1>3. PICK g : g = Found(<<".">>)
  OBVIOUS
<1>4. g \in Entries /\ Cut(Directory[g].name) = Cut(<<".">>)
  BY <1>2, <1>3, FoundIsEntry
<1>5. Cut(<<".">>)[1] = <<".">>[1]
  BY <1>1, NameNotEmpty
<1>6. Cut(Directory[g].name)[1] = Directory[g].name[1]
  BY <1>4, NameNotEmpty
<1>7. Directory[g].name[1] = "."
  BY <1>4, <1>5, <1>6
<1>8. Directory[g].type = "DIRECTORY"
  BY <1>4, <1>7, ImageAssumption
<1> QED BY <1>2, <1>3, <1>4, <1>8

\* The program that runs, before its step.
LEMMA OwnSlot ==
    ASSUME UInv, mode = "user"
    PROVE  /\ Runs(me) /\ me \in Slots /\ ProgramTypes
           /\ SlotInv(me) /\ ListingInv(me) /\ LocalsOK(loc[me])
           /\ loc[me].fd \in Int /\ loc[me].file \in Int /\ loc[me].n \in Nat
           /\ loc[me].entry \in Entries /\ loc[me].status \in 0..255
<1>1. Runs(me)
  BY DEF UInv, Runs, me
<1>2. me \in Slots
  BY <1>1, RunsFacts
<1>3. SlotInv(me) /\ ListingInv(me) /\ ProgramTypes
  BY <1>2 DEF UInv
<1>4. LocalsOK(loc[me])
  BY <1>3 DEF SlotInv
<1> QED BY <1>1, <1>2, <1>3, <1>4, Zenon DEF LocalsOK

LEMMA WithFd ==
    ASSUME NEW l, LocalsOK(l), NEW fd \in Int
    PROVE  \A r : r = [l EXCEPT !.fd = fd] =>
               /\ LocalsOK(r) /\ r.fd = fd
               /\ r.file = l.file /\ r.n = l.n /\ r.failed = l.failed
BY DEF LocalsOK

\* ls and grep open the directory unless all descriptors are taken.
LEMMA OpensDirectory ==
    ASSUME UInv, mode = "user", OpenDirectory
    PROVE  /\ UNCHANGED read_directory_index
           /\ \E k : ProperCall(k) /\ Make(k)
           /\ \/ /\ \A fd \in FileFDs : file_array[me][fd].flags = 1
                 /\ \E r : Moves("halt", r) /\ LocalsOK(r) /\ r.status = 2 /\ r.n = loc[me].n
              \/ \E r : /\ Moves("next", r) /\ LocalsOK(r) /\ r.n = loc[me].n
                        /\ OpenAs(file_array'[me], r.fd, "DIR_DEV")
                        /\ \A x \in FDs : x # r.fd => file_array'[me][x] = file_array[me][x]
<1>0. PICK c : c = me
  OBVIOUS
<1>1. Runs(c) /\ c \in Slots /\ ProgramTypes /\ LocalsOK(loc[me])
  BY <1>0, OwnSlot
<1>2. PICK k : k = [call |-> "open", arg |-> <<".">>, nbytes |-> 0] /\ Make(k)
  BY DoIs DEF OpenDirectory
<1>3. ProperCall(k)
  BY <1>2 DEF ProperCall
<1>4. sys_call_open(<<".">>)
  BY DoIs DEF OpenDirectory
<1>5. eax' \in Int
  BY <1>2, <1>3, MakeKeeps
<1>6. UNCHANGED read_directory_index
  BY <1>1, <1>4, OpenResult
<1>7. CASE eax' = -1
  <2>1. \A fd \in FileFDs : file_array[c][fd].flags = 1
    <3>1. eax' \notin FileFDs
      BY <1>7, FileFDsAre
    <3> QED BY <1>1, <1>4, <3>1, OpenResult, DirectoryFound
  <2>2. Return(2)
    BY <1>7 DEF OpenDirectory
  <2>3. \E r : Moves("halt", r) /\ LocalsOK(r) /\ r.status = 2 /\ r.n = loc[me].n
    <3>1. 2 \in 0..255
      OBVIOUS
    <3> QED BY <1>0, <1>1, <2>2, <3>1, ReturnMoves
  <2> QED BY <1>0, <1>2, <1>3, <1>6, <2>1, <2>3
<1>8. CASE eax' # -1
  <2>1. PICK fd : fd = eax'
    OBVIOUS
  <2>2. /\ fd \in FileFDs
        /\ Replaced(file_array[c], file_array'[c], fd, NewDescriptor(<<".">>))
    BY <1>1, <1>4, <1>8, <2>1, OpenResult
  <2>3. OpenAs(file_array'[c], fd, "DIR_DEV")
    <3>1. PICK f : f = Found(<<".">>) /\ Directory[f].type = "DIRECTORY"
      BY DirectoryFound
    <3>2. NewDescriptor(<<".">>) = [ops |-> "DIR_DEV", inode |-> f, file_position |-> 0, flags |-> 1]
      BY <3>1 DEF NewDescriptor, Descriptor, DeviceOf
    <3> QED BY <2>2, <3>2 DEF Replaced, OpenAs
  <2>4. \A x \in FDs : x # fd => file_array'[c][x] = file_array[c][x]
    BY <2>2 DEF Replaced
  <2>5. PICK r : r = [loc[me] EXCEPT !.fd = fd]
    BY Zenon
  <2>6. Goto("next") /\ Keep(r)
    BY <1>8, <2>1, <2>5, Zenon DEF OpenDirectory
  <2>7. Moves("next", r)
    BY <1>0, <1>1, <2>6, GotoKeeps
  <2>8. LocalsOK(r) /\ r.fd = fd /\ r.n = loc[me].n
    <3>1. PICK l : l = loc[me] /\ LocalsOK(l)
      BY <1>1, Zenon
    <3>2. r = [l EXCEPT !.fd = fd]
      BY <2>5, <3>1, Zenon
    <3>3. fd \in Int
      BY <1>5, <2>1
    <3>4. LocalsOK(r) /\ r.fd = fd /\ r.n = l.n
      BY <3>1, <3>2, <3>3, WithFd
    <3> QED BY <3>1, <3>4, Zenon
  <2> QED BY <1>0, <1>2, <1>3, <1>6, <2>3, <2>4, <2>7, <2>8, Zenon
<1> QED BY <1>7, <1>8

LEMMA ListedNext ==
    /\ Listed(0) = <<>>
    /\ \A n \in Nat : Append(Listed(n), n) = Listed(n + 1)
<1>1. ASSUME NEW n \in Nat PROVE Listed(n) \in Seq(Nat) /\ Len(Listed(n)) = n
  BY DEF Listed
<1>2. Listed(0) = <<>>
  BY <1>1
<1>3. ASSUME NEW n \in Nat PROVE Append(Listed(n), n) = Listed(n + 1)
  <2>1. Listed(n) \in Seq(Nat) /\ Len(Listed(n)) = n
    BY <1>1
  <2>2. Listed(n + 1) \in Seq(Nat) /\ Len(Listed(n + 1)) = n + 1
    BY <1>1
  <2>3. PICK u : u = Append(Listed(n), n)
    OBVIOUS
  <2>4. u \in Seq(Nat) /\ Len(u) = n + 1
    BY <2>1, <2>3
  <2>5. ASSUME NEW x \in 1 .. n + 1 PROVE u[x] = Listed(n + 1)[x]
    <3>1. Listed(n + 1)[x] = x - 1
      BY DEF Listed
    <3>2. CASE x = n + 1
      BY <2>1, <2>3, <3>1, <3>2
    <3>3. CASE x # n + 1
      <4>1. x \in 1 .. n
        BY <3>3
      <4>2. u[x] = Listed(n)[x]
        BY <2>1, <2>3, <4>1
      <4> QED BY <3>1, <4>1, <4>2 DEF Listed
    <3> QED BY <3>2, <3>3
  <2> QED BY <2>2, <2>3, <2>4, <2>5, SameSeq
<1> QED BY <1>2, <1>3

Took(l, entry) == [l EXCEPT !.n = 1, !.entry = entry]

LEMMA WithEntry ==
    ASSUME NEW l, LocalsOK(l), NEW entry \in Entries
    PROVE  /\ LocalsOK(Took(l, entry)) /\ Took(l, entry).n = 1 /\ Took(l, entry).entry = entry
           /\ Took(l, entry).fd = l.fd /\ Took(l, entry).file = l.file
<1>1. PICK u : u = [l EXCEPT !.n = 1]
  BY Zenon
<1>2. LocalsOK(u) /\ u.n = 1 /\ u.fd = l.fd /\ u.file = l.file
  BY <1>1 DEF LocalsOK
<1>3. PICK r : r = Took(l, entry) /\ r = [u EXCEPT !.entry = entry]
  BY <1>1, Zenon DEF Took
<1>4. LocalsOK(r) /\ r.entry = entry /\ r.n = u.n /\ r.fd = u.fd /\ r.file = u.file
  BY <1>2, <1>3 DEF LocalsOK
<1> QED BY <1>2, <1>3, <1>4, Zenon

\* One round of a listing: it goes on with the entry at the index, or ends after
\* the last one, and what it has delivered is in order as long as it is alone.
LEMMA ReadsEntry ==
    ASSUME UInv, mode = "user", prog[me] \in {"ls", "grep"}, pc[me] # "halt",
           OpenAs(file_array[me], loc[me].fd, "DIR_DEV"),
           NEW there, there # "halt", NEW entry, entry \in {0, read_directory_index},
           NextEntry(there, entry)
    PROVE  /\ \E k : ProperCall(k) /\ Make(k)
           /\ file_array'[me] = file_array[me]
           /\ \/ \E r : Moves("halt", r) /\ LocalsOK(r) /\ r.status = 0
              \/ /\ read_directory_index \in Entries
                 /\ \E r : /\ Moves(there, r) /\ LocalsOK(r)
                           /\ r.fd = loc[me].fd /\ r.entry = entry
           /\ ListingInv(me)'
<1>0. PICK c : c = me
  OBVIOUS
<1>1. /\ Runs(c) /\ c \in Slots /\ ProgramTypes /\ LocalsOK(loc[c])
      /\ loc[c].fd \in Int /\ loc[c].n \in Nat
  BY <1>0, OwnSlot
<1>2. PICK k : k = [call |-> "read", arg |-> loc[c].fd, nbytes |-> NAMESIZE] /\ Make(k)
  BY <1>0, DoIs DEF NextEntry
<1>3. ProperCall(k)
  BY <1>1, <1>2, NameAssumption DEF ProperCall
<1>4. sys_call_read(loc[c].fd, NAMESIZE)
  BY <1>0, DoIs DEF NextEntry
<1>5. /\ UNCHANGED <<current_process_ID, prog>> /\ NoteDirectory
  BY <1>2, <1>3, MakeKeeps DEF Make
<1>6. PICK idx : idx = read_directory_index /\ idx \in 0 .. NUM_DIRECTORY + 1
  BY <1>1, RunsFacts
<1>7. /\ file_array'[c] = file_array[c]
      /\ \/ idx = NUM_DIRECTORY + 1 /\ eax' = 0 /\ read_directory_index' = 0
         \/ idx \in 0 .. NUM_DIRECTORY /\ eax' \in Nat \ {0} /\ read_directory_index' = idx + 1
  BY <1>0, <1>1, <1>4, <1>6, ReadDirectory
<1>8. read_directory_index' # read_directory_index
  BY <1>6, <1>7, IndexAssumption
\* What the history says of this listing.
<1>9. ASSUME alone'[c] PROVE alone[c] /\ (loc[c].n = 0 => idx = 0)
  BY <1>0, <1>1, <1>5, <1>6, <1>8, <1>9, Zenon DEF NoteDirectory
<1>10. ASSUME alone'[c]
       PROVE  /\ eax' > 0 => out'[c] = Append(out[c], idx)
              /\ ~(eax' > 0) => out'[c] = out[c]
  BY <1>0, <1>1, <1>5, <1>6, <1>8, <1>10, Zenon DEF NoteDirectory
<1>11. ASSUME alone'[c] PROVE out[c] = Listed(idx)
  <2>1. ListingOK(pc[c], loc[c], out[c], idx)
    BY <1>0, <1>1, <1>6, <1>9, <1>11 DEF UInv, ListingInv
  <2> QED BY <1>0, <1>9, <1>11, <2>1, ListedNext DEF ListingOK
<1>12. me' = c /\ prog'[c] = prog[c]
  BY <1>0, <1>5 DEF me
<1>13. CASE idx = NUM_DIRECTORY + 1 /\ eax' = 0 /\ read_directory_index' = 0
  <2>1. Return(0)
    BY <1>13 DEF NextEntry
  <2>2. PICK r : Moves("halt", r) /\ LocalsOK(r) /\ r.status = 0 /\ r.n = loc[c].n
    <3>1. 0 \in 0..255
      OBVIOUS
    <3> QED BY <1>0, <1>1, <2>1, <3>1, ReturnMoves
  <2>3. ASSUME alone'[c] PROVE ListingOK("halt", r, out'[c], read_directory_index')
    <3>1. out'[c] = Listed(NUM_DIRECTORY + 1)
      BY <1>10, <1>11, <1>13, <2>3
    <3>2. r.n # 0
      BY <1>9, <1>13, <2>2, <2>3, IndexAssumption
    <3> QED BY <2>2, <3>1, <3>2 DEF ListingOK
  <2>4. ListingInv(me)'
    BY <1>0, <1>12, <2>2, <2>3 DEF ListingInv, Moves
  <2> QED BY <1>0, <1>2, <1>3, <1>7, <2>2, <2>4
<1>14. CASE /\ idx \in 0 .. NUM_DIRECTORY /\ eax' \in Nat \ {0}
            /\ read_directory_index' = idx + 1
  <2>1. read_directory_index \in Entries /\ entry \in Entries
    <3>1. 0 \in Entries /\ idx \in Entries
      <4>1. 0 \in 0 .. NUM_DIRECTORY
        BY IndexAssumption
      <4>2. 0 .. NUM_DIRECTORY \subseteq Entries
        BY DirectoryFacts, Zenon
      <4> QED BY <1>14, <4>1, <4>2, Zenon
    <3>2. read_directory_index \in Entries
      BY <1>6, <3>1, Zenon
    <3>3. entry = 0 \/ entry = read_directory_index
      OBVIOUS
    <3> QED BY <3>1, <3>2, <3>3, Zenon
  <2>2. PICK r : r = Took(loc[c], entry)
    BY Zenon
  <2>3. Goto(there) /\ Keep(r)
    <3>1. ~(eax' <= 0)
      BY <1>14
    <3> QED BY <1>0, <2>2, <3>1, Zenon DEF NextEntry, Took
  <2>4. Moves(there, r)
    BY <1>0, <1>1, <2>3, GotoKeeps
  <2>5. LocalsOK(r) /\ r.n = 1 /\ r.entry = entry /\ r.fd = loc[c].fd
    BY <1>1, <2>1, <2>2, WithEntry
  <2>6. ASSUME alone'[c] PROVE ListingOK(there, r, out'[c], read_directory_index')
    <3>1. out'[c] = Listed(idx + 1)
      <4>1. eax' > 0 /\ idx \in Nat
        BY <1>6, <1>14
      <4>2. out'[c] = Append(Listed(idx), idx)
        BY <1>10, <1>11, <2>6, <4>1
      <4> QED BY <4>1, <4>2, ListedNext
    <3> QED BY <1>14, <2>5, <3>1 DEF ListingOK
  <2>7. ListingInv(me)'
    BY <1>0, <1>12, <2>4, <2>6 DEF ListingInv, Moves
  <2> QED BY <1>0, <1>2, <1>3, <1>7, <2>1, <2>4, <2>5, <2>7
<1> QED BY <1>7, <1>13, <1>14

\* A step that does not read the directory leaves the history as it is.
LEMMA NotListing ==
    ASSUME UInv, mode = "user", NEW k, ProperCall(k), Make(k), UNCHANGED read_directory_index,
           pc[me] # "halt", NEW at, NEW r, Moves(at, r), r.n = loc[me].n,
           at = "halt" => r.status # 0
    PROVE  ListingInv(me)'
<1>1. UNCHANGED <<current_process_ID, prog>> /\ NoteDirectory
  BY MakeKeeps DEF Make
<1>2. UNCHANGED <<out, alone>> /\ me' = me
  BY <1>1 DEF NoteDirectory, me
<1>3. ListingInv(me)
  BY OwnSlot
<1> QED BY <1>1, <1>2, <1>3 DEF ListingInv, ListingOK, Moves

\* A program has made a call and goes on at at with locals r.
LEMMA AfterCall ==
    ASSUME UInv, NEW k, ProperCall(k), Make(k),
           NEW at, NEW r, Moves(at, r), LocalsOK(r), ListingInv(me)',
           prog[me] = "ls" => LsOK(at, r, file_array'[me]),
           prog[me] = "grep" => GrepOK(at, r, file_array'[me], command_global[me]),
           CatsReadFiles /\ prog[me] = "cat" =>
               CatOK(at, r, file_array'[me], command_global[me], typed[me]),
           prog[me] = "syserr" => SyserrOK(at, r, file_array'[me])
    PROVE  UInv'
<1>1. UNCHANGED <<current_process_ID, prog, typed, command_global>>
  BY MakeKeeps
<1>2. me' = me
  BY <1>1 DEF me
<1>3. SlotInv(me)'
  BY <1>1, <1>2 DEF SlotInv, Moves
<1>4. Local
  BY DEF Moves
<1> QED BY <1>3, <1>4, CallStep

\* The same without a call.
LEMMA AfterNoCall ==
    ASSUME UInv, UNCHANGED <<dvars, prog, out, alone, typed>>,
           NEW at, NEW r, Moves(at, r), LocalsOK(r), ListingInv(me)',
           prog[me] \notin {"ls", "grep", "cat"},
           prog[me] = "syserr" => SyserrOK(at, r, file_array[me])
    PROVE  UInv'
<1>1. UNCHANGED <<current_process_ID, file_array, prog>>
  BY Zenon DEF dvars, vars, cpu, files
<1>2. me' = me
  BY <1>1 DEF me
<1>3. SlotInv(me)'
  BY <1>1, <1>2 DEF SlotInv, Moves
<1>4. Local
  BY DEF Moves
<1> QED BY <1>3, <1>4, QuietStep

LEMMA LsStep == UInv /\ Ls => UInv'
<1> SUFFICES ASSUME UInv, Ls PROVE UInv'
  OBVIOUS
<1>1. mode = "user" /\ prog[me] = "ls" /\ pc[me] # "halt"
  BY Zenon DEF Ls, At
<1>2. me \in Slots /\ ProgramTypes /\ LocalsOK(loc[me]) /\ Runs(me)
  BY <1>1, OwnSlot
<1>3. LsOK(pc[me], loc[me], file_array[me])
  BY <1>1, OwnSlot DEF SlotInv
<1>4. CASE At("ls", "main") /\ OpenDirectory
  <2>1. PICK k : ProperCall(k) /\ Make(k)
    BY <1>1, <1>4, OpensDirectory
  <2>2. PICK at, r : /\ Moves(at, r) /\ LocalsOK(r) /\ r.n = loc[me].n
                     /\ at = "halt" => r.status # 0
                     /\ LsOK(at, r, file_array'[me])
    <3>1. CASE \E r : Moves("halt", r) /\ LocalsOK(r) /\ r.status = 2 /\ r.n = loc[me].n
      BY <3>1 DEF LsOK
    <3>2. CASE \E r : /\ Moves("next", r) /\ LocalsOK(r) /\ r.n = loc[me].n
                      /\ OpenAs(file_array'[me], r.fd, "DIR_DEV")
      BY <3>2 DEF LsOK
    <3> QED BY <1>1, <1>4, <3>1, <3>2, OpensDirectory
  <2>3. ListingInv(me)'
    BY <1>1, <1>4, <2>1, <2>2, OpensDirectory, NotListing
  <2> QED BY <1>1, <2>1, <2>2, <2>3, AfterCall
<1>5. CASE At("ls", "next") /\ NextEntry("write", 0)
  <2>1. OpenAs(file_array[me], loc[me].fd, "DIR_DEV")
    BY <1>3, <1>5 DEF LsOK, At
  <2>2. /\ \E k : ProperCall(k) /\ Make(k)
        /\ file_array'[me] = file_array[me]
        /\ \/ \E r : Moves("halt", r) /\ LocalsOK(r)
           \/ \E r : Moves("write", r) /\ LocalsOK(r) /\ r.fd = loc[me].fd
        /\ ListingInv(me)'
    BY <1>1, <1>5, <2>1, ReadsEntry
  <2>3. PICK at, r : Moves(at, r) /\ LocalsOK(r) /\ LsOK(at, r, file_array'[me])
    BY <2>1, <2>2 DEF LsOK
  <2> QED BY <1>1, <2>2, <2>3, AfterCall
<1>6. CASE At("ls", "write") /\ Do("write", 1, 0) /\ Branch(eax' # -1, "next", 3)
  <2>1. OpenAs(file_array[me], loc[me].fd, "DIR_DEV")
    BY <1>3, <1>6 DEF LsOK, At
  <2>2. PICK k : k = [call |-> "write", arg |-> 1, nbytes |-> 0] /\ Make(k)
    BY <1>6, DoIs
  <2>3. ProperCall(k)
    BY <2>2 DEF ProperCall
  <2>4. eax' = 0 /\ UNCHANGED read_directory_index /\ file_array'[me] = file_array[me]
    BY <1>2, <1>6, DoIs, WriteTerminal
  <2>5. Moves("next", loc[me])
    BY <1>2, <1>6, <2>4, GotoKeeps DEF Branch
  <2>6. LsOK("next", loc[me], file_array'[me])
    BY <2>1, <2>4 DEF LsOK
  <2>7. ListingInv(me)'
    BY <1>1, <2>2, <2>3, <2>4, <2>5, NotListing
  <2> QED BY <1>1, <1>2, <2>2, <2>3, <2>5, <2>6, <2>7, AfterCall
<1> QED BY <1>4, <1>5, <1>6, Zenon DEF Ls

-----------------------------------------------------------------------------
(***************************************************************************)
(* grep.                                                                   *)
(***************************************************************************)
\* With one file open or none, open finds a descriptor.
LEMMA RoomForFile ==
    ASSUME NEW a, NEW fd, OnlyOpen(a, {}) \/ OnlyOpen(a, {fd})
    PROVE  ~ \A x \in FileFDs : a[x].flags = 1
<1>1. 2 \in FileFDs /\ 3 \in FileFDs
  BY FileFDsAre, DescriptorsAssumption
<1>2. 2 # 3
  OBVIOUS
<1> QED BY <1>1, <1>2 DEF OnlyOpen

\* The name that a listing delivers is found again, and what does not start with
\* a period is not the directory.
LEMMA EntryFound ==
    ASSUME NEW e \in Entries, Directory[e].name[1] # ".",
           NEW name, name = Cut(Directory[e].name)
    PROVE  /\ name # <<>> /\ read_dentry_by_name(name) # {}
           /\ NewDescriptor(name).flags = 1 /\ NewDescriptor(name).ops # "DIR_DEV"
<1>1. /\ Len(name) # 0 /\ Cut(name) = name /\ name[1] = Directory[e].name[1]
  BY NameNotEmpty
<1>2. name # <<>>
  BY <1>1
<1>3. e \in read_dentry_by_name(name)
  BY <1>1 DEF read_dentry_by_name, strncmp
<1>4. PICK g : g = Found(name)
  OBVIOUS
<1>5. g \in Entries /\ Cut(Directory[g].name) = name
  BY <1>1, <1>3, <1>4, FoundIsEntry
<1>6. Directory[g].name[1] # "."
  BY <1>1, <1>5, NameNotEmpty
<1>7. Directory[g].type # "DIRECTORY" /\ Directory[g].type \in Types
  BY <1>5, <1>6, ImageAssumption, DirectoryFacts
<1>8. DeviceOf(Directory[g].type) # "DIR_DEV"
  BY <1>7 DEF DeviceOf, Types
<1> QED BY <1>2, <1>3, <1>4, <1>8 DEF NewDescriptor, Descriptor

\* grep and cat look at their arguments.
LEMMA GetsArguments ==
    ASSUME UInv, mode = "user", NEW there, GetArgs(there)
    PROVE  /\ \E k : ProperCall(k) /\ Make(k)
           /\ UNCHANGED read_directory_index /\ file_array'[me] = file_array[me]
           /\ \/ /\ Len(command_global[me]) < 2
                 /\ \E r : Moves("halt", r) /\ LocalsOK(r) /\ r.status = 3 /\ r.n = loc[me].n
              \/ ~(Len(command_global[me]) < 2) /\ Moves(there, loc[me])
<1>1. me \in Slots /\ ProgramTypes /\ LocalsOK(loc[me])
  BY OwnSlot
<1>2. PICK k : k = [call |-> "getargs", arg |-> 0, nbytes |-> 1024] /\ Make(k)
  BY DoIs DEF GetArgs
<1>3. ProperCall(k)
  BY <1>2 DEF ProperCall
<1>4. sys_call_getargs(1024)
  BY DoIs DEF GetArgs
<1>5. /\ eax' = IF Len(command_global[me]) < 2 THEN -1 ELSE 0
      /\ UNCHANGED <<file_array, read_directory_index>>
  BY <1>4 DEF sys_call_getargs, me
<1>6. CASE Len(command_global[me]) < 2
  <2>1. Return(3)
    BY <1>5, <1>6 DEF GetArgs, Branch
  <2>2. 3 \in 0..255
    OBVIOUS
  <2>3. \E r : Moves("halt", r) /\ LocalsOK(r) /\ r.status = 3 /\ r.n = loc[me].n
    BY <1>1, <2>1, <2>2, ReturnMoves
  <2> QED BY <1>2, <1>3, <1>5, <1>6, <2>3
<1>7. CASE ~(Len(command_global[me]) < 2)
  <2>1. Goto(there) /\ UNCHANGED loc
    BY <1>5, <1>7 DEF GetArgs, Branch
  <2>2. Moves(there, loc[me])
    BY <1>1, <2>1, GotoKeeps
  <2> QED BY <1>2, <1>3, <1>5, <1>7, <2>2
<1> QED BY <1>6, <1>7

LEMMA WithFile ==
    ASSUME NEW l, LocalsOK(l), NEW fd \in Int
    PROVE  \A r : r = [l EXCEPT !.file = fd] =>
               /\ LocalsOK(r) /\ r.file = fd
               /\ r.fd = l.fd /\ r.n = l.n
BY DEF LocalsOK

\* The file at the entry is opened, beside the directory.
LEMMA GrepOpens ==
    ASSUME UInv, At("grep", "file"), Do("open", EntryName, 0),
           IF eax' = -1 THEN Return(3)
           ELSE Goto("data") /\ Keep([loc[me] EXCEPT !.file = eax'])
    PROVE  UInv'
<1>0. PICK c : c = me
  OBVIOUS
<1>1. mode = "user" /\ prog[c] = "grep" /\ pc[c] = "file"
  BY <1>0 DEF At
<1>2. /\ Runs(c) /\ c \in Slots /\ ProgramTypes /\ LocalsOK(loc[c])
      /\ loc[c].entry \in Entries
  BY <1>0, <1>1, OwnSlot
<1>3. GrepOK("file", loc[c], file_array[c], command_global[c])
  BY <1>0, <1>1, OwnSlot DEF SlotInv
<1>4. /\ OpenAs(file_array[c], loc[c].fd, "DIR_DEV") /\ OnlyOpen(file_array[c], {loc[c].fd})
      /\ Directory[loc[c].entry].name[1] # "."
  BY <1>3 DEF GrepOK
<1>5. PICK name : name = EntryName
  OBVIOUS
<1>6. /\ name # <<>> /\ read_dentry_by_name(name) # {}
      /\ NewDescriptor(name).flags = 1 /\ NewDescriptor(name).ops # "DIR_DEV"
  BY <1>0, <1>2, <1>4, <1>5, EntryFound DEF EntryName
<1>7. PICK k : k = [call |-> "open", arg |-> name, nbytes |-> 0] /\ Make(k)
  BY <1>5, DoIs
<1>8. ProperCall(k)
  BY <1>7 DEF ProperCall
<1>9. sys_call_open(name)
  BY <1>5, DoIs
<1>10. ~ \A x \in FileFDs : file_array[c][x].flags = 1
  BY <1>4, RoomForFile
<1>11. PICK fd : fd = eax'
  OBVIOUS
<1>12. /\ UNCHANGED read_directory_index
       /\ fd \in FileFDs /\ file_array[c][fd].flags = 0
       /\ Replaced(file_array[c], file_array'[c], fd, NewDescriptor(name))
  BY <1>2, <1>6, <1>9, <1>10, <1>11, OpenResult
<1>13. fd \in Int /\ fd # -1
  BY <1>12, FileFDsAre
<1>14. PICK l : l = loc[c] /\ LocalsOK(l)
  BY <1>2, Zenon
<1>15. PICK r : r = [l EXCEPT !.file = fd]
  BY Zenon
<1>16. Goto("data") /\ Keep(r)
  BY <1>0, <1>11, <1>13, <1>14, <1>15, Zenon
<1>17. Moves("data", r)
  BY <1>0, <1>2, <1>16, GotoKeeps
<1>18. LocalsOK(r) /\ r.file = fd /\ r.fd = loc[c].fd /\ r.n = loc[c].n
  <2>1. LocalsOK(r) /\ r.file = fd /\ r.fd = l.fd /\ r.n = l.n
    BY <1>13, <1>14, <1>15, WithFile
  <2> QED BY <1>14, <2>1
<1>19. loc[c].fd \in FileFDs /\ loc[c].fd # fd /\ FileFDs \subseteq FDs
  BY <1>4, <1>12, FileFDsAre DEF OpenAs
<1>20. \A x \in FileFDs : x # fd => file_array'[c][x] = file_array[c][x]
  BY <1>12, <1>19 DEF Replaced
<1>21. file_array'[c][fd].flags = 1 /\ file_array'[c][fd].ops # "DIR_DEV"
  BY <1>6, <1>12 DEF Replaced
<1>22. GrepOK("data", r, file_array'[c], command_global[c])
  <2>1. OpenAs(file_array'[c], r.fd, "DIR_DEV")
    BY <1>4, <1>18, <1>19, <1>20 DEF OpenAs
  <2>2. OnlyOpen(file_array'[c], {r.fd, r.file})
    BY <1>4, <1>18, <1>19, <1>20, <1>21 DEF OnlyOpen
  <2> QED BY <1>3, <1>12, <1>18, <1>19, <1>21, <2>1, <2>2 DEF GrepOK
<1>23. ListingInv(me)'
  BY <1>0, <1>1, <1>7, <1>8, <1>12, <1>17, <1>18, NotListing
<1> QED BY <1>0, <1>1, <1>7, <1>8, <1>17, <1>18, <1>22, <1>23, AfterCall

\* It is read, to its end.
LEMMA GrepReads ==
    ASSUME UInv, At("grep", "data"), NEW size \in Requests, Do("read", loc[me].file, size),
           IF eax' = -1 THEN Return(3)
           ELSE Goto(IF eax' = 0 THEN "close" ELSE "data") /\ UNCHANGED loc
    PROVE  UInv'
<1>0. PICK c : c = me
  OBVIOUS
<1>1. mode = "user" /\ prog[c] = "grep" /\ pc[c] = "data"
  BY <1>0 DEF At
<1>2. /\ Runs(c) /\ c \in Slots /\ ProgramTypes /\ LocalsOK(loc[c])
      /\ loc[c].file \in Int /\ size \in Nat
  BY <1>0, <1>1, OwnSlot, RequestsAssumption
<1>3. GrepOK("data", loc[c], file_array[c], command_global[c])
  BY <1>0, <1>1, OwnSlot DEF SlotInv
<1>4. /\ OpenAs(file_array[c], loc[c].fd, "DIR_DEV")
      /\ OnlyOpen(file_array[c], {loc[c].fd, loc[c].file})
      /\ loc[c].file \in FileFDs /\ loc[c].file # loc[c].fd
      /\ file_array[c][loc[c].file].ops # "DIR_DEV"
  BY <1>3 DEF GrepOK
<1>5. PICK k : k = [call |-> "read", arg |-> loc[c].file, nbytes |-> size] /\ Make(k)
  BY <1>0, DoIs
<1>6. ProperCall(k)
  BY <1>2, <1>5 DEF ProperCall
<1>7. sys_call_read(loc[c].file, size)
  BY <1>0, DoIs
<1>8. file_array[c][loc[c].file].flags = 1
  BY <1>4 DEF OnlyOpen
<1>9. /\ eax' \in Nat /\ UNCHANGED read_directory_index
      /\ \A x \in FDs : /\ file_array'[c][x].flags = file_array[c][x].flags
                        /\ file_array'[c][x].ops = file_array[c][x].ops
  BY <1>2, <1>4, <1>7, <1>8, ReadOther
<1>10. PICK at : at \in {"close", "data"} /\ Goto(at) /\ UNCHANGED loc
  <2>1. eax' # -1
    BY <1>9
  <2> QED BY <2>1
<1>11. Moves(at, loc[c])
  BY <1>0, <1>2, <1>10, GotoKeeps
<1>12. GrepOK(at, loc[c], file_array'[c], command_global[c])
  <2>1. \A x \in FileFDs : /\ file_array'[c][x].flags = file_array[c][x].flags
                           /\ file_array'[c][x].ops = file_array[c][x].ops
    BY <1>9, FileFDsAre
  <2>2. OpenAs(file_array'[c], loc[c].fd, "DIR_DEV")
    BY <1>4, <2>1 DEF OpenAs
  <2>3. OnlyOpen(file_array'[c], {loc[c].fd, loc[c].file})
    BY <1>4, <2>1 DEF OnlyOpen
  <2>4. file_array'[c][loc[c].file].ops # "DIR_DEV"
    BY <1>4, <2>1
  <2> QED BY <1>3, <1>4, <1>10, <2>2, <2>3, <2>4 DEF GrepOK
<1>13. ListingInv(me)'
  BY <1>0, <1>1, <1>5, <1>6, <1>9, <1>10, <1>11, NotListing
<1> QED BY <1>0, <1>1, <1>2, <1>5, <1>6, <1>11, <1>12, <1>13, AfterCall

\* and closed, so that the directory alone is open again.
LEMMA GrepCloses ==
    ASSUME UInv, At("grep", "close"), Do("close", loc[me].file, 0), Branch(eax' # -1, "next", 3)
    PROVE  UInv'
<1>0. PICK c : c = me
  OBVIOUS
<1>1. mode = "user" /\ prog[c] = "grep" /\ pc[c] = "close"
  BY <1>0 DEF At
<1>2. /\ Runs(c) /\ c \in Slots /\ ProgramTypes /\ LocalsOK(loc[c])
      /\ loc[c].file \in Int
  BY <1>0, <1>1, OwnSlot
<1>3. GrepOK("close", loc[c], file_array[c], command_global[c])
  BY <1>0, <1>1, OwnSlot DEF SlotInv
<1>4. /\ OpenAs(file_array[c], loc[c].fd, "DIR_DEV")
      /\ OnlyOpen(file_array[c], {loc[c].fd, loc[c].file})
      /\ loc[c].file \in FileFDs /\ loc[c].file # loc[c].fd
  BY <1>3 DEF GrepOK
<1>5. PICK k : k = [call |-> "close", arg |-> loc[c].file, nbytes |-> 0] /\ Make(k)
  BY <1>0, DoIs
<1>6. ProperCall(k)
  BY <1>2, <1>5 DEF ProperCall
<1>7. sys_call_close(loc[c].file)
  BY <1>0, DoIs
<1>8. file_array[c][loc[c].file].flags = 1
  BY <1>4 DEF OnlyOpen
<1>9. PICK d : d = [file_array[c][loc[c].file] EXCEPT !.flags = 0]
  BY Zenon
<1>10. /\ UNCHANGED read_directory_index /\ eax' = 0
       /\ Replaced(file_array[c], file_array'[c], loc[c].file, d)
  BY <1>2, <1>4, <1>7, <1>8, <1>9, CloseResult
<1>11. d.flags = 0
  <2>1. file_array[c][loc[c].file] \in Desc
    BY <1>2, <1>4, OpenIsSound
  <2> QED BY <1>9, <2>1 DEF Desc
<1>12. Moves("next", loc[c])
  <2>1. Goto("next") /\ UNCHANGED loc
    BY <1>10 DEF Branch
  <2> QED BY <1>0, <1>2, <2>1, GotoKeeps
<1>13. GrepOK("next", loc[c], file_array'[c], command_global[c])
  <2>1. /\ \A x \in FileFDs : x # loc[c].file => file_array'[c][x] = file_array[c][x]
        /\ file_array'[c][loc[c].file].flags = 0
    BY <1>10, <1>11, FileFDsAre DEF Replaced
  <2>2. OpenAs(file_array'[c], loc[c].fd, "DIR_DEV")
    BY <1>4, <2>1 DEF OpenAs
  <2>3. OnlyOpen(file_array'[c], {loc[c].fd})
    BY <1>4, <2>1 DEF OnlyOpen
  <2> QED BY <1>3, <2>2, <2>3 DEF GrepOK
<1>14. ListingInv(me)'
  BY <1>0, <1>1, <1>5, <1>6, <1>10, <1>12, NotListing
<1> QED BY <1>0, <1>1, <1>2, <1>5, <1>6, <1>12, <1>13, <1>14, AfterCall

LEMMA GrepStep == UInv /\ Grep => UInv'
<1> SUFFICES ASSUME UInv, Grep PROVE UInv'
  OBVIOUS
<1>1. mode = "user" /\ prog[me] = "grep" /\ pc[me] # "halt"
  BY Zenon DEF Grep, do_one_file, At
<1>2. me \in Slots /\ ProgramTypes /\ LocalsOK(loc[me]) /\ Runs(me)
  BY <1>1, OwnSlot
<1>3. GrepOK(pc[me], loc[me], file_array[me], command_global[me])
  BY <1>1, OwnSlot DEF SlotInv
<1>4. CASE At("grep", "main") /\ GetArgs("open")
  <2>1. GrepOK("main", loc[me], file_array[me], command_global[me])
    BY <1>3, <1>4 DEF At
  <2>2. PICK k : ProperCall(k) /\ Make(k)
    BY <1>1, <1>4, GetsArguments
  <2>3. UNCHANGED read_directory_index /\ file_array'[me] = file_array[me]
    BY <1>1, <1>4, GetsArguments
  <2>4. PICK at, r : /\ Moves(at, r) /\ LocalsOK(r) /\ r.n = loc[me].n
                     /\ at = "halt" => r.status # 0
                     /\ GrepOK(at, r, file_array[me], command_global[me])
    <3>1. CASE /\ Len(command_global[me]) < 2
               /\ \E r : Moves("halt", r) /\ LocalsOK(r) /\ r.status = 3 /\ r.n = loc[me].n
      BY <2>1, <3>1 DEF GrepOK
    <3>2. CASE Moves("open", loc[me])
      BY <1>2, <2>1, <3>2 DEF GrepOK
    <3> QED BY <1>1, <1>4, <3>1, <3>2, GetsArguments
  <2>5. ListingInv(me)'
    BY <1>1, <2>2, <2>3, <2>4, NotListing
  <2> QED BY <1>1, <2>2, <2>3, <2>4, <2>5, AfterCall
<1>5. CASE At("grep", "open") /\ OpenDirectory
  <2>1. GrepOK("open", loc[me], file_array[me], command_global[me])
    BY <1>3, <1>5 DEF At
  <2>2. OnlyOpen(file_array[me], {})
    BY <2>1 DEF GrepOK
  <2>3. ~ \A x \in FileFDs : file_array[me][x].flags = 1
    BY <2>2, RoomForFile
  <2>4. UNCHANGED read_directory_index /\ \E k : ProperCall(k) /\ Make(k)
    BY <1>1, <1>5, OpensDirectory
  <2>5. PICK r : /\ Moves("next", r) /\ LocalsOK(r) /\ r.n = loc[me].n
                 /\ OpenAs(file_array'[me], r.fd, "DIR_DEV")
                 /\ \A x \in FDs : x # r.fd => file_array'[me][x] = file_array[me][x]
    BY <1>1, <1>5, <2>3, OpensDirectory
  <2>6. GrepOK("next", r, file_array'[me], command_global[me])
    <3>1. OnlyOpen(file_array'[me], {r.fd})
      BY <2>2, <2>5, FileFDsAre DEF OnlyOpen, OpenAs
    <3> QED BY <2>1, <2>5, <3>1 DEF GrepOK
  <2>7. ListingInv(me)'
    BY <1>1, <2>4, <2>5, NotListing
  <2> QED BY <1>1, <2>4, <2>5, <2>6, <2>7, AfterCall
<1>6. CASE /\ At("grep", "next")
           /\ NextEntry(IF Directory[read_directory_index].name[1] = "." THEN "next" ELSE "file",
                        read_directory_index)
  <2>1. GrepOK("next", loc[me], file_array[me], command_global[me])
    BY <1>3, <1>6 DEF At
  <2>2. OpenAs(file_array[me], loc[me].fd, "DIR_DEV")
    BY <2>1 DEF GrepOK
  <2>3. PICK idx : idx = read_directory_index
    OBVIOUS
  <2>4. PICK there : /\ there = IF Directory[idx].name[1] = "." THEN "next" ELSE "file"
                     /\ NextEntry(there, idx)
    BY <1>6, <2>3, Zenon
  <2>5. there \in {"next", "file"} /\ (there = "file" => Directory[idx].name[1] # ".")
    BY <2>4
  <2>6. /\ \E k : ProperCall(k) /\ Make(k)
        /\ file_array'[me] = file_array[me]
        /\ \/ \E r : Moves("halt", r) /\ LocalsOK(r) /\ r.status = 0
           \/ \E r : /\ Moves(there, r) /\ LocalsOK(r) /\ r.fd = loc[me].fd /\ r.entry = idx
        /\ ListingInv(me)'
    BY <1>1, <2>2, <2>3, <2>4, <2>5, ReadsEntry
  <2>7. PICK at, r : /\ Moves(at, r) /\ LocalsOK(r)
                     /\ GrepOK(at, r, file_array[me], command_global[me])
    <3>1. ASSUME NEW r, LocalsOK(r), r.status = 0
          PROVE  GrepOK("halt", r, file_array[me], command_global[me])
      BY <2>1, <3>1 DEF GrepOK
    <3>2. ASSUME NEW r, r.fd = loc[me].fd, r.entry = idx
          PROVE  GrepOK(there, r, file_array[me], command_global[me])
      BY <2>1, <2>5, <3>2 DEF GrepOK
    <3> QED BY <2>6, <3>1, <3>2
  <2> QED BY <1>1, <2>6, <2>7, AfterCall
<1>7. CASE do_one_file
  BY <1>7, GrepOpens, GrepReads, GrepCloses, Zenon DEF do_one_file
<1> QED BY <1>4, <1>5, <1>6, <1>7, Zenon DEF Grep

-----------------------------------------------------------------------------
(***************************************************************************)
(* cat.                                                                    *)
(***************************************************************************)
Printed(l, count) == [l EXCEPT !.n = @ + count]

LEMMA WithMore ==
    ASSUME NEW l, LocalsOK(l), NEW count \in Nat
    PROVE  /\ LocalsOK(Printed(l, count)) /\ Printed(l, count).n = l.n + count
           /\ Printed(l, count).fd = l.fd
<1>1. PICK n \in Nat : n = l.n + count
  BY DEF LocalsOK
<1>2. PICK r : r = Printed(l, count) /\ r = [l EXCEPT !.n = n]
  BY <1>1, Zenon DEF Printed
<1>3. LocalsOK(r) /\ r.n = n /\ r.fd = l.fd
  BY <1>1, <1>2 DEF LocalsOK
<1> QED BY <1>1, <1>2, <1>3

\* Only listings have a history.
LEMMA NoListing ==
    ASSUME UNCHANGED <<current_process_ID, prog>>, prog[me] \notin {"ls", "grep"}
    PROVE  ListingInv(me)'
<1>1. me' = me
  BY DEF me
<1> QED BY <1>1 DEF ListingInv

LEMMA SecondWord == ASSUME NEW words, Len(words) = 2 PROVE Tail(words)[1] = words[2]
OBVIOUS

LEMMA NoEmptyName == read_dentry_by_name(<<>>) = {}
<1>1. Len(Cut(<<>>)) = 0
  BY NameAssumption DEF Cut
<1> QED BY <1>1, NameNotEmpty DEF read_dentry_by_name, strncmp

\* cat opens the file that was named, or returns 2.
LEMMA CatOpens ==
    ASSUME UInv, At("cat", "open"), Do("open", Argument[1], 0),
           IF eax' = -1 THEN Return(2)
           ELSE Goto("read") /\ Keep([loc[me] EXCEPT !.fd = eax'])
    PROVE  UInv'
<1>0. PICK c : c = me
  OBVIOUS
<1>1. mode = "user" /\ prog[c] = "cat" /\ pc[c] = "open"
  BY <1>0 DEF At
<1>2. Runs(c) /\ c \in Slots /\ ProgramTypes /\ LocalsOK(loc[c])
  BY <1>0, <1>1, OwnSlot
<1>3. PICK name : name = Argument[1]
  OBVIOUS
<1>4. PICK command : command = typed[c]
  OBVIOUS
<1>5. ASSUME CatsReadFiles
      PROVE  /\ CatOK("open", loc[c], file_array[c], command_global[c], command)
             /\ name = command[2]
  <2>1. CatOK("open", loc[c], file_array[c], command_global[c], command)
    BY <1>0, <1>1, <1>4, <1>5, OwnSlot DEF SlotInv
  <2>2. command_global[c] = command /\ Len(command) = 2
    BY <2>1 DEF CatOK
  <2>3. name = Tail(command)[1]
    BY <1>0, <1>3, <2>2 DEF Argument, me
  <2> QED BY <2>1, <2>2, <2>3, SecondWord
<1>6. PICK k : k = [call |-> "open", arg |-> name, nbytes |-> 0] /\ Make(k)
  BY <1>3, DoIs
<1>7. ProperCall(k)
  BY <1>6 DEF ProperCall
<1>8. sys_call_open(name)
  BY <1>3, DoIs
<1>9. eax' \in Int /\ UNCHANGED <<current_process_ID, prog>>
  BY <1>6, <1>7, MakeKeeps
<1>10. ListingInv(me)'
  BY <1>0, <1>1, <1>9, NoListing
<1>11. CASE eax' = -1
  <2>1. Return(2)
    BY <1>11
  <2>2. 2 \in 0..255
    OBVIOUS
  <2>3. PICK r : Moves("halt", r) /\ LocalsOK(r) /\ r.status = 2
    BY <1>0, <1>2, <2>1, <2>2, ReturnMoves
  <2>4. ASSUME CatsReadFiles
        PROVE  CatOK("halt", r, file_array'[c], command_global[c], command)
    <3>1. /\ CatOK("open", loc[c], file_array[c], command_global[c], command)
          /\ name = command[2]
      BY <1>5, <2>4
    <3>2. ~ \A x \in FileFDs : file_array[c][x].flags = 1
      BY <3>1, RoomForFile DEF CatOK
    <3>3. eax' \notin FileFDs
      BY <1>11, FileFDsAre
    <3>4. name = <<>> \/ read_dentry_by_name(name) = {}
      BY <1>2, <1>8, <3>2, <3>3, OpenResult
    <3>5. ~Names(command)
      BY <3>1, <3>4, NoEmptyName DEF Names
    <3> QED BY <2>3, <3>1, <3>5 DEF CatOK
  <2> QED BY <1>0, <1>1, <1>4, <1>6, <1>7, <1>10, <2>3, <2>4, AfterCall
<1>12. CASE eax' # -1
  <2>1. PICK fd : fd = eax'
    OBVIOUS
  <2>2. /\ fd \in FileFDs /\ read_dentry_by_name(name) # {}
        /\ Replaced(file_array[c], file_array'[c], fd, NewDescriptor(name))
    BY <1>2, <1>8, <1>12, <2>1, OpenResult
  <2>3. PICK l : l = loc[c] /\ LocalsOK(l)
    BY <1>2, Zenon
  <2>4. PICK r : r = [l EXCEPT !.fd = fd]
    BY Zenon
  <2>5. Goto("read") /\ Keep(r)
    BY <1>0, <1>12, <2>1, <2>3, <2>4, Zenon
  <2>6. Moves("read", r)
    BY <1>0, <1>2, <2>5, GotoKeeps
  <2>7. LocalsOK(r) /\ r.fd = fd /\ r.n = loc[c].n
    <3>1. fd \in Int
      BY <1>9, <2>1
    <3>2. LocalsOK(r) /\ r.fd = fd /\ r.n = l.n
      BY <2>3, <2>4, <3>1, WithFd
    <3> QED BY <2>3, <3>2
  <2>8. ASSUME CatsReadFiles
        PROVE  CatOK("read", r, file_array'[c], command_global[c], command)
    <3>1. /\ CatOK("open", loc[c], file_array[c], command_global[c], command)
          /\ name = command[2]
      BY <1>5, <2>8
    <3>2. Names(command) /\ Directory[Found(name)].type = "SINGLE_FILE" /\ loc[c].n = 0
      BY <2>2, <3>1 DEF CatOK, Names
    <3>3. NewDescriptor(name) =
              [ops |-> "FILE_DEV", inode |-> Found(name), file_position |-> 0, flags |-> 1]
      BY <3>2 DEF NewDescriptor, Descriptor, DeviceOf
    <3>4. /\ OpenAs(file_array'[c], r.fd, "FILE_DEV")
          /\ file_array'[c][r.fd].inode = Found(command[2])
          /\ file_array'[c][r.fd].file_position = r.n
      BY <2>2, <2>7, <3>1, <3>2, <3>3 DEF Replaced, OpenAs
    <3> QED BY <3>1, <3>2, <3>4 DEF CatOK
  <2> QED BY <1>0, <1>1, <1>4, <1>6, <1>7, <1>10, <2>6, <2>7, <2>8, AfterCall
<1> QED BY <1>11, <1>12

\* cat reads on from where it is, and ends at the end of the file.
LEMMA CatReads ==
    ASSUME UInv, At("cat", "read"), Do("read", loc[me].fd, 1024),
           IF eax' <= 0 THEN Return(IF eax' = 0 THEN 0 ELSE 3)
           ELSE Goto("write") /\ Keep([loc[me] EXCEPT !.n = @ + eax'])
    PROVE  UInv'
<1>0. PICK c : c = me
  OBVIOUS
<1>1. mode = "user" /\ prog[c] = "cat" /\ pc[c] = "read"
  BY <1>0 DEF At
<1>2. /\ Runs(c) /\ c \in Slots /\ ProgramTypes /\ LocalsOK(loc[c])
      /\ loc[c].fd \in Int /\ loc[c].n \in Nat
  BY <1>0, <1>1, OwnSlot
<1>3. PICK command : command = typed[c]
  OBVIOUS
<1>4. PICK k : k = [call |-> "read", arg |-> loc[c].fd, nbytes |-> 1024] /\ Make(k)
  BY <1>0, DoIs
<1>5. ProperCall(k)
  BY <1>2, <1>4 DEF ProperCall
<1>6. sys_call_read(loc[c].fd, 1024)
  BY <1>0, DoIs
<1>7. eax' \in Int /\ UNCHANGED <<current_process_ID, prog>>
  BY <1>4, <1>5, MakeKeeps
<1>8. ListingInv(me)'
  BY <1>0, <1>1, <1>7, NoListing
<1>9. PICK count \in Int : count = eax'
  BY <1>7
<1>10. PICK a, b, fd, n : a = file_array[c] /\ b = file_array'[c] /\ fd = loc[c].fd /\ n = loc[c].n
  OBVIOUS
<1>11. ASSUME CatsReadFiles
       PROVE  /\ CatOK("read", loc[c], a, command_global[c], command)
              /\ Names(command) /\ OpenAs(b, fd, "FILE_DEV")
              /\ b[fd].inode = Found(command[2]) /\ b[fd].file_position = n + count
              /\ count = 0 => n = Directory[Found(command[2])].length
              /\ count \in Nat
  <2>1. CatOK("read", loc[c], a, command_global[c], command)
    BY <1>0, <1>1, <1>3, <1>10, <1>11, OwnSlot DEF SlotInv
  <2>2. /\ Names(command) /\ OpenAs(a, fd, "FILE_DEV")
        /\ a[fd].inode = Found(command[2]) /\ a[fd].file_position = n
    BY <1>10, <2>1 DEF CatOK
  <2>3. PICK left : left = Left(a[fd])
    OBVIOUS
  <2>4. 1024 \in Nat
    OBVIOUS
  <2>5. /\ left \in Nat /\ count = IF left < 1024 THEN left ELSE 1024
        /\ Moved(a[fd], b[fd], count)
    BY <1>2, <1>6, <1>9, <1>10, <2>2, <2>3, <2>4, ReadFile
  <2>6. OpenAs(b, fd, "FILE_DEV") /\ b[fd].inode = Found(command[2]) /\ b[fd].file_position = n + count
    BY <2>2, <2>5 DEF OpenAs, Moved
  <2>7. ASSUME count = 0 PROVE n = Directory[Found(command[2])].length
    <3>1. left = 0
      BY <2>5, <2>7
    <3>2. PICK f \in Entries : f = Found(command[2])
      BY <2>2, FoundIsEntry DEF Names
    <3>3. PICK length \in Nat : length = Directory[f].length
      BY <3>2, DirectoryFacts
    <3>4. left = length - n
      BY <2>2, <2>3, <3>2, <3>3 DEF Left
    <3> QED BY <1>2, <1>10, <3>1, <3>2, <3>3, <3>4
  <2> QED BY <2>1, <2>2, <2>5, <2>6, <2>7
<1>12. CASE count <= 0
  <2>1. PICK s : s = (IF count = 0 THEN 0 ELSE 3) /\ Return(s)
    BY <1>9, <1>12
  <2>2. s \in 0..255
    BY <2>1
  <2>3. PICK r : Moves("halt", r) /\ LocalsOK(r) /\ r.status = s /\ r.fd = fd /\ r.n = n
    BY <1>0, <1>2, <1>10, <2>1, <2>2, ReturnMoves
  <2>4. ASSUME CatsReadFiles PROVE CatOK("halt", r, b, command_global[c], command)
    <3>1. /\ CatOK("read", loc[c], a, command_global[c], command)
          /\ Names(command) /\ b[fd].inode = Found(command[2])
          /\ count = 0 => n = Directory[Found(command[2])].length
          /\ count \in Nat
      BY <1>11, <2>4
    <3>2. count = 0 /\ s = 0
      BY <1>12, <2>1, <3>1
    <3> QED BY <2>3, <3>1, <3>2 DEF CatOK
  <2> QED BY <1>0, <1>1, <1>3, <1>4, <1>5, <1>8, <1>10, <2>3, <2>4, AfterCall
<1>13. CASE ~(count <= 0)
  <2>1. PICK r : r = Printed(loc[c], count)
    OBVIOUS
  <2>2. Goto("write") /\ Keep(r)
    BY <1>0, <1>9, <1>13, <2>1, Zenon DEF Printed
  <2>3. Moves("write", r)
    BY <1>0, <1>2, <2>2, GotoKeeps
  <2>4. LocalsOK(r) /\ r.n = n + count /\ r.fd = fd
    BY <1>2, <1>10, <1>13, <2>1, WithMore
  <2>5. ASSUME CatsReadFiles PROVE CatOK("write", r, b, command_global[c], command)
    <3>1. /\ CatOK("read", loc[c], a, command_global[c], command)
          /\ Names(command) /\ OpenAs(b, fd, "FILE_DEV")
          /\ b[fd].inode = Found(command[2]) /\ b[fd].file_position = n + count
      BY <1>11, <2>5
    <3> QED BY <2>4, <3>1 DEF CatOK
  <2> QED BY <1>0, <1>1, <1>3, <1>4, <1>5, <1>8, <1>10, <2>3, <2>4, <2>5, AfterCall
<1> QED BY <1>12, <1>13

LEMMA CatStep == UInv /\ Cat => UInv'
<1> SUFFICES ASSUME UInv, Cat PROVE UInv'
  OBVIOUS
<1>1. mode = "user" /\ prog[me] = "cat"
  BY Zenon DEF Cat, At
<1>2. me \in Slots /\ ProgramTypes /\ LocalsOK(loc[me]) /\ Runs(me)
  BY <1>1, OwnSlot
<1>3. CatsReadFiles => CatOK(pc[me], loc[me], file_array[me], command_global[me], typed[me])
  BY <1>1, OwnSlot DEF SlotInv
<1>4. CASE At("cat", "main") /\ GetArgs("open")
  <2>1. CatsReadFiles => CatOK("main", loc[me], file_array[me], command_global[me], typed[me])
    BY <1>3, <1>4 DEF At
  <2>2. PICK k : ProperCall(k) /\ Make(k)
    BY <1>1, <1>4, GetsArguments
  <2>3. file_array'[me] = file_array[me]
    BY <1>1, <1>4, GetsArguments
  <2>4. PICK at, r : /\ Moves(at, r) /\ LocalsOK(r)
                     /\ CatsReadFiles =>
                           CatOK(at, r, file_array[me], command_global[me], typed[me])
    <3>1. CASE /\ Len(command_global[me]) < 2
               /\ \E r : Moves("halt", r) /\ LocalsOK(r) /\ r.status = 3
      <4>1. PICK r : Moves("halt", r) /\ LocalsOK(r) /\ r.status = 3
        BY <3>1
      <4>2. CatsReadFiles => ~Names(typed[me])
        BY <2>1, <3>1 DEF CatOK, Names
      <4>3. CatsReadFiles => CatOK("halt", r, file_array[me], command_global[me], typed[me])
        BY <2>1, <4>1, <4>2 DEF CatOK
      <4> QED BY <4>1, <4>3
    <3>2. CASE ~(Len(command_global[me]) < 2) /\ Moves("open", loc[me])
      <4>1. ASSUME CatsReadFiles
            PROVE  CatOK("open", loc[me], file_array[me], command_global[me], typed[me])
        <5>1. CatOK("main", loc[me], file_array[me], command_global[me], typed[me])
          BY <2>1, <4>1
        <5>2. command_global[me] = typed[me] /\ Len(typed[me]) \in {1, 2}
          BY <5>1 DEF CatOK
        <5>3. PICK m : m = Len(typed[me]) /\ m \in {1, 2} /\ ~(m < 2)
          BY <3>2, <5>2, Zenon
        <5>4. m = 2
          <6>1. m = 1 \/ m = 2
            BY <5>3
          <6>2. 1 < 2
            OBVIOUS
          <6> QED BY <5>3, <6>1, <6>2, Zenon
        <5> QED BY <5>1, <5>3, <5>4 DEF CatOK
      <4> QED BY <1>2, <3>2, <4>1
    <3> QED BY <1>1, <1>4, <3>1, <3>2, GetsArguments
  <2>5. ListingInv(me)'
    BY <1>1, <2>2, MakeKeeps, NoListing
  <2> QED BY <1>1, <2>2, <2>3, <2>4, <2>5, AfterCall
<1>5. CASE At("cat", "write") /\ Do("write", 1, 0) /\ Branch(eax' # -1, "read", 3)
  <2>1. CatsReadFiles => CatOK("write", loc[me], file_array[me], command_global[me], typed[me])
    BY <1>3, <1>5 DEF At
  <2>2. PICK k : k = [call |-> "write", arg |-> 1, nbytes |-> 0] /\ Make(k)
    BY <1>5, DoIs
  <2>3. ProperCall(k)
    BY <2>2 DEF ProperCall
  <2>4. eax' = 0 /\ file_array'[me] = file_array[me]
    BY <1>2, <1>5, DoIs, WriteTerminal
  <2>5. Moves("read", loc[me])
    BY <1>2, <1>5, <2>4, GotoKeeps DEF Branch
  <2>6. CatsReadFiles => CatOK("read", loc[me], file_array'[me], command_global[me], typed[me])
    BY <2>1, <2>4 DEF CatOK
  <2>7. ListingInv(me)'
    BY <1>1, <2>2, <2>3, MakeKeeps, NoListing
  <2> QED BY <1>1, <1>2, <2>2, <2>3, <2>5, <2>6, <2>7, AfterCall
<1>6. CASE /\ At("cat", "open")
           /\ Do("open", Argument[1], 0)
           /\ IF eax' = -1 THEN Return(2)
              ELSE Goto("read") /\ Keep([loc[me] EXCEPT !.fd = eax'])
  BY <1>6, CatOpens, Zenon
<1>7. CASE /\ At("cat", "read")
           /\ Do("read", loc[me].fd, 1024)
           /\ IF eax' <= 0 THEN Return(IF eax' = 0 THEN 0 ELSE 3)
              ELSE Goto("write") /\ Keep([loc[me] EXCEPT !.n = @ + eax'])
  BY <1>7, CatReads, Zenon
<1> QED BY <1>4, <1>5, <1>6, <1>7, Zenon DEF Cat

-----------------------------------------------------------------------------
(***************************************************************************)
(* syserr.                                                                 *)
(***************************************************************************)
LEMMA LotsFacts ==
    /\ Lots \in Nat /\ Lots >= 3 /\ LastOfLots \in Nat /\ LastOfLots >= Lots + 2
    /\ LastOfLots = Lots + (SIZE_OF_FILE_ARRAY - 2) /\ Lots = SIZE_OF_FILE_ARRAY - 1
    /\ LAST_FILE_ARRAY_INDEX = Lots /\ SIZE_OF_FILE_ARRAY \in Nat
BY FileArrayAssumption, DescriptorsAssumption DEF Lots, LastOfLots, LAST_FILE_ARRAY_INDEX

\* A test without opens that succeed.
AllRefused(s) ==
    /\ \E S : s \in Seq(S)
    /\ \A x \in 1 .. Len(s) : s[x].want = "refused" /\ RefusedCall(s[x].k)

LEMMA JoinedSeq ==
    ASSUME NEW s, NEW t, \E S : s \in Seq(S), \E S : t \in Seq(S)
    PROVE  /\ \E S : s \o t \in Seq(S)
           /\ Len(s) \in Nat /\ Len(t) \in Nat /\ Len(s \o t) = Len(s) + Len(t)
           /\ \A x \in 1 .. Len(s) : (s \o t)[x] = s[x]
           /\ \A x \in 1 .. Len(s) + Len(t) :
                 x > Len(s) => x - Len(s) \in 1 .. Len(t) /\ (s \o t)[x] = t[x - Len(s)]
<1>1. PICK S, T : s \in Seq(S) /\ t \in Seq(T)
  OBVIOUS
<1>2. PICK U : U = S \cup T
  OBVIOUS
<1>3. s \in Seq(U) /\ t \in Seq(U)
  BY <1>1, <1>2
<1>4. s \o t \in Seq(U) /\ Len(s \o t) = Len(s) + Len(t)
  BY <1>3
<1>5. Len(s) \in Nat /\ Len(t) \in Nat
  BY <1>3
<1>6. \A x \in 1 .. Len(s) + Len(t) :
          (s \o t)[x] = IF x <= Len(s) THEN s[x] ELSE t[x - Len(s)]
  BY <1>3
<1>7. \E V : s \o t \in Seq(V)
  BY <1>4
<1> QED BY <1>4, <1>5, <1>6, <1>7

LEMMA JoinedRefused ==
    ASSUME NEW s, NEW t, AllRefused(s), AllRefused(t)
    PROVE  AllRefused(s \o t) /\ Len(s \o t) = Len(s) + Len(t)
<1>1. (\E S : s \in Seq(S)) /\ (\E S : t \in Seq(S))
  BY DEF AllRefused
<1>2. PICK u : u = s \o t
  OBVIOUS
<1>3. /\ \E S : u \in Seq(S)
      /\ Len(s) \in Nat /\ Len(t) \in Nat /\ Len(u) = Len(s) + Len(t)
      /\ \A x \in 1 .. Len(s) : u[x] = s[x]
      /\ \A x \in 1 .. Len(s) + Len(t) :
            x > Len(s) => x - Len(s) \in 1 .. Len(t) /\ u[x] = t[x - Len(s)]
  BY <1>1, <1>2, JoinedSeq
<1>4. ASSUME NEW x \in 1 .. Len(u) PROVE u[x].want = "refused" /\ RefusedCall(u[x].k)
  <2>1. CASE x > Len(s)
    <3>1. PICK y : y = x - Len(s) /\ y \in 1 .. Len(t) /\ u[x] = t[y]
      BY <1>3, <2>1
    <3> QED BY <3>1 DEF AllRefused
  <2>2. CASE ~(x > Len(s))
    <3>1. x \in 1 .. Len(s) /\ u[x] = s[x]
      BY <1>3, <2>2
    <3> QED BY <3>1 DEF AllRefused
  <2> QED BY <2>1, <2>2
<1> QED BY <1>2, <1>3, <1>4 DEF AllRefused

LEMMA JoinedRest ==
    ASSUME NEW s, NEW t, NEW j \in Int, RestFrom(s, j), RestFrom(t, j + Len(s))
    PROVE  RestFrom(s \o t, j) /\ Len(s \o t) = Len(s) + Len(t)
<1>1. (\E S : s \in Seq(S)) /\ (\E S : t \in Seq(S))
  BY DEF RestFrom
<1>2. PICK u : u = s \o t
  OBVIOUS
<1>3. /\ \E S : u \in Seq(S)
      /\ Len(s) \in Nat /\ Len(t) \in Nat /\ Len(u) = Len(s) + Len(t)
      /\ \A x \in 1 .. Len(s) : u[x] = s[x]
      /\ \A x \in 1 .. Len(s) + Len(t) :
            x > Len(s) => x - Len(s) \in 1 .. Len(t) /\ u[x] = t[x - Len(s)]
  BY <1>1, <1>2, JoinedSeq
<1>4. ASSUME NEW x \in 1 .. Len(u) PROVE Expected(u[x], j + x)
  <2>1. CASE x > Len(s)
    <3>1. PICK y : y = x - Len(s) /\ y \in 1 .. Len(t) /\ u[x] = t[y]
      BY <1>3, <2>1
    <3>2. j + Len(s) + y = j + x
      BY <1>3, <3>1
    <3>3. Expected(t[y], j + Len(s) + y)
      BY <3>1 DEF RestFrom
    <3> QED BY <3>1, <3>2, <3>3
  <2>2. CASE ~(x > Len(s))
    <3>1. x \in 1 .. Len(s) /\ u[x] = s[x]
      BY <1>3, <2>2
    <3> QED BY <3>1 DEF RestFrom
  <2> QED BY <2>1, <2>2
<1> QED BY <1>2, <1>3, <1>4 DEF RestFrom

\* Tests in front of err_open_lots, or behind it.
LEMMA RefusedRest ==
    ASSUME NEW s, AllRefused(s), NEW j \in Int, j + Len(s) <= 0 \/ j >= LastOfLots
    PROVE  RestFrom(s, j)
<1>1. PICK S : s \in Seq(S)
  BY DEF AllRefused
<1>2. Len(s) \in Nat
  BY <1>1
<1>3. ASSUME NEW x \in 1 .. Len(s) PROVE Expected(s[x], j + x)
  <2>1. j + x \notin 1 .. LastOfLots
    BY <1>2, LotsFacts
  <2>2. j + x \notin 1 .. Lots /\ j + x \notin Lots + 1 .. LastOfLots
    BY <2>1, LotsFacts
  <2> QED BY <2>1, <2>2 DEF Expected, AllRefused
<1> QED BY <1>1, <1>3 DEF RestFrom

\* One step of a script.
LEMMA RestStep ==
    ASSUME NEW s, NEW j \in Int, RestFrom(s, j), s # <<>>
    PROVE  Expected(Head(s), j + 1) /\ RestFrom(Tail(s), j + 1)
<1>1. PICK S : s \in Seq(S)
  BY DEF RestFrom
<1>2. PICK t : t = Tail(s)
  OBVIOUS
<1>3. /\ Head(s) = s[1] /\ t \in Seq(S) /\ Len(s) \in Nat /\ Len(s) >= 1
      /\ Len(t) = Len(s) - 1
  BY <1>1, <1>2
<1>4. \A x \in 1 .. Len(s) - 1 : t[x] = s[x + 1]
  BY <1>1, <1>2, <1>3
<1>5. Expected(s[1], j + 1)
  BY <1>3 DEF RestFrom
<1>6. ASSUME NEW x \in 1 .. Len(t) PROVE Expected(t[x], j + 1 + x)
  <2>1. PICK y : y = x + 1 /\ y \in 1 .. Len(s) /\ t[x] = s[y]
    BY <1>3, <1>4
  <2>2. Expected(s[y], j + y)
    BY <2>1 DEF RestFrom
  <2>3. j + y = j + 1 + x
    BY <2>1
  <2> QED BY <2>1, <2>2, <2>3
<1> QED BY <1>2, <1>3, <1>5, <1>6 DEF RestFrom

\* A call that has to be refused, as syserr makes it.
LEMMA TryRefused ==
    ASSUME NEW test, NEW call, NEW arg,
           RefusedCall([call |-> call, arg |-> arg, nbytes |-> 31])
    PROVE  /\ Try(test, call, arg, "refused").want = "refused"
           /\ RefusedCall(Try(test, call, arg, "refused").k)
BY DEF Try

LEMMA RefusedCalls ==
    /\ \A fd \in Int : /\ fd # 0 => RefusedCall([call |-> "read", arg |-> fd, nbytes |-> 31])
                       /\ fd # 1 => RefusedCall([call |-> "write", arg |-> fd, nbytes |-> 31])
                       /\ RefusedCall([call |-> "close", arg |-> fd, nbytes |-> 31])
    /\ \A name : name = <<>> \/ read_dentry_by_name(name) = {} =>
                     RefusedCall([call |-> "open", arg |-> name, nbytes |-> 31])
    /\ RefusedCall([call |-> "vidmap", arg |-> FALSE, nbytes |-> 31])
    /\ RefusedCall([call |-> "invalid", arg |-> 0, nbytes |-> 31])
BY DEF RefusedCall

LEMMA MissingNames ==
    read_dentry_by_name(<<"h", "e", "e">>) = {} /\ read_dentry_by_name(<<"s">>) = {}
BY ImageAssumption DEF read_dentry_by_name, strncmp

Refusal(t) == t.want = "refused" /\ RefusedCall(t.k)

LEMMA ShortRefused ==
    ASSUME NEW t, NEW u, NEW v, Refusal(t), Refusal(u)
    PROVE  /\ AllRefused(<<t, u>>) /\ Len(<<t, u>>) = 2
           /\ Refusal(v) => AllRefused(<<t, u, v>>) /\ Len(<<t, u, v>>) = 3
<1>1. <<t, u>> \in Seq({t, u}) /\ Len(<<t, u>>) = 2
  OBVIOUS
<1>2. <<t, u, v>> \in Seq({t, u, v}) /\ Len(<<t, u, v>>) = 3
  OBVIOUS
<1>3. AllRefused(<<t, u>>)
  <2>1. \A x \in 1 .. 2 : <<t, u>>[x] = t \/ <<t, u>>[x] = u
    OBVIOUS
  <2> QED BY <1>1, <2>1 DEF AllRefused, Refusal
<1>4. ASSUME Refusal(v) PROVE AllRefused(<<t, u, v>>)
  <2>1. \A x \in 1 .. 3 : <<t, u, v>>[x] = t \/ <<t, u, v>>[x] = u \/ <<t, u, v>>[x] = v
    OBVIOUS
  <2> QED BY <1>2, <1>4, <2>1 DEF AllRefused, Refusal
<1> QED BY <1>1, <1>2, <1>3, <1>4

LEMMA ForAllRefused ==
    ASSUME NEW test, NEW call, NEW first \in Nat, first <= 2,
           \A fd \in Int : fd >= first => RefusedCall([call |-> call, arg |-> fd, nbytes |-> 31])
    PROVE  AllRefused(ForAll(test, call, first))
<1>1. PICK m \in Nat : m = SIZE_OF_FILE_ARRAY - first
  BY LotsFacts
<1>2. PICK s : s = ForAll(test, call, first)
  OBVIOUS
<1>3. s = [x \in 1 .. m |-> Try(test, call, first + x - 1, "refused")]
  BY <1>1, <1>2 DEF ForAll
<1>4. PICK S : S = {s[x] : x \in 1 .. m}
  OBVIOUS
<1>5. s \in Seq(S) /\ Len(s) = m
  BY <1>1, <1>3, <1>4
<1>6. ASSUME NEW x \in 1 .. m PROVE s[x].want = "refused" /\ RefusedCall(s[x].k)
  <2>1. PICK fd \in Int : fd = first + x - 1 /\ fd >= first
    OBVIOUS
  <2>2. s[x] = Try(test, call, fd, "refused")
    BY <1>3, <2>1
  <2>3. RefusedCall([call |-> call, arg |-> fd, nbytes |-> 31])
    BY <2>1, Zenon
  <2> QED BY <2>2, <2>3, TryRefused, Zenon
<1> QED BY <1>2, <1>5, <1>6 DEF AllRefused

LEMMA TestsRefused ==
    /\ AllRefused(err_neg_fd) /\ Len(err_neg_fd) = 3
    /\ AllRefused(err_big_fd) /\ Len(err_big_fd) = 3
    /\ AllRefused(err_open) /\ AllRefused(err_unopened) /\ AllRefused(err_vidmap)
    /\ AllRefused(err_stdin_out) /\ AllRefused(err_syscall_num)
<1>1. \A test, call, arg :
          RefusedCall([call |-> call, arg |-> arg, nbytes |-> 31]) =>
              Refusal(Try(test, call, arg, "refused"))
  BY TryRefused DEF Refusal
<1>2. AllRefused(err_neg_fd) /\ Len(err_neg_fd) = 3
  <2>1. NEG_FD \in Int /\ NEG_FD # 0 /\ NEG_FD # 1
    BY DEF NEG_FD
  <2>2. /\ Refusal(Try(1, "read", NEG_FD, "refused")) /\ Refusal(Try(1, "write", NEG_FD, "refused"))
        /\ Refusal(Try(1, "close", NEG_FD, "refused"))
    BY <1>1, <2>1, RefusedCalls
  <2> QED BY <2>2, ShortRefused DEF err_neg_fd
<1>3. AllRefused(err_big_fd) /\ Len(err_big_fd) = 3
  <2>1. BIG_FD \in Int /\ BIG_FD # 0 /\ BIG_FD # 1
    BY DEF BIG_FD
  <2>2. /\ Refusal(Try(2, "read", BIG_FD, "refused")) /\ Refusal(Try(2, "write", BIG_FD, "refused"))
        /\ Refusal(Try(2, "close", BIG_FD, "refused"))
    BY <1>1, <2>1, RefusedCalls
  <2> QED BY <2>2, ShortRefused DEF err_big_fd
<1>4. AllRefused(err_open)
  <2>1. /\ Refusal(Try(4, "open", <<"h", "e", "e">>, "refused"))
        /\ Refusal(Try(4, "open", <<"s">>, "refused")) /\ Refusal(Try(4, "open", <<>>, "refused"))
    BY <1>1, MissingNames, RefusedCalls
  <2> QED BY <2>1, ShortRefused DEF err_open
<1>5. AllRefused(err_unopened)
  <2>1. PICK s, t, u : /\ s = ForAll(5, "close", 0) /\ t = ForAll(5, "read", 2)
                       /\ u = ForAll(5, "write", 2)
    OBVIOUS
  <2>2. AllRefused(s)
    <3>1. \A fd \in Int : RefusedCall([call |-> "close", arg |-> fd, nbytes |-> 31])
      BY RefusedCalls
    <3> QED BY <2>1, <3>1, ForAllRefused
  <2>3. AllRefused(t)
    <3>1. ASSUME NEW fd \in Int, fd >= 2
          PROVE  RefusedCall([call |-> "read", arg |-> fd, nbytes |-> 31])
      <4>1. fd # 0
        BY <3>1
      <4> QED BY <4>1, RefusedCalls, Zenon
    <3> QED BY <2>1, <3>1, ForAllRefused
  <2>4. AllRefused(u)
    <3>1. ASSUME NEW fd \in Int, fd >= 2
          PROVE  RefusedCall([call |-> "write", arg |-> fd, nbytes |-> 31])
      <4>1. fd # 1
        BY <3>1
      <4> QED BY <4>1, RefusedCalls, Zenon
    <3> QED BY <2>1, <3>1, ForAllRefused
  <2>5. AllRefused(s \o t)
    BY <2>2, <2>3, JoinedRefused
  <2>6. AllRefused((s \o t) \o u)
    BY <2>4, <2>5, JoinedRefused
  <2> QED BY <2>1, <2>6, Zenon DEF err_unopened
<1>6. AllRefused(err_vidmap)
  <2>1. Refusal(Try(6, "vidmap", FALSE, "refused"))
    BY <1>1, RefusedCalls
  <2> QED BY <2>1, ShortRefused DEF err_vidmap
<1>7. AllRefused(err_stdin_out)
  <2>1. Refusal(Try(7, "write", 0, "refused")) /\ Refusal(Try(7, "read", 1, "refused"))
    <3>1. 0 \in Int /\ 1 \in Int /\ 0 # 1
      OBVIOUS
    <3> QED BY <1>1, <3>1, RefusedCalls, Zenon
  <2> QED BY <2>1, ShortRefused DEF err_stdin_out
<1>8. AllRefused(err_syscall_num)
  <2>1. PICK t : t = Try(8, "invalid", 0, "refused")
    OBVIOUS
  <2>2. Refusal(t)
    BY <1>1, <2>1, RefusedCalls
  <2>3. err_syscall_num = [x \in 1 .. 3 |-> t]
    BY <2>1 DEF err_syscall_num
  <2>4. err_syscall_num \in Seq({t}) /\ \A x \in 1 .. Len(err_syscall_num) : err_syscall_num[x] = t
    BY <2>3
  <2> QED BY <2>2, <2>4 DEF AllRefused, Refusal
<1> QED BY <1>2, <1>3, <1>4, <1>5, <1>6, <1>7, <1>8

LEMMA LotsScript == RestFrom(err_open_lots, 0) /\ Len(err_open_lots) = LastOfLots
<1>1. PICK o : o = Try(3, "open", <<".">>, "count")
  OBVIOUS
<1>2. PICK s : s = [x \in 1 .. SIZE_OF_FILE_ARRAY - 1 |-> Try(3, "open", <<".">>, "count")]
  BY Zenon
<1>3. PICK t : t = [x \in 1 .. SIZE_OF_FILE_ARRAY - 2 |->
                       Try(3, "close", x + 1, IF x = SIZE_OF_FILE_ARRAY - 2 THEN "once" ELSE "")]
  BY Zenon
<1>4. s \in Seq({o}) /\ Len(s) = Lots /\ \A x \in 1 .. Lots : s[x] = o
  BY <1>1, <1>2, LotsFacts
<1>5. PICK m \in Nat : m = SIZE_OF_FILE_ARRAY - 2 /\ LastOfLots = Lots + m
  BY LotsFacts
<1>6. /\ DOMAIN t = 1 .. m
      /\ \A x \in 1 .. m : t[x] = Try(3, "close", x + 1, IF x = m THEN "once" ELSE "")
  BY <1>3, <1>5
<1>7. t \in Seq({t[x] : x \in 1 .. m}) /\ Len(t) = m
  <2>1. t = [x \in 1 .. m |-> t[x]]
    BY <1>3, <1>5
  <2> QED BY <2>1
<1>8. RestFrom(s, 0)
  <2>1. ASSUME NEW x \in 1 .. Lots PROVE Expected(s[x], 0 + x)
    <3>1. 0 + x = x /\ x \notin Lots + 1 .. LastOfLots /\ x \in 1 .. LastOfLots
      BY LotsFacts
    <3> QED BY <1>1, <1>4, <3>1 DEF Expected
  <2>2. \E S : s \in Seq(S)
    BY <1>4
  <2> QED BY <1>4, <2>1, <2>2 DEF RestFrom
<1>9. RestFrom(t, Lots)
  <2>1. ASSUME NEW x \in 1 .. m PROVE Expected(t[x], Lots + x)
    <3>1. PICK j : j = Lots + x
      OBVIOUS
    <3>2. /\ j \notin 1 .. Lots /\ j \in 1 .. LastOfLots /\ j - Lots + 1 = x + 1
          /\ j = LastOfLots <=> x = m
      BY <1>5, <3>1, LotsFacts
    <3>3. t[x] = Try(3, "close", j - Lots + 1, IF j = LastOfLots THEN "once" ELSE "")
      BY <1>6, <3>2
    <3> QED BY <3>1, <3>2, <3>3 DEF Expected
  <2>2. \E S : t \in Seq(S)
    BY <1>7
  <2> QED BY <1>7, <2>1, <2>2 DEF RestFrom
<1>10. err_open_lots = s \o t
  BY <1>2, <1>3, Zenon DEF err_open_lots
<1>11. 0 + Len(s) = Lots
  BY <1>4, LotsFacts
<1>12. RestFrom(t, 0 + Len(s)) /\ 0 \in Int
  BY <1>9, <1>11
<1>13. RestFrom(s \o t, 0) /\ Len(s \o t) = Len(s) + Len(t)
  BY <1>8, <1>12, JoinedRest
<1> QED BY <1>4, <1>5, <1>7, <1>10, <1>13

\* Another test behind all that came before.
LEMMA MoreTests ==
    ASSUME NEW s, RestFrom(s, -6), Len(s) \in Nat, Len(s) >= 6 + LastOfLots,
           NEW t, AllRefused(t)
    PROVE  /\ RestFrom(s \o t, -6) /\ Len(s \o t) \in Nat
           /\ Len(s \o t) >= 6 + LastOfLots
<1>1. PICK j \in Int : j = -6 + Len(s) /\ j >= LastOfLots
  BY LotsFacts
<1>2. RestFrom(t, -6 + Len(s)) /\ -6 \in Int
  BY <1>1, RefusedRest
<1>3. RestFrom(s \o t, -6) /\ Len(s \o t) = Len(s) + Len(t)
  BY <1>2, JoinedRest
<1>4. Len(t) \in Nat
  BY DEF AllRefused
<1> QED BY <1>3, <1>4, LotsFacts

LEMMA AllTests == RestFrom(Selected(0), -6)
<1>1. PICK a : a = err_neg_fd \o err_big_fd
  OBVIOUS
<1>2. AllRefused(a) /\ Len(a) = 6
  <2>1. AllRefused(a) /\ Len(a) = Len(err_neg_fd) + Len(err_big_fd)
    BY <1>1, TestsRefused, JoinedRefused, Zenon
  <2> QED BY <2>1, TestsRefused
<1>3. RestFrom(a, -6)
  <2>1. -6 + Len(a) <= 0 /\ -6 \in Int
    BY <1>2
  <2> QED BY <1>2, <2>1, RefusedRest
<1>4. PICK b : b = a \o err_open_lots
  OBVIOUS
<1>5. RestFrom(b, -6) /\ Len(b) \in Nat /\ Len(b) >= 6 + LastOfLots
  <2>1. -6 + Len(a) = 0 /\ -6 \in Int
    BY <1>2
  <2>2. RestFrom(err_open_lots, -6 + Len(a))
    BY <2>1, LotsScript
  <2>3. RestFrom(b, -6) /\ Len(b) = Len(a) + Len(err_open_lots)
    BY <1>3, <1>4, <2>1, <2>2, JoinedRest
  <2> QED BY <1>2, <2>3, LotsScript, LotsFacts
<1>6. PICK c : c = b \o err_open
  OBVIOUS
<1>7. RestFrom(c, -6) /\ Len(c) \in Nat /\ Len(c) >= 6 + LastOfLots
  BY <1>5, <1>6, TestsRefused, MoreTests
<1>8. PICK d : d = c \o err_unopened
  OBVIOUS
<1>9. RestFrom(d, -6) /\ Len(d) \in Nat /\ Len(d) >= 6 + LastOfLots
  BY <1>7, <1>8, TestsRefused, MoreTests
<1>10. PICK e : e = d \o err_vidmap
  OBVIOUS
<1>11. RestFrom(e, -6) /\ Len(e) \in Nat /\ Len(e) >= 6 + LastOfLots
  BY <1>9, <1>10, TestsRefused, MoreTests
<1>12. PICK f : f = e \o err_stdin_out
  OBVIOUS
<1>13. RestFrom(f, -6) /\ Len(f) \in Nat /\ Len(f) >= 6 + LastOfLots
  BY <1>11, <1>12, TestsRefused, MoreTests
<1>14. RestFrom(f \o err_syscall_num, -6)
  BY <1>13, TestsRefused, MoreTests
<1>15. Selected(0) = f \o err_syscall_num
  BY <1>1, <1>4, <1>6, <1>8, <1>10, <1>12, Zenon DEF Selected
<1> QED BY <1>14, <1>15

\* Whatever is selected, it starts with nothing open and nothing refused.
LEMMA SelectedScript ==
    ASSUME NEW select \in 0 .. Len(Tests) + 1
    PROVE  \E j \in Int : j <= 0 /\ RestFrom(Selected(select), j)
<1>1. ASSUME NEW s, AllRefused(s) PROVE \E j \in Int : j <= 0 /\ RestFrom(s, j)
  <2>1. Len(s) \in Nat
    BY <1>1 DEF AllRefused
  <2>2. PICK j \in Int : j = 0 - Len(s) /\ j <= 0 /\ j + Len(s) <= 0
    BY <2>1
  <2> QED BY <1>1, <2>2, RefusedRest
<1>2. /\ Tests[1] = err_neg_fd /\ Tests[2] = err_big_fd /\ Tests[3] = err_open_lots
      /\ Tests[4] = err_open /\ Tests[5] = err_unopened /\ Tests[6] = err_vidmap
      /\ Tests[7] = err_stdin_out /\ Tests[8] = err_syscall_num
      /\ Len(Tests) = 8 /\ DOMAIN Tests = 1 .. 8
  BY DEF Tests
<1>3. CASE select = 0
  <2>1. -6 \in Int /\ -6 <= 0
    OBVIOUS
  <2> QED BY <1>3, <2>1, AllTests
<1>4. CASE select \in 1 .. 8
  <2>1. Selected(select) = Tests[select]
    BY <1>2, <1>4 DEF Selected
  <2>2. CASE select = 3
    <3>1. 0 \in Int /\ 0 <= 0
      OBVIOUS
    <3> QED BY <1>2, <2>1, <2>2, <3>1, LotsScript
  <2>3. CASE select # 3
    <3>1. AllRefused(Tests[select])
      BY <1>2, <1>4, <2>3, TestsRefused
    <3> QED BY <1>1, <2>1, <3>1
  <2> QED BY <2>2, <2>3
<1>5. CASE select = 9
  <2>1. Selected(select) = <<>>
    BY <1>2, <1>5 DEF Selected
  <2>2. AllRefused(<<>>)
    <3>1. <<>> \in Seq({}) /\ Len(<<>>) = 0
      OBVIOUS
    <3> QED BY <3>1 DEF AllRefused
  <2> QED BY <1>1, <2>1, <2>2
<1> QED BY <1>2, <1>3, <1>4, <1>5

\* Before err_open_lots and behind it nothing is open.
LEMMA NothingOpen ==
    ASSUME NEW j \in Int, j <= 0 \/ j >= LastOfLots
    PROVE  OpenAfter(j) = {}
<1>1. ASSUME NEW fd \in FileFDs, IF j <= Lots THEN fd <= j + 1 ELSE fd > j - Lots + 1
      PROVE  FALSE
  <2>1. fd \in Int /\ fd >= 2 /\ fd <= Lots
    BY LotsFacts, FileFDsAre
  <2> QED BY <1>1, <2>1, LotsFacts
<1> QED BY <1>1 DEF OpenAfter

\* The calls that must be refused are.
LEMMA IsRefused ==
    ASSUME NEW c, Runs(c), OnlyOpen(file_array[c], {}),
           NEW k, RefusedCall(k), SYSTEM_CALL_ECE(k)
    PROVE  eax' = -1 /\ file_array'[c] = file_array[c]
<1>1. \A fd \in FileFDs : file_array[c][fd].flags = 0
  BY OpenIsSound DEF OnlyOpen
<1>2. CASE k.call = "read" /\ k.arg \in Int /\ k.arg # 0 /\ k.nbytes \in Nat
  <2>1. sys_call_read(k.arg, k.nbytes)
    BY <1>2, CallIs
  <2> QED BY <1>1, <1>2, <2>1, ReadRefused
<1>3. CASE k.call = "write" /\ k.arg \in Int /\ k.arg # 1
  <2>1. sys_call_write(k.arg)
    BY <1>3, CallIs
  <2> QED BY <1>1, <1>3, <2>1, WriteRefused
<1>4. CASE k.call = "close" /\ k.arg \in Int
  <2>1. sys_call_close(k.arg)
    BY <1>4, CallIs
  <2>2. ~(k.arg \in FileFDs /\ file_array[c][k.arg].flags = 1)
    BY <1>1
  <2> QED BY <1>4, <2>1, <2>2, CloseResult
<1>5. CASE k.call = "open" /\ (k.arg = <<>> \/ read_dentry_by_name(k.arg) = {})
  <2>1. sys_call_open(k.arg)
    BY <1>5, CallIs
  <2> QED BY <1>5, <2>1, OpenResult
<1>6. CASE k.call = "vidmap" /\ ~k.arg
  <2>1. sys_call_vidmap(k.arg)
    BY <1>6, CallIs
  <2> QED BY <1>6, <2>1, Zenon DEF sys_call_vidmap
<1>7. CASE k.call = "invalid"
  <2>1. INVALID_SYS_CALL
    BY <1>7, CallIs
  <2> QED BY <2>1 DEF INVALID_SYS_CALL
<1> QED BY <1>2, <1>3, <1>4, <1>5, <1>6, <1>7 DEF RefusedCall

\* What syserr finds behind step number i of a script, if its result is right.
Good(c, t, i) ==
    /\ OnlyOpen(file_array'[c], OpenAfter(i))
    /\ RefusedAfter(i) = IF t.want = "count" /\ eax' = -1
                         THEN RefusedAfter(i - 1) + 1 ELSE RefusedAfter(i - 1)
    /\ ~Failed(t.want, RefusedAfter(i))

\* The fields of what is expected in err_open_lots.
LEMMA ExpectedFields ==
    ASSUME NEW t, NEW j, Expected(t, j)
    PROVE  /\ j \in 1 .. Lots => t.want = "count" /\ t.k.call = "open" /\ t.k.arg = <<".">>
           /\ j \in Lots + 1 .. LastOfLots =>
                 t.want \in {"once", ""} /\ t.k.call = "close" /\ t.k.arg = j - Lots + 1
<1>1. ASSUME j \in 1 .. Lots
      PROVE  t.want = "count" /\ t.k.call = "open" /\ t.k.arg = <<".">>
  <2>1. t = Try(3, "open", <<".">>, "count")
    BY <1>1, Zenon DEF Expected
  <2>2. t = [test |-> 3, k |-> [call |-> "open", arg |-> <<".">>, nbytes |-> 31],
             want |-> "count"]
    BY <2>1, Zenon DEF Try
  <2> QED BY <2>2
<1>2. ASSUME j \in Lots + 1 .. LastOfLots
      PROVE  t.want \in {"once", ""} /\ t.k.call = "close" /\ t.k.arg = j - Lots + 1
  <2>1. PICK fd, want : /\ fd = j - Lots + 1
                        /\ want = IF j = LastOfLots THEN "once" ELSE ""
    BY Zenon
  <2>2. t = Try(3, "close", fd, want)
    BY <1>2, <2>1, Zenon DEF Expected
  <2>3. want \in {"once", ""}
    BY <2>1, Zenon
  <2>4. t.want = want /\ t.k.call = "close" /\ t.k.arg = fd
    <3>1. t = [test |-> 3, k |-> [call |-> "close", arg |-> fd, nbytes |-> 31], want |-> want]
      BY <2>2, Zenon DEF Try
    <3> QED BY <3>1
  <2> QED BY <2>1, <2>3, <2>4
<1> QED BY <1>1, <1>2, Zenon

LEMMA ExpectedProper ==
    ASSUME NEW t, NEW j \in Int, Expected(t, j)
    PROVE  ProperCall(t.k)
<1>1. CASE j \in 1 .. Lots
  <2>1. t.k.call = "open"
    BY <1>1, ExpectedFields
  <2> QED BY <2>1 DEF ProperCall
<1>2. CASE j \in Lots + 1 .. LastOfLots
  <2>1. j - Lots + 1 \in Int
    BY LotsFacts
  <2>2. t.k.call = "close" /\ t.k.arg = j - Lots + 1
    BY <1>2, ExpectedFields
  <2> QED BY <2>1, <2>2 DEF ProperCall
<1>3. CASE j \notin 1 .. LastOfLots
  <2>1. RefusedCall(t.k)
    BY <1>3, Zenon DEF Expected
  <2>2. PICK k : k = t.k
    OBVIOUS
  <2>3. RefusedCall(k)
    BY <2>1, <2>2, Zenon
  <2>4. ProperCall(k)
    BY <2>3 DEF RefusedCall, ProperCall
  <2> QED BY <2>2, <2>4, Zenon
<1> QED BY <1>1, <1>2, <1>3, LotsFacts

\* The opens of err_open_lots: they succeed until all descriptors are taken.
LEMMA LotsOpen ==
    ASSUME NEW c, Runs(c), NEW i \in 1 .. Lots, OnlyOpen(file_array[c], OpenAfter(i - 1)),
           NEW t, Expected(t, i), SYSTEM_CALL_ECE(t.k)
    PROVE  Good(c, t, i)
<1>1. t.want = "count" /\ t.k.call = "open" /\ t.k.arg = <<".">>
  BY ExpectedFields
<1>2. sys_call_open(<<".">>)
  BY <1>1, CallIs
<1>3. ~Failed(t.want, RefusedAfter(i))
  BY <1>1 DEF Failed
<1>4. \A fd \in FileFDs : /\ fd \in Int /\ fd >= 2 /\ fd <= Lots
                          /\ file_array[c][fd].flags = 1 <=> fd <= i
  <2>1. i - 1 <= Lots /\ i - 1 + 1 = i
    BY LotsFacts
  <2> QED BY <2>1, LotsFacts, FileFDsAre DEF OnlyOpen, OpenAfter
<1>5. \A fd \in FileFDs : fd \in OpenAfter(i) <=> fd <= i + 1
  BY LotsFacts DEF OpenAfter
<1>6. RefusedAfter(i - 1) = 0 /\ RefusedAfter(i) = IF i < Lots THEN 0 ELSE 1
  BY LotsFacts DEF RefusedAfter
<1>7. CASE i < Lots
  <2>1. PICK x \in FileFDs : x = i + 1
    BY <1>7, LotsFacts, FileFDsAre
  <2>2. file_array[c][x].flags = 0
    <3>1. ~(x <= i)
      BY <2>1
    <3> QED BY <1>4, <3>1, OpenIsSound
  <2>3. PICK fd : fd = eax'
    OBVIOUS
  <2>4. ~ \A y \in FileFDs : file_array[c][y].flags = 1
    BY <2>2
  <2>5. /\ fd \in FileFDs /\ file_array[c][fd].flags = 0
        /\ \A y \in FileFDs : file_array[c][y].flags = 0 => fd <= y
        /\ Replaced(file_array[c], file_array'[c], fd, NewDescriptor(<<".">>))
    BY <1>2, <2>3, <2>4, OpenResult, DirectoryFound
  <2>6. fd <= x /\ ~(fd <= i) /\ fd \in Int
    BY <1>4, <2>2, <2>5
  <2>7. fd = x /\ fd # -1
    BY <2>1, <2>6
  <2>8. NewDescriptor(<<".">>).flags = 1
    BY DEF NewDescriptor, Descriptor
  <2>9. OnlyOpen(file_array'[c], OpenAfter(i))
    <3>1. ASSUME NEW y \in FileFDs
          PROVE  file_array'[c][y].flags = 1 <=> y \in OpenAfter(i)
      <4>1. CASE y = fd
        BY <1>5, <2>1, <2>5, <2>7, <2>8, <4>1 DEF Replaced
      <4>2. CASE y # fd
        <5>1. file_array'[c][y] = file_array[c][y]
          BY <2>5, <4>2, FileFDsAre DEF Replaced
        <5>2. y <= i <=> y <= i + 1
          BY <1>4, <2>1, <2>7, <4>2
        <5>3. file_array[c][y].flags = 1 <=> y <= i
          BY <1>4
        <5>4. y \in OpenAfter(i) <=> y <= i + 1
          BY <1>5
        <5> QED BY <5>1, <5>2, <5>3, <5>4, Zenon
      <4> QED BY <4>1, <4>2
    <3> QED BY <3>1 DEF OnlyOpen
  <2>10. RefusedAfter(i) = RefusedAfter(i - 1) /\ eax' # -1
    BY <1>6, <1>7, <2>3, <2>7
  <2> QED BY <1>3, <2>9, <2>10 DEF Good
<1>8. CASE i = Lots
  <2>1. \A y \in FileFDs : file_array[c][y].flags = 1
    BY <1>4, <1>8
  <2>2. eax' = -1 /\ file_array'[c] = file_array[c]
    <3>1. \A y \in FileFDs : file_array[c][y].flags # 0
      BY <2>1
    <3> QED BY <1>2, <3>1, OpenResult
  <2>3. OnlyOpen(file_array'[c], OpenAfter(i))
    <3>1. \A y \in FileFDs : y <= i + 1
      BY <1>4, <1>8, LotsFacts
    <3> QED BY <1>5, <2>1, <2>2, <3>1 DEF OnlyOpen
  <2>4. RefusedAfter(i) = RefusedAfter(i - 1) + 1
    BY <1>6, <1>8, LotsFacts
  <2> QED BY <1>1, <1>3, <2>2, <2>3, <2>4 DEF Good
<1> QED BY <1>7, <1>8, LotsFacts

\* Its closes, in the order of the descriptors.
LEMMA LotsClose ==
    ASSUME NEW c, Runs(c), NEW i \in Lots + 1 .. LastOfLots,
           OnlyOpen(file_array[c], OpenAfter(i - 1)),
           NEW t, Expected(t, i), SYSTEM_CALL_ECE(t.k)
    PROVE  Good(c, t, i)
<1>0. i \in Int /\ i > Lots /\ i <= LastOfLots
  BY LotsFacts
<1>1. PICK x \in FileFDs : x = i - Lots + 1
  BY <1>0, LotsFacts, FileFDsAre
<1>2. t.want \in {"once", ""} /\ t.k.call = "close" /\ t.k.arg = x
  BY <1>1, ExpectedFields
<1>3. sys_call_close(x)
  BY <1>2, CallIs
<1>4. \A fd \in FileFDs : /\ fd \in Int /\ fd >= 2 /\ fd <= Lots
                          /\ file_array[c][fd].flags = 1 <=> fd >= x
  <2>1. ASSUME NEW fd \in FileFDs PROVE fd \in OpenAfter(i - 1) <=> fd >= x
    <3>1. fd \in Int /\ fd >= 2 /\ fd <= Lots
      BY LotsFacts, FileFDsAre
    <3>2. CASE i = Lots + 1
      <4>1. i - 1 <= Lots /\ fd <= i - 1 + 1 /\ fd >= x
        BY <1>1, <3>1, <3>2, LotsFacts
      <4> QED BY <4>1 DEF OpenAfter
    <3>3. CASE i # Lots + 1
      <4>1. ~(i - 1 <= Lots) /\ (fd > i - 1 - Lots + 1 <=> fd >= x)
        BY <1>0, <1>1, <3>1, <3>3, LotsFacts
      <4> QED BY <4>1 DEF OpenAfter
    <3> QED BY <3>2, <3>3
  <2> QED BY <2>1, LotsFacts, FileFDsAre DEF OnlyOpen
<1>5. file_array[c][x].flags = 1 /\ x \in Int
  BY <1>4
<1>6. PICK d : d = [file_array[c][x] EXCEPT !.flags = 0]
  BY Zenon
<1>7. eax' = 0 /\ Replaced(file_array[c], file_array'[c], x, d)
  BY <1>3, <1>5, <1>6, CloseResult
<1>8. d.flags = 0
  <2>1. file_array[c][x] \in Desc
    BY OpenIsSound
  <2> QED BY <1>6, <2>1 DEF Desc
<1>9. RefusedAfter(i) = 1 /\ RefusedAfter(i - 1) = 1
  BY <1>0, LotsFacts DEF RefusedAfter
<1>10. OnlyOpen(file_array'[c], OpenAfter(i))
  <2>1. ASSUME NEW y \in FileFDs
        PROVE  file_array'[c][y].flags = 1 <=> y \in OpenAfter(i)
    <3>1. y \in OpenAfter(i) <=> y > x
      BY <1>0, <1>1, LotsFacts DEF OpenAfter
    <3>2. CASE y = x
      <4>1. ~(y > x)
        BY <1>5, <3>2
      <4> QED BY <1>7, <1>8, <3>1, <3>2, <4>1 DEF Replaced
    <3>3. CASE y # x
      <4>1. file_array'[c][y] = file_array[c][y]
        BY <1>7, <3>3, FileFDsAre DEF Replaced
      <4>2. y >= x <=> y > x
        BY <1>4, <1>5, <3>3
      <4> QED BY <1>4, <3>1, <4>1, <4>2
    <3> QED BY <3>2, <3>3
  <2> QED BY <2>1 DEF OnlyOpen
<1>11. ~Failed(t.want, RefusedAfter(i)) /\ t.want # "count"
  BY <1>2, <1>9 DEF Failed
<1> QED BY <1>9, <1>10, <1>11 DEF Good

\* Every step of a script finds what is demanded of it.
LEMMA ScriptStep ==
    ASSUME NEW c, Runs(c), NEW i \in Int, OnlyOpen(file_array[c], OpenAfter(i - 1)),
           NEW t, Expected(t, i), SYSTEM_CALL_ECE(t.k)
    PROVE  Good(c, t, i)
<1>1. CASE i \in 1 .. Lots
  BY <1>1, LotsOpen
<1>2. CASE i \in Lots + 1 .. LastOfLots
  BY <1>2, LotsClose
<1>3. CASE i \notin 1 .. LastOfLots
  <2>1. t.want = "refused" /\ RefusedCall(t.k)
    BY <1>3 DEF Expected
  <2>2. /\ i <= 0 \/ i >= LastOfLots
        /\ i - 1 <= 0 \/ i - 1 >= LastOfLots
    BY <1>3, LotsFacts
  <2>3. OpenAfter(i) = {} /\ OpenAfter(i - 1) = {}
    BY <2>2, NothingOpen
  <2>4. eax' = -1 /\ file_array'[c] = file_array[c]
    BY <2>1, <2>3, IsRefused
  <2>5. RefusedAfter(i) = RefusedAfter(i - 1)
    BY <1>3, LotsFacts DEF RefusedAfter
  <2>6. ~Failed(t.want, RefusedAfter(i)) /\ t.want # "count"
    BY <2>1, <2>4 DEF Failed
  <2> QED BY <2>3, <2>4, <2>5, <2>6 DEF Good
<1> QED BY <1>1, <1>2, <1>3, LotsFacts

\* The locals behind one step of a script.
Advanced(l, n, test, bad) ==
    [l EXCEPT !.script = Tail(@), !.n = n, !.failed = IF bad THEN @ \cup {test} ELSE @]

LEMMA WithoutFailure ==
    ASSUME NEW l, LocalsOK(l), NEW n \in Nat, NEW test
    PROVE  /\ LocalsOK(Advanced(l, n, test, FALSE))
           /\ Advanced(l, n, test, FALSE).script = Tail(l.script)
           /\ Advanced(l, n, test, FALSE).n = n
           /\ Advanced(l, n, test, FALSE).failed = l.failed
<1>1. PICK u : u = [l EXCEPT !.script = Tail(l.script)]
  BY Zenon
<1>2. LocalsOK(u) /\ u.script = Tail(l.script) /\ u.failed = l.failed
  BY <1>1 DEF LocalsOK
<1>3. PICK v : v = [u EXCEPT !.n = n]
  BY Zenon
<1>4. LocalsOK(v) /\ v.script = u.script /\ v.failed = u.failed /\ v.n = n
  BY <1>2, <1>3 DEF LocalsOK
<1>5. PICK r : r = [v EXCEPT !.failed = v.failed]
  BY Zenon
<1>6. LocalsOK(r) /\ r.script = v.script /\ r.failed = v.failed /\ r.n = v.n
  BY <1>4, <1>5 DEF LocalsOK
<1>7. Advanced(l, n, test, FALSE) = r
  BY <1>1, <1>3, <1>5, Zenon DEF Advanced
<1> QED BY <1>2, <1>4, <1>6, <1>7, Zenon

LEMMA RunsTest ==
    ASSUME UInv, At("syserr", "test"), loc[me].script # <<>>, RunTest
    PROVE  UInv'
<1>0. PICK c : c = me
  OBVIOUS
<1>1. mode = "user" /\ prog[c] = "syserr" /\ pc[c] = "test"
  BY <1>0 DEF At
<1>2. Runs(c) /\ c \in Slots /\ ProgramTypes /\ LocalsOK(loc[c]) /\ loc[c].n \in Nat
  BY <1>0, <1>1, OwnSlot
<1>3. SyserrOK("test", loc[c], file_array[c])
  BY <1>0, <1>1, OwnSlot DEF SlotInv
<1>4. PICK j \in Int : /\ RestFrom(loc[c].script, j)
                       /\ OnlyOpen(file_array[c], OpenAfter(j))
                       /\ loc[c].n = RefusedAfter(j)
  BY <1>3 DEF SyserrOK
<1>5. PICK i \in Int : i = j + 1 /\ j = i - 1
  OBVIOUS
<1>6. PICK t : t = Head(loc[c].script)
  OBVIOUS
<1>7. Expected(t, i) /\ RestFrom(Tail(loc[c].script), i)
  BY <1>0, <1>4, <1>5, <1>6, RestStep
<1>8. Make(t.k) /\ UNCHANGED pc
  BY <1>0, <1>6, Zenon DEF RunTest
<1>9. ProperCall(t.k)
  BY <1>7, ExpectedProper
<1>10. SYSTEM_CALL_ECE(t.k)
  BY <1>8 DEF Make
<1>11. Good(c, t, i)
  BY <1>2, <1>4, <1>5, <1>7, <1>10, ScriptStep
<1>12. PICK n : /\ n = (IF t.want = "count" /\ eax' = -1 THEN loc[c].n + 1 ELSE loc[c].n)
                /\ Keep(Advanced(loc[c], n, t.test, Failed(t.want, n)))
  BY <1>0, <1>6, Zenon DEF RunTest, Advanced
<1>13. n = RefusedAfter(i) /\ n \in Nat
  <2>1. n = RefusedAfter(i)
    BY <1>4, <1>5, <1>11, <1>12 DEF Good
  <2> QED BY <2>1, LotsFacts DEF RefusedAfter
<1>14. Failed(t.want, n) = FALSE
  <2>1. ~Failed(t.want, n)
    BY <1>11, <1>13 DEF Good
  <2> QED BY <2>1, Zenon DEF Failed
<1>15. PICK r : r = Advanced(loc[c], n, t.test, FALSE) /\ Keep(r)
  BY <1>12, <1>14, Zenon
<1>16. /\ LocalsOK(r) /\ r.script = Tail(loc[c].script) /\ r.n = n
       /\ r.failed = loc[c].failed
  <2>1. PICK l, test : l = loc[c] /\ test = t.test
    OBVIOUS
  <2>2. n \in Nat /\ LocalsOK(l)
    BY <1>2, <1>13, <2>1
  <2>3. /\ LocalsOK(Advanced(l, n, test, FALSE))
        /\ Advanced(l, n, test, FALSE).script = Tail(l.script)
        /\ Advanced(l, n, test, FALSE).n = n
        /\ Advanced(l, n, test, FALSE).failed = l.failed
    BY <2>2, WithoutFailure, Zenon
  <2> QED BY <1>15, <2>1, <2>3, Zenon
<1>17. Moves("test", r)
  BY <1>0, <1>1, <1>2, <1>8, <1>15 DEF ProgramTypes, Keep, Moves, Local, me
<1>18. SyserrOK("test", r, file_array'[c])
  BY <1>3, <1>7, <1>11, <1>13, <1>16 DEF SyserrOK, Good
<1>19. ListingInv(me)'
  BY <1>0, <1>1, <1>8, <1>9, MakeKeeps, NoListing
<1> QED BY <1>0, <1>1, <1>8, <1>9, <1>16, <1>17, <1>18, <1>19, AfterCall

Scripted(l, s) == [l EXCEPT !.script = s]

LEMMA WithScript ==
    ASSUME NEW l, LocalsOK(l), NEW s
    PROVE  /\ LocalsOK(Scripted(l, s)) /\ Scripted(l, s).script = s
           /\ Scripted(l, s).n = l.n /\ Scripted(l, s).failed = l.failed
BY DEF LocalsOK, Scripted

LEMMA SyserrStep == UInv /\ Syserr => UInv'
<1> SUFFICES ASSUME UInv, Syserr PROVE UInv'
  OBVIOUS
<1>0. PICK c : c = me
  OBVIOUS
<1>1. mode = "user" /\ prog[c] = "syserr"
  BY <1>0, Zenon DEF Syserr, At
<1>2. Runs(c) /\ c \in Slots /\ ProgramTypes /\ LocalsOK(loc[c])
  BY <1>0, <1>1, OwnSlot
<1>3. SyserrOK(pc[c], loc[c], file_array[c])
  BY <1>0, <1>1, OwnSlot DEF SlotInv
<1>4. CASE /\ At("syserr", "main")
           /\ Do("read", 0, 127)
           /\ IF eax' = -1 THEN Return(2)
              ELSE \E select \in 0 .. Len(Tests) + 1 :
                      Goto("test") /\ Keep([loc[me] EXCEPT !.script = Selected(select)])
  <2>1. /\ OnlyOpen(file_array[c], {}) /\ loc[c].n = 0 /\ loc[c].failed = {}
    BY <1>0, <1>3, <1>4 DEF At, SyserrOK
  <2>2. PICK k : k = [call |-> "read", arg |-> 0, nbytes |-> 127] /\ Make(k)
    BY <1>4, DoIs
  <2>3. ProperCall(k)
    BY <2>2 DEF ProperCall
  <2>4. eax' \in Nat \ {0} /\ file_array'[c] = file_array[c]
    BY <1>2, <1>4, DoIs, ReadTerminal
  <2>5. PICK select \in 0 .. Len(Tests) + 1 :
            Goto("test") /\ Keep([loc[me] EXCEPT !.script = Selected(select)])
    <3>1. eax' # -1
      BY <2>4
    <3> QED BY <1>4, <3>1, Zenon
  <2>6. PICK s : s = Selected(select)
    OBVIOUS
  <2>7. PICK l : l = loc[c] /\ LocalsOK(l)
    BY <1>2, Zenon
  <2>8. PICK r : r = Scripted(l, s)
    OBVIOUS
  <2>9. Goto("test") /\ Keep(r)
    BY <1>0, <2>5, <2>6, <2>7, <2>8, Zenon DEF Scripted
  <2>10. Moves("test", r)
    BY <1>0, <1>2, <2>9, GotoKeeps
  <2>11. LocalsOK(r) /\ r.script = s /\ r.n = 0 /\ r.failed = {}
    <3>1. LocalsOK(r) /\ r.script = s /\ r.n = l.n /\ r.failed = l.failed
      BY <2>7, <2>8, WithScript
    <3> QED BY <2>1, <2>7, <3>1
  <2>12. PICK j \in Int : j <= 0 /\ RestFrom(s, j)
    BY <2>6, SelectedScript
  <2>13. OpenAfter(j) = {} /\ RefusedAfter(j) = 0
    BY <2>12, NothingOpen, LotsFacts DEF RefusedAfter
  <2>14. SyserrOK("test", r, file_array'[c])
    BY <2>1, <2>4, <2>11, <2>12, <2>13 DEF SyserrOK
  <2>15. ListingInv(me)'
    BY <1>0, <1>1, <2>2, <2>3, MakeKeeps, NoListing
  <2> QED BY <1>0, <1>1, <2>2, <2>3, <2>10, <2>11, <2>14, <2>15, AfterCall
<1>5. CASE At("syserr", "test") /\ loc[me].script # <<>> /\ RunTest
  BY <1>5, RunsTest
<1>6. CASE /\ At("syserr", "test") /\ loc[me].script = <<>>
           /\ Return(2 * Cardinality(loc[me].failed))
           /\ UNCHANGED <<dvars, prog, out, alone, typed>>
  <2>1. loc[c].failed = {}
    BY <1>3 DEF SyserrOK
  <2>2. Return(0)
    <3>1. Cardinality(loc[me].failed) = 0
      BY <1>0, <2>1, FS_EmptySet
    <3>2. 2 * Cardinality(loc[me].failed) = 0
      BY <3>1
    <3> QED BY <1>6, <3>2, Zenon
  <2>3. 0 \in 0..255
    OBVIOUS
  <2>4. PICK r : Moves("halt", r) /\ LocalsOK(r) /\ r.failed = {}
    BY <1>0, <1>2, <2>1, <2>2, <2>3, ReturnMoves
  <2>5. SyserrOK("halt", r, file_array[c])
    BY <2>4 DEF SyserrOK
  <2>6. ListingInv(me)'
    <3>1. UNCHANGED <<current_process_ID, prog>>
      BY <1>6, Zenon DEF dvars, vars, cpu
    <3> QED BY <1>0, <1>1, <3>1, NoListing
  <2> QED BY <1>0, <1>1, <1>6, <2>4, <2>5, <2>6, AfterNoCall
<1> QED BY <1>4, <1>5, <1>6, Zenon DEF Syserr

-----------------------------------------------------------------------------
(***************************************************************************)
(* Programs that make any call, and the steps that start and end programs. *)
(***************************************************************************)
LEMMA IdleOK ==
    /\ LocalsOK(Idle) /\ Idle.n = 0 /\ Idle.status = 0 /\ Idle.failed = {}
<1>1. 0 \in Entries
  BY DirectoryFacts, IndexAssumption
<1> QED BY <1>1 DEF LocalsOK, Idle

\* A program is loaded into slot i: all programs start with nothing open.
LEMMA LoadKeeps ==
    ASSUME UInv, DInv', UNCHANGED read_directory_index,
           NEW i \in Slots, NEW p, NEW command, Load(i, p, command),
           \A j \in Slots : j # i => Private(j)' = Private(j),
           p # "" => OnlyOpen(file_array'[i], {}),
           p = "grep" => (GrepsHaveArguments => Len(command_global'[i]) >= 2),
           CatsReadFiles /\ p = "cat" =>
               /\ command_global'[i] = command /\ Len(command) \in {1, 2}
               /\ Names(command) => Directory[Found(command[2])].type = "SINGLE_FILE"
    PROVE  UInv'
<1>1. ProgramTypes
  BY DEF UInv
<1>2. /\ prog'[i] = p /\ pc'[i] = "main" /\ loc'[i] = Idle /\ out'[i] = <<>>
      /\ typed'[i] = command
  BY <1>1 DEF Load, ProgramTypes
<1>3. \A j \in Slots : j # i =>
          /\ prog'[j] = prog[j] /\ pc'[j] = pc[j] /\ loc'[j] = loc[j]
          /\ out'[j] = out[j] /\ alone'[j] = alone[j] /\ typed'[j] = typed[j]
  BY <1>1 DEF Load, ProgramTypes
<1>4. ProgramTypes'
  BY <1>1 DEF Load, ProgramTypes
<1>5. SlotInv(i)'
  <2>1. p = "ls" => LsOK("main", Idle, file_array'[i])
    BY DEF LsOK
  <2>2. p = "grep" => GrepOK("main", Idle, file_array'[i], command_global'[i])
    BY DEF GrepOK
  <2>3. CatsReadFiles /\ p = "cat" =>
            CatOK("main", Idle, file_array'[i], command_global'[i], command)
    BY IdleOK DEF CatOK
  <2>4. p = "syserr" => SyserrOK("main", Idle, file_array'[i])
    BY IdleOK DEF SyserrOK
  <2> QED BY <1>2, <2>1, <2>2, <2>3, <2>4, IdleOK DEF SlotInv
<1>6. ListingInv(i)'
  <2>1. ListingOK("main", Idle, <<>>, read_directory_index')
    BY IdleOK DEF ListingOK
  <2> QED BY <1>2, <2>1 DEF ListingInv
<1>7. ASSUME NEW j \in Slots, j # i PROVE SlotInv(j)' /\ ListingInv(j)'
  <2>1. file_array'[j] = file_array[j] /\ command_global'[j] = command_global[j]
    BY <1>7 DEF Private
  <2>2. SlotInv(j)'
    BY <1>3, <1>7, <2>1, SameSlot DEF UInv
  <2>3. ListingInv(j)'
    BY <1>3, <1>7 DEF UInv, ListingInv
  <2> QED BY <2>2, <2>3
<1> QED BY <1>4, <1>5, <1>6, <1>7 DEF UInv

\* All programs stay where they are.
LEMMA SamePrograms ==
    ASSUME UInv, DInv', UNCHANGED read_directory_index, UNCHANGED programs,
           \A j \in Slots : Private(j)' = Private(j) \/ prog[j] = "shell"
    PROVE  UInv'
<1>1. UNCHANGED <<prog, pc, loc, out, alone, typed>>
  BY Zenon DEF programs
<1>2. ASSUME NEW j \in Slots PROVE SlotInv(j)' /\ ListingInv(j)'
  <2>1. SlotInv(j) /\ ListingInv(j)
    BY DEF UInv
  <2>2. CASE Private(j)' = Private(j)
    <3>1. file_array'[j] = file_array[j] /\ command_global'[j] = command_global[j]
      BY <2>2 DEF Private
    <3> QED BY <1>1, <2>1, <3>1, SameSlot DEF ListingInv
  <2>3. CASE prog[j] = "shell"
    BY <1>1, <2>1, <2>3 DEF SlotInv, ListingInv
  <2> QED BY <2>2, <2>3
<1> QED BY <1>1, <1>2 DEF UInv, ProgramTypes

LEMMA FreshIsClosed == OnlyOpen(FreshArray, {})
<1>1. ASSUME NEW fd \in FileFDs PROVE FreshArray[fd].flags = 0
  BY FDRanges DEF FreshArray, Descriptor, FileFDs, FILE_ARRAY_START
<1> QED BY <1>1 DEF OnlyOpen

\* A command that execute takes has one word or two.
LEMMA ExecutableWords ==
    ASSUME NEW command \in Seq(Seq(Chars)), Executable(command)
    PROVE  Len(command) \in {1, 2}
<1>1. PICK n \in Nat : n = Len(command)
  OBVIOUS
<1>2. CASE n > 1
  <2>1. PICK words : words = SubSeq(command, 1, n - 1)
    OBVIOUS
  <2>2. Len(words) = n - 1
    BY <1>1, <1>2, <2>1
  <2>3. Len(words) = 1
    BY <1>1, <1>2, <2>1 DEF Executable, ProgramOf
  <2>4. n - 1 = 1
    BY <2>2, <2>3, Zenon
  <2>5. n = 2
    BY <2>4
  <2> QED BY <1>1, <2>5
<1>3. CASE ~(n > 1)
  BY <1>1, <1>3 DEF Executable, ProgramOf
<1> QED BY <1>2, <1>3

LEMMA ShellStep == UInv /\ Shell /\ Healthy' => UInv'
<1> SUFFICES ASSUME UInv, Shell, Healthy' PROVE UInv'
  OBVIOUS
<1>0. PICK c : c = me
  OBVIOUS
<1>1. mode = "user" /\ prog[c] = "shell"
  BY <1>0, Zenon DEF Shell, At
<1>2. /\ c \in Slots /\ ProgramTypes /\ LocalsOK(loc[c]) /\ Runs(c)
      /\ flag[c] = 1 /\ buffer_flag \in Terminals
  BY <1>0, <1>1, OwnSlot, RunsFacts
<1>3. CASE Return(0) /\ UNCHANGED <<dvars, prog, out, alone, typed>>
  <2>1. 0 \in 0..255
    OBVIOUS
  <2>2. PICK r : Moves("halt", r) /\ LocalsOK(r)
    BY <1>0, <1>2, <1>3, <2>1, ReturnMoves
  <2>3. ListingInv(me)'
    <3>1. UNCHANGED <<current_process_ID, prog>>
      BY <1>3, Zenon DEF dvars, vars, cpu
    <3> QED BY <1>0, <1>1, <3>1, NoListing
  <2> QED BY <1>0, <1>1, <1>3, <2>2, <2>3, AfterNoCall
<1>4. ASSUME NEW command \in Typed[buffer_flag], Execute(command),
             IF me' = me THEN UNCHANGED programs
             ELSE Load(me', Directory[Found(command[1])].program, command)
      PROVE  UInv'
  <2>1. DInv
    BY DEF UInv
  <2>2. /\ FInv' /\ NoNullCall'
        /\ \/ /\ Executable(command) /\ \E i : NewIn(i, command)
           \/ /\ UNCHANGED <<current_process_ID, file_array, read_directory_index>>
              /\ \A j \in Slots : j # current_process_ID => Private(j)' = Private(j)
    BY <1>4, <2>1, ExecuteKeeps DEF DInv
  <2>3. Inv'
    <3>1. Next
      BY <1>4, Zenon DEF Execute, Next
    <3> QED BY <2>1, <3>1, NextInv DEF DInv
  <2>4. DInv'
    BY <2>2, <2>3 DEF DInv
  <2>5. CASE Executable(command) /\ \E i : NewIn(i, command)
    <3>1. PICK i : NewIn(i, command)
      BY <2>5
    <3>2. i \in Slots /\ i = me' /\ i # me /\ UNCHANGED read_directory_index
      BY <1>0, <1>2, <3>1 DEF NewIn, me
    <3>3. PICK p : p = Directory[Found(command[1])].program
      OBVIOUS
    <3>4. Load(i, p, command)
      BY <1>4, <3>2, <3>3
    <3>5. /\ file_array'[i] = FreshArray /\ command_global'[i] = command
          /\ \A j \in Slots : j # i => Private(j)' = Private(j)
      BY <1>2, <3>1, <3>2, RunsFacts DEF NewIn, Private
    <3>6. OnlyOpen(file_array'[i], {})
      BY <3>5, FreshIsClosed
    <3>7. p = "grep" => (GrepsHaveArguments => Len(command_global'[i]) >= 2)
      BY <1>2, <2>5, <3>3, <3>5, Zenon DEF GrepsHaveArguments
    <3>8. Len(command) \in {1, 2}
      BY <1>2, <2>5, TypedAssumption, ExecutableWords
    <3>9. CatsReadFiles /\ p = "cat" =>
              (Names(command) => Directory[Found(command[2])].type = "SINGLE_FILE")
      BY <1>2, <2>5, <3>3, Zenon DEF CatsReadFiles, Names
    <3> QED BY <2>4, <3>2, <3>4, <3>5, <3>6, <3>7, <3>8, <3>9, LoadKeeps
  <2>6. CASE /\ UNCHANGED <<current_process_ID, file_array, read_directory_index>>
             /\ \A j \in Slots : j # current_process_ID => Private(j)' = Private(j)
    <3>1. me' = me /\ UNCHANGED programs
      BY <1>4, <2>6 DEF me
    <3>2. \A j \in Slots : Private(j)' = Private(j) \/ prog[j] = "shell"
      BY <1>0, <1>1, <2>6 DEF me
    <3> QED BY <2>4, <2>6, <3>1, <3>2, SamePrograms
  <2> QED BY <2>2, <2>5, <2>6
<1> QED BY <1>3, <1>4, Zenon DEF Shell

LEMMA StartStep == UInv /\ _start /\ Healthy' => UInv'
<1> SUFFICES ASSUME UInv, _start, Healthy' PROVE UInv'
  OBVIOUS
<1>1. mode = "user"
  BY DEF _start
<1>2. PICK s : s = loc[me].status /\ s \in 0..255 /\ me \in Slots
  BY <1>1, OwnSlot
<1>3. Halt(s) /\ Load(me, "", <<ShellName>>)
  BY <1>2, Zenon DEF _start
<1>4. DInv
  BY DEF UInv
<1>5. Inv'
  <2>1. CASE HaltProgram(s)
    BY <1>2, <1>4, <2>1, HaltStatusInv DEF DInv
  <2>2. CASE HaltBaseShell
    BY <1>4, <2>2, HaltBaseShellInv DEF DInv
  <2> QED BY <1>3, <2>1, <2>2 DEF Halt
<1>6. /\ FInv' /\ NoNullCall' /\ UNCHANGED read_directory_index
      /\ \A j \in Slots : j # me => Private(j)' = Private(j)
  BY <1>3, <1>4, HaltKeeps DEF DInv, me
<1>7. DInv'
  BY <1>5, <1>6 DEF DInv
<1>8. PICK c \in Slots : c = me
  BY <1>2
<1>9. Load(c, "", <<ShellName>>) /\ \A j \in Slots : j # c => Private(j)' = Private(j)
  BY <1>3, <1>6, <1>8
<1> QED BY <1>6, <1>7, <1>9, LoadKeeps

\* A read that runs on ends the program.
LEMMA OverrunStep ==
    ASSUME UInv, NEW k, ReadOverrun(k), Load(me, "", <<ShellName>>), Healthy'
    PROVE  UInv'
<1>1. Halt(1) /\ mode = "user" /\ HaltProgram(1)
  BY OverrunHalts, Zenon DEF ReadOverrun
<1>2. DInv
  BY DEF UInv
<1>4. Inv'
  BY <1>1, <1>2, OneIsStatus, HaltStatusInv DEF DInv
<1>5. /\ FInv' /\ NoNullCall' /\ UNCHANGED read_directory_index
      /\ \A j \in Slots : j # me => Private(j)' = Private(j)
  BY <1>1, <1>2, HaltKeeps DEF DInv, me
<1>6. DInv'
  BY <1>4, <1>5 DEF DInv
<1>7. PICK c \in Slots : c = me
  BY <1>1, OwnSlot
<1>8. Load(c, "", <<ShellName>>) /\ \A j \in Slots : j # c => Private(j)' = Private(j)
  BY <1>5, <1>7
<1> QED BY <1>5, <1>6, <1>8, LoadKeeps

LEMMA FreeStep == UInv /\ Free /\ Healthy' => UInv'
<1> SUFFICES ASSUME UInv, Free, Healthy' PROVE UInv'
  OBVIOUS
<1>1. mode = "user" /\ prog[me] = "free"
  BY Zenon DEF Free, At
<1>2. me \in Slots /\ ProgramTypes /\ LocalsOK(loc[me]) /\ Runs(me)
  BY <1>1, OwnSlot
<1>3. CASE \E k \in Calls : Make(k) /\ UNCHANGED <<pc, loc>>
  <2>1. PICK k \in Calls : Make(k) /\ UNCHANGED <<pc, loc>>
    BY <1>3
  <2>2. ProperCall(k)
    BY CallsProper
  <2>3. Moves(pc[me], loc[me])
    BY <1>2, <2>1 DEF Moves, Local, ProgramTypes
  <2>4. ListingInv(me)'
    BY <1>1, <2>1, <2>2, MakeKeeps, NoListing
  <2> QED BY <1>1, <1>2, <2>1, <2>2, <2>3, <2>4, AfterCall
<1>4. CASE \E s \in Statuses : Return(s) /\ UNCHANGED <<dvars, prog, out, alone, typed>>
  <2>1. PICK s \in Statuses : Return(s) /\ UNCHANGED <<dvars, prog, out, alone, typed>>
    BY <1>4
  <2>2. s \in 0..255
    BY StatusAssumption
  <2>3. PICK r : Moves("halt", r) /\ LocalsOK(r)
    BY <1>2, <2>1, <2>2, ReturnMoves
  <2>4. ListingInv(me)'
    <3>1. UNCHANGED <<current_process_ID, prog>>
      BY <2>1, Zenon DEF dvars, vars, cpu
    <3> QED BY <1>1, <3>1, NoListing
  <2> QED BY <1>1, <2>1, <2>3, <2>4, AfterNoCall
<1>5. CASE \E k \in Calls : ReadOverrun(k) /\ Load(me, "", <<ShellName>>)
  <2>1. PICK k \in Calls : ReadOverrun(k) /\ Load(me, "", <<ShellName>>)
    BY <1>5
  <2> QED BY <2>1, OverrunStep
<1> QED BY <1>3, <1>4, <1>5, Zenon DEF Free

LEMMA BackgroundStepKeeps == UInv /\ Background /\ Healthy' => UInv'
<1> SUFFICES ASSUME UInv, Background, Healthy' PROVE UInv'
  OBVIOUS
<1>1. KernelStep /\ DInv
  BY DEF Background, UInv
<1>2. /\ FInv' /\ NoNullCall'
      /\ \/ \E i : NewIn(i, <<ShellName>>)
         \/ /\ UNCHANGED <<file_array, command_global, read_directory_index>>
            /\ flag[current_process_ID'] = 1
  BY <1>1, KernelKeeps DEF DInv
<1>3. Inv'
  <2>1. Next
    BY <1>1, Zenon DEF KernelStep, Next
  <2> QED BY <1>1, <2>1, NextInv DEF DInv
<1>4. DInv'
  BY <1>2, <1>3 DEF DInv
<1>5. CASE \E i : NewIn(i, <<ShellName>>)
  <2>1. PICK i : NewIn(i, <<ShellName>>)
    BY <1>5
  <2>2. i \in Slots /\ i = me' /\ flag[i] = 0 /\ UNCHANGED read_directory_index
    BY <2>1 DEF NewIn, me
  <2>3. Load(i, "shell", <<ShellName>>)
    BY <2>2 DEF Background
  <2>4. /\ file_array'[i] = FreshArray
        /\ \A j \in Slots : j # i => Private(j)' = Private(j)
    BY <1>1, <2>1, <2>2 DEF NewIn, Private, DInv, FInv, FilesTypeOK
  <2>5. OnlyOpen(file_array'[i], {})
    BY <2>4, FreshIsClosed
  <2> QED BY <1>4, <2>2, <2>3, <2>4, <2>5, LoadKeeps
<1>6. CASE /\ UNCHANGED <<file_array, command_global, read_directory_index>>
           /\ flag[current_process_ID'] = 1
  <2>1. UNCHANGED programs
    BY <1>6 DEF Background, me
  <2>2. \A j \in Slots : Private(j)' = Private(j)
    BY <1>6 DEF Private
  <2> QED BY <1>4, <1>6, <2>1, <2>2, SamePrograms
<1> QED BY <1>2, <1>5, <1>6

-----------------------------------------------------------------------------
LEMMA UInitInv == UInit => UInv
<1> SUFFICES ASSUME UInit PROVE UInv
  OBVIOUS
<1>1. DInv
  BY DInitInv DEF UInit
<1>2. ProgramTypes
  BY DEF UInit, ProgramTypes
<1>3. ASSUME NEW i \in Slots PROVE SlotInv(i) /\ ListingInv(i)
  <2>1. loc[i] = Idle /\ prog[i] \in {"shell", ""}
    BY DEF UInit
  <2> QED BY <2>1, IdleOK DEF SlotInv, ListingInv
<1> QED BY <1>1, <1>2, <1>3 DEF UInv

LEMMA UInvStep == UInv /\ [UNext /\ Healthy']_uvars => UInv'
<1> SUFFICES ASSUME UInv, [UNext /\ Healthy']_uvars PROVE UInv'
  OBVIOUS
<1>1. CASE UNext /\ Healthy'
  BY <1>1, ShellStep, StartStep, BackgroundStepKeeps, LsStep, GrepStep, CatStep, SyserrStep,
     FreeStep, Zenon DEF UNext
<1>2. CASE UNCHANGED uvars
  <2>1. UNCHANGED dvars /\ UNCHANGED programs
    BY <1>2, Zenon DEF uvars, programs
  <2>2. DInv'
    BY <2>1, DInvStep DEF UInv
  <2>3. UNCHANGED <<file_array, command_global, read_directory_index>>
    BY <2>1, Zenon DEF dvars, files
  <2> QED BY <2>1, <2>2, <2>3, SamePrograms DEF Private
<1> QED BY <1>1, <1>2

\* The inductive invariant of the programs: what each of them relies on at its
\* place, whatever the programs of the other slots and terminals do.
THEOREM UInvHolds == USpec => []UInv
BY UInitInv, UInvStep, PTL DEF USpec

\* syserr, the repository's own test of the system calls, finds nothing wrong, for
\* every size of the file array, whoever had its slot before it and whatever runs
\* on the other terminals: each of its calls is refused or served as it demands,
\* and of the opens in err_open_lots exactly the last one is refused.
THEOREM SyserrPassesHolds == USpec => []SyserrPasses
<1>1. UInv => SyserrPasses
  BY DEF UInv, SlotInv, SyserrOK, SyserrPasses
<1> QED BY <1>1, UInvHolds, PTL

\* A listing of ls or grep that has the directory to itself and ends well has had
\* every entry once and in order, though read_directory_index is shared by all
\* processes and reset by nothing but reading to the end.
THEOREM ListsWholeDirectoryHolds == USpec => []ListsWholeDirectory
<1>1. ASSUME UInv PROVE ListsWholeDirectory
  <2>1. Cardinality(Entries) = NUM_DIRECTORY + 1
    <3>1. Entries = 0 .. NUM_DIRECTORY
      BY ImageAssumption
    <3>2. 0 \in Int /\ NUM_DIRECTORY \in Int /\ ~(0 > NUM_DIRECTORY)
      BY IndexAssumption
    <3>3. Cardinality(0 .. NUM_DIRECTORY) = NUM_DIRECTORY - 0 + 1
      BY <3>2, FS_Interval
    <3> QED BY <3>1, <3>2, <3>3
  <2>2. ASSUME NEW i \in Slots, Returned(i, "ls", 0) \/ Returned(i, "grep", 0), alone[i]
        PROVE  out[i] = [x \in 1 .. Cardinality(Entries) |-> x - 1]
    <3>1. ListingOK(pc[i], loc[i], out[i], read_directory_index)
      BY <1>1, <2>2 DEF UInv, ListingInv, Returned
    <3>2. out[i] = Listed(NUM_DIRECTORY + 1)
      BY <2>2, <3>1 DEF ListingOK, Returned
    <3> QED BY <2>1, <3>2 DEF Listed
  <2> QED BY <2>2 DEF ListsWholeDirectory
<1> QED BY <1>1, UInvHolds, PTL

\* grep, given a pattern, ends with 0: no open, read or close of it fails, however
\* many files the image has and whatever other listings do to the shared index,
\* because do_one_file closes what it opens.
THEOREM GrepNeverFailsHolds == GrepsHaveArguments => (USpec => []GrepNeverFails)
<1> SUFFICES ASSUME GrepsHaveArguments PROVE USpec => []GrepNeverFails
  OBVIOUS
<1>1. ASSUME UInv PROVE GrepNeverFails
  <2>1. ASSUME NEW i \in Slots, prog[i] = "grep", pc[i] = "halt" PROVE loc[i].status = 0
    <3>1. GrepOK("halt", loc[i], file_array[i], command_global[i])
      BY <1>1, <2>1 DEF UInv, SlotInv
    <3>2. /\ Len(command_global[i]) >= 2
          /\ loc[i].status = 0 \/ Len(command_global[i]) < 2
      BY <3>1 DEF GrepOK
    <3> QED BY <3>2
  <2>2. 0 # 2 /\ 0 # 3
    OBVIOUS
  <2> QED BY <2>1, <2>2 DEF GrepNeverFails, Returned
<1> QED BY <1>1, UInvHolds, PTL

\* cat prints the whole of the file on its own command line, or fails if there is
\* none, for every image and whatever commands and programs are started meanwhile:
\* its copy of the command (getargs) and its descriptor are its own.
THEOREM CatPrintsItsFileHolds == CatsReadFiles => (USpec => []CatPrintsItsFile)
<1> SUFFICES ASSUME CatsReadFiles PROVE USpec => []CatPrintsItsFile
  OBVIOUS
<1>1. ASSUME UInv PROVE CatPrintsItsFile
  <2>1. ASSUME NEW i \in Slots, prog[i] = "cat", pc[i] = "halt"
        PROVE  CatOK("halt", loc[i], file_array[i], command_global[i], typed[i])
    BY <1>1, <2>1 DEF UInv, SlotInv
  <2>2. \A i \in Slots :
            CatOK("halt", loc[i], file_array[i], command_global[i], typed[i]) =>
                IF Names(typed[i])
                THEN /\ loc[i].status = 0
                     /\ file_array[i][loc[i].fd].inode = Found(typed[i][2])
                     /\ loc[i].n = Directory[Found(typed[i][2])].length
                ELSE loc[i].status # 0
    BY Zenon DEF CatOK
  <2> QED BY <2>1, <2>2, Zenon DEF CatPrintsItsFile, Names
<1> QED BY <1>1, UInvHolds, PTL

\* Every step of the programs is one of FileDescriptors, of any call or status.
LEMMA StepIs ==
    UNext => \/ \E k : SYSTEM_CALL_ECE(k)
             \/ \E command : Execute(command)
             \/ \E s : Halt(s)
             \/ KernelStep
             \/ UNCHANGED dvars
<1>1. \A call, arg, nbytes : Do(call, arg, nbytes) => \E k : SYSTEM_CALL_ECE(k)
  BY Zenon DEF Do, Make
<1>2. \A k : Make(k) => SYSTEM_CALL_ECE(k)
  BY Zenon DEF Make
<1>3. Ls \/ Grep \/ Cat => \E k : SYSTEM_CALL_ECE(k)
  <2>1. \A at : GetArgs(at) => \E k : SYSTEM_CALL_ECE(k)
    <3>1. PICK size : size = 1024
      OBVIOUS
    <3>2. \A at : GetArgs(at) => Do("getargs", 0, size)
      BY <3>1, SMT DEF GetArgs
    <3> QED BY <1>1, <3>2, Zenon
  <2>2. OpenDirectory => \E k : SYSTEM_CALL_ECE(k)
    BY <1>1, Zenon DEF OpenDirectory
  <2>3. \A at, entry : NextEntry(at, entry) => \E k : SYSTEM_CALL_ECE(k)
    BY <1>1, Zenon DEF NextEntry
  <2>4. Ls => \E k : SYSTEM_CALL_ECE(k)
    BY <1>1, <2>2, <2>3, Zenon DEF Ls
  <2>5. do_one_file => \E k : SYSTEM_CALL_ECE(k)
    BY <1>1, Zenon DEF do_one_file
  <2>6. Grep => \E k : SYSTEM_CALL_ECE(k)
    BY <2>1, <2>2, <2>3, <2>5, Zenon DEF Grep
  <2>7. Cat => \E k : SYSTEM_CALL_ECE(k)
    <3>1. PICK size : size = 1024
      OBVIOUS
    <3>2. Cat => \/ \E at : GetArgs(at)
                 \/ Do("open", Argument[1], 0)
                 \/ Do("read", loc[me].fd, size)
                 \/ Do("write", 1, 0)
      BY <3>1, SMT DEF Cat
    <3> QED BY <1>1, <2>1, <3>2, Zenon
  <2> QED BY <2>4, <2>6, <2>7, Zenon
<1>4. Syserr => (\E k : SYSTEM_CALL_ECE(k)) \/ UNCHANGED dvars
  <2>1. RunTest => \E k : SYSTEM_CALL_ECE(k)
    BY <1>2, Zenon DEF RunTest
  <2> QED BY <1>1, <2>1, Zenon DEF Syserr
<1>5. Free => (\E k : SYSTEM_CALL_ECE(k)) \/ (\E s : Halt(s)) \/ UNCHANGED dvars
  BY <1>2, OverrunHalts, Zenon DEF Free
<1>6. Shell => (\E command : Execute(command)) \/ UNCHANGED dvars
  BY Zenon DEF Shell
<1>7. (_start => \E s : Halt(s)) /\ (Background => KernelStep)
  BY Zenon DEF _start, Background
<1> QED BY <1>3, <1>4, <1>5, <1>6, <1>7, Zenon DEF UNext

\* The programs of the image keep what DSpec promises of arbitrary calls: the types,
\* sound descriptors, no call through a null pointer, and descriptors and arguments
\* of other terminals' processes untouched, also with the calls of syserr that are
\* meant to be wrong.
THEOREM ProgramsKeepFiles ==
    USpec => /\ [](FilesTypeOK /\ DescriptorsSound /\ NoNullCall)
             /\ BackgroundFilesUntouched
<1>1. UInv => FilesTypeOK /\ DescriptorsSound /\ NoNullCall
  BY DEF UInv, DInv, FInv
<1>2. ASSUME UInv, [UNext /\ Healthy']_uvars
      PROVE  [buffer_flag' = buffer_flag =>
                 \A i \in Slots : flag[i] = 1 /\ terminalNumber[i] # buffer_flag =>
                                     Private(i)' = Private(i)]_dvars
  <2> SUFFICES ASSUME UNext, buffer_flag' = buffer_flag,
                      NEW i \in Slots, flag[i] = 1, terminalNumber[i] # buffer_flag
               PROVE  Private(i)' = Private(i) \/ UNCHANGED dvars
    BY <1>2, Zenon DEF uvars
  <2>1. Inv /\ Healthy /\ FInv /\ NoNullCall
    BY <1>2 DEF UInv, DInv
  <2>2. i # current_process_ID
    BY <2>1, CurrentSlot
  <2>3. ASSUME NEW k, SYSTEM_CALL_ECE(k) PROVE Private(i)' = Private(i)
    BY <2>1, <2>2, <2>3, CallPrivate DEF Private
  <2>4. ASSUME NEW command, Execute(command) PROVE Private(i)' = Private(i)
    BY <2>1, <2>2, <2>4, ExecuteKeeps
  <2>5. ASSUME NEW s, Halt(s) PROVE Private(i)' = Private(i)
    BY <2>1, <2>2, <2>5, HaltKeeps
  <2>6. ASSUME KernelStep PROVE Private(i)' = Private(i)
    BY <2>1, <2>6, KernelKeeps
  <2> QED BY <2>3, <2>4, <2>5, <2>6, StepIs, Zenon
<1> QED BY <1>1, <1>2, UInvHolds, PTL DEF USpec, BackgroundFilesUntouched
=============================================================================
