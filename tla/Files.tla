------------------------------- MODULE Files -------------------------------
(***************************************************************************)
(* The file descriptors of the processes: open(), close(), read() and      *)
(* write() of syscall.c, the descriptors of a new pcb, and the functions   *)
(* of file_system.c they call.                                             *)
(*                                                                         *)
(* A call works on the pcb of its caller and on that pcb's row of fops[],  *)
(* and reads an image that never changes.  It is one step, although it may *)
(* be interrupted, because no other process touches what it works on.      *)
(* What reads and writes of the terminal and of the clock do is in the     *)
(* modules LineInput and Rtc: they leave the descriptor as it is.          *)
(*                                                                         *)
(* A pcb and its row of fops[] stay in memory between two processes: only  *)
(* what new_pcb() and open() assign is new.                                *)
(***************************************************************************)
EXTENDS FileSystem

CONSTANTS
  Pids,           \* the pcb numbers
  PcbFileNumber,  \* PCB_FILE_NUMBER
  Entries,        \* the directory of the image
  Inodes,         \* its inodes
  Requests        \* the values of nbytes the programs use: none is negative
                  \* or more than their buffers hold

STDIN  == 0
STDOUT == 1
Fds    == 0 .. PcbFileNumber - 1
Opened == 2 .. PcbFileNumber - 1  \* from FD_START on

\* The image is one that open() can use: its files have one of the three types
\* and the regular ones have an inode.  An inode is one block, so that what it
\* can list is far from half of a uint32_t.
ASSUME FilesAssumption ==
  /\ PcbFileNumber \in Nat /\ PcbFileNumber > 2
  /\ Entries \in Seq([name : STRING, type : {"rtc", "directory", "regular"},
                      inode : Nat])
  /\ DOMAIN Inodes \subseteq Nat
  /\ Inodes \in [DOMAIN Inodes ->
                   [length : 0 .. (Word \div 2) - 1, blocks : Seq(Nat)]]
  /\ \A i \in DOMAIN Entries :
       Entries[i].type = "regular" => Entries[i].inode \in DOMAIN Inodes
  /\ Requests \subseteq 0 .. Room

Names == {Entries[i].name : i \in DOMAIN Entries}
NoInode == -1
NoEntry == [name |-> "", type |-> "", inode |-> 0]
Ops == {"", "stdin", "stdout", "rtc", "directory", "regular"}

VARIABLES
  live,       \* whether the pcb is in use
  file,       \* pcb_ptr[]->file[]
  fops,       \* fops[][]: the functions in a jump table, by their kind
  entry,      \* history: the entry a descriptor was opened with
  delivered,  \* history: what reads of an open descriptor have returned
  crossed     \* history: whether one of them went past the end of a block

vars == <<live, file, fops, entry, delivered, crossed>>
history == <<entry, delivered, crossed>>

TypeOK ==
  /\ live \subseteq Pids
  /\ file \in [Pids -> [Fds -> [fop_jump : Pids \X Fds \cup {<<>>},
                                inode : DOMAIN Inodes \cup {NoInode},
                                pos : Nat, flag : BOOLEAN]]]
  /\ fops \in [Pids \X Fds -> Ops]
  /\ entry \in [Pids -> [Fds -> {Dentry(Entries[i]) : i \in DOMAIN Entries}
                                  \cup {NoEntry}]]
  /\ crossed \in [Pids -> [Fds -> BOOLEAN]]

Init ==
  /\ live = {}
  /\ file = [p \in Pids |-> [fd \in Fds |->
       [fop_jump |-> <<>>, inode |-> NoInode, pos |-> 0, flag |-> FALSE]]]
  /\ fops = [j \in Pids \X Fds |-> ""]
  /\ entry = [p \in Pids |-> [fd \in Fds |-> NoEntry]]
  /\ delivered = [p \in Pids |-> [fd \in Fds |-> <<>>]]
  /\ crossed = [p \in Pids |-> [fd \in Fds |-> FALSE]]

Kind(p, fd) == fops[file[p][fd].fop_jump]
InUse(p, fd) == p \in live /\ file[p][fd].flag

Forget(p, fd) ==
  /\ entry' = [entry EXCEPT ![p][fd] = NoEntry]
  /\ delivered' = [delivered EXCEPT ![p][fd] = <<>>]
  /\ crossed' = [crossed EXCEPT ![p][fd] = FALSE]
-----------------------------------------------------------------------------
\* The files of new_pcb(): the standard streams, and nothing else in use.
\* Mutant: the flags of the last process in this pcb are kept.
Mutant_NewFiles(p) ==
  [fd \in Fds |->
     IF fd \in Opened THEN file[p][fd]
     ELSE [fop_jump |-> <<p, fd>>, inode |-> NoInode, pos |-> 0,
           flag |-> TRUE]]
NewFiles(p) ==
  [fd \in Fds |->
     IF fd \in Opened THEN [file[p][fd] EXCEPT !.flag = FALSE]
     ELSE [fop_jump |-> <<p, fd>>, inode |-> NoInode, pos |-> 0,
           flag |-> TRUE]]

NewPcb(p) ==
  /\ p \notin live
  /\ live' = live \cup {p}
  /\ file' = [file EXCEPT ![p] = NewFiles(p)]
  /\ fops' = [fops EXCEPT ![<<p, STDIN>>] = "stdin",
                          ![<<p, STDOUT>>] = "stdout"]
  /\ UNCHANGED history

\* The loop of halt() calls close() for the descriptors that are not in use,
\* for which close() returns -1.  Those in use stay in use in the dead pcb.
Halt(p) ==
  /\ p \in live
  /\ live' = live \ {p}
  /\ entry' = [entry EXCEPT ![p] = [fd \in Fds |-> NoEntry]]
  /\ delivered' = [delivered EXCEPT ![p] = [fd \in Fds |-> <<>>]]
  /\ crossed' = [crossed EXCEPT ![p] = [fd \in Fds |-> FALSE]]
  /\ UNCHANGED <<file, fops>>

\* open() takes the first free descriptor.  Without one, or for a name that is
\* not in the directory, it returns -1 and nothing changes.
VacantFd(p, fd) ==
  /\ ~file[p][fd].flag
  /\ \A k \in Opened : k < fd => file[p][k].flag

\* Mutants: the old position is kept; the boot block is forgotten when the
\* inode pointer is turned into a number.
Mutant_OpenFile2(p, fd, dentry) ==
  [file[p][fd] EXCEPT !.fop_jump = <<p, fd>>,
     !.inode = IF dentry.type = "regular" THEN dentry.inode ELSE NoInode,
     !.flag = TRUE]
Mutant_OpenFile3(p, fd, dentry) ==
  [fop_jump |-> <<p, fd>>,
   inode |-> IF dentry.type = "regular" THEN dentry.inode + 1 ELSE NoInode,
   pos |-> 0,
   flag |-> TRUE]
OpenFile(p, fd, dentry) ==
  [fop_jump |-> <<p, fd>>,
   inode |-> IF dentry.type = "regular" THEN dentry.inode ELSE NoInode,
   pos |-> 0,
   flag |-> TRUE]

Open(p, name) ==
  /\ p \in live
  /\ HasName(Entries, name)
  /\ \E fd \in Opened :
       LET dentry == ReadDentryByName(Entries, name)
           opened == OpenFile(p, fd, dentry)
       IN /\ VacantFd(p, fd)
          /\ file' = [file EXCEPT ![p][fd] = opened]
          /\ fops' = [fops EXCEPT ![opened.fop_jump] = dentry.type]
          /\ entry' = [entry EXCEPT ![p][fd] = dentry]
          /\ UNCHANGED <<live, delivered, crossed>>

\* close().  It fails for the standard streams and for a free descriptor.
Close(p, fd) ==
  /\ InUse(p, fd) /\ fd \in Opened
  /\ file' = [file EXCEPT ![p][fd].flag = FALSE]
  /\ Forget(p, fd)
  /\ UNCHANGED <<live, fops>>

-----------------------------------------------------------------------------
(* read().  Reads that return 0 or -1 change nothing.                      *)

Deliver(p, fd, s) == delivered' = [delivered EXCEPT ![p][fd] = @ \o s]

\* read_file().
ReadFile(p, fd, nbytes) ==
  LET inode  == file[p][fd].inode
      pos    == file[p][fd].pos
      result == ReadData(Inodes, inode, pos, nbytes)
  IN /\ InUse(p, fd) /\ Kind(p, fd) = "regular"
     /\ result.returns /\ result.ret > 0
     /\ file' = [file EXCEPT ![p][fd].pos = @ + result.ret]
     /\ Deliver(p, fd, result.buf)
     /\ crossed' = [crossed EXCEPT ![p][fd] =
                      @ \/ (pos % BlockSize) + result.ret > BlockSize]
     /\ UNCHANGED <<live, fops, entry>>

\* directory_read(): the name of the next entry.  nbytes is not looked at.
NextDentry(pos) == ReadDentryByIndex(Entries, pos)

DirectoryRead(p, fd) ==
  LET pos == file[p][fd].pos
  IN /\ InUse(p, fd) /\ Kind(p, fd) = "directory"
     /\ pos < Len(Entries)
     /\ file' = [file EXCEPT ![p][fd].pos = @ + 1]
     /\ Deliver(p, fd, <<NextDentry(pos).name>>)
     /\ UNCHANGED <<live, fops, entry, crossed>>

Next ==
  \E p \in Pids :
    \/ NewPcb(p)
    \/ Halt(p)
    \/ \E name \in Names : Open(p, name)
    \/ \E fd \in Fds : Close(p, fd) \/ DirectoryRead(p, fd)
    \/ \E fd \in Fds, nbytes \in Requests : ReadFile(p, fd, nbytes)

Spec == Init /\ [][Next]_vars
-----------------------------------------------------------------------------
\* The descriptors of a live process are the standard streams and those that
\* it has opened itself, each with the functions and the inode of the file it
\* was opened with, whatever other processes and the last owner of the pcb,
\* whose descriptors halt() never closes, have opened in the same places.
DescriptorIsOpenedFile ==
  \A p \in live :
    /\ InUse(p, STDIN) /\ Kind(p, STDIN) = "stdin"
    /\ InUse(p, STDOUT) /\ Kind(p, STDOUT) = "stdout"
    /\ \A fd \in Opened :
         /\ InUse(p, fd) <=> entry[p][fd] # NoEntry
         /\ InUse(p, fd) => Kind(p, fd) = entry[p][fd].type
         /\ InUse(p, fd) /\ entry[p][fd].type = "regular" =>
              file[p][fd].inode = entry[p][fd].inode

\* Those of a regular file return the file from its beginning, as long as none
\* of them goes past the end of a block, and in any case the position is how
\* many bytes they have returned.
ReadsReturnFile ==
  \A p \in live, fd \in Opened :
    InUse(p, fd) /\ entry[p][fd].type = "regular" =>
      LET content == Content(Inodes[entry[p][fd].inode])
      IN /\ file[p][fd].pos = Len(delivered[p][fd])
         /\ file[p][fd].pos <= Len(content)
         /\ ~crossed[p][fd] => IsPrefix(delivered[p][fd], content)

\* Those of a directory list its entries in order, each of them once.
ReadsListDirectory ==
  \A p \in live, fd \in Opened :
    InUse(p, fd) /\ entry[p][fd].type = "directory" =>
      IsPrefix(delivered[p][fd], [i \in DOMAIN Entries |-> Entries[i].name])

\* The reads of an open descriptor go on, one after the other, where the last
\* one stopped, from the beginning of what the descriptor was opened for:
\* whatever was open in this place before, in this process or the one that
\* had the pcb before it, has left neither its position nor its inode.
ReadsGoOn == ReadsReturnFile /\ ReadsListDirectory
=============================================================================
