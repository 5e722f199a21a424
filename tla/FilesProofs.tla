---------------------------- MODULE FilesProofs ----------------------------
(***************************************************************************)
(* The file descriptors, for any number of pcbs and descriptors, any image *)
(* that open() can use, and any requests.                                  *)
(*                                                                         *)
(* The descriptors of a dead pcb keep their flags, and its row of fops[]   *)
(* keeps its functions.  The argument is that no live process looks at     *)
(* them: what new_pcb() and open() assign is all that read() needs, and a  *)
(* jump table is only ever reached through the descriptor it belongs to.   *)
(*                                                                         *)
(* The last part is about single calls of read_data() and loader(), on any *)
(* file of an image, for any size of a block and of a word.                *)
(***************************************************************************)
EXTENDS MCFiles, SequenceTheorems, WellFoundedInduction, TLAPS

\* The standard streams of a live process, in its own row of fops[].
Streams ==
  \A p \in live :
    /\ file[p][STDIN].flag /\ file[p][STDIN].fop_jump = <<p, STDIN>>
    /\ file[p][STDOUT].flag /\ file[p][STDOUT].fop_jump = <<p, STDOUT>>
    /\ fops[<<p, STDIN>>] = "stdin" /\ fops[<<p, STDOUT>>] = "stdout"

\* A descriptor in use has the jump table in its own place, and there the
\* functions of what it was opened with.
OpenedFile(p, fd) ==
  /\ entry[p][fd] # NoEntry
  /\ file[p][fd].fop_jump = <<p, fd>>
  /\ fops[<<p, fd>>] = entry[p][fd].type
  /\ entry[p][fd].type = "regular" =>
       file[p][fd].inode = entry[p][fd].inode

Descriptors ==
  \A p \in live, fd \in Opened :
    IF file[p][fd].flag THEN OpenedFile(p, fd) ELSE entry[p][fd] = NoEntry

\* Nothing is remembered of a descriptor that is not in use.
Forgotten ==
  /\ delivered = [p \in Pids |-> [fd \in Fds |-> delivered[p][fd]]]
  /\ \A p \in Pids, fd \in Fds :
       /\ p \notin live \/ fd \notin Opened => entry[p][fd] = NoEntry
       /\ entry[p][fd] = NoEntry =>
            delivered[p][fd] = <<>> /\ crossed[p][fd] = FALSE

\* What reads deliver: bytes of a file, or names of the directory.
DeliveredType(p, fd) ==
  delivered[p][fd] \in IF entry[p][fd].type = "directory"
                       THEN Seq(Names) ELSE Seq(Int)

\* ReadsGoOn for one descriptor.  The position of a directory, too, counts what
\* was delivered.
DirectoryNames == [i \in DOMAIN Entries |-> Entries[i].name]

FileRead(p, fd) ==
  entry[p][fd].type = "regular" =>
    LET content == Content(Inodes[entry[p][fd].inode])
    IN /\ file[p][fd].pos = Len(delivered[p][fd])
       /\ file[p][fd].pos <= Len(content)
       /\ ~crossed[p][fd] => IsPrefix(delivered[p][fd], content)

DirectoryListed(p, fd) ==
  entry[p][fd].type = "directory" =>
    /\ file[p][fd].pos = Len(delivered[p][fd])
    /\ IsPrefix(delivered[p][fd], DirectoryNames)

DescriptorInv == TypeOK /\ Streams /\ Descriptors /\ Forgotten
ReadInv ==
  /\ \A p \in Pids, fd \in Fds : DeliveredType(p, fd)
  /\ \A p \in live, fd \in Opened :
       file[p][fd].flag => FileRead(p, fd) /\ DirectoryListed(p, fd)

-----------------------------------------------------------------------------
(* The image and the descriptors' places.                                  *)

\* Quotients and remainders.
LEMMA Division ==
  ASSUME NEW a \in Nat, NEW b \in Nat \ {0}
  PROVE  /\ a \div b \in Nat /\ a % b \in 0 .. b - 1
         /\ a = (a \div b) * b + (a % b)
OBVIOUS

LEMMA DivisionIsUnique ==
  ASSUME NEW b \in Nat \ {0}, NEW q \in Nat, NEW r \in 0 .. b - 1,
         NEW a \in Nat, a = q * b + r
  PROVE  a \div b = q /\ a % b = r
OBVIOUS

LEMMA SmallDivision ==
  ASSUME NEW b \in Nat \ {0}, NEW a \in 0 .. b - 1
  PROVE  a \div b = 0 /\ a % b = a
OBVIOUS

FileTypes == {"rtc", "directory", "regular"}
Dentries == {Dentry(Entries[i]) : i \in DOMAIN Entries}

LEMMA PlacesOfFds ==
  /\ STDIN \in Fds /\ STDOUT \in Fds /\ STDIN # STDOUT
  /\ Opened \subseteq Fds /\ STDIN \notin Opened /\ STDOUT \notin Opened
  /\ \A fd \in Fds : fd \in Opened \/ fd = STDIN \/ fd = STDOUT
BY FilesAssumption DEF STDIN, STDOUT, Fds, Opened

LEMMA DentryIsUsable ==
  ASSUME NEW d \in Dentries
  PROVE  /\ d.type \in FileTypes /\ d # NoEntry
         /\ d.type = "regular" => d.inode \in DOMAIN Inodes
<1>1. PICK i \in DOMAIN Entries : d = Dentry(Entries[i])
  BY DEF Dentries
<1>2. Entries[i] \in [name : STRING, type : FileTypes, inode : Nat]
  <2> DEFINE S == [name : STRING, type : FileTypes, inode : Nat]
  <2>1. Entries \in Seq(S)
    BY FilesAssumption DEF FileTypes
  <2> HIDE DEF S
  <2>2. Entries[i] \in S
    BY <2>1
  <2> QED BY <2>2 DEF S
<1>3. /\ d.type = Entries[i].type
      /\ d.inode = IF Entries[i].type = "regular" THEN Entries[i].inode ELSE 0
  BY <1>1, <1>2 DEF Dentry
<1>4. d.type \in FileTypes
  BY <1>2, <1>3
<1>5. d # NoEntry
  <2>1. NoEntry.type = "" /\ "" \notin FileTypes
    BY DEF FileTypes, NoEntry
  <2> QED BY <1>4, <2>1
<1> QED BY <1>3, <1>4, <1>5, FilesAssumption

\* A set of numbers that is not empty has a least one.
LEMMA LeastNat ==
  ASSUME NEW T, T \subseteq Nat, T # {}
  PROVE  \E n \in T : \A m \in T : n <= m
<1>1. PICK n \in T : \A m \in T : ~ (<<m, n>> \in OpToRel(<, Nat))
  BY NatLessThanWellFounded, WFMin, Zenon
<1>2. \A m \in T : ~ m < n
  BY <1>1, Zenon DEF OpToRel
<1> QED BY <1>2

\* A name that is in the directory leads to one of its entries.
LEMMA NameIsFound ==
  ASSUME NEW name, HasName(Entries, name)
  PROVE  ReadDentryByName(Entries, name) \in Dentries
<1> DEFINE T == {i \in DOMAIN Entries : Entries[i].name = name}
<1>1. T \subseteq Nat /\ T # {}
  BY FilesAssumption DEF HasName
<1>2. PICK i \in T : \A m \in T : i <= m
  BY <1>1, LeastNat
<1>3. \A k \in 1 .. i - 1 : Entries[k].name # name
  <2>1. PICK n \in Nat : n = Len(Entries) /\ DOMAIN Entries = 1 .. n
    BY FilesAssumption
  <2>2. ASSUME NEW k \in 1 .. i - 1 PROVE k \in DOMAIN Entries /\ ~ i <= k
    BY <1>1, <2>1
  <2> QED BY <1>2, <2>2
<1> DEFINE first == CHOOSE j \in DOMAIN Entries :
                      /\ Entries[j].name = name
                      /\ \A k \in 1 .. j - 1 : Entries[k].name # name
<1>4. first \in DOMAIN Entries
  BY <1>2, <1>3
<1>5. ReadDentryByName(Entries, name) = Dentry(Entries[first])
  BY Zenon DEF ReadDentryByName
<1> HIDE DEF first
<1> QED BY <1>4, <1>5 DEF Dentries

\* One cell, or one row, of an array of descriptors changes.
LEMMA CellChanges ==
  ASSUME NEW S, NEW f \in [Pids -> [Fds -> S]], NEW p \in Pids,
         NEW fd \in Fds, NEW x \in S
  PROVE  LET g == [f EXCEPT ![p][fd] = x]
         IN /\ g \in [Pids -> [Fds -> S]]
            /\ g[p][fd] = x
            /\ \A q \in Pids, k \in Fds :
                 q # p \/ k # fd => g[q][k] = f[q][k]
OBVIOUS

LEMMA RowChanges ==
  ASSUME NEW S, NEW f \in [Pids -> [Fds -> S]], NEW p \in Pids,
         NEW r \in [Fds -> S]
  PROVE  LET g == [f EXCEPT ![p] = r]
         IN /\ g \in [Pids -> [Fds -> S]]
            /\ g[p] = r
            /\ \A q \in Pids : q # p => g[q] = f[q]
OBVIOUS

-----------------------------------------------------------------------------
(* What read_data() returns.                                               *)

InodeType == [length : Nat, blocks : Seq(Nat)]

LEMMA InodesType ==
  ASSUME NEW inode \in DOMAIN Inodes
  PROVE  Inodes[inode] \in InodeType /\ Inodes[inode].length < Word \div 2
<1> DEFINE S == [length : 0 .. (Word \div 2) - 1, blocks : Seq(Nat)]
<1>1. Inodes[inode] \in S
  BY FilesAssumption
<1>2. Word \div 2 \in Nat
  BY FileSystemAssumption
<1> QED BY <1>1, <1>2 DEF InodeType

\* A read that returns something has copied what is left or what was asked
\* for, whichever is less: the sum of the two does not wrap.
LEMMA ReadDataCopies ==
  ASSUME NEW inode, NEW pos \in Nat, NEW nbytes \in Requests,
         ReadData(Inodes, inode, pos, nbytes).ret > 0
  PROVE  LET node == Inodes[inode]
             n   == Cut(node, pos, nbytes)
         IN /\ inode \in DOMAIN Inodes
            /\ n \in Nat \ {0} /\ pos + n <= node.length
            /\ ReadData(Inodes, inode, pos, nbytes)
                 = Returns(n, Copied(node, pos, n))
<1> DEFINE node == Inodes[inode]
           n   == Cut(node, pos, nbytes)
           result == ReadData(Inodes, inode, pos, nbytes)
<1>1. inode \in DOMAIN Inodes
  BY DEF ReadData, Failure, Returns
<1>2. PICK len \in 0 .. (Word \div 2) - 1, l \in Nat :
        /\ node.length = len
        /\ node.blocks \in Seq(Nat) /\ l = Len(node.blocks)
  <2>1. node \in InodeType /\ node.length < Word \div 2
    BY <1>1, InodesType
  <2>2. Word \div 2 \in Nat
    BY FileSystemAssumption
  <2> QED BY <2>1, <2>2 DEF InodeType
<1>3. pos < len
  <2>1. pos >= len => result.ret = 0
    BY <1>1, <1>2 DEF ReadData, Returns
  <2> QED BY <1>2, <2>1
<1>4. (nbytes + pos) % Word = nbytes + pos /\ nbytes \in Nat
  <2>1. nbytes \in 0 .. (Word \div 2) - 1
    <3>1. nbytes \in 0 .. Room
      BY FilesAssumption
    <3>2. Room \in Nat /\ Word \div 2 \in Nat /\ Room < Word \div 2
      BY FileSystemAssumption
    <3> QED BY <3>1, <3>2
  <2>2. Word \div 2 \in Nat /\ 2 * (Word \div 2) <= Word
    BY FileSystemAssumption
  <2>3. nbytes + pos \in 0 .. Word - 1
    BY <1>2, <1>3, <2>1, <2>2, FileSystemAssumption
  <2>4. (nbytes + pos) % Word = nbytes + pos
    BY <2>3, SmallDivision, FileSystemAssumption
  <2> QED BY <2>1, <2>4
<1>5. n \in Nat /\ pos + n <= len
  BY <1>2, <1>3, <1>4 DEF Cut
<1>6. Int32(n) = n
  <2>1. Word \div 2 \in Nat
    BY FileSystemAssumption
  <2>2. n \in Nat /\ ~ n >= Word \div 2
    BY <1>2, <1>5, <2>1
  <2> HIDE DEF n
  <2> QED BY <2>2 DEF Int32
<1>7. result = Returns(n, Copied(node, pos, n))
  <2> DEFINE b == BlockNumber(node, pos \div BlockSize)
  <2>1. ~ pos >= node.length
    BY <1>2, <1>3
  <2>2. result = IF b >= NumBlocks THEN Failure
                 ELSE IF n > Room THEN Exception
                 ELSE Returns(Int32(n), Copied(node, pos, n))
    BY <1>1, <2>1 DEF ReadData
  <2>3. result # Failure /\ result # Exception
    BY DEF Failure, Exception, Returns
  <2> HIDE DEF result, n, b
  <2> QED BY <1>6, <2>2, <2>3
<1>8. n # 0
  <2>1. result.ret = n
    BY <1>7 DEF Returns
  <2> HIDE DEF result, n
  <2> QED BY <1>5, <2>1 DEF result
<1> QED BY <1>1, <1>2, <1>5, <1>7, <1>8

-----------------------------------------------------------------------------
(* The types and the descriptors.                                          *)

FileStruct == [fop_jump : Pids \X Fds \cup {<<>>},
               inode : DOMAIN Inodes \cup {NoInode},
               pos : Nat, flag : BOOLEAN]

LEMMA TypesOf ==
  TypeOK <=> /\ live \subseteq Pids
             /\ file \in [Pids -> [Fds -> FileStruct]]
             /\ fops \in [Pids \X Fds -> Ops]
             /\ entry \in [Pids -> [Fds -> Dentries \cup {NoEntry}]]
             /\ crossed \in [Pids -> [Fds -> BOOLEAN]]
BY DEF TypeOK, FileStruct, Dentries

LEMMA DescriptorInit == Init => DescriptorInv
<1> SUFFICES ASSUME Init PROVE DescriptorInv
  OBVIOUS
<1>1. TypeOK
  <2>1. [fop_jump |-> <<>>, inode |-> NoInode, pos |-> 0, flag |-> FALSE]
          \in FileStruct
    BY DEF FileStruct
  <2>2. "" \in Ops
    BY DEF Ops
  <2> QED BY <2>1, <2>2, TypesOf DEF Init
<1>2. Streams /\ Descriptors /\ Forgotten
  BY PlacesOfFds DEF Init, Streams, Descriptors, Forgotten
<1> QED BY <1>1, <1>2 DEF DescriptorInv

\* A new process: whatever its pcb and its row of fops[] were used for.
LEMMA NewPcbDescriptors ==
  ASSUME DescriptorInv, NEW p \in Pids, NewPcb(p)
  PROVE  DescriptorInv'
<1> USE PlacesOfFds, TypesOf
<1>1. TypeOK /\ Streams /\ Descriptors /\ Forgotten
  BY DEF DescriptorInv
<1>2. /\ p \notin live /\ live' = live \cup {p}
      /\ file' = [file EXCEPT ![p] = NewFiles(p)]
      /\ fops' = [fops EXCEPT ![<<p, STDIN>>] = "stdin",
                              ![<<p, STDOUT>>] = "stdout"]
      /\ UNCHANGED <<entry, delivered, crossed>>
  BY DEF NewPcb, history
<1>3. NewFiles(p) \in [Fds -> FileStruct]
  <2> SUFFICES ASSUME NEW fd \in Fds PROVE NewFiles(p)[fd] \in FileStruct
    BY DEF NewFiles
  <2>1. CASE fd \in Opened
    <3>1. file[p][fd] \in FileStruct
      BY <1>1
    <3>2. NewFiles(p)[fd] = [file[p][fd] EXCEPT !.flag = FALSE]
      BY <2>1 DEF NewFiles
    <3> QED BY <3>1, <3>2 DEF FileStruct
  <2>2. CASE fd \notin Opened
    <3>1. NewFiles(p)[fd] = [fop_jump |-> <<p, fd>>, inode |-> NoInode,
                             pos |-> 0, flag |-> TRUE]
      BY <2>2 DEF NewFiles
    <3> QED BY <3>1 DEF FileStruct
  <2> QED BY <2>1, <2>2
<1>4. /\ file' \in [Pids -> [Fds -> FileStruct]]
      /\ file'[p] = NewFiles(p)
      /\ \A q \in Pids : q # p => file'[q] = file[q]
  BY <1>1, <1>2, <1>3
<1>5. /\ fops' \in [Pids \X Fds -> Ops]
      /\ fops'[<<p, STDIN>>] = "stdin" /\ fops'[<<p, STDOUT>>] = "stdout"
      /\ \A q \in Pids, fd \in Fds :
           q # p \/ fd \in Opened => fops'[<<q, fd>>] = fops[<<q, fd>>]
  <2>1. "stdin" \in Ops /\ "stdout" \in Ops
    BY DEF Ops
  <2> QED BY <1>1, <1>2, <2>1
<1>6. TypeOK'
  <2>1. live' \subseteq Pids
    BY <1>1, <1>2
  <2> QED BY <1>1, <1>2, <1>4, <1>5, <2>1 DEF TypeOK, FileStruct
<1>7. Streams'
  <2> SUFFICES ASSUME NEW q \in live'
               PROVE  /\ file'[q][STDIN].flag
                      /\ file'[q][STDIN].fop_jump = <<q, STDIN>>
                      /\ file'[q][STDOUT].flag
                      /\ file'[q][STDOUT].fop_jump = <<q, STDOUT>>
                      /\ fops'[<<q, STDIN>>] = "stdin"
                      /\ fops'[<<q, STDOUT>>] = "stdout"
    BY DEF Streams
  <2>1. CASE q = p
    BY <1>4, <1>5, <2>1 DEF NewFiles
  <2>2. CASE q # p
    <3>1. q \in live /\ q \in Pids
      BY <1>1, <1>2, <2>2
    <3> QED BY <1>1, <1>4, <1>5, <2>2, <3>1 DEF Streams
  <2> QED BY <2>1, <2>2
<1>8. Descriptors'
  <2> SUFFICES ASSUME NEW q \in live', NEW fd \in Opened
               PROVE  IF file'[q][fd].flag THEN OpenedFile(q, fd)'
                                           ELSE entry'[q][fd] = NoEntry
    BY DEF Descriptors
  <2>1. CASE q = p
    <3>1. file[p][fd] \in FileStruct
      BY <1>1
    <3>2. ~ file'[p][fd].flag
      BY <1>4, <3>1 DEF NewFiles, FileStruct
    <3> QED BY <1>1, <1>2, <2>1, <3>2 DEF Forgotten
  <2>2. CASE q # p
    <3>1. q \in live /\ q \in Pids
      BY <1>1, <1>2, <2>2
    <3>2. file'[q][fd] = file[q][fd] /\ fops'[<<q, fd>>] = fops[<<q, fd>>]
      BY <1>4, <1>5, <2>2, <3>1
    <3> QED BY <1>1, <1>2, <3>1, <3>2 DEF Descriptors, OpenedFile
  <2> QED BY <2>1, <2>2
<1>9. Forgotten'
  BY <1>1, <1>2 DEF Forgotten
<1> QED BY <1>6, <1>7, <1>8, <1>9 DEF DescriptorInv

\* halt() leaves the descriptors of the pcb as they are.
LEMMA HaltDescriptors ==
  ASSUME DescriptorInv, NEW p \in Pids, Halt(p)
  PROVE  DescriptorInv'
<1> USE PlacesOfFds, TypesOf
<1>1. TypeOK /\ Streams /\ Descriptors /\ Forgotten
  BY DEF DescriptorInv
<1>2. /\ live' = live \ {p} /\ file' = file /\ fops' = fops
      /\ entry' = [entry EXCEPT ![p] = [fd \in Fds |-> NoEntry]]
      /\ delivered' = [delivered EXCEPT ![p] = [fd \in Fds |-> <<>>]]
      /\ crossed' = [crossed EXCEPT ![p] = [fd \in Fds |-> FALSE]]
  BY DEF Halt
<1>3. TypeOK'
  BY <1>1, <1>2 DEF TypeOK
<1>4. Streams'
  BY <1>1, <1>2 DEF Streams
<1>5. Descriptors'
  BY <1>1, <1>2 DEF Descriptors, OpenedFile
<1>6. Forgotten'
  <2>1. delivered' = [q \in Pids |-> [fd \in Fds |-> delivered'[q][fd]]]
    BY <1>1, <1>2 DEF Forgotten
  <2>2. ASSUME NEW q \in Pids, NEW fd \in Fds
        PROVE  /\ q \notin live' \/ fd \notin Opened => entry'[q][fd] = NoEntry
               /\ entry'[q][fd] = NoEntry =>
                    delivered'[q][fd] = <<>> /\ crossed'[q][fd] = FALSE
    <3>1. CASE q = p
      BY <1>1, <1>2, <3>1 DEF Forgotten
    <3>2. CASE q # p
      BY <1>1, <1>2, <3>2 DEF Forgotten
    <3> QED BY <3>1, <3>2
  <2> QED BY <2>1, <2>2 DEF Forgotten
<1> QED BY <1>3, <1>4, <1>5, <1>6 DEF DescriptorInv

\* What is not touched stays as it should be.
LEMMA StreamsStay ==
  ASSUME TypeOK, Streams, live' \subseteq live,
         \A q \in live, k \in {STDIN, STDOUT} :
           /\ file'[q][k].flag = file[q][k].flag
           /\ file'[q][k].fop_jump = file[q][k].fop_jump
           /\ fops'[<<q, k>>] = fops[<<q, k>>]
  PROVE  Streams'
BY DEF Streams

\* open(): the jump table it fills is in the place of the descriptor it takes.
LEMMA OpenDescriptors ==
  ASSUME DescriptorInv, NEW p \in Pids, NEW name \in Names, Open(p, name)
  PROVE  DescriptorInv'
<1> USE PlacesOfFds, TypesOf
<1>1. TypeOK /\ Streams /\ Descriptors /\ Forgotten
  BY DEF DescriptorInv
<1> DEFINE d == ReadDentryByName(Entries, name)
<1>2. HasName(Entries, name) /\ p \in live
  BY DEF Open
<1>3. d \in Dentries
  BY <1>2, NameIsFound
<1>4. /\ d.type \in FileTypes /\ d # NoEntry
      /\ d.type = "regular" => d.inode \in DOMAIN Inodes
  BY <1>3, DentryIsUsable
<1>5. PICK fd \in Opened :
        /\ VacantFd(p, fd)
        /\ file' = [file EXCEPT ![p][fd] = OpenFile(p, fd, d)]
        /\ fops' = [fops EXCEPT ![OpenFile(p, fd, d).fop_jump] = d.type]
        /\ entry' = [entry EXCEPT ![p][fd] = d]
        /\ UNCHANGED <<live, delivered, crossed>>
  BY DEF Open
<1> HIDE DEF d
<1> DEFINE new == OpenFile(p, fd, d)
<1>6. /\ new \in FileStruct
      /\ new.flag /\ new.fop_jump = <<p, fd>>
      /\ d.type = "regular" => new.inode = d.inode
  BY <1>4 DEF OpenFile, FileStruct
<1>7. /\ file' \in [Pids -> [Fds -> FileStruct]]
      /\ file'[p][fd] = new
      /\ \A q \in Pids, k \in Fds :
           q # p \/ k # fd => file'[q][k] = file[q][k]
  <2> HIDE DEF new
  <2> QED BY <1>1, <1>5, <1>6, CellChanges DEF new
<1>8. /\ entry' \in [Pids -> [Fds -> Dentries \cup {NoEntry}]]
      /\ entry'[p][fd] = d
      /\ \A q \in Pids, k \in Fds :
           q # p \/ k # fd => entry'[q][k] = entry[q][k]
  BY <1>1, <1>3, <1>5, CellChanges
<1>9. /\ fops' \in [Pids \X Fds -> Ops]
      /\ fops'[<<p, fd>>] = d.type
      /\ \A q \in Pids, k \in Fds :
           q # p \/ k # fd => fops'[<<q, k>>] = fops[<<q, k>>]
  <2>1. fops' = [fops EXCEPT ![<<p, fd>>] = d.type]
    BY <1>5, <1>6
  <2>2. d.type \in Ops
    BY <1>4 DEF FileTypes, Ops
  <2> QED BY <1>1, <2>1, <2>2
<1> HIDE DEF new
<1>10. TypeOK'
  BY <1>1, <1>5, <1>7, <1>8, <1>9 DEF TypeOK, FileStruct, Dentries
<1>11. Streams'
  <2>1. \A q \in live, k \in {STDIN, STDOUT} :
          file'[q][k] = file[q][k] /\ fops'[<<q, k>>] = fops[<<q, k>>]
    BY <1>1, <1>7, <1>9
  <2> QED BY <1>1, <1>5, <2>1, StreamsStay
<1>12. Descriptors'
  <2> SUFFICES ASSUME NEW q \in live', NEW k \in Opened
               PROVE  IF file'[q][k].flag THEN OpenedFile(q, k)'
                                          ELSE entry'[q][k] = NoEntry
    BY DEF Descriptors
  <2>1. CASE q = p /\ k = fd
    BY <1>4, <1>6, <1>7, <1>8, <1>9, <2>1 DEF OpenedFile
  <2>2. CASE ~ (q = p /\ k = fd)
    <3>1. q \in live /\ q \in Pids
      BY <1>1, <1>5
    <3>2. /\ file'[q][k] = file[q][k] /\ entry'[q][k] = entry[q][k]
          /\ fops'[<<q, k>>] = fops[<<q, k>>]
      BY <1>7, <1>8, <1>9, <2>2, <3>1
    <3> QED BY <1>1, <3>1, <3>2 DEF Descriptors, OpenedFile
  <2> QED BY <2>1, <2>2
<1>13. Forgotten'
  <2>1. delivered' = [q \in Pids |-> [k \in Fds |-> delivered'[q][k]]]
    BY <1>1, <1>5 DEF Forgotten
  <2>2. ASSUME NEW q \in Pids, NEW k \in Fds
        PROVE  /\ q \notin live' \/ k \notin Opened => entry'[q][k] = NoEntry
               /\ entry'[q][k] = NoEntry =>
                    delivered'[q][k] = <<>> /\ crossed'[q][k] = FALSE
    <3>1. CASE q = p /\ k = fd
      BY <1>2, <1>4, <1>5, <1>8, <3>1
    <3>2. CASE ~ (q = p /\ k = fd)
      <4>1. entry'[q][k] = entry[q][k]
        BY <1>8, <3>2
      <4> QED BY <1>1, <1>5, <4>1 DEF Forgotten
    <3> QED BY <3>1, <3>2
  <2> QED BY <2>1, <2>2 DEF Forgotten
<1> QED BY <1>10, <1>11, <1>12, <1>13 DEF DescriptorInv

\* close() frees the descriptor and leaves its jump table behind.
LEMMA CloseDescriptors ==
  ASSUME DescriptorInv, NEW p \in Pids, NEW fd \in Fds, Close(p, fd)
  PROVE  DescriptorInv'
<1> USE PlacesOfFds, TypesOf
<1>1. TypeOK /\ Streams /\ Descriptors /\ Forgotten
  BY DEF DescriptorInv
<1>2. /\ p \in live /\ fd \in Opened
      /\ file' = [file EXCEPT ![p][fd].flag = FALSE]
      /\ entry' = [entry EXCEPT ![p][fd] = NoEntry]
      /\ delivered' = [delivered EXCEPT ![p][fd] = <<>>]
      /\ crossed' = [crossed EXCEPT ![p][fd] = FALSE]
      /\ UNCHANGED <<live, fops>>
  BY DEF Close, InUse, Forget
<1>3. /\ file' \in [Pids -> [Fds -> FileStruct]]
      /\ ~ file'[p][fd].flag
      /\ \A q \in Pids, k \in Fds :
           q # p \/ k # fd => file'[q][k] = file[q][k]
  <2> DEFINE new == [file[p][fd] EXCEPT !.flag = FALSE]
  <2>1. file[p][fd] \in FileStruct
    BY <1>1
  <2>2. new \in FileStruct /\ ~ new.flag
    BY <2>1 DEF FileStruct
  <2>3. file' = [file EXCEPT ![p][fd] = new]
    BY <1>1, <1>2
  <2> HIDE DEF new
  <2> QED BY <1>1, <2>2, <2>3, CellChanges
<1>4. /\ entry' \in [Pids -> [Fds -> Dentries \cup {NoEntry}]]
      /\ entry'[p][fd] = NoEntry
      /\ \A q \in Pids, k \in Fds :
           q # p \/ k # fd => entry'[q][k] = entry[q][k]
  BY <1>1, <1>2, CellChanges
<1>5. /\ crossed' \in [Pids -> [Fds -> BOOLEAN]]
      /\ crossed'[p][fd] = FALSE
      /\ \A q \in Pids, k \in Fds :
           q # p \/ k # fd => crossed'[q][k] = crossed[q][k]
  BY <1>1, <1>2
<1>6. /\ delivered' = [q \in Pids |-> [k \in Fds |-> delivered'[q][k]]]
      /\ delivered'[p][fd] = <<>>
      /\ \A q \in Pids, k \in Fds :
           q # p \/ k # fd => delivered'[q][k] = delivered[q][k]
  BY ZenonT(60), <1>1, <1>2 DEF Forgotten
<1>7. TypeOK'
  BY <1>1, <1>2, <1>3, <1>4, <1>5 DEF TypeOK, FileStruct, Dentries
<1>8. Streams'
  <2>1. \A q \in live, k \in {STDIN, STDOUT} :
          file'[q][k] = file[q][k] /\ fops'[<<q, k>>] = fops[<<q, k>>]
    BY <1>1, <1>2, <1>3
  <2> QED BY <1>1, <1>2, <2>1, StreamsStay
<1>9. Descriptors'
  <2> SUFFICES ASSUME NEW q \in live', NEW k \in Opened
               PROVE  IF file'[q][k].flag THEN OpenedFile(q, k)'
                                          ELSE entry'[q][k] = NoEntry
    BY DEF Descriptors
  <2>1. CASE q = p /\ k = fd
    BY <1>3, <1>4, <2>1
  <2>2. CASE ~ (q = p /\ k = fd)
    <3>1. q \in live /\ q \in Pids
      BY <1>1, <1>2
    <3>2. /\ file'[q][k] = file[q][k] /\ entry'[q][k] = entry[q][k]
          /\ fops'[<<q, k>>] = fops[<<q, k>>]
      BY <1>2, <1>3, <1>4, <2>2, <3>1
    <3> QED BY <1>1, <3>1, <3>2 DEF Descriptors, OpenedFile
  <2> QED BY <2>1, <2>2
<1>10. Forgotten'
  <2> SUFFICES
        ASSUME NEW q \in Pids, NEW k \in Fds
        PROVE  /\ q \notin live' \/ k \notin Opened => entry'[q][k] = NoEntry
               /\ entry'[q][k] = NoEntry =>
                    delivered'[q][k] = <<>> /\ crossed'[q][k] = FALSE
    BY <1>6 DEF Forgotten
  <2>1. CASE q = p /\ k = fd
    BY <1>4, <1>5, <1>6, <2>1
  <2>2. CASE ~ (q = p /\ k = fd)
    <3>1. /\ entry'[q][k] = entry[q][k] /\ delivered'[q][k] = delivered[q][k]
          /\ crossed'[q][k] = crossed[q][k]
      BY <1>4, <1>5, <1>6, <2>2
    <3> QED BY <1>1, <1>2, <3>1 DEF Forgotten
  <2> QED BY <2>1, <2>2
<1> QED BY <1>7, <1>8, <1>9, <1>10 DEF DescriptorInv

\* A read: of its descriptor only the position moves.
Moves(p, fd, n, s) ==
  /\ p \in live /\ fd \in Opened /\ file[p][fd].flag
  /\ file' = [file EXCEPT ![p][fd].pos = @ + n]
  /\ delivered' = [delivered EXCEPT ![p][fd] = @ \o s]
  /\ crossed' \in [Pids -> [Fds -> BOOLEAN]]
  /\ \A q \in Pids, k \in Fds :
       q # p \/ k # fd => crossed'[q][k] = crossed[q][k]
  /\ UNCHANGED <<live, fops, entry>>

LEMMA CellMoves ==
  ASSUME TypeOK, Forgotten, NEW p \in Pids, NEW fd \in Opened,
         NEW n \in Nat, NEW s, Moves(p, fd, n, s)
  PROVE  /\ file' \in [Pids -> [Fds -> FileStruct]]
         /\ file'[p][fd].pos = file[p][fd].pos + n
         /\ \A q \in Pids, k \in Fds :
              /\ file'[q][k].flag = file[q][k].flag
              /\ file'[q][k].fop_jump = file[q][k].fop_jump
              /\ file'[q][k].inode = file[q][k].inode
              /\ q # p \/ k # fd => file'[q][k] = file[q][k]
         /\ delivered' = [q \in Pids |-> [k \in Fds |-> delivered'[q][k]]]
         /\ delivered'[p][fd] = delivered[p][fd] \o s
         /\ \A q \in Pids, k \in Fds :
              q # p \/ k # fd => delivered'[q][k] = delivered[q][k]
<1> USE PlacesOfFds, TypesOf
<1> DEFINE new == [file[p][fd] EXCEPT !.pos = @ + n]
<1>1. file[p][fd] \in FileStruct
  OBVIOUS
<1>2. /\ new \in FileStruct /\ new.pos = file[p][fd].pos + n
      /\ new.flag = file[p][fd].flag /\ new.inode = file[p][fd].inode
      /\ new.fop_jump = file[p][fd].fop_jump
  <2>1. file[p][fd].pos + n \in Nat
    BY <1>1 DEF FileStruct
  <2> QED BY <1>1, <2>1 DEF FileStruct
<1>3. file' = [file EXCEPT ![p][fd] = new]
  BY DEF Moves
<1> HIDE DEF new
<1>4. /\ file' \in [Pids -> [Fds -> FileStruct]] /\ file'[p][fd] = new
      /\ \A q \in Pids, k \in Fds :
           q # p \/ k # fd => file'[q][k] = file[q][k]
  BY <1>2, <1>3, CellChanges
<1>5. /\ delivered' = [q \in Pids |-> [k \in Fds |-> delivered'[q][k]]]
      /\ delivered'[p][fd] = delivered[p][fd] \o s
      /\ \A q \in Pids, k \in Fds :
           q # p \/ k # fd => delivered'[q][k] = delivered[q][k]
  <2> DEFINE d == delivered[p][fd] \o s
  <2>1. delivered' = [delivered EXCEPT ![p][fd] = d]
    BY DEF Moves
  <2> HIDE DEF d
  <2>2. delivered = [q \in Pids |-> [k \in Fds |-> delivered[q][k]]]
    BY DEF Forgotten
  <2>3. /\ delivered'[p][fd] = d
        /\ \A q \in Pids, k \in Fds :
             q # p \/ k # fd => delivered'[q][k] = delivered[q][k]
    BY <2>1, <2>2
  <2>4. delivered' = [q \in Pids |-> [k \in Fds |-> delivered'[q][k]]]
    BY <2>1, <2>2
  <2> QED BY <2>3, <2>4 DEF d
<1>6. \A q \in Pids, k \in Fds :
        /\ file'[q][k].flag = file[q][k].flag
        /\ file'[q][k].fop_jump = file[q][k].fop_jump
        /\ file'[q][k].inode = file[q][k].inode
  BY <1>2, <1>4
<1> QED BY <1>2, <1>4, <1>5, <1>6

LEMMA MoveDescriptors ==
  ASSUME DescriptorInv, NEW p \in Pids, NEW fd \in Opened,
         NEW n \in Nat, NEW s, Moves(p, fd, n, s)
  PROVE  DescriptorInv'
<1> USE PlacesOfFds, TypesOf
<1>1. TypeOK /\ Streams /\ Descriptors /\ Forgotten
  BY DEF DescriptorInv
<1>2. /\ file' \in [Pids -> [Fds -> FileStruct]]
      /\ \A q \in Pids, k \in Fds :
           /\ file'[q][k].flag = file[q][k].flag
           /\ file'[q][k].fop_jump = file[q][k].fop_jump
           /\ file'[q][k].inode = file[q][k].inode
      /\ delivered' = [q \in Pids |-> [k \in Fds |-> delivered'[q][k]]]
      /\ \A q \in Pids, k \in Fds :
           q # p \/ k # fd => delivered'[q][k] = delivered[q][k]
  BY <1>1, CellMoves
<1>3. UNCHANGED <<live, fops, entry>>
  BY DEF Moves
<1>4. TypeOK'
  BY <1>1, <1>2, <1>3 DEF Moves, TypeOK, FileStruct, Dentries
<1>5. Streams'
  <2>1. live \subseteq Pids /\ {STDIN, STDOUT} \subseteq Fds
    BY <1>1
  <2> QED BY <1>1, <1>2, <1>3, <2>1, StreamsStay
<1>6. Descriptors'
  <2> SUFFICES ASSUME NEW q \in live', NEW k \in Opened
               PROVE  IF file'[q][k].flag THEN OpenedFile(q, k)'
                                          ELSE entry'[q][k] = NoEntry
    BY DEF Descriptors
  <2>1. q \in live /\ q \in Pids /\ k \in Fds
    BY <1>1, <1>3
  <2>2. /\ file'[q][k].flag = file[q][k].flag
        /\ file'[q][k].fop_jump = file[q][k].fop_jump
        /\ file'[q][k].inode = file[q][k].inode
    BY <1>2, <2>1
  <2>3. IF file[q][k].flag THEN OpenedFile(q, k) ELSE entry[q][k] = NoEntry
    BY <1>1, <2>1 DEF Descriptors
  <2> QED BY <1>3, <2>2, <2>3 DEF OpenedFile
<1>7. Forgotten'
  <2>1. entry[p][fd] # NoEntry
    BY <1>1 DEF Moves, Descriptors, OpenedFile
  <2> QED BY <1>1, <1>2, <1>3, <2>1 DEF Forgotten, Moves
<1> QED BY <1>4, <1>5, <1>6, <1>7 DEF DescriptorInv

\* Which functions a read finds behind a descriptor.
LEMMA KindIsType ==
  ASSUME DescriptorInv, NEW p \in Pids, NEW fd \in Fds, InUse(p, fd),
         Kind(p, fd) \in FileTypes
  PROVE  fd \in Opened /\ OpenedFile(p, fd) /\ Kind(p, fd) = entry[p][fd].type
<1>1. Streams /\ Descriptors /\ p \in live /\ file[p][fd].flag
  BY DEF DescriptorInv, InUse
<1>2. "stdin" \notin FileTypes /\ "stdout" \notin FileTypes
  BY DEF FileTypes
<1>3. fd \in Opened
  BY <1>1, <1>2, PlacesOfFds DEF Streams, Kind
<1>4. OpenedFile(p, fd)
  BY <1>1, <1>3 DEF Descriptors
<1> QED BY <1>3, <1>4 DEF OpenedFile, Kind

\* The two functions that read, as moves.
LEMMA ReadFileMoves ==
  ASSUME DescriptorInv, NEW p \in Pids, NEW fd \in Fds,
         NEW nbytes \in Requests, ReadFile(p, fd, nbytes)
  PROVE  LET node == Inodes[entry[p][fd].inode]
             pos == file[p][fd].pos
             n   == Cut(node, pos, nbytes)
         IN /\ fd \in Opened /\ entry[p][fd].type = "regular"
            /\ entry[p][fd].inode \in DOMAIN Inodes
            /\ n \in Nat /\ pos + n <= node.length
            /\ Moves(p, fd, n, Copied(node, pos, n))
            /\ crossed'[p][fd] =
                 (crossed[p][fd] \/ (pos % BlockSize) + n > BlockSize)
<1> DEFINE node == Inodes[entry[p][fd].inode]
           pos == file[p][fd].pos
           n   == Cut(node, pos, nbytes)
           result == ReadData(Inodes, file[p][fd].inode, pos, nbytes)
<1>1. TypeOK /\ InUse(p, fd) /\ Kind(p, fd) = "regular"
  BY DEF DescriptorInv, ReadFile
<1>2. fd \in Opened /\ OpenedFile(p, fd) /\ entry[p][fd].type = "regular"
  BY <1>1, KindIsType DEF FileTypes
<1>3. file[p][fd].inode = entry[p][fd].inode
  BY <1>2 DEF OpenedFile
<1>4. pos \in Nat
  BY <1>1, TypesOf DEF FileStruct
<1>5. result.ret > 0
  BY DEF ReadFile
<1>6. /\ entry[p][fd].inode \in DOMAIN Inodes
      /\ n \in Nat \ {0} /\ pos + n <= node.length
      /\ result = Returns(n, Copied(node, pos, n))
  BY <1>3, <1>4, <1>5, ReadDataCopies
<1>7. /\ file' = [file EXCEPT ![p][fd].pos = @ + result.ret]
      /\ delivered' = [delivered EXCEPT ![p][fd] = @ \o result.buf]
      /\ crossed' = [crossed EXCEPT ![p][fd] =
                       @ \/ (pos % BlockSize) + result.ret > BlockSize]
      /\ UNCHANGED <<live, fops, entry>>
  BY DEF ReadFile, Deliver
<1>8. result.ret = n /\ result.buf = Copied(node, pos, n)
  BY <1>6 DEF Returns
<1> HIDE DEF result, n
<1>9. /\ crossed' \in [Pids -> [Fds -> BOOLEAN]]
      /\ crossed'[p][fd] =
           (crossed[p][fd] \/ (pos % BlockSize) + n > BlockSize)
      /\ \A q \in Pids, k \in Fds :
           q # p \/ k # fd => crossed'[q][k] = crossed[q][k]
  <2> DEFINE c == crossed[p][fd] \/ (pos % BlockSize) + n > BlockSize
  <2>1. crossed' = [crossed EXCEPT ![p][fd] = c]
    BY <1>7, <1>8
  <2>2. c \in BOOLEAN /\ crossed \in [Pids -> [Fds -> BOOLEAN]]
    BY <1>1, TypesOf
  <2> HIDE DEF c
  <2>3. crossed'[p][fd] = c
    BY <2>1, <2>2
  <2> QED BY <2>1, <2>2, <2>3, CellChanges DEF c
<1>10. Moves(p, fd, n, Copied(node, pos, n))
  BY <1>1, <1>2, <1>7, <1>8, <1>9 DEF Moves, InUse
<1> QED BY <1>2, <1>6, <1>9, <1>10 DEF n

LEMMA DirectoryReadMoves ==
  ASSUME DescriptorInv, NEW p \in Pids, NEW fd \in Fds, DirectoryRead(p, fd)
  PROVE  LET pos == file[p][fd].pos
         IN /\ fd \in Opened /\ entry[p][fd].type = "directory"
            /\ pos \in Nat /\ pos + 1 \in DOMAIN Entries
            /\ Moves(p, fd, 1, <<Entries[pos + 1].name>>)
            /\ crossed' = crossed
<1> DEFINE pos == file[p][fd].pos
<1>1. TypeOK /\ InUse(p, fd) /\ Kind(p, fd) = "directory"
  BY DEF DescriptorInv, DirectoryRead
<1>2. fd \in Opened /\ OpenedFile(p, fd) /\ entry[p][fd].type = "directory"
  BY <1>1, KindIsType DEF FileTypes
<1>3. pos \in Nat
  BY <1>1, TypesOf DEF FileStruct
<1>4. pos + 1 \in DOMAIN Entries
  <2>1. PICK l \in Nat : l = Len(Entries) /\ DOMAIN Entries = 1 .. l
    BY FilesAssumption
  <2>2. pos < l
    BY <2>1 DEF DirectoryRead
  <2> QED BY <1>3, <2>1, <2>2
<1>5. NextDentry(pos).name = Entries[pos + 1].name
  BY <1>4, FilesAssumption DEF NextDentry, ReadDentryByIndex, Dentry
<1>6. /\ file' = [file EXCEPT ![p][fd].pos = @ + 1]
      /\ delivered' =
           [delivered EXCEPT ![p][fd] = @ \o <<NextDentry(pos).name>>]
      /\ UNCHANGED <<live, fops, entry, crossed>>
  BY DEF DirectoryRead, Deliver
<1>7. crossed' \in [Pids -> [Fds -> BOOLEAN]]
  BY <1>1, <1>6, TypesOf
<1>8. Moves(p, fd, 1, <<Entries[pos + 1].name>>)
  BY <1>1, <1>2, <1>5, <1>6, <1>7 DEF Moves, InUse
<1> QED BY <1>2, <1>3, <1>4, <1>6, <1>8

LEMMA DescriptorNext == DescriptorInv /\ [Next]_vars => DescriptorInv'
<1> SUFFICES ASSUME DescriptorInv, [Next]_vars PROVE DescriptorInv'
  OBVIOUS
<1>1. ASSUME NEW p \in Pids, NewPcb(p) PROVE DescriptorInv'
  BY <1>1, NewPcbDescriptors
<1>2. ASSUME NEW p \in Pids, Halt(p) PROVE DescriptorInv'
  BY <1>2, HaltDescriptors
<1>3. ASSUME NEW p \in Pids, NEW name \in Names, Open(p, name)
      PROVE  DescriptorInv'
  BY <1>3, OpenDescriptors
<1>4. ASSUME NEW p \in Pids, NEW fd \in Fds, Close(p, fd)
      PROVE  DescriptorInv'
  BY <1>4, CloseDescriptors
<1>5. ASSUME NEW p \in Pids, NEW fd \in Fds, DirectoryRead(p, fd)
      PROVE  DescriptorInv'
  BY <1>5, DirectoryReadMoves, MoveDescriptors
<1>6. ASSUME NEW p \in Pids, NEW fd \in Fds, NEW nbytes \in Requests,
             ReadFile(p, fd, nbytes)
      PROVE  DescriptorInv'
  BY <1>6, ReadFileMoves, MoveDescriptors
<1>7. CASE UNCHANGED vars
  <2>1. TypeOK'
    BY <1>7 DEF vars, DescriptorInv, TypeOK
  <2>2. Streams' /\ Descriptors' /\ Forgotten'
    BY <1>7 DEF vars, DescriptorInv, Streams, Descriptors, OpenedFile,
                Forgotten
  <2> QED BY <2>1, <2>2 DEF DescriptorInv
<1> QED BY <1>1, <1>2, <1>3, <1>4, <1>5, <1>6, <1>7 DEF Next

\* Every variable keeps its type: an inode of the image or none, and a jump
\* table of the array, in every descriptor that was ever assigned.
THEOREM FileTypesStay == Spec => []TypeOK
<1>1. Spec => []DescriptorInv
  BY DescriptorInit, DescriptorNext, PTL DEF Spec
<1>2. DescriptorInv => TypeOK
  BY DEF DescriptorInv
<1> QED BY <1>1, <1>2, PTL

\* The descriptors of a live process are the standard streams and those it has
\* opened, with the functions and the inode of what it opened, whoever had the
\* pcb before and whatever halt() left open in it.
THEOREM DescriptorsAreOpened == Spec => []DescriptorIsOpenedFile
<1>1. Spec => []DescriptorInv
  BY DescriptorInit, DescriptorNext, PTL DEF Spec
<1>2. DescriptorInv => DescriptorIsOpenedFile
  <2> SUFFICES ASSUME DescriptorInv PROVE DescriptorIsOpenedFile
    OBVIOUS
  <2>1. Streams /\ Descriptors
    BY DEF DescriptorInv
  <2>2. ASSUME NEW p \in live
        PROVE  /\ InUse(p, STDIN) /\ Kind(p, STDIN) = "stdin"
               /\ InUse(p, STDOUT) /\ Kind(p, STDOUT) = "stdout"
    BY <2>1 DEF Streams, InUse, Kind
  <2>3. ASSUME NEW p \in live, NEW fd \in Opened
        PROVE  /\ InUse(p, fd) <=> entry[p][fd] # NoEntry
               /\ InUse(p, fd) => Kind(p, fd) = entry[p][fd].type
               /\ InUse(p, fd) /\ entry[p][fd].type = "regular" =>
                    file[p][fd].inode = entry[p][fd].inode
    BY <2>1 DEF Descriptors, OpenedFile, InUse, Kind
  <2> QED BY <2>2, <2>3 DEF DescriptorIsOpenedFile
<1> QED BY <1>1, <1>2, PTL

-----------------------------------------------------------------------------
(* What a file holds, and what is copied of it.                            *)

LEMMA BlockNumberIsNat ==
  ASSUME NEW node \in InodeType, NEW q \in Nat
  PROVE  BlockNumber(node, q) \in Nat
<1>1. PICK l \in Nat : l = Len(node.blocks) /\ node.blocks \in Seq(Nat)
  BY DEF InodeType
<1> QED BY <1>1 DEF BlockNumber

LEMMA ContentType ==
  ASSUME NEW node \in InodeType
  PROVE  Content(node) \in Seq(Int) /\ Len(Content(node)) = node.length
<1>1. PICK len \in Nat : len = node.length
  BY DEF InodeType
<1>2. ASSUME NEW k \in 1 .. len
      PROVE  BlockNumber(node, (k - 1) \div BlockSize) * BlockSize
               + ((k - 1) % BlockSize) \in Int
  <2>1. k - 1 \in Nat
    OBVIOUS
  <2>2. (k - 1) \div BlockSize \in Nat /\ (k - 1) % BlockSize \in Nat
    BY <2>1, Division, FileSystemAssumption
  <2>3. BlockNumber(node, (k - 1) \div BlockSize) \in Nat
    BY <2>2, BlockNumberIsNat
  <2> QED BY <2>2, <2>3, FileSystemAssumption
<1> QED BY <1>1, <1>2 DEF Content

LEMMA CopiedType ==
  ASSUME NEW node \in InodeType, NEW pos \in Nat, NEW n \in Nat
  PROVE  Copied(node, pos, n) \in Seq(Int) /\ Len(Copied(node, pos, n)) = n
<1> DEFINE passed(j) == (pos % BlockSize) + j
           q(j) == (pos \div BlockSize) + (passed(j) \div (BlockSize + 1))
           i(j) == passed(j) % (BlockSize + 1)
<1>1. Copied(node, pos, n)
        = [k \in 1 .. n |-> BlockNumber(node, q(k - 1)) * BlockSize + i(k - 1)]
  BY DEF Copied
<1>2. ASSUME NEW k \in 1 .. n
      PROVE  BlockNumber(node, q(k - 1)) * BlockSize + i(k - 1) \in Int
  <2>1. pos \div BlockSize \in Nat /\ pos % BlockSize \in Nat
    BY Division, FileSystemAssumption
  <2>2. passed(k - 1) \in Nat /\ BlockSize + 1 \in Nat \ {0}
    BY <2>1, FileSystemAssumption
  <2> HIDE DEF passed
  <2>3. passed(k - 1) \div (BlockSize + 1) \in Nat /\ i(k - 1) \in Nat
    BY <2>2, Division
  <2>4. q(k - 1) \in Nat
    BY <2>1, <2>3
  <2> HIDE DEF q, i
  <2>5. BlockNumber(node, q(k - 1)) \in Nat
    BY <2>4, BlockNumberIsNat
  <2> QED BY <2>3, <2>5, FileSystemAssumption
<1> HIDE DEF q, i
<1> QED BY <1>1, <1>2

\* The bytes that are copied from the first block of a read, the one with the
\* offset, are those of the file.
LEMMA CopiedIsContent ==
  ASSUME NEW node \in InodeType, NEW pos \in Nat, NEW n \in Nat,
         NEW k \in 1 .. n, pos + k <= node.length,
         (pos % BlockSize) + k <= BlockSize
  PROVE  Copied(node, pos, n)[k] = Content(node)[pos + k]
<1> DEFINE r == pos % BlockSize
           d == pos \div BlockSize
<1>1. d \in Nat /\ r \in Nat /\ pos = d * BlockSize + r
  BY FileSystemAssumption, Division
<1> HIDE DEF r, d
<1>2. r + (k - 1) \in 0 .. BlockSize - 1
  BY <1>1, FileSystemAssumption DEF r
<1>3. (r + (k - 1)) \div (BlockSize + 1) = 0
      /\ (r + (k - 1)) % (BlockSize + 1) = r + (k - 1)
  BY <1>2, SmallDivision, FileSystemAssumption
<1>4. Copied(node, pos, n)[k] = BlockNumber(node, d) * BlockSize + r + (k - 1)
  <2> DEFINE passed(j) == (pos % BlockSize) + j
             q(j) == (pos \div BlockSize) + (passed(j) \div (BlockSize + 1))
             i(j) == passed(j) % (BlockSize + 1)
  <2>1. Copied(node, pos, n)
          = [m \in 1 .. n |->
               BlockNumber(node, q(m - 1)) * BlockSize + i(m - 1)]
    BY DEF Copied
  <2>2. q(k - 1) = d /\ i(k - 1) = r + (k - 1)
    BY <1>1, <1>3 DEF r, d
  <2> HIDE DEF q, i
  <2>3. Copied(node, pos, n)[k]
          = BlockNumber(node, d) * BlockSize + (r + (k - 1))
    BY <2>1, <2>2
  <2> QED BY <1>1, <2>3, BlockNumberIsNat, FileSystemAssumption
<1>5. /\ (pos + k - 1) \div BlockSize = d
      /\ (pos + k - 1) % BlockSize = r + (k - 1)
  <2> DEFINE a == pos + k - 1
             e == r + (k - 1)
  <2>1. a = d * BlockSize + e /\ a \in Nat /\ e \in 0 .. BlockSize - 1
    BY <1>1, <1>2, FileSystemAssumption
  <2> HIDE DEF a, e
  <2>2. a \div BlockSize = d /\ a % BlockSize = e
    BY <1>1, <2>1, FileSystemAssumption, DivisionIsUnique
  <2> QED BY <2>2 DEF a, e
<1>6. Content(node)[pos + k] = BlockNumber(node, d) * BlockSize + (r + (k - 1))
  <2>1. PICK len \in Nat : len = node.length
    BY DEF InodeType
  <2>2. pos + k \in 1 .. node.length
    BY <2>1
  <2> QED BY <1>5, <2>2 DEF Content
<1> QED BY <1>1, <1>4, <1>6, BlockNumberIsNat, FileSystemAssumption

LEMMA LengthsAdd ==
  ASSUME NEW S, NEW s \in Seq(S), NEW t \in Seq(S),
         NEW a \in Nat, NEW b \in Nat, a = Len(s), b = Len(t)
  PROVE  s \o t \in Seq(S) /\ Len(s \o t) = a + b
OBVIOUS

LEMMA PrefixGrows ==
  ASSUME NEW S, NEW s \in Seq(S), NEW t \in Seq(S), NEW u \in Seq(S),
         IsPrefix(s, u), Len(s) + Len(t) <= Len(u),
         \A k \in 1 .. Len(t) : t[k] = u[Len(s) + k]
  PROVE  IsPrefix(s \o t, u)
<1>1. PICK a \in Nat, b \in Nat, c \in Nat :
        a = Len(s) /\ b = Len(t) /\ c = Len(u)
  OBVIOUS
<1>2. \A i \in 1 .. a : s[i] = u[i]
  <2>1. SubSeq(s, 1, a) = SubSeq(u, 1, a) /\ a <= c
    BY <1>1 DEF IsPrefix
  <2>2. \A i \in 1 .. a : SubSeq(s, 1, a)[i] = s[i] /\ SubSeq(u, 1, a)[i] = u[i]
    BY <1>1, <2>1
  <2> QED BY <2>1, <2>2
<1>3. s \o t \in Seq(S) /\ Len(s \o t) = a + b /\ a + b <= c
  BY <1>1
<1>4. ASSUME NEW i \in 1 .. a + b PROVE (s \o t)[i] = u[i]
  <2>1. CASE i <= a
    BY <1>1, <1>2, <2>1
  <2>2. CASE i > a
    <3>1. i - a \in 1 .. b /\ a + (i - a) = i
      BY <1>1, <2>2
    <3>2. (s \o t)[i] = t[i - a]
      BY <1>1, <2>2
    <3> QED BY <1>1, <3>1, <3>2
  <2> QED BY <1>1, <2>1, <2>2
<1>5. SubSeq(s \o t, 1, a + b) = [i \in 1 .. a + b |-> (s \o t)[i]]
      /\ SubSeq(u, 1, a + b) = [i \in 1 .. a + b |-> u[i]]
  BY <1>1, <1>3
<1> QED BY <1>1, <1>3, <1>4, <1>5 DEF IsPrefix

-----------------------------------------------------------------------------
(* Reads go on where the last one stopped.                                 *)

LEMMA NothingDelivered ==
  ASSUME NEW S PROVE <<>> \in Seq(S) /\ Len(<<>>) = 0
OBVIOUS

LEMMA EmptyIsPrefix ==
  ASSUME NEW S, NEW u \in Seq(S) PROVE IsPrefix(<<>>, u)
<1>1. PICK c \in Nat : c = Len(u)
  OBVIOUS
<1>2. SubSeq(<<>>, 1, 0) = <<>> /\ SubSeq(u, 1, 0) = <<>>
  OBVIOUS
<1> QED BY <1>1, <1>2 DEF IsPrefix

LEMMA DirectoryType ==
  DirectoryNames \in Seq(Names) /\ Len(DirectoryNames) = Len(Entries)
<1>1. PICK l \in Nat : l = Len(Entries) /\ DOMAIN Entries = 1 .. l
  BY FilesAssumption
<1> QED BY <1>1 DEF DirectoryNames, Names

LEMMA ReadInit == Init => ReadInv
<1> SUFFICES ASSUME Init PROVE ReadInv
  OBVIOUS
<1>1. \A p \in Pids, fd \in Fds : DeliveredType(p, fd)
  BY NothingDelivered DEF Init, DeliveredType
<1> QED BY <1>1 DEF Init, ReadInv

\* A descriptor that a step does not touch.
LEMMA ReadStays ==
  ASSUME ReadInv, NEW p \in Pids, NEW fd \in Fds,
         file'[p][fd] = file[p][fd], entry'[p][fd] = entry[p][fd],
         delivered'[p][fd] = delivered[p][fd], crossed'[p][fd] = crossed[p][fd]
  PROVE  /\ DeliveredType(p, fd)'
         /\ p \in live /\ fd \in Opened /\ file[p][fd].flag =>
              FileRead(p, fd)' /\ DirectoryListed(p, fd)'
<1>1. DeliveredType(p, fd)'
  BY DEF ReadInv, DeliveredType
<1>2. ASSUME p \in live, fd \in Opened, file[p][fd].flag
      PROVE  FileRead(p, fd)' /\ DirectoryListed(p, fd)'
  <2>1. FileRead(p, fd) /\ DirectoryListed(p, fd)
    BY <1>2 DEF ReadInv
  <2>2. FileRead(p, fd)'
    BY <2>1 DEF FileRead
  <2>3. DirectoryListed(p, fd)'
    BY <2>1 DEF DirectoryListed
  <2> QED BY <2>2, <2>3
<1> QED BY <1>1, <1>2

\* A descriptor that has delivered nothing from its beginning.
LEMMA ReadBegins ==
  ASSUME NEW p \in Pids, NEW fd \in Fds, file'[p][fd].pos = 0,
         entry'[p][fd] \in Dentries, delivered'[p][fd] = <<>>
  PROVE  FileRead(p, fd)' /\ DirectoryListed(p, fd)'
<1>1. FileRead(p, fd)'
  <2> DEFINE node == Inodes[entry'[p][fd].inode]
  <2>1. SUFFICES ASSUME entry'[p][fd].type = "regular"
                 PROVE  /\ 0 = Len(<<>>) /\ 0 <= Len(Content(node))
                        /\ IsPrefix(<<>>, Content(node))
    BY DEF FileRead
  <2>2. node \in InodeType
    BY <2>1, DentryIsUsable, InodesType
  <2> HIDE DEF node
  <2>3. PICK l \in Nat : l = Len(Content(node)) /\ Content(node) \in Seq(Int)
    BY <2>2, ContentType
  <2> QED BY <2>3, EmptyIsPrefix
<1>2. DirectoryListed(p, fd)'
  BY DirectoryType, EmptyIsPrefix DEF DirectoryListed
<1> QED BY <1>1, <1>2

\* A read of a regular file.
LEMMA FileReadGoesOn ==
  ASSUME DescriptorInv, ReadInv, NEW p \in Pids, NEW fd \in Fds,
         NEW nbytes \in Requests, ReadFile(p, fd, nbytes)
  PROVE  DeliveredType(p, fd)' /\ FileRead(p, fd)' /\ DirectoryListed(p, fd)'
<1> DEFINE node == Inodes[entry[p][fd].inode]
           pos == file[p][fd].pos
           n   == Cut(node, pos, nbytes)
           new == Copied(node, pos, n)
           old == delivered[p][fd]
<1>1. /\ fd \in Opened /\ entry[p][fd].type = "regular"
      /\ entry[p][fd].inode \in DOMAIN Inodes
      /\ n \in Nat /\ pos + n <= node.length
      /\ Moves(p, fd, n, new)
      /\ crossed'[p][fd] =
           (crossed[p][fd] \/ (pos % BlockSize) + n > BlockSize)
  BY ReadFileMoves
<1>2. node \in InodeType
  BY <1>1, InodesType
<1>3. pos \in Nat
  BY TypesOf DEF DescriptorInv, FileStruct
<1>4. /\ file'[p][fd].pos = pos + n
      /\ delivered'[p][fd] = old \o new
      /\ entry' = entry
  <2> HIDE DEF n, new
  <2>1. TypeOK /\ Forgotten
    BY DEF DescriptorInv
  <2>2. entry' = entry
    BY <1>1 DEF Moves
  <2> QED BY <1>1, <2>1, <2>2, CellMoves
<1>5. /\ pos = Len(old) /\ old \in Seq(Int)
      /\ ~crossed[p][fd] => IsPrefix(old, Content(node))
  <2>1. FileRead(p, fd) /\ DeliveredType(p, fd)
    BY <1>1 DEF ReadInv, Moves
  <2> QED BY <1>1, <2>1 DEF FileRead, DeliveredType
<1> HIDE DEF n, node, old
<1>6. new \in Seq(Int) /\ Len(new) = n
  BY <1>1, <1>2, <1>3, CopiedType
<1>7. Content(node) \in Seq(Int) /\ Len(Content(node)) = node.length
  BY <1>2, ContentType
<1>8. old \o new \in Seq(Int) /\ Len(old \o new) = pos + n
  <2> HIDE DEF new, pos
  <2>1. old \in Seq(Int) /\ new \in Seq(Int)
    BY <1>5, <1>6
  <2>2. pos \in Nat /\ n \in Nat /\ pos = Len(old) /\ n = Len(new)
    BY <1>1, <1>3, <1>5, <1>6
  <2> QED BY <2>1, <2>2, LengthsAdd
<1>9. ASSUME ~crossed'[p][fd] PROVE IsPrefix(old \o new, Content(node))
  <2>1. ~crossed[p][fd] /\ ~ (pos % BlockSize) + n > BlockSize
    BY <1>1, <1>9
  <2>2. pos % BlockSize \in Nat
    BY <1>3, Division, FileSystemAssumption
  <2>3. ASSUME NEW k \in 1 .. n PROVE new[k] = Content(node)[pos + k]
    <3>1. (pos % BlockSize) + k <= BlockSize
      BY <1>1, <2>1, <2>2, FileSystemAssumption
    <3>2. pos + k <= node.length
      BY <1>1, <1>2, <1>3 DEF InodeType
    <3> QED BY <1>1, <1>2, <1>3, <3>1, <3>2, CopiedIsContent
  <2> HIDE DEF new, pos
  <2> QED BY <1>1, <1>5, <1>6, <1>7, <2>1, <2>3, PrefixGrows
<1>10. DeliveredType(p, fd)'
  BY <1>1, <1>4, <1>8 DEF DeliveredType
<1>11. FileRead(p, fd)'
  <2>1. Inodes[entry'[p][fd].inode] = node
    BY <1>4 DEF node
  <2>2. pos + n <= Len(Content(node))
    BY <1>1, <1>7
  <2> QED BY <1>4, <1>8, <1>9, <2>1, <2>2 DEF FileRead
<1>12. DirectoryListed(p, fd)'
  BY <1>1, <1>4 DEF DirectoryListed
<1> QED BY <1>10, <1>11, <1>12

\* A read of the directory.
LEMMA DirectoryReadGoesOn ==
  ASSUME DescriptorInv, ReadInv, NEW p \in Pids, NEW fd \in Fds,
         DirectoryRead(p, fd)
  PROVE  DeliveredType(p, fd)' /\ FileRead(p, fd)' /\ DirectoryListed(p, fd)'
<1> DEFINE pos == file[p][fd].pos
           new == <<Entries[pos + 1].name>>
           old == delivered[p][fd]
<1>1. /\ fd \in Opened /\ entry[p][fd].type = "directory"
      /\ pos \in Nat /\ pos + 1 \in DOMAIN Entries
      /\ Moves(p, fd, 1, new)
  BY DirectoryReadMoves
<1>2. /\ file'[p][fd].pos = pos + 1
      /\ delivered'[p][fd] = old \o new
      /\ entry' = entry
  <2> HIDE DEF new
  <2>1. TypeOK /\ Forgotten
    BY DEF DescriptorInv
  <2>2. entry' = entry
    BY <1>1 DEF Moves
  <2> QED BY <1>1, <2>1, <2>2, CellMoves
<1>3. /\ pos = Len(old) /\ old \in Seq(Names)
      /\ IsPrefix(old, DirectoryNames)
  <2>1. DirectoryListed(p, fd) /\ DeliveredType(p, fd)
    BY <1>1 DEF ReadInv, Moves
  <2> QED BY <1>1, <2>1 DEF DirectoryListed, DeliveredType
<1>4. /\ new \in Seq(Names) /\ Len(new) = 1
      /\ new[1] = DirectoryNames[pos + 1]
  BY <1>1 DEF Names, DirectoryNames
<1>5. PICK one \in Nat : one = 1 /\ one = Len(new)
  OBVIOUS
<1>6. PICK l \in Nat : l = Len(DirectoryNames) /\ pos + 1 <= l
  <2>1. PICK l \in Nat : l = Len(Entries) /\ DOMAIN Entries = 1 .. l
    BY FilesAssumption
  <2> QED BY <1>1, <2>1, DirectoryType
<1> HIDE DEF new, old, pos
<1>7. old \o new \in Seq(Names) /\ Len(old \o new) = pos + 1
  <2>1. old \in Seq(Names) /\ new \in Seq(Names)
    BY <1>3, <1>4
  <2>2. pos \in Nat /\ pos = Len(old)
    BY <1>1, <1>3
  <2>3. one = Len(new)
    BY <1>5
  <2>4. Len(old \o new) = pos + one /\ old \o new \in Seq(Names)
    BY <2>1, <2>2, <2>3, LengthsAdd
  <2> QED BY <1>5, <2>2, <2>4
<1>8. IsPrefix(old \o new, DirectoryNames)
  <2>1. \A k \in 1 .. Len(new) : new[k] = DirectoryNames[pos + k]
    BY <1>4
  <2> QED BY <1>1, <1>3, <1>4, <1>6, <2>1, DirectoryType, PrefixGrows
<1>9. DeliveredType(p, fd)'
  BY <1>1, <1>2, <1>7 DEF DeliveredType
<1>10. FileRead(p, fd)'
  BY <1>1, <1>2 DEF FileRead
<1>11. DirectoryListed(p, fd)'
  BY <1>2, <1>7, <1>8 DEF DirectoryListed
<1> QED BY <1>9, <1>10, <1>11

\* Two ways to see that all descriptors are right after a step: those that were
\* not touched are.
LEMMA ReadsOfOthers ==
  ASSUME ReadInv, TypeOK, live' \subseteq Pids, NEW p \in Pids, NEW fd \in Fds,
         \A q \in live' : q \in live,
         \A q \in Pids, k \in Fds : q # p \/ k # fd =>
           /\ file'[q][k] = file[q][k] /\ entry'[q][k] = entry[q][k]
           /\ delivered'[q][k] = delivered[q][k]
           /\ crossed'[q][k] = crossed[q][k],
         DeliveredType(p, fd)',
         p \in live' /\ fd \in Opened /\ file'[p][fd].flag =>
           FileRead(p, fd)' /\ DirectoryListed(p, fd)'
  PROVE  ReadInv'
<1>1. ASSUME NEW q \in Pids, NEW k \in Fds PROVE DeliveredType(q, k)'
  <2>1. CASE q = p /\ k = fd
    BY <2>1
  <2>2. CASE ~ (q = p /\ k = fd)
    BY <2>2, ReadStays
  <2> QED BY <2>1, <2>2
<1>2. ASSUME NEW q \in live', NEW k \in Opened, file'[q][k].flag
      PROVE  FileRead(q, k)' /\ DirectoryListed(q, k)'
  <2>1. q \in Pids /\ k \in Fds /\ q \in live
    BY PlacesOfFds
  <2>2. CASE q = p /\ k = fd
    BY <1>2, <2>2
  <2>3. CASE ~ (q = p /\ k = fd)
    BY <1>2, <2>1, <2>3, ReadStays
  <2> QED BY <2>2, <2>3
<1> QED BY <1>1, <1>2 DEF ReadInv

LEMMA ReadNext == DescriptorInv /\ ReadInv /\ [Next]_vars => ReadInv'
<1> SUFFICES ASSUME DescriptorInv, ReadInv, [Next]_vars PROVE ReadInv'
  OBVIOUS
<1> USE PlacesOfFds, TypesOf
<1>0. TypeOK /\ Descriptors /\ Forgotten
  BY DEF DescriptorInv
<1>1. ASSUME NEW p \in Pids, NewPcb(p) PROVE ReadInv'
  <2>1. /\ live' = live \cup {p}
        /\ file' = [file EXCEPT ![p] = NewFiles(p)]
        /\ UNCHANGED <<entry, delivered, crossed>>
    BY <1>1 DEF NewPcb, history
  <2>2. ASSUME NEW q \in Pids, NEW k \in Fds PROVE DeliveredType(q, k)'
    BY <2>1 DEF ReadInv, DeliveredType
  <2>3. ASSUME NEW q \in live', NEW k \in Opened, file'[q][k].flag
        PROVE  FileRead(q, k)' /\ DirectoryListed(q, k)'
    <3>1. CASE q = p
      <4>1. file[p][k] \in FileStruct
        BY <1>0
      <4>2. file'[p][k] = [file[p][k] EXCEPT !.flag = FALSE]
        BY <1>0, <2>1 DEF NewFiles
      <4> QED BY <2>3, <3>1, <4>1, <4>2 DEF FileStruct
    <3>2. CASE q # p
      <4>1. q \in live /\ q \in Pids /\ k \in Fds
        BY <1>0, <2>1, <3>2
      <4>2. file'[q][k] = file[q][k]
        BY <1>0, <2>1, <3>2, <4>1
      <4> QED BY <2>1, <2>3, <4>1, <4>2, ReadStays
    <3> QED BY <3>1, <3>2
  <2> QED BY <2>2, <2>3 DEF ReadInv
<1>2. ASSUME NEW p \in Pids, Halt(p) PROVE ReadInv'
  <2>1. /\ live' = live \ {p} /\ UNCHANGED file
        /\ entry' = [entry EXCEPT ![p] = [fd \in Fds |-> NoEntry]]
        /\ delivered' = [delivered EXCEPT ![p] = [fd \in Fds |-> <<>>]]
        /\ crossed' = [crossed EXCEPT ![p] = [fd \in Fds |-> FALSE]]
    BY <1>2 DEF Halt
  <2>2. \A q \in Pids, k \in Fds : q # p =>
          /\ file'[q][k] = file[q][k] /\ entry'[q][k] = entry[q][k]
          /\ delivered'[q][k] = delivered[q][k]
          /\ crossed'[q][k] = crossed[q][k]
    BY <1>0, <2>1 DEF Forgotten
  <2>3. \A k \in Fds : delivered'[p][k] = <<>>
    <3>1. delivered = [q \in Pids |-> [k \in Fds |-> delivered[q][k]]]
      BY <1>0 DEF Forgotten
    <3> QED BY <2>1, <3>1
  <2>4. ASSUME NEW q \in Pids, NEW k \in Fds PROVE DeliveredType(q, k)'
    <3>1. CASE q = p
      BY <2>3, <3>1, NothingDelivered DEF DeliveredType
    <3>2. CASE q # p
      BY <2>2, <3>2, ReadStays
    <3> QED BY <3>1, <3>2
  <2>5. ASSUME NEW q \in live', NEW k \in Opened, file'[q][k].flag
        PROVE  FileRead(q, k)' /\ DirectoryListed(q, k)'
    <3>1. q \in live /\ q \in Pids /\ k \in Fds /\ q # p
      BY <1>0, <2>1
    <3> QED BY <2>2, <2>5, <3>1, ReadStays
  <2> QED BY <2>4, <2>5 DEF ReadInv
<1>3. ASSUME NEW p \in Pids, NEW name \in Names, Open(p, name)
      PROVE  ReadInv'
  <2> DEFINE d == ReadDentryByName(Entries, name)
  <2>1. p \in live /\ d \in Dentries
    BY <1>3, NameIsFound DEF Open
  <2>2. PICK fd \in Opened :
          /\ VacantFd(p, fd)
          /\ file' = [file EXCEPT ![p][fd] = OpenFile(p, fd, d)]
          /\ entry' = [entry EXCEPT ![p][fd] = d]
          /\ UNCHANGED <<live, delivered, crossed>>
    BY <1>3 DEF Open
  <2> HIDE DEF d
  <2>3. \A q \in Pids, k \in Fds : q # p \/ k # fd =>
          /\ file'[q][k] = file[q][k] /\ entry'[q][k] = entry[q][k]
    BY <1>0, <2>2
  <2>4. file'[p][fd].pos = 0 /\ entry'[p][fd] = d
    BY <1>0, <2>2 DEF OpenFile
  <2>5. delivered'[p][fd] = <<>>
    BY <1>0, <2>1, <2>2 DEF Descriptors, VacantFd, Forgotten
  <2>6. DeliveredType(p, fd)'
    BY <2>5, NothingDelivered DEF DeliveredType
  <2>7. FileRead(p, fd)' /\ DirectoryListed(p, fd)'
    BY <2>1, <2>4, <2>5, ReadBegins
  <2>8. fd \in Fds /\ live' = live /\ live \subseteq Pids
    BY <1>0, <2>2
  <2>9. delivered' = delivered /\ crossed' = crossed
    BY <2>2
  <2> QED BY <1>0, <2>3, <2>6, <2>7, <2>8, <2>9, ReadsOfOthers
<1>4. ASSUME NEW p \in Pids, NEW fd \in Fds, Close(p, fd) PROVE ReadInv'
  <2>1. /\ file' = [file EXCEPT ![p][fd].flag = FALSE]
        /\ entry' = [entry EXCEPT ![p][fd] = NoEntry]
        /\ delivered' = [delivered EXCEPT ![p][fd] = <<>>]
        /\ crossed' = [crossed EXCEPT ![p][fd] = FALSE]
        /\ live' = live
    BY <1>4 DEF Close, Forget
  <2>2. \A q \in Pids, k \in Fds : q # p \/ k # fd =>
          /\ file'[q][k] = file[q][k] /\ entry'[q][k] = entry[q][k]
          /\ crossed'[q][k] = crossed[q][k]
    BY <1>0, <2>1
  <2>3. /\ delivered'[p][fd] = <<>>
        /\ \A q \in Pids, k \in Fds : q # p \/ k # fd =>
             delivered'[q][k] = delivered[q][k]
    <3>1. delivered = [q \in Pids |-> [k \in Fds |-> delivered[q][k]]]
      BY <1>0 DEF Forgotten
    <3> QED BY <2>1, <3>1
  <2>4. DeliveredType(p, fd)'
    BY <2>3, NothingDelivered DEF DeliveredType
  <2>5. ~ file'[p][fd].flag
    <3>1. file[p][fd] \in FileStruct
      BY <1>0
    <3>2. file'[p][fd] = [file[p][fd] EXCEPT !.flag = FALSE]
      BY <1>0, <2>1
    <3> QED BY <3>1, <3>2 DEF FileStruct
  <2>6. live' = live /\ live \subseteq Pids
    BY <1>0, <2>1
  <2> QED BY <1>0, <2>2, <2>3, <2>4, <2>5, <2>6, ReadsOfOthers
<1>5. ASSUME NEW p \in Pids, NEW fd \in Opened, NEW n \in Nat, NEW s,
             Moves(p, fd, n, s),
             DeliveredType(p, fd)', FileRead(p, fd)', DirectoryListed(p, fd)'
      PROVE  ReadInv'
  <2>1. \A q \in Pids, k \in Fds : q # p \/ k # fd =>
          /\ file'[q][k] = file[q][k]
          /\ delivered'[q][k] = delivered[q][k]
    BY <1>0, <1>5, CellMoves
  <2>2. /\ entry' = entry /\ live' = live /\ live \subseteq Pids
        /\ \A q \in Pids, k \in Fds : q # p \/ k # fd =>
             crossed'[q][k] = crossed[q][k]
    BY <1>0, <1>5 DEF Moves
  <2>3. fd \in Fds
    OBVIOUS
  <2> QED BY <1>0, <1>5, <2>1, <2>2, <2>3, ReadsOfOthers
<1>6. ASSUME NEW p \in Pids, NEW fd \in Fds, DirectoryRead(p, fd)
      PROVE  ReadInv'
  BY <1>5, <1>6, DirectoryReadMoves, DirectoryReadGoesOn
<1>7. ASSUME NEW p \in Pids, NEW fd \in Fds, NEW nbytes \in Requests,
             ReadFile(p, fd, nbytes)
      PROVE  ReadInv'
  BY <1>5, <1>7, ReadFileMoves, FileReadGoesOn
<1>8. CASE UNCHANGED vars
  BY <1>8 DEF vars, ReadInv, DeliveredType, FileRead, DirectoryListed
<1> QED BY <1>1, <1>2, <1>3, <1>4, <1>6, <1>7, <1>8 DEF Next

\* The reads of a descriptor deliver the file it was opened with, from the
\* beginning and without a gap, as long as none crosses the end of a block; and
\* those of the directory list it.
THEOREM ReadsStayInOrder == Spec => []ReadsGoOn
<1>1. Spec => [](DescriptorInv /\ ReadInv)
  BY DescriptorInit, DescriptorNext, ReadInit, ReadNext, PTL DEF Spec
<1>2. DescriptorInv /\ ReadInv => ReadsGoOn
  <2> SUFFICES ASSUME DescriptorInv, ReadInv,
                      NEW p \in live, NEW fd \in Opened, InUse(p, fd)
               PROVE  FileRead(p, fd) /\ DirectoryListed(p, fd)
    BY DEF ReadsGoOn, ReadsReturnFile, ReadsListDirectory, FileRead,
           DirectoryListed, DirectoryNames
  <2> QED BY DEF ReadInv, InUse
<1> QED BY <1>1, <1>2, PTL

-----------------------------------------------------------------------------
(* One call of read_data(), or of loader(), on any file of any image.      *)

\* All blocks of the file are in the image.
InImage(node) ==
  \A k \in 0 .. node.length - 1 :
    BlockNumber(node, k \div BlockSize) < NumBlocks

LEMMA ImageFileIs ==
  ASSUME NEW node \in ImageFiles
  PROVE  /\ node \in InodeType /\ InImage(node)
         /\ node.length <= Word \div 2
<1> DEFINE N(len) == (len + BlockSize - 1) \div BlockSize
<1>1. PICK len \in 0 .. NumBlocks * BlockSize :
        /\ node.length = len
        /\ node.blocks \in [1 .. N(len) -> 0 .. NumBlocks - 1]
        /\ node = [length |-> node.length, blocks |-> node.blocks]
  BY DEF ImageFiles
<1>2. NumBlocks * BlockSize \in Nat /\ len \in Nat
  BY FileSystemAssumption
<1>3. PICK n \in Nat : n = N(len)
  <2>1. len + BlockSize - 1 \in Nat /\ BlockSize \in Nat \ {0}
    BY <1>2, FileSystemAssumption
  <2> QED BY <2>1, Division
<1>4. node.blocks \in Seq(Nat) /\ n = Len(node.blocks)
  <2> HIDE DEF N
  <2>1. node.blocks \in [1 .. n -> Nat]
    BY <1>1, <1>3, FileSystemAssumption
  <2> QED BY <2>1
<1>5. node \in InodeType
  BY <1>1, <1>2, <1>4 DEF InodeType
<1>6. ASSUME NEW k \in 0 .. len - 1
      PROVE  BlockNumber(node, k \div BlockSize) < NumBlocks
  <2> k \in Nat
    OBVIOUS
  <2>1. PICK q \in Nat : q = k \div BlockSize
    BY FileSystemAssumption, Division
  <2>2. q < n
    <3>1. len + BlockSize - 1 \in Nat
      BY <1>2, FileSystemAssumption
    <3>2. PICK r \in 0 .. BlockSize - 1 :
            len + BlockSize - 1 = n * BlockSize + r
      BY <1>3, <3>1, FileSystemAssumption, Division
    <3>3. PICK r2 \in 0 .. BlockSize - 1 : k = q * BlockSize + r2
      BY <2>1, FileSystemAssumption, Division
    <3>4. q * BlockSize < n * BlockSize
      BY <1>2, <3>2, <3>3, FileSystemAssumption
    <3> QED BY <3>4, FileSystemAssumption
  <2>3. BlockNumber(node, q) = node.blocks[q + 1]
    BY <1>4, <2>1, <2>2 DEF BlockNumber
  <2>4. node.blocks[q + 1] \in 0 .. NumBlocks - 1
    <3> HIDE DEF N
    <3> QED BY <1>1, <1>3, <2>2
  <2> QED BY <2>1, <2>3, <2>4, FileSystemAssumption
<1>7. node.length <= Word \div 2
  BY <1>1, <1>2, FileSystemAssumption, ImageAssumption
<1> QED BY <1>1, <1>5, <1>6, <1>7 DEF InImage

LEMMA MinOfTwo ==
  ASSUME NEW a \in Nat, NEW b \in Nat
  PROVE  Min({a, b}) = IF a <= b THEN a ELSE b
<1> DEFINE m == IF a <= b THEN a ELSE b
<1>1. m \in {a, b} /\ \A y \in {a, b} : m <= y
  OBVIOUS
<1>2. \A x \in {a, b} : (\A y \in {a, b} : x <= y) => x = m
  OBVIOUS
<1> HIDE DEF m
<1>3. Min({a, b}) = CHOOSE x \in {a, b} : \A y \in {a, b} : x <= y
  BY Zenon DEF Min
<1> QED BY <1>1, <1>2, <1>3

\* How much a read copies: what was asked for, or what is left.  It is the
\* lesser of the two unless the sum wraps.
LEMMA CutIs ==
  ASSUME NEW node \in InodeType, NEW pos \in 0 .. node.length,
         NEW len \in Nat
  PROVE  LET n == Cut(node, pos, len) IN
         /\ n = len \/ (n = node.length - pos /\ n <= len)
         /\ pos + len <= node.length => n = len
         /\ pos + len < Word /\ pos + len > node.length
              => n = node.length - pos
<1>1. PICK l \in Nat : l = node.length
  BY DEF InodeType
<1>2. PICK x \in Nat : x = len + pos
  BY <1>1
<1>3. PICK y \in Nat : y = x % Word /\ y <= x /\ (x < Word => y = x)
  <2>0. /\ x \div Word \in Nat /\ x % Word \in Nat
        /\ x = (x \div Word) * Word + (x % Word)
    BY FileSystemAssumption, Division
  <2>1. PICK y, q \in Nat : y = x % Word /\ x = q * Word + y
    BY <2>0
  <2>2. q * Word \in Nat
    BY FileSystemAssumption
  <2>3. x < Word => y = x
    BY <2>1, FileSystemAssumption, SmallDivision
  <2> QED BY <2>1, <2>2, <2>3
<1>4. Cut(node, pos, len) = IF y > l THEN l - pos ELSE len
  BY <1>1, <1>2, <1>3 DEF Cut
<1> QED BY <1>1, <1>2, <1>3, <1>4

\* A piece of a sequence of bytes.
LEMMA Piece ==
  ASSUME NEW s \in Seq(Int), NEW a \in Nat, NEW m \in Nat, a + m <= Len(s)
  PROVE  /\ SubSeq(s, a + 1, a + m) \in Seq(Int)
         /\ m = Len(SubSeq(s, a + 1, a + m))
         /\ \A k \in 1 .. m : SubSeq(s, a + 1, a + m)[k] = s[a + k]
<1>1. PICK l \in Nat : l = Len(s)
  BY LenProperties
<1>2. \A k \in a + 1 .. a + m : s[k] \in Int
  BY <1>1
<1>3. \A k \in 1 .. m :
        /\ k \in 1 .. (a + m) - (a + 1) + 1
        /\ (a + 1) + k - 1 = a + k
  OBVIOUS
<1>4. /\ a + 1 \in Int /\ a + m \in Int
      /\ m = IF a + 1 <= a + m THEN (a + m) - (a + 1) + 1 ELSE 0
  OBVIOUS
<1>5. /\ SubSeq(s, a + 1, a + m) \in Seq(Int)
      /\ Len(SubSeq(s, a + 1, a + m)) =
           IF a + 1 <= a + m THEN (a + m) - (a + 1) + 1 ELSE 0
      /\ \A k \in 1 .. (a + m) - (a + 1) + 1 :
           SubSeq(s, a + 1, a + m)[k] = s[(a + 1) + k - 1]
  BY <1>2, <1>4, SubSeqProperties
<1> QED BY <1>3, <1>4, <1>5

LEMMA WantedIs ==
  ASSUME NEW node \in InodeType, NEW pos \in 0 .. node.length,
         NEW len \in Nat
  PROVE  \E m \in Nat :
           /\ m = IF pos + len <= node.length THEN len ELSE node.length - pos
           /\ Wanted(node, pos, len) \in Seq(Int)
           /\ m = Len(Wanted(node, pos, len))
           /\ \A k \in 1 .. m :
                Wanted(node, pos, len)[k] = Content(node)[pos + k]
<1>0. PICK m \in Nat :
        m = IF pos + len <= node.length THEN len ELSE node.length - pos
  BY DEF InodeType
<1>1. PICK l \in Nat : l = node.length
  BY DEF InodeType
<1>2. Content(node) \in Seq(Int) /\ l = Len(Content(node))
  BY <1>1, ContentType
<1>3. Min({pos + len, l}) = pos + m
  <2>1. pos + len \in Nat
    BY <1>1
  <2> QED BY <1>0, <1>1, <2>1, MinOfTwo
<1>4. Wanted(node, pos, len) = SubSeq(Content(node), pos + 1, pos + m)
  BY <1>1, <1>3 DEF Wanted
<1>5. pos \in Nat /\ pos + m \in Nat /\ pos + m <= l
  BY <1>0, <1>1
<1> DEFINE content == Content(node)
<1> HIDE DEF content
<1>6. /\ SubSeq(content, pos + 1, pos + m) \in Seq(Int)
      /\ Len(SubSeq(content, pos + 1, pos + m)) = m
      /\ \A k \in 1 .. m :
           SubSeq(content, pos + 1, pos + m)[k] = content[pos + k]
  <2>1. content \in Seq(Int) /\ l = Len(content)
    BY <1>2 DEF content
  <2> QED BY <1>5, <2>1, Piece
<1> QED BY <1>0, <1>4, <1>6 DEF content

\* What read_data() does with n bytes to copy.
Ends(node, pos, n) ==
  IF n > Room THEN Exception ELSE Returns(Int32(n), Copied(node, pos, n))

LEMMA ReadIs ==
  ASSUME NEW node \in InodeType, InImage(node),
         NEW pos \in 0 .. node.length, NEW len \in Nat
  PROVE  ReadData([i \in {0} |-> node], 0, pos, len) =
           IF pos = node.length THEN Returns(0, <<>>)
           ELSE Ends(node, pos, Cut(node, pos, len))
<1>1. PICK l \in Nat : l = node.length
  BY DEF InodeType
<1> DEFINE inodes == [i \in {0} |-> node]
<1>2. 0 \in DOMAIN inodes /\ inodes[0] = node
  OBVIOUS
<1> HIDE DEF inodes
<1>3. pos >= node.length <=> pos = node.length
  BY <1>1
<1>4. pos # node.length => ~ BlockNumber(node, pos \div BlockSize) >= NumBlocks
  <2>1. SUFFICES ASSUME pos # node.length
                 PROVE  ~ BlockNumber(node, pos \div BlockSize) >= NumBlocks
    OBVIOUS
  <2>2. pos \in 0 .. node.length - 1 /\ pos \in Nat
    BY <1>1, <2>1
  <2>3. BlockNumber(node, pos \div BlockSize) < NumBlocks
    BY <2>2 DEF InImage
  <2>4. pos \div BlockSize \in Nat
    BY <2>2, Division, FileSystemAssumption
  <2>5. BlockNumber(node, pos \div BlockSize) \in Nat
    BY <2>4, BlockNumberIsNat
  <2> QED BY <2>3, <2>5, FileSystemAssumption
<1>5. ReadData(inodes, 0, pos, len) =
        IF pos >= node.length THEN Returns(0, <<>>)
        ELSE IF BlockNumber(node, pos \div BlockSize) >= NumBlocks
             THEN Failure
             ELSE Ends(node, pos, Cut(node, pos, len))
  BY <1>2 DEF ReadData, Ends
<1> QED BY <1>3, <1>4, <1>5 DEF inodes

\* What fits in the buffer is returned as it is.
LEMMA EndsWell ==
  ASSUME NEW node, NEW pos, NEW n \in Nat
  PROVE  /\ n <= Room => Ends(node, pos, n) = Returns(n, Copied(node, pos, n))
         /\ n > Room => Ends(node, pos, n) = Exception
<1>1. Room \in Nat /\ Word \div 2 \in Nat /\ Room < Word \div 2
  BY FileSystemAssumption
<1>2. n <= Room => ~ n > Room /\ Int32(n) = n
  BY <1>1 DEF Int32
<1> QED BY <1>2 DEF Ends

\* The bridge from MCFileSystem, of which MCFiles has an instance.
LEMMA CallIs ==
  /\ C!Result = ReadData([i \in {0} |-> ino], 0, offset, length)
  /\ C!Right = Wanted(ino, offset, length)
  /\ C!LoaderCopiesFile <=> Loader([i \in {0} |-> ino], 0) = Content(ino)
<1>1. C!Result = ReadData([i \in {0} |-> ino], 0, offset, length)
  BY Zenon DEF C!Result, C!ReadData, C!Cut, C!Copied, C!BlockNumber,
               C!Failure, C!Exception, C!Returns, C!Int32, ReadData, Cut,
               Copied, BlockNumber, Failure, Exception, Returns, Int32
<1>2. C!Right = Wanted(ino, offset, length)
  BY Zenon DEF C!Right, C!Wanted, C!Content, C!BlockNumber, C!Min,
               Wanted, Content, BlockNumber, Min
<1>3. C!LoaderCopiesFile <=> Loader([i \in {0} |-> ino], 0) = Content(ino)
  BY Zenon DEF C!LoaderCopiesFile, C!Loader, C!ReadData, C!Cut, C!Copied,
               C!BlockNumber, C!Failure, C!Exception, C!Returns, C!Int32,
               C!Content, C!FlattenSeq, Loader, ReadData, Cut, Copied,
               BlockNumber, Failure, Exception, Returns, Int32, Content,
               FlattenSeq
<1> QED BY <1>1, <1>2, <1>3

\* The call on the other image, which may be NoCall.
CallInv ==
  /\ ino \in InodeType /\ InImage(ino)
  /\ ino.length <= Word \div 2
  /\ offset \in 0 .. ino.length
  /\ length \in Nat

LEMMA CallInvariant == MCSpec => []CallInv
<1>1. MCInit => CallInv
  <2>1. ImageFiles = C!ImageFiles
    BY Zenon DEF ImageFiles, C!ImageFiles, C!IsInjective, IsInjective
  <2>2. C!Init => /\ ino \in ImageFiles /\ offset \in 0 .. ino.length
                  /\ length \in 0 .. Word - 1
    BY <2>1, Zenon DEF C!Init
  <2> QED BY <2>2, ImageFileIs DEF MCInit, CallInv
<1>2. CallInv /\ [MCNext]_<<vars, call>> => CallInv'
  <2> SUFFICES ASSUME CallInv, [MCNext]_<<vars, call>> PROVE CallInv'
    OBVIOUS
  <2>1. CASE CallReturns
    <3>1. /\ ino' = [length |-> 0, blocks |-> <<>>]
          /\ offset' = 0 /\ length' = 0
      BY <2>1 DEF CallReturns, NoCall
    <3>2. ino' \in InodeType /\ ino'.length = 0
      BY <3>1 DEF InodeType
    <3>3. offset' \in 0 .. ino'.length /\ length' \in Nat
      BY <3>1, <3>2
    <3>4. InImage(ino)'
      BY <3>2 DEF InImage
    <3>5. 0 <= Word \div 2
      BY FileSystemAssumption
    <3> QED BY <3>2, <3>3, <3>4, <3>5 DEF CallInv
  <2>2. CASE UNCHANGED call
    BY <2>2 DEF call, CallInv, InImage, BlockNumber
  <2> QED BY <2>1, <2>2 DEF MCNext, call
<1> QED BY <1>1, <1>2, PTL DEF MCSpec

\* A call of read_data() on any file of any image, from any offset and with
\* any length, also one that wraps: when it returns, it has copied as many bytes
\* as it says, those up to the end of the first block being those of the file;
\* it faults only when it is asked for more than there is room for.
THEOREM FirstBlocksAreCopied == MCSpec => []FirstBlockIsCopied
<1>1. CallInv => FirstBlockIsCopied
  <2> SUFFICES ASSUME CallInv PROVE FirstBlockIsCopied
    OBVIOUS
  <2> DEFINE right == Wanted(ino, offset, length)
             result == ReadData([i \in {0} |-> ino], 0, offset, length)
             n == Cut(ino, offset, length)
             r == offset % BlockSize
             first == Min({BlockSize - r, Len(right)})
  <2>1. /\ ino \in InodeType /\ InImage(ino)
        /\ offset \in 0 .. ino.length /\ length \in Nat
    BY DEF CallInv
  <2>2. PICK l \in Nat : l = ino.length
    BY <2>1 DEF InodeType
  <2>3. PICK m \in Nat :
          /\ m = IF offset + length <= ino.length THEN length
                 ELSE ino.length - offset
          /\ right \in Seq(Int) /\ m = Len(right)
          /\ \A k \in 1 .. m : right[k] = Content(ino)[offset + k]
    BY <2>1, WantedIs
  <2>4. /\ right \in Seq(Int) /\ m = Len(right) /\ offset + m <= ino.length
        /\ \A k \in 1 .. m : right[k] = Content(ino)[offset + k]
    <3> HIDE DEF right
    <3> QED BY <2>1, <2>2, <2>3
  <2>5. offset \in Nat /\ r \in 0 .. BlockSize - 1
    BY <2>1, <2>2, Division, FileSystemAssumption
  <2>6. PICK f \in Nat : f = first /\ f <= m /\ r + f <= BlockSize
    <3>1. PICK b \in Nat : b = BlockSize - r
      BY <2>5, FileSystemAssumption
    <3>2. first = IF b <= m THEN b ELSE m
      BY <2>4, <3>1, MinOfTwo
    <3> HIDE DEF first, r, right
    <3> QED BY <2>5, <3>1, <3>2, FileSystemAssumption
  <2> DEFINE Good(x) ==
               /\ x.returns =>
                    /\ x.ret = Len(right) /\ Len(x.buf) = Len(right)
                    /\ SubSeq(x.buf, 1, first) = SubSeq(right, 1, first)
               /\ ~x.returns =>
                    length > Room
                      /\ (Len(right) > Room \/ offset + length >= Word)
  <2>7. ASSUME offset = ino.length PROVE Good(result)
    <3>1. result = Returns(0, <<>>)
      BY <2>1, <2>7, ReadIs
    <3>2. m = 0 /\ f = 0
      BY <2>1, <2>2, <2>3, <2>6, <2>7
    <3>3. SubSeq(<<>>, 1, 0) = <<>> /\ SubSeq(right, 1, 0) = <<>>
      BY SubSeqEmpty
    <3>4. result.returns /\ result.ret = 0 /\ result.buf = <<>>
      BY <3>1 DEF Returns
    <3> HIDE DEF result, right, first
    <3> QED BY <2>1, <2>4, <2>6, <3>2, <3>3, <3>4
  <2>8. ASSUME offset # ino.length PROVE Good(result)
    <3>1. result = Ends(ino, offset, n)
      BY <2>1, <2>8, ReadIs
    <3>2. /\ n = length \/ (n = ino.length - offset /\ n <= length)
          /\ offset + length <= ino.length => n = length
          /\ offset + length < Word /\ offset + length > ino.length
               => n = ino.length - offset
      BY <2>1, CutIs
    <3> HIDE DEF n
    <3>3. /\ n \in Nat /\ n <= length /\ m <= n
          /\ offset + length < Word => n = m
      BY <2>1, <2>2, <2>3, <3>2
    <3>4. Room \in Nat /\ 2 * Room < Word
      <4>1. Word \div 2 \in Nat /\ 2 * (Word \div 2) <= Word
        BY FileSystemAssumption
      <4> QED BY <4>1, FileSystemAssumption
    <3>5. CASE n > Room
      <4>1. ~result.returns
        BY <3>1, <3>3, <3>5, EndsWell DEF Exception
      <4> HIDE DEF result, right
      <4>2. length > Room
        BY <2>1, <3>3, <3>4, <3>5
      <4>3. m > Room \/ offset + length >= Word
        BY <2>1, <2>5, <3>3, <3>5, FileSystemAssumption
      <4> QED BY <2>4, <4>1, <4>2, <4>3
    <3>6. CASE ~ n > Room
      <4>1. result = Returns(n, Copied(ino, offset, n))
        BY <3>1, <3>3, <3>4, <3>6, EndsWell
      <4>2. n = m
        <5>1. Word \div 2 \in Nat /\ 2 * (Word \div 2) <= Word
          BY FileSystemAssumption
        <5>2. offset <= Word \div 2
          BY <2>1, <2>2, <5>1 DEF CallInv
        <5>3. Room < Word \div 2
          BY FileSystemAssumption
        <5>4. ~ offset + length < Word => n = length \/ n = m
          BY <2>1, <2>2, <2>3, <3>2, <3>3
        <5> QED BY <2>1, <2>5, <3>3, <3>4, <3>6, <5>1, <5>2, <5>3, <5>4,
                   FileSystemAssumption
      <4>3. n \in Nat /\ m <= n
        BY <3>3
      <4> DEFINE buf == Copied(ino, offset, n)
      <4>4. buf \in Seq(Int) /\ n = Len(buf)
        BY <2>1, <2>5, <3>3, CopiedType
      <4>5. ASSUME NEW k \in 1 .. f PROVE buf[k] = right[k]
        <5>1. k \in 1 .. n /\ k \in 1 .. m
          BY <2>6, <3>3
        <5>2. offset + k <= ino.length /\ r + k <= BlockSize
          <6>1. k <= m /\ k <= f
            BY <2>6, <5>1
          <6>2. offset + k <= ino.length
            BY <2>2, <2>4, <2>5, <5>1, <6>1
          <6> HIDE DEF r
          <6>3. r + k <= BlockSize
            BY <2>5, <2>6, <6>1, FileSystemAssumption
          <6> QED BY <6>2, <6>3
        <5>3. buf[k] = Content(ino)[offset + k]
          BY <2>1, <2>5, <3>3, <5>1, <5>2, CopiedIsContent
        <5> QED BY <2>4, <5>1, <5>3
      <4>6. SubSeq(buf, 1, f) = SubSeq(right, 1, f)
        <5> HIDE DEF buf, right
        <5>0. 0 \in Nat /\ 0 + f <= n /\ 0 + f <= m
          BY <2>6, <3>3
        <5>1. /\ SubSeq(buf, 0 + 1, 0 + f) \in Seq(Int)
              /\ f = Len(SubSeq(buf, 0 + 1, 0 + f))
              /\ \A k \in 1 .. f : SubSeq(buf, 0 + 1, 0 + f)[k] = buf[0 + k]
          BY <5>0, <4>4, Piece
        <5>2. /\ SubSeq(right, 0 + 1, 0 + f) \in Seq(Int)
              /\ f = Len(SubSeq(right, 0 + 1, 0 + f))
              /\ \A k \in 1 .. f : SubSeq(right, 0 + 1, 0 + f)[k] = right[0 + k]
          BY <5>0, <2>4, Piece
        <5>3. 0 + 1 = 1 /\ 0 + f = f /\ \A k \in 1 .. f : 0 + k = k
          OBVIOUS
        <5>4. \A k \in 1 .. f : SubSeq(buf, 1, f)[k] = SubSeq(right, 1, f)[k]
          BY <4>5, <5>1, <5>2, <5>3
        <5> QED BY <5>1, <5>2, <5>3, <5>4, SeqEqual
      <4> HIDE DEF buf, right, first
      <4>7. result.returns /\ result.ret = n /\ result.buf = buf
        BY <4>1 DEF buf, Returns
      <4> HIDE DEF result
      <4> QED BY <2>4, <2>6, <4>2, <4>4, <4>6, <4>7
    <3> QED BY <3>3, <3>4, <3>5, <3>6
  <2>9. Good(result)
    BY <2>7, <2>8
  <2>10. C!FirstBlockIsCopied
    <3>1. C!Min({BlockSize - r, Len(right)}) = first
      BY Zenon DEF C!Min, Min
    <3> HIDE DEF first
    <3>2. C!FirstBlockIsCopied <=> Good(result)
      BY <3>1, CallIs, Zenon DEF C!FirstBlockIsCopied
    <3> QED BY <2>9, <3>2
  <2> QED BY <2>10 DEF FirstBlockIsCopied
<1> QED BY <1>1, CallInvariant, PTL

\* FlattenSeq is a recursive function, whose value is that of any function
\* that satisfies its definition.
LEMMA FlattenIs ==
  ASSUME NEW seqs, NEW n \in Nat \ {0}, n = Len(seqs), NEW g,
         g = [i \in 1 .. n |->
                IF i = 1 THEN seqs[i] ELSE g[i - 1] \o seqs[i]]
  PROVE  FlattenSeq(seqs) = g[n]
<1> DEFINE flatten == CHOOSE f :
             f = [i \in 1 .. Len(seqs) |->
                    IF i = 1 THEN seqs[i] ELSE f[i - 1] \o seqs[i]]
<1>1. FlattenSeq(seqs) = flatten[Len(seqs)]
  <2>1. Len(seqs) # 0
    OBVIOUS
  <2>2. FlattenSeq(seqs) = IF Len(seqs) = 0 THEN seqs ELSE flatten[Len(seqs)]
    BY Zenon DEF FlattenSeq
  <2> HIDE DEF flatten
  <2> QED BY <2>1, <2>2
<1>2. flatten = [i \in 1 .. Len(seqs) |->
                   IF i = 1 THEN seqs[i] ELSE flatten[i - 1] \o seqs[i]]
  <2>1. g = [i \in 1 .. Len(seqs) |->
               IF i = 1 THEN seqs[i] ELSE g[i - 1] \o seqs[i]]
    OBVIOUS
  <2> QED BY <2>1, Zenon
<1> HIDE DEF flatten
<1>3. \A i \in 1 .. n :
        flatten[i] = IF i = 1 THEN seqs[i] ELSE flatten[i - 1] \o seqs[i]
  <2>1. 1 .. n = 1 .. Len(seqs)
    OBVIOUS
  <2> QED BY <1>2, <2>1, Zenon
<1>4. \A i \in 1 .. n : g[i] = IF i = 1 THEN seqs[i] ELSE g[i - 1] \o seqs[i]
  BY Zenon
<1> DEFINE D == {i \in 1 .. n : flatten[i] # g[i]}
<1>5. D = {}
  <2> SUFFICES ASSUME D # {} PROVE FALSE
    OBVIOUS
  <2>1. D \subseteq Nat
    OBVIOUS
  <2>2. PICK i \in D : \A j \in D : i <= j
    <3> HIDE DEF D
    <3> QED BY <2>1, LeastNat
  <2>3. i # 1
    BY <1>3, <1>4
  <2>4. i - 1 \in 1 .. n /\ ~ i <= i - 1
    BY <2>3
  <2>5. flatten[i - 1] = g[i - 1]
    BY <2>2, <2>4
  <2> QED BY ZenonT(60), <1>3, <1>4, <2>3, <2>5
<1>6. flatten[n] = g[n]
  <2>1. n \in 1 .. n
    OBVIOUS
  <2> QED BY <1>5, <2>1
<1> QED BY <1>1, <1>6

\* Two prefixes' ends: a piece that follows a prefix makes a longer one.
LEMMA PieceFollows ==
  ASSUME NEW s \in Seq(Int), NEW a \in Nat, NEW m \in Nat, a + m <= Len(s),
         NEW t \in Seq(Int), m = Len(t),
         \A k \in 1 .. m : t[k] = s[a + k]
  PROVE  SubSeq(s, 1, a) \o t = SubSeq(s, 1, a + m)
<1>1. /\ SubSeq(s, 1, a) \in Seq(Int) /\ a = Len(SubSeq(s, 1, a))
      /\ \A k \in 1 .. a : SubSeq(s, 1, a)[k] = s[k]
  <2>1. /\ SubSeq(s, 0 + 1, 0 + a) \in Seq(Int)
        /\ a = Len(SubSeq(s, 0 + 1, 0 + a))
        /\ \A k \in 1 .. a : SubSeq(s, 0 + 1, 0 + a)[k] = s[0 + k]
    <3>1. 0 \in Nat /\ 0 + a <= Len(s)
      BY LenProperties
    <3> QED BY <3>1, Piece
  <2>2. 0 + 1 = 1 /\ 0 + a = a /\ \A k \in 1 .. a : 0 + k = k
    OBVIOUS
  <2> QED BY <2>1, <2>2
<1>2. /\ SubSeq(s, 1, a + m) \in Seq(Int) /\ a + m = Len(SubSeq(s, 1, a + m))
      /\ \A k \in 1 .. a + m : SubSeq(s, 1, a + m)[k] = s[k]
  <2>1. /\ SubSeq(s, 0 + 1, 0 + (a + m)) \in Seq(Int)
        /\ a + m = Len(SubSeq(s, 0 + 1, 0 + (a + m)))
        /\ \A k \in 1 .. a + m : SubSeq(s, 0 + 1, 0 + (a + m))[k] = s[0 + k]
    <3>1. 0 \in Nat /\ a + m \in Nat /\ 0 + (a + m) <= Len(s)
      BY LenProperties
    <3> QED BY <3>1, Piece
  <2>2. 0 + 1 = 1 /\ 0 + (a + m) = a + m /\ \A k \in 1 .. a + m : 0 + k = k
    OBVIOUS
  <2> QED BY <2>1, <2>2
<1> DEFINE p == SubSeq(s, 1, a)
           q == SubSeq(s, 1, a + m)
<1> HIDE DEF p, q
<1>3. p \o t \in Seq(Int) /\ Len(p \o t) = a + m
  BY <1>1, LengthsAdd DEF p
<1>4. \A k \in 1 .. a + m : (p \o t)[k] = q[k]
  <2> SUFFICES ASSUME NEW k \in 1 .. a + m PROVE (p \o t)[k] = q[k]
    OBVIOUS
  <2>1. p \in Seq(Int) /\ a = Len(p)
    BY <1>1 DEF p
  <2>2. (p \o t)[k] = IF k <= a THEN p[k] ELSE t[k - a]
    BY <2>1, ConcatProperties
  <2>3. CASE k <= a
    BY <1>1, <1>2, <2>2, <2>3 DEF p, q
  <2>4. CASE ~ k <= a
    <3>1. k - a \in 1 .. m /\ a + (k - a) = k
      BY <2>4
    <3>2. t[k - a] = s[k]
      BY <3>1
    <3> QED BY <1>2, <2>2, <2>4, <3>2 DEF q
  <2> QED BY <2>3, <2>4
<1>5. q \in Seq(Int) /\ a + m = Len(q)
  BY <1>2 DEF q
<1> QED BY <1>3, <1>4, <1>5, SeqEqual DEF p, q

\* A read of at most a block from its beginning.
LEMMA BlockIsRead ==
  ASSUME NEW node \in InodeType, InImage(node), NEW a \in Nat, NEW m \in Nat,
         a + m <= node.length, a % BlockSize = 0, m <= BlockSize
  PROVE  \E t \in Seq(Int) :
           /\ t = ReadData([i \in {0} |-> node], 0, a, m).buf
           /\ m = Len(t)
           /\ \A k \in 1 .. m : t[k] = Content(node)[a + k]
<1> DEFINE result == ReadData([i \in {0} |-> node], 0, a, m)
<1>1. PICK l \in Nat : l = node.length
  BY DEF InodeType
<1>2. a \in 0 .. node.length
  BY <1>1
<1>3. CASE a = node.length
  <2>1. result = Returns(0, <<>>)
    BY <1>2, <1>3, ReadIs
  <2>2. m = 0
    BY <1>1, <1>3
  <2> HIDE DEF result
  <2> DEFINE t == <<>>
  <2>3. t = result.buf /\ t \in Seq(Int) /\ m = Len(t)
    BY <2>1, <2>2 DEF Returns
  <2>4. \A k \in 1 .. m : t[k] = Content(node)[a + k]
    BY <2>2
  <2> HIDE DEF t
  <2> QED BY <2>3, <2>4 DEF result
<1>4. CASE a # node.length
  <2>1. Cut(node, a, m) = m
    BY <1>2, CutIs
  <2>2. result = Returns(m, Copied(node, a, m))
    <3>1. m <= Room
      BY FileSystemAssumption
    <3> QED BY <1>2, <1>4, <2>1, <3>1, ReadIs, EndsWell
  <2>3. ASSUME NEW k \in 1 .. m
        PROVE  Copied(node, a, m)[k] = Content(node)[a + k]
    <3>1. a + k <= node.length /\ (a % BlockSize) + k <= BlockSize
      BY <1>1, FileSystemAssumption
    <3> QED BY <3>1, CopiedIsContent
  <2>4. Copied(node, a, m) \in Seq(Int) /\ m = Len(Copied(node, a, m))
    BY CopiedType
  <2> HIDE DEF result
  <2>5. result.buf = Copied(node, a, m)
    BY <2>2 DEF Returns
  <2> QED BY <2>3, <2>4, <2>5 DEF result
<1> QED BY <1>3, <1>4

\* The pieces of loader(): whole blocks, and then what is left.
LEMMA LoaderCopies ==
  ASSUME NEW node \in InodeType, InImage(node)
  PROVE  Loader([i \in {0} |-> node], 0) = Content(node)
<1> DEFINE inodes == [i \in {0} |-> node]
           size   == inodes[0].length
           whole  == IF size > BlockSize THEN (size - 1) \div BlockSize ELSE 0
           piece(i) == ReadData(inodes, 0, i * BlockSize,
                         IF i < whole THEN BlockSize
                         ELSE size - i * BlockSize).buf
           content == Content(node)
<1>1. PICK l \in Nat : l = node.length /\ l = size
  BY DEF InodeType
<1>2. PICK w \in Nat :
        w = whole /\ w * BlockSize <= l /\ l <= w * BlockSize + BlockSize
  <2>1. CASE l > BlockSize
    <3>1. l - 1 \in Nat
      BY <2>1, FileSystemAssumption
    <3>2. /\ (l - 1) \div BlockSize \in Nat
          /\ (l - 1) % BlockSize \in 0 .. BlockSize - 1
          /\ l - 1 = ((l - 1) \div BlockSize) * BlockSize
                       + ((l - 1) % BlockSize)
      BY <3>1, Division, FileSystemAssumption
    <3>3. whole = (l - 1) \div BlockSize
      BY <1>1, <2>1
    <3> HIDE DEF whole
    <3>4. whole \in Nat /\ whole * BlockSize \in Nat
      BY <3>2, <3>3, FileSystemAssumption
    <3> QED BY <3>2, <3>3, <3>4, FileSystemAssumption
  <2>2. CASE ~ l > BlockSize
    <3>1. whole = 0
      BY <1>1, <2>2
    <3> QED BY <2>2, <3>1, FileSystemAssumption
  <2> QED BY <2>1, <2>2
<1> DEFINE End(i) == IF i <= w THEN i * BlockSize ELSE l
           seqs == [i \in 1 .. w + 1 |-> piece(i - 1)]
           g == [i \in 1 .. w + 1 |-> SubSeq(content, 1, End(i))]
<1>3. Loader(inodes, 0) = FlattenSeq(seqs)
  BY <1>2, Zenon DEF Loader
<1>4. content \in Seq(Int) /\ l = Len(content)
  BY <1>1, ContentType
<1>5. ASSUME NEW j \in 0 .. w
      PROVE  \E a, m \in Nat :
               /\ a = End(j) /\ a + m = End(j + 1) /\ a + m <= l
               /\ piece(j) \in Seq(Int) /\ m = Len(piece(j))
               /\ \A k \in 1 .. m : piece(j)[k] = content[a + k]
  <2>1. PICK a \in Nat : a = j * BlockSize /\ a = End(j) /\ a <= w * BlockSize
    BY FileSystemAssumption
  <2>2. PICK m \in Nat :
          /\ m = IF j < whole THEN BlockSize ELSE l - a
          /\ m <= BlockSize /\ a + m = End(j + 1) /\ a + m <= l
    <3> HIDE DEF whole
    <3>1. CASE j < w
      <4>1. a + BlockSize = (j + 1) * BlockSize
        BY <2>1, FileSystemAssumption
      <4>2. (j + 1) * BlockSize <= w * BlockSize
        BY <3>1, FileSystemAssumption
      <4>3. End(j + 1) = (j + 1) * BlockSize
        BY <3>1
      <4> HIDE DEF End
      <4> QED BY <1>2, <2>1, <3>1, <4>1, <4>2, <4>3, FileSystemAssumption
    <3>2. CASE j = w
      <4>1. End(j + 1) = l
        BY <3>2
      <4> HIDE DEF End
      <4> QED BY <1>2, <2>1, <3>2, <4>1, FileSystemAssumption
    <3> QED BY <3>1, <3>2
  <2>3. a % BlockSize = 0
    <3>1. a = j * BlockSize + 0 /\ 0 \in 0 .. BlockSize - 1 /\ j \in Nat
      BY <2>1, FileSystemAssumption
    <3> QED BY <3>1, DivisionIsUnique, FileSystemAssumption
  <2>4. piece(j) = ReadData(inodes, 0, a, m).buf
    BY <1>1, <2>1, <2>2
  <2> HIDE DEF piece, End, whole
  <2>5. a + m <= node.length
    BY <1>1, <2>2
  <2>6. PICK t \in Seq(Int) :
          /\ t = ReadData(inodes, 0, a, m).buf /\ m = Len(t)
          /\ \A k \in 1 .. m : t[k] = content[a + k]
    BY ZenonT(60), <2>2, <2>3, <2>5, BlockIsRead
  <2> HIDE DEF content, inodes
  <2>7. /\ piece(j) \in Seq(Int) /\ m = Len(piece(j))
        /\ \A k \in 1 .. m : piece(j)[k] = content[a + k]
    BY <2>4, <2>6
  <2>8. a = End(j) /\ a + m = End(j + 1) /\ a + m <= l
    BY <2>1, <2>2
  <2> WITNESS a \in Nat, m \in Nat
  <2> QED BY <2>7, <2>8
<1> HIDE DEF piece, content, End
<1>6. g = [i \in 1 .. w + 1 |->
             IF i = 1 THEN seqs[i] ELSE g[i - 1] \o seqs[i]]
  <2> SUFFICES ASSUME NEW i \in 1 .. w + 1
               PROVE  g[i] = IF i = 1 THEN seqs[i] ELSE g[i - 1] \o seqs[i]
    BY Zenon
  <2>1. i - 1 \in 0 .. w /\ (i - 1) + 1 = i
    OBVIOUS
  <2>2. PICK a, m \in Nat :
          /\ a = End(i - 1) /\ a + m = End(i) /\ a + m <= l
          /\ piece(i - 1) \in Seq(Int) /\ m = Len(piece(i - 1))
          /\ \A k \in 1 .. m : piece(i - 1)[k] = content[a + k]
    BY <1>5, <2>1
  <2>3. SubSeq(content, 1, a) \o piece(i - 1) = SubSeq(content, 1, a + m)
    BY ZenonT(60), <1>4, <2>2, PieceFollows
  <2>4. g[i] = SubSeq(content, 1, a + m) /\ seqs[i] = piece(i - 1)
    BY <2>2
  <2>5. CASE i = 1
    <3>1. a = 0
      BY <2>2, <2>5, FileSystemAssumption DEF End
    <3>2. SubSeq(content, 1, 0) = <<>>
      BY SubSeqEmpty
    <3>3. <<>> \o piece(i - 1) = piece(i - 1)
      BY <2>2, ConcatEmptySeq
    <3> QED BY <2>3, <2>4, <2>5, <3>1, <3>2, <3>3
  <2>6. CASE i # 1
    <3>1. g[i - 1] = SubSeq(content, 1, a)
      BY <2>1, <2>2, <2>6
    <3> QED BY <2>3, <2>4, <2>6, <3>1
  <2> QED BY <2>5, <2>6
<1>7. w + 1 = Len(seqs) /\ w + 1 \in Nat \ {0}
  OBVIOUS
<1>8. FlattenSeq(seqs) = g[w + 1]
  <2> HIDE DEF seqs, g
  <2> QED BY ZenonT(60), <1>6, <1>7, FlattenIs
<1>9. g[w + 1] = SubSeq(content, 1, l)
  BY DEF End
<1>10. SubSeq(content, 1, l) = content
  <2>1. <<>> \o content = content /\ SubSeq(content, 1, 0) = <<>>
    BY <1>4, ConcatEmptySeq, SubSeqEmpty
  <2>2. 0 \in Nat /\ 0 + l = l /\ \A k \in 1 .. l : content[k] = content[0 + k]
    OBVIOUS
  <2>3. SubSeq(content, 1, 0) \o content = SubSeq(content, 1, 0 + l)
    BY <1>4, <2>2, PieceFollows
  <2> QED BY <2>1, <2>2, <2>3
<1> QED BY <1>3, <1>8, <1>9, <1>10 DEF content

\* loader() puts every file of every image into memory as it is.
THEOREM LoaderIsRight == MCSpec => []LoaderCopiesFile
<1>1. CallInv => LoaderCopiesFile
  <2> SUFFICES ASSUME CallInv PROVE LoaderCopiesFile
    OBVIOUS
  <2>1. Loader([i \in {0} |-> ino], 0) = Content(ino)
    BY LoaderCopies DEF CallInv
  <2> QED BY <2>1, CallIs DEF LoaderCopiesFile
<1> QED BY <1>1, CallInvariant, PTL
=============================================================================
