-------------------------------- MODULE Files --------------------------------
(***************************************************************************)
(* File descriptors and the read-only file system: open, close, read and   *)
(* write (syscall.c), the descriptors execute sets up, and the lookup and  *)
(* the block-wise copy of filesystem.c.  Descriptors live in the PCB of    *)
(* the calling process, so every call touches one process only.  A byte of *)
(* the image is named by where it is: its block or, as a negative number,  *)
(* its directory entry, and the offset there.                              *)
(***************************************************************************)
EXTENDS Integers, Sequences, FiniteSetsExt

CONSTANTS
    Procs,          \* process slots
    NUM_FD,         \* descriptors of a process (8); 0 is stdin, 1 stdout
    BLOCK,          \* bytes of a block (4096)
    num_of_blocks,  \* data blocks of the image
    NAME,           \* bytes of a name in a directory entry (32)
    Dentries,       \* sequence of [name, filetype, inode_num]
    Inodes,         \* inode number -> [length, blocks]; blocks is a sequence
    Names,          \* the names programs open
    Counts,         \* the byte counts programs pass
    WORD            \* a negative count c is taken as WORD + c (2^32)

ASSUME FilesAssumption ==
    /\ NUM_FD \in Nat /\ NUM_FD > 2
    /\ BLOCK \in Nat \ {0}
    /\ num_of_blocks \in Nat
    /\ NAME \in Nat
    /\ WORD \in Nat \ {0}
    /\ Counts \subseteq Int

\* The boot image: a name is shorter than its field or fills it, entries are of a
\* known type, a file has an inode, and an inode enough blocks for its length.
\* Their numbers may lie outside the image.
ASSUME ImageAssumption ==
    /\ Len(Dentries) \in Nat
    /\ \A i \in 1 .. Len(Dentries) :
         /\ Dentries[i].name \in Seq(Nat) /\ Len(Dentries[i].name) <= NAME
         /\ \A k \in 1 .. Len(Dentries[i].name) : Dentries[i].name[k] # 0
         /\ Dentries[i].filetype \in {0, 1, 2}
         /\ Dentries[i].filetype = 2 => Dentries[i].inode_num \in DOMAIN Inodes
    /\ DOMAIN Inodes \subseteq Nat
    /\ \A n \in DOMAIN Inodes :
         /\ Inodes[n].length \in Nat
         /\ Inodes[n].blocks \in Seq(Nat)
         /\ Inodes[n].length <= Len(Inodes[n].blocks) * BLOCK

VARIABLES
    filesys_desc_array,  \* per process: ops table, inode, position, flags
    ret,                 \* return value of each process's last call
    buf                  \* the data it was given

vars == <<filesys_desc_array, ret, buf>>

Fds == 0 .. NUM_FD - 1
Desc(ops, inode, pos, flags) ==
    [ops |-> ops, inode |-> inode, pos |-> pos, flags |-> flags]

-----------------------------------------------------------------------------
(* filesystem.c                                                             *)

num_of_entries == Len(Dentries)
\* read_dentry_by_name: of a name NAME characters are compared with the entries;
\* the first one that matches is taken.
Compared(name) == IF Len(name) <= NAME THEN name ELSE SubSeq(name, 1, NAME)
Matches(name) == {i \in 1 .. num_of_entries : Dentries[i].name = Compared(name)}
DentryOf(name) == Dentries[Min(Matches(name))]

\* The words of an inode after its last block are zero.
BlockNumber(inode, j) ==
    LET b == Inodes[inode].blocks IN IF j < Len(b) THEN b[j + 1] ELSE 0
Byte(block, off) == <<block, off>>

\* The i-th entry: the name, NULs up to the end of its field, and the type in the
\* low byte of a word.
EntryByte(i, k) ==
    LET name == Dentries[i].name IN
    IF k < Len(name) THEN name[k + 1]
    ELSE IF k = NAME THEN Dentries[i].filetype ELSE 0
\* strlen of the name, which runs on into the type when no NUL ends the field.
fn_len(i) == Min({k \in 0 .. NAME + 1 : EntryByte(i, k) = 0})
EntryString(i) == [k \in 1 .. fn_len(i) |-> Byte(-i, k - 1)]

\* Mutant: k is used before it is advanced, so the same block is read again.
NextBlockSame(inode, offset, s) ==
    IF s.off < BLOCK THEN s
    ELSE [s EXCEPT !.k = s.k + 1, !.off = 0,
                   !.block = BlockNumber(inode, offset \div BLOCK + s.k - 1)]

\* At the end of a block continue in the file's next one.
NextBlock(inode, offset, s) ==
    IF s.off < BLOCK THEN s
    ELSE [s EXCEPT !.k = s.k + 1, !.off = 0,
                   !.block = BlockNumber(inode, offset \div BLOCK + s.k)]

\* The bytes the copy loop has delivered after n rounds, starting at offset.
CopyLoop(inode, offset, n) ==
    LET copy[i \in 0 .. n] ==
          IF i = 0
          THEN [off |-> offset % BLOCK, k |-> 1, out |-> <<>>,
                block |-> BlockNumber(inode, offset \div BLOCK)]
          ELSE LET s == copy[i - 1] IN
               NextBlock(inode, offset,
                         [s EXCEPT !.out = Append(@, Byte(s.block, s.off)),
                                   !.off = @ + 1])
    IN copy[n].out

Failed == [val |-> -1, data |-> <<>>]
Nothing == [val |-> 0, data |-> <<>>]

\* Mutant: the end of the file is not looked at.
RoundsToLength(inode, offset, length) == Min({length, Inodes[inode].length})

\* How often the loop runs: up to the count asked for and the end of the file.
Rounds(inode, offset, length) ==
    Min({length, Inodes[inode].length, Inodes[inode].length - offset})

\* read_data.  Only the first block's number is checked.
read_data(inode, offset, length) ==
    IF offset > Inodes[inode].length THEN Nothing
    ELSE IF BlockNumber(inode, offset \div BLOCK) > num_of_blocks THEN Failed
    ELSE LET n == Rounds(inode, offset, length) IN
         [val |-> n, data |-> CopyLoop(inode, offset, n)]

-----------------------------------------------------------------------------
(* System calls of process p.                                               *)

Table(p) == filesys_desc_array[p]
Usable(p, fd) == Table(p)[fd].flags = 1

Result(p, r) ==
    /\ ret' = [ret EXCEPT ![p] = r.val]
    /\ buf' = [buf EXCEPT ![p] = r.data]

\* execute fills in stdin and stdout and frees the others.
StdDesc == Desc("terminal", 0, 0, 1)
Fresh(table) ==
    [fd \in Fds |-> IF fd < 2 THEN StdDesc ELSE [table[fd] EXCEPT !.flags = 0]]

Init ==
    /\ filesys_desc_array =
         [p \in Procs |-> Fresh([fd \in Fds |-> Desc("none", 0, 0, 0)])]
    /\ ret = [p \in Procs |-> 0]
    /\ buf = [p \in Procs |-> <<>>]

Execute(p) ==
    /\ filesys_desc_array' = [filesys_desc_array EXCEPT ![p] = Fresh(@)]
    /\ Result(p, Nothing)

Free(p) == {fd \in Fds \ {0, 1} : Table(p)[fd].flags = 0}

\* A descriptor for a dentry: the clock, the directory or a file.
Opened(d) ==
    CASE d.filetype = 0 -> Desc("rtc", 0, 0, 1)
      [] d.filetype = 1 -> Desc("files", -1, 0, 1)
      [] d.filetype = 2 -> Desc("files", d.inode_num, 0, 1)

OpenFail(p, name) ==
    /\ Matches(name) = {} \/ Free(p) = {}
    /\ Result(p, Failed)
    /\ UNCHANGED filesys_desc_array

Open(p, name) ==
    /\ Matches(name) # {}
    /\ Free(p) # {}
    /\ LET fd == Min(Free(p)) IN
         /\ filesys_desc_array' =
              [filesys_desc_array EXCEPT ![p][fd] = Opened(DentryOf(name))]
         /\ Result(p, [val |-> fd, data |-> <<>>])

\* Mutant: stdin and stdout can be closed.
ClosableAny(p, fd) == fd \in Fds /\ Usable(p, fd)

Closable(p, fd) == fd \in Fds \ {0, 1} /\ Usable(p, fd)

CloseFail(p, fd) ==
    /\ ~Closable(p, fd)
    /\ Result(p, Failed)
    /\ UNCHANGED filesys_desc_array

Close(p, fd) ==
    /\ Closable(p, fd)
    /\ filesys_desc_array' = [filesys_desc_array EXCEPT ![p][fd].flags = 0]
    /\ Result(p, Nothing)

Readable(p, fd) == fd \in Fds \ {1} /\ Usable(p, fd)

ReadFail(p, fd) ==
    /\ ~Readable(p, fd)
    /\ Result(p, Failed)
    /\ UNCHANGED filesys_desc_array

\* A line of the keyboard (Terminal) or a tick of the clock (Rtc); what these
\* return is left to those modules.
ReadDevice(p, fd) ==
    /\ Readable(p, fd)
    /\ Table(p)[fd].ops \in {"terminal", "rtc"}
    /\ Result(p, Nothing)
    /\ UNCHANGED filesys_desc_array

\* A failed read leaves the position alone.
Advanced(pos, val) == IF val = -1 THEN pos ELSE pos + val

\* filesystem_read of a regular file.
ReadFile(p, fd, cnt) ==
    LET d == Table(p)[fd]
        r == read_data(d.inode, d.pos, cnt % WORD) IN
    /\ Readable(p, fd)
    /\ d.ops = "files"
    /\ d.inode # -1
    /\ filesys_desc_array' =
         [filesys_desc_array EXCEPT ![p][fd].pos = Advanced(@, r.val)]
    /\ Result(p, r)

\* filesystem_read of the directory: a whole string, whatever the count, or 0 and
\* back to the first entry.
ReadDirectory(p, fd) ==
    LET pos == Table(p)[fd].pos IN
    /\ Readable(p, fd)
    /\ Table(p)[fd].ops = "files"
    /\ Table(p)[fd].inode = -1
    /\ IF pos < num_of_entries
       THEN /\ filesys_desc_array' = [filesys_desc_array EXCEPT ![p][fd].pos = pos + 1]
            /\ Result(p, [val |-> fn_len(pos + 1), data |-> EntryString(pos + 1)])
       ELSE /\ filesys_desc_array' = [filesys_desc_array EXCEPT ![p][fd].pos = 0]
            /\ Result(p, Nothing)

Writable(p, fd) == fd \in Fds \ {0} /\ Usable(p, fd)

\* Files cannot be written.
WriteFail(p, fd) ==
    /\ Writable(p, fd) => Table(p)[fd].ops = "files"
    /\ Result(p, Failed)
    /\ UNCHANGED filesys_desc_array

\* Text to the terminal, or a rate to the clock.
WriteDevice(p, fd) ==
    /\ Writable(p, fd)
    /\ Table(p)[fd].ops \in {"terminal", "rtc"}
    /\ Result(p, Nothing)
    /\ UNCHANGED filesys_desc_array

Next ==
    \E p \in Procs :
      \/ Execute(p)
      \/ \E name \in Names : OpenFail(p, name) \/ Open(p, name)
      \/ \E fd \in -1 .. NUM_FD :
           \/ CloseFail(p, fd) \/ Close(p, fd)
           \/ ReadFail(p, fd) \/ ReadDevice(p, fd) \/ ReadDirectory(p, fd)
           \/ \E cnt \in Counts : ReadFile(p, fd, cnt)
           \/ WriteFail(p, fd) \/ WriteDevice(p, fd)

Spec == Init /\ [][Next]_vars

-----------------------------------------------------------------------------
(* Properties.                                                              *)

TypeOK ==
    /\ filesys_desc_array \in
         [Procs -> [Fds -> [ops : {"none", "terminal", "rtc", "files"}, inode : Int,
                            pos : Nat, flags : {0, 1}]]]
    /\ ret \in [Procs -> Int]
    /\ DOMAIN buf = Procs

\* What a file is, independently of how read_data walks its blocks.
Content(inode) ==
    [i \in 1 .. Inodes[inode].length |->
       Byte(Inodes[inode].blocks[(i - 1) \div BLOCK + 1], (i - 1) % BLOCK)]

\* What the directory lists: the names, and behind one that fills its field the
\* type of the entry, unless that is 0.
ListedName(i) ==
    LET d == Dentries[i] IN
    IF Len(d.name) = NAME /\ d.filetype # 0 THEN Append(d.name, d.filetype) ELSE d.name
Listed(i) == [k \in 1 .. Len(ListedName(i)) |-> Byte(-i, k - 1)]
Listing == [i \in 1 .. num_of_entries |-> Listed(i)]
OpenedContent(d) ==
    CASE d.filetype = 0 -> [kind |-> "device", data |-> <<>>]
      [] d.filetype = 1 -> [kind |-> "directory", data |-> Listing]
      [] d.filetype = 2 -> [kind |-> "file", data |-> Content(d.inode_num)]

From(c, pos) == SubSeq(c, pos + 1, Len(c))

\* What is left to read of a descriptor.
Left(d) ==
    CASE d.flags = 0 -> [kind |-> "closed", data |-> <<>>]
      [] d.flags = 1 /\ d.ops # "files" -> [kind |-> "device", data |-> <<>>]
      [] d.flags = 1 /\ d.ops = "files" /\ d.inode = -1 ->
           [kind |-> "directory", data |-> From(Listing, d.pos)]
      [] d.flags = 1 /\ d.ops = "files" /\ d.inode # -1 ->
           [kind |-> "file", data |-> From(Content(d.inode), d.pos)]

LeftOf == [p \in Procs |-> [fd \in Fds \ {0, 1} |-> Left(Table(p)[fd])]]

Reads == INSTANCE FileReads WITH
    Progs <- Procs, FreeFds <- Fds \ {0, 1},
    Opens <- {OpenedContent(Dentries[i]) : i \in 1 .. num_of_entries},
    Directory <- Listing, rest <- LeftOf, out <- buf

\* Successive reads return the contents of a file, in order and without gaps,
\* whatever the counts and wherever blocks end, and a directory every entry's
\* name, a name that fills its field with the type byte that follows it.
ImplementsFileReads == Reads!ReadsSpec

\* A position never passes the end of its file.
PosWithinFile ==
    \A p \in Procs, fd \in Fds \ {0, 1} :
      LET d == Table(p)[fd] IN
      d.flags = 1 /\ d.ops = "files" =>
        d.pos <= IF d.inode = -1 THEN num_of_entries ELSE Inodes[d.inode].length

\* No read delivers bytes from outside the image: a bad block number fails.
DataFromImage ==
    \A p \in Procs : \A i \in 1 .. Len(buf[p]) :
      buf[p][i][1] < num_of_blocks

=============================================================================
