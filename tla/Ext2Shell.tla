----------------------------- MODULE Ext2Shell -----------------------------
(***************************************************************************)
(* A session of the ext2 shell: the commands of main.c, pathwalk and       *)
(* openfile of vfs/fs.c, and the walk of ext2_lookup and ext2_readdir      *)
(* (ext2_fs/ext2.c) over the blocks of a directory, one action per block.  *)
(* The bytes that cat prints are in Ext2Cat.                               *)
(*                                                                         *)
(* The four copies of the scan in each of the two functions differ in      *)
(* where the block numbers come from.  The tables ind_block2 and           *)
(* ind_block3 are loaded but never used: lines 179, 213 and 217 take       *)
(* ind_block again, as do 330, 358 and 362.                                *)
(*                                                                         *)
(* Blocks have 1024 bytes and inodes 256: pathwalk allocates s_inode_size  *)
(* bytes for a struct of 160.  The entries for . and .. are names as any   *)
(* other.  The files that cat reads have no holes.                         *)
(***************************************************************************)
EXTENDS Ext2Blocks, Sequences, SequencesExt

CONSTANTS
  Images,  \* the images that may be mounted, see ImageType
  Names,   \* file names
  Paths,   \* the paths typed: "/" is << >>
  Dot,     \* any path that begins with a dot, as the "." of a bare ls
  NoPath,  \* an argument left out, or an `ls` of two names: a null pointer
  Room     \* bytes that the C library really gives for malloc(2): 24 with glibc

RootIno == 2
Removed == 0     \* the inode number in an entry that has been deleted
NULL == 1        \* d_inode of a name that is not found; no file has inode 1
Inodes == 2..6

Commands == {"ls", "stat", "readlink", "cat"}

\* An entry of a directory.  closed: a NUL follows the name, which is so unless its
\* length is a multiple of four and the entry has no slack.  typed: file_type is
\* one of the known ones.
Entry == [name : Names, ino : Inodes \cup {Removed}, closed : BOOLEAN, typed : BOOLEAN]

\* "empty" is a regular file without blocks, "link" a symbolic link kept in the inode.
Kinds == {"dir", "reg", "empty", "link"}
ImageType == [kind : [Inodes -> Kinds], dirs : [Inodes -> Seq(Seq(Entry))]]

ASSUME ConstantsAssumption ==
  /\ Images \subseteq ImageType
  /\ \A image \in Images :
       /\ image.kind[RootIno] = "dir"
       /\ \A n \in Inodes : image.kind[n] = "empty" => image.dirs[n] = << >>
  /\ Paths \subseteq Seq(Names)
  /\ Dot # NoPath /\ Dot \notin Paths /\ NoPath \notin Paths

ASSUME RoomAssumption == Room \in Nat

VARIABLES
  image,
  pc,
  cmd, asked,     \* the command and its path
  path,           \* what strtok has left
  inode,          \* the inode being scanned, or found
  j, pass, i,     \* the loop over i_block, and the loops over a table
  ind_block,      \* the table loaded last
  listed,         \* the inode numbers given to the callback
  answer,         \* what the command printed
  root_live       \* root_inode has not been freed

vars == <<image, pc, cmd, asked, path, inode, j, pass, i, ind_block, listed, answer, root_live>>

\* A fresh buffer of malloc.
Garbage == << >>

scan == <<j, pass, i, ind_block>>

\* The root entry is given the name ".\n", three bytes in malloc(strlen("/") + 1)
\* (line 690).  Every pathwalk writes one more such name (fs.c 68-69), which harms
\* nothing that this one does not.
Init ==
  /\ image \in Images
  /\ pc = IF Room >= 3 THEN "prompt" ELSE "corrupted"
  /\ cmd = "ls" /\ asked = Dot /\ path = << >>
  /\ inode = NULL
  /\ j = 0 /\ pass = 0 /\ i = 0 /\ ind_block = Garbage
  /\ listed = << >>
  /\ answer = "none"
  /\ root_live = TRUE

\* ext2_lookup or ext2_readdir begins: lines 108-117, 270-276.
StartScan(n, mode) ==
  /\ inode' = n
  /\ j' = 0 /\ pass' = 0 /\ i' = 0 /\ ind_block' = Garbage
  /\ pc' = mode

\* A command is typed; pathwalk, down to the first token.  "/" has none, and the entry
\* that is then returned was never set; a path that was left out is followed.
Execute(c, p) ==
  /\ pc = "prompt"
  /\ cmd' = c /\ asked' = p
  /\ answer' = "none" /\ listed' = << >>
  /\ IF p = Dot
       THEN /\ pc' = "walked" /\ path' = << >> /\ inode' = RootIno
            /\ UNCHANGED scan
       ELSE IF p \in {<< >>, NoPath}
              THEN pc' = "undefined" /\ UNCHANGED <<path, inode, scan>>
              ELSE path' = p /\ StartScan(RootIno, "lookup")
  /\ UNCHANGED <<image, root_live>>

Exit ==
  /\ pc = "prompt"
  /\ pc' = "exited"
  /\ UNCHANGED <<image, cmd, asked, path, inode, scan, listed, answer, root_live>>

\* The rest of the function that scans is left alone.
Command == <<image, cmd, asked, root_live>>

Scanning == pc \in {"lookup", "readdir"}

Used(n) == 0..(Len(image.dirs[n]) - 1)

\* What the loop looks at next is not the contents of a directory: an inode that is no
\* directory has other data, or text, in its blocks.
NotADirectory == inode \notin {n \in Inodes : image.kind[n] \in {"dir", "empty"}}

Undefined ==
  /\ Scanning
  /\ \/ NotADirectory
     \/ j \in Direct..(Direct + 2) /\ pass > 0 /\ ind_block = Garbage
     \/ /\ j \in Direct..(Direct + 2) /\ pass > 0 /\ ind_block # Garbage /\ i < Fan
        /\ ind_block[i] # NoBlock /\ ind_block[i][1] # 0
  /\ pc' = "undefined"
  /\ UNCHANGED <<Command, path, inode, scan, listed, answer>>

\* Mutants: inode is not set to what was found; the last entry of a block is missed;
\* the direct blocks do not end at the first 0; the tables are read once too often, or
\* for ever.
Mutant_Found(n) ==
  /\ path' = Tail(path)
  /\ IF Len(path) > 1 THEN StartScan(inode, "lookup")
     ELSE /\ inode' = n /\ pc' = "walked"
          /\ UNCHANGED scan
  /\ UNCHANGED <<Command, listed, answer>>

Mutant_Callbacks(block) == [e \in 1..(Len(block) - 1) |-> block[e].ino]

\* The name was found: d_inode is filled in, and pathwalk goes on with the next token.
Found(n) ==
  /\ path' = Tail(path)
  /\ IF Len(path) > 1 THEN StartScan(n, "lookup")
     ELSE /\ inode' = n /\ pc' = "walked"
          /\ UNCHANGED scan
  /\ UNCHANGED <<Command, listed, answer>>

\* The name was not found: pathwalk returns NULL.
NotFound ==
  /\ pc' = "prompt" /\ answer' = "cannot find" /\ inode' = NULL
  /\ UNCHANGED <<Command, path, listed, scan>>

\* Lines 127-141: the first entry of a block whose name compares equal.  The removed
\* entry at the head of a block compares as any other.
Matches(block) == {e \in DOMAIN block : block[e].name = Head(path) /\ block[e].closed}
FirstMatch(block) == block[Min(Matches(block))]

\* Lines 290-298: the entries for which readdir calls the callback.
Callbacks(block) ==
  LET upto[e \in 0..Len(block)] ==
        IF e = 0 THEN << >>
        ELSE IF block[e].typed THEN Append(upto[e - 1], block[e].ino) ELSE upto[e - 1]
  IN upto[Len(block)]

\* Block b of the directory is scanned; Goon says where the loop is after it.
ScanBlock(b, Goon) ==
  LET block == image.dirs[inode][b + 1]
  IN IF pc = "lookup" /\ Matches(block) # {}
       THEN Found(FirstMatch(block).ino)
       ELSE /\ Goon
            /\ listed' = IF pc = "readdir" THEN listed \o Callbacks(block) ELSE listed
            /\ UNCHANGED <<Command, path, inode, answer, pc>>

\* The loop over j is left: the name is not there, or readdir returns to ls.
LeaveLoop ==
  IF pc = "lookup" THEN NotFound
  ELSE /\ pc' = "prompt" /\ answer' = "listing" /\ inode' = NULL
       /\ UNCHANGED <<Command, path, listed, scan>>

Mutant_ScanDirect ==
  /\ Scanning /\ ~NotADirectory /\ j < Direct
  /\ LET block == i_block(j, Used(inode))
     IN IF block = NoBlock
          THEN j' = j + 1 /\ UNCHANGED <<Command, path, inode, pass, i, ind_block, listed, answer, pc>>
          ELSE ScanBlock(block[2], j' = j + 1 /\ UNCHANGED <<pass, i, ind_block>>)

ScanDirect ==
  /\ Scanning /\ ~NotADirectory /\ j < Direct
  /\ LET block == i_block(j, Used(inode))
     IN IF block = NoBlock THEN LeaveLoop
        ELSE ScanBlock(block[2], j' = j + 1 /\ UNCHANGED <<pass, i, ind_block>>)

\* Lines 145-147 and their kin.  A block number 0 is read from beyond the end of the
\* image: nothing is read, and the buffer keeps what it had.
LoadTable ==
  /\ Scanning /\ ~NotADirectory /\ j \in Direct..(Direct + 2) /\ pass = 0
  /\ LET block == i_block(j, Used(inode))
     IN ind_block' = IF block = NoBlock THEN ind_block ELSE Pointers(block, Used(inode))
  /\ pass' = 1 /\ i' = 0
  /\ UNCHANGED <<Command, path, inode, j, listed, answer, pc>>

\* How often the table is gone through: once, once for each k, once for each k and l.
Passes == Span(j - Direct)

\* The table holds blocks of the directory.
TableRead == Scanning /\ ~NotADirectory /\ j \in Direct..(Direct + 2) /\ pass > 0 /\ ind_block # Garbage

TableRound ==
  /\ TableRead /\ i < Fan
  /\ IF ind_block[i] = NoBlock
       THEN /\ i' = IF pc = "lookup" THEN i + 1 ELSE Fan   \* continue, break
            /\ UNCHANGED <<Command, path, inode, j, pass, ind_block, listed, answer, pc>>
       ELSE /\ ind_block[i][1] = 0
            /\ ScanBlock(ind_block[i][2], i' = i + 1 /\ UNCHANGED <<j, pass, ind_block>>)

Mutant_TableOften ==
  /\ TableRead /\ i = Fan
  /\ i' = 0
  /\ IF pass <= Passes THEN pass' = pass + 1 /\ j' = j ELSE pass' = 0 /\ j' = j + 1
  /\ UNCHANGED <<Command, path, inode, ind_block, listed, answer, pc>>

Mutant_TableForever ==
  /\ TableRead /\ i = Fan
  /\ i' = 0
  /\ IF pass < Passes THEN pass' = pass /\ j' = j ELSE pass' = 0 /\ j' = j + 1
  /\ UNCHANGED <<Command, path, inode, ind_block, listed, answer, pc>>

TableEnds ==
  /\ TableRead /\ i = Fan
  /\ i' = 0
  /\ IF pass < Passes THEN pass' = pass + 1 /\ j' = j ELSE pass' = 0 /\ j' = j + 1
  /\ UNCHANGED <<Command, path, inode, ind_block, listed, answer, pc>>

ScanEnds ==
  /\ Scanning /\ ~NotADirectory /\ j = Direct + 3
  /\ LeaveLoop

\* The commands, with the entry that pathwalk returned (main.c 128-141, 149-163,
\* 188-206).
Finish(text) ==
  /\ pc' = "prompt" /\ answer' = text /\ inode' = NULL
  /\ UNCHANGED <<Command, path, scan>>

Walked(c) == pc = "walked" /\ cmd = c /\ inode # Removed

ListDir ==
  /\ Walked("ls") /\ image.kind[inode] = "dir"
  /\ StartScan(inode, "readdir")
  /\ UNCHANGED <<Command, path, listed, answer>>

ListOther ==
  /\ Walked("ls") /\ image.kind[inode] # "dir"
  /\ listed' = IF image.kind[inode] = "link" THEN << >> ELSE <<inode>>
  /\ Finish("listing")

Stat == Walked("stat") /\ listed' = <<inode>> /\ Finish("status")

\* ext2_readlink copies i_block up to the first 0: the target of a short link, and
\* block numbers for anything else.
Readlink ==
  /\ Walked("readlink")
  /\ listed' = <<inode>>
  /\ Finish(IF image.kind[inode] = "link" THEN "target"
            ELSE IF image.kind[inode] = "empty" THEN "nothing" ELSE "numbers")

\* What cat prints: for a link the text of its target is taken for block numbers.
Contents(n) == IF image.kind[n] = "link" THEN "garbage" ELSE "contents"

\* openfile, the reading, and closefile, whose ext2_release frees root_inode.
Cat ==
  /\ Walked("cat") /\ root_live
  /\ root_live' = FALSE
  /\ listed' = <<inode>>
  /\ pc' = "prompt" /\ inode' = NULL
  /\ answer' = Contents(inode)
  /\ UNCHANGED <<image, cmd, asked, path, scan>>

\* The second time it is free already, or the memory of something else: whatever
\* happens from here on is not defined.
FreeTwice ==
  /\ Walked("cat") /\ ~root_live
  /\ pc' = "corrupted"
  /\ UNCHANGED <<Command, path, inode, scan, listed, answer>>

\* ext2_read_inode was called for inode 0 and has read something else.
BadInode ==
  /\ pc = "walked" /\ inode = Removed
  /\ pc' = "undefined"
  /\ UNCHANGED <<Command, path, inode, scan, listed, answer>>

Ended == pc \in {"exited", "corrupted", "undefined"} /\ UNCHANGED vars

Work == \/ Undefined \/ ScanDirect \/ LoadTable \/ TableRound \/ TableEnds \/ ScanEnds
        \/ ListDir \/ ListOther \/ Stat \/ Readlink \/ Cat \/ FreeTwice \/ BadInode

Next == \/ \E c \in Commands, p \in Paths \cup {Dot, NoPath} : Execute(c, p)
        \/ Exit \/ Work \/ Ended

Spec == Init /\ [][Next]_vars

\* The shell runs; nobody has to type.
FairSpec == Spec /\ WF_vars(Work)
-----------------------------------------------------------------------------
(***************************************************************************)
(* Properties                                                              *)
(***************************************************************************)
TypeOK ==
  /\ image \in Images
  /\ pc \in {"prompt", "lookup", "readdir", "walked", "exited", "undefined", "corrupted"}
  /\ cmd \in Commands /\ asked \in Paths \cup {Dot, NoPath} /\ path \in Seq(Names)
  /\ pc = "lookup" => path # << >>
  /\ inode \in Inodes \cup {NULL, Removed}
  /\ j \in 0..(Direct + 3) /\ pass \in 0..Span(2) /\ i \in 0..Fan
  /\ ind_block = Garbage \/ DOMAIN ind_block = 0..(Fan - 1)
  /\ listed \in Seq(Inodes \cup {Removed})
  /\ answer \in {"none", "cannot find", "listing", "status", "target", "numbers", "nothing",
                 "contents", "garbage"}
  /\ root_live \in BOOLEAN

\* A directory that ext2_lookup can search: it does not end where the direct blocks do,
\* has no double indirect block, and all its names are closed and in use.
Searchable(n) ==
  /\ image.kind[n] = "dir"
  /\ Len(image.dirs[n]) # Direct /\ Len(image.dirs[n]) <= DoubleBase
  /\ \A b \in DOMAIN image.dirs[n] : \A e \in DOMAIN image.dirs[n][b] :
       image.dirs[n][b][e].closed /\ image.dirs[n][b][e].ino # Removed

\* Where block b of a directory has a name in use.
Hits(n, name, b) ==
  {e \in DOMAIN image.dirs[n][b] :
     image.dirs[n][b][e].name = name /\ image.dirs[n][b][e].ino # Removed}

\* What a directory says that a name is: the first entry of the first block with one.
Lookup(n, name) ==
  LET blocks == {b \in DOMAIN image.dirs[n] : Hits(n, name, b) # {}}
      first == Min(blocks)
  IN IF image.kind[n] # "dir" \/ blocks = {} THEN NULL
     ELSE image.dirs[n][first][Min(Hits(n, name, first))].ino

\* Where the first h names of a path lead to.
Walk(p) ==
  LET upto[h \in 0..Len(p)] ==
        IF h = 0 THEN RootIno
        ELSE IF upto[h - 1] = NULL THEN NULL ELSE Lookup(upto[h - 1], p[h])
  IN upto

Resolve(p) == Walk(p)[Len(p)]

\* Every directory that the walk of the path passes is searchable, and everything it
\* passes before the end is a directory or an empty file.
Walkable(p) ==
  /\ p # << >>
  /\ \A h \in 0..(Len(p) - 1) :
       Walk(p)[h] # NULL => image.kind[Walk(p)[h]] = "empty" \/ Searchable(Walk(p)[h])

\* The walk ends at the file that the path names (vfs/fs.c 51-93), with directories in
\* the direct blocks and in the table: the stale table of line 173 finds nothing that
\* is not there.  NULL is returned only for a path that names nothing.
WalkRight ==
  /\ (pc = "walked" /\ asked \in Paths /\ Walkable(asked)) => inode = Resolve(asked)
  /\ (pc = "walked" /\ asked = Dot) => inode = RootIno
  /\ (pc = "prompt" /\ answer = "cannot find" /\ asked # Dot /\ Walkable(asked)) => Resolve(asked) = NULL

\* ls names every entry of a directory once, in order, when it is small enough for its
\* direct blocks and has no removed entry or one of unknown type (ext2.c 265-301).
ListingRight ==
  LET dir == IF asked = Dot THEN RootIno ELSE Resolve(asked)
  IN (/\ pc = "prompt" /\ answer = "listing"
      /\ asked # Dot => Walkable(asked)
      /\ image.kind[dir] = "dir" /\ Searchable(dir) /\ Len(image.dirs[dir]) < Direct
      /\ \A b \in DOMAIN image.dirs[dir] : \A e \in DOMAIN image.dirs[dir][b] :
           image.dirs[dir][b][e].typed)
     => listed = [e \in DOMAIN FlattenSeq(image.dirs[dir]) |-> FlattenSeq(image.dirs[dir])[e].ino]

\* No command reads a buffer before it is filled or takes data for a directory, unless
\* its path is left out or cannot be walked, or ls is given a directory that cannot be
\* searched.
DataDefined ==
  pc = "undefined" =>
    \/ asked = NoPath
    \/ asked \in Paths /\ ~Walkable(asked)
    \/ LET dir == IF asked = Dot THEN RootIno ELSE Resolve(asked)
       IN cmd = "ls" /\ dir # NULL /\ image.kind[dir] = "dir" /\ ~Searchable(dir)

\* The heap is damaged only by a cat that is not the first, or by the name of the root
\* where malloc(2) gives less than three bytes.
HeapDefined ==
  pc = "corrupted" => Room < 3 \/ (cmd = "cat" /\ ~root_live)

\* A session leaves defined behaviour in these cases only.
StaysDefined == DataDefined /\ HeapDefined

\* Every command comes to an end, also in a directory whose table is read again and
\* again (lines 170-242, 320-382).
CommandEnds == pc # "prompt" ~> pc \in {"prompt", "exited", "corrupted", "undefined"}

\* "It performs clean up operations if necessary" when a file is closed (ext2.c 634-635):
\* a cat leaves the heap in order, where there is room for the names.
CatStaysDefined == pc = "corrupted" => Room < 3

\* "calls the callback for every directory entry" (ext2.c 266): no entry is listed
\* twice, in directories of any size.
ListedOnce ==
  (pc = "prompt" /\ answer = "listing") => IsInjective(listed)
=============================================================================
