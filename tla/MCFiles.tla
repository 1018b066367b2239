------------------------------ MODULE MCFiles -------------------------------
(***************************************************************************)
(* The parts of the file system, each by itself: part, chosen at first,    *)
(* says which one runs.  They meet in their abstractions, not here: the    *)
(* buffer cache calls the disk, files use inodes and blocks, names lead to *)
(* inodes.  Two processes, and the values of Block, are interchangeable.   *)
(***************************************************************************)
EXTENDS Disk, TLC

CONSTANTS
  Two,             \* interchangeable processes
  init, root, one  \* a process, an inode and a file

Symmetry == Permutations(Two) \cup Permutations(Block)

VARIABLES
  part,  \* the component that runs
  type, nlink_dirs, ent, up, c,
  ref_ftable, obj, ofile, loc, pc_ftable, pend, live,
  alloc, dlink, names, inum, ref_itable, valid, nlink_itable, lock_itable, pc_itable,
  ip, new,
  free_file, data, disk, addrs, size, off, lock_file, w, log

F1 == INSTANCE Fs WITH
  Proc <- Two, Inum <- {root} \cup Block, Root <- root, Name <- {"a"}, Dots <- {},
  Calls <- {"chdir", "create", "mkdir", "unlink"}, MaxPath <- 2, MaxLink <- 2,
  nlink <- nlink_dirs

F2 == INSTANCE Fs WITH
  Proc <- Two, Inum <- {root} \cup Block, Root <- root, Name <- {"a"}, Dots <- {},
  Calls <- {"open", "link", "create", "mkdir", "unlink"}, MaxPath <- 2, MaxLink <- 2,
  nlink <- nlink_dirs

T == INSTANCE FileTable WITH
  Proc <- Two \cup {init}, initproc <- init, NFILE <- 2, NOFILE <- 2, Obj <- Block,
  ref <- ref_ftable, pc <- pc_ftable

I == INSTANCE Inode WITH
  Proc <- Proc, Inum <- Block, NINODE <- 2, MaxLink <- 2, ref <- ref_itable,
  nlink <- nlink_itable, lock <- lock_itable, pc <- pc_itable

C1 == INSTANCE Content WITH
  Proc <- Two, File <- {one}, NBLOCK <- 3, BSIZE <- 2, NDIRECT <- 1, BPB <- 2,
  MAXOPBLOCKS <- 6, MaxN <- 3, Partial <- FALSE, free <- free_file, lock <- lock_file

C2 == INSTANCE Content WITH
  Proc <- Two, File <- Block, NBLOCK <- 3, BSIZE <- 2, NDIRECT <- 1, BPB <- 2,
  MAXOPBLOCKS <- 6, MaxN <- 1, Partial <- FALSE, free <- free_file, lock <- lock_file

C3 == INSTANCE Content WITH
  Proc <- {init}, File <- {one}, NBLOCK <- 4, BSIZE <- 2, NDIRECT <- 1, BPB <- 2,
  MAXOPBLOCKS <- 6, MaxN <- 4, Partial <- TRUE, free <- free_file, lock <- lock_file

dirsvars == <<type, nlink_dirs, ent, up, c>>
ftablevars == <<ref_ftable, obj, ofile, loc, pc_ftable, pend, live>>
itablevars == <<alloc, dlink, names, inum, ref_itable, valid, nlink_itable,
  lock_itable, pc_itable, ip, new>>
filevars == <<free_file, data, disk, addrs, size, off, lock_file, w, log>>
diskvars == <<free, next, info, avail, availidx, used, usedidx, seen, intr, irq, taken,
  busy, platter, pc, op, idx>>

allvars == <<part, dirsvars, ftablevars, itablevars, filevars, diskvars>>

\* A step of one component leaves the variables of the others alone.
OnFs(A) == part \in {"dirs", "links"} /\ A /\ UNCHANGED <<part, ftablevars, itablevars,
  filevars, diskvars>>
OnFileTable(A) == part = "ftable" /\ A /\ UNCHANGED <<part, dirsvars, itablevars,
  filevars, diskvars>>
OnInode(A) == part = "itable" /\ A /\ UNCHANGED <<part, dirsvars, ftablevars, filevars,
  diskvars>>
OnContent(A) == part \in {"file", "files", "write"} /\ A /\ UNCHANGED <<part, dirsvars,
  ftablevars, itablevars, diskvars>>
OnDisk(A) == part = "disk" /\ A /\ UNCHANGED <<part, dirsvars, ftablevars, itablevars,
  filevars>>

MCInit ==
  /\ part \in {"dirs", "links", "ftable", "itable", "file", "files", "write", "disk"}
  /\ F1!Init
  /\ T!Init
  /\ I!Init /\ (part # "itable" => \A t \in Block : ~alloc[t])
  /\ CASE part = "files" -> C2!Init [] part = "write" -> C3!Init [] OTHER -> C1!Init
  /\ Init /\ (part # "disk" => \A t \in Block : platter[t] = 0)

MCNext ==
  \/ part = "dirs" /\ OnFs(F1!Next)
  \/ part = "links" /\ OnFs(F2!Next)
  \/ OnFileTable(T!Next)
  \/ OnInode(I!Next)
  \/ part = "file" /\ OnContent(C1!Next)
  \/ part = "files" /\ OnContent(C2!Next)
  \/ part = "write" /\ OnContent(C3!Next)
  \/ OnDisk(Next)

MCSpec == MCInit /\ [][MCNext]_allvars

ASSUME Constants ==
  /\ Two \subseteq Proc
  /\ F1!FsAssumption /\ F2!FsAssumption /\ T!FileTableAssumption /\ I!InodeAssumption
  /\ C1!ContentAssumption /\ C2!ContentAssumption /\ C3!ContentAssumption

\* Names, links and references agree, whoever removes what: a name never leads to a freed
\* inode, directories form a tree, what is open or a current directory stays allocated, and
\* the assertions of ilock() (fs.c:315) and sys_unlink() (sysfile.c:216) hold.
Names ==
  part \in {"dirs", "links"} =>
    F1!TypeOK /\ F1!NoDangling /\ F1!Tree /\ F1!InUse /\ F1!NoPanic /\ F1!NlinkOne

\* ref counts the descriptors of all processes and the calls in progress, so that filedup()
\* and fileclose() never panic; every open object is released exactly once, when its last
\* descriptor goes; and no descriptor is of a half-made file.
Files ==
  part = "ftable" =>
    T!TypeOK /\ T!RefExact /\ T!OwnedOnce /\ T!FdReady

\* An entry of the inode table has as many pointers to it as its ref says, and no inode has
\* two; its lock and its copy are those of the process that has it locked; a referenced inode
\* stays allocated, even if its number is given out again before iput() is done, and link
\* counts cover names.  iput(), which takes the sleep lock with itable.lock held, never waits.
Inodes ==
  part = "itable" =>
    /\ I!TypeOK /\ I!RefExact /\ I!OneEntry /\ I!LockExact
    /\ I!RefAllocated /\ I!IputNoBlock /\ I!CopyFresh /\ I!LinksCover

\* The bitmap is exact whatever failed on the way: no block has two owners, none in use is
\* free (bfree() never panics) and none is lost; and a chunk of filewrite() fits the largest
\* transaction.
Bitmap ==
  /\ part = "file" => C1!TypeOK /\ C1!WriteFits /\ C1!BitmapExact
  /\ part = "files" => C2!TypeOK /\ C2!WriteFits /\ C2!BitmapExact
  /\ part = "write" => C3!TypeOK /\ C3!WriteFits /\ C3!BitmapExact

\* Through the blocks, files are sequences of bytes: a write puts its writer's
\* bytes one after the other at the shared offset and nowhere else, whoever else
\* wants to write, and no other file or byte changes.
FileSpec ==
  /\ part = "file" => C1!Files!Init
  /\ part = "files" => C2!Files!Init
  /\ part = "write" => C3!Files!Init
  /\ [][/\ part = "file" => [C1!Files!Next]_(C1!Files!vars)
        /\ part = "files" => [C2!Files!Next]_(C2!Files!vars)
        /\ part = "write" => [C3!Files!Next]_(C3!Files!vars)]_allvars

=============================================================================
