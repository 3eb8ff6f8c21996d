------------------------------- MODULE Files --------------------------------
(***************************************************************************)
(* The file calls of libk/libk.c, which the system calls pass on, over     *)
(* FatFs (fatfs/ff.c, configured without file locks) and the disk glue     *)
(* (fatfs/diskio.c).  A descriptor is an index of file_table, which points *)
(* to a file object (FIL); a FIL caches the size and the first cluster of  *)
(* its file and points to its directory entry, a slot.  A file has one     *)
(* cluster, of CLUSTER units; calls move one unit.  The FILs no descriptor *)
(* points to, which the code never frees, are left out.                    *)
(***************************************************************************)
EXTENDS Integers, FiniteSets

CONSTANTS
    Names,          \* paths
    NoName,         \* the empty path
    Clusters,       \* clusters of the volume
    NoCluster,      \* cluster 0: none
    CLUSTER,        \* units in a cluster
    STD_FDS,        \* descriptors open() never gives out (3 in the code)
    MAX_FILES       \* size of file_table (32 in the code)

ASSUME FilesAssumption ==
    /\ NoCluster \notin Clusters /\ CLUSTER \in Nat \ {0}
    /\ STD_FDS \in Nat /\ MAX_FILES \in Nat /\ STD_FDS < MAX_FILES
    /\ NoName \notin Names /\ Names # {} /\ IsFiniteSet(Names)

FDS == 0 .. (MAX_FILES - 1)
NULL == 0
FILs == 1 .. MAX_FILES
Slots == 1 .. Cardinality(Names)    \* the directory has room for every name

VARIABLES
    file_table,     \* the FIL of each descriptor, or NULL
    path,           \* file_entries[fd].path
    fil,            \* the file objects; shared is a ghost: dup() or dup2() copied it
    slot,           \* the directory: name (NoName when free), kind, first cluster, size
    free,           \* free clusters in the FAT
    illegal,        \* ghost: a file was opened or removed against FatFs's rules
    length          \* ghost: length of the file in each slot, as the calls reported it

vars == <<file_table, path, fil, slot, free, illegal, length>>

Blank == [valid |-> FALSE, slot |-> 1, sclust |-> NoCluster, objsize |-> 0, fptr |-> 0,
          read |-> FALSE, write |-> FALSE, modified |-> FALSE, shared |-> FALSE]
FreeSlot == [name |-> NoName, dir |-> FALSE, sclust |-> NoCluster, size |-> 0]

Init ==
    /\ file_table = [fd \in FDS |-> NULL]
    /\ path = [fd \in FDS |-> NoName]
    /\ fil = [i \in FILs |-> Blank]
    /\ slot = [s \in Slots |-> FreeSlot]
    /\ free = Clusters
    /\ illegal = FALSE
    /\ length = [s \in Slots |-> 0]

-----------------------------------------------------------------------------
(* ff.c                                                                    *)

(* follow_path(): the slot with that name, if there is one.                *)
Find(n) == {s \in Slots : n # NoName /\ slot[s].name = n}

(* dir_alloc(): the first free slot.                                       *)
FirstFree(s) == slot[s].name = NoName /\ \A r \in 1 .. (s - 1) : slot[r].name # NoName

(* FILs some descriptor can use for the file in slot s.                    *)
Referenced == {file_table[fd] : fd \in FDS} \ {NULL}
Open(s) == {i \in Referenced : fil[i].valid /\ fil[i].slot = s}

(* The clusters a chain of one gives back.                                 *)
remove_chain(c) == {c} \ {NoCluster}

(* sync_fs() ends with disk_ioctl(), which returns an uninitialized value: *)
(* what it reports is not known, what it wrote is written.                 *)
sync_fs == BOOLEAN

(* Seeded bug: the size is not written when disk_ioctl() reports an error. *)
f_sync_SizeAfterIoctl(i, ok) ==
    IF fil[i].modified /\ ok
      THEN [slot EXCEPT ![fil[i].slot].sclust = fil[i].sclust,
                        ![fil[i].slot].size = fil[i].objsize]
      ELSE slot

(* The directory after f_sync() of a valid FIL.                            *)
f_sync(i, ok) ==
    IF fil[i].modified
      THEN [slot EXCEPT ![fil[i].slot].sclust = fil[i].sclust,
                        ![fil[i].slot].size = fil[i].objsize]
      ELSE slot

(* What f_close() may answer for FIL i: an error for one that is closed.   *)
f_close_results(i) ==
    IF ~fil[i].valid THEN {FALSE} ELSE IF fil[i].modified THEN sync_fs ELSE {TRUE}

(* The FILs after f_close(): a failed one stays open, with nothing left    *)
(* to write; of a closed one nothing is used any more.                     *)
f_close(i, ok) ==
    [fil EXCEPT ![i] = IF ok THEN [Blank EXCEPT !.shared = fil[i].shared]
                       ELSE [@ EXCEPT !.modified = FALSE]]

(* The mode f_open() is called with.                                       *)
translate_flags(flags) ==
    [read   |-> "O_RDWR" \in flags \/ "O_WRONLY" \notin flags,
     write  |-> flags \cap {"O_RDWR", "O_WRONLY"} # {},
     create |-> flags \cap {"O_CREAT", "O_TRUNC"} # {},     \* FA_CREATE_ALWAYS
     append |-> "O_APPEND" \in flags]                       \* FA_OPEN_APPEND

(* Opened against the rules of FF_FS_LOCK = 0: a file that is open, and    *)
(* one of the two may change it.                                           *)
IllegalOpen(s, mode) ==
    \E i \in Open(s) : fil[i].write \/ mode.write \/ mode.create \/ mode.append

NewFil(s, mode, clust, size, modified) ==
    [valid |-> TRUE, slot |-> s, sclust |-> clust, objsize |-> size,
     fptr |-> IF mode.append THEN size ELSE 0,
     read |-> mode.read, write |-> mode.write, modified |-> modified, shared |-> FALSE]

-----------------------------------------------------------------------------
(* libk.c                                                                  *)

(* The first free descriptor, and a new FIL for it.                        *)
get_free_fd(fd) ==
    /\ fd \in STD_FDS .. (MAX_FILES - 1) /\ file_table[fd] = NULL
    /\ \A e \in STD_FDS .. (fd - 1) : file_table[e] # NULL
NewId(i) == i \notin Referenced /\ \A j \in 1 .. (i - 1) : j \in Referenced

(* Without a descriptor pointing to it, a FIL is out of reach.             *)
Reachable(F, T) == [i \in FILs |-> IF \E fd \in FDS : T[fd] = i THEN F[i] ELSE Blank]

Opened(fd, i, f) ==
    /\ file_table' = [file_table EXCEPT ![fd] = i]
    /\ fil' = [fil EXCEPT ![i] = f]

(* Seeded bug: a new file keeps the clusters of the one it replaces.       *)
open_TruncateKeepsCluster(n, flags, fd, i) ==
    LET mode == translate_flags(flags)
    IN  \E s \in Find(n) :
            /\ ~slot[s].dir /\ mode.create
            /\ slot' = [slot EXCEPT ![s].sclust = NoCluster, ![s].size = 0]
            /\ free' = free \cup remove_chain(slot[s].sclust)
            /\ length' = [length EXCEPT ![s] = 0]
            /\ illegal' = (illegal \/ IllegalOpen(s, mode))
            /\ Opened(fd, i, NewFil(s, mode, slot[s].sclust, 0, TRUE))

(* O_CREAT and O_TRUNC alike: a file that exists is emptied.               *)
open_Truncate(n, flags, fd, i) ==
    LET mode == translate_flags(flags)
    IN  \E s \in Find(n) :
            /\ ~slot[s].dir /\ mode.create
            /\ slot' = [slot EXCEPT ![s].sclust = NoCluster, ![s].size = 0]
            /\ free' = free \cup remove_chain(slot[s].sclust)
            /\ length' = [length EXCEPT ![s] = 0]
            /\ illegal' = (illegal \/ IllegalOpen(s, mode))
            /\ Opened(fd, i, NewFil(s, mode, NoCluster, 0, TRUE))

open_Create(n, flags, fd, i) ==
    LET mode == translate_flags(flags)
    IN  /\ Find(n) = {} /\ (mode.create \/ mode.append)
        /\ \E s \in Slots :
            /\ FirstFree(s)
            /\ slot' = [slot EXCEPT ![s] = [FreeSlot EXCEPT !.name = n]]
            /\ length' = [length EXCEPT ![s] = 0]
            /\ Opened(fd, i, NewFil(s, mode, NoCluster, 0, TRUE))
        /\ UNCHANGED <<free, illegal>>

open_Existing(n, flags, fd, i) ==
    LET mode == translate_flags(flags)
    IN  \E s \in Find(n) :
            /\ ~slot[s].dir /\ ~mode.create
            /\ illegal' = (illegal \/ IllegalOpen(s, mode))
            /\ Opened(fd, i, NewFil(s, mode, slot[s].sclust, slot[s].size, FALSE))
            /\ UNCHANGED <<slot, free, length>>

(* A directory, or a file that is not there, is not opened; the path that  *)
(* stays in file_entries, and the FIL, are never looked at.                *)
open(n, flags) ==
    \E fd \in FDS, i \in FILs :
        /\ get_free_fd(fd) /\ NewId(i)
        /\ path' = [path EXCEPT ![fd] = n]
        /\ \/ open_Truncate(n, flags, fd, i)
           \/ open_Create(n, flags, fd, i)
           \/ open_Existing(n, flags, fd, i)

(* Seeded bug: the descriptor is not given back.                           *)
TableClosed_Kept(fd, ok) == file_table

(* file_table and path after close(fd) got the answer ok from f_close().   *)
TableClosed(fd, ok) == IF ok THEN [file_table EXCEPT ![fd] = NULL] ELSE file_table
PathClosed(fd, ok) == IF ok THEN [path EXCEPT ![fd] = NoName] ELSE path

DirectorySynced(i, ok) == IF fil[i].valid THEN f_sync(i, ok) ELSE slot

close(fd) ==
    /\ file_table[fd] # NULL
    /\ LET i == file_table[fd]
       IN  \E ok \in f_close_results(i) :
            /\ slot' = DirectorySynced(i, ok)
            /\ file_table' = TableClosed(fd, ok)
            /\ path' = PathClosed(fd, ok)
            /\ fil' = Reachable(f_close(i, ok), TableClosed(fd, ok))
    /\ UNCHANGED <<free, illegal, length>>

Copied(F, i) == IF i = NULL THEN F ELSE [F EXCEPT ![i].shared = TRUE]

(* Any descriptor is copied, an unused one too; the copy has no path.      *)
dup(fd) ==
    \E new \in FDS :
        /\ get_free_fd(new)
        /\ file_table' = [file_table EXCEPT ![new] = file_table[fd]]
        /\ path' = [path EXCEPT ![new] = NoName]
        /\ fil' = Copied(fil, file_table[fd])
        /\ UNCHANGED <<slot, free, illegal, length>>

(* The answer of close() is ignored; dup2(fd, fd) copies what it closed.   *)
dup2(old, new) ==
    /\ file_table[old] # NULL
    /\ \E ok \in IF file_table[new] = NULL THEN {FALSE} ELSE f_close_results(file_table[new]) :
        LET i == file_table[new]
            closedTable == TableClosed(new, ok)
            closedPath == PathClosed(new, ok)
            table == [closedTable EXCEPT ![new] = closedTable[old]]
        IN  /\ file_table' = table
            /\ path' = [closedPath EXCEPT ![new] = closedPath[old]]
            /\ slot' = IF i = NULL THEN slot ELSE DirectorySynced(i, ok)
            /\ fil' = Reachable(Copied(IF i = NULL THEN fil ELSE f_close(i, ok), file_table[old]),
                                table)
    /\ UNCHANGED <<free, illegal, length>>

(* The descriptor is open, and its FIL valid.                              *)
Usable(fd) == file_table[fd] # NULL /\ fil[file_table[fd]].valid

(* One unit is read, unless the end is reached.                            *)
f_read(i) ==
    /\ fil[i].read /\ fil[i].fptr < fil[i].objsize
    /\ fil' = [fil EXCEPT ![i].fptr = @ + 1]

(* Descriptor 0 is the keyboard, whatever it is a copy of.                 *)
read(fd) ==
    /\ fd # 0 /\ Usable(fd)
    /\ f_read(file_table[fd])
    /\ UNCHANGED <<file_table, path, slot, free, illegal, length>>

(* Grown(i, n, c): FIL i with its pointer at n and first cluster c.        *)
Grown(i, n, c) ==
    [fil EXCEPT ![i].fptr = n, ![i].sclust = c,
                ![i].objsize = IF n > @ THEN n ELSE @]

(* The first cluster of a FIL that needs one: a free one, or none.         *)
create_chain(i) ==
    IF fil[i].sclust # NoCluster THEN {fil[i].sclust}
    ELSE IF free = {} THEN {NoCluster} ELSE free

(* One unit is written; with the disk full nothing is, without an error.   *)
f_write(i) ==
    LET f == fil[i]
    IN  /\ f.write /\ f.fptr < CLUSTER
        /\ \E c \in create_chain(i) :
            LET n == IF c = NoCluster THEN f.fptr ELSE f.fptr + 1
            IN  /\ fil' = [Grown(i, n, c) EXCEPT ![i].modified = TRUE]
                /\ free' = free \ {c}
                /\ length' = [length EXCEPT ![f.slot] = IF n > @ THEN n ELSE @]

(* Standard output and standard error are the console's.                   *)
write(fd) ==
    /\ fd = 0 \/ fd >= STD_FDS
    /\ Usable(fd)
    /\ f_write(file_table[fd])
    /\ UNCHANGED <<file_table, path, slot, illegal>>

(* f_lseek(): a file open for writing grows up to the new position, or as  *)
(* far as the disk allows; the others stop at the end.                     *)
f_lseek(i, ofs) ==
    LET f   == fil[i]
        max == IF f.write THEN CLUSTER ELSE f.objsize
        n   == IF ofs > max THEN max ELSE ofs
    IN  \E c \in IF n = 0 THEN {f.sclust} ELSE create_chain(i) :
            LET at == IF c = NoCluster THEN 0 ELSE n
            IN  /\ fil' = [Grown(i, at, c) EXCEPT ![i].modified = @ \/ at > f.objsize]
                /\ free' = free \ {c}
                /\ length' = [length EXCEPT ![f.slot] = IF at > @ THEN at ELSE @]

(* An offset before the beginning is a huge unsigned one.                  *)
Unsigned(n) == IF n < 0 THEN CLUSTER + 1 ELSE n

(* lseek(): SEEK_END asks the directory for the size, by path.             *)
lseek(fd, offset, whence) ==
    /\ Usable(fd)
    /\ \/ whence = "SEEK_SET" /\ f_lseek(file_table[fd], Unsigned(offset))
       \/ whence = "SEEK_CUR"
          /\ f_lseek(file_table[fd], Unsigned(fil[file_table[fd]].fptr + offset))
       \/ whence = "SEEK_END"
          /\ \E s \in Find(path[fd]) :
                f_lseek(file_table[fd], Unsigned(slot[s].size + offset))
    /\ UNCHANGED <<file_table, path, slot, illegal>>

(* unlink(): nothing tells FatFs that the file is open.  A directory is    *)
(* empty in this model.                                                    *)
unlink(n) ==
    \E s \in Find(n) :
        /\ slot' = [slot EXCEPT ![s] = FreeSlot]
        /\ free' = free \cup remove_chain(slot[s].sclust)
        /\ length' = [length EXCEPT ![s] = 0]
        /\ illegal' = (illegal \/ Open(s) # {})
        /\ UNCHANGED <<file_table, path, fil>>

mkdir(n) ==
    /\ Find(n) = {}
    /\ \E s \in Slots, c \in free :
        /\ FirstFree(s)
        /\ slot' = [slot EXCEPT ![s] = [name |-> n, dir |-> TRUE, sclust |-> c, size |-> 0]]
        /\ free' = free \ {c}
        /\ length' = [length EXCEPT ![s] = 0]
    /\ UNCHANGED <<file_table, path, fil, illegal>>

(* What the calls are made with: the three ways f_open() takes, and seeks  *)
(* to both ends and beyond them.                                           *)
Flags == {{}, {"O_RDWR", "O_CREAT"}, {"O_RDWR", "O_APPEND"}}
Seeks == {<<0, "SEEK_SET">>, <<1, "SEEK_SET">>, <<-1, "SEEK_CUR">>, <<0, "SEEK_END">>, <<1, "SEEK_END">>}

(* After an illegal open or remove FatFs promises nothing: the model ends. *)
Next ==
    /\ ~illegal
    /\ \/ \E n \in Names : (\E flags \in Flags : open(n, flags)) \/ unlink(n) \/ mkdir(n)
       \/ \E fd \in FDS : close(fd) \/ dup(fd) \/ read(fd) \/ write(fd)
       \/ \E old, new \in FDS : dup2(old, new)
       \/ \E fd \in FDS, s \in Seeks : lseek(fd, s[1], s[2])

Spec == Init /\ [][Next]_vars

-----------------------------------------------------------------------------
TypeOK ==
    /\ file_table \in [FDS -> FILs \cup {NULL}]
    /\ path \in [FDS -> Names \cup {NoName}]
    /\ fil \in [FILs -> [valid : BOOLEAN, slot : Slots, sclust : Clusters \cup {NoCluster},
                         objsize : 0 .. CLUSTER, fptr : 0 .. CLUSTER, read : BOOLEAN,
                         write : BOOLEAN, modified : BOOLEAN, shared : BOOLEAN]]
    /\ slot \in [Slots -> [name : Names \cup {NoName}, dir : BOOLEAN,
                           sclust : Clusters \cup {NoCluster}, size : 0 .. CLUSTER]]
    /\ free \subseteq Clusters
    /\ illegal \in BOOLEAN
    /\ length \in [Slots -> 0 .. CLUSTER]

(* Who holds a first cluster: the directory, or a FIL that is open.        *)
Held ==
    {<<s, slot[s].sclust>> : s \in {r \in Slots : slot[r].name # NoName}}
    \cup {<<fil[i].slot, fil[i].sclust>> : i \in {j \in Referenced : fil[j].valid}}

(* ff.c, ffconf.h: "To avoid volume corruption, application program should *)
(* avoid illegal open, remove and rename to the open objects": a program   *)
(* that does never gets two files with the same cluster, or one whose      *)
(* cluster is free, whatever it copies with dup(), leaves open, or closes  *)
(* although disk_ioctl() answers at random.                                *)
VolumeSound ==
    /\ TypeOK
    /\ ~illegal => \A h \in Held : h[2] # NoCluster =>
                    /\ h[2] \notin free
                    /\ \A g \in Held : g[2] = h[2] => g[1] = h[1]

(* ff.c, diskio.c, libk.c: the directory, which fstat(), SEEK_END and the  *)
(* next open() believe, has the length write() reported whenever no        *)
(* descriptor has changes it was not asked to save; a close() that failed  *)
(* because of disk_ioctl() has saved them nevertheless.                    *)
LengthSaved ==
    ~illegal => \A s \in Slots :
        slot[s].name # NoName /\ (\A i \in Open(s) : ~fil[i].modified) => slot[s].size = length[s]

(* libk.c: an open descriptor whose FIL is closed, which no close() can    *)
(* free again, comes from dup() or dup2() alone; and the path of a usable  *)
(* one, by which fstat() and SEEK_END find its size, is its file's, or     *)
(* none after dup().                                                       *)
DescriptorsTruthful ==
    \A fd \in FDS : file_table[fd] # NULL =>
        LET i == file_table[fd]
        IN  IF ~fil[i].valid THEN fil[i].shared
            ELSE ~illegal => path[fd] = slot[fil[i].slot].name \/ (path[fd] = NoName /\ fil[i].shared)
=============================================================================
