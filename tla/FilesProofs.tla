---------------------------- MODULE FilesProofs -----------------------------
(***************************************************************************)
(* Proofs about the file calls of libk/libk.c over FatFs, for any number   *)
(* of names, clusters and descriptors: a program that obeys the rules of   *)
(* ffconf.h does not damage the volume, the directory has the lengths      *)
(* write() reported, and descriptors name the file they are open on.       *)
(***************************************************************************)
EXTENDS Files, FiniteSetTheorems, TLAPS

(***************************************************************************)
(* The inductive invariant.                                                *)
(***************************************************************************)

(* A FIL that two descriptors point to was copied by dup() or dup2(), and  *)
(* so was one that is closed and still pointed to.                         *)
SharedMarked ==
    /\ \A fd, gd \in FDS :
        fd # gd /\ file_table[fd] # NULL /\ file_table[gd] = file_table[fd] =>
            fil[file_table[fd]].shared
    /\ \A fd \in FDS : file_table[fd] # NULL /\ ~fil[file_table[fd]].valid =>
        fil[file_table[fd]].shared

(* The FILs that a call can use.                                           *)
InUse(i) == i \in Referenced /\ fil[i].valid

(* A path in file_entries is that of the file its descriptor is open on.   *)
PathsRight ==
    \A fd \in FDS : file_table[fd] # NULL /\ fil[file_table[fd]].valid =>
        \/ path[fd] = slot[fil[file_table[fd]].slot].name
        \/ path[fd] = NoName /\ fil[file_table[fd]].shared

(* A FIL in use is open on a file; one that may change it is alone on it.  *)
WritersAlone ==
    /\ \A i \in FILs : InUse(i) => slot[fil[i].slot].name # NoName
    /\ \A i \in FILs : InUse(i) /\ fil[i].modified => fil[i].write
    /\ \A i, j \in FILs :
        InUse(i) /\ InUse(j) /\ fil[i].slot = fil[j].slot /\ fil[i].write => i = j

(* A FIL without changes to save agrees with the directory, in any case it *)
(* has the file's length; without a cluster there is nothing in the file.  *)
CachesRight ==
    /\ \A i \in FILs : InUse(i) =>
        /\ fil[i].objsize = length[fil[i].slot]
        /\ fil[i].fptr <= fil[i].objsize
        /\ fil[i].sclust = NoCluster => fil[i].objsize = 0
        /\ ~fil[i].modified => /\ fil[i].sclust = slot[fil[i].slot].sclust
                               /\ fil[i].objsize = slot[fil[i].slot].size
    /\ \A s \in Slots : slot[s].name # NoName /\ slot[s].sclust = NoCluster => slot[s].size = 0

(* No two names are equal, so that a path leads to one slot.               *)
NamesDiffer ==
    \A r, s \in Slots : slot[r].name = slot[s].name /\ slot[r].name # NoName => r = s

(* The clusters, by holder: what VolumeSound says of pairs.                *)
SlotHolds(s, c) == slot[s].name # NoName /\ slot[s].sclust = c /\ c # NoCluster
FilHolds(i, c) == InUse(i) /\ fil[i].sclust = c /\ c # NoCluster

ClustersSound ==
    /\ \A s \in Slots : \A c \in Clusters : SlotHolds(s, c) => c \notin free
    /\ \A i \in FILs : \A c \in Clusters : FilHolds(i, c) => c \notin free
    /\ \A r, s \in Slots : \A c \in Clusters : SlotHolds(r, c) /\ SlotHolds(s, c) => r = s
    /\ \A i \in FILs : \A s \in Slots : \A c \in Clusters :
        FilHolds(i, c) /\ SlotHolds(s, c) => fil[i].slot = s
    /\ \A i, j \in FILs : \A c \in Clusters :
        FilHolds(i, c) /\ FilHolds(j, c) => fil[i].slot = fil[j].slot

LengthsRight ==
    \A s \in Slots :
        slot[s].name # NoName /\ (\A i \in FILs : InUse(i) /\ fil[i].slot = s => ~fil[i].modified)
            => slot[s].size = length[s]

FInv ==
    /\ TypeOK
    /\ SharedMarked
    /\ ~illegal => /\ PathsRight
                   /\ WritersAlone
                   /\ CachesRight
                   /\ NamesDiffer
                   /\ ClustersSound
                   /\ LengthsRight

-----------------------------------------------------------------------------
(* The records of the model.                                               *)
Fil == [valid : BOOLEAN, slot : Slots, sclust : Clusters \cup {NoCluster},
        objsize : 0 .. CLUSTER, fptr : 0 .. CLUSTER, read : BOOLEAN,
        write : BOOLEAN, modified : BOOLEAN, shared : BOOLEAN]
Slot == [name : Names \cup {NoName}, dir : BOOLEAN,
         sclust : Clusters \cup {NoCluster}, size : 0 .. CLUSTER]
Mode == [read : BOOLEAN, write : BOOLEAN, create : BOOLEAN, append : BOOLEAN]

(***************************************************************************)
(* The directory has a slot, and descriptors and FILs are numbers.         *)
(***************************************************************************)
LEMMA Indices ==
    /\ 1 \in Slots /\ Slots \subseteq Nat
    /\ 1 \in FILs /\ FILs \subseteq Nat /\ NULL \notin FILs
    /\ CLUSTER \in Nat /\ 0 \in 0 .. CLUSTER
<1>1. Cardinality(Names) \in Nat /\ Cardinality(Names) # 0
  BY FilesAssumption, FS_CardinalityType, FS_EmptySet
<1>2. QED
  BY <1>1, FilesAssumption DEF Slots, FILs, NULL

(***************************************************************************)
(* The initial values and the values the calls build have their types.     *)
(***************************************************************************)
LEMMA Records ==
    /\ Blank \in Fil /\ FreeSlot \in Slot
    /\ \A flags : translate_flags(flags) \in Mode
    /\ \A s \in Slots, c \in Clusters \cup {NoCluster}, n \in 0 .. CLUSTER, m \in Mode, b \in BOOLEAN :
        NewFil(s, m, c, n, b) \in Fil
<1>1. Blank \in Fil
  BY Indices DEF Blank, Fil
<1>2. FreeSlot \in Slot
  BY Indices DEF FreeSlot, Slot
<1>3. \A flags : translate_flags(flags) \in Mode
  BY DEF translate_flags, Mode
<1>4. \A s \in Slots, c \in Clusters \cup {NoCluster}, n \in 0 .. CLUSTER, m \in Mode, b \in BOOLEAN :
        NewFil(s, m, c, n, b) \in Fil
  BY Indices DEF NewFil, Fil, Mode
<1>5. QED
  BY <1>1, <1>2, <1>3, <1>4

Types ==
    /\ file_table \in [FDS -> FILs \cup {NULL}]
    /\ path \in [FDS -> Names \cup {NoName}]
    /\ fil \in [FILs -> Fil]
    /\ slot \in [Slots -> Slot]
    /\ free \subseteq Clusters
    /\ illegal \in BOOLEAN
    /\ length \in [Slots -> 0 .. CLUSTER]

(***************************************************************************)
(* The type invariant, with the records named.                             *)
(***************************************************************************)
LEMMA TypesTypeOK == TypeOK <=> Types
BY DEF TypeOK, Types, Fil, Slot

(***************************************************************************)
(* libk.c: a descriptor in use points to a FIL, whose fields have types.   *)
(***************************************************************************)
LEMMA FilOf ==
    ASSUME Types, NEW fd \in FDS, file_table[fd] # NULL
    PROVE  file_table[fd] \in FILs /\ fil[file_table[fd]] \in Fil
BY DEF Types

(***************************************************************************)
(* ff.c, f_sync(): the directory keeps its type.                           *)
(***************************************************************************)
LEMMA SyncType ==
    ASSUME Types, NEW i \in FILs, NEW ok \in BOOLEAN
    PROVE  f_sync(i, ok) \in [Slots -> Slot] /\ DirectorySynced(i, ok) \in [Slots -> Slot]
<1>1. fil[i].slot \in Slots /\ fil[i].sclust \in Clusters \cup {NoCluster} /\ fil[i].objsize \in 0 .. CLUSTER
  BY DEF Types, Fil
<1>2. f_sync(i, ok) \in [Slots -> Slot]
  BY <1>1 DEF Types, f_sync, Slot
<1>3. QED
  BY <1>2 DEF DirectorySynced, Types

(***************************************************************************)
(* ff.c, f_close(): the FILs keep their type.                              *)
(***************************************************************************)
LEMMA CloseType ==
    ASSUME Types, NEW i \in FILs, NEW ok \in BOOLEAN
    PROVE  f_close(i, ok) \in [FILs -> Fil]
<1>1. fil[i] \in Fil
  BY DEF Types
<1>2. [Blank EXCEPT !.shared = fil[i].shared] \in Fil
  BY <1>1, Records DEF Fil
<1>3. [fil[i] EXCEPT !.modified = FALSE] \in Fil
  BY <1>1 DEF Fil
<1>4. QED
  BY <1>2, <1>3 DEF Types, f_close

(* FIL i with its pointer at n, first cluster c, and m when it has changes *)
(* to save; and the FILs with that.                                        *)
GrownFil(i, n, c, m) ==
    [fil[i] EXCEPT !.fptr = n, !.sclust = c, !.objsize = IF n > @ THEN n ELSE @, !.modified = m]
GrownFils(i, n, c, m) == [Grown(i, n, c) EXCEPT ![i].modified = m]

(***************************************************************************)
(* ff.c, f_lseek(), f_write(): a FIL moves its pointer, takes a cluster    *)
(* and grows; what that makes of it has the type of a FIL.                 *)
(***************************************************************************)
LEMMA GrownType ==
    ASSUME Types, NEW i \in FILs, NEW n \in 0 .. CLUSTER, NEW c \in Clusters \cup {NoCluster},
           NEW m \in BOOLEAN
    PROVE  /\ GrownFil(i, n, c, m) \in Fil
           /\ GrownFils(i, n, c, m) = [fil EXCEPT ![i] = GrownFil(i, n, c, m)]
<1>1. fil[i] \in Fil
  BY DEF Types
<1>2. GrownFil(i, n, c, m) \in Fil
  BY <1>1 DEF Fil, GrownFil
<1>3. GrownFils(i, n, c, m) = [fil EXCEPT ![i] = GrownFil(i, n, c, m)]
  BY <1>1 DEF Types, Grown, Fil, GrownFil, GrownFils
<1>4. QED
  BY <1>2, <1>3

(***************************************************************************)
(* ff.c: the cluster a write finds is one of the volume's, or none.        *)
(***************************************************************************)
LEMMA ChainType ==
    ASSUME Types, NEW i \in FILs, NEW c \in create_chain(i)
    PROVE  c \in Clusters \cup {NoCluster}
BY DEF Types, create_chain, Fil

-----------------------------------------------------------------------------
(* What a seek or a write makes of FIL i: pointer n, cluster c, and m when *)
(* it has changes to save; the cluster is the FIL's, or one that was free. *)
Moves(i, n, c, m) ==
    /\ c = fil[i].sclust \/ (fil[i].sclust = NoCluster /\ c \in free /\ n > 0)
    /\ c = NoCluster => n = 0 \/ n = fil[i].fptr
    /\ ~fil[i].write => n <= fil[i].objsize /\ m = fil[i].modified
    /\ ~m => n <= fil[i].objsize /\ ~fil[i].modified
    /\ fil' = [fil EXCEPT ![i] = GrownFil(i, n, c, m)]
    /\ free' = free \ {c}
    /\ length' = [length EXCEPT ![fil[i].slot] = IF n > @ THEN n ELSE @]

(***************************************************************************)
(* ff.c, f_write(): what a write moves.                                    *)
(***************************************************************************)
LEMMA WriteMoves ==
    ASSUME Types, NEW i \in FILs, f_write(i)
    PROVE  \E n \in 0 .. CLUSTER, c \in Clusters \cup {NoCluster}, m \in BOOLEAN : Moves(i, n, c, m)
<1>0. fil[i] \in Fil /\ fil[i].fptr \in 0 .. CLUSTER
  BY DEF Types, Fil
<1>1. fil[i].write /\ fil[i].fptr < CLUSTER
  BY DEF f_write
<1>2. PICK c \in create_chain(i) :
        LET n == IF c = NoCluster THEN fil[i].fptr ELSE fil[i].fptr + 1
        IN  /\ fil' = [Grown(i, n, c) EXCEPT ![i].modified = TRUE]
            /\ free' = free \ {c}
            /\ length' = [length EXCEPT ![fil[i].slot] = IF n > @ THEN n ELSE @]
  BY DEF f_write
<1> DEFINE n == IF c = NoCluster THEN fil[i].fptr ELSE fil[i].fptr + 1
<1>3. c \in Clusters \cup {NoCluster}
  BY ChainType
<1>4. n \in 0 .. CLUSTER /\ (c = NoCluster => n = fil[i].fptr) /\ (c # NoCluster => n > 0)
  BY <1>0, <1>1, Indices
<1>5. /\ fil' = GrownFils(i, n, c, TRUE)
      /\ free' = free \ {c}
      /\ length' = [length EXCEPT ![fil[i].slot] = IF n > @ THEN n ELSE @]
  BY <1>2 DEF GrownFils
<1> HIDE DEF n
<1>6. fil' = [fil EXCEPT ![i] = GrownFil(i, n, c, TRUE)]
  BY <1>3, <1>4, <1>5, GrownType
<1>7. c = fil[i].sclust \/ (fil[i].sclust = NoCluster /\ c \in free /\ n > 0)
  BY <1>4, FilesAssumption DEF create_chain, Types
<1>8. Moves(i, n, c, TRUE)
  BY <1>1, <1>4, <1>5, <1>6, <1>7 DEF Moves
<1>9. QED
  BY <1>3, <1>4, <1>8

(***************************************************************************)
(* ff.c, f_lseek(): what a seek to an offset moves.                        *)
(***************************************************************************)
LEMMA SeekMoves ==
    ASSUME Types, NEW i \in FILs, NEW ofs \in Nat, f_lseek(i, ofs)
    PROVE  \E n \in 0 .. CLUSTER, c \in Clusters \cup {NoCluster}, m \in BOOLEAN : Moves(i, n, c, m)
<1> DEFINE max == IF fil[i].write THEN CLUSTER ELSE fil[i].objsize
           k   == IF ofs > max THEN max ELSE ofs
<1>0. fil[i] \in Fil /\ fil[i].objsize \in 0 .. CLUSTER /\ fil[i].modified \in BOOLEAN
  BY DEF Types, Fil
<1>1. k \in 0 .. CLUSTER /\ (~fil[i].write => k <= fil[i].objsize)
  BY <1>0, Indices
<1>2. PICK c \in IF k = 0 THEN {fil[i].sclust} ELSE create_chain(i) :
        LET at == IF c = NoCluster THEN 0 ELSE k
        IN  /\ fil' = [Grown(i, at, c) EXCEPT ![i].modified = @ \/ at > fil[i].objsize]
            /\ free' = free \ {c}
            /\ length' = [length EXCEPT ![fil[i].slot] = IF at > @ THEN at ELSE @]
  BY DEF f_lseek
<1> DEFINE n == IF c = NoCluster THEN 0 ELSE k
           m == fil[i].modified \/ n > fil[i].objsize
<1> HIDE DEF k
<1>3. c \in Clusters \cup {NoCluster}
  BY <1>0, ChainType DEF Fil
<1>4. n \in 0 .. CLUSTER /\ (c = NoCluster => n = 0) /\ (~fil[i].write => n <= fil[i].objsize)
  BY <1>0, <1>1, Indices
<1>5. /\ fil' = [Grown(i, n, c) EXCEPT ![i].modified = @ \/ n > fil[i].objsize]
      /\ free' = free \ {c}
      /\ length' = [length EXCEPT ![fil[i].slot] = IF n > @ THEN n ELSE @]
  BY <1>2
<1>6. c = fil[i].sclust \/ (fil[i].sclust = NoCluster /\ c \in free /\ n > 0)
  BY <1>1, FilesAssumption DEF create_chain, Types
<1> HIDE DEF n
<1>7. m \in BOOLEAN
  OBVIOUS
<1>8. [Grown(i, n, c) EXCEPT ![i].modified = @ \/ n > fil[i].objsize] = GrownFils(i, n, c, m)
  <2>1. Grown(i, n, c)[i].modified = fil[i].modified
    BY <1>0 DEF Grown, Types, Fil
  <2>2. QED
    BY <2>1 DEF GrownFils
<1>f. fil' = GrownFils(i, n, c, m)
  BY <1>5, <1>8
<1>9. ~m => n <= fil[i].objsize /\ ~fil[i].modified
  BY <1>0, <1>4
<1>10. ~fil[i].write => m = fil[i].modified
  BY <1>0, <1>4
<1> HIDE DEF m
<1>11. fil' = [fil EXCEPT ![i] = GrownFil(i, n, c, m)]
  BY <1>3, <1>4, <1>7, <1>f, GrownType
<1>12. Moves(i, n, c, m)
  BY <1>4, <1>5, <1>6, <1>9, <1>10, <1>11 DEF Moves
<1>13. QED
  BY <1>3, <1>4, <1>7, <1>12

(***************************************************************************)
(* libk.c, lseek(): whatever the offset counts from, FatFs gets an         *)
(* unsigned one.                                                           *)
(***************************************************************************)
LEMMA SeekOffset ==
    ASSUME Types, NEW fd \in FDS, NEW s \in Seeks, lseek(fd, s[1], s[2])
    PROVE  /\ Usable(fd) /\ \E ofs \in Nat : f_lseek(file_table[fd], ofs)
           /\ UNCHANGED <<file_table, path, slot, illegal>>
<1>1. s[1] \in Int
  BY DEF Seeks
<1>2. \A n \in Int : Unsigned(n) \in Nat
  BY Indices DEF Unsigned
<1>3. fil[file_table[fd]].fptr \in Int
  <2>1. Usable(fd)
    BY DEF lseek
  <2>2. fil[file_table[fd]] \in Fil
    BY <2>1, FilOf DEF Usable
  <2>3. QED
    BY <2>2, Indices DEF Fil
<1>4. \A r \in Find(path[fd]) : slot[r].size \in Int
  <2>1. \A r \in Slots : slot[r].size \in 0 .. CLUSTER
    BY DEF Types, Slot
  <2>2. QED
    BY <2>1, Indices DEF Find
<1>5. Unsigned(s[1]) \in Nat /\ Unsigned(fil[file_table[fd]].fptr + s[1]) \in Nat
  <2>1. fil[file_table[fd]].fptr + s[1] \in Int
    BY <1>1, <1>3
  <2>2. QED
    BY <1>1, <1>2, <2>1
<1>6. \A r \in Find(path[fd]) : Unsigned(slot[r].size + s[1]) \in Nat
  <2>1. \A r \in Find(path[fd]) : slot[r].size + s[1] \in Int
    BY <1>1, <1>4
  <2>2. QED
    BY <1>2, <2>1
<1>7. QED
  BY <1>5, <1>6 DEF lseek

(***************************************************************************)
(* libk.c: forgetting unreachable FILs, and marking a copied one, keeps    *)
(* the type of the FILs.                                                   *)
(***************************************************************************)
LEMMA FilsType ==
    ASSUME NEW F \in [FILs -> Fil], NEW T, NEW i \in FILs \cup {NULL}
    PROVE  Reachable(F, T) \in [FILs -> Fil] /\ Copied(F, i) \in [FILs -> Fil]
<1>1. Reachable(F, T) \in [FILs -> Fil]
  BY Records DEF Reachable
<1>2. ASSUME i \in FILs PROVE [F EXCEPT ![i].shared = TRUE] \in [FILs -> Fil]
  BY <1>2 DEF Fil
<1>3. QED
  BY <1>1, <1>2 DEF Copied

(***************************************************************************)
(* What open() does to the variables, in its three cases.                  *)
(***************************************************************************)
LEMMA OpenTypes ==
    ASSUME Types, NEW n \in Names, NEW flags, open(n, flags)
    PROVE  Types'
<1>1. PICK fd \in FDS, i \in FILs :
        /\ path' = [path EXCEPT ![fd] = n]
        /\ \/ open_Truncate(n, flags, fd, i)
           \/ open_Create(n, flags, fd, i)
           \/ open_Existing(n, flags, fd, i)
  BY DEF open
<1>2. path' \in [FDS -> Names \cup {NoName}]
  BY <1>1 DEF Types
<1> DEFINE mode == translate_flags(flags)
<1>3. mode \in Mode
  BY Records
<1>4. ASSUME NEW f \in Fil, Opened(fd, i, f)
      PROVE  file_table' \in [FDS -> FILs \cup {NULL}] /\ fil' \in [FILs -> Fil]
  BY <1>4 DEF Opened, Types
<1> HIDE DEF mode
<1>5. CASE open_Truncate(n, flags, fd, i)
  <2>1. PICK s \in Find(n) :
            /\ slot' = [slot EXCEPT ![s].sclust = NoCluster, ![s].size = 0]
            /\ free' = free \cup remove_chain(slot[s].sclust)
            /\ length' = [length EXCEPT ![s] = 0]
            /\ illegal' = (illegal \/ IllegalOpen(s, mode))
            /\ Opened(fd, i, NewFil(s, mode, NoCluster, 0, TRUE))
    BY <1>5 DEF open_Truncate, mode
  <2>2. s \in Slots
    BY DEF Find
  <2>3. slot' \in [Slots -> Slot] /\ free' \subseteq Clusters /\ length' \in [Slots -> 0 .. CLUSTER]
    BY <2>1, <2>2, Indices DEF Types, Slot, remove_chain
  <2>4. illegal' \in BOOLEAN
    BY <2>1 DEF Types, IllegalOpen
  <2>5. NewFil(s, mode, NoCluster, 0, TRUE) \in Fil
    BY <1>3, <2>2, Records, Indices
  <2>6. QED
    BY <1>2, <1>4, <2>1, <2>3, <2>4, <2>5 DEF Types
<1>6. CASE open_Create(n, flags, fd, i)
  <2>1. PICK s \in Slots :
            /\ slot' = [slot EXCEPT ![s] = [FreeSlot EXCEPT !.name = n]]
            /\ length' = [length EXCEPT ![s] = 0]
            /\ Opened(fd, i, NewFil(s, mode, NoCluster, 0, TRUE))
    BY <1>6 DEF open_Create, mode
  <2>2. [FreeSlot EXCEPT !.name = n] \in Slot
    BY Records DEF Slot
  <2>3. slot' \in [Slots -> Slot] /\ length' \in [Slots -> 0 .. CLUSTER]
    BY <2>1, <2>2, Indices DEF Types
  <2>4. NewFil(s, mode, NoCluster, 0, TRUE) \in Fil
    BY <1>3, Records, Indices
  <2>5. QED
    BY <1>2, <1>4, <1>6, <2>1, <2>3, <2>4 DEF Types, open_Create
<1>7. CASE open_Existing(n, flags, fd, i)
  <2>1. PICK s \in Find(n) :
            /\ illegal' = (illegal \/ IllegalOpen(s, mode))
            /\ Opened(fd, i, NewFil(s, mode, slot[s].sclust, slot[s].size, FALSE))
            /\ UNCHANGED <<slot, free, length>>
    BY <1>7 DEF open_Existing, mode
  <2>2. s \in Slots /\ slot[s].sclust \in Clusters \cup {NoCluster} /\ slot[s].size \in 0 .. CLUSTER
    BY DEF Find, Types, Slot
  <2>3. NewFil(s, mode, slot[s].sclust, slot[s].size, FALSE) \in Fil
    BY <1>3, <2>2, Records
  <2>4. illegal' \in BOOLEAN
    BY <2>1 DEF Types, IllegalOpen
  <2>5. QED
    BY <1>2, <1>4, <2>1, <2>3, <2>4 DEF Types
<1>8. QED
  BY <1>1, <1>5, <1>6, <1>7

(***************************************************************************)
(* Every file call keeps the types.                                        *)
(***************************************************************************)
LEMMA NextTypes == Types /\ [Next]_vars => Types'
<1> SUFFICES ASSUME Types, [Next]_vars PROVE Types'
  OBVIOUS
<1>1. CASE UNCHANGED vars
  BY <1>1 DEF vars, Types
<1>2. ASSUME NEW n \in Names, NEW flags \in Flags, open(n, flags) PROVE Types'
  BY <1>2, OpenTypes
<1>3. ASSUME NEW n \in Names, unlink(n) PROVE Types'
  BY <1>3, Records, Indices DEF unlink, Find, Types, Slot, remove_chain
<1>4. ASSUME NEW n \in Names, mkdir(n) PROVE Types'
  <2>1. PICK s \in Slots, c \in free :
        /\ slot' = [slot EXCEPT ![s] = [name |-> n, dir |-> TRUE, sclust |-> c, size |-> 0]]
        /\ free' = free \ {c}
        /\ length' = [length EXCEPT ![s] = 0]
    BY <1>4 DEF mkdir
  <2>2. [name |-> n, dir |-> TRUE, sclust |-> c, size |-> 0] \in Slot
    BY Indices DEF Types, Slot
  <2>3. QED
    BY <1>4, <2>1, <2>2, Indices DEF mkdir, Types
<1>5. ASSUME NEW fd \in FDS, close(fd) PROVE Types'
  <2> DEFINE i == file_table[fd]
  <2>1. i \in FILs
    BY <1>5 DEF close, Types
  <2> HIDE DEF i
  <2>2. PICK ok \in f_close_results(i) :
            /\ slot' = DirectorySynced(i, ok)
            /\ file_table' = TableClosed(fd, ok)
            /\ path' = PathClosed(fd, ok)
            /\ fil' = Reachable(f_close(i, ok), TableClosed(fd, ok))
    BY <1>5 DEF close, i
  <2>3. ok \in BOOLEAN
    BY DEF f_close_results, sync_fs
  <2>4. slot' \in [Slots -> Slot] /\ fil' \in [FILs -> Fil]
    BY <2>1, <2>2, <2>3, SyncType, CloseType, FilsType
  <2>5. file_table' \in [FDS -> FILs \cup {NULL}] /\ path' \in [FDS -> Names \cup {NoName}]
    BY <2>2 DEF TableClosed, PathClosed, Types
  <2>6. QED
    BY <1>5, <2>4, <2>5 DEF close, Types
<1>6. ASSUME NEW fd \in FDS, dup(fd) PROVE Types'
  <2>1. fil' \in [FILs -> Fil]
    BY SMTT(30), <1>6, FilsType DEF dup, Types
  <2>2. QED
    BY <1>6, <2>1 DEF dup, Types
<1>7. ASSUME NEW fd \in FDS, read(fd) PROVE Types'
  <2> DEFINE i == file_table[fd]
  <2>1. i \in FILs /\ fil[i] \in Fil
    BY <1>7, FilOf DEF read, Usable
  <2> HIDE DEF i
  <2>2. fil[i].fptr < fil[i].objsize /\ fil' = [fil EXCEPT ![i].fptr = @ + 1]
    BY <1>7 DEF read, f_read, i
  <2>3. fil[i].fptr + 1 \in 0 .. CLUSTER
    BY <2>1, <2>2, Indices DEF Fil
  <2>4. fil' \in [FILs -> Fil]
    BY <2>1, <2>2, <2>3 DEF Types, Fil
  <2>5. QED
    BY <1>7, <2>4 DEF read, Types
<1>m. ASSUME NEW i \in FILs, NEW n \in 0 .. CLUSTER, NEW c \in Clusters \cup {NoCluster},
             NEW m \in BOOLEAN, Moves(i, n, c, m), UNCHANGED <<file_table, path, slot, illegal>>
      PROVE  Types'
  <2>1. fil' \in [FILs -> Fil]
    BY <1>m, GrownType DEF Moves, Types
  <2>2. fil[i].slot \in Slots
    BY DEF Types, Fil
  <2>3. length' \in [Slots -> 0 .. CLUSTER]
    BY <1>m, <2>2, Indices DEF Moves, Types
  <2>4. QED
    BY <1>m, <2>1, <2>3 DEF Moves, Types
<1>8. ASSUME NEW fd \in FDS, write(fd) PROVE Types'
  BY <1>8, <1>m, FilOf, WriteMoves DEF write, Usable
<1>9. ASSUME NEW old \in FDS, NEW new \in FDS, dup2(old, new) PROVE Types'
  <2> DEFINE i == file_table[new]
  <2>1. i \in FILs \cup {NULL} /\ file_table[old] \in FILs
    BY <1>9 DEF dup2, Types
  <2>2. PICK ok \in IF i = NULL THEN {FALSE} ELSE f_close_results(i) :
            LET table == [TableClosed(new, ok) EXCEPT ![new] = TableClosed(new, ok)[old]]
            IN  /\ file_table' = table
                /\ path' = [PathClosed(new, ok) EXCEPT ![new] = PathClosed(new, ok)[old]]
                /\ slot' = IF i = NULL THEN slot ELSE DirectorySynced(i, ok)
                /\ fil' = Reachable(Copied(IF i = NULL THEN fil ELSE f_close(i, ok), file_table[old]),
                                    table)
    BY <1>9 DEF dup2
  <2> HIDE DEF i
  <2>3. ok \in BOOLEAN
    BY DEF f_close_results, sync_fs
  <2>4. (IF i = NULL THEN fil ELSE f_close(i, ok)) \in [FILs -> Fil]
    BY <2>1, <2>3, CloseType DEF Types
  <2>5. fil' \in [FILs -> Fil]
    BY <2>1, <2>2, <2>4, FilsType
  <2>6. slot' \in [Slots -> Slot]
    BY <2>1, <2>2, <2>3, SyncType DEF Types
  <2>7. TableClosed(new, ok) \in [FDS -> FILs \cup {NULL}] /\ PathClosed(new, ok) \in [FDS -> Names \cup {NoName}]
    BY DEF TableClosed, PathClosed, Types
  <2>8. file_table' \in [FDS -> FILs \cup {NULL}] /\ path' \in [FDS -> Names \cup {NoName}]
    BY <2>2, <2>7
  <2>9. QED
    BY <1>9, <2>5, <2>6, <2>8 DEF dup2, Types
<1>10. ASSUME NEW fd \in FDS, NEW s \in Seeks, lseek(fd, s[1], s[2]) PROVE Types'
  <2>1. Usable(fd) /\ \E ofs \in Nat : f_lseek(file_table[fd], ofs)
    BY <1>10, SeekOffset
  <2>2. file_table[fd] \in FILs
    BY <2>1, FilOf DEF Usable
  <2>3. QED
    BY <1>10, <1>m, <2>1, <2>2, SeekMoves, SeekOffset
<1>11. QED
  BY <1>1, <1>2, <1>3, <1>4, <1>5, <1>6, <1>7, <1>8, <1>9, <1>10 DEF Next

-----------------------------------------------------------------------------
(* What the program's good behaviour keeps true of directory, clusters and *)
(* the FILs' caches.                                                       *)
DataInv == WritersAlone /\ CachesRight /\ NamesDiffer /\ ClustersSound /\ LengthsRight

(***************************************************************************)
(* libk.c: the FILs in reach are those a descriptor points to.             *)
(***************************************************************************)
LEMMA ReferencedDef ==
    ASSUME Types
    PROVE  /\ Referenced \subseteq FILs
           /\ \A i \in FILs : i \in Referenced <=> \E fd \in FDS : file_table[fd] = i
           /\ \A s : \A i : i \in Open(s) <=> i \in FILs /\ InUse(i) /\ fil[i].slot = s
BY Indices DEF Referenced, Types, Open, InUse

(***************************************************************************)
(* ff.c, f_close(), and what dup() and dup2() do about it: the directory   *)
(* gets what FIL i had to save; any other FIL in use stays in use, and i   *)
(* stays in use at most without changes to save.  NULL: nothing is closed. *)
(***************************************************************************)
Closes(i) ==
    /\ slot' = IF i # NULL /\ fil[i].valid /\ fil[i].modified
                 THEN [slot EXCEPT ![fil[i].slot].sclust = fil[i].sclust,
                                   ![fil[i].slot].size = fil[i].objsize]
                 ELSE slot
    /\ \A j \in FILs : InUse(j)' =>
        /\ InUse(j)
        /\ fil'[j].slot = fil[j].slot /\ fil'[j].sclust = fil[j].sclust
        /\ fil'[j].objsize = fil[j].objsize /\ fil'[j].fptr = fil[j].fptr
        /\ fil'[j].write = fil[j].write
        /\ fil'[j].modified = IF j = i THEN FALSE ELSE fil[j].modified
    /\ \A j \in FILs : InUse(j) /\ j # i => InUse(j)'
    /\ UNCHANGED <<free, length>>

(***************************************************************************)
(* ff.c: after closing a FIL, whatever disk_ioctl() answered, the          *)
(* directory is right and the volume sound.                                *)
(***************************************************************************)
LEMMA ClosesData ==
    ASSUME Types, Types', DataInv, NEW i \in FILs \cup {NULL}, Closes(i), i # NULL => i \in Referenced
    PROVE  DataInv'
<1> DEFINE saves == i # NULL /\ fil[i].valid /\ fil[i].modified
           t     == fil[i].slot
<1>1. /\ WritersAlone /\ CachesRight /\ NamesDiffer /\ ClustersSound /\ LengthsRight
      /\ UNCHANGED <<free, length>>
  BY DEF DataInv, Closes
<1>2. \A j \in FILs : InUse(j)' =>
        /\ InUse(j)
        /\ fil'[j].slot = fil[j].slot /\ fil'[j].sclust = fil[j].sclust
        /\ fil'[j].objsize = fil[j].objsize /\ fil'[j].fptr = fil[j].fptr
        /\ fil'[j].write = fil[j].write
        /\ j # i => fil'[j].modified = fil[j].modified
        /\ j = i => ~fil'[j].modified
  BY DEF Closes
<1>3. \A j \in FILs : InUse(j) /\ j # i => InUse(j)'
  BY DEF Closes
<1>4. \A j \in FILs : fil[j].slot \in Slots
  BY DEF Types, Fil
<1>5. saves => i \in FILs /\ InUse(i) /\ t \in Slots /\ fil[i].write
  BY <1>1, <1>4 DEF InUse, WritersAlone
<1>6. /\ \A s \in Slots : slot'[s].name = slot[s].name
      /\ \A s \in Slots : ~(saves /\ s = t) => slot'[s].sclust = slot[s].sclust /\ slot'[s].size = slot[s].size
      /\ saves => slot'[t].sclust = fil[i].sclust /\ slot'[t].size = fil[i].objsize
  BY <1>5 DEF Closes, Types, Slot
<1> HIDE DEF saves, t
<1>7. WritersAlone'
  BY <1>1, <1>2, <1>4, <1>6 DEF WritersAlone
<1>8. NamesDiffer'
  BY <1>1, <1>6 DEF NamesDiffer
<1>9. CachesRight'
  <2>1. ASSUME NEW j \in FILs, InUse(j)'
        PROVE  /\ fil'[j].objsize = length'[fil'[j].slot]
               /\ fil'[j].fptr <= fil'[j].objsize
               /\ fil'[j].sclust = NoCluster => fil'[j].objsize = 0
    BY <1>1, <1>2, <2>1 DEF CachesRight
  <2>2. ASSUME NEW j \in FILs, InUse(j)', ~fil'[j].modified
        PROVE  fil'[j].sclust = slot'[fil'[j].slot].sclust /\ fil'[j].objsize = slot'[fil'[j].slot].size
    <3>1. CASE saves /\ fil[j].slot = t
      <4>1. j = i
        BY <1>1, <1>2, <1>5, <2>2, <3>1 DEF WritersAlone, t
      <4>2. QED
        BY <1>2, <1>6, <2>2, <3>1, <4>1
    <3>2. CASE ~(saves /\ fil[j].slot = t)
      <4>1. ~fil[j].modified
        <5>1. fil[j].modified \in BOOLEAN /\ j # NULL
          BY Indices DEF Types, Fil
        <5>2. CASE j = i
          BY <1>2, <2>2, <3>2, <5>1, <5>2 DEF saves, t, InUse
        <5>3. CASE j # i
          BY <1>2, <2>2, <5>3
        <5>4. QED
          BY <5>2, <5>3
      <4>2. QED
        BY <1>1, <1>2, <1>4, <1>6, <2>2, <3>2, <4>1 DEF CachesRight
    <3>3. QED
      BY <3>1, <3>2
  <2>3. \A s \in Slots : slot'[s].name # NoName /\ slot'[s].sclust = NoCluster => slot'[s].size = 0
    BY <1>1, <1>5, <1>6 DEF CachesRight
  <2>4. QED
    BY <2>1, <2>2, <2>3 DEF CachesRight
<1>10. /\ \A s \in Slots, c \in Clusters : SlotHolds(s, c)' =>
            SlotHolds(s, c) \/ (saves /\ s = t /\ FilHolds(i, c))
       /\ \A j \in FILs, c \in Clusters : FilHolds(j, c)' => FilHolds(j, c) /\ fil'[j].slot = fil[j].slot
  BY <1>2, <1>5, <1>6 DEF SlotHolds, FilHolds
<1>11. ClustersSound'
  BY <1>1, <1>5, <1>10 DEF ClustersSound, t
<1>12. LengthsRight'
  <2> SUFFICES ASSUME NEW s \in Slots, slot'[s].name # NoName,
                      \A j \in FILs : InUse(j)' /\ fil'[j].slot = s => ~fil'[j].modified
               PROVE  slot'[s].size = length'[s]
    BY DEF LengthsRight
  <2>1. CASE saves /\ s = t
    BY <1>1, <1>5, <1>6, <2>1 DEF CachesRight, t
  <2>2. CASE ~(saves /\ s = t)
    <3>1. \A j \in FILs : InUse(j) /\ fil[j].slot = s => ~fil[j].modified
      BY <1>2, <1>3, <2>2 DEF saves, t, InUse, NULL, FILs
    <3>2. QED
      BY <1>1, <1>6, <2>2, <3>1 DEF LengthsRight
  <2>3. QED
    BY <2>1, <2>2
<1>13. QED
  BY <1>7, <1>8, <1>9, <1>11, <1>12 DEF DataInv

(***************************************************************************)
(* ff.c, f_write(), f_lseek(): the one FIL that may change a file takes a  *)
(* cluster nobody has, and the file's length is the FIL's.                 *)
(***************************************************************************)
LEMMA MovesData ==
    ASSUME Types, Types', DataInv, NEW i \in FILs, InUse(i),
           NEW n \in 0 .. CLUSTER, NEW c \in Clusters \cup {NoCluster}, NEW m \in BOOLEAN,
           Moves(i, n, c, m), UNCHANGED <<file_table, slot>>
    PROVE  DataInv'
<1> DEFINE t == fil[i].slot
<1>1. /\ WritersAlone /\ CachesRight /\ NamesDiffer /\ ClustersSound /\ LengthsRight
      /\ c = fil[i].sclust \/ (fil[i].sclust = NoCluster /\ c \in free /\ n > 0)
      /\ c = NoCluster => n = 0 \/ n = fil[i].fptr
      /\ ~fil[i].write => n <= fil[i].objsize /\ m = fil[i].modified
      /\ ~m => n <= fil[i].objsize /\ ~fil[i].modified
      /\ free' = free \ {c}
      /\ slot' = slot
  BY DEF DataInv, Moves
<1>2. \A j \in FILs : fil[j].slot \in Slots /\ fil[j] \in Fil
  BY DEF Types, Fil
<1>3. /\ fil[i].objsize \in Nat /\ n \in Nat /\ fil[i].fptr \in Nat
      /\ \A s \in Slots : length[s] \in Nat
  BY <1>2, Indices DEF Fil, Types
<1>4. /\ fil'[i].slot = t /\ fil'[i].valid = fil[i].valid /\ fil'[i].write = fil[i].write
      /\ fil'[i].sclust = c /\ fil'[i].fptr = n /\ fil'[i].modified = m
      /\ fil'[i].objsize = IF n > fil[i].objsize THEN n ELSE fil[i].objsize
      /\ \A j \in FILs : j # i => fil'[j] = fil[j]
  BY <1>2 DEF Moves, GrownFil, Types, Fil
<1>5. \A j \in FILs : InUse(j)' <=> InUse(j)
  BY <1>4 DEF InUse, Referenced
<1>6. /\ length'[t] = IF n > length[t] THEN n ELSE length[t]
      /\ \A s \in Slots : s # t => length'[s] = length[s]
  BY <1>2 DEF Moves, Types
<1>7. fil[i].objsize = length[t] /\ fil[i].fptr <= fil[i].objsize /\ (fil[i].sclust = NoCluster => fil[i].objsize = 0)
  BY <1>1 DEF CachesRight
<1>8. length'[t] = fil'[i].objsize /\ fil'[i].fptr <= fil'[i].objsize
  BY <1>3, <1>4, <1>6, <1>7
(* Another FIL on the same file exists only if none may change it: then    *)
(* the file does not grow.                                                 *)
<1>9. ASSUME NEW j \in FILs, InUse(j), fil[j].slot = t, j # i
      PROVE  length'[t] = length[t]
  <2>1. ~fil[i].write
    BY <1>1, <1>9 DEF WritersAlone
  <2>2. QED
    BY <1>1, <1>3, <1>6, <1>7, <2>1
<1>10. ~m => length'[t] = length[t] /\ c = fil[i].sclust /\ fil'[i].objsize = fil[i].objsize
  BY <1>1, <1>3, <1>4, <1>6, <1>7
<1>11. c = NoCluster => fil'[i].objsize = 0
  BY <1>1, <1>3, <1>4, <1>7, FilesAssumption DEF Types
<1> HIDE DEF t
<1>12. WritersAlone'
  <2>1. \A j \in FILs : fil'[j].slot = fil[j].slot /\ fil'[j].write = fil[j].write
    BY <1>4 DEF t
  <2>2. m => fil[i].write
    BY <1>1 DEF WritersAlone
  <2>3. \A j \in FILs : InUse(j)' => slot'[fil'[j].slot].name # NoName
    BY <1>1, <1>5, <2>1 DEF WritersAlone
  <2>4. \A j \in FILs : InUse(j)' /\ fil'[j].modified => fil'[j].write
    BY <1>1, <1>4, <1>5, <2>1, <2>2 DEF WritersAlone
  <2>5. \A j, k \in FILs : InUse(j)' /\ InUse(k)' /\ fil'[j].slot = fil'[k].slot /\ fil'[j].write => j = k
    BY <1>1, <1>5, <2>1 DEF WritersAlone
  <2>6. QED
    BY <2>3, <2>4, <2>5 DEF WritersAlone
<1>13. CachesRight'
  <2>1. ASSUME NEW j \in FILs, InUse(j)'
        PROVE  /\ fil'[j].objsize = length'[fil'[j].slot]
               /\ fil'[j].fptr <= fil'[j].objsize
               /\ fil'[j].sclust = NoCluster => fil'[j].objsize = 0
               /\ ~fil'[j].modified => /\ fil'[j].sclust = slot'[fil'[j].slot].sclust
                                       /\ fil'[j].objsize = slot'[fil'[j].slot].size
    <3>1. CASE j = i
      BY <1>1, <1>4, <1>5, <1>8, <1>10, <1>11, <2>1, <3>1 DEF CachesRight, t
    <3>2. CASE j # i
      <4>1. length'[fil[j].slot] = length[fil[j].slot]
        BY <1>2, <1>5, <1>6, <1>9, <2>1, <3>2
      <4>2. QED
        BY <1>1, <1>4, <1>5, <2>1, <3>2, <4>1 DEF CachesRight
    <3>3. QED
      BY <3>1, <3>2
  <2>2. QED
    BY <1>1, <2>1 DEF CachesRight
<1>14. NamesDiffer'
  BY <1>1 DEF NamesDiffer
<1>15. ClustersSound'
  <2>1. \A s \in Slots, d \in Clusters : SlotHolds(s, d)' <=> SlotHolds(s, d)
    BY <1>1 DEF SlotHolds
  <2>2. \A j \in FILs, d \in Clusters : FilHolds(j, d)' => FilHolds(j, d) \/ (j = i /\ d = c /\ c \in free)
    BY <1>1, <1>4, <1>5 DEF FilHolds
  <2>3. \A j \in FILs : fil'[j].slot = fil[j].slot
    BY <1>4 DEF t
  <2>4. \A d \in Clusters : d \notin free => d \notin free'
    BY <1>1
  <2>5. c \notin free'
    BY <1>1
  <2>6. QED
    BY <1>1, <2>1, <2>2, <2>3, <2>4, <2>5 DEF ClustersSound
<1>16. LengthsRight'
  <2> SUFFICES ASSUME NEW s \in Slots, slot'[s].name # NoName,
                      \A j \in FILs : InUse(j)' /\ fil'[j].slot = s => ~fil'[j].modified
               PROVE  slot'[s].size = length'[s]
    BY DEF LengthsRight
  <2>1. s = t => ~m
    BY <1>4, <1>5
  <2>2. length'[s] = length[s]
    BY <1>6, <1>10, <2>1
  <2>3. \A j \in FILs : InUse(j) /\ fil[j].slot = s => ~fil[j].modified
    BY <1>1, <1>4, <1>5, <2>1 DEF t
  <2>4. QED
    BY <1>1, <2>2, <2>3 DEF LengthsRight
<1>17. QED
  BY <1>12, <1>13, <1>14, <1>15, <1>16 DEF DataInv

(***************************************************************************)
(* ff.c, f_read(): reading moves a pointer up to the end of the file.      *)
(***************************************************************************)
LEMMA ReadData ==
    ASSUME Types, Types', DataInv, NEW i \in FILs, f_read(i),
           UNCHANGED <<file_table, slot, free, length>>
    PROVE  DataInv'
<1>1. fil[i] \in Fil /\ fil[i].fptr \in Nat /\ fil[i].objsize \in Nat
  BY Indices DEF Types, Fil
<1>2. /\ fil'[i].slot = fil[i].slot /\ fil'[i].valid = fil[i].valid /\ fil'[i].write = fil[i].write
      /\ fil'[i].sclust = fil[i].sclust /\ fil'[i].modified = fil[i].modified
      /\ fil'[i].objsize = fil[i].objsize /\ fil'[i].fptr <= fil'[i].objsize
      /\ \A j \in FILs : j # i => fil'[j] = fil[j]
  BY <1>1 DEF f_read, Types, Fil
<1>3. \A j \in FILs : /\ InUse(j)' <=> InUse(j)
                      /\ fil'[j].slot = fil[j].slot /\ fil'[j].write = fil[j].write
                      /\ fil'[j].sclust = fil[j].sclust /\ fil'[j].modified = fil[j].modified
                      /\ fil'[j].objsize = fil[j].objsize
                      /\ fil[j].fptr <= fil[j].objsize => fil'[j].fptr <= fil'[j].objsize
  BY <1>2 DEF InUse, Referenced
<1>4. WritersAlone'
  BY <1>3 DEF DataInv, WritersAlone
<1>5. CachesRight'
  BY <1>3 DEF DataInv, CachesRight
<1>6. NamesDiffer'
  BY DEF DataInv, NamesDiffer
<1>7. ClustersSound'
  BY <1>3 DEF DataInv, ClustersSound, SlotHolds, FilHolds
<1>8. LengthsRight'
  BY <1>3 DEF DataInv, LengthsRight
<1>9. QED
  BY <1>4, <1>5, <1>6, <1>7, <1>8 DEF DataInv

(***************************************************************************)
(* libk.c, open(): the new FIL is in use, and the others are as they were. *)
(***************************************************************************)
LEMMA OpenedUse ==
    ASSUME Types, NEW fd \in FDS, NEW i \in FILs, NEW f \in Fil,
           file_table[fd] = NULL, NewId(i), Opened(fd, i, f)
    PROVE  /\ fil'[i] = f /\ \A j \in FILs : j # i => fil'[j] = fil[j]
           /\ ~InUse(i)
           /\ \A j \in FILs : j # i => (InUse(j)' <=> InUse(j))
           /\ InUse(i)' <=> f.valid
<1>1. /\ file_table' = [file_table EXCEPT ![fd] = i]
      /\ fil' = [fil EXCEPT ![i] = f]
      /\ i \notin Referenced
  BY DEF Opened, NewId
<1>2. fil'[i] = f /\ \A j \in FILs : j # i => fil'[j] = fil[j]
  BY <1>1 DEF Types
<1>3. \A j \in FILs : j # i => (j \in Referenced' <=> j \in Referenced)
  BY <1>1, Indices DEF Referenced, Types
<1>4. i \in Referenced'
  BY <1>1, Indices DEF Referenced, Types
<1>5. QED
  BY <1>1, <1>2, <1>3, <1>4 DEF InUse

(***************************************************************************)
(* libk.c, translate_flags(): of the ways programs open files, only those  *)
(* that may write create, empty or append.                                 *)
(***************************************************************************)
LEMMA FlagsMode ==
    ASSUME NEW flags \in Flags
    PROVE  /\ translate_flags(flags).create => translate_flags(flags).write
           /\ translate_flags(flags).append => translate_flags(flags).write
BY DEF Flags, translate_flags

(***************************************************************************)
(* ff.c, f_open() of a file that is emptied: it is illegal when the file   *)
(* is open, otherwise nobody holds the cluster that is given back.         *)
(***************************************************************************)
LEMMA TruncateData ==
    ASSUME Types, Types', DataInv, NEW n \in Names, NEW flags \in Flags,
           NEW fd \in FDS, NEW i \in FILs, file_table[fd] = NULL, NewId(i),
           open_Truncate(n, flags, fd, i), ~illegal'
    PROVE  DataInv'
<1> DEFINE mode == translate_flags(flags)
<1>1. /\ WritersAlone /\ CachesRight /\ NamesDiffer /\ ClustersSound /\ LengthsRight
  BY DEF DataInv
<1>2. PICK s \in Slots :
            /\ n # NoName /\ slot[s].name = n /\ mode.create
            /\ slot' = [slot EXCEPT ![s].sclust = NoCluster, ![s].size = 0]
            /\ free' = free \cup remove_chain(slot[s].sclust)
            /\ length' = [length EXCEPT ![s] = 0]
            /\ illegal' = (illegal \/ IllegalOpen(s, mode))
            /\ Opened(fd, i, NewFil(s, mode, NoCluster, 0, TRUE))
  BY DEF open_Truncate, Find
<1> DEFINE f == NewFil(s, mode, NoCluster, 0, TRUE)
<1>3. /\ f.valid /\ f.slot = s /\ f.sclust = NoCluster /\ f.objsize = 0 /\ f.fptr = 0
      /\ f.modified /\ f.write = mode.write /\ f \in Fil
  <2>1. f \in Fil
    BY Records, Indices
  <2>2. QED
    BY <2>1 DEF NewFil
<1>4. mode.write
  BY <1>2, FlagsMode
<1>5. Opened(fd, i, f)
  BY <1>2
<1> HIDE DEF f, mode
<1>6. /\ fil'[i] = f /\ \A j \in FILs : j # i => fil'[j] = fil[j]
      /\ ~InUse(i) /\ InUse(i)'
      /\ \A j \in FILs : j # i => (InUse(j)' <=> InUse(j))
  BY <1>3, <1>5, OpenedUse
<1>7. \A j \in FILs : InUse(j) => fil[j].slot # s
  BY <1>2, ReferencedDef DEF IllegalOpen
<1>8. /\ \A r \in Slots : slot'[r].name = slot[r].name
      /\ \A r \in Slots : r # s => slot'[r] = slot[r] /\ length'[r] = length[r]
      /\ slot'[s].sclust = NoCluster /\ slot'[s].size = 0 /\ length'[s] = 0
  BY <1>2 DEF Types, Slot
<1>9. \A j \in FILs : fil[j].slot \in Slots
  BY DEF Types, Fil
<1>10. WritersAlone'
  <2>1. fil'[i].slot = s /\ fil'[i].write /\ slot'[s].name # NoName
    BY <1>2, <1>3, <1>4, <1>6, <1>8
  <2>2. \A j \in FILs : j # i /\ InUse(j)' =>
            InUse(j) /\ fil'[j] = fil[j] /\ fil[j].slot # s /\ slot'[fil[j].slot].name = slot[fil[j].slot].name
    BY <1>6, <1>7, <1>8, <1>9
  <2>3. \A j \in FILs : InUse(j)' => slot'[fil'[j].slot].name # NoName
    BY <1>1, <2>1, <2>2 DEF WritersAlone
  <2>4. \A j \in FILs : InUse(j)' /\ fil'[j].modified => fil'[j].write
    BY <1>1, <2>1, <2>2 DEF WritersAlone
  <2>5. \A j, k \in FILs : InUse(j)' /\ InUse(k)' /\ fil'[j].slot = fil'[k].slot /\ fil'[j].write => j = k
    BY <1>1, <2>1, <2>2 DEF WritersAlone
  <2>6. QED
    BY <2>3, <2>4, <2>5 DEF WritersAlone
<1>11. CachesRight'
  <2>1. ASSUME NEW j \in FILs, InUse(j)'
        PROVE  /\ fil'[j].objsize = length'[fil'[j].slot]
               /\ fil'[j].fptr <= fil'[j].objsize
               /\ fil'[j].sclust = NoCluster => fil'[j].objsize = 0
               /\ ~fil'[j].modified => /\ fil'[j].sclust = slot'[fil'[j].slot].sclust
                                       /\ fil'[j].objsize = slot'[fil'[j].slot].size
    BY <1>1, <1>3, <1>6, <1>7, <1>8, <1>9, <2>1 DEF CachesRight
  <2>2. \A r \in Slots : slot'[r].name # NoName /\ slot'[r].sclust = NoCluster => slot'[r].size = 0
    BY <1>1, <1>8 DEF CachesRight
  <2>3. QED
    BY <2>1, <2>2 DEF CachesRight
<1>12. NamesDiffer'
  BY <1>1, <1>8 DEF NamesDiffer
<1>13. ClustersSound'
  <2>1. /\ \A r \in Slots, c \in Clusters : SlotHolds(r, c)' => SlotHolds(r, c) /\ r # s
        /\ \A j \in FILs, c \in Clusters : FilHolds(j, c)' => FilHolds(j, c) /\ fil'[j].slot = fil[j].slot
    BY <1>3, <1>6, <1>8 DEF SlotHolds, FilHolds
  <2>2. \A c \in Clusters : c \in free' => c \in free \/ SlotHolds(s, c)
    BY <1>2, FilesAssumption DEF remove_chain, SlotHolds
  <2>3. \A j \in FILs, c \in Clusters : FilHolds(j, c) => fil[j].slot # s
    BY <1>7 DEF FilHolds
  <2>4. QED
    BY <1>1, <2>1, <2>2, <2>3 DEF ClustersSound
<1>14. LengthsRight'
  BY <1>1, <1>6, <1>8 DEF LengthsRight
<1>15. QED
  BY <1>10, <1>11, <1>12, <1>13, <1>14 DEF DataInv

(***************************************************************************)
(* ff.c, f_open() of a new file: its slot was free, and no FIL in use is   *)
(* open on a free slot.                                                    *)
(***************************************************************************)
LEMMA CreateData ==
    ASSUME Types, Types', DataInv, NEW n \in Names, NEW flags \in Flags,
           NEW fd \in FDS, NEW i \in FILs, file_table[fd] = NULL, NewId(i),
           open_Create(n, flags, fd, i)
    PROVE  DataInv'
<1> DEFINE mode == translate_flags(flags)
<1>1. /\ WritersAlone /\ CachesRight /\ NamesDiffer /\ ClustersSound /\ LengthsRight
  BY DEF DataInv
<1>2. PICK s \in Slots :
            /\ Find(n) = {} /\ (mode.create \/ mode.append)
            /\ slot[s].name = NoName
            /\ slot' = [slot EXCEPT ![s] = [FreeSlot EXCEPT !.name = n]]
            /\ length' = [length EXCEPT ![s] = 0]
            /\ Opened(fd, i, NewFil(s, mode, NoCluster, 0, TRUE))
            /\ free' = free
  BY DEF open_Create, FirstFree
<1> DEFINE f == NewFil(s, mode, NoCluster, 0, TRUE)
<1>3. /\ f.valid /\ f.slot = s /\ f.sclust = NoCluster /\ f.objsize = 0 /\ f.fptr = 0
      /\ f.modified /\ f.write = mode.write /\ f \in Fil
  <2>1. f \in Fil
    BY Records, Indices
  <2>2. QED
    BY <2>1 DEF NewFil
<1>4. mode.write
  BY <1>2, FlagsMode
<1>5. Opened(fd, i, f)
  BY <1>2
<1> HIDE DEF f, mode
<1>6. /\ fil'[i] = f /\ \A j \in FILs : j # i => fil'[j] = fil[j]
      /\ ~InUse(i) /\ InUse(i)'
      /\ \A j \in FILs : j # i => (InUse(j)' <=> InUse(j))
  BY <1>3, <1>5, OpenedUse
<1>7. \A j \in FILs : InUse(j) => fil[j].slot # s
  BY <1>1, <1>2 DEF WritersAlone
<1>8. /\ \A r \in Slots : r # s => slot'[r] = slot[r] /\ length'[r] = length[r]
      /\ slot'[s].sclust = NoCluster /\ slot'[s].size = 0 /\ slot'[s].name = n /\ length'[s] = 0
  BY <1>2 DEF Types, FreeSlot
<1>9. \A j \in FILs : fil[j].slot \in Slots
  BY DEF Types, Fil
<1>10. WritersAlone'
  <2>1. fil'[i].slot = s /\ fil'[i].write /\ slot'[s].name # NoName
    BY <1>2, <1>3, <1>4, <1>6, <1>8, FilesAssumption
  <2>2. \A j \in FILs : j # i /\ InUse(j)' =>
            InUse(j) /\ fil'[j] = fil[j] /\ fil[j].slot # s /\ slot'[fil[j].slot].name = slot[fil[j].slot].name
    BY <1>6, <1>7, <1>8, <1>9
  <2>3. \A j \in FILs : InUse(j)' => slot'[fil'[j].slot].name # NoName
    BY <1>1, <2>1, <2>2 DEF WritersAlone
  <2>4. \A j \in FILs : InUse(j)' /\ fil'[j].modified => fil'[j].write
    BY <1>1, <2>1, <2>2 DEF WritersAlone
  <2>5. \A j, k \in FILs : InUse(j)' /\ InUse(k)' /\ fil'[j].slot = fil'[k].slot /\ fil'[j].write => j = k
    BY <1>1, <2>1, <2>2 DEF WritersAlone
  <2>6. QED
    BY <2>3, <2>4, <2>5 DEF WritersAlone
<1>11. CachesRight'
  <2>1. ASSUME NEW j \in FILs, InUse(j)'
        PROVE  /\ fil'[j].objsize = length'[fil'[j].slot]
               /\ fil'[j].fptr <= fil'[j].objsize
               /\ fil'[j].sclust = NoCluster => fil'[j].objsize = 0
               /\ ~fil'[j].modified => /\ fil'[j].sclust = slot'[fil'[j].slot].sclust
                                       /\ fil'[j].objsize = slot'[fil'[j].slot].size
    BY <1>1, <1>3, <1>6, <1>7, <1>8, <1>9, <2>1 DEF CachesRight
  <2>2. \A r \in Slots : slot'[r].name # NoName /\ slot'[r].sclust = NoCluster => slot'[r].size = 0
    BY <1>1, <1>8 DEF CachesRight
  <2>3. QED
    BY <2>1, <2>2 DEF CachesRight
<1>12. NamesDiffer'
  <2>1. \A r \in Slots : slot[r].name # n
    BY <1>2, FilesAssumption DEF Find
  <2>2. QED
    BY <1>1, <1>8, <2>1 DEF NamesDiffer
<1>13. ClustersSound'
  <2>1. /\ \A r \in Slots, c \in Clusters : SlotHolds(r, c)' => SlotHolds(r, c)
        /\ \A j \in FILs, c \in Clusters : FilHolds(j, c)' => FilHolds(j, c) /\ fil'[j].slot = fil[j].slot
    BY <1>3, <1>6, <1>8 DEF SlotHolds, FilHolds
  <2>2. QED
    BY <1>1, <1>2, <2>1 DEF ClustersSound
<1>14. LengthsRight'
  BY <1>1, <1>6, <1>8 DEF LengthsRight
<1>15. QED
  BY <1>10, <1>11, <1>12, <1>13, <1>14 DEF DataInv

(***************************************************************************)
(* ff.c, f_open() of a file that is there: the new FIL has the directory's *)
(* size and cluster, which are the file's, for nobody else may change it.  *)
(***************************************************************************)
LEMMA ExistingData ==
    ASSUME Types, Types', DataInv, NEW n \in Names, NEW flags \in Flags,
           NEW fd \in FDS, NEW i \in FILs, file_table[fd] = NULL, NewId(i),
           open_Existing(n, flags, fd, i), ~illegal'
    PROVE  DataInv'
<1> DEFINE mode == translate_flags(flags)
<1>1. /\ WritersAlone /\ CachesRight /\ NamesDiffer /\ ClustersSound /\ LengthsRight
  BY DEF DataInv
<1>2. PICK s \in Slots :
            /\ n # NoName /\ slot[s].name = n /\ ~mode.create
            /\ illegal' = (illegal \/ IllegalOpen(s, mode))
            /\ Opened(fd, i, NewFil(s, mode, slot[s].sclust, slot[s].size, FALSE))
            /\ slot' = slot /\ free' = free /\ length' = length
  BY DEF open_Existing, Find
<1> DEFINE f == NewFil(s, mode, slot[s].sclust, slot[s].size, FALSE)
<1>3. slot[s].sclust \in Clusters \cup {NoCluster} /\ slot[s].size \in 0 .. CLUSTER /\ slot[s].size \in Nat
  BY Indices DEF Types, Slot
<1>4. /\ f.valid /\ f.slot = s /\ f.sclust = slot[s].sclust /\ f.objsize = slot[s].size
      /\ f.fptr <= f.objsize /\ ~f.modified /\ f.write = mode.write /\ f \in Fil
  <2>1. f \in Fil
    BY <1>3, Records
  <2>2. QED
    BY <1>3, <2>1 DEF NewFil
<1>5. Opened(fd, i, f)
  BY <1>2
<1> HIDE DEF f, mode
<1>6. /\ fil'[i] = f /\ \A j \in FILs : j # i => fil'[j] = fil[j]
      /\ ~InUse(i) /\ InUse(i)'
      /\ \A j \in FILs : j # i => (InUse(j)' <=> InUse(j))
  BY <1>4, <1>5, OpenedUse
<1>7. \A j \in FILs : InUse(j) /\ fil[j].slot = s => ~fil[j].write /\ ~mode.write /\ ~fil[j].modified
  BY <1>1, <1>2, ReferencedDef DEF IllegalOpen, WritersAlone
<1>8. slot[s].size = length[s] /\ (slot[s].sclust = NoCluster => slot[s].size = 0)
  BY <1>1, <1>2, <1>7 DEF LengthsRight, CachesRight
<1>9. WritersAlone'
  <2>1. fil'[i].slot = s /\ ~fil'[i].modified /\ slot'[s].name # NoName /\ fil'[i].write = mode.write
    BY <1>2, <1>4, <1>6
  <2>2. \A j \in FILs : j # i /\ InUse(j)' => InUse(j) /\ fil'[j] = fil[j]
    BY <1>6
  <2>3. \A j \in FILs : InUse(j)' => slot'[fil'[j].slot].name # NoName
    BY <1>1, <1>2, <2>1, <2>2 DEF WritersAlone
  <2>4. \A j \in FILs : InUse(j)' /\ fil'[j].modified => fil'[j].write
    BY <1>1, <2>1, <2>2 DEF WritersAlone
  <2>5. \A j, k \in FILs : InUse(j)' /\ InUse(k)' /\ fil'[j].slot = fil'[k].slot /\ fil'[j].write => j = k
    BY <1>1, <1>7, <2>1, <2>2 DEF WritersAlone
  <2>6. QED
    BY <2>3, <2>4, <2>5 DEF WritersAlone
<1>10. CachesRight'
  <2>1. ASSUME NEW j \in FILs, InUse(j)'
        PROVE  /\ fil'[j].objsize = length'[fil'[j].slot]
               /\ fil'[j].fptr <= fil'[j].objsize
               /\ fil'[j].sclust = NoCluster => fil'[j].objsize = 0
               /\ ~fil'[j].modified => /\ fil'[j].sclust = slot'[fil'[j].slot].sclust
                                       /\ fil'[j].objsize = slot'[fil'[j].slot].size
    BY <1>1, <1>2, <1>4, <1>6, <1>8, <2>1 DEF CachesRight
  <2>2. QED
    BY <1>1, <1>2, <2>1 DEF CachesRight
<1>11. NamesDiffer'
  BY <1>1, <1>2 DEF NamesDiffer
<1>12. ClustersSound'
  <2>1. /\ \A r \in Slots, c \in Clusters : SlotHolds(r, c)' <=> SlotHolds(r, c)
        /\ \A j \in FILs, c \in Clusters : FilHolds(j, c)' =>
            \/ FilHolds(j, c) /\ fil'[j].slot = fil[j].slot
            \/ SlotHolds(s, c) /\ fil'[j].slot = s
    BY <1>2, <1>4, <1>6 DEF SlotHolds, FilHolds
  <2>2. QED
    BY <1>1, <1>2, <2>1 DEF ClustersSound
<1>13. LengthsRight'
  BY <1>1, <1>2, <1>6, <1>7, <1>8 DEF LengthsRight
<1>14. QED
  BY <1>9, <1>10, <1>11, <1>12, <1>13 DEF DataInv

(***************************************************************************)
(* ff.c, f_unlink() of a file that is not open: its cluster is nobody's    *)
(* any more.                                                               *)
(***************************************************************************)
LEMMA UnlinkData ==
    ASSUME Types, Types', DataInv, NEW n \in Names, unlink(n), ~illegal'
    PROVE  DataInv'
<1>1. /\ WritersAlone /\ CachesRight /\ NamesDiffer /\ ClustersSound /\ LengthsRight
  BY DEF DataInv
<1>2. PICK s \in Slots :
            /\ slot[s].name = n /\ n # NoName
            /\ slot' = [slot EXCEPT ![s] = FreeSlot]
            /\ free' = free \cup remove_chain(slot[s].sclust)
            /\ length' = [length EXCEPT ![s] = 0]
            /\ illegal' = (illegal \/ Open(s) # {})
            /\ file_table' = file_table /\ fil' = fil
  BY DEF unlink, Find
<1>3. \A j \in FILs : /\ fil[j].slot \in Slots
                      /\ InUse(j)' <=> InUse(j)
                      /\ InUse(j) => fil[j].slot # s
  <2>1. \A j \in FILs : fil[j].slot \in Slots
    BY DEF Types, Fil
  <2>2. \A j \in FILs : InUse(j)' <=> InUse(j)
    BY <1>2 DEF InUse, Referenced
  <2>3. \A j \in FILs : InUse(j) => fil[j].slot # s
    BY <1>2, ReferencedDef
  <2>4. QED
    BY <2>1, <2>2, <2>3
<1>4. /\ \A r \in Slots : r # s => slot'[r] = slot[r] /\ length'[r] = length[r]
      /\ slot'[s].name = NoName /\ slot'[s].size = 0 /\ length'[s] = 0
  BY <1>2 DEF Types, FreeSlot
<1>5. WritersAlone'
  BY <1>1, <1>2, <1>3, <1>4 DEF WritersAlone
<1>6. CachesRight'
  BY <1>1, <1>2, <1>3, <1>4 DEF CachesRight
<1>7. NamesDiffer'
  BY <1>1, <1>4 DEF NamesDiffer
<1>8. ClustersSound'
  <2>1. /\ \A r \in Slots, c \in Clusters : SlotHolds(r, c)' => SlotHolds(r, c) /\ r # s
        /\ \A j \in FILs, c \in Clusters : FilHolds(j, c)' => FilHolds(j, c) /\ fil'[j].slot = fil[j].slot
    BY <1>2, <1>3, <1>4 DEF SlotHolds, FilHolds
  <2>2. \A c \in Clusters : c \in free' => c \in free \/ SlotHolds(s, c)
    BY <1>2, FilesAssumption DEF remove_chain, SlotHolds
  <2>3. \A j \in FILs, c \in Clusters : FilHolds(j, c) => fil[j].slot # s
    BY <1>3 DEF FilHolds
  <2>4. QED
    BY <1>1, <2>1, <2>2, <2>3 DEF ClustersSound
<1>9. LengthsRight'
  BY <1>1, <1>2, <1>3, <1>4 DEF LengthsRight
<1>10. QED
  BY <1>5, <1>6, <1>7, <1>8, <1>9 DEF DataInv

(***************************************************************************)
(* ff.c, f_mkdir(): a directory takes a free slot and a free cluster.      *)
(***************************************************************************)
LEMMA MkdirData ==
    ASSUME Types, Types', DataInv, NEW n \in Names, mkdir(n)
    PROVE  DataInv'
<1>1. /\ WritersAlone /\ CachesRight /\ NamesDiffer /\ ClustersSound /\ LengthsRight
  BY DEF DataInv
<1>2. PICK s \in Slots, c \in free :
            /\ Find(n) = {} /\ slot[s].name = NoName
            /\ slot' = [slot EXCEPT ![s] = [name |-> n, dir |-> TRUE, sclust |-> c, size |-> 0]]
            /\ free' = free \ {c}
            /\ length' = [length EXCEPT ![s] = 0]
            /\ file_table' = file_table /\ fil' = fil
  BY DEF mkdir, FirstFree
<1>3. \A j \in FILs : /\ fil[j].slot \in Slots
                      /\ InUse(j)' <=> InUse(j)
                      /\ InUse(j) => fil[j].slot # s
  BY <1>1, <1>2 DEF Types, Fil, InUse, Referenced, WritersAlone
<1>4. /\ \A r \in Slots : r # s => slot'[r] = slot[r] /\ length'[r] = length[r]
      /\ slot'[s].name = n /\ slot'[s].size = 0 /\ slot'[s].sclust = c /\ length'[s] = 0
  BY <1>2 DEF Types
<1>5. WritersAlone'
  BY <1>1, <1>2, <1>3, <1>4 DEF WritersAlone
<1>6. CachesRight'
  BY <1>1, <1>2, <1>3, <1>4 DEF CachesRight
<1>7. NamesDiffer'
  <2>1. \A r \in Slots : slot[r].name # n
    BY <1>2, FilesAssumption DEF Find
  <2>2. QED
    BY <1>1, <1>4, <2>1 DEF NamesDiffer
<1>8. ClustersSound'
  <2>1. /\ \A r \in Slots, d \in Clusters : SlotHolds(r, d)' => SlotHolds(r, d) \/ (r = s /\ d = c)
        /\ \A j \in FILs, d \in Clusters : FilHolds(j, d)' => FilHolds(j, d) /\ fil'[j].slot = fil[j].slot
    BY <1>2, <1>3, <1>4 DEF SlotHolds, FilHolds
  <2>2. c \in free /\ c \notin free' /\ \A d \in Clusters : d \in free' => d \in free
    BY <1>2
  <2>3. QED
    BY <1>1, <2>1, <2>2 DEF ClustersSound
<1>9. LengthsRight'
  BY <1>1, <1>2, <1>3, <1>4 DEF LengthsRight
<1>10. QED
  BY <1>5, <1>6, <1>7, <1>8, <1>9 DEF DataInv

-----------------------------------------------------------------------------
(* What closing and copying do to descriptors: one that is open was that   *)
(* before, or is a copy and marked so; the only FIL that may have been     *)
(* closed is i, and then one of its descriptors was given up or copied.    *)
Redirected(i) ==
    /\ \A fd \in FDS : file_table'[fd] # NULL =>
        \/ file_table[fd] = file_table'[fd] /\ path'[fd] = path[fd]
        \/ /\ fil'[file_table'[fd]].shared
           /\ \/ path'[fd] = NoName
              \/ \E gd \in FDS : file_table[gd] = file_table'[fd] /\ path'[fd] = path[gd]
    /\ \A k \in Referenced' : /\ fil[k].shared => fil'[k].shared
                              /\ fil[k].valid /\ ~fil'[k].valid => k = i
    /\ fil[i].valid /\ i \in Referenced' /\ ~fil'[i].valid =>
        \E fd \in FDS : file_table[fd] = i /\ (file_table'[fd] # i \/ fil'[i].shared)

(* The FILs when i is closed, or none.                                     *)
ClosedFils(i, ok) == IF i = NULL THEN fil ELSE f_close(i, ok)

(***************************************************************************)
(* ff.c, f_close(): a FIL that is closed is invalid; one that is not has   *)
(* nothing to save.                                                        *)
(***************************************************************************)
LEMMA ClosedFields ==
    ASSUME Types, NEW i \in FILs \cup {NULL}, NEW ok \in BOOLEAN
    PROVE  /\ ClosedFils(i, ok) \in [FILs -> Fil]
           /\ \A j \in FILs : j # i => ClosedFils(i, ok)[j] = fil[j]
           /\ \A j \in FILs : ClosedFils(i, ok)[j].shared = fil[j].shared
           /\ i # NULL /\ ok => ~ClosedFils(i, ok)[i].valid
           /\ i # NULL /\ ~ok => ClosedFils(i, ok)[i] = [fil[i] EXCEPT !.modified = FALSE]
<1>1. ClosedFils(i, ok) \in [FILs -> Fil]
  BY CloseType DEF ClosedFils, Types
<1>2. CASE i = NULL
  BY <1>1, <1>2, Indices DEF ClosedFils
<1>3. CASE i # NULL
  <2>1. i \in FILs /\ ClosedFils(i, ok) = f_close(i, ok) /\ fil[i] \in Fil
    BY <1>3 DEF ClosedFils, Types
  <2>2. \A j \in FILs : j # i => ClosedFils(i, ok)[j] = fil[j]
    BY <2>1 DEF f_close, Types
  <2>3. ClosedFils(i, ok)[i] = IF ok THEN [Blank EXCEPT !.shared = fil[i].shared]
                               ELSE [fil[i] EXCEPT !.modified = FALSE]
    BY <2>1 DEF f_close, Types
  <2>4. ClosedFils(i, ok)[i].shared = fil[i].shared
    BY <2>1, <2>3 DEF Blank, Fil
  <2>5. ok => ~ClosedFils(i, ok)[i].valid
    BY <2>3 DEF Blank
  <2>6. QED
    BY <1>1, <2>2, <2>3, <2>4, <2>5
<1>4. QED
  BY <1>2, <1>3

(***************************************************************************)
(* libk.c, dup(), dup2(): a copied FIL is marked, nothing else changes.    *)
(***************************************************************************)
LEMMA CopiedFields ==
    ASSUME NEW F \in [FILs -> Fil], NEW o \in FILs \cup {NULL}
    PROVE  /\ \A j \in FILs : j # o => Copied(F, o)[j] = F[j]
           /\ o # NULL => Copied(F, o)[o] = [F[o] EXCEPT !.shared = TRUE]
<1>1. CASE o = NULL
  BY <1>1, Indices DEF Copied
<1>2. CASE o # NULL
  BY <1>2 DEF Copied
<1>3. QED
  BY <1>1, <1>2

(* F: the FILs when i, or none, got the answer ok from f_close(), and o,   *)
(* or none, was copied.                                                    *)
Result(F, i, ok, o) ==
    \A j \in FILs :
        /\ F[j].shared <=> fil[j].shared \/ j = o
        /\ F[j].valid => /\ fil[j].valid
                         /\ F[j].slot = fil[j].slot /\ F[j].sclust = fil[j].sclust
                         /\ F[j].objsize = fil[j].objsize /\ F[j].fptr = fil[j].fptr
                         /\ F[j].write = fil[j].write
                         /\ F[j].modified = IF j = i THEN FALSE ELSE fil[j].modified
        /\ fil[j].valid /\ ~F[j].valid => j = i /\ ok

(***************************************************************************)
(* libk.c, dup(), dup2(), close(): the fields of the FILs in the result.   *)
(***************************************************************************)
LEMMA ResultFields ==
    ASSUME Types, NEW i \in FILs \cup {NULL}, NEW ok \in BOOLEAN, NEW o \in FILs \cup {NULL}
    PROVE  Result(Copied(ClosedFils(i, ok), o), i, ok, o)
<1> SUFFICES ASSUME NEW j \in FILs
             PROVE  LET F == Copied(ClosedFils(i, ok), o)
                    IN  /\ F[j].shared <=> fil[j].shared \/ j = o
                        /\ F[j].valid => /\ fil[j].valid
                                /\ F[j].slot = fil[j].slot /\ F[j].sclust = fil[j].sclust
                                /\ F[j].objsize = fil[j].objsize /\ F[j].fptr = fil[j].fptr
                                /\ F[j].write = fil[j].write
                                /\ F[j].modified = IF j = i THEN FALSE ELSE fil[j].modified
                        /\ fil[j].valid /\ ~F[j].valid => j = i /\ ok
  BY DEF Result
<1> DEFINE C == ClosedFils(i, ok)
           F == Copied(C, o)
<1>1. C \in [FILs -> Fil] /\ C[j] \in Fil /\ fil[j] \in Fil
  BY ClosedFields DEF Types
<1>2. /\ C[j].shared = fil[j].shared
      /\ C[j].valid => /\ fil[j].valid
                       /\ C[j].slot = fil[j].slot /\ C[j].sclust = fil[j].sclust
                       /\ C[j].objsize = fil[j].objsize /\ C[j].fptr = fil[j].fptr
                       /\ C[j].write = fil[j].write
                       /\ C[j].modified = IF j = i THEN FALSE ELSE fil[j].modified
      /\ fil[j].valid /\ ~C[j].valid => j = i /\ ok
  <2>1. CASE j = i /\ ~ok
    <3>1. C[j] = [fil[j] EXCEPT !.modified = FALSE] /\ C[j].shared = fil[j].shared
      BY <2>1, ClosedFields, Indices
    <3> HIDE DEF C
    <3>2. QED
      BY <1>1, <2>1, <3>1 DEF Fil
  <2>2. CASE j = i /\ ok
    BY <2>2, ClosedFields, Indices
  <2>3. CASE j # i
    <3>1. C[j] = fil[j]
      BY <2>3, ClosedFields
    <3> HIDE DEF C
    <3>2. QED
      BY <2>3, <3>1
  <2>4. QED
    BY <2>1, <2>2, <2>3
<1> HIDE DEF C
<1>3. /\ F[j].shared <=> C[j].shared \/ j = o
      /\ F[j].valid = C[j].valid /\ F[j].slot = C[j].slot /\ F[j].sclust = C[j].sclust
      /\ F[j].objsize = C[j].objsize /\ F[j].fptr = C[j].fptr
      /\ F[j].write = C[j].write /\ F[j].modified = C[j].modified
  <2>1. CASE j = o
    <3>1. F[j] = [C[j] EXCEPT !.shared = TRUE]
      BY <1>1, <2>1, CopiedFields, Indices
    <3>2. QED
      BY <1>1, <2>1, <3>1 DEF Fil
  <2>2. CASE j # o
    <3>1. F[j] = C[j]
      BY <1>1, <2>2, CopiedFields
    <3> HIDE DEF F
    <3>2. QED
      BY <2>2, <3>1
  <2>3. QED
    BY <2>1, <2>2
<1> HIDE DEF F
<1>4. QED
  BY <1>2, <1>3 DEF C, F

(***************************************************************************)
(* ff.c, f_close(): what it may answer, and what it does to the directory. *)
(***************************************************************************)
LEMMA CloseAnswers ==
    ASSUME Types, NEW i \in FILs \cup {NULL},
           NEW ok \in IF i = NULL THEN {FALSE} ELSE f_close_results(i)
    PROVE  /\ ok \in BOOLEAN
           /\ (IF i = NULL THEN slot ELSE DirectorySynced(i, ok)) =
                IF i # NULL /\ fil[i].valid /\ fil[i].modified
                  THEN [slot EXCEPT ![fil[i].slot].sclust = fil[i].sclust,
                                    ![fil[i].slot].size = fil[i].objsize]
                  ELSE slot
BY DEF f_close_results, sync_fs, DirectorySynced, f_sync

(***************************************************************************)
(* libk.c, dup(): nothing is closed, and the copy is marked.               *)
(***************************************************************************)
LEMMA DupRedirects ==
    ASSUME Types, NEW fd \in FDS, dup(fd)
    PROVE  Closes(NULL) /\ Redirected(NULL)
<1> DEFINE o == file_table[fd]
<1>1. PICK new \in FDS :
        /\ file_table[new] = NULL
        /\ file_table' = [file_table EXCEPT ![new] = o]
        /\ path' = [path EXCEPT ![new] = NoName]
        /\ fil' = Copied(ClosedFils(NULL, FALSE), o)
        /\ slot' = slot /\ free' = free /\ length' = length
  BY DEF dup, get_free_fd, ClosedFils
<1>2. o \in FILs \cup {NULL}
  BY DEF Types
<1> HIDE DEF o
<1>3. \A j \in FILs :
        /\ fil'[j].shared <=> fil[j].shared \/ j = o
        /\ fil'[j].valid => /\ fil[j].valid
                            /\ fil'[j].slot = fil[j].slot /\ fil'[j].sclust = fil[j].sclust
                            /\ fil'[j].objsize = fil[j].objsize /\ fil'[j].fptr = fil[j].fptr
                            /\ fil'[j].write = fil[j].write
                            /\ fil'[j].modified = fil[j].modified
        /\ fil[j].valid => fil'[j].valid
  <2>1. Result(fil', NULL, FALSE, o)
    BY <1>1, <1>2, ResultFields
  <2>2. QED
    BY <2>1, Indices DEF Result
<1>4. /\ \A e \in FDS : e # new => file_table'[e] = file_table[e] /\ path'[e] = path[e]
      /\ file_table'[new] = o /\ path'[new] = NoName
  BY <1>1 DEF Types
<1>5. /\ \A j \in FILs : j \in Referenced' <=> j \in Referenced
      /\ Referenced' \subseteq FILs
  <2>1. \A j \in FILs : j \in Referenced' <=> j \in Referenced
    BY <1>1, <1>4, Indices DEF Referenced, o
  <2>2. Referenced' \subseteq FILs
    BY <1>2, <1>4 DEF Referenced, Types
  <2>3. QED
    BY <2>1, <2>2
<1>6. Closes(NULL)
  BY <1>1, <1>3, <1>5, Indices DEF Closes, InUse
<1>7. Redirected(NULL)
  <2>1. \A e \in FDS : file_table'[e] # NULL =>
        \/ file_table[e] = file_table'[e] /\ path'[e] = path[e]
        \/ fil'[file_table'[e]].shared /\ path'[e] = NoName
    BY <1>2, <1>3, <1>4
  <2>2. \A k \in Referenced' : k \in FILs /\ k # NULL
    BY <1>5, Indices
  <2>3. QED
    BY <1>3, <1>5, <2>1, <2>2 DEF Redirected
<1>8. QED
  BY <1>6, <1>7

(***************************************************************************)
(* ff.c, libk.c: with such FILs in reach, what f_close() wrote to the      *)
(* directory and the descriptors that are left make a close of i.          *)
(***************************************************************************)
LEMMA ResultCloses ==
    ASSUME Types, NEW i \in FILs \cup {NULL},
           NEW ok \in IF i = NULL THEN {FALSE} ELSE f_close_results(i), NEW o, NEW F,
           Result(F, i, ok, o), fil' = Reachable(F, file_table'),
           slot' = IF i = NULL THEN slot ELSE DirectorySynced(i, ok),
           UNCHANGED <<free, length>>,
           Referenced' \subseteq Referenced,
           \A j \in Referenced : j # i => j \in Referenced'
    PROVE  /\ Closes(i)
           /\ \A k \in Referenced' : /\ k \in FILs /\ fil'[k] = F[k]
                                     /\ k = o \/ fil[k].shared => fil'[k].shared
                                     /\ fil[k].valid /\ ~fil'[k].valid => k = i /\ ok
<1>1. slot' = IF i # NULL /\ fil[i].valid /\ fil[i].modified
                THEN [slot EXCEPT ![fil[i].slot].sclust = fil[i].sclust,
                                  ![fil[i].slot].size = fil[i].objsize]
                ELSE slot
  BY CloseAnswers
<1>2. \A k \in Referenced' : k \in FILs /\ k \in Referenced /\ fil'[k] = F[k]
  <2>1. Referenced \subseteq FILs
    BY ReferencedDef
  <2>2. \A k \in Referenced' : \E fd \in FDS : file_table'[fd] = k
    BY DEF Referenced
  <2>3. QED
    BY <2>1, <2>2 DEF Reachable
<1>3. \A j \in FILs : InUse(j)' =>
        /\ InUse(j)
        /\ fil'[j].slot = fil[j].slot /\ fil'[j].sclust = fil[j].sclust
        /\ fil'[j].objsize = fil[j].objsize /\ fil'[j].fptr = fil[j].fptr
        /\ fil'[j].write = fil[j].write
        /\ fil'[j].modified = IF j = i THEN FALSE ELSE fil[j].modified
  <2> SUFFICES ASSUME NEW j \in FILs, InUse(j)'
               PROVE  /\ InUse(j)
                      /\ fil'[j].slot = fil[j].slot /\ fil'[j].sclust = fil[j].sclust
                      /\ fil'[j].objsize = fil[j].objsize /\ fil'[j].fptr = fil[j].fptr
                      /\ fil'[j].write = fil[j].write
                      /\ fil'[j].modified = IF j = i THEN FALSE ELSE fil[j].modified
    OBVIOUS
  <2>1. j \in Referenced /\ fil'[j] = F[j] /\ F[j].valid
    BY <1>2 DEF InUse
  <2>2. /\ fil[j].valid
        /\ F[j].slot = fil[j].slot /\ F[j].sclust = fil[j].sclust
        /\ F[j].objsize = fil[j].objsize /\ F[j].fptr = fil[j].fptr
        /\ F[j].write = fil[j].write
        /\ F[j].modified = IF j = i THEN FALSE ELSE fil[j].modified
    BY <2>1 DEF Result
  <2>3. QED
    BY <2>1, <2>2 DEF InUse
<1>4. \A j \in FILs : InUse(j) /\ j # i => InUse(j)'
  BY <1>2 DEF InUse, Result
<1>5. Closes(i)
  BY <1>1, <1>3, <1>4 DEF Closes
<1>6. QED
  BY <1>2, <1>5 DEF Result

(***************************************************************************)
(* libk.c, close(): the FIL is closed, or its descriptor is still there.   *)
(***************************************************************************)
LEMMA CloseRedirects ==
    ASSUME Types, NEW fd \in FDS, close(fd)
    PROVE  Closes(file_table[fd]) /\ Redirected(file_table[fd])
<1> DEFINE i == file_table[fd]
<1>1. i \in FILs /\ i # NULL
  BY Indices DEF close, Types
<1>2. PICK ok \in f_close_results(i) :
            /\ slot' = DirectorySynced(i, ok)
            /\ file_table' = TableClosed(fd, ok)
            /\ path' = PathClosed(fd, ok)
            /\ fil' = Reachable(f_close(i, ok), file_table')
  BY DEF close
<1>3. free' = free /\ length' = length
  BY DEF close
<1>4. ok \in BOOLEAN /\ ok \in IF i = NULL THEN {FALSE} ELSE f_close_results(i)
  BY <1>1 DEF f_close_results, sync_fs
<1> DEFINE F == f_close(i, ok)
<1>5. Result(F, i, ok, NULL)
  <2>1. F = Copied(ClosedFils(i, ok), NULL)
    BY <1>1 DEF Copied, ClosedFils
  <2>2. QED
    BY <1>1, <1>4, <2>1, ResultFields
<1>6. /\ \A e \in FDS : e # fd => file_table'[e] = file_table[e] /\ path'[e] = path[e]
      /\ ok => file_table'[fd] = NULL
      /\ ~ok => file_table'[fd] = i /\ path'[fd] = path[fd]
  BY <1>2, <1>4 DEF TableClosed, PathClosed, Types
<1>7. \A e \in FDS : file_table'[e] # NULL => file_table[e] = file_table'[e] /\ path'[e] = path[e]
  BY <1>4, <1>6
<1>8. Referenced' \subseteq Referenced /\ \A j \in Referenced : j # i => j \in Referenced'
  <2>1. Referenced' \subseteq Referenced
    BY <1>7 DEF Referenced
  <2>2. ASSUME NEW j \in Referenced, j # i PROVE j \in Referenced'
    <3>1. PICK e \in FDS : file_table[e] = j /\ j # NULL
      BY DEF Referenced
    <3>2. e # fd
      BY <2>2, <3>1
    <3>3. file_table'[e] = j
      BY <1>6, <3>1, <3>2
    <3>4. QED
      BY <3>1, <3>3 DEF Referenced
  <2>3. QED
    BY <2>1, <2>2
<1> HIDE DEF F
<1>9. /\ Closes(i)
      /\ \A k \in Referenced' : /\ k \in FILs
                                /\ fil[k].shared => fil'[k].shared
                                /\ fil[k].valid /\ ~fil'[k].valid => k = i /\ ok
  <2>1. fil' = Reachable(F, file_table')
    BY <1>2 DEF F
  <2>2. slot' = IF i = NULL THEN slot ELSE DirectorySynced(i, ok)
    BY <1>1, <1>2
  <2> HIDE DEF i
  <2>3. QED
    BY <1>1, <1>3, <1>4, <1>5, <1>8, <2>1, <2>2, ResultCloses
<1>10. Redirected(i)
  BY <1>1, <1>6, <1>7, <1>9 DEF Redirected
<1>11. QED
  BY <1>9, <1>10

(***************************************************************************)
(* libk.c, dup2(): the second descriptor is closed, whatever close()       *)
(* answers, and becomes a copy of the first, if that is still open.        *)
(***************************************************************************)
LEMMA Dup2Redirects ==
    ASSUME Types, NEW old \in FDS, NEW new \in FDS, dup2(old, new)
    PROVE  Closes(file_table[new]) /\ Redirected(file_table[new])
<1> DEFINE i == file_table[new]
           o == file_table[old]
<1>1. i \in FILs \cup {NULL} /\ o \in FILs /\ o # NULL
  BY Indices DEF dup2, Types
<1>2. PICK ok \in IF i = NULL THEN {FALSE} ELSE f_close_results(i) :
            LET table == [TableClosed(new, ok) EXCEPT ![new] = TableClosed(new, ok)[old]]
            IN  /\ file_table' = table
                /\ path' = [PathClosed(new, ok) EXCEPT ![new] = PathClosed(new, ok)[old]]
                /\ slot' = IF i = NULL THEN slot ELSE DirectorySynced(i, ok)
                /\ fil' = Reachable(Copied(IF i = NULL THEN fil ELSE f_close(i, ok), o), table)
  BY DEF dup2
<1>3. free' = free /\ length' = length
  BY DEF dup2
<1>4. ok \in BOOLEAN
  BY DEF f_close_results, sync_fs
<1> DEFINE F == Copied(ClosedFils(i, ok), o)
<1>5. Result(F, i, ok, o) /\ fil' = Reachable(F, file_table')
  <2>1. Result(F, i, ok, o)
    BY <1>1, <1>4, ResultFields
  <2>2. QED
    BY <1>2, <2>1 DEF ClosedFils
<1>6. /\ \A e \in FDS : e # new => file_table'[e] = file_table[e] /\ path'[e] = path[e]
      /\ file_table'[new] = TableClosed(new, ok)[old]
      /\ path'[new] = PathClosed(new, ok)[old]
  BY <1>2, <1>4 DEF TableClosed, PathClosed, Types
<1>7. /\ ok /\ old = new => file_table'[new] = NULL
      /\ ~(ok /\ old = new) => file_table'[new] = o /\ path'[new] = path[old]
  BY <1>4, <1>6 DEF TableClosed, PathClosed, Types
<1>8. Referenced' \subseteq Referenced /\ \A j \in Referenced : j # i => j \in Referenced'
  <2>1. Referenced' \subseteq Referenced
    BY <1>6, <1>7 DEF Referenced
  <2>2. ASSUME NEW j \in Referenced, j # i PROVE j \in Referenced'
    <3>1. PICK e \in FDS : file_table[e] = j /\ j # NULL
      BY DEF Referenced
    <3>2. e # new
      BY <2>2, <3>1
    <3>3. file_table'[e] = j
      BY <1>6, <3>1, <3>2
    <3>4. QED
      BY <3>1, <3>3 DEF Referenced
  <2>3. QED
    BY <2>1, <2>2
<1> HIDE DEF F
<1>9. /\ Closes(i)
      /\ \A k \in Referenced' : /\ k \in FILs
                                /\ k = o \/ fil[k].shared => fil'[k].shared
                                /\ fil[k].valid /\ ~fil'[k].valid => k = i /\ ok
  <2>1. slot' = IF i = NULL THEN slot ELSE DirectorySynced(i, ok)
    BY <1>2
  <2> HIDE DEF i, o
  <2>2. QED
    BY <1>1, <1>2, <1>3, <1>5, <1>8, <2>1, ResultCloses
<1>10. Redirected(i)
  <2>1. \A e \in FDS : file_table'[e] # NULL => file_table'[e] \in Referenced'
    BY DEF Referenced
  <2>2. ASSUME NEW e \in FDS, file_table'[e] # NULL
        PROVE  \/ file_table[e] = file_table'[e] /\ path'[e] = path[e]
               \/ /\ fil'[file_table'[e]].shared
                  /\ \E gd \in FDS : file_table[gd] = file_table'[e] /\ path'[e] = path[gd]
    <3>1. CASE e # new
      BY <1>6, <3>1
    <3>2. CASE e = new
      <4>1. file_table'[e] = o /\ path'[e] = path[old]
        BY <1>7, <2>2, <3>2
      <4>2. QED
        BY <1>9, <2>1, <2>2, <4>1
    <3>3. QED
      BY <3>1, <3>2
  <2>3. fil[i].valid /\ i \in Referenced' /\ ~fil'[i].valid =>
            file_table'[new] # i \/ fil'[i].shared
    <3>1. ASSUME fil[i].valid, i \in Referenced', ~fil'[i].valid, file_table'[new] = i
          PROVE  fil'[i].shared
      <4>1. i # NULL
        BY <3>1 DEF Referenced
      <4>2. i = o
        BY <1>7, <3>1, <4>1
      <4>3. QED
        BY <1>9, <3>1, <4>2
    <3>2. QED
      BY <3>1
  <2>4. QED
    BY <1>9, <2>2, <2>3 DEF Redirected
<1>11. QED
  BY <1>9, <1>10

-----------------------------------------------------------------------------
(***************************************************************************)
(* libk.c: closing and copying leave every doubled or dead FIL marked.     *)
(***************************************************************************)
LEMMA RedirectedShared ==
    ASSUME Types', SharedMarked, NEW i, Redirected(i)
    PROVE  SharedMarked'
<1>1. \A fd \in FDS : file_table'[fd] # NULL => file_table'[fd] \in Referenced'
  BY DEF Referenced
<1>2. \A fd \in FDS : file_table'[fd] # NULL =>
        file_table[fd] = file_table'[fd] \/ fil'[file_table'[fd]].shared
  BY DEF Redirected
<1>3. \A k \in Referenced' : /\ fil[k].shared => fil'[k].shared
                             /\ fil[k].valid /\ ~fil'[k].valid => k = i
  BY DEF Redirected
<1>4. ASSUME NEW fd \in FDS, NEW gd \in FDS, fd # gd,
             file_table'[fd] # NULL, file_table'[gd] = file_table'[fd]
      PROVE  fil'[file_table'[fd]].shared
  BY <1>1, <1>2, <1>3, <1>4 DEF SharedMarked
<1>5. ASSUME NEW fd \in FDS, file_table'[fd] # NULL, ~fil'[file_table'[fd]].valid
      PROVE  fil'[file_table'[fd]].shared
  <2> DEFINE k == file_table'[fd]
  <2>1. k \in Referenced'
    BY <1>1, <1>5
  <2>2. CASE file_table[fd] # k
    BY <1>2, <1>5, <2>2
  <2>3. CASE file_table[fd] = k /\ ~fil[k].valid
    BY <1>3, <1>5, <2>1, <2>3 DEF SharedMarked
  <2>4. CASE file_table[fd] = k /\ fil[k].valid
    <3>1. k = i
      BY <1>3, <1>5, <2>1, <2>4
    <3>2. PICK e \in FDS : file_table[e] = i /\ (file_table'[e] # i \/ fil'[i].shared)
      BY <1>5, <2>1, <2>4, <3>1 DEF Redirected
    <3>3. CASE file_table'[e] # i
      <4>1. e # fd /\ file_table[e] = file_table[fd] /\ file_table[fd] # NULL
        BY <1>5, <2>4, <3>1, <3>2, <3>3
      <4>2. fil[k].shared
        BY <2>4, <4>1 DEF SharedMarked
      <4>3. QED
        BY <1>3, <2>1, <4>2
    <3>4. QED
      BY <3>1, <3>2, <3>3
  <2>5. QED
    BY <2>2, <2>3, <2>4
<1>6. QED
  BY <1>4, <1>5 DEF SharedMarked

(***************************************************************************)
(* libk.c: after closing and copying, paths are those of the files, or     *)
(* none on a copy.                                                         *)
(***************************************************************************)
LEMMA RedirectedPaths ==
    ASSUME Types, Types', PathsRight, NEW i \in FILs \cup {NULL}, Closes(i), Redirected(i)
    PROVE  PathsRight'
<1>1. \A s \in Slots : slot'[s].name = slot[s].name
  BY DEF Closes, Types, Slot
<1>2. \A k \in FILs : InUse(k)' => /\ fil[k].valid /\ fil'[k].slot = fil[k].slot
                                   /\ slot'[fil'[k].slot].name = slot[fil[k].slot].name
  <2>1. \A k \in FILs : fil[k].slot \in Slots
    BY DEF Types, Fil
  <2>2. QED
    BY ZenonT(60), <1>1, <2>1 DEF Closes, InUse
<1>3. SUFFICES ASSUME NEW fd \in FDS, file_table'[fd] # NULL, fil'[file_table'[fd]].valid
               PROVE  \/ path'[fd] = slot'[fil'[file_table'[fd]].slot].name
                      \/ path'[fd] = NoName /\ fil'[file_table'[fd]].shared
  BY DEF PathsRight
<1>k. PICK k \in FILs : k = file_table'[fd]
  BY <1>3 DEF Types
<1>4. k \in Referenced' /\ InUse(k)'
  <2>1. k \in Referenced'
    BY <1>3, <1>k DEF Referenced
  <2>2. QED
    BY <1>3, <1>k, <2>1 DEF InUse
<1>5. fil[k].valid /\ slot'[fil'[k].slot].name = slot[fil[k].slot].name /\ (fil[k].shared => fil'[k].shared)
  BY <1>2, <1>4 DEF Redirected
<1>6. ASSUME NEW gd \in FDS, file_table[gd] = k, path'[fd] = path[gd]
      PROVE  path'[fd] = slot'[fil'[k].slot].name \/ (path'[fd] = NoName /\ fil'[k].shared)
  BY <1>3, <1>5, <1>6, <1>k DEF PathsRight
<1>7. CASE \E gd \in FDS : file_table[gd] = k /\ path'[fd] = path[gd]
  BY <1>6, <1>7, <1>k
<1>8. CASE path'[fd] = NoName /\ fil'[k].shared
  BY <1>8, <1>k
<1>9. QED
  BY <1>3, <1>7, <1>8, <1>k DEF Redirected

(***************************************************************************)
(* libk.c, open(): the new descriptor is alone on its FIL and has the path *)
(* that was opened.                                                        *)
(***************************************************************************)
LEMMA OpenedShared ==
    ASSUME Types, SharedMarked, NEW fd \in FDS, NEW i \in FILs, NEW f \in Fil, f.valid,
           file_table[fd] = NULL, NewId(i), Opened(fd, i, f)
    PROVE  SharedMarked'
<1>1. /\ fil'[i] = f /\ \A j \in FILs : j # i => fil'[j] = fil[j]
  BY OpenedUse
<1>2. /\ file_table'[fd] = i
      /\ \A e \in FDS : e # fd => file_table'[e] = file_table[e] /\ file_table[e] # i
      /\ \A e \in FDS : file_table[e] \in FILs \cup {NULL}
  BY Indices DEF Opened, NewId, Referenced, Types
<1>3. ASSUME NEW e \in FDS, NEW g \in FDS, e # g,
             file_table'[e] # NULL, file_table'[g] = file_table'[e]
      PROVE  fil'[file_table'[e]].shared
  <2>1. e # fd /\ g # fd
    BY <1>2, <1>3
  <2>2. fil[file_table[e]].shared /\ file_table[e] # i /\ file_table[e] \in FILs
    BY <1>2, <1>3, <2>1 DEF SharedMarked
  <2>3. QED
    BY <1>1, <1>2, <2>1, <2>2
<1>4. ASSUME NEW e \in FDS, file_table'[e] # NULL, ~fil'[file_table'[e]].valid
      PROVE  fil'[file_table'[e]].shared
  <2>1. e # fd
    BY <1>1, <1>2, <1>4
  <2>2. file_table[e] # i /\ file_table[e] \in FILs /\ file_table'[e] = file_table[e]
    BY <1>2, <1>4, <2>1
  <2>3. QED
    BY <1>1, <1>4, <2>2 DEF SharedMarked
<1>5. QED
  BY <1>3, <1>4 DEF SharedMarked

(***************************************************************************)
(* libk.c, open(): the path that is kept is that of the file that was      *)
(* opened; the directory entries of the other open files keep their names. *)
(***************************************************************************)
LEMMA OpenedPaths ==
    ASSUME Types, PathsRight, NEW n, NEW fd \in FDS, NEW i \in FILs, NEW f \in Fil,
           file_table[fd] = NULL, NewId(i), Opened(fd, i, f),
           path' = [path EXCEPT ![fd] = n], slot'[f.slot].name = n,
           \A j \in FILs : InUse(j) => slot'[fil[j].slot].name = slot[fil[j].slot].name
    PROVE  PathsRight'
<1>1. /\ fil'[i] = f /\ \A j \in FILs : j # i => fil'[j] = fil[j]
  BY OpenedUse
<1>2. /\ file_table'[fd] = i /\ path'[fd] = n
      /\ \A e \in FDS : e # fd => file_table'[e] = file_table[e] /\ file_table[e] # i /\ path'[e] = path[e]
      /\ \A e \in FDS : file_table[e] \in FILs \cup {NULL}
  BY Indices DEF Opened, NewId, Referenced, Types
<1>3. SUFFICES ASSUME NEW e \in FDS, file_table'[e] # NULL, fil'[file_table'[e]].valid
               PROVE  \/ path'[e] = slot'[fil'[file_table'[e]].slot].name
                      \/ path'[e] = NoName /\ fil'[file_table'[e]].shared
  BY DEF PathsRight
<1>4. CASE e = fd
  BY <1>1, <1>2, <1>4
<1>5. CASE e # fd
  <2>1. file_table[e] # i /\ file_table[e] \in FILs /\ file_table'[e] = file_table[e] /\ path'[e] = path[e]
    BY <1>2, <1>3, <1>5
  <2>2. fil'[file_table'[e]] = fil[file_table[e]] /\ InUse(file_table[e])
    BY <1>1, <1>3, <2>1 DEF InUse, Referenced
  <2>3. \/ path[e] = slot[fil[file_table[e]].slot].name
        \/ path[e] = NoName /\ fil[file_table[e]].shared
    BY <1>3, <2>1, <2>2 DEF PathsRight
  <2>4. QED
    BY <2>1, <2>2, <2>3
<1>6. QED
  BY <1>4, <1>5

(***************************************************************************)
(* libk.c: the calls that open and close nothing leave the descriptors     *)
(* alone.                                                                  *)
(***************************************************************************)
LEMMA SteadyLabels ==
    ASSUME Types, UNCHANGED <<file_table, path>>,
           \A j \in FILs : /\ fil'[j].valid = fil[j].valid /\ fil'[j].slot = fil[j].slot
                           /\ fil'[j].shared = fil[j].shared
    PROVE  /\ SharedMarked => SharedMarked'
           /\ PathsRight /\ (\A j \in FILs : InUse(j) => slot'[fil[j].slot].name = slot[fil[j].slot].name)
                => PathsRight'
<1>1. \A fd \in FDS : file_table[fd] # NULL => file_table[fd] \in FILs
  BY DEF Types
<1>2. SharedMarked => SharedMarked'
  BY <1>1 DEF SharedMarked
<1>3. \A fd \in FDS : file_table[fd] # NULL /\ fil[file_table[fd]].valid => InUse(file_table[fd])
  BY DEF InUse, Referenced
<1>4. PathsRight /\ (\A j \in FILs : InUse(j) => slot'[fil[j].slot].name = slot[fil[j].slot].name)
        => PathsRight'
  BY <1>1, <1>3 DEF PathsRight
<1>5. QED
  BY <1>2, <1>4

-----------------------------------------------------------------------------
(* What holds while the program obeys FatFs's rules.                       *)
LegalInv == PathsRight /\ DataInv

(***************************************************************************)
(* libk.c, open(), ff.c, f_open(): descriptors and data after an open.     *)
(***************************************************************************)
LEMMA OpenInv ==
    ASSUME Types, Types', SharedMarked, LegalInv, NEW n \in Names, NEW flags \in Flags, open(n, flags)
    PROVE  SharedMarked' /\ (~illegal' => LegalInv')
<1>1. PICK fd \in FDS, i \in FILs :
        /\ file_table[fd] = NULL /\ NewId(i)
        /\ path' = [path EXCEPT ![fd] = n]
        /\ \/ open_Truncate(n, flags, fd, i)
           \/ open_Create(n, flags, fd, i)
           \/ open_Existing(n, flags, fd, i)
  BY DEF open, get_free_fd
<1>2. \A j \in FILs : fil[j].slot \in Slots
  BY DEF Types, Fil
<1> DEFINE mode == translate_flags(flags)
<1>3. mode \in Mode
  BY Records
<1> HIDE DEF mode
<1>4. CASE open_Truncate(n, flags, fd, i)
  <2>1. PICK s \in Slots :
            /\ slot[s].name = n
            /\ slot' = [slot EXCEPT ![s].sclust = NoCluster, ![s].size = 0]
            /\ Opened(fd, i, NewFil(s, mode, NoCluster, 0, TRUE))
    BY <1>4 DEF open_Truncate, mode, Find
  <2> DEFINE f == NewFil(s, mode, NoCluster, 0, TRUE)
  <2>2. f \in Fil /\ f.valid /\ f.slot = s
    BY <1>3, Records, Indices DEF NewFil
  <2>3. \A r \in Slots : slot'[r].name = slot[r].name
    BY <2>1 DEF Types, Slot
  <2>4. Opened(fd, i, f)
    BY <2>1
  <2> HIDE DEF f
  <2>5. SharedMarked'
    BY <1>1, <2>2, <2>4, OpenedShared
  <2>6. PathsRight'
    BY <1>1, <1>2, <2>1, <2>2, <2>3, <2>4, OpenedPaths DEF LegalInv
  <2>7. ~illegal' => DataInv'
    BY <1>1, <1>4, TruncateData DEF LegalInv
  <2>8. QED
    BY <2>5, <2>6, <2>7 DEF LegalInv
<1>5. CASE open_Create(n, flags, fd, i)
  <2>1. PICK s \in Slots :
            /\ slot[s].name = NoName
            /\ slot' = [slot EXCEPT ![s] = [FreeSlot EXCEPT !.name = n]]
            /\ Opened(fd, i, NewFil(s, mode, NoCluster, 0, TRUE))
    BY <1>5 DEF open_Create, mode, FirstFree
  <2> DEFINE f == NewFil(s, mode, NoCluster, 0, TRUE)
  <2>2. f \in Fil /\ f.valid /\ f.slot = s
    BY <1>3, Records, Indices DEF NewFil
  <2>3. slot'[s].name = n /\ \A r \in Slots : r # s => slot'[r].name = slot[r].name
    BY <2>1 DEF Types, FreeSlot
  <2>4. Opened(fd, i, f)
    BY <2>1
  <2>5. \A j \in FILs : InUse(j) => fil[j].slot # s
    BY <2>1 DEF LegalInv, DataInv, WritersAlone
  <2> HIDE DEF f
  <2>6. SharedMarked'
    BY <1>1, <2>2, <2>4, OpenedShared
  <2>7. PathsRight'
    BY <1>1, <1>2, <2>2, <2>3, <2>4, <2>5, OpenedPaths DEF LegalInv
  <2>8. DataInv'
    BY <1>1, <1>5, CreateData DEF LegalInv
  <2>9. QED
    BY <2>6, <2>7, <2>8 DEF LegalInv
<1>6. CASE open_Existing(n, flags, fd, i)
  <2>1. PICK s \in Slots :
            /\ slot[s].name = n /\ slot' = slot
            /\ Opened(fd, i, NewFil(s, mode, slot[s].sclust, slot[s].size, FALSE))
    BY <1>6 DEF open_Existing, mode, Find
  <2> DEFINE f == NewFil(s, mode, slot[s].sclust, slot[s].size, FALSE)
  <2>2. f \in Fil /\ f.valid /\ f.slot = s
    <3>1. slot[s].sclust \in Clusters \cup {NoCluster} /\ slot[s].size \in 0 .. CLUSTER
      BY DEF Types, Slot
    <3>2. QED
      BY <1>3, <3>1, Records DEF NewFil
  <2>3. Opened(fd, i, f)
    BY <2>1
  <2> HIDE DEF f
  <2>4. SharedMarked'
    BY <1>1, <2>2, <2>3, OpenedShared
  <2>5. PathsRight'
    BY <1>1, <2>1, <2>2, <2>3, OpenedPaths DEF LegalInv
  <2>6. ~illegal' => DataInv'
    BY <1>1, <1>6, ExistingData DEF LegalInv
  <2>7. QED
    BY <2>4, <2>5, <2>6 DEF LegalInv
<1>7. QED
  BY <1>1, <1>4, <1>5, <1>6

(***************************************************************************)
(* libk.c, close(), dup(), dup2(): descriptors and data after closing and  *)
(* copying.                                                                *)
(***************************************************************************)
LEMMA CloseInv ==
    ASSUME Types, Types', SharedMarked, LegalInv, NEW i \in FILs \cup {NULL},
           i # NULL => i \in Referenced, Closes(i), Redirected(i)
    PROVE  SharedMarked' /\ LegalInv'
<1>1. SharedMarked'
  BY RedirectedShared
<1>2. PathsRight'
  BY RedirectedPaths DEF LegalInv
<1>3. DataInv'
  BY ClosesData DEF LegalInv
<1>4. QED
  BY <1>1, <1>2, <1>3 DEF LegalInv

(***************************************************************************)
(* libk.c, write(), lseek(): descriptors and data after a seek or a write. *)
(***************************************************************************)
LEMMA MovesInv ==
    ASSUME Types, Types', SharedMarked, LegalInv, NEW i \in FILs, InUse(i),
           NEW n \in 0 .. CLUSTER, NEW c \in Clusters \cup {NoCluster}, NEW m \in BOOLEAN,
           Moves(i, n, c, m), UNCHANGED <<file_table, path, slot, illegal>>
    PROVE  SharedMarked' /\ LegalInv'
<1>1. \A j \in FILs : /\ fil'[j].valid = fil[j].valid /\ fil'[j].slot = fil[j].slot
                      /\ fil'[j].shared = fil[j].shared
  <2>1. fil[i] \in Fil
    BY DEF Types
  <2>2. GrownFil(i, n, c, m).valid = fil[i].valid /\ GrownFil(i, n, c, m).slot = fil[i].slot
        /\ GrownFil(i, n, c, m).shared = fil[i].shared
    BY <2>1 DEF GrownFil, Fil
  <2>3. fil'[i] = GrownFil(i, n, c, m) /\ \A j \in FILs : j # i => fil'[j] = fil[j]
    BY DEF Moves, Types
  <2>4. QED
    BY <2>2, <2>3
<1>2. DataInv'
  BY MovesData DEF LegalInv
<1>3. QED
  BY <1>1, <1>2, SteadyLabels DEF LegalInv

(***************************************************************************)
(* Before the first call nothing is open and the volume is empty.          *)
(***************************************************************************)
LEMMA InitFInv == Init => FInv
<1> SUFFICES ASSUME Init PROVE FInv
  OBVIOUS
<1>1. Types
  <2>1. fil \in [FILs -> Fil] /\ slot \in [Slots -> Slot]
    BY Records DEF Init
  <2>2. QED
    BY <2>1, Indices DEF Init, Types
<1>2. \A fd \in FDS : file_table[fd] = NULL
  BY DEF Init
<1>3. \A i : ~InUse(i)
  BY <1>2 DEF InUse, Referenced
<1>4. \A s \in Slots : slot[s].name = NoName
  BY DEF Init, FreeSlot
<1>5. SharedMarked /\ PathsRight
  BY <1>2 DEF SharedMarked, PathsRight
<1>6. WritersAlone /\ CachesRight /\ NamesDiffer /\ LengthsRight
  BY <1>3, <1>4 DEF WritersAlone, CachesRight, NamesDiffer, LengthsRight
<1>7. ClustersSound
  BY <1>3, <1>4 DEF ClustersSound, SlotHolds, FilHolds
<1>8. QED
  BY <1>1, <1>5, <1>6, <1>7, TypesTypeOK DEF FInv

(***************************************************************************)
(* Every file call keeps the invariant; after a step against FatFs's rules *)
(* only types and marks are left of it.                                    *)
(***************************************************************************)
LEMMA NextFInv == FInv /\ [Next]_vars => FInv'
<1>1. SUFFICES ASSUME FInv, [Next]_vars PROVE FInv'
  OBVIOUS
<1>2. Types /\ SharedMarked /\ (~illegal => LegalInv)
  BY <1>1, TypesTypeOK DEF FInv, LegalInv, DataInv
<1>3. Types'
  BY <1>1, <1>2, NextTypes
<1>4. SUFFICES SharedMarked' /\ (~illegal' => LegalInv')
  <2>1. Types' => TypeOK'
    BY TypesTypeOK, PTL
  <2>2. QED
    BY <1>3, <2>1 DEF FInv, LegalInv, DataInv
<1>5. CASE UNCHANGED vars
  BY <1>2, <1>5 DEF vars, SharedMarked, LegalInv, DataInv, PathsRight, WritersAlone, CachesRight,
      NamesDiffer, ClustersSound, LengthsRight, SlotHolds, FilHolds, InUse, Referenced
<1>6. CASE Next
  <2>1. ~illegal /\ LegalInv
    BY <1>2, <1>6 DEF Next
  <2>2. ASSUME NEW n \in Names, NEW flags \in Flags, open(n, flags)
        PROVE  SharedMarked' /\ (~illegal' => LegalInv')
    BY <1>2, <1>3, <2>1, <2>2, OpenInv
  <2>3. ASSUME NEW n \in Names, unlink(n)
        PROVE  SharedMarked' /\ (~illegal' => LegalInv')
    <3>1. PICK s \in Slots :
            /\ slot' = [slot EXCEPT ![s] = FreeSlot]
            /\ illegal' = (illegal \/ Open(s) # {})
            /\ file_table' = file_table /\ fil' = fil /\ path' = path
      BY <2>3 DEF unlink, Find
    <3>2. SharedMarked'
      BY <1>2, <3>1, SteadyLabels
    <3>3. ASSUME ~illegal' PROVE LegalInv'
      <4>1. \A j \in FILs : InUse(j) => fil[j].slot # s
        BY <1>2, <3>1, <3>3, ReferencedDef
      <4>2. \A j \in FILs : InUse(j) => slot'[fil[j].slot].name = slot[fil[j].slot].name
        BY <3>1, <4>1 DEF Types
      <4>3. PathsRight'
        BY <1>2, <2>1, <3>1, <4>2, SteadyLabels DEF LegalInv
      <4>4. DataInv'
        BY <1>2, <1>3, <2>1, <2>3, <3>3, UnlinkData DEF LegalInv
      <4>5. QED
        BY <4>3, <4>4 DEF LegalInv
    <3>4. QED
      BY <3>2, <3>3
  <2>4. ASSUME NEW n \in Names, mkdir(n)
        PROVE  SharedMarked' /\ (~illegal' => LegalInv')
    <3>1. PICK s \in Slots, c \in free :
            /\ slot[s].name = NoName
            /\ slot' = [slot EXCEPT ![s] = [name |-> n, dir |-> TRUE, sclust |-> c, size |-> 0]]
            /\ file_table' = file_table /\ fil' = fil /\ path' = path
      BY <2>4 DEF mkdir, FirstFree
    <3>2. \A j \in FILs : InUse(j) => fil[j].slot # s
      BY <2>1, <3>1 DEF LegalInv, DataInv, WritersAlone
    <3>3. \A j \in FILs : InUse(j) => slot'[fil[j].slot].name = slot[fil[j].slot].name
      <4>1. \A r \in Slots : r # s => slot'[r] = slot[r]
        BY <1>2, <3>1 DEF Types
      <4>2. \A j \in FILs : fil[j].slot \in Slots
        BY <1>2 DEF Types, Fil
      <4>3. QED
        BY <3>2, <4>1, <4>2
    <3>4. SharedMarked' /\ PathsRight'
      BY <1>2, <2>1, <3>1, <3>3, SteadyLabels DEF LegalInv
    <3>5. DataInv'
      BY <1>2, <1>3, <2>1, <2>4, MkdirData DEF LegalInv
    <3>6. QED
      BY <3>4, <3>5 DEF LegalInv
  <2>5. ASSUME NEW fd \in FDS, close(fd)
        PROVE  SharedMarked' /\ LegalInv'
    <3>1. file_table[fd] \in FILs \cup {NULL} /\ (file_table[fd] # NULL => file_table[fd] \in Referenced)
      BY <1>2 DEF Types, Referenced
    <3>2. Closes(file_table[fd]) /\ Redirected(file_table[fd])
      BY <1>2, <2>5, CloseRedirects
    <3>3. QED
      BY <1>2, <1>3, <2>1, <3>1, <3>2, CloseInv
  <2>6. ASSUME NEW fd \in FDS, dup(fd)
        PROVE  SharedMarked' /\ LegalInv'
    BY <1>2, <1>3, <2>1, <2>6, DupRedirects, CloseInv
  <2>7. ASSUME NEW fd \in FDS, read(fd)
        PROVE  SharedMarked' /\ LegalInv'
    <3>1. Usable(fd) /\ f_read(file_table[fd]) /\ UNCHANGED <<file_table, path, slot, free, illegal, length>>
      BY <2>7 DEF read
    <3>2. file_table[fd] \in FILs
      BY <1>2, <3>1, FilOf DEF Usable
    <3>3. \A j \in FILs : /\ fil'[j].valid = fil[j].valid /\ fil'[j].slot = fil[j].slot
                          /\ fil'[j].shared = fil[j].shared
      BY <1>2, <3>1 DEF f_read, Types, Fil
    <3>4. SharedMarked' /\ PathsRight'
      BY <1>2, <2>1, <3>1, <3>3, SteadyLabels DEF LegalInv
    <3>5. DataInv'
      BY <1>2, <1>3, <2>1, <3>1, <3>2, ReadData DEF LegalInv
    <3>6. QED
      BY <3>4, <3>5 DEF LegalInv
  <2>8. ASSUME NEW fd \in FDS, Usable(fd) PROVE file_table[fd] \in FILs /\ InUse(file_table[fd])
    BY <1>2, <2>8, FilOf DEF Usable, InUse, Referenced
  <2>9. ASSUME NEW fd \in FDS, write(fd)
        PROVE  SharedMarked' /\ LegalInv'
    <3>1. Usable(fd) /\ f_write(file_table[fd]) /\ UNCHANGED <<file_table, path, slot, illegal>>
      BY <2>9 DEF write
    <3>2. file_table[fd] \in FILs /\ InUse(file_table[fd])
      BY <2>8, <3>1
    <3>3. QED
      BY <1>2, <1>3, <2>1, <3>1, <3>2, WriteMoves, MovesInv
  <2>10. ASSUME NEW old \in FDS, NEW new \in FDS, dup2(old, new)
         PROVE  SharedMarked' /\ LegalInv'
    <3>1. file_table[new] \in FILs \cup {NULL} /\ (file_table[new] # NULL => file_table[new] \in Referenced)
      BY <1>2 DEF Types, Referenced
    <3>2. Closes(file_table[new]) /\ Redirected(file_table[new])
      BY <1>2, <2>10, Dup2Redirects
    <3>3. QED
      BY <1>2, <1>3, <2>1, <3>1, <3>2, CloseInv
  <2>11. ASSUME NEW fd \in FDS, NEW s \in Seeks, lseek(fd, s[1], s[2])
         PROVE  SharedMarked' /\ LegalInv'
    <3>1. /\ Usable(fd) /\ \E ofs \in Nat : f_lseek(file_table[fd], ofs)
          /\ UNCHANGED <<file_table, path, slot, illegal>>
      BY <1>2, <2>11, SeekOffset
    <3>2. file_table[fd] \in FILs /\ InUse(file_table[fd])
      BY <2>8, <3>1
    <3>3. QED
      BY <1>2, <1>3, <2>1, <3>1, <3>2, SeekMoves, MovesInv
  <2>12. QED
    BY <1>6, <2>2, <2>3, <2>4, <2>5, <2>6, <2>7, <2>9, <2>10, <2>11 DEF Next
<1>7. QED
  BY <1>1, <1>5, <1>6

-----------------------------------------------------------------------------
(***************************************************************************)
(* libk.c, ff.c: the inductive invariant, for any number of names,         *)
(* clusters and descriptors.                                               *)
(***************************************************************************)
THEOREM FilesInv == Spec => []FInv
BY InitFInv, NextFInv, PTL DEF Spec

(***************************************************************************)
(* ffconf.h: without illegal open, remove and rename no cluster is free    *)
(* and held, or held for two files.                                        *)
(***************************************************************************)
LEMMA FInvVolumeSound == FInv => VolumeSound
<1> SUFFICES ASSUME FInv, ~illegal, NEW h \in Held, h[2] # NoCluster
             PROVE  h[2] \notin free /\ \A g \in Held : g[2] = h[2] => g[1] = h[1]
  BY DEF VolumeSound, FInv
<1>1. Types /\ ClustersSound
  BY TypesTypeOK DEF FInv
<1>2. ASSUME NEW g \in Held, g[2] # NoCluster
      PROVE  /\ g[2] \in Clusters
             /\ \/ g[1] \in Slots /\ SlotHolds(g[1], g[2])
                \/ \E i \in FILs : FilHolds(i, g[2]) /\ fil[i].slot = g[1]
  <2>1. CASE \E s \in Slots : slot[s].name # NoName /\ g = <<s, slot[s].sclust>>
    BY <1>1, <1>2, <2>1 DEF SlotHolds, Types, Slot
  <2>2. CASE \E i \in Referenced : fil[i].valid /\ g = <<fil[i].slot, fil[i].sclust>>
    <3>1. PICK i \in Referenced : fil[i].valid /\ g = <<fil[i].slot, fil[i].sclust>>
      BY <2>2
    <3>2. i \in FILs /\ fil[i] \in Fil
      BY <1>1, ReferencedDef DEF Types
    <3>3. g[2] \in Clusters /\ FilHolds(i, g[2]) /\ fil[i].slot = g[1]
      BY <1>2, <3>1, <3>2 DEF FilHolds, InUse, Fil
    <3>4. QED
      BY <3>2, <3>3
  <2>3. QED
    BY <1>2, <2>1, <2>2 DEF Held
<1>3. h[2] \notin free
  BY <1>1, <1>2 DEF ClustersSound
<1>4. ASSUME NEW g \in Held, g[2] = h[2] PROVE g[1] = h[1]
  BY <1>1, <1>2, <1>4 DEF ClustersSound
<1>5. QED
  BY <1>3, <1>4

(***************************************************************************)
(* ff.c: the directory has the file's length when nothing is left to save. *)
(***************************************************************************)
LEMMA FInvLengthSaved == FInv => LengthSaved
<1> SUFFICES ASSUME FInv, ~illegal, NEW s \in Slots, slot[s].name # NoName,
                    \A i \in Open(s) : ~fil[i].modified
             PROVE  slot[s].size = length[s]
  BY DEF LengthSaved
<1>1. Types /\ LengthsRight
  BY TypesTypeOK DEF FInv
<1>2. \A i \in FILs : InUse(i) /\ fil[i].slot = s => ~fil[i].modified
  BY <1>1, ReferencedDef
<1>3. QED
  BY <1>1, <1>2 DEF LengthsRight

(***************************************************************************)
(* ff.c, ffconf.h: VolumeSound for every value of the constants: a program *)
(* that obeys the rules never gets two files with the same cluster, or one *)
(* whose cluster is free.                                                  *)
(***************************************************************************)
THEOREM VolumeStaysSound == Spec => []VolumeSound
BY FilesInv, FInvVolumeSound, PTL

(***************************************************************************)
(* ff.c, f_sync(), diskio.c, disk_ioctl(): LengthSaved for every value of  *)
(* the constants: the directory has the length write() reported whenever   *)
(* no descriptor has changes left to save.                                 *)
(***************************************************************************)
THEOREM LengthsAreSaved == Spec => []LengthSaved
BY FilesInv, FInvLengthSaved, PTL

(***************************************************************************)
(* libk.c, dup(), dup2(), close(): DescriptorsTruthful for every value of  *)
(* the constants: a descriptor of a closed FIL comes from a copy, and the  *)
(* path of a usable one is its file's.                                     *)
(***************************************************************************)
THEOREM DescriptorsStayTruthful == Spec => []DescriptorsTruthful
<1>1. FInv => DescriptorsTruthful
  BY DEF FInv, SharedMarked, PathsRight, DescriptorsTruthful
<1>2. QED
  BY <1>1, FilesInv, PTL
=============================================================================
