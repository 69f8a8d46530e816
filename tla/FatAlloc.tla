------------------------------ MODULE FatAlloc ------------------------------
(***************************************************************************)
(* Cluster allocation on a FAT volume: the FAT, the free-cluster count and *)
(* the allocation hint FatFs keeps in memory, the FSInfo copy of both on a *)
(* FAT32 volume, and the operations that take and give back clusters.  The *)
(* names live in one directory; on FAT32 it is itself a cluster chain that *)
(* grows when an entry finds no room.  A handler runs under the mutex      *)
(* (module FuseDispatch) and is one action.                                *)
(***************************************************************************)
EXTENDS Integers, FiniteSets, FiniteSetsExt

CONSTANTS
  N,           (* clusters of the volume; they are numbered from 2         *)
  Names,       (* names in the directory                                   *)
  MaxStretch   (* clusters one long name can make the directory grow by    *)

ASSUME AllocAssumption == N \in Nat \ {0} /\ MaxStretch \in Nat

VARIABLES
  fat32,    (* the volume is FAT32: FSInfo and a directory that can grow   *)
  vol,      (* the volume in memory: FAT, free_clst, last_clst, fsi_flag   *)
  objs,     (* directory entries: kind, first cluster, clusters of content *)
  diskfat,  (* the FAT on the device                                       *)
  info,     (* the FSInfo sector                                           *)
  reply,    (* the last operation: clusters asked for, and refused         *)
  drifted,  (* history: mounted with an FSInfo that was not written back   *)
  unlost    (* history: never mounted after a mkdir that could not register *)

vars == <<fat32, vol, objs, diskfat, info, reply, drifted, unlost>>

Clusters == 2 .. N + 1

\* FAT values at and above n_fatent end a chain; 0xFFFFFFFF is no count and
\* no hint.
EOC == N + 2
Unknown == N + 2

Volume ==
  [fat : [Clusters -> {0} \cup Clusters \cup {EOC}], free : (0 .. N) \cup {Unknown},
   last : 0 .. Unknown, dirty : BOOLEAN]

Object == [kind : {"none", "file", "dir"}, first : {0} \cup Clusters, len : 0 .. N]

NoObject == [kind |-> "none", first |-> 0, len |-> 0]

FreeOf(fat) == {c \in Clusters : fat[c] = 0}
-----------------------------------------------------------------------------
(* Chains.                                                                 *)

\* The clusters met when get_fat is followed n times from c.
Follow(fat, c) ==
  LET f[n \in 0 .. N] == IF n = 0 THEN c
                         ELSE IF f[n - 1] \in Clusters THEN fat[f[n - 1]] ELSE f[n - 1]
  IN  f

Chain(fat, c) == {Follow(fat, c)[n] : n \in 0 .. N} \cap Clusters

Tail(fat, c) == IF c = 0 THEN 0 ELSE CHOOSE x \in Chain(fat, c) : fat[x] = EOC

\* The i-th cluster looked at after scl; the scan wraps and ends with scl.
Candidate(scl, i) == IF scl + i <= N + 1 THEN scl + i ELSE scl + i - N

\* Mutant: the scan stops before it has looked at scl itself.
FirstFreeShort(fat, scl) ==
  LET ix == {i \in 1 .. N - 1 : fat[Candidate(scl, i)] = 0}
  IN  IF ix = {} THEN 0 ELSE Candidate(scl, Min(ix))

FirstFree(fat, scl) ==
  LET ix == {i \in 1 .. N : fat[Candidate(scl, i)] = 0}
  IN  IF ix = {} THEN 0 ELSE Candidate(scl, Min(ix))

\* Mutant: the cluster after the tail is taken without a look at its status.
PickAnyNext(v, clst) ==
  LET next == IF clst + 1 > N + 1 THEN 2 ELSE clst + 1
      hint == IF v.last \in Clusters THEN v.last ELSE 1
  IN  IF v.free = 0 THEN 0 ELSE IF clst # 0 THEN next ELSE FirstFree(v.fat, hint)

\* The cluster create_chain takes, 0 if there is none: the one behind the
\* tail, else the first free one from the hint on.
Pick(v, clst) ==
  LET next == IF clst + 1 > N + 1 THEN 2 ELSE clst + 1
      hint == IF v.last \in Clusters THEN v.last
              ELSE IF clst # 0 THEN clst ELSE 1
  IN  IF v.free = 0 THEN 0
      ELSE IF clst # 0 /\ v.fat[next] = 0 THEN next ELSE FirstFree(v.fat, hint)

\* Mutant: a count that is not known is counted down too.
LinkedUnguarded(v, clst, ncl) ==
  [fat   |-> [c \in Clusters |-> IF c = ncl THEN EOC
                                 ELSE IF c = clst THEN ncl ELSE v.fat[c]],
   free  |-> v.free - 1,
   last  |-> ncl,
   dirty |-> TRUE]

\* create_chain for a tail (or 0, for a new chain) when Pick finds ncl.
Linked(v, clst, ncl) ==
  [fat   |-> [c \in Clusters |-> IF c = ncl THEN EOC
                                 ELSE IF c = clst THEN ncl ELSE v.fat[c]],
   free  |-> IF v.free <= N THEN v.free - 1 ELSE v.free,
   last  |-> ncl,
   dirty |-> TRUE]

\* Clusters appended to a chain one by one until k are there or none is free:
\* f_lseek past the end, f_write, dir_next with stretch.
Append(v, first, k) ==
  LET a[i \in 0 .. k] ==
        IF i = 0 THEN [v |-> v, first |-> first, tail |-> Tail(v.fat, first), n |-> 0]
        ELSE LET p   == a[i - 1]
                 ncl == Pick(p.v, p.tail)
             IN  IF p.n < i - 1 \/ ncl = 0 THEN p
                 ELSE [v |-> Linked(p.v, p.tail, ncl), tail |-> ncl, n |-> i,
                       first |-> IF p.first = 0 THEN ncl ELSE p.first]
  IN  a[k]

\* Mutant: free_clst is not updated.
remove_chain_uncounted(v, c, pclst) ==
  [v EXCEPT !.fat = [x \in Clusters |-> IF x \in Chain(v.fat, c) THEN 0
                                        ELSE IF x = pclst THEN EOC ELSE v.fat[x]]]

\* remove_chain: the previous cluster becomes the end, the rest is freed.
remove_chain(v, c, pclst) ==
  LET gone == Chain(v.fat, c)
  IN  [fat   |-> [x \in Clusters |-> IF x \in gone THEN 0
                                     ELSE IF x = pclst THEN EOC ELSE v.fat[x]],
       free  |-> IF v.free <= N
                   THEN IF v.free + Cardinality(gone) <= N
                          THEN v.free + Cardinality(gone) ELSE N
                   ELSE v.free,
       last  |-> v.last,
       dirty |-> v.dirty \/ v.free < N]
-----------------------------------------------------------------------------
(* The volume on the device.                                               *)

Root == IF fat32 THEN 2 ELSE 0

\* sync_fs at the end of an operation: the window, and FSInfo on FAT32.
Synced(v) ==
  /\ vol' = [v EXCEPT !.dirty = v.dirty /\ ~fat32]
  /\ diskfat' = v.fat
  /\ info' = IF fat32 /\ v.dirty THEN [free |-> v.free, last |-> v.last] ELSE info

\* An operation that ends without sync_fs; onDisk is the FAT its last window
\* move has flushed.
Unsynced(v, onDisk) == vol' = v /\ diskfat' = onDisk /\ info' = info

Answer(wanted, full) == reply' = [wanted |-> wanted, full |-> full]

History == UNCHANGED <<fat32, drifted, unlost>>

\* dir_alloc when the entry needs k more clusters: dir_next stretches the
\* directory, and keeps what it got when the volume fills up.
Stretched(v, k) ==
  LET e == Append(v, Root, k)
  IN  [v |-> e.v, ok |-> e.n = k, wanted |-> k, full |-> e.n < k]

\* dir_register: entries in the directory as it is, or in 1 .. MaxStretch new
\* clusters.  It may also be refused for the name (numbered names, MAX_DIR).
Registrations(v) ==
  {[v |-> v, ok |-> ok, wanted |-> 0, full |-> FALSE] : ok \in BOOLEAN} \cup
  (IF fat32 THEN {Stretched(v, k) : k \in 1 .. MaxStretch} ELSE {})
-----------------------------------------------------------------------------
(* Operations.                                                             *)

\* f_open with FA_CREATE_NEW or FA_CREATE_ALWAYS of a name that is not there.
CreateFile(x) ==
  /\ objs[x].kind = "none" /\ History
  /\ \E r \in Registrations(vol) :
       /\ Answer(r.wanted, r.full)
       /\ IF r.ok THEN /\ objs' = [objs EXCEPT ![x] = [NoObject EXCEPT !.kind = "file"]]
                       /\ Synced(r.v)
                  ELSE objs' = objs /\ Unsynced(r.v, r.v.fat)

\* Mutant: the chain of the old file is not removed.
OverwrittenKept(v, first) == v

\* FA_CREATE_ALWAYS: the chain goes and the search will begin at its hole.
Overwritten(v, first) ==
  IF first = 0 THEN v ELSE [remove_chain(v, first, 0) EXCEPT !.last = first - 1]

OverwriteFile(x) ==
  /\ objs[x].kind = "file" /\ History
  /\ Synced(Overwritten(vol, objs[x].first))
  /\ objs' = [objs EXCEPT ![x] = [NoObject EXCEPT !.kind = "file"]]
  /\ Answer(0, FALSE)

\* f_lseek past the end and f_write: the chain grows to len clusters, or to
\* what the volume has.  f_sync follows if anything changed, the last cluster's
\* bytes included.
Extend(x, len) ==
  LET e == Append(vol, objs[x].first, len - objs[x].len) IN
  /\ objs[x].kind = "file" /\ len > objs[x].len /\ History
  /\ objs' = [objs EXCEPT ![x] = [kind |-> "file", first |-> e.first, len |-> @.len + e.n]]
  /\ Synced(e.v) \/ (e.n = 0 /\ Unsynced(vol, vol.fat))
  /\ Answer(len - objs[x].len, e.n < len - objs[x].len)

\* Mutant: the chain is cut behind the cluster that is to go.
CutOneLate(v, first, len) ==
  IF len = 0 THEN remove_chain(v, first, 0)
  ELSE LET f == Follow(v.fat, first)
       IN  IF f[len] \in Clusters /\ f[len + 1] \in Clusters
             THEN remove_chain(v, f[len + 1], f[len]) ELSE v

\* f_truncate at the end of cluster len, or at 0.
Cut(v, first, len) ==
  IF len = 0 THEN remove_chain(v, first, 0)
  ELSE LET f == Follow(v.fat, first)
       IN  IF f[len] \in Clusters THEN remove_chain(v, f[len], f[len - 1]) ELSE v

Truncate(x, len) ==
  /\ objs[x].kind = "file" /\ len < objs[x].len /\ History
  /\ Synced(Cut(vol, objs[x].first, len))
  /\ objs' = [objs EXCEPT ![x].len = len, ![x].first = IF len = 0 THEN 0 ELSE @]
  /\ Answer(0, FALSE)

\* f_unlink, for files and for empty directories.
f_unlink(x) ==
  /\ objs[x].kind # "none" /\ History
  /\ objs' = [objs EXCEPT ![x] = NoObject]
  /\ Synced(IF objs[x].first = 0 THEN vol ELSE remove_chain(vol, objs[x].first, 0))
  /\ Answer(0, FALSE)

\* f_mkdir.  A directory that cannot be registered gives its cluster back, but
\* only in memory: dir_clear has already flushed the FAT with the cluster in
\* use, and nothing is synced on this way out.
f_mkdir(x) ==
  LET ncl == Pick(vol, 0)
      v   == Linked(vol, 0, ncl)
  IN
  /\ objs[x].kind = "none" /\ History
  /\ \/ /\ ncl = 0
        /\ Unsynced(vol, vol.fat) /\ objs' = objs
        /\ Answer(1, TRUE)
     \/ /\ ncl # 0
        /\ \E r \in Registrations(v) :
             /\ Answer(r.wanted + 1, r.full)
             /\ IF r.ok
                  THEN /\ objs' = [objs EXCEPT ![x] = [kind |-> "dir", first |-> ncl, len |-> 1]]
                       /\ Synced(r.v)
                  ELSE objs' = objs /\ Unsynced(remove_chain(r.v, ncl, 0), r.v.fat)

\* f_rename to a name that is not in use.
f_rename(x, y) ==
  /\ objs[x].kind # "none" /\ objs[y].kind = "none" /\ History
  /\ \E r \in Registrations(vol) :
       /\ Answer(r.wanted, r.full)
       /\ IF r.ok THEN /\ objs' = [objs EXCEPT ![x] = NoObject, ![y] = objs[x]]
                       /\ Synced(r.v)
                  ELSE objs' = objs /\ Unsynced(r.v, r.v.fat)

\* Mutant: the scan begins two clusters late.
CountedShort(v) == IF v.free <= N THEN v.free ELSE Cardinality(FreeOf(v.fat) \ {2, 3})

Counted(v) == IF v.free <= N THEN v.free ELSE Cardinality(FreeOf(v.fat))

\* f_getfree counts the free clusters once; FSInfo is not written here, and the
\* scan of the FAT flushes a dirty window if it has to leave its sector.
f_getfree ==
  /\ \E onDisk \in {diskfat, vol.fat} :
       /\ vol.free <= N => onDisk = diskfat
       /\ Unsynced([vol EXCEPT !.free = Counted(vol), !.dirty = @ \/ vol.free > N], onDisk)
  /\ objs' = objs /\ Answer(0, FALSE) /\ History

\* fff_destroy drops the volume without a sync; mount_volume reads FSInfo.
Remount ==
  /\ vol' = [fat |-> diskfat, dirty |-> FALSE,
             free |-> IF fat32 THEN info.free ELSE Unknown,
             last |-> IF fat32 THEN info.last ELSE Unknown]
  /\ drifted' = (drifted \/ (fat32 /\ vol.dirty))
  /\ unlost' = (unlost /\ diskfat = vol.fat)
  /\ Answer(0, FALSE)
  /\ UNCHANGED <<fat32, objs, diskfat, info>>
-----------------------------------------------------------------------------
\* A volume with an empty directory; FSInfo holds the count, or none.
Init ==
  LET fat == [c \in Clusters |-> IF fat32 /\ c = 2 THEN EOC ELSE 0] IN
  /\ fat32 \in BOOLEAN
  /\ info \in {[free |-> Unknown, last |-> Unknown],
               [free |-> Cardinality(FreeOf(fat)), last |-> 2]}
  /\ diskfat = fat
  /\ vol = [fat |-> fat, dirty |-> FALSE,
            free |-> IF fat32 THEN info.free ELSE Unknown,
            last |-> IF fat32 THEN info.last ELSE Unknown]
  /\ objs = [x \in Names |-> NoObject]
  /\ reply = [wanted |-> 0, full |-> FALSE]
  /\ drifted = FALSE /\ unlost = TRUE

Next ==
  \/ \E x \in Names : CreateFile(x) \/ OverwriteFile(x) \/ f_unlink(x) \/ f_mkdir(x)
  \/ \E x \in Names, len \in 0 .. N : Extend(x, len) \/ Truncate(x, len)
  \/ \E x, y \in Names : f_rename(x, y)
  \/ f_getfree
  \/ Remount

Spec == Init /\ [][Next]_vars
-----------------------------------------------------------------------------
(* Properties.                                                             *)

\* Every variable has its type: in particular free_clst is always a possible
\* number of clusters, or unknown.
TypeOK ==
  /\ fat32 \in BOOLEAN
  /\ vol \in Volume
  /\ objs \in [Names -> Object]
  /\ diskfat \in [Clusters -> {0} \cup Clusters \cup {EOC}]
  /\ info \in [free : (0 .. N) \cup {Unknown}, last : 0 .. Unknown]
  /\ reply \in [wanted : Nat, full : BOOLEAN]
  /\ drifted \in BOOLEAN /\ unlost \in BOOLEAN

\* The first clusters of the directory and of everything in it.
Starts == ({Root} \cup {objs[x].first : x \in Names}) \ {0}

\* No cluster belongs to two files: two entries never start at the same
\* cluster, two FAT entries never name the same next one, and no chain runs
\* into the start of another or into a free cluster (create_chain, remove_chain).
NoCrossLink ==
  /\ \A x, y \in Names : objs[x].first = objs[y].first /\ x # y => objs[x].first = 0
  /\ \A x \in Names : objs[x].first # 0 => objs[x].first # Root
  /\ \A c, d \in Clusters : vol.fat[c] = vol.fat[d] /\ c # d => vol.fat[c] \in {0, EOC}
  /\ \A c \in Clusters : vol.fat[c] \in Clusters =>
       vol.fat[c] \notin Starts /\ vol.fat[vol.fat[c]] # 0
  /\ \A s \in Starts : vol.fat[s] # 0

\* Every file has the clusters its size calls for, and its chain ends
\* (f_lseek, f_write and f_truncate against the directory entry).
ChainMatchesSize ==
  \A x \in Names :
    IF objs[x].first = 0 THEN objs[x].len = 0
    ELSE /\ Cardinality(Chain(vol.fat, objs[x].first)) = objs[x].len
         /\ Follow(vol.fat, objs[x].first)[N] = EOC

\* A cluster in use is in the chain of some file: none is lost, but for the
\* one of a mkdir that could not register when the volume is mounted again.
EveryClusterOwned ==
  unlost => Clusters \ FreeOf(vol.fat) = UNION {Chain(vol.fat, s) : s \in Starts}

\* The free count, once known, is the number of free clusters, as long as the
\* volume was not mounted again before an operation synced it.
FreeCountExact ==
  ~drifted /\ vol.free <= N => vol.free = Cardinality(FreeOf(vol.fat))

\* Even then it is never too low: a stale FSInfo makes no volume look full.
FreeNeverUnderstated == vol.free <= N => vol.free >= Cardinality(FreeOf(vol.fat))

\* create_chain reports a full volume exactly when the operation asks for more
\* clusters than are free, wherever its hint makes it begin to search.
FullOnlyWhenFull ==
  [][reply'.full = (Cardinality(FreeOf(vol.fat)) < reply'.wanted)]_vars
=============================================================================
