# TLA+ specifications of fatcrypt

fatcrypt mounts a FAT volume through FUSE and encrypts the files on it one by
one. Each file starts with a 41-byte header (magic, version, logical size, base
nonce) and continues in blocks of 512 bytes, 496 bytes of ciphertext with a
16-byte tag. These modules model its own code (`src/fuse/fatcrypt.c`,
`src/fuse/fusefatfs.c`) and the FatFs it carries a modified copy of
(`src/fuse/fatfs/source/ff.c`), as far as fatcrypt uses it.

Line numbers below are those of the commit the specifications were written from;
`PROJECT.json` holds the full map from definitions to lines.

## Inventory

| Component | State | Operations | Modelled by |
|---|---|---|---|
| Encrypted file format (`ff.c` 3672-3908, 4183-4295, 4400-4568, 5157-5196, 5388-5419, 5604-5663; `fatcrypt.c` 891-948) | header, blocks, physical and logical size of a file | parse/write/update header, read, write, seek, truncate, stat | CryptLayout, CryptFile; StreamFile is the abstract file; SectorFile takes writes apart |
| File handlers (`fusefatfs.c` 130-418) | none between calls: every handler opens by path | getattr, open, create, read, write, truncate, unlink | CryptFile |
| Request dispatch (`fusefatfs.c` 58-61 and all handlers) | one mutex, one worker thread per request | lock, early returns, FatFs call, unlock | FuseDispatch |
| Keys and configuration (`fatcrypt.c` 178-842, 950-1089) | `config.json`, `keys/master.blob`, `config.sig` | keygen, sign, load (verify has no caller) | KeyStore |
| Mount and unmount (`fusefatfs.c` 479-658, 716-1002; `fftable.c`) | master key in memory, read-only flag, volume table | fff_init, fff_destroy, mounting a device for keygen | KeyStore, FatAlloc (partly) |
| Cluster allocation (`ff.c` 1165-1622, 5460-5547) | FAT, free count, hint, FSInfo | create_chain, remove_chain, f_getfree, and all operations that use them | FatAlloc |
| Directory operations (`ff.c` 1701-2725, 5670-6041; `fusefatfs.c` 186-200, 291-475) | directory entries | create, unlink, rename, readdir, mkdir, rmdir, utimens, statfs | DirTable (entries), PathClass (the tree), FatAlloc (allocation), FuseDispatch (locking) |
| Path classes (`fatcrypt.c` 23-176, 845-888) | none; pattern lists of the configuration | normalize, metadata and plaintext tests, the branches on them in the handlers | PathClass |
| Sector cache and device (`ff.c` 1059-1137, `diskio.c`) | window, file buffer, dirty flags | sync, move window, disk read and write | SectorFile (file buffer, FAT and entry in the window), DirTable (directory in the window) |
| wolfSSL, json-c, libfuse, code pages, f_mkfs | | | not modelled (vendored, external or never called) |

How they interact: libfuse runs a handler on one of several threads; the handler
takes the mutex, classifies the path, calls FatFs (the `f_crypt_*` variants for
encrypted paths), which allocates clusters and moves sectors, and unlocks.
keygen is a separate process that writes the key files through a mount, possibly
one whose own session already holds an older key. Mount reads the key files
straight from the volume before FUSE starts.

What is hard about it: the same file is reopened for every call with different
access modes; growth of a file happens before its header is looked at; FatFs
does not clear the clusters it adds; two computations of one block position use
different integer widths; every way out of a handler must unlock; keygen rewrites
three files in place; FSInfo is written back only by some operations; a block, and
the entries of a name, can lie in two sectors; what is plain and what is encrypted is
decided by the spelling of a path, anew for each request. The hazards
of `PROJECT.json` list each of these at its line with the properties about it.

What makes the components correct: a write is readable afterwards and destroys
nothing else; a failed write loses nothing outside its range; no byte of another
file becomes readable; FatFs is never entered twice; waiting requests get an
answer; a successful keygen yields a key that loads, an unsuccessful one leaves
the old key, the new key or none; no cluster belongs to two files or to nobody;
"volume full" is reported when it is full and only then; a power loss or a failed
access tears at most the block being written and loses no name; what was written under
an encrypted path does not lie open, and the other way round.

## Modules

**CryptLayout** has the arithmetic of `f_crypt_read`, `f_crypt_write` and
`f_crypt_lseek`: block index, offset in the block, the 64-bit position of a seek
(`SeekPos`), the 32-bit position of a block (`BlockStart`, modulo `UIntRange`) and
the slots of the file that blocks land on.

**CryptFile** is one file under an encrypted path, with one action per handler.
`img` is the directory entry's size, the header if the first bytes are one, and in
each slot the block encrypted there. Encryption is ideal: a block opens exactly
under the nonce and index it was made with. `Capacities` lets every extension stop
at a full volume; `ReuseDirty` lets new clusters carry what a removed or truncated
file left there (`released`). A handler is atomic because the mutex makes it so.

**StreamFile** is the file a client may rely on: a status, a size and bytes, without
headers, blocks, nonces or clusters. It states the promises the code keeps, which
are weaker than those of POSIX: a write makes its end the end of the file, bytes
can be lost, and truncate loses all of them. `CryptFile!StreamSpec` is the
refinement.

**FuseDispatch** has the worker threads and the mutex. A FatFs call is two steps
with the sector window loaded in between, so an overlap would show. Every handler
is a request: the ones that lock nothing, the ones that refuse a read-only volume,
those that can answer before they call FatFs.

**KeyStore** has the three key files, the keygen command as the sequence of opens
(which truncate) and writes that `fatcrypt_keygen` makes, each of which can fail,
a crash between any two, mounts with the options of `main`, and loading as
`fff_init` does it. `kg.prior` and `touched` are history.

**FatAlloc** has the FAT, `free_clst`, `last_clst` and `fsi_flag` in memory, the FAT
and FSInfo on the device, and two names in one directory (a cluster chain on FAT32,
a fixed table otherwise). Its actions are the FatFs operations that take or free
clusters, with the failures after which nothing is synced, f_getfree, and unmount
followed by mount. `drifted` and `unlost` are history: they say when the device and
the memory had parted at a mount.

**SectorFile** is CryptFile's write and truncate one level down, as sector accesses.
41 bytes of header push the blocks off the sector boundaries, so a sector is two parts:
the end of one block (the header in sector 0) and the start of the next. `fp` is the
open file with its sector buffer, `mem` the sizes FatFs believes in and what the window
holds that is not on the device, `disk` the device. `diskio.c` opens it with `O_SYNC`,
so sectors are durable in the order they are written. Any access can fail, which leaves
`fp->err` or a half-done `f_sync` behind as the code does, and the power can go between
any two. `base` is history, the device when the request opened the file.

**PathClass** is a small tree of files and directories under handlers that classify
each path by its spelling (`Under` is the character-wise prefix test of a listed
directory, with `Longer` saying which names begin with which) while FAT finds the file
whatever the case (`Fold`). A file is its first 41 bytes and the rest: that is as much
as the class decides. Renames move files and directories between classes; a mount
without the key takes everything as plain. `given` and `last` are history: which values
were written to which kind of path, and what was last written to each file.
**MCPathClass** names a volume for TLC.

**DirTable** is one directory of files: entries in sectors, a long name as several
entries tied to the short one by its checksum, the window they are changed in. Requests
run call by call: the searches of `follow_path`, the numbered short name, `dir_alloc`
and the stretch in `dir_next` and `dir_clear`, one step for each entry written or
deleted, `sync_fs`; with the same faults and power losses as SectorFile. `hist` is
history: the names of the objects whose last change answered OK, the objects created
and not unlinked, the names whose registration was cut short, and whether the growth of
the table was. **MCDirTable** names five files for TLC.

The `_proofs` modules hold the theorems. Definitions commented "Mutant" are wrong
variants of the definition after them, used to see that a property can fail.

## Runs

| Run | Checks | Result |
|---|---|---|
| `file` | CryptFile on clean clusters: TypeOK, ImagesSound, BlocksMatchHeader, WriteLands, FailedWriteHarmless, HeaderKept, refinement of StreamFile | holds |
| `file_reuse` | the same handlers on reused clusters: ImagesSound, WriteLands, OwnBytesOnly | holds |
| `dispatch` | three threads: TypeOK, WindowStable, HeldInsideHandler, AnsweredUnlessLeaked | holds |
| `keys` | KeyStore: TypeOK, KeygenYieldsKey, LoadsOldOrNew, SessionKeyLoads, SignatureFresh | holds |
| `alloc` | FatAlloc: TypeOK, NoCrossLink, ChainMatchesSize, EveryClusterOwned, FreeCountExact, FreeNeverUnderstated, FullOnlyWhenFull | holds |
| `power_loss` | SectorFile: TypeOK, WriteTearsOneBlock, HeaderSurvivesWrite, DurableWhenAnswered, GrowthLinkedFirst | holds |
| `paths` | PathClass: TypeOK, ClassHonoured, ReadsBack, SealedReadsAuthentic | holds |
| `directory` | DirTable: TypeOK, NamesDurable, ObjectSurvives, ListedOnce, StretchCleared | holds |
| `size_shrinks` | a write never makes the file shorter | violated |
| `truncate_new_header` | a header is written once | violated |
| `mutex_leak` | every request is answered | violated |
| `long_path` | a file that is not listed is encrypted | violated |

Bounds. The layout is scaled to a header of one byte and blocks of two bytes with a
one-byte tag; with a 32-bit range scaled to 12 (9 in the smaller runs) there are
four (three) slots, the last of which never fits below the file size limit, as with
the real numbers. Offsets and lengths make writes inside a block, across a boundary,
over two blocks, behind a gap and past the limit; capacities end before, inside and
behind the blocks written. Two nonces are enough for a header that replaces another.
Three threads give an owner and two waiters with two requests each; the requests of
the `dispatch` run are one representative of each way through a handler (unlocked,
refusing or answering early, leaking). Two keygens, two passphrases, both scrypt
settings and two pattern lists make every mixture of an old and a new key set. Four
clusters and two names let chains interleave, the search wrap, the directory stretch
by up to two clusters, and the volume fill up in every operation. `power_loss` has two
blocks over three sectors, so that one sector holds the end of a block and the start of
the next, with three requests (one to make the file, one to change it, one to meet what
a fault left), one failing access and one power loss, at any access of any of them.
`paths` has four requests (write, rename, remount, read), one alias, a listed directory
and one whose name starts with its name, and a path too long to classify. `directory`
has three sectors of two entries, so that a long name (three entries) always lies in two
of them and the table grows and fills up, five names that compete for short names,
checksums and spellings, four requests (two objects, a rename or removal, and a name
that moves into the gap), one failing access and one power loss.

Fairness. Only `dispatch` and `mutex_leak` are about liveness. Each thread's serving
steps are weakly fair: a runnable thread is scheduled and a FatFs call ends. Receiving
requests is not fair, clients may stop. Each thread receives finitely many requests, so
nothing is claimed about starvation under endless traffic: a pthread mutex does not
promise it. Deadlock checking is off for these two because clients may stop asking, and
for `power_loss`, `paths`, `long_path` and `directory` because the number of requests is
bounded. It is on everywhere else.

## Findings

- `size_shrinks`: `ff.c` 4560 stores the end of the write as the logical size whenever
  they differ, under the comment "file extended, updating header". Overwriting the start
  of a file shortens it.
- `truncate_new_header`: `fusefatfs.c` 397 opens with `FA_WRITE` only, the header cannot be
  read, and `f_crypt_truncate` writes a new one and cuts everything behind it.
- `mutex_leak`: `fusefatfs.c` 345 returns without unlocking when f_mkdir fails.
- `long_path`: `fatcrypt.c` 155 answers -1 for a path it cannot normalise; the write path
  takes that for a metadata path and stores the bytes unencrypted, the read path refuses.

Seen while modelling, without a run of their own.

The file format:
- `ff.c` 4469 (and 4244) multiply in 32 bits, so block 2^23 lands on block 0 (theorem
  BlockOnSlot). The model of `file` has it; WriteLands holds for requests that end inside
  the layout (theorem WritesLand).
- `ff.c` 4222 subtracts unsigned numbers, so past the end the result is large instead of
  negative: a read that begins there delivers what lies there instead of nothing
  (StreamFile says so).
- `O_TRUNC` without `O_CREAT` is ignored; a handle opened read-write makes even a read
  extend an empty file to 41 bytes.
- A device error while sector 0 is read for a request at offset 496 or more makes
  `f_crypt_read` answer OK with no bytes (4210-4217), as for a file without a header.
- A truncate frees clusters in the FAT before it writes the smaller size: a power loss
  between the two leaves a size beyond the chain.

Paths:
- A pattern with a leading '/' never matches, because paths are compared without theirs.
- Another case, or the short name, of `.fat_crypt` or of a listed directory is the same
  file in another class.
- A plain file moved under an encrypted path reads as empty and is replaced by the next
  write when it has up to 41 bytes; a longer one answers EIO.

Directories:
- `fff_create` drops the error of `f_close`, so it can answer OK for an entry that is not
  on the device.
- LFN entries left by a registration that was cut short can be taken over by a later
  short name with the same checksum (the names `littered` excludes).
- When the growth of a table is cut short its last cluster keeps what it held before,
  and later entries may come to lie behind an end mark, where nothing finds them (`torn`).
- A rename that is cut short leaves two entries for one chain, as the comment at `ff.c`
  5920 warns; unlinking one frees the chain of the other.
- A rename can be refused with "denied" because the old short name of the file itself
  counts among those taken.

Keys and the volume:
- `src/README.md` 59-64 shows "mount with encryption" without `-e`; a confirmation prompt
  that cannot be read makes keygen store the key without a passphrase.
- `fatcrypt.c` 721 compares the hash with the expected HMAC and not with the signature it
  has read; the function has no caller. HMAC uses `sizeof` of a pointer as the key
  length, so only the first bytes of the master key count (the model has an ideal HMAC).
- A mkdir that cannot be registered loses its cluster if the volume is unmounted right
  away (the case `unlost` excludes from EveryClusterOwned); operations that fail after
  stretching the directory leave the free count of FSInfo too high (the case `drifted`
  excludes from FreeCountExact, while FreeNeverUnderstated says it is never too low).
- `statfs` multiplies in 32 bits and wraps from 2^23 clusters on.

## Theorems

Proved with TLAPS for every value of the constants that meets the named assumptions
(`LayoutAssumption`, `FileAssumption`, `DispatchAssumption`, `KeyAssumption`,
`PathAssumption`, `SectorAssumption`, `AllocAssumption`, `DirAssumption`,
`ShortNamesAssumption`): any number of clusters, blocks, names, threads and requests, any number of failed accesses and power
losses. The bounds of the runs do not enter.

- **CryptLayout_proofs**: `BlockOnSlot` says where the 32-bit product puts block k for
  every header, sector and word size. Its companion lemmas say that the
  last slot reaches past the largest file (`LastSlotTooLong`) and that a run of blocks
  which avoids it lies in consecutive slots (`NoWrapInside`): the blocks of one write
  that are all written never wrap around, which the file proofs need.
- **CryptFile_proofs**:
  - `TypeCorrect`, `ImagesAreSound`, `NoOrphanedBlocks` and `NonceIsKept`, from one
    inductive invariant: types, sound images, no orphaned blocks on clean clusters, and an
    absent file having the empty image. The last part is needed because O_APPEND lets a
    handler create the file it reads or writes. There is one lemma per handler, and below
    them lemmas on growth, header creation and the write loop.
  - `WritesLand` and `FailedWritesHarmless`. A write is taken apart into the image the seek
    leaves and the write loop over it (`Wrote`); the lemmas say which blocks the loop
    changes (`WriteBlocksDo`) and what can be read afterwards (`ContentAfterWrite`). The
    hypothesis `RequestsInLayout` says that every request ends inside the layout. It is
    needed: the blocks behind the layout land on the first ones, and TLC finds WriteLands
    violated as soon as an offset there is added to `file`. In the program that
    is a request beyond block 2^23; the offsets of both runs meet the hypothesis.
  - `BytesAreOwn` needs no such hypothesis. OwnBytesOnly is not inductive: the file must
    also have left no blocks under its nonce in clusters it gave back (`NoLeftovers`), or
    growth could bring them back. A truncate keeps this, because the header it writes has
    a nonce drawn for it: the blocks it gives back are under the old one.
  - `ImplementsStream`: on clean clusters (`~ReuseDirty`) and for requests inside the
    layout, CryptFile implements StreamFile under the refinement mapping of the run. There
    is one lemma per handler, which names the step of StreamFile it is and its answer.
    On reused clusters it does not: an extension can bring back a header.
- **FuseDispatch_proofs**: `MutexHeldInside` and `FatFsNotReentered` for any number of
  threads. WindowStable is not inductive alone; it needs that threads inside a handler
  own the mutex, also after the leak.
- **KeyStore_proofs**: `SuccessYieldsKey`, `OldOrNewKey`, `SessionKeyStays`,
  `SignatureIsFresh`. The invariant follows keygen file by file: what it has written is
  whole and its own, a whole blob holds the previous or the new key, a keygen that has
  opened the configuration has marked the session, and the signature is torn from its
  opening until it is written.
- **PathClass_proofs**: `ClassIsHonoured`, `LastWriteReadsBack` and
  `SealedReadsAreAuthentic`, for every naming, every alias, every list of plain paths and
  any number of requests. None of them is inductive: a read answers from the file, so the
  invariant `Kept` says of every file that its parts are values given to a path of their
  kind and that it shows its last write in the form it was written; `Read` carries the
  last answer. `UnderIsPrefix` shows that the character-wise prefix test with its look at
  the next character is the component-wise one. `TypeCorrect` includes that the
  directories and files form a tree. That every parent exists is not inductive through a
  rename of a directory; that every beginning of a name is a directory (`Rooted`) is, and
  the rename maps names injectively. PathAssumption says that the volume keygen
  leaves is such a tree.
- **FatAlloc_proofs**: `TypeCorrect`, `ClustersNotShared`, `SizesMatch`, `NothingLost`,
  `CountExact`, `CountNotTooLow` and `FullWhenFull`. The chains are recursive functions of
  the FAT; the proofs replace them by paths, lists of clusters each of which holds the
  number of the next, because a path is a fact about finitely many entries. Lemmas say what
  one link, create_chain and remove_chain do to every path, and what the circular search
  and the loop that links clusters answer. The invariant: links lead to
  clusters in use, no cluster has two predecessors or is a start and a successor (`Good`);
  files have as many clusters as their size calls for (`Entries`); every cluster in use
  lies on a chain, but for an unregistered mkdir (`Owned`); and the counts in memory and
  on the device (`Counts`, `OnDisk`): FreeCountExact is about memory only, but an
  unmount leaves just FSInfo and the FAT, and the next mount counts from them.
- **SectorFile_proofs**: `TypeCorrect`, `TearsOneBlock`, `HeaderSurvives`, `GrowthLinked`
  and `AnswersDurable`. The properties are about the device, but what may reach it depends
  on the sector buffer and the window. The invariant is therefore about the sectors in
  effect: the device with the dirty buffer written back, and what the rest of the
  write in progress will still bring out. Moving the buffer leaves them alone, linking a
  cluster changes them behind the end only, and writing a block changes one start and one
  end of a block; it holds at most one block in two states.
- **DirTable_proofs**: `TypeCorrect`, `ObjectsSurvive`, `NoJunkInTable`, `NamesAreDurable`
  and `ObjectsListedOnce`. Three invariants, each resting on the one before, relate two
  tables: the one on the device and the one it holds once the window is
  written back (`Flat`); they differ in the window's sector, or in the length the FAT
  gives the table.
  - No object is lost: a request that has found, made room for, or is removing entries
    knows what it read to be still there (`Found`, `Room`, `Removing`), and what a search
    finds is an SFN entry with nothing but LFN entries between the place it remembers and
    it, so a removal deletes no other object.
  - `NamesInv`, for NamesDurable. That an object is found under its name on the device
    (`Durable`) is not inductive. No other entry may stop the search (`Proper`, `Uniform`)
    and no entry may lie behind the end mark (`Ends`), in both tables, because a write of
    the window takes the one to the other. LFN entries left alone must be those of the
    names in `littered`, or of the name being registered (`Orphans`): the next SFN entry
    with their checksum would take them over. And the request in progress must know that
    the new name is vacant, what it has written of it, and that the old entries go only
    after the new ones are there (`JobNames`). The lemmas on `dir_find` say exactly which
    entries a search stops at (`Hit`).
  - `TidyInv`, for ListedOnce, while nothing has failed: every SFN entry is that of an
    object under its name, or the one the request in progress removes or has written; every
    LFN entry goes on to its SFN entry; no object has two; and nothing waits in the window
    between requests. What `dir_read` answers follows entry by entry.

`ShortNamesAssumption` says that names differing in case alone are numbered alike, and that
two names without a number have the same short name only if they differ in case alone.
The latter depends on the code page: the build uses 932 (`ffconf.h` 87), whose table
`uni2oem932` gives no OEM code twice, and upper case is taken in Unicode, as in the
comparison of long names. It is not so for code pages such as 437, where the short name
also loses accents (`ExCvt`): there one file can be found under the name of another.

tlapm cannot instantiate the induction theorems of its library. Where something is proved
of every length here (chains, searches, lists), it is proved from the set of the numbers
for which it holds, or from the least one for which it fails, and recursive functions are
unfolded at the element where they are needed.

Only model-checked: liveness (AnsweredUnlessLeaked), which tlapm does not prove. Every
other property of a run that holds is stated by a theorem. `WritesLand`,
`FailedWritesHarmless` and `ImplementsStream` have the hypotheses named above.

## Abstractions and what is left out

- Cryptography is ideal; drawing random bytes may fail (EIO).
- Device errors, and a crash in the middle of a handler, are not in CryptFile and
  FatAlloc, but in SectorFile and DirTable; keygen's crashes are between its file
  operations.
- A sector write is atomic; one the device reports as failed leaves the old sector or the
  new one. A cluster is one sector. FSInfo and the second FAT are left out where sectors
  are modelled.
- SectorFile: the file exists and the volume has room; reads of FAT and directory sectors,
  and write-backs of the window inside create_chain, do not fail.
- PathClass: a file is one block and a write begins at offset 0.
- DirTable: one directory, files only, whose clusters hold nothing of interest; times and
  attributes, the flags for all-lower-case short names and the entry sets of exFAT are
  left out. Opening an existing name, and stat, only move the window. What a new cluster
  held is opaque (`Junk`).
- Files left by other systems do not begin with the magic of a header.
- FAT12, FAT16 and FAT32; exFAT's bitmap and its file sizes are not modelled.
  FSInfo, when another system wrote it, is right or says "unknown".
- The read-only attribute of files is not modelled (fatcrypt never sets it).
- One keygen runs at a time and a volume is mounted once.
- A torn key file is a proper prefix of the whole one and is rejected, as json-c and the
  length checks do.
- The table of volumes: a process uses one slot of it.

## Plan

Done: CryptLayout, CryptFile and StreamFile first, because they carry the data; then
dispatch, keys and allocation; then path classes, sector writes and directory entries;
then proofs for all of them. Left:

1. statfs arithmetic as an operator over a small word size, which needs a property beyond
   the multiplication itself to be worth a module.

## Checking

    tlc -workers 2 -config CryptFile.cfg CryptFile
    tlapm CryptFile_proofs.tla

and likewise for the other configurations and proof modules.
