--------------------------- MODULE DirTable_proofs ---------------------------
(***************************************************************************)
(* Theorems about one directory: through failed accesses and power losses  *)
(* at any step no object is lost, every object whose last change answered  *)
(* OK is found under its name on the device, and no entry that a removed   *)
(* file left is read as one of the table; and while nothing has failed,    *)
(* f_readdir lists every object once and under its name.  This is for any  *)
(* names, short names and checksums, any number of entries in a sector and *)
(* of sectors, and any number of requests.                                 *)
(*                                                                         *)
(* The proofs look at two tables: the one on the device (dev) and the one  *)
(* the device holds once the window is written back (Flat).  A search or   *)
(* a move of the window leaves Flat as it is; dir_register and dir_remove  *)
(* change one entry of it at a time, and the device takes the changes of a *)
(* sector together: any state of dev is a state Flat was in.               *)
(***************************************************************************)
EXTENDS DirTable, TLAPS, WellFoundedInduction, SequenceTheorems

\* The table once the window is written back.
Flat == Flushed(dev, win)

\* What the device and the window can hold.
DevT == [ent : [Slots -> Entry], len : 1 .. MaxSectors]
WinT == [sect : 0 .. NoSector, ent : [1 .. PerSector -> Entry], len : 0 .. MaxSectors,
         dirty : BOOLEAN]

\* A clean window shows what the device holds, or the cleared entries of a new
\* sector that the device did not take.
Agrees(d, w) ==
  \A i \in Slots : SectorOf(i) = w.sect =>
    \/ w.ent[Within(i)] = d.ent[i]
    \/ w.ent[Within(i)] = End /\ d.ent[i] = Junk

\* The sectors behind the table hold what they always held.
Untouched(d) == \A i \in Slots : SectorOf(i) > d.len => d.ent[i] = Junk

\* What holds of a device and a window on it.
Window(d, w) ==
  /\ d \in DevT /\ w \in WinT
  /\ Untouched(d)
  /\ w.sect = NoSector => ~w.dirty
  /\ w.sect = FatSector => d.len <= w.len /\ (~w.dirty => w.len = d.len)
  /\ w.sect \notin {FatSector, NoSector} => w.sect <= d.len
  /\ ~w.dirty => Agrees(d, w)

\* The requests, the calls that register a name, and all the calls.
Ops == {"none", "create", "unlink", "rename", "getattr"}
Registering == {"dir_alloc", "dir_next", "dir_clear", "dir_clear_write", "put_lfn", "put_sfn"}
Calls == {"idle", "find", "find_new", "dir_remove", "sync_fs"} \cup Registering

\* What a request keeps, and the shape of the history.
JobT ==
  [op : Ops, name : Names \cup {NoName}, new : Names \cup {NoName}, obj : Objects \cup {0},
   sfn : ShortNames \cup {<<>>}, old : Slots \cup {0}, blk : Slots \cup {0},
   at : 0 .. MaxSectors * PerSector + 1, left : Nat]

HistT(h) ==
  /\ h = [made |-> h.made, alive |-> h.alive, littered |-> h.littered, torn |-> h.torn]
  /\ h.made = [o \in DOMAIN h.made |-> h.made[o]]
  /\ DOMAIN h.made \subseteq h.alive /\ h.alive \subseteq Objects
  /\ h.littered \subseteq Names /\ h.torn \in BOOLEAN

\* Entry i of the table d is that of object o.
Holds(d, i, o) == SectorOf(i) <= d.len /\ d.ent[i].kind = "sfn" /\ d.ent[i].obj = o
\* Some entry of the table d is that of object o.
Has(d, o) == \E i \in Slots : Holds(d, i, o)

\* The entries of the object the request j has found.
Found(d, j) ==
  /\ j.old \in Slots /\ j.blk \in 1 .. j.old
  /\ Holds(d, j.old, j.obj)
  /\ \A i \in Slots : j.blk <= i /\ i < j.old => d.ent[i].kind = "lfn"

\* The entries dir_alloc has found are not those of an object.
Room(d, j) ==
  /\ j.at \in Slots /\ j.at + j.left \in Slots
  /\ \A i \in Slots : j.at <= i /\ i <= j.at + j.left =>
       SectorOf(i) <= d.len /\ d.ent[i].kind \notin {"sfn", "lfn"}

\* What is left of the object that dir_remove is at; a renamed one is elsewhere.
Removing(d, j, alive) ==
  /\ j.old \in Slots /\ j.blk \in 1 .. j.old /\ j.at \in j.blk .. j.old
  /\ Holds(d, j.old, j.obj)
  /\ \A i \in Slots : j.at <= i /\ i < j.old => d.ent[i].kind # "sfn"
  /\ j.op \in {"unlink", "rename"}
  /\ j.op = "unlink" => j.obj \notin alive
  /\ j.op = "rename" => \E i \in Slots : Holds(d, i, j.obj) /\ ~(j.blk <= i /\ i <= j.old)

\* What the request in progress knows of the table when it makes its next call.
JobOK ==
  /\ job \in JobT /\ pc \in Calls
  /\ pc # "idle" => job.name \in Names /\ job.new \in Names /\ job.obj \in Objects /\ job.op # "none"
  /\ pc \in {"find_new"} \cup Registering =>
       \/ pc # "find_new" /\ job.op = "create"
       \/ job.op = "rename" /\ Found(Flat, job)
  /\ pc \in Registering => job.sfn \in ShortNames
  /\ pc \in {"dir_clear", "dir_clear_write"} => win.sect = FatSector
  /\ pc = "dir_clear" => dev.len < win.len
  /\ pc = "dir_clear_write" =>
       ~win.dirty /\ \A i \in Slots : SectorOf(i) = win.len => dev.ent[i] = Junk
  /\ pc \in {"put_lfn", "put_sfn"} => Room(Flat, job)
  /\ pc = "put_lfn" => job.left \in 1 .. LfnCount(job.new)
  /\ pc = "put_sfn" => job.left = 0
  /\ pc = "dir_remove" => Removing(Flat, job, hist.alive)
  /\ pc = "sync_fs" => \/ job.op = "unlink"
                       \/ job.op \in {"create", "rename"} /\ Has(Flat, job.obj)

\* Every object is on the device, and stays there when the window is written back.
Survives == \A o \in hist.alive : Has(dev, o) /\ Has(Flat, o)

\* No entry of the first n sectors is what a removed file left.
CleanTo(d, n) == \A i \in Slots : SectorOf(i) <= n => d.ent[i] # Junk

\* While a new cluster is being linked and cleared, it alone may hold what a removed
\* file left.
Clean ==
  ~hist.torn =>
    IF pc \in {"dir_clear", "dir_clear_write"}
      THEN CleanTo(dev, win.len - 1)
      ELSE CleanTo(Flat, Flat.len) /\ CleanTo(dev, dev.len)

\* The inductive invariant.
IInv ==
  /\ Window(dev, win)
  /\ requests \in 0 .. MaxRequests /\ faults \in 0 .. MaxFaults /\ crashes \in 0 .. MaxCrashes
  /\ HistT(hist)
  /\ JobOK
  /\ Survives
  /\ Clean
-----------------------------------------------------------------------------
(* Numbers.                                                                *)

\* The entries of sector s are those in its PerSector places.
LEMMA SlotFacts ==
  ASSUME NEW i \in Slots
  PROVE  /\ SectorOf(i) \in 1 .. MaxSectors
         /\ Within(i) \in 1 .. PerSector
         /\ i = (SectorOf(i) - 1) * PerSector + Within(i)
<1> DEFINE q == (i - 1) \div PerSector
           r == (i - 1) % PerSector
           start == PerSector * q
           size == MaxSectors * PerSector
<1>1. i \in Nat /\ i - 1 \in Nat /\ PerSector \in Nat \ {0} /\ MaxSectors \in Nat /\ size \in Nat /\ i <= size
  BY DirAssumption DEF Slots
<1>2. q \in Nat /\ r \in 0 .. PerSector - 1 /\ i - 1 = start + r
  BY <1>1
<1> HIDE DEF q, r
<1>3. start \in Nat /\ start = ((1 + q) - 1) * PerSector
  BY <1>1, <1>2
<1>4. q >= MaxSectors => start >= size
  BY <1>1, <1>2
<1> HIDE DEF start, size
<1>5. ~(q >= MaxSectors)
  BY <1>1, <1>2, <1>3, <1>4
<1>6. 1 + q \in 1 .. MaxSectors /\ 1 + r \in 1 .. PerSector /\ i = start + (1 + r)
  BY <1>1, <1>2, <1>3, <1>5
<1>7. QED
  BY <1>3, <1>6 DEF SectorOf, Within, q, r

\* An entry within the first n sectors lies in one of them.
LEMMA SectorBound ==
  ASSUME NEW i \in Slots, NEW n \in Nat, i <= n * PerSector
  PROVE  SectorOf(i) <= n
<1>1. /\ SectorOf(i) \in Nat /\ Within(i) \in 1 .. PerSector
      /\ i = (SectorOf(i) - 1) * PerSector + Within(i)
      /\ PerSector \in Nat \ {0}
  BY SlotFacts, DirAssumption
<1>2. SUFFICES ASSUME SectorOf(i) - 1 >= n PROVE FALSE
  BY <1>1
<1>3. (SectorOf(i) - 1) * PerSector >= n * PerSector
  BY <1>1, <1>2
<1>4. QED
  BY <1>1, <1>3 DEF Slots

\* Two entries in one place of one sector are the same.
LEMMA SamePlace ==
  ASSUME NEW i \in Slots, NEW k \in Slots, SectorOf(i) = SectorOf(k), Within(i) = Within(k)
  PROVE  i = k
BY SlotFacts

\* The tables FatFs reads have at most MaxSectors sectors.
LEMMA TableBound ==
  ASSUME NEW n \in 0 .. MaxSectors
  PROVE  /\ n * PerSector \in 0 .. MaxSectors * PerSector
         /\ MaxSectors * PerSector \in Nat
         /\ MaxSectors <= MaxSectors * PerSector
<1>1. PerSector \in Nat \ {0} /\ MaxSectors \in Nat \ {0} /\ n \in Nat /\ n <= MaxSectors
  BY DirAssumption
<1>2. n * PerSector \in Nat /\ MaxSectors * PerSector \in Nat
  BY <1>1
<1>3. n * PerSector <= MaxSectors * PerSector
  BY <1>1
<1>4. MaxSectors * 1 <= MaxSectors * PerSector
  BY <1>1
<1>5. QED
  BY <1>1, <1>2, <1>3, <1>4

\* Every non-empty set of numbers has a least one, and Least finds it.
LEMMA LeastIs ==
  ASSUME NEW T \in SUBSET Nat, T # {}
  PROVE  Least(T) \in T /\ \A k \in T : Least(T) <= k
<1> DEFINE R == OpToRel(<, Nat)
<1>1. IsWellFoundedOn(R, Nat)
  BY NatLessThanWellFounded
<1>2. \A i, k \in Nat : i < k => <<i, k>> \in R
  BY DEF OpToRel
<1> HIDE DEF R
<1>3. PICK m \in T : \A k \in T : ~ (<<k, m>> \in R)
  BY <1>1, WFMin
<1>4. ASSUME NEW k \in T PROVE m <= k
  <2>1. k \in Nat /\ m \in Nat
    OBVIOUS
  <2>2. ~(k < m)
    BY <1>2, <1>3, <2>1
  <2>3. QED
    BY <2>1, <2>2
<1>5. QED
  BY <1>4 DEF Least
-----------------------------------------------------------------------------
(* Entries and the window.                                                 *)

\* What the entries of a table can be, and who has an object.
LEMMA EntryFacts ==
  /\ End \in Entry /\ Deleted \in Entry /\ Junk \in Entry
  /\ End.kind = "end" /\ Deleted.kind = "deleted" /\ Junk.kind = "junk"
  /\ \A s \in ShortNames, o \in Objects :
       /\ Sfn(s, o) \in Entry /\ Sfn(s, o).kind = "sfn" /\ Sfn(s, o).obj = o
  /\ \A n \in Names, s \in ShortNames : \A k \in DOMAIN Parts[n] :
       Lfn(n, k, Checksum[s]) \in Entry /\ Lfn(n, k, Checksum[s]).kind = "lfn"
  /\ \A e \in Entry : e.kind = "sfn" => e.obj \in Objects
<1>1. /\ End.kind = "end" /\ Deleted.kind = "deleted" /\ Junk.kind = "junk"
  BY DEF End, Deleted, Junk
<1>2. \A s, o : Sfn(s, o).kind = "sfn" /\ Sfn(s, o).obj = o
  BY DEF Sfn
<1>3. \A n, k, s : Lfn(n, k, s).kind = "lfn"
  BY DEF Lfn
<1>4. \A n \in Names, s \in ShortNames : \A k \in DOMAIN Parts[n] : Lfn(n, k, Checksum[s]) \in Entry
  BY DEF Entry
<1>5. ASSUME NEW e \in Entry, e.kind = "sfn" PROVE e.obj \in Objects
  <2>1. CASE e \in {End, Deleted, Junk}
    BY <1>1, <1>5, <2>1
  <2>2. CASE \E s \in ShortNames, o \in Objects : e = Sfn(s, o)
    BY <1>2, <2>2
  <2>3. CASE \E n \in Names : \E k \in DOMAIN Parts[n], s \in ShortNames : e = Lfn(n, k, Checksum[s])
    BY <1>3, <1>5, <2>3
  <2>4. QED
    BY <2>1, <2>2, <2>3 DEF Entry
<1>6. QED
  BY <1>1, <1>2, <1>3, <1>4, <1>5 DEF Entry

\* What sync_window writes: the sector or the link in the window, and that alone.
LEMMA FlushedFacts ==
  ASSUME NEW d, NEW w, Window(d, w)
  PROVE  /\ Flushed(d, w) \in DevT
         /\ ~w.dirty => Flushed(d, w) = d
         /\ Flushed(d, w).len = (IF w.sect = FatSector THEN w.len ELSE d.len)
         /\ d.len <= Flushed(d, w).len
         /\ \A i \in Slots :
              Flushed(d, w).ent[i] = IF w.dirty /\ SectorOf(i) = w.sect THEN w.ent[Within(i)] ELSE d.ent[i]
         /\ Untouched(Flushed(d, w))
<1> DEFINE f == Flushed(d, w)
<1>1. /\ d \in DevT /\ w \in WinT /\ Untouched(d)
      /\ w.sect = NoSector => ~w.dirty
      /\ w.sect = FatSector => d.len <= w.len /\ (~w.dirty => w.len = d.len)
      /\ w.sect \notin {FatSector, NoSector} => w.sect <= d.len
  BY DEF Window
<1>2. /\ d.ent \in [Slots -> Entry] /\ d.len \in 1 .. MaxSectors
      /\ w.sect \in 0 .. NoSector /\ w.ent \in [1 .. PerSector -> Entry] /\ w.len \in 0 .. MaxSectors
      /\ w.dirty \in BOOLEAN
  BY <1>1 DEF DevT, WinT
<1>3. MaxSectors \in Nat \ {0} /\ FatSector = 0 /\ NoSector = MaxSectors + 1
  BY DirAssumption DEF FatSector, NoSector
<1>4. \A i \in Slots : SectorOf(i) \in 1 .. MaxSectors /\ Within(i) \in 1 .. PerSector
  BY SlotFacts
<1>5. CASE ~w.dirty
  <2>1. f = d
    BY <1>5 DEF Flushed
  <2>2. QED
    BY <1>1, <1>2, <1>5, <2>1
<1>6. CASE w.dirty /\ w.sect = FatSector
  <2>1. f = [d EXCEPT !.len = w.len]
    BY <1>6 DEF Flushed
  <2>2. f.len = w.len /\ f.ent = d.ent /\ f \in DevT
    BY <1>1, <1>2, <1>3, <1>6, <2>1 DEF DevT
  <2>3. \A i \in Slots : SectorOf(i) # w.sect
    BY <1>3, <1>4, <1>6
  <2> HIDE DEF f
  <2>4. Untouched(f)
    BY <1>1, <1>2, <1>4, <1>6, <2>2 DEF Untouched
  <2>5. QED
    BY <1>1, <1>6, <2>2, <2>3, <2>4 DEF f
<1>7. CASE w.dirty /\ w.sect # FatSector
  <2> DEFINE g == [i \in Slots |-> IF SectorOf(i) = w.sect THEN w.ent[Within(i)] ELSE d.ent[i]]
  <2>1. f = [d EXCEPT !.ent = g]
    BY <1>7 DEF Flushed
  <2>2. g \in [Slots -> Entry]
    BY <1>2, <1>4
  <2>3. f.len = d.len /\ f.ent = g /\ f \in DevT
    BY <1>1, <1>2, <2>1, <2>2 DEF DevT
  <2>4. w.sect <= d.len
    BY <1>1, <1>7
  <2>5. \A i \in Slots : g[i] = IF SectorOf(i) = w.sect THEN w.ent[Within(i)] ELSE d.ent[i]
    OBVIOUS
  <2> HIDE DEF f, g
  <2>6. Untouched(f)
    BY <1>1, <1>2, <1>4, <2>3, <2>4, <2>5 DEF Untouched
  <2>7. QED
    BY <1>2, <1>7, <2>3, <2>5, <2>6 DEF f
<1>8. QED
  BY <1>2, <1>5, <1>6, <1>7

\* The window when it holds no sector (mount, a failed read).
LEMMA NoWindowOK ==
  ASSUME NEW d \in DevT, Untouched(d)
  PROVE  Window(d, NoWindow) /\ Flushed(d, NoWindow) = d /\ NoWindow.sect = NoSector
<1>1. /\ NoWindow.sect = NoSector /\ NoWindow.dirty = FALSE /\ NoWindow.len = 0
      /\ NoWindow \in WinT
  BY EntryFacts, DirAssumption DEF NoWindow, WinT, NoSector
<1>2. \A i \in Slots : SectorOf(i) # NoSector
  BY SlotFacts, DirAssumption DEF NoSector
<1>3. Agrees(d, NoWindow)
  BY <1>1, <1>2 DEF Agrees
<1>4. NoSector # FatSector
  BY DirAssumption DEF NoSector, FatSector
<1>5. Window(d, NoWindow)
  BY <1>1, <1>3, <1>4 DEF Window
<1>6. QED
  BY <1>1, <1>5 DEF Flushed

\* A clean window whose fields are set one by one (Loaded).
Clear(s, n, g) == [NoWindow EXCEPT !.sect = s, !.len = n, !.ent = g]

\* It has them.
LEMMA WindowSet ==
  ASSUME NEW s \in 0 .. NoSector, NEW n \in 0 .. MaxSectors, NEW g \in [1 .. PerSector -> Entry]
  PROVE  LET w == Clear(s, n, g)
         IN  w \in WinT /\ w.sect = s /\ w.len = n /\ w.ent = g /\ ~w.dirty
<1> DEFINE r1 == [NoWindow EXCEPT !.sect = s]
           r2 == [r1 EXCEPT !.len = n]
           r3 == [r2 EXCEPT !.ent = g]
<1>1. NoWindow \in WinT /\ ~NoWindow.dirty
  BY EntryFacts, DirAssumption DEF NoWindow, WinT, NoSector
<1>2. r1 \in WinT /\ r1.sect = s /\ r1.dirty = NoWindow.dirty
  BY <1>1 DEF WinT
<1> HIDE DEF r1
<1>3. r2 \in WinT /\ r2.sect = s /\ r2.len = n /\ r2.dirty = r1.dirty
  BY <1>2 DEF WinT
<1> HIDE DEF r2
<1>4. r3 \in WinT /\ r3.sect = s /\ r3.len = n /\ r3.ent = g /\ r3.dirty = r2.dirty
  BY <1>3 DEF WinT
<1>5. r3 = Clear(s, n, g)
  BY DEF r1, r2, Clear
<1> HIDE DEF r3
<1>6. QED
  BY <1>1, <1>2, <1>3, <1>4, <1>5

\* The window after move_window has read a sector of the table, or of the FAT.
LEMMA LoadedOK ==
  ASSUME NEW d \in DevT, Untouched(d), NEW b \in 0 .. MaxSectors, b <= d.len
  PROVE  LET w == Loaded(d, b) IN
         /\ Window(d, w) /\ w.sect = b /\ ~w.dirty /\ Flushed(d, w) = d
<1> DEFINE w == Loaded(d, b)
<1>1. d.ent \in [Slots -> Entry] /\ d.len \in 1 .. MaxSectors
  BY DEF DevT
<1>2. NoWindow.ent \in [1 .. PerSector -> Entry]
  BY EntryFacts DEF NoWindow
<1>3. MaxSectors \in Nat \ {0} /\ FatSector = 0 /\ NoSector = MaxSectors + 1
  BY DirAssumption DEF FatSector, NoSector
<1>4. CASE b = FatSector
  <2>1. w = Clear(b, d.len, NoWindow.ent)
    BY <1>4 DEF Loaded, Clear
  <2>2. w \in WinT /\ w.sect = b /\ w.len = d.len /\ ~w.dirty
    <3>1. b \in 0 .. NoSector /\ d.len \in 0 .. MaxSectors
      BY <1>1, <1>3
    <3> HIDE DEF w
    <3>2. QED
      BY <1>2, <2>1, <3>1, WindowSet
  <2>3. \A i \in Slots : SectorOf(i) # b
    BY <1>3, <1>4, SlotFacts
  <2> HIDE DEF w
  <2>4. Agrees(d, w)
    BY <2>2, <2>3 DEF Agrees
  <2>5. Window(d, w)
    BY <1>1, <1>3, <1>4, <2>2, <2>4 DEF Window
  <2>6. QED
    BY <2>2, <2>5 DEF Flushed, w
<1>5. CASE b # FatSector
  <2> DEFINE g == [j \in 1 .. PerSector |-> d.ent[(b - 1) * PerSector + j]]
  <2>1. w = Clear(b, 0, g)
    BY <1>5 DEF Loaded, Clear
  <2>2. \A j \in 1 .. PerSector : (b - 1) * PerSector + j \in Slots
    <3>1. b \in 1 .. MaxSectors /\ PerSector \in Nat \ {0}
      BY <1>3, <1>5, DirAssumption
    <3> DEFINE start == (b - 1) * PerSector
               size == MaxSectors * PerSector
    <3>2. start \in Nat /\ size \in Nat
      BY <1>3, <3>1
    <3>3. b * PerSector <= size /\ b * PerSector = start + PerSector
      BY <1>3, <3>1
    <3> HIDE DEF start, size
    <3>4. start + PerSector <= size
      BY <3>3
    <3>5. \A j \in 1 .. PerSector : start + j \in 1 .. size
      BY <3>1, <3>2, <3>4
    <3>6. QED
      BY <3>5 DEF start, size, Slots
  <2>3. g \in [1 .. PerSector -> Entry]
    BY <1>1, <2>2
  <2>4. w \in WinT /\ w.sect = b /\ w.len = 0 /\ w.ent = g /\ ~w.dirty
    <3>1. b \in 0 .. NoSector /\ 0 \in 0 .. MaxSectors
      BY <1>1, <1>3
    <3> HIDE DEF w, g
    <3>2. QED
      BY <2>1, <2>3, <3>1, WindowSet
  <2>5. \A i \in Slots : SectorOf(i) = b => g[Within(i)] = d.ent[i]
    BY SlotFacts
  <2> HIDE DEF w, g
  <2>6. Agrees(d, w)
    BY <2>4, <2>5 DEF Agrees
  <2>7. Window(d, w)
    BY <1>1, <1>3, <1>5, <2>4, <2>6 DEF Window
  <2>8. QED
    BY <2>4, <2>7 DEF Flushed, w
<1>6. QED
  BY <1>4, <1>5

\* A write of the window that fails leaves the old sector or the new one.
LEMMA StillDirty ==
  ASSUME NEW d, NEW w, Window(d, w), w.dirty
  PROVE  LET f == Flushed(d, w) IN Window(f, w) /\ Flushed(f, w) = f
<1> DEFINE f == Flushed(d, w)
<1>1. /\ f \in DevT /\ d.len <= f.len /\ Untouched(f)
      /\ f.len = (IF w.sect = FatSector THEN w.len ELSE d.len)
      /\ \A i \in Slots : f.ent[i] = IF SectorOf(i) = w.sect THEN w.ent[Within(i)] ELSE d.ent[i]
  BY FlushedFacts
<1>2. d \in DevT /\ w \in WinT
  BY DEF Window
<1> HIDE DEF f
<1>3. f.ent \in [Slots -> Entry] /\ f.len \in 1 .. MaxSectors /\ f = [ent |-> f.ent, len |-> f.len]
  BY <1>1 DEF DevT
<1>4. w.sect = FatSector => f.len <= w.len
  BY <1>1, <1>2, <1>3
<1>5. Window(f, w)
  BY <1>1, <1>2, <1>3, <1>4 DEF Window
<1>6. ASSUME w.sect = FatSector PROVE Flushed(f, w) = f
  <2>1. Flushed(f, w) = [f EXCEPT !.len = w.len]
    BY <1>6 DEF Flushed
  <2>2. QED
    BY <1>1, <1>3, <1>6, <2>1
<1>7. ASSUME w.sect # FatSector PROVE Flushed(f, w) = f
  <2> DEFINE g == [i \in Slots |-> IF SectorOf(i) = w.sect THEN w.ent[Within(i)] ELSE f.ent[i]]
  <2>1. Flushed(f, w) = [f EXCEPT !.ent = g]
    BY <1>7 DEF Flushed
  <2>2. \A i \in Slots : g[i] = f.ent[i]
    BY <1>1
  <2>3. g = f.ent
    BY <1>3, <2>2
  <2>4. QED
    BY <1>3, <2>1, <2>3
<1>8. QED
  BY <1>5, <1>6, <1>7 DEF f

\* sync_window when it succeeds: the sector stays in the window.
LEMMA SyncOK ==
  ASSUME NEW d, NEW w, Window(d, w)
  PROVE  LET f == Flushed(d, w)
             v == [w EXCEPT !.dirty = FALSE]
         IN  Window(f, v) /\ Flushed(f, v) = f /\ v.sect = w.sect /\ v.len = w.len /\ v.dirty = FALSE
<1> DEFINE f == Flushed(d, w)
           v == [w EXCEPT !.dirty = FALSE]
<1>1. /\ f \in DevT /\ d.len <= f.len /\ Untouched(f)
      /\ ~w.dirty => f = d
      /\ f.len = (IF w.sect = FatSector THEN w.len ELSE d.len)
      /\ \A i \in Slots :
           f.ent[i] = IF w.dirty /\ SectorOf(i) = w.sect THEN w.ent[Within(i)] ELSE d.ent[i]
  BY FlushedFacts
<1>2. d \in DevT /\ w \in WinT /\ (~w.dirty => Agrees(d, w))
      /\ (w.sect \notin {FatSector, NoSector} => w.sect <= d.len)
  BY DEF Window
<1>3. v.sect = w.sect /\ v.len = w.len /\ v.dirty = FALSE /\ v.ent = w.ent /\ v \in WinT
  BY <1>2 DEF WinT
<1> HIDE DEF f, v
<1>4. f.len \in 1 .. MaxSectors
  BY <1>1 DEF DevT
<1>5. w.sect = FatSector => f.len <= w.len /\ w.len = f.len
  BY <1>1, <1>4
<1>6. w.sect \notin {FatSector, NoSector} => w.sect <= f.len
  BY <1>1, <1>2
<1>7. w.dirty \in BOOLEAN
  BY <1>2 DEF WinT
<1>8. Agrees(f, v)
  BY <1>1, <1>2, <1>3, <1>7 DEF Agrees
<1>9. Window(f, v)
  BY <1>1, <1>3, <1>5, <1>6, <1>8 DEF Window
<1>10. QED
  BY <1>3, <1>9 DEF f, v, Flushed

\* What an access to the device has done: the window is sound, and what it showed
\* is not lost.
Sound(d, w, o) ==
  /\ Window(o.dev, o.win)
  /\ Flushed(o.dev, o.win) = Flushed(d, w)
  /\ o.dev \in {d, Flushed(d, w)}
  /\ o.dev.len \in {d.len, Flushed(d, w).len}
  /\ o.ok => ~o.fault

\* sync_window when it fails: the window stays as it is.
LEMMA FlushFailsOK ==
  ASSUME Window(dev, win), NEW o \in FlushFails
  PROVE  Sound(dev, win, o) /\ ~o.ok /\ o.win = win
<1>1. win.dirty /\ o \in {Outcome(FALSE, TRUE, d, win) : d \in {dev, Flushed(dev, win)}}
  BY DEF FlushFails
<1>2. PICK d \in {dev, Flushed(dev, win)} : o = Outcome(FALSE, TRUE, d, win)
  BY <1>1
<1>3. o.dev = d /\ o.win = win /\ ~o.ok
  BY <1>2 DEF Outcome
<1>4. Window(Flat, win) /\ Flushed(Flat, win) = Flat
  BY <1>1, StillDirty DEF Flat
<1>5. CASE d = dev
  BY <1>3, <1>5 DEF Sound
<1>6. CASE d = Flushed(dev, win)
  BY <1>3, <1>4, <1>6 DEF Sound, Flat
<1>7. QED
  BY <1>2, <1>5, <1>6

\* move_window: the sector that was in the window is written back first.
LEMMA MoveOK ==
  ASSUME Window(dev, win), NEW a, NEW b \in 0 .. MaxSectors, b <= Flat.len, NEW o \in Move(a, b)
  PROVE  /\ Sound(dev, win, o)
         /\ o.ok => /\ o.win.sect = b
                    /\ b # FatSector => o.dev.len = Flat.len
                    /\ b = FatSector => o.win.len = Flat.len
<1> DEFINE d == Flushed(dev, win)
<1>1. /\ d \in DevT /\ Untouched(d) /\ d = Flat
      /\ Flat.len = (IF win.sect = FatSector THEN win.len ELSE dev.len)
  BY FlushedFacts DEF Flat
<1>2. CASE win.sect = a /\ a = b
  <2>1. o = Outcome(TRUE, FALSE, dev, win)
    BY <1>2 DEF Move
  <2>2. o.dev = dev /\ o.win = win /\ ~o.fault
    BY <2>1 DEF Outcome
  <2>3. QED
    BY <1>1, <1>2, <2>2 DEF Sound
<1>3. CASE ~(win.sect = a /\ a = b)
  <2>1. \/ o = Outcome(TRUE, FALSE, d, Loaded(d, b))
        \/ o = Outcome(FALSE, TRUE, d, NoWindow)
        \/ o \in FlushFails
    BY <1>3 DEF Move
  <2> HIDE DEF d
  <2>2. CASE o = Outcome(TRUE, FALSE, d, Loaded(d, b))
    <3>1. o.dev = d /\ o.win = Loaded(d, b) /\ ~o.fault
      BY <2>2 DEF Outcome
    <3>2. Window(d, o.win) /\ o.win.sect = b /\ Flushed(d, o.win) = d /\ ~o.win.dirty
      BY <1>1, <3>1, LoadedOK
    <3>3. b = FatSector => o.win.len = d.len
      BY <3>2 DEF Window
    <3>4. QED
      BY <1>1, <3>1, <3>2, <3>3 DEF Sound, Flat
  <2>3. CASE o = Outcome(FALSE, TRUE, d, NoWindow)
    <3>1. o.dev = d /\ o.win = NoWindow /\ ~o.ok
      BY <2>3 DEF Outcome
    <3>2. QED
      BY <1>1, <3>1, NoWindowOK DEF Sound, Flat
  <2>4. CASE o \in FlushFails
    BY <2>4, FlushFailsOK
  <2>5. QED
    BY <2>1, <2>2, <2>3, <2>4
<1>4. QED
  BY <1>2, <1>3

\* sync_fs and the write of the link in dir_clear.
LEMMA SyncMoves ==
  ASSUME Window(dev, win), NEW o \in {Synced} \cup FlushFails
  PROVE  /\ Sound(dev, win, o)
         /\ o.win.sect = win.sect /\ o.win.len = win.len
         /\ o.ok => o.dev = Flat /\ ~o.win.dirty
<1>1. CASE o = Synced
  <2>1. /\ o.dev = Flushed(dev, win) /\ o.win = [win EXCEPT !.dirty = FALSE]
        /\ ~o.fault
    BY <1>1 DEF Synced, Outcome
  <2>2. QED
    BY <2>1, SyncOK DEF Sound, Flat
<1>2. CASE o \in FlushFails
  BY <1>2, FlushFailsOK
<1>3. QED
  BY <1>1, <1>2

\* Entry i of the table f becomes e in g; a cleared sector that the device did
\* not take comes along when its first entry is written.
Put(f, g, i, e) ==
  /\ g.len = f.len
  /\ g.ent[i] = e
  /\ \A k \in Slots : k # i => \/ g.ent[k] = f.ent[k]
                               \/ g.ent[k] = End /\ f.ent[k] = Junk

\* An entry is changed in the window (dir_register, dir_remove).
LEMMA WriteOK ==
  ASSUME NEW d, NEW w, Window(d, w), NEW i \in Slots, SectorOf(i) = w.sect, NEW e \in Entry
  PROVE  LET v == Write(w, i, e)
         IN  /\ Window(d, v)
             /\ Put(Flushed(d, w), Flushed(d, v), i, e)
             /\ Flushed(d, v).len = d.len /\ v.sect = w.sect
<1> DEFINE v == Write(w, i, e)
<1>1. d \in DevT /\ w \in WinT /\ Untouched(d) /\ (~w.dirty => Agrees(d, w))
      /\ (w.sect \notin {FatSector, NoSector} => w.sect <= d.len)
  BY DEF Window
<1>2. w.sect \notin {FatSector, NoSector} /\ w.sect \in 1 .. MaxSectors /\ Within(i) \in 1 .. PerSector
  BY SlotFacts, DirAssumption DEF FatSector, NoSector
<1>3. /\ v \in WinT /\ v.sect = w.sect /\ v.dirty /\ v.len = w.len
      /\ v.ent = [w.ent EXCEPT ![Within(i)] = e]
  <2> DEFINE g == [w.ent EXCEPT ![Within(i)] = e]
             r1 == [w EXCEPT !.ent = g]
             r2 == [r1 EXCEPT !.dirty = TRUE]
  <2>1. w.ent \in [1 .. PerSector -> Entry]
    BY <1>1 DEF WinT
  <2>2. g \in [1 .. PerSector -> Entry]
    BY <1>2, <2>1
  <2> HIDE DEF g
  <2>3. r1 \in WinT /\ r1.sect = w.sect /\ r1.len = w.len /\ r1.ent = g
    BY <1>1, <2>2 DEF WinT
  <2> HIDE DEF r1
  <2>4. r2 \in WinT /\ r2.sect = r1.sect /\ r2.len = r1.len /\ r2.ent = r1.ent /\ r2.dirty
    BY <2>3 DEF WinT
  <2>5. v = r2
    BY DEF Write, r1, g
  <2> HIDE DEF r2, v
  <2>6. QED
    BY <2>3, <2>4, <2>5 DEF g
<1>4. w.ent \in [1 .. PerSector -> Entry] /\ w.dirty \in BOOLEAN
  BY <1>1 DEF WinT
<1> HIDE DEF v
<1>5. Window(d, v)
  BY <1>1, <1>2, <1>3 DEF Window
<1>6. /\ Flushed(d, w).len = d.len /\ Flushed(d, v).len = d.len
      /\ \A k \in Slots : Flushed(d, v).ent[k] = IF SectorOf(k) = w.sect THEN v.ent[Within(k)] ELSE d.ent[k]
      /\ \A k \in Slots :
           Flushed(d, w).ent[k] = IF w.dirty /\ SectorOf(k) = w.sect THEN w.ent[Within(k)] ELSE d.ent[k]
  <2>1. /\ Flushed(d, w).len = d.len
        /\ \A k \in Slots :
             Flushed(d, w).ent[k] = IF w.dirty /\ SectorOf(k) = w.sect THEN w.ent[Within(k)] ELSE d.ent[k]
    BY <1>2, FlushedFacts
  <2>2. /\ Flushed(d, v).len = d.len
        /\ \A k \in Slots : Flushed(d, v).ent[k] = IF SectorOf(k) = w.sect THEN v.ent[Within(k)] ELSE d.ent[k]
    <3>1. /\ Flushed(d, v).len = (IF v.sect = FatSector THEN v.len ELSE d.len)
          /\ \A k \in Slots :
               Flushed(d, v).ent[k] = IF v.dirty /\ SectorOf(k) = v.sect THEN v.ent[Within(k)] ELSE d.ent[k]
      BY <1>5, FlushedFacts
    <3>2. QED
      BY <1>2, <1>3, <3>1
  <2>3. QED
    BY <2>1, <2>2
<1>7. Flushed(d, v).ent[i] = e
  BY <1>2, <1>3, <1>4, <1>6
<1>8. ASSUME NEW k \in Slots, k # i
      PROVE  \/ Flushed(d, v).ent[k] = Flushed(d, w).ent[k]
             \/ Flushed(d, v).ent[k] = End /\ Flushed(d, w).ent[k] = Junk
  <2>1. CASE SectorOf(k) = w.sect
    <3>1. Within(k) # Within(i) /\ Within(k) \in 1 .. PerSector
      BY <1>8, <2>1, SamePlace, SlotFacts
    <3>2. Flushed(d, v).ent[k] = w.ent[Within(k)]
      BY <1>3, <1>4, <1>6, <2>1, <3>1
    <3>3. \/ w.ent[Within(k)] = Flushed(d, w).ent[k]
          \/ w.ent[Within(k)] = End /\ Flushed(d, w).ent[k] = Junk
      BY <1>1, <1>4, <1>6, <2>1 DEF Agrees
    <3>4. QED
      BY <3>2, <3>3
  <2>2. CASE SectorOf(k) # w.sect
    BY <1>6, <2>2
  <2>3. QED
    BY <2>1, <2>2
<1>9. QED
  BY <1>3, <1>5, <1>6, <1>7, <1>8 DEF Put, v
-----------------------------------------------------------------------------
(* Searches.                                                               *)

\* What a search keeps.
Sums == {Checksum[s] : s \in ShortNames} \cup {NoOrd}
ScanT == [stop : BOOLEAN, slot : Nat, at : Nat, ord : Int, sum : Sums, blk : Nat]

\* An object whose SFN entry is at slot; blk is the first of its LFN entries, or 0.
FoundAt(t, slot, blk) ==
  /\ t[slot].kind = "sfn"
  /\ blk \in 0 .. slot - 1
  /\ blk # 0 => \A k \in blk .. slot - 1 : t[k].kind = "lfn"

\* The search after i entries.
ScanOK(t, st, i) ==
  /\ st \in ScanT
  /\ ~st.stop => /\ st.slot = 0 /\ st.at = i /\ st.blk \in 0 .. i
                 /\ st.blk # 0 => \A k \in st.blk .. i : t[k].kind = "lfn"
  /\ st.stop => /\ st.at \in 1 .. i /\ st.slot \in {0, st.at}
                /\ st.slot # 0 => FoundAt(t, st.slot, st.blk)

\* An LFN entry has a number and a sum.
LEMMA LfnFacts ==
  ASSUME NEW e \in Entry, e.kind = "lfn"
  PROVE  e.ord \in Int /\ e.sum \in Sums
<1>1. PICK n \in Names, s \in ShortNames : \E k \in DOMAIN Parts[n] : e = Lfn(n, k, Checksum[s])
  BY EntryFacts DEF Entry, Sfn
<1>2. PICK k \in DOMAIN Parts[n] : e = Lfn(n, k, Checksum[s])
  BY <1>1
<1>3. e.ord = k /\ e.sum = Checksum[s]
  BY <1>2 DEF Lfn
<1>4. Parts[n] \in Seq(DOMAIN Upper)
  BY DirAssumption
<1>5. k \in Int
  BY <1>4
<1>6. QED
  BY <1>3, <1>5 DEF Sums

\* An LFN entry either begins a name or goes on with the one that began.
LEMMA FollowsFacts ==
  ASSUME NEW st \in ScanT, NEW i \in Nat, NEW e \in Entry, e.kind = "lfn", NEW good
  PROVE  LET s == FollowsLfn(st, i, e, good)
         IN  /\ s \in ScanT /\ s.stop = st.stop /\ s.slot = st.slot /\ s.at = st.at
             /\ s.blk \in {st.blk, i}
<1>1. e.ord \in Int /\ e.sum \in Sums
  BY LfnFacts
<1> DEFINE s1 == [st EXCEPT !.sum = e.sum]
           s2 == [s1 EXCEPT !.ord = e.ord]
           s3 == [s2 EXCEPT !.blk = i]
           s == IF e.last THEN s3 ELSE st
           n == IF e.ord = s.ord /\ e.sum = s.sum /\ good THEN s.ord - 1 ELSE NoOrd
           r == [s EXCEPT !.ord = n]
<1>2. s1 \in ScanT /\ s1.stop = st.stop /\ s1.slot = st.slot /\ s1.at = st.at /\ s1.blk = st.blk
  BY <1>1 DEF ScanT
<1>3. s2 \in ScanT /\ s2.stop = s1.stop /\ s2.slot = s1.slot /\ s2.at = s1.at /\ s2.blk = s1.blk
  <2> HIDE DEF s1
  <2>1. QED
    BY <1>1, <1>2 DEF ScanT
<1>4. s3 \in ScanT /\ s3.stop = s2.stop /\ s3.slot = s2.slot /\ s3.at = s2.at /\ s3.blk = i
  <2> HIDE DEF s2
  <2>1. QED
    BY <1>3 DEF ScanT
<1>5. s \in ScanT /\ s.stop = st.stop /\ s.slot = st.slot /\ s.at = st.at /\ s.blk \in {st.blk, i}
  <2> HIDE DEF s1, s2, s3
  <2>1. QED
    BY <1>2, <1>3, <1>4
<1>6. r = FollowsLfn(st, i, e, good)
  BY DEF FollowsLfn
<1> HIDE DEF s
<1>7. n \in Int
  BY <1>5 DEF ScanT, NoOrd
<1> HIDE DEF n
<1>8. r \in ScanT /\ r.stop = s.stop /\ r.slot = s.slot /\ r.at = s.at /\ r.blk = s.blk
  BY <1>5, <1>7 DEF ScanT
<1> HIDE DEF r
<1>9. QED
  BY <1>5, <1>6, <1>8

\* One entry of the search.
ScanRound(t, g, p, i) ==
  IF p.stop THEN p ELSE Looked([p EXCEPT !.at = i], i, t[i], g)

\* One entry more keeps what is known of a search.
LEMMA RoundOK ==
  ASSUME NEW t \in [Slots -> Entry], NEW g, NEW i \in Slots, NEW p, ScanOK(t, p, i - 1)
  PROVE  ScanOK(t, ScanRound(t, g, p, i), i)
<1> DEFINE st == [p EXCEPT !.at = i]
           e == t[i]
           r == ScanRound(t, g, p, i)
<1>1. i \in Nat \ {0} /\ e \in Entry
  BY DEF Slots
<1>2. p \in ScanT /\ p.blk \in Nat /\ p.at \in Nat
  BY DEF ScanOK, ScanT
<1>3. CASE p.stop
  BY <1>1, <1>2, <1>3 DEF ScanOK, ScanRound
<1>4. CASE ~p.stop
  <2>1. /\ st \in ScanT /\ ~st.stop /\ st.slot = 0 /\ st.at = i /\ st.blk = p.blk /\ st.blk \in 0 .. i - 1
        /\ st.blk # 0 => \A k \in st.blk .. i - 1 : t[k].kind = "lfn"
    <3>1. /\ p.slot = 0 /\ p.blk \in 0 .. i - 1
          /\ p.blk # 0 => \A k \in p.blk .. i - 1 : t[k].kind = "lfn"
      BY <1>4 DEF ScanOK
    <3>2. st \in ScanT /\ st.stop = p.stop /\ st.slot = p.slot /\ st.at = i /\ st.blk = p.blk
      BY <1>1, <1>2 DEF ScanT
    <3> HIDE DEF st
    <3>3. QED
      BY <1>4, <3>1, <3>2
  <2>2. r = Looked(st, i, e, g)
    BY <1>4 DEF ScanRound
  <2> HIDE DEF st, e, r
  <2>3. CASE e.kind = "end"
    <3> DEFINE s1 == [st EXCEPT !.stop = TRUE]
               s2 == [s1 EXCEPT !.at = i]
    <3>1. r = s2
      BY <2>2, <2>3 DEF Looked
    <3>2. s1 \in ScanT /\ s1.stop /\ s1.slot = st.slot
      BY <2>1 DEF ScanT
    <3> HIDE DEF s1
    <3>3. s2 \in ScanT /\ s2.stop = s1.stop /\ s2.slot = s1.slot /\ s2.at = i
      BY <1>1, <3>2 DEF ScanT
    <3> HIDE DEF s2
    <3>4. ScanOK(t, r, i)
      BY <1>1, <2>1, <3>1, <3>2, <3>3 DEF ScanOK
    <3>5. QED
      BY <3>4 DEF r
  <2>4. CASE e.kind = "lfn"
    <3>1. r \in ScanT /\ r.stop = st.stop /\ r.slot = st.slot /\ r.at = st.at /\ r.blk \in {st.blk, i}
      <4>1. CASE g.lfn
        <5>1. r = FollowsLfn(st, i, e, Matches(e, g.parts))
          BY <2>2, <2>4, <4>1 DEF Looked
        <5>2. QED
          BY <1>1, <2>1, <2>4, <5>1, FollowsFacts DEF e
      <4>2. CASE ~g.lfn
        <5>1. r = st
          BY <2>2, <2>4, <4>2 DEF Looked
        <5>2. QED
          BY <2>1, <5>1
      <4>3. QED
        BY <4>1, <4>2
    <3>2. r.blk # 0 => \A k \in r.blk .. i : t[k].kind = "lfn"
      <4>1. SUFFICES ASSUME r.blk # 0, NEW k \in r.blk .. i PROVE t[k].kind = "lfn"
        OBVIOUS
      <4>2. CASE k = i
        BY <2>4, <4>2 DEF e
      <4>3. CASE k # i
        BY <1>1, <2>1, <3>1, <4>1, <4>3
      <4>4. QED
        BY <4>2, <4>3
    <3>3. ScanOK(t, r, i)
      BY <1>1, <2>1, <3>1, <3>2 DEF ScanOK
    <3>4. QED
      BY <3>3 DEF r
  <2>5. CASE e.kind = "sfn" /\ (TiedTo(st, e) \/ e.sfn \in g.sfns)
    <3> DEFINE s1 == [st EXCEPT !.stop = TRUE]
               s2 == [s1 EXCEPT !.slot = i]
               s3 == [s2 EXCEPT !.at = i]
    <3>1. r = s3
      BY <2>2, <2>5 DEF Looked
    <3>2. s1 \in ScanT /\ s1.stop /\ s1.blk = st.blk
      BY <2>1 DEF ScanT
    <3> HIDE DEF s1
    <3>3. s2 \in ScanT /\ s2.stop = s1.stop /\ s2.slot = i /\ s2.blk = s1.blk
      BY <1>1, <3>2 DEF ScanT
    <3> HIDE DEF s2
    <3>4. s3 \in ScanT /\ s3.stop = s2.stop /\ s3.slot = s2.slot /\ s3.at = i /\ s3.blk = s2.blk
      BY <1>1, <3>3 DEF ScanT
    <3> HIDE DEF s3
    <3>5. FoundAt(t, i, st.blk)
      BY <2>1, <2>5 DEF FoundAt, e
    <3>6. r \in ScanT /\ r.stop /\ r.slot = i /\ r.at = i /\ r.blk = st.blk
      BY <3>1, <3>2, <3>3, <3>4
    <3>7. ScanOK(t, r, i)
      BY <1>1, <3>5, <3>6 DEF ScanOK
    <3>8. QED
      BY <3>7 DEF r
  <2>6. CASE e.kind \notin {"end", "lfn"} /\ ~(e.kind = "sfn" /\ (TiedTo(st, e) \/ e.sfn \in g.sfns))
    <3> DEFINE s1 == [st EXCEPT !.ord = NoOrd]
               s2 == [s1 EXCEPT !.blk = 0]
    <3>1. r = s2
      BY <2>2, <2>6 DEF Looked, Skips
    <3>2. s1 \in ScanT /\ s1.stop = st.stop /\ s1.slot = st.slot /\ s1.at = st.at
      BY <2>1 DEF ScanT, NoOrd
    <3> HIDE DEF s1
    <3>3. s2 \in ScanT /\ s2.stop = s1.stop /\ s2.slot = s1.slot /\ s2.at = s1.at /\ s2.blk = 0
      BY <3>2 DEF ScanT
    <3> HIDE DEF s2
    <3>4. ScanOK(t, r, i)
      BY <1>1, <2>1, <3>1, <3>2, <3>3 DEF ScanOK
    <3>5. QED
      BY <3>4 DEF r
  <2>7. QED
    BY <2>3, <2>4, <2>5, <2>6
<1>5. QED
  BY <1>3, <1>4

\* Induction over the members of a set.
LEMMA Induction ==
  ASSUME NEW S \in SUBSET Nat, 0 \in S, \A n \in S : n + 1 \in S
  PROVE  S = Nat
<1>1. SUFFICES ASSUME Nat \ S # {} PROVE FALSE
  OBVIOUS
<1>2. PICK m \in Nat \ S : \A k \in Nat \ S : m <= k
  BY <1>1, LeastIs
<1>3. m # 0 /\ m - 1 \in Nat /\ ~(m <= m - 1) /\ (m - 1) + 1 = m
  BY <1>2
<1>4. QED
  BY <1>2, <1>3

\* scan is the search for g in the first len entries, entry by entry.
IsScan(scan, t, len, g) ==
  /\ scan[0] = Scanning
  /\ \A i \in 1 .. len : scan[i] = ScanRound(t, g, scan[i - 1], i)

\* dir_find looks at the entries one by one.
LEMMA FindDef ==
  ASSUME NEW t, NEW len \in Nat, NEW g
  PROVE  \E scan : IsScan(scan, t, len, g) /\ dir_find(t, len, g) = scan[len]
<1> DEFINE G(h, n) == h = [i \in 0 .. n |-> IF i = 0 THEN Scanning ELSE ScanRound(t, g, h[i - 1], i)]
           S == {n \in Nat : \E h : G(h, n)}
<1>1. 0 \in S
  <2> DEFINE h == [i \in 0 .. 0 |-> Scanning]
  <2>1. G(h, 0)
    OBVIOUS
  <2>2. QED
    BY <2>1
<1>2. ASSUME NEW n \in S PROVE n + 1 \in S
  <2>1. PICK f : G(f, n)
    OBVIOUS
  <2>2. n \in Nat /\ n + 1 \in Nat
    OBVIOUS
  <2> DEFINE h == [i \in 0 .. n + 1 |-> IF i = n + 1 THEN ScanRound(t, g, f[n], n + 1) ELSE f[i]]
  <2>3. \A i \in 0 .. n : h[i] = f[i]
    BY <2>2
  <2>4. h[n + 1] = ScanRound(t, g, f[n], n + 1)
    BY <2>2
  <2>5. h = [i \in 0 .. n + 1 |-> h[i]]
    OBVIOUS
  <2>6. \A i \in 0 .. n : f[i] = IF i = 0 THEN Scanning ELSE ScanRound(t, g, f[i - 1], i)
    BY <2>1
  <2>7. \A i \in 0 .. n : i # 0 => i - 1 \in 0 .. n
    BY <2>2
  <2>8. \A i \in 0 .. n + 1 : i \in 0 .. n \/ (i = n + 1 /\ i # 0 /\ i - 1 = n /\ n \in 0 .. n)
    BY <2>2
  <2> HIDE DEF h
  <2>9. \A i \in 0 .. n + 1 : h[i] = IF i = 0 THEN Scanning ELSE ScanRound(t, g, h[i - 1], i)
    BY <2>3, <2>4, <2>6, <2>7, <2>8
  <2>10. G(h, n + 1)
    BY <2>5, <2>9
  <2> HIDE DEF G
  <2>11. QED
    BY <2>2, <2>10
<1>3. S = Nat
  <2> HIDE DEF S
  <2> QED
    BY <1>1, <1>2, Induction DEF S
<1>4. \E h : G(h, len)
  BY <1>3
<1>5. PICK scan : /\ scan = [i \in 0 .. len |-> IF i = 0 THEN Scanning ELSE ScanRound(t, g, scan[i - 1], i)]
                  /\ dir_find(t, len, g) = scan[len]
  BY <1>4 DEF dir_find, ScanRound
<1>6. 0 \in 0 .. len /\ \A i \in 1 .. len : i \in 0 .. len /\ i # 0
  OBVIOUS
<1>7. scan[0] = Scanning /\ \A i \in 1 .. len : scan[i] = ScanRound(t, g, scan[i - 1], i)
  BY <1>5, <1>6
<1>8. QED
  BY <1>5, <1>7 DEF IsScan

\* The object dir_find finds has an SFN entry, and from its first entry on there
\* is nothing but LFN entries before it (dir_find, which dir_remove relies on).
LEMMA FindFacts ==
  ASSUME NEW t \in [Slots -> Entry], NEW len \in 0 .. MaxSectors * PerSector, NEW g
  PROVE  LET r == dir_find(t, len, g)
         IN  /\ r.slot \in 0 .. len
             /\ r.stop => r.at \in 1 .. len
             /\ r.slot # 0 => FoundAt(t, r.slot, r.blk) /\ r.slot \in Slots
<1> DEFINE r == dir_find(t, len, g)
<1>1. MaxSectors * PerSector \in Nat /\ len \in Nat
  BY DirAssumption
<1>2. PICK scan : IsScan(scan, t, len, g) /\ r = scan[len]
  BY <1>1, FindDef
<1> HIDE DEF r
<1> DEFINE S == {n \in Nat : n <= len => ScanOK(t, scan[n], n)}
<1>3. 0 \in S
  <2>1. Scanning \in ScanT /\ Scanning.stop = FALSE /\ Scanning.slot = 0 /\ Scanning.at = 0 /\ Scanning.blk = 0
    BY DEF Scanning, ScanT, NoOrd, Sums
  <2>2. ScanOK(t, scan[0], 0)
    BY <1>2, <2>1 DEF ScanOK, IsScan
  <2>3. QED
    BY <2>2
<1>4. ASSUME NEW n \in S PROVE n + 1 \in S
  <2>1. n \in Nat /\ n + 1 \in Nat /\ (n + 1) - 1 = n
    OBVIOUS
  <2>2. SUFFICES ASSUME n + 1 <= len PROVE ScanOK(t, scan[n + 1], n + 1)
    BY <2>1
  <2>3. n <= len /\ n + 1 \in 1 .. len /\ n + 1 \in Slots
    BY <1>1, <2>1, <2>2 DEF Slots
  <2>4. ScanOK(t, scan[(n + 1) - 1], (n + 1) - 1)
    BY <2>1, <2>3
  <2>5. ScanOK(t, ScanRound(t, g, scan[(n + 1) - 1], n + 1), n + 1)
    <3> HIDE DEF S
    <3>1. QED
      BY <2>3, <2>4, RoundOK
  <2>6. QED
    BY <1>2, <2>3, <2>5 DEF IsScan
<1>5. S = Nat
  <2>1. S \in SUBSET Nat
    OBVIOUS
  <2> HIDE DEF S
  <2>2. QED
    BY <1>3, <1>4, <2>1, Induction
<1>6. ScanOK(t, r, len)
  BY <1>1, <1>2, <1>5
<1> HIDE DEF S
<1>7. r \in ScanT
  BY <1>6 DEF ScanOK
<1>8. r.stop \in BOOLEAN /\ r.slot \in Nat /\ r.at \in Nat
  BY <1>7 DEF ScanT
<1>9. CASE r.stop
  <2>1. r.at \in 1 .. len /\ r.slot \in {0, r.at} /\ (r.slot # 0 => FoundAt(t, r.slot, r.blk))
    BY <1>6, <1>9 DEF ScanOK
  <2>2. r.slot # 0 => r.slot \in Slots
    BY <1>1, <2>1 DEF Slots
  <2>3. QED
    BY <1>1, <2>1, <2>2 DEF r
<1>10. CASE ~r.stop
  BY <1>1, <1>6, <1>10 DEF ScanOK, r
<1>11. QED
  BY <1>9, <1>10

\* The short name dir_register takes is one of those made for the name.
LEMMA ShortNameIs ==
  ASSUME NEW n \in Names, ShortName(n) # <<>>
  PROVE  ShortName(n) \in ShortNames
<1> DEFINE free == {k \in DOMAIN Shorts[n] : n \notin Lossy \/ ~(dir_find(Table, TableLen, ShortTarget(Shorts[n][k])).slot # 0)}
<1>1. ShortName(n) = IF free = {} THEN <<>> ELSE Shorts[n][Least(free)]
  BY DEF ShortName
<1>2. Shorts[n] \in Seq(DOMAIN Checksum)
  BY DirAssumption
<1>3. free \subseteq DOMAIN Shorts[n]
  OBVIOUS
<1>4. DOMAIN Shorts[n] \subseteq Nat
  BY <1>2
<1> HIDE DEF free
<1>5. free # {} /\ ShortName(n) = Shorts[n][Least(free)]
  BY <1>1
<1>6. Least(free) \in free
  BY <1>3, <1>4, <1>5, LeastIs
<1>7. QED
  BY <1>3, <1>5, <1>6 DEF ShortNames

\* dir_alloc finds k free entries in a row.
LEMMA FreeRunIs ==
  ASSUME NEW t, NEW len \in 0 .. MaxSectors * PerSector, NEW k \in Nat \ {0}, FreeRuns(t, len, k) # {}
  PROVE  LET last == Least(FreeRuns(t, len, k))
         IN  /\ last \in k .. len
             /\ \A i \in last - k + 1 .. last : IsFree(t[i])
<1>1. MaxSectors * PerSector \in Nat /\ len \in Nat
  BY DirAssumption
<1>2. FreeRuns(t, len, k) \in SUBSET Nat
  BY <1>1 DEF FreeRuns
<1>3. Least(FreeRuns(t, len, k)) \in FreeRuns(t, len, k)
  BY <1>2, LeastIs
<1>4. QED
  BY <1>3 DEF FreeRuns
-----------------------------------------------------------------------------
(* What the requests see, and how they go on.                              *)

\* The table FatFs sees is Flat, but for a cleared sector the device did not take.
LEMMA TableFacts ==
  ASSUME Window(dev, win)
  PROVE  /\ Flat \in DevT /\ dev \in DevT /\ Untouched(Flat) /\ Untouched(dev)
         /\ dev.len <= Flat.len /\ Linked = Flat.len
         /\ Table \in [Slots -> Entry]
         /\ TableLen \in 0 .. MaxSectors * PerSector
         /\ \A i \in Slots : \/ Table[i] = Flat.ent[i]
                             \/ Table[i] = End /\ Flat.ent[i] = Junk
         /\ \A i \in Slots : i <= TableLen => SectorOf(i) <= Flat.len
<1>1. /\ Flat \in DevT /\ Untouched(Flat) /\ dev.len <= Flat.len
      /\ ~win.dirty => Flat = dev
      /\ Flat.len = (IF win.sect = FatSector THEN win.len ELSE dev.len)
      /\ \A i \in Slots :
           Flat.ent[i] = IF win.dirty /\ SectorOf(i) = win.sect THEN win.ent[Within(i)] ELSE dev.ent[i]
  BY FlushedFacts DEF Flat
<1>2. dev \in DevT /\ win \in WinT /\ Untouched(dev) /\ (~win.dirty => Agrees(dev, win))
  BY DEF Window
<1>3. Linked = Flat.len
  BY <1>1 DEF Linked
<1>4. /\ dev.ent \in [Slots -> Entry] /\ win.ent \in [1 .. PerSector -> Entry] /\ win.dirty \in BOOLEAN
      /\ Flat.len \in 1 .. MaxSectors
  BY <1>1, <1>2 DEF DevT, WinT
<1>5. \A i \in Slots : Table[i] = IF SectorOf(i) = win.sect THEN win.ent[Within(i)] ELSE dev.ent[i]
  BY DEF Table
<1>6. Table \in [Slots -> Entry]
  BY <1>4, SlotFacts DEF Table
<1>7. \A i \in Slots : \/ Table[i] = Flat.ent[i]
                       \/ Table[i] = End /\ Flat.ent[i] = Junk
  BY <1>1, <1>2, <1>4, <1>5 DEF Agrees
<1>8. TableLen \in 0 .. MaxSectors * PerSector
  BY <1>3, <1>4, TableBound DEF TableLen
<1>9. \A i \in Slots : i <= TableLen => SectorOf(i) <= Flat.len
  BY <1>3, <1>4, SectorBound DEF TableLen
<1>10. QED
  BY <1>1, <1>2, <1>3, <1>6, <1>7, <1>8, <1>9

\* An entry of an object, or an LFN entry, is in Flat as FatFs sees it.
LEMMA SeenIs ==
  ASSUME Window(dev, win), NEW i \in Slots, Table[i].kind \in {"sfn", "lfn"} \/ Flat.ent[i].kind \in {"sfn", "lfn"}
  PROVE  Flat.ent[i] = Table[i]
BY TableFacts, EntryFacts

\* A search in Flat: what it finds is there, and where it ends is linked.
LEMMA SearchFacts ==
  ASSUME Window(dev, win), NEW g
  PROVE  LET r == dir_find(Table, TableLen, g)
         IN  /\ EndOf(r) \in 0 .. MaxSectors /\ EndOf(r) <= Flat.len
             /\ r.slot # 0 =>
                  /\ r.slot \in Slots /\ RemovesFrom(r) \in 1 .. r.slot
                  /\ SectorOf(r.slot) <= Flat.len
                  /\ Flat.ent[r.slot] = Table[r.slot] /\ Table[r.slot].kind = "sfn"
                  /\ Table[r.slot].obj \in Objects
                  /\ \A k \in Slots : RemovesFrom(r) <= k /\ k < r.slot => Flat.ent[k].kind = "lfn"
<1> DEFINE r == dir_find(Table, TableLen, g)
<1>1. /\ Table \in [Slots -> Entry] /\ TableLen \in 0 .. MaxSectors * PerSector
      /\ MaxSectors * PerSector \in Nat
      /\ \A i \in Slots : i <= TableLen => SectorOf(i) <= Flat.len
      /\ Flat.len \in 1 .. MaxSectors
  BY TableFacts, DirAssumption DEF DevT
<1>2. /\ r.slot \in 0 .. TableLen
      /\ r.stop => r.at \in 1 .. TableLen
      /\ r.slot # 0 => FoundAt(Table, r.slot, r.blk) /\ r.slot \in Slots
  BY <1>1, FindFacts
<1> HIDE DEF r
<1>3. EndOf(r) \in 0 .. MaxSectors /\ EndOf(r) <= Flat.len
  <2>1. CASE r.stop
    <3>1. r.at \in Slots /\ r.at <= TableLen
      BY <1>1, <1>2, <2>1 DEF Slots
    <3>2. SectorOf(r.at) \in 1 .. MaxSectors /\ SectorOf(r.at) <= Flat.len
      BY <1>1, <3>1, SlotFacts
    <3>3. QED
      BY <2>1, <3>2 DEF EndOf
  <2>2. CASE ~r.stop
    BY <1>1, <2>2, DirAssumption DEF EndOf, FatSector
  <2>3. QED
    BY <2>1, <2>2
<1>4. ASSUME r.slot # 0
      PROVE  /\ r.slot \in Slots /\ RemovesFrom(r) \in 1 .. r.slot
             /\ SectorOf(r.slot) <= Flat.len
             /\ Flat.ent[r.slot] = Table[r.slot] /\ Table[r.slot].kind = "sfn"
             /\ Table[r.slot].obj \in Objects
             /\ \A k \in Slots : RemovesFrom(r) <= k /\ k < r.slot => Flat.ent[k].kind = "lfn"
  <2>1. /\ r.slot \in Slots /\ r.slot <= TableLen /\ r.slot \in Nat
        /\ Table[r.slot].kind = "sfn" /\ r.blk \in 0 .. r.slot - 1
        /\ r.blk # 0 => \A k \in r.blk .. r.slot - 1 : Table[k].kind = "lfn"
    BY <1>1, <1>2, <1>4 DEF FoundAt
  <2>2. RemovesFrom(r) \in 1 .. r.slot
    BY <1>4, <2>1 DEF RemovesFrom
  <2>3. SectorOf(r.slot) <= Flat.len /\ Flat.ent[r.slot] = Table[r.slot]
    BY <1>1, <2>1, SeenIs
  <2>4. Table[r.slot].obj \in Objects
    BY <1>1, <2>1, EntryFacts
  <2>5. ASSUME NEW k \in Slots, RemovesFrom(r) <= k, k < r.slot PROVE Flat.ent[k].kind = "lfn"
    <3>1. k \in Nat
      BY DEF Slots
    <3>2. r.blk # 0 /\ k \in r.blk .. r.slot - 1
      BY <2>1, <2>5, <3>1 DEF RemovesFrom
    <3>3. Table[k].kind = "lfn"
      BY <2>1, <3>2
    <3>4. QED
      BY <3>3, SeenIs
  <2>6. QED
    BY <2>1, <2>2, <2>3, <2>4, <2>5
<1>5. QED
  BY <1>3, <1>4 DEF r

\* The requests and power losses after a step that counts none, or one more request.
Counted ==
  \/ Quiet
  \/ requests < MaxRequests /\ requests' = requests + 1 /\ crashes' = crashes

\* What a step that only moves the window does to the tables.
LEMMA MovedOK ==
  ASSUME IInv, NEW o, Sound(dev, win, o), Take(o), win' = o.win, Counted
  PROVE  /\ Window(dev', win') /\ Flat' = Flat /\ dev' \in {dev, Flat}
         /\ faults' \in 0 .. MaxFaults /\ requests' \in 0 .. MaxRequests /\ crashes' \in 0 .. MaxCrashes
<1>1. /\ Window(o.dev, o.win) /\ Flushed(o.dev, o.win) = Flat
      /\ o.dev \in {dev, Flat} /\ dev' = o.dev
      /\ o.fault => faults < MaxFaults
      /\ faults' = IF o.fault THEN faults + 1 ELSE faults
  BY DEF Sound, Take, Flat
<1>2. requests' \in 0 .. MaxRequests /\ crashes' \in 0 .. MaxCrashes
  BY DirAssumption DEF IInv, Counted, Quiet
<1>3. faults' \in 0 .. MaxFaults
  BY <1>1, DirAssumption DEF IInv
<1>4. QED
  BY <1>1, <1>2, <1>3 DEF Flat

\* A step that only moves the window keeps the invariant when the job does.
LEMMA StepOK ==
  ASSUME IInv, NEW o, Sound(dev, win, o), Take(o), win' = o.win, Counted,
         HistT(hist'), \A ob \in hist'.alive : ob \in hist.alive \/ (Has(Flat, ob) /\ dev' = Flat),
         hist'.torn \/ (~hist.torn /\ pc \notin {"dir_clear", "dir_clear_write"}),
         pc' \notin {"dir_clear", "dir_clear_write"},
         Flat' = Flat => JobOK'
  PROVE  IInv'
<1>1. /\ Window(dev', win') /\ Flat' = Flat /\ dev' \in {dev, Flat}
      /\ faults' \in 0 .. MaxFaults /\ requests' \in 0 .. MaxRequests /\ crashes' \in 0 .. MaxCrashes
  BY MovedOK
<1>2. Survives'
  <2>1. SUFFICES ASSUME NEW ob \in hist'.alive PROVE Has(dev', ob) /\ Has(Flat, ob)
    BY <1>1 DEF Survives
  <2>2. CASE ob \in hist.alive
    BY <1>1, <2>2 DEF IInv, Survives
  <2>3. CASE Has(Flat, ob) /\ dev' = Flat
    BY <2>3
  <2>4. QED
    BY <2>2, <2>3
<1>3. Clean'
  <2>1. SUFFICES ASSUME ~hist'.torn PROVE CleanTo(Flat, Flat.len) /\ CleanTo(dev', dev'.len)
    BY <1>1 DEF Clean
  <2>2. CleanTo(Flat, Flat.len) /\ CleanTo(dev, dev.len)
    BY <2>1 DEF IInv, Clean
  <2>3. QED
    BY <1>1, <2>2
<1>4. QED
  BY <1>1, <1>2, <1>3 DEF IInv

\* No request in progress.
LEMMA NoJobIs ==
  NoJob.op = "none" /\ NoJob \in JobT
BY TableBound, DirAssumption DEF NoJob, JobT, Ops

\* A request has ended.
LEMMA IdleOK ==
  ASSUME pc' = "idle", job' = NoJob
  PROVE  JobOK'
BY NoJobIs DEF JobOK, Calls, Registering

\* The history a request leaves when it ends early.
LEMMA FailsOK ==
  ASSUME IInv, pc # "idle", NEW o, Sound(dev, win, o), Take(o), win' = o.win, Quiet, Fails
  PROVE  IInv'
<1>1. /\ pc' = "idle" /\ job' = NoJob
      /\ hist' = [hist EXCEPT !.littered = @ \cup Cut,
                              !.torn = @ \/ pc \in {"dir_clear", "dir_clear_write"}]
  BY DEF Fails, Answer
<1>2. HistT(hist) /\ job.new \in Names
  BY DEF IInv, JobOK
<1>3. Cut \subseteq Names
  BY <1>2 DEF Cut
<1>4. /\ hist'.made = hist.made /\ hist'.alive = hist.alive /\ hist'.littered = hist.littered \cup Cut
      /\ hist'.torn = (hist.torn \/ pc \in {"dir_clear", "dir_clear_write"})
      /\ hist' = [made |-> hist'.made, alive |-> hist'.alive, littered |-> hist'.littered, torn |-> hist'.torn]
  BY <1>1, <1>2 DEF HistT
<1>5. HistT(hist')
  BY <1>2, <1>3, <1>4 DEF HistT
<1>6. QED
  BY <1>1, <1>4, <1>5, StepOK, IdleOK DEF Counted

\* A request that answers and leaves the history as it is.
LEMMA SaysOK ==
  ASSUME IInv, pc \notin {"dir_clear", "dir_clear_write"},
         NEW o, Sound(dev, win, o), Take(o), win' = o.win, Quiet, NEW ret, Says(ret)
  PROVE  IInv'
<1>1. pc' = "idle" /\ job' = NoJob /\ hist' = hist
  BY DEF Says, Answer
<1>2. HistT(hist) /\ hist.torn \in BOOLEAN
  BY DEF IInv, HistT
<1>3. QED
  BY <1>1, <1>2, StepOK, IdleOK DEF Counted

\* A request that goes on to its next call.
LEMMA GoOnOK ==
  ASSUME IInv, pc \notin {"dir_clear", "dir_clear_write"},
         NEW o, Sound(dev, win, o), Take(o), win' = o.win, Quiet,
         NEW j, NEW next \in Calls \ {"dir_clear", "dir_clear_write"}, GoOn(j, next),
         Flat' = Flat => JobOK'
  PROVE  IInv'
<1>1. pc' = next /\ hist' = hist
  BY DEF GoOn
<1>2. HistT(hist) /\ hist.torn \in BOOLEAN
  BY DEF IInv, HistT
<1>3. QED
  BY <1>1, <1>2, StepOK DEF Counted

\* A job keeps its fields but the ones a call sets.
LEMMA JobAt ==
  ASSUME NEW j \in JobT, NEW a \in 0 .. MaxSectors * PerSector + 1
  PROVE  LET u == [j EXCEPT !.at = a]
         IN  /\ u \in JobT /\ u.at = a
             /\ u.op = j.op /\ u.name = j.name /\ u.new = j.new /\ u.obj = j.obj
             /\ u.sfn = j.sfn /\ u.old = j.old /\ u.blk = j.blk /\ u.left = j.left
BY DEF JobT

\* dir_register sets the short name and where dir_alloc begins.
WithSfn(j, s, a) == [j EXCEPT !.sfn = s, !.at = a]

\* They are the only fields it sets.
LEMMA JobSfn ==
  ASSUME NEW j \in JobT, NEW s \in ShortNames, NEW a \in 0 .. MaxSectors * PerSector + 1
  PROVE  LET u == WithSfn(j, s, a)
         IN  /\ u \in JobT /\ u.sfn = s /\ u.at = a
             /\ u.op = j.op /\ u.name = j.name /\ u.new = j.new /\ u.obj = j.obj
             /\ u.old = j.old /\ u.blk = j.blk /\ u.left = j.left
<1> DEFINE u1 == [j EXCEPT !.sfn = s]
           u2 == [u1 EXCEPT !.at = a]
<1>1. /\ u1 \in JobT /\ u1.sfn = s
      /\ u1.op = j.op /\ u1.name = j.name /\ u1.new = j.new /\ u1.obj = j.obj
      /\ u1.old = j.old /\ u1.blk = j.blk /\ u1.left = j.left
  BY DEF JobT
<1> HIDE DEF u1
<1>2. /\ u2 \in JobT /\ u2.at = a
      /\ u2.op = u1.op /\ u2.name = u1.name /\ u2.new = u1.new /\ u2.obj = u1.obj
      /\ u2.sfn = u1.sfn /\ u2.old = u1.old /\ u2.blk = u1.blk /\ u2.left = u1.left
  BY <1>1, JobAt
<1>3. u2 = WithSfn(j, s, a)
  BY DEF u1, WithSfn
<1> HIDE DEF u2
<1>4. QED
  BY <1>1, <1>2, <1>3

\* dir_alloc and put_lfn set the next entry and how many are left.
WithLeft(j, a, n) == [j EXCEPT !.at = a, !.left = n]

\* They are the only fields they set.
LEMMA JobLeft ==
  ASSUME NEW j \in JobT, NEW a \in 0 .. MaxSectors * PerSector + 1, NEW n \in Nat
  PROVE  LET u == WithLeft(j, a, n)
         IN  /\ u \in JobT /\ u.at = a /\ u.left = n
             /\ u.op = j.op /\ u.name = j.name /\ u.new = j.new /\ u.obj = j.obj
             /\ u.sfn = j.sfn /\ u.old = j.old /\ u.blk = j.blk
<1> DEFINE u1 == [j EXCEPT !.at = a]
           u2 == [u1 EXCEPT !.left = n]
<1>1. /\ u1 \in JobT /\ u1.at = a
      /\ u1.op = j.op /\ u1.name = j.name /\ u1.new = j.new /\ u1.obj = j.obj
      /\ u1.sfn = j.sfn /\ u1.old = j.old /\ u1.blk = j.blk
  BY JobAt
<1> HIDE DEF u1
<1>2. /\ u2 \in JobT /\ u2.left = n
      /\ u2.op = u1.op /\ u2.name = u1.name /\ u2.new = u1.new /\ u2.obj = u1.obj
      /\ u2.sfn = u1.sfn /\ u2.old = u1.old /\ u2.blk = u1.blk /\ u2.at = u1.at
  BY <1>1 DEF JobT
<1>3. u2 = WithLeft(j, a, n)
  BY DEF u1, WithLeft
<1> HIDE DEF u2
<1>4. QED
  BY <1>1, <1>2, <1>3

\* dir_find sets the object and its entries.
WithFound(j, ob, old, blk) == [j EXCEPT !.obj = ob, !.old = old, !.blk = blk]

\* They are the only fields it sets.
LEMMA JobFound ==
  ASSUME NEW j \in JobT, NEW ob \in Objects, NEW old \in Slots, NEW blk \in Slots
  PROVE  LET u == WithFound(j, ob, old, blk)
         IN  /\ u \in JobT /\ u.obj = ob /\ u.old = old /\ u.blk = blk
             /\ u.op = j.op /\ u.name = j.name /\ u.new = j.new
             /\ u.sfn = j.sfn /\ u.at = j.at /\ u.left = j.left
<1> DEFINE u1 == [j EXCEPT !.obj = ob]
           u2 == [u1 EXCEPT !.old = old]
           u3 == [u2 EXCEPT !.blk = blk]
<1>1. /\ u1 \in JobT /\ u1.obj = ob
      /\ u1.op = j.op /\ u1.name = j.name /\ u1.new = j.new
      /\ u1.sfn = j.sfn /\ u1.at = j.at /\ u1.left = j.left
  BY DEF JobT
<1> HIDE DEF u1
<1>2. /\ u2 \in JobT /\ u2.obj = u1.obj /\ u2.old = old
      /\ u2.op = u1.op /\ u2.name = u1.name /\ u2.new = u1.new
      /\ u2.sfn = u1.sfn /\ u2.at = u1.at /\ u2.left = u1.left
  BY <1>1 DEF JobT
<1> HIDE DEF u2
<1>3. /\ u3 \in JobT /\ u3.obj = u2.obj /\ u3.old = u2.old /\ u3.blk = blk
      /\ u3.op = u2.op /\ u3.name = u2.name /\ u3.new = u2.new
      /\ u3.sfn = u2.sfn /\ u3.at = u2.at /\ u3.left = u2.left
  BY <1>2 DEF JobT
<1>4. u3 = WithFound(j, ob, old, blk)
  BY DEF u1, u2, WithFound
<1> HIDE DEF u3
<1>5. QED
  BY <1>1, <1>2, <1>3, <1>4

\* A request arrives.
LEMMA RequestOK ==
  ASSUME IInv, NEW op \in Ops \ {"none"}, NEW n \in Names, NEW m \in Names, Request(op, n, m)
  PROVE  IInv'
<1>1. /\ pc = "idle" /\ requests < MaxRequests /\ requests' = requests + 1
      /\ job' = [NoJob EXCEPT !.op = op, !.name = n, !.new = m, !.obj = requests']
      /\ pc' = "find"
      /\ dev' = dev /\ win' = win /\ faults' = faults /\ crashes' = crashes /\ hist' = hist
  BY DEF Request
<1>2. requests' \in 0 .. MaxRequests /\ requests' \in Objects
  BY <1>1, DirAssumption DEF IInv, Objects
<1>3. job' \in JobT /\ job'.op = op /\ job'.name = n /\ job'.new = m /\ job'.obj = requests'
  <2> DEFINE u1 == [NoJob EXCEPT !.op = op]
             u2 == [u1 EXCEPT !.name = n]
             u3 == [u2 EXCEPT !.new = m]
             u4 == [u3 EXCEPT !.obj = requests']
  <2>1. NoJob \in JobT
    BY NoJobIs
  <2>2. u1 \in JobT /\ u1.op = op
    BY <2>1 DEF JobT
  <2> HIDE DEF u1
  <2>3. u2 \in JobT /\ u2.op = u1.op /\ u2.name = n
    BY <2>2 DEF JobT
  <2> HIDE DEF u2
  <2>4. u3 \in JobT /\ u3.op = u2.op /\ u3.name = u2.name /\ u3.new = m
    BY <2>3 DEF JobT
  <2> HIDE DEF u3
  <2>5. u4 \in JobT /\ u4.op = u3.op /\ u4.name = u3.name /\ u4.new = u3.new /\ u4.obj = requests'
    BY <1>2, <2>4 DEF JobT
  <2>6. job' = u4
    BY <1>1 DEF u1, u2, u3
  <2> HIDE DEF u4
  <2>7. QED
    BY <2>2, <2>3, <2>4, <2>5, <2>6
<1>4. JobOK'
  BY <1>1, <1>2, <1>3 DEF JobOK, Calls, Registering
<1>5. Flat' = Flat
  BY <1>1 DEF Flat
<1>6. Survives' /\ Clean' /\ Window(dev', win') /\ HistT(hist')
  BY <1>1, <1>5 DEF IInv, Survives, Clean
<1>7. QED
  BY <1>1, <1>2, <1>4, <1>6 DEF IInv
-----------------------------------------------------------------------------
(* The searches.                                                           *)

\* dir_register begins: the short name is chosen, or all are taken.
LEMMA RegisterOK ==
  ASSUME IInv, NEW o, Sound(dev, win, o), Take(o), win' = o.win, Quiet, Register,
         \/ pc = "find" /\ job.op = "create"
         \/ pc = "find_new" /\ job.op = "rename" /\ Found(Flat, job)
  PROVE  IInv'
<1>1. job \in JobT /\ job.name \in Names /\ job.new \in Names /\ job.obj \in Objects /\ job.op # "none"
  BY DEF IInv, JobOK
<1>2. CASE ShortName(job.new) = <<>>
  BY <1>2, SaysOK DEF Register
<1>3. CASE ShortName(job.new) # <<>>
  <2> DEFINE j == WithSfn(job, ShortName(job.new), 1)
  <2>1. GoOn(j, "dir_alloc")
    BY <1>3 DEF Register, WithSfn
  <2>2. ShortName(job.new) \in ShortNames
    BY <1>1, <1>3, ShortNameIs
  <2>3. 1 \in 0 .. MaxSectors * PerSector + 1
    BY TableBound, DirAssumption
  <2>4. /\ j \in JobT /\ j.sfn = ShortName(job.new)
        /\ j.op = job.op /\ j.name = job.name /\ j.new = job.new /\ j.obj = job.obj
        /\ j.old = job.old /\ j.blk = job.blk
    BY <1>1, <2>2, <2>3, JobSfn
  <2> HIDE DEF j
  <2>5. job' = j /\ pc' = "dir_alloc"
    BY <2>1 DEF GoOn
  <2>6. job.op = "create" \/ Found(Flat, j)
    BY <2>4 DEF Found
  <2>7. Flat' = Flat => JobOK'
    BY <1>1, <2>2, <2>4, <2>5, <2>6 DEF JobOK, Calls, Registering
  <2>8. QED
    BY <2>1, <2>7, GoOnOK DEF Calls, Registering
<1>4. QED
  BY <1>2, <1>3

\* dir_find on the path of the request: the request ends, or goes on with the
\* entries it has found.
LEMMA FindStep ==
  ASSUME IInv, find
  PROVE  IInv'
<1> DEFINE r == dir_find(Table, TableLen, Target(job.name))
           obj == Table[r.slot].obj
           blk == RemovesFrom(r)
           j == WithFound(job, obj, r.slot, blk)
<1>1. Window(dev, win) /\ HistT(hist) /\ pc = "find" /\ Quiet
  BY DEF IInv, find
<1>2. /\ job \in JobT /\ job.name \in Names /\ job.new \in Names /\ job.op \in Ops \ {"none"}
  BY <1>1 DEF IInv, JobOK, JobT
<1>3. /\ EndOf(r) \in 0 .. MaxSectors /\ EndOf(r) <= Flat.len
      /\ r.slot # 0 =>
           /\ r.slot \in Slots /\ blk \in 1 .. r.slot /\ SectorOf(r.slot) <= Flat.len
           /\ Flat.ent[r.slot] = Table[r.slot] /\ Table[r.slot].kind = "sfn" /\ obj \in Objects
           /\ \A k \in Slots : blk <= k /\ k < r.slot => Flat.ent[k].kind = "lfn"
  BY <1>1, SearchFacts
<1>4. PICK o \in Move(1, EndOf(r)) :
        /\ Take(o) /\ win' = o.win
        /\ IF ~o.ok THEN Fails
           ELSE IF job.op = "create"
             THEN IF r.slot = 0 THEN Register ELSE Says("FR_OK")
           ELSE IF r.slot = 0 THEN Says("FR_NO_FILE")
           ELSE CASE job.op = "getattr" -> Says("FR_OK")
                  [] job.op = "rename" -> GoOn(j, "find_new")
                  [] job.op = "unlink" ->
                       /\ job' = [j EXCEPT !.at = j.blk] /\ pc' = "dir_remove"
                       /\ hist' = [hist EXCEPT !.made = Forgotten(@, obj),
                                               !.alive = @ \ {obj}]
                       /\ UNCHANGED reply
  BY DEF find, WithFound
<1> HIDE DEF r, blk, obj
<1>5. Sound(dev, win, o)
  BY <1>1, <1>3, MoveOK
<1>6. ASSUME r.slot # 0
      PROVE  /\ j \in JobT /\ j.obj = obj /\ j.old = r.slot /\ j.blk = blk
             /\ j.op = job.op /\ j.name = job.name /\ j.new = job.new
             /\ Found(Flat, j)
  <2>1. blk \in Slots
    BY <1>3, <1>6, DirAssumption DEF Slots
  <2>2. /\ j \in JobT /\ j.obj = obj /\ j.old = r.slot /\ j.blk = blk
        /\ j.op = job.op /\ j.name = job.name /\ j.new = job.new
    BY <1>2, <1>3, <1>6, <2>1, JobFound
  <2> HIDE DEF j
  <2>3. Found(Flat, j)
    BY <1>3, <1>6, <2>2 DEF Found, Holds, obj
  <2>4. QED
    BY <2>2, <2>3
<1>7. CASE ~o.ok
  BY <1>1, <1>4, <1>5, <1>7, FailsOK
<1>8. CASE o.ok /\ job.op = "create"
  <2>1. CASE r.slot = 0
    BY <1>1, <1>4, <1>5, <1>8, <2>1, RegisterOK
  <2>2. CASE r.slot # 0
    BY <1>1, <1>4, <1>5, <1>8, <2>2, SaysOK
  <2>3. QED
    BY <2>1, <2>2
<1>9. CASE o.ok /\ job.op # "create" /\ r.slot = 0
  BY <1>1, <1>4, <1>5, <1>9, SaysOK
<1>10. CASE o.ok /\ job.op = "getattr" /\ r.slot # 0
  BY <1>1, <1>4, <1>5, <1>10, SaysOK
<1>11. CASE o.ok /\ job.op = "rename" /\ r.slot # 0
  <2>1. GoOn(j, "find_new")
    BY <1>4, <1>11
  <2>2. job' = j /\ pc' = "find_new"
    BY <2>1 DEF GoOn
  <2>3. Flat' = Flat => JobOK'
    <3> HIDE DEF j
    <3>1. QED
      BY <1>2, <1>3, <1>6, <1>11, <2>2 DEF JobOK, Calls, Registering
  <2> HIDE DEF j
  <2>4. QED
    BY <1>1, <1>4, <1>5, <2>1, <2>3, GoOnOK DEF Calls, Registering
<1>12. CASE o.ok /\ job.op = "unlink" /\ r.slot # 0
  <2> DEFINE u == [j EXCEPT !.at = blk]
  <2> HIDE DEF j
  <2>1. /\ job' = u /\ pc' = "dir_remove"
        /\ hist' = [hist EXCEPT !.made = Forgotten(@, obj), !.alive = @ \ {obj}]
    BY <1>4, <1>6, <1>12 DEF j
  <2>2. /\ u \in JobT /\ u.at = blk
        /\ u.op = j.op /\ u.name = j.name /\ u.new = j.new /\ u.obj = j.obj
        /\ u.old = j.old /\ u.blk = j.blk
    <3>1. blk \in 0 .. MaxSectors * PerSector + 1
      BY <1>3, <1>12, DirAssumption DEF Slots
    <3>2. QED
      BY <1>6, <1>12, <3>1, JobAt
  <2> HIDE DEF u
  <2>3. /\ hist'.made = Forgotten(hist.made, obj) /\ hist'.alive = hist.alive \ {obj}
        /\ hist'.littered = hist.littered /\ hist'.torn = hist.torn
        /\ hist' = [made |-> hist'.made, alive |-> hist'.alive, littered |-> hist'.littered, torn |-> hist'.torn]
    BY <1>1, <2>1 DEF HistT
  <2>4. HistT(hist')
    BY <1>1, <2>3 DEF HistT, Forgotten
  <2>5. Removing(Flat, u, hist'.alive)
    BY <1>3, <1>6, <1>12, <2>2, <2>3 DEF Removing, Found, Slots
  <2>6. Flat' = Flat => JobOK'
    BY <1>2, <1>3, <1>6, <1>12, <2>1, <2>2, <2>5 DEF JobOK, Calls, Registering
  <2>7. hist.torn \in BOOLEAN
    BY <1>1 DEF HistT
  <2>8. \A ob \in hist'.alive : ob \in hist.alive
    BY <2>3
  <2>9. QED
    BY <1>1, <1>4, <1>5, <2>1, <2>3, <2>4, <2>6, <2>7, <2>8, StepOK DEF Counted
<1>13. QED
  BY <1>2, <1>7, <1>8, <1>9, <1>10, <1>11, <1>12 DEF Ops

\* f_rename looks for the new name.
LEMMA FindNewStep ==
  ASSUME IInv, find_new
  PROVE  IInv'
<1> DEFINE r == dir_find(Table, TableLen, Target(job.new))
<1>1. Window(dev, win) /\ pc = "find_new" /\ Quiet
  BY DEF IInv, find_new
<1>2. job.op = "rename" /\ Found(Flat, job)
  BY <1>1 DEF IInv, JobOK, Registering
<1>3. EndOf(r) \in 0 .. MaxSectors /\ EndOf(r) <= Flat.len
  BY <1>1, SearchFacts
<1>4. PICK o \in Move(1, EndOf(r)) :
        /\ Take(o) /\ win' = o.win
        /\ IF ~o.ok THEN Fails
           ELSE IF r.slot \notin {0, job.old} THEN Says("FR_EXIST")
           ELSE Register
  BY DEF find_new
<1> HIDE DEF r
<1>5. Sound(dev, win, o)
  BY <1>1, <1>3, MoveOK
<1>6. CASE ~o.ok
  BY <1>1, <1>4, <1>5, <1>6, FailsOK
<1>7. CASE o.ok /\ r.slot \notin {0, job.old}
  BY <1>1, <1>4, <1>5, <1>7, SaysOK
<1>8. CASE o.ok /\ r.slot \in {0, job.old}
  BY <1>1, <1>2, <1>4, <1>5, <1>8, RegisterOK
<1>9. QED
  BY <1>6, <1>7, <1>8

\* f_readdir changes nothing but the window.
LEMMA ReaddirStep ==
  ASSUME IInv, fff_readdir
  PROVE  IInv'
<1> DEFINE r == dir_find(Table, TableLen, ShortTarget(<<>>))
<1>1. /\ Window(dev, win) /\ pc = "idle" /\ Counted /\ hist' = hist
      /\ pc' = "idle" /\ job' = NoJob
  BY DEF IInv, fff_readdir, Counted
<1>2. EndOf(r) \in 0 .. MaxSectors /\ EndOf(r) <= Flat.len
  BY <1>1, SearchFacts
<1>3. PICK o \in Move(1, EndOf(r)) : Take(o) /\ win' = o.win
  BY DEF fff_readdir
<1> HIDE DEF r
<1>4. Sound(dev, win, o)
  BY <1>1, <1>2, MoveOK
<1>5. HistT(hist) /\ hist.torn \in BOOLEAN
  BY DEF IInv, HistT
<1>6. QED
  BY <1>1, <1>3, <1>4, <1>5, StepOK, IdleOK
-----------------------------------------------------------------------------
(* dir_register.                                                           *)

\* A name has no LFN entries, or one for each of its pieces.
LEMMA LfnCountIs ==
  ASSUME NEW n \in Names
  PROVE  LfnCount(n) \in Nat /\ \A k \in 1 .. LfnCount(n) : k \in DOMAIN Parts[n]
<1>1. Parts[n] \in Seq(DOMAIN Upper)
  BY DirAssumption
<1>2. Len(Parts[n]) \in Nat /\ DOMAIN Parts[n] = 1 .. Len(Parts[n])
  BY <1>1
<1>3. QED
  BY <1>2 DEF LfnCount

\* dir_alloc finds a run of free entries, or the table has to grow.
LEMMA AllocStep ==
  ASSUME IInv, dir_alloc
  PROVE  IInv'
<1> DEFINE need == LfnCount(job.new) + 1
           runs == FreeRuns(Table, TableLen, need)
           last == IF runs = {} THEN TableLen ELSE Least(runs)
<1>1. Window(dev, win) /\ HistT(hist) /\ pc = "dir_alloc" /\ Quiet
  BY DEF IInv, dir_alloc
<1>2. /\ job \in JobT /\ job.name \in Names /\ job.new \in Names /\ job.obj \in Objects
      /\ job.op \in Ops \ {"none"} /\ job.sfn \in ShortNames
      /\ job.op = "create" \/ (job.op = "rename" /\ Found(Flat, job))
  BY <1>1 DEF IInv, JobOK, JobT, Registering
<1>3. /\ TableLen \in 0 .. MaxSectors * PerSector /\ MaxSectors * PerSector \in Nat
      /\ \A i \in Slots : i <= TableLen => SectorOf(i) <= Flat.len
      /\ \A i \in Slots : \/ Table[i] = Flat.ent[i]
                          \/ Table[i] = End /\ Flat.ent[i] = Junk
      /\ TableLen >= 1 /\ Flat.len <= MaxSectors
  <2>1. Flat.len \in 1 .. MaxSectors /\ Linked = Flat.len
    BY <1>1, TableFacts DEF DevT
  <2>2. 1 * PerSector <= Flat.len * PerSector /\ PerSector >= 1 /\ 1 * PerSector = PerSector /\ Flat.len * PerSector \in Nat
    BY <2>1, DirAssumption
  <2>3. TableLen = Flat.len * PerSector
    BY <2>1 DEF TableLen
  <2>4. TableLen >= 1
    BY <2>2, <2>3, DirAssumption
  <2>5. QED
    BY <1>1, <2>1, <2>4, TableFacts, DirAssumption
<1>4. need \in Nat \ {0} /\ need - 1 = LfnCount(job.new) /\ LfnCount(job.new) \in Nat
  BY <1>2, LfnCountIs
<1>5. PICK o \in Move(job.at, SectorOf(last)) :
        /\ Take(o) /\ win' = o.win
        /\ IF ~o.ok THEN Fails
           ELSE IF runs = {} THEN GoOn(job, "dir_next")
           ELSE /\ job' = WithLeft(job, last - need + 1, need - 1)
                /\ pc' = IF need > 1 THEN "put_lfn" ELSE "put_sfn"
                /\ hist' = [hist EXCEPT !.made = Forgotten(@, job.obj)]
                /\ UNCHANGED reply
  BY DEF dir_alloc, WithLeft
<1> HIDE DEF need
<1>6. runs # {} => last \in need .. TableLen /\ \A i \in last - need + 1 .. last : IsFree(Table[i])
  BY <1>3, <1>4, FreeRunIs
<1> HIDE DEF runs
<1>7. last \in Slots /\ last <= TableLen
  <2>1. CASE runs = {}
    BY <1>3, <2>1 DEF Slots
  <2>2. CASE runs # {}
    <3> HIDE DEF last
    <3>1. QED
      BY <1>3, <1>4, <1>6, <2>2 DEF Slots
  <2>3. QED
    BY <2>1, <2>2
<1> HIDE DEF last
<1>8. SectorOf(last) \in 0 .. MaxSectors /\ SectorOf(last) <= Flat.len
  BY <1>3, <1>7, SlotFacts
<1>9. Sound(dev, win, o)
  BY <1>1, <1>8, MoveOK
<1>10. CASE ~o.ok
  BY <1>1, <1>5, <1>9, <1>10, FailsOK
<1>11. CASE o.ok /\ runs = {}
  <2>1. GoOn(job, "dir_next")
    BY <1>5, <1>11
  <2>2. job' = job /\ pc' = "dir_next"
    BY <2>1 DEF GoOn
  <2>3. Flat' = Flat => JobOK'
    BY <1>2, <2>2 DEF JobOK, Calls, Registering
  <2>4. QED
    BY <1>1, <1>5, <1>9, <2>1, <2>3, GoOnOK DEF Calls, Registering
<1>12. CASE o.ok /\ runs # {}
  <2> DEFINE at == last - need + 1
             j == WithLeft(job, at, need - 1)
  <2>1. /\ job' = j /\ pc' = (IF need > 1 THEN "put_lfn" ELSE "put_sfn")
        /\ hist' = [hist EXCEPT !.made = Forgotten(@, job.obj)]
    BY <1>5, <1>12
  <2>2. last \in Nat /\ at \in 1 .. last /\ at + (need - 1) = last
    BY <1>3, <1>4, <1>6, <1>7, <1>12 DEF Slots
  <2>3. /\ j \in JobT /\ j.at = at /\ j.left = need - 1
        /\ j.op = job.op /\ j.name = job.name /\ j.new = job.new /\ j.obj = job.obj
        /\ j.sfn = job.sfn /\ j.old = job.old /\ j.blk = job.blk
    <3>1. at \in 0 .. MaxSectors * PerSector + 1 /\ need - 1 \in Nat
      BY <1>3, <1>4, <1>7, <2>2
    <3> HIDE DEF at
    <3>2. QED
      BY <1>2, <3>1, JobLeft
  <2>4. \A i \in at .. last : IsFree(Table[i])
    BY <1>6, <1>12
  <2> HIDE DEF j, at
  <2>5. Room(Flat, j)
    <3>1. at \in Slots /\ at + (need - 1) \in Slots
      BY <1>3, <1>7, <2>2 DEF Slots
    <3>2. ASSUME NEW i \in Slots, at <= i, i <= last
          PROVE  SectorOf(i) <= Flat.len /\ Flat.ent[i].kind \notin {"sfn", "lfn"}
      <4>1. i \in Nat /\ i <= TableLen /\ i \in at .. last
        BY <1>3, <1>7, <2>2, <3>2 DEF Slots
      <4>2. Table[i].kind \in {"end", "deleted"}
        BY <2>4, <4>1 DEF IsFree
      <4>3. Flat.ent[i].kind \in {"end", "deleted", "junk"}
        BY <1>3, <4>2, EntryFacts
      <4>4. QED
        BY <1>3, <4>1, <4>3
    <3>3. QED
      BY <2>2, <2>3, <3>1, <3>2 DEF Room
  <2>6. Found(Flat, job) => Found(Flat, j)
    BY <2>3 DEF Found
  <2>7. Flat' = Flat => JobOK'
    <3>1. pc' \in {"put_lfn", "put_sfn"} /\ pc' \in Calls /\ pc' \in Registering
      BY <2>1 DEF Calls, Registering
    <3>2. j.op = "create" \/ (j.op = "rename" /\ Found(Flat, j))
      BY <1>2, <2>3, <2>6
    <3>3. (pc' = "put_lfn" => j.left \in 1 .. LfnCount(j.new)) /\ (pc' = "put_sfn" => j.left = 0)
      BY <1>4, <2>1, <2>3
    <3>4. QED
      BY <1>2, <2>1, <2>3, <2>5, <3>1, <3>2, <3>3 DEF JobOK
  <2>8. /\ hist'.made = Forgotten(hist.made, job.obj) /\ hist'.alive = hist.alive
        /\ hist'.littered = hist.littered /\ hist'.torn = hist.torn
        /\ hist' = [made |-> hist'.made, alive |-> hist'.alive, littered |-> hist'.littered, torn |-> hist'.torn]
    BY <1>1, <2>1 DEF HistT
  <2>9. HistT(hist') /\ hist.torn \in BOOLEAN
    BY <1>1, <2>8 DEF HistT, Forgotten
  <2>10. pc' \notin {"dir_clear", "dir_clear_write"}
    BY <2>1
  <2>11. QED
    BY <1>1, <1>5, <1>9, <2>7, <2>8, <2>9, <2>10, StepOK DEF Counted
<1>13. QED
  BY <1>10, <1>11, <1>12

\* The entries the request has found stay found in a table that keeps them.
LEMMA FoundKept ==
  ASSUME NEW f, NEW g, NEW j, NEW u, Found(f, j), u.old = j.old, u.blk = j.blk, u.obj = j.obj,
         f.len \in Nat, g.len \in Nat, f.len <= g.len,
         \A i \in Slots : f.ent[i].kind \in {"sfn", "lfn"} => g.ent[i] = f.ent[i]
  PROVE  Found(g, u)
<1>1. /\ j.old \in Slots /\ j.blk \in 1 .. j.old
      /\ SectorOf(j.old) <= f.len /\ f.ent[j.old].kind = "sfn" /\ f.ent[j.old].obj = j.obj
      /\ \A i \in Slots : j.blk <= i /\ i < j.old => f.ent[i].kind = "lfn"
  BY DEF Found, Holds
<1>2. SectorOf(j.old) \in Nat
  BY <1>1, SlotFacts
<1>3. QED
  BY <1>1, <1>2 DEF Found, Holds

\* dir_next links a cluster in the window.
LEMMA NextStep ==
  ASSUME IInv, dir_next
  PROVE  IInv'
<1>1. Window(dev, win) /\ HistT(hist) /\ pc = "dir_next" /\ Quiet
  BY DEF IInv, dir_next
<1>2. PICK o \in Move(FatSector, FatSector) :
        /\ Take(o)
        /\ IF ~o.ok THEN Fails /\ win' = o.win
           ELSE IF Full THEN Says("FR_DENIED") /\ win' = o.win
           ELSE /\ win' = [o.win EXCEPT !.len = @ + 1, !.dirty = TRUE]
                /\ GoOn(job, "dir_clear")
  BY DEF dir_next
<1>3. /\ Flat \in DevT /\ dev \in DevT /\ dev.len \in 1 .. MaxSectors
      /\ Flat.len \in 1 .. MaxSectors /\ Linked = Flat.len /\ MaxSectors \in Nat
  BY <1>1, TableFacts, DirAssumption DEF DevT
<1>4. /\ Sound(dev, win, o)
      /\ o.ok => o.win.sect = FatSector /\ o.win.len = Flat.len
  <2>1. FatSector \in 0 .. MaxSectors /\ FatSector <= Flat.len
    BY <1>3 DEF FatSector
  <2>2. QED
    BY <1>1, <2>1, MoveOK
<1>5. CASE ~o.ok
  BY <1>1, <1>2, <1>4, <1>5, FailsOK
<1>6. CASE o.ok /\ Full
  BY <1>1, <1>2, <1>4, <1>6, SaysOK
<1>7. CASE o.ok /\ ~Full
  <2> DEFINE w == [o.win EXCEPT !.len = @ + 1, !.dirty = TRUE]
             u1 == [o.win EXCEPT !.len = @ + 1]
             u2 == [u1 EXCEPT !.dirty = TRUE]
  <2>1. /\ win' = w /\ job' = job /\ pc' = "dir_clear" /\ hist' = hist
        /\ dev' = o.dev
    BY <1>2, <1>7 DEF GoOn, Take
  <2>2. /\ Window(o.dev, o.win) /\ Flushed(o.dev, o.win) = Flat /\ o.dev \in {dev, Flat}
        /\ o.win.sect = FatSector /\ o.win.len = Flat.len /\ Flat.len < MaxSectors
    BY <1>3, <1>4, <1>7 DEF Sound, Flat, Full
  <2>3. o.win \in WinT /\ o.dev \in DevT /\ Untouched(o.dev) /\ o.dev.len <= o.win.len
    BY <2>2 DEF Window
  <2>4. win' \in WinT /\ win'.sect = FatSector /\ win'.len = Flat.len + 1 /\ win'.dirty
    <3>1. u1 \in WinT /\ u1.sect = FatSector /\ u1.len = Flat.len + 1
      BY <1>3, <2>2, <2>3 DEF WinT
    <3> HIDE DEF u1
    <3>2. u2 \in WinT /\ u2.sect = u1.sect /\ u2.len = u1.len /\ u2.dirty
      BY <3>1 DEF WinT
    <3>3. w = u2
      BY DEF u1
    <3> HIDE DEF w, u2
    <3>4. QED
      BY <2>1, <3>1, <3>2, <3>3
  <2> HIDE DEF w, u1, u2
  <2>5. o.dev.len \in 1 .. MaxSectors
    BY <2>3 DEF DevT
  <2>6. Window(dev', win')
    BY <1>3, <2>1, <2>2, <2>3, <2>4, <2>5, DirAssumption DEF Window, FatSector, NoSector
  <2>7. \A i \in Slots : SectorOf(i) # FatSector
    BY SlotFacts DEF FatSector
  <2>8. \A i \in Slots : dev'.ent[i] = Flat.ent[i]
    BY <2>1, <2>2, <2>7, FlushedFacts
  <2>9. Flat'.len = Flat.len + 1 /\ \A i \in Slots : Flat'.ent[i] = Flat.ent[i]
    <3>1. /\ Flat'.len = win'.len
          /\ \A i \in Slots : Flat'.ent[i] = dev'.ent[i]
      BY <2>4, <2>6, <2>7, FlushedFacts DEF Flat
    <3>2. QED
      BY <2>4, <2>8, <3>1
  <2>10. ASSUME NEW ob, Has(Flat, ob) PROVE Has(Flat', ob)
    <3>1. PICK i \in Slots : Holds(Flat, i, ob)
      BY <2>10 DEF Has
    <3>2. SectorOf(i) \in Nat
      BY SlotFacts
    <3>3. Holds(Flat', i, ob)
      BY <1>3, <2>9, <3>1, <3>2 DEF Holds
    <3>4. QED
      BY <3>3 DEF Has
  <2>11. Survives'
    BY <2>1, <2>2, <2>10 DEF IInv, Survives
  <2>12. Clean'
    <3>1. ~hist.torn => CleanTo(Flat, Flat.len)
      BY <1>1 DEF IInv, Clean
    <3>2. win'.len - 1 = Flat.len
      BY <1>3, <2>4
    <3>3. ~hist.torn => CleanTo(dev', win'.len - 1)
      BY <2>8, <3>1, <3>2 DEF CleanTo
    <3>4. QED
      BY <2>1, <3>3 DEF Clean
  <2>13. JobOK'
    <3>1. /\ job \in JobT /\ job.name \in Names /\ job.new \in Names /\ job.obj \in Objects
          /\ job.op # "none" /\ job.sfn \in ShortNames
          /\ job.op = "create" \/ (job.op = "rename" /\ Found(Flat, job))
      BY <1>1 DEF IInv, JobOK, Registering
    <3>2. Found(Flat, job) => Found(Flat', job)
      BY <1>3, <2>9, FoundKept
    <3>3. dev'.len < win'.len
      BY <1>3, <2>1, <2>2, <2>3, <2>4, <2>5
    <3>4. QED
      BY <2>1, <2>4, <3>1, <3>2, <3>3 DEF JobOK, Calls, Registering
  <2>14. /\ faults' \in 0 .. MaxFaults /\ requests' \in 0 .. MaxRequests /\ crashes' \in 0 .. MaxCrashes
    <3>1. faults' = IF o.fault THEN faults + 1 ELSE faults
      BY <1>2 DEF Take
    <3>2. ~o.fault
      BY <1>4, <1>7 DEF Sound
    <3>3. QED
      BY <1>1, <3>1, <3>2 DEF IInv, Quiet
  <2>15. QED
    BY <1>1, <2>1, <2>6, <2>11, <2>12, <2>13, <2>14 DEF IInv
<1>8. QED
  BY <1>5, <1>6, <1>7

\* dir_clear writes the link.
LEMMA ClearStep ==
  ASSUME IInv, dir_clear
  PROVE  IInv'
<1>1. /\ Window(dev, win) /\ HistT(hist) /\ pc = "dir_clear" /\ Quiet
      /\ win.sect = FatSector /\ dev.len < win.len
  BY DEF IInv, dir_clear, JobOK
<1>2. PICK o \in {Synced} \cup FlushFails :
        Take(o) /\ win' = o.win /\ IF o.ok THEN GoOn(job, "dir_clear_write") ELSE Fails
  BY DEF dir_clear, Synced
<1>3. /\ Sound(dev, win, o)
      /\ o.win.sect = win.sect /\ o.win.len = win.len
      /\ o.ok => o.dev = Flat /\ ~o.win.dirty
  BY <1>1, SyncMoves
<1>4. CASE ~o.ok
  BY <1>1, <1>2, <1>3, <1>4, FailsOK
<1>5. CASE o.ok
  <2>1. /\ job' = job /\ pc' = "dir_clear_write" /\ hist' = hist /\ dev' = Flat
        /\ win'.sect = FatSector /\ win'.len = win.len /\ ~win'.dirty
    BY <1>1, <1>2, <1>3, <1>5 DEF GoOn, Take
  <2>2. /\ Window(dev', win') /\ Flat' = Flat
        /\ faults' \in 0 .. MaxFaults /\ requests' \in 0 .. MaxRequests /\ crashes' \in 0 .. MaxCrashes
    BY <1>1, <1>2, <1>3, MovedOK DEF Counted
  <2>3. \A i \in Slots : Flat.ent[i] = dev.ent[i]
    <3>1. \A i \in Slots : SectorOf(i) # FatSector
      BY SlotFacts DEF FatSector
    <3>2. QED
      BY <1>1, <3>1, FlushedFacts DEF Flat
  <2>4. Untouched(dev) /\ dev.len \in Nat
    BY <1>1 DEF Window, DevT
  <2>5. \A i \in Slots : SectorOf(i) = win.len => Flat.ent[i] = Junk
    BY <1>1, <2>3, <2>4 DEF Untouched
  <2>6. Survives'
    BY <2>1, <2>2 DEF IInv, Survives
  <2>7. Clean'
    BY <1>1, <2>1, <2>3 DEF IInv, Clean, CleanTo
  <2>8. JobOK'
    <3>1. /\ job \in JobT /\ job.name \in Names /\ job.new \in Names /\ job.obj \in Objects
          /\ job.op # "none" /\ job.sfn \in ShortNames
          /\ job.op = "create" \/ (job.op = "rename" /\ Found(Flat, job))
      BY <1>1 DEF IInv, JobOK, Registering
    <3>2. QED
      BY <2>1, <2>2, <2>5, <3>1 DEF JobOK, Calls, Registering
  <2>9. QED
    BY <1>1, <2>1, <2>2, <2>6, <2>7, <2>8 DEF IInv
<1>6. QED
  BY <1>4, <1>5

\* The new cluster is cleared, in the window and on the device, or in the window
\* alone.
LEMMA ClearWriteStep ==
  ASSUME IInv, dir_clear_write
  PROVE  IInv'
<1> DEFINE w == [NoWindow EXCEPT !.sect = Linked]
<1>1. /\ Window(dev, win) /\ HistT(hist) /\ pc = "dir_clear_write" /\ Quiet /\ Survives
      /\ win.sect = FatSector /\ ~win.dirty
      /\ \A i \in Slots : SectorOf(i) = win.len => dev.ent[i] = Junk
  BY DEF IInv, dir_clear_write, JobOK
<1>2. /\ dev \in DevT /\ Untouched(dev) /\ Flat = dev /\ win.len = dev.len /\ Linked = dev.len
      /\ dev.ent \in [Slots -> Entry] /\ dev.len \in 1 .. MaxSectors
  BY <1>1, FlushedFacts DEF Window, Linked, Flat, DevT
<1>3. /\ w \in WinT /\ w.sect = dev.len /\ ~w.dirty /\ \A k \in 1 .. PerSector : w.ent[k] = End
  <2>1. /\ NoWindow \in WinT /\ NoWindow.dirty = FALSE
        /\ \A k \in 1 .. PerSector : NoWindow.ent[k] = End
    BY EntryFacts, DirAssumption DEF NoWindow, WinT, NoSector
  <2>2. /\ w \in WinT /\ w.sect = Linked /\ w.dirty = NoWindow.dirty /\ w.ent = NoWindow.ent
    BY <1>2, <2>1, DirAssumption DEF WinT, NoSector
  <2> HIDE DEF w
  <2>3. QED
    BY <1>2, <2>1, <2>2
<1>4. win' = w
  BY DEF dir_clear_write
<1> HIDE DEF w
<1>5. /\ Cleared \in DevT /\ Cleared.len = dev.len
      /\ \A i \in Slots : Cleared.ent[i] = IF SectorOf(i) = dev.len THEN End ELSE dev.ent[i]
  <2> DEFINE g == [i \in Slots |-> IF SectorOf(i) = Linked THEN End ELSE dev.ent[i]]
  <2>1. Cleared = [dev EXCEPT !.ent = g]
    BY DEF Cleared
  <2>2. g \in [Slots -> Entry]
    BY <1>2, EntryFacts
  <2>3. \A i \in Slots : g[i] = IF SectorOf(i) = dev.len THEN End ELSE dev.ent[i]
    BY <1>2
  <2> HIDE DEF g
  <2>4. Cleared \in DevT /\ Cleared.len = dev.len /\ Cleared.ent = g
    BY <1>2, <2>1, <2>2 DEF DevT
  <2>5. QED
    BY <2>3, <2>4
<1>6. dev' \in {dev, Cleared}
  BY DEF dir_clear_write
<1>7. Window(dev', win') /\ Flat' = dev'
  <2>1. dev' \in DevT /\ dev'.len = dev.len
    BY <1>2, <1>5, <1>6
  <2>2. Untouched(dev')
    BY <1>2, <1>5, <1>6 DEF Untouched
  <2>3. Agrees(dev', w)
    BY <1>1, <1>2, <1>3, <1>5, <1>6, SlotFacts DEF Agrees
  <2>4. w.sect \notin {FatSector, NoSector} /\ w.sect <= dev'.len
    BY <1>2, <1>3, <2>1, DirAssumption DEF FatSector, NoSector
  <2>5. Window(dev', w)
    BY <1>3, <2>1, <2>2, <2>3, <2>4 DEF Window
  <2>6. Flat' = dev'
    BY <1>3, <1>4 DEF Flat, Flushed
  <2>7. QED
    BY <1>4, <2>5, <2>6
<1>8. \A i \in Slots : dev.ent[i].kind \in {"sfn", "lfn"} => dev'.ent[i] = dev.ent[i]
  BY <1>1, <1>2, <1>5, <1>6, EntryFacts
<1>9. dev'.len = dev.len
  BY <1>5, <1>6
<1>10. ASSUME NEW ob, Has(dev, ob) PROVE Has(dev', ob)
  <2>1. PICK i \in Slots : Holds(dev, i, ob)
    BY <1>10 DEF Has
  <2>2. Holds(dev', i, ob)
    BY <1>8, <1>9, <2>1 DEF Holds
  <2>3. QED
    BY <2>2 DEF Has
<1>11. requests' \in 0 .. MaxRequests /\ crashes' \in 0 .. MaxCrashes
  BY <1>1 DEF IInv, Quiet
<1>12. CASE /\ dev' = Cleared /\ faults' = faults
            /\ GoOn([job EXCEPT !.at = Linked], "dir_alloc")
  <2> DEFINE j == [job EXCEPT !.at = Linked]
  <2>1. job' = j /\ pc' = "dir_alloc" /\ hist' = hist
    BY <1>12 DEF GoOn
  <2>2. /\ job \in JobT /\ job.name \in Names /\ job.new \in Names /\ job.obj \in Objects
        /\ job.op # "none" /\ job.sfn \in ShortNames
        /\ job.op = "create" \/ (job.op = "rename" /\ Found(dev, job))
    BY <1>1, <1>2 DEF IInv, JobOK, Registering
  <2>3. /\ j \in JobT
        /\ j.op = job.op /\ j.name = job.name /\ j.new = job.new /\ j.obj = job.obj
        /\ j.sfn = job.sfn /\ j.old = job.old /\ j.blk = job.blk
    <3>1. Linked \in 0 .. MaxSectors * PerSector + 1
      <4>1. /\ MaxSectors * PerSector \in Nat /\ MaxSectors <= MaxSectors * PerSector
            /\ dev.len \in 0 .. MaxSectors
        BY <1>2, TableBound
      <4>2. QED
        BY <1>2, <4>1, DirAssumption
    <3>2. QED
      BY <2>2, <3>1, JobAt
  <2> HIDE DEF j
  <2>4. Found(dev, job) => Found(dev', j)
    BY <1>2, <1>8, <1>9, <2>3, FoundKept
  <2>5. JobOK'
    BY <1>7, <2>1, <2>2, <2>3, <2>4 DEF JobOK, Calls, Registering
  <2>6. Survives'
    BY <1>1, <1>2, <1>7, <1>10, <2>1 DEF Survives
  <2>7. Clean'
    <3>1. ~hist.torn => CleanTo(dev, win.len - 1)
      BY <1>1 DEF IInv, Clean
    <3>2. ~hist.torn => CleanTo(dev', dev'.len)
      <4>1. SUFFICES ASSUME ~hist.torn, NEW i \in Slots, SectorOf(i) <= dev.len
                     PROVE  dev'.ent[i] # Junk
        BY <1>9 DEF CleanTo
      <4>2. CASE SectorOf(i) = dev.len
        BY <1>5, <1>12, <4>2, EntryFacts
      <4>3. CASE SectorOf(i) # dev.len
        <5>1. SectorOf(i) \in Nat
          BY SlotFacts
        <5>2. dev.ent[i] # Junk
          BY <1>2, <3>1, <4>1, <4>3, <5>1 DEF CleanTo
        <5>3. QED
          BY <1>5, <1>12, <4>3, <5>2
      <4>4. QED
        BY <4>2, <4>3
    <3>3. QED
      BY <1>7, <2>1, <3>2 DEF Clean
  <2>8. faults' \in 0 .. MaxFaults
    BY <1>12 DEF IInv
  <2>9. QED
    BY <1>1, <1>7, <1>11, <2>1, <2>5, <2>6, <2>7, <2>8 DEF IInv
<1>13. CASE faults < MaxFaults /\ faults' = faults + 1 /\ Fails
  <2>1. /\ pc' = "idle" /\ job' = NoJob
        /\ hist' = [hist EXCEPT !.littered = @ \cup Cut,
                                !.torn = @ \/ pc \in {"dir_clear", "dir_clear_write"}]
    BY <1>13 DEF Fails, Answer
  <2>2. Cut = {}
    BY <1>1 DEF Cut
  <2>3. /\ hist'.made = hist.made /\ hist'.alive = hist.alive /\ hist'.littered = hist.littered \cup Cut
        /\ hist'.torn = (hist.torn \/ pc \in {"dir_clear", "dir_clear_write"})
        /\ hist' = [made |-> hist'.made, alive |-> hist'.alive, littered |-> hist'.littered, torn |-> hist'.torn]
    BY <1>1, <2>1 DEF HistT
  <2>4. HistT(hist') /\ hist'.torn
    BY <1>1, <2>2, <2>3 DEF HistT
  <2>5. Survives'
    BY <1>1, <1>2, <1>7, <1>10, <2>3 DEF Survives
  <2>6. faults' \in 0 .. MaxFaults
    BY <1>13, DirAssumption DEF IInv
  <2>7. JobOK'
    BY <2>1, IdleOK
  <2>8. QED
    BY <1>7, <1>11, <2>4, <2>5, <2>6, <2>7 DEF IInv, Clean
<1>14. QED
  BY <1>12, <1>13 DEF dir_clear_write

\* dir_register and dir_remove change an entry: the access fails and the request
\* ends, or the entry is changed in the window and the request goes on.
LEMMA PutFacts ==
  ASSUME IInv, pc # "idle", Quiet,
         NEW walks, NEW e \in Entry, NEW j, NEW next, PutEntry(walks, e, j, next),
         job.at \in Slots, SectorOf(job.at) <= Flat.len
  PROVE  \/ IInv'
         \/ /\ Window(dev', win') /\ Put(Flat, Flat', job.at, e)
            /\ dev' \in {dev, Flat}
            /\ faults' \in 0 .. MaxFaults /\ requests' \in 0 .. MaxRequests
            /\ crashes' \in 0 .. MaxCrashes
            /\ GoOn(j, next)
<1> DEFINE b == SectorOf(job.at)
<1>1. b \in 1 .. MaxSectors /\ b \in 0 .. MaxSectors /\ b # FatSector /\ b <= Flat.len
  BY SlotFacts, DirAssumption DEF FatSector
<1>2. PICK o \in Seek(job.at, walks) :
        /\ Take(o)
        /\ IF o.ok THEN win' = Write(o.win, job.at, e) /\ GoOn(j, next)
                   ELSE win' = o.win /\ Fails
  BY DEF PutEntry
<1>3. o \in Move(b, b) \/ o \in Move(FatSector, b)
  BY <1>2 DEF Seek
<1>4. Window(dev, win)
  BY DEF IInv
<1> HIDE DEF b
<1>5. Sound(dev, win, o) /\ (o.ok => o.win.sect = b)
  BY <1>1, <1>3, <1>4, MoveOK
<1>6. CASE ~o.ok
  BY <1>2, <1>5, <1>6, FailsOK
<1>7. CASE o.ok
  <2>1. /\ Window(o.dev, o.win) /\ Flushed(o.dev, o.win) = Flat /\ o.dev \in {dev, Flat}
        /\ o.win.sect = SectorOf(job.at)
    BY <1>5, <1>7 DEF Sound, Flat, b
  <2>2. win' = Write(o.win, job.at, e) /\ dev' = o.dev /\ GoOn(j, next)
    BY <1>2, <1>7 DEF Take
  <2>3. /\ Window(dev', win')
        /\ Put(Flat, Flushed(dev', win'), job.at, e)
    BY <2>1, <2>2, WriteOK
  <2>4. faults' = faults /\ requests' = requests /\ crashes' = crashes
    BY <1>2, <1>5, <1>7 DEF Take, Sound, Quiet
  <2>5. QED
    BY <2>1, <2>2, <2>3, <2>4 DEF IInv, Flat
<1>8. QED
  BY <1>6, <1>7

\* Every other entry of an object stays.
LEMMA PutHolds ==
  ASSUME NEW f, NEW g, NEW i, NEW e, Put(f, g, i, e), NEW k \in Slots, k # i,
         f.ent[k].kind \in {"sfn", "lfn"}
  PROVE  g.ent[k] = f.ent[k]
BY EntryFacts DEF Put

\* Changing an entry keeps the invariant when no object that is to survive has
\* it, and the request goes on soundly.
LEMMA PutKeeps ==
  ASSUME IInv, pc \notin {"idle", "dir_clear", "dir_clear_write"}, Quiet,
         NEW walks, NEW e \in Entry, e # Junk,
         NEW j, NEW next \in Calls \ {"dir_clear", "dir_clear_write"},
         PutEntry(walks, e, j, next),
         job.at \in Slots, SectorOf(job.at) <= Flat.len,
         \A ob \in hist.alive : \E i \in Slots : Holds(Flat, i, ob) /\ i # job.at,
         Put(Flat, Flat', job.at, e) /\ GoOn(j, next) => JobOK'
  PROVE  IInv'
<1>1. SUFFICES ASSUME /\ Window(dev', win') /\ Put(Flat, Flat', job.at, e)
                      /\ dev' \in {dev, Flat}
                      /\ faults' \in 0 .. MaxFaults /\ requests' \in 0 .. MaxRequests
                      /\ crashes' \in 0 .. MaxCrashes
                      /\ GoOn(j, next)
               PROVE  IInv'
  BY PutFacts
<1>2. pc' = next /\ hist' = hist /\ JobOK' /\ HistT(hist')
  BY <1>1 DEF GoOn, IInv
<1>3. Survives'
  <2>1. SUFFICES ASSUME NEW ob \in hist.alive PROVE Has(dev', ob) /\ Has(Flat', ob)
    BY <1>2 DEF Survives
  <2>2. Has(dev, ob) /\ Has(Flat, ob)
    BY DEF IInv, Survives
  <2>3. PICK i \in Slots : Holds(Flat, i, ob) /\ i # job.at
    OBVIOUS
  <2>4. Flat'.ent[i] = Flat.ent[i] /\ Flat'.len = Flat.len
    BY <1>1, <2>3, PutHolds DEF Holds, Put
  <2>5. Holds(Flat', i, ob)
    BY <2>3, <2>4 DEF Holds
  <2>6. QED
    BY <1>1, <2>2, <2>5 DEF Has
<1>4. Clean'
  <2>1. SUFFICES ASSUME ~hist.torn
                 PROVE  CleanTo(Flat', Flat'.len) /\ CleanTo(dev', dev'.len)
    BY <1>2 DEF Clean
  <2>2. CleanTo(Flat, Flat.len) /\ CleanTo(dev, dev.len)
    BY <2>1 DEF IInv, Clean
  <2>3. CleanTo(dev', dev'.len)
    BY <1>1, <2>2
  <2>4. CleanTo(Flat', Flat'.len)
    BY <1>1, <2>2, EntryFacts DEF CleanTo, Put
  <2>5. QED
    BY <2>3, <2>4
<1>5. QED
  BY <1>1, <1>2, <1>3, <1>4 DEF IInv

\* While a request registers a name, the entry it writes next is not one of an
\* object: every object has another one.
LEMMA RoomFacts ==
  ASSUME IInv, Room(Flat, job)
  PROVE  /\ job.at \in Slots /\ SectorOf(job.at) <= Flat.len
         /\ Flat.ent[job.at].kind \notin {"sfn", "lfn"}
         /\ \A ob \in hist.alive : \E i \in Slots : Holds(Flat, i, ob) /\ i # job.at
<1>1. job \in JobT
  BY DEF IInv, JobOK
<1>2. job.at \in Slots /\ job.left \in Nat /\ job.at <= job.at + job.left
  BY <1>1, DirAssumption DEF Room, JobT, Slots
<1>3. SectorOf(job.at) <= Flat.len /\ Flat.ent[job.at].kind \notin {"sfn", "lfn"}
  <2>1. job.at <= job.at
    BY <1>2, DirAssumption DEF Slots
  <2>2. QED
    BY <1>2, <2>1 DEF Room
<1>4. ASSUME NEW ob \in hist.alive PROVE \E i \in Slots : Holds(Flat, i, ob) /\ i # job.at
  <2>1. PICK i \in Slots : Holds(Flat, i, ob)
    BY DEF IInv, Survives, Has
  <2>2. i # job.at
    BY <1>3, <2>1 DEF Holds
  <2>3. QED
    BY <2>1, <2>2
<1>5. QED
  BY <1>2, <1>3, <1>4

\* dir_register writes the LFN entries, the last piece first.
LEMMA PutLfnStep ==
  ASSUME IInv, put_lfn
  PROVE  IInv'
<1> DEFINE e == Lfn(job.new, job.left, Checksum[job.sfn])
           j == WithLeft(job, job.at + 1, job.left - 1)
           next == IF job.left > 1 THEN "put_lfn" ELSE "put_sfn"
<1>1. /\ pc = "put_lfn" /\ Quiet
      /\ PutEntry(job.left = LfnCount(job.new), e, j, next)
  BY DEF put_lfn, WithLeft
<1>2. /\ job \in JobT /\ job.name \in Names /\ job.new \in Names /\ job.obj \in Objects
      /\ job.op # "none" /\ job.sfn \in ShortNames
      /\ job.op = "create" \/ (job.op = "rename" /\ Found(Flat, job))
      /\ Room(Flat, job) /\ job.left \in 1 .. LfnCount(job.new)
  BY <1>1 DEF IInv, JobOK, Registering
<1>3. Flat.len \in Nat
  BY TableFacts DEF IInv, DevT
<1>4. /\ job.at \in Slots /\ SectorOf(job.at) <= Flat.len
      /\ Flat.ent[job.at].kind \notin {"sfn", "lfn"}
      /\ \A ob \in hist.alive : \E i \in Slots : Holds(Flat, i, ob) /\ i # job.at
  BY <1>2, RoomFacts
<1>5. LfnCount(job.new) \in Nat /\ job.left \in DOMAIN Parts[job.new]
  BY <1>2, LfnCountIs
<1>6. e \in Entry /\ e.kind = "lfn" /\ e # Junk
  BY <1>2, <1>5, EntryFacts
<1>7. /\ MaxSectors * PerSector \in Nat /\ job.at \in Nat /\ job.left \in Nat \ {0}
      /\ job.at + 1 \in 0 .. MaxSectors * PerSector + 1 /\ job.left - 1 \in Nat
  BY <1>2, <1>4, <1>5, DirAssumption DEF Slots
<1>8. /\ j \in JobT /\ j.at = job.at + 1 /\ j.left = job.left - 1
      /\ j.op = job.op /\ j.name = job.name /\ j.new = job.new /\ j.obj = job.obj
      /\ j.sfn = job.sfn /\ j.old = job.old /\ j.blk = job.blk
  BY <1>2, <1>7, JobLeft
<1> HIDE DEF e, j
<1>9. ASSUME Put(Flat, Flat', job.at, e), GoOn(j, next) PROVE JobOK'
  <2>1. job' = j /\ pc' = next
    BY <1>9 DEF GoOn
  <2>2. Room(Flat', j)
    <3>1. j.at \in Slots /\ j.at + j.left = job.at + job.left /\ j.at + j.left \in Slots
      BY <1>2, <1>7, <1>8 DEF Room, Slots
    <3>2. ASSUME NEW i \in Slots, j.at <= i, i <= j.at + j.left
          PROVE  SectorOf(i) <= Flat'.len /\ Flat'.ent[i].kind \notin {"sfn", "lfn"}
      <4>1. i \in Nat /\ i # job.at /\ job.at <= i /\ i <= job.at + job.left
        BY <1>7, <1>8, <3>1, <3>2 DEF Slots
      <4>2. SectorOf(i) <= Flat.len /\ Flat.ent[i].kind \notin {"sfn", "lfn"}
        BY <1>2, <4>1 DEF Room
      <4>3. QED
        BY <1>9, <4>1, <4>2, EntryFacts DEF Put
    <3>3. QED
      BY <3>1, <3>2 DEF Room
  <2>3. job.op = "create" \/ (job.op = "rename" /\ Found(Flat', j))
    <3>1. Flat'.len = Flat.len
      BY <1>9 DEF Put
    <3>2. \A i \in Slots : Flat.ent[i].kind \in {"sfn", "lfn"} => Flat'.ent[i] = Flat.ent[i]
      BY <1>4, <1>9, PutHolds
    <3>3. Found(Flat, job) => Found(Flat', j)
      BY <1>3, <1>8, <3>1, <3>2, FoundKept
    <3>4. QED
      BY <1>2, <3>3
  <2>4. /\ pc' \in {"put_lfn", "put_sfn"}
        /\ pc' = "put_lfn" => j.left \in 1 .. LfnCount(j.new)
        /\ pc' = "put_sfn" => j.left = 0
    BY <1>2, <1>5, <1>7, <1>8, <2>1
  <2>5. QED
    BY <1>2, <1>8, <2>1, <2>2, <2>3, <2>4 DEF JobOK, Calls, Registering
<1>10. next \in Calls \ {"dir_clear", "dir_clear_write"}
  BY DEF Calls, Registering
<1> HIDE DEF next
<1>11. QED
  BY <1>1, <1>4, <1>6, <1>9, <1>10, PutKeeps

\* dir_register writes the SFN entry, and f_rename turns to the old entries.
LEMMA PutSfnStep ==
  ASSUME IInv, put_sfn
  PROVE  IInv'
<1> DEFINE e == NewEntry(job)
           j == [job EXCEPT !.at = job.blk]
           next == IF job.op = "create" THEN "sync_fs" ELSE "dir_remove"
<1>1. pc = "put_sfn" /\ Quiet /\ PutEntry(FALSE, e, j, next)
  BY DEF put_sfn
<1>2. /\ job \in JobT /\ job.name \in Names /\ job.new \in Names /\ job.obj \in Objects
      /\ job.op # "none" /\ job.sfn \in ShortNames
      /\ job.op = "create" \/ (job.op = "rename" /\ Found(Flat, job))
      /\ Room(Flat, job)
  BY <1>1 DEF IInv, JobOK, Registering
<1>3. /\ job.at \in Slots /\ SectorOf(job.at) <= Flat.len
      /\ Flat.ent[job.at].kind \notin {"sfn", "lfn"}
      /\ \A ob \in hist.alive : \E i \in Slots : Holds(Flat, i, ob) /\ i # job.at
  BY <1>2, RoomFacts
<1>4. e \in Entry /\ e.kind = "sfn" /\ e.obj = job.obj /\ e # Junk
  BY <1>2, EntryFacts DEF NewEntry
<1>5. /\ j \in JobT /\ j.at = job.blk
      /\ j.op = job.op /\ j.name = job.name /\ j.new = job.new /\ j.obj = job.obj
      /\ j.sfn = job.sfn /\ j.old = job.old /\ j.blk = job.blk
  <2>1. job.blk \in 0 .. MaxSectors * PerSector + 1
    <3>1. job.blk \in Slots \cup {0} /\ MaxSectors * PerSector \in Nat
      BY <1>2, DirAssumption DEF JobT
    <3>2. QED
      BY <3>1 DEF Slots
  <2>2. QED
    BY <1>2, <2>1, JobAt
<1> HIDE DEF e, j
<1>6. ASSUME Put(Flat, Flat', job.at, e), GoOn(j, next) PROVE JobOK'
  <2>1. job' = j /\ pc' = next /\ hist' = hist
    BY <1>6 DEF GoOn
  <2>2. /\ Holds(Flat', job.at, job.obj) /\ Flat'.len = Flat.len
        /\ \A i \in Slots : Flat.ent[i].kind \in {"sfn", "lfn"} => Flat'.ent[i] = Flat.ent[i] /\ i # job.at
    BY <1>3, <1>4, <1>6, PutHolds DEF Put, Holds
  <2>3. CASE job.op = "create"
    <3>1. Has(Flat', job.obj)
      BY <1>3, <2>2 DEF Has
    <3>2. QED
      BY <1>2, <1>5, <2>1, <2>3, <3>1 DEF JobOK, Calls, Registering
  <2>4. CASE job.op = "rename"
    <3>1. /\ job.old \in Slots /\ job.blk \in 1 .. job.old
          /\ Holds(Flat, job.old, job.obj)
          /\ \A i \in Slots : job.blk <= i /\ i < job.old => Flat.ent[i].kind = "lfn"
      BY <1>2, <2>4 DEF Found
    <3>2. Holds(Flat', job.old, job.obj) /\ job.old # job.at
      BY <2>2, <3>1 DEF Holds
    <3>3. \A i \in Slots : job.blk <= i /\ i < job.old => Flat'.ent[i].kind = "lfn" /\ i # job.at
      BY <2>2, <3>1
    <3>4. ~(job.blk <= job.at /\ job.at <= job.old)
      <4>1. job.at \in Nat /\ job.old \in Nat
        BY <1>3, <3>1, DirAssumption DEF Slots
      <4>2. QED
        BY <1>3, <3>2, <3>3, <4>1
    <3>5. job.blk \in job.blk .. job.old
      BY <3>1
    <3>6. Removing(Flat', j, hist.alive)
      BY <1>3, <1>5, <2>2, <2>4, <3>1, <3>2, <3>3, <3>4, <3>5 DEF Removing
    <3>7. QED
      BY <1>2, <1>5, <2>1, <2>4, <3>6 DEF JobOK, Calls, Registering
  <2>5. QED
    BY <1>2, <2>3, <2>4
<1>7. next \in Calls \ {"dir_clear", "dir_clear_write"}
  BY DEF Calls, Registering
<1> HIDE DEF next
<1>8. QED
  BY <1>1, <1>3, <1>4, <1>6, <1>7, PutKeeps
-----------------------------------------------------------------------------
(* dir_remove, the end of a request, and power losses.                     *)

\* dir_remove: the SFN entry comes last, and no other object's is before it.
LEMMA RemoveStep ==
  ASSUME IInv, dir_remove
  PROVE  IInv'
<1> DEFINE walks == job.at = job.blk /\ job.blk < job.old
           j == [job EXCEPT !.at = @ + 1]
           next == IF job.at < job.old THEN "dir_remove" ELSE "sync_fs"
<1>1. pc = "dir_remove" /\ Quiet /\ PutEntry(walks, Deleted, j, next)
  BY DEF dir_remove
<1>2. /\ job \in JobT /\ job.name \in Names /\ job.new \in Names /\ job.obj \in Objects
      /\ Removing(Flat, job, hist.alive)
  BY <1>1 DEF IInv, JobOK
<1>3. /\ job.old \in Slots /\ job.blk \in 1 .. job.old /\ job.at \in job.blk .. job.old
      /\ Holds(Flat, job.old, job.obj)
      /\ \A i \in Slots : job.at <= i /\ i < job.old => Flat.ent[i].kind # "sfn"
      /\ job.op \in {"unlink", "rename"}
      /\ job.op = "unlink" => job.obj \notin hist.alive
      /\ job.op = "rename" =>
           \E i \in Slots : Holds(Flat, i, job.obj) /\ ~(job.blk <= i /\ i <= job.old)
  BY <1>2 DEF Removing
<1>4. MaxSectors * PerSector \in Nat /\ job.old \in Nat /\ job.old <= MaxSectors * PerSector
  BY <1>3, DirAssumption DEF Slots
<1>5. job.at \in Slots /\ job.at \in Nat /\ job.at <= job.old /\ job.blk \in Nat /\ job.blk <= job.at
  BY <1>3, <1>4 DEF Slots
<1>6. SectorOf(job.at) <= Flat.len
  <2>1. SectorOf(job.at) <= SectorOf(job.old)
    <3>1. /\ SectorOf(job.at) \in Nat /\ SectorOf(job.old) \in 1 .. MaxSectors
          /\ Within(job.old) \in 1 .. PerSector /\ PerSector \in Nat /\ MaxSectors \in Nat
          /\ job.old = (SectorOf(job.old) - 1) * PerSector + Within(job.old)
      BY <1>3, <1>5, SlotFacts, DirAssumption
    <3>2. job.old <= SectorOf(job.old) * PerSector
      <4> DEFINE s == SectorOf(job.old)
      <4>1. s \in Nat /\ s >= 1
        BY <3>1
      <4> HIDE DEF s
      <4>2. (s - 1) * PerSector + PerSector = s * PerSector /\ (s - 1) * PerSector \in Nat
        BY <3>1, <4>1
      <4>3. QED
        BY <3>1, <4>2 DEF s
    <3>3. SectorOf(job.old) * PerSector \in Nat
      BY <3>1
    <3>4. job.at <= SectorOf(job.old) * PerSector
      BY <1>4, <1>5, <3>2, <3>3
    <3>5. QED
      BY <1>5, <3>1, <3>4, SectorBound
  <2>2. SectorOf(job.at) \in Nat /\ SectorOf(job.old) \in Nat /\ Flat.len \in Nat
    BY <1>3, <1>5, SlotFacts, TableFacts DEF IInv, DevT
  <2>3. QED
    BY <1>3, <2>1, <2>2 DEF Holds
<1>7. \A ob \in hist.alive : \E i \in Slots : Holds(Flat, i, ob) /\ i # job.at
  <2>1. SUFFICES ASSUME NEW ob \in hist.alive
                 PROVE  \E i \in Slots : Holds(Flat, i, ob) /\ i # job.at
    OBVIOUS
  <2>2. PICK i \in Slots : Holds(Flat, i, ob)
    BY DEF IInv, Survives, Has
  <2>3. CASE i # job.at
    BY <2>2, <2>3
  <2>4. CASE i = job.at
    <3>1. job.at = job.old
      BY <1>3, <1>4, <1>5, <2>2, <2>4 DEF Holds
    <3>2. ob = job.obj
      BY <1>3, <2>2, <2>4, <3>1 DEF Holds
    <3>3. job.op = "rename"
      BY <1>3, <3>2
    <3>4. PICK k \in Slots : Holds(Flat, k, job.obj) /\ ~(job.blk <= k /\ k <= job.old)
      BY <1>3, <3>3
    <3>5. k # job.at
      BY <1>5, <3>4
    <3>6. QED
      BY <3>2, <3>4, <3>5
  <2>5. QED
    BY <2>3, <2>4
<1>8. /\ j \in JobT /\ j.at = job.at + 1
      /\ j.op = job.op /\ j.name = job.name /\ j.new = job.new /\ j.obj = job.obj
      /\ j.sfn = job.sfn /\ j.old = job.old /\ j.blk = job.blk
  BY <1>2, <1>4, <1>5, JobAt
<1> HIDE DEF j, walks
<1>9. ASSUME Put(Flat, Flat', job.at, Deleted), GoOn(j, next) PROVE JobOK'
  <2>1. job' = j /\ pc' = next /\ hist' = hist
    BY <1>9 DEF GoOn
  <2>2. /\ Flat'.len = Flat.len
        /\ \A i \in Slots : i # job.at =>
             \/ Flat'.ent[i] = Flat.ent[i]
             \/ Flat'.ent[i] = End /\ Flat.ent[i] = Junk
    BY <1>9 DEF Put
  <2>3. \A i \in Slots : i # job.at /\ Holds(Flat, i, job.obj) => Holds(Flat', i, job.obj)
    BY <1>9, <2>2, PutHolds DEF Holds
  <2>4. ASSUME job.op = "rename"
        PROVE  \E i \in Slots : Holds(Flat', i, job.obj) /\ ~(job.blk <= i /\ i <= job.old)
    <3>1. PICK i \in Slots : Holds(Flat, i, job.obj) /\ ~(job.blk <= i /\ i <= job.old)
      BY <1>3, <2>4
    <3>2. i # job.at
      BY <1>5, <3>1
    <3>3. QED
      BY <2>3, <3>1, <3>2
  <2>5. CASE job.at < job.old
    <3>1. /\ job.old # job.at /\ job.at + 1 \in job.blk .. job.old
          /\ \A i \in Slots : job.at + 1 <= i /\ i < job.old => job.at <= i /\ i # job.at
      BY <1>3, <1>4, <1>5, <2>5 DEF Slots
    <3>2. \A i \in Slots : job.at + 1 <= i /\ i < job.old => Flat'.ent[i].kind # "sfn"
      BY <1>3, <2>2, <3>1, EntryFacts
    <3>3. Holds(Flat', job.old, job.obj)
      BY <1>3, <2>3, <3>1
    <3>4. Removing(Flat', j, hist.alive)
      BY <1>3, <1>8, <2>4, <3>1, <3>2, <3>3 DEF Removing
    <3>5. QED
      BY <1>2, <1>3, <1>8, <2>1, <2>5, <3>4 DEF JobOK, Calls, Registering
  <2>6. CASE ~(job.at < job.old)
    <3>1. job.op = "rename" => Has(Flat', job.obj)
      BY <2>4 DEF Has
    <3>2. QED
      BY <1>2, <1>3, <1>8, <2>1, <2>6, <3>1 DEF JobOK, Calls, Registering
  <2>7. QED
    BY <2>5, <2>6
<1>10. next \in Calls \ {"dir_clear", "dir_clear_write"} /\ Deleted \in Entry /\ Deleted # Junk
  BY EntryFacts DEF Calls, Registering
<1> HIDE DEF next
<1>11. QED
  BY <1>1, <1>5, <1>6, <1>7, <1>9, <1>10, PutKeeps

\* The end of a request: the window is written back, or that fails.
LEMMA SyncStep ==
  ASSUME IInv, sync_fs
  PROVE  IInv'
<1>1. /\ Window(dev, win) /\ HistT(hist) /\ pc = "sync_fs" /\ Quiet
      /\ job.new \in Names /\ job.obj \in Objects
      /\ job.op = "unlink" \/ (job.op \in {"create", "rename"} /\ Has(Flat, job.obj))
  BY DEF IInv, sync_fs, JobOK
<1>2. PICK o \in {Synced} \cup FlushFails :
        /\ Take(o) /\ win' = o.win
        /\ IF o.ok
             THEN /\ Answer("FR_OK")
                  /\ hist' = IF job.op = "unlink" THEN hist
                             ELSE [hist EXCEPT !.made = Known(@, job.obj, job.new),
                                               !.alive = @ \cup {job.obj}]
             ELSE IF job.op = "create"
               THEN /\ Answer("FR_OK")
                    /\ hist' = [hist EXCEPT !.littered = @ \cup Cut]
               ELSE Fails
  BY DEF sync_fs
<1>3. Sound(dev, win, o) /\ (o.ok => o.dev = Flat)
  BY <1>1, SyncMoves
<1>4. dev' = o.dev /\ hist.torn \in BOOLEAN
  BY <1>1, <1>2 DEF Take, HistT
<1>5. CASE o.ok /\ job.op = "unlink"
  <2>1. pc' = "idle" /\ job' = NoJob /\ hist' = hist
    BY <1>2, <1>5 DEF Answer
  <2>2. QED
    BY <1>1, <1>2, <1>3, <1>4, <2>1, StepOK, IdleOK DEF Counted
<1>6. CASE o.ok /\ job.op # "unlink"
  <2>1. /\ pc' = "idle" /\ job' = NoJob
        /\ hist' = [hist EXCEPT !.made = Known(@, job.obj, job.new),
                                !.alive = @ \cup {job.obj}]
    BY <1>2, <1>6 DEF Answer
  <2>2. /\ hist'.made = Known(hist.made, job.obj, job.new)
        /\ hist'.alive = hist.alive \cup {job.obj}
        /\ hist'.littered = hist.littered /\ hist'.torn = hist.torn
        /\ hist' = [made |-> hist'.made, alive |-> hist'.alive, littered |-> hist'.littered, torn |-> hist'.torn]
    BY <1>1, <2>1 DEF HistT
  <2>3. HistT(hist')
    BY <1>1, <2>2 DEF HistT, Known
  <2>4. \A ob \in hist'.alive : ob \in hist.alive \/ (Has(Flat, ob) /\ dev' = Flat)
    BY <1>1, <1>3, <1>4, <1>6, <2>2
  <2>5. QED
    BY <1>1, <1>2, <1>3, <1>4, <2>1, <2>2, <2>3, <2>4, StepOK, IdleOK DEF Counted
<1>7. CASE ~o.ok /\ job.op = "create"
  <2>1. /\ pc' = "idle" /\ job' = NoJob
        /\ hist' = [hist EXCEPT !.littered = @ \cup Cut]
    BY <1>2, <1>7 DEF Answer
  <2>2. Cut \subseteq Names
    BY <1>1 DEF Cut
  <2>3. /\ hist'.made = hist.made /\ hist'.alive = hist.alive
        /\ hist'.littered = hist.littered \cup Cut /\ hist'.torn = hist.torn
        /\ hist' = [made |-> hist'.made, alive |-> hist'.alive, littered |-> hist'.littered, torn |-> hist'.torn]
    BY <1>1, <2>1 DEF HistT
  <2>4. HistT(hist')
    BY <1>1, <2>2, <2>3 DEF HistT
  <2>5. QED
    BY <1>1, <1>2, <1>3, <1>4, <2>1, <2>3, <2>4, StepOK, IdleOK DEF Counted
<1>8. CASE ~o.ok /\ job.op # "create"
  BY <1>1, <1>2, <1>3, <1>8, FailsOK
<1>9. QED
  BY <1>5, <1>6, <1>7, <1>8

\* What is in the window is gone; the device has what the invariant says of it.
LEMMA PowerLossStep ==
  ASSUME IInv, PowerLoss
  PROVE  IInv'
<1>1. /\ Window(dev, win) /\ HistT(hist)
      /\ crashes < MaxCrashes /\ crashes' = crashes + 1
      /\ win' = NoWindow /\ pc' = "idle" /\ job' = NoJob
      /\ hist' = [hist EXCEPT !.littered = @ \cup Cut, !.torn = @ \/ pc = "dir_clear_write"]
      /\ dev' = dev /\ requests' = requests /\ faults' = faults
  BY DEF IInv, PowerLoss
<1>2. dev \in DevT /\ Untouched(dev) /\ dev.len \in 1 .. MaxSectors
  BY <1>1 DEF Window, DevT
<1>3. Window(dev', win') /\ Flat' = dev
  BY <1>1, <1>2, NoWindowOK DEF Flat
<1>4. Cut \subseteq Names
  BY DEF IInv, JobOK, Cut
<1>5. /\ hist'.made = hist.made /\ hist'.alive = hist.alive
      /\ hist'.littered = hist.littered \cup Cut
      /\ hist'.torn = (hist.torn \/ pc = "dir_clear_write")
      /\ hist' = [made |-> hist'.made, alive |-> hist'.alive, littered |-> hist'.littered, torn |-> hist'.torn]
  BY <1>1 DEF HistT
<1>6. HistT(hist')
  BY <1>1, <1>4, <1>5 DEF HistT
<1>7. Survives'
  BY <1>1, <1>3, <1>5 DEF IInv, Survives
<1>8. Clean'
  <2>1. SUFFICES ASSUME ~hist'.torn PROVE CleanTo(dev, dev.len)
    BY <1>1, <1>3 DEF Clean
  <2>2. ~hist.torn /\ pc # "dir_clear_write"
    BY <1>5, <2>1
  <2>3. CASE pc = "dir_clear"
    <3>1. CleanTo(dev, win.len - 1) /\ dev.len < win.len
      BY <2>2, <2>3 DEF IInv, Clean, JobOK
    <3>2. win.len \in Nat /\ dev.len \in Nat /\ \A i \in Slots : SectorOf(i) \in Nat
      BY <1>1, <1>2, SlotFacts DEF Window, WinT
    <3>3. QED
      BY <3>1, <3>2 DEF CleanTo
  <2>4. CASE pc # "dir_clear"
    BY <2>2, <2>4 DEF IInv, Clean
  <2>5. QED
    BY <2>3, <2>4
<1>9. crashes' \in 0 .. MaxCrashes
  BY <1>1, DirAssumption DEF IInv
<1>10. JobOK'
  BY <1>1, IdleOK
<1>11. QED
  BY <1>1, <1>3, <1>6, <1>7, <1>8, <1>9, <1>10 DEF IInv
-----------------------------------------------------------------------------
(* The theorems.                                                           *)

\* A new directory: one cleared sector, nothing in the window.
LEMMA InitOK ==
  ASSUME Init
  PROVE  IInv
<1>1. /\ dev = [ent |-> [i \in Slots |-> IF SectorOf(i) = 1 THEN End ELSE Junk], len |-> 1]
      /\ win = NoWindow /\ job = NoJob /\ pc = "idle"
      /\ requests = 0 /\ faults = 0 /\ crashes = 0
      /\ hist = [made |-> [o \in {} |-> NoName], alive |-> {}, littered |-> {}, torn |-> FALSE]
  BY DEF Init
<1>2. dev.len = 1 /\ \A i \in Slots : dev.ent[i] = IF SectorOf(i) = 1 THEN End ELSE Junk
  BY <1>1
<1>3. dev \in DevT
  BY <1>1, EntryFacts, DirAssumption DEF DevT
<1>4. Untouched(dev)
  BY <1>2 DEF Untouched
<1>5. Window(dev, win) /\ Flat = dev
  BY <1>1, <1>3, <1>4, NoWindowOK DEF Flat
<1>6. HistT(hist)
  BY <1>1 DEF HistT
<1>7. JobOK
  BY <1>1, NoJobIs DEF JobOK, Calls, Registering
<1>8. Survives
  BY <1>1 DEF Survives
<1>9. CleanTo(dev, 1)
  BY <1>2, SlotFacts, EntryFacts DEF CleanTo
<1>10. Clean
  BY <1>1, <1>2, <1>5, <1>9 DEF Clean
<1>11. QED
  BY <1>1, <1>5, <1>6, <1>7, <1>8, <1>10, DirAssumption DEF IInv

\* Every step keeps the invariant.
LEMMA NextOK ==
  ASSUME IInv, [Next]_vars
  PROVE  IInv'
<1>1. CASE \E n \in Names : \/ fff_create(n) \/ fff_unlink(n) \/ fff_getattr(n)
                            \/ \E m \in Names \ {n} : fff_rename(n, m)
  <2>1. PICK n \in Names : \E m \in Names, op \in {"create", "unlink", "getattr", "rename"} : Request(op, n, m)
    BY <1>1 DEF fff_create, fff_unlink, fff_getattr, fff_rename
  <2>2. QED
    BY <2>1, RequestOK DEF Ops
<1>2. CASE fff_readdir
  BY <1>2, ReaddirStep
<1>3. CASE find
  BY <1>3, FindStep
<1>4. CASE find_new
  BY <1>4, FindNewStep
<1>5. CASE dir_alloc
  BY <1>5, AllocStep
<1>6. CASE dir_next
  BY <1>6, NextStep
<1>7. CASE dir_clear
  BY <1>7, ClearStep
<1>8. CASE dir_clear_write
  BY <1>8, ClearWriteStep
<1>9. CASE put_lfn
  BY <1>9, PutLfnStep
<1>10. CASE put_sfn
  BY <1>10, PutSfnStep
<1>11. CASE dir_remove
  BY <1>11, RemoveStep
<1>12. CASE sync_fs
  BY <1>12, SyncStep
<1>13. CASE PowerLoss
  BY <1>13, PowerLossStep
<1>14. CASE UNCHANGED vars
  <2>1. /\ dev' = dev /\ win' = win /\ job' = job /\ pc' = pc
        /\ requests' = requests /\ faults' = faults /\ crashes' = crashes /\ hist' = hist
    BY <1>14 DEF vars
  <2>2. Flat' = Flat
    BY <2>1 DEF Flat
  <2>3. JobOK' /\ Survives' /\ Clean'
    BY <2>1, <2>2 DEF IInv, JobOK, Survives, Clean
  <2>4. QED
    BY <2>1, <2>3 DEF IInv
<1>15. QED
  BY <1>1, <1>2, <1>3, <1>4, <1>5, <1>6, <1>7, <1>8, <1>9, <1>10, <1>11, <1>12, <1>13, <1>14
     DEF Next, Step

\* The inductive invariant: the device and the table it holds once the window is
\* written back, what the request in progress has found in them, and where every
\* object is in both.
THEOREM Invariant == Spec => []IInv
<1>1. Init => IInv
  BY InitOK
<1>2. IInv /\ [Next]_vars => IInv'
  BY NextOK
<1>3. QED
  BY <1>1, <1>2, PTL DEF Spec

\* Every variable has its type; a table never has more sectors than there are
\* (dir_next, create_chain).
THEOREM TypeCorrect == Spec => []TypeOK
<1>1. IInv => TypeOK
  <2>1. SUFFICES ASSUME IInv PROVE TypeOK
    OBVIOUS
  <2>2. dev \in DevT /\ win \in WinT /\ Window(dev, win) /\ job \in JobT /\ HistT(hist)
    BY <2>1 DEF IInv, Window, JobOK
  <2>3. Linked \in 1 .. MaxSectors
    BY <2>2, TableFacts DEF DevT
  <2>4. dev.len \in 1 .. MaxSectors /\ \A i \in Slots : dev.ent[i] \in Entry
    BY <2>2 DEF DevT
  <2>5. win.sect \in 0 .. NoSector /\ win.dirty \in BOOLEAN /\ \A j \in 1 .. PerSector : win.ent[j] \in Entry
    BY <2>2 DEF WinT
  <2>6. job.at \in 0 .. MaxSectors * PerSector + 1 /\ job.old \in Slots \cup {0}
    BY <2>2 DEF JobT
  <2>7. QED
    BY <2>1, <2>2, <2>3, <2>4, <2>5, <2>6 DEF TypeOK, IInv, HistT
<1>2. QED
  BY <1>1, Invariant, PTL

\* f_rename registers the new entry before it removes the old one, and
\* dir_register writes into free entries alone: no power loss and no failed
\* access, between any two accesses, takes the entry of an object off the device.
THEOREM ObjectsSurvive == Spec => []ObjectSurvives
<1>1. IInv => ObjectSurvives
  BY DEF IInv, Survives, Has, Holds, ObjectSurvives
<1>2. QED
  BY <1>1, Invariant, PTL

\* dir_clear clears a new cluster before an entry is looked for in it: unless the
\* growth of the table was cut short, none of what a removed file left is in the
\* table on the device.
THEOREM NoJunkInTable == Spec => []StretchCleared
<1>1. IInv => StretchCleared
  <2>1. SUFFICES ASSUME IInv, pc # "dir_clear_write", ~hist.torn PROVE CleanTo(dev, dev.len)
    BY DEF StretchCleared, CleanTo
  <2>2. CASE pc = "dir_clear"
    <3>1. CleanTo(dev, win.len - 1) /\ dev.len < win.len
      BY <2>1, <2>2 DEF IInv, Clean, JobOK
    <3>2. win.len \in Nat /\ dev.len \in Nat /\ \A i \in Slots : SectorOf(i) \in Nat
      BY <2>1, SlotFacts DEF IInv, Window, WinT, DevT
    <3>3. QED
      BY <3>1, <3>2 DEF CleanTo
  <2>3. CASE pc # "dir_clear"
    BY <2>1, <2>3 DEF IInv, Clean
  <2>4. QED
    BY <2>2, <2>3
<1>2. QED
  BY <1>1, Invariant, PTL
-----------------------------------------------------------------------------
(* The names.  A search stops at the SFN entry that holds the short name, if    *)
(* the name needs no number, or that the name's own LFN entries are tied to: a  *)
(* Hit.  The invariant says of both tables that the hits of a name are those of *)
(* one object, and that the object which has the name has one.                  *)

\* Entry e is piece k of the name n, in upper case, with the checksum c.
Piece(e, n, k, c) ==
  /\ e.kind = "lfn" /\ e.ord = k /\ e.sum = c
  /\ Upper[e.part] = Upper[Parts[n][k]]
  /\ e.last <=> k = Len(Parts[n])

\* The entries of t that end at i are the pieces of n, the last one first, down to
\* piece k + 1.
Spelled(t, i, n, k, c) ==
  \A x \in k + 1 .. Len(Parts[n]) : i + k + 1 - x \in Slots /\ Piece(t[i + k + 1 - x], n, x, c)

\* The LFN entries before the SFN entry j are the name n, and tied to it.
Tied(t, j, n) == Spelled(t, j - 1, n, 0, Checksum[t[j].sfn])

\* Entry j is one that a search for n stops at.
Hit(t, j, n) ==
  /\ t[j].kind = "sfn"
  /\ \/ n \notin Lossy /\ t[j].sfn = Shorts[n][1]
     \/ Tied(t, j, n)

\* A name begins in the LFN entries that end at i.
Begun(t, i) == \E b \in 1 .. i : t[b].last /\ \A x \in b .. i : t[x].kind = "lfn"

\* A name of S, but for upper and lower case.
LikeOne(n, S) == \E m \in S : SameName(n, m)

\* The pieces of n before entry j are tied to no SFN entry.
Orphan(t, j, n) ==
  \E s \in ShortNames :
    /\ Spelled(t, j - 1, n, 0, Checksum[s])
    /\ ~(t[j].kind = "sfn" /\ Checksum[t[j].sfn] = Checksum[s])

\* An object with the name n, which needs no number, has the short name of n.
Proper(t, S) ==
  \A n \in Names \ Lossy, j \in Slots :
    ~LikeOne(n, S) /\ t[j].kind = "sfn" /\ Tied(t, j, n) => t[j].sfn = Shorts[n][1]

\* All that a search for n can stop at is of one object.
Uniform(t, S) ==
  \A n \in Names : ~LikeOne(n, S) =>
    \A i, j \in Slots : Hit(t, i, n) /\ Hit(t, j, n) => t[i].obj = t[j].obj

\* Every object whose last change answered OK can be found under its name.
Durable(t, h) ==
  \A o \in DOMAIN h.made : ~LikeOne(h.made[o], h.littered) =>
    \E i \in Slots : Hit(t, i, h.made[o]) /\ t[i].obj = o

\* What the table t is to be for the names in the history h.
Keeps(t, h) == Proper(t, h.littered) /\ Uniform(t, h.littered) /\ Durable(t, h)

\* None of the first n sectors has an entry behind the end.
Packed(t, n) ==
  \A i, j \in Slots : i < j /\ SectorOf(j) <= n /\ t[i].kind = "end" => t[j].kind = "end"

\* ... in both tables, but for a cluster that is being linked and cleared.
Ends ==
  IF pc \in {"dir_clear", "dir_clear_write"}
    THEN Packed(dev.ent, win.len - 1)
    ELSE Packed(Flat.ent, Flat.len) /\ Packed(dev.ent, dev.len)

\* LFN entries without their SFN entry are those of a name of S.
OrphansIn(t, S) == \A n \in Names, j \in Slots : Orphan(t, j, n) => LikeOne(n, S)

\* The LFN entries at the SFN entry that is written next.
Awaited(n, j) == pc = "put_sfn" /\ j = job.at /\ job.new \in NeedsLfn /\ SameName(n, job.new)

\* LFN entries without their SFN entry are those of a littered name, or of the one
\* being registered.
Orphans ==
  /\ OrphansIn(dev.ent, hist.littered \cup Cut)
  /\ \A n \in Names, j \in Slots :
       Orphan(Flat.ent, j, n) => LikeOne(n, hist.littered) \/ Awaited(n, j)

\* The request has entered the new name, or will.
Naming(j, p) == p \in Registering \/ (j.op \in {"create", "rename"} /\ p \in {"dir_remove", "sync_fs"})

\* What a search for the new name can stop at is of the object that gets it.
Vacant(t, j, S) ==
  ~LikeOne(j.new, S) => \A i \in Slots : Hit(t, i, j.new) => t[i].obj = j.obj

\* The short name dir_register has chosen.
Chosen(t, j) ==
  IF j.new \in Lossy THEN \A i \in Slots : t[i].kind = "sfn" => t[i].sfn # j.sfn
                     ELSE j.sfn = Shorts[j.new][1]

\* The pieces dir_register has written.
Written(t, j) ==
  /\ \A x \in j.left + 1 .. LfnCount(j.new) :
       j.at + j.left - x \in Slots /\ t[j.at + j.left - x] = Lfn(j.new, x, Checksum[j.sfn])
  /\ \A i \in Slots : i < j.at => t[i].kind # "end"

\* dir_remove leaves no LFN entry behind.
NoneLeft(t, j, a) == a = j.old => ~Begun(t, j.old - 1)

\* The new name leads to the object.
Entered(t, j, p) ==
  \E i \in Slots : Hit(t, i, j.new) /\ t[i].obj = j.obj /\ (p = "dir_remove" => i # j.old)

\* What the request in progress knows of the names in the table.
JobNames ==
  /\ pc = "find" /\ job.op = "create" => job.new = job.name
  /\ pc \in {"put_lfn", "put_sfn", "dir_remove", "sync_fs"} => job.obj \notin DOMAIN hist.made
  /\ Naming(job, pc) => Vacant(Flat.ent, job, hist.littered)
  /\ pc \in Registering => Chosen(Flat.ent, job)
  /\ pc \in {"put_lfn", "put_sfn"} => Written(Flat.ent, job)
  /\ job.op = "rename" /\ pc \in {"find_new"} \cup Registering => NoneLeft(Flat.ent, job, job.blk)
  /\ pc = "dir_remove" => /\ NoneLeft(Flat.ent, job, job.at)
                         /\ \A i \in Slots : job.at <= i /\ i < job.old => Flat.ent[i].kind = "lfn"
  /\ Naming(job, pc) /\ pc \notin Registering => Entered(Flat.ent, job, pc)

\* The names of the objects are names.
MadeT(m) == \A o \in DOMAIN m : m[o] \in Names

\* The invariant of the names: that every object whose last change answered OK is
\* found under its name (Keeps, Durable) needs that no other entry stops the search
\* (Proper, Uniform), that none lies behind the end (Ends), that LFN entries left
\* alone cannot be taken over (Orphans), and what the request in progress knows.
NamesInv ==
  /\ MadeT(hist.made)
  /\ ~hist.torn =>
       /\ Ends
       /\ Keeps(Flat.ent, hist) /\ Keeps(dev.ent, hist)
       /\ Orphans
       /\ JobNames

-----------------------------------------------------------------------------
(* Names and the entries that spell them.                                  *)

\* A name has at least one piece.
LEMMA NameFacts ==
  ASSUME NEW n \in Names
  PROVE  /\ Len(Parts[n]) \in Nat \ {0} /\ DOMAIN Parts[n] = 1 .. Len(Parts[n])
         /\ LfnCount(n) \in {0, Len(Parts[n])} /\ (n \in NeedsLfn <=> LfnCount(n) # 0)
         /\ (n \in Lossy => n \in NeedsLfn) /\ (n \in NeedsLfn => LfnCount(n) = Len(Parts[n]))
<1>1. Parts[n] \in Seq(DOMAIN Upper) /\ Len(Parts[n]) > 0 /\ (n \in Lossy => n \in NeedsLfn)
  BY DirAssumption
<1>2. Len(Parts[n]) \in Nat \ {0} /\ DOMAIN Parts[n] = 1 .. Len(Parts[n])
  BY <1>1
<1>3. QED
  BY <1>1, <1>2 DEF LfnCount

\* SameName is symmetric and transitive.
LEMMA SameIs ==
  ASSUME NEW n \in Names, NEW m \in Names, SameName(n, m)
  PROVE  /\ SameName(m, n)
         /\ \A o \in Names : SameName(n, o) <=> SameName(m, o)
<1>1. Len(Parts[n]) = Len(Parts[m]) /\ \A i \in DOMAIN Parts[n] : Upper[Parts[n][i]] = Upper[Parts[m][i]]
  BY DEF SameName
<1>2. DOMAIN Parts[n] = DOMAIN Parts[m]
  BY <1>1, NameFacts
<1>3. QED
  BY <1>1, <1>2 DEF SameName

\* Names that are the same but for case are spelled, found and littered alike.
LEMMA SameFacts ==
  ASSUME NEW n \in Names, NEW m \in Names, SameName(n, m)
  PROVE  /\ \A t, i, c : Spelled(t, i, n, 0, c) <=> Spelled(t, i, m, 0, c)
         /\ \A t, j : Tied(t, j, n) <=> Tied(t, j, m)
         /\ \A t, j : Hit(t, j, n) <=> Hit(t, j, m)
         /\ \A S \in SUBSET Names : LikeOne(n, S) <=> LikeOne(m, S)
<1>1. Len(Parts[n]) = Len(Parts[m]) /\ \A i \in DOMAIN Parts[n] : Upper[Parts[n][i]] = Upper[Parts[m][i]]
  BY DEF SameName
<1>2. /\ DOMAIN Parts[n] = 1 .. Len(Parts[n]) /\ DOMAIN Parts[m] = 1 .. Len(Parts[m])
      /\ Len(Parts[n]) \in Nat /\ SameName(m, n)
  BY NameFacts, SameIs
<1>3. ASSUME NEW t, NEW i, NEW c
      PROVE  Spelled(t, i, n, 0, c) <=> Spelled(t, i, m, 0, c)
  <2>1. \A x \in 1 .. Len(Parts[n]) : Upper[Parts[n][x]] = Upper[Parts[m][x]]
    BY <1>1, <1>2
  <2>2. \A x \in 1 .. Len(Parts[n]) : \A e : Piece(e, n, x, c) <=> Piece(e, m, x, c)
    BY <1>1, <2>1 DEF Piece
  <2>3. Spelled(t, i, n, 0, c) <=> \A x \in 1 .. Len(Parts[n]) : i + 0 + 1 - x \in Slots /\ Piece(t[i + 0 + 1 - x], n, x, c)
    BY DEF Spelled
  <2>4. Spelled(t, i, m, 0, c) <=> \A x \in 1 .. Len(Parts[n]) : i + 0 + 1 - x \in Slots /\ Piece(t[i + 0 + 1 - x], m, x, c)
    BY <1>1 DEF Spelled
  <2>5. QED
    BY <2>2, <2>3, <2>4
<1>4. \A t, j : Tied(t, j, n) <=> Tied(t, j, m)
  BY <1>3 DEF Tied
<1>5. (n \in Lossy <=> m \in Lossy) /\ (n \notin Lossy => Shorts[n][1] = Shorts[m][1])
  BY ShortNamesAssumption
<1>6. \A t, j : Hit(t, j, n) <=> Hit(t, j, m)
  BY <1>4, <1>5 DEF Hit
<1>7. \A S \in SUBSET Names : LikeOne(n, S) <=> LikeOne(m, S)
  BY SameIs DEF LikeOne
<1>8. QED
  BY <1>3, <1>4, <1>6, <1>7

\* An LFN entry holds a piece of a name, and whether it is the last one.
LEMMA LfnIs ==
  ASSUME NEW e \in Entry, e.kind = "lfn"
  PROVE  /\ e.ord \in Int /\ e.sum \in Sums /\ e.last \in BOOLEAN
         /\ \E n \in Names, s \in ShortNames : \E k \in DOMAIN Parts[n] : e = Lfn(n, k, Checksum[s])
<1>1. PICK n \in Names, s \in ShortNames : \E k \in DOMAIN Parts[n] : e = Lfn(n, k, Checksum[s])
  BY EntryFacts DEF Entry, Sfn
<1>2. e.last \in BOOLEAN
  BY <1>1 DEF Lfn
<1>3. QED
  BY <1>1, <1>2, LfnFacts

\* The piece of name n with number k.
LEMMA LfnPiece ==
  ASSUME NEW n \in Names, NEW k \in DOMAIN Parts[n], NEW c
  PROVE  /\ Lfn(n, k, c).kind = "lfn" /\ Lfn(n, k, c).ord = k /\ Lfn(n, k, c).sum = c
         /\ Lfn(n, k, c).part = Parts[n][k] /\ Lfn(n, k, c).last = (k = Len(Parts[n]))
         /\ Piece(Lfn(n, k, c), n, k, c)
BY DEF Lfn, Piece

\* One entry more of a name.
LEMMA SpelledStep ==
  ASSUME NEW t, NEW i \in Nat, i + 1 \in Slots, NEW n \in Names, NEW k \in 0 .. Len(Parts[n]) - 1, NEW c
  PROVE  Spelled(t, i + 1, n, k, c) <=>
           /\ Piece(t[i + 1], n, k + 1, c)
           /\ k + 1 < Len(Parts[n]) => Spelled(t, i, n, k + 1, c)
<1>1. Len(Parts[n]) \in Nat /\ k \in Nat
  BY NameFacts
<1> DEFINE L == Len(Parts[n])
           P(x) == i + k + 2 - x \in Slots /\ Piece(t[i + k + 2 - x], n, x, c)
<1>2. Spelled(t, i + 1, n, k, c) <=> \A x \in k + 1 .. L : P(x)
  <2>1. \A x \in k + 1 .. L : (i + 1) + k + 1 - x = i + k + 2 - x
    BY <1>1
  <2>2. QED
    BY <2>1 DEF Spelled
<1>3. Spelled(t, i, n, k + 1, c) <=> \A x \in k + 2 .. L : P(x)
  <2>1. (k + 1) + 1 = k + 2 /\ \A x \in k + 2 .. L : i + (k + 1) + 1 - x = i + k + 2 - x
    BY <1>1
  <2>2. QED
    BY <2>1 DEF Spelled
<1>4. P(k + 1) <=> Piece(t[i + 1], n, k + 1, c)
  <2>1. i + k + 2 - (k + 1) = i + 1
    BY <1>1
  <2>2. QED
    BY <2>1
<1>5. \A x : x \in k + 1 .. L <=> (x = k + 1 \/ (k + 1 < L /\ x \in k + 2 .. L))
  BY <1>1
<1> HIDE DEF P, L
<1>6. QED
  BY <1>2, <1>3, <1>4, <1>5 DEF L

\* A name that is spelled ends in LFN entries, and begins in them.
LEMMA SpelledBegun ==
  ASSUME NEW t, NEW i \in Nat, NEW n \in Names, NEW k \in 0 .. Len(Parts[n]) - 1, NEW c,
         Spelled(t, i, n, k, c)
  PROVE  /\ i \in Slots /\ t[i].kind = "lfn"
         /\ Begun(t, i)
<1>1. Len(Parts[n]) \in Nat /\ k \in Nat /\ MaxSectors * PerSector \in Nat
  BY NameFacts, TableBound, DirAssumption
<1>2. \A x \in k + 1 .. Len(Parts[n]) : i + k + 1 - x \in Slots /\ Piece(t[i + k + 1 - x], n, x, c)
  BY DEF Spelled
<1> DEFINE b == i + k + 1 - Len(Parts[n])
<1>3. b \in Slots /\ t[b].last
  <2>1. Len(Parts[n]) \in k + 1 .. Len(Parts[n])
    BY <1>1
  <2>2. b \in Slots /\ Piece(t[b], n, Len(Parts[n]), c)
    BY <1>2, <2>1
  <2>3. QED
    BY <2>2 DEF Piece
<1>4. ASSUME NEW x \in b .. i PROVE t[x].kind = "lfn"
  <2>1. i + k + 1 - x \in k + 1 .. Len(Parts[n]) /\ i + k + 1 - (i + k + 1 - x) = x
    BY <1>1, <1>3 DEF Slots
  <2>2. Piece(t[i + k + 1 - (i + k + 1 - x)], n, i + k + 1 - x, c)
    BY <1>2, <2>1
  <2>3. Piece(t[x], n, i + k + 1 - x, c)
    BY <2>1, <2>2
  <2>4. QED
    BY <2>3 DEF Piece
<1>5. b \in 1 .. i /\ i \in b .. i
  BY <1>1, <1>3 DEF Slots
<1>6. i \in Slots
  <2>1. k + 1 \in k + 1 .. Len(Parts[n]) /\ i + k + 1 - (k + 1) = i
    BY <1>1
  <2>2. QED
    BY <1>2, <2>1
<1>7. QED
  BY <1>3, <1>4, <1>5, <1>6 DEF Begun

\* Names are spelled by the same LFN entries in two tables that have them.
LEMMA SpelledIn ==
  ASSUME NEW t, NEW u, NEW i \in Nat, NEW n \in Names, NEW k \in Nat, NEW c, Spelled(t, i, n, k, c),
         \A x \in Slots : x <= i /\ i + k < x + Len(Parts[n]) /\ t[x].kind = "lfn" => u[x] = t[x]
  PROVE  Spelled(u, i, n, k, c)
<1>1. Len(Parts[n]) \in Nat
  BY NameFacts
<1>2. SUFFICES ASSUME NEW x \in k + 1 .. Len(Parts[n])
               PROVE  i + k + 1 - x \in Slots /\ Piece(u[i + k + 1 - x], n, x, c)
  BY DEF Spelled
<1>3. i + k + 1 - x \in Slots /\ Piece(t[i + k + 1 - x], n, x, c)
  BY DEF Spelled
<1>4. i + k + 1 - x <= i /\ i + k < (i + k + 1 - x) + Len(Parts[n])
  <2>1. x \in Int /\ k + 1 <= x /\ x <= Len(Parts[n])
    BY <1>1
  <2>2. \A L \in Nat : x <= L => i + k < (i + k + 1 - x) + L
    BY <2>1
  <2>3. i + k + 1 - x <= i
    BY <2>1
  <2>4. QED
    BY <1>1, <2>1, <2>2, <2>3
<1>5. u[i + k + 1 - x] = t[i + k + 1 - x]
  BY <1>3, <1>4 DEF Piece
<1>6. QED
  BY <1>3, <1>5

-----------------------------------------------------------------------------
(* What a search for a name finds.                                         *)

\* The fields an LFN entry changes in a search.
LEMMA FollowsIs ==
  ASSUME NEW st \in ScanT, NEW i \in Nat, NEW e \in Entry, e.kind = "lfn", NEW good \in BOOLEAN
  PROVE  LET s == FollowsLfn(st, i, e, good)
             sum == IF e.last THEN e.sum ELSE st.sum
         IN  /\ s.sum = sum
             /\ s.blk = IF e.last THEN i ELSE st.blk
             /\ s.ord = IF (e.last \/ e.ord = st.ord) /\ e.sum = sum /\ good THEN e.ord - 1 ELSE NoOrd
<1>1. e.ord \in Int /\ e.sum \in Sums /\ e.last \in BOOLEAN
  BY LfnIs
<1> DEFINE s1 == [st EXCEPT !.sum = e.sum]
           s2 == [s1 EXCEPT !.ord = e.ord]
           s3 == [s2 EXCEPT !.blk = i]
           s == IF e.last THEN s3 ELSE st
           n == IF e.ord = s.ord /\ e.sum = s.sum /\ good THEN s.ord - 1 ELSE NoOrd
           r == [s EXCEPT !.ord = n]
<1>2. s1 \in ScanT /\ s1.sum = e.sum
  BY <1>1 DEF ScanT
<1>3. s2 \in ScanT /\ s2.sum = s1.sum /\ s2.ord = e.ord
  <2> HIDE DEF s1
  <2>1. QED
    BY <1>1, <1>2 DEF ScanT
<1>4. s3 \in ScanT /\ s3.sum = s2.sum /\ s3.ord = s2.ord /\ s3.blk = i
  <2> HIDE DEF s2
  <2>1. QED
    BY <1>3 DEF ScanT
<1> HIDE DEF s1, s2, s3
<1>5. /\ s \in ScanT
      /\ s.sum = (IF e.last THEN e.sum ELSE st.sum)
      /\ s.ord = (IF e.last THEN e.ord ELSE st.ord)
      /\ s.blk = (IF e.last THEN i ELSE st.blk)
  BY <1>2, <1>3, <1>4
<1>6. r = FollowsLfn(st, i, e, good)
  BY DEF FollowsLfn, s1, s2, s3
<1> HIDE DEF s
<1>7. n \in Int
  BY <1>5 DEF ScanT, NoOrd
<1>8. n = IF (e.last \/ e.ord = st.ord) /\ e.sum = s.sum /\ good THEN e.ord - 1 ELSE NoOrd
  BY <1>5
<1> HIDE DEF n
<1>9. r.ord = n /\ r.sum = s.sum /\ r.blk = s.blk
  BY <1>5, <1>7 DEF ScanT
<1> HIDE DEF r
<1>10. QED
  BY <1>5, <1>6, <1>8, <1>9

\* After i entries, a search for n is in the piece that the entries spell.
At(t, st, i, n) ==
  /\ st.ord \in -1 .. Len(Parts[n]) - 1
  /\ \A k \in 0 .. Len(Parts[n]) - 1 : \A c : Spelled(t, i, n, k, c) <=> st.ord = k /\ st.sum = c

\* ... and blk is where the LFN entries began a name last.
Block(t, st, i) ==
  /\ st.blk = 0 => ~Begun(t, i)
  /\ st.blk # 0 => t[st.blk].last

\* A search for n goes on while it has seen no hit and no end, and stops at one.
Seeks(t, st, i, n) ==
  /\ ~st.stop => /\ At(t, st, i, n) /\ Block(t, st, i)
                 /\ \A j \in 1 .. i : t[j].kind # "end" /\ ~Hit(t, j, n)
  /\ st.stop /\ st.slot = 0 => t[st.at].kind = "end" /\ \A j \in 1 .. st.at : ~Hit(t, j, n)
  /\ st.slot # 0 => Hit(t, st.slot, n) /\ Block(t, st, st.slot - 1)

\* An LFN entry in a search for n.
LEMMA AtStep ==
  ASSUME NEW t \in [Slots -> Entry], NEW n \in Names, NEW i \in Nat, i + 1 \in Slots,
         NEW st \in ScanT, At(t, st, i, n), t[i + 1].kind = "lfn"
  PROVE  At(t, FollowsLfn(st, i + 1, t[i + 1], Matches(t[i + 1], Parts[n])), i + 1, n)
<1> DEFINE e == t[i + 1]
           good == Matches(e, Parts[n])
           L == Len(Parts[n])
           s == FollowsLfn(st, i + 1, e, good)
           sum == IF e.last THEN e.sum ELSE st.sum
<1>1. e \in Entry /\ e.kind = "lfn" /\ e.ord \in Int /\ e.last \in BOOLEAN /\ e.sum \in Sums
  BY LfnIs
<1>2. L \in Nat \ {0} /\ DOMAIN Parts[n] = 1 .. L
  BY NameFacts
<1>3. good <=> e.ord \in 1 .. L /\ Upper[e.part] = Upper[Parts[n][e.ord]] /\ (e.last => e.ord = L)
  BY <1>2 DEF Matches
<1>4. /\ s.sum = sum
      /\ s.ord = IF (e.last \/ e.ord = st.ord) /\ e.sum = sum /\ good THEN e.ord - 1 ELSE NoOrd
  <2>1. good \in BOOLEAN
    BY DEF Matches
  <2>2. i + 1 \in Nat
    OBVIOUS
  <2> HIDE DEF good, e
  <2>3. QED
    BY <1>1, <2>1, <2>2, FollowsIs
<1> HIDE DEF s, good
<1>5. st.ord \in -1 .. L - 1
  BY DEF At
<1>6. s.ord \in -1 .. L - 1
  BY <1>1, <1>2, <1>3, <1>4 DEF NoOrd
<1>7. ASSUME NEW k \in 0 .. L - 1, NEW c
      PROVE  Spelled(t, i + 1, n, k, c) <=> s.ord = k /\ s.sum = c
  <2>1. Spelled(t, i + 1, n, k, c) <=>
          Piece(e, n, k + 1, c) /\ (k + 1 < L => Spelled(t, i, n, k + 1, c))
    BY SpelledStep
  <2>2. k + 1 < L => (Spelled(t, i, n, k + 1, c) <=> st.ord = k + 1 /\ st.sum = c)
    BY <1>2 DEF At
  <2>3. Piece(e, n, k + 1, c) <=>
          e.ord = k + 1 /\ e.sum = c /\ Upper[e.part] = Upper[Parts[n][k + 1]] /\ (e.last <=> k + 1 = L)
    BY DEF Piece
  <2>4. s.ord = k <=> (e.last \/ e.ord = st.ord) /\ e.sum = sum /\ good /\ e.ord = k + 1
    BY <1>1, <1>4 DEF NoOrd
  <2>5. good /\ e.ord = k + 1 <=> e.ord = k + 1 /\ Upper[e.part] = Upper[Parts[n][k + 1]] /\ (e.last => k + 1 = L)
    BY <1>2, <1>3
  <2>6. CASE e.last
    <3>1. s.ord = k /\ s.sum = c <=> good /\ e.ord = k + 1 /\ e.sum = c
      BY <1>4, <2>4, <2>6
    <3>2. QED
      BY <1>2, <2>1, <2>3, <2>5, <2>6, <3>1
  <2>7. CASE ~e.last
    <3>1. s.ord = k /\ s.sum = c <=> st.ord = k + 1 /\ st.sum = c /\ e.sum = c /\ good /\ e.ord = k + 1
      BY <1>4, <2>4, <2>7
    <3>2. st.ord = k + 1 => k + 1 < L
      BY <1>5
    <3>3. ~(k + 1 < L) <=> k + 1 = L
      BY <1>2
    <3>4. QED
      BY <2>1, <2>2, <2>3, <2>5, <2>7, <3>1, <3>2, <3>3
  <2>8. QED
    BY <2>6, <2>7
<1>8. QED
  BY <1>6, <1>7 DEF At, s, good

\* Any other entry ends what the entries spell.
LEMMA AtNone ==
  ASSUME NEW t, NEW n \in Names, NEW i \in Nat, i \notin Slots \/ t[i].kind # "lfn",
         NEW st, st.ord = NoOrd
  PROVE  At(t, st, i, n)
<1>1. Len(Parts[n]) \in Nat \ {0}
  BY NameFacts
<1>2. \A k \in 0 .. Len(Parts[n]) - 1 : \A c : ~Spelled(t, i, n, k, c)
  BY SpelledBegun
<1>3. QED
  BY <1>1, <1>2 DEF At, NoOrd

\* The LFN entries that begin a name, one entry later.
LEMMA BegunStep ==
  ASSUME NEW t, NEW i \in Nat
  PROVE  Begun(t, i + 1) <=> t[i + 1].kind = "lfn" /\ (t[i + 1].last \/ Begun(t, i))
<1>1. ASSUME Begun(t, i + 1)
      PROVE  t[i + 1].kind = "lfn" /\ (t[i + 1].last \/ Begun(t, i))
  <2>1. PICK b \in 1 .. i + 1 : t[b].last /\ \A x \in b .. i + 1 : t[x].kind = "lfn"
    BY <1>1 DEF Begun
  <2>2. i + 1 \in b .. i + 1 /\ (b # i + 1 => b \in 1 .. i) /\ \A x \in b .. i : x \in b .. i + 1
    OBVIOUS
  <2>3. QED
    BY <2>1, <2>2 DEF Begun
<1>2. ASSUME t[i + 1].kind = "lfn", t[i + 1].last
      PROVE  Begun(t, i + 1)
  <2>1. i + 1 \in 1 .. i + 1 /\ \A x \in i + 1 .. i + 1 : x = i + 1
    OBVIOUS
  <2>2. QED
    BY <1>2, <2>1 DEF Begun
<1>3. ASSUME t[i + 1].kind = "lfn", Begun(t, i)
      PROVE  Begun(t, i + 1)
  <2>1. PICK b \in 1 .. i : t[b].last /\ \A x \in b .. i : t[x].kind = "lfn"
    BY <1>3 DEF Begun
  <2>2. b \in 1 .. i + 1 /\ \A x \in b .. i + 1 : x \in b .. i \/ x = i + 1
    OBVIOUS
  <2>3. QED
    BY <1>3, <2>1, <2>2 DEF Begun
<1>4. QED
  BY <1>1, <1>2, <1>3

\* One entry more keeps what a search for n has seen.
LEMMA SeeksRound ==
  ASSUME NEW t \in [Slots -> Entry], NEW n \in Names, NEW i \in Slots,
         NEW p, ScanOK(t, p, i - 1), Seeks(t, p, i - 1, n)
  PROVE  Seeks(t, ScanRound(t, Target(n), p, i), i, n)
<1> DEFINE st == [p EXCEPT !.at = i]
           e == t[i]
           g == Target(n)
           r == ScanRound(t, g, p, i)
           h == i - 1
<1>1. i \in Nat \ {0} /\ h \in Nat /\ h + 1 = i /\ i = h + 1 /\ i - 1 = h /\ e \in Entry
  BY DEF Slots
<1>2. p \in ScanT
  BY DEF ScanOK
<1>3. /\ g.parts = Parts[n] /\ g.lfn = TRUE
      /\ \A s : s \in g.sfns <=> n \notin Lossy /\ s = Shorts[n][1]
  BY DEF Target
<1>4. CASE p.stop
  <2>1. r = p
    BY <1>4 DEF ScanRound
  <2>2. QED
    BY <1>4, <2>1 DEF Seeks
<1>5. CASE ~p.stop
  <2>1. /\ st \in ScanT /\ st.stop = p.stop /\ st.slot = p.slot /\ st.at = i
        /\ st.blk = p.blk /\ st.ord = p.ord /\ st.sum = p.sum
    BY <1>1, <1>2 DEF ScanT
  <2>2. p.slot = 0
    BY <1>5 DEF ScanOK
  <2>3. /\ At(t, p, h, n) /\ Block(t, p, h)
        /\ \A j \in 1 .. h : t[j].kind # "end" /\ ~Hit(t, j, n)
    BY <1>5 DEF Seeks
  <2>4. r = Looked(st, i, e, g)
    BY <1>5 DEF ScanRound
  <2> HIDE DEF st, r, g
  <2>5. At(t, st, h, n) /\ Block(t, st, h) /\ ~st.stop /\ st.slot = 0
    BY <1>5, <2>1, <2>2, <2>3 DEF At, Block
  <2>6. ASSUME ~r.stop, r.slot = 0, At(t, r, i, n), Block(t, r, i), e.kind # "end", ~Hit(t, i, n)
        PROVE  Seeks(t, r, i, n)
    <3>1. \A j \in 1 .. i : j \in 1 .. h \/ j = i
      BY <1>1
    <3>2. QED
      BY <2>3, <2>6, <3>1 DEF Seeks
  <2>7. Hit(t, i, n) <=> e.kind = "sfn" /\ (TiedTo(st, e) \/ e.sfn \in g.sfns)
    <3>1. 0 \in 0 .. Len(Parts[n]) - 1
      BY NameFacts
    <3>2. \A c : Spelled(t, h, n, 0, c) <=> st.ord = 0 /\ st.sum = c
      BY <2>5, <3>1 DEF At
    <3>3. Tied(t, i, n) <=> TiedTo(st, e)
      BY <3>2 DEF Tied, TiedTo
    <3>4. QED
      BY <1>3, <3>3 DEF Hit
  <2>8. CASE e.kind = "end"
    <3> DEFINE s1 == [st EXCEPT !.stop = TRUE]
               s2 == [s1 EXCEPT !.at = i]
    <3>1. r = s2
      BY <2>4, <2>8 DEF Looked
    <3>2. s1 \in ScanT /\ s1.stop /\ s1.slot = st.slot
      BY <2>1 DEF ScanT
    <3> HIDE DEF s1
    <3>3. s2 \in ScanT /\ s2.stop = s1.stop /\ s2.slot = s1.slot /\ s2.at = i
      BY <1>1, <3>2 DEF ScanT
    <3> HIDE DEF s2
    <3>4. r.stop /\ r.slot = 0 /\ r.at = i
      BY <2>5, <3>1, <3>2, <3>3
    <3>5. \A j \in 1 .. i : j \in 1 .. h \/ j = i
      BY <1>1
    <3>6. ~Hit(t, i, n)
      BY <2>8 DEF Hit
    <3>7. Seeks(t, r, i, n)
      BY <2>3, <2>8, <3>4, <3>5, <3>6 DEF Seeks
    <3>8. QED
      BY <3>7 DEF r, g
  <2>9. CASE e.kind = "lfn"
    <3> DEFINE good == Matches(e, Parts[n])
    <3>1. r = FollowsLfn(st, i, e, good)
      BY <1>3, <2>4, <2>9 DEF Looked
    <3>2. good \in BOOLEAN
      BY DEF Matches
    <3>3. /\ r.stop = st.stop /\ r.slot = st.slot
          /\ r.blk = IF e.last THEN i ELSE st.blk
      BY <1>1, <2>1, <2>9, <3>1, <3>2, FollowsFacts, FollowsIs
    <3>4. At(t, r, i, n)
      <4>1. At(t, FollowsLfn(st, h + 1, t[h + 1], Matches(t[h + 1], Parts[n])), h + 1, n)
        BY <1>1, <2>1, <2>5, <2>9, AtStep
      <4>2. QED
        BY <1>1, <3>1, <4>1
    <3>5. Block(t, r, i)
      <4>1. Begun(t, i) <=> e.kind = "lfn" /\ (e.last \/ Begun(t, h))
        BY <1>1, BegunStep
      <4>2. QED
        BY <1>1, <2>5, <3>3, <4>1 DEF Block
    <3>6. ~Hit(t, i, n)
      BY <2>9 DEF Hit
    <3>7. Seeks(t, r, i, n)
      BY <2>5, <2>6, <2>9, <3>3, <3>4, <3>5, <3>6
    <3>8. QED
      BY <3>7 DEF r, g
  <2>10. CASE e.kind = "sfn" /\ (TiedTo(st, e) \/ e.sfn \in g.sfns)
    <3> DEFINE s1 == [st EXCEPT !.stop = TRUE]
               s2 == [s1 EXCEPT !.slot = i]
               s3 == [s2 EXCEPT !.at = i]
    <3>1. r = s3
      BY <2>4, <2>10 DEF Looked
    <3>2. s1 \in ScanT /\ s1.stop /\ s1.blk = st.blk
      BY <2>1 DEF ScanT
    <3> HIDE DEF s1
    <3>3. s2 \in ScanT /\ s2.stop = s1.stop /\ s2.slot = i /\ s2.blk = s1.blk
      BY <1>1, <3>2 DEF ScanT
    <3> HIDE DEF s2
    <3>4. s3 \in ScanT /\ s3.stop = s2.stop /\ s3.slot = s2.slot /\ s3.at = i /\ s3.blk = s2.blk
      BY <1>1, <3>3 DEF ScanT
    <3> HIDE DEF s3
    <3>5. r.stop /\ r.slot = i /\ r.blk = st.blk
      BY <3>1, <3>2, <3>3, <3>4
    <3>6. Seeks(t, r, i, n)
      BY <1>1, <2>5, <2>7, <2>10, <3>5 DEF Seeks, Block
    <3>7. QED
      BY <3>6 DEF r, g
  <2>11. CASE e.kind \notin {"end", "lfn"} /\ ~(e.kind = "sfn" /\ (TiedTo(st, e) \/ e.sfn \in g.sfns))
    <3> DEFINE s1 == [st EXCEPT !.ord = NoOrd]
               s2 == [s1 EXCEPT !.blk = 0]
    <3>1. r = s2
      BY <2>4, <2>11 DEF Looked, Skips
    <3>2. s1 \in ScanT /\ s1.stop = st.stop /\ s1.slot = st.slot /\ s1.ord = NoOrd
      BY <2>1 DEF ScanT, NoOrd
    <3> HIDE DEF s1
    <3>3. s2 \in ScanT /\ s2.stop = s1.stop /\ s2.slot = s1.slot /\ s2.ord = s1.ord /\ s2.blk = 0
      BY <3>2 DEF ScanT
    <3> HIDE DEF s2
    <3>4. r.stop = st.stop /\ r.slot = st.slot /\ r.ord = NoOrd /\ r.blk = 0
      BY <3>1, <3>2, <3>3
    <3>5. At(t, r, i, n)
      BY <1>1, <2>11, <3>4, AtNone
    <3>6. ~Begun(t, i)
      BY <1>1, <2>11, BegunStep
    <3>7. Block(t, r, i)
      BY <3>4, <3>6 DEF Block
    <3>8. Seeks(t, r, i, n)
      BY <2>5, <2>6, <2>7, <2>11, <3>4, <3>5, <3>7
    <3>9. QED
      BY <3>8 DEF r, g
  <2>12. QED
    BY <2>8, <2>9, <2>10, <2>11
<1>6. QED
  BY <1>4, <1>5

\* A search for n finds an entry of the name, and finds one when there is one
\* before the end; blk is where the LFN entries before it begin, if they do
\* (dir_find).
LEMMA FindName ==
  ASSUME NEW t \in [Slots -> Entry], NEW len \in 0 .. MaxSectors * PerSector, NEW n \in Names
  PROVE  LET r == dir_find(t, len, Target(n))
         IN  /\ r.slot # 0 => Hit(t, r.slot, n) /\ Block(t, r, r.slot - 1)
             /\ r.slot = 0 => \A j \in 1 .. len : Hit(t, j, n) => \E i \in 1 .. j - 1 : t[i].kind = "end"
<1> DEFINE g == Target(n)
           r == dir_find(t, len, g)
<1>1. MaxSectors * PerSector \in Nat /\ len \in Nat
  BY DirAssumption
<1>2. PICK scan : IsScan(scan, t, len, g) /\ r = scan[len]
  BY <1>1, FindDef
<1> HIDE DEF r
<1> DEFINE S == {i \in Nat : i <= len => ScanOK(t, scan[i], i) /\ Seeks(t, scan[i], i, n)}
<1>3. 0 \in S
  <2>1. /\ Scanning \in ScanT /\ Scanning.stop = FALSE /\ Scanning.slot = 0 /\ Scanning.at = 0
        /\ Scanning.blk = 0 /\ Scanning.ord = NoOrd
    BY DEF Scanning, ScanT, NoOrd, Sums
  <2>2. ScanOK(t, Scanning, 0)
    BY <2>1 DEF ScanOK
  <2>3. At(t, Scanning, 0, n)
    <3>1. 0 \notin Slots
      BY DEF Slots
    <3>2. QED
      BY <2>1, <3>1, AtNone
  <2>4. ~Begun(t, 0)
    BY DEF Begun
  <2>5. Seeks(t, Scanning, 0, n)
    BY <2>1, <2>3, <2>4 DEF Seeks, Block
  <2>6. scan[0] = Scanning
    BY <1>2 DEF IsScan
  <2>7. QED
    BY <2>2, <2>5, <2>6
<1>4. ASSUME NEW i \in S PROVE i + 1 \in S
  <2>1. i \in Nat /\ i + 1 \in Nat /\ (i + 1) - 1 = i
    OBVIOUS
  <2>2. SUFFICES ASSUME i + 1 <= len
                 PROVE  ScanOK(t, scan[i + 1], i + 1) /\ Seeks(t, scan[i + 1], i + 1, n)
    BY <2>1
  <2>3. i <= len /\ i + 1 \in 1 .. len /\ i + 1 \in Slots
    BY <1>1, <2>1, <2>2 DEF Slots
  <2>4. ScanOK(t, scan[(i + 1) - 1], (i + 1) - 1) /\ Seeks(t, scan[(i + 1) - 1], (i + 1) - 1, n)
    BY <2>1, <2>3
  <2>5. scan[i + 1] = ScanRound(t, g, scan[(i + 1) - 1], i + 1)
    BY <1>2, <2>3 DEF IsScan
  <2> HIDE DEF S
  <2>6. ScanOK(t, ScanRound(t, g, scan[(i + 1) - 1], i + 1), i + 1)
    BY <2>3, <2>4, RoundOK
  <2>7. Seeks(t, ScanRound(t, g, scan[(i + 1) - 1], i + 1), i + 1, n)
    BY <2>3, <2>4, SeeksRound
  <2>8. QED
    BY <2>5, <2>6, <2>7
<1>5. S = Nat
  <2>1. S \in SUBSET Nat
    OBVIOUS
  <2> HIDE DEF S
  <2>2. QED
    BY <1>3, <1>4, <2>1, Induction
<1>6. ScanOK(t, r, len) /\ Seeks(t, r, len, n)
  BY <1>1, <1>2, <1>5
<1> HIDE DEF S
<1>7. r.slot # 0 => Hit(t, r.slot, n) /\ Block(t, r, r.slot - 1)
  BY <1>6 DEF Seeks
<1>8. ASSUME r.slot = 0, NEW j \in 1 .. len, Hit(t, j, n)
      PROVE  \E i \in 1 .. j - 1 : t[i].kind = "end"
  <2>1. r.stop
    BY <1>6, <1>8 DEF Seeks
  <2>2. r.at \in 1 .. len /\ t[r.at].kind = "end" /\ ~(j \in 1 .. r.at)
    BY <1>6, <1>8, <2>1 DEF Seeks, ScanOK
  <2>3. r.at \in 1 .. j - 1
    BY <1>1, <2>2
  <2>4. QED
    BY <2>2, <2>3
<1>9. QED
  BY <1>7, <1>8 DEF r, g

\* A search for a short name alone finds it when it is there before the end
\* (dir_register, gen_numname).
LEMMA FindShort ==
  ASSUME NEW t \in [Slots -> Entry], NEW len \in 0 .. MaxSectors * PerSector, NEW s,
         dir_find(t, len, ShortTarget(s)).slot = 0
  PROVE  \A j \in 1 .. len :
           t[j].kind = "sfn" /\ t[j].sfn = s => \E i \in 1 .. j - 1 : t[i].kind = "end"
<1> DEFINE g == ShortTarget(s)
           r == dir_find(t, len, g)
           Sees(p, i) ==
             /\ ~p.stop => p.slot = 0 /\ \A j \in 1 .. i : t[j].kind # "end" /\ ~(t[j].kind = "sfn" /\ t[j].sfn = s)
             /\ p.stop /\ p.slot = 0 =>
                  t[p.at].kind = "end" /\ \A j \in 1 .. p.at : ~(t[j].kind = "sfn" /\ t[j].sfn = s)
<1>1. MaxSectors * PerSector \in Nat /\ len \in Nat
  BY DirAssumption
<1>2. g.lfn = FALSE /\ g.sfns = {s}
  BY DEF ShortTarget
<1>3. PICK scan : IsScan(scan, t, len, g) /\ r = scan[len]
  BY <1>1, FindDef
<1> HIDE DEF r, g
<1>4. ASSUME NEW i \in Slots, NEW p, ScanOK(t, p, i - 1), Sees(p, i - 1)
      PROVE  Sees(ScanRound(t, g, p, i), i)
  <2> DEFINE st == [p EXCEPT !.at = i]
             e == t[i]
             q == ScanRound(t, g, p, i)
  <2>1. i \in Nat \ {0} /\ (\A j \in 1 .. i : j \in 1 .. i - 1 \/ j = i) /\ p \in ScanT
    BY <1>4 DEF Slots, ScanOK
  <2>2. CASE p.stop
    <3>1. q = p
      BY <2>2 DEF ScanRound
    <3>2. QED
      BY <1>4, <2>2, <3>1
  <2>3. CASE ~p.stop
    <3>1. /\ st \in ScanT /\ st.stop = p.stop /\ st.slot = p.slot /\ st.at = i
      BY <2>1 DEF ScanT
    <3>2. q = Looked(st, i, e, g)
      BY <2>3 DEF ScanRound
    <3>3. p.slot = 0 /\ \A j \in 1 .. i - 1 : t[j].kind # "end" /\ ~(t[j].kind = "sfn" /\ t[j].sfn = s)
      BY <1>4, <2>3
    <3> HIDE DEF st, q
    <3>4. CASE e.kind = "end"
      <4> DEFINE s1 == [st EXCEPT !.stop = TRUE]
                 s2 == [s1 EXCEPT !.at = i]
      <4>1. q = s2
        BY <3>2, <3>4 DEF Looked
      <4>2. s1 \in ScanT /\ s1.stop /\ s1.slot = st.slot
        BY <3>1 DEF ScanT
      <4> HIDE DEF s1
      <4>3. s2.stop = s1.stop /\ s2.slot = s1.slot /\ s2.at = i
        BY <2>1, <4>2 DEF ScanT
      <4> HIDE DEF s2
      <4>4. q.stop /\ q.at = i
        BY <4>1, <4>2, <4>3
      <4>5. Sees(q, i)
        BY <2>1, <3>3, <3>4, <4>4
      <4>6. QED
        BY <4>5 DEF q
    <3>5. CASE e.kind = "sfn" /\ (TiedTo(st, e) \/ e.sfn \in g.sfns)
      <4> DEFINE s1 == [st EXCEPT !.stop = TRUE]
                 s2 == [s1 EXCEPT !.slot = i]
                 s3 == [s2 EXCEPT !.at = i]
      <4>1. q = s3
        BY <3>2, <3>5 DEF Looked
      <4>2. s1 \in ScanT /\ s1.stop
        BY <3>1 DEF ScanT
      <4> HIDE DEF s1
      <4>3. s2 \in ScanT /\ s2.stop = s1.stop /\ s2.slot = i
        BY <2>1, <4>2 DEF ScanT
      <4> HIDE DEF s2
      <4>4. s3.stop = s2.stop /\ s3.slot = s2.slot
        BY <2>1, <4>3 DEF ScanT
      <4> HIDE DEF s3
      <4>5. q.stop /\ q.slot # 0
        BY <2>1, <4>1, <4>2, <4>3, <4>4
      <4>6. Sees(q, i)
        BY <4>5
      <4>7. QED
        BY <4>6 DEF q
    <3>6. CASE e.kind # "end" /\ ~(e.kind = "sfn" /\ (TiedTo(st, e) \/ e.sfn \in g.sfns))
      <4>1. q = IF e.kind = "lfn" THEN st ELSE Skips(st)
        BY <1>2, <3>2, <3>6 DEF Looked
      <4> DEFINE s1 == [st EXCEPT !.ord = NoOrd]
                 s2 == [s1 EXCEPT !.blk = 0]
      <4>2. s1 \in ScanT /\ s1.stop = st.stop /\ s1.slot = st.slot
        BY <3>1 DEF ScanT, NoOrd
      <4>3. Skips(st) = s2
        BY DEF Skips
      <4> HIDE DEF s1
      <4>4. s2.stop = s1.stop /\ s2.slot = s1.slot
        BY <4>2 DEF ScanT
      <4> HIDE DEF s2
      <4>5. q.stop = st.stop /\ q.slot = st.slot
        BY <4>1, <4>2, <4>3, <4>4
      <4>6. ~(e.kind = "sfn" /\ e.sfn = s)
        BY <1>2, <3>6
      <4>7. ~q.stop /\ q.slot = 0
        BY <2>3, <3>1, <3>3, <4>5
      <4>8. Sees(q, i)
        BY <2>1, <3>3, <3>6, <4>6, <4>7
      <4>9. QED
        BY <4>8 DEF q
    <3>7. QED
      BY <3>4, <3>5, <3>6
  <2>4. QED
    BY <2>2, <2>3
<1> DEFINE S == {i \in Nat : i <= len => ScanOK(t, scan[i], i) /\ Sees(scan[i], i)}
<1>5. 0 \in S
  <2>1. /\ Scanning \in ScanT /\ Scanning.stop = FALSE /\ Scanning.slot = 0 /\ Scanning.at = 0
        /\ Scanning.blk = 0
    BY DEF Scanning, ScanT, NoOrd, Sums
  <2>2. ScanOK(t, Scanning, 0)
    BY <2>1 DEF ScanOK
  <2>3. Sees(Scanning, 0)
    BY <2>1
  <2>4. scan[0] = Scanning
    BY <1>3 DEF IsScan
  <2> HIDE DEF Sees
  <2>5. QED
    BY <2>2, <2>3, <2>4
<1> HIDE DEF Sees
<1>6. ASSUME NEW i \in S PROVE i + 1 \in S
  <2>1. i \in Nat /\ i + 1 \in Nat /\ (i + 1) - 1 = i
    OBVIOUS
  <2>2. SUFFICES ASSUME i + 1 <= len
                 PROVE  ScanOK(t, scan[i + 1], i + 1) /\ Sees(scan[i + 1], i + 1)
    BY <2>1
  <2>3. i <= len /\ i + 1 \in 1 .. len /\ i + 1 \in Slots
    BY <1>1, <2>1, <2>2 DEF Slots
  <2>4. ScanOK(t, scan[(i + 1) - 1], (i + 1) - 1) /\ Sees(scan[(i + 1) - 1], (i + 1) - 1)
    BY <2>1, <2>3
  <2>5. scan[i + 1] = ScanRound(t, g, scan[(i + 1) - 1], i + 1)
    BY <1>3, <2>3 DEF IsScan
  <2> HIDE DEF S
  <2>6. ScanOK(t, ScanRound(t, g, scan[(i + 1) - 1], i + 1), i + 1)
    BY <2>3, <2>4, RoundOK
  <2>7. Sees(ScanRound(t, g, scan[(i + 1) - 1], i + 1), i + 1)
    BY <1>4, <2>3, <2>4
  <2>8. QED
    BY <2>5, <2>6, <2>7
<1>7. S = Nat
  <2>1. S \in SUBSET Nat
    OBVIOUS
  <2> HIDE DEF S
  <2>2. QED
    BY <1>5, <1>6, <2>1, Induction
<1>8. ScanOK(t, r, len) /\ Sees(r, len)
  BY <1>1, <1>3, <1>7
<1> HIDE DEF S
<1>9. SUFFICES ASSUME NEW j \in 1 .. len, t[j].kind = "sfn", t[j].sfn = s
               PROVE  \E i \in 1 .. j - 1 : t[i].kind = "end"
  OBVIOUS
<1>10. r.slot = 0
  BY DEF r, g
<1>11. r.stop
  BY <1>8, <1>9 DEF Sees
<1>12. r.at \in 1 .. len /\ t[r.at].kind = "end" /\ ~(j \in 1 .. r.at)
  BY <1>8, <1>9, <1>10, <1>11 DEF Sees, ScanOK
<1>13. r.at \in 1 .. j - 1
  BY <1>1, <1>12
<1>14. QED
  BY <1>12, <1>13

-----------------------------------------------------------------------------
(* Tables that differ in one entry.                                        *)

\* An entry of a name is in a sector of the table.
LEMMA EntryLinked ==
  ASSUME NEW d \in DevT, Untouched(d), NEW j \in Slots, d.ent[j].kind \in {"sfn", "lfn"}
  PROVE  SectorOf(j) <= d.len /\ j \in 1 .. d.len * PerSector
<1>1. d.len \in 1 .. MaxSectors /\ MaxSectors \in Nat /\ PerSector \in Nat /\ SectorOf(j) \in 1 .. MaxSectors
  BY SlotFacts, DirAssumption DEF DevT
<1>2. SectorOf(j) <= d.len
  BY <1>1, EntryFacts DEF Untouched
<1>3. j = (SectorOf(j) - 1) * PerSector + Within(j) /\ Within(j) \in 1 .. PerSector
  BY SlotFacts
<1>4. \A a, b \in Nat : a <= b => a * PerSector <= b * PerSector
  BY <1>1
<1>5. SectorOf(j) - 1 \in Nat /\ d.len - 1 \in Nat /\ SectorOf(j) - 1 <= d.len - 1
  BY <1>1, <1>2
<1>6. (SectorOf(j) - 1) * PerSector <= (d.len - 1) * PerSector
  BY <1>4, <1>5
<1>7. (d.len - 1) * PerSector + PerSector = d.len * PerSector
  BY <1>1
<1>8. (SectorOf(j) - 1) * PerSector \in Nat /\ (d.len - 1) * PerSector \in Nat /\ d.len * PerSector \in Nat
  BY <1>1, <1>5
<1>9. j \in Nat \ {0}
  BY DEF Slots
<1>10. QED
  BY <1>1, <1>2, <1>3, <1>6, <1>7, <1>8, <1>9

\* An entry of a name has no end before it in a packed table.
LEMMA BeforeEnd ==
  ASSUME NEW d \in DevT, Untouched(d), Packed(d.ent, d.len),
         NEW j \in Slots, d.ent[j].kind \in {"sfn", "lfn"}
  PROVE  /\ j \in 1 .. d.len * PerSector
         /\ \A i \in 1 .. j - 1 : d.ent[i].kind # "end"
<1>1. SectorOf(j) <= d.len /\ j \in 1 .. d.len * PerSector
  BY EntryLinked
<1>2. ASSUME NEW i \in 1 .. j - 1 PROVE d.ent[i].kind # "end"
  <2>1. i \in Slots /\ i < j
    BY DirAssumption DEF Slots
  <2>2. QED
    BY <1>1, <2>1 DEF Packed
<1>3. QED
  BY <1>1, <1>2

\* A name that is spelled in one table is spelled in any that has its LFN entries.
LEMMA LfnKept ==
  ASSUME NEW t, NEW u, \A x \in Slots : t[x].kind = "lfn" => u[x] = t[x],
         NEW i \in Nat, i <= MaxSectors * PerSector
  PROVE  /\ Begun(t, i) => Begun(u, i)
         /\ \A n \in Names : \A c : Spelled(t, i, n, 0, c) => Spelled(u, i, n, 0, c)
<1>1. ASSUME Begun(t, i) PROVE Begun(u, i)
  <2>1. PICK b \in 1 .. i : t[b].last /\ \A x \in b .. i : t[x].kind = "lfn"
    BY <1>1 DEF Begun
  <2>2. (\A x \in b .. i : x \in Slots) /\ b \in b .. i
    BY DirAssumption DEF Slots
  <2>3. t[b] = u[b] /\ \A x \in b .. i : u[x].kind = "lfn"
    BY <2>1, <2>2
  <2>4. QED
    BY <2>1, <2>3 DEF Begun
<1>2. ASSUME NEW n \in Names, NEW c, Spelled(t, i, n, 0, c) PROVE Spelled(u, i, n, 0, c)
  BY <1>2, SpelledIn
<1>3. QED
  BY <1>1, <1>2

\* Entry j is the same in t and u, and so are the names tied to it.
Alike(t, u, j) == t[j] = u[j] /\ \A n \in Names : Tied(t, j, n) <=> Tied(u, j, n)

\* What a table keeps of the names depends on its SFN entries and what is tied
\* to them.
LEMMA AlikeFacts ==
  ASSUME NEW t, NEW u, \A j \in Slots : t[j].kind = "sfn" \/ u[j].kind = "sfn" => Alike(t, u, j),
         NEW h, MadeT(h.made)
  PROVE  /\ \A n \in Names, j \in Slots : (Hit(t, j, n) <=> Hit(u, j, n)) /\ (Hit(t, j, n) => t[j] = u[j])
         /\ Keeps(t, h) => Keeps(u, h)
<1>1. ASSUME NEW n \in Names, NEW j \in Slots
      PROVE  (Hit(t, j, n) <=> Hit(u, j, n)) /\ (Hit(t, j, n) => t[j] = u[j])
  BY DEF Hit, Alike
<1>2. ASSUME Keeps(t, h) PROVE Proper(u, h.littered)
  BY <1>2 DEF Keeps, Proper, Alike
<1>3. ASSUME Keeps(t, h) PROVE Uniform(u, h.littered)
  BY <1>1, <1>3 DEF Keeps, Uniform
<1>4. ASSUME Keeps(t, h) PROVE Durable(u, h)
  BY <1>1, <1>4 DEF Keeps, Durable, MadeT
<1>5. QED
  BY <1>1, <1>2, <1>3, <1>4 DEF Keeps

\* Tables with the same SFN and LFN entries have the same names.
LEMMA SameEntries ==
  ASSUME NEW t, NEW u,
         \A x \in Slots : t[x].kind \in {"sfn", "lfn"} \/ u[x].kind \in {"sfn", "lfn"} => t[x] = u[x]
  PROVE  /\ \A j \in Slots : t[j].kind = "sfn" \/ u[j].kind = "sfn" => Alike(t, u, j)
         /\ \A n \in Names, j \in Slots : Orphan(u, j, n) => Orphan(t, j, n)
         /\ \A i \in 0 .. MaxSectors * PerSector : Begun(u, i) => Begun(t, i)
<1>1. \A j \in Slots : j - 1 \in Nat /\ j - 1 <= MaxSectors * PerSector
  BY DirAssumption DEF Slots
<1>2. \A j \in Slots, n \in Names : \A c : Spelled(t, j - 1, n, 0, c) <=> Spelled(u, j - 1, n, 0, c)
  BY <1>1, LfnKept
<1>3. ASSUME NEW j \in Slots, t[j].kind = "sfn" \/ u[j].kind = "sfn"
      PROVE  Alike(t, u, j)
  BY <1>2, <1>3 DEF Alike, Tied
<1>4. \A n \in Names, j \in Slots : Orphan(u, j, n) => Orphan(t, j, n)
  BY <1>2 DEF Orphan
<1>5. \A i \in 0 .. MaxSectors * PerSector : Begun(u, i) => Begun(t, i)
  <2>1. \A i \in 0 .. MaxSectors * PerSector : i \in Nat /\ i <= MaxSectors * PerSector
    BY DirAssumption
  <2>2. QED
    BY <2>1, LfnKept
<1>6. QED
  BY <1>3, <1>4, <1>5

\* An LFN entry that is written before a free one is part of no name yet.
LEMMA LfnPut ==
  ASSUME NEW t, NEW u, NEW a \in Slots, a + 1 \in Slots,
         \A x \in Slots : x # a => u[x] = t[x],
         t[a].kind \notin {"sfn", "lfn"}, u[a].kind = "lfn", t[a + 1].kind \notin {"sfn", "lfn"}
  PROVE  /\ \A j \in Slots : t[j].kind = "sfn" \/ u[j].kind = "sfn" => Alike(t, u, j)
         /\ \A n \in Names, j \in Slots : Orphan(u, j, n) => Orphan(t, j, n) \/ j = a + 1
         /\ \A i \in 0 .. MaxSectors * PerSector : i # a /\ Begun(u, i) => Begun(t, i)
<1>1. /\ a \in Nat \ {0} /\ \A j \in Slots : j \in Nat \ {0} /\ j - 1 \in Nat /\ j - 1 <= MaxSectors * PerSector
      /\ MaxSectors * PerSector \in Nat
  BY DirAssumption DEF Slots
<1>2. \A x \in Slots : t[x].kind = "lfn" => u[x] = t[x]
  OBVIOUS
<1>3. u[a + 1].kind # "lfn"
  BY <1>1
<1>4. ASSUME NEW i \in Nat, i # a, NEW n \in Names, NEW c, Spelled(u, i, n, 0, c)
      PROVE  Spelled(t, i, n, 0, c)
  <2>1. Len(Parts[n]) \in Nat
    BY NameFacts
  <2>2. ASSUME NEW x \in Slots, x <= i, i + 0 < x + Len(Parts[n]), u[x].kind = "lfn"
        PROVE  t[x] = u[x]
    <3>1. SUFFICES ASSUME x = a PROVE FALSE
      OBVIOUS
    <3>2. i - a \in 1 .. Len(Parts[n]) /\ i + 0 + 1 - (i - a) = a + 1
      BY <1>1, <1>4, <2>1, <2>2, <3>1
    <3>3. Piece(u[a + 1], n, i - a, c)
      BY <1>4, <3>2 DEF Spelled
    <3>4. QED
      BY <1>3, <3>3 DEF Piece
  <2>3. QED
    BY <1>4, <2>2, SpelledIn
<1>5. \A j \in Slots, n \in Names : \A c : j - 1 # a => (Spelled(t, j - 1, n, 0, c) <=> Spelled(u, j - 1, n, 0, c))
  BY <1>1, <1>2, <1>4, LfnKept
<1>6. \A j \in Slots : j - 1 = a => j = a + 1
  BY <1>1
<1>7. ASSUME NEW j \in Slots, t[j].kind = "sfn" \/ u[j].kind = "sfn"
      PROVE  Alike(t, u, j)
  <2>1. j # a /\ j # a + 1
    BY <1>1, <1>7
  <2>2. QED
    BY <1>5, <1>6, <2>1 DEF Alike, Tied
<1>8. ASSUME NEW n \in Names, NEW j \in Slots, Orphan(u, j, n), j # a + 1
      PROVE  Orphan(t, j, n)
  <2>1. \A c : Spelled(t, j - 1, n, 0, c) <=> Spelled(u, j - 1, n, 0, c)
    BY <1>5, <1>6, <1>8
  <2>2. t[j].kind = "sfn" => u[j] = t[j]
    BY DEF Slots
  <2>3. QED
    BY <1>8, <2>1, <2>2 DEF Orphan
<1>9. ASSUME NEW i \in 0 .. MaxSectors * PerSector, i # a, Begun(u, i)
      PROVE  Begun(t, i)
  <2>1. PICK b \in 1 .. i : u[b].last /\ \A x \in b .. i : u[x].kind = "lfn"
    BY <1>9 DEF Begun
  <2>2. a \notin b .. i
    <3>1. a \in b .. i => a + 1 \in b .. i
      BY <1>1, <1>9
    <3>2. QED
      BY <1>3, <2>1, <3>1
  <2>3. \A x \in b .. i : x \in Slots /\ x # a
    BY <1>1, <2>2 DEF Slots
  <2>4. b \in b .. i
    BY <1>1
  <2>5. t[b].last /\ \A x \in b .. i : t[x].kind = "lfn"
    BY <2>1, <2>3, <2>4
  <2>6. QED
    BY <2>5 DEF Begun
<1>10. QED
  BY <1>7, <1>8, <1>9

\* What dir_register knows of the entry it writes last: no search for another name
\* stops at it, and no other entry has its short name when that has a number.
Fits(t, a, j, S) ==
  /\ Vacant(t, j, S) /\ Chosen(t, j)
  /\ \A n \in Names : Spelled(t, a - 1, n, 0, Checksum[j.sfn]) => LikeOne(n, S) \/ SameName(n, j.new)

\* The SFN entry of a name that no search could stop at before.
LEMMA SfnPut ==
  ASSUME NEW t, NEW u, NEW a \in Slots, \A x \in Slots : x # a => u[x] = t[x],
         t[a].kind \notin {"sfn", "lfn"},
         NEW j, j.new \in Names, j.sfn \in ShortNames, u[a] = NewEntry(j),
         NEW h, MadeT(h.made), h.littered \in SUBSET Names,
         Keeps(t, h), Fits(t, a, j, h.littered)
  PROVE  /\ Keeps(u, h) /\ Vacant(u, j, h.littered)
         /\ \A n \in Names, i \in Slots : i # a => (Hit(u, i, n) <=> Hit(t, i, n))
         /\ \A n \in Names, i \in Slots : Orphan(u, i, n) =>
              /\ Orphan(t, i, n)
              /\ i = a => \E c : Spelled(t, a - 1, n, 0, c) /\ c # Checksum[j.sfn]
<1> DEFINE S == h.littered
           new == j.new
<1>1. /\ \A i \in Slots : i - 1 \in Nat /\ i - 1 <= MaxSectors * PerSector
      /\ u[a].kind = "sfn" /\ u[a].sfn = j.sfn /\ u[a].obj = j.obj
  BY DirAssumption DEF Slots, NewEntry, Sfn
<1>2. \A i \in Slots, n \in Names : \A c : Spelled(u, i - 1, n, 0, c) <=> Spelled(t, i - 1, n, 0, c)
  <2>1. \A x \in Slots : t[x].kind = "lfn" => u[x] = t[x]
    OBVIOUS
  <2>2. \A x \in Slots : u[x].kind = "lfn" => t[x] = u[x]
    BY <1>1
  <2>3. QED
    BY <1>1, <2>1, <2>2, LfnKept
<1>3. \A i \in Slots, n \in Names : i # a => (Tied(u, i, n) <=> Tied(t, i, n))
  BY <1>2 DEF Tied
<1>4. \A i \in Slots, n \in Names : i # a => (Hit(u, i, n) <=> Hit(t, i, n))
  BY <1>3 DEF Hit
<1>5. ASSUME NEW n \in Names, ~LikeOne(n, S), Tied(u, a, n)
      PROVE  SameName(n, new)
  BY <1>1, <1>2, <1>5 DEF Tied, Fits
<1>6. ASSUME NEW n \in Names, ~LikeOne(n, S), Hit(u, a, n), ~SameName(n, new)
      PROVE  n \notin Lossy /\ Shorts[n][1] = j.sfn /\ new \in Lossy
  <2>1. n \notin Lossy /\ Shorts[n][1] = j.sfn
    BY <1>1, <1>5, <1>6 DEF Hit
  <2>2. new \in Lossy
    BY <1>6, <2>1, ShortNamesAssumption DEF Fits, Chosen
  <2>3. QED
    BY <2>1, <2>2
<1>7. Proper(u, S)
  <2>1. SUFFICES ASSUME NEW n \in Names \ Lossy, NEW i \in Slots, ~LikeOne(n, S), u[i].kind = "sfn", Tied(u, i, n)
                 PROVE  u[i].sfn = Shorts[n][1]
    BY DEF Proper
  <2>2. CASE i = a
    <3>1. SameName(n, new)
      BY <1>5, <2>1, <2>2
    <3>2. new \notin Lossy /\ Shorts[n][1] = Shorts[new][1]
      BY <3>1, ShortNamesAssumption
    <3>3. QED
      BY <1>1, <2>2, <3>2 DEF Fits, Chosen
  <2>3. CASE i # a
    BY <1>3, <2>1, <2>3 DEF Keeps, Proper
  <2>4. QED
    BY <2>2, <2>3
<1>8. ASSUME NEW n \in Names, NEW i \in Slots, ~LikeOne(n, S), Hit(u, a, n), Hit(t, i, n), i # a
      PROVE  t[i].obj = j.obj
  <2>1. CASE SameName(n, new)
    <3>1. Hit(t, i, new) /\ ~LikeOne(new, S)
      BY <1>8, <2>1, SameFacts
    <3>2. QED
      BY <3>1 DEF Fits, Vacant
  <2>2. CASE ~SameName(n, new)
    <3>1. n \notin Lossy /\ Shorts[n][1] = j.sfn /\ new \in Lossy
      BY <1>6, <1>8, <2>2
    <3>2. t[i].kind = "sfn" /\ t[i].sfn = j.sfn
      BY <1>8, <3>1 DEF Hit, Keeps, Proper
    <3>3. QED
      BY <3>1, <3>2 DEF Fits, Chosen
  <2>3. QED
    BY <2>1, <2>2
<1>9. Uniform(u, S)
  <2>1. SUFFICES ASSUME NEW n \in Names, ~LikeOne(n, S), NEW i \in Slots, NEW k \in Slots, Hit(u, i, n), Hit(u, k, n)
                 PROVE  u[i].obj = u[k].obj
    BY DEF Uniform
  <2>2. i # a => Hit(t, i, n) /\ u[i] = t[i]
    BY <1>4, <2>1
  <2>3. k # a => Hit(t, k, n) /\ u[k] = t[k]
    BY <1>4, <2>1
  <2>4. CASE i # a /\ k # a
    BY <2>1, <2>2, <2>3, <2>4 DEF Keeps, Uniform
  <2>5. CASE i = a /\ k # a
    BY <1>1, <1>8, <2>1, <2>3, <2>5
  <2>6. CASE i # a /\ k = a
    BY <1>1, <1>8, <2>1, <2>2, <2>6
  <2>7. QED
    BY <2>4, <2>5, <2>6
<1>10. Durable(u, h)
  <2>1. SUFFICES ASSUME NEW o \in DOMAIN h.made, ~LikeOne(h.made[o], S)
                 PROVE  \E i \in Slots : Hit(u, i, h.made[o]) /\ u[i].obj = o
    BY DEF Durable
  <2>2. h.made[o] \in Names
    BY DEF MadeT
  <2>3. PICK i \in Slots : Hit(t, i, h.made[o]) /\ t[i].obj = o
    BY <2>1 DEF Keeps, Durable
  <2>4. i # a
    BY <2>3 DEF Hit
  <2>5. QED
    BY <1>4, <2>2, <2>3, <2>4
<1>11. Vacant(u, j, S)
  <2>1. SUFFICES ASSUME ~LikeOne(new, S), NEW i \in Slots, Hit(u, i, new)
                 PROVE  u[i].obj = j.obj
    BY DEF Vacant
  <2>2. CASE i = a
    BY <1>1, <2>2
  <2>3. CASE i # a
    BY <1>4, <2>1, <2>3 DEF Fits, Vacant
  <2>4. QED
    BY <2>2, <2>3
<1>12. ASSUME NEW n \in Names, NEW i \in Slots, Orphan(u, i, n)
       PROVE  /\ Orphan(t, i, n)
              /\ i = a => \E c : Spelled(t, a - 1, n, 0, c) /\ c # Checksum[j.sfn]
  <2>1. PICK s \in ShortNames : /\ Spelled(u, i - 1, n, 0, Checksum[s])
                               /\ ~(u[i].kind = "sfn" /\ Checksum[u[i].sfn] = Checksum[s])
    BY <1>12 DEF Orphan
  <2>2. Spelled(t, i - 1, n, 0, Checksum[s])
    BY <1>2, <2>1
  <2>3. Orphan(t, i, n)
    BY <2>1, <2>2 DEF Orphan
  <2>4. i = a => Checksum[s] # Checksum[j.sfn]
    BY <1>1, <2>1
  <2>5. QED
    BY <2>2, <2>3, <2>4
<1>13. QED
  BY <1>4, <1>7, <1>9, <1>10, <1>11, <1>12 DEF Keeps

\* dir_remove takes an entry of the object at old, which no name is to lead to: no
\* other entry is found by it, and no other name loses an entry.
LEMMA EntryRemoved ==
  ASSUME NEW t, NEW u, NEW a \in Slots, NEW old \in Slots, a <= old,
         \A x \in Slots : x # a => u[x] = t[x],
         u[a] = Deleted, t[old].kind = "sfn",
         \A x \in Slots : a <= x /\ x < old => t[x].kind = "lfn",
         NEW h, MadeT(h.made), t[old].obj \notin DOMAIN h.made, Keeps(t, h)
  PROVE  /\ Keeps(u, h)
         /\ \A n \in Names, i \in Slots : Hit(u, i, n) => Hit(t, i, n) /\ u[i] = t[i]
         /\ \A n \in Names, i \in Slots : i # old /\ Hit(t, i, n) => Hit(u, i, n) /\ u[i] = t[i]
         /\ \A n \in Names, i \in Slots :
              Orphan(u, i, n) => Orphan(t, i, n) \/ (i = old /\ a = old /\ Begun(t, old - 1))
         /\ \A i \in 0 .. MaxSectors * PerSector : Begun(u, i) => Begun(t, i) /\ i # a
<1> DEFINE S == h.littered
<1>1. /\ \A i \in Slots : i \in Nat \ {0} /\ i - 1 \in Nat /\ i - 1 <= MaxSectors * PerSector
      /\ MaxSectors * PerSector \in Nat
      /\ u[a].kind = "deleted"
  BY DirAssumption, EntryFacts DEF Slots
<1>2. \A x \in Slots : u[x].kind = "lfn" => t[x] = u[x]
  BY <1>1
<1>3. \A i \in Slots, n \in Names : \A c : Spelled(u, i - 1, n, 0, c) => Spelled(t, i - 1, n, 0, c)
  BY <1>1, <1>2, LfnKept
<1>4. ASSUME NEW i \in Slots, i # old, t[i].kind = "sfn", NEW n \in Names, NEW c, Spelled(t, i - 1, n, 0, c)
      PROVE  Spelled(u, i - 1, n, 0, c)
  <2>1. Len(Parts[n]) \in Nat
    BY NameFacts
  <2>2. ASSUME NEW x \in Slots, x <= i - 1, (i - 1) + 0 < x + Len(Parts[n]), t[x].kind = "lfn"
        PROVE  u[x] = t[x]
    <3>1. SUFFICES ASSUME x = a PROVE FALSE
      OBVIOUS
    <3>2. a < i /\ i - a \in 1 .. Len(Parts[n])
      BY <1>1, <2>1, <2>2, <3>1
    <3>3. i < old => t[i].kind = "lfn"
      BY <1>1, <3>2
    <3>4. old < i /\ a \in Nat /\ old \in Nat /\ i \in Nat
      BY <1>1, <1>4, <3>3
    <3>5. i - old \in 0 + 1 .. Len(Parts[n]) /\ (i - 1) + 0 + 1 - (i - old) = old
      <4>1. \A L \in Nat : i - a \in 1 .. L => i - old \in 0 + 1 .. L
        BY <3>4
      <4>2. (i - 1) + 0 + 1 - (i - old) = old
        BY <3>4
      <4>3. QED
        BY <2>1, <3>2, <4>1, <4>2
    <3>6. Piece(t[(i - 1) + 0 + 1 - (i - old)], n, i - old, c)
      BY <1>4, <3>5 DEF Spelled
    <3>7. Piece(t[old], n, i - old, c)
      BY <3>5, <3>6
    <3>8. QED
      BY <3>7 DEF Piece
  <2>3. i - 1 \in Nat
    BY <1>1
  <2> HIDE DEF Spelled
  <2>4. QED
    BY <1>4, <2>2, <2>3, SpelledIn
<1>5. ASSUME NEW n \in Names, NEW i \in Slots, u[i].kind = "sfn", Tied(u, i, n)
      PROVE  Tied(t, i, n) /\ u[i] = t[i]
  BY <1>1, <1>3, <1>5 DEF Tied
<1>6. ASSUME NEW n \in Names, NEW i \in Slots, Hit(u, i, n)
      PROVE  Hit(t, i, n) /\ u[i] = t[i]
  <2>1. i # a
    BY <1>1, <1>6 DEF Hit
  <2>2. QED
    BY <1>5, <1>6, <2>1 DEF Hit
<1>7. ASSUME NEW n \in Names, NEW i \in Slots, i # old, Hit(t, i, n)
      PROVE  Hit(u, i, n) /\ u[i] = t[i]
  <2>1. t[i].kind = "sfn"
    BY <1>7 DEF Hit
  <2>2. i # a
    BY <1>1, <1>7, <2>1
  <2>3. u[i] = t[i]
    BY <2>2
  <2>4. Tied(t, i, n) => Tied(u, i, n)
    BY <1>4, <1>7, <2>1, <2>3 DEF Tied
  <2>5. QED
    BY <1>7, <2>3, <2>4 DEF Hit
<1>8. Proper(u, S)
  BY <1>5 DEF Keeps, Proper
<1>9. Uniform(u, S)
  BY <1>6 DEF Keeps, Uniform
<1>10. Durable(u, h)
  <2>1. SUFFICES ASSUME NEW o \in DOMAIN h.made, ~LikeOne(h.made[o], S)
                 PROVE  \E i \in Slots : Hit(u, i, h.made[o]) /\ u[i].obj = o
    BY DEF Durable
  <2>2. h.made[o] \in Names
    BY DEF MadeT
  <2>3. PICK i \in Slots : Hit(t, i, h.made[o]) /\ t[i].obj = o
    BY <2>1 DEF Keeps, Durable
  <2>4. i # old
    BY <2>3
  <2>5. QED
    BY <1>7, <2>2, <2>3, <2>4
<1>11. ASSUME NEW n \in Names, NEW i \in Slots, Orphan(u, i, n), ~Orphan(t, i, n)
       PROVE  i = old /\ a = old /\ Begun(t, old - 1)
  <2>1. PICK s \in ShortNames : /\ Spelled(u, i - 1, n, 0, Checksum[s])
                               /\ ~(u[i].kind = "sfn" /\ Checksum[u[i].sfn] = Checksum[s])
    BY <1>11 DEF Orphan
  <2>2. Spelled(t, i - 1, n, 0, Checksum[s])
    BY <1>3, <2>1
  <2>3. t[i].kind = "sfn" /\ i = a
    BY <1>11, <2>1, <2>2 DEF Orphan
  <2>4. a = old
    BY <1>1, <2>3
  <2>5. 0 \in 0 .. Len(Parts[n]) - 1
    BY NameFacts
  <2>6. Begun(t, i - 1)
    BY <1>1, <2>2, <2>5, SpelledBegun
  <2>7. QED
    BY <2>3, <2>4, <2>6
<1>12. ASSUME NEW i \in 0 .. MaxSectors * PerSector, Begun(u, i)
       PROVE  Begun(t, i) /\ i # a
  <2>1. i \in Nat /\ i <= MaxSectors * PerSector
    BY <1>1
  <2>2. Begun(t, i)
    BY <1>2, <1>12, <2>1, LfnKept
  <2>3. ASSUME i = a PROVE FALSE
    <3>1. PICK b \in 1 .. i : u[b].last /\ \A x \in b .. i : u[x].kind = "lfn"
      BY <1>12 DEF Begun
    <3>2. i \in b .. i
      BY <2>1
    <3>3. QED
      BY <1>1, <2>3, <3>1, <3>2
  <2>4. QED
    BY <2>2, <2>3
<1>13. QED
  BY <1>6, <1>7, <1>8, <1>9, <1>10, <1>11, <1>12 DEF Keeps

-----------------------------------------------------------------------------
(* Steps that change no entry.                                             *)

\* The table FatFs sees is Flat, entry for entry as far as it is linked.
LEMMA TableIs ==
  ASSUME IInv, ~hist.torn, pc \notin {"dir_clear", "dir_clear_write"}
  PROVE  /\ \A i \in 1 .. TableLen : i \in Slots /\ SectorOf(i) <= Flat.len /\ Table[i] = Flat.ent[i]
         /\ TableLen = Flat.len * PerSector
<1>1. Window(dev, win) /\ CleanTo(Flat, Flat.len)
  BY DEF IInv, Clean
<1>2. /\ Linked = Flat.len /\ TableLen \in 0 .. MaxSectors * PerSector
      /\ \A i \in Slots : Table[i] = Flat.ent[i] \/ Flat.ent[i] = Junk
      /\ \A i \in Slots : i <= TableLen => SectorOf(i) <= Flat.len
  BY <1>1, TableFacts
<1>3. \A i \in 1 .. TableLen : i \in Slots
  BY <1>2, DirAssumption DEF Slots
<1>4. QED
  BY <1>1, <1>2, <1>3 DEF CleanTo, TableLen

\* A search for a name in the table as FatFs sees it.
LEMMA SearchName ==
  ASSUME IInv, ~hist.torn, pc \notin {"dir_clear", "dir_clear_write"},
         Packed(Flat.ent, Flat.len), NEW n \in Names
  PROVE  LET r == dir_find(Table, TableLen, Target(n))
         IN  /\ r.slot # 0 => /\ r.slot \in Slots /\ Hit(Flat.ent, r.slot, n)
                              /\ r.blk = 0 => ~Begun(Flat.ent, r.slot - 1)
                              /\ r.blk # 0 => r.blk \in Slots /\ Flat.ent[r.blk].last
             /\ r.slot = 0 => \A j \in Slots : ~Hit(Flat.ent, j, n)
<1> DEFINE r == dir_find(Table, TableLen, Target(n))
<1>1. /\ Window(dev, win)
      /\ Table \in [Slots -> Entry] /\ TableLen \in 0 .. MaxSectors * PerSector
      /\ Flat \in DevT /\ Untouched(Flat)
  BY TableFacts DEF IInv
<1>2. /\ \A i \in 1 .. TableLen : i \in Slots /\ Table[i] = Flat.ent[i]
      /\ TableLen = Flat.len * PerSector
  BY TableIs
<1>3. /\ r.slot # 0 => Hit(Table, r.slot, n) /\ Block(Table, r, r.slot - 1)
      /\ r.slot = 0 => \A j \in 1 .. TableLen : Hit(Table, j, n) => \E i \in 1 .. j - 1 : Table[i].kind = "end"
  BY <1>1, FindName
<1>4. r.slot # 0 => r.slot \in Slots /\ FoundAt(Table, r.slot, r.blk)
  BY <1>1, FindFacts
<1>5. \A x \in Slots : Table[x].kind \in {"sfn", "lfn"} \/ Flat.ent[x].kind \in {"sfn", "lfn"} => Table[x] = Flat.ent[x]
  BY <1>1, SeenIs
<1>6. \A j \in Slots : Table[j].kind = "sfn" \/ Flat.ent[j].kind = "sfn" => Alike(Table, Flat.ent, j)
  BY <1>5, SameEntries
<1>7. \A j \in Slots : Hit(Table, j, n) <=> Hit(Flat.ent, j, n)
  BY <1>6 DEF Hit, Alike
<1> HIDE DEF r
<1>8. ASSUME r.slot # 0
      PROVE  /\ r.slot \in Slots /\ Hit(Flat.ent, r.slot, n)
             /\ r.blk = 0 => ~Begun(Flat.ent, r.slot - 1)
             /\ r.blk # 0 => r.blk \in Slots /\ Flat.ent[r.blk].last
  <2>1. r.slot \in Slots /\ r.slot - 1 \in 0 .. MaxSectors * PerSector
    BY <1>4, <1>8, DirAssumption DEF Slots
  <2>2. Begun(Flat.ent, r.slot - 1) => Begun(Table, r.slot - 1)
    BY <1>5, <2>1, SameEntries
  <2>3. r.blk # 0 => r.blk \in Slots /\ Table[r.blk].kind = "lfn" /\ r.blk \in r.blk .. r.slot - 1
    BY <1>4, <1>8, <2>1, DirAssumption DEF FoundAt, Slots
  <2>4. QED
    BY <1>3, <1>5, <1>7, <1>8, <2>1, <2>2, <2>3 DEF Block
<1>9. ASSUME r.slot = 0, NEW j \in Slots, Hit(Flat.ent, j, n)
      PROVE  FALSE
  <2>1. Flat.ent[j].kind = "sfn" /\ Hit(Table, j, n)
    BY <1>7, <1>9 DEF Hit
  <2>2. j \in 1 .. TableLen /\ \A i \in 1 .. j - 1 : Flat.ent[i].kind # "end"
    BY <1>1, <1>2, <2>1, BeforeEnd
  <2>3. PICK i \in 1 .. j - 1 : Table[i].kind = "end"
    BY <1>3, <1>9, <2>1, <2>2
  <2>4. i \in 1 .. TableLen
    BY <1>1, <2>2
  <2>5. QED
    BY <1>2, <2>2, <2>3, <2>4
<1>10. QED
  BY <1>8, <1>9 DEF r

\* Every search for a number that dir_register tries sees all the short names.
LEMMA SearchShort ==
  ASSUME IInv, ~hist.torn, pc \notin {"dir_clear", "dir_clear_write"},
         Packed(Flat.ent, Flat.len), NEW n \in Names, ShortName(n) # <<>>
  PROVE  IF n \in Lossy THEN \A i \in Slots : Flat.ent[i].kind = "sfn" => Flat.ent[i].sfn # ShortName(n)
                        ELSE ShortName(n) = Shorts[n][1]
<1> DEFINE taken(k) == dir_find(Table, TableLen, ShortTarget(Shorts[n][k])).slot # 0
           free == {k \in DOMAIN Shorts[n] : n \notin Lossy \/ ~taken(k)}
<1>1. Shorts[n] \in Seq(DOMAIN Checksum) /\ Len(Shorts[n]) > 0
  BY DirAssumption
<1>2. DOMAIN Shorts[n] = 1 .. Len(Shorts[n]) /\ Len(Shorts[n]) \in Nat /\ 1 \in DOMAIN Shorts[n]
  BY <1>1
<1>3. free # {} /\ ShortName(n) = Shorts[n][Least(free)]
  BY DEF ShortName
<1>4. free \in SUBSET Nat
  BY <1>2
<1> HIDE DEF free, taken
<1>5. Least(free) \in free /\ \A k \in free : Least(free) <= k
  BY <1>3, <1>4, LeastIs
<1>6. CASE n \notin Lossy
  <2>1. 1 \in free /\ Least(free) \in DOMAIN Shorts[n]
    BY <1>2, <1>5, <1>6 DEF free
  <2>2. Least(free) = 1
    BY <1>2, <1>5, <2>1
  <2>3. QED
    BY <1>3, <1>6, <2>2
<1>7. CASE n \in Lossy
  <2>1. ~taken(Least(free))
    BY <1>5, <1>7 DEF free
  <2>2. dir_find(Table, TableLen, ShortTarget(ShortName(n))).slot = 0
    BY <1>3, <2>1 DEF taken
  <2>3. /\ Window(dev, win)
        /\ Table \in [Slots -> Entry] /\ TableLen \in 0 .. MaxSectors * PerSector
        /\ Flat \in DevT /\ Untouched(Flat)
    BY TableFacts DEF IInv
  <2>4. /\ \A i \in 1 .. TableLen : i \in Slots /\ Table[i] = Flat.ent[i]
        /\ TableLen = Flat.len * PerSector
    BY TableIs
  <2>5. \A j \in 1 .. TableLen :
          Table[j].kind = "sfn" /\ Table[j].sfn = ShortName(n) => \E i \in 1 .. j - 1 : Table[i].kind = "end"
    BY <2>2, <2>3, FindShort
  <2>6. ASSUME NEW j \in Slots, Flat.ent[j].kind = "sfn", Flat.ent[j].sfn = ShortName(n)
        PROVE  FALSE
    <3>1. j \in 1 .. TableLen /\ \A i \in 1 .. j - 1 : Flat.ent[i].kind # "end"
      BY <2>3, <2>4, <2>6, BeforeEnd
    <3>2. PICK i \in 1 .. j - 1 : Table[i].kind = "end"
      BY <2>4, <2>5, <2>6, <3>1
    <3>3. i \in 1 .. TableLen
      BY <2>3, <3>1
    <3>4. QED
      BY <2>4, <3>1, <3>2, <3>3
  <2>7. QED
    BY <1>7, <2>6
<1>8. QED
  BY <1>6, <1>7

\* A history that forgets objects and litters names asks less of a table.
Weaker(h, g) ==
  /\ h.littered \subseteq g.littered
  /\ \A o \in DOMAIN g.made : o \in DOMAIN h.made /\ g.made[o] = h.made[o]

\* What is enough for a history is enough for one that asks less.
LEMMA KeepsLess ==
  ASSUME NEW h, NEW g, Weaker(h, g), NEW t, Keeps(t, h)
  PROVE  Keeps(t, g)
<1>1. \A n : LikeOne(n, h.littered) => LikeOne(n, g.littered)
  BY DEF Weaker, LikeOne
<1>2. Proper(t, g.littered)
  BY <1>1 DEF Keeps, Proper
<1>3. Uniform(t, g.littered)
  BY <1>1 DEF Keeps, Uniform
<1>4. Durable(t, g)
  BY <1>1 DEF Keeps, Durable, Weaker
<1>5. QED
  BY <1>2, <1>3, <1>4 DEF Keeps

\* The LFN entries that are waiting for their SFN entry are those of the name that
\* is lost when the request ends here.
LEMMA AwaitedCut ==
  ASSUME IInv, NEW n, NEW j, Awaited(n, j)
  PROVE  LikeOne(n, Cut)
<1>1. pc = "put_sfn" /\ job.new \in NeedsLfn /\ SameName(n, job.new)
  BY DEF Awaited
<1>2. job.new \in Names /\ job.op \in {"create", "rename"}
  BY <1>1 DEF IInv, JobOK, Registering
<1>3. LfnCount(job.new) > 0
  BY <1>1, <1>2, NameFacts
<1>4. Cut = {job.new}
  BY <1>1, <1>2, <1>3 DEF Cut
<1>5. QED
  BY <1>1, <1>4 DEF LikeOne

\* In both tables, LFN entries without their SFN entry are those of a littered name
\* once the request has ended here.
LEMMA OrphansCut ==
  ASSUME IInv, Orphans
  PROVE  /\ OrphansIn(dev.ent, hist.littered \cup Cut)
         /\ OrphansIn(Flat.ent, hist.littered \cup Cut)
BY AwaitedCut DEF Orphans, OrphansIn, LikeOne

\* Two sets of names.
LEMMA OrphansMore ==
  ASSUME NEW t, NEW S, NEW R, S \subseteq R, OrphansIn(t, S)
  PROVE  OrphansIn(t, R)
BY DEF OrphansIn, LikeOne

\* A step that changes no entry of Flat keeps what the tables have of the names, when
\* the history asks no more of them.
LEMMA NamesMoved ==
  ASSUME IInv, NamesInv, Flat' = Flat, dev' \in {dev, Flat},
         pc \notin {"dir_clear", "dir_clear_write"}, pc' \notin {"dir_clear", "dir_clear_write"},
         hist'.torn \/ ~hist.torn,
         Weaker(hist, hist'), hist.littered \cup Cut \subseteq hist'.littered \cup Cut',
         pc # "put_sfn" \/ Cut \subseteq hist'.littered,
         ~hist.torn => JobNames'
  PROVE  NamesInv'
<1>1. MadeT(hist'.made)
  BY DEF NamesInv, MadeT, Weaker
<1>2. ASSUME ~hist'.torn
      PROVE  Ends' /\ Keeps(Flat.ent, hist)' /\ Keeps(dev.ent, hist)' /\ Orphans' /\ JobNames'
  <2>1. ~hist.torn
    BY <1>2
  <2>2. Ends /\ Keeps(Flat.ent, hist) /\ Keeps(dev.ent, hist) /\ Orphans
    BY <2>1 DEF NamesInv
  <2>3. Ends'
    BY <2>2 DEF Ends
  <2>4. Keeps(Flat'.ent, hist') /\ Keeps(dev'.ent, hist')
    BY <2>2, KeepsLess
  <2>5. Orphans'
    <3>1. OrphansIn(dev'.ent, hist.littered \cup Cut)
      BY <2>2, OrphansCut
    <3>2. OrphansIn(dev'.ent, hist'.littered \cup Cut')
      BY <3>1, OrphansMore
    <3>3. ASSUME NEW n \in Names, NEW j \in Slots, Orphan(Flat.ent, j, n)
          PROVE  LikeOne(n, hist'.littered)
      <4>1. LikeOne(n, hist.littered) => LikeOne(n, hist'.littered)
        BY DEF Weaker, LikeOne
      <4>2. CASE pc # "put_sfn"
        BY <2>2, <3>3, <4>1, <4>2 DEF Orphans, Awaited
      <4>3. CASE Cut \subseteq hist'.littered
        <5>1. LikeOne(n, Cut) => LikeOne(n, hist'.littered)
          BY <4>3 DEF LikeOne
        <5>2. QED
          BY <2>2, <3>3, <4>1, <5>1, AwaitedCut DEF Orphans
      <4>4. QED
        BY <4>2, <4>3
    <3>4. QED
      BY <3>2, <3>3 DEF Orphans
  <2>6. QED
    BY <2>1, <2>3, <2>4, <2>5
<1>3. QED
  BY <1>1, <1>2 DEF NamesInv

\* No request knows anything of the names when it has ended.
LEMMA IdleNames ==
  ASSUME pc' = "idle", job' = NoJob
  PROVE  JobNames' /\ Cut' = {}
BY NoJobIs DEF JobNames, Cut, Naming, Registering

\* A request ends with an error; the name it was registering is littered.
LEMMA NamesFail ==
  ASSUME IInv, NamesInv, NEW o, Sound(dev, win, o), Take(o), win' = o.win, Quiet, Fails
  PROVE  NamesInv'
<1>1. HistT(hist) /\ pc' = "idle" /\ job' = NoJob
  BY DEF IInv, Fails, Answer
<1>2. /\ hist'.littered = hist.littered \cup Cut /\ hist'.made = hist.made
      /\ hist'.torn = (hist.torn \/ pc \in {"dir_clear", "dir_clear_write"})
  BY <1>1 DEF HistT, Fails
<1>3. Flat' = Flat /\ dev' \in {dev, Flat}
  BY MovedOK DEF Counted
<1>4. CASE pc \in {"dir_clear", "dir_clear_write"}
  BY <1>2, <1>4 DEF NamesInv
<1>5. CASE pc \notin {"dir_clear", "dir_clear_write"}
  <2>1. Weaker(hist, hist') /\ Cut \subseteq hist'.littered
    BY <1>2 DEF Weaker
  <2>2. hist.littered \cup Cut \subseteq hist'.littered \cup Cut'
    BY <1>2
  <2>3. hist'.torn \/ ~hist.torn
    BY <1>1, <1>2 DEF HistT
  <2>4. QED
    BY <1>1, <1>3, <1>5, <2>1, <2>2, <2>3, IdleNames, NamesMoved
<1>6. QED
  BY <1>4, <1>5

\* A request goes on without a change to the history or to any entry.
LEMMA NamesGo ==
  ASSUME IInv, NamesInv, NEW o, Sound(dev, win, o), Take(o), win' = o.win, Counted,
         pc \in {"idle", "find", "find_new", "dir_alloc", "dir_next"},
         pc' \notin {"dir_clear", "dir_clear_write"},
         Weaker(hist, hist'), hist'.torn = hist.torn,
         ~hist.torn /\ Flat' = Flat => JobNames'
  PROVE  NamesInv'
<1>1. Cut = {}
  BY DEF Cut
<1>2. Flat' = Flat /\ dev' \in {dev, Flat}
  BY MovedOK
<1>3. hist'.torn \/ ~hist.torn
  BY DEF IInv, HistT
<1>4. hist.littered \cup Cut \subseteq hist'.littered \cup Cut'
  BY <1>1 DEF Weaker
<1>5. QED
  BY <1>2, <1>3, <1>4, NamesMoved

\* A request that answers and leaves the history as it is.
LEMMA NamesSay ==
  ASSUME IInv, NamesInv, NEW o, Sound(dev, win, o), Take(o), win' = o.win, Quiet, NEW ret, Says(ret),
         pc \in {"idle", "find", "find_new", "dir_alloc", "dir_next"}
  PROVE  NamesInv'
<1>1. pc' = "idle" /\ job' = NoJob /\ hist' = hist
  BY DEF Says, Answer
<1>2. Weaker(hist, hist') /\ hist'.torn = hist.torn
  BY <1>1 DEF Weaker
<1>3. Counted
  BY DEF Counted
<1>4. QED
  BY <1>1, <1>2, <1>3, IdleNames, NamesGo

\* A request arrives.
LEMMA NamesRequest ==
  ASSUME IInv, NamesInv, NEW op \in Ops \ {"none"}, NEW n \in Names, NEW m \in Names, Request(op, n, m),
         op = "create" => n = m
  PROVE  NamesInv'
<1>1. /\ Flat' = Flat /\ dev' = dev /\ hist' = hist /\ pc = "idle" /\ pc' = "find"
  BY DEF Request, Flat
<1>2. Weaker(hist, hist')
  BY <1>1 DEF Weaker
<1>3. Cut = {} /\ (hist'.torn \/ ~hist.torn)
  BY <1>1 DEF Cut, IInv, HistT
<1>4. JobNames'
  <2>1. job'.op = op /\ job'.name = n /\ job'.new = m
    BY NoJobIs DEF Request, NoJob
  <2>2. QED
    BY <1>1, <2>1 DEF JobNames, Naming, Registering
<1>5. QED
  BY <1>1, <1>2, <1>3, <1>4, NamesMoved

\* dir_register has chosen the short name, or all are taken.
LEMMA NamesRegister ==
  ASSUME IInv, NamesInv, NEW o, Sound(dev, win, o), Take(o), win' = o.win, Quiet, Register,
         pc \in {"find", "find_new"}, job.op # "none",
         ~hist.torn => /\ Vacant(Flat.ent, job, hist.littered)
                       /\ job.op = "rename" => NoneLeft(Flat.ent, job, job.blk)
  PROVE  NamesInv'
<1>1. /\ job \in JobT /\ job.new \in Names
  BY DEF IInv, JobOK
<1>2. CASE ShortName(job.new) = <<>>
  BY <1>2, NamesSay DEF Register
<1>3. CASE ShortName(job.new) # <<>>
  <2> DEFINE s == ShortName(job.new)
             j == WithSfn(job, s, 1)
  <2>1. GoOn(j, "dir_alloc")
    BY <1>3 DEF Register, WithSfn
  <2>2. s \in ShortNames /\ 1 \in 0 .. MaxSectors * PerSector + 1
    BY <1>1, <1>3, ShortNameIs, TableBound, DirAssumption
  <2>3. job' = j /\ pc' = "dir_alloc" /\ hist' = hist
    BY <2>1 DEF GoOn
  <2> HIDE DEF s
  <2>4. /\ j.sfn = s /\ j.op = job.op /\ j.new = job.new /\ j.obj = job.obj
        /\ j.old = job.old /\ j.blk = job.blk
    BY <1>1, <2>2, JobSfn
  <2> HIDE DEF j
  <2>5. ASSUME ~hist.torn, Flat' = Flat
        PROVE  JobNames'
    <3>1. Packed(Flat.ent, Flat.len)
      BY <2>5 DEF NamesInv, Ends
    <3>2. Chosen(Flat.ent, j)
      <4>1. IF job.new \in Lossy
              THEN \A i \in Slots : Flat.ent[i].kind = "sfn" => Flat.ent[i].sfn # ShortName(job.new)
              ELSE ShortName(job.new) = Shorts[job.new][1]
        BY <1>1, <1>3, <2>5, <3>1, SearchShort
      <4>2. QED
        BY <2>4, <4>1 DEF Chosen, s
    <3>3. Vacant(Flat.ent, j, hist.littered)
      BY <2>4, <2>5 DEF Vacant
    <3>4. j.op = "rename" => NoneLeft(Flat.ent, j, j.blk)
      BY <2>4, <2>5 DEF NoneLeft
    <3>5. QED
      BY <2>3, <2>5, <3>2, <3>3, <3>4 DEF JobNames, Naming, Registering
  <2>6. Weaker(hist, hist') /\ hist'.torn = hist.torn
    BY <2>3 DEF Weaker
  <2>7. Counted
    BY DEF Counted
  <2>8. QED
    BY <2>3, <2>5, <2>6, <2>7, NamesGo
<1>4. QED
  BY <1>2, <1>3

\* dir_remove leaves no LFN entry of the object dir_find finds.
LEMMA NoneLeftFound ==
  ASSUME IInv, ~hist.torn, pc \notin {"dir_clear", "dir_clear_write"},
         Packed(Flat.ent, Flat.len), NEW n \in Names,
         dir_find(Table, TableLen, Target(n)).slot # 0, NEW j,
         j.old = dir_find(Table, TableLen, Target(n)).slot
  PROVE  NoneLeft(Flat.ent, j, RemovesFrom(dir_find(Table, TableLen, Target(n))))
<1> DEFINE r == dir_find(Table, TableLen, Target(n))
<1>1. r.blk = 0 => ~Begun(Flat.ent, r.slot - 1)
  BY SearchName
<1>2. r.slot \in Slots /\ FoundAt(Table, r.slot, r.blk)
  <2>1. Table \in [Slots -> Entry] /\ TableLen \in 0 .. MaxSectors * PerSector
    BY TableFacts DEF IInv
  <2>2. QED
    BY <2>1, FindFacts
<1> HIDE DEF r
<1>3. RemovesFrom(r) = r.slot => r.blk = 0
  BY <1>2 DEF RemovesFrom, FoundAt, Slots
<1>4. QED
  BY <1>1, <1>3 DEF NoneLeft, r

\* dir_find on the path of the request.
LEMMA NamesFind ==
  ASSUME IInv, NamesInv, find
  PROVE  NamesInv'
<1> DEFINE r == dir_find(Table, TableLen, Target(job.name))
           obj == Table[r.slot].obj
           blk == RemovesFrom(r)
           j == WithFound(job, obj, r.slot, blk)
<1>1. Window(dev, win) /\ HistT(hist) /\ pc = "find" /\ Quiet
  BY DEF IInv, find
<1>2. /\ job \in JobT /\ job.name \in Names /\ job.new \in Names /\ job.op \in Ops \ {"none"}
  BY <1>1 DEF IInv, JobOK, JobT
<1>3. /\ EndOf(r) \in 0 .. MaxSectors /\ EndOf(r) <= Flat.len
      /\ r.slot # 0 => r.slot \in Slots /\ blk \in 1 .. r.slot /\ obj \in Objects
                       /\ \A k \in Slots : blk <= k /\ k < r.slot => Flat.ent[k].kind = "lfn"
  BY <1>1, SearchFacts
<1>4. PICK o \in Move(1, EndOf(r)) :
        /\ Take(o) /\ win' = o.win
        /\ IF ~o.ok THEN Fails
           ELSE IF job.op = "create"
             THEN IF r.slot = 0 THEN Register ELSE Says("FR_OK")
           ELSE IF r.slot = 0 THEN Says("FR_NO_FILE")
           ELSE CASE job.op = "getattr" -> Says("FR_OK")
                  [] job.op = "rename" -> GoOn(j, "find_new")
                  [] job.op = "unlink" ->
                       /\ job' = [j EXCEPT !.at = j.blk] /\ pc' = "dir_remove"
                       /\ hist' = [hist EXCEPT !.made = Forgotten(@, obj),
                                               !.alive = @ \ {obj}]
                       /\ UNCHANGED reply
  BY DEF find, WithFound
<1>5. ~hist.torn => Packed(Flat.ent, Flat.len)
  BY <1>1 DEF NamesInv, Ends
<1>6. /\ ~hist.torn /\ r.slot # 0 => \A u : u.old = r.slot => NoneLeft(Flat.ent, u, blk)
      /\ ~hist.torn /\ r.slot = 0 => \A i \in Slots : ~Hit(Flat.ent, i, job.name)
  <2>1. ASSUME ~hist.torn, r.slot # 0, NEW u, u.old = r.slot
        PROVE  NoneLeft(Flat.ent, u, blk)
    BY <1>1, <1>2, <1>5, <2>1, NoneLeftFound
  <2>2. ASSUME ~hist.torn, r.slot = 0
        PROVE  \A i \in Slots : ~Hit(Flat.ent, i, job.name)
    BY <1>1, <1>2, <1>5, <2>2, SearchName
  <2>3. QED
    BY <2>1, <2>2
<1> HIDE DEF r, blk, obj
<1>7. Sound(dev, win, o) /\ Counted
  BY <1>1, <1>3, MoveOK DEF Counted
<1>8. r.slot # 0 => /\ j \in JobT /\ j.obj = obj /\ j.old = r.slot /\ j.blk = blk
                    /\ j.op = job.op /\ j.name = job.name /\ j.new = job.new
  <2>1. r.slot # 0 => blk \in Slots
    BY <1>3, DirAssumption DEF Slots
  <2>2. QED
    BY <1>2, <1>3, <2>1, JobFound
<1>9. CASE ~o.ok
  BY <1>1, <1>4, <1>7, <1>9, NamesFail
<1>10. CASE o.ok /\ job.op = "create" /\ r.slot = 0
  <2>1. ~hist.torn => job.new = job.name
    BY <1>1, <1>10 DEF NamesInv, JobNames
  <2>2. ~hist.torn => Vacant(Flat.ent, job, hist.littered)
    BY <1>6, <1>10, <2>1 DEF Vacant
  <2>3. QED
    BY <1>1, <1>4, <1>7, <1>10, <2>2, NamesRegister
<1>11. CASE \/ o.ok /\ job.op = "create" /\ r.slot # 0
            \/ o.ok /\ job.op # "create" /\ r.slot = 0
            \/ o.ok /\ job.op = "getattr" /\ r.slot # 0
  BY <1>1, <1>4, <1>7, <1>11, NamesSay
<1>12. CASE o.ok /\ job.op = "rename" /\ r.slot # 0
  <2>1. job' = j /\ pc' = "find_new" /\ hist' = hist
    BY <1>4, <1>12 DEF GoOn
  <2> HIDE DEF j
  <2>2. ~hist.torn /\ Flat' = Flat => JobNames'
    BY <1>6, <1>8, <1>12, <2>1 DEF JobNames, Naming, Registering
  <2>3. Weaker(hist, hist') /\ hist'.torn = hist.torn
    BY <2>1 DEF Weaker
  <2>4. QED
    BY <1>1, <1>4, <1>7, <2>1, <2>2, <2>3, NamesGo
<1>13. CASE o.ok /\ job.op = "unlink" /\ r.slot # 0
  <2> DEFINE u == [j EXCEPT !.at = blk]
  <2>1. /\ job' = [j EXCEPT !.at = j.blk] /\ pc' = "dir_remove"
        /\ hist' = [hist EXCEPT !.made = Forgotten(@, obj), !.alive = @ \ {obj}]
    BY <1>4, <1>13
  <2> HIDE DEF j
  <2>2. job' = u
    BY <1>8, <1>13, <2>1
  <2>3. /\ u.at = blk /\ u.op = "unlink" /\ u.obj = obj /\ u.old = r.slot
    <3>1. blk \in 0 .. MaxSectors * PerSector + 1
      BY <1>3, <1>13, DirAssumption DEF Slots
    <3>2. QED
      BY <1>8, <1>13, <3>1, JobAt
  <2> HIDE DEF u
  <2>4. /\ hist'.made = Forgotten(hist.made, obj)
        /\ hist'.littered = hist.littered /\ hist'.torn = hist.torn
    BY <1>1, <2>1 DEF HistT
  <2>5. Weaker(hist, hist')
    BY <2>4 DEF Weaker, Forgotten
  <2>6. ASSUME ~hist.torn, Flat' = Flat
        PROVE  JobNames'
    <3>1. NoneLeft(Flat.ent, u, blk)
      BY <1>6, <1>13, <2>3, <2>6
    <3>2. obj \notin DOMAIN hist'.made
      BY <2>4 DEF Forgotten
    <3>3. QED
      BY <1>3, <1>13, <2>1, <2>2, <2>3, <2>6, <3>1, <3>2 DEF JobNames, Naming, Registering
  <2>7. QED
    BY <1>1, <1>4, <1>7, <2>1, <2>4, <2>5, <2>6, NamesGo
<1>14. QED
  BY <1>2, <1>9, <1>10, <1>11, <1>12, <1>13 DEF Ops

\* f_rename looks for the new name.
LEMMA NamesFindNew ==
  ASSUME IInv, NamesInv, find_new
  PROVE  NamesInv'
<1> DEFINE r == dir_find(Table, TableLen, Target(job.new))
<1>1. Window(dev, win) /\ pc = "find_new" /\ Quiet
  BY DEF IInv, find_new
<1>2. job.op = "rename" /\ Found(Flat, job) /\ job.new \in Names
  BY <1>1 DEF IInv, JobOK, Registering
<1>3. EndOf(r) \in 0 .. MaxSectors /\ EndOf(r) <= Flat.len
  BY <1>1, SearchFacts
<1>4. PICK o \in Move(1, EndOf(r)) :
        /\ Take(o) /\ win' = o.win
        /\ IF ~o.ok THEN Fails
           ELSE IF r.slot \notin {0, job.old} THEN Says("FR_EXIST")
           ELSE Register
  BY DEF find_new
<1>5. ASSUME ~hist.torn
      PROVE  /\ r.slot # 0 => r.slot \in Slots /\ Hit(Flat.ent, r.slot, job.new)
             /\ r.slot = 0 => \A i \in Slots : ~Hit(Flat.ent, i, job.new)
  <2>1. Packed(Flat.ent, Flat.len)
    BY <1>1, <1>5 DEF NamesInv, Ends
  <2>2. QED
    BY <1>1, <1>2, <1>5, <2>1, SearchName
<1> HIDE DEF r
<1>6. Sound(dev, win, o)
  BY <1>1, <1>3, MoveOK
<1>7. CASE ~o.ok
  BY <1>1, <1>4, <1>6, <1>7, NamesFail
<1>8. CASE o.ok /\ r.slot \notin {0, job.old}
  BY <1>1, <1>4, <1>6, <1>8, NamesSay
<1>9. CASE o.ok /\ r.slot \in {0, job.old}
  <2>1. ASSUME ~hist.torn
        PROVE  Vacant(Flat.ent, job, hist.littered) /\ NoneLeft(Flat.ent, job, job.blk)
    <3>1. Keeps(Flat.ent, hist) /\ NoneLeft(Flat.ent, job, job.blk)
      BY <1>1, <1>2, <2>1 DEF NamesInv, JobNames
    <3>2. SUFFICES ASSUME ~LikeOne(job.new, hist.littered), NEW i \in Slots, Hit(Flat.ent, i, job.new)
                   PROVE  Flat.ent[i].obj = job.obj
      BY <3>1 DEF Vacant
    <3>3. r.slot = job.old /\ job.old \in Slots /\ Hit(Flat.ent, job.old, job.new)
      BY <1>5, <1>9, <2>1, <3>2
    <3>4. Flat.ent[job.old].obj = job.obj
      BY <1>2 DEF Found, Holds
    <3>5. QED
      BY <1>2, <3>1, <3>2, <3>3, <3>4 DEF Keeps, Uniform
  <2>2. QED
    BY <1>1, <1>2, <1>4, <1>6, <1>9, <2>1, NamesRegister
<1>10. QED
  BY <1>7, <1>8, <1>9

\* f_readdir changes nothing but the window.
LEMMA NamesReaddir ==
  ASSUME IInv, NamesInv, fff_readdir
  PROVE  NamesInv'
<1> DEFINE r == dir_find(Table, TableLen, ShortTarget(<<>>))
<1>1. /\ Window(dev, win) /\ pc = "idle" /\ Counted /\ hist' = hist
      /\ pc' = "idle" /\ job' = NoJob
  BY DEF IInv, fff_readdir, Counted
<1>2. EndOf(r) \in 0 .. MaxSectors /\ EndOf(r) <= Flat.len
  BY <1>1, SearchFacts
<1>3. PICK o \in Move(1, EndOf(r)) : Take(o) /\ win' = o.win
  BY DEF fff_readdir
<1> HIDE DEF r
<1>4. Sound(dev, win, o)
  BY <1>1, <1>2, MoveOK
<1>5. Weaker(hist, hist') /\ hist'.torn = hist.torn
  BY <1>1 DEF Weaker
<1>6. QED
  BY <1>1, <1>3, <1>4, <1>5, IdleNames, NamesGo

\* In a packed table no free entry of the first run of need free entries, but the
\* first one, is behind the end.
LEMMA FirstRun ==
  ASSUME IInv, ~hist.torn, pc \notin {"dir_clear", "dir_clear_write"},
         Packed(Flat.ent, Flat.len), NEW need \in Nat \ {0},
         FreeRuns(Table, TableLen, need) # {}
  PROVE  \A i \in Slots :
           i < Least(FreeRuns(Table, TableLen, need)) - need + 1 => Flat.ent[i].kind # "end"
<1> DEFINE runs == FreeRuns(Table, TableLen, need)
           last == Least(runs)
<1>1. TableLen \in 0 .. MaxSectors * PerSector /\ MaxSectors * PerSector \in Nat
  BY TableFacts, DirAssumption DEF IInv
<1>2. \A i \in 1 .. TableLen : i \in Slots /\ SectorOf(i) <= Flat.len /\ Table[i] = Flat.ent[i]
  BY TableIs
<1>3. runs = {i \in need .. TableLen : \A j \in i - need + 1 .. i : IsFree(Table[j])}
  BY DEF FreeRuns
<1>4. runs \in SUBSET Nat
  BY <1>1, <1>3
<1>5. last \in runs /\ \A k \in runs : last <= k
  <2>1. runs # {}
    OBVIOUS
  <2> HIDE DEF runs
  <2>2. QED
    BY <1>4, <2>1, LeastIs
<1>6. last \in need .. TableLen
  BY <1>3, <1>5
<1> HIDE DEF last
<1>7. SUFFICES ASSUME NEW i \in Slots, i < last - need + 1, Flat.ent[i].kind = "end"
               PROVE  FALSE
  BY DEF last, runs
<1>8. i \in Nat \ {0} /\ last \in Nat /\ i + need - 1 \in need .. TableLen /\ i + need - 1 < last
  BY <1>1, <1>6, <1>7 DEF Slots
<1>9. ASSUME NEW j \in (i + need - 1) - need + 1 .. i + need - 1
      PROVE  IsFree(Table[j])
  <2>1. j \in 1 .. TableLen /\ i <= j
    BY <1>1, <1>8
  <2>2. Flat.ent[j].kind = "end"
    <3>1. i < j => Flat.ent[j].kind = "end"
      BY <1>2, <1>7, <2>1 DEF Packed
    <3>2. i = j \/ i < j
      BY <1>8, <2>1
    <3>3. QED
      BY <1>7, <3>1, <3>2
  <2>3. QED
    BY <1>2, <2>1, <2>2 DEF IsFree
<1>10. i + need - 1 \in runs
  BY <1>3, <1>8, <1>9
<1>11. QED
  BY <1>5, <1>8, <1>10

\* dir_alloc has found room for the name, or the table has to grow.
LEMMA NamesAlloc ==
  ASSUME IInv, NamesInv, dir_alloc
  PROVE  NamesInv'
<1> DEFINE need == LfnCount(job.new) + 1
           runs == FreeRuns(Table, TableLen, need)
           last == IF runs = {} THEN TableLen ELSE Least(runs)
<1>1. Window(dev, win) /\ HistT(hist) /\ pc = "dir_alloc" /\ Quiet
  BY DEF IInv, dir_alloc
<1>2. job \in JobT /\ job.new \in Names
  BY <1>1 DEF IInv, JobOK
<1>3. need \in Nat \ {0} /\ LfnCount(job.new) = need - 1
  BY <1>2, LfnCountIs
<1>4. PICK o \in Move(job.at, SectorOf(last)) :
        /\ Take(o) /\ win' = o.win
        /\ IF ~o.ok THEN Fails
           ELSE IF runs = {} THEN GoOn(job, "dir_next")
           ELSE /\ job' = WithLeft(job, last - need + 1, need - 1)
                /\ pc' = IF need > 1 THEN "put_lfn" ELSE "put_sfn"
                /\ hist' = [hist EXCEPT !.made = Forgotten(@, job.obj)]
                /\ UNCHANGED reply
  BY DEF dir_alloc, WithLeft
<1> HIDE DEF need
<1>5. /\ TableLen \in 1 .. MaxSectors * PerSector /\ MaxSectors * PerSector \in Nat
      /\ \A i \in Slots : i <= TableLen => SectorOf(i) <= Flat.len
  <2>1. Flat.len \in 1 .. MaxSectors /\ Linked = Flat.len /\ TableLen \in 0 .. MaxSectors * PerSector
    BY <1>1, TableFacts DEF DevT
  <2>2. Flat.len * PerSector >= 1
    <3>1. \A a, b \in Nat \ {0} : a * b >= 1
      OBVIOUS
    <3>2. QED
      BY <2>1, <3>1, DirAssumption
  <2>3. QED
    BY <1>1, <2>1, <2>2, TableFacts, DirAssumption DEF TableLen
<1>6. ASSUME runs # {}
      PROVE  last \in need .. TableLen
  <2>1. TableLen \in 0 .. MaxSectors * PerSector
    BY <1>5
  <2>2. Least(runs) \in need .. TableLen
    BY <1>3, <1>6, <2>1, FreeRunIs
  <2>3. last = Least(runs)
    BY <1>6
  <2> HIDE DEF last
  <2>4. QED
    BY <2>2, <2>3
<1>7. ~hist.torn /\ runs # {} => \A i \in Slots : i < last - need + 1 => Flat.ent[i].kind # "end"
  <2>1. ~hist.torn => Packed(Flat.ent, Flat.len)
    BY <1>1 DEF NamesInv, Ends
  <2>2. QED
    BY <1>1, <1>3, <2>1, FirstRun
<1> HIDE DEF runs
<1>8. last \in Slots /\ last <= TableLen
  <2>1. CASE runs = {}
    BY <1>5, <2>1 DEF Slots
  <2>2. CASE runs # {}
    <3> HIDE DEF last
    <3>1. QED
      BY <1>3, <1>5, <1>6, <2>2 DEF Slots
  <2>3. QED
    BY <2>1, <2>2
<1> HIDE DEF last
<1>9. Sound(dev, win, o) /\ Counted
  <2>1. SectorOf(last) \in 0 .. MaxSectors /\ SectorOf(last) <= Flat.len
    BY <1>5, <1>8, SlotFacts
  <2>2. QED
    BY <1>1, <2>1, MoveOK DEF Counted
<1>10. CASE ~o.ok
  BY <1>1, <1>4, <1>9, <1>10, NamesFail
<1>11. CASE o.ok /\ runs = {}
  <2>1. job' = job /\ pc' = "dir_next" /\ hist' = hist
    BY <1>4, <1>11 DEF GoOn
  <2>2. ~hist.torn /\ Flat' = Flat => JobNames'
    BY <1>1, <2>1 DEF NamesInv, JobNames, Naming, Registering
  <2>3. Weaker(hist, hist') /\ hist'.torn = hist.torn
    BY <2>1 DEF Weaker
  <2>4. QED
    BY <1>1, <1>4, <1>9, <2>1, <2>2, <2>3, NamesGo
<1>12. CASE o.ok /\ runs # {}
  <2> DEFINE at == last - need + 1
             j == WithLeft(job, at, need - 1)
  <2>1. /\ job' = j /\ pc' \in {"put_lfn", "put_sfn"}
        /\ hist' = [hist EXCEPT !.made = Forgotten(@, job.obj)]
    BY <1>4, <1>12
  <2>2. /\ j.at = at /\ j.left = need - 1 /\ j.op = job.op /\ j.new = job.new /\ j.obj = job.obj
        /\ j.sfn = job.sfn /\ j.old = job.old /\ j.blk = job.blk
    <3>1. at \in 0 .. MaxSectors * PerSector + 1 /\ need - 1 \in Nat
      BY <1>3, <1>5, <1>6, <1>12
    <3> HIDE DEF at
    <3>2. QED
      BY <1>2, <3>1, JobLeft
  <2> HIDE DEF j
  <2>3. /\ hist'.made = Forgotten(hist.made, job.obj)
        /\ hist'.littered = hist.littered /\ hist'.torn = hist.torn
    BY <1>1, <2>1 DEF HistT
  <2>4. Weaker(hist, hist')
    BY <2>3 DEF Weaker, Forgotten
  <2>5. ASSUME ~hist.torn, Flat' = Flat
        PROVE  JobNames'
    <3>1. /\ Vacant(Flat.ent, job, hist.littered) /\ Chosen(Flat.ent, job)
          /\ job.op = "rename" => NoneLeft(Flat.ent, job, job.blk)
      BY <1>1, <2>5 DEF NamesInv, JobNames, Naming, Registering
    <3>2. /\ Vacant(Flat.ent, j, hist.littered) /\ Chosen(Flat.ent, j)
          /\ j.op = "rename" => NoneLeft(Flat.ent, j, j.blk)
      BY <2>2, <3>1 DEF Vacant, Chosen, NoneLeft
    <3>3. Written(Flat.ent, j)
      <4>1. j.left + 1 .. LfnCount(j.new) = {}
        BY <1>3, <2>2
      <4>2. QED
        BY <1>7, <1>12, <2>2, <2>5, <4>1 DEF Written
    <3>4. j.obj \notin DOMAIN hist'.made
      BY <2>2, <2>3 DEF Forgotten
    <3>5. QED
      BY <2>1, <2>3, <2>5, <3>2, <3>3, <3>4 DEF JobNames, Naming, Registering
  <2>6. QED
    BY <1>1, <1>4, <1>9, <2>1, <2>3, <2>4, <2>5, NamesGo
<1>13. QED
  BY <1>10, <1>11, <1>12

-----------------------------------------------------------------------------
(* The names, while the table grows.                                       *)

\* An entry before another one is in no later sector.
LEMMA SectorOrder ==
  ASSUME NEW i \in Slots, NEW j \in Slots, i <= j
  PROVE  SectorOf(i) <= SectorOf(j)
<1> DEFINE s == SectorOf(j)
<1>1. /\ s \in 1 .. MaxSectors /\ s \in Nat /\ s >= 1 /\ Within(j) \in 1 .. PerSector
      /\ j = (s - 1) * PerSector + Within(j) /\ PerSector \in Nat /\ i \in Nat /\ j \in Nat
  BY SlotFacts, DirAssumption DEF Slots
<1> HIDE DEF s
<1>2. (s - 1) * PerSector + PerSector = s * PerSector /\ (s - 1) * PerSector \in Nat
  BY <1>1
<1>3. i <= s * PerSector
  BY <1>1, <1>2
<1>4. SectorOf(i) <= s
  BY <1>1, <1>3, SectorBound
<1>5. QED
  BY <1>4 DEF s

\* What dir_register knows of the names stays while the SFN entries and what is tied
\* to them do.
LEMMA RegisteringKept ==
  ASSUME NEW t, NEW u, \A i \in Slots : t[i].kind = "sfn" \/ u[i].kind = "sfn" => Alike(t, u, i),
         NEW v, NEW j, j.new = v.new, j.obj = v.obj, j.sfn = v.sfn, j.new \in Names,
         NEW S, Vacant(t, v, S), Chosen(t, v)
  PROVE  Vacant(u, j, S) /\ Chosen(u, j)
<1>1. ASSUME NEW i \in Slots, Hit(u, i, j.new)
      PROVE  Hit(t, i, j.new) /\ t[i] = u[i]
  BY <1>1 DEF Hit, Alike
<1>2. Vacant(u, j, S)
  BY <1>1 DEF Vacant
<1>3. Chosen(u, j)
  BY DEF Chosen, Alike
<1>4. QED
  BY <1>2, <1>3

\* A cluster is linked, in the window or on the device: no entry has changed.
LEMMA NamesLinked ==
  ASSUME IInv, NamesInv, \A i \in Slots : Flat'.ent[i] = Flat.ent[i] /\ dev'.ent[i] = Flat.ent[i],
         Flat.ent \in [Slots -> Entry], Flat'.ent \in [Slots -> Entry], dev'.ent \in [Slots -> Entry],
         hist' = hist, job' = job,
         pc \in {"dir_next", "dir_clear"}, pc' \in {"dir_clear", "dir_clear_write"},
         ~hist.torn => Packed(Flat.ent, win'.len - 1)
  PROVE  NamesInv'
<1>1. Flat'.ent = Flat.ent /\ dev'.ent = Flat.ent
  OBVIOUS
<1>2. MadeT(hist'.made)
  BY DEF NamesInv
<1>3. ASSUME ~hist.torn
      PROVE  Ends' /\ Keeps(Flat.ent, hist)' /\ Keeps(dev.ent, hist)' /\ Orphans' /\ JobNames'
  <2>1. Keeps(Flat.ent, hist) /\ Orphans /\ JobNames
    BY <1>3 DEF NamesInv
  <2>2. Ends'
    BY <1>1, <1>3 DEF Ends
  <2>3. Keeps(Flat'.ent, hist') /\ Keeps(dev'.ent, hist')
    BY <1>1, <2>1
  <2>4. Orphans'
    <3>1. ASSUME NEW n \in Names, NEW j \in Slots, Orphan(Flat.ent, j, n)
          PROVE  LikeOne(n, hist.littered)
      BY <2>1, <3>1 DEF Orphans, Awaited
    <3>2. \A n : LikeOne(n, hist.littered) => LikeOne(n, hist.littered \cup Cut')
      BY DEF LikeOne
    <3>3. QED
      BY <1>1, <3>1, <3>2 DEF Orphans, OrphansIn
  <2>5. JobNames'
    BY <1>1, <2>1 DEF JobNames, Naming, Registering
  <2>6. QED
    BY <2>2, <2>3, <2>4, <2>5
<1>4. QED
  BY <1>2, <1>3 DEF NamesInv

\* dir_next links a cluster in the window: no entry changes.
LEMMA LinkedSame ==
  ASSUME IInv, IInv', dir_next, pc' = "dir_clear"
  PROVE  /\ \A i \in Slots : Flat'.ent[i] = Flat.ent[i] /\ dev'.ent[i] = Flat.ent[i]
         /\ Flat.ent \in [Slots -> Entry] /\ Flat'.ent \in [Slots -> Entry] /\ dev'.ent \in [Slots -> Entry]
<1>1. Window(dev, win)
  BY DEF IInv
<1>2. PICK o \in Move(FatSector, FatSector) :
        Take(o) /\ IF ~o.ok THEN Fails ELSE Full => Says("FR_DENIED")
  BY DEF dir_next
<1>3. /\ Flat \in DevT /\ FatSector \in 0 .. MaxSectors /\ FatSector <= Flat.len
  BY <1>1, TableFacts, DirAssumption DEF DevT, FatSector
<1>4. Sound(dev, win, o) /\ (o.ok => o.win.sect = FatSector)
  BY <1>1, <1>3, MoveOK
<1>5. o.ok /\ dev' = o.dev /\ o.dev \in {dev, Flat}
  BY <1>2, <1>4 DEF Fails, Answer, Take, Sound, Flat
<1>6. /\ Window(dev', win') /\ win'.sect = FatSector
      /\ Flat' \in DevT /\ dev' \in DevT
  <2>1. Window(dev', win') /\ win'.sect = FatSector
    BY DEF IInv, JobOK
  <2>2. QED
    BY <2>1, FlushedFacts DEF Flat, Window
<1>7. \A i \in Slots : Flat'.ent[i] = Flat.ent[i] /\ dev'.ent[i] = Flat.ent[i]
  <2>1. \A i \in Slots : SectorOf(i) # FatSector
    BY SlotFacts DEF FatSector
  <2>2. \A i \in Slots : Flat'.ent[i] = dev'.ent[i]
    BY <1>6, <2>1, FlushedFacts DEF Flat
  <2>3. CASE o.dev = Flat
    BY <1>5, <2>2, <2>3
  <2>4. CASE o.dev # Flat
    <3>1. Flushed(dev, o.win) = Flat /\ Window(dev, o.win) /\ o.win.sect = FatSector
      BY <1>4, <1>5, <2>4 DEF Sound, Flat
    <3>2. \A i \in Slots : Flat.ent[i] = dev.ent[i]
      BY <2>1, <3>1, FlushedFacts
    <3>3. QED
      BY <1>5, <2>2, <2>4, <3>2
  <2>5. QED
    BY <2>3, <2>4
<1>8. QED
  BY <1>3, <1>6, <1>7 DEF DevT

\* dir_next links a cluster in the window.
LEMMA NamesNext ==
  ASSUME IInv, IInv', NamesInv, dir_next
  PROVE  NamesInv'
<1>1. Window(dev, win) /\ pc = "dir_next" /\ Quiet
  BY DEF IInv, dir_next
<1>2. PICK o \in Move(FatSector, FatSector) :
        /\ Take(o)
        /\ IF ~o.ok THEN Fails /\ win' = o.win
           ELSE IF Full THEN Says("FR_DENIED") /\ win' = o.win
           ELSE /\ win' = [o.win EXCEPT !.len = @ + 1, !.dirty = TRUE]
                /\ GoOn(job, "dir_clear")
  BY DEF dir_next
<1>3. /\ Flat \in DevT /\ Flat.len \in 1 .. MaxSectors /\ MaxSectors \in Nat
      /\ FatSector \in 0 .. MaxSectors /\ FatSector <= Flat.len
  BY <1>1, TableFacts, DirAssumption DEF DevT, FatSector
<1>4. Sound(dev, win, o) /\ (o.ok => o.win.sect = FatSector /\ o.win.len = Flat.len)
  BY <1>1, <1>3, MoveOK
<1>5. CASE ~o.ok
  BY <1>1, <1>2, <1>4, <1>5, NamesFail
<1>6. CASE o.ok /\ Full
  BY <1>1, <1>2, <1>4, <1>6, NamesSay
<1>7. CASE o.ok /\ ~Full
  <2>1. /\ win' = [o.win EXCEPT !.len = @ + 1, !.dirty = TRUE]
        /\ job' = job /\ pc' = "dir_clear" /\ hist' = hist /\ dev' = o.dev
    BY <1>2, <1>7 DEF GoOn, Take
  <2>2. o.dev \in {dev, Flat} /\ o.win \in WinT /\ o.win.len = Flat.len
    BY <1>4, <1>7 DEF Sound, Flat, Window
  <2>3. win'.len = Flat.len + 1
    <3> DEFINE u1 == [o.win EXCEPT !.len = @ + 1]
               u2 == [u1 EXCEPT !.dirty = TRUE]
    <3>1. win' = u2
      BY <2>1
    <3>2. u1.len = Flat.len + 1 /\ u1 = [u1 EXCEPT !.sect = u1.sect]
      BY <2>2 DEF WinT
    <3>3. u2.len = u1.len
      BY <2>2 DEF WinT
    <3> HIDE DEF u1, u2
    <3>4. QED
      BY <3>1, <3>2, <3>3
  <2>4. /\ \A i \in Slots : Flat'.ent[i] = Flat.ent[i] /\ dev'.ent[i] = Flat.ent[i]
        /\ Flat.ent \in [Slots -> Entry] /\ Flat'.ent \in [Slots -> Entry] /\ dev'.ent \in [Slots -> Entry]
    BY <2>1, LinkedSame
  <2>5. ~hist.torn => Packed(Flat.ent, win'.len - 1)
    <3>1. win'.len - 1 = Flat.len
      BY <1>3, <2>3
    <3>2. QED
      BY <1>1, <3>1 DEF NamesInv, Ends
  <2>6. QED
    BY <1>1, <2>1, <2>4, <2>5, NamesLinked
<1>8. QED
  BY <1>5, <1>6, <1>7

\* dir_clear writes the link.
LEMMA NamesClear ==
  ASSUME IInv, NamesInv, dir_clear
  PROVE  NamesInv'
<1>1. Window(dev, win) /\ pc = "dir_clear" /\ Quiet /\ win.sect = FatSector
  BY DEF IInv, dir_clear, JobOK
<1>2. PICK o \in {Synced} \cup FlushFails :
        Take(o) /\ win' = o.win /\ IF o.ok THEN GoOn(job, "dir_clear_write") ELSE Fails
  BY DEF dir_clear, Synced
<1>3. /\ Sound(dev, win, o)
      /\ o.win.len = win.len
      /\ o.ok => o.dev = Flat
  BY <1>1, SyncMoves
<1>4. CASE ~o.ok
  BY <1>1, <1>2, <1>3, <1>4, NamesFail
<1>5. CASE o.ok
  <2>1. /\ job' = job /\ pc' = "dir_clear_write" /\ hist' = hist /\ dev' = Flat /\ win'.len = win.len
    BY <1>2, <1>3, <1>5 DEF GoOn, Take
  <2>2. Flat' = Flat
    BY <1>1, <1>2, <1>3, MovedOK DEF Counted
  <2>3. Flat \in DevT /\ dev \in DevT
    BY <1>1, TableFacts
  <2>4. \A i \in Slots : Flat.ent[i] = dev.ent[i]
    <3>1. \A i \in Slots : SectorOf(i) # FatSector
      BY SlotFacts DEF FatSector
    <3>2. QED
      BY <1>1, <3>1, FlushedFacts DEF Flat
  <2>5. Flat.ent \in [Slots -> Entry] /\ Flat.ent = dev.ent
    BY <2>3, <2>4 DEF DevT
  <2>6. ~hist.torn => Packed(Flat.ent, win'.len - 1)
    BY <1>1, <2>1, <2>5 DEF NamesInv, Ends
  <2>7. QED
    BY <1>1, <2>1, <2>2, <2>5, <2>6, NamesLinked
<1>6. QED
  BY <1>4, <1>5

\* The new cluster is cleared, in the window and on the device.
LEMMA ClearedFacts ==
  ASSUME IInv, dir_clear_write
  PROVE  /\ Flat = dev /\ dev \in DevT /\ win.len = dev.len
         /\ \A i \in Slots : SectorOf(i) = dev.len => dev.ent[i] = Junk
         /\ Cleared.len = dev.len
         /\ \A i \in Slots : Cleared.ent[i] = IF SectorOf(i) = dev.len THEN End ELSE dev.ent[i]
         /\ Flat' = dev'
<1>1. /\ Window(dev, win) /\ win.sect = FatSector /\ ~win.dirty
      /\ \A i \in Slots : SectorOf(i) = win.len => dev.ent[i] = Junk
  BY DEF IInv, dir_clear_write, JobOK
<1>2. dev \in DevT /\ Flat = dev /\ win.len = dev.len /\ Linked = dev.len
  BY <1>1, FlushedFacts DEF Window, Linked, Flat
<1>3. /\ Cleared.len = dev.len
      /\ \A i \in Slots : Cleared.ent[i] = IF SectorOf(i) = dev.len THEN End ELSE dev.ent[i]
  <2> DEFINE g == [i \in Slots |-> IF SectorOf(i) = Linked THEN End ELSE dev.ent[i]]
  <2>1. Cleared = [dev EXCEPT !.ent = g]
    BY DEF Cleared
  <2>2. \A i \in Slots : g[i] = IF SectorOf(i) = dev.len THEN End ELSE dev.ent[i]
    BY <1>2
  <2> HIDE DEF g
  <2>3. Cleared.len = dev.len /\ Cleared.ent = g
    BY <1>2, <2>1 DEF DevT
  <2>4. QED
    BY <2>2, <2>3
<1>4. Flat' = dev'
  <2>1. win' = [NoWindow EXCEPT !.sect = Linked]
    BY DEF dir_clear_write
  <2>2. NoWindow \in WinT /\ NoWindow.dirty = FALSE
    BY EntryFacts, DirAssumption DEF NoWindow, WinT, NoSector
  <2>3. win'.dirty = FALSE
    BY <2>1, <2>2 DEF WinT
  <2>4. QED
    BY <2>3 DEF Flat, Flushed
<1>5. QED
  BY <1>1, <1>2, <1>3, <1>4

\* dir_clear clears the new cluster, which has no entry of a name.
LEMMA NamesClearWrite ==
  ASSUME IInv, NamesInv, dir_clear_write
  PROVE  NamesInv'
<1>1. /\ Flat = dev /\ dev \in DevT /\ win.len = dev.len
      /\ \A i \in Slots : SectorOf(i) = dev.len => dev.ent[i] = Junk
      /\ Cleared.len = dev.len
      /\ \A i \in Slots : Cleared.ent[i] = IF SectorOf(i) = dev.len THEN End ELSE dev.ent[i]
      /\ Flat' = dev'
  BY ClearedFacts
<1>2. HistT(hist) /\ pc = "dir_clear_write" /\ job \in JobT /\ job.new \in Names /\ Window(dev, win)
  BY DEF IInv, dir_clear_write, JobOK
<1>3. CASE Fails
  <2>1. hist' = [hist EXCEPT !.littered = @ \cup Cut,
                             !.torn = @ \/ pc \in {"dir_clear", "dir_clear_write"}]
    BY <1>3 DEF Fails
  <2>2. hist'.torn /\ hist'.made = hist.made
    BY <1>2, <2>1 DEF HistT
  <2>3. QED
    BY <2>2 DEF NamesInv
<1>4. CASE dev' = Cleared /\ GoOn([job EXCEPT !.at = Linked], "dir_alloc")
  <2> DEFINE j == [job EXCEPT !.at = Linked]
             t == dev.ent
             u == dev'.ent
  <2>1. job' = j /\ pc' = "dir_alloc" /\ hist' = hist
    BY <1>4 DEF GoOn
  <2>2. /\ j.new = job.new /\ j.obj = job.obj /\ j.sfn = job.sfn /\ j.old = job.old
        /\ j.blk = job.blk /\ j.op = job.op
    BY <1>2 DEF JobT
  <2> HIDE DEF j
  <2>3. \A x \in Slots : u[x] = IF SectorOf(x) = dev.len THEN End ELSE t[x]
    BY <1>1, <1>4
  <2>4. \A x \in Slots : t[x].kind \in {"sfn", "lfn"} \/ u[x].kind \in {"sfn", "lfn"} => t[x] = u[x]
    BY <1>1, <2>3, EntryFacts
  <2>5. dev'.len = dev.len
    BY <1>1, <1>4
  <2> HIDE DEF t, u
  <2>6. /\ \A i \in Slots : t[i].kind = "sfn" \/ u[i].kind = "sfn" => Alike(t, u, i)
        /\ \A n \in Names, i \in Slots : Orphan(u, i, n) => Orphan(t, i, n)
        /\ \A i \in 0 .. MaxSectors * PerSector : Begun(u, i) => Begun(t, i)
    BY <2>4, SameEntries
  <2>7. MadeT(hist'.made)
    BY <2>1 DEF NamesInv
  <2>8. ASSUME ~hist.torn
        PROVE  Ends' /\ Keeps(Flat.ent, hist)' /\ Keeps(dev.ent, hist)' /\ Orphans' /\ JobNames'
    <3>1. Packed(t, dev.len - 1) /\ Keeps(t, hist) /\ Orphans /\ JobNames
      BY <1>1, <1>2, <2>8 DEF NamesInv, Ends, t
    <3>2. Packed(u, dev.len)
      <4>1. dev.len \in Nat
        BY <1>1 DEF DevT
      <4>2. SUFFICES ASSUME NEW x \in Slots, NEW y \in Slots, x < y, SectorOf(y) <= dev.len,
                            u[x].kind = "end"
                     PROVE  u[y].kind = "end"
        BY DEF Packed
      <4>3. CASE SectorOf(y) = dev.len
        BY <2>3, <4>2, <4>3, EntryFacts
      <4>4. CASE SectorOf(y) # dev.len
        <5>1. SectorOf(x) \in Nat /\ SectorOf(y) \in Nat /\ SectorOf(x) <= SectorOf(y)
          BY <4>2, SlotFacts, SectorOrder DEF Slots
        <5>2. SectorOf(y) <= dev.len - 1 /\ SectorOf(x) # dev.len
          BY <4>1, <4>2, <4>4, <5>1
        <5>3. t[x].kind = "end" /\ u[y] = t[y]
          BY <2>3, <4>2, <4>4, <5>2
        <5>4. QED
          BY <3>1, <4>2, <5>2, <5>3 DEF Packed
      <4>5. QED
        BY <4>3, <4>4
    <3>3. Ends'
      BY <1>1, <2>1, <2>5, <3>2 DEF Ends, u
    <3>4. Keeps(u, hist)
      BY <2>6, <3>1, AlikeFacts DEF NamesInv
    <3>5. Keeps(Flat'.ent, hist') /\ Keeps(dev'.ent, hist')
      BY <1>1, <2>1, <3>4 DEF u
    <3>6. Orphans'
      <4>1. ASSUME NEW n \in Names, NEW i \in Slots, Orphan(u, i, n)
            PROVE  LikeOne(n, hist.littered)
        <5>1. Orphan(Flat.ent, i, n)
          BY <1>1, <2>6, <4>1 DEF t
        <5>2. QED
          BY <1>2, <3>1, <5>1 DEF Orphans, Awaited
      <4>2. \A n : LikeOne(n, hist.littered) => LikeOne(n, hist.littered \cup Cut')
        BY DEF LikeOne
      <4>3. QED
        BY <1>1, <2>1, <4>1, <4>2 DEF Orphans, OrphansIn, u
    <3>7. JobNames'
      <4>1. /\ Vacant(t, job, hist.littered) /\ Chosen(t, job)
            /\ job.op = "rename" => NoneLeft(t, job, job.blk)
        BY <1>1, <1>2, <3>1 DEF JobNames, Naming, Registering, t
      <4>2. Vacant(u, j, hist.littered) /\ Chosen(u, j)
        BY <1>2, <2>2, <2>6, <4>1, RegisteringKept
      <4>3. job.op = "rename" => NoneLeft(u, j, j.blk)
        <5>1. job.op = "rename" => job.old - 1 \in 0 .. MaxSectors * PerSector
          <6>1. job.op = "rename" => job.old \in Slots
            BY <1>2 DEF IInv, JobOK, Found, Registering
          <6>2. QED
            BY <6>1, DirAssumption DEF Slots
        <5>2. QED
          BY <2>2, <2>6, <4>1, <5>1 DEF NoneLeft
      <4>4. QED
        BY <1>1, <2>1, <2>2, <4>2, <4>3 DEF JobNames, Naming, Registering, u
    <3>8. QED
      BY <3>3, <3>5, <3>6, <3>7
  <2>9. QED
    BY <2>1, <2>7, <2>8 DEF NamesInv
<1>5. QED
  BY <1>3, <1>4 DEF dir_clear_write

-----------------------------------------------------------------------------
(* The names, while entries are written.                                   *)

\* Entry a of the table t becomes e, and no other changes.
Only(t, u, a, e) == u[a] = e /\ \A x \in Slots : x # a => u[x] = t[x]

\* A table stays packed when an entry before its end changes.
LEMMA PackedPut ==
  ASSUME NEW t, NEW u, NEW a \in Slots, NEW e, Only(t, u, a, e), e.kind # "end", NEW n,
         Packed(t, n), \A x \in Slots : x < a => t[x].kind # "end"
  PROVE  Packed(u, n)
<1>1. SUFFICES ASSUME NEW x \in Slots, NEW y \in Slots, x < y, SectorOf(y) <= n, u[x].kind = "end"
               PROVE  u[y].kind = "end"
  BY DEF Packed
<1>2. x # a /\ t[x].kind = "end"
  BY <1>1 DEF Only
<1>3. y # a
  BY <1>1, <1>2
<1>4. t[y].kind = "end"
  BY <1>1, <1>2 DEF Packed
<1>5. QED
  BY <1>3, <1>4 DEF Only

\* LFN entries of a name spell no other.
LEMMA SpelledSame ==
  ASSUME NEW t, NEW i \in Nat, NEW m \in Names, NEW d,
         \A x \in 1 .. Len(Parts[m]) : i + 1 - x \in Slots /\ t[i + 1 - x] = Lfn(m, x, d),
         NEW n \in Names, NEW c, Spelled(t, i, n, 0, c)
  PROVE  SameName(n, m) /\ c = d
<1> DEFINE L == Len(Parts[n])
           M == Len(Parts[m])
<1>1. /\ L \in Nat \ {0} /\ M \in Nat \ {0}
      /\ DOMAIN Parts[n] = 1 .. L /\ DOMAIN Parts[m] = 1 .. M
  BY NameFacts
<1>2. \A x \in 1 .. L : i + 0 + 1 - x \in Slots /\ Piece(t[i + 0 + 1 - x], n, x, c)
  BY DEF Spelled
<1>3. ASSUME NEW x \in 1 .. L, x \in 1 .. M
      PROVE  Piece(Lfn(m, x, d), n, x, c)
  <2>1. i + 0 + 1 - x = i + 1 - x
    BY <1>1
  <2>2. Piece(t[i + 1 - x], n, x, c)
    BY <1>2, <2>1
  <2>3. t[i + 1 - x] = Lfn(m, x, d)
    BY <1>3
  <2>4. QED
    BY <2>2, <2>3
<1>4. ASSUME NEW x \in 1 .. L, x \in 1 .. M
      PROVE  (x = M <=> x = L) /\ c = d /\ Upper[Parts[n][x]] = Upper[Parts[m][x]]
  <2>1. /\ Lfn(m, x, d).sum = d /\ Lfn(m, x, d).part = Parts[m][x]
        /\ Lfn(m, x, d).last = (x = M)
    BY <1>1, <1>4, LfnPiece
  <2>2. QED
    BY <1>3, <1>4, <2>1 DEF Piece
<1>5. L = M
  <2>1. CASE L <= M
    <3>1. L \in 1 .. L /\ L \in 1 .. M
      BY <1>1, <2>1
    <3>2. QED
      BY <1>4, <3>1
  <2>2. CASE ~(L <= M)
    <3>1. M \in 1 .. L /\ M \in 1 .. M
      BY <1>1, <2>2
    <3>2. QED
      BY <1>4, <3>1
  <2>3. QED
    BY <2>1, <2>2
<1>6. 1 \in 1 .. L
  BY <1>1
<1>7. QED
  BY <1>1, <1>4, <1>5, <1>6 DEF SameName

\* What a request knows of the names once it has changed an entry.
Renewed ==
  /\ Packed(Flat.ent, Flat.len) /\ Keeps(Flat.ent, hist) /\ JobNames
  /\ \A n \in Names, i \in Slots :
       Orphan(Flat.ent, i, n) => LikeOne(n, hist.littered) \/ Awaited(n, i)

\* The sector that is changed in the window holds nothing of a removed file.
LEMMA PutOnly ==
  ASSUME IInv, pc \notin {"dir_clear", "dir_clear_write"}, ~hist.torn, NEW a, NEW e,
         Put(Flat, Flat', a, e), Untouched(Flat')
  PROVE  Only(Flat.ent, Flat'.ent, a, e)
<1>1. CleanTo(Flat, Flat.len)
  BY DEF IInv, Clean
<1>2. ASSUME NEW x \in Slots, x # a, Flat'.ent[x] = End, Flat.ent[x] = Junk
      PROVE  FALSE
  <2>1. ~(SectorOf(x) <= Flat.len)
    BY <1>1, <1>2 DEF CleanTo
  <2>2. SectorOf(x) > Flat'.len
    <3>1. SectorOf(x) \in Nat /\ Flat.len \in Nat
      BY SlotFacts, TableFacts DEF IInv, DevT
    <3>2. Flat'.len = Flat.len
      BY DEF Put
    <3>3. QED
      BY <2>1, <3>1, <3>2
  <2>3. QED
    BY <1>2, <2>2, EntryFacts DEF Untouched
<1>3. QED
  BY <1>2 DEF Put, Only

\* dir_register and dir_remove change an entry: what the device had of the names
\* stays, and what it is to have is to be shown.
LEMMA NamesPut ==
  ASSUME IInv, NamesInv, pc \in {"put_lfn", "put_sfn", "dir_remove"}, Quiet,
         NEW walks, NEW e \in Entry, NEW j, NEW next \in {"put_lfn", "put_sfn", "dir_remove", "sync_fs"},
         j.op = job.op, j.new = job.new,
         PutEntry(walks, e, j, next), job.at \in Slots, SectorOf(job.at) <= Flat.len,
         (/\ ~hist.torn /\ Only(Flat.ent, Flat'.ent, job.at, e) /\ Flat'.len = Flat.len
          /\ job' = j /\ pc' = next /\ hist' = hist)
         => Renewed'
  PROVE  NamesInv'
<1> DEFINE b == SectorOf(job.at)
<1>1. b \in 1 .. MaxSectors /\ b \in 0 .. MaxSectors /\ b # FatSector /\ b <= Flat.len
  BY SlotFacts, DirAssumption DEF FatSector
<1>2. PICK o \in Seek(job.at, walks) :
        /\ Take(o)
        /\ IF o.ok THEN win' = Write(o.win, job.at, e) /\ GoOn(j, next)
                   ELSE win' = o.win /\ Fails
  BY DEF PutEntry
<1>3. o \in Move(b, b) \/ o \in Move(FatSector, b)
  BY <1>2 DEF Seek
<1>4. Window(dev, win)
  BY DEF IInv
<1> HIDE DEF b
<1>5. Sound(dev, win, o) /\ (o.ok => o.win.sect = b)
  BY <1>1, <1>3, <1>4, MoveOK
<1>6. CASE ~o.ok
  BY <1>2, <1>5, <1>6, NamesFail
<1>7. CASE o.ok
  <2>1. /\ Window(o.dev, o.win) /\ Flushed(o.dev, o.win) = Flat /\ o.dev \in {dev, Flat}
        /\ o.win.sect = SectorOf(job.at)
    BY <1>5, <1>7 DEF Sound, Flat, b
  <2>2. /\ win' = Write(o.win, job.at, e) /\ dev' = o.dev
        /\ job' = j /\ pc' = next /\ hist' = hist
    BY <1>2, <1>7 DEF Take, GoOn
  <2>3. /\ Window(dev', win')
        /\ Put(Flat, Flushed(dev', win'), job.at, e)
    BY <2>1, <2>2, WriteOK
  <2>4. Put(Flat, Flat', job.at, e) /\ Untouched(Flat') /\ Flat'.len = Flat.len
    BY <2>3, FlushedFacts DEF Flat, Put
  <2>5. MadeT(hist'.made)
    BY <2>2 DEF NamesInv
  <2>6. ASSUME ~hist.torn
        PROVE  Ends' /\ Keeps(Flat.ent, hist)' /\ Keeps(dev.ent, hist)' /\ Orphans' /\ JobNames'
    <3>1. Only(Flat.ent, Flat'.ent, job.at, e)
      BY <2>4, <2>6, PutOnly
    <3>2. Renewed'
      BY <2>2, <2>4, <2>6, <3>1
    <3>3. Ends /\ Keeps(Flat.ent, hist) /\ Keeps(dev.ent, hist) /\ Orphans
      BY <2>6 DEF NamesInv
    <3>4. Packed(dev.ent, dev.len) /\ Packed(Flat.ent, Flat.len)
      BY <3>3 DEF Ends
    <3>5. dev' = dev \/ dev' = Flat
      BY <2>1, <2>2
    <3>6. Packed(dev'.ent, dev'.len) /\ Keeps(dev'.ent, hist)
      BY <3>3, <3>4, <3>5
    <3>7. Ends'
      BY <2>2, <3>2, <3>6 DEF Ends, Renewed
    <3>8. OrphansIn(dev'.ent, hist'.littered \cup Cut')
      <4>1. hist.littered \cup Cut \subseteq hist'.littered \cup Cut'
        BY <2>2 DEF Cut
      <4>2. OrphansIn(dev'.ent, hist.littered \cup Cut)
        BY <3>3, <3>5, OrphansCut
      <4>3. QED
        BY <4>1, <4>2, OrphansMore
    <3>9. QED
      BY <2>2, <3>2, <3>6, <3>7, <3>8 DEF Renewed, Orphans
  <2>7. QED
    BY <2>2, <2>5, <2>6 DEF NamesInv
<1>8. QED
  BY <1>6, <1>7

\* dir_register writes the LFN entries, the last piece first.
LEMMA NamesPutLfn ==
  ASSUME IInv, NamesInv, put_lfn
  PROVE  NamesInv'
<1> DEFINE e == Lfn(job.new, job.left, Checksum[job.sfn])
           j == WithLeft(job, job.at + 1, job.left - 1)
           next == IF job.left > 1 THEN "put_lfn" ELSE "put_sfn"
           a == job.at
           t == Flat.ent
           u == Flat'.ent
<1>1. /\ pc = "put_lfn" /\ Quiet
      /\ PutEntry(job.left = LfnCount(job.new), e, j, next)
  BY DEF put_lfn, WithLeft
<1>2. /\ job \in JobT /\ job.new \in Names /\ job.obj \in Objects /\ job.sfn \in ShortNames
      /\ job.op = "create" \/ (job.op = "rename" /\ Found(Flat, job))
      /\ Room(Flat, job) /\ job.left \in 1 .. LfnCount(job.new)
  BY <1>1 DEF IInv, JobOK, Registering
<1>3. /\ a \in Slots /\ SectorOf(a) <= Flat.len
      /\ t[a].kind \notin {"sfn", "lfn"}
  BY <1>2, RoomFacts
<1>4. /\ LfnCount(job.new) \in Nat /\ job.left \in DOMAIN Parts[job.new]
      /\ LfnCount(job.new) = Len(Parts[job.new]) /\ job.new \in NeedsLfn
  <2>1. LfnCount(job.new) \in Nat /\ job.left \in DOMAIN Parts[job.new]
    BY <1>2, LfnCountIs
  <2>2. LfnCount(job.new) # 0
    BY <1>2, <2>1
  <2>3. QED
    BY <1>2, <2>1, <2>2, NameFacts
<1>5. e \in Entry /\ e.kind = "lfn" /\ e.ord = job.left
  BY <1>2, <1>4, EntryFacts, LfnPiece
<1>6. /\ MaxSectors * PerSector \in Nat /\ a \in Nat \ {0} /\ job.left \in Nat \ {0}
      /\ a + 1 \in 0 .. MaxSectors * PerSector + 1 /\ job.left - 1 \in Nat
  BY <1>2, <1>3, <1>4, DirAssumption DEF Slots
<1>7. /\ j \in JobT /\ j.at = a + 1 /\ j.left = job.left - 1
      /\ j.op = job.op /\ j.name = job.name /\ j.new = job.new /\ j.obj = job.obj
      /\ j.sfn = job.sfn /\ j.old = job.old /\ j.blk = job.blk
  BY <1>2, <1>6, JobLeft
<1>8. a + 1 \in Slots /\ t[a + 1].kind \notin {"sfn", "lfn"}
  <2>1. a + job.left \in Slots
    BY <1>2 DEF Room
  <2>2. a + 1 \in Slots /\ a <= a + 1 /\ a + 1 <= a + job.left
    BY <1>6, <2>1 DEF Slots
  <2>3. QED
    BY <1>2, <2>2 DEF Room
<1> HIDE DEF e, j, t, u, a
<1>9. ASSUME ~hist.torn, Only(t, u, a, e), Flat'.len = Flat.len,
             job' = j, pc' = next, hist' = hist
      PROVE  Renewed'
  <2>1. Packed(t, Flat.len) /\ Keeps(t, hist) /\ Orphans /\ JobNames /\ MadeT(hist.made)
    BY <1>1, <1>9 DEF NamesInv, Ends, t
  <2>2. /\ Vacant(t, job, hist.littered) /\ Chosen(t, job) /\ Written(t, job)
        /\ job.obj \notin DOMAIN hist.made
        /\ job.op = "rename" => NoneLeft(t, job, job.blk)
    BY <1>1, <2>1 DEF JobNames, Naming, Registering, t
  <2>3. /\ \A i \in Slots : t[i].kind = "sfn" \/ u[i].kind = "sfn" => Alike(t, u, i)
        /\ \A n \in Names, i \in Slots : Orphan(u, i, n) => Orphan(t, i, n) \/ i = a + 1
        /\ \A i \in 0 .. MaxSectors * PerSector : i # a /\ Begun(u, i) => Begun(t, i)
    BY <1>3, <1>5, <1>8, <1>9, LfnPut DEF Only
  <2>4. /\ \A x \in job.left + 1 .. LfnCount(job.new) :
             a + job.left - x \in Slots /\ t[a + job.left - x] = Lfn(job.new, x, Checksum[job.sfn])
        /\ \A i \in Slots : i < a => t[i].kind # "end"
    BY <2>2 DEF Written, a
  <2>5. Packed(u, Flat.len)
    BY <1>3, <1>5, <1>9, <2>1, <2>4, PackedPut
  <2>6. Keeps(u, hist)
    BY <2>1, <2>3, AlikeFacts
  <2>7. ASSUME NEW x \in job.left .. LfnCount(job.new)
        PROVE  /\ a + job.left - x \in Slots
               /\ u[a + job.left - x] = Lfn(job.new, x, Checksum[job.sfn])
    <3>1. CASE x = job.left
      <4>1. a + job.left - x = a
        BY <1>6, <3>1
      <4>2. QED
        BY <1>3, <1>9, <3>1, <4>1 DEF Only, e
    <3>2. CASE x # job.left
      <4>1. x \in job.left + 1 .. LfnCount(job.new) /\ a + job.left - x # a
        BY <1>4, <1>6, <2>7, <3>2
      <4>2. QED
        BY <1>9, <2>4, <4>1 DEF Only
    <3>3. QED
      BY <3>1, <3>2
  <2>8. Written(u, j)
    <3>1. ASSUME NEW x \in j.left + 1 .. LfnCount(j.new)
          PROVE  j.at + j.left - x \in Slots /\ u[j.at + j.left - x] = Lfn(j.new, x, Checksum[j.sfn])
      <4>1. j.left + 1 = job.left /\ j.at + j.left = a + job.left /\ LfnCount(j.new) = LfnCount(job.new)
        BY <1>6, <1>7
      <4>2. x \in job.left .. LfnCount(job.new)
        BY <3>1, <4>1
      <4>3. /\ a + job.left - x \in Slots
            /\ u[a + job.left - x] = Lfn(job.new, x, Checksum[job.sfn])
        BY <2>7, <4>2
      <4>4. x \in Int /\ j.at = a + 1 /\ j.left = job.left - 1
        BY <1>7, <3>1
      <4>5. j.at + j.left - x = a + job.left - x
        BY <1>6, <4>4
      <4>6. Lfn(j.new, x, Checksum[j.sfn]) = Lfn(job.new, x, Checksum[job.sfn])
        BY <1>7
      <4>7. QED
        BY <4>3, <4>5, <4>6
    <3>2. ASSUME NEW i \in Slots, i < j.at
          PROVE  u[i].kind # "end"
      <4>1. i = a \/ i < a
        BY <1>6, <1>7, <3>2 DEF Slots
      <4>2. CASE i = a
        BY <1>5, <1>9, <4>2 DEF Only
      <4>3. CASE i < a
        <5>1. i # a
          BY <1>6, <4>3
        <5>2. QED
          BY <1>9, <2>4, <4>3, <5>1 DEF Only
      <4>4. QED
        BY <4>1, <4>2, <4>3
    <3>3. QED
      BY <3>1, <3>2 DEF Written
  <2>9. Vacant(u, j, hist.littered) /\ Chosen(u, j)
    BY <1>2, <1>7, <2>2, <2>3, RegisteringKept
  <2>10. j.op = "rename" => NoneLeft(u, j, j.blk)
    <3>1. SUFFICES ASSUME job.op = "rename", job.blk = job.old, Begun(u, job.old - 1)
                   PROVE  FALSE
      BY <1>7 DEF NoneLeft
    <3>2. job.old \in Slots /\ t[job.old].kind = "sfn"
      BY <1>2, <3>1 DEF Found, Holds, t
    <3>3. job.old - 1 \in 0 .. MaxSectors * PerSector /\ job.old - 1 # a
      BY <1>6, <1>8, <3>2 DEF Slots
    <3>4. QED
      BY <2>2, <2>3, <3>1, <3>3 DEF NoneLeft
  <2>11. ASSUME NEW n \in Names, NEW i \in Slots, Orphan(u, i, n)
         PROVE  LikeOne(n, hist.littered) \/ Awaited(n, i)'
    <3>1. CASE Orphan(t, i, n)
      BY <1>1, <2>1, <3>1 DEF Orphans, Awaited, t
    <3>2. CASE i = a + 1
      <4>1. i - 1 = a
        BY <1>6, <3>2
      <4>2. PICK s \in ShortNames : Spelled(u, a, n, 0, Checksum[s])
        BY <2>11, <4>1 DEF Orphan
      <4>3. job.left = 1
        <5>1. 1 \in 0 + 1 .. Len(Parts[n]) /\ a + 0 + 1 - 1 = a
          BY <1>6, NameFacts
        <5>2. Piece(u[a], n, 1, Checksum[s])
          BY <4>2, <5>1 DEF Spelled
        <5>3. QED
          BY <1>5, <1>9, <5>2 DEF Piece, Only
      <4>4. \A x \in 1 .. Len(Parts[job.new]) :
              a + 1 - x \in Slots /\ u[a + 1 - x] = Lfn(job.new, x, Checksum[job.sfn])
        BY <1>4, <2>7, <4>3
      <4>5. SameName(n, job.new)
        BY <1>2, <1>6, <4>2, <4>4, SpelledSame
      <4>6. QED
        BY <1>4, <1>7, <1>9, <3>2, <4>3, <4>5 DEF Awaited
    <3>3. QED
      BY <2>3, <2>11, <3>1, <3>2
  <2>12. JobNames'
    <3>1. pc' \in {"put_lfn", "put_sfn"}
      BY <1>9
    <3>2. QED
      BY <1>7, <1>9, <2>2, <2>8, <2>9, <2>10, <3>1 DEF JobNames, Naming, Registering, u
  <2>13. QED
    BY <1>9, <2>5, <2>6, <2>11, <2>12 DEF Renewed, u
<1>10. next \in {"put_lfn", "put_sfn", "dir_remove", "sync_fs"}
  OBVIOUS
<1> HIDE DEF next
<1>11. (/\ ~hist.torn /\ Only(Flat.ent, Flat'.ent, job.at, e) /\ Flat'.len = Flat.len
        /\ job' = j /\ pc' = next /\ hist' = hist)
       => Renewed'
  BY <1>9 DEF a, t, u, next
<1>12. job.at \in Slots
  BY <1>3 DEF a
<1>13. QED
  BY <1>1, <1>3, <1>5, <1>7, <1>10, <1>11, <1>12, NamesPut DEF a

\* dir_register writes the SFN entry: the pieces before it are tied to it, and the
\* new name leads to the object.
LEMMA NamesPutSfn ==
  ASSUME IInv, NamesInv, put_sfn
  PROVE  NamesInv'
<1> DEFINE e == NewEntry(job)
           j == [job EXCEPT !.at = job.blk]
           next == IF job.op = "create" THEN "sync_fs" ELSE "dir_remove"
           a == job.at
           t == Flat.ent
           u == Flat'.ent
           S == hist.littered
<1>1. pc = "put_sfn" /\ Quiet /\ PutEntry(FALSE, e, j, next)
  BY DEF put_sfn
<1>2. /\ job \in JobT /\ job.new \in Names /\ job.obj \in Objects /\ job.sfn \in ShortNames
      /\ job.op = "create" \/ (job.op = "rename" /\ Found(Flat, job))
      /\ Room(Flat, job) /\ job.left = 0 /\ HistT(hist)
  BY <1>1 DEF IInv, JobOK, Registering
<1>3. /\ a \in Slots /\ SectorOf(a) <= Flat.len
      /\ t[a].kind \notin {"sfn", "lfn"}
  BY <1>2, RoomFacts
<1>4. /\ e \in Entry /\ e.kind = "sfn" /\ e.obj = job.obj /\ e.sfn = job.sfn
  BY <1>2, EntryFacts DEF NewEntry, Sfn
<1>5. /\ j \in JobT /\ j.at = job.blk
      /\ j.op = job.op /\ j.name = job.name /\ j.new = job.new /\ j.obj = job.obj
      /\ j.sfn = job.sfn /\ j.old = job.old /\ j.blk = job.blk
  <2>1. job.blk \in 0 .. MaxSectors * PerSector + 1
    <3>1. job.blk \in Slots \cup {0} /\ MaxSectors * PerSector \in Nat
      BY <1>2, DirAssumption DEF JobT
    <3>2. QED
      BY <3>1 DEF Slots
  <2>2. QED
    BY <1>2, <2>1, JobAt
<1>6. a \in Nat \ {0} /\ a - 1 \in Nat /\ MaxSectors * PerSector \in Nat
  BY <1>3, DirAssumption DEF Slots
<1> HIDE DEF j, t, u, a, S
<1>7. ASSUME ~hist.torn, Only(t, u, a, e), Flat'.len = Flat.len,
             job' = j, pc' = next, hist' = hist
      PROVE  Renewed'
  <2>1. Packed(t, Flat.len) /\ Keeps(t, hist) /\ Orphans /\ JobNames /\ MadeT(hist.made)
    BY <1>1, <1>7 DEF NamesInv, Ends, t
  <2>2. /\ Vacant(t, job, S) /\ Chosen(t, job) /\ Written(t, job)
        /\ job.obj \notin DOMAIN hist.made
        /\ job.op = "rename" => NoneLeft(t, job, job.blk)
    BY <1>1, <2>1 DEF JobNames, Naming, Registering, t, S
  <2>3. /\ \A x \in 1 .. LfnCount(job.new) :
             (a - 1) + 1 - x \in Slots /\ t[(a - 1) + 1 - x] = Lfn(job.new, x, Checksum[job.sfn])
        /\ \A i \in Slots : i < a => t[i].kind # "end"
    <3>1. \A x \in Int : a + job.left - x = (a - 1) + 1 - x /\ job.left + 1 = 1
      BY <1>2, <1>6
    <3>2. QED
      BY <2>2, <3>1 DEF Written, a
  <2>4. ASSUME NEW n \in Names, NEW c, Spelled(t, a - 1, n, 0, c), job.new \in NeedsLfn
        PROVE  c = Checksum[job.sfn]
    <3>1. LfnCount(job.new) = Len(Parts[job.new])
      BY <1>2, <2>4, NameFacts
    <3>2. \A x \in 1 .. Len(Parts[job.new]) :
            (a - 1) + 1 - x \in Slots /\ t[(a - 1) + 1 - x] = Lfn(job.new, x, Checksum[job.sfn])
      BY <2>3, <3>1
    <3> DEFINE i == a - 1
               d == Checksum[job.sfn]
    <3>3. i \in Nat /\ Spelled(t, i, n, 0, c)
      BY <1>6, <2>4
    <3> HIDE DEF i, d
    <3>4. \A x \in 1 .. Len(Parts[job.new]) : i + 1 - x \in Slots /\ t[i + 1 - x] = Lfn(job.new, x, d)
      BY <3>2 DEF i, d
    <3>5. c = d
      BY <1>2, <2>4, <3>3, <3>4, SpelledSame
    <3>6. QED
      BY <3>5 DEF d
  <2>5. Fits(t, a, job, S)
    <3>1. ASSUME NEW n \in Names, Spelled(t, a - 1, n, 0, Checksum[job.sfn])
          PROVE  LikeOne(n, S) \/ SameName(n, job.new)
      <4>1. Orphan(t, a, n)
        BY <1>2, <1>3, <3>1 DEF Orphan
      <4>2. QED
        BY <1>3, <2>1, <4>1 DEF Orphans, Awaited, t, S
    <3>2. QED
      BY <2>2, <3>1 DEF Fits
  <2>6. /\ Keeps(u, hist) /\ Vacant(u, job, S)
        /\ \A n \in Names, i \in Slots : i # a => (Hit(u, i, n) <=> Hit(t, i, n))
        /\ \A n \in Names, i \in Slots : Orphan(u, i, n) =>
             /\ Orphan(t, i, n)
             /\ i = a => \E c : Spelled(t, a - 1, n, 0, c) /\ c # Checksum[job.sfn]
    BY <1>2, <1>3, <1>7, <2>1, <2>5, SfnPut DEF Only, S, HistT
  <2>7. Packed(u, Flat.len)
    BY <1>3, <1>4, <1>7, <2>1, <2>3, PackedPut
  <2>8. ASSUME NEW n \in Names, NEW i \in Slots, Orphan(u, i, n)
        PROVE  LikeOne(n, S)
    <3>1. Orphan(t, i, n) /\ (i = a => \E c : Spelled(t, a - 1, n, 0, c) /\ c # Checksum[job.sfn])
      BY <2>6, <2>8
    <3>2. ~Awaited(n, i)
      BY <2>4, <3>1 DEF Awaited, a
    <3>3. QED
      BY <2>1, <3>1, <3>2 DEF Orphans, t, S
  <2>9. u[a] = e /\ \A x \in Slots : x # a => u[x] = t[x]
    BY <1>7 DEF Only
  <2>10. Hit(u, a, job.new)
    <3>1. CASE job.new \in NeedsLfn
      <4>1. LfnCount(job.new) = Len(Parts[job.new]) /\ DOMAIN Parts[job.new] = 1 .. Len(Parts[job.new])
        BY <1>2, <3>1, NameFacts
      <4>2. ASSUME NEW x \in 0 + 1 .. Len(Parts[job.new])
            PROVE  /\ (a - 1) + 0 + 1 - x \in Slots
                   /\ Piece(u[(a - 1) + 0 + 1 - x], job.new, x, Checksum[job.sfn])
        <5>1. x \in 1 .. LfnCount(job.new) /\ (a - 1) + 0 + 1 - x = (a - 1) + 1 - x
          BY <1>6, <4>1, <4>2
        <5>2. (a - 1) + 1 - x # a
          BY <1>6, <4>2
        <5>3. (a - 1) + 1 - x \in Slots /\ u[(a - 1) + 1 - x] = Lfn(job.new, x, Checksum[job.sfn])
          BY <2>3, <2>9, <5>1, <5>2
        <5>4. Piece(Lfn(job.new, x, Checksum[job.sfn]), job.new, x, Checksum[job.sfn])
          BY <1>2, <4>1, <5>1, LfnPiece
        <5>5. QED
          BY <5>1, <5>3, <5>4
      <4>3. Spelled(u, a - 1, job.new, 0, Checksum[job.sfn])
        BY <4>2 DEF Spelled
      <4>4. QED
        BY <1>4, <2>9, <4>3 DEF Hit, Tied
    <3>2. CASE job.new \notin NeedsLfn
      <4>1. job.new \notin Lossy
        BY <1>2, <3>2, NameFacts
      <4>2. QED
        BY <1>4, <2>2, <2>9, <4>1 DEF Hit, Chosen
    <3>3. QED
      BY <3>1, <3>2
  <2>11. ASSUME job.op = "rename"
         PROVE  /\ job.old \in Slots /\ job.old # a
                /\ NoneLeft(u, job, job.blk)
                /\ \A i \in Slots : job.blk <= i /\ i < job.old => u[i].kind = "lfn"
    <3>1. /\ job.old \in Slots /\ t[job.old].kind = "sfn"
          /\ \A i \in Slots : job.blk <= i /\ i < job.old => t[i].kind = "lfn"
      BY <1>2, <2>11 DEF Found, Holds, t
    <3>2. job.old # a
      BY <1>3, <3>1
    <3>3. \A i \in Slots : job.blk <= i /\ i < job.old => u[i].kind = "lfn"
      BY <1>3, <2>9, <3>1
    <3>4. Begun(u, job.old - 1) => Begun(t, job.old - 1)
      <4>1. \A x \in Slots : u[x].kind = "lfn" => t[x] = u[x]
        BY <1>4, <2>9
      <4>2. job.old - 1 \in Nat /\ job.old - 1 <= MaxSectors * PerSector
        BY <1>6, <3>1 DEF Slots
      <4>3. QED
        BY <4>1, <4>2, LfnKept
    <3>5. QED
      BY <2>2, <2>11, <3>1, <3>2, <3>3, <3>4 DEF NoneLeft
  <2>12. Entered(u, j, next)
    <3>1. next = "dir_remove" => job.op = "rename"
      BY <1>2
    <3>2. Hit(u, a, j.new) /\ u[a].obj = j.obj /\ (next = "dir_remove" => a # j.old)
      BY <1>4, <1>5, <2>9, <2>10, <2>11, <3>1
    <3>3. QED
      BY <1>3, <3>2 DEF Entered
  <2>13. JobNames'
    <3>1. Vacant(u, j, S)
      BY <1>5, <2>6 DEF Vacant
    <3>2. pc' \in {"sync_fs", "dir_remove"} /\ (pc' = "dir_remove" => job.op = "rename")
      BY <1>2, <1>7
    <3>3. pc' = "dir_remove" => NoneLeft(u, j, j.at)
      BY <1>5, <2>11, <3>2 DEF NoneLeft
    <3>4. pc' = "dir_remove" => \A i \in Slots : j.at <= i /\ i < j.old => u[i].kind = "lfn"
      BY <1>5, <2>11, <3>2
    <3>5. Entered(u, j, pc')
      BY <1>7, <2>12
    <3>6. QED
      BY <1>5, <1>7, <2>2, <3>1, <3>2, <3>3, <3>4, <3>5 DEF JobNames, Naming, Registering, u, S
  <2>14. QED
    BY <1>7, <2>6, <2>7, <2>8, <2>13 DEF Renewed, u, S
<1>8. next \in {"put_lfn", "put_sfn", "dir_remove", "sync_fs"}
  OBVIOUS
<1> HIDE DEF e, next
<1>9. (/\ ~hist.torn /\ Only(Flat.ent, Flat'.ent, job.at, e) /\ Flat'.len = Flat.len
        /\ job' = j /\ pc' = next /\ hist' = hist)
       => Renewed'
  BY <1>7 DEF a, t, u, e, next
<1>10. job.at \in Slots
  BY <1>3 DEF a
<1>11. QED
  BY <1>1, <1>3, <1>4, <1>5, <1>8, <1>9, <1>10, NamesPut DEF a

\* dir_remove takes the LFN entries and then the SFN entry, and leaves none.
LEMMA NamesRemove ==
  ASSUME IInv, NamesInv, dir_remove
  PROVE  NamesInv'
<1> DEFINE walks == job.at = job.blk /\ job.blk < job.old
           j == [job EXCEPT !.at = @ + 1]
           next == IF job.at < job.old THEN "dir_remove" ELSE "sync_fs"
           a == job.at
           old == job.old
           t == Flat.ent
           u == Flat'.ent
           S == hist.littered
<1>1. pc = "dir_remove" /\ Quiet /\ PutEntry(walks, Deleted, j, next)
  BY DEF dir_remove
<1>2. job \in JobT /\ job.new \in Names /\ Removing(Flat, job, hist.alive)
  BY <1>1 DEF IInv, JobOK
<1>3. /\ old \in Slots /\ job.blk \in 1 .. old /\ a \in job.blk .. old
      /\ SectorOf(old) <= Flat.len /\ t[old].kind = "sfn" /\ t[old].obj = job.obj
      /\ job.op \in {"unlink", "rename"}
  BY <1>2 DEF Removing, Holds
<1>4. /\ MaxSectors * PerSector \in Nat /\ old \in Nat \ {0} /\ old <= MaxSectors * PerSector
      /\ a \in Slots /\ a \in Nat \ {0} /\ a <= old
  BY <1>3, DirAssumption DEF Slots
<1>5. SectorOf(a) <= Flat.len
  <2>1. SectorOf(a) \in Nat /\ SectorOf(old) \in Nat /\ Flat.len \in Nat /\ SectorOf(a) <= SectorOf(old)
    BY <1>3, <1>4, SlotFacts, SectorOrder, TableFacts DEF IInv, DevT
  <2>2. QED
    BY <1>3, <2>1
<1>6. /\ j \in JobT /\ j.at = a + 1
      /\ j.op = job.op /\ j.name = job.name /\ j.new = job.new /\ j.obj = job.obj
      /\ j.sfn = job.sfn /\ j.old = old /\ j.blk = job.blk
  BY <1>2, <1>4, JobAt DEF Slots
<1>7. Deleted \in Entry /\ Deleted.kind = "deleted"
  BY EntryFacts
<1> HIDE DEF walks, j, t, u, a, old, S
<1>8. ASSUME ~hist.torn, Only(t, u, a, Deleted), Flat'.len = Flat.len,
             job' = j, pc' = next, hist' = hist
      PROVE  Renewed'
  <2>1. Packed(t, Flat.len) /\ Keeps(t, hist) /\ Orphans /\ JobNames /\ MadeT(hist.made)
    BY <1>1, <1>8 DEF NamesInv, Ends, t
  <2>2. /\ job.obj \notin DOMAIN hist.made
        /\ NoneLeft(t, job, a)
        /\ \A i \in Slots : a <= i /\ i < old => t[i].kind = "lfn"
        /\ job.op = "rename" => Vacant(t, job, S) /\ Entered(t, job, "dir_remove")
    BY <1>1, <2>1 DEF JobNames, Naming, Registering, t, S, a, old
  <2>3. u[a] = Deleted /\ \A x \in Slots : x # a => u[x] = t[x]
    BY <1>8 DEF Only
  <2>4. /\ Keeps(u, hist)
        /\ \A n \in Names, i \in Slots : Hit(u, i, n) => Hit(t, i, n) /\ u[i] = t[i]
        /\ \A n \in Names, i \in Slots : i # old /\ Hit(t, i, n) => Hit(u, i, n) /\ u[i] = t[i]
        /\ \A n \in Names, i \in Slots :
             Orphan(u, i, n) => Orphan(t, i, n) \/ (i = old /\ a = old /\ Begun(t, old - 1))
        /\ \A i \in 0 .. MaxSectors * PerSector : Begun(u, i) => Begun(t, i) /\ i # a
    <3>1. t[old].obj \notin DOMAIN hist.made
      BY <1>3, <2>2
    <3>2. QED
      BY <1>3, <1>4, <2>1, <2>2, <2>3, <3>1, EntryRemoved
  <2>5. Packed(u, Flat.len)
    <3>1. ASSUME NEW x \in Slots, x < a
          PROVE  t[x].kind # "end"
      <4>1. t[a].kind # "end"
        BY <1>3, <1>4, <2>2
      <4>2. QED
        BY <1>4, <1>5, <2>1, <3>1, <4>1 DEF Packed
    <3>2. Deleted.kind # "end"
      BY <1>7
    <3>3. QED
      BY <1>4, <1>8, <2>1, <3>1, <3>2, PackedPut
  <2>6. ASSUME NEW n \in Names, NEW i \in Slots, Orphan(u, i, n)
        PROVE  LikeOne(n, S)
    <3>1. ~(a = old /\ Begun(t, old - 1))
      BY <2>2 DEF NoneLeft, old
    <3>2. Orphan(t, i, n)
      BY <2>4, <2>6, <3>1
    <3>3. QED
      BY <1>1, <2>1, <3>2 DEF Orphans, Awaited, t, S
  <2>7. job.op = "rename" => Vacant(u, j, S) /\ Entered(u, j, pc')
    <3>1. SUFFICES ASSUME job.op = "rename"
                   PROVE  Vacant(u, j, S) /\ Entered(u, j, pc')
      OBVIOUS
    <3>2. Vacant(u, j, S)
      BY <1>2, <1>6, <2>2, <2>4, <3>1 DEF Vacant
    <3>3. PICK i \in Slots : Hit(t, i, job.new) /\ t[i].obj = job.obj /\ i # old
      BY <2>2, <3>1 DEF Entered, old
    <3>4. Hit(u, i, j.new) /\ u[i].obj = j.obj /\ i # j.old
      BY <1>2, <1>6, <2>4, <3>3
    <3>5. QED
      BY <3>2, <3>4 DEF Entered
  <2>8. ASSUME pc' = "dir_remove"
        PROVE  NoneLeft(u, j, j.at) /\ \A i \in Slots : j.at <= i /\ i < j.old => u[i].kind = "lfn"
    <3>1. a < old
      BY <1>8, <2>8 DEF a, old
    <3>2. NoneLeft(u, j, j.at)
      <4>1. old - 1 \in 0 .. MaxSectors * PerSector /\ (a + 1 = old => old - 1 = a)
        BY <1>4
      <4>2. QED
        BY <1>6, <2>4, <4>1 DEF NoneLeft
    <3>3. ASSUME NEW i \in Slots, a + 1 <= i, i < old
          PROVE  u[i].kind = "lfn"
      <4>1. a <= i /\ i # a
        BY <1>4, <3>3 DEF Slots
      <4>2. QED
        BY <2>2, <2>3, <3>3, <4>1
    <3>4. QED
      BY <1>6, <3>2, <3>3
  <2>9. JobNames'
    <3>1. pc' \in {"dir_remove", "sync_fs"}
      BY <1>8
    <3>2. Naming(j, pc') => job.op = "rename"
      BY <1>3, <1>6, <3>1 DEF Naming, Registering
    <3>3. QED
      BY <1>6, <1>8, <2>2, <2>7, <2>8, <3>1, <3>2 DEF JobNames, Registering, u, S
  <2>10. QED
    BY <1>8, <2>4, <2>5, <2>6, <2>9 DEF Renewed, u, S
<1>9. next \in {"put_lfn", "put_sfn", "dir_remove", "sync_fs"}
  OBVIOUS
<1> HIDE DEF next
<1>10. (/\ ~hist.torn /\ Only(Flat.ent, Flat'.ent, job.at, Deleted) /\ Flat'.len = Flat.len
        /\ job' = j /\ pc' = next /\ hist' = hist)
       => Renewed'
  BY <1>8 DEF a, t, u, next
<1>11. job.at \in Slots
  BY <1>4 DEF a
<1>12. QED
  BY <1>1, <1>5, <1>6, <1>7, <1>9, <1>10, <1>11, NamesPut DEF a

-----------------------------------------------------------------------------
(* The names, at the end of a request and through power losses.            *)

\* A packed table is packed in fewer sectors.
LEMMA PackedLess ==
  ASSUME NEW t, NEW n \in Nat, NEW m \in Nat, n <= m, Packed(t, m)
  PROVE  Packed(t, n)
<1>1. \A j \in Slots : SectorOf(j) \in Nat
  BY SlotFacts
<1>2. QED
  BY <1>1 DEF Packed

\* The end of a request that gives a name: the object can be found under it.
LEMMA NamesKnown ==
  ASSUME IInv, NamesInv, pc = "sync_fs", job.op \in {"create", "rename"},
         Flat' = Flat, dev' = Flat, pc' = "idle", job' = NoJob,
         hist'.made = Known(hist.made, job.obj, job.new),
         hist'.littered = hist.littered, hist'.torn = hist.torn
  PROVE  NamesInv'
<1>1. job.new \in Names
  BY DEF IInv, JobOK
<1>2. MadeT(hist'.made)
  BY <1>1 DEF NamesInv, MadeT, Known
<1>3. ASSUME ~hist.torn
      PROVE  Ends' /\ Keeps(Flat.ent, hist)' /\ Keeps(dev.ent, hist)' /\ Orphans' /\ JobNames'
  <2>1. Packed(Flat.ent, Flat.len) /\ Keeps(Flat.ent, hist) /\ Orphans /\ JobNames
    BY <1>3 DEF NamesInv, Ends
  <2>2. JobNames' /\ Cut' = {}
    BY IdleNames
  <2>3. Ends'
    BY <2>1 DEF Ends
  <2>4. Durable(Flat.ent, hist')
    <3>1. SUFFICES ASSUME NEW o \in DOMAIN hist'.made, ~LikeOne(hist'.made[o], hist.littered)
                   PROVE  \E i \in Slots : Hit(Flat.ent, i, hist'.made[o]) /\ Flat.ent[i].obj = o
      BY DEF Durable
    <3>2. CASE o = job.obj
      <4>1. hist'.made[o] = job.new
        BY <3>2 DEF Known
      <4>2. Entered(Flat.ent, job, "sync_fs")
        BY <2>1 DEF JobNames, Naming, Registering
      <4>3. QED
        BY <3>2, <4>1, <4>2 DEF Entered
    <3>3. CASE o # job.obj
      <4>1. o \in DOMAIN hist.made /\ hist'.made[o] = hist.made[o]
        BY <3>3 DEF Known
      <4>2. QED
        BY <2>1, <3>1, <4>1 DEF Keeps, Durable
    <3>4. QED
      BY <3>2, <3>3
  <2>5. Keeps(Flat'.ent, hist') /\ Keeps(dev'.ent, hist')
    BY <2>1, <2>4 DEF Keeps
  <2>6. Orphans'
    <3>1. ASSUME NEW n \in Names, NEW j \in Slots, Orphan(Flat.ent, j, n)
          PROVE  LikeOne(n, hist.littered)
      BY <2>1, <3>1 DEF Orphans, Awaited
    <3>2. QED
      BY <2>2, <3>1 DEF Orphans, OrphansIn
  <2>7. QED
    BY <2>2, <2>3, <2>5, <2>6
<1>4. QED
  BY <1>2, <1>3 DEF NamesInv

\* The window is written back, or that fails.
LEMMA NamesSync ==
  ASSUME IInv, NamesInv, sync_fs
  PROVE  NamesInv'
<1>1. /\ Window(dev, win) /\ HistT(hist) /\ pc = "sync_fs" /\ Quiet
      /\ job.op \in {"unlink", "create", "rename"}
  BY DEF IInv, sync_fs, JobOK
<1>2. PICK o \in {Synced} \cup FlushFails :
        /\ Take(o) /\ win' = o.win
        /\ IF o.ok
             THEN /\ Answer("FR_OK")
                  /\ hist' = IF job.op = "unlink" THEN hist
                             ELSE [hist EXCEPT !.made = Known(@, job.obj, job.new),
                                               !.alive = @ \cup {job.obj}]
             ELSE IF job.op = "create"
               THEN /\ Answer("FR_OK")
                    /\ hist' = [hist EXCEPT !.littered = @ \cup Cut]
               ELSE Fails
  BY DEF sync_fs
<1>3. Sound(dev, win, o) /\ (o.ok => o.dev = Flat)
  BY <1>1, SyncMoves
<1>4. Flat' = Flat /\ dev' \in {dev, Flat} /\ dev' = o.dev
  BY <1>1, <1>2, <1>3, MovedOK DEF Take, Counted
<1>5. hist.torn \/ ~hist.torn
  BY <1>1 DEF HistT
<1>6. CASE o.ok /\ job.op = "unlink"
  <2>1. pc' = "idle" /\ job' = NoJob /\ hist' = hist
    BY <1>2, <1>6 DEF Answer
  <2>2. JobNames' /\ Cut = {}
    BY <1>6, <2>1, IdleNames DEF Cut
  <2>3. Weaker(hist, hist') /\ hist.littered \cup Cut \subseteq hist'.littered \cup Cut'
    BY <2>1, <2>2 DEF Weaker
  <2>4. QED
    BY <1>1, <1>4, <1>5, <2>1, <2>2, <2>3, NamesMoved
<1>7. CASE o.ok /\ job.op # "unlink"
  <2>1. /\ pc' = "idle" /\ job' = NoJob
        /\ hist' = [hist EXCEPT !.made = Known(@, job.obj, job.new),
                                !.alive = @ \cup {job.obj}]
    BY <1>2, <1>7 DEF Answer
  <2>2. /\ hist'.made = Known(hist.made, job.obj, job.new)
        /\ hist'.littered = hist.littered /\ hist'.torn = hist.torn
    BY <1>1, <2>1 DEF HistT
  <2>3. QED
    BY <1>1, <1>3, <1>4, <1>7, <2>1, <2>2, NamesKnown
<1>8. CASE ~o.ok /\ job.op = "create"
  <2>1. /\ pc' = "idle" /\ job' = NoJob
        /\ hist' = [hist EXCEPT !.littered = @ \cup Cut]
    BY <1>2, <1>8 DEF Answer
  <2>2. hist'.made = hist.made /\ hist'.littered = hist.littered \cup Cut /\ hist'.torn = hist.torn
    BY <1>1, <2>1 DEF HistT
  <2>3. JobNames'
    BY <2>1, IdleNames
  <2>4. Weaker(hist, hist') /\ hist.littered \cup Cut \subseteq hist'.littered \cup Cut'
    BY <2>2 DEF Weaker
  <2>5. QED
    BY <1>1, <1>4, <1>5, <2>1, <2>2, <2>3, <2>4, NamesMoved
<1>9. CASE ~o.ok /\ job.op # "create"
  BY <1>1, <1>2, <1>3, <1>9, NamesFail
<1>10. QED
  BY <1>6, <1>7, <1>8, <1>9

\* The names on the device are those the invariant says it has.
LEMMA NamesPowerLoss ==
  ASSUME IInv, NamesInv, PowerLoss
  PROVE  NamesInv'
<1>1. /\ Window(dev, win) /\ HistT(hist)
      /\ win' = NoWindow /\ pc' = "idle" /\ job' = NoJob
      /\ hist' = [hist EXCEPT !.littered = @ \cup Cut, !.torn = @ \/ pc = "dir_clear_write"]
      /\ dev' = dev
  BY DEF IInv, PowerLoss
<1>2. dev \in DevT /\ Flat' = dev
  BY <1>1, NoWindowOK DEF Flat, Window
<1>3. /\ hist'.made = hist.made /\ hist'.littered = hist.littered \cup Cut
      /\ hist'.torn = (hist.torn \/ pc = "dir_clear_write")
  BY <1>1 DEF HistT
<1>4. MadeT(hist'.made)
  BY <1>3 DEF NamesInv
<1>5. ASSUME ~hist'.torn
      PROVE  Ends' /\ Keeps(Flat.ent, hist)' /\ Keeps(dev.ent, hist)' /\ Orphans' /\ JobNames'
  <2>1. ~hist.torn /\ pc # "dir_clear_write"
    BY <1>3, <1>5
  <2>2. Ends /\ Keeps(dev.ent, hist) /\ Orphans
    BY <2>1 DEF NamesInv
  <2>3. JobNames' /\ Cut' = {}
    BY <1>1, IdleNames
  <2>4. Packed(dev.ent, dev.len)
    <3>1. CASE pc = "dir_clear"
      <4>1. Packed(dev.ent, win.len - 1) /\ dev.len < win.len
        BY <2>2, <3>1 DEF IInv, JobOK, Ends
      <4>2. dev.len \in Nat /\ win.len \in Nat /\ win.len - 1 \in Nat /\ dev.len <= win.len - 1
        BY <1>1, <1>2, <4>1 DEF Window, WinT, DevT
      <4>3. QED
        BY <4>1, <4>2, PackedLess
    <3>2. CASE pc # "dir_clear"
      BY <2>1, <2>2, <3>2 DEF Ends
    <3>3. QED
      BY <3>1, <3>2
  <2>5. Ends'
    BY <1>1, <1>2, <2>4 DEF Ends
  <2>6. Keeps(dev.ent, hist')
    <3>1. Weaker(hist, hist')
      BY <1>3 DEF Weaker
    <3>2. QED
      BY <2>2, <3>1, KeepsLess
  <2>7. Keeps(Flat'.ent, hist') /\ Keeps(dev'.ent, hist')
    BY <1>1, <1>2, <2>6
  <2>8. Orphans'
    <3>1. OrphansIn(dev.ent, hist'.littered)
      BY <1>3, <2>2 DEF Orphans
    <3>2. QED
      BY <1>1, <1>2, <2>3, <3>1 DEF Orphans, OrphansIn
  <2>9. QED
    BY <2>3, <2>5, <2>7, <2>8
<1>6. QED
  BY <1>4, <1>5 DEF NamesInv

\* A new directory has no entry of a name.
LEMMA NamesInit ==
  ASSUME Init
  PROVE  NamesInv
<1>1. /\ IInv /\ pc = "idle" /\ job = NoJob
      /\ hist = [made |-> [o \in {} |-> NoName], alive |-> {}, littered |-> {}, torn |-> FALSE]
      /\ dev.len = 1 /\ \A i \in Slots : dev.ent[i] = IF SectorOf(i) = 1 THEN End ELSE Junk
      /\ Flat = dev
  BY InitOK, NoWindowOK DEF Init, IInv, Window, Flat
<1>2. \A i \in Slots : dev.ent[i].kind \notin {"sfn", "lfn"}
  BY <1>1, EntryFacts
<1>3. \A n \in Names, j \in Slots : ~Hit(dev.ent, j, n)
  BY <1>2 DEF Hit
<1>4. ASSUME NEW n \in Names, NEW j \in Slots, Orphan(dev.ent, j, n)
      PROVE  FALSE
  <2>1. PICK s \in ShortNames : Spelled(dev.ent, j - 1, n, 0, Checksum[s])
    BY <1>4 DEF Orphan
  <2>2. j - 1 \in Nat /\ 0 \in 0 .. Len(Parts[n]) - 1
    BY NameFacts DEF Slots
  <2>3. QED
    BY <1>2, <2>1, <2>2, SpelledBegun
<1>5. hist.made = [o \in {} |-> NoName] /\ DOMAIN hist.made = {}
  BY <1>1
<1>6. Keeps(dev.ent, hist)
  BY <1>2, <1>3, <1>5 DEF Keeps, Proper, Uniform, Durable
<1>7. Packed(dev.ent, 1)
  <2>1. ASSUME NEW j \in Slots, SectorOf(j) <= 1
        PROVE  dev.ent[j].kind = "end"
    BY <1>1, <2>1, SlotFacts, EntryFacts
  <2>2. QED
    BY <2>1 DEF Packed
<1>8. JobNames
  BY <1>1, NoJobIs DEF JobNames, Naming, Registering
<1>9. Ends /\ Orphans
  BY <1>1, <1>4, <1>7 DEF Ends, Orphans, OrphansIn
<1>10. QED
  BY <1>1, <1>5, <1>6, <1>8, <1>9 DEF NamesInv, MadeT

\* Every step keeps what the tables have of the names.
LEMMA NamesStep ==
  ASSUME IInv, NamesInv, [Next]_vars
  PROVE  NamesInv'
<1>1. CASE \E n \in Names : \/ fff_create(n) \/ fff_unlink(n) \/ fff_getattr(n)
                            \/ \E m \in Names \ {n} : fff_rename(n, m)
  <2>1. PICK n \in Names : \E m \in Names, op \in {"create", "unlink", "getattr", "rename"} :
               Request(op, n, m) /\ (op = "create" => n = m)
    BY <1>1 DEF fff_create, fff_unlink, fff_getattr, fff_rename
  <2>2. QED
    BY <2>1, NamesRequest DEF Ops
<1>2. CASE fff_readdir
  BY <1>2, NamesReaddir
<1>3. CASE find
  BY <1>3, NamesFind
<1>4. CASE find_new
  BY <1>4, NamesFindNew
<1>5. CASE dir_alloc
  BY <1>5, NamesAlloc
<1>6. CASE dir_next
  BY <1>6, NextOK, NamesNext
<1>7. CASE dir_clear
  BY <1>7, NamesClear
<1>8. CASE dir_clear_write
  BY <1>8, NamesClearWrite
<1>9. CASE put_lfn
  BY <1>9, NamesPutLfn
<1>10. CASE put_sfn
  BY <1>10, NamesPutSfn
<1>11. CASE dir_remove
  BY <1>11, NamesRemove
<1>12. CASE sync_fs
  BY <1>12, NamesSync
<1>13. CASE PowerLoss
  BY <1>13, NamesPowerLoss
<1>14. CASE UNCHANGED vars
  <2>1. dev' = dev /\ win' = win /\ job' = job /\ pc' = pc /\ hist' = hist
    BY <1>14 DEF vars
  <2>2. Flat' = Flat
    BY <2>1 DEF Flat
  <2>3. Ends' = Ends /\ Orphans' = Orphans /\ JobNames' = JobNames
    <3>1. Ends' = Ends
      BY <2>1, <2>2 DEF Ends
    <3>2. Orphans' = Orphans
      BY <2>1, <2>2 DEF Orphans, Awaited, Cut
    <3>3. JobNames' = JobNames
      BY <2>1, <2>2 DEF JobNames
    <3>4. QED
      BY <3>1, <3>2, <3>3
  <2>4. QED
    BY <2>1, <2>2, <2>3 DEF NamesInv
<1>15. QED
  BY <1>1, <1>2, <1>3, <1>4, <1>5, <1>6, <1>7, <1>8, <1>9, <1>10, <1>11, <1>12, <1>13, <1>14
     DEF Next, Step

\* An entry of an object on the device is in its table, before the end.
LEMMA DeviceEnd ==
  ASSUME IInv, NamesInv, ~hist.torn, NEW j \in Slots, dev.ent[j].kind = "sfn"
  PROVE  /\ j \in 1 .. dev.len * PerSector
         /\ \A i \in 1 .. j - 1 : dev.ent[i].kind # "end"
<1>1. /\ dev \in DevT /\ Untouched(dev) /\ win \in WinT /\ Ends
      /\ dev.len \in Nat /\ win.len \in Nat
  BY DEF IInv, Window, NamesInv, DevT, WinT
<1>2. SectorOf(j) <= dev.len /\ j \in 1 .. dev.len * PerSector
  BY <1>1, EntryLinked
<1>3. CASE pc \notin {"dir_clear", "dir_clear_write"}
  BY <1>1, <1>3, BeforeEnd DEF Ends
<1>4. CASE pc \in {"dir_clear", "dir_clear_write"}
  <2>1. Packed(dev.ent, win.len - 1)
    BY <1>1, <1>4 DEF Ends
  <2>2. SectorOf(j) <= win.len - 1
    <3>1. CASE pc = "dir_clear"
      <4>1. dev.len < win.len
        BY <3>1 DEF IInv, JobOK
      <4>2. SectorOf(j) \in Nat
        BY SlotFacts
      <4>3. QED
        BY <1>1, <1>2, <4>1, <4>2
    <3>2. CASE pc = "dir_clear_write"
      <4>1. /\ win.sect = FatSector /\ ~win.dirty
            /\ \A i \in Slots : SectorOf(i) = win.len => dev.ent[i] = Junk
        BY <3>2 DEF IInv, JobOK
      <4>2. win.len = dev.len /\ SectorOf(j) # win.len /\ SectorOf(j) \in Nat
        BY <4>1, EntryFacts, SlotFacts DEF IInv, Window
      <4>3. QED
        BY <1>1, <1>2, <4>2
    <3>3. QED
      BY <1>4, <3>1, <3>2
  <2>3. ASSUME NEW i \in 1 .. j - 1 PROVE dev.ent[i].kind # "end"
    <3>1. i \in Slots /\ i < j
      BY DirAssumption DEF Slots
    <3>2. QED
      BY <2>1, <2>2, <3>1 DEF Packed
  <2>4. QED
    BY <1>2, <2>3
<1>5. QED
  BY <1>3, <1>4

\* The invariant of the names.
THEOREM NamesInvariant == Spec => [](IInv /\ NamesInv)
<1>1. Init => IInv /\ NamesInv
  BY InitOK, NamesInit
<1>2. IInv /\ NamesInv /\ [Next]_vars => (IInv /\ NamesInv)'
  BY NextOK, NamesStep
<1>3. QED
  BY <1>1, <1>2, PTL DEF Spec

\* dir_register, dir_remove and f_rename change only the entries of their own
\* object: at every moment, through power losses and failed accesses, dir_find
\* finds every object whose last change answered OK on the device under its name,
\* unless the registration of that name or the growth of the table was cut short.
THEOREM NamesAreDurable == Spec => []NamesDurable
<1>1. IInv /\ NamesInv => NamesDurable
  <2>1. SUFFICES ASSUME IInv, NamesInv, NEW o \in DOMAIN hist.made,
                        ~hist.torn, ~Littered(hist.made[o])
                 PROVE  OnDevice(hist.made[o]).slot # 0 /\ dev.ent[OnDevice(hist.made[o]).slot].obj = o
    BY DEF NamesDurable
  <2> DEFINE n == hist.made[o]
             r == dir_find(dev.ent, dev.len * PerSector, Target(n))
  <2>2. n \in Names /\ Keeps(dev.ent, hist) /\ ~LikeOne(n, hist.littered)
    BY <2>1 DEF NamesInv, MadeT, Littered, LikeOne
  <2>3. PICK i \in Slots : Hit(dev.ent, i, n) /\ dev.ent[i].obj = o
    BY <2>2 DEF Keeps, Durable
  <2>4. dev.ent \in [Slots -> Entry] /\ dev.len * PerSector \in 0 .. MaxSectors * PerSector
    <3>1. dev \in DevT /\ dev.len \in 0 .. MaxSectors
      BY <2>1, DirAssumption DEF IInv, Window, DevT
    <3>2. QED
      BY <3>1, TableBound DEF DevT
  <2>5. i \in 1 .. dev.len * PerSector /\ \A x \in 1 .. i - 1 : dev.ent[x].kind # "end"
    BY <2>1, <2>3, DeviceEnd DEF Hit
  <2>6. r.slot # 0 /\ Hit(dev.ent, r.slot, n) /\ r.slot \in Slots
    <3>1. /\ r.slot # 0 => Hit(dev.ent, r.slot, n)
          /\ r.slot = 0 => \A j \in 1 .. dev.len * PerSector :
               Hit(dev.ent, j, n) => \E x \in 1 .. j - 1 : dev.ent[x].kind = "end"
      BY <2>2, <2>4, FindName
    <3>2. r.slot # 0 => r.slot \in Slots
      BY <2>4, FindFacts
    <3> HIDE DEF r
    <3>3. QED
      BY <2>3, <2>5, <3>1, <3>2
  <2>7. OnDevice(n) = r
    BY DEF OnDevice
  <2> HIDE DEF r, n
  <2>8. dev.ent[r.slot].obj = dev.ent[i].obj
    BY <2>2, <2>3, <2>6 DEF Keeps, Uniform
  <2>9. QED
    BY <2>3, <2>6, <2>7, <2>8 DEF n
<1>2. QED
  BY <1>1, NamesInvariant, PTL
-----------------------------------------------------------------------------
(* The listing.  While nothing has failed, every entry in the table is one of *)
(* an object under its name, but for those of the request in progress.        *)

\* Nothing has failed.
Calm == faults = 0 /\ crashes = 0

\* No LFN entry is right before entry i.
StartsAt(t, i) == i # 1 => t[i - 1].kind # "lfn"

\* The SFN entry j is that of the name n, with the LFN entries of n and no others.
Wears(t, j, n) ==
  IF n \in NeedsLfn
    THEN \A k \in 1 .. Len(Parts[n]) : j - k \in Slots /\ t[j - k] = Lfn(n, k, Checksum[t[j].sfn])
    ELSE t[j].sfn = Shorts[n][1] /\ StartsAt(t, j)

\* The SFN entry j is that of an object of m, under its name.
Settled(t, j, m) == t[j].obj \in DOMAIN m /\ Wears(t, j, m[t[j].obj])

\* The LFN entry i goes on to the SFN entry.
Onward(t, i) ==
  /\ i + 1 \in Slots
  /\ t[i + 1].kind = "sfn" \/ (t[i + 1].kind = "lfn" /\ ~t[i + 1].last)

\* The calls that change entries, up to the end of the request.
Changing == {"put_lfn", "put_sfn", "dir_remove", "sync_fs"}

\* The request u, at its call p, removes the SFN entry j or is to remove it.
Leaving(u, p, j) == u.op # "create" /\ p \in Changing \ {"sync_fs"} /\ j = u.old

\* The SFN entry j is the one the request has written.
Coming(t, u, p, j) ==
  p \in {"dir_remove", "sync_fs"} /\ u.op # "unlink" /\ t[j].obj = u.obj /\ Wears(t, j, u.new)

\* The LFN entry i is the last one the request has written.
Unfinished(u, p, i) == p \in {"put_lfn", "put_sfn"} /\ i = u.at - 1 /\ u.left < LfnCount(u.new)

\* The entries of the table t are those of the objects of m and of the request.
Tidy(t, u, p, m) ==
  /\ \A j \in Slots : t[j].kind = "sfn" => Leaving(u, p, j) \/ Settled(t, j, m) \/ Coming(t, u, p, j)
  /\ \A i \in Slots : t[i].kind = "lfn" => Unfinished(u, p, i) \/ Onward(t, i)
  /\ \A i, j \in Slots :
       t[i].kind = "sfn" /\ t[j].kind = "sfn" /\ t[i].obj = t[j].obj =>
         i = j \/ Leaving(u, p, i) \/ Leaving(u, p, j)

\* dir_remove begins at the first entry of the object; a new object is no other one.
\* r requests have been made.
Sole(t, u, p, m, r) ==
  /\ p # "idle" => u.obj <= r
  /\ u.op = "rename" /\ p \in {"find_new"} \cup Registering => StartsAt(t, u.blk)
  /\ p = "dir_remove" => StartsAt(t, u.at)
  /\ u.op = "create" => u.obj \notin DOMAIN m

\* The table while nothing has failed: nothing waits in the window when a request
\* ends or before it changes an entry, and the table is tidy.
Tidied ==
  /\ hist.littered = {} /\ ~hist.torn
  /\ \A o \in DOMAIN hist.made : o <= requests
  /\ pc \in {"idle", "find", "find_new", "dir_alloc", "dir_next", "dir_clear_write"} => ~win.dirty
  /\ Tidy(Flat.ent, job, pc, hist.made)
  /\ Sole(Flat.ent, job, pc, hist.made, requests)

\* The invariant of the listing.
TidyInv == Calm => Tidied

\* The entries of t are those of the objects of m, each object's once.
Neat(t, m) ==
  /\ \A j \in Slots : t[j].kind = "sfn" => Settled(t, j, m)
  /\ \A i \in Slots : t[i].kind = "lfn" => Onward(t, i)
  /\ \A i, j \in Slots : t[i].kind = "sfn" /\ t[j].kind = "sfn" /\ t[i].obj = t[j].obj => i = j

\* Between requests, and until a request changes an entry, all entries are those of
\* objects.
LEMMA TidyNeat ==
  ASSUME NEW t, NEW u, NEW p, p \notin Changing, NEW m
  PROVE  Tidy(t, u, p, m) <=> Neat(t, m)
<1>1. /\ \A j : ~Leaving(u, p, j) /\ ~Coming(t, u, p, j)
      /\ \A i : ~Unfinished(u, p, i)
  BY DEF Leaving, Coming, Unfinished, Changing
<1>2. QED
  BY <1>1 DEF Tidy, Neat

\* An entry keeps its name when its LFN entries stay.
LEMMA WearsKept ==
  ASSUME NEW t, NEW u, NEW j \in Slots, NEW n \in Names, t[j].kind = "sfn", u[j] = t[j],
         \A x \in Slots : x < j /\ (\A y \in Slots : x <= y /\ y < j => t[y].kind = "lfn") => u[x] = t[x],
         StartsAt(t, j) => StartsAt(u, j),
         Wears(t, j, n)
  PROVE  Wears(u, j, n)
<1>1. CASE n \notin NeedsLfn
  BY <1>1 DEF Wears
<1>2. CASE n \in NeedsLfn
  <2>1. SUFFICES ASSUME NEW k \in 1 .. Len(Parts[n])
                 PROVE  j - k \in Slots /\ u[j - k] = Lfn(n, k, Checksum[u[j].sfn])
    BY <1>2 DEF Wears
  <2>2. j - k \in Slots /\ t[j - k] = Lfn(n, k, Checksum[t[j].sfn])
    BY <1>2, <2>1 DEF Wears
  <2>3. j \in Nat /\ k \in Nat \ {0} /\ j - k < j /\ Len(Parts[n]) \in Nat /\ DOMAIN Parts[n] = 1 .. Len(Parts[n])
    BY NameFacts DEF Slots
  <2>4. ASSUME NEW y \in Slots, j - k <= y, y < j
        PROVE  t[y].kind = "lfn"
    <3> DEFINE x == j - y
    <3>1. x \in 1 .. Len(Parts[n]) /\ y = j - x
      BY <2>3, <2>4 DEF Slots
    <3>2. t[y] = Lfn(n, x, Checksum[t[j].sfn])
      BY <1>2, <3>1 DEF Wears
    <3>3. QED
      BY <2>3, <3>1, <3>2, LfnPiece
  <2>5. QED
    BY <2>2, <2>3, <2>4
<1>3. QED
  BY <1>1, <1>2

\* A table with the same entries of objects is as tidy.
LEMMA TidySame ==
  ASSUME NEW t, NEW u,
         \A x \in Slots : t[x].kind \in {"sfn", "lfn"} \/ u[x].kind \in {"sfn", "lfn"} => t[x] = u[x],
         NEW m, MadeT(m)
  PROVE  /\ Neat(t, m) => Neat(u, m)
         /\ \A i \in Slots : StartsAt(t, i) => StartsAt(u, i)
<1>1. ASSUME NEW i \in Slots, StartsAt(t, i)
      PROVE  StartsAt(u, i)
  <2>1. i # 1 => i - 1 \in Slots
    BY DirAssumption DEF Slots
  <2>2. QED
    BY <1>1, <2>1 DEF StartsAt
<1>2. ASSUME Neat(t, m), NEW j \in Slots, u[j].kind = "sfn"
      PROVE  Settled(u, j, m)
  <2>1. t[j] = u[j] /\ Settled(t, j, m)
    BY <1>2 DEF Neat
  <2> DEFINE n == m[t[j].obj]
  <2>2. n \in Names /\ Wears(t, j, n)
    BY <2>1 DEF Settled, MadeT
  <2>3. \A x \in Slots : x < j /\ (\A y \in Slots : x <= y /\ y < j => t[y].kind = "lfn") => u[x] = t[x]
    BY DEF Slots
  <2> HIDE DEF n
  <2>4. Wears(u, j, n)
    BY <1>1, <1>2, <2>1, <2>2, <2>3, WearsKept
  <2>5. QED
    BY <2>1, <2>4 DEF Settled, n
<1>3. ASSUME Neat(t, m), NEW i \in Slots, u[i].kind = "lfn"
      PROVE  Onward(u, i)
  BY <1>3 DEF Neat, Onward
<1>4. ASSUME Neat(t, m)
      PROVE  \A i, j \in Slots : u[i].kind = "sfn" /\ u[j].kind = "sfn" /\ u[i].obj = u[j].obj => i = j
  BY <1>4 DEF Neat
<1>5. QED
  BY <1>1, <1>2, <1>3, <1>4 DEF Neat

\* An object leaves the table: its one entry is the one to be removed.
LEMMA Leaves ==
  ASSUME NEW t, NEW m, Neat(t, m), NEW u, NEW p \in Changing \ {"sync_fs"},
         \/ u.obj \notin DOMAIN m
         \/ u.op # "create" /\ u.old \in Slots /\ t[u.old].kind = "sfn" /\ t[u.old].obj = u.obj
  PROVE  Tidy(t, u, p, Forgotten(m, u.obj))
<1>1. ASSUME NEW j \in Slots, t[j].kind = "sfn"
      PROVE  Leaving(u, p, j) \/ Settled(t, j, Forgotten(m, u.obj))
  <2>1. Settled(t, j, m)
    BY <1>1 DEF Neat
  <2>2. CASE t[j].obj = u.obj
    <3>1. u.obj \in DOMAIN m
      BY <2>1, <2>2 DEF Settled
    <3>2. j = u.old
      BY <1>1, <2>2, <3>1 DEF Neat
    <3>3. QED
      BY <3>1, <3>2 DEF Leaving
  <2>3. CASE t[j].obj # u.obj
    BY <2>1, <2>3 DEF Settled, Forgotten
  <2>4. QED
    BY <2>2, <2>3
<1>2. QED
  BY <1>1 DEF Neat, Tidy

\* dir_find tells dir_remove the first entry of the object it finds.
LEMMA StartsAtFound ==
  ASSUME IInv, ~hist.torn, pc \notin {"dir_clear", "dir_clear_write"},
         Packed(Flat.ent, Flat.len), NEW m, Neat(Flat.ent, m), MadeT(m), NEW n \in Names,
         dir_find(Table, TableLen, Target(n)).slot # 0
  PROVE  StartsAt(Flat.ent, RemovesFrom(dir_find(Table, TableLen, Target(n))))
<1> DEFINE r == dir_find(Table, TableLen, Target(n))
           t == Flat.ent
<1>1. /\ r.slot \in Slots /\ t[r.slot].kind = "sfn"
      /\ r.blk = 0 => ~Begun(t, r.slot - 1)
      /\ r.blk # 0 => r.blk \in Slots /\ t[r.blk].last
  BY SearchName DEF Hit
<1>2. r.blk \in 0 .. r.slot - 1 /\ (r.blk # 0 => Table[r.blk].kind = "lfn")
  <2>1. Table \in [Slots -> Entry] /\ TableLen \in 0 .. MaxSectors * PerSector
    BY TableFacts DEF IInv
  <2>2. FoundAt(Table, r.slot, r.blk)
    BY <2>1, FindFacts
  <2>3. r.blk # 0 => r.blk \in r.blk .. r.slot - 1
    BY <1>1, <2>2 DEF FoundAt, Slots
  <2>4. QED
    BY <2>2, <2>3 DEF FoundAt
<1> HIDE DEF r
<1>3. CASE r.blk = 0
  <2>1. SUFFICES ASSUME r.slot # 1, t[r.slot - 1].kind = "lfn"
                 PROVE  FALSE
    BY <1>3 DEF StartsAt, RemovesFrom, r
  <2> DEFINE j == r.slot
             q == m[t[j].obj]
  <2>2. q \in Names /\ Wears(t, j, q)
    BY <1>1 DEF Neat, Settled, MadeT
  <2>3. j \in Nat \ {0}
    BY <1>1 DEF Slots
  <2> HIDE DEF j, q, t
  <2>4. q \in NeedsLfn
    BY <2>1, <2>2 DEF Wears, StartsAt, j
  <2> DEFINE L == Len(Parts[q])
  <2>5. L \in Nat \ {0} /\ DOMAIN Parts[q] = 1 .. L
    BY <2>2, NameFacts
  <2>6. \A k \in 1 .. L : /\ j - k \in Slots /\ t[j - k].kind = "lfn"
                          /\ k = L => t[j - k].last
    <3>1. ASSUME NEW k \in 1 .. L
          PROVE  j - k \in Slots /\ t[j - k].kind = "lfn" /\ t[j - k].last = (k = L)
      <4>1. j - k \in Slots /\ t[j - k] = Lfn(q, k, Checksum[t[j].sfn])
        BY <2>2, <2>4, <3>1 DEF Wears
      <4>2. QED
        BY <2>2, <2>5, <4>1, LfnPiece
    <3>2. QED
      BY <3>1
  <2> HIDE DEF L
  <2>7. j - L \in 1 .. j - 1 /\ t[j - L].last
    BY <2>3, <2>5, <2>6 DEF Slots
  <2>8. \A x \in j - L .. j - 1 : t[x].kind = "lfn"
    <3>1. ASSUME NEW x \in j - L .. j - 1
          PROVE  t[x].kind = "lfn"
      <4>1. j - x \in 1 .. L /\ j - (j - x) = x
        BY <2>3, <2>5, <3>1
      <4>2. QED
        BY <2>6, <4>1
    <3>2. QED
      BY <3>1
  <2>9. Begun(t, j - 1)
    BY <2>7, <2>8 DEF Begun
  <2>10. QED
    BY <1>1, <1>3, <2>9 DEF j
<1>4. CASE r.blk # 0
  <2>1. SUFFICES ASSUME r.blk # 1, t[r.blk - 1].kind = "lfn"
                 PROVE  FALSE
    BY <1>4 DEF StartsAt, RemovesFrom, r
  <2>2. r.blk - 1 \in Slots /\ (r.blk - 1) + 1 = r.blk
    BY <1>1, <1>4, <2>1, DirAssumption DEF Slots
  <2>3. Table[r.blk] = t[r.blk]
    BY <1>1, <1>2, <1>4, SeenIs DEF IInv
  <2>4. Onward(t, r.blk - 1)
    BY <2>1, <2>2 DEF Neat
  <2>5. QED
    BY <1>1, <1>2, <1>4, <2>2, <2>3, <2>4 DEF Onward
<1>5. QED
  BY <1>3, <1>4

\* dir_register writes an LFN entry.
LEMMA TidyLfn ==
  ASSUME NEW t, NEW u, NEW a \in Slots, a + 1 \in Slots,
         \A x \in Slots : x # a => u[x] = t[x],
         t[a].kind \notin {"sfn", "lfn"}, t[a + 1].kind \notin {"sfn", "lfn"},
         NEW v, NEW w, v.new \in Names, v.left \in 1 .. LfnCount(v.new), v.at = a,
         u[a] = Lfn(v.new, v.left, Checksum[v.sfn]),
         w.at = a + 1, w.left = v.left - 1,
         w.op = v.op, w.new = v.new, w.obj = v.obj, w.old = v.old, w.blk = v.blk,
         NEW q \in {"put_lfn", "put_sfn"}, NEW m, MadeT(m), Tidy(t, v, "put_lfn", m)
  PROVE  /\ Tidy(u, w, q, m)
         /\ \A i \in Slots : t[i].kind \in {"sfn", "lfn"} /\ StartsAt(t, i) => StartsAt(u, i)
<1>1. /\ LfnCount(v.new) = Len(Parts[v.new]) /\ Len(Parts[v.new]) \in Nat
      /\ v.left \in DOMAIN Parts[v.new] /\ v.left \in Nat \ {0}
  <2>1. LfnCount(v.new) \in {0, Len(Parts[v.new])} /\ Len(Parts[v.new]) \in Nat
        /\ DOMAIN Parts[v.new] = 1 .. Len(Parts[v.new])
    BY NameFacts
  <2>2. QED
    BY <2>1
<1>2. u[a].kind = "lfn" /\ u[a].last = (v.left = Len(Parts[v.new]))
  BY <1>1, LfnPiece
<1>3. a \in Nat \ {0} /\ (a + 1) - 1 = a
  BY DEF Slots
<1>4. ASSUME NEW i \in Slots, t[i].kind \in {"sfn", "lfn"}, StartsAt(t, i)
      PROVE  StartsAt(u, i)
  <2>1. SUFFICES ASSUME i # 1 PROVE u[i - 1].kind # "lfn"
    BY DEF StartsAt
  <2>2. i - 1 \in Slots /\ i # a + 1 /\ (i - 1 = a => i = a + 1)
    BY <1>3, <1>4, <2>1, DirAssumption DEF Slots
  <2>3. u[i - 1] = t[i - 1]
    BY <2>2
  <2>4. QED
    BY <1>4, <2>1, <2>3 DEF StartsAt
<1>5. ASSUME NEW j \in Slots, u[j].kind = "sfn"
      PROVE  Leaving(w, q, j) \/ Settled(u, j, m)
  <2>1. j # a /\ u[j] = t[j] /\ t[j].kind = "sfn"
    BY <1>2, <1>5
  <2>2. Leaving(v, "put_lfn", j) \/ Settled(t, j, m)
    BY <2>1 DEF Tidy, Coming
  <2>3. CASE Leaving(v, "put_lfn", j)
    BY <2>3 DEF Leaving, Changing
  <2>4. CASE Settled(t, j, m)
    <3> DEFINE n == m[t[j].obj]
    <3>1. n \in Names /\ Wears(t, j, n)
      BY <2>4 DEF Settled, MadeT
    <3>2. \A x \in Slots : x < j /\ (\A y \in Slots : x <= y /\ y < j => t[y].kind = "lfn") => u[x] = t[x]
      BY DEF Slots
    <3>3. StartsAt(t, j) => StartsAt(u, j)
      BY <1>4, <2>1
    <3> HIDE DEF n
    <3>4. Wears(u, j, n)
      BY <2>1, <3>1, <3>2, <3>3, WearsKept
    <3>5. QED
      BY <2>1, <2>4, <3>4 DEF Settled, n
  <2>5. QED
    BY <2>2, <2>3, <2>4
<1>6. ASSUME NEW i \in Slots, u[i].kind = "lfn"
      PROVE  Unfinished(w, q, i) \/ Onward(u, i)
  <2>1. CASE i = a
    <3>1. w.left < LfnCount(w.new) /\ i = w.at - 1
      BY <1>1, <1>3, <2>1
    <3>2. QED
      BY <3>1 DEF Unfinished
  <2>2. CASE i # a
    <3>1. u[i] = t[i] /\ (Unfinished(v, "put_lfn", i) \/ Onward(t, i))
      BY <1>6, <2>2 DEF Tidy
    <3>2. CASE Unfinished(v, "put_lfn", i)
      <4>1. i + 1 = a /\ v.left # Len(Parts[v.new])
        BY <1>1, <1>3, <3>2 DEF Unfinished, Slots
      <4>2. QED
        BY <1>2, <4>1 DEF Onward
    <3>3. CASE Onward(t, i)
      <4>1. i + 1 \in Slots /\ i + 1 # a
        BY <3>3 DEF Onward
      <4>2. u[i + 1] = t[i + 1]
        BY <4>1
      <4>3. QED
        BY <3>3, <4>1, <4>2 DEF Onward
    <3>4. QED
      BY <3>1, <3>2, <3>3
  <2>3. QED
    BY <2>1, <2>2
<1>7. ASSUME NEW i \in Slots, NEW j \in Slots, u[i].kind = "sfn", u[j].kind = "sfn", u[i].obj = u[j].obj
      PROVE  i = j \/ Leaving(w, q, i) \/ Leaving(w, q, j)
  <2>1. u[i] = t[i] /\ u[j] = t[j]
    BY <1>2, <1>7
  <2>2. i = j \/ Leaving(v, "put_lfn", i) \/ Leaving(v, "put_lfn", j)
    BY <1>7, <2>1 DEF Tidy
  <2>3. QED
    BY <2>2 DEF Leaving, Changing
<1>8. QED
  BY <1>4, <1>5, <1>6, <1>7 DEF Tidy

\* dir_register writes the SFN entry: it is that of the object, under its new name.
LEMMA TidySfn ==
  ASSUME NEW t, NEW u, NEW a \in Slots,
         \A x \in Slots : x # a => u[x] = t[x],
         t[a].kind \notin {"sfn", "lfn"},
         NEW v, NEW w, v.new \in Names, v.at = a, v.left = 0, u[a] = NewEntry(v),
         v.op \in {"create", "rename"},
         w.op = v.op, w.new = v.new, w.obj = v.obj, w.old = v.old,
         NEW q, q = (IF v.op = "create" THEN "sync_fs" ELSE "dir_remove"),
         NEW m, MadeT(m), v.obj \notin DOMAIN m, Tidy(t, v, "put_sfn", m),
         Written(t, v), Chosen(t, v)
  PROVE  /\ Tidy(u, w, q, m)
         /\ \A i \in Slots : t[i].kind \in {"sfn", "lfn"} /\ StartsAt(t, i) => StartsAt(u, i)
<1>1. u[a].kind = "sfn" /\ u[a].sfn = v.sfn /\ u[a].obj = v.obj
  BY DEF NewEntry, Sfn
<1>2. a \in Nat \ {0}
  BY DEF Slots
<1>3. ASSUME NEW i \in Slots, StartsAt(t, i)
      PROVE  StartsAt(u, i)
  <2>1. SUFFICES ASSUME i # 1 PROVE u[i - 1].kind # "lfn"
    BY DEF StartsAt
  <2>2. i - 1 \in Slots
    BY <2>1, DirAssumption DEF Slots
  <2>3. QED
    BY <1>1, <1>3, <2>1, <2>2 DEF StartsAt
<1>4. Wears(u, a, v.new)
  <2>1. CASE v.new \in NeedsLfn
    <3>1. SUFFICES ASSUME NEW k \in 1 .. Len(Parts[v.new])
                   PROVE  a - k \in Slots /\ u[a - k] = Lfn(v.new, k, Checksum[u[a].sfn])
      BY <2>1 DEF Wears
    <3>2. LfnCount(v.new) = Len(Parts[v.new]) /\ Len(Parts[v.new]) \in Nat
      BY <2>1, NameFacts
    <3>3. k \in v.left + 1 .. LfnCount(v.new) /\ a + v.left - k = a - k /\ a - k # a
      BY <1>2, <3>1, <3>2
    <3>4. a - k \in Slots /\ t[a - k] = Lfn(v.new, k, Checksum[v.sfn])
      BY <3>3 DEF Written
    <3>5. QED
      BY <1>1, <3>3, <3>4
  <2>2. CASE v.new \notin NeedsLfn
    <3>1. v.new \notin Lossy /\ LfnCount(v.new) = 0
      BY <2>2, NameFacts
    <3>2. u[a].sfn = Shorts[v.new][1]
      BY <1>1, <3>1 DEF Chosen
    <3>3. StartsAt(t, a)
      <4>1. SUFFICES ASSUME a # 1, t[a - 1].kind = "lfn" PROVE FALSE
        BY DEF StartsAt
      <4>2. a - 1 \in Slots /\ (a - 1) + 1 = a
        BY <4>1, DirAssumption DEF Slots
      <4>3. Unfinished(v, "put_sfn", a - 1) \/ Onward(t, a - 1)
        BY <4>1, <4>2 DEF Tidy
      <4>4. ~(v.left < LfnCount(v.new))
        BY <3>1
      <4>5. QED
        BY <4>2, <4>3, <4>4 DEF Unfinished, Onward
    <3>4. QED
      BY <1>3, <2>2, <3>2, <3>3 DEF Wears
  <2>3. QED
    BY <2>1, <2>2
<1>5. \A j : Leaving(v, "put_sfn", j) => Leaving(w, q, j)
  BY DEF Leaving, Changing
<1>6. ASSUME NEW j \in Slots, u[j].kind = "sfn"
      PROVE  Leaving(w, q, j) \/ Settled(u, j, m) \/ Coming(u, w, q, j)
  <2>1. CASE j = a
    BY <1>1, <1>4, <2>1 DEF Coming
  <2>2. CASE j # a
    <3>1. u[j] = t[j] /\ t[j].kind = "sfn"
      BY <1>6, <2>2
    <3>2. Leaving(v, "put_sfn", j) \/ Settled(t, j, m)
      BY <3>1 DEF Tidy, Coming
    <3>3. CASE Settled(t, j, m)
      <4> DEFINE n == m[t[j].obj]
      <4>1. n \in Names /\ Wears(t, j, n)
        BY <3>3 DEF Settled, MadeT
      <4>2. \A x \in Slots : x < j /\ (\A y \in Slots : x <= y /\ y < j => t[y].kind = "lfn") => u[x] = t[x]
        BY DEF Slots
      <4> HIDE DEF n
      <4>3. Wears(u, j, n)
        BY <1>3, <3>1, <4>1, <4>2, WearsKept
      <4>4. QED
        BY <3>1, <3>3, <4>3 DEF Settled, n
    <3>4. QED
      BY <1>5, <3>2, <3>3
  <2>3. QED
    BY <2>1, <2>2
<1>7. ASSUME NEW i \in Slots, u[i].kind = "lfn"
      PROVE  Onward(u, i)
  <2>1. i # a /\ u[i] = t[i] /\ (Unfinished(v, "put_sfn", i) \/ Onward(t, i))
    BY <1>1, <1>7 DEF Tidy
  <2>2. CASE Unfinished(v, "put_sfn", i)
    <3>1. i + 1 = a
      BY <1>2, <2>2 DEF Unfinished, Slots
    <3>2. QED
      BY <1>1, <3>1 DEF Onward
  <2>3. CASE Onward(t, i)
    <3>1. i + 1 \in Slots /\ i + 1 # a
      BY <2>3 DEF Onward
    <3>2. u[i + 1] = t[i + 1]
      BY <3>1
    <3>3. QED
      BY <2>3, <3>1, <3>2 DEF Onward
  <2>4. QED
    BY <2>1, <2>2, <2>3
<1>8. ASSUME NEW j \in Slots, j # a, u[j].kind = "sfn", u[j].obj = v.obj
      PROVE  Leaving(w, q, j)
  <2>1. t[j] = u[j]
    BY <1>8
  <2>2. Leaving(v, "put_sfn", j)
    BY <1>8, <2>1 DEF Tidy, Settled, Coming
  <2>3. QED
    BY <1>5, <2>2
<1>9. ASSUME NEW i \in Slots, NEW j \in Slots, u[i].kind = "sfn", u[j].kind = "sfn", u[i].obj = u[j].obj
      PROVE  i = j \/ Leaving(w, q, i) \/ Leaving(w, q, j)
  <2>1. CASE i = a \/ j = a
    BY <1>1, <1>8, <1>9, <2>1
  <2>2. CASE i # a /\ j # a
    <3>1. u[i] = t[i] /\ u[j] = t[j]
      BY <2>2
    <3>2. i = j \/ Leaving(v, "put_sfn", i) \/ Leaving(v, "put_sfn", j)
      BY <1>9, <3>1 DEF Tidy
    <3>3. QED
      BY <1>5, <3>2
  <2>3. QED
    BY <2>1, <2>2
<1>10. QED
  BY <1>3, <1>6, <1>7, <1>9 DEF Tidy

\* dir_remove removes an entry of the object.
LEMMA TidyRemoved ==
  ASSUME NEW t, NEW u, NEW a \in Slots, NEW old \in Slots, a <= old,
         \A x \in Slots : x # a => u[x] = t[x],
         u[a] = Deleted, t[old].kind = "sfn",
         \A x \in Slots : a <= x /\ x < old => t[x].kind = "lfn",
         NEW v, NEW w, v.new \in Names, v.old = old, v.at = a, v.op # "create",
         w.op = v.op, w.new = v.new, w.obj = v.obj, w.old = v.old, w.at = a + 1,
         NEW q, q = (IF a < old THEN "dir_remove" ELSE "sync_fs"),
         NEW m, MadeT(m), Tidy(t, v, "dir_remove", m), StartsAt(t, a)
  PROVE  Tidy(u, w, q, m) /\ StartsAt(u, w.at)
<1>1. u[a].kind = "deleted"
  BY DEF Deleted
<1>2. a \in Nat \ {0} /\ old \in Nat \ {0} /\ (a + 1) - 1 = a
  BY DEF Slots
<1>3. StartsAt(u, w.at)
  BY <1>1, <1>2 DEF StartsAt
<1>4. ASSUME NEW i \in Slots, StartsAt(t, i)
      PROVE  StartsAt(u, i)
  <2>1. SUFFICES ASSUME i # 1 PROVE u[i - 1].kind # "lfn"
    BY DEF StartsAt
  <2>2. i - 1 \in Slots
    BY <2>1, DirAssumption DEF Slots
  <2>3. QED
    BY <1>1, <1>4, <2>1, <2>2 DEF StartsAt
<1>5. ASSUME NEW j \in Slots, Leaving(v, "dir_remove", j), u[j].kind = "sfn"
      PROVE  Leaving(w, q, j)
  <2>1. j = old
    BY <1>5 DEF Leaving
  <2>2. a < old
    BY <1>1, <1>2, <1>5, <2>1
  <2>3. QED
    BY <2>1, <2>2 DEF Leaving, Changing
<1>6. ASSUME NEW j \in Slots, u[j].kind = "sfn", j # old, NEW n \in Names, Wears(t, j, n)
      PROVE  Wears(u, j, n)
  <2>1. u[j] = t[j] /\ t[j].kind = "sfn" /\ j \in Nat
    BY <1>1, <1>6 DEF Slots
  <2>2. ASSUME NEW x \in Slots, x < j, \A y \in Slots : x <= y /\ y < j => t[y].kind = "lfn"
        PROVE  u[x] = t[x]
    <3>1. CASE old < j
      <4>1. ~(x <= old)
        BY <2>2, <3>1
      <4>2. x # a
        BY <1>2, <4>1 DEF Slots
      <4>3. QED
        BY <4>2
    <3>2. CASE ~(old < j)
      <4>1. j < old
        BY <1>2, <1>6, <2>1, <3>2
      <4>2. ~(a <= j)
        BY <2>1, <4>1
      <4>3. x # a
        BY <1>2, <2>1, <2>2, <4>2 DEF Slots
      <4>4. QED
        BY <4>3
    <3>3. QED
      BY <3>1, <3>2
  <2>3. QED
    BY <1>4, <1>6, <2>1, <2>2, WearsKept
<1>7. ASSUME NEW j \in Slots, u[j].kind = "sfn"
      PROVE  Leaving(w, q, j) \/ Settled(u, j, m) \/ Coming(u, w, q, j)
  <2>1. CASE Leaving(v, "dir_remove", j)
    BY <1>5, <1>7, <2>1
  <2>2. CASE ~Leaving(v, "dir_remove", j)
    <3>1. j # old /\ u[j] = t[j] /\ t[j].kind = "sfn"
      BY <1>1, <1>7, <2>2 DEF Leaving, Changing
    <3>2. Settled(t, j, m) \/ Coming(t, v, "dir_remove", j)
      BY <2>2, <3>1 DEF Tidy
    <3>3. CASE Settled(t, j, m)
      <4> DEFINE n == m[t[j].obj]
      <4>1. n \in Names /\ Wears(t, j, n)
        BY <3>3 DEF Settled, MadeT
      <4> HIDE DEF n
      <4>2. Wears(u, j, n)
        BY <1>6, <1>7, <3>1, <4>1
      <4>3. QED
        BY <3>1, <3>3, <4>2 DEF Settled, n
    <3>4. CASE Coming(t, v, "dir_remove", j)
      <4>1. v.op # "unlink" /\ t[j].obj = v.obj /\ Wears(t, j, v.new)
        BY <3>4 DEF Coming
      <4>2. Wears(u, j, v.new)
        BY <1>6, <1>7, <3>1, <4>1
      <4>3. q \in {"dir_remove", "sync_fs"}
        OBVIOUS
      <4>4. QED
        BY <3>1, <4>1, <4>2, <4>3 DEF Coming
    <3>5. QED
      BY <3>2, <3>3, <3>4
  <2>3. QED
    BY <2>1, <2>2
<1>8. ASSUME NEW i \in Slots, u[i].kind = "lfn"
      PROVE  Onward(u, i)
  <2>1. i # a /\ u[i] = t[i] /\ Onward(t, i)
    BY <1>1, <1>8 DEF Tidy, Unfinished
  <2>2. i + 1 \in Slots /\ i + 1 # a
    <3>1. i + 1 = a => a # 1 /\ i = a - 1
      BY <1>2 DEF Slots
    <3>2. QED
      BY <1>8, <2>1, <3>1 DEF Onward, StartsAt
  <2>3. u[i + 1] = t[i + 1]
    BY <2>2
  <2>4. QED
    BY <2>1, <2>2, <2>3 DEF Onward
<1>9. ASSUME NEW i \in Slots, NEW j \in Slots, u[i].kind = "sfn", u[j].kind = "sfn", u[i].obj = u[j].obj
      PROVE  i = j \/ Leaving(w, q, i) \/ Leaving(w, q, j)
  <2>1. u[i] = t[i] /\ u[j] = t[j]
    BY <1>1, <1>9
  <2>2. i = j \/ Leaving(v, "dir_remove", i) \/ Leaving(v, "dir_remove", j)
    BY <1>9, <2>1 DEF Tidy
  <2>3. QED
    BY <1>5, <1>9, <2>2
<1>10. QED
  BY <1>3, <1>7, <1>8, <1>9 DEF Tidy

\* At the end of a request, what it has written is that of an object.
LEMMA TidyKnown ==
  ASSUME NEW t, NEW u, NEW m, u.obj \notin DOMAIN m, Tidy(t, u, "sync_fs", m)
  PROVE  Neat(t, IF u.op = "unlink" THEN m ELSE Known(m, u.obj, u.new))
<1> DEFINE g == IF u.op = "unlink" THEN m ELSE Known(m, u.obj, u.new)
<1>1. /\ \A j : ~Leaving(u, "sync_fs", j)
      /\ \A i : ~Unfinished(u, "sync_fs", i)
  BY DEF Leaving, Unfinished
<1>2. ASSUME NEW j \in Slots, t[j].kind = "sfn"
      PROVE  Settled(t, j, g)
  <2>1. CASE Settled(t, j, m)
    <3>1. t[j].obj \in DOMAIN m /\ t[j].obj # u.obj
      BY <2>1 DEF Settled
    <3>2. t[j].obj \in DOMAIN g /\ g[t[j].obj] = m[t[j].obj]
      BY <3>1 DEF Known
    <3> HIDE DEF g
    <3>3. QED
      BY <2>1, <3>2 DEF Settled
  <2>2. CASE Coming(t, u, "sync_fs", j)
    <3>1. u.op # "unlink" /\ t[j].obj = u.obj /\ Wears(t, j, u.new)
      BY <2>2 DEF Coming
    <3>2. t[j].obj \in DOMAIN g /\ g[t[j].obj] = u.new
      BY <3>1 DEF Known
    <3> HIDE DEF g
    <3>3. QED
      BY <3>1, <3>2 DEF Settled
  <2>3. QED
    BY <1>1, <1>2, <2>1, <2>2 DEF Tidy
<1> HIDE DEF g
<1>3. Neat(t, g)
  BY <1>1, <1>2 DEF Tidy, Neat
<1>4. QED
  BY <1>3 DEF g

-----------------------------------------------------------------------------
(* The listing, while a request is on its way.                             *)

\* An access that does not fail, from a window in which nothing waits.
LEMMA MoveClean ==
  ASSUME NEW a, NEW b, NEW o \in Move(a, b), ~o.fault
  PROVE  o.ok /\ (~win.dirty => ~o.win.dirty)
<1>1. CASE win.sect = a /\ a = b
  BY <1>1 DEF Move, Outcome
<1>2. CASE ~(win.sect = a /\ a = b)
  <2> DEFINE d == Flushed(dev, win)
  <2>1. \/ o = Outcome(TRUE, FALSE, d, Loaded(d, b))
        \/ o = Outcome(FALSE, TRUE, d, NoWindow)
        \/ o \in FlushFails
    BY <1>2 DEF Move
  <2>2. CASE o = Outcome(TRUE, FALSE, d, Loaded(d, b))
    <3>1. Loaded(d, b).dirty = FALSE
      BY DEF Loaded, NoWindow
    <3>2. QED
      BY <2>2, <3>1 DEF Outcome
  <2>3. CASE o = Outcome(FALSE, TRUE, d, NoWindow)
    BY <2>3 DEF Outcome
  <2>4. CASE o \in FlushFails
    BY <2>4 DEF FlushFails, Outcome
  <2>5. QED
    BY <2>1, <2>2, <2>3, <2>4
<1>3. QED
  BY <1>1, <1>2

\* While nothing fails, no access does.
LEMMA CalmTake ==
  ASSUME IInv, Calm', NEW o, Take(o)
  PROVE  ~o.fault /\ faults' = faults /\ dev' = o.dev
<1>1. faults \in Nat /\ faults' = 0
  BY DirAssumption DEF IInv, Calm
<1>2. QED
  BY <1>1 DEF Take

\* Nothing had failed before.
LEMMA CalmBefore ==
  ASSUME IInv, [Next]_vars, Calm'
  PROVE  Calm
<1>1. faults \in Nat /\ crashes \in Nat /\ faults' = 0 /\ crashes' = 0
  BY DirAssumption DEF IInv, Calm
<1>2. CASE UNCHANGED vars
  BY <1>1, <1>2 DEF vars, Calm
<1>3. CASE PowerLoss
  BY <1>1, <1>3 DEF PowerLoss
<1>4. CASE Next /\ ~PowerLoss
  <2>1. crashes' = crashes
    BY <1>4 DEF Next, Step, fff_create, fff_unlink, fff_getattr, fff_rename, Request, fff_readdir, Quiet,
       find, find_new, dir_alloc, dir_next, dir_clear, dir_clear_write, put_lfn, put_sfn, dir_remove, sync_fs
  <2>2. faults' = faults \/ faults' = faults + 1
    BY <1>4 DEF Next, Step, fff_create, fff_unlink, fff_getattr, fff_rename, Request, fff_readdir, Take,
       find, find_new, dir_alloc, dir_next, dir_clear, dir_clear_write, put_lfn, put_sfn, dir_remove, sync_fs, PutEntry
  <2>3. QED
    BY <1>1, <2>1, <2>2 DEF Calm
<1>5. QED
  BY <1>2, <1>3, <1>4

\* An idle FatFs knows of no object.
LEMMA SoleIdle ==
  ASSUME NEW t, NEW m, NEW r
  PROVE  Sole(t, NoJob, "idle", m, r)
BY NoJobIs DEF Sole, Registering

\* What is known of the names while nothing has failed.
LEMMA CalmNames ==
  ASSUME IInv, NamesInv, Tidied
  PROVE  /\ MadeT(hist.made) /\ ~hist.torn /\ JobNames
         /\ pc \notin {"dir_clear", "dir_clear_write"} => Packed(Flat.ent, Flat.len)
         /\ pc \notin Changing => Neat(Flat.ent, hist.made)
BY TidyNeat DEF NamesInv, Ends, Tidied

\* A request goes on before it changes an entry.
LEMMA TidyGo ==
  ASSUME IInv, NamesInv, Tidied, Calm', NEW a, NEW b, NEW o \in Move(a, b), Sound(dev, win, o),
         Take(o), win' = o.win, Counted,
         pc \in {"idle", "find", "find_new", "dir_alloc", "dir_next"},
         pc' \notin Changing \cup {"dir_clear", "dir_clear_write"}, hist' = hist,
         Sole(Flat.ent, job', pc', hist.made, requests')
  PROVE  Tidied'
<1>1. Flat' = Flat
  BY MovedOK
<1>2. ~win'.dirty
  BY CalmTake, MoveClean DEF Tidied
<1>3. Neat(Flat.ent, hist.made)
  BY CalmNames DEF Changing
<1>4. Tidy(Flat'.ent, job', pc', hist'.made)
  BY <1>1, <1>3, TidyNeat
<1>5. \A ob \in DOMAIN hist.made : ob <= requests'
  <2>1. requests' = requests \/ requests' = requests + 1
    BY DEF Counted, Quiet
  <2>2. \A ob \in DOMAIN hist.made : ob \in Nat
    BY DEF IInv, HistT, Objects
  <2>3. requests \in Nat
    BY DirAssumption DEF IInv
  <2>4. QED
    BY <2>1, <2>2, <2>3 DEF Tidied
<1>6. QED
  BY <1>1, <1>2, <1>4, <1>5 DEF Tidied

\* A request that answers before it has changed an entry.
LEMMA TidySay ==
  ASSUME IInv, NamesInv, Tidied, Calm', NEW a, NEW b, NEW o \in Move(a, b), Sound(dev, win, o),
         Take(o), win' = o.win, Quiet,
         pc \in {"idle", "find", "find_new", "dir_alloc", "dir_next"}, NEW ret, Says(ret)
  PROVE  Tidied'
<1>1. pc' = "idle" /\ job' = NoJob /\ hist' = hist
  BY DEF Says, Answer
<1>2. Counted /\ pc' \notin Changing \cup {"dir_clear", "dir_clear_write"}
  BY <1>1 DEF Counted, Changing
<1>3. Sole(Flat.ent, job', pc', hist.made, requests')
  BY <1>1, SoleIdle
<1>4. QED
  BY <1>1, <1>2, <1>3, TidyGo

\* A request arrives; its object is a new one.
LEMMA TidyRequest ==
  ASSUME IInv, NamesInv, Tidied, Calm', NEW op \in Ops \ {"none"}, NEW n \in Names, NEW m \in Names,
         Request(op, n, m)
  PROVE  Tidied'
<1>1. /\ pc = "idle" /\ pc' = "find" /\ hist' = hist /\ dev' = dev /\ win' = win
      /\ requests' = requests + 1 /\ Flat' = Flat
  BY DEF Request, Flat
<1>2. job'.op = op /\ job'.obj = requests'
  <2>1. job' = [NoJob EXCEPT !.op = op, !.name = n, !.new = m, !.obj = requests']
    BY DEF Request
  <2>2. QED
    BY <2>1 DEF NoJob
<1>3. Tidy(Flat.ent, job', "find", hist.made)
  <2>1. Neat(Flat.ent, hist.made)
    BY <1>1, CalmNames DEF Changing
  <2>2. QED
    BY <2>1, TidyNeat DEF Changing
<1>4. /\ requests \in Nat
      /\ \A o \in DOMAIN hist.made : o \in Nat /\ o <= requests
  BY DirAssumption DEF IInv, HistT, Objects, Tidied
<1>5. Sole(Flat.ent, job', "find", hist.made, requests')
  <2>1. requests' \notin DOMAIN hist.made /\ requests' <= requests'
    BY <1>1, <1>4
  <2>2. QED
    BY <1>2, <2>1 DEF Sole, Registering
<1>6. \A o \in DOMAIN hist.made : o <= requests'
  BY <1>1, <1>4
<1>7. QED
  BY <1>1, <1>3, <1>5, <1>6 DEF Tidied

\* f_readdir changes nothing but the window.
LEMMA TidyReaddir ==
  ASSUME IInv, NamesInv, Tidied, Calm', fff_readdir
  PROVE  Tidied'
<1> DEFINE r == dir_find(Table, TableLen, ShortTarget(<<>>))
<1>1. /\ Window(dev, win) /\ pc = "idle" /\ Counted /\ hist' = hist
      /\ pc' = "idle" /\ job' = NoJob
  BY DEF IInv, fff_readdir, Counted
<1>2. EndOf(r) \in 0 .. MaxSectors /\ EndOf(r) <= Flat.len
  BY <1>1, SearchFacts
<1>3. PICK o \in Move(1, EndOf(r)) : Take(o) /\ win' = o.win
  BY DEF fff_readdir
<1> HIDE DEF r
<1>4. Sound(dev, win, o)
  BY <1>1, <1>2, MoveOK
<1>5. Sole(Flat.ent, job', pc', hist.made, requests')
  BY <1>1, SoleIdle
<1>6. QED
  BY <1>1, <1>3, <1>4, <1>5, TidyGo DEF Changing

\* dir_register has chosen the short name, or all are taken.
LEMMA TidyRegister ==
  ASSUME IInv, NamesInv, Tidied, Calm', NEW a, NEW b, NEW o \in Move(a, b), Sound(dev, win, o),
         Take(o), win' = o.win, Quiet, Register,
         pc = "find_new" \/ (pc = "find" /\ job.op = "create")
  PROVE  Tidied'
<1>1. job \in JobT /\ job.new \in Names
  BY DEF IInv, JobOK
<1>2. CASE ShortName(job.new) = <<>>
  BY <1>2, TidySay DEF Register
<1>3. CASE ShortName(job.new) # <<>>
  <2> DEFINE s == ShortName(job.new)
             j == WithSfn(job, s, 1)
  <2>1. job' = j /\ pc' = "dir_alloc" /\ hist' = hist
    BY <1>3 DEF Register, WithSfn, GoOn
  <2>2. s \in ShortNames /\ 1 \in 0 .. MaxSectors * PerSector + 1
    BY <1>1, <1>3, ShortNameIs, TableBound, DirAssumption
  <2> HIDE DEF s
  <2>3. j.op = job.op /\ j.obj = job.obj /\ j.blk = job.blk
    BY <1>1, <2>2, JobSfn
  <2> HIDE DEF j
  <2>4. Sole(Flat.ent, j, "dir_alloc", hist.made, requests')
    <3>1. Sole(Flat.ent, job, pc, hist.made, requests) /\ requests' = requests
      BY DEF Tidied, Quiet
    <3>2. QED
      BY <2>3, <3>1 DEF Sole, Registering
  <2>5. QED
    BY <2>1, <2>4, TidyGo DEF Counted, Changing
<1>4. QED
  BY <1>2, <1>3

\* dir_find on the path of the request.
LEMMA TidyFind ==
  ASSUME IInv, NamesInv, Tidied, Calm', find
  PROVE  Tidied'
<1> DEFINE r == dir_find(Table, TableLen, Target(job.name))
           obj == Table[r.slot].obj
           blk == RemovesFrom(r)
           j == WithFound(job, obj, r.slot, blk)
           t == Flat.ent
<1>1. Window(dev, win) /\ HistT(hist) /\ pc = "find" /\ Quiet
  BY DEF IInv, find
<1>2. /\ job \in JobT /\ job.name \in Names /\ job.op \in Ops \ {"none"}
  BY <1>1 DEF IInv, JobOK, JobT
<1>3. /\ EndOf(r) \in 0 .. MaxSectors /\ EndOf(r) <= Flat.len
      /\ r.slot # 0 => /\ r.slot \in Slots /\ blk \in 1 .. r.slot /\ obj \in Objects
                       /\ t[r.slot].kind = "sfn" /\ t[r.slot].obj = obj
  <2>1. /\ EndOf(r) \in 0 .. MaxSectors /\ EndOf(r) <= Flat.len
        /\ r.slot # 0 => /\ r.slot \in Slots /\ blk \in 1 .. r.slot /\ obj \in Objects
                         /\ Flat.ent[r.slot] = Table[r.slot] /\ Table[r.slot].kind = "sfn"
    BY <1>1, SearchFacts
  <2> HIDE DEF r, blk
  <2>2. QED
    BY <2>1
<1>4. PICK o \in Move(1, EndOf(r)) :
        /\ Take(o) /\ win' = o.win
        /\ IF ~o.ok THEN Fails
           ELSE IF job.op = "create"
             THEN IF r.slot = 0 THEN Register ELSE Says("FR_OK")
           ELSE IF r.slot = 0 THEN Says("FR_NO_FILE")
           ELSE CASE job.op = "getattr" -> Says("FR_OK")
                  [] job.op = "rename" -> GoOn(j, "find_new")
                  [] job.op = "unlink" ->
                       /\ job' = [j EXCEPT !.at = j.blk] /\ pc' = "dir_remove"
                       /\ hist' = [hist EXCEPT !.made = Forgotten(@, obj),
                                               !.alive = @ \ {obj}]
                       /\ UNCHANGED reply
  BY DEF find, WithFound
<1>5. /\ Packed(Flat.ent, Flat.len) /\ Neat(t, hist.made) /\ MadeT(hist.made) /\ ~hist.torn
  BY <1>1, CalmNames DEF Changing
<1>6. r.slot # 0 => StartsAt(t, blk)
  BY <1>1, <1>2, <1>5, StartsAtFound
<1> HIDE DEF r, blk, obj, t
<1>7. Sound(dev, win, o) /\ Counted /\ o.ok
  BY <1>1, <1>3, <1>4, MoveOK, CalmTake, MoveClean DEF Counted
<1>8. r.slot # 0 => /\ j \in JobT /\ j.obj = obj /\ j.old = r.slot /\ j.blk = blk /\ j.op = job.op
  <2>1. r.slot # 0 => blk \in Slots
    BY <1>3, DirAssumption DEF Slots
  <2>2. QED
    BY <1>2, <1>3, <2>1, JobFound
<1>9. r.slot # 0 => obj \in DOMAIN hist.made /\ obj <= requests
  <2>1. r.slot # 0 => obj \in DOMAIN hist.made
    BY <1>3, <1>5 DEF Neat, Settled
  <2>2. QED
    BY <2>1 DEF Tidied
<1>10. requests' = requests
  BY <1>1 DEF Quiet
<1> HIDE DEF j
<1>11. CASE job.op = "create" /\ r.slot = 0
  BY <1>1, <1>4, <1>7, <1>11, TidyRegister
<1>12. CASE \/ job.op = "create" /\ r.slot # 0
            \/ job.op # "create" /\ r.slot = 0
            \/ job.op = "getattr" /\ r.slot # 0
  BY <1>1, <1>4, <1>7, <1>12, TidySay
<1>13. CASE job.op = "rename" /\ r.slot # 0
  <2>1. job' = j /\ pc' = "find_new" /\ hist' = hist
    BY <1>4, <1>7, <1>13 DEF GoOn
  <2>2. Sole(t, j, "find_new", hist.made, requests')
    BY <1>6, <1>8, <1>9, <1>10, <1>13 DEF Sole
  <2>3. QED
    BY <1>1, <1>4, <1>7, <2>1, <2>2, TidyGo DEF t, Changing
<1>14. CASE job.op = "unlink" /\ r.slot # 0
  <2> DEFINE u == [j EXCEPT !.at = blk]
  <2>1. /\ job' = [j EXCEPT !.at = j.blk] /\ pc' = "dir_remove"
        /\ hist' = [hist EXCEPT !.made = Forgotten(@, obj), !.alive = @ \ {obj}]
    BY <1>4, <1>7, <1>14
  <2>2. job' = u
    BY <1>8, <1>14, <2>1
  <2>3. u.at = blk /\ u.op = "unlink" /\ u.obj = obj /\ u.old = r.slot
    <3>1. blk \in 0 .. MaxSectors * PerSector + 1
      BY <1>3, <1>14, DirAssumption DEF Slots
    <3>2. QED
      BY <1>8, <1>14, <3>1, JobAt
  <2> HIDE DEF u
  <2>4. /\ hist'.made = Forgotten(hist.made, obj)
        /\ hist'.littered = hist.littered /\ hist'.torn = hist.torn
    BY <1>1, <2>1 DEF HistT
  <2>5. Tidy(t, u, "dir_remove", Forgotten(hist.made, obj))
    <3>1. "dir_remove" \in Changing \ {"sync_fs"}
      BY DEF Changing
    <3>2. Tidy(t, u, "dir_remove", Forgotten(hist.made, u.obj))
      BY <1>3, <1>5, <1>14, <2>3, <3>1, Leaves
    <3>3. QED
      BY <2>3, <3>2
  <2>6. Sole(t, u, "dir_remove", hist'.made, requests')
    BY <1>6, <1>9, <1>10, <1>14, <2>3 DEF Sole, Registering
  <2>7. Flat' = Flat
    BY <1>4, <1>7, MovedOK
  <2>8. \A ob \in DOMAIN hist'.made : ob <= requests'
    BY <1>10, <2>4 DEF Forgotten, Tidied
  <2>9. QED
    BY <2>1, <2>2, <2>4, <2>5, <2>6, <2>7, <2>8 DEF Tidied, t
<1>15. QED
  BY <1>2, <1>11, <1>12, <1>13, <1>14 DEF Ops

\* f_rename looks for the new name.
LEMMA TidyFindNew ==
  ASSUME IInv, NamesInv, Tidied, Calm', find_new
  PROVE  Tidied'
<1> DEFINE r == dir_find(Table, TableLen, Target(job.new))
<1>1. Window(dev, win) /\ pc = "find_new" /\ Quiet
  BY DEF IInv, find_new
<1>2. EndOf(r) \in 0 .. MaxSectors /\ EndOf(r) <= Flat.len
  BY <1>1, SearchFacts
<1>3. PICK o \in Move(1, EndOf(r)) :
        /\ Take(o) /\ win' = o.win
        /\ IF ~o.ok THEN Fails
           ELSE IF r.slot \notin {0, job.old} THEN Says("FR_EXIST")
           ELSE Register
  BY DEF find_new
<1> HIDE DEF r
<1>4. Sound(dev, win, o) /\ o.ok
  BY <1>1, <1>2, <1>3, MoveOK, CalmTake, MoveClean
<1>5. CASE r.slot \notin {0, job.old}
  BY <1>1, <1>3, <1>4, <1>5, TidySay
<1>6. CASE r.slot \in {0, job.old}
  BY <1>1, <1>3, <1>4, <1>6, TidyRegister
<1>7. QED
  BY <1>5, <1>6

\* The table has entries, and they are linked.
LEMMA TableRoom ==
  ASSUME Window(dev, win)
  PROVE  /\ TableLen \in 1 .. MaxSectors * PerSector /\ MaxSectors * PerSector \in Nat
         /\ \A i \in Slots : i <= TableLen => SectorOf(i) <= Flat.len
<1>1. Flat.len \in 1 .. MaxSectors /\ Linked = Flat.len /\ TableLen \in 0 .. MaxSectors * PerSector
  BY TableFacts DEF DevT
<1>2. Flat.len * PerSector >= 1
  <2>1. \A a, b \in Nat \ {0} : a * b >= 1
    OBVIOUS
  <2>2. QED
    BY <1>1, <2>1, DirAssumption
<1>3. QED
  BY <1>1, <1>2, TableFacts, DirAssumption DEF TableLen

\* dir_alloc has found the entries for the new name, or the table is to grow.
LEMMA TidyAlloc ==
  ASSUME IInv, NamesInv, Tidied, Calm', dir_alloc
  PROVE  Tidied'
<1> DEFINE need == LfnCount(job.new) + 1
           runs == FreeRuns(Table, TableLen, need)
           last == IF runs = {} THEN TableLen ELSE Least(runs)
           at == last - need + 1
           j == WithLeft(job, at, need - 1)
           b == SectorOf(last)
<1>1. Window(dev, win) /\ HistT(hist) /\ pc = "dir_alloc" /\ Quiet /\ requests' = requests
  BY DEF IInv, dir_alloc, Quiet
<1>2. /\ job \in JobT /\ job.new \in Names
      /\ job.op = "create" \/ (job.op = "rename" /\ Found(Flat, job))
  BY <1>1 DEF IInv, JobOK, Registering
<1>3. PICK o \in Move(job.at, b) :
        /\ Take(o) /\ win' = o.win
        /\ IF ~o.ok THEN Fails
           ELSE IF runs = {} THEN GoOn(job, "dir_next")
           ELSE /\ job' = j
                /\ pc' = IF need > 1 THEN "put_lfn" ELSE "put_sfn"
                /\ hist' = [hist EXCEPT !.made = Forgotten(@, job.obj)]
                /\ UNCHANGED reply
  BY DEF dir_alloc, WithLeft
<1>4. Sound(dev, win, o)
  <2>1. need \in Nat \ {0}
    BY <1>2, LfnCountIs
  <2>2. /\ TableLen \in 1 .. MaxSectors * PerSector /\ MaxSectors * PerSector \in Nat
        /\ \A i \in Slots : i <= TableLen => SectorOf(i) <= Flat.len
    BY <1>1, TableRoom
  <2>3. runs # {} => Least(runs) \in need .. TableLen
    <3>1. TableLen \in 0 .. MaxSectors * PerSector
      BY <2>2
    <3>2. QED
      BY <2>1, <3>1, FreeRunIs
  <2> HIDE DEF need, runs
  <2>4. last \in Slots /\ last <= TableLen
    BY <2>1, <2>2, <2>3 DEF Slots
  <2> HIDE DEF last
  <2>5. b \in 0 .. MaxSectors /\ b <= Flat.len
    BY <2>2, <2>4, SlotFacts
  <2>6. QED
    BY <1>1, <1>3, <2>5, MoveOK
<1> HIDE DEF b
<1>5. o.ok /\ Flat' = Flat
  BY <1>1, <1>3, <1>4, CalmTake, MoveClean, MovedOK DEF Counted
<1>6. Sole(Flat.ent, job, pc, hist.made, requests)
  BY DEF Tidied
<1>7. CASE runs = {}
  <2>1. job' = job /\ pc' = "dir_next" /\ hist' = hist
    BY <1>3, <1>5, <1>7 DEF GoOn
  <2>2. Sole(Flat.ent, job', pc', hist.made, requests')
    BY <1>1, <1>6, <2>1 DEF Sole, Registering
  <2>3. QED
    BY <1>1, <1>3, <1>4, <2>1, <2>2, TidyGo DEF Counted, Changing
<1>8. CASE runs # {}
  <2>1. /\ job' = j /\ pc' \in {"put_lfn", "put_sfn"}
        /\ hist' = [hist EXCEPT !.made = Forgotten(@, job.obj)]
    BY <1>3, <1>5, <1>8
  <2>2. /\ j.op = job.op /\ j.obj = job.obj /\ j.old = job.old /\ j.blk = job.blk
    BY <1>2 DEF WithLeft, JobT
  <2>3. /\ hist'.made = Forgotten(hist.made, job.obj)
        /\ hist'.littered = hist.littered /\ hist'.torn = hist.torn
    BY <1>1, <2>1 DEF HistT
  <2> HIDE DEF j
  <2>4. Tidy(Flat.ent, j, pc', Forgotten(hist.made, job.obj))
    <3>1. Neat(Flat.ent, hist.made)
      BY <1>1, CalmNames DEF Changing
    <3>2. pc' \in Changing \ {"sync_fs"}
      BY <2>1 DEF Changing
    <3>3. \/ j.obj \notin DOMAIN hist.made
          \/ j.op # "create" /\ j.old \in Slots /\ Flat.ent[j.old].kind = "sfn" /\ Flat.ent[j.old].obj = j.obj
      BY <1>2, <1>6, <2>2 DEF Sole, Found, Holds
    <3>4. Tidy(Flat.ent, j, pc', Forgotten(hist.made, j.obj))
      BY <3>1, <3>2, <3>3, Leaves
    <3>5. QED
      BY <2>2, <3>4
  <2>5. Sole(Flat.ent, j, pc', hist'.made, requests')
    BY <1>1, <1>6, <2>1, <2>2, <2>3 DEF Sole, Registering, Forgotten
  <2>6. \A ob \in DOMAIN hist'.made : ob <= requests'
    BY <1>1, <2>3 DEF Forgotten, Tidied
  <2>7. pc' \notin {"idle", "find", "find_new", "dir_alloc", "dir_next", "dir_clear_write"}
    BY <2>1
  <2>8. QED
    BY <1>5, <2>1, <2>3, <2>4, <2>5, <2>6, <2>7 DEF Tidied
<1>9. QED
  BY <1>7, <1>8

\* A request goes on while the table grows.
LEMMA TidyKeep ==
  ASSUME IInv, NamesInv, Tidied, hist' = hist, requests' = requests,
         pc \in {"dir_next", "dir_clear", "dir_clear_write"},
         pc' \in {"dir_alloc", "dir_clear", "dir_clear_write"},
         job'.op = job.op, job'.obj = job.obj, job'.blk = job.blk,
         pc' # "dir_clear" => ~win'.dirty,
         \A x \in Slots : Flat.ent[x].kind \in {"sfn", "lfn"} \/ Flat'.ent[x].kind \in {"sfn", "lfn"} =>
           Flat.ent[x] = Flat'.ent[x]
  PROVE  Tidied'
<1>1. pc \notin Changing /\ pc' \notin Changing
  BY DEF Changing
<1>2. MadeT(hist.made) /\ Neat(Flat.ent, hist.made)
  BY <1>1, CalmNames
<1>3. /\ Neat(Flat'.ent, hist.made)
      /\ \A i \in Slots : StartsAt(Flat.ent, i) => StartsAt(Flat'.ent, i)
  BY <1>2, TidySame
<1>4. Tidy(Flat'.ent, job', pc', hist.made)
  BY <1>1, <1>3, TidyNeat
<1>5. Sole(Flat'.ent, job', pc', hist.made, requests)
  <2>1. Sole(Flat.ent, job, pc, hist.made, requests)
    BY DEF Tidied
  <2>2. job.op = "rename" => job.blk \in Slots /\ StartsAt(Flat.ent, job.blk)
    <3>1. job.op = "rename" => Found(Flat, job)
      BY DEF IInv, JobOK, Registering
    <3>2. QED
      BY <2>1, <3>1, DirAssumption DEF Sole, Registering, Found, Slots
  <2>3. QED
    BY <1>3, <2>1, <2>2 DEF Sole, Registering
<1>6. QED
  BY <1>4, <1>5 DEF Tidied

\* dir_next links a cluster in the window, or the volume is full.
LEMMA TidyNext ==
  ASSUME IInv, IInv', NamesInv, Tidied, Calm', dir_next
  PROVE  Tidied'
<1>1. Window(dev, win) /\ pc = "dir_next" /\ Quiet
  BY DEF IInv, dir_next
<1>2. PICK o \in Move(FatSector, FatSector) :
        /\ Take(o)
        /\ IF ~o.ok THEN Fails /\ win' = o.win
           ELSE IF Full THEN Says("FR_DENIED") /\ win' = o.win
           ELSE GoOn(job, "dir_clear")
  BY DEF dir_next
<1>3. Sound(dev, win, o) /\ o.ok
  <2>1. FatSector \in 0 .. MaxSectors /\ FatSector <= Flat.len
    BY <1>1, TableFacts, DirAssumption DEF DevT, FatSector
  <2>2. QED
    BY <1>1, <1>2, <2>1, MoveOK, CalmTake, MoveClean
<1>4. CASE Full
  BY <1>1, <1>2, <1>3, <1>4, TidySay
<1>5. CASE ~Full
  <2>1. job' = job /\ pc' = "dir_clear" /\ hist' = hist /\ requests' = requests
    BY <1>1, <1>2, <1>3, <1>5 DEF GoOn, Quiet
  <2>2. \A x \in Slots : Flat'.ent[x] = Flat.ent[x]
    BY <2>1, LinkedSame
  <2>3. QED
    BY <1>1, <2>1, <2>2, TidyKeep
<1>6. QED
  BY <1>4, <1>5

\* dir_clear writes the link.
LEMMA TidyClear ==
  ASSUME IInv, NamesInv, Tidied, Calm', dir_clear
  PROVE  Tidied'
<1>1. Window(dev, win) /\ pc = "dir_clear" /\ Quiet
  BY DEF IInv, dir_clear
<1>2. PICK o \in {Synced} \cup FlushFails :
        Take(o) /\ win' = o.win /\ IF o.ok THEN GoOn(job, "dir_clear_write") ELSE Fails
  BY DEF dir_clear, Synced
<1>3. Sound(dev, win, o) /\ (o.ok => ~o.win.dirty) /\ ~o.fault
  BY <1>1, <1>2, SyncMoves, CalmTake
<1>4. o.ok
  BY <1>3 DEF Synced, FlushFails, Outcome
<1>5. job' = job /\ pc' = "dir_clear_write" /\ hist' = hist /\ requests' = requests
  BY <1>1, <1>2, <1>4 DEF GoOn, Quiet
<1>6. Flat' = Flat
  BY <1>1, <1>2, <1>3, MovedOK DEF Counted
<1>7. QED
  BY <1>1, <1>2, <1>3, <1>4, <1>5, <1>6, TidyKeep

\* dir_clear clears the new cluster.
LEMMA TidyClearWrite ==
  ASSUME IInv, NamesInv, Tidied, Calm', dir_clear_write
  PROVE  Tidied'
<1>1. /\ Flat = dev /\ dev \in DevT
      /\ \A i \in Slots : SectorOf(i) = dev.len => dev.ent[i] = Junk
      /\ \A i \in Slots : Cleared.ent[i] = IF SectorOf(i) = dev.len THEN End ELSE dev.ent[i]
      /\ Flat' = dev'
  BY ClearedFacts
<1>2. pc = "dir_clear_write" /\ job \in JobT /\ Quiet /\ faults \in Nat /\ faults' = 0
  BY DirAssumption DEF IInv, dir_clear_write, JobOK, Calm
<1>3. /\ dev' = Cleared /\ GoOn([job EXCEPT !.at = Linked], "dir_alloc")
      /\ win' = [NoWindow EXCEPT !.sect = Linked]
  BY <1>2 DEF dir_clear_write
<1>4. ~win'.dirty
  BY <1>3 DEF NoWindow
<1>5. /\ job' = [job EXCEPT !.at = Linked] /\ pc' = "dir_alloc" /\ hist' = hist /\ requests' = requests
  BY <1>2, <1>3 DEF GoOn, Quiet
<1>6. job'.op = job.op /\ job'.obj = job.obj /\ job'.blk = job.blk
  BY <1>2, <1>5 DEF JobT
<1>7. \A x \in Slots : Flat.ent[x].kind \in {"sfn", "lfn"} \/ Flat'.ent[x].kind \in {"sfn", "lfn"} =>
        Flat.ent[x] = Flat'.ent[x]
  BY <1>1, <1>3, EntryFacts
<1>8. QED
  BY <1>2, <1>4, <1>5, <1>6, <1>7, TidyKeep

\* An entry is changed in the window, and no access fails.
LEMMA CalmPut ==
  ASSUME IInv, Tidied, Calm', pc \in {"put_lfn", "put_sfn", "dir_remove"},
         NEW walks, NEW e \in Entry, NEW j, NEW next,
         PutEntry(walks, e, j, next), job.at \in Slots, SectorOf(job.at) <= Flat.len
  PROVE  Only(Flat.ent, Flat'.ent, job.at, e) /\ job' = j /\ pc' = next /\ hist' = hist
<1> DEFINE b == SectorOf(job.at)
<1>1. b \in 1 .. MaxSectors /\ b \in 0 .. MaxSectors /\ b # FatSector /\ b <= Flat.len
  BY SlotFacts, DirAssumption DEF FatSector
<1>2. PICK o \in Seek(job.at, walks) :
        /\ Take(o)
        /\ IF o.ok THEN win' = Write(o.win, job.at, e) /\ GoOn(j, next)
                   ELSE win' = o.win /\ Fails
  BY DEF PutEntry
<1>3. o \in Move(b, b) \/ o \in Move(FatSector, b)
  BY <1>2 DEF Seek
<1>4. Window(dev, win)
  BY DEF IInv
<1> HIDE DEF b
<1>5. Sound(dev, win, o) /\ (o.ok => o.win.sect = b) /\ o.ok
  BY <1>1, <1>2, <1>3, <1>4, MoveOK, CalmTake, MoveClean
<1>6. /\ Window(o.dev, o.win) /\ Flushed(o.dev, o.win) = Flat
      /\ o.win.sect = SectorOf(job.at)
  BY <1>5 DEF Sound, Flat, b
<1>7. /\ win' = Write(o.win, job.at, e) /\ dev' = o.dev
      /\ job' = j /\ pc' = next /\ hist' = hist
  BY <1>2, <1>5 DEF Take, GoOn
<1>8. /\ Window(dev', win')
      /\ Put(Flat, Flushed(dev', win'), job.at, e)
  BY <1>6, <1>7, WriteOK
<1>9. Put(Flat, Flat', job.at, e) /\ Untouched(Flat')
  BY <1>8, FlushedFacts DEF Flat
<1>10. Only(Flat.ent, Flat'.ent, job.at, e)
  BY <1>9, PutOnly DEF Tidied
<1>11. QED
  BY <1>7, <1>10

-----------------------------------------------------------------------------
(* The listing, while entries are written and at the end of a request.     *)

\* The first entry of the object a request has found.
LEMMA FoundFirst ==
  ASSUME NEW d, NEW j, Found(d, j)
  PROVE  j.blk \in Slots /\ d.ent[j.blk].kind \in {"sfn", "lfn"}
<1>1. j.old \in Slots /\ j.blk \in 1 .. j.old /\ d.ent[j.old].kind = "sfn"
  BY DEF Found, Holds
<1>2. j.blk \in Slots /\ j.old \in Nat /\ j.blk \in Nat
  BY <1>1, DirAssumption DEF Slots
<1>3. CASE j.blk = j.old
  BY <1>1, <1>3
<1>4. CASE j.blk # j.old
  <2>1. j.blk <= j.blk /\ j.blk < j.old
    BY <1>1, <1>2, <1>4
  <2>2. QED
    BY <1>2, <2>1 DEF Found
<1>5. QED
  BY <1>2, <1>3, <1>4

\* dir_register writes an LFN entry.
LEMMA TidyPutLfn ==
  ASSUME IInv, NamesInv, Tidied, Calm', put_lfn
  PROVE  Tidied'
<1> DEFINE e == Lfn(job.new, job.left, Checksum[job.sfn])
           j == WithLeft(job, job.at + 1, job.left - 1)
           next == IF job.left > 1 THEN "put_lfn" ELSE "put_sfn"
           a == job.at
           t == Flat.ent
           u == Flat'.ent
<1>1. /\ pc = "put_lfn" /\ Quiet
      /\ PutEntry(job.left = LfnCount(job.new), e, j, next)
  BY DEF put_lfn, WithLeft
<1>2. /\ job \in JobT /\ job.new \in Names /\ job.sfn \in ShortNames
      /\ job.op = "create" \/ (job.op = "rename" /\ Found(Flat, job))
      /\ Room(Flat, job) /\ job.left \in 1 .. LfnCount(job.new)
  BY <1>1 DEF IInv, JobOK, Registering
<1>3. /\ a \in Slots /\ SectorOf(a) <= Flat.len
      /\ t[a].kind \notin {"sfn", "lfn"}
  BY <1>2, RoomFacts
<1>4. LfnCount(job.new) \in Nat /\ job.left \in DOMAIN Parts[job.new]
  BY <1>2, LfnCountIs
<1>5. e \in Entry
  BY <1>2, <1>4, EntryFacts
<1>6. /\ MaxSectors * PerSector \in Nat /\ a \in Nat \ {0} /\ job.left \in Nat \ {0}
      /\ a + 1 \in 0 .. MaxSectors * PerSector + 1 /\ job.left - 1 \in Nat
  BY <1>2, <1>3, <1>4, DirAssumption DEF Slots
<1>7. /\ j.at = a + 1 /\ j.left = job.left - 1
      /\ j.op = job.op /\ j.new = job.new /\ j.obj = job.obj
      /\ j.old = job.old /\ j.blk = job.blk
  BY <1>2, <1>6, JobLeft
<1>8. a + 1 \in Slots /\ t[a + 1].kind \notin {"sfn", "lfn"}
  <2>1. a + job.left \in Slots
    BY <1>2 DEF Room
  <2>2. a + 1 \in Slots /\ a <= a + 1 /\ a + 1 <= a + job.left
    BY <1>6, <2>1 DEF Slots
  <2>3. QED
    BY <1>2, <2>2 DEF Room
<1> HIDE DEF e, j
<1>9. Only(t, u, a, e) /\ job' = j /\ pc' = next /\ hist' = hist
  BY <1>1, <1>3, <1>5, CalmPut
<1>10. next \in {"put_lfn", "put_sfn"}
  OBVIOUS
<1>11. /\ \A x \in Slots : x # a => u[x] = t[x]
       /\ u[a] = Lfn(job.new, job.left, Checksum[job.sfn])
  BY <1>9 DEF Only, e
<1> HIDE DEF t, u, a, next
<1>12. MadeT(hist.made) /\ Tidy(t, job, "put_lfn", hist.made)
  BY <1>1, CalmNames DEF Tidied, t
<1>13. /\ Tidy(u, j, next, hist.made)
       /\ \A i \in Slots : t[i].kind \in {"sfn", "lfn"} /\ StartsAt(t, i) => StartsAt(u, i)
  <2>1. job.at = a
    BY DEF a
  <2>2. QED
    BY <1>2, <1>3, <1>7, <1>8, <1>10, <1>11, <1>12, <2>1, TidyLfn
<1>14. Sole(u, j, next, hist.made, requests)
  <2>1. Sole(t, job, pc, hist.made, requests)
    BY DEF Tidied, t
  <2>2. job.op = "rename" => StartsAt(u, job.blk)
    BY <1>1, <1>2, <1>13, <2>1, FoundFirst DEF Sole, Registering, t
  <2>3. QED
    BY <1>1, <1>7, <1>10, <2>1, <2>2 DEF Sole
<1>15. requests' = requests
  BY <1>1 DEF Quiet
<1>16. QED
  BY <1>9, <1>10, <1>13, <1>14, <1>15 DEF Tidied, u

\* dir_register writes the SFN entry.
LEMMA TidyPutSfn ==
  ASSUME IInv, NamesInv, Tidied, Calm', put_sfn
  PROVE  Tidied'
<1> DEFINE e == NewEntry(job)
           j == [job EXCEPT !.at = job.blk]
           next == IF job.op = "create" THEN "sync_fs" ELSE "dir_remove"
           a == job.at
           t == Flat.ent
           u == Flat'.ent
<1>1. pc = "put_sfn" /\ Quiet /\ PutEntry(FALSE, e, j, next)
  BY DEF put_sfn
<1>2. /\ job \in JobT /\ job.new \in Names /\ job.obj \in Objects /\ job.sfn \in ShortNames
      /\ job.op = "create" \/ (job.op = "rename" /\ Found(Flat, job))
      /\ Room(Flat, job) /\ job.left = 0
  BY <1>1 DEF IInv, JobOK, Registering
<1>3. /\ a \in Slots /\ SectorOf(a) <= Flat.len
      /\ t[a].kind \notin {"sfn", "lfn"}
  BY <1>2, RoomFacts
<1>4. e \in Entry
  BY <1>2, EntryFacts DEF NewEntry, Sfn
<1>5. /\ j.at = job.blk
      /\ j.op = job.op /\ j.new = job.new /\ j.obj = job.obj
      /\ j.old = job.old /\ j.blk = job.blk
  <2>1. job.blk \in 0 .. MaxSectors * PerSector + 1
    <3>1. job.blk \in Slots \cup {0} /\ MaxSectors * PerSector \in Nat
      BY <1>2, DirAssumption DEF JobT
    <3>2. QED
      BY <3>1 DEF Slots
  <2>2. QED
    BY <1>2, <2>1, JobAt
<1> HIDE DEF e, j
<1>6. Only(t, u, a, e) /\ job' = j /\ pc' = next /\ hist' = hist
  BY <1>1, <1>3, <1>4, CalmPut
<1>7. u[a] = NewEntry(job) /\ \A x \in Slots : x # a => u[x] = t[x]
  BY <1>6 DEF Only, e
<1>8. /\ MadeT(hist.made) /\ Tidy(t, job, "put_sfn", hist.made)
      /\ Written(t, job) /\ Chosen(t, job) /\ job.obj \notin DOMAIN hist.made
  <2>1. JobNames /\ MadeT(hist.made) /\ Tidy(t, job, pc, hist.made)
    BY CalmNames DEF Tidied
  <2>2. QED
    BY <1>1, <2>1 DEF JobNames, Registering
<1>9. next = IF job.op = "create" THEN "sync_fs" ELSE "dir_remove"
  OBVIOUS
<1> HIDE DEF t, u, a, next
<1>10. /\ Tidy(u, j, next, hist.made)
       /\ \A i \in Slots : t[i].kind \in {"sfn", "lfn"} /\ StartsAt(t, i) => StartsAt(u, i)
  <2>1. job.at = a /\ job.op \in {"create", "rename"}
    BY <1>2 DEF a
  <2>2. QED
    BY <1>2, <1>3, <1>5, <1>7, <1>8, <1>9, <2>1, TidySfn
<1>11. Sole(u, j, next, hist.made, requests)
  <2>1. Sole(t, job, pc, hist.made, requests)
    BY DEF Tidied, t
  <2>2. job.op = "rename" => StartsAt(u, job.blk)
    BY <1>1, <1>2, <1>10, <2>1, FoundFirst DEF Sole, Registering, t
  <2>3. next = "dir_remove" => job.op = "rename"
    BY <1>2, <1>9
  <2>4. QED
    BY <1>1, <1>5, <1>9, <2>1, <2>2, <2>3 DEF Sole, Registering
<1>12. requests' = requests
  BY <1>1 DEF Quiet
<1>13. pc' \in {"sync_fs", "dir_remove"}
  BY <1>6, <1>9
<1>14. QED
  BY <1>6, <1>10, <1>11, <1>12, <1>13 DEF Tidied, u

\* dir_remove takes an entry of the object.
LEMMA TidyRemove ==
  ASSUME IInv, NamesInv, Tidied, Calm', dir_remove
  PROVE  Tidied'
<1> DEFINE walks == job.at = job.blk /\ job.blk < job.old
           j == [job EXCEPT !.at = @ + 1]
           next == IF job.at < job.old THEN "dir_remove" ELSE "sync_fs"
           a == job.at
           old == job.old
           t == Flat.ent
           u == Flat'.ent
<1>1. pc = "dir_remove" /\ Quiet /\ PutEntry(walks, Deleted, j, next)
  BY DEF dir_remove
<1>2. job \in JobT /\ job.new \in Names /\ Removing(Flat, job, hist.alive)
  BY <1>1 DEF IInv, JobOK
<1>3. /\ old \in Slots /\ job.blk \in 1 .. old /\ a \in job.blk .. old
      /\ SectorOf(old) <= Flat.len /\ t[old].kind = "sfn"
      /\ job.op \in {"unlink", "rename"}
  BY <1>2 DEF Removing, Holds
<1>4. /\ MaxSectors * PerSector \in Nat /\ old \in Nat \ {0} /\ old <= MaxSectors * PerSector
      /\ a \in Slots /\ a \in Nat \ {0} /\ a <= old
  BY <1>3, DirAssumption DEF Slots
<1>5. SectorOf(a) <= Flat.len
  <2>1. SectorOf(a) \in Nat /\ SectorOf(old) \in Nat /\ Flat.len \in Nat /\ SectorOf(a) <= SectorOf(old)
    BY <1>3, <1>4, SlotFacts, SectorOrder, TableFacts DEF IInv, DevT
  <2>2. QED
    BY <1>3, <2>1
<1>6. /\ j.at = a + 1
      /\ j.op = job.op /\ j.new = job.new /\ j.obj = job.obj
      /\ j.old = old /\ j.blk = job.blk
  BY <1>2, <1>4, JobAt DEF Slots
<1>7. Deleted \in Entry
  BY EntryFacts
<1> HIDE DEF walks, j
<1>8. Only(t, u, a, Deleted) /\ job' = j /\ pc' = next /\ hist' = hist
  BY <1>1, <1>4, <1>5, <1>7, CalmPut
<1>9. u[a] = Deleted /\ \A x \in Slots : x # a => u[x] = t[x]
  BY <1>8 DEF Only
<1>10. /\ MadeT(hist.made) /\ Tidy(t, job, "dir_remove", hist.made)
       /\ \A i \in Slots : a <= i /\ i < old => t[i].kind = "lfn"
       /\ Sole(t, job, "dir_remove", hist.made, requests)
  <2>1. JobNames /\ MadeT(hist.made) /\ Tidy(t, job, pc, hist.made) /\ Sole(t, job, pc, hist.made, requests)
    BY CalmNames DEF Tidied
  <2>2. QED
    BY <1>1, <2>1 DEF JobNames
<1>11. next = (IF a < old THEN "dir_remove" ELSE "sync_fs") /\ job.at = a /\ job.old = old
  OBVIOUS
<1> HIDE DEF t, u, a, old, next
<1>12. StartsAt(t, a)
  BY <1>10, <1>11 DEF Sole
<1>13. Tidy(u, j, next, hist.made) /\ StartsAt(u, j.at)
  <2>1. job.op # "create"
    BY <1>3
  <2>2. QED
    BY <1>2, <1>3, <1>4, <1>6, <1>9, <1>10, <1>11, <1>12, <2>1, TidyRemoved
<1>14. Sole(u, j, next, hist.made, requests)
  BY <1>3, <1>6, <1>10, <1>11, <1>13 DEF Sole, Registering
<1>15. requests' = requests
  BY <1>1 DEF Quiet
<1>16. pc' \in {"sync_fs", "dir_remove"}
  BY <1>8, <1>11
<1>17. QED
  BY <1>8, <1>13, <1>14, <1>15, <1>16 DEF Tidied, u

\* A request that has changed entries is answered: the objects have their names.
LEMMA TidySync ==
  ASSUME IInv, NamesInv, Tidied, Calm', sync_fs
  PROVE  Tidied'
<1> DEFINE m == IF job.op = "unlink" THEN hist.made ELSE Known(hist.made, job.obj, job.new)
<1>1. /\ Window(dev, win) /\ HistT(hist) /\ pc = "sync_fs" /\ Quiet
  BY DEF IInv, sync_fs
<1>2. PICK o \in {Synced} \cup FlushFails :
        /\ Take(o) /\ win' = o.win
        /\ o.ok => /\ Answer("FR_OK")
                   /\ hist' = IF job.op = "unlink" THEN hist
                              ELSE [hist EXCEPT !.made = Known(@, job.obj, job.new),
                                                !.alive = @ \cup {job.obj}]
  BY DEF sync_fs
<1>3. Sound(dev, win, o) /\ (o.ok => ~o.win.dirty) /\ ~o.fault
  BY <1>1, <1>2, SyncMoves, CalmTake
<1>4. o.ok
  BY <1>3 DEF Synced, FlushFails, Outcome
<1>5. Flat' = Flat /\ ~win'.dirty /\ pc' = "idle" /\ job' = NoJob /\ requests' = requests
  BY <1>1, <1>2, <1>3, <1>4, MovedOK DEF Counted, Answer, Quiet
<1>6. hist'.made = m /\ hist'.littered = hist.littered /\ hist'.torn = hist.torn
  <2>1. CASE job.op = "unlink"
    BY <1>2, <1>4, <2>1
  <2>2. CASE job.op # "unlink"
    BY <1>1, <1>2, <1>4, <2>2 DEF HistT
  <2>3. QED
    BY <2>1, <2>2
<1>7. /\ job.obj \notin DOMAIN hist.made /\ job.obj <= requests
      /\ Tidy(Flat.ent, job, "sync_fs", hist.made)
  <2>1. JobNames /\ Tidy(Flat.ent, job, pc, hist.made) /\ Sole(Flat.ent, job, pc, hist.made, requests)
    BY CalmNames DEF Tidied
  <2>2. QED
    BY <1>1, <2>1 DEF JobNames, Sole
<1>8. Tidy(Flat.ent, NoJob, "idle", m)
  <2>1. Neat(Flat.ent, m)
    BY <1>7, TidyKnown
  <2> HIDE DEF m
  <2>2. QED
    BY <2>1, TidyNeat DEF Changing
<1>9. \A ob \in DOMAIN m : ob <= requests
  BY <1>7 DEF Known, Tidied
<1> HIDE DEF m
<1>10. Sole(Flat.ent, NoJob, "idle", m, requests)
  BY SoleIdle
<1>11. QED
  BY <1>5, <1>6, <1>8, <1>9, <1>10 DEF Tidied

\* A new directory has no entries.
LEMMA TidyInit ==
  ASSUME Init
  PROVE  Tidied
<1>1. /\ IInv /\ pc = "idle" /\ job = NoJob /\ win = NoWindow
      /\ hist = [made |-> [o \in {} |-> NoName], alive |-> {}, littered |-> {}, torn |-> FALSE]
      /\ \A i \in Slots : dev.ent[i] = IF SectorOf(i) = 1 THEN End ELSE Junk
      /\ Flat = dev
  BY InitOK, NoWindowOK DEF Init, IInv, Window, Flat
<1>2. \A i \in Slots : dev.ent[i].kind \notin {"sfn", "lfn"}
  BY <1>1, EntryFacts
<1>3. Neat(dev.ent, hist.made)
  BY <1>2 DEF Neat
<1>4. Tidy(dev.ent, NoJob, "idle", hist.made)
  BY <1>3, TidyNeat DEF Changing
<1>5. Sole(dev.ent, NoJob, "idle", hist.made, requests)
  BY SoleIdle
<1>6. hist.littered = {} /\ ~hist.torn /\ DOMAIN hist.made = {}
  BY <1>1
<1>7. ~win.dirty
  BY <1>1 DEF NoWindow
<1>8. QED
  BY <1>1, <1>4, <1>5, <1>6, <1>7 DEF Tidied

\* Every step keeps the table tidy while nothing has failed.
LEMMA TidyStep ==
  ASSUME IInv, IInv', NamesInv, TidyInv, [Next]_vars
  PROVE  TidyInv'
<1>1. SUFFICES ASSUME Calm' PROVE Tidied'
  BY DEF TidyInv
<1>2. Tidied
  BY <1>1, CalmBefore DEF TidyInv
<1>3. CASE \E n \in Names : \/ fff_create(n) \/ fff_unlink(n) \/ fff_getattr(n)
                            \/ \E m \in Names \ {n} : fff_rename(n, m)
  <2>1. PICK n \in Names : \E m \in Names, op \in {"create", "unlink", "getattr", "rename"} :
               Request(op, n, m)
    BY <1>3 DEF fff_create, fff_unlink, fff_getattr, fff_rename
  <2>2. QED
    BY <1>1, <1>2, <2>1, TidyRequest DEF Ops
<1>4. CASE fff_readdir
  BY <1>1, <1>2, <1>4, TidyReaddir
<1>5. CASE find
  BY <1>1, <1>2, <1>5, TidyFind
<1>6. CASE find_new
  BY <1>1, <1>2, <1>6, TidyFindNew
<1>7. CASE dir_alloc
  BY <1>1, <1>2, <1>7, TidyAlloc
<1>8. CASE dir_next
  BY <1>1, <1>2, <1>8, TidyNext
<1>9. CASE dir_clear
  BY <1>1, <1>2, <1>9, TidyClear
<1>10. CASE dir_clear_write
  BY <1>1, <1>2, <1>10, TidyClearWrite
<1>11. CASE put_lfn
  BY <1>1, <1>2, <1>11, TidyPutLfn
<1>12. CASE put_sfn
  BY <1>1, <1>2, <1>12, TidyPutSfn
<1>13. CASE dir_remove
  BY <1>1, <1>2, <1>13, TidyRemove
<1>14. CASE sync_fs
  BY <1>1, <1>2, <1>14, TidySync
<1>15. CASE PowerLoss
  BY <1>1, <1>15, DirAssumption DEF IInv, PowerLoss, Calm
<1>16. CASE UNCHANGED vars
  <2>1. dev' = dev /\ win' = win /\ job' = job /\ pc' = pc /\ hist' = hist /\ requests' = requests
    BY <1>16 DEF vars
  <2>2. Flat' = Flat
    BY <2>1 DEF Flat
  <2>3. QED
    BY <1>2, <2>1, <2>2 DEF Tidied
<1>17. QED
  BY <1>3, <1>4, <1>5, <1>6, <1>7, <1>8, <1>9, <1>10, <1>11, <1>12, <1>13, <1>14, <1>15, <1>16
     DEF Next, Step

-----------------------------------------------------------------------------
(* f_readdir on a tidy table.                                              *)

\* What f_readdir begins with, and one entry of it.
Unread == [scan |-> Scanning, buf |-> <<>>, list |-> <<>>]
ReadRound(t, p, i) == IF p.scan.stop THEN p ELSE Listed(p, i, t[i])

\* read is the listing of the first len entries, entry by entry.
IsListing(read, t, len) ==
  /\ read[0] = Unread
  /\ \A i \in 1 .. len : read[i] = ReadRound(t, read[i - 1], i)

\* The list has a row for every object among the first i entries, and one only.
Rows(list, t, m, i) ==
  /\ list \in Seq({Shown(m[o], o) : o \in DOMAIN m})
  /\ \A j \in Slots : j <= i /\ t[j].kind = "sfn" => \E k \in 1 .. Len(list) : list[k].obj = t[j].obj
  /\ \A k \in 1 .. Len(list) : \E j \in Slots : j <= i /\ t[j].kind = "sfn" /\ list[k].obj = t[j].obj
  /\ \A k, l \in 1 .. Len(list) : list[k] = list[l] => k = l

\* After i entries f_readdir has read the pieces of the name that the next ones
\* are of, and none where a name starts.
Reading(t, m, st, i) ==
  /\ StartsAt(t, i + 1) => st.scan.ord = NoOrd
  /\ \A j \in Slots : t[j].kind = "sfn" /\ m[t[j].obj] \in NeedsLfn =>
       LET n == m[t[j].obj]
       IN  \A k \in 1 .. Len(Parts[n]) : i = j - k =>
             /\ st.scan.ord = k - 1 /\ st.scan.sum = Checksum[t[j].sfn]
             /\ st.buf = SubSeq(Parts[n], k, Len(Parts[n]))

\* What is known of the listing after i entries.
ListAt(t, m, st, i) ==
  /\ st = [scan |-> st.scan, buf |-> st.buf, list |-> st.list] /\ st.scan \in ScanT
  /\ Rows(st.list, t, m, i)
  /\ IF st.scan.stop THEN \A j \in Slots : i < j => t[j].kind # "sfn"
                     ELSE Reading(t, m, st, i)

\* No SFN entry is behind the end.
Ended(t) == \A i, j \in Slots : i < j /\ t[i].kind = "end" => t[j].kind # "sfn"

\* f_readdir reads the entries one by one.
LEMMA ListingDef ==
  ASSUME NEW t, NEW len \in Nat
  PROVE  \E read : IsListing(read, t, len) /\ Listing(t, len) = read[len].list
<1> DEFINE G(h, n) == h = [i \in 0 .. n |-> IF i = 0 THEN Unread ELSE ReadRound(t, h[i - 1], i)]
           S == {n \in Nat : \E h : G(h, n)}
<1>1. 0 \in S
  <2> DEFINE h == [i \in 0 .. 0 |-> Unread]
  <2>1. G(h, 0)
    OBVIOUS
  <2>2. QED
    BY <2>1
<1>2. ASSUME NEW n \in S PROVE n + 1 \in S
  <2>1. PICK f : G(f, n)
    OBVIOUS
  <2>2. n \in Nat /\ n + 1 \in Nat
    OBVIOUS
  <2> DEFINE h == [i \in 0 .. n + 1 |-> IF i = n + 1 THEN ReadRound(t, f[n], n + 1) ELSE f[i]]
  <2>3. \A i \in 0 .. n : h[i] = f[i]
    BY <2>2
  <2>4. h[n + 1] = ReadRound(t, f[n], n + 1)
    BY <2>2
  <2>5. h = [i \in 0 .. n + 1 |-> h[i]]
    OBVIOUS
  <2>6. \A i \in 0 .. n : f[i] = IF i = 0 THEN Unread ELSE ReadRound(t, f[i - 1], i)
    BY <2>1
  <2>7. \A i \in 0 .. n : i # 0 => i - 1 \in 0 .. n
    BY <2>2
  <2>8. \A i \in 0 .. n + 1 : i \in 0 .. n \/ (i = n + 1 /\ i # 0 /\ i - 1 = n /\ n \in 0 .. n)
    BY <2>2
  <2> HIDE DEF h
  <2>9. \A i \in 0 .. n + 1 : h[i] = IF i = 0 THEN Unread ELSE ReadRound(t, h[i - 1], i)
    BY <2>3, <2>4, <2>6, <2>7, <2>8
  <2>10. G(h, n + 1)
    BY <2>5, <2>9
  <2> HIDE DEF G
  <2>11. QED
    BY <2>2, <2>10
<1>3. S = Nat
  <2> HIDE DEF S
  <2> QED
    BY <1>1, <1>2, Induction DEF S
<1>4. \E h : G(h, len)
  BY <1>3
<1>5. PICK read : /\ read = [i \in 0 .. len |-> IF i = 0 THEN Unread ELSE ReadRound(t, read[i - 1], i)]
                  /\ Listing(t, len) = read[len].list
  BY <1>4 DEF Listing, ReadRound, Unread
<1>6. 0 \in 0 .. len /\ \A i \in 1 .. len : i \in 0 .. len /\ i # 0
  OBVIOUS
<1>7. read[0] = Unread /\ \A i \in 1 .. len : read[i] = ReadRound(t, read[i - 1], i)
  BY <1>5, <1>6
<1>8. QED
  BY <1>5, <1>7 DEF IsListing

\* A row is that of its object.
LEMMA ShownIs ==
  ASSUME NEW n, NEW o
  PROVE  Shown(n, o).obj = o
BY DEF Shown

\* No row is added for an entry that is no SFN entry.
LEMMA RowsSame ==
  ASSUME NEW list, NEW t, NEW m, NEW i \in Nat, i + 1 \in Slots, t[i + 1].kind # "sfn",
         Rows(list, t, m, i)
  PROVE  Rows(list, t, m, i + 1)
<1>1. \A j \in Slots : t[j].kind = "sfn" => (j <= i + 1 <=> j <= i)
  BY DEF Slots
<1>2. QED
  BY <1>1 DEF Rows

\* The row of an SFN entry.
LEMMA RowsMore ==
  ASSUME NEW list, NEW t, NEW m, Neat(t, m), NEW i \in Nat, i + 1 \in Slots,
         t[i + 1].kind = "sfn", Rows(list, t, m, i)
  PROVE  Rows(Append(list, Shown(m[t[i + 1].obj], t[i + 1].obj)), t, m, i + 1)
<1> DEFINE o == t[i + 1].obj
           e == Shown(m[o], o)
           R == {Shown(m[x], x) : x \in DOMAIN m}
           new == Append(list, e)
<1>1. list \in Seq(R)
  BY DEF Rows
<1>2. o \in DOMAIN m /\ e \in R
  BY DEF Neat, Settled
<1>3. e.obj = o
  BY ShownIs
<1> HIDE DEF o, e, R
<1>4. /\ new \in Seq(R) /\ Len(list) \in Nat
      /\ Len(new) = Len(list) + 1
      /\ \A k \in 1 .. Len(list) : new[k] = list[k]
      /\ new[Len(list) + 1] = e
  BY <1>1, <1>2, AppendProperties, LenProperties
<1> HIDE DEF new
<1>5. \A k \in 1 .. Len(list) : list[k].obj # o
  <2>1. SUFFICES ASSUME NEW k \in 1 .. Len(list), list[k].obj = o PROVE FALSE
    OBVIOUS
  <2>2. PICK j \in Slots : j <= i /\ t[j].kind = "sfn" /\ list[k].obj = t[j].obj
    BY <2>1 DEF Rows
  <2>3. j = i + 1
    BY <2>1, <2>2 DEF Neat, o
  <2>4. QED
    BY <2>2, <2>3
<1>6. ASSUME NEW j \in Slots, j <= i + 1, t[j].kind = "sfn"
      PROVE  \E k \in 1 .. Len(new) : new[k].obj = t[j].obj
  <2>1. CASE j = i + 1
    <3>1. Len(list) + 1 \in 1 .. Len(new)
      BY <1>4
    <3>2. QED
      BY <1>3, <1>4, <2>1, <3>1 DEF o
  <2>2. CASE j # i + 1
    <3>1. j <= i
      BY <1>6, <2>2 DEF Slots
    <3>2. PICK k \in 1 .. Len(list) : list[k].obj = t[j].obj
      BY <1>6, <3>1 DEF Rows
    <3>3. k \in 1 .. Len(new)
      BY <1>4
    <3>4. QED
      BY <1>4, <3>2, <3>3
  <2>3. QED
    BY <2>1, <2>2
<1>7. ASSUME NEW k \in 1 .. Len(new)
      PROVE  \E j \in Slots : j <= i + 1 /\ t[j].kind = "sfn" /\ new[k].obj = t[j].obj
  <2>1. CASE k = Len(list) + 1
    BY <1>3, <1>4, <2>1 DEF o
  <2>2. CASE k # Len(list) + 1
    <3>1. k \in 1 .. Len(list)
      BY <1>4, <2>2
    <3>2. PICK j \in Slots : j <= i /\ t[j].kind = "sfn" /\ list[k].obj = t[j].obj
      BY <3>1 DEF Rows
    <3>3. j <= i + 1
      BY <3>2 DEF Slots
    <3>4. QED
      BY <1>4, <3>1, <3>2, <3>3
  <2>3. QED
    BY <2>1, <2>2
<1>8. ASSUME NEW k \in 1 .. Len(new), NEW l \in 1 .. Len(new), new[k] = new[l]
      PROVE  k = l
  <2>1. \A x \in 1 .. Len(new) : x = Len(list) + 1 \/ x \in 1 .. Len(list)
    BY <1>4
  <2>2. \A x, y \in 1 .. Len(list) : list[x] = list[y] => x = y
    BY DEF Rows
  <2>3. QED
    BY <1>3, <1>4, <1>5, <1>8, <2>1, <2>2
<1>9. Rows(new, t, m, i + 1)
  BY <1>4, <1>6, <1>7, <1>8 DEF Rows, R
<1>10. QED
  BY <1>9 DEF new, e, o

\* A piece of the name of an SFN entry.
LEMMA PieceAt ==
  ASSUME NEW t, NEW m, Neat(t, m), MadeT(m), NEW j \in Slots, t[j].kind = "sfn",
         m[t[j].obj] \in NeedsLfn, NEW k \in 1 .. Len(Parts[m[t[j].obj]])
  PROVE  /\ m[t[j].obj] \in Names
         /\ j - k \in Slots /\ t[j - k] = Lfn(m[t[j].obj], k, Checksum[t[j].sfn])
         /\ t[j - k].kind = "lfn"
<1> DEFINE n == m[t[j].obj]
<1>1. n \in Names /\ Wears(t, j, n)
  BY DEF Neat, Settled, MadeT
<1>2. j - k \in Slots /\ t[j - k] = Lfn(n, k, Checksum[t[j].sfn])
  BY <1>1 DEF Wears
<1> HIDE DEF n
<1>3. DOMAIN Parts[n] = 1 .. Len(Parts[n]) /\ k \in DOMAIN Parts[n]
  BY <1>1, NameFacts DEF n
<1>4. QED
  BY <1>1, <1>2, <1>3, LfnPiece DEF n

\* f_readdir reads a piece of a name.
LEMMA ListLfn ==
  ASSUME NEW t \in [Slots -> Entry], NEW m, Neat(t, m), MadeT(m), NEW i \in Nat, i + 1 \in Slots,
         NEW p, ListAt(t, m, p, i), ~p.scan.stop, t[i + 1].kind = "lfn"
  PROVE  ListAt(t, m, Listed(p, i + 1, t[i + 1]), i + 1)
<1> DEFINE e == t[i + 1]
           scan == FollowsLfn(p.scan, i + 1, e, TRUE)
           buf == IF e.last THEN <<e.part>> ELSE <<e.part>> \o p.buf
           r1 == [p EXCEPT !.scan = scan]
           r == [r1 EXCEPT !.buf = buf]
<1>1. /\ p = [scan |-> p.scan, buf |-> p.buf, list |-> p.list] /\ p.scan \in ScanT
      /\ Rows(p.list, t, m, i) /\ Reading(t, m, p, i)
  BY DEF ListAt
<1>2. e \in Entry /\ e.kind = "lfn" /\ i + 1 \in Nat
  OBVIOUS
<1>3. scan \in ScanT /\ scan.stop = p.scan.stop
  BY <1>1, <1>2, FollowsFacts
<1>4. /\ scan.sum = (IF e.last THEN e.sum ELSE p.scan.sum)
      /\ (e.last \/ e.ord = p.scan.ord) /\ e.sum = scan.sum => scan.ord = e.ord - 1
  <2> DEFINE st == p.scan
             x == i + 1
             sum == IF e.last THEN e.sum ELSE st.sum
             f == FollowsLfn(st, x, e, TRUE)
  <2>1. st \in ScanT /\ x \in Nat /\ TRUE \in BOOLEAN
    BY <1>1, <1>2
  <2> HIDE DEF e, st, x
  <2>2. /\ f.sum = sum
        /\ f.blk = IF e.last THEN x ELSE st.blk
        /\ f.ord = IF (e.last \/ e.ord = st.ord) /\ e.sum = sum /\ TRUE THEN e.ord - 1 ELSE NoOrd
    BY <1>2, <2>1, FollowsIs
  <2> HIDE DEF f
  <2>3. f = scan
    BY DEF f, st, x
  <2> HIDE DEF scan
  <2>4. QED
    BY <2>2, <2>3 DEF st
<1>5. r = Listed(p, i + 1, e)
  BY <1>2 DEF Listed
<1> HIDE DEF scan, buf
<1>6. r = [scan |-> scan, buf |-> buf, list |-> p.list]
  <2>1. r1 = [scan |-> scan, buf |-> p.buf, list |-> p.list]
    BY <1>1
  <2> HIDE DEF r1
  <2>2. QED
    BY <2>1
<1>7. r = [scan |-> r.scan, buf |-> r.buf, list |-> r.list] /\ r.scan = scan /\ r.buf = buf /\ r.list = p.list
  BY <1>6
<1> HIDE DEF r
<1>8. Rows(r.list, t, m, i + 1)
  BY <1>1, <1>7, RowsSame
<1>9. ~StartsAt(t, (i + 1) + 1)
  <2>1. ((i + 1) + 1) - 1 = i + 1 /\ (i + 1) + 1 # 1
    OBVIOUS
  <2>2. QED
    BY <2>1 DEF StartsAt
<1>10. ASSUME NEW j \in Slots, t[j].kind = "sfn", m[t[j].obj] \in NeedsLfn,
              NEW k \in 1 .. Len(Parts[m[t[j].obj]]), i + 1 = j - k
       PROVE  /\ scan.ord = k - 1 /\ scan.sum = Checksum[t[j].sfn]
              /\ buf = SubSeq(Parts[m[t[j].obj]], k, Len(Parts[m[t[j].obj]]))
  <2> DEFINE n == m[t[j].obj]
             s == Parts[n]
             c == Checksum[t[j].sfn]
  <2>1. n \in Names /\ e = Lfn(n, k, c)
    BY <1>10, PieceAt
  <2>2. s \in Seq(DOMAIN Upper) /\ Len(s) \in Nat \ {0} /\ DOMAIN s = 1 .. Len(s) /\ k \in DOMAIN s
    BY <2>1, NameFacts, DirAssumption
  <2>3. e.ord = k /\ e.sum = c /\ e.part = s[k] /\ e.last = (k = Len(s))
    BY <2>1, <2>2, LfnPiece
  <2>4. SubSeq(s, k, Len(s)) = <<s[k]>> \o SubSeq(s, k + 1, Len(s))
    <3>1. k \in 1 .. Len(s) /\ Len(s) \in k .. Len(s)
      BY <2>2
    <3> HIDE DEF s
    <3>2. QED
      BY <2>2, <3>1, SubSeqRecursiveFirst
  <2>5. CASE k = Len(s)
    <3>1. SubSeq(s, k + 1, Len(s)) = <<>>
      BY <2>2, <2>5, SubSeqEmpty
    <3>2. <<s[k]>> \o <<>> = <<s[k]>>
      <4>1. s[k] \in DOMAIN Upper
        BY <2>2, ElementOfSeq
      <4>2. <<s[k]>> \in Seq(DOMAIN Upper)
        BY <4>1
      <4>3. QED
        BY <4>2, ConcatEmptySeq
    <3>3. buf = <<s[k]>>
      BY <2>3, <2>5 DEF buf
    <3>4. QED
      BY <1>4, <2>3, <2>4, <2>5, <3>1, <3>2, <3>3
  <2>6. CASE k # Len(s)
    <3>1. k + 1 \in 1 .. Len(s) /\ i = j - (k + 1) /\ (k + 1) - 1 = k
      BY <1>10, <2>2, <2>6 DEF Slots
    <3>2. p.scan.ord = k /\ p.scan.sum = c /\ p.buf = SubSeq(s, k + 1, Len(s))
      BY <1>1, <1>10, <3>1 DEF Reading
    <3>3. buf = <<s[k]>> \o p.buf
      BY <2>3, <2>6 DEF buf
    <3>4. QED
      BY <1>4, <2>3, <2>4, <2>6, <3>2, <3>3
  <2>7. QED
    BY <2>5, <2>6
<1>11. Reading(t, m, r, i + 1)
  BY <1>7, <1>9, <1>10 DEF Reading
<1>12. ListAt(t, m, r, i + 1)
  BY <1>3, <1>7, <1>8, <1>11 DEF ListAt
<1>13. QED
  BY <1>5, <1>12

\* Before an entry that is no piece of a name, f_readdir knows of no name.
LEMMA NoneRead ==
  ASSUME NEW t, NEW m, Neat(t, m), MadeT(m), NEW i \in Nat, i \in Slots, t[i].kind # "lfn",
         NEW st, st.scan.ord = NoOrd
  PROVE  Reading(t, m, st, i)
<1>1. ASSUME NEW j \in Slots, t[j].kind = "sfn", m[t[j].obj] \in NeedsLfn,
             NEW k \in 1 .. Len(Parts[m[t[j].obj]]), i = j - k
      PROVE  FALSE
  BY <1>1, PieceAt
<1>2. QED
  BY <1>1 DEF Reading

\* f_readdir comes to an SFN entry: it has read the whole name, or there is none.
LEMMA ListSfn ==
  ASSUME NEW t \in [Slots -> Entry], NEW m, Neat(t, m), MadeT(m), NEW i \in Nat, i + 1 \in Slots,
         NEW p, ListAt(t, m, p, i), ~p.scan.stop, t[i + 1].kind = "sfn"
  PROVE  ListAt(t, m, Listed(p, i + 1, t[i + 1]), i + 1)
<1> DEFINE e == t[i + 1]
           o == e.obj
           n == m[o]
           row == IF TiedTo(p.scan, e) THEN [lfn |-> p.buf, sfn |-> <<>>, obj |-> o]
                                       ELSE [lfn |-> <<>>, sfn |-> e.sfn, obj |-> o]
           r == [scan |-> Scanning, buf |-> <<>>, list |-> Append(p.list, row)]
<1>1. p.scan \in ScanT /\ Rows(p.list, t, m, i) /\ Reading(t, m, p, i)
  BY DEF ListAt
<1>2. r = Listed(p, i + 1, e)
  BY DEF Listed
<1>3. n \in Names /\ Wears(t, i + 1, n)
  BY DEF Neat, Settled, MadeT
<1>4. row = Shown(n, o)
  <2>1. CASE n \in NeedsLfn
    <3>1. Parts[n] \in Seq(DOMAIN Upper) /\ Len(Parts[n]) \in Nat \ {0}
      BY <1>3, NameFacts, DirAssumption
    <3>2. 1 \in 1 .. Len(Parts[n]) /\ i = (i + 1) - 1
      BY <3>1
    <3>3. p.scan.ord = 1 - 1 /\ p.scan.sum = Checksum[e.sfn] /\ p.buf = SubSeq(Parts[n], 1, Len(Parts[n]))
      BY <1>1, <2>1, <3>2 DEF Reading
    <3>4. p.buf = Parts[n] /\ TiedTo(p.scan, e)
      BY <3>1, <3>3, SubSeqFull DEF TiedTo
    <3>5. QED
      BY <2>1, <3>4 DEF Shown
  <2>2. CASE n \notin NeedsLfn
    <3>1. e.sfn = Shorts[n][1] /\ StartsAt(t, i + 1)
      BY <1>3, <2>2 DEF Wears
    <3>2. ~TiedTo(p.scan, e)
      BY <1>1, <3>1 DEF Reading, TiedTo, NoOrd
    <3>3. QED
      BY <2>2, <3>1, <3>2 DEF Shown
  <2>3. QED
    BY <2>1, <2>2
<1> HIDE DEF row
<1>5. Rows(Append(p.list, row), t, m, i + 1)
  BY <1>1, <1>4, RowsMore
<1>6. Scanning \in ScanT /\ Scanning.stop = FALSE /\ Scanning.ord = NoOrd
  BY DEF Scanning, ScanT, NoOrd, Sums
<1>7. /\ r = [scan |-> r.scan, buf |-> r.buf, list |-> r.list]
      /\ r.scan = Scanning /\ r.list = Append(p.list, row)
  OBVIOUS
<1> HIDE DEF r
<1>8. Reading(t, m, r, i + 1)
  BY <1>6, <1>7, NoneRead
<1>9. ListAt(t, m, r, i + 1)
  BY <1>5, <1>6, <1>7, <1>8 DEF ListAt
<1>10. QED
  BY <1>2, <1>9

\* f_readdir comes to the end.
LEMMA ListEnd ==
  ASSUME NEW t, NEW m, Ended(t), NEW i \in Nat, i + 1 \in Slots,
         NEW p, ListAt(t, m, p, i), t[i + 1].kind = "end"
  PROVE  ListAt(t, m, Listed(p, i + 1, t[i + 1]), i + 1)
<1> DEFINE scan == [p.scan EXCEPT !.stop = TRUE]
           r == [p EXCEPT !.scan = scan]
<1>1. /\ p = [scan |-> p.scan, buf |-> p.buf, list |-> p.list] /\ p.scan \in ScanT
      /\ Rows(p.list, t, m, i)
  BY DEF ListAt
<1>2. r = Listed(p, i + 1, t[i + 1])
  BY DEF Listed
<1>3. scan \in ScanT /\ scan.stop
  BY <1>1 DEF ScanT
<1> HIDE DEF scan
<1>4. r = [scan |-> scan, buf |-> p.buf, list |-> p.list]
  BY <1>1
<1>5. /\ r = [scan |-> r.scan, buf |-> r.buf, list |-> r.list]
      /\ r.scan = scan /\ r.list = p.list
  BY <1>4
<1> HIDE DEF r
<1>6. Rows(r.list, t, m, i + 1)
  BY <1>1, <1>5, RowsSame
<1>7. \A j \in Slots : i + 1 < j => t[j].kind # "sfn"
  BY DEF Ended
<1>8. ListAt(t, m, r, i + 1)
  BY <1>3, <1>5, <1>6, <1>7 DEF ListAt
<1>9. QED
  BY <1>2, <1>8

\* f_readdir skips an entry.
LEMMA ListSkip ==
  ASSUME NEW t, NEW m, Neat(t, m), MadeT(m), NEW i \in Nat, i + 1 \in Slots,
         NEW p, ListAt(t, m, p, i), ~p.scan.stop, t[i + 1].kind \notin {"end", "lfn", "sfn"}
  PROVE  ListAt(t, m, Listed(p, i + 1, t[i + 1]), i + 1)
<1> DEFINE s1 == [p.scan EXCEPT !.ord = NoOrd]
           scan == [s1 EXCEPT !.blk = 0]
           r == [p EXCEPT !.scan = scan]
<1>1. /\ p = [scan |-> p.scan, buf |-> p.buf, list |-> p.list] /\ p.scan \in ScanT
      /\ Rows(p.list, t, m, i)
  BY DEF ListAt
<1>2. r = Listed(p, i + 1, t[i + 1])
  BY DEF Listed, Skips
<1>3. s1 \in ScanT /\ s1.ord = NoOrd /\ s1.stop = p.scan.stop
  BY <1>1 DEF ScanT, NoOrd
<1> HIDE DEF s1
<1>4. scan \in ScanT /\ scan.ord = NoOrd /\ scan.stop = p.scan.stop
  BY <1>3 DEF ScanT
<1> HIDE DEF scan
<1>5. r = [scan |-> scan, buf |-> p.buf, list |-> p.list]
  BY <1>1
<1>6. /\ r = [scan |-> r.scan, buf |-> r.buf, list |-> r.list]
      /\ r.scan = scan /\ r.list = p.list
  BY <1>5
<1> HIDE DEF r
<1>7. Rows(r.list, t, m, i + 1)
  BY <1>1, <1>6, RowsSame
<1>8. Reading(t, m, r, i + 1)
  BY <1>4, <1>6, NoneRead
<1>9. ListAt(t, m, r, i + 1)
  BY <1>4, <1>6, <1>7, <1>8 DEF ListAt
<1>10. QED
  BY <1>2, <1>9

\* One entry more keeps what is known of a listing.
LEMMA ListStep ==
  ASSUME NEW t \in [Slots -> Entry], NEW m, Neat(t, m), MadeT(m), Ended(t),
         NEW i \in Nat, i + 1 \in Slots, NEW p, ListAt(t, m, p, i)
  PROVE  ListAt(t, m, ReadRound(t, p, i + 1), i + 1)
<1>1. CASE p.scan.stop
  <2>1. t[i + 1].kind # "sfn" /\ \A j \in Slots : i + 1 < j => t[j].kind # "sfn"
    BY <1>1 DEF ListAt, Slots
  <2>2. Rows(p.list, t, m, i + 1)
    BY <2>1, RowsSame DEF ListAt
  <2>3. QED
    BY <1>1, <2>1, <2>2 DEF ListAt, ReadRound
<1>2. CASE ~p.scan.stop
  BY <1>2, ListEnd, ListLfn, ListSfn, ListSkip DEF ReadRound
<1>3. QED
  BY <1>1, <1>2

\* f_readdir lists the objects of a tidy table, each once and under its name.
LEMMA ListingFacts ==
  ASSUME NEW t \in [Slots -> Entry], NEW len \in 0 .. MaxSectors * PerSector,
         NEW m, Neat(t, m), MadeT(m), Ended(t)
  PROVE  Rows(Listing(t, len), t, m, len)
<1>1. MaxSectors * PerSector \in Nat /\ len \in Nat
  BY DirAssumption
<1>2. PICK read : IsListing(read, t, len) /\ Listing(t, len) = read[len].list
  BY <1>1, ListingDef
<1> DEFINE S == {n \in Nat : n <= len => ListAt(t, m, read[n], n)}
<1>3. 0 \in S
  <2>1. /\ Unread.scan = Scanning /\ Unread.list = <<>>
        /\ Unread = [scan |-> Unread.scan, buf |-> Unread.buf, list |-> Unread.list]
    BY DEF Unread
  <2>2. Scanning \in ScanT /\ Scanning.stop = FALSE /\ Scanning.ord = NoOrd
    BY DEF Scanning, ScanT, NoOrd, Sums
  <2>3. Rows(<<>>, t, m, 0)
    <3>1. \A j \in Slots : ~(j <= 0)
      BY DEF Slots
    <3>2. <<>> \in Seq({Shown(m[o], o) : o \in DOMAIN m}) /\ Len(<<>>) = 0 /\ 1 .. 0 = {}
      BY EmptySeq
    <3>3. QED
      BY <3>1, <3>2 DEF Rows
  <2>4. ASSUME NEW j \in Slots, t[j].kind = "sfn", m[t[j].obj] \in NeedsLfn,
               NEW k \in 1 .. Len(Parts[m[t[j].obj]]), 0 = j - k
        PROVE  FALSE
    <3>1. j - k \in Slots
      BY <2>4, PieceAt
    <3>2. \A x \in Slots : x # 0
      BY DEF Slots
    <3>3. QED
      BY <2>4, <3>1, <3>2
  <2>5. Reading(t, m, Unread, 0)
    BY <2>1, <2>2, <2>4 DEF Reading
  <2>6. ListAt(t, m, read[0], 0)
    BY <1>2, <2>1, <2>2, <2>3, <2>5 DEF ListAt, IsListing
  <2>7. QED
    BY <2>6
<1>4. ASSUME NEW n \in S PROVE n + 1 \in S
  <2>1. n \in Nat /\ n + 1 \in Nat /\ (n + 1) - 1 = n
    OBVIOUS
  <2>2. SUFFICES ASSUME n + 1 <= len PROVE ListAt(t, m, read[n + 1], n + 1)
    BY <2>1
  <2>3. n <= len /\ n + 1 \in 1 .. len /\ n + 1 \in Slots
    BY <1>1, <2>1, <2>2 DEF Slots
  <2>4. ListAt(t, m, read[n], n)
    BY <2>3
  <2> HIDE DEF S
  <2>5. ListAt(t, m, ReadRound(t, read[n], n + 1), n + 1)
    BY <2>1, <2>3, <2>4, ListStep
  <2>6. QED
    BY <1>2, <2>1, <2>3, <2>5 DEF IsListing
<1>5. S = Nat
  <2>1. S \in SUBSET Nat
    OBVIOUS
  <2> HIDE DEF S
  <2>2. QED
    BY <1>3, <1>4, <2>1, Induction
<1>6. ListAt(t, m, read[len], len)
  BY <1>1, <1>5
<1>7. QED
  BY <1>2, <1>6 DEF ListAt

\* The invariant of the listing.
THEOREM TidyInvariant == Spec => [](IInv /\ NamesInv /\ TidyInv)
<1>1. Init => IInv /\ NamesInv /\ TidyInv
  BY InitOK, NamesInit, TidyInit DEF TidyInv
<1>2. IInv /\ NamesInv /\ TidyInv /\ [Next]_vars => (IInv /\ NamesInv /\ TidyInv)'
  BY NextOK, NamesStep, TidyStep
<1>3. QED
  BY <1>1, <1>2, PTL DEF Spec

\* While nothing has failed and no request is in progress, f_readdir lists every
\* object once and under the name it was created with or renamed to, and nothing
\* else: no LFN entry stays behind for a later short name to take over, and no
\* object has two entries.
THEOREM ObjectsListedOnce == Spec => []ListedOnce
<1>1. IInv /\ NamesInv /\ TidyInv => ListedOnce
  <2> DEFINE len == dev.len * PerSector
             list == Listing(dev.ent, len)
             m == hist.made
  <2>1. SUFFICES ASSUME IInv, NamesInv, TidyInv, pc = "idle", faults = 0, crashes = 0
                 PROVE  /\ {list[i] : i \in DOMAIN list} = {Shown(m[o], o) : o \in DOMAIN m}
                        /\ \A i, j \in DOMAIN list : list[i] = list[j] => i = j
    BY DEF ListedOnce
  <2>2. Tidied /\ ~win.dirty
    BY <2>1 DEF TidyInv, Calm, Tidied
  <2>3. dev \in DevT /\ Flat = dev
    BY <2>1, <2>2, FlushedFacts DEF IInv, Window, Flat
  <2>4. MadeT(m) /\ Neat(dev.ent, m) /\ ~hist.torn
    BY <2>1, <2>2, <2>3, CalmNames DEF Changing
  <2>5. dev.ent \in [Slots -> Entry] /\ len \in 0 .. MaxSectors * PerSector
    <3>1. dev.len \in 0 .. MaxSectors
      BY <2>3, DirAssumption DEF DevT
    <3>2. QED
      BY <2>3, <3>1, TableBound DEF DevT
  <2>6. ASSUME NEW j \in Slots, dev.ent[j].kind = "sfn"
        PROVE  j <= len /\ \A i \in Slots : i < j => dev.ent[i].kind # "end"
    <3>1. j \in 1 .. dev.len * PerSector /\ \A i \in 1 .. j - 1 : dev.ent[i].kind # "end"
      BY <2>1, <2>4, <2>6, DeviceEnd
    <3>2. QED
      BY <3>1 DEF Slots
  <2>7. Ended(dev.ent)
    BY <2>6 DEF Ended
  <2>8. Rows(list, dev.ent, m, len)
    BY <2>4, <2>5, <2>7, ListingFacts
  <2>9. \A o \in DOMAIN m : \E j \in Slots : dev.ent[j].kind = "sfn" /\ dev.ent[j].obj = o
    BY <2>1 DEF IInv, HistT, Survives, Has, Holds
  <2> HIDE DEF len, list, m
  <2> DEFINE R == {Shown(m[o], o) : o \in DOMAIN m}
  <2>10. list \in Seq(R)
    BY <2>8 DEF Rows
  <2> HIDE DEF R
  <2>11. DOMAIN list = 1 .. Len(list) /\ \A k \in 1 .. Len(list) : list[k] \in R
    BY <2>10, LenProperties, ElementOfSeq
  <2>12. ASSUME NEW o \in DOMAIN m
         PROVE  \E k \in 1 .. Len(list) : list[k] = Shown(m[o], o)
    <3>1. PICK j \in Slots : dev.ent[j].kind = "sfn" /\ dev.ent[j].obj = o
      BY <2>9
    <3>2. PICK k \in 1 .. Len(list) : list[k].obj = o
      BY <2>6, <2>8, <3>1 DEF Rows
    <3>3. PICK x \in DOMAIN m : list[k] = Shown(m[x], x)
      BY <2>11 DEF R
    <3>4. QED
      BY <3>2, <3>3, ShownIs
  <2>13. {list[i] : i \in DOMAIN list} = R
    BY <2>11, <2>12 DEF R
  <2>14. QED
    BY <2>8, <2>11, <2>13 DEF Rows, R
<1>2. QED
  BY <1>1, TidyInvariant, PTL
=============================================================================
