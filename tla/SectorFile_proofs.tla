------------------------- MODULE SectorFile_proofs -------------------------
(***************************************************************************)
(* What holds of SectorFile for every number of blocks, values, requests,  *)
(* faults and power losses, with proofs.                                   *)
(*                                                                         *)
(* The properties are about the device, but what a step may write to it    *)
(* depends on the sector buffer and on the window, so the inductive        *)
(* invariant is about the sectors the open file holds in effect: W, the    *)
(* device with the dirty buffer written back.  Moving the buffer leaves W  *)
(* alone; linking clusters changes it past the end of the chain only; a    *)
(* block that is written changes one start and one end of a block in it.   *)
(***************************************************************************)
EXTENDS SectorFile, TLAPS, FiniteSetTheorems

-----------------------------------------------------------------------------
(* The inductive invariant.                                                *)

Syncing == {"sync", "sync_fat", "sync_entry"}
Loop == {"seek", "read_block", "seek_again", "put_block"}
Sizing == {"update_fatcrypt_header_lsize", "lsize_written"}
Heading == {"parse_fatcrypt_header", "parsed", "write_fatcrypt_header", "header_written"}
Writing == {"f_crypt_lseek"} \cup Heading \cup Loop \cup Sizing
Truncating == {"truncate_header", "f_truncate", "truncate_lsize"}

HeaderT == [nonce : 0 .. MaxNonce, lsize : Nat]
FileT ==
  [size : 0 .. End(Blocks - 1), sect : Sectors \cup {NoSector}, buf : Sector,
   dirty : BOOLEAN, modified : BOOLEAN, err : BOOLEAN]
MemT == [size : 0 .. End(Blocks - 1), chain : 0 .. Blocks + 1, win : {"clean", "fat", "ent"}]
JobT ==
  [op : {"none", "write", "truncate"}, off : Nat, len : Nat, val : Cell, blk : Nat,
   hdr : HeaderT, old : Cell \X Cell, res : {"FR_OK", "FR_NO_HEADER", "FR_BAD_HEADER"},
   ret : {"OK", "EIO"}]

\* Every variable has its type.
Typed ==
  /\ disk \in Device /\ base \in Device
  /\ mem \in MemT /\ fp \in FileT /\ job \in JobT
  /\ pc \in {"idle"} \cup Writing \cup Truncating \cup Syncing
  /\ nonce \in 0 .. MaxNonce /\ requests \in 0 .. MaxRequests
  /\ faults \in 0 .. MaxFaults /\ crashes \in 0 .. MaxCrashes

\* The window holds the size or the chain that the device does not have yet,
\* never both.
CachedOn(m, d) ==
  /\ m.win # "ent" => d.size = m.size
  /\ m.win # "fat" => d.chain = m.chain
  /\ d.size >= 1 => m.size >= 1 /\ d.chain >= 1
  /\ m.size >= 1 => m.chain >= 1
  /\ m.size > d.size => ClustersFor(m.size) <= m.chain
  /\ m.size < d.size => d.chain <= 1

Cached == CachedOn(mem, disk) /\ (pc = "sync_entry" => mem.win # "fat")

\* A clean sector buffer is what the device holds, and the buffer is on a
\* sector of the chain.
Coherent(f, d) ==
  /\ f.dirty => f.sect \in Sectors
  /\ f.sect \in Sectors /\ ~f.dirty => f.buf = d.sec[f.sect]

Placed(f, n) == f.sect \in Sectors => f.sect < n

Buffered ==
  /\ Coherent(fp, disk)
  /\ Placed(fp, mem.chain)
  /\ pc = "idle" => fp = Closed
  /\ pc \in {"sync_fat", "sync_entry"} => ~fp.dirty

\* An open file is longer than its entry only as far as its chain goes, and
\* shorter only after f_truncate has cut the chain.
SizedOn(z, m, d) ==
  /\ z > d.size \/ z > m.size => ClustersFor(z) <= m.chain
  /\ m.size >= 1 => z >= 1
  /\ z >= 1 => m.chain >= 1

Cut == job.op = "truncate" /\ pc \in {"truncate_lsize"} \cup Syncing /\ mem.chain <= 1

Sized ==
  pc # "idle" => SizedOn(fp.size, mem, disk) /\ (fp.size >= mem.size \/ Cut)

First(q) == BlockOf(q.off)

\* Where a request is, in its program and in the file.
Flow ==
  /\ pc # "idle" => job.op # "none"
  /\ job.op = "write" =>
       /\ pc \in {"idle"} \cup Writing \cup Syncing
       /\ job.len >= 1 /\ job.off + job.len <= 2 * Blocks
       /\ First(job) <= job.blk /\ job.blk <= LastBlock(job) + 1
  /\ job.op = "truncate" => pc \in {"idle"} \cup Truncating \cup Syncing /\ job.off = 0
  /\ pc \in Writing \ Sizing => job.blk <= LastBlock(job)
  /\ pc \in Writing \ {"f_crypt_lseek"} => job.blk < mem.chain /\ fp.size >= Start(job.blk)
  /\ pc \in {"f_crypt_lseek", "truncate_header"} => fp = Opened(mem.size)
  /\ pc \in {"f_crypt_lseek"} \cup Heading => job.blk = First(job)
  /\ pc = "read_block" => fp.sect = job.blk /\ ~fp.err
  /\ pc = "put_block" /\ ~fp.err => fp.sect = job.blk
  /\ pc \in {"f_truncate", "truncate_lsize"} => fp.sect = 0 /\ fp.size >= 1
  /\ pc = "truncate_lsize" => fp.size = 1
  /\ pc \in Sizing => job.blk = LastBlock(job) + 1
  /\ pc \notin {"idle"} \cup Syncing => job.ret = "OK"

\* The sectors the open file holds in effect.
W == Flushed(fp, disk).sec

\* The header the request works with is in the file, and the new size is when
\* the request is about to answer that all went well.
Headed ==
  /\ \/ pc \in Loop \cup {"header_written", "update_fatcrypt_header_lsize"}
     \/ pc = "parsed" /\ job.res = "FR_OK"
     => W[0].hdr = job.hdr /\ job.hdr.nonce # 0
  /\ \/ pc = "lsize_written"
     \/ pc \in Syncing /\ job.op = "write" /\ job.ret = "OK"
     => /\ W[0].hdr = [nonce |-> job.hdr.nonce, lsize |-> job.off + job.len]
        /\ job.hdr.nonce # 0 /\ job.blk = LastBlock(job) + 1 /\ fp.modified
  /\ pc \in {"f_truncate", "truncate_lsize"} => W[0].hdr.nonce # 0
  /\ pc \in Syncing /\ job.op = "truncate" /\ job.ret = "OK" =>
       /\ W[0].hdr.nonce # 0 /\ W[0].hdr.lsize = job.len
       /\ fp.size = 1 /\ fp.modified

\* Block k in sectors w opens under nonce n and holds what request q writes.
Written(q, n, w, k) ==
  /\ w[k].head.nonce = n /\ w[k].head.idx = k /\ w[k].head.a = w[k + 1].tail.a
  /\ w[k + 1].tail.nonce = n /\ w[k + 1].tail.idx = k
  /\ 2 * k \in Span(q) => w[k + 1].tail.a = q.val
  /\ 2 * k + 1 \in Span(q) => w[k + 1].tail.b = q.val

WrittenUpTo(q, n, w, blk, size, chain) ==
  \A k \in First(q) .. blk - 1 : Written(q, n, w, k) /\ End(k) <= size /\ k + 2 <= chain

\* What a request asks for, which no step of it changes.
Req(j) == [op |-> j.op, off |-> j.off, len |-> j.len, val |-> j.val]

\* The blocks of a write before the one at hand are done.
Done ==
  job.op = "write" /\ pc # "idle" =>
    WrittenUpTo(Req(job), job.hdr.nonce, W, job.blk, fp.size, mem.chain)
-----------------------------------------------------------------------------
(* The part of the invariant about a file that had a header when the write *)
(* in progress, or the last write, opened it: b is the device then, q the  *)
(* request.                                                                *)

BlockSet == 0 .. Blocks - 1

Openable(b) == {k \in BlockSet : Opens(b, k)}

HdrKept(b, q, h) ==
  h.nonce = b.sec[0].hdr.nonce /\ h.lsize \in {b.sec[0].hdr.lsize, q.off + q.len}

\* The start and the end of block k after the write.
CellA(b, q, k) == IF 2 * k \in Span(q) THEN q.val ELSE b.sec[k + 1].tail.a
CellB(b, q, k) == IF 2 * k + 1 \in Span(q) THEN q.val ELSE b.sec[k + 1].tail.b
HeadOf(b, q, k) == [nonce |-> b.sec[0].hdr.nonce, idx |-> k, a |-> CellA(b, q, k)]
TailOf(b, q, k) ==
  [nonce |-> b.sec[0].hdr.nonce, idx |-> k, a |-> CellA(b, q, k), b |-> CellB(b, q, k)]

Touched(q, k) == First(q) <= k /\ k <= LastBlock(q)

IsOld(b, w, k) == w[k].head = b.sec[k].head /\ w[k + 1].tail = b.sec[k + 1].tail
IsNew(b, q, w, k) ==
  Touched(q, k) /\ w[k].head = HeadOf(b, q, k) /\ w[k + 1].tail = TailOf(b, q, k)
IsWhole(b, q, w, k) == IsOld(b, w, k) \/ IsNew(b, q, w, k)
IsMixed(b, q, w, k) ==
  /\ Touched(q, k)
  /\ w[k].head \in {b.sec[k].head, HeadOf(b, q, k)}
  /\ w[k + 1].tail \in {b.sec[k + 1].tail, TailOf(b, q, k)}

\* On the device at most one block is neither old nor new.
OnDisk(b, q, w) ==
  /\ \A k \in Openable(b) : IsWhole(b, q, w, k) \/ IsMixed(b, q, w, k)
  /\ \A k, l \in Openable(b) : k # l => IsWhole(b, q, w, k) \/ IsWhole(b, q, w, l)

\* In effect the blocks before the one at hand, blk, are new and the others
\* old, but for the start of the one at hand once its f_write has failed.
InFile(b, q, w, blk, torn) ==
  \A k \in Openable(b) :
    /\ k < First(q) \/ k > blk => IsOld(b, w, k)
    /\ First(q) <= k /\ k < blk => IsNew(b, q, w, k)
    /\ k = blk =>
         /\ w[k + 1].tail = b.sec[k + 1].tail
         /\ \/ w[k].head = b.sec[k].head
            \/ torn /\ Touched(q, k) /\ w[k].head = HeadOf(b, q, k)

\* The blocks that could be read are inside the file and its chain.
Room(b, z) ==
  \A k \in Openable(b) : End(k) <= z.size /\ k + 2 <= z.chain

KeptHeader ==
  /\ disk.size >= 1 /\ HdrKept(base, Req(job), disk.sec[0].hdr)
  /\ HdrKept(base, Req(job), W[0].hdr)
  /\ pc = "parsed" /\ job.res # "FR_OK" => fp.err
  /\ pc = "write_fatcrypt_header" => fp.err
  /\ pc # "header_written"

KeptRoom ==
  /\ Room(base, disk) /\ Room(base, mem)
  /\ pc # "idle" => \A k \in Openable(base) : End(k) <= fp.size

KeptParts ==
  /\ OnDisk(base, Req(job), disk.sec)
  /\ pc # "idle" =>
       InFile(base, Req(job), W, job.blk, pc \in Syncing /\ job.ret = "EIO")

\* The cells of a partly written block that the write leaves alone.
KeptOld ==
  pc \in {"seek_again", "put_block"} /\ ~fp.err /\ job.blk \in Openable(base) /\ ~Whole(job)
    => job.old[1] = base.sec[job.blk + 1].tail.a /\ job.old[2] = base.sec[job.blk + 1].tail.b

Keeps == job.op = "write" /\ HasHeader(base)

Kept == Keeps => KeptHeader /\ KeptRoom /\ KeptParts /\ KeptOld

IInv == Typed /\ Cached /\ Buffered /\ Sized /\ Flow /\ Headed /\ Done /\ Kept
-----------------------------------------------------------------------------
\* A set whose members are all equal has at most one.
LEMMA AtMostOne ==
  ASSUME NEW S, \A x, y \in S : x = y
  PROVE  Cardinality(S) <= 1
  <1>1. CASE S = {}
    BY <1>1, FS_EmptySet
  <1>2. CASE S # {}
    <2>1. PICK x \in S : TRUE
      BY <1>2
    <2>2. S = {x}
      BY <2>1
    <2> QED BY <2>2, FS_Singleton
  <1> QED BY <1>1, <1>2

\* A block is two cells, a cluster two parts.
LEMMA Halves ==
  /\ \A c \in Nat : BlockOf(c) \in Nat /\ 2 * BlockOf(c) <= c /\ c <= 2 * BlockOf(c) + 1
  /\ \A p \in Nat : ClustersFor(p) \in Nat /\ p <= 2 * ClustersFor(p) /\ 2 * ClustersFor(p) <= p + 1
  BY DEF BlockOf, ClustersFor

\* The clusters up to the start and the end of a block; more parts, more clusters.
LEMMA ClusterCounts ==
  /\ ClustersFor(0) = 0 /\ ClustersFor(1) = 1
  /\ \A k \in Nat : ClustersFor(Start(k)) = k + 1 /\ ClustersFor(End(k)) = k + 2
  /\ \A p, q \in Nat : p <= q => ClustersFor(p) <= ClustersFor(q)
  <1>1. ClustersFor(0) = 0 /\ ClustersFor(1) = 1
    BY DEF ClustersFor
  <1>2. ASSUME NEW k \in Nat
        PROVE  ClustersFor(Start(k)) = k + 1 /\ ClustersFor(End(k)) = k + 2
    BY DEF ClustersFor, Start, End
  <1>3. ASSUME NEW p \in Nat, NEW q \in Nat, p <= q
        PROVE  ClustersFor(p) <= ClustersFor(q)
    BY <1>3 DEF ClustersFor
  <1> QED BY <1>1, <1>2, <1>3

\* The cells of block k are 2k and 2k+1.
LEMMA CellBlocks ==
  \A k \in Nat : BlockOf(2 * k) = k /\ BlockOf(2 * k + 1) = k
  BY DEF BlockOf

\* Writing the dirty buffer back changes one sector and neither size nor chain.
LEMMA FlushedFacts ==
  ASSUME NEW f \in FileT, NEW d \in Device, f.dirty => f.sect \in Sectors
  PROVE  /\ Flushed(f, d) \in Device
         /\ Flushed(f, d).size = d.size /\ Flushed(f, d).chain = d.chain
         /\ ~f.dirty => Flushed(f, d) = d
         /\ f.dirty => Flushed(f, d).sec[f.sect] = f.buf
         /\ \A s \in Sectors : ~f.dirty \/ s # f.sect => Flushed(f, d).sec[s] = d.sec[s]
  <1>1. CASE ~f.dirty
    BY <1>1 DEF Flushed
  <1>2. CASE f.dirty
    <2>1. f.sect \in Sectors /\ f.buf \in Sector
      BY <1>2 DEF FileT
    <2>2. Flushed(f, d) = [d EXCEPT !.sec = [d.sec EXCEPT ![f.sect] = f.buf]]
      BY <1>2 DEF Flushed
    <2>3. d.sec \in [Sectors -> Sector]
      BY DEF Device
    <2> QED BY <1>2, <2>1, <2>2, <2>3 DEF Device
  <1> QED BY <1>1, <1>2

\* What a write-back and a read may do to the file and the device: what the
\* file holds in effect does not change, and after an error fp->err is set.
Moved(f, d, s, o) ==
  /\ o = Outcome(o.ok, o.fault, o.fp, o.disk)
  /\ o.ok \in BOOLEAN /\ o.fault \in BOOLEAN
  /\ o.fp \in FileT /\ o.disk \in Device
  /\ Coherent(o.fp, o.disk)
  /\ Flushed(o.fp, o.disk) = Flushed(f, d)
  /\ o.disk \in {d, Flushed(f, d)}
  /\ o.fp.size = f.size /\ o.fp.modified = f.modified
  /\ o.fp.sect \in {f.sect, s}
  /\ f.err => ~o.ok
  /\ o.ok => o.fp.sect = s /\ ~o.fp.err /\ o.fp.buf = Flushed(f, d).sec[s]
  /\ ~o.ok => o.fp.err

\* ABORT sets fp->err and nothing else.
LEMMA AbortFacts ==
  ASSUME NEW f \in FileT
  PROVE  /\ Abort(f) \in FileT /\ Abort(f).err
         /\ Abort(f).size = f.size /\ Abort(f).modified = f.modified
         /\ Abort(f).sect = f.sect /\ Abort(f).buf = f.buf /\ Abort(f).dirty = f.dirty
  BY DEF Abort, FileT

\* A write-back that fails leaves the file what it is in effect.
LEMMA FlushFailsFacts ==
  ASSUME NEW f \in FileT, NEW d \in Device, Coherent(f, d), NEW o \in FlushFails(f, d), NEW s \in Sectors
  PROVE  Moved(f, d, s, o) /\ ~o.ok /\ o.fp = Abort(f)
  <1>1. /\ f.dirty /\ f.sect \in Sectors
        /\ \E x \in {d, Flushed(f, d)} : o = Outcome(FALSE, TRUE, Abort(f), x)
    BY DEF FlushFails, Coherent
  <1>2. o.ok = FALSE /\ o.fault = TRUE /\ o.fp = Abort(f) /\ o.disk \in {d, Flushed(f, d)}
    BY <1>1 DEF Outcome
  <1>3. Flushed(f, d) \in Device /\ Flushed(f, d).sec[f.sect] = f.buf
    BY <1>1, FlushedFacts
  <1>4. /\ Flushed(Abort(f), d) = Flushed(f, d)
        /\ Flushed(Abort(f), Flushed(f, d)) = Flushed(f, d)
    <2>1. /\ Flushed(Abort(f), d) = [d EXCEPT !.sec[f.sect] = f.buf]
          /\ Flushed(f, d) = [d EXCEPT !.sec[f.sect] = f.buf]
          /\ Flushed(Abort(f), Flushed(f, d)) = [Flushed(f, d) EXCEPT !.sec[f.sect] = f.buf]
      BY <1>1, AbortFacts DEF Flushed
    <2>2. [Flushed(f, d) EXCEPT !.sec[f.sect] = f.buf] = Flushed(f, d)
      BY <1>1, <1>3 DEF Device
    <2> QED BY <2>1, <2>2
  <1>5. Coherent(o.fp, o.disk)
    BY <1>1, <1>2, AbortFacts DEF Coherent
  <1>6. o = Outcome(o.ok, o.fault, o.fp, o.disk)
    BY <1>1 DEF Outcome
  <1> QED BY <1>2, <1>3, <1>4, <1>5, <1>6, AbortFacts DEF Moved

\* So does any move of the sector buffer.
LEMMA MoveFacts ==
  ASSUME NEW f \in FileT, NEW d \in Device, Coherent(f, d), NEW s \in Sectors, NEW o \in Move(f, d, s)
  PROVE  Moved(f, d, s, o)
  <1> DEFINE w == Flushed(f, d)
             clean == [f EXCEPT !.dirty = FALSE]
             read == [clean EXCEPT !.sect = s, !.buf = w.sec[s]]
  <1>1. w \in Device
    BY FlushedFacts DEF Coherent
  <1>2. w.sec[s] \in Sector
    BY <1>1 DEF Device
  <1>3. CASE f.err
    <2>1. o = Outcome(FALSE, FALSE, f, d)
      BY <1>3 DEF Move
    <2>2. o.ok = FALSE /\ o.fault = FALSE /\ o.fp = f /\ o.disk = d
      BY <2>1 DEF Outcome
    <2> QED BY <1>3, <2>1, <2>2 DEF Moved
  <1>4. CASE ~f.err /\ f.sect = s
    <2>1. o = Outcome(TRUE, FALSE, f, d)
      BY <1>4 DEF Move
    <2>2. f.buf = w.sec[s]
      BY <1>4, FlushedFacts DEF Coherent
    <2>3. o.ok = TRUE /\ o.fault = FALSE /\ o.fp = f /\ o.disk = d
      BY <2>1 DEF Outcome
    <2> QED BY <1>4, <2>1, <2>2, <2>3 DEF Moved
  <1>5. CASE ~f.err /\ f.sect # s
    <2>1. /\ clean \in FileT /\ ~clean.dirty /\ clean.sect = f.sect /\ clean.buf = f.buf
          /\ clean.size = f.size /\ clean.modified = f.modified /\ clean.err = f.err
      BY DEF FileT
    <2>2. /\ read \in FileT /\ ~read.dirty /\ read.sect = s /\ read.buf = w.sec[s]
          /\ read.size = f.size /\ read.modified = f.modified /\ read.err = f.err
      BY <1>2 DEF FileT
    <2>3. \/ o = Outcome(TRUE, FALSE, read, w)
          \/ o = Outcome(FALSE, TRUE, Abort(clean), w)
          \/ o \in FlushFails(f, d)
      BY <1>5 DEF Move
    <2>4. CASE o = Outcome(TRUE, FALSE, read, w)
      <3>1. o.ok = TRUE /\ o.fault = FALSE /\ o.fp = read /\ o.disk = w
        BY <2>4 DEF Outcome
      <3>2. Flushed(read, w) = w /\ Coherent(read, w)
        BY <2>2 DEF Flushed, Coherent
      <3>3. o = Outcome(o.ok, o.fault, o.fp, o.disk)
        BY <2>4, <3>1
      <3> HIDE DEF read, w, clean
      <3> QED BY <1>1, <1>5, <2>2, <3>1, <3>2, <3>3 DEF Moved, w
    <2>5. CASE o = Outcome(FALSE, TRUE, Abort(clean), w)
      <3>1. o.ok = FALSE /\ o.fault = TRUE /\ o.fp = Abort(clean) /\ o.disk = w
        BY <2>5 DEF Outcome
      <3>2. /\ Abort(clean) \in FileT /\ Abort(clean).err /\ ~Abort(clean).dirty
            /\ Abort(clean).size = f.size /\ Abort(clean).modified = f.modified
            /\ Abort(clean).sect = f.sect /\ Abort(clean).buf = f.buf
        BY <2>1, AbortFacts
      <3>3. f.sect \in Sectors => f.buf = w.sec[f.sect]
        BY FlushedFacts DEF Coherent
      <3>4. Flushed(Abort(clean), w) = w /\ Coherent(Abort(clean), w)
        BY <3>2, <3>3 DEF Flushed, Coherent
      <3>5. o = Outcome(o.ok, o.fault, o.fp, o.disk)
        BY <2>5, <3>1
      <3> HIDE DEF w, clean
      <3> QED BY <1>1, <3>1, <3>2, <3>4, <3>5 DEF Moved, w
    <2>6. CASE o \in FlushFails(f, d)
      BY <2>6, FlushFailsFacts
    <2> QED BY <2>3, <2>4, <2>5, <2>6
  <1> QED BY <1>3, <1>4, <1>5

\* create_chain keeps the sectors the chain had, and the window keeps what the
\* device does not have.
LEMMA LinkedFacts ==
  ASSUME NEW m \in MemT, NEW d \in Device, NEW pos \in Nat, ClustersFor(pos) <= Blocks + 1,
         NEW g \in Linked(m, d, pos)
  PROVE  /\ g.mem \in MemT /\ g.disk \in Device
         /\ g.mem.size = m.size /\ g.mem.chain = MaxOf(m.chain, ClustersFor(pos))
         /\ g.disk.chain = d.chain
         /\ g.disk.size \in {d.size, m.size}
         /\ m.win = "ent" /\ g.mem.win # "ent" => g.disk.size = m.size
         /\ m.win # "ent" => g.disk.size = d.size /\ g.mem.win # "ent"
         /\ g.mem.win # "fat" => g.mem.chain = m.chain /\ m.win # "fat"
         /\ g.mem.win = "ent" => g.disk.size = d.size
         /\ \A s \in Sectors : s < m.chain => g.disk.sec[s] = d.sec[s]
  <1> DEFINE n == ClustersFor(pos)
             v == IF m.win = "ent" THEN [d EXCEPT !.size = m.size] ELSE d
             junk == [v EXCEPT !.sec = [s \in Sectors |-> IF s \in m.chain .. n - 1
                                                            THEN JunkSector ELSE v.sec[s]]]
             moved == [m EXCEPT !.win = IF @ = "ent" THEN "clean" ELSE @]
             long == [m EXCEPT !.chain = n, !.win = "fat"]
  <1>1. n \in Nat /\ n <= Blocks + 1
    BY Halves
  <1>2. JunkSector \in Sector
    BY SectorAssumption DEF JunkSector, Sector, NoHeader, NoHead, NoTail, Cell
  <1>3. /\ v \in Device /\ v.chain = d.chain /\ v.sec = d.sec
        /\ v.size = IF m.win = "ent" THEN m.size ELSE d.size
    BY DEF Device, MemT
  <1>4. /\ junk \in Device /\ junk.chain = d.chain /\ junk.size = v.size
        /\ \A s \in Sectors : s < m.chain => junk.sec[s] = d.sec[s]
    <2>1. v.sec \in [Sectors -> Sector] /\ m.chain \in Nat
      BY <1>3 DEF Device, MemT
    <2> DEFINE js == [s \in Sectors |-> IF s \in m.chain .. n - 1 THEN JunkSector ELSE v.sec[s]]
    <2>2. js \in [Sectors -> Sector]
      BY <1>2, <2>1
    <2>3. \A s \in Sectors : s < m.chain => js[s] = d.sec[s]
      <3> SUFFICES ASSUME NEW s \in Sectors, s < m.chain PROVE js[s] = d.sec[s]
        OBVIOUS
      <3>1. s \notin m.chain .. n - 1
        BY <1>1, <2>1, SectorAssumption DEF Sectors
      <3> QED BY <1>3, <3>1
    <2>4. junk = [v EXCEPT !.sec = js]
      OBVIOUS
    <2> HIDE DEF js, junk, v
    <2> QED BY <1>3, <2>2, <2>3, <2>4 DEF Device
  <1>5. /\ moved \in MemT /\ moved.size = m.size /\ moved.chain = m.chain
        /\ moved.win = IF m.win = "ent" THEN "clean" ELSE m.win
    BY DEF MemT
  <1>6. long \in MemT /\ long.size = m.size /\ long.chain = n /\ long.win = "fat"
    <2>1. n \in 0 .. Blocks + 1
      BY <1>1, SectorAssumption
    <2> HIDE DEF n
    <2> QED BY <2>1 DEF MemT
  <1>7. \/ n <= m.chain /\ g = [mem |-> m, disk |-> d]
        \/ n <= m.chain /\ g = [mem |-> moved, disk |-> v]
        \/ ~(n <= m.chain) /\ g = [mem |-> long, disk |-> v]
        \/ ~(n <= m.chain) /\ g = [mem |-> long, disk |-> junk]
    BY DEF Linked
  <1>8. m.chain \in Nat /\ m.win \in {"clean", "fat", "ent"}
    BY DEF MemT
  <1>9. MaxOf(m.chain, n) = IF n <= m.chain THEN m.chain ELSE n
    BY <1>1, <1>8 DEF MaxOf
  <1> HIDE DEF n, v, junk, moved, long
  <1>10. CASE n <= m.chain /\ g = [mem |-> m, disk |-> d]
    BY <1>9, <1>10 DEF n
  <1>11. CASE n <= m.chain /\ g = [mem |-> moved, disk |-> v]
    BY <1>3, <1>5, <1>8, <1>9, <1>11 DEF n
  <1>12. CASE ~(n <= m.chain) /\ g = [mem |-> long, disk |-> v]
    BY <1>3, <1>6, <1>8, <1>9, <1>12 DEF n
  <1>13. CASE ~(n <= m.chain) /\ g = [mem |-> long, disk |-> junk]
    BY <1>3, <1>4, <1>6, <1>8, <1>9, <1>13 DEF n
  <1> QED BY <1>7, <1>10, <1>11, <1>12, <1>13

\* The parts f_crypt_write makes of a block have their types.
LEMMA NewPartFacts ==
  ASSUME NEW j \in JobT
  PROVE  /\ NewA(j) \in Cell /\ NewB(j) \in Cell
         /\ NewA(j) = IF 2 * j.blk \in Span(j) THEN j.val ELSE j.old[1]
         /\ NewB(j) = IF 2 * j.blk + 1 \in Span(j) THEN j.val ELSE j.old[2]
         /\ NewHead(j) \in [nonce : 0 .. MaxNonce, idx : Nat, a : Cell]
         /\ NewTail(j) \in [nonce : 0 .. MaxNonce, idx : Nat, a : Cell, b : Cell]
  <1>1. /\ j.blk \in Nat /\ j.val \in Cell /\ j.old \in Cell \X Cell
        /\ j.hdr.nonce \in 0 .. MaxNonce
    BY DEF JobT, HeaderT
  <1>2. (2 * j.blk) % 2 = 0 /\ (2 * j.blk + 1) % 2 = 1
    BY <1>1
  <1>3. j.old[1] \in Cell /\ j.old[2] \in Cell
    BY <1>1
  <1>4. /\ NewA(j) = IF 2 * j.blk \in Span(j) THEN j.val ELSE j.old[1]
        /\ NewB(j) = IF 2 * j.blk + 1 \in Span(j) THEN j.val ELSE j.old[2]
    BY <1>2 DEF NewA, NewB, NewCell
  <1>5. NewA(j) \in Cell /\ NewB(j) \in Cell
    BY <1>1, <1>3, <1>4
  <1> QED BY <1>1, <1>4, <1>5 DEF NewHead, NewTail

\* Sector s with a new start of block s.
WithHead(sec, h) == [sec EXCEPT !.head = h]

\* What f_write of block j.blk does to what the file holds in effect.
Put(j, f, d, o) ==
  LET k == j.blk
      w == Flushed(f, d).sec
      x == Flushed(o.fp, o.disk).sec
  IN  /\ o.ok \in BOOLEAN /\ o.fault \in BOOLEAN
      /\ o.fp \in FileT /\ o.disk \in Device
      /\ Coherent(o.fp, o.disk)
      /\ o.disk.size = d.size /\ o.disk.chain = d.chain
      /\ o.fp.sect \in {k, k + 1}
      /\ \/ o.disk.sec = d.sec
         \/ /\ \A s \in Sectors : s # k => o.disk.sec[s] = w[s]
            /\ o.disk.sec[k] = WithHead(w[k], NewHead(j))
      /\ \A s \in Sectors \ {k, k + 1} : x[s] = w[s]
      /\ x[k] = WithHead(w[k], NewHead(j))
      /\ o.ok =>
           /\ o.fp.sect = k + 1 /\ o.fp.modified /\ ~o.fp.err
           /\ o.fp.size = MaxOf(f.size, End(k))
           /\ x[k + 1].tail = NewTail(j)
           /\ f.size > Start(k) + 1 => x[k + 1].head = w[k + 1].head
      /\ ~o.ok =>
           /\ o.fp.err /\ o.fp.size = MaxOf(f.size, Start(k) + 1)
           /\ x[k + 1] = w[k + 1]

\* f_write of a block: which sectors it changes, in effect and on the device.
LEMMA PutBlockFacts ==
  ASSUME NEW j \in JobT, NEW f \in FileT, NEW d \in Device, Coherent(f, d),
         j.blk \in 0 .. Blocks - 1, f.sect = j.blk, ~f.err, NEW o \in PutBlock(j, f, d)
  PROVE  Put(j, f, d, o)
  <1> DEFINE k == j.blk
             w == Flushed(f, d).sec
             f1 == [f EXCEPT !.buf.head = NewHead(j), !.dirty = TRUE,
                             !.size = MaxOf(@, Start(k) + 1)]
             w1 == Flushed(f1, d)
             jump == Outcome(TRUE, FALSE, [f1 EXCEPT !.sect = k + 1], w1)
             WithEnd(g) == [g EXCEPT !.buf.tail = NewTail(j), !.dirty = TRUE, !.modified = TRUE,
                                     !.size = MaxOf(@, End(k))]
  <1>1. /\ k \in Nat /\ k \in Sectors /\ k + 1 \in Sectors /\ k # k + 1
        /\ Start(k) + 1 = 2 * k + 2 /\ End(k) = 2 * k + 3 /\ End(Blocks - 1) = 2 * Blocks + 1
    BY SectorAssumption DEF Sectors, Start, End
  <1>2. w \in [Sectors -> Sector] /\ w[k] = f.buf
    <2>1. w[k] = f.buf
      BY <1>1, FlushedFacts DEF Coherent
    <2>2. Flushed(f, d) \in Device
      BY FlushedFacts DEF Coherent
    <2> QED BY <2>1, <2>2 DEF Device
  <1>3. f.size \in 0 .. 2 * Blocks + 1 /\ f.buf \in Sector
    BY <1>1 DEF FileT
  <1>4. /\ MaxOf(f.size, Start(k) + 1) \in 0 .. 2 * Blocks + 1
        /\ MaxOf(f.size, Start(k) + 1) \in Nat
        /\ MaxOf(MaxOf(f.size, Start(k) + 1), End(k)) = MaxOf(f.size, End(k))
        /\ MaxOf(f.size, End(k)) \in 0 .. 2 * Blocks + 1
    BY <1>1, <1>3, SectorAssumption DEF MaxOf
  <1>5. /\ f1 \in FileT /\ f1.sect = k /\ f1.dirty /\ ~f1.err
        /\ f1.buf = WithHead(f.buf, NewHead(j))
        /\ f1.size = MaxOf(f.size, Start(k) + 1) /\ f1.modified = f.modified
    <2>1. WithHead(f.buf, NewHead(j)) \in Sector
      BY <1>3, NewPartFacts DEF Sector, WithHead
    <2>2. f1 = [f EXCEPT !.buf = WithHead(f.buf, NewHead(j)), !.dirty = TRUE,
                         !.size = MaxOf(f.size, Start(k) + 1)]
      BY DEF FileT, WithHead
    <2> HIDE DEF f1, k
    <2> QED BY <1>1, <1>4, <2>1, <2>2 DEF FileT, k
  <1>6. Coherent(f1, d)
    BY <1>1, <1>5 DEF Coherent
  <1>7. /\ w1 \in Device /\ w1.size = d.size /\ w1.chain = d.chain
        /\ w1.sec[k] = WithHead(w[k], NewHead(j))
        /\ \A s \in Sectors : s # k => w1.sec[s] = w[s]
    <2> HIDE DEF f1
    <2>1. /\ w1 \in Device /\ w1.size = d.size /\ w1.chain = d.chain
          /\ w1.sec[k] = WithHead(w[k], NewHead(j))
      BY <1>1, <1>2, <1>5, FlushedFacts
    <2>2. ASSUME NEW s \in Sectors, s # k PROVE w1.sec[s] = w[s]
      <3>1. w1.sec[s] = d.sec[s]
        BY <1>1, <1>5, <2>2, FlushedFacts
      <3>2. w[s] = d.sec[s]
        BY <2>2, FlushedFacts DEF Coherent
      <3> QED BY <3>1, <3>2
    <2> QED BY <2>1, <2>2
  <1>8. \E n : /\ o = IF n.ok THEN [n EXCEPT !.fp = WithEnd(n.fp)] ELSE n
               /\ \/ f1.size > Start(k) + 1 /\ n \in Move(f1, d, k + 1)
                  \/ ~(f1.size > Start(k) + 1) /\ n = jump
                  \/ ~(f1.size > Start(k) + 1) /\ n \in FlushFails(f1, d)
    BY DEF PutBlock
  <1> HIDE DEF f1, w1
  <1>9. PICK n : /\ o = IF n.ok THEN [n EXCEPT !.fp = WithEnd(n.fp)] ELSE n
                 /\ \/ f1.size > Start(k) + 1 /\ n \in Move(f1, d, k + 1)
                    \/ ~(f1.size > Start(k) + 1) /\ n = jump
                    \/ ~(f1.size > Start(k) + 1) /\ n \in FlushFails(f1, d)
    BY <1>8
  <1>10. ASSUME n = Outcome(TRUE, n.fault, n.fp, n.disk), n.fault \in BOOLEAN,
                n.fp \in FileT, n.fp.sect = k + 1, ~n.fp.err, n.fp.size = f1.size,
                n.disk \in Device, n.disk \in {d, w1},
                \A s \in Sectors : s # k + 1 => n.disk.sec[s] = w1.sec[s],
                f.size > Start(k) + 1 => n.fp.buf = w1.sec[k + 1]
         PROVE  Put(j, f, d, o)
    <2>1. n.ok = TRUE
      BY <1>10 DEF Outcome
    <2>2. o.ok = TRUE /\ o.fault = n.fault /\ o.disk = n.disk /\ o.fp = WithEnd(n.fp)
      BY <1>9, <1>10, <2>1 DEF Outcome
    <2>3. /\ o.fp \in FileT /\ o.fp.sect = k + 1 /\ o.fp.dirty /\ o.fp.modified /\ ~o.fp.err
          /\ o.fp.size = MaxOf(f.size, End(k))
          /\ o.fp.buf = [n.fp.buf EXCEPT !.tail = NewTail(j)]
      <3>1. n.fp.buf \in Sector /\ MaxOf(n.fp.size, End(k)) = MaxOf(f.size, End(k))
        BY <1>4, <1>5, <1>10 DEF FileT
      <3>2. [n.fp.buf EXCEPT !.tail = NewTail(j)] \in Sector
        BY <3>1, NewPartFacts DEF Sector
      <3>3. WithEnd(n.fp) = [n.fp EXCEPT !.buf = [n.fp.buf EXCEPT !.tail = NewTail(j)],
                                         !.dirty = TRUE, !.modified = TRUE,
                                         !.size = MaxOf(f.size, End(k))]
        BY <1>10, <3>1 DEF FileT
      <3> DEFINE e == [n.fp.buf EXCEPT !.tail = NewTail(j)]
                 z == MaxOf(f.size, End(k))
      <3>4. o.fp = [n.fp EXCEPT !.buf = e, !.dirty = TRUE, !.modified = TRUE, !.size = z]
        BY <2>2, <3>3
      <3>5. e \in Sector /\ z \in 0 .. End(Blocks - 1)
        BY <1>1, <1>4, <3>2
      <3>6. n.fp \in FileT /\ n.fp.sect = k + 1 /\ ~n.fp.err
        BY <1>10
      <3> HIDE DEF WithEnd, k, e, z
      <3>7. /\ o.fp \in FileT /\ o.fp.sect = k + 1 /\ o.fp.dirty /\ o.fp.modified /\ ~o.fp.err
            /\ o.fp.size = z /\ o.fp.buf = e
        BY <3>4, <3>5, <3>6 DEF FileT
      <3> QED BY <3>7 DEF e, z
    <2>4. o.fp.buf.tail = NewTail(j) /\ o.fp.buf.head = n.fp.buf.head
      <3>1. n.fp.buf \in Sector
        BY <1>10 DEF FileT
      <3> QED BY <2>3, <3>1 DEF Sector
    <2> DEFINE x == Flushed(o.fp, o.disk).sec
    <2>5. x[k + 1] = o.fp.buf /\ \A s \in Sectors : s # k + 1 => x[s] = n.disk.sec[s]
      <3>1. o.fp \in FileT /\ o.disk \in Device /\ o.fp.dirty /\ o.fp.sect = k + 1 /\ k + 1 \in Sectors
        BY <1>1, <1>10, <2>2, <2>3
      <3>2. x[k + 1] = o.fp.buf /\ \A s \in Sectors : s # k + 1 => x[s] = o.disk.sec[s]
        BY <3>1, FlushedFacts
      <3> QED BY <2>2, <3>2
    <2>6. Coherent(o.fp, o.disk)
      BY <1>1, <2>3 DEF Coherent
    <2>7. WithHead(w[k], NewHead(j)) = x[k] /\ \A s \in Sectors \ {k, k + 1} : x[s] = w[s]
      BY <1>1, <1>7, <1>10, <2>5
    <2>8. f.size > Start(k) + 1 => x[k + 1].head = w[k + 1].head
      BY <1>1, <1>7, <1>10, <2>4, <2>5
    <2>9. \/ o.disk.sec = d.sec
          \/ /\ \A s \in Sectors : s # k => o.disk.sec[s] = w[s]
             /\ o.disk.sec[k] = WithHead(w[k], NewHead(j))
      BY <1>7, <1>10, <2>2
    <2>10. o.disk.size = d.size /\ o.disk.chain = d.chain
      BY <1>7, <1>10, <2>2
    <2> HIDE DEF x
    <2> QED BY <1>10, <2>2, <2>3, <2>4, <2>5, <2>6, <2>7, <2>8, <2>9, <2>10 DEF Put, x
  <1>11. ASSUME Moved(f1, d, k + 1, n), ~n.ok PROVE Put(j, f, d, o)
    <2>1. o = n
      BY <1>9, <1>11
    <2>2. Flushed(o.fp, o.disk) = w1 /\ o.disk \in {d, w1}
      BY <1>11, <2>1 DEF Moved, w1
    <2>3. /\ \A s \in Sectors \ {k, k + 1} : w1.sec[s] = w[s]
          /\ w1.sec[k + 1] = w[k + 1]
      BY <1>1, <1>7
    <2>4. o.fp.sect \in {k, k + 1} /\ o.fp.size = MaxOf(f.size, Start(k) + 1)
      BY <1>5, <1>11, <2>1 DEF Moved
    <2>5. o.disk.size = d.size /\ o.disk.chain = d.chain
      BY <1>7, <2>2
    <2>6. /\ o.ok = FALSE /\ o.fault \in BOOLEAN /\ o.fp \in FileT /\ o.disk \in Device
          /\ Coherent(o.fp, o.disk) /\ o.fp.err
      BY <1>11, <2>1 DEF Moved
    <2> QED BY <1>7, <2>2, <2>3, <2>4, <2>5, <2>6 DEF Put
  <1>12. CASE f1.size > Start(k) + 1 /\ n \in Move(f1, d, k + 1)
    <2>1. Moved(f1, d, k + 1, n)
      BY <1>1, <1>5, <1>6, <1>12, MoveFacts
    <2>2. CASE n.ok
      <3>1. /\ n = Outcome(TRUE, n.fault, n.fp, n.disk) /\ n.fault \in BOOLEAN
            /\ n.fp \in FileT /\ n.fp.sect = k + 1 /\ ~n.fp.err /\ n.fp.size = f1.size
            /\ n.disk \in Device /\ n.disk \in {d, w1} /\ n.fp.buf = w1.sec[k + 1]
            /\ Coherent(n.fp, n.disk) /\ Flushed(n.fp, n.disk) = w1
        BY <2>1, <2>2 DEF Moved, w1
      <3>2. \A s \in Sectors : s # k + 1 => n.disk.sec[s] = w1.sec[s]
        BY <3>1, FlushedFacts DEF Coherent
      <3> QED BY <3>1, <3>2, <1>10
    <2> QED BY <1>11, <2>1, <2>2
  <1>13. CASE ~(f1.size > Start(k) + 1) /\ n = jump
    <2> DEFINE g == [f1 EXCEPT !.sect = k + 1]
    <2>1. g \in FileT /\ g.sect = k + 1 /\ ~g.err /\ g.size = f1.size
      <3> HIDE DEF k
      <3> QED BY <1>1, <1>5 DEF FileT
    <2>2. n.fault = FALSE /\ n.fp = g /\ n.disk = w1 /\ n = Outcome(TRUE, FALSE, g, w1)
      BY <1>13 DEF Outcome
    <2>3. ~(f.size > Start(k) + 1)
      BY <1>1, <1>3, <1>5, <1>13 DEF MaxOf
    <2> HIDE DEF g
    <2> QED BY <1>7, <1>10, <2>1, <2>2, <2>3
  <1>14. CASE ~(f1.size > Start(k) + 1) /\ n \in FlushFails(f1, d)
    BY <1>1, <1>5, <1>6, <1>11, <1>14, FlushFailsFacts
  <1> QED BY <1>9, <1>12, <1>13, <1>14

-----------------------------------------------------------------------------
(* Facts about the parts of the invariant.                                 *)

\* The types of the device, the window and the file, field by field.
LEMMA DeviceFacts ==
  ASSUME NEW d \in Device
  PROVE  /\ d.sec \in [Sectors -> Sector]
         /\ d.size \in 0 .. 2 * Blocks + 1 /\ d.chain \in 0 .. Blocks + 1
  BY SectorAssumption DEF Device, End

\* As above, for the window.
LEMMA MemFacts ==
  ASSUME NEW m \in MemT
  PROVE  /\ m.size \in 0 .. 2 * Blocks + 1 /\ m.chain \in 0 .. Blocks + 1
         /\ m.win \in {"clean", "fat", "ent"}
  BY SectorAssumption DEF MemT, End

\* As above, for the open file.
LEMMA FileFacts ==
  ASSUME NEW f \in FileT
  PROVE  /\ f.size \in 0 .. 2 * Blocks + 1 /\ f.buf \in Sector
         /\ f.sect \in Sectors \cup {NoSector}
         /\ f.dirty \in BOOLEAN /\ f.modified \in BOOLEAN /\ f.err \in BOOLEAN
  BY SectorAssumption DEF FileT, End

\* Where blocks start and end, and that they lie in the sectors there are.
LEMMA Positions ==
  /\ \A k \in Nat : Start(k) = 2 * k + 1 /\ End(k) = 2 * k + 3
  /\ \A k \in BlockSet : k \in Nat /\ k \in Sectors /\ k + 1 \in Sectors /\ k < Blocks
  /\ 0 \in Sectors /\ 0 \in BlockSet
  BY SectorAssumption DEF Start, End, BlockSet, Sectors

\* What it takes for a block to open.
LEMMA OpenableFacts ==
  ASSUME NEW b, NEW k \in Openable(b)
  PROVE  /\ k \in BlockSet /\ HasHeader(b) /\ b.size >= End(k) /\ b.chain >= k + 2
         /\ Authentic(b.sec[0].hdr.nonce, k, b.sec[k].head, b.sec[k + 1].tail)
  BY ClusterCounts, Positions DEF Openable, Opens

\* The parts of two lots of sectors below sector n are the same.
SameParts(x, w, n) ==
  \A s \in Sectors : s < n => x[s].head = w[s].head /\ x[s].tail = w[s].tail

\* The blocks stay what they are when the sectors of the chain do.
LEMMA SamePartsKeep ==
  ASSUME NEW b, NEW q, NEW x, NEW w, NEW n \in Nat, SameParts(x, w, n),
         \A k \in Openable(b) : k + 2 <= n
  PROVE  /\ OnDisk(b, q, w) => OnDisk(b, q, x)
         /\ \A blk, torn : InFile(b, q, w, blk, torn) => InFile(b, q, x, blk, torn)
  <1>1. ASSUME NEW k \in Openable(b)
        PROVE  x[k].head = w[k].head /\ x[k + 1].tail = w[k + 1].tail
    <2>1. k \in Nat /\ k \in Sectors /\ k + 1 \in Sectors /\ k + 2 <= n
      BY OpenableFacts, Positions
    <2> QED BY <2>1 DEF SameParts
  <1>2. ASSUME NEW k \in Openable(b)
        PROVE  /\ IsOld(b, x, k) <=> IsOld(b, w, k)
               /\ IsNew(b, q, x, k) <=> IsNew(b, q, w, k)
               /\ IsWhole(b, q, x, k) <=> IsWhole(b, q, w, k)
               /\ IsMixed(b, q, x, k) <=> IsMixed(b, q, w, k)
    BY <1>1 DEF IsOld, IsNew, IsWhole, IsMixed
  <1>3. OnDisk(b, q, w) => OnDisk(b, q, x)
    BY <1>2 DEF OnDisk
  <1>4. ASSUME NEW blk, NEW torn, InFile(b, q, w, blk, torn)
        PROVE  InFile(b, q, x, blk, torn)
    BY <1>1, <1>2, <1>4 DEF InFile
  <1> QED BY <1>3, <1>4

\* What holds of the file in effect may be on the device.
LEMMA InFileOnDisk ==
  ASSUME NEW b, NEW q, NEW w, NEW blk \in Nat, NEW torn, First(q) \in Nat, LastBlock(q) \in Nat,
         First(q) <= blk, blk <= LastBlock(q) + 1, InFile(b, q, w, blk, torn)
  PROVE  OnDisk(b, q, w)
  <1>1. ASSUME NEW k \in Openable(b), k # blk
        PROVE  IsWhole(b, q, w, k)
    <2>1. k \in Nat
      BY OpenableFacts, Positions
    <2> QED BY <1>1, <2>1 DEF InFile, IsWhole
  <1>2. ASSUME NEW k \in Openable(b), k = blk
        PROVE  IsWhole(b, q, w, k) \/ IsMixed(b, q, w, k)
    BY <1>2 DEF InFile, IsWhole, IsOld, IsMixed
  <1> QED BY <1>1, <1>2 DEF OnDisk

\* Blocks that were written stay so as the file grows.
LEMMA WrittenUpToSame ==
  ASSUME NEW q, NEW n, NEW x, NEW w, NEW blk \in Nat, NEW size \in Int, NEW size2 \in Int,
         NEW chain \in Int, NEW chain2 \in Int, First(q) \in Nat, blk <= Blocks,
         size <= size2, chain <= chain2, SameParts(x, w, chain),
         WrittenUpTo(q, n, w, blk, size, chain)
  PROVE  WrittenUpTo(q, n, x, blk, size2, chain2)
  <1> SUFFICES ASSUME NEW k \in First(q) .. blk - 1
               PROVE  Written(q, n, x, k) /\ End(k) <= size2 /\ k + 2 <= chain2
    BY DEF WrittenUpTo
  <1>1. Written(q, n, w, k) /\ End(k) <= size /\ k + 2 <= chain
    BY DEF WrittenUpTo
  <1>2. k \in Nat /\ k \in BlockSet /\ End(k) \in Nat
    BY Positions, SectorAssumption DEF BlockSet
  <1>3. x[k].head = w[k].head /\ x[k + 1].tail = w[k + 1].tail
    BY <1>1, <1>2, Positions DEF SameParts
  <1> QED BY <1>1, <1>2, <1>3 DEF Written

-----------------------------------------------------------------------------
(* A step that links clusters or moves the buffer.                         *)

\* As above, for the block at hand, whose start may have gone out.
LEMMA InFileTorn ==
  ASSUME NEW b, NEW q, NEW w, NEW blk, NEW torn, InFile(b, q, w, blk, FALSE)
  PROVE  InFile(b, q, w, blk, torn)
  BY DEF InFile

\* The fields and the range of a request.
LEMMA ReqFacts ==
  ASSUME NEW j
  PROVE  /\ Req(j).op = j.op /\ Req(j).off = j.off /\ Req(j).len = j.len /\ Req(j).val = j.val
         /\ First(Req(j)) = First(j) /\ LastBlock(Req(j)) = LastBlock(j)
         /\ Span(Req(j)) = Span(j)
  BY DEF Req, First, LastBlock, Span

\* As above, for its types.
LEMMA JobFacts ==
  ASSUME NEW j \in JobT
  PROVE  /\ j.off \in Nat /\ j.len \in Nat /\ j.blk \in Nat /\ j.val \in Cell
         /\ j.hdr \in HeaderT /\ j.hdr.nonce \in 0 .. MaxNonce /\ j.hdr.lsize \in Nat
         /\ First(j) \in Nat
         /\ j.len >= 1 => LastBlock(j) \in Nat /\ First(j) <= LastBlock(j)
         /\ j.len >= 1 /\ j.off + j.len <= 2 * Blocks => LastBlock(j) < Blocks
  <1>1. /\ j.off \in Nat /\ j.len \in Nat /\ j.blk \in Nat /\ j.val \in Cell
        /\ j.hdr \in HeaderT /\ j.hdr.nonce \in 0 .. MaxNonce /\ j.hdr.lsize \in Nat
    BY DEF JobT, HeaderT
  <1> QED BY <1>1, SectorAssumption DEF First, LastBlock, BlockOf

\* The window and the device after clusters were linked.
Relinked(m, d) ==
  /\ m \in MemT /\ d \in Device /\ CachedOn(m, d)
  /\ m.size = mem.size /\ m.chain >= mem.chain
  /\ d.chain = disk.chain /\ d.size \in {disk.size, mem.size}
  /\ \A s \in Sectors : s < mem.chain => d.sec[s] = disk.sec[s]

\* Whatever create_chain does, the window and the device stay in step; the
\* entry it may push out of the window does not reach past the chain.
LEMMA LinkedStep ==
  ASSUME Typed, Cached, NEW pos \in Nat, ClustersFor(pos) <= Blocks + 1,
         NEW g \in Linked(mem, disk, pos)
  PROVE  Relinked(g.mem, g.disk) /\ g.mem.chain >= ClustersFor(pos)
  <1>1. mem \in MemT /\ disk \in Device /\ CachedOn(mem, disk)
    BY DEF Typed, Cached
  <1>2. ClustersFor(pos) \in Nat /\ mem.chain \in Nat /\ mem.size \in Nat /\ disk.size \in Nat
    BY <1>1, Halves, MemFacts, DeviceFacts
  <1>3. /\ g.mem \in MemT /\ g.disk \in Device
        /\ g.mem.size = mem.size /\ g.mem.chain = MaxOf(mem.chain, ClustersFor(pos))
        /\ g.disk.chain = disk.chain
        /\ g.disk.size \in {disk.size, mem.size}
        /\ mem.win = "ent" /\ g.mem.win # "ent" => g.disk.size = mem.size
        /\ mem.win # "ent" => g.disk.size = disk.size /\ g.mem.win # "ent"
        /\ g.mem.win # "fat" => g.mem.chain = mem.chain /\ mem.win # "fat"
        /\ g.mem.win = "ent" => g.disk.size = disk.size
        /\ \A s \in Sectors : s < mem.chain => g.disk.sec[s] = disk.sec[s]
    BY <1>1, LinkedFacts
  <1>4. g.mem.chain >= mem.chain /\ g.mem.chain >= ClustersFor(pos) /\ g.mem.chain \in Nat
    BY <1>2, <1>3 DEF MaxOf
  <1>5. CachedOn(g.mem, g.disk)
    <2>1. mem.size \in Nat => ClustersFor(mem.size) \in Nat
      BY Halves
    <2> QED BY <1>1, <1>2, <1>3, <1>4, <2>1 DEF CachedOn
  <1> QED BY <1>3, <1>4, <1>5 DEF Relinked

\* Nothing linked is a special case.
LEMMA NotLinked ==
  ASSUME Typed, Cached PROVE Relinked(mem, disk)
  <1>1. mem.chain \in Nat
    BY MemFacts DEF Typed
  <1> QED BY <1>1 DEF Typed, Cached, Relinked

\* The state after a step that changes at most the header, past the chain or
\* the place of the buffer.
Glided(m, d, f) ==
  /\ m \in MemT /\ d \in Device /\ f \in FileT /\ CachedOn(m, d)
  /\ Coherent(f, d) /\ Placed(f, m.chain)
  /\ m.size = mem.size /\ m.chain >= mem.chain
  /\ d.chain = disk.chain /\ d.size \in {disk.size, mem.size}
  /\ SizedOn(f.size, m, d) /\ f.size >= fp.size
  /\ SameParts(Flushed(f, d).sec, W, mem.chain)
  /\ \/ \A s \in Sectors : s < mem.chain => d.sec[s] = disk.sec[s]
     \/ \A s \in Sectors : s < mem.chain => d.sec[s] = W[s]

\* f_lseek, f_read and f_write as far as they move the buffer, after create_chain.
LEMMA MoveStep ==
  ASSUME Typed, Buffered, NEW m, NEW d, Relinked(m, d),
         NEW f \in FileT, f.sect = fp.sect, f.buf = fp.buf, f.dirty = fp.dirty,
         f.size >= fp.size, SizedOn(f.size, m, d),
         NEW s \in Sectors, s < m.chain, NEW o \in Move(f, d, s)
  PROVE  /\ Glided(m, o.disk, o.fp)
         /\ Moved(f, d, s, o)
         /\ \A t \in Sectors : t < mem.chain => Flushed(o.fp, o.disk).sec[t] = W[t]
         /\ o.ok /\ s < mem.chain => o.fp.buf = W[s]
  <1>1. /\ fp \in FileT /\ disk \in Device /\ mem \in MemT /\ d \in Device /\ m \in MemT
        /\ Coherent(fp, disk) /\ Placed(fp, mem.chain)
    BY DEF Typed, Buffered, Relinked
  <1>2. mem.chain \in Nat /\ m.chain \in Nat /\ m.chain >= mem.chain
    BY <1>1, MemFacts DEF Relinked
  <1>3. Coherent(f, d)
    BY <1>1 DEF Coherent, Relinked, Placed
  <1>4. Moved(f, d, s, o)
    BY <1>3, <1>1, MoveFacts
  <1>5. \A t \in Sectors : t < mem.chain => Flushed(f, d).sec[t] = W[t]
    <2> SUFFICES ASSUME NEW t \in Sectors, t < mem.chain
                 PROVE  Flushed(f, d).sec[t] = W[t]
      OBVIOUS
    <2>1. d.sec[t] = disk.sec[t]
      BY DEF Relinked
    <2>2. CASE fp.dirty /\ fp.sect = t
      <3>1. f.dirty /\ f.sect = t /\ f.buf = fp.buf
        BY <2>2
      <3>2. Flushed(f, d).sec[t] = f.buf
        BY <1>1, <3>1, FlushedFacts
      <3>3. Flushed(fp, disk).sec[t] = fp.buf
        BY <1>1, <2>2, FlushedFacts
      <3> QED BY <3>1, <3>2, <3>3 DEF W
    <2>3. CASE ~(fp.dirty /\ fp.sect = t)
      <3>1. Flushed(f, d).sec[t] = d.sec[t]
        BY <1>1, <1>3, <2>3, FlushedFacts DEF Coherent
      <3>2. W[t] = disk.sec[t]
        BY <1>1, <2>3, FlushedFacts DEF W, Coherent
      <3> QED BY <2>1, <3>1, <3>2
    <2> QED BY <2>2, <2>3
  <1>6. \A t \in Sectors : t < mem.chain => Flushed(o.fp, o.disk).sec[t] = W[t]
    BY <1>4, <1>5 DEF Moved
  <1>7. o.fp \in FileT /\ o.disk \in Device /\ Coherent(o.fp, o.disk) /\ o.fp.size = f.size
    BY <1>4 DEF Moved
  <1>8. Placed(o.fp, m.chain)
    <2>1. o.fp.sect \in {fp.sect, s}
      BY <1>4 DEF Moved
    <2> QED BY <1>1, <1>2, <2>1 DEF Placed, Sectors
  <1>9. o.disk.size = d.size /\ o.disk.chain = d.chain
    BY <1>3, <1>1, <1>4, FlushedFacts DEF Moved, Coherent
  <1>10. \/ \A t \in Sectors : t < mem.chain => o.disk.sec[t] = disk.sec[t]
         \/ \A t \in Sectors : t < mem.chain => o.disk.sec[t] = W[t]
    BY <1>4, <1>5 DEF Moved, Relinked
  <1>11. CachedOn(m, o.disk) /\ SizedOn(o.fp.size, m, o.disk)
    BY <1>7, <1>9 DEF CachedOn, SizedOn, Relinked
  <1>12. o.ok /\ s < mem.chain => o.fp.buf = W[s]
    BY <1>4, <1>5 DEF Moved
  <1>13. SameParts(Flushed(o.fp, o.disk).sec, W, mem.chain)
    BY <1>6 DEF SameParts
  <1> QED BY <1>4, <1>6, <1>7, <1>8, <1>9, <1>10, <1>11, <1>12, <1>13 DEF Glided, Relinked

\* A move of the buffer keeps the parts of the invariant about what the file
\* holds in effect.
LEMMA GlidedStep ==
  ASSUME IInv, Glided(mem', disk', fp'), base' = base, Req(job') = Req(job), job'.blk = job.blk,
         job'.hdr.nonce = job.hdr.nonce \/ job.blk = First(job),
         pc \notin {"idle"} \cup Syncing, pc' \notin {"idle", "sync_fat", "sync_entry"}
  PROVE  /\ disk' \in Device /\ mem' \in MemT /\ fp' \in FileT
         /\ Cached' /\ Buffered' /\ Done'
         /\ SizedOn(fp'.size, mem', disk')
         /\ (Keeps <=> Keeps')
         /\ Keeps => /\ KeptRoom' /\ KeptParts'
                     /\ disk'.size >= 1 /\ HdrKept(base', Req(job'), disk'.sec[0].hdr)
  <1>1. /\ disk' \in Device /\ mem' \in MemT /\ fp' \in FileT
        /\ mem'.chain >= mem.chain /\ mem'.size = mem.size /\ fp'.size >= fp.size
        /\ disk'.chain = disk.chain /\ disk'.size \in {disk.size, mem.size}
        /\ SameParts(W', W, mem.chain)
        /\ SizedOn(fp'.size, mem', disk')
    BY DEF Glided, W
  <1>2. /\ job \in JobT /\ mem \in MemT /\ disk \in Device /\ fp \in FileT
        /\ mem.chain \in Nat /\ mem.size \in Nat /\ disk.size \in Nat
        /\ mem'.chain \in Nat /\ fp.size \in Nat /\ fp'.size \in Nat
    BY <1>1, MemFacts, DeviceFacts, FileFacts DEF IInv, Typed
  <1>3. Cached' /\ Buffered'
    BY DEF Glided, Cached, Buffered
  <1>4. /\ job'.op = job.op /\ job'.off = job.off /\ job'.len = job.len /\ job'.val = job.val
        /\ First(job') = First(job)
    BY ReqFacts
  <1>5. ASSUME job.op = "write"
        PROVE  /\ First(Req(job)) \in Nat /\ LastBlock(Req(job)) \in Nat /\ job.blk \in Nat
               /\ First(Req(job)) <= job.blk /\ job.blk <= LastBlock(Req(job)) + 1
               /\ job.blk <= Blocks
    <2>1. /\ job.len >= 1 /\ job.off + job.len <= 2 * Blocks
          /\ First(job) <= job.blk /\ job.blk <= LastBlock(job) + 1
      BY <1>5 DEF IInv, Flow
    <2> QED BY <1>2, <2>1, JobFacts, ReqFacts, SectorAssumption
  <1>6. Done'
    <2> SUFFICES ASSUME job.op = "write"
                 PROVE  WrittenUpTo(Req(job), job'.hdr.nonce, W', job.blk, fp'.size, mem'.chain)
      BY <1>4 DEF Done
    <2>1. CASE job'.hdr.nonce = job.hdr.nonce
      <3>1. WrittenUpTo(Req(job), job.hdr.nonce, W, job.blk, fp.size, mem.chain)
        BY DEF IInv, Done
      <3> HIDE DEF W
      <3> QED BY <1>1, <1>2, <1>5, <2>1, <3>1, WrittenUpToSame
    <2>2. CASE job.blk = First(job)
      <3>1. First(Req(job)) .. job.blk - 1 = {}
        BY <1>5, <2>2, ReqFacts
      <3> QED BY <3>1 DEF WrittenUpTo
    <2> QED BY <2>1, <2>2
  <1>7. Keeps <=> Keeps'
    BY <1>4 DEF Keeps
  <1>8. ASSUME Keeps
        PROVE  KeptRoom' /\ KeptParts'
               /\ disk'.size >= 1 /\ HdrKept(base', Req(job'), disk'.sec[0].hdr)
    <2>1. KeptHeader /\ KeptRoom /\ KeptParts /\ HasHeader(base)
      BY <1>8 DEF IInv, Kept, Keeps
    <2>2. \A k \in Openable(base) : /\ End(k) <= disk.size /\ End(k) <= mem.size /\ End(k) <= fp.size
                                    /\ k + 2 <= disk.chain /\ k + 2 <= mem.chain
                                    /\ End(k) \in Nat /\ k \in Nat
      BY <2>1, OpenableFacts, Positions DEF KeptRoom, Room
    <2>3. KeptRoom'
      <3> SUFFICES ASSUME NEW k \in Openable(base)
                   PROVE  /\ End(k) <= disk'.size /\ End(k) <= mem'.size /\ End(k) <= fp'.size
                          /\ k + 2 <= disk'.chain /\ k + 2 <= mem'.chain
        BY DEF KeptRoom, Room
      <3> QED BY <1>1, <1>2, <2>2
    <2>4. CachedOn(mem, disk)
      BY DEF IInv, Cached
    <2>5. disk.size >= 1 /\ mem.size >= 1 /\ mem.chain >= 1
      BY <1>2, <2>1, <2>4 DEF KeptHeader, CachedOn
    <2>6. disk'.size >= 1
      BY <1>1, <2>5
    <2>7. HdrKept(base', Req(job'), disk'.sec[0].hdr)
      <3>1. disk'.sec[0] \in {disk.sec[0], W[0]}
        BY <2>5, <1>2, Positions DEF Glided
      <3> QED BY <2>1, <3>1 DEF KeptHeader
    <2>8. InFile(base, Req(job), W, job.blk, FALSE)
      BY <2>1 DEF KeptParts
    <2>9. InFile(base', Req(job'), W', job'.blk, (pc \in Syncing /\ job.ret = "EIO")')
      <3>1. InFile(base, Req(job), W', job.blk, FALSE)
        BY <1>1, <1>2, <2>2, <2>8, SamePartsKeep
      <3> QED BY <3>1, InFileTorn
    <2>10. OnDisk(base, Req(job), disk.sec) /\ OnDisk(base, Req(job), W)
      BY <1>5, <1>8, <2>1, <2>8, InFileOnDisk DEF KeptParts, Keeps
    <2>11. OnDisk(base, Req(job), disk'.sec)
      <3>1. SameParts(disk'.sec, disk.sec, mem.chain) \/ SameParts(disk'.sec, W, mem.chain)
        BY DEF Glided, SameParts
      <3> QED BY <1>2, <2>2, <2>10, <3>1, SamePartsKeep
    <2> QED BY <2>3, <2>6, <2>7, <2>9, <2>11 DEF KeptParts
  <1> QED BY <1>1, <1>3, <1>6, <1>7, <1>8

-----------------------------------------------------------------------------
(* The calls of a request, one lemma each.                                 *)

\* The bound on faults holds of a device access.
LEMMA TakeFaults ==
  ASSUME Typed, NEW o, o.fault \in BOOLEAN, Take(o)
  PROVE  faults' \in 0 .. MaxFaults /\ fp' = o.fp /\ disk' = o.disk
  <1>1. faults' \in 0 .. MaxFaults
    BY SectorAssumption DEF Take, Typed
  <1> QED BY <1>1 DEF Take

\* The program counter tells what the request is.
LEMMA WriteOp ==
  ASSUME IInv
  PROVE  /\ pc \in Writing => job.op = "write"
         /\ pc \in Truncating => job.op = "truncate"
         /\ pc \in Writing \cup {"truncate_header", "f_truncate"} =>
              fp.size >= mem.size /\ SizedOn(fp.size, mem, disk)
  <1>1. job.op \in {"none", "write", "truncate"}
    BY DEF IInv, Typed, JobT
  <1>2. /\ pc # "idle" => job.op # "none"
        /\ job.op = "write" => pc \in {"idle"} \cup Writing \cup Syncing
        /\ job.op = "truncate" => pc \in {"idle"} \cup Truncating \cup Syncing
    BY DEF IInv, Flow
  <1>3. pc \in Writing \cup {"truncate_header", "f_truncate"} =>
              fp.size >= mem.size /\ SizedOn(fp.size, mem, disk)
    BY DEF IInv, Sized, Cut, Writing, Loop, Heading, Sizing, Syncing
  <1> QED BY <1>1, <1>2, <1>3 DEF Writing, Loop, Heading, Sizing, Syncing, Truncating

\* No move at all is a special case.
LEMMA GlidedNot ==
  ASSUME IInv, pc # "idle"
  PROVE  Glided(mem, disk, fp)
  <1>1. mem.chain \in Nat /\ fp.size \in Nat
    BY MemFacts, FileFacts DEF IInv, Typed
  <1>2. SameParts(W, W, mem.chain)
    BY DEF SameParts
  <1> QED BY <1>1, <1>2 DEF Glided, IInv, Typed, Cached, Buffered, Sized, W

\* A call keeps the invariant when the request goes on at a place that fits.
LEMMA GoOnAnyStep ==
  ASSUME IInv, pc \in Writing \cup {"truncate_lsize"},
         pc' \in Writing \cup Truncating \cup {"sync"},
         pc = "truncate_lsize" => mem' = mem /\ pc' = "sync",
         Glided(mem', disk', fp'),
         base' = base, nonce' \in 0 .. MaxNonce, requests' = requests, crashes' = crashes,
         faults' \in 0 .. MaxFaults,
         job' \in JobT, Req(job') = Req(job), job'.blk = job.blk,
         job'.hdr.nonce = job.hdr.nonce \/ job.blk = First(job),
         Flow', Headed',
         Keeps => /\ HdrKept(base, Req(job), W'[0].hdr)
                  /\ pc' = "parsed" /\ job'.res # "FR_OK" => fp'.err
                  /\ pc' = "write_fatcrypt_header" => fp'.err
                  /\ pc' # "header_written"
                  /\ KeptOld'
  PROVE  IInv'
  <1>1. /\ pc \notin {"idle"} \cup Syncing
        /\ pc' \notin {"idle", "sync_fat", "sync_entry"}
    BY DEF Writing, Loop, Heading, Sizing, Syncing, Truncating
  <1>2. /\ disk' \in Device /\ mem' \in MemT /\ fp' \in FileT
        /\ Cached' /\ Buffered' /\ Done'
        /\ SizedOn(fp'.size, mem', disk')
        /\ (Keeps <=> Keeps')
        /\ Keeps => /\ KeptRoom' /\ KeptParts'
                    /\ disk'.size >= 1 /\ HdrKept(base', Req(job'), disk'.sec[0].hdr)
    BY <1>1, GlidedStep
  <1>3. Typed'
    BY <1>2 DEF IInv, Typed, Syncing
  <1>4. Sized'
    <2>1. mem'.size = mem.size /\ fp'.size >= fp.size
      BY DEF Glided
    <2>2. mem.size \in Nat /\ fp.size \in Nat /\ fp'.size \in Nat
      BY <1>2, MemFacts, FileFacts DEF IInv, Typed
    <2>3. CASE fp.size >= mem.size
      BY <1>2, <2>1, <2>2, <2>3 DEF Sized
    <2>4. CASE ~(fp.size >= mem.size)
      <3>1. pc = "truncate_lsize" /\ job.op = "truncate" /\ mem.chain <= 1
        BY <1>1, <2>4, WriteOp DEF IInv, Sized, Cut
      <3>2. Cut'
        BY <3>1, ReqFacts DEF Cut, Syncing
      <3> QED BY <1>2, <3>2 DEF Sized
    <2> QED BY <2>3, <2>4
  <1>5. Kept'
    BY <1>2 DEF Kept, KeptHeader
  <1> QED BY <1>2, <1>3, <1>4, <1>5 DEF IInv

\* What the sectors hold below the end of the chain is the same.
LEMMA SameHeader ==
  ASSUME IInv, Keeps, \A t \in Sectors : t < mem.chain => W'[t] = W[t]
  PROVE  HdrKept(base, Req(job), W'[0].hdr)
  <1>1. disk.size >= 1 /\ HdrKept(base, Req(job), W[0].hdr)
    BY DEF IInv, Kept, KeptHeader
  <1>2. mem.chain >= 1
    BY <1>1, MemFacts, DeviceFacts DEF IInv, Cached, CachedOn, Typed
  <1>3. mem.chain \in Nat
    BY MemFacts DEF IInv, Typed
  <1> QED BY <1>1, <1>2, <1>3, Positions

\* A call that writes nothing: the header stays, too.
LEMMA GoOnStep ==
  ASSUME IInv, pc \in Writing,
         pc' \in Writing \cup Truncating \cup {"sync"},
         Glided(mem', disk', fp'), \A t \in Sectors : t < mem.chain => W'[t] = W[t],
         NoAnswer, faults' \in 0 .. MaxFaults,
         job' \in JobT, Req(job') = Req(job), job'.blk = job.blk,
         job'.hdr.nonce = job.hdr.nonce \/ job.blk = First(job),
         Flow', Headed',
         Keeps => /\ pc' = "parsed" /\ job'.res # "FR_OK" => fp'.err
                  /\ pc' = "write_fatcrypt_header" => fp'.err
                  /\ pc' # "header_written"
                  /\ KeptOld'
  PROVE  IInv'
  <1>1. base' = base /\ nonce' \in 0 .. MaxNonce /\ requests' = requests /\ crashes' = crashes
    BY DEF NoAnswer, IInv, Typed
  <1>2. pc # "truncate_lsize"
    BY DEF Writing, Loop, Heading, Sizing
  <1> QED BY <1>1, <1>2, SameHeader, GoOnAnyStep

\* A call that fails ends the request with EIO.
LEMMA FailAnyStep ==
  ASSUME IInv, pc \in Writing \cup {"truncate_lsize"}, Fail,
         pc = "truncate_lsize" => mem' = mem,
         Glided(mem', disk', fp'), \A t \in Sectors : t < mem.chain => W'[t] = W[t],
         base' = base, nonce' \in 0 .. MaxNonce, requests' = requests, crashes' = crashes,
         faults' \in 0 .. MaxFaults
  PROVE  IInv'
  <1>1. job' = [job EXCEPT !.ret = "EIO"] /\ pc' = "sync"
    BY DEF Fail, GoOn
  <1>2. job \in JobT
    BY DEF IInv, Typed
  <1>3. /\ job' \in JobT /\ Req(job') = Req(job) /\ job'.blk = job.blk /\ job'.hdr = job.hdr
        /\ job'.ret = "EIO" /\ job'.op = job.op /\ job'.off = job.off /\ job'.len = job.len
    BY <1>1, <1>2 DEF JobT, Req
  <1>4. pc # "idle"
    BY DEF Writing, Loop, Heading, Sizing
  <1>5. Flow'
    <2>1. First(job') = First(job) /\ LastBlock(job') = LastBlock(job)
      BY <1>3 DEF First, LastBlock
    <2> QED BY <1>1, <1>3, <1>4, <2>1 DEF IInv, Flow, Syncing, Writing, Loop, Heading, Sizing
  <1>6. Headed'
    BY <1>1, <1>3 DEF Headed, Syncing, Loop
  <1>7. KeptOld'
    BY <1>1 DEF KeptOld
  <1> QED BY <1>1, <1>3, <1>5, <1>6, <1>7, SameHeader, GoOnAnyStep

\* A call that fails keeps the invariant: the request goes to its sync.
LEMMA FailStep ==
  ASSUME IInv, pc \in Writing, Fail,
         Glided(mem', disk', fp'), \A t \in Sectors : t < mem.chain => W'[t] = W[t],
         NoAnswer, faults' \in 0 .. MaxFaults
  PROVE  IInv'
  <1>1. base' = base /\ nonce' \in 0 .. MaxNonce /\ requests' = requests /\ crashes' = crashes
    BY DEF NoAnswer, IInv, Typed
  <1>2. pc # "truncate_lsize"
    BY DEF Writing, Loop, Heading, Sizing
  <1> QED BY <1>1, <1>2, FailAnyStep

\* Where a write is in the file.
LEMMA PlaceFacts ==
  ASSUME IInv, pc \in Writing
  PROVE  /\ job.op = "write" /\ job.blk \in Nat /\ job.blk <= Blocks /\ job.blk \in Sectors
         /\ job.len >= 1 /\ job.off + job.len <= 2 * Blocks
         /\ First(job) \in Nat /\ LastBlock(job) \in Nat /\ LastBlock(job) < Blocks
         /\ First(job) <= job.blk /\ job.blk <= LastBlock(job) + 1
         /\ pc \notin Sizing => job.blk \in BlockSet /\ job.blk <= LastBlock(job)
         /\ pc # "f_crypt_lseek" => job.blk < mem.chain /\ mem.chain >= 1
                                    /\ fp.size >= Start(job.blk)
         /\ mem.chain \in Nat /\ fp.size \in Nat
  <1>1. job.op = "write"
    BY WriteOp
  <1>2. /\ job.len >= 1 /\ job.off + job.len <= 2 * Blocks
        /\ First(job) <= job.blk /\ job.blk <= LastBlock(job) + 1
        /\ pc \notin Sizing => job.blk <= LastBlock(job)
        /\ pc # "f_crypt_lseek" => job.blk < mem.chain /\ fp.size >= Start(job.blk)
    BY <1>1 DEF IInv, Flow
  <1>3. /\ First(job) \in Nat /\ LastBlock(job) \in Nat /\ LastBlock(job) < Blocks
        /\ job.blk \in Nat
    BY <1>2, JobFacts DEF IInv, Typed
  <1>4. mem.chain \in Nat /\ fp.size \in Nat
    BY MemFacts, FileFacts DEF IInv, Typed
  <1> QED BY <1>1, <1>2, <1>3, <1>4, SectorAssumption DEF BlockSet, Sectors

\* Looking for the header writes nothing and links nothing: the buffer moves.
LEMMA PlainMove ==
  ASSUME IInv, pc \in Writing \cup {"truncate_lsize"}, NEW s \in Sectors, s < mem.chain, NEW o \in Move(fp, disk, s)
  PROVE  /\ Glided(mem, o.disk, o.fp) /\ Moved(fp, disk, s, o)
         /\ \A t \in Sectors : t < mem.chain => Flushed(o.fp, o.disk).sec[t] = W[t]
         /\ o.ok => o.fp.buf = W[s]
         /\ o.fp.size = fp.size
  <1>1. Relinked(mem, disk)
    BY NotLinked DEF IInv
  <1>2. fp \in FileT /\ SizedOn(fp.size, mem, disk) /\ Typed /\ Buffered
    BY DEF IInv, Sized, Typed, Writing, Loop, Heading, Sizing
  <1>3. fp.size >= fp.size
    BY <1>2, FileFacts
  <1>4. /\ Glided(mem, o.disk, o.fp) /\ Moved(fp, disk, s, o)
        /\ \A t \in Sectors : t < mem.chain => Flushed(o.fp, o.disk).sec[t] = W[t]
        /\ o.ok /\ s < mem.chain => o.fp.buf = W[s]
    BY <1>1, <1>2, <1>3, MoveStep
  <1> QED BY <1>4 DEF Moved

\* f_lseek to the block at hand, which may link its first sector.
LEMMA SeekFacts ==
  ASSUME IInv, pc \in {"f_crypt_lseek", "seek"},
         NEW g \in Linked(mem, disk, Start(job.blk)),
         NEW o \in Move(Extended(fp, Start(job.blk)), g.disk, job.blk)
  PROVE  /\ Glided(g.mem, o.disk, o.fp)
         /\ Moved(Extended(fp, Start(job.blk)), g.disk, job.blk, o)
         /\ \A t \in Sectors : t < mem.chain => Flushed(o.fp, o.disk).sec[t] = W[t]
         /\ job.blk < g.mem.chain /\ o.fp.size >= Start(job.blk)
  <1> DEFINE k == job.blk
             f == Extended(fp, Start(k))
  <1>1. pc \in Writing /\ pc \notin Sizing /\ Typed /\ Buffered /\ Cached /\ fp \in FileT
    BY DEF Writing, Loop, Sizing, IInv, Typed
  <1>2. /\ k \in BlockSet /\ k \in Sectors /\ k \in Nat /\ Start(k) = 2 * k + 1
        /\ ClustersFor(Start(k)) = k + 1 /\ k + 1 <= Blocks + 1
    <2>1. k \in BlockSet
      BY <1>1, PlaceFacts
    <2> HIDE DEF k
    <2>2. k \in Nat /\ k \in Sectors /\ k < Blocks
      BY <2>1, Positions
    <2> QED BY <2>1, <2>2, Positions, ClusterCounts, SectorAssumption
  <1>3. Relinked(g.mem, g.disk) /\ g.mem.chain >= k + 1
    BY <1>1, <1>2, LinkedStep
  <1>4. g.mem.chain \in Nat /\ fp.size \in 0 .. 2 * Blocks + 1 /\ mem.chain \in Nat
    BY <1>1, <1>3, MemFacts, FileFacts DEF Relinked, IInv, Typed
  <1>5. /\ f \in FileT /\ f.sect = fp.sect /\ f.buf = fp.buf /\ f.dirty = fp.dirty
        /\ f.size >= fp.size /\ f.size >= Start(k)
        /\ f.size = fp.size \/ f.size = Start(k)
    <2>1. CASE Start(k) <= fp.size
      BY <1>1, <1>2, <1>4, <2>1 DEF Extended
    <2>2. CASE ~(Start(k) <= fp.size)
      <3>1. f = [fp EXCEPT !.size = Start(k), !.modified = TRUE]
        BY <2>2 DEF Extended
      <3>2. Start(k) \in 0 .. End(Blocks - 1)
        BY <1>2, SectorAssumption DEF BlockSet, End
      <3> DEFINE z == Start(k)
      <3> HIDE DEF f, z
      <3>3. /\ f \in FileT /\ f.sect = fp.sect /\ f.buf = fp.buf /\ f.dirty = fp.dirty
            /\ f.size = z
        BY <1>1, <3>1, <3>2 DEF FileT, z
      <3> QED BY <1>2, <1>4, <2>2, <3>3 DEF z
    <2> QED BY <2>1, <2>2
  <1>6. SizedOn(f.size, g.mem, g.disk)
    <2>1. SizedOn(fp.size, mem, disk)
      BY WriteOp, <1>1
    <2>2. /\ g.mem.size = mem.size /\ g.disk.size \in {disk.size, mem.size}
          /\ g.mem.chain >= mem.chain
      BY <1>3 DEF Relinked
    <2>3. ClustersFor(fp.size) \in Nat /\ fp.size \in Nat
      BY <1>4, Halves
    <2>4. mem.size \in Nat /\ disk.size \in Nat
      BY MemFacts, DeviceFacts DEF IInv, Typed
    <2> HIDE DEF f, k
    <2>5. CASE f.size = Start(k)
      BY <1>2, <1>3, <1>4, <2>1, <2>2, <2>4, <2>5 DEF SizedOn
    <2>6. CASE f.size = fp.size
      BY <1>2, <1>3, <1>4, <2>1, <2>2, <2>3, <2>4, <2>6 DEF SizedOn
    <2> QED BY <1>5, <2>5, <2>6
  <1>7. k < g.mem.chain
    BY <1>2, <1>3, <1>4
  <1>8. /\ Glided(g.mem, o.disk, o.fp) /\ Moved(f, g.disk, k, o)
        /\ \A t \in Sectors : t < mem.chain => Flushed(o.fp, o.disk).sec[t] = W[t]
    BY <1>1, <1>2, <1>3, <1>5, <1>6, <1>7, MoveStep
  <1> QED BY <1>5, <1>7, <1>8 DEF Moved

\* A write goes on inside the loop over its blocks.
LEMMA FlowOn ==
  ASSUME IInv, pc \in Writing, pc' \in Writing \ {"f_crypt_lseek"},
         Req(job') = Req(job), job'.blk \in Nat, job'.ret = job.ret,
         First(job) <= job'.blk, job'.blk <= LastBlock(job) + 1,
         job'.blk < mem'.chain, fp'.size >= Start(job'.blk),
         pc' \in Heading => job'.blk = First(job),
         pc' \notin Sizing => job'.blk <= LastBlock(job),
         pc' \in Sizing => job'.blk = LastBlock(job) + 1,
         pc' = "read_block" => fp'.sect = job'.blk /\ ~fp'.err,
         pc' = "put_block" /\ ~fp'.err => fp'.sect = job'.blk
  PROVE  Flow'
  <1>1. /\ job'.op = "write" /\ job'.off = job.off /\ job'.len = job.len
        /\ First(job') = First(job) /\ LastBlock(job') = LastBlock(job)
        /\ job.len >= 1 /\ job.off + job.len <= 2 * Blocks
    BY ReqFacts, PlaceFacts
  <1>2. pc' \notin {"idle"} \cup Truncating \cup Syncing
    BY DEF Writing, Heading, Loop, Sizing, Truncating, Syncing
  <1>3. job.ret = "OK"
    BY DEF IInv, Flow, Writing, Heading, Loop, Sizing, Syncing
  <1> QED BY <1>1, <1>2, <1>3 DEF Flow, Truncating, Heading, Writing

\* Looking for the header: f_crypt_lseek, and parse_fatcrypt_header, which takes
\* a read that fails for a missing header but leaves fp->err behind.
LEMMA f_crypt_lseekStep ==
  ASSUME IInv, f_crypt_lseek PROVE IInv'
  <1> USE DEF f_crypt_lseek, SeekBlock
  <1>1. pc = "f_crypt_lseek" /\ pc \in Writing /\ NoAnswer /\ pc # "idle" /\ Typed
    BY DEF Writing, IInv
  <1>2. CASE fp.err
    <2>1. Fail /\ fp' = fp /\ disk' = disk /\ mem' = mem /\ faults' = faults
      BY <1>2
    <2>2. Glided(mem', disk', fp') /\ W' = W /\ faults' \in 0 .. MaxFaults
      BY <1>1, <2>1, GlidedNot DEF W, Typed
    <2> QED BY <1>1, <2>1, <2>2, FailStep
  <1>3. CASE ~fp.err
    <2>0. PICK g \in Linked(mem, disk, Start(job.blk)) :
            \E o \in Move(Extended(fp, Start(job.blk)), g.disk, job.blk) :
              /\ Take(o)
              /\ mem' = g.mem
              /\ IF o.ok THEN GoOn(job, "parse_fatcrypt_header") ELSE Fail
      BY <1>3
    <2>1. PICK o \in Move(Extended(fp, Start(job.blk)), g.disk, job.blk) :
            /\ Take(o)
            /\ mem' = g.mem
            /\ IF o.ok THEN GoOn(job, "parse_fatcrypt_header") ELSE Fail
      BY <2>0
    <2>2. /\ Glided(g.mem, o.disk, o.fp)
          /\ Moved(Extended(fp, Start(job.blk)), g.disk, job.blk, o)
          /\ \A t \in Sectors : t < mem.chain => Flushed(o.fp, o.disk).sec[t] = W[t]
          /\ job.blk < g.mem.chain /\ o.fp.size >= Start(job.blk)
      BY <1>1, SeekFacts
    <2>3. fp' = o.fp /\ disk' = o.disk /\ faults' \in 0 .. MaxFaults
      BY <1>1, <2>1, <2>2, TakeFaults DEF Moved
    <2>4. /\ Glided(mem', disk', fp')
          /\ \A t \in Sectors : t < mem.chain => W'[t] = W[t]
      BY <2>1, <2>2, <2>3 DEF W
    <2>5. CASE ~o.ok
      BY <1>1, <2>1, <2>3, <2>4, <2>5, FailStep
    <2>6. CASE o.ok
      <3>1. job' = job /\ pc' = "parse_fatcrypt_header"
        BY <2>1, <2>6 DEF GoOn
      <3>2. Flow'
        <4>1. job.blk = First(job)
          BY <1>1 DEF IInv, Flow
        <4> QED BY <1>1, <2>1, <2>2, <2>3, <3>1, <4>1, PlaceFacts, FlowOn
                DEF Writing, Heading, Loop, Sizing
      <3>3. Headed' /\ KeptOld'
        BY <3>1 DEF Headed, KeptOld, Loop, Syncing
      <3>4. job' \in JobT /\ Req(job') = Req(job)
        BY <3>1 DEF IInv, Typed
      <3> QED BY <1>1, <2>3, <2>4, <3>1, <3>2, <3>3, <3>4, GoOnStep DEF Writing, Heading
    <2> QED BY <2>5, <2>6
  <1> QED BY <1>2, <1>3

\* As above, for the read of the magic.
LEMMA parse_fatcrypt_headerStep ==
  ASSUME IInv, parse_fatcrypt_header PROVE IInv'
  <1>1. pc = "parse_fatcrypt_header" /\ pc \in Writing /\ NoAnswer /\ mem' = mem /\ Typed
    BY DEF parse_fatcrypt_header, Writing, Heading, IInv
  <1>2. PICK o \in Move(fp, disk, 0) :
          /\ Take(o)
          /\ GoOn(IF o.ok /\ o.fp.buf.hdr.nonce # 0
                    THEN [job EXCEPT !.res = "FR_OK", !.hdr = o.fp.buf.hdr]
                  ELSE IF ~o.ok \/ fp.size <= 1 THEN [job EXCEPT !.res = "FR_NO_HEADER"]
                  ELSE [job EXCEPT !.res = "FR_BAD_HEADER"], "parsed")
    BY DEF parse_fatcrypt_header
  <1>3. 0 < mem.chain /\ 0 \in Sectors
    BY <1>1, PlaceFacts, Positions
  <1>4. /\ Glided(mem, o.disk, o.fp) /\ Moved(fp, disk, 0, o)
        /\ \A t \in Sectors : t < mem.chain => Flushed(o.fp, o.disk).sec[t] = W[t]
        /\ o.ok => o.fp.buf = W[0]
        /\ o.fp.size = fp.size
    BY <1>1, <1>3, PlainMove
  <1>5. fp' = o.fp /\ disk' = o.disk /\ faults' \in 0 .. MaxFaults /\ pc' = "parsed"
    BY <1>1, <1>2, <1>4, TakeFaults DEF Moved, GoOn
  <1>6. /\ Glided(mem', disk', fp')
        /\ \A t \in Sectors : t < mem.chain => W'[t] = W[t]
    BY <1>1, <1>4, <1>5 DEF W
  <1>7. /\ job' \in JobT /\ Req(job') = Req(job) /\ job'.blk = job.blk /\ job'.ret = job.ret
        /\ job'.res = "FR_OK" => o.ok /\ job'.hdr = o.fp.buf.hdr /\ o.fp.buf.hdr.nonce # 0
        /\ job'.res # "FR_OK" => ~o.ok \/ o.fp.buf.hdr.nonce = 0
    <2>1. o.fp.buf.hdr \in HeaderT /\ job \in JobT
      BY <1>4, FileFacts DEF Moved, Sector, HeaderT, IInv, Typed
    <2>2. \/ /\ o.ok /\ o.fp.buf.hdr.nonce # 0
             /\ job' = [job EXCEPT !.res = "FR_OK", !.hdr = o.fp.buf.hdr]
          \/ /\ ~(o.ok /\ o.fp.buf.hdr.nonce # 0)
             /\ \/ job' = [job EXCEPT !.res = "FR_NO_HEADER"]
                \/ job' = [job EXCEPT !.res = "FR_BAD_HEADER"]
      BY <1>2 DEF GoOn
    <2> QED BY <2>1, <2>2 DEF JobT, Req
  <1>8. job.blk = First(job)
    BY <1>1 DEF IInv, Flow, Heading
  <1>9. Flow'
    BY <1>1, <1>4, <1>5, <1>7, <1>8, PlaceFacts, FlowOn DEF Writing, Heading, Loop, Sizing
  <1>10. Headed'
    <2>1. job'.res = "FR_OK" => W'[0].hdr = job'.hdr /\ job'.hdr.nonce # 0
      BY <1>3, <1>4, <1>6, <1>7
    <2> QED BY <1>5, <2>1 DEF Headed, Loop, Syncing
  <1>11. Keeps /\ job'.res # "FR_OK" => fp'.err
    <2>1. Keeps => W[0].hdr.nonce # 0
      BY DEF IInv, Kept, KeptHeader, HdrKept, Keeps, HasHeader
    <2> QED BY <1>4, <1>5, <1>7, <2>1 DEF Moved
  <1>12. KeptOld'
    BY <1>5 DEF KeptOld
  <1> QED BY <1>1, <1>5, <1>6, <1>7, <1>8, <1>9, <1>10, <1>11, <1>12, GoOnStep
          DEF Writing, Heading

\* f_lseek back to the block at hand, its result ignored.
LEMMA SeekBackFacts ==
  ASSUME IInv, pc \in Writing \ {"f_crypt_lseek"}, SeekBack(pc, job.blk)
  PROVE  /\ NoAnswer /\ mem' = mem /\ faults' \in 0 .. MaxFaults
         /\ Glided(mem', disk', fp')
         /\ \A t \in Sectors : t < mem.chain => W'[t] = W[t]
         /\ fp'.size = fp.size /\ fp'.modified = fp.modified
         /\ fp.err => fp'.err
         /\ ~fp'.err => fp'.sect = job.blk
  <1>1. Typed /\ job.blk \in Sectors /\ job.blk < mem.chain
    BY PlaceFacts DEF IInv
  <1>2. PICK o \in Move(fp, disk, job.blk) : Take(o)
    BY DEF SeekBack
  <1>3. /\ Glided(mem, o.disk, o.fp) /\ Moved(fp, disk, job.blk, o)
        /\ \A t \in Sectors : t < mem.chain => Flushed(o.fp, o.disk).sec[t] = W[t]
    BY <1>1, PlainMove
  <1>4. fp' = o.fp /\ disk' = o.disk /\ faults' \in 0 .. MaxFaults
    BY <1>1, <1>2, <1>3, TakeFaults DEF Moved
  <1>5. NoAnswer /\ mem' = mem
    BY DEF SeekBack
  <1> QED BY <1>3, <1>4, <1>5 DEF Moved, W

\* Back to the block, with the result of f_lseek ignored.
LEMMA parsedStep ==
  ASSUME IInv, parsed PROVE IInv'
  <1>1. pc = "parsed" /\ pc \in Writing \ {"f_crypt_lseek"} /\ SeekBack(pc, job.blk)
    BY DEF parsed, SeekBack, Writing, Heading
  <1>2. /\ NoAnswer /\ mem' = mem /\ faults' \in 0 .. MaxFaults
        /\ Glided(mem', disk', fp')
        /\ \A t \in Sectors : t < mem.chain => W'[t] = W[t]
        /\ fp'.size = fp.size
        /\ fp.err => fp'.err
    BY <1>1, SeekBackFacts
  <1>3. CASE job.res = "FR_BAD_HEADER"
    BY <1>1, <1>2, <1>3, FailStep DEF parsed
  <1>4. CASE job.res # "FR_BAD_HEADER"
    <2>1. /\ job' = job
          /\ \/ job.res = "FR_OK" /\ pc' = "seek"
             \/ job.res = "FR_NO_HEADER" /\ pc' = "write_fatcrypt_header"
      BY <1>4 DEF parsed, GoOn
    <2>2. job.blk = First(job)
      BY <1>1 DEF IInv, Flow, Heading
    <2>4. Flow'
      BY <1>1, <1>2, <2>1, <2>2, PlaceFacts, FlowOn DEF Writing, Heading, Loop, Sizing
    <2>5. Headed'
      <3>1. W'[0] = W[0]
        BY <1>1, <1>2, PlaceFacts, Positions
      <3>2. job.res = "FR_OK" => W[0].hdr = job.hdr /\ job.hdr.nonce # 0
        BY <1>1 DEF IInv, Headed
      <3> QED BY <2>1, <3>1, <3>2 DEF Headed, Loop, Syncing
    <2>6. ASSUME Keeps, job.res # "FR_OK" PROVE fp'.err
      <3>1. KeptHeader
        BY <2>6 DEF IInv, Kept
      <3>2. fp.err
        BY <1>1, <2>6, <3>1 DEF KeptHeader
      <3> QED BY <1>2, <3>2
    <2>7. KeptOld'
      BY <2>1 DEF KeptOld
    <2>8. job' \in JobT
      BY <2>1 DEF IInv, Typed
    <2> QED BY <1>1, <1>2, <2>1, <2>4, <2>5, <2>6, <2>7, <2>8, GoOnStep DEF Writing, Heading, Loop
  <1> QED BY <1>3, <1>4

\* As above, for the way back from write_fatcrypt_header.
LEMMA header_writtenStep ==
  ASSUME IInv, header_written PROVE IInv'
  <1>1. pc = "header_written" /\ pc \in Writing \ {"f_crypt_lseek"} /\ SeekBack(pc, job.blk)
        /\ job' = job /\ pc' = "seek"
    BY DEF header_written, SeekBack, GoOn, Writing, Heading
  <1>2. /\ NoAnswer /\ mem' = mem /\ faults' \in 0 .. MaxFaults
        /\ Glided(mem', disk', fp')
        /\ \A t \in Sectors : t < mem.chain => W'[t] = W[t]
        /\ fp'.size = fp.size
    BY <1>1, SeekBackFacts
  <1>3. Flow'
    BY <1>1, <1>2, PlaceFacts, FlowOn DEF Writing, Heading, Loop, Sizing
  <1>4. Headed'
    <2>1. W'[0] = W[0]
      BY <1>1, <1>2, PlaceFacts, Positions
    <2>2. W[0].hdr = job.hdr /\ job.hdr.nonce # 0
      BY <1>1 DEF IInv, Headed
    <2> QED BY <1>1, <2>1, <2>2 DEF Headed, Loop, Syncing
  <1>5. KeptOld'
    BY <1>1 DEF KeptOld
  <1>6. job' \in JobT
    BY <1>1 DEF IInv, Typed
  <1> QED BY <1>1, <1>2, <1>3, <1>4, <1>5, <1>6, GoOnStep DEF Writing, Heading, Loop

\* The write loop: its first f_lseek.
LEMMA seekStep ==
  ASSUME IInv, seek PROVE IInv'
  <1> DEFINE next == IF Whole(job) THEN "put_block" ELSE "read_block"
  <1>1. SeekBlock("seek", next)
    BY DEF seek
  <1>2. pc = "seek" /\ pc \in Writing /\ pc \notin Sizing /\ NoAnswer /\ pc # "idle" /\ Typed
    BY <1>1 DEF SeekBlock, Writing, Loop, Sizing, IInv
  <1>3. CASE fp.err
    <2>1. Fail /\ fp' = fp /\ disk' = disk /\ mem' = mem /\ faults' = faults
      BY <1>1, <1>3 DEF SeekBlock
    <2>2. Glided(mem', disk', fp') /\ W' = W /\ faults' \in 0 .. MaxFaults
      BY <1>2, <2>1, GlidedNot DEF W, Typed
    <2> QED BY <1>2, <2>1, <2>2, FailStep
  <1>4. CASE ~fp.err
    <2> HIDE DEF next
    <2>0. PICK g \in Linked(mem, disk, Start(job.blk)) :
            \E o \in Move(Extended(fp, Start(job.blk)), g.disk, job.blk) :
              /\ Take(o)
              /\ mem' = g.mem
              /\ IF o.ok THEN GoOn(job, next) ELSE Fail
      BY <1>1, <1>4 DEF SeekBlock
    <2>1. PICK o \in Move(Extended(fp, Start(job.blk)), g.disk, job.blk) :
            /\ Take(o)
            /\ mem' = g.mem
            /\ IF o.ok THEN GoOn(job, next) ELSE Fail
      BY <2>0
    <2>2. /\ Glided(g.mem, o.disk, o.fp)
          /\ Moved(Extended(fp, Start(job.blk)), g.disk, job.blk, o)
          /\ \A t \in Sectors : t < mem.chain => Flushed(o.fp, o.disk).sec[t] = W[t]
          /\ job.blk < g.mem.chain /\ o.fp.size >= Start(job.blk)
      BY <1>2, SeekFacts
    <2>3. fp' = o.fp /\ disk' = o.disk /\ faults' \in 0 .. MaxFaults
      BY <1>2, <2>1, <2>2, TakeFaults DEF Moved
    <2>4. /\ Glided(mem', disk', fp')
          /\ \A t \in Sectors : t < mem.chain => W'[t] = W[t]
      BY <2>1, <2>2, <2>3 DEF W
    <2>5. CASE ~o.ok
      BY <1>2, <2>1, <2>3, <2>4, <2>5, FailStep
    <2>6. CASE o.ok
      <3>1. job' = job /\ pc' = next /\ fp'.sect = job.blk /\ ~fp'.err
        BY <2>1, <2>2, <2>3, <2>6 DEF GoOn, Moved
      <3>2. pc' \in {"put_block", "read_block"} /\ (pc' = "put_block" => Whole(job))
        BY <3>1 DEF next
      <3>3. Flow'
        BY <1>2, <2>1, <2>2, <2>3, <3>1, <3>2, PlaceFacts, FlowOn
           DEF Writing, Heading, Loop, Sizing
      <3>4. Headed'
        <4>1. W'[0] = W[0]
          BY <1>2, <2>4, PlaceFacts, Positions
        <4>2. W[0].hdr = job.hdr /\ job.hdr.nonce # 0
          BY <1>2 DEF IInv, Headed, Loop
        <4> QED BY <3>1, <3>2, <4>1, <4>2 DEF Headed, Loop, Syncing
      <3>5. KeptOld'
        BY <3>1, <3>2 DEF KeptOld
      <3>6. job' \in JobT
        BY <3>1 DEF IInv, Typed
      <3> QED BY <1>2, <2>3, <2>4, <3>1, <3>2, <3>3, <3>4, <3>5, <3>6, GoOnStep DEF Writing, Loop
    <2> QED BY <2>5, <2>6
  <1> QED BY <1>3, <1>4

\* f_lseek back to the start of the block that was read, its result ignored.
LEMMA seek_againStep ==
  ASSUME IInv, seek_again PROVE IInv'
  <1>1. /\ pc = "seek_again" /\ pc \in Writing \ {"f_crypt_lseek"} /\ pc \notin Sizing
        /\ SeekBack(pc, job.blk) /\ job' = job /\ pc' = "put_block"
    BY DEF seek_again, SeekBack, GoOn, Writing, Loop, Sizing
  <1>2. /\ NoAnswer /\ mem' = mem /\ faults' \in 0 .. MaxFaults
        /\ Glided(mem', disk', fp')
        /\ \A t \in Sectors : t < mem.chain => W'[t] = W[t]
        /\ fp'.size = fp.size
        /\ fp.err => fp'.err
        /\ ~fp'.err => fp'.sect = job.blk
    BY <1>1, SeekBackFacts
  <1>3. Flow'
    BY <1>1, <1>2, PlaceFacts, FlowOn DEF Writing, Heading, Loop, Sizing
  <1>4. Headed'
    <2>1. W'[0] = W[0]
      BY <1>1, <1>2, PlaceFacts, Positions
    <2>2. W[0].hdr = job.hdr /\ job.hdr.nonce # 0
      BY <1>1 DEF IInv, Headed, Loop
    <2> QED BY <1>1, <2>1, <2>2 DEF Headed, Loop, Syncing
  <1>5. Keeps => KeptOld'
    <2>1. Keeps => KeptOld
      BY DEF IInv, Kept
    <2>2. base' = base
      BY <1>2 DEF NoAnswer
    <2> QED BY <1>1, <1>2, <2>1, <2>2 DEF KeptOld
  <1>6. job' \in JobT
    BY <1>1 DEF IInv, Typed
  <1> QED BY <1>1, <1>2, <1>3, <1>4, <1>5, <1>6, GoOnStep DEF Writing, Loop

\* A file that is kept holds its old header and, at the block at hand, both old
\* parts, until that block is written.
LEMMA KeptBlock ==
  ASSUME IInv, Keeps, pc \in Writing, job.blk \in Openable(base)
  PROVE  /\ W[job.blk].head = base.sec[job.blk].head
         /\ W[job.blk + 1].tail = base.sec[job.blk + 1].tail
         /\ W[0].hdr.nonce = base.sec[0].hdr.nonce
         /\ Authentic(base.sec[0].hdr.nonce, job.blk, W[job.blk].head, W[job.blk + 1].tail)
         /\ fp.size >= End(job.blk) /\ job.blk + 2 <= mem.chain
  <1>1. KeptHeader /\ KeptRoom /\ KeptParts
    BY DEF IInv, Kept
  <1>2. pc # "idle" /\ pc \notin Syncing
    BY DEF Writing, Heading, Loop, Sizing, Syncing
  <1>3. InFile(base, Req(job), W, job.blk, FALSE)
    BY <1>1, <1>2 DEF KeptParts
  <1>4. /\ W[job.blk].head = base.sec[job.blk].head
        /\ W[job.blk + 1].tail = base.sec[job.blk + 1].tail
    BY <1>3 DEF InFile
  <1>5. W[0].hdr.nonce = base.sec[0].hdr.nonce
    BY <1>1 DEF KeptHeader, HdrKept
  <1>6. fp.size >= End(job.blk) /\ job.blk + 2 <= mem.chain
    <2>1. fp.size \in Nat /\ End(job.blk) \in Nat
      BY FileFacts, OpenableFacts, Positions DEF IInv, Typed
    <2> QED BY <1>1, <1>2, <2>1 DEF KeptRoom, Room
  <1> QED BY <1>4, <1>5, <1>6, OpenableFacts

\* The block read back for a partial write: the cells that stay are the old ones,
\* unless the read failed, and then fp->err keeps f_write from using them.
LEMMA read_blockStep ==
  ASSUME IInv, read_block PROVE IInv'
  <1>1. /\ pc = "read_block" /\ pc \in Writing \ {"f_crypt_lseek"} /\ pc \notin Sizing
        /\ NoAnswer /\ mem' = mem /\ Typed /\ pc # "idle" /\ Coherent(fp, disk)
    BY DEF read_block, Writing, Loop, Sizing, IInv, Buffered
  <1>2. /\ fp.sect = job.blk /\ ~fp.err /\ W[0].hdr = job.hdr /\ job.hdr.nonce # 0
        /\ fp \in FileT /\ disk \in Device
    BY <1>1 DEF IInv, Flow, Headed, Loop, Typed
  <1>3. /\ job.blk \in BlockSet /\ job.blk \in Sectors /\ job.blk + 1 \in Sectors
        /\ job.blk < mem.chain /\ mem.chain >= 1 /\ fp.size >= Start(job.blk)
        /\ job.blk \in Nat /\ fp.size \in Nat /\ mem.chain \in Nat
        /\ Start(job.blk) = 2 * job.blk + 1 /\ End(job.blk) = 2 * job.blk + 3
    BY <1>1, PlaceFacts, Positions
  \* What each way of reading the rest of the block leaves to be shown.
  <1>4. ASSUME Glided(mem', disk', fp'), \A t \in Sectors : t < mem.chain => W'[t] = W[t],
               faults' \in 0 .. MaxFaults, fp'.size = fp.size,
               NEW a \in Cell, NEW b \in Cell, GoOn([job EXCEPT !.old = <<a, b>>], "seek_again"),
               ~fp'.err /\ Keeps /\ job.blk \in Openable(base)
                 => a = base.sec[job.blk + 1].tail.a /\ b = base.sec[job.blk + 1].tail.b
        PROVE  IInv'
    <2>1. job' = [job EXCEPT !.old = <<a, b>>] /\ pc' = "seek_again" /\ job \in JobT
      BY <1>4 DEF GoOn, IInv, Typed
    <2>2. /\ job' \in JobT /\ Req(job') = Req(job) /\ job'.blk = job.blk /\ job'.ret = job.ret
          /\ job'.hdr = job.hdr /\ job'.old = <<a, b>>
      BY <1>4, <2>1 DEF JobT, Req
    <2>3. Flow'
      BY <1>1, <1>3, <1>4, <2>1, <2>2, PlaceFacts, FlowOn DEF Writing, Heading, Loop, Sizing
    <2>4. Headed'
      <3>1. W'[0] = W[0]
        BY <1>3, <1>4, Positions
      <3> QED BY <1>2, <2>1, <2>2, <3>1 DEF Headed, Loop, Syncing
    <2>5. Keeps => KeptOld'
      <3>1. base' = base
        BY <1>1 DEF NoAnswer
      <3>2. job'.old[1] = a /\ job'.old[2] = b
        BY <2>2
      <3> QED BY <1>4, <2>2, <3>1, <3>2 DEF KeptOld
    <2> QED BY <1>1, <1>4, <2>1, <2>2, <2>3, <2>4, <2>5, GoOnStep DEF Writing, Loop
  <1>5. Zero \in Cell
    BY DEF Cell
  <1>6. CASE fp.size <= Start(job.blk) + 1
    <2>1. /\ GoOn([job EXCEPT !.old = <<Zero, Zero>>], "seek_again")
          /\ fp' = fp /\ disk' = disk /\ faults' = faults
      BY <1>6 DEF read_block
    <2>2. Glided(mem', disk', fp') /\ W' = W /\ faults' \in 0 .. MaxFaults
      BY <1>1, <2>1, GlidedNot DEF W, Typed
    <2>3. Keeps => job.blk \notin Openable(base)
      <3> SUFFICES ASSUME Keeps, job.blk \in Openable(base) PROVE FALSE
        OBVIOUS
      <3> QED BY <1>1, <1>3, <1>6, KeptBlock
    <2> QED BY <1>4, <1>5, <2>1, <2>2, <2>3
  <1>7. CASE ~(fp.size <= Start(job.blk) + 1)
    <2> DEFINE Old(o) == IF o.ok THEN Plaintext(fp, fp.buf.head, o.fp.buf.tail, job.blk)
                                 ELSE <<Zero, Zero>>
    <2>1. PICK o \in IF job.blk + 1 < mem.chain THEN Move(fp, disk, job.blk + 1)
                     ELSE {Outcome(FALSE, FALSE, Abort(fp), disk)} :
            Take(o) /\ GoOn([job EXCEPT !.old = Old(o)], "seek_again")
      BY <1>7 DEF read_block
    <2>2. CASE job.blk + 1 < mem.chain
      <3>1. /\ Glided(mem, o.disk, o.fp) /\ Moved(fp, disk, job.blk + 1, o)
            /\ \A t \in Sectors : t < mem.chain => Flushed(o.fp, o.disk).sec[t] = W[t]
            /\ o.ok => o.fp.buf = W[job.blk + 1]
            /\ o.fp.size = fp.size
        BY <1>1, <1>3, <2>1, <2>2, PlainMove
      <3>2. fp' = o.fp /\ disk' = o.disk /\ faults' \in 0 .. MaxFaults
        BY <1>1, <2>1, <3>1, TakeFaults DEF Moved
      <3>3. Glided(mem', disk', fp') /\ \A t \in Sectors : t < mem.chain => W'[t] = W[t]
        BY <1>1, <3>1, <3>2 DEF W
      <3>4. CASE ~o.ok
        <4>1. GoOn([job EXCEPT !.old = <<Zero, Zero>>], "seek_again")
          BY <2>1, <3>4
        <4>2. fp'.err
          BY <3>1, <3>2, <3>4 DEF Moved
        <4> QED BY <1>4, <1>5, <3>1, <3>2, <3>3, <4>1, <4>2
      <3>5. CASE o.ok
        <4> DEFINE head == fp.buf.head
                   tail == o.fp.buf.tail
                   opens == fp.size >= End(job.blk) /\ Authentic(job.hdr.nonce, job.blk, head, tail)
        <4>1. fp.buf = W[job.blk] /\ o.fp.buf = W[job.blk + 1]
          <5>1. fp.buf = W[job.blk]
            BY <1>1, <1>2, <1>3, FlushedFacts DEF W, Coherent
          <5> QED BY <3>1, <3>5, <5>1
        <4>2. tail.a \in Cell /\ tail.b \in Cell
          <5>1. o.fp.buf \in Sector
            BY <3>1, FileFacts DEF Moved
          <5> QED BY <5>1 DEF Sector
        <4>3. CASE opens
          <5>1. GoOn([job EXCEPT !.old = <<tail.a, tail.b>>], "seek_again")
            BY <2>1, <3>5, <4>3 DEF Plaintext
          <5>2. Keeps /\ job.blk \in Openable(base) => tail = base.sec[job.blk + 1].tail
            BY <1>1, <4>1, KeptBlock
          <5> HIDE DEF tail
          <5> QED BY <1>4, <3>1, <3>2, <3>3, <4>2, <5>1, <5>2
        <4>4. CASE ~opens
          <5>1. GoOn([job EXCEPT !.old = <<Zero, Zero>>], "seek_again")
            BY <2>1, <3>5, <4>4 DEF Plaintext
          <5>2. Keeps => job.blk \notin Openable(base)
            <6> SUFFICES ASSUME Keeps, job.blk \in Openable(base) PROVE FALSE
              OBVIOUS
            <6> QED BY <1>1, <1>2, <4>1, <4>4, KeptBlock
          <5> QED BY <1>4, <1>5, <3>1, <3>2, <3>3, <5>1, <5>2
        <4> QED BY <4>3, <4>4
      <3> QED BY <3>4, <3>5
    <2>3. CASE ~(job.blk + 1 < mem.chain)
      <3>1. o = Outcome(FALSE, FALSE, Abort(fp), disk)
        BY <2>1, <2>3
      <3>2. o.ok = FALSE /\ o.fault = FALSE /\ o.fp = Abort(fp) /\ o.disk = disk
        BY <3>1 DEF Outcome
      <3>3. /\ fp' = Abort(fp) /\ disk' = disk /\ faults' \in 0 .. MaxFaults
            /\ GoOn([job EXCEPT !.old = <<Zero, Zero>>], "seek_again")
        <4>1. GoOn([job EXCEPT !.old = <<Zero, Zero>>], "seek_again")
          BY <2>1, <3>2
        <4>2. Take(o) /\ o.fault \in BOOLEAN
          BY <2>1, <3>2
        <4>3. faults' \in 0 .. MaxFaults /\ fp' = o.fp /\ disk' = o.disk
          BY <1>1, <4>2, TakeFaults
        <4> QED BY <3>2, <4>1, <4>3
      <3>4. /\ fp' \in FileT /\ fp'.err /\ fp'.size = fp.size /\ fp'.sect = fp.sect
            /\ fp'.buf = fp.buf /\ fp'.dirty = fp.dirty
        BY <1>2, <3>3, AbortFacts
      <3>5. W' = W
        BY <3>3, <3>4 DEF W, Flushed
      <3>6. Glided(mem, disk, fp)
        BY <1>1, GlidedNot
      <3>7. Glided(mem', disk', fp')
        BY <1>1, <3>3, <3>4, <3>5, <3>6 DEF Glided, Coherent, Placed, W
      <3> QED BY <1>4, <1>5, <3>3, <3>4, <3>5, <3>7
    <2> QED BY <2>2, <2>3
  <1> QED BY <1>6, <1>7

-----------------------------------------------------------------------------
(* A block that is written.                                                *)

\* The sectors of the chain, in effect, after create_chain.
LEMMA RelinkedSectors ==
  ASSUME Typed, Buffered, NEW m, NEW d, Relinked(m, d)
  PROVE  \A t \in Sectors : t < mem.chain => Flushed(fp, d).sec[t] = W[t]
  <1> SUFFICES ASSUME NEW t \in Sectors, t < mem.chain
               PROVE  Flushed(fp, d).sec[t] = W[t]
    OBVIOUS
  <1>1. fp \in FileT /\ disk \in Device /\ d \in Device /\ Coherent(fp, disk) /\ d.sec[t] = disk.sec[t]
    BY DEF Typed, Buffered, Relinked
  <1>2. CASE fp.dirty /\ fp.sect = t
    <2>1. Flushed(fp, d).sec[t] = fp.buf
      BY <1>1, <1>2, FlushedFacts
    <2>2. Flushed(fp, disk).sec[t] = fp.buf
      BY <1>1, <1>2, FlushedFacts
    <2> QED BY <2>1, <2>2 DEF W
  <1>3. CASE ~(fp.dirty /\ fp.sect = t)
    <2>1. Flushed(fp, d).sec[t] = d.sec[t]
      BY <1>1, <1>3, FlushedFacts DEF Coherent
    <2>2. Flushed(fp, disk).sec[t] = disk.sec[t]
      BY <1>1, <1>3, FlushedFacts DEF Coherent
    <2> QED BY <1>1, <2>1, <2>2 DEF W
  <1> QED BY <1>2, <1>3

\* The start of a block goes into a sector and leaves the end of the one before.
LEMMA WithHeadFacts ==
  ASSUME NEW sec \in Sector, NEW h
  PROVE  /\ WithHead(sec, h).head = h /\ WithHead(sec, h).tail = sec.tail
         /\ WithHead(sec, h).hdr = sec.hdr
  BY DEF WithHead, Sector

\* As above, for the end of a block.
LEMMA NewTailFacts ==
  ASSUME NEW j
  PROVE  /\ NewHead(j).nonce = j.hdr.nonce /\ NewHead(j).idx = j.blk /\ NewHead(j).a = NewA(j)
         /\ NewTail(j).nonce = j.hdr.nonce /\ NewTail(j).idx = j.blk /\ NewTail(j).a = NewA(j)
         /\ NewTail(j).b = NewB(j)
  BY DEF NewHead, NewTail

\* The sectors w after the start of block k went out: x.
HeadOut(x, w, k, h, n) ==
  /\ \A t \in Sectors : t < n /\ t # k => x[t].head = w[t].head
  /\ x[k].head = h
  /\ \A t \in Sectors : t < n => x[t].tail = w[t].tail

\* Blocks after the start of block k went out and its end did not.
LEMMA HeadOutInFile ==
  ASSUME NEW b, NEW q, NEW w, NEW x, NEW k \in Nat, NEW n \in Nat,
         InFile(b, q, w, k, FALSE), HeadOut(x, w, k, HeadOf(b, q, k), n) \/
           (k \notin Openable(b) /\ \E h : HeadOut(x, w, k, h, n)),
         First(q) \in Nat, Touched(q, k), \A l \in Openable(b) : l + 2 <= n
  PROVE  InFile(b, q, x, k, TRUE)
  <1> SUFFICES ASSUME NEW l \in Openable(b)
               PROVE  /\ l < First(q) \/ l > k => IsOld(b, x, l)
                      /\ First(q) <= l /\ l < k => IsNew(b, q, x, l)
                      /\ l = k =>
                           /\ x[l + 1].tail = b.sec[l + 1].tail
                           /\ \/ x[l].head = b.sec[l].head
                              \/ TRUE /\ Touched(q, l) /\ x[l].head = HeadOf(b, q, l)
    BY DEF InFile
  <1>1. l \in Nat /\ l \in Sectors /\ l + 1 \in Sectors /\ l < n /\ l + 1 < n
    BY OpenableFacts, Positions
  <1>2. /\ x[l + 1].tail = w[l + 1].tail
        /\ l # k => x[l].head = w[l].head
        /\ l = k => x[l].head = HeadOf(b, q, l)
    BY <1>1 DEF HeadOut
  <1>3. l # k => /\ l < First(q) \/ l > k => IsOld(b, x, l)
                 /\ First(q) <= l /\ l < k => IsNew(b, q, x, l)
    BY <1>2 DEF InFile, IsOld, IsNew
  <1>4. l = k => x[l + 1].tail = b.sec[l + 1].tail
    BY <1>2 DEF InFile
  <1>5. l = k => ~(l > k) /\ ~(l < k)
    BY <1>1
  <1>6. l = k => ~(l < First(q))
    BY <1>1 DEF Touched
  <1> QED BY <1>2, <1>3, <1>4, <1>5, <1>6

\* f_write of the block at hand after its clusters are linked, and what it
\* does to the sectors the file holds.
LEMMA PutFacts ==
  ASSUME IInv, pc = "put_block", ~fp.err,
         NEW g \in Linked(mem, disk, End(job.blk)), NEW o \in PutBlock(job, fp, g.disk)
  PROVE  LET k == job.blk
             x == Flushed(o.fp, o.disk).sec
         IN  /\ o.ok \in BOOLEAN /\ o.fault \in BOOLEAN
             /\ g.mem \in MemT /\ o.fp \in FileT /\ o.disk \in Device
             /\ CachedOn(g.mem, o.disk)
             /\ Coherent(o.fp, o.disk) /\ Placed(o.fp, g.mem.chain)
             /\ g.mem.size = mem.size /\ g.mem.chain >= mem.chain /\ g.mem.chain >= k + 2
             /\ o.disk.chain = disk.chain /\ o.disk.size \in {disk.size, mem.size}
             /\ SizedOn(o.fp.size, g.mem, o.disk) /\ o.fp.size >= fp.size
             /\ \/ \A t \in Sectors : t < mem.chain => o.disk.sec[t] = disk.sec[t]
                \/ /\ HeadOut(o.disk.sec, W, k, NewHead(job), mem.chain)
                   /\ o.disk.sec[0].hdr = W[0].hdr
             /\ x[0].hdr = W[0].hdr
             /\ \A t \in Sectors \ {k, k + 1} : t < mem.chain => x[t] = W[t]
             /\ x[k].head = NewHead(job) /\ x[k].tail = W[k].tail
             /\ ~o.ok => o.fp.err /\ HeadOut(x, W, k, NewHead(job), mem.chain)
             /\ o.ok =>
                  /\ o.fp.modified /\ o.fp.size >= End(k)
                  /\ x[k + 1].tail = NewTail(job)
                  /\ fp.size > Start(k) + 1 /\ k + 1 < mem.chain => x[k + 1].head = W[k + 1].head
  <1> DEFINE k == job.blk
             x == Flushed(o.fp, o.disk).sec
             w == Flushed(fp, g.disk).sec
  <1>1. /\ Typed /\ Buffered /\ Cached /\ fp \in FileT /\ job \in JobT /\ pc \in Writing
        /\ pc \notin Sizing /\ pc # "f_crypt_lseek" /\ fp.sect = k
    BY DEF IInv, Typed, Flow, Writing, Loop, Sizing
  <1>2. k \in BlockSet /\ k < mem.chain /\ mem.chain \in Nat /\ fp.size \in Nat
    BY <1>1, PlaceFacts
  <1>3. /\ k \in Nat /\ k \in Sectors /\ k + 1 \in Sectors /\ k < Blocks /\ k \in 0 .. Blocks - 1
        /\ Start(k) = 2 * k + 1 /\ End(k) = 2 * k + 3 /\ 0 \in Sectors
    <2> HIDE DEF k
    <2> QED BY <1>2, Positions DEF BlockSet
  <1>4. /\ ClustersFor(End(k)) = k + 2 /\ k + 2 <= Blocks + 1 /\ End(k) \in Nat
    <2> HIDE DEF k
    <2> QED BY <1>3, ClusterCounts, SectorAssumption
  <1>5. Relinked(g.mem, g.disk) /\ g.mem.chain >= k + 2
    BY <1>1, <1>4, LinkedStep
  <1>6. /\ g.mem \in MemT /\ g.disk \in Device /\ CachedOn(g.mem, g.disk)
        /\ g.mem.size = mem.size /\ g.mem.chain >= mem.chain
        /\ g.disk.chain = disk.chain /\ g.disk.size \in {disk.size, mem.size}
        /\ \A s \in Sectors : s < mem.chain => g.disk.sec[s] = disk.sec[s]
    BY <1>5 DEF Relinked
  <1>7. Coherent(fp, g.disk)
    BY <1>1, <1>6 DEF Buffered, Coherent, Placed
  <1>8. Put(job, fp, g.disk, o)
    BY <1>1, <1>3, <1>6, <1>7, PutBlockFacts
  <1>9. \A t \in Sectors : t < mem.chain => w[t] = W[t]
    BY <1>1, <1>5, RelinkedSectors
  <1>10. W[k] \in Sector /\ W[0] \in Sector
    <2>1. Flushed(fp, disk) \in Device
      BY <1>1, FlushedFacts DEF Typed, Buffered, Coherent
    <2> QED BY <1>3, <2>1, DeviceFacts DEF W
  <1>11. /\ o.ok \in BOOLEAN /\ o.fault \in BOOLEAN
         /\ o.fp \in FileT /\ o.disk \in Device /\ Coherent(o.fp, o.disk)
         /\ o.disk.size = g.disk.size /\ o.disk.chain = g.disk.chain
         /\ o.fp.sect \in {k, k + 1}
    BY <1>8 DEF Put
  <1>12. /\ \/ o.disk.sec = g.disk.sec
            \/ /\ \A s \in Sectors : s # k => o.disk.sec[s] = w[s]
               /\ o.disk.sec[k] = WithHead(w[k], NewHead(job))
         /\ \A s \in Sectors \ {k, k + 1} : x[s] = w[s]
         /\ x[k] = WithHead(w[k], NewHead(job))
    BY <1>8 DEF Put
  <1>13. o.ok => /\ o.fp.modified /\ o.fp.size = MaxOf(fp.size, End(k))
                 /\ x[k + 1].tail = NewTail(job)
                 /\ fp.size > Start(k) + 1 => x[k + 1].head = w[k + 1].head
    BY <1>8 DEF Put
  <1>14. ~o.ok => /\ o.fp.err /\ o.fp.size = MaxOf(fp.size, Start(k) + 1)
                  /\ x[k + 1] = w[k + 1]
    BY <1>8 DEF Put
  <1> HIDE DEF k, x, w
  <1>15. x[k].head = NewHead(job) /\ x[k].tail = W[k].tail
    BY <1>2, <1>3, <1>9, <1>10, <1>12, WithHeadFacts
  <1>16. \A t \in Sectors \ {k, k + 1} : t < mem.chain => x[t] = W[t]
    BY <1>9, <1>12
  <1>17. x[0].hdr = W[0].hdr
    <2>1. CASE k = 0
      BY <1>2, <1>3, <1>9, <1>10, <1>12, <2>1, WithHeadFacts
    <2>2. CASE k # 0
      BY <1>2, <1>3, <1>16, <2>2
    <2> QED BY <2>1, <2>2
  <1>18. ~o.ok => HeadOut(x, W, k, NewHead(job), mem.chain)
    BY <1>3, <1>9, <1>14, <1>15, <1>16 DEF HeadOut
  <1>19. \/ \A t \in Sectors : t < mem.chain => o.disk.sec[t] = disk.sec[t]
         \/ /\ HeadOut(o.disk.sec, W, k, NewHead(job), mem.chain)
            /\ o.disk.sec[0].hdr = W[0].hdr
    <2>1. CASE o.disk.sec = g.disk.sec
      BY <1>6, <2>1
    <2>2. CASE /\ \A s \in Sectors : s # k => o.disk.sec[s] = w[s]
               /\ o.disk.sec[k] = WithHead(w[k], NewHead(job))
      <3>1. /\ o.disk.sec[k].head = NewHead(job) /\ o.disk.sec[k].tail = W[k].tail
            /\ o.disk.sec[k].hdr = W[k].hdr
        BY <1>2, <1>3, <1>9, <1>10, <2>2, WithHeadFacts
      <3>2. \A t \in Sectors : t < mem.chain /\ t # k => o.disk.sec[t] = W[t]
        BY <1>9, <2>2
      <3>3. HeadOut(o.disk.sec, W, k, NewHead(job), mem.chain)
        BY <3>1, <3>2 DEF HeadOut
      <3>4. o.disk.sec[0].hdr = W[0].hdr
        BY <1>2, <1>3, <3>1, <3>2
      <3> QED BY <3>3, <3>4
    <2> QED BY <1>12, <2>1, <2>2
  <1>20. o.fp.size \in Nat /\ o.fp.size >= fp.size /\ (o.ok => o.fp.size >= End(k))
         /\ (o.fp.size = fp.size \/ o.fp.size = End(k) \/ o.fp.size = Start(k) + 1)
    BY <1>2, <1>3, <1>4, <1>11, <1>13, <1>14 DEF MaxOf
  <1>21. SizedOn(o.fp.size, g.mem, o.disk)
    <2>1. SizedOn(fp.size, mem, disk)
      BY <1>1, WriteOp
    <2>2. ClustersFor(fp.size) \in Nat /\ ClustersFor(Start(k) + 1) \in Nat
      <3>1. Start(k) + 1 \in Nat
        BY <1>3
      <3> QED BY <1>2, <3>1, Halves
    <2>3. ClustersFor(Start(k) + 1) <= k + 2
      <3>1. Start(k) + 1 \in Nat /\ Start(k) + 1 <= End(k)
        BY <1>3
      <3> QED BY <1>4, <3>1, ClusterCounts
    <2>4. mem.size \in Nat /\ disk.size \in Nat /\ g.mem.chain \in Nat
      BY <1>6, MemFacts, DeviceFacts DEF IInv, Typed
    <2>5. CASE o.fp.size = fp.size
      BY <1>2, <1>5, <1>6, <1>11, <2>1, <2>2, <2>4, <2>5 DEF SizedOn
    <2>6. CASE o.fp.size = End(k) \/ o.fp.size = Start(k) + 1
      <3>1. ClustersFor(o.fp.size) <= g.mem.chain /\ o.fp.size >= 1 /\ g.mem.chain >= 1
        BY <1>3, <1>4, <1>5, <2>2, <2>3, <2>4, <2>6
      <3> QED BY <3>1 DEF SizedOn
    <2> QED BY <1>20, <2>5, <2>6
  <1>22. CachedOn(g.mem, o.disk)
    BY <1>6, <1>11 DEF CachedOn
  <1>23. Placed(o.fp, g.mem.chain)
    <2>1. g.mem.chain \in Nat
      BY <1>6, MemFacts
    <2> QED BY <1>3, <1>5, <1>11, <2>1 DEF Placed
  <1>24. o.ok => /\ x[k + 1].tail = NewTail(job)
                 /\ fp.size > Start(k) + 1 /\ k + 1 < mem.chain => x[k + 1].head = W[k + 1].head
    BY <1>3, <1>9, <1>13
  <1> QED BY <1>5, <1>6, <1>11, <1>13, <1>14, <1>15, <1>16, <1>17, <1>18, <1>19, <1>20, <1>21, <1>22,
             <1>23, <1>24 DEF k, x

\* The cells of the block that goes out: the new ones where the request covers
\* them, and what could be read there before elsewhere.
LEMMA NewPartsKept ==
  ASSUME IInv, pc = "put_block", ~fp.err, Keeps, job.blk \in Openable(base)
  PROVE  /\ NewHead(job) = HeadOf(base, Req(job), job.blk)
         /\ NewTail(job) = TailOf(base, Req(job), job.blk)
  <1> DEFINE k == job.blk
  <1>1. job \in JobT /\ KeptHeader /\ KeptOld
    BY DEF IInv, Typed, Kept
  <1>2. job.hdr.nonce = base.sec[0].hdr.nonce
    BY <1>1 DEF IInv, Headed, Loop, KeptHeader, HdrKept
  <1>3. /\ NewA(job) = IF 2 * k \in Span(job) THEN job.val ELSE job.old[1]
        /\ NewB(job) = IF 2 * k + 1 \in Span(job) THEN job.val ELSE job.old[2]
    BY <1>1, NewPartFacts
  <1>4. NewA(job) = CellA(base, Req(job), k) /\ NewB(job) = CellB(base, Req(job), k)
    <2>1. CASE Whole(job)
      BY <1>3, <2>1, ReqFacts DEF Whole, CellA, CellB
    <2>2. CASE ~Whole(job)
      BY <1>1, <1>3, <2>2, ReqFacts DEF KeptOld, CellA, CellB
    <2> QED BY <2>1, <2>2
  <1> QED BY <1>2, <1>4 DEF NewHead, NewTail, HeadOf, TailOf

\* f_write of a block keeps the invariant, whichever of its device accesses fails.
LEMMA put_blockStep ==
  ASSUME IInv, put_block PROVE IInv'
  <1> DEFINE k == job.blk
  <1>1. /\ pc = "put_block" /\ pc \in Writing \ {"f_crypt_lseek"} /\ pc \notin Sizing
        /\ NoAnswer /\ Typed /\ pc # "idle" /\ pc \notin Syncing
    BY DEF put_block, Writing, Loop, Sizing, Syncing, IInv
  <1>2. CASE fp.err
    <2>1. Fail /\ fp' = fp /\ disk' = disk /\ mem' = mem /\ faults' = faults
      BY <1>2 DEF put_block
    <2>2. Glided(mem', disk', fp') /\ W' = W /\ faults' \in 0 .. MaxFaults
      BY <1>1, <2>1, GlidedNot DEF W, Typed
    <2> QED BY <1>1, <2>1, <2>2, FailStep
  <1>3. CASE ~fp.err
    <2>1. PICK g \in Linked(mem, disk, End(job.blk)) :
            \E o \in PutBlock(job, fp, g.disk) :
              /\ Take(o)
              /\ mem' = g.mem
              /\ IF o.ok THEN GoOn([job EXCEPT !.blk = @ + 1], AfterBlock(job)) ELSE Fail
      BY <1>3 DEF put_block
    <2>2. PICK o \in PutBlock(job, fp, g.disk) :
              /\ Take(o)
              /\ mem' = g.mem
              /\ IF o.ok THEN GoOn([job EXCEPT !.blk = job.blk + 1], AfterBlock(job)) ELSE Fail
      BY <2>1
    <2>3. fp' = o.fp /\ disk' = o.disk /\ mem' = g.mem /\ faults' \in 0 .. MaxFaults
      BY <1>1, <1>3, <2>2, PutFacts, TakeFaults
    <2>4. /\ o.ok \in BOOLEAN
          /\ mem' \in MemT /\ fp' \in FileT /\ disk' \in Device
          /\ CachedOn(mem', disk')
          /\ Coherent(fp', disk') /\ Placed(fp', mem'.chain)
          /\ mem'.size = mem.size /\ mem'.chain >= mem.chain /\ mem'.chain >= k + 2
          /\ disk'.chain = disk.chain /\ disk'.size \in {disk.size, mem.size}
          /\ SizedOn(fp'.size, mem', disk') /\ fp'.size >= fp.size
      BY <1>1, <1>3, <2>3, PutFacts
    <2>5. /\ \/ \A t \in Sectors : t < mem.chain => disk'.sec[t] = disk.sec[t]
             \/ /\ HeadOut(disk'.sec, W, k, NewHead(job), mem.chain)
                /\ disk'.sec[0].hdr = W[0].hdr
          /\ W'[0].hdr = W[0].hdr
          /\ \A t \in Sectors \ {k, k + 1} : t < mem.chain => W'[t] = W[t]
          /\ W'[k].head = NewHead(job) /\ W'[k].tail = W[k].tail
      BY <1>1, <1>3, <2>3, PutFacts DEF W
    <2>6. ~o.ok => fp'.err /\ HeadOut(W', W, k, NewHead(job), mem.chain)
      BY <1>1, <1>3, <2>3, PutFacts DEF W
    <2>7. o.ok => /\ fp'.modified /\ fp'.size >= End(k)
                  /\ W'[k + 1].tail = NewTail(job)
                  /\ fp.size > Start(k) + 1 /\ k + 1 < mem.chain => W'[k + 1].head = W[k + 1].head
      BY <1>1, <1>3, <2>3, PutFacts DEF W
    <2>8. /\ job \in JobT /\ job.op = "write" /\ k \in BlockSet /\ k \in Nat /\ k < Blocks
          /\ k \in Sectors /\ k + 1 \in Sectors /\ 0 \in Sectors
          /\ Start(k) = 2 * k + 1 /\ End(k) = 2 * k + 3
          /\ First(job) \in Nat /\ LastBlock(job) \in Nat /\ LastBlock(job) < Blocks
          /\ First(job) <= k /\ k <= LastBlock(job) /\ k < mem.chain
          /\ job.len >= 1 /\ job.off + job.len <= 2 * Blocks
          /\ Touched(Req(job), k)
      BY <1>1, PlaceFacts, Positions, ReqFacts DEF Typed, Touched
    <2>9. /\ mem.chain \in Nat /\ mem'.chain \in Nat /\ mem.size \in Nat /\ disk.size \in Nat
          /\ fp.size \in Nat /\ fp'.size \in Nat
      BY <2>4, MemFacts, DeviceFacts, FileFacts DEF IInv, Typed
    <2>10. /\ job' = IF o.ok THEN [job EXCEPT !.blk = k + 1] ELSE [job EXCEPT !.ret = "EIO"]
           /\ pc' = IF o.ok THEN AfterBlock(job) ELSE "sync"
      BY <2>2, <2>4 DEF GoOn, Fail
    <2>11. /\ job' \in JobT /\ Req(job') = Req(job) /\ job'.hdr = job.hdr
           /\ job'.op = "write" /\ job'.off = job.off /\ job'.len = job.len
           /\ First(job') = First(job) /\ LastBlock(job') = LastBlock(job)
           /\ o.ok => job'.blk = k + 1 /\ job'.ret = job.ret
           /\ ~o.ok => job'.blk = k /\ job'.ret = "EIO"
      <3>1. job' \in JobT
        BY <2>8, <2>10 DEF JobT
      <3>2. /\ job'.op = job.op /\ job'.off = job.off /\ job'.len = job.len /\ job'.val = job.val
            /\ job'.hdr = job.hdr
            /\ o.ok => job'.blk = k + 1 /\ job'.ret = job.ret
            /\ ~o.ok => job'.blk = k /\ job'.ret = "EIO"
        BY <2>8, <2>10 DEF JobT
      <3> HIDE DEF k
      <3> QED BY <2>8, <3>1, <3>2 DEF Req, First, LastBlock
    <2>12. /\ pc' \in {"seek", "update_fatcrypt_header_lsize", "sync"}
           /\ o.ok => job'.ret = "OK"
           /\ pc' = "seek" => o.ok /\ k < LastBlock(job)
           /\ pc' = "update_fatcrypt_header_lsize" => o.ok /\ k = LastBlock(job)
           /\ pc' = "sync" /\ o.ok => k = LastBlock(job) /\ job.hdr.lsize = job.off + job.len
      <3>1. job.ret = "OK"
        BY <1>1 DEF IInv, Flow
      <3>2. k < LastBlock(job) \/ k = LastBlock(job)
        BY <2>8
      <3> QED BY <2>8, <2>10, <2>11, <3>1, <3>2 DEF AfterBlock
    <2>13. base' = base /\ nonce' = nonce /\ requests' = requests /\ crashes' = crashes
      BY <1>1 DEF NoAnswer
    <2>14. W[0].hdr = job.hdr /\ job.hdr.nonce # 0
      BY <1>1 DEF IInv, Headed, Loop
    <2> HIDE DEF k
    <2>15. Typed'
      BY <2>3, <2>4, <2>11, <2>12, <2>13 DEF IInv, Typed, Writing, Loop, Sizing, Syncing
    <2>16. Cached' /\ Buffered'
      BY <2>4, <2>12 DEF Cached, Buffered
    <2>17. Sized'
      <3>1. fp.size >= mem.size
        BY <1>1, WriteOp
      <3> QED BY <2>4, <2>9, <3>1 DEF Sized
    <2>18. Flow'
      <3>1. CASE pc' = "sync"
        <4>1. job'.blk = k \/ job'.blk = k + 1
          BY <2>4, <2>11
        <4> QED BY <2>8, <2>11, <3>1, <4>1 DEF Flow, Syncing, Writing, Loop, Sizing, Heading
      <3>2. CASE pc' # "sync"
        <4>1. o.ok /\ job'.blk = k + 1 /\ job'.ret = job.ret
          BY <2>11, <2>12, <3>2
        <4>2. Start(k + 1) = End(k) /\ k + 1 \in Nat
          BY <2>8 DEF Start
        <4>3. fp'.size >= Start(job'.blk) /\ job'.blk < mem'.chain
          BY <2>4, <2>7, <2>8, <2>9, <4>1, <4>2
        <4> QED BY <1>1, <2>8, <2>11, <2>12, <3>2, <4>1, <4>2, <4>3, FlowOn
                DEF Writing, Heading, Loop, Sizing
      <3> QED BY <3>1, <3>2
    <2>19. Headed'
      <3>1. o.ok => job'.blk = LastBlock(job') + 1 \/ pc' = "seek"
        BY <2>11, <2>12
      <3>2. job.hdr.lsize = job.off + job.len
              => job.hdr = [nonce |-> job.hdr.nonce, lsize |-> job.off + job.len]
        BY <2>8, JobFacts DEF HeaderT
      <3> QED BY <2>4, <2>5, <2>7, <2>11, <2>12, <2>14, <3>1, <3>2
              DEF Headed, Loop, Syncing
    <2>20. Done'
      <3> DEFINE q == Req(job)
                 n == job.hdr.nonce
      <3>1. WrittenUpTo(q, n, W, k, fp.size, mem.chain)
        BY <1>1, <2>8 DEF IInv, Done, k
      <3>2. ASSUME NEW l \in First(q) .. k - 1
            PROVE  Written(q, n, W', l) /\ End(l) <= fp'.size /\ l + 2 <= mem'.chain
        <4>1. Written(q, n, W, l) /\ End(l) <= fp.size /\ l + 2 <= mem.chain
          BY <3>1 DEF WrittenUpTo
        <4>2. l \in Nat /\ l < k /\ l \in BlockSet
          <5>1. First(q) \in Nat /\ k - 1 \in Int
            BY <2>8, ReqFacts
          <5>2. l \in Nat /\ l < k
            BY <2>8, <5>1
          <5> QED BY <2>8, <5>2, SectorAssumption DEF BlockSet
        <4>3. l \in Sectors /\ l + 1 \in Sectors /\ End(l) \in Nat
          BY <4>2, Positions
        <4>4. W'[l].head = W[l].head
          BY <2>5, <2>8, <2>9, <4>1, <4>2, <4>3
        <4>5. W'[l + 1].tail = W[l + 1].tail
          BY <2>5, <2>8, <2>9, <4>1, <4>2, <4>3
        <4> QED BY <2>4, <2>9, <4>1, <4>2, <4>3, <4>4, <4>5 DEF Written
      <3>3. o.ok => Written(q, n, W', k)
        <4>1. /\ NewHead(job).nonce = n /\ NewHead(job).idx = k /\ NewHead(job).a = NewA(job)
              /\ NewTail(job).nonce = n /\ NewTail(job).idx = k /\ NewTail(job).a = NewA(job)
              /\ NewTail(job).b = NewB(job)
          BY NewTailFacts DEF k
        <4>2. /\ 2 * k \in Span(q) => NewA(job) = q.val
              /\ 2 * k + 1 \in Span(q) => NewB(job) = q.val
          BY <2>8, NewPartFacts, ReqFacts DEF k
        <4> QED BY <2>5, <2>7, <4>1, <4>2 DEF Written
      <3>4. o.ok => WrittenUpTo(q, n, W', k + 1, fp'.size, mem'.chain)
        <4> SUFFICES ASSUME o.ok, NEW l \in First(q) .. k
                     PROVE  Written(q, n, W', l) /\ End(l) <= fp'.size /\ l + 2 <= mem'.chain
          BY <2>8 DEF WrittenUpTo
        <4>1. CASE l = k
          BY <2>4, <2>7, <3>3, <4>1
        <4>2. CASE l # k
          <5>1. l \in First(q) .. k - 1
            BY <2>8, <4>2, ReqFacts
          <5> QED BY <3>2, <5>1
        <4> QED BY <4>1, <4>2
      <3>5. ~o.ok => WrittenUpTo(q, n, W', k, fp'.size, mem'.chain)
        BY <3>2 DEF WrittenUpTo
      <3> QED BY <2>4, <2>11, <3>4, <3>5 DEF Done
    <2>21. Kept'
      <3> SUFFICES ASSUME Keeps
                   PROVE  (KeptHeader /\ KeptRoom /\ KeptParts /\ KeptOld)'
        BY <2>8, <2>11, <2>13 DEF Kept, Keeps
      <3> DEFINE q == Req(job)
      <3>1. KeptHeader /\ KeptRoom /\ KeptParts /\ CachedOn(mem, disk)
        BY DEF IInv, Kept, Cached
      <3>2. disk.size >= 1 /\ mem.size >= 1 /\ mem.chain >= 1
        BY <2>8, <2>9, <3>1 DEF KeptHeader, CachedOn
      <3>3. \A l \in Openable(base) :
              /\ End(l) <= disk.size /\ End(l) <= mem.size /\ End(l) <= fp.size
              /\ l + 2 <= disk.chain /\ l + 2 <= mem.chain
              /\ End(l) \in Nat /\ End(l) = 2 * l + 3 /\ l \in Nat /\ l \in Sectors /\ l + 1 \in Sectors
        BY <1>1, <3>1, OpenableFacts, Positions DEF KeptRoom, Room
      <3>4. InFile(base, q, W, k, FALSE) /\ OnDisk(base, q, disk.sec)
        BY <1>1, <3>1 DEF KeptParts, k
      <3>5. KeptHeader'
        <4>1. disk'.size >= 1
          BY <2>4, <3>2
        <4>2. disk'.sec[0].hdr = disk.sec[0].hdr \/ disk'.sec[0].hdr = W[0].hdr
          BY <2>5, <2>8, <2>9, <3>2
        <4>3. HdrKept(base', Req(job'), disk'.sec[0].hdr) /\ HdrKept(base', Req(job'), W'[0].hdr)
          BY <2>5, <2>11, <2>13, <3>1, <4>2 DEF KeptHeader
        <4> QED BY <2>12, <4>1, <4>3 DEF KeptHeader
      <3>6. KeptRoom'
        <4> SUFFICES ASSUME NEW l \in Openable(base)
                     PROVE  /\ End(l) <= disk'.size /\ End(l) <= mem'.size /\ End(l) <= fp'.size
                            /\ l + 2 <= disk'.chain /\ l + 2 <= mem'.chain
          BY <2>13 DEF KeptRoom, Room
        <4> QED BY <2>4, <2>9, <3>3
      <3>7. ASSUME NEW x, HeadOut(x, W, k, NewHead(job), mem.chain)
            PROVE  InFile(base, q, x, k, TRUE)
        <4>1. /\ First(q) \in Nat /\ Touched(q, k) /\ mem.chain \in Nat
              /\ \A l \in Openable(base) : l + 2 <= mem.chain
          BY <2>8, <2>9, <3>3, ReqFacts
        <4>2. CASE k \in Openable(base)
          <5>1. NewHead(job) = HeadOf(base, q, k)
            BY <1>1, <1>3, <4>2, NewPartsKept DEF k
          <5>2. HeadOut(x, W, k, HeadOf(base, q, k), mem.chain)
            BY <3>7, <5>1
          <5> QED BY <2>8, <3>4, <4>1, <5>2, HeadOutInFile
        <4>3. CASE k \notin Openable(base)
          <5>1. \E h : HeadOut(x, W, k, h, mem.chain)
            BY <3>7
          <5> QED BY <2>8, <3>4, <4>1, <4>3, <5>1, HeadOutInFile
        <4> QED BY <4>2, <4>3
      <3>8. OnDisk(base, q, disk'.sec)
        <4>1. CASE \A t \in Sectors : t < mem.chain => disk'.sec[t] = disk.sec[t]
          <5>1. SameParts(disk'.sec, disk.sec, mem.chain)
            BY <4>1 DEF SameParts
          <5> QED BY <2>9, <3>3, <3>4, <5>1, SamePartsKeep
        <4>2. CASE HeadOut(disk'.sec, W, k, NewHead(job), mem.chain)
          <5>1. InFile(base, q, disk'.sec, k, TRUE)
            BY <3>7, <4>2
          <5>2. /\ First(q) \in Nat /\ LastBlock(q) \in Nat /\ First(q) <= k /\ k <= LastBlock(q)
                /\ k <= LastBlock(q) + 1
            BY <2>8, ReqFacts
          <5> QED BY <2>8, <5>1, <5>2, InFileOnDisk
        <4> QED BY <2>5, <4>1, <4>2
      <3>9. ~o.ok => InFile(base, q, W', k, TRUE)
        BY <2>6, <3>7
      <3>10. ASSUME o.ok PROVE InFile(base, q, W', k + 1, FALSE)
        <4> SUFFICES ASSUME NEW l \in Openable(base)
                     PROVE  /\ l < First(q) \/ l > k + 1 => IsOld(base, W', l)
                            /\ First(q) <= l /\ l < k + 1 => IsNew(base, q, W', l)
                            /\ l = k + 1 => IsOld(base, W', l)
          BY DEF InFile, IsOld
        <4>1. /\ l \in Nat /\ l \in Sectors /\ l + 1 \in Sectors /\ l + 2 <= mem.chain
              /\ End(l) <= fp.size /\ End(l) = 2 * l + 3
              /\ l < mem.chain /\ l + 1 < mem.chain
          BY <2>9, <3>3
        <4>2. CASE l = k
          <5>1. W'[k].head = HeadOf(base, q, k) /\ W'[k + 1].tail = TailOf(base, q, k)
            BY <1>1, <1>3, <2>5, <2>7, <3>10, <4>2, NewPartsKept DEF k
          <5>2. First(q) <= k /\ First(q) \in Nat /\ Touched(q, k)
            BY <2>8, ReqFacts
          <5> QED BY <2>8, <4>2, <5>1, <5>2 DEF IsNew
        <4>3. CASE l = k + 1
          <5>1. IsOld(base, W, l)
            BY <2>8, <3>4, <4>3 DEF InFile
          <5>2. W'[l].head = W[l].head
            BY <2>7, <2>8, <2>9, <3>10, <4>1, <4>3
          <5>3. W'[l + 1] = W[l + 1]
            BY <2>5, <2>8, <2>9, <4>1, <4>3
          <5>4. First(q) \in Nat /\ First(q) <= k
            BY <2>8, ReqFacts
          <5> QED BY <2>8, <4>1, <4>3, <5>1, <5>2, <5>3, <5>4 DEF IsOld
        <4>4. CASE l # k /\ l # k + 1
          <5>1. W'[l].head = W[l].head
            BY <2>5, <2>9, <4>1, <4>4
          <5>2. W'[l + 1].tail = W[l + 1].tail
            BY <2>5, <2>8, <2>9, <4>1, <4>4
          <5>3. l > k + 1 \/ l < k
            BY <2>8, <4>1, <4>4
          <5>4. /\ l < First(q) \/ l > k => IsOld(base, W, l)
                /\ First(q) <= l /\ l < k => IsNew(base, q, W, l)
            BY <3>4 DEF InFile
          <5>5. First(q) \in Nat /\ First(q) <= k
            BY <2>8, ReqFacts
          <5> QED BY <2>8, <4>1, <4>4, <5>1, <5>2, <5>3, <5>4, <5>5 DEF IsOld, IsNew
        <4> QED BY <4>2, <4>3, <4>4
      <3>11. InFile(base', Req(job'), W', job'.blk, (pc \in Syncing /\ job.ret = "EIO")')
        <4>1. CASE o.ok
          BY <2>11, <2>13, <3>10, <4>1, InFileTorn
        <4>2. CASE ~o.ok
          <5>1. pc' \in Syncing /\ job'.ret = "EIO"
            BY <2>4, <2>10, <2>11, <4>2 DEF Syncing
          <5> QED BY <2>11, <2>13, <3>9, <4>2, <5>1
        <4> QED BY <4>1, <4>2
      <3>12. KeptParts'
        BY <2>11, <2>13, <3>8, <3>11 DEF KeptParts
      <3>13. KeptOld'
        BY <2>12 DEF KeptOld
      <3> QED BY <3>5, <3>6, <3>12, <3>13
    <2> QED BY <2>15, <2>16, <2>17, <2>18, <2>19, <2>20, <2>21 DEF IInv
  <1> QED BY <1>2, <1>3

-----------------------------------------------------------------------------
(* A header that is written: by write_fatcrypt_header, and its size by     *)
(* update_fatcrypt_header_lsize.                                           *)

\* File f after header h went to its buffer; its size is z.
Patched(f2, f, h, z) ==
  /\ f2 \in FileT /\ f2.sect = f.sect /\ f2.err = f.err /\ f2.size = z
  /\ f2.dirty /\ f2.modified
  /\ f2.buf.hdr = h /\ f2.buf.head = f.buf.head /\ f2.buf.tail = f.buf.tail

\* A header goes into the buffer.
LEMMA PatchedFacts ==
  ASSUME NEW f \in FileT, NEW h \in HeaderT, NEW z \in 0 .. End(Blocks - 1),
         NEW f2, f2 = [f EXCEPT !.buf = [f.buf EXCEPT !.hdr = h], !.dirty = TRUE,
                                !.modified = TRUE, !.size = z]
  PROVE  Patched(f2, f, h, z)
  <1> DEFINE b == [f.buf EXCEPT !.hdr = h]
  <1>1. /\ b \in Sector /\ b.hdr = h /\ b.head = f.buf.head /\ b.tail = f.buf.tail
    BY FileFacts DEF Sector, HeaderT
  <1> HIDE DEF b
  <1>2. /\ f2 \in FileT /\ f2.sect = f.sect /\ f2.err = f.err /\ f2.size = z
        /\ f2.dirty /\ f2.modified /\ f2.buf = b
    BY <1>1 DEF FileT, b
  <1> QED BY <1>1, <1>2 DEF Patched

\* The buffer on sector 0 takes header h: the blocks stay.
LEMMA PatchedGlided ==
  ASSUME NEW m, NEW d, NEW f, Glided(m, d, f), f.sect = 0, NEW h, NEW z \in Nat, NEW f2,
         Patched(f2, f, h, z), z >= f.size, SizedOn(z, m, d), IInv
  PROVE  Glided(m, d, f2) /\ Flushed(f2, d).sec[0].hdr = h
  <1>1. /\ f \in FileT /\ d \in Device /\ Coherent(f, d) /\ f2 \in FileT /\ f2.dirty /\ f2.sect = 0
        /\ f2.size = z /\ 0 \in Sectors
    BY Positions DEF Glided, Patched
  <1>2. /\ Flushed(f2, d).sec[0] = f2.buf
        /\ \A s \in Sectors : s # 0 => Flushed(f2, d).sec[s] = d.sec[s]
    BY <1>1, FlushedFacts
  <1>3. /\ Flushed(f, d).sec[0] = f.buf
        /\ \A s \in Sectors : s # 0 => Flushed(f, d).sec[s] = d.sec[s]
    <2>1. Flushed(f, d).sec[0] = f.buf
      BY <1>1, FlushedFacts DEF Coherent
    <2>2. \A s \in Sectors : s # 0 => Flushed(f, d).sec[s] = d.sec[s]
      BY <1>1, FlushedFacts
    <2> QED BY <2>1, <2>2
  <1>4. SameParts(Flushed(f2, d).sec, W, mem.chain)
    BY <1>2, <1>3 DEF Glided, SameParts, Patched
  <1>5. Coherent(f2, d) /\ Placed(f2, m.chain)
    BY <1>1 DEF Coherent, Placed, Glided
  <1>6. z >= fp.size
    BY <1>1, FileFacts DEF Glided, IInv, Typed
  <1> QED BY <1>1, <1>2, <1>4, <1>5, <1>6 DEF Glided, Patched

\* A longer chain still covers the file.
LEMMA SizedRelinked ==
  ASSUME IInv, SizedOn(fp.size, mem, disk), NEW m, NEW d, Relinked(m, d)
  PROVE  SizedOn(fp.size, m, d)
  <1>1. /\ m \in MemT /\ m.size = mem.size /\ d.size \in {disk.size, mem.size}
        /\ m.chain >= mem.chain
    BY DEF Relinked
  <1>2. mem \in MemT /\ disk \in Device /\ fp \in FileT
    BY DEF IInv, Typed
  <1>3. fp.size \in Nat
    BY <1>2, FileFacts
  <1>4. ClustersFor(fp.size) \in Nat
    BY <1>3, Halves
  <1>5. /\ m.chain \in Nat /\ mem.chain \in Nat /\ mem.size \in Nat /\ disk.size \in Nat
    BY <1>1, <1>2, MemFacts, DeviceFacts
  <1> QED BY <1>1, <1>3, <1>4, <1>5 DEF SizedOn

\* write_fatcrypt_header writes a header only into a file that had none: with
\* fp->err set f_lseek, f_read and f_write all fail.
LEMMA write_fatcrypt_headerStep ==
  ASSUME IInv, write_fatcrypt_header PROVE IInv'
  <1>1. /\ pc = "write_fatcrypt_header" /\ pc \in Writing /\ pc \notin Sizing /\ pc # "f_crypt_lseek"
        /\ pc # "idle" /\ PutHeader("header_written") /\ Typed /\ Buffered /\ Cached /\ fp \in FileT
    BY DEF write_fatcrypt_header, Writing, Heading, Sizing, IInv, Typed
  <1>2. base' = base /\ requests' = requests /\ crashes' = crashes
    BY <1>1 DEF PutHeader
  <1>3. /\ job.blk = First(job) /\ job.blk < mem.chain /\ mem.chain >= 1 /\ mem.chain \in Nat
        /\ fp.size >= 1 /\ fp.size \in Nat /\ job \in JobT /\ 0 \in Sectors
    <2>1. job.blk = First(job)
      BY <1>1 DEF IInv, Flow, Heading
    <2>2. /\ job.blk < mem.chain /\ mem.chain >= 1 /\ mem.chain \in Nat /\ job.blk \in Nat
          /\ fp.size >= Start(job.blk) /\ fp.size \in Nat
      BY <1>1, PlaceFacts
    <2>3. Start(job.blk) = 2 * job.blk + 1
      BY <2>2, Positions
    <2> QED BY <1>1, <2>1, <2>2, <2>3, Positions DEF Typed
  <1>4. CASE Fail /\ UNCHANGED <<nonce, fp, disk, mem, faults>>
    <2>1. Glided(mem', disk', fp') /\ W' = W
      BY <1>1, <1>4, GlidedNot DEF W
    <2>2. nonce' \in 0 .. MaxNonce /\ faults' \in 0 .. MaxFaults
      BY <1>1, <1>4 DEF Typed
    <2> QED BY <1>1, <1>2, <1>4, <2>1, <2>2, FailAnyStep
  <1>5. ASSUME nonce < MaxNonce, nonce' = nonce + 1,
               NEW g \in Linked(mem, disk, 1), NEW o \in Move(fp, g.disk, 0), mem' = g.mem,
               IF o.ok
                 THEN /\ Take([o EXCEPT !.fp.buf.hdr = NewHeader, !.fp.dirty = TRUE,
                                        !.fp.modified = TRUE,
                                        !.fp.size = MaxOf(o.fp.size, 1)])
                      /\ GoOn([job EXCEPT !.hdr = NewHeader], "header_written")
                 ELSE Take(o) /\ Fail
        PROVE  IInv'
    <2>1. nonce' \in 0 .. MaxNonce /\ nonce \in Nat
      BY <1>1, <1>5, SectorAssumption DEF Typed
    <2>2. Relinked(g.mem, g.disk)
      <3>1. ClustersFor(1) <= Blocks + 1
        BY ClusterCounts, SectorAssumption
      <3> QED BY <1>1, <1>5, <3>1, LinkedStep
    <2>3. SizedOn(fp.size, g.mem, g.disk)
      BY <1>1, <2>2, WriteOp, SizedRelinked
    <2>4. 0 < g.mem.chain /\ g.mem.chain \in Nat /\ job.blk < g.mem.chain
      BY <1>1, <1>3, <2>2, MemFacts, PlaceFacts DEF Relinked
    <2>5. /\ Glided(g.mem, o.disk, o.fp) /\ Moved(fp, g.disk, 0, o)
          /\ \A t \in Sectors : t < mem.chain => Flushed(o.fp, o.disk).sec[t] = W[t]
      BY <1>1, <1>3, <1>5, <2>2, <2>3, <2>4, MoveStep
    <2>6. CASE ~o.ok
      <3>1. fp' = o.fp /\ disk' = o.disk /\ faults' \in 0 .. MaxFaults /\ Fail
        BY <1>1, <1>5, <2>5, <2>6, TakeFaults DEF Moved
      <3> QED BY <1>1, <1>2, <1>5, <2>1, <2>5, <3>1, FailAnyStep DEF W
    <2>7. CASE o.ok
      <3> DEFINE f2 == [o.fp EXCEPT !.buf = [o.fp.buf EXCEPT !.hdr = NewHeader], !.dirty = TRUE,
                                    !.modified = TRUE, !.size = fp.size]
                 o2 == [o EXCEPT !.fp.buf.hdr = NewHeader, !.fp.dirty = TRUE,
                                 !.fp.modified = TRUE, !.fp.size = MaxOf(o.fp.size, 1)]
      <3>1. /\ o = Outcome(o.ok, o.fault, o.fp, o.disk) /\ o.fp \in FileT /\ o.fp.size = fp.size
            /\ o.fault \in BOOLEAN /\ o.fp.sect = 0 /\ ~o.fp.err
        BY <2>5, <2>7 DEF Moved
      <3>2. MaxOf(o.fp.size, 1) = fp.size
        BY <1>3, <3>1 DEF MaxOf
      <3>3. o2.fp = f2 /\ o2.disk = o.disk /\ o2.fault = o.fault
        <4>1. o.fp.buf \in Sector
          BY <3>1, FileFacts
        <4> QED BY <3>1, <3>2, <4>1 DEF Outcome, FileT
      <3> HIDE DEF o2, f2
      <3>4. Take(o2) /\ GoOn([job EXCEPT !.hdr = NewHeader], "header_written")
        BY <1>5, <2>7 DEF o2
      <3>5. fp' = f2 /\ disk' = o.disk /\ faults' \in 0 .. MaxFaults
        BY <1>1, <3>1, <3>3, <3>4, TakeFaults
      <3>6. NewHeader \in HeaderT /\ NewHeader.nonce # 0
        BY <1>5, <2>1 DEF NewHeader, HeaderT
      <3>7. Patched(f2, o.fp, NewHeader, fp.size)
        <4>1. fp.size \in 0 .. End(Blocks - 1)
          BY <1>1 DEF FileT
        <4> QED BY <3>1, <3>6, <4>1, PatchedFacts DEF f2
      <3>8. SizedOn(fp.size, g.mem, o.disk) /\ fp.size >= o.fp.size
        BY <1>3, <2>5, <3>1 DEF Glided
      <3>9. Glided(mem', disk', fp') /\ W'[0].hdr = NewHeader
        BY <1>3, <1>5, <2>5, <3>1, <3>5, <3>7, <3>8, PatchedGlided DEF W
      <3>10. /\ job' \in JobT /\ Req(job') = Req(job) /\ job'.blk = job.blk /\ job'.hdr = NewHeader
             /\ job'.ret = job.ret /\ pc' = "header_written"
        BY <1>3, <3>4, <3>6 DEF JobT, Req, GoOn
      <3>11. fp'.size = fp.size
        BY <3>5, <3>7 DEF Patched
      <3>12. Flow'
        BY <1>1, <1>3, <1>5, <2>4, <3>10, <3>11, PlaceFacts, FlowOn DEF Writing, Heading, Loop, Sizing
      <3>13. Headed'
        BY <3>6, <3>9, <3>10 DEF Headed, Loop, Syncing
      <3>14. ~Keeps
        <4> SUFFICES ASSUME Keeps PROVE FALSE
          OBVIOUS
        <4>1. fp.err
          BY <1>1 DEF IInv, Kept, KeptHeader
        <4> QED BY <2>5, <2>7, <4>1 DEF Moved
      <3> QED BY <1>1, <1>2, <1>3, <2>1, <3>5, <3>9, <3>10, <3>12, <3>13, <3>14, GoOnAnyStep
              DEF Writing, Heading
    <2> QED BY <2>6, <2>7
  <1>6. fp.size # 0
    BY <1>3
  <1> QED BY <1>1, <1>4, <1>5, <1>6 DEF PutHeader

\* f_lseek into sector 0 and f_write of the size: the header keeps its nonce.
LEMMA PutLsizeFacts ==
  ASSUME IInv, pc \in {"update_fatcrypt_header_lsize", "truncate_lsize"}, NEW next,
         PutLsize(pc, next)
  PROVE  \/ IInv'
         \/ /\ GoOn(job, next)
            /\ NoAnswer /\ mem' = mem /\ faults' \in 0 .. MaxFaults
            /\ Glided(mem', disk', fp')
            /\ W'[0].hdr = [nonce |-> W[0].hdr.nonce, lsize |-> job.off + job.len]
            /\ fp'.size = fp.size /\ fp'.modified /\ ~fp'.err
  <1>1. /\ pc \in Writing \cup {"truncate_lsize"} /\ pc # "idle"
        /\ Typed /\ fp \in FileT /\ job \in JobT /\ 0 \in Sectors /\ mem \in MemT
        /\ SizedOn(fp.size, mem, disk)
    BY Positions DEF Writing, Sizing, IInv, Typed, Sized
  <1>2. 0 < mem.chain
    <2>1. CASE pc = "truncate_lsize"
      <3>1. fp.sect = 0
        BY <2>1 DEF IInv, Flow
      <3> QED BY <1>1, <3>1 DEF IInv, Buffered, Placed
    <2>2. CASE pc # "truncate_lsize"
      <3>1. pc \in Writing \ {"f_crypt_lseek"}
        BY <1>1, <2>2 DEF Writing, Sizing
      <3> QED BY <3>1, PlaceFacts
    <2> QED BY <2>1, <2>2
  <1>3. NoAnswer /\ mem' = mem
    BY DEF PutLsize
  <1>4. base' = base /\ nonce' \in 0 .. MaxNonce /\ requests' = requests /\ crashes' = crashes
    BY <1>1, <1>3 DEF NoAnswer, Typed
  <1>5. PICK o \in Move(fp, disk, 0) :
          IF o.ok THEN /\ Take([o EXCEPT !.fp.buf.hdr.lsize = job.off + job.len,
                                         !.fp.dirty = TRUE, !.fp.modified = TRUE])
                       /\ GoOn(job, next)
                  ELSE Take(o) /\ Fail
    BY DEF PutLsize
  <1>6. /\ Glided(mem, o.disk, o.fp) /\ Moved(fp, disk, 0, o)
        /\ \A t \in Sectors : t < mem.chain => Flushed(o.fp, o.disk).sec[t] = W[t]
        /\ o.ok => o.fp.buf = W[0]
        /\ o.fp.size = fp.size
    BY <1>1, <1>2, PlainMove
  <1>7. CASE ~o.ok
    <2>1. fp' = o.fp /\ disk' = o.disk /\ faults' \in 0 .. MaxFaults /\ Fail
      BY <1>1, <1>5, <1>6, <1>7, TakeFaults DEF Moved
    <2> QED BY <1>1, <1>3, <1>4, <1>6, <2>1, FailAnyStep DEF W
  <1>8. CASE o.ok
    <2> DEFINE h == [o.fp.buf.hdr EXCEPT !.lsize = job.off + job.len]
               f2 == [o.fp EXCEPT !.buf = [o.fp.buf EXCEPT !.hdr = h], !.dirty = TRUE,
                                  !.modified = TRUE, !.size = fp.size]
               o2 == [o EXCEPT !.fp.buf.hdr.lsize = job.off + job.len,
                               !.fp.dirty = TRUE, !.fp.modified = TRUE]
    <2>1. /\ o = Outcome(o.ok, o.fault, o.fp, o.disk) /\ o.fp \in FileT /\ o.fp.size = fp.size
          /\ o.fault \in BOOLEAN /\ o.fp.sect = 0 /\ ~o.fp.err /\ o.fp.buf = W[0]
      BY <1>6, <1>8 DEF Moved
    <2>2. o.fp.buf \in Sector /\ o.fp.buf.hdr \in HeaderT
      <3>1. o.fp.buf \in Sector
        BY <2>1, FileFacts
      <3> QED BY <3>1 DEF Sector, HeaderT
    <2>3. h \in HeaderT /\ h = [nonce |-> W[0].hdr.nonce, lsize |-> job.off + job.len]
      <3>1. job.off + job.len \in Nat
        BY <1>1, JobFacts
      <3> QED BY <2>1, <2>2, <3>1 DEF HeaderT
    <2>4. o2.fp = f2 /\ o2.disk = o.disk /\ o2.fault = o.fault
      BY <2>1, <2>2 DEF Outcome, FileT, Sector
    <2> HIDE DEF o2, f2, h
    <2>5. Take(o2) /\ GoOn(job, next)
      BY <1>5, <1>8 DEF o2
    <2>6. fp' = f2 /\ disk' = o.disk /\ faults' \in 0 .. MaxFaults
      BY <1>1, <2>1, <2>4, <2>5, TakeFaults
    <2>7. Patched(f2, o.fp, h, fp.size)
      <3>1. fp.size \in 0 .. End(Blocks - 1)
        BY <1>1 DEF FileT
      <3> QED BY <2>1, <2>3, <3>1, PatchedFacts DEF f2
    <2>8. SizedOn(fp.size, mem, o.disk) /\ fp.size >= o.fp.size /\ fp.size \in Nat
      BY <1>1, <1>6, FileFacts DEF Glided
    <2>9. Glided(mem', disk', fp') /\ W'[0].hdr = h
      BY <1>3, <1>6, <2>1, <2>6, <2>7, <2>8, PatchedGlided DEF W
    <2>10. fp'.size = fp.size /\ fp'.modified /\ ~fp'.err
      BY <2>1, <2>6, <2>7 DEF Patched
    <2> QED BY <1>3, <2>3, <2>5, <2>6, <2>9, <2>10
  <1> QED BY <1>7, <1>8

\* The size of the header after the last block, and back to the block.
LEMMA update_fatcrypt_header_lsizeStep ==
  ASSUME IInv, update_fatcrypt_header_lsize PROVE IInv'
  <1>1. /\ pc = "update_fatcrypt_header_lsize" /\ pc \in Writing /\ pc \in Sizing
        /\ PutLsize(pc, "lsize_written")
    BY DEF update_fatcrypt_header_lsize, PutLsize, Writing, Sizing
  <1>2. CASE /\ GoOn(job, "lsize_written")
             /\ NoAnswer /\ mem' = mem /\ faults' \in 0 .. MaxFaults
             /\ Glided(mem', disk', fp')
             /\ W'[0].hdr = [nonce |-> W[0].hdr.nonce, lsize |-> job.off + job.len]
             /\ fp'.size = fp.size /\ fp'.modified /\ ~fp'.err
    <2>1. job' = job /\ pc' = "lsize_written"
      BY <1>2 DEF GoOn
    <2>2. base' = base /\ nonce' \in 0 .. MaxNonce /\ requests' = requests /\ crashes' = crashes
      BY <1>2 DEF NoAnswer, IInv, Typed
    <2>3. W[0].hdr = job.hdr /\ job.hdr.nonce # 0 /\ job.blk = LastBlock(job) + 1
      BY <1>1 DEF IInv, Headed, Flow
    <2>4. Flow'
      BY <1>1, <1>2, <2>1, <2>3, PlaceFacts, FlowOn DEF Writing, Heading, Loop, Sizing
    <2>5. Headed'
      BY <1>2, <2>1, <2>3 DEF Headed, Loop, Syncing
    <2>6. KeptOld'
      BY <2>1 DEF KeptOld
    <2>7. job' \in JobT /\ Req(job') = Req(job)
      BY <2>1 DEF IInv, Typed
    <2>8. Keeps => HdrKept(base, Req(job), W'[0].hdr)
      <3>1. Keeps => HdrKept(base, Req(job), W[0].hdr)
        BY DEF IInv, Kept, KeptHeader
      <3> QED BY <1>2, <3>1, ReqFacts DEF HdrKept
    <2> QED BY <1>1, <1>2, <2>1, <2>2, <2>4, <2>5, <2>6, <2>7, <2>8, GoOnAnyStep
            DEF Writing, Sizing
  <1> QED BY <1>1, <1>2, PutLsizeFacts

\* The size of the header of a truncated file.
LEMMA truncate_lsizeStep ==
  ASSUME IInv, truncate_lsize PROVE IInv'
  <1>1. pc = "truncate_lsize" /\ PutLsize(pc, "sync")
    BY DEF truncate_lsize, PutLsize
  <1>2. CASE /\ GoOn(job, "sync")
             /\ NoAnswer /\ mem' = mem /\ faults' \in 0 .. MaxFaults
             /\ Glided(mem', disk', fp')
             /\ W'[0].hdr = [nonce |-> W[0].hdr.nonce, lsize |-> job.off + job.len]
             /\ fp'.size = fp.size /\ fp'.modified /\ ~fp'.err
    <2>1. job' = job /\ pc' = "sync"
      BY <1>2 DEF GoOn
    <2>2. base' = base /\ nonce' \in 0 .. MaxNonce /\ requests' = requests /\ crashes' = crashes
      BY <1>2 DEF NoAnswer, IInv, Typed
    <2>3. /\ W[0].hdr.nonce # 0 /\ fp.size = 1 /\ job.off = 0 /\ job.op = "truncate"
          /\ job \in JobT
      BY <1>1, WriteOp DEF IInv, Headed, Flow, Typed, Truncating
    <2>4. Flow'
      BY <2>1, <2>3 DEF IInv, Flow, Syncing, Writing, Heading, Loop, Sizing
    <2>5. Headed'
      <3>1. job.off + job.len = job.len
        BY <2>3, JobFacts
      <3> QED BY <1>2, <2>1, <2>3, <3>1 DEF Headed, Loop, Syncing
    <2>6. ~Keeps
      BY <2>3 DEF Keeps
    <2>7. Req(job') = Req(job) /\ job' \in JobT
      BY <2>1, <2>3
    <2> QED BY <1>1, <1>2, <2>1, <2>2, <2>4, <2>5, <2>6, <2>7, GoOnAnyStep
  <1> QED BY <1>1, <1>2, PutLsizeFacts

\* As above, for the f_lseek after it.
LEMMA lsize_writtenStep ==
  ASSUME IInv, lsize_written PROVE IInv'
  <1>1. pc = "lsize_written" /\ pc \in Writing \ {"f_crypt_lseek"} /\ SeekBack(pc, job.blk)
        /\ job' = job /\ pc' = "sync"
    BY DEF lsize_written, SeekBack, GoOn, Writing, Sizing
  <1>2. /\ NoAnswer /\ mem' = mem /\ faults' \in 0 .. MaxFaults
        /\ Glided(mem', disk', fp')
        /\ \A t \in Sectors : t < mem.chain => W'[t] = W[t]
        /\ fp'.size = fp.size /\ fp'.modified = fp.modified
    BY <1>1, SeekBackFacts
  <1>3. job.op = "write"
    BY <1>1, PlaceFacts
  <1>4. Flow'
    BY <1>1, <1>3 DEF IInv, Flow, Syncing, Writing, Heading, Loop, Sizing
  <1>5. Headed'
    <2>1. W'[0] = W[0]
      BY <1>1, <1>2, PlaceFacts, Positions
    <2>2. /\ W[0].hdr = [nonce |-> job.hdr.nonce, lsize |-> job.off + job.len]
          /\ job.hdr.nonce # 0 /\ job.blk = LastBlock(job) + 1 /\ fp.modified
      BY <1>1 DEF IInv, Headed
    <2> QED BY <1>1, <1>2, <1>3, <2>1, <2>2 DEF Headed, Loop, Syncing
  <1>6. KeptOld'
    BY <1>1 DEF KeptOld
  <1>7. job' \in JobT
    BY <1>1 DEF IInv, Typed
  <1> QED BY <1>1, <1>2, <1>4, <1>5, <1>6, <1>7, GoOnStep DEF Writing, Sizing

-----------------------------------------------------------------------------
(* Truncation, up to the sync.                                             *)

\* A step of f_crypt_truncate keeps the invariant; nothing is asked of the
\* blocks.
LEMMA TruncateStep ==
  ASSUME IInv, pc \in {"truncate_header", "f_truncate"},
         base' = base, nonce' \in 0 .. MaxNonce, requests' = requests, crashes' = crashes,
         faults' \in 0 .. MaxFaults,
         job' \in JobT, Req(job') = Req(job),
         mem' \in MemT, disk' \in Device, fp' \in FileT,
         CachedOn(mem', disk'), Coherent(fp', disk'), Placed(fp', mem'.chain),
         SizedOn(fp'.size, mem', disk'),
         \/ /\ pc' = "f_truncate" /\ fp'.size >= mem'.size
            /\ fp'.sect = 0 /\ fp'.size >= 1 /\ W'[0].hdr.nonce # 0 /\ job'.ret = "OK"
         \/ /\ pc' = "truncate_lsize" /\ (fp'.size >= mem'.size \/ mem'.chain <= 1)
            /\ fp'.sect = 0 /\ fp'.size = 1 /\ W'[0].hdr.nonce # 0 /\ job'.ret = "OK"
         \/ /\ pc' = "sync" /\ (fp'.size >= mem'.size \/ mem'.chain <= 1)
            /\ job'.ret = "EIO"
  PROVE  IInv'
  <1>1. job'.op = "truncate" /\ job'.off = 0 /\ pc' # "idle"
    <2>1. job.op = "truncate"
      BY WriteOp DEF Truncating
    <2>2. job.off = 0
      BY <2>1 DEF IInv, Flow
    <2> QED BY <2>1, <2>2, ReqFacts
  <1>2. Typed'
    BY DEF IInv, Typed, Truncating, Syncing
  <1>3. Cached' /\ Buffered'
    BY <1>1 DEF Cached, Buffered
  <1>4. Sized'
    BY <1>1 DEF Sized, Cut, Syncing
  <1>5. Flow'
    BY <1>1 DEF Flow, Writing, Heading, Loop, Sizing, Truncating, Syncing
  <1>6. Headed'
    BY <1>1 DEF Headed, Loop, Syncing
  <1>7. Done' /\ Kept'
    BY <1>1 DEF Done, Kept, Keeps
  <1> QED BY <1>2, <1>3, <1>4, <1>5, <1>6, <1>7 DEF IInv

\* The request fails in it.
LEMMA TruncateFails ==
  ASSUME IInv, pc \in {"truncate_header", "f_truncate"}, Fail,
         base' = base, nonce' \in 0 .. MaxNonce, requests' = requests, crashes' = crashes,
         faults' \in 0 .. MaxFaults,
         mem' \in MemT, disk' \in Device, fp' \in FileT,
         CachedOn(mem', disk'), Coherent(fp', disk'), Placed(fp', mem'.chain),
         SizedOn(fp'.size, mem', disk'),
         fp'.size >= mem'.size \/ mem'.chain <= 1
  PROVE  IInv'
  <1>1. job \in JobT
    BY DEF IInv, Typed
  <1>2. job' \in JobT /\ Req(job') = Req(job) /\ job'.ret = "EIO" /\ pc' = "sync"
    BY <1>1 DEF Fail, GoOn, JobT, Req
  <1> QED BY <1>2, TruncateStep

\* The new header of a truncated file.
LEMMA truncate_headerStep ==
  ASSUME IInv, truncate_header PROVE IInv'
  <1>1. /\ pc = "truncate_header" /\ PutHeader("f_truncate") /\ Typed /\ Buffered /\ Cached
        /\ fp \in FileT /\ mem \in MemT /\ job \in JobT /\ disk \in Device
        /\ fp = Opened(mem.size) /\ 0 \in Sectors /\ job.ret = "OK"
    BY Positions DEF truncate_header, IInv, Typed, Flow, Syncing
  <1>2. /\ base' = base /\ requests' = requests /\ crashes' = crashes
        /\ SizedOn(fp.size, mem, disk) /\ fp.size >= mem.size
    BY <1>1, WriteOp DEF PutHeader
  <1>3. fp.size \in Nat /\ mem.size \in Nat /\ fp.size = mem.size
    BY <1>1, FileFacts, MemFacts DEF Opened, Closed
  <1>4. CASE Fail /\ UNCHANGED <<nonce, fp, disk, mem, faults>>
    <2>1. nonce' \in 0 .. MaxNonce /\ faults' \in 0 .. MaxFaults
      BY <1>1, <1>4 DEF Typed
    <2> QED BY <1>1, <1>2, <1>4, <2>1, TruncateFails DEF Cached, Buffered
  <1>5. ASSUME nonce < MaxNonce, nonce' = nonce + 1,
               NEW g \in Linked(mem, disk, 1),
               NEW o \in IF fp.size = 0
                           THEN {Outcome(TRUE, FALSE, [fp EXCEPT !.sect = 0], g.disk)}
                           ELSE Move(fp, g.disk, 0),
               mem' = g.mem,
               IF o.ok
                 THEN /\ Take([o EXCEPT !.fp.buf.hdr = NewHeader, !.fp.dirty = TRUE,
                                        !.fp.modified = TRUE,
                                        !.fp.size = MaxOf(o.fp.size, 1)])
                      /\ GoOn([job EXCEPT !.hdr = NewHeader], "f_truncate")
                 ELSE Take(o) /\ Fail
        PROVE  IInv'
    <2>1. nonce' \in 0 .. MaxNonce /\ nonce \in Nat
      BY <1>1, <1>5, SectorAssumption DEF Typed
    <2>2. Relinked(g.mem, g.disk) /\ g.mem.chain >= 1
      <3>1. ClustersFor(1) <= Blocks + 1 /\ ClustersFor(1) = 1
        BY ClusterCounts, SectorAssumption
      <3> QED BY <1>1, <1>5, <3>1, LinkedStep
    <2>3. SizedOn(fp.size, g.mem, g.disk)
      BY <1>2, <2>2, SizedRelinked
    <2>4. 0 < g.mem.chain /\ g.mem.chain \in Nat /\ g.mem.size = mem.size
      BY <2>2, MemFacts DEF Relinked
    <2>5. /\ o = Outcome(o.ok, o.fault, o.fp, o.disk) /\ o.ok \in BOOLEAN /\ o.fault \in BOOLEAN
          /\ o.fp \in FileT /\ o.disk \in Device
          /\ CachedOn(g.mem, o.disk) /\ SizedOn(fp.size, g.mem, o.disk) /\ o.fp.size = fp.size
          /\ o.ok => o.fp.sect = 0 /\ ~o.fp.err
          /\ ~o.ok => Coherent(o.fp, o.disk) /\ Placed(o.fp, g.mem.chain)
      <3>1. CASE fp.size = 0
        <4>1. o = Outcome(TRUE, FALSE, [fp EXCEPT !.sect = 0], g.disk)
          BY <1>5, <3>1
        <4>2. o.ok = TRUE /\ o.fault = FALSE /\ o.fp = [fp EXCEPT !.sect = 0] /\ o.disk = g.disk
          BY <4>1 DEF Outcome
        <4>3. o.fp \in FileT /\ o.fp.sect = 0 /\ o.fp.size = fp.size /\ o.fp.err = fp.err
          BY <1>1, <4>2 DEF FileT
        <4>4. fp.err = FALSE
          BY <1>1 DEF Opened, Closed
        <4> QED BY <2>2, <2>3, <4>1, <4>2, <4>3, <4>4 DEF Relinked
      <3>2. CASE fp.size # 0
        <4>1. o \in Move(fp, g.disk, 0)
          BY <1>5, <3>2
        <4>2. Glided(g.mem, o.disk, o.fp) /\ Moved(fp, g.disk, 0, o)
          BY <1>1, <1>3, <2>2, <2>3, <2>4, <4>1, MoveStep
        <4> QED BY <4>2 DEF Glided, Moved
      <3> QED BY <3>1, <3>2
    <2>6. CASE ~o.ok
      <3>1. fp' = o.fp /\ disk' = o.disk /\ faults' \in 0 .. MaxFaults /\ Fail
        BY <1>1, <1>5, <2>5, <2>6, TakeFaults
      <3>2. g.mem \in MemT
        BY <2>2 DEF Relinked
      <3>3. fp'.size >= mem'.size
        BY <1>3, <1>5, <2>4, <2>5, <3>1
      <3> QED BY <1>1, <1>2, <1>5, <2>1, <2>5, <2>6, <3>1, <3>2, <3>3, TruncateFails
    <2>7. CASE o.ok
      <3> DEFINE z == MaxOf(o.fp.size, 1)
                 f2 == [o.fp EXCEPT !.buf = [o.fp.buf EXCEPT !.hdr = NewHeader], !.dirty = TRUE,
                                    !.modified = TRUE, !.size = z]
                 o2 == [o EXCEPT !.fp.buf.hdr = NewHeader, !.fp.dirty = TRUE,
                                 !.fp.modified = TRUE, !.fp.size = MaxOf(o.fp.size, 1)]
      <3>1. /\ z \in 0 .. End(Blocks - 1) /\ z >= 1 /\ z >= fp.size /\ z \in {1, fp.size}
        <4>1. fp.size \in 0 .. End(Blocks - 1) /\ 1 \in 0 .. End(Blocks - 1)
          BY <1>1, SectorAssumption DEF FileT, End
        <4> QED BY <1>3, <2>5, <4>1 DEF MaxOf
      <3>2. o2.fp = f2 /\ o2.disk = o.disk /\ o2.fault = o.fault
        <4>1. o.fp.buf \in Sector
          BY <2>5, FileFacts
        <4> QED BY <2>5, <4>1 DEF Outcome, FileT
      <3>3. Take(o2) /\ GoOn([job EXCEPT !.hdr = NewHeader], "f_truncate")
        BY <1>5, <2>7
      <3> HIDE DEF o2
      <3>4. fp' = f2 /\ disk' = o.disk /\ faults' \in 0 .. MaxFaults
        BY <1>1, <2>5, <3>2, <3>3, TakeFaults
      <3>5. NewHeader \in HeaderT /\ NewHeader.nonce # 0
        BY <1>5, <2>1 DEF NewHeader, HeaderT
      <3> HIDE DEF z
      <3>6. Patched(f2, o.fp, NewHeader, z)
        BY <2>5, <3>1, <3>5, PatchedFacts
      <3> HIDE DEF f2
      <3>7. SizedOn(z, g.mem, o.disk)
        <4>1. ClustersFor(1) = 1
          BY ClusterCounts
        <4> QED BY <2>4, <2>5, <3>1, <4>1 DEF SizedOn
      <3>8. /\ fp' \in FileT /\ fp'.sect = 0 /\ fp'.dirty /\ fp'.size = z
            /\ fp'.buf.hdr = NewHeader
        BY <2>5, <2>7, <3>4, <3>6 DEF Patched
      <3>9. Coherent(fp', disk') /\ Placed(fp', mem'.chain)
        BY <1>1, <1>5, <2>4, <3>8 DEF Coherent, Placed
      <3>10. W'[0].hdr = NewHeader
        BY <1>1, <2>5, <3>4, <3>8, FlushedFacts DEF W
      <3>11. job' \in JobT /\ Req(job') = Req(job) /\ job'.ret = job.ret /\ pc' = "f_truncate"
        BY <1>1, <3>3, <3>5 DEF JobT, Req, GoOn
      <3>12. g.mem \in MemT /\ fp'.size >= mem'.size
        BY <1>3, <1>5, <2>2, <2>4, <3>1, <3>8 DEF Relinked
      <3> QED BY <1>1, <1>2, <1>5, <2>1, <2>5, <3>1, <3>4, <3>5, <3>7, <3>8, <3>9, <3>10, <3>11, <3>12,
                 TruncateStep
    <2> QED BY <2>5, <2>6, <2>7
  <1> QED BY <1>1, <1>4, <1>5 DEF PutHeader

\* The chain is cut in the window; the device may get a directory entry that
\* was waiting there.
LEMMA f_truncateStep ==
  ASSUME IInv, f_truncate PROVE IInv'
  <1>1. /\ pc = "f_truncate" /\ Typed /\ Buffered /\ Cached /\ Coherent(fp, disk)
        /\ fp \in FileT /\ mem \in MemT /\ job \in JobT /\ disk \in Device
        /\ fp.sect = 0 /\ fp.size >= 1 /\ 0 \in Sectors /\ job.ret = "OK" /\ W[0].hdr.nonce # 0
        /\ CachedOn(mem, disk)
    BY Positions DEF f_truncate, IInv, Typed, Flow, Syncing, Headed, Buffered, Cached
  <1>2. /\ NoAnswer /\ base' = base /\ nonce' \in 0 .. MaxNonce
        /\ requests' = requests /\ crashes' = crashes
    BY <1>1 DEF f_truncate, NoAnswer, Typed
  <1>3. SizedOn(fp.size, mem, disk) /\ fp.size >= mem.size /\ fp.size \in Nat
    BY <1>1, WriteOp, FileFacts
  <1>4. W[0] = fp.buf
    BY <1>1, FlushedFacts DEF W, Coherent
  <1>5. CASE fp.size <= 1
    <2>1. job' = job /\ pc' = "truncate_lsize" /\ UNCHANGED <<fp, disk, mem, faults>>
      BY <1>5 DEF f_truncate, GoOn
    <2>2. faults' \in 0 .. MaxFaults /\ W' = W /\ fp.size = 1
      BY <1>1, <1>3, <1>5, <2>1 DEF Typed, W
    <2> QED BY <1>1, <1>2, <1>3, <2>1, <2>2, TruncateStep DEF Buffered
  <1>6. CASE ~(fp.size <= 1)
    <2> DEFINE d == IF mem.win = "ent" THEN [disk EXCEPT !.size = mem.size] ELSE disk
               f == [fp EXCEPT !.size = 1, !.modified = TRUE]
               m == [mem EXCEPT !.chain = 1,
                                !.win = IF mem.chain > 1 THEN "fat"
                                        ELSE IF mem.win = "ent" THEN "clean" ELSE mem.win]
    <2>1. /\ mem' = m
          /\ \E o \in {Outcome(TRUE, FALSE, [f EXCEPT !.dirty = FALSE], Flushed(f, d))}
                      \cup FlushFails(f, d) :
               Take(o) /\ IF o.ok THEN GoOn(job, "truncate_lsize") ELSE Fail
      BY <1>6 DEF f_truncate
    <2>2. /\ d \in Device /\ d.sec = disk.sec /\ d.chain = disk.chain /\ d.size = mem.size
      BY <1>1 DEF Device, MemT, CachedOn
    <2>3. /\ m \in MemT /\ m.chain = 1 /\ m.size = mem.size /\ m.win # "ent"
          /\ m.win # "fat" => ~(mem.chain > 1) /\ mem.win # "fat"
      <3> DEFINE win == IF mem.chain > 1 THEN "fat"
                        ELSE IF mem.win = "ent" THEN "clean" ELSE mem.win
      <3>1. /\ win \in {"clean", "fat", "ent"} /\ win # "ent"
            /\ win # "fat" => ~(mem.chain > 1) /\ mem.win # "fat"
        BY <1>1, MemFacts
      <3>2. 1 \in 0 .. Blocks + 1
        BY SectorAssumption
      <3> HIDE DEF win
      <3>3. m = [mem EXCEPT !.chain = 1, !.win = win]
        BY DEF win
      <3> HIDE DEF m
      <3> QED BY <1>1, <3>1, <3>2, <3>3 DEF MemT
    <2>4. /\ f \in FileT /\ f.sect = fp.sect /\ f.buf = fp.buf /\ f.dirty = fp.dirty /\ f.size = 1
      <3>1. 1 \in 0 .. End(Blocks - 1)
        BY SectorAssumption DEF End
      <3> QED BY <1>1, <3>1 DEF FileT
    <2> HIDE DEF d, f, m
    <2>5. /\ mem.chain \in Nat /\ mem.chain >= 1 /\ mem.size \in Nat /\ disk.size \in Nat
          /\ disk.chain \in Nat
      BY <1>1, <1>3, MemFacts, DeviceFacts DEF SizedOn
    <2>6. ASSUME NEW x \in Device, x.size = d.size, x.chain = d.chain
          PROVE  CachedOn(m, x) /\ SizedOn(1, m, x)
      <3>1. m.win # "fat" => x.chain = 1
        BY <1>1, <2>2, <2>3, <2>5, <2>6 DEF CachedOn
      <3>2. mem.size >= 1 => disk.chain >= 1
        BY <1>1, <2>5 DEF CachedOn
      <3>3. ClustersFor(1) = 1
        BY ClusterCounts
      <3> QED BY <2>2, <2>3, <2>5, <2>6, <3>1, <3>2, <3>3 DEF CachedOn, SizedOn
    <2>7. Coherent(f, d) /\ f.sect = 0
      BY <1>1, <2>2, <2>4 DEF Coherent
    <2>8. /\ Flushed(f, d) \in Device /\ Flushed(f, d).size = d.size
          /\ Flushed(f, d).chain = d.chain /\ Flushed(f, d).sec[0] = fp.buf
      BY <1>1, <2>2, <2>4, <2>7, FlushedFacts DEF Coherent
    <2>9. PICK o \in {Outcome(TRUE, FALSE, [f EXCEPT !.dirty = FALSE], Flushed(f, d))}
                     \cup FlushFails(f, d) :
             Take(o) /\ IF o.ok THEN GoOn(job, "truncate_lsize") ELSE Fail
      BY <2>1
    <2>10. CASE o = Outcome(TRUE, FALSE, [f EXCEPT !.dirty = FALSE], Flushed(f, d))
      <3>1. /\ o.ok = TRUE /\ o.fault = FALSE /\ o.fp = [f EXCEPT !.dirty = FALSE]
            /\ o.disk = Flushed(f, d)
        BY <2>10 DEF Outcome
      <3>2. /\ o.fp \in FileT /\ o.fp.dirty = FALSE /\ o.fp.sect = 0 /\ o.fp.buf = fp.buf
            /\ o.fp.size = 1
        BY <1>1, <2>4, <3>1 DEF FileT
      <3>3. fp' = o.fp /\ disk' = o.disk /\ faults' \in 0 .. MaxFaults
        <4>1. Take(o) /\ o.fault \in BOOLEAN
          BY <2>9, <3>1
        <4> QED BY <1>1, <4>1, TakeFaults
      <3>4. job' = job /\ pc' = "truncate_lsize"
        BY <2>9, <3>1 DEF GoOn
      <3>5. Flushed(o.fp, o.disk) = o.disk
        BY <3>2 DEF Flushed
      <3>6. W'[0].hdr.nonce # 0
        BY <1>1, <1>4, <2>8, <3>1, <3>3, <3>5 DEF W
      <3>7. Coherent(fp', disk') /\ Placed(fp', mem'.chain)
        BY <2>1, <2>3, <2>8, <3>1, <3>2, <3>3 DEF Coherent, Placed
      <3>8. CachedOn(mem', disk') /\ SizedOn(fp'.size, mem', disk') /\ disk' \in Device
        BY <2>1, <2>6, <2>8, <3>1, <3>2, <3>3
      <3> QED BY <1>1, <1>2, <2>1, <2>3, <3>2, <3>3, <3>4, <3>6, <3>7, <3>8, TruncateStep
    <2>11. CASE o \in FlushFails(f, d)
      <3>1. Moved(f, d, 0, o) /\ ~o.ok /\ o.fp = Abort(f)
        BY <1>1, <2>2, <2>4, <2>7, <2>11, FlushFailsFacts
      <3>2. fp' = o.fp /\ disk' = o.disk /\ faults' \in 0 .. MaxFaults /\ Fail
        BY <1>1, <2>9, <3>1, TakeFaults DEF Moved
      <3>3. /\ fp' \in FileT /\ fp'.size = 1 /\ fp'.sect = 0 /\ Coherent(fp', disk')
            /\ disk' \in Device /\ disk'.size = d.size /\ disk'.chain = d.chain
        BY <2>2, <2>4, <2>7, <2>8, <3>1, <3>2 DEF Moved
      <3>4. CachedOn(mem', disk') /\ SizedOn(fp'.size, mem', disk') /\ Placed(fp', mem'.chain)
        BY <2>1, <2>3, <2>6, <3>3 DEF Placed
      <3> QED BY <1>1, <1>2, <2>1, <2>3, <3>2, <3>3, <3>4, TruncateFails
    <2> QED BY <2>9, <2>10, <2>11
  <1> QED BY <1>5, <1>6

-----------------------------------------------------------------------------
(* The sync, and what happens between requests.                            *)

\* What the window and the device may become outside the handlers' program.
Stored(m, d) ==
  /\ m \in MemT /\ d \in Device /\ CachedOn(m, d)
  /\ d.sec \in {disk.sec, W}
  /\ Keeps => d.size >= 1 /\ Room(base, d) /\ Room(base, m)

\* Between requests no file is open.
LEMMA IdleFacts ==
  ASSUME IInv
  PROVE  pc = "idle" => W = disk.sec
  BY DEF IInv, Buffered, Closed, W, Flushed

\* What the device holds, or gets when the buffer is written back, has its blocks
\* whole but for one.
LEMMA StoredParts ==
  ASSUME IInv, Keeps, NEW x \in {disk.sec, W}
  PROVE  OnDisk(base, Req(job), x) /\ HdrKept(base, Req(job), x[0].hdr)
  <1>1. KeptHeader /\ KeptParts /\ job.op = "write" /\ job \in JobT
    BY DEF IInv, Kept, Keeps, Typed
  <1>2. CASE x = disk.sec
    BY <1>1, <1>2 DEF KeptHeader, KeptParts
  <1>3. CASE x # disk.sec
    <2>1. x = W /\ pc # "idle"
      BY <1>3, IdleFacts
    <2>2. /\ job.blk \in Nat /\ First(job) \in Nat /\ LastBlock(job) \in Nat
          /\ First(job) <= job.blk /\ job.blk <= LastBlock(job) + 1
      BY <1>1, JobFacts DEF IInv, Flow
    <2>3. InFile(base, Req(job), W, job.blk, pc \in Syncing /\ job.ret = "EIO")
      BY <1>1, <2>1 DEF KeptParts
    <2>4. OnDisk(base, Req(job), W)
      BY <2>2, <2>3, InFileOnDisk, ReqFacts
    <2> QED BY <1>1, <2>1, <2>4 DEF KeptHeader
  <1> QED BY <1>2, <1>3

\* A step that ends between requests.
LEMMA IdleStep ==
  ASSUME IInv, pc' = "idle", fp' = Closed, job' \in JobT, Req(job') = Req(job),
         job'.blk = First(job) \/ job'.blk = job.blk,
         base' = base, Stored(mem', disk'),
         nonce' \in 0 .. MaxNonce, requests' \in 0 .. MaxRequests,
         faults' \in 0 .. MaxFaults, crashes' \in 0 .. MaxCrashes
  PROVE  IInv'
  <1>1. /\ Closed \in FileT /\ Closed.dirty = FALSE /\ Closed.sect \notin Sectors
    <2>1. NoSector \notin Sectors /\ 0 \in 0 .. End(Blocks - 1)
      BY SectorAssumption DEF NoSector, Sectors, End
    <2>2. JunkSector \in Sector
      BY SectorAssumption DEF JunkSector, Sector, NoHeader, NoHead, NoTail, Cell
    <2> QED BY <2>1, <2>2 DEF Closed, FileT
  <1>2. /\ job'.op = job.op /\ job'.off = job.off /\ job'.len = job.len /\ job'.val = job.val
        /\ First(job') = First(job) /\ LastBlock(job') = LastBlock(job)
    BY ReqFacts
  <1>3. Typed'
    BY <1>1 DEF Typed, IInv, Stored
  <1>4. Cached' /\ Buffered' /\ Sized'
    BY <1>1 DEF Cached, Buffered, Sized, Stored, Coherent, Placed
  <1>5. Flow'
    <2>1. ASSUME job.op = "write"
          PROVE  /\ job.len >= 1 /\ job.off + job.len <= 2 * Blocks
                 /\ First(job') <= job'.blk /\ job'.blk <= LastBlock(job') + 1
      <3>1. /\ job.len >= 1 /\ job.off + job.len <= 2 * Blocks
            /\ First(job) <= job.blk /\ job.blk <= LastBlock(job) + 1 /\ job \in JobT
        BY <2>1 DEF IInv, Flow, Typed
      <3> QED BY <1>2, <3>1, JobFacts
    <2>2. job.op = "truncate" => job.off = 0
      BY DEF IInv, Flow
    <2> QED BY <1>2, <2>1, <2>2 DEF Flow, Writing, Heading, Loop, Sizing, Truncating, Syncing
  <1>6. Headed' /\ Done'
    BY DEF Headed, Done, Loop, Syncing
  <1>7. Kept'
    <2> SUFFICES ASSUME Keeps' PROVE KeptHeader' /\ KeptRoom' /\ KeptParts' /\ KeptOld'
      BY DEF Kept
    <2>1. Keeps
      BY <1>2 DEF Keeps
    <2>2. W' = disk'.sec
      BY <1>1 DEF W, Flushed
    <2>3. OnDisk(base, Req(job), disk'.sec) /\ HdrKept(base, Req(job), disk'.sec[0].hdr)
      BY <2>1, StoredParts DEF Stored
    <2>4. KeptHeader'
      BY <2>1, <2>2, <2>3 DEF KeptHeader, Stored
    <2>5. KeptRoom' /\ KeptParts' /\ KeptOld'
      BY <2>1, <2>3 DEF KeptRoom, KeptParts, KeptOld, Stored
    <2> QED BY <2>4, <2>5
  <1> QED BY <1>3, <1>4, <1>5, <1>6, <1>7 DEF IInv

\* What a request asks for, after its answer.
LEMMA SameJob ==
  ASSUME IInv
  PROVE  /\ Job(job.op, job.off, job.len, job.val) \in JobT
         /\ Req(Job(job.op, job.off, job.len, job.val)) = Req(job)
         /\ Job(job.op, job.off, job.len, job.val).blk = First(job)
  <1>1. /\ job.op \in {"none", "write", "truncate"} /\ job.off \in Nat /\ job.len \in Nat
        /\ job.val \in Cell /\ BlockOf(job.off) \in Nat
    BY Halves DEF IInv, Typed, JobT
  <1>2. NoHeader \in HeaderT /\ <<Zero, Zero>> \in Cell \X Cell
    BY SectorAssumption DEF NoHeader, HeaderT, Cell
  <1> QED BY <1>1, <1>2 DEF Job, JobT, Req, First

\* The answer closes the file.
LEMMA FinishStep ==
  ASSUME IInv, NEW ret, Finish(ret), Stored(mem', disk'), faults' \in 0 .. MaxFaults
  PROVE  IInv'
  <1>1. /\ pc' = "idle" /\ fp' = Closed /\ base' = base
        /\ job' = Job(job.op, job.off, job.len, job.val)
        /\ nonce' \in 0 .. MaxNonce /\ requests' \in 0 .. MaxRequests
        /\ crashes' \in 0 .. MaxCrashes
    BY DEF Finish, IInv, Typed
  <1> QED BY <1>1, SameJob, IdleStep

\* A sync goes on, or starts over: the file in effect is the same.
LEMMA SyncOnStep ==
  ASSUME IInv, pc \in Syncing, pc' \in Syncing, Stored(mem', disk'), mem'.chain = mem.chain,
         pc' = "sync_entry" => mem'.win # "fat",
         SizedOn(fp.size, mem', disk'),
         fp.size >= mem'.size \/ (job.op = "truncate" /\ mem.chain <= 1),
         fp' \in FileT, fp'.size = fp.size, fp'.sect = fp.sect, Coherent(fp', disk'), W' = W,
         pc' \in {"sync_fat", "sync_entry"} => ~fp'.dirty,
         job' \in JobT, Req(job') = Req(job), job'.blk = job.blk, job'.hdr = job.hdr,
         (job'.ret = job.ret /\ fp'.modified = fp.modified) \/ job'.ret = "EIO",
         NoAnswer, faults' \in 0 .. MaxFaults
  PROVE  IInv'
  <1>1. /\ job'.op = job.op /\ job'.off = job.off /\ job'.len = job.len /\ job'.val = job.val
        /\ First(job') = First(job) /\ LastBlock(job') = LastBlock(job)
    BY ReqFacts
  <1>2. /\ pc' # "idle" /\ pc # "idle"
        /\ pc' \notin Writing \cup Truncating /\ pc \notin Writing \cup Truncating
    BY DEF Writing, Heading, Loop, Sizing, Truncating, Syncing
  <1>3. base' = base
    BY DEF NoAnswer
  <1>4. Typed'
    BY DEF Typed, IInv, NoAnswer, Stored
  <1>5. Cached'
    BY DEF Cached, Stored
  <1>6. Buffered'
    <2>1. Placed(fp, mem.chain)
      BY DEF IInv, Buffered
    <2> QED BY <1>2, <2>1 DEF Buffered, Placed
  <1>7. Sized'
    <2>1. fp.size >= mem'.size \/ Cut'
      BY <1>1 DEF Cut
    <2> QED BY <2>1 DEF Sized
  <1>8. Flow'
    BY <1>1, <1>2 DEF IInv, Flow, Writing, Heading, Loop, Sizing, Truncating, Syncing
  <1>9. Headed'
    <2>1. CASE job'.ret = "EIO"
      BY <1>2, <2>1 DEF Headed, Writing, Heading, Loop, Sizing, Truncating
    <2>2. CASE job'.ret # "EIO"
      <3>1. job'.ret = job.ret /\ fp'.modified = fp.modified
        BY <2>2
      <3>2. /\ pc' \notin Loop \cup {"header_written", "update_fatcrypt_header_lsize", "parsed",
                                     "lsize_written", "f_truncate", "truncate_lsize"}
        BY <1>2 DEF Writing, Heading, Sizing, Truncating
      <3>3. /\ job.op = "write" /\ job.ret = "OK"
               => /\ W[0].hdr = [nonce |-> job.hdr.nonce, lsize |-> job.off + job.len]
                  /\ job.hdr.nonce # 0 /\ job.blk = LastBlock(job) + 1 /\ fp.modified
            /\ job.op = "truncate" /\ job.ret = "OK" =>
                  /\ W[0].hdr.nonce # 0 /\ W[0].hdr.lsize = job.len
                  /\ fp.size = 1 /\ fp.modified
        BY DEF IInv, Headed
      <3> QED BY <1>1, <3>1, <3>2, <3>3 DEF Headed
    <2> QED BY <2>1, <2>2
  <1>10. Done'
    BY <1>1, <1>2 DEF IInv, Done
  <1>11. Kept'
    <2> SUFFICES ASSUME Keeps' PROVE KeptHeader' /\ KeptRoom' /\ KeptParts' /\ KeptOld'
      BY DEF Kept
    <2>1. Keeps
      BY <1>1, <1>3 DEF Keeps
    <2>2. OnDisk(base, Req(job), disk'.sec) /\ HdrKept(base, Req(job), disk'.sec[0].hdr)
      BY <2>1, StoredParts DEF Stored
    <2>3. KeptHeader /\ KeptRoom /\ KeptParts
      BY <2>1 DEF IInv, Kept
    <2>4. KeptHeader'
      BY <1>2, <1>3, <2>1, <2>2, <2>3 DEF KeptHeader, Stored, Writing, Heading
    <2>5. KeptRoom'
      BY <1>2, <1>3, <2>1, <2>3 DEF KeptRoom, Stored
    <2>6. InFile(base, Req(job), W, job.blk, job'.ret = "EIO")
      <3>1. InFile(base, Req(job), W, job.blk, job.ret = "EIO")
        BY <1>2, <2>3 DEF KeptParts
      <3>2. CASE job'.ret = job.ret
        BY <3>1, <3>2
      <3>3. CASE job'.ret = "EIO"
        BY <3>1, <3>3 DEF InFile
      <3> QED BY <3>2, <3>3
    <2>7. KeptParts'
      BY <1>2, <1>3, <2>2, <2>6 DEF KeptParts
    <2>8. KeptOld'
      BY <1>2 DEF KeptOld, Writing, Loop
    <2> QED BY <2>4, <2>5, <2>7, <2>8
  <1> QED BY <1>4, <1>5, <1>6, <1>7, <1>8, <1>9, <1>10, <1>11 DEF IInv

\* A failing sync answers with the error, or starts over when fff_write closes
\* the file.
LEMMA SyncFailsStep ==
  ASSUME IInv, pc \in Syncing, NEW f \in FileT, SyncFails(f), Stored(mem', disk'),
         mem'.chain = mem.chain, SizedOn(fp.size, mem', disk'),
         fp.size >= mem'.size \/ (job.op = "truncate" /\ mem.chain <= 1),
         f.size = fp.size, f.sect = fp.sect, Coherent(f, disk'), Flushed(f, disk').sec = W
  PROVE  IInv'
  <1>1. faults' \in 0 .. MaxFaults
    BY SectorAssumption DEF SyncFails, IInv, Typed
  <1>2. CASE job.op = "write" /\ job.ret = "OK"
    <2>1. /\ fp' = f /\ NoAnswer /\ job' = [job EXCEPT !.ret = "EIO"] /\ pc' = "sync"
      BY <1>2 DEF SyncFails, Fail, GoOn
    <2>2. /\ job' \in JobT /\ Req(job') = Req(job) /\ job'.blk = job.blk /\ job'.hdr = job.hdr
          /\ job'.ret = "EIO"
      BY <2>1 DEF IInv, Typed, JobT, Req
    <2>3. W' = W
      BY <2>1 DEF W
    <2> QED BY <1>1, <2>1, <2>2, <2>3, SyncOnStep DEF Syncing
  <1>3. CASE ~(job.op = "write" /\ job.ret = "OK")
    <2>1. Finish("EIO")
      BY <1>3 DEF SyncFails
    <2> QED BY <1>1, <2>1, FinishStep
  <1> QED BY <1>2, <1>3

\* What a sync starts from.
LEMMA SyncState ==
  ASSUME IInv, pc \in Syncing
  PROVE  /\ fp \in FileT /\ mem \in MemT /\ disk \in Device /\ job \in JobT
         /\ faults \in 0 .. MaxFaults
         /\ Coherent(fp, disk) /\ CachedOn(mem, disk) /\ SizedOn(fp.size, mem, disk)
         /\ fp.size >= mem.size \/ (job.op = "truncate" /\ mem.chain <= 1)
         /\ Keeps => KeptRoom /\ disk.size >= 1
         /\ Keeps => \A k \in Openable(base) : End(k) <= fp.size
         /\ pc # "idle"
  <1>1. pc # "idle"
    BY DEF Syncing
  <1>2. /\ fp \in FileT /\ mem \in MemT /\ disk \in Device /\ job \in JobT
        /\ faults \in 0 .. MaxFaults
    BY DEF IInv, Typed
  <1>3. Coherent(fp, disk) /\ CachedOn(mem, disk)
    BY DEF IInv, Buffered, Cached
  <1>4. /\ SizedOn(fp.size, mem, disk)
        /\ fp.size >= mem.size \/ (job.op = "truncate" /\ mem.chain <= 1)
    <2>1. Sized
      BY DEF IInv
    <2> QED BY <1>1, <2>1 DEF Sized, Cut
  <1>5. Keeps => /\ KeptRoom /\ disk.size >= 1
                 /\ \A k \in Openable(base) : End(k) <= fp.size
    BY <1>1 DEF IInv, Kept, KeptHeader, KeptRoom
  <1> QED BY <1>1, <1>2, <1>3, <1>4, <1>5

\* The three parts of f_sync: the sector buffer, the FAT sector of the window, the
\* directory entry.
LEMMA SyncBufferStep ==
  ASSUME IInv, SyncBuffer PROVE IInv'
  <1>1. pc = "sync" /\ pc \in Syncing /\ mem' = mem
    BY DEF SyncBuffer, Syncing
  <1>2. /\ fp \in FileT /\ mem \in MemT /\ disk \in Device /\ job \in JobT
        /\ faults \in 0 .. MaxFaults
        /\ Coherent(fp, disk) /\ CachedOn(mem, disk) /\ SizedOn(fp.size, mem, disk)
        /\ fp.size >= mem.size \/ (job.op = "truncate" /\ mem.chain <= 1)
        /\ Keeps => KeptRoom /\ disk.size >= 1
    BY <1>1, SyncState
  <1>3. /\ Flushed(fp, disk) \in Device /\ Flushed(fp, disk).size = disk.size
        /\ Flushed(fp, disk).chain = disk.chain
        /\ fp.dirty => Flushed(fp, disk).sec[fp.sect] = fp.buf
        /\ ~fp.dirty => Flushed(fp, disk) = disk
    BY <1>2, FlushedFacts DEF Coherent
  <1>4. ASSUME disk' \in {disk, Flushed(fp, disk)}
        PROVE  Stored(mem', disk') /\ SizedOn(fp.size, mem', disk')
    BY <1>1, <1>2, <1>3, <1>4 DEF Stored, CachedOn, SizedOn, KeptRoom, Room, W
  <1>5. CASE ~fp.modified /\ Finish(job.ret) /\ UNCHANGED <<disk, faults>>
    BY <1>2, <1>4, <1>5, FinishStep
  <1>6. CASE /\ fp.modified
             /\ disk' = Flushed(fp, disk)
             /\ Synced([fp EXCEPT !.dirty = FALSE], "sync_fat")
    <2>1. /\ fp' = [fp EXCEPT !.dirty = FALSE] /\ job' = job /\ pc' = "sync_fat"
          /\ NoAnswer /\ faults' = faults
      BY <1>6 DEF Synced, GoOn
    <2>2. /\ fp' \in FileT /\ fp'.size = fp.size /\ fp'.sect = fp.sect /\ fp'.buf = fp.buf
          /\ fp'.dirty = FALSE /\ fp'.modified = fp.modified
      BY <1>2, <2>1 DEF FileT
    <2>3. Coherent(fp', disk')
      <3>1. fp.dirty => Flushed(fp, disk).sec[fp.sect] = fp.buf
        BY <1>3
      <3>2. ~fp.dirty => Flushed(fp, disk) = disk
        BY <1>3
      <3> QED BY <1>2, <1>6, <2>2, <3>1, <3>2 DEF Coherent
    <2>4. W' = W
      BY <1>6, <2>2 DEF W, Flushed
    <2> QED BY <1>1, <1>2, <1>4, <1>6, <2>1, <2>2, <2>3, <2>4, SyncOnStep DEF Syncing
  <1>7. CASE /\ fp.modified /\ fp.dirty
             /\ disk' \in {disk, Flushed(fp, disk)}
             /\ SyncFails(fp)
    <2>1. Flushed(fp, disk').sec = W /\ Coherent(fp, disk')
      <3>1. fp.sect \in Sectors
        BY <1>2, <1>7 DEF Coherent
      <3>2. Flushed(fp, Flushed(fp, disk)) = Flushed(fp, disk)
        <4>1. Flushed(fp, Flushed(fp, disk)) = [Flushed(fp, disk) EXCEPT !.sec[fp.sect] = fp.buf]
          BY <1>7 DEF Flushed
        <4>2. [Flushed(fp, disk) EXCEPT !.sec[fp.sect] = fp.buf] = Flushed(fp, disk)
          BY <1>3, <1>7, <3>1 DEF Device
        <4> QED BY <4>1, <4>2
      <3>3. Flushed(fp, disk').sec = W
        BY <1>7, <3>2 DEF W
      <3> QED BY <1>7, <3>1, <3>3 DEF Coherent
    <2> QED BY <1>1, <1>2, <1>4, <1>7, <2>1, SyncFailsStep
  <1> QED BY <1>5, <1>6, <1>7 DEF SyncBuffer

\* The FAT sector of the window goes to the device.
LEMMA ChainWritten ==
  ASSUME NEW m \in MemT, NEW d \in Device, CachedOn(m, d),
         NEW x, x = IF m.win = "fat" THEN [d EXCEPT !.chain = m.chain] ELSE d
  PROVE  /\ x \in Device /\ x.size = d.size /\ x.sec = d.sec /\ x.chain = m.chain
         /\ CachedOn(m, x)
         /\ LET n == [m EXCEPT !.win = IF @ = "fat" THEN "clean" ELSE @] IN
            /\ n \in MemT /\ n.chain = m.chain /\ n.size = m.size /\ n.win # "fat"
            /\ CachedOn(n, x)
  <1>1. /\ m.chain \in 0 .. Blocks + 1 /\ m.win \in {"clean", "fat", "ent"}
        /\ m.size \in 0 .. 2 * Blocks + 1 /\ d.size \in 0 .. 2 * Blocks + 1
        /\ d.chain \in 0 .. Blocks + 1
    BY MemFacts, DeviceFacts
  <1>2. /\ x \in Device /\ x.size = d.size /\ x.sec = d.sec
        /\ m.win = "fat" => x.chain = m.chain
        /\ m.win # "fat" => x.chain = d.chain
    BY <1>1 DEF Device
  <1>3. x.chain = m.chain
    BY <1>2 DEF CachedOn
  <1>4. CachedOn(m, x)
    BY <1>1, <1>2, <1>3 DEF CachedOn
  <1> DEFINE n == [m EXCEPT !.win = IF @ = "fat" THEN "clean" ELSE @]
  <1>5. /\ n \in MemT /\ n.chain = m.chain /\ n.size = m.size /\ n.win # "fat"
        /\ n.win = "ent" <=> m.win = "ent"
    BY <1>1 DEF MemT
  <1> HIDE DEF n
  <1>6. CachedOn(n, x)
    BY <1>1, <1>3, <1>4, <1>5 DEF CachedOn
  <1> QED BY <1>2, <1>3, <1>4, <1>5, <1>6 DEF n

\* As above, for the FAT sector.
LEMMA SyncFatStep ==
  ASSUME IInv, SyncFat PROVE IInv'
  <1> DEFINE d == IF mem.win = "fat" THEN [disk EXCEPT !.chain = mem.chain] ELSE disk
             m == [mem EXCEPT !.win = IF @ = "fat" THEN "clean" ELSE @]
  <1>1. pc = "sync_fat" /\ pc \in Syncing
    BY DEF SyncFat, Syncing
  <1>2. /\ fp \in FileT /\ mem \in MemT /\ disk \in Device /\ job \in JobT
        /\ faults \in 0 .. MaxFaults
        /\ Coherent(fp, disk) /\ CachedOn(mem, disk) /\ SizedOn(fp.size, mem, disk)
        /\ fp.size >= mem.size \/ (job.op = "truncate" /\ mem.chain <= 1)
        /\ Keeps => KeptRoom /\ disk.size >= 1
    BY <1>1, SyncState
  <1>3. ~fp.dirty
    BY <1>1 DEF IInv, Buffered
  <1>4. W = disk.sec
    BY <1>3 DEF W, Flushed
  <1>5. \/ disk' = d /\ mem' = m /\ Synced(fp, "sync_entry")
        \/ mem.win = "fat" /\ disk' \in {disk, d} /\ mem' = mem /\ SyncFails(fp)
    BY DEF SyncFat
  <1>6. /\ d \in Device /\ d.size = disk.size /\ d.sec = disk.sec /\ d.chain = mem.chain
        /\ CachedOn(mem, d)
        /\ m \in MemT /\ m.chain = mem.chain /\ m.size = mem.size /\ m.win # "fat"
        /\ CachedOn(m, d)
    BY <1>2, ChainWritten
  <1> HIDE DEF d, m
  <1>7. Keeps => d.size >= 1 /\ Room(base, d) /\ Room(base, m) /\ Room(base, mem) /\ Room(base, disk)
    BY <1>2, <1>6 DEF KeptRoom, Room
  <1>8. Stored(m, d) /\ Stored(mem, d) /\ Stored(mem, disk)
    BY <1>2, <1>6, <1>7 DEF Stored
  <1>9. SizedOn(fp.size, m, d) /\ SizedOn(fp.size, mem, d)
    BY <1>2, <1>6 DEF SizedOn
  <1>10. Coherent(fp, d) /\ Flushed(fp, d).sec = W /\ Flushed(fp, disk).sec = W
    BY <1>2, <1>3, <1>4, <1>6 DEF Coherent, Flushed
  <1>11. CASE disk' = d /\ mem' = m /\ Synced(fp, "sync_entry")
    <2>1. /\ fp' = fp /\ job' = job /\ pc' = "sync_entry" /\ NoAnswer /\ faults' = faults
      BY <1>11 DEF Synced, GoOn
    <2>2. W' = W
      BY <1>10, <1>11, <2>1 DEF W
    <2> QED BY <1>1, <1>2, <1>3, <1>6, <1>8, <1>9, <1>10, <1>11, <2>1, <2>2, SyncOnStep DEF Syncing
  <1>12. CASE mem.win = "fat" /\ disk' \in {disk, d} /\ mem' = mem /\ SyncFails(fp)
    BY <1>1, <1>2, <1>8, <1>9, <1>10, <1>12, SyncFailsStep
  <1> QED BY <1>5, <1>11, <1>12

\* As above, for the directory entry.
LEMMA SyncEntryStep ==
  ASSUME IInv, SyncEntry PROVE IInv'
  <1> DEFINE d == [disk EXCEPT !.size = fp.size]
             ok == [mem EXCEPT !.size = fp.size, !.win = "clean"]
             ent == [mem EXCEPT !.size = fp.size, !.win = "ent"]
             f == [fp EXCEPT !.modified = FALSE]
  <1>1. pc = "sync_entry" /\ pc \in Syncing
    BY DEF SyncEntry, Syncing
  <1>2. /\ fp \in FileT /\ mem \in MemT /\ disk \in Device /\ job \in JobT
        /\ faults \in 0 .. MaxFaults
        /\ Coherent(fp, disk) /\ CachedOn(mem, disk) /\ SizedOn(fp.size, mem, disk)
        /\ fp.size >= mem.size \/ (job.op = "truncate" /\ mem.chain <= 1)
        /\ Keeps => KeptRoom /\ disk.size >= 1
        /\ Keeps => \A k \in Openable(base) : End(k) <= fp.size
    BY <1>1, SyncState
  <1>3. ~fp.dirty /\ mem.win # "fat"
    BY <1>1 DEF IInv, Buffered, Cached
  <1>4. W = disk.sec /\ disk.chain = mem.chain
    BY <1>2, <1>3 DEF W, Flushed, CachedOn
  <1>5. \/ disk' = d /\ mem' = ok /\ Finish(job.ret) /\ faults' = faults
        \/ disk' \in {disk, d} /\ mem' = ent /\ SyncFails(f)
    BY DEF SyncEntry
  <1>6. /\ mem.chain \in Nat /\ mem.size \in Nat /\ disk.size \in Nat /\ fp.size \in Nat
        /\ fp.size \in 0 .. End(Blocks - 1)
    BY <1>2, MemFacts, DeviceFacts, FileFacts DEF FileT
  <1>7. d \in Device /\ d.size = fp.size /\ d.sec = disk.sec /\ d.chain = disk.chain
    BY <1>2, <1>6 DEF Device
  <1>8. /\ ok \in MemT /\ ok.size = fp.size /\ ok.chain = mem.chain /\ ok.win = "clean"
        /\ ent \in MemT /\ ent.size = fp.size /\ ent.chain = mem.chain /\ ent.win = "ent"
    BY <1>2, <1>6 DEF MemT
  <1>9. /\ f \in FileT /\ f.size = fp.size /\ f.sect = fp.sect /\ f.buf = fp.buf /\ f.dirty = fp.dirty
    BY <1>2 DEF FileT
  <1> HIDE DEF d, ok, ent, f
  <1>10. disk.size >= 1 => fp.size >= 1
    BY <1>2, <1>6 DEF CachedOn, SizedOn
  <1>11. Keeps => d.size >= 1 /\ Room(base, d) /\ Room(base, disk) /\ Room(base, ok) /\ Room(base, ent)
    BY <1>2, <1>4, <1>7, <1>8, <1>10 DEF KeptRoom, Room
  <1>12. CachedOn(ok, d) /\ CachedOn(ent, d)
    BY <1>2, <1>4, <1>6, <1>7, <1>8 DEF CachedOn, SizedOn
  <1>13. CachedOn(ent, disk)
    <2>1. fp.size < disk.size => disk.chain <= 1
      BY <1>2, <1>4, <1>6 DEF CachedOn
    <2> QED BY <1>2, <1>4, <1>6, <1>8, <1>10, <2>1 DEF CachedOn, SizedOn
  <1>14. Stored(ok, d) /\ Stored(ent, d) /\ Stored(ent, disk)
    BY <1>2, <1>7, <1>8, <1>11, <1>12, <1>13 DEF Stored
  <1>15. SizedOn(fp.size, ent, d) /\ SizedOn(fp.size, ent, disk)
    BY <1>2, <1>6, <1>7, <1>8 DEF SizedOn
  <1>16. /\ Coherent(f, disk) /\ Coherent(f, d)
         /\ Flushed(f, disk).sec = W /\ Flushed(f, d).sec = W
    BY <1>2, <1>3, <1>4, <1>7, <1>9 DEF Coherent, Flushed
  <1>17. CASE disk' = d /\ mem' = ok /\ Finish(job.ret) /\ faults' = faults
    BY <1>2, <1>14, <1>17, FinishStep
  <1>18. CASE disk' \in {disk, d} /\ mem' = ent /\ SyncFails(f)
    <2>1. /\ mem'.chain = mem.chain
          /\ fp.size >= mem'.size \/ (job.op = "truncate" /\ mem.chain <= 1)
      BY <1>6, <1>8, <1>18
    <2>2. /\ Stored(mem', disk') /\ SizedOn(fp.size, mem', disk')
          /\ Coherent(f, disk') /\ Flushed(f, disk').sec = W
      BY <1>14, <1>15, <1>16, <1>18
    <2> QED BY <1>1, <1>9, <1>18, <2>1, <2>2, SyncFailsStep
  <1> QED BY <1>5, <1>17, <1>18

\* A request on another file writes back what the window holds.
LEMMA OtherRequestStep ==
  ASSUME IInv, OtherRequest PROVE IInv'
  <1>1. /\ pc = "idle" /\ pc' = "idle" /\ mem.win # "clean" /\ mem' = [mem EXCEPT !.win = "clean"]
        /\ UNCHANGED <<fp, job, nonce, requests, faults, crashes, base>>
        /\ disk' = IF mem.win = "fat" THEN [disk EXCEPT !.chain = mem.chain]
                                      ELSE [disk EXCEPT !.size = mem.size]
    BY DEF OtherRequest
  <1>2. /\ mem \in MemT /\ disk \in Device /\ job \in JobT /\ CachedOn(mem, disk) /\ fp = Closed
        /\ nonce \in 0 .. MaxNonce /\ requests \in 0 .. MaxRequests
        /\ faults \in 0 .. MaxFaults /\ crashes \in 0 .. MaxCrashes
        /\ Keeps => KeptRoom /\ disk.size >= 1
    BY <1>1 DEF IInv, Typed, Cached, Buffered, Kept, KeptHeader
  <1>3. /\ mem.chain \in Nat /\ mem.size \in Nat /\ disk.size \in Nat /\ disk.chain \in Nat
        /\ mem.win \in {"fat", "ent"}
    BY <1>1, <1>2, MemFacts, DeviceFacts
  <1>4. /\ mem' \in MemT /\ mem'.size = mem.size /\ mem'.chain = mem.chain /\ mem'.win = "clean"
    BY <1>1, <1>2 DEF MemT
  <1>5. /\ disk' \in Device /\ disk'.sec = disk.sec
        /\ mem.win = "fat" => disk'.size = disk.size /\ disk'.chain = mem.chain
        /\ mem.win = "ent" => disk'.size = mem.size /\ disk'.chain = disk.chain
    BY <1>1, <1>2 DEF Device, MemT
  <1>6. disk'.size = mem.size /\ disk'.chain = mem.chain
    BY <1>2, <1>3, <1>5 DEF CachedOn
  <1>7. CachedOn(mem', disk')
    BY <1>2, <1>3, <1>4, <1>6 DEF CachedOn
  <1>8. Keeps => disk'.size >= 1 /\ Room(base, disk') /\ Room(base, mem')
    BY <1>2, <1>3, <1>4, <1>6 DEF KeptRoom, Room, CachedOn
  <1>9. Stored(mem', disk')
    BY <1>4, <1>5, <1>7, <1>8 DEF Stored
  <1> QED BY <1>1, <1>2, <1>9, IdleStep

\* Power loss: the volume is mounted again from what the device holds.
LEMMA PowerLossStep ==
  ASSUME IInv, PowerLoss PROVE IInv'
  <1>1. /\ pc' = "idle" /\ fp' = Closed /\ job' = Job(job.op, job.off, job.len, job.val)
        /\ crashes < MaxCrashes /\ crashes' = crashes + 1
        /\ UNCHANGED <<nonce, requests, faults, base>>
        /\ mem' = [size |-> disk.size, chain |-> IF disk.size = 0 THEN 0 ELSE disk.chain,
                   win |-> "clean"]
        /\ disk' = [disk EXCEPT !.chain = IF disk.size = 0 THEN 0 ELSE disk.chain]
    BY DEF PowerLoss
  <1>2. /\ mem \in MemT /\ disk \in Device /\ job \in JobT /\ CachedOn(mem, disk)
        /\ nonce \in 0 .. MaxNonce /\ requests \in 0 .. MaxRequests
        /\ faults \in 0 .. MaxFaults /\ crashes \in 0 .. MaxCrashes
        /\ Keeps => KeptRoom /\ disk.size >= 1
    BY DEF IInv, Typed, Cached, Kept, KeptHeader
  <1>3. disk.size \in Nat /\ disk.chain \in 0 .. Blocks + 1 /\ disk.size \in 0 .. End(Blocks - 1)
    BY <1>2, DeviceFacts DEF Device
  <1>4. /\ mem' \in MemT /\ mem'.size = disk.size /\ mem'.win = "clean"
        /\ disk' \in Device /\ disk'.sec = disk.sec /\ disk'.size = disk.size
        /\ disk'.chain = mem'.chain
        /\ disk.size # 0 => disk'.chain = disk.chain
    <2>1. 0 \in 0 .. Blocks + 1
      BY SectorAssumption
    <2> QED BY <1>1, <1>2, <1>3, <2>1 DEF MemT, Device
  <1>5. mem'.chain \in Nat
    BY <1>4, MemFacts
  <1>6. CachedOn(mem', disk')
    BY <1>2, <1>3, <1>4, <1>5 DEF CachedOn
  <1>7. Keeps => disk'.size >= 1 /\ Room(base, disk') /\ Room(base, mem')
    BY <1>2, <1>3, <1>4 DEF KeptRoom, Room
  <1>8. Stored(mem', disk') /\ crashes' \in 0 .. MaxCrashes
    BY <1>1, <1>2, <1>4, <1>6, <1>7, SectorAssumption DEF Stored
  <1> QED BY <1>1, <1>2, <1>8, SameJob, IdleStep

\* A request that does not get the file open leaves it as it was.
LEMMA OpenFails ==
  ASSUME IInv, pc = "idle", pc' = "idle", mem.win = "fat", faults < MaxFaults,
         faults' = faults + 1,
         disk' \in {disk, [disk EXCEPT !.chain = mem.chain]},
         UNCHANGED <<mem, fp, job, base, nonce, crashes>>, requests' \in 0 .. MaxRequests
  PROVE  IInv'
  <1> DEFINE d == IF mem.win = "fat" THEN [disk EXCEPT !.chain = mem.chain] ELSE disk
             m == [mem EXCEPT !.win = IF @ = "fat" THEN "clean" ELSE @]
  <1>1. /\ mem \in MemT /\ disk \in Device /\ job \in JobT /\ CachedOn(mem, disk) /\ fp = Closed
        /\ nonce \in 0 .. MaxNonce /\ faults \in 0 .. MaxFaults /\ crashes \in 0 .. MaxCrashes
        /\ Keeps => KeptRoom /\ disk.size >= 1
    BY DEF IInv, Typed, Cached, Buffered, Kept, KeptHeader
  <1>2. /\ d \in Device /\ d.size = disk.size /\ d.sec = disk.sec /\ d.chain = mem.chain
        /\ CachedOn(mem, d) /\ m \in MemT
    BY <1>1, ChainWritten
  <1>3. disk' \in {disk, d}
    OBVIOUS
  <1> HIDE DEF d
  <1>4. Keeps => d.size >= 1 /\ Room(base, d) /\ Room(base, mem) /\ Room(base, disk)
    BY <1>1, <1>2 DEF KeptRoom, Room
  <1>5. Stored(mem', disk')
    BY <1>1, <1>2, <1>3, <1>4 DEF Stored
  <1>6. faults' \in 0 .. MaxFaults
    BY <1>1, SectorAssumption
  <1> QED BY <1>1, <1>5, <1>6, IdleStep

\* What a request may be.
Asked(j) ==
  /\ j \in JobT /\ j.blk = First(j) /\ j.ret = "OK"
  /\ \/ /\ j.op = "write" /\ j.len >= 1 /\ j.off + j.len <= 2 * Blocks
     \/ /\ j.op = "truncate" /\ j.off = 0

\* The requests fff_write and fff_truncate make.
LEMMA Requests ==
  /\ \A off \in Cells, v \in Values, len \in Nat :
       len >= 1 /\ len <= 2 * Blocks - off =>
         Asked(Job("write", off, len, v)) /\ Job("write", off, len, v).op = "write"
  /\ \A size \in Cuts :
       Asked(Job("truncate", 0, size, Zero)) /\ Job("truncate", 0, size, Zero).op = "truncate"
  <1>1. NoHeader \in HeaderT /\ <<Zero, Zero>> \in Cell \X Cell /\ Zero \in Cell
    BY SectorAssumption DEF NoHeader, HeaderT, Cell
  <1>2. ASSUME NEW op \in {"write", "truncate"}, NEW off \in Nat, NEW len \in Nat, NEW v \in Cell
        PROVE  LET j == Job(op, off, len, v) IN
               /\ j \in JobT /\ j.blk = First(j) /\ j.ret = "OK"
               /\ j.op = op /\ j.off = off /\ j.len = len
    <2>1. BlockOf(off) \in Nat
      BY Halves
    <2> QED BY <1>1, <2>1 DEF Job, JobT, First
  <1>3. ASSUME NEW off \in Cells, NEW v \in Values, NEW len \in Nat,
               len >= 1, len <= 2 * Blocks - off
        PROVE  Asked(Job("write", off, len, v)) /\ Job("write", off, len, v).op = "write"
    <2>1. off \in Nat /\ v \in Cell
      BY DEF Cells, Cell
    <2>2. off + len <= 2 * Blocks
      BY <1>3, <2>1, SectorAssumption
    <2> QED BY <1>2, <1>3, <2>1, <2>2 DEF Asked
  <1>4. ASSUME NEW size \in Cuts
        PROVE  Asked(Job("truncate", 0, size, Zero)) /\ Job("truncate", 0, size, Zero).op = "truncate"
    <2>1. size \in Nat
      BY SectorAssumption
    <2> QED BY <1>1, <1>2, <2>1 DEF Asked
  <1> QED BY <1>3, <1>4

\* The file an open request finds: what the device holds is what it keeps.
LEMMA KeepsFacts ==
  ASSUME NEW d, NEW m, NEW q, First(q) \in Nat, CachedOn(m, d), d \in Device, m \in MemT, m.win # "fat"
  PROVE  /\ HdrKept(d, q, d.sec[0].hdr)
         /\ Room(d, d) /\ Room(d, m)
         /\ OnDisk(d, q, d.sec)
         /\ InFile(d, q, d.sec, First(q), FALSE)
  <1>1. HdrKept(d, q, d.sec[0].hdr)
    BY DEF HdrKept
  <1>2. ASSUME NEW k \in Openable(d)
        PROVE  End(k) <= d.size /\ k + 2 <= d.chain /\ End(k) <= m.size /\ k + 2 <= m.chain
    <2>1. /\ k \in Nat /\ End(k) <= d.size /\ k + 2 <= d.chain /\ End(k) = 2 * k + 3
      BY OpenableFacts, Positions DEF HasHeader
    <2>2. m.size \in Nat /\ d.size \in Nat /\ d.chain \in Nat /\ m.chain = d.chain
      BY MemFacts, DeviceFacts DEF CachedOn
    <2>3. ~(m.size < d.size)
      BY <2>1, <2>2 DEF CachedOn
    <2> QED BY <2>1, <2>2, <2>3
  <1>3. \A k \in Openable(d) : IsOld(d, d.sec, k)
    BY DEF IsOld
  <1>4. ASSUME NEW k \in Openable(d)
        PROVE  ~(First(q) <= k /\ k < First(q))
    <2>1. k \in Nat
      BY OpenableFacts, Positions
    <2> QED BY <2>1
  <1>5. OnDisk(d, q, d.sec)
    BY <1>3 DEF OnDisk, IsWhole
  <1>6. InFile(d, q, d.sec, First(q), FALSE)
    BY <1>3, <1>4 DEF InFile, IsOld
  <1> QED BY <1>1, <1>2, <1>5, <1>6 DEF Room

\* A request begins: f_open writes back a FAT sector left in the window.
LEMMA OpenStep ==
  ASSUME IInv, NEW j, Asked(j), NEW first, Open(j, first),
         first = IF j.op = "write" THEN "f_crypt_lseek" ELSE "truncate_header"
  PROVE  IInv'
  <1> DEFINE d == IF mem.win = "fat" THEN [disk EXCEPT !.chain = mem.chain] ELSE disk
             m == [mem EXCEPT !.win = IF @ = "fat" THEN "clean" ELSE @]
  <1>1. /\ pc = "idle" /\ requests < MaxRequests /\ requests' = requests + 1
        /\ crashes' = crashes /\ nonce' = nonce
    BY DEF Open
  <1>2. \/ /\ disk' = d /\ base' = d /\ mem' = m /\ fp' = Opened(mem.size)
           /\ GoOn(j, first) /\ UNCHANGED <<reply, faults>>
        \/ /\ mem.win = "fat" /\ faults < MaxFaults
           /\ faults' = faults + 1
           /\ disk' \in {disk, d}
           /\ UNCHANGED <<mem, fp, job, pc, base>>
    BY DEF Open
  <1>3. requests' \in 0 .. MaxRequests
    BY <1>1, SectorAssumption DEF IInv, Typed
  <1>4. CASE /\ mem.win = "fat" /\ faults < MaxFaults
             /\ faults' = faults + 1
             /\ disk' \in {disk, d}
             /\ UNCHANGED <<mem, fp, job, pc, base>>
    <2>1. disk' \in {disk, [disk EXCEPT !.chain = mem.chain]}
      BY <1>4
    <2> QED BY <1>1, <1>3, <1>4, <2>1, OpenFails
  <1>5. CASE /\ disk' = d /\ base' = d /\ mem' = m /\ fp' = Opened(mem.size)
             /\ GoOn(j, first) /\ UNCHANGED <<reply, faults>>
    <2>1. /\ mem \in MemT /\ disk \in Device /\ CachedOn(mem, disk)
          /\ nonce' \in 0 .. MaxNonce /\ faults' \in 0 .. MaxFaults /\ crashes' \in 0 .. MaxCrashes
      BY <1>1, <1>5 DEF IInv, Typed, Cached
    <2>2. /\ d \in Device /\ d.size = disk.size /\ d.sec = disk.sec /\ d.chain = mem.chain
          /\ m \in MemT /\ m.chain = mem.chain /\ m.size = mem.size /\ m.win # "fat"
          /\ CachedOn(m, d)
      BY <2>1, ChainWritten
    <2> HIDE DEF d, m
    <2>3. job' = j /\ pc' = first /\ j \in JobT
      BY <1>5 DEF GoOn, Asked
    <2>4. /\ fp' \in FileT /\ fp'.dirty = FALSE /\ fp'.sect \notin Sectors /\ fp'.size = mem.size
      <3>1. NoSector \notin Sectors /\ mem.size \in 0 .. End(Blocks - 1)
        BY <2>1, SectorAssumption DEF NoSector, Sectors, MemT
      <3>2. JunkSector \in Sector
        BY SectorAssumption DEF JunkSector, Sector, NoHeader, NoHead, NoTail, Cell
      <3>3. fp' = [size |-> mem.size, sect |-> NoSector, buf |-> JunkSector, dirty |-> FALSE,
                   modified |-> FALSE, err |-> FALSE]
        BY <1>5 DEF Opened, Closed
      <3> QED BY <3>1, <3>2, <3>3 DEF FileT
    <2>5. W' = d.sec
      BY <1>5, <2>4 DEF W, Flushed
    <2>6. pc' \in {"f_crypt_lseek", "truncate_header"} /\ pc' \notin {"idle"} \cup Syncing
      BY <2>3 DEF Syncing
    <2>7. Typed'
      BY <1>3, <1>5, <2>1, <2>2, <2>3, <2>4, <2>6 DEF Typed, Writing, Truncating
    <2>8. Cached' /\ Buffered'
      BY <1>5, <2>2, <2>4, <2>6 DEF Cached, Buffered, Coherent, Placed, Syncing
    <2>9. Sized'
      <3>1. mem.size \in Nat
        BY <2>1, MemFacts
      <3>2. SizedOn(mem.size, m, d)
        BY <2>2, <3>1 DEF SizedOn, CachedOn
      <3> QED BY <1>5, <2>2, <2>4, <3>1, <3>2 DEF Sized
    <2>10. Flow'
      <3>1. /\ j.blk = First(j) /\ j.ret = "OK" /\ First(j) \in Nat
            /\ j.op = "write" =>
                 /\ j.len >= 1 /\ j.off + j.len <= 2 * Blocks
                 /\ First(j) <= LastBlock(j) /\ LastBlock(j) \in Nat
            /\ j.op = "truncate" => j.off = 0
            /\ j.op \in {"write", "truncate"}
        BY <2>3, JobFacts DEF Asked
      <3>2. fp' = Opened(mem'.size)
        BY <1>5, <2>2
      <3>3. /\ j.op = "write" => pc' = "f_crypt_lseek"
            /\ j.op = "truncate" => pc' = "truncate_header"
        BY <2>3
      <3> QED BY <2>3, <2>6, <3>1, <3>2, <3>3
              DEF Flow, Writing, Heading, Loop, Sizing, Truncating, Syncing
    <2>11. Headed'
      BY <2>6 DEF Headed, Loop, Syncing
    <2>12. Done'
      <3>1. First(Req(j)) = First(j) /\ j.blk = First(j) /\ First(j) \in Nat
        BY <2>3, ReqFacts, JobFacts DEF Asked
      <3>2. First(Req(j)) .. j.blk - 1 = {}
        BY <3>1
      <3> QED BY <2>3, <3>2 DEF Done, WrittenUpTo
    <2>13. Kept'
      <3> SUFFICES ASSUME Keeps' PROVE KeptHeader' /\ KeptRoom' /\ KeptParts' /\ KeptOld'
        BY DEF Kept
      <3>1. HasHeader(d)
        BY <1>5 DEF Keeps
      <3>2. /\ HdrKept(d, Req(j), d.sec[0].hdr)
            /\ Room(d, d) /\ Room(d, m)
            /\ OnDisk(d, Req(j), d.sec)
            /\ InFile(d, Req(j), d.sec, j.blk, FALSE)
        <4>1. First(Req(j)) = j.blk /\ First(Req(j)) \in Nat
          BY <2>3, ReqFacts, JobFacts DEF Asked
        <4> QED BY <2>2, <4>1, KeepsFacts
      <3>3. KeptHeader'
        BY <1>5, <2>3, <2>5, <2>6, <3>1, <3>2 DEF KeptHeader, HasHeader
      <3>4. KeptRoom'
        BY <1>5, <2>2, <2>4, <3>2 DEF KeptRoom, Room
      <3>5. KeptParts'
        BY <1>5, <2>3, <2>5, <2>6, <3>2 DEF KeptParts
      <3>6. KeptOld'
        BY <2>6 DEF KeptOld
      <3> QED BY <3>3, <3>4, <3>5, <3>6
    <2> QED BY <2>7, <2>8, <2>9, <2>10, <2>11, <2>12, <2>13 DEF IInv
  <1> QED BY <1>2, <1>4, <1>5

\* The invariant holds at first and in every step.
LEMMA InitInvariant ==
  ASSUME Init PROVE IInv
  <1>1. /\ JunkSector \in Sector /\ 0 \in 0 .. End(Blocks - 1) /\ 0 \in 0 .. Blocks + 1
        /\ Zero \in Cell /\ NoHeader \in HeaderT /\ <<Zero, Zero>> \in Cell \X Cell
        /\ BlockOf(0) \in Nat /\ NoSector \notin Sectors
        /\ 0 \in 0 .. MaxNonce /\ 0 \in 0 .. MaxRequests /\ 0 \in 0 .. MaxFaults
        /\ 0 \in 0 .. MaxCrashes
    BY SectorAssumption
       DEF JunkSector, Sector, NoHeader, NoHead, NoTail, Cell, HeaderT, End, BlockOf, NoSector, Sectors
  <1>2. /\ disk \in Device /\ disk.size = 0 /\ disk.chain = 0 /\ base = disk
    BY <1>1 DEF Init, Device
  <1>3. /\ mem \in MemT /\ mem.size = 0 /\ mem.chain = 0 /\ mem.win = "clean"
    BY <1>1 DEF Init, MemT
  <1>4. /\ fp \in FileT /\ fp = Closed /\ fp.dirty = FALSE /\ fp.sect = NoSector
    BY <1>1 DEF Init, FileT, Closed
  <1>5. job \in JobT /\ job.op = "none"
    BY <1>1 DEF Init, JobT, Job
  <1>6. pc = "idle"
    BY DEF Init
  <1>7. Typed
    BY <1>1, <1>2, <1>3, <1>4, <1>5, <1>6 DEF Init, Typed
  <1>8. Cached /\ Buffered /\ Sized
    BY <1>1, <1>2, <1>3, <1>4, <1>6 DEF Cached, CachedOn, Buffered, Coherent, Placed, Sized
  <1>9. Flow /\ Headed /\ Done /\ Kept
    BY <1>5, <1>6 DEF Flow, Headed, Done, Kept, Keeps, Writing, Heading, Loop, Sizing, Truncating, Syncing
  <1> QED BY <1>7, <1>8, <1>9 DEF IInv

\* As above, for a step.
LEMMA NextInvariant ==
  ASSUME IInv, [Next]_vars PROVE IInv'
  <1>1. ASSUME NEW off \in Cells, NEW v \in Values, NEW len \in 1 .. 2 * Blocks - off,
               fff_write(off, len, v)
        PROVE  IInv'
    <2>1. len \in Nat /\ len >= 1 /\ len <= 2 * Blocks - off
      BY SectorAssumption DEF Cells
    <2>2. Asked(Job("write", off, len, v)) /\ Job("write", off, len, v).op = "write"
      BY <2>1, Requests
    <2>3. Open(Job("write", off, len, v), "f_crypt_lseek")
      BY <1>1 DEF fff_write
    <2> QED BY <2>2, <2>3, OpenStep
  <1>2. ASSUME NEW size \in Cuts, fff_truncate(size)
        PROVE  IInv'
    <2>1. /\ Asked(Job("truncate", 0, size, Zero))
          /\ Job("truncate", 0, size, Zero).op = "truncate"
      BY Requests
    <2>2. Open(Job("truncate", 0, size, Zero), "truncate_header")
      BY <1>2 DEF fff_truncate
    <2> QED BY <2>1, <2>2, OpenStep
  <1>3. ASSUME Handler
        PROVE  IInv'
    BY <1>3, f_crypt_lseekStep, parse_fatcrypt_headerStep, parsedStep, write_fatcrypt_headerStep,
       header_writtenStep, seekStep, read_blockStep, seek_againStep, put_blockStep,
       update_fatcrypt_header_lsizeStep, lsize_writtenStep, truncate_headerStep, f_truncateStep,
       truncate_lsizeStep, SyncBufferStep, SyncFatStep, SyncEntryStep DEF Handler
  <1>4. ASSUME UNCHANGED vars
        PROVE  IInv'
    BY <1>4 DEF vars, IInv, Typed, Cached, Buffered, Sized, Cut, Flow, Headed, Done, Kept, Keeps,
       KeptHeader, KeptRoom, KeptParts, KeptOld, W
  <1> QED BY <1>1, <1>2, <1>3, <1>4, OtherRequestStep, PowerLossStep DEF Next

-----------------------------------------------------------------------------
(* The theorems.                                                           *)

\* The inductive invariant holds of every state of the volume code as it
\* writes or truncates one encrypted file.
THEOREM Invariant == Spec => []IInv
  <1>1. Init => IInv
    BY InitInvariant
  <1>2. IInv /\ [Next]_vars => IInv'
    BY NextInvariant
  <1> QED BY <1>1, <1>2, PTL DEF Spec

\* Every variable of a file being written keeps its type, and a dirty sector
\* buffer (FA_DIRTY) is on a sector of the file.
THEOREM TypeCorrect == Spec => []TypeOK
  <1>1. IInv => TypeOK
    BY FileFacts DEF IInv, Typed, Buffered, Coherent, TypeOK, MemT, FileT
  <1> QED BY <1>1, Invariant, PTL

\* A block that is whole on the device opens.
LEMMA WholeOpens ==
  ASSUME IInv, Keeps, NEW k \in Openable(base), IsWhole(base, Req(job), disk.sec, k)
  PROVE  Opens(disk, k)
  <1>1. KeptHeader /\ KeptRoom /\ HasHeader(base)
    BY DEF IInv, Kept, Keeps
  <1>2. /\ k \in BlockSet /\ k \in Nat
        /\ Authentic(base.sec[0].hdr.nonce, k, base.sec[k].head, base.sec[k + 1].tail)
    BY OpenableFacts, Positions
  <1>3. /\ disk.size >= End(k) /\ disk.chain >= k + 2
    <2>1. End(k) <= disk.size /\ k + 2 <= disk.chain
      BY <1>1 DEF KeptRoom, Room
    <2>2. disk.size \in Nat /\ disk.chain \in Nat /\ End(k) \in Nat
      BY <1>2, DeviceFacts, Positions DEF IInv, Typed
    <2> QED BY <1>2, <2>1, <2>2
  <1>4. disk.sec[0].hdr.nonce = base.sec[0].hdr.nonce
    BY <1>1 DEF KeptHeader, HdrKept
  <1>5. HasHeader(disk)
    <2>1. disk.size >= 1
      BY <1>1 DEF KeptHeader
    <2>2. disk.chain >= 1
      BY <2>1 DEF IInv, Cached, CachedOn
    <2> QED BY <1>1, <1>4, <2>1, <2>2 DEF HasHeader
  <1>6. Authentic(base.sec[0].hdr.nonce, k, disk.sec[k].head, disk.sec[k + 1].tail)
    <2>1. CASE IsOld(base, disk.sec, k)
      BY <1>2, <2>1 DEF IsOld
    <2>2. CASE IsNew(base, Req(job), disk.sec, k)
      BY <1>2, <2>2 DEF IsNew, HeadOf, TailOf, Authentic
    <2> QED BY <2>1, <2>2 DEF IsWhole
  <1> QED BY <1>2, <1>3, <1>4, <1>5, <1>6, ClusterCounts DEF Opens

\* The block a cell is in, and which of its two cells it is.
LEMMA CellFacts ==
  ASSUME NEW c \in Nat
  PROVE  /\ BlockOf(c) \in Nat
         /\ c % 2 = 0 => c = 2 * BlockOf(c)
         /\ c % 2 # 0 => c = 2 * BlockOf(c) + 1
         /\ c < 2 * Blocks => BlockOf(c) \in BlockSet
  BY SectorAssumption DEF BlockOf, BlockSet

\* A block that still opens reads as before or as written, cell by cell.
LEMMA CellKept ==
  ASSUME IInv, Keeps, NEW c \in Cells, Opens(base, BlockOf(c)), Opens(disk, BlockOf(c))
  PROVE  \/ CellOn(disk, c) = CellOn(base, c)
         \/ c \in Span(job) /\ CellOn(disk, c) = job.val
  <1> DEFINE k == BlockOf(c)
  <1>1. c \in Nat /\ c < 2 * Blocks
    BY SectorAssumption DEF Cells
  <1>2. k \in Nat /\ k \in BlockSet /\ k \in Openable(base)
    BY <1>1, CellFacts DEF Openable
  <1>3. Authentic(base.sec[0].hdr.nonce, k, base.sec[k].head, base.sec[k + 1].tail)
    BY <1>2, OpenableFacts
  <1>4. /\ c % 2 = 0 => c = 2 * k
        /\ c % 2 # 0 => c = 2 * k + 1
    BY <1>1, CellFacts
  <1> HIDE DEF k
  <1>5. IsWhole(base, Req(job), disk.sec, k) \/ IsMixed(base, Req(job), disk.sec, k)
    BY <1>2 DEF IInv, Kept, KeptParts, OnDisk
  <1>6. /\ disk.sec[k].head \in {base.sec[k].head, HeadOf(base, Req(job), k)}
        /\ disk.sec[k + 1].tail \in {base.sec[k + 1].tail, TailOf(base, Req(job), k)}
    BY <1>5 DEF IsWhole, IsOld, IsNew, IsMixed
  <1>7. /\ CellOn(disk, c) = IF c % 2 = 0 THEN disk.sec[k].head.a ELSE disk.sec[k + 1].tail.b
        /\ CellOn(base, c) = IF c % 2 = 0 THEN base.sec[k].head.a ELSE base.sec[k + 1].tail.b
    BY DEF CellOn, k
  <1>8. CASE c % 2 = 0
    <2>1. disk.sec[k].head.a \in {base.sec[k].head.a, CellA(base, Req(job), k)}
      BY <1>6 DEF HeadOf
    <2>2. base.sec[k].head.a = base.sec[k + 1].tail.a
      BY <1>3 DEF Authentic
    <2>3. CellA(base, Req(job), k) = IF c \in Span(job) THEN job.val ELSE base.sec[k + 1].tail.a
      BY <1>4, <1>8, ReqFacts DEF CellA
    <2> QED BY <1>7, <1>8, <2>1, <2>2, <2>3
  <1>9. CASE c % 2 # 0
    <2>1. disk.sec[k + 1].tail.b \in {base.sec[k + 1].tail.b, CellB(base, Req(job), k)}
      BY <1>6 DEF TailOf
    <2>2. CellB(base, Req(job), k) = IF c \in Span(job) THEN job.val ELSE base.sec[k + 1].tail.b
      BY <1>4, <1>9, ReqFacts DEF CellB
    <2> QED BY <1>7, <1>9, <2>1, <2>2
  <1> QED BY <1>8, <1>9

\* The invariant says that one block is torn at most.
LEMMA TearsOne == IInv => WriteTearsOneBlock
  <1> SUFFICES ASSUME IInv, job.op = "write" PROVE WriteTearsOneBlock
    BY DEF WriteTearsOneBlock
  <1>1. CASE ~HasHeader(base)
    <2>1. \A k : ~Opens(base, k)
      BY <1>1 DEF Opens
    <2>2. Torn = {}
      BY <2>1 DEF Torn
    <2>3. Cardinality(Torn) <= 1
      BY <2>2, FS_EmptySet
    <2>4. \A c \in Cells : CellOn(base, c) = Lost
      BY <2>1 DEF CellOn
    <2> QED BY <2>3, <2>4 DEF WriteTearsOneBlock
  <1>2. CASE HasHeader(base)
    <2>1. Keeps
      BY <1>2 DEF Keeps
    <2>2. /\ First(job) \in Nat /\ LastBlock(job) \in Nat /\ LastBlock(job) < Blocks
          /\ First(job) = BlockOf(job.off)
      BY JobFacts DEF IInv, Flow, Typed, First
    <2>3. \A k \in Torn : k \in Openable(base) /\ ~IsWhole(base, Req(job), disk.sec, k)
      <3> SUFFICES ASSUME NEW k \in Torn
                   PROVE  k \in Openable(base) /\ ~IsWhole(base, Req(job), disk.sec, k)
        OBVIOUS
      <3>1. k \in First(job) .. LastBlock(job) /\ Opens(base, k) /\ ~Opens(disk, k)
        BY <2>2 DEF Torn
      <3>2. k \in BlockSet
        BY <2>2, <3>1, SectorAssumption DEF BlockSet
      <3>3. k \in Openable(base)
        BY <3>1, <3>2 DEF Openable
      <3> QED BY <2>1, <3>1, <3>3, WholeOpens
    <2>4. \A x, y \in Torn : x = y
      <3>1. \A k, l \in Openable(base) :
              k # l => IsWhole(base, Req(job), disk.sec, k) \/ IsWhole(base, Req(job), disk.sec, l)
        BY <2>1 DEF IInv, Kept, KeptParts, OnDisk
      <3> QED BY <2>3, <3>1
    <2>5. Cardinality(Torn) <= 1
      BY <2>4, AtMostOne
    <2>6. ASSUME NEW c \in Cells, CellOn(base, c) # Lost, BlockOf(c) \notin Torn
          PROVE  \/ CellOn(disk, c) = CellOn(base, c)
                 \/ c \in Span(job) /\ CellOn(disk, c) = job.val
      <3>1. Opens(base, BlockOf(c))
        BY <2>6 DEF CellOn
      <3>2. BlockOf(c) \in BlockSet /\ BlockOf(c) \in Nat
        <4>1. c \in Nat /\ c < 2 * Blocks
          BY SectorAssumption DEF Cells
        <4> QED BY <4>1, CellFacts
      <3>3. BlockOf(c) \in Openable(base)
        BY <3>1, <3>2 DEF Openable
      <3>4. Opens(disk, BlockOf(c))
        <4>1. CASE BlockOf(c) \in BlockOf(job.off) .. LastBlock(job)
          BY <2>6, <3>1, <4>1 DEF Torn
        <4>2. CASE BlockOf(c) \notin BlockOf(job.off) .. LastBlock(job)
          <5>1. ~Touched(Req(job), BlockOf(c))
            BY <2>2, <3>2, <4>2, ReqFacts DEF Touched
          <5>2. IsWhole(base, Req(job), disk.sec, BlockOf(c))
            BY <2>1, <3>3, <5>1 DEF IInv, Kept, KeptParts, OnDisk, IsMixed
          <5> QED BY <2>1, <3>3, <5>2, WholeOpens
        <4> QED BY <4>1, <4>2
      <3> QED BY <2>1, <3>1, <3>4, CellKept
    <2> QED BY <2>5, <2>6 DEF WriteTearsOneBlock
  <1> QED BY <1>1, <1>2

\* f_crypt_write replaces blocks in place: at every moment of a write, also
\* when device accesses fail in it, at most one block that could be read is
\* torn, and every cell of the others reads as before or as written.
THEOREM TearsOneBlock == Spec => []WriteTearsOneBlock
  BY Invariant, TearsOne, PTL

\* parse_fatcrypt_header takes a failed read for a missing header, yet no write
\* replaces the header a file had: fp->err keeps write_fatcrypt_header away
\* from it, and update_fatcrypt_header_lsize changes its size alone.
THEOREM HeaderSurvives == Spec => []HeaderSurvivesWrite
  <1>1. ASSUME IInv PROVE HeaderSurvivesWrite
    <2> SUFFICES ASSUME Keeps
                 PROVE  /\ HasHeader(disk)
                        /\ disk.sec[0].hdr.nonce = base.sec[0].hdr.nonce
                        /\ disk.sec[0].hdr.lsize \in {base.sec[0].hdr.lsize, job.off + job.len}
      BY DEF HeaderSurvivesWrite, Keeps
    <2>1. /\ disk.size >= 1 /\ HdrKept(base, Req(job), disk.sec[0].hdr)
      BY <1>1 DEF IInv, Kept, KeptHeader
    <2>2. disk.chain >= 1
      BY <1>1, <2>1 DEF IInv, Cached, CachedOn
    <2>3. base.sec[0].hdr.nonce # 0
      BY DEF Keeps, HasHeader
    <2> QED BY <2>1, <2>2, <2>3, ReqFacts DEF HdrKept, HasHeader
  <1> QED BY <1>1, Invariant, PTL

-----------------------------------------------------------------------------
(* The size in the directory entry.                                        *)

\* How a step may change the size on the device, but for the entry written by
\* f_sync.
Grows ==
  \/ disk'.size = disk.size
  \/ disk'.size = mem.size /\ disk'.chain = disk.chain

\* Moving the sector buffer leaves the size in the entry and the chain alone.
LEMMA FlushedSize ==
  ASSUME NEW f, NEW d \in Device
  PROVE  Flushed(f, d).size = d.size /\ Flushed(f, d).chain = d.chain
  BY DEF Flushed, Device

\* As above, for a write-back that fails.
LEMMA FlushFailsDisk ==
  ASSUME NEW f, NEW d \in Device, NEW o \in FlushFails(f, d)
  PROVE  o.disk.size = d.size /\ o.disk.chain = d.chain
  <1>1. o.disk \in {d, Flushed(f, d)}
    BY DEF FlushFails, Outcome
  <1> QED BY <1>1, FlushedSize

\* As above, for a whole move.
LEMMA MoveDisk ==
  ASSUME NEW f, NEW d \in Device, NEW s, NEW o \in Move(f, d, s)
  PROVE  o.disk.size = d.size /\ o.disk.chain = d.chain
  <1>1. o.disk \in {d, Flushed(f, d)} \/ o \in FlushFails(f, d)
    BY DEF Move, Outcome
  <1> QED BY <1>1, FlushedSize, FlushFailsDisk

\* As above, for f_write of a block.
LEMMA PutBlockDisk ==
  ASSUME NEW j, NEW f, NEW d \in Device, NEW o \in PutBlock(j, f, d)
  PROVE  o.disk.size = d.size /\ o.disk.chain = d.chain
  <1> DEFINE k  == j.blk
             f1 == [f EXCEPT !.buf.head = NewHead(j), !.dirty = TRUE,
                             !.size = MaxOf(f.size, Start(k) + 1)]
             next == IF f1.size > Start(k) + 1 THEN Move(f1, d, k + 1)
                     ELSE {Outcome(TRUE, FALSE, [f1 EXCEPT !.sect = k + 1], Flushed(f1, d))}
                          \cup FlushFails(f1, d)
             WithEnd(g) == [g EXCEPT !.buf.tail = NewTail(j), !.dirty = TRUE, !.modified = TRUE,
                                     !.size = MaxOf(g.size, End(k))]
  <1>1. PICK p \in next : o = IF p.ok THEN [p EXCEPT !.fp = WithEnd(p.fp)] ELSE p
    BY DEF PutBlock
  <1> HIDE DEF f1, WithEnd
  <1>2. p.disk.size = d.size /\ p.disk.chain = d.chain
    BY <1>1, MoveDisk, FlushFailsDisk, FlushedSize DEF Outcome
  <1>3. p = Outcome(p.ok, p.fault, p.fp, p.disk)
    BY <1>1 DEF Outcome, Move, FlushFails
  <1>4. o.disk = p.disk
    BY <1>1, <1>3 DEF Outcome
  <1> QED BY <1>2, <1>4

\* create_chain may push the entry out of the window.
LEMMA LinkedGrows ==
  ASSUME IInv, NEW pos \in Nat, ClustersFor(pos) <= Blocks + 1, NEW g \in Linked(mem, disk, pos)
  PROVE  /\ g.disk \in Device /\ g.disk.chain = disk.chain
         /\ g.disk.size = disk.size \/ g.disk.size = mem.size
  <1>1. Relinked(g.mem, g.disk)
    BY LinkedStep DEF IInv
  <1> QED BY <1>1 DEF Relinked

\* No handler but the sync of the entry makes the size on the device another than
\* the one in the window.
LEMMA SeekBlockGrows ==
  ASSUME IInv, NEW next, pc \in Writing, SeekBlock(pc, next) PROVE Grows
  <1>1. Start(job.blk) \in Nat /\ ClustersFor(Start(job.blk)) <= Blocks + 1
    <2>1. job.blk \in Nat /\ job.blk <= Blocks
      BY PlaceFacts
    <2>2. Start(job.blk) = 2 * job.blk + 1
      BY <2>1, Positions
    <2>3. ClustersFor(Start(job.blk)) = job.blk + 1
      BY <2>1, ClusterCounts
    <2> QED BY <2>1, <2>2, <2>3, SectorAssumption
  <1>2. CASE fp.err
    BY <1>2 DEF SeekBlock, Grows
  <1>3. CASE ~fp.err
    <2>1. PICK g \in Linked(mem, disk, Start(job.blk)) :
             \E o \in Move(Extended(fp, Start(job.blk)), g.disk, job.blk) : Take(o)
      BY <1>3 DEF SeekBlock
    <2>2. PICK o \in Move(Extended(fp, Start(job.blk)), g.disk, job.blk) : Take(o)
      BY <2>1
    <2>3. /\ g.disk \in Device /\ g.disk.chain = disk.chain
          /\ g.disk.size = disk.size \/ g.disk.size = mem.size
      BY <1>1, LinkedGrows
    <2> QED BY <2>2, <2>3, MoveDisk DEF Take, Grows
  <1> QED BY <1>2, <1>3

\* As above, for f_lseek back to the block.
LEMMA SeekBackGrows ==
  ASSUME IInv, NEW s, SeekBack(pc, s) PROVE Grows
  <1>1. PICK o \in Move(fp, disk, s) : Take(o)
    BY DEF SeekBack
  <1> QED BY <1>1, MoveDisk DEF Take, Grows, IInv, Typed

\* As above, for write_fatcrypt_header.
LEMMA PutHeaderGrows ==
  ASSUME IInv, NEW next, PutHeader(next) PROVE Grows
  <1>1. CASE UNCHANGED <<nonce, fp, disk, mem, faults>>
    BY <1>1 DEF Grows
  <1>2. ASSUME NEW g \in Linked(mem, disk, 1),
               NEW o \in IF fp.size = 0
                           THEN {Outcome(TRUE, FALSE, [fp EXCEPT !.sect = 0], g.disk)}
                           ELSE Move(fp, g.disk, 0),
               IF o.ok
                 THEN /\ Take([o EXCEPT !.fp.buf.hdr = NewHeader, !.fp.dirty = TRUE,
                                        !.fp.modified = TRUE,
                                        !.fp.size = MaxOf(o.fp.size, 1)])
                      /\ GoOn([job EXCEPT !.hdr = NewHeader], next)
                 ELSE Take(o) /\ Fail
        PROVE  Grows
    <2>1. ClustersFor(1) <= Blocks + 1
      BY ClusterCounts, SectorAssumption
    <2>2. /\ g.disk \in Device /\ g.disk.chain = disk.chain
          /\ g.disk.size = disk.size \/ g.disk.size = mem.size
      BY <2>1, LinkedGrows
    <2>3. /\ o = Outcome(o.ok, o.fault, o.fp, o.disk)
          /\ o.disk.size = g.disk.size /\ o.disk.chain = g.disk.chain
      <3>1. CASE fp.size = 0
        BY <1>2, <3>1 DEF Outcome
      <3>2. CASE fp.size # 0
        <4>1. o \in Move(fp, g.disk, 0)
          BY <1>2, <3>2
        <4>2. o.disk.size = g.disk.size /\ o.disk.chain = g.disk.chain
          BY <2>2, <4>1, MoveDisk
        <4>3. o = Outcome(o.ok, o.fault, o.fp, o.disk)
          BY <4>1 DEF Move, FlushFails, Outcome
        <4> QED BY <4>2, <4>3
      <3> QED BY <3>1, <3>2
    <2>4. disk' = o.disk
      BY <1>2, <2>3 DEF Take, Outcome
    <2> QED BY <2>2, <2>3, <2>4 DEF Grows
  <1> QED BY <1>1, <1>2 DEF PutHeader

\* As above, for update_fatcrypt_header_lsize.
LEMMA PutLsizeGrows ==
  ASSUME IInv, NEW next, PutLsize(pc, next) PROVE Grows
  <1>1. PICK o \in Move(fp, disk, 0) :
          IF o.ok THEN Take([o EXCEPT !.fp.buf.hdr.lsize = job.off + job.len,
                                      !.fp.dirty = TRUE, !.fp.modified = TRUE])
                  ELSE Take(o)
    BY DEF PutLsize
  <1>2. /\ o = Outcome(o.ok, o.fault, o.fp, o.disk)
        /\ o.disk.size = disk.size
    <2>1. o = Outcome(o.ok, o.fault, o.fp, o.disk)
      BY DEF Move, FlushFails, Outcome
    <2> QED BY <2>1, MoveDisk DEF IInv, Typed
  <1>3. disk' = o.disk
    BY <1>1, <1>2 DEF Take, Outcome
  <1> QED BY <1>2, <1>3 DEF Grows

\* As above, for f_write of a block.
LEMMA put_blockGrows ==
  ASSUME IInv, put_block PROVE Grows
  <1>1. pc \in Writing /\ pc \notin Sizing
    BY DEF put_block, Writing, Loop, Sizing
  <1>2. End(job.blk) \in Nat /\ ClustersFor(End(job.blk)) <= Blocks + 1
    <2>1. job.blk \in BlockSet /\ job.blk \in Nat
      BY <1>1, PlaceFacts
    <2>2. End(job.blk) = 2 * job.blk + 3 /\ job.blk < Blocks
      BY <2>1, Positions
    <2>3. ClustersFor(End(job.blk)) = job.blk + 2
      BY <2>1, ClusterCounts
    <2> QED BY <2>1, <2>2, <2>3, SectorAssumption
  <1>3. CASE fp.err
    BY <1>3 DEF put_block, Grows
  <1>4. CASE ~fp.err
    <2>1. PICK g \in Linked(mem, disk, End(job.blk)) :
             \E o \in PutBlock(job, fp, g.disk) : Take(o)
      BY <1>4 DEF put_block
    <2>2. PICK o \in PutBlock(job, fp, g.disk) : Take(o)
      BY <2>1
    <2>3. /\ g.disk \in Device /\ g.disk.chain = disk.chain
          /\ g.disk.size = disk.size \/ g.disk.size = mem.size
      BY <1>2, LinkedGrows
    <2> QED BY <2>2, <2>3, PutBlockDisk DEF Take, Grows
  <1> QED BY <1>3, <1>4

\* As above, for f_read of a block.
LEMMA read_blockGrows ==
  ASSUME IInv, read_block PROVE Grows
  <1>1. disk' = disk \/ \E o \in Move(fp, disk, job.blk + 1)
                                   \cup {Outcome(FALSE, FALSE, Abort(fp), disk)} : Take(o)
    BY DEF read_block
  <1>2. ASSUME NEW o \in Move(fp, disk, job.blk + 1), Take(o) PROVE Grows
    BY <1>2, MoveDisk DEF Take, Grows, IInv, Typed
  <1>3. ASSUME Take(Outcome(FALSE, FALSE, Abort(fp), disk)) PROVE Grows
    BY <1>3 DEF Take, Outcome, Grows
  <1> QED BY <1>1, <1>2, <1>3 DEF Grows

\* As above, for f_truncate.
LEMMA f_truncateGrows ==
  ASSUME IInv, f_truncate PROVE Grows
  <1> DEFINE d == IF mem.win = "ent" THEN [disk EXCEPT !.size = mem.size] ELSE disk
             f == [fp EXCEPT !.size = 1, !.modified = TRUE]
  <1>1. disk \in Device
    BY DEF IInv, Typed
  <1>2. d.chain = disk.chain /\ (d.size = disk.size \/ d.size = mem.size) /\ d \in Device
    BY <1>1 DEF Device, IInv, Typed, MemT
  <1>3. \/ disk' = disk
        \/ \E o \in {Outcome(TRUE, FALSE, [f EXCEPT !.dirty = FALSE], Flushed(f, d))}
                    \cup FlushFails(f, d) : Take(o)
    BY DEF f_truncate
  <1> HIDE DEF d, f
  <1>4. ASSUME NEW o \in {Outcome(TRUE, FALSE, [f EXCEPT !.dirty = FALSE], Flushed(f, d))}
                    \cup FlushFails(f, d), Take(o)
        PROVE  Grows
    <2>1. o.disk.size = d.size /\ o.disk.chain = d.chain
      BY <1>2, FlushedSize, FlushFailsDisk DEF Outcome
    <2> QED BY <1>2, <1>4, <2>1 DEF Take, Grows
  <1> QED BY <1>3, <1>4 DEF Grows

\* What the window held of the entry does not reach past the chain.
LEMMA GrowsLinked ==
  ASSUME IInv, Grows
  PROVE  disk'.size > disk.size => ClustersFor(disk'.size) <= disk'.chain
  <1>1. disk.size \in Nat /\ mem.size \in Nat /\ CachedOn(mem, disk)
    BY MemFacts, DeviceFacts DEF IInv, Typed, Cached
  <1>2. CASE disk'.size = disk.size
    BY <1>1, <1>2
  <1>3. CASE disk'.size = mem.size /\ disk'.chain = disk.chain
    BY <1>1, <1>3 DEF CachedOn
  <1> QED BY <1>2, <1>3 DEF Grows

\* Every step keeps the size on the device within the chain there.
LEMMA NextGrows ==
  ASSUME IInv, Next
  PROVE  disk'.size > disk.size => ClustersFor(disk'.size) <= disk'.chain
  <1>1. disk \in Device /\ mem \in MemT
    BY DEF IInv, Typed
  <1>2. ASSUME NEW j, NEW first, Open(j, first) PROVE Grows
    <2>1. disk' \in {disk, [disk EXCEPT !.chain = mem.chain]}
      BY <1>2 DEF Open
    <2> QED BY <1>1, <2>1 DEF Grows, Device
  <1>3. CASE \/ \E off \in Cells, v \in Values : \E len \in 1 .. 2 * Blocks - off :
                  fff_write(off, len, v)
             \/ \E size \in Cuts : fff_truncate(size)
    BY <1>2, <1>3, GrowsLinked DEF fff_write, fff_truncate
  <1>4. CASE f_crypt_lseek \/ seek
    <2>1. pc \in Writing /\ \E next : SeekBlock(pc, next)
      BY <1>4 DEF f_crypt_lseek, seek, SeekBlock, Writing, Loop
    <2> QED BY <2>1, SeekBlockGrows, GrowsLinked
  <1>5. CASE parse_fatcrypt_header
    <2>1. PICK o \in Move(fp, disk, 0) : Take(o)
      BY <1>5 DEF parse_fatcrypt_header
    <2>2. Grows
      BY <1>1, <2>1, MoveDisk DEF Take, Grows
    <2> QED BY <2>2, GrowsLinked
  <1>6. CASE parsed \/ header_written \/ seek_again \/ lsize_written
    <2>1. SeekBack(pc, job.blk)
      BY <1>6 DEF parsed, header_written, seek_again, lsize_written, SeekBack
    <2> QED BY <2>1, SeekBackGrows, GrowsLinked
  <1>7. CASE write_fatcrypt_header \/ truncate_header
    <2>1. \E next : PutHeader(next)
      BY <1>7 DEF write_fatcrypt_header, truncate_header
    <2> QED BY <2>1, PutHeaderGrows, GrowsLinked
  <1>8. CASE update_fatcrypt_header_lsize \/ truncate_lsize
    <2>1. \E next : PutLsize(pc, next)
      BY <1>8 DEF update_fatcrypt_header_lsize, truncate_lsize, PutLsize
    <2> QED BY <2>1, PutLsizeGrows, GrowsLinked
  <1>9. CASE read_block \/ put_block \/ f_truncate
    BY <1>9, read_blockGrows, put_blockGrows, f_truncateGrows, GrowsLinked
  <1>10. CASE SyncBuffer
    <2>1. disk' \in {disk, Flushed(fp, disk)}
      BY <1>10 DEF SyncBuffer
    <2>2. Grows
      BY <1>1, <2>1, FlushedSize DEF Grows
    <2> QED BY <2>2, GrowsLinked
  <1>11. CASE SyncFat
    <2>1. disk' \in {disk, [disk EXCEPT !.chain = mem.chain]}
      BY <1>11 DEF SyncFat
    <2>2. Grows
      BY <1>1, <2>1 DEF Grows, Device
    <2> QED BY <2>2, GrowsLinked
  <1>12. CASE SyncEntry
    <2>1. disk' \in {disk, [disk EXCEPT !.size = fp.size]} /\ pc = "sync_entry" /\ pc # "idle"
      BY <1>12 DEF SyncEntry
    <2>2. disk.chain = mem.chain /\ SizedOn(fp.size, mem, disk)
      BY <2>1 DEF IInv, Cached, CachedOn, Sized
    <2>3. disk.size \in Nat /\ fp.size \in Nat
      BY <1>1, DeviceFacts, FileFacts DEF IInv, Typed
    <2>4. CASE disk' = disk
      BY <2>3, <2>4
    <2>5. CASE disk' = [disk EXCEPT !.size = fp.size]
      <3>1. disk'.size = fp.size /\ disk'.chain = disk.chain
        BY <1>1, <2>5 DEF Device
      <3> QED BY <2>2, <2>3, <3>1 DEF SizedOn
    <2> QED BY <2>1, <2>4, <2>5
  <1>13. CASE OtherRequest
    <2>1. disk' \in {[disk EXCEPT !.chain = mem.chain], [disk EXCEPT !.size = mem.size]}
      BY <1>13 DEF OtherRequest
    <2>2. Grows
      BY <1>1, <2>1 DEF Grows, Device
    <2> QED BY <2>2, GrowsLinked
  <1>14. CASE PowerLoss
    <2>1. disk' = [disk EXCEPT !.chain = IF disk.size = 0 THEN 0 ELSE disk.chain]
      BY <1>14 DEF PowerLoss
    <2>2. Grows
      BY <1>1, <2>1 DEF Grows, Device
    <2> QED BY <2>2, GrowsLinked
  <1> QED BY <1>3, <1>4, <1>5, <1>6, <1>7, <1>8, <1>9, <1>10, <1>11, <1>12, <1>13, <1>14
          DEF Next, Handler

\* f_sync moves the window off the FAT sector before it writes the entry: the
\* size on the device never grows over clusters that are not linked there,
\* whatever failed before and whichever request wrote the entry back.
THEOREM GrowthLinked == Spec => GrowthLinkedFirst
  <1>1. IInv /\ [Next]_vars =>
          [disk'.size > disk.size => ClustersFor(disk'.size) <= disk'.chain]_vars
    BY NextGrows
  <1> QED BY <1>1, Invariant, PTL DEF Spec, GrowthLinkedFirst


-----------------------------------------------------------------------------
(* What an answer promises.                                                *)

\* Only the write of the directory entry ends a request with OK.
LEMMA AnswersFacts ==
  ASSUME IInv, Next, NEW op \in {"write", "truncate"}, Answers(op)
  PROVE  /\ pc = "sync_entry" /\ job.op = op /\ job.ret = "OK"
         /\ disk' = [disk EXCEPT !.size = fp.size]
  <1>1. pc # "idle" /\ pc' = "idle" /\ reply'.op = op /\ reply'.ret = "OK"
    BY DEF Answers
  <1>2. \A ret : Finish(ret) => reply'.op = job.op /\ reply'.ret = ret
    BY DEF Finish
  <1>3. ~Fail /\ \A j, next : GoOn(j, next) => next = "idle"
    BY <1>1 DEF Fail, GoOn
  <1>4. \A f : SyncFails(f) => FALSE
    BY <1>1, <1>2, <1>3 DEF SyncFails
  <1>5. CASE SyncBuffer
    <2>1. pc = "sync" /\ ~fp.modified /\ Finish(job.ret)
      BY <1>3, <1>4, <1>5 DEF SyncBuffer, Synced
    <2>2. job.op = op /\ job.ret = "OK"
      BY <1>1, <1>2, <2>1
    <2>3. fp.modified
      BY <2>1, <2>2 DEF IInv, Headed, Syncing
    <2> QED BY <2>1, <2>3
  <1>6. CASE SyncFat
    BY <1>3, <1>4, <1>6 DEF SyncFat, Synced
  <1>7. CASE SyncEntry
    <2>1. pc = "sync_entry" /\ disk' = [disk EXCEPT !.size = fp.size] /\ Finish(job.ret)
      BY <1>4, <1>7 DEF SyncEntry
    <2> QED BY <1>1, <1>2, <2>1
  <1>8. CASE PowerLoss
    <2>1. reply'.op = "crash"
      BY <1>8 DEF PowerLoss
    <2> QED BY <1>1, <2>1
  <1>9. ~OtherRequest /\ \A j, first : ~Open(j, first)
    BY <1>1 DEF OtherRequest, Open
  <1>10. /\ ~f_crypt_lseek /\ ~seek
    BY <1>3 DEF f_crypt_lseek, seek, SeekBlock
  <1>11. /\ ~parse_fatcrypt_header /\ ~parsed /\ ~header_written /\ ~seek_again /\ ~lsize_written
    BY <1>3 DEF parse_fatcrypt_header, parsed, header_written, seek_again, lsize_written
  <1>12. ~write_fatcrypt_header /\ ~truncate_header
    BY <1>3 DEF write_fatcrypt_header, truncate_header, PutHeader
  <1>13. ~update_fatcrypt_header_lsize /\ ~truncate_lsize
    BY <1>3 DEF update_fatcrypt_header_lsize, truncate_lsize, PutLsize
  <1>14. ~read_block /\ ~f_truncate
    BY <1>3 DEF read_block, f_truncate
  <1>15. ~put_block
    BY <1>3 DEF put_block, AfterBlock
  <1> QED BY <1>5, <1>6, <1>7, <1>8, <1>9, <1>10, <1>11, <1>12, <1>13, <1>14, <1>15
          DEF Next, Handler, fff_write, fff_truncate

\* The sectors on the device when the entry is about to be written are those
\* of the file.
LEMMA EntryFacts ==
  ASSUME IInv, pc = "sync_entry"
  PROVE  /\ W = disk.sec /\ disk.chain = mem.chain /\ disk \in Device /\ mem \in MemT /\ fp \in FileT
         /\ SizedOn(fp.size, mem, disk) /\ job \in JobT /\ pc \in Syncing /\ pc # "idle"
  <1>1. ~fp.dirty /\ mem.win # "fat"
    BY DEF IInv, Buffered, Cached
  <1> QED BY <1>1 DEF IInv, Typed, W, Flushed, Cached, CachedOn, Sized, Syncing

\* What the device holds when fff_write answers OK.
LEMMA WriteDurable ==
  ASSUME IInv, Next, Answers("write")
  PROVE  /\ \A c \in Span(job) : CellOn(disk', c) = job.val
         /\ \A c \in Cells \ Span(job) : CellOn(base, c) # Lost => CellOn(disk', c) = CellOn(base, c)
         /\ disk'.sec[0].hdr.lsize = job.off + job.len
  <1>1. /\ pc = "sync_entry" /\ job.op = "write" /\ job.ret = "OK"
        /\ disk' = [disk EXCEPT !.size = fp.size]
    BY AnswersFacts
  <1>2. /\ W = disk.sec /\ disk.chain = mem.chain /\ disk \in Device /\ mem \in MemT /\ fp \in FileT
        /\ SizedOn(fp.size, mem, disk) /\ job \in JobT /\ pc \in Syncing /\ pc # "idle"
    BY <1>1, EntryFacts
  <1>3. disk'.sec = W /\ disk'.size = fp.size /\ disk'.chain = mem.chain
    BY <1>1, <1>2 DEF Device
  <1>4. /\ W[0].hdr = [nonce |-> job.hdr.nonce, lsize |-> job.off + job.len]
        /\ job.hdr.nonce # 0 /\ job.blk = LastBlock(job) + 1
    BY <1>1, <1>2 DEF IInv, Headed
  <1>5. /\ First(job) \in Nat /\ LastBlock(job) \in Nat /\ First(job) <= LastBlock(job)
        /\ LastBlock(job) < Blocks /\ job.off \in Nat /\ job.len \in Nat /\ job.len >= 1
        /\ job.off + job.len <= 2 * Blocks
    BY <1>1, <1>2, JobFacts DEF IInv, Flow
  <1>6. fp.size \in Nat /\ mem.chain \in Nat
    BY <1>2, FileFacts, MemFacts
  <1>7. WrittenUpTo(Req(job), job.hdr.nonce, W, job.blk, fp.size, mem.chain)
    BY <1>1, <1>2 DEF IInv, Done
  <1>8. ASSUME NEW k \in Nat, fp.size >= End(k), mem.chain >= k + 2,
               Authentic(W[0].hdr.nonce, k, W[k].head, W[k + 1].tail)
        PROVE  Opens(disk', k)
    <2>1. End(k) >= 1 /\ k + 2 >= 1 /\ End(k) \in Nat
      BY Positions
    <2>2. fp.size >= 1 /\ mem.chain >= 1
      BY <1>6, <1>8, <2>1
    <2>3. ClustersFor(End(k)) = k + 2
      BY ClusterCounts
    <2>4. HasHeader(disk')
      BY <1>3, <1>4, <2>2 DEF HasHeader
    <2> QED BY <1>3, <1>8, <2>3, <2>4 DEF Opens
  <1>9. ASSUME NEW c \in Span(job)
        PROVE  CellOn(disk', c) = job.val
    <2> DEFINE k == BlockOf(c)
    <2>1. c \in Nat /\ c >= job.off /\ c <= job.off + job.len - 1
      BY <1>5 DEF Span
    <2>2. /\ k \in Nat
          /\ c % 2 = 0 => c = 2 * k
          /\ c % 2 # 0 => c = 2 * k + 1
      BY <2>1, CellFacts
    <2>3. k \in First(job) .. job.blk - 1
      <3>1. First(job) <= k /\ k <= LastBlock(job)
        <4>1. \A a, b \in Nat : a <= b => BlockOf(a) <= BlockOf(b)
          BY DEF BlockOf
        <4>2. job.off + job.len - 1 \in Nat
          BY <1>5
        <4> QED BY <1>5, <2>1, <4>1, <4>2 DEF First, LastBlock
      <3> QED BY <1>4, <1>5, <2>2, <3>1
    <2>4. CellOn(disk', c) = IF ~Opens(disk', k) THEN Lost
                             ELSE IF c % 2 = 0 THEN disk'.sec[k].head.a ELSE disk'.sec[k + 1].tail.b
      BY DEF CellOn
    <2> HIDE DEF k
    <2>5. Written(Req(job), job.hdr.nonce, W, k) /\ End(k) <= fp.size /\ k + 2 <= mem.chain
      BY <1>7, <2>3, ReqFacts DEF WrittenUpTo
    <2>6. Authentic(W[0].hdr.nonce, k, W[k].head, W[k + 1].tail)
      BY <1>4, <2>5 DEF Written, Authentic
    <2>7. Opens(disk', k)
      <3>1. End(k) \in Nat
        BY <2>2, Positions
      <3> QED BY <1>6, <1>8, <2>2, <2>5, <2>6, <3>1
    <2>8. c % 2 = 0 => W[k].head.a = job.val
      BY <2>2, <2>5, ReqFacts DEF Written
    <2>9. c % 2 # 0 => W[k + 1].tail.b = job.val
      BY <2>2, <2>5, ReqFacts DEF Written
    <2> QED BY <1>3, <2>4, <2>7, <2>8, <2>9
  <1>10. ASSUME NEW c \in Cells \ Span(job), CellOn(base, c) # Lost
         PROVE  CellOn(disk', c) = CellOn(base, c)
    <2> DEFINE k == BlockOf(c)
    <2>1. c \in Nat /\ c < 2 * Blocks
      BY SectorAssumption DEF Cells
    <2>2. /\ k \in Nat /\ k \in BlockSet
          /\ c % 2 = 0 => c = 2 * k
          /\ c % 2 # 0 => c = 2 * k + 1
      BY <2>1, CellFacts
    <2>3. /\ CellOn(disk', c) = IF ~Opens(disk', k) THEN Lost
                                ELSE IF c % 2 = 0 THEN disk'.sec[k].head.a ELSE disk'.sec[k + 1].tail.b
          /\ CellOn(base, c) = IF ~Opens(base, k) THEN Lost
                               ELSE IF c % 2 = 0 THEN base.sec[k].head.a ELSE base.sec[k + 1].tail.b
      BY DEF CellOn
    <2> HIDE DEF k
    <2>4. Opens(base, k) /\ k \in Openable(base)
      BY <1>10, <2>2, <2>3 DEF Openable
    <2>5. HasHeader(base) /\ Authentic(base.sec[0].hdr.nonce, k, base.sec[k].head, base.sec[k + 1].tail)
      BY <2>4, OpenableFacts
    <2>6. Keeps
      BY <1>1, <2>5 DEF Keeps
    <2>7. /\ KeptHeader /\ KeptRoom /\ KeptParts
      BY <2>6 DEF IInv, Kept
    <2>8. /\ W[0].hdr.nonce = base.sec[0].hdr.nonce
          /\ End(k) <= fp.size /\ k + 2 <= mem.chain
      BY <1>2, <2>4, <2>7 DEF KeptHeader, HdrKept, KeptRoom, Room
    <2>9. InFile(base, Req(job), W, job.blk, FALSE)
      <3>1. ~(pc \in Syncing /\ job.ret = "EIO")
        BY <1>1
      <3> QED BY <1>2, <2>7, <3>1 DEF KeptParts, InFile
    <2>10. IsOld(base, W, k) \/ IsNew(base, Req(job), W, k)
      <3>1. \/ k < First(Req(job)) \/ k > job.blk
            \/ First(Req(job)) <= k /\ k < job.blk
            \/ k = job.blk
        BY <1>4, <1>5, <2>2, ReqFacts
      <3> QED BY <2>4, <2>9, <3>1 DEF InFile, IsOld
    <2>11. /\ Authentic(W[0].hdr.nonce, k, W[k].head, W[k + 1].tail)
           /\ c % 2 = 0 => W[k].head.a = base.sec[k].head.a
           /\ c % 2 # 0 => W[k + 1].tail.b = base.sec[k + 1].tail.b
      <3>1. CASE IsOld(base, W, k)
        BY <2>5, <2>8, <3>1 DEF IsOld
      <3>2. CASE IsNew(base, Req(job), W, k)
        <4>1. /\ W[k].head = HeadOf(base, Req(job), k) /\ W[k + 1].tail = TailOf(base, Req(job), k)
          BY <3>2 DEF IsNew
        <4>2. c % 2 = 0 => CellA(base, Req(job), k) = base.sec[k + 1].tail.a
          BY <2>2, ReqFacts DEF CellA
        <4>3. c % 2 # 0 => CellB(base, Req(job), k) = base.sec[k + 1].tail.b
          BY <2>2, ReqFacts DEF CellB
        <4>4. base.sec[k].head.a = base.sec[k + 1].tail.a /\ base.sec[0].hdr.nonce # 0
          BY <2>5 DEF Authentic
        <4> QED BY <2>8, <4>1, <4>2, <4>3, <4>4 DEF HeadOf, TailOf, Authentic
      <3> QED BY <2>10, <3>1, <3>2
    <2>12. Opens(disk', k)
      <3>1. End(k) \in Nat
        BY <2>2, Positions
      <3> QED BY <1>6, <1>8, <2>2, <2>8, <2>11, <3>1
    <2> QED BY <1>3, <2>3, <2>4, <2>11, <2>12
  <1>11. disk'.sec[0].hdr.lsize = job.off + job.len
    BY <1>3, <1>4
  <1> QED BY <1>9, <1>10, <1>11

\* What it holds when fff_truncate does.
LEMMA TruncateDurable ==
  ASSUME IInv, Next, Answers("truncate")
  PROVE  /\ disk'.size = 1 /\ HasHeader(disk')
         /\ disk'.sec[0].hdr.lsize = job.len
  <1>1. /\ pc = "sync_entry" /\ job.op = "truncate" /\ job.ret = "OK"
        /\ disk' = [disk EXCEPT !.size = fp.size]
    BY AnswersFacts
  <1>2. /\ W = disk.sec /\ disk.chain = mem.chain /\ disk \in Device /\ mem \in MemT /\ fp \in FileT
        /\ SizedOn(fp.size, mem, disk) /\ job \in JobT /\ pc \in Syncing /\ pc # "idle"
    BY <1>1, EntryFacts
  <1>3. disk'.sec = W /\ disk'.size = fp.size /\ disk'.chain = mem.chain
    BY <1>1, <1>2 DEF Device
  <1>4. W[0].hdr.nonce # 0 /\ W[0].hdr.lsize = job.len /\ fp.size = 1
    BY <1>1, <1>2 DEF IInv, Headed
  <1>5. mem.chain >= 1
    BY <1>2, <1>4 DEF SizedOn
  <1> QED BY <1>3, <1>4, <1>5 DEF HasHeader

\* An answer OK to fff_write or fff_truncate means that the device has it:
\* every cell of the request, the cells around it and the logical size,
\* whatever failed and was retried on the way.
THEOREM AnswersDurable == Spec => DurableWhenAnswered
  <1> DEFINE D ==
        /\ Answers("write") =>
             /\ \A c \in Span(job) : CellOn(disk', c) = job.val
             /\ \A c \in Cells \ Span(job) :
                  CellOn(base, c) # Lost => CellOn(disk', c) = CellOn(base, c)
             /\ disk'.sec[0].hdr.lsize = job.off + job.len
        /\ Answers("truncate") =>
             /\ disk'.size = 1 /\ HasHeader(disk')
             /\ disk'.sec[0].hdr.lsize = job.len
  <1>1. ASSUME IInv, Next PROVE D
    BY <1>1, WriteDurable, TruncateDurable
  <1>2. IInv /\ [Next]_vars => [D]_vars
    BY <1>1
  <1> QED BY <1>2, Invariant, PTL DEF Spec, DurableWhenAnswered

============================================================================
