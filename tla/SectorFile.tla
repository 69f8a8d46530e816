---------------------------- MODULE SectorFile -----------------------------
(***************************************************************************)
(* One encrypted file as FatFs moves it to the device: the sectors of its  *)
(* clusters, the size in its directory entry, its chain in the FAT, the    *)
(* sector window of the volume and the sector buffer of the open file.     *)
(* The device is opened with O_SYNC, so a sector is durable when its write *)
(* returns, in the order of the writes; it can fail, and the power can go  *)
(* between any two of them.  Handlers hold the global mutex (module        *)
(* FuseDispatch), so one request is in progress at a time.                 *)
(*                                                                         *)
(* Block k starts in sector k and ends in sector k+1: 41 bytes of header   *)
(* push it off the sector boundary.  A sector is therefore two parts, the  *)
(* first 41 bytes (the header in sector 0, elsewhere the end of a block)   *)
(* and the rest (the start of the next block).  Positions count parts:     *)
(* 2*s is the start of sector s, 2*k+1 the start of block k.  A block's    *)
(* plaintext is two cells, <<a, b>>: a is what lies in sector k (471       *)
(* bytes), b what lies in sector k+1 (25 bytes, followed by the tag, which *)
(* covers both).                                                           *)
(***************************************************************************)
EXTENDS Integers, FiniteSets

CONSTANTS
  Blocks,       (* blocks the file may grow to                              *)
  Values,       (* cell contents a client writes, all different from Zero   *)
  Cuts,         (* logical sizes requested by truncate                      *)
  MaxNonce,     (* bound: headers created                                   *)
  MaxRequests,  (* bound: requests                                          *)
  MaxFaults,    (* bound: device accesses that fail                         *)
  MaxCrashes    (* bound: power losses                                      *)

Zero == 0

ASSUME SectorAssumption ==
  /\ Blocks \in Nat \ {0}
  /\ Values \subseteq Nat \ {Zero} /\ Cuts \subseteq Nat
  /\ MaxNonce \in Nat /\ MaxRequests \in Nat
  /\ MaxFaults \in Nat /\ MaxCrashes \in Nat

VARIABLES
  disk,     (* what is on the device: sectors, size in the entry, chain     *)
  mem,      (* the entry's size and the chain as FatFs sees them, and what  *)
            (* the window holds that is not on the device yet               *)
  fp,       (* the open file: FIL                                           *)
  job,      (* the request in progress                                      *)
  pc,       (* the next call it makes                                       *)
  nonce,    (* base nonces drawn                                            *)
  reply,    (* the last answer                                              *)
  requests, (* requests so far                                              *)
  faults,   (* device accesses that have failed                             *)
  crashes,  (* power losses so far                                          *)
  base      (* history: the device when the last request opened the file    *)

vars == <<disk, mem, fp, job, pc, nonce, reply, requests, faults, crashes, base>>

Sectors == 0 .. Blocks
NoSector == Blocks + 1
Cell == Values \cup {Zero}
Cells == 0 .. 2 * Blocks - 1

Start(k) == 2 * k + 1
End(k) == 2 * k + 3
BlockOf(c) == c \div 2

\* Mutant: one cluster too many.
ClustersForOneMore(pos) == (pos + 3) \div 2

\* Clusters a file of pos parts takes; a cluster is one sector here.
ClustersFor(pos) == (pos + 1) \div 2

MaxOf(a, b) == IF a >= b THEN a ELSE b

NoHeader == [nonce |-> 0, lsize |-> 0]
NoHead == [nonce |-> 0, idx |-> 0, a |-> Zero]
NoTail == [nonce |-> 0, idx |-> 0, a |-> Zero, b |-> Zero]
JunkSector == [hdr |-> NoHeader, head |-> NoHead, tail |-> NoTail]

Closed == [size |-> 0, sect |-> NoSector, buf |-> JunkSector, dirty |-> FALSE,
           modified |-> FALSE, err |-> FALSE]

\* f_open, for the size found in the directory entry.
Opened(n) == [Closed EXCEPT !.size = n]

Job(op, off, len, val) ==
  [op |-> op, off |-> off, len |-> len, val |-> val, blk |-> BlockOf(off),
   hdr |-> NoHeader, old |-> <<Zero, Zero>>, res |-> "FR_OK", ret |-> "OK"]

Span(j) == j.off .. j.off + j.len - 1
LastBlock(j) == BlockOf(j.off + j.len - 1)
-----------------------------------------------------------------------------
(* The file's sector buffer.                                               *)

\* The outcome of a call: whether it returned FR_OK, whether a device access
\* failed in it, and the file and the device after it.
Outcome(ok, fault, f, d) == [ok |-> ok, fault |-> fault, fp |-> f, disk |-> d]

\* Mutant: the error is returned but not kept in fp->err.
AbortForgets(f) == f

\* ABORT: fp->err makes every later f_lseek, f_read and f_write fail.
Abort(f) == [f EXCEPT !.err = TRUE]

Flushed(f, d) == IF f.dirty THEN [d EXCEPT !.sec[f.sect] = f.buf] ELSE d

\* The device reports a failed write: it holds the old sector or the new one.
FlushFails(f, d) ==
  IF f.dirty THEN {Outcome(FALSE, TRUE, Abort(f), x) : x \in {d, Flushed(f, d)}} ELSE {}

\* f_lseek, f_read, f_write: write the dirty buffer back and read sector s.
Move(f, d, s) ==
  IF f.err THEN {Outcome(FALSE, FALSE, f, d)}
  ELSE IF f.sect = s THEN {Outcome(TRUE, FALSE, f, d)}
  ELSE LET w == Flushed(f, d)
           clean == [f EXCEPT !.dirty = FALSE]
       IN  {Outcome(TRUE, FALSE, [clean EXCEPT !.sect = s, !.buf = w.sec[s]], w),
            Outcome(FALSE, TRUE, Abort(clean), w)}
           \cup FlushFails(f, d)

\* create_chain: the chain as long as a file of pos parts needs.  The FAT
\* sector comes into the window, which is written back first if it holds the
\* directory entry.  A cluster that is added keeps what it last held: the
\* sector a cut or a crash took out of this file, or something else.
Linked(m, d, pos) ==
  LET n == ClustersFor(pos)
      v == IF m.win = "ent" THEN [d EXCEPT !.size = m.size] ELSE d
  IN  IF n <= m.chain
        THEN {[mem |-> m, disk |-> d],
              [mem |-> [m EXCEPT !.win = IF @ = "ent" THEN "clean" ELSE @], disk |-> v]}
        ELSE {[mem |-> [m EXCEPT !.chain = n, !.win = "fat"], disk |-> x] :
                x \in {v, [v EXCEPT !.sec =
                             [s \in Sectors |-> IF s \in m.chain .. n - 1
                                                  THEN JunkSector ELSE v.sec[s]]]}}

\* f_lseek in write mode makes the file longer when it goes past its end.
Extended(f, pos) ==
  IF pos <= f.size THEN f ELSE [f EXCEPT !.size = pos, !.modified = TRUE]

\* Whether block k opens under nonce n, given the parts in two sectors.
Authentic(n, k, head, tail) ==
  /\ n # 0 /\ head.nonce = n /\ tail.nonce = n
  /\ head.idx = k /\ tail.idx = k
  /\ tail.a = head.a
-----------------------------------------------------------------------------
(* How a call leaves the request: it goes on, or it answers with an error  *)
(* and closes the file, which syncs it all the same.                       *)

Take(o) ==
  /\ o.fault => faults < MaxFaults
  /\ faults' = IF o.fault THEN faults + 1 ELSE faults
  /\ fp' = o.fp
  /\ disk' = o.disk

GoOn(j, next) == job' = j /\ pc' = next

Fail == GoOn([job EXCEPT !.ret = "EIO"], "sync")

NoAnswer == UNCHANGED <<nonce, reply, requests, crashes, base>>

\* f_open: finding the file moves the window to the directory, which writes
\* back a FAT sector an earlier request left dirty.
Open(j, first) ==
  /\ pc = "idle"
  /\ requests < MaxRequests /\ requests' = requests + 1
  /\ crashes' = crashes /\ nonce' = nonce
  /\ LET d == IF mem.win = "fat" THEN [disk EXCEPT !.chain = mem.chain] ELSE disk IN
     \/ /\ disk' = d /\ base' = d
        /\ mem' = [mem EXCEPT !.win = IF @ = "fat" THEN "clean" ELSE @]
        /\ fp' = Opened(mem.size)
        /\ GoOn(j, first)
        /\ UNCHANGED <<reply, faults>>
     \/ /\ mem.win = "fat" /\ faults < MaxFaults
        /\ faults' = faults + 1
        /\ reply' = [op |-> j.op, ret |-> "EIO", n |-> 0]
        /\ disk' \in {disk, d}
        /\ UNCHANGED <<mem, fp, job, pc, base>>

fff_write(off, len, v) == Open(Job("write", off, len, v), "f_crypt_lseek")

fff_truncate(size) == Open(Job("truncate", 0, size, Zero), "truncate_header")

\* f_lseek to the start of the block at hand.
SeekBlock(at, next) ==
  /\ pc = at
  /\ NoAnswer
  /\ IF fp.err THEN Fail /\ UNCHANGED <<fp, disk, mem, faults>>
     ELSE \E g \in Linked(mem, disk, Start(job.blk)) :
          \E o \in Move(Extended(fp, Start(job.blk)), g.disk, job.blk) :
            /\ Take(o)
            /\ mem' = g.mem
            /\ IF o.ok THEN GoOn(job, next) ELSE Fail

f_crypt_lseek == SeekBlock("f_crypt_lseek", "parse_fatcrypt_header")

\* Any error reading the magic is reported as FR_NO_HEADER.
parse_fatcrypt_header ==
  /\ pc = "parse_fatcrypt_header"
  /\ NoAnswer /\ mem' = mem
  /\ \E o \in Move(fp, disk, 0) :
       LET h == o.fp.buf.hdr IN
       /\ Take(o)
       /\ GoOn(IF o.ok /\ h.nonce # 0 THEN [job EXCEPT !.res = "FR_OK", !.hdr = h]
               ELSE IF ~o.ok \/ fp.size <= 1 THEN [job EXCEPT !.res = "FR_NO_HEADER"]
               ELSE [job EXCEPT !.res = "FR_BAD_HEADER"],
               "parsed")

\* parse_fatcrypt_header and write_fatcrypt_header end with f_lseek(old_pos)
\* and ignore its result.
SeekBack(at, s) ==
  /\ pc = at
  /\ NoAnswer /\ mem' = mem
  /\ \E o \in Move(fp, disk, s) : Take(o)

parsed ==
  /\ SeekBack("parsed", job.blk)
  /\ \/ job.res = "FR_OK" /\ GoOn(job, "seek")
     \/ job.res = "FR_NO_HEADER" /\ GoOn(job, "write_fatcrypt_header")
     \/ job.res = "FR_BAD_HEADER" /\ Fail

NewHeader == [nonce |-> nonce + 1, lsize |-> 0]

\* init_fatcrypt_header and the f_write of write_fatcrypt_header, with the
\* buffer on sector 0; an empty file has nothing to read into it.
PutHeader(next) ==
  /\ UNCHANGED <<reply, requests, crashes, base>>
  /\ \/ /\ nonce < MaxNonce
        /\ nonce' = nonce + 1
        /\ \E g \in Linked(mem, disk, 1) :
           \E o \in IF fp.size = 0
                      THEN {Outcome(TRUE, FALSE, [fp EXCEPT !.sect = 0], g.disk)}
                      ELSE Move(fp, g.disk, 0) :
             /\ mem' = g.mem
             /\ IF o.ok
                  THEN /\ Take([o EXCEPT !.fp.buf.hdr = NewHeader, !.fp.dirty = TRUE,
                                         !.fp.modified = TRUE,
                                         !.fp.size = MaxOf(@, 1)])
                       /\ GoOn([job EXCEPT !.hdr = NewHeader], next)
                  ELSE Take(o) /\ Fail
     \/ /\ Fail                                  \* no random bytes
        /\ UNCHANGED <<nonce, fp, disk, mem, faults>>

write_fatcrypt_header ==
  /\ pc = "write_fatcrypt_header"
  /\ PutHeader("header_written")

header_written ==
  /\ SeekBack("header_written", job.blk)
  /\ GoOn(job, "seek")

\* The write loop: its first f_lseek.
Whole(j) == {2 * j.blk, 2 * j.blk + 1} \subseteq Span(j)

seek == SeekBlock("seek", IF Whole(job) THEN "put_block" ELSE "read_block")

\* The block read back for a partial write.  A block that cannot be read or
\* does not decrypt counts as zeros.  A cut of the chain that was not followed
\* by the directory entry leaves sectors of the file without a cluster.
Plaintext(f, head, tail, k) ==
  IF f.size >= End(k) /\ Authentic(job.hdr.nonce, k, head, tail)
    THEN <<tail.a, tail.b>> ELSE <<Zero, Zero>>

read_block ==
  /\ pc = "read_block"
  /\ NoAnswer /\ mem' = mem
  /\ IF fp.size <= Start(job.blk) + 1
       THEN /\ GoOn([job EXCEPT !.old = <<Zero, Zero>>], "seek_again")
            /\ UNCHANGED <<fp, disk, faults>>
       ELSE \E o \in IF job.blk + 1 < mem.chain THEN Move(fp, disk, job.blk + 1)
                     ELSE {Outcome(FALSE, FALSE, Abort(fp), disk)} :
              /\ Take(o)
              /\ GoOn([job EXCEPT !.old =
                         IF o.ok THEN Plaintext(fp, fp.buf.head, o.fp.buf.tail, job.blk)
                                 ELSE <<Zero, Zero>>],
                      "seek_again")

\* f_lseek(fp, sector_start), its result ignored as well.
seek_again ==
  /\ SeekBack("seek_again", job.blk)
  /\ GoOn(job, "put_block")

NewCell(j, c) == IF c \in Span(j) THEN j.val ELSE j.old[1 + (c % 2)]
NewA(j) == NewCell(j, 2 * j.blk)
NewB(j) == NewCell(j, 2 * j.blk + 1)
NewHead(j) == [nonce |-> j.hdr.nonce, idx |-> j.blk, a |-> NewA(j)]
NewTail(j) == [nonce |-> j.hdr.nonce, idx |-> j.blk, a |-> NewA(j), b |-> NewB(j)]

\* f_write of the encrypted block: the start of it goes to the buffer, the
\* sector to the device, and the end of it to the buffer of the next sector,
\* which is read only if it is inside the file.
PutBlock(j, f, d) ==
  LET k  == j.blk
      f1 == [f EXCEPT !.buf.head = NewHead(j), !.dirty = TRUE,
                      !.size = MaxOf(@, Start(k) + 1)]
      next == IF f1.size > Start(k) + 1 THEN Move(f1, d, k + 1)
              ELSE {Outcome(TRUE, FALSE, [f1 EXCEPT !.sect = k + 1], Flushed(f1, d))}
                   \cup FlushFails(f1, d)
      WithEnd(g) == [g EXCEPT !.buf.tail = NewTail(j), !.dirty = TRUE, !.modified = TRUE,
                             !.size = MaxOf(@, End(k))]
  IN  {IF o.ok THEN [o EXCEPT !.fp = WithEnd(@)] ELSE o : o \in next}

AfterBlock(j) ==
  IF j.blk < LastBlock(j) THEN "seek"
  ELSE IF j.hdr.lsize # j.off + j.len THEN "update_fatcrypt_header_lsize" ELSE "sync"

put_block ==
  /\ pc = "put_block"
  /\ NoAnswer
  /\ IF fp.err THEN Fail /\ UNCHANGED <<fp, disk, mem, faults>>
     ELSE \E g \in Linked(mem, disk, End(job.blk)) : \E o \in PutBlock(job, fp, g.disk) :
            /\ Take(o)
            /\ mem' = g.mem
            /\ IF o.ok THEN GoOn([job EXCEPT !.blk = @ + 1], AfterBlock(job)) ELSE Fail

\* f_lseek into sector 0 and f_write of the size.
PutLsize(at, next) ==
  /\ pc = at
  /\ NoAnswer /\ mem' = mem
  /\ \E o \in Move(fp, disk, 0) :
       IF o.ok
         THEN /\ Take([o EXCEPT !.fp.buf.hdr.lsize = job.off + job.len,
                                !.fp.dirty = TRUE, !.fp.modified = TRUE])
              /\ GoOn(job, next)
         ELSE Take(o) /\ Fail

update_fatcrypt_header_lsize ==
  PutLsize("update_fatcrypt_header_lsize", "lsize_written")

\* Back to the end of the last block; the result is ignored again.
lsize_written ==
  /\ SeekBack("lsize_written", job.blk)
  /\ GoOn(job, "sync")
-----------------------------------------------------------------------------
(* f_crypt_truncate, which never sees the header because the file is open  *)
(* for writing only.                                                       *)

truncate_header ==
  /\ pc = "truncate_header"
  /\ PutHeader("f_truncate")

\* f_lseek after the header and f_truncate: the chain is cut in the window,
\* then the buffer with the new header is written.
f_truncate ==
  /\ pc = "f_truncate"
  /\ NoAnswer
  /\ IF fp.size <= 1
       THEN GoOn(job, "truncate_lsize") /\ UNCHANGED <<fp, disk, mem, faults>>
       ELSE LET cuts == mem.chain > 1
                d == IF mem.win = "ent" THEN [disk EXCEPT !.size = mem.size] ELSE disk
                f == [fp EXCEPT !.size = 1, !.modified = TRUE]
            IN  /\ mem' = [mem EXCEPT !.chain = 1,
                                  !.win = IF cuts THEN "fat"
                                          ELSE IF @ = "ent" THEN "clean" ELSE @]
                /\ \E o \in {Outcome(TRUE, FALSE, [f EXCEPT !.dirty = FALSE], Flushed(f, d))}
                            \cup FlushFails(f, d) :
                     Take(o) /\ IF o.ok THEN GoOn(job, "truncate_lsize") ELSE Fail

truncate_lsize == PutLsize("truncate_lsize", "sync")
-----------------------------------------------------------------------------
(* f_sync and f_close.  An error in the f_sync of fff_write is followed by *)
(* f_close, which tries the whole of it again.                             *)

Finish(ret) ==
  /\ pc' = "idle"
  /\ fp' = Closed
  /\ job' = Job(job.op, job.off, job.len, job.val)
  /\ reply' = [op |-> job.op, ret |-> ret, n |-> job.len]
  /\ UNCHANGED <<nonce, requests, crashes, base>>

\* Mutant: an error of f_sync is not reported.
SyncFailsQuietly(f) ==
  /\ faults < MaxFaults /\ faults' = faults + 1
  /\ Finish(job.ret)

SyncFails(f) ==
  /\ faults < MaxFaults /\ faults' = faults + 1
  /\ IF job.op = "write" /\ job.ret = "OK" THEN fp' = f /\ Fail /\ NoAnswer
                                           ELSE Finish("EIO")

Synced(f, next) == fp' = f /\ GoOn(job, next) /\ NoAnswer /\ faults' = faults

\* The sector buffer.
SyncBuffer ==
  /\ pc = "sync"
  /\ mem' = mem
  /\ \/ /\ ~fp.modified
        /\ Finish(job.ret)
        /\ UNCHANGED <<disk, faults>>
     \/ /\ fp.modified
        /\ disk' = Flushed(fp, disk)
        /\ Synced([fp EXCEPT !.dirty = FALSE], "sync_fat")
     \/ /\ fp.modified /\ fp.dirty
        /\ disk' \in {disk, Flushed(fp, disk)}
        /\ SyncFails(fp)

\* Mutant: the directory entry is written before the FAT sector.
SyncFatLater ==
  /\ pc = "sync_fat"
  /\ Synced(fp, "sync_entry")
  /\ UNCHANGED <<disk, mem>>

\* move_window to the sector of the directory entry: a dirty FAT sector goes
\* to the device.
SyncFat ==
  LET d == IF mem.win = "fat" THEN [disk EXCEPT !.chain = mem.chain] ELSE disk IN
  /\ pc = "sync_fat"
  /\ \/ /\ disk' = d
        /\ mem' = [mem EXCEPT !.win = IF @ = "fat" THEN "clean" ELSE @]
        /\ Synced(fp, "sync_entry")
     \/ /\ mem.win = "fat"
        /\ disk' \in {disk, d} /\ mem' = mem
        /\ SyncFails(fp)

\* The directory entry and sync_fs.  FA_MODIFIED is cleared even if the write
\* fails; the entry then stays in the window.
SyncEntry ==
  LET d == [disk EXCEPT !.size = fp.size] IN
  /\ pc = "sync_entry"
  /\ \/ /\ disk' = d
        /\ mem' = [mem EXCEPT !.size = fp.size, !.win = "clean"]
        /\ Finish(job.ret) /\ faults' = faults
     \/ /\ disk' \in {disk, d}
        /\ mem' = [mem EXCEPT !.size = fp.size, !.win = "ent"]
        /\ SyncFails([fp EXCEPT !.modified = FALSE])

\* A request on another file moves the window, too.
OtherRequest ==
  /\ pc = "idle" /\ mem.win # "clean"
  /\ disk' = IF mem.win = "fat" THEN [disk EXCEPT !.chain = mem.chain]
                                ELSE [disk EXCEPT !.size = mem.size]
  /\ mem' = [mem EXCEPT !.win = "clean"]
  /\ reply' = [op |-> "other", ret |-> "OK", n |-> 0]
  /\ UNCHANGED <<fp, job, pc, nonce, requests, faults, crashes, base>>

\* The chain is reached through the entry, which has a first cluster exactly
\* when it has a size.
PowerLoss ==
  /\ crashes < MaxCrashes /\ crashes' = crashes + 1
  /\ mem' = [size |-> disk.size, chain |-> IF disk.size = 0 THEN 0 ELSE disk.chain,
             win |-> "clean"]
  /\ fp' = Closed
  /\ job' = Job(job.op, job.off, job.len, job.val)
  /\ pc' = "idle"
  /\ reply' = [op |-> "crash", ret |-> "OK", n |-> 0]
  /\ disk' = [disk EXCEPT !.chain = IF disk.size = 0 THEN 0 ELSE @]
  /\ UNCHANGED <<nonce, requests, faults, base>>
-----------------------------------------------------------------------------
Init ==
  /\ disk = [sec |-> [s \in Sectors |-> JunkSector], size |-> 0, chain |-> 0]
  /\ mem = [size |-> 0, chain |-> 0, win |-> "clean"]
  /\ fp = Closed
  /\ job = Job("none", 0, 0, Zero)
  /\ pc = "idle"
  /\ nonce = 0 /\ requests = 0 /\ faults = 0 /\ crashes = 0
  /\ reply = [op |-> "none", ret |-> "OK", n |-> 0]
  /\ base = disk

Handler ==
  \/ f_crypt_lseek \/ parse_fatcrypt_header \/ parsed
  \/ write_fatcrypt_header \/ header_written
  \/ seek \/ read_block \/ seek_again \/ put_block
  \/ update_fatcrypt_header_lsize \/ lsize_written
  \/ truncate_header \/ f_truncate \/ truncate_lsize
  \/ SyncBuffer \/ SyncFat \/ SyncEntry

Next ==
  \/ \E off \in Cells, v \in Values : \E len \in 1 .. 2 * Blocks - off :
       fff_write(off, len, v)
  \/ \E size \in Cuts : fff_truncate(size)
  \/ Handler
  \/ OtherRequest
  \/ PowerLoss

Spec == Init /\ [][Next]_vars
-----------------------------------------------------------------------------
(* Properties.  They are about the device alone: what it holds at a moment *)
(* is what a client finds after a power loss at that moment.               *)

HasHeader(d) == d.size >= 1 /\ d.chain >= 1 /\ d.sec[0].hdr.nonce # 0

Opens(d, k) ==
  /\ HasHeader(d)
  /\ d.size >= End(k) /\ d.chain >= ClustersFor(End(k))
  /\ Authentic(d.sec[0].hdr.nonce, k, d.sec[k].head, d.sec[k + 1].tail)

Lost == -1

CellOn(d, c) ==
  IF ~Opens(d, BlockOf(c)) THEN Lost
  ELSE IF c % 2 = 0 THEN d.sec[BlockOf(c)].head.a ELSE d.sec[BlockOf(c) + 1].tail.b

Sector ==
  [hdr : [nonce : 0 .. MaxNonce, lsize : Nat],
   head : [nonce : 0 .. MaxNonce, idx : Nat, a : Cell],
   tail : [nonce : 0 .. MaxNonce, idx : Nat, a : Cell, b : Cell]]

Device == [sec : [Sectors -> Sector], size : 0 .. End(Blocks - 1), chain : 0 .. Blocks + 1]

\* Every variable has its type; the buffer is on a sector of the file when it
\* is dirty.
TypeOK ==
  /\ disk \in Device /\ base \in Device
  /\ mem.size \in 0 .. End(Blocks - 1) /\ mem.chain \in 0 .. Blocks + 1
  /\ mem.win \in {"clean", "fat", "ent"}
  /\ fp.size \in 0 .. End(Blocks - 1) /\ fp.buf \in Sector
  /\ fp.sect \in Sectors \cup {NoSector} /\ (fp.dirty => fp.sect \in Sectors)
  /\ nonce \in 0 .. MaxNonce /\ requests \in 0 .. MaxRequests
  /\ faults \in 0 .. MaxFaults /\ crashes \in 0 .. MaxCrashes

Torn == {k \in BlockOf(job.off) .. LastBlock(job) : Opens(base, k) /\ ~Opens(disk, k)}

\* f_crypt_write replaces blocks in place and a block spans two sectors: at
\* every moment of a write, also when device accesses fail in it, at most one
\* block that could be read before is torn, and everything else reads as
\* before or, inside the range, as written.
WriteTearsOneBlock ==
  job.op = "write" =>
    /\ Cardinality(Torn) <= 1
    /\ \A c \in Cells :
         \/ CellOn(base, c) = Lost
         \/ BlockOf(c) \in Torn
         \/ CellOn(disk, c) = CellOn(base, c)
         \/ c \in Span(job) /\ CellOn(disk, c) = job.val

\* An I/O error while the header is read is taken for a missing header, and a
\* missing header is written anew; fp->err keeps a write from doing so.  At
\* every moment of a write the file keeps the header it had, with the old
\* logical size or the new one.
HeaderSurvivesWrite ==
  job.op = "write" /\ HasHeader(base) =>
    /\ HasHeader(disk)
    /\ disk.sec[0].hdr.nonce = base.sec[0].hdr.nonce
    /\ disk.sec[0].hdr.lsize \in {base.sec[0].hdr.lsize, job.off + job.len}

Answers(op) == pc # "idle" /\ pc' = "idle" /\ reply'.op = op /\ reply'.ret = "OK"

\* fff_write and fff_truncate sync the file before they answer: what a client
\* was told survives a power loss, whatever failed and was retried on the way.
DurableWhenAnswered ==
  [][/\ Answers("write") =>
          /\ \A c \in Span(job) : CellOn(disk', c) = job.val
          /\ \A c \in Cells \ Span(job) : CellOn(base, c) # Lost => CellOn(disk', c) = CellOn(base, c)
          /\ disk'.sec[0].hdr.lsize = job.off + job.len
     /\ Answers("truncate") =>
          /\ disk'.size = 1 /\ HasHeader(disk')
          /\ disk'.sec[0].hdr.lsize = job.len]_vars

\* f_sync writes the FAT before the directory entry: the entry never grows over
\* clusters that are not linked on the device yet.
GrowthLinkedFirst ==
  [][disk'.size > disk.size => ClustersFor(disk'.size) <= disk'.chain]_vars
=============================================================================
