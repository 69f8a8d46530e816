----------------------------- MODULE CryptFile -----------------------------
(***************************************************************************)
(* One file under an encrypted path of a volume mounted read-write with    *)
(* the master key loaded, and the FUSE handlers that act on it.  A handler *)
(* opens the file by path, works and closes it again under the global      *)
(* mutex (module FuseDispatch), so it is one atomic action here.           *)
(*                                                                         *)
(* The file image keeps what the handlers can tell apart: the size in the  *)
(* directory entry, the header if the first bytes are one, and in each     *)
(* slot the block that was encrypted there, if those bytes are one.  A     *)
(* nonce of 0 marks bytes that are no header and no ciphertext (junk).     *)
(***************************************************************************)
EXTENDS CryptLayout, Sequences, FiniteSets

CONSTANTS
  Values,       (* byte values a client writes, all different from Zero     *)
  Offsets,      (* logical offsets of requests                              *)
  Lengths,      (* byte counts of read and write requests                   *)
  Sizes,        (* logical sizes requested by truncate                      *)
  Capacities,   (* bytes the volume's free clusters let the file grow to    *)
  ForeignSizes, (* sizes of a file another FAT implementation left          *)
  MaxNonce,     (* bound: headers created                                   *)
  ReuseDirty,   (* TRUE: clusters are reused with the data they last held   *)
  MaxReleased   (* bound: released images remembered when ReuseDirty        *)

Zero == 0

ASSUME FileAssumption ==
  /\ Values \subseteq Nat \ {Zero}
  /\ Offsets \subseteq Nat /\ Sizes \subseteq Nat
  /\ Lengths \subseteq Nat \ {0}
  /\ Capacities \subseteq Nat
  /\ \A c \in Capacities : c = 0 \/ c >= SectorSize
  /\ ForeignSizes \subseteq 0 .. MaxFileSize
  /\ MaxNonce \in Nat /\ MaxReleased \in Nat /\ ReuseDirty \in BOOLEAN

VARIABLES
  exists,    (* the directory entry is there                               *)
  img,       (* the file image behind it                                   *)
  nonce,     (* base nonces drawn so far; the last one drawn is nonce      *)
  released,  (* images in free clusters (kept only when ReuseDirty)        *)
  reply      (* the last request and its answer                            *)

vars == <<exists, img, nonce, released, reply>>

Byte == Values \cup {Zero}

Header == [nonce : Nat, lsize : Nat]

Plaintext == [0 .. LogicalSector - 1 -> Byte]

Block == [nonce : Nat, idx : Nat, data : Plaintext]

Image == [size : 0 .. MaxFileSize, hdr : Header, blk : [Slots -> Block]]

ZeroBlock == [i \in 0 .. LogicalSector - 1 |-> Zero]

JunkHeader == [nonce |-> 0, lsize |-> 0]

JunkBlock == [nonce |-> 0, idx |-> 0, data |-> ZeroBlock]

JunkImage(n) ==
  [size |-> n, hdr |-> JunkHeader, blk |-> [s \in Slots |-> JunkBlock]]

EmptyFile == JunkImage(0)
-----------------------------------------------------------------------------
(* Positions and growth: FatFs extends a file that is seeked past its end  *)
(* in write mode and does not clear the clusters it adds.                  *)

Whole(s, n) == SlotEnd(s) <= n

\* Bytes a cluster chain of cap bytes and a 32-bit file size leave room for.
Limit(cap) == MinOf(cap, MaxFileSize)

\* f_lseek: the position reached, which is also the new end when beyond it.
LseekTo(p, pos, writing, cap) ==
  IF pos <= p.size THEN pos
  ELSE IF writing THEN MaxOf(p.size, MinOf(pos, Limit(cap))) ELSE p.size

\* The image extended to n bytes.  A cell that comes to lie inside the file
\* holds whatever dirt the clusters hold there.
Grow(p, n, dirt) ==
  IF n <= p.size THEN p
  ELSE [size |-> n,
        hdr  |-> IF p.size = 0 /\ n >= HeaderSize THEN dirt.hdr ELSE p.hdr,
        blk  |-> [s \in Slots |->
                    IF ~Whole(s, p.size) /\ Whole(s, n) THEN dirt.blk[s]
                                                        ELSE p.blk[s]]]

\* What newly allocated clusters may hold: nothing the file system wrote, or
\* some cells of a released file.  Cells of two released files never open
\* under one header, so one image and a subset of its blocks cover the cases.
Remains(a, keep) ==
  [a EXCEPT !.blk = [s \in Slots |-> IF s \in keep THEN a.blk[s] ELSE JunkBlock]]

Dirt ==
  {EmptyFile} \cup
  UNION {{Remains(a, keep) : keep \in SUBSET {s \in Slots : a.blk[s].nonce # 0}} :
           a \in released}

Remember(p) == IF ReuseDirty THEN released \cup {p} ELSE released

CanRelease == ReuseDirty => Cardinality(released) < MaxReleased
-----------------------------------------------------------------------------
(* The header.                                                             *)

\* parse_fatcrypt_header.  A file opened without FA_READ cannot read its
\* magic, which is reported like a missing one.
Parse(p, reading) ==
  IF p.size < HeaderSize \/ ~reading THEN "FR_NO_HEADER"
  ELSE IF p.hdr.nonce # 0 THEN "FR_OK"
  ELSE IF p.size <= HeaderSize THEN "FR_NO_HEADER" ELSE "FR_BAD_HEADER"

HasHeader(p) == Parse(p, TRUE) = "FR_OK"

\* init_fatcrypt_header followed by write_fatcrypt_header.
WithNewHeader(p, n) ==
  [size |-> MaxOf(p.size, HeaderSize),
   hdr  |-> [nonce |-> n, lsize |-> 0],
   blk  |-> p.blk]

\* update_fatcrypt_header_lsize.
WithLsize(p, n) == [p EXCEPT !.hdr.lsize = n]
-----------------------------------------------------------------------------
(* Blocks.                                                                 *)

\* Mutant: the nonce of a block is derived from its index alone.
OpensUnderAnyNonce(p, k) ==
  /\ Whole(Slot(k), p.size)
  /\ p.blk[Slot(k)].nonce # 0
  /\ p.blk[Slot(k)].idx = k

\* f_read returns a whole sector and fatcrypt_decrypt_block authenticates it:
\* it was encrypted under this file's key and for this block index.
Opens(p, k) ==
  /\ Whole(Slot(k), p.size)
  /\ p.blk[Slot(k)].nonce = p.hdr.nonce
  /\ p.blk[Slot(k)].nonce # 0
  /\ p.blk[Slot(k)].idx = k

\* Mutant: a partial block is not read back before it is rewritten.
OldPlaintextZero(p, k) == ZeroBlock

OldPlaintext(p, k) == IF Opens(p, k) THEN p.blk[Slot(k)].data ELSE ZeroBlock

\* The block after read-modify-write of the bytes off .. off+len-1 with v.
Rewritten(p, k, off, len, v) ==
  [nonce |-> p.hdr.nonce,
   idx   |-> k,
   data  |-> [i \in 0 .. LogicalSector - 1 |->
                IF k * LogicalSector + i \in off .. off + len - 1
                  THEN v ELSE OldPlaintext(p, k)[i]]]

Fits(k, cap) == BlockStart(k) + SectorSize <= Limit(cap)

\* Mutant: the length of the short write is not compared with the sector size.
DoneShort(off, len, cap) == Blocks(off, len)

\* The write loop stops at the first block that does not fit.
Done(off, len, cap) ==
  {k \in Blocks(off, len) : \A j \in BlockIdx(off) .. k : Fits(j, cap)}

PutBlocks(p, off, len, v, ks) ==
  [p EXCEPT !.blk =
     [s \in Slots |->
        IF \E k \in ks : Slot(k) = s
          THEN Rewritten(p, CHOOSE k \in ks : Slot(k) = s, off, len, v)
          ELSE p.blk[s]]]

Succeeds(off, len, cap) == Done(off, len, cap) = Blocks(off, len)

\* Mutant: the header is updated before the loop, so a failed write moves it.
WriteBlocksSizeFirst(p, off, len, v, cap) ==
  LET top == IF Succeeds(off, len, cap)
               THEN MaxOf(p.size, BlockStart(BlockIdx(off + len - 1)) + SectorSize)
               ELSE Limit(cap)
  IN  WithLsize(PutBlocks(Grow(p, top, EmptyFile), off, len, v, Done(off, len, cap)),
                off + len)

\* The loop of f_crypt_write and the header update after it.
WriteBlocks(p, off, len, v, cap) ==
  LET last == BlockIdx(off + len - 1)
      top  == IF Succeeds(off, len, cap)
                THEN MaxOf(p.size, BlockStart(last) + SectorSize) ELSE Limit(cap)
      q    == PutBlocks(Grow(p, top, EmptyFile), off, len, v, Done(off, len, cap))
  IN  IF Succeeds(off, len, cap) THEN WithLsize(q, off + len) ELSE q

\* Mutant: the read is not limited to the logical size.
DeliverableUnlimited(p, off, len) == len

\* The bytes f_crypt_read delivers: available_bytes is unsigned, so only a
\* position equal to the logical size counts as the end of the file.
Deliverable(p, off, len) ==
  IF off <= p.hdr.lsize THEN MinOf(len, p.hdr.lsize - off) ELSE len

ByteAt(p, i) == p.blk[Slot(BlockIdx(i))].data[OffsetInSector(i)]
-----------------------------------------------------------------------------
(* Requests.                                                               *)

Request(op, off, len, val) == [op |-> op, off |-> off, len |-> len, val |-> val]

Answer(req, ret, n, data) == [req |-> req, ret |-> ret, n |-> n, data |-> data]

Failed(req, ret) == reply' = Answer(req, ret, 0, <<>>)

NotFound(req) ==
  /\ ~exists
  /\ Failed(req, "ENOENT")
  /\ UNCHANGED <<exists, img, nonce, released>>

\* f_open of a file that is not there fails, or, under O_APPEND (which implies
\* FA_OPEN_ALWAYS), when the directory cannot take the new entry.
OpenFails(req) ==
  /\ ~exists
  /\ \E ret \in {"ENOENT", "EACCES"} : Failed(req, ret)
  /\ UNCHANGED <<exists, img, nonce, released>>

\* The image f_open hands to the rest of the handler; an absent file that is
\* opened is created empty, which O_APPEND allows.
Current == IF exists THEN img ELSE EmptyFile

fff_open ==
  LET req == Request("open", 0, 0, 0) IN
  \/ OpenFails(req)
  \/ /\ exists' = TRUE
     /\ img' = Current
     /\ reply' = Answer(req, "OK", 0, <<>>)
     /\ UNCHANGED <<nonce, released>>

\* flags2ffmode: O_EXCL wins over O_TRUNC.
fff_create(excl, trunc) ==
  LET req == Request("create", 0, 0, 0) IN
  \/ /\ exists /\ excl
     /\ Failed(req, "EEXIST")
     /\ UNCHANGED <<exists, img, nonce, released>>
  \/ /\ ~exists
     /\ Failed(req, "EACCES")
     /\ UNCHANGED <<exists, img, nonce, released>>
  \/ /\ exists => ~excl
     /\ exists' = TRUE
     /\ reply' = Answer(req, "OK", 0, <<>>)
     /\ nonce' = nonce
     /\ \/ /\ exists /\ ~trunc
           /\ UNCHANGED <<img, released>>
        \/ /\ exists => trunc
           /\ exists => CanRelease
           /\ img' = EmptyFile
           /\ released' = IF exists THEN Remember(img) ELSE released

\* The file ends f_lseek may leave, for the capacities the volume may have.
EndsAfterSeek(p, pos, writing) ==
  {MaxOf(p.size, LseekTo(p, pos, writing, cap)) : cap \in {c \in Capacities : p.size <= c}}

fff_read(off, len, writing) ==
  LET req == Request("read", off, len, 0) IN
  \/ OpenFails(req)
  \/ \E end \in EndsAfterSeek(Current, SeekPos(off), writing), dirt \in Dirt :
       LET q == Grow(Current, end, dirt)
           n == Deliverable(q, off, len)
       IN  /\ exists' = TRUE
           /\ img' = q
           /\ UNCHANGED <<nonce, released>>
           /\ \/ /\ Parse(q, TRUE) = "FR_BAD_HEADER"
                 /\ Failed(req, "EIO")
              \/ /\ Parse(q, TRUE) = "FR_NO_HEADER" \/ (HasHeader(q) /\ n = 0)
                 /\ reply' = Answer(req, "OK", 0, <<>>)
              \/ /\ HasHeader(q) /\ n > 0
                 /\ \E k \in Blocks(off, n) : ~Opens(q, k)
                 /\ Failed(req, "EIO")
              \/ /\ HasHeader(q) /\ n > 0
                 /\ \A k \in Blocks(off, n) : Opens(q, k)
                 /\ reply' = Answer(req, "OK", n, [i \in 1 .. n |-> ByteAt(q, off + i - 1)])

\* Mutant: fff_write opens the file in the client's mode, O_WRONLY.
WriteModeClient == FALSE

\* fff_write adds FA_READ to the open mode of an encrypted file, whatever the
\* client asked for: the header and partial blocks have to be read back.
WriteModeReads == TRUE

fff_write(off, len, v) ==
  LET req == Request("write", off, len, v)
      Finish(p, cap) ==
        /\ img' = WriteBlocks(p, off, len, v, cap)
        /\ IF Succeeds(off, len, cap) THEN reply' = Answer(req, "OK", len, <<>>)
                                      ELSE Failed(req, "EIO")
  IN
  \/ OpenFails(req)
  \/ \E cap \in Capacities, dirt \in Dirt :
       LET q == Grow(Current, LseekTo(Current, SeekPos(off), TRUE, cap), dirt)
       IN  /\ exists' = TRUE
           /\ Current.size <= cap
           /\ released' = released
           /\ \/ /\ Parse(q, WriteModeReads) = "FR_BAD_HEADER"
                 /\ img' = q /\ nonce' = nonce
                 /\ Failed(req, "EIO")
              \/ /\ Parse(q, WriteModeReads) = "FR_NO_HEADER"   \* no random bytes, or no cluster
                 /\ img' = q /\ nonce' = nonce
                 /\ Failed(req, "EIO")
              \/ /\ Parse(q, WriteModeReads) = "FR_NO_HEADER"
                 /\ cap > 0 /\ nonce < MaxNonce
                 /\ nonce' = nonce + 1
                 /\ Finish(WithNewHeader(q, nonce + 1), cap)
              \/ /\ Parse(q, WriteModeReads) = "FR_OK"
                 /\ nonce' = nonce
                 /\ Finish(q, cap)

\* f_lseek to n bytes and f_truncate, for an n that keeps no block.
CutTo(p, n) == [size |-> n, hdr |-> p.hdr, blk |-> [s \in Slots |-> JunkBlock]]

\* Mutant: the physical size is computed without the header.
TruncateNoHeaderRoom(p, size, n) == WithLsize(CutTo(WithNewHeader(p, n), 0), size)

\* Mutant: the header is written but f_truncate is not called.
TruncateNotCut(p, size, n) == WithLsize(WithNewHeader(p, n), size)

\* fff_truncate opens the file with FA_WRITE alone, so f_crypt_truncate never
\* reads the header: it always writes a new one and cuts the file after it.
TruncateImage(p, size, n) == WithLsize(CutTo(WithNewHeader(p, n), HeaderSize), size)

fff_truncate(size) ==
  LET req == Request("truncate", size, 0, 0) IN
  \/ NotFound(req)
  \/ /\ exists
     /\ Failed(req, "EIO")        \* no random bytes, or no cluster
     /\ UNCHANGED <<exists, img, nonce, released>>
  \/ /\ exists /\ nonce < MaxNonce /\ CanRelease
     /\ \E cap \in Capacities : cap > 0 /\ img.size <= cap
     /\ Parse(img, FALSE) = "FR_NO_HEADER"
     /\ nonce' = nonce + 1
     /\ img' = TruncateImage(img, size, nonce + 1)
     /\ released' = Remember([img EXCEPT !.hdr = JunkHeader])
     /\ reply' = Answer(req, "OK", 0, <<>>)
     /\ exists' = exists

\* f_crypt_stat: every parse error leaves the physical size in the answer.
StatSize(p) == IF HasHeader(p) THEN p.hdr.lsize ELSE p.size

fff_getattr ==
  LET req == Request("getattr", 0, 0, 0) IN
  \/ NotFound(req)
  \/ /\ exists
     /\ reply' = Answer(req, "OK", StatSize(img), <<>>)
     /\ UNCHANGED <<exists, img, nonce, released>>

fff_unlink ==
  LET req == Request("unlink", 0, 0, 0) IN
  \/ NotFound(req)
  \/ /\ exists /\ CanRelease
     /\ exists' = FALSE
     /\ img' = EmptyFile
     /\ released' = Remember(img)
     /\ reply' = Answer(req, "OK", 0, <<>>)
     /\ nonce' = nonce
-----------------------------------------------------------------------------
Init ==
  /\ \/ exists = FALSE /\ img = EmptyFile
     \/ exists = TRUE /\ img \in {JunkImage(n) : n \in ForeignSizes}
  /\ nonce = 0
  /\ released = {}
  /\ reply = Answer(Request("none", 0, 0, 0), "OK", 0, <<>>)

Next ==
  \/ fff_open
  \/ \E excl, trunc \in BOOLEAN : fff_create(excl, trunc)
  \/ \E off \in Offsets, len \in Lengths, writing \in BOOLEAN :
       fff_read(off, len, writing)
  \/ \E off \in Offsets, len \in Lengths, v \in Values : fff_write(off, len, v)
  \/ \E size \in Sizes : fff_truncate(size)
  \/ fff_getattr
  \/ fff_unlink

Spec == Init /\ [][Next]_vars
-----------------------------------------------------------------------------
(* Properties.                                                             *)

\* Every position that has a place of its own in the layout.
Positions == 0 .. LogicalSector * (UIntRange \div SectorSize) - 1

Lost == -1

\* What a read of logical byte i would deliver, Lost when it cannot.
Content(p, i) ==
  IF HasHeader(p) /\ Opens(p, BlockIdx(i)) THEN ByteAt(p, i) ELSE Lost

Chunk(req) == req.off .. req.off + req.len - 1

Operations ==
  {"none", "open", "create", "read", "write", "truncate", "getattr", "unlink"}

Reply ==
  [req : [op : Operations, off : Nat, len : Nat, val : Byte],
   ret : {"OK", "EIO", "ENOENT", "EACCES", "EEXIST"}, n : Nat, data : Seq(Byte)]

\* Every variable has its type; in particular no handler makes the file larger
\* than the 32-bit size field of its directory entry (f_lseek, f_write).
TypeOK ==
  /\ exists \in BOOLEAN
  /\ img \in Image
  /\ nonce \in 0 .. MaxNonce
  /\ released \subseteq Image
  /\ reply \in Reply

\* An image says nothing about bytes outside the file, and its nonces are
\* among the n drawn so far.
SoundUnder(p, n) ==
  /\ p.size < HeaderSize => p.hdr.nonce = 0
  /\ \A s \in Slots : ~Whole(s, p.size) => p.blk[s].nonce = 0
  /\ p.hdr.nonce <= n
  /\ \A s \in Slots : p.blk[s].nonce <= n

\* No handler leaves a header or a block that reaches past the end of the
\* file, or one under a nonce that was never drawn (f_truncate after
\* write_fatcrypt_header, f_lseek's extension, the write loop at disk full),
\* in the file or in the clusters it has given back.
ImagesSound == \A p \in released \cup {img} : SoundUnder(p, nonce)

\* On clean clusters no block is orphaned: every ciphertext block of a file is
\* under the nonce of the header the file now has.  A header is only replaced
\* (f_crypt_truncate, FA_CREATE_ALWAYS) together with everything under it.
BlocksMatchHeader ==
  ~ReuseDirty =>
    \A s \in Slots : img.blk[s].nonce # 0 => img.blk[s].nonce = img.hdr.nonce

WriteAnswered(ret) == reply'.req.op = "write" /\ reply'.ret = ret

\* f_crypt_write: after a successful write its bytes read back, and a byte
\* outside the range that could be read before still reads the same, across
\* the read-modify-write of the first and last block.
WriteLands ==
  [][WriteAnswered("OK") =>
       /\ \A i \in Chunk(reply'.req) : Content(img', i) = reply'.req.val
       /\ \A i \in Positions \ Chunk(reply'.req) :
            Content(img, i) # Lost => Content(img', i) = Content(img, i)]_vars

\* f_crypt_write that stops at a full volume or at the FAT size limit keeps
\* the logical size, loses nothing outside its range, and what it leaves
\* inside the range is the old byte or the new one.
FailedWriteHarmless ==
  [][WriteAnswered("EIO") /\ HasHeader(img) =>
       /\ HasHeader(img') /\ img'.hdr = img.hdr
       /\ \A i \in Positions :
            \/ Content(img, i) = Lost
            \/ Content(img', i) = Content(img, i)
            \/ i \in Chunk(reply'.req) /\ Content(img', i) = reply'.req.val]_vars

\* write_fatcrypt_header is never applied over a header that parses, except
\* by truncate: reads, writes and plain opens keep the base nonce, and with it
\* the key of every block.
HeaderKept ==
  [][HasHeader(img) /\ reply'.req.op \in {"open", "read", "write", "getattr"}
       => img'.hdr.nonce = img.hdr.nonce]_vars

\* Even when clusters are reused with old data, a file whose header is not
\* itself left over from a released file never comes to show a byte that was
\* not written to it: what a step makes readable is the written value or zero.
OwnBytesOnly ==
  [][exists /\ exists' /\ HasHeader(img')
       /\ (\A a \in released : a.hdr.nonce # img'.hdr.nonce)
       => \A i \in Positions :
            Content(img', i) \in {Content(img, i), Lost, Zero, reply'.req.val}]_vars

\* Only a truncate or a create makes the logical size of a file smaller: the
\* header is updated because the file was extended (ff.c, end of f_crypt_write).
SizeUpdateExtends ==
  [][WriteAnswered("OK") /\ HasHeader(img) => img'.hdr.lsize >= img.hdr.lsize]_vars

\* Once a file header is written only its size is ever updated (ff.c, comment
\* of write_fatcrypt_header), as long as the file is neither removed nor
\* created anew.
HeaderWrittenOnce ==
  [][HasHeader(img) /\ reply'.req.op \notin {"create", "unlink"}
       => img'.hdr.nonce = img.hdr.nonce]_vars

Stream ==
  INSTANCE StreamFile WITH
    Overhead <- HeaderSize,
    status <- IF ~exists THEN "absent"
              ELSE IF HasHeader(img) THEN "file"
              ELSE IF Parse(img, TRUE) = "FR_NO_HEADER" THEN "empty" ELSE "bad",
    size   <- IF HasHeader(img) THEN img.hdr.lsize ELSE 0,
    bytes  <- [i \in Positions |-> Content(img, i)]

\* On clean clusters the handlers implement the abstract file: headers,
\* blocks, nonces, growth and capacity never show except as the abstract
\* specification says.
StreamSpec == Stream!Spec
=============================================================================
