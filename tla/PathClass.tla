----------------------------- MODULE PathClass -----------------------------
(***************************************************************************)
(* Which bytes of a volume are encrypted.  Nothing on the volume says so:  *)
(* each handler classifies the path it is given, by spelling, and works on *)
(* the file FAT finds under it, whatever the spelling and whoever wrote    *)
(* it.  f_rename moves files and directories between the classes without   *)
(* converting them, and a mount without the key takes every path as plain. *)
(*                                                                         *)
(* A path is a sequence of names.  A file is its first 41 bytes (head: the *)
(* header of an encrypted file) and the rest (body: its one block).  A     *)
(* request writes at offset 0 and reads the whole file through a           *)
(* descriptor opened for reading; offsets, blocks and sizes are the matter *)
(* of module CryptFile.                                                    *)
(***************************************************************************)
EXTENDS Integers, Sequences

CONSTANTS
  Names,        (* components of paths, as spelled                          *)
  Fold,         (* the name FAT finds: case folded, short name aliases      *)
  Longer,       (* pairs <<m, n>> where the spelling of m starts with n     *)
  MetaDir,      (* ".fat_crypt"                                             *)
  PlainFiles,   (* config: files left plain                                 *)
  PlainDirs,    (* config: directories left plain, the final '/' stripped   *)
  Paths,        (* the paths clients use                                    *)
  TooLong,      (* those with more than 1023 bytes or 255 components        *)
  Short, Long,  (* values of up to 41 bytes and of more                     *)
  NoValue,      (* none of them                                             *)
  InitDirs, InitFiles,  (* the volume as keygen leaves it                   *)
  MaxRequests   (* bound: requests                                          *)

Values == Short \cup Long

ASSUME PathAssumption ==
  /\ MetaDir \in Names
  /\ Fold \in [Names -> Names] /\ \A n \in Names : Fold[Fold[n]] = Fold[n]
  /\ \A n \in Names : <<n, n>> \in Longer
  /\ \A p \in Paths \cup PlainFiles \cup PlainDirs : p \in Seq(Names) /\ p # <<>>
  /\ TooLong \subseteq Paths
  /\ Short \cap Long = {} /\ NoValue \notin Values
  /\ \A f \in DOMAIN InitFiles : InitFiles[f] \in Values
  /\ InitDirs \cap DOMAIN InitFiles = {}
  /\ \A f \in InitDirs \cup DOMAIN InitFiles :
       f \in Seq(Names) /\ f # <<>> /\ \A k \in 1 .. Len(f) - 1 : SubSeq(f, 1, k) \in InitDirs
  /\ MaxRequests \in Nat

VARIABLES
  key,      (* whether the mount loaded the master key                      *)
  dirs,     (* the directories of the volume, names folded                  *)
  files,    (* the files of the volume and what they hold                   *)
  reply,    (* the last answer                                              *)
  requests, (* requests so far                                              *)
  given,    (* history: values by what was promised of the path they were   *)
            (* written to                                                   *)
  last      (* history: the last write to each file since it was empty      *)

vars == <<key, dirs, files, reply, requests, given, last>>

\* follow_path compares names without case and finds short names, too.
At(p) == [i \in DOMAIN p |-> Fold[p[i]]]

Parent(f) == SubSeq(f, 1, Len(f) - 1)

IsUnder(f, d) == Len(d) <= Len(f) /\ \A i \in 1 .. Len(d) : f[i] = d[i]

Nothing == [kind |-> "none", v |-> NoValue]
Text(v) == [kind |-> "text", v |-> v]
Header(v) == [kind |-> "header", v |-> v]        \* the size it holds is v's
Block(v) == [kind |-> "block", v |-> v]

EmptyFile == [head |-> Nothing, body |-> Nothing]
OnlyHeader == [head |-> Header(NoValue), body |-> Nothing]
Sealed(v) == [head |-> Header(v), body |-> Block(v)]
NeverWritten == [v |-> NoValue, sealed |-> FALSE]
-----------------------------------------------------------------------------
(* The classes.                                                            *)

\* fatcrypt_is_metadata_path: 1, 0, or -1 when the path cannot be normalised.
IsMetadata(p) ==
  IF p \in TooLong THEN -1 ELSE IF p[1] = MetaDir THEN 1 ELSE 0

\* strncmp(check_path, dir, dir_len) = 0: the last name may go on.
StartsWith(p, d) ==
  /\ Len(d) <= Len(p)
  /\ \A i \in 1 .. Len(d) - 1 : p[i] = d[i]
  /\ <<p[Len(d)], d[Len(d)]>> \in Longer

\* Mutant: the character after the prefix is not looked at.
UnderPrefix(p, d) == StartsWith(p, d)

\* A directory pattern matches itself and what is below it.
Under(p, d) == StartsWith(p, d) /\ p[Len(d)] = d[Len(d)]

IsPlaintext(p) == p \in PlainFiles \/ \E d \in PlainDirs : Under(p, d)

\* The condition of fff_getattr, fff_read, fff_write and fff_truncate.
Plain(p) == ~key \/ IsMetadata(p) # 0 \/ IsPlaintext(p)
-----------------------------------------------------------------------------
Bytes(v) == IF v \in Long THEN <<Text(v), Text(v)>> ELSE <<Text(v)>>

Parts(c) == IF c.body # Nothing THEN <<c.head, c.body>>
            ELSE IF c.head # Nothing THEN <<c.head>> ELSE <<>>

Result(ret, got) == [ret |-> ret, got |-> got]

\* Mutant: a file without a header is taken for a plain one.
DecryptedOrRaw(c) ==
  IF c = OnlyHeader THEN Result("OK", <<>>)
  ELSE IF c.head.kind = "header" THEN Result("OK", Bytes(c.body.v))
  ELSE Result("OK", Parts(c))

\* f_crypt_read: a file that starts with something else than a header counts as
\* empty up to 41 bytes (FR_NO_HEADER) and as damaged from there on
\* (FR_BAD_HEADER).
Decrypted(c) ==
  IF c.head.kind = "header"
    THEN IF c = OnlyHeader THEN Result("OK", <<>>)
         ELSE IF c.body.kind = "block" THEN Result("OK", Bytes(c.body.v))
         ELSE Result("EIO", <<>>)
  ELSE Result(IF c.body = Nothing THEN "OK" ELSE "EIO", <<>>)

\* f_write at offset 0: what is longer than the value stays.
Overwritten(c, v) ==
  [head |-> Text(v), body |-> IF v \in Long THEN Text(v) ELSE c.body]

\* f_crypt_write: FR_NO_HEADER is answered with a new header; FR_BAD_HEADER is
\* an error.
Writable(c) == c.head.kind = "header" \/ c.body = Nothing
-----------------------------------------------------------------------------
Request == requests < MaxRequests /\ requests' = requests + 1

Answer(op, p, r) == reply' = [op |-> op, path |-> p, ret |-> r.ret, got |-> r.got]

Put(f, x, c) == [g \in DOMAIN f \cup {x} |-> IF g = x THEN c ELSE f[g]]
Without(f, x) == [g \in DOMAIN f \ {x} |-> f[g]]

Exists(f) == f \in dirs \/ f \in DOMAIN files
InPlace(f) == Len(f) = 1 \/ Parent(f) \in dirs

fff_create(p) ==
  /\ Request
  /\ ~Exists(At(p)) /\ InPlace(At(p))
  /\ files' = Put(files, At(p), EmptyFile)
  /\ last' = Put(last, At(p), NeverWritten)
  /\ Answer("create", p, Result("OK", <<>>))
  /\ UNCHANGED <<key, dirs, given>>

\* Mutant: the plaintext list of the config is not consulted.
ReadsPlainForgetsList(p) == ~key \/ IsMetadata(p) # 0

\* fff_read repeats the condition, as the other handlers do.
ReadsPlain(p) == Plain(p)

fff_read(p) ==
  /\ Request
  /\ At(p) \in DOMAIN files
  /\ Answer("read", p,
            IF IsMetadata(p) < 0 THEN Result("EINVAL", <<>>)
            ELSE IF ReadsPlain(p) THEN Result("OK", Parts(files[At(p)]))
            ELSE Decrypted(files[At(p)]))
  /\ UNCHANGED <<key, dirs, files, given, last>>

\* What the README promises of a path: the files of .fat_crypt and those listed
\* in the config are plain, all others are encrypted.
Listed(p) ==
  \/ p[1] = MetaDir \/ p \in PlainFiles
  \/ \E d \in PlainDirs : IsUnder(p, d)

Give(p, v) ==
  given' = IF ~key \/ Listed(p) THEN [given EXCEPT !.open = @ \cup {v}]
           ELSE IF p \in TooLong THEN [given EXCEPT !.long = @ \cup {v}]
           ELSE [given EXCEPT !.secret = @ \cup {v}]

fff_write(p, v) ==
  LET f == At(p)
      ok == Plain(p) \/ Writable(files[f])
  IN  /\ Request
      /\ f \in DOMAIN files
      /\ files' = IF ~ok THEN files
                  ELSE [files EXCEPT ![f] = IF Plain(p) THEN Overwritten(@, v) ELSE Sealed(v)]
      /\ last' = IF ok THEN [last EXCEPT ![f] = [v |-> v, sealed |-> ~Plain(p)]]
                 ELSE last
      /\ Give(p, v)
      /\ Answer("write", p, Result(IF ok THEN "OK" ELSE "EIO", <<>>))
      /\ UNCHANGED <<key, dirs>>

\* To length 0.  f_crypt_truncate never sees the header (module CryptFile) and
\* writes a new one.
fff_truncate(p) ==
  LET f == At(p) IN
  /\ Request
  /\ f \in DOMAIN files
  /\ files' = [files EXCEPT ![f] =
       IF Plain(p) THEN EmptyFile ELSE OnlyHeader]
  /\ last' = [last EXCEPT ![f] = NeverWritten]
  /\ Answer("truncate", p, Result("OK", <<>>))
  /\ UNCHANGED <<key, dirs, given>>

fff_unlink(p) ==
  /\ Request
  /\ At(p) \in DOMAIN files
  /\ files' = Without(files, At(p))
  /\ last' = Without(last, At(p))
  /\ Answer("unlink", p, Result("OK", <<>>))
  /\ UNCHANGED <<key, dirs, given>>

fff_mkdir(p) ==
  /\ Request
  /\ ~Exists(At(p)) /\ InPlace(At(p))
  /\ dirs' = dirs \cup {At(p)}
  /\ Answer("mkdir", p, Result("OK", <<>>))
  /\ UNCHANGED <<key, files, given, last>>

fff_rmdir(p) ==
  LET empty == \A f \in dirs \cup DOMAIN files : IsUnder(f, At(p)) => f = At(p) IN
  /\ Request
  /\ At(p) \in dirs
  /\ dirs' = IF empty THEN dirs \ {At(p)} ELSE dirs
  /\ Answer("rmdir", p, Result(IF empty THEN "OK" ELSE "EACCES", <<>>))
  /\ UNCHANGED <<key, files, given, last>>

\* Mutant: what is in a directory does not move with it.
RenamedAlone(f, src, dst) == IF f = src THEN dst ELSE f

\* The name of object f after src is renamed to dst.
Renamed(f, src, dst) ==
  IF IsUnder(f, src) THEN dst \o SubSeq(f, Len(src) + 1, Len(f)) ELSE f

Moved(g, src, dst) ==
  [f \in {Renamed(x, src, dst) : x \in DOMAIN g} |->
     g[CHOOSE x \in DOMAIN g : Renamed(x, src, dst) = f]]

\* The entry moves, the contents stay; a directory takes along what is in it.
\* An existing target is refused unless it is the same object under another
\* spelling.  The kernel does not pass on a move of a directory into itself.
fff_rename(p, q) ==
  LET src == At(p)  dst == At(q)  ok == src = dst \/ ~Exists(dst) IN
  /\ Request
  /\ Exists(src) /\ InPlace(dst)
  /\ IsUnder(dst, src) => dst = src
  /\ dirs' = IF ok THEN {Renamed(d, src, dst) : d \in dirs} ELSE dirs
  /\ files' = IF ok THEN Moved(files, src, dst) ELSE files
  /\ last' = IF ok THEN Moved(last, src, dst) ELSE last
  /\ Answer("rename", p, Result(IF ok THEN "OK" ELSE "EEXIST", <<>>))
  /\ UNCHANGED <<key, given>>

\* The volume is unmounted and mounted again, with the key or without.
fff_init(k) ==
  /\ Request
  /\ key' = k
  /\ reply' = [op |-> "mount", path |-> <<>>, ret |-> "OK", got |-> <<>>]
  /\ UNCHANGED <<dirs, files, given, last>>
-----------------------------------------------------------------------------
Init ==
  /\ key \in BOOLEAN
  /\ dirs = InitDirs
  /\ files = [f \in DOMAIN InitFiles |-> Overwritten(EmptyFile, InitFiles[f])]
  /\ reply = [op |-> "mount", path |-> <<>>, ret |-> "OK", got |-> <<>>]
  /\ requests = 0
  /\ given = [open |-> {InitFiles[f] : f \in DOMAIN InitFiles}, long |-> {}, secret |-> {}]
  /\ last = [f \in DOMAIN InitFiles |-> [v |-> InitFiles[f], sealed |-> FALSE]]

Next ==
  \/ \E p \in Paths :
       \/ fff_create(p) \/ fff_read(p) \/ fff_truncate(p)
       \/ fff_unlink(p) \/ fff_mkdir(p) \/ fff_rmdir(p)
       \/ \E v \in Values : fff_write(p, v)
       \/ \E q \in Paths : fff_rename(p, q)
  \/ \E k \in BOOLEAN : fff_init(k)

Spec == Init /\ [][Next]_vars
-----------------------------------------------------------------------------
(* Properties.                                                             *)

Part == {Nothing} \cup {Text(v) : v \in Values} \cup {Block(v) : v \in Values}
                  \cup {Header(v) : v \in Values \cup {NoValue}}

\* Every variable has its type; a header stands only over the block it was
\* written with.
TypeOK ==
  /\ key \in BOOLEAN
  /\ DOMAIN last = DOMAIN files /\ dirs \cap DOMAIN files = {}
  /\ \A f \in DOMAIN files :
       LET c == files[f] IN
       /\ c.head \in Part /\ c.body \in Part
       /\ c.head.kind = "header" => c = OnlyHeader \/ \E v \in Values : c = Sealed(v)
       /\ c.head = Nothing => c.body = Nothing
       /\ f # <<>> /\ (Len(f) > 1 => Parent(f) \in dirs)
  /\ given.open \cup given.long \cup given.secret \subseteq Values
  /\ requests \in 0 .. MaxRequests

Holds(f, part) == files[f].head = part \/ files[f].body = part

\* The path class decides for each request alone, yet over any sequence of
\* writes, renames, aliases and mounts the volume keeps what the README says of
\* the paths values were written to: a value lies open only if it was written to
\* a listed path (or without the key, or through a path too long to classify),
\* and encrypted only if it was written to another one.
ClassHonoured ==
  \A f \in DOMAIN files, v \in Values :
    /\ Holds(f, Text(v)) => v \in given.open \cup given.long
    /\ Holds(f, Block(v)) => v \in given.secret

IsPrefixOf(s, t) == Len(s) <= Len(t) /\ \A i \in DOMAIN s : s[i] = t[i]

\* A file reads back what was last written to it whenever the path it is read
\* under has the class of the path it was written under, however it was renamed,
\* spelled or mounted in between; fff_read, fff_write and fff_truncate each
\* decide the class on their own.
ReadsBack ==
  reply.op = "read" /\ reply.path \notin TooLong =>
    LET w == last[At(reply.path)] IN
    w.v # NoValue /\ w.sealed = ~Plain(reply.path) =>
      reply.ret = "OK" /\ IsPrefixOf(Bytes(w.v), reply.got)

\* A read under an encrypted path gives only what was written under one: a file
\* moved there from a plain path is an error or empty, never taken as it is.
SealedReadsAuthentic ==
  reply.op = "read" /\ ~Plain(reply.path) =>
    \A i \in DOMAIN reply.got :
      reply.got[i].kind = "text" /\ reply.got[i].v \in given.secret

\* README: all files other than those listed are transparently encrypted.  A
\* path that fatcrypt_is_metadata_path cannot normalise counts as plain.
OtherFilesEncrypted ==
  \A f \in DOMAIN files, v \in Values : Holds(f, Text(v)) => v \in given.open
=============================================================================
