---------------------------- MODULE StreamFile -----------------------------
(***************************************************************************)
(* What a client can rely on when it uses an encrypted path: a file as a   *)
(* size and a sequence of bytes, with no header, block, nonce or cluster.  *)
(* It records the promises the implementation keeps, weaker than those of  *)
(* POSIX: a write makes its end the end of the file, a byte may be lost    *)
(* (it cannot be read), and truncate loses every byte.                     *)
(***************************************************************************)
EXTENDS Integers, Sequences

CONSTANTS
  Values, Offsets, Lengths, Sizes,
  Positions,    (* the byte positions of a file                            *)
  Overhead      (* bytes of storage a file without content may show        *)

Zero == 0
Lost == -1

VARIABLES status, size, bytes, reply

vars == <<status, size, bytes, reply>>

NoBytes == [i \in Positions |-> Lost]

Asked(op, off, len, val) ==
  reply'.req = [op |-> op, off |-> off, len |-> len, val |-> val]

Answered(ret, n, data) == reply'.ret = ret /\ reply'.n = n /\ reply'.data = data

Refused(ret) == Answered(ret, 0, <<>>)

Becomes(st, n, b) == status' = st /\ size' = n /\ bytes' = b

Kept == UNCHANGED <<status, size, bytes>>

\* A request that finds no file; one that may create it can also be refused.
Absent(creating) ==
  /\ status = "absent"
  /\ Refused("ENOENT") \/ (creating /\ Refused("EACCES"))
  /\ Kept

Open ==
  /\ Asked("open", 0, 0, 0)
  /\ \/ Absent(TRUE)
     \/ /\ Answered("OK", 0, <<>>)
        /\ IF status = "absent" THEN Becomes("empty", 0, NoBytes) ELSE Kept

\* Creating over an existing file keeps it, refuses it or empties it.
Create ==
  /\ Asked("create", 0, 0, 0)
  /\ \/ Absent(TRUE)
     \/ /\ status # "absent"
        /\ Answered("OK", 0, <<>>) \/ Refused("EEXIST")
        /\ Kept
     \/ /\ Becomes("empty", 0, NoBytes)
        /\ Answered("OK", 0, <<>>)

Unlink ==
  /\ Asked("unlink", 0, 0, 0)
  /\ \/ Absent(FALSE)
     \/ /\ status # "absent"
        /\ Becomes("absent", 0, NoBytes)
        /\ Answered("OK", 0, <<>>)

\* The size of a file with content is exact.
GetAttr ==
  /\ Asked("getattr", 0, 0, 0)
  /\ \/ Absent(FALSE)
     \/ /\ status # "absent"
        /\ Answered("OK", reply'.n, <<>>)
        /\ status = "file" => reply'.n = size
        /\ status = "empty" => reply'.n <= Overhead
        /\ Kept

Chunk(off, n) == off .. off + n - 1

\* A read returns the bytes up to the end of the file, or fails when one of
\* them is lost; beginning past the end it returns what lies there.  It may
\* turn a file that never had content into a bad one, and changes nothing else.
Read(off, len) ==
  /\ Asked("read", off, len, 0)
  /\ \/ Absent(TRUE)
     \/ /\ status \in {"absent", "empty"}
        /\ \/ Becomes("empty", 0, NoBytes) /\ Answered("OK", 0, <<>>)
           \/ Becomes("bad", 0, NoBytes) /\ Refused("EIO")
     \/ /\ status = "bad"
        /\ Refused("EIO")
        /\ Kept
     \/ /\ status = "file"
        /\ LET n == IF off + len <= size \/ off > size THEN len ELSE size - off
           IN  IF \E i \in Chunk(off, n) : bytes[i] = Lost
                 THEN Refused("EIO")
                 ELSE Answered("OK", n, [i \in 1 .. n |-> bytes[off + i - 1]])
        /\ Kept

\* Bytes of a write's range become v; a lost byte near it may become zero.
Overwritten(b, off, len, v) ==
  /\ \A i \in Chunk(off, len) : b[i] = v
  /\ \A i \in Positions \ Chunk(off, len) :
       b[i] = bytes[i] \/ (bytes[i] = Lost /\ b[i] = Zero)

\* A write that fails half-way has written some of its range.
PartlyOverwritten(b, off, len, v) ==
  \A i \in Positions :
    \/ b[i] = bytes[i]
    \/ bytes[i] = Lost /\ b[i] = Zero
    \/ i \in Chunk(off, len) /\ b[i] = v

Write(off, len, v) ==
  /\ Asked("write", off, len, v)
  /\ \/ Absent(TRUE)
     \/ /\ status \in {"absent", "empty", "file"}
        /\ status' = "file" /\ size' = off + len
        /\ bytes' \in [Positions -> Values \cup {Zero, Lost}]
        /\ Overwritten(bytes', off, len, v)
        /\ Answered("OK", len, <<>>)
     \/ /\ status \in {"absent", "empty", "file"}
        /\ status' = "file" /\ size' = size
        /\ bytes' \in [Positions -> Values \cup {Zero, Lost}]
        /\ PartlyOverwritten(bytes', off, len, v)
        /\ Refused("EIO")
     \/ /\ status \in {"absent", "empty"}
        /\ \E st \in {"empty", "bad"} : Becomes(st, 0, NoBytes)
        /\ Refused("EIO")
     \/ /\ status = "bad"
        /\ Refused("EIO")
        /\ Kept

\* Truncation sets the size and loses every byte.
Truncate(n) ==
  /\ Asked("truncate", n, 0, 0)
  /\ \/ Absent(FALSE)
     \/ /\ status # "absent"
        /\ \/ Becomes("file", n, NoBytes) /\ Answered("OK", 0, <<>>)
           \/ Refused("EIO") /\ Kept

Init ==
  /\ status \in {"absent", "empty", "bad"}
  /\ size = 0 /\ bytes = NoBytes
  /\ reply.ret = "OK" /\ reply.n = 0

Next ==
  \/ Open \/ Create \/ Unlink \/ GetAttr
  \/ \E off \in Offsets, len \in Lengths :
       Read(off, len) \/ \E v \in Values : Write(off, len, v)
  \/ \E n \in Sizes : Truncate(n)

Spec == Init /\ [][Next]_vars
=============================================================================
