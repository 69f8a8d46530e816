---------------------------- MODULE FuseDispatch ---------------------------
(***************************************************************************)
(* The worker threads of the FUSE session and the one mutex that keeps     *)
(* them apart.  FatFs is built without re-entrancy (FF_FS_REENTRANT 0), so *)
(* a handler locks the mutex before it touches the volume and has to       *)
(* unlock it on every way out.  A FatFs call is a begin and an end step:   *)
(* in between the thread relies on the volume's sector window, which any   *)
(* other call on the volume reloads.                                       *)
(***************************************************************************)
EXTENDS Naturals, FiniteSets

CONSTANTS
  Threads,      (* worker threads of the FUSE loop                         *)
  NoThread,     (* the owner of a free mutex                               *)
  Requests,     (* the operations clients ask for                          *)
  MaxRequests   (* bound: requests a thread receives                       *)

VARIABLES
  pc,        (* where each thread is in its handler                        *)
  op,        (* the request each thread works on                           *)
  ret,       (* what the handler returns                                   *)
  mutex,     (* the owner of fff_mutex                                     *)
  win,       (* the thread whose FatFs call last loaded the sector window  *)
  rdonly,    (* the volume is mounted without rw+: FFFF_RDONLY             *)
  received,  (* requests each thread has received                          *)
  mkdirFailed (* history: f_mkdir has returned an error                    *)

vars == <<pc, op, ret, mutex, win, rdonly, received, mkdirFailed>>

\* Handlers that return without locking; rename does so when it has flags.
Unlocked == {"release", "releasedir", "access", "rename2"}

\* Handlers that refuse a read-only volume.
Modifying == {"open_write", "create", "write", "mkdir", "unlink", "rmdir",
              "rename", "truncate", "utimens"}

Reading == {"open", "read", "getattr", "opendir", "readdir", "statfs"}

Ops == Unlocked \cup Modifying \cup Reading

ASSUME DispatchAssumption ==
  /\ NoThread \notin Threads
  /\ Requests \subseteq Ops
  /\ MaxRequests \in Nat

\* Handlers that may answer before they call FatFs: getattr of the root
\* directory and utimens with a time gmtime_r rejects.
Early == {"getattr", "utimens"}

\* Mutant: fff_utimens returns an error without mutex_out as well.
UnlocksAfterUnlessError(o, res) == ~(o \in {"mkdir", "utimens"} /\ res = "error")

\* fff_mkdir returns the error of f_mkdir without mutex_out.
UnlocksAfter(o, res) == ~(o = "mkdir" /\ res = "error")
-----------------------------------------------------------------------------
Receive(t, o) ==
  /\ pc[t] = "idle" /\ received[t] < MaxRequests
  /\ op' = [op EXCEPT ![t] = o]
  /\ received' = [received EXCEPT ![t] = @ + 1]
  /\ IF o \in Unlocked
       THEN /\ pc' = [pc EXCEPT ![t] = "done"]
            /\ ret' = [ret EXCEPT ![t] = IF o = "rename2" THEN "ENOSYS" ELSE "OK"]
       ELSE pc' = [pc EXCEPT ![t] = "waiting"] /\ ret' = ret
  /\ UNCHANGED <<mutex, win, mkdirFailed, rdonly>>

\* Mutant: mutex_in does not wait for the mutex (a build without the lock).
mutex_in_nolock(t) ==
  /\ pc[t] = "waiting"
  /\ mutex' = t
  /\ pc' = [pc EXCEPT ![t] = "locked"]
  /\ UNCHANGED <<op, ret, win, rdonly, received, mkdirFailed>>

mutex_in(t) ==
  /\ pc[t] = "waiting" /\ mutex = NoThread
  /\ mutex' = t
  /\ pc' = [pc EXCEPT ![t] = "locked"]
  /\ UNCHANGED <<op, ret, win, rdonly, received, mkdirFailed>>

\* Mutant: the macro returns before it unlocks.
return_before_mutex_out(t, val) ==
  /\ mutex' = mutex
  /\ pc' = [pc EXCEPT ![t] = "done"]
  /\ ret' = [ret EXCEPT ![t] = val]

\* Mutant: the FatFs result is returned without fr2errno.
mutex_out_return_raw(t, val) ==
  /\ mutex' = NoThread
  /\ pc' = [pc EXCEPT ![t] = "done"]
  /\ ret' = [ret EXCEPT ![t] = "FRESULT"]

mutex_out_return(t, val) ==
  /\ mutex' = NoThread
  /\ pc' = [pc EXCEPT ![t] = "done"]
  /\ ret' = [ret EXCEPT ![t] = val]

RefuseReadOnly(t) ==
  /\ pc[t] = "locked" /\ rdonly /\ op[t] \in Modifying
  /\ mutex_out_return(t, "EROFS")
  /\ UNCHANGED <<op, win, rdonly, received, mkdirFailed>>

MayCall(t) == pc[t] = "locked" /\ ~(rdonly /\ op[t] \in Modifying)

AnswerEarly(t) ==
  /\ MayCall(t) /\ op[t] \in Early
  /\ mutex_out_return(t, IF op[t] = "utimens" THEN "EINVAL" ELSE "OK")
  /\ UNCHANGED <<op, win, rdonly, received, mkdirFailed>>

BeginCall(t) ==
  /\ MayCall(t)
  /\ pc' = [pc EXCEPT ![t] = "calling"]
  /\ win' = t
  /\ UNCHANGED <<op, ret, mutex, rdonly, received, mkdirFailed>>

EndCall(t, res) ==
  /\ pc[t] = "calling"
  /\ IF UnlocksAfter(op[t], res)
       THEN mutex_out_return(t, res)
       ELSE /\ mutex' = mutex
            /\ pc' = [pc EXCEPT ![t] = "done"]
            /\ ret' = [ret EXCEPT ![t] = res]
  /\ mkdirFailed' = (mkdirFailed \/ (op[t] = "mkdir" /\ res = "error"))
  /\ UNCHANGED <<op, win, rdonly, received>>

SendReply(t) ==
  /\ pc[t] = "done"
  /\ pc' = [pc EXCEPT ![t] = "idle"]
  /\ UNCHANGED <<op, ret, mutex, win, rdonly, received, mkdirFailed>>
-----------------------------------------------------------------------------
Init ==
  /\ pc = [t \in Threads |-> "idle"]
  /\ op = [t \in Threads |-> "access"]
  /\ ret = [t \in Threads |-> "OK"]
  /\ mutex = NoThread
  /\ win = NoThread
  /\ rdonly \in BOOLEAN
  /\ received = [t \in Threads |-> 0]
  /\ mkdirFailed = FALSE

\* What a thread does once it has a request.
Serve(t) ==
  \/ mutex_in(t)
  \/ RefuseReadOnly(t)
  \/ AnswerEarly(t)
  \/ BeginCall(t)
  \/ \E res \in {"OK", "error"} : EndCall(t, res)
  \/ SendReply(t)

Next == \E t \in Threads : Serve(t) \/ \E o \in Requests : Receive(t, o)

\* A thread that can take its next step is scheduled, and a FatFs call ends.
\* Receiving a request is up to the clients.
Fairness == \A t \in Threads : WF_vars(Serve(t))

Spec == Init /\ [][Next]_vars /\ Fairness
-----------------------------------------------------------------------------
(* Properties.                                                             *)

InHandler(t) == pc[t] \in {"locked", "calling"}

\* Every variable has its type; in particular a handler returns only an errno,
\* never a raw FRESULT (mutex_out_return(fr2errno(...))).
TypeOK ==
  /\ pc \in [Threads -> {"idle", "waiting", "locked", "calling", "done"}]
  /\ op \in [Threads -> Ops]
  /\ ret \in [Threads -> {"OK", "error", "EROFS", "EINVAL", "ENOSYS"}]
  /\ mutex \in Threads \cup {NoThread}
  /\ win \in Threads \cup {NoThread}
  /\ rdonly \in BOOLEAN
  /\ received \in [Threads -> 0 .. MaxRequests]
  /\ mkdirFailed \in BOOLEAN

\* While a thread is inside a FatFs call, no other thread has entered one on
\* the volume: the sector window is still the one its own call loaded.
WindowStable == \A t \in Threads : pc[t] = "calling" => win = t

\* The mutex is held by a thread that is between mutex_in and mutex_out, or
\* for good once fff_mkdir has returned an error: no other way out of a
\* handler keeps it, and none gives it up early.
HeldInsideHandler ==
  /\ \A t \in Threads : InHandler(t) => mutex = t
  /\ mutex # NoThread => InHandler(mutex) \/ mkdirFailed

\* A request that waits for the mutex is answered, in whatever order the other
\* threads' requests (finitely many, MaxRequests each) take it, unless
\* fff_mkdir has kept it: every other way out of a handler gives it back.
AnsweredUnlessLeaked ==
  \A t \in Threads : pc[t] = "waiting" ~> (pc[t] = "done" \/ mkdirFailed)

\* Every request that waits for the mutex is answered: a handler gives the
\* mutex back on return (mutex_out_return), in multi-threaded operation.
EveryRequestAnswered == \A t \in Threads : pc[t] = "waiting" ~> pc[t] = "done"
=============================================================================
