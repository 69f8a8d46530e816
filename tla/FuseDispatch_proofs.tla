------------------------ MODULE FuseDispatch_proofs ------------------------
(***************************************************************************)
(* Mutual exclusion of the FUSE handlers, for every number of worker       *)
(* threads, every mix of requests and every bound on them.  What a thread  *)
(* relies on inside a FatFs call (WindowStable) is not inductive: it needs *)
(* that the threads inside a handler are the owner of the mutex            *)
(* (HeldInsideHandler), including after fff_mkdir has kept it.             *)
(***************************************************************************)
EXTENDS FuseDispatch, TLAPS

Inv == TypeOK /\ HeldInsideHandler /\ WindowStable

\* The invariant holds when the FUSE loop starts.
LEMMA InitInv == Init => Inv
<1> SUFFICES ASSUME Init PROVE Inv
  OBVIOUS
<1>1. TypeOK
  <2>1. "access" \in Ops
    BY DEF Ops, Unlocked
  <2>2. rdonly \in BOOLEAN /\ mkdirFailed \in BOOLEAN
    BY Zenon DEF Init
  <2>3. received \in [Threads -> 0 .. MaxRequests]
    BY DispatchAssumption DEF Init, DispatchAssumption
  <2> QED BY <2>1, <2>2, <2>3 DEF Init, TypeOK
<1>2. HeldInsideHandler
  BY DEF Init, HeldInsideHandler, InHandler
<1>3. WindowStable
  BY DEF Init, WindowStable
<1> QED BY <1>1, <1>2, <1>3 DEF Inv

\* Receiving a request takes no lock and enters no handler.
LEMMA ReceiveInv ==
  ASSUME Inv, NEW t \in Threads, NEW o \in Requests, Receive(t, o)
  PROVE  Inv'
<1> USE DEF Inv
<1>1. TypeOK'
  BY DispatchAssumption DEF Receive, TypeOK, DispatchAssumption
<1>2. \A u \in Threads : pc'[u] \in {"locked", "calling"} => u # t /\ pc'[u] = pc[u]
  BY DEF Receive, TypeOK
<1>3. \A u \in Threads : InHandler(u) => u # t /\ pc'[u] = pc[u]
  BY DEF Receive, TypeOK, InHandler
<1>4. HeldInsideHandler'
  BY <1>2, <1>3, DispatchAssumption
  DEF Receive, TypeOK, HeldInsideHandler, InHandler, DispatchAssumption
<1>5. WindowStable'
  BY <1>2 DEF Receive, WindowStable
<1> QED BY <1>1, <1>4, <1>5

\* Every way through a handler keeps the lock with the thread inside it.
LEMMA ServeInv ==
  ASSUME Inv, NEW t \in Threads, Serve(t)
  PROVE  Inv'
<1> USE DispatchAssumption DEF Inv, DispatchAssumption
<1>1. CASE mutex_in(t)
  <2>1. TypeOK'
    BY <1>1 DEF mutex_in, TypeOK
  <2>2. HeldInsideHandler'
    BY <1>1 DEF mutex_in, TypeOK, HeldInsideHandler, InHandler
  <2>3. WindowStable'
    BY <1>1 DEF mutex_in, TypeOK, WindowStable
  <2> QED BY <2>1, <2>2, <2>3
<1>2. CASE RefuseReadOnly(t)
  <2>1. TypeOK'
    BY <1>2 DEF RefuseReadOnly, mutex_out_return, TypeOK
  <2>2. HeldInsideHandler'
    BY <1>2 DEF RefuseReadOnly, mutex_out_return, TypeOK, HeldInsideHandler, InHandler
  <2>3. WindowStable'
    BY <1>2 DEF RefuseReadOnly, mutex_out_return, TypeOK, WindowStable
  <2> QED BY <2>1, <2>2, <2>3
<1>3. CASE AnswerEarly(t)
  <2>1. TypeOK'
    BY <1>3 DEF AnswerEarly, mutex_out_return, TypeOK
  <2>2. HeldInsideHandler'
    BY <1>3 DEF AnswerEarly, MayCall, mutex_out_return, TypeOK, HeldInsideHandler, InHandler
  <2>3. WindowStable'
    BY <1>3 DEF AnswerEarly, mutex_out_return, TypeOK, WindowStable
  <2> QED BY <2>1, <2>2, <2>3
<1>4. CASE BeginCall(t)
  <2>1. TypeOK'
    BY <1>4 DEF BeginCall, TypeOK
  <2>2. HeldInsideHandler'
    BY <1>4 DEF BeginCall, MayCall, TypeOK, HeldInsideHandler, InHandler
  <2>3. WindowStable'
    <3>1. \A u \in Threads : pc[u] = "calling" => u = t
      BY <1>4 DEF BeginCall, MayCall, HeldInsideHandler, InHandler
    <3> QED BY <1>4, <3>1 DEF BeginCall, TypeOK, WindowStable
  <2> QED BY <2>1, <2>2, <2>3
<1>5. ASSUME NEW res \in {"OK", "error"}, EndCall(t, res) PROVE Inv'
  <2>1. pc' = [pc EXCEPT ![t] = "done"] /\ ret' = [ret EXCEPT ![t] = res]
    BY <1>5 DEF EndCall, mutex_out_return
  <2>2. mutex' \in {mutex, NoThread}
    BY <1>5 DEF EndCall, mutex_out_return
  <2>3. mkdirFailed' \in BOOLEAN /\ (mkdirFailed => mkdirFailed')
    BY <1>5, Zenon DEF EndCall, TypeOK
  <2>4. mutex' = NoThread \/ mkdirFailed'
    BY <1>5 DEF EndCall, mutex_out_return, UnlocksAfter
  <2>5. TypeOK'
    BY <1>5, <2>1, <2>2, <2>3 DEF EndCall, TypeOK
  <2>6. \A u \in Threads : pc'[u] \in {"locked", "calling"} => FALSE
    BY <1>5, <2>1 DEF EndCall, TypeOK, HeldInsideHandler, InHandler
  <2>7. HeldInsideHandler'
    BY <2>4, <2>6 DEF HeldInsideHandler, InHandler
  <2>8. WindowStable'
    BY <2>6 DEF WindowStable
  <2> QED BY <2>5, <2>7, <2>8
<1>6. CASE SendReply(t)
  <2>1. TypeOK'
    BY <1>6 DEF SendReply, TypeOK
  <2>2. HeldInsideHandler'
    BY <1>6 DEF SendReply, TypeOK, HeldInsideHandler, InHandler
  <2>3. WindowStable'
    BY <1>6 DEF SendReply, TypeOK, WindowStable
  <2> QED BY <2>1, <2>2, <2>3
<1> QED BY <1>1, <1>2, <1>3, <1>4, <1>5, <1>6 DEF Serve

\* Every step of every thread keeps the invariant.
LEMMA NextInv == Inv /\ [Next]_vars => Inv'
<1> SUFFICES ASSUME Inv, [Next]_vars PROVE Inv'
  OBVIOUS
<1>1. CASE UNCHANGED vars
  BY <1>1 DEF Inv, TypeOK, HeldInsideHandler, InHandler, WindowStable, vars
<1>2. CASE Next
  BY <1>2, ReceiveInv, ServeInv DEF Next
<1> QED BY <1>1, <1>2

\* The state of the threads and of the mutex is well typed at every step.
THEOREM TypeCorrect == Spec => []TypeOK
<1>1. Inv => TypeOK
  BY DEF Inv
<1> QED BY <1>1, InitInv, NextInv, PTL DEF Spec

\* Whoever is between mutex_in and mutex_out owns the mutex, and the mutex is
\* owned by nobody else unless fff_mkdir has returned an error.
THEOREM MutexHeldInside == Spec => []HeldInsideHandler
<1>1. Inv => HeldInsideHandler
  BY DEF Inv
<1> QED BY <1>1, InitInv, NextInv, PTL DEF Spec

\* No other thread enters FatFs during a FatFs call, for any number of worker
\* threads: what FF_FS_REENTRANT 0 requires of the handlers.
THEOREM FatFsNotReentered == Spec => []WindowStable
<1>1. Inv => WindowStable
  BY DEF Inv
<1> QED BY <1>1, InitInv, NextInv, PTL DEF Spec
=============================================================================
