-------------------------- MODULE KeyStore_proofs ---------------------------
(***************************************************************************)
(* Proofs about the key files.  The invariant follows the keygen command   *)
(* file by file: what it has written so far is whole and is its own, and   *)
(* a session that survives the rewriting knows that it happened.           *)
(***************************************************************************)
EXTENDS KeyStore, TLAPS

\* Keygen has written config.json, and then master.blob.
ConfigWritten == kg.pc \in {"configured", "blob", "stored", "sig", "done"}
BlobWritten == kg.pc \in {"stored", "sig", "done"}

ConfigIsOwn == ConfigWritten => config.st = "whole" /\ config.set = kg.set

BlobIsOwn ==
  BlobWritten => /\ blob.st = "whole" /\ blob.key = kg.key
                 /\ blob.pass = kg.pass /\ blob.kdf = kg.set.kdf

WholeIsOldOrNew ==
  /\ blob.st = "whole" => blob.key \in {kg.prior, kg.key} /\ blob.key \in 1 .. MaxKeys
  /\ kg.pc \notin {"idle", "failed"} => kg.key \in 1 .. MaxKeys

RewritingTouches == kg.pc \in {"config", "configured", "blob", "stored", "sig"} => touched

SigIsOwn == kg.pc = "sig" => sig.st = "torn"

Inv ==
  /\ TypeOK
  /\ ConfigIsOwn /\ BlobIsOwn /\ WholeIsOldOrNew
  /\ RewritingTouches /\ SigIsOwn
  /\ SessionKeyLoads /\ SignatureFresh

USE DEF NoKey, Junk, Kdfs, Settings, Pass, Config, Blob, Sig, Keygen, Session,
  NotMounted, Torn

\* The invariant holds of a volume without key files.
LEMMA InitInv == Init => Inv
<1> SUFFICES ASSUME Init PROVE Inv
  OBVIOUS
<1>1. PICK set \in Settings :
        /\ config = [st |-> "absent", set |-> set]
        /\ blob = [st |-> "absent", key |-> Junk, pass |-> NoPass, kdf |-> "default"]
        /\ sig = [st |-> "absent", key |-> Junk, set |-> set]
        /\ kg = [pc |-> "idle", key |-> Junk, pass |-> NoPass, set |-> set,
                 dev |-> FALSE, prior |-> NoKey]
        /\ drawn = 0 /\ touched = FALSE
        /\ session = NotMounted
  <2>1. PICK l \in PlainLists : TRUE
    BY KeyAssumption DEF KeyAssumption
  <2>2. [kdf |-> "default", plain |-> l] \in Settings
    BY <2>1
  <2> DEFINE x == CHOOSE x \in Settings : TRUE
  <2>3. x \in Settings
    BY <2>2
  <2> QED BY <2>3 DEF Init
<1>2. TypeOK
  <2>1. config \in Config /\ sig \in Sig /\ blob \in Blob
    BY <1>1, KeyAssumption DEF KeyAssumption
  <2>2. kg \in Keygen
    BY <1>1, KeyAssumption DEF KeyAssumption
  <2>3. drawn \in 0 .. MaxKeys /\ session \in Session
    BY <1>1, KeyAssumption DEF KeyAssumption
  <2>4. touched \in BOOLEAN
    BY <1>1
  <2> QED BY <2>1, <2>2, <2>3, <2>4 DEF TypeOK
<1>3. ConfigIsOwn /\ BlobIsOwn /\ WholeIsOldOrNew /\ RewritingTouches /\ SigIsOwn
  BY <1>1 DEF ConfigIsOwn, BlobIsOwn, WholeIsOldOrNew, RewritingTouches,
    SigIsOwn, ConfigWritten, BlobWritten
<1>4. SessionKeyLoads /\ SignatureFresh
  BY <1>1 DEF SessionKeyLoads, SignatureFresh
<1> QED BY <1>2, <1>3, <1>4 DEF Inv

\* fatcrypt_keygen up to the directories starts with no file written.
LEMMA BeginInv ==
  ASSUME Inv, NEW typed \in Pass, NEW confirm, NEW set \in Settings, NEW dev \in BOOLEAN, Begin(typed, confirm, set, dev)
  PROVE  Inv'
<1> USE KeyAssumption DEF KeyAssumption, Inv, TypeOK
<1>1. UNCHANGED <<config, blob, sig>>
  BY DEF Begin
<1>2. session' \in Session
  BY DEF Begin, DeviceSession
<1>3. touched' \in BOOLEAN
  BY Zenon DEF Begin
<1>4. (session' = session /\ touched' = touched) \/ session'.key = NoKey
  BY DEF Begin, DeviceSession
<1>5. kg.pc \in {"idle", "failed", "done"}
  BY DEF Begin, Running
<1>6. StoredKey \in 0 .. MaxKeys
  BY DEF StoredKey, WholeIsOldOrNew
<1>7. CASE /\ drawn < MaxKeys /\ drawn' = drawn + 1
           /\ kg' = [pc |-> "begun", key |-> drawn + 1, set |-> set, dev |-> dev,
                     pass |-> Protecting(typed, confirm), prior |-> StoredKey]
  <2>1. Protecting(typed, confirm) \in Pass
    BY DEF Protecting
  <2>2. TypeOK'
    BY <1>1, <1>2, <1>3, <1>6, <1>7, <2>1
  <2>3. ConfigIsOwn' /\ BlobIsOwn' /\ RewritingTouches' /\ SigIsOwn' /\ SignatureFresh'
    BY <1>7 DEF ConfigIsOwn, BlobIsOwn, RewritingTouches, SigIsOwn, SignatureFresh,
      ConfigWritten, BlobWritten
  <2>4. WholeIsOldOrNew'
    BY <1>1, <1>7 DEF WholeIsOldOrNew, StoredKey
  <2>5. SessionKeyLoads'
    BY <1>1, <1>4 DEF SessionKeyLoads, Load, load_master_key
  <2> QED BY <2>2, <2>3, <2>4, <2>5 DEF Inv
<1>8. CASE /\ kg' = [pc |-> "failed", key |-> kg.key, set |-> kg.set, dev |-> dev,
                     pass |-> kg.pass, prior |-> StoredKey]
           /\ drawn' = drawn
  <2>1. TypeOK'
    BY <1>1, <1>2, <1>3, <1>6, <1>8
  <2>2. ConfigIsOwn' /\ BlobIsOwn' /\ RewritingTouches' /\ SigIsOwn' /\ SignatureFresh'
    BY <1>8 DEF ConfigIsOwn, BlobIsOwn, RewritingTouches, SigIsOwn, SignatureFresh,
      ConfigWritten, BlobWritten
  <2>3. WholeIsOldOrNew'
    BY <1>1, <1>8 DEF WholeIsOldOrNew, StoredKey
  <2>4. SessionKeyLoads'
    BY <1>1, <1>4 DEF SessionKeyLoads, Load, load_master_key
  <2> QED BY <2>1, <2>2, <2>3, <2>4 DEF Inv
<1> QED BY <1>7, <1>8 DEF Begin

\* Truncating config.json is noted by a session.
LEMMA OpenConfigInv ==
  ASSUME Inv, OpenConfig
  PROVE  Inv'
<1> USE KeyAssumption DEF KeyAssumption, Inv, TypeOK
<1>1. TypeOK'
  <2>1. config' \in Config /\ blob' \in Blob /\ sig' \in Sig /\ drawn' \in 0 .. MaxKeys
    BY DEF OpenConfig, Step
  <2>2. kg' \in Keygen
    BY DEF OpenConfig, Step
  <2>3. session' \in Session
    BY DEF OpenConfig, Step
  <2>4. touched' \in BOOLEAN
    BY DEF OpenConfig, Step
  <2> QED BY <2>1, <2>2, <2>3, <2>4 DEF TypeOK
<1>2. ConfigIsOwn' /\ BlobIsOwn'
  BY DEF OpenConfig, Step, ConfigIsOwn, BlobIsOwn, ConfigWritten, BlobWritten
<1>3. WholeIsOldOrNew' /\ RewritingTouches' /\ SigIsOwn'
  BY DEF OpenConfig, Step, WholeIsOldOrNew, RewritingTouches, SigIsOwn
<1>4. SessionKeyLoads'
  BY DEF OpenConfig, Step, SessionKeyLoads, RewritingTouches, Load, load_master_key
<1>5. SignatureFresh'
  BY DEF OpenConfig, Step, SignatureFresh, SigIsOwn, ConfigIsOwn, ConfigWritten
<1> QED BY <1>1, <1>2, <1>3, <1>4, <1>5 DEF Inv

\* config.json becomes whole and is the one of this keygen.
LEMMA WriteConfigInv ==
  ASSUME Inv, WriteConfig
  PROVE  Inv'
<1> USE KeyAssumption DEF KeyAssumption, Inv, TypeOK
<1>1. TypeOK'
  BY DEF WriteConfig, Step
<1>2. ConfigIsOwn' /\ BlobIsOwn'
  BY DEF WriteConfig, Step, ConfigIsOwn, BlobIsOwn, ConfigWritten, BlobWritten
<1>3. WholeIsOldOrNew' /\ RewritingTouches' /\ SigIsOwn'
  BY DEF WriteConfig, Step, WholeIsOldOrNew, RewritingTouches, SigIsOwn
<1>4. SessionKeyLoads'
  BY DEF WriteConfig, Step, SessionKeyLoads, RewritingTouches, Load, load_master_key
<1>5. SignatureFresh'
  BY DEF WriteConfig, Step, SignatureFresh, SigIsOwn, ConfigIsOwn, ConfigWritten
<1> QED BY <1>1, <1>2, <1>3, <1>4, <1>5 DEF Inv

\* Truncating master.blob leaves no key.
LEMMA OpenBlobInv ==
  ASSUME Inv, OpenBlob
  PROVE  Inv'
<1> USE KeyAssumption DEF KeyAssumption, Inv, TypeOK
<1>1. TypeOK'
  <2>1. config' \in Config /\ blob' \in Blob /\ sig' \in Sig /\ drawn' \in 0 .. MaxKeys
    BY DEF OpenBlob, Step
  <2>2. kg' \in Keygen
    BY DEF OpenBlob, Step
  <2>3. session' \in Session
    BY DEF OpenBlob, Step
  <2>4. touched' \in BOOLEAN
    BY DEF OpenBlob, Step
  <2> QED BY <2>1, <2>2, <2>3, <2>4 DEF TypeOK
<1>2. ConfigIsOwn' /\ BlobIsOwn'
  BY DEF OpenBlob, Step, ConfigIsOwn, BlobIsOwn, ConfigWritten, BlobWritten
<1>3. WholeIsOldOrNew' /\ RewritingTouches' /\ SigIsOwn'
  BY DEF OpenBlob, Step, WholeIsOldOrNew, RewritingTouches, SigIsOwn
<1>4. SessionKeyLoads'
  BY DEF OpenBlob, Step, SessionKeyLoads, RewritingTouches, Load, load_master_key
<1>5. SignatureFresh'
  BY DEF OpenBlob, Step, SignatureFresh, SigIsOwn, ConfigIsOwn, ConfigWritten
<1> QED BY <1>1, <1>2, <1>3, <1>4, <1>5 DEF Inv

\* master.blob becomes whole with the new key, is removed or stays torn.
LEMMA WriteBlobInv ==
  ASSUME Inv, WriteBlob
  PROVE  Inv'
<1> USE KeyAssumption DEF KeyAssumption, Inv, TypeOK
<1>1. TypeOK'
  BY DEF WriteBlob, Step, stored_kdf, stored_key
<1>2. ConfigIsOwn' /\ BlobIsOwn'
  BY DEF WriteBlob, Step, stored_kdf, stored_key, ConfigIsOwn, BlobIsOwn, ConfigWritten, BlobWritten
<1>3. WholeIsOldOrNew' /\ RewritingTouches' /\ SigIsOwn'
  BY DEF WriteBlob, Step, stored_kdf, stored_key, WholeIsOldOrNew, RewritingTouches, SigIsOwn
<1>4. SessionKeyLoads'
  BY DEF WriteBlob, Step, stored_kdf, stored_key, SessionKeyLoads, RewritingTouches, Load, load_master_key
<1>5. SignatureFresh'
  BY DEF WriteBlob, Step, stored_kdf, stored_key, SignatureFresh, SigIsOwn, ConfigIsOwn, ConfigWritten
<1> QED BY <1>1, <1>2, <1>3, <1>4, <1>5 DEF Inv

\* Opening config.sig leaves no earlier signature.
LEMMA OpenSigInv ==
  ASSUME Inv, OpenSig
  PROVE  Inv'
<1> USE KeyAssumption DEF KeyAssumption, Inv, TypeOK
<1>1. TypeOK'
  BY DEF OpenSig, Step
<1>2. ConfigIsOwn' /\ BlobIsOwn'
  BY DEF OpenSig, Step, ConfigIsOwn, BlobIsOwn, ConfigWritten, BlobWritten
<1>3. WholeIsOldOrNew' /\ RewritingTouches' /\ SigIsOwn'
  BY DEF OpenSig, Step, WholeIsOldOrNew, RewritingTouches, SigIsOwn
<1>4. SessionKeyLoads'
  BY DEF OpenSig, Step, SessionKeyLoads, RewritingTouches, Load, load_master_key
<1>5. SignatureFresh'
  BY DEF OpenSig, Step, SignatureFresh, SigIsOwn, ConfigIsOwn, ConfigWritten
<1> QED BY <1>1, <1>2, <1>3, <1>4, <1>5 DEF Inv

\* The signature is one of the configuration just written.
LEMMA WriteSigInv ==
  ASSUME Inv, WriteSig
  PROVE  Inv'
<1> USE KeyAssumption DEF KeyAssumption, Inv, TypeOK
<1>1. TypeOK'
  BY DEF WriteSig, Step
<1>2. ConfigIsOwn' /\ BlobIsOwn'
  BY DEF WriteSig, Step, ConfigIsOwn, BlobIsOwn, ConfigWritten, BlobWritten
<1>3. WholeIsOldOrNew' /\ RewritingTouches' /\ SigIsOwn'
  BY DEF WriteSig, Step, WholeIsOldOrNew, RewritingTouches, SigIsOwn
<1>4. SessionKeyLoads'
  BY DEF WriteSig, Step, SessionKeyLoads, RewritingTouches, Load, load_master_key
<1>5. SignatureFresh'
  BY DEF WriteSig, Step, SignatureFresh, SigIsOwn, ConfigIsOwn, ConfigWritten
<1> QED BY <1>1, <1>2, <1>3, <1>4, <1>5 DEF Inv

\* Unmounting after keygen on a device changes no file.
LEMMA UnmountDeviceInv ==
  ASSUME Inv, UnmountDevice
  PROVE  Inv'
<1> USE KeyAssumption DEF KeyAssumption, Inv, TypeOK
<1>1. TypeOK'
  <2>1. config' \in Config /\ blob' \in Blob /\ sig' \in Sig /\ drawn' \in 0 .. MaxKeys
    BY DEF UnmountDevice, Running
  <2>2. kg' \in Keygen
    BY DEF UnmountDevice, Running
  <2>3. session' \in Session
    <3>1. NotMounted \in Session
      OBVIOUS
    <3>2. session' = session \/ session' = NotMounted
      BY Zenon DEF UnmountDevice
    <3> QED BY <3>1, <3>2
  <2>4. touched' \in BOOLEAN
    BY DEF UnmountDevice, Running
  <2> QED BY <2>1, <2>2, <2>3, <2>4 DEF TypeOK
<1>2. ConfigIsOwn' /\ BlobIsOwn'
  BY DEF UnmountDevice, Running, ConfigIsOwn, BlobIsOwn, ConfigWritten, BlobWritten
<1>3. WholeIsOldOrNew' /\ RewritingTouches' /\ SigIsOwn'
  BY DEF UnmountDevice, Running, WholeIsOldOrNew, RewritingTouches, SigIsOwn
<1>4. SessionKeyLoads'
  BY DEF UnmountDevice, Running, SessionKeyLoads, RewritingTouches, Load, load_master_key
<1>5. SignatureFresh'
  BY DEF UnmountDevice, Running, SignatureFresh, SigIsOwn, ConfigIsOwn, ConfigWritten
<1> QED BY <1>1, <1>2, <1>3, <1>4, <1>5 DEF Inv

\* A session gets the key that the files load.
LEMMA MountInv ==
  ASSUME Inv, NEW encrypt \in BOOLEAN, NEW readonly \in BOOLEAN, NEW p \in Pass, Mount(encrypt, readonly, p)
  PROVE  Inv'
<1> USE KeyAssumption DEF KeyAssumption, Inv, TypeOK
<1>1. TypeOK'
  <2>1. config' \in Config /\ blob' \in Blob /\ sig' \in Sig /\ drawn' \in 0 .. MaxKeys
    BY DEF Mount, Running
  <2>2. kg' \in Keygen
    BY DEF Mount, Running
  <2>3. session' \in Session
    BY DEF Mount, Running, Load, load_master_key
  <2>4. touched' \in BOOLEAN
    BY DEF Mount, Running
  <2> QED BY <2>1, <2>2, <2>3, <2>4 DEF TypeOK
<1>2. ConfigIsOwn' /\ BlobIsOwn'
  BY DEF Mount, Running, ConfigIsOwn, BlobIsOwn, ConfigWritten, BlobWritten
<1>3. WholeIsOldOrNew' /\ RewritingTouches' /\ SigIsOwn'
  BY DEF Mount, Running, WholeIsOldOrNew, RewritingTouches, SigIsOwn
<1>4. SessionKeyLoads'
  BY DEF Mount, Running, SessionKeyLoads, RewritingTouches, Load, load_master_key, Loaded
<1>5. SignatureFresh'
  BY DEF Mount, Running, SignatureFresh, SigIsOwn, ConfigIsOwn, ConfigWritten
<1> QED BY <1>1, <1>2, <1>3, <1>4, <1>5 DEF Inv

\* Unmounting changes no file.
LEMMA UnmountInv ==
  ASSUME Inv, Unmount
  PROVE  Inv'
<1> USE KeyAssumption DEF KeyAssumption, Inv, TypeOK
<1>1. TypeOK'
  <2>1. config' \in Config /\ blob' \in Blob /\ sig' \in Sig /\ drawn' \in 0 .. MaxKeys
    BY DEF Unmount, Running
  <2>2. kg' \in Keygen
    BY DEF Unmount, Running
  <2>3. session' \in Session
    BY DEF Unmount, Running
  <2>4. touched' \in BOOLEAN
    BY DEF Unmount, Running
  <2> QED BY <2>1, <2>2, <2>3, <2>4 DEF TypeOK
<1>2. ConfigIsOwn' /\ BlobIsOwn'
  BY DEF Unmount, Running, ConfigIsOwn, BlobIsOwn, ConfigWritten, BlobWritten
<1>3. WholeIsOldOrNew' /\ RewritingTouches' /\ SigIsOwn'
  BY DEF Unmount, Running, WholeIsOldOrNew, RewritingTouches, SigIsOwn
<1>4. SessionKeyLoads'
  BY DEF Unmount, Running, SessionKeyLoads, RewritingTouches, Load, load_master_key
<1>5. SignatureFresh'
  BY DEF Unmount, Running, SignatureFresh, SigIsOwn, ConfigIsOwn, ConfigWritten
<1> QED BY <1>1, <1>2, <1>3, <1>4, <1>5 DEF Inv

\* An interrupted keygen has failed with the files as they are.
LEMMA CrashInv ==
  ASSUME Inv, Crash
  PROVE  Inv'
<1> USE KeyAssumption DEF KeyAssumption, Inv, TypeOK
<1>1. TypeOK'
  <2>1. config' \in Config /\ blob' \in Blob /\ sig' \in Sig /\ drawn' \in 0 .. MaxKeys
    BY DEF Crash, Running
  <2>2. kg' \in Keygen
    BY DEF Crash, Running
  <2>3. session' \in Session
    <3>1. NotMounted \in Session
      OBVIOUS
    <3>2. session' = session \/ session' = NotMounted
      BY Zenon DEF Crash
    <3> QED BY <3>1, <3>2
  <2>4. touched' \in BOOLEAN
    BY DEF Crash, Running
  <2> QED BY <2>1, <2>2, <2>3, <2>4 DEF TypeOK
<1>2. ConfigIsOwn' /\ BlobIsOwn'
  BY DEF Crash, Running, ConfigIsOwn, BlobIsOwn, ConfigWritten, BlobWritten
<1>3. WholeIsOldOrNew' /\ RewritingTouches' /\ SigIsOwn'
  BY DEF Crash, Running, WholeIsOldOrNew, RewritingTouches, SigIsOwn
<1>4. SessionKeyLoads'
  BY DEF Crash, Running, SessionKeyLoads, RewritingTouches, Load, load_master_key
<1>5. SignatureFresh'
  BY DEF Crash, Running, SignatureFresh, SigIsOwn, ConfigIsOwn, ConfigWritten
<1> QED BY <1>1, <1>2, <1>3, <1>4, <1>5 DEF Inv
\* Every step of a keygen and of a mount keeps the invariant.
LEMMA NextInv == Inv /\ [Next]_vars => Inv'
<1> SUFFICES ASSUME Inv, [Next]_vars PROVE Inv'
  OBVIOUS
<1>1. CASE UNCHANGED vars
  BY <1>1 DEF vars, Inv, TypeOK, ConfigIsOwn, BlobIsOwn, WholeIsOldOrNew, RewritingTouches,
    SigIsOwn, SessionKeyLoads, SignatureFresh, ConfigWritten, BlobWritten, Load, load_master_key
<1>2. CASE \E typed \in Pass, confirm \in {"same", "different", "unreadable"},
            set \in Settings, dev \in BOOLEAN : Begin(typed, confirm, set, dev)
  BY <1>2, BeginInv
<1>3. CASE OpenConfig \/ WriteConfig \/ OpenBlob \/ WriteBlob \/ OpenSig \/ WriteSig
  BY <1>3, OpenConfigInv, WriteConfigInv, OpenBlobInv, WriteBlobInv, OpenSigInv, WriteSigInv
<1>4. CASE UnmountDevice \/ Unmount \/ Crash
  BY <1>4, UnmountDeviceInv, UnmountInv, CrashInv
<1>5. CASE \E encrypt, ro, rw, rwplus, force \in BOOLEAN, p \in Pass :
            Mount(encrypt, ReadOnly(ro, rw, rwplus, force), p)
  <2>1. PICK encrypt, ro, rw, rwplus, force \in BOOLEAN, p \in Pass :
          Mount(encrypt, ReadOnly(ro, rw, rwplus, force), p)
    BY <1>5
  <2>2. ReadOnly(ro, rw, rwplus, force) \in BOOLEAN
    BY Zenon DEF ReadOnly
  <2> QED BY <2>1, <2>2, MountInv
<1> QED BY <1>1, <1>2, <1>3, <1>4, <1>5 DEF Next

\* The invariant holds in every reachable state.
LEMMA InvHolds == Spec => []Inv
BY InitInv, NextInv, PTL DEF Spec

\* The key files, the keygen command and the mount are well typed, for any
\* number of keygens, passphrases and plaintext lists.
THEOREM TypeCorrect == Spec => []TypeOK
<1>1. Inv => TypeOK
  BY DEF Inv
<1> QED BY <1>1, InvHolds, PTL

\* Success of keygen means that a mount loads its key, whatever failed or was
\* interrupted before.
THEOREM SuccessYieldsKey == Spec => []KeygenYieldsKey
<1>1. Inv => KeygenYieldsKey
  BY DEF Inv, KeygenYieldsKey, ConfigIsOwn, BlobIsOwn, ConfigWritten, BlobWritten, Load,
    load_master_key
<1> QED BY <1>1, InvHolds, PTL

\* An interrupted keygen leaves the old key, the new key or none.
THEOREM OldOrNewKey == Spec => []LoadsOldOrNew
<1>1. Inv => LoadsOldOrNew
  BY KeyAssumption DEF KeyAssumption, Inv, LoadsOldOrNew, WholeIsOldOrNew, Load, load_master_key
<1> QED BY <1>1, InvHolds, PTL

\* The key of a session is the one its volume loads, until a keygen rewrites
\* the key files under it.
THEOREM SessionKeyStays == Spec => []SessionKeyLoads
<1>1. Inv => SessionKeyLoads
  BY DEF Inv
<1> QED BY <1>1, InvHolds, PTL

\* After a successful keygen no signature of an earlier one is left.
THEOREM SignatureIsFresh == Spec => []SignatureFresh
<1>1. Inv => SignatureFresh
  BY DEF Inv
<1> QED BY <1>1, InvHolds, PTL
=============================================================================
