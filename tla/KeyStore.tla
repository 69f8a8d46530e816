------------------------------ MODULE KeyStore ------------------------------
(***************************************************************************)
(* The key files of a volume (.fat_crypt/config.json, keys/master.blob,    *)
(* config.sig), the keygen command that rewrites them in place one after   *)
(* the other, and the mounts that load the master key from them.  keygen   *)
(* can fail at every file and be interrupted between any two of them; it   *)
(* works on a mounted directory, whose FUSE session may hold an older key, *)
(* or mounts a device for itself.                                          *)
(***************************************************************************)
EXTENDS Naturals

CONSTANTS
  Passphrases,  (* the nonempty passphrases users type                     *)
  NoPass,       (* none, or an empty one                                   *)
  PlainLists,   (* plaintext file and directory lists of a configuration   *)
  MaxKeys       (* bound: keygen commands                                  *)

ASSUME KeyAssumption ==
  NoPass \notin Passphrases /\ PlainLists # {} /\ MaxKeys \in Nat

VARIABLES
  config,   (* config.json                                                 *)
  blob,     (* keys/master.blob                                            *)
  sig,      (* config.sig                                                  *)
  kg,       (* the keygen command: progress, key, passphrase, settings     *)
  drawn,    (* master keys drawn so far; key number n is the n-th          *)
  session,  (* the FUSE mount of the volume                                *)
  touched   (* history: a keygen has opened config.json since the mount    *)

vars == <<config, blob, sig, kg, drawn, session, touched>>

\* No master key, and bytes that are none.
NoKey == 0
Junk == MaxKeys + 1

\* scrypt cost, block size and parallelism: the defaults, and those of --3ds.
Kdfs == {"default", "3ds"}

Settings == [kdf : Kdfs, plain : PlainLists]

Pass == Passphrases \cup {NoPass}

\* The contents of the three files.  A torn file is a proper prefix: json-c
\* and the length checks of fatcrypt_load_master_key reject it.
Config == [st : {"absent", "torn", "whole"}, set : Settings]

Blob == [st : {"absent", "torn", "whole"}, key : 1 .. Junk, pass : Pass, kdf : Kdfs]

Sig == [st : {"absent", "torn", "whole"}, key : 1 .. Junk, set : Settings]

Keygen ==
  [pc : {"idle", "begun", "config", "configured", "blob", "stored", "sig",
         "done", "failed"},
   key : 1 .. Junk, pass : Pass, set : Settings, dev : BOOLEAN, prior : 0 .. Junk]

Session == [up : BOOLEAN, rw : BOOLEAN, key : 0 .. Junk, pass : Pass]

NotMounted == [up |-> FALSE, rw |-> FALSE, key |-> NoKey, pass |-> NoPass]

\* The mount keygen makes of a device: -o rw+ and without -e.
DeviceSession == [up |-> TRUE, rw |-> TRUE, key |-> NoKey, pass |-> NoPass]
-----------------------------------------------------------------------------
(* Loading.                                                                *)

\* Mutant: the lengths in master.blob are not checked.
load_master_key_unchecked(c, b, p) ==
  IF b.st # "absent" /\ (b.pass = NoPass \/ (p = b.pass /\ c.kdf = b.kdf))
    THEN b.key ELSE NoKey

\* fatcrypt_load_master_key: a key stored under a passphrase opens with that
\* passphrase and the scrypt parameters it was stored with.
load_master_key(c, b, p) ==
  IF b.st = "whole" /\ (b.pass = NoPass \/ (p = b.pass /\ c.kdf = b.kdf))
    THEN b.key ELSE NoKey

\* fff_init's crypto part: config.json, then master.blob; NoKey on failure.
Load(c, b, p) == IF c.st = "whole" THEN load_master_key(c.set, b, p) ELSE NoKey
-----------------------------------------------------------------------------
(* keygen.                                                                 *)

Running == kg.pc \notin {"idle", "failed", "done"}

\* The volume the keygen command works on takes writes: a directory mounted
\* by someone else, or a FUSE session that is not read-only.
Writable == session.up => session.rw

Step(from, to) == kg.pc = from /\ kg' = [kg EXCEPT !.pc = to]

\* The passphrase that protects the key.  A confirmation that cannot be read
\* drops the passphrase.
Protecting(typed, confirm) == IF confirm = "unreadable" THEN NoPass ELSE typed

\* The key a whole master.blob holds.
StoredKey == IF blob.st = "whole" THEN blob.key ELSE NoKey

\* The start of fatcrypt_keygen: passphrase, master key and directories.  A
\* device is mounted first.
Begin(typed, confirm, set, dev) ==
  /\ ~Running /\ ~kg.dev
  /\ dev => ~session.up
  /\ session' = IF dev THEN DeviceSession ELSE session
  /\ touched' = (touched /\ ~dev)
  /\ UNCHANGED <<config, blob, sig>>
  /\ \/ /\ drawn < MaxKeys
        /\ confirm = "different" => typed = NoPass
        /\ drawn' = drawn + 1
        /\ kg' = [pc |-> "begun", key |-> drawn + 1, set |-> set, dev |-> dev,
                  pass |-> Protecting(typed, confirm), prior |-> StoredKey]
     \/ /\ kg' = [pc |-> "failed", key |-> kg.key, set |-> kg.set, dev |-> dev,
                  pass |-> kg.pass, prior |-> StoredKey]
        /\ drawn' = drawn

\* write_json_file: fopen truncates what was there.
OpenConfig ==
  /\ UNCHANGED <<blob, sig, drawn, session>>
  /\ \/ /\ Writable
        /\ Step("begun", "config")
        /\ config' = [config EXCEPT !.st = "torn"]
        /\ touched' = TRUE
     \/ Step("begun", "failed") /\ UNCHANGED <<config, touched>>

WriteConfig ==
  /\ UNCHANGED <<blob, sig, drawn, session, touched>>
  /\ \/ Step("config", "configured") /\ config' = [st |-> "whole", set |-> kg.set]
     \/ Step("config", "failed") /\ UNCHANGED config

Torn(b) == [st |-> "torn", key |-> Junk, pass |-> b.pass, kdf |-> b.kdf]

OpenBlob ==
  /\ UNCHANGED <<config, sig, drawn, session, touched>>
  /\ \/ Step("configured", "blob") /\ blob' = Torn(blob)
     \/ Step("configured", "failed") /\ UNCHANGED blob

\* Mutant: the key is always derived with the default scrypt parameters.
stored_kdf_default == "default"

\* store_master_key uses the parameters written to config.json.
stored_kdf == kg.set.kdf

\* Mutant: the key is wiped before it is stored.
stored_key_wiped == NoKey

stored_key == kg.key

\* store_master_key: a write error removes the file; a salt that cannot be
\* drawn or a failing fclose leaves a torn one.
WriteBlob ==
  /\ UNCHANGED <<config, sig, drawn, session, touched>>
  /\ \/ /\ Step("blob", "stored")
        /\ blob' = [st |-> "whole", key |-> stored_key, pass |-> kg.pass, kdf |-> stored_kdf]
     \/ Step("blob", "failed") /\ blob' = [blob EXCEPT !.st = "absent"]
     \/ Step("blob", "failed") /\ UNCHANGED blob

\* Mutant: config.sig is opened without truncating it.
OpenSigInPlace ==
  /\ UNCHANGED <<config, blob, drawn, session, touched>>
  /\ \/ Step("stored", "sig") /\ config.st = "whole" /\ UNCHANGED sig
     \/ Step("stored", "failed") /\ UNCHANGED sig

\* fatcrypt_sign_config reads config.json back and opens config.sig.
OpenSig ==
  /\ UNCHANGED <<config, blob, drawn, session, touched>>
  /\ \/ Step("stored", "sig") /\ config.st = "whole" /\ sig' = [sig EXCEPT !.st = "torn"]
     \/ Step("stored", "failed") /\ UNCHANGED sig

\* The result of fclose is not looked at: the signature may be torn.
WriteSig ==
  /\ UNCHANGED <<config, blob, drawn, session, touched>>
  /\ \/ /\ Step("sig", "done")
        /\ sig' = [st |-> "whole", key |-> kg.key, set |-> config.set]
     \/ Step("sig", "done") /\ UNCHANGED sig
     \/ Step("sig", "failed") /\ sig' = [sig EXCEPT !.st = "absent"]

\* keygen on a device unmounts it again, or warns that it could not.
UnmountDevice ==
  /\ ~Running /\ kg.dev
  /\ kg' = [kg EXCEPT !.dev = FALSE]
  /\ session' = session \/ session' = NotMounted
  /\ UNCHANGED <<config, blob, sig, drawn, touched>>
-----------------------------------------------------------------------------
(* Mounts.                                                                 *)

\* main: -o ro, or neither rw nor rw+, or rw without force.
ReadOnly(ro, rw, rwplus, force) == ro \/ (~rw /\ ~rwplus) \/ (rw /\ ~force)

\* Mutant: a key that does not load is reported and the mount goes on.
Loaded_anyway(encrypt, key) == TRUE

\* With -e the mount comes up only if the key loads.
Loaded(encrypt, key) == encrypt => key # NoKey

\* The volume is not mounted a second time while a keygen works on it.
Mount(encrypt, readonly, p) ==
  LET key == Load(config, blob, p) IN
  /\ ~session.up /\ ~Running
  /\ Loaded(encrypt, key)
  /\ session' = [up |-> TRUE, rw |-> ~readonly,
                 key  |-> IF ~encrypt THEN NoKey ELSE IF key = NoKey THEN Junk ELSE key,
                 pass |-> IF encrypt THEN p ELSE NoPass]
  /\ touched' = FALSE
  /\ UNCHANGED <<config, blob, sig, kg, drawn>>

\* fuse_main returns and fff_destroy clears the key.
Unmount ==
  /\ session.up /\ ~Running
  /\ session' = NotMounted
  /\ UNCHANGED <<config, blob, sig, kg, drawn, touched>>

\* Power loss, or the end of the keygen process alone.
Crash ==
  /\ Running
  /\ kg' = [kg EXCEPT !.pc = "failed", !.dev = FALSE]
  /\ session' = session \/ session' = NotMounted
  /\ UNCHANGED <<config, blob, sig, drawn, touched>>
-----------------------------------------------------------------------------
Init ==
  LET set == CHOOSE x \in Settings : TRUE IN
  /\ config = [st |-> "absent", set |-> set]
  /\ blob = [st |-> "absent", key |-> Junk, pass |-> NoPass, kdf |-> "default"]
  /\ sig = [st |-> "absent", key |-> Junk, set |-> set]
  /\ kg = [pc |-> "idle", key |-> Junk, pass |-> NoPass, set |-> set, dev |-> FALSE,
           prior |-> NoKey]
  /\ drawn = 0
  /\ session = NotMounted
  /\ touched = FALSE

Next ==
  \/ \E typed \in Pass, confirm \in {"same", "different", "unreadable"},
       set \in Settings, dev \in BOOLEAN : Begin(typed, confirm, set, dev)
  \/ OpenConfig \/ WriteConfig
  \/ OpenBlob \/ WriteBlob
  \/ OpenSig \/ WriteSig
  \/ UnmountDevice
  \/ \E encrypt, ro, rw, rwplus, force \in BOOLEAN, p \in Pass :
       Mount(encrypt, ReadOnly(ro, rw, rwplus, force), p)
  \/ Unmount
  \/ Crash

Spec == Init /\ [][Next]_vars
-----------------------------------------------------------------------------
(* Properties.                                                             *)

\* The files, the keygen command and the mount have their types; a keygen
\* never holds a key that was not drawn.
TypeOK ==
  /\ config \in Config /\ blob \in Blob /\ sig \in Sig
  /\ kg \in Keygen
  /\ drawn \in 0 .. MaxKeys
  /\ session \in Session
  /\ touched \in BOOLEAN

\* When keygen reports success, a mount with its passphrase loads the key it
\* drew, whatever earlier keygens left on the volume, and until the next one
\* (fatcrypt_keygen, store_master_key, fatcrypt_load_master_key).
KeygenYieldsKey == kg.pc = "done" => Load(config, blob, kg.pass) = kg.key

\* A keygen that runs, fails or is interrupted leaves a volume that loads the
\* key stored before it, the key it drew, or none: never part of a key.
LoadsOldOrNew ==
  \A p \in Pass : Load(config, blob, p) \in {NoKey, kg.prior, kg.key} \ {Junk}

\* What a session with -e encrypts can be decrypted after the next mount, as
\* long as no keygen has opened config.json in the meantime (fff_init).
SessionKeyLoads ==
  session.up /\ session.key # NoKey /\ ~touched
    => Load(config, blob, session.pass) = session.key

\* After a successful keygen a signature that is there is one of the present
\* configuration under the new key, not of an earlier one (fatcrypt_sign_config).
SignatureFresh ==
  kg.pc = "done" /\ sig.st = "whole" => sig.key = kg.key /\ sig.set = config.set
=============================================================================
