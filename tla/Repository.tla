----------------------------- MODULE Repository -----------------------------
(***************************************************************************)
(* The encrypted device repository: open(), update() and atomic_write(),   *)
(* step by step over a file system that can fail at each call, with the    *)
(* process killed or the power lost between any two of them.               *)
(*                                                                         *)
(* A directory entry is what processes see now (seen) and what a power     *)
(* loss is sure to leave (durable).  Contents are synced before a rename,  *)
(* so an entry never names a torn file; only the entry itself may be lost. *)
(* The .pending file of a write is truncated by the next one and read by   *)
(* nobody, so it is not kept.                                              *)
(***************************************************************************)
EXTENDS Naturals

CONSTANTS
  MaxUpdates,  \* bound on the updates attempted
  MaxKeys      \* bound on the vault keys generated

ASSUME RepositoryBounds == MaxUpdates \in Nat /\ MaxKeys \in Nat

Keys == 1 .. MaxKeys
Updates == 1 .. MaxUpdates

NoKey == 0
NoFile == [key |-> NoKey, catalog |-> 0]  \* devices.v1.enc does not exist

\* devices.v1.enc: the key it is encrypted under and the update it holds.
DeviceFiles == [key : Keys, catalog : Updates] \cup {NoFile}

VARIABLES
  keyFile,      \* vault-key.protected, as [seen, durable]
  deviceFile,   \* devices.v1.enc, as [seen, durable]
  status,       \* closed; broken (open returned Err); opening; ready; updating
  vaultKey,     \* DeviceRepository.key
  catalog,      \* DeviceRepository.catalog, as the update that produced it
  step,         \* where atomic_write stands: none, temp, rename or sync
  attempted,    \* number of the last update attempted
  generated,    \* number of the last key generated
  acked,        \* history: the last update that returned Ok
  failed        \* history: the updates that returned Err

disk == <<keyFile, deviceFile>>
memory == <<status, vaultKey, catalog, step>>
history == <<attempted, generated, acked, failed>>
vars == <<disk, memory, history>>

TypeOK ==
  /\ keyFile \in [seen : Keys \cup {NoKey}, durable : Keys \cup {NoKey}]
  /\ deviceFile \in [seen : DeviceFiles, durable : DeviceFiles]
  /\ status \in {"closed", "broken", "opening", "ready", "updating"}
  /\ vaultKey \in Keys \cup {NoKey}
  /\ catalog \in Updates \cup {0}
  /\ step \in {"none", "temp", "rename", "sync"}
  /\ attempted \in 0 .. MaxUpdates
  /\ generated \in 0 .. MaxKeys
  /\ acked \in Updates \cup {0}
  /\ failed \subseteq Updates

Init ==
  /\ keyFile = [seen |-> NoKey, durable |-> NoKey]
  /\ deviceFile = [seen |-> NoFile, durable |-> NoFile]
  /\ status = "closed" /\ vaultKey = NoKey /\ catalog = 0 /\ step = "none"
  /\ attempted = 0 /\ generated = 0 /\ acked = 0 /\ failed = {}

-----------------------------------------------------------------------------
(* open()                                                                  *)

\* decrypt(): the authenticated decryption accepts only the key the envelope
\* was sealed under.
Decrypts(file, key) == file.key = key

\* read_catalog: a missing file is the empty catalogue.
Readable(file, key) == file = NoFile \/ Decrypts(file, key)

\* The end of open(): load the catalogue with the key at hand.
Load(key) ==
  IF Readable(deviceFile.seen, key)
    THEN /\ status' = "ready" /\ vaultKey' = key /\ catalog' = deviceFile.seen.catalog
         /\ step' = "none"
    ELSE /\ status' = "broken" /\ vaultKey' = NoKey /\ catalog' = 0 /\ step' = "none"

\* The key file exists and the platform unprotects it.
OpenWithKey ==
  /\ status = "closed" /\ keyFile.seen # NoKey
  /\ Load(keyFile.seen)
  /\ UNCHANGED <<disk, history>>

MutantMayGenerateKey == TRUE

\* A missing key is replaced only when there is no device file to lose.
MayGenerateKey == deviceFile.seen = NoFile

\* open() fails: the platform refuses the key, or the key is lost and the
\* device file is left alone.
OpenFails ==
  /\ status = "closed"
  /\ keyFile.seen # NoKey \/ ~ MayGenerateKey
  /\ status' = "broken"
  /\ UNCHANGED <<disk, vaultKey, catalog, step, history>>

\* First start: a fresh key, to be written before anything else.
GenerateKey ==
  /\ status = "closed" /\ keyFile.seen = NoKey /\ MayGenerateKey
  /\ generated < MaxKeys
  /\ generated' = generated + 1
  /\ status' = "opening" /\ vaultKey' = generated + 1 /\ step' = "temp"
  /\ UNCHANGED <<disk, catalog, attempted, acked, failed>>

-----------------------------------------------------------------------------
(* update()                                                                *)

MutantCatalogWhileWriting == attempted + 1

\* The change works on a copy of the catalogue.
CatalogWhileWriting == catalog

\* The change is validated, serialised and encrypted, then written.
Update ==
  /\ status = "ready" /\ attempted < MaxUpdates
  /\ attempted' = attempted + 1
  /\ status' = "updating" /\ step' = "temp"
  /\ catalog' = CatalogWhileWriting
  /\ UNCHANGED <<disk, vaultKey, generated, acked, failed>>

-----------------------------------------------------------------------------
(* atomic_write(): write and sync the .pending file, rename it over the    *)
(* target, sync the directory.                                             *)

WriteTemp ==
  /\ step = "temp"
  /\ step' = "rename"
  /\ UNCHANGED <<disk, status, vaultKey, catalog, history>>

Rename ==
  /\ step = "rename"
  /\ step' = "sync"
  /\ IF status = "opening"
       THEN keyFile' = [keyFile EXCEPT !.seen = vaultKey] /\ UNCHANGED deviceFile
       ELSE /\ deviceFile' = [deviceFile EXCEPT !.seen = [key |-> vaultKey, catalog |-> attempted]]
            /\ UNCHANGED keyFile
  /\ UNCHANGED <<status, vaultKey, catalog, history>>

MutantAfterSync(file) == file

\* Syncing the directory makes its entries durable.
AfterSync(file) == [file EXCEPT !.durable = file.seen]

\* atomic_write returns Ok: open() goes on to load, update() commits in memory.
SyncDirectory ==
  /\ step = "sync"
  /\ keyFile' = AfterSync(keyFile)
  /\ deviceFile' = AfterSync(deviceFile)
  /\ IF status = "opening"
       THEN Load(vaultKey) /\ UNCHANGED acked
       ELSE /\ status' = "ready" /\ step' = "none" /\ UNCHANGED vaultKey
            /\ catalog' = attempted /\ acked' = attempted
  /\ UNCHANGED <<attempted, generated, failed>>

MutantStatusAfterFailure == "ready"

\* open() passes the error on; after a failed update() the repository goes on.
StatusAfterFailure == IF status = "opening" THEN "broken" ELSE "ready"

\* A call of atomic_write fails, at any of its steps: nothing is rolled back.
WriteFails ==
  /\ step # "none"
  /\ step' = "none"
  /\ status' = StatusAfterFailure
  /\ IF status = "opening"
       THEN vaultKey' = NoKey /\ UNCHANGED failed
       ELSE failed' = failed \cup {attempted} /\ UNCHANGED vaultKey
  /\ UNCHANGED <<disk, catalog, attempted, generated, acked>>

-----------------------------------------------------------------------------
(* The environment.                                                        *)

Forget == status' = "closed" /\ vaultKey' = NoKey /\ catalog' = 0 /\ step' = "none"

\* The process ends or is killed; the file system keeps what it showed.
Restart ==
  /\ status # "closed"
  /\ Forget
  /\ UNCHANGED <<disk, history>>

\* The power fails: each entry comes back as it was seen or as it was durable.
PowerLoss ==
  /\ Forget
  /\ \E k \in {keyFile.seen, keyFile.durable} : keyFile' = [seen |-> k, durable |-> k]
  /\ \E d \in {deviceFile.seen, deviceFile.durable} : deviceFile' = [seen |-> d, durable |-> d]
  /\ UNCHANGED history

\* The key file is lost, by a restore of a backup or a cleaner.
LoseKey ==
  /\ keyFile.seen # NoKey
  /\ keyFile' = [seen |-> NoKey, durable |-> NoKey]
  /\ UNCHANGED <<deviceFile, memory, history>>

Next ==
  \/ OpenWithKey \/ OpenFails \/ GenerateKey
  \/ Update
  \/ WriteTemp \/ Rename \/ SyncDirectory \/ WriteFails
  \/ Restart \/ PowerLoss \/ LoseKey

Spec == Init /\ [][Next]_vars

-----------------------------------------------------------------------------
(* Properties.                                                             *)

\* An update that returned Ok is on the disk for good, it or a later one:
\* neither a crash nor a failing write takes it back.
AckedSurvives == acked # 0 => deviceFile.durable.catalog >= acked

\* "Missing keys produce an error instead of overwriting": whatever opens,
\* crashes and losses happen, the key file never holds another key than the
\* one the device file needs.
KeyMatchesDevices ==
  keyFile.seen # NoKey /\ deviceFile.seen # NoFile => keyFile.seen = deviceFile.seen.key

\* An opened repository can read what is on the disk, and shows nothing the
\* disk does not hold: "commit on disk first".
DiskFirst ==
  status \in {"ready", "updating"} =>
    /\ deviceFile.seen # NoFile => deviceFile.seen.key = vaultKey
    /\ catalog <= deviceFile.seen.catalog

\* "failed writes never change the visible catalog" (the comment on update).
FailedStaysInvisible == status = "ready" => catalog \notin failed

=============================================================================
