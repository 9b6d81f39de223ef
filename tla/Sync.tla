-------------------------------- MODULE Sync --------------------------------
(***************************************************************************)
(* The record synchronisation library: the two stores it offers, with      *)
(* compare_versions, for one profile edited on several devices.  Records   *)
(* of different profiles do not touch each other.                          *)
(*                                                                         *)
(* The devices are external: nothing in the repository calls the library   *)
(* yet.  They follow the protocol its signatures ask for.  A device keeps  *)
(* its copy in a MemorySyncStore (replica), writes an edit as the revision *)
(* after its copy's, expecting its copy's, and asks its user when          *)
(* compare_versions reports a remote version beside an edit of its own.    *)
(*                                                                         *)
(* Statements of the PostgreSQL store are executed by the server some time *)
(* after they were sent; when a connection is lost the device does not     *)
(* know whether the last one was, and the server may still execute it.     *)
(***************************************************************************)
EXTENDS Naturals, Sequences, Functions, FiniteSets

CONSTANTS
  Devices,
  MaxEdits,      \* bound on the edits
  MaxRevision,   \* bound on the revisions, far below the i64 they are kept in
  MaxLost        \* bound on the statements whose connection is lost

ASSUME BoundsAssumption == MaxEdits \in Nat /\ MaxRevision \in Nat /\ MaxLost \in Nat

NoRecord == [revision |-> 0, edit |-> 0]
Records == [revision : 1 .. MaxRevision, edit : 1 .. MaxEdits]

\* put_if_revision(record, expected), expected = 0 being None.
Statements == [device : Devices, record : Records, expected : 0 .. MaxRevision - 1]

Idle == [phase |-> "idle"]
Sent(statement) == [phase |-> "sent", statement |-> statement]
Answered(record, stored) == [phase |-> "answered", record |-> record, stored |-> stored]
Fetched(record) == [phase |-> "fetched", record |-> record]

Calls ==
  {Idle} \cup {Sent(s) : s \in Statements}
         \cup {Answered(r, stored) : r \in Records, stored \in BOOLEAN}
         \cup {Fetched(r) : r \in Records \cup {NoRecord}}

VARIABLES
  kind,       \* the store in use: memory or postgres
  table,      \* its record of the profile, or NoRecord
  connected,  \* devices whose PostgresStore is connected
  lost,       \* statements whose connection is gone, not executed yet
  replica,    \* per device, its copy of the record
  unsaved,    \* per device, its edit that is not stored as far as it knows, or 0
  call,       \* per device, its call under way
  edits,      \* edits made so far
  losses,     \* connections lost with a statement under way so far
  chain,      \* history: the edits stored, oldest first
  given       \* history: edits their users gave up or replaced

syncVars == <<kind, table, connected, lost, replica, unsaved, call, edits, losses, chain, given>>

SyncTypeOK ==
  /\ kind \in {"memory", "postgres"}
  /\ table \in Records \cup {NoRecord}
  /\ connected \subseteq Devices
  /\ lost \subseteq Statements
  /\ replica \in [Devices -> Records \cup {NoRecord}]
  /\ unsaved \in [Devices -> 0 .. MaxEdits]
  /\ call \in [Devices -> Calls]
  /\ edits \in 0 .. MaxEdits /\ losses \in 0 .. MaxLost
  /\ chain \in Seq(1 .. MaxEdits)
  /\ given \subseteq 1 .. MaxEdits

SyncInit ==
  /\ kind \in {"memory", "postgres"}
  /\ table = NoRecord /\ connected = {} /\ lost = {}
  /\ replica = [d \in Devices |-> NoRecord]
  /\ unsaved = [d \in Devices |-> 0]
  /\ call = [d \in Devices |-> Idle]
  /\ edits = 0 /\ losses = 0 /\ chain = <<>> /\ given = {}

-----------------------------------------------------------------------------
(* The library.                                                            *)

MutantCompareVersions(local, remote) ==
  CASE local.revision = remote.revision -> "NoChange"
    [] local.revision < remote.revision -> "AppliedRemote"
    [] OTHER -> "Conflict"

\* compare_versions(), for records of one profile.
CompareVersions(local, remote) ==
  CASE local = remote -> "NoChange"
    [] local.revision < remote.revision -> "AppliedRemote"
    [] OTHER -> "Conflict"

\* MemorySyncStore::insert(): the replica after it; a record that is not newer
\* is refused.
Insert(existing, record) ==
  IF record.revision > existing.revision THEN record ELSE existing

MutantPutIfRevision(existing, expected) == expected = 0 \/ existing.revision = expected

\* put_if_revision(): UPDATE ... WHERE revision = expected, or for None INSERT
\* ... ON CONFLICT DO NOTHING.
PutIfRevision(existing, expected) == existing.revision = expected

\* MemorySyncStore::apply_local() stores the record under the next revision.
\* MissingRemote and Conflict store nothing.
ApplyLocal(existing, record, expected) ==
  IF existing.revision # expected THEN existing
  ELSE IF expected = 0 THEN record
  ELSE [record EXCEPT !.revision = existing.revision + 1]

-----------------------------------------------------------------------------
(* The devices.                                                            *)

Base(d) == replica[d].revision
Unsaved(d) == [revision |-> Base(d) + 1, edit |-> unsaved[d]]

Ready(d) == call[d] = Idle /\ (kind = "postgres" => d \in connected)

\* A draft that was stored without an answer, and then built upon, looks like
\* any other conflict: it may be written a second time.
MayWrite(d) == Ready(d) /\ unsaved[d] # 0 /\ Base(d) < MaxRevision

\* The user edits the profile, perhaps again before the last edit is stored.
Edit(d) ==
  /\ call[d] = Idle /\ edits < MaxEdits
  /\ edits' = edits + 1
  /\ unsaved' = [unsaved EXCEPT ![d] = edits + 1]
  /\ given' = IF unsaved[d] = 0 THEN given ELSE given \cup {unsaved[d]}
  /\ UNCHANGED <<kind, table, connected, lost, replica, call, losses, chain>>

\* The draft is stored, as record: the copy becomes it.
Settle(d, record) ==
  /\ replica' = [replica EXCEPT ![d] = Insert(@, record)]
  /\ unsaved' = [unsaved EXCEPT ![d] = 0]

\* apply_local() runs under an exclusive borrow: nothing comes in between.
WriteMemory(d) ==
  /\ kind = "memory" /\ MayWrite(d)
  /\ table' = ApplyLocal(table, Unsaved(d), Base(d))
  /\ IF table' # table
       THEN chain' = Append(chain, unsaved[d]) /\ Settle(d, table')
       ELSE UNCHANGED <<chain, replica, unsaved>>
  /\ UNCHANGED <<kind, connected, lost, call, edits, losses, given>>

\* PostgresStore::connect() ends with migrate(): MIGRATION_SQL creates what is
\* missing, in one transaction, and changes nothing that is there.
Connect(d) ==
  /\ kind = "postgres" /\ d \notin connected
  /\ connected' = connected \cup {d}
  /\ UNCHANGED <<kind, table, lost, replica, unsaved, call, edits, losses, chain, given>>

SendWrite(d) ==
  /\ kind = "postgres" /\ MayWrite(d)
  /\ call' = [call EXCEPT ![d] = Sent([device |-> d, record |-> Unsaved(d), expected |-> Base(d)])]
  /\ UNCHANGED <<kind, table, connected, lost, replica, unsaved, edits, losses, chain, given>>

\* The server executes put_if_revision.
Store(statement) ==
  IF PutIfRevision(table, statement.expected)
    THEN table' = statement.record /\ chain' = Append(chain, statement.record.edit)
    ELSE UNCHANGED <<table, chain>>

ExecuteWrite(d) ==
  /\ call[d].phase = "sent"
  /\ LET statement == call[d].statement IN
     /\ Store(statement)
     /\ call' = [call EXCEPT ![d] = Answered(statement.record,
                                             PutIfRevision(table, statement.expected))]
  /\ UNCHANGED <<kind, connected, lost, replica, unsaved, edits, losses, given>>

\* Ok(true), or Ok(false): the device has to fetch before it can succeed.
ReturnWrite(d) ==
  /\ call[d].phase = "answered"
  /\ call' = [call EXCEPT ![d] = Idle]
  /\ IF call[d].stored THEN Settle(d, call[d].record) ELSE UNCHANGED <<replica, unsaved>>
  /\ UNCHANGED <<kind, table, connected, lost, edits, losses, chain, given>>

\* The connection fails or the store is dropped: the call returns Err.
LoseConnection(d) ==
  /\ d \in connected
  /\ connected' = connected \ {d}
  /\ call' = [call EXCEPT ![d] = Idle]
  /\ IF call[d].phase = "sent"
       THEN /\ losses < MaxLost
            /\ losses' = losses + 1
            /\ lost' = lost \cup {call[d].statement}
       ELSE UNCHANGED <<lost, losses>>
  /\ UNCHANGED <<kind, table, replica, unsaved, edits, chain, given>>

\* The server executes a statement nobody waits for, or never saw it.
ExecuteLost(statement) ==
  /\ lost' = lost \ {statement}
  /\ Store(statement)
  /\ UNCHANGED <<kind, connected, replica, unsaved, call, edits, losses, given>>

ForgetLost(statement) ==
  /\ lost' = lost \ {statement}
  /\ UNCHANGED <<kind, table, connected, replica, unsaved, call, edits, losses, chain, given>>

\* get() or list(); what it read may be out of date when it returns.
Fetch(d) ==
  /\ Ready(d)
  /\ call' = [call EXCEPT ![d] = Fetched(table)]
  /\ UNCHANGED <<kind, table, connected, lost, replica, unsaved, edits, losses, chain, given>>

Take(d, remote) == replica' = [replica EXCEPT ![d] = Insert(@, remote)]

\* No edit of its own: the device takes what is newer.
Follow(d, remote) ==
  /\ unsaved[d] = 0
  /\ IF CompareVersions(replica[d], remote) = "AppliedRemote"
       THEN Take(d, remote) ELSE UNCHANGED replica
  /\ UNCHANGED <<unsaved, given>>

\* The answer of an earlier write was lost, but it was stored.
Recognise(d, remote) ==
  /\ unsaved[d] # 0 /\ CompareVersions(Unsaved(d), remote) = "NoChange"
  /\ Settle(d, remote)
  /\ UNCHANGED given

\* The user drops the edit, or puts it on top of the remote version.
Resolve(d, remote, keep) ==
  /\ unsaved[d] # 0 /\ CompareVersions(Unsaved(d), remote) # "NoChange"
  /\ Take(d, remote)
  /\ IF keep
       THEN UNCHANGED <<unsaved, given>>
       ELSE unsaved' = [unsaved EXCEPT ![d] = 0] /\ given' = given \cup {unsaved[d]}

ReturnFetch(d) ==
  /\ call[d].phase = "fetched"
  /\ call' = [call EXCEPT ![d] = Idle]
  /\ LET remote == call[d].record IN
     IF remote = NoRecord
       THEN UNCHANGED <<replica, unsaved, given>>
       ELSE \/ Follow(d, remote)
            \/ Recognise(d, remote)
            \/ \E keep \in BOOLEAN : Resolve(d, remote, keep)
  /\ UNCHANGED <<kind, table, connected, lost, edits, losses, chain>>

SyncNext ==
  \/ \E d \in Devices :
       \/ Edit(d) \/ WriteMemory(d)
       \/ Connect(d) \/ SendWrite(d) \/ ExecuteWrite(d) \/ ReturnWrite(d) \/ LoseConnection(d)
       \/ Fetch(d) \/ ReturnFetch(d)
  \/ \E statement \in lost : ExecuteLost(statement) \/ ForgetLost(statement)

SyncSpec == SyncInit /\ [][SyncNext]_syncVars

-----------------------------------------------------------------------------
(* Properties.                                                             *)

\* The revision of a device's copy is the number of versions it has seen.
Shared == INSTANCE SharedRecord
  WITH Edits <- 1 .. MaxEdits, known <- [d \in Devices |-> Base(d)]

\* "Optimistic conflict detection" (the module comment): a version is stored
\* only over versions its device has seen, whatever answers were lost and
\* however late the server executes a statement.
NoLostUpdate == Shared!SharedSpec

\* No edit disappears unnoticed: it is stored, or still a draft, or its user
\* has given it up.  A device never takes another version for its own.
EditsSurvive ==
  \A e \in 1 .. edits : e \in Range(chain) \cup Range(unsaved) \cup given

=============================================================================
