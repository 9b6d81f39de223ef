----------------------------- MODULE SyncProofs -----------------------------
(***************************************************************************)
(* Theorems about Sync, for any number of devices, edits and revisions:    *)
(* it implements SharedRecord, and no edit is lost.                        *)
(***************************************************************************)
EXTENDS Sync, TLAPS

-----------------------------------------------------------------------------
(* The inductive invariant.                                                *)

\* The revision of the stored record counts the versions stored, its edit is
\* one of them, and no device has seen more.
TableInv ==
  /\ Len(chain) = table.revision
  /\ table # NoRecord => table.edit \in Range(chain)
  /\ \A d \in Devices : Base(d) <= table.revision

\* A statement writes the revision after the one it expects.  While its device
\* waits that is the one of its copy; a lost one may have fallen behind.
SentOK(d) ==
  call[d].phase = "sent" =>
    /\ call[d].statement.device = d
    /\ call[d].statement.expected = Base(d)
    /\ call[d].statement.record = Unsaved(d)
    /\ unsaved[d] # 0

LostOK(s) == s.expected <= Base(s.device) /\ s.record.revision = s.expected + 1

StatementInv == (\A d \in Devices : SentOK(d)) /\ (\A s \in lost : LostOK(s))

\* A device is told that its edit is stored only if it is, and is given no
\* record that was not stored.
AnswerOK(d) ==
  /\ call[d].phase = "answered" /\ call[d].stored =>
       /\ call[d].record.revision <= table.revision
       /\ call[d].record.edit = unsaved[d]
       /\ unsaved[d] \in Range(chain)
  /\ call[d].phase = "fetched" =>
       /\ call[d].record.revision <= table.revision
       /\ call[d].record # NoRecord => call[d].record.edit \in Range(chain)

AnswerInv == \A d \in Devices : AnswerOK(d)

SyncInv == TableInv /\ StatementInv /\ AnswerInv /\ EditsSurvive

-----------------------------------------------------------------------------
(* Lemmas about the operators.                                             *)

\* What the phase of a call says of its other fields.
LEMMA CallFields ==
  ASSUME NEW c \in Calls
  PROVE  /\ c.phase = "sent" => c.statement \in Statements /\ c = Sent(c.statement)
         /\ c.phase = "answered" => c.record \in Records /\ c.stored \in BOOLEAN
         /\ c.phase = "fetched" => c.record \in Records \cup {NoRecord}
BY DEF Calls, Idle, Sent, Answered, Fetched

\* Every step of a call is one of its forms.
LEMMA CallForms ==
  /\ Idle \in Calls
  /\ \A s \in Statements : Sent(s) \in Calls
  /\ \A r \in Records, stored \in BOOLEAN : Answered(r, stored) \in Calls
  /\ \A r \in Records \cup {NoRecord} : Fetched(r) \in Calls
BY DEF Calls

\* Records carry natural numbers; only NoRecord has revision 0.
LEMMA RecordFields ==
  ASSUME NEW r \in Records \cup {NoRecord}
  PROVE  /\ r.revision \in Nat /\ r.edit \in Nat
         /\ r # NoRecord <=> r \in Records
         /\ r \in Records => r.revision > 0 /\ r.edit \in 1 .. MaxEdits
BY BoundsAssumption DEF Records, NoRecord

\* insert() never takes a copy back (MemorySyncStore::insert).
LEMMA InsertGrows ==
  ASSUME NEW old \in Records \cup {NoRecord}, NEW new \in Records \cup {NoRecord}
  PROVE  /\ Insert(old, new) \in {old, new}
         /\ Insert(old, new) \in Records \cup {NoRecord}
         /\ Insert(old, new).revision >= old.revision
         /\ Insert(old, new).revision >= new.revision
BY RecordFields DEF Insert

\* An edit written over the revision it is based on is stored under the next
\* one, and under no other (apply_local).
LEMMA ApplyLocalStores ==
  ASSUME NEW old \in Records \cup {NoRecord}, NEW expected \in Nat, NEW edit \in 1 .. MaxEdits
  PROVE  LET record == [revision |-> expected + 1, edit |-> edit]
             new == ApplyLocal(old, record, expected) IN
         /\ new # old <=> old.revision = expected
         /\ new # old => new = record
<1> DEFINE record == [revision |-> expected + 1, edit |-> edit]
           new == ApplyLocal(old, record, expected)
<1>1. CASE old.revision # expected
  BY <1>1 DEF ApplyLocal
<1>2. CASE old.revision = expected
  <2>1. new = record
    <3>1. CASE expected = 0
      BY <1>2, <3>1 DEF ApplyLocal
    <3>2. CASE expected # 0
      <4>1. new = [record EXCEPT !.revision = old.revision + 1]
        BY <1>2, <3>2, Zenon DEF ApplyLocal
      <4> QED
        BY <1>2, <4>1
    <3> QED
      BY <3>1, <3>2
  <2>2. record.revision # old.revision
    BY <1>2, RecordFields
  <2> QED
    BY <1>2, <2>1, <2>2
<1> QED
  BY <1>1, <1>2

\* The edits of the chain are its elements.
LEMMA RangeOfAppend ==
  ASSUME NEW S, NEW s \in Seq(S), NEW e
  PROVE  Range(Append(s, e)) = Range(s) \cup {e}
<1>1. /\ DOMAIN s = 1 .. Len(s) /\ DOMAIN Append(s, e) = 1 .. Len(s) + 1 /\ Len(s) \in Nat
      /\ \A i \in 1 .. Len(s) : Append(s, e)[i] = s[i]
      /\ Append(s, e)[Len(s) + 1] = e
  OBVIOUS
<1>2. ASSUME NEW x \in Range(Append(s, e)) PROVE x \in Range(s) \cup {e}
  <2>1. PICK i \in 1 .. Len(s) + 1 : x = Append(s, e)[i]
    BY <1>1 DEF Range
  <2> QED
    <3>1. i \in 1 .. Len(s) \/ i = Len(s) + 1
      BY <1>1
    <3> QED
      BY <1>1, <2>1, <3>1, Zenon DEF Range
<1>3. ASSUME NEW x \in Range(s) PROVE x \in Range(Append(s, e))
  <2>1. PICK i \in 1 .. Len(s) : x = s[i]
    BY <1>1 DEF Range
  <2>2. i \in 1 .. Len(s) + 1
    BY <1>1
  <2> QED
    BY <1>1, <2>1, <2>2, Zenon DEF Range
<1>4. e \in Range(Append(s, e))
  <2>1. Len(s) + 1 \in 1 .. Len(s) + 1
    BY <1>1
  <2> QED
    BY <1>1, <2>1, Zenon DEF Range
<1> QED
  BY <1>2, <1>3, <1>4

\* A device's draft is a record while its copy is below the bound.
LEMMA DraftIsRecord ==
  ASSUME NEW d \in Devices, SyncTypeOK, MayWrite(d)
  PROVE  /\ Base(d) \in 0 .. MaxRevision - 1
         /\ unsaved[d] \in 1 .. MaxEdits
         /\ Unsaved(d) \in Records
         /\ [device |-> d, record |-> Unsaved(d), expected |-> Base(d)] \in Statements
<1>1. replica[d] \in Records \cup {NoRecord} /\ unsaved[d] \in 0 .. MaxEdits
  BY DEF SyncTypeOK
<1>2. Base(d) \in 0 .. MaxRevision - 1 /\ unsaved[d] \in 1 .. MaxEdits
  BY <1>1, RecordFields, BoundsAssumption DEF MayWrite, Base
<1>3. Unsaved(d) \in Records
  BY <1>2, BoundsAssumption DEF Unsaved, Records
<1> QED
  BY <1>2, <1>3 DEF Statements

-----------------------------------------------------------------------------
(* Types.                                                                  *)

\* Executing a statement keeps the record and the chain well typed.
LEMMA StoreTyping ==
  ASSUME SyncTypeOK, NEW s \in Statements, Store(s)
  PROVE  table' \in Records \cup {NoRecord} /\ chain' \in Seq(1 .. MaxEdits)
<1>1. s.record \in Records /\ s.record.edit \in 1 .. MaxEdits
  BY DEF Statements, Records
<1>2. table \in Records \cup {NoRecord} /\ chain \in Seq(1 .. MaxEdits)
  BY DEF SyncTypeOK
<1>3. CASE PutIfRevision(table, s.expected)
  <2>1. table' = s.record /\ chain' = Append(chain, s.record.edit)
    BY <1>3, Zenon DEF Store
  <2> QED
    BY <1>1, <1>2, <2>1
<1>4. CASE ~PutIfRevision(table, s.expected)
  BY <1>2, <1>4 DEF Store
<1> QED
  BY <1>3, <1>4

\* What a device does with what it fetched: it keeps its copy or inserts the
\* remote version, and settles, keeps or gives up its draft.
LEMMA FetchedEffect ==
  ASSUME NEW d \in Devices, ReturnFetch(d)
  PROVE  /\ replica' \in {replica, [replica EXCEPT ![d] = Insert(@, call[d].record)]}
         /\ unsaved' \in {unsaved, [unsaved EXCEPT ![d] = 0]}
         /\ given' = given \/ (unsaved[d] # 0 /\ given' = given \cup {unsaved[d]})
         /\ \/ unsaved' = unsaved /\ given' = given
            \/ unsaved' = [unsaved EXCEPT ![d] = 0] /\ given' = given \cup {unsaved[d]}
            \/ /\ unsaved' = [unsaved EXCEPT ![d] = 0]
               /\ call[d].record = Unsaved(d) /\ call[d].record # NoRecord
<1> DEFINE remote == call[d].record
<1>1. CASE remote = NoRecord
  BY <1>1 DEF ReturnFetch
<1>2. CASE remote # NoRecord /\ Follow(d, remote)
  BY <1>2 DEF Follow, Take
<1>3. CASE remote # NoRecord /\ Recognise(d, remote)
  <2>1. Unsaved(d) = remote
    BY <1>3, Zenon DEF Recognise, CompareVersions
  <2> QED
    BY <1>3, <2>1 DEF Recognise, Settle
<1>4. CASE remote # NoRecord /\ \E keep \in BOOLEAN : Resolve(d, remote, keep)
  <2>1. PICK keep \in BOOLEAN : Resolve(d, remote, keep)
    BY <1>4
  <2> QED
    BY <2>1, Zenon DEF Resolve, Take
<1> QED
  BY <1>1, <1>2, <1>3, <1>4 DEF ReturnFetch

\* Every step keeps the types.
LEMMA TypingStep ==
  SyncTypeOK /\ [SyncNext]_syncVars => SyncTypeOK'
<1> SUFFICES ASSUME SyncTypeOK, [SyncNext]_syncVars PROVE SyncTypeOK'
  OBVIOUS
<1>1. ASSUME NEW d \in Devices, Edit(d) PROVE SyncTypeOK'
  <2>1. unsaved[d] \in 0 .. MaxEdits /\ edits + 1 \in 1 .. MaxEdits
    BY <1>1, BoundsAssumption DEF SyncTypeOK, Edit
  <2>2. given' \subseteq 1 .. MaxEdits
    <3>1. given' \subseteq given \cup {unsaved[d]} /\ (unsaved[d] = 0 => given' = given)
      BY <1>1 DEF Edit
    <3>2. given \subseteq 1 .. MaxEdits
      BY DEF SyncTypeOK
    <3>3. unsaved[d] # 0 => unsaved[d] \in 1 .. MaxEdits
      BY <2>1, BoundsAssumption
    <3> QED
      BY <3>1, <3>2, <3>3, Zenon
  <2>3. edits' \in 0 .. MaxEdits /\ unsaved' \in [Devices -> 0 .. MaxEdits]
    BY <1>1, <2>1, BoundsAssumption DEF SyncTypeOK, Edit
  <2> QED
    BY <1>1, <2>2, <2>3 DEF SyncTypeOK, Edit
<1>2. ASSUME NEW d \in Devices, WriteMemory(d) PROVE SyncTypeOK'
  <2>1. MayWrite(d) /\ table' = ApplyLocal(table, Unsaved(d), Base(d))
    BY <1>2 DEF WriteMemory
  <2>2. Base(d) \in Nat /\ unsaved[d] \in 1 .. MaxEdits /\ Unsaved(d) \in Records
    <3>1. Base(d) \in 0 .. MaxRevision - 1 /\ unsaved[d] \in 1 .. MaxEdits /\ Unsaved(d) \in Records
      BY <2>1, DraftIsRecord, Zenon
    <3>2. Base(d) \in Nat
      BY <3>1, BoundsAssumption
    <3> QED
      BY <3>1, <3>2, Zenon
  <2>3. table \in Records \cup {NoRecord}
    BY DEF SyncTypeOK
  <2>4. CASE table' # table
    <3>1. table' = Unsaved(d)
      BY <2>1, <2>2, <2>3, <2>4, ApplyLocalStores DEF Unsaved
    <3>2. replica[d] \in Records \cup {NoRecord}
      BY DEF SyncTypeOK
    <3>3. Insert(replica[d], table') \in Records \cup {NoRecord}
      BY <2>2, <3>1, <3>2, InsertGrows
    <3>4. chain' = Append(chain, unsaved[d]) /\ Settle(d, table')
      BY <1>2, <2>4 DEF WriteMemory
    <3>5. /\ replica' \in [Devices -> Records \cup {NoRecord}]
          /\ unsaved' \in [Devices -> 0 .. MaxEdits]
      BY <3>3, <3>4, BoundsAssumption DEF SyncTypeOK, Settle
    <3>6. chain' \in Seq(1 .. MaxEdits)
      BY <2>2, <3>4 DEF SyncTypeOK
    <3> QED
      BY <1>2, <2>2, <3>1, <3>5, <3>6 DEF SyncTypeOK, WriteMemory
  <2>5. CASE table' = table
    BY <1>2, <2>5 DEF SyncTypeOK, WriteMemory
  <2> QED
    BY <2>4, <2>5
<1>3. ASSUME NEW d \in Devices, Connect(d) PROVE SyncTypeOK'
  BY <1>3 DEF SyncTypeOK, Connect
<1>4. ASSUME NEW d \in Devices, SendWrite(d) PROVE SyncTypeOK'
  <2>1. [device |-> d, record |-> Unsaved(d), expected |-> Base(d)] \in Statements
    BY <1>4, DraftIsRecord DEF SendWrite
  <2>2. Sent([device |-> d, record |-> Unsaved(d), expected |-> Base(d)]) \in Calls
    BY <2>1, CallForms
  <2> QED
    BY <1>4, <2>2 DEF SyncTypeOK, SendWrite
<1>5. ASSUME NEW d \in Devices, ExecuteWrite(d) PROVE SyncTypeOK'
  <2>1. call[d].statement \in Statements
    BY <1>5, CallFields DEF SyncTypeOK, ExecuteWrite
  <2>2. call[d].statement.record \in Records
    BY <2>1 DEF Statements
  <2>3. Answered(call[d].statement.record,
                 PutIfRevision(table, call[d].statement.expected)) \in Calls
    <3>1. PutIfRevision(table, call[d].statement.expected) \in BOOLEAN
      BY DEF PutIfRevision
    <3> QED
      BY <2>2, <3>1, CallForms, Zenon
  <2>4. Store(call[d].statement)
    BY <1>5, Zenon DEF ExecuteWrite
  <2>5. table' \in Records \cup {NoRecord} /\ chain' \in Seq(1 .. MaxEdits)
    BY <2>1, <2>4, StoreTyping
  <2> QED
    BY <1>5, <2>3, <2>5 DEF SyncTypeOK, ExecuteWrite
<1>6. ASSUME NEW d \in Devices, ReturnWrite(d) PROVE SyncTypeOK'
  <2>1. Idle \in Calls
    BY CallForms
  <2>2. Insert(replica[d], call[d].record) \in Records \cup {NoRecord}
    BY <1>6, CallFields, InsertGrows DEF SyncTypeOK, ReturnWrite
  <2>3. /\ replica' \in [Devices -> Records \cup {NoRecord}]
        /\ unsaved' \in [Devices -> 0 .. MaxEdits]
    <3>1. CASE call[d].stored
      <4>1. Settle(d, call[d].record)
        BY <1>6, <3>1, Zenon DEF ReturnWrite
      <4> QED
        BY <2>2, <4>1, BoundsAssumption DEF SyncTypeOK, Settle
    <3>2. CASE ~call[d].stored
      BY <1>6, <3>2 DEF SyncTypeOK, ReturnWrite
    <3> QED
      BY <3>1, <3>2
  <2> QED
    BY <1>6, <2>1, <2>3 DEF SyncTypeOK, ReturnWrite
<1>7. ASSUME NEW d \in Devices, LoseConnection(d) PROVE SyncTypeOK'
  <2>1. Idle \in Calls
    BY CallForms
  <2>2. lost' \subseteq Statements /\ losses' \in 0 .. MaxLost
    <3>1. CASE call[d].phase = "sent"
      <4>1. call[d].statement \in Statements
        BY <3>1, CallFields DEF SyncTypeOK
      <4>2. losses' = losses + 1 /\ losses < MaxLost /\ lost' = lost \cup {call[d].statement}
        BY <1>7, <3>1 DEF LoseConnection
      <4>3. lost' \subseteq Statements
        BY <4>1, <4>2, Zenon DEF SyncTypeOK
      <4> QED
        BY <4>2, <4>3, BoundsAssumption DEF SyncTypeOK
    <3>2. CASE call[d].phase # "sent"
      BY <1>7, <3>2 DEF SyncTypeOK, LoseConnection
    <3> QED
      BY <3>1, <3>2
  <2> QED
    BY <1>7, <2>1, <2>2 DEF SyncTypeOK, LoseConnection
<1>8. ASSUME NEW d \in Devices, Fetch(d) PROVE SyncTypeOK'
  <2>1. Fetched(table) \in Calls
    BY CallForms DEF SyncTypeOK
  <2> QED
    BY <1>8, <2>1 DEF SyncTypeOK, Fetch
<1>9. ASSUME NEW d \in Devices, ReturnFetch(d) PROVE SyncTypeOK'
  <2>1. Idle \in Calls
    BY CallForms
  <2>2. Insert(replica[d], call[d].record) \in Records \cup {NoRecord}
    BY <1>9, CallFields, InsertGrows DEF SyncTypeOK, ReturnFetch
  <2>3. /\ replica' \in {replica, [replica EXCEPT ![d] = Insert(@, call[d].record)]}
        /\ unsaved' \in {unsaved, [unsaved EXCEPT ![d] = 0]}
        /\ given' = given \/ (unsaved[d] # 0 /\ given' = given \cup {unsaved[d]})
    BY <1>9, FetchedEffect
  <2>4. replica' \in [Devices -> Records \cup {NoRecord}]
    BY <2>2, <2>3 DEF SyncTypeOK
  <2>5. unsaved' \in [Devices -> 0 .. MaxEdits]
    BY <2>3, BoundsAssumption DEF SyncTypeOK
  <2>6. given' \subseteq 1 .. MaxEdits
    <3>1. unsaved[d] # 0 => unsaved[d] \in 1 .. MaxEdits
      BY BoundsAssumption DEF SyncTypeOK
    <3>2. given \subseteq 1 .. MaxEdits
      BY DEF SyncTypeOK
    <3> QED
      BY <2>3, <3>1, <3>2, Zenon
  <2> QED
    BY <1>9, <2>1, <2>4, <2>5, <2>6 DEF SyncTypeOK, ReturnFetch
<1>10. ASSUME NEW s \in lost, ExecuteLost(s) PROVE SyncTypeOK'
  <2>1. s \in Statements /\ Store(s)
    BY <1>10 DEF SyncTypeOK, ExecuteLost
  <2>2. table' \in Records \cup {NoRecord} /\ chain' \in Seq(1 .. MaxEdits)
    BY <2>1, StoreTyping
  <2> QED
    BY <1>10, <2>2 DEF SyncTypeOK, ExecuteLost
<1>11. ASSUME NEW s \in lost, ForgetLost(s) PROVE SyncTypeOK'
  BY <1>11 DEF SyncTypeOK, ForgetLost
<1>12. CASE UNCHANGED syncVars
  BY <1>12 DEF SyncTypeOK, syncVars
<1> QED
  BY <1>1, <1>2, <1>3, <1>4, <1>5, <1>6, <1>7, <1>8, <1>9, <1>10, <1>11, <1>12 DEF SyncNext

\* The records and the calls keep the forms their code gives them, and no
\* revision passes the bound.
THEOREM SyncTyped == SyncSpec => []SyncTypeOK
<1>1. SyncInit => SyncTypeOK
  BY BoundsAssumption DEF SyncInit, SyncTypeOK, Calls
<1> QED
  BY <1>1, TypingStep, PTL DEF SyncSpec

-----------------------------------------------------------------------------
(* What keeps a part of the invariant.                                     *)

\* The store forgets no version, and no copy goes back.
StoreGrows == table.revision <= table'.revision /\ Range(chain) \subseteq Range(chain')
CopiesGrow == \A d \in Devices : Base(d) <= Base(d)'

\* The revisions compared are natural numbers.
LEMMA RevisionsAreNat ==
  ASSUME SyncTypeOK
  PROVE  /\ table.revision \in Nat
         /\ \A d \in Devices : Base(d) \in Nat
BY RecordFields DEF SyncTypeOK, Base

\* A call that waits is disturbed by its own device only.
LEMMA SentKept ==
  ASSUME NEW e \in Devices, SentOK(e),
         call'[e] = call[e], replica'[e] = replica[e], unsaved'[e] = unsaved[e]
  PROVE  SentOK(e)'
BY DEF SentOK, Base, Unsaved

\* The device of a lost statement only learns more.
LEMMA LostKept ==
  ASSUME SyncTypeOK, SyncTypeOK', CopiesGrow, NEW s \in Statements, LostOK(s)
  PROVE  LostOK(s)'
<1>1. s.device \in Devices /\ s.expected \in Nat
  BY BoundsAssumption DEF Statements
<1>2. Base(s.device) \in Nat /\ Base(s.device)' \in Nat
  BY <1>1, RecordFields DEF SyncTypeOK, Base
<1>3. Base(s.device) <= Base(s.device)'
  BY <1>1 DEF CopiesGrow
<1> QED
  BY <1>1, <1>2, <1>3 DEF LostOK

\* An answer stays true while the store grows.
LEMMA AnswerKept ==
  ASSUME SyncTypeOK, SyncTypeOK', StoreGrows, NEW e \in Devices, AnswerOK(e),
         call'[e] = call[e], unsaved'[e] = unsaved[e]
  PROVE  AnswerOK(e)'
<1>1. table.revision \in Nat /\ table'.revision \in Nat
  BY RecordFields DEF SyncTypeOK
<1>2. call[e].phase \in {"answered", "fetched"} => call[e].record.revision \in Nat
  BY CallFields, RecordFields DEF SyncTypeOK
<1>3. /\ table.revision <= table'.revision
      /\ \A x : x \in Range(chain) => x \in Range(chain')
  BY DEF StoreGrows
<1> QED
  BY <1>1, <1>2, <1>3 DEF AnswerOK

\* Replacing one value of a function loses at most that value.
LEMMA RangeOfExcept ==
  ASSUME NEW D, NEW S, NEW f \in [D -> S], NEW d \in D, NEW v
  PROVE  /\ Range(f) \subseteq Range([f EXCEPT ![d] = v]) \cup {f[d]}
         /\ v \in Range([f EXCEPT ![d] = v])
<1> DEFINE g == [f EXCEPT ![d] = v]
<1>1. DOMAIN g = D /\ DOMAIN f = D /\ g[d] = v /\ \A x \in D : x # d => g[x] = f[x]
  OBVIOUS
<1> HIDE DEF g
<1>2. v \in Range(g)
  BY <1>1, Zenon DEF Range
<1>3. ASSUME NEW y \in Range(f) PROVE y \in Range(g) \cup {f[d]}
  <2>1. PICK x \in D : y = f[x]
    BY <1>1, Zenon DEF Range
  <2> QED
    BY <1>1, <2>1, Zenon DEF Range
<1> QED
  BY <1>2, <1>3, Zenon DEF g

\* What executing a statement does: the store grows, by the record or not at
\* all (put_if_revision).
LEMMA StoreEffect ==
  ASSUME SyncTypeOK, TableInv, NEW s \in Statements, s.record.revision = s.expected + 1, Store(s)
  PROVE  /\ StoreGrows
         /\ Len(chain') = table'.revision
         /\ table' # NoRecord => table'.edit \in Range(chain')
         /\ PutIfRevision(table, s.expected) =>
              table' = s.record /\ s.record.edit \in Range(chain')
<1>1. /\ s.record \in Records /\ s.record.edit \in 1 .. MaxEdits /\ s.expected \in Nat
      /\ chain \in Seq(1 .. MaxEdits) /\ table.revision \in Nat
  BY RevisionsAreNat, BoundsAssumption DEF Statements, Records, SyncTypeOK
<1>2. Len(chain) = table.revision /\ (table # NoRecord => table.edit \in Range(chain))
  BY DEF TableInv
<1>3. CASE PutIfRevision(table, s.expected)
  <2>1. table' = s.record /\ chain' = Append(chain, s.record.edit)
    BY <1>3, Zenon DEF Store
  <2>2. Range(chain') = Range(chain) \cup {s.record.edit}
    <3>1. chain \in Seq(1 .. MaxEdits) /\ s.record.edit \in 1 .. MaxEdits
      BY <1>1
    <3>2. Range(Append(chain, s.record.edit)) = Range(chain) \cup {s.record.edit}
      BY <3>1, RangeOfAppend, Zenon
    <3> QED
      BY <2>1, <3>2, Zenon
  <2>3. Len(chain') = Len(chain) + 1
    BY <1>1, <2>1
  <2>4. table.revision = s.expected
    BY <1>3 DEF PutIfRevision
  <2>5. table.revision <= table'.revision /\ Len(chain') = table'.revision
    BY <1>1, <1>2, <2>1, <2>3, <2>4
  <2> QED
    BY <2>1, <2>2, <2>5, Zenon DEF StoreGrows
<1>4. CASE ~PutIfRevision(table, s.expected)
  BY <1>1, <1>2, <1>4 DEF Store, StoreGrows
<1> QED
  BY <1>3, <1>4

\* A device takes a record of the store into its copy.
LEMMA CopyTakes ==
  ASSUME SyncTypeOK, TableInv, NEW d \in Devices, NEW record \in Records \cup {NoRecord},
         record.revision <= table.revision,
         replica' \in {replica, [replica EXCEPT ![d] = Insert(@, record)]}
  PROVE  /\ CopiesGrow
         /\ \A e \in Devices : Base(e)' <= table.revision
         /\ \A e \in Devices : e # d => replica'[e] = replica[e]
<1>1. \A e \in Devices : replica[e] \in Records \cup {NoRecord} /\ Base(e) <= table.revision
  BY DEF SyncTypeOK, TableInv
<1>2. \A e \in Devices : \/ replica'[e] = replica[e]
                         \/ e = d /\ replica'[e] = Insert(replica[e], record)
  <2>1. replica \in [Devices -> Records \cup {NoRecord}]
    BY DEF SyncTypeOK
  <2>2. CASE replica' = replica
    BY <2>2
  <2>3. CASE replica' = [replica EXCEPT ![d] = Insert(@, record)]
    BY <2>1, <2>3
  <2> QED
    BY <2>2, <2>3
<1>3. \A e \in Devices : replica'[e].revision >= replica[e].revision
                      /\ replica'[e].revision \in {replica[e].revision, record.revision}
  BY <1>1, <1>2, InsertGrows, RecordFields
<1>4. \A e \in Devices : replica[e].revision \in Nat
  BY <1>1, RecordFields
<1>5. record.revision \in Nat
  BY RecordFields
<1> QED
  BY <1>1, <1>2, <1>3, <1>4, <1>5, Zenon DEF CopiesGrow, Base

-----------------------------------------------------------------------------
(* The invariant.                                                          *)

\* A step in which no call but d's changes and the store and the copies only
\* grow keeps what was said of the other calls and of the lost statements.
LEMMA OthersKept ==
  ASSUME SyncTypeOK, SyncTypeOK', SyncInv, StoreGrows, CopiesGrow, NEW d \in Devices,
         \A e \in Devices : e # d => /\ call'[e] = call[e]
                                     /\ replica'[e] = replica[e]
                                     /\ unsaved'[e] = unsaved[e]
  PROVE  /\ \A e \in Devices : e # d => SentOK(e)' /\ AnswerOK(e)'
         /\ \A s \in lost : LostOK(s)'
<1>1. ASSUME NEW e \in Devices, e # d PROVE SentOK(e)' /\ AnswerOK(e)'
  <2>1. SentOK(e) /\ AnswerOK(e)
    BY DEF SyncInv, StatementInv, AnswerInv
  <2>2. call'[e] = call[e] /\ replica'[e] = replica[e] /\ unsaved'[e] = unsaved[e]
    BY <1>1
  <2> QED
    BY <2>1, <2>2, SentKept, AnswerKept, Zenon
<1>2. ASSUME NEW s \in lost PROVE LostOK(s)'
  <2>1. s \in Statements /\ LostOK(s)
    BY DEF SyncInv, StatementInv, SyncTypeOK
  <2> QED
    BY <2>1, LostKept, Zenon
<1> QED
  BY <1>1, <1>2

\* A step that stores or gives up every draft it takes away loses no edit.
LEMMA NothingLost ==
  ASSUME SyncTypeOK, EditsSurvive, Range(chain) \subseteq Range(chain'), given \subseteq given',
         edits' = edits, NEW d \in Devices,
         \/ unsaved' = unsaved
         \/ /\ unsaved' = [unsaved EXCEPT ![d] = 0]
            /\ unsaved[d] \in Range(chain') \cup given'
  PROVE  EditsSurvive'
<1>1. Range(unsaved) \subseteq Range(unsaved') \cup Range(chain') \cup given'
  <2>1. unsaved \in [Devices -> 0 .. MaxEdits]
    BY DEF SyncTypeOK
  <2>2. CASE unsaved' = unsaved
    BY <2>2, Zenon
  <2>3. CASE unsaved' = [unsaved EXCEPT ![d] = 0] /\ unsaved[d] \in Range(chain') \cup given'
    <3>1. Range(unsaved) \subseteq Range([unsaved EXCEPT ![d] = 0]) \cup {unsaved[d]}
      BY <2>1, RangeOfExcept
    <3> QED
      BY <2>3, <3>1, Zenon
  <2> QED
    BY <2>2, <2>3
<1>2. ASSUME NEW e \in 1 .. edits PROVE e \in Range(chain') \cup Range(unsaved') \cup given'
  <2>1. e \in Range(chain) \cup Range(unsaved) \cup given
    BY DEF EditsSurvive
  <2> QED
    BY <1>1, <2>1, Zenon
<1> QED
  BY <1>2, Zenon DEF EditsSurvive

\* Every step keeps the invariant.
LEMMA SyncInvStep ==
  SyncTypeOK /\ SyncTypeOK' /\ SyncInv /\ [SyncNext]_syncVars => SyncInv'
<1> SUFFICES ASSUME SyncTypeOK, SyncTypeOK', SyncInv, [SyncNext]_syncVars PROVE SyncInv'
  OBVIOUS
<1> DEFINE Still == UNCHANGED <<table, chain>>
<1>a. TableInv /\ EditsSurvive /\ \A e \in Devices : SentOK(e) /\ AnswerOK(e)
  BY DEF SyncInv, StatementInv, AnswerInv
<1>b. table.revision \in Nat /\ \A e \in Devices : Base(e) \in Nat
  BY RevisionsAreNat
<1>c. Still => StoreGrows
  BY <1>b DEF StoreGrows
<1>d. UNCHANGED replica => CopiesGrow
  BY <1>b DEF CopiesGrow, Base
<1>e. Still /\ UNCHANGED replica => TableInv'
  BY <1>a DEF TableInv, Base
<1>1. ASSUME NEW d \in Devices, Edit(d) PROVE SyncInv'
  <2>1. /\ Still /\ UNCHANGED <<replica, lost, call>> /\ call[d] = Idle
        /\ \A e \in Devices : e # d => unsaved'[e] = unsaved[e]
    BY <1>1 DEF Edit, SyncTypeOK
  <2>2. SentOK(d)' /\ AnswerOK(d)'
    BY <2>1 DEF SentOK, AnswerOK, Idle
  <2>3. StatementInv' /\ AnswerInv'
    BY <1>c, <1>d, <2>1, <2>2, OthersKept DEF StatementInv, AnswerInv
  <2>4. EditsSurvive'
    <3>1. unsaved \in [Devices -> 0 .. MaxEdits] /\ edits \in Nat
      BY BoundsAssumption DEF SyncTypeOK
    <3>2. /\ Range(unsaved) \subseteq Range(unsaved') \cup {unsaved[d]}
          /\ edits + 1 \in Range(unsaved')
      BY <1>1, <3>1, RangeOfExcept DEF Edit
    <3>3. ASSUME NEW e \in 1 .. edits'
          PROVE  e \in Range(chain) \cup Range(unsaved') \cup given'
      <4>1. e # 0 /\ (e \in 1 .. edits \/ e = edits + 1)
        BY <1>1, <3>1, <3>3 DEF Edit
      <4>2. e \in 1 .. edits => e \in Range(chain) \cup Range(unsaved) \cup given
        BY <1>a DEF EditsSurvive
      <4>3. given \subseteq given' /\ (unsaved[d] # 0 => unsaved[d] \in given')
        BY <1>1 DEF Edit
      <4> QED
        BY <3>2, <4>1, <4>2, <4>3, Zenon
    <3> QED
      BY <2>1, <3>3, Zenon DEF EditsSurvive
  <2> QED
    BY <1>e, <2>1, <2>3, <2>4 DEF SyncInv
<1>2. ASSUME NEW d \in Devices, WriteMemory(d) PROVE SyncInv'
  <2>1. /\ MayWrite(d) /\ table' = ApplyLocal(table, Unsaved(d), Base(d))
        /\ UNCHANGED <<lost, call, edits, given>> /\ call[d] = Idle
    BY <1>2 DEF WriteMemory, MayWrite, Ready
  <2>2. Base(d) \in Nat /\ unsaved[d] \in 1 .. MaxEdits /\ Unsaved(d) \in Records
    <3>1. unsaved[d] \in 1 .. MaxEdits /\ Unsaved(d) \in Records
      BY <2>1, DraftIsRecord, Zenon
    <3> QED
      BY <1>b, <3>1
  <2>3. SentOK(d)' /\ AnswerOK(d)'
    BY <2>1 DEF SentOK, AnswerOK, Idle
  <2>4. CASE table' # table
    <3>1. table \in Records \cup {NoRecord} /\ replica[d] \in Records \cup {NoRecord}
      BY DEF SyncTypeOK
    <3>2. table' = Unsaved(d) /\ table.revision = Base(d)
      BY <2>1, <2>2, <2>4, <3>1, ApplyLocalStores DEF Unsaved
    <3>3. chain' = Append(chain, unsaved[d]) /\ Settle(d, table')
      BY <1>2, <2>4 DEF WriteMemory
    <3>4. chain \in Seq(1 .. MaxEdits) /\ Len(chain) = table.revision
      BY <1>a DEF SyncTypeOK, TableInv
    <3>5. Range(chain') = Range(chain) \cup {unsaved[d]} /\ Len(chain') = Len(chain) + 1
      BY <3>3, <3>4, RangeOfAppend
    <3>6. table'.revision = Base(d) + 1 /\ table'.edit = unsaved[d]
      BY <3>2 DEF Unsaved
    <3>7. StoreGrows
      BY <1>b, <3>2, <3>5, <3>6 DEF StoreGrows
    <3>8. replica \in [Devices -> Records \cup {NoRecord}]
      BY DEF SyncTypeOK
    <3>9. Insert(replica[d], table') = table'
      BY <2>2, <3>6 DEF Insert, Base
    <3>10. \A e \in Devices : replica'[e] = IF e = d THEN table' ELSE replica[e]
      BY <3>3, <3>8, <3>9 DEF Settle
    <3>11. CopiesGrow
      BY <1>b, <3>6, <3>10 DEF CopiesGrow, Base
    <3>12. TableInv'
      <4>1. \A e \in Devices : Base(e)' <= table'.revision
        BY <1>a, <1>b, <3>2, <3>6, <3>10 DEF TableInv, Base
      <4> QED
        BY <1>b, <3>2, <3>4, <3>5, <3>6, <4>1 DEF TableInv
    <3>13. \A e \in Devices : e # d => replica'[e] = replica[e] /\ unsaved'[e] = unsaved[e]
      BY <3>3, <3>10 DEF SyncTypeOK, Settle
    <3>14. StatementInv' /\ AnswerInv'
      BY <2>1, <2>3, <3>7, <3>11, <3>13, OthersKept DEF StatementInv, AnswerInv
    <3>15. EditsSurvive'
      <4>1. unsaved' = [unsaved EXCEPT ![d] = 0]
        BY <3>3 DEF Settle
      <4>2. Range(chain) \subseteq Range(chain') /\ unsaved[d] \in Range(chain')
        BY <3>5
      <4> QED
        BY <1>a, <2>1, <4>1, <4>2, NothingLost
    <3> QED
      BY <3>12, <3>14, <3>15 DEF SyncInv
  <2>5. CASE table' = table
    <3>1. Still /\ UNCHANGED <<replica, unsaved>>
      BY <1>2, <2>5 DEF WriteMemory
    <3>2. StatementInv' /\ AnswerInv'
      BY <1>c, <1>d, <2>1, <2>3, <3>1, OthersKept DEF StatementInv, AnswerInv
    <3>3. EditsSurvive'
      BY <1>a, <2>1, <3>1 DEF EditsSurvive
    <3> QED
      BY <1>e, <3>1, <3>2, <3>3 DEF SyncInv
  <2> QED
    BY <2>4, <2>5
<1>3. ASSUME NEW d \in Devices, Connect(d) PROVE SyncInv'
  <2>1. Still /\ UNCHANGED <<replica, lost, call, unsaved, edits, given>>
    BY <1>3 DEF Connect
  <2> QED
    BY <2>1, <1>a, <1>e DEF SyncInv, StatementInv, AnswerInv, EditsSurvive, SentOK, AnswerOK, LostOK, Base, Unsaved
<1>4. ASSUME NEW d \in Devices, SendWrite(d) PROVE SyncInv'
  <2>1. /\ Still /\ UNCHANGED <<replica, lost, unsaved, edits, given>> /\ unsaved[d] # 0
        /\ call'[d] = Sent([device |-> d, record |-> Unsaved(d), expected |-> Base(d)])
        /\ \A e \in Devices : e # d => call'[e] = call[e]
    BY <1>4 DEF SendWrite, SyncTypeOK, MayWrite
  <2>2. SentOK(d)' /\ AnswerOK(d)'
    BY <2>1 DEF SentOK, AnswerOK, Sent, Base, Unsaved
  <2>3. StatementInv' /\ AnswerInv'
    BY <1>c, <1>d, <2>1, <2>2, OthersKept DEF StatementInv, AnswerInv
  <2>4. EditsSurvive'
    BY <1>a, <2>1 DEF EditsSurvive
  <2> QED
    BY <1>e, <2>1, <2>3, <2>4 DEF SyncInv
<1>5. ASSUME NEW d \in Devices, ExecuteWrite(d) PROVE SyncInv'
  <2> DEFINE s == call[d].statement
  <2>1. /\ Store(s) /\ call[d].phase = "sent" /\ s \in Statements
        /\ UNCHANGED <<replica, lost, unsaved, edits, given>>
        /\ call'[d] = Answered(s.record, PutIfRevision(table, s.expected))
        /\ \A e \in Devices : e # d => call'[e] = call[e]
    BY <1>5, CallFields DEF ExecuteWrite, SyncTypeOK
  <2>2. s.expected = Base(d) /\ s.record = Unsaved(d) /\ s.record.revision = s.expected + 1
    BY <1>a, <2>1 DEF SentOK, Unsaved
  <2>3. /\ StoreGrows
        /\ Len(chain') = table'.revision
        /\ table' # NoRecord => table'.edit \in Range(chain')
        /\ PutIfRevision(table, s.expected) =>
             table' = s.record /\ s.record.edit \in Range(chain')
    BY <1>a, <2>1, <2>2, StoreEffect
  <2> HIDE DEF s
  <2>4. CopiesGrow
    BY <1>d, <2>1
  <2>5. TableInv'
    <3>1. \A e \in Devices : Base(e) <= table.revision
      BY <1>a DEF TableInv
    <3>2. table'.revision \in Nat
      BY RecordFields DEF SyncTypeOK
    <3>3. \A e \in Devices : Base(e)' <= table'.revision
      BY <1>b, <2>1, <2>3, <3>1, <3>2 DEF Base, StoreGrows
    <3> QED
      BY <2>3, <3>3 DEF TableInv
  <2>6. SentOK(d)' /\ AnswerOK(d)'
    <3>1. table'.revision \in Nat
      BY RecordFields DEF SyncTypeOK
    <3>2. s.record.edit = unsaved[d]
      BY <2>2 DEF Unsaved
    <3> QED
      BY <2>1, <2>3, <3>1, <3>2 DEF SentOK, AnswerOK, Answered
  <2>7. StatementInv' /\ AnswerInv'
    BY <2>1, <2>3, <2>4, <2>6, OthersKept DEF StatementInv, AnswerInv
  <2>8. EditsSurvive'
    BY <1>a, <2>1, <2>3, NothingLost DEF StoreGrows
  <2> QED
    BY <2>5, <2>7, <2>8 DEF SyncInv
<1>6. ASSUME NEW d \in Devices, ReturnWrite(d) PROVE SyncInv'
  <2> DEFINE record == call[d].record
  <2>1. /\ Still /\ UNCHANGED <<lost, edits, given>>
        /\ call[d].phase = "answered" /\ record \in Records /\ call[d].stored \in BOOLEAN
        /\ call'[d] = Idle /\ \A e \in Devices : e # d => call'[e] = call[e]
    BY <1>6, CallFields DEF ReturnWrite, SyncTypeOK
  <2>2. SentOK(d)' /\ AnswerOK(d)'
    BY <2>1 DEF SentOK, AnswerOK, Idle
  <2>3. CASE call[d].stored
    <3>1. Settle(d, record)
      BY <1>6, <2>3, Zenon DEF ReturnWrite
    <3>2. record.revision <= table.revision /\ unsaved[d] \in Range(chain)
      BY <1>a, <2>1, <2>3 DEF AnswerOK
    <3>3. /\ CopiesGrow
          /\ \A e \in Devices : Base(e)' <= table.revision
          /\ \A e \in Devices : e # d => replica'[e] = replica[e]
      BY <1>a, <2>1, <3>1, <3>2, CopyTakes DEF Settle
    <3>4. \A e \in Devices : e # d => unsaved'[e] = unsaved[e]
      BY <3>1 DEF Settle, SyncTypeOK
    <3>5. StatementInv' /\ AnswerInv'
      BY <1>c, <2>1, <2>2, <3>3, <3>4, OthersKept DEF StatementInv, AnswerInv
    <3>6. TableInv'
      BY <1>a, <2>1, <3>3 DEF TableInv
    <3>7. EditsSurvive'
      BY <1>a, <2>1, <3>1, <3>2, NothingLost DEF Settle
    <3> QED
      BY <3>5, <3>6, <3>7 DEF SyncInv
  <2>4. CASE ~call[d].stored
    <3>1. UNCHANGED <<replica, unsaved>>
      BY <1>6, <2>4, Zenon DEF ReturnWrite
    <3>2. StatementInv' /\ AnswerInv'
      BY <1>c, <1>d, <2>1, <2>2, <3>1, OthersKept DEF StatementInv, AnswerInv
    <3>3. EditsSurvive'
      BY <1>a, <2>1, <3>1 DEF EditsSurvive
    <3> QED
      BY <1>e, <2>1, <3>1, <3>2, <3>3 DEF SyncInv
  <2> QED
    BY <2>3, <2>4
<1>7. ASSUME NEW d \in Devices, LoseConnection(d) PROVE SyncInv'
  <2>1. /\ Still /\ UNCHANGED <<replica, unsaved, edits, given>>
        /\ call'[d] = Idle /\ \A e \in Devices : e # d => call'[e] = call[e]
    BY <1>7 DEF LoseConnection, SyncTypeOK
  <2>2. SentOK(d)' /\ AnswerOK(d)'
    BY <2>1 DEF SentOK, AnswerOK, Idle
  <2>3. /\ \A e \in Devices : SentOK(e)' /\ AnswerOK(e)'
        /\ \A s \in lost : LostOK(s)'
    BY <1>c, <1>d, <2>1, <2>2, OthersKept
  <2>4. \A s \in lost' : LostOK(s)'
    <3>1. CASE call[d].phase = "sent"
      <4>1. PICK s : s = call[d].statement
        OBVIOUS
      <4>2. lost' = lost \cup {s}
        BY <1>7, <3>1, <4>1 DEF LoseConnection
      <4>3. s.device = d /\ s.expected = Base(d) /\ s.record = Unsaved(d)
        BY <1>a, <3>1, <4>1 DEF SentOK
      <4>4. LostOK(s)'
        BY <1>b, <2>1, <4>3 DEF LostOK, Base, Unsaved
      <4> QED
        BY <2>3, <4>2, <4>4, Zenon
    <3>2. CASE call[d].phase # "sent"
      BY <1>7, <2>3, <3>2 DEF LoseConnection
    <3> QED
      BY <3>1, <3>2
  <2>5. EditsSurvive'
    BY <1>a, <2>1 DEF EditsSurvive
  <2> QED
    BY <1>e, <2>1, <2>3, <2>4, <2>5 DEF SyncInv, StatementInv, AnswerInv
<1>8. ASSUME NEW d \in Devices, Fetch(d) PROVE SyncInv'
  <2>1. /\ Still /\ UNCHANGED <<replica, lost, unsaved, edits, given>>
        /\ call'[d] = Fetched(table) /\ \A e \in Devices : e # d => call'[e] = call[e]
    BY <1>8 DEF Fetch, SyncTypeOK
  <2>2. SentOK(d)' /\ AnswerOK(d)'
    BY <1>a, <1>b, <2>1 DEF SentOK, AnswerOK, Fetched, TableInv
  <2>3. StatementInv' /\ AnswerInv'
    BY <1>c, <1>d, <2>1, <2>2, OthersKept DEF StatementInv, AnswerInv
  <2>4. EditsSurvive'
    BY <1>a, <2>1 DEF EditsSurvive
  <2> QED
    BY <1>e, <2>1, <2>3, <2>4 DEF SyncInv
<1>9. ASSUME NEW d \in Devices, ReturnFetch(d) PROVE SyncInv'
  <2> DEFINE record == call[d].record
  <2>1. /\ Still /\ UNCHANGED <<lost, edits>>
        /\ call[d].phase = "fetched" /\ record \in Records \cup {NoRecord}
        /\ call'[d] = Idle /\ \A e \in Devices : e # d => call'[e] = call[e]
    BY <1>9, CallFields DEF ReturnFetch, SyncTypeOK
  <2>2. SentOK(d)' /\ AnswerOK(d)'
    BY <2>1 DEF SentOK, AnswerOK, Idle
  <2>3. record.revision <= table.revision /\ (record # NoRecord => record.edit \in Range(chain))
    BY <1>a, <2>1 DEF AnswerOK
  <2>4. /\ CopiesGrow
        /\ \A e \in Devices : Base(e)' <= table.revision
        /\ \A e \in Devices : e # d => replica'[e] = replica[e]
    <3>1. replica' \in {replica, [replica EXCEPT ![d] = Insert(@, record)]}
      BY <1>9, FetchedEffect
    <3> QED
      BY <1>a, <2>1, <2>3, <3>1, CopyTakes
  <2>5. \A e \in Devices : e # d => unsaved'[e] = unsaved[e]
    <3>1. unsaved' \in {unsaved, [unsaved EXCEPT ![d] = 0]}
      BY <1>9, FetchedEffect
    <3> QED
      BY <3>1 DEF SyncTypeOK
  <2>6. StatementInv' /\ AnswerInv'
    BY <1>c, <2>1, <2>2, <2>4, <2>5, OthersKept DEF StatementInv, AnswerInv
  <2>7. TableInv'
    BY <1>a, <2>1, <2>4 DEF TableInv
  <2>8. EditsSurvive'
    <3>1. /\ given \subseteq given'
          /\ \/ unsaved' = unsaved
             \/ unsaved' = [unsaved EXCEPT ![d] = 0] /\ unsaved[d] \in given'
             \/ unsaved' = [unsaved EXCEPT ![d] = 0] /\ record = Unsaved(d) /\ record # NoRecord
      BY <1>9, FetchedEffect
    <3>2. record = Unsaved(d) /\ record # NoRecord => unsaved[d] \in Range(chain')
      BY <2>1, <2>3 DEF Unsaved
    <3>3. \/ unsaved' = unsaved
          \/ unsaved' = [unsaved EXCEPT ![d] = 0] /\ unsaved[d] \in Range(chain') \cup given'
      BY <3>1, <3>2, Zenon
    <3>4. Range(chain) \subseteq Range(chain') /\ edits' = edits
      BY <2>1
    <3> QED
      BY <1>a, <3>1, <3>3, <3>4, NothingLost, Zenon
  <2> QED
    BY <2>6, <2>7, <2>8 DEF SyncInv
<1>10. ASSUME NEW s \in lost, ExecuteLost(s) PROVE SyncInv'
  <2>1. /\ Store(s) /\ s \in Statements /\ lost' \subseteq lost
        /\ UNCHANGED <<replica, unsaved, call, edits, given>>
    BY <1>10 DEF ExecuteLost, SyncTypeOK
  <2>2. s.device \in Devices /\ s.record.revision = s.expected + 1
    BY <2>1 DEF SyncInv, StatementInv, LostOK, Statements
  <2>3. /\ StoreGrows
        /\ Len(chain') = table'.revision
        /\ table' # NoRecord => table'.edit \in Range(chain')
    BY <1>a, <2>1, <2>2, StoreEffect
  <2>4. CopiesGrow
    BY <1>d, <2>1
  <2>5. TableInv'
    <3>1. \A e \in Devices : Base(e) <= table.revision
      BY <1>a DEF TableInv
    <3>2. table'.revision \in Nat
      BY RecordFields DEF SyncTypeOK
    <3>3. \A e \in Devices : Base(e)' <= table'.revision
      BY <1>b, <2>1, <2>3, <3>1, <3>2 DEF Base, StoreGrows
    <3> QED
      BY <2>3, <3>3 DEF TableInv
  <2>6. \A e \in Devices : SentOK(e)' /\ AnswerOK(e)'
    BY <1>a, <2>1, <2>3, SentKept, AnswerKept
  <2>7. \A r \in lost' : LostOK(r)'
    <3> SUFFICES ASSUME NEW r \in lost' PROVE LostOK(r)'
      OBVIOUS
    <3>1. r \in Statements /\ LostOK(r)
      BY <2>1 DEF SyncInv, StatementInv, SyncTypeOK
    <3> QED
      BY <2>4, <3>1, LostKept, Zenon
  <2>8. EditsSurvive'
    BY <1>a, <2>1, <2>2, <2>3, NothingLost DEF StoreGrows
  <2> QED
    BY <2>5, <2>6, <2>7, <2>8 DEF SyncInv, StatementInv, AnswerInv
<1>11. ASSUME NEW s \in lost, ForgetLost(s) PROVE SyncInv'
  <2>1. Still /\ UNCHANGED <<replica, call, unsaved, edits, given>> /\ lost' \subseteq lost
    BY <1>11 DEF ForgetLost
  <2> QED
    BY <2>1, <1>a, <1>e DEF SyncInv, StatementInv, AnswerInv, EditsSurvive, SentOK, AnswerOK, LostOK, Base, Unsaved
<1>12. CASE UNCHANGED syncVars
  <2>1. Still /\ UNCHANGED <<replica, lost, call, unsaved, edits, given>>
    BY <1>12 DEF syncVars
  <2> QED
    BY <2>1, <1>a, <1>e DEF SyncInv, StatementInv, AnswerInv, EditsSurvive, SentOK, AnswerOK, LostOK, Base, Unsaved
<1> QED
  BY <1>1, <1>2, <1>3, <1>4, <1>5, <1>6, <1>7, <1>8, <1>9, <1>10, <1>11, <1>12 DEF SyncNext

\* The invariant holds initially, and so always.
LEMMA SyncInvariant == SyncSpec => [](SyncTypeOK /\ SyncInv)
<1>1. SyncInit => SyncInv
  <2> SUFFICES ASSUME SyncInit PROVE SyncInv
    OBVIOUS
  <2>1. TableInv
    BY DEF SyncInit, TableInv, NoRecord, Base
  <2>2. StatementInv /\ AnswerInv
    BY DEF SyncInit, StatementInv, AnswerInv, SentOK, AnswerOK, Idle
  <2>3. EditsSurvive
    BY DEF SyncInit, EditsSurvive
  <2> QED
    BY <2>1, <2>2, <2>3 DEF SyncInv
<1>2. SyncTypeOK /\ SyncTypeOK' /\ SyncInv /\ [SyncNext]_syncVars => SyncInv'
  BY SyncInvStep
<1> QED
  BY <1>1, <1>2, SyncTyped, PTL DEF SyncSpec

\* No edit disappears unnoticed, however many devices write, however often
\* their connections are lost and whenever the server executes what they sent.
THEOREM NoEditLost == SyncSpec => []EditsSurvive
<1>1. SyncInv => EditsSurvive
  BY DEF SyncInv
<1> QED
  BY <1>1, SyncInvariant, PTL

-----------------------------------------------------------------------------
(* The refinement.                                                         *)

\* A device whose statement succeeds has seen the whole chain.
LEMMA WriterKnowsAll ==
  ASSUME SyncTypeOK, TableInv, NEW d \in Devices, NEW expected \in Nat,
         expected <= Base(d), PutIfRevision(table, expected)
  PROVE  Base(d) = Len(chain)
<1>1. Base(d) \in Nat /\ table.revision \in Nat /\ Base(d) <= table.revision
  BY RevisionsAreNat DEF TableInv
<1> QED
  BY <1>1 DEF PutIfRevision, TableInv

\* Executing a statement extends the chain, by a device that has seen the whole
\* of it, or changes nothing.
LEMMA StoreExtends ==
  ASSUME SyncTypeOK, SyncInv, NEW s \in Statements, Store(s), UNCHANGED replica,
         s.expected <= Base(s.device)
  PROVE  [Shared!SharedNext]_(Shared!sharedVars)
<1>1. s.device \in Devices /\ s.expected \in Nat /\ s.record.edit \in 1 .. MaxEdits
  BY BoundsAssumption DEF Statements, Records
<1>2. TableInv
  BY DEF SyncInv
<1> DEFINE known == [d \in Devices |-> Base(d)]
<1>3. known' = known
  BY DEF Base
<1>4. CASE PutIfRevision(table, s.expected)
  <2>1. chain' = Append(chain, s.record.edit)
    BY <1>4, Zenon DEF Store
  <2>2. known[s.device] = Len(chain)
    BY <1>1, <1>2, <1>4, WriterKnowsAll
  <2>3. known' = [known EXCEPT ![s.device] = Len(chain)]
    BY <1>1, <1>3, <2>2
  <2>4. Shared!Extend(s.device, s.record.edit)
    BY <2>1, <2>2, <2>3 DEF Shared!Extend
  <2> QED
    BY <1>1, <2>4, Zenon DEF Shared!SharedNext
<1>5. CASE ~PutIfRevision(table, s.expected)
  BY <1>3, <1>5 DEF Store, Shared!sharedVars
<1> QED
  BY <1>4, <1>5

\* A device that takes a stored record into its copy learns of its versions.
LEMMA CopyLearns ==
  ASSUME SyncTypeOK, SyncInv, NEW d \in Devices, NEW record \in Records \cup {NoRecord},
         record.revision <= table.revision, UNCHANGED chain,
         replica' \in {replica, [replica EXCEPT ![d] = Insert(@, record)]}
  PROVE  [Shared!SharedNext]_(Shared!sharedVars)
<1>1. TableInv /\ table.revision \in Nat /\ \A e \in Devices : Base(e) \in Nat
  BY RevisionsAreNat DEF SyncInv
<1>2. /\ CopiesGrow
      /\ \A e \in Devices : Base(e)' <= table.revision
      /\ \A e \in Devices : e # d => replica'[e] = replica[e]
  BY <1>1, CopyTakes
<1> DEFINE known == [e \in Devices |-> Base(e)]
           n == Base(d)'
<1>3. n \in known[d] .. Len(chain)
  <2>1. n \in Nat
    <3>1. replica'[d] \in {replica[d], Insert(replica[d], record)}
      BY DEF SyncTypeOK
    <3>2. replica[d] \in Records \cup {NoRecord}
      BY DEF SyncTypeOK
    <3> QED
      BY <3>1, <3>2, InsertGrows, RecordFields DEF Base
  <2>2. Base(d) <= n /\ n <= Len(chain)
    BY <1>1, <1>2 DEF CopiesGrow, TableInv
  <2> QED
    BY <1>1, <2>1, <2>2
<1>4. known' = [known EXCEPT ![d] = n]
  BY <1>2 DEF Base
<1>5. Shared!Learn(d)
  BY <1>3, <1>4, Zenon DEF Shared!Learn
<1> QED
  BY <1>5, Zenon DEF Shared!SharedNext

\* Every step of the devices is a step of the shared record, or none.
LEMMA StepImplements ==
  SyncTypeOK /\ SyncTypeOK' /\ SyncInv /\ [SyncNext]_syncVars
    => [Shared!SharedNext]_(Shared!sharedVars)
<1> SUFFICES ASSUME SyncTypeOK, SyncTypeOK', SyncInv, [SyncNext]_syncVars
             PROVE  [Shared!SharedNext]_(Shared!sharedVars)
  OBVIOUS
<1>1. ASSUME UNCHANGED <<chain, replica>> PROVE [Shared!SharedNext]_(Shared!sharedVars)
  BY <1>1 DEF Shared!sharedVars, Base
<1>2. ASSUME NEW d \in Devices, WriteMemory(d) PROVE [Shared!SharedNext]_(Shared!sharedVars)
  <2> DEFINE known == [e \in Devices |-> Base(e)]
  <2>1. MayWrite(d) /\ table' = ApplyLocal(table, Unsaved(d), Base(d))
    BY <1>2 DEF WriteMemory
  <2>2. CASE table' # table
    <3>1. unsaved[d] \in 1 .. MaxEdits /\ Unsaved(d) \in Records
      BY <2>1, DraftIsRecord, Zenon
    <3>2. TableInv /\ Base(d) \in Nat
      BY RevisionsAreNat DEF SyncInv
    <3>3. table \in Records \cup {NoRecord} /\ replica \in [Devices -> Records \cup {NoRecord}]
      BY DEF SyncTypeOK
    <3>4. table' = Unsaved(d) /\ table.revision = Base(d)
      BY <2>1, <2>2, <3>1, <3>2, <3>3, ApplyLocalStores DEF Unsaved
    <3>5. chain' = Append(chain, unsaved[d]) /\ Settle(d, table')
      BY <1>2, <2>2 DEF WriteMemory
    <3>6. known[d] = Len(chain)
      BY <3>2, <3>4 DEF TableInv
    <3>7. Insert(replica[d], table') = table' /\ table'.revision = Base(d) + 1
      BY <3>2, <3>4 DEF Insert, Base, Unsaved
    <3>8. known' = [known EXCEPT ![d] = Len(chain) + 1]
      <4>1. \A e \in Devices : replica'[e].revision = IF e = d THEN Len(chain) + 1 ELSE replica[e].revision
        BY <3>3, <3>5, <3>6, <3>7 DEF Settle
      <4> QED
        BY <4>1 DEF Base
    <3>9. Shared!Extend(d, unsaved[d])
      BY <3>5, <3>6, <3>8 DEF Shared!Extend
    <3> QED
      BY <3>1, <3>9, Zenon DEF Shared!SharedNext
  <2>3. CASE table' = table
    BY <1>1, <1>2, <2>3 DEF WriteMemory
  <2> QED
    BY <2>2, <2>3
<1>3. ASSUME NEW d \in Devices, ExecuteWrite(d) PROVE [Shared!SharedNext]_(Shared!sharedVars)
  <2>1. PICK s : s = call[d].statement
    OBVIOUS
  <2>2. Store(s) /\ call[d].phase = "sent" /\ s \in Statements /\ UNCHANGED replica
    BY <1>3, <2>1, CallFields DEF ExecuteWrite, SyncTypeOK
  <2>3. s.expected = Base(s.device) /\ Base(d) \in Nat /\ s.device = d
    BY <2>1, <2>2, RevisionsAreNat DEF SyncInv, StatementInv, SentOK
  <2> QED
    BY <2>2, <2>3, StoreExtends
<1>4. ASSUME NEW s \in lost, ExecuteLost(s) PROVE [Shared!SharedNext]_(Shared!sharedVars)
  <2>1. Store(s) /\ s \in Statements /\ UNCHANGED replica /\ s.expected <= Base(s.device)
    BY <1>4 DEF ExecuteLost, SyncTypeOK, SyncInv, StatementInv, LostOK
  <2> QED
    BY <2>1, StoreExtends
<1>5. ASSUME NEW d \in Devices, ReturnWrite(d) PROVE [Shared!SharedNext]_(Shared!sharedVars)
  <2>1. CASE call[d].stored
    <3>1. PICK record : record = call[d].record
      OBVIOUS
    <3>2. record \in Records \cup {NoRecord} /\ record.revision <= table.revision
      BY <1>5, <2>1, <3>1, CallFields
         DEF ReturnWrite, SyncTypeOK, SyncInv, AnswerInv, AnswerOK
    <3>3. UNCHANGED chain /\ replica' = [replica EXCEPT ![d] = Insert(@, record)]
      BY <1>5, <2>1, <3>1 DEF ReturnWrite, Settle
    <3> QED
      BY <3>2, <3>3, CopyLearns
  <2>2. CASE ~call[d].stored
    BY <1>1, <1>5, <2>2 DEF ReturnWrite
  <2> QED
    BY <2>1, <2>2
<1>6. ASSUME NEW d \in Devices, ReturnFetch(d) PROVE [Shared!SharedNext]_(Shared!sharedVars)
  <2>1. PICK record : record = call[d].record
    OBVIOUS
  <2>2. record \in Records \cup {NoRecord} /\ record.revision <= table.revision
    BY <1>6, <2>1, CallFields DEF ReturnFetch, SyncTypeOK, SyncInv, AnswerInv, AnswerOK
  <2>3. UNCHANGED chain
    BY <1>6 DEF ReturnFetch
  <2>4. replica' \in {replica, [replica EXCEPT ![d] = Insert(@, record)]}
    BY <1>6, <2>1, FetchedEffect
  <2> QED
    BY <2>2, <2>3, <2>4, CopyLearns
<1>7. ASSUME NEW d \in Devices,
             Edit(d) \/ Connect(d) \/ SendWrite(d) \/ LoseConnection(d) \/ Fetch(d)
      PROVE  UNCHANGED <<chain, replica>>
  BY <1>7 DEF Edit, Connect, SendWrite, LoseConnection, Fetch
<1>8. ASSUME NEW s \in lost, ForgetLost(s) PROVE UNCHANGED <<chain, replica>>
  BY <1>8 DEF ForgetLost
<1>9. CASE UNCHANGED syncVars
  BY <1>1, <1>9 DEF syncVars
<1> QED
  BY <1>1, <1>2, <1>3, <1>4, <1>5, <1>6, <1>7, <1>8, <1>9 DEF SyncNext

\* The library keeps what optimistic conflict detection promises (the comment
\* of its module): a version is stored only over versions its device has seen.
THEOREM SyncImplementsSharedRecord == SyncSpec => NoLostUpdate
<1>1. SyncInit => Shared!SharedInit
  BY DEF SyncInit, Shared!SharedInit, Base, NoRecord
<1>2. SyncTypeOK /\ SyncTypeOK' /\ SyncInv /\ [SyncNext]_syncVars
        => [Shared!SharedNext]_(Shared!sharedVars)
  BY StepImplements
<1> QED
  BY <1>1, <1>2, SyncInvariant, PTL DEF SyncSpec, NoLostUpdate, Shared!SharedSpec

=============================================================================
