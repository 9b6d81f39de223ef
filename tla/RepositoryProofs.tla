-------------------------- MODULE RepositoryProofs --------------------------
(***************************************************************************)
(* Theorems about Repository, for any number of updates, keys, crashes and *)
(* failing writes, and about the editor of its catalogue.                  *)
(***************************************************************************)
EXTENDS MCRepository, SyncProofs, SequenceTheorems, TLAPS

-----------------------------------------------------------------------------
(* The inductive invariant of Repository.                                  *)

\* A file whose entry a process or a power loss may find is encrypted under
\* this key, or it does not exist.
UnderKey(key) == \A file \in {deviceFile.seen, deviceFile.durable} : file # NoFile => file.key = key

\* What a power loss may take back: a device file appears once and for all, a
\* key file may still vanish, and neither is ever found beside a stranger.
DiskInv ==
  /\ keyFile.durable \in {NoKey, keyFile.seen}
  /\ deviceFile.seen = NoFile => deviceFile.durable = NoFile
  /\ keyFile.seen # NoKey => UnderKey(keyFile.seen)

\* The key in memory is that of both files, as far as they exist.  A fresh key
\* is written while there is no device file.
KeyInv ==
  /\ status \in {"opening", "ready", "updating"} =>
       /\ vaultKey # NoKey /\ keyFile.seen \in {NoKey, vaultKey}
       /\ UnderKey(vaultKey)
  /\ status = "opening" => deviceFile.seen = NoFile

\* A write is under way exactly in the two states that wait for one.
StepInv == step # "none" <=> status \in {"opening", "updating"}

\* Entries grow with the updates; an update reaches memory after the disk, and
\* is acknowledged after both.
OrderInv ==
  /\ acked <= deviceFile.durable.catalog
  /\ deviceFile.durable.catalog <= deviceFile.seen.catalog
  /\ deviceFile.seen.catalog <= attempted
  /\ status \in {"ready", "updating"} => catalog <= deviceFile.seen.catalog
  /\ status = "updating" =>
       /\ attempted \in Updates
       /\ step = "sync" => deviceFile.seen = [key |-> vaultKey, catalog |-> attempted]

RepositoryInv == DiskInv /\ KeyInv /\ StepInv /\ OrderInv

-----------------------------------------------------------------------------
(* Types.                                                                  *)

LEMMA FileTypes ==
  ASSUME TypeOK
  PROVE  /\ keyFile.seen \in Keys \cup {NoKey} /\ keyFile.durable \in Keys \cup {NoKey}
         /\ keyFile = [seen |-> keyFile.seen, durable |-> keyFile.durable]
         /\ deviceFile.seen \in DeviceFiles /\ deviceFile.durable \in DeviceFiles
         /\ deviceFile = [seen |-> deviceFile.seen, durable |-> deviceFile.durable]
BY DEF TypeOK

\* A device file has a key and a positive number, or neither.
LEMMA DeviceFileFields ==
  ASSUME NEW file \in DeviceFiles
  PROVE  /\ file.catalog \in Updates \cup {0} /\ file.catalog \in Nat
         /\ file # NoFile => file.key \in Keys /\ file.catalog \in Updates
         /\ file = NoFile => file.key = NoKey /\ file.catalog = 0
BY RepositoryBounds DEF DeviceFiles, NoFile, NoKey, Updates, Keys

\* Every step keeps the types; what a write puts into a file depends on where
\* it stands.
LEMMA RepositoryTypingStep == TypeOK /\ RepositoryInv /\ [Next]_vars => TypeOK'
<1> SUFFICES ASSUME TypeOK, RepositoryInv, [Next]_vars PROVE TypeOK'
  OBVIOUS
<1> USE DEF disk, memory, history, Keys, Updates, NoKey
<1>1. ASSUME OpenWithKey PROVE TypeOK'
  BY <1>1, RepositoryBounds DEF TypeOK, OpenWithKey, Load, DeviceFiles, NoFile
<1>2. ASSUME OpenFails PROVE TypeOK'
  BY <1>2, RepositoryBounds DEF TypeOK, OpenFails
<1>3. ASSUME GenerateKey PROVE TypeOK'
  BY <1>3, RepositoryBounds DEF TypeOK, GenerateKey
<1>4. ASSUME Update PROVE TypeOK'
  BY <1>4, RepositoryBounds DEF TypeOK, Update, CatalogWhileWriting
<1>5. ASSUME WriteTemp PROVE TypeOK'
  BY <1>5, RepositoryBounds DEF TypeOK, WriteTemp
<1>6. ASSUME Rename PROVE TypeOK'
  <2>1. vaultKey \in Keys /\ (status = "updating" => attempted \in Updates)
    BY <1>6 DEF TypeOK, RepositoryInv, KeyInv, StepInv, OrderInv, Rename
  <2>2. CASE status = "opening"
    BY <1>6, <2>1, <2>2 DEF TypeOK, Rename
  <2>3. CASE status # "opening"
    <3>1. [key |-> vaultKey, catalog |-> attempted] \in DeviceFiles
      BY <1>6, <2>1, <2>3 DEF RepositoryInv, StepInv, Rename, DeviceFiles
    <3> QED
      BY <1>6, <2>3, <3>1 DEF TypeOK, Rename
  <2> QED
    BY <2>2, <2>3
<1>7. ASSUME SyncDirectory PROVE TypeOK'
  BY <1>7, RepositoryBounds DEF TypeOK, SyncDirectory, Load, AfterSync, DeviceFiles, NoFile
<1>8. ASSUME WriteFails PROVE TypeOK'
  <2>1. status = "updating" => attempted \in Updates
    BY DEF RepositoryInv, OrderInv
  <2>2. status \in {"opening", "updating"}
    BY <1>8 DEF RepositoryInv, StepInv, WriteFails
  <2>3. failed' \subseteq Updates
    <3>1. failed \subseteq Updates
      BY DEF TypeOK
    <3>2. failed' = failed \/ (status = "updating" /\ failed' = failed \cup {attempted})
      BY <1>8, <2>2 DEF WriteFails
    <3> QED
      BY <2>1, <3>1, <3>2
  <2> QED
    BY <1>8, <2>3 DEF TypeOK, WriteFails, StatusAfterFailure
<1>9. ASSUME Restart PROVE TypeOK'
  BY <1>9, RepositoryBounds DEF TypeOK, Restart, Forget
<1>10. ASSUME PowerLoss PROVE TypeOK'
  BY <1>10, RepositoryBounds DEF TypeOK, PowerLoss, Forget
<1>11. ASSUME LoseKey PROVE TypeOK'
  BY <1>11, RepositoryBounds DEF TypeOK, LoseKey
<1>12. CASE UNCHANGED vars
  BY <1>12 DEF TypeOK, vars, disk, memory, history
<1> QED
  BY <1>1, <1>2, <1>3, <1>4, <1>5, <1>6, <1>7, <1>8, <1>9, <1>10, <1>11, <1>12 DEF Next

-----------------------------------------------------------------------------
(* The invariant.                                                          *)

\* Every step keeps the invariant, whatever fails or crashes.
LEMMA RepositoryInvStep ==
  TypeOK /\ TypeOK' /\ RepositoryInv /\ [Next]_vars => RepositoryInv'
<1> SUFFICES ASSUME TypeOK, TypeOK', RepositoryInv, [Next]_vars PROVE RepositoryInv'
  OBVIOUS
<1> USE DEF disk, memory, history, NoKey
<1>a. /\ DiskInv /\ KeyInv /\ StepInv /\ OrderInv
      /\ acked \in Nat /\ attempted \in Nat /\ catalog \in Nat
  BY RepositoryBounds DEF RepositoryInv, TypeOK, Updates
<1>1. ASSUME OpenWithKey PROVE RepositoryInv'
  <2>1. DiskInv'
    BY <1>a, <1>1, FileTypes, DeviceFileFields DEF DiskInv, KeyInv, StepInv, OrderInv, UnderKey, OpenWithKey, Load, Readable, Decrypts
  <2>2. KeyInv'
    BY <1>a, <1>1, FileTypes, DeviceFileFields DEF DiskInv, KeyInv, StepInv, OrderInv, UnderKey, OpenWithKey, Load, Readable, Decrypts
  <2>3. StepInv'
    BY <1>a, <1>1, FileTypes, DeviceFileFields DEF DiskInv, KeyInv, StepInv, OrderInv, UnderKey, OpenWithKey, Load, Readable, Decrypts
  <2>4. OrderInv'
    BY <1>a, <1>1, FileTypes, DeviceFileFields DEF DiskInv, KeyInv, StepInv, OrderInv, UnderKey, OpenWithKey, Load, Readable, Decrypts
  <2> QED
    BY <2>1, <2>2, <2>3, <2>4 DEF RepositoryInv
<1>2. ASSUME OpenFails PROVE RepositoryInv'
  <2>1. DiskInv'
    BY <1>a, <1>2, FileTypes, DeviceFileFields DEF DiskInv, KeyInv, StepInv, OrderInv, UnderKey, OpenFails
  <2>2. KeyInv'
    BY <1>a, <1>2, FileTypes, DeviceFileFields DEF DiskInv, KeyInv, StepInv, OrderInv, UnderKey, OpenFails
  <2>3. StepInv'
    BY <1>a, <1>2, FileTypes, DeviceFileFields DEF DiskInv, KeyInv, StepInv, OrderInv, UnderKey, OpenFails
  <2>4. OrderInv'
    BY <1>a, <1>2, FileTypes, DeviceFileFields DEF DiskInv, KeyInv, StepInv, OrderInv, UnderKey, OpenFails
  <2> QED
    BY <2>1, <2>2, <2>3, <2>4 DEF RepositoryInv
<1>3. ASSUME GenerateKey PROVE RepositoryInv'
  <2>1. DiskInv'
    BY <1>a, <1>3, FileTypes, DeviceFileFields DEF DiskInv, KeyInv, StepInv, OrderInv, UnderKey, GenerateKey, MayGenerateKey
  <2>2. KeyInv'
    <3>1. vaultKey' = generated + 1 /\ generated + 1 # NoKey
      BY <1>3 DEF GenerateKey, TypeOK
    <3>2. deviceFile.seen = NoFile /\ deviceFile.durable = NoFile /\ UNCHANGED deviceFile
      BY <1>a, <1>3 DEF GenerateKey, MayGenerateKey, DiskInv
    <3> QED
      BY <1>3, <3>1, <3>2 DEF KeyInv, UnderKey, GenerateKey
  <2>3. StepInv'
    BY <1>a, <1>3, FileTypes, DeviceFileFields DEF DiskInv, KeyInv, StepInv, OrderInv, UnderKey, GenerateKey, MayGenerateKey
  <2>4. OrderInv'
    BY <1>a, <1>3, FileTypes, DeviceFileFields DEF DiskInv, KeyInv, StepInv, OrderInv, UnderKey, GenerateKey, MayGenerateKey
  <2> QED
    BY <2>1, <2>2, <2>3, <2>4 DEF RepositoryInv
<1>4. ASSUME Update PROVE RepositoryInv'
  <2>1. DiskInv'
    BY <1>a, <1>4, FileTypes, DeviceFileFields DEF DiskInv, KeyInv, StepInv, OrderInv, UnderKey, Update, CatalogWhileWriting
  <2>2. KeyInv'
    BY <1>a, <1>4, FileTypes, DeviceFileFields DEF DiskInv, KeyInv, StepInv, OrderInv, UnderKey, Update, CatalogWhileWriting
  <2>3. StepInv'
    BY <1>a, <1>4, FileTypes, DeviceFileFields DEF DiskInv, KeyInv, StepInv, OrderInv, UnderKey, Update, CatalogWhileWriting
  <2>4. OrderInv'
    <3>1. attempted + 1 \in Updates /\ attempted' = attempted + 1
      BY <1>a, <1>4, RepositoryBounds DEF Update, Updates
    <3>2. deviceFile.seen.catalog \in Nat
      BY FileTypes, DeviceFileFields
    <3> QED
      BY <1>a, <1>4, <3>1, <3>2 DEF OrderInv, Update, CatalogWhileWriting
  <2> QED
    BY <2>1, <2>2, <2>3, <2>4 DEF RepositoryInv
<1>5. ASSUME WriteTemp PROVE RepositoryInv'
  <2>1. DiskInv'
    BY <1>a, <1>5, FileTypes, DeviceFileFields DEF DiskInv, KeyInv, StepInv, OrderInv, UnderKey, WriteTemp
  <2>2. KeyInv'
    BY <1>a, <1>5, FileTypes, DeviceFileFields DEF DiskInv, KeyInv, StepInv, OrderInv, UnderKey, WriteTemp
  <2>3. StepInv'
    BY <1>a, <1>5, FileTypes, DeviceFileFields DEF DiskInv, KeyInv, StepInv, OrderInv, UnderKey, WriteTemp
  <2>4. OrderInv'
    BY <1>a, <1>5, FileTypes, DeviceFileFields DEF DiskInv, KeyInv, StepInv, OrderInv, UnderKey, WriteTemp
  <2> QED
    BY <2>1, <2>2, <2>3, <2>4 DEF RepositoryInv
<1>6. ASSUME Rename PROVE RepositoryInv'
  <2>1. DiskInv'
    <3>1. vaultKey # NoKey /\ keyFile.seen \in {NoKey, vaultKey} /\ UnderKey(vaultKey)
      BY <1>a, <1>6 DEF KeyInv, StepInv, Rename
    <3>2. CASE status = "opening"
      <4>1. keyFile'.seen = vaultKey /\ keyFile'.durable = keyFile.durable /\ UNCHANGED deviceFile
        BY <1>6, <3>2, FileTypes DEF Rename
      <4> QED
        BY <1>a, <3>1, <4>1 DEF DiskInv, UnderKey
    <3>3. CASE status # "opening"
      <4>1. /\ UNCHANGED keyFile /\ deviceFile'.durable = deviceFile.durable
            /\ deviceFile'.seen = [key |-> vaultKey, catalog |-> attempted]
        BY <1>6, <3>3, FileTypes DEF Rename
      <4>2. deviceFile'.seen # NoFile
        BY <3>1, <4>1 DEF NoFile
      <4> QED
        BY <1>a, <3>1, <4>1, <4>2 DEF DiskInv, UnderKey
    <3> QED
      BY <3>2, <3>3
  <2>2. KeyInv'
    BY <1>a, <1>6, FileTypes, DeviceFileFields DEF DiskInv, KeyInv, StepInv, OrderInv, UnderKey, Rename
  <2>3. StepInv'
    BY <1>a, <1>6, FileTypes, DeviceFileFields DEF DiskInv, KeyInv, StepInv, OrderInv, UnderKey, Rename
  <2>4. OrderInv'
    BY <1>a, <1>6, FileTypes, DeviceFileFields DEF DiskInv, KeyInv, StepInv, OrderInv, UnderKey, Rename
  <2> QED
    BY <2>1, <2>2, <2>3, <2>4 DEF RepositoryInv
<1>7. ASSUME SyncDirectory PROVE RepositoryInv'
  <2>1. DiskInv'
    BY <1>a, <1>7, FileTypes, DeviceFileFields DEF DiskInv, KeyInv, StepInv, OrderInv, UnderKey, SyncDirectory, Load, Readable, Decrypts, AfterSync
  <2>2. KeyInv'
    BY <1>a, <1>7, FileTypes, DeviceFileFields DEF DiskInv, KeyInv, StepInv, OrderInv, UnderKey, SyncDirectory, Load, Readable, Decrypts, AfterSync
  <2>3. StepInv'
    BY <1>a, <1>7, FileTypes, DeviceFileFields DEF DiskInv, KeyInv, StepInv, OrderInv, UnderKey, SyncDirectory, Load, Readable, Decrypts, AfterSync
  <2>4. OrderInv'
    BY <1>a, <1>7, FileTypes, DeviceFileFields DEF DiskInv, KeyInv, StepInv, OrderInv, UnderKey, SyncDirectory, Load, Readable, Decrypts, AfterSync
  <2> QED
    BY <2>1, <2>2, <2>3, <2>4 DEF RepositoryInv
<1>8. ASSUME WriteFails PROVE RepositoryInv'
  <2>1. DiskInv'
    BY <1>a, <1>8, FileTypes, DeviceFileFields DEF DiskInv, KeyInv, StepInv, OrderInv, UnderKey, WriteFails, StatusAfterFailure
  <2>2. KeyInv'
    BY <1>a, <1>8, FileTypes, DeviceFileFields DEF DiskInv, KeyInv, StepInv, OrderInv, UnderKey, WriteFails, StatusAfterFailure
  <2>3. StepInv'
    BY <1>a, <1>8, FileTypes, DeviceFileFields DEF DiskInv, KeyInv, StepInv, OrderInv, UnderKey, WriteFails, StatusAfterFailure
  <2>4. OrderInv'
    BY <1>a, <1>8, FileTypes, DeviceFileFields DEF DiskInv, KeyInv, StepInv, OrderInv, UnderKey, WriteFails, StatusAfterFailure
  <2> QED
    BY <2>1, <2>2, <2>3, <2>4 DEF RepositoryInv
<1>9. ASSUME Restart PROVE RepositoryInv'
  <2>1. DiskInv'
    BY <1>a, <1>9, FileTypes, DeviceFileFields DEF DiskInv, KeyInv, StepInv, OrderInv, UnderKey, Restart, Forget
  <2>2. KeyInv'
    BY <1>a, <1>9, FileTypes, DeviceFileFields DEF DiskInv, KeyInv, StepInv, OrderInv, UnderKey, Restart, Forget
  <2>3. StepInv'
    BY <1>a, <1>9, FileTypes, DeviceFileFields DEF DiskInv, KeyInv, StepInv, OrderInv, UnderKey, Restart, Forget
  <2>4. OrderInv'
    BY <1>a, <1>9, FileTypes, DeviceFileFields DEF DiskInv, KeyInv, StepInv, OrderInv, UnderKey, Restart, Forget
  <2> QED
    BY <2>1, <2>2, <2>3, <2>4 DEF RepositoryInv
<1>10. ASSUME PowerLoss PROVE RepositoryInv'
  <2>1. DiskInv'
    BY <1>a, <1>10, FileTypes, DeviceFileFields DEF DiskInv, KeyInv, StepInv, OrderInv, UnderKey, PowerLoss, Forget
  <2>2. KeyInv'
    BY <1>a, <1>10, FileTypes, DeviceFileFields DEF DiskInv, KeyInv, StepInv, OrderInv, UnderKey, PowerLoss, Forget
  <2>3. StepInv'
    BY <1>a, <1>10, FileTypes, DeviceFileFields DEF DiskInv, KeyInv, StepInv, OrderInv, UnderKey, PowerLoss, Forget
  <2>4. OrderInv'
    BY <1>a, <1>10, FileTypes, DeviceFileFields DEF DiskInv, KeyInv, StepInv, OrderInv, UnderKey, PowerLoss, Forget
  <2> QED
    BY <2>1, <2>2, <2>3, <2>4 DEF RepositoryInv
<1>11. ASSUME LoseKey PROVE RepositoryInv'
  <2>1. DiskInv'
    BY <1>a, <1>11, FileTypes, DeviceFileFields DEF DiskInv, KeyInv, StepInv, OrderInv, UnderKey, LoseKey
  <2>2. KeyInv'
    BY <1>a, <1>11, FileTypes, DeviceFileFields DEF DiskInv, KeyInv, StepInv, OrderInv, UnderKey, LoseKey
  <2>3. StepInv'
    BY <1>a, <1>11, FileTypes, DeviceFileFields DEF DiskInv, KeyInv, StepInv, OrderInv, UnderKey, LoseKey
  <2>4. OrderInv'
    BY <1>a, <1>11, FileTypes, DeviceFileFields DEF DiskInv, KeyInv, StepInv, OrderInv, UnderKey, LoseKey
  <2> QED
    BY <2>1, <2>2, <2>3, <2>4 DEF RepositoryInv
<1>12. CASE UNCHANGED vars
  BY <1>a, <1>12 DEF RepositoryInv, DiskInv, KeyInv, StepInv, OrderInv, UnderKey, vars
<1> QED
  BY <1>1, <1>2, <1>3, <1>4, <1>5, <1>6, <1>7, <1>8, <1>9, <1>10, <1>11, <1>12 DEF Next

\* The files and the memory are always in a state their code can leave them in.
THEOREM RepositoryInvariance == Spec => [](TypeOK /\ RepositoryInv)
<1>1. Init => TypeOK
  BY RepositoryBounds DEF Init, TypeOK, DeviceFiles
<1>2. Init => RepositoryInv
  BY DEF Init, RepositoryInv, DiskInv, KeyInv, StepInv, OrderInv, NoFile, UnderKey
<1>3. TypeOK /\ RepositoryInv /\ [Next]_vars => TypeOK' /\ RepositoryInv'
  BY RepositoryTypingStep, RepositoryInvStep
<1> QED
  BY <1>1, <1>2, <1>3, PTL DEF Spec

\* What update() has returned Ok for is on the disk for good, it or a later one.
THEOREM AckedSurvivesAlways == Spec => []AckedSurvives
<1>1. TypeOK /\ RepositoryInv => AckedSurvives
  BY FileTypes, DeviceFileFields, RepositoryBounds DEF RepositoryInv, OrderInv, AckedSurvives, TypeOK, Updates
<1> QED
  BY <1>1, RepositoryInvariance, PTL

\* However open() is interrupted, and whenever the key file is lost, the key
\* file never holds a key that cannot read the device file beside it.
THEOREM KeyMatchesDevicesAlways == Spec => []KeyMatchesDevices
<1>1. RepositoryInv => KeyMatchesDevices
  BY DEF RepositoryInv, DiskInv, UnderKey, KeyMatchesDevices
<1> QED
  BY <1>1, RepositoryInvariance, PTL

\* "Commit on disk first": memory shows nothing that the disk does not hold.
THEOREM DiskFirstAlways == Spec => []DiskFirst
<1>1. RepositoryInv => DiskFirst
  BY DEF RepositoryInv, KeyInv, OrderInv, UnderKey, DiskFirst
<1> QED
  BY <1>1, RepositoryInvariance, PTL

-----------------------------------------------------------------------------
(* The fields of the editor.                                               *)

\* A device as save() leaves it: a password is kept only if it was asked for.
Saved(device) == device \in DeviceRecords /\ (~ device.remember => device.password = NoText)

\* Two sequences of one element, put together.
LEMMA PairOfParts ==
  ASSUME NEW S, NEW a \in S, NEW b \in S
  PROVE  <<a>> \o <<b>> = <<a, b>>
<1> DEFINE s == <<a>>
           t == <<b>>
           u == <<a, b>>
<1>1. s \in Seq(S) /\ t \in Seq(S) /\ u \in Seq(S)
  OBVIOUS
<1>2. Len(s) = 1 /\ Len(t) = 1 /\ Len(u) = 2
  OBVIOUS
<1>3. s[1] = u[1] /\ t[1] = u[2]
  OBVIOUS
<1> HIDE DEF s, t, u
<1>4. s \o t \in Seq(S) /\ Len(s \o t) = 2
  BY <1>1, <1>2, ConcatProperties
<1>5. (s \o t)[1] = s[1] /\ (s \o t)[2] = t[1]
  <2>1. (s \o t)[1] = s[1]
    BY <1>1, <1>2, ConcatProperties
  <2>2. (s \o t)[2] = t[1]
    BY <1>1, <1>2, ConcatProperties
  <2> QED
    BY <2>1, <2>2
<1>6. s \o t = u
  BY <1>1, <1>2, <1>3, <1>4, <1>5, SeqEqual
<1> QED
  BY <1>6 DEF s, t, u

\* The user field, cut in two and put together again.
LEMMA UserFields ==
  /\ \A user \in Users : /\ Domain(user) \in {NoText, "domain"}
                         /\ Username(user) \in {<<>>, <<"user">>}
  /\ Domain(<<"user">>) = NoText /\ Username(<<"user">>) = <<"user">>
  /\ Domain(<<"domain">> \o <<"user">>) = "domain"
  /\ Username(<<"domain">> \o <<"user">>) = <<"user">>
<1>1. <<"domain">> \o <<"user">> = <<"domain", "user">>
  <2>1. "domain" \in {"domain", "user"} /\ "user" \in {"domain", "user"}
    OBVIOUS
  <2> QED
    BY <2>1, PairOfParts, Zenon
<1>2. Domain(<<"user">>) = NoText /\ Username(<<"user">>) = <<"user">>
  BY DEF Domain, Username
<1>3. Domain(<<"domain", "user">>) = "domain" /\ Username(<<"domain", "user">>) = <<"user">>
  BY DEF Domain, Username
<1>4. Domain(<<>>) = NoText /\ Username(<<>>) = <<>>
  BY DEF Domain, Username
<1> QED
  BY <1>1, <1>2, <1>3, <1>4 DEF Users

\* save() reads a device only from a host that can be reached, a port and a user,
\* and takes over the password or none (parse_endpoint, validate).
LEMMA ReadIsSaved ==
  ASSUME NEW form \in Forms, NEW password \in Passwords, NEW favorite \in BOOLEAN,
         Read(form, password, favorite).ok
  PROVE  /\ Saved(Read(form, password, favorite).value)
         /\ Read(form, password, favorite).value.password \in {password, NoText}
<1> DEFINE text == form.host
           inline == IF text.port = NoText THEN DefaultPort ELSE text.port
           device == [host |-> text.host, port |-> PortOf(form.port, inline),
                      domain |-> Domain(form.user), username |-> Username(form.user),
                      favorite |-> favorite, remember |-> form.remember,
                      password |-> IF form.remember THEN password ELSE NoText]
<1>1. /\ text.host \in Hosts \cup {BadHost, NoText} /\ text.port \in Ports \cup {NoText}
      /\ form.port \in Ports \cup {NotANumber} /\ form.user \in Users /\ form.remember \in BOOLEAN
  BY DEF Forms, HostTexts
<1>2. /\ text.host \notin {BadHost, NoText} /\ text.port # 0 /\ form.port # NotANumber
      /\ Valid(device) /\ Read(form, password, favorite) = Success(device)
  BY DEF Read, ParseEndpoint, Failure, Success
<1>3. device.port \in Ports \ {0}
  BY <1>1, <1>2, NoTextAssumption DEF PortOf, Valid, Ports, DefaultPort, NotANumber
<1>4. device.username = <<"user">> /\ device.domain \in {NoText, "domain"}
  BY <1>1, <1>2, UserFields DEF Valid
<1>5. Saved(device) /\ device.password \in {password, NoText}
  BY <1>1, <1>2, <1>3, <1>4 DEF Saved, DeviceRecords, Passwords
<1> QED
  BY <1>2, <1>5 DEF Success

\* What edit() writes into the fields, save() reads back.
LEMMA ReadBack ==
  ASSUME NEW device, Saved(device)
  PROVE  Read(FormOf(device), device.password, device.favorite) = Success(device)
<1> DEFINE form == FormOf(device)
<1>1. /\ device \in DeviceRecords /\ device.host \in Hosts /\ device.port \in Ports \ {0}
      /\ device.domain \in {NoText, "domain"} /\ device.username = <<"user">>
      /\ device.favorite \in BOOLEAN /\ device.remember \in BOOLEAN
      /\ (~ device.remember => device.password = NoText)
  BY DEF Saved, DeviceRecords
<1>2. Domain(form.user) = device.domain /\ Username(form.user) = device.username
  BY <1>1, UserFields, NoTextAssumption DEF FormOf
<1>3. ParseEndpoint(form.host) = Success([host |-> device.host, port |-> DefaultPort])
  <2>1. /\ form.host.host = device.host /\ form.host.port = NoText
        /\ device.host \notin {BadHost, NoText} /\ NoText # 0
    BY <1>1, NoTextAssumption, HostsAssumption DEF FormOf, Ports
  <2> HIDE DEF form
  <2> QED
    BY <2>1 DEF ParseEndpoint
<1>4. form.port = device.port /\ form.port # NotANumber /\ form.remember = device.remember
  BY <1>1 DEF FormOf, Ports, DefaultPort, NotANumber
<1>5. PortOf(form.port, DefaultPort) = device.port
  BY <1>4 DEF PortOf
<1>6. Valid(device)
  BY <1>1 DEF Valid, Ports, DefaultPort
<1>7. device = [host |-> device.host, port |-> device.port, domain |-> device.domain,
                username |-> device.username, favorite |-> device.favorite,
                remember |-> device.remember,
                password |-> IF device.remember THEN device.password ELSE NoText]
  BY <1>1 DEF DeviceRecords
<1> HIDE DEF form
<1>8. Read(form, device.password, device.favorite) = Success(device)
  <2> DEFINE endpoint == ParseEndpoint(form.host)
  <2>1. /\ endpoint.ok = TRUE /\ endpoint.value.host = device.host
        /\ endpoint.value.port = DefaultPort
    BY <1>3 DEF Success
  <2> HIDE DEF endpoint
  <2>2. [host |-> endpoint.value.host, port |-> PortOf(form.port, endpoint.value.port),
         domain |-> Domain(form.user), username |-> Username(form.user),
         favorite |-> device.favorite, remember |-> form.remember,
         password |-> IF form.remember THEN device.password ELSE NoText] = device
    BY <1>2, <1>4, <1>5, <1>7, <2>1
  <2> QED
    BY <1>4, <1>6, <2>1, <2>2, Zenon DEF Read, endpoint
<1> QED
  BY <1>8 DEF form

-----------------------------------------------------------------------------
(* The list, the editor and the catalogue.                                 *)

\* Every stored device could be read again from the fields; what
\* save() writes is the device the form shows; the rows are those of the catalogue on every page, for no page
\* but the list and the editor changes either.
StoredInv == \A id \in DOMAIN devices : Saved(devices[id])
DraftInv == page = "editor" => draft \in Ids /\ draft = shown
RowsInv == rows = RowsOf(devices, favoritesOnly, search)

EditorInv == EditorTypeOK /\ StoredInv /\ DraftInv /\ RowsInv /\ OwnPassword

\* What save() reads from the fields is a device with the password typed or none.
LEMMA ReadingsAreSaved ==
  ASSUME NEW password \in Passwords, NEW favorite \in BOOLEAN,
         NEW device \in Readings[password][favorite]
  PROVE  Saved(device) /\ device.password \in {password, NoText}
<1>1. Readings[password][favorite] =
        {result.value : result \in {r \in {Read(form, password, favorite) : form \in Forms} : r.ok}}
  BY DEF Readings
<1>2. PICK form \in Forms : /\ Read(form, password, favorite).ok
                            /\ device = Read(form, password, favorite).value
  BY <1>1
<1> QED
  BY <1>2, ReadIsSaved

\* A catalogue keeps its type when a saved device is stored in it or taken out.
LEMMA CatalogAfter ==
  ASSUME NEW saved, DOMAIN saved \subseteq Ids,
         \A i \in DOMAIN saved : Saved(saved[i]) /\ saved[i].password \in {i, NoText},
         NEW id \in Ids, NEW device, Saved(device), device.password \in {id, NoText}
  PROVE  /\ DOMAIN With(saved, id, device) \subseteq Ids
         /\ \A i \in DOMAIN With(saved, id, device) :
              /\ Saved(With(saved, id, device)[i])
              /\ With(saved, id, device)[i].password \in {i, NoText}
BY DEF With

\* The list shows rows of devices.
LEMMA RowsTyped ==
  ASSUME NEW saved, DOMAIN saved \subseteq Ids,
         \A i \in DOMAIN saved : saved[i] \in DeviceRecords,
         NEW favorites, NEW text
  PROVE  RowsOf(saved, favorites, text) \subseteq {Row(id, d) : id \in Ids, d \in DeviceRecords}
BY DEF RowsOf

\* After Commit, the catalogue and the list are as the invariant wants them.
LEMMA Committed ==
  ASSUME NEW saved, Commit(saved), DOMAIN saved \subseteq Ids,
         \A i \in DOMAIN saved : Saved(saved[i]) /\ saved[i].password \in {i, NoText},
         UNCHANGED <<favoritesOnly, search>>
  PROVE  /\ DOMAIN devices' \subseteq Ids /\ \A i \in DOMAIN devices' : devices'[i] \in DeviceRecords
         /\ rows' \subseteq {Row(id, d) : id \in Ids, d \in DeviceRecords}
         /\ StoredInv' /\ RowsInv'
         /\ \A i \in DOMAIN devices' : devices'[i].password \in {i, NoText}
<1>1. devices' = saved /\ rows' = RowsOf(saved, favoritesOnly, search)
  BY DEF Commit
<1>2. \A i \in DOMAIN saved : saved[i] \in DeviceRecords
  BY DEF Saved
<1>3. rows' \subseteq {Row(id, d) : id \in Ids, d \in DeviceRecords}
  BY <1>1, <1>2, RowsTyped
<1> QED
  BY <1>1, <1>2, <1>3 DEF StoredInv, RowsInv

\* One step per callback.
LEMMA EditorStep == EditorInv /\ [EditorNext]_editorVars => EditorInv'
<1> SUFFICES ASSUME EditorInv, [EditorNext]_editorVars PROVE EditorInv'
  OBVIOUS
<1>a. /\ DOMAIN devices \subseteq Ids
      /\ \A i \in DOMAIN devices : Saved(devices[i]) /\ devices[i] \in DeviceRecords
                                   /\ devices[i].password \in {i, NoText}
  BY DEF EditorInv, EditorTypeOK, StoredInv, OwnPassword
<1>b. \A i \in Ids : i # NoText
  BY NoTextAssumption
<1>c. ASSUME page = "editor", NEW device \in Readings[passwordField][Favorite(draft)]
      PROVE  /\ DOMAIN With(devices, draft, device) \subseteq Ids
             /\ \A i \in DOMAIN With(devices, draft, device) :
                  /\ Saved(With(devices, draft, device)[i])
                  /\ With(devices, draft, device)[i].password \in {i, NoText}
  <2>1. draft \in Ids /\ passwordField \in Passwords /\ passwordField \in {draft, NoText}
    BY <1>c DEF EditorInv, EditorTypeOK, DraftInv, OwnPassword
  <2>2. Favorite(draft) \in BOOLEAN
    BY <1>a DEF Favorite, DeviceRecords
  <2>3. Saved(device) /\ device.password \in {draft, NoText}
    BY <1>c, <2>1, <2>2, ReadingsAreSaved
  <2> QED
    BY <1>a, <2>1, <2>3, CatalogAfter
<1>1. CASE NewDevice
  BY <1>1 DEF NewDevice, OpenEditor, NoDevice, EditorInv, EditorTypeOK, StoredInv, DraftInv, RowsInv, OwnPassword, Passwords
<1>2. CASE TypePassword
  BY <1>2 DEF TypePassword, EditorInv, EditorTypeOK, StoredInv, DraftInv, RowsInv, OwnPassword, Passwords
<1>3. CASE LeaveEditor
  BY <1>3 DEF LeaveEditor, EditorInv, EditorTypeOK, StoredInv, DraftInv, RowsInv, OwnPassword, Passwords
<1>4. CASE Save
  <2>1. PICK device \in Readings[passwordField][Favorite(draft)] : Commit(With(devices, draft, device))
    BY <1>4 DEF Save
  <2>2. /\ DOMAIN devices' \subseteq Ids /\ \A i \in DOMAIN devices' : devices'[i] \in DeviceRecords
        /\ rows' \subseteq {Row(id, d) : id \in Ids, d \in DeviceRecords}
        /\ StoredInv' /\ RowsInv'
        /\ \A i \in DOMAIN devices' : devices'[i].password \in {i, NoText}
    BY <1>4, <1>c, <2>1, Committed DEF Save
  <2> QED
    BY <1>4, <2>2 DEF Save, EditorInv, EditorTypeOK, DraftInv, OwnPassword, Passwords
<1>5. CASE SaveAndConnect
  <2>1. PICK device \in Readings[passwordField][Favorite(draft)] : Commit(With(devices, draft, device))
    BY <1>5 DEF SaveAndConnect
  <2>2. /\ DOMAIN devices' \subseteq Ids /\ \A i \in DOMAIN devices' : devices'[i] \in DeviceRecords
        /\ rows' \subseteq {Row(id, d) : id \in Ids, d \in DeviceRecords}
        /\ StoredInv' /\ RowsInv'
        /\ \A i \in DOMAIN devices' : devices'[i].password \in {i, NoText}
    BY <1>5, <1>c, <2>1, Committed DEF SaveAndConnect
  <2>3. CASE Launch(draft, passwordField)
    <3>1. passwordField = draft /\ ownPassword
      BY <1>5 DEF SaveAndConnect, EditorInv, DraftInv, OwnPassword
    <3>2. ownPassword' = TRUE
      BY <2>3, <3>1, Zenon DEF Launch
    <3> QED
      BY <1>5, <2>2, <2>3, <3>2 DEF SaveAndConnect, Launch, EditorInv, EditorTypeOK, DraftInv, OwnPassword, Passwords
  <2>4. CASE UNCHANGED <<page, passwordField, ownPassword>>
    BY <1>5, <2>2, <2>4 DEF SaveAndConnect, EditorInv, EditorTypeOK, DraftInv, OwnPassword, Passwords
  <2> QED
    BY <1>5, <2>3, <2>4 DEF SaveAndConnect
<1>6. ASSUME NEW id \in DOMAIN devices, EditDevice(id) PROVE EditorInv'
  BY <1>6, <1>a DEF EditDevice, OpenEditor, EditorInv, EditorTypeOK, StoredInv, DraftInv, RowsInv, OwnPassword, Passwords
<1>7. ASSUME NEW id \in DOMAIN devices, ConnectDevice(id) PROVE EditorInv'
  <2>1. CASE devices[id].password # NoText
    <3>1. ownPassword /\ devices[id].password = id
      BY <1>a, <2>1 DEF EditorInv, OwnPassword
    <3>2. Launch(id, devices[id].password) /\ UNCHANGED <<draft, shown, devices, rows, favoritesOnly, search>>
      BY <1>7, <2>1 DEF ConnectDevice
    <3>3. ownPassword' = TRUE
      BY <3>1, <3>2, Zenon DEF Launch
    <3> QED
      BY <1>a, <3>2, <3>3 DEF Launch, EditorInv, EditorTypeOK, StoredInv, DraftInv, RowsInv, OwnPassword, Passwords
  <2>2. CASE devices[id].password = NoText
    BY <1>7, <1>a, <2>2 DEF ConnectDevice, OpenEditor, EditorInv, EditorTypeOK, StoredInv, DraftInv, RowsInv, OwnPassword, Passwords
  <2> QED
    BY <2>1, <2>2
<1>8. ASSUME NEW id \in DOMAIN devices, ToggleFavorite(id) PROVE EditorInv'
  <2> DEFINE saved == [devices EXCEPT ![id].favorite = ~ @]
  <2>1. Commit(saved)
    BY <1>8 DEF ToggleFavorite
  <2>2. DOMAIN saved \subseteq Ids
    BY <1>a
  <2>3. \A i \in DOMAIN saved : Saved(saved[i]) /\ saved[i].password \in {i, NoText}
    BY <1>a DEF Saved, DeviceRecords
  <2> HIDE DEF saved
  <2>4. /\ DOMAIN devices' \subseteq Ids /\ \A i \in DOMAIN devices' : devices'[i] \in DeviceRecords
        /\ rows' \subseteq {Row(i, d) : i \in Ids, d \in DeviceRecords}
        /\ StoredInv' /\ RowsInv'
        /\ \A i \in DOMAIN devices' : devices'[i].password \in {i, NoText}
    BY <1>8, <2>1, <2>2, <2>3, Committed DEF ToggleFavorite
  <2> QED
    BY <1>8, <2>4 DEF ToggleFavorite, EditorInv, EditorTypeOK, DraftInv, OwnPassword
<1>9. ASSUME NEW id \in DOMAIN devices, DeleteDevice(id) PROVE EditorInv'
  <2> DEFINE saved == [i \in DOMAIN devices \ {id} |-> devices[i]]
  <2>1. Commit(saved)
    BY <1>9 DEF DeleteDevice
  <2>2. /\ DOMAIN saved \subseteq Ids
        /\ \A i \in DOMAIN saved : Saved(saved[i]) /\ saved[i].password \in {i, NoText}
    BY <1>a
  <2> HIDE DEF saved
  <2>3. /\ DOMAIN devices' \subseteq Ids /\ \A i \in DOMAIN devices' : devices'[i] \in DeviceRecords
        /\ rows' \subseteq {Row(i, d) : i \in Ids, d \in DeviceRecords}
        /\ StoredInv' /\ RowsInv'
        /\ \A i \in DOMAIN devices' : devices'[i].password \in {i, NoText}
    BY <1>9, <2>1, <2>2, Committed DEF DeleteDevice
  <2> QED
    BY <1>9, <2>3 DEF DeleteDevice, EditorInv, EditorTypeOK, DraftInv, OwnPassword
<1>10. CASE Stop
  <2>1. RowsOf(devices, favoritesOnly, search) \subseteq {Row(i, d) : i \in Ids, d \in DeviceRecords}
    BY <1>a, RowsTyped
  <2> QED
    BY <1>10, <2>1 DEF Stop, EditorInv, EditorTypeOK, StoredInv, DraftInv, RowsInv, OwnPassword, Passwords
<1>11. ASSUME NEW target \in {"all", "favorites", "settings"}, Navigate(target) PROVE EditorInv'
  <2>1. CASE target = "settings"
    BY <1>11, <2>1 DEF Navigate, EditorInv, EditorTypeOK, StoredInv, DraftInv, RowsInv, OwnPassword
  <2>2. CASE target # "settings"
    <3>1. RowsOf(devices, favoritesOnly', search) \subseteq {Row(i, d) : i \in Ids, d \in DeviceRecords}
      BY <1>a, RowsTyped
    <3> QED
      BY <1>11, <2>2, <3>1 DEF Navigate, RowsAfterFilter, EditorInv, EditorTypeOK, StoredInv, DraftInv, RowsInv, OwnPassword
  <2> QED
    BY <2>1, <2>2
<1>12. ASSUME NEW text \in Hosts \cup {NoText}, Search(text) PROVE EditorInv'
  <2>1. RowsOf(devices, favoritesOnly, text) \subseteq {Row(i, d) : i \in Ids, d \in DeviceRecords}
    BY <1>a, RowsTyped
  <2> QED
    BY <1>12, <2>1 DEF Search, RowsAfterFilter, EditorInv, EditorTypeOK, StoredInv, DraftInv, RowsInv, OwnPassword
<1>13. CASE UNCHANGED editorVars
  BY <1>13 DEF editorVars, EditorInv, EditorTypeOK, StoredInv, DraftInv, RowsInv, OwnPassword
<1> QED
  BY <1>1, <1>2, <1>3, <1>4, <1>5, <1>6, <1>7, <1>8, <1>9, <1>10, <1>11, <1>12, <1>13 DEF EditorNext

\* The invariant of the editor, from its start with no device.
THEOREM EditorInvariance == EditorSpec => []EditorInv
<1>1. EditorInit => EditorInv
  <2> SUFFICES ASSUME EditorInit PROVE EditorInv
    OBVIOUS
  <2>1. DOMAIN devices = {}
    BY DEF EditorInit
  <2>2. RowsOf(devices, favoritesOnly, search) = {}
    BY <2>1 DEF RowsOf
  <2>3. EditorTypeOK
    <3>1. \A r \in rows : r \in {Row(id, d) : id \in Ids, d \in DeviceRecords}
      BY DEF EditorInit
    <3>2. /\ DOMAIN devices \subseteq Ids
          /\ \A id \in DOMAIN devices : devices[id] \in DeviceRecords
      BY <2>1
    <3>3. /\ page \in {"list", "editor", "session", "settings"}
          /\ draft \in Ids \cup {NoText} /\ shown \in Ids \cup {NoText} /\ passwordField \in Passwords
          /\ favoritesOnly \in BOOLEAN /\ search \in Hosts \cup {NoText}
          /\ ownPassword \in BOOLEAN
      BY DEF EditorInit, Passwords
    <3> QED
      BY <3>1, <3>2, <3>3 DEF EditorTypeOK
  <2>4. StoredInv /\ DraftInv /\ RowsInv
    BY <2>1, <2>2 DEF EditorInit, StoredInv, DraftInv, RowsInv
  <2>5. OwnPassword
    BY <2>1 DEF EditorInit, OwnPassword
  <2> QED
    BY <2>3, <2>4, <2>5 DEF EditorInv
<1> QED
  BY <1>1, EditorStep, PTL DEF EditorSpec

\* A password is stored for, and sent to, the device it was typed for, though
\* every editor types it into the same field.
THEOREM OwnPasswordAlways == EditorSpec => []OwnPassword
<1>1. EditorInv => OwnPassword
  BY DEF EditorInv
<1> QED
  BY <1>1, EditorInvariance, PTL

\* The list shows the catalogue as it is, under the filters as they are.
THEOREM ListIsCurrentAlways == EditorSpec => []ListIsCurrent
<1>1. EditorInv => ListIsCurrent
  BY DEF EditorInv, RowsInv, ListIsCurrent
<1> QED
  BY <1>1, EditorInvariance, PTL

\* A stored device that is opened and saved again stays what it is.
THEOREM ReopenKeepsDeviceAlways == EditorSpec => []ReopenKeepsDevice
<1>1. EditorInv => ReopenKeepsDevice
  BY ReadBack DEF EditorInv, StoredInv, ReopenKeepsDevice
<1> QED
  BY <1>1, EditorInvariance, PTL

-----------------------------------------------------------------------------
(* Files, editor and library side by side, as they are checked.            *)

\* A behaviour in which one of the three moves at a time is one of each of them.
THEOREM AnyIsEach == AnySpec => Spec /\ EditorSpec /\ SyncSpec
<1>1. AnyInit => Init /\ EditorInit /\ SyncInit
  BY DEF AnyInit
<1>2. [AnyNext]_<<vars, editorVars, syncVars>> => [Next]_vars
  BY DEF AnyNext
<1>3. [AnyNext]_<<vars, editorVars, syncVars>> => [EditorNext]_editorVars
  BY DEF AnyNext
<1>4. [AnyNext]_<<vars, editorVars, syncVars>> => [SyncNext]_syncVars
  BY DEF AnyNext
<1> QED BY <1>1, <1>2, <1>3, <1>4, PTL DEF AnySpec, Spec, EditorSpec, SyncSpec

\* Every variable of the three keeps its type.
THEOREM AnyTyped == AnySpec => []AnyTypeOK
<1>1. TypeOK /\ EditorInv /\ SyncTypeOK => AnyTypeOK
  BY DEF EditorInv, AnyTypeOK
<1> QED BY <1>1, AnyIsEach, RepositoryInvariance, EditorInvariance, SyncTyped, PTL

=============================================================================
