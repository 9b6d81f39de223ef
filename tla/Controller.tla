----------------------------- MODULE Controller -----------------------------
(***************************************************************************)
(* The connection controller of the client: the Active record shared by    *)
(* the UI callbacks, the 33 ms tick and the Android lifecycle listener,    *)
(* and the two channels that join it to the session threads.               *)
(*                                                                         *)
(* A session is named by the generation that began it.  The three halves a *)
(* SessionHandle hands over (command sender, event receiver, frame         *)
(* receiver) are always stored together and dropped together, so one       *)
(* variable, handle, says which session's halves the controller holds.     *)
(***************************************************************************)
EXTENDS Naturals, Sequences, FiniteSets

CONSTANTS
  MaxSessions,     \* bound: no session is launched by a generation above it
  Devices,         \* saved connection profiles (ProfileId)
  Endpoints,       \* host:port pairs (endpoint_key)
  Fingerprints     \* SHA-256 fingerprints of server certificates

ASSUME MaxSessionsAssumption == MaxSessions \in Nat \ {0}

NoSession == 0
Sessions == 1 .. MaxSessions

\* A disconnect and the closing of the window can still follow the last launch.
Generations == 0 .. MaxSessions + 2

CONSTANTS NoEndpoint, NoFingerprint, NoCredentials

ASSUME NoneAssumption ==
  /\ NoEndpoint \notin Endpoints
  /\ NoFingerprint \notin Fingerprints

\* The profile a session is started with: its device, the endpoint, and the
\* fingerprint its TrustOnFirstUse policy expects (None before the first use).
\* The password travels with it and is not told apart.
Profiles == [device : Devices, endpoint : Endpoints,
             expected : Fingerprints \cup {NoFingerprint}]

ASSUME NoCredentialsAssumption == NoCredentials \notin Profiles

\* SessionCommand.  Input, clipboard and resize commands do not change what is
\* modelled here: they carry payloads for the remote computer.
Commands == {"ReleaseAll", "Disconnect", "SuspendRendering", "ResumeRendering"}

\* SessionEvent.  Connecting, Error and ClipboardText only write the status
\* line or the clipboard field and are left out; StateChanged(Connected) and
\* Connected { .. } are handled by one arm and are one event.
Event(type, fingerprint) == [type |-> type, fingerprint |-> fingerprint]
Events == [type : {"CertificateTrustRequired"}, fingerprint : Fingerprints]
          \cup [type : {"Connected", "Reconnecting", "Disconnected"}, fingerprint : {NoFingerprint}]

VARIABLES
  generation,          \* Active.generation
  handle,              \* Active.{commands, frames, events}: whose halves are held
  credentials,         \* Active.credentials
  pendingFingerprint,  \* Active.pending_fingerprint
  connected,           \* Active.connected
  suspended,           \* Active.suspended
  commands,            \* per session, the commands sent and not yet received
  events,              \* per session, the events emitted and not yet drained
  ended                \* sessions whose thread has returned, closing its channels

active == <<generation, handle, credentials, pendingFingerprint, connected, suspended>>
channels == <<commands, events, ended>>

ControllerTypeOK ==
  /\ generation \in Generations
  /\ handle \in Sessions \cup {NoSession}
  /\ credentials \in Profiles \cup {NoCredentials}
  /\ pendingFingerprint \in Fingerprints \cup {NoFingerprint}
  /\ connected \in BOOLEAN
  /\ suspended \in BOOLEAN
  /\ commands \in [Sessions -> Seq(Commands)]
  /\ events \in [Sessions -> Seq(Events)]
  /\ ended \in SUBSET Sessions

ControllerInit ==
  /\ generation = 0
  /\ handle = NoSession
  /\ credentials = NoCredentials
  /\ pendingFingerprint = NoFingerprint
  /\ connected = FALSE
  /\ suspended = FALSE
  /\ commands = [g \in Sessions |-> <<>>]
  /\ events = [g \in Sessions |-> <<>>]
  /\ ended = {}

-----------------------------------------------------------------------------
\* The channels cs after sending list to the session whose sender is held; a
\* missing sender, or a thread that has returned, makes each send a no-op.
Post(cs, list) ==
  IF handle = NoSession \/ handle \in ended
    THEN cs
    ELSE [cs EXCEPT ![handle] = @ \o list]

\* The held event receiver is dropped: what it had not drained is gone.
DropReceiver == IF handle = NoSession THEN events ELSE [events EXCEPT ![handle] = <<>>]

MutantNextGeneration == generation + 2

\* begin and disconnect each count as one generation.
NextGeneration == generation + 1

MutantGoodbyeNothing == <<"ReleaseAll">>

\* What begin and disconnect tell the session they let go of.
Goodbye == <<"ReleaseAll", "Disconnect">>

\* begin(): take over a freshly spawned session; cs is the state of the command
\* channels when it is called.
Begin(cs, profile) ==
  /\ generation' = NextGeneration
  /\ handle' = NextGeneration
  /\ credentials' = profile
  /\ pendingFingerprint' = NoFingerprint
  /\ connected' = FALSE
  /\ commands' = Post(cs, Goodbye)
  /\ events' = DropReceiver
  /\ UNCHANGED <<suspended, ended>>

\* disconnect() that gives up early when the session is not connected yet.
MutantDisconnect(cs) ==
  IF ~ connected
    THEN generation' = NextGeneration
         /\ UNCHANGED <<handle, credentials, pendingFingerprint, connected, suspended, channels>>
    ELSE /\ generation' = NextGeneration
         /\ handle' = NoSession
         /\ credentials' = NoCredentials
         /\ pendingFingerprint' = NoFingerprint
         /\ connected' = FALSE
         /\ commands' = Post(cs, Goodbye)
         /\ events' = DropReceiver
         /\ UNCHANGED <<suspended, ended>>

\* disconnect(): let go of the session, if any; the generation moves on even
\* when there is none.
Disconnect(cs) ==
  /\ generation' = NextGeneration
  /\ handle' = NoSession
  /\ credentials' = NoCredentials
  /\ pendingFingerprint' = NoFingerprint
  /\ connected' = FALSE
  /\ commands' = Post(cs, Goodbye)
  /\ events' = DropReceiver
  /\ UNCHANGED <<suspended, ended>>

MutantKeepCredentials == credentials
MutantReleaseCredentials == NoCredentials

\* finish() releases the credentials unless a fingerprint waits for a decision.
CredentialsAfterFinish ==
  IF pendingFingerprint = NoFingerprint THEN NoCredentials ELSE credentials

MutantHandleAfterFinish == handle

\* finish() drops the three halves of the session handle.
HandleAfterFinish == NoSession

\* finish(gen): the stream of generation gen has ended.
Finish(gen) ==
  IF gen # generation
    THEN UNCHANGED <<active, channels>>
    ELSE /\ handle' = HandleAfterFinish
         /\ connected' = FALSE
         /\ credentials' = CredentialsAfterFinish
         /\ events' = DropReceiver
         /\ UNCHANGED <<generation, pendingFingerprint, suspended, commands, ended>>

MutantSuspendList(flag) == IF flag THEN <<"ReleaseAll", "SuspendRendering">> ELSE <<>>

\* What suspend tells the session that is held.
SuspendList(flag) ==
  IF flag THEN <<"ReleaseAll", "SuspendRendering">> ELSE <<"ResumeRendering">>

\* suspend(flag): remember it and, if a session is held, tell it.
Suspend(flag) ==
  /\ suspended' = flag
  /\ commands' = Post(commands, SuspendList(flag))
  /\ UNCHANGED <<generation, handle, credentials, pendingFingerprint, connected, events, ended>>

=============================================================================
