--------------------------- MODULE SessionThread ----------------------------
(***************************************************************************)
(* The remoteapp-rdp threads, one per session, as the rest of the client   *)
(* sees them: each consumes its command channel and emits the events of    *)
(* one connection until it returns.  Threads run concurrently with the UI. *)
(* How run_session works inside is not told here: only its phases, what it *)
(* emits in each, and how it may end.                                      *)
(***************************************************************************)
EXTENDS Controller

CONSTANTS
  CaValid,      \* fingerprints whose certificates pass CA validation
  MaxFrames,    \* bound on the frames one session publishes
  MaxEvents,    \* bound on the undrained events of a session
  MaxCommands   \* bound on the unreceived commands of a session

ASSUME CaValidAssumption == CaValid \subseteq Fingerprints
ASSUME BoundsAssumption == MaxFrames \in Nat /\ MaxEvents \in Nat /\ MaxCommands \in Nat

VARIABLE
  thread   \* per session, the state of its thread

\* none: not spawned; failed: the connection was refused and the client is
\* about to report it; ended: the thread has returned.
Phases == {"none", "spawned", "connecting", "connected", "reconnecting", "failed", "ended"}

Threads == [phase : Phases,
            endpoint : Endpoints \cup {NoEndpoint},
            expected : Fingerprints \cup {NoFingerprint},
            presented : Fingerprints \cup {NoFingerprint}, \* by the server, while connected
            told : BOOLEAN,          \* user_disconnect_requested
            paused : BOOLEAN,        \* rendering_suspended
            frame : 0 .. MaxFrames]  \* sequence number in the frame slot

Blank(phase) ==
  [phase |-> phase, endpoint |-> NoEndpoint, expected |-> NoFingerprint,
   presented |-> NoFingerprint, told |-> FALSE, paused |-> FALSE, frame |-> 0]

Spawned(profile) ==
  [Blank("spawned") EXCEPT !.endpoint = profile.endpoint, !.expected = profile.expected]

ThreadTypeOK == thread \in [Sessions -> Threads]

ThreadInit == thread = [g \in Sessions |-> Blank("none")]

Running(g) == thread[g].phase \notin {"none", "ended"}

-----------------------------------------------------------------------------
\* events.send(): lost when the receiver has been dropped.
Emit(g, event) ==
  IF handle = g THEN [events EXCEPT ![g] = Append(@, event)] ELSE events

CanEmit(g) == Len(events[g]) < MaxEvents

\* The thread returns, after emitting list (Disconnected, or nothing).  The
\* watch channel keeps its last frame for a receiver that is still held.
Return(g, list) ==
  /\ thread' = [thread EXCEPT ![g] = [Blank("ended") EXCEPT !.frame = thread[g].frame]]
  /\ ended' = ended \cup {g}
  /\ commands' = [commands EXCEPT ![g] = <<>>]
  /\ events' = IF handle = g THEN [events EXCEPT ![g] = @ \o list] ELSE events
  /\ UNCHANGED active

Disconnected == Event("Disconnected", NoFingerprint)

\* The runtime could not be built: the thread reports an Error and is gone.
RuntimeFails(g) ==
  /\ thread[g].phase = "spawned"
  /\ Return(g, <<>>)

\* The connection settings were refused by the RDP client library.
ConfigFails(g) ==
  /\ thread[g].phase = "spawned"
  /\ Return(g, <<Disconnected>>)

Start(g) ==
  /\ thread[g].phase = "spawned"
  /\ thread' = [thread EXCEPT ![g].phase = "connecting"]
  /\ UNCHANGED <<active, channels>>

\* certificate_is_approved(): a pinned fingerprint decides alone; without one
\* there must have been no validation error.
Approved(expected, actual, valid) ==
  IF expected = NoFingerprint THEN valid ELSE expected = actual

MutantVerified(expected, actual) ==
  actual \in CaValid \/ Approved(expected, actual, FALSE)

\* CallbackVerifier: the callback decides on every certificate, on one that
\* passed CA validation too.
Verified(expected, actual) == Approved(expected, actual, actual \in CaValid)

\* The TLS handshake of a connection attempt, with a server presenting f.  A
\* refused first attempt fails the session; a refused attempt to reconnect is
\* followed by the next one.
Handshake(g, f) ==
  LET t == thread[g]
      ok == Verified(t.expected, f) IN
  /\ t.phase \in {"connecting", "reconnecting"}
  /\ CanEmit(g)
  /\ thread' = [thread EXCEPT ![g].presented = IF ok THEN f ELSE NoFingerprint,
                              ![g].phase = IF ok THEN "connected"
                                           ELSE IF t.phase = "connecting" THEN "failed"
                                           ELSE t.phase]
  /\ events' = Emit(g, IF ok THEN Event("Connected", NoFingerprint)
                             ELSE Event("CertificateTrustRequired", f))
  /\ UNCHANGED <<active, commands, ended>>

\* AutoReconnecting: the connection dropped, or an attempt to restore it failed.
\* The answer is always Continue.
Reconnect(g) ==
  /\ thread[g].phase \in {"connected", "reconnecting"}
  /\ CanEmit(g)
  /\ Len(commands[g]) < MaxCommands
  /\ thread' = [thread EXCEPT ![g].phase = "reconnecting", ![g].presented = NoFingerprint]
  /\ events' = Emit(g, Event("Reconnecting", NoFingerprint))
  /\ UNCHANGED <<active, commands, ended>>

\* The RDP client ends: refused, failed, closed by the server, or because
\* request_close asked it to.
Terminate(g) ==
  /\ thread[g].phase \in {"connecting", "connected", "reconnecting", "failed"}
  /\ Return(g, <<Disconnected>>)

PausedAfter(command, paused) ==
  CASE command = "SuspendRendering" -> TRUE
    [] command = "ResumeRendering" -> FALSE
    [] OTHER -> paused

\* commands.recv(): Disconnect is remembered and closes the client.
Receive(g) ==
  LET command == Head(commands[g]) IN
  /\ thread[g].phase \in {"connecting", "connected", "reconnecting", "failed"}
  /\ commands[g] # <<>>
  /\ commands' = [commands EXCEPT ![g] = Tail(@)]
  /\ thread' = [thread EXCEPT ![g].told = @ \/ command = "Disconnect",
                              ![g].paused = PausedAfter(command, @)]
  /\ UNCHANGED <<active, events, ended>>

\* An image is decoded and put in the frame slot, over the one before it.
Publish(g) ==
  /\ thread[g].phase = "connected"
  /\ ~ thread[g].paused
  /\ thread[g].frame < MaxFrames
  /\ thread' = [thread EXCEPT ![g].frame = @ + 1]
  /\ UNCHANGED <<active, channels>>

ThreadStep(g) ==
  \/ RuntimeFails(g)
  \/ ConfigFails(g)
  \/ Start(g)
  \/ \E f \in Fingerprints : Handshake(g, f)
  \/ Reconnect(g)
  \/ Terminate(g)
  \/ Receive(g)
  \/ Publish(g)

=============================================================================
