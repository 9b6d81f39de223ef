------------------------------- MODULE Client -------------------------------
(***************************************************************************)
(* The client application: the callbacks of the window, the 33 ms tick     *)
(* that drains the session's events and draws its frames, the lifecycle    *)
(* listener and the trust catalogue, over the controller and the session   *)
(* threads.                                                                *)
(*                                                                         *)
(* Callbacks, tick and lifecycle listener all run on the UI thread, so they*)
(* never interleave with each other; session threads interleave with them  *)
(* at every step.  A tick is a TickBegin (which drains the channel), one   *)
(* action per drained event, and a TickEnd (which draws); no callback runs *)
(* in between.  For that reason the loop's current(generation) test always *)
(* succeeds and is not an action.                                          *)
(***************************************************************************)
EXTENDS SessionThread

CONSTANTS
  BatchSize,    \* events() drains at most this many (64)
  TrustOnDisk   \* trust records the catalogue may hold at the start

ASSUME BatchAssumption == BatchSize \in Nat \ {0}
ASSUME TrustAssumption == TrustOnDisk \subseteq [Endpoints -> Fingerprints \cup {NoFingerprint}]

VARIABLES
  devices,      \* Catalog.devices: the endpoint of each saved device
  trust,        \* Catalog.trust: the fingerprint trusted for an endpoint
  page,         \* MainWindow.page: devices (0), editor (1) or session (2)
  uiConnected,  \* MainWindow.connected
  prompt,       \* MainWindow.pending-fingerprint: the dialog is up unless None
  target,       \* MainWindow.certificate-target: the endpoint the dialog names
  image,        \* MainWindow.remote-image: <<generation, sequence>> drawn
  lastFrame,    \* AppModel.last_frame
  window,       \* open, or closed once the window or the activity goes away
  ticking,      \* the UI thread is inside a tick
  batch         \* drained events the tick has yet to handle

catalog == <<devices, trust>>
ui == <<page, uiConnected, prompt, target, image, lastFrame, window>>
tick == <<ticking, batch>>
vars == <<active, channels, thread, catalog, ui, tick>>

NoImage == <<0, 0>>

UiTypeOK ==
  /\ devices \in [Devices -> Endpoints \cup {NoEndpoint}]
  /\ trust \in [Endpoints -> Fingerprints \cup {NoFingerprint}]
  /\ page \in {"devices", "editor", "session"}
  /\ uiConnected \in BOOLEAN
  /\ prompt \in Fingerprints \cup {NoFingerprint}
  /\ target \in Endpoints \cup {NoEndpoint}
  /\ image \in Generations \X (0 .. MaxFrames)
  /\ lastFrame \in Generations \X (0 .. MaxFrames)
  /\ window \in {"open", "closed"}
  /\ ticking \in BOOLEAN
  /\ batch \in Seq(Events)

TypeOK == ControllerTypeOK /\ ThreadTypeOK /\ UiTypeOK

\* No device is saved yet; trust records may be left from earlier ones.
Init ==
  /\ ControllerInit
  /\ ThreadInit
  /\ devices = [d \in Devices |-> NoEndpoint]
  /\ trust \in TrustOnDisk
  /\ page = "devices"
  /\ uiConnected = FALSE
  /\ prompt = NoFingerprint
  /\ target = NoEndpoint
  /\ image = NoImage
  /\ lastFrame = NoImage
  /\ window = "open"
  /\ ticking = FALSE
  /\ batch = <<>>

-----------------------------------------------------------------------------
(* Callbacks of the window.                                                *)

Idle == window = "open" /\ ~ ticking

\* Bound: a sender of ReleaseAll, Suspend or Resume waits for the thread.
CommandRoom == handle # NoSession => Len(commands[handle]) < MaxCommands

\* The fingerprint launch() pins for an endpoint.
ExpectedFor(fingerprints, e) == fingerprints[e]

\* launch(): release the inputs, begin the session that was just spawned, show
\* it.  The password is present; profiles are validated before they are saved,
\* so spawn_session() succeeds (an OS out of threads is not modelled).
Launch(d, e, fingerprints) ==
  LET profile == [device |-> d, endpoint |-> e,
                  expected |-> ExpectedFor(fingerprints, e)] IN
  /\ generation < MaxSessions
  /\ Begin(Post(commands, <<"ReleaseAll">>), profile)
  /\ thread' = [thread EXCEPT ![generation + 1] = Spawned(profile)]
  /\ page' = "session"
  /\ uiConnected' = FALSE
  /\ prompt' = NoFingerprint
  /\ image' = NoImage
  /\ lastFrame' = NoImage
  /\ UNCHANGED <<target, window, tick>>

\* on_new_device, on_edit_device, and on_connect_device without a password.
EditDevice ==
  /\ Idle /\ page = "devices"
  /\ page' = "editor"
  /\ UNCHANGED <<active, channels, thread, catalog, tick,
                 uiConnected, prompt, target, image, lastFrame, window>>

LeaveEditor ==
  /\ Idle /\ page = "editor"
  /\ page' = "devices"
  /\ UNCHANGED <<active, channels, thread, catalog, tick,
                 uiConnected, prompt, target, image, lastFrame, window>>

\* on_save_device: the edited device is stored, then connected if asked to.  An
\* endpoint the device had before keeps its trust record.
SaveDevice(d, e) ==
  /\ Idle /\ page = "editor"
  /\ devices' = [devices EXCEPT ![d] = e]
  /\ page' = "devices"
  /\ UNCHANGED <<active, channels, thread, trust, tick,
                 uiConnected, prompt, target, image, lastFrame, window>>

SaveAndConnect(d, e) ==
  /\ Idle /\ page = "editor"
  /\ devices' = [devices EXCEPT ![d] = e]
  /\ Launch(d, e, trust)
  /\ UNCHANGED trust

\* on_connect_device, for a device with a saved password.
ConnectDevice(d) ==
  /\ Idle /\ page = "devices"
  /\ devices[d] # NoEndpoint
  /\ Launch(d, devices[d], trust)
  /\ UNCHANGED catalog

MutantTrustAfterDelete(d) == [trust EXCEPT ![devices[d]] = NoFingerprint]

\* The endpoint's trust record goes with the last device that uses it.
TrustAfterDelete(d) ==
  IF \E other \in Devices \ {d} : devices[other] = devices[d]
    THEN trust
    ELSE [trust EXCEPT ![devices[d]] = NoFingerprint]

\* on_delete_device.
DeleteDevice(d) ==
  /\ Idle /\ page = "devices"
  /\ devices[d] # NoEndpoint
  /\ trust' = TrustAfterDelete(d)
  /\ devices' = [devices EXCEPT ![d] = NoEndpoint]
  /\ UNCHANGED <<active, channels, thread, ui, tick>>

\* stop(): release the inputs, disconnect, back to the list.
Stop ==
  /\ Idle /\ page = "session"
  /\ Disconnect(Post(commands, <<"ReleaseAll">>))
  /\ page' = "devices"
  /\ uiConnected' = FALSE
  /\ prompt' = NoFingerprint
  /\ image' = NoImage
  /\ UNCHANGED <<thread, catalog, tick, target, lastFrame, window>>

\* on_disconnect, and on_reject_certificate in the dialog.
UserDisconnect == prompt = NoFingerprint /\ Stop
RejectCertificate == prompt # NoFingerprint /\ Stop

\* on_trust_certificate: what is stored is what the controller holds, not what
\* the dialog shows; the device is started again under the new pin.
TrustCertificate ==
  LET d == credentials.device
      e == credentials.endpoint IN
  /\ Idle /\ prompt # NoFingerprint
  /\ credentials # NoCredentials /\ pendingFingerprint # NoFingerprint
  /\ devices[d] # NoEndpoint
  /\ trust' = [trust EXCEPT ![e] = pendingFingerprint]
  /\ Launch(d, devices[d], trust')
  /\ UNCHANGED devices

\* on_release_input, when focus is lost or a menu opens.
ReleaseInput ==
  /\ Idle /\ page = "session"
  /\ CommandRoom
  /\ commands' = Post(commands, <<"ReleaseAll">>)
  /\ UNCHANGED <<active, events, ended, thread, catalog, ui, tick>>

\* on_close_requested, and Destroy in android_main: nothing on screen changes.
Close ==
  /\ Idle
  /\ Disconnect(commands)
  /\ window' = "closed"
  /\ UNCHANGED <<thread, catalog, tick, page, uiConnected, prompt, target, image, lastFrame>>

\* Pause and LostFocus suspend, Resume and GainedFocus resume.
Lifecycle(flag) ==
  /\ Idle
  /\ CommandRoom
  /\ Suspend(flag)
  /\ UNCHANGED <<thread, catalog, ui, tick>>

-----------------------------------------------------------------------------
(* The tick.                                                               *)

FrameToDraw ==
  /\ handle # NoSession /\ connected /\ ~ suspended
  /\ thread[handle].frame > 0
  /\ lastFrame # <<generation, thread[handle].frame>>

Waiting == handle # NoSession /\ events[handle] # <<>>

\* Up to BatchSize events leave the channel.  Ticks with nothing to do are left out.
TickBegin ==
  /\ Idle
  /\ Waiting \/ FrameToDraw
  /\ ticking' = TRUE
  /\ IF Waiting
       THEN LET n == IF Len(events[handle]) < BatchSize THEN Len(events[handle]) ELSE BatchSize IN
            /\ batch' = SubSeq(events[handle], 1, n)
            /\ events' = [events EXCEPT ![handle] = SubSeq(@, n + 1, Len(@))]
       ELSE UNCHANGED <<batch, events>>
  /\ UNCHANGED <<active, commands, ended, thread, catalog, ui>>

Handling(type) ==
  /\ ticking /\ batch # <<>> /\ Head(batch).type = type
  /\ batch' = Tail(batch)
  /\ UNCHANGED <<thread, catalog, page, lastFrame, window, ticking>>

OnCertificateTrustRequired ==
  /\ Handling("CertificateTrustRequired")
  /\ pendingFingerprint' = Head(batch).fingerprint
  /\ prompt' = Head(batch).fingerprint
  /\ target' = IF credentials = NoCredentials THEN target ELSE credentials.endpoint
  /\ UNCHANGED <<generation, handle, credentials, connected, suspended, channels, uiConnected, image>>

\* The dialog goes away; the controller's pending fingerprint stays.
OnConnected ==
  /\ Handling("Connected")
  /\ connected' = TRUE
  /\ uiConnected' = TRUE
  /\ prompt' = NoFingerprint
  /\ UNCHANGED <<generation, handle, credentials, pendingFingerprint, suspended, channels, target, image>>

OnReconnecting ==
  /\ Handling("Reconnecting")
  /\ commands' = Post(commands, <<"ReleaseAll">>)
  /\ connected' = FALSE
  /\ uiConnected' = FALSE
  /\ UNCHANGED <<generation, handle, credentials, pendingFingerprint, suspended, events, ended,
                 prompt, target, image>>

MutantImageAfterEnd == image

\* A session that ended leaves no picture behind.
ImageAfterEnd == NoImage

OnDisconnected ==
  /\ Handling("Disconnected")
  /\ Finish(generation)
  /\ uiConnected' = FALSE
  /\ image' = ImageAfterEnd
  /\ UNCHANGED <<prompt, target>>

\* frame(), after the last event: the newest frame is drawn once.
TickEnd ==
  /\ ticking /\ batch = <<>>
  /\ ticking' = FALSE
  /\ IF FrameToDraw
       THEN /\ image' = <<generation, thread[handle].frame>>
            /\ lastFrame' = image'
       ELSE UNCHANGED <<image, lastFrame>>
  /\ UNCHANGED <<active, channels, thread, catalog, batch, page, uiConnected, prompt, target, window>>

-----------------------------------------------------------------------------
UserStep ==
  \/ EditDevice \/ LeaveEditor
  \/ \E d \in Devices, e \in Endpoints : SaveDevice(d, e) \/ SaveAndConnect(d, e)
  \/ \E d \in Devices : ConnectDevice(d) \/ DeleteDevice(d)
  \/ UserDisconnect \/ RejectCertificate \/ TrustCertificate
  \/ ReleaseInput \/ Close
  \/ \E flag \in BOOLEAN : Lifecycle(flag)

TickStep ==
  \/ TickBegin
  \/ OnCertificateTrustRequired \/ OnConnected \/ OnReconnecting \/ OnDisconnected
  \/ TickEnd

SessionStep == \E g \in Sessions : ThreadStep(g) /\ UNCHANGED <<catalog, ui, tick>>

\* The client has closed and every session thread has returned.
Terminated ==
  /\ window = "closed"
  /\ \A g \in Sessions : ~ Running(g)
  /\ UNCHANGED vars

Next == UserStep \/ TickStep \/ SessionStep \/ Terminated

\* The timer keeps firing, a spawned thread runs and polls its commands, and
\* the RDP client ends once it was refused or asked to close.
Fairness ==
  /\ WF_vars(TickStep)
  /\ \A g \in Sessions :
       /\ WF_vars((RuntimeFails(g) \/ ConfigFails(g) \/ Start(g)) /\ UNCHANGED <<catalog, ui, tick>>)
       /\ WF_vars(Receive(g) /\ UNCHANGED <<catalog, ui, tick>>)
       /\ WF_vars(Terminate(g) /\ (thread[g].told \/ thread[g].phase = "failed")
                  /\ UNCHANGED <<catalog, ui, tick>>)

Spec == Init /\ [][Next]_vars

FairSpec == Spec /\ Fairness

-----------------------------------------------------------------------------
(* Properties.                                                             *)

\* Credentials outlive the session they started only while a fingerprint waits
\* for a decision (disconnect, finish and begin together; controller.rs).
CredentialsHeld ==
  credentials # NoCredentials => handle # NoSession \/ pendingFingerprint # NoFingerprint

\* The dialog names the endpoint and the fingerprint that a click on trust would
\* store: the click reads the controller, the user reads the screen.
PromptIsPending ==
  window = "open" /\ prompt # NoFingerprint =>
    /\ page = "session"
    /\ pendingFingerprint = prompt
    /\ credentials # NoCredentials
    /\ target = credentials.endpoint

\* Away from the session page nothing of a session is left in the controller:
\* no path back to the list forgets to disconnect.
OffSessionPage ==
  page # "session" =>
    /\ handle = NoSession
    /\ credentials = NoCredentials
    /\ pendingFingerprint = NoFingerprint

\* "One active session": every other session whose thread still runs has acted
\* on a Disconnect, or has one on its way.
OneSession ==
  \A g \in Sessions : Running(g) /\ g # handle =>
    thread[g].told \/ \E i \in DOMAIN commands[g] : commands[g][i] = "Disconnect"

\* "A saved fingerprint is enforced even if a replacement certificate is
\* CA-valid": the session on screen is connected to the certificate its
\* endpoint is pinned to and, without a pin, to a CA-valid one.
PinEnforced ==
  handle # NoSession /\ thread[handle].phase = "connected" =>
    LET pin == trust[thread[handle].endpoint] IN
    IF pin = NoFingerprint THEN thread[handle].presented \in CaValid
                           ELSE thread[handle].presented = pin

\* Trust is stored only for the endpoint and the fingerprint on screen, and
\* removed only when no device is left that uses the endpoint.
TrustChanges ==
  [][\A e \in Endpoints : trust'[e] # trust[e] =>
       \/ prompt # NoFingerprint /\ e = target /\ trust'[e] = prompt
       \/ trust'[e] = NoFingerprint /\ \A d \in Devices : devices'[d] # e]_vars

\* Once a session has worked off its commands it publishes frames again unless
\* the app really is in the background: no display stays frozen after a resume.
DisplayResumes ==
  handle # NoSession /\ Running(handle) /\ commands[handle] = <<>> =>
    (thread[handle].paused => suspended)

\* The picture on screen is a frame of the session the controller holds, and
\* never one that session has not published.
ImageIsCurrent ==
  window = "open" /\ image # NoImage =>
    handle = image[1] /\ image[2] <= thread[handle].frame

\* A session that was replaced or disconnected ends.
ReplacedSessionEnds ==
  \A g \in Sessions : (Running(g) /\ handle # g) ~> ~ Running(g)

\* The end of a session, once reported, reaches the controller: it drops the
\* handle (or has moved on), whatever else is queued.
EndIsNoticed ==
  \A g \in Sessions :
    (\E i \in DOMAIN events[g] : events[g][i] = Disconnected) ~> handle # g

\* README: "Temporary session credentials are released on disconnect, except
\* while an explicit certificate confirmation is pending", the confirmation
\* being the dialog the user sees.
CredentialsReleased ==
  credentials # NoCredentials => handle # NoSession \/ prompt # NoFingerprint

=============================================================================
