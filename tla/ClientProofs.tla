---------------------------- MODULE ClientProofs ----------------------------
(***************************************************************************)
(* Theorems about Client, for every value of its constants.                *)
(***************************************************************************)
EXTENDS Client, TLAPS

-----------------------------------------------------------------------------
(* The inductive invariant.                                                *)

\* The generation counter stays inside its bound: after the last launch only a
\* disconnect and the closing of the window count.
GenInv ==
  generation <= MaxSessions + (IF page = "session" THEN 0 ELSE 1)
                            + (IF window = "closed" THEN 1 ELSE 0)

\* A session is held by the generation that began it, and later generations
\* have no thread yet.
HandleInv ==
  /\ handle <= generation
  /\ \A g \in Sessions : g > generation => thread[g].phase = "none"

\* ended is the set of the threads that returned.
EndedInv == \A g \in Sessions : g \in ended <=> thread[g].phase = "ended"

\* Disconnected is only ever reported by a thread that has returned.
ReportInv ==
  /\ \A g \in Sessions : \A i \in DOMAIN events[g] :
       events[g][i].type = "Disconnected" => g \in ended
  /\ \A i \in DOMAIN batch :
       batch[i].type = "Disconnected" => handle = NoSession \/ handle \in ended

\* Events are handled inside a tick, and off the session page there are none.
TickInv ==
  /\ ~ ticking => batch = <<>>
  /\ page # "session" => batch = <<>>

\* A running session that is held still has the pin it was launched with, and
\* is connected only to a certificate that pin approves.
PinInv ==
  handle # NoSession /\ Running(handle) =>
    /\ thread[handle].endpoint \in Endpoints
    /\ thread[handle].expected = trust[thread[handle].endpoint]
    /\ thread[handle].phase = "connected" =>
         Verified(thread[handle].expected, thread[handle].presented)

IInv == /\ TypeOK /\ GenInv /\ HandleInv /\ EndedInv /\ ReportInv /\ TickInv
        /\ CredentialsHeld /\ OffSessionPage /\ OneSession /\ PinInv

-----------------------------------------------------------------------------
(* Typing.                                                                 *)

\* Session numbers are positive integers, so none of them is NoSession.
LEMMA ConstantsTyped ==
  /\ Sessions \subseteq Nat \ {0}
  /\ NoSession \notin Sessions
  /\ MaxSessions \in Nat /\ MaxSessions > 0
BY MaxSessionsAssumption DEF Sessions, NoSession

\* Sending keeps every command channel a sequence of commands.
LEMMA PostTyped ==
  ASSUME NEW cs \in [Sessions -> Seq(Commands)], NEW list \in Seq(Commands),
         handle \in Sessions \cup {NoSession}
  PROVE  Post(cs, list) \in [Sessions -> Seq(Commands)]
BY DEF Post

\* What begin(), disconnect(), suspend() and release() send are commands.
LEMMA ListsTyped ==
  /\ <<"ReleaseAll">> \in Seq(Commands)
  /\ Goodbye \in Seq(Commands)
  /\ \A flag \in BOOLEAN : SuspendList(flag) \in Seq(Commands)
<1>1. {"ReleaseAll", "Disconnect", "SuspendRendering", "ResumeRendering"} \subseteq Commands
  BY DEF Commands
<1>2. <<"ReleaseAll">> \in Seq(Commands) /\ <<"ResumeRendering">> \in Seq(Commands)
  BY <1>1
<1>3. <<"ReleaseAll", "Disconnect">> \in Seq(Commands)
  BY <1>1
<1>4. <<"ReleaseAll", "SuspendRendering">> \in Seq(Commands)
  BY <1>1
<1> QED BY <1>2, <1>3, <1>4 DEF Goodbye, SuspendList

\* The events the session threads emit are events, and a trust request
\* carries a fingerprint.
LEMMA EventsTyped ==
  /\ Disconnected \in Events
  /\ Event("Connected", NoFingerprint) \in Events
  /\ Event("Reconnecting", NoFingerprint) \in Events
  /\ \A f \in Fingerprints : Event("CertificateTrustRequired", f) \in Events
  /\ \A e \in Events : /\ e.fingerprint \in Fingerprints \cup {NoFingerprint}
                       /\ e.type = "CertificateTrustRequired" => e.fingerprint \in Fingerprints
BY DEF Disconnected, Event, Events

\* Dropping the receiver leaves sequences of events.
LEMMA DropTyped ==
  ASSUME events \in [Sessions -> Seq(Events)], handle \in Sessions \cup {NoSession}
  PROVE  DropReceiver \in [Sessions -> Seq(Events)]
BY DEF DropReceiver

\* The record of a thread that is being spawned, or has returned, has its type.
LEMMA BlankTyped ==
  /\ \A p \in Phases : Blank(p) \in Threads
  /\ \A p \in Profiles : Spawned(p) \in Threads
<1>1. \A p \in Phases : Blank(p) \in Threads
  BY BoundsAssumption DEF Blank, Threads
<1>2. ASSUME NEW p \in Profiles
      PROVE  Spawned(p) \in Threads
  <2>1. Blank("spawned") \in Threads
    BY <1>1 DEF Phases
  <2> QED BY <2>1 DEF Spawned, Profiles, Threads
<1> QED BY <1>1, <1>2

\* What launch() does keeps the types, given room for the session.
LEMMA LaunchTyped ==
  ASSUME TypeOK, NEW d \in Devices, NEW e \in Endpoints,
         NEW fps \in [Endpoints -> Fingerprints \cup {NoFingerprint}],
         Launch(d, e, fps)
  PROVE  /\ ControllerTypeOK' /\ ThreadTypeOK'
         /\ page' \in {"devices", "editor", "session"} /\ uiConnected' \in BOOLEAN
         /\ prompt' \in Fingerprints \cup {NoFingerprint}
         /\ target' \in Endpoints \cup {NoEndpoint}
         /\ image' \in Generations \X (0 .. MaxFrames)
         /\ lastFrame' \in Generations \X (0 .. MaxFrames)
         /\ window' \in {"open", "closed"} /\ ticking' \in BOOLEAN /\ batch' \in Seq(Events)
<1> DEFINE profile == [device |-> d, endpoint |-> e, expected |-> ExpectedFor(fps, e)]
<1>1. profile \in Profiles
  BY DEF Profiles, ExpectedFor
<1>2. generation \in Nat /\ generation < MaxSessions /\ generation + 1 \in Sessions
  BY ConstantsTyped DEF TypeOK, ControllerTypeOK, Generations, Launch, Sessions
<1>3. Post(commands, <<"ReleaseAll">>) \in [Sessions -> Seq(Commands)]
  BY PostTyped, ListsTyped DEF TypeOK, ControllerTypeOK
<1>4. Begin(Post(commands, <<"ReleaseAll">>), profile)
  BY DEF Launch
<1>5. commands' \in [Sessions -> Seq(Commands)]
  BY <1>3, <1>4, PostTyped, ListsTyped DEF Begin, TypeOK, ControllerTypeOK
<1>6. events' \in [Sessions -> Seq(Events)]
  BY <1>4, DropTyped DEF Begin, TypeOK, ControllerTypeOK
<1>7. ControllerTypeOK'
  <2>1. /\ generation' = generation + 1 /\ handle' = generation + 1
        /\ credentials' = profile /\ pendingFingerprint' = NoFingerprint
        /\ connected' = FALSE /\ suspended' = suspended /\ ended' = ended
    BY <1>4 DEF Begin, NextGeneration
  <2>2. generation' \in Generations
    BY <1>2, <2>1, ConstantsTyped DEF Generations
  <2> QED BY <1>1, <1>2, <1>5, <1>6, <2>1, <2>2 DEF TypeOK, ControllerTypeOK
<1>8. ThreadTypeOK'
  <2>1. thread' = [thread EXCEPT ![generation + 1] = Spawned(profile)]
    BY DEF Launch
  <2>2. Spawned(profile) \in Threads
    BY <1>1, BlankTyped
  <2> QED BY <2>1, <2>2 DEF TypeOK, ThreadTypeOK
<1>9. NoImage \in Generations \X (0 .. MaxFrames)
  BY ConstantsTyped, BoundsAssumption DEF NoImage, Generations
<1>10. /\ page' = "session" /\ uiConnected' = FALSE /\ prompt' = NoFingerprint
       /\ image' = NoImage /\ lastFrame' = NoImage /\ target' = target
       /\ window' = window /\ ticking' = ticking /\ batch' = batch
  BY DEF Launch, tick
<1> QED BY <1>7, <1>8, <1>9, <1>10 DEF TypeOK, UiTypeOK

\* disconnect() keeps the controller's types; the bound on the generation comes
\* from GenInv.
LEMMA DisconnectTyped ==
  ASSUME ControllerTypeOK, NEW cs \in [Sessions -> Seq(Commands)],
         generation + 1 \in Generations, Disconnect(cs)
  PROVE  ControllerTypeOK'
<1>1. commands' \in [Sessions -> Seq(Commands)]
  BY PostTyped, ListsTyped DEF Disconnect, ControllerTypeOK
<1>2. events' \in [Sessions -> Seq(Events)]
  BY DropTyped DEF Disconnect, ControllerTypeOK
<1> QED BY <1>1, <1>2 DEF Disconnect, NextGeneration, ControllerTypeOK

\* One step of a session thread keeps the types.
LEMMA ThreadStepTyped ==
  ASSUME TypeOK, NEW g \in Sessions, ThreadStep(g)
  PROVE  ControllerTypeOK' /\ ThreadTypeOK'
<1> USE DEF TypeOK, ControllerTypeOK, ThreadTypeOK
<1>1. \A list \in Seq(Events) : Return(g, list) => ControllerTypeOK' /\ ThreadTypeOK'
  <2> SUFFICES ASSUME NEW list \in Seq(Events), Return(g, list)
               PROVE  ControllerTypeOK' /\ ThreadTypeOK'
    OBVIOUS
  <2>1. [Blank("ended") EXCEPT !.frame = thread[g].frame] \in Threads
    BY BlankTyped DEF Threads, Phases
  <2> QED BY <2>1 DEF Return, active
<1>2. \A e \in Events : Emit(g, e) \in [Sessions -> Seq(Events)]
  BY DEF Emit
<1>lists. <<>> \in Seq(Events) /\ <<Disconnected>> \in Seq(Events)
  BY EventsTyped
<1>typed. thread[g] \in Threads
  OBVIOUS
<1>3. CASE RuntimeFails(g)
  <2>1. Return(g, <<>>)
    BY <1>3 DEF RuntimeFails
  <2> QED BY <1>1, <1>lists, <2>1
<1>4. CASE ConfigFails(g)
  <2>1. Return(g, <<Disconnected>>)
    BY <1>4 DEF ConfigFails
  <2> QED BY <1>1, <1>lists, <2>1
<1>5. CASE Start(g)
  BY <1>5, ZenonT(40) DEF Start, Threads, Phases, active, channels
<1>6. ASSUME NEW f \in Fingerprints, Handshake(g, f)
      PROVE  ControllerTypeOK' /\ ThreadTypeOK'
  <2>1. events' \in [Sessions -> Seq(Events)]
    BY <1>2, <1>6, EventsTyped DEF Handshake
  <2>2. PICK ph \in Phases, pr \in Fingerprints \cup {NoFingerprint} :
          thread' = [thread EXCEPT ![g] = [@ EXCEPT !.presented = pr, !.phase = ph]]
    <3>1. thread[g].phase \in Phases
      BY DEF Threads
    <3> QED BY <1>6, <3>1 DEF Handshake, Phases
  <2>3. ThreadTypeOK'
    BY <2>2, ZenonT(40) DEF Threads
  <2> QED BY <1>6, <2>1, <2>3 DEF Handshake, active
<1>7. CASE Reconnect(g)
  <2>1. events' \in [Sessions -> Seq(Events)]
    BY <1>2, <1>7, EventsTyped DEF Reconnect
  <2>2. [thread[g] EXCEPT !.phase = "reconnecting", !.presented = NoFingerprint] \in Threads
    BY <1>typed DEF Threads, Phases
  <2> QED BY <1>7, <2>1, <2>2 DEF Reconnect, active
<1>8. CASE Terminate(g)
  <2>1. Return(g, <<Disconnected>>)
    BY <1>8 DEF Terminate
  <2> QED BY <1>1, <1>lists, <2>1
<1>9. CASE Receive(g)
  <2>1. commands' \in [Sessions -> Seq(Commands)]
    BY <1>9 DEF Receive
  <2>2. PausedAfter(Head(commands[g]), thread[g].paused) \in BOOLEAN
    BY <1>typed DEF PausedAfter, Threads
  <2>3. ThreadTypeOK'
    <3> DEFINE told == thread[g].told \/ Head(commands[g]) = "Disconnect"
    <3>1. thread' = [thread EXCEPT ![g] =
                       [thread[g] EXCEPT
                          !.told = told,
                          !.paused = PausedAfter(Head(commands[g]), thread[g].paused)]]
      BY <1>9 DEF Receive
    <3>2. told \in BOOLEAN
      OBVIOUS
    <3> HIDE DEF told
    <3>3. [thread[g] EXCEPT !.told = told,
                            !.paused = PausedAfter(Head(commands[g]), thread[g].paused)]
            \in Threads
      BY <1>typed, <2>2, <3>2 DEF Threads
    <3> QED BY <3>1, <3>3
  <2> QED BY <1>9, <2>1, <2>3 DEF Receive, active
<1>10. CASE Publish(g)
  <2>1. thread[g].frame + 1 \in 0 .. MaxFrames
    BY <1>10, <1>typed, BoundsAssumption DEF Publish, Threads
  <2>2. [thread[g] EXCEPT !.frame = thread[g].frame + 1] \in Threads
    BY <1>typed, <2>1 DEF Threads
  <2>3. thread' = [thread EXCEPT ![g] = [thread[g] EXCEPT !.frame = thread[g].frame + 1]]
    BY <1>10 DEF Publish
  <2> QED BY <1>10, <2>2, <2>3 DEF Publish, active, channels
<1> QED BY <1>3, <1>4, <1>5, <1>6, <1>7, <1>8, <1>9, <1>10 DEF ThreadStep

\* One callback keeps the types and the bound on the generation.
LEMMA UserStepTyped ==
  ASSUME TypeOK, GenInv, UserStep
  PROVE  TypeOK' /\ GenInv'
<1>g. /\ generation \in Nat /\ MaxSessions \in Nat
      /\ \A n \in Nat : n <= MaxSessions + 2 <=> n \in Generations
  BY ConstantsTyped DEF TypeOK, ControllerTypeOK, Generations
<1>noImage. NoImage \in Generations \X (0 .. MaxFrames)
  BY ConstantsTyped, BoundsAssumption DEF NoImage, Generations
<1>fps. trust \in [Endpoints -> Fingerprints \cup {NoFingerprint}]
  BY DEF TypeOK, UiTypeOK
<1>launch. ASSUME NEW d \in Devices, NEW e \in Endpoints,
                  NEW fps \in [Endpoints -> Fingerprints \cup {NoFingerprint}],
                  Launch(d, e, fps),
                  devices' \in [Devices -> Endpoints \cup {NoEndpoint}],
                  trust' \in [Endpoints -> Fingerprints \cup {NoFingerprint}]
           PROVE  TypeOK' /\ GenInv'
  <2>1. TypeOK'
    BY <1>launch, LaunchTyped DEF TypeOK, UiTypeOK
  <2>2. generation' = generation + 1 /\ generation < MaxSessions
        /\ page' = "session" /\ window' = window
    BY <1>launch DEF Launch, Begin, NextGeneration
  <2> QED BY <1>g, <2>1, <2>2 DEF GenInv
<1>posted. Post(commands, <<"ReleaseAll">>) \in [Sessions -> Seq(Commands)]
  BY PostTyped, ListsTyped DEF TypeOK, ControllerTypeOK
<1>1. CASE EditDevice
  BY <1>1 DEF EditDevice, TypeOK, ControllerTypeOK, ThreadTypeOK, UiTypeOK, GenInv,
              active, channels, catalog, tick
<1>2. CASE LeaveEditor
  BY <1>2 DEF LeaveEditor, TypeOK, ControllerTypeOK, ThreadTypeOK, UiTypeOK, GenInv,
              active, channels, catalog, tick
<1>3. ASSUME NEW d \in Devices, NEW e \in Endpoints, SaveDevice(d, e)
      PROVE  TypeOK' /\ GenInv'
  <2>1. devices' \in [Devices -> Endpoints \cup {NoEndpoint}]
    BY <1>3 DEF SaveDevice, TypeOK, UiTypeOK
  <2> QED BY <1>3, <2>1
          DEF SaveDevice, TypeOK, ControllerTypeOK, ThreadTypeOK, UiTypeOK, GenInv,
              active, channels, tick
<1>4. ASSUME NEW d \in Devices, NEW e \in Endpoints, SaveAndConnect(d, e)
      PROVE  TypeOK' /\ GenInv'
  <2>1. /\ devices' \in [Devices -> Endpoints \cup {NoEndpoint}]
        /\ trust' = trust /\ Launch(d, e, trust)
    BY <1>4 DEF SaveAndConnect, TypeOK, UiTypeOK
  <2> QED BY <1>fps, <1>launch, <2>1
<1>5. ASSUME NEW d \in Devices, ConnectDevice(d)
      PROVE  TypeOK' /\ GenInv'
  <2>1. /\ devices[d] \in Endpoints /\ devices' = devices
        /\ trust' = trust /\ Launch(d, devices[d], trust)
    BY <1>5 DEF ConnectDevice, TypeOK, UiTypeOK, catalog
  <2>2. devices' \in [Devices -> Endpoints \cup {NoEndpoint}]
    BY <2>1 DEF TypeOK, UiTypeOK
  <2> QED BY <1>fps, <1>launch, <2>1, <2>2
<1>6. ASSUME NEW d \in Devices, DeleteDevice(d)
      PROVE  TypeOK' /\ GenInv'
  <2>1. trust' \in [Endpoints -> Fingerprints \cup {NoFingerprint}]
    BY <1>6 DEF DeleteDevice, TrustAfterDelete, TypeOK, UiTypeOK
  <2>2. devices' \in [Devices -> Endpoints \cup {NoEndpoint}]
    BY <1>6 DEF DeleteDevice, TypeOK, UiTypeOK
  <2> QED BY <1>6, <2>1, <2>2
          DEF DeleteDevice, TypeOK, ControllerTypeOK, ThreadTypeOK, UiTypeOK, GenInv,
              active, channels, ui, tick
<1>7. CASE UserDisconnect \/ RejectCertificate
  <2>1. Stop
    BY <1>7 DEF UserDisconnect, RejectCertificate
  <2>2. /\ generation' = generation + 1 /\ page' = "devices" /\ window' = window
        /\ page = "session" /\ window = "open"
    BY <2>1 DEF Stop, Idle, Disconnect, NextGeneration
  <2>3. GenInv' /\ generation + 1 \in Generations
    BY <1>g, <2>2 DEF GenInv
  <2>4. ControllerTypeOK'
    BY <1>posted, <2>1, <2>3, DisconnectTyped DEF Stop, TypeOK
  <2> QED BY <1>noImage, <2>1, <2>3, <2>4
          DEF Stop, TypeOK, ThreadTypeOK, UiTypeOK, catalog, tick
<1>8. CASE TrustCertificate
  <2> DEFINE d == credentials.device
  <2>1. d \in Devices /\ credentials.endpoint \in Endpoints
    BY <1>8 DEF TrustCertificate, TypeOK, ControllerTypeOK, Profiles
  <2>2. devices[d] \in Endpoints
    BY <1>8, <2>1 DEF TrustCertificate, TypeOK, UiTypeOK
  <2>3. trust' \in [Endpoints -> Fingerprints \cup {NoFingerprint}]
    BY <1>8, <2>1 DEF TrustCertificate, TypeOK, ControllerTypeOK, UiTypeOK
  <2>4. devices' \in [Devices -> Endpoints \cup {NoEndpoint}]
    BY <1>8 DEF TrustCertificate, TypeOK, UiTypeOK
  <2>5. Launch(d, devices[d], trust')
    BY <1>8 DEF TrustCertificate
  <2> QED BY <1>launch, <2>1, <2>2, <2>3, <2>4, <2>5
<1>9. CASE ReleaseInput
  BY <1>9, <1>posted
     DEF ReleaseInput, TypeOK, ControllerTypeOK, ThreadTypeOK, UiTypeOK, GenInv,
         active, catalog, ui, tick
<1>10. CASE Close
  <2>1. /\ generation' = generation + 1 /\ page' = page /\ window' = "closed"
        /\ window = "open"
    BY <1>10 DEF Close, Idle, Disconnect, NextGeneration
  <2>2. GenInv' /\ generation + 1 \in Generations
    BY <1>g, <2>1 DEF GenInv
  <2>3. ControllerTypeOK'
    BY <1>10, <2>2, DisconnectTyped DEF Close, TypeOK, ControllerTypeOK
  <2> QED BY <1>10, <2>2, <2>3 DEF Close, TypeOK, ThreadTypeOK, UiTypeOK, catalog, tick
<1>11. ASSUME NEW flag \in BOOLEAN, Lifecycle(flag)
       PROVE  TypeOK' /\ GenInv'
  <2>1. commands' \in [Sessions -> Seq(Commands)]
    BY <1>11, PostTyped, ListsTyped DEF Lifecycle, Suspend, TypeOK, ControllerTypeOK
  <2> QED BY <1>11, <2>1
          DEF Lifecycle, Suspend, TypeOK, ControllerTypeOK, ThreadTypeOK, UiTypeOK, GenInv,
              catalog, ui, tick
<1> QED BY <1>1, <1>2, <1>3, <1>4, <1>5, <1>6, <1>7, <1>8, <1>9, <1>10, <1>11 DEF UserStep

\* One step of the tick keeps the types and the bound on the generation.
LEMMA TickStepTyped ==
  ASSUME TypeOK, GenInv, TickStep
  PROVE  TypeOK' /\ GenInv'
<1> USE DEF TypeOK, ControllerTypeOK, ThreadTypeOK, UiTypeOK
<1>head. ASSUME NEW type, Handling(type)
         PROVE  /\ Head(batch) \in Events /\ Head(batch).type = type
                /\ batch' \in Seq(Events)
                /\ thread' = thread /\ devices' = devices /\ trust' = trust /\ page' = page
                /\ lastFrame' = lastFrame /\ window' = window /\ ticking' = ticking
  BY <1>head DEF Handling, catalog
<1>drop. DropReceiver \in [Sessions -> Seq(Events)]
  BY DropTyped
<1>1. CASE TickBegin
  <2>1. CASE Waiting
    <3> DEFINE s == events[handle]
               n == IF Len(s) < BatchSize THEN Len(s) ELSE BatchSize
    <3>1. handle \in Sessions /\ s \in Seq(Events) /\ n \in 0 .. Len(s)
      BY <2>1, BatchAssumption DEF Waiting
    <3>2. SubSeq(s, 1, n) \in Seq(Events) /\ SubSeq(s, n + 1, Len(s)) \in Seq(Events)
      BY <3>1
    <3>3. /\ batch' = SubSeq(s, 1, n)
          /\ events' = [events EXCEPT ![handle] = SubSeq(s, n + 1, Len(s))]
      BY <1>1, <2>1 DEF TickBegin
    <3> HIDE DEF s, n
    <3>4. batch' \in Seq(Events) /\ events' \in [Sessions -> Seq(Events)]
      BY <3>2, <3>3
    <3> QED BY <1>1, <3>4 DEF TickBegin, GenInv, active, catalog, ui
  <2>2. CASE ~ Waiting
    BY <1>1, <2>2 DEF TickBegin, GenInv, active, catalog, ui
  <2> QED BY <2>1, <2>2
<1>2. CASE OnCertificateTrustRequired
  <2>1. /\ Head(batch) \in Events /\ batch' \in Seq(Events)
        /\ Head(batch).fingerprint \in Fingerprints \cup {NoFingerprint}
    BY <1>2, <1>head, EventsTyped DEF OnCertificateTrustRequired
  <2>2. target' \in Endpoints \cup {NoEndpoint}
    BY <1>2 DEF OnCertificateTrustRequired, Profiles
  <2>3. /\ Handling("CertificateTrustRequired")
        /\ pendingFingerprint' = Head(batch).fingerprint /\ prompt' = Head(batch).fingerprint
        /\ UNCHANGED <<generation, handle, credentials, connected, suspended, uiConnected, image>>
        /\ UNCHANGED <<commands, events, ended>>
    BY <1>2 DEF OnCertificateTrustRequired, channels
  <2> QED BY <1>head, <2>1, <2>2, <2>3 DEF GenInv
<1>3. CASE OnConnected
  <2>1. Handling("Connected") /\ UNCHANGED <<generation, handle, credentials, suspended, target, image>>
        /\ connected' = TRUE /\ uiConnected' = TRUE /\ prompt' = NoFingerprint
        /\ UNCHANGED <<pendingFingerprint, commands, events, ended>>
    BY <1>3 DEF OnConnected, channels
  <2> QED BY <1>head, <2>1 DEF GenInv
<1>4. CASE OnReconnecting
  <2>1. commands' \in [Sessions -> Seq(Commands)]
    BY <1>4, PostTyped, ListsTyped DEF OnReconnecting
  <2>2. /\ Handling("Reconnecting") /\ connected' = FALSE /\ uiConnected' = FALSE
        /\ UNCHANGED <<generation, handle, credentials, pendingFingerprint, suspended>>
        /\ UNCHANGED <<events, ended, prompt, target, image>>
    BY <1>4 DEF OnReconnecting
  <2> QED BY <1>head, <2>1, <2>2 DEF GenInv
<1>5. CASE OnDisconnected
  <2>1. NoImage \in Generations \X (0 .. MaxFrames)
    BY ConstantsTyped, BoundsAssumption DEF NoImage, Generations
  <2>2. ControllerTypeOK'
    <3>1. CASE UNCHANGED <<active, channels>>
      BY <3>1 DEF active, channels
    <3>2. /\ handle' = NoSession /\ connected' = FALSE
          /\ credentials' \in Profiles \cup {NoCredentials}
          /\ events' \in [Sessions -> Seq(Events)]
          /\ generation' = generation /\ pendingFingerprint' = pendingFingerprint
          /\ suspended' = suspended /\ commands' = commands /\ ended' = ended
      BY <1>5, <1>drop DEF OnDisconnected, Finish, HandleAfterFinish, CredentialsAfterFinish
    <3> QED BY <3>2
  <2>3. /\ generation' = generation /\ prompt' = prompt /\ target' = target
        /\ uiConnected' = FALSE /\ image' = NoImage
    BY <1>5 DEF OnDisconnected, Finish, active, ImageAfterEnd
  <2> QED BY <1>5, <1>head, <2>1, <2>2, <2>3 DEF OnDisconnected, Handling, GenInv, catalog
<1>6. CASE TickEnd
  <2>1. image' \in Generations \X (0 .. MaxFrames) /\ lastFrame' \in Generations \X (0 .. MaxFrames)
    <3>1. FrameToDraw => thread[handle].frame \in 0 .. MaxFrames
      BY DEF FrameToDraw, Threads
    <3> QED BY <1>6, <3>1 DEF TickEnd
  <2> QED BY <1>6, <2>1, ZenonT(40) DEF TickEnd, GenInv, active, channels, catalog
<1> QED BY <1>1, <1>2, <1>3, <1>4, <1>5, <1>6 DEF TickStep

\* Every step of the client keeps the types and the bound on the generation.
LEMMA StepTyped ==
  ASSUME TypeOK, GenInv, [Next]_vars
  PROVE  TypeOK' /\ GenInv'
<1>1. ASSUME NEW g \in Sessions, ThreadStep(g) /\ UNCHANGED <<catalog, ui, tick>>
      PROVE  TypeOK' /\ GenInv'
  <2>1. ControllerTypeOK' /\ ThreadTypeOK'
    BY <1>1, ThreadStepTyped
  <2>2. generation' = generation
    BY <1>1 DEF ThreadStep, RuntimeFails, ConfigFails, Start, Handshake, Reconnect,
                Terminate, Receive, Publish, Return, active
  <2> QED BY <1>1, <2>1, <2>2 DEF TypeOK, UiTypeOK, GenInv, catalog, ui, tick
<1>2. CASE UNCHANGED vars
  BY <1>2 DEF vars, active, channels, catalog, ui, tick, TypeOK, ControllerTypeOK,
              ThreadTypeOK, UiTypeOK, GenInv
<1> QED BY <1>1, <1>2, UserStepTyped, TickStepTyped DEF Next, SessionStep, Terminated

\* The client starts with every variable in its type.
LEMMA InitTyped == Init => TypeOK /\ GenInv
<1> SUFFICES ASSUME Init PROVE TypeOK /\ GenInv
  OBVIOUS
<1>1. ControllerTypeOK
  <2>1. <<>> \in Seq(Commands) /\ <<>> \in Seq(Events)
    OBVIOUS
  <2>2. [g \in Sessions |-> <<>>] \in [Sessions -> Seq(Commands)]
    BY <2>1
  <2>3. [g \in Sessions |-> <<>>] \in [Sessions -> Seq(Events)]
    BY <2>1
  <2>4. 0 \in Generations
    BY ConstantsTyped DEF Generations
  <2> QED BY <2>2, <2>3, <2>4 DEF Init, ControllerInit, ControllerTypeOK
<1>2. ThreadTypeOK
  BY BlankTyped DEF Init, ThreadInit, ThreadTypeOK, Phases
<1>3. UiTypeOK
  <2>1. NoImage \in Generations \X (0 .. MaxFrames)
    BY ConstantsTyped, BoundsAssumption DEF NoImage, Generations
  <2>2. <<>> \in Seq(Events)
    OBVIOUS
  <2> QED BY <2>1, <2>2, TrustAssumption DEF Init, UiTypeOK
<1>4. GenInv
  BY ConstantsTyped DEF Init, ControllerInit, GenInv
<1> QED BY <1>1, <1>2, <1>3, <1>4 DEF TypeOK

\* Every variable of the client keeps its type, and the generation its bound.
THEOREM TypeCorrect == Spec => [](TypeOK /\ GenInv)
<1>1. Init => TypeOK /\ GenInv
  BY InitTyped
<1>2. TypeOK /\ GenInv /\ [Next]_vars => (TypeOK /\ GenInv)'
  BY StepTyped
<1> QED BY <1>1, <1>2, PTL DEF Spec

-----------------------------------------------------------------------------
(* The inductive step: one lemma per group of actions.                     *)

Told(cs, g) == \E i \in DOMAIN cs[g] : cs[g][i] = "Disconnect"

\* A goodbye ends with Disconnect; only the held session hears it.
LEMMA GoodbyeTells ==
  ASSUME TypeOK, NEW cs \in [Sessions -> Seq(Commands)]
  PROVE  /\ handle # NoSession /\ handle \notin ended => Told(Post(cs, Goodbye), handle)
         /\ \A g \in Sessions \ {handle} : \A list : Post(cs, list)[g] = cs[g]
<1>1. ASSUME handle # NoSession, handle \notin ended
      PROVE  Told(Post(cs, Goodbye), handle)
  <2> DEFINE s == cs[handle]
  <2>1. handle \in Sessions /\ s \in Seq(Commands)
    BY <1>1 DEF TypeOK, ControllerTypeOK
  <2>2. Post(cs, Goodbye)[handle] = s \o <<"ReleaseAll", "Disconnect">>
    BY <1>1, <2>1 DEF Post, Goodbye
  <2> HIDE DEF s
  <2>3. /\ Len(s) + 2 \in DOMAIN (s \o <<"ReleaseAll", "Disconnect">>)
        /\ (s \o <<"ReleaseAll", "Disconnect">>)[Len(s) + 2] = "Disconnect"
    BY <2>1
  <2> QED BY <2>2, <2>3 DEF Told
<1>2. ASSUME NEW g \in Sessions \ {handle}, NEW list
      PROVE  Post(cs, list)[g] = cs[g]
  BY DEF Post
<1> QED BY <1>1, <1>2

\* What is left of the events once the receiver is dropped was there before.
LEMMA DropKeeps ==
  ASSUME TypeOK, ReportInv
  PROVE  \A g \in Sessions : \A i \in DOMAIN DropReceiver[g] :
           DropReceiver[g][i].type = "Disconnected" => g \in ended
<1> SUFFICES ASSUME NEW g \in Sessions, NEW i \in DOMAIN DropReceiver[g],
                    DropReceiver[g][i].type = "Disconnected"
             PROVE  g \in ended
  OBVIOUS
<1>1. handle # g \/ handle = NoSession
  BY DEF DropReceiver, TypeOK, ControllerTypeOK
<1>2. DropReceiver[g] = events[g]
  BY <1>1, ConstantsTyped DEF DropReceiver, TypeOK, ControllerTypeOK
<1> QED BY <1>2 DEF ReportInv

\* launch() keeps the invariant: the session it replaces is told to
\* disconnect, and the new one starts with the pin of its endpoint.
LEMMA LaunchKeeps ==
  ASSUME IInv, Idle, NEW d \in Devices, NEW e \in Endpoints,
         NEW fps \in [Endpoints -> Fingerprints \cup {NoFingerprint}],
         Launch(d, e, fps), trust' = fps
  PROVE  /\ HandleInv' /\ EndedInv' /\ ReportInv' /\ TickInv'
         /\ CredentialsHeld' /\ OffSessionPage' /\ OneSession' /\ PinInv'
<1> DEFINE profile == [device |-> d, endpoint |-> e, expected |-> ExpectedFor(fps, e)]
           new == generation + 1
           released == Post(commands, <<"ReleaseAll">>)
<1> USE DEF IInv
<1>1. /\ generation \in Nat /\ new \in Sessions /\ new # NoSession /\ new > generation
  BY ConstantsTyped DEF TypeOK, ControllerTypeOK, Generations, Launch, Sessions
<1>2. /\ generation' = new /\ handle' = new
      /\ commands' = Post(released, Goodbye) /\ events' = DropReceiver /\ ended' = ended
      /\ thread' = [thread EXCEPT ![new] = Spawned(profile)]
      /\ page' = "session" /\ ticking' = ticking /\ batch' = batch
  BY DEF Launch, Begin, NextGeneration, tick
<1>3. /\ thread'[new].phase = "spawned" /\ thread'[new].endpoint = e
      /\ thread'[new].expected = fps[e]
      /\ \A g \in Sessions \ {new} : thread'[g] = thread[g]
  BY <1>1, <1>2 DEF Spawned, Blank, ExpectedFor, TypeOK, ThreadTypeOK
<1>4. thread[new].phase = "none" /\ handle # new /\ new \notin ended
  BY <1>1 DEF HandleInv, EndedInv, TypeOK, ControllerTypeOK
<1>5. ~ ticking /\ batch = <<>>
  BY DEF Idle, TickInv
<1>6. HandleInv'
  BY <1>1, <1>2, <1>3 DEF HandleInv, Sessions
<1>7. EndedInv'
  BY <1>2, <1>3, <1>4 DEF EndedInv
<1>8. ReportInv'
  BY <1>2, <1>5, DropKeeps DEF ReportInv
<1>9. TickInv' /\ CredentialsHeld' /\ OffSessionPage'
  BY <1>1, <1>2, <1>5 DEF TickInv, CredentialsHeld, OffSessionPage
<1>10. OneSession'
  <2> SUFFICES ASSUME NEW g \in Sessions, Running(g)', g # new
               PROVE  thread'[g].told \/ Told(commands', g)
    BY <1>2 DEF OneSession, Told
  <2>1. thread'[g] = thread[g] /\ Running(g)
    BY <1>3 DEF Running
  <2>2. released \in [Sessions -> Seq(Commands)]
    BY PostTyped, ListsTyped DEF TypeOK, ControllerTypeOK
  <2>3. CASE g = handle
    <3>1. handle \notin ended /\ handle # NoSession
      BY <2>1, <2>3, ConstantsTyped DEF EndedInv, Running
    <3> QED BY <1>2, <2>2, <2>3, <3>1, GoodbyeTells
  <2>4. CASE g # handle
    <3>1. commands'[g] = commands[g]
      BY <1>2, <2>2, <2>4, GoodbyeTells DEF TypeOK, ControllerTypeOK
    <3> QED BY <2>1, <2>4, <3>1 DEF OneSession, Told
  <2> QED BY <2>3, <2>4
<1>11. PinInv'
  BY <1>1, <1>2, <1>3 DEF PinInv
<1> QED BY <1>6, <1>7, <1>8, <1>9, <1>10, <1>11

\* disconnect(), after cs was sent: in stop() and when the window closes.
LEMMA DisconnectKeeps ==
  ASSUME IInv, Idle, NEW cs \in [Sessions -> Seq(Commands)],
         \A g \in Sessions \ {handle} : cs[g] = commands[g],
         Disconnect(cs), ticking' = ticking, batch' = batch, thread' = thread
  PROVE  /\ HandleInv' /\ EndedInv' /\ ReportInv' /\ TickInv'
         /\ CredentialsHeld' /\ OffSessionPage' /\ OneSession' /\ PinInv'
<1> USE DEF IInv
<1>1. /\ generation' = generation + 1 /\ handle' = NoSession /\ credentials' = NoCredentials
      /\ pendingFingerprint' = NoFingerprint /\ ended' = ended
      /\ commands' = Post(cs, Goodbye) /\ events' = DropReceiver
  BY DEF Disconnect, NextGeneration
<1>2. ~ ticking /\ batch = <<>>
  BY DEF Idle, TickInv
<1>3. HandleInv'
  BY <1>1, ConstantsTyped
     DEF HandleInv, Sessions, Generations, NoSession, TypeOK, ControllerTypeOK
<1>4. EndedInv' /\ TickInv' /\ CredentialsHeld' /\ OffSessionPage' /\ PinInv'
  BY <1>1, <1>2 DEF EndedInv, TickInv, CredentialsHeld, OffSessionPage, PinInv
<1>5. ReportInv'
  BY <1>1, <1>2, DropKeeps DEF ReportInv
<1>6. OneSession'
  <2> SUFFICES ASSUME NEW g \in Sessions, Running(g)
               PROVE  thread[g].told \/ Told(commands', g)
    BY DEF OneSession, Told, Running
  <2>1. CASE g = handle
    <3>1. handle \notin ended /\ handle # NoSession
      BY <2>1, ConstantsTyped DEF EndedInv, Running
    <3> QED BY <1>1, <2>1, <3>1, GoodbyeTells
  <2>2. CASE g # handle
    BY <1>1, <2>2, GoodbyeTells DEF OneSession, Told
  <2> QED BY <2>1, <2>2
<1> QED BY <1>3, <1>4, <1>5, <1>6

\* Steps that only send to the held session, or touch the list of devices.
LEMMA QuietKeeps ==
  ASSUME IInv, UNCHANGED <<active, events, ended, thread, batch>>,
         \A g \in Sessions \ {handle} : commands'[g] = commands[g],
         ticking' = ticking, page' # "session" => page # "session",
         handle # NoSession => trust' = trust
  PROVE  /\ HandleInv' /\ EndedInv' /\ ReportInv' /\ TickInv'
         /\ CredentialsHeld' /\ OffSessionPage' /\ OneSession' /\ PinInv'
<1> USE DEF IInv, active
<1>1. HandleInv' /\ EndedInv' /\ ReportInv' /\ TickInv' /\ CredentialsHeld' /\ OffSessionPage'
  BY DEF HandleInv, EndedInv, ReportInv, TickInv, CredentialsHeld, OffSessionPage
<1>2. OneSession'
  BY DEF OneSession, Running
<1>3. PinInv'
  BY DEF PinInv, Running
<1> QED BY <1>1, <1>2, <1>3

\* One callback keeps the invariant.
LEMMA UserStepKeeps ==
  ASSUME IInv, UserStep
  PROVE  /\ HandleInv' /\ EndedInv' /\ ReportInv' /\ TickInv'
         /\ CredentialsHeld' /\ OffSessionPage' /\ OneSession' /\ PinInv'
<1> DEFINE Goal == /\ HandleInv' /\ EndedInv' /\ ReportInv' /\ TickInv'
                   /\ CredentialsHeld' /\ OffSessionPage' /\ OneSession' /\ PinInv'
<1>posts. \A list \in Seq(Commands) : \A g \in Sessions \ {handle} :
            Post(commands, list)[g] = commands[g]
  BY GoodbyeTells DEF IInv, TypeOK, ControllerTypeOK
<1>fps. trust \in [Endpoints -> Fingerprints \cup {NoFingerprint}]
  BY DEF IInv, TypeOK, UiTypeOK
<1>1. CASE EditDevice \/ LeaveEditor
  BY <1>1, QuietKeeps DEF EditDevice, LeaveEditor, channels, catalog, tick
<1>2. ASSUME NEW d \in Devices, NEW e \in Endpoints, SaveDevice(d, e)
      PROVE  Goal
  BY <1>2, QuietKeeps DEF SaveDevice, channels, tick
<1>3. ASSUME NEW d \in Devices, NEW e \in Endpoints, SaveAndConnect(d, e)
      PROVE  Goal
  <2>1. Idle /\ trust' = trust /\ Launch(d, e, trust)
    BY <1>3 DEF SaveAndConnect
  <2> QED BY <1>fps, <2>1, LaunchKeeps
<1>4. ASSUME NEW d \in Devices, ConnectDevice(d)
      PROVE  Goal
  <2>1. Idle /\ trust' = trust /\ Launch(d, devices[d], trust) /\ devices[d] \in Endpoints
    BY <1>4 DEF ConnectDevice, catalog, IInv, TypeOK, UiTypeOK
  <2> QED BY <1>fps, <2>1, LaunchKeeps
<1>5. ASSUME NEW d \in Devices, DeleteDevice(d)
      PROVE  Goal
  <2>1. handle = NoSession
    BY <1>5 DEF DeleteDevice, IInv, OffSessionPage
  <2> QED BY <1>5, <2>1, QuietKeeps DEF DeleteDevice, channels, ui, tick
<1>6. CASE UserDisconnect \/ RejectCertificate
  <2>1. Idle /\ Disconnect(Post(commands, <<"ReleaseAll">>)) /\ thread' = thread
        /\ ticking' = ticking /\ batch' = batch
    BY <1>6 DEF UserDisconnect, RejectCertificate, Stop, tick
  <2>2. Post(commands, <<"ReleaseAll">>) \in [Sessions -> Seq(Commands)]
    BY PostTyped, ListsTyped DEF IInv, TypeOK, ControllerTypeOK
  <2> QED BY <1>posts, <2>1, <2>2, ListsTyped, DisconnectKeeps
<1>7. CASE TrustCertificate
  <2> DEFINE d == credentials.device
  <2>1. /\ Idle /\ Launch(d, devices[d], trust') /\ devices[d] # NoEndpoint
        /\ trust' = [trust EXCEPT ![credentials.endpoint] = pendingFingerprint]
    BY <1>7 DEF TrustCertificate
  <2>2. d \in Devices
    BY <1>7 DEF TrustCertificate, IInv, TypeOK, ControllerTypeOK, Profiles
  <2>3. devices[d] \in Endpoints
    BY <2>1, <2>2 DEF IInv, TypeOK, UiTypeOK
  <2>4. trust' \in [Endpoints -> Fingerprints \cup {NoFingerprint}]
    BY <2>1, <1>fps DEF IInv, TypeOK, ControllerTypeOK
  <2> QED BY <2>1, <2>2, <2>3, <2>4, LaunchKeeps
<1>8. CASE ReleaseInput
  BY <1>8, <1>posts, ListsTyped, QuietKeeps DEF ReleaseInput, catalog, ui, tick
<1>9. CASE Close
  <2>1. Idle /\ Disconnect(commands) /\ thread' = thread /\ ticking' = ticking /\ batch' = batch
    BY <1>9 DEF Close, tick
  <2>2. commands \in [Sessions -> Seq(Commands)]
    BY DEF IInv, TypeOK, ControllerTypeOK
  <2> QED BY <2>1, <2>2, DisconnectKeeps
<1>10. ASSUME NEW flag \in BOOLEAN, Lifecycle(flag)
       PROVE  Goal
  <2> USE DEF IInv
  <2>1. /\ UNCHANGED <<generation, handle, credentials, pendingFingerprint, connected>>
        /\ UNCHANGED <<events, ended, thread, trust, page, batch, ticking>>
        /\ \A g \in Sessions \ {handle} : commands'[g] = commands[g]
    BY <1>10, <1>posts, ListsTyped DEF Lifecycle, Suspend, catalog, ui, tick
  <2>2. HandleInv' /\ EndedInv' /\ ReportInv' /\ TickInv' /\ CredentialsHeld' /\ OffSessionPage'
    BY <2>1 DEF HandleInv, EndedInv, ReportInv, TickInv, CredentialsHeld, OffSessionPage
  <2>3. OneSession'
    BY <2>1 DEF OneSession, Running
  <2>4. PinInv'
    BY <2>1 DEF PinInv, Running
  <2> QED BY <2>2, <2>3, <2>4
<1> QED BY <1>1, <1>2, <1>3, <1>4, <1>5, <1>6, <1>7, <1>8, <1>9, <1>10 DEF UserStep

\* A step of a running thread other than its return.
LEMMA RunningStepKeeps ==
  ASSUME IInv, NEW g \in Sessions, NEW t \in Threads, UNCHANGED <<active, ended, catalog, ui, tick>>,
         Running(g), t.phase \notin {"none", "ended"},
         t.endpoint = thread[g].endpoint, t.expected = thread[g].expected,
         t.phase = "connected" => \/ Verified(t.expected, t.presented)
                                  \/ thread[g].phase = "connected" /\ t.presented = thread[g].presented,
         thread' = [thread EXCEPT ![g] = t],
         g # handle => \/ t.told
                       \/ ~ thread[g].told /\ (Told(commands, g) => Told(commands', g)),
         \A h \in Sessions \ {g} : commands'[h] = commands[h] /\ events'[h] = events[h],
         \A i \in DOMAIN events'[g] : \/ events'[g][i].type # "Disconnected"
                                      \/ i \in DOMAIN events[g] /\ events'[g][i] = events[g][i]
  PROVE  /\ HandleInv' /\ EndedInv' /\ ReportInv' /\ TickInv'
         /\ CredentialsHeld' /\ OffSessionPage' /\ OneSession' /\ PinInv'
<1> USE DEF IInv, active, catalog, ui, tick
<1>1. thread'[g] = t /\ \A h \in Sessions \ {g} : thread'[h] = thread[h]
  BY DEF TypeOK, ThreadTypeOK
<1>2. g <= generation /\ g \notin ended
  BY ConstantsTyped DEF HandleInv, EndedInv, Running, TypeOK, ControllerTypeOK, Generations, Sessions
<1>3. HandleInv'
  BY <1>1, <1>2, ConstantsTyped DEF HandleInv, Sessions, TypeOK, ControllerTypeOK, Generations
<1>4. EndedInv'
  BY <1>1, <1>2 DEF EndedInv
<1>5. ReportInv'
  BY <1>2 DEF ReportInv
<1>6. TickInv' /\ CredentialsHeld' /\ OffSessionPage'
  BY DEF TickInv, CredentialsHeld, OffSessionPage
<1>7. OneSession'
  BY <1>1 DEF OneSession, Told, Running
<1>8. PinInv'
  BY <1>1 DEF PinInv, Running
<1> QED BY <1>3, <1>4, <1>5, <1>6, <1>7, <1>8

\* A thread that returns keeps the invariant: it closes its channels and
\* reports Disconnected last.
LEMMA ReturnKeeps ==
  ASSUME IInv, NEW g \in Sessions, NEW list \in Seq(Events), Running(g), Return(g, list),
         UNCHANGED <<catalog, ui, tick>>
  PROVE  /\ HandleInv' /\ EndedInv' /\ ReportInv' /\ TickInv'
         /\ CredentialsHeld' /\ OffSessionPage' /\ OneSession' /\ PinInv'
<1> USE DEF IInv, active, catalog, ui, tick
<1>1. /\ thread'[g].phase = "ended" /\ \A h \in Sessions \ {g} : thread'[h] = thread[h]
      /\ ended' = ended \cup {g} /\ \A h \in Sessions \ {g} : events'[h] = events[h]
      /\ \A h \in Sessions \ {g} : commands'[h] = commands[h]
      /\ generation' = generation /\ handle' = handle /\ trust' = trust
      /\ UNCHANGED <<credentials, pendingFingerprint>>
  BY DEF Return, Blank, TypeOK, ThreadTypeOK, ControllerTypeOK
<1>2. g <= generation
  BY ConstantsTyped DEF HandleInv, Running, TypeOK, ControllerTypeOK, Generations, Sessions
<1>3. HandleInv'
  <2> SUFFICES ASSUME NEW h \in Sessions, h > generation
               PROVE  thread'[h].phase = "none"
    BY <1>1 DEF HandleInv
  <2>1. h # g
    BY <1>2, ConstantsTyped DEF Sessions, TypeOK, ControllerTypeOK, Generations
  <2> QED BY <1>1, <2>1 DEF HandleInv
<1>4. EndedInv' /\ ReportInv' /\ TickInv' /\ CredentialsHeld' /\ OffSessionPage'
  BY <1>1 DEF EndedInv, ReportInv, TickInv, CredentialsHeld, OffSessionPage
<1>5. OneSession'
  BY <1>1 DEF OneSession, Running
<1>6. PinInv'
  <2>1. CASE handle = g
    BY <1>1, <2>1 DEF PinInv, Running
  <2>2. CASE handle # g
    BY <1>1, <2>2 DEF PinInv, Running, TypeOK, ControllerTypeOK
  <2> QED BY <2>1, <2>2
<1> QED BY <1>3, <1>4, <1>5, <1>6

\* One step of a session thread keeps the invariant.
LEMMA ThreadStepKeeps ==
  ASSUME IInv, NEW g \in Sessions, ThreadStep(g), UNCHANGED <<catalog, ui, tick>>
  PROVE  /\ HandleInv' /\ EndedInv' /\ ReportInv' /\ TickInv'
         /\ CredentialsHeld' /\ OffSessionPage' /\ OneSession' /\ PinInv'
<1> DEFINE Goal == /\ HandleInv' /\ EndedInv' /\ ReportInv' /\ TickInv'
                   /\ CredentialsHeld' /\ OffSessionPage' /\ OneSession' /\ PinInv'
<1> USE DEF IInv, TypeOK, ControllerTypeOK, ThreadTypeOK
<1>typed. /\ thread[g] \in Threads /\ thread' \in [Sessions -> Threads]
          /\ thread'[g] \in Threads
  BY ThreadStepTyped
<1>lists. <<>> \in Seq(Events) /\ <<Disconnected>> \in Seq(Events)
  BY EventsTyped
<1>emit. ASSUME NEW e \in Events, e.type # "Disconnected", events' = Emit(g, e)
         PROVE  /\ \A h \in Sessions \ {g} : events'[h] = events[h]
                /\ \A i \in DOMAIN events'[g] :
                     \/ events'[g][i].type # "Disconnected"
                     \/ i \in DOMAIN events[g] /\ events'[g][i] = events[g][i]
  BY <1>emit DEF Emit
<1>1. CASE RuntimeFails(g)
  <2>1. Running(g) /\ Return(g, <<>>)
    BY <1>1 DEF RuntimeFails, Running
  <2> QED BY <1>lists, <2>1, ReturnKeeps
<1>2. CASE ConfigFails(g)
  <2>1. Running(g) /\ Return(g, <<Disconnected>>)
    BY <1>2 DEF ConfigFails, Running
  <2> QED BY <1>lists, <2>1, ReturnKeeps
<1>3. CASE Terminate(g)
  <2>1. Running(g) /\ Return(g, <<Disconnected>>)
    BY <1>3 DEF Terminate, Running
  <2> QED BY <1>lists, <2>1, ReturnKeeps
<1> DEFINE t == thread'[g]
<1>4. CASE Start(g)
  <2>1. /\ Running(g) /\ t.phase = "connecting" /\ t.endpoint = thread[g].endpoint
        /\ t.expected = thread[g].expected /\ t.told = thread[g].told
        /\ thread' = [thread EXCEPT ![g] = t]
        /\ UNCHANGED <<active, commands, events, ended>>
    BY <1>4, <1>typed DEF Start, Running, channels, Threads
  <2> HIDE DEF t
  <2> QED BY <1>typed, <2>1, RunningStepKeeps DEF t
<1>5. ASSUME NEW f \in Fingerprints, Handshake(g, f)
      PROVE  Goal
  <2> DEFINE ok == Verified(thread[g].expected, f)
             e == IF ok THEN Event("Connected", NoFingerprint)
                        ELSE Event("CertificateTrustRequired", f)
  <2>1. e \in Events /\ e.type # "Disconnected"
    BY EventsTyped DEF Event
  <2>2. /\ Running(g) /\ t.phase \in {"connecting", "connected", "reconnecting", "failed"}
        /\ t.phase = "connected" => ok /\ t.presented = f
        /\ t.endpoint = thread[g].endpoint
        /\ t.expected = thread[g].expected /\ t.told = thread[g].told
        /\ thread' = [thread EXCEPT ![g] = t]
        /\ UNCHANGED <<active, commands, ended>> /\ events' = Emit(g, e)
    BY <1>5, <1>typed DEF Handshake, Running, Threads
  <2> HIDE DEF t, e
  <2>3. t.phase = "connected" => Verified(t.expected, t.presented)
    BY <2>2
  <2> QED BY <1>typed, <1>emit, <2>1, <2>2, <2>3, RunningStepKeeps DEF t
<1>6. CASE Reconnect(g)
  <2>1. Event("Reconnecting", NoFingerprint) \in Events
        /\ Event("Reconnecting", NoFingerprint).type # "Disconnected"
    BY EventsTyped DEF Event
  <2>2. /\ Running(g) /\ t.phase = "reconnecting" /\ t.endpoint = thread[g].endpoint
        /\ t.expected = thread[g].expected /\ t.told = thread[g].told
        /\ thread' = [thread EXCEPT ![g] = t]
        /\ UNCHANGED <<active, commands, ended>>
        /\ events' = Emit(g, Event("Reconnecting", NoFingerprint))
    BY <1>6, <1>typed DEF Reconnect, Running, Threads
  <2> HIDE DEF t
  <2> QED BY <1>typed, <1>emit, <2>1, <2>2, RunningStepKeeps DEF t
<1>7. CASE Receive(g)
  <2>1. /\ Running(g) /\ t.phase = thread[g].phase /\ t.endpoint = thread[g].endpoint
        /\ t.expected = thread[g].expected /\ t.presented = thread[g].presented
        /\ t.told = (thread[g].told \/ Head(commands[g]) = "Disconnect")
        /\ thread' = [thread EXCEPT ![g] = t]
        /\ UNCHANGED <<active, events, ended>>
        /\ commands' = [commands EXCEPT ![g] = Tail(@)] /\ commands[g] # <<>>
        /\ t.phase \notin {"none", "ended"}
        /\ thread[g].told \in BOOLEAN /\ t.told \in BOOLEAN
    BY <1>7, <1>typed DEF Receive, Running, Threads
  <2>told. thread[g].told => t.told
    BY <2>1
  <2>2. ~ t.told /\ Told(commands, g) => Told(commands', g)
    <3> SUFFICES ASSUME ~ t.told, NEW i \in DOMAIN commands[g], commands[g][i] = "Disconnect"
                 PROVE  \E j \in DOMAIN commands'[g] : commands'[g][j] = "Disconnect"
      BY DEF Told
    <3>1. commands[g] \in Seq(Commands) /\ commands'[g] = Tail(commands[g])
      BY <2>1
    <3>0. Head(commands[g]) # "Disconnect"
      BY <2>1
    <3>2. i # 1 /\ i \in 2 .. Len(commands[g])
      BY <3>0, <3>1
    <3>3. i - 1 \in DOMAIN Tail(commands[g]) /\ Tail(commands[g])[i - 1] = commands[g][i]
      BY <3>1, <3>2
    <3> QED BY <3>1, <3>3
  <2> HIDE DEF t
  <2> QED BY <1>typed, <2>1, <2>2, <2>told, RunningStepKeeps DEF t
<1>8. CASE Publish(g)
  <2>1. /\ Running(g) /\ t.phase = thread[g].phase /\ t.endpoint = thread[g].endpoint
        /\ t.expected = thread[g].expected /\ t.presented = thread[g].presented
        /\ t.told = thread[g].told
        /\ thread' = [thread EXCEPT ![g] = t] /\ t.phase \notin {"none", "ended"}
        /\ UNCHANGED <<active, commands, events, ended>>
    BY <1>8, <1>typed DEF Publish, Running, channels, Threads
  <2> HIDE DEF t
  <2> QED BY <1>typed, <2>1, RunningStepKeeps DEF t
<1> QED BY <1>1, <1>2, <1>3, <1>4, <1>5, <1>6, <1>7, <1>8 DEF ThreadStep

\* Draining the channel keeps the invariant: what leaves the channel is what
\* the tick handles next.
LEMMA TickBeginKeeps ==
  ASSUME IInv, TickBegin
  PROVE  /\ HandleInv' /\ EndedInv' /\ ReportInv' /\ TickInv'
         /\ CredentialsHeld' /\ OffSessionPage' /\ OneSession' /\ PinInv'
<1> USE DEF IInv, active, catalog, ui
<1>1. /\ UNCHANGED <<generation, handle, credentials, pendingFingerprint>>
      /\ UNCHANGED <<commands, ended, thread, trust, page>>
      /\ ticking' = TRUE /\ batch = <<>>
  BY DEF TickBegin, Idle, TickInv
<1>2. HandleInv' /\ EndedInv' /\ CredentialsHeld' /\ OffSessionPage' /\ OneSession' /\ PinInv'
  BY <1>1 DEF HandleInv, EndedInv, CredentialsHeld, OffSessionPage, OneSession, PinInv, Running
<1>3. CASE Waiting
  <2> DEFINE s == events[handle]
             n == IF Len(s) < BatchSize THEN Len(s) ELSE BatchSize
  <2>1. handle \in Sessions /\ s \in Seq(Events) /\ n \in 0 .. Len(s) /\ page = "session"
    BY <1>3, BatchAssumption DEF Waiting, TypeOK, ControllerTypeOK, OffSessionPage
  <2>2. /\ batch' = SubSeq(s, 1, n)
        /\ events' = [events EXCEPT ![handle] = SubSeq(s, n + 1, Len(s))]
    BY <1>3 DEF TickBegin
  <2>3. \A i \in DOMAIN s : s[i].type = "Disconnected" => handle \in ended
    BY <2>1 DEF ReportInv
  <2> HIDE DEF s, n
  <2>4. \A i \in DOMAIN SubSeq(s, 1, n) : i \in DOMAIN s /\ SubSeq(s, 1, n)[i] = s[i]
    BY <2>1
  <2>5. \A i \in DOMAIN SubSeq(s, n + 1, Len(s)) :
          i + n \in DOMAIN s /\ SubSeq(s, n + 1, Len(s))[i] = s[i + n]
    BY <2>1
  <2>6. ReportInv'
    BY <1>1, <2>1, <2>2, <2>3, <2>4, <2>5 DEF ReportInv, TypeOK, ControllerTypeOK
  <2>7. TickInv'
    BY <1>1, <2>1 DEF TickInv
  <2> QED BY <1>2, <2>6, <2>7
<1>4. CASE ~ Waiting
  <2>1. batch' = batch /\ events' = events
    BY <1>4 DEF TickBegin
  <2> QED BY <1>1, <1>2, <2>1 DEF ReportInv, TickInv
<1> QED BY <1>3, <1>4

\* One step of the tick keeps the invariant.
LEMMA TickStepKeeps ==
  ASSUME IInv, TickStep
  PROVE  /\ HandleInv' /\ EndedInv' /\ ReportInv' /\ TickInv'
         /\ CredentialsHeld' /\ OffSessionPage' /\ OneSession' /\ PinInv'
<1> USE DEF IInv
<1>head. ASSUME NEW type, Handling(type)
         PROVE  /\ batch # <<>> /\ page = "session" /\ ticking = TRUE
                /\ batch' = Tail(batch) /\ Head(batch) = batch[1] /\ 1 \in DOMAIN batch
                /\ Head(batch).type = type /\ Head(batch) \in Events
                /\ \A i \in DOMAIN batch' : i + 1 \in DOMAIN batch /\ batch'[i] = batch[i + 1]
                /\ UNCHANGED <<thread, trust, page, ticking>>
  <2>1. /\ batch # <<>> /\ ticking /\ batch' = Tail(batch) /\ Head(batch).type = type
        /\ UNCHANGED <<thread, trust, page, ticking>>
    BY <1>head DEF Handling, catalog
  <2>2. batch \in Seq(Events) /\ ticking \in BOOLEAN
    BY DEF TypeOK, UiTypeOK
  <2>3. Head(batch) = batch[1] /\ 1 \in DOMAIN batch /\ Head(batch) \in Events
    BY <2>1, <2>2
  <2>4. \A i \in DOMAIN Tail(batch) : i + 1 \in DOMAIN batch /\ Tail(batch)[i] = batch[i + 1]
    BY <2>1, <2>2
  <2>5. page = "session"
    BY <2>1 DEF TickInv
  <2> QED BY <2>1, <2>2, <2>3, <2>4, <2>5
<1>report. ASSUME NEW type, Handling(type), handle' = handle, events' = events, ended' = ended
           PROVE  ReportInv' /\ TickInv'
  <2>1. \A i \in DOMAIN batch' :
          batch'[i].type = "Disconnected" => handle' = NoSession \/ handle' \in ended'
    BY <1>head, <1>report DEF ReportInv
  <2>2. ReportInv'
    BY <1>report, <2>1 DEF ReportInv
  <2>3. TickInv'
    BY <1>head, <1>report DEF TickInv
  <2> QED BY <2>2, <2>3
<1>1. CASE TickBegin
  BY <1>1, TickBeginKeeps
<1>2. CASE OnCertificateTrustRequired
  <2>1. /\ Handling("CertificateTrustRequired")
        /\ pendingFingerprint' = Head(batch).fingerprint
        /\ UNCHANGED <<generation, handle, credentials, commands, events, ended>>
    BY <1>2 DEF OnCertificateTrustRequired, channels
  <2>2. pendingFingerprint' # NoFingerprint
    BY <1>head, <2>1, EventsTyped, NoneAssumption
  <2>3. HandleInv' /\ EndedInv' /\ CredentialsHeld' /\ OffSessionPage'
    BY <1>head, <2>1, <2>2
       DEF HandleInv, EndedInv, CredentialsHeld, OffSessionPage
  <2>4. OneSession' /\ PinInv'
    BY <1>head, <2>1 DEF OneSession, PinInv, Running
  <2> QED BY <1>report, <2>1, <2>3, <2>4
<1>3. CASE OnConnected
  <2>1. /\ Handling("Connected")
        /\ UNCHANGED <<generation, handle, credentials, pendingFingerprint>>
        /\ UNCHANGED <<commands, events, ended>>
    BY <1>3 DEF OnConnected, channels
  <2>2. HandleInv' /\ EndedInv' /\ CredentialsHeld' /\ OffSessionPage'
    BY <1>head, <2>1
       DEF HandleInv, EndedInv, CredentialsHeld, OffSessionPage
  <2>3. OneSession' /\ PinInv'
    BY <1>head, <2>1 DEF OneSession, PinInv, Running
  <2> QED BY <1>report, <2>1, <2>2, <2>3
<1>4. CASE OnReconnecting
  <2>1. /\ Handling("Reconnecting")
        /\ UNCHANGED <<generation, handle, credentials, pendingFingerprint>>
        /\ UNCHANGED <<events, ended>>
        /\ commands' = Post(commands, <<"ReleaseAll">>)
    BY <1>4 DEF OnReconnecting
  <2>posted. \A g \in Sessions \ {handle} : commands'[g] = commands[g]
    BY <2>1, GoodbyeTells DEF TypeOK, ControllerTypeOK
  <2>2. HandleInv' /\ EndedInv' /\ CredentialsHeld' /\ OffSessionPage'
    BY <1>head, <2>1
       DEF HandleInv, EndedInv, CredentialsHeld, OffSessionPage
  <2>same. thread' = thread /\ trust' = trust /\ handle' = handle
    BY <1>head, <2>1
  <2>3. OneSession'
    BY <2>posted, <2>same DEF OneSession, Running
  <2>4. PinInv'
    BY <2>same DEF PinInv, Running
  <2> QED BY <1>report, <2>1, <2>2, <2>3, <2>4
<1>5. CASE OnDisconnected
  <2>1. Handling("Disconnected") /\ Finish(generation)
    BY <1>5 DEF OnDisconnected
  <2>2. /\ handle' = NoSession /\ events' = DropReceiver
        /\ credentials' = IF pendingFingerprint = NoFingerprint THEN NoCredentials ELSE credentials
        /\ generation' = generation /\ pendingFingerprint' = pendingFingerprint
        /\ commands' = commands /\ ended' = ended
    BY <2>1 DEF Finish, HandleAfterFinish, CredentialsAfterFinish
  <2>first. 1 \in DOMAIN batch /\ batch[1].type = "Disconnected"
    BY <1>head, <2>1
  <2>3. handle = NoSession \/ handle \in ended
    BY <2>first DEF ReportInv
  <2>same. thread' = thread /\ page = "session" /\ page' = page /\ trust' = trust
    BY <1>head, <2>1
  <2>4. HandleInv'
    BY <2>same, <2>2, ConstantsTyped
       DEF HandleInv, NoSession, TypeOK, ControllerTypeOK, Generations
  <2>5. EndedInv' /\ CredentialsHeld' /\ OffSessionPage' /\ PinInv'
    BY <2>same, <2>2
       DEF EndedInv, CredentialsHeld, OffSessionPage, PinInv
  <2>tick. TickInv'
    BY <1>head, <2>1 DEF TickInv
  <2>6. ReportInv'
    BY <2>2, DropKeeps DEF ReportInv
  <2>7. OneSession'
    <3> SUFFICES ASSUME NEW g \in Sessions, Running(g)
                 PROVE  thread[g].told \/ \E i \in DOMAIN commands[g] : commands[g][i] = "Disconnect"
      BY <1>head, <2>1, <2>2 DEF OneSession, Running
    <3>1. g # handle
      BY <2>3, ConstantsTyped DEF EndedInv, Running
    <3> QED BY <3>1 DEF OneSession
  <2> QED BY <2>4, <2>5, <2>tick, <2>6, <2>7
<1>6. CASE TickEnd
  <2>1. /\ UNCHANGED <<generation, handle, credentials, pendingFingerprint>>
        /\ UNCHANGED <<commands, events, ended, thread, trust, page>>
        /\ batch = <<>> /\ batch' = <<>>
    BY <1>6 DEF TickEnd, active, channels, catalog
  <2>2. HandleInv' /\ EndedInv' /\ ReportInv' /\ TickInv' /\ CredentialsHeld' /\ OffSessionPage'
    BY <2>1 DEF HandleInv, EndedInv, ReportInv, TickInv, CredentialsHeld, OffSessionPage
  <2>3. OneSession' /\ PinInv'
    BY <2>1 DEF OneSession, PinInv, Running
  <2> QED BY <2>2, <2>3
<1> QED BY <1>1, <1>2, <1>3, <1>4, <1>5, <1>6 DEF TickStep

-----------------------------------------------------------------------------
(* The theorems.                                                           *)

\* Every step of the client keeps the invariant.
LEMMA StepKeeps ==
  ASSUME IInv, [Next]_vars
  PROVE  IInv'
<1>typed. TypeOK' /\ GenInv'
  BY StepTyped DEF IInv
<1>1. ASSUME NEW g \in Sessions, ThreadStep(g) /\ UNCHANGED <<catalog, ui, tick>>
      PROVE  IInv'
  BY <1>1, <1>typed, ThreadStepKeeps DEF IInv
<1>2. CASE UserStep
  BY <1>2, <1>typed, UserStepKeeps DEF IInv
<1>3. CASE TickStep
  BY <1>3, <1>typed, TickStepKeeps DEF IInv
<1>4. CASE UNCHANGED vars
  <2>1. /\ UNCHANGED <<generation, handle, credentials, pendingFingerprint>>
        /\ UNCHANGED <<commands, events, ended, thread, trust, page, ticking, batch>>
    BY <1>4 DEF vars, active, channels, catalog, ui, tick
  <2>2. HandleInv' /\ EndedInv' /\ ReportInv' /\ TickInv' /\ CredentialsHeld' /\ OffSessionPage'
    BY <2>1 DEF IInv, HandleInv, EndedInv, ReportInv, TickInv, CredentialsHeld, OffSessionPage
  <2>3. OneSession' /\ PinInv'
    BY <2>1 DEF IInv, OneSession, PinInv, Running
  <2> QED BY <1>typed, <2>2, <2>3 DEF IInv
<1> QED BY <1>1, <1>2, <1>3, <1>4 DEF Next, SessionStep, Terminated

\* The client starts in the invariant.
LEMMA InitKeeps == Init => IInv
<1> SUFFICES ASSUME Init PROVE IInv
  OBVIOUS
<1>1. TypeOK /\ GenInv
  BY InitTyped
<1>2. HandleInv /\ EndedInv /\ OneSession
  BY ConstantsTyped
     DEF Init, ControllerInit, ThreadInit, HandleInv, EndedInv, OneSession, Running, Blank, NoSession
<1>3. ReportInv
  BY DEF Init, ControllerInit, ReportInv
<1>4. TickInv /\ CredentialsHeld /\ OffSessionPage /\ PinInv
  BY DEF Init, ControllerInit, TickInv, CredentialsHeld, OffSessionPage, PinInv
<1> QED BY <1>1, <1>2, <1>3, <1>4 DEF IInv

\* The inductive invariant holds in every state the client reaches.
THEOREM Invariance == Spec => []IInv
<1>1. Init => IInv
  BY InitKeeps
<1>2. IInv /\ [Next]_vars => IInv'
  BY StepKeeps
<1> QED BY <1>1, <1>2, PTL DEF Spec

\* Credentials outlive their session only while a fingerprint waits.
THEOREM CredentialsHeldAlways == Spec => []CredentialsHeld
<1>1. IInv => CredentialsHeld
  BY DEF IInv
<1> QED BY <1>1, Invariance, PTL

\* Away from the session page the controller holds no session.
THEOREM OffSessionPageAlways == Spec => []OffSessionPage
<1>1. IInv => OffSessionPage
  BY DEF IInv
<1> QED BY <1>1, Invariance, PTL

\* At most one session goes on unasked: the others have been told to disconnect.
THEOREM OneSessionAlways == Spec => []OneSession
<1>1. IInv => OneSession
  BY DEF IInv
<1> QED BY <1>1, Invariance, PTL

\* The session that is held is connected only to its endpoint's pinned
\* certificate and, without a pin, only to a CA-valid one.
THEOREM PinEnforcedAlways == Spec => []PinEnforced
<1>1. IInv => PinEnforced
  BY DEF IInv, PinInv, PinEnforced, Verified, Approved, Running
<1> QED BY <1>1, Invariance, PTL

-----------------------------------------------------------------------------
(* What is on the screen.  The dialog, the picture and the state of the     *)
(* display are copies of what the controller and the session threads hold;  *)
(* that they agree takes an invariant of its own, inductive together with   *)
(* IInv.                                                                    *)

\* The session that is held is the last that began, and has credentials; a later
\* one has been sent nothing.
HeldInv ==
  /\ handle # NoSession => handle = generation /\ credentials # NoCredentials
  /\ \A g \in Sessions : g > generation => commands[g] = <<>>

\* A thread reports its end last, and the tick handles the events of the session
\* that is held.
LastReport(list) == \A i \in DOMAIN list : list[i].type = "Disconnected" => i = Len(list)

LastReportInv ==
  /\ \A g \in Sessions : LastReport(events[g])
  /\ LastReport(batch)
  /\ batch # <<>> => handle # NoSession

\* The picture is of the held session, which has published it.
ImageInv ==
  window = "open" /\ image # NoImage =>
    handle # NoSession /\ handle = image[1] /\ image[2] <= thread[handle].frame

\* Where the last command about the display stands in a queue, 0 for none.
Rendering == {"SuspendRendering", "ResumeRendering"}

IsLastRendering(list, i) ==
  /\ i = 0 \/ list[i] \in Rendering
  /\ \A j \in i + 1 .. Len(list) : list[j] \notin Rendering

\* Once the commands of list are worked off, a thread that is paused now or not
\* is paused only if away.
WillResume(list, paused, away) ==
  \A i \in 0 .. Len(list) : IsLastRendering(list, i) =>
    ((IF i = 0 THEN paused ELSE list[i] = "SuspendRendering") => away)

DisplayInv ==
  handle # NoSession /\ Running(handle) =>
    WillResume(commands[handle], thread[handle].paused, suspended)

ScreenInv == HeldInv /\ LastReportInv /\ PromptIsPending /\ ImageInv /\ DisplayInv

-----------------------------------------------------------------------------
(* Lemmas about queues of commands and events.                              *)

\* Releasing the inputs says nothing about the display.
LEMMA ReleaseResumes ==
  ASSUME NEW list \in Seq(Commands), NEW paused, NEW away, WillResume(list, paused, away)
  PROVE  WillResume(list \o <<"ReleaseAll">>, paused, away)
<1> DEFINE long == list \o <<"ReleaseAll">>
<1>1. /\ Len(list) \in Nat /\ Len(long) = Len(list) + 1 /\ long[Len(list) + 1] = "ReleaseAll"
      /\ \A i \in 1 .. Len(list) : long[i] = list[i]
  OBVIOUS
<1> HIDE DEF long
<1>2. SUFFICES ASSUME NEW i \in 0 .. Len(long), IsLastRendering(long, i),
                      IF i = 0 THEN paused ELSE long[i] = "SuspendRendering"
               PROVE  away
  BY DEF WillResume, long
<1>3. i \in 0 .. Len(list)
  BY <1>1, <1>2 DEF IsLastRendering, Rendering
<1>4. IsLastRendering(list, i)
  BY <1>1, <1>2, <1>3 DEF IsLastRendering
<1>5. IF i = 0 THEN paused ELSE list[i] = "SuspendRendering"
  BY <1>1, <1>2, <1>3
<1> QED BY <1>3, <1>4, <1>5 DEF WillResume

\* What suspend() sends decides, whatever was queued.
LEMMA SuspendResumes ==
  ASSUME NEW list \in Seq(Commands), NEW paused, NEW flag \in BOOLEAN
  PROVE  WillResume(list \o SuspendList(flag), paused, flag)
<1> DEFINE long == list \o SuspendList(flag)
<1>1. CASE flag
  BY <1>1 DEF WillResume
<1>2. CASE ~ flag
  <2>1. /\ Len(list) \in Nat /\ Len(long) = Len(list) + 1
        /\ long[Len(list) + 1] = "ResumeRendering"
    BY <1>2 DEF SuspendList
  <2> HIDE DEF long
  <2>2. ASSUME NEW i \in 0 .. Len(long), IsLastRendering(long, i)
        PROVE  i = Len(list) + 1
    BY <2>1, <2>2 DEF IsLastRendering, Rendering
  <2>3. \A i \in 0 .. Len(long) : IsLastRendering(long, i) =>
          ~ (IF i = 0 THEN paused ELSE long[i] = "SuspendRendering")
    BY <2>1, <2>2
  <2> QED BY <2>3 DEF WillResume, long
<1> QED BY <1>1, <1>2

\* Working off one command keeps what the others will come to.
LEMMA ReceiveResumes ==
  ASSUME NEW list \in Seq(Commands), list # <<>>, NEW paused \in BOOLEAN, NEW away,
         WillResume(list, paused, away)
  PROVE  WillResume(Tail(list), PausedAfter(Head(list), paused), away)
<1> DEFINE rest == Tail(list)
<1>1. /\ Len(list) \in Nat \ {0} /\ Len(rest) = Len(list) - 1 /\ Head(list) = list[1]
      /\ \A i \in 1 .. Len(list) - 1 : rest[i] = list[i + 1]
  OBVIOUS
<1> HIDE DEF rest
<1>2. SUFFICES ASSUME NEW i \in 0 .. Len(rest), IsLastRendering(rest, i),
                      IF i = 0 THEN PausedAfter(list[1], paused) ELSE rest[i] = "SuspendRendering"
               PROVE  away
  BY <1>1 DEF WillResume, rest
<1>later. \A j \in i + 2 .. Len(list) : list[j] \notin Rendering
  <2> SUFFICES ASSUME NEW j \in i + 2 .. Len(list)
               PROVE  list[j] \notin Rendering
    OBVIOUS
  <2>1. j - 1 \in i + 1 .. Len(rest) /\ j - 1 \in 1 .. Len(list) - 1 /\ (j - 1) + 1 = j
    BY <1>1
  <2>2. rest[j - 1] = list[j]
    BY <1>1, <2>1
  <2> QED BY <1>2, <2>1, <2>2 DEF IsLastRendering
<1>3. CASE i # 0
  <2>1. i + 1 \in 0 .. Len(list) /\ i + 1 # 0 /\ (i + 1) + 1 = i + 2 /\ i \in 1 .. Len(list) - 1
    BY <1>1, <1>3
  <2>2. list[i + 1] = "SuspendRendering"
    BY <1>1, <1>2, <1>3, <2>1
  <2>3. IsLastRendering(list, i + 1)
    BY <1>later, <2>1, <2>2 DEF IsLastRendering, Rendering
  <2> QED BY <2>1, <2>2, <2>3 DEF WillResume
<1>4. CASE i = 0 /\ list[1] \in Rendering
  <2>1. IsLastRendering(list, 1) /\ 1 \in 0 .. Len(list)
    BY <1>1, <1>4, <1>later DEF IsLastRendering
  <2>2. list[1] = "SuspendRendering"
    BY <1>2, <1>4 DEF PausedAfter, Rendering
  <2> QED BY <2>1, <2>2 DEF WillResume
<1>5. CASE i = 0 /\ list[1] \notin Rendering
  <2>1. \A j \in 1 .. Len(list) : j = 1 \/ j \in i + 2 .. Len(list)
    BY <1>1, <1>5
  <2>2. IsLastRendering(list, 0) /\ 0 \in 0 .. Len(list)
    BY <1>1, <1>5, <1>later, <2>1 DEF IsLastRendering
  <2>3. paused
    BY <1>2, <1>5 DEF PausedAfter, Rendering
  <2> QED BY <2>2, <2>3 DEF WillResume
<1> QED BY <1>3, <1>4, <1>5

\* The end of a thread stays last when a queue of events is split or shortened,
\* when something else is added to one without it, and when it is added itself.
LEMMA SplitReports ==
  ASSUME NEW list \in Seq(Events), LastReport(list), NEW n \in 0 .. Len(list)
  PROVE  LastReport(SubSeq(list, 1, n)) /\ LastReport(SubSeq(list, n + 1, Len(list)))
<1>1. /\ Len(SubSeq(list, 1, n)) = n
      /\ \A i \in 1 .. n : SubSeq(list, 1, n)[i] = list[i]
  OBVIOUS
<1>2. /\ Len(SubSeq(list, n + 1, Len(list))) = Len(list) - n
      /\ \A i \in 1 .. Len(list) - n : SubSeq(list, n + 1, Len(list))[i] = list[i + n]
  OBVIOUS
<1>3. LastReport(SubSeq(list, 1, n))
  BY <1>1 DEF LastReport
<1>4. LastReport(SubSeq(list, n + 1, Len(list)))
  BY <1>2 DEF LastReport
<1> QED BY <1>3, <1>4

LEMMA TailReports ==
  ASSUME NEW list \in Seq(Events), LastReport(list), list # <<>>
  PROVE  LastReport(Tail(list)) /\ (Head(list).type = "Disconnected" => Tail(list) = <<>>)
<1>1. /\ Len(list) \in Nat \ {0} /\ Len(Tail(list)) = Len(list) - 1 /\ Head(list) = list[1]
      /\ \A i \in 1 .. Len(list) - 1 : Tail(list)[i] = list[i + 1]
  OBVIOUS
<1>2. LastReport(Tail(list))
  BY <1>1 DEF LastReport
<1>3. Head(list).type = "Disconnected" => Len(list) = 1
  BY <1>1 DEF LastReport
<1> QED BY <1>1, <1>2, <1>3

LEMMA AddedReports ==
  ASSUME NEW list \in Seq(Events), \A i \in DOMAIN list : list[i].type # "Disconnected",
         NEW e \in Events
  PROVE  /\ LastReport(Append(list, e))
         /\ LastReport(list \o <<Disconnected>>)
         /\ LastReport(list \o <<>>)
BY EventsTyped DEF LastReport

-----------------------------------------------------------------------------
(* The screen through one step.                                            *)

\* A queue of events keeps its end last when a thread that runs adds to it.
LEMMA RunningReports ==
  ASSUME IInv, NEW g \in Sessions, Running(g)
  PROVE  \A i \in DOMAIN events[g] : events[g][i].type # "Disconnected"
BY DEF IInv, ReportInv, EndedInv, Running

\* Thread steps leave the controller and the screen alone, take no frame back
\* and send nothing.
LEMMA FramesGrow ==
  ASSUME IInv, NEW g \in Sessions, ThreadStep(g)
  PROVE  /\ UNCHANGED active
         /\ \A h \in Sessions : thread[h].frame <= thread'[h].frame
         /\ \A h \in Sessions : commands[h] = <<>> => commands'[h] = <<>>
         /\ \A h \in Sessions \ {g} : /\ thread'[h] = thread[h]
                                      /\ commands'[h] = commands[h]
                                      /\ events'[h] = events[h]
         /\ Running(g)
<1> USE DEF IInv, TypeOK, ControllerTypeOK, ThreadTypeOK
<1>frames. \A h \in Sessions : thread[h].frame \in Nat
  BY BoundsAssumption DEF Threads
<1>1. ASSUME NEW list, Return(g, list)
      PROVE  /\ UNCHANGED active
             /\ \A h \in Sessions : thread'[h].frame = thread[h].frame
             /\ \A h \in Sessions : commands[h] = <<>> => commands'[h] = <<>>
             /\ \A h \in Sessions \ {g} : /\ thread'[h] = thread[h]
                                          /\ commands'[h] = commands[h]
                                          /\ events'[h] = events[h]
  BY <1>1 DEF Return, Blank
<1>2. CASE RuntimeFails(g)
  <2>1. Running(g) /\ Return(g, <<>>)
    BY <1>2 DEF RuntimeFails, Running
  <2> QED BY <1>1, <1>frames, <2>1
<1>3. CASE ConfigFails(g) \/ Terminate(g)
  <2>1. Running(g) /\ Return(g, <<Disconnected>>)
    BY <1>3 DEF ConfigFails, Terminate, Running
  <2> QED BY <1>1, <1>frames, <2>1
<1>4. CASE Start(g)
  BY <1>4, <1>frames DEF Start, Running, Threads, channels
<1>5. ASSUME NEW f \in Fingerprints, Handshake(g, f)
      PROVE  /\ UNCHANGED <<active, commands>> /\ Running(g)
             /\ \A h \in Sessions : thread'[h].frame = thread[h].frame
             /\ \A h \in Sessions \ {g} : thread'[h] = thread[h] /\ events'[h] = events[h]
  BY <1>5 DEF Handshake, Running, Threads, Emit
<1>6. CASE Reconnect(g)
  BY <1>6, <1>frames DEF Reconnect, Running, Threads, Emit
<1>7. CASE Receive(g)
  <2>1. /\ Running(g) /\ UNCHANGED <<active, events>> /\ commands[g] # <<>>
        /\ \A h \in Sessions \ {g} : commands'[h] = commands[h] /\ thread'[h] = thread[h]
        /\ thread'[g].frame = thread[g].frame
    BY <1>7 DEF Receive, Running, Threads
  <2>2. \A h \in Sessions : thread'[h].frame = thread[h].frame
    BY <2>1
  <2>3. \A h \in Sessions : commands[h] = <<>> => commands'[h] = <<>>
    BY <2>1
  <2> QED BY <1>frames, <2>1, <2>2, <2>3
<1>8. CASE Publish(g)
  <2>1. thread'[g].frame = thread[g].frame + 1
    BY <1>8 DEF Publish, Threads
  <2> QED BY <1>8, <1>frames, <2>1 DEF Publish, Running, channels
<1> QED BY <1>2, <1>3, <1>4, <1>5, <1>6, <1>7, <1>8, <1>frames DEF ThreadStep

\* What a thread adds to its events keeps its end last.
LEMMA ThreadReports ==
  ASSUME IInv, NEW g \in Sessions, ThreadStep(g), LastReport(events[g])
  PROVE  LastReport(events'[g])
<1> USE DEF IInv, TypeOK, ControllerTypeOK
<1>1. Running(g)
  BY FramesGrow
<1>2. /\ \A e \in Events : LastReport(Append(events[g], e))
      /\ LastReport(events[g] \o <<Disconnected>>) /\ LastReport(events[g] \o <<>>)
  <2>1. events[g] \in Seq(Events) /\ \A i \in DOMAIN events[g] : events[g][i].type # "Disconnected"
    BY <1>1, RunningReports
  <2> QED BY <2>1, AddedReports, EventsTyped
<1>3. \A list : Return(g, list) => events'[g] \in {events[g], events[g] \o list}
  BY DEF Return
<1>4. \A e : events' = Emit(g, e) => events'[g] \in {events[g], Append(events[g], e)}
  BY DEF Emit
<1>5. CASE RuntimeFails(g)
  BY <1>2, <1>3, <1>5 DEF RuntimeFails
<1>6. CASE ConfigFails(g) \/ Terminate(g)
  BY <1>2, <1>3, <1>6 DEF ConfigFails, Terminate
<1>7. CASE Start(g) \/ Receive(g) \/ Publish(g)
  BY <1>7 DEF Start, Receive, Publish, channels
<1>8. ASSUME NEW f \in Fingerprints, Handshake(g, f)
      PROVE  LastReport(events'[g])
  <2>1. PICK e \in Events : events' = Emit(g, e)
    BY <1>8, EventsTyped DEF Handshake
  <2> QED BY <1>2, <1>4, <2>1
<1>9. CASE Reconnect(g)
  BY <1>2, <1>4, <1>9, EventsTyped DEF Reconnect
<1> QED BY <1>5, <1>6, <1>7, <1>8, <1>9 DEF ThreadStep

\* A thread pauses and goes on only by the commands it receives.
LEMMA ThreadResumes ==
  ASSUME IInv, NEW g \in Sessions, ThreadStep(g), NEW away,
         WillResume(commands[g], thread[g].paused, away), thread'[g].phase # "ended"
  PROVE  WillResume(commands'[g], thread'[g].paused, away)
<1> USE DEF IInv, TypeOK, ControllerTypeOK, ThreadTypeOK
<1>1. CASE RuntimeFails(g) \/ ConfigFails(g) \/ Terminate(g)
  BY <1>1 DEF RuntimeFails, ConfigFails, Terminate, Return, Blank
<1>2. CASE Start(g) \/ Publish(g) \/ Reconnect(g)
  <2>1. commands' = commands /\ thread'[g].paused = thread[g].paused
    BY <1>2 DEF Start, Publish, Reconnect, Threads, channels
  <2> QED BY <2>1
<1>3. ASSUME NEW f \in Fingerprints, Handshake(g, f)
      PROVE  commands' = commands /\ thread'[g].paused = thread[g].paused
  BY <1>3 DEF Handshake, Threads
<1>4. CASE Receive(g)
  <2>1. /\ commands[g] # <<>> /\ commands[g] \in Seq(Commands) /\ thread[g].paused \in BOOLEAN
        /\ commands'[g] = Tail(commands[g])
        /\ thread'[g].paused = PausedAfter(Head(commands[g]), thread[g].paused)
    BY <1>4 DEF Receive, Threads
  <2> QED BY <2>1, ReceiveResumes
<1> QED BY <1>1, <1>2, <1>3, <1>4 DEF ThreadStep

\* One step of a session thread keeps the screen.
LEMMA ThreadScreen ==
  ASSUME IInv, ScreenInv, NEW g \in Sessions, ThreadStep(g), UNCHANGED <<catalog, ui, tick>>
  PROVE  ScreenInv'
<1> USE DEF IInv, ScreenInv
<1>1. /\ UNCHANGED <<generation, handle, credentials, pendingFingerprint, suspended>>
      /\ UNCHANGED <<page, prompt, target, image, window, batch>>
      /\ \A h \in Sessions : thread[h].frame <= thread'[h].frame
      /\ \A h \in Sessions : commands[h] = <<>> => commands'[h] = <<>>
      /\ \A h \in Sessions \ {g} : /\ thread'[h] = thread[h]
                                   /\ commands'[h] = commands[h]
                                   /\ events'[h] = events[h]
      /\ Running(g)
  BY FramesGrow DEF active, ui, tick
<1>2. HeldInv'
  BY <1>1 DEF HeldInv
<1>3. LastReportInv'
  BY <1>1, ThreadReports DEF LastReportInv
<1>4. PromptIsPending'
  BY <1>1 DEF PromptIsPending
<1>5. ImageInv'
  <2> SUFFICES ASSUME window = "open", image # NoImage
               PROVE  /\ handle # NoSession /\ handle = image[1]
                      /\ image[2] <= thread'[handle].frame
    BY <1>1 DEF ImageInv
  <2>1. /\ handle # NoSession /\ handle = image[1] /\ image[2] <= thread[handle].frame
        /\ handle \in Sessions
    BY DEF ImageInv, TypeOK, ControllerTypeOK
  <2>2. image[2] \in Nat /\ thread[handle].frame \in Nat
    BY <2>1, BoundsAssumption DEF TypeOK, ThreadTypeOK, UiTypeOK, Threads
  <2>3. thread'[handle].frame \in Nat
    BY <2>1, BoundsAssumption, ThreadStepTyped DEF ThreadTypeOK, Threads
  <2> QED BY <1>1, <2>1, <2>2, <2>3
<1>6. DisplayInv'
  <2>1. CASE handle = g
    BY <1>1, <2>1, ThreadResumes DEF DisplayInv, Running
  <2>2. CASE handle # g
    BY <1>1, <2>2 DEF DisplayInv, Running, TypeOK, ControllerTypeOK
  <2> QED BY <2>1, <2>2
<1> QED BY <1>2, <1>3, <1>4, <1>5, <1>6

\* Dropping the receiver leaves no end before the last event.
LEMMA DropReports ==
  ASSUME IInv, LastReportInv
  PROVE  \A g \in Sessions : LastReport(DropReceiver[g])
<1> SUFFICES ASSUME NEW g \in Sessions
             PROVE  LastReport(DropReceiver[g])
  OBVIOUS
<1>1. DropReceiver[g] = <<>> \/ DropReceiver[g] = events[g]
  BY DEF DropReceiver, IInv, TypeOK, ControllerTypeOK
<1>2. LastReport(<<>>)
  BY DEF LastReport
<1> QED BY <1>1, <1>2 DEF LastReportInv

\* Sending to the held session: what it comes to decides.
LEMMA PostScreen ==
  ASSUME IInv, ScreenInv, NEW list \in Seq(Commands), commands' = Post(commands, list),
         UNCHANGED <<generation, handle, credentials, thread>>,
         handle # NoSession /\ Running(handle) =>
           WillResume(commands[handle] \o list, thread[handle].paused, suspended')
  PROVE  HeldInv' /\ DisplayInv'
<1> USE DEF IInv, ScreenInv, TypeOK, ControllerTypeOK
<1>1. \A g \in Sessions \ {handle} : commands'[g] = commands[g]
  BY GoodbyeTells
<1>2. HeldInv'
  <2> SUFFICES ASSUME NEW g \in Sessions, g > generation
               PROVE  commands'[g] = <<>>
    BY DEF HeldInv
  <2>1. g # handle
    BY ConstantsTyped DEF HandleInv, Generations, Sessions, NoSession
  <2> QED BY <1>1, <2>1 DEF HeldInv
<1>3. DisplayInv'
  <2> SUFFICES ASSUME handle # NoSession, Running(handle)
               PROVE  WillResume(commands'[handle], thread[handle].paused, suspended')
    BY DEF DisplayInv, Running
  <2>1. handle \in Sessions /\ handle \notin ended
    BY DEF EndedInv, Running
  <2>2. commands'[handle] = commands[handle] \o list
    BY <2>1 DEF Post
  <2> QED BY <2>2
<1> QED BY <1>2, <1>3

\* launch() leaves an empty screen before a session that has been sent nothing.
LEMMA LaunchScreen ==
  ASSUME IInv, ScreenInv, Idle, NEW d \in Devices, NEW e \in Endpoints,
         NEW fps \in [Endpoints -> Fingerprints \cup {NoFingerprint}], Launch(d, e, fps)
  PROVE  ScreenInv'
<1> DEFINE profile == [device |-> d, endpoint |-> e, expected |-> ExpectedFor(fps, e)]
           new == generation + 1
           released == Post(commands, <<"ReleaseAll">>)
<1> USE DEF IInv, ScreenInv
<1>1. /\ generation \in Nat /\ new \in Sessions /\ new # NoSession /\ new > generation
      /\ handle <= generation /\ handle \in Nat
  BY ConstantsTyped
     DEF HandleInv, TypeOK, ControllerTypeOK, Generations, Launch, Sessions, NoSession
<1>2. /\ generation' = new /\ handle' = new /\ credentials' = profile
      /\ commands' = Post(released, Goodbye) /\ events' = DropReceiver
      /\ thread' = [thread EXCEPT ![new] = Spawned(profile)]
      /\ prompt' = NoFingerprint /\ image' = NoImage /\ batch' = batch
  BY DEF Launch, Begin, NextGeneration, tick
<1>3. profile # NoCredentials
  <2>1. profile \in Profiles
    BY DEF Profiles, ExpectedFor
  <2> QED BY <2>1, NoCredentialsAssumption
<1>4. \A g \in Sessions \ {handle} : commands'[g] = commands[g]
  <2>1. released \in [Sessions -> Seq(Commands)] /\ commands \in [Sessions -> Seq(Commands)]
    BY PostTyped, ListsTyped DEF TypeOK, ControllerTypeOK
  <2>2. \A g \in Sessions \ {handle} : released[g] = commands[g]
    BY <2>1, GoodbyeTells
  <2> HIDE DEF released
  <2>3. \A g \in Sessions \ {handle} : Post(released, Goodbye)[g] = released[g]
    BY <2>1, GoodbyeTells
  <2> QED BY <1>2, <2>2, <2>3
<1>5. commands'[new] = <<>>
  BY <1>1, <1>4 DEF HeldInv
<1>6. HeldInv'
  <2>1. \A g \in Sessions : g > new => g > generation /\ g # handle
    BY <1>1 DEF Sessions
  <2> HIDE DEF profile, new, released
  <2>2. \A g \in Sessions : g > new => commands'[g] = <<>>
    BY <1>4, <2>1 DEF HeldInv
  <2> QED BY <1>2, <1>3, <2>2 DEF HeldInv
<1>7. LastReportInv'
  <2>1. batch = <<>>
    BY DEF Idle, TickInv
  <2> QED BY <1>2, <2>1, DropReports DEF LastReportInv
<1>8. PromptIsPending' /\ ImageInv'
  BY <1>2 DEF PromptIsPending, ImageInv
<1>9. DisplayInv'
  <2>1. ~ thread'[new].paused
    BY <1>1, <1>2 DEF Spawned, Blank, TypeOK, ThreadTypeOK
  <2>2. WillResume(<<>>, thread'[new].paused, suspended')
    BY <2>1 DEF WillResume
  <2> QED BY <1>2, <1>5, <2>2 DEF DisplayInv
<1> QED BY <1>6, <1>7, <1>8, <1>9

\* disconnect() leaves no session to show; the dialog and the picture go away
\* with it, or the window does.
LEMMA DisconnectScreen ==
  ASSUME IInv, ScreenInv, Idle, NEW cs \in [Sessions -> Seq(Commands)],
         \A g \in Sessions \ {handle} : cs[g] = commands[g],
         Disconnect(cs), batch' = batch,
         window' # "open" \/ (prompt' = NoFingerprint /\ image' = NoImage)
  PROVE  ScreenInv'
<1> USE DEF IInv, ScreenInv
<1>1. /\ generation' = generation + 1 /\ handle' = NoSession
      /\ commands' = Post(cs, Goodbye) /\ events' = DropReceiver
  BY DEF Disconnect, NextGeneration
<1>2. HeldInv'
  <2> SUFFICES ASSUME NEW g \in Sessions, g > generation + 1
               PROVE  commands'[g] = <<>>
    BY <1>1 DEF HeldInv
  <2>1. g > generation /\ g # handle
    BY ConstantsTyped
       DEF HandleInv, TypeOK, ControllerTypeOK, Generations, Sessions, NoSession
  <2>2. commands'[g] = cs[g]
    BY <1>1, <2>1, GoodbyeTells
  <2> QED BY <2>1, <2>2 DEF HeldInv
<1>3. LastReportInv'
  <2>1. batch = <<>>
    BY DEF Idle, TickInv
  <2> QED BY <1>1, <2>1, DropReports DEF LastReportInv
<1>4. PromptIsPending' /\ ImageInv' /\ DisplayInv'
  BY <1>1 DEF PromptIsPending, ImageInv, DisplayInv
<1> QED BY <1>2, <1>3, <1>4

\* One callback keeps the screen.
LEMMA UserScreen ==
  ASSUME IInv, ScreenInv, UserStep
  PROVE  ScreenInv'
<1>typed. /\ commands \in [Sessions -> Seq(Commands)]
          /\ trust \in [Endpoints -> Fingerprints \cup {NoFingerprint}]
          /\ devices \in [Devices -> Endpoints \cup {NoEndpoint}]
  BY DEF IInv, TypeOK, ControllerTypeOK, UiTypeOK
<1>quiet. ASSUME UNCHANGED <<active, channels, thread, tick, prompt, target, image, window>>,
                 page # "session"
          PROVE  ScreenInv'
  <2> USE DEF ScreenInv, active, channels, tick
  <2>1. HeldInv' /\ LastReportInv'
    BY <1>quiet DEF HeldInv, LastReportInv
  <2>2. PromptIsPending' /\ ImageInv' /\ DisplayInv'
    BY <1>quiet DEF PromptIsPending, ImageInv, DisplayInv, Running
  <2> QED BY <2>1, <2>2
<1>1. CASE EditDevice \/ LeaveEditor
  BY <1>1, <1>quiet DEF EditDevice, LeaveEditor
<1>2. ASSUME NEW d \in Devices, NEW e \in Endpoints, SaveDevice(d, e)
      PROVE  ScreenInv'
  BY <1>2, <1>quiet DEF SaveDevice
<1>3. ASSUME NEW d \in Devices, NEW e \in Endpoints, SaveAndConnect(d, e)
      PROVE  ScreenInv'
  <2>1. Idle /\ Launch(d, e, trust)
    BY <1>3 DEF SaveAndConnect
  <2> QED BY <1>typed, <2>1, LaunchScreen
<1>4. ASSUME NEW d \in Devices, ConnectDevice(d)
      PROVE  ScreenInv'
  <2>1. Idle /\ Launch(d, devices[d], trust) /\ devices[d] \in Endpoints
    BY <1>4, <1>typed DEF ConnectDevice
  <2> QED BY <1>typed, <2>1, LaunchScreen
<1>5. ASSUME NEW d \in Devices, DeleteDevice(d)
      PROVE  ScreenInv'
  BY <1>5, <1>quiet DEF DeleteDevice, ui
<1>6. CASE UserDisconnect \/ RejectCertificate
  <2>1. /\ Idle /\ Disconnect(Post(commands, <<"ReleaseAll">>)) /\ batch' = batch
        /\ prompt' = NoFingerprint /\ image' = NoImage
    BY <1>6 DEF UserDisconnect, RejectCertificate, Stop, tick
  <2>2. /\ Post(commands, <<"ReleaseAll">>) \in [Sessions -> Seq(Commands)]
        /\ \A g \in Sessions \ {handle} : Post(commands, <<"ReleaseAll">>)[g] = commands[g]
    BY <1>typed, PostTyped, ListsTyped, GoodbyeTells DEF IInv, TypeOK, ControllerTypeOK
  <2> QED BY <2>1, <2>2, DisconnectScreen
<1>7. CASE TrustCertificate
  <2> DEFINE d == credentials.device
  <2>1. /\ Idle /\ Launch(d, devices[d], trust') /\ devices[d] # NoEndpoint
        /\ trust' = [trust EXCEPT ![credentials.endpoint] = pendingFingerprint]
        /\ credentials # NoCredentials
    BY <1>7 DEF TrustCertificate
  <2>2. d \in Devices /\ pendingFingerprint \in Fingerprints \cup {NoFingerprint}
    BY <2>1 DEF IInv, TypeOK, ControllerTypeOK, Profiles
  <2>3. devices[d] \in Endpoints
    BY <1>typed, <2>1, <2>2
  <2>4. trust' \in [Endpoints -> Fingerprints \cup {NoFingerprint}]
    BY <1>typed, <2>1, <2>2
  <2> QED BY <2>1, <2>2, <2>3, <2>4, LaunchScreen
<1>8. CASE ReleaseInput
  <2>1. /\ commands' = Post(commands, <<"ReleaseAll">>)
        /\ UNCHANGED <<active, events, thread, ui, batch>>
    BY <1>8 DEF ReleaseInput, tick
  <2>2. handle # NoSession /\ Running(handle) =>
          WillResume(commands[handle] \o <<"ReleaseAll">>, thread[handle].paused, suspended')
    BY <1>typed, <2>1, ReleaseResumes
       DEF active, ScreenInv, DisplayInv, IInv, TypeOK, ControllerTypeOK
  <2>3. HeldInv' /\ DisplayInv'
    BY <2>1, <2>2, ListsTyped, PostScreen DEF active
  <2>4. LastReportInv' /\ PromptIsPending' /\ ImageInv'
    BY <2>1 DEF ScreenInv, LastReportInv, PromptIsPending, ImageInv, active, ui
  <2> QED BY <2>3, <2>4 DEF ScreenInv
<1>9. CASE Close
  <2>1. Idle /\ Disconnect(commands) /\ batch' = batch /\ window' # "open"
    BY <1>9 DEF Close, tick
  <2> QED BY <1>typed, <2>1, DisconnectScreen
<1>10. ASSUME NEW flag \in BOOLEAN, Lifecycle(flag)
       PROVE  ScreenInv'
  <2>1. /\ commands' = Post(commands, SuspendList(flag)) /\ suspended' = flag
        /\ UNCHANGED <<generation, handle, credentials, pendingFingerprint>>
        /\ UNCHANGED <<events, thread, ui, batch>>
    BY <1>10 DEF Lifecycle, Suspend, tick
  <2>2. handle # NoSession =>
          WillResume(commands[handle] \o SuspendList(flag), thread[handle].paused, suspended')
    BY <1>typed, <2>1, SuspendResumes DEF IInv, TypeOK, ControllerTypeOK
  <2>3. HeldInv' /\ DisplayInv'
    BY <2>1, <2>2, ListsTyped, PostScreen
  <2>4. LastReportInv' /\ PromptIsPending' /\ ImageInv'
    BY <2>1 DEF ScreenInv, LastReportInv, PromptIsPending, ImageInv, ui
  <2> QED BY <2>3, <2>4 DEF ScreenInv
<1> QED BY <1>1, <1>2, <1>3, <1>4, <1>5, <1>6, <1>7, <1>8, <1>9, <1>10 DEF UserStep

\* Draining the channel and drawing keep the screen.
LEMMA TickEndsScreen ==
  ASSUME IInv, ScreenInv, TickBegin \/ TickEnd
  PROVE  ScreenInv'
<1> USE DEF IInv, ScreenInv, TypeOK, ControllerTypeOK
<1>1. /\ UNCHANGED <<generation, handle, credentials, pendingFingerprint, suspended>>
      /\ UNCHANGED <<commands, thread, page, prompt, target, window>>
  BY DEF TickBegin, TickEnd, active, channels, catalog, ui
<1>2. HeldInv' /\ PromptIsPending' /\ DisplayInv'
  BY <1>1 DEF HeldInv, PromptIsPending, DisplayInv, Running
<1>3. CASE TickBegin
  <2>1. image' = image /\ batch = <<>>
    BY <1>3 DEF TickBegin, Idle, TickInv, ui
  <2>2. ImageInv'
    BY <1>1, <2>1 DEF ImageInv
  <2>3. CASE Waiting
    <3> DEFINE s == events[handle]
               n == IF Len(s) < BatchSize THEN Len(s) ELSE BatchSize
    <3>1. handle \in Sessions /\ s \in Seq(Events) /\ n \in 0 .. Len(s) /\ handle # NoSession
      BY <2>3, BatchAssumption DEF Waiting
    <3>2. /\ batch' = SubSeq(s, 1, n)
          /\ events' = [events EXCEPT ![handle] = SubSeq(s, n + 1, Len(s))]
      BY <1>3, <2>3 DEF TickBegin
    <3>3. LastReport(s)
      BY <3>1 DEF LastReportInv
    <3> HIDE DEF s, n
    <3>4. LastReport(SubSeq(s, 1, n)) /\ LastReport(SubSeq(s, n + 1, Len(s)))
      BY <3>1, <3>3, SplitReports
    <3>5. LastReportInv'
      BY <1>1, <3>1, <3>2, <3>4 DEF LastReportInv
    <3> QED BY <1>2, <2>2, <3>5
  <2>4. CASE ~ Waiting
    <3>1. batch' = batch /\ events' = events
      BY <1>3, <2>4 DEF TickBegin
    <3> QED BY <1>1, <1>2, <2>2, <3>1 DEF LastReportInv
  <2> QED BY <2>3, <2>4
<1>4. CASE TickEnd
  <2>1. batch' = batch /\ events' = events
    BY <1>4 DEF TickEnd, channels
  <2>2. LastReportInv'
    BY <1>1, <2>1 DEF LastReportInv
  <2>3. ImageInv'
    <3>1. CASE FrameToDraw
      <4>1. image' = <<generation, thread[handle].frame>> /\ handle # NoSession
        BY <1>4, <3>1 DEF TickEnd, FrameToDraw
      <4>2. handle = generation /\ thread[handle].frame \in Nat
        BY <4>1, BoundsAssumption DEF HeldInv, ThreadTypeOK, Threads
      <4> QED BY <1>1, <4>1, <4>2 DEF ImageInv
    <3>2. CASE ~ FrameToDraw
      <4>1. image' = image
        BY <1>4, <3>2 DEF TickEnd
      <4> QED BY <1>1, <4>1 DEF ImageInv
    <3> QED BY <3>1, <3>2
  <2> QED BY <1>2, <2>2, <2>3
<1> QED BY <1>3, <1>4

\* One step of the tick keeps the screen.
LEMMA TickScreen ==
  ASSUME IInv, ScreenInv, TickStep
  PROVE  ScreenInv'
<1> USE DEF IInv, ScreenInv
<1>typed. /\ batch \in Seq(Events) /\ handle \in Sessions \cup {NoSession}
          /\ commands \in [Sessions -> Seq(Commands)]
  BY DEF TypeOK, ControllerTypeOK, UiTypeOK
<1>head. ASSUME NEW type, Handling(type)
         PROVE  /\ batch # <<>> /\ page = "session" /\ handle # NoSession
                /\ credentials # NoCredentials
                /\ batch' = Tail(batch) /\ LastReport(batch') /\ Head(batch).type = type
                /\ (type = "Disconnected" => batch' = <<>>)
                /\ UNCHANGED <<thread, page, window>>
  <2>1. /\ batch # <<>> /\ ticking /\ batch' = Tail(batch) /\ Head(batch).type = type
        /\ UNCHANGED <<thread, page, window>>
    BY <1>head DEF Handling
  <2>2. page = "session" /\ handle # NoSession /\ credentials # NoCredentials
    BY <2>1 DEF TickInv, LastReportInv, HeldInv
  <2>3. LastReport(batch)
    BY DEF LastReportInv
  <2>4. LastReport(Tail(batch)) /\ (Head(batch).type = "Disconnected" => Tail(batch) = <<>>)
    BY <1>typed, <2>1, <2>3, TailReports
  <2> QED BY <2>1, <2>2, <2>4
<1>report. ASSUME NEW type, Handling(type), handle' = handle, events' = events
           PROVE  LastReportInv'
  BY <1>head, <1>report DEF LastReportInv
<1>1. CASE TickBegin \/ TickEnd
  BY <1>1, TickEndsScreen
<1>2. CASE OnCertificateTrustRequired
  <2>1. /\ Handling("CertificateTrustRequired")
        /\ pendingFingerprint' = prompt' /\ target' = credentials.endpoint
        /\ UNCHANGED <<generation, handle, credentials, suspended, commands, events, image>>
    BY <1>2, <1>head DEF OnCertificateTrustRequired, channels
  <2>2. HeldInv' /\ DisplayInv' /\ ImageInv'
    BY <1>head, <2>1 DEF HeldInv, DisplayInv, ImageInv, Running
  <2>3. PromptIsPending'
    BY <1>head, <2>1 DEF PromptIsPending
  <2> QED BY <1>report, <2>1, <2>2, <2>3
<1>3. CASE OnConnected
  <2>1. /\ Handling("Connected") /\ prompt' = NoFingerprint
        /\ UNCHANGED <<generation, handle, credentials, suspended, commands, events, image>>
    BY <1>3 DEF OnConnected, channels
  <2>2. HeldInv' /\ DisplayInv' /\ ImageInv' /\ PromptIsPending'
    BY <1>head, <2>1 DEF HeldInv, DisplayInv, ImageInv, PromptIsPending, Running
  <2> QED BY <1>report, <2>1, <2>2
<1>4. CASE OnReconnecting
  <2>1. /\ Handling("Reconnecting") /\ commands' = Post(commands, <<"ReleaseAll">>)
        /\ UNCHANGED <<generation, handle, credentials, pendingFingerprint, suspended>>
        /\ UNCHANGED <<events, prompt, target, image>>
    BY <1>4 DEF OnReconnecting
  <2>2. UNCHANGED <<thread, page, window>>
    BY <1>head, <2>1
  <2>3. handle # NoSession /\ Running(handle) =>
          WillResume(commands[handle] \o <<"ReleaseAll">>, thread[handle].paused, suspended')
    BY <1>typed, <2>1, ReleaseResumes DEF DisplayInv
  <2>4. HeldInv' /\ DisplayInv'
    BY <2>1, <2>2, <2>3, ListsTyped, PostScreen
  <2>5. PromptIsPending' /\ ImageInv'
    BY <2>1, <2>2 DEF PromptIsPending, ImageInv
  <2> QED BY <1>report, <2>1, <2>4, <2>5
<1>5. CASE OnDisconnected
  <2>1. /\ Handling("Disconnected") /\ handle' = NoSession /\ events' = DropReceiver
        /\ credentials' = IF pendingFingerprint = NoFingerprint THEN NoCredentials ELSE credentials
        /\ UNCHANGED <<generation, pendingFingerprint, commands, prompt, target>>
        /\ image' = NoImage
    BY <1>5 DEF OnDisconnected, Finish, HandleAfterFinish, CredentialsAfterFinish, ImageAfterEnd
  <2>2. HeldInv' /\ DisplayInv' /\ ImageInv'
    BY <2>1 DEF HeldInv, DisplayInv, ImageInv
  <2>3. PromptIsPending'
    BY <1>head, <2>1 DEF PromptIsPending
  <2>4. LastReportInv'
    <3>1. batch' = <<>> /\ LastReport(<<>>)
      BY <1>head, <2>1 DEF LastReport
    <3> QED BY <2>1, <3>1, DropReports DEF LastReportInv
  <2> QED BY <2>2, <2>3, <2>4
<1> QED BY <1>1, <1>2, <1>3, <1>4, <1>5 DEF TickStep

-----------------------------------------------------------------------------
(* The theorems about the screen.                                          *)

\* Every step of the client keeps the screen.
LEMMA StepScreen ==
  ASSUME IInv, ScreenInv, [Next]_vars
  PROVE  ScreenInv'
<1>1. ASSUME NEW g \in Sessions, ThreadStep(g) /\ UNCHANGED <<catalog, ui, tick>>
      PROVE  ScreenInv'
  BY <1>1, ThreadScreen
<1>2. CASE UNCHANGED vars
  <2>1. /\ UNCHANGED <<generation, handle, credentials, pendingFingerprint, suspended>>
        /\ UNCHANGED <<commands, events, thread, page, prompt, target, image, window, batch>>
    BY <1>2 DEF vars, active, channels, ui, tick
  <2>2. HeldInv' /\ LastReportInv' /\ PromptIsPending' /\ ImageInv'
    BY <2>1 DEF ScreenInv, HeldInv, LastReportInv, PromptIsPending, ImageInv
  <2>3. DisplayInv'
    BY <2>1 DEF ScreenInv, DisplayInv, Running
  <2> QED BY <2>2, <2>3 DEF ScreenInv
<1> QED BY <1>1, <1>2, UserScreen, TickScreen DEF Next, SessionStep, Terminated

\* The client starts with an empty screen.
LEMMA InitScreen == Init => ScreenInv
BY DEF Init, ControllerInit, ThreadInit, ScreenInv, HeldInv, LastReportInv, LastReport,
       PromptIsPending, ImageInv, DisplayInv

\* Queues, dialog, picture and display agree with the controller and the threads
\* in every state the client reaches.
THEOREM ScreenInvariance == Spec => []ScreenInv
<1>1. Init => ScreenInv
  BY InitScreen
<1>2. IInv /\ ScreenInv /\ [Next]_vars => ScreenInv'
  BY StepScreen
<1> QED BY <1>1, <1>2, Invariance, PTL DEF Spec

\* The dialog names the endpoint and the fingerprint a click on trust stores.
THEOREM PromptIsPendingAlways == Spec => []PromptIsPending
<1>1. ScreenInv => PromptIsPending
  BY DEF ScreenInv
<1> QED BY <1>1, ScreenInvariance, PTL

\* The picture on screen is one the session that is held has published.
THEOREM ImageIsCurrentAlways == Spec => []ImageIsCurrent
<1>1. ScreenInv => ImageIsCurrent
  BY DEF ScreenInv, ImageInv, ImageIsCurrent
<1> QED BY <1>1, ScreenInvariance, PTL

\* A session that has worked off its commands is paused only in the background.
THEOREM DisplayResumesAlways == Spec => []DisplayResumes
<1>1. ScreenInv => DisplayResumes
  <2> SUFFICES ASSUME ScreenInv, handle # NoSession, Running(handle), commands[handle] = <<>>,
                      thread[handle].paused
               PROVE  suspended
    BY DEF DisplayResumes
  <2>1. WillResume(<<>>, thread[handle].paused, suspended)
    BY DEF ScreenInv, DisplayInv
  <2>2. IsLastRendering(<<>>, 0) /\ 0 \in 0 .. Len(<<>>)
    BY DEF IsLastRendering
  <2> QED BY <2>1, <2>2 DEF WillResume
<1> QED BY <1>1, ScreenInvariance, PTL

\* A record of trust changes only for what the dialog shows, or because the last
\* device of its endpoint goes.
LEMMA StepTrusts ==
  ASSUME IInv, PromptIsPending, Next, NEW e \in Endpoints, trust'[e] # trust[e]
  PROVE  \/ prompt # NoFingerprint /\ e = target /\ trust'[e] = prompt
         \/ trust'[e] = NoFingerprint /\ \A d \in Devices : devices'[d] # e
<1> USE DEF IInv, TypeOK, UiTypeOK
<1>1. CASE TrustCertificate
  <2>1. /\ window = "open" /\ prompt # NoFingerprint
        /\ trust' = [trust EXCEPT ![credentials.endpoint] = pendingFingerprint]
    BY <1>1 DEF TrustCertificate, Idle
  <2>2. pendingFingerprint = prompt /\ target = credentials.endpoint
    BY <2>1 DEF PromptIsPending
  <2> QED BY <2>1, <2>2
<1>2. ASSUME NEW d \in Devices, DeleteDevice(d)
      PROVE  trust'[e] = NoFingerprint /\ \A other \in Devices : devices'[other] # e
  <2>1. /\ trust' = TrustAfterDelete(d) /\ devices' = [devices EXCEPT ![d] = NoEndpoint]
    BY <1>2 DEF DeleteDevice
  <2>2. /\ \A other \in Devices \ {d} : devices[other] # devices[d]
        /\ e = devices[d] /\ trust'[e] = NoFingerprint
    BY <2>1 DEF TrustAfterDelete
  <2> QED BY <2>1, <2>2, NoneAssumption
<1>3. CASE \/ EditDevice \/ LeaveEditor \/ UserDisconnect \/ RejectCertificate
           \/ ReleaseInput \/ Close \/ (\E flag \in BOOLEAN : Lifecycle(flag))
           \/ (\E d \in Devices, f \in Endpoints : SaveDevice(d, f) \/ SaveAndConnect(d, f))
           \/ (\E d \in Devices : ConnectDevice(d))
  BY <1>3 DEF EditDevice, LeaveEditor, UserDisconnect, RejectCertificate, Stop, ReleaseInput,
              Close, Lifecycle, SaveDevice, SaveAndConnect, ConnectDevice, catalog
<1>4. CASE TickStep \/ SessionStep \/ Terminated
  BY <1>4 DEF TickStep, TickBegin, OnCertificateTrustRequired, OnConnected, OnReconnecting,
              OnDisconnected, Handling, TickEnd, SessionStep, Terminated, vars, catalog
<1> QED BY <1>1, <1>2, <1>3, <1>4 DEF Next, UserStep

\* Trust is stored only for the endpoint and the fingerprint on screen, and
\* removed only with the last device that uses the endpoint.
THEOREM TrustChangesAlways == Spec => TrustChanges
<1> DEFINE Step == \A e \in Endpoints : trust'[e] # trust[e] =>
                     \/ prompt # NoFingerprint /\ e = target /\ trust'[e] = prompt
                     \/ trust'[e] = NoFingerprint /\ \A d \in Devices : devices'[d] # e
<1>1. IInv /\ PromptIsPending /\ [Next]_vars => [Step]_vars
  BY StepTrusts
<1> QED BY <1>1, Invariance, PromptIsPendingAlways, PTL DEF Spec, TrustChanges

=============================================================================
