----------------------------- MODULE Clipboard ------------------------------
(***************************************************************************)
(* Text on its way between the clipboard field of the client and the       *)
(* clipboards of the remote computers.  Each session has its own channels, *)
(* shared text and clipboard backend; there is one field for all of them.  *)
(* The loop of a session and its RDP client are futures of one thread, so  *)
(* a command or a callback is one step, but text passes through three      *)
(* queues, and a session that was replaced runs on for a while.            *)
(*                                                                         *)
(* RDP client and remote computer are external: what send_clipboard gives  *)
(* to the client is understood at the other end, or lost without a         *)
(* connection; they answer what they are asked, and forget it when the     *)
(* connection drops.  A suspension only delays the tick.                   *)
(***************************************************************************)
EXTENDS Naturals, Sequences, FiniteSets

CONSTANTS
  MaxSessions,   \* bound on the sessions launched
  MaxTexts,      \* bound on the texts the user enters
  MaxCopies,     \* bound on the copies made on one remote computer
  MaxSends,      \* bound on the texts sent to one session
  MaxRequests,   \* bound on the requests made to one session
  MaxQueue       \* bound on each queue of a session

ASSUME BoundsAssumption ==
  {MaxSessions, MaxTexts, MaxCopies, MaxSends, MaxRequests, MaxQueue} \subseteq Nat

Sessions == 1 .. MaxSessions
NoSession == 0

\* A text, by who wrote it and when: the user (owner 0), who may also have read
\* it from the system clipboard, or the remote computer of a session.
Text(owner, n) == [owner |-> owner, number |-> n]
Empty == Text(0, 0)
Texts == {Text(0, n) : n \in 0 .. MaxTexts}
         \cup {Text(g, n) : g \in Sessions, n \in 1 .. MaxCopies}

\* SetLocalClipboard(text) and RequestRemoteClipboard.
SetLocal(text) == [type |-> "SetLocalClipboard", text |-> text]
Request == [type |-> "RequestRemoteClipboard"]
Commands == {SetLocal(t) : t \in Texts} \cup {Request}

\* ClipboardMessage: SendInitiateCopy, here with the number of texts that had
\* been sent by then, SendInitiatePaste, and SendFormatData, here with what the
\* remote computer had been told of when it asked.
Copy(n) == [type |-> "Copy", sends |-> n]
Paste == [type |-> "Paste"]
Data(text, asked) == [type |-> "Data", text |-> text, asked |-> asked]
Messages == {Copy(n) : n \in 0 .. MaxSends} \cup {Paste}
            \cup {Data(t, n) : t \in Texts, n \in 0 .. MaxSends}

\* SessionEvent
Plain(type) == [type |-> type]
ClipboardText(text) == [type |-> "ClipboardText", text |-> text]
Events == {ClipboardText(t) : t \in Texts}
          \cup {Plain(type) : type \in {"Connected", "Reconnecting", "Disconnected"}}

\* What a remote computer knows: how many sends it was told of (Unheard: it was
\* not told of a text at all), and how many requests of the client it has to
\* answer.
Unheard == MaxSends + 1
Servers == [told : 0 .. Unheard, wanted : 0 .. MaxRequests]
FreshServer == [told |-> Unheard, wanted |-> 0]

SessionRecords ==
  [link : {"none", "down", "up", "ended"}, shared : Texts,
   commands : Seq(Commands), events : Seq(Events), messages : Seq(Messages),
   server : Servers, copies : 0 .. MaxCopies,
   requests : 0 .. MaxRequests, fetched : 0 .. MaxRequests]

VARIABLES
  handle,      \* the session the controller holds, or NoSession
  launched,    \* sessions launched so far
  connected,   \* Active.connected
  page,        \* whether the session page, which has the field, is shown
  field,       \* ui.clipboard
  entered,     \* texts the user entered so far
  session,     \* per session, its thread, its queues and its remote computer
  sent         \* history: per session, the texts the user sent

ui == <<handle, launched, connected, page, field, entered>>
vars == <<ui, session, sent>>

TypeOK ==
  /\ handle \in Sessions \cup {NoSession} /\ launched \in 0 .. MaxSessions
  /\ connected \in BOOLEAN /\ (connected => handle # NoSession)
  /\ page \in BOOLEAN /\ field \in Texts /\ entered \in 0 .. MaxTexts
  /\ session \in [Sessions -> SessionRecords]
  /\ sent \in [Sessions -> Seq(Texts)]

Unborn ==
  [link |-> "none",         \* none, down (connecting or reconnecting), up, ended
   shared |-> Empty,        \* clipboard_text
   commands |-> <<>>,       \* the command channel
   events |-> <<>>,         \* the event channel
   messages |-> <<>>,       \* clipboard_messages, from the backend to the loop
   server |-> FreshServer,
   copies |-> 0,            \* copies made on the remote computer
   requests |-> 0,          \* history: requests of the user
   fetched |-> 0]           \* history: texts received

Init ==
  /\ handle = NoSession /\ launched = 0 /\ connected = FALSE
  /\ page = FALSE /\ field = Empty /\ entered = 0
  /\ session = [g \in Sessions |-> Unborn]
  /\ sent = [g \in Sessions |-> <<>>]

-----------------------------------------------------------------------------
(* The user interface.                                                     *)

\* The session that is held loses the receiver of its events.
Released == [g \in Sessions |-> IF g = handle THEN [session[g] EXCEPT !.events = <<>>]
                                ELSE session[g]]

MutantTextAtStart(g) == IF g > 1 THEN session[g - 1].shared ELSE Empty

\* run_session starts with a text of its own.
TextAtStart(g) == Empty

MutantFieldAtLaunch == field

\* launch() clears the field.
FieldAtLaunch == Empty

Launch ==
  LET g == launched + 1 IN
  /\ launched < MaxSessions
  /\ launched' = g /\ handle' = g /\ connected' = FALSE
  /\ page' = TRUE /\ field' = FieldAtLaunch
  /\ session' = [Released EXCEPT ![g] = [Unborn EXCEPT !.link = "down", !.shared = TextAtStart(g)]]
  /\ UNCHANGED <<entered, sent>>

Stop ==
  /\ page
  /\ handle' = NoSession /\ connected' = FALSE
  /\ page' = FALSE /\ field' = Empty
  /\ session' = Released
  /\ UNCHANGED <<launched, entered, sent>>

\* The user types into the field, or reads the system clipboard into it.
Edit ==
  /\ page /\ entered < MaxTexts
  /\ entered' = entered + 1
  /\ field' = Text(0, entered + 1)
  /\ UNCHANGED <<handle, launched, connected, page, session, sent>>

\* Controller.send: refused unless connected; in vain if the thread has ended.
Send(command) ==
  /\ connected
  /\ Len(session[handle].commands) < MaxQueue
  /\ session' = [session EXCEPT ![handle].commands =
                   IF session[handle].link = "ended" THEN @ ELSE Append(@, command),
                 ![handle].requests = IF command.type = Request.type THEN @ + 1 ELSE @]
  /\ UNCHANGED ui

SendClipboard ==
  /\ connected /\ Len(sent[handle]) < MaxSends
  /\ Send(SetLocal(field))
  /\ sent' = [sent EXCEPT ![handle] = Append(@, field)]

RequestClipboard ==
  /\ connected /\ session[handle].requests < MaxRequests
  /\ Send(Request)
  /\ UNCHANGED sent

MutantConnectedAfter(event) ==
  event.type = "Connected" \/ (connected /\ event.type # "Reconnecting")

ConnectedAfter(event) ==
  CASE event.type = "Connected" -> TRUE
    [] event.type \in {"Reconnecting", "Disconnected"} -> FALSE
    [] OTHER -> connected

\* One event of the tick.
Tick ==
  /\ handle # NoSession /\ session[handle].events # <<>>
  /\ LET event == Head(session[handle].events) IN
     /\ field' = IF event.type = "ClipboardText" THEN event.text ELSE field
     /\ connected' = ConnectedAfter(event)
     /\ handle' = IF event.type = "Disconnected" THEN NoSession ELSE handle
     /\ session' = [session EXCEPT ![handle].events = Tail(@)]
  /\ UNCHANGED <<launched, page, entered, sent>>

-----------------------------------------------------------------------------
(* The loop of a session.                                                  *)

Emitted(g, list) == IF handle = g THEN session[g].events \o list ELSE session[g].events
CanEmit(g) == Len(session[g].events) < MaxQueue

\* SetLocalClipboard stores the text before it announces it.
SharedAfter(g, command) ==
  IF command.type = Request.type THEN session[g].shared ELSE command.text

\* How many commands of a type stand after the i-th in a queue.
Queued(queue, type, i) == Cardinality({j \in i + 1 .. Len(queue) : queue[j].type = type})

\* The number of sends the loop has worked off: all but those still queued.
Seen(commands, texts) == Len(texts) - Queued(commands, "SetLocalClipboard", 0)
SendsSeen(g) == Seen(session[g].commands, sent[g])

\* send_clipboard: the remote computer is told of a text, or asked for its own.
ServerAfter(g, message) ==
  LET server == session[g].server IN
  IF session[g].link # "up" THEN server
  ELSE CASE message.type = "Copy" -> [server EXCEPT !.told = message.sends]
         [] message.type = "Paste" -> [server EXCEPT !.wanted = @ + 1]
         [] message.type = "Data" -> server

\* dispatch_command
RecvCommand(g) ==
  LET command == Head(session[g].commands)
      message == IF command.type = Request.type THEN Paste ELSE Copy(SendsSeen(g) + 1) IN
  /\ session[g].link \in {"down", "up"} /\ session[g].commands # <<>>
  /\ session' = [session EXCEPT ![g].commands = Tail(@),
                                ![g].shared = SharedAfter(g, command),
                                ![g].server = ServerAfter(g, message)]
  /\ UNCHANGED <<ui, sent>>

\* The select branch that forwards a message of the clipboard backend.
RecvClipboard(g) ==
  /\ session[g].link \in {"down", "up"} /\ session[g].messages # <<>>
  /\ session' = [session EXCEPT ![g].messages = Tail(@),
                                ![g].server = ServerAfter(g, Head(session[g].messages))]
  /\ UNCHANGED <<ui, sent>>

\* The client has returned: the text is cleared and the channels are gone.
Return(g) ==
  /\ session[g].link \in {"down", "up"} /\ CanEmit(g)
  /\ session' = [session EXCEPT ![g] =
       [@ EXCEPT !.link = "ended", !.shared = Empty, !.commands = <<>>, !.messages = <<>>,
                 !.server = FreshServer,
                 !.events = Emitted(g, <<Plain("Disconnected")>>)]]
  /\ UNCHANGED <<ui, sent>>

-----------------------------------------------------------------------------
(* The clipboard backend: callbacks of the RDP client.                     *)

CanQueue(g) == session[g].link = "up" /\ Len(session[g].messages) < MaxQueue

\* The remote computer is ready for a list of formats.
OnRequestFormatList(g) ==
  /\ CanQueue(g) /\ session[g].server.told = Unheard
  /\ session' = [session EXCEPT ![g].messages = Append(@, Copy(SendsSeen(g)))]
  /\ UNCHANGED <<ui, sent>>

\* Somebody pastes on the remote computer, which asks for the text, and gets
\* the text of this moment.
OnFormatDataRequest(g) ==
  LET s == session[g] IN
  /\ CanQueue(g) /\ s.server.told # Unheard
  /\ session' = [session EXCEPT ![g].messages = Append(@, Data(s.shared, s.server.told))]
  /\ UNCHANGED <<ui, sent>>

MutantMessagesAfterRemoteCopy(g) == Append(session[g].messages, Paste)

\* on_remote_copy does nothing: a text is fetched when the user asks for it.
MessagesAfterRemoteCopy(g) == session[g].messages

OnRemoteCopy(g) ==
  /\ CanQueue(g) /\ session[g].copies < MaxCopies
  /\ session' = [session EXCEPT ![g].copies = @ + 1,
                                ![g].messages = MessagesAfterRemoteCopy(g)]
  /\ UNCHANGED <<ui, sent>>

\* The text of the remote computer arrives, if there is one.
OnFormatDataResponse(g) ==
  LET s == session[g] IN
  /\ s.link = "up" /\ s.server.wanted > 0 /\ CanEmit(g)
  /\ session' = [session EXCEPT ![g].server.wanted = @ - 1,
       ![g].events = IF s.copies = 0 THEN @ ELSE Emitted(g, <<ClipboardText(Text(g, s.copies))>>),
       ![g].fetched = IF s.copies = 0 THEN @ ELSE @ + 1]
  /\ UNCHANGED <<ui, sent>>

-----------------------------------------------------------------------------
(* The RDP client and the remote computer.                                 *)

ConnectionUp(g) ==
  /\ session[g].link = "down" /\ CanEmit(g)
  /\ session' = [session EXCEPT ![g].link = "up",
                                ![g].events = Emitted(g, <<Plain("Connected")>>)]
  /\ UNCHANGED <<ui, sent>>

\* What was on the wire is lost; the queues outlive the connection.
ConnectionDown(g) ==
  /\ session[g].link = "up" /\ CanEmit(g)
  /\ session' = [session EXCEPT ![g].link = "down", ![g].server = FreshServer,
                                ![g].events = Emitted(g, <<Plain("Reconnecting")>>)]
  /\ UNCHANGED <<ui, sent>>

-----------------------------------------------------------------------------
SessionStep(g) ==
  \/ RecvCommand(g) \/ RecvClipboard(g) \/ Return(g)
  \/ OnRequestFormatList(g) \/ OnFormatDataRequest(g)
  \/ OnRemoteCopy(g) \/ OnFormatDataResponse(g)
  \/ ConnectionUp(g) \/ ConnectionDown(g)

Next ==
  \/ Launch \/ Stop \/ Edit \/ SendClipboard \/ RequestClipboard \/ Tick
  \/ \E g \in Sessions : SessionStep(g)

Spec == Init /\ [][Next]_vars

-----------------------------------------------------------------------------
\* Every answer on its way to a remote computer is a text the user sent to that very
\* session, not older than what that computer had been told of when it asked, or
\* nothing as long as it had been told of nothing: no text of another session and
\* no stale text is pasted, whatever queues and reconnects did meanwhile.
IsFresh(answer, texts) ==
  \/ answer.asked = 0 /\ answer.text = Empty
  \/ \E i \in 1 .. Len(texts) : i >= answer.asked /\ texts[i] = answer.text

FreshAnswer ==
  \A g \in Sessions : \A i \in 1 .. Len(session[g].messages) :
    session[g].messages[i].type = "Data" => IsFresh(session[g].messages[i], sent[g])

\* While a session is held, the field holds the user's own text or one of its
\* remote computer; an answer to a request made in an earlier session never
\* appears in it.
FieldFromHere ==
  handle # NoSession => field.owner \in {0, handle}

\* A remote text is received only for a request of the user in that session, one
\* text for one request: the clipboard is never read behind the user's back.
OnlyRequested ==
  \A g \in Sessions : session[g].fetched <= session[g].requests

=============================================================================
