------------------------------ MODULE Backend -------------------------------
(***************************************************************************)
(* One session thread from the inside: the select loop of run_session, the *)
(* dispatch of commands, the mapping of outputs, and the RDP client it     *)
(* drives.  Loop and client are futures of one thread; the client advances *)
(* whenever the loop is back at its select, so their steps interleave.     *)
(*                                                                         *)
(* The client (an external library) is modelled from how the loop uses it: *)
(* a bounded input queue that try_reserve may find full, a bounded output  *)
(* queue it waits for, a request to close it honours in its own time, and  *)
(* a final output, Terminated or ConnectionFailure, sent right before it   *)
(* returns.  Because of that last one recv() never sees the output channel *)
(* closed, and the branch for it is left out.                              *)
(***************************************************************************)
EXTENDS Naturals, Sequences

CONSTANTS
  Keys,             \* keys and buttons
  InputCapacity,    \* of the client's input queue
  OutputCapacity,   \* OUTPUT_QUEUE_CAPACITY (4)
  MaxImages,        \* bound on the images decoded
  Refused,          \* those that are no frame: too large (module Frames)
  MaxCommands       \* bound on the commands sent and not received

ASSUME CapacityAssumption == InputCapacity \in Nat \ {0} /\ OutputCapacity \in Nat \ {0}
ASSUME ImagesAssumption == MaxImages \in Nat /\ Refused \subseteq 1 .. MaxImages

\* SessionCommand: a key or button, and the four commands without a payload.
\* Resize and the clipboard commands change nothing kept here.
KeyCommands == [type : {"KeyDown", "KeyUp"}, key : Keys]
Plain(type) == [type |-> type]
PlainCommands == {Plain(t) : t \in {"ReleaseAll", "Disconnect", "SuspendRendering", "ResumeRendering"}}

\* What permit.send() puts in the input queue: the releases of release_all(), or
\* one press or release.
InputEvents == KeyCommands \cup {Plain("ReleaseAll")}

\* RdpOutputEvent; images are numbered in the order they are decoded.
Image(n) == [type |-> "Image", number |-> n]
Outputs == {Image(n) : n \in 1 .. MaxImages}
           \cup {Plain("AutoReconnecting")} \cup {Plain("Final")}

VARIABLES
  commands,         \* the command channel
  held,             \* the controller still holds its halves of the handle
  output,           \* the client's output queue
  input,            \* the client's input queue
  closing,          \* request_close() was called
  client,           \* running, asking (for AutoReconnectDecision), final, returned
  remote,           \* keys down on the remote computer
  decoded,          \* images decoded so far
  clipboard,        \* a message of the clipboard backend waits to be forwarded
  database,         \* input_database: keys down
  suspended,        \* rendering_suspended
  retained,         \* suspended_frame: the number of the image, or 0
  slot,             \* the frame slot: the number of the image, or 0
  commandClosed,    \* command_closed
  told,             \* user_disconnect_requested
  reason            \* none while the loop runs; then why it ended

external == <<input, client, remote, decoded>>
vars == <<commands, held, output, external, closing, clipboard, database, suspended,
          retained, slot, commandClosed, told, reason>>

TypeOK ==
  /\ commands \in Seq(KeyCommands \cup PlainCommands)
  /\ held \in BOOLEAN
  /\ output \in Seq(Outputs) /\ Len(output) <= OutputCapacity
  /\ input \in Seq(InputEvents) /\ Len(input) <= InputCapacity
  /\ closing \in BOOLEAN
  /\ client \in {"running", "asking", "final", "returned"}
  /\ remote \subseteq Keys /\ database \subseteq Keys
  /\ decoded \in 0 .. MaxImages
  /\ clipboard \in BOOLEAN /\ suspended \in BOOLEAN
  /\ retained \in 0 .. MaxImages /\ slot \in 0 .. MaxImages
  /\ commandClosed \in BOOLEAN /\ told \in BOOLEAN
  /\ reason \in {"none", "final output", "clipboard closed"}

Init ==
  /\ commands = <<>> /\ held = TRUE
  /\ output = <<>> /\ input = <<>> /\ closing = FALSE /\ client = "running"
  /\ remote = {} /\ database = {}
  /\ decoded = 0 /\ clipboard = FALSE
  /\ suspended = FALSE /\ retained = 0 /\ slot = 0
  /\ commandClosed = FALSE /\ told = FALSE /\ reason = "none"

-----------------------------------------------------------------------------
(* The controller.                                                         *)

Send(command) ==
  /\ held /\ Len(commands) < MaxCommands
  /\ commands' = Append(commands, command)
  /\ UNCHANGED <<held, output, external, closing, clipboard, database, suspended,
                 retained, slot, commandClosed, told, reason>>

DropHandle ==
  /\ held
  /\ held' = FALSE
  /\ UNCHANGED <<commands, output, external, closing, clipboard, database, suspended,
                 retained, slot, commandClosed, told, reason>>

-----------------------------------------------------------------------------
(* The client.                                                             *)

Running == client = "running" /\ reason = "none"
Room == Len(output) < OutputCapacity

\* The keys that are down after one input event.
AfterInput(down, event) ==
  CASE event.type = "KeyDown" -> down \cup {event.key}
    [] event.type = "KeyUp" -> down \ {event.key}
    [] OTHER -> {}

ClientDecodes ==
  /\ Running /\ Room /\ decoded < MaxImages
  /\ decoded' = decoded + 1
  /\ output' = Append(output, Image(decoded + 1))
  /\ UNCHANGED <<commands, held, input, client, remote, closing, clipboard, database,
                 suspended, retained, slot, commandClosed, told, reason>>

\* The connection broke: the client asks whether to reconnect, and waits.
ClientAsks ==
  /\ Running /\ Room
  /\ client' = "asking"
  /\ output' = Append(output, Plain("AutoReconnecting"))
  /\ UNCHANGED <<commands, held, input, remote, decoded, closing, clipboard, database,
                 suspended, retained, slot, commandClosed, told, reason>>

ClientTakesInput ==
  /\ Running /\ input # <<>>
  /\ remote' = AfterInput(remote, Head(input))
  /\ input' = Tail(input)
  /\ UNCHANGED <<commands, held, output, client, decoded, closing, clipboard, database,
                 suspended, retained, slot, commandClosed, told, reason>>

\* on_request_format_list or on_format_data_request queues a message.
ClientWantsClipboard ==
  /\ Running /\ ~ clipboard
  /\ clipboard' = TRUE
  /\ UNCHANGED <<commands, held, output, external, closing, database, suspended,
                 retained, slot, commandClosed, told, reason>>

\* It ends because it was asked to, or because the connection failed.
ClientEnds ==
  /\ Running
  /\ client' = "final"
  /\ UNCHANGED <<commands, held, output, input, remote, decoded, closing, clipboard,
                 database, suspended, retained, slot, commandClosed, told, reason>>

ClientReturns ==
  /\ client = "final" /\ reason = "none" /\ Room
  /\ client' = "returned"
  /\ output' = Append(output, Plain("Final"))
  /\ UNCHANGED <<commands, held, input, remote, decoded, closing, clipboard, database,
                 suspended, retained, slot, commandClosed, told, reason>>

-----------------------------------------------------------------------------
(* The select loop.                                                        *)

Selecting == reason = "none"

MutantReserves == client # "returned" /\ Len(input) <= InputCapacity

\* The input queue, for try_reserve(): closed once the client has returned.
Reserves == client # "returned" /\ Len(input) < InputCapacity

MutantDatabaseAfter(command, reserved) == AfterInput(database, command)

\* database.apply() comes after the reservation, and only with it.
DatabaseAfter(command, reserved) == IF reserved THEN AfterInput(database, command) ELSE database

\* dispatch_operation and ReleaseAll: reserve, apply, send; a full or closed
\* queue closes the session instead.  Releasing a key that is not down sends
\* nothing.
DispatchInput(command) ==
  LET silent == command.type = "KeyUp" /\ command.key \notin database IN
  /\ database' = DatabaseAfter(command, Reserves)
  /\ input' = IF Reserves /\ ~ silent THEN Append(input, command) ELSE input
  /\ closing' = (closing \/ ~ Reserves)
  /\ UNCHANGED <<suspended, retained, slot, told>>

\* map_output: a FrameError becomes an Error event and leaves the slot alone.
SlotAfter(image) == IF image \in Refused THEN slot ELSE image

MutantFlush == UNCHANGED <<retained, slot>>

\* ResumeRendering first maps the image that was kept while suspended.
Flush ==
  /\ slot' = IF retained = 0 THEN slot ELSE SlotAfter(retained)
  /\ retained' = 0

DispatchRendering(suspend) ==
  /\ suspended' = suspend
  /\ IF suspend THEN UNCHANGED <<retained, slot>> ELSE Flush
  /\ UNCHANGED <<database, input, closing, told>>

DispatchDisconnect ==
  /\ told' = TRUE /\ closing' = TRUE
  /\ UNCHANGED <<database, input, suspended, retained, slot>>

RecvCommand ==
  LET command == Head(commands) IN
  /\ Selecting /\ commands # <<>>
  /\ commands' = Tail(commands)
  /\ CASE command.type \in {"KeyDown", "KeyUp", "ReleaseAll"} -> DispatchInput(command)
       [] command.type = "SuspendRendering" -> DispatchRendering(TRUE)
       [] command.type = "ResumeRendering" -> DispatchRendering(FALSE)
       [] command.type = "Disconnect" -> DispatchDisconnect
  /\ UNCHANGED <<held, output, client, remote, decoded, clipboard, commandClosed, reason>>

MutantClosingAfterDrop == closing

\* Dropping the sender asks the client to close, as Disconnect does.
ClosingAfterDrop == TRUE

RecvClosed ==
  /\ Selecting /\ ~ held /\ commands = <<>> /\ ~ commandClosed
  /\ commandClosed' = TRUE
  /\ closing' = ClosingAfterDrop
  /\ UNCHANGED <<commands, held, output, external, clipboard, database, suspended,
                 retained, slot, told, reason>>

\* map_output, an image being kept aside while rendering is suspended.
RecvImage ==
  /\ Selecting /\ output # <<>> /\ Head(output).type = "Image"
  /\ output' = Tail(output)
  /\ IF suspended
       THEN retained' = Head(output).number /\ UNCHANGED slot
       ELSE slot' = SlotAfter(Head(output).number) /\ UNCHANGED retained
  /\ UNCHANGED <<commands, held, external, closing, clipboard, database, suspended,
                 commandClosed, told, reason>>

\* The answer is Continue, whatever was asked of the session before.
RecvAutoReconnecting ==
  /\ Selecting /\ output # <<>> /\ Head(output).type = "AutoReconnecting"
  /\ output' = Tail(output)
  /\ client' = "running"
  /\ UNCHANGED <<commands, held, input, remote, decoded, closing, clipboard, database,
                 suspended, retained, slot, commandClosed, told, reason>>

RecvFinal ==
  /\ Selecting /\ output # <<>> /\ Head(output).type = "Final"
  /\ output' = Tail(output)
  /\ reason' = "final output"
  /\ UNCHANGED <<commands, held, external, closing, clipboard, database, suspended,
                 retained, slot, commandClosed, told>>

\* send_clipboard() fails once the client has returned, and that ends the loop.
RecvClipboard ==
  /\ Selecting /\ clipboard
  /\ clipboard' = FALSE
  /\ reason' = IF client = "returned" THEN "clipboard closed" ELSE "none"
  /\ UNCHANGED <<commands, held, output, external, closing, database, suspended,
                 retained, slot, commandClosed, told>>

ControllerStep ==
  \/ \E command \in KeyCommands \cup PlainCommands : Send(command)
  \/ DropHandle

ClientStep ==
  \/ ClientDecodes \/ ClientAsks \/ ClientTakesInput \/ ClientWantsClipboard
  \/ ClientEnds \/ ClientReturns

LoopStep ==
  \/ RecvCommand \/ RecvClosed
  \/ RecvImage \/ RecvAutoReconnecting \/ RecvFinal
  \/ RecvClipboard

\* The loop has ended: the thread returns and drops the client.
Ended == reason # "none" /\ UNCHANGED vars

Next == ControllerStep \/ ClientStep \/ LoopStep \/ Ended

\* select! picks among the ready branches at random, so none starves.  The
\* client looks at the request to close again and again, except while it waits
\* for an answer: it does not go on reconnecting for ever.
Fairness ==
  /\ WF_vars(RecvCommand) /\ WF_vars(RecvClosed)
  /\ WF_vars(RecvImage \/ RecvAutoReconnecting \/ RecvFinal)
  /\ SF_vars(ClientEnds /\ closing)
  /\ WF_vars(ClientReturns)

Spec == Init /\ [][Next]_vars

FairSpec == Spec /\ Fairness

-----------------------------------------------------------------------------
(* Properties.                                                             *)

\* Where the last event about a key stands in the input queue, 0 for none.
IsAbout(event, key) == event.type = "ReleaseAll" \/ event.key = key

IsLastAbout(i, key) ==
  /\ i = 0 \/ IsAbout(input[i], key)
  /\ \A j \in i + 1 .. Len(input) : ~ IsAbout(input[j], key)

\* The database is what the remote computer will hold once the input queue is
\* worked off, even when a reservation fails: no key is forgotten there.  The
\* last event about a key in the queue decides, or the remote computer does.
DatabaseAgrees ==
  \A key \in Keys, i \in 0 .. Len(input) :
    IsLastAbout(i, key) =>
      (key \in database <=> IF i = 0 THEN key \in remote ELSE input[i].type = "KeyDown")

\* The number of the last image the loop has taken: those after it are waiting.
IsImage(o) == o.type = "Image"
Waiting == {output[i].number : i \in {j \in 1 .. Len(output) : IsImage(output[j])}}
Taken == CHOOSE n \in 0 .. decoded : Waiting = n + 1 .. decoded

\* "Background display updates pause, retaining at most one pending frame for
\* resume": no image is lost but to a newer one, and outside suspension the
\* newest is in the slot unless it is no frame.
NewestKept ==
  /\ IF retained # 0 THEN retained = Taken ELSE Taken \in Refused \/ slot = Taken
  /\ ~ suspended => retained = 0
  /\ slot \notin Refused

\* A session that is told to disconnect, or that nobody holds, ends: neither a
\* full output queue nor a pending reconnect keeps it.
DisconnectEnds == told \/ ~ held ~> reason # "none"

\* "Keep receiving from the output channel so that Terminated/ConnectionFailure
\* is not lost" (run_session): the loop ends for the reason the client gave,
\* unless the user asked for the end or nobody listens.
FinalNotLost == reason = "clipboard closed" => told \/ ~ held

=============================================================================
