# RemoteApp in TLA+

RemoteApp is an RDP client for Android (with a Windows preview): a Slint user
interface, a controller, and one thread per session that drives the IronRDP
client library. This directory holds TLA+ models of its concurrent and stateful
parts, TLC configurations that check them on small instances, and TLAPS proofs, for
every value of the constants, of all the safety properties those runs check.

## Inventory

| Component | Source | State it keeps | Operations |
|---|---|---|---|
| Connection controller | `apps/android-client/src/controller.rs` | the `Active` record behind a mutex: generation, the three halves of the current session handle, credentials, pending fingerprint, connected, suspended | begin, disconnect, finish, events, frame, send, release_inputs, suspend |
| Session handle | `crates/rdp-core/src/session.rs` | an unbounded command channel, an unbounded event channel, a watch slot for frames | spawn_session |
| IronRDP backend | `crates/rdp-core/src/ironrdp_backend.rs` | per thread: input database, suspension flag, one retained frame, close flags, bounded queues to the client library | the select loop, dispatch_command, dispatch_operation, map_output, the clipboard backend |
| Client flows and tick | `apps/android-client/src/lib.rs`, `ui/app.slint` | `AppModel` (tables of pressed and latched keys, gestures, pending resize, last frame) and window properties (page, connected, fingerprint, certificate target, image) | the window callbacks, the 33 ms tick, the Android lifecycle listener |
| Certificate trust | `lib.rs`, `repository.rs`, `ironrdp_backend.rs` | fingerprints per endpoint | confirm, reject, removal with the last device, `certificate_is_approved` |
| Text clipboard | `ironrdp_backend.rs`, `lib.rs` | the field of the window, a shared text per session, a queue of clipboard messages per session | send, request, read and store locally, the callbacks of the clipboard backend |
| Input and gestures | `interaction.rs`, `lib.rs` | pressed, latched, fingers, dragging | hardware keys, committed text, the key row, touch, mouse, cancellation |
| Viewport and resize | `interaction.rs`, `lib.rs` | area, remote size, zoom, pan, pending resize, last size sent | on_viewport, on_display_mode, on_reset_view, gestures, the tick |
| Device list and editor | `lib.rs`, `ui/app.slint`, `rdp-core/src/model.rs` | draft, the fields of the form, the rows and filters of the list | new, edit, save, connect, favourite, delete, search, navigate |
| Device repository | `repository.rs`, `platform.rs` | two files and the decrypted catalogue | open, update, atomic_write |
| Platform services | `platform.rs`, `RemoteActivity.java` | none | key protection, system clipboard |
| Input queue, touchpad mapper | `rdp-core/src/input.rs` | a bounded queue; cursor and drag of a touchpad | push, pop; move, tap, drag, scroll, resize (exported, unused by the client) |
| Model types | `rdp-core/src/model.rs` | none | endpoint parsing, validation, frame sizes |
| Crypto store | `crates/crypto-store` | none | encrypt, decrypt; a vault under a master password and storage of its key, which the client does not use |
| Synchronisation | `crates/sync-pg` | records with revisions, in memory or in PostgreSQL | compare, insert, conditional writes (not connected to the client) |
| Vendored libraries | `vendor/` | TLS verification, Android window backend | |

How they interact. Window callbacks, tick and lifecycle listener run on the one
UI thread and never interleave with each other. Each session has a thread of its
own, which talks to the UI only through its channels: commands go in, events and
frames come out, and dropping a half is itself a message (a closed command
channel asks the session to end, a dropped event receiver discards its events).
Inside the thread, select loop and RDP client exchange bounded queues. The
repository is called synchronously from callbacks.

What is hard, and to test harder: a session thread takes steps between any two
callbacks and between the drain of a tick and the drawing at its end; a session
may be replaced, disconnected, suspended or lost in any phase, starting,
connecting and reconnecting included; a prompt withdrawn by one event is
remembered elsewhere; focus changes are told late; queues fill up; a write may
fail, or the power, between rename and sync. `PROJECT.json` lists these hazards
at their lines with the properties that speak of them.

What makes each component correct:

- controller and threads: one session that nobody has asked to end; the end of a
  session is noticed; nothing of an old session shows; credentials do not
  outlive their use; a display never stays frozen;
- trust: what is stored is what the user saw, and a stored pin decides alone;
- backend: what the database believes is what the remote computer will hold, the
  newest image is never lost, a session told to end ends and gives its reason;
- clipboard: a text goes only where and when the user sent or asked for it;
- input: nothing is held down remotely that the client cannot release any more;
- text: what an input method rewrites arrives as it stands in the field;
- resize: the remote desktop has the size the mode asks for;
- viewport: the picture is on the screen and a touch reaches the pixel under it;
- editor: a device is read back as it was written, a password stays with its
  device, the list is current;
- input queue: moves may be left out, nothing else, and nothing overtakes a click;
- synchronisation: no version is overwritten unseen, no edit lost unnoticed;
- repository: an acknowledged update survives everything, a failed one does not
  show, no key is made over data that needs another.

## Modules

| Module | Models | Composition |
|---|---|---|
| `Controller` | `controller.rs` and the channels | operators and actions over the `Active` record |
| `SessionThread` | a session thread as the UI sees it | extends `Controller` |
| `Client` | callbacks, tick, lifecycle, trust | extends `SessionThread`; the specification of the composed client |
| `ClientProofs` | theorems about `Client` | extends `Client` |
| `Backend` | one session thread from the inside | on its own: controller, loop and RDP client of one session |
| `BackendProofs` | theorems about `Backend` | extends `Backend` |
| `Clipboard` | text between the field and the remote computers | on its own: the field, and the queues of every session |
| `ClipboardProofs` | theorems about `Clipboard` | extends `Clipboard` |
| `Input` | held keys and buttons | on its own |
| `TextEntry` | text of the on-screen keyboard | on its own; checked beside `Input` |
| `OrderedInput` | what an input queue promises | abstract specification |
| `Touchpad` | `TouchpadMapper` and `InputQueue` | implements `OrderedInput`; checked beside `Input` |
| `InputProofs` | theorems about `Input`, `Touchpad` and `TextEntry` | extends `MCInput` |
| `Resize` | size of the remote desktop | the part of `View` that the session hears of |
| `View` | scaling, zoom, pan and mapping of the picture | extends `Resize`; its actions are those of `Resize` with what they do to the picture |
| `ViewProofs` | theorems about `Resize` and `View` | extends `View` |
| `Repository` | files, catalogue and crashes | on its own |
| `Editor` | the device list and the editor | on its own; checked beside `Repository` |
| `SharedRecord` | what synchronisation promises about a profile | abstract specification |
| `Sync` | both record stores and the devices that use them | implements `SharedRecord`; checked beside `Repository` |
| `SyncProofs` | theorems about `Sync` | extends `Sync` |
| `RepositoryProofs` | theorems about `Repository` and `Editor` | extends `MCRepository` and `SyncProofs` |
| `Frames` | sizes of pictures, desktops and monitor layouts | operators and theorems; no state |
| `MC*` | instances for TLC | extend the modules they instantiate |

Where a run checks modules that share no state (`MCInput`, `MCRepository`), its
specification is a sum: in a behaviour one of them takes steps and the others stay
at their initial values. So the state spaces add up instead of multiplying, and
every property speaks of its own module. In `MCInput` the others rest at the widest
desktop, in `MCRepository` at the memory store; the initial states of each module
are all explored when it is the one that moves. Each behaviour
of such a sum is one of every part (the theorems `AnyIsEach`), so what is proved of
a part holds in the run.

### Controller, SessionThread, Client

A session is named by the generation that began it. Since the halves of its
handle are stored and dropped together, one variable `handle` says which
session's halves the controller holds. `Post` is a send through the held sender:
a no-op without one, or when the thread has returned. Methods of the controller
are `Begin`, `Disconnect`, `Finish` and `Suspend`; each is used by the actions
of `Client` that call it, with the state of the channels passed in where the
caller has sent something before (`launch` and `stop` release the inputs first).

A thread has a phase, the endpoint and pin it was started with, the certificate
it is connected to, whether it has acted on a Disconnect, whether it is
suspended, and the number of the frame in its slot. Its environment (server,
network, CA) chooses the certificate presented, and when connections drop.

A callback is one action. A tick is `TickBegin` (which drains the channel), one
action per event, and `TickEnd` (which draws); callbacks are disabled in between
and threads are not. `current(generation)` inside the loop is always true for
that reason and is not an action. `Connecting` and `Error` events only write
text and are left out; `ClipboardText` has a module of its own. The catalogue
starts without devices, but trust records may be left from earlier ones
(`TrustOnDisk`). Failing repository updates leave every
variable modelled here as it was, so they are stuttering steps. The password is
present, since a connect without one opens the editor (`EditDevice`).

### Backend

The select loop has one action per branch and message type. The RDP client is
external: it puts outputs into a bounded queue, takes input from one that
`try_reserve` may find full, asks before it reconnects and waits for the answer,
honours a request to close in its own time, and sends a final output right before
it returns. Hence `recv()` never sees the output channel closed and that branch
is left out. `remote` is what is down on the remote computer. `retained` and
`slot` are `suspended_frame` and the watch channel. `Refused` are images that
`FrameUpdate::new` refuses: `map_output` reports them and leaves the slot alone.

### Clipboard

The state of a session is one record: its link, the shared text, its queues and
what its remote computer was told. A text is known by its author and its number.
Since loop and RDP client are futures of one thread, `RecvCommand` stores a text
and announces it in one step; an answer is made from the shared text when the
question arrives (`OnFormatDataRequest`) and is forwarded later. What is given to
the RDP client is understood at the other end at once, or lost without a
connection; the announcement carries how many texts had been sent, so that an
answer can be compared with what the remote computer had been told of. A session
that is not held runs on until it returns.

### Input

`held` is what the session holds down once every command is worked off. One
modifier (Control, with both its keys), one letter and the left button stand for
all of them. Control has a scancode on its left key only; the right key reaches
the client as a modifier flag. A focus change takes effect at once and its
handler runs later (`lost`, `FocusLost`), as the window delivers it. Whether a
tap is a click depends on time, distance and pan mode, and is free. Physical keys
are not delivered to an app in the background. The branch of `on_release_input`
for a model that is already borrowed is left out: callbacks run to completion.

### TextEntry

`line` is what the remote computer has at its cursor since the field was last
cleared: `CommittedDelta` takes back what follows the common start of the two texts
(`CommonLength`) and types the rest, `AfterKeys` is what keys make of a
line, and a backspace at its start is kept as a sign that it erased something older. An input method may turn the text into any
other in one step. After a key typed past the field (`TypePast`: a key of the row, or a hardware
key), a shortcut or a lost connection the line is not followed until the field is
cleared (`diverted`); the hazards list says what happens then.

### Touchpad

The mapper returns operations into `outbox`, the caller pushes them in order and
keeps what `push` refuses, and a backend pops. One axis is enough, since both are
treated alike. `aim`, `targets` and `dropped` are history variables: where the
pointer was last sent, where it was sent before each operation in the queue, and
whether a full queue gave up a move. `QueueIsOrdered` is the refinement: `queue`
implements `pending` of `OrderedInput`. Keys and other operations travel as `Wheel`.

### Resize and View

`resize` is the pending size and `due` whether its time has come; `asked` is the
last size the session was asked for. Sizes are as `display_size` rounds them. A
Resize that the thread drops because its input queue is full is not modelled (see
the hazards). The area may change on every page, with a session or without: the mode
of the last session still arms a resize, which the next `Connected` overwrites.

`View` conjoins each action of `Resize` with what the same callback does to the
viewport and to what the window draws (`drawn`, set by `update_view` only). `Map`
is what the model makes of a touch; `PixelSeen`, a property's definition, is what
the user sees there. A gesture may move the picture to any of `Targets` before it
is clamped. The button of `on_reset_view` is on the session page, connected or not,
hence the guard of `ResetView`. The code computes in `f32`; here lengths are whole numbers and the sizes
of the configuration powers of two, so that scaling, halving and clamping are exact.
The floor of 0.0001 on the scale is never reached there.

### Editor

A text is what its readers tell apart: `HostTexts` are the shapes `parse_endpoint`
distinguishes (name or IPv6 address, bracketed or not, with or without port, bad,
empty), `Users` a name with and without domain. `Read` is `save` up to the update,
`FormOf` what `edit` writes into the fields. The device `save` writes (`draft`) and
the one whose fields the form shows (`shown`) are variables of their own: nothing but
`edit` keeps them together. A password is named for the device whose form it was
typed in. A reading or update that fails changes nothing and is no step.

### Sync

One profile, two devices. The library is a set of stores and a comparison; the
devices are external, written after what its signatures ask for: a write carries the
revision after the one the device has seen and expects that one, and a device with
an unsaved edit compares the edit, not its copy, with what it fetched. A statement of
`PostgresStore` is sent, executed and answered in three steps; a lost connection
leaves it to be executed late or never. `NoLostUpdate` is the refinement: `chain`,
the versions stored, and the revisions of the copies implement `SharedRecord`.

### Frames

`FrameUpdate::new`, `DesktopConfig::validate`, the sizes the client asks for and
`monitor_bounds`, over the whole range of their integer types. There is no state and
no run: the theorems say it for every value.

### Repository

A directory entry has the content processes see and the content a power loss is
sure to leave. `atomic_write` is three steps (`WriteTemp`, `Rename`,
`SyncDirectory`), each of which may fail or be the last before a restart or a
power loss. `acked` and `failed` record what the callers of `update` were told.
The catalogue is identified by the update that produced it; an envelope opens
with its own key only.

## Runs

| Run | Shows | Instance |
|---|---|---|
| `client` | controller, screen and threads agree: `CredentialsHeld`, `PromptIsPending`, `OffSessionPage`, `OneSession`, `DisplayResumes`, `TypeOK`; certificates are trusted as confirmed: `PinEnforced`, `TrustChanges` | two devices, two endpoints, two certificates (one CA-valid), two sessions, no frames; devices and endpoints symmetric |
| `client_live` | `ImageIsCurrent`, `ReplacedSessionEnds`, `EndIsNoticed` | one device, one certificate that may be trusted from the start, two sessions, one frame each |
| `client_released` | violation of `CredentialsReleased` | one device and endpoint, two certificates, two sessions |
| `backend` | `DatabaseAgrees`, `NewestKept`, `TypeOK`, and under fairness `DisconnectEnds` | one key, both queues of two, three images, the second of which is refused as a frame, one command in flight |
| `backend_final` | violation of `FinalNotLost` | one key, an input queue of one |
| `clipboard` | `FreshAnswer`, `FieldFromHere`, `OnlyRequested`, `TypeOK` | two sessions; per session one text sent, one request and one remote copy; every queue of one |
| `input` | `KeysKnown`, `ReleasedWhenAway`, `ButtonKnown`, `ModifiersCleared`; for the touchpad `ClicksLandWhereAimed` and the refinement `QueueIsOrdered`; for text `TypedMatches`; `AnyTypeOK` for all | all three keys, the mouse and two fingers; a queue of three, desktops one and three wide, steps of -2 and 1; texts of up to three of two characters |
| `input_shortcut` | violation of `ModifiersSynchronised` | the keys and the mouse, no finger |
| `resize` | `LandscapeKept`, `TouchesHitPicture`, `PictureCovers`, `ViewTypeOK` | a phone upright, on its side and split, an upright profile, zooms 1, 2 and 4, four changes of the picture area |
| `resize_settles` | violation of `FollowSettles` | as `resize` |
| `repository` | files: `AckedSurvives`, `KeyMatchesDevices`, `DiskFirst`; editor: `ReopenKeepsDevice`, `OwnPassword`, `ListIsCurrent`; synchronisation: `EditsSurvive` and the refinement `NoLostUpdate`; `AnyTypeOK` for all | four updates, three keys; two devices in the catalogue, a name and an IPv6 address, ports 3389 and 3390; two synchronised devices, three edits, four revisions, one statement whose connection is lost; devices symmetric |
| `repository_failed` | violation of `FailedStaysInvisible` | as `repository` |

Why the bounds are enough. The properties of the client relate the held session
to one other, and a session that was replaced never comes back: two sessions show
every such pair, and the launch of the second one under a pin that was just
stored or changed. An event queue of one and a batch of two still let an event arrive between
drain and draw, and let a session end with an event undrained. A command queue
of one suffices for the order of what is sent, since a launch or a disconnect
adds its commands regardless of the bound; it limits the callbacks that only send.
In `Clipboard` one text sent and one not yet sent already differ, as do a text
of this session and one of the other; a reconnect repeats everything.
In `Backend` a queue of two is full, half full and empty, and three images are one
in the slot, one retained and one on its way. One key is enough, as the histories of two
keys meet only in a ReleaseAll, which treats all alike. Two fingers are as many as
a gesture tells apart. In `Repository` one more update and
key than the two a property compares leave room for one that fails in between.
Sizes: the violation of `FollowSettles` needs two, four changes allow a third.
Three areas and two desktops give every relation of their proportions: fitting
the width, the height and both; zooms from one that leaves a margin on both sides to
one that overflows both. A queue of three holds a move, a press and its release; a desktop
one pixel wide has room for one position only, as the clamp at `width - 1` may leave.
Texts of three characters have a common start, a replaced middle and a longer or
shorter rest. In `Editor` two devices are what a password can be mistaken between;
three port values are the default, another one and the invalid zero. In `Sync` three
edits by two devices give a conflict with an edit on top of it, and a revision more than
there are edits is never needed; one lost statement is executed before, between or
after the writes that follow it.

Fairness. `client_live`: the timer keeps firing, so a tick that is enabled is
taken; a thread that was spawned runs and its loop polls the commands; an RDP
client that was refused, or asked to close, ends. Users, servers and the
lifecycle owe nothing. `backend`: `select!` picks among the ready branches at
random, so a branch that stays ready is taken; a client that was asked to close
ends although it may go on asking to reconnect, because it looks at the request
between attempts (strong fairness, as it cannot look while it waits for the answer).

### Disagreements found

- `client_released`: `Connected` takes the certificate dialog away and leaves the
  controller's pending fingerprint, so that credentials stay in memory after the
  session has ended, with no confirmation on screen (`lib.rs:859`,
  `controller.rs:95`, against the root README).
- `backend_final`: a clipboard message forwarded after the client returned ends
  the loop before the final output is read (`ironrdp_backend.rs:186`, against the
  comment at 195).
- `input_shortcut`: after a tap of left Control, right Control with a letter sends
  the letter alone (`lib.rs:410`, against the comment at 402).
- `resize_settles`: a picture area that changes and changes back within the delay
  leaves the desktop at the size in between (`lib.rs:661`).
- `repository_failed`: a failed directory sync leaves the failed update on disk
  for the next start (`platform.rs:48`, against the comment at `repository.rs:85`).

Each is the counterexample of a run that must find it.

## Proofs

`Frames` proves, for every value of the integer types involved:

- `ImageAccepted`: an image becomes a frame exactly if neither side exceeds 8192,
  the largest being exactly 256 MiB; the other checks of `FrameUpdate::new` refuse
  no image that would pass this one, and nothing overflows before it;
- `AskedCanBeShown`: whatever size the client asks for, following any screen
  (`FollowedIsValid`) or turned to landscape from any valid profile
  (`LandscapeIsValid`), comes back as a picture that is accepted;
- `BoundsFit`: the difference of two `i32` edges always fits the `u32` that
  `monitor_bounds` converts it to.

They rest on `ProductGrows`, the monotony of multiplication, and on the assumption
that a `usize` can hold `MAX_FRAME_BYTES`.

`SyncProofs` proves for the record stores, for every number of devices, edits,
revisions and lost connections:

- `SyncTyped`: `SyncTypeOK`, so that no revision passes its bound;
- `SyncImplementsSharedRecord`: `NoLostUpdate`, the refinement. Executing a
  statement is an `Extend` or a stutter (`StoreExtends`), taking a record into a
  copy is a `Learn` (`CopyLearns`), everything else a stutter (`StepImplements`);
- `NoEditLost`: `EditsSurvive`.

Both rest on the inductive invariant `SyncInv`. `TableInv` ties the stored revision
to the length of the chain and bounds every copy by it. `StatementInv` says that a
waiting statement was computed from its device's copy as it still is, and that a lost
one expects no more than its device has seen: so a statement that succeeds late
still comes from a device that has seen the whole chain (`WriterKnowsAll`).
`AnswerInv` says that a device is told its edit is stored only if it is, so that
it lets go of no other (`NothingLost`). The bounds need only be natural.

`ClientProofs` proves for the composed client, for every number of sessions,
devices, endpoints and fingerprints and every queue bound:

- `TypeCorrect`: `TypeOK`, with the bound on the generation counter;
- `CredentialsHeldAlways`, `OffSessionPageAlways`, `OneSessionAlways`,
  `PinEnforcedAlways`: the invariants of those names.

The only assumptions are those on the constants: at least one
session, the none-values outside their sets, CA-valid fingerprints and stored
trust records among the fingerprints, and natural bounds.

The argument is one inductive invariant, `IInv`, which adds to the four
properties what they need to be inductive:

- `GenInv`: off the session page or after closing the counter may be one ahead
  per cause, so that it stays within its bound;
- `HandleInv`: a held session was begun by a generation not in the future, and
  later generations have no thread, so a launch finds a blank slot and thread;
- `EndedInv`: the closed channels are those of the threads that returned, so
  that a goodbye that is not delivered was not needed;
- `ReportInv`: `Disconnected` is emitted only by a thread that has returned, so
  that `finish` does not let go of a running session (needed for `OneSession`);
- `TickInv`: outside a tick no event is half handled, and off the session page
  there is none (needed for `OffSessionPage`: an event handled there could bring
  a pending fingerprint back);
- `PinInv`: a running session that is held was started with the pin that is
  stored now. Trusting replaces the session, and a pin is removed only off the
  session page, where no session is held.

Typing comes first (`LaunchTyped`, `DisconnectTyped`, `ThreadStepTyped`,
`UserStepTyped`, `TickStepTyped`), then each group of steps keeps the rest
(`LaunchKeeps`, `DisconnectKeeps`, `QuietKeeps`, `ThreadStepKeeps`,
`TickStepKeeps`), then the two meet in `StepKeeps` and `Invariance`.

What the screen shows are copies of what controller and threads hold. That they
agree is a second invariant of the client, `ScreenInv`, inductive together with
`IInv` (`ScreenInvariance`), from which follow `PromptIsPendingAlways`,
`ImageIsCurrentAlways`, `DisplayResumesAlways` and, step by step, `TrustChangesAlways`:

- `HeldInv`: the held session is the last that began, and nothing was sent to a
  later one, so that a launch finds its command queue empty;
- `LastReportInv`: a thread reports its end last. The tick that handles it
  disconnects, and no event of that session may be left in its batch to bring
  the dialog back;
- `ImageInv`: `ImageIsCurrent`, for a session that is held;
- `DisplayInv`: once the commands in its queue are worked off, the held session is
  paused only while the app is in the background. `DisplayResumes` says this for an
  empty queue; the last suspend or resume decides for any other (`WillResume`).

`BackendProofs`, for every number of keys and images, whatever images are refused, and
all positive capacities: `BackendTyped`, `DatabaseAgreesAlways`, `NewestKeptAlways`. `BackendInv`
adds to these properties only that images wait in the order they were decoded
(`ImagesInOrder`): without it the image that is taken need not be the next.

`ClipboardProofs`, for every number of sessions, texts and requests and all queue bounds:
`ClipboardTyped`, `FreshAnswerAlways`, `FieldFromHereAlways`, `OnlyRequestedAlways`.
What a remote computer is given depends on how far the loop has come in what the
user sent, so `ClipboardInv` follows the texts of each session through its queues:

- `QueueInv`: those in the command queue are the last that were sent, in order;
- `SharedInv`: the shared text is the one before them;
- `ToldInv`: the remote computer knows, and will be told, of no text beyond that;
- `AnswersInv`: `FreshAnswer`; a question is answered from the shared text, which
  is by the two before at least as new as what was known when it was asked;
- `RequestsInv`: texts received, asked for and requests in the queue together are no
  more than the requests of the user;
- `EventsInv`: an event with a text is about the session's own remote computer.

`InputProofs` has three parts.

- Keys and buttons: `KeysKnownAlways`, `ButtonKnownAlways`, `ReleasedWhenAwayAlways` and the
  action property `ModifiersClearedAlways`, for any set of texts that keys carry. Needed
  in addition is that the token of an omitted modifier stands for Control or for
  nothing (`TokenInv`).
- The touchpad: `ClicksLandWhereAimedAlways` and `QueueIsOrderedAlways`, for every capacity,
  all widths and all steps. `ClicksLandWhereAimed` compares an operation with the last
  move before it, however far; `ChainInv` with the operation right before it, which is
  what pushing and popping keep. An operation is coalesced, appended or displaces a
  move (`PushShape`), and each is a step of `OrderedInput`.
- Committed text: `TypedMatchesAlways`, for texts of any length over any characters. The
  invariant (`EntryInv`) is that the remembered text is the one in the field; the
  work is in `DeltaRewrites`: typing what `CommittedDelta` returns turns the old text
  into the new one. While keys take back, the line is a
  shrinking prefix of the old text, then a growing one of the new; the recursive definition of `AfterKeys` agrees
  with that closed form (`KeysMake`) by induction over the keys. The library's
  induction theorems have operators as parameters, which the provers cannot
  instantiate; `SetInduction` is induction over a set of numbers instead, proved from
  the existence of a least element.

`ViewProofs`: `LandscapeKeptAlways` for `Resize`; that `View` implements `Resize` (`ViewResizes`), so
that the property carries over (`LandscapeKeptInView`); and `PictureCoversAlways`,
`TouchesHitPictureAlways`, `ViewTyped`. `ResizeInv` says what is asked for and pending
before the area was laid out and after the landscape size was sent. `DrawnInv` says
that the picture is that of the remote desktop, drawn from area, size, zoom and pan
as they are, and that the pan is within the slack: a change of the size that did
not clamp it again, or did not draw, would break it.

`RepositoryProofs` has two parts.

- Files, for every number of updates and keys: `AckedSurvivesAlways`, `KeyMatchesDevicesAlways`,
  `DiskFirstAlways`. `RepositoryInv` says what a power loss may take back (`DiskInv`), that the
  key in memory is that of both files and a fresh one is written only while there
  is no device file (`KeyInv`), when a write is under way (`StepInv`), and that
  acknowledged, durable, visible and attempted updates follow each other in this
  order (`OrderInv`).
- The editor, for any number of devices, hosts, ports and users: `OwnPasswordAlways`,
  `ListIsCurrentAlways`, `ReopenKeepsDeviceAlways`. `StoredInv`: every stored device is one that `save`
  can have made; that such a device is read back from the fields as it was is the
  lemma `ReadBack`. `RowsInv`: the rows are those of the catalogue on every page, and
  not on the list only, since leaving the editor refreshes nothing. `DraftInv`: what
  `save` would write is the device the form shows, and so is a password typed there.

`AnyIsEach` and `AnyTyped` in `InputProofs` and `RepositoryProofs` relate the sums that
`MCInput` and `MCRepository` check to their parts.

The assumptions are those the modules state of their constants, and TLC evaluates
all of them. Most are natural bounds or keep none-values apart from the values.
Those that say something of the program are:

- `TextsAssumption` (`Input`): a key carries one of the texts the module knows;
- `CharactersAssumption` (`TextEntry`): a backspace is sent as a scancode and a
  character as its code point, so no character is one;
- `HostsAssumption`, `NoTextAssumption` (`Editor`): a host that parses is not one that does
  not, and no field that is filled reads as an empty one;
- `SizesAssumption`, `ZoomAssumption` (`View`): no size is zero, and the zoom is
  within the 1 and 4 the code clamps it to;
- `ExactAssumption` (`View`): scaling a desktop to an area comes to whole numbers. The
  code computes in `f32`, where the two properties of the picture hold up to rounding;
  the theorems are about the sizes for which there is none;
- `CapacityAssumption` (`Backend`) and `TouchpadBounds`: queues have room for something.

Only model-checked: `ReplacedSessionEnds`, `EndIsNoticed` and `DisconnectEnds`. They are liveness
under fairness, which the prover cannot reach, as it cannot ENABLED. The five
violations stay with TLC too, being about one behaviour each.

## Not modelled

- Of `sync-pg`: TLS trust of the database (`TlsTrust`, `FingerprintVerifier`), the
  `vault_metadata` table, which no code reads or writes, the lengths of nonces and
  ciphertexts, and saturation of revisions at the greatest `i64`.
- Of `model.rs`: the format of fingerprints and the range of the scale factor.
- Of `interaction.rs`: the position of the relative pointer, the amount of a wheel
  turn, and time and distance that tell a tap from a drag.
- `crypto-store`: cryptography; an envelope opens with its own key only. The client
  does not use `VaultMetadata`, `KeyStorage` and the text encoding of an envelope.
- DPAPI, Keystore and system clipboard calls: I/O that succeeds or fails in one step.
- `vendor/`: modelled by what it delivers (the certificate callback, key events
  and their flags, focus changes).
- Layout, appearance, build scripts and packaging: no state.
- Failure to create an operating-system thread, and a poisoned mutex.

## Plan

1. Done: the client composed of controller, threads and flows; the backend loop;
   the clipboard; input; resize; repository; the proofs about the client.
2. Done: text entry, the input queue with its abstract specification, the picture
   on the screen, the editor, synchronisation with its abstract specification,
   frame sizes, and the theorems about the last two.
3. Done: a theorem for every invariant and every action property that a passing run
   checks, the refinements included.
4. Open: `Backend` shown to implement the thread of `SessionThread`. As the two are
   modelled it is no refinement: a `ResumeRendering` of the loop takes the command
   and publishes the retained frame in one step, which are two steps of
   `SessionThread`. It needs an abstract thread that may do both at once.
