------------------------------ MODULE Touchpad ------------------------------
(***************************************************************************)
(* The relative touchpad and the bounded queue of rdp-core: TouchpadMapper *)
(* turns gestures into operations, InputQueue keeps them for a backend.    *)
(* Both are exported and not used by the client; the one who connects them *)
(* is external: it pushes what the mapper returns, and when an operation   *)
(* comes back refused it keeps it and tries again before anything else.    *)
(*                                                                         *)
(* Both axes of the pointer are treated alike, so one is enough.           *)
(***************************************************************************)
EXTENDS Integers, Sequences, SequencesExt

CONSTANTS
  Capacity,   \* INPUT_QUEUE_CAPACITY (128)
  Widths,     \* widths of the remote desktop, at least 1
  Steps       \* rounded distances a finger moves

\* The queue has room for some operation, and new() and update_remote_size()
\* take a desktop to be at least 1 wide.
ASSUME TouchpadBounds == Capacity \in Nat \ {0} /\ Widths \subseteq Nat \ {0} /\ Steps \subseteq Int

Left == "Left"
Right == "Right"

Move(x) == [type |-> "PointerMove", x |-> x]
Down(button) == [type |-> "ButtonDown", button |-> button]
Up(button) == [type |-> "ButtonUp", button |-> button]
Wheel == [type |-> "Wheel"]

Positions == UNION {0 .. w - 1 : w \in Widths}
Moves == {Move(x) : x \in Positions}
Operations == Moves \cup {Down(b) : b \in {Left, Right}} \cup {Up(b) : b \in {Left, Right}} \cup {Wheel}

Nowhere == -1

VARIABLES
  width,      \* remote_width
  cursor,     \* cursor_x
  holding,    \* TouchpadMapper.pressed
  outbox,     \* returned by the mapper, not accepted by the queue yet
  queue,      \* InputQueue.queue
  aim,        \* history: the last position sent to the queue
  targets,    \* history: for each operation in the queue, aim when it was accepted
  dropped,    \* history: a move was dropped because the queue was full
  remoteX     \* the pointer on the remote computer, Nowhere while unknown

touchpadVars == <<width, cursor, holding, outbox, queue, aim, targets, dropped, remoteX>>

TouchpadTypeOK ==
  /\ width \in Widths /\ cursor \in 0 .. width - 1 /\ holding \in BOOLEAN
  /\ outbox \in Seq(Operations)
  /\ queue \in Seq(Operations) /\ Len(queue) <= Capacity
  /\ aim \in Positions \cup {Nowhere}
  /\ targets \in Seq(Positions \cup {Nowhere}) /\ Len(targets) = Len(queue)
  /\ dropped \in BOOLEAN
  /\ remoteX \in Positions \cup {Nowhere}

\* new()
TouchpadInit ==
  /\ width \in Widths /\ cursor = width \div 2 /\ holding = FALSE
  /\ outbox = <<>> /\ queue = <<>>
  /\ aim = Nowhere /\ targets = <<>> /\ dropped = FALSE
  /\ remoteX = Nowhere

-----------------------------------------------------------------------------
(* TouchpadMapper.                                                         *)

OntoDesktop(x, w) == IF x < 0 THEN 0 ELSE IF x > w - 1 THEN w - 1 ELSE x

\* The mapper returns operations once the last ones are in the queue.
Gesture(operations) ==
  /\ outbox = <<>>
  /\ outbox' = operations
  /\ UNCHANGED <<width, queue, aim, targets, dropped, remoteX>>

MoveBy(step) ==
  /\ Gesture(<<Move(OntoDesktop(cursor + step, width))>>)
  /\ cursor' = OntoDesktop(cursor + step, width)
  /\ UNCHANGED holding

\* tap() and long_press()
Click(button) == Gesture(<<Down(button), Up(button)>>) /\ UNCHANGED <<cursor, holding>>

BeginDrag == Gesture(<<Down(Left)>>) /\ holding' = TRUE /\ UNCHANGED cursor

EndDrag == holding /\ Gesture(<<Up(Left)>>) /\ holding' = FALSE /\ UNCHANGED cursor

Scroll == Gesture(<<Wheel>>) /\ UNCHANGED <<cursor, holding>>

MutantCursorAfterResize(w) == cursor

CursorAfterResize(w) == OntoDesktop(cursor, w)

UpdateRemoteSize(w) ==
  /\ width' = w /\ cursor' = CursorAfterResize(w)
  /\ UNCHANGED <<holding, outbox, queue, aim, targets, dropped, remoteX>>

-----------------------------------------------------------------------------
(* InputQueue.                                                             *)

IsMove(operation) == operation.type = "PointerMove"

MutantReplaced(operation) == IF IsMove(operation) THEN SelectLastInSeq(queue, IsMove) ELSE 0

\* Where the move stands that the operation takes the place of, 0 for none: the
\* newest entry, if both are moves.
Replaced(operation) ==
  IF IsMove(operation) /\ queue # <<>> /\ IsMove(Last(queue)) THEN Len(queue) ELSE 0

MutantVictim == 1

\* Where the move stands that a full queue gives up, 0 for none: its oldest.
Victim == SelectInSeq(queue, IsMove)

MayAppend == Len(queue) < Capacity \/ Victim # 0

Room(s) == IF Len(queue) < Capacity THEN s ELSE RemoveAt(s, Victim)

Aimed(operation) == IF IsMove(operation) THEN operation.x ELSE aim

\* push(): it comes back as an Err unless it coalesces or there is room.
Push ==
  LET operation == Head(outbox) IN
  /\ outbox # <<>> /\ (Replaced(operation) # 0 \/ MayAppend)
  /\ outbox' = Tail(outbox)
  /\ aim' = Aimed(operation)
  /\ IF Replaced(operation) # 0
       THEN /\ queue' = ReplaceAt(queue, Replaced(operation), operation)
            /\ targets' = ReplaceAt(targets, Replaced(operation), operation.x)
            /\ UNCHANGED dropped
       ELSE /\ queue' = Append(Room(queue), operation)
            /\ targets' = Append(Room(targets), Aimed(operation))
            /\ dropped' = (dropped \/ Len(queue) = Capacity)
  /\ UNCHANGED <<width, cursor, holding, remoteX>>

PointerAfter(x, operation) == IF IsMove(operation) THEN operation.x ELSE x

\* pop(), and the backend sends what it took.
Pop ==
  /\ queue # <<>>
  /\ queue' = Tail(queue) /\ targets' = Tail(targets)
  /\ remoteX' = PointerAfter(remoteX, Head(queue))
  /\ UNCHANGED <<width, cursor, holding, outbox, aim, dropped>>

TouchpadNext ==
  \/ \E step \in Steps : MoveBy(step)
  \/ \E button \in {Left, Right} : Click(button)
  \/ BeginDrag \/ EndDrag \/ Scroll
  \/ \E w \in Widths : UpdateRemoteSize(w)
  \/ Push \/ Pop

TouchpadSpec == TouchpadInit /\ [][TouchpadNext]_touchpadVars

-----------------------------------------------------------------------------
(* Properties.                                                             *)

Ordered == INSTANCE OrderedInput WITH pending <- queue

\* Coalescing and the limit of the queue leave out pointer moves at most: no
\* press or release is lost, and nothing overtakes one.
QueueIsOrdered == Ordered!OrderedSpec

\* Where the move stands that was the last one before operation i, 0 for none.
IsLastMove(j, i) ==
  /\ j = 0 \/ IsMove(queue[j])
  /\ \A k \in j + 1 .. i - 1 : ~ IsMove(queue[k])

\* A press, a release or a turn of the wheel happens where the pointer was sent
\* before it, unless a full queue had to give up a move: the last move in front
\* of it, or the pointer as it is, takes it there.
ClicksLandWhereAimed ==
  ~ dropped =>
    \A i \in 1 .. Len(queue) : \A j \in 0 .. i - 1 :
      ~ IsMove(queue[i]) /\ IsLastMove(j, i) =>
        targets[i] = IF j = 0 THEN remoteX ELSE queue[j].x

=============================================================================
