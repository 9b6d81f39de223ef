--------------------------- MODULE ClipboardProofs ---------------------------
(***************************************************************************)
(* Text between the clipboard field and the remote computers.  What a      *)
(* remote computer is given depends on how far the loop of its session has *)
(* come in the texts the user sent; the invariant states that for every    *)
(* queue the texts pass through.                                           *)
(***************************************************************************)
EXTENDS Clipboard, SequenceTheorems, FiniteSetTheorems, TLAPS

\* Events of a session tell only of its own remote computer.
EventsInv(g, s) ==
  \A i \in 1 .. Len(s.events) :
    s.events[i].type = "ClipboardText" => s.events[i].text.owner = g

\* The texts in the command queue are the last the user sent, in order, and the
\* shared text is the one sent before them.
QueueInv(s, texts) ==
  /\ Len(texts) <= MaxSends
  /\ Seen(s.commands, texts) \in 0 .. Len(texts)
  /\ \A i \in 1 .. Len(s.commands) : s.commands[i].type = "SetLocalClipboard" =>
       LET rank == Len(texts) - Queued(s.commands, "SetLocalClipboard", i) IN
       rank \in 1 .. Len(texts) /\ s.commands[i].text = texts[rank]
  /\ s.link = "ended" => s.commands = <<>> /\ s.messages = <<>>

IsShared(text, texts, n) == IF n = 0 THEN text = Empty ELSE text = texts[n]

SharedInv(s, texts) ==
  s.link # "ended" => IsShared(s.shared, texts, Seen(s.commands, texts))

\* The remote computer knows of no text the loop has not seen, and no message
\* on its way tells it of one.
ToldInv(s, texts) ==
  /\ s.server.told = Unheard \/ s.server.told <= Seen(s.commands, texts)
  /\ \A i \in 1 .. Len(s.messages) :
       s.messages[i].type = "Copy" => s.messages[i].sends <= Seen(s.commands, texts)

AnswersInv(s, texts) ==
  \A i \in 1 .. Len(s.messages) :
    s.messages[i].type = "Data" => IsFresh(s.messages[i], texts)

\* Texts received, texts asked for and requests in the queue come from
\* different requests of the user, and no callback asks for a text.
RequestsInv(s) ==
  /\ s.fetched + s.server.wanted + Queued(s.commands, "RequestRemoteClipboard", 0) <= s.requests
  /\ \A i \in 1 .. Len(s.messages) : s.messages[i].type # "Paste"

SessionInv(g, s, texts) ==
  /\ EventsInv(g, s)
  /\ QueueInv(s, texts) /\ SharedInv(s, texts) /\ ToldInv(s, texts) /\ AnswersInv(s, texts)
  /\ RequestsInv(s)

ClipboardInv ==
  /\ TypeOK
  /\ \A g \in Sessions : SessionInv(g, session[g], sent[g])
  /\ handle <= launched
  /\ \A g \in Sessions : g > launched => sent[g] = <<>>
  /\ FieldFromHere

-----------------------------------------------------------------------------
(* Counting the commands of a type behind a place in the queue.            *)

LEMMA QueuedIsNat ==
  ASSUME NEW queue \in Seq(Commands), NEW type, NEW i \in Nat
  PROVE  /\ IsFiniteSet({j \in i + 1 .. Len(queue) : queue[j].type = type})
         /\ Queued(queue, type, i) \in Nat
<1>1. Len(queue) \in Nat
  BY LenProperties
<1>2. IsFiniteSet(i + 1 .. Len(queue))
  BY <1>1, FS_Interval
<1>3. IsFiniteSet({j \in i + 1 .. Len(queue) : queue[j].type = type})
  BY <1>2, FS_Subset
<1> QED
  BY <1>3, FS_CardinalityType DEF Queued

LEMMA QueuedInEmpty ==
  ASSUME NEW type
  PROVE  Queued(<<>>, type, 0) = 0
<1>1. {j \in 0 + 1 .. Len(<<>>) : <<>>[j].type = type} = {}
  BY EmptySeq
<1> QED
  BY <1>1, FS_EmptySet DEF Queued

LEMMA QueuedAfterAppend ==
  ASSUME NEW queue \in Seq(Commands), NEW c \in Commands, NEW type, NEW i \in 0 .. Len(queue)
  PROVE  Queued(Append(queue, c), type, i) =
           IF c.type = type THEN Queued(queue, type, i) + 1 ELSE Queued(queue, type, i)
<1> DEFINE n == Len(queue)
           S == {j \in i + 1 .. n : queue[j].type = type}
           T == {j \in i + 1 .. Len(Append(queue, c)) : Append(queue, c)[j].type = type}
<1>1. /\ n \in Nat /\ Len(Append(queue, c)) = n + 1 /\ Append(queue, c)[n + 1] = c
      /\ \A j \in 1 .. n : Append(queue, c)[j] = queue[j]
  BY LenProperties, AppendProperties
<1>2. n + 1 \notin S /\ IsFiniteSet(S)
  <2>1. IsFiniteSet(i + 1 .. n)
    BY <1>1, FS_Interval
  <2> QED
    BY <1>1, <2>1, FS_Subset
<1>3. CASE c.type = type
  <2>1. T = S \cup {n + 1}
    BY <1>1, <1>3
  <2>2. Cardinality(T) = Cardinality(S) + 1
    BY <1>2, <2>1, FS_AddElement
  <2> QED
    BY <1>3, <2>2 DEF Queued
<1>4. CASE c.type # type
  <2>1. T = S
    BY <1>1, <1>4
  <2> QED
    BY <1>4, <2>1 DEF Queued
<1> QED
  BY <1>3, <1>4

LEMMA QueuedAfterTail ==
  ASSUME NEW queue \in Seq(Commands), queue # <<>>, NEW type, NEW i \in Nat
  PROVE  Queued(Tail(queue), type, i) = Queued(queue, type, i + 1)
<1> DEFINE n == Len(queue)
           S == {j \in i + 1 .. Len(Tail(queue)) : Tail(queue)[j].type = type}
           T == {j \in i + 1 + 1 .. n : queue[j].type = type}
           f == [j \in S |-> j + 1]
<1>1. /\ n \in Nat \ {0} /\ Len(Tail(queue)) = n - 1
      /\ \A j \in 1 .. n - 1 : Tail(queue)[j] = queue[j + 1]
  BY EmptySeq, HeadTailProperties, LenProperties
<1>2. \A j \in S : j + 1 \in T
  BY <1>1
<1>3. \A k \in T : k - 1 \in S /\ f[k - 1] = k
  BY <1>1
<1>4. f \in Bijection(S, T)
  <2>1. f \in [S -> T]
    BY <1>2
  <2>2. \A j, k \in S : f[j] = f[k] => j = k
    BY <1>1
  <2>3. \A k \in T : \E j \in S : f[j] = k
    BY <1>3
  <2> QED
    BY <2>1, <2>2, <2>3 DEF Bijection, Injection, Surjection, IsInjective
<1>5. IsFiniteSet(S)
  <2>1. IsFiniteSet(i + 1 .. Len(Tail(queue)))
    BY <1>1, FS_Interval
  <2> QED
    BY <2>1, FS_Subset
<1>6. Cardinality(T) = Cardinality(S)
  BY <1>4, <1>5, FS_Bijection DEF ExistsBijection
<1> QED
  BY <1>6 DEF Queued

LEMMA QueuedBehindHead ==
  ASSUME NEW queue \in Seq(Commands), queue # <<>>, NEW type
  PROVE  Queued(queue, type, 0) =
           IF Head(queue).type = type THEN Queued(queue, type, 1) + 1 ELSE Queued(queue, type, 1)
<1> DEFINE n == Len(queue)
           S == {j \in 1 + 1 .. n : queue[j].type = type}
           T == {j \in 0 + 1 .. n : queue[j].type = type}
<1>1. n \in Nat \ {0} /\ Head(queue) = queue[1]
  BY EmptySeq, HeadTailProperties, LenProperties
<1>2. 1 \notin S /\ IsFiniteSet(S)
  <2>1. IsFiniteSet(1 + 1 .. n)
    BY <1>1, FS_Interval
  <2> QED
    BY <1>1, <2>1, FS_Subset
<1>3. CASE Head(queue).type = type
  <2>1. T = S \cup {1}
    BY <1>1, <1>3
  <2>2. Cardinality(T) = Cardinality(S) + 1
    BY <1>2, <2>1, FS_AddElement
  <2> QED
    BY <1>3, <2>2 DEF Queued
<1>4. CASE Head(queue).type # type
  <2>1. T = S
    BY <1>1, <1>4
  <2> QED
    BY <1>4, <2>1 DEF Queued
<1> QED
  BY <1>3, <1>4

-----------------------------------------------------------------------------
(* Records of one session.                                                 *)

LEMMA Fields ==
  ASSUME NEW s \in SessionRecords
  PROVE  /\ s.link \in {"none", "down", "up", "ended"} /\ s.shared \in Texts
         /\ s.commands \in Seq(Commands) /\ s.events \in Seq(Events) /\ s.messages \in Seq(Messages)
         /\ s.server \in Servers /\ s.server.told \in 0 .. Unheard /\ s.server.wanted \in 0 .. MaxRequests
         /\ s.copies \in 0 .. MaxCopies /\ s.requests \in 0 .. MaxRequests /\ s.fetched \in 0 .. MaxRequests
BY DEF SessionRecords, Servers

LEMMA Bounds ==
  /\ MaxSessions \in Nat /\ MaxTexts \in Nat /\ MaxCopies \in Nat /\ MaxSends \in Nat
  /\ MaxRequests \in Nat /\ MaxQueue \in Nat /\ Unheard \in Nat /\ Unheard = MaxSends + 1
BY BoundsAssumption DEF Unheard

LEMMA Counters ==
  ASSUME NEW s \in SessionRecords
  PROVE  s.requests \in Nat /\ s.fetched \in Nat /\ s.server.wanted \in Nat /\ s.server.told \in Nat
<1>1. /\ s.requests \in 0 .. MaxRequests /\ s.fetched \in 0 .. MaxRequests
      /\ s.server.wanted \in 0 .. MaxRequests /\ s.server.told \in 0 .. Unheard
  BY Fields
<1> QED
  BY <1>1, Bounds

LEMMA CommandKinds ==
  /\ \A c \in Commands :
       /\ c.type \in {"SetLocalClipboard", "RequestRemoteClipboard"}
       /\ c.type = "SetLocalClipboard" => c.text \in Texts
  /\ Request \in Commands /\ Request.type = "RequestRemoteClipboard"
  /\ \A text \in Texts : /\ SetLocal(text) \in Commands /\ SetLocal(text).type = "SetLocalClipboard"
                         /\ SetLocal(text).text = text
BY DEF Commands, SetLocal, Request

LEMMA MessageKinds ==
  /\ \A n \in 0 .. MaxSends : Copy(n) \in Messages /\ Copy(n).type = "Copy" /\ Copy(n).sends = n
  /\ Paste.type = "Paste"
  /\ \A text \in Texts, n \in 0 .. MaxSends :
       /\ Data(text, n) \in Messages /\ Data(text, n).type = "Data"
       /\ Data(text, n).text = text /\ Data(text, n).asked = n
  /\ \A m \in Messages : /\ m.type \in {"Copy", "Paste", "Data"}
                         /\ m.type = "Copy" => m.sends \in 0 .. MaxSends
<1>1. \A n \in 0 .. MaxSends : Copy(n) \in Messages /\ Copy(n).type = "Copy" /\ Copy(n).sends = n
  BY DEF Messages, Copy
<1>2. Paste.type = "Paste"
  BY DEF Paste
<1>3. \A text \in Texts, n \in 0 .. MaxSends :
        /\ Data(text, n) \in Messages /\ Data(text, n).type = "Data"
        /\ Data(text, n).text = text /\ Data(text, n).asked = n
  BY DEF Messages, Data
<1>4. ASSUME NEW m \in Messages
      PROVE  m.type \in {"Copy", "Paste", "Data"} /\ (m.type = "Copy" => m.sends \in 0 .. MaxSends)
  <2>1. CASE m \in {Copy(n) : n \in 0 .. MaxSends}
    BY <1>1, <2>1
  <2>2. CASE m = Paste
    BY <1>2, <2>2
  <2>3. CASE m \in {Data(text, n) : text \in Texts, n \in 0 .. MaxSends}
    BY <1>3, <2>3
  <2> QED
    BY <2>1, <2>2, <2>3 DEF Messages
<1> QED
  BY <1>1, <1>2, <1>3, <1>4

LEMMA EventKinds ==
  /\ \A text \in Texts : /\ ClipboardText(text) \in Events
                         /\ ClipboardText(text).type = "ClipboardText" /\ ClipboardText(text).text = text
  /\ \A type \in {"Connected", "Reconnecting", "Disconnected"} :
       Plain(type) \in Events /\ Plain(type).type = type
  /\ \A e \in Events : /\ e.type \in {"ClipboardText", "Connected", "Reconnecting", "Disconnected"}
                       /\ e.type = "ClipboardText" => e.text \in Texts
BY DEF Events, ClipboardText, Plain

\* A step that touches neither the commands nor the messages nor the text.
LEMMA QuietStep ==
  ASSUME NEW g, NEW s \in SessionRecords, NEW t \in SessionRecords, NEW texts \in Seq(Texts),
         SessionInv(g, s, texts),
         t.commands = s.commands, t.messages = s.messages, t.shared = s.shared,
         t.link = "ended" <=> s.link = "ended",
         t.server.told = s.server.told \/ t.server.told = Unheard,
         t.fetched + t.server.wanted <= s.fetched + s.server.wanted,
         s.requests <= t.requests, EventsInv(g, t)
  PROVE  SessionInv(g, t, texts)
<1>1. QueueInv(t, texts) /\ SharedInv(t, texts) /\ AnswersInv(t, texts)
  BY DEF SessionInv, QueueInv, SharedInv, AnswersInv
<1>2. ToldInv(t, texts)
  BY DEF SessionInv, ToldInv
<1>3. RequestsInv(t)
  <2>1. Queued(s.commands, "RequestRemoteClipboard", 0) \in Nat
    BY Fields, QueuedIsNat
  <2> QED
    BY <2>1, Counters DEF SessionInv, RequestsInv
<1> QED
  BY <1>1, <1>2, <1>3 DEF SessionInv

\* A text of the user is put in the queue of a thread that runs.
LEMMA TextQueued ==
  ASSUME NEW g, NEW s \in SessionRecords, NEW t \in SessionRecords, NEW texts \in Seq(Texts),
         NEW text \in Texts, SessionInv(g, s, texts), Len(texts) < MaxSends,
         t.commands = Append(s.commands, SetLocal(text)), t.messages = s.messages,
         t.shared = s.shared, t.link = s.link, s.link # "ended", t.server = s.server,
         t.fetched = s.fetched, t.requests = s.requests, t.events = s.events
  PROVE  SessionInv(g, t, Append(texts, text))
<1> DEFINE more == Append(texts, text)
           c == SetLocal(text)
<1>1. /\ Len(texts) \in Nat /\ Len(more) = Len(texts) + 1 /\ more[Len(texts) + 1] = text
      /\ \A i \in 1 .. Len(texts) : more[i] = texts[i]
  BY LenProperties, AppendProperties
<1>2. c \in Commands /\ c.type = "SetLocalClipboard" /\ c.text = text /\ s.commands \in Seq(Commands)
  BY CommandKinds, Fields
<1>3. /\ Len(s.commands) \in Nat /\ Len(t.commands) = Len(s.commands) + 1
      /\ t.commands[Len(s.commands) + 1] = c
      /\ \A i \in 1 .. Len(s.commands) : t.commands[i] = s.commands[i]
  BY <1>2, LenProperties, AppendProperties
<1>4. \A i \in 0 .. Len(s.commands) :
        /\ Queued(s.commands, "SetLocalClipboard", i) \in Nat
        /\ Queued(t.commands, "SetLocalClipboard", i) = Queued(s.commands, "SetLocalClipboard", i) + 1
        /\ Queued(t.commands, "RequestRemoteClipboard", i) = Queued(s.commands, "RequestRemoteClipboard", i)
  <2> TAKE i \in 0 .. Len(s.commands)
  <2>1. i \in Nat
    BY <1>3
  <2>2. Queued(s.commands, "SetLocalClipboard", i) \in Nat
    BY <1>2, <2>1, QueuedIsNat
  <2>3. Queued(t.commands, "SetLocalClipboard", i) = Queued(s.commands, "SetLocalClipboard", i) + 1
    BY <1>2, QueuedAfterAppend
  <2>4. Queued(t.commands, "RequestRemoteClipboard", i) = Queued(s.commands, "RequestRemoteClipboard", i)
    BY <1>2, QueuedAfterAppend
  <2> QED
    BY <2>2, <2>3, <2>4
<1>5. Seen(t.commands, more) = Seen(s.commands, texts) /\ Seen(s.commands, texts) \in 0 .. Len(texts)
  BY <1>1, <1>3, <1>4 DEF Seen, SessionInv, QueueInv
<1>6. QueueInv(t, more)
  <2>1. ASSUME NEW i \in 1 .. Len(t.commands), t.commands[i].type = "SetLocalClipboard"
        PROVE  LET rank == Len(more) - Queued(t.commands, "SetLocalClipboard", i) IN
               rank \in 1 .. Len(more) /\ t.commands[i].text = more[rank]
    <3>1. CASE i = Len(s.commands) + 1
      <4>1. {j \in i + 1 .. Len(t.commands) : t.commands[j].type = "SetLocalClipboard"} = {}
        BY <1>3, <3>1
      <4>2. Queued(t.commands, "SetLocalClipboard", i) = 0
        BY <4>1, FS_EmptySet DEF Queued
      <4> QED
        BY <1>1, <1>2, <1>3, <3>1, <4>2
    <3>2. CASE i # Len(s.commands) + 1
      <4>1. i \in 1 .. Len(s.commands) /\ i \in 0 .. Len(s.commands)
        BY <1>3, <3>2
      <4>2. PICK rank \in 1 .. Len(texts) : /\ rank = Len(texts) - Queued(s.commands, "SetLocalClipboard", i)
                                            /\ s.commands[i].text = texts[rank]
        BY <1>3, <2>1, <4>1 DEF SessionInv, QueueInv
      <4>3. Len(more) - Queued(t.commands, "SetLocalClipboard", i) = rank
        BY <1>1, <1>4, <4>1, <4>2
      <4> QED
        BY <1>1, <1>3, <4>1, <4>2, <4>3
    <3> QED
      BY <3>1, <3>2
  <2> QED
    BY <1>1, <1>5, <2>1, Bounds DEF QueueInv
<1>7. SharedInv(t, more)
  BY <1>1, <1>5 DEF SessionInv, SharedInv, IsShared
<1>8. ToldInv(t, more)
  BY <1>5 DEF SessionInv, ToldInv
<1>9. AnswersInv(t, more)
  BY <1>1 DEF SessionInv, AnswersInv, IsFresh
<1>10. RequestsInv(t) /\ EventsInv(g, t)
  BY <1>3, <1>4 DEF SessionInv, RequestsInv, EventsInv
<1> QED
  BY <1>6, <1>7, <1>8, <1>9, <1>10 DEF SessionInv

\* A request of the user is put in the queue of a thread that runs.
LEMMA RequestQueued ==
  ASSUME NEW g, NEW s \in SessionRecords, NEW t \in SessionRecords, NEW texts \in Seq(Texts),
         SessionInv(g, s, texts),
         t.commands = Append(s.commands, Request), t.messages = s.messages,
         t.shared = s.shared, t.link = s.link, s.link # "ended", t.server = s.server,
         t.fetched = s.fetched, t.requests = s.requests + 1, t.events = s.events
  PROVE  SessionInv(g, t, texts)
<1>1. Request \in Commands /\ Request.type = "RequestRemoteClipboard" /\ s.commands \in Seq(Commands)
  BY CommandKinds, Fields
<1>2. /\ Len(s.commands) \in Nat /\ Len(t.commands) = Len(s.commands) + 1
      /\ t.commands[Len(s.commands) + 1] = Request
      /\ \A i \in 1 .. Len(s.commands) : t.commands[i] = s.commands[i]
  BY <1>1, LenProperties, AppendProperties
<1>3. \A i \in 0 .. Len(s.commands) :
        Queued(t.commands, "SetLocalClipboard", i) = Queued(s.commands, "SetLocalClipboard", i)
  BY <1>1, QueuedAfterAppend
<1>4. /\ Queued(t.commands, "RequestRemoteClipboard", 0) = Queued(s.commands, "RequestRemoteClipboard", 0) + 1
      /\ Queued(s.commands, "RequestRemoteClipboard", 0) \in Nat
  <2>1. 0 \in 0 .. Len(s.commands)
    BY <1>2
  <2>2. Queued(t.commands, "RequestRemoteClipboard", 0) = Queued(s.commands, "RequestRemoteClipboard", 0) + 1
    BY <1>1, <2>1, QueuedAfterAppend
  <2> QED
    BY <1>1, <2>2, QueuedIsNat
<1>5. Seen(t.commands, texts) = Seen(s.commands, texts)
  BY <1>2, <1>3 DEF Seen
<1>6. QueueInv(t, texts)
  <2>1. ASSUME NEW i \in 1 .. Len(t.commands), t.commands[i].type = "SetLocalClipboard"
        PROVE  /\ i \in 1 .. Len(s.commands) /\ t.commands[i] = s.commands[i]
               /\ Queued(t.commands, "SetLocalClipboard", i) = Queued(s.commands, "SetLocalClipboard", i)
    BY <1>1, <1>2, <1>3, <2>1
  <2> QED
    BY <1>5, <2>1 DEF SessionInv, QueueInv
<1>7. SharedInv(t, texts) /\ ToldInv(t, texts) /\ AnswersInv(t, texts) /\ EventsInv(g, t)
  BY <1>5 DEF SessionInv, SharedInv, ToldInv, AnswersInv, EventsInv
<1>8. RequestsInv(t)
  BY <1>4, Counters DEF SessionInv, RequestsInv
<1> QED
  BY <1>6, <1>7, <1>8 DEF SessionInv

\* The loop has taken the first command.
LEMMA QueueTaken ==
  ASSUME NEW s \in SessionRecords, NEW t \in SessionRecords, NEW texts \in Seq(Texts),
         QueueInv(s, texts), s.commands # <<>>, s.link # "ended", t.link = s.link,
         t.commands = Tail(s.commands)
  PROVE  /\ QueueInv(t, texts)
         /\ Head(s.commands) \in Commands
         /\ IF Head(s.commands).type = "SetLocalClipboard"
              THEN /\ Seen(t.commands, texts) = Seen(s.commands, texts) + 1
                   /\ Head(s.commands).text = texts[Seen(s.commands, texts) + 1]
                   /\ Queued(t.commands, "RequestRemoteClipboard", 0)
                        = Queued(s.commands, "RequestRemoteClipboard", 0)
              ELSE /\ Seen(t.commands, texts) = Seen(s.commands, texts)
                   /\ Queued(t.commands, "RequestRemoteClipboard", 0) + 1
                        = Queued(s.commands, "RequestRemoteClipboard", 0)
<1> DEFINE head == Head(s.commands)
<1>1. s.commands \in Seq(Commands) /\ t.commands \in Seq(Commands) /\ Len(texts) \in Nat
  BY Fields, LenProperties
<1>2. /\ Len(s.commands) \in Nat \ {0} /\ Len(t.commands) = Len(s.commands) - 1
      /\ \A i \in 1 .. Len(t.commands) : t.commands[i] = s.commands[i + 1]
      /\ head = s.commands[1] /\ head \in Commands
  BY <1>1, EmptySeq, HeadTailProperties, LenProperties
<1>3. \A i \in Nat :
        Queued(t.commands, "SetLocalClipboard", i) = Queued(s.commands, "SetLocalClipboard", i + 1)
  BY <1>1, QueuedAfterTail
<1>4. Queued(t.commands, "RequestRemoteClipboard", 0) = Queued(s.commands, "RequestRemoteClipboard", 1)
  BY <1>1, QueuedAfterTail
<1>5. Queued(t.commands, "SetLocalClipboard", 0) = Queued(s.commands, "SetLocalClipboard", 1)
  BY <1>3
<1>6. /\ Queued(s.commands, "SetLocalClipboard", 1) \in Nat
      /\ Queued(s.commands, "RequestRemoteClipboard", 1) \in Nat
  BY <1>1, QueuedIsNat
<1>7. /\ Queued(s.commands, "SetLocalClipboard", 0) =
           IF head.type = "SetLocalClipboard" THEN Queued(s.commands, "SetLocalClipboard", 1) + 1
           ELSE Queued(s.commands, "SetLocalClipboard", 1)
      /\ Queued(s.commands, "RequestRemoteClipboard", 0) =
           IF head.type = "RequestRemoteClipboard" THEN Queued(s.commands, "RequestRemoteClipboard", 1) + 1
           ELSE Queued(s.commands, "RequestRemoteClipboard", 1)
  BY <1>1, QueuedBehindHead
<1>8. head.type \in {"SetLocalClipboard", "RequestRemoteClipboard"}
  BY <1>2, CommandKinds
<1>9. Seen(t.commands, texts) =
        IF head.type = "SetLocalClipboard" THEN Seen(s.commands, texts) + 1 ELSE Seen(s.commands, texts)
  BY <1>1, <1>5, <1>6, <1>7 DEF Seen
<1>10. ASSUME head.type = "SetLocalClipboard"
       PROVE  head.text = texts[Seen(s.commands, texts) + 1] /\ Seen(s.commands, texts) + 1 \in 1 .. Len(texts)
  <2>1. Len(texts) - Queued(s.commands, "SetLocalClipboard", 1) = Seen(s.commands, texts) + 1
    BY <1>1, <1>6, <1>7, <1>10 DEF Seen
  <2>2. 1 \in 1 .. Len(s.commands)
    BY <1>2
  <2> QED
    BY <1>2, <1>10, <2>1, <2>2 DEF QueueInv
<1>11. Seen(t.commands, texts) \in 0 .. Len(texts)
  BY <1>1, <1>9, <1>10 DEF QueueInv
<1>12. ASSUME NEW i \in 1 .. Len(t.commands), t.commands[i].type = "SetLocalClipboard"
       PROVE  LET rank == Len(texts) - Queued(t.commands, "SetLocalClipboard", i) IN
              rank \in 1 .. Len(texts) /\ t.commands[i].text = texts[rank]
  <2>1. i + 1 \in 1 .. Len(s.commands) /\ t.commands[i] = s.commands[i + 1] /\ i \in Nat
    BY <1>2
  <2>2. Queued(t.commands, "SetLocalClipboard", i) = Queued(s.commands, "SetLocalClipboard", i + 1)
    BY <1>3, <2>1
  <2> QED
    BY <1>12, <2>1, <2>2 DEF QueueInv
<1>13. QueueInv(t, texts)
  BY <1>11, <1>12 DEF QueueInv
<1> QED
  BY <1>2, <1>4, <1>7, <1>8, <1>9, <1>10, <1>13

\* dispatch_command, with what the remote computer may have heard of it.
LEMMA CommandTaken ==
  ASSUME NEW g, NEW s \in SessionRecords, NEW t \in SessionRecords, NEW texts \in Seq(Texts),
         SessionInv(g, s, texts), s.commands # <<>>, s.link # "ended", t.link = s.link,
         t.commands = Tail(s.commands), t.messages = s.messages, t.events = s.events,
         t.fetched = s.fetched, t.requests = s.requests,
         IF Head(s.commands).type = "RequestRemoteClipboard"
           THEN /\ t.shared = s.shared /\ t.server.told = s.server.told
                /\ t.server.wanted <= s.server.wanted + 1
           ELSE /\ t.shared = Head(s.commands).text /\ t.server.wanted = s.server.wanted
                /\ t.server.told \in {s.server.told, Seen(s.commands, texts) + 1}
  PROVE  SessionInv(g, t, texts)
<1> DEFINE head == Head(s.commands)
<1>1. QueueInv(t, texts) /\ head.type \in {"SetLocalClipboard", "RequestRemoteClipboard"}
  BY QueueTaken, CommandKinds DEF SessionInv
<1>2. PICK seen \in Nat : seen = Seen(s.commands, texts)
  BY LenProperties DEF SessionInv, QueueInv
<1>3. CASE head.type = "SetLocalClipboard"
  <2>1. /\ Seen(t.commands, texts) = seen + 1 /\ head.text = texts[seen + 1]
        /\ Queued(t.commands, "RequestRemoteClipboard", 0) = Queued(s.commands, "RequestRemoteClipboard", 0)
    BY <1>2, <1>3, QueueTaken DEF SessionInv
  <2>2. /\ t.shared = head.text /\ t.server.wanted = s.server.wanted
        /\ t.server.told \in {s.server.told, seen + 1}
    BY <1>2, <1>3
  <2>3. SharedInv(t, texts)
    BY <1>2, <2>1, <2>2 DEF SharedInv, IsShared
  <2>4. ToldInv(t, texts)
    <3>1. t.server.told = Unheard \/ t.server.told <= seen + 1
      BY <1>2, <2>2, Counters DEF SessionInv, ToldInv
    <3>2. ASSUME NEW i \in 1 .. Len(t.messages), t.messages[i].type = "Copy"
          PROVE  t.messages[i].sends <= seen + 1
      <4>1. t.messages[i] \in Messages
        BY Fields, ElementOfSeq
      <4>2. t.messages[i].sends \in Nat
        BY <3>2, <4>1, MessageKinds, Bounds
      <4> QED
        BY <1>2, <3>2, <4>2 DEF SessionInv, ToldInv
    <3> QED
      BY <2>1, <3>1, <3>2 DEF ToldInv
  <2>5. RequestsInv(t)
    BY <2>1, <2>2 DEF SessionInv, RequestsInv
  <2> QED
    BY <1>1, <2>3, <2>4, <2>5 DEF SessionInv, EventsInv, AnswersInv
<1>4. CASE head.type = "RequestRemoteClipboard"
  <2>1. /\ Seen(t.commands, texts) = seen
        /\ Queued(t.commands, "RequestRemoteClipboard", 0) + 1 = Queued(s.commands, "RequestRemoteClipboard", 0)
    BY <1>2, <1>4, QueueTaken DEF SessionInv
  <2>2. t.shared = s.shared /\ t.server.told = s.server.told /\ t.server.wanted <= s.server.wanted + 1
    BY <1>4
  <2>3. SharedInv(t, texts) /\ ToldInv(t, texts)
    BY <1>2, <2>1, <2>2 DEF SessionInv, SharedInv, ToldInv
  <2>4. RequestsInv(t)
    <3>1. Queued(t.commands, "RequestRemoteClipboard", 0) \in Nat
      BY Fields, QueuedIsNat
    <3> QED
      BY <2>1, <2>2, <3>1, Counters, SMTT(30) DEF SessionInv, RequestsInv
  <2> QED
    BY <1>1, <2>3, <2>4 DEF SessionInv, EventsInv, AnswersInv
<1> QED
  BY <1>1, <1>3, <1>4

\* The loop forwards a message of the backend.
LEMMA MessageTaken ==
  ASSUME NEW g, NEW s \in SessionRecords, NEW t \in SessionRecords, NEW texts \in Seq(Texts),
         SessionInv(g, s, texts), s.messages # <<>>, s.link # "ended", t.link = s.link,
         t.commands = s.commands, t.messages = Tail(s.messages), t.shared = s.shared,
         t.events = s.events, t.fetched = s.fetched, t.requests = s.requests,
         t.server.wanted = s.server.wanted,
         \/ t.server.told = s.server.told
         \/ Head(s.messages).type = "Copy" /\ t.server.told = Head(s.messages).sends
  PROVE  SessionInv(g, t, texts)
<1>1. s.messages \in Seq(Messages)
  BY Fields
<1>2. /\ Len(s.messages) \in Nat \ {0} /\ Len(t.messages) = Len(s.messages) - 1
      /\ \A i \in 1 .. Len(t.messages) : t.messages[i] = s.messages[i + 1]
      /\ Head(s.messages) = s.messages[1] /\ 1 \in 1 .. Len(s.messages)
  BY <1>1, EmptySeq, HeadTailProperties, LenProperties
<1>3. \A i \in 1 .. Len(t.messages) : i + 1 \in 1 .. Len(s.messages) /\ t.messages[i] = s.messages[i + 1]
  BY <1>2
<1>4. QueueInv(t, texts) /\ SharedInv(t, texts)
  BY DEF SessionInv, QueueInv, SharedInv
<1>5. ToldInv(t, texts) /\ AnswersInv(t, texts)
  BY <1>2, <1>3 DEF SessionInv, ToldInv, AnswersInv
<1>6. RequestsInv(t) /\ EventsInv(g, t)
  BY <1>3 DEF SessionInv, RequestsInv, EventsInv
<1> QED
  BY <1>4, <1>5, <1>6 DEF SessionInv

\* A callback of the backend queues a message.
LEMMA MessagePut ==
  ASSUME NEW g, NEW s \in SessionRecords, NEW t \in SessionRecords, NEW texts \in Seq(Texts),
         SessionInv(g, s, texts), s.link # "ended", t.link = s.link, NEW m \in Messages,
         t.commands = s.commands, t.messages = Append(s.messages, m), t.shared = s.shared,
         t.events = s.events, t.fetched = s.fetched, t.requests = s.requests, t.server = s.server,
         m.type # "Paste",
         m.type = "Copy" => m.sends <= Seen(s.commands, texts),
         m.type = "Data" => IsFresh(m, texts)
  PROVE  SessionInv(g, t, texts)
<1>1. s.messages \in Seq(Messages)
  BY Fields
<1>2. /\ Len(s.messages) \in Nat /\ Len(t.messages) = Len(s.messages) + 1
      /\ \A i \in 1 .. Len(s.messages) : t.messages[i] = s.messages[i]
      /\ t.messages[Len(s.messages) + 1] = m
  BY <1>1, LenProperties, AppendProperties
<1>3. \A i \in 1 .. Len(t.messages) :
        t.messages[i] = m \/ (i \in 1 .. Len(s.messages) /\ t.messages[i] = s.messages[i])
  <2> TAKE i \in 1 .. Len(t.messages)
  <2>1. CASE i = Len(s.messages) + 1
    BY <1>2, <2>1
  <2>2. CASE i # Len(s.messages) + 1
    BY <1>2, <2>2
  <2> QED
    BY <2>1, <2>2
<1>4. QueueInv(t, texts) /\ SharedInv(t, texts)
  BY DEF SessionInv, QueueInv, SharedInv
<1>5. ToldInv(t, texts) /\ AnswersInv(t, texts)
  BY <1>3 DEF SessionInv, ToldInv, AnswersInv
<1>6. RequestsInv(t) /\ EventsInv(g, t)
  BY <1>3 DEF SessionInv, RequestsInv, EventsInv
<1> QED
  BY <1>4, <1>5, <1>6 DEF SessionInv

\* Nothing is left in the channels of a thread that returns or starts.
LEMMA EmptyChannels ==
  ASSUME NEW g, NEW t \in SessionRecords, NEW texts \in Seq(Texts), Len(texts) <= MaxSends,
         t.commands = <<>>, t.messages = <<>>, t.server = FreshServer, t.fetched <= t.requests,
         t.link # "ended" => texts = <<>> /\ t.shared = Empty, EventsInv(g, t)
  PROVE  SessionInv(g, t, texts)
<1>1. Len(texts) \in Nat /\ Len(<<>>) = 0
  BY LenProperties, EmptySeq
<1>2. Seen(t.commands, texts) = Len(texts) /\ Queued(t.commands, "RequestRemoteClipboard", 0) = 0
  BY <1>1, QueuedInEmpty DEF Seen
<1>3. \A i \in 1 .. Len(t.commands) : FALSE
  BY <1>1
<1>4. \A i \in 1 .. Len(t.messages) : FALSE
  BY <1>1
<1>5. QueueInv(t, texts) /\ SharedInv(t, texts)
  BY <1>1, <1>2, <1>3 DEF QueueInv, SharedInv, IsShared
<1>6. ToldInv(t, texts) /\ AnswersInv(t, texts)
  BY <1>4 DEF ToldInv, AnswersInv, FreshServer
<1>7. RequestsInv(t)
  BY <1>2, <1>4, Counters DEF RequestsInv, FreshServer
<1> QED
  BY <1>5, <1>6, <1>7 DEF SessionInv

-----------------------------------------------------------------------------
(* The steps of a session.                                                 *)

\* The state of one session and what the user sent it.
LEMMA OneSession ==
  ASSUME ClipboardInv, NEW g \in Sessions
  PROVE  /\ session[g] \in SessionRecords /\ sent[g] \in Seq(Texts)
         /\ SessionInv(g, session[g], sent[g]) /\ EventsInv(g, session[g])
         /\ Len(sent[g]) <= MaxSends
BY DEF ClipboardInv, TypeOK, SessionInv, QueueInv

\* A step of one session leaves the others and the user interface alone.
LEMMA SessionKeeps ==
  ASSUME ClipboardInv, NEW g \in Sessions, NEW t \in SessionRecords,
         session' = [session EXCEPT ![g] = t], UNCHANGED <<ui, sent>>,
         SessionInv(g, t, sent[g])
  PROVE  ClipboardInv'
<1>1. session \in [Sessions -> SessionRecords]
  BY DEF ClipboardInv, TypeOK
<1>2. session' \in [Sessions -> SessionRecords]
  BY <1>1
<1>3. \A h \in Sessions : session'[h] = IF h = g THEN t ELSE session[h]
  BY <1>1
<1>4. \A h \in Sessions : SessionInv(h, session'[h], sent'[h])
  BY <1>3 DEF ClipboardInv
<1>5. TypeOK'
  BY <1>2 DEF ClipboardInv, TypeOK, ui
<1> QED
  BY <1>4, <1>5 DEF ClipboardInv, FieldFromHere, ui

LEMMA SessionAfterTail ==
  ASSUME NEW S, NEW seq \in Seq(S), seq # <<>>
  PROVE  Tail(seq) \in Seq(S) /\ Head(seq) \in S
BY HeadTailProperties

LEMMA RecvCommandKeeps ==
  ASSUME ClipboardInv, NEW g \in Sessions, RecvCommand(g)
  PROVE  ClipboardInv'
<1> DEFINE s == session[g]
           head == Head(s.commands)
           message == IF head.type = Request.type THEN Paste ELSE Copy(SendsSeen(g) + 1)
           t == [s EXCEPT !.commands = Tail(@), !.shared = SharedAfter(g, head),
                          !.server = ServerAfter(g, message)]
<1>1. /\ s \in SessionRecords /\ sent[g] \in Seq(Texts) /\ SessionInv(g, s, sent[g])
      /\ session \in [Sessions -> SessionRecords]
  BY OneSession DEF ClipboardInv, TypeOK
<1>2. s.link \in {"down", "up"} /\ s.commands # <<>> /\ UNCHANGED <<ui, sent>>
  BY DEF RecvCommand
<1>3. session' = [session EXCEPT ![g] = t]
  BY <1>1 DEF RecvCommand
<1>4. head \in Commands /\ Tail(s.commands) \in Seq(Commands)
  BY <1>1, <1>2, Fields, SessionAfterTail
<1>5. PICK taken \in SessionRecords : taken.commands = Tail(s.commands) /\ taken.link = s.link
  <2>1. [s EXCEPT !.commands = Tail(@)] \in SessionRecords
    BY <1>1, <1>4 DEF SessionRecords
  <2> QED
    BY <1>1, <2>1 DEF SessionRecords
<1>6. /\ QueueInv(taken, sent[g])
      /\ head.type = "SetLocalClipboard" => Seen(taken.commands, sent[g]) = SendsSeen(g) + 1
      /\ head.type # "SetLocalClipboard" =>
           Queued(taken.commands, "RequestRemoteClipboard", 0) + 1
             = Queued(s.commands, "RequestRemoteClipboard", 0)
  BY <1>1, <1>2, <1>5, QueueTaken DEF SessionInv, SendsSeen
<1>7. head.type = "SetLocalClipboard" <=> head.type # Request.type
  BY <1>4, CommandKinds
<1>8. PICK seen \in Nat : seen = SendsSeen(g)
  BY <1>1, LenProperties DEF SessionInv, QueueInv, SendsSeen
<1>9. head.type # Request.type => seen + 1 \in 0 .. MaxSends
  BY <1>1, <1>6, <1>7, <1>8, LenProperties, Bounds DEF QueueInv
<1>10. head.type = Request.type => s.server.wanted + 1 \in 0 .. MaxRequests
  <2>1. Queued(taken.commands, "RequestRemoteClipboard", 0) \in Nat
    BY Fields, QueuedIsNat
  <2>2. s.requests \in 0 .. MaxRequests
    BY <1>1, Fields
  <2>3. s.fetched + s.server.wanted + Queued(s.commands, "RequestRemoteClipboard", 0) <= s.requests
    BY <1>1 DEF SessionInv, RequestsInv
  <2> QED
    BY <1>1, <1>6, <1>7, <2>1, <2>2, <2>3, Counters, Bounds
<1>11. PICK server \in Servers :
         /\ server = ServerAfter(g, message)
         /\ IF head.type = Request.type
              THEN server.told = s.server.told /\ server.wanted \in {s.server.wanted, s.server.wanted + 1}
              ELSE server.wanted = s.server.wanted /\ server.told \in {s.server.told, seen + 1}
  <2>1. s.server \in Servers
    BY <1>1, Fields
  <2>2. CASE s.link # "up"
    BY <2>1, <2>2 DEF ServerAfter
  <2>3. CASE s.link = "up" /\ head.type = Request.type
    <3>1. ServerAfter(g, message) = [s.server EXCEPT !.wanted = @ + 1]
      BY <2>3 DEF ServerAfter, Paste
    <3> QED
      BY <1>10, <2>1, <2>3, <3>1 DEF Servers
  <2>4. CASE s.link = "up" /\ head.type # Request.type
    <3>1. ServerAfter(g, message) = [s.server EXCEPT !.told = seen + 1]
      BY <1>8, <2>4 DEF ServerAfter, Copy
    <3>2. seen + 1 \in 0 .. Unheard
      BY <1>9, <2>4, Bounds
    <3> QED
      BY <2>1, <2>4, <3>1, <3>2 DEF Servers
  <2> QED
    BY <2>2, <2>3, <2>4
<1>12. SharedAfter(g, head) \in Texts
  BY <1>1, <1>4, <1>7, CommandKinds, Fields DEF SharedAfter
<1>13. t \in SessionRecords
  BY <1>1, <1>4, <1>11, <1>12 DEF SessionRecords
<1>14. /\ t.link = s.link /\ t.commands = Tail(s.commands) /\ t.messages = s.messages
       /\ t.events = s.events /\ t.fetched = s.fetched /\ t.requests = s.requests
       /\ t.shared = SharedAfter(g, head) /\ t.server = server
  BY <1>1, <1>11 DEF SessionRecords
<1>15. SessionInv(g, t, sent[g])
  <2>1. CASE head.type = Request.type
    <3>1. t.shared = s.shared /\ t.server.told = s.server.told /\ t.server.wanted <= s.server.wanted + 1
      BY <1>1, <1>11, <1>14, <2>1, Counters DEF SharedAfter
    <3>2. head.type = "RequestRemoteClipboard"
      BY <2>1, CommandKinds
    <3> QED
      BY <1>1, <1>2, <1>13, <1>14, <3>1, <3>2, CommandTaken
  <2>2. CASE head.type # Request.type
    <3>1. /\ t.shared = head.text /\ t.server.wanted = s.server.wanted
          /\ t.server.told \in {s.server.told, Seen(s.commands, sent[g]) + 1}
      BY <1>8, <1>11, <1>14, <2>2 DEF SharedAfter, SendsSeen
    <3>2. head.type # "RequestRemoteClipboard"
      BY <2>2, CommandKinds
    <3> QED
      BY <1>1, <1>2, <1>13, <1>14, <3>1, <3>2, CommandTaken
  <2> QED
    BY <2>1, <2>2
<1> QED
  BY <1>2, <1>3, <1>13, <1>15, SessionKeeps

\* What a step of a session starts from.
LEMMA Given ==
  ASSUME ClipboardInv, NEW g \in Sessions
  PROVE  /\ session \in [Sessions -> SessionRecords]
         /\ session[g] \in SessionRecords /\ sent[g] \in Seq(Texts)
         /\ SessionInv(g, session[g], sent[g])
         /\ SendsSeen(g) = Seen(session[g].commands, sent[g])
         /\ SendsSeen(g) \in 0 .. MaxSends /\ SendsSeen(g) <= Len(sent[g])
<1>1. /\ session \in [Sessions -> SessionRecords] /\ session[g] \in SessionRecords
      /\ sent[g] \in Seq(Texts) /\ SessionInv(g, session[g], sent[g])
  BY OneSession DEF ClipboardInv, TypeOK
<1>2. SendsSeen(g) = Seen(session[g].commands, sent[g])
  BY DEF SendsSeen
<1>3. SendsSeen(g) \in 0 .. MaxSends /\ SendsSeen(g) <= Len(sent[g])
  BY <1>1, <1>2, Bounds, LenProperties DEF SessionInv, QueueInv
<1> QED
  BY <1>1, <1>2, <1>3

LEMMA RecvClipboardKeeps ==
  ASSUME ClipboardInv, NEW g \in Sessions, RecvClipboard(g)
  PROVE  ClipboardInv'
<1> DEFINE s == session[g]
           m == Head(s.messages)
           t == [s EXCEPT !.messages = Tail(@), !.server = ServerAfter(g, m)]
<1>1. s \in SessionRecords /\ sent[g] \in Seq(Texts) /\ SessionInv(g, s, sent[g])
  BY Given
<1>2. s.link \in {"down", "up"} /\ s.messages # <<>> /\ UNCHANGED <<ui, sent>>
  BY DEF RecvClipboard
<1>3. session' = [session EXCEPT ![g] = t]
  BY Given DEF RecvClipboard
<1>4. m \in Messages /\ Tail(s.messages) \in Seq(Messages) /\ m.type # "Paste"
  <2>1. m \in Messages /\ Tail(s.messages) \in Seq(Messages)
    BY <1>1, <1>2, Fields, SessionAfterTail
  <2>2. m = s.messages[1] /\ 1 \in 1 .. Len(s.messages)
    BY <1>1, <1>2, Fields, EmptySeq, HeadTailProperties, LenProperties
  <2> QED
    BY <1>1, <2>1, <2>2 DEF SessionInv, RequestsInv
<1>5. PICK server \in Servers :
        /\ server = ServerAfter(g, m) /\ server.wanted = s.server.wanted
        /\ server.told = s.server.told \/ (m.type = "Copy" /\ server.told = m.sends)
  <2>1. s.server \in Servers
    BY <1>1, Fields
  <2>2. CASE s.link = "up" /\ m.type = "Copy"
    <3>1. ServerAfter(g, m) = [s.server EXCEPT !.told = m.sends]
      BY <2>2 DEF ServerAfter
    <3>2. m.sends \in 0 .. Unheard
      BY <1>4, <2>2, MessageKinds, Bounds
    <3> QED
      BY <2>1, <2>2, <3>1, <3>2 DEF Servers
  <2>3. CASE ~ (s.link = "up" /\ m.type = "Copy")
    <3>1. ServerAfter(g, m) = s.server
      BY <1>4, <2>3, MessageKinds DEF ServerAfter
    <3> QED
      BY <2>1, <3>1
  <2> QED
    BY <2>2, <2>3
<1>6. t \in SessionRecords
  BY <1>1, <1>4, <1>5 DEF SessionRecords
<1>7. /\ t.link = s.link /\ t.commands = s.commands /\ t.messages = Tail(s.messages)
      /\ t.shared = s.shared /\ t.events = s.events /\ t.fetched = s.fetched
      /\ t.requests = s.requests /\ t.server = server
  BY <1>1, <1>5 DEF SessionRecords
<1>8. SessionInv(g, t, sent[g])
  BY <1>1, <1>2, <1>5, <1>6, <1>7, MessageTaken
<1> QED
  BY <1>2, <1>3, <1>6, <1>8, SessionKeeps

\* The callbacks that queue a message.
LEMMA FormatsKeep ==
  ASSUME ClipboardInv, NEW g \in Sessions, OnRequestFormatList(g) \/ OnFormatDataRequest(g)
  PROVE  ClipboardInv'
<1> DEFINE s == session[g]
<1>1. s \in SessionRecords /\ sent[g] \in Seq(Texts) /\ SessionInv(g, s, sent[g])
  BY Given
<1>2. s.link = "up" /\ UNCHANGED <<ui, sent>>
  BY DEF OnRequestFormatList, OnFormatDataRequest, CanQueue
<1>3. PICK m \in Messages :
        /\ session' = [session EXCEPT ![g].messages = Append(@, m)]
        /\ m.type # "Paste"
        /\ m.type = "Copy" => m.sends <= Seen(s.commands, sent[g])
        /\ m.type = "Data" => IsFresh(m, sent[g])
  <2>1. CASE OnRequestFormatList(g)
    <3>1. PICK m \in Messages : m = Copy(SendsSeen(g)) /\ m.type = "Copy" /\ m.sends = SendsSeen(g)
      BY Given, MessageKinds
    <3>2. session' = [session EXCEPT ![g].messages = Append(@, m)]
      BY <2>1, <3>1 DEF OnRequestFormatList
    <3>3. m.sends <= Seen(s.commands, sent[g])
      BY <3>1, Given
    <3> QED
      BY <3>1, <3>2, <3>3
  <2>2. CASE OnFormatDataRequest(g)
    <3>1. s.server.told # Unheard /\ s.server.told \in 0 .. Unheard /\ s.shared \in Texts
      BY <1>1, <2>2, Fields DEF OnFormatDataRequest
    <3>2. s.server.told \in 0 .. MaxSends
      BY <3>1, Bounds
    <3>3. PICK m \in Messages : /\ m = Data(s.shared, s.server.told) /\ m.type = "Data"
                                /\ m.text = s.shared /\ m.asked = s.server.told
      BY <3>1, <3>2, MessageKinds
    <3>4. session' = [session EXCEPT ![g].messages = Append(@, m)]
      BY <2>2, <3>3 DEF OnFormatDataRequest
    <3>5. IsFresh(m, sent[g])
      <4>1. s.server.told <= SendsSeen(g) /\ SendsSeen(g) \in 0 .. MaxSends /\ SendsSeen(g) <= Len(sent[g])
        BY <1>1, <3>1, Given DEF SessionInv, ToldInv
      <4>2. IsShared(s.shared, sent[g], SendsSeen(g))
        BY <1>1, <1>2, Given DEF SessionInv, SharedInv
      <4>3. CASE SendsSeen(g) = 0
        BY <3>2, <3>3, <4>1, <4>2, <4>3 DEF IsFresh, IsShared
      <4>4. CASE SendsSeen(g) # 0
        <5>1. SendsSeen(g) \in 1 .. Len(sent[g])
          BY <1>1, <4>1, <4>4, Bounds, LenProperties
        <5> QED
          BY <3>3, <4>1, <4>2, <4>4, <5>1 DEF IsFresh, IsShared
      <4> QED
        BY <4>3, <4>4
    <3> QED
      BY <3>3, <3>4, <3>5
  <2> QED
    BY <2>1, <2>2
<1> DEFINE t == [s EXCEPT !.messages = Append(@, m)]
<1>4. session' = [session EXCEPT ![g] = t]
  BY <1>3
<1>5. Append(s.messages, m) \in Seq(Messages)
  BY <1>1, Fields, AppendProperties
<1>6. t \in SessionRecords
  BY <1>1, <1>5 DEF SessionRecords
<1>7. /\ t.link = s.link /\ t.commands = s.commands /\ t.messages = Append(s.messages, m)
      /\ t.shared = s.shared /\ t.events = s.events /\ t.fetched = s.fetched
      /\ t.requests = s.requests /\ t.server = s.server
  BY <1>1 DEF SessionRecords
<1>8. SessionInv(g, t, sent[g])
  BY <1>1, <1>2, <1>3, <1>6, <1>7, MessagePut
<1> QED
  BY <1>2, <1>4, <1>6, <1>8, SessionKeeps

OwnEvents(g, list) == \A i \in 1 .. Len(list) : list[i].type = "ClipboardText" => list[i].text.owner = g

LEMMA AppendedEvents ==
  ASSUME NEW g, NEW list \in Seq(Events), OwnEvents(g, list), NEW e \in Events,
         e.type = "ClipboardText" => e.text.owner = g
  PROVE  list \o <<e>> \in Seq(Events) /\ OwnEvents(g, list \o <<e>>)
<1>1. PICK more \in Seq(Events) : more = Append(list, e) /\ more = list \o <<e>>
  BY AppendIsConcat, AppendProperties
<1>2. /\ Len(list) \in Nat /\ Len(more) = Len(list) + 1 /\ more[Len(list) + 1] = e
      /\ \A i \in 1 .. Len(list) : more[i] = list[i]
  BY <1>1, LenProperties, AppendProperties
<1>3. ASSUME NEW i \in 1 .. Len(more), more[i].type = "ClipboardText"
      PROVE  more[i].text.owner = g
  <2>1. CASE i = Len(list) + 1
    BY <1>2, <1>3, <2>1
  <2>2. CASE i # Len(list) + 1
    BY <1>2, <1>3, <2>2 DEF OwnEvents
  <2> QED
    BY <2>1, <2>2
<1> QED
  BY <1>1, <1>3 DEF OwnEvents

\* What a session tells of itself, whether it is held or not.
LEMMA EmittedEvents ==
  ASSUME ClipboardInv, NEW g \in Sessions, NEW e \in Events, e.type = "ClipboardText" => e.text.owner = g
  PROVE  Emitted(g, <<e>>) \in Seq(Events) /\ OwnEvents(g, Emitted(g, <<e>>))
<1>1. session[g].events \in Seq(Events) /\ OwnEvents(g, session[g].events)
  BY Given, Fields DEF SessionInv, EventsInv, OwnEvents
<1> QED
  BY <1>1, AppendedEvents DEF Emitted

LEMMA ReturnKeeps ==
  ASSUME ClipboardInv, NEW g \in Sessions, Return(g)
  PROVE  ClipboardInv'
<1> DEFINE s == session[g]
           list == Emitted(g, <<Plain("Disconnected")>>)
           t == [s EXCEPT !.link = "ended", !.shared = Empty, !.commands = <<>>, !.messages = <<>>,
                          !.server = FreshServer, !.events = list]
<1>1. s \in SessionRecords /\ sent[g] \in Seq(Texts) /\ Len(sent[g]) <= MaxSends /\ SessionInv(g, s, sent[g])
  BY Given, OneSession
<1>2. session' = [session EXCEPT ![g] = t] /\ UNCHANGED <<ui, sent>>
  BY DEF Return
<1>3. list \in Seq(Events) /\ OwnEvents(g, list)
  BY EmittedEvents, EventKinds
<1>4. Empty \in Texts /\ FreshServer \in Servers
  BY Bounds DEF Texts, Empty, Servers, FreshServer
<1>5. t \in SessionRecords
  BY <1>1, <1>3, <1>4, EmptySeq DEF SessionRecords
<1>6. /\ t.link = "ended" /\ t.commands = <<>> /\ t.messages = <<>> /\ t.server = FreshServer
      /\ t.events = list /\ t.fetched = s.fetched /\ t.requests = s.requests
  BY <1>1 DEF SessionRecords
<1>7. t.fetched <= t.requests
  <2>1. Queued(s.commands, "RequestRemoteClipboard", 0) \in Nat
    BY <1>1, Fields, QueuedIsNat
  <2> QED
    BY <1>1, <1>6, <2>1, Counters DEF SessionInv, RequestsInv
<1>8. SessionInv(g, t, sent[g])
  BY <1>1, <1>3, <1>5, <1>6, <1>7, EmptyChannels DEF OwnEvents, EventsInv
<1> QED
  BY <1>2, <1>5, <1>8, SessionKeeps

\* Steps that neither move a text nor a request.
LEMMA ConnectionKeeps ==
  ASSUME ClipboardInv, NEW g \in Sessions, ConnectionUp(g) \/ ConnectionDown(g)
  PROVE  ClipboardInv'
<1> DEFINE s == session[g]
<1>1. s \in SessionRecords /\ sent[g] \in Seq(Texts) /\ SessionInv(g, s, sent[g])
  BY Given
<1>2. PICK link \in {"down", "up"}, server \in {s.server, FreshServer}, list \in Seq(Events) :
        /\ session' = [session EXCEPT ![g].link = link, ![g].server = server, ![g].events = list]
        /\ OwnEvents(g, list)
  <2>1. CASE ConnectionUp(g)
    <3>1. session' = [session EXCEPT ![g].link = "up", ![g].server = s.server,
                                     ![g].events = Emitted(g, <<Plain("Connected")>>)]
      BY <1>1, <2>1, Given DEF ConnectionUp, SessionRecords
    <3>2. /\ Emitted(g, <<Plain("Connected")>>) \in Seq(Events)
          /\ OwnEvents(g, Emitted(g, <<Plain("Connected")>>))
      BY EmittedEvents, EventKinds
    <3> QED
      BY <3>1, <3>2
  <2>2. CASE ConnectionDown(g)
    <3>1. session' = [session EXCEPT ![g].link = "down", ![g].server = FreshServer,
                                     ![g].events = Emitted(g, <<Plain("Reconnecting")>>)]
      BY <2>2 DEF ConnectionDown
    <3>2. /\ Emitted(g, <<Plain("Reconnecting")>>) \in Seq(Events)
          /\ OwnEvents(g, Emitted(g, <<Plain("Reconnecting")>>))
      BY EmittedEvents, EventKinds
    <3> QED
      BY <3>1, <3>2
  <2> QED
    BY <2>1, <2>2
<1> DEFINE t == [s EXCEPT !.link = link, !.server = server, !.events = list]
<1>3. session' = [session EXCEPT ![g] = t]
  BY <1>2
<1>4. UNCHANGED <<ui, sent>> /\ s.link # "ended"
  BY DEF ConnectionUp, ConnectionDown
<1>5. server \in Servers /\ server.wanted <= s.server.wanted
  <2>1. FreshServer \in Servers /\ FreshServer.wanted = 0
    BY Bounds DEF Servers, FreshServer
  <2> QED
    BY <1>1, <2>1, Fields, Counters
<1>6. t \in SessionRecords
  BY <1>1, <1>2, <1>5 DEF SessionRecords
<1>7. /\ t.link = link /\ t.commands = s.commands /\ t.messages = s.messages
      /\ t.shared = s.shared /\ t.events = list /\ t.fetched = s.fetched
      /\ t.requests = s.requests /\ t.server = server
  BY <1>1 DEF SessionRecords
<1>8. EventsInv(g, t) /\ (server.told = s.server.told \/ server.told = Unheard)
  BY <1>2, <1>7 DEF EventsInv, OwnEvents, FreshServer
<1>9. t.fetched + t.server.wanted <= s.fetched + s.server.wanted /\ s.requests <= t.requests
  <2>1. /\ s.fetched \in Nat /\ s.server.wanted \in Nat /\ s.requests \in Nat
        /\ server.wanted \in 0 .. MaxRequests
    BY <1>1, <1>5, Counters DEF Servers
  <2>2. s.fetched + server.wanted <= s.fetched + s.server.wanted
    BY <1>5, <2>1, Bounds
  <2> QED
    BY <1>7, <2>1, <2>2
<1>10. SessionInv(g, t, sent[g])
  BY <1>1, <1>4, <1>6, <1>7, <1>8, <1>9, QuietStep
<1> QED
  BY <1>3, <1>4, <1>6, <1>10, SessionKeeps

LEMMA RemoteCopyKeeps ==
  ASSUME ClipboardInv, NEW g \in Sessions, OnRemoteCopy(g)
  PROVE  ClipboardInv'
<1> DEFINE s == session[g]
           t == [s EXCEPT !.copies = @ + 1]
<1>1. s \in SessionRecords /\ sent[g] \in Seq(Texts) /\ SessionInv(g, s, sent[g])
  BY Given
<1>2. session' = [session EXCEPT ![g] = t] /\ UNCHANGED <<ui, sent>> /\ s.copies < MaxCopies
  BY <1>1, Given DEF OnRemoteCopy, MessagesAfterRemoteCopy, SessionRecords
<1>3. s.copies + 1 \in 0 .. MaxCopies
  BY <1>1, <1>2, Fields, Bounds
<1>4. t \in SessionRecords
  BY <1>1, <1>3 DEF SessionRecords
<1>5. /\ t.link = s.link /\ t.commands = s.commands /\ t.messages = s.messages
      /\ t.shared = s.shared /\ t.events = s.events /\ t.fetched = s.fetched
      /\ t.requests = s.requests /\ t.server = s.server
  BY <1>1 DEF SessionRecords
<1>6. SessionInv(g, t, sent[g])
  BY <1>1, <1>5 DEF SessionInv, EventsInv, QueueInv, SharedInv, ToldInv, AnswersInv, RequestsInv
<1> QED
  BY <1>2, <1>4, <1>6, SessionKeeps

\* The text of the remote computer answers one request.
LEMMA ResponseKeeps ==
  ASSUME ClipboardInv, NEW g \in Sessions, OnFormatDataResponse(g)
  PROVE  ClipboardInv'
<1> DEFINE s == session[g]
           answer == Emitted(g, <<ClipboardText(Text(g, s.copies))>>)
           server == [s.server EXCEPT !.wanted = @ - 1]
           t == [s EXCEPT !.server = server,
                          !.events = IF s.copies = 0 THEN @ ELSE answer,
                          !.fetched = IF s.copies = 0 THEN @ ELSE @ + 1]
<1>1. s \in SessionRecords /\ sent[g] \in Seq(Texts) /\ SessionInv(g, s, sent[g])
  BY Given
<1>2. session' = [session EXCEPT ![g] = t]
  BY <1>1, Given DEF OnFormatDataResponse, SessionRecords
<1>3. UNCHANGED <<ui, sent>> /\ s.server.wanted > 0
  BY DEF OnFormatDataResponse
<1>4. /\ server \in Servers /\ server.told = s.server.told /\ server.wanted = s.server.wanted - 1
  <2>1. s.server.wanted - 1 \in 0 .. MaxRequests
    BY <1>1, <1>3, Fields, Counters, Bounds
  <2> QED
    BY <1>1, <2>1, Fields DEF Servers
<1>5. s.copies # 0 => answer \in Seq(Events) /\ OwnEvents(g, answer)
  <2> SUFFICES ASSUME s.copies # 0 PROVE answer \in Seq(Events) /\ OwnEvents(g, answer)
    OBVIOUS
  <2>1. s.copies \in 1 .. MaxCopies
    BY <1>1, Fields, Bounds
  <2>2. Text(g, s.copies) \in Texts /\ Text(g, s.copies).owner = g
    BY <2>1 DEF Texts, Text
  <2> QED
    BY <2>2, EventKinds, EmittedEvents
<1>6. s.copies # 0 => s.fetched + 1 \in 0 .. MaxRequests
  <2>1. Queued(s.commands, "RequestRemoteClipboard", 0) \in Nat
    BY <1>1, Fields, QueuedIsNat
  <2>2. s.fetched + s.server.wanted + Queued(s.commands, "RequestRemoteClipboard", 0) <= s.requests
    BY <1>1 DEF SessionInv, RequestsInv
  <2>3. s.requests \in 0 .. MaxRequests /\ s.fetched \in Nat /\ s.server.wanted \in Nat
    BY <1>1, Fields, Counters
  <2>4. s.fetched + 1 <= s.requests
    BY <1>3, <2>1, <2>2, <2>3, Bounds
  <2> QED
    BY <2>3, <2>4, Bounds
<1>7. t \in SessionRecords
  BY <1>1, <1>4, <1>5, <1>6 DEF SessionRecords
<1>8. PICK r \in SessionRecords :
        /\ r = t
        /\ r.link = s.link /\ r.commands = s.commands /\ r.messages = s.messages
        /\ r.shared = s.shared /\ r.events = (IF s.copies = 0 THEN s.events ELSE answer)
        /\ r.fetched = (IF s.copies = 0 THEN s.fetched ELSE s.fetched + 1)
        /\ r.requests = s.requests /\ r.server = server
  BY <1>1, <1>7 DEF SessionRecords
<1> HIDE DEF t, server
<1>9. EventsInv(g, r)
  BY <1>1, <1>5, <1>8 DEF SessionInv, EventsInv, OwnEvents
<1>10. r.fetched + r.server.wanted <= s.fetched + s.server.wanted /\ s.requests <= r.requests
  <2>1. s.fetched \in Nat /\ s.server.wanted \in Nat /\ s.requests \in Nat
    BY <1>1, Counters
  <2>2. r.server.wanted = s.server.wanted - 1
    BY <1>4, <1>8
  <2> QED
    BY <1>8, <2>1, <2>2
<1>11. r.server.told = s.server.told
  BY <1>4, <1>8
<1>12. SessionInv(g, r, sent[g])
  BY <1>1, <1>8, <1>9, <1>10, <1>11, QuietStep
<1> QED
  BY <1>2, <1>3, <1>8, <1>12, SessionKeeps

-----------------------------------------------------------------------------
(* The steps of the user interface.                                        *)

\* Another list of own events in place of the old one.
LEMMA EventsReplaced ==
  ASSUME NEW g, NEW s \in SessionRecords, NEW texts \in Seq(Texts), SessionInv(g, s, texts),
         NEW list \in Seq(Events), OwnEvents(g, list)
  PROVE  /\ [s EXCEPT !.events = list] \in SessionRecords
         /\ SessionInv(g, [s EXCEPT !.events = list], texts)
<1>1. PICK t \in SessionRecords :
        /\ t = [s EXCEPT !.events = list]
        /\ t.link = s.link /\ t.commands = s.commands /\ t.messages = s.messages
        /\ t.shared = s.shared /\ t.events = list /\ t.fetched = s.fetched
        /\ t.requests = s.requests /\ t.server = s.server
  <2>1. [s EXCEPT !.events = list] \in SessionRecords
    BY DEF SessionRecords
  <2> QED
    BY <2>1 DEF SessionRecords
<1>2. EventsInv(g, t)
  BY <1>1 DEF EventsInv, OwnEvents
<1>3. SessionInv(g, t, texts)
  BY <1>1, <1>2 DEF SessionInv, QueueInv, SharedInv, ToldInv, AnswersInv, RequestsInv
<1> QED
  BY <1>1, <1>3

\* release: the channel of the session that was held is gone.
LEMMA ReleasedKeeps ==
  ASSUME ClipboardInv
  PROVE  /\ Released \in [Sessions -> SessionRecords]
         /\ \A g \in Sessions : SessionInv(g, Released[g], sent[g])
<1>1. <<>> \in Seq(Events)
  BY EmptySeq
<1>2. \A g \in Sessions : OwnEvents(g, <<>>)
  BY EmptySeq DEF OwnEvents
<1>3. ASSUME NEW g \in Sessions
      PROVE  Released[g] \in SessionRecords /\ SessionInv(g, Released[g], sent[g])
  <2>1. /\ session[g] \in SessionRecords /\ sent[g] \in Seq(Texts) /\ SessionInv(g, session[g], sent[g])
    BY Given
  <2>2. CASE g = handle
    <3>1. Released[g] = [session[g] EXCEPT !.events = <<>>]
      BY <2>2 DEF Released
    <3>2. PICK list \in Seq(Events) : list = <<>> /\ OwnEvents(g, list)
      BY <1>1, <1>2
    <3>3. /\ [session[g] EXCEPT !.events = list] \in SessionRecords
          /\ SessionInv(g, [session[g] EXCEPT !.events = list], sent[g])
      BY <2>1, <3>2, EventsReplaced
    <3> QED
      BY <3>1, <3>2, <3>3
  <2>3. CASE g # handle
    <3>1. Released[g] = session[g]
      BY <2>3 DEF Released
    <3> QED
      BY <2>1, <3>1
  <2> QED
    BY <2>2, <2>3
<1> QED
  BY <1>3 DEF Released

LEMMA UiTyped ==
  ASSUME ClipboardInv
  PROVE  /\ handle \in Sessions \cup {NoSession} /\ launched \in 0 .. MaxSessions /\ launched \in Nat
         /\ connected \in BOOLEAN /\ (connected => handle \in Sessions) /\ page \in BOOLEAN
         /\ field \in Texts /\ entered \in 0 .. MaxTexts /\ sent \in [Sessions -> Seq(Texts)]
         /\ session \in [Sessions -> SessionRecords] /\ handle <= launched
<1>1. /\ handle \in Sessions \cup {NoSession} /\ launched \in 0 .. MaxSessions
      /\ connected \in BOOLEAN /\ (connected => handle # NoSession) /\ page \in BOOLEAN
      /\ field \in Texts /\ entered \in 0 .. MaxTexts
      /\ session \in [Sessions -> SessionRecords] /\ sent \in [Sessions -> Seq(Texts)]
      /\ handle <= launched
  BY DEF ClipboardInv, TypeOK
<1> QED
  BY <1>1, Bounds

LEMMA EmptyText == Empty \in Texts /\ Empty.owner = 0
BY Bounds DEF Texts, Empty, Text

LEMMA LaunchKeeps ==
  ASSUME ClipboardInv, Launch
  PROVE  ClipboardInv'
<1> DEFINE g == launched + 1
           t == [Unborn EXCEPT !.link = "down", !.shared = TextAtStart(g)]
<1>1. g \in Sessions /\ g \in Nat /\ launched \in Nat /\ g # NoSession /\ g \in 0 .. MaxSessions
  BY UiTyped, Bounds DEF Launch, Sessions, NoSession
<1>2. /\ t \in SessionRecords /\ t.link = "down" /\ t.commands = <<>> /\ t.messages = <<>>
      /\ t.events = <<>> /\ t.server = FreshServer /\ t.shared = Empty /\ t.fetched <= t.requests
  <2>1. FreshServer \in Servers
    BY Bounds DEF Servers, FreshServer
  <2>2. /\ <<>> \in Seq(Commands) /\ <<>> \in Seq(Events) /\ <<>> \in Seq(Messages)
        /\ 0 \in 0 .. MaxCopies /\ 0 \in 0 .. MaxRequests
    BY EmptySeq, Bounds
  <2>3. PICK u \in SessionRecords :
          /\ u = Unborn /\ u.commands = <<>> /\ u.messages = <<>> /\ u.events = <<>>
          /\ u.server = FreshServer /\ u.fetched = 0 /\ u.requests = 0
    <3>1. Unborn \in SessionRecords
      BY <2>1, <2>2, EmptyText DEF SessionRecords, Unborn
    <3> QED
      BY <3>1 DEF Unborn
  <2>4. t = [u EXCEPT !.link = "down", !.shared = Empty]
    BY <2>3 DEF TextAtStart
  <2>5. t \in SessionRecords
    BY <2>3, <2>4, EmptyText DEF SessionRecords
  <2>6. PICK v \in SessionRecords : v = t
    BY <2>5
  <2> HIDE DEF t
  <2>7. /\ v.link = "down" /\ v.shared = Empty /\ v.commands = u.commands /\ v.messages = u.messages
        /\ v.events = u.events /\ v.server = u.server /\ v.fetched = u.fetched /\ v.requests = u.requests
    BY <2>3, <2>4, <2>6 DEF SessionRecords
  <2> QED
    BY <2>3, <2>6, <2>7
<1>3. sent[g] = <<>> /\ sent[g] \in Seq(Texts) /\ Len(sent[g]) <= MaxSends
  BY <1>1, OneSession DEF ClipboardInv
<1>4. SessionInv(g, t, sent[g])
  <2>1. EventsInv(g, t)
    BY <1>2, EmptySeq DEF EventsInv
  <2> QED
    BY <1>2, <1>3, <2>1, EmptyChannels
<1>5. session' = [Released EXCEPT ![g] = t] /\ UNCHANGED <<entered, sent>>
  BY DEF Launch
<1>6. session' \in [Sessions -> SessionRecords] /\ \A h \in Sessions : SessionInv(h, session'[h], sent'[h])
  BY <1>1, <1>2, <1>4, <1>5, ReleasedKeeps
<1>7. launched' = g /\ handle' = g /\ connected' = FALSE /\ page' = TRUE /\ field' = Empty
  BY DEF Launch, FieldAtLaunch
<1>8. TypeOK'
  BY <1>1, <1>5, <1>6, <1>7, UiTyped, EmptyText DEF TypeOK
<1>9. FieldFromHere'
  BY <1>7, EmptyText DEF FieldFromHere
<1>10. \A h \in Sessions : h > launched' => sent'[h] = <<>>
  BY <1>1, <1>5, <1>7 DEF ClipboardInv, Sessions
<1> QED
  BY <1>1, <1>6, <1>7, <1>8, <1>9, <1>10 DEF ClipboardInv

LEMMA StopKeeps ==
  ASSUME ClipboardInv, Stop
  PROVE  ClipboardInv'
<1>1. /\ handle' = NoSession /\ connected' = FALSE /\ page' = FALSE /\ field' = Empty
      /\ session' = Released /\ UNCHANGED <<launched, entered, sent>>
  BY DEF Stop
<1>2. \A g \in Sessions : SessionInv(g, session'[g], sent'[g])
  BY <1>1, ReleasedKeeps
<1>3. TypeOK'
  BY <1>1, UiTyped, EmptyText, ReleasedKeeps DEF TypeOK
<1>4. FieldFromHere' /\ handle' <= launched'
  BY <1>1, UiTyped DEF FieldFromHere, NoSession
<1> QED
  BY <1>1, <1>2, <1>3, <1>4 DEF ClipboardInv

LEMMA EditKeeps ==
  ASSUME ClipboardInv, Edit
  PROVE  ClipboardInv'
<1>1. /\ entered' = entered + 1 /\ entered < MaxTexts /\ field' = Text(0, entered + 1)
      /\ UNCHANGED <<handle, launched, connected, page, session, sent>>
  BY DEF Edit
<1>2. entered' \in 0 .. MaxTexts
  BY <1>1, UiTyped, Bounds
<1>3. field' \in Texts /\ field'.owner = 0
  BY <1>1, <1>2 DEF Texts, Text
<1>4. TypeOK'
  BY <1>1, <1>2, <1>3, UiTyped DEF ClipboardInv, TypeOK
<1> QED
  BY <1>1, <1>3, <1>4 DEF ClipboardInv, FieldFromHere

\* One event of the tick: a text in it is one of the session that is held.
LEMMA TickKeeps ==
  ASSUME ClipboardInv, Tick
  PROVE  ClipboardInv'
<1> DEFINE s == session[handle]
           event == Head(s.events)
           t == [s EXCEPT !.events = Tail(@)]
<1>1. handle \in Sessions /\ s.events # <<>>
  BY UiTyped DEF Tick
<1>2. /\ s \in SessionRecords /\ sent[handle] \in Seq(Texts) /\ SessionInv(handle, s, sent[handle])
      /\ OwnEvents(handle, s.events)
  BY <1>1, Given DEF SessionInv, EventsInv, OwnEvents
<1>3. s.events \in Seq(Events)
  BY <1>2, Fields
<1>4. /\ event \in Events /\ Tail(s.events) \in Seq(Events)
      /\ Len(s.events) \in Nat \ {0} /\ Len(Tail(s.events)) = Len(s.events) - 1
      /\ \A i \in 1 .. Len(s.events) - 1 : Tail(s.events)[i] = s.events[i + 1]
      /\ event = s.events[1]
  BY <1>1, <1>3, EmptySeq, HeadTailProperties, LenProperties
<1>5. OwnEvents(handle, Tail(s.events)) /\ (event.type = "ClipboardText" => event.text.owner = handle)
  BY <1>2, <1>4 DEF OwnEvents
<1>6. t \in SessionRecords /\ SessionInv(handle, t, sent[handle])
  BY <1>2, <1>4, <1>5, EventsReplaced
<1>7. /\ field' = (IF event.type = "ClipboardText" THEN event.text ELSE field)
      /\ connected' = ConnectedAfter(event)
      /\ handle' = (IF event.type = "Disconnected" THEN NoSession ELSE handle)
      /\ session' = [session EXCEPT ![handle] = t]
      /\ UNCHANGED <<launched, page, entered, sent>>
  BY DEF Tick
<1>8. session' \in [Sessions -> SessionRecords] /\ \A h \in Sessions : SessionInv(h, session'[h], sent'[h])
  BY <1>1, <1>6, <1>7, UiTyped DEF ClipboardInv
<1>9. connected' \in BOOLEAN /\ (connected' => handle' # NoSession)
  <2>1. handle # NoSession
    BY DEF Tick
  <2>2. event.type \in {"ClipboardText", "Connected", "Reconnecting", "Disconnected"}
    BY <1>4, EventKinds
  <2> QED
    BY <1>7, <2>1, <2>2, UiTyped DEF ConnectedAfter
<1>10. field' \in Texts
  BY <1>4, <1>7, UiTyped, EventKinds
<1>11. handle' \in Sessions \cup {NoSession} /\ handle' <= launched'
  BY <1>7, UiTyped DEF NoSession
<1>12. TypeOK'
  BY <1>7, <1>8, <1>9, <1>10, <1>11, UiTyped DEF TypeOK
<1>13. FieldFromHere'
  BY <1>5, <1>7 DEF ClipboardInv, FieldFromHere
<1> QED
  BY <1>7, <1>8, <1>11, <1>12, <1>13 DEF ClipboardInv

\* The user interface sends a command to the session that is held.
LEMMA SentTo ==
  ASSUME ClipboardInv, connected, NEW t \in SessionRecords,
         session' = [session EXCEPT ![handle] = t], UNCHANGED ui,
         NEW texts \in Seq(Texts), sent' = [sent EXCEPT ![handle] = texts],
         SessionInv(handle, t, texts)
  PROVE  ClipboardInv'
<1>1. handle \in Sessions /\ handle <= launched
  BY UiTyped
<1>2. session' \in [Sessions -> SessionRecords] /\ sent' \in [Sessions -> Seq(Texts)]
  BY UiTyped
<1>3. \A h \in Sessions : SessionInv(h, session'[h], sent'[h])
  <2> TAKE h \in Sessions
  <2>1. CASE h = handle
    BY <1>1, <2>1, UiTyped
  <2>2. CASE h # handle
    <3>1. session'[h] = session[h] /\ sent'[h] = sent[h]
      BY <2>2, UiTyped
    <3> QED
      BY <3>1 DEF ClipboardInv
  <2> QED
    BY <2>1, <2>2
<1>4. TypeOK'
  BY <1>2, UiTyped DEF ClipboardInv, TypeOK, ui
<1>5. \A h \in Sessions : h > launched' => sent'[h] = <<>>
  <2> SUFFICES ASSUME NEW h \in Sessions, h > launched PROVE sent'[h] = <<>>
    BY DEF ui
  <2>1. h # handle
    BY <1>1, UiTyped DEF Sessions
  <2> QED
    BY <2>1, UiTyped DEF ClipboardInv
<1> QED
  BY <1>3, <1>4, <1>5 DEF ClipboardInv, FieldFromHere, ui

LEMMA SendClipboardKeeps ==
  ASSUME ClipboardInv, SendClipboard
  PROVE  ClipboardInv'
<1> DEFINE s == session[handle]
           c == SetLocal(field)
           texts == Append(sent[handle], field)
<1>1. /\ connected /\ handle \in Sessions /\ field \in Texts
      /\ s \in SessionRecords /\ sent[handle] \in Seq(Texts) /\ SessionInv(handle, s, sent[handle])
  BY UiTyped, Given DEF SendClipboard
<1>2. Len(sent[handle]) < MaxSends /\ sent' = [sent EXCEPT ![handle] = texts] /\ UNCHANGED ui
  BY DEF SendClipboard, Send
<1>3. texts \in Seq(Texts)
  BY <1>1, AppendProperties
<1>4. c \in Commands /\ c.type # Request.type
  BY <1>1, CommandKinds
<1>5. CASE s.link = "ended"
  <2>1. session' = [session EXCEPT ![handle] = s]
    <3>1. session' = [session EXCEPT ![handle].commands = s.commands, ![handle].requests = s.requests]
      BY <1>4, <1>5 DEF SendClipboard, Send
    <3> QED
      BY <1>1, <3>1, UiTyped DEF SessionRecords
  <2>2. SessionInv(handle, s, texts)
    <3>1. /\ Len(texts) = Len(sent[handle]) + 1 /\ Len(sent[handle]) \in Nat
          /\ \A i \in 1 .. Len(sent[handle]) : texts[i] = sent[handle][i]
      BY <1>1, AppendProperties, LenProperties
    <3>2. s.commands = <<>> /\ s.messages = <<>>
      BY <1>1, <1>5 DEF SessionInv, QueueInv
    <3>3. Len(s.commands) = 0 /\ Len(s.messages) = 0
      BY <3>2, EmptySeq
    <3>4. Queued(s.commands, "SetLocalClipboard", 0) = 0
      BY <3>2, QueuedInEmpty
    <3>5. /\ Seen(s.commands, texts) = Seen(s.commands, sent[handle]) + 1
          /\ Seen(s.commands, texts) = Len(texts) /\ Seen(s.commands, sent[handle]) \in Nat
      BY <3>1, <3>4 DEF Seen
    <3>6. QueueInv(s, texts) /\ SharedInv(s, texts) /\ AnswersInv(s, texts)
      BY <1>2, <1>5, <3>1, <3>2, <3>3, <3>5, Bounds DEF QueueInv, SharedInv, AnswersInv
    <3>7. ToldInv(s, texts)
      <4>1. s.server.told = Unheard \/ s.server.told <= Seen(s.commands, sent[handle])
        BY <1>1 DEF SessionInv, ToldInv
      <4>2. s.server.told \in Nat
        BY <1>1, Counters
      <4>3. s.server.told = Unheard \/ s.server.told <= Seen(s.commands, texts)
        BY <3>5, <4>1, <4>2
      <4> QED
        BY <3>3, <4>3 DEF ToldInv
    <3> QED
      BY <1>1, <3>6, <3>7 DEF SessionInv
  <2> QED
    BY <1>1, <1>2, <1>3, <2>1, <2>2, SentTo
<1>6. CASE s.link # "ended"
  <2>1. Append(s.commands, c) \in Seq(Commands)
    BY <1>1, <1>4, Fields, AppendProperties
  <2>2. PICK t \in SessionRecords :
          /\ t = [s EXCEPT !.commands = Append(@, c)]
          /\ t.link = s.link /\ t.commands = Append(s.commands, c) /\ t.messages = s.messages
          /\ t.shared = s.shared /\ t.events = s.events /\ t.fetched = s.fetched
          /\ t.requests = s.requests /\ t.server = s.server
    <3>1. [s EXCEPT !.commands = Append(@, c)] \in SessionRecords
      BY <1>1, <2>1 DEF SessionRecords
    <3> QED
      BY <1>1, <3>1 DEF SessionRecords
  <2>3. session' = [session EXCEPT ![handle] = t]
    <3>1. session' = [session EXCEPT ![handle].commands = Append(@, c), ![handle].requests = s.requests]
      BY <1>4, <1>6 DEF SendClipboard, Send
    <3> QED
      BY <1>1, <2>2, <3>1, UiTyped DEF SessionRecords
  <2>4. SessionInv(handle, t, texts)
    BY <1>1, <1>2, <1>6, <2>2, TextQueued
  <2> QED
    BY <1>1, <1>2, <1>3, <2>3, <2>4, SentTo
<1> QED
  BY <1>5, <1>6

LEMMA RequestClipboardKeeps ==
  ASSUME ClipboardInv, RequestClipboard
  PROVE  ClipboardInv'
<1> DEFINE s == session[handle]
<1>1. /\ connected /\ handle \in Sessions /\ s \in SessionRecords
      /\ sent[handle] \in Seq(Texts) /\ SessionInv(handle, s, sent[handle])
  BY UiTyped, Given DEF RequestClipboard
<1>2. /\ s.requests < MaxRequests /\ sent' = [sent EXCEPT ![handle] = sent[handle]] /\ UNCHANGED ui
  BY UiTyped DEF RequestClipboard, Send
<1>3. s.requests \in Nat /\ s.requests + 1 \in 0 .. MaxRequests
  BY <1>1, <1>2, Counters, Bounds
<1>4. PICK queue \in Seq(Commands) :
        queue = IF s.link = "ended" THEN s.commands ELSE Append(s.commands, Request)
  BY <1>1, Fields, CommandKinds, AppendProperties
<1>5. PICK t \in SessionRecords :
        /\ t = [s EXCEPT !.commands = queue, !.requests = s.requests + 1]
        /\ t.link = s.link /\ t.commands = queue /\ t.messages = s.messages
        /\ t.shared = s.shared /\ t.events = s.events /\ t.fetched = s.fetched
        /\ t.requests = s.requests + 1 /\ t.server = s.server
  <2>1. [s EXCEPT !.commands = queue, !.requests = s.requests + 1] \in SessionRecords
    BY <1>1, <1>3 DEF SessionRecords
  <2> QED
    BY <1>1, <2>1 DEF SessionRecords
<1>6. session' = [session EXCEPT ![handle] = t]
  <2>1. session' = [session EXCEPT ![handle].commands = queue, ![handle].requests = s.requests + 1]
    BY <1>1, <1>4, CommandKinds, UiTyped DEF RequestClipboard, Send, SessionRecords
  <2> QED
    BY <1>1, <1>5, <2>1, UiTyped DEF SessionRecords
<1>7. SessionInv(handle, t, sent[handle])
  <2>1. CASE s.link = "ended"
    <3>1. EventsInv(handle, t) /\ t.fetched + t.server.wanted <= s.fetched + s.server.wanted
      BY <1>1, <1>5, Counters DEF SessionInv, EventsInv
    <3>2. t.commands = s.commands /\ s.requests <= t.requests
      BY <1>3, <1>4, <1>5, <2>1
    <3> QED
      BY <1>1, <1>5, <3>1, <3>2, QuietStep
  <2>2. CASE s.link # "ended"
    BY <1>1, <1>4, <1>5, <2>2, RequestQueued
  <2> QED
    BY <2>1, <2>2
<1> QED
  BY <1>1, <1>2, <1>6, <1>7, SentTo

-----------------------------------------------------------------------------
(* The theorems.                                                           *)

LEMMA ClipboardStarts ==
  ASSUME Init
  PROVE  ClipboardInv
<1>1. FreshServer \in Servers /\ 0 \in 0 .. MaxCopies /\ 0 \in 0 .. MaxRequests
  BY Bounds DEF Servers, FreshServer
<1>2. Unborn \in SessionRecords
  BY <1>1, EmptyText, EmptySeq DEF SessionRecords, Unborn
<1>3. /\ Unborn.commands = <<>> /\ Unborn.messages = <<>> /\ Unborn.events = <<>>
      /\ Unborn.server = FreshServer /\ Unborn.fetched = 0 /\ Unborn.requests = 0
      /\ Unborn.shared = Empty
  BY DEF Unborn
<1>4. <<>> \in Seq(Texts) /\ Len(<<>>) = 0
  BY EmptySeq
<1>5. ASSUME NEW g \in Sessions PROVE SessionInv(g, session[g], sent[g])
  <2>1. session[g] = Unborn /\ sent[g] = <<>>
    BY DEF Init
  <2>2. EventsInv(g, Unborn)
    BY <1>3, <1>4 DEF EventsInv
  <2>3. PICK u \in SessionRecords :
          /\ u = Unborn /\ u.commands = <<>> /\ u.messages = <<>> /\ u.server = FreshServer
          /\ u.shared = Empty /\ u.fetched <= u.requests /\ EventsInv(g, u)
    BY <1>2, <1>3, <2>2
  <2>4. PICK texts \in Seq(Texts) : texts = <<>> /\ Len(texts) <= MaxSends
    <3>1. 0 <= MaxSends
      BY Bounds
    <3>2. Len(<<>>) <= MaxSends
      BY <1>4, <3>1
    <3> QED
      BY <1>4, <3>2
  <2>5. SessionInv(g, u, texts)
    BY <2>3, <2>4, EmptyChannels
  <2> QED
    BY <2>1, <2>3, <2>4, <2>5
<1>6. TypeOK
  <2>1. session \in [Sessions -> SessionRecords] /\ sent \in [Sessions -> Seq(Texts)]
    BY <1>2, <1>4 DEF Init
  <2>2. 0 \in 0 .. MaxSessions /\ 0 \in 0 .. MaxTexts
    BY Bounds
  <2> QED
    BY <2>1, <2>2, EmptyText DEF Init, TypeOK
<1>7. FieldFromHere /\ handle <= launched /\ \A g \in Sessions : sent[g] = <<>>
  BY DEF Init, FieldFromHere, NoSession
<1> QED
  BY <1>5, <1>6, <1>7 DEF ClipboardInv

LEMMA ClipboardSteps ==
  ASSUME ClipboardInv, [Next]_vars
  PROVE  ClipboardInv'
<1>1. ASSUME NEW g \in Sessions, SessionStep(g) PROVE ClipboardInv'
  BY <1>1, RecvCommandKeeps, RecvClipboardKeeps, ReturnKeeps, FormatsKeep, RemoteCopyKeeps,
     ResponseKeeps, ConnectionKeeps DEF SessionStep
<1>2. CASE UNCHANGED vars
  BY <1>2 DEF vars, ui, ClipboardInv, TypeOK, FieldFromHere
<1> QED
  BY <1>1, <1>2, LaunchKeeps, StopKeeps, EditKeeps, SendClipboardKeeps, RequestClipboardKeeps,
     TickKeeps DEF Next

\* The inductive invariant holds in every state: what every queue between the
\* field and the remote computers holds, session by session (on_send_clipboard,
\* dispatch_command, TextClipboardBackend).
THEOREM ClipboardInvariance == Spec => []ClipboardInv
<1>1. Init => ClipboardInv
  BY ClipboardStarts
<1>2. ClipboardInv /\ [Next]_vars => ClipboardInv'
  BY ClipboardSteps
<1> QED
  BY <1>1, <1>2, PTL DEF Spec

\* The types of the client's and the sessions' state, for any bounds.
THEOREM ClipboardTyped == Spec => []TypeOK
<1>1. ClipboardInv => TypeOK
  BY DEF ClipboardInv
<1> QED
  BY <1>1, ClipboardInvariance, PTL

\* A remote computer is given a text the user sent to its own session, none
\* older than it was told of (on_format_data_request).
THEOREM FreshAnswerAlways == Spec => []FreshAnswer
<1>1. ClipboardInv => FreshAnswer
  BY DEF ClipboardInv, SessionInv, AnswersInv, FreshAnswer
<1> QED
  BY <1>1, ClipboardInvariance, PTL

\* The field never shows a text of a session that was left (launch, tick).
THEOREM FieldFromHereAlways == Spec => []FieldFromHere
<1>1. ClipboardInv => FieldFromHere
  BY DEF ClipboardInv
<1> QED
  BY <1>1, ClipboardInvariance, PTL

\* Every remote text that is received answers a request of the user of its own
\* (on_request_clipboard, on_format_data_response).
THEOREM OnlyRequestedAlways == Spec => []OnlyRequested
<1>1. ASSUME ClipboardInv, NEW g \in Sessions PROVE session[g].fetched <= session[g].requests
  <2>1. session[g] \in SessionRecords /\ RequestsInv(session[g])
    BY <1>1, Given DEF SessionInv
  <2>2. Queued(session[g].commands, "RequestRemoteClipboard", 0) \in Nat
    BY <2>1, Fields, QueuedIsNat
  <2> QED
    BY <2>1, <2>2, Counters DEF RequestsInv
<1>2. ClipboardInv => OnlyRequested
  BY <1>1 DEF OnlyRequested
<1> QED
  BY <1>2, ClipboardInvariance, PTL

=============================================================================
