---------------------------- MODULE BackendProofs ----------------------------
(***************************************************************************)
(* The session thread from the inside: what its input database and its     *)
(* frame slot say, whatever the order the loop and the client move in.     *)
(* The invariant adds to the properties that images leave the output queue *)
(* in the order they were decoded, one after the other.                    *)
(***************************************************************************)
EXTENDS Backend, SequenceTheorems, TLAPS

\* The images in the output queue are the last that were decoded, in order.
ImagesInOrder ==
  /\ \A i, j \in 1 .. Len(output) :
       IsImage(output[i]) /\ IsImage(output[j]) /\ i < j => output[i].number < output[j].number
  /\ \E n \in 0 .. decoded : Waiting = n + 1 .. decoded

BackendInv == TypeOK /\ DatabaseAgrees /\ ImagesInOrder /\ NewestKept

\* What is in the channels.
LEMMA EventTypes ==
  ASSUME NEW e \in InputEvents
  PROVE  e.type \in {"KeyDown", "KeyUp", "ReleaseAll"} /\ (e.type # "ReleaseAll" => e.key \in Keys)
BY DEF InputEvents, KeyCommands, Plain

LEMMA CommandTypes ==
  ASSUME NEW c \in KeyCommands \cup PlainCommands
  PROVE  /\ c.type \in {"KeyDown", "KeyUp", "ReleaseAll", "Disconnect", "SuspendRendering", "ResumeRendering"}
         /\ c.type \in {"KeyDown", "KeyUp", "ReleaseAll"} => c \in InputEvents
BY DEF InputEvents, KeyCommands, PlainCommands, Plain

LEMMA OutputTypes ==
  /\ \A n \in 1 .. MaxImages : Image(n) \in Outputs /\ IsImage(Image(n)) /\ Image(n).number = n
  /\ Plain("AutoReconnecting") \in Outputs /\ ~ IsImage(Plain("AutoReconnecting"))
  /\ Plain("Final") \in Outputs /\ ~ IsImage(Plain("Final"))
  /\ \A o \in Outputs : IsImage(o) => o.number \in 1 .. MaxImages
BY DEF Outputs, Image, Plain, IsImage

\* What one input event does to the keys that are down.
LEMMA OneEvent ==
  ASSUME NEW downKeys \in SUBSET Keys, NEW event \in InputEvents
  PROVE  /\ AfterInput(downKeys, event) \in SUBSET Keys
         /\ \A key \in Keys :
              key \in AfterInput(downKeys, event) <=>
                IF IsAbout(event, key) THEN event.type = "KeyDown" ELSE key \in downKeys
<1>1. CASE event.type = "KeyDown"
  BY <1>1, EventTypes DEF AfterInput, IsAbout
<1>2. CASE event.type = "KeyUp"
  BY <1>2, EventTypes DEF AfterInput, IsAbout
<1>3. CASE event.type = "ReleaseAll"
  BY <1>3, EventTypes DEF AfterInput, IsAbout
<1> QED
  BY <1>1, <1>2, <1>3, EventTypes

\* An event that is applied and sent leaves the two in agreement.
LEMMA AgreesAfterSend ==
  ASSUME TypeOK, DatabaseAgrees, NEW event \in InputEvents,
         input' = Append(input, event), database' = AfterInput(database, event), remote' = remote
  PROVE  DatabaseAgrees'
<1> SUFFICES ASSUME NEW key \in Keys, NEW i \in 0 .. Len(input'), IsLastAbout(i, key)'
             PROVE  key \in database' <=> IF i = 0 THEN key \in remote' ELSE input'[i].type = "KeyDown"
  BY DEF DatabaseAgrees
<1> DEFINE n == Len(input)
<1>1. /\ input \in Seq(InputEvents) /\ n \in Nat /\ Len(input') = n + 1
      /\ input'[n + 1] = event /\ \A j \in 1 .. n : input'[j] = input[j]
  <2>1. input \in Seq(InputEvents)
    BY DEF TypeOK
  <2> QED
    BY <2>1, LenProperties
<1>2. key \in database' <=> IF IsAbout(event, key) THEN event.type = "KeyDown" ELSE key \in database
  BY OneEvent DEF TypeOK
<1>3. CASE i = n + 1
  BY <1>1, <1>2, <1>3 DEF IsLastAbout
<1>4. CASE i # n + 1
  <2>1. i \in 0 .. n
    BY <1>1, <1>4
  <2>2. ~ IsAbout(event, key)
    BY <1>1, <2>1 DEF IsLastAbout
  <2>3. IsLastAbout(i, key)
    BY <1>1, <2>1 DEF IsLastAbout
  <2>4. key \in database <=> IF i = 0 THEN key \in remote ELSE input[i].type = "KeyDown"
    BY <2>1, <2>3 DEF DatabaseAgrees
  <2> QED
    BY <1>1, <1>2, <2>1, <2>2, <2>4
<1> QED
  BY <1>3, <1>4

\* So does an event the client takes.
LEMMA AgreesAfterTake ==
  ASSUME TypeOK, DatabaseAgrees, input # <<>>,
         input' = Tail(input), remote' = AfterInput(remote, Head(input)), database' = database
  PROVE  DatabaseAgrees'
<1> SUFFICES ASSUME NEW key \in Keys, NEW i \in 0 .. Len(input'), IsLastAbout(i, key)'
             PROVE  key \in database' <=> IF i = 0 THEN key \in remote' ELSE input'[i].type = "KeyDown"
  BY DEF DatabaseAgrees
<1> DEFINE n == Len(input)
<1>1. /\ input \in Seq(InputEvents) /\ n \in Nat \ {0} /\ Len(input') = n - 1
      /\ \A j \in 1 .. n - 1 : input'[j] = input[j + 1]
      /\ Head(input) = input[1] /\ input[1] \in InputEvents
  <2>1. input \in Seq(InputEvents)
    BY DEF TypeOK
  <2>2. /\ n \in Nat \ {0} /\ Len(input') = n - 1
        /\ \A j \in 1 .. n - 1 : input'[j] = input[j + 1]
    BY <2>1, EmptySeq, HeadTailProperties
  <2>3. Head(input) = input[1] /\ input[1] \in InputEvents
    BY <2>1, <2>2, ElementOfSeq
  <2> QED
    BY <2>1, <2>2, <2>3
<1>2. key \in remote' <=> IF IsAbout(input[1], key) THEN input[1].type = "KeyDown" ELSE key \in remote
  BY <1>1, OneEvent DEF TypeOK
<1>3. \A j \in i + 2 .. n : ~ IsAbout(input[j], key)
  <2> SUFFICES ASSUME NEW j \in i + 2 .. n PROVE ~ IsAbout(input[j], key)
    OBVIOUS
  <2>1. j - 1 \in i + 1 .. Len(input') /\ input'[j - 1] = input[j]
    BY <1>1
  <2> QED
    BY <2>1 DEF IsLastAbout
<1>4. CASE i # 0
  <2>1. IsLastAbout(i + 1, key) /\ i + 1 \in 0 .. n /\ input'[i] = input[i + 1]
    BY <1>1, <1>3, <1>4 DEF IsLastAbout
  <2> QED
    BY <1>1, <1>4, <2>1 DEF DatabaseAgrees
<1>5. CASE i = 0 /\ IsAbout(input[1], key)
  <2>1. IsLastAbout(1, key) /\ 1 \in 0 .. n
    BY <1>1, <1>3, <1>5 DEF IsLastAbout
  <2> QED
    BY <1>1, <1>2, <1>5, <2>1 DEF DatabaseAgrees
<1>6. CASE i = 0 /\ ~ IsAbout(input[1], key)
  <2>1. IsLastAbout(0, key) /\ 0 \in 0 .. n
    BY <1>1, <1>3, <1>6 DEF IsLastAbout
  <2> QED
    BY <1>1, <1>2, <1>6, <2>1 DEF DatabaseAgrees
<1> QED
  BY <1>4, <1>5, <1>6

\* The output queue grows by one output.
LEMMA OutputAppended ==
  ASSUME TypeOK, ImagesInOrder, NEW o \in Outputs, output' = Append(output, o),
         \/ ~ IsImage(o) /\ decoded' = decoded
         \/ IsImage(o) /\ o.number = decoded + 1 /\ decoded' = decoded + 1
  PROVE  ImagesInOrder' /\ \A n \in 0 .. decoded :
                             Waiting = n + 1 .. decoded => Waiting' = n + 1 .. decoded'
<1> DEFINE n == Len(output)
<1>0. output \in Seq(Outputs) /\ decoded \in Nat
  <2>1. output \in Seq(Outputs)
    BY DEF TypeOK
  <2>2. decoded \in 0 .. MaxImages
    BY DEF TypeOK
  <2>3. decoded \in Nat
    BY <2>2, ImagesAssumption
  <2> QED
    BY <2>1, <2>3
<1>1. /\ n \in Nat /\ Len(output') = n + 1 /\ output'[n + 1] = o
      /\ \A i \in 1 .. n : output'[i] = output[i]
  BY <1>0, LenProperties
<1>2. \A i \in 1 .. n : IsImage(output[i]) => output[i].number \in Waiting
  BY DEF Waiting
<1>3. \A k \in Waiting : k <= decoded
  BY <1>0 DEF ImagesInOrder
<1>4. ASSUME ~ IsImage(o) PROVE Waiting' = Waiting /\ decoded' = decoded
  <2>1. {j \in 1 .. Len(output') : IsImage(output'[j])} = {j \in 1 .. n : IsImage(output[j])}
    BY <1>1, <1>4
  <2> QED
    BY <1>1, <1>4, <2>1 DEF Waiting
<1>5. ASSUME IsImage(o) PROVE Waiting' = Waiting \cup {decoded + 1} /\ decoded' = decoded + 1
  <2>1. {j \in 1 .. Len(output') : IsImage(output'[j])} = {j \in 1 .. n : IsImage(output[j])} \cup {n + 1}
    BY <1>1, <1>5
  <2> QED
    BY <1>1, <1>5, <2>1 DEF Waiting
<1>6. \A k \in 0 .. decoded : Waiting = k + 1 .. decoded => Waiting' = k + 1 .. decoded' /\ k \in 0 .. decoded'
  <2>1. CASE IsImage(o)
    <3>1. \A k \in 0 .. decoded : (k + 1 .. decoded) \cup {decoded + 1} = k + 1 .. decoded + 1
      BY <1>0
    <3>2. Waiting' = Waiting \cup {decoded + 1} /\ decoded' = decoded + 1
      BY <1>5, <2>1
    <3>3. \A k \in 0 .. decoded : k \in 0 .. decoded + 1
      BY <1>0
    <3> QED
      BY <3>1, <3>2, <3>3
  <2>2. CASE ~ IsImage(o)
    BY <1>4, <2>2
  <2> QED
    BY <2>1, <2>2
<1>7. ASSUME NEW i \in 1 .. Len(output'), NEW j \in 1 .. Len(output'),
             IsImage(output'[i]), IsImage(output'[j]), i < j
      PROVE  output'[i].number < output'[j].number
  <2>1. CASE j = n + 1
    <3>1. i \in 1 .. n /\ output'[i] = output[i] /\ output[i].number <= decoded
      BY <1>1, <1>2, <1>3, <1>7, <2>1
    <3>2. output'[j].number = decoded + 1
      BY <1>1, <1>7, <2>1
    <3>3. output[i].number \in Nat
      BY <1>0, <1>1, <1>7, <3>1, ElementOfSeq, OutputTypes
    <3> QED
      BY <1>0, <3>1, <3>2, <3>3
  <2>2. CASE j # n + 1
    BY <1>1, <1>7, <2>2 DEF ImagesInOrder
  <2> QED
    BY <2>1, <2>2
<1> QED
  BY <1>6, <1>7 DEF ImagesInOrder

\* The loop takes the first output.
LEMMA OutputTaken ==
  ASSUME TypeOK, ImagesInOrder, output # <<>>, output' = Tail(output), decoded' = decoded
  PROVE  /\ ImagesInOrder'
         /\ \A n \in 0 .. decoded : Waiting = n + 1 .. decoded =>
              IF IsImage(Head(output))
                THEN Head(output).number = n + 1 /\ n + 1 \in 0 .. decoded /\ Waiting' = n + 2 .. decoded
                ELSE Waiting' = Waiting
<1> DEFINE len == Len(output)
<1>0. output \in Seq(Outputs) /\ decoded \in Nat
  <2>1. output \in Seq(Outputs)
    BY DEF TypeOK
  <2>2. decoded \in 0 .. MaxImages
    BY DEF TypeOK
  <2>3. decoded \in Nat
    BY <2>2, ImagesAssumption
  <2> QED
    BY <2>1, <2>3
<1>1. /\ len \in Nat \ {0} /\ Len(output') = len - 1
      /\ \A i \in 1 .. len - 1 : output'[i] = output[i + 1]
      /\ Head(output) = output[1] /\ 1 \in 1 .. len
  BY <1>0, EmptySeq, HeadTailProperties
<1>2. \A i \in 1 .. len : IsImage(output[i]) => output[i].number \in Nat
  BY <1>0, <1>1, ElementOfSeq, OutputTypes
<1>3. \A i, j \in 1 .. len - 1 :
        IsImage(output'[i]) /\ IsImage(output'[j]) /\ i < j => output'[i].number < output'[j].number
  BY <1>1 DEF ImagesInOrder
<1>4. \A i \in 2 .. len : i - 1 \in 1 .. len - 1 /\ output'[i - 1] = output[i]
  BY <1>1
<1>5. Waiting' = {output[i].number : i \in {j \in 2 .. len : IsImage(output[j])}}
  <2>1. \A k \in Waiting' : \E i \in {j \in 2 .. len : IsImage(output[j])} : k = output[i].number
    BY <1>1 DEF Waiting
  <2>2. ASSUME NEW i \in 2 .. len, IsImage(output[i]) PROVE output[i].number \in Waiting'
    BY <1>1, <1>4, <2>2 DEF Waiting
  <2> QED
    BY <2>1, <2>2
<1>6. ASSUME ~ IsImage(Head(output)) PROVE Waiting' = Waiting
  BY <1>1, <1>5, <1>6 DEF Waiting
<1>7. ASSUME IsImage(Head(output)), NEW n \in 0 .. decoded, Waiting = n + 1 .. decoded
      PROVE  Head(output).number = n + 1 /\ n + 1 \in 0 .. decoded /\ Waiting' = n + 2 .. decoded
  <2>1. PICK first \in Nat : first = Head(output).number
    BY <1>1, <1>2, <1>7
  <2>2. Waiting = Waiting' \cup {first}
    <3>1. ASSUME NEW i \in 1 .. len, IsImage(output[i])
          PROVE  output[i].number \in Waiting' \cup {first}
      <4>1. CASE i = 1
        BY <1>1, <2>1, <4>1
      <4>2. CASE i # 1
        BY <1>1, <1>5, <3>1, <4>2
      <4> QED
        BY <4>1, <4>2
    <3>2. Waiting' \cup {first} \subseteq Waiting
      BY <1>1, <1>5, <1>7, <2>1 DEF Waiting
    <3> QED
      BY <3>1, <3>2 DEF Waiting
  <2>3. \A k \in Waiting' : first < k
    <3> SUFFICES ASSUME NEW i \in 2 .. len, IsImage(output[i]) PROVE first < output[i].number
      BY <1>5
    <3> QED
      BY <1>1, <1>7, <2>1 DEF ImagesInOrder
  <2>4. first \in n + 1 .. decoded
    BY <1>7, <2>2
  <2>5. first = n + 1
    <3>1. n + 1 \in Waiting
      BY <1>0, <1>7, <2>4
    <3> QED
      BY <1>0, <2>2, <2>3, <2>4, <3>1
  <2>6. Waiting' = n + 2 .. decoded
    <3>1. ASSUME NEW k \in Waiting' PROVE k \in n + 2 .. decoded
      <4>1. k \in n + 1 .. decoded /\ first < k
        BY <1>7, <2>2, <2>3, <3>1
      <4> QED
        BY <1>0, <2>5, <4>1
    <3>2. ASSUME NEW k \in n + 2 .. decoded PROVE k \in Waiting'
      <4>1. k \in n + 1 .. decoded /\ k # first
        BY <1>0, <2>5, <3>2
      <4> QED
        BY <1>7, <2>2, <4>1
    <3> QED
      BY <3>1, <3>2
  <2> QED
    BY <1>0, <2>1, <2>4, <2>5, <2>6
<1>8. PICK n \in 0 .. decoded : Waiting = n + 1 .. decoded
  BY DEF ImagesInOrder
<1>9. \E m \in 0 .. decoded' : Waiting' = m + 1 .. decoded'
  <2>1. CASE IsImage(Head(output))
    <3>1. n + 1 \in 0 .. decoded' /\ Waiting' = (n + 1) + 1 .. decoded'
      BY <1>0, <1>7, <1>8, <2>1
    <3> QED
      BY <3>1
  <2>2. CASE ~ IsImage(Head(output))
    BY <1>6, <1>8, <2>2
  <2> QED
    BY <2>1, <2>2
<1> QED
  BY <1>1, <1>3, <1>6, <1>7, <1>9 DEF ImagesInOrder

\* Which image was taken last is well defined.
LEMMA TakenIs ==
  ASSUME NEW waiting, NEW d \in Nat, NEW n \in 0 .. d, waiting = n + 1 .. d
  PROVE  (CHOOSE m \in 0 .. d : waiting = m + 1 .. d) = n
<1>1. \A m \in 0 .. d : waiting = m + 1 .. d => m = n
  <2> SUFFICES ASSUME NEW m \in 0 .. d, m + 1 .. d = n + 1 .. d PROVE m = n
    OBVIOUS
  <2>1. m < n => m + 1 \in n + 1 .. d
    OBVIOUS
  <2>2. n < m => n + 1 \in m + 1 .. d
    OBVIOUS
  <2> QED
    BY <2>1, <2>2
<1> QED
  BY <1>1


LEMMA SameTaken ==
  ASSUME TypeOK, ImagesInOrder, output' = output, decoded' = decoded
  PROVE  ImagesInOrder' /\ Taken' = Taken
BY DEF ImagesInOrder, Waiting, Taken

LEMMA DecodedIsNat ==
  ASSUME TypeOK
  PROVE  decoded \in Nat
<1>1. decoded \in 0 .. MaxImages
  BY DEF TypeOK
<1> QED
  BY <1>1, ImagesAssumption

\* An image that is decoded waits; one that is taken is the last taken.
LEMMA TakenAfterAppend ==
  ASSUME TypeOK, ImagesInOrder, NEW o \in Outputs, output' = Append(output, o),
         \/ ~ IsImage(o) /\ decoded' = decoded
         \/ IsImage(o) /\ o.number = decoded + 1 /\ decoded' = decoded + 1
  PROVE  ImagesInOrder' /\ Taken' = Taken
<1>0. decoded \in Nat /\ decoded' \in Nat /\ decoded <= decoded'
  BY DecodedIsNat
<1>1. PICK n \in 0 .. decoded : Waiting = n + 1 .. decoded
  BY DEF ImagesInOrder
<1>2. ImagesInOrder' /\ Waiting' = n + 1 .. decoded'
  BY <1>1, OutputAppended
<1>3. Taken = n
  BY <1>0, <1>1, TakenIs DEF Taken
<1>4. n \in 0 .. decoded'
  BY <1>0
<1>5. Taken' = n
  BY <1>0, <1>2, <1>4, TakenIs DEF Taken
<1> QED
  BY <1>2, <1>3, <1>5

LEMMA TakenAfterTail ==
  ASSUME TypeOK, ImagesInOrder, output # <<>>, output' = Tail(output), decoded' = decoded
  PROVE  /\ ImagesInOrder'
         /\ Taken' = IF IsImage(Head(output)) THEN Head(output).number ELSE Taken
<1>0. decoded \in Nat
  BY DecodedIsNat
<1>1. PICK n \in 0 .. decoded : Waiting = n + 1 .. decoded
  BY DEF ImagesInOrder
<1>2. Taken = n
  BY <1>0, <1>1, TakenIs DEF Taken
<1>3. CASE IsImage(Head(output))
  <2>1. ImagesInOrder' /\ Head(output).number = n + 1 /\ n + 1 \in 0 .. decoded /\ Waiting' = n + 2 .. decoded
    BY <1>1, <1>3, OutputTaken
  <2>2. Waiting' = (n + 1) + 1 .. decoded
    BY <2>1, <1>0
  <2>3. Taken' = n + 1
    BY <1>0, <2>1, <2>2, TakenIs DEF Taken
  <2> QED
    BY <1>3, <2>1, <2>3
<1>4. CASE ~ IsImage(Head(output))
  <2>1. ImagesInOrder' /\ Waiting' = Waiting
    BY <1>1, <1>4, OutputTaken
  <2> QED
    BY <1>4, <2>1 DEF Taken
<1> QED
  BY <1>3, <1>4

\* What leaves the database and the input queue alone, and the frames.
SameInput == UNCHANGED <<input, remote, database>>
SameFrames == UNCHANGED <<suspended, retained, slot>>

LEMMA DatabaseKept ==
  ASSUME DatabaseAgrees, SameInput
  PROVE  DatabaseAgrees'
BY DEF DatabaseAgrees, SameInput, IsLastAbout

LEMMA FramesKept ==
  ASSUME NewestKept, SameFrames, Taken' = Taken
  PROVE  NewestKept'
BY DEF NewestKept, SameFrames


LEMMA AppendBounded ==
  ASSUME NEW S, NEW seq \in Seq(S), NEW e \in S, NEW capacity \in Nat, Len(seq) < capacity
  PROVE  Append(seq, e) \in Seq(S) /\ Len(Append(seq, e)) <= capacity
<1>1. Append(seq, e) \in Seq(S) /\ Len(Append(seq, e)) = Len(seq) + 1 /\ Len(seq) \in Nat
  BY AppendProperties, LenProperties
<1> QED
  BY <1>1

LEMMA TailBounded ==
  ASSUME NEW S, NEW seq \in Seq(S), NEW capacity \in Nat, Len(seq) <= capacity, seq # <<>>
  PROVE  Head(seq) \in S /\ Tail(seq) \in Seq(S) /\ Len(Tail(seq)) <= capacity
<1>1. Head(seq) \in S /\ Tail(seq) \in Seq(S) /\ Len(Tail(seq)) = Len(seq) - 1 /\ Len(seq) \in Nat
  BY HeadTailProperties, LenProperties
<1> QED
  BY <1>1

\* The types of the channels, one by one.
LEMMA Channels ==
  ASSUME TypeOK
  PROVE  /\ commands \in Seq(KeyCommands \cup PlainCommands)
         /\ output \in Seq(Outputs) /\ Len(output) <= OutputCapacity
         /\ input \in Seq(InputEvents) /\ Len(input) <= InputCapacity
         /\ OutputCapacity \in Nat /\ InputCapacity \in Nat
BY CapacityAssumption DEF TypeOK

LEMMA FirstOutput ==
  ASSUME TypeOK, output # <<>>
  PROVE  /\ Head(output) \in Outputs
         /\ Tail(output) \in Seq(Outputs) /\ Len(Tail(output)) <= OutputCapacity
BY Channels, TailBounded

LEMMA FirstInput ==
  ASSUME TypeOK, input # <<>>
  PROVE  /\ Head(input) \in InputEvents
         /\ Tail(input) \in Seq(InputEvents) /\ Len(Tail(input)) <= InputCapacity
BY Channels, TailBounded

LEMMA FirstCommand ==
  ASSUME TypeOK, commands # <<>>
  PROVE  /\ Head(commands) \in KeyCommands \cup PlainCommands
         /\ Tail(commands) \in Seq(KeyCommands \cup PlainCommands)
BY Channels, HeadTailProperties

LEMMA RoomForOutput ==
  ASSUME TypeOK, Room, NEW o \in Outputs
  PROVE  Append(output, o) \in Seq(Outputs) /\ Len(Append(output, o)) <= OutputCapacity
BY Channels, AppendBounded DEF Room

LEMMA RoomForInput ==
  ASSUME TypeOK, Reserves, NEW event \in InputEvents
  PROVE  Append(input, event) \in Seq(InputEvents) /\ Len(Append(input, event)) <= InputCapacity
BY Channels, AppendBounded DEF Reserves

-----------------------------------------------------------------------------
(* The steps, one lemma for the actions of each side.                      *)

LEMMA ControllerKeeps ==
  ASSUME BackendInv, ControllerStep
  PROVE  BackendInv'
<1> USE DEF BackendInv
<1>1. SameInput /\ SameFrames /\ output' = output /\ decoded' = decoded
  BY DEF ControllerStep, Send, DropHandle, SameInput, SameFrames, external
<1>2. TypeOK'
  <2>1. CASE DropHandle
    BY <2>1 DEF TypeOK, DropHandle, external
  <2>2. ASSUME NEW command \in KeyCommands \cup PlainCommands, Send(command) PROVE TypeOK'
    <3>1. commands' \in Seq(KeyCommands \cup PlainCommands)
      BY <2>2, Channels, AppendProperties DEF Send
    <3> QED
      BY <2>2, <3>1 DEF TypeOK, Send, external
  <2> QED
    BY <2>1, <2>2 DEF ControllerStep
<1>3. ImagesInOrder' /\ Taken' = Taken
  BY <1>1, SameTaken
<1> QED
  BY <1>1, <1>2, <1>3, DatabaseKept, FramesKept

LEMMA ClientKeeps ==
  ASSUME BackendInv, ClientStep
  PROVE  BackendInv'
<1> USE DEF BackendInv
<1>0. SameFrames
  BY DEF ClientStep, ClientDecodes, ClientAsks, ClientTakesInput, ClientWantsClipboard,
         ClientEnds, ClientReturns, SameFrames, external
<1>1. CASE ClientDecodes
  <2>1. decoded \in Nat /\ MaxImages \in Nat /\ decoded + 1 \in 1 .. MaxImages
    BY <1>1, DecodedIsNat, ImagesAssumption DEF ClientDecodes
  <2>2. PICK o \in Outputs : o = Image(decoded + 1) /\ IsImage(o) /\ o.number = decoded + 1
    BY <2>1, OutputTypes
  <2>3. output' = Append(output, o) /\ decoded' = decoded + 1 /\ SameInput /\ Room
    BY <1>1, <2>2 DEF ClientDecodes, SameInput
  <2>4. ImagesInOrder' /\ Taken' = Taken
    BY <2>2, <2>3, TakenAfterAppend
  <2>5. output' \in Seq(Outputs) /\ Len(output') <= OutputCapacity
    BY <2>3, RoomForOutput
  <2>6. decoded' \in 0 .. MaxImages
    BY <2>1, <2>3
  <2>7. TypeOK'
    BY <1>1, <2>5, <2>6 DEF TypeOK, ClientDecodes
  <2> QED
    BY <1>0, <2>3, <2>4, <2>7, DatabaseKept, FramesKept
<1>2. CASE ClientAsks \/ ClientReturns
  <2>1. PICK o \in Outputs : output' = Append(output, o) /\ ~ IsImage(o)
    BY <1>2, OutputTypes DEF ClientAsks, ClientReturns
  <2>2. decoded' = decoded /\ SameInput /\ Room
    BY <1>2 DEF ClientAsks, ClientReturns, SameInput
  <2>3. ImagesInOrder' /\ Taken' = Taken
    BY <2>1, <2>2, TakenAfterAppend
  <2>4. output' \in Seq(Outputs) /\ Len(output') <= OutputCapacity
    BY <2>1, <2>2, RoomForOutput
  <2>5. TypeOK'
    BY <1>2, <2>4 DEF TypeOK, ClientAsks, ClientReturns
  <2> QED
    BY <1>0, <2>2, <2>3, <2>5, DatabaseKept, FramesKept
<1>3. CASE ClientTakesInput
  <2>1. /\ input # <<>> /\ input' = Tail(input) /\ remote' = AfterInput(remote, Head(input))
        /\ database' = database /\ output' = output /\ decoded' = decoded
    BY <1>3 DEF ClientTakesInput
  <2>2. DatabaseAgrees'
    BY <2>1, AgreesAfterTake
  <2>3. ImagesInOrder' /\ Taken' = Taken
    BY <2>1, SameTaken
  <2>4. remote' \in SUBSET Keys
    BY <2>1, FirstInput, OneEvent DEF TypeOK
  <2>5. input' \in Seq(InputEvents) /\ Len(input') <= InputCapacity
    BY <2>1, FirstInput
  <2>6. TypeOK'
    BY <1>3, <2>4, <2>5 DEF TypeOK, ClientTakesInput
  <2> QED
    BY <1>0, <2>2, <2>3, <2>6, FramesKept
<1>4. CASE ClientWantsClipboard \/ ClientEnds
  <2>1. SameInput /\ output' = output /\ decoded' = decoded
    BY <1>4 DEF ClientWantsClipboard, ClientEnds, SameInput, external
  <2>2. TypeOK'
    BY <1>4 DEF TypeOK, ClientWantsClipboard, ClientEnds, external
  <2>3. ImagesInOrder' /\ Taken' = Taken
    BY <2>1, SameTaken
  <2> QED
    BY <1>0, <2>1, <2>2, <2>3, DatabaseKept, FramesKept
<1> QED
  BY <1>1, <1>2, <1>3, <1>4 DEF ClientStep


\* A key or button, or the release of all: with no room for it, or for a key
\* that is not down, queue and database both stay as they are.
LEMMA DispatchKeeps ==
  ASSUME TypeOK, DatabaseAgrees, NEW command \in InputEvents, DispatchInput(command), remote' = remote
  PROVE  /\ DatabaseAgrees'
         /\ input' \in Seq(InputEvents) /\ Len(input') <= InputCapacity
         /\ database' \in SUBSET Keys /\ closing' \in BOOLEAN
<1> DEFINE silent == command.type = "KeyUp" /\ command.key \notin database
<1>1. closing' \in BOOLEAN
  BY DEF TypeOK, DispatchInput
<1>2. database \in SUBSET Keys
  BY DEF TypeOK
<1>3. CASE Reserves /\ ~ silent
  <2>1. input' = Append(input, command) /\ database' = AfterInput(database, command)
    BY <1>3 DEF DispatchInput, DatabaseAfter
  <2>2. DatabaseAgrees'
    BY <2>1, AgreesAfterSend
  <2> QED
    BY <1>1, <1>2, <1>3, <2>1, <2>2, RoomForInput, OneEvent
<1>4. CASE ~ (Reserves /\ ~ silent)
  <2>1. input' = input
    BY <1>4 DEF DispatchInput
  <2>2. database' = database
    <3>1. CASE Reserves
      BY <1>2, <1>4, <3>1 DEF DispatchInput, DatabaseAfter, AfterInput
    <3>2. CASE ~ Reserves
      BY <3>2 DEF DispatchInput, DatabaseAfter
    <3> QED
      BY <3>1, <3>2
  <2>3. SameInput
    BY <2>1, <2>2 DEF SameInput
  <2>4. input \in Seq(InputEvents) /\ Len(input) <= InputCapacity
    BY Channels
  <2> QED
    BY <1>1, <1>2, <2>1, <2>2, <2>3, <2>4, DatabaseKept
<1> QED
  BY <1>3, <1>4

LEMMA ImageNumbers ==
  /\ 0 \in 0 .. MaxImages /\ 0 \notin Refused
  /\ \A n \in 1 .. MaxImages : n \in 0 .. MaxImages /\ n # 0
  /\ \A n \in 0 .. MaxImages : n # 0 => n \in 1 .. MaxImages
BY ImagesAssumption

LEMMA FramesTyped ==
  ASSUME TypeOK
  PROVE  suspended \in BOOLEAN /\ retained \in 0 .. MaxImages /\ slot \in 0 .. MaxImages
BY DEF TypeOK

\* A refused image leaves the slot as it was.
LEMMA SlotType ==
  ASSUME TypeOK, NEW n \in 1 .. MaxImages
  PROVE  /\ SlotAfter(n) \in 0 .. MaxImages
         /\ slot \notin Refused => SlotAfter(n) \notin Refused
         /\ n \in Refused \/ SlotAfter(n) = n
BY ImageNumbers, FramesTyped DEF SlotAfter

LEMMA RenderingKeeps ==
  ASSUME TypeOK, NewestKept, NEW suspend \in BOOLEAN, DispatchRendering(suspend), Taken' = Taken
  PROVE  /\ NewestKept'
         /\ suspended' \in BOOLEAN /\ retained' \in 0 .. MaxImages /\ slot' \in 0 .. MaxImages
<1>0. /\ suspended \in BOOLEAN /\ retained \in 0 .. MaxImages /\ slot \in 0 .. MaxImages
      /\ 0 \in 0 .. MaxImages
  BY ImageNumbers, FramesTyped
<1>1. CASE suspend
  BY <1>0, <1>1 DEF DispatchRendering, NewestKept
<1>2. CASE ~ suspend /\ retained = 0
  BY <1>0, <1>2 DEF DispatchRendering, Flush, NewestKept
<1>3. CASE ~ suspend /\ retained # 0
  <2>1. retained \in 1 .. MaxImages
    BY <1>0, <1>3, ImagesAssumption
  <2>2. slot' = SlotAfter(retained) /\ retained' = 0 /\ suspended' = FALSE
    BY <1>3 DEF DispatchRendering, Flush
  <2>3. retained = Taken /\ slot \notin Refused
    BY <1>3 DEF NewestKept
  <2>4. /\ SlotAfter(retained) \in 0 .. MaxImages /\ SlotAfter(retained) \notin Refused
        /\ retained \in Refused \/ SlotAfter(retained) = retained
    BY <2>1, <2>3, SlotType
  <2>5. Taken' \in Refused \/ slot' = Taken'
    BY <2>2, <2>3, <2>4
  <2>6. NewestKept'
    BY <2>2, <2>4, <2>5 DEF NewestKept
  <2> QED
    BY <1>0, <2>2, <2>4, <2>6
<1> QED
  BY <1>1, <1>2, <1>3

LEMMA RecvCommandKeeps ==
  ASSUME BackendInv, RecvCommand
  PROVE  BackendInv'
<1> USE DEF BackendInv
<1> DEFINE command == Head(commands)
<1>1. /\ commands # <<>> /\ commands' = Tail(commands)
      /\ output' = output /\ decoded' = decoded /\ remote' = remote
      /\ UNCHANGED <<held, client, clipboard, commandClosed, reason>>
  BY DEF RecvCommand
<1>2. command \in KeyCommands \cup PlainCommands /\ commands' \in Seq(KeyCommands \cup PlainCommands)
  BY <1>1, FirstCommand
<1>3. ImagesInOrder' /\ Taken' = Taken
  BY <1>1, SameTaken
<1>4. CASE command.type \in {"KeyDown", "KeyUp", "ReleaseAll"}
  <2>1. DispatchInput(command) /\ command \in InputEvents
    BY <1>2, <1>4, CommandTypes DEF RecvCommand
  <2>2. /\ DatabaseAgrees'
        /\ input' \in Seq(InputEvents) /\ Len(input') <= InputCapacity
        /\ database' \in SUBSET Keys /\ closing' \in BOOLEAN
    BY <1>1, <2>1, DispatchKeeps
  <2>3. SameFrames /\ told' = told
    BY <2>1 DEF DispatchInput, SameFrames
  <2>4. TypeOK'
    BY <1>1, <1>2, <2>2, <2>3 DEF TypeOK, SameFrames
  <2> QED
    BY <1>3, <2>2, <2>3, <2>4, FramesKept
<1>5. CASE command.type \in {"SuspendRendering", "ResumeRendering"}
  <2>1. PICK suspend \in BOOLEAN : DispatchRendering(suspend)
    BY <1>5 DEF RecvCommand
  <2>2. /\ NewestKept'
        /\ suspended' \in BOOLEAN /\ retained' \in 0 .. MaxImages /\ slot' \in 0 .. MaxImages
    BY <1>3, <2>1, RenderingKeeps
  <2>3. SameInput /\ UNCHANGED <<closing, told>>
    BY <1>1, <2>1 DEF DispatchRendering, SameInput
  <2>4. TypeOK'
    BY <1>1, <1>2, <2>2, <2>3 DEF TypeOK, SameInput
  <2> QED
    BY <1>3, <2>2, <2>3, <2>4, DatabaseKept
<1>6. CASE command.type = "Disconnect"
  <2>1. DispatchDisconnect
    BY <1>6 DEF RecvCommand
  <2>2. SameInput /\ SameFrames /\ closing' = TRUE /\ told' = TRUE
    BY <1>1, <2>1 DEF DispatchDisconnect, SameInput, SameFrames
  <2>3. TypeOK'
    BY <1>1, <1>2, <2>2 DEF TypeOK, SameInput, SameFrames
  <2> QED
    BY <1>3, <2>2, <2>3, DatabaseKept, FramesKept
<1> QED
  BY <1>2, <1>4, <1>5, <1>6, CommandTypes

LEMMA LoopKeeps ==
  ASSUME BackendInv, LoopStep
  PROVE  BackendInv'
<1> USE DEF BackendInv
<1>1. CASE RecvImage
  <2>1. /\ output # <<>> /\ output' = Tail(output) /\ decoded' = decoded
        /\ SameInput /\ IsImage(Head(output)) /\ suspended' = suspended
    BY <1>1 DEF RecvImage, external, SameInput, IsImage
  <2>2. PICK n \in 1 .. MaxImages : n = Head(output).number
    BY <2>1, FirstOutput, OutputTypes
  <2>3. ImagesInOrder' /\ Taken' = n
    BY <2>1, <2>2, TakenAfterTail
  <2>4. n # 0 /\ n \in 0 .. MaxImages
    BY <2>2, ImagesAssumption
  <2>5. IF suspended THEN retained' = n /\ slot' = slot ELSE slot' = SlotAfter(n) /\ retained' = retained
    BY <1>1, <2>2 DEF RecvImage
  <2>6. NewestKept'
    BY <2>1, <2>3, <2>4, <2>5, SlotType DEF NewestKept
  <2>7. slot' \in 0 .. MaxImages /\ retained' \in 0 .. MaxImages
    BY <2>2, <2>4, <2>5, SlotType, FramesTyped
  <2>8. TypeOK'
    BY <1>1, <2>1, <2>7, FirstOutput DEF TypeOK, RecvImage, external
  <2> QED
    BY <2>1, <2>3, <2>6, <2>8, DatabaseKept
<1>2. CASE RecvAutoReconnecting \/ RecvFinal
  <2>1. /\ output # <<>> /\ output' = Tail(output) /\ decoded' = decoded
        /\ SameInput /\ SameFrames /\ ~ IsImage(Head(output))
    BY <1>2 DEF RecvAutoReconnecting, RecvFinal, external, SameInput, SameFrames, IsImage
  <2>2. ImagesInOrder' /\ Taken' = Taken
    BY <2>1, TakenAfterTail
  <2>3. TypeOK'
    BY <1>2, <2>1, FirstOutput DEF TypeOK, RecvAutoReconnecting, RecvFinal, external
  <2> QED
    BY <2>1, <2>2, <2>3, DatabaseKept, FramesKept
<1>3. CASE RecvClosed \/ RecvClipboard
  <2>1. SameInput /\ SameFrames /\ output' = output /\ decoded' = decoded
    BY <1>3 DEF RecvClosed, RecvClipboard, external, SameInput, SameFrames
  <2>2. ImagesInOrder' /\ Taken' = Taken
    BY <2>1, SameTaken
  <2>3. TypeOK'
    BY <1>3 DEF TypeOK, RecvClosed, RecvClipboard, external, ClosingAfterDrop
  <2> QED
    BY <2>1, <2>2, <2>3, DatabaseKept, FramesKept
<1> QED
  BY <1>1, <1>2, <1>3, RecvCommandKeeps DEF LoopStep

LEMMA BackendStarts ==
  ASSUME Init
  PROVE  BackendInv
<1>1. TypeOK
  <2>1. Len(output) <= OutputCapacity /\ Len(input) <= InputCapacity
    BY CapacityAssumption, EmptySeq DEF Init
  <2>2. /\ commands \in Seq(KeyCommands \cup PlainCommands)
        /\ output \in Seq(Outputs) /\ input \in Seq(InputEvents)
    BY EmptySeq DEF Init
  <2> QED
    BY <2>1, <2>2, ImageNumbers DEF TypeOK, Init
<1>2. DatabaseAgrees
  BY EmptySeq DEF DatabaseAgrees, Init
<1>3. Waiting = {} /\ decoded = 0 /\ Len(output) = 0
  BY EmptySeq DEF Waiting, Init
<1>4. Waiting = 0 + 1 .. decoded /\ 0 \in 0 .. decoded
  BY <1>3
<1>5. ImagesInOrder
  BY <1>3, <1>4 DEF ImagesInOrder
<1>6. Taken = 0
  BY <1>3, <1>4, TakenIs DEF Taken
<1>7. NewestKept
  BY <1>6, ImagesAssumption DEF NewestKept, Init
<1> QED
  BY <1>1, <1>2, <1>5, <1>7 DEF BackendInv

LEMMA BackendSteps ==
  ASSUME BackendInv, [Next]_vars
  PROVE  BackendInv'
<1>1. CASE UNCHANGED vars
  <2>1. SameInput /\ SameFrames /\ output' = output /\ decoded' = decoded
    BY <1>1 DEF vars, external, SameInput, SameFrames
  <2>2. ImagesInOrder' /\ Taken' = Taken
    BY <2>1, SameTaken DEF BackendInv
  <2>3. TypeOK'
    BY <1>1 DEF BackendInv, TypeOK, vars, external
  <2> QED
    BY <2>1, <2>2, <2>3, DatabaseKept, FramesKept DEF BackendInv
<1> QED
  BY <1>1, ControllerKeeps, ClientKeeps, LoopKeeps DEF Next, Ended

-----------------------------------------------------------------------------
(* The theorems.                                                           *)

\* The inductive invariant holds in every state of a session thread: the
\* database and the frame slot mean what they say while images, keys, the
\* pause of the display and the end of the client interleave.
THEOREM BackendInvariance == Spec => []BackendInv
<1>1. Init => BackendInv
  BY BackendStarts
<1>2. BackendInv /\ [Next]_vars => BackendInv'
  BY BackendSteps
<1> QED
  BY <1>1, <1>2, PTL DEF Spec

\* The types of the thread's state, for any capacity of the two queues.
THEOREM BackendTyped == Spec => []TypeOK
<1>1. BackendInv => TypeOK
  BY DEF BackendInv
<1> QED
  BY <1>1, BackendInvariance, PTL

\* The input database agrees with the remote computer and the input queue,
\* whatever reservation failed (database.apply after try_reserve).
THEOREM DatabaseAgreesAlways == Spec => []DatabaseAgrees
<1>1. BackendInv => DatabaseAgrees
  BY DEF BackendInv
<1> QED
  BY <1>1, BackendInvariance, PTL

\* No image is lost but to a newer one, across any number of pauses and resumes
\* of the display (suspended_frame and the frame slot).
THEOREM NewestKeptAlways == Spec => []NewestKept
<1>1. BackendInv => NewestKept
  BY DEF BackendInv
<1> QED
  BY <1>1, BackendInvariance, PTL

=============================================================================
