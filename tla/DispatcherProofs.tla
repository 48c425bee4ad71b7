-------------------------- MODULE DispatcherProofs --------------------------
(***************************************************************************)
(* Proofs about Dispatcher for any commands, files, losses of the link and *)
(* sizes of the buffers on the way.                                        *)
(***************************************************************************)
EXTENDS Dispatcher, TLAPS, SequenceTheorems

\* A leaf goes to Zenon unless it names another prover.
USE ZenonT(30)

ByteVals == 0..255

\* The cast to byte.
LEMMA ByteRange == ASSUME NEW n \in Int PROVE Byte(n) \in ByteVals
BY SMTT(30) DEF Byte, ByteVals

\* The end of the file as a byte.
LEMMA EndByte == Byte(-1) = 255
<1>1. \A n \in Int : n + 1 = 0 => n % 256 = 255
  BY SMTT(30)
<1>2. -1 \in Int /\ (-1) + 1 = 0
  BY SMTT(30)
<1> QED
  BY <1>1, <1>2 DEF Byte

\* A delta that MouseSender clamped survives the two casts on its way.
LEMMA DeltaSurvives ==
  ASSUME NEW d \in -127..127
  PROVE  SignedChar(Byte(d)) = d
BY SMTT(30) DEF SignedChar, Byte

-----------------------------------------------------------------------------
(* Types.                                                                  *)

\* What the histories hold.
Usb == {Click} \cup {Key(b) : b \in ByteVals}
         \cup [kind : {"move"}, x : -128..127, y : -128..127, wheel : -128..127]

\* TypeOKDispatcher in parts, and the rest of the state.
Buffers ==
  /\ keyBytes \in [1..1 -> ByteVals] /\ clickBytes \in [1..1 -> ByteVals]
  /\ mouseBytes \in [1..3 -> ByteVals]

Threads ==
  /\ pc \in [senders -> {"idle", "delimiter", "type", "payload", "slept",
                         "closing"}]
  /\ kind \in [senders -> {"key", "mouse", "click"}]

Link == up \in BOOLEAN /\ air \in Seq(ByteVals) /\ mark \in -1..Len(issued)

Histories == issued \in Seq(Usb) /\ executed \in Seq(Usb)

Decoder ==
  /\ currentState \in DecoderStates
  /\ mouseX \in -128..255 /\ mouseY \in -128..255

TaskType ==
  /\ DOMAIN task = {"state", "content", "pos", "char", "canceled", "result",
                    "base", "after"}
  /\ task.state \in {"null", "sending", "post"}
  /\ task.content \in Seq(Nat) /\ task.pos \in Nat
  /\ task.char \in ByteVals /\ task.canceled \in BOOLEAN
  /\ task.result \in {"none", "sent", "canceled", "exception"}
  /\ task.base \in Nat /\ task.after \in Nat

Types ==
  /\ senders \in Scenarios
  /\ Buffers /\ Threads /\ Link /\ Histories /\ Decoder /\ TaskType

\* They are more than the type invariant of the run asks for.
LEMMA TypesSuffice == Types => TypeOKDispatcher
<1>1. TaskType => /\ task.state \in {"null", "sending", "post"}
                  /\ task.result \in {"none", "sent", "canceled", "exception"}
  BY DEF TaskType
<1> QED
  BY <1>1 DEF Types, TypeOKDispatcher, Buffers, Threads, Link, ByteVals

\* Nothing has been written, read or chosen yet.
LEMMA InitTypes == InitDispatcher => Types
<1> SUFFICES ASSUME InitDispatcher PROVE Types
  OBVIOUS
<1> USE DEF InitDispatcher, InitFirmware
<1>1. Buffers
  BY SMTT(30) DEF Buffers, ByteVals
<1>2. Threads
  BY DEF Threads
<1>3. Link
  BY EmptySeq, SMTT(30) DEF Link
<1>4. TaskType
  BY EmptySeq, SMTT(30) DEF NoTask, ByteVals, TaskType
<1>5. Histories
  BY EmptySeq DEF Histories
<1>6. Decoder
  BY SMTT(30) DEF Decoder, DecoderStates
<1> QED
  BY <1>1, <1>2, <1>3, <1>4, <1>5, <1>6 DEF Types

\* sendByte() keeps the types of the link.
LEMMA WriteTypes ==
  ASSUME Types, NEW bytes \in Seq(ByteVals), sendByte(bytes),
         UNCHANGED <<issued, up>>
  PROVE  Link'
<1>1. Len(issued) \in Nat
  BY LenProperties DEF Types, Histories
<1>2. air \o bytes \in Seq(ByteVals)
  BY ConcatProperties DEF Types, Link
<1> QED
  BY <1>1, <1>2, SMTT(30) DEF sendByte, Types, Link

\* loop() keeps the decoder's types; what it executes is a USB event.
LEMMA DecodeTypes ==
  ASSUME Decoder, NEW b \in ByteVals, Loop(b)
  PROVE  /\ currentState' \in DecoderStates
         /\ mouseX' \in -128..255 /\ mouseY' \in -128..255
         /\ UsbEvent(out') = Nothing \/ out' \in Usb
<1> DEFINE n == IntVal(b)
<1>1. n \in -128..255
  BY SMTT(30) DEF IntVal, ByteVals
<1> HIDE DEF n
<1>2. Restart(n) \/ Dispatch(b, n)
  BY DEF Loop, n
<1>3. currentState' \in DecoderStates
  BY <1>2 DEF Restart, Dispatch, Begin, printError, Goto, DecoderStates
<1>4. mouseX' \in -128..255 /\ mouseY' \in -128..255
  BY <1>1, <1>2, SMTT(30) DEF Restart, Dispatch, KeepMouse, Decoder
<1>5. \/ out' \in {Nothing, Click, Key(b), Error(0, n), Error(5, n)}
      \/ out' = Move(mouseX, mouseY, n)
  BY <1>2 DEF Restart, Dispatch, Begin, printError, Goto
<1>6. UsbEvent(Nothing) = Nothing /\ \A at, k : UsbEvent(Error(at, k)) = Nothing
  BY DEF UsbEvent, Nothing, Error
<1>7. Click \in Usb /\ Key(b) \in Usb
  BY DEF Usb
<1>8. Move(mouseX, mouseY, n) \in Usb
  <2>1. \A k \in -128..255 : SignedChar(k) \in -128..127
    BY SMTT(30) DEF SignedChar
  <2>2. /\ SignedChar(mouseX) \in -128..127 /\ SignedChar(mouseY) \in -128..127
        /\ SignedChar(n) \in -128..127
    BY <1>1, <2>1 DEF Decoder
  <2> QED
    BY <2>2 DEF Move, Usb
<1>9. UsbEvent(out') = Nothing \/ out' \in Usb
  BY <1>5, <1>6, <1>7, <1>8
<1> QED
  BY <1>3, <1>4, <1>9

\* What a command that begins does to the types.
LEMMA IssueTypes ==
  ASSUME Types, NEW t \in senders, NEW k \in {"key", "mouse", "click"},
         NEW event \in Usb, Issue(t, k, event), UNCHANGED <<senders, link>>
  PROVE  Threads' /\ issued' \in Seq(Usb) /\ Link'
<1>1. Threads'
  BY DEF Types, Threads, Issue, Advance
<1>2. issued' \in Seq(Usb) /\ Len(issued') = Len(issued) + 1 /\ Len(issued) \in Nat
  BY AppendProperties, LenProperties DEF Types, Histories, Issue
<1>3. Link'
  BY <1>2, SMTT(30) DEF Types, Link, link
<1> QED
  BY <1>1, <1>2, <1>3

\* What a step leaves alone keeps its type.
LEMMA FrameTypes ==
  ASSUME Types, senders' = senders
  PROVE  /\ senders' \in Scenarios
         /\ UNCHANGED buffers => Buffers'
         /\ UNCHANGED <<pc, kind>> => Threads'
         /\ UNCHANGED <<link, issued>> => Link'
         /\ UNCHANGED <<issued, executed>> => Histories'
         /\ UNCHANGED firmware => Decoder'
         /\ UNCHANGED task => TaskType'
<1>1. UNCHANGED buffers => Buffers'
  BY DEF Types, buffers, Buffers
<1>2. UNCHANGED <<pc, kind>> => Threads'
  BY DEF Types, Threads
<1>3. UNCHANGED <<link, issued>> => Link'
  BY DEF Types, link, Link
<1>4. UNCHANGED <<issued, executed>> => Histories'
  BY DEF Types, Histories
<1>5. UNCHANGED firmware => Decoder'
  BY DEF Types, firmware, Decoder
<1>6. UNCHANGED task => TaskType'
  BY DEF Types, TaskType
<1> QED
  BY <1>1, <1>2, <1>3, <1>4, <1>5, <1>6 DEF Types

\* Every step keeps the types.
LEMMA StepTypes == Types /\ [NextDispatcher]_varsDispatcher => Types'
<1> SUFFICES ASSUME Types, [NextDispatcher]_varsDispatcher PROVE Types'
  OBVIOUS
<1>0. CASE UNCHANGED varsDispatcher
  BY <1>0, FrameTypes DEF varsDispatcher, Types
<1> SUFFICES ASSUME NextDispatcher PROVE Types'
  BY <1>0
<1>1. senders' = senders /\ senders \in Scenarios
  BY DEF NextDispatcher, Types
<1> USE <1>1
<1>2. ASSUME "ui" \in senders,
             NEW c \in {Byte(c) : c \in Chars} \cup {DELETE, ENTER}, PressKey(c)
      PROVE  Types'
  <2>1. c \in ByteVals
    <3>1. DELETE \in ByteVals /\ ENTER \in ByteVals
      BY SMTT(30) DEF ByteVals, DELETE, ENTER
    <3>2. \A n \in Chars : n \in Int
      BY DispatcherAssumption, SMTT(30)
    <3>3. \A n \in Chars : Byte(n) \in ByteVals
      BY <3>2, ByteRange
    <3> QED
      BY <3>1, <3>3
  <2>2. Key(c) \in Usb
    BY <2>1 DEF Usb
  <2>3. Threads' /\ issued' \in Seq(Usb) /\ Link'
    BY <1>2, <2>2, IssueTypes DEF PressKey
  <2>4. Buffers'
    BY <1>2, <2>1, SMTT(30) DEF PressKey, Types, Buffers
  <2> QED
    BY <1>2, <2>3, <2>4, FrameTypes DEF PressKey, Types, Histories
<1>3. ASSUME "ui" \in senders, NEW button \in {LEFT, RIGHT}, PressButton(button)
      PROVE  Types'
  <2>1. button \in ByteVals
    BY SMTT(30) DEF ByteVals, LEFT, RIGHT
  <2>2. Click \in Usb
    BY DEF Usb
  <2>3. Threads' /\ issued' \in Seq(Usb) /\ Link'
    BY <1>3, <2>2, IssueTypes DEF PressButton
  <2>4. Buffers'
    BY <1>3, <2>1, SMTT(30) DEF PressButton, Types, Buffers
  <2> QED
    BY <1>3, <2>3, <2>4, FrameTypes DEF PressButton, Types, Histories
<1>4. ASSUME "mouse" \in senders, NEW d \in Deltas, MoveMouse(d)
      PROVE  Types'
  <2> DEFINE e == [kind |-> "move", x |-> d[1], y |-> d[2], wheel |-> 0]
  <2>1. d[1] \in -127..127 /\ d[2] \in -127..127
    BY DispatcherAssumption
  <2>2. e \in Usb
    BY <2>1, SMTT(30) DEF Usb
  <2>3. Byte(d[1]) \in ByteVals /\ Byte(d[2]) \in ByteVals /\ 0 \in ByteVals
    <3>1. d[1] \in Int /\ d[2] \in Int
      BY <2>1, SMTT(30)
    <3>2. 0 \in ByteVals
      BY SMTT(30) DEF ByteVals
    <3> QED
      BY <3>1, <3>2, ByteRange
  <2>4. Issue("mouse", "mouse", e) /\ UNCHANGED link
    BY <1>4 DEF MoveMouse
  <2> HIDE DEF e
  <2>5. Threads' /\ issued' \in Seq(Usb) /\ Link'
    BY <1>4, <2>2, <2>4, IssueTypes
  <2>6. Buffers'
    BY <1>4, <2>3, SMTT(30) DEF MoveMouse, Types, Buffers
  <2> QED
    BY <1>4, <2>5, <2>6, FrameTypes DEF MoveMouse, Types, Histories
<1>5. ASSUME NEW f \in Files, sendFile(f) PROVE Types'
  <2>1. f \in Seq(Nat) /\ Len(issued) \in Nat
    BY DispatcherAssumption, LenProperties DEF Types, Histories
  <2>2. TaskType'
    BY <1>5, <2>1, SMTT(30) DEF sendFile, NoTask, TaskType, ByteVals
  <2> QED
    BY <1>5, <2>2, FrameTypes DEF sendFile, Quiet, Types
<1>6. ASSUME "file" \in senders, FileRead PROVE Types'
  <2> DEFINE char == Read(task.content, task.pos)
  <2>1. task.content \in Seq(Nat) /\ task.pos \in Nat /\ task.after \in Nat
    BY DEF Types, TaskType
  <2>2. char \in ByteVals
    <3>1. CASE task.pos < Len(task.content)
      <4>1. task.content[task.pos + 1] \in Nat
        BY <2>1, <3>1, ElementOfSeq, LenProperties, SMTT(30)
      <4> QED
        BY <3>1, <4>1, ByteRange, SMTT(30) DEF Read
    <3>2. CASE ~(task.pos < Len(task.content))
      BY <3>2, ByteRange, SMTT(30) DEF Read
    <3> QED
      BY <3>1, <3>2
  <2>3. /\ task' = [task EXCEPT !.pos = @ + 1, !.char = char,
                                !.after = IF task.canceled THEN @ + 1 ELSE @]
        /\ keyBytes' = <<char>>
        /\ issued' = IF char = Byte(-1) THEN issued ELSE Append(issued, Key(char))
    BY <1>6 DEF FileRead
  <2> HIDE DEF char
  <2>4. TaskType'
    BY <2>1, <2>2, <2>3, SMTT(30) DEF Types, TaskType
  <2>5. Key(char) \in Usb
    BY <2>2 DEF Usb
  <2>6. /\ issued' \in Seq(Usb) /\ Len(issued) \in Nat
        /\ Len(issued') \in {Len(issued), Len(issued) + 1}
    BY <2>3, <2>5, AppendProperties, LenProperties DEF Types, Histories
  <2>7. Link'
    BY <1>6, <2>6, SMTT(30) DEF FileRead, Types, Link, link
  <2>8. Buffers'
    BY <1>6, <2>2, <2>3, SMTT(30) DEF FileRead, Types, Buffers
  <2>9. Threads'
    BY <1>6 DEF FileRead, Advance, Types, Threads
  <2> QED
    BY <1>6, <2>4, <2>6, <2>7, <2>8, <2>9, FrameTypes
    DEF FileRead, Types, Histories
<1>7. CASE FileLoop \/ FileReturn \/ FileFails \/ Cancel \/ onPostExecute
  <2>1. Threads'
    BY <1>7 DEF FileLoop, FileReturn, FileFails, Cancel, onPostExecute, Quiet,
       Advance, Types, Threads
  <2>2. TaskType'
    <3>1. CASE FileLoop
      BY <3>1, FrameTypes DEF FileLoop
    <3>2. CASE FileReturn
      BY <3>2 DEF FileReturn, Types, TaskType
    <3>3. CASE FileFails
      BY <3>3 DEF FileFails, Types, TaskType
    <3>4. CASE Cancel
      BY <3>4 DEF Cancel, Types, TaskType
    <3>5. CASE onPostExecute
      BY <3>5, EmptySeq, SMTT(30) DEF onPostExecute, NoTask, TaskType, ByteVals
    <3> QED
      BY <1>7, <3>1, <3>2, <3>3, <3>4, <3>5
  <2>3. Quiet
    BY <1>7 DEF FileLoop, FileReturn, FileFails, Cancel, onPostExecute
  <2> QED
    BY <2>1, <2>2, <2>3, FrameTypes DEF Quiet, Types
<1>8. ASSUME NEW t \in senders,
             sendDelimiter(t) \/ SendType(t) \/ SendPayload(t)
      PROVE  Types'
  <2>1. PICK bytes \in Seq(ByteVals) : sendByte(bytes)
    <3>1. CASE sendDelimiter(t)
      <4>1. DELIMITER \in Seq(ByteVals)
        BY SMTT(30) DEF DELIMITER, START_BYTE, ByteVals
      <4> QED
        BY <3>1, <4>1 DEF sendDelimiter
    <3>2. CASE SendType(t)
      <4>1. <<TypeByte(kind[t])>> \in Seq(ByteVals)
        BY SMTT(30) DEF TypeByte, KEY_BEGIN, MOUSE_BEGIN, CLICK_BEGIN, ByteVals, Types,
           Threads
      <4> QED
        BY <3>2, <4>1 DEF SendType
    <3>3. CASE SendPayload(t)
      <4>1. Payload(kind[t]) \in Seq(ByteVals)
        <5>1. \A n \in Nat : [1..n -> ByteVals] \subseteq Seq(ByteVals)
          BY SeqDef
        <5>2. /\ keyBytes \in Seq(ByteVals) /\ mouseBytes \in Seq(ByteVals)
              /\ clickBytes \in Seq(ByteVals)
          BY <5>1 DEF Types, Buffers
        <5> QED
          BY <5>2 DEF Payload, Types, Threads
      <4> QED
        BY <3>3, <4>1 DEF SendPayload
    <3> QED
      BY <1>8, <3>1, <3>2, <3>3
  <2>2. Unsent
    BY <1>8 DEF sendDelimiter, SendType, SendPayload
  <2>3. Link'
    BY <2>1, <2>2, WriteTypes DEF Unsent
  <2>4. Threads'
    BY <1>8, <2>2 DEF sendDelimiter, SendType, SendPayload, Advance, Unsent,
       Types, Threads
  <2> QED
    BY <2>2, <2>3, <2>4, FrameTypes DEF Unsent, Types
<1>9. CASE LinkLost \/ LinkUp
  <2>1. Len(issued) \in Nat
    BY LenProperties DEF Types, Histories
  <2>2. Link'
    <3>1. mark \in -1..Len(issued) /\ air \in Seq(ByteVals)
      BY DEF Types, Link
    <3>2. CASE LinkLost
      <4>1. /\ issued' = issued /\ up' = FALSE /\ air' = << >>
            /\ mark' \in {mark, Len(issued)}
        BY <3>2 DEF LinkLost
      <4>2. air' \in Seq(ByteVals)
        BY <4>1, EmptySeq
      <4>3. mark' \in -1..Len(issued')
        BY <2>1, <3>1, <4>1, SMTT(30)
      <4> QED
        BY <4>1, <4>2, <4>3 DEF Link
    <3>3. CASE LinkUp
      BY <3>1, <3>3 DEF LinkUp, Link
    <3> QED
      BY <1>9, <3>2, <3>3
  <2> QED
    BY <1>9, <2>2, FrameTypes DEF LinkLost, LinkUp, Types
<1>10. CASE Receive
  <2>1. /\ Head(air) \in ByteVals /\ Tail(air) \in Seq(ByteVals)
        /\ Loop(Head(air)) /\ air' = Tail(air)
    BY <1>10, HeadTailProperties DEF Receive, Types, Link
  <2>2. Decoder' /\ (UsbEvent(out') = Nothing \/ out' \in Usb)
    BY <2>1, DecodeTypes DEF Types, Decoder
  <2>3. executed' \in Seq(Usb)
    BY <1>10, <2>2, AppendProperties DEF Receive, Types, Histories
  <2>4. Link'
    BY <1>10, <2>1 DEF Receive, Types, Link
  <2> QED
    BY <1>10, <2>2, <2>3, <2>4, FrameTypes DEF Receive, Types, Histories
<1> QED
  BY <1>2, <1>3, <1>4, <1>5, <1>6, <1>7, <1>8, <1>9, <1>10
  DEF NextDispatcher, UiStep, FileStep

\* The types hold in every state.
LEMMA TypesAlways == SpecDispatcher => []Types
BY InitTypes, StepTypes, PTL DEF SpecDispatcher

\* Whatever the threads do, what sendByte() passes on is a byte, and the
\* dispatcher's fields keep their types.
THEOREM DispatcherTypes == SpecDispatcher => []TypeOKDispatcher
BY TypesAlways, TypesSuffice, PTL

-----------------------------------------------------------------------------
(* Cancel.                                                                  *)

\* A task that has read a character after Cancel is on its way out of the loop.
Prompt ==
  /\ task.state # "null" => "file" \in senders
  /\ task.state = "null" => task.after = 0
  /\ "file" \in senders /\ pc["file"] # "idle" => task.state = "sending"
  /\ \/ task.after = 0
     \/ /\ task.after = 1 /\ task.canceled
        /\ task.state = "post" \/ pc["file"] # "idle"

\* Every step of every thread keeps it, whether or not they overlap.
LEMMA StepPrompt ==
  Types /\ Prompt /\ [NextDispatcher]_varsDispatcher => Prompt'
<1> SUFFICES ASSUME Types, Prompt, [NextDispatcher]_varsDispatcher PROVE Prompt'
  OBVIOUS
<1>0. CASE UNCHANGED varsDispatcher
  BY <1>0 DEF varsDispatcher, Prompt
<1> SUFFICES ASSUME NextDispatcher PROVE Prompt'
  BY <1>0
<1>1. senders' = senders
  BY DEF NextDispatcher
<1>2. TaskType /\ Threads
  BY DEF Types
<1> USE <1>1, <1>2
<1>3. ASSUME NEW t \in senders, t # "file", task' = task,
             NEW to, pc' = [pc EXCEPT ![t] = to]
      PROVE  Prompt'
  BY <1>3 DEF Prompt, Threads
<1>4. ASSUME "ui" \in senders,
             NEW c \in {Byte(c) : c \in Chars} \cup {DELETE, ENTER}, PressKey(c)
      PROVE  Prompt'
  BY <1>3, <1>4 DEF PressKey, Issue, Advance
<1>5. ASSUME "ui" \in senders, NEW button \in {LEFT, RIGHT}, PressButton(button)
      PROVE  Prompt'
  BY <1>3, <1>5 DEF PressButton, Issue, Advance
<1>6. ASSUME "mouse" \in senders, NEW d \in Deltas, MoveMouse(d)
      PROVE  Prompt'
  BY <1>3, <1>6 DEF MoveMouse, Issue, Advance
<1>7. ASSUME NEW f \in Files, sendFile(f) PROVE Prompt'
  BY <1>7 DEF sendFile, NoTask, Prompt
<1>8. ASSUME "file" \in senders, FileRead PROVE Prompt'
  <2>1. /\ task.state = "sending" /\ pc["file"] = "idle"
        /\ task'.state = task.state /\ task'.canceled = task.canceled
        /\ task'.after = IF task.canceled THEN task.after + 1 ELSE task.after
        /\ pc' = [pc EXCEPT !["file"] = "delimiter"]
    BY <1>8 DEF FileRead, Advance, TaskType
  <2> QED
    BY <1>8, <2>1, SMTT(30) DEF Prompt, Threads
<1>9. ASSUME "file" \in senders, FileLoop PROVE Prompt'
  BY <1>9 DEF FileLoop, Advance, Continues, Prompt, Threads
<1>10. ASSUME "file" \in senders, FileReturn PROVE Prompt'
  BY <1>10 DEF FileReturn, Advance, Prompt, Threads, TaskType
<1>11. ASSUME "file" \in senders, FileFails PROVE Prompt'
  BY <1>11 DEF FileFails, Advance, Prompt, Threads, TaskType
<1>12. CASE Cancel
  BY <1>12 DEF Cancel, Prompt, TaskType
<1>13. CASE onPostExecute
  BY <1>13 DEF onPostExecute, NoTask, Prompt
<1>14. ASSUME NEW t \in senders,
              sendDelimiter(t) \/ SendType(t) \/ SendPayload(t)
       PROVE  Prompt'
  <2>1. PICK to : /\ pc' = [pc EXCEPT ![t] = to] /\ task' = task
                  /\ t = "file" => to # "idle" /\ pc[t] # "idle"
    BY <1>14 DEF sendDelimiter, SendType, SendPayload, Advance, Unsent
  <2> QED
    BY <1>3, <2>1 DEF Prompt, Threads
<1>15. CASE LinkLost \/ LinkUp \/ Receive
  BY <1>15 DEF LinkLost, LinkUp, Receive, Prompt
<1> QED
  BY <1>4, <1>5, <1>6, <1>7, <1>8, <1>9, <1>10, <1>11, <1>12, <1>13, <1>14,
     <1>15
  DEF NextDispatcher, UiStep, FileStep

\* It holds in every state.
LEMMA PromptAlways == SpecDispatcher => []Prompt
<1>1. InitDispatcher => Prompt
  BY SMTT(30) DEF InitDispatcher, NoTask, Prompt
<1> QED
  BY <1>1, StepPrompt, TypesAlways, PTL DEF SpecDispatcher

\* SendFileTask sends at most one more character after Cancel, whatever the
\* file, the other threads and the link do.
THEOREM PromptCancel == SpecDispatcher => []CancelIsPrompt
<1>1. Prompt => CancelIsPrompt
  BY SMTT(30) DEF Prompt, CancelIsPrompt
<1> QED
  BY <1>1, PromptAlways, PTL

-----------------------------------------------------------------------------
(* What the bytes in the air will make the decoder do.                      *)

\* The states of the decoder, and one for what a loss has left undetermined.
States == DecoderStates \cup {"JUNK"}

IsMove(e) == e.kind = "move"

\* The decoder has executed the first c commands of iss and is in state s;
\* byte b takes it to state t, with d commands executed.  A byte that leads to
\* an error, or to another command than the next one, takes it nowhere.
Follows(iss, s, c, b, t, d) ==
  \/ s = "JUNK" /\ t = "JUNK" /\ d = c
  \/ b = START_BYTE /\ t = "STARTED" /\ d = c
  \/ /\ b # START_BYTE /\ s = "STARTED" /\ d = c
     /\ \/ b = CLICK_BEGIN /\ t = "CLICK_GET_0"
        \/ b = KEY_BEGIN /\ t = "KEY_GET_0"
        \/ b = MOUSE_BEGIN /\ t = "MOUSE_GET_0"
  \/ /\ b # START_BYTE /\ d = c + 1 /\ d <= Len(iss) /\ t = "WAIT_FOR_START"
     /\ \/ s = "CLICK_GET_0" /\ iss[d] = Click
        \/ s = "KEY_GET_0" /\ iss[d] = Key(b)
        \/ s = "MOUSE_GET_2" /\ IsMove(iss[d]) /\ iss[d].wheel = SignedChar(b)
  \/ /\ b # START_BYTE /\ d = c /\ c + 1 <= Len(iss) /\ IsMove(iss[c + 1])
     /\ \/ s = "MOUSE_GET_0" /\ t = "MOUSE_GET_1" /\ iss[c + 1].x = SignedChar(b)
        \/ s = "MOUSE_GET_1" /\ t = "MOUSE_GET_2" /\ iss[c + 1].y = SignedChar(b)

\* The bytes a, one after the other, take it from s and c to t and d.
Path(iss, a, path, count) ==
  \A i \in 1..Len(a) :
     Follows(iss, path[i - 1], count[i - 1], a[i], path[i], count[i])

Reaches(iss, a, s, c, t, d) ==
  \E path \in [0..Len(a) -> States], count \in [0..Len(a) -> Nat] :
     /\ path[0] = s /\ count[0] = c /\ path[Len(a)] = t /\ count[Len(a)] = d
     /\ Path(iss, a, path, count)

\* No bytes lead nowhere.
LEMMA ReachesNothing ==
  ASSUME NEW iss, NEW s \in States, NEW c \in Nat
  PROVE  /\ Reaches(iss, << >>, s, c, s, c)
         /\ \A t, d : Reaches(iss, << >>, s, c, t, d) => t = s /\ d = c
<1>1. Len(<< >>) = 0
  BY EmptySeq
<1>2. Reaches(iss, << >>, s, c, s, c)
  <2> DEFINE path == [i \in 0..0 |-> s]
             count == [i \in 0..0 |-> c]
  <2>1. path \in [0..0 -> States] /\ count \in [0..0 -> Nat]
    OBVIOUS
  <2>2. path[0] = s /\ count[0] = c
    BY SMTT(30)
  <2> HIDE DEF path, count
  <2>3. Path(iss, << >>, path, count)
    BY <1>1, SMTT(30) DEF Path
  <2> QED
    BY <1>1, <2>1, <2>2, <2>3 DEF Reaches
<1>3. \A t, d : Reaches(iss, << >>, s, c, t, d) => t = s /\ d = c
  BY <1>1 DEF Reaches
<1> QED
  BY <1>2, <1>3

\* Bytes after bytes.
LEMMA ReachesThrough ==
  ASSUME NEW iss, NEW a \in Seq(ByteVals), NEW b \in Seq(ByteVals),
         NEW s, NEW c, NEW t, NEW d, Reaches(iss, a, s, c, t, d),
         NEW u, NEW e, Reaches(iss, b, t, d, u, e)
  PROVE  Reaches(iss, a \o b, s, c, u, e)
<1> DEFINE n == Len(a)
           m == Len(b)
<1>1. /\ n \in Nat /\ m \in Nat /\ Len(a \o b) = n + m
      /\ \A i \in 1..n : (a \o b)[i] = a[i]
      /\ \A i \in 1..n + m : i > n => (a \o b)[i] = b[i - n]
  BY LenProperties, ConcatProperties, SMTT(30)
<1>2. PICK p \in [0..n -> States], q \in [0..n -> Nat] :
        /\ p[0] = s /\ q[0] = c /\ p[n] = t /\ q[n] = d
        /\ Path(iss, a, p, q)
  BY DEF Reaches
<1>3. PICK v \in [0..m -> States], w \in [0..m -> Nat] :
        /\ v[0] = t /\ w[0] = d /\ v[m] = u /\ w[m] = e
        /\ Path(iss, b, v, w)
  BY DEF Reaches
<1>4. /\ \A i \in 1..n : Follows(iss, p[i - 1], q[i - 1], a[i], p[i], q[i])
      /\ \A i \in 1..m : Follows(iss, v[i - 1], w[i - 1], b[i], v[i], w[i])
  BY <1>2, <1>3 DEF Path
<1> DEFINE path == [i \in 0..n + m |-> IF i <= n THEN p[i] ELSE v[i - n]]
           count == [i \in 0..n + m |-> IF i <= n THEN q[i] ELSE w[i - n]]
<1> HIDE DEF n, m
<1>5. /\ path \in [0..n + m -> States] /\ count \in [0..n + m -> Nat]
      /\ \A i \in 0..n : path[i] = p[i] /\ count[i] = q[i]
      /\ \A i \in n + 1..n + m : path[i] = v[i - n] /\ count[i] = w[i - n]
  BY <1>1, <1>2, <1>3, SMTT(30)
<1> HIDE DEF path, count
<1>6. path[n] = v[0] /\ count[n] = w[0]
  <2>1. n \in 0..n
    BY <1>1, SMTT(30)
  <2> QED
    BY <1>2, <1>3, <1>5, <2>1
<1>7. path[0] = s /\ count[0] = c /\ path[n + m] = u /\ count[n + m] = e
  <2>1. 0 \in 0..n /\ (m # 0 => n + m \in n + 1..n + m) /\ (n + m) - n = m
    BY <1>1, SMTT(30)
  <2>2. m = 0 => n + m = n
    BY <1>1, SMTT(30)
  <2> QED
    BY <1>2, <1>3, <1>5, <1>6, <2>1, <2>2
<1>8. Path(iss, a \o b, path, count)
  <2> SUFFICES ASSUME NEW i \in 1..n + m
               PROVE  Follows(iss, path[i - 1], count[i - 1], (a \o b)[i],
                              path[i], count[i])
    BY <1>1 DEF Path
  <2>1. CASE i <= n
    <3>1. i \in 1..n /\ i \in 0..n /\ i - 1 \in 0..n
      BY <1>1, <2>1, SMTT(30)
    <3> QED
      BY <1>1, <1>4, <1>5, <3>1
  <2>2. CASE i = n + 1
    <3>1. i - 1 = n /\ i - n = 1 /\ i > n
      BY <1>1, <2>2, SMTT(30)
    <3>2. i \in n + 1..n + m /\ 1 \in 1..m
      BY <1>1, <2>2, SMTT(30)
    <3>3. Follows(iss, v[0], w[0], b[1], v[1], w[1])
      BY <1>4, <3>2, SMTT(30)
    <3>4. path[i] = v[i - n] /\ count[i] = w[i - n] /\ (a \o b)[i] = b[i - n]
      BY <1>1, <1>5, <3>1, <3>2
    <3> QED
      BY <1>6, <3>1, <3>3, <3>4
  <2>3. CASE i > n + 1
    <3>1. /\ i \in n + 1..n + m /\ i - 1 \in n + 1..n + m /\ i > n
          /\ i - n \in 1..m /\ (i - 1) - n = (i - n) - 1
      BY <1>1, <2>3, SMTT(30)
    <3>2. Follows(iss, v[(i - n) - 1], w[(i - n) - 1], b[i - n], v[i - n],
                  w[i - n])
      BY <1>4, <3>1
    <3> QED
      BY <1>1, <1>5, <3>1, <3>2
  <2>4. i <= n \/ i = n + 1 \/ i > n + 1
    BY <1>1, SMTT(30)
  <2> QED
    BY <2>1, <2>2, <2>3, <2>4
<1> QED
  BY <1>1, <1>5, <1>7, <1>8 DEF Reaches

\* The payload of a key or a click: one byte.
LEMMA ReachesByte ==
  ASSUME NEW iss, NEW a \in Seq(ByteVals), Len(a) = 1,
         NEW s \in States, NEW c \in Nat, NEW t \in States, NEW d \in Nat,
         Follows(iss, s, c, a[1], t, d)
  PROVE  Reaches(iss, a, s, c, t, d)
<1> DEFINE path == [i \in 0..1 |-> IF i = 0 THEN s ELSE t]
           count == [i \in 0..1 |-> IF i = 0 THEN c ELSE d]
<1>1. /\ path \in [0..1 -> States] /\ count \in [0..1 -> Nat]
      /\ path[0] = s /\ count[0] = c /\ path[1] = t /\ count[1] = d
  BY SMTT(30)
<1> HIDE DEF path, count
<1>2. Path(iss, a, path, count)
  <2>1. \A i \in 1..1 : i = 1 /\ i - 1 = 0
    BY SMTT(30)
  <2> QED
    BY <1>1, <2>1 DEF Path
<1> QED
  BY <1>1, <1>2 DEF Reaches

\* The payload of a move: three bytes.
LEMMA ReachesMove ==
  ASSUME NEW iss, NEW a \in Seq(ByteVals), Len(a) = 3, NEW c \in Nat,
         Follows(iss, "MOUSE_GET_0", c, a[1], "MOUSE_GET_1", c),
         Follows(iss, "MOUSE_GET_1", c, a[2], "MOUSE_GET_2", c),
         Follows(iss, "MOUSE_GET_2", c, a[3], "WAIT_FOR_START", c + 1)
  PROVE  Reaches(iss, a, "MOUSE_GET_0", c, "WAIT_FOR_START", c + 1)
<1> DEFINE path == [i \in 0..3 |->
             CASE i = 0 -> "MOUSE_GET_0" [] i = 1 -> "MOUSE_GET_1"
               [] i = 2 -> "MOUSE_GET_2" [] i = 3 -> "WAIT_FOR_START"]
           count == [i \in 0..3 |-> IF i = 3 THEN c + 1 ELSE c]
<1>1. /\ path[0] = "MOUSE_GET_0" /\ path[1] = "MOUSE_GET_1"
      /\ path[2] = "MOUSE_GET_2" /\ path[3] = "WAIT_FOR_START"
  BY SMTT(30)
<1>2. count[0] = c /\ count[1] = c /\ count[2] = c /\ count[3] = c + 1
  BY SMTT(30)
<1>3. path \in [0..3 -> States]
  BY SMTT(30) DEF States, DecoderStates
<1>4. count \in [0..3 -> Nat]
  BY SMTT(30)
<1> HIDE DEF path, count
<1>5. Path(iss, a, path, count)
  <2>1. \A i \in 1..3 : \/ i = 1 /\ i - 1 = 0
                        \/ i = 2 /\ i - 1 = 1
                        \/ i = 3 /\ i - 1 = 2
    BY SMTT(30)
  <2> QED
    BY <1>1, <1>2, <2>1 DEF Path
<1> QED
  BY <1>1, <1>2, <1>3, <1>4, <1>5 DEF Reaches

\* One byte less at the front.
LEMMA ReachesOn ==
  ASSUME NEW iss, NEW a \in Seq(ByteVals), a # << >>,
         NEW s, NEW c, NEW t, NEW d, Reaches(iss, a, s, c, t, d)
  PROVE  \E u \in States, e \in Nat :
            Follows(iss, s, c, Head(a), u, e) /\ Reaches(iss, Tail(a), u, e, t, d)
<1> DEFINE n == Len(a)
<1>1. /\ n \in Nat \ {0} /\ Head(a) = a[1] /\ Len(Tail(a)) = n - 1
      /\ \A i \in 1..n - 1 : Tail(a)[i] = a[i + 1]
  BY EmptySeq, LenProperties, HeadTailProperties, SMTT(30)
<1>2. PICK p \in [0..n -> States], q \in [0..n -> Nat] :
        /\ p[0] = s /\ q[0] = c /\ p[n] = t /\ q[n] = d
        /\ Path(iss, a, p, q)
  BY DEF Reaches
<1> DEFINE path == [i \in 0..n - 1 |-> p[i + 1]]
           count == [i \in 0..n - 1 |-> q[i + 1]]
<1>3. \A i \in 1..n : Follows(iss, p[i - 1], q[i - 1], a[i], p[i], q[i])
  BY <1>2 DEF Path
<1> HIDE DEF n
<1>4. /\ path \in [0..n - 1 -> States] /\ count \in [0..n - 1 -> Nat]
      /\ \A i \in 0..n - 1 : path[i] = p[i + 1] /\ count[i] = q[i + 1]
  BY <1>1, <1>2, SMTT(30)
<1> HIDE DEF path, count
<1>5. /\ 0 \in 0..n - 1 /\ 0 + 1 = 1 /\ n - 1 \in 0..n - 1 /\ (n - 1) + 1 = n
      /\ 1 \in 1..n /\ 1 - 1 = 0
  BY <1>1, SMTT(30)
<1>6. /\ path[0] = p[1] /\ count[0] = q[1] /\ path[n - 1] = t /\ count[n - 1] = d
      /\ p[1] \in States /\ q[1] \in Nat
  BY <1>2, <1>4, <1>5, SMTT(30)
<1>7. Follows(iss, s, c, Head(a), p[1], q[1])
  BY <1>1, <1>2, <1>3, <1>5
<1>8. Path(iss, Tail(a), path, count)
  <2> SUFFICES ASSUME NEW i \in 1..n - 1
               PROVE  Follows(iss, path[i - 1], count[i - 1], Tail(a)[i],
                              path[i], count[i])
    BY <1>1 DEF Path
  <2>1. /\ i - 1 \in 0..n - 1 /\ i \in 0..n - 1 /\ (i - 1) + 1 = i
        /\ i + 1 \in 1..n /\ (i + 1) - 1 = i
    BY <1>1, SMTT(30)
  <2>2. Follows(iss, p[i], q[i], a[i + 1], p[i + 1], q[i + 1])
    BY <1>3, <2>1
  <2> QED
    BY <1>1, <1>4, <2>1, <2>2
<1>9. Reaches(iss, Tail(a), p[1], q[1], t, d)
  BY <1>1, <1>4, <1>6, <1>8 DEF Reaches
<1> QED
  BY <1>6, <1>7, <1>9

\* Commands issued later change nothing about those before them.
LEMMA ReachesStill ==
  ASSUME NEW iss \in Seq(Usb), NEW event \in Usb, NEW a \in Seq(ByteVals),
         NEW s, NEW c, NEW t, NEW d, Reaches(iss, a, s, c, t, d)
  PROVE  Reaches(Append(iss, event), a, s, c, t, d)
<1>1. /\ Len(iss) \in Nat /\ Len(Append(iss, event)) = Len(iss) + 1
      /\ \A i \in 1..Len(iss) : Append(iss, event)[i] = iss[i]
  BY LenProperties, AppendProperties, SMTT(30)
<1>2. ASSUME NEW x, NEW y \in Nat, NEW b, NEW u, NEW z \in Nat,
             Follows(iss, x, y, b, u, z)
      PROVE  Follows(Append(iss, event), x, y, b, u, z)
  <2>1. y + 1 <= Len(iss) => /\ Append(iss, event)[y + 1] = iss[y + 1]
                             /\ y + 1 <= Len(Append(iss, event))
    BY <1>1, SMTT(30)
  <2> QED
    BY <1>2, <2>1 DEF Follows
<1>3. PICK p \in [0..Len(a) -> States], q \in [0..Len(a) -> Nat] :
        /\ p[0] = s /\ q[0] = c /\ p[Len(a)] = t /\ q[Len(a)] = d
        /\ Path(iss, a, p, q)
  BY DEF Reaches
<1>4. Path(Append(iss, event), a, p, q)
  <2>1. \A i \in 1..Len(a) : i - 1 \in 0..Len(a) /\ i \in 0..Len(a)
    BY LenProperties, SMTT(30)
  <2>2. \A i \in 0..Len(a) : q[i] \in Nat
    BY <1>3
  <2> QED
    BY <1>2, <1>3, <2>1, <2>2 DEF Path
<1> QED
  BY <1>3, <1>4 DEF Reaches

\* What a loss has left undetermined stays so if nothing says otherwise.
LEMMA ReachesJunk ==
  ASSUME NEW iss, NEW a \in Seq(ByteVals), NEW c \in Nat
  PROVE  Reaches(iss, a, "JUNK", c, "JUNK", c)
<1> DEFINE path == [i \in 0..Len(a) |-> "JUNK"]
           count == [i \in 0..Len(a) |-> c]
<1>1. /\ path \in [0..Len(a) -> States] /\ count \in [0..Len(a) -> Nat]
      /\ \A i \in 0..Len(a) : path[i] = "JUNK" /\ count[i] = c
  BY DEF States
<1> HIDE DEF path, count
<1>2. /\ 0 \in 0..Len(a) /\ Len(a) \in 0..Len(a)
      /\ \A i \in 1..Len(a) : i - 1 \in 0..Len(a) /\ i \in 0..Len(a)
  BY LenProperties, SMTT(30)
<1>3. Path(iss, a, path, count)
  BY <1>1, <1>2 DEF Path, Follows
<1> QED
  BY <1>1, <1>2, <1>3 DEF Reaches

-----------------------------------------------------------------------------
(* The pipeline: what the threads have still to write, the bytes in the     *)
(* air, and what the decoder has made of those before them.                 *)

\* The commands before the last loss.
Base == IF mark = -1 THEN 0 ELSE mark

\* The last events executed are those of commands Base + 1 to c, and before a
\* loss there are no others.
Executed(c) ==
  /\ c \in Base..Len(issued) /\ c - Base <= Len(executed)
  /\ \A j \in 1..c - Base :
       executed[Len(executed) - (c - Base) + j] = issued[Base + j]
  /\ mark = -1 => Len(executed) = c

\* The decoder is in state s, with what it has read of command c + 1.
Holding(s, c) ==
  /\ s = "JUNK" => c = Base /\ mark # -1
  /\ s # "JUNK" => currentState = s
  /\ s \in {"MOUSE_GET_1", "MOUSE_GET_2"} =>
       /\ c + 1 <= Len(issued) /\ IsMove(issued[c + 1])
       /\ issued[c + 1].x = SignedChar(mouseX)
  /\ s = "MOUSE_GET_2" => issued[c + 1].y = SignedChar(mouseY)

InCommand(u) == pc[u] \in {"delimiter", "type", "payload"}

\* The states in which a command may begin, and those in which the next write
\* of thread u finds the decoder.
Ready == {"JUNK", "WAIT_FOR_START", "STARTED"}

Getting(k) == CASE k = "key" -> "KEY_GET_0" [] k = "mouse" -> "MOUSE_GET_0"
                [] k = "click" -> "CLICK_GET_0"

Awaits(u) ==
  IF pc[u] = "delimiter" THEN Ready
  ELSE IF pc[u] = "type" THEN {"STARTED"} ELSE {Getting(kind[u])}

Newest(d, e) == d + 1 = Len(issued) /\ issued[d + 1] = e

\* The shared buffer still holds the last command, or the end of the file.
Pending(u, d) ==
  \/ kind[u] = "key" /\ keyBytes[1] = START_BYTE /\ d = Len(issued)
  \/ kind[u] = "key" /\ keyBytes[1] # START_BYTE /\ Newest(d, Key(keyBytes[1]))
  \/ kind[u] = "click" /\ clickBytes[1] # START_BYTE /\ Newest(d, Click)
  \/ /\ kind[u] = "mouse" /\ \A i \in 1..3 : mouseBytes[i] # START_BYTE
     /\ Newest(d, Move(mouseBytes[1], mouseBytes[2], mouseBytes[3]))

\* Where the bytes in the air will leave the decoder.
WriterAt(t, d) ==
  /\ d <= Len(issued)
  /\ t = "JUNK" => d = Base /\ mark # -1
  /\ (\A u \in senders : ~InCommand(u)) => d = Len(issued) /\ t \in Ready
  /\ \A u \in senders : InCommand(u) =>
       \/ t = "JUNK" /\ d = Len(issued)
       \/ t \in Awaits(u) /\ Pending(u, d)

Pipeline ==
  \E s \in States, c \in Nat, t \in States, d \in Nat :
     /\ Executed(c) /\ Holding(s, c)
     /\ Reaches(issued, air, s, c, t, d)
     /\ WriterAt(t, d)

\* Two threads are never in the middle of a command at once.
Exclusive == \A t, u \in senders : t # u => pc[t] = "idle" \/ pc[u] = "idle"

\* Where the order can be kept: plain char is unsigned, the threads do not
\* overlap, and no payload that the user asks for holds a START_BYTE.
PlainCommands ==
  /\ ~CharSigned /\ ~Overlap
  /\ \A c \in Chars : Byte(c) # START_BYTE
  /\ \A d \in Deltas : Byte(d[1]) # START_BYTE /\ Byte(d[2]) # START_BYTE

\* The lengths that the definitions above compare.
LEMMA Lengths ==
  ASSUME Types
  PROVE  /\ Len(issued) \in Nat /\ Len(executed) \in Nat
         /\ Base \in Nat /\ Base <= Len(issued) /\ mark \in Int
         /\ \A i \in 1..Len(issued) : issued[i] \in Usb
<1>1. Len(issued) \in Nat /\ Len(executed) \in Nat
  BY LenProperties DEF Types, Histories
<1>2. mark \in -1..Len(issued)
  BY DEF Types, Link
<1>3. \A i \in 1..Len(issued) : issued[i] \in Usb
  BY ElementOfSeq DEF Types, Histories
<1> QED
  BY <1>1, <1>2, <1>3, SMTT(30) DEF Base

\* The events of the histories are events to the decoder.
LEMMA UsbEvents == \A e \in Usb : UsbEvent(e) = e /\ e # Nothing
<1> SUFFICES ASSUME NEW e \in Usb PROVE e.kind \in {"click", "key", "move"}
  BY SMTT(30) DEF UsbEvent, Nothing
<1> QED
  BY SMTT(30) DEF Usb, Click, Key

\* One byte through loop(): what the path says is what the decoder does.
LEMMA DecoderFollows ==
  ASSUME Types, PlainCommands, NEW b \in ByteVals, Loop(b),
         NEW s \in States, NEW c \in Nat, NEW u \in States, NEW e \in Nat,
         Executed(c), Holding(s, c), Follows(issued, s, c, b, u, e),
         UNCHANGED <<issued, mark>>
  PROVE  /\ Holding(u, e)'
         /\ \/ s = "JUNK" /\ e = c
            \/ e = c /\ UsbEvent(out') = Nothing
            \/ e = c + 1 /\ e <= Len(issued) /\ out' = issued[e]
<1>1. IntVal(b) = b
  BY DEF PlainCommands, IntVal
<1>2. UsbEvent(Nothing) = Nothing
  BY DEF UsbEvent, Nothing
<1>3. Base' = Base
  BY DEF Base
<1>4. CASE b = START_BYTE
  <2>1. currentState' = "STARTED" /\ out' = Nothing
    BY <1>1, <1>4 DEF Loop, Restart, Goto
  <2>2. e = c /\ (u = "STARTED" \/ (s = "JUNK" /\ u = "JUNK"))
    BY <1>4 DEF Follows
  <2> QED
    BY <1>2, <1>3, <2>1, <2>2 DEF Holding
<1>5. CASE b # START_BYTE /\ s = "JUNK"
  <2>1. e = c /\ u = "JUNK"
    BY <1>5 DEF Follows
  <2> QED
    BY <1>3, <1>5, <2>1 DEF Holding
<1>6. CASE b # START_BYTE /\ s # "JUNK"
  <2>1. Dispatch(b, b) /\ currentState = s
    BY <1>1, <1>6 DEF Loop, Restart, Holding
  <2>2. CASE s = "STARTED"
    BY <1>2, <1>6, <2>1, <2>2, SMTT(30)
    DEF Follows, Dispatch, Begin, Goto, Holding, CLICK_BEGIN, KEY_BEGIN,
        MOUSE_BEGIN
  <2>3. CASE s = "CLICK_GET_0" \/ s = "KEY_GET_0"
    BY <1>6, <2>1, <2>3 DEF Follows, Dispatch, Goto, Holding
  <2>4. CASE s = "MOUSE_GET_0" \/ s = "MOUSE_GET_1"
    BY <1>2, <1>6, <2>1, <2>4 DEF Follows, Dispatch, Goto, Holding
  <2>5. CASE s = "MOUSE_GET_2"
    <3>1. /\ e = c + 1 /\ e <= Len(issued) /\ u = "WAIT_FOR_START"
          /\ IsMove(issued[e]) /\ issued[e].wheel = SignedChar(b)
      BY <1>6, <2>5 DEF Follows
    <3>2. issued[e].x = SignedChar(mouseX) /\ issued[e].y = SignedChar(mouseY)
      BY <2>5, <3>1 DEF Holding
    <3>3. out' = Move(mouseX, mouseY, b) /\ currentState' = "WAIT_FOR_START"
      BY <2>1, <2>5 DEF Dispatch, Goto
    <3>4. issued[e] \in [kind : {"move"}, x : -128..127, y : -128..127,
                         wheel : -128..127]
      <4>1. e \in 1..Len(issued)
        BY <3>1, Lengths, SMTT(30)
      <4>2. issued[e] \in Usb
        BY <4>1, Lengths
      <4>3. Click.kind # "move" /\ \A k : Key(k).kind # "move"
        BY DEF Click, Key
      <4> QED
        BY <3>1, <4>2, <4>3 DEF Usb, IsMove
    <3>5. out' = issued[e]
      BY <3>1, <3>2, <3>3, <3>4 DEF Move
    <3> QED
      BY <3>1, <3>3, <3>5 DEF Holding
  <2>6. s # "WAIT_FOR_START"
    BY <1>6 DEF Follows
  <2> QED
    BY <1>6, <2>2, <2>3, <2>4, <2>5, <2>6 DEF States, DecoderStates
<1> QED
  BY <1>4, <1>5, <1>6

\* What a step that leaves them alone keeps.
LEMMA FramePipeline ==
  ASSUME NEW c, NEW s, NEW t, NEW d, senders' = senders
  PROVE  /\ UNCHANGED <<issued, executed, mark>> /\ Executed(c) => Executed(c)'
         /\ UNCHANGED <<issued, firmware, mark>> /\ Holding(s, c) =>
              Holding(s, c)'
         /\ /\ UNCHANGED <<issued, buffers, kind, mark>> /\ WriterAt(t, d)
            /\ \A u \in senders : \/ pc'[u] = pc[u]
                                  \/ ~InCommand(u) /\ ~InCommand(u)'
            => WriterAt(t, d)'
<1>1. UNCHANGED <<issued, executed, mark>> /\ Executed(c) => Executed(c)'
  BY DEF Executed, Base
<1>2. UNCHANGED <<issued, firmware, mark>> /\ Holding(s, c) => Holding(s, c)'
  BY DEF Holding, Base, firmware
<1>3. ASSUME UNCHANGED <<issued, buffers, kind, mark>>, WriterAt(t, d),
             \A u \in senders : \/ pc'[u] = pc[u]
                                \/ ~InCommand(u) /\ ~InCommand(u)'
      PROVE  WriterAt(t, d)'
  <2>1. \A u \in senders : /\ InCommand(u)' <=> InCommand(u)
                           /\ InCommand(u) => Awaits(u)' = Awaits(u)
    BY <1>3 DEF InCommand, Awaits
  <2>2. \A u \in senders : Pending(u, d) <=> Pending(u, d)'
    BY <1>3 DEF Pending, Newest, buffers
  <2> QED
    BY <1>3, <2>1, <2>2 DEF WriterAt, Base
<1> QED
  BY <1>1, <1>2, <1>3

\* Steps that only move a thread from one place outside a command to another.
LEMMA QuietPipeline ==
  ASSUME Pipeline, senders' = senders,
         UNCHANGED <<issued, executed, mark, air, firmware, buffers, kind>>,
         \A u \in senders : pc'[u] = pc[u] \/ (~InCommand(u) /\ ~InCommand(u)')
  PROVE  Pipeline'
<1>1. PICK s \in States, c \in Nat, t \in States, d \in Nat :
        /\ Executed(c) /\ Holding(s, c)
        /\ Reaches(issued, air, s, c, t, d) /\ WriterAt(t, d)
  BY DEF Pipeline
<1>2. Executed(c)' /\ Holding(s, c)' /\ WriterAt(t, d)'
  BY <1>1, FramePipeline
<1>3. Reaches(issued', air', s, c, t, d)
  BY <1>1
<1> QED
  BY <1>2, <1>3 DEF Pipeline

\* A loss: the commands after it are the first that count.
LEMMA LossPipeline ==
  ASSUME Types, Types', senders' = senders, issued' = issued,
         mark' = Len(issued)
  PROVE  Pipeline'
<1>0. PICK c \in Nat : c = Len(issued)
  BY Lengths
<1>1. Len(executed') \in Nat /\ mark' # -1 /\ Base' = c
  BY <1>0, LenProperties, SMTT(30) DEF Base, Types, Histories
<1>2. air' \in Seq(ByteVals)
  BY DEF Types, Link
<1>3. Executed(c)'
  BY <1>0, <1>1, SMTT(30) DEF Executed
<1>4. Holding("JUNK", c)'
  BY <1>1 DEF Holding
<1>5. WriterAt("JUNK", c)'
  BY <1>0, <1>1, SMTT(30) DEF WriterAt, Ready
<1>6. Reaches(issued', air', "JUNK", c, "JUNK", c)
  BY <1>2, ReachesJunk
<1>7. "JUNK" \in States
  BY DEF States
<1> QED
  BY <1>3, <1>4, <1>5, <1>6, <1>7 DEF Pipeline

\* A byte arrives.
LEMMA ReceivePipeline ==
  ASSUME Types, PlainCommands, Pipeline, Receive, senders' = senders
  PROVE  Pipeline'
<1>1. PICK s \in States, c \in Nat, t \in States, d \in Nat :
        /\ Executed(c) /\ Holding(s, c)
        /\ Reaches(issued, air, s, c, t, d) /\ WriterAt(t, d)
  BY DEF Pipeline
<1>2. air # << >> /\ air \in Seq(ByteVals) /\ Head(air) \in ByteVals
  BY HeadTailProperties DEF Types, Link, Receive
<1>3. PICK u \in States, e \in Nat : /\ Follows(issued, s, c, Head(air), u, e)
                                     /\ Reaches(issued, Tail(air), u, e, t, d)
  BY <1>1, <1>2, ReachesOn
<1>4. /\ Loop(Head(air)) /\ air' = Tail(air)
      /\ UNCHANGED <<buffers, pc, kind, mark, issued>>
      /\ executed' = IF UsbEvent(out') = Nothing THEN executed
                     ELSE Append(executed, out')
  BY DEF Receive
<1>5. WriterAt(t, d)'
  BY <1>1, <1>4, FramePipeline
<1>6. /\ Holding(u, e)'
      /\ \/ s = "JUNK" /\ e = c
         \/ e = c /\ UsbEvent(out') = Nothing
         \/ e = c + 1 /\ e <= Len(issued) /\ out' = issued[e]
  BY <1>1, <1>2, <1>3, <1>4, DecoderFollows, SMTT(30)
<1>7. /\ Len(issued) \in Nat /\ Len(executed) \in Nat /\ Base \in Nat
      /\ Base' = Base
  BY <1>4, Lengths DEF Base
<1>8. Executed(e)'
  <2>1. CASE e = c /\ UsbEvent(out') = Nothing
    BY <1>1, <1>4, <2>1, FramePipeline
  <2>2. CASE s = "JUNK" /\ e = c
    <3>1. c = Base /\ mark # -1
      BY <1>1, <2>2 DEF Holding
    <3>2. Len(executed') \in Nat
      <4>1. out' \in Usb \/ UsbEvent(out') = Nothing
        BY <1>2, <1>4, DecodeTypes DEF Types
      <4> QED
        BY <1>4, <4>1, AppendProperties, LenProperties DEF Types, Histories
    <3> QED
      BY <1>1, <1>4, <1>7, <2>2, <3>1, <3>2, SMTT(30) DEF Executed
  <2>3. CASE e = c + 1 /\ e <= Len(issued) /\ out' = issued[e]
    <3>1. out' \in Usb /\ UsbEvent(out') # Nothing
      <4>1. e \in 1..Len(issued)
        BY <1>7, <2>3, SMTT(30)
      <4> QED
        BY <2>3, <4>1, Lengths, UsbEvents
    <3>2. /\ Len(executed') = Len(executed) + 1
          /\ executed'[Len(executed) + 1] = issued[e]
          /\ \A i \in 1..Len(executed) : executed'[i] = executed[i]
      BY <1>4, <2>3, <3>1, AppendProperties, SMTT(30) DEF Types, Histories
    <3>3. /\ c \in Base..Len(issued) /\ c - Base <= Len(executed)
          /\ mark = -1 => Len(executed) = c
      BY <1>1 DEF Executed
    <3>4. ASSUME NEW j \in 1..e - Base
          PROVE  executed'[Len(executed') - (e - Base) + j] = issued[Base + j]
      <4>1. CASE j = e - Base
        <5>1. /\ Len(executed') - (e - Base) + j = Len(executed) + 1
              /\ Base + j = e
          BY <1>7, <2>3, <3>2, <3>3, <4>1, SMTT(30)
        <5> QED
          BY <3>2, <5>1
      <4>2. CASE j # e - Base
        <5>1. /\ j \in 1..c - Base
              /\ Len(executed') - (e - Base) + j
                   = Len(executed) - (c - Base) + j
              /\ Len(executed) - (c - Base) + j \in 1..Len(executed)
          BY <1>7, <2>3, <3>2, <3>3, <4>2, SMTT(30)
        <5>2. executed[Len(executed) - (c - Base) + j] = issued[Base + j]
          BY <1>1, <5>1 DEF Executed
        <5> QED
          BY <3>2, <5>1, <5>2
      <4> QED
        BY <4>1, <4>2
    <3>5. /\ e \in Base..Len(issued) /\ e - Base <= Len(executed')
          /\ mark = -1 => Len(executed') = e
      BY <1>7, <2>3, <3>2, <3>3, SMTT(30)
    <3> QED
      BY <1>4, <1>7, <3>4, <3>5 DEF Executed
  <2> QED
    BY <1>6, <2>1, <2>2, <2>3
<1>9. Reaches(issued', air', u, e, t, d)
  BY <1>3, <1>4
<1> QED
  BY <1>5, <1>6, <1>8, <1>9 DEF Pipeline

\* A thread begins a command, or is about to send the end of a file as one.
LEMMA BeginPipeline ==
  ASSUME Types, Pipeline, senders' = senders, NEW u \in senders,
         \A v \in senders : pc[v] = "idle",
         pc' = [pc EXCEPT ![u] = "delimiter"],
         UNCHANGED <<firmware, link, executed>>,
         issued' = issued \/ \E event \in Usb : issued' = Append(issued, event),
         \A d \in Nat : d = Len(issued) => Pending(u, d)'
  PROVE  Pipeline'
<1>1. PICK s \in States, c \in Nat, t \in States, d \in Nat :
        /\ Executed(c) /\ Holding(s, c)
        /\ Reaches(issued, air, s, c, t, d) /\ WriterAt(t, d)
  BY DEF Pipeline
<1>2. UNCHANGED <<mark, air>> /\ Base' = Base
  BY DEF link, Base
<1>3. /\ Len(issued') \in Nat /\ Len(issued) <= Len(issued')
      /\ \A i \in 1..Len(issued) : issued'[i] = issued[i]
      /\ Len(issued) \in Nat /\ Len(executed) \in Nat /\ Base \in Nat
  BY Lengths, AppendProperties, SMTT(30) DEF Types, Histories
<1>4. Executed(c)'
  <2>1. /\ c \in Base..Len(issued) /\ c - Base <= Len(executed)
        /\ mark = -1 => Len(executed) = c
        /\ \A j \in 1..c - Base :
             executed[Len(executed) - (c - Base) + j] = issued[Base + j]
    BY <1>1 DEF Executed
  <2>2. \A j \in 1..c - Base : Base + j \in 1..Len(issued)
    BY <1>3, <2>1, SMTT(30)
  <2>3. c \in Base..Len(issued')
    BY <1>3, <2>1, SMTT(30)
  <2> QED
    BY <1>2, <1>3, <2>1, <2>2, <2>3 DEF Executed
<1>5. Holding(s, c)'
  <2>1. UNCHANGED <<currentState, mouseX, mouseY>>
    BY DEF firmware
  <2>2. c + 1 <= Len(issued) => /\ c + 1 \in 1..Len(issued)
                                /\ c + 1 <= Len(issued')
    BY <1>3, SMTT(30)
  <2> QED
    BY <1>1, <1>2, <1>3, <2>1, <2>2 DEF Holding
<1>6. Reaches(issued', air', s, c, t, d)
  BY <1>1, <1>2, ReachesStill DEF Types, Histories, Link
<1>7. WriterAt(t, d)'
  <2>1. d = Len(issued) /\ t \in Ready /\ (t = "JUNK" => d = Base /\ mark # -1)
    BY <1>1 DEF WriterAt, InCommand
  <2>2. /\ pc'[u] = "delimiter"
        /\ \A v \in senders : v # u => pc'[v] = "idle"
    BY DEF Types, Threads
  <2>3. InCommand(u)' /\ \A v \in senders : InCommand(v)' => v = u
    BY <2>2 DEF InCommand
  <2>4. Awaits(u)' = Ready /\ Pending(u, d)'
    BY <2>1, <2>2 DEF Awaits
  <2> QED
    BY <1>2, <1>3, <2>1, <2>3, <2>4 DEF WriterAt
<1> QED
  BY <1>4, <1>5, <1>6, <1>7 DEF Pipeline

\* A command begins that asks for one more event.
LEMMA IssuePipeline ==
  ASSUME Types, Exclusive, PlainCommands, Pipeline, senders' = senders,
         NEW u \in senders, NEW k, NEW event \in Usb, Issue(u, k, event),
         UNCHANGED <<firmware, link, executed>>,
         \A d \in Nat : Newest(d, event)' => Pending(u, d)'
  PROVE  Pipeline'
<1>1. \A v \in senders : pc[v] = "idle"
  BY DEF Issue, Advance, MayBegin, PlainCommands
<1>2. issued' = Append(issued, event) /\ pc' = [pc EXCEPT ![u] = "delimiter"]
  BY DEF Issue, Advance
<1>3. \A d \in Nat : d = Len(issued) => Newest(d, event)'
  BY <1>2, AppendProperties, SMTT(30) DEF Newest, Types, Histories
<1> QED
  BY <1>1, <1>2, <1>3, BeginPipeline

\* One of the writes of a command, while the service is connected or not.
LEMMA WritePipeline ==
  ASSUME Types, Types', Exclusive, Pipeline, senders' = senders, Unsent,
         NEW u \in senders, InCommand(u), NEW to, to # "delimiter",
         pc' = [pc EXCEPT ![u] = to],
         NEW bytes \in Seq(ByteVals), sendByte(bytes),
         \A t \in States, d \in Nat : t \in Awaits(u) /\ Pending(u, d) =>
            \E v \in States \ {"JUNK"}, e \in Nat :
               /\ Reaches(issued, bytes, t, d, v, e) /\ e <= Len(issued)
               /\ IF to \in {"type", "payload"}
                    THEN v \in Awaits(u)' /\ Pending(u, e)
                    ELSE v \in Ready /\ e = Len(issued)
  PROVE  Pipeline'
<1>1. PICK s \in States, c \in Nat, t \in States, d \in Nat :
        /\ Executed(c) /\ Holding(s, c)
        /\ Reaches(issued, air, s, c, t, d) /\ WriterAt(t, d)
  BY DEF Pipeline
<1>2. /\ UNCHANGED <<issued, executed, firmware, buffers, kind>>
      /\ air' = IF up THEN air \o bytes ELSE air
      /\ mark' = IF up THEN mark ELSE Len(issued)
  BY DEF Unsent, sendByte
<1>3. CASE ~up
  BY <1>2, <1>3, LossPipeline
<1>4. CASE up
  <2>1. UNCHANGED mark /\ Base' = Base /\ air' = air \o bytes
    BY <1>2, <1>4 DEF Base
  <2>2. Executed(c)' /\ Holding(s, c)'
    BY <1>1, <1>2, <2>1, FramePipeline
  <2>3. \A v, e : Reaches(issued, bytes, t, d, v, e) =>
                    Reaches(issued', air', s, c, v, e)
    <3> SUFFICES ASSUME NEW v, NEW e, Reaches(issued, bytes, t, d, v, e)
                 PROVE  Reaches(issued', air', s, c, v, e)
      OBVIOUS
    <3>1. air \in Seq(ByteVals)
      BY DEF Types, Link
    <3>2. Reaches(issued, air \o bytes, s, c, v, e)
      BY <1>1, <3>1, ReachesThrough
    <3> QED
      BY <1>2, <2>1, <3>2
  <2>4. /\ pc'[u] = to
        /\ \A v \in senders : v # u => ~InCommand(v) /\ ~InCommand(v)'
    BY DEF Types, Threads, Exclusive, InCommand
  <2>5. \/ t = "JUNK" /\ d = Len(issued)
        \/ t \in Awaits(u) /\ Pending(u, d)
    BY <1>1 DEF WriterAt
  <2>6. CASE t = "JUNK" /\ d = Len(issued)
    <3>1. Reaches(issued', air', s, c, "JUNK", d)
      BY <2>3, <2>6, ReachesJunk
    <3>2. d <= Len(issued') /\ d = Base /\ mark # -1
      BY <1>1, <1>2, <2>6 DEF WriterAt
    <3>3. WriterAt("JUNK", d)'
      BY <1>2, <2>1, <2>6, <3>2 DEF WriterAt, Ready
    <3> QED
      BY <2>2, <2>6, <3>1, <3>3 DEF Pipeline
  <2>7. CASE t \in Awaits(u) /\ Pending(u, d)
    <3>1. PICK v \in States \ {"JUNK"}, e \in Nat :
            /\ Reaches(issued, bytes, t, d, v, e) /\ e <= Len(issued)
            /\ IF to \in {"type", "payload"}
                 THEN v \in Awaits(u)' /\ Pending(u, e)
                 ELSE v \in Ready /\ e = Len(issued)
      BY <2>7
    <3>2. Pending(u, e) => Pending(u, e)'
      BY <1>2 DEF Pending, Newest, buffers
    <3>3. InCommand(u)' <=> to \in {"type", "payload"}
      BY <2>4 DEF InCommand
    <3>4. WriterAt(v, e)'
      <4>1. CASE to \in {"type", "payload"}
        BY <1>2, <2>4, <3>1, <3>2, <3>3, <4>1 DEF WriterAt
      <4>2. CASE to \notin {"type", "payload"}
        BY <1>2, <2>4, <3>1, <3>3, <4>2 DEF WriterAt
      <4> QED
        BY <4>1, <4>2
    <3>5. Reaches(issued', air', s, c, v, e)
      BY <2>3, <3>1
    <3> QED
      BY <2>2, <3>1, <3>4, <3>5 DEF Pipeline
  <2> QED
    BY <2>5, <2>6, <2>7
<1> QED
  BY <1>3, <1>4

\* The buffers are sequences of bytes.
LEMMA Payloads ==
  ASSUME Types
  PROVE  /\ keyBytes \in Seq(ByteVals) /\ Len(keyBytes) = 1
         /\ clickBytes \in Seq(ByteVals) /\ Len(clickBytes) = 1
         /\ mouseBytes \in Seq(ByteVals) /\ Len(mouseBytes) = 3
<1>1. \A n \in Nat : \A f \in [1..n -> ByteVals] :
        f \in Seq(ByteVals) /\ Len(f) = n
  BY SeqDef, LenProperties, SMTT(30)
<1>2. 1 \in Nat /\ 3 \in Nat
  OBVIOUS
<1> QED
  BY <1>1, <1>2 DEF Types, Buffers

\* The delimiter restarts the decoder, wherever it was.
LEMMA DelimiterPipeline ==
  ASSUME Types, Types', Exclusive, Pipeline, senders' = senders,
         NEW u \in senders, sendDelimiter(u)
  PROVE  Pipeline'
<1>1. /\ pc[u] = "delimiter" /\ pc' = [pc EXCEPT ![u] = "type"]
      /\ sendByte(DELIMITER) /\ Unsent /\ InCommand(u)
  BY DEF sendDelimiter, Advance, InCommand
<1>2. /\ DELIMITER \in Seq(ByteVals) /\ Len(DELIMITER) = 1
      /\ DELIMITER[1] = START_BYTE
  BY SMTT(30) DEF DELIMITER, START_BYTE, ByteVals
<1>3. Awaits(u)' = {"STARTED"} /\ "STARTED" \in States \ {"JUNK"}
  BY <1>1 DEF Types, Threads, Awaits, States, DecoderStates
<1>4. ASSUME NEW t \in States, NEW d \in Nat, Pending(u, d)
      PROVE  Reaches(issued, DELIMITER, t, d, "STARTED", d) /\ d <= Len(issued)
  <2>1. Follows(issued, t, d, DELIMITER[1], "STARTED", d)
    BY <1>2 DEF Follows
  <2>2. d <= Len(issued)
    BY <1>4, Lengths, SMTT(30) DEF Pending, Newest
  <2> QED
    BY <1>2, <1>3, <2>1, <2>2, ReachesByte
<1> QED
  BY <1>1, <1>2, <1>3, <1>4, WritePipeline

\* The type byte makes the decoder expect the payload.
LEMMA TypePipeline ==
  ASSUME Types, Types', Exclusive, Pipeline, senders' = senders,
         NEW u \in senders, SendType(u)
  PROVE  Pipeline'
<1> DEFINE bytes == <<TypeByte(kind[u])>>
<1>1. /\ pc[u] = "type" /\ pc' = [pc EXCEPT ![u] = "payload"]
      /\ sendByte(bytes) /\ Unsent /\ InCommand(u)
  BY DEF SendType, Advance, InCommand
<1>2. kind[u] \in {"key", "mouse", "click"} /\ kind' = kind
  BY <1>1 DEF Types, Threads, Unsent
<1>3. bytes \in Seq(ByteVals) /\ Len(bytes) = 1 /\ bytes[1] = TypeByte(kind[u])
  BY <1>2, SMTT(30) DEF TypeByte, KEY_BEGIN, MOUSE_BEGIN, CLICK_BEGIN, ByteVals
<1> HIDE DEF bytes
<1>4. Awaits(u) = {"STARTED"} /\ Awaits(u)' = {Getting(kind[u])}
  BY <1>1, <1>2 DEF Types, Threads, Awaits
<1>5. Getting(kind[u]) \in States \ {"JUNK"} /\ "STARTED" \in States
  BY <1>2 DEF Getting, States, DecoderStates
<1>6. ASSUME NEW d \in Nat, Pending(u, d)
      PROVE  /\ Reaches(issued, bytes, "STARTED", d, Getting(kind[u]), d)
             /\ d <= Len(issued)
  <2>1. Follows(issued, "STARTED", d, bytes[1], Getting(kind[u]), d)
    BY <1>2, <1>3, SMTT(30) DEF Follows, TypeByte, Getting, KEY_BEGIN, MOUSE_BEGIN,
       CLICK_BEGIN, START_BYTE
  <2>2. d <= Len(issued)
    BY <1>6, Lengths, SMTT(30) DEF Pending, Newest
  <2> QED
    BY <1>3, <1>5, <2>1, <2>2, ReachesByte
<1>7. ASSUME NEW t \in States, NEW d \in Nat, t \in Awaits(u), Pending(u, d)
      PROVE  \E v \in States \ {"JUNK"}, e \in Nat :
               /\ Reaches(issued, bytes, t, d, v, e) /\ e <= Len(issued)
               /\ v \in Awaits(u)' /\ Pending(u, e)
  BY <1>4, <1>5, <1>6, <1>7
<1> QED
  BY <1>1, <1>3, <1>7, WritePipeline

\* The payload completes the command, or restarts the decoder at the end of
\* the file.
LEMMA PayloadPipeline ==
  ASSUME Types, Types', Exclusive, Pipeline, senders' = senders,
         NEW u \in senders, SendPayload(u)
  PROVE  Pipeline'
<1> DEFINE bytes == Payload(kind[u])
           to == IF u = "file" THEN "slept" ELSE "idle"
<1>1. /\ pc[u] = "payload" /\ pc' = [pc EXCEPT ![u] = to]
      /\ sendByte(bytes) /\ Unsent /\ InCommand(u)
  BY DEF SendPayload, Advance, InCommand
<1>2. kind[u] \in {"key", "mouse", "click"}
  BY DEF Types, Threads
<1>3. bytes \in Seq(ByteVals) /\ to \notin {"delimiter", "type", "payload"}
  BY <1>2, Payloads DEF Payload
<1>4. Awaits(u) = {Getting(kind[u])}
  BY <1>1 DEF Awaits
<1>5. /\ "WAIT_FOR_START" \in Ready /\ "STARTED" \in Ready
      /\ DecoderStates \subseteq States \ {"JUNK"}
      /\ {"WAIT_FOR_START", "STARTED", "KEY_GET_0", "CLICK_GET_0"}
           \subseteq DecoderStates
  BY DEF Ready, States, DecoderStates
<1>6. ASSUME NEW d \in Nat, Pending(u, d)
      PROVE  \E v \in {"WAIT_FOR_START", "STARTED"} :
                Reaches(issued, bytes, Getting(kind[u]), d, v, Len(issued))
  <2>0. Len(issued) \in Nat
    BY Lengths
  <2>1. CASE kind[u] = "key" /\ keyBytes[1] = START_BYTE /\ d = Len(issued)
    <3>1. Follows(issued, "KEY_GET_0", d, keyBytes[1], "STARTED", d)
      BY <2>1 DEF Follows
    <3>2. Reaches(issued, keyBytes, "KEY_GET_0", d, "STARTED", d)
      BY <1>5, <3>1, Payloads, ReachesByte
    <3> QED
      BY <2>1, <3>2 DEF Payload, Getting
  <2>2. CASE /\ kind[u] = "key" /\ keyBytes[1] # START_BYTE
             /\ Newest(d, Key(keyBytes[1]))
    <3>1. Follows(issued, "KEY_GET_0", d, keyBytes[1], "WAIT_FOR_START", d + 1)
      BY <2>0, <2>2, SMTT(30) DEF Follows, Newest
    <3>2. Reaches(issued, keyBytes, "KEY_GET_0", d, "WAIT_FOR_START", d + 1)
      BY <1>5, <3>1, Payloads, ReachesByte, SMTT(30)
    <3> QED
      BY <2>2, <3>2 DEF Payload, Getting, Newest
  <2>3. CASE kind[u] = "click" /\ clickBytes[1] # START_BYTE /\ Newest(d, Click)
    <3>1. Follows(issued, "CLICK_GET_0", d, clickBytes[1], "WAIT_FOR_START",
                  d + 1)
      BY <2>0, <2>3, SMTT(30) DEF Follows, Newest
    <3>2. Reaches(issued, clickBytes, "CLICK_GET_0", d, "WAIT_FOR_START", d + 1)
      BY <1>5, <3>1, Payloads, ReachesByte, SMTT(30)
    <3> QED
      BY <2>3, <3>2 DEF Payload, Getting, Newest
  <2>4. CASE /\ kind[u] = "mouse" /\ \A i \in 1..3 : mouseBytes[i] # START_BYTE
             /\ Newest(d, Move(mouseBytes[1], mouseBytes[2], mouseBytes[3]))
    <3>1. /\ d + 1 = Len(issued) /\ IsMove(issued[d + 1])
          /\ issued[d + 1].x = SignedChar(mouseBytes[1])
          /\ issued[d + 1].y = SignedChar(mouseBytes[2])
          /\ issued[d + 1].wheel = SignedChar(mouseBytes[3])
      BY <2>4, SMTT(30) DEF Newest, Move, IsMove
    <3>2. /\ mouseBytes[1] # START_BYTE /\ mouseBytes[2] # START_BYTE
          /\ mouseBytes[3] # START_BYTE
      BY <2>4, SMTT(30)
    <3>3. /\ Follows(issued, "MOUSE_GET_0", d, mouseBytes[1], "MOUSE_GET_1", d)
          /\ Follows(issued, "MOUSE_GET_1", d, mouseBytes[2], "MOUSE_GET_2", d)
      BY <2>0, <3>1, <3>2, SMTT(30) DEF Follows
    <3>4. Follows(issued, "MOUSE_GET_2", d, mouseBytes[3], "WAIT_FOR_START",
                  d + 1)
      BY <2>0, <3>1, <3>2, SMTT(30) DEF Follows
    <3>5. Reaches(issued, mouseBytes, "MOUSE_GET_0", d, "WAIT_FOR_START", d + 1)
      BY <3>3, <3>4, Payloads, ReachesMove
    <3> QED
      BY <2>4, <3>1, <3>5 DEF Payload, Getting
  <2> QED
    BY <1>6, <2>1, <2>2, <2>3, <2>4 DEF Pending
<1> HIDE DEF bytes, to
<1>7. ASSUME NEW t \in States, NEW d \in Nat, t \in Awaits(u), Pending(u, d)
      PROVE  \E v \in States \ {"JUNK"}, e \in Nat :
               /\ Reaches(issued, bytes, t, d, v, e) /\ e <= Len(issued)
               /\ v \in Ready /\ e = Len(issued)
  <2>1. PICK v \in {"WAIT_FOR_START", "STARTED"} :
                Reaches(issued, bytes, t, d, v, Len(issued))
    BY <1>4, <1>6, <1>7
  <2>2. Len(issued) \in Nat /\ Len(issued) <= Len(issued)
    BY Lengths, SMTT(30)
  <2> QED
    BY <1>5, <2>1, <2>2
<1> QED
  BY <1>1, <1>3, <1>7, WritePipeline

\* Every step of every thread, the link and the dongle keeps the pipeline.
LEMMA StepPipeline ==
  ASSUME PlainCommands, Types, Types', Exclusive, Pipeline, NextDispatcher
  PROVE  Pipeline'
<1>1. senders' = senders
  BY DEF NextDispatcher
<1> USE <1>1
<1>2. ASSUME "ui" \in senders,
             NEW c \in {Byte(c) : c \in Chars} \cup {DELETE, ENTER}, PressKey(c)
      PROVE  Pipeline'
  <2>1. c # START_BYTE /\ c \in ByteVals
    <3>1. \A n \in Chars : Byte(n) \in ByteVals /\ Byte(n) # START_BYTE
      <4>1. \A n \in Chars : n \in Int
        BY DispatcherAssumption, SMTT(30)
      <4> QED
        BY <4>1, ByteRange DEF PlainCommands
    <3>2. /\ DELETE \in ByteVals /\ DELETE # START_BYTE
          /\ ENTER \in ByteVals /\ ENTER # START_BYTE
      BY SMTT(30) DEF DELETE, ENTER, START_BYTE, ByteVals
    <3> QED
      BY <3>1, <3>2
  <2>2. Issue("ui", "key", Key(c)) /\ Key(c) \in Usb
    BY <1>2, <2>1 DEF PressKey, Usb
  <2>3. keyBytes'[1] = c /\ kind'["ui"] = "key"
    BY <1>2 DEF PressKey, Issue, Types, Threads
  <2>4. \A d \in Nat : Newest(d, Key(c))' => Pending("ui", d)'
    BY <2>1, <2>3 DEF Pending
  <2> QED
    BY <1>2, <2>2, <2>4, IssuePipeline DEF PressKey
<1>3. ASSUME "ui" \in senders, NEW button \in {LEFT, RIGHT}, PressButton(button)
      PROVE  Pipeline'
  <2>1. Issue("ui", "click", Click) /\ Click \in Usb
    BY <1>3 DEF PressButton, Usb
  <2>2. clickBytes'[1] # START_BYTE /\ kind'["ui"] = "click"
    BY <1>3, SMTT(30) DEF PressButton, Issue, Types, Threads, LEFT, RIGHT, START_BYTE
  <2>3. \A d \in Nat : Newest(d, Click)' => Pending("ui", d)'
    BY <2>2 DEF Pending
  <2> QED
    BY <1>3, <2>1, <2>3, IssuePipeline DEF PressButton
<1>4. ASSUME "mouse" \in senders, NEW p \in Deltas, MoveMouse(p)
      PROVE  Pipeline'
  <2> DEFINE e == [kind |-> "move", x |-> p[1], y |-> p[2], wheel |-> 0]
  <2>1. p[1] \in -127..127 /\ p[2] \in -127..127
    BY DispatcherAssumption
  <2>2. Issue("mouse", "mouse", e) /\ e \in Usb
    BY <1>4, <2>1, SMTT(30) DEF MoveMouse, Usb
  <2>3. /\ mouseBytes'[1] = Byte(p[1]) /\ mouseBytes'[2] = Byte(p[2])
        /\ mouseBytes'[3] = 0 /\ kind'["mouse"] = "mouse"
    BY <1>4 DEF MoveMouse, Issue, Types, Threads
  <2>4. \A i \in 1..3 : mouseBytes'[i] # START_BYTE
    <3>1. 0 # START_BYTE /\ \A i \in 1..3 : i \in {1, 2, 3}
      BY SMTT(30) DEF START_BYTE
    <3> QED
      BY <2>3, <3>1 DEF PlainCommands
  <2>5. e = Move(mouseBytes'[1], mouseBytes'[2], mouseBytes'[3])
    <3>1. SignedChar(Byte(p[1])) = p[1] /\ SignedChar(Byte(p[2])) = p[2]
      BY <2>1, DeltaSurvives
    <3>2. SignedChar(0) = 0
      BY SMTT(30) DEF SignedChar
    <3> QED
      BY <2>3, <3>1, <3>2 DEF Move
  <2> HIDE DEF e
  <2>6. \A d \in Nat : Newest(d, e)' => Pending("mouse", d)'
    BY <2>3, <2>4, <2>5 DEF Pending, Newest
  <2> QED
    BY <1>4, <2>2, <2>6, IssuePipeline DEF MoveMouse
<1>5. ASSUME "file" \in senders, FileRead PROVE Pipeline'
  <2>1. PICK char :
        /\ MayBegin("file") /\ Advance("file", "idle", "delimiter")
        /\ keyBytes' = <<char>> /\ kind' = [kind EXCEPT !["file"] = "key"]
        /\ issued' = IF char = Byte(-1) THEN issued ELSE Append(issued, Key(char))
        /\ UNCHANGED <<firmware, link, executed>>
    BY <1>5 DEF FileRead
  <2>2. keyBytes'[1] \in ByteVals
    BY SMTT(30) DEF Types, Buffers
  <2>3. Key(char) \in Usb
    BY <2>1, <2>2 DEF Usb
  <2>4. /\ \A v \in senders : pc[v] = "idle"
        /\ pc' = [pc EXCEPT !["file"] = "delimiter"]
    BY <2>1 DEF MayBegin, Advance, PlainCommands
  <2>5. keyBytes'[1] = char /\ kind'["file"] = "key"
    BY <1>5, <2>1 DEF Types, Threads
  <2>6. Byte(-1) = START_BYTE
    BY EndByte DEF START_BYTE
  <2>7. ASSUME NEW d \in Nat, d = Len(issued) PROVE Pending("file", d)'
    <3>1. CASE char = START_BYTE
      BY <2>1, <2>5, <2>6, <2>7, <3>1 DEF Pending
    <3>2. CASE char # START_BYTE
      <4>1. Newest(d, Key(char))'
        BY <2>1, <2>3, <2>6, <2>7, <3>2, AppendProperties
        DEF Newest, Types, Histories
      <4> QED
        BY <2>5, <3>2, <4>1 DEF Pending, Newest
    <3> QED
      BY <3>1, <3>2
  <2>8. issued' = issued \/ \E event \in Usb : issued' = Append(issued, event)
    BY <2>1, <2>3
  <2> QED
    BY <1>5, <2>1, <2>4, <2>7, <2>8, BeginPipeline
<1>6. CASE \/ "file" \in senders /\ (FileLoop \/ FileReturn \/ FileFails)
           \/ Cancel \/ onPostExecute \/ \E f \in Files : sendFile(f)
  <2>1. UNCHANGED <<issued, executed, mark, air, firmware, buffers, kind>>
    BY <1>6 DEF FileLoop, FileReturn, FileFails, Cancel, onPostExecute, sendFile,
       Quiet, link
  <2>2. \A u \in senders : pc'[u] = pc[u] \/ (~InCommand(u) /\ ~InCommand(u)')
    BY <1>6 DEF FileLoop, FileReturn, FileFails, Cancel, onPostExecute, sendFile,
       Advance, InCommand, Types, Threads
  <2> QED
    BY <2>1, <2>2, QuietPipeline
<1>7. ASSUME NEW u \in senders,
             sendDelimiter(u) \/ SendType(u) \/ SendPayload(u)
      PROVE  Pipeline'
  BY <1>7, DelimiterPipeline, TypePipeline, PayloadPipeline
<1>8. CASE LinkLost \/ LinkUp
  <2>1. CASE LinkLost /\ air # << >>
    BY <2>1, LossPipeline DEF LinkLost
  <2>2. CASE LinkUp \/ (LinkLost /\ air = << >>)
    <3>1. UNCHANGED <<issued, executed, mark, air, firmware, buffers, kind, pc>>
      BY <2>2 DEF LinkUp, LinkLost
    <3> QED
      BY <3>1, QuietPipeline
  <2> QED
    BY <1>8, <2>1, <2>2
<1>9. CASE Receive
  BY <1>9, ReceivePipeline
<1> QED
  BY <1>2, <1>3, <1>4, <1>5, <1>6, <1>7, <1>8, <1>9
  DEF NextDispatcher, UiStep, FileStep

\* Without Overlap a thread begins only while the others are idle.
LEMMA StepExclusive ==
  ASSUME PlainCommands, Types, Exclusive, NextDispatcher
  PROVE  Exclusive'
<1>1. senders' = senders /\ Threads
  BY DEF NextDispatcher, Types
<1> USE <1>1
<1>2. ASSUME NEW u \in senders, NEW to, pc' = [pc EXCEPT ![u] = to],
             MayBegin(u) \/ pc[u] # "idle" \/ to = "idle"
      PROVE  Exclusive'
  BY <1>2 DEF Exclusive, MayBegin, PlainCommands, Threads
<1>3. CASE UiStep \/ ("mouse" \in senders /\ \E d \in Deltas : MoveMouse(d))
  <2>1. PICK u \in senders : MayBegin(u) /\ pc' = [pc EXCEPT ![u] = "delimiter"]
    BY <1>3 DEF UiStep, PressKey, PressButton, MoveMouse, Issue, Advance
  <2> QED
    BY <1>2, <2>1
<1>4. CASE FileStep
  BY <1>2, <1>4 DEF FileStep, FileRead, FileLoop, FileReturn, FileFails, Advance
<1>5. ASSUME NEW u \in senders,
             sendDelimiter(u) \/ SendType(u) \/ SendPayload(u)
      PROVE  Exclusive'
  BY <1>2, <1>5 DEF sendDelimiter, SendType, SendPayload, Advance
<1>6. CASE UNCHANGED pc
  BY <1>6 DEF Exclusive
<1>7. CASE \/ Cancel \/ onPostExecute \/ LinkLost \/ LinkUp \/ Receive
           \/ \E f \in Files : sendFile(f)
  BY <1>6, <1>7 DEF Cancel, onPostExecute, LinkLost, LinkUp, Receive, sendFile
<1> QED
  BY <1>3, <1>4, <1>5, <1>7 DEF NextDispatcher

\* Nothing is issued, nothing is in the air, and the decoder waits.
LEMMA InitPipeline == InitDispatcher => Exclusive /\ Pipeline
<1> SUFFICES ASSUME InitDispatcher PROVE Exclusive /\ Pipeline
  OBVIOUS
<1>1. /\ issued = << >> /\ executed = << >> /\ air = << >> /\ mark = -1
      /\ currentState = "WAIT_FOR_START" /\ pc = [t \in senders |-> "idle"]
  BY DEF InitDispatcher, InitFirmware
<1>2. Exclusive
  BY <1>1 DEF Exclusive
<1>3. Len(issued) = 0 /\ Len(executed) = 0 /\ Base = 0
  BY <1>1, EmptySeq DEF Base
<1>4. Executed(0) /\ Holding("WAIT_FOR_START", 0)
  BY <1>1, <1>3, SMTT(30) DEF Executed, Holding
<1>5. "WAIT_FOR_START" \in States
  BY DEF States, DecoderStates
<1>6. Reaches(issued, air, "WAIT_FOR_START", 0, "WAIT_FOR_START", 0)
  BY <1>1, <1>5, ReachesNothing
<1>7. WriterAt("WAIT_FOR_START", 0)
  BY <1>1, <1>3, SMTT(30) DEF WriterAt, InCommand, Ready
<1> QED
  BY <1>2, <1>4, <1>5, <1>6, <1>7 DEF Pipeline

\* The pipeline holds throughout.
LEMMA PipelineAlways ==
  ASSUME PlainCommands
  PROVE  SpecDispatcher => [](Types /\ Exclusive /\ Pipeline)
<1>1. Types /\ Exclusive /\ Pipeline /\ [NextDispatcher]_varsDispatcher
        => (Exclusive /\ Pipeline)'
  <2> SUFFICES ASSUME Types, Exclusive, Pipeline, [NextDispatcher]_varsDispatcher
               PROVE  (Exclusive /\ Pipeline)'
    OBVIOUS
  <2>1. Types'
    BY StepTypes
  <2>2. CASE NextDispatcher
    BY <2>1, <2>2, StepExclusive, StepPipeline
  <2>3. CASE UNCHANGED varsDispatcher
    <3>1. UNCHANGED <<issued, executed, mark, air, firmware, buffers, kind, pc,
                      senders>>
      BY <2>3 DEF varsDispatcher, link
    <3>2. Exclusive'
      BY <3>1 DEF Exclusive
    <3> QED
      BY <3>1, <3>2, QuietPipeline
  <2> QED
    BY <2>2, <2>3
<1> QED
  BY <1>1, InitPipeline, TypesAlways, PTL DEF SpecDispatcher

-----------------------------------------------------------------------------
(* What the pipeline says when it is empty, or has lost nothing.            *)

\* A prefix, element by element.
LEMMA PrefixIntro ==
  ASSUME NEW S, NEW a \in Seq(S), NEW b \in Seq(S), Len(a) <= Len(b),
         \A i \in 1..Len(a) : a[i] = b[i]
  PROVE  a = SubSeq(b, 1, Len(a))
<1> DEFINE n == Len(a)
           q == SubSeq(b, 1, n)
<1>1. n \in Nat /\ Len(b) \in Nat
  BY LenProperties
<1>2. \A i \in 1..n : b[i] \in S
  BY <1>1, ElementOfSeq
<1>3. q \in Seq(S) /\ Len(q) = n /\ \A i \in 1..n : q[i] = b[i]
  BY <1>1, <1>2, SubSeqProperties, SMTT(30)
<1> HIDE DEF q
<1>4. a = q
  BY <1>3, SeqEqual
<1> QED
  BY <1>4 DEF q

\* The last n elements, one by one.
LEMMA LatestIntro ==
  ASSUME NEW S, NEW n \in Nat,
         NEW a \in Seq(S), n <= Len(a), NEW b \in Seq(S), n <= Len(b),
         \A i \in 1..n : a[Len(a) - n + i] = b[Len(b) - n + i]
  PROVE  SubSeq(a, Len(a) - n + 1, Len(a)) = SubSeq(b, Len(b) - n + 1, Len(b))
<1> DEFINE latest(s) == SubSeq(s, Len(s) - n + 1, Len(s))
<1>1. ASSUME NEW s \in Seq(S), n <= Len(s)
      PROVE  /\ latest(s) \in Seq(S) /\ Len(latest(s)) = n
             /\ \A i \in 1..n : latest(s)[i] = s[Len(s) - n + i]
  <2> DEFINE k == Len(s)
  <2>1. k \in Nat
    BY LenProperties
  <2>2. \A i \in k - n + 1..k : s[i] \in S
    BY <1>1, <2>1, ElementOfSeq, SMTT(30)
  <2>3. k - n + 1 \in Int /\ k \in Int /\ k - (k - n + 1) + 1 = n
    BY <2>1, SMTT(30)
  <2>4. \A i \in 1..n : (k - n + 1) + i - 1 = k - n + i
    BY <2>1, SMTT(30)
  <2> HIDE DEF k
  <2>5. /\ SubSeq(s, k - n + 1, k) \in Seq(S)
        /\ Len(SubSeq(s, k - n + 1, k)) = n
        /\ \A i \in 1..n : SubSeq(s, k - n + 1, k)[i] = s[k - n + i]
    BY <2>1, <2>2, <2>3, <2>4, SubSeqProperties, SMTT(30)
  <2> QED
    BY <2>5 DEF k
<1>2. /\ latest(a) \in Seq(S) /\ Len(latest(a)) = n
      /\ \A i \in 1..n : latest(a)[i] = a[Len(a) - n + i]
  BY <1>1
<1>3. /\ latest(b) \in Seq(S) /\ Len(latest(b)) = n
      /\ \A i \in 1..n : latest(b)[i] = b[Len(b) - n + i]
  BY <1>1
<1> HIDE DEF latest
<1>4. latest(a) = latest(b)
  BY <1>2, <1>3, SeqEqual
<1> QED
  BY <1>4 DEF latest

\* The events executed are the first issued.
Ordered ==
  /\ Len(executed) <= Len(issued)
  /\ \A i \in 1..Len(executed) : executed[i] = issued[i]

\* So it is as long as nothing is lost.
LEMMA PipelineOrder == Types /\ Pipeline /\ mark = -1 => Ordered
<1> SUFFICES ASSUME Types, Pipeline, mark = -1 PROVE Ordered
  OBVIOUS
<1>1. PICK c \in Nat : Executed(c)
  BY DEF Pipeline
<1>2. Base = 0 /\ Len(executed) \in Nat /\ Len(issued) \in Nat
  BY Lengths DEF Base
<1>3. c - Base = c /\ Len(executed) = c /\ c <= Len(issued)
  BY <1>1, <1>2, SMTT(30) DEF Executed
<1>4. \A j \in 1..c : Len(executed) - (c - Base) + j = j /\ Base + j = j
  BY <1>2, <1>3, SMTT(30)
<1> QED
  BY <1>1, <1>3, <1>4 DEF Executed, Ordered

\* The same of the next state.
LEMMA OrderedThen == (Types /\ Pipeline /\ mark = -1 => Ordered)'
BY PipelineOrder, PTL

\* While nothing is on its way, the last events are those issued since a loss.
LEMMA PipelineEmpty ==
  ASSUME Types, Pipeline, Idle
  PROVE  Executed(Len(issued))
<1>1. PICK s \in States, c \in Nat, t \in States, d \in Nat :
        /\ Executed(c) /\ Reaches(issued, air, s, c, t, d) /\ WriterAt(t, d)
  BY DEF Pipeline
<1>2. c = d
  BY <1>1, ReachesNothing DEF Idle
<1>3. d = Len(issued)
  BY <1>1 DEF WriterAt, Idle, InCommand
<1> QED
  BY <1>1, <1>2, <1>3

\* The dongle has produced the first of the events asked for, in that order.
InOrder ==
  mark = -1 => /\ Len(executed) <= Len(issued)
               /\ executed = SubSeq(issued, 1, Len(executed))

\* Where plain char is unsigned, threads do not overlap and no payload holds a
\* START_BYTE: until something is lost, the dongle produces the events asked for
\* and in that order, for any commands and any delay on the way.
THEOREM OrderKept == PlainCommands => (SpecDispatcher => []InOrder)
<1> SUFFICES ASSUME PlainCommands PROVE SpecDispatcher => []InOrder
  OBVIOUS
<1>1. Types /\ Exclusive /\ Pipeline => InOrder
  <2> SUFFICES ASSUME Types, Pipeline, mark = -1 PROVE InOrder
    BY DEF InOrder
  <2> QED
    BY PipelineOrder, PrefixIntro DEF InOrder, Ordered, Types, Histories
<1> QED
  BY <1>1, PipelineAlways, PTL

\* Under the same conditions, wherever a loss cut a command and whatever the
\* firmware made of the pieces, every command begun after the last loss is
\* executed and nothing comes after or between them.
THEOREM LossesHeal == PlainCommands => (SpecDispatcher => []RecoversAfterLoss)
<1> SUFFICES ASSUME PlainCommands PROVE SpecDispatcher => []RecoversAfterLoss
  OBVIOUS
<1>1. Types /\ Exclusive /\ Pipeline => RecoversAfterLoss
  <2> SUFFICES ASSUME Types, Pipeline, Idle PROVE RecoversAfterLoss
    BY DEF RecoversAfterLoss
  <2> DEFINE n == Len(issued) - Base
             latest(s) == SubSeq(s, Len(s) - n + 1, Len(s))
  <2>1. /\ Len(issued) \in Nat /\ Len(executed) \in Nat /\ Base \in Nat
        /\ Base <= Len(issued)
    BY Lengths
  <2>2. /\ n <= Len(executed)
        /\ \A i \in 1..n : executed[Len(executed) - n + i] = issued[Base + i]
    BY PipelineEmpty DEF Executed
  <2>3. n \in Nat /\ n <= Len(issued) /\ Len(issued) - n = Base
    BY <2>1, SMTT(30)
  <2>4. n = Len(issued) - (IF mark = -1 THEN 0 ELSE mark)
    BY DEF Base
  <2> HIDE DEF n
  <2>5. latest(executed) = latest(issued)
    BY <2>2, <2>3, LatestIntro DEF Types, Histories
  <2> QED
    BY <2>2, <2>4, <2>5 DEF RecoversAfterLoss
<1> QED
  BY <1>1, PipelineAlways, PTL

-----------------------------------------------------------------------------
(* The dispatcher, the link and the dongle as one channel.                  *)

\* One more command at the end of those that wait.
LEMMA SuffixGrows ==
  ASSUME NEW S, NEW a \in Seq(S), NEW e \in S, NEW n \in 0..Len(a)
  PROVE  SubSeq(Append(a, e), n + 1, Len(a) + 1)
           = Append(SubSeq(a, n + 1, Len(a)), e)
<1> DEFINE b == Append(a, e)
           k == Len(a)
           p == SubSeq(a, n + 1, k)
           q == SubSeq(b, n + 1, k)
<1>1. k \in Nat
  BY LenProperties
<1>2. /\ b \in Seq(S) /\ Len(b) = k + 1 /\ b[k + 1] = e
      /\ \A i \in 1..k : b[i] = a[i]
  BY AppendProperties, SMTT(30)
<1>3. \A i \in 1..k : a[i] \in S
  BY ElementOfSeq
<1> HIDE DEF b, k
<1>4. n + 1 \in 1..Len(b) /\ k + 1 \in n + 1..Len(b) /\ (k + 1) - 1 = k
  BY <1>1, <1>2, SMTT(30) DEF k
<1>5. SubSeq(b, n + 1, k + 1) = q \o <<e>>
  BY <1>2, <1>4, SubSeqRecursiveSecond
<1>6. /\ n + 1 \in Int /\ k \in Int
      /\ \A i \in n + 1..k : i \in 1..k
      /\ \A i \in 1..k - (n + 1) + 1 : (n + 1) + i - 1 \in 1..k
  BY <1>1, SMTT(30) DEF k
<1>7. /\ p \in Seq(S)
      /\ Len(p) = IF n + 1 <= k THEN k - (n + 1) + 1 ELSE 0
      /\ \A i \in 1..k - (n + 1) + 1 : p[i] = a[(n + 1) + i - 1]
  BY <1>3, <1>6, SubSeqProperties, SMTT(30)
<1>8. /\ q \in Seq(S)
      /\ Len(q) = IF n + 1 <= k THEN k - (n + 1) + 1 ELSE 0
      /\ \A i \in 1..k - (n + 1) + 1 : q[i] = b[(n + 1) + i - 1]
  <2>1. \A i \in n + 1..k : b[i] \in S
    BY <1>2, <1>3, <1>6
  <2> QED
    BY <1>6, <2>1, SubSeqProperties, SMTT(30)
<1> HIDE DEF p, q
<1>9. \A i \in 1..Len(p) : i \in 1..k - (n + 1) + 1
  BY <1>1, <1>6, <1>7, SMTT(30)
<1>10. p = q
  <2>1. \A i \in 1..Len(p) : p[i] = q[i]
    BY <1>2, <1>6, <1>7, <1>8, <1>9
  <2> QED
    BY <1>7, <1>8, <2>1, SeqEqual
<1>11. Append(p, e) = p \o <<e>>
  BY <1>7, AppendIsConcat
<1> QED
  BY <1>5, <1>10, <1>11 DEF b, k, p

\* The task reads a file that the user may choose.
FileChosen == task.state # "null" => task.content \in Files

\* Every step keeps it.
LEMMA StepChosen ==
  Types /\ Prompt /\ FileChosen /\ [NextDispatcher]_varsDispatcher => FileChosen'
<1> SUFFICES ASSUME Types, Prompt, FileChosen, [NextDispatcher]_varsDispatcher
             PROVE  FileChosen'
  OBVIOUS
<1> USE DEF FileChosen
<1>1. CASE task' = task
  BY <1>1
<1>2. ASSUME NEW f \in Files, sendFile(f) PROVE FileChosen'
  BY <1>2 DEF sendFile, NoTask
<1>3. CASE ("file" \in senders /\ (FileRead \/ FileReturn \/ FileFails)) \/ Cancel
  <2>1. task.state # "null"
    BY <1>3 DEF FileRead, FileReturn, FileFails, Cancel, Advance, Prompt
  <2> QED
    BY <1>3, <2>1 DEF FileRead, FileReturn, FileFails, Cancel, Types, TaskType
<1>4. CASE onPostExecute
  BY <1>4 DEF onPostExecute, NoTask
<1> QED
  BY <1>1, <1>2, <1>3, <1>4
  DEF NextDispatcher, varsDispatcher, UiStep, PressKey, PressButton, MoveMouse,
      FileStep, FileLoop, sendDelimiter, SendType, SendPayload, Unsent,
      LinkLost, LinkUp, Receive

\* A step gives one command, executes one event, or does neither; only a write
\* without a link and the loss of a link mark a loss.
LEMMA StepShape ==
  ASSUME Types, Types', FileChosen, NextDispatcher
  PROVE  \/ UNCHANGED <<issued, executed>> /\ mark' \in {mark, Len(issued)}
         \/ /\ \E e \in Asked \cap Usb : issued' = Append(issued, e)
            /\ UNCHANGED <<executed, mark>>
         \/ /\ \E e \in Usb : executed' = Append(executed, e)
            /\ UNCHANGED <<issued, mark>>
<1> DEFINE Shape == \/ /\ UNCHANGED <<issued, executed>>
                       /\ mark' \in {mark, Len(issued)}
                    \/ /\ \E e \in Asked \cap Usb : issued' = Append(issued, e)
                       /\ UNCHANGED <<executed, mark>>
                    \/ /\ \E e \in Usb : executed' = Append(executed, e)
                       /\ UNCHANGED <<issued, mark>>
<1>1. ASSUME NEW c \in {Byte(c) : c \in Chars} \cup {DELETE, ENTER}, PressKey(c)
      PROVE  Shape
  <2>1. c \in ByteVals
    <3>1. \A n \in Chars : Byte(n) \in ByteVals
      <4>1. \A n \in Chars : n \in Int
        BY DispatcherAssumption, SMTT(30)
      <4> QED
        BY <4>1, ByteRange
    <3>2. DELETE \in ByteVals /\ ENTER \in ByteVals
      BY SMTT(30) DEF DELETE, ENTER, ByteVals
    <3> QED
      BY <3>1, <3>2
  <2>2. Key(c) \in Usb /\ Key(c) \in Asked
    BY <2>1 DEF Usb, Asked
  <2> QED
    BY <1>1, <2>2 DEF PressKey, Issue, link
<1>2. ASSUME NEW button \in {LEFT, RIGHT}, PressButton(button) PROVE Shape
  <2>1. Click \in Usb /\ Click \in Asked
    BY DEF Usb, Asked
  <2> QED
    BY <1>2, <2>1 DEF PressButton, Issue, link
<1>3. ASSUME NEW p \in Deltas, MoveMouse(p) PROVE Shape
  <2> DEFINE e == [kind |-> "move", x |-> p[1], y |-> p[2], wheel |-> 0]
  <2>1. p[1] \in -127..127 /\ p[2] \in -127..127
    BY DispatcherAssumption
  <2>2. e \in Usb
    BY <2>1, SMTT(30) DEF Usb
  <2>3. e \in Asked
    BY DEF Asked
  <2>4. issued' = Append(issued, e) /\ UNCHANGED <<executed, mark>>
    BY <1>3 DEF MoveMouse, Issue, link
  <2> HIDE DEF e
  <2> QED
    BY <2>2, <2>3, <2>4
<1>4. CASE FileRead
  <2> DEFINE c == Read(task.content, task.pos)
  <2>1. /\ task.state = "sending" /\ keyBytes' = <<c>>
        /\ issued' = IF c = Byte(-1) THEN issued ELSE Append(issued, Key(c))
        /\ UNCHANGED <<executed, mark>>
    BY <1>4 DEF FileRead, link
  <2>2. CASE c = Byte(-1)
    BY <2>1, <2>2
  <2>3. CASE c # Byte(-1)
    <3>1. task.content \in Files
      BY <2>1 DEF FileChosen
    <3>2. task.pos + 1 \in 1..Len(task.content)
      <4>1. task.pos < Len(task.content)
        BY <2>3 DEF Read
      <4>2. task.pos \in Nat /\ Len(task.content) \in Nat
        BY LenProperties DEF Types, TaskType
      <4> QED
        BY <4>1, <4>2, SMTT(30)
    <3>3. c = Byte(task.content[task.pos + 1])
      BY <2>3 DEF Read
    <3>4. Key(c) \in Asked
      <4> DEFINE Typed(f) == {Key(Byte(f[i])) : i \in 1..Len(f)}
      <4>1. Key(c) \in Typed(task.content)
        BY <3>2, <3>3
      <4>2. Key(c) \in UNION {Typed(f) : f \in Files}
        BY <3>1, <4>1
      <4> QED
        BY <4>2 DEF Asked
    <3>5. Key(c) \in Usb
      <4>1. keyBytes'[1] \in ByteVals
        BY SMTT(30) DEF Types, Buffers
      <4> QED
        BY <2>1, <4>1 DEF Usb
    <3> HIDE DEF c
    <3> QED
      BY <2>1, <2>3, <3>4, <3>5
  <2> QED
    BY <2>2, <2>3
<1>5. CASE \/ FileLoop \/ FileReturn \/ FileFails \/ Cancel \/ onPostExecute
           \/ \E f \in Files : sendFile(f)
  BY <1>5 DEF FileLoop, FileReturn, FileFails, Cancel, onPostExecute, sendFile,
     Quiet, link
<1>6. ASSUME NEW t, sendDelimiter(t) \/ SendType(t) \/ SendPayload(t)
      PROVE  Shape
  BY <1>6 DEF sendDelimiter, SendType, SendPayload, sendByte, Unsent
<1>7. CASE LinkLost \/ LinkUp
  BY <1>7 DEF LinkLost, LinkUp
<1>8. CASE Receive
  <2>1. Head(air) \in ByteVals /\ Loop(Head(air))
    BY <1>8, HeadTailProperties DEF Receive, Types, Link
  <2>2. UsbEvent(out') = Nothing \/ out' \in Usb
    BY <2>1, DecodeTypes DEF Types
  <2> QED
    BY <1>8, <2>2 DEF Receive
<1> QED
  BY <1>1, <1>2, <1>3, <1>4, <1>5, <1>6, <1>7, <1>8
  DEF NextDispatcher, UiStep, FileStep

\* A step of the dispatcher, the link or the dongle is one of the channel.
LEMMA StepRefines ==
  ASSUME Types, Types', Pipeline, Pipeline', FileChosen, NextDispatcher
  PROVE  [Channel!Next]_Channel!channel
<1> USE DEF Channel!Next, Channel!channel
<1>1. /\ Len(issued) \in Nat /\ Len(executed) \in Nat
      /\ issued \in Seq(Usb) /\ executed \in Seq(Usb) /\ mark \in Int
  BY Lengths DEF Types, Histories
<1>2. CASE mark # -1
  <2>1. mark' # -1
    <3>1. mark' \in {mark, Len(issued)}
      BY StepShape
    <3> QED
      BY <1>1, <1>2, <3>1, SMTT(30)
  <2> QED
    BY <1>2, <2>1 DEF Waiting, Output
<1>3. CASE mark = -1 /\ mark' # -1
  BY <1>3 DEF Channel!Break, Waiting, Output
<1>4. CASE mark = -1 /\ mark' = -1
  <2>1. Len(executed) <= Len(issued)
    BY <1>4, PipelineOrder DEF Ordered
  <2>2. CASE UNCHANGED <<issued, executed>>
    BY <1>4, <2>2 DEF Waiting, Output
  <2>3. ASSUME NEW e \in Asked \cap Usb, issued' = Append(issued, e),
               UNCHANGED executed
        PROVE  Channel!Give(e)
    <3>1. Len(executed) \in 0..Len(issued) /\ Len(issued') = Len(issued) + 1
      BY <1>1, <2>1, <2>3, AppendProperties, SMTT(30)
    <3>2. Waiting' = Append(Waiting, e)
      BY <1>1, <1>4, <2>3, <3>1, SuffixGrows DEF Waiting
    <3> QED
      BY <1>4, <2>3, <3>2 DEF Channel!Give, Output
  <2>4. ASSUME NEW e \in Usb, executed' = Append(executed, e), UNCHANGED issued
        PROVE  Channel!Execute
    <3> DEFINE n == Len(executed)
    <3>1. Len(executed') = n + 1 /\ executed'[n + 1] = e /\ executed' # << >>
      BY <1>1, <2>4, AppendProperties
    <3>2. /\ Len(executed') <= Len(issued')
          /\ \A i \in 1..Len(executed') : executed'[i] = issued'[i]
      <4>1. Ordered'
        BY <1>4, OrderedThen
      <4> QED
        BY <4>1 DEF Ordered
    <3>3. /\ n + 1 \in 1..Len(issued) /\ Len(issued) \in n + 1..Len(issued)
          /\ n + 1 \in 1..Len(executed')
      BY <1>1, <2>4, <3>1, <3>2, SMTT(30)
    <3>4. issued[n + 1] = e
      BY <2>4, <3>1, <3>2, <3>3
    <3>5. /\ Head(Waiting) = e
          /\ Tail(Waiting) = SubSeq(issued, (n + 1) + 1, Len(issued))
      BY <1>1, <1>4, <3>3, <3>4, HeadTailOfSubSeq DEF Waiting
    <3>6. Waiting # << >>
      <4>1. \A i \in n + 1..Len(issued) : issued[i] \in Usb
        BY <1>1, ElementOfSeq, SMTT(30)
      <4>2. Len(Waiting) = Len(issued) - (n + 1) + 1
        BY <1>1, <1>4, <3>3, <4>1, SubSeqProperties, SMTT(30) DEF Waiting
      <4>3. Len(Waiting) # 0
        BY <1>1, <3>3, <4>2, SMTT(30)
      <4> QED
        BY <4>3, EmptySeq
    <3>7. Waiting' = Tail(Waiting) /\ Output' = Append(Output, e)
      BY <1>4, <2>4, <3>1, <3>5 DEF Waiting, Output
    <3> QED
      BY <1>4, <3>5, <3>6, <3>7 DEF Channel!Execute
  <2> QED
    BY <2>2, <2>3, <2>4, StepShape
<1> QED
  BY <1>2, <1>3, <1>4

\* Under the conditions of OrderKept the dispatcher, the link and the dongle
\* implement the channel, for any commands, files and delays: each step gives
\* one command, takes the oldest one out, breaks the channel by a loss, or is
\* none of the user's business.
THEOREM ChannelKept == PlainCommands => (SpecDispatcher => IsChannel)
<1> SUFFICES ASSUME PlainCommands PROVE SpecDispatcher => IsChannel
  OBVIOUS
<1>1. InitDispatcher => Channel!Init
  <2> SUFFICES ASSUME InitDispatcher PROVE Channel!Init
    OBVIOUS
  <2>1. issued = << >> /\ executed = << >> /\ mark = -1
    BY DEF InitDispatcher
  <2>2. Len(issued) = 0 /\ Len(executed) = 0
    BY <2>1, EmptySeq
  <2>3. 0 + 1 \in Int /\ 0 \in Int /\ 0 < 0 + 1
    BY SMTT(30)
  <2>4. Waiting = << >>
    BY <2>1, <2>2, <2>3, SubSeqEmpty DEF Waiting
  <2> QED
    BY <2>1, <2>4 DEF Channel!Init, Output
<1>2. InitDispatcher => FileChosen
  BY SMTT(30) DEF InitDispatcher, NoTask, FileChosen
<1>3. SpecDispatcher => []FileChosen
  BY <1>2, StepChosen, TypesAlways, PromptAlways, PTL DEF SpecDispatcher
<1>4. /\ Types /\ Types' /\ Pipeline /\ Pipeline' /\ FileChosen
      /\ [NextDispatcher]_varsDispatcher
      => [Channel!Next]_Channel!channel
  <2> SUFFICES ASSUME Types, Types', Pipeline, Pipeline', FileChosen,
                      [NextDispatcher]_varsDispatcher
               PROVE  [Channel!Next]_Channel!channel
    OBVIOUS
  <2>1. CASE UNCHANGED varsDispatcher
    BY <2>1 DEF varsDispatcher, link, Channel!channel, Waiting, Output
  <2> QED
    BY <2>1, StepRefines
<1> QED
  BY <1>1, <1>3, <1>4, PipelineAlways, PTL
  DEF SpecDispatcher, IsChannel, Channel!Spec

-----------------------------------------------------------------------------
(* Errors.                                                                  *)

\* On its path the decoder finds no error.
LEMMA ReceiveNoError ==
  ASSUME Types, PlainCommands, Pipeline, Receive, mark = -1
  PROVE  out'.kind # "error"
<1>1. PICK s \in States, c \in Nat, t \in States, d \in Nat :
        /\ Executed(c) /\ Holding(s, c)
        /\ Reaches(issued, air, s, c, t, d)
  BY DEF Pipeline
<1>2. air # << >> /\ air \in Seq(ByteVals) /\ Head(air) \in ByteVals
  BY HeadTailProperties DEF Types, Link, Receive
<1> DEFINE b == Head(air)
<1>3. PICK u \in States, e \in Nat : Follows(issued, s, c, b, u, e)
  BY <1>1, <1>2, ReachesOn
<1>4. IntVal(b) = b
  BY DEF PlainCommands, IntVal
<1>5. s # "JUNK" /\ currentState = s
  BY <1>1 DEF Holding
<1>6. Restart(b) \/ (b # START_BYTE /\ Dispatch(b, b))
  BY <1>4 DEF Receive, Loop
<1> HIDE DEF b
<1>7. CASE Restart(b)
  BY <1>7 DEF Restart, Goto, Nothing
<1>8. CASE b # START_BYTE /\ Dispatch(b, b)
  <2>1. \/ s = "STARTED" /\ b \in {CLICK_BEGIN, KEY_BEGIN, MOUSE_BEGIN}
        \/ s \in {"CLICK_GET_0", "KEY_GET_0", "MOUSE_GET_0", "MOUSE_GET_1",
                  "MOUSE_GET_2"}
    BY <1>3, <1>5, <1>8 DEF Follows
  <2> QED
    BY <1>5, <1>8, <2>1, SMTT(30)
    DEF Dispatch, Begin, Goto, Nothing, Click, Key, Move
<1> QED
  BY <1>6, <1>7, <1>8

\* Where the threads do not overlap, the dispatcher's comment is right: "If one
\* of our methods does not begin with 255, we know we dropped a byte".  The run
\* dispatcher_race shows that it is wrong as soon as two of them do.
THEOREM ErrorsAreLosses == PlainCommands => (SpecDispatcher => []ErrorMeansLoss)
<1> SUFFICES ASSUME PlainCommands PROVE SpecDispatcher => []ErrorMeansLoss
  OBVIOUS
<1>1. InitDispatcher => ErrorMeansLoss
  BY SMTT(30) DEF InitDispatcher, InitFirmware, Nothing, ErrorMeansLoss
<1>2. /\ Types /\ Pipeline /\ ErrorMeansLoss
      /\ [NextDispatcher]_varsDispatcher
      => ErrorMeansLoss'
  <2> SUFFICES ASSUME Types, Pipeline, ErrorMeansLoss,
                      [NextDispatcher]_varsDispatcher
               PROVE  ErrorMeansLoss'
    OBVIOUS
  <2>1. CASE Receive
    <3>1. mark' = mark
      BY <2>1 DEF Receive
    <3> QED
      BY <2>1, <3>1, ReceiveNoError DEF ErrorMeansLoss
  <2>2. CASE out' = out /\ mark' \in {mark, Len(issued)}
    <3>1. mark # -1 => mark' # -1
      BY <2>2, Lengths, SMTT(30)
    <3> QED
      BY <2>2, <3>1 DEF ErrorMeansLoss
  <2> QED
    BY <2>1, <2>2
    DEF NextDispatcher, varsDispatcher, firmware, link, UiStep, PressKey,
        PressButton, MoveMouse, FileStep, FileRead, FileLoop, FileReturn,
        FileFails, Cancel, onPostExecute, sendFile, Quiet, sendDelimiter,
        SendType, SendPayload, sendByte, Unsent, LinkLost, LinkUp
<1> QED
  BY <1>1, <1>2, PipelineAlways, PTL DEF SpecDispatcher

-----------------------------------------------------------------------------
(* Sending a file.                                                          *)

\* The user does not type or point while a file is sent.
FileAlone == \A S \in Scenarios : "file" \in S => S = {"file"}

\* How many characters the task has issued, and the byte of the i-th.
ReadTo  == Len(issued) - task.base
Code(i) == Byte(task.content[i])

TypedSoFar ==
  /\ task.base <= Len(issued) /\ ReadTo <= Len(task.content)
  /\ \A i \in 1..ReadTo : issued[task.base + i] = Key(Code(i)) /\ Code(i) # 255

\* The next character is none, or one that the loop takes for none.
AtEnd ==
  ReadTo = Len(task.content) \/ (ReadTo < Len(task.content) /\ Code(ReadTo + 1) = 255)

\* The loop has issued the characters it has read, and leaves at the end or
\* because of Cancel.
Typing ==
  task.state # "null" =>
    /\ TypedSoFar
    /\ task.state = "sending" =>
         \/ task.pos = ReadTo /\ task.char # 255
         \/ pc["file"] # "idle" /\ task.char = 255 /\ AtEnd
    /\ pc["file"] = "closing" => task.canceled \/ task.char = 255
    /\ task.state = "post" /\ task.result = "sent" => AtEnd

\* No step issues anything but the file's characters, in their order.
LEMMA StepTyping ==
  ASSUME FileAlone, Types, Prompt, Typing, [NextDispatcher]_varsDispatcher
  PROVE  Typing'
<1>0. CASE UNCHANGED varsDispatcher
  BY <1>0, SMTT(30) DEF varsDispatcher, Typing, TypedSoFar, AtEnd, ReadTo, Code
<1> SUFFICES ASSUME NextDispatcher PROVE Typing'
  BY <1>0
<1>1. senders' = senders /\ senders \in Scenarios /\ TaskType /\ Threads
  BY DEF NextDispatcher, Types
<1> USE <1>1
<1>2. /\ Len(issued) \in Nat /\ Len(task.content) \in Nat
      /\ task.content \in Seq(Nat) /\ issued \in Seq(Usb)
  BY LenProperties DEF TaskType, Types, Histories
<1>3. CASE task.state = "null" /\ task' = task
  BY <1>3 DEF Typing
<1>4. CASE UiStep \/ ("mouse" \in senders /\ \E d \in Deltas : MoveMouse(d))
  <2>1. task.state = "null"
    BY <1>4, SMTT(30) DEF Prompt, FileAlone, UiStep
  <2>2. task' = task
    BY <1>4 DEF UiStep, PressKey, PressButton, MoveMouse
  <2> QED
    BY <1>3, <2>1, <2>2
<1>5. ASSUME NEW f \in Files, sendFile(f) PROVE Typing'
  <2>1. /\ task'.state = "sending" /\ task'.content = f /\ task'.pos = 0
        /\ task'.char = 0 /\ task'.base = Len(issued) /\ issued' = issued
        /\ pc' = pc /\ pc["file"] = "idle"
    BY <1>5 DEF sendFile, NoTask, Quiet, Prompt
  <2>2. ReadTo' = 0
    BY <1>2, <2>1, SMTT(30) DEF ReadTo
  <2>3. Len(f) \in Nat
    BY DispatcherAssumption, LenProperties
  <2>4. TypedSoFar'
    BY <1>2, <2>1, <2>2, <2>3, SMTT(30) DEF TypedSoFar
  <2> QED
    BY <2>1, <2>2, <2>4, SMTT(30) DEF Typing
<1>6. ASSUME "file" \in senders, FileRead PROVE Typing'
  <2>1. PICK char : char = Read(task.content, task.pos)
    OBVIOUS
  <2>2. /\ task.state = "sending" /\ pc["file"] = "idle"
        /\ pc'["file"] = "delimiter"
        /\ task'.state = "sending" /\ task'.pos = task.pos + 1
        /\ task'.char = char /\ task'.content = task.content
        /\ task'.base = task.base
        /\ issued' = IF char = 255 THEN issued ELSE Append(issued, Key(char))
    BY <1>6, <2>1, EndByte DEF FileRead, Advance, Threads, TaskType
  <2>3. TypedSoFar /\ task.pos = ReadTo /\ task.base \in Nat
    BY <2>2 DEF Typing, TaskType
  <2>4. \/ char = 255 /\ ReadTo = Len(task.content)
        \/ ReadTo < Len(task.content) /\ char = Code(ReadTo + 1)
    <3>1. ReadTo \in Nat /\ ReadTo <= Len(task.content)
      BY <1>2, <2>3, SMTT(30) DEF TypedSoFar, ReadTo
    <3>2. ReadTo < Len(task.content) \/ ReadTo = Len(task.content)
      BY <1>2, <3>1, SMTT(30)
    <3> QED
      BY <2>1, <2>3, <3>1, <3>2, EndByte DEF Read, Code
  <2>5. CASE char = 255
    <3>1. AtEnd
      BY <2>4, <2>5 DEF AtEnd
    <3>2. AtEnd' /\ TypedSoFar'
      BY <2>2, <2>3, <2>5, <3>1, SMTT(30) DEF AtEnd, TypedSoFar, ReadTo, Code
    <3> QED
      BY <2>2, <2>5, <3>2 DEF Typing
  <2>6. CASE char # 255
    <3>1. /\ Len(issued') = Len(issued) + 1
          /\ issued'[Len(issued) + 1] = Key(char)
          /\ \A i \in 1..Len(issued) : issued'[i] = issued[i]
      <4>1. Key(char) \in Usb
        <5>1. ReadTo + 1 \in 1..Len(task.content)
          BY <1>2, <2>3, <2>4, <2>6, SMTT(30) DEF ReadTo, TypedSoFar
        <5>2. task.content[ReadTo + 1] \in Int
          BY <1>2, <5>1, ElementOfSeq, SMTT(30)
        <5>3. char \in ByteVals
          BY <2>4, <2>6, <5>2, ByteRange DEF Code
        <5> QED
          BY <5>3 DEF Usb
      <4> QED
        BY <1>2, <2>2, <2>6, <4>1, AppendProperties, SMTT(30)
    <3>2. ReadTo' = ReadTo + 1 /\ task.base + (ReadTo + 1) = Len(issued) + 1
      BY <1>2, <2>2, <2>3, <3>1, SMTT(30) DEF ReadTo
    <3>3. ReadTo \in Nat /\ ReadTo + 1 <= Len(task.content)
      BY <1>2, <2>3, <2>4, <2>6, SMTT(30) DEF ReadTo, TypedSoFar
    <3>4. ASSUME NEW i \in 1..ReadTo + 1
          PROVE  issued'[task.base + i] = Key(Code(i)) /\ Code(i) # 255
      <4>1. CASE i = ReadTo + 1
        BY <2>4, <2>6, <3>1, <3>2, <4>1
      <4>2. CASE i # ReadTo + 1
        <5>1. i \in 1..ReadTo /\ task.base + i \in 1..Len(issued)
          BY <1>2, <2>3, <3>3, <4>2, SMTT(30) DEF ReadTo
        <5> QED
          BY <2>3, <3>1, <5>1 DEF TypedSoFar
      <4> QED
        BY <4>1, <4>2
    <3>5. TypedSoFar'
      <4>1. \A i : Code(i)' = Code(i)
        BY <2>2 DEF Code
      <4>2. task.base <= Len(issued')
        BY <1>2, <2>3, <3>1, SMTT(30) DEF TypedSoFar
      <4> QED
        BY <2>2, <3>2, <3>3, <3>4, <4>1, <4>2 DEF TypedSoFar
    <3> QED
      BY <2>2, <2>3, <2>6, <3>2, <3>5 DEF Typing
  <2> QED
    BY <2>5, <2>6
<1>7. ASSUME "file" \in senders, issued' = issued,
             task'.content = task.content, task'.base = task.base
      PROVE  (TypedSoFar' <=> TypedSoFar) /\ (AtEnd' <=> AtEnd) /\ ReadTo' = ReadTo
  BY <1>7, SMTT(30) DEF TypedSoFar, AtEnd, ReadTo, Code
<1>8. ASSUME "file" \in senders, FileLoop PROVE Typing'
  <2>1. /\ task' = task /\ issued' = issued /\ pc["file"] = "slept"
        /\ pc'["file"] = IF Continues THEN "idle" ELSE "closing"
    BY <1>8 DEF FileLoop, Quiet, Advance, Threads
  <2> QED
    BY <1>7, <1>8, <2>1, EndByte DEF Typing, Continues
<1>9. ASSUME "file" \in senders, FileReturn PROVE Typing'
  <2>1. /\ task'.state = "post" /\ issued' = issued /\ pc["file"] = "closing"
        /\ task'.result = IF task.canceled THEN "canceled" ELSE "sent"
        /\ task'.content = task.content /\ task'.base = task.base
        /\ pc'["file"] = "idle" /\ task.state = "sending"
    BY <1>9 DEF FileReturn, Quiet, Advance, Threads, TaskType, Prompt
  <2> QED
    BY <1>7, <1>9, <2>1 DEF Typing
<1>10. ASSUME "file" \in senders, FileFails PROVE Typing'
  <2>1. /\ task'.state = "post" /\ issued' = issued /\ pc'["file"] = "idle"
        /\ task'.result = "exception" /\ task.state = "sending"
        /\ task'.content = task.content /\ task'.base = task.base
    BY <1>10 DEF FileFails, Quiet, Advance, Threads, TaskType
  <2> QED
    BY <1>7, <1>10, <2>1 DEF Typing
<1>11. CASE Cancel
  <2>1. /\ task'.state = task.state /\ issued' = issued /\ pc' = pc
        /\ task'.result = task.result /\ task'.canceled /\ task.state # "null"
        /\ task'.content = task.content /\ task'.base = task.base
        /\ task'.pos = task.pos /\ task'.char = task.char
    BY <1>11 DEF Cancel, Quiet, TaskType
  <2> QED
    BY <1>7, <2>1, SMTT(30) DEF Typing, Prompt
<1>12. CASE onPostExecute
  BY <1>12 DEF onPostExecute, NoTask, Typing
<1>13. ASSUME task' = task, issued' = issued,
              "file" \in senders => \/ pc'["file"] = pc["file"]
                                    \/ pc'["file"] \notin {"idle", "closing"}
       PROVE  Typing'
  BY <1>7, <1>13 DEF Typing, Prompt
<1>14. ASSUME NEW t \in senders,
              sendDelimiter(t) \/ SendType(t) \/ SendPayload(t)
       PROVE  Typing'
  <2>1. /\ task' = task /\ issued' = issued
        /\ "file" \in senders => \/ pc'["file"] = pc["file"]
                                 \/ pc'["file"] \notin {"idle", "closing"}
    BY <1>14 DEF sendDelimiter, SendType, SendPayload, Advance, Unsent, Threads
  <2> QED
    BY <1>13, <2>1
<1>15. CASE LinkLost \/ LinkUp \/ Receive
  BY <1>13, <1>15 DEF LinkLost, LinkUp, Receive
<1> QED
  BY <1>4, <1>5, <1>6, <1>8, <1>9, <1>10, <1>11, <1>12, <1>14, <1>15
  DEF NextDispatcher, FileStep

\* At the end of a file that has no character like the end, all was issued.
LEMMA WholeText ==
  ASSUME Types, TypedSoFar, AtEnd, EndIsUnique(task.content)
  PROVE  ReadTo \in Nat /\ Len(task.content) = ReadTo
<1> DEFINE content == task.content
           n == ReadTo
<1>1. content \in Seq(Nat) /\ Len(content) \in Nat
  BY LenProperties DEF Types, TaskType
<1>2. n \in Nat /\ n <= Len(content)
  BY Lengths, SMTT(30) DEF TypedSoFar, ReadTo, Types, TaskType
<1>3. n = Len(content) \/ (n < Len(content) /\ Byte(content[n + 1]) = Byte(-1))
  BY EndByte DEF AtEnd, Code
<1>4. \A i \in 1..Len(content) : Byte(content[i]) # Byte(-1)
  BY DEF EndIsUnique
<1> HIDE DEF content, n
<1>5. ~(n < Len(content) /\ Byte(content[n + 1]) = Byte(-1))
  <2> SUFFICES ASSUME n < Len(content) PROVE Byte(content[n + 1]) # Byte(-1)
    OBVIOUS
  <2>1. n + 1 \in 1..Len(content)
    BY <1>1, <1>2, SMTT(30)
  <2> QED
    BY <1>4, <2>1
<1> QED
  BY <1>2, <1>3, <1>5 DEF n, content

\* Under the same conditions, and if the user does not type or point while a
\* file is sent: when onPostExecute() says "File sent successfully." and nothing
\* was lost, exactly the characters of the file have been typed, all of them in
\* their order, provided that none has the low byte 255.  (For a file that has
\* one this is false: WholeFileTyped.)
THEOREM SentIsTyped ==
  PlainCommands /\ FileAlone => (SpecDispatcher => []SentMeansTyped)
<1> SUFFICES ASSUME PlainCommands, FileAlone
             PROVE  SpecDispatcher => []SentMeansTyped
  OBVIOUS
<1>1. InitDispatcher => Typing /\ Prompt
  BY SMTT(30) DEF InitDispatcher, NoTask, Typing, Prompt
<1>2. SpecDispatcher => []Typing
  BY <1>1, StepTyping, StepPrompt, TypesAlways, PTL DEF SpecDispatcher
<1>3. Types /\ Exclusive /\ Pipeline /\ Typing => SentMeansTyped
  <2> SUFFICES ASSUME Types, Pipeline, Typing, task.state = "post",
                      task.result = "sent", mark = -1, Idle,
                      EndIsUnique(task.content)
               PROVE  TypedWhole
    BY DEF SentMeansTyped, Reported
  <2> DEFINE text == task.content
             typed == SubSeq(executed, task.base + 1, Len(executed))
             keys == [i \in 1..Len(text) |-> Key(Byte(text[i]))]
  <2>1. TypedSoFar /\ AtEnd
    BY DEF Typing
  <2>2. /\ ReadTo \in Nat /\ Len(text) = ReadTo
        /\ \A i \in 1..ReadTo : text[i] = task.content[i]
    BY <2>1, WholeText DEF text
  <2> HIDE DEF text
  <2>3. /\ Len(issued) \in Nat /\ Len(executed) \in Nat /\ task.base \in Nat
        /\ issued \in Seq(Usb) /\ executed \in Seq(Usb)
    BY Lengths DEF Types, Histories, TaskType
  <2>4. Len(executed) = Len(issued)
    BY PipelineEmpty DEF Executed
  <2>5. \A i \in 1..Len(issued) : executed[i] = issued[i] /\ executed[i] \in Usb
    BY <2>3, <2>4, PipelineOrder, ElementOfSeq DEF Ordered
  <2>6. \A i \in 1..ReadTo : /\ task.base + i \in 1..Len(issued)
                             /\ (task.base + 1) + i - 1 = task.base + i
    BY <2>2, <2>3, SMTT(30) DEF ReadTo
  <2>7. /\ typed \in Seq(Usb) /\ Len(typed) = ReadTo
        /\ \A i \in 1..ReadTo : typed[i] = issued[task.base + i]
    <3>1. /\ task.base + 1 \in Int /\ Len(executed) \in Int
          /\ Len(executed) - (task.base + 1) + 1 = ReadTo
      BY <2>3, <2>4, SMTT(30) DEF ReadTo
    <3>2. \A i \in task.base + 1..Len(executed) : executed[i] \in Usb
      BY <2>3, <2>4, <2>5, SMTT(30)
    <3>3. /\ typed \in Seq(Usb)
          /\ Len(typed) = IF task.base + 1 <= Len(executed) THEN ReadTo ELSE 0
          /\ \A i \in 1..ReadTo : typed[i] = executed[task.base + 1 + i - 1]
      BY <3>1, <3>2, SubSeqProperties, SMTT(30)
    <3>4. ~(task.base + 1 <= Len(executed)) => ReadTo = 0
      BY <2>2, <2>3, <2>4, SMTT(30) DEF ReadTo
    <3> QED
      BY <2>5, <2>6, <3>3, <3>4
  <2> HIDE DEF typed
  <2>8. \A i \in 1..ReadTo : typed[i] = Key(Byte(text[i]))
    BY <2>1, <2>2, <2>7 DEF TypedSoFar, Code
  <2>9. typed = keys
    <3>1. typed = [i \in 1..Len(typed) |-> typed[i]]
      BY <2>7, SeqDef, LenProperties
    <3> QED
      BY <2>2, <2>7, <2>8, <3>1
  <2> QED
    BY <2>9 DEF TypedWhole, typed, text, keys
<1> QED
  BY <1>2, <1>3, PipelineAlways, PTL
=============================================================================
