----------------------------- MODULE Dispatcher -----------------------------
(***************************************************************************)
(* DispatcherSingleton.java composed with the firmware: commands become    *)
(* three writes each, the writes of several threads share buffers and one  *)
(* Bluetooth link, and the dongle decodes what arrives.                    *)
(*                                                                         *)
(* A write that finds the service not connected is dropped silently.  The  *)
(* link is reduced to up or down: module WorkerClass has its detail.       *)
(***************************************************************************)
EXTENDS SerialProtocol, Sequences

CONSTANTS
  Scenarios,    \* sets of threads, of "ui", "mouse", "file", that may send
  Chars,        \* UTF-16 code units the user types
  Deltas,       \* <<x, y>> in pixels, as MouseSender clamps them: -127..127
  Files,        \* contents of the files the user may choose
  LinkDrops,    \* may the link be lost?
  Overlap,      \* may two threads be in the middle of a command at once?
  MaxCommands,  \* bound on the commands issued, and executed before a new file
  MaxAir        \* bound on the bytes in the air: a write blocks when full

ASSUME DispatcherAssumption ==
  /\ \A S \in Scenarios : S \subseteq {"ui", "mouse", "file"}
  /\ Chars \subseteq Nat
  /\ Deltas \subseteq (-127..127) \X (-127..127)
  /\ Files \subseteq Seq(Nat)
  /\ LinkDrops \in BOOLEAN
  /\ Overlap \in BOOLEAN
  /\ MaxCommands \in Nat
  /\ MaxAir \in Nat

VARIABLES
  senders,     \* the threads that send in this behaviour, of Scenarios
  keyBytes,    \* the shared buffers
  mouseBytes,
  clickBytes,
  pc,          \* where each sender is in sendKeyboard(), sendMouse(), ...
  kind,        \* which of these it is in
  up,          \* is the service connected?
  air,         \* bytes written and not yet read by the firmware
  mark,        \* history: commands issued up to the last loss, -1 if none
  issued,      \* history: the events the commands issued so far ask for
  executed,    \* history: the events the dongle has produced
  task         \* mActiveSendFileTask and its dialog

buffers  == <<keyBytes, mouseBytes, clickBytes>>
link     == <<up, air, mark>>
varsDispatcher ==
  <<senders, firmware, buffers, pc, kind, link, issued, executed, task>>

\* Mutant: the sign is kept.
ByteSigned(n) == n

\* (byte) of a Java int, as the unsigned value that travels.
Byte(n) == n % 256

LEFT  == 76
RIGHT == 82
DELETE == 178
ENTER  == 176

\* mActiveSendFileTask: its progress through the file, and two histories,
\* the commands issued before it and the characters read after Cancel.
NoTask == [state |-> "null", content |-> << >>, pos |-> 0, char |-> 0,
           canceled |-> FALSE, result |-> "none", base |-> 0, after |-> 0]

InitDispatcher ==
  /\ InitFirmware
  /\ senders \in Scenarios
  /\ keyBytes = <<0>>
  /\ mouseBytes = <<0, 0, 0>>
  /\ clickBytes = <<0>>
  /\ pc = [t \in senders |-> "idle"]
  /\ kind = [t \in senders |-> "key"]
  /\ up = TRUE
  /\ air = << >>
  /\ mark = -1
  /\ issued = << >>
  /\ executed = << >>
  /\ task = NoTask

-----------------------------------------------------------------------------
(* The three writes of a command.                                          *)

\* Mutant: a click is announced as a key.
TypeByteMixed(k) == IF k = "mouse" THEN MOUSE_BEGIN ELSE KEY_BEGIN

TypeByte(k) ==
  CASE k = "key" -> KEY_BEGIN [] k = "mouse" -> MOUSE_BEGIN
    [] k = "click" -> CLICK_BEGIN

\* Mutant: the delimiter is not the byte the firmware waits for.
DELIMITER254 == <<254>>

DELIMITER == <<START_BYTE>>

Payload(k) ==
  CASE k = "key" -> keyBytes [] k = "mouse" -> mouseBytes
    [] k = "click" -> clickBytes

\* sendByte(): checked on every write, silent when not connected.
sendByte(bytes) ==
  /\ up => Len(air) + Len(bytes) <= MaxAir
  /\ air' = IF up THEN air \o bytes ELSE air
  /\ mark' = IF up THEN mark ELSE Len(issued)

Advance(t, from, to) ==
  /\ pc[t] = from
  /\ pc' = [pc EXCEPT ![t] = to]

Unsent == UNCHANGED <<firmware, buffers, kind, up, issued, executed, task>>

sendDelimiter(t) ==
  Advance(t, "delimiter", "type") /\ sendByte(DELIMITER) /\ Unsent

SendType(t) ==
  Advance(t, "type", "payload") /\ sendByte(<<TypeByte(kind[t])>>) /\ Unsent

\* The shared buffer is read here, two writes after it was set.
SendPayload(t) ==
  /\ Advance(t, "payload", IF t = "file" THEN "slept" ELSE "idle")
  /\ sendByte(Payload(kind[t]))
  /\ Unsent

-----------------------------------------------------------------------------
(* Setting the buffers: what each thread asks for.                         *)

\* Nothing in the code keeps the threads apart.  Without Overlap the user does,
\* by touching the track pad and typing one after the other.
MayBegin(t) == Overlap \/ \A u \in senders \ {t} : pc[u] = "idle"

Issue(t, k, event) ==
  /\ MayBegin(t)
  /\ Len(issued) < MaxCommands
  /\ Advance(t, "idle", "delimiter")
  /\ kind' = [kind EXCEPT ![t] = k]
  /\ issued' = Append(issued, event)

\* One character of sendString(), or sendDelete() or sendEnter().
PressKey(code) ==
  /\ Issue("ui", "key", Key(code))
  /\ keyBytes' = <<code>>
  /\ UNCHANGED <<firmware, mouseBytes, clickBytes, link, executed, task>>

\* sendLeftClick() and sendRightClick()
PressButton(button) ==
  /\ Issue("ui", "click", Click)
  /\ clickBytes' = <<button>>
  /\ UNCHANGED <<firmware, keyBytes, mouseBytes, link, executed, task>>

\* MouseSender: setMouseBytes() with the deltas, then sendMouse().
MoveMouse(d) ==
  /\ Issue("mouse", "mouse",
           [kind |-> "move", x |-> d[1], y |-> d[2], wheel |-> 0])
  /\ mouseBytes' = <<Byte(d[1]), Byte(d[2]), 0>>
  /\ UNCHANGED <<firmware, keyBytes, clickBytes, link, executed, task>>

-----------------------------------------------------------------------------
(* sendFile() and SendFileTask                                             *)

Quiet == UNCHANGED <<firmware, buffers, link, kind, issued, executed>>

\* sendFile() on the UI thread; it returns at once while a task is active.
sendFile(content) ==
  /\ "file" \in senders
  /\ task.state = "null"
  /\ Len(issued) + Len(content) <= MaxCommands
  /\ Len(executed) <= MaxCommands
  /\ task' = [NoTask EXCEPT !.state = "sending", !.content = content,
                            !.base = Len(issued)]
  /\ Quiet
  /\ UNCHANGED pc

\* Mutant: the first character is skipped.
ReadSkipping(content, pos) ==
  IF pos + 1 < Len(content) THEN Byte(content[pos + 2]) ELSE Byte(-1)

\* (byte) fr.read(): the end of the file is -1, the byte 255.
Read(content, pos) ==
  IF pos < Len(content) THEN Byte(content[pos + 1]) ELSE Byte(-1)

\* The loop's body up to sendKeyboard(); end of file is sent like the rest.
FileRead ==
  LET char == Read(task.content, task.pos)
  IN /\ task.state = "sending"
     /\ MayBegin("file")
     /\ Advance("file", "idle", "delimiter")
     /\ task' = [task EXCEPT !.pos = @ + 1, !.char = char,
                             !.after = IF task.canceled THEN @ + 1 ELSE @]
     /\ keyBytes' = <<char>>
     /\ kind' = [kind EXCEPT !["file"] = "key"]
     /\ issued' = IF char = Byte(-1) THEN issued ELSE Append(issued, Key(char))
     /\ UNCHANGED <<firmware, mouseBytes, clickBytes, link, executed>>

\* Mutant: the loop does not look at the Cancel button.
ContinuesAnyway == task.char # Byte(-1)

Continues == ~task.canceled /\ task.char # Byte(-1)

\* The loop's condition, after the sleep.
FileLoop ==
  /\ Advance("file", "slept", IF Continues THEN "idle" ELSE "closing")
  /\ Quiet
  /\ UNCHANGED task

\* doInBackground() returns; canceled is read a second time.
FileReturn ==
  /\ Advance("file", "closing", "idle")
  /\ task' = [task EXCEPT !.state = "post",
                 !.result = IF task.canceled THEN "canceled" ELSE "sent"]
  /\ Quiet

\* The file cannot be opened or read.
FileFails ==
  /\ task.state = "sending"
  /\ Advance("file", "idle", "idle")
  /\ task' = [task EXCEPT !.state = "post", !.result = "exception"]
  /\ Quiet

\* The Cancel button of the dialog, which stays until onPostExecute().
Cancel ==
  /\ task.state # "null"
  /\ task' = [task EXCEPT !.canceled = TRUE]
  /\ Quiet
  /\ UNCHANGED pc

onPostExecute ==
  /\ task.state = "post"
  /\ task' = NoTask
  /\ Quiet
  /\ UNCHANGED pc

-----------------------------------------------------------------------------
(* The link and the dongle.                                                *)

\* Bytes still in the air are lost with the link.
LinkLost ==
  /\ LinkDrops /\ up
  /\ up' = FALSE
  /\ air' = << >>
  /\ mark' = IF air = << >> THEN mark ELSE Len(issued)
  /\ UNCHANGED <<firmware, buffers, pc, kind, issued, executed, task>>

LinkUp ==
  /\ ~up
  /\ up' = TRUE
  /\ UNCHANGED <<firmware, buffers, pc, kind, air, mark, issued, executed, task>>

Receive ==
  /\ air # << >>
  /\ Loop(Head(air))
  /\ air' = Tail(air)
  /\ executed' = IF UsbEvent(out') = Nothing THEN executed
                 ELSE Append(executed, out')
  /\ UNCHANGED <<buffers, pc, kind, up, mark, issued, task>>

-----------------------------------------------------------------------------

UiStep ==
  /\ "ui" \in senders
  /\ \/ \E c \in {Byte(c) : c \in Chars} \cup {DELETE, ENTER} : PressKey(c)
     \/ \E button \in {LEFT, RIGHT} : PressButton(button)

FileStep ==
  /\ "file" \in senders
  /\ FileRead \/ FileLoop \/ FileReturn \/ FileFails

NextDispatcher ==
  /\ UNCHANGED senders
  /\ \/ UiStep
     \/ "mouse" \in senders /\ \E d \in Deltas : MoveMouse(d)
     \/ \E f \in Files : sendFile(f)
     \/ FileStep
     \/ Cancel
     \/ onPostExecute
     \/ \E t \in senders : sendDelimiter(t) \/ SendType(t) \/ SendPayload(t)
     \/ LinkLost
     \/ LinkUp
     \/ Receive

SpecDispatcher == InitDispatcher /\ [][NextDispatcher]_varsDispatcher

-----------------------------------------------------------------------------
(* Properties                                                              *)

\* The types of the dispatcher's fields: what is written is always a byte.
TypeOKDispatcher ==
  /\ senders \in Scenarios
  /\ keyBytes \in [1..1 -> 0..255]
  /\ mouseBytes \in [1..3 -> 0..255]
  /\ clickBytes \in [1..1 -> 0..255]
  /\ pc \in [senders -> {"idle", "delimiter", "type", "payload", "slept",
                         "closing"}]
  /\ kind \in [senders -> {"key", "mouse", "click"}]
  /\ up \in BOOLEAN
  /\ air \in Seq(0..255)
  /\ mark \in -1..Len(issued)
  /\ task.state \in {"null", "sending", "post"}
  /\ task.result \in {"none", "sent", "canceled", "exception"}

\* The events that the user's keys, buttons, movements and files may ask for.
Asked ==
  {Key(c) : c \in {Byte(c) : c \in Chars} \cup {DELETE, ENTER}} \cup {Click}
    \cup {[kind |-> "move", x |-> d[1], y |-> d[2], wheel |-> 0] : d \in Deltas}
    \cup UNION {{Key(Byte(f[i])) : i \in 1..Len(f)} : f \in Files}

\* The commands on their way, and the events that came out of the dongle.
Waiting ==
  IF mark = -1 THEN SubSeq(issued, Len(executed) + 1, Len(issued)) ELSE << >>
Output == IF mark = -1 THEN executed ELSE << >>

Channel == INSTANCE CommandChannel
             WITH pending <- Waiting, output <- Output, broken <- mark # -1

\* As long as threads do not overlap, the dispatcher, the link and the dongle are
\* one channel: no step of theirs drops, repeats or reorders a command, until
\* bytes are lost.
IsChannel == Channel!Spec

Idle == air = << >> /\ \A t \in senders : pc[t] = "idle"

\* As long as threads do not overlap, wherever a loss cut a command and whatever
\* the firmware made of the pieces, every command begun after the last loss is
\* executed, and nothing else comes between them or after them.
RecoversAfterLoss ==
  Idle => LET n == Len(issued) - (IF mark = -1 THEN 0 ELSE mark)
              latest(s) == SubSeq(s, Len(s) - n + 1, Len(s))
          IN n <= Len(executed) /\ latest(executed) = latest(issued)

\* onPostExecute() says "File sent successfully." and everything that was sent
\* has arrived.
Reported == task.state = "post" /\ task.result = "sent" /\ mark = -1 /\ Idle

\* Since doInBackground() began, the dongle has typed the characters of the
\* file, each by its low byte, and nothing else.
TypedWhole ==
  SubSeq(executed, task.base + 1, Len(executed))
    = [i \in 1..Len(task.content) |-> Key(Byte(task.content[i]))]

\* Does the loop's own comparison, charToSend != (int) -1, tell every character
\* of this file from its end?
EndIsUnique(content) == \A i \in 1..Len(content) : Byte(content[i]) # Byte(-1)

\* A file without a character that the loop would take for the end is typed
\* whole, in order and without anything else, before success is reported; the
\* end of the file itself types nothing.
SentMeansTyped == Reported /\ EndIsUnique(task.content) => TypedWhole

\* "Send it" is documented as "to type it out via the keyboard as if you'd typed
\* the whole thing": whatever the file, success means that all of it was typed.
WholeFileTyped == Reported => TypedWhole

\* After Cancel, SendFileTask reads and sends at most one more character.
CancelIsPrompt == task.after <= 1

\* "If one of our methods does not begin with 255, we know we dropped a
\* byte": the firmware reports an error only if a byte was dropped.
ErrorMeansLoss == out.kind = "error" => mark # -1
=============================================================================
