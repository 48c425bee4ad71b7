------------------------ MODULE SerialProtocolProofs ------------------------
(***************************************************************************)
(* Proofs about the firmware for every stream of bytes: its types in any   *)
(* build, what it decodes in a build where plain char is unsigned.         *)
(***************************************************************************)
EXTENDS SerialProtocol, TLAPS

\* A leaf goes to the SMT solver unless it names another prover.
USE SMTT(30)

\* The types the argument needs.
FrameType ==
  /\ size \in 0..6
  /\ frame \in [1..4 -> -1..255]
  /\ currentState \in DecoderStates

\* An unfinished command: more bytes may complete it.
Unfinished(n, f) ==
  \/ n = 0
  \/ n = 1 /\ f[1] \in {CLICK_BEGIN, KEY_BEGIN}
  \/ n \in {1, 2, 3} /\ f[1] = MOUSE_BEGIN

\* currentState, mouseX and mouseY are a summary of the bytes since the last
\* START_BYTE; in WAIT_FOR_START those bytes belong to no unfinished command.
FrameMatches ==
  /\ currentState = "WAIT_FOR_START" => ~Unfinished(size, frame)
  /\ currentState = "STARTED" => size = 0
  /\ currentState = "CLICK_GET_0" => size = 1 /\ frame[1] = CLICK_BEGIN
  /\ currentState = "KEY_GET_0" => size = 1 /\ frame[1] = KEY_BEGIN
  /\ currentState = "MOUSE_GET_0" => size = 1 /\ frame[1] = MOUSE_BEGIN
  /\ currentState = "MOUSE_GET_1" =>
       size = 2 /\ frame[1] = MOUSE_BEGIN /\ mouseX = frame[2]
  /\ currentState = "MOUSE_GET_2" =>
       /\ size = 3 /\ frame[1] = MOUSE_BEGIN
       /\ mouseX = frame[2] /\ mouseY = frame[3]

\* The inductive invariant: what loop() did last is right because the state
\* it did it in matched the bytes it had read.
FInv == FrameType /\ FrameMatches /\ DecodesFrames /\ ReportsJunk

\* The firmware starts in the invariant: nothing was read, nothing was done.
LEMMA InitFirmwareHolds == InitFirmware => FInv
<1> SUFFICES ASSUME InitFirmware PROVE FInv
  OBVIOUS
<1>1. FrameType
  BY DEF InitFirmware, FrameType, NoFrame, Unread, DecoderStates
<1>2. FrameMatches
  BY DEF InitFirmware, FrameMatches, Unfinished, Unread
<1>3. DecodesFrames
  BY DEF InitFirmware, DecodesFrames, UsbEvent, Command, Nothing, Unread
<1>4. ReportsJunk
  BY DEF InitFirmware, ReportsJunk
<1> QED
  BY <1>1, <1>2, <1>3, <1>4 DEF FInv

\* The history keeps its type, whatever byte arrives.
LEMMA HistoryType ==
  ASSUME FrameType, NEW b \in Bytes
  PROVE  SizeAfter(b) \in 0..5 /\ FrameAfter(b) \in [1..4 -> -1..255]
BY BytesAssumption DEF FrameType, SizeAfter, FrameAfter, NoFrame, TooLong

\* loop() preserves the invariant for every byte.
LEMMA LoopPreserves ==
  ASSUME ~CharSigned, FInv, NEW b \in Bytes, Loop(b)
  PROVE  FInv'
<1> USE DEF FInv, START_BYTE, CLICK_BEGIN, KEY_BEGIN, MOUSE_BEGIN
<1>1. IntVal(b) = b /\ b \in 0..255
  BY BytesAssumption DEF IntVal
<1>2. /\ size' = SizeAfter(b) /\ frame' = FrameAfter(b)
      /\ size' \in 0..5 /\ frame' \in [1..4 -> -1..255]
  BY HistoryType DEF Loop
<1>3. CASE b = START_BYTE
  <2>1. size' = 0 /\ currentState' = "STARTED" /\ out' = Nothing
    BY <1>1, <1>2, <1>3 DEF Loop, Restart, Goto, SizeAfter
  <2>2. FrameType' /\ FrameMatches'
    BY <1>2, <2>1 DEF FrameType, FrameMatches, DecoderStates
  <2>3. DecodesFrames' /\ ReportsJunk'
    BY <2>1 DEF DecodesFrames, ReportsJunk, UsbEvent, Command, Nothing,
       ValidPrefix
  <2> QED
    BY <2>2, <2>3
<1>4. CASE b # START_BYTE
  <2>1. Dispatch(b, b)
    BY <1>1, <1>4 DEF Loop, Restart
  <2>2. /\ size' = IF size < 5 THEN size + 1 ELSE 5
        /\ frame' = IF size < 4 THEN [frame EXCEPT ![size + 1] = b] ELSE frame
    BY <1>2, <1>4 DEF SizeAfter, FrameAfter, TooLong
  <2>3. CASE currentState = "WAIT_FOR_START"
    <3>1. /\ ~Unfinished(size', frame')
          /\ ~ValidPrefix(size', frame')
          /\ Command(size', frame') = Nothing
      BY <2>2, <2>3 DEF FrameMatches, FrameType, Unfinished,
         ValidPrefix, Command
    <3>2. currentState' = "WAIT_FOR_START" /\ out' = Error(0, b)
      BY <2>1, <2>3 DEF Dispatch, printError, Goto
    <3>3. FrameType' /\ FrameMatches'
      BY <1>2, <3>1, <3>2 DEF FrameType, FrameMatches, DecoderStates
    <3>4. DecodesFrames' /\ ReportsJunk'
      BY <1>2, <3>1, <3>2 DEF DecodesFrames, ReportsJunk, UsbEvent, Error
    <3> QED
      BY <3>3, <3>4
  <2>4. CASE currentState = "STARTED"
    <3>1. size' = 1 /\ frame'[1] = b
      BY <2>2, <2>4 DEF FrameMatches, FrameType
    <3>2. \/ /\ b = CLICK_BEGIN
             /\ currentState' = "CLICK_GET_0" /\ out' = Nothing
          \/ /\ b = KEY_BEGIN
             /\ currentState' = "KEY_GET_0" /\ out' = Nothing
          \/ /\ b = MOUSE_BEGIN
             /\ currentState' = "MOUSE_GET_0" /\ out' = Nothing
          \/ /\ b \notin {CLICK_BEGIN, KEY_BEGIN, MOUSE_BEGIN}
             /\ currentState' = "WAIT_FOR_START" /\ out' = Error(5, b)
      BY <2>1, <2>4 DEF Dispatch, Begin, printError, Goto
    <3>3. FrameType' /\ FrameMatches'
      BY <1>2, <3>1, <3>2 DEF FrameType, FrameMatches, DecoderStates, Unfinished
    <3>4. DecodesFrames' /\ ReportsJunk'
      BY <1>2, <3>1, <3>2 DEF DecodesFrames, ReportsJunk, UsbEvent, Command,
         ValidPrefix, Nothing, Click, Key, Move, Error
    <3> QED
      BY <3>3, <3>4
  <2>5. CASE currentState = "CLICK_GET_0"
    <3>1. size' = 2 /\ frame'[1] = CLICK_BEGIN /\ frame'[2] = b
      BY <2>2, <2>5 DEF FrameMatches, FrameType
    <3>2. currentState' = "WAIT_FOR_START" /\ out' = Click
      BY <2>1, <2>5 DEF Dispatch, Goto
    <3>3. FrameType' /\ FrameMatches'
      BY <1>2, <3>1, <3>2 DEF FrameType, FrameMatches, DecoderStates, Unfinished
    <3>4. DecodesFrames' /\ ReportsJunk'
      BY <1>2, <3>1, <3>2 DEF DecodesFrames, ReportsJunk, UsbEvent, Command,
         ValidPrefix, Nothing, Click, Key, Move, Error
    <3> QED
      BY <3>3, <3>4
  <2>6. CASE currentState = "KEY_GET_0"
    <3>1. size' = 2 /\ frame'[1] = KEY_BEGIN /\ frame'[2] = b
      BY <2>2, <2>6 DEF FrameMatches, FrameType
    <3>2. currentState' = "WAIT_FOR_START" /\ out' = Key(b)
      BY <2>1, <2>6 DEF Dispatch, Goto
    <3>3. FrameType' /\ FrameMatches'
      BY <1>2, <3>1, <3>2 DEF FrameType, FrameMatches, DecoderStates, Unfinished
    <3>4. DecodesFrames' /\ ReportsJunk'
      BY <1>2, <3>1, <3>2 DEF DecodesFrames, ReportsJunk, UsbEvent, Command,
         ValidPrefix, Nothing, Click, Key, Move, Error
    <3> QED
      BY <3>3, <3>4
  <2>7. CASE currentState = "MOUSE_GET_0"
    <3>1. size' = 2 /\ frame'[1] = MOUSE_BEGIN /\ frame'[2] = b
      BY <2>2, <2>7 DEF FrameMatches, FrameType
    <3>2. currentState' = "MOUSE_GET_1" /\ out' = Nothing /\ mouseX' = b
      BY <2>1, <2>7 DEF Dispatch, Goto
    <3>3. FrameType' /\ FrameMatches'
      BY <1>2, <3>1, <3>2 DEF FrameType, FrameMatches, DecoderStates, Unfinished
    <3>4. DecodesFrames' /\ ReportsJunk'
      BY <1>2, <3>1, <3>2 DEF DecodesFrames, ReportsJunk, UsbEvent, Command,
         ValidPrefix, Nothing, Click, Key, Move, Error
    <3> QED
      BY <3>3, <3>4
  <2>8. CASE currentState = "MOUSE_GET_1"
    <3>1. /\ size' = 3 /\ frame'[1] = MOUSE_BEGIN
          /\ frame'[2] = mouseX /\ frame'[3] = b
      BY <2>2, <2>8 DEF FrameMatches, FrameType
    <3>2. /\ currentState' = "MOUSE_GET_2" /\ out' = Nothing
          /\ mouseX' = mouseX /\ mouseY' = b
      BY <2>1, <2>8 DEF Dispatch, Goto
    <3>3. FrameType' /\ FrameMatches'
      BY <1>2, <3>1, <3>2 DEF FrameType, FrameMatches, DecoderStates, Unfinished
    <3>4. DecodesFrames' /\ ReportsJunk'
      BY <1>2, <3>1, <3>2 DEF DecodesFrames, ReportsJunk, UsbEvent, Command,
         ValidPrefix, Nothing, Click, Key, Move, Error
    <3> QED
      BY <3>3, <3>4
  <2>9. CASE currentState = "MOUSE_GET_2"
    <3>1. /\ size' = 4 /\ frame'[1] = MOUSE_BEGIN
          /\ frame'[2] = mouseX /\ frame'[3] = mouseY /\ frame'[4] = b
      BY <2>2, <2>9 DEF FrameMatches, FrameType
    <3>2. /\ currentState' = "WAIT_FOR_START"
          /\ out' = Move(mouseX, mouseY, b)
      BY <2>1, <2>9 DEF Dispatch, Goto
    <3>3. FrameType' /\ FrameMatches'
      BY <1>2, <3>1, <3>2 DEF FrameType, FrameMatches, DecoderStates, Unfinished
    <3>4. DecodesFrames' /\ ReportsJunk'
      BY <1>2, <3>1, <3>2 DEF DecodesFrames, ReportsJunk, UsbEvent, Command,
         ValidPrefix, Nothing, Click, Key, Move, Error
    <3> QED
      BY <3>3, <3>4
  <2> QED
    BY <2>3, <2>4, <2>5, <2>6, <2>7, <2>8, <2>9 DEF FrameType, DecoderStates
<1> QED
  BY <1>3, <1>4

\* With unsigned char the inductive invariant holds for every byte stream.
THEOREM FirmwareInvariance == ~CharSigned => (SpecFirmware => []FInv)
<1> SUFFICES ASSUME ~CharSigned PROVE SpecFirmware => []FInv
  OBVIOUS
<1>1. FInv /\ UNCHANGED firmware => FInv'
  BY DEF FInv, firmware, FrameType, FrameMatches, Unfinished, DecodesFrames,
     ReportsJunk, Command, ValidPrefix
<1>2. FInv /\ [NextFirmware]_firmware => FInv'
  BY <1>1, LoopPreserves DEF NextFirmware
<1> QED
  BY <1>2, InitFirmwareHolds, PTL DEF SpecFirmware

\* With unsigned char loop() executes exactly the whole commands of every byte
\* stream, whatever garbage comes between them.
THEOREM FirmwareDecodes == ~CharSigned => (SpecFirmware => []DecodesFrames)
<1>1. FInv => DecodesFrames
  BY DEF FInv
<1> QED
  BY <1>1, FirmwareInvariance, PTL

\* With unsigned char loop() calls printError() exactly for the bytes that
\* cannot belong to a command.
THEOREM FirmwareReports == ~CharSigned => (SpecFirmware => []ReportsJunk)
<1>1. FInv => ReportsJunk
  BY DEF FInv
<1> QED
  BY <1>1, FirmwareInvariance, PTL

-----------------------------------------------------------------------------
(* Types, in either build.                                                 *)

\* intVal is what a signed or an unsigned char can be, and the parameters of
\* Mouse.move() are signed chars.
LEMMA CharRanges ==
  /\ \A b \in Bytes : IntVal(b) \in -128..255
  /\ \A n \in -128..255 : SignedChar(n) \in -128..127
BY BytesAssumption DEF IntVal, SignedChar

\* Each of the five events loop() can cause is one of Events.
LEMMA EventTypes ==
  /\ Nothing \in Events /\ Click \in Events
  /\ \A b \in Bytes : Key(b) \in Events
  /\ \A at \in {0, 5, 10}, n \in -128..255 : Error(at, n) \in Events
  /\ \A x, y, w \in -128..255 : Move(x, y, w) \in Events
<1>1. Nothing \in Events /\ Click \in Events
  BY DEF Events
<1>2. \A b \in Bytes : Key(b) \in Events
  BY DEF Events
<1>3. \A at \in {0, 5, 10}, n \in -128..255 : Error(at, n) \in Events
  BY DEF Events, Error
<1>4. \A x, y, w \in -128..255 : Move(x, y, w) \in Events
  <2> SUFFICES ASSUME NEW x \in -128..255, NEW y \in -128..255,
                      NEW w \in -128..255
               PROVE  Move(x, y, w) \in Events
    BY ZenonT(30)
  <2>1. /\ SignedChar(x) \in -128..127 /\ SignedChar(y) \in -128..127
        /\ SignedChar(w) \in -128..127
    BY CharRanges, ZenonT(30)
  <2> QED
    BY <2>1 DEF Events, Move
<1> QED
  BY <1>1, <1>2, <1>3, <1>4, ZenonT(30)

\* loop() keeps the types of the sketch's globals, whatever byte arrives.
LEMMA LoopType ==
  ASSUME TypeOKFirmware, NEW b \in Bytes, Loop(b)
  PROVE  TypeOKFirmware'
<1> DEFINE n == IntVal(b)
<1>1. n \in -128..255
  BY CharRanges, ZenonT(30)
<1>2. size' \in 0..6 /\ frame' \in [1..4 -> -1..255]
  BY HistoryType DEF Loop, TypeOKFirmware, FrameType
<1> HIDE DEF n
<1>3. Restart(n) \/ Dispatch(b, n)
  BY DEF Loop, n
<1>4. currentState' \in DecoderStates
  BY <1>3 DEF Restart, Dispatch, Begin, printError, Goto, DecoderStates
<1>5. mouseX' \in -128..255 /\ mouseY' \in -128..255
  BY <1>1, <1>3 DEF Restart, Dispatch, KeepMouse, TypeOKFirmware
<1>6. \/ out' \in {Nothing, Click, Key(b), Error(0, n), Error(5, n)}
      \/ out' = Move(mouseX, mouseY, n)
  BY <1>3 DEF Restart, Dispatch, Begin, printError, Goto
<1>7. out' \in Events
  <2>1. CASE out' \in {Nothing, Click, Key(b)}
    BY <2>1, EventTypes, ZenonT(30)
  <2>2. CASE out' \in {Error(0, n), Error(5, n)}
    <3>1. Error(0, n) \in Events /\ Error(5, n) \in Events
      BY <1>1, EventTypes, ZenonT(30)
    <3> QED
      BY <2>2, <3>1, ZenonT(30)
  <2>3. CASE out' = Move(mouseX, mouseY, n)
    <3>1. mouseX \in -128..255 /\ mouseY \in -128..255
      BY DEF TypeOKFirmware
    <3> QED
      BY <1>1, <2>3, <3>1, EventTypes, ZenonT(30)
  <2> QED
    BY <1>6, <2>1, <2>2, <2>3
<1> QED
  BY <1>2, <1>4, <1>5, <1>7 DEF TypeOKFirmware

\* Whether or not plain char is signed, loop() stays in the states its switch
\* names and Mouse.move() gets numbers that fit its parameters.
THEOREM FirmwareTypes == SpecFirmware => []TypeOKFirmware
<1>1. InitFirmware => TypeOKFirmware
  <2> SUFFICES ASSUME InitFirmware PROVE TypeOKFirmware
    OBVIOUS
  <2>1. out \in Events
    BY EventTypes, ZenonT(30) DEF InitFirmware
  <2>2. frame \in [1..4 -> -1..255] /\ currentState \in DecoderStates
    BY DEF InitFirmware, NoFrame, DecoderStates
  <2> QED
    BY <2>1, <2>2 DEF InitFirmware, TypeOKFirmware, Unread
<1>2. TypeOKFirmware /\ [NextFirmware]_firmware => TypeOKFirmware'
  <2>1. TypeOKFirmware /\ UNCHANGED firmware => TypeOKFirmware'
    BY DEF TypeOKFirmware, firmware
  <2> QED
    BY <2>1, LoopType DEF NextFirmware
<1> QED
  BY <1>1, <1>2, PTL DEF SpecFirmware
=============================================================================
