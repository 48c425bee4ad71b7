--------------------------- MODULE SerialProtocol ---------------------------
(***************************************************************************)
(* The firmware of the dongle (SerialProtocol/SerialProtocol.ino): a state *)
(* machine that loop() feeds one byte of Serial1 at a time and that turns  *)
(* commands into USB keyboard and mouse events.                            *)
(*                                                                         *)
(* The sketch reads a byte into a plain char before it compares it with    *)
(* START_BYTE, so what it does depends on the build, and the repository    *)
(* fixes none: CharSigned says whether plain char is signed (avr-gcc       *)
(* without options, the compiler of the Leonardo that the repository's     *)
(* README names) or unsigned (-funsigned-char).  Only where it is unsigned *)
(* can START_BYTE be recognised at all.                                    *)
(***************************************************************************)
EXTENDS Integers

CONSTANTS
  Bytes,       \* the bytes that may arrive
  CharSigned   \* is plain char signed in this build?

ASSUME BytesAssumption == Bytes \subseteq 0..255
ASSUME CharAssumption == CharSigned \in BOOLEAN

START_BYTE  == 255
CLICK_BEGIN == 67
KEY_BEGIN   == 75
MOUSE_BEGIN == 77

VARIABLES
  currentState,
  mouseX,        \* held until the mouse command is complete
  mouseY,
  out,           \* what the last loop() did: a USB event, an error, nothing
  size,          \* history: how many bytes came since the last START_BYTE
  frame          \* history: the first four of them

firmware == <<currentState, mouseX, mouseY, out, size, frame>>

DecoderStates == {"WAIT_FOR_START", "STARTED", "CLICK_GET_0", "KEY_GET_0",
                  "MOUSE_GET_0", "MOUSE_GET_1", "MOUSE_GET_2"}

\* The value of (int) inChar for a byte b, and of an int passed to the
\* signed char parameters of Mouse.move().
IntVal(b) == IF CharSigned /\ b > 127 THEN b - 256 ELSE b

\* Mutant: a delta above 127 is passed on as it is.
UnsignedChar(n) == n

SignedChar(n) == IF n > 127 THEN n - 256 ELSE n

Nothing       == [kind |-> "nothing"]
Click         == [kind |-> "click"]
Key(b)        == [kind |-> "key", code |-> b]
Move(x, y, w) == [kind |-> "move", x |-> SignedChar(x), y |-> SignedChar(y),
                  wheel |-> SignedChar(w)]
Error(at, n)  == [kind |-> "error", location |-> at, val |-> n]

Events ==
  {Nothing, Click} \cup {Key(b) : b \in Bytes}
    \cup [kind : {"move"}, x : -128..127, y : -128..127, wheel : -128..127]
    \cup [kind : {"error"}, location : {0, 5, 10}, val : -128..255]

\* No command has five bytes, so TooLong stands for every larger size and for
\* bytes without a START_BYTE; Unread says that nothing has been read at all.
TooLong == 5
Unread  == 6
NoFrame == [i \in 1..4 |-> -1]

\* The history after a byte b.
SizeAfter(b) ==
  IF b = START_BYTE THEN 0 ELSE IF size < TooLong THEN size + 1 ELSE TooLong
FrameAfter(b) ==
  IF b = START_BYTE THEN NoFrame
  ELSE IF size < 4 THEN [frame EXCEPT ![size + 1] = b] ELSE frame

InitFirmware ==
  /\ currentState = "WAIT_FOR_START"
  /\ mouseX = 0
  /\ mouseY = 0
  /\ out = Nothing
  /\ size = Unread
  /\ frame = NoFrame

-----------------------------------------------------------------------------
(* loop(), one alternative per branch.  n is intVal.                       *)

Goto(state, event) ==
  /\ currentState' = state
  /\ out' = event

\* printError() always returns to WAIT_FOR_START (the mutant does not).
printErrorInPlace(location, n) == Goto(currentState, Error(location, n))

printError(location, n) == Goto("WAIT_FOR_START", Error(location, n))

KeepMouse == UNCHANGED <<mouseX, mouseY>>

\* Mutant: two cases of the inner switch are swapped.
BeginSwapped(n) ==
  \/ n = CLICK_BEGIN /\ Goto("KEY_GET_0", Nothing)
  \/ n = KEY_BEGIN   /\ Goto("CLICK_GET_0", Nothing)
  \/ n = MOUSE_BEGIN /\ Goto("MOUSE_GET_0", Nothing)
  \/ /\ n \notin {CLICK_BEGIN, KEY_BEGIN, MOUSE_BEGIN}
     /\ printError(5, n)

\* The byte after START_BYTE chooses the command.
Begin(n) ==
  \/ n = CLICK_BEGIN /\ Goto("CLICK_GET_0", Nothing)
  \/ n = KEY_BEGIN   /\ Goto("KEY_GET_0", Nothing)
  \/ n = MOUSE_BEGIN /\ Goto("MOUSE_GET_0", Nothing)
  \/ /\ n \notin {CLICK_BEGIN, KEY_BEGIN, MOUSE_BEGIN}
     /\ printError(5, n)

\* Any other byte that is not START_BYTE.
Dispatch(b, n) ==
  \/ currentState = "WAIT_FOR_START" /\ printError(0, n) /\ KeepMouse
  \/ currentState = "STARTED" /\ Begin(n) /\ KeepMouse
  \/ currentState = "CLICK_GET_0" /\ Goto("WAIT_FOR_START", Click) /\ KeepMouse
  \/ currentState = "KEY_GET_0" /\ Goto("WAIT_FOR_START", Key(b)) /\ KeepMouse
  \/ /\ currentState = "MOUSE_GET_0"
     /\ mouseX' = n
     /\ Goto("MOUSE_GET_1", Nothing)
     /\ UNCHANGED mouseY
  \/ /\ currentState = "MOUSE_GET_1"
     /\ mouseY' = n
     /\ Goto("MOUSE_GET_2", Nothing)
     /\ UNCHANGED mouseX
  \/ /\ currentState = "MOUSE_GET_2"
     /\ Goto("WAIT_FOR_START", Move(mouseX, mouseY, n))
     /\ mouseX' = 0
     /\ mouseY' = 0

\* Any time START_BYTE arrives the machine starts over.
Restart(n) == n = START_BYTE /\ Goto("STARTED", Nothing) /\ KeepMouse

Loop(b) ==
  /\ Restart(IntVal(b)) \/ (IntVal(b) # START_BYTE /\ Dispatch(b, IntVal(b)))
  /\ size' = SizeAfter(b)
  /\ frame' = FrameAfter(b)

NextFirmware == \E b \in Bytes : Loop(b)

SpecFirmware == InitFirmware /\ [][NextFirmware]_firmware

-----------------------------------------------------------------------------
(* Properties                                                              *)

\* The types of the sketch's globals; in particular loop() never reaches the
\* default case of its switch, and Mouse.move() gets signed chars.
TypeOKFirmware ==
  /\ currentState \in DecoderStates
  /\ mouseX \in -128..255
  /\ mouseY \in -128..255
  /\ out \in Events
  /\ size \in 0..6
  /\ frame \in [1..4 -> -1..255]

\* The command that n bytes f after a START_BYTE have just completed.
Command(n, f) ==
  CASE n = 2 /\ f[1] = CLICK_BEGIN -> Click
    [] n = 2 /\ f[1] = KEY_BEGIN   -> Key(f[2])
    [] n = 4 /\ f[1] = MOUSE_BEGIN -> Move(f[2], f[3], f[4])
    [] OTHER                       -> Nothing

UsbEvent(event) == IF event.kind = "error" THEN Nothing ELSE event

\* loop() acts exactly when the bytes since the last START_BYTE are a whole
\* command, and does what that command says, whatever garbage, abandoned
\* command or error came before.
DecodesFrames == UsbEvent(out) = Command(size, frame)

ValidPrefix(n, f) ==
  \/ n = 0
  \/ f[1] \in {CLICK_BEGIN, KEY_BEGIN} /\ n <= 2
  \/ f[1] = MOUSE_BEGIN /\ n <= 4

\* printError() is called exactly for a byte that cannot belong to a command.
ReportsJunk ==
  size # Unread => (out.kind = "error" <=> ~ValidPrefix(size, frame))

\* loop() says "Any time we receive START_BYTE, start over".
StartsOver == size = 0 => currentState = "STARTED"
=============================================================================
