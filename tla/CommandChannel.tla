--------------------------- MODULE CommandChannel ---------------------------
(***************************************************************************)
(* What the dispatcher, the Bluetooth link and the dongle promise together *)
(* to the user, who sees the commands given and the USB events that come   *)
(* out of the dongle: until something is lost, every command comes out     *)
(* once, as what was asked for, and in the order in which it was given.    *)
(***************************************************************************)
EXTENDS Sequences

CONSTANT Asked   \* the events that a command may ask for

VARIABLES
  pending,  \* the commands given and not yet executed, the oldest first
  output,   \* history: the events that came out
  broken    \* has something been lost?

channel == <<pending, output, broken>>

Init == pending = << >> /\ output = << >> /\ broken = FALSE

Give(event) ==
  /\ ~broken
  /\ pending' = Append(pending, event)
  /\ UNCHANGED <<output, broken>>

Execute ==
  /\ ~broken
  /\ pending # << >>
  /\ output' = Append(output, Head(pending))
  /\ pending' = Tail(pending)
  /\ UNCHANGED broken

\* From here on nothing is promised, and the channel is not looked at.
Break ==
  /\ ~broken
  /\ broken' = TRUE
  /\ pending' = << >>
  /\ output' = << >>

Next == (\E event \in Asked : Give(event)) \/ Execute \/ Break

Spec == Init /\ [][Next]_channel
=============================================================================
