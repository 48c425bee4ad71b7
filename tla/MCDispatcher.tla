---------------------------- MODULE MCDispatcher ----------------------------
(* Instances of Dispatcher: deltas and files, which a cfg cannot write.    *)
EXTENDS Dispatcher

AllBytes    == 0..255
PlainDeltas == {<<-3, 75>>}
UnitDeltas  == {<<-1, 75>>, <<5, 0>>}
NoFiles     == {}

\* An empty file, one with a character above 255, and one with the character
\* 255, whose byte is the end of the file.
SomeFiles   == {<< >>, <<75, 353>>, <<97, 255, 98>>}
=============================================================================
