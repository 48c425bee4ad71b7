----------------------------- MODULE RingBuffer -----------------------------
(***************************************************************************)
(* LUFA/Drivers/Misc/RingBuffer.h: the ring buffer that an interrupt       *)
(* service routine and the main program share, one inserting and the other *)
(* removing.  Pointers are offsets from Start.  Count is the only field    *)
(* both sides write, and the code writes it with interrupts off; between   *)
(* moving its own pointer and updating Count either side can be            *)
(* interrupted, so an operation is two steps.  (That a byte is stored and  *)
(* the pointer moved in one step loses nothing: the other side reads       *)
(* neither pointer nor, while the buffer is not overrun, that byte.)       *)
(***************************************************************************)
EXTENDS Naturals

CONSTANTS
    Data,        \* the bytes
    Size,        \* bytes in the underlying array
    MaxBytes     \* bound: bytes inserted in one behaviour

ASSUME RingBufferAssumption ==
    /\ Size \in Nat \ {0} /\ MaxBytes \in Nat /\ Data # {}

VARIABLES
    In, Out,     \* the pointers
    Count,       \* number of bytes stored
    array,       \* the underlying storage
    inserting,   \* 1 between moving In and incrementing Count, else 0
    removing,    \* 1 between moving Out and decrementing Count, else 0
    got,         \* the byte the last removal read
    log,         \* history: every byte inserted, by its number
    nin, nout    \* history: bytes stored, bytes read

ringVars == <<In, Out, Count, array, inserting, removing, got, log, nin, nout>>

RingTypeOK ==
    /\ In \in 0..Size - 1 /\ Out \in 0..Size - 1
    /\ Count \in 0..Size
    /\ array \in [0..Size - 1 -> Data]
    /\ inserting \in {0, 1} /\ removing \in {0, 1}
    /\ got \in Data
    /\ log \in [0..MaxBytes - 1 -> Data]
    /\ nin \in 0..MaxBytes /\ nout \in 0..MaxBytes

InitBuffer ==
    /\ In = 0 /\ Out = 0 /\ Count = 0
    /\ array \in [0..Size - 1 -> Data]
    /\ inserting = 0 /\ removing = 0
    /\ got \in Data
    /\ log \in [0..MaxBytes - 1 -> Data]
    /\ nin = 0 /\ nout = 0

-----------------------------------------------------------------------------

\* Mutant: the pointer wraps one byte late.
AdvanceLate(p) == IF p = Size THEN 0 ELSE p + 1

\* if (++p == End) p = Start
Advance(p) == IF p + 1 = Size THEN 0 ELSE p + 1

GetCount == Count

\* Mutant: full one byte too late.
IsFullLate == GetCount > Size

IsFull == GetCount = Size
IsEmpty == GetCount = 0
Peek == array[Out]

\* Insert, up to the interrupt lock: the byte goes to *In and In moves on.
Store(d) ==
    /\ array' = [array EXCEPT ![In] = d]
    /\ In' = Advance(In)
    /\ log' = [log EXCEPT ![nin] = d]
    /\ nin' = nin + 1

\* Remove, up to the interrupt lock: *Out is read and Out moves on.
Fetch ==
    /\ got' = Peek
    /\ Out' = Advance(Out)
    /\ nout' = nout + 1

-----------------------------------------------------------------------------
(* The buffer between a thread that inserts what it finds room for and a   *)
(* thread that removes what it finds.                                      *)

InsertStore(d) ==
    /\ inserting = 0 /\ ~IsFull /\ nin < MaxBytes
    /\ Store(d) /\ inserting' = 1
    /\ UNCHANGED <<Out, Count, removing, got, nout>>

\* Mutant: Count++ without the interrupt lock, a decrement lost in between.
InsertCountUnlocked ==
    /\ inserting = 1 /\ inserting' = 0
    /\ Count' = IF removing = 1 THEN Count ELSE Count + 1
    /\ UNCHANGED <<In, Out, array, removing, got, log, nin, nout>>

InsertCount ==
    /\ inserting = 1 /\ inserting' = 0
    /\ Count' = Count + 1
    /\ UNCHANGED <<In, Out, array, removing, got, log, nin, nout>>

RemoveFetch ==
    /\ removing = 0 /\ ~IsEmpty
    /\ Fetch /\ removing' = 1
    /\ UNCHANGED <<In, Count, array, inserting, log, nin>>

RemoveCount ==
    /\ removing = 1 /\ removing' = 0
    /\ Count' = Count - 1
    /\ UNCHANGED <<In, Out, array, inserting, got, log, nin, nout>>

RingNext == \/ \E d \in Data : InsertStore(d)
            \/ InsertCount \/ RemoveFetch \/ RemoveCount

\* Interrupts return and the main loop goes round: both threads go on with an
\* operation they have begun, and the remover looks again and again.
RingSpec == /\ InitBuffer /\ [][RingNext]_ringVars
            /\ WF_ringVars(InsertCount) /\ WF_ringVars(RemoveFetch)
            /\ WF_ringVars(RemoveCount)

-----------------------------------------------------------------------------
(* Properties.                                                             *)

Wrap(p) == IF p >= Size THEN p - Size ELSE p

\* The bytes inside, oldest first, as the array holds them: an insertion counts
\* from its first half on, and so does a removal.
Contents ==
    [i \in 1..Count + inserting - removing |-> array[Wrap(Out + i - 1)]]

\* The ring buffer is a bounded queue: although the remover may run between
\* the two halves of an insertion and the inserter between the two halves of
\* a removal, bytes come out once each and in order, and never more than Size
\* are inside.
Queue == INSTANCE BoundedQueue WITH queue <- Contents, got <- got
IsQueue == Queue!Spec

\* A byte that was inserted comes out, if the remover keeps looking.
Delivered == \A n \in 1..MaxBytes : nin >= n ~> nout >= n

\* What makes it a queue.  Slot j after Out holds the j-th byte that was not
\* read yet; Count runs behind In by an insertion and behind Out by a removal
\* that is not counted yet, never lets In catch up with Out, and never lets a
\* byte be read whose insertion is not counted.
Occupied == nin - nout

RingInv ==
    /\ RingTypeOK
    /\ inserting =< Occupied
    /\ Occupied + removing =< Size
    /\ Count + inserting = Occupied + removing
    /\ In = Wrap(Out + Occupied)
    /\ \A j \in 0..Size - 1 :
          j < Occupied => array[Wrap(Out + j)] = log[nout + j]
=============================================================================
