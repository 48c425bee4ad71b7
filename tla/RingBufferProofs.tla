-------------------------- MODULE RingBufferProofs --------------------------
(***************************************************************************)
(* For every buffer size, set of bytes and number of bytes: the ring       *)
(* buffer's invariant is inductive, and with it every step of the ring     *)
(* buffer is a step of the bounded queue or leaves the queue alone.        *)
(***************************************************************************)
EXTENDS RingBuffer, TLAPS, SequenceTheorems

\* A leaf goes to the SMT solver unless it names another prover.
USE SMTT(30)

\* The buffer InitBuffer leaves is empty and satisfies the invariant.
LEMMA InitInv == InitBuffer => RingInv
  BY RingBufferAssumption
  DEF InitBuffer, RingInv, RingTypeOK, Wrap, Occupied

\* Insert's store and pointer move keep the invariant: the slot In points at
\* is not one of the occupied ones.
LEMMA InsertStoreInv ==
  ASSUME RingInv, NEW d \in Data, InsertStore(d) PROVE RingInv'
  <1> USE RingBufferAssumption
  <1> USE DEF RingInv, RingTypeOK, InsertStore, Store, Advance, IsFull, GetCount,
              Wrap, Occupied
  <1>1. RingTypeOK'
    OBVIOUS
  <1>2. /\ inserting' =< Occupied' /\ Occupied' + removing' =< Size
        /\ Count' + inserting' = Occupied' + removing'
        /\ In' = Wrap(Out + Occupied)'
    OBVIOUS
  <1>3. ASSUME NEW j \in 0..Size - 1, j < Occupied'
        PROVE  array'[Wrap(Out + j)'] = log'[nout' + j]
    <2>1. CASE j = Occupied
      BY <2>1
    <2>2. CASE j < Occupied
      <3>1. Wrap(Out + j) # In /\ Wrap(Out + j) \in 0..Size - 1
        BY <2>2
      <3>2. nout + j # nin /\ nout + j \in 0..MaxBytes - 1
        BY <2>2
      <3> QED BY <2>2, <3>1, <3>2
    <2> QED BY <1>3, <2>1, <2>2
  <1> QED BY <1>1, <1>2, <1>3

\* Remove's read and pointer move keep the invariant: the other bytes are one
\* slot closer to Out.
LEMMA RemoveFetchInv == RingInv /\ RemoveFetch => RingInv'
  <1> SUFFICES ASSUME RingInv, RemoveFetch PROVE RingInv'
    OBVIOUS
  <1> USE RingBufferAssumption
  <1> USE DEF RingInv, RingTypeOK, RemoveFetch, Fetch, Peek, Advance, IsEmpty,
              GetCount, Wrap, Occupied
  <1>1. RingTypeOK'
    OBVIOUS
  <1>2. /\ inserting' =< Occupied' /\ Occupied' + removing' =< Size
        /\ Count' + inserting' = Occupied' + removing'
        /\ In' = Wrap(Out + Occupied)'
    OBVIOUS
  <1>3. ASSUME NEW j \in 0..Size - 1, j < Occupied'
        PROVE  array'[Wrap(Out + j)'] = log'[nout' + j]
    <2>1. j + 1 \in 0..Size - 1 /\ j + 1 < Occupied
      BY <1>3
    <2>2. array[Wrap(Out + (j + 1))] = log[nout + (j + 1)]
      BY <2>1
    <2>3. Wrap(Out + j)' = Wrap(Out + (j + 1)) /\ nout' + j = nout + (j + 1)
      BY <2>1
    <2> QED BY <2>2, <2>3
  <1> QED BY <1>1, <1>2, <1>3

\* Counting an insertion or a removal keeps the invariant.
LEMMA CountInv == RingInv /\ (InsertCount \/ RemoveCount) => RingInv'
  <1> SUFFICES ASSUME RingInv, InsertCount \/ RemoveCount PROVE RingInv'
    OBVIOUS
  <1>1. CASE InsertCount
    BY <1>1, RingBufferAssumption
    DEF RingInv, RingTypeOK, InsertCount, Wrap, Occupied
  <1>2. CASE RemoveCount
    BY <1>2, RingBufferAssumption
    DEF RingInv, RingTypeOK, RemoveCount, Wrap, Occupied
  <1> QED BY <1>1, <1>2

\* The invariant of the ring buffer is inductive.
LEMMA StepInv == RingInv /\ [RingNext]_ringVars => RingInv'
  <1> SUFFICES ASSUME RingInv, [RingNext]_ringVars PROVE RingInv'
    OBVIOUS
  <1>1. CASE UNCHANGED ringVars
    BY <1>1 DEF ringVars, RingInv, RingTypeOK, Wrap, Occupied
  <1>2. CASE \E d \in Data : InsertStore(d)
    BY <1>2, InsertStoreInv
  <1>3. CASE InsertCount \/ RemoveCount
    BY <1>3, CountInv
  <1>4. CASE RemoveFetch
    BY <1>4, RemoveFetchInv
  <1> QED BY <1>1, <1>2, <1>3, <1>4 DEF RingNext

\* RingBuffer_Insert and RingBuffer_Remove, interrupted by one another at any
\* point, keep pointers, Count and contents consistent for every size.
THEOREM RingInvariant == RingSpec => []RingInv
  <1>1. InitBuffer => RingInv
    BY InitInv
  <1>2. RingInv /\ [RingNext]_ringVars => RingInv'
    BY StepInv
  <1> QED BY <1>1, <1>2, PTL DEF RingSpec

\* The contents are a sequence of bytes, as long as the pointers are apart.
ContentsOK ==
    /\ Contents \in Seq(Data) /\ Len(Contents) = Occupied /\ Occupied \in 0..Size
    /\ \A i \in 1..Occupied : Contents[i] = array[Wrap(Out + i - 1)]

\* That follows from the invariant.
LEMMA ContentsProperties == RingInv => ContentsOK
  <1> SUFFICES ASSUME RingInv PROVE ContentsOK
    OBVIOUS
  <1> DEFINE n == Count + inserting - removing
  <1>1. n = Occupied /\ n \in Nat /\ Occupied \in 0..Size
    BY RingBufferAssumption DEF RingInv, RingTypeOK, Occupied
  <1>2. ASSUME NEW i \in 1..n PROVE array[Wrap(Out + i - 1)] \in Data
    <2>1. Wrap(Out + i - 1) \in 0..Size - 1
      BY <1>1, RingBufferAssumption DEF RingInv, RingTypeOK, Wrap, Occupied
    <2> QED BY <2>1 DEF RingInv, RingTypeOK
  <1>3. Contents = [i \in 1..n |-> array[Wrap(Out + i - 1)]]
    BY DEF Contents
  <1> HIDE DEF n
  <1>4. Contents \in [1..n -> Data]
    BY <1>2, <1>3
  <1>5. Contents \in Seq(Data) /\ Len(Contents) = n
    BY <1>1, <1>4
  <1> QED BY <1>1, <1>3, <1>5 DEF ContentsOK

\* The first half of an insertion puts the byte behind all others: the slot it
\* writes is none of theirs.
LEMMA StoreEnqueues ==
  ASSUME RingInv, NEW d \in Data, InsertStore(d) PROVE Queue!Enqueue(d)
  <1> USE RingBufferAssumption
  <1>0. ContentsOK /\ ContentsOK'
    <2>1. RingInv' => ContentsOK'
      BY ContentsProperties, PTL
    <2> QED BY <2>1, ContentsProperties, InsertStoreInv
  <1>1. /\ Contents \in Seq(Data) /\ Len(Contents) = Occupied /\ Occupied \in Nat
        /\ Contents' \in Seq(Data) /\ Len(Contents)' = Occupied'
    BY <1>0 DEF ContentsOK
  <1>2. Occupied < Size /\ Occupied' = Occupied + 1 /\ got' = got /\ Out' = Out
    BY DEF RingInv, RingTypeOK, InsertStore, Store, IsFull, GetCount, Occupied
  <1>3. /\ Append(Contents, d) \in Seq(Data)
        /\ Len(Append(Contents, d)) = Occupied + 1
        /\ \A i \in 1..Occupied : Append(Contents, d)[i] = Contents[i]
        /\ Append(Contents, d)[Occupied + 1] = d
    BY <1>1, AppendProperties
  <1>4. ASSUME NEW i \in 1..Occupied' PROVE Contents'[i] = Append(Contents, d)[i]
    <2>1. Contents'[i] = array'[Wrap(Out + i - 1)]
      BY <1>0, <1>2 DEF ContentsOK, Wrap
    <2>2. CASE i = Occupied + 1
      <3>1. Wrap(Out + i - 1) = In /\ In \in 0..Size - 1
        BY <1>1, <2>2 DEF RingInv, RingTypeOK, Wrap
      <3>2. array'[In] = d
        BY <3>1 DEF RingInv, RingTypeOK, InsertStore, Store
      <3> QED BY <1>3, <2>1, <2>2, <3>1, <3>2
    <2>3. CASE i \in 1..Occupied
      <3>1. Wrap(Out + i - 1) # In /\ Wrap(Out + i - 1) \in 0..Size - 1
        BY <1>1, <1>2, <2>3 DEF RingInv, RingTypeOK, Wrap
      <3>2. array'[Wrap(Out + i - 1)] = array[Wrap(Out + i - 1)]
        BY <3>1 DEF RingInv, RingTypeOK, InsertStore, Store
      <3>3. Contents[i] = array[Wrap(Out + i - 1)]
        BY <1>0, <2>3 DEF ContentsOK
      <3> QED BY <1>3, <2>1, <2>3, <3>2, <3>3, ZenonT(30)
    <2> QED BY <1>1, <1>2, <2>2, <2>3
  <1>5. Contents' = Append(Contents, d)
    BY <1>1, <1>2, <1>3, <1>4, SeqEqual
  <1> QED BY <1>1, <1>2, <1>5 DEF Queue!Enqueue

\* The first half of a removal takes the oldest byte.
LEMMA FetchDequeues ==
  ASSUME RingInv, RemoveFetch PROVE Queue!Dequeue
  <1> USE RingBufferAssumption
  <1>0. ContentsOK /\ ContentsOK'
    <2>1. RingInv' => ContentsOK'
      BY ContentsProperties, PTL
    <2> QED BY <2>1, ContentsProperties, RemoveFetchInv
  <1>1. /\ Contents \in Seq(Data) /\ Len(Contents) = Occupied /\ Occupied \in Nat
        /\ Contents' \in Seq(Data) /\ Len(Contents)' = Occupied'
    BY <1>0 DEF ContentsOK
  <1>2. /\ Occupied > 0 /\ Occupied' = Occupied - 1
        /\ got' = array[Out] /\ array' = array /\ Out' = Advance(Out)
    BY DEF RingInv, RingTypeOK, RemoveFetch, Fetch, Peek, IsEmpty, GetCount, Occupied
  <1>3. Contents # <<>>
    BY <1>1, <1>2
  <1>4. /\ Tail(Contents) \in Seq(Data) /\ Len(Tail(Contents)) = Occupied - 1
        /\ \A i \in 1..Occupied - 1 : Tail(Contents)[i] = Contents[i + 1]
    BY <1>1, <1>3, HeadTailProperties
  <1>5. got' = Head(Contents)
    <2>1. 1 \in 1..Occupied /\ Wrap(Out + 1 - 1) = Out
      BY <1>1, <1>2 DEF RingInv, RingTypeOK, Wrap
    <2>2. Contents[1] = array[Out]
      BY <1>0, <2>1 DEF ContentsOK
    <2> QED BY <1>1, <1>2, <1>3, <2>2
  <1>6. ASSUME NEW i \in 1..Occupied' PROVE Contents'[i] = Tail(Contents)[i]
    <2>1. Contents'[i] = array'[Wrap(Out' + i - 1)]
      BY <1>0 DEF ContentsOK, Wrap
    <2>2. Contents[i + 1] = array[Wrap(Out + (i + 1) - 1)]
      BY <1>0, <1>1, <1>2 DEF ContentsOK
    <2>3. Wrap(Out' + i - 1) = Wrap(Out + (i + 1) - 1)
      BY <1>1, <1>2 DEF RingInv, RingTypeOK, Wrap, Advance
    <2> QED BY <1>1, <1>2, <1>4, <2>1, <2>2, <2>3
  <1>7. Contents' = Tail(Contents)
    BY <1>1, <1>2, <1>4, <1>6, SeqEqual
  <1> QED BY <1>3, <1>5, <1>7 DEF Queue!Dequeue

\* Every step of the ring buffer is a step of the queue or a stutter of it:
\* a byte enters the queue when it is stored and leaves it when it is read.
LEMMA StepRefines == RingInv /\ [RingNext]_ringVars => [Queue!Next]_Queue!qvars
  <1> SUFFICES ASSUME RingInv, [RingNext]_ringVars
               PROVE  [Queue!Next]_Queue!qvars
    OBVIOUS
  <1>1. CASE UNCHANGED ringVars
    BY <1>1 DEF ringVars, Queue!qvars, Contents, Wrap
  <1>2. CASE InsertCount \/ RemoveCount
    <2>1. UNCHANGED <<array, Out, got>>
          /\ (Count + inserting - removing)' = Count + inserting - removing
      BY <1>2 DEF InsertCount, RemoveCount, RingInv, RingTypeOK
    <2> QED BY <2>1 DEF Queue!qvars, Contents, Wrap
  <1>3. CASE \E d \in Data : InsertStore(d)
    BY <1>3, StoreEnqueues DEF Queue!Next
  <1>4. CASE RemoveFetch
    BY <1>4, FetchDequeues DEF Queue!Next
  <1> QED BY <1>1, <1>2, <1>3, <1>4 DEF RingNext

\* The ring buffer implements the bounded queue, for every size, set of bytes
\* and number of bytes: no byte is lost, repeated or out of order as long as
\* the inserter tests RingBuffer_IsFull and the remover RingBuffer_IsEmpty.
THEOREM RingIsQueue == RingSpec => IsQueue
  <1>1. InitBuffer => Queue!Init
    <2>1. ASSUME InitBuffer PROVE Contents = <<>> /\ got \in Data
      BY <2>1 DEF InitBuffer, Contents
    <2> QED BY <2>1 DEF Queue!Init
  <1>2. RingInv /\ [RingNext]_ringVars => [Queue!Next]_Queue!qvars
    BY StepRefines
  <1>3. RingSpec => []RingInv
    BY RingInvariant
  <1> QED BY <1>1, <1>2, <1>3, PTL DEF RingSpec, IsQueue, Queue!Spec
=============================================================================
