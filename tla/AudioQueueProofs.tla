--------------------------- MODULE AudioQueueProofs ---------------------------
(* Theorems about the message queue, for any threads, messages and capacity. *)
EXTENDS AudioQueue, SequenceTheorems, TLAPS

\* A ring position advanced by one is a ring position.
LEMMA NextSlot == ASSUME NEW i \in Slots
                  PROVE  (i + 1) % ItemCount \in Slots
  BY QueueAssumption DEF Slots

\* A give leaves a permit, whatever the bound of the semaphore.
LEMMA GiveLeavesPermit == ASSUME NEW n \in Permits
                          PROVE  SemGive(n) \in Permits /\ SemGive(n) > 0
  BY SemAssumption DEF Permits, SemGive

LEMMA InitIInv == Init => IInv
<1> SUFFICES ASSUME Init PROVE IInv
  OBVIOUS
<1>1. TypeOK
  BY QueueAssumption, SemAssumption DEF Init, TypeOK, Slots, Permits, Threads
<1>2. FlagsTruthful
  BY DEF Init, FlagsTruthful
<1>3. SleepersAnnounced
  BY QueueAssumption DEF Init, SleepersAnnounced, AllSendersSleep, AllReceiversSleep, Threads
<1> QED
  BY <1>1, <1>2, <1>3 DEF IInv

(***************************************************************************)
(* Waking a side clears its flag, adds nothing, and leaves a permit if the *)
(* flag was on.                                                            *)
(***************************************************************************)
LEMMA WakeReaderEffect ==
  ASSUME TypeOK, NEW flags, WakeReader(flags)
  PROVE  /\ state' = flags \ {"WAIT_READABLE"}
         /\ read_sem' \in Permits
         /\ read_sem > 0 => read_sem' > 0
         /\ "WAIT_READABLE" \in flags => read_sem' > 0
  BY GiveLeavesPermit DEF WakeReader, TypeOK

LEMMA WakeWriterEffect ==
  ASSUME TypeOK, NEW flags, WakeWriter(flags)
  PROVE  /\ state' = flags \ {"WAIT_WRITABLE"}
         /\ write_sem' \in Permits
         /\ write_sem > 0 => write_sem' > 0
         /\ "WAIT_WRITABLE" \in flags => write_sem' > 0
  BY GiveLeavesPermit DEF WakeWriter, TypeOK

(***************************************************************************)
(* A thread that leaves its wait, or stays out of it, keeps its side from  *)
(* being asleep as a whole.                                                *)
(***************************************************************************)
LEMMA SomeoneAwake ==
  ASSUME TypeOK, NEW t \in Threads, NEW where, Goto(t, where),
         where \notin {"send_wait", "receive_wait"}
  PROVE  /\ t \in Senders   => ~AllSendersSleep'
         /\ t \in Receivers => ~AllReceiversSleep'
         /\ t \in Senders   => (AllReceiversSleep' <=> AllReceiversSleep)
         /\ t \in Receivers => (AllSendersSleep' <=> AllSendersSleep)
  BY QueueAssumption DEF TypeOK, Goto, AllSendersSleep, AllReceiversSleep, Threads

LEMMA NextIInv == IInv /\ [Next]_vars => IInv'
<1> SUFFICES ASSUME IInv, [Next]_vars PROVE IInv'
  OBVIOUS
<1> USE DEF IInv
<1>1. ASSUME NEW t \in Senders, SendCall(t) PROVE IInv'
  <2>1. t \in Threads
    BY DEF Threads
  <2>2. TypeOK'
    BY <1>1, <2>1 DEF SendCall, Goto, TypeOK, ring, sems
  <2>3. FlagsTruthful'
    BY <1>1 DEF SendCall, FlagsTruthful, ring
  <2>4. SleepersAnnounced'
    BY <1>1, <2>1, SomeoneAwake DEF SendCall, SleepersAnnounced, sems
  <2> QED
    BY <2>2, <2>3, <2>4
<1>2. ASSUME NEW t \in Senders, SendStore(t) PROVE IInv'
  <2>1. t \in Threads
    BY DEF Threads
  <2>2. /\ state' = state \ {"WAIT_READABLE"}
        /\ read_sem' \in Permits
        /\ read_sem > 0 => read_sem' > 0
        /\ "WAIT_READABLE" \in state => read_sem' > 0
    BY <1>2, WakeReaderEffect DEF SendStore
  <2>3. TypeOK'
    <3>1. fill' \in 0 .. ItemCount
      BY <1>2, QueueAssumption DEF SendStore, TypeOK
    <3>2. read_pos' \in Slots
      BY <1>2, NextSlot DEF SendStore, TypeOK
    <3> QED
      BY <1>2, <2>1, <2>2, <3>1, <3>2 DEF SendStore, Goto, TypeOK
  <2>4. FlagsTruthful'
    BY <1>2, <2>2 DEF SendStore, FlagsTruthful
  <2>5. SleepersAnnounced'
    BY <1>2, <2>1, <2>2, SomeoneAwake DEF SendStore, SleepersAnnounced
  <2> QED
    BY <2>3, <2>4, <2>5
<1>3. ASSUME NEW t \in Senders, SendBlock(t) PROVE IInv'
  <2>1. TypeOK'
    BY <1>3 DEF SendBlock, Goto, TypeOK, Threads, Flags, ring, sems
  <2>2. FlagsTruthful'
    BY <1>3 DEF SendBlock, FlagsTruthful, ring
  <2>3. SleepersAnnounced'
    BY <1>3, QueueAssumption DEF SendBlock, Goto, SleepersAnnounced, AllSendersSleep,
       AllReceiversSleep, TypeOK, Threads, sems
  <2> QED
    BY <2>1, <2>2, <2>3
<1>4. ASSUME NEW t \in Senders, SendWake(t) PROVE IInv'
  <2>1. t \in Threads
    BY DEF Threads
  <2>2. TypeOK'
    BY <1>4, <2>1, SemAssumption DEF SendWake, Goto, TypeOK, ring, SemTake, SemAvailable, Permits
  <2>3. FlagsTruthful'
    BY <1>4 DEF SendWake, FlagsTruthful, ring
  <2>4. SleepersAnnounced'
    BY <1>4, <2>1, SomeoneAwake DEF SendWake, SleepersAnnounced
  <2> QED
    BY <2>2, <2>3, <2>4
<1>5. ASSUME NEW t \in Receivers, ReceiveCall(t) PROVE IInv'
  <2>1. t \in Threads
    BY DEF Threads
  <2>2. TypeOK'
    BY <1>5, <2>1 DEF ReceiveCall, Goto, TypeOK, ring, sems
  <2>3. FlagsTruthful'
    BY <1>5 DEF ReceiveCall, FlagsTruthful, ring
  <2>4. SleepersAnnounced'
    BY <1>5, <2>1, SomeoneAwake DEF ReceiveCall, SleepersAnnounced, sems
  <2> QED
    BY <2>2, <2>3, <2>4
<1>6. ASSUME NEW t \in Receivers, ReceiveTake(t) PROVE IInv'
  <2>1. t \in Threads
    BY DEF Threads
  <2>2. /\ state' = state \ {"WAIT_WRITABLE"}
        /\ write_sem' \in Permits
        /\ write_sem > 0 => write_sem' > 0
        /\ "WAIT_WRITABLE" \in state => write_sem' > 0
    BY <1>6, WakeWriterEffect DEF ReceiveTake
  <2>3. TypeOK'
    <3>1. fill' \in 0 .. ItemCount
      BY <1>6, QueueAssumption DEF ReceiveTake, TypeOK
    <3>2. write_pos' \in Slots
      BY <1>6, NextSlot DEF ReceiveTake, TypeOK
    <3> QED
      BY <1>6, <2>1, <2>2, <3>1, <3>2 DEF ReceiveTake, Goto, TypeOK
  <2>4. FlagsTruthful'
    BY <1>6, <2>2 DEF ReceiveTake, FlagsTruthful
  <2>5. SleepersAnnounced'
    BY <1>6, <2>1, <2>2, SomeoneAwake DEF ReceiveTake, SleepersAnnounced
  <2> QED
    BY <2>3, <2>4, <2>5
<1>7. ASSUME NEW t \in Receivers, ReceiveFinished(t) PROVE IInv'
  <2>1. t \in Threads
    BY DEF Threads
  <2>2. TypeOK'
    BY <1>7, <2>1 DEF ReceiveFinished, Goto, TypeOK, ring, sems
  <2>3. FlagsTruthful'
    BY <1>7 DEF ReceiveFinished, FlagsTruthful, ring
  <2>4. SleepersAnnounced'
    BY <1>7, <2>1, SomeoneAwake DEF ReceiveFinished, SleepersAnnounced, sems
  <2> QED
    BY <2>2, <2>3, <2>4
<1>8. ASSUME NEW t \in Receivers, ReceiveBlock(t) PROVE IInv'
  <2>1. TypeOK'
    BY <1>8 DEF ReceiveBlock, Goto, TypeOK, Threads, Flags, ring, sems
  <2>2. FlagsTruthful'
    BY <1>8 DEF ReceiveBlock, FlagsTruthful, ring
  <2>3. SleepersAnnounced'
    BY <1>8, QueueAssumption DEF ReceiveBlock, Goto, SleepersAnnounced, AllSendersSleep,
       AllReceiversSleep, TypeOK, Threads, sems
  <2> QED
    BY <2>1, <2>2, <2>3
<1>9. ASSUME NEW t \in Receivers, ReceiveWake(t) PROVE IInv'
  <2>1. t \in Threads
    BY DEF Threads
  <2>2. TypeOK'
    BY <1>9, <2>1, SemAssumption DEF ReceiveWake, Goto, TypeOK, ring, SemTake, SemAvailable, Permits
  <2>3. FlagsTruthful'
    BY <1>9 DEF ReceiveWake, FlagsTruthful, ring
  <2>4. SleepersAnnounced'
    BY <1>9, <2>1, SomeoneAwake DEF ReceiveWake, SleepersAnnounced
  <2> QED
    BY <2>2, <2>3, <2>4
<1>10. CASE Finish
  <2>1. /\ state' = (state \cup {"FINISHED"}) \ {"WAIT_READABLE"}
        /\ read_sem' \in Permits
        /\ read_sem > 0 => read_sem' > 0
        /\ "WAIT_READABLE" \in state => read_sem' > 0
    BY <1>10, WakeReaderEffect DEF Finish
  <2>2. TypeOK'
    BY <1>10, <2>1 DEF Finish, TypeOK, Flags, ring
  <2>3. FlagsTruthful'
    BY <1>10, <2>1 DEF Finish, FlagsTruthful, ring
  <2>4. SleepersAnnounced'
    BY <1>10, <2>1 DEF Finish, SleepersAnnounced, AllSendersSleep, AllReceiversSleep
  <2> QED
    BY <2>2, <2>3, <2>4
<1>11. CASE Stop
  <2>1. ~StopTest
    BY DEF StopTest
  <2> QED
    BY <1>11, <2>1 DEF Stop, TypeOK, FlagsTruthful, SleepersAnnounced, AllSendersSleep,
       AllReceiversSleep, ring
<1>12. CASE UNCHANGED vars
  BY <1>12 DEF vars, TypeOK, FlagsTruthful, SleepersAnnounced, AllSendersSleep,
     AllReceiversSleep
<1> QED
  BY <1>1, <1>2, <1>3, <1>4, <1>5, <1>6, <1>7, <1>8, <1>9, <1>10, <1>11, <1>12
     DEF Next, Send, Receive

\* The inductive invariant holds in every reachable state.
THEOREM QueueInvariant == Spec => []IInv
  BY InitIInv, NextIInv, PTL DEF Spec

\* audio_queue_send, receive, finish and stop keep every variable in its type, and
\* none of them ever puts the queue into the state STOPPED.
THEOREM QueueTypeOK == Spec => []TypeOK
<1>1. IInv => TypeOK
  BY DEF IInv
<1> QED
  BY <1>1, QueueInvariant, PTL

\* However many threads send and receive: they are never all asleep next to a free
\* slot without a permit for one of them (audio_queue_send lines 70-76).
THEOREM NoStrandedSenders == Spec => []SendersNotStranded
<1>1. IInv => SendersNotStranded
  BY DEF IInv, FlagsTruthful, SleepersAnnounced, SendersNotStranded, TypeOK
<1> QED
  BY <1>1, QueueInvariant, PTL

\* The same for the receivers next to a message or to a finished queue
\* (audio_queue_receive lines 110-124).
THEOREM NoStrandedReceivers == Spec => []ReceiversNotStranded
<1>1. IInv => ReceiversNotStranded
  BY DEF IInv, FlagsTruthful, SleepersAnnounced, ReceiversNotStranded, TypeOK
<1> QED
  BY <1>1, QueueInvariant, PTL

\* Senders and receivers never wait for each other.
THEOREM QueueNoMutualWait == Spec => []NoMutualWait
<1>1. IInv => NoMutualWait
  BY QueueAssumption, SemAssumption
     DEF IInv, FlagsTruthful, SleepersAnnounced, NoMutualWait, TypeOK, Permits
<1> QED
  BY <1>1, QueueInvariant, PTL

--------------------------------------------------------------------------------
(***************************************************************************)
(* The message queue implements the channel of BoundedChannel, for any     *)
(* threads, messages and capacity: the ring holds the messages that were   *)
(* sent and not received, in their order, between write_pos and read_pos.  *)
(***************************************************************************)

\* the sender stores behind the last message
RingOk == read_pos = (write_pos + fill) % ItemCount

RInv == TypeOK /\ RingOk

Messages == Data \cup {NoData}

--------------------------------------------------------------------------------
(* Positions in a ring of N slots *)

LEMMA SlotAt == ASSUME NEW N \in Nat \ {0}, NEW w \in 0 .. N - 1, NEW k \in 0 .. N
                PROVE  /\ (w + k) % N \in 0 .. N - 1
                       /\ (w + k) % N = IF w + k < N THEN w + k ELSE w + k - N
<1>1. CASE w + k < N
  BY <1>1
<1>2. CASE w + k >= N
  BY <1>2
<1> QED
  BY <1>1, <1>2

\* no message lies in the slot behind the last
LEMMA SlotsDiffer == ASSUME NEW N \in Nat \ {0}, NEW w \in 0 .. N - 1,
                            NEW f \in 0 .. N - 1, NEW k \in 0 .. f - 1
                     PROVE  (w + k) % N # (w + f) % N
<1>1. k \in 0 .. N /\ f \in 0 .. N /\ k < f /\ f < N
  OBVIOUS
<1>2. /\ (w + k) % N = IF w + k < N THEN w + k ELSE w + k - N
      /\ (w + f) % N = IF w + f < N THEN w + f ELSE w + f - N
  BY <1>1, SlotAt
<1>3. (IF w + k < N THEN w + k ELSE w + k - N) # (IF w + f < N THEN w + f ELSE w + f - N)
  BY <1>1
<1> QED
  BY <1>2, <1>3

\* the slot behind the last moves with a put
LEMMA PutMoves == ASSUME NEW N \in Nat \ {0}, NEW w \in 0 .. N - 1, NEW f \in 0 .. N - 1
                  PROVE  (((w + f) % N) + 1) % N = (w + (f + 1)) % N
<1>1. f \in 0 .. N /\ f + 1 \in 0 .. N /\ 1 \in 0 .. N
  OBVIOUS
<1>2. /\ (w + f) % N = IF w + f < N THEN w + f ELSE w + f - N
      /\ (w + f) % N \in 0 .. N - 1
      /\ (w + (f + 1)) % N = IF w + (f + 1) < N THEN w + (f + 1) ELSE w + (f + 1) - N
  BY <1>1, SlotAt
<1>3. (((w + f) % N) + 1) % N =
        IF ((w + f) % N) + 1 < N THEN ((w + f) % N) + 1 ELSE ((w + f) % N) + 1 - N
  BY <1>1, <1>2, SlotAt
<1> QED
  BY <1>1, <1>2, <1>3

\* the k-th message after a take is the one behind it before
LEMMA TakeMoves == ASSUME NEW N \in Nat \ {0}, NEW w \in 0 .. N - 1, NEW k \in 0 .. N - 1
                   PROVE  (((w + 1) % N) + k) % N = (w + (k + 1)) % N
<1>1. k \in 0 .. N /\ k + 1 \in 0 .. N /\ 1 \in 0 .. N
  OBVIOUS
<1>2. /\ (w + 1) % N = IF w + 1 < N THEN w + 1 ELSE w + 1 - N
      /\ (w + 1) % N \in 0 .. N - 1
      /\ (w + (k + 1)) % N = IF w + (k + 1) < N THEN w + (k + 1) ELSE w + (k + 1) - N
  BY <1>1, SlotAt
<1>3. (((w + 1) % N) + k) % N =
        IF ((w + 1) % N) + k < N THEN ((w + 1) % N) + k ELSE ((w + 1) % N) + k - N
  BY <1>1, <1>2, SlotAt
<1> QED
  BY <1>1, <1>2, <1>3

--------------------------------------------------------------------------------
LEMMA InitRInv == Init => RInv
<1> SUFFICES ASSUME Init PROVE RInv
  OBVIOUS
<1>1. TypeOK
  BY InitIInv DEF IInv
<1>2. RingOk
  BY QueueAssumption DEF Init, RingOk
<1> QED
  BY <1>1, <1>2 DEF RInv

\* what a send and a receive do to the positions
LEMMA SendKeepsRing == ASSUME RInv, NEW t \in Senders, SendStore(t)
                       PROVE  RingOk'
<1>1. /\ fill \in 0 .. ItemCount - 1 /\ ItemCount \in Nat \ {0}
      /\ write_pos \in 0 .. ItemCount - 1
  BY QueueAssumption DEF SendStore, RInv, TypeOK, Slots
<1>2. read_pos' = (((write_pos + fill) % ItemCount) + 1) % ItemCount
  BY DEF SendStore, RInv, RingOk
<1>3. write_pos' = write_pos /\ fill' = fill + 1
  BY DEF SendStore
<1> QED
  BY <1>1, <1>2, <1>3, PutMoves DEF RingOk

LEMMA ReceiveKeepsRing == ASSUME RInv, NEW t \in Receivers, ReceiveTake(t)
                          PROVE  RingOk'
<1>1. /\ fill - 1 \in 0 .. ItemCount - 1 /\ ItemCount \in Nat \ {0}
      /\ write_pos \in 0 .. ItemCount - 1 /\ fill \in Nat
  BY QueueAssumption DEF ReceiveTake, RInv, TypeOK, Slots
<1>2. /\ write_pos' = (write_pos + 1) % ItemCount /\ fill' = fill - 1
      /\ read_pos' = read_pos
  BY DEF ReceiveTake
<1>3. (((write_pos + 1) % ItemCount) + (fill - 1)) % ItemCount
        = (write_pos + ((fill - 1) + 1)) % ItemCount
  BY <1>1, TakeMoves
<1>4. (fill - 1) + 1 = fill
  BY <1>1
<1> QED
  BY <1>2, <1>3, <1>4 DEF RInv, RingOk

LEMMA NextRInv == IInv /\ RingOk /\ [Next]_vars => RingOk'
<1> SUFFICES ASSUME IInv, RingOk, [Next]_vars PROVE RingOk'
  OBVIOUS
<1>1. RInv
  BY DEF RInv, IInv
<1>2. CASE \E t \in Senders : SendStore(t)
  BY <1>1, <1>2, SendKeepsRing
<1>3. CASE \E t \in Receivers : ReceiveTake(t)
  BY <1>1, <1>3, ReceiveKeepsRing
<1>4. CASE UNCHANGED ring
  BY <1>4 DEF ring, RingOk
<1>5. \/ \E t \in Senders : SendStore(t)
      \/ \E t \in Receivers : ReceiveTake(t)
      \/ UNCHANGED ring
  BY DEF Next, Send, Receive, SendCall, SendBlock, SendWake, ReceiveCall, ReceiveFinished,
         ReceiveBlock, ReceiveWake, Finish, Stop, vars, ring
<1> QED
  BY <1>2, <1>3, <1>4, <1>5

\* Positions, fill level and contents agree in every state, whoever calls.
THEOREM RingIsConsistent == Spec => [](IInv /\ RingOk)
<1>1. Init => IInv /\ RingOk
  BY InitIInv, InitRInv DEF RInv
<1>2. IInv /\ RingOk /\ [Next]_vars => (IInv /\ RingOk)'
  BY NextIInv, NextRInv
<1> QED
  BY <1>1, <1>2, PTL DEF Spec

--------------------------------------------------------------------------------
(* The contents of a ring of N slots as a sequence: f messages from slot w on *)

InRing(N, g, w, f) == [i \in 1 .. f |-> g[(w + i - 1) % N]]

LEMMA InRingSeq ==
  ASSUME NEW N \in Nat \ {0}, NEW w \in 0 .. N - 1, NEW f \in 0 .. N,
         NEW M, NEW g \in [0 .. N - 1 -> M]
  PROVE  /\ InRing(N, g, w, f) \in Seq(M)
         /\ Len(InRing(N, g, w, f)) = f
         /\ \A i \in 1 .. f : InRing(N, g, w, f)[i] = g[(w + (i - 1)) % N]
<1>1. ASSUME NEW i \in 1 .. f
      PROVE  g[(w + i - 1) % N] = g[(w + (i - 1)) % N] /\ g[(w + i - 1) % N] \in M
  <2>1. i - 1 \in 0 .. N /\ w + i - 1 = w + (i - 1)
    OBVIOUS
  <2>2. (w + (i - 1)) % N \in 0 .. N - 1
    BY <2>1, SlotAt
  <2> QED
    BY <2>1, <2>2
<1> QED
  BY <1>1 DEF InRing

\* taking the message at w and moving on leaves the tail
LEMMA TakeIsTail ==
  ASSUME NEW N \in Nat \ {0}, NEW w \in 0 .. N - 1, NEW f \in 1 .. N,
         NEW M, NEW g \in [0 .. N - 1 -> M]
  PROVE  /\ InRing(N, g, w, f) # <<>>
         /\ Head(InRing(N, g, w, f)) = g[w]
         /\ InRing(N, g, (w + 1) % N, f - 1) = Tail(InRing(N, g, w, f))
<1> DEFINE v   == (w + 1) % N
           old == InRing(N, g, w, f)
           new == InRing(N, g, v, f - 1)
<1>1. /\ f \in 0 .. N /\ f - 1 \in 0 .. N - 1 /\ f - 1 \in 0 .. N
      /\ 0 \in 0 .. N /\ 1 \in 0 .. N /\ w + 0 = w
  OBVIOUS
<1>2. v \in 0 .. N - 1 /\ (w + 0) % N = w
  <2>1. (w + 1) % N \in 0 .. N - 1
    BY <1>1, SlotAt
  <2> QED
    BY <2>1
<1>3. \A k \in 0 .. N - 1 : (v + k) % N = (w + (k + 1)) % N
  BY TakeMoves
<1> HIDE DEF v
<1>4. /\ old \in Seq(M) /\ Len(old) = f
      /\ \A i \in 1 .. f : old[i] = g[(w + (i - 1)) % N]
  BY SMTT(30), <1>1, InRingSeq
<1>5. /\ new \in Seq(M) /\ Len(new) = f - 1
      /\ \A i \in 1 .. f - 1 : new[i] = g[(v + (i - 1)) % N]
  <2>1. \A k \in 0 .. N : /\ InRing(N, g, v, k) \in Seq(M)
                          /\ Len(InRing(N, g, v, k)) = k
                          /\ \A i \in 1 .. k : InRing(N, g, v, k)[i] = g[(v + (i - 1)) % N]
    BY <1>2, InRingSeq
  <2> QED
    BY <1>1, <2>1
<1> HIDE DEF old, new
<1>6. old # <<>>
  BY <1>4, EmptySeq
<1>7. old[1] = g[w]
  <2>1. 1 \in 1 .. f /\ 1 - 1 = 0
    OBVIOUS
  <2>2. old[1] = g[(w + (1 - 1)) % N]
    BY <1>4, <2>1
  <2> QED
    BY <2>1, <2>2, <1>2
<1>8. Head(old) = g[w]
  BY <1>4, <1>6, <1>7, HeadTailProperties
<1>9. /\ Tail(old) \in Seq(M) /\ Len(Tail(old)) = f - 1
      /\ \A i \in 1 .. f - 1 : Tail(old)[i] = old[i + 1]
  BY <1>4, <1>6, HeadTailProperties
<1>10. ASSUME NEW i \in 1 .. f - 1 PROVE new[i] = Tail(old)[i]
  <2>1. i - 1 \in 0 .. N - 1 /\ i + 1 \in 1 .. f /\ (i - 1) + 1 = (i + 1) - 1
    OBVIOUS
  <2>2. new[i] = g[(w + ((i - 1) + 1)) % N]
    BY <1>3, <1>5, <2>1
  <2>3. old[i + 1] = g[(w + ((i + 1) - 1)) % N]
    BY <1>4, <2>1
  <2>4. Tail(old)[i] = old[i + 1]
    BY <1>9
  <2> QED
    BY <2>1, <2>2, <2>3, <2>4
<1>11. new = Tail(old)
  BY <1>5, <1>9, <1>10, SeqEqual
<1> QED
  BY <1>6, <1>8, <1>11 DEF old, new, v

--------------------------------------------------------------------------------
(* Every step of the queue is a step of the channel, or invisible. *)

LEMMA ContentsInRing == /\ Contents = InRing(ItemCount, item, write_pos, fill)
                        /\ Contents' = InRing(ItemCount, item, write_pos, fill)'
  BY DEF Contents, InRing

\* the ring as it is between two steps
LEMMA RingTypes == ASSUME RInv
                   PROVE  /\ ItemCount \in Nat \ {0} /\ fill \in 0 .. ItemCount
                          /\ write_pos \in 0 .. ItemCount - 1
                          /\ item \in [0 .. ItemCount - 1 -> Messages]
                          /\ data \in [Threads -> Messages]
                          /\ pc \in [Threads -> {"idle", "send", "send_wait",
                                                 "receive", "receive_wait"}]
                          /\ Len(Contents) = fill
                          /\ (Contents = <<>>) <=> (fill = 0)
<1>1. /\ ItemCount \in Nat \ {0} /\ fill \in 0 .. ItemCount
      /\ write_pos \in 0 .. ItemCount - 1
      /\ item \in [0 .. ItemCount - 1 -> Messages]
      /\ data \in [Threads -> Messages]
      /\ pc \in [Threads -> {"idle", "send", "send_wait", "receive", "receive_wait"}]
  BY QueueAssumption DEF RInv, TypeOK, Slots, Messages
<1>2. Contents \in Seq(Messages) /\ Len(Contents) = fill
  BY <1>1, InRingSeq, ContentsInRing
<1> HIDE DEF Contents
<1>3. (Contents = <<>>) <=> (fill = 0)
  BY <1>2, EmptySeq
<1> QED
  BY <1>1, <1>2, <1>3

SendersIn   == {t \in Senders   : pc[t] \in {"send", "send_wait"}}
ReceiversIn == {t \in Receivers : pc[t] \in {"receive", "receive_wait"}}

\* the message leaves the buffer of the sender and is the last of the channel
LEMMA SendPuts == ASSUME RInv, RingOk, NEW t \in Senders, SendStore(t)
                  PROVE  Len(Contents) < ItemCount /\ Contents' = Append(Contents, data[t])
<1> DEFINE N   == ItemCount
           f   == fill
           w   == write_pos
           g   == item
           h   == item'
           d   == data[t]
           old == InRing(N, g, w, f)
           new == InRing(N, h, w, f + 1)
<1>1. /\ N \in Nat \ {0} /\ w \in 0 .. N - 1 /\ f \in 0 .. N - 1
      /\ f \in 0 .. N /\ f + 1 \in 0 .. N
      /\ g \in [0 .. N - 1 -> Messages] /\ d \in Messages
  BY RingTypes DEF SendStore, Threads
<1>2. read_pos = (w + f) % N /\ read_pos \in 0 .. N - 1
  BY QueueAssumption DEF RingOk, RInv, TypeOK, Slots
<1>3. /\ h \in [0 .. N - 1 -> Messages] /\ h[read_pos] = d
      /\ \A k \in 0 .. N - 1 : k # read_pos => h[k] = g[k]
  BY <1>1, <1>2 DEF SendStore
<1>4. Contents = old /\ Contents' = new /\ Len(Contents) < ItemCount
  BY <1>1, ContentsInRing, RingTypes DEF SendStore
<1> HIDE DEF N, f, w, g, h, d
<1>5. /\ old \in Seq(Messages) /\ Len(old) = f
      /\ \A i \in 1 .. f : old[i] = g[(w + (i - 1)) % N]
  BY ONLY <1>1, InRingSeq
<1>6. /\ new \in Seq(Messages) /\ Len(new) = f + 1
      /\ \A i \in 1 .. f + 1 : new[i] = h[(w + (i - 1)) % N]
  <2>1. \A k \in 0 .. N : /\ InRing(N, h, w, k) \in Seq(Messages)
                          /\ Len(InRing(N, h, w, k)) = k
                          /\ \A i \in 1 .. k : InRing(N, h, w, k)[i] = h[(w + (i - 1)) % N]
    <3>1. N \in Nat \ {0} /\ w \in 0 .. N - 1 /\ h \in [0 .. N - 1 -> Messages]
      BY <1>1, <1>3
    <3> QED
      BY ONLY <3>1, InRingSeq
  <2> QED
    BY ONLY <1>1, <2>1
<1> HIDE DEF old, new
<1>7. /\ Append(old, d) \in Seq(Messages) /\ Len(Append(old, d)) = f + 1
      /\ \A i \in 1 .. f : Append(old, d)[i] = old[i]
      /\ Append(old, d)[f + 1] = d
  BY <1>1, <1>5, AppendProperties
<1>8. ASSUME NEW i \in 1 .. f + 1 PROVE new[i] = Append(old, d)[i]
  <2>1. CASE i = f + 1
    <3>1. new[i] = h[(w + (i - 1)) % N]
      BY <1>6
    <3>2. i - 1 = f
      BY <1>1, <2>1
    <3> QED
      BY <2>1, <3>1, <3>2, <1>2, <1>3, <1>7
  <2>2. CASE i \in 1 .. f
    <3>1. i - 1 \in 0 .. f - 1 /\ i - 1 \in 0 .. N
      BY <1>1, <2>2
    <3>2. (w + (i - 1)) % N # read_pos /\ (w + (i - 1)) % N \in 0 .. N - 1
      BY <1>1, <1>2, <3>1, SlotAt, SlotsDiffer
    <3>3. new[i] = h[(w + (i - 1)) % N]
      BY <1>6
    <3> QED
      BY <2>2, <3>2, <3>3, <1>3, <1>5, <1>7
  <2>3. i = f + 1 \/ i \in 1 .. f
    BY <1>1
  <2> QED
    BY <2>1, <2>2, <2>3
<1>9. new = Append(old, d)
  BY <1>1, <1>6, <1>7, <1>8, SeqEqual
<1> QED
  BY <1>4, <1>9 DEF d

\* the receiver gets the first message of the channel
LEMMA ReceiveGets == ASSUME RInv, NEW t \in Receivers, ReceiveTake(t)
                     PROVE  /\ Contents # <<>> /\ Contents' = Tail(Contents)
                            /\ data' = [data EXCEPT ![t] = Head(Contents)]
<1>1. fill \in 1 .. ItemCount
  BY RingTypes DEF ReceiveTake
<1>2. /\ item' = item /\ fill' = fill - 1 /\ write_pos' = (write_pos + 1) % ItemCount
      /\ data' = [data EXCEPT ![t] = item[write_pos]]
  BY DEF ReceiveTake
<1>3. /\ InRing(ItemCount, item, write_pos, fill) # <<>>
      /\ Head(InRing(ItemCount, item, write_pos, fill)) = item[write_pos]
      /\ InRing(ItemCount, item, (write_pos + 1) % ItemCount, fill - 1)
           = Tail(InRing(ItemCount, item, write_pos, fill))
  BY <1>1, RingTypes, TakeIsTail
<1>4. Contents' = InRing(ItemCount, item, (write_pos + 1) % ItemCount, fill - 1)
  BY <1>2, ContentsInRing
<1> QED
  BY <1>2, <1>3, <1>4, ContentsInRing

\* Who is inside a call changes with the calls and the returns, and nothing else.
LEMMA CallersMove ==
  ASSUME RInv, NEW t \in Threads, NEW where, Goto(t, where)
  PROVE  /\ t \in Senders =>
              /\ ReceiversIn' = ReceiversIn
              /\ where \in {"send", "send_wait"} => SendersIn' = SendersIn \cup {t}
              /\ where = "idle" => SendersIn' = SendersIn \ {t}
         /\ t \in Receivers =>
              /\ SendersIn' = SendersIn
              /\ where \in {"receive", "receive_wait"} => ReceiversIn' = ReceiversIn \cup {t}
              /\ where = "idle" => ReceiversIn' = ReceiversIn \ {t}
  BY QueueAssumption, RingTypes DEF Goto, SendersIn, ReceiversIn, Threads

LEMMA RingKept == UNCHANGED ring => Contents' = Contents
  BY ContentsInRing DEF ring

LEMMA ChannelInit == Init => Chan!Init
<1> SUFFICES ASSUME Init PROVE Chan!Init
  OBVIOUS
<1>1. Contents = <<>>
  BY InitRInv, RingTypes DEF Init
<1>2. /\ {t \in Senders : pc[t] \in {"send", "send_wait"}} = {}
      /\ {t \in Receivers : pc[t] \in {"receive", "receive_wait"}} = {}
  BY DEF Init, Threads
<1>3. data = [t \in Senders \cup Receivers |-> NoData]
  BY DEF Init, Threads
<1> QED
  BY <1>1, <1>2, <1>3 DEF Chan!Init

LEMMA ChannelStep == IInv /\ RingOk /\ [Next]_vars => [Chan!Next]_(Chan!vars)
<1> SUFFICES ASSUME IInv, RingOk, [Next]_vars PROVE [Chan!Next]_(Chan!vars)
  OBVIOUS
<1>0. RInv
  BY DEF IInv, RInv
<1>1. ASSUME NEW t \in Senders, SendCall(t) PROVE Chan!Next
  <2>1. t \in Threads /\ t \notin SendersIn /\ Goto(t, "send")
    BY <1>1 DEF SendCall, Threads, SendersIn
  <2>2. SendersIn' = SendersIn \cup {t} /\ ReceiversIn' = ReceiversIn
    BY <1>0, <2>1, CallersMove
  <2>3. Contents' = Contents
    BY <1>1, RingKept DEF SendCall
  <2>4. \E d \in Data : data' = [data EXCEPT ![t] = d]
    BY <1>1 DEF SendCall
  <2>5. Chan!Offer(t)
    BY <2>1, <2>2, <2>3, <2>4 DEF Chan!Offer, SendersIn, ReceiversIn
  <2> QED
    BY <2>5 DEF Chan!Next
<1>2. ASSUME NEW t \in Senders, SendStore(t) PROVE Chan!Next
  <2>1. t \in Threads /\ t \in SendersIn /\ Goto(t, "idle") /\ data' = data
    BY <1>2 DEF SendStore, Threads, SendersIn
  <2>2. SendersIn' = SendersIn \ {t} /\ ReceiversIn' = ReceiversIn
    BY <1>0, <2>1, CallersMove
  <2>3. Len(Contents) < ItemCount /\ Contents' = Append(Contents, data[t])
    BY <1>0, <1>2, SendPuts
  <2>4. Chan!Put(t)
    BY <2>1, <2>2, <2>3 DEF Chan!Put, SendersIn, ReceiversIn
  <2> QED
    BY <2>4 DEF Chan!Next
<1>3. ASSUME NEW t \in Senders, SendBlock(t) \/ SendWake(t) PROVE UNCHANGED Chan!vars
  <2>1. /\ t \in Threads /\ t \in SendersIn /\ data' = data
        /\ Goto(t, "send") \/ Goto(t, "send_wait")
    BY <1>3 DEF SendBlock, SendWake, Threads, SendersIn
  <2>2. SendersIn' = SendersIn \cup {t} /\ ReceiversIn' = ReceiversIn
    BY <1>0, <2>1, CallersMove
  <2>3. Contents' = Contents
    BY <1>3, RingKept DEF SendBlock, SendWake
  <2> QED
    BY <2>1, <2>2, <2>3 DEF Chan!vars, SendersIn, ReceiversIn
<1>4. ASSUME NEW t \in Receivers, ReceiveCall(t) PROVE Chan!Next
  <2>1. t \in Threads /\ t \notin ReceiversIn /\ Goto(t, "receive") /\ data' = data
    BY <1>4 DEF ReceiveCall, Threads, ReceiversIn
  <2>2. ReceiversIn' = ReceiversIn \cup {t} /\ SendersIn' = SendersIn
    BY <1>0, <2>1, CallersMove
  <2>3. Contents' = Contents
    BY <1>4, RingKept DEF ReceiveCall
  <2>4. Chan!Ask(t)
    BY <2>1, <2>2, <2>3 DEF Chan!Ask, SendersIn, ReceiversIn
  <2> QED
    BY <2>4 DEF Chan!Next
<1>5. ASSUME NEW t \in Receivers, ReceiveTake(t) PROVE Chan!Next
  <2>1. t \in Threads /\ t \in ReceiversIn /\ Goto(t, "idle")
    BY <1>5 DEF ReceiveTake, Threads, ReceiversIn
  <2>2. ReceiversIn' = ReceiversIn \ {t} /\ SendersIn' = SendersIn
    BY <1>0, <2>1, CallersMove
  <2>3. /\ Contents # <<>> /\ Contents' = Tail(Contents)
        /\ data' = [data EXCEPT ![t] = Head(Contents)]
    BY <1>0, <1>5, ReceiveGets
  <2>4. Chan!Get(t)
    BY <2>1, <2>2, <2>3 DEF Chan!Get, SendersIn, ReceiversIn
  <2> QED
    BY <2>4 DEF Chan!Next
<1>6. ASSUME NEW t \in Receivers, ReceiveFinished(t) PROVE Chan!Next
  <2>1. t \in Threads /\ t \in ReceiversIn /\ Goto(t, "idle") /\ data' = data /\ fill = 0
    BY <1>6 DEF ReceiveFinished, Threads, ReceiversIn
  <2>2. ReceiversIn' = ReceiversIn \ {t} /\ SendersIn' = SendersIn
    BY <1>0, <2>1, CallersMove
  <2>3. Contents = <<>>
    BY <1>0, <2>1, RingTypes
  <2>4. Contents' = Contents
    BY <1>6, RingKept DEF ReceiveFinished
  <2>5. Chan!GetNothing(t)
    BY <2>1, <2>2, <2>3, <2>4 DEF Chan!GetNothing, SendersIn, ReceiversIn
  <2> QED
    BY <2>5 DEF Chan!Next
<1>7. ASSUME NEW t \in Receivers, ReceiveBlock(t) \/ ReceiveWake(t) PROVE UNCHANGED Chan!vars
  <2>1. /\ t \in Threads /\ t \in ReceiversIn /\ data' = data
        /\ Goto(t, "receive") \/ Goto(t, "receive_wait")
    BY <1>7 DEF ReceiveBlock, ReceiveWake, Threads, ReceiversIn
  <2>2. ReceiversIn' = ReceiversIn \cup {t} /\ SendersIn' = SendersIn
    BY <1>0, <2>1, CallersMove
  <2>3. Contents' = Contents
    BY <1>7, RingKept DEF ReceiveBlock, ReceiveWake
  <2> QED
    BY <2>1, <2>2, <2>3 DEF Chan!vars, SendersIn, ReceiversIn
<1>8. ASSUME Finish \/ Stop \/ UNCHANGED vars PROVE UNCHANGED Chan!vars
  <2>1. UNCHANGED ring /\ pc' = pc /\ data' = data
    BY <1>8 DEF Finish, Stop, vars, ring
  <2>2. Contents' = Contents
    BY <2>1, RingKept
  <2> QED
    BY <2>1, <2>2 DEF Chan!vars
<1> QED
  BY <1>1, <1>2, <1>3, <1>4, <1>5, <1>6, <1>7, <1>8 DEF Next, Send, Receive

\* The queue implements the channel: no message is lost, duplicated or
\* reordered, and none is sent or received by a call that was not made.
THEOREM QueueImplementsChannel == Spec => ImplementsChannel
  BY RingIsConsistent, ChannelInit, ChannelStep, PTL DEF Spec, ImplementsChannel, Chan!Spec
================================================================================
