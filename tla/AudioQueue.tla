------------------------------ MODULE AudioQueue ------------------------------
(***************************************************************************)
(* common/audio_queue.c: the bounded message queue that carries commands   *)
(* between the application and the worker threads.                         *)
(*                                                                         *)
(* A thread that finds the queue full (empty) sets the one WAIT flag of    *)
(* its side, drops the lock and takes the semaphore of its side; a thread  *)
(* that makes room (adds an item) clears the flag and gives the semaphore  *)
(* once.  Every critical section is one action: the code neither blocks    *)
(* nor calls out while it holds `lock`.  The window between the unlock and *)
(* the take is a state of its own (pc = "send_wait", "receive_wait").      *)
(*                                                                         *)
(* read_pos and write_pos keep the names of the code, where the sender     *)
(* advances read_pos and the receiver advances write_pos.                  *)
(***************************************************************************)
EXTENDS AudioSem, FiniteSets

CONSTANTS Senders, Receivers,   \* the threads that call send, receive
          Data,                 \* the messages
          NoData,               \* contents of a buffer nothing was stored in
          ItemCount             \* capacity; 1 in every caller

ASSUME QueueAssumption == /\ ItemCount \in Nat \ {0}
                          /\ Senders \cap Receivers = {}
                          /\ Senders # {} /\ Receivers # {}
                          /\ NoData \notin Data

VARIABLES item, fill, read_pos, write_pos,
          state,                 \* the set of flags that are on
          read_sem, write_sem,
          pc,                    \* where each thread is
          data                   \* the buffer each thread passes

ring  == <<item, fill, read_pos, write_pos>>
sems  == <<read_sem, write_sem>>
vars  == <<item, fill, read_pos, write_pos, state, read_sem, write_sem, pc, data>>

Threads == Senders \cup Receivers
Slots   == 0 .. ItemCount - 1
Flags   == {"WAIT_READABLE", "WAIT_WRITABLE", "STOPPED", "FINISHED"}

Init == /\ item = [i \in Slots |-> NoData]
        /\ fill = 0 /\ read_pos = 0 /\ write_pos = 0
        /\ state = {}
        /\ read_sem = SemInit /\ write_sem = SemInit
        /\ pc = [t \in Threads |-> "idle"]
        /\ data = [t \in Threads |-> NoData]

Goto(t, where) == pc' = [pc EXCEPT ![t] = where]

(***************************************************************************)
(* Waking the other side: clear its flag and give its semaphore, if the    *)
(* flag is on.  `flags` is the state the critical section has built so far.*)
(***************************************************************************)
WakeReader(flags) ==
  IF "WAIT_READABLE" \in flags
    THEN state' = flags \ {"WAIT_READABLE"} /\ read_sem' = SemGive(read_sem)
    ELSE state' = flags /\ UNCHANGED read_sem

\* Mutant: the flag goes off and nothing is given.
WakeWriter_NoGive(flags) == state' = flags \ {"WAIT_WRITABLE"} /\ UNCHANGED write_sem

WakeWriter(flags) ==
  IF "WAIT_WRITABLE" \in flags
    THEN state' = flags \ {"WAIT_WRITABLE"} /\ write_sem' = SemGive(write_sem)
    ELSE state' = flags /\ UNCHANGED write_sem

--------------------------------------------------------------------------------
(* audio_queue_send *)

SendCall(t) == /\ pc[t] = "idle"
               /\ \E d \in Data : data' = [data EXCEPT ![t] = d]
               /\ Goto(t, "send")
               /\ UNCHANGED <<ring, state, sems>>

\* Mutants: store and wake nobody; store without a look at fill.
SendStore_NoWake(t) == /\ pc[t] = "send"
                       /\ fill # ItemCount
                       /\ item' = [item EXCEPT ![read_pos] = data[t]]
                       /\ fill' = fill + 1
                       /\ read_pos' = (read_pos + 1) % ItemCount
                       /\ Goto(t, "idle")
                       /\ UNCHANGED <<write_pos, state, sems, data>>
SendStore_Overwrite(t) == /\ pc[t] = "send"
                          /\ item' = [item EXCEPT ![read_pos] = data[t]]
                          /\ fill' = IF fill = ItemCount THEN fill ELSE fill + 1
                          /\ read_pos' = (read_pos + 1) % ItemCount
                          /\ WakeReader(state)
                          /\ Goto(t, "idle")
                          /\ UNCHANGED <<write_pos, write_sem, data>>

\* there is room: store, advance read_pos, wake a receiver that said it waits
SendStore(t) == /\ pc[t] = "send"
                /\ "STOPPED" \notin state
                /\ fill # ItemCount
                /\ item' = [item EXCEPT ![read_pos] = data[t]]
                /\ fill' = fill + 1
                /\ read_pos' = (read_pos + 1) % ItemCount
                /\ WakeReader(state)
                /\ Goto(t, "idle")
                /\ UNCHANGED <<write_pos, write_sem, data>>

\* the queue is full: say so and sleep
SendBlock(t) == /\ pc[t] = "send"
                /\ "STOPPED" \notin state
                /\ fill = ItemCount
                /\ state' = state \cup {"WAIT_WRITABLE"}
                /\ Goto(t, "send_wait")
                /\ UNCHANGED <<ring, sems, data>>

\* Mutant: the woken sender does not try again.
SendWake_GiveUp(t) == /\ pc[t] = "send_wait"
                      /\ SemAvailable(write_sem)
                      /\ write_sem' = SemTake(write_sem)
                      /\ Goto(t, "idle")
                      /\ UNCHANGED <<ring, state, read_sem, data>>

SendWake(t) == /\ pc[t] = "send_wait"
               /\ SemAvailable(write_sem)
               /\ write_sem' = SemTake(write_sem)
               /\ Goto(t, "send")
               /\ UNCHANGED <<ring, state, read_sem, data>>

--------------------------------------------------------------------------------
(* audio_queue_receive *)

ReceiveCall(t) == /\ pc[t] = "idle"
                  /\ Goto(t, "receive")
                  /\ UNCHANGED <<ring, state, sems, data>>

\* Mutant: take the message and wake nobody.
ReceiveTake_NoWake(t) == /\ pc[t] = "receive"
                         /\ fill # 0
                         /\ data' = [data EXCEPT ![t] = item[write_pos]]
                         /\ fill' = fill - 1
                         /\ write_pos' = (write_pos + 1) % ItemCount
                         /\ Goto(t, "idle")
                         /\ UNCHANGED <<item, read_pos, state, sems>>

ReceiveTake(t) == /\ pc[t] = "receive"
                  /\ "STOPPED" \notin state
                  /\ fill # 0
                  /\ data' = [data EXCEPT ![t] = item[write_pos]]
                  /\ fill' = fill - 1
                  /\ write_pos' = (write_pos + 1) % ItemCount
                  /\ WakeWriter(state)
                  /\ Goto(t, "idle")
                  /\ UNCHANGED <<item, read_pos, read_sem>>

\* empty and finished: consume the flag, report success, leave the buffer alone
ReceiveFinished(t) == /\ pc[t] = "receive"
                      /\ "STOPPED" \notin state
                      /\ fill = 0
                      /\ "FINISHED" \in state
                      /\ state' = state \ {"FINISHED"}
                      /\ Goto(t, "idle")
                      /\ UNCHANGED <<ring, sems, data>>

ReceiveBlock(t) == /\ pc[t] = "receive"
                   /\ "STOPPED" \notin state
                   /\ fill = 0
                   /\ "FINISHED" \notin state
                   /\ state' = state \cup {"WAIT_READABLE"}
                   /\ Goto(t, "receive_wait")
                   /\ UNCHANGED <<ring, sems, data>>

ReceiveWake(t) == /\ pc[t] = "receive_wait"
                  /\ SemAvailable(read_sem)
                  /\ read_sem' = SemTake(read_sem)
                  /\ Goto(t, "receive")
                  /\ UNCHANGED <<ring, state, write_sem, data>>

--------------------------------------------------------------------------------
(* audio_queue_finish and audio_queue_stop: any thread, at any time.        *)

\* Mutant: finish without waking the receiver.
Finish_NoWake == state' = state \cup {"FINISHED"} /\ UNCHANGED <<ring, sems, pc, data>>

\* the state is FINISHED afterwards, and a receiver that said it waits is woken
Finish == /\ WakeReader(state \cup {"FINISHED"})
          /\ UNCHANGED <<ring, write_sem, pc, data>>

\* The test is !(state | STOPPED), not !(state & STOPPED): it is never true, so
\* nothing is woken and STOPPED is never set.  The branches of send and receive
\* that refuse a stopped queue (lines 65-69, 104-109) can therefore not run.
StopTest == state \cup {"STOPPED"} = {}

Stop == /\ state' = IF StopTest
                      THEN (state \ {"WAIT_READABLE", "WAIT_WRITABLE"}) \cup {"STOPPED"}
                      ELSE state
        /\ read_sem' = IF StopTest /\ "WAIT_READABLE" \in state
                         THEN SemGive(read_sem) ELSE read_sem
        /\ write_sem' = IF StopTest /\ "WAIT_WRITABLE" \in state
                          THEN SemGive(write_sem) ELSE write_sem
        /\ UNCHANGED <<ring, pc, data>>

Send(t)    == SendStore(t) \/ SendBlock(t) \/ SendWake(t)
Receive(t) == ReceiveTake(t) \/ ReceiveFinished(t) \/ ReceiveBlock(t) \/ ReceiveWake(t)

Next == \/ \E t \in Senders   : SendCall(t) \/ Send(t)
        \/ \E t \in Receivers : ReceiveCall(t) \/ Receive(t)
        \/ Finish
        \/ Stop

Spec == Init /\ [][Next]_vars

(***************************************************************************)
(* A thread that can run runs; the receivers are the worker threads, which *)
(* loop for ever around audio_queue_receive.  Nobody has to send.          *)
(***************************************************************************)
FairSpec == /\ Spec
            /\ \A t \in Senders   : WF_vars(Send(t))
            /\ \A t \in Receivers : WF_vars(ReceiveCall(t)) /\ WF_vars(Receive(t))

--------------------------------------------------------------------------------
(* Properties *)

\* Every variable keeps its type, and no operation ever stops the queue.
TypeOK == /\ item \in [Slots -> Data \cup {NoData}]
          /\ fill \in 0 .. ItemCount
          /\ read_pos \in Slots /\ write_pos \in Slots
          /\ state \subseteq (Flags \ {"STOPPED"})
          /\ read_sem \in Permits /\ write_sem \in Permits
          /\ pc \in [Threads -> {"idle", "send", "send_wait", "receive", "receive_wait"}]
          /\ data \in [Threads -> Data \cup {NoData}]

AllSendersSleep   == \A t \in Senders   : pc[t] = "send_wait"
AllReceiversSleep == \A t \in Receivers : pc[t] = "receive_wait"

\* No lost wakeup on the sending side: the senders are never all asleep next to
\* a free slot unless one of them has a permit to run.  With one sender: a
\* blocked audio_queue_send resumes once a receive made room.
SendersNotStranded == AllSendersSleep /\ fill < ItemCount => write_sem > 0

\* No lost wakeup on the receiving side: the receivers are never all asleep next
\* to a message, or to a finished queue, unless one of them has a permit to run.
ReceiversNotStranded ==
  AllReceiversSleep /\ (fill > 0 \/ "FINISHED" \in state) => read_sem > 0

\* Senders and receivers never wait for each other: all asleep means a permit.
NoMutualWait == ~(AllSendersSleep /\ AllReceiversSleep /\ read_sem = 0 /\ write_sem = 0)

\* A flag left on says the truth about the queue, so the give that goes with
\* clearing it is never spent on a thread that would have to sleep again.
FlagsTruthful == /\ "WAIT_WRITABLE" \in state => fill = ItemCount
                 /\ "WAIT_READABLE" \in state => fill = 0 /\ "FINISHED" \notin state

(***************************************************************************)
(* The inductive invariant.  A side that is asleep as a whole has its flag *)
(* on or a permit waiting; FlagsTruthful turns that into the properties    *)
(* above.                                                                  *)
(***************************************************************************)
SleepersAnnounced ==
  /\ AllSendersSleep   => "WAIT_WRITABLE" \in state \/ write_sem > 0
  /\ AllReceiversSleep => "WAIT_READABLE" \in state \/ read_sem > 0

IInv == TypeOK /\ FlagsTruthful /\ SleepersAnnounced

(***************************************************************************)
(* The queue implements the channel.                                       *)
(***************************************************************************)
Contents == [i \in 1 .. fill |-> item[(write_pos + i - 1) % ItemCount]]

Chan == INSTANCE BoundedChannel WITH
          chan     <- Contents,
          offering <- {t \in Senders   : pc[t] \in {"send", "send_wait"}},
          asking   <- {t \in Receivers : pc[t] \in {"receive", "receive_wait"}},
          Capacity <- ItemCount

\* Messages are neither lost, nor duplicated, nor reordered, whatever the threads
\* do: every step of the queue is a step of the channel or invisible.
ImplementsChannel == Chan!Spec

\* With one sender and one receiver the queue also serves every call it can.
ImplementsFairChannel == Chan!FairSpec

\* A message in the queue is eventually received (capacity 1, as created).
StoredIsReceived == fill = ItemCount ~> fill = 0

\* A send that blocked eventually returns.
SendReturns == \A t \in Senders : pc[t] \in {"send", "send_wait"} ~> pc[t] = "idle"
================================================================================
