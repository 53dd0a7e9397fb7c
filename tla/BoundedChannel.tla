---------------------------- MODULE BoundedChannel ----------------------------
(***************************************************************************)
(* What a message queue promises its callers, with no ring, no flags and   *)
(* no semaphores: a first-in first-out channel of at most Capacity         *)
(* messages.  A message is put exactly once by the call that offered it,   *)
(* and taken by exactly one call that asked for it.                        *)
(***************************************************************************)
EXTENDS Naturals, Sequences

CONSTANTS Senders, Receivers, Data, NoData, Capacity

VARIABLES chan,      \* the messages in the channel, oldest first
          offering,  \* senders inside a call
          asking,    \* receivers inside a call
          data       \* the buffer each thread passes

vars == <<chan, offering, asking, data>>

Init == /\ chan = <<>>
        /\ offering = {} /\ asking = {}
        /\ data = [t \in Senders \cup Receivers |-> NoData]

Offer(t) == /\ t \notin offering
            /\ offering' = offering \cup {t}
            /\ \E d \in Data : data' = [data EXCEPT ![t] = d]
            /\ UNCHANGED <<chan, asking>>

Put(t) == /\ t \in offering
          /\ Len(chan) < Capacity
          /\ chan' = Append(chan, data[t])
          /\ offering' = offering \ {t}
          /\ UNCHANGED <<asking, data>>

Ask(t) == /\ t \notin asking
          /\ asking' = asking \cup {t}
          /\ UNCHANGED <<chan, offering, data>>

Get(t) == /\ t \in asking
          /\ chan # <<>>
          /\ data' = [data EXCEPT ![t] = Head(chan)]
          /\ chan' = Tail(chan)
          /\ asking' = asking \ {t}
          /\ UNCHANGED offering

\* a call on an empty channel may come back with nothing (the finished queue)
GetNothing(t) == /\ t \in asking
                 /\ chan = <<>>
                 /\ asking' = asking \ {t}
                 /\ UNCHANGED <<chan, offering, data>>

Next == \/ \E t \in Senders   : Offer(t) \/ Put(t)
        \/ \E t \in Receivers : Ask(t) \/ Get(t) \/ GetNothing(t)

Spec == Init /\ [][Next]_vars

(* With one sender and one receiver nobody who can be served is passed over *)
FairSpec == /\ Spec
            /\ \A t \in Senders   : WF_vars(Put(t))
            /\ \A t \in Receivers : WF_vars(Ask(t)) /\ WF_vars(Get(t))
================================================================================
