------------------------------ MODULE ByteStream ------------------------------
(***************************************************************************)
(* What an audio stream promises the two threads it connects, with no      *)
(* ring, no flags and no semaphores: the bytes written come out once and   *)
(* in order, never more than Capacity of them wait, and those that wait    *)
(* are thrown away only when a stream that has ended is started again, or  *)
(* by a reset.                                                             *)
(***************************************************************************)
EXTENDS Naturals, Sequences

CONSTANTS Capacity, SeqMod, Seekable

VARIABLES chan,    \* the bytes that wait, oldest first
          out,     \* the bytes the current read delivered
          wnext,   \* the next byte of the writer
          ended    \* the stream was finished or stopped since it was started

vars == <<chan, out, wnext, ended>>

Init == chan = <<>> /\ out = <<>> /\ wnext = 0 /\ ended = FALSE

Put(n) == /\ Len(chan) + n <= Capacity
          /\ chan' = chan \o [i \in 1 .. n |-> (wnext + i - 1) % SeqMod]
          /\ wnext' = (wnext + n) % SeqMod
          /\ UNCHANGED <<out, ended>>

NewRead == out' = <<>> /\ UNCHANGED <<chan, wnext, ended>>

Get(n) == /\ n <= Len(chan)
          /\ out' = out \o SubSeq(chan, 1, n)
          /\ chan' = SubSeq(chan, n + 1, Len(chan))
          /\ UNCHANGED <<wnext, ended>>

End == ended' = TRUE /\ UNCHANGED <<chan, out, wnext>>

Restart == /\ ended \/ chan = <<>>
           /\ chan' = <<>>
           /\ ended' = FALSE
           /\ UNCHANGED <<out, wnext>>

Discard == /\ Seekable
           /\ chan' = <<>>
           /\ UNCHANGED <<out, wnext, ended>>

Next == \/ \E n \in 1 .. Capacity : Put(n) \/ Get(n)
        \/ NewRead \/ End \/ Restart \/ Discard

Spec == Init /\ [][Next]_vars
================================================================================
