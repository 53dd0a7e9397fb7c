----------------------------- MODULE MCAudioQueue -----------------------------
(* Small instances of the message queue. *)
EXTENDS AudioQueue, TLC

\* the messages are interchangeable, and so are the senders
Perms == Permutations(Data) \cup Permutations(Senders)
================================================================================
