------------------------------ MODULE StreamUnits ------------------------------
(***************************************************************************)
(* An audio stream as its users see it: a bounded sequence of units and    *)
(* the flags of common/audio_stream.c.  A unit stands for the bytes of one *)
(* request.  A call that would sleep is a call that cannot return yet; that*)
(* a sleeper is woken whenever its call can return is what AudioStream.tla *)
(* shows of the ring, its flags and its semaphores.                        *)
(***************************************************************************)
EXTENDS Naturals, Sequences

NewStream == [data |-> <<>>, flags |-> {}]

Has(s, flag) == flag \in s.flags

\* audio_stream_start, finish, stop, reset, resume
Started     == [data |-> <<>>, flags |-> {"RUN"}]
Finished(s) == [s EXCEPT !.flags = @ \cup {"FINISHED"}]
Stopped(s)  == [s EXCEPT !.flags = @ \cup {"STOPPED"}]
\* Mutant: reset leaves the data.
Reset_KeepData(s) == [s EXCEPT !.flags = (@ \ {"FINISHED"}) \cup {"RESET"}]

Reset(s)    == [data |-> <<>>, flags |-> (s.flags \ {"FINISHED"}) \cup {"RESET"}]
Resumed(s)  == [s EXCEPT !.flags = @ \ {"RESET"}]

\* audio_stream_read of n units: returns -1 when stopped, n units when they are
\* there, what is left (maybe nothing) when finished; otherwise it waits.
ReadReturns(s, n) == Has(s, "STOPPED") \/ Len(s.data) >= n \/ Has(s, "FINISHED")
ReadCount(s, n)   == IF Len(s.data) < n THEN Len(s.data) ELSE n
ReadUnits(s, n)   == SubSeq(s.data, 1, ReadCount(s, n))
AfterRead(s, n)   == [s EXCEPT !.data = SubSeq(@, ReadCount(s, n) + 1, Len(@))]

\* audio_stream_write of one unit: returns 0 when not running, reset or finished,
\* -1 when stopped, stores when there is room; otherwise it waits.
WriteIgnored(s)     == ~Has(s, "RUN") \/ Has(s, "RESET")
                         \/ (Has(s, "FINISHED") /\ ~Has(s, "STOPPED"))
\* Mutant: a writer that waits is not woken by a stop.
WriteStopped_Never(s) == FALSE

WriteStopped(s)     == Has(s, "STOPPED") /\ ~WriteIgnored(s)
WriteStores(s, cap) == s.flags = {"RUN"} /\ Len(s.data) < cap
WriteWaits(s, cap)  == s.flags = {"RUN"} /\ Len(s.data) >= cap
AfterWrite(s, unit) == [s EXCEPT !.data = Append(@, unit)]
================================================================================
