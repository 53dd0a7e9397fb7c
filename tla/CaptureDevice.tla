----------------------------- MODULE CaptureDevice -----------------------------
(***************************************************************************)
(* common/capture_impl.c over common/audio_pcm.c: one capture device that  *)
(* all recorders of the program share.  Its handle, its configuration and  *)
(* its lock are globals.  The capture thread of a recorder opens, reads,   *)
(* stops and closes it; the lock is taken by open and given back by close, *)
(* so that a second recorder waits for the first.                          *)
(*                                                                         *)
(* Application is the thread that calls recorder_close (stop and close,    *)
(* without an open) and capture_set_volume.  An action reads or writes the *)
(* globals once, as far as another thread could get in between.            *)
(*                                                                         *)
(* A pcm is a record: open until pcm_close frees it; its buffer is held    *)
(* from pcm_set_config to pcm_stop, which frees it and keeps the pointer.  *)
(* A use of something that was freed is written down in misused.           *)
(***************************************************************************)
EXTENDS Naturals, Sequences, FiniteSets

CONSTANTS Recorders,    \* one capture thread each
          Application,
          Nobody,       \* the owner of a free lock
          MaxOpens,     \* bound: recordings of all recorders
          MaxCalls,     \* bound: calls of recorder_close and capture_set_volume
          MayFail       \* whether pcm_open and pcm_set_config may fail

ASSUME CaptureAssumption ==
  /\ Application \notin Recorders
  /\ Nobody \notin Recorders \cup {Application}
  /\ {MaxOpens, MaxCalls} \subseteq Nat
  /\ MayFail \in BOOLEAN

VARIABLES
  locks,           \* the owner of every mutex that was created
  capture_lock,    \* which of them the global names; 0: NULL
  capture_handle,  \* which of pcms the global names; 0: NULL
  g_config,        \* the global configuration: "null" or "held"
  pcms,            \* every pcm: [open, buffer]
  pc,              \* where each thread is
  arg,             \* the lock or the pcm a call was given
  opens, calls,    \* how many opens, how many calls of the application there were
  closed,          \* the application has called recorder_close
  failed,          \* an open has failed
  misused          \* <<thread, what>>: uses of freed or missing objects

globals == <<locks, capture_lock, capture_handle, g_config, pcms>>
counts  == <<opens, calls, closed, failed>>
vars    == <<locks, capture_lock, capture_handle, g_config, pcms, pc, arg, opens, calls,
             closed, failed, misused>>

Threads == Recorders \cup {Application}
NewPcm  == [open |-> TRUE, buffer |-> "none"]
OldPcm  == [open |-> FALSE, buffer |-> "none"]

Init == /\ locks = <<>> /\ capture_lock = 0
        /\ capture_handle = 0 /\ g_config = "null" /\ pcms = <<>>
        /\ pc = [t \in Threads |-> "idle"]
        /\ arg = [t \in Threads |-> 0]
        /\ opens = 0 /\ calls = 0
        /\ closed = FALSE /\ failed = FALSE
        /\ misused = {}

\* What the program does after a use of a freed object is undefined, and not modelled.
At(t, where)          == misused = {} /\ pc[t] = where
Step(t, where, value) == pc' = [pc EXCEPT ![t] = where] /\ arg' = [arg EXCEPT ![t] = value]
Goto(t, where)        == pc' = [pc EXCEPT ![t] = where] /\ UNCHANGED arg
Misuse(faults)        == misused' = misused \cup faults
\* a pcm function is called: the handle is evaluated before it runs
Pass(t, where)        == Step(t, where, capture_handle)
\* it returns
Return(t, where)      == Step(t, where, 0)

\* what is wrong with a use of pcm p, and with a second free of its buffer
Wrong(t, p)      == IF p # 0 /\ ~pcms[p].open THEN {<<t, "pcm">>} ELSE {}
FreedTwice(t, p) == IF p # 0 /\ pcms[p].buffer = "freed" THEN {<<t, "buffer">>} ELSE {}

\* the thread is between the lock taken by open and the one given back by close
Inside(t) == t \in Recorders /\ pc[t] \in {"open", "config", "run", "read", "convert",
                                           "stop", "pcm_stop", "close", "pcm_close", "unlock"}

--------------------------------------------------------------------------------
(* capture_device_open_impl *)

\* The lock is created by whoever misses it; nothing guards the test.
OpenCall(r) == /\ At(r, "idle")
               /\ opens < MaxOpens
               /\ opens' = opens + 1
               /\ Goto(r, IF capture_lock = 0 THEN "create" ELSE "lock")
               /\ UNCHANGED <<globals, calls, closed, failed, misused>>

CreateLock(r) == /\ At(r, "create")
                 /\ locks' = Append(locks, Nobody)
                 /\ capture_lock' = Len(locks) + 1
                 /\ Goto(r, "lock")
                 /\ UNCHANGED <<capture_handle, g_config, pcms, counts, misused>>

LockCall(r) == /\ At(r, "lock")
               /\ Step(r, "wait", capture_lock)
               /\ UNCHANGED <<globals, counts, misused>>

\* Mutant: go in whoever owns the lock.
Lock_Always(r) == /\ At(r, "wait")
                  /\ locks' = [locks EXCEPT ![arg[r]] = r]
                  /\ Return(r, "open")
                  /\ UNCHANGED <<capture_lock, capture_handle, g_config, pcms, counts, misused>>

Lock(r) == /\ At(r, "wait")
           /\ locks[arg[r]] = Nobody
           /\ locks' = [locks EXCEPT ![arg[r]] = r]
           /\ Return(r, "open")
           /\ UNCHANGED <<capture_lock, capture_handle, g_config, pcms, counts, misused>>

\* A handle that is there is used as it is.
OpenShared(r) == /\ At(r, "open")
                 /\ capture_handle # 0
                 /\ Misuse(IF g_config = "null" THEN {<<r, "config">>} ELSE {})
                 /\ Goto(r, "run")
                 /\ UNCHANGED <<globals, counts>>

OpenPcm(r) == /\ At(r, "open")
              /\ capture_handle = 0
              /\ g_config' = "held"
              /\ pcms' = Append(pcms, NewPcm)
              /\ capture_handle' = Len(pcms) + 1
              /\ Goto(r, "config")
              /\ UNCHANGED <<locks, capture_lock, counts, misused>>

\* pcm_open returned NULL: so does open, and the lock stays locked
OpenPcmFail(r) == /\ At(r, "open")
                  /\ capture_handle = 0
                  /\ MayFail
                  /\ g_config' = "held"
                  /\ Goto(r, "idle")
                  /\ failed' = TRUE
                  /\ UNCHANGED <<locks, capture_lock, capture_handle, pcms, opens, calls,
                                 closed, misused>>

\* pcm_set_config: the buffer is allocated, the device is prepared
Configure(r) == /\ At(r, "config")
                /\ capture_handle # 0
                /\ pcms' = [pcms EXCEPT ![capture_handle].buffer = "held"]
                /\ Misuse(Wrong(r, capture_handle))
                /\ Goto(r, "run")
                /\ UNCHANGED <<locks, capture_lock, capture_handle, g_config, counts>>

\* pcm_set_config failed, for want of memory, in the driver or for a handle that
\* is NULL by now: the pcm is closed, the lock stays locked
ConfigureFail(r) ==
  /\ At(r, "config")
  /\ MayFail \/ capture_handle = 0
  /\ pcms' = IF capture_handle = 0 THEN pcms ELSE [pcms EXCEPT ![capture_handle] = OldPcm]
  /\ Misuse(Wrong(r, capture_handle))
  /\ capture_handle' = 0
  /\ Goto(r, "idle")
  /\ failed' = TRUE
  /\ UNCHANGED <<locks, capture_lock, g_config, opens, calls, closed>>

--------------------------------------------------------------------------------
(* capture_device_read_impl, called until the recording ends *)

ReadCall(r) == /\ At(r, "run")
               /\ capture_handle # 0
               /\ Pass(r, "read")
               /\ UNCHANGED <<globals, counts, misused>>

ReadPcm(r) == /\ At(r, "read")
              /\ Misuse(Wrong(r, arg[r]))
              /\ Return(r, "convert")
              /\ UNCHANGED <<globals, counts>>

\* the channels wanted are picked out of those read
ReadConvert(r) == /\ At(r, "convert")
                  /\ Misuse(IF g_config = "null" THEN {<<r, "config">>} ELSE {})
                  /\ Goto(r, "run")
                  /\ UNCHANGED <<globals, counts>>

\* the recording was ended, or the read found no handle
EndRecording(r) == /\ At(r, "run")
                   /\ Goto(r, "stop")
                   /\ UNCHANGED <<globals, counts, misused>>

--------------------------------------------------------------------------------
(* capture_device_stop_impl, capture_device_close_impl: capture_run and recorder_close *)

CloseCall == /\ At(Application, "idle")
             /\ calls < MaxCalls
             /\ calls' = calls + 1
             /\ closed' = TRUE
             /\ Goto(Application, "stop")
             /\ UNCHANGED <<globals, opens, failed, misused>>

Stop(t) == /\ At(t, "stop")
           /\ Pass(t, IF capture_handle = 0 THEN "close" ELSE "pcm_stop")
           /\ UNCHANGED <<globals, counts, misused>>

PcmStop(t) == /\ At(t, "pcm_stop")
              /\ Misuse(Wrong(t, arg[t]) \cup FreedTwice(t, arg[t]))
              /\ pcms' = [pcms EXCEPT ![arg[t]].buffer = IF @ = "held" THEN "freed" ELSE @]
              /\ Return(t, "close")
              /\ UNCHANGED <<locks, capture_lock, capture_handle, g_config, counts>>

\* free the configuration of a handle that is there, then pass it to pcm_close
Close(t) == /\ At(t, "close")
            /\ g_config' = IF capture_handle = 0 THEN g_config ELSE "null"
            /\ Pass(t, IF capture_handle = 0 THEN "unlock" ELSE "pcm_close")
            /\ UNCHANGED <<locks, capture_lock, capture_handle, pcms, counts, misused>>

PcmClose(t) == /\ At(t, "pcm_close")
               /\ Misuse(Wrong(t, arg[t]))
               /\ pcms' = [pcms EXCEPT ![arg[t]] = OldPcm]
               /\ Return(t, "unlock")
               /\ UNCHANGED <<locks, capture_lock, capture_handle, g_config, counts>>

\* Mutants: the handle of the closed pcm is kept; the lock is left locked.
Unlock_KeepHandle(t) ==
  /\ At(t, "unlock")
  /\ locks' = IF capture_lock = 0 THEN locks ELSE [locks EXCEPT ![capture_lock] = Nobody]
  /\ Misuse(IF capture_lock = 0 THEN {<<t, "lock">>} ELSE {})
  /\ Goto(t, "idle")
  /\ UNCHANGED <<capture_lock, capture_handle, g_config, pcms, counts>>
Unlock_Never(t) == /\ At(t, "unlock")
                   /\ capture_handle' = 0
                   /\ Goto(t, "idle")
                   /\ UNCHANGED <<locks, capture_lock, g_config, pcms, counts, misused>>

\* The handle is forgotten and the lock that the global names is unlocked, whoever
\* locked it; before the first open there is none.
Unlock(t) == /\ At(t, "unlock")
             /\ capture_handle' = 0
             /\ locks' = IF capture_lock = 0 THEN locks ELSE [locks EXCEPT ![capture_lock] = Nobody]
             /\ Misuse(IF capture_lock = 0 THEN {<<t, "lock">>} ELSE {})
             /\ Goto(t, "idle")
             /\ UNCHANGED <<capture_lock, g_config, pcms, counts>>

--------------------------------------------------------------------------------
(* capture_set_volume: pcm_set_volume and pcm_get_volume, each given the handle *)

VolumeCall == /\ At(Application, "idle")
              /\ calls < MaxCalls
              /\ calls' = calls + 1
              /\ Pass(Application, "volume")
              /\ UNCHANGED <<globals, opens, closed, failed, misused>>

VolumeSet == /\ At(Application, "volume")
             /\ Misuse(Wrong(Application, arg[Application]))
             /\ Pass(Application, "volume_get")
             /\ UNCHANGED <<globals, counts>>

VolumeGet == /\ At(Application, "volume_get")
             /\ Misuse(Wrong(Application, arg[Application]))
             /\ Return(Application, "idle")
             /\ UNCHANGED <<globals, counts>>

--------------------------------------------------------------------------------
Capture(r) == \/ OpenCall(r) \/ CreateLock(r) \/ LockCall(r) \/ Lock(r)
              \/ OpenShared(r) \/ OpenPcm(r) \/ OpenPcmFail(r) \/ Configure(r) \/ ConfigureFail(r)
              \/ ReadCall(r) \/ ReadPcm(r) \/ ReadConvert(r) \/ EndRecording(r)

Release(t) == Stop(t) \/ PcmStop(t) \/ Close(t) \/ PcmClose(t) \/ Unlock(t)

Volume == VolumeCall \/ VolumeSet \/ VolumeGet

Next == \/ \E r \in Recorders : Capture(r)
        \/ \E t \in Threads : Release(t)
        \/ CloseCall \/ Volume

Spec == Init /\ [][Next]_vars

\* Threads are scheduled, and every recording is ended some day: its duration runs
\* out, or the application stops it, however many frames are read before.
Fairness == /\ \A r \in Recorders : WF_vars(Capture(r)) /\ SF_vars(EndRecording(r))
            /\ \A t \in Threads : WF_vars(Release(t))
            /\ WF_vars(VolumeSet \/ VolumeGet)

FairSpec == Spec /\ Fairness

--------------------------------------------------------------------------------
(* Properties *)

\* Two things defeat the lock: two first opens at the same time, which create a
\* lock each, and recorder_close, which unlocks a lock it does not own.
Defeated == closed \/ Len(locks) > 1

\* At most one recorder has the device, unless the lock is defeated.
CaptureExclusive ==
  \A r, s \in Recorders : Inside(r) /\ Inside(s) /\ r # s => Defeated

\* A capture thread never uses a pcm, a buffer or a configuration that was freed,
\* whichever opens failed before, unless the lock is defeated; what the application
\* does without the lock is its own risk.
CaptureSafe == \A m \in misused : m[1] = Application \/ Defeated

\* An open that waits for the lock gets in, unless the lock is defeated, an open has
\* failed, which leaves it locked, or the application has used a freed pcm.
OpenReturns ==
  \A r \in Recorders : pc[r] = "wait" ~> pc[r] # "wait" \/ Defeated \/ failed \/ misused # {}
================================================================================
