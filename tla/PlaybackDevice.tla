----------------------------- MODULE PlaybackDevice -----------------------------
(***************************************************************************)
(* common/playback_impl.c over common/audio_pcm.c: one playback device for *)
(* the players of a program, with a global handle, a global flag opened    *)
(* and no lock at all.  Each playback_run has its own copy of the device,  *)
(* whose userdata is the configuration it allocated; player_close and      *)
(* player_destroy stop and close the device from the application's thread  *)
(* with a copy that has none.                                              *)
(*                                                                         *)
(* Actions and pcms are as in CaptureDevice; a pcm also knows whether it   *)
(* was configured, for pcm_write measures its data by the period size.     *)
(***************************************************************************)
EXTENDS Naturals, Sequences, FiniteSets

CONSTANTS Players,      \* one playback_run each
          Application,
          MaxOpens,     \* bound: device.open calls of all players
          MaxCalls,     \* bound: calls of player_close and playback_set_volume
          MayFail,      \* whether pcm_open, pcm_set_config and the malloc of a config may fail
          StaysOpen     \* FreeRTOS: playback_run does not close the device after a track

\* What is assumed of the constants; the module that instantiates this one assumes it.
PlaybackAssumption == Application \notin Players

VARIABLES
  playback_handle,  \* which of pcms the global names; 0: NULL
  opened,           \* the global flag: the device is configured
  pcms,             \* every pcm: [open, configured, buffer]
  userdata,         \* the players whose copy of the device has a configuration
  pc,               \* where each thread is
  arg,              \* the pcm a call was given
  opens, calls,     \* how many opens, how many calls of the application there were
  shared,           \* a player has opened the device while another one had it
  closed,           \* the application has stopped and closed the device
  misused           \* <<thread, what>>: uses of freed or unconfigured pcms

globals == <<playback_handle, opened, pcms>>
history == <<opens, calls, shared, closed, misused>>
vars    == <<playback_handle, opened, pcms, userdata, pc, arg, opens, calls, shared, closed,
             misused>>

Threads == Players \cup {Application}
NewPcm  == [open |-> TRUE,  configured |-> FALSE, buffer |-> "none"]
OldPcm  == [open |-> FALSE, configured |-> FALSE, buffer |-> "none"]

Init == /\ playback_handle = 0 /\ opened = FALSE /\ pcms = <<>>
        /\ userdata = {}
        /\ pc = [t \in Threads |-> "idle"]
        /\ arg = [t \in Threads |-> 0]
        /\ opens = 0 /\ calls = 0
        /\ shared = FALSE /\ closed = FALSE
        /\ misused = {}

Configured(pcm) == [open |-> pcm.open, configured |-> TRUE, buffer |-> "held"]

\* What the program does after a use of a freed object is undefined, and not modelled.
At(t, where)          == misused = {} /\ pc[t] = where
Step(t, where, value) == pc' = [pc EXCEPT ![t] = where] /\ arg' = [arg EXCEPT ![t] = value]
Goto(t, where)        == pc' = [pc EXCEPT ![t] = where] /\ UNCHANGED arg
Pass(t, where)        == Step(t, where, playback_handle)
Return(t, where)      == Step(t, where, 0)
Misuse(faults)        == misused' = misused \cup faults

Wrong(t, p)      == IF p # 0 /\ ~pcms[p].open THEN {<<t, "pcm">>} ELSE {}
FreedTwice(t, p) == IF p # 0 /\ pcms[p].buffer = "freed" THEN {<<t, "buffer">>} ELSE {}
Unsized(t, p)    == IF p # 0 /\ pcms[p].open /\ ~pcms[p].configured THEN {<<t, "period">>} ELSE {}

--------------------------------------------------------------------------------
(* playback_device_open_impl *)

OpenCall(p) == /\ At(p, "idle")
               /\ opens < MaxOpens
               /\ opens' = opens + 1
               /\ shared' = (shared \/ \E o \in Players \ {p} : pc[o] # "idle" \/ o \in userdata)
               /\ Goto(p, IF playback_handle = 0 THEN "pcm" ELSE "config")
               /\ UNCHANGED <<globals, userdata, calls, closed, misused>>

OpenPcm(p) == /\ At(p, "pcm")
              /\ pcms' = Append(pcms, NewPcm)
              /\ playback_handle' = Len(pcms) + 1
              /\ Goto(p, "config")
              /\ UNCHANGED <<opened, userdata, history>>

\* pcm_open returned NULL, and that is now the handle of everyone
OpenPcmFail(p) == /\ At(p, "pcm")
                  /\ MayFail
                  /\ playback_handle' = 0
                  /\ Goto(p, "idle")
                  /\ UNCHANGED <<opened, pcms, userdata, history>>

\* The configuration of an earlier open is used again.  Without memory for one the
\* pcm is closed; opened stays as it is.
NoMemory(p) == /\ At(p, "config")
               /\ MayFail /\ p \notin userdata
               /\ Misuse(Wrong(p, playback_handle))
               /\ pcms' = IF playback_handle = 0 THEN pcms
                                                 ELSE [pcms EXCEPT ![playback_handle] = OldPcm]
               /\ playback_handle' = 0
               /\ Goto(p, "idle")
               /\ UNCHANGED <<opened, userdata, opens, calls, shared, closed>>

\* pcm_set_config, unless the device is marked as opened
Configure(p) ==
  /\ At(p, "config")
  /\ IF opened THEN Misuse({}) /\ UNCHANGED pcms
     ELSE /\ playback_handle # 0
          /\ Misuse(Wrong(p, playback_handle))
          /\ pcms' = [pcms EXCEPT ![playback_handle] = Configured(@)]
  /\ opened' = TRUE
  /\ userdata' = userdata \cup {p}
  /\ Goto(p, "start")
  /\ UNCHANGED <<playback_handle, opens, calls, shared, closed>>

\* pcm_set_config failed, or was given a handle that is NULL by now: the pcm is closed
ConfigureFail(p) ==
  /\ At(p, "config")
  /\ ~opened
  /\ MayFail \/ playback_handle = 0
  /\ Misuse(Wrong(p, playback_handle))
  /\ pcms' = IF playback_handle = 0 THEN pcms ELSE [pcms EXCEPT ![playback_handle] = OldPcm]
  /\ playback_handle' = 0
  /\ Goto(p, "idle")
  /\ UNCHANGED <<opened, userdata, opens, calls, shared, closed>>

--------------------------------------------------------------------------------
(* playback_device_start_impl: pcm_prepare and pcm_start *)

StartCall(p) == /\ At(p, "start")
                /\ playback_handle # 0
                /\ Pass(p, "pcm_start")
                /\ UNCHANGED <<globals, userdata, history>>

\* pcm_start looks at nothing of the pcm, not even at one that was freed
StartPcm(p) == /\ At(p, "pcm_start")
               /\ Return(p, "run")
               /\ UNCHANGED <<globals, userdata, history>>

\* playback_run gives the track up, and the device stays open
StartFail(p) == /\ \/ At(p, "start") /\ playback_handle = 0
                   \/ At(p, "pcm_start") /\ MayFail
                /\ Return(p, "idle")
                /\ UNCHANGED <<globals, userdata, history>>

--------------------------------------------------------------------------------
(* playback_device_write_impl, called until the track and the idle time are over; *)
(* without a handle it fails, which nobody looks at                               *)

WriteCall(p) == /\ At(p, "run")
                /\ playback_handle # 0
                /\ Pass(p, "write")
                /\ UNCHANGED <<globals, userdata, history>>

WritePcm(p) == /\ At(p, "write")
               /\ Misuse(Wrong(p, arg[p]) \cup Unsized(p, arg[p]))
               /\ Return(p, "run")
               /\ UNCHANGED <<globals, userdata, opens, calls, shared, closed>>

\* The track and the idle time are over, or there was no memory for the buffer.
EndTrack(p) == /\ At(p, "run")
               /\ \/ StaysOpen /\ Goto(p, "idle")
                  \/ (~StaysOpen \/ MayFail) /\ Goto(p, "stop")
               /\ UNCHANGED <<globals, userdata, history>>

--------------------------------------------------------------------------------
(* playback_device_stop_impl, playback_device_close_impl: playback_run, player_close *)
(* and player_destroy                                                               *)

CloseCall == /\ pc[Application] = "idle"
             /\ calls < MaxCalls
             /\ calls' = calls + 1
             /\ closed' = TRUE
             /\ Goto(Application, "stop")
             /\ UNCHANGED <<globals, userdata, opens, shared, misused>>

\* without a handle there is nothing to stop, and the configuration stays
Stop(t) == /\ At(t, "stop")
           /\ Pass(t, IF playback_handle = 0 THEN "close" ELSE "pcm_stop")
           /\ UNCHANGED <<globals, userdata, history>>

PcmStop(t) == /\ At(t, "pcm_stop")
              /\ Misuse(Wrong(t, arg[t]) \cup FreedTwice(t, arg[t]))
              /\ pcms' = [pcms EXCEPT ![arg[t]].buffer = IF @ = "held" THEN "freed" ELSE @]
              /\ userdata' = userdata \ {t}
              /\ Return(t, "close")
              /\ UNCHANGED <<playback_handle, opened, opens, calls, shared, closed>>

Close(t) == /\ At(t, "close")
            /\ Pass(t, IF playback_handle = 0 THEN "closed" ELSE "pcm_close")
            /\ UNCHANGED <<globals, userdata, history>>

PcmClose(t) == /\ At(t, "pcm_close")
               /\ Misuse(Wrong(t, arg[t]))
               /\ pcms' = [pcms EXCEPT ![arg[t]] = OldPcm]
               /\ Return(t, "closed")
               /\ UNCHANGED <<playback_handle, opened, userdata, opens, calls, shared, closed>>

\* Mutant: a device that was closed stays marked as opened.
Forget_KeepOpened(t) == /\ At(t, "closed")
                        /\ playback_handle' = 0
                        /\ Goto(t, "idle")
                        /\ UNCHANGED <<opened, pcms, userdata, history>>

Forget(t) == /\ At(t, "closed")
             /\ playback_handle' = 0
             /\ opened' = FALSE
             /\ Goto(t, "idle")
             /\ UNCHANGED <<pcms, userdata, history>>

--------------------------------------------------------------------------------
(* playback_set_volume: pcm_set_volume and pcm_get_volume, each given the handle *)

VolumeCall == /\ At(Application, "idle")
              /\ calls < MaxCalls
              /\ calls' = calls + 1
              /\ Pass(Application, "volume")
              /\ UNCHANGED <<globals, userdata, opens, shared, closed, misused>>

VolumeSet == /\ At(Application, "volume")
             /\ Misuse(Wrong(Application, arg[Application]))
             /\ Pass(Application, "volume_get")
             /\ UNCHANGED <<globals, userdata, opens, calls, shared, closed>>

VolumeGet == /\ At(Application, "volume_get")
             /\ Misuse(Wrong(Application, arg[Application]))
             /\ Return(Application, "idle")
             /\ UNCHANGED <<globals, userdata, opens, calls, shared, closed>>

--------------------------------------------------------------------------------
Play(p) == \/ OpenCall(p) \/ OpenPcm(p) \/ OpenPcmFail(p)
           \/ NoMemory(p) \/ Configure(p) \/ ConfigureFail(p)
           \/ StartCall(p) \/ StartPcm(p) \/ StartFail(p)
           \/ WriteCall(p) \/ WritePcm(p) \/ EndTrack(p)

Release(t) == Stop(t) \/ PcmStop(t) \/ Close(t) \/ PcmClose(t) \/ Forget(t)

Volume == VolumeCall \/ VolumeSet \/ VolumeGet

Next == \/ \E p \in Players : Play(p)
        \/ \E t \in Threads : Release(t)
        \/ CloseCall \/ Volume

Spec == Init /\ [][Next]_vars

--------------------------------------------------------------------------------
(* Properties *)

\* A player that has the device for itself never uses a pcm that was closed or never
\* configured and frees nothing twice, through every open and start that fails: the
\* handle, the flag opened and its own configuration agree whenever they are used.
\* Only a second player in the meantime, or the application's player_close, breaks
\* this.  What the application does without waiting for the player is its own risk.
PlaybackSafe == \A m \in misused : m[1] = Application \/ shared \/ closed
================================================================================
