------------------------------ MODULE AudioDevices ------------------------------
(***************************************************************************)
(* The two devices of a program side by side: the capture device, which    *)
(* has a lock, and the playback device, which has none.  They share no     *)
(* state, so a behaviour is of one side only: the capture device, or the   *)
(* playback device of Linux and RT-Thread (closed after a track) or of     *)
(* FreeRTOS (kept open).                                                   *)
(***************************************************************************)
EXTENDS CaptureDevice

CONSTANTS Players, MaxPlays     \* the players, and their MaxOpens

VARIABLES side,
          p_handle, p_opened, p_pcms, p_userdata, p_pc, p_arg, p_opens, p_calls, p_shared,
          p_closed, p_misused

playback == <<p_handle, p_opened, p_pcms, p_userdata, p_pc, p_arg, p_opens, p_calls, p_shared,
              p_closed, p_misused>>
allvars  == <<side, vars, playback>>

Closing == INSTANCE PlaybackDevice WITH
             StaysOpen <- FALSE, MaxOpens <- MaxPlays,
             playback_handle <- p_handle, opened <- p_opened, pcms <- p_pcms,
             userdata <- p_userdata, pc <- p_pc, arg <- p_arg, opens <- p_opens,
             calls <- p_calls, shared <- p_shared, closed <- p_closed, misused <- p_misused

Keeping == INSTANCE PlaybackDevice WITH
             StaysOpen <- TRUE, MaxOpens <- MaxPlays,
             playback_handle <- p_handle, opened <- p_opened, pcms <- p_pcms,
             userdata <- p_userdata, pc <- p_pc, arg <- p_arg, opens <- p_opens,
             calls <- p_calls, shared <- p_shared, closed <- p_closed, misused <- p_misused

ASSUME DevicesAssumption == Closing!PlaybackAssumption

DevicesInit == /\ side \in {"capture", "playback", "playback_freertos"}
               /\ Init
               /\ Closing!Init

OnCapture == side = "capture" /\ UNCHANGED <<side, playback>>

DevicesNext == \/ OnCapture /\ Next
               \/ side = "playback" /\ Closing!Next /\ UNCHANGED <<side, vars>>
               \/ side = "playback_freertos" /\ Keeping!Next /\ UNCHANGED <<side, vars>>

\* The fairness of CaptureDevice; the playback device is checked for safety only.
DevicesSpec ==
  /\ DevicesInit /\ [][DevicesNext]_allvars
  /\ \A r \in Recorders : /\ WF_allvars(OnCapture /\ Capture(r))
                          /\ SF_allvars(OnCapture /\ EndRecording(r))
  /\ \A t \in Threads : WF_allvars(OnCapture /\ Release(t))
  /\ WF_allvars(OnCapture /\ (VolumeSet \/ VolumeGet))

\* PlaybackDevice.tla states it: a player alone with the device never uses a pcm that
\* was closed or never configured, and frees nothing twice.
PlaybackSafe == Closing!PlaybackSafe
================================================================================
