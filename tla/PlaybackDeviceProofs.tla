--------------------------- MODULE PlaybackDeviceProofs ---------------------------
(* The playback device, for any number of players, opens, failures and calls. *)
EXTENDS PlaybackDevice, TLAPS

\* what takes the device away from a player that had it for itself
Defeated == shared \/ closed

\* the player is at the device, or will find its configuration there
Active(p) == pc[p] # "idle" \/ p \in userdata

Freeing == {"close", "pcm_close", "closed"}

Pcm == [open : BOOLEAN, configured : BOOLEAN, buffer : {"none", "held", "freed"}]

TypeInv == /\ pcms \in Seq(Pcm)
           /\ playback_handle \in 0 .. Len(pcms)
           /\ DOMAIN pc = Threads /\ DOMAIN arg = Threads

\* the application touches the device in player_close alone
AppReads == closed \/ pc[Application] \in {"idle", "volume", "volume_get"}

OneActive == \A p, q \in Players : Active(p) /\ Active(q) => p = q

\* what the one player relies on: the flag opened speaks of the pcm that the handle
\* names, and the arguments of its calls are that pcm
Uses(p) ==
  /\ opened => /\ playback_handle # 0
               /\ pc[p] # "closed" => pcms[playback_handle].configured
               /\ p \in userdata \/ pc[p] \in Freeing
  /\ pc[p] = "pcm" => playback_handle = 0
  /\ playback_handle # 0 /\ pc[p] # "closed" => pcms[playback_handle].open
  /\ playback_handle # 0 /\ pc[p] \notin Freeing => pcms[playback_handle].buffer # "freed"
  /\ pc[p] \notin {"idle", "pcm", "config"} => opened
  /\ pc[p] \in {"pcm_start", "write", "pcm_stop", "pcm_close"} => arg[p] = playback_handle

\* between two players the device is closed, and nothing of it is left
UseInv == /\ \A p \in Players : Active(p) => Uses(p)
          /\ (\A p \in Players : ~Active(p)) => ~opened /\ playback_handle = 0

SafeInv == TypeInv /\ AppReads /\ (Defeated \/ (OneActive /\ UseInv)) /\ PlaybackSafe

LEMMA InitSafeInv == Init => SafeInv
<1> SUFFICES ASSUME Init PROVE SafeInv
    OBVIOUS
<1>1. TypeInv /\ AppReads
      BY DEF Init, TypeInv, AppReads, Threads
<1>2. \A p \in Players : ~Active(p)
      BY DEF Init, Active, Threads
<1>3. OneActive /\ UseInv
      BY <1>2 DEF Init, OneActive, UseInv
<1>4. PlaybackSafe
      BY DEF Init, PlaybackSafe
<1> QED BY <1>1, <1>3, <1>4 DEF SafeInv

--------------------------------------------------------------------------------
(* Types *)

\* a sequence of pcms stays one
LEMMA PcmSet == ASSUME NEW s \in Seq(Pcm), NEW i, NEW p, i \in 1 .. Len(s) => p \in Pcm
                PROVE  [s EXCEPT ![i] = p] \in Seq(Pcm) /\ Len([s EXCEPT ![i] = p]) = Len(s)
<1>1. CASE i \in 1 .. Len(s)
      BY <1>1
<1>2. CASE i \notin 1 .. Len(s)
  <2>1. [s EXCEPT ![i] = p] = s
        BY <1>2
  <2> QED BY <2>1
<1> QED BY <1>1, <1>2

\* a pcm whose fields change is a pcm
LEMMA FieldsSet == ASSUME NEW p \in Pcm, NEW b \in {"none", "held", "freed"}
                   PROVE  /\ [p EXCEPT !.buffer = b] \in Pcm
                          /\ [p EXCEPT !.buffer = b].open = p.open
                          /\ [p EXCEPT !.buffer = b].configured = p.configured
<1>1. /\ p = [open |-> p.open, configured |-> p.configured, buffer |-> p.buffer]
      /\ p.open \in BOOLEAN /\ p.configured \in BOOLEAN
      BY DEF Pcm
<1>2. [p EXCEPT !.buffer = b] = [open |-> p.open, configured |-> p.configured, buffer |-> b]
      BY <1>1
<1> QED BY <1>1, <1>2 DEF Pcm

LEMMA ConfiguredPcm == ASSUME NEW p \in Pcm PROVE Configured(p) \in Pcm
      BY DEF Pcm, Configured

LEMMA NextTypeInv == ASSUME TypeInv, [Next]_vars PROVE TypeInv'
<1>1. /\ pcms \in Seq(Pcm) /\ playback_handle \in 0 .. Len(pcms) /\ Len(pcms) \in Nat
      /\ NewPcm \in Pcm /\ OldPcm \in Pcm
      BY DEF TypeInv, Pcm, NewPcm, OldPcm
<1>2. DOMAIN pc' = Threads /\ DOMAIN arg' = Threads
      BY DEF TypeInv, Next, Play, Release, Volume, OpenCall, OpenPcm, OpenPcmFail, NoMemory,
             Configure, ConfigureFail, StartCall, StartPcm, StartFail, WriteCall, WritePcm,
             EndTrack, CloseCall, Stop, PcmStop, Close, PcmClose, Forget, VolumeCall, VolumeSet,
             VolumeGet, Goto, Step, Pass, Return, vars
<1>3. pcms' \in Seq(Pcm) /\ Len(pcms') \in Nat /\ playback_handle' \in 0 .. Len(pcms')
  <2>1. CASE \E p \in Players : OpenPcm(p)
        BY <1>1, <2>1 DEF OpenPcm
  <2>2. CASE \E p \in Players : Configure(p)
    <3>1. /\ playback_handle' = playback_handle
          /\ \/ pcms' = pcms
             \/ pcms' = [pcms EXCEPT ![playback_handle] = Configured(pcms[playback_handle])]
          BY <2>2 DEF Configure
    <3>2. playback_handle \in 1 .. Len(pcms) => Configured(pcms[playback_handle]) \in Pcm
          BY <1>1, ConfiguredPcm
    <3>3. pcms' \in Seq(Pcm) /\ Len(pcms') = Len(pcms)
          BY <1>1, <3>1, <3>2, PcmSet
    <3> QED BY <1>1, <3>1, <3>3
  <2>3. CASE \E p \in Players : NoMemory(p) \/ ConfigureFail(p)
        BY <1>1, <2>3, PcmSet DEF NoMemory, ConfigureFail
  <2>4. CASE \E t \in Threads : PcmStop(t)
    <3>1. PICK t \in Threads : PcmStop(t)
          BY <2>4
    <3>2. /\ pcms' = [pcms EXCEPT ![arg[t]].buffer = IF @ = "held" THEN "freed" ELSE @]
          /\ playback_handle' = playback_handle
          BY <3>1 DEF PcmStop
    <3> DEFINE p == pcms[arg[t]]
               b == IF p.buffer = "held" THEN "freed" ELSE p.buffer
    <3>3. arg[t] \in 1 .. Len(pcms) => p \in Pcm /\ b \in {"none", "held", "freed"}
      <4>1. SUFFICES ASSUME arg[t] \in 1 .. Len(pcms)
                     PROVE  p \in Pcm /\ b \in {"none", "held", "freed"}
            OBVIOUS
      <4>2. p \in Pcm
            BY <1>1, <4>1
      <4>3. p.buffer \in {"none", "held", "freed"}
            BY <4>2 DEF Pcm
      <4> QED BY <4>2, <4>3
    <3>4. pcms' = [pcms EXCEPT ![arg[t]] = [p EXCEPT !.buffer = b]]
          BY <3>2
    <3> HIDE DEF p, b
    <3>5. arg[t] \in 1 .. Len(pcms) => [p EXCEPT !.buffer = b] \in Pcm
          BY <3>3, FieldsSet
    <3>6. pcms' \in Seq(Pcm) /\ Len(pcms') = Len(pcms)
          BY <1>1, <3>4, <3>5, PcmSet
    <3> QED BY <1>1, <3>2, <3>6
  <2>5. CASE \E t \in Threads : PcmClose(t)
        BY <1>1, <2>5, PcmSet DEF PcmClose
  <2>6. CASE \E t \in Threads : Forget(t)
        BY <1>1, <2>6 DEF Forget
  <2>7. CASE \E p \in Players : OpenPcmFail(p)
        BY <1>1, <2>7 DEF OpenPcmFail
  <2>8. CASE UNCHANGED <<pcms, playback_handle>>
        BY <1>1, <2>8
  <2> QED BY <2>1, <2>2, <2>3, <2>4, <2>5, <2>6, <2>7, <2>8
          DEF Next, Play, Release, Volume, OpenCall, StartCall, StartPcm, StartFail, WriteCall,
              WritePcm, EndTrack, CloseCall, Stop, Close, VolumeCall, VolumeSet, VolumeGet,
              globals, vars
<1> QED BY <1>2, <1>3 DEF TypeInv

LEMMA NextAppReads == ASSUME PlaybackAssumption, TypeInv, AppReads, [Next]_vars PROVE AppReads'
<1>1. closed => closed'
      BY DEF Next, Play, Release, Volume, OpenCall, OpenPcm, OpenPcmFail, NoMemory,
             Configure, ConfigureFail, StartCall, StartPcm, StartFail, WriteCall, WritePcm,
             EndTrack, CloseCall, Stop, PcmStop, Close, PcmClose, Forget, VolumeCall, VolumeSet,
             VolumeGet, history, vars
<1>2. CASE CloseCall
      BY <1>2 DEF CloseCall, AppReads
<1>3. CASE (\E p \in Players : Play(p)) \/ \E p \in Players : Release(p)
  <2>1. PICK p \in Players : Play(p) \/ Release(p)
        BY <1>3
  <2>2. pc'[Application] = pc[Application]
        BY <2>1 DEF PlaybackAssumption, TypeInv, Threads, Play, Release, OpenCall, OpenPcm, OpenPcmFail, NoMemory,
             Configure, ConfigureFail, StartCall, StartPcm, StartFail, WriteCall, WritePcm,
             EndTrack, Stop, PcmStop, Close, PcmClose, Forget, Goto, Step, Pass, Return
  <2> QED BY <1>1, <2>2 DEF AppReads
<1>4. CASE Release(Application)
  <2>1. pc[Application] \in {"stop", "pcm_stop", "close", "pcm_close", "closed"}
        BY <1>4 DEF Release, Stop, PcmStop, Close, PcmClose, Forget, At
  <2> QED BY <1>1, <2>1 DEF AppReads
<1>5. CASE Volume
      BY <1>1, <1>5 DEF Volume, VolumeCall, VolumeSet, VolumeGet, Step, Pass, Return, AppReads,
                        TypeInv, Threads
<1>6. CASE UNCHANGED vars
      BY <1>6 DEF vars, AppReads
<1> QED BY <1>2, <1>3, <1>4, <1>5, <1>6 DEF Next, Threads

--------------------------------------------------------------------------------
(* Steps while no second player and no player_close came in between *)

LEMMA DefeatStays == ASSUME [Next]_vars, Defeated PROVE Defeated'
<1>1. closed => closed'
      BY DEF Next, Play, Release, Volume, OpenCall, OpenPcm, OpenPcmFail, NoMemory,
             Configure, ConfigureFail, StartCall, StartPcm, StartFail, WriteCall, WritePcm,
             EndTrack, CloseCall, Stop, PcmStop, Close, PcmClose, Forget, VolumeCall, VolumeSet,
             VolumeGet, history, vars
<1>2. shared => shared'
  <2>1. ASSUME NEW p \in Players, OpenCall(p), shared PROVE shared'
    <3>1. shared' = (shared \/ \E o \in Players \ {p} : pc[o] # "idle" \/ o \in userdata)
          BY <2>1 DEF OpenCall
    <3> QED BY <2>1, <3>1, Zenon
  <2>2. CASE UNCHANGED shared
        BY <2>2
  <2>3. (\E p \in Players : OpenCall(p)) \/ UNCHANGED shared
        BY DEF Next, Play, Release, Volume, OpenPcm, OpenPcmFail, NoMemory,
             Configure, ConfigureFail, StartCall, StartPcm, StartFail, WriteCall, WritePcm,
             EndTrack, CloseCall, Stop, PcmStop, Close, PcmClose, Forget, VolumeCall, VolumeSet,
             VolumeGet, history, vars
  <2> QED BY <2>1, <2>2, <2>3
<1> QED BY <1>1, <1>2 DEF Defeated

\* The active player is alone: its step is right if it leaves things right for itself,
\* or leaves a closed device behind.
LEMMA ActiveStep ==
  ASSUME TypeInv, OneActive, NEW p \in Players, Active(p), NEW where,
         pc' = [pc EXCEPT ![p] = where],
         \A q \in Players \ {p} : q \in userdata' => q \in userdata,
         Active(p)' => Uses(p)',
         ~Active(p)' => ~opened' /\ playback_handle' = 0
  PROVE  (OneActive /\ UseInv)'
<1>1. ASSUME NEW q \in Players, q # p PROVE ~Active(q)'
  <2>1. ~Active(q)
        BY <1>1 DEF OneActive
  <2> QED BY <1>1, <2>1 DEF Active, TypeInv, Threads
<1> QED BY <1>1 DEF OneActive, UseInv

\* A step that leaves the device alone, of the application
LEMMA ReadingStep ==
  ASSUME PlaybackAssumption, TypeInv, OneActive, UseInv,
         UNCHANGED <<globals, userdata>>,
         \A p \in Players : pc'[p] = pc[p] /\ arg'[p] = arg[p]
  PROVE  (OneActive /\ UseInv)'
<1>1. \A p \in Players : (Active(p)' <=> Active(p)) /\ (Uses(p)' <=> Uses(p))
      BY DEF Active, Uses, globals
<1> QED BY <1>1 DEF OneActive, UseInv, globals

LEMMA OpenStep == ASSUME TypeInv, OneActive, UseInv, ~Defeated', NEW p \in Players, OpenCall(p)
                  PROVE  (OneActive /\ UseInv)' /\ misused' = misused
<1>1. /\ pc[p] = "idle" /\ UNCHANGED <<globals, userdata, misused>> /\ arg' = arg
      /\ pc' = [pc EXCEPT ![p] = IF playback_handle = 0 THEN "pcm" ELSE "config"]
      /\ \A q \in Players \ {p} : ~Active(q)
      BY DEF OpenCall, At, Goto, Defeated, Active
<1>2. pc'[p] = IF playback_handle = 0 THEN "pcm" ELSE "config"
      BY <1>1 DEF TypeInv, Threads
<1>3. Uses(p)'
  <2>1. CASE Active(p)
    <3>1. Uses(p)
          BY <2>1 DEF UseInv
    <3> QED BY <1>1, <1>2, <3>1 DEF Uses, globals, Freeing
  <2>2. CASE ~Active(p)
    <3>1. ~opened /\ playback_handle = 0
          BY <1>1, <2>2 DEF UseInv
    <3> QED BY <1>1, <1>2, <3>1 DEF Uses, globals
  <2> QED BY <2>1, <2>2
<1>4. \A q \in Players \ {p} : ~Active(q)'
      BY <1>1 DEF Active, TypeInv, Threads
<1>5. Active(p)'
      BY <1>2 DEF Active
<1> QED BY <1>1, <1>3, <1>4, <1>5 DEF OneActive, UseInv

LEMMA PlayStep == ASSUME TypeInv, OneActive, UseInv, NEW p \in Players, Play(p), ~OpenCall(p)
                  PROVE  (OneActive /\ UseInv)' /\ misused' = misused
<1>1. /\ pcms \in Seq(Pcm) /\ playback_handle \in 0 .. Len(pcms) /\ Len(pcms) \in Nat
      /\ p \in DOMAIN pc /\ p \in DOMAIN arg
      BY DEF TypeInv, Threads
<1>2. pc[p] # "idle" /\ Active(p) /\ Uses(p)
      BY DEF Play, OpenPcm, OpenPcmFail, NoMemory, Configure, ConfigureFail, StartCall, StartPcm,
             StartFail, WriteCall, WritePcm, EndTrack, At, Active, UseInv
<1> USE DEF At, Goto, Step, Pass, Return, Misuse, globals, history
<1>3. CASE OpenPcm(p)
  <2>1. /\ pc[p] = "pcm" /\ pc' = [pc EXCEPT ![p] = "config"]
        /\ pcms' = Append(pcms, NewPcm) /\ playback_handle' = Len(pcms) + 1
        /\ UNCHANGED <<opened, userdata, misused>>
        BY <1>3 DEF OpenPcm
  <2>2. pc'[p] = "config" /\ playback_handle' # 0 /\ pcms'[playback_handle'] = NewPcm
        BY <1>1, <2>1
  <2>3. ~opened'
        BY <1>2, <2>1 DEF Uses
  <2>4. Uses(p)' /\ Active(p)'
        BY <2>2, <2>3 DEF Uses, NewPcm, Active, Freeing
  <2> QED BY <1>2, <2>1, <2>4, ActiveStep
<1>4. CASE OpenPcmFail(p) \/ NoMemory(p) \/ ConfigureFail(p)
  <2>1. /\ pc[p] \in {"pcm", "config"} /\ pc' = [pc EXCEPT ![p] = "idle"]
        /\ pc[p] = "config" => p \notin userdata \/ ~opened
        /\ playback_handle' = 0
        /\ UNCHANGED <<opened, userdata>>
        /\ \/ misused' = misused
           \/ misused' = misused \cup Wrong(p, playback_handle) /\ pc[p] = "config"
        BY <1>4 DEF OpenPcmFail, NoMemory, ConfigureFail
  <2>2. ~opened
        BY <1>2, <2>1 DEF Uses, Freeing
  <2>3. misused' = misused
        BY <1>2, <2>1 DEF Uses, Wrong
  <2>4. Uses(p)'
        BY <1>1, <2>1, <2>2 DEF Uses
  <2> QED BY <1>2, <2>1, <2>2, <2>3, <2>4, ActiveStep
<1>5. CASE Configure(p)
  <2>1. /\ pc[p] = "config" /\ pc' = [pc EXCEPT ![p] = "start"] /\ arg' = arg
        /\ opened' = TRUE /\ userdata' = userdata \cup {p}
        /\ playback_handle' = playback_handle
        BY <1>5 DEF Configure
  <2>2. pc'[p] = "start"
        BY <1>1, <2>1
  <2>3. /\ misused' = misused
        /\ playback_handle # 0 /\ pcms'[playback_handle].configured
        /\ pcms'[playback_handle].open /\ pcms'[playback_handle].buffer # "freed"
    <3>1. CASE opened
          BY <1>2, <1>5, <2>1, <3>1 DEF Configure, Uses, Freeing
    <3>2. CASE ~opened
      <4>1. /\ playback_handle \in 1 .. Len(pcms)
            /\ pcms' = [pcms EXCEPT ![playback_handle] = Configured(@)]
            /\ misused' = misused \cup Wrong(p, playback_handle)
            BY <1>1, <1>5, <3>2 DEF Configure
      <4>2. pcms[playback_handle].open
            BY <1>2, <2>1, <4>1 DEF Uses
      <4>3. pcms'[playback_handle] = Configured(pcms[playback_handle])
            BY <1>1, <4>1
      <4> QED BY <4>1, <4>2, <4>3 DEF Configured, Wrong
    <3> QED BY <3>1, <3>2
  <2>4. Uses(p)' /\ Active(p)'
        BY <2>1, <2>2, <2>3 DEF Uses, Active
  <2> QED BY <1>2, <2>1, <2>3, <2>4, ActiveStep
<1>6. CASE StartCall(p) \/ StartPcm(p) \/ StartFail(p) \/ WriteCall(p) \/ WritePcm(p) \/ EndTrack(p)
  <2>1. /\ UNCHANGED <<globals, userdata>>
        /\ pc[p] \in {"start", "pcm_start", "run", "write"}
        /\ \E where \in {"pcm_start", "run", "write", "idle", "stop"} :
              /\ pc' = [pc EXCEPT ![p] = where]
              /\ where \in {"pcm_start", "write"} => arg' = [arg EXCEPT ![p] = playback_handle]
        /\ \/ misused' = misused
           \/ misused' = misused \cup Wrong(p, arg[p]) /\ pc[p] = "pcm_start"
           \/ misused' = misused \cup (Wrong(p, arg[p]) \cup Unsized(p, arg[p])) /\ pc[p] = "write"
        BY <1>6 DEF StartCall, StartPcm, StartFail, WriteCall, WritePcm, EndTrack
  <2>2. misused' = misused
        BY <1>2, <2>1 DEF Uses, Wrong, Unsized
  <2>3. Uses(p)' /\ Active(p)'
        BY <1>1, <1>2, <2>1 DEF Uses, Active, Freeing
  <2> QED BY <1>2, <2>1, <2>2, <2>3, ActiveStep
<1> QED BY <1>3, <1>4, <1>5, <1>6 DEF Play

LEMMA ReleaseStep == ASSUME TypeInv, OneActive, UseInv, NEW p \in Players, Release(p)
                     PROVE  (OneActive /\ UseInv)' /\ misused' = misused
<1>1. /\ pcms \in Seq(Pcm) /\ playback_handle \in 0 .. Len(pcms) /\ Len(pcms) \in Nat
      /\ p \in DOMAIN pc /\ p \in DOMAIN arg
      BY DEF TypeInv, Threads
<1>2. pc[p] # "idle" /\ Active(p) /\ Uses(p) /\ opened /\ playback_handle # 0
      BY DEF Release, Stop, PcmStop, Close, PcmClose, Forget, At, Active, UseInv, Uses
<1>3. playback_handle \in 1 .. Len(pcms) /\ pcms[playback_handle] \in Pcm
      BY <1>1, <1>2
<1> USE DEF At, Goto, Step, Pass, Return, Misuse, globals, history
<1>4. CASE Stop(p) \/ Close(p)
  <2>1. /\ UNCHANGED <<globals, userdata, misused>>
        /\ \/ pc[p] = "stop" /\ pc' = [pc EXCEPT ![p] = "pcm_stop"]
           \/ pc[p] = "close" /\ pc' = [pc EXCEPT ![p] = "pcm_close"]
        /\ arg' = [arg EXCEPT ![p] = playback_handle]
        BY <1>2, <1>4 DEF Stop, Close
  <2>2. Uses(p)' /\ Active(p)'
        BY <1>1, <1>2, <2>1 DEF Uses, Active, Freeing
  <2> QED BY <1>2, <2>1, <2>2, ActiveStep
<1>5. CASE PcmStop(p)
  <2>1. /\ pc[p] = "pcm_stop" /\ pc' = [pc EXCEPT ![p] = "close"] /\ arg[p] = playback_handle
        /\ pcms' = [pcms EXCEPT ![arg[p]].buffer = IF @ = "held" THEN "freed" ELSE @]
        /\ userdata' = userdata \ {p} /\ UNCHANGED <<playback_handle, opened>>
        /\ misused' = misused \cup (Wrong(p, arg[p]) \cup FreedTwice(p, arg[p]))
        BY <1>2, <1>5 DEF PcmStop, Uses
  <2>2. /\ pcms[playback_handle].open /\ pcms[playback_handle].configured
        /\ pcms[playback_handle].buffer # "freed"
        BY <1>2, <2>1 DEF Uses, Freeing
  <2>3. misused' = misused
        BY <2>1, <2>2 DEF Wrong, FreedTwice
  <2> DEFINE b == IF pcms[playback_handle].buffer = "held" THEN "freed"
                  ELSE pcms[playback_handle].buffer
  <2>4. pcms'[playback_handle] = [pcms[playback_handle] EXCEPT !.buffer = b]
        BY <1>3, <2>1
  <2>5. b \in {"none", "held", "freed"}
        BY <1>3 DEF Pcm
  <2> HIDE DEF b
  <2>6. pcms'[playback_handle].open /\ pcms'[playback_handle].configured
        BY <1>3, <2>2, <2>4, <2>5, FieldsSet
  <2>7. Uses(p)' /\ Active(p)'
        BY <1>1, <1>2, <2>1, <2>6 DEF Uses, Active, Freeing
  <2> QED BY <1>2, <2>1, <2>3, <2>7, ActiveStep
<1>6. CASE PcmClose(p)
  <2>1. /\ pc[p] = "pcm_close" /\ pc' = [pc EXCEPT ![p] = "closed"] /\ arg[p] = playback_handle
        /\ UNCHANGED <<playback_handle, opened, userdata>>
        /\ misused' = misused \cup Wrong(p, arg[p])
        BY <1>2, <1>6 DEF PcmClose, Uses
  <2>2. misused' = misused
        BY <1>2, <2>1 DEF Uses, Wrong
  <2>3. Uses(p)' /\ Active(p)'
        BY <1>1, <1>2, <2>1 DEF Uses, Active, Freeing
  <2> QED BY <1>2, <2>1, <2>2, <2>3, ActiveStep
<1>7. CASE Forget(p)
  <2>1. /\ pc' = [pc EXCEPT ![p] = "idle"] /\ playback_handle' = 0 /\ opened' = FALSE
        /\ UNCHANGED <<userdata, misused>>
        BY <1>7 DEF Forget
  <2>2. Uses(p)'
        BY <1>1, <2>1 DEF Uses
  <2> QED BY <1>2, <2>1, <2>2, ActiveStep
<1> QED BY <1>4, <1>5, <1>6, <1>7 DEF Release

LEMMA ApplicationStep ==
  ASSUME PlaybackAssumption, TypeInv, OneActive, UseInv, Volume
  PROVE  (OneActive /\ UseInv)' /\ \A m \in misused' : m \in misused \/ m[1] = Application
<1>1. UNCHANGED <<globals, userdata>> /\ \A p \in Players : pc'[p] = pc[p] /\ arg'[p] = arg[p]
      BY DEF Volume, VolumeCall, VolumeSet, VolumeGet, Step, Pass, Return, PlaybackAssumption,
             TypeInv, Threads, globals
<1>2. \A m \in misused' : m \in misused \/ m[1] = Application
      BY DEF Volume, VolumeCall, VolumeSet, VolumeGet, Misuse, Wrong
<1> QED BY <1>1, <1>2, ReadingStep

LEMMA NextSafeInv == PlaybackAssumption /\ SafeInv /\ [Next]_vars => SafeInv'
<1> SUFFICES ASSUME PlaybackAssumption, SafeInv, [Next]_vars PROVE SafeInv'
    OBVIOUS
<1>1. TypeInv' /\ AppReads'
      BY NextTypeInv, NextAppReads DEF SafeInv
<1>2. CASE Defeated'
      BY <1>1, <1>2 DEF SafeInv, PlaybackSafe, Defeated
<1>3. CASE ~Defeated'
  <2>1. TypeInv /\ OneActive /\ UseInv /\ ~Defeated
        BY <1>3, DefeatStays DEF SafeInv
  <2>2. (OneActive /\ UseInv)' /\ \A m \in misused' : m \in misused \/ m[1] = Application
    <3>1. CASE \E p \in Players : OpenCall(p)
          BY <1>3, <2>1, <3>1, OpenStep
    <3>2. CASE \E p \in Players : Play(p) /\ ~OpenCall(p)
          BY <2>1, <3>2, PlayStep
    <3>3. CASE \E p \in Players : Release(p)
          BY <2>1, <3>3, ReleaseStep
    <3>4. CASE Release(Application) \/ CloseCall
      <4>1. pc[Application] \notin {"idle", "volume", "volume_get"} \/ closed'
            BY <3>4 DEF Release, Stop, PcmStop, Close, PcmClose, Forget, At, CloseCall
      <4> QED BY <1>3, <2>1, <4>1 DEF SafeInv, AppReads, Defeated
    <3>5. CASE Volume
          BY <2>1, <3>5, ApplicationStep
    <3>6. CASE UNCHANGED vars
      <4>1. /\ UNCHANGED <<globals, userdata>> /\ misused' = misused
            /\ \A p \in Players : pc'[p] = pc[p] /\ arg'[p] = arg[p]
            BY <3>6 DEF vars, globals
      <4> QED BY <2>1, <4>1, ReadingStep
    <3> QED BY <3>1, <3>2, <3>3, <3>4, <3>5, <3>6 DEF Next, Threads
  <2>3. PlaybackSafe'
        BY <2>1, <2>2 DEF SafeInv, PlaybackSafe, Defeated
  <2> QED BY <1>1, <2>2, <2>3 DEF SafeInv
<1> QED BY <1>2, <1>3

\* playback_impl.c: for any number of players, opens, failures and calls of the
\* application, on a system that closes the device after a track or on one that keeps
\* it open, a player uses no pcm that was closed or never configured and frees nothing
\* twice, until a second player opened the device or the application closed it.
THEOREM PlaybackIsSafe == ASSUME PlaybackAssumption PROVE Spec => []PlaybackSafe
<1>1. SafeInv => PlaybackSafe
      BY DEF SafeInv
<1>2. SafeInv /\ [Next]_vars => SafeInv'
      BY NextSafeInv
<1> QED BY <1>1, <1>2, InitSafeInv, PTL DEF Spec
================================================================================
