--------------------------- MODULE AudioDevicesProofs ---------------------------
(* The capture device, for any number of recorders, recordings and calls; then the two *)
(* devices side by side.                                                              *)
EXTENDS AudioDevices, TLAPS

Owners == Threads \cup {Nobody}

Releasing == {"stop", "pcm_stop", "close", "pcm_close", "unlock"}

LockTypeOK == /\ locks \in Seq(Owners)
              /\ capture_lock \in 0 .. Len(locks)
              /\ DOMAIN pc = Threads
              /\ DOMAIN arg = Threads

\* who takes a lock takes one that was created
LockExists == \A r \in Recorders : /\ pc[r] = "lock" => capture_lock # 0
                                   /\ pc[r] = "wait" => arg[r] \in 1 .. Len(locks)

\* who is inside owns the only lock there is
InsideOwns == \A r \in Recorders : Inside(r) => Defeated \/ (Len(locks) = 1 /\ locks[1] = r)

\* the application releases the device in recorder_close alone
CloseReleases == pc[Application] \in Releasing => closed

LockInv == LockTypeOK /\ LockExists /\ InsideOwns /\ CloseReleases

LEMMA InitLockInv == Init => LockInv
<1> SUFFICES ASSUME Init PROVE LockInv
    OBVIOUS
<1> USE CaptureAssumption DEF Init, Threads
<1>1. LockTypeOK
  <2>1. locks \in Seq(Owners) /\ Len(locks) = 0
        OBVIOUS
  <2> QED BY <2>1 DEF LockTypeOK
<1>2. LockExists
      BY DEF LockExists
<1>3. InsideOwns
      BY DEF InsideOwns, Inside
<1>4. CloseReleases
      BY DEF CloseReleases, Releasing
<1> QED BY <1>1, <1>2, <1>3, <1>4 DEF LockInv

\* A step of a thread that leaves the locks alone and enters neither of them.
LEMMA MoveKeepsLockInv ==
  ASSUME LockInv, NEW t \in Threads, NEW where, NEW value,
         UNCHANGED <<locks, capture_lock>>, closed => closed',
         pc' = [pc EXCEPT ![t] = where],
         arg' = arg \/ arg' = [arg EXCEPT ![t] = value],
         where # "lock" /\ where # "wait",
         t \in Recorders => (Inside(t)' => Inside(t)),
         t = Application => (where \in Releasing => closed')
  PROVE  LockInv'
<1> USE CaptureAssumption DEF LockInv, Threads
<1>1. LockTypeOK'
      BY DEF LockTypeOK, Owners
<1>2. LockExists'
      BY DEF LockExists, LockTypeOK
<1>3. ASSUME NEW r \in Recorders, Inside(r)' PROVE Defeated' \/ (Len(locks') = 1 /\ locks'[1] = r)
  <2>1. Inside(r)
        BY <1>3 DEF Inside, LockTypeOK
  <2> QED BY <2>1 DEF InsideOwns, Defeated
<1>4. CloseReleases'
      BY DEF CloseReleases, LockTypeOK
<1> QED BY <1>1, <1>2, <1>3, <1>4 DEF InsideOwns

LEMMA NextLockInv == LockInv /\ [Next]_vars => LockInv'
<1> SUFFICES ASSUME LockInv, [Next]_vars PROVE LockInv'
    OBVIOUS
<1> USE CaptureAssumption DEF Threads
<1>1. ASSUME NEW r \in Recorders, Capture(r) PROVE LockInv'
  <2> USE DEF At, Goto, Step, Return, Pass, globals, counts, Inside
  <2>1. CASE OpenCall(r)
    <3>1. LockTypeOK'
          BY <2>1 DEF OpenCall, LockInv, LockTypeOK, Owners
    <3>2. LockExists'
          BY <2>1 DEF OpenCall, LockInv, LockExists, LockTypeOK
    <3>3. InsideOwns' /\ CloseReleases'
          BY <2>1 DEF OpenCall, LockInv, InsideOwns, CloseReleases, LockTypeOK, Defeated, Releasing
    <3> QED BY <3>1, <3>2, <3>3 DEF LockInv
  <2>2. CASE CreateLock(r)
    <3>1. /\ locks' = Append(locks, Nobody) /\ capture_lock' = Len(locks) + 1
          /\ pc' = [pc EXCEPT ![r] = "lock"] /\ arg' = arg /\ closed' = closed
          BY <2>2 DEF CreateLock
    <3>2. locks \in Seq(Owners) /\ Nobody \in Owners
          BY DEF LockInv, LockTypeOK, Owners
    <3>3. Len(locks') = Len(locks) + 1 /\ locks' \in Seq(Owners) /\ Len(locks) \in Nat
          BY <3>1, <3>2
    <3>4. LockTypeOK'
          BY <3>1, <3>3 DEF LockInv, LockTypeOK
    <3>5. LockExists'
          BY <3>1, <3>3 DEF LockInv, LockExists, LockTypeOK
    <3>6. ASSUME NEW q \in Recorders, Inside(q)' PROVE Defeated'
      <4>1. Inside(q)
            BY <3>1, <3>6 DEF LockInv, LockTypeOK
      <4>2. Defeated \/ Len(locks) = 1
            BY <4>1 DEF LockInv, InsideOwns
      <4> QED BY <4>2, <3>1, <3>3 DEF Defeated
    <3>7. CloseReleases'
          BY <3>1 DEF LockInv, LockTypeOK, CloseReleases, Releasing
    <3> QED BY <3>4, <3>5, <3>6, <3>7 DEF LockInv, InsideOwns
  <2>3. CASE LockCall(r)
    <3>1. LockTypeOK'
          BY <2>3 DEF LockCall, LockInv, LockTypeOK, Owners
    <3>2. LockExists'
          BY <2>3 DEF LockCall, LockInv, LockExists, LockTypeOK
    <3>3. InsideOwns' /\ CloseReleases'
          BY <2>3 DEF LockCall, LockInv, InsideOwns, CloseReleases, LockTypeOK, Defeated, Releasing
    <3> QED BY <3>1, <3>2, <3>3 DEF LockInv
  <2>4. CASE Lock(r)
    <3>1. /\ pc[r] = "wait" /\ locks[arg[r]] = Nobody /\ locks' = [locks EXCEPT ![arg[r]] = r]
          /\ pc' = [pc EXCEPT ![r] = "open"] /\ arg' = [arg EXCEPT ![r] = 0]
          /\ capture_lock' = capture_lock /\ closed' = closed
          BY <2>4 DEF Lock
    <3>2. arg[r] \in 1 .. Len(locks) /\ locks \in Seq(Owners) /\ r \in Owners
          BY <3>1 DEF LockInv, LockExists, LockTypeOK, Owners
    <3>3. Len(locks') = Len(locks) /\ locks' \in Seq(Owners) /\ Len(locks) \in Nat
          BY <3>1, <3>2
    <3>4. LockTypeOK'
          BY <3>1, <3>3 DEF LockInv, LockTypeOK
    <3>5. LockExists'
          BY <3>1, <3>3 DEF LockInv, LockExists, LockTypeOK
    <3>6. ASSUME NEW q \in Recorders, Inside(q)', ~Defeated'
          PROVE  Len(locks') = 1 /\ locks'[1] = q
      <4>1. Len(locks) = 1 /\ arg[r] = 1 /\ locks' [1] = r /\ ~Defeated
            BY <3>1, <3>2, <3>3, <3>6 DEF Defeated
      <4>2. CASE q = r
            BY <4>1, <4>2, <3>3
      <4>3. CASE q # r
        <5>1. Inside(q)
              BY <3>1, <3>6, <4>3 DEF LockInv, LockTypeOK
        <5>2. locks[1] = q
              BY <5>1, <4>1 DEF LockInv, InsideOwns
        <5> QED BY <5>2, <4>1, <3>1
      <4> QED BY <4>2, <4>3
    <3>7. CloseReleases'
          BY <3>1 DEF LockInv, LockTypeOK, CloseReleases, Releasing
    <3> QED BY <3>4, <3>5, <3>6, <3>7 DEF LockInv, InsideOwns
  <2> USE MoveKeepsLockInv DEF LockInv, LockTypeOK
  <2>5. CASE OpenShared(r)
        BY <2>5 DEF OpenShared
  <2>6. CASE OpenPcm(r)
        BY <2>6 DEF OpenPcm
  <2>7. CASE OpenPcmFail(r)
        BY <2>7 DEF OpenPcmFail
  <2>8. CASE Configure(r)
        BY <2>8 DEF Configure
  <2>9. CASE ConfigureFail(r)
        BY <2>9 DEF ConfigureFail
  <2>10. CASE ReadCall(r)
        BY <2>10 DEF ReadCall
  <2>11. CASE ReadPcm(r)
        BY <2>11 DEF ReadPcm
  <2>12. CASE ReadConvert(r)
        BY <2>12 DEF ReadConvert
  <2>13. CASE EndRecording(r)
        BY <2>13 DEF EndRecording
  <2> QED BY <1>1, <2>1, <2>2, <2>3, <2>4, <2>5, <2>6, <2>7, <2>8, <2>9, <2>10, <2>11, <2>12, <2>13
          DEF Capture
<1>2. ASSUME NEW t \in Threads, Release(t) PROVE LockInv'
  <2> USE DEF At, Goto, Step, Return, Pass, globals, counts, Inside
  <2>1. t = Application => closed \/ pc[Application] \notin Releasing
        BY DEF LockInv, CloseReleases
  <2>2. CASE Unlock(t)
    <3>1. /\ pc[t] = "unlock" /\ pc' = [pc EXCEPT ![t] = "idle"] /\ arg' = arg
          /\ capture_lock' = capture_lock /\ closed' = closed
          /\ \/ locks' = locks
             \/ capture_lock # 0 /\ locks' = [locks EXCEPT ![capture_lock] = Nobody]
          BY <2>2 DEF Unlock
    <3>2. locks \in Seq(Owners) /\ Nobody \in Owners /\ capture_lock \in 0 .. Len(locks)
          BY DEF LockInv, LockTypeOK, Owners
    <3>3. Len(locks') = Len(locks) /\ locks' \in Seq(Owners)
          BY <3>1, <3>2
    <3>4. LockTypeOK'
          BY <3>1, <3>2, <3>3 DEF LockInv, LockTypeOK
    <3>5. LockExists'
          BY <3>1, <3>3 DEF LockInv, LockExists, LockTypeOK
    <3>6. ASSUME NEW q \in Recorders, Inside(q)', ~Defeated' PROVE FALSE
      <4>1. Inside(q) /\ q # t /\ ~Defeated
            BY <3>1, <3>3, <3>6 DEF LockInv, LockTypeOK, Defeated
      <4>2. t \in Recorders /\ Inside(t)
            BY <2>1, <3>1, <4>1 DEF Releasing, Defeated
      <4> QED BY <4>1, <4>2 DEF LockInv, InsideOwns
    <3>7. CloseReleases'
          BY <3>1 DEF LockInv, LockTypeOK, CloseReleases, Releasing
    <3> QED BY <3>4, <3>5, <3>6, <3>7 DEF LockInv, InsideOwns
  <2> USE MoveKeepsLockInv DEF LockInv, LockTypeOK, Releasing
  <2>3. CASE Stop(t)
        BY <2>1, <2>3 DEF Stop
  <2>4. CASE PcmStop(t)
        BY <2>1, <2>4 DEF PcmStop
  <2>5. CASE Close(t)
        BY <2>1, <2>5 DEF Close
  <2>6. CASE PcmClose(t)
        BY <2>1, <2>6 DEF PcmClose
  <2> QED BY <1>2, <2>2, <2>3, <2>4, <2>5, <2>6 DEF Release
<1>3. ASSUME CloseCall \/ Volume PROVE LockInv'
  <2> USE MoveKeepsLockInv
      DEF At, Goto, Step, Return, Pass, globals, counts, Inside, LockInv, LockTypeOK, Releasing
  <2>1. CASE CloseCall
        BY <2>1 DEF CloseCall
  <2>2. CASE VolumeCall
        BY <2>2 DEF VolumeCall
  <2>3. CASE VolumeSet
        BY <2>3 DEF VolumeSet
  <2>4. CASE VolumeGet
        BY <2>4 DEF VolumeGet
  <2> QED BY <1>3, <2>1, <2>2, <2>3, <2>4 DEF Volume
<1>4. CASE UNCHANGED vars
      BY <1>4 DEF vars, LockInv, LockTypeOK, LockExists, InsideOwns, CloseReleases, Inside, Defeated
<1> QED BY <1>1, <1>2, <1>3, <1>4 DEF Next

\* The inductive invariant: a recorder inside owns the only lock there is, unless the
\* lock is defeated.
THEOREM CaptureLockInvariant == Spec => []LockInv
<1> QED BY InitLockInv, NextLockInv, PTL DEF Spec

\* capture_impl.c: for any number of recorders, opens, failures and calls of the
\* application at most one capture thread is between its open and its close, unless
\* recorder_close was called or two locks were created.
THEOREM OneCapture == Spec => []CaptureExclusive
<1>1. LockInv => CaptureExclusive
      BY DEF LockInv, InsideOwns, CaptureExclusive
<1> QED BY <1>1, CaptureLockInvariant, PTL

--------------------------------------------------------------------------------
(* The objects behind the lock: whoever is inside finds the handle, the pcm, its *)
(* buffer and the configuration as the steps since its own open left them.       *)

Pcm == [open : BOOLEAN, buffer : {"none", "held", "freed"}]

PcmTypeOK == /\ pcms \in Seq(Pcm)
             /\ capture_handle \in 0 .. Len(pcms)
             /\ capture_lock = Len(locks)

\* what a recorder inside relies on
Uses(r) ==
  IF pc[r] = "open" THEN capture_handle = 0
  ELSE /\ capture_handle # 0
       /\ pc[r] # "unlock" => pcms[capture_handle].open
       /\ pc[r] \in {"read", "pcm_stop", "pcm_close"} => arg[r] = capture_handle
       /\ pc[r] \notin {"close", "pcm_close", "unlock"} => pcms[capture_handle].buffer # "freed"
       /\ pc[r] \notin {"pcm_close", "unlock"} => g_config = "held"

\* a handle that nobody uses is NULL
HandleUsed == capture_handle = 0 \/ \E r \in Recorders : Inside(r)

UseInv == Defeated \/ (HandleUsed /\ \A r \in Recorders : Inside(r) => Uses(r))

SafeInv == LockInv /\ PcmTypeOK /\ UseInv /\ CaptureSafe

LEMMA InitSafeInv == Init => SafeInv
<1> SUFFICES ASSUME Init PROVE SafeInv
    OBVIOUS
<1>1. LockInv
      BY InitLockInv
<1>2. PcmTypeOK
      BY DEF Init, PcmTypeOK
<1>3. UseInv
      BY CaptureAssumption DEF Init, UseInv, HandleUsed, Inside, Threads
<1>4. CaptureSafe
      BY DEF Init, CaptureSafe
<1> QED BY <1>1, <1>2, <1>3, <1>4 DEF SafeInv

\* A lock that was defeated stays so.
LEMMA DefeatStays == ASSUME LockInv, [Next]_vars, Defeated PROVE Defeated'
<1>1. Len(locks) \in Nat /\ locks \in Seq(Owners)
      BY DEF LockInv, LockTypeOK
<1>2. closed => closed'
      BY DEF Next, Capture, Release, Volume, OpenCall, CreateLock, LockCall, Lock, OpenShared,
             OpenPcm, OpenPcmFail, Configure, ConfigureFail, ReadCall, ReadPcm, ReadConvert,
             EndRecording, CloseCall, Stop, PcmStop, Close, PcmClose, Unlock, VolumeCall,
             VolumeSet, VolumeGet, counts, vars
<1>3. \/ locks' = locks
      \/ locks' = Append(locks, Nobody)
      \/ \E i, o : locks' = [locks EXCEPT ![i] = o]
      BY DEF Next, Capture, Release, Volume, OpenCall, CreateLock, LockCall, Lock, OpenShared,
             OpenPcm, OpenPcmFail, Configure, ConfigureFail, ReadCall, ReadPcm, ReadConvert,
             EndRecording, CloseCall, Stop, PcmStop, Close, PcmClose, Unlock, VolumeCall,
             VolumeSet, VolumeGet, globals, vars
<1>4. Nobody \in Owners
      BY DEF Owners
<1>5. ASSUME NEW i, NEW o, locks' = [locks EXCEPT ![i] = o] PROVE Len(locks') = Len(locks)
      BY <1>1, <1>5
<1>6. CASE locks' = Append(locks, Nobody)
      BY <1>1, <1>2, <1>4, <1>6 DEF Defeated
<1>7. CASE Len(locks') = Len(locks)
      BY <1>2, <1>7 DEF Defeated
<1> QED BY <1>3, <1>5, <1>6, <1>7

\* a pcm whose buffer changed is a pcm
LEMMA BufferSet == ASSUME NEW p \in Pcm, NEW b \in {"none", "held", "freed"}
                   PROVE  [p EXCEPT !.buffer = b] \in Pcm
<1>1. p = [open |-> p.open, buffer |-> p.buffer] /\ p.open \in BOOLEAN
      BY DEF Pcm
<1>2. [p EXCEPT !.buffer = b] = [open |-> p.open, buffer |-> b]
      BY <1>1
<1> QED BY <1>1, <1>2 DEF Pcm

\* a sequence of pcms stays one
LEMMA PcmSet == ASSUME NEW s \in Seq(Pcm), NEW i, NEW p, i \in 1 .. Len(s) => p \in Pcm
                PROVE  [s EXCEPT ![i] = p] \in Seq(Pcm) /\ Len([s EXCEPT ![i] = p]) = Len(s)
<1>1. CASE i \in 1 .. Len(s)
      BY <1>1
<1>2. CASE i \notin 1 .. Len(s)
  <2>1. [s EXCEPT ![i] = p] = s
        BY <1>2
  <2> QED BY <2>1
<1> QED BY <1>1, <1>2

LEMMA NextPcmTypeOK == ASSUME LockInv, PcmTypeOK, [Next]_vars PROVE PcmTypeOK'
<1>1. /\ pcms \in Seq(Pcm) /\ capture_handle \in 0 .. Len(pcms) /\ Len(pcms) \in Nat
      /\ NewPcm \in Pcm /\ OldPcm \in Pcm
      BY DEF PcmTypeOK, Pcm, NewPcm, OldPcm
<1>2. /\ locks \in Seq(Owners) /\ capture_lock = Len(locks) /\ Nobody \in Owners
      BY DEF LockInv, LockTypeOK, PcmTypeOK, Owners
<1>3. capture_lock' = Len(locks')
  <2>1. \/ locks' = locks /\ capture_lock' = capture_lock
        \/ locks' = Append(locks, Nobody) /\ capture_lock' = Len(locks) + 1
        \/ (\E i, o : locks' = [locks EXCEPT ![i] = o]) /\ capture_lock' = capture_lock
        BY DEF Next, Capture, Release, Volume, OpenCall, CreateLock, LockCall, Lock, OpenShared,
               OpenPcm, OpenPcmFail, Configure, ConfigureFail, ReadCall, ReadPcm, ReadConvert,
               EndRecording, CloseCall, Stop, PcmStop, Close, PcmClose, Unlock, VolumeCall,
               VolumeSet, VolumeGet, globals, vars
  <2> QED BY <1>2, <2>1
<1>4. pcms' \in Seq(Pcm) /\ Len(pcms') \in Nat /\ capture_handle' \in 0 .. Len(pcms')
  <2>1. CASE \E r \in Recorders : OpenPcm(r)
        BY <1>1, <2>1 DEF OpenPcm
  <2>2. CASE \E r \in Recorders : Configure(r)
    <3>1. /\ pcms' = [pcms EXCEPT ![capture_handle].buffer = "held"]
          /\ capture_handle' = capture_handle /\ capture_handle \in 1 .. Len(pcms)
          BY <1>1, <2>2 DEF Configure
    <3>2. pcms[capture_handle] \in Pcm
          BY <1>1, <3>1
    <3>3. [pcms[capture_handle] EXCEPT !.buffer = "held"] \in Pcm
          BY <3>2, BufferSet
    <3>4. pcms' = [pcms EXCEPT ![capture_handle] = [pcms[capture_handle] EXCEPT !.buffer = "held"]]
          BY <3>1
    <3> QED BY <1>1, <3>1, <3>3, <3>4, PcmSet
  <2>3. CASE \E r \in Recorders : ConfigureFail(r)
        BY <1>1, <2>3 DEF ConfigureFail
  <2>4. CASE \E t \in Threads : PcmStop(t)
    <3>1. PICK t \in Threads : PcmStop(t)
          BY <2>4
    <3>2. /\ pcms' = [pcms EXCEPT ![arg[t]].buffer = IF @ = "held" THEN "freed" ELSE @]
          /\ capture_handle' = capture_handle
          BY <3>1 DEF PcmStop
    <3> DEFINE p == pcms[arg[t]]
               b == IF p.buffer = "held" THEN "freed" ELSE p.buffer
    <3>3. arg[t] \in 1 .. Len(pcms) => p \in Pcm /\ b \in {"none", "held", "freed"}
      <4>1. SUFFICES ASSUME arg[t] \in 1 .. Len(pcms)
                     PROVE  p \in Pcm /\ b \in {"none", "held", "freed"}
            OBVIOUS
      <4>2. p \in Pcm
            BY <1>1, <4>1
      <4>3. p.buffer \in {"none", "held", "freed"}
            BY <4>2 DEF Pcm
      <4> QED BY <4>2, <4>3
    <3>4. pcms' = [pcms EXCEPT ![arg[t]] = [p EXCEPT !.buffer = b]]
          BY <3>2
    <3> HIDE DEF p, b
    <3>5. arg[t] \in 1 .. Len(pcms) => [p EXCEPT !.buffer = b] \in Pcm
          BY <3>3, BufferSet
    <3>6. pcms' \in Seq(Pcm) /\ Len(pcms') = Len(pcms)
          BY <1>1, <3>4, <3>5, PcmSet
    <3> QED BY <1>1, <3>2, <3>6
  <2>5. CASE \E t \in Threads : PcmClose(t)
        BY <1>1, <2>5, PcmSet DEF PcmClose
  <2>6. CASE \E t \in Threads : Unlock(t)
        BY <1>1, <2>6 DEF Unlock
  <2>7. CASE UNCHANGED <<pcms, capture_handle>>
        BY <1>1, <2>7
  <2> QED BY <2>1, <2>2, <2>3, <2>4, <2>5, <2>6, <2>7
          DEF Next, Capture, Release, Volume, OpenCall, CreateLock, LockCall, Lock, OpenShared,
              OpenPcmFail, ReadCall, ReadPcm, ReadConvert, EndRecording, CloseCall, Stop, Close,
              VolumeCall, VolumeSet, VolumeGet, globals, vars
<1> QED BY <1>3, <1>4 DEF PcmTypeOK

\* A thread that is not inside and leaves the device alone changes nothing for who is.
LEMMA OutsideStep ==
  ASSUME LockInv, UseInv, ~Defeated, NEW t \in Threads, NEW where, NEW value,
         UNCHANGED <<capture_handle, pcms, g_config>>,
         pc' = [pc EXCEPT ![t] = where],
         arg' = arg \/ arg' = [arg EXCEPT ![t] = value],
         t \in Recorders => ~Inside(t) /\ ~Inside(t)'
  PROVE  UseInv'
<1>1. \A r \in Recorders : r # t => pc'[r] = pc[r] /\ arg'[r] = arg[r]
      BY DEF LockInv, LockTypeOK, Threads
<1>2. \A r \in Recorders : Inside(r)' <=> Inside(r)
      BY <1>1 DEF Inside
<1>3. HandleUsed'
      BY <1>2 DEF UseInv, HandleUsed
<1>4. ASSUME NEW r \in Recorders, Inside(r)' PROVE Uses(r)'
  <2>1. Uses(r) /\ r # t
        BY <1>2, <1>4 DEF UseInv
  <2> QED BY <1>1, <2>1 DEF Uses
<1> QED BY <1>3, <1>4 DEF UseInv

\* Who is inside is alone there: its step is right if it leaves things right for
\* itself, or leaves with the handle NULL.
LEMMA InsideStep ==
  ASSUME LockInv, ~Defeated, NEW r \in Recorders, Inside(r), NEW where,
         pc' = [pc EXCEPT ![r] = where],
         IF Inside(r)' THEN Uses(r)' ELSE capture_handle' = 0
  PROVE  UseInv'
<1>1. ASSUME NEW q \in Recorders, q # r PROVE ~Inside(q)'
  <2>1. ~Inside(q)
        BY <1>1 DEF LockInv, InsideOwns
  <2> QED BY <1>1, <2>1 DEF Inside, LockInv, LockTypeOK
<1> QED BY <1>1 DEF UseInv, HandleUsed

\* A step while the lock is not defeated leaves who is inside with what it relies on,
\* and a recorder misuses nothing.
LEMMA UndefeatedStep ==
  ASSUME SafeInv, [Next]_vars, ~Defeated, ~Defeated'
  PROVE  UseInv' /\ \A m \in misused' : m \in misused \/ m[1] = Application
<1> DEFINE Blameless == \A m \in misused' : m \in misused \/ m[1] = Application
<1> USE CaptureAssumption DEF SafeInv
<1>1. ASSUME NEW r \in Recorders, Capture(r) PROVE UseInv' /\ Blameless
  <2>1. r \in Threads /\ DOMAIN pc = Threads /\ DOMAIN arg = Threads
        BY DEF Threads, LockInv, LockTypeOK
  <2>2. Inside(r) => Uses(r)
        BY DEF UseInv
  <2>3. /\ pcms \in Seq(Pcm) /\ capture_handle \in 0 .. Len(pcms) /\ Len(pcms) \in Nat
        BY DEF PcmTypeOK
  <2> USE DEF At, Goto, Step, Return, Pass, Misuse, globals, counts, LockInv, LockTypeOK
  <2>4. CASE OpenCall(r) \/ CreateLock(r) \/ LockCall(r)
    <3>1. /\ UNCHANGED <<capture_handle, pcms, g_config, misused>>
          /\ ~Inside(r) /\ ~Inside(r)'
          /\ \E where, value : /\ pc' = [pc EXCEPT ![r] = where]
                               /\ arg' = arg \/ arg' = [arg EXCEPT ![r] = value]
          BY <2>1, <2>4 DEF OpenCall, CreateLock, LockCall, Inside
    <3> QED BY <2>1, <3>1, OutsideStep
  <2>5. CASE Lock(r)
    <3>1. /\ pc[r] = "wait" /\ locks[arg[r]] = Nobody /\ arg[r] \in 1 .. Len(locks)
          /\ pc' = [pc EXCEPT ![r] = "open"] /\ arg' = [arg EXCEPT ![r] = 0]
          /\ UNCHANGED <<capture_handle, pcms, g_config, misused>>
          BY <2>5 DEF Lock, LockExists
    <3>2. arg[r] = 1 /\ Len(locks) \in Nat
          BY <3>1 DEF Defeated
    <3>3. \A q \in Recorders : ~Inside(q)
          BY <3>1, <3>2 DEF InsideOwns
    <3>4. capture_handle = 0
          BY <3>3 DEF UseInv, HandleUsed
    <3>5. \A q \in Recorders : Inside(q)' => q = r
          BY <2>1, <3>1, <3>3 DEF Inside
    <3>6. Uses(r)'
          BY <2>1, <3>1, <3>4 DEF Uses
    <3>7. HandleUsed' /\ Blameless
          BY <3>1, <3>4 DEF HandleUsed
    <3> QED BY <3>5, <3>6, <3>7 DEF UseInv
  <2>6. CASE OpenShared(r)
    <3>1. Inside(r) /\ pc[r] = "open" /\ capture_handle # 0
          BY <2>6 DEF OpenShared, Inside
    <3> QED BY <2>2, <3>1 DEF Uses
  <2>7. CASE OpenPcm(r)
    <3>1. /\ Inside(r) /\ pc' = [pc EXCEPT ![r] = "config"] /\ g_config' = "held"
          /\ pcms' = Append(pcms, NewPcm) /\ capture_handle' = Len(pcms) + 1
          /\ misused' = misused
          BY <2>7 DEF OpenPcm, Inside
    <3>2. pc'[r] = "config" /\ capture_handle' # 0 /\ pcms'[capture_handle'] = NewPcm
          BY <2>1, <2>3, <3>1
    <3>3. Uses(r)'
          BY <3>1, <3>2 DEF Uses, NewPcm
    <3> QED BY <3>1, <3>2, <3>3, InsideStep DEF Inside
  <2>8. CASE OpenPcmFail(r) \/ ConfigureFail(r)
    <3>1. /\ Inside(r) /\ pc' = [pc EXCEPT ![r] = "idle"] /\ capture_handle' = 0
          /\ misused' = misused \/ (misused' = misused \cup Wrong(r, capture_handle) /\ pc[r] = "config")
          BY <2>8 DEF OpenPcmFail, ConfigureFail, Inside
    <3>2. Blameless
          BY <2>2, <3>1 DEF Uses, Wrong
    <3>3. ~Inside(r)'
          BY <2>1, <3>1 DEF Inside
    <3> QED BY <3>1, <3>2, <3>3, InsideStep
  <2>9. CASE Configure(r)
    <3>1. /\ Inside(r) /\ pc[r] = "config" /\ pc' = [pc EXCEPT ![r] = "run"] /\ g_config' = g_config
          /\ pcms' = [pcms EXCEPT ![capture_handle].buffer = "held"]
          /\ capture_handle' = capture_handle /\ capture_handle # 0
          /\ misused' = misused \cup Wrong(r, capture_handle)
          BY <2>9 DEF Configure, Inside
    <3>2. pc'[r] = "run" /\ capture_handle \in 1 .. Len(pcms)
          BY <2>1, <2>3, <3>1
    <3>3. pcms[capture_handle].open /\ g_config = "held" /\ pcms[capture_handle] \in Pcm
          BY <2>2, <2>3, <3>1, <3>2 DEF Uses
    <3>4. pcms'[capture_handle] = [pcms[capture_handle] EXCEPT !.buffer = "held"]
          BY <2>3, <3>1, <3>2
    <3>5. pcms'[capture_handle].open /\ pcms'[capture_handle].buffer = "held"
          BY <3>3, <3>4 DEF Pcm
    <3>6. Uses(r)' /\ Blameless
          BY <3>1, <3>2, <3>3, <3>5 DEF Uses, Wrong
    <3> QED BY <3>1, <3>6, <3>2, InsideStep DEF Inside
  <2>10. CASE ReadCall(r) \/ ReadPcm(r) \/ ReadConvert(r) \/ EndRecording(r)
    <3>1. /\ pc[r] \in {"run", "read", "convert"}
          /\ UNCHANGED <<capture_handle, pcms, g_config>>
          /\ \/ misused' = misused
             \/ misused' = misused \cup Wrong(r, arg[r]) /\ pc[r] = "read"
             \/ misused' = misused \cup (IF g_config = "null" THEN {<<r, "config">>} ELSE {})
          /\ \E where \in {"run", "read", "convert", "stop"} :
                /\ pc' = [pc EXCEPT ![r] = where]
                /\ where = "read" => arg' = [arg EXCEPT ![r] = capture_handle]
          BY <2>10 DEF ReadCall, ReadPcm, ReadConvert, EndRecording
    <3>2. Uses(r) /\ Inside(r)
          BY <2>2, <3>1 DEF Inside
    <3>3. Uses(r)' /\ Blameless
          BY <2>1, <3>1, <3>2 DEF Uses, Wrong
    <3> QED BY <3>1, <3>2, <3>3, <2>1, InsideStep DEF Inside
  <2> QED BY <1>1, <2>4, <2>5, <2>6, <2>7, <2>8, <2>9, <2>10 DEF Capture
<1>2. ASSUME NEW r \in Recorders, Release(r) PROVE UseInv' /\ Blameless
  <2>1. r \in Threads /\ DOMAIN pc = Threads /\ DOMAIN arg = Threads
        BY DEF Threads, LockInv, LockTypeOK
  <2>2. Inside(r) /\ Uses(r) /\ pc[r] \in Releasing
        BY <1>2 DEF Release, Stop, PcmStop, Close, PcmClose, Unlock, At, Inside, UseInv, Releasing
  <2>3. /\ pcms \in Seq(Pcm) /\ capture_handle \in 1 .. Len(pcms) /\ capture_handle # 0
        BY <2>2 DEF PcmTypeOK, Uses, Releasing
  <2>4. pcms[capture_handle] \in Pcm
        BY <2>3
  <2> USE DEF At, Goto, Step, Return, Pass, Misuse, globals, counts
  <2>5. CASE Stop(r)
    <3>1. /\ pc[r] = "stop" /\ pc' = [pc EXCEPT ![r] = "pcm_stop"]
          /\ arg' = [arg EXCEPT ![r] = capture_handle]
          /\ UNCHANGED <<capture_handle, pcms, g_config, misused>>
          BY <2>3, <2>5 DEF Stop
    <3>2. Uses(r)'
          BY <2>1, <2>2, <3>1 DEF Uses
    <3> QED BY <2>1, <2>2, <3>1, <3>2, InsideStep DEF Inside
  <2>6. CASE PcmStop(r)
    <3>1. /\ pc[r] = "pcm_stop" /\ pc' = [pc EXCEPT ![r] = "close"] /\ arg[r] = capture_handle
          /\ pcms' = [pcms EXCEPT ![arg[r]].buffer = IF @ = "held" THEN "freed" ELSE @]
          /\ UNCHANGED <<capture_handle, g_config>>
          /\ misused' = misused \cup Wrong(r, arg[r]) \cup FreedTwice(r, arg[r])
          BY <2>2, <2>6 DEF PcmStop, Uses
    <3>2. pcms[capture_handle].open /\ pcms[capture_handle].buffer # "freed" /\ g_config = "held"
          BY <2>2, <3>1 DEF Uses
    <3>3. Blameless
          BY <3>1, <3>2 DEF Wrong, FreedTwice
    <3>4. pcms'[capture_handle]
            = [pcms[capture_handle] EXCEPT !.buffer = IF @ = "held" THEN "freed" ELSE @]
          BY <2>3, <3>1
    <3>5. pcms'[capture_handle].open
          BY <2>4, <3>2, <3>4 DEF Pcm
    <3>6. Uses(r)'
          BY <2>1, <2>3, <3>1, <3>2, <3>5 DEF Uses
    <3> QED BY <2>1, <2>2, <3>1, <3>3, <3>6, InsideStep DEF Inside
  <2>7. CASE Close(r)
    <3>1. /\ pc[r] = "close" /\ pc' = [pc EXCEPT ![r] = "pcm_close"]
          /\ arg' = [arg EXCEPT ![r] = capture_handle]
          /\ UNCHANGED <<capture_handle, pcms, misused>>
          BY <2>3, <2>7 DEF Close
    <3>2. Uses(r)'
          BY <2>1, <2>2, <3>1 DEF Uses
    <3> QED BY <2>1, <2>2, <3>1, <3>2, InsideStep DEF Inside
  <2>8. CASE PcmClose(r)
    <3>1. /\ pc[r] = "pcm_close" /\ pc' = [pc EXCEPT ![r] = "unlock"] /\ arg[r] = capture_handle
          /\ UNCHANGED capture_handle
          /\ misused' = misused \cup Wrong(r, arg[r])
          BY <2>2, <2>8 DEF PcmClose, Uses
    <3>2. Blameless
          BY <2>2, <3>1 DEF Wrong, Uses
    <3>3. Uses(r)'
          BY <2>1, <2>3, <3>1 DEF Uses
    <3> QED BY <2>1, <2>2, <3>1, <3>2, <3>3, InsideStep DEF Inside
  <2>9. CASE Unlock(r)
    <3>1. capture_lock # 0
          BY <2>2 DEF InsideOwns, LockInv, PcmTypeOK
    <3>2. /\ pc' = [pc EXCEPT ![r] = "idle"] /\ capture_handle' = 0 /\ misused' = misused
          BY <2>9, <3>1 DEF Unlock
    <3>3. ~Inside(r)'
          BY <2>1, <3>2 DEF Inside
    <3> QED BY <2>2, <3>2, <3>3, InsideStep
  <2> QED BY <1>2, <2>5, <2>6, <2>7, <2>8, <2>9 DEF Release
<1>3. CASE Release(Application) \/ CloseCall
  <2>1. pc[Application] \in Releasing \/ closed'
        BY <1>3 DEF Release, Stop, PcmStop, Close, PcmClose, Unlock, CloseCall, At, Releasing
  <2>2. closed \/ closed'
        BY <2>1 DEF LockInv, CloseReleases
  <2> QED BY <2>2 DEF Defeated
<1>4. CASE Volume
  <2>1. /\ UNCHANGED <<capture_handle, pcms, g_config>>
        /\ Blameless
        /\ \E where, value : /\ pc' = [pc EXCEPT ![Application] = where]
                             /\ arg' = arg \/ arg' = [arg EXCEPT ![Application] = value]
        BY <1>4 DEF Volume, VolumeCall, VolumeSet, VolumeGet, At, Goto, Step, Return, Pass,
                    Misuse, Wrong, globals, counts
  <2>2. Application \in Threads /\ Application \notin Recorders
        BY DEF Threads
  <2> QED BY <2>1, <2>2, OutsideStep
<1>5. CASE UNCHANGED vars
      BY <1>5 DEF vars, UseInv, HandleUsed, Uses, Inside, Defeated
<1> QED BY <1>1, <1>2, <1>3, <1>4, <1>5 DEF Next, Threads

\* Once the lock is defeated there is nothing left to show, and it stays defeated.
LEMMA NextSafeInv == SafeInv /\ [Next]_vars => SafeInv'
<1> SUFFICES ASSUME SafeInv, [Next]_vars PROVE SafeInv'
    OBVIOUS
<1>1. LockInv' /\ PcmTypeOK'
      BY NextLockInv, NextPcmTypeOK DEF SafeInv
<1>2. CASE Defeated'
      BY <1>1, <1>2 DEF SafeInv, UseInv, CaptureSafe
<1>3. CASE ~Defeated'
  <2>1. ~Defeated
        BY <1>3, DefeatStays DEF SafeInv
  <2>2. UseInv' /\ \A m \in misused' : m \in misused \/ m[1] = Application
        BY <1>3, <2>1, UndefeatedStep
  <2>3. CaptureSafe'
        BY <2>1, <2>2 DEF SafeInv, CaptureSafe
  <2> QED BY <1>1, <2>2, <2>3 DEF SafeInv
<1> QED BY <1>2, <1>3

\* capture_impl.c: for any number of recorders, opens, failures and calls of the
\* application no capture thread uses a pcm, a buffer or a configuration that was freed,
\* or unlocks a lock that is not there, unless recorder_close was called or two locks
\* were created.
THEOREM CaptureUsesAreSafe == Spec => []CaptureSafe
<1>1. SafeInv => CaptureSafe
      BY DEF SafeInv
<1> QED BY <1>1, InitSafeInv, NextSafeInv, PTL DEF Spec

--------------------------------------------------------------------------------
(* The two devices side by side: what was proved of each holds of the program. *)

Closed == INSTANCE PlaybackDeviceProofs WITH
            StaysOpen <- FALSE, MaxOpens <- MaxPlays,
            playback_handle <- p_handle, opened <- p_opened, pcms <- p_pcms,
            userdata <- p_userdata, pc <- p_pc, arg <- p_arg, opens <- p_opens,
            calls <- p_calls, shared <- p_shared, closed <- p_closed, misused <- p_misused

Kept == INSTANCE PlaybackDeviceProofs WITH
            StaysOpen <- TRUE, MaxOpens <- MaxPlays,
            playback_handle <- p_handle, opened <- p_opened, pcms <- p_pcms,
            userdata <- p_userdata, pc <- p_pc, arg <- p_arg, opens <- p_opens,
            calls <- p_calls, shared <- p_shared, closed <- p_closed, misused <- p_misused

LEMMA SameClosing == (Closing!Init <=> Closed!Init) /\ (Closing!Next <=> Closed!Next)
<1>1. Closing!Init <=> Closed!Init
  BY DEF Closing!Init, Closed!Init, Closing!Threads, Closed!Threads
<1>2. Closing!Next <=> Closed!Next
  BY DEF Closing!globals, Closed!globals, Closing!history, Closed!history, Closing!Threads, Closed!Threads,
     Closing!NewPcm, Closed!NewPcm, Closing!OldPcm, Closed!OldPcm, Closing!Configured,
     Closed!Configured, Closing!At, Closed!At, Closing!Step, Closed!Step, Closing!Goto, Closed!Goto,
     Closing!Pass, Closed!Pass, Closing!Return, Closed!Return, Closing!Misuse, Closed!Misuse,
     Closing!Wrong, Closed!Wrong, Closing!FreedTwice, Closed!FreedTwice, Closing!Unsized,
     Closed!Unsized, Closing!OpenCall, Closed!OpenCall, Closing!OpenPcm, Closed!OpenPcm,
     Closing!OpenPcmFail, Closed!OpenPcmFail, Closing!NoMemory, Closed!NoMemory, Closing!Configure,
     Closed!Configure, Closing!ConfigureFail, Closed!ConfigureFail, Closing!StartCall,
     Closed!StartCall, Closing!StartPcm, Closed!StartPcm, Closing!StartFail, Closed!StartFail,
     Closing!WriteCall, Closed!WriteCall, Closing!WritePcm, Closed!WritePcm, Closing!EndTrack,
     Closed!EndTrack, Closing!CloseCall, Closed!CloseCall, Closing!Stop, Closed!Stop, Closing!PcmStop,
     Closed!PcmStop, Closing!Close, Closed!Close, Closing!PcmClose, Closed!PcmClose, Closing!Forget,
     Closed!Forget, Closing!VolumeCall, Closed!VolumeCall, Closing!VolumeSet, Closed!VolumeSet,
     Closing!VolumeGet, Closed!VolumeGet, Closing!Play, Closed!Play, Closing!Release, Closed!Release,
     Closing!Volume, Closed!Volume, Closing!Next, Closed!Next
<1> QED
  BY <1>1, <1>2

LEMMA SameKeeping == Keeping!Next <=> Kept!Next
  BY DEF Keeping!globals, Kept!globals, Keeping!history, Kept!history, Keeping!Threads, Kept!Threads,
     Keeping!NewPcm, Kept!NewPcm, Keeping!OldPcm, Kept!OldPcm, Keeping!Configured, Kept!Configured,
     Keeping!At, Kept!At, Keeping!Step, Kept!Step, Keeping!Goto, Kept!Goto, Keeping!Pass, Kept!Pass,
     Keeping!Return, Kept!Return, Keeping!Misuse, Kept!Misuse, Keeping!Wrong, Kept!Wrong,
     Keeping!FreedTwice, Kept!FreedTwice, Keeping!Unsized, Kept!Unsized, Keeping!OpenCall,
     Kept!OpenCall, Keeping!OpenPcm, Kept!OpenPcm, Keeping!OpenPcmFail, Kept!OpenPcmFail,
     Keeping!NoMemory, Kept!NoMemory, Keeping!Configure, Kept!Configure, Keeping!ConfigureFail,
     Kept!ConfigureFail, Keeping!StartCall, Kept!StartCall, Keeping!StartPcm, Kept!StartPcm,
     Keeping!StartFail, Kept!StartFail, Keeping!WriteCall, Kept!WriteCall, Keeping!WritePcm,
     Kept!WritePcm, Keeping!EndTrack, Kept!EndTrack, Keeping!CloseCall, Kept!CloseCall, Keeping!Stop,
     Kept!Stop, Keeping!PcmStop, Kept!PcmStop, Keeping!Close, Kept!Close, Keeping!PcmClose,
     Kept!PcmClose, Keeping!Forget, Kept!Forget, Keeping!VolumeCall, Kept!VolumeCall,
     Keeping!VolumeSet, Kept!VolumeSet, Keeping!VolumeGet, Kept!VolumeGet, Keeping!Play, Kept!Play,
     Keeping!Release, Kept!Release, Keeping!Volume, Kept!Volume, Keeping!Next, Kept!Next

\* The argument about the playback device is one for both of its ends of a track.
LEMMA SameInvariant == Closed!SafeInv <=> Kept!SafeInv
  BY DEF Closed!SafeInv, Kept!SafeInv, Closed!TypeInv, Kept!TypeInv, Closed!AppReads, Kept!AppReads,
     Closed!Defeated, Kept!Defeated, Closed!OneActive, Kept!OneActive, Closed!UseInv, Kept!UseInv,
     Closed!PlaybackSafe, Kept!PlaybackSafe, Closed!Active, Kept!Active, Closed!Uses, Kept!Uses,
     Closed!Freeing, Kept!Freeing, Closed!Pcm, Kept!Pcm, Closed!Threads, Kept!Threads

LEMMA Assumed == Closed!PlaybackAssumption /\ Kept!PlaybackAssumption
  BY DevicesAssumption DEF Closing!PlaybackAssumption, Closed!PlaybackAssumption, Kept!PlaybackAssumption

DevicesInv == SafeInv /\ Closed!SafeInv

LEMMA InitDevicesInv == DevicesInit => DevicesInv
<1> SUFFICES ASSUME DevicesInit PROVE DevicesInv
  OBVIOUS
<1>1. SafeInv
  BY InitSafeInv DEF DevicesInit
<1>2. Closed!SafeInv
  BY SameClosing, Closed!InitSafeInv DEF DevicesInit
<1> QED
  BY <1>1, <1>2 DEF DevicesInv

\* A step is one of one device, and the other one stays as it is.
LEMMA NextDevicesInv == DevicesInv /\ [DevicesNext]_allvars => DevicesInv'
<1> SUFFICES ASSUME DevicesInv, [DevicesNext]_allvars PROVE DevicesInv'
  OBVIOUS
<1>1. [Next]_vars
  BY DEF DevicesNext, OnCapture, allvars
<1>2. \/ Closed!Next
      \/ Kept!Next
      \/ UNCHANGED Closed!vars
  BY SameClosing, SameKeeping DEF DevicesNext, OnCapture, allvars, playback, Closed!vars
<1>3. SafeInv'
  BY <1>1, NextSafeInv DEF DevicesInv
<1>4. Closed!SafeInv'
  <2>1. CASE Closed!Next \/ UNCHANGED Closed!vars
    BY <2>1, Assumed, Closed!NextSafeInv DEF DevicesInv
  <2>2. CASE Kept!Next
    <3>1. Kept!SafeInv
      BY SameInvariant DEF DevicesInv
    <3>2. Kept!SafeInv'
      BY <2>2, <3>1, Assumed, Kept!NextSafeInv
    <3>3. (Closed!SafeInv <=> Kept!SafeInv)'
      BY SameInvariant, PTL
    <3> QED
      BY <3>2, <3>3
  <2> QED
    BY <1>2, <2>1, <2>2
<1> QED
  BY <1>3, <1>4 DEF DevicesInv

\* capture_impl.c and playback_impl.c in one program: for any number of recorders,
\* players, opens, failures and calls of the application, on a system that closes the
\* playback device after a track or on one that keeps it open, the capture device is
\* with one recorder at most and is used as it was left, and a player alone with the
\* playback device uses no pcm that was closed or never configured.
THEOREM DevicesAreSafe == DevicesSpec => [](CaptureExclusive /\ CaptureSafe /\ PlaybackSafe)
<1>1. DevicesInv => CaptureExclusive /\ CaptureSafe
  BY DEF DevicesInv, SafeInv, LockInv, InsideOwns, CaptureExclusive
<1>2. DevicesInv => PlaybackSafe
  BY DEF DevicesInv, PlaybackSafe, Closing!PlaybackSafe, Closed!SafeInv, Closed!PlaybackSafe
<1> QED
  BY <1>1, <1>2, InitDevicesInv, NextDevicesInv, PTL DEF DevicesSpec
================================================================================
