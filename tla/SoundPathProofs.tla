----------------------------- MODULE SoundPathProofs -----------------------------
(***************************************************************************)
(* The parts of the sound path, for any value of their constants.          *)
(*                                                                         *)
(* The sockets of the http preprocessor, for any number of users, any body *)
(* and any length of reads: as long as no seek failed, each user holds the *)
(* one socket it opened while it needs one, and none at any other time.    *)
(* The sample buffer, for any page, first buffer and length of puts and    *)
(* receives.  The amr decoder, for any file.  And SoundPath itself, with   *)
(* the mp3 decoder of Mp3DecoderProofs.                                    *)
(***************************************************************************)
EXTENDS SoundPath, SequencesExt, SequenceTheorems, TLAPS

M == INSTANCE Mp3DecoderProofs

--------------------------------------------------------------------------------
(* The http preprocessor *)

Fields == {"pc", "userdata", "http_socket", "pos", "chunked", "length", "data_len", "call",
           "got", "disturbed", "error", "lost", "foreign", "seeks", "redirects", "end"}

Shape == /\ DOMAIN user = Users
         /\ \A u \in Users : DOMAIN user[u] = Fields
         /\ \A s \in DOMAIN sockets : DOMAIN sockets[s] = {"user", "left"}
         /\ \A s \in DOMAIN sockets : sockets[s].user \in Users

\* the socket a user remembers, in its call of init or as the userdata
Holds(u) == IF user[u].pc \in {"header", "length"} THEN {user[u].http_socket}
            ELSE IF user[u].pc \in {"ready", "read", "close"} THEN {user[u].userdata}
            ELSE {}

\* the open sockets of a user
Open(u) == {s \in DOMAIN sockets : sockets[s].user = u}

HeldOnly == \A u \in Users : ~user[u].foreign /\ Open(u) = Holds(u)

SocketInv == Shape /\ (NoSeekFailed => HeldOnly)

--------------------------------------------------------------------------------
\* what a step of u leaves alone
OthersKept(u) == \A v \in Users \ {u} : /\ user'[v].pc = user[v].pc
                                       /\ user'[v].userdata = user[v].userdata
                                       /\ user'[v].http_socket = user[v].http_socket
                                       /\ user'[v].foreign = user[v].foreign
                                       /\ user'[v].lost = user[v].lost

Users1 == /\ DOMAIN user' = Users
          /\ \A u \in Users : DOMAIN user'[u] = Fields

\* Set writes the record of u and leaves the others.
LEMMA SetKeeps == ASSUME Shape, NEW u \in Users, NEW rec, DOMAIN rec = Fields, Set(u, rec)
                  PROVE  Users1 /\ user'[u] = rec /\ OthersKept(u)
<1>1. user' = [user EXCEPT ![u] = rec]
  BY DEF Set
<1>2. DOMAIN user = Users /\ \A v \in Users : DOMAIN user[v] = Fields
  BY DEF Shape
<1>3. DOMAIN user' = Users /\ user'[u] = rec /\ \A v \in Users \ {u} : user'[v] = user[v]
  BY <1>1, <1>2
<1> QED BY <1>2, <1>3 DEF Users1, OthersKept

\* Disturb writes it too, and of the others nothing that the sockets depend on.
LEMMA DisturbKeeps == ASSUME Shape, NEW u \in Users, NEW rec, DOMAIN rec = Fields, Disturb(u, rec)
                      PROVE  Users1 /\ user'[u] = rec /\ OthersKept(u)
<1>1. user' = [v \in Users |-> IF v = u THEN rec ELSE [user[v] EXCEPT !.disturbed = TRUE]]
  BY DEF Disturb
<1>2. \A v \in Users : DOMAIN user[v] = Fields
  BY DEF Shape
<1>3. DOMAIN user' = Users /\ user'[u] = rec
  BY <1>1
<1>4. ASSUME NEW v \in Users \ {u}
      PROVE  /\ DOMAIN user'[v] = Fields
             /\ user'[v].pc = user[v].pc /\ user'[v].userdata = user[v].userdata
             /\ user'[v].http_socket = user[v].http_socket
             /\ user'[v].foreign = user[v].foreign /\ user'[v].lost = user[v].lost
  <2>1. user'[v] = [user[v] EXCEPT !.disturbed = TRUE]
    BY <1>1
  <2> QED BY <1>2, <2>1 DEF Fields
<1> QED BY <1>3, <1>4 DEF Users1, OthersKept

--------------------------------------------------------------------------------
(* A step of u keeps the invariant when it *)
(*   leaves the open sockets as they are, and remembers the same one;     *)
(*   opens one when it holds none, and remembers it;                      *)
(*   closes the one it holds, and remembers none.                         *)

SocketsKept == /\ DOMAIN sockets' = DOMAIN sockets
               /\ \A s \in DOMAIN sockets : /\ DOMAIN sockets'[s] = {"user", "left"}
                                            /\ sockets'[s].user = sockets[s].user

LEMMA StepKeeps ==
  ASSUME SocketInv, NEW u \in Users, Users1, OthersKept(u),
         user[u].lost => user'[u].lost,
         NoSeekFailed /\ ~user'[u].lost => ~user'[u].foreign,
         \/ SocketsKept /\ Holds(u)' = Holds(u)
         \/ SocketsKept /\ user'[u].lost
         \/ \E s : /\ s \notin DOMAIN sockets /\ Holds(u) = {} /\ Holds(u)' = {s}
                   /\ \E left : sockets' = [t \in DOMAIN sockets \cup {s} |->
                                   IF t = s THEN [user |-> u, left |-> left] ELSE sockets[t]]
         \/ \E s : /\ sockets' = Without(s)
                   /\ user'[u].lost \/ (Holds(u) = {s} /\ Holds(u)' = {})
  PROVE  SocketInv'
<1>1. Shape
  BY DEF SocketInv
<1>2. ASSUME NoSeekFailed' PROVE NoSeekFailed /\ HeldOnly
  <2>1. NoSeekFailed
    BY <1>2 DEF NoSeekFailed, OthersKept
  <2> QED BY <2>1 DEF SocketInv
<1>3. \A v \in Users \ {u} : Holds(v)' = Holds(v)
  BY DEF Holds, OthersKept
<1>4. ASSUME NoSeekFailed' PROVE \A v \in Users : ~user'[v].foreign
  BY <1>2, <1>4 DEF HeldOnly, OthersKept, NoSeekFailed
<1>5. CASE SocketsKept /\ (Holds(u)' = Holds(u) \/ user'[u].lost)
  <2>1. Shape'
    BY <1>1, <1>5 DEF Shape, SocketsKept, Users1
  <2>2. \A v \in Users : Open(v)' = Open(v)
    BY <1>5 DEF Open, SocketsKept
  <2>3. ASSUME NoSeekFailed' PROVE HeldOnly'
    <3>1. Holds(u)' = Holds(u)
      BY <1>5, <2>3 DEF NoSeekFailed
    <3> QED BY <1>2, <1>3, <1>4, <2>2, <2>3, <3>1 DEF HeldOnly
  <2> QED BY <2>1, <2>3 DEF SocketInv
<1>6. ASSUME NEW s, s \notin DOMAIN sockets, Holds(u) = {}, Holds(u)' = {s}, NEW left,
             sockets' = [t \in DOMAIN sockets \cup {s} |->
                           IF t = s THEN [user |-> u, left |-> left] ELSE sockets[t]]
      PROVE  SocketInv'
  <2>1. /\ DOMAIN sockets' = DOMAIN sockets \cup {s}
        /\ sockets'[s] = [user |-> u, left |-> left]
        /\ \A t \in DOMAIN sockets : sockets'[t] = sockets[t]
    BY <1>6
  <2>2. sockets'[s].user = u /\ DOMAIN sockets'[s] = {"user", "left"}
    BY <2>1
  <2>3. Shape'
    BY <1>1, <2>1, <2>2 DEF Shape, Users1
  <2>4. Open(u)' = Open(u) \cup {s} /\ \A v \in Users \ {u} : Open(v)' = Open(v)
    BY <1>6, <2>1, <2>2 DEF Open
  <2>5. ASSUME NoSeekFailed' PROVE HeldOnly'
    <3>1. Holds(u) = {} /\ Holds(u)' = {s}
      BY <1>6
    <3>2. Open(u)' = Holds(u)'
      BY <1>2, <2>4, <2>5, <3>1 DEF HeldOnly
    <3>3. \A v \in Users \ {u} : Open(v)' = Holds(v)'
      BY <1>2, <1>3, <2>4, <2>5 DEF HeldOnly
    <3> QED BY <1>4, <2>5, <3>2, <3>3 DEF HeldOnly
  <2> QED BY <2>3, <2>5 DEF SocketInv
<1>7. ASSUME NEW s, sockets' = Without(s), user'[u].lost \/ (Holds(u) = {s} /\ Holds(u)' = {})
      PROVE  SocketInv'
  <2>1. /\ DOMAIN sockets' = DOMAIN sockets \ {s}
        /\ \A t \in DOMAIN sockets \ {s} : sockets'[t] = sockets[t]
    BY <1>7 DEF Without
  <2>2. Shape'
    BY <1>1, <2>1 DEF Shape, Users1
  <2>3. \A v \in Users : Open(v)' = Open(v) \ {s}
    BY <2>1 DEF Open
  <2>4. ASSUME NoSeekFailed' PROVE HeldOnly'
    <3>1. Holds(u) = {s} /\ Holds(u)' = {}
      BY <1>7, <2>4 DEF NoSeekFailed
    <3>2. Open(u) = {s}
      BY <1>2, <2>4, <3>1 DEF HeldOnly
    <3>3. \A v \in Users \ {u} : s \notin Open(v)
      BY <3>2 DEF Open
    <3> QED BY <1>2, <1>3, <1>4, <2>3, <2>4, <3>1, <3>2, <3>3 DEF HeldOnly
  <2> QED BY <2>2, <2>4 DEF SocketInv
<1> QED BY <1>5, <1>6, <1>7

--------------------------------------------------------------------------------
(* The steps of a user *)

LEMMA PlayKeeps == ASSUME SocketInv, NEW u \in Users, Play(u) PROVE SocketInv'
<1> DEFINE rec == [user[u] EXCEPT !.pc = "open"]
<1>1. /\ Shape /\ user[u].pc = "idle" /\ Set(u, rec) /\ UNCHANGED sockets
      /\ DOMAIN user[u] = Fields
  BY DEF Play, SocketInv, Shape
<1>2. DOMAIN rec = Fields /\ rec.pc = "open" /\ rec.lost = user[u].lost
      /\ rec.foreign = user[u].foreign
  BY <1>1 DEF Fields
<1> HIDE DEF rec
<1>3. Users1 /\ user'[u] = rec /\ OthersKept(u)
  BY <1>1, <1>2, SetKeeps
<1>4. Holds(u)' = Holds(u) /\ SocketsKept
  BY <1>1, <1>2, <1>3 DEF Holds, SocketsKept, Shape
<1>5. NoSeekFailed => ~user[u].foreign
  BY DEF SocketInv, HeldOnly
<1> QED BY <1>2, <1>3, <1>4, <1>5, StepKeeps

LEMMA DoneShape == ASSUME NEW rec
                   PROVE  /\ DOMAIN Done(rec) = Fields /\ Done(rec).pc = "idle"
                          /\ Done(rec).lost = rec.lost /\ Done(rec).foreign = rec.foreign
BY DEF Done, Idle, Fields

\* an init that failed ends the track, or leaves a seek lost
LEMMA FailureShape == ASSUME NEW rec, DOMAIN rec = Fields
                      PROVE  /\ DOMAIN Failure(rec) = Fields
                             /\ Failure(rec).foreign = rec.foreign
                             /\ rec.lost => Failure(rec).lost
                             /\ Failure(rec).pc = "idle" \/ Failure(rec).lost
<1>1. CASE rec.seeks = 0
  <2> DEFINE over == [rec EXCEPT !.end = "no init"]
  <2>1. over.lost = rec.lost /\ over.foreign = rec.foreign
    BY DEF Fields
  <2>2. Failure(rec) = Done(over)
    BY <1>1 DEF Failure
  <2> HIDE DEF over
  <2> QED BY <2>1, <2>2, DoneShape
<1>2. CASE rec.seeks # 0
  <2>1. Failure(rec) = [rec EXCEPT !.pc = "ready", !.http_socket = -1, !.lost = TRUE]
    BY <1>2 DEF Failure
  <2> QED BY <2>1 DEF Fields
<1> QED BY <1>1, <1>2

LEMMA OwnsHeld == ASSUME SocketInv, NoSeekFailed, NEW u \in Users,
                         user[u].pc \in {"ready", "read", "close"}
                  PROVE  Owns(u, user[u].userdata) /\ ~user[u].foreign
BY DEF SocketInv, HeldOnly, Holds, Open, Owns

LEMMA HttpOpenKeeps == ASSUME SocketInv, NEW u \in Users, HttpOpen(u) PROVE SocketInv'
<1>1. Shape /\ user[u].pc = "open" /\ DOMAIN user[u] = Fields /\ Holds(u) = {}
  BY DEF HttpOpen, SocketInv, Shape, Holds
<1>2. NoSeekFailed => ~user[u].foreign
  BY DEF SocketInv, HeldOnly
<1>3. CASE Set(u, Failure(user[u])) /\ UNCHANGED sockets
  <2> DEFINE rec == Failure(user[u])
  <2>1. DOMAIN rec = Fields /\ rec.foreign = user[u].foreign
        /\ (user[u].lost => rec.lost) /\ (rec.pc = "idle" \/ rec.lost)
    BY <1>1, FailureShape
  <2>2. Set(u, rec)
    BY <1>3
  <2> HIDE DEF rec
  <2>3. Users1 /\ user'[u] = rec /\ OthersKept(u)
    BY <1>1, <2>1, <2>2, SetKeeps
  <2>4. SocketsKept /\ (Holds(u)' = Holds(u) \/ user'[u].lost)
    BY <1>1, <1>3, <2>1, <2>3 DEF Holds, SocketsKept, Shape
  <2> QED BY <1>2, <2>1, <2>3, <2>4, StepKeeps
<1>4. ASSUME NEW s, NEW chunked, NEW rest, Free(s), Opened(s, [user |-> u, left |-> rest]),
             Set(u, [user[u] EXCEPT !.pc = "header", !.http_socket = s, !.got = 0,
                                    !.chunked = chunked, !.length = rest])
      PROVE  SocketInv'
  <2> DEFINE rec == [user[u] EXCEPT !.pc = "header", !.http_socket = s, !.got = 0,
                                    !.chunked = chunked, !.length = rest]
  <2>1. DOMAIN rec = Fields /\ rec.pc = "header" /\ rec.http_socket = s
        /\ rec.foreign = user[u].foreign /\ rec.lost = user[u].lost
    BY <1>1 DEF Fields
  <2>2. Set(u, rec)
    BY <1>4
  <2> HIDE DEF rec
  <2>3. Users1 /\ user'[u] = rec /\ OthersKept(u)
    BY <1>1, <2>1, <2>2, SetKeeps
  <2>4. Holds(u)' = {s}
    BY <2>1, <2>3 DEF Holds
  <2>5. s \notin DOMAIN sockets
    BY <1>4 DEF Free
  <2>6. \E left : sockets' = [t \in DOMAIN sockets \cup {s} |->
                               IF t = s THEN [user |-> u, left |-> left] ELSE sockets[t]]
    BY <1>4 DEF Opened
  <2>7. \E n : /\ n \notin DOMAIN sockets /\ Holds(u) = {} /\ Holds(u)' = {n}
               /\ \E left : sockets' = [t \in DOMAIN sockets \cup {n} |->
                                 IF t = n THEN [user |-> u, left |-> left] ELSE sockets[t]]
    BY <1>1, <2>4, <2>5, <2>6
  <2>8. (user[u].lost => user'[u].lost) /\ (NoSeekFailed => ~user'[u].foreign)
    BY <1>2, <2>1, <2>3
  <2> QED BY <2>3, <2>7, <2>8, StepKeeps
<1> QED BY <1>3, <1>4 DEF HttpOpen

LEMMA HeaderKeeps == ASSUME SocketInv, NEW u \in Users, Header(u) PROVE SocketInv'
<1> DEFINE s == user[u].http_socket
<1>1. Shape /\ user[u].pc = "header" /\ DOMAIN user[u] = Fields /\ Holds(u) = {s}
  BY DEF Header, SocketInv, Shape, Holds
<1>2. NoSeekFailed => ~user[u].foreign
  BY DEF SocketInv, HeldOnly
<1> HIDE DEF s
<1>3. CASE Disturb(u, [user[u] EXCEPT !.pc = "length"]) /\ UNCHANGED sockets
  <2> DEFINE rec == [user[u] EXCEPT !.pc = "length"]
  <2>1. DOMAIN rec = Fields /\ rec.pc = "length" /\ rec.http_socket = s
        /\ rec.foreign = user[u].foreign /\ rec.lost = user[u].lost
    BY <1>1 DEF Fields, s
  <2>2. Disturb(u, rec)
    BY <1>3
  <2> HIDE DEF rec
  <2>3. Users1 /\ user'[u] = rec /\ OthersKept(u)
    BY <1>1, <2>1, <2>2, DisturbKeeps
  <2>4. SocketsKept /\ Holds(u)' = Holds(u)
    BY <1>1, <1>3, <2>1, <2>3 DEF Holds, SocketsKept, Shape
  <2> QED BY <1>2, <2>1, <2>3, <2>4, StepKeeps
<1>4. CASE /\ sockets' = Redirected(u)
           /\ Disturb(u, [user[u] EXCEPT !.pc = "open", !.http_socket = -1, !.redirects = @ + 1])
  <2> DEFINE rec == [user[u] EXCEPT !.pc = "open", !.http_socket = -1, !.redirects = @ + 1]
  <2>1. DOMAIN rec = Fields /\ rec.pc = "open"
        /\ rec.foreign = user[u].foreign /\ rec.lost = user[u].lost
    BY <1>1 DEF Fields
  <2>2. Disturb(u, rec)
    BY <1>4
  <2> HIDE DEF rec
  <2>3. Users1 /\ user'[u] = rec /\ OthersKept(u)
    BY <1>1, <2>1, <2>2, DisturbKeeps
  <2>4. Holds(u)' = {} /\ sockets' = Without(s)
    BY <1>4, <2>1, <2>3 DEF Holds, Redirected, s
  <2> QED BY <1>1, <1>2, <2>1, <2>3, <2>4, StepKeeps
<1>5. CASE sockets' = Without(s) /\ Disturb(u, Failure(user[u]))
  <2> DEFINE rec == Failure(user[u])
  <2>1. DOMAIN rec = Fields /\ rec.foreign = user[u].foreign
        /\ (user[u].lost => rec.lost) /\ (rec.pc = "idle" \/ rec.lost)
    BY <1>1, FailureShape
  <2>2. Disturb(u, rec)
    BY <1>5
  <2> HIDE DEF rec
  <2>3. Users1 /\ user'[u] = rec /\ OthersKept(u)
    BY <1>1, <2>1, <2>2, DisturbKeeps
  <2>4. sockets' = Without(s) /\ (user'[u].lost \/ Holds(u)' = {})
    BY <1>5, <2>1, <2>3 DEF Holds
  <2> QED BY <1>1, <1>2, <2>1, <2>3, <2>4, StepKeeps
<1> QED BY <1>3, <1>4, <1>5 DEF Header, s

LEMMA LengthKeeps == ASSUME SocketInv, NEW u \in Users, Length(u) PROVE SocketInv'
<1> DEFINE rec == [user[u] EXCEPT !.pc = "ready", !.userdata = user[u].http_socket,
                                  !.http_socket = -1, !.disturbed = FALSE]
<1>1. /\ Shape /\ user[u].pc = "length" /\ Disturb(u, rec) /\ UNCHANGED sockets
      /\ DOMAIN user[u] = Fields
  BY DEF Length, SocketInv, Shape
<1>2. DOMAIN rec = Fields /\ rec.pc = "ready" /\ rec.userdata = user[u].http_socket
      /\ rec.foreign = user[u].foreign /\ rec.lost = user[u].lost
  BY <1>1 DEF Fields
<1> HIDE DEF rec
<1>3. Users1 /\ user'[u] = rec /\ OthersKept(u)
  BY <1>1, <1>2, DisturbKeeps
<1>4. Holds(u)' = Holds(u) /\ SocketsKept
  BY <1>1, <1>2, <1>3 DEF Holds, SocketsKept, Shape
<1>5. NoSeekFailed => ~user[u].foreign
  BY DEF SocketInv, HeldOnly
<1> QED BY <1>2, <1>3, <1>4, <1>5, StepKeeps

LEMMA ReadCallKeeps == ASSUME SocketInv, NEW u \in Users, ReadCall(u) PROVE SocketInv'
<1>1. Shape /\ user[u].pc = "ready" /\ DOMAIN user[u] = Fields /\ UNCHANGED sockets
  BY DEF ReadCall, SocketInv, Shape
<1>2. NoSeekFailed => ~user[u].foreign
  BY DEF SocketInv, HeldOnly
<1>3. PICK rec : /\ Set(u, rec) /\ DOMAIN rec = Fields /\ rec.pc \in {"read", "close"}
                 /\ rec.userdata = user[u].userdata
                 /\ rec.foreign = user[u].foreign /\ rec.lost = user[u].lost
  <2> DEFINE ended == End(user[u], "end")
             reads == [user[u] EXCEPT !.pc = "read",
                         !.call = IF g_is_chunked THEN "chunk" ELSE "plain",
                         !.data_len = IF ~g_is_chunked /\ DataLen > http_totalsize
                                      THEN http_totalsize ELSE DataLen]
  <2>1. Set(u, ended) \/ Set(u, reads)
    BY DEF ReadCall
  <2>2. /\ DOMAIN ended = Fields /\ ended.pc = "close" /\ ended.userdata = user[u].userdata
        /\ ended.foreign = user[u].foreign /\ ended.lost = user[u].lost
    BY <1>1 DEF End, Fields
  <2>3. /\ DOMAIN reads = Fields /\ reads.pc = "read" /\ reads.userdata = user[u].userdata
        /\ reads.foreign = user[u].foreign /\ reads.lost = user[u].lost
    BY <1>1 DEF Fields
  <2> HIDE DEF ended, reads
  <2> QED BY <2>1, <2>2, <2>3
<1>4. Users1 /\ user'[u] = rec /\ OthersKept(u)
  BY <1>1, <1>3, SetKeeps
<1>5. Holds(u)' = Holds(u) /\ SocketsKept
  BY <1>1, <1>3, <1>4 DEF Holds, SocketsKept, Shape
<1> QED BY <1>2, <1>3, <1>4, <1>5, StepKeeps

LEMMA ReadReturnKeeps == ASSUME SocketInv, NEW u \in Users, ReadReturn(u) PROVE SocketInv'
<1> DEFINE s   == user[u].userdata
           now == [user[u] EXCEPT !.pc = "ready", !.data_len = 0, !.call = "none",
                                  !.foreign = @ \/ ~Owns(u, s)]
\* what a record is like whatever the socket gave
    Fine(rec) == /\ DOMAIN rec = Fields /\ rec.pc \in {"ready", "close"}
                 /\ rec.userdata = user[u].userdata /\ rec.lost = user[u].lost
                 /\ rec.foreign = (user[u].foreign \/ ~Owns(u, s))
<1>1. Shape /\ user[u].pc = "read" /\ DOMAIN user[u] = Fields
  BY DEF ReadReturn, SocketInv, Shape
<1>2. Fine(now)
  BY <1>1 DEF Fields
<1>3. PICK rs \in Answers(u) :
        IF rs > 0
        THEN /\ sockets' = [sockets EXCEPT ![s].left = @ - rs]
             /\ Set(u, [now EXCEPT !.got = @ + rs]) \/ Disturb(u, [now EXCEPT !.got = @ + rs])
        ELSE /\ \/ Set(u, End([now EXCEPT !.error = @ \/ rs = -1],
                              IF rs = 0 THEN "end" ELSE "overrun"))
                \/ Set(u, End([now EXCEPT !.error = TRUE], "end"))
                \/ Set(u, now) \/ Set(u, End(now, "timeout")) \/ Set(u, End(now, "end"))
             /\ UNCHANGED sockets
  BY DEF ReadReturn
<1> HIDE DEF now
<1>4. PICK rec : Fine(rec) /\ (Set(u, rec) \/ Disturb(u, rec))
  <2>1. Fine([now EXCEPT !.got = @ + rs])
    BY <1>2 DEF Fields
  <2>2. ASSUME NEW e PROVE Fine([now EXCEPT !.error = e])
    BY <1>2 DEF Fields
  <2>3. ASSUME NEW r, Fine(r), NEW why PROVE Fine(End(r, why))
    BY <2>3 DEF End, Fields
  <2>4. /\ Fine(End([now EXCEPT !.error = @ \/ rs = -1], IF rs = 0 THEN "end" ELSE "overrun"))
        /\ Fine(End([now EXCEPT !.error = TRUE], "end"))
        /\ Fine(End(now, "timeout")) /\ Fine(End(now, "end"))
    <3> HIDE DEF Fine
    <3> QED BY <1>2, <2>2, <2>3
  <2> HIDE DEF Fine
  <2> QED BY <1>2, <1>3, <2>1, <2>4
<1>5. Users1 /\ user'[u] = rec /\ OthersKept(u)
  BY <1>1, <1>4, SetKeeps, DisturbKeeps
<1>6. SocketsKept
  <2>1. CASE UNCHANGED sockets
    BY <1>1, <2>1 DEF SocketsKept, Shape
  <2>2. CASE rs > 0
    <3>1. s \in DOMAIN sockets
      BY <1>3, <2>2 DEF Answers
    <3>2. /\ DOMAIN sockets' = DOMAIN sockets
          /\ sockets'[s] = [sockets[s] EXCEPT !.left = @ - rs]
          /\ \A t \in DOMAIN sockets \ {s} : sockets'[t] = sockets[t]
      BY <1>3, <2>2, <3>1
    <3>3. DOMAIN sockets'[s] = {"user", "left"} /\ sockets'[s].user = sockets[s].user
      BY <1>1, <3>1, <3>2 DEF Shape
    <3> QED BY <1>1, <3>2, <3>3 DEF SocketsKept, Shape
  <2> QED BY <1>3, <2>1, <2>2
<1>7. Holds(u)' = Holds(u) /\ user'[u].lost = user[u].lost
  BY <1>1, <1>4, <1>5 DEF Holds
<1>8. NoSeekFailed => ~user'[u].foreign
  BY <1>1, <1>4, <1>5, OwnsHeld
<1> QED BY <1>5, <1>6, <1>7, <1>8, StepKeeps

LEMMA SeekKeeps == ASSUME SocketInv, NEW u \in Users, Seek(u) PROVE SocketInv'
<1> DEFINE s == user[u].userdata
<1>1. Shape /\ user[u].pc = "ready" /\ DOMAIN user[u] = Fields /\ sockets' = Without(s)
      /\ Holds(u) = {s}
  BY DEF Seek, SocketInv, Shape, Holds
<1>2. PICK pos : Set(u, [user[u] EXCEPT !.pc = "open", !.pos = pos, !.seeks = @ + 1,
                                        !.foreign = @ \/ ~Owns(u, s)])
  BY DEF Seek
<1> DEFINE rec == [user[u] EXCEPT !.pc = "open", !.pos = pos, !.seeks = @ + 1,
                                  !.foreign = @ \/ ~Owns(u, s)]
<1>3. /\ DOMAIN rec = Fields /\ rec.pc = "open" /\ rec.lost = user[u].lost
      /\ rec.foreign = (user[u].foreign \/ ~Owns(u, s))
  BY <1>1 DEF Fields
<1>4. Set(u, rec)
  BY <1>2
<1> HIDE DEF rec
<1>5. Users1 /\ user'[u] = rec /\ OthersKept(u)
  BY <1>1, <1>3, <1>4, SetKeeps
<1>6. NoSeekFailed => ~user'[u].foreign
  BY <1>1, <1>3, <1>5, OwnsHeld
<1>7. Holds(u)' = {}
  BY <1>3, <1>5 DEF Holds
<1>8. \E n : sockets' = Without(n) /\ (user'[u].lost \/ (Holds(u) = {n} /\ Holds(u)' = {}))
  BY <1>1, <1>7
<1> QED BY <1>3, <1>5, <1>6, <1>8, StepKeeps

LEMMA DestroyKeeps == ASSUME SocketInv, NEW u \in Users, Destroy(u) PROVE SocketInv'
<1> DEFINE s    == user[u].userdata
           last == [user[u] EXCEPT !.end = IF user[u].pc = "ready" THEN "stopped" ELSE @,
                                   !.foreign = @ \/ ~Owns(u, s)]
           rec  == Done(last)
<1>1. Shape /\ user[u].pc \in {"close", "ready"} /\ DOMAIN user[u] = Fields
      /\ sockets' = Without(s) /\ Holds(u) = {s} /\ Set(u, rec)
  BY DEF Destroy, SocketInv, Shape, Holds
<1>2. last.lost = user[u].lost /\ last.foreign = (user[u].foreign \/ ~Owns(u, s))
  BY <1>1 DEF Fields
<1>3. /\ DOMAIN rec = Fields /\ rec.pc = "idle" /\ rec.lost = user[u].lost
      /\ rec.foreign = (user[u].foreign \/ ~Owns(u, s))
  <2> HIDE DEF last
  <2> QED BY <1>2, DoneShape
<1> HIDE DEF rec
<1>5. Users1 /\ user'[u] = rec /\ OthersKept(u)
  BY <1>1, <1>3, SetKeeps
<1>6. NoSeekFailed => ~user'[u].foreign
  BY <1>1, <1>3, <1>5, OwnsHeld
<1>7. Holds(u)' = {}
  BY <1>3, <1>5 DEF Holds
<1>8. \E n : sockets' = Without(n) /\ (user'[u].lost \/ (Holds(u) = {n} /\ Holds(u)' = {}))
  BY <1>1, <1>7
<1> QED BY <1>3, <1>5, <1>6, <1>8, StepKeeps

--------------------------------------------------------------------------------
LEMMA InitSocketInv == Init => SocketInv
<1> SUFFICES ASSUME Init PROVE SocketInv
  OBVIOUS
<1>1. DOMAIN sockets = {} /\ DOMAIN user = Users /\ \A u \in Users : user[u] = Idle
  BY DEF Init
<1>2. DOMAIN Idle = Fields /\ Idle.pc = "idle" /\ Idle.foreign = FALSE
  BY DEF Idle, Fields
<1> QED BY <1>1, <1>2 DEF SocketInv, Shape, HeldOnly, Open, Holds

LEMMA NextSocketInv == SocketInv /\ [Next]_vars => SocketInv'
<1> SUFFICES ASSUME SocketInv, [Next]_vars PROVE SocketInv'
  OBVIOUS
<1>1. ASSUME NEW u \in Users, Step(u) PROVE SocketInv'
  BY <1>1, PlayKeeps, HttpOpenKeeps, HeaderKeeps, LengthKeeps, ReadCallKeeps, ReadReturnKeeps,
     SeekKeeps, DestroyKeeps DEF Step
<1>2. CASE UNCHANGED vars
  BY <1>2 DEF vars, SocketInv, Shape, HeldOnly, Open, Holds, NoSeekFailed
<1> QED BY <1>1, <1>2 DEF Next

\* Who holds the open sockets is their owner.
LEMMA SocketsAreOwned == SocketInv => SocketsOwned
<1> SUFFICES ASSUME SocketInv, NoSeekFailed, NEW s \in DOMAIN sockets
             PROVE  /\ \A u \in Users : ~user[u].foreign
                    /\ user[sockets[s].user].pc # "idle"
                    /\ s \in {user[sockets[s].user].userdata, user[sockets[s].user].http_socket}
  BY DEF SocketsOwned, SocketInv, HeldOnly
<1>1. sockets[s].user \in Users /\ s \in Open(sockets[s].user)
  BY DEF SocketInv, Shape, Open
<1>2. s \in Holds(sockets[s].user) /\ \A u \in Users : ~user[u].foreign
  BY <1>1 DEF SocketInv, HeldOnly
<1> QED BY <1>2 DEF Holds

\* The http preprocessor, for any number of users that share its globals: until a seek
\* failed, no user reads or closes the socket of another, and redirections, failed
\* opens, seeks and ends of tracks leave no socket open.
THEOREM UsersKeepTheirSockets == Spec => []SocketsOwned
<1>1. Init => SocketInv
  BY InitSocketInv
<1>2. SocketInv /\ [Next]_vars => SocketInv'
  BY NextSocketInv
<1>3. SocketInv => SocketsOwned
  BY SocketsAreOwned
<1> QED BY <1>1, <1>2, <1>3, PTL DEF Spec

--------------------------------------------------------------------------------
(* What a user has been given and what is left of its body *)

\* Before the globals are set the length is that of the body on the socket.  While
\* nobody disturbs the user, what it got and what is left add up, and the globals
\* tell what is left; a read that is under way was chosen by these globals.
UserOK(u) ==
  LET rec == user[u]
  IN  /\ rec.pos \in 0 .. Body
      /\ rec.pc \in {"header", "length"} =>
           /\ rec.length = Body - rec.pos /\ rec.got = 0
           /\ sockets[rec.http_socket].left = rec.length
      /\ rec.pc \in {"ready", "read"} /\ ~rec.disturbed =>
           /\ rec.got \in Nat /\ sockets[rec.userdata].left \in Nat
           /\ rec.got + sockets[rec.userdata].left = Body - rec.pos
           /\ ~g_is_chunked => http_totalsize = sockets[rec.userdata].left
      /\ rec.pc = "read" /\ ~rec.disturbed =>
           /\ rec.call = IF g_is_chunked THEN "chunk" ELSE "plain"
           /\ rec.data_len \in Int
      /\ rec.pc = "close" /\ rec.end = "end" /\ ~rec.disturbed /\ ~rec.error =>
           rec.got = Body - rec.pos

BodyInv == SocketInv /\ (NoSeekFailed => \A u \in Users : UserOK(u))

\* Whoever writes a global disturbs the others, and nobody touches their sockets.
OthersSame(u)      == \A v \in Users \ {u} : user'[v] = user[v]
OthersDisturbed(u) == \A v \in Users \ {u} : user'[v] = [user[v] EXCEPT !.disturbed = TRUE]
SocketsLeft(u)     == \A s \in DOMAIN sockets : sockets[s].user # u =>
                        s \in DOMAIN sockets' /\ sockets'[s] = sockets[s]

LEMMA SetSame == ASSUME Shape, NEW u \in Users, NEW rec, Set(u, rec)
                 PROVE  user'[u] = rec /\ OthersSame(u)
BY DEF Shape, Set, OthersSame

LEMMA DisturbOthers == ASSUME Shape, NEW u \in Users, NEW rec, Disturb(u, rec)
                       PROVE  user'[u] = rec /\ OthersDisturbed(u)
BY DEF Shape, Disturb, OthersDisturbed

LEMMA OtherOK ==
  ASSUME SocketInv, NoSeekFailed, NEW u \in Users, NEW v \in Users \ {u}, UserOK(v),
         SocketsLeft(u),
         \/ OthersSame(u) /\ UNCHANGED <<g_is_chunked, http_totalsize>>
         \/ OthersDisturbed(u)
  PROVE  UserOK(v)'
<1>1. Open(v) = Holds(v) /\ DOMAIN user[v] = Fields
  BY DEF SocketInv, HeldOnly, Shape
<1>2. \A s \in Holds(v) : sockets'[s] = sockets[s]
  BY <1>1 DEF Open, SocketsLeft
<1>3. CASE OthersSame(u) /\ UNCHANGED <<g_is_chunked, http_totalsize>>
  <2>1. user'[v] = user[v]
    BY <1>3 DEF OthersSame
  <2> QED BY <1>2, <1>3, <2>1 DEF UserOK, Holds
<1>4. CASE OthersDisturbed(u)
  <2>1. user'[v] = [user[v] EXCEPT !.disturbed = TRUE]
    BY <1>4 DEF OthersDisturbed
  <2>2. /\ user'[v].disturbed = TRUE /\ user'[v].pos = user[v].pos /\ user'[v].pc = user[v].pc
        /\ user'[v].length = user[v].length /\ user'[v].got = user[v].got
        /\ user'[v].http_socket = user[v].http_socket
    BY <1>1, <2>1 DEF Fields
  <2> QED BY <1>2, <2>2 DEF UserOK, Holds
<1> QED BY <1>3, <1>4

\* A step keeps the invariant when it does so for its own user.
LEMMA StepKeepsBody ==
  ASSUME BodyInv, SocketInv', NEW u \in Users, user[u].lost => user'[u].lost,
         NoSeekFailed => SocketsLeft(u),
         \/ OthersSame(u) /\ UNCHANGED <<g_is_chunked, http_totalsize>>
         \/ OthersDisturbed(u),
         NoSeekFailed /\ UserOK(u) /\ ~user'[u].lost => UserOK(u)'
  PROVE  BodyInv'
<1> SUFFICES ASSUME NoSeekFailed' PROVE \A v \in Users : UserOK(v)'
  BY DEF BodyInv
<1>1. \A v \in Users \ {u} : user'[v].lost = user[v].lost
  <2>1. \A v \in Users : DOMAIN user[v] = Fields
    BY DEF BodyInv, SocketInv, Shape
  <2> QED BY <2>1 DEF OthersSame, OthersDisturbed, Fields
<1>2. NoSeekFailed
  BY <1>1 DEF NoSeekFailed
<1>3. UserOK(u)'
  BY <1>2 DEF BodyInv, NoSeekFailed
<1>4. \A v \in Users \ {u} : UserOK(v)'
  BY <1>2, OtherOK DEF BodyInv
<1> QED BY <1>3, <1>4

LEMMA WithoutOwn == ASSUME SocketInv, NoSeekFailed, NEW u \in Users, NEW s, Holds(u) = {s},
                           sockets' = Without(s)
                    PROVE  SocketsLeft(u)
<1>1. s \in DOMAIN sockets /\ sockets[s].user = u
  BY DEF SocketInv, HeldOnly, Open
<1> QED BY <1>1 DEF Without, SocketsLeft

LEMMA DonePos == ASSUME NEW rec PROVE Done(rec).pos = 0 /\ Done(rec).pc = "idle"
BY DEF Done, Idle

LEMMA FailurePos == ASSUME NEW rec, DOMAIN rec = Fields
                    PROVE  \/ Failure(rec).pos = 0 /\ Failure(rec).pc = "idle"
                           \/ Failure(rec).lost
<1>1. CASE rec.seeks = 0
  BY <1>1, DonePos DEF Failure
<1>2. CASE rec.seeks # 0
  <2>1. Failure(rec) = [rec EXCEPT !.pc = "ready", !.http_socket = -1, !.lost = TRUE]
    BY <1>2 DEF Failure
  <2> QED BY <2>1 DEF Fields
<1> QED BY <1>1, <1>2

LEMMA PlayBody == ASSUME BodyInv, SocketInv', NEW u \in Users, Play(u) PROVE BodyInv'
<1> DEFINE rec == [user[u] EXCEPT !.pc = "open"]
<1>1. /\ Shape /\ Set(u, rec) /\ UNCHANGED <<sockets, g_is_chunked, http_totalsize>>
      /\ DOMAIN user[u] = Fields
  BY DEF Play, BodyInv, SocketInv, Shape
<1>2. rec.pc = "open" /\ rec.pos = user[u].pos /\ rec.lost = user[u].lost
  BY <1>1 DEF Fields
<1> HIDE DEF rec
<1>3. user'[u] = rec /\ OthersSame(u)
  BY <1>1, SetSame
<1>4. UserOK(u) => UserOK(u)'
  BY <1>2, <1>3 DEF UserOK
<1>5. SocketsLeft(u)
  BY <1>1 DEF SocketsLeft
<1> QED BY <1>1, <1>2, <1>3, <1>4, <1>5, StepKeepsBody

LEMMA HttpOpenBody == ASSUME HttpAssumption, BodyInv, SocketInv', NEW u \in Users, HttpOpen(u) PROVE BodyInv'
<1>1. Shape /\ DOMAIN user[u] = Fields /\ UNCHANGED <<g_is_chunked, http_totalsize>>
  BY DEF HttpOpen, BodyInv, SocketInv, Shape
<1>3. CASE Set(u, Failure(user[u])) /\ UNCHANGED sockets
  <2> DEFINE rec == Failure(user[u])
  <2>1. (user[u].lost => rec.lost) /\ ((rec.pos = 0 /\ rec.pc = "idle") \/ rec.lost)
    BY <1>1, FailureShape, FailurePos
  <2>2. Set(u, rec)
    BY <1>3
  <2> HIDE DEF rec
  <2>3. user'[u] = rec /\ OthersSame(u)
    BY <1>1, <2>2, SetSame
  <2>4. UserOK(u) /\ ~rec.lost => UserOK(u)'
    BY <2>1, <2>3 DEF UserOK, HttpAssumption
  <2>5. SocketsLeft(u)
    BY <1>3 DEF SocketsLeft
  <2> QED BY <1>1, <2>1, <2>3, <2>4, <2>5, StepKeepsBody
<1>4. ASSUME NEW s, NEW chunked, Free(s), Opened(s, [user |-> u, left |-> Body - user[u].pos]),
             Set(u, [user[u] EXCEPT !.pc = "header", !.http_socket = s, !.got = 0,
                                    !.chunked = chunked, !.length = Body - user[u].pos])
      PROVE  BodyInv'
  <2> DEFINE rec == [user[u] EXCEPT !.pc = "header", !.http_socket = s, !.got = 0,
                                    !.chunked = chunked, !.length = Body - user[u].pos]
  <2>1. rec.pc = "header" /\ rec.http_socket = s /\ rec.length = Body - user[u].pos
        /\ rec.pos = user[u].pos /\ rec.got = 0 /\ rec.lost = user[u].lost
    BY <1>1 DEF Fields
  <2>2. Set(u, rec)
    BY <1>4
  <2> HIDE DEF rec
  <2>3. user'[u] = rec /\ OthersSame(u)
    BY <1>1, <2>2, SetSame
  <2>4. /\ sockets'[s] = [user |-> u, left |-> Body - user[u].pos]
        /\ \A t \in DOMAIN sockets : t \in DOMAIN sockets' /\ sockets'[t] = sockets[t]
    BY <1>4 DEF Opened, Free
  <2>5. sockets'[s].left = Body - user[u].pos
    BY <2>4
  <2>6. UserOK(u) => UserOK(u)'
    BY <2>1, <2>3, <2>5 DEF UserOK
  <2>7. SocketsLeft(u)
    BY <2>4 DEF SocketsLeft
  <2> QED BY <1>1, <2>1, <2>3, <2>6, <2>7, StepKeepsBody
<1> QED BY <1>3, <1>4 DEF HttpOpen

LEMMA HeaderBody == ASSUME HttpAssumption, BodyInv, SocketInv', NEW u \in Users, Header(u) PROVE BodyInv'
<1> DEFINE s == user[u].http_socket
<1>1. Shape /\ user[u].pc = "header" /\ DOMAIN user[u] = Fields /\ Holds(u) = {s}
  BY DEF Header, BodyInv, SocketInv, Shape, Holds
<1> HIDE DEF s
<1>2. NoSeekFailed /\ (UNCHANGED sockets \/ sockets' = Without(s)) => SocketsLeft(u)
  BY <1>1, WithoutOwn DEF BodyInv, SocketsLeft
<1>3. CASE Disturb(u, [user[u] EXCEPT !.pc = "length"]) /\ UNCHANGED sockets
  <2> DEFINE rec == [user[u] EXCEPT !.pc = "length"]
  <2>1. rec.pc = "length" /\ rec.http_socket = user[u].http_socket /\ rec.length = user[u].length
        /\ rec.pos = user[u].pos /\ rec.got = user[u].got /\ rec.lost = user[u].lost
    BY <1>1 DEF Fields
  <2>2. Disturb(u, rec)
    BY <1>3
  <2> HIDE DEF rec
  <2>3. user'[u] = rec /\ OthersDisturbed(u)
    BY <1>1, <2>2, DisturbOthers
  <2>4. UserOK(u) => UserOK(u)'
    BY <1>1, <1>3, <2>1, <2>3 DEF UserOK
  <2> QED BY <1>2, <1>3, <2>1, <2>3, <2>4, StepKeepsBody
<1>4. CASE /\ sockets' = Redirected(u)
           /\ Disturb(u, [user[u] EXCEPT !.pc = "open", !.http_socket = -1, !.redirects = @ + 1])
  <2> DEFINE rec == [user[u] EXCEPT !.pc = "open", !.http_socket = -1, !.redirects = @ + 1]
  <2>1. rec.pc = "open" /\ rec.pos = user[u].pos /\ rec.lost = user[u].lost
    BY <1>1 DEF Fields
  <2>2. Disturb(u, rec)
    BY <1>4
  <2> HIDE DEF rec
  <2>3. user'[u] = rec /\ OthersDisturbed(u)
    BY <1>1, <2>2, DisturbOthers
  <2>4. UserOK(u) => UserOK(u)'
    BY <2>1, <2>3 DEF UserOK
  <2>5. sockets' = Without(s)
    BY <1>4 DEF Redirected, s
  <2> QED BY <1>2, <2>1, <2>3, <2>4, <2>5, StepKeepsBody
<1>5. CASE sockets' = Without(s) /\ Disturb(u, Failure(user[u]))
  <2> DEFINE rec == Failure(user[u])
  <2>1. (user[u].lost => rec.lost) /\ ((rec.pos = 0 /\ rec.pc = "idle") \/ rec.lost)
    BY <1>1, FailureShape, FailurePos
  <2>2. Disturb(u, rec)
    BY <1>5
  <2> HIDE DEF rec
  <2>3. user'[u] = rec /\ OthersDisturbed(u)
    BY <1>1, <2>2, DisturbOthers
  <2>4. UserOK(u) /\ ~rec.lost => UserOK(u)'
    BY <2>1, <2>3 DEF UserOK, HttpAssumption
  <2> QED BY <1>2, <1>5, <2>1, <2>3, <2>4, StepKeepsBody
<1> QED BY <1>3, <1>4, <1>5 DEF Header, s

LEMMA LengthBody == ASSUME HttpAssumption, BodyInv, SocketInv', NEW u \in Users, Length(u) PROVE BodyInv'
<1> DEFINE rec == [user[u] EXCEPT !.pc = "ready", !.userdata = user[u].http_socket,
                                  !.http_socket = -1, !.disturbed = FALSE]
<1>1. /\ Shape /\ user[u].pc = "length" /\ Disturb(u, rec) /\ UNCHANGED sockets
      /\ DOMAIN user[u] = Fields
      /\ g_is_chunked' = user[u].chunked
      /\ ~user[u].chunked => http_totalsize' = user[u].length
  BY DEF Length, BodyInv, SocketInv, Shape
<1>2. rec.pc = "ready" /\ rec.userdata = user[u].http_socket /\ rec.got = user[u].got
      /\ rec.pos = user[u].pos /\ rec.lost = user[u].lost
  BY <1>1 DEF Fields
<1> HIDE DEF rec
<1>3. user'[u] = rec /\ OthersDisturbed(u)
  BY <1>1, DisturbOthers
<1>4. UserOK(u) => UserOK(u)'
  BY <1>1, <1>2, <1>3 DEF UserOK, HttpAssumption
<1>5. SocketsLeft(u)
  BY <1>1 DEF SocketsLeft
<1> QED BY <1>2, <1>3, <1>4, <1>5, StepKeepsBody

LEMMA SeekBody == ASSUME BodyInv, SocketInv', NEW u \in Users, Seek(u) PROVE BodyInv'
<1> DEFINE s == user[u].userdata
<1>1. Shape /\ DOMAIN user[u] = Fields /\ sockets' = Without(s) /\ Holds(u) = {s}
      /\ UNCHANGED <<g_is_chunked, http_totalsize>>
  BY DEF Seek, BodyInv, SocketInv, Shape, Holds
<1>2. PICK pos \in 0 .. Body :
        Set(u, [user[u] EXCEPT !.pc = "open", !.pos = pos, !.seeks = @ + 1,
                               !.foreign = @ \/ ~Owns(u, s)])
  BY DEF Seek
<1> DEFINE rec == [user[u] EXCEPT !.pc = "open", !.pos = pos, !.seeks = @ + 1,
                                  !.foreign = @ \/ ~Owns(u, s)]
<1>3. rec.pc = "open" /\ rec.pos = pos /\ rec.lost = user[u].lost
  BY <1>1 DEF Fields
<1>4. Set(u, rec)
  BY <1>2
<1> HIDE DEF rec, s
<1>5. user'[u] = rec /\ OthersSame(u)
  BY <1>1, <1>4, SetSame
<1>6. UserOK(u) => UserOK(u)'
  BY <1>3, <1>5 DEF UserOK
<1>7. NoSeekFailed => SocketsLeft(u)
  BY <1>1, WithoutOwn DEF BodyInv
<1> QED BY <1>1, <1>3, <1>5, <1>6, <1>7, StepKeepsBody

LEMMA DestroyBody == ASSUME HttpAssumption, BodyInv, SocketInv', NEW u \in Users, Destroy(u) PROVE BodyInv'
<1> DEFINE s    == user[u].userdata
           last == [user[u] EXCEPT !.end = IF user[u].pc = "ready" THEN "stopped" ELSE @,
                                   !.foreign = @ \/ ~Owns(u, s)]
           rec  == Done(last)
<1>1. Shape /\ DOMAIN user[u] = Fields /\ sockets' = Without(s) /\ Holds(u) = {s} /\ Set(u, rec)
      /\ UNCHANGED <<g_is_chunked, http_totalsize>>
  BY DEF Destroy, BodyInv, SocketInv, Shape, Holds
<1>2. last.lost = user[u].lost
  BY <1>1 DEF Fields
<1> HIDE DEF last, s
<1>3. rec.pos = 0 /\ rec.pc = "idle" /\ rec.lost = user[u].lost
  BY <1>2, DonePos, DoneShape
<1> HIDE DEF rec
<1>5. user'[u] = rec /\ OthersSame(u)
  BY <1>1, SetSame
<1>6. UserOK(u)'
  BY <1>3, <1>5 DEF UserOK, HttpAssumption
<1>7. NoSeekFailed => SocketsLeft(u)
  BY <1>1, WithoutOwn DEF BodyInv
<1> QED BY <1>1, <1>3, <1>5, <1>6, <1>7, StepKeepsBody

LEMMA ReadCallBody == ASSUME HttpAssumption, BodyInv, SocketInv', NEW u \in Users, ReadCall(u)
                      PROVE  BodyInv'
<1>1. /\ Shape /\ user[u].pc = "ready" /\ DOMAIN user[u] = Fields
      /\ UNCHANGED <<sockets, g_is_chunked, http_totalsize>>
  BY DEF ReadCall, BodyInv, SocketInv, Shape
<1>2. SocketsLeft(u)
  BY <1>1 DEF SocketsLeft
<1>3. CASE ~g_is_chunked /\ http_totalsize = 0
  <2> DEFINE rec == End(user[u], "end")
  <2>1. rec.pc = "close" /\ rec.pos = user[u].pos /\ rec.got = user[u].got
        /\ rec.lost = user[u].lost /\ rec.disturbed = user[u].disturbed
    BY <1>1 DEF End, Fields
  <2>2. Set(u, rec)
    BY <1>3 DEF ReadCall
  <2> HIDE DEF rec
  <2>3. user'[u] = rec /\ OthersSame(u)
    BY <1>1, <2>2, SetSame
  <2>4. UserOK(u) => UserOK(u)'
    BY <1>1, <1>3, <2>1, <2>3 DEF UserOK, HttpAssumption
  <2> QED BY <1>1, <1>2, <2>1, <2>3, <2>4, StepKeepsBody
<1>4. CASE ~(~g_is_chunked /\ http_totalsize = 0)
  <2> DEFINE call == IF g_is_chunked THEN "chunk" ELSE "plain"
             len  == IF ~g_is_chunked /\ DataLen > http_totalsize THEN http_totalsize ELSE DataLen
             rec  == [user[u] EXCEPT !.pc = "read", !.call = call, !.data_len = len]
  <2>1. rec.pc = "read" /\ rec.pos = user[u].pos /\ rec.got = user[u].got
        /\ rec.lost = user[u].lost /\ rec.disturbed = user[u].disturbed
        /\ rec.userdata = user[u].userdata /\ rec.call = call /\ rec.data_len = len
    BY <1>1 DEF Fields
  <2>2. Set(u, rec)
    BY <1>4 DEF ReadCall
  <2>3. user'[u] = rec /\ OthersSame(u)
    BY <1>1, <2>2, SetSame
  <2> HIDE DEF rec
  <2>4. UserOK(u) => UserOK(u)'
    <3>1. UserOK(u) /\ ~user[u].disturbed => len \in Int
      BY <1>1 DEF UserOK, HttpAssumption
    <3> HIDE DEF len
    <3> QED BY <1>1, <2>1, <2>3, <3>1 DEF UserOK
  <2> QED BY <1>1, <1>2, <2>1, <2>3, <2>4, StepKeepsBody
<1> QED BY <1>3, <1>4

LEMMA MinOfTwo == ASSUME NEW a \in Int, NEW b \in Int PROVE Min({a, b}) \in Int /\ Min({a, b}) <= b
<1>1. \E x \in {a, b} : \A y \in {a, b} : x <= y
  <2>1. CASE a <= b
    BY <2>1
  <2>2. CASE b <= a
    BY <2>2
  <2> QED BY <2>1, <2>2
<1> QED BY <1>1 DEF Min

\* A read counts what came, on its own socket and in the globals it was chosen by.
LEMMA ReadReturnBody == ASSUME HttpAssumption, BodyInv, SocketInv', NEW u \in Users, ReadReturn(u)
                        PROVE  BodyInv'
<1> DEFINE s   == user[u].userdata
           now == [user[u] EXCEPT !.pc = "ready", !.data_len = 0, !.call = "none",
                                  !.foreign = @ \/ ~Owns(u, s)]
\* what a record is like when nothing came
    Nothing(rec) == /\ rec.pc \in {"ready", "close"} /\ rec.pos = user[u].pos
                    /\ rec.got = user[u].got
                    /\ rec.userdata = s /\ rec.lost = user[u].lost
                    /\ rec.disturbed = user[u].disturbed
<1>1. Shape /\ user[u].pc = "read" /\ DOMAIN user[u] = Fields /\ UNCHANGED g_is_chunked
  BY DEF ReadReturn, BodyInv, SocketInv, Shape
<1>2. DOMAIN now = Fields /\ Nothing(now) /\ now.pc = "ready"
  BY <1>1 DEF Fields
<1>3. PICK rs \in Answers(u) :
        IF rs > 0
        THEN /\ sockets' = [sockets EXCEPT ![s].left = @ - rs]
             /\ IF user[u].call = "chunk"
                THEN Set(u, [now EXCEPT !.got = @ + rs]) /\ UNCHANGED http_totalsize
                ELSE /\ http_totalsize' = Left(rs, user[u].data_len)
                     /\ Disturb(u, [now EXCEPT !.got = @ + rs])
        ELSE /\ \/ user[u].call = "chunk"
                   /\ Set(u, End([now EXCEPT !.error = @ \/ rs = -1],
                                 IF rs = 0 THEN "end" ELSE "overrun"))
                \/ user[u].call = "plain" /\ rs = -1
                   /\ Set(u, End([now EXCEPT !.error = TRUE], "end"))
                \/ user[u].call = "plain" /\ rs = 0
                   /\ IF http_totalsize > 0
                      THEN \E then \in {now, End(now, "timeout")} : Set(u, then)
                      ELSE Set(u, End(now, "end"))
             /\ UNCHANGED <<http_totalsize, sockets>>
  BY DEF ReadReturn
<1> HIDE DEF now, s
<1>4. NoSeekFailed => s \in DOMAIN sockets /\ sockets[s].user = u
  BY <1>1, OwnsHeld DEF BodyInv, Owns, s
<1>5. CASE rs > 0
  <2> DEFINE rec == [now EXCEPT !.got = @ + rs]
  <2>1. /\ rec.pc = "ready" /\ rec.pos = user[u].pos /\ rec.got = user[u].got + rs
        /\ rec.userdata = s /\ rec.lost = user[u].lost /\ rec.disturbed = user[u].disturbed
    BY <1>2 DEF Fields
  <2>2. Set(u, rec) \/ Disturb(u, rec)
    BY <1>3, <1>5
  <2>3. user'[u] = rec /\ ((OthersSame(u) /\ UNCHANGED http_totalsize) \/ OthersDisturbed(u))
    <3> HIDE DEF rec
    <3>1. CASE user[u].call = "chunk"
      <4>1. Set(u, rec) /\ UNCHANGED http_totalsize
        BY <1>3, <1>5, <3>1 DEF rec
      <4> QED BY <1>1, <4>1, SetSame
    <3>2. CASE user[u].call # "chunk"
      <4>1. Disturb(u, rec)
        BY <1>3, <1>5, <3>2 DEF rec
      <4> QED BY <1>1, <4>1, DisturbOthers
    <3> QED BY <3>1, <3>2
  <2> HIDE DEF rec
  <2>4. /\ s \in DOMAIN sockets /\ rs \in 1 .. Min({user[u].data_len, sockets[s].left})
    BY <1>3, <1>5 DEF Answers, s
  <2>5. /\ DOMAIN sockets' = DOMAIN sockets
        /\ sockets'[s] = [sockets[s] EXCEPT !.left = @ - rs]
        /\ \A t \in DOMAIN sockets \ {s} : sockets'[t] = sockets[t]
    BY <1>3, <1>5, <2>4
  <2>6. sockets'[s].left = sockets[s].left - rs
    BY <1>1, <2>4, <2>5 DEF Shape
  <2>7. NoSeekFailed => SocketsLeft(u)
    BY <1>4, <2>5 DEF SocketsLeft
  <2>8. ASSUME UserOK(u) PROVE UserOK(u)'
    <3>1. CASE user[u].disturbed
      BY <2>1, <2>3, <2>8, <3>1 DEF UserOK
    <3>2. CASE ~user[u].disturbed
      <4> DEFINE left == sockets[s].left
      <4>1. /\ user[u].got \in Nat /\ left \in Nat /\ user[u].got + left = Body - user[u].pos
            /\ ~g_is_chunked => http_totalsize = left
            /\ user[u].call = IF g_is_chunked THEN "chunk" ELSE "plain"
            /\ user[u].data_len \in Int /\ user[u].pos \in 0 .. Body
        BY <1>1, <2>8, <3>2 DEF UserOK, s
      <4>2. rs \in Nat /\ rs <= left
        <5> DEFINE d == user[u].data_len
                   m == Min({d, left})
        <5>1. d \in Int /\ left \in Int /\ left \in Nat
          BY <4>1
        <5>2. rs \in 1 .. m
          BY <2>4
        <5> HIDE DEF d, left
        <5>3. m \in Int /\ m <= left
          BY <5>1, MinOfTwo, Zenon
        <5> HIDE DEF m
        <5> QED BY <5>1, <5>2, <5>3
      <4>3. /\ rec.got \in Nat /\ left - rs \in Nat
            /\ rec.got + (left - rs) = Body - rec.pos
        BY <2>1, <4>1, <4>2
      <4>4. ~g_is_chunked => http_totalsize' = left - rs
        <5> SUFFICES ASSUME ~g_is_chunked PROVE http_totalsize' = left - rs
          OBVIOUS
        <5>1. http_totalsize' = (left - rs) % Width
          BY <1>3, <1>5, <4>1 DEF Left
        <5>2. left - rs \in 0 .. Width - 1 /\ Width \in Nat \ {0}
          BY <4>1, <4>2 DEF HttpAssumption
        <5> HIDE DEF left
        <5>3. \A x, w \in Nat : x < w => x % w = x
          OBVIOUS
        <5> QED BY <5>1, <5>2, <5>3
      <4> QED BY <1>1, <2>1, <2>3, <2>6, <4>1, <4>3, <4>4 DEF UserOK
    <3> QED BY <3>1, <3>2
  <2>9. SocketsLeft(u) \/ ~NoSeekFailed
    BY <2>7
  <2> QED BY <1>1, <2>1, <2>3, <2>7, <2>8, StepKeepsBody
<1>6. CASE ~(rs > 0)
  <2>1. UNCHANGED <<http_totalsize, sockets>>
    BY <1>3, <1>6
  <2>2. PICK rec : /\ Set(u, rec) /\ Nothing(rec)
                   /\ rec.pc = "close" /\ rec.end = "end" /\ ~rec.error =>
                        \/ user[u].call = "chunk" /\ rs = 0
                        \/ user[u].call = "plain" /\ ~(http_totalsize > 0)
    <3>1. CASE user[u].call = "chunk"
      <4> DEFINE mid == [now EXCEPT !.error = @ \/ rs = -1]
                 why == IF rs = 0 THEN "end" ELSE "overrun"
      <4>1. DOMAIN mid = Fields /\ Nothing(mid)
        BY <1>2 DEF Fields
      <4> HIDE DEF mid, why
      <4>2. End(mid, why).end = why /\ Nothing(End(mid, why))
        BY <4>1 DEF End, Fields
      <4>3. Set(u, End(mid, why))
        BY <1>3, <1>6, <3>1 DEF mid, why
      <4>4. why = "end" => rs = 0
        BY DEF why
      <4> HIDE DEF Nothing
      <4> QED BY <3>1, <4>2, <4>3, <4>4
    <3>2. CASE user[u].call = "plain" /\ rs = -1
      <4> DEFINE mid == [now EXCEPT !.error = TRUE]
      <4>1. DOMAIN mid = Fields /\ Nothing(mid) /\ mid.error
        BY <1>2 DEF Fields
      <4> HIDE DEF mid
      <4>2. End(mid, "end").error /\ Nothing(End(mid, "end"))
        BY <4>1 DEF End, Fields
      <4>3. Set(u, End(mid, "end"))
        BY <1>3, <1>6, <3>2 DEF mid
      <4> HIDE DEF Nothing
      <4> QED BY <4>2, <4>3
    <3>3. CASE user[u].call = "plain" /\ rs = 0
      <4>1. End(now, "timeout").end = "timeout" /\ Nothing(End(now, "timeout"))
        BY <1>2 DEF End, Fields
      <4>2. Nothing(End(now, "end"))
        BY <1>2 DEF End, Fields
      <4>3. \/ Set(u, now) \/ Set(u, End(now, "timeout"))
            \/ Set(u, End(now, "end")) /\ ~(http_totalsize > 0)
        BY <1>3, <1>6, <3>3
      <4> HIDE DEF Nothing
      <4> QED BY <1>2, <3>3, <4>1, <4>2, <4>3
    <3> QED BY <1>3, <1>6, <3>1, <3>2, <3>3
  <2>3. user'[u] = rec /\ OthersSame(u)
    BY <1>1, <2>2, SetSame
  <2>4. SocketsLeft(u)
    BY <2>1 DEF SocketsLeft
  <2>5. ASSUME UserOK(u), NoSeekFailed PROVE UserOK(u)'
    <3>1. CASE user[u].disturbed
      BY <2>2, <2>3, <2>5, <3>1 DEF UserOK
    <3>2. CASE ~user[u].disturbed
      <4> DEFINE left == sockets[s].left
      <4>1. /\ user[u].got \in Nat /\ left \in Nat /\ user[u].got + left = Body - user[u].pos
            /\ ~g_is_chunked => http_totalsize = left
            /\ user[u].call = IF g_is_chunked THEN "chunk" ELSE "plain"
            /\ user[u].pos \in 0 .. Body
        BY <1>1, <2>5, <3>2 DEF UserOK, s
      <4>2. user[u].call = "chunk" /\ rs = 0 => left = 0
        <5> SUFFICES ASSUME user[u].call = "chunk", rs = 0 PROVE left = 0
          OBVIOUS
        <5>1. Answers(u) = {-1} \cup 1 .. Min({user[u].data_len, left})
                                \cup (IF left = 0 THEN {0} ELSE {})
          BY <1>4, <2>5 DEF Answers, s
        <5> HIDE DEF left
        <5>2. 0 \in {-1} \cup 1 .. Min({user[u].data_len, left}) \cup (IF left = 0 THEN {0} ELSE {})
          BY <1>3, <5>1
        <5>3. 0 \notin {-1} /\ 0 \notin 1 .. Min({user[u].data_len, left})
          OBVIOUS
        <5> QED BY <5>2, <5>3
      <4>3. user[u].call = "plain" /\ ~(http_totalsize > 0) => left = 0
        BY <4>1
      <4>4. left = 0 => user[u].got = Body - user[u].pos
        BY <4>1 DEF HttpAssumption
      <4>5. /\ rec.pos = user[u].pos /\ rec.got = user[u].got /\ rec.userdata = s
            /\ rec.pc \in {"ready", "close"}
            /\ rec.pc = "close" /\ rec.end = "end" /\ ~rec.error => rec.got = Body - rec.pos
        BY <2>2, <4>2, <4>3, <4>4
      <4> QED BY <1>1, <2>1, <2>3, <4>1, <4>5 DEF UserOK
    <3> QED BY <3>1, <3>2
  <2> QED BY <1>1, <2>1, <2>2, <2>3, <2>4, <2>5, StepKeepsBody
<1> QED BY <1>5, <1>6

--------------------------------------------------------------------------------
LEMMA InitBodyInv == HttpAssumption /\ Init => BodyInv
<1> SUFFICES ASSUME HttpAssumption, Init PROVE \A u \in Users : UserOK(u)
  BY InitSocketInv DEF BodyInv
<1>1. \A u \in Users : user[u].pos = 0 /\ user[u].pc = "idle"
  BY DEF Init, Idle
<1> QED BY <1>1 DEF UserOK, HttpAssumption

LEMMA NextBodyInv == HttpAssumption /\ BodyInv /\ [Next]_vars => BodyInv'
<1> SUFFICES ASSUME HttpAssumption, BodyInv, [Next]_vars PROVE BodyInv'
  OBVIOUS
<1>1. SocketInv'
  BY NextSocketInv DEF BodyInv
<1>2. ASSUME NEW u \in Users, Step(u) PROVE BodyInv'
  BY <1>1, <1>2, PlayBody, HttpOpenBody, HeaderBody, LengthBody, ReadCallBody, ReadReturnBody,
     SeekBody, DestroyBody DEF Step
<1>3. CASE UNCHANGED vars
  BY <1>1, <1>3 DEF vars, BodyInv, UserOK, NoSeekFailed
<1> QED BY <1>2, <1>3 DEF Next

\* A track over http that came to its end was given whole, for any number of users of
\* the two globals, any body and any reads: what is left is counted right over short
\* reads, retries, redirections and seeks, as long as nobody else wrote the globals,
\* the socket did not fail and no seek did.
THEOREM TracksAreWhole == ASSUME HttpAssumption PROVE Spec => []BodyWhole
<1>1. Init => BodyInv
  BY InitBodyInv
<1>2. BodyInv /\ [Next]_vars => BodyInv'
  BY NextBodyInv
<1>3. BodyInv => BodyWhole
  BY DEF BodyInv, UserOK, BodyWhole
<1> QED BY <1>1, <1>2, <1>3, PTL DEF Spec

--------------------------------------------------------------------------------
(* The sample buffer *)

TypeInv == /\ channels \in {1, 2}
           /\ samplesInBuffer \in Nat /\ bufferPos \in Nat /\ size \in Nat
           /\ next \in Int

\* the values that are held lie in the buffer, and are those that were put
InPlace == /\ content \in Seq(Int) /\ Len(content) = Held
           /\ samplesInBuffer > 0 => bufferPos * channels + Held <= size
           /\ \A i \in 1 .. Held : content[i] = Begin(i - 1)

FifoInv == TypeInv /\ (torn \/ InPlace)

\* the pages that are allocated have room for what was asked
LEMMA RoundUpEnough == ASSUME FifoAssumption, NEW v \in Nat
                       PROVE  RoundUp(v) \in Nat /\ RoundUp(v) >= v
<1> DEFINE P == PageValues
           q == (v + P - 1) \div P
           r == (v + P - 1) % P
<1>1. P \in Nat \ {0}
      BY DEF FifoAssumption
<1>2. v + P - 1 \in Nat
      BY <1>1
<1>3. q \in Nat /\ r \in 0 .. P - 1 /\ v + P - 1 = q * P + r
      BY <1>1, <1>2
<1> HIDE DEF q, r
<1>4. q * P \in Nat /\ q * P >= v
      BY <1>1, <1>3
<1> QED BY <1>4 DEF RoundUp, q

LEMMA InitFifoInv == FifoAssumption /\ FifoInit => FifoInv
<1> SUFFICES ASSUME FifoAssumption, FifoInit PROVE FifoInv
    OBVIOUS
<1>1. channels \in {1, 2} /\ InitSamples \in Nat
      BY DEF FifoInit, Channels, FifoAssumption
<1>2. InitSamples * channels \in Nat
      BY <1>1
<1>3. size \in Nat
      BY <1>2, RoundUpEnough DEF FifoInit
<1>4. TypeInv
      BY <1>1, <1>3 DEF FifoInit, TypeInv
<1>5. InPlace
      BY <1>1 DEF FifoInit, InPlace, Held
<1> QED BY <1>4, <1>5 DEF FifoInv

\* a room in samples is a room in values
LEMMA CapacityFits == ASSUME TypeInv, NEW n \in Nat, ~(n > Capacity)
                      PROVE  n * channels <= size
<1>1. CASE channels = 1
      BY <1>1 DEF TypeInv, Capacity
<1>2. CASE channels = 2
      BY <1>2 DEF TypeInv, Capacity
<1> QED BY <1>1, <1>2 DEF TypeInv

LEMMA HeldIsNat == ASSUME TypeInv PROVE Held \in Nat /\ bufferPos * channels \in Nat
<1>1. CASE channels = 1
      BY <1>1 DEF TypeInv, Held
<1>2. CASE channels = 2
      BY <1>2 DEF TypeInv, Held
<1> QED BY <1>1, <1>2 DEF TypeInv

LEMMA FreshIsInt == ASSUME FifoAssumption, next \in Int, NEW i \in Int PROVE Fresh(i) \in Int
      BY DEF Fresh, FifoAssumption

\* Put: what was held is moved to the beginning and the new values follow.
LEMMA PutKeeps ==
  ASSUME FifoAssumption, FifoInv, NEW slack \in Nat, NEW n \in Nat, NEW spoilt \in BOOLEAN,
         Put(slack, n, spoilt)
  PROVE  FifoInv'
<1> DEFINE need == samplesInBuffer + slack
           old  == Held
           new  == n * channels
<1>1. /\ channels \in {1, 2} /\ samplesInBuffer \in Nat /\ old \in Nat /\ size \in Nat
      /\ next \in Int /\ bufferPos * channels \in Nat
      BY HeldIsNat DEF FifoInv, TypeInv
<1>2. new \in Nat /\ need \in Nat /\ need * channels \in Nat /\ n <= slack
      /\ old + new <= need * channels
  <2>1. n <= slack
        BY DEF Put
  <2>2. CASE channels = 1
        BY <1>1, <2>1, <2>2 DEF Held
  <2>3. CASE channels = 2
        BY <1>1, <2>1, <2>3 DEF Held
  <2> QED BY <1>1, <2>1, <2>2, <2>3
<1>3. size' \in Nat /\ old + new <= size'
  <2>1. CASE need > Capacity
    <3> DEFINE room == need * channels
    <3>1. size' = RoundUp(room) /\ room \in Nat /\ old + new <= room
          BY <1>2, <2>1 DEF Put
    <3> HIDE DEF room, old, new
    <3>2. size' \in Nat /\ size' >= room
          BY <3>1, RoundUpEnough
    <3> QED BY <1>1, <1>2, <3>1, <3>2
  <2>2. CASE ~(need > Capacity)
    <3> DEFINE room == need * channels
    <3>1. size' = size /\ room <= size /\ room \in Nat /\ old + new <= room
          BY <1>1, <1>2, <2>2, CapacityFits DEF Put, FifoInv
    <3> HIDE DEF room, old, new
    <3> QED BY <1>1, <1>2, <3>1
  <2> QED BY <2>1, <2>2
<1>4. /\ channels' = channels /\ bufferPos' = 0 /\ samplesInBuffer' = samplesInBuffer + n
      /\ Held' = old + new
  <2>1. channels' = channels /\ bufferPos' = 0 /\ samplesInBuffer' = samplesInBuffer + n
        BY DEF Put
  <2>2. CASE channels = 1
        BY <1>1, <2>1, <2>2 DEF Held
  <2>3. CASE channels = 2
        BY <1>1, <2>1, <2>3 DEF Held
  <2> QED BY <1>1, <2>1, <2>2, <2>3
<1> DEFINE added == [i \in 1 .. new |-> Fresh(i - 1)]
<1>5. content' = content \o added /\ added \in Seq(Int) /\ Len(added) = new
  <2>1. content' = content \o added
        BY DEF Put
  <2>2. \A i \in 1 .. new : Fresh(i - 1) \in Int
        BY <1>1, <1>2, FreshIsInt
  <2>3. \A i \in 1 .. new : added[i] \in Int
        BY <2>2
  <2> HIDE DEF new
  <2> QED BY <1>2, <2>1, <2>2
<1>6. TypeInv'
  <2>1. next' \in Int
        BY <1>1, <1>2, FreshIsInt DEF Put
  <2> QED BY <1>1, <1>3, <1>4, <2>1 DEF TypeInv
<1>7. ASSUME ~torn' PROVE InPlace'
  <2>1. ~torn /\ ~spoilt /\ InPlace
        BY <1>7 DEF Put, FifoInv
  <2>2. content \in Seq(Int) /\ Len(content) = old
        BY <2>1 DEF InPlace
  <2> HIDE DEF new, need, added
  <2>3. content' \in Seq(Int) /\ Len(content') = Held'
        BY <1>1, <1>2, <1>4, <1>5, <2>2
  <2>4. bufferPos' * channels' + Held' <= size'
    <3>1. bufferPos' * channels' = 0 /\ Held' = old + new
          BY <1>1, <1>4
    <3> HIDE DEF old
    <3> QED BY <1>1, <1>2, <1>3, <3>1
  <2>5. ASSUME NEW i \in 1 .. Held' PROVE content'[i] = Begin(i - 1)'
    <3>1. i - 1 \in 0 .. size' - 1 /\ i - 1 < size' /\ i \in 1 .. old + new
      <4>1. i \in 1 .. old + new
            BY <1>4
      <4>2. old \in Nat /\ new \in Nat /\ size' \in Nat /\ old + new <= size'
            BY <1>1, <1>2, <1>3
      <4>3. \A o, m, z \in Nat : o + m <= z => \A k \in 1 .. o + m : k - 1 \in 0 .. z - 1 /\ k - 1 < z
            OBVIOUS
      <4>4. i - 1 \in 0 .. size' - 1 /\ i - 1 < size'
            BY <4>1, <4>2, <4>3, Zenon
      <4> QED BY <4>1, <4>4
    <3>2. Begin(i - 1)' = buffer'[i - 1]
      <4>1. bufferPos' * channels' + (i - 1) = i - 1
            BY <1>1, <1>4
      <4>2. i - 1 < size'
            BY <3>1
      <4> DEFINE j == i - 1
      <4>3. bufferPos' * channels' + j = j /\ j < size'
            BY <4>1, <4>2
      <4> HIDE DEF j
      <4>4. Begin(j)' = buffer'[j]
            BY ONLY <4>3 DEF Begin
      <4> QED BY <4>4 DEF j
    <3>3. buffer'[i - 1] = IF i - 1 >= old /\ i - 1 < old + new THEN Fresh((i - 1) - old)
                                                               ELSE Ensured(need, i - 1, spoilt)
          BY <3>1 DEF Put, need, new
    <3>4. CASE i > old
      <4>1. content'[i] = added[i - old] /\ i - old \in 1 .. new
        <5>1. \A o, m \in Nat : \A k \in 1 .. o + m : k > o => k - o \in 1 .. m
              OBVIOUS
        <5>2. i - old \in 1 .. new
              BY <1>1, <1>2, <3>1, <3>4, <5>1, Zenon
        <5>3. (content \o added)[i] = IF i <= old THEN content[i] ELSE added[i - old]
          <6> HIDE DEF old
          <6> QED BY ONLY <1>1, <1>2, <1>5, <2>2, <3>1, ConcatProperties
        <5>4. ~(i <= old)
          <6> HIDE DEF old
          <6> QED BY <1>1, <1>2, <3>1, <3>4
        <5> QED BY <1>5, <5>2, <5>3, <5>4
      <4>2. added[i - old] = Fresh((i - old) - 1)
            BY <4>1 DEF added
      <4> QED BY <1>1, <1>2, <3>1, <3>2, <3>3, <3>4, <4>1, <4>2
    <3>5. CASE i <= old
      <4>1. content'[i] = content[i] /\ content[i] = Begin(i - 1) /\ samplesInBuffer > 0
        <5>1. i \in 1 .. old
              BY <3>1, <3>5
        <5>2. content'[i] = content[i]
              BY <1>1, <1>5, <2>2, <5>1
        <5>3. content[i] = Begin(i - 1)
              BY <2>1, <5>1 DEF InPlace
        <5>4. samplesInBuffer > 0
              BY <1>1, <5>1 DEF Held
        <5> QED BY <5>2, <5>3, <5>4
      <4>2. buffer'[i - 1] = Ensured(need, i - 1, spoilt)
            BY <1>1, <1>2, <3>1, <3>3, <3>5
      <4>3. bufferPos * channels + Held <= size
            BY <2>1, <4>1 DEF InPlace
      <4>4. Ensured(need, i - 1, spoilt) = Begin(i - 1)
        <5>1. i - 1 < Held /\ i - 1 \in Nat
              BY <1>1, <3>1, <3>5
        <5>2. bufferPos = 0 => Begin(i - 1) = buffer[i - 1]
              BY <1>1, <4>3, <5>1 DEF Begin
        <5> QED BY <2>1, <5>1, <5>2 DEF Ensured, Grown, Rewound
      <4> QED BY <3>2, <4>1, <4>2, <4>4
    <3> QED BY <1>1, <3>1, <3>4, <3>5
  <2> QED BY <2>3, <2>4, <2>5 DEF InPlace
<1> QED BY <1>6, <1>7 DEF FifoInv

\* a part of the content, from a to b
LEMMA PartOfContent ==
  ASSUME NEW s \in Seq(Int), NEW a \in Nat, NEW b \in Nat, a <= b, b <= Len(s)
  PROVE  /\ SubSeq(s, a + 1, b) \in Seq(Int)
         /\ Len(SubSeq(s, a + 1, b)) = b - a
         /\ \A i \in 1 .. b - a : SubSeq(s, a + 1, b)[i] = s[i + a]
<1>1. /\ SubSeq(s, a + 1, b) \in Seq(Int)
      /\ Len(SubSeq(s, a + 1, b)) = b - a
  BY SubSeqProperties
<1>2. ASSUME NEW i \in 1 .. b - a PROVE SubSeq(s, a + 1, b)[i] = s[i + a]
  <2>1. SubSeq(s, a + 1, b)[i] = s[(a + 1) + i - 1]
    BY SubSeqProperties
  <2>2. (a + 1) + i - 1 = i + a
    OBVIOUS
  <2> QED BY <2>1, <2>2
<1> QED BY <1>1, <1>2

\* Whatever stays is the content from some sample on, up to some other: the values that
\* lie there in the buffer.
LEMMA PartKeeps ==
  ASSUME TypeInv, InPlace, NEW a \in Nat, NEW b \in Nat, a <= b, b <= Held,
         content' = SubSeq(content, a + 1, b),
         UNCHANGED <<size, buffer>>,
         Held' = b - a,
         Held' > 0 => bufferPos' * channels' = bufferPos * channels + a,
         samplesInBuffer' > 0 => Held' > 0
  PROVE  InPlace'
<1> DEFINE from == bufferPos * channels
           then == bufferPos' * channels'
<1>1. /\ content \in Seq(Int) /\ Len(content) = Held /\ Held \in Nat /\ from \in Nat
      /\ size \in Nat
      /\ b > 0 => samplesInBuffer > 0
  <2>1. b > 0 => samplesInBuffer > 0
    <3>1. ASSUME samplesInBuffer = 0 PROVE Held = 0
      BY <3>1 DEF Held, TypeInv
    <3> QED BY <3>1, HeldIsNat DEF TypeInv
  <2> QED BY <2>1, HeldIsNat DEF TypeInv, InPlace
<1>2. /\ content' \in Seq(Int) /\ Len(content') = b - a
      /\ \A i \in 1 .. b - a : content'[i] = content[i + a]
  BY <1>1, PartOfContent
<1>3. ASSUME NEW i \in 1 .. b - a PROVE content'[i] = Begin(i - 1)'
  <2> DEFINE j == (i + a) - 1
             k == i - 1
  <2>1. i + a \in 1 .. Held /\ b > 0 /\ Held' > 0
    BY <1>1
  <2>2. content'[i] = Begin(j)
    BY <1>2, <2>1 DEF InPlace
  <2>3. then + k = from + j
    <3>1. then = from + a
      BY <2>1
    <3> HIDE DEF then, from
    <3> QED BY <1>1, <3>1
  <2> HIDE DEF j, k
  <2>4. Begin(k)' = Begin(j)
    BY <2>3 DEF Begin
  <2> QED BY <2>2, <2>4 DEF k
<1>4. ASSUME samplesInBuffer' > 0 PROVE then + Held' <= size'
  <2>1. Held' > 0 /\ b > 0
    BY <1>1, <1>4
  <2>2. from + Held <= size
    BY <1>1, <2>1 DEF InPlace
  <2>3. then = from + a /\ size' = size
    BY <2>1
  <2> HIDE DEF then, from
  <2> QED BY <1>1, <2>2, <2>3
<1> QED BY <1>2, <1>3, <1>4 DEF InPlace

LEMMA ReceiveKeeps == ASSUME FifoInv, NEW max \in Nat, Receive(max) PROVE FifoInv'
<1> DEFINE num == IF max >= samplesInBuffer THEN samplesInBuffer ELSE max
<1>1. /\ num \in Nat /\ num <= samplesInBuffer
      /\ samplesInBuffer' = samplesInBuffer - num
      /\ bufferPos' = IF num = samplesInBuffer THEN bufferPos ELSE bufferPos + num
      /\ content' = SubSeq(content, num * channels + 1, Held)
      /\ UNCHANGED <<channels, size, buffer, next, torn>>
  BY DEF Receive, FifoInv, TypeInv
<1> HIDE DEF num
<1>2. /\ num * channels \in Nat /\ num * channels <= Held /\ Held' = Held - num * channels
      /\ Held' > 0 => bufferPos' * channels' = bufferPos * channels + num * channels
      /\ samplesInBuffer' > 0 => Held' > 0
      /\ samplesInBuffer' \in Nat /\ bufferPos' \in Nat
  <2>1. CASE channels = 1
    BY <1>1, <2>1 DEF Held, FifoInv, TypeInv
  <2>2. CASE channels = 2
    BY <1>1, <2>2 DEF Held, FifoInv, TypeInv
  <2> QED BY <2>1, <2>2 DEF FifoInv, TypeInv
<1>4. TypeInv'
  BY <1>1, <1>2 DEF FifoInv, TypeInv
<1>5. ASSUME ~torn PROVE InPlace'
  <2> DEFINE a == num * channels
  <2>1. TypeInv /\ InPlace /\ Held \in Nat
    BY <1>5, HeldIsNat DEF FifoInv
  <2>2. /\ a \in Nat /\ a <= Held /\ Held' = Held - a
        /\ content' = SubSeq(content, a + 1, Held)
        /\ UNCHANGED <<size, buffer>>
        /\ Held' > 0 => bufferPos' * channels' = bufferPos * channels + a
        /\ samplesInBuffer' > 0 => Held' > 0
    BY <1>1, <1>2
  <2> HIDE DEF a
  <2>3. Held <= Held
    BY <2>1
  <2> QED BY <2>1, <2>2, <2>3, PartKeeps
<1> QED BY <1>1, <1>4, <1>5 DEF FifoInv

LEMMA ClearKeeps == ASSUME FifoInv, Clear PROVE FifoInv'
<1>1. /\ samplesInBuffer' = 0 /\ bufferPos' = 0 /\ content' = <<>>
      /\ UNCHANGED <<channels, size, next>>
  BY DEF Clear
<1>2. channels \in {1, 2} /\ size \in Nat /\ next \in Int
  BY DEF FifoInv, TypeInv
<1>3. TypeInv'
  BY <1>1, <1>2 DEF TypeInv
<1>4. Held' = 0
  BY <1>1, <1>2 DEF Held
<1>5. InPlace'
  BY <1>1, <1>4 DEF InPlace
<1> QED BY <1>3, <1>5 DEF FifoInv

LEMMA AdjustKeeps == ASSUME FifoInv, NEW num \in Nat, Adjust(num) PROVE FifoInv'
<1>1. /\ num < samplesInBuffer /\ samplesInBuffer' = num
      /\ content' = SubSeq(content, 1, num * channels)
      /\ UNCHANGED <<channels, bufferPos, size, buffer, next, torn>>
  BY DEF Adjust
<1>2. /\ num * channels \in Nat /\ num * channels <= Held /\ Held' = num * channels
      /\ samplesInBuffer' > 0 => Held' > 0
      /\ bufferPos' * channels' = bufferPos * channels + 0
      /\ bufferPos * channels \in Nat /\ Held \in Nat
  <2>1. CASE channels = 1
    BY <1>1, <2>1 DEF Held, FifoInv, TypeInv
  <2>2. CASE channels = 2
    BY <1>1, <2>2 DEF Held, FifoInv, TypeInv
  <2> QED BY <2>1, <2>2 DEF FifoInv, TypeInv
<1>3. TypeInv'
  BY <1>1 DEF FifoInv, TypeInv
<1>4. ASSUME ~torn PROVE InPlace'
  <2> DEFINE b == num * channels
  <2>1. TypeInv /\ InPlace
    BY <1>4 DEF FifoInv
  <2>2. b \in Nat /\ b <= Held /\ Held' = b /\ content' = SubSeq(content, 1, b)
    BY <1>1, <1>2
  <2> HIDE DEF b
  <2>3. /\ 0 \in Nat /\ 0 <= b /\ Held' = b - 0 /\ content' = SubSeq(content, 0 + 1, b)
        /\ UNCHANGED <<size, buffer>>
        /\ Held' > 0 => bufferPos' * channels' = bufferPos * channels + 0
        /\ samplesInBuffer' > 0 => Held' > 0
    BY <1>1, <1>2, <2>2
  <2> QED BY <2>1, <2>2, <2>3, PartKeeps
<1> QED BY <1>1, <1>3, <1>4 DEF FifoInv

\* SetChannels: the values stay where they are; a sample that does not come out whole is
\* the newest.
LEMMA SetChannelsKeeps == ASSUME FifoInv, NEW num \in {1, 2}, SetChannels(num) PROVE FifoInv'
<1> DEFINE b == (Held \div num) * num
<1>1. /\ channels' = num /\ samplesInBuffer' = Held \div num
      /\ content' = SubSeq(content, 1, b)
      /\ UNCHANGED <<bufferPos, size, buffer, next>>
      /\ torn' = (torn \/ (num # channels /\ bufferPos # 0 /\ samplesInBuffer # 0))
  BY DEF SetChannels
<1>2. /\ channels \in {1, 2} /\ samplesInBuffer \in Nat /\ Held \in Nat
      /\ bufferPos \in Nat /\ size \in Nat /\ next \in Int
  BY HeldIsNat DEF FifoInv, TypeInv
<1>3. /\ b \in Nat /\ b <= Held /\ Held' = b /\ samplesInBuffer' \in Nat
      /\ samplesInBuffer' > 0 => Held' > 0
      /\ Held' > 0 => samplesInBuffer # 0
  <2> DEFINE h == Held
  <2>1. h \in Nat /\ (h > 0 => samplesInBuffer # 0)
    BY <1>2 DEF Held
  <2>2. Held' = samplesInBuffer' * channels'
    BY DEF Held
  <2> HIDE DEF h
  <2>3. CASE num = 1
    <3>1. b = h /\ samplesInBuffer' = h /\ Held' = h
      BY <1>1, <2>1, <2>2, <2>3 DEF h
    <3> QED BY <2>1, <3>1 DEF h
  <2>4. CASE num = 2
    <3>1. b = (h \div 2) * 2 /\ samplesInBuffer' = h \div 2 /\ Held' = (h \div 2) * 2
      BY <1>1, <2>1, <2>2, <2>4 DEF h
    <3> HIDE DEF b
    <3>2. h \div 2 \in Nat /\ (h \div 2) * 2 <= h
      BY <2>1
    <3>3. b \in Nat /\ b <= h /\ Held' = b /\ samplesInBuffer' \in Nat
      BY <3>1, <3>2
    <3> QED BY <2>1, <3>1, <3>2, <3>3 DEF h
  <2> QED BY <2>3, <2>4
<1>4. TypeInv'
  BY <1>1, <1>2, <1>3 DEF TypeInv
<1>5. ASSUME ~torn' PROVE InPlace'
  <2>1. /\ TypeInv /\ InPlace
        /\ num = channels \/ bufferPos = 0 \/ samplesInBuffer = 0
    BY <1>1, <1>5 DEF FifoInv
  <2>2. Held' > 0 => bufferPos' * channels' = bufferPos * channels + 0
    <3> SUFFICES ASSUME Held' > 0 PROVE bufferPos' * num = bufferPos * channels + 0
      BY <1>1
    <3>1. num = channels \/ bufferPos = 0
      BY <1>3, <2>1
    <3>2. bufferPos * channels \in Nat
      BY <2>1, HeldIsNat
    <3>3. CASE num = channels
      BY <1>1, <3>2, <3>3
    <3>4. CASE bufferPos = 0
      BY <1>1, <1>2, <3>4
    <3> QED BY <3>1, <3>3, <3>4
  <2> HIDE DEF b
  <2>3. 0 \in Nat /\ 0 <= b /\ Held' = b - 0 /\ content' = SubSeq(content, 0 + 1, b)
    BY <1>1, <1>3
  <2> QED BY <1>1, <1>3, <2>1, <2>2, <2>3, PartKeeps
<1> QED BY <1>4, <1>5 DEF FifoInv

LEMMA NextFifoInv == ASSUME FifoAssumption, FifoInv, [FifoNext]_fifo PROVE FifoInv'
<1>1. \A m \in 0 .. MaxPut : m \in Nat
  BY DEF FifoAssumption
<1>2. CASE \E slack \in 0 .. MaxPut, n \in 0 .. MaxPut, spoilt \in BOOLEAN :
             Put(slack, n, spoilt)
  BY <1>1, <1>2, PutKeeps
<1>3. CASE \E max \in 0 .. MaxPut : Receive(max)
  BY <1>1, <1>3, ReceiveKeeps
<1>4. CASE \E max \in 0 .. MaxPut : Adjust(max)
  BY <1>1, <1>4, AdjustKeeps
<1>5. CASE \E num \in Channels : SetChannels(num)
  BY <1>5, SetChannelsKeeps DEF Channels
<1>6. CASE Clear
  BY <1>6, ClearKeeps
<1>7. CASE UNCHANGED fifo
  BY <1>7 DEF fifo, FifoInv, TypeInv, InPlace, Held, Begin
<1> QED BY <1>2, <1>3, <1>4, <1>5, <1>6, <1>7 DEF FifoNext

\* FIFOSampleBuffer gives the samples back in the order they were put, for any page and
\* any sequence of puts, receives, trims and changes of the channels, until a grown
\* buffer has lost what it held or the channels change behind the first sample.
THEOREM FifoKeepsOrder == ASSUME FifoAssumption PROVE FifoSpec => []FifoInOrder
<1>1. FifoInit => FifoInv
  BY InitFifoInv
<1>2. FifoInv /\ [FifoNext]_fifo => FifoInv'
  BY NextFifoInv
<1>3. FifoInv => FifoInOrder
  BY DEF FifoInv, InPlace, FifoInOrder
<1> QED BY <1>1, <1>2, <1>3, PTL DEF FifoSpec

--------------------------------------------------------------------------------
(* The amr decoder: how a file is laid *)

\* the data units of a frame of a mode
DataOf(mode) == IF AmrSize[mode] > 0 THEN AmrSize[mode] ELSE 0

AmrUnitSet == [value : Amr!Modes, frame : Nat, part : Nat]

\* The frame that begins at unit i has d units of data, and the next one is behind them.
FrameFrom(u, i, d) ==
  /\ \A j \in i + 1 .. i + d : j <= Len(u) => u[j].part = j - i /\ u[j].frame = u[i].frame
  /\ i + d + 1 <= Len(u) => u[i + d + 1].part = 0 /\ u[i + d + 1].frame = u[i].frame + 1

\* how the units of a file are laid
AmrLaid(u) ==
  /\ u \in Seq(AmrUnitSet)
  /\ Len(u) # 0 => u[1].part = 0 /\ u[1].frame = 1
  /\ \A i \in 1 .. Len(u) : u[i].part = 0 => FrameFrom(u, i, DataOf(u[i].value))

\* a file of k frames, none of them cut
AmrBuilt(u, k) ==
  /\ AmrLaid(u)
  /\ Len(u) = 0 => k = 0
  /\ \A i \in 1 .. Len(u) : u[i].part = 0 => LET end == i + DataOf(u[i].value)
                                             IN  end <= Len(u) /\ (end = Len(u) => u[i].frame = k)

\* The folds of both decoders are one.
LEMMA SameFlat == \A s : Amr!FlattenSeq(s) = M!FlattenSeq(s)
  BY Zenon DEF Amr!FlattenSeq, M!FlattenSeq

\* So are their least and greatest numbers.
LEMMA AmrMinMax ==
  ASSUME NEW a \in Int, NEW b \in Int
  PROVE  /\ Amr!Min({a, b}) = M!Min({a, b})
         /\ Amr!Max({a, b}) = IF a >= b THEN a ELSE b
<1>1. M!Max({a, b}) = IF a >= b THEN a ELSE b
  BY M!MinMax
<1>2. Amr!Max({a, b}) = M!Max({a, b})
  BY Zenon DEF Amr!Max, M!Max
<1>3. Amr!Min({a, b}) = M!Min({a, b})
  BY Zenon DEF Amr!Min, M!Min
<1> QED
  BY <1>1, <1>2, <1>3, Zenon

\* A frame of a mode that is not supported has no data.
LEMMA DataIs ==
  ASSUME Amr!AmrAssumption, NEW mode \in Amr!Modes
  PROVE  DataOf(mode) \in Nat /\ Amr!Max({AmrSize[mode], 0}) = DataOf(mode) /\ AmrSize[mode] \in Int
<1>1. AmrSize[mode] \in Int
  BY DEF Amr!AmrAssumption
<1>2. PICK a \in Int, z \in Int : a = AmrSize[mode] /\ z = 0
  BY <1>1
<1>3. Amr!Max({a, z}) = IF a >= z THEN a ELSE z
  BY AmrMinMax
<1>4. (IF a >= z THEN a ELSE z) = IF a > z THEN a ELSE z
  OBVIOUS
<1>5. Amr!Max({AmrSize[mode], 0}) = DataOf(mode)
  BY <1>2, <1>3, <1>4, Zenon DEF DataOf
<1>6. DataOf(mode) \in Nat
  BY <1>1 DEF DataOf
<1> QED
  BY <1>1, <1>5, <1>6

\* A frame is its mode byte and its data.
LEMMA FrameOfIs ==
  ASSUME Amr!AmrAssumption, NEW mode \in Amr!Modes, NEW garbage \in Amr!Modes, NEW f \in Nat
  PROVE  LET v == Amr!FrameOf(mode, f, garbage)
         IN  /\ v \in Seq(AmrUnitSet) /\ Len(v) = DataOf(mode) + 1
             /\ v[1].value = mode /\ v[1].frame = f /\ v[1].part = 0
             /\ \A j \in 2 .. Len(v) : v[j].frame = f /\ v[j].part = j - 1
<1> DEFINE d == DataOf(mode)
           first == [value |-> mode, frame |-> f, part |-> 0]
           data == [i \in 1 .. d |-> [value |-> garbage, frame |-> f, part |-> i]]
           v == <<first>> \o data
<1>1. d \in Nat /\ Amr!Max({AmrSize[mode], 0}) = d
  BY DataIs
<1>2. Amr!FrameOf(mode, f, garbage) = v
  BY <1>1, Zenon DEF Amr!FrameOf, Amr!Unit
<1> HIDE DEF d
<1>3. first \in AmrUnitSet
  BY DEF AmrUnitSet
<1>4. \A i \in 1 .. d : [value |-> garbage, frame |-> f, part |-> i] \in AmrUnitSet
  BY <1>1 DEF AmrUnitSet
<1>5. data \in [1 .. d -> AmrUnitSet]
  BY <1>4
<1>6. data \in Seq(AmrUnitSet) /\ Len(data) = d
  BY <1>1, <1>5
<1>7. \A i \in 1 .. d : data[i].frame = f /\ data[i].part = i
  OBVIOUS
<1>8. first.value = mode /\ first.frame = f /\ first.part = 0
  OBVIOUS
<1> HIDE DEF first, data
<1>9. <<first>> \in Seq(AmrUnitSet) /\ Len(<<first>>) = 1 /\ <<first>>[1] = first
  BY <1>3
<1>10. /\ v \in Seq(AmrUnitSet) /\ Len(v) = d + 1
       /\ \A j \in 1 .. d + 1 : v[j] = IF j <= 1 THEN <<first>>[j] ELSE data[j - 1]
  <2>1. Len(v) = 1 + d /\ v \in Seq(AmrUnitSet)
        /\ \A j \in 1 .. 1 + d : v[j] = IF j <= 1 THEN <<first>>[j] ELSE data[j - 1]
    BY <1>6, <1>9, ConcatProperties
  <2> QED
    BY <1>1, <2>1
<1> HIDE DEF v
<1>11. v[1] = first
  BY <1>1, <1>9, <1>10
<1>12. ASSUME NEW j \in 2 .. d + 1 PROVE v[j].frame = f /\ v[j].part = j - 1
  <2>1. v[j] = data[j - 1] /\ j - 1 \in 1 .. d
    BY <1>1, <1>10
  <2>2. PICK i \in 1 .. d : i = j - 1
    BY <2>1
  <2> QED
    BY <1>7, <2>1, <2>2
<1> QED
  BY <1>2, <1>8, <1>10, <1>11, <1>12, Zenon DEF d

\* Where the parts of a frame lie that is put behind l units.
LEMMA IndexOfPart ==
  ASSUME NEW l \in Nat, NEW d \in Nat, NEW i, i = l + 1, NEW j \in i + 1 .. i + d
  PROVE  j \in l + 2 .. l + d + 1 /\ j - l - 1 = j - i
<1>1. j \in l + 2 .. l + 1 + d
  OBVIOUS
<1> QED
  BY <1>1

\* A file that is built stays so when the next frame is put behind it.
LEMMA AmrGrows ==
  ASSUME Amr!AmrAssumption, NEW k \in Nat, NEW u, AmrBuilt(u, k),
         NEW mode \in Amr!Modes, NEW v \in Seq(AmrUnitSet), Len(v) = DataOf(mode) + 1,
         v[1].value = mode, v[1].frame = k + 1, v[1].part = 0,
         \A j \in 2 .. Len(v) : v[j].frame = k + 1 /\ v[j].part = j - 1
  PROVE  AmrBuilt(u \o v, k + 1)
<1> DEFINE w == u \o v
<1>1. PICK l \in Nat, d \in Nat : l = Len(u) /\ d = DataOf(mode) /\ Len(v) = d + 1 /\ u \in Seq(AmrUnitSet)
  BY DataIs, LenProperties DEF AmrBuilt, AmrLaid
<1>2. w \in Seq(AmrUnitSet) /\ Len(w) = l + d + 1
      /\ \A i \in 1 .. l + d + 1 : w[i] = IF i <= l THEN u[i] ELSE v[i - l]
  <2>1. w \in Seq(AmrUnitSet) /\ Len(w) = Len(u) + Len(v)
        /\ \A i \in 1 .. Len(u) + Len(v) : w[i] = IF i <= Len(u) THEN u[i] ELSE v[i - Len(u)]
    BY <1>1, ConcatProperties
  <2>2. Len(u) + Len(v) = l + d + 1
    BY <1>1
  <2> QED
    BY <1>1, <2>1, <2>2, Zenon
<1>2a. Len(w) = l + d + 1
  BY <1>2
<1>2b. \A i \in 1 .. l + d + 1 : w[i] = IF i <= l THEN u[i] ELSE v[i - l]
  BY <1>2
<1> HIDE DEF w
<1>3. \A i \in 1 .. l : w[i] = u[i]
  BY <1>2b
<1>4. w[l + 1].value = mode /\ w[l + 1].frame = k + 1 /\ w[l + 1].part = 0
  <2>1. w[l + 1] = v[1]
    <3>1. l + 1 \in 1 .. l + d + 1 /\ ~(l + 1 <= l) /\ l + 1 - l = 1
      OBVIOUS
    <3>2. w[l + 1] = v[l + 1 - l]
      BY <1>2b, <3>1
    <3> QED
      BY <3>1, <3>2, Zenon
  <2> QED
    BY <2>1
<1>5. ASSUME NEW i \in l + 2 .. l + d + 1 PROVE w[i].frame = k + 1 /\ w[i].part = i - l - 1 /\ w[i].part # 0
  <2>0. i - l \in 2 .. d + 1 /\ i \in 1 .. l + d + 1 /\ ~(i <= l)
    OBVIOUS
  <2>1. PICK q \in 2 .. d + 1 : q = i - l
    BY <2>0, Zenon
  <2>2. w[i] = v[q]
    BY <1>2, <2>0, <2>1
  <2>3. v[q].frame = k + 1 /\ v[q].part = q - 1
    BY <1>1
  <2> QED
    BY <2>1, <2>2, <2>3
<1>6. ASSUME NEW i \in 1 .. Len(w), w[i].part = 0
      PROVE  \E e \in Nat : /\ e = DataOf(w[i].value) /\ FrameFrom(w, i, e)
                            /\ i + e <= Len(w) /\ (i + e = Len(w) => w[i].frame = k + 1)
  <2>1. CASE i <= l
    <3>1. i \in 1 .. l /\ w[i] = u[i]
      <4>1. i \in 1 .. l + d + 1
        BY <1>2a
      <4>2. i \in 1 .. l
        BY <2>1, <4>1
      <4> QED
        BY <1>3, <4>2, Zenon
    <3>2. u[i] \in AmrUnitSet
      BY <1>1, <3>1, ElementOfSeq
    <3>3. PICK e \in Nat : e = DataOf(u[i].value)
      BY <3>2, DataIs DEF AmrUnitSet
    <3>4. FrameFrom(u, i, e) /\ i + e <= l /\ (i + e = l => u[i].frame = k)
      BY <1>1, <1>6, <3>1, <3>3 DEF AmrBuilt, AmrLaid
    <3>5. ASSUME NEW j \in i + 1 .. i + e PROVE w[j].part = j - i /\ w[j].frame = w[i].frame
      <4>1. j \in 1 .. l
        <5>1. i + e <= l /\ i >= 1
          BY <3>1, <3>4
        <5> QED
          BY <5>1
      <4>2. u[j].part = j - i /\ u[j].frame = u[i].frame
        <5>1. j <= Len(u)
          BY <1>1, <4>1
        <5> QED
          BY <3>4, <3>5, <5>1, Zenon DEF FrameFrom
      <4> QED
        BY <1>3, <3>1, <4>1, <4>2
    <3>6. w[i + e + 1].part = 0 /\ w[i + e + 1].frame = w[i].frame + 1
      <4>1. CASE i + e = l
        <5>1. i + e + 1 = l + 1
          BY <4>1
        <5> QED
          BY <1>4, <3>1, <3>4, <4>1, <5>1
      <4>2. CASE i + e # l
        <5>1. PICK j \in 1 .. l : j = i + e + 1
          BY <1>1, <3>1, <3>4, <4>2
        <5>2. u[j].part = 0 /\ u[j].frame = u[i].frame + 1
          BY <1>1, <3>4, <5>1 DEF FrameFrom
        <5> QED
          BY <1>3, <3>1, <5>1, <5>2
      <4> QED
        BY <4>1, <4>2
    <3>7. i + e <= Len(w) /\ i + e # Len(w)
      <4>1. i + e <= l /\ i \in Nat
        BY <3>1, <3>4
      <4>2. i + e <= l + d + 1 /\ i + e # l + d + 1
        BY <4>1
      <4> QED
        BY <1>2a, <4>2
    <3> QED
      BY <3>1, <3>3, <3>5, <3>6, <3>7 DEF FrameFrom
  <2>2. CASE i = l + 1
    <3>1. w[i].value = mode /\ w[i].frame = k + 1
      BY <1>4, <2>2
    <3>2. ASSUME NEW j \in i + 1 .. i + d PROVE w[j].part = j - i /\ w[j].frame = w[i].frame
      <4>1. j \in l + 2 .. l + d + 1 /\ j - l - 1 = j - i
        BY <2>2, IndexOfPart, Zenon
      <4> QED
        BY <1>5, <3>1, <4>1
    <3>3. i + d = Len(w)
      <4>1. i + d = l + d + 1
        BY <2>2
      <4> QED
        BY <1>2a, <4>1
    <3>4. ~(i + d + 1 <= Len(w))
      <4>1. ~(i + d + 1 <= l + d + 1)
        BY <2>2
      <4> QED
        BY <1>2a, <4>1
    <3>5. FrameFrom(w, i, d)
      BY <3>2, <3>4 DEF FrameFrom
    <3>6. d = DataOf(w[i].value) /\ i + d <= Len(w)
      <4>1. Len(w) <= Len(w)
        BY <1>2a
      <4> QED
        BY <1>1, <3>1, <3>3, <4>1, Zenon
    <3> QED
      BY <3>1, <3>5, <3>6
  <2>3. CASE i > l + 1
    <3>1. i \in l + 2 .. l + d + 1
      BY <1>1, <1>2, <2>3
    <3> QED
      BY <1>5, <1>6, <3>1
  <2>4. i \in Int
    BY <1>2
  <2>5. i <= l \/ i = l + 1 \/ i > l + 1
    BY <2>4
  <2> QED
    BY <2>1, <2>2, <2>3, <2>5, Zenon
<1>7. w[1].part = 0 /\ w[1].frame = 1
  <2>1. CASE l = 0
    <3>1. k = 0
      BY <1>1, <2>1 DEF AmrBuilt
    <3> QED
      BY <1>4, <2>1, <3>1
  <2>2. CASE l # 0
    <3>1. w[1] = u[1]
      BY <1>1, <1>3, <2>2
    <3> QED
      BY <1>1, <2>2, <3>1 DEF AmrBuilt, AmrLaid
  <2> QED
    BY <2>1, <2>2
<1>8. AmrLaid(w)
  BY <1>2, <1>6, <1>7 DEF AmrLaid
<1>9. Len(w) # 0
  BY <1>1, <1>2
<1> QED
  BY <1>6, <1>8, <1>9 DEF AmrBuilt, w

\* What is cut off the end leaves the rest as it is.
LEMMA AmrPrefix ==
  ASSUME Amr!AmrAssumption, NEW all, AmrLaid(all), NEW l \in Nat, l <= Len(all)
  PROVE  AmrLaid(SubSeq(all, 1, l))
<1> DEFINE u == SubSeq(all, 1, l)
<1>1. all \in Seq(AmrUnitSet) /\ Len(all) \in Nat
  BY LenProperties DEF AmrLaid
<1>2. \A i \in 1 .. l : all[i] \in AmrUnitSet
  BY <1>1, ElementOfSeq
<1>3. u \in Seq(AmrUnitSet) /\ Len(u) = l /\ \A i \in 1 .. l : u[i] = all[i]
  BY <1>2, SubSeqProperties
<1> HIDE DEF u
<1>4. ASSUME NEW i \in 1 .. l, u[i].part = 0 PROVE FrameFrom(u, i, DataOf(u[i].value))
  <2>1. i \in 1 .. Len(all) /\ u[i] = all[i] /\ all[i].value \in Amr!Modes
    <3>1. all[i] \in AmrUnitSet /\ u[i] = all[i]
      BY <1>2, <1>3
    <3>2. i \in 1 .. Len(all)
      BY <1>1
    <3> QED
      BY <3>1, <3>2 DEF AmrUnitSet
  <2>2. PICK d \in Nat : d = DataOf(all[i].value)
    BY <2>1, DataIs
  <2>3. FrameFrom(all, i, d)
    BY <1>4, <2>1, <2>2 DEF AmrLaid
  <2>4. ASSUME NEW j \in i + 1 .. i + d, j <= l PROVE u[j].part = j - i /\ u[j].frame = u[i].frame
    <3>1. j \in 1 .. l /\ j <= Len(all)
      BY <1>1, <2>4
    <3> QED
      BY <1>3, <2>1, <2>3, <3>1 DEF FrameFrom
  <2>5. ASSUME i + d + 1 <= l PROVE u[i + d + 1].part = 0 /\ u[i + d + 1].frame = u[i].frame + 1
    <3>1. PICK j \in 1 .. l : j = i + d + 1
      BY <2>5
    <3>2. j <= Len(all)
      BY <1>1
    <3>3. all[j].part = 0 /\ all[j].frame = all[i].frame + 1
      BY <2>3, <3>1, <3>2 DEF FrameFrom
    <3>4. u[j] = all[j]
      BY <1>3
    <3> QED
      BY <2>1, <3>1, <3>3, <3>4
  <2> QED
    BY <1>3, <2>1, <2>2, <2>4, <2>5 DEF FrameFrom
<1>5. Len(u) # 0 => u[1].part = 0 /\ u[1].frame = 1
  <2> SUFFICES ASSUME l # 0 PROVE u[1].part = 0 /\ u[1].frame = 1
    BY <1>3
  <2>1. u[1] = all[1] /\ Len(all) # 0
    BY <1>1, <1>3
  <2> QED
    BY <2>1 DEF AmrLaid
<1>6. \A i \in 1 .. Len(u) : u[i].part = 0 => FrameFrom(u, i, DataOf(u[i].value))
  BY <1>3, <1>4
<1> QED
  BY <1>3, <1>5, <1>6 DEF AmrLaid, u

\* Any file the decoder is given is laid, by induction over its frames.
LEMMA AmrUnitsLaid ==
  ASSUME Amr!AmrAssumption, NEW n \in Nat, NEW modes \in [1 .. n -> Amr!Modes],
         NEW garbage \in Amr!Modes, NEW cut \in 0 .. 1
  PROVE  AmrLaid(Amr!Units(modes, garbage, cut))
<1> DEFINE frames == [i \in DOMAIN modes |-> Amr!FrameOf(modes[i], i, garbage)]
           all == Amr!FlattenSeq(frames)
<1>1. \A i \in 1 .. n : Amr!FrameOf(modes[i], i, garbage) \in Seq(AmrUnitSet)
  BY FrameOfIs
<1>2. frames \in [1 .. n -> Seq(AmrUnitSet)]
  BY <1>1
<1>3. frames \in Seq(Seq(AmrUnitSet)) /\ Len(frames) = n
  BY <1>2
<1>4. \A i \in 1 .. n : frames[i] = Amr!FrameOf(modes[i], i, garbage)
  OBVIOUS
<1>5. Amr!Units(modes, garbage, cut) = SubSeq(all, 1, Len(all) - cut)
  BY DEF Amr!Units
<1>6. <<>> \in Seq(AmrUnitSet)
  BY EmptySeq
<1> HIDE DEF frames
<1>7. PICK p :
         /\ p[0] = <<>>
         /\ p[n] = <<>> \o all
         /\ \A k \in 0 .. n - 1 : p[k + 1] = p[k] \o frames[k + 1]
  <2>1. PICK p : M!Builds(AmrUnitSet, p, <<>>, frames)
    BY <1>3, <1>6, M!FlattenBuilds, Zenon
  <2>2. M!FlattenSeq(frames) = all
    BY SameFlat
  <2> QED
    BY <1>3, <2>1, <2>2, Zenon DEF M!Builds
<1> HIDE DEF all
<1> DEFINE T == {k \in Nat : k <= n => AmrBuilt(p[k], k)}
<1>8. 0 \in T
  <2>1. AmrBuilt(<<>>, 0)
    BY <1>6 DEF AmrBuilt, AmrLaid
  <2> QED
    BY <1>7, <2>1
<1>9. ASSUME NEW k \in Nat, k \in T PROVE k + 1 \in T
  <2> SUFFICES ASSUME k + 1 <= n PROVE AmrBuilt(p[k + 1], k + 1)
    OBVIOUS
  <2>1. k \in 0 .. n - 1 /\ k + 1 \in 1 .. n /\ k <= n /\ k + 1 \in Nat
    OBVIOUS
  <2>2. AmrBuilt(p[k], k)
    BY <1>9, <2>1
  <2> HIDE DEF T
  <2>3. p[k + 1] = p[k] \o Amr!FrameOf(modes[k + 1], k + 1, garbage)
    BY <1>4, <1>7, <2>1
  <2>4. PICK mode \in Amr!Modes : mode = modes[k + 1]
    BY <2>1
  <2>5. PICK f \in Nat : f = k + 1
    BY <2>1
  <2>6. PICK v \in Seq(AmrUnitSet) :
           /\ v = Amr!FrameOf(mode, f, garbage) /\ Len(v) = DataOf(mode) + 1
           /\ v[1].value = mode /\ v[1].frame = f /\ v[1].part = 0
           /\ \A j \in 2 .. Len(v) : v[j].frame = f /\ v[j].part = j - 1
    BY FrameOfIs
  <2>7. PICK u : u = p[k]
    OBVIOUS
  <2>8. v[1].frame = k + 1 /\ \A j \in 2 .. Len(v) : v[j].frame = k + 1 /\ v[j].part = j - 1
    BY <2>5, <2>6
  <2>9. AmrBuilt(u \o v, k + 1)
    BY <2>2, <2>6, <2>7, <2>8, AmrGrows
  <2> QED
    BY <2>3, <2>4, <2>5, <2>6, <2>7, <2>9, Zenon
<1>10. T = Nat
  <2> HIDE DEF T
  <2> QED
    BY <1>8, <1>9, M!Induction DEF T
<1>11. AmrBuilt(p[n], n)
  <2>1. n \in T
    BY <1>10
  <2> QED
    BY <2>1
<1> HIDE DEF T
<1>12. all \in Seq(AmrUnitSet) /\ all = p[n]
  <2>1. frames \in Seq(Seq(AmrUnitSet))
    BY <1>3
  <2>2. p[n] \in Seq(AmrUnitSet)
    BY <1>11 DEF AmrBuilt, AmrLaid
  <2>3. <<>> \o all = all
    BY <1>7, <2>2, ConcatEmptySeq
  <2> QED
    BY <1>7, <2>2, <2>3
<1>13. AmrLaid(all) /\ Len(all) \in Nat
  BY <1>11, <1>12, LenProperties DEF AmrBuilt
<1>14. CASE Len(all) - cut \in Nat
  <2>1. PICK l \in Nat : l = Len(all) - cut
    BY <1>14
  <2>2. l <= Len(all)
    BY <1>13, <2>1
  <2>3. AmrLaid(SubSeq(all, 1, l))
    BY <1>13, <2>2, AmrPrefix
  <2> QED
    BY <1>5, <2>1, <2>3
<1>15. CASE Len(all) - cut \notin Nat
  <2>1. Len(all) - cut \in Int /\ Len(all) - cut < 1
    BY <1>13, <1>15
  <2>2. SubSeq(all, 1, Len(all) - cut) = <<>>
    BY <2>1, SubSeqEmpty
  <2>3. AmrLaid(<<>>)
    BY <1>6 DEF AmrLaid
  <2> QED
    BY <1>5, <2>2, <2>3
<1> QED
  BY <1>14, <1>15

FrameData(u) == AmrSize[u[1].value]
OneModeOf(u) == \A i \in 1 .. Len(u) : u[i].part = 0 => /\ u[i].value = u[1].value
                                                      /\ AmrSize[u[i].value] > 0
\* the frames that end among the first p units
Complete(u, p) == {u[j].frame : j \in {k \in 1 .. p : u[k].part = FrameData(u)}}

\* n frames are behind the first p units, and the next one begins there.
Boundary(u, p, n) ==
  /\ p \in 0 .. Len(u) /\ Complete(u, p) = 1 .. n
  /\ p < Len(u) => u[p + 1].part = 0 /\ u[p + 1].frame = n + 1
  /\ p = 0 \/ u[p].part = FrameData(u)

\* At a boundary in a file of one mode, the next frame has the size of the first.
LEMMA AtFrame ==
  ASSUME Amr!AmrAssumption, NEW u, AmrLaid(u), OneModeOf(u), NEW p \in Nat, NEW n \in Nat,
         Boundary(u, p, n), p < Len(u)
  PROVE  /\ FrameData(u) \in Nat /\ FrameData(u) > 0 /\ DataOf(u[p + 1].value) = FrameData(u)
         /\ u[p + 1].value = u[1].value
         /\ u[p + 1] \in AmrUnitSet /\ u[1] \in AmrUnitSet
<1>1. u \in Seq(AmrUnitSet) /\ Len(u) \in Nat
  BY LenProperties DEF AmrLaid
<1>2. PICK i \in 1 .. Len(u) : i = p + 1
  BY <1>1
<1>3. 1 \in 1 .. Len(u)
  BY <1>1
<1>4. u[i] \in AmrUnitSet /\ u[1] \in AmrUnitSet
  BY <1>1, <1>3, ElementOfSeq
<1>5. u[i].part = 0 /\ u[i].value = u[1].value /\ AmrSize[u[i].value] > 0
  BY <1>2 DEF Boundary, OneModeOf
<1>6. u[i].value \in Amr!Modes
  BY <1>4 DEF AmrUnitSet
<1>7. PICK s \in Int : s = AmrSize[u[i].value]
  BY <1>6, DataIs
<1>8. s > 0 /\ s \in Nat
  BY <1>5, <1>7
<1>9. DataOf(u[i].value) = s
  BY <1>7, <1>8 DEF DataOf
<1> QED
  BY <1>2, <1>4, <1>5, <1>7, <1>8, <1>9 DEF FrameData

\* Behind a frame that is there in full is the next boundary.
LEMMA WholeFrame ==
  ASSUME Amr!AmrAssumption, NEW u, AmrLaid(u), OneModeOf(u), NEW p \in Nat, NEW n \in Nat,
         Boundary(u, p, n), p < Len(u),
         NEW q \in Nat, q = p + 1 + FrameData(u), q <= Len(u)
  PROVE  /\ Boundary(u, q, n + 1)
         /\ \A j \in p + 2 .. q : u[j].frame = n + 1
         /\ n + 1 \in Complete(u, Len(u))
<1>1. PICK s \in Nat, l \in Nat : s = FrameData(u) /\ l = Len(u) /\ s > 0
  BY AtFrame, LenProperties DEF AmrLaid
<1>2. q = p + 1 + s /\ q <= l /\ p < l
  BY <1>1
<1>3. PICK i \in 1 .. l : i = p + 1
  BY <1>2
<1>4. u[i].part = 0 /\ u[i].frame = n + 1
  BY <1>1, <1>2, <1>3 DEF Boundary
<1>5. DataOf(u[i].value) = s
  BY <1>1, <1>3, AtFrame
<1>6. FrameFrom(u, i, s)
  BY <1>1, <1>4, <1>5 DEF AmrLaid
<1>7. \A j \in i + 1 .. i + s : j <= l => u[j].part = j - i /\ u[j].frame = n + 1
  BY <1>1, <1>4, <1>6 DEF FrameFrom
<1>8. ASSUME NEW j \in p + 2 .. q PROVE u[j].part = j - p - 1 /\ u[j].frame = n + 1
  <2>1. j \in i + 1 .. i + s /\ j <= l /\ j - i = j - p - 1
    BY <1>2, <1>3
  <2> QED
    BY <1>7, <2>1
<1>9. u[q].part = s /\ u[q].frame = n + 1
  <2>1. s > 0
    BY <1>1
  <2>2. q \in p + 2 .. q /\ q - p - 1 = s
    BY <1>2, <2>1
  <2> QED
    BY <1>8, <2>2
<1>10. ASSUME NEW k \in 1 .. q PROVE u[k].part = s <=> k = q \/ (k \in 1 .. p /\ u[k].part = s)
  <2>1. CASE k <= p
    BY <1>2, <2>1
  <2>2. CASE k = p + 1
    BY <1>1, <1>2, <1>3, <1>4, <2>2
  <2>3. CASE k > p + 1
    <3>1. k \in p + 2 .. q /\ ~(k \in 1 .. p)
      BY <2>3
    <3>2. u[k].part = k - p - 1
      BY <1>8, <3>1
    <3>3. k - p - 1 = s <=> k = q
      BY <1>2
    <3> QED
      BY <3>1, <3>2, <3>3
  <2>4. k <= p \/ k = p + 1 \/ k > p + 1
    OBVIOUS
  <2> QED
    BY <2>1, <2>2, <2>3, <2>4, Zenon
<1>11. Complete(u, q) = Complete(u, p) \cup {n + 1}
  <2>1. {k \in 1 .. q : u[k].part = s} = {k \in 1 .. p : u[k].part = s} \cup {q}
    <3>1. q \in 1 .. q /\ 1 .. p \subseteq 1 .. q
      BY <1>2
    <3> QED
      BY <1>9, <1>10, <3>1
  <2>2. PICK b, a : b = {k \in 1 .. q : u[k].part = s} /\ a = {k \in 1 .. p : u[k].part = s}
    OBVIOUS
  <2>3. b = a \cup {q}
    BY <2>1, <2>2
  <2>4. {u[k].frame : k \in b} = {u[k].frame : k \in a} \cup {n + 1}
    BY <1>9, <2>3
  <2> QED
    BY <1>1, <2>2, <2>4, Zenon DEF Complete
<1>12. Complete(u, q) = 1 .. n + 1
  <2>1. Complete(u, p) = 1 .. n
    BY DEF Boundary
  <2>2. 1 .. n + 1 = (1 .. n) \cup {n + 1}
    OBVIOUS
  <2> QED
    BY <1>11, <2>1, <2>2
<1>13. ASSUME q < l PROVE u[q + 1].part = 0 /\ u[q + 1].frame = n + 1 + 1
  <2>1. i + s + 1 = q + 1 /\ i + s + 1 <= l
    BY <1>2, <1>3, <1>13
  <2>2. u[i + s + 1].part = 0 /\ u[i + s + 1].frame = u[i].frame + 1
    BY <1>1, <1>6, <2>1 DEF FrameFrom
  <2> QED
    BY <1>4, <2>1, <2>2
<1>14. Boundary(u, q, n + 1)
  <2>1. q \in 0 .. l
    BY <1>2
  <2> QED
    BY <1>1, <1>9, <1>12, <1>13, <2>1 DEF Boundary
<1>15. n + 1 \in Complete(u, l)
  <2>1. q \in 1 .. l
    BY <1>2
  <2> QED
    BY <1>1, <1>9, <2>1 DEF Complete
<1> QED
  BY <1>1, <1>8, <1>14, <1>15

\* A frame that is cut off is the last one, and none of those there in full.
LEMMA CutFrame ==
  ASSUME Amr!AmrAssumption, NEW u, AmrLaid(u), OneModeOf(u), NEW p \in Nat, NEW n \in Nat,
         Boundary(u, p, n), p < Len(u), p + 1 + FrameData(u) > Len(u)
  PROVE  Complete(u, Len(u)) = 1 .. n /\ u[Len(u)].part # FrameData(u)
<1>1. PICK s \in Nat, l \in Nat : s = FrameData(u) /\ l = Len(u) /\ s > 0
  BY AtFrame, LenProperties DEF AmrLaid
<1>2. p + 1 + s > l /\ p < l
  BY <1>1
<1>3. PICK i \in 1 .. l : i = p + 1
  BY <1>2
<1>4. u[i].part = 0
  BY <1>1, <1>2, <1>3 DEF Boundary
<1>5. DataOf(u[i].value) = s
  BY <1>1, <1>3, AtFrame
<1>6. FrameFrom(u, i, s)
  BY <1>1, <1>4, <1>5 DEF AmrLaid
<1>7. ASSUME NEW k \in 1 .. l, k > p PROVE u[k].part # s
  <2>1. CASE k = i
    BY <1>1, <1>4, <2>1
  <2>2. CASE k # i
    <3>1. k \in i + 1 .. i + s /\ k <= l /\ k - i # s
      BY <1>2, <1>3, <1>7, <2>2
    <3>2. u[k].part = k - i
      BY <1>1, <1>6, <3>1 DEF FrameFrom
    <3> QED
      BY <3>1, <3>2
  <2> QED
    BY <2>1, <2>2
<1>8. {k \in 1 .. l : u[k].part = s} = {k \in 1 .. p : u[k].part = s}
  <2>1. \A k : k \in 1 .. p <=> k \in 1 .. l /\ ~(k > p)
    BY <1>2
  <2> QED
    BY <1>7, <2>1
<1>9. Complete(u, l) = Complete(u, p)
  BY <1>1, <1>8, Zenon DEF Complete
<1>10. l \in 1 .. l /\ l > p
  BY <1>2
<1> QED
  BY <1>1, <1>7, <1>9, <1>10 DEF Boundary

AmrStates == [pc : {"mode", "size", "frame", "output", "done"}, buffer_in : Amr!Modes,
              mode : Amr!Modes, frame : Nat, frame_size : Nat, old_mode : Amr!Modes \cup {-1}]

AmrResults == {"none", "SUCCESS", "DECODE_ERROR", "OUTPUT_ERROR"}

AmrTypeInv ==
  /\ AmrLaid(file) /\ at \in Nat /\ stopped \in BOOLEAN
  /\ dec \in AmrStates /\ out \in Seq(Nat) /\ result \in AmrResults
  /\ dec.pc = "done" <=> result # "none"
  /\ dec.pc \in {"frame", "output"} => dec.frame_size > 0

\* the frames that are there in full
Whole == Complete(file, Len(file))

\* Reading is at the mode byte of the frame that is put out next.
AtMode == \E p \in Nat : /\ at = p + 1 /\ p < Len(file) /\ Boundary(file, p, Len(out))
                         /\ dec.mode = file[1].value /\ dec.frame = Len(out) + 1

\* All frames were put out, and what is returned says whether one was cut off.
Ended == /\ Whole = 1 .. Len(out)
         /\ result = IF Len(file) = 0 \/ file[Len(file)].part = FrameData(file)
                       THEN "SUCCESS" ELSE "DECODE_ERROR"

\* where process is in a file of one mode while nobody stopped it
AmrPlace ==
  /\ dec.frame_size # 0 => dec.frame_size = FrameData(file)
  /\ dec.old_mode = -1 \/ dec.old_mode = file[1].value
  /\ dec.pc = "mode" => Boundary(file, at, Len(out))
  /\ dec.pc \in {"size", "frame"} => AtMode
  /\ dec.pc = "output" => Boundary(file, at, Len(out) + 1)
  /\ dec.pc = "done" => Ended

AmrReading ==
  /\ \A i \in 1 .. Len(out) : out[i] = i /\ i \in Whole
  /\ dec.pc = "output" => dec.frame = Len(out) + 1 /\ Len(out) + 1 \in Whole
  /\ ~stopped => AmrPlace

AmrInv == AmrTypeInv /\ (OneModeOf(file) => AmrReading)

\* The invariant holds at the start.
LEMMA AmrInit == ASSUME Amr!AmrAssumption PROVE Amr!Init => AmrInv
<1> SUFFICES ASSUME Amr!Init PROVE AmrInv
  OBVIOUS
<1>1. PICK n \in 0 .. MaxFrames :
         \E modes \in [1 .. n -> Amr!Modes], garbage \in Amr!Modes, cut \in 0 .. 1 :
           Amr!Start(Amr!Units(modes, garbage, cut))
  BY Zenon DEF Amr!Init
<1> PICK modes \in [1 .. n -> Amr!Modes], garbage \in Amr!Modes, cut \in 0 .. 1 :
       Amr!Start(Amr!Units(modes, garbage, cut))
  BY <1>1
<1>2. AmrLaid(file)
  <2>1. n \in Nat
    BY DEF Amr!AmrAssumption
  <2> QED
    BY <2>1, AmrUnitsLaid DEF Amr!Start
<1>3. /\ at = 0 /\ stopped = FALSE /\ out = <<>> /\ result = "none"
      /\ dec = [pc |-> "mode", buffer_in |-> 0, mode |-> 0, frame |-> 0,
                frame_size |-> 0, old_mode |-> -1]
  BY DEF Amr!Start
<1>4. dec \in AmrStates /\ dec.pc = "mode" /\ dec.frame_size = 0 /\ dec.old_mode = -1
  BY <1>3 DEF AmrStates, Amr!AmrAssumption
<1>5. AmrTypeInv
  <2>1. at \in Nat /\ stopped \in BOOLEAN /\ out \in Seq(Nat) /\ result = "none"
    BY <1>3, EmptySeq
  <2> QED
    BY <1>2, <1>4, <2>1 DEF AmrTypeInv, AmrResults
<1>6. Len(out) = 0 /\ Len(file) \in Nat
  BY <1>2, <1>3, LenProperties DEF AmrLaid
<1>7. Boundary(file, at, Len(out))
  <2>1. Complete(file, 0) = 1 .. 0
    BY DEF Complete
  <2>2. 0 < Len(file) => file[0 + 1].part = 0 /\ file[0 + 1].frame = 0 + 1
    BY <1>2, <1>6 DEF AmrLaid
  <2> QED
    BY <1>3, <1>6, <2>1, <2>2 DEF Boundary
<1>8. AmrReading
  BY <1>4, <1>6, <1>7 DEF AmrReading, AmrPlace
<1> QED
  BY <1>5, <1>8 DEF AmrInv

\* what a read returns
LEMMA AmrInput ==
  ASSUME AmrTypeInv, NEW n \in Nat
  PROVE  Amr!Input(n) \in Seq(AmrUnitSet) /\ M!GotFrom(file, at, n, Amr!Input(n))
<1>1. file \in Seq(AmrUnitSet) /\ at \in Nat /\ Len(file) \in Nat /\ at + n \in Int /\ n \in Int
  BY LenProperties DEF AmrTypeInv, AmrLaid
<1>2. Amr!Min({at + n, Len(file)}) = M!Min({at + n, Len(file)})
  <2>1. PICK a \in Int, b \in Int : a = at + n /\ b = Len(file)
    BY <1>1
  <2>2. Amr!Min({a, b}) = M!Min({a, b})
    BY AmrMinMax
  <2> QED
    BY <2>1, <2>2, Zenon
<1>3. Amr!Input(n) = M!Got(file, at, n)
  BY <1>2, Zenon DEF Amr!Input, M!Got
<1>4. M!Got(file, at, n) \in Seq(AmrUnitSet) /\ M!GotFrom(file, at, n, M!Got(file, at, n))
  BY <1>1, M!GotOf
<1> QED
  BY <1>3, <1>4, Zenon

\* what ends it
LEMMA AmrReturns ==
  ASSUME AmrTypeInv, NEW value \in AmrResults \ {"none"}, Amr!Return(value),
         UNCHANGED <<file, at, stopped, out>>
  PROVE  AmrTypeInv' /\ dec'.pc = "done" /\ result' = value
                     /\ dec'.frame_size = dec.frame_size /\ dec'.old_mode = dec.old_mode
<1>1. dec' = [dec EXCEPT !.pc = "done"] /\ result' = value
  BY DEF Amr!Return
<1>2. /\ dec' \in AmrStates /\ dec'.pc = "done"
      /\ dec'.frame_size = dec.frame_size /\ dec'.old_mode = dec.old_mode
  BY <1>1 DEF AmrTypeInv, AmrStates
<1> QED
  BY <1>1, <1>2 DEF AmrTypeInv

\* The mode byte that is read is the one of the next frame, or the file has ended.
LEMMA AmrReadMode ==
  ASSUME Amr!AmrAssumption, AmrInv, Amr!ReadMode
  PROVE  AmrInv'
<1> USE DEF AmrInv
<1>1. /\ dec \in AmrStates /\ dec.pc = "mode" /\ file \in Seq(AmrUnitSet) /\ at \in Nat /\ Len(file) \in Nat
      /\ out \in Seq(Nat) /\ Len(out) \in Nat
  BY LenProperties DEF Amr!ReadMode, AmrTypeInv, AmrLaid
<1>2. UNCHANGED <<file, stopped, out>>
  BY DEF Amr!ReadMode
<1>3. Whole' = Whole /\ (OneModeOf(file))' = OneModeOf(file)
  BY <1>2 DEF Whole, Complete, OneModeOf, FrameData
<1>4. CASE Amr!Refused(1)
  <2>1. dec' = [dec EXCEPT !.pc = "size", !.mode = dec.buffer_in] /\ UNCHANGED <<at, result>>
    BY <1>4 DEF Amr!ReadMode
  <2>2. dec' \in AmrStates /\ dec'.pc = "size"
    BY <1>1, <2>1 DEF AmrStates
  <2>3. AmrTypeInv'
    BY <1>1, <1>2, <2>1, <2>2 DEF AmrTypeInv
  <2>4. stopped'
    BY <1>2, <1>4 DEF Amr!Refused
  <2>5. AmrReading => AmrReading'
    BY <1>2, <1>3, <2>2, <2>4 DEF AmrReading
  <2> QED
    BY <1>3, <2>3, <2>5
<1>5. CASE ~Amr!Refused(1) /\ Amr!Input(1) = <<>>
  <2>1. Amr!Return("SUCCESS") /\ UNCHANGED at
    BY <1>5 DEF Amr!ReadMode
  <2>2. AmrTypeInv' /\ dec'.pc = "done" /\ result' = "SUCCESS"
        /\ dec'.frame_size = dec.frame_size /\ dec'.old_mode = dec.old_mode
    BY <1>2, <2>1, AmrReturns DEF AmrResults
  <2>3. M!GotFrom(file, at, 1, <<>>)
    BY <1>5, AmrInput
  <2>4. at >= Len(file)
    <3>1. Len(<<>>) = 0
      OBVIOUS
    <3>2. Len(<<>>) < 1 => at + Len(<<>>) >= Len(file)
      BY <2>3 DEF M!GotFrom
    <3> QED
      BY <1>1, <3>1, <3>2
  <2>5. ASSUME OneModeOf(file), ~stopped PROVE AmrPlace'
    <3>1. Boundary(file, at, Len(out)) /\ AmrPlace
      BY <1>1, <2>5 DEF AmrReading, AmrPlace
    <3>2. at = Len(file)
      BY <1>1, <2>4, <3>1 DEF Boundary
    <3>3. Whole = 1 .. Len(out) /\ (Len(file) = 0 \/ file[Len(file)].part = FrameData(file))
      BY <3>1, <3>2 DEF Boundary, Whole
    <3>4. Ended'
      BY <1>2, <1>3, <2>2, <3>3 DEF Ended, FrameData
    <3> QED
      BY <1>2, <2>2, <3>1, <3>4 DEF AmrPlace, FrameData
  <2>6. OneModeOf(file) => AmrReading'
    BY <1>2, <1>3, <2>2, <2>5 DEF AmrReading
  <2> QED
    BY <1>3, <2>2, <2>6
<1>6. CASE ~Amr!Refused(1) /\ Amr!Input(1) # <<>>
  <2>1. /\ at' = at + 1 /\ UNCHANGED result
        /\ dec' = [dec EXCEPT !.pc = "size", !.buffer_in = file[at + 1].value,
                              !.mode = file[at + 1].value, !.frame = file[at + 1].frame]
    BY <1>6 DEF Amr!ReadMode
  <2>2. at + 1 <= Len(file)
    <3>1. PICK got : got = Amr!Input(1)
      OBVIOUS
    <3>2. got \in Seq(AmrUnitSet) /\ M!GotFrom(file, at, 1, got)
      BY <3>1, AmrInput
    <3>3. Len(got) # 0 /\ Len(got) \in Nat
      BY <1>6, <3>1, <3>2, EmptySeq, LenProperties
    <3>4. at + Len(got) <= Len(file)
      BY <3>2, <3>3 DEF M!GotFrom
    <3> QED
      BY <1>1, <3>3, <3>4
  <2>3. file[at + 1] \in AmrUnitSet
    BY <1>1, <2>2, ElementOfSeq
  <2>4. PICK value \in Amr!Modes, frame \in Nat : value = file[at + 1].value /\ frame = file[at + 1].frame
    BY <2>3 DEF AmrUnitSet
  <2>5. /\ dec' \in AmrStates /\ dec'.pc = "size" /\ dec'.mode = value /\ dec'.frame = frame
        /\ dec'.frame_size = dec.frame_size /\ dec'.old_mode = dec.old_mode
    BY <1>1, <2>1, <2>4 DEF AmrStates
  <2>6. AmrTypeInv'
    BY <1>1, <1>2, <2>1, <2>5 DEF AmrTypeInv
  <2>7. ASSUME OneModeOf(file), ~stopped PROVE AmrPlace'
    <3>1. Boundary(file, at, Len(out)) /\ AmrPlace
      BY <1>1, <2>7 DEF AmrReading, AmrPlace
    <3>2. AmrLaid(file) /\ at < Len(file)
      BY <1>1, <2>2 DEF AmrTypeInv
    <3>3. value = file[1].value
      BY <1>1, <2>4, <2>7, <3>1, <3>2, AtFrame
    <3>4. frame = Len(out) + 1
      BY <2>4, <3>1, <3>2 DEF Boundary
    <3>5. AtMode'
      BY <1>1, <1>2, <2>1, <2>5, <3>1, <3>2, <3>3, <3>4 DEF AtMode, Boundary, Complete, FrameData
    <3> QED
      BY <1>2, <2>5, <3>1, <3>5 DEF AmrPlace, FrameData
  <2>8. OneModeOf(file) => AmrReading'
    BY <1>2, <1>3, <2>5, <2>7 DEF AmrReading
  <2> QED
    BY <1>3, <2>6, <2>8
<1> QED
  BY <1>4, <1>5, <1>6

\* The size that is taken is the one of all frames of the file.
LEMMA AmrTakeSize ==
  ASSUME Amr!AmrAssumption, AmrInv, Amr!TakeSize
  PROVE  AmrInv'
<1> USE DEF AmrInv
<1>1. /\ dec \in AmrStates /\ dec.pc = "size" /\ file \in Seq(AmrUnitSet) /\ at \in Nat /\ Len(file) \in Nat
      /\ out \in Seq(Nat) /\ Len(out) \in Nat
  BY LenProperties DEF Amr!TakeSize, AmrTypeInv, AmrLaid
<1>2. UNCHANGED <<file, at, stopped, out>>
  BY DEF Amr!TakeSize
<1>3. Whole' = Whole /\ (OneModeOf(file))' = OneModeOf(file)
  BY <1>2 DEF Whole, Complete, OneModeOf, FrameData
<1>4. Amr!FrameSize(dec.mode) = AmrSize[dec.mode] /\ AmrSize[dec.mode] \in Int
  BY <1>1, DataIs DEF Amr!FrameSize, AmrStates
<1>5. PICK first \in Int : first = Amr!FrameSize(dec.mode)
  BY <1>4
<1>6. ASSUME OneModeOf(file), ~stopped
      PROVE  /\ AtMode /\ AmrPlace
             /\ first = FrameData(file) /\ first > 0
  <2>1. AtMode /\ AmrPlace
    BY <1>1, <1>6 DEF AmrReading, AmrPlace
  <2>2. PICK p \in Nat : p < Len(file) /\ Boundary(file, p, Len(out)) /\ dec.mode = file[1].value
    BY <2>1 DEF AtMode
  <2>3. FrameData(file) > 0
    BY <1>1, <1>6, <2>2, AtFrame DEF AmrTypeInv
  <2> QED
    BY <1>4, <1>5, <2>1, <2>2, <2>3 DEF FrameData
<1>7. CASE dec.frame_size = 0 /\ first <= 0
  <2>1. Amr!Return("DECODE_ERROR")
    BY <1>5, <1>7 DEF Amr!TakeSize
  <2>2. AmrTypeInv' /\ dec'.pc = "done"
    BY <1>2, <2>1, AmrReturns DEF AmrResults
  <2>3. OneModeOf(file) => stopped
    BY <1>6, <1>7
  <2>4. OneModeOf(file) => AmrReading'
    BY <1>2, <1>3, <2>2, <2>3 DEF AmrReading
  <2> QED
    BY <1>3, <2>2, <2>4
<1>8. CASE ~(dec.frame_size = 0 /\ first <= 0)
  <2>1. PICK f \in Nat : f = dec.frame_size
    BY <1>1 DEF AmrStates
  <2>2. PICK g : g = IF f = 0 THEN first ELSE f
    OBVIOUS
  <2>3. g \in Nat /\ g > 0
    BY <1>8, <2>1, <2>2
  <2>4. dec' = [dec EXCEPT !.pc = "frame", !.frame_size = g] /\ UNCHANGED result
    BY <1>5, <1>8, <2>1, <2>2 DEF Amr!TakeSize
  <2>5. /\ dec' \in AmrStates /\ dec'.pc = "frame" /\ dec'.frame_size = g
        /\ dec'.mode = dec.mode /\ dec'.frame = dec.frame /\ dec'.old_mode = dec.old_mode
    BY <1>1, <2>3, <2>4 DEF AmrStates
  <2>6. AmrTypeInv'
    BY <1>1, <1>2, <2>3, <2>4, <2>5 DEF AmrTypeInv
  <2>7. ASSUME OneModeOf(file), ~stopped PROVE AmrPlace'
    <3>1. AtMode /\ AmrPlace /\ first = FrameData(file)
      BY <1>6, <2>7
    <3>2. g = FrameData(file)
      BY <2>1, <2>2, <3>1 DEF AmrPlace
    <3>3. AtMode'
      BY <1>2, <2>5, <3>1 DEF AtMode, Boundary, Complete, FrameData
    <3> QED
      BY <1>2, <2>5, <3>1, <3>2, <3>3 DEF AmrPlace, FrameData
  <2>8. OneModeOf(file) => AmrReading'
    BY <1>1, <1>2, <1>3, <2>5, <2>7 DEF AmrReading
  <2> QED
    BY <1>3, <2>6, <2>8
<1> QED
  BY <1>7, <1>8

\* In a file of one mode nothing is read over until somebody stops the decoder.
LEMMA AmrReadOver ==
  ASSUME Amr!AmrAssumption, AmrInv, Amr!ReadOver
  PROVE  AmrInv'
<1> USE DEF AmrInv
<1>1. /\ dec \in AmrStates /\ dec.pc = "frame" /\ file \in Seq(AmrUnitSet) /\ at \in Nat /\ Len(file) \in Nat
      /\ out \in Seq(Nat) /\ Len(out) \in Nat
  BY LenProperties DEF Amr!ReadOver, AmrTypeInv, AmrLaid
<1>2. UNCHANGED <<file, stopped, out, result>> /\ dec' = [dec EXCEPT !.pc = "mode"]
  BY DEF Amr!ReadOver
<1>3. Whole' = Whole /\ (OneModeOf(file))' = OneModeOf(file)
  BY <1>2 DEF Whole, Complete, OneModeOf, FrameData
<1>4. PICK n \in Nat : n = dec.frame_size
  BY <1>1 DEF AmrStates
<1>5. PICK got : got = Amr!Input(n)
  OBVIOUS
<1>6. Len(got) \in Nat
  BY <1>5, AmrInput, LenProperties
<1>7. at' \in Nat
  <2>1. at' = at \/ at' = at + Len(got)
    BY <1>4, <1>5 DEF Amr!ReadOver
  <2> QED
    BY <1>1, <1>6, <2>1
<1>8. dec' \in AmrStates /\ dec'.pc = "mode"
  BY <1>1, <1>2 DEF AmrStates
<1>9. AmrTypeInv'
  BY <1>1, <1>2, <1>7, <1>8 DEF AmrTypeInv
<1>10. ASSUME OneModeOf(file), ~stopped PROVE FALSE
  <2>1. AmrPlace
    BY <1>10 DEF AmrReading
  <2>2. dec.mode = file[1].value /\ dec.old_mode = file[1].value
    BY <1>1, <2>1 DEF AmrPlace, AtMode, Amr!ReadOver
  <2> QED
    BY <2>2 DEF Amr!ReadOver
<1>11. OneModeOf(file) => AmrReading'
  BY <1>2, <1>3, <1>8, <1>10 DEF AmrReading
<1> QED
  BY <1>3, <1>9, <1>11

\* What is read is one frame in full, or it is cut off.
LEMMA AmrReadFrame ==
  ASSUME Amr!AmrAssumption, AmrInv, Amr!ReadFrame
  PROVE  AmrInv'
<1> USE DEF AmrInv
<1>1. /\ dec \in AmrStates /\ dec.pc = "frame" /\ file \in Seq(AmrUnitSet) /\ at \in Nat /\ Len(file) \in Nat
      /\ out \in Seq(Nat) /\ Len(out) \in Nat
  BY LenProperties DEF Amr!ReadFrame, AmrTypeInv, AmrLaid
<1>2. UNCHANGED <<file, stopped, out>>
  BY DEF Amr!ReadFrame
<1>3. Whole' = Whole /\ (OneModeOf(file))' = OneModeOf(file)
  BY <1>2 DEF Whole, Complete, OneModeOf, FrameData
<1>4. PICK n \in Nat : n = dec.frame_size /\ n > 0
  BY <1>1 DEF AmrStates, AmrTypeInv
<1>5. PICK got : got = Amr!Input(n)
  OBVIOUS
<1>6. got \in Seq(AmrUnitSet) /\ M!GotFrom(file, at, n, got)
  BY <1>5, AmrInput
<1>7. PICK g \in Nat, l \in Nat : g = Len(got) /\ l = Len(file)
  BY <1>1, <1>6, LenProperties
<1>8. /\ g = 0 \/ at + g <= l
      /\ g <= n
      /\ g < n => at + g >= l
      /\ \A i \in 1 .. g : got[i] = file[at + i]
  BY <1>4, <1>6, <1>7 DEF M!GotFrom
<1>9. CASE Amr!Refused(n) \/ g < n
  <2>1. Amr!Return("DECODE_ERROR") /\ UNCHANGED at
    BY <1>4, <1>5, <1>7, <1>9 DEF Amr!ReadFrame
  <2>2. /\ AmrTypeInv' /\ dec'.pc = "done" /\ result' = "DECODE_ERROR"
        /\ dec'.frame_size = dec.frame_size /\ dec'.old_mode = dec.old_mode
    BY <1>2, <2>1, AmrReturns DEF AmrResults
  <2>3. ASSUME OneModeOf(file), ~stopped PROVE AmrPlace'
    <3>1. AtMode /\ AmrPlace
      BY <1>1, <2>3 DEF AmrReading, AmrPlace
    <3>2. PICK p \in Nat : at = p + 1 /\ p < l /\ Boundary(file, p, Len(out))
      BY <1>7, <3>1 DEF AtMode
    <3>3. n = FrameData(file) /\ g < n
      BY <1>4, <1>9, <2>3, <3>1 DEF AmrPlace, Amr!Refused
    <3>4. p + 1 + n > l
      BY <1>8, <3>2, <3>3
    <3>5. Whole = 1 .. Len(out) /\ file[l].part # FrameData(file)
      BY <1>1, <1>7, <2>3, <3>2, <3>3, <3>4, CutFrame DEF AmrTypeInv, Whole
    <3>6. l # 0
      BY <3>2
    <3>7. Ended'
      BY <1>2, <1>3, <1>7, <2>2, <3>5, <3>6 DEF Ended, FrameData
    <3> QED
      BY <1>2, <2>2, <3>1, <3>7 DEF AmrPlace, FrameData
  <2>4. OneModeOf(file) => AmrReading'
    BY <1>2, <1>3, <2>2, <2>3 DEF AmrReading
  <2> QED
    BY <1>3, <2>2, <2>4
<1>10. CASE ~(Amr!Refused(n) \/ g < n)
  <2>1. g = n /\ ~stopped
    BY <1>4, <1>8, <1>10 DEF Amr!Refused
  <2>2. PICK frame : frame = IF \A i \in DOMAIN got : got[i].frame = dec.frame THEN dec.frame ELSE 0
    OBVIOUS
  <2>3. /\ at' = at + Len(got) /\ UNCHANGED result
        /\ dec' = [dec EXCEPT !.pc = "output", !.old_mode = dec.mode,
                              !.frame = IF \A i \in DOMAIN got : got[i].frame = dec.frame THEN @ ELSE 0]
    BY <1>4, <1>5, <1>7, <1>10 DEF Amr!ReadFrame
  <2>4. dec' = [dec EXCEPT !.pc = "output", !.old_mode = dec.mode, !.frame = frame]
    BY <2>2, <2>3
  <2>5. frame \in Nat
    BY <1>1, <2>2 DEF AmrStates
  <2>6. /\ dec' \in AmrStates /\ dec'.pc = "output" /\ dec'.frame = frame
        /\ dec'.frame_size = dec.frame_size /\ dec'.old_mode = dec.mode
    BY <1>1, <2>4, <2>5 DEF AmrStates
  <2>7. at' = at + n /\ at' \in Nat
    <3>1. at' = at + n
      BY <1>7, <2>1, <2>3, Zenon
    <3>2. at + n \in Nat
      BY <1>1
    <3> QED
      BY <3>1, <3>2, Zenon
  <2>8. AmrTypeInv'
    BY <1>1, <1>2, <1>4, <2>3, <2>6, <2>7 DEF AmrTypeInv
  <2>9. ASSUME OneModeOf(file)
        PROVE  /\ Boundary(file, at', Len(out) + 1) /\ frame = Len(out) + 1
               /\ Len(out) + 1 \in Whole /\ dec.mode = file[1].value /\ n = FrameData(file)
    <3>1. AtMode /\ AmrPlace
      BY <1>1, <2>1, <2>9 DEF AmrReading, AmrPlace
    <3>2. PICK p \in Nat : /\ at = p + 1 /\ p < l /\ Boundary(file, p, Len(out))
                           /\ dec.mode = file[1].value /\ dec.frame = Len(out) + 1
      BY <1>7, <3>1 DEF AtMode
    <3>3. n = FrameData(file)
      BY <1>4, <3>1 DEF AmrPlace
    <3>4. PICK q \in Nat : q = p + 1 + n
      OBVIOUS
    <3>5. q <= l /\ q = at' /\ q = at + n
      BY <1>4, <1>8, <2>1, <2>7, <3>2, <3>4
    <3>6. /\ Boundary(file, q, Len(out) + 1) /\ Len(out) + 1 \in Whole
          /\ \A j \in p + 2 .. q : file[j].frame = Len(out) + 1
      BY <1>1, <1>7, <2>9, <3>2, <3>3, <3>4, <3>5, WholeFrame DEF AmrTypeInv, Whole
    <3>7. DOMAIN got = 1 .. g
      BY <1>6, <1>7
    <3>8. ASSUME NEW i \in DOMAIN got PROVE got[i].frame = dec.frame
      <4>1. PICK j \in p + 2 .. q : j = at + i
        BY <2>1, <3>2, <3>4, <3>7
      <4>2. got[i] = file[j]
        BY <1>8, <3>7, <4>1
      <4> QED
        BY <3>2, <3>6, <4>2
    <3>9. frame = dec.frame
      BY <2>2, <3>8
    <3> QED
      BY <3>2, <3>3, <3>5, <3>6, <3>9
  <2>10. ASSUME OneModeOf(file) PROVE AmrPlace'
    BY <1>2, <1>4, <2>6, <2>9, <2>10 DEF AmrPlace, FrameData, Boundary, Complete
  <2>11. OneModeOf(file) => AmrReading'
    BY <1>2, <1>3, <2>6, <2>9, <2>10 DEF AmrReading
  <2> QED
    BY <1>3, <2>8, <2>11
<1> QED
  BY <1>9, <1>10

\* The frame that is put out is the next one.
LEMMA AmrPutFrame ==
  ASSUME Amr!AmrAssumption, AmrInv, Amr!PutFrame
  PROVE  AmrInv'
<1> USE DEF AmrInv
<1>1. /\ dec \in AmrStates /\ dec.pc = "output" /\ file \in Seq(AmrUnitSet) /\ at \in Nat /\ Len(file) \in Nat
      /\ out \in Seq(Nat) /\ Len(out) \in Nat
  BY LenProperties DEF Amr!PutFrame, AmrTypeInv, AmrLaid
<1>2. UNCHANGED <<file, at, stopped>>
  BY DEF Amr!PutFrame
<1>3. Whole' = Whole /\ (OneModeOf(file))' = OneModeOf(file)
  BY <1>2 DEF Whole, Complete, OneModeOf, FrameData
<1>4. CASE stopped /\ Amr!Return("OUTPUT_ERROR") /\ UNCHANGED out
  <2>1. AmrTypeInv' /\ dec'.pc = "done"
    BY <1>2, <1>4, AmrReturns DEF AmrResults
  <2>2. AmrReading => AmrReading'
    BY <1>2, <1>3, <1>4, <2>1 DEF AmrReading
  <2> QED
    BY <1>3, <2>1, <2>2
<1>5. CASE out' = Append(out, dec.frame) /\ dec' = [dec EXCEPT !.pc = "mode"] /\ UNCHANGED result
  <2>1. PICK frame \in Nat : frame = dec.frame
    BY <1>1 DEF AmrStates
  <2>2. PICK m \in Nat : m = Len(out)
    BY <1>1
  <2>3. /\ out' \in Seq(Nat) /\ Len(out') = m + 1
        /\ \A i \in 1 .. m : out'[i] = out[i]
        /\ out'[m + 1] = frame
    BY <1>1, <1>5, <2>1, <2>2, AppendProperties
  <2>4. /\ dec' \in AmrStates /\ dec'.pc = "mode"
        /\ dec'.frame_size = dec.frame_size /\ dec'.old_mode = dec.old_mode
    BY <1>1, <1>5 DEF AmrStates
  <2>5. AmrTypeInv'
    BY <1>1, <1>2, <1>5, <2>3, <2>4 DEF AmrTypeInv
  <2>6. ASSUME OneModeOf(file) PROVE AmrReading'
    <3>1. AmrReading /\ frame = m + 1 /\ m + 1 \in Whole
      BY <1>1, <2>1, <2>2, <2>6 DEF AmrReading
    <3>2. ASSUME NEW i \in 1 .. m + 1 PROVE out'[i] = i /\ i \in Whole
      <4>1. CASE i \in 1 .. m
        BY <2>2, <2>3, <3>1, <4>1 DEF AmrReading
      <4>2. CASE i = m + 1
        BY <2>3, <3>1, <4>2
      <4> QED
        BY <4>1, <4>2
    <3>3. ASSUME ~stopped PROVE AmrPlace'
      <4>1. AmrPlace
        BY <3>1, <3>3 DEF AmrReading
      <4>2. Boundary(file, at, m + 1)
        BY <1>1, <2>2, <4>1 DEF AmrPlace
      <4>3. Boundary(file, at, Len(out))'
        BY <1>2, <2>3, <4>2 DEF Boundary, Complete, FrameData
      <4> QED
        BY <1>2, <2>4, <4>1, <4>3 DEF AmrPlace, FrameData
    <3> QED
      BY <1>2, <1>3, <2>3, <2>4, <3>2, <3>3 DEF AmrReading
  <2> QED
    BY <1>3, <2>5, <2>6
<1> QED
  BY <1>4, <1>5 DEF Amr!PutFrame

\* A stop changes nothing but that it happened.
LEMMA AmrStop ==
  ASSUME AmrInv, Amr!Stop
  PROVE  AmrInv'
<1>1. UNCHANGED <<file, at, dec, out, result>> /\ stopped'
  BY DEF Amr!Stop
<1>2. Whole' = Whole /\ (OneModeOf(file))' = OneModeOf(file)
  BY <1>1 DEF Whole, Complete, OneModeOf, FrameData
<1>3. AmrTypeInv'
  <2>1. stopped' \in BOOLEAN
    BY DEF Amr!Stop
  <2> QED
    BY <1>1, <2>1 DEF AmrInv, AmrTypeInv
<1>4. AmrReading => AmrReading'
  BY <1>1, <1>2 DEF AmrReading
<1> QED
  BY <1>2, <1>3, <1>4 DEF AmrInv

\* No step of the amr decoder leaves its invariant.
LEMMA AmrStep ==
  ASSUME Amr!AmrAssumption, AmrInv, Amr!Next \/ UNCHANGED decoder
  PROVE  AmrInv'
<1>1. ASSUME UNCHANGED decoder PROVE AmrInv'
  <2>1. UNCHANGED <<file, at, stopped, dec, out, result>>
    BY <1>1 DEF decoder
  <2>2. Whole' = Whole /\ (OneModeOf(file))' = OneModeOf(file)
    BY <2>1 DEF Whole, Complete, OneModeOf, FrameData
  <2>3. AmrTypeInv'
    BY <2>1 DEF AmrInv, AmrTypeInv
  <2>4. AmrPlace => AmrPlace'
    BY <2>1, <2>2 DEF AmrPlace, AtMode, Ended, Boundary, Complete, FrameData
  <2>5. AmrReading => AmrReading'
    BY <2>1, <2>2, <2>4 DEF AmrReading
  <2> QED
    BY <2>2, <2>3, <2>5 DEF AmrInv
<1> QED
  BY <1>1, AmrReadMode, AmrTakeSize, AmrReadOver, AmrReadFrame, AmrPutFrame, AmrStop
  DEF Amr!Next, Amr!Process

\* Under the invariant the frames are decoded.
LEMMA AmrDecoded == ASSUME AmrInv PROVE Amr!FramesDecoded
<1> SUFFICES ASSUME Amr!OneMode
             PROVE  /\ out = [i \in 1 .. Len(out) |-> i] /\ Amr!ToSet(out) \subseteq Amr!Frames
                    /\ result # "none" /\ ~stopped
                         => /\ Amr!ToSet(out) = Amr!Frames
                            /\ result = IF Len(file) = 0 \/ file[Len(file)].part = AmrSize[file[1].value]
                                          THEN "SUCCESS" ELSE "DECODE_ERROR"
  BY Zenon DEF Amr!FramesDecoded
<1>1. file \in Seq(AmrUnitSet) /\ out \in Seq(Nat) /\ Len(out) \in Nat
  BY LenProperties DEF AmrInv, AmrTypeInv, AmrLaid
<1>2. DOMAIN file = 1 .. Len(file) /\ DOMAIN out = 1 .. Len(out)
  BY <1>1, LenProperties
<1>3. OneModeOf(file)
  BY <1>2 DEF Amr!OneMode, OneModeOf
<1>4. AmrReading
  BY <1>3 DEF AmrInv
<1>5. Amr!Frames = Whole
  BY <1>2, Zenon DEF Amr!Frames, Whole, Complete, FrameData
<1>6. \A i \in 1 .. Len(out) : out[i] = i /\ i \in Whole
  BY <1>4 DEF AmrReading
<1>7. out = [i \in 1 .. Len(out) |-> i]
  BY <1>1, <1>2, <1>6
<1>8. Amr!ToSet(out) = {out[i] : i \in 1 .. Len(out)}
  BY <1>2 DEF Amr!ToSet
<1>9. Amr!ToSet(out) = 1 .. Len(out)
  BY <1>6, <1>8
<1>10. Amr!ToSet(out) \subseteq Whole
  BY <1>6, <1>9
<1>11. ASSUME result # "none", ~stopped PROVE Ended
  BY <1>4, <1>11 DEF AmrInv, AmrTypeInv, AmrReading, AmrPlace
<1> QED
  BY <1>5, <1>7, <1>9, <1>10, <1>11 DEF Ended, FrameData

--------------------------------------------------------------------------------
(* The sound path *)

\* The decoder of SoundPath is the one of Mp3DecoderProofs.
LEMMA SameMp3 ==
  /\ Mp3!Mp3Assumption <=> M!Mp3Assumption
  /\ Mp3!Init <=> M!Init
  /\ Mp3!Next <=> M!Next
  /\ Mp3!FramesDecoded <=> M!FramesDecoded
<1>1. Mp3!Mp3Assumption <=> M!Mp3Assumption
  BY Zenon DEF Mp3!Mp3Assumption, M!Mp3Assumption
<1>2. Mp3!Init <=> M!Init
  BY Zenon DEF Mp3!Init, Mp3!Start, Mp3!Units, Mp3!Tag, Mp3!Piece, Mp3!Kinds, Mp3!Max, Mp3!FlattenSeq,
               M!Init, M!Start, M!Units, M!Tag, M!Piece, M!Kinds, M!Max, M!FlattenSeq
<1>3. Mp3!Next <=> M!Next
  BY Zenon DEF Mp3!Next, Mp3!Process, Mp3!Stop, Mp3!Header, Mp3!SkipTag, Mp3!Refill, Mp3!NoSync,
               Mp3!Underflow, Mp3!Skip, Mp3!WrongLayer, Mp3!SeekStart, Mp3!Output, Mp3!Found,
               Mp3!Continue, Mp3!Return, Mp3!Rest, Mp3!FindSync, Mp3!Syncs, Mp3!Buffer, Mp3!Decodes,
               Mp3!Input, Mp3!Refused, Mp3!Min,
               M!Next, M!Process, M!Stop, M!Header, M!SkipTag, M!Refill, M!NoSync,
               M!Underflow, M!Skip, M!WrongLayer, M!SeekStart, M!Output, M!Found,
               M!Continue, M!Return, M!Rest, M!FindSync, M!Syncs, M!Buffer, M!Decodes,
               M!Input, M!Refused, M!Min
<1>4. Mp3!FramesDecoded <=> M!FramesDecoded
  BY Zenon DEF Mp3!FramesDecoded, Mp3!Dense, Mp3!Useless, Mp3!Expected, Mp3!Formats, Mp3!Frames, Mp3!ToSet,
               M!FramesDecoded, M!Dense, M!Useless, M!Expected, M!Formats, M!Frames, M!ToSet
<1> QED
  BY <1>1, <1>2, <1>3, <1>4

\* The amr decoder puts out the frames of any file of one mode whole, each once and in
\* their order, for any sizes of the frames and wherever the file is cut off.
THEOREM AmrFramesDecoded == ASSUME Amr!AmrAssumption PROVE Amr!Spec => []Amr!FramesDecoded
<1>1. Amr!Init => AmrInv
  BY AmrInit
<1>2. AmrInv /\ [Amr!Next]_(Amr!vars) => AmrInv'
  BY AmrStep DEF Amr!vars, decoder
<1>3. AmrInv => Amr!FramesDecoded
  BY AmrDecoded
<1> QED
  BY <1>1, <1>2, <1>3, PTL DEF Amr!Spec

PathInv == /\ side = "mp3" => M!Mp3Inv
           /\ side = "amr" => AmrInv
           /\ BodyInv
           /\ FifoInv

\* The invariants of all parts hold at the start.
LEMMA PathStarts == PathInit => PathInv
<1> SUFFICES ASSUME PathInit PROVE PathInv
  OBVIOUS
<1>1. BodyInv /\ FifoInv
  BY PathAssumption, InitBodyInv, InitFifoInv DEF PathInit
<1>2. ASSUME side = "mp3" PROVE M!Mp3Inv
  <2>1. Mp3!Init
    BY <1>2, Zenon DEF PathInit
  <2> QED
    BY <2>1, PathAssumption, SameMp3, M!Mp3Init, Zenon
<1>3. ASSUME side = "amr" PROVE AmrInv
  <2>1. Amr!Init
    BY <1>3, Zenon DEF PathInit
  <2> QED
    BY <2>1, PathAssumption, AmrInit, Zenon
<1> QED
  BY <1>1, <1>2, <1>3, Zenon DEF PathInv

\* A step is one of one part; the others stay as they are.
LEMMA PathStep == PathInv /\ [PathNext]_allvars => PathInv'
<1> SUFFICES ASSUME PathInv, [PathNext]_allvars PROVE PathInv'
  OBVIOUS
<1>1. /\ side' = side
      /\ side = "mp3" => Mp3!Next \/ UNCHANGED decoder
      /\ side = "amr" => Amr!Next \/ UNCHANGED decoder
      /\ [Next]_vars
      /\ [FifoNext]_fifo
  <2>1. CASE OnMp3 /\ Mp3!Next
    BY <2>1 DEF OnMp3
  <2>2. CASE OnAmr /\ Amr!Next
    BY <2>2 DEF OnAmr
  <2>3. CASE side = "http" /\ Next /\ UNCHANGED <<side, decoder, fifo>>
    BY <2>3
  <2>4. CASE side = "fifo" /\ FifoNext /\ UNCHANGED <<side, decoder, vars>>
    BY <2>4
  <2>5. CASE UNCHANGED allvars
    BY <2>5 DEF allvars
  <2> QED
    BY <2>1, <2>2, <2>3, <2>4, <2>5, Zenon DEF PathNext
<1>2. BodyInv'
  BY <1>1, PathAssumption, NextBodyInv, Zenon DEF PathInv
<1>3. FifoInv'
  BY <1>1, PathAssumption, NextFifoInv, Zenon DEF PathInv
<1>4. ASSUME side = "mp3" PROVE M!Mp3Inv'
  <2>1. [M!Next]_(M!vars)
    BY <1>1, <1>4, SameMp3, Zenon DEF decoder, M!vars
  <2> QED
    BY <1>4, <2>1, PathAssumption, SameMp3, M!Mp3Step, Zenon DEF PathInv
<1>5. ASSUME side = "amr" PROVE AmrInv'
  BY <1>1, <1>5, PathAssumption, AmrStep, Zenon DEF PathInv
<1> QED
  BY <1>1, <1>2, <1>3, <1>4, <1>5 DEF PathInv

\* Under them both decoders put out what they should.
LEMMA PathDecoded == PathInv => DecodedInOrder
<1> SUFFICES ASSUME PathInv PROVE DecodedInOrder
  OBVIOUS
<1>1. ASSUME side = "mp3" PROVE Mp3!FramesDecoded
  BY <1>1, PathAssumption, SameMp3, M!Mp3Decoded, Zenon DEF PathInv
<1>2. ASSUME side = "amr" PROVE Amr!FramesDecoded
  BY <1>2, AmrDecoded, Zenon DEF PathInv
<1> QED
  BY <1>1, <1>2, Zenon DEF DecodedInOrder

\* Both decoders put out each frame of the file that should be heard, once and in its
\* order, for any file, tag, start position and size of the buffer and of the frames.
THEOREM FramesInOrder == PathSpec => []DecodedInOrder
<1>1. PathInit => PathInv
  BY PathStarts
<1>2. PathInv /\ [PathNext]_allvars => PathInv'
  BY PathStep
<1>3. PathInv => DecodedInOrder
  BY PathDecoded
<1> QED
  BY <1>1, <1>2, <1>3, PTL DEF PathSpec

\* The parts that share a sound path keep what each of them promises: the bodies of the
\* http preprocessor are whole, its users keep to their sockets, and the sample buffer
\* gives back what was put, while any of the others runs.
THEOREM PartsKeepTheirs == PathSpec => [](BodyWhole /\ SocketsOwned /\ FifoInOrder)
<1>1. PathInit => PathInv
  BY PathStarts
<1>2. PathInv /\ [PathNext]_allvars => PathInv'
  BY PathStep
<1>3. BodyInv => BodyWhole
  BY DEF BodyInv, UserOK, BodyWhole
<1>4. FifoInv => FifoInOrder
  BY DEF FifoInv, InPlace, FifoInOrder
<1>5. BodyInv => SocketsOwned
  BY SocketsAreOwned DEF BodyInv
<1> QED
  BY <1>1, <1>2, <1>3, <1>4, <1>5, PTL DEF PathSpec, PathInv
================================================================================
