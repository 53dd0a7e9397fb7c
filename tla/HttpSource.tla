------------------------------- MODULE HttpSource -------------------------------
(***************************************************************************)
(* player/http_preprocessor.c: a track is fetched over http.  init opens a *)
(* socket, follows redirections and takes the length of the body from the  *)
(* header; read counts what is left of it down; seek closes the socket and *)
(* opens another one.  The socket is the userdata of a preprocessor, but   *)
(* the length, and whether the body comes in chunks, are two globals that  *)
(* all users of the file share.                                            *)
(*                                                                         *)
(* External: http_open, http_socket_read, http_socket_read_chunk, close.   *)
(* An answer is a status, whether the body is chunked, and the units of it *)
(* from the position asked for; a socket is the lowest number that is free.*)
(* The caller is preprocess_run of player.c.                               *)
(***************************************************************************)
EXTENDS Integers, FiniteSets, FiniteSetsExt, Functions

CONSTANTS Users,          \* the threads that have an http preprocessor
          Body,           \* units of a body
          DataLen,        \* units a read asks for
          Width,          \* http_totalsize is an unsigned number below Width
          MaxSeeks,       \* bound: seeks of all users
          MaxRedirects    \* bound: redirections of all users

\* What is assumed of the constants; SoundPath assumes it.
HttpAssumption ==
  /\ Body \in Nat /\ DataLen \in Nat \ {0}
  /\ Width \in Nat /\ Width > Body
  /\ MaxSeeks \in Nat /\ MaxRedirects \in Nat

VARIABLES g_is_chunked, http_totalsize,   \* the globals
          sockets,      \* the open sockets: whose each is, and what is left of its body
          user          \* of each user: the preprocessor, the locals of its calls, and history

vars == <<g_is_chunked, http_totalsize, sockets, user>>

Numbers == 1 .. 2 * Cardinality(Users)
\* Of the fields of a user these are history:
\*   got        units it was given since its socket was opened
\*   disturbed  another user wrote a global since this one set them
\*   error      its socket failed
\*   lost       a seek of it failed: its userdata is a socket that was closed
\*   foreign    it read or closed a socket that was not its own
Idle == [pc |-> "idle", userdata |-> -1, http_socket |-> -1, pos |-> 0,
               chunked |-> FALSE, length |-> 0, data_len |-> 0, call |-> "none", got |-> 0, disturbed |-> FALSE,
               error |-> FALSE, lost |-> FALSE, foreign |-> FALSE,
               seeks |-> 0, redirects |-> 0, end |-> "none"]

Init == /\ g_is_chunked = FALSE
        /\ http_totalsize = 0
        /\ sockets = [s \in {} |-> 0]
        /\ user = [u \in Users |-> Idle]

\* a user whose track is over
Done(rec)    == [Idle EXCEPT !.end = rec.end, !.foreign = rec.foreign, !.lost = rec.lost,
                             !.seeks = rec.seeks, !.redirects = rec.redirects]
Seeks     == FoldFunction(+, 0, [u \in Users |-> user[u].seeks])
Redirects == FoldFunction(+, 0, [u \in Users |-> user[u].redirects])
Set(u, rec)  == user' = [user EXCEPT ![u] = rec]
\* the others see the globals change under them
Disturb(u, rec) ==
  user' = [v \in Users |-> IF v = u THEN rec ELSE [user[v] EXCEPT !.disturbed = TRUE]]

\* the number of the next socket: the lowest that is free
Free(s) == /\ s \notin DOMAIN sockets
           /\ \A t \in Numbers \ DOMAIN sockets : s <= t
Opened(s, sock) == sockets' = [t \in DOMAIN sockets \cup {s} |-> IF t = s THEN sock ELSE sockets[t]]
\* close takes a number, whosever socket it is
Without(s) == [t \in DOMAIN sockets \ {s} |-> sockets[t]]
Owns(u, s) == s \in DOMAIN sockets /\ sockets[s].user = u

--------------------------------------------------------------------------------
(* init *)

\* a track begins
Play(u) == /\ user[u].pc = "idle"
           /\ user[u].end = "none"
           /\ Set(u, [user[u] EXCEPT !.pc = "open"])
           /\ UNCHANGED <<g_is_chunked, http_totalsize, sockets>>

\* init fails: the socket is closed, userdata stays what it was; init of a track
\* is followed by nothing, one of a seek by the next read
Failure(rec) == IF rec.seeks = 0
                THEN Done([rec EXCEPT !.end = "no init"])
                ELSE [rec EXCEPT !.pc = "ready", !.http_socket = -1, !.lost = TRUE]

\* http_open: fails, or opens a socket on which the body comes from the position on
HttpOpen(u) ==
  /\ user[u].pc = "open"
  /\ \/ Set(u, Failure(user[u])) /\ UNCHANGED sockets
     \/ \E s \in Numbers, chunked \in BOOLEAN :
          LET rest == Body - user[u].pos
          IN  /\ Free(s)
              /\ Opened(s, [user |-> u, left |-> rest])
              /\ Set(u, [user[u] EXCEPT !.pc = "header", !.http_socket = s, !.got = 0,
                                        !.chunked = chunked, !.length = rest])
  /\ UNCHANGED <<g_is_chunked, http_totalsize>>

\* Mutant: the socket of a redirection is not closed.
Redirected_Open(u) == sockets

Redirected(u) == Without(user[u].http_socket)

\* g_is_chunked is reset before the status is looked at.
Header(u) ==
  /\ user[u].pc = "header"
  /\ g_is_chunked' = FALSE
  /\ \/ \* 200 or 206
        Disturb(u, [user[u] EXCEPT !.pc = "length"]) /\ UNCHANGED sockets
     \/ \* 301 or 302: all over again
        /\ Redirects < MaxRedirects
        /\ sockets' = Redirected(u)
        /\ Disturb(u, [user[u] EXCEPT !.pc = "open", !.http_socket = -1, !.redirects = @ + 1])
     \/ \* another status
        /\ sockets' = Without(user[u].http_socket)
        /\ Disturb(u, Failure(user[u]))
  /\ UNCHANGED http_totalsize

\* The globals are set, and the socket is the userdata.
Length(u) ==
  /\ user[u].pc = "length"
  /\ g_is_chunked' = user[u].chunked
  /\ http_totalsize' = IF user[u].chunked THEN http_totalsize ELSE user[u].length
  /\ Disturb(u, [user[u] EXCEPT !.pc = "ready", !.userdata = user[u].http_socket,
                                !.http_socket = -1, !.disturbed = FALSE])
  /\ UNCHANGED sockets

--------------------------------------------------------------------------------
(* read *)

\* what read returned: 0 or less ends the track, but for -101, which is tried again
\* until the player gave up or was stopped; -1 of a chunk is a size to preprocess_run
End(rec, why) == [rec EXCEPT !.pc = "close", !.end = why]

\* the choice of the socket call, and how much is asked for
ReadCall(u) ==
  /\ user[u].pc = "ready"
  /\ IF ~g_is_chunked /\ http_totalsize = 0
     THEN Set(u, End(user[u], "end"))
     ELSE Set(u, [user[u] EXCEPT !.pc = "read",
                    !.call = IF g_is_chunked THEN "chunk" ELSE "plain",
                    !.data_len = IF ~g_is_chunked /\ DataLen > http_totalsize
                                 THEN http_totalsize ELSE DataLen])
  /\ UNCHANGED <<g_is_chunked, http_totalsize, sockets>>

\* what the socket may give to a user: some of what is left, 0 at the end of the body
\* or when the peer closed, -1 when it fails; a socket that is closed fails
Answers(u) ==
  LET s == user[u].userdata
  IN  IF s \notin DOMAIN sockets THEN {-1}
      ELSE {-1} \cup 1 .. Min({user[u].data_len, sockets[s].left})
                \cup (IF user[u].call = "plain" \/ sockets[s].left = 0 THEN {0} ELSE {})

\* Mutant: what was asked for is counted, not what came.
Left_Asked(rs, data_len) == (http_totalsize - data_len) % Width

\* what is left of the body
Left(rs, data_len) == (http_totalsize - rs) % Width

ReadReturn(u) ==
  /\ user[u].pc = "read"
  /\ \E rs \in Answers(u) :
       LET s == user[u].userdata
           now == [user[u] EXCEPT !.pc = "ready", !.data_len = 0, !.call = "none",
                                  !.foreign = @ \/ ~Owns(u, s)]
       IN  IF rs > 0
           THEN /\ sockets' = [sockets EXCEPT ![s].left = @ - rs]
                /\ IF user[u].call = "chunk"
                   THEN Set(u, [now EXCEPT !.got = @ + rs]) /\ UNCHANGED http_totalsize
                   ELSE /\ http_totalsize' = Left(rs, user[u].data_len)
                        /\ Disturb(u, [now EXCEPT !.got = @ + rs])
           ELSE /\ \/ user[u].call = "chunk"
                      /\ Set(u, End([now EXCEPT !.error = @ \/ rs = -1],
                                    IF rs = 0 THEN "end" ELSE "overrun"))
                   \/ user[u].call = "plain" /\ rs = -1
                      /\ Set(u, End([now EXCEPT !.error = TRUE], "end"))
                   \/ user[u].call = "plain" /\ rs = 0
                      /\ IF http_totalsize > 0
                         THEN \E next \in {now, End(now, "timeout")} : Set(u, next)
                         ELSE Set(u, End(now, "end"))
                /\ UNCHANGED <<http_totalsize, sockets>>
  /\ UNCHANGED g_is_chunked

--------------------------------------------------------------------------------
(* seek and destroy *)

\* seek closes the socket and keeps its number in userdata until init succeeds
Seek(u) == /\ user[u].pc = "ready"
           /\ Seeks < MaxSeeks
           /\ sockets' = Without(user[u].userdata)
           /\ \E pos \in 0 .. Body :
                Set(u, [user[u] EXCEPT !.pc = "open", !.pos = pos, !.seeks = @ + 1,
                                       !.foreign = @ \/ ~Owns(u, user[u].userdata)])
           /\ UNCHANGED <<g_is_chunked, http_totalsize>>

\* destroy, at the end of a track or when the player stopped its stream
Destroy(u) == /\ user[u].pc \in {"close", "ready"}
              /\ sockets' = Without(user[u].userdata)
              /\ Set(u, Done([user[u] EXCEPT
                          !.end = IF user[u].pc = "ready" THEN "stopped" ELSE @,
                          !.foreign = @ \/ ~Owns(u, user[u].userdata)]))
              /\ UNCHANGED <<g_is_chunked, http_totalsize>>

Step(u) == \/ Play(u) \/ HttpOpen(u) \/ Header(u) \/ Length(u)
           \/ ReadCall(u) \/ ReadReturn(u) \/ Seek(u) \/ Destroy(u)
Next == \E u \in Users : Step(u)
Spec == Init /\ [][Next]_vars

--------------------------------------------------------------------------------
(* Properties *)

NoSeekFailed == \A u \in Users : ~user[u].lost

\* A track that came to its end was given whole, from the position of its last seek on:
\* the count of what is left follows what the socket gives, over short reads, retries,
\* redirections and seeks.  It is so for a user under whom nobody changed the globals,
\* whose socket did not fail (a failure ends a track the way its end does), and as long
\* as no seek failed.
BodyWhole ==
  NoSeekFailed =>
    \A u \in Users : user[u].pc = "close" /\ user[u].end = "end" /\ ~user[u].disturbed /\ ~user[u].error
                       => user[u].got = Body - user[u].pos

\* As long as no seek failed, a user reads and closes no socket but its own, and one
\* that has no track holds none: redirections, failures and seeks leave none open.
SocketsOwned ==
  NoSeekFailed =>
    /\ \A u \in Users : ~user[u].foreign
    /\ \A s \in DOMAIN sockets :
         LET rec == user[sockets[s].user]
         IN  rec.pc # "idle" /\ s \in {rec.userdata, rec.http_socket}
================================================================================
