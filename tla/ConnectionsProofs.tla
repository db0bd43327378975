-------------------------- MODULE ConnectionsProofs --------------------------
(***************************************************************************)
(* Connections, for any delays, bounds and faults: nothing is open after stop,  *)
(* there is one stream or one attempt at a time, until something external fails *)
(* for good there is at least one, and after an open the back-off starts anew.  *)
(*                                                                         *)
(* The invariants are inductive together, with two facts about a source that is *)
(* gone: it failed for good, or stop closed it.                               *)
(***************************************************************************)
EXTENDS Connections, TLAPS

TypeInv ==
  /\ setup \in Setup
  /\ conn \in Connection
  /\ {stopped, joined, dead} \subseteq BOOLEAN

\* Nothing is under way in c, and no socket was lost.
Free(c) ==
  /\ c.stray = 0
  /\ c.socket = "none"
  /\ c.timers = 0
  /\ c.token = "none"
  /\ c.source \notin Live

\* One thing at most is under way in c.
Exclusive(c) ==
  /\ c.stray = 0
  /\ c.timers <= 1
  /\ c.socket # "none" => c.timers = 0 /\ c.token = "none" /\ c.source \notin Live
  /\ c.timers > 0 => c.token = "none" /\ c.source \notin Live
  /\ c.token # "none" => c.source \notin Live

Trying(c) ==
  c.socket # "none" \/ c.timers > 0 \/ c.token # "none" \/ c.source \in Live

Fresh == ~conn.begun => Free(conn) /\ ~stopped
GoneForGood ==
  /\ conn.source = "failed" => dead
  /\ conn.source = "closed" => stopped
Tries == conn.begun /\ ~stopped /\ ~dead => Trying(conn)

IInv ==
  /\ TypeInv
  /\ Exclusive(conn)
  /\ Fresh
  /\ StopIsFinal
  /\ GoneForGood
  /\ Tries

\* A record with one field replaced is of the shape, if the new value is.
LEMMA ShapeExcept ==
  ASSUME NEW c \in Connection
  PROVE  /\ [c EXCEPT !.begun = TRUE] \in Connection
         /\ \A x \in {"none", "connecting", "open", "closing"} :
              [c EXCEPT !.socket = x] \in Connection
         /\ \A x \in {"none", "connecting", "open", "failed", "closed"} :
              [c EXCEPT !.source = x] \in Connection
         /\ \A x \in {"none", "ws", "sse"} : [c EXCEPT !.token = x] \in Connection
         /\ \A n \in Nat : [c EXCEPT !.timers = n] \in Connection
BY DEF Connection

\* The attempts stay within their bound and the delay is a delay.
LEMMA RearmShape ==
  ASSUME NEW c \in Connection
  PROVE  /\ Rearm(c) \in Connection
         /\ Rearm(c).timers = c.timers + 1
         /\ Rearm(c).begun = c.begun /\ Rearm(c).socket = c.socket
         /\ Rearm(c).stray = c.stray /\ Rearm(c).source = c.source
         /\ Rearm(c).token = c.token
<1>1. c.attempts \in Nat /\ c.attempts <= MaxAttempts /\ c.timers \in Nat /\ MaxAttempts \in Nat
  BY BackoffAssumption DEF Connection
<1> DEFINE a == Lesser(c.attempts + 1, MaxAttempts)
           w == Backoff(c.attempts)
<1>2. a \in 0 .. MaxAttempts
  BY <1>1 DEF Lesser
<1>3. w \in {Backoff(n) : n \in 0 .. MaxAttempts}
  BY <1>1
<1>4. Rearm(c) = [c EXCEPT !.attempts = a, !.wait = w, !.timers = c.timers + 1]
  BY DEF Rearm
<1>5. c.timers + 1 \in Nat
  BY <1>1
<1> HIDE DEF a, w
<1>6. [c EXCEPT !.attempts = a, !.wait = w, !.timers = c.timers + 1] \in Connection
  BY <1>2, <1>3, <1>5 DEF Connection
<1>7. Rearm(c) \in Connection
  BY <1>4, <1>6
<1>8. Rearm(c).timers = c.timers + 1
  BY <1>4 DEF Connection
<1> QED
  BY <1>4, <1>7, <1>8 DEF Connection

\* StartSse on a free connection opens a source or asks for a token for one,
\* unless it was stopped, there are no sources, or the one there was is gone.
LEMMA StartSseSafe ==
  ASSUME NEW c \in Connection, Free(c), NEW quit \in BOOLEAN, setup \in Setup
  PROVE  LET d == StartSse(c, quit)
         IN  /\ d \in Connection
             /\ Exclusive(d)
             /\ d.begun = c.begun
             /\ d.socket = "none"
             /\ quit => d = c
             /\ d.source \in {c.source, "connecting"}
             /\ ~quit /\ setup.es /\ c.source = "none" => Trying(d)
<1>1. CASE c.source # "none" \/ quit \/ ~setup.es
  BY <1>1 DEF StartSse, Free, Exclusive, Connection
<1>2. CASE c.source = "none" /\ ~quit /\ setup.es /\ setup.query
  <2>1. StartSse(c, quit) = [c EXCEPT !.token = "sse"]
    BY <1>2 DEF StartSse
  <2>2. StartSse(c, quit) \in Connection
    BY <2>1, ShapeExcept
  <2> QED
    BY <1>2, <2>1, <2>2 DEF Free, Exclusive, Trying, Connection, Live
<1>3. CASE c.source = "none" /\ ~quit /\ setup.es /\ ~setup.query
  <2>1. StartSse(c, quit) = [c EXCEPT !.source = "connecting"]
    BY <1>3 DEF StartSse, OpenSource
  <2>2. StartSse(c, quit) \in Connection
    BY <2>1, ShapeExcept
  <2> QED
    BY <1>3, <2>1, <2>2 DEF Free, Exclusive, Trying, Connection, Live
<1> QED
  BY <1>1, <1>2, <1>3

-----------------------------------------------------------------------------
\* Opening a socket on a free connection keeps the invariant, whether the socket
\* can be made or SSE has to take over.
LEMMA OpenSocketSafe ==
  ASSUME IInv, NEW c \in Connection, Free(c), c.begun, c.source = conn.source, ~stopped,
         OpenSocket(c), UNCHANGED setup
  PROVE  IInv'
<1> USE DEF IInv
<1>1. CASE /\ conn' = [c EXCEPT !.socket = "connecting",
                                !.stray = IF c.socket \in Live THEN @ + 1 ELSE @]
           /\ UNCHANGED <<stopped, joined, dead>>
  <2>1. conn' = [c EXCEPT !.socket = "connecting", !.stray = 0]
    BY <1>1 DEF Free, Live
  <2>2. conn' \in Connection /\ Exclusive(conn') /\ Trying(conn') /\ conn'.begun
        /\ conn'.source = conn.source /\ conn'.stray = 0 /\ conn'.socket = "connecting"
    <3>1. [c EXCEPT !.socket = "connecting", !.stray = 0] \in Connection
      BY DEF Connection
    <3>2. conn' \in Connection
      BY <2>1, <3>1
    <3>3. /\ conn'.socket = "connecting" /\ conn'.stray = 0
          /\ conn'.begun = c.begun /\ conn'.source = c.source
          /\ conn'.token = c.token /\ conn'.timers = c.timers
      BY <2>1 DEF Connection
    <3> QED
      BY <3>2, <3>3 DEF Free, Exclusive, Trying
  <2> QED
    BY <1>1, <2>2 DEF TypeInv, Fresh, GoneForGood, Tries, StopIsFinal
<1>2. CASE /\ stopped' \in BOOLEAN
           /\ joined' = (joined /\ ~stopped')
           /\ conn' = StartSse(c, stopped')
           /\ dead' = (dead \/ NoStream(stopped'))
  <2>1. LET d == StartSse(c, stopped')
        IN  /\ d \in Connection
            /\ Exclusive(d)
            /\ d.begun = c.begun
            /\ d.socket = "none"
            /\ stopped' => d = c
            /\ d.source \in {c.source, "connecting"}
            /\ ~stopped' /\ setup.es /\ c.source = "none" => Trying(d)
    BY <1>2, StartSseSafe DEF TypeInv
  <2>2. TypeInv'
    BY <1>2, <2>1 DEF TypeInv, NoStream, Setup
  <2>3. Tries'
    <3>1. SUFFICES ASSUME ~stopped', ~dead' PROVE Trying(conn')
      BY DEF Tries
    <3>2. setup.es /\ ~dead
      BY <1>2, <3>1 DEF NoStream
    <3>3. c.source = "none"
      BY <3>2 DEF GoneForGood, Connection, Free, Live
    <3> QED
      BY <1>2, <2>1, <3>1, <3>2, <3>3
  <2>4. GoneForGood' /\ Fresh'
    BY <1>2, <2>1 DEF GoneForGood, Fresh
  <2>5. StopIsFinal'
    BY <1>2, <2>1 DEF StopIsFinal, Free, Live
  <2> QED
    BY <1>2, <2>1, <2>2, <2>3, <2>4, <2>5
<1> QED
  BY <1>1, <1>2 DEF OpenSocket

\* So does connectWs.
LEMMA ConnectWsSafe ==
  ASSUME IInv, NEW c \in Connection, Free(c), c.begun, c.source = conn.source,
         ConnectWs(c), UNCHANGED setup
  PROVE  IInv'
<1> USE DEF IInv
<1>1. CASE stopped /\ conn' = c /\ UNCHANGED <<stopped, joined, dead>>
  BY <1>1 DEF TypeInv, Free, Exclusive, Fresh, StopIsFinal, GoneForGood, Tries, Live
<1>2. CASE /\ ~stopped
           /\ conn' = StartSse(c, FALSE)
           /\ dead' = (dead \/ NoStream(FALSE))
           /\ UNCHANGED <<stopped, joined>>
  <2>1. LET d == StartSse(c, FALSE)
        IN  /\ d \in Connection
            /\ Exclusive(d)
            /\ d.begun = c.begun
            /\ d.source \in {c.source, "connecting"}
            /\ setup.es /\ c.source = "none" => Trying(d)
    BY StartSseSafe DEF TypeInv
  <2>2. TypeInv'
    BY <1>2, <2>1 DEF TypeInv, NoStream, Setup
  <2>3. Tries'
    <3>1. SUFFICES ASSUME ~dead' PROVE Trying(conn')
      BY DEF Tries
    <3>2. setup.es /\ ~dead
      BY <1>2, <3>1 DEF NoStream
    <3>3. c.source = "none"
      BY <3>2, <1>2 DEF GoneForGood, Connection, Free, Live
    <3> QED
      BY <1>2, <2>1, <3>2, <3>3
  <2> QED
    BY <1>2, <2>1, <2>2, <2>3 DEF GoneForGood, Fresh, StopIsFinal
<1>3. CASE ~stopped /\ conn' = [c EXCEPT !.token = "ws"] /\ UNCHANGED <<stopped, joined, dead>>
  <2>1. conn' \in Connection /\ Exclusive(conn') /\ Trying(conn') /\ conn'.begun
        /\ conn'.source = conn.source
    <3>1. [c EXCEPT !.token = "ws"] \in Connection
      BY ShapeExcept
    <3>2. conn' \in Connection
      BY <1>3, <3>1
    <3>3. /\ conn'.token = "ws" /\ conn'.begun = c.begun /\ conn'.source = c.source
          /\ conn'.socket = c.socket /\ conn'.stray = c.stray /\ conn'.timers = c.timers
      BY <1>3 DEF Connection
    <3> QED
      BY <3>2, <3>3 DEF Free, Exclusive, Trying
  <2> QED
    BY <1>3, <2>1 DEF TypeInv, Fresh, GoneForGood, Tries, StopIsFinal
<1>4. CASE ~stopped /\ OpenSocket(c)
  BY <1>4, OpenSocketSafe
<1> QED
  BY <1>1, <1>2, <1>3, <1>4 DEF ConnectWs

\* A reconnect that is scheduled when nothing is under way.
LEMMA ScheduleSafe ==
  ASSUME IInv, NEW c \in Connection, Free(c), c.begun, c.source = conn.source,
         ScheduleReconnect(c), UNCHANGED <<setup, dead>>
  PROVE  IInv'
<1> USE DEF IInv
<1>1. CASE stopped /\ conn' = c /\ UNCHANGED <<stopped, joined>>
  BY <1>1 DEF TypeInv, Free, Exclusive, Fresh, StopIsFinal, GoneForGood, Tries, Live
<1>2. CASE ~stopped /\ stopped' \in BOOLEAN /\ joined' = (joined /\ ~stopped') /\ conn' = Rearm(c)
  <2>1. /\ conn' \in Connection /\ conn'.timers = 1 /\ conn'.begun /\ conn'.socket = "none"
        /\ conn'.stray = 0 /\ conn'.source = conn.source /\ conn'.token = "none"
    BY <1>2, RearmShape DEF Free
  <2> QED
    BY <1>2, <2>1 DEF TypeInv, Free, Exclusive, Fresh, StopIsFinal, GoneForGood, Tries, Trying, Live
<1> QED
  BY <1>1, <1>2 DEF ScheduleReconnect

-----------------------------------------------------------------------------
(* The steps.                                                                *)

\* Whoever has something under way was connected once.
LEMMA UnderWay ==
  ASSUME IInv, Trying(conn) PROVE conn.begun
BY DEF IInv, Fresh, Free, Trying

\* The first connectWs.
LEMMA BeginSafe == ASSUME IInv, Begin PROVE IInv'
<1> DEFINE c == [conn EXCEPT !.begun = TRUE]
<1>1. c \in Connection
  BY ShapeExcept DEF IInv, TypeInv
<1>2. Free(c) /\ c.begun /\ c.source = conn.source
  BY DEF IInv, TypeInv, Begin, Fresh, Free, Connection
<1>3. ConnectWs(c) /\ UNCHANGED setup
  BY DEF Begin
<1> HIDE DEF c
<1> QED
  BY <1>1, <1>2, <1>3, ConnectWsSafe

\* A token that arrives lets at most one stream begin, and none after stop.
LEMMA TokenGivenSafe == ASSUME IInv, TokenGiven PROVE IInv'
<1> DEFINE c == [conn EXCEPT !.token = "none"]
<1>1. conn \in Connection /\ conn.token # "none" /\ conn.begun /\ UNCHANGED setup
  BY UnderWay DEF IInv, TypeInv, TokenGiven, Trying
<1>2. c \in Connection
  BY <1>1, ShapeExcept
<1>3. /\ c.begun /\ c.source = conn.source /\ c.socket = conn.socket /\ c.stray = conn.stray
      /\ c.timers = conn.timers /\ c.token = "none"
  BY <1>1 DEF Connection
<1>4. Free(c)
  BY <1>1, <1>3 DEF IInv, Exclusive, Free, Connection
<1>5. \/ conn' = OpenSource(c, stopped) /\ UNCHANGED <<stopped, joined, dead>>
      \/ stopped /\ conn' = c /\ UNCHANGED <<stopped, joined, dead>>
      \/ ~stopped /\ OpenSocket(c)
  BY <1>1 DEF TokenGiven, Connection
<1> HIDE DEF c
<1>6. CASE conn' = c /\ UNCHANGED <<stopped, joined, dead>> /\ (stopped \/ dead)
  BY <1>1, <1>2, <1>3, <1>4, <1>6
     DEF IInv, TypeInv, Free, Exclusive, Fresh, StopIsFinal, GoneForGood, Tries, Live
<1>7. CASE conn' = [c EXCEPT !.source = "connecting"] /\ UNCHANGED <<stopped, joined, dead>>
           /\ ~stopped
  <2>1. [c EXCEPT !.source = "connecting"] \in Connection
    BY <1>2, ShapeExcept
  <2>2. conn' \in Connection
    BY <1>7, <2>1
  <2>3. /\ conn'.source = "connecting" /\ conn'.begun = c.begun /\ conn'.token = c.token
        /\ conn'.socket = c.socket /\ conn'.stray = c.stray /\ conn'.timers = c.timers
    BY <1>2, <1>7 DEF Connection
  <2> QED
    BY <1>1, <1>3, <1>4, <1>7, <2>2, <2>3
       DEF IInv, TypeInv, Free, Exclusive, Fresh, StopIsFinal, GoneForGood, Tries, Trying, Live
<1>8. CASE ~stopped /\ OpenSocket(c)
  BY <1>1, <1>2, <1>3, <1>4, <1>8, OpenSocketSafe
<1>9. c.source = "none" \/ stopped \/ dead
  BY <1>2, <1>3, <1>4 DEF IInv, GoneForGood, Free, Connection, Live
<1> QED
  BY <1>5, <1>6, <1>7, <1>8, <1>9 DEF OpenSource

\* A token that fails leaves nothing under way, which "dead" records.
LEMMA TokenFailsSafe == ASSUME IInv, TokenFails PROVE IInv'
<1>1. [conn EXCEPT !.token = "none"] \in Connection
  BY ShapeExcept DEF IInv, TypeInv
<1>2. conn' \in Connection
  BY <1>1 DEF TokenFails
<1>3. /\ conn'.source = conn.source /\ conn'.begun = conn.begun /\ conn'.token = "none"
      /\ conn'.socket = conn.socket /\ conn'.stray = conn.stray /\ conn'.timers = conn.timers
  BY DEF TokenFails, IInv, TypeInv, Connection
<1> QED
  BY <1>2, <1>3 DEF TokenFails, IInv, TypeInv, Exclusive, Fresh, Free, StopIsFinal,
     GoneForGood, Tries

\* The one socket opens.
LEMMA SocketOpensSafe == ASSUME IInv, SocketOpens PROVE IInv'
<1>0. conn \in Connection /\ 0 \in 0 .. MaxAttempts
  BY BackoffAssumption DEF IInv, TypeInv
<1>1. [conn EXCEPT !.socket = "open", !.attempts = 0] \in Connection
  BY <1>0 DEF Connection
<1>2. conn' \in Connection
  BY <1>1 DEF SocketOpens, Opened
<1>3. /\ conn'.source = conn.source /\ conn'.begun = conn.begun /\ conn'.token = conn.token
      /\ conn'.socket = "open" /\ conn'.stray = conn.stray /\ conn'.timers = conn.timers
  BY DEF SocketOpens, Opened, IInv, TypeInv, Connection
<1>4. conn.socket = "connecting" /\ UNCHANGED <<setup, stopped, joined, dead>>
  BY DEF SocketOpens
<1>5. ~stopped /\ conn.begun
  BY <1>4, UnderWay DEF IInv, StopIsFinal, Live, Trying
<1>6. Exclusive(conn')
  BY <1>3, <1>4 DEF IInv, Exclusive
<1> QED
  BY <1>2, <1>3, <1>4, <1>5, <1>6 DEF IInv, TypeInv, Fresh, StopIsFinal, GoneForGood,
     Tries, Trying

\* A socket that closes is the only thing under way, so one timer replaces it.
LEMMA SocketClosesSafe == ASSUME IInv, SocketCloses PROVE IInv'
<1> DEFINE c == [conn EXCEPT !.socket = "none"]
<1>1. conn \in Connection /\ conn.socket # "none" /\ conn.begun
  BY UnderWay DEF IInv, TypeInv, SocketCloses, Trying
<1>2. c \in Connection
  BY <1>1, ShapeExcept
<1>3. /\ c.begun /\ c.source = conn.source /\ c.socket = "none" /\ c.stray = conn.stray
      /\ c.timers = conn.timers /\ c.token = conn.token
  BY <1>1 DEF Connection
<1>4. Free(c)
  BY <1>1, <1>3 DEF IInv, Exclusive, Free
<1>5. ScheduleReconnect(c) /\ UNCHANGED <<setup, dead>>
  BY DEF SocketCloses
<1> HIDE DEF c
<1> QED
  BY <1>2, <1>3, <1>4, <1>5, ScheduleSafe

\* A timer that fires is used up before its connection begins.
LEMMA TimerFiresSafe == ASSUME IInv, TimerFires PROVE IInv'
<1> DEFINE n == conn.timers - 1
           c == [conn EXCEPT !.timers = n]
<1>1. conn \in Connection /\ conn.timers = 1 /\ n = 0 /\ conn.begun
  BY UnderWay DEF IInv, TypeInv, Exclusive, TimerFires, Trying, Connection
<1>2. c \in Connection
  BY <1>1, ShapeExcept
<1>3. /\ c.begun /\ c.source = conn.source /\ c.socket = conn.socket /\ c.stray = conn.stray
      /\ c.timers = 0 /\ c.token = conn.token
  BY <1>1 DEF Connection
<1>4. Free(c)
  BY <1>1, <1>3 DEF IInv, Exclusive, Free
<1>5. ConnectWs(c) /\ UNCHANGED setup
  BY DEF TimerFires
<1> HIDE DEF c
<1> QED
  BY <1>2, <1>3, <1>4, <1>5, ConnectWsSafe

\* The source moves to x, for good if it fails.
LEMMA SourceMoves ==
  ASSUME IInv, NEW x \in {"open", "connecting", "failed"},
         conn.source \in Live, conn' = [conn EXCEPT !.source = x],
         dead' \in BOOLEAN, dead => dead', x = "failed" => dead',
         UNCHANGED <<setup, stopped, joined>>
  PROVE  IInv'
<1>3. [conn EXCEPT !.source = x] \in Connection
  BY ShapeExcept DEF IInv, TypeInv
<1>4. conn' \in Connection
  BY <1>3
<1>5. /\ conn'.source = x /\ conn'.begun = conn.begun /\ conn'.token = conn.token
      /\ conn'.socket = conn.socket /\ conn'.stray = conn.stray /\ conn'.timers = conn.timers
  BY DEF IInv, TypeInv, Connection
<1>6. ~stopped /\ conn.begun
  BY UnderWay DEF IInv, StopIsFinal, Trying
<1>7. Exclusive(conn')
  BY <1>5 DEF IInv, Exclusive
<1>8. Tries'
  BY <1>5 DEF Tries, Trying, Live
<1> QED
  BY <1>4, <1>5, <1>6, <1>7, <1>8 DEF IInv, TypeInv, Fresh, StopIsFinal, GoneForGood

\* What happens to an EventSource.
LEMMA SourceSafe ==
  ASSUME IInv, SourceOpens \/ SourceDrops \/ SourceFails
  PROVE  IInv'
<1>1. {stopped, joined, dead} \subseteq BOOLEAN
  BY DEF IInv, TypeInv
<1>2. CASE SourceOpens
  BY <1>1, <1>2, SourceMoves DEF SourceOpens, Live
<1>3. CASE SourceDrops
  BY <1>1, <1>3, SourceMoves DEF SourceDrops
<1>4. CASE SourceFails
  BY <1>1, <1>4, SourceMoves DEF SourceFails
<1> QED
  BY <1>2, <1>3, <1>4

\* After stop nothing referenced is live, and the invariant says nothing else is.
LEMMA StopSafe == ASSUME IInv, Stop PROVE IInv'
<1> DEFINE x == IF conn.socket \in Live THEN "closing" ELSE conn.socket
           y == IF conn.source \in Live THEN "closed" ELSE conn.source
           n == IF conn.timers > 0 THEN conn.timers - 1 ELSE conn.timers
<1>1. /\ x \in {"none", "connecting", "open", "closing"} \ Live
      /\ y \in {"none", "connecting", "open", "failed", "closed"} \ Live
      /\ n = 0
      /\ x # "none" => conn.socket # "none"
  BY DEF IInv, TypeInv, Connection, Live, Exclusive
<1>2. conn' = [conn EXCEPT !.socket = x, !.source = y, !.timers = n]
  BY DEF Stop, Closed
<1>3. y = "failed" => dead
  BY DEF IInv, GoneForGood
<1> HIDE DEF x, y, n
<1>4. [conn EXCEPT !.socket = x, !.source = y, !.timers = n] \in Connection
  BY <1>1 DEF IInv, TypeInv, Connection
<1>5. conn' \in Connection
  BY <1>2, <1>4
<1>6. /\ conn'.source = y /\ conn'.begun = conn.begun /\ conn'.token = conn.token
      /\ conn'.socket = x /\ conn'.stray = conn.stray /\ conn'.timers = n
  BY <1>2 DEF IInv, TypeInv, Connection
<1>7. /\ UNCHANGED <<setup, dead>>
      /\ stopped' = TRUE /\ joined' = FALSE
      /\ conn.begun
      /\ {stopped, joined, dead} \subseteq BOOLEAN /\ setup \in Setup
      /\ Exclusive(conn)
  BY DEF Stop, IInv, TypeInv
<1>8. Exclusive(conn')
  BY <1>1, <1>6, <1>7 DEF Exclusive
<1>9. StopIsFinal' /\ Fresh' /\ Tries'
  BY <1>1, <1>6, <1>7 DEF StopIsFinal, Fresh, Tries, Exclusive
<1>10. GoneForGood' /\ TypeInv'
  BY <1>3, <1>5, <1>6, <1>7 DEF GoneForGood, TypeInv
<1> QED
  BY <1>8, <1>9, <1>10 DEF IInv

\* A step that leaves the connection alone: the channel joins only before stop.
LEMMA ElsewhereSafe ==
  ASSUME IInv, UNCHANGED <<setup, conn, stopped, dead>>, joined' \in BOOLEAN,
         stopped => ~joined'
  PROVE  IInv'
BY DEF IInv, TypeInv, Fresh, StopIsFinal, GoneForGood, Tries

\* The invariant holds initially.
LEMMA InitSafe == Init => IInv
<1> SUFFICES ASSUME Init PROVE IInv
  OBVIOUS
<1> DEFINE c == [begun |-> FALSE, socket |-> "none", stray |-> 0, source |-> "none",
                  token |-> "none", timers |-> 0, wait |-> 0, attempts |-> 0]
<1>1. c \in Connection
  BY BackoffAssumption DEF Connection
<1>2. conn = c
  BY DEF Init
<1>3. Exclusive(conn) /\ Fresh /\ GoneForGood /\ Tries
  BY <1>2 DEF Init, Exclusive, Fresh, Free, GoneForGood, Tries, Live
<1>4. StopIsFinal /\ TypeInv
  BY <1>1, <1>2 DEF Init, StopIsFinal, TypeInv
<1> QED
  BY <1>3, <1>4 DEF IInv

\* Every step keeps it: one case per action.
LEMMA SafeStep == IInv /\ [Next]_vars => IInv'
<1> SUFFICES ASSUME IInv, [Next]_vars PROVE IInv'
  OBVIOUS
<1>1. CASE SocketErrors
  BY <1>1, ElsewhereSafe DEF SocketErrors, OnError, IInv, TypeInv, StopIsFinal
<1>2. CASE Subscribes
  BY <1>2, ElsewhereSafe DEF Subscribes
<1>3. CASE Unsubscribes
  BY <1>3, ElsewhereSafe DEF Unsubscribes
<1>4. CASE Queues \/ UNCHANGED vars
  BY <1>4, ElsewhereSafe DEF Queues, vars, IInv, TypeInv, StopIsFinal
<1>5. CASE Begin
  BY <1>5, BeginSafe
<1>6. CASE TokenGiven
  BY <1>6, TokenGivenSafe
<1>7. CASE TokenFails
  BY <1>7, TokenFailsSafe
<1>8. CASE SocketOpens
  BY <1>8, SocketOpensSafe
<1>9. CASE SocketCloses
  BY <1>9, SocketClosesSafe
<1>10. CASE TimerFires
  BY <1>10, TimerFiresSafe
<1>11. CASE SourceOpens \/ SourceDrops \/ SourceFails
  BY <1>11, SourceSafe
<1>12. CASE Stop
  BY <1>12, StopSafe
<1> QED
  BY <1>1, <1>2, <1>3, <1>4, <1>5, <1>6, <1>7, <1>8, <1>9, <1>10, <1>11, <1>12 DEF Next

\* The invariant holds in every behaviour.
LEMMA Inductive == Spec => []IInv
BY InitSafe, SafeStep, PTL DEF Spec

\* After stop() nothing is open or being opened, in any order of timers, token
\* promises, socket and stream events, and whatever the status handlers do.
THEOREM StopHolds == Spec => []StopIsFinal
BY Inductive, PTL DEF IInv

\* There is never a second stream nor a second attempt at one.
THEOREM StreamsExclude == Spec => []OneStream
<1>1. IInv => OneStream
  <2> SUFFICES ASSUME IInv PROVE OneStream
    OBVIOUS
  <2>1. Exclusive(conn)
    BY DEF IInv
  <2>2. /\ "socket" \in Holding => conn.socket # "none"
        /\ "timer" \in Holding => conn.timers > 0
        /\ "token" \in Holding => conn.token # "none"
        /\ "source" \in Holding => conn.source \in Live
    BY DEF Holding
  <2>3. Holding \subseteq {"socket", "timer", "token", "source"}
    BY DEF Holding
  <2>4. conn.timers \in Nat
    BY DEF IInv, TypeInv, Connection
  <2> HIDE DEF Holding
  <2>5. \A x, y \in Holding : x = y
    BY <2>1, <2>2, <2>3, <2>4 DEF Exclusive
  <2> QED
    BY <2>1, <2>5 DEF OneStream, Exclusive
<1> QED
  BY <1>1, Inductive, PTL

\* Unless something external failed for good, a connection that was not stopped
\* has a stream or an attempt under way: no loss is left without a reconnect.
THEOREM NeverGivesUp == Spec => []KeepsTrying
<1>1. IInv => KeepsTrying
  BY DEF IInv, Tries, Trying, KeepsTrying, Holding
<1> QED
  BY <1>1, Inductive, PTL

\* What waits to be sent is no concern of the connection.
WaitingTyped == waiting \in BOOLEAN

\* It is set and cleared, no more.
LEMMA WaitingStep == WaitingTyped /\ [Next]_vars => WaitingTyped'
BY DEF WaitingTyped, Next, Begin, TokenGiven, TokenFails, SocketOpens, Flushed, SocketErrors, SocketCloses,
       TimerFires, SourceOpens, SourceDrops, SourceFails, Subscribes, Unsubscribes, Queues, Stop,
       vars

\* The state keeps its type, for every delay, bound and fault: timers never go
\* below none, and what a timer waits is a delay of the back-off.
THEOREM ConnectionTyped == Spec => []TypeOK
<1>1. Init => WaitingTyped
  BY DEF Init, WaitingTyped
<1>2. IInv /\ WaitingTyped => TypeOK
  BY DEF WaitingTyped, IInv, TypeInv, TypeOK
<1> QED
  BY <1>1, <1>2, WaitingStep, Inductive, PTL DEF Spec

-----------------------------------------------------------------------------
(* The delay after an open.                                                  *)

OpenIsFresh == conn.socket = "open" => conn.attempts = 0

\* Starting an SSE stream leaves the socket and the counter alone.
LEMMA StartSseFresh ==
  ASSUME NEW c \in Connection, NEW quit
  PROVE  /\ OpenSource(c, quit).socket = c.socket /\ OpenSource(c, quit).attempts = c.attempts
         /\ StartSse(c, quit).socket = c.socket /\ StartSse(c, quit).attempts = c.attempts
<1>1. \A x : [c EXCEPT !.source = x].socket = c.socket /\ [c EXCEPT !.source = x].attempts = c.attempts
  BY DEF Connection
<1>2. \A x : [c EXCEPT !.token = x].socket = c.socket /\ [c EXCEPT !.token = x].attempts = c.attempts
  BY DEF Connection
<1> QED
  BY <1>1, <1>2 DEF StartSse, OpenSource

\* Opening a socket does not open it yet.
LEMMA ConnectFresh ==
  ASSUME NEW c \in Connection, c.socket = "open" => c.attempts = 0,
         OpenSocket(c) \/ ConnectWs(c)
  PROVE  OpenIsFresh'
<1>1. \A y : [c EXCEPT !.socket = "connecting", !.stray = y].socket = "connecting"
  BY DEF Connection
<1>2. \A x : [c EXCEPT !.token = x].socket = c.socket /\ [c EXCEPT !.token = x].attempts = c.attempts
  BY DEF Connection
<1>3. ASSUME NEW quit, conn' = StartSse(c, quit) PROVE OpenIsFresh'
  BY <1>3, StartSseFresh DEF OpenIsFresh
<1>4. CASE OpenSocket(c)
  <2>1. \/ \E y : conn' = [c EXCEPT !.socket = "connecting", !.stray = y]
        \/ \E quit : conn' = StartSse(c, quit)
    BY <1>4 DEF OpenSocket
  <2> QED
    BY <1>1, <1>3, <2>1 DEF OpenIsFresh
<1>5. CASE ConnectWs(c)
  <2>1. \/ conn' = c
        \/ conn' = [c EXCEPT !.token = "ws"]
        \/ conn' = StartSse(c, FALSE)
        \/ OpenSocket(c)
    BY <1>5 DEF ConnectWs
  <2> QED
    BY <1>2, <1>3, <1>4, <2>1 DEF OpenIsFresh
<1> QED
  BY <1>4, <1>5

\* A reconnect is only counted when the socket is gone.
LEMMA FreshStep == IInv /\ OpenIsFresh /\ [Next]_vars => OpenIsFresh'
<1> SUFFICES ASSUME IInv, OpenIsFresh, [Next]_vars PROVE OpenIsFresh'
  OBVIOUS
<1>0. conn \in Connection
  BY DEF IInv, TypeInv
<1>1. CASE Begin
  <2> DEFINE c == [conn EXCEPT !.begun = TRUE]
  <2>1. c \in Connection
    BY <1>0, ShapeExcept
  <2>2. c.socket = conn.socket /\ c.attempts = conn.attempts
    BY <1>0 DEF Connection
  <2>3. ConnectWs(c)
    BY <1>1 DEF Begin
  <2> HIDE DEF c
  <2> QED
    BY <2>1, <2>2, <2>3, ConnectFresh DEF OpenIsFresh
<1>2. CASE TokenGiven
  <2> DEFINE c == [conn EXCEPT !.token = "none"]
  <2>1. c \in Connection
    BY <1>0, ShapeExcept
  <2>2. c.socket = conn.socket /\ c.attempts = conn.attempts
    BY <1>0 DEF Connection
  <2>3. conn' = OpenSource(c, stopped) \/ conn' = c \/ OpenSocket(c)
    BY <1>0, <1>2 DEF TokenGiven, Connection
  <2> HIDE DEF c
  <2> QED
    BY <2>1, <2>2, <2>3, StartSseFresh, ConnectFresh DEF OpenIsFresh
<1>3. CASE TimerFires
  <2> DEFINE n == conn.timers - 1
             c == [conn EXCEPT !.timers = n]
  <2>1. n \in Nat
    BY <1>0, <1>3 DEF TimerFires, Connection
  <2>2. c \in Connection
    BY <1>0, <2>1, ShapeExcept
  <2>3. c.socket = conn.socket /\ c.attempts = conn.attempts
    BY <1>0 DEF Connection
  <2>4. ConnectWs(c)
    BY <1>3 DEF TimerFires
  <2> HIDE DEF c
  <2> QED
    BY <2>2, <2>3, <2>4, ConnectFresh DEF OpenIsFresh
<1>4. CASE SocketOpens
  BY <1>0, <1>4 DEF SocketOpens, Opened, OpenIsFresh, Connection
<1>5. CASE SocketCloses
  <2> DEFINE c == [conn EXCEPT !.socket = "none"]
  <2>1. c \in Connection
    BY <1>0, ShapeExcept
  <2>2. c.socket = "none"
    BY <1>0 DEF Connection
  <2>3. conn' = c \/ conn' = Rearm(c)
    BY <1>5 DEF SocketCloses, ScheduleReconnect
  <2> HIDE DEF c
  <2> QED
    BY <2>1, <2>2, <2>3, RearmShape DEF OpenIsFresh
<1>6. CASE \/ TokenFails \/ SourceOpens \/ SourceDrops \/ SourceFails
  BY <1>0, <1>6 DEF TokenFails, SourceOpens, SourceDrops, SourceFails, OpenIsFresh, Connection
<1>7. CASE Stop
  <2>1. conn'.socket = IF conn.socket \in Live THEN "closing" ELSE conn.socket
    BY <1>0, <1>7 DEF Stop, Closed, Connection
  <2> QED
    BY <2>1 DEF OpenIsFresh, Live
<1>8. CASE UNCHANGED conn
  BY <1>8 DEF OpenIsFresh
<1> QED
  BY <1>1, <1>2, <1>3, <1>4, <1>5, <1>6, <1>7, <1>8
     DEF Next, SocketErrors, OnError, Subscribes, Unsubscribes, Queues, vars

\* After a connection that was open, the first reconnect waits the base delay,
\* however long the outage before it was, and whatever else happens while it is open.
THEOREM BackoffIsFresh == Spec => FreshBackoff
<1> DEFINE Waits ==
      conn.socket = "open" /\ SocketCloses /\ ~stopped
        => conn'.wait = Lesser(MaxBackoff, BaseBackoff)
<1>1. IInv /\ OpenIsFresh /\ [Next]_vars => [Waits]_vars
  <2> SUFFICES ASSUME IInv, conn.socket = "open", conn.attempts = 0, SocketCloses, ~stopped
               PROVE  conn'.wait = Lesser(MaxBackoff, BaseBackoff)
    BY DEF OpenIsFresh
  <2> DEFINE c == [conn EXCEPT !.socket = "none"]
  <2>1. c \in Connection
    BY ShapeExcept DEF IInv, TypeInv
  <2>2. c.attempts = 0
    BY DEF IInv, TypeInv, Connection
  <2>3. conn' = Rearm(c)
    BY DEF SocketCloses, ScheduleReconnect
  <2> HIDE DEF c
  <2>4. conn'.wait = Backoff(0)
    BY <2>1, <2>2, <2>3 DEF Rearm, Connection
  <2>5. BaseBackoff * 2 ^ 0 = BaseBackoff
    BY BackoffAssumption
  <2> QED
    BY <2>4, <2>5 DEF Backoff
<1>2. Init => OpenIsFresh
  BY DEF Init, OpenIsFresh
<1>3. Spec => [](IInv /\ OpenIsFresh)
  BY <1>2, FreshStep, Inductive, PTL DEF Spec
<1> QED
  BY <1>1, <1>3, PTL DEF Spec, FreshBackoff

=============================================================================
