----------------------------- MODULE Connections -----------------------------
(***************************************************************************)
(* The streams startSync keeps open: connectBackend (transports/backend.mjs) *)
(* with its WebSocket, SSE fallback, back-off timer and token provider, the   *)
(* Supabase channel (transports/supabase.mjs), and what the status handlers   *)
(* of start.mjs do when one of them connects.                                *)
(*                                                                         *)
(* Each action is one task of the browser's event loop: a socket, timer or    *)
(* stream event, the settling of a token promise, or a call by the            *)
(* application.  The functions of backend.mjs call each other within a task:   *)
(* here they map a connection to the connections they may leave.  Sockets,    *)
(* streams, tokens and the channel are external and may fail at any time.     *)
(***************************************************************************)
EXTENDS Integers

CONSTANTS
  BaseBackoff,  \* baseBackoffMs
  MaxBackoff,   \* maxBackoffMs
  MaxAttempts,  \* bound: where the attempts counter stops being told apart
  Faults        \* which external parts may fail for good

\* Beyond MaxAttempts the delay is capped, so the bound loses nothing.
ASSUME BackoffAssumption ==
  /\ BaseBackoff \in Nat \ {0}
  /\ MaxBackoff \in Nat \ {0}
  /\ MaxAttempts \in Nat
  /\ BaseBackoff * 2 ^ MaxAttempts >= MaxBackoff
  /\ Faults \subseteq {"token", "socket", "source"}

VARIABLES
  setup,      \* what the browser and the configuration offer; fixed
  conn,       \* the variables of connectBackend and the streams they hold
  stopped,    \* stop() was called
  joined,     \* the Supabase channel is subscribed
  waiting,    \* a queued write that no flush has taken up since
  dead        \* history: an external failure that nothing retries

vars == <<setup, conn, stopped, joined, waiting, dead>>

Lesser(a, b) == IF a <= b THEN a ELSE b

\* The delay before a reconnect, after n others since the last open.
Backoff(n) == Lesser(MaxBackoff, BaseBackoff * 2 ^ n)

\* query: streamAuth is "query-token"; ws, es: WebSocket and EventSource exist.
Setup == [query: BOOLEAN, ws: BOOLEAN, es: BOOLEAN]

Connection ==
  [begun: BOOLEAN,                                  \* connectWs was called
   socket: {"none", "connecting", "open", "closing"},
   stray: Nat,                   \* live sockets that nothing refers to any more
   source: {"none", "connecting", "open", "failed", "closed"},
   token: {"none", "ws", "sse"}, \* the stream a token is being resolved for
   timers: Nat,                  \* armed reconnect timers
   wait: {0} \cup {Backoff(n) : n \in 0 .. MaxAttempts},
                                 \* the latest one's delay, without its jitter
   attempts: 0 .. MaxAttempts]   \* reconnects since the last open

TypeOK ==
  /\ setup \in Setup
  /\ conn \in Connection
  /\ {stopped, joined, waiting, dead} \subseteq BOOLEAN

Init ==
  /\ setup \in Setup
  /\ conn = [begun |-> FALSE, socket |-> "none", stray |-> 0, source |-> "none",
             token |-> "none", timers |-> 0, wait |-> 0, attempts |-> 0]
  /\ stopped = FALSE
  /\ joined = FALSE
  /\ waiting = FALSE
  /\ dead = FALSE

Live == {"connecting", "open"}

-----------------------------------------------------------------------------
(* Opening a stream.  quit: stop() was called, maybe in the status handler     *)
(* that ran last.                                                           *)

\* Fault: a token that comes in after stop() still opens its stream.
OpenSourceFault(c, quit) == [c EXCEPT !.source = "connecting"]

OpenSource(c, quit) ==
  IF c.source # "none" \/ quit THEN c ELSE [c EXCEPT !.source = "connecting"]

StartSse(c, quit) ==
  IF c.source # "none" \/ quit \/ ~setup.es THEN c
  ELSE IF setup.query THEN [c EXCEPT !.token = "sse"]
  ELSE OpenSource(c, quit)

\* Neither kind of stream exists: "closed" is reported and nothing follows.
NoStream(quit) == ~setup.es /\ ~quit

\* new WebSocket; when it throws, SSE takes over.
OpenSocket(c) ==
  \/ /\ conn' = [c EXCEPT !.socket = "connecting",
                          !.stray = IF c.socket \in Live THEN @ + 1 ELSE @]
     /\ UNCHANGED <<stopped, joined, dead>>
  \/ /\ "socket" \in Faults
     /\ stopped' \in BOOLEAN
     /\ joined' = (joined /\ ~stopped')
     /\ conn' = StartSse(c, stopped')
     /\ dead' = (dead \/ NoStream(stopped'))

ConnectWs(c) ==
  \/ /\ stopped
     /\ conn' = c
     /\ UNCHANGED <<stopped, joined, dead>>
  \/ /\ ~stopped /\ ~setup.ws
     /\ conn' = StartSse(c, FALSE)
     /\ dead' = (dead \/ NoStream(FALSE))
     /\ UNCHANGED <<stopped, joined>>
  \/ /\ ~stopped /\ setup.ws /\ setup.query
     /\ conn' = [c EXCEPT !.token = "ws"]
     /\ UNCHANGED <<stopped, joined, dead>>
  \/ /\ ~stopped /\ setup.ws /\ ~setup.query
     /\ OpenSocket(c)

\* connectBackend: the first call.
Begin ==
  /\ ~conn.begun
  /\ ConnectWs([conn EXCEPT !.begun = TRUE])
  /\ UNCHANGED <<setup, waiting>>

\* The token provider answers, and withStreamAuth goes on to the stream.
TokenGiven ==
  /\ conn.token # "none"
  /\ LET c == [conn EXCEPT !.token = "none"]
     IN  CASE conn.token = "sse" ->
                conn' = OpenSource(c, stopped) /\ UNCHANGED <<stopped, joined, dead>>
           [] conn.token = "ws" /\ stopped ->
                conn' = c /\ UNCHANGED <<stopped, joined, dead>>
           [] OTHER -> OpenSocket(c)
  /\ UNCHANGED <<setup, waiting>>

\* It rejects or has none: "auth-error" is reported and nothing follows.
TokenFails ==
  /\ "token" \in Faults
  /\ conn.token # "none"
  /\ conn' = [conn EXCEPT !.token = "none"]
  /\ dead' = TRUE
  /\ UNCHANGED <<setup, stopped, joined, waiting>>

-----------------------------------------------------------------------------
(* The WebSocket and its timer.                                              *)

\* Fault: the connection gives up when the delay has reached its cap.
RearmFault(c) ==
  IF c.attempts = MaxAttempts THEN c
  ELSE [c EXCEPT !.attempts = @ + 1, !.wait = Backoff(c.attempts), !.timers = @ + 1]

Rearm(c) ==
  [c EXCEPT !.attempts = Lesser(@ + 1, MaxAttempts),
            !.wait = Backoff(c.attempts), !.timers = @ + 1]

\* The application may call stop() when "reconnecting" is reported, before the
\* timer is armed.
ScheduleReconnect(c) ==
  \/ /\ stopped
     /\ conn' = c
     /\ UNCHANGED <<stopped, joined>>
  \/ /\ ~stopped
     /\ stopped' \in BOOLEAN
     /\ joined' = (joined /\ ~stopped')
     /\ conn' = Rearm(c)

\* Fault: a new connection does not start over with the short delay.
OpenedFault(c) == [c EXCEPT !.socket = "open"]

Opened(c) == [c EXCEPT !.socket = "open", !.attempts = 0]

\* Fault: an open does not flush.
FlushedFault == waiting

\* What the open handler of startSync's flushQueued leaves waiting.
Flushed == FALSE

SocketOpens ==
  /\ conn.socket = "connecting"
  /\ conn' = Opened(conn)
  /\ waiting' = Flushed
  /\ UNCHANGED <<setup, stopped, joined, dead>>

\* Fault: an error schedules a reconnect, and so does the close after it.
OnErrorFault == ScheduleReconnect(conn)

OnError == UNCHANGED <<conn, stopped, joined>>

SocketErrors ==
  /\ conn.socket \in Live
  /\ OnError
  /\ UNCHANGED <<setup, waiting, dead>>

SocketCloses ==
  /\ conn.socket # "none"
  /\ ScheduleReconnect([conn EXCEPT !.socket = "none"])
  /\ UNCHANGED <<setup, waiting, dead>>

TimerFires ==
  /\ conn.timers > 0
  /\ ConnectWs([conn EXCEPT !.timers = @ - 1])
  /\ UNCHANGED <<setup, waiting>>

-----------------------------------------------------------------------------
(* The EventSource reconnects by itself, unless the answer is fatal.           *)

SourceOpens ==
  /\ conn.source = "connecting"
  /\ conn' = [conn EXCEPT !.source = "open"]
  /\ UNCHANGED <<setup, stopped, joined, waiting, dead>>

SourceDrops ==
  /\ conn.source \in Live
  /\ conn' = [conn EXCEPT !.source = "connecting"]
  /\ UNCHANGED <<setup, stopped, joined, waiting, dead>>

SourceFails ==
  /\ "source" \in Faults
  /\ conn.source \in Live
  /\ conn' = [conn EXCEPT !.source = "failed"]
  /\ dead' = TRUE
  /\ UNCHANGED <<setup, stopped, joined, waiting>>

-----------------------------------------------------------------------------
(* The Supabase channel and the application.                                 *)

\* SUBSCRIBED starts a hydration, but no flush.
Subscribes ==
  /\ conn.begun /\ ~stopped /\ ~joined
  /\ joined' = TRUE
  /\ UNCHANGED <<setup, conn, stopped, waiting, dead>>

Unsubscribes ==
  /\ joined
  /\ joined' = FALSE
  /\ UNCHANGED <<setup, conn, stopped, waiting, dead>>

\* A write is queued, or the send of one failed.
Queues ==
  /\ conn.begun
  /\ waiting' = TRUE
  /\ UNCHANGED <<setup, conn, stopped, joined, dead>>

\* Fault: a timer is cleared whether or not one is armed.
ClosedFault(c) ==
  [c EXCEPT !.socket = IF @ \in Live THEN "closing" ELSE @, !.timers = @ - 1]

\* clearTimeout of the latest timer, close() of the referenced streams.
Closed(c) ==
  [c EXCEPT !.socket = IF @ \in Live THEN "closing" ELSE @,
            !.source = IF @ \in Live THEN "closed" ELSE @,
            !.timers = IF @ > 0 THEN @ - 1 ELSE @]

Stop ==
  /\ conn.begun /\ ~stopped
  /\ stopped' = TRUE
  /\ joined' = FALSE
  /\ conn' = Closed(conn)
  /\ UNCHANGED <<setup, waiting, dead>>

-----------------------------------------------------------------------------
Next ==
  \/ Begin
  \/ TokenGiven
  \/ TokenFails
  \/ SocketOpens
  \/ SocketErrors
  \/ SocketCloses
  \/ TimerFires
  \/ SourceOpens
  \/ SourceDrops
  \/ SourceFails
  \/ Subscribes
  \/ Unsubscribes
  \/ Queues
  \/ Stop

Spec == Init /\ [][Next]_vars

\* Timers fire, promises settle, and a socket being opened opens or closes; the
\* server is not down for ever.
Fairness ==
  /\ WF_vars(Begin)
  /\ WF_vars(TokenGiven \/ TokenFails)
  /\ WF_vars(TimerFires)
  /\ WF_vars(SocketOpens \/ SocketCloses)
  /\ SF_vars(SocketOpens)
  /\ SF_vars(SourceOpens)

FairSpec == Spec /\ Fairness

-----------------------------------------------------------------------------
(* Properties.                                                              *)

\* After stop() no stream is open or being opened, whatever timer, promise or
\* event was still under way (backend.mjs checks stopped after every await, in
\* every timer and before every reconnect).
StopIsFinal ==
  stopped => /\ conn.socket \notin Live
             /\ conn.source \notin Live
             /\ conn.stray = 0
             /\ ~joined

\* What is under way towards a stream, or is one.
Holding ==
  {x \in {"socket", "timer", "token", "source"} :
     CASE x = "socket" -> conn.socket # "none"
       [] x = "timer"  -> conn.timers > 0
       [] x = "token"  -> conn.token # "none"
       [] x = "source" -> conn.source \in Live}

\* There is never a second stream, nor a second attempt at one: a socket that a
\* later one replaced could not be stopped, and would deliver every change twice.
OneStream ==
  /\ conn.stray = 0
  /\ conn.timers <= 1
  /\ \A x, y \in Holding : x = y

\* Unless it was stopped or something external failed for good, the connection
\* always has a stream or an attempt under way.
KeepsTrying == conn.begun /\ ~stopped /\ ~dead => Holding # {}

\* The same with a failure of the token provider held against it
\* (backend.mjs: "WebSocket auto-reconnect with capped exponential backoff").
TokenFailureIsRetried == conn.begun /\ ~stopped => Holding # {}

\* After a connection that was open, the first reconnect waits the base delay,
\* however long the outage before it was.
FreshBackoff ==
  [][conn.socket = "open" /\ SocketCloses /\ ~stopped
       => conn'.wait = Lesser(MaxBackoff, BaseBackoff)]_vars

\* Every stream that connects makes the queued writes go out (start.mjs: "On
\* every (re)connect - WS "open" or Supabase "SUBSCRIBED" - [...] we flush the
\* durable write-queue").
ConnectingFlushes == [][Subscribes \/ SocketOpens => ~waiting']_vars

Over == stopped \/ dead

\* After every loss there is a stream again.
Reconnects == []<>(conn.socket = "open" \/ conn.source = "open" \/ Over)

\* A write that is queued while the socket is away is taken up when it is back;
\* the SSE fallback takes up nothing.
OutageWritesGoOut ==
  (waiting /\ conn.socket = "none") ~> (~waiting \/ Over \/ conn.source \in Live)

=============================================================================
