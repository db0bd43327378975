-------------------------------- MODULE Hlc ----------------------------------
(***************************************************************************)
(* The hybrid logical clock (src/hlc.rs, bound in hlc.mjs and hlc.dart): a     *)
(* clock is the last stamp it issued, a wall time in milliseconds and a counter *)
(* within it.  Each operation is a function from a clock and the wall times it  *)
(* reads to the next clock, which is also the stamp it returns.  A wall time is *)
(* any integer: a device's own clock may jump either way, and a remote time is  *)
(* whatever the event says.                                                  *)
(***************************************************************************)
EXTENDS Integers

CONSTANTS
  MaxWall,     \* HLC_MAX_WALL_MS
  MaxCounter   \* HLC_MAX_COUNTER

Clock == [wall: 0 .. MaxWall, counter: 0 .. MaxCounter]
Last == [wall |-> MaxWall, counter |-> MaxCounter]

\* The order of stamps, which their fixed-width encoding shares.
Before(a, b) == a.wall < b.wall \/ (a.wall = b.wall /\ a.counter < b.counter)

Larger(a, b) == IF a < b THEN b ELSE a
Smaller(a, b) == IF a < b THEN a ELSE b
ClampWall(ms) == Smaller(Larger(ms, 0), MaxWall)

FromState(wall, counter) ==
  [wall |-> ClampWall(wall), counter |-> Smaller(Larger(counter, 0), MaxCounter)]

\* A counter that is exhausted rolls the wall forward by a millisecond, except at
\* the largest wall time, where the stamp is the last one again.
Advance(wall, counter) ==
  IF counter <= MaxCounter THEN [wall |-> wall, counter |-> counter]
  ELSE LET rolled == ClampWall(wall + 1)
       IN  [wall |-> rolled, counter |-> IF wall < rolled THEN 0 ELSE MaxCounter]

\* The stamp of a local write.
Tick(clock, now) ==
  IF clock.wall < ClampWall(now) THEN Advance(ClampWall(now), 0)
  ELSE Advance(clock.wall, clock.counter + 1)

\* The stamp after a remote commit time was seen, which carries no counter.
Observe(clock, remote, now) ==
  LET wall == Larger(Larger(clock.wall, ClampWall(remote)), ClampWall(now))
  IN  IF wall = clock.wall THEN Advance(wall, clock.counter + 1)
      ELSE IF wall = ClampWall(remote) THEN Advance(wall, 1)
      ELSE Advance(wall, 0)

=============================================================================
