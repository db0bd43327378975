----------------------------- MODULE HlcProofs -------------------------------
(***************************************************************************)
(* What the hybrid logical clock promises, for any bounds of its wall time and  *)
(* its counter and any jumps of the wall clocks it reads.                     *)
(***************************************************************************)
EXTENDS Hlc, TLAPS

\* Any wall time is clamped into the range, and one in the range is left alone.
LEMMA ClampIsWall ==
  ASSUME MaxWall \in Nat, NEW ms \in Int
  PROVE  ClampWall(ms) \in 0 .. MaxWall /\ (ms \in 0 .. MaxWall => ClampWall(ms) = ms)
BY DEF ClampWall, Larger, Smaller

\* One more on the counter is the next stamp, unless the clock is at its last, which
\* it then repeats.
LEMMA CounterAdvances ==
  ASSUME MaxWall \in Nat, MaxCounter \in Nat, NEW clock \in Clock
  PROVE  /\ Advance(clock.wall, clock.counter + 1) \in Clock
         /\ Advance(clock.wall, clock.counter + 1).wall <= clock.wall + 1
         /\ clock.wall <= Advance(clock.wall, clock.counter + 1).wall
         /\ clock # Last => Before(clock, Advance(clock.wall, clock.counter + 1))
         /\ clock = Last => Advance(clock.wall, clock.counter + 1) = Last
<1>1. clock.wall \in 0 .. MaxWall /\ clock.counter \in 0 .. MaxCounter
  BY DEF Clock
<1>2. CASE clock.counter + 1 <= MaxCounter
  <2>1. Advance(clock.wall, clock.counter + 1) = [wall |-> clock.wall, counter |-> clock.counter + 1]
    BY <1>2 DEF Advance
  <2>2. clock # Last
    BY <1>1, <1>2 DEF Last
  <2> QED
    BY <1>1, <1>2, <2>1, <2>2 DEF Clock, Before
<1>3. CASE ~(clock.counter + 1 <= MaxCounter)
  <2>1. clock.counter = MaxCounter
    BY <1>1, <1>3
  <2>2. CASE clock.wall < MaxWall
    <3>1. ClampWall(clock.wall + 1) = clock.wall + 1
      BY <1>1, <2>2, ClampIsWall
    <3>2. Advance(clock.wall, clock.counter + 1) = [wall |-> clock.wall + 1, counter |-> 0]
      BY <1>1, <1>3, <3>1 DEF Advance
    <3>3. clock # Last
      BY <2>2, <1>1 DEF Last
    <3> QED
      BY <1>1, <2>2, <3>2, <3>3 DEF Clock, Before
  <2>3. CASE clock.wall = MaxWall
    <3>1. ClampWall(clock.wall + 1) = clock.wall
      BY <1>1, <2>3 DEF ClampWall, Larger, Smaller
    <3>2. Advance(clock.wall, clock.counter + 1) = Last
      BY <1>1, <1>3, <2>3, <3>1 DEF Advance, Last
    <3>3. clock = Last
      BY <2>1, <2>3 DEF Last, Clock
    <3> QED
      BY <1>1, <2>3, <3>2, <3>3 DEF Clock, Last
  <2> QED
    BY <1>1, <2>2, <2>3
<1> QED
  BY <1>2, <1>3

\* Stamps of local writes strictly increase whatever the wall clock does, and run
\* ahead of both the clock and the wall time by a millisecond at most.
THEOREM TickAdvances ==
  ASSUME MaxWall \in Nat, MaxCounter \in Nat, NEW clock \in Clock, NEW now \in Int, clock # Last
  PROVE  /\ Tick(clock, now) \in Clock
         /\ Before(clock, Tick(clock, now))
         /\ Tick(clock, now).wall <= Larger(clock.wall + 1, ClampWall(now))
<1>1. ClampWall(now) \in 0 .. MaxWall /\ clock.wall \in 0 .. MaxWall
  BY ClampIsWall DEF Clock
<1>2. CASE clock.wall < ClampWall(now)
  <2>1. Tick(clock, now) = [wall |-> ClampWall(now), counter |-> 0]
    BY <1>2 DEF Tick, Advance
  <2> QED
    BY <1>1, <1>2, <2>1 DEF Clock, Before, Larger
<1>3. CASE ~(clock.wall < ClampWall(now))
  <2>1. Tick(clock, now) = Advance(clock.wall, clock.counter + 1)
    BY <1>3 DEF Tick
  <2>2. /\ Tick(clock, now) \in Clock
        /\ Tick(clock, now).wall <= clock.wall + 1
        /\ Before(clock, Tick(clock, now))
    BY <2>1, CounterAdvances
  <2> QED
    BY <1>1, <2>2 DEF Larger, Clock
<1> QED
  BY <1>2, <1>3

\* The clock's last stamp is where the promise ends: it is issued again for every
\* further write, whatever the wall clock says.
THEOREM LastStampRepeats ==
  ASSUME MaxWall \in Nat, MaxCounter \in Nat, NEW now \in Int
  PROVE  Tick(Last, now) = Last
<1>1. Last \in Clock /\ ~(Last.wall < ClampWall(now))
  BY ClampIsWall DEF Last, Clock
<1> QED
  BY <1>1, CounterAdvances DEF Tick

\* After a remote commit time is observed, the stamp is past the clock's last one
\* and past every stamp a remote commit could have at its counter zero.
THEOREM ObserveAdvances ==
  ASSUME MaxWall \in Nat, MaxCounter \in Nat \ {0},
         NEW clock \in Clock, NEW remote \in Int, NEW now \in Int
  PROVE  /\ Observe(clock, remote, now) \in Clock
         /\ clock # Last => Before(clock, Observe(clock, remote, now))
         /\ Before([wall |-> ClampWall(remote), counter |-> 0], Observe(clock, remote, now))
<1> DEFINE there == ClampWall(remote)
           here == ClampWall(now)
           stamp == Observe(clock, remote, now)
<1>1. there \in 0 .. MaxWall /\ here \in 0 .. MaxWall
  BY ClampIsWall
<1>2. clock.wall \in 0 .. MaxWall /\ clock.counter \in 0 .. MaxCounter
  BY DEF Clock
<1>3. CASE there <= clock.wall /\ here <= clock.wall
  <2>1. stamp = Advance(clock.wall, clock.counter + 1)
    BY <1>1, <1>2, <1>3 DEF Observe, Larger
  <2>2. CASE clock = Last
    <3>1. stamp = Last
      BY <2>1, <2>2, CounterAdvances
    <3> QED
      BY <1>1, <2>2, <3>1 DEF Last, Before, Clock
  <2>3. CASE clock # Last
    <3>1. stamp \in Clock /\ Before(clock, stamp)
      BY <2>1, <2>3, CounterAdvances
    <3> HIDE DEF stamp, there
    <3>2. Before([wall |-> there, counter |-> 0], stamp)
      BY <1>1, <1>2, <1>3, <3>1 DEF Before, Clock
    <3> QED
      BY <3>1, <3>2 DEF stamp, there
  <2> QED
    BY <2>2, <2>3
<1>4. CASE clock.wall < there /\ here <= there
  <2>1. stamp = [wall |-> there, counter |-> 1]
    BY <1>1, <1>2, <1>4 DEF Observe, Larger, Advance
  <2> QED
    BY <1>1, <1>2, <1>4, <2>1 DEF Before, Clock
<1>5. CASE clock.wall < here /\ there < here
  <2>1. stamp = [wall |-> here, counter |-> 0]
    BY <1>1, <1>2, <1>5 DEF Observe, Larger, Advance
  <2> QED
    BY <1>1, <1>2, <1>5, <2>1 DEF Before, Clock
<1> QED
  BY <1>1, <1>2, <1>3, <1>4, <1>5

\* A clock restored from the state that was persisted is the clock itself, so its
\* stamps go on where they stopped.
THEOREM RestoredClockIsTheSame ==
  ASSUME MaxWall \in Nat, MaxCounter \in Nat, NEW clock \in Clock
  PROVE  FromState(clock.wall, clock.counter) = clock
<1>1. clock.wall \in 0 .. MaxWall /\ clock.counter \in 0 .. MaxCounter
  BY DEF Clock
<1>2. FromState(clock.wall, clock.counter) = [wall |-> clock.wall, counter |-> clock.counter]
  BY <1>1 DEF FromState, ClampWall, Larger, Smaller
<1> QED
  BY <1>2 DEF Clock

=============================================================================
