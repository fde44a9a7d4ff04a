-------------------------- MODULE SystemClockProofs --------------------------
(***************************************************************************)
(* Proofs about the gateway clock, for any number of threads, any          *)
(* resolution of the monotonic clock and any behaviour of the wall clock.  *)
(***************************************************************************)
EXTENDS SystemClock, TLAPS

(* The mutex: at most one thread is inside now_ms().                         *)
Exclusive == \A t, u \in Threads : pc[t] # "idle" /\ pc[u] # "idle" => t = u

(* The thread inside samples an instant not before the last reading's.       *)
SamplesInOrder ==
    \A t \in Threads :
        /\ sample[t].now <= instant
        /\ pc[t] = "sampled" /\ last # Unset => last.at <= sample[t].now

(* The anchor is the highest line, and the last reading lies on it.          *)
AnchorIsBest ==
    /\ last = Unset <=> anchor = Unset
    /\ last # Unset =>
         /\ anchor.started <= last.at
         /\ last.at <= instant
         /\ last.ms = Anchored(anchor, last.at)
         /\ best = anchor.epoch_ms * TicksPerMs - anchor.started

IInv == TypeOK /\ Exclusive /\ SamplesInOrder /\ AnchorIsBest

-----------------------------------------------------------------------------
(* Truncating division, for a divisor that is not a numeral.                 *)
LEMMA DivBounds ==
    ASSUME NEW a \in Nat, NEW k \in Nat \ {0}
    PROVE  a \div k \in Nat /\ (a \div k) * k <= a /\ a < (a \div k) * k + k
  BY SMTT(30)

LEMMA MulCancel ==
    ASSUME NEW q \in Int, NEW r \in Int, NEW k \in Nat \ {0}, q * k < r * k + k
    PROVE  q <= r
  BY SMTT(30)

(* Truncating two durations loses at least as much as truncating their sum.  *)
LEMMA DivSuperadditive ==
    ASSUME NEW a \in Nat, NEW b \in Nat, NEW k \in Nat \ {0}
    PROVE  (a \div k) + (b \div k) <= (a + b) \div k
  <1> DEFINE x == a \div k
  <1> DEFINE y == b \div k
  <1> DEFINE z == (a + b) \div k
  <1>1. x \in Nat /\ x * k <= a
    BY DivBounds
  <1>2. y \in Nat /\ y * k <= b
    BY DivBounds
  <1>3. z \in Nat /\ a + b < z * k + k
    BY DivBounds
  <1> HIDE DEF x, y, z
  <1>4. (x + y) * k = x * k + y * k
    BY <1>1, <1>2
  <1>5. (x + y) * k < z * k + k
    BY <1>1, <1>2, <1>3, <1>4
  <1>6. x + y <= z
    BY <1>1, <1>2, <1>3, <1>5, MulCancel
  <1> QED
    BY <1>6 DEF x, y, z

(* Whole milliseconds move out of a truncation.                              *)
LEMMA DivShift ==
    ASSUME NEW e \in Nat, NEW d \in Nat, NEW k \in Nat \ {0}
    PROVE  (e * k + d) \div k = e + (d \div k)
  <1> DEFINE x == d \div k
  <1> DEFINE z == (e * k + d) \div k
  <1>0. e * k + d \in Nat
    OBVIOUS
  <1>1. x \in Nat /\ x * k <= d /\ d < x * k + k
    BY DivBounds
  <1>2. z \in Nat /\ z * k <= e * k + d /\ e * k + d < z * k + k
    BY <1>0, DivBounds
  <1> HIDE DEF x, z
  <1>3. (e + x) * k = e * k + x * k
    BY <1>1
  <1>4. e * k \in Nat /\ x * k \in Nat /\ z * k \in Nat
    BY <1>1, <1>2
  <1>5. e + x <= z
    <2>1. (e + x) * k < z * k + k
      BY <1>1, <1>2, <1>3, <1>4
    <2> QED
      BY <2>1, <1>1, <1>2, MulCancel
  <1>6. z <= e + x
    <2>1. z * k < (e + x) * k + k
      BY <1>1, <1>2, <1>3, <1>4
    <2> QED
      BY <2>1, <1>1, <1>2, MulCancel
  <1> QED
    BY <1>1, <1>2, <1>5, <1>6 DEF x, z

(* A timeline is a u64, and between two instants it advances by at least the *)
(* milliseconds in between, up to saturation.                                *)
LEMMA TimelineAdvances ==
    ASSUME NEW a \in Anchor, NEW m \in Nat, NEW n \in Nat,
           a.started <= m, m <= n
    PROVE  /\ Anchored(a, m) \in 0..MaxMs
           /\ Anchored(a, n) \in 0..MaxMs
           /\ Anchored(a, n) >= Sat(Anchored(a, m) + DurationMs(m, n))
  <1> DEFINE x == (m - a.started) \div TicksPerMs
  <1> DEFINE y == (n - m) \div TicksPerMs
  <1> DEFINE z == (n - a.started) \div TicksPerMs
  <1>0. a.started \in Nat /\ a.epoch_ms \in 0..MaxMs
        /\ m - a.started \in Nat /\ n - m \in Nat /\ n - a.started \in Nat
    BY DEF Anchor
  <1>1. x \in Nat /\ y \in Nat /\ z \in Nat
    BY <1>0, DivBounds, ClockAssumption
  <1>2. x + y <= z
    <2>1. (m - a.started) + (n - m) = n - a.started
      BY <1>0
    <2> QED
      BY <2>1, <1>0, DivSuperadditive, ClockAssumption
  <1>3. /\ Anchored(a, m) = Sat(a.epoch_ms + Sat(x))
        /\ Anchored(a, n) = Sat(a.epoch_ms + Sat(z))
        /\ DurationMs(m, n) = Sat(y)
    BY <1>0 DEF Anchored, DurationMs
  <1> HIDE DEF x, y, z
  <1> QED
    BY <1>0, <1>1, <1>2, <1>3, ClockAssumption DEF Sat

(* advance() keeps the anchor exactly when its line is not below the sample's. *)
LEMMA KeepComparesLines ==
    ASSUME NEW a \in Anchor, NEW w \in 0..MaxMs, NEW n \in Nat, a.started <= n
    PROVE  Keep(a, w, n) <=> w * TicksPerMs - n <= a.epoch_ms * TicksPerMs - a.started
  <1> DEFINE T == TicksPerMs
  <1> DEFINE e == a.epoch_ms
  <1> DEFINE d == n - a.started
  <1> DEFINE x == d \div T
  <1>0. e \in 0..MaxMs /\ a.started \in Nat /\ d \in Nat /\ a # Unset /\ T \in Nat \ {0}
    BY ClockAssumption DEF Anchor, Unset
  <1>1. x \in Nat /\ x * T <= d /\ d < x * T + T
    BY <1>0, DivBounds
  <1>2. Anchored(a, n) = Sat(e + Sat(x))
    BY <1>0 DEF Anchored, DurationMs
  <1>3. Keep(a, w, n) <=> e + x >= w
    <2>1. Keep(a, w, n) <=> Sat(e + Sat(x)) >= w
      BY <1>0, <1>2 DEF Keep
    <2> HIDE DEF x, e, d, T
    <2> QED
      BY <2>1, <1>0, <1>1, ClockAssumption DEF Sat
  <1>4. e + x >= w <=> w * T <= e * T + d
    <2> HIDE DEF x, e, d, T
    <2>0. e \in Nat /\ w \in Nat /\ (e + x) * T = e * T + x * T
          /\ e * T \in Nat /\ x * T \in Nat /\ w * T \in Nat
      BY <1>0, <1>1, ClockAssumption
    <2>1. ASSUME e + x >= w
          PROVE  w * T <= e * T + d
      <3>1. PICK g \in Nat : e + x = w + g
        <4>1. (e + x) - w \in Nat /\ e + x = w + ((e + x) - w)
          BY <2>0, <2>1, <1>1
        <4> QED
          BY <4>1
      <3>2. (w + g) * T = w * T + g * T /\ g * T \in Nat
        BY <3>1, <2>0, <1>0
      <3> QED
        BY <3>1, <3>2, <2>0, <1>0, <1>1
    <2>2. ASSUME w * T <= e * T + d
          PROVE  w <= e + x
      <3>1. w * T < (e + x) * T + T
        BY <2>0, <2>2, <1>0, <1>1
      <3> QED
        BY <3>1, <2>0, <1>0, <1>1, MulCancel
    <2> QED
      BY <2>0, <2>1, <2>2, <1>1
  <1>5. w * T <= e * T + d <=> w * T - n <= e * T - a.started
    <2>1. w * T \in Int /\ e * T \in Int
      BY <1>0
    <2> QED
      BY <2>1, <1>0
  <1> QED
    BY <1>3, <1>4, <1>5

-----------------------------------------------------------------------------
LEMMA InitIInv == Init => IInv
  BY ClockAssumption
  DEF Init, IInv, TypeOK, Exclusive, SamplesInOrder, AnchorIsBest, Unset

(* One call of advance(): the new reading is on the new anchor's line, and   *)
(* not below what the old timeline would have shown.                         *)
LEMMA AdvanceFacts ==
    ASSUME IInv, NEW t \in Threads, Advance(t)
    PROVE  /\ anchor' \in Anchor
           /\ last'.at = sample[t].now
           /\ last'.ms \in 0..MaxMs
           /\ last' \in [ms : 0..MaxMs, at : Nat]
           /\ anchor'.started <= last'.at
           /\ last'.ms = Anchored(anchor', last'.at)
           /\ best' = anchor'.epoch_ms * TicksPerMs - anchor'.started
           /\ last # Unset => last'.ms >= Anchored(anchor, last'.at)
  <1> DEFINE w == sample[t].wall_ms
  <1> DEFINE n == sample[t].now
  <1>0. w \in 0..MaxMs /\ n \in Nat /\ w \in Nat
    BY ClockAssumption DEF IInv, TypeOK
  <1>1. /\ pc[t] = "sampled"
        /\ anchor' = IF Keep(anchor, w, n) THEN anchor
                     ELSE [epoch_ms |-> w, started |-> n]
        /\ last' = [ms |-> Reading(anchor, w, n), at |-> n]
        /\ best' = IF last = Unset \/ w * TicksPerMs - n > best
                   THEN w * TicksPerMs - n ELSE best
    BY DEF Advance, Line
  <1> HIDE DEF w, n
  <1>2. CASE Keep(anchor, w, n)
    <2>1. anchor # Unset
      BY <1>2 DEF Keep
    <2>2. /\ last # Unset /\ anchor \in Anchor
          /\ anchor.started <= last.at
          /\ best = anchor.epoch_ms * TicksPerMs - anchor.started
      BY <2>1 DEF IInv, TypeOK, AnchorIsBest
    <2>3. last.at \in Nat /\ last.at <= n /\ anchor.started \in Nat
      BY <2>2, <1>1 DEF IInv, TypeOK, SamplesInOrder, n, Anchor
    <2>4. anchor.started <= n
      BY <2>2, <2>3, <1>0
    <2>5. Anchored(anchor, n) \in 0..MaxMs
      BY <2>2, <2>4, <1>0, TimelineAdvances
    <2>6. anchor' = anchor /\ last'.ms = Anchored(anchor, n) /\ last'.at = n
          /\ last' = [ms |-> Anchored(anchor, n), at |-> n]
      BY <1>1, <1>2 DEF Reading
    <2>7. ~(w * TicksPerMs - n > best)
      <3>1. w * TicksPerMs - n <= anchor.epoch_ms * TicksPerMs - anchor.started
        BY <1>0, <1>2, <2>2, <2>4, KeepComparesLines
      <3>2. w * TicksPerMs \in Int /\ anchor.epoch_ms * TicksPerMs \in Int
        BY <1>0, <2>2, ClockAssumption DEF Anchor
      <3> QED
        BY <3>1, <3>2, <2>2, <2>3, <1>0
    <2>8. best' = best
      BY <2>2, <2>7, <1>1
    <2>9. last'.at = sample[t].now
      BY <2>6 DEF n
    <2>10. Anchored(anchor, last'.at) \in 0..MaxMs
           /\ last'.ms = Anchored(anchor, last'.at)
           /\ last'.ms >= Anchored(anchor, last'.at)
      BY <2>5, <2>6
    <2>11. last' \in [ms : 0..MaxMs, at : Nat] /\ anchor'.started <= last'.at
      BY <2>4, <2>5, <2>6, <1>0
    <2> QED
      BY <2>2, <2>6, <2>8, <2>9, <2>10, <2>11
  <1>3. CASE ~Keep(anchor, w, n)
    <2>1. anchor' = [epoch_ms |-> w, started |-> n] /\ last' = [ms |-> w, at |-> n]
      BY <1>1, <1>3 DEF Reading
    <2>2. Anchored(anchor', n) = w
      <3>1. (n - n) \div TicksPerMs = 0
        BY <1>0, ClockAssumption
      <3> QED
        BY <3>1, <2>1, <1>0, ClockAssumption DEF Anchored, DurationMs, Sat
    <2>3. best' = w * TicksPerMs - n
      <3>1. CASE last = Unset
        BY <3>1, <1>1
      <3>2. CASE last # Unset
        <4>1. /\ anchor \in Anchor /\ anchor.started <= last.at
              /\ best = anchor.epoch_ms * TicksPerMs - anchor.started
          BY <3>2 DEF IInv, TypeOK, AnchorIsBest
        <4>2. last.at \in Nat /\ last.at <= n /\ anchor.started \in Nat
          BY <3>2, <4>1, <1>1 DEF IInv, TypeOK, SamplesInOrder, n, Anchor
        <4>3. ~(w * TicksPerMs - n <= anchor.epoch_ms * TicksPerMs - anchor.started)
          BY <4>1, <4>2, <1>0, <1>3, KeepComparesLines
        <4>4. w * TicksPerMs \in Int /\ anchor.epoch_ms * TicksPerMs \in Int
          BY <1>0, <4>1, ClockAssumption DEF Anchor
        <4> QED
          BY <4>1, <4>2, <4>3, <4>4, <1>0, <1>1
      <3> QED
        BY <3>1, <3>2
    <2>4. ASSUME last # Unset
          PROVE  w >= Anchored(anchor, n)
      <3>1. /\ anchor \in Anchor /\ anchor # Unset /\ anchor.started <= last.at
        BY <2>4 DEF IInv, TypeOK, AnchorIsBest
      <3>2. last.at \in Nat /\ last.at <= n /\ anchor.started \in Nat
        BY <2>4, <3>1, <1>1 DEF IInv, TypeOK, SamplesInOrder, n, Anchor
      <3>3. Anchored(anchor, n) \in 0..MaxMs
        BY <3>1, <3>2, <1>0, TimelineAdvances
      <3> QED
        BY <3>1, <3>3, <1>0, <1>3 DEF Keep
    <2> QED
      BY <2>1, <2>2, <2>3, <2>4, <1>0 DEF Anchor, n
  <1> QED
    BY <1>2, <1>3

LEMMA AdvanceIInv ==
    ASSUME IInv, NEW t \in Threads, Advance(t)
    PROVE  IInv'
  <1>1. /\ anchor' \in Anchor
        /\ last'.at = sample[t].now
        /\ last' \in [ms : 0..MaxMs, at : Nat]
        /\ anchor'.started <= last'.at
        /\ last'.ms = Anchored(anchor', last'.at)
        /\ best' = anchor'.epoch_ms * TicksPerMs - anchor'.started
    BY AdvanceFacts
  <1>2. /\ pc[t] = "sampled" /\ pc' = [pc EXCEPT ![t] = "idle"]
        /\ UNCHANGED <<wall, instant, sample>>
    BY DEF Advance
  <1>3. anchor' # Unset /\ last' # Unset
    BY <1>1 DEF Anchor, Unset
  <1>4. TypeOK'
    <2>1. best' \in Int
      BY <1>1, ClockAssumption DEF Anchor
    <2> QED
      BY <1>1, <1>2, <2>1 DEF IInv, TypeOK
  <1>5. Exclusive' /\ SamplesInOrder'
    BY <1>1, <1>2 DEF IInv, TypeOK, Exclusive, SamplesInOrder
  <1>6. AnchorIsBest'
    BY <1>1, <1>2, <1>3 DEF IInv, SamplesInOrder, AnchorIsBest
  <1> QED
    BY <1>4, <1>5, <1>6 DEF IInv

(* The environment and the steps up to advance().                            *)
LEMMA OtherIInv ==
    ASSUME IInv,
           \/ \E w \in 0..MaxMs : StepWall(w)
           \/ AdvanceInstant
           \/ \E t \in Threads : Lock(t) \/ SampleWall(t) \/ SampleInstant(t)
           \/ UNCHANGED vars
    PROVE  IInv'
  <1>1. ASSUME NEW w \in 0..MaxMs, StepWall(w)
        PROVE  IInv'
    BY <1>1 DEF StepWall, IInv, TypeOK, Exclusive, SamplesInOrder, AnchorIsBest
  <1>2. ASSUME AdvanceInstant
        PROVE  IInv'
    <2>1. TypeOK' /\ Exclusive' /\ SamplesInOrder'
      BY <1>2 DEF AdvanceInstant, IInv, TypeOK, Exclusive, SamplesInOrder
    <2>2. AnchorIsBest'
      BY <1>2 DEF AdvanceInstant, IInv, TypeOK, AnchorIsBest
    <2> QED
      BY <2>1, <2>2 DEF IInv
  <1>3. ASSUME NEW t \in Threads, Lock(t) \/ SampleWall(t) \/ SampleInstant(t)
        PROVE  IInv'
    <2>1. TypeOK' /\ Exclusive'
      BY <1>3 DEF Lock, SampleWall, SampleInstant, IInv, TypeOK, Exclusive
    <2>2. SamplesInOrder'
      BY <1>3 DEF Lock, SampleWall, SampleInstant, IInv, TypeOK, SamplesInOrder, AnchorIsBest
    <2>3. AnchorIsBest'
      BY <1>3 DEF Lock, SampleWall, SampleInstant, IInv, AnchorIsBest
    <2> QED
      BY <2>1, <2>2, <2>3 DEF IInv
  <1>4. ASSUME UNCHANGED vars
        PROVE  IInv'
    BY <1>4 DEF vars, IInv, TypeOK, Exclusive, SamplesInOrder, AnchorIsBest
  <1> QED
    BY <1>1, <1>2, <1>3, <1>4

LEMMA NextIInv == IInv /\ [Next]_vars => IInv'
  BY AdvanceIInv, OtherIInv DEF Next

(* The inductive invariant of the clock.                                     *)
THEOREM IInvHolds == Spec => []IInv
  BY InitIInv, NextIInv, PTL DEF Spec

(* Readings of SystemClock::now_ms never decrease and never freeze, for any  *)
(* number of threads and any behaviour of the wall clock.                    *)
THEOREM ClockAdvances == Spec => NeverDecreasesNorFreezes
  <1>1. ASSUME IInv, [Next]_vars
        PROVE  [(last # Unset /\ last' # last) =>
                  last'.ms >= Sat(last.ms + DurationMs(last.at, last'.at))]_vars
    <2> SUFFICES ASSUME Next, last # Unset, last' # last
                 PROVE  last'.ms >= Sat(last.ms + DurationMs(last.at, last'.at))
      BY <1>1
    <2>1. PICK t \in Threads : Advance(t)
      BY DEF Next, StepWall, AdvanceInstant, Lock, SampleWall, SampleInstant
    <2>2. /\ last'.at = sample[t].now
          /\ last'.ms \in 0..MaxMs
          /\ last'.ms >= Anchored(anchor, last'.at)
      BY <1>1, <2>1, AdvanceFacts
    <2>3. /\ anchor \in Anchor /\ last.at \in Nat /\ last'.at \in Nat
          /\ anchor.started <= last.at /\ last.at <= last'.at
          /\ last.ms = Anchored(anchor, last.at)
      BY <1>1, <2>1, <2>2 DEF IInv, TypeOK, SamplesInOrder, AnchorIsBest, Advance
    <2>4. /\ Anchored(anchor, last'.at) \in 0..MaxMs
          /\ Anchored(anchor, last'.at) >= Sat(last.ms + DurationMs(last.at, last'.at))
      BY <2>3, TimelineAdvances
    <2>5. Sat(last.ms + DurationMs(last.at, last'.at)) \in Nat
      <3>0. last'.at - last.at \in Nat
        BY <2>3
      <3>1. (last'.at - last.at) \div TicksPerMs \in Nat
        BY <3>0, DivBounds, ClockAssumption
      <3>2. last.ms \in 0..MaxMs
        BY <2>3, TimelineAdvances
      <3> QED
        BY <3>0, <3>1, <3>2, <2>3, ClockAssumption DEF Sat, DurationMs
    <2> QED
      BY <2>2, <2>4, <2>5, ClockAssumption
  <1> QED
    BY <1>1, IInvHolds, PTL DEF NeverDecreasesNorFreezes, Spec

(* A reading is the highest of the lines drawn from the wall-clock samples:  *)
(* backwards steps are ignored, forward steps followed, nothing is invented. *)
THEOREM ClockIsHighestLine == Spec => []ReadingIsHighestLine
  <1>1. IInv => ReadingIsHighestLine
    <2> SUFFICES ASSUME IInv, last # Unset
                 PROVE  last.ms = Sat((best + last.at) \div TicksPerMs)
      BY DEF ReadingIsHighestLine
    <2> DEFINE e == anchor.epoch_ms
    <2> DEFINE d == last.at - anchor.started
    <2>1. /\ anchor \in Anchor /\ last.at \in Nat
          /\ anchor.started <= last.at
          /\ last.ms = Anchored(anchor, last.at)
          /\ best = e * TicksPerMs - anchor.started
      BY DEF IInv, TypeOK, AnchorIsBest
    <2>2. e \in 0..MaxMs /\ e \in Nat /\ d \in Nat /\ anchor.started \in Nat
          /\ e * TicksPerMs \in Nat
      BY <2>1, ClockAssumption DEF Anchor
    <2>3. best + last.at = e * TicksPerMs + d
      BY <2>1, <2>2
    <2>4. (e * TicksPerMs + d) \div TicksPerMs = e + (d \div TicksPerMs)
      BY <2>2, DivShift, ClockAssumption
    <2>5. d \div TicksPerMs \in Nat
      BY <2>2, DivBounds, ClockAssumption
    <2>6. Anchored(anchor, last.at) = Sat(e + Sat(d \div TicksPerMs))
      BY <2>1, <2>2 DEF Anchored, DurationMs
    <2>7. Sat(e + Sat(d \div TicksPerMs)) = Sat(e + (d \div TicksPerMs))
      BY <2>2, <2>5, ClockAssumption DEF Sat
    <2> QED
      BY <2>1, <2>3, <2>4, <2>6, <2>7
  <1> QED
    BY <1>1, IInvHolds, PTL
=============================================================================
