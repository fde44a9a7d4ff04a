----------------------------- MODULE SystemClock -----------------------------
(***************************************************************************)
(* The clock behind every TTL decision of the gateway                      *)
(* (crates/gateway/src/clock.rs): a monotonic timeline anchored to the     *)
(* wall clock, shared by all threads through one mutex.                    *)
(*                                                                         *)
(* The wall clock may be stepped to any value at any moment; the monotonic *)
(* clock only advances, in ticks finer than a millisecond, and may stand   *)
(* still while the wall clock runs (suspension).  now_ms() samples the two *)
(* clocks one after the other while it holds the lock.                     *)
(***************************************************************************)
EXTENDS Integers

CONSTANTS
    Threads,
    TicksPerMs,     \* resolution of Instant; as_millis() truncates
    MaxMs,          \* u64::MAX, where millisecond values saturate
    MaxInstant      \* bound: the monotonic clock stops here

ASSUME ClockAssumption ==
    /\ TicksPerMs \in Nat \ {0}
    /\ MaxMs \in Nat
    /\ MaxInstant \in Nat

VARIABLES
    wall,       \* saturating_unix_time_ms(SystemTime::now())
    instant,    \* Instant::now(), in ticks
    anchor,     \* ANCHOR
    pc,         \* where each thread is inside now_ms()
    sample,     \* the samples each thread holds
    last,       \* history: the last reading returned, and its instant
    best        \* history: highest line wall + elapsed over all samples, in ticks

vars == <<wall, instant, anchor, pc, sample, last, best>>

Unset == [unset |-> TRUE]

Anchor == [epoch_ms : 0..MaxMs, started : Nat]

Sat(n) == IF n > MaxMs THEN MaxMs ELSE n

(* saturating_duration_ms(now.saturating_duration_since(started)).          *)
DurationMs(started, now) == IF now < started THEN 0 ELSE Sat((now - started) \div TicksPerMs)

(* The timeline of anchor a at instant `now`.                                *)
BugUncapped(a, now) == a.epoch_ms + DurationMs(a.started, now)

Anchored(a, now) == Sat(a.epoch_ms + DurationMs(a.started, now))

(* Does `advance` stay on the timeline, or re-anchor at the wall clock?      *)
BugFollowsWall(a, wall_ms, now) == a # Unset /\ wall_ms = Anchored(a, now)

Keep(a, wall_ms, now) == a # Unset /\ Anchored(a, now) >= wall_ms

Reading(a, wall_ms, now) ==
    IF Keep(a, wall_ms, now) THEN Anchored(a, now) ELSE wall_ms

-----------------------------------------------------------------------------
Init ==
    /\ wall \in 0..MaxMs
    /\ instant = 0
    /\ anchor = Unset
    /\ pc = [t \in Threads |-> "idle"]
    /\ sample = [t \in Threads |-> [wall_ms |-> 0, now |-> 0]]
    /\ last = Unset
    /\ best = 0

(* The environment.                                                          *)
StepWall(w) ==
    /\ w # wall
    /\ wall' = w
    /\ UNCHANGED <<instant, anchor, pc, sample, last, best>>

AdvanceInstant ==
    /\ instant < MaxInstant
    /\ instant' = instant + 1
    /\ UNCHANGED <<wall, anchor, pc, sample, last, best>>

(* now_ms(): lock, sample the wall clock, sample the monotonic clock, advance *)
(* and unlock.                                                               *)
BugUnlocked(t) ==
    /\ pc[t] = "idle"
    /\ pc' = [pc EXCEPT ![t] = "locked"]
    /\ UNCHANGED <<wall, instant, anchor, sample, last, best>>

Lock(t) ==
    /\ \A u \in Threads : pc[u] = "idle"
    /\ pc' = [pc EXCEPT ![t] = "locked"]
    /\ UNCHANGED <<wall, instant, anchor, sample, last, best>>

SampleWall(t) ==
    /\ pc[t] = "locked"
    /\ sample' = [sample EXCEPT ![t].wall_ms = wall]
    /\ pc' = [pc EXCEPT ![t] = "walled"]
    /\ UNCHANGED <<wall, instant, anchor, last, best>>

SampleInstant(t) ==
    /\ pc[t] = "walled"
    /\ sample' = [sample EXCEPT ![t].now = instant]
    /\ pc' = [pc EXCEPT ![t] = "sampled"]
    /\ UNCHANGED <<wall, instant, anchor, last, best>>

Line(s) == s.wall_ms * TicksPerMs - s.now

Advance(t) ==
    LET s == sample[t]
    IN  /\ pc[t] = "sampled"
        /\ anchor' = IF Keep(anchor, s.wall_ms, s.now) THEN anchor
                     ELSE [epoch_ms |-> s.wall_ms, started |-> s.now]
        /\ last' = [ms |-> Reading(anchor, s.wall_ms, s.now), at |-> s.now]
        /\ best' = IF last = Unset \/ Line(s) > best THEN Line(s) ELSE best
        /\ pc' = [pc EXCEPT ![t] = "idle"]
        /\ UNCHANGED <<wall, instant, sample>>

Next ==
    \/ \E w \in 0..MaxMs : StepWall(w)
    \/ AdvanceInstant
    \/ \E t \in Threads : Lock(t) \/ SampleWall(t) \/ SampleInstant(t) \/ Advance(t)

Spec == Init /\ [][Next]_vars

-----------------------------------------------------------------------------
(* Readings are u64 milliseconds, and the anchor is a wall reading paired    *)
(* with an instant.                                                          *)
TypeOK ==
    /\ wall \in 0..MaxMs
    /\ instant \in Nat
    /\ anchor \in Anchor \cup {Unset}
    /\ pc \in [Threads -> {"idle", "locked", "walled", "sampled"}]
    /\ sample \in [Threads -> [wall_ms : 0..MaxMs, now : Nat]]
    /\ last \in [ms : 0..MaxMs, at : Nat] \cup {Unset}
    /\ best \in Int

(* "Readings therefore never decrease and never freeze" (SystemClock's doc): *)
(* in the order in which calls return, whatever happens to the wall clock, a *)
(* reading is above the one before it by at least the milliseconds that the  *)
(* monotonic clock counted in between (up to saturation).                    *)
NeverDecreasesNorFreezes ==
    [][(last # Unset /\ last' # last) =>
        last'.ms >= Sat(last.ms + DurationMs(last.at, last'.at))]_vars

(* A reading is exactly the highest of the lines "wall sample plus time      *)
(* elapsed since it": it follows every forward step of the wall clock,       *)
(* ignores every backwards step, and invents no time of its own, not even by *)
(* accumulating the truncations to milliseconds.                             *)
ReadingIsHighestLine ==
    last # Unset => last.ms = Sat((best + last.at) \div TicksPerMs)
=============================================================================
