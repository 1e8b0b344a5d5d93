------------------------------ MODULE Throttle ------------------------------
(***************************************************************************)
(* The upload limit of a Stream: what Stream::writeAll does before it       *)
(* writes (rsync/rsync_stream.cpp:579).  It counts what it has written in   *)
(* buckets of a second, five at most, and sleeps when their average is      *)
(* above the limit, for a second at most.                                   *)
(*                                                                          *)
(* The clock is that of the computer, which may be set back.  Times are in  *)
(* ticks, and a sleep lasts as many whole ticks as the code has             *)
(* milliseconds; sizes are in units, of which several are a kilobyte.       *)
(***************************************************************************)
EXTENDS Integers, Sequences

CONSTANTS
  Second,      \* ticks
  Kilobyte,    \* units
  Limits,      \* in kilobytes per second, what setUploadLimit is called with
  LimitedWrites,\* in units
  Allowance,   \* in kilobytes per second, what debt is measured against at least
  MaxPause,    \* bound: ticks between two writes
  StepsBack,   \* ticks by which the clock may be set back at once
  MaxSteps,    \* bound: how often
  MaxBehind,   \* bound: by how much it may then be before d_bucketStartTime
  MaxDebt      \* bound: what debt is followed up to

ASSUME ThrottleAssumption ==
  /\ Second \in Nat \ {0} /\ Kilobyte \in Nat \ {0}
  /\ Limits \subseteq Nat /\ LimitedWrites \subseteq Nat
  /\ Allowance \in Nat
  /\ MaxPause \in Nat /\ StepsBack \subseteq Nat /\ MaxSteps \in Nat
  /\ MaxBehind \in Nat /\ MaxDebt \in Nat

VARIABLES
  uploadLimit,  \* d_uploadLimit
  buckets,      \* d_uploadBuckets, in kilobytes
  elapsed,      \* now - d_bucketStartTime
  at,           \* what elapsed was when the last write looked at the clock
  runaway,      \* whether it adds buckets without end
  steps,        \* how often the clock was set back
  debt          \* what was written above the rate, see Repaid

throttleVars == <<uploadLimit, buckets, elapsed, at, runaway, steps, debt>>
-----------------------------------------------------------------------------
N == 5
Started == buckets # <<>>

Lower(a, b) == IF a < b THEN a ELSE b
Higher(a, b) == IF a < b THEN b ELSE a

ThrottleInit ==
  /\ uploadLimit \in Limits
  /\ buckets = <<>> /\ elapsed = 0
  /\ at = 0 /\ runaway = FALSE /\ steps = 0 /\ debt = 0

(* What the code can keep: a sleep lasts a second at most, so that a write that is
   larger than the limit allows in a second is let through after one. *)
Rate == Higher(uploadLimit, Allowance)

(* The buckets reach back N seconds, but N - 1 only at the moment when the oldest
   one is dropped, so that what keeps to their average may be N / (N - 1) of the
   limit.  Debt grows with what is written and is paid back at that much of the
   rate; it is in units * Second * (N - 1). *)
Repaid(ticks) == Higher(0, debt - N * Rate * Kilobyte * ticks)

(* A write is counted for its whole kilobytes, and what is left over is not. *)
Weight(units) == Kilobyte * (units \div Kilobyte)

Pause ==
  /\ \E ticks \in 1 .. MaxPause :
       /\ elapsed' = IF Started THEN elapsed + ticks ELSE elapsed
       /\ elapsed' < (N + 1) * Second + MaxPause
       /\ debt' = Repaid(ticks)
  /\ UNCHANGED <<uploadLimit, buckets, at, runaway, steps>>

ClockStepsBack ==
  /\ Started /\ steps < MaxSteps
  /\ steps' = steps + 1
  /\ \E ticks \in StepsBack :
       /\ elapsed - ticks >= -MaxBehind
       /\ elapsed' = elapsed - ticks
  /\ UNCHANGED <<uploadLimit, buckets, at, runaway, debt>>

(* Between two operations.  Debt is relative to a limit. *)
SetUploadLimit ==
  /\ uploadLimit' \in Limits
  /\ debt' = 0
  /\ UNCHANGED <<buckets, elapsed, at, runaway, steps>>
-----------------------------------------------------------------------------
(* The two loops that move and extend the buckets to where the clock is. *)
ShiftsTooMany == IF elapsed >= N * Second THEN (elapsed \div Second) - N + 2 ELSE 0
Shifts == IF elapsed >= N * Second THEN (elapsed \div Second) - N + 1 ELSE 0

Shifted(n) ==
  [k \in DOMAIN buckets |-> IF k + n \in DOMAIN buckets THEN buckets[k + n] ELSE 0]

OneTooFew(list, time) ==
  [k \in 1 .. Higher(Len(list), time \div Second) |-> IF k \in DOMAIN list THEN list[k] ELSE 0]
Extended(list, time) ==
  [k \in 1 .. Higher(Len(list), (time \div Second) + 1) |-> IF k \in DOMAIN list THEN list[k] ELSE 0]

Sum(list) ==
  LET total[k \in 0 .. Len(list)] == IF k = 0 THEN 0 ELSE total[k - 1] + list[k]
  IN  total[Len(list)]

(* How long the average takes to come down to the limit. *)
DelayOf(sum, list, time) ==
  IF sum <= uploadLimit * Len(list)
    THEN 0
    ELSE Higher(0, Lower(Second, ((sum * Second) \div uploadLimit) - time))

FirstBucket == <<0>>

WriteLimited(units) ==
  LET kilobytes == units \div Kilobyte
      time      == elapsed - Shifts * Second
      list      == IF Started THEN Extended(Shifted(Shifts), time) ELSE FirstBucket
      wait      == DelayOf(Sum(list) + kilobytes, list, time)
  IN  /\ at' = time
      /\ buckets' = [list EXCEPT ![Len(list)] = @ + kilobytes]
      /\ elapsed' = time + wait
      /\ debt' = Lower(MaxDebt, Repaid(wait) + (N - 1) * Second * Weight(units))
      /\ UNCHANGED <<runaway, steps>>

(* now - d_bucketStartTime is compared with a size, which is unsigned. *)
NeverCatchesUp ==
  /\ runaway' = TRUE
  /\ UNCHANGED <<buckets, elapsed, at, steps, debt>>

LimitedWriteAll ==
  /\ uploadLimit > 0 /\ ~runaway
  /\ \E units \in LimitedWrites :
       IF elapsed < 0 THEN NeverCatchesUp ELSE WriteLimited(units)
  /\ UNCHANGED uploadLimit

ThrottleNext == Pause \/ ClockStepsBack \/ SetUploadLimit \/ LimitedWriteAll

ThrottleSpec == ThrottleInit /\ [][ThrottleNext]_throttleVars
-----------------------------------------------------------------------------
(* There are no more than five buckets, and the last one reaches to the clock the
   last write looked at: adding buckets has come to an end, and however long the
   pause was, what is counted is counted for a second that has not gone by. *)
BucketsFit ==
  /\ ~runaway
  /\ Len(buckets) <= N
  /\ Started => 0 <= at /\ at < Len(buckets) * Second

(* The limit (rsync_client.h:81), as far as the code keeps it: in no stretch of
   time are more kilobytes counted than N / (N - 1) of the rate allows for it and
   a burst of what N + 1 seconds allow: as much as the buckets hold after a
   silence, and the write that finds them full.  The rate is that of the largest
   write in every second where this is above the limit; what a write has besides
   its whole kilobytes is not counted; and nothing is said once the clock has
   been set back. *)
LimitKept == steps = 0 => debt <= (N + 1) * (N - 1) * Rate * Kilobyte * Second
=============================================================================
