------------------------------ MODULE RateLimit ------------------------------
(***************************************************************************)
(* The in-memory sliding window of core/ratelimit.py.  A bucket is a pair  *)
(* (limit, key); an absent bucket and an empty one are the same thing      *)
(* (setdefault).  Every caller is an async route of one event loop, so a   *)
(* check is one step.  time.monotonic() is counted in ticks.               *)
(***************************************************************************)
EXTENDS Integers, Sequences

CONSTANTS
  Buckets,        \* the (limit name, key) pairs in use
  Allowance,      \* allowance of each bucket's limit
  Period,         \* per_seconds of each bucket's limit, in ticks
  TicksPerSecond, \* the resolution of the clock
  SweepEvery,     \* 300 s, in ticks
  IdleAfter,      \* 3600 s, in ticks
  MaxTime         \* bound on the clock, for TLC

ASSUME LimitAssumption ==
  /\ Allowance \in [Buckets -> Nat \ {0}]
  /\ Period \in [Buckets -> Nat]

ASSUME ClockAssumption ==
  /\ TicksPerSecond \in Nat \ {0}
  /\ SweepEvery \in Nat
  /\ IdleAfter \in Nat
  /\ MaxTime \in Nat

\* LOGIN, SIGNUP, UPLOAD and CHAT all look back an hour at most.
ASSUME SweepAssumption == \A b \in Buckets : Period[b] <= IdleAfter

VARIABLES
  now,        \* time.monotonic()
  lastSweep,  \* _last_sweep
  events,     \* _events
  granted,    \* history: the times of all the checks that were allowed
  answer      \* the last answer of each bucket: when, and retry_after (0: allowed)

vars == <<now, lastSweep, events, granted, answer>>

Init ==
  /\ now \in 0..MaxTime
  /\ lastSweep = 0
  /\ events = [b \in Buckets |-> <<>>]
  /\ granted = [b \in Buckets |-> <<>>]
  /\ answer = [b \in Buckets |-> [at |-> 0, retry |-> 0]]

Tick ==
  /\ now < MaxTime
  /\ now' = now + 1
  /\ UNCHANGED <<lastSweep, events, granted, answer>>

-----------------------------------------------------------------------------
(* _sweep: at most every SweepEvery, drop the buckets idle for IdleAfter.  *)

SweepDue == now - lastSweep >= SweepEvery

\* Mutant: idleness is measured from the oldest stamp.
IdleSinceOldest(bucket) == bucket = <<>> \/ now - bucket[1] > IdleAfter

Idle(bucket) == bucket = <<>> \/ now - bucket[Len(bucket)] > IdleAfter

Swept == [b \in Buckets |-> IF SweepDue /\ Idle(events[b]) THEN <<>> ELSE events[b]]

\* The while loop pops the first n stamps: they are older than the cutoff and
\* the stamp after them is not.
Expired(bucket, n, cutoff) ==
  /\ \A i \in 1..n : bucket[i] < cutoff
  /\ n < Len(bucket) => bucket[n + 1] >= cutoff

\* Mutants: rounded down, but at least 1; counted from the wrong end.
RetryAfterFloor(b, oldest) ==
  LET seconds == (oldest + Period[b] - now) \div TicksPerSecond IN
  IF seconds = 0 THEN 1 ELSE seconds

RetryAfterPast(b, oldest) == (now - oldest - Period[b]) \div TicksPerSecond + 1

\* int(bucket[0] + per_seconds - now) + 1, in seconds.
RetryAfter(b, oldest) == (oldest + Period[b] - now) \div TicksPerSecond + 1

\* Mutant: off by one, the last free place is never given.
RefuseEarly(b, kept) ==
  /\ Len(kept) > 0 /\ Len(kept) >= Allowance[b] - 1
  /\ events' = [Swept EXCEPT ![b] = kept]
  /\ answer' = [answer EXCEPT ![b] = [at |-> now, retry |-> RetryAfter(b, kept[1])]]
  /\ UNCHANGED granted

\* The bucket is full: the check is refused and leaves no stamp.
Refuse(b, kept) ==
  /\ Len(kept) >= Allowance[b]
  /\ events' = [Swept EXCEPT ![b] = kept]
  /\ answer' = [answer EXCEPT ![b] = [at |-> now, retry |-> RetryAfter(b, kept[1])]]
  /\ UNCHANGED granted

Grant(b, kept) ==
  /\ Len(kept) < Allowance[b]
  /\ events' = [Swept EXCEPT ![b] = Append(kept, now)]
  /\ answer' = [answer EXCEPT ![b] = [at |-> now, retry |-> 0]]
  /\ granted' = [granted EXCEPT ![b] = Append(@, now)]

Check(b) ==
  /\ lastSweep' = IF SweepDue THEN now ELSE lastSweep
  /\ \E n \in 0..Len(Swept[b]) :
       LET kept == SubSeq(Swept[b], n + 1, Len(Swept[b])) IN
       /\ Expired(Swept[b], n, now - Period[b])
       /\ Refuse(b, kept) \/ Grant(b, kept)
  /\ UNCHANGED now

Next == Tick \/ \E b \in Buckets : Check(b)

Spec == Init /\ [][Next]_vars

-----------------------------------------------------------------------------
(* Properties.                                                             *)

TypeOK ==
  /\ now \in Nat
  /\ lastSweep \in Nat
  /\ events \in [Buckets -> Seq(Nat)]
  /\ granted \in [Buckets -> Seq(Nat)]
  /\ answer \in [Buckets -> [at : Nat, retry : Nat]]

\* "Sliding window rather than fixed buckets": among all the checks ever
\* allowed in a bucket, any Allowance + 1 consecutive ones span more than the
\* period, wherever the window is laid and whatever the sweep has dropped.
SlidingWindow ==
  \A b \in Buckets : \A i \in 1..Len(granted[b]) - Allowance[b] :
    granted[b][i + Allowance[b]] - granted[b][i] > Period[b]

\* A caller that waits the Retry-After it was given is not refused again
\* (unless somebody else with its key used the freed place in between).
Refused(b) == answer[b].retry > 0

RetryAfterHonoured ==
  [][\A b \in Buckets :
       answer'[b] # answer[b] /\ Refused(b)
         /\ now >= answer[b].at + answer[b].retry * TicksPerSecond
       => ~Refused(b)']_vars

\* A refusal is never gratuitous: at that moment the period just past holds
\* as many allowed checks as the limit admits.
RefusedOnlyWhenFull ==
  [][\A b \in Buckets :
       Refused(b)' /\ answer'[b] # answer[b] =>
         LET G == granted[b] IN
         /\ Len(G) >= Allowance[b]
         /\ G[Len(G) - Allowance[b] + 1] >= now - Period[b]]_vars

=============================================================================
