------------------------------- MODULE Backoff -------------------------------
(***************************************************************************)
(* CalculateBackoff (worker/backoff.go): how long a retry goroutine waits. *)
(* Durations are whole milliseconds.  The result is random, so the         *)
(* operator gives the set of possible delays.                              *)
(***************************************************************************)
EXTENDS Integers, Sequences

\* The cap on the delay, two hours, and on the exponent.
MaxDelay == 7200000
MaxShift == 15

\* math.Pow(2, attempt) for the attempts up to MaxShift.
Power == <<2, 4, 8, 16, 32, 64, 128, 256, 512, 1024, 2048, 4096, 8192, 16384, 32768>>

\* baseDelay * 2^attempt, with the exponent capped.
Growth(attempt, base) == base * Power[IF attempt > MaxShift THEN MaxShift ELSE attempt]

\* A random delay within 10% of d.
Jittered(d) == (d - d \div 10)..(d + d \div 10)

Capped(d) == IF d > MaxDelay THEN MaxDelay ELSE d

\* Mutation: the base delay is read as minutes.
CalculateBackoff_Minutes(attempt, base) ==
  IF attempt <= 0 THEN {60 * base}
  ELSE {Capped(60 * d) : d \in Jittered(Growth(attempt, base))}

\* The jitter is added first, then the cap applies; without a positive attempt
\* there is neither.
CalculateBackoff(attempt, base) ==
  IF attempt <= 0 THEN {base}
  ELSE {Capped(d) : d \in Jittered(Growth(attempt, base))}

=============================================================================
