---------------------------- MODULE WatchBackoff ----------------------------
(***************************************************************************)
(* The retry delay shared by the gRPC and systemd watchers                 *)
(* (grpc_health.rs watch_one, systemd.rs watch_one_unit): 250 ms,          *)
(* doubled after every failed attempt, capped at 15 s.                     *)
(***************************************************************************)
EXTENDS Integers

BaseBackoffMs == 250
MaxBackoffMs == 15000

\* Mutant: the doubling without .min(max_backoff_ms).
NextBackoffUncapped(b) == b * 2

\* backoff_ms = (backoff_ms * 2).min(max_backoff_ms)
NextBackoff(b) == IF b * 2 <= MaxBackoffMs THEN b * 2 ELSE MaxBackoffMs

\* Spec 4.5/5: the delay of the n-th retry since the last successful
\* connect or open, n = 0 for the first.
SpecDelay(n) == IF BaseBackoffMs * 2^n <= MaxBackoffMs
                   THEN BaseBackoffMs * 2^n ELSE MaxBackoffMs

BackoffValues == {SpecDelay(n) : n \in 0..7}
=============================================================================
