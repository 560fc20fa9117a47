--------------------------- MODULE LoginThrottle ----------------------------
(***************************************************************************)
(* The login throttle of relayterm-auth (throttle.rs): a table of failed   *)
(* attempts per normalised login identifier, behind one mutex.             *)
(*                                                                         *)
(* The table is a function from the tracked keys to their AttemptState.    *)
(* Times are natural numbers; blocked_until = 0 stands for None, since no  *)
(* block ends at time 0.                                                   *)
(***************************************************************************)
EXTENDS Naturals, Sequences, FiniteSets, Functions

CONSTANTS
  MaxFailures,     \* LoginThrottleConfig.max_failures
  Window,          \* LoginThrottleConfig.window
  Block,           \* LoginThrottleConfig.block
  MaxTrackedKeys   \* MAX_TRACKED_KEYS

\* V1_DEFAULT, which main.rs builds the throttle with, has max_failures = 5 and
\* window = block = 15 minutes.
ASSUME ThrottleAssumption ==
  /\ MaxFailures \in Nat \ {0} /\ Window \in Nat \ {0} /\ Block \in Nat /\ Window <= Block
  /\ MaxTrackedKeys \in Nat \ {0}

AttemptStateNew == [failures |-> << >>, blocked_until |-> 0]

\* now - window < t, written without a negative number.
InWindow(t, now) == now < t + Window

\* failures.retain(...): the attempts still in the window, in their order.
Retained(failures, now) ==
  LET kept[n \in 0 .. Len(failures)] ==
        IF n = 0 THEN << >>
        ELSE IF InWindow(failures[n], now) THEN Append(kept[n - 1], failures[n])
        ELSE kept[n - 1]
  IN kept[Len(failures)]

PruneWindow(state, now) == [state EXCEPT !.failures = Retained(@, now)]

IsBlocked(state, now) == now < state.blocked_until

IsIdle(state, now) ==
  /\ ~IsBlocked(state, now)
  /\ \A i \in DOMAIN state.failures : ~InWindow(state.failures[i], now)

\* check: TRUE is ThrottleDecision::Throttled.
Throttled(table, key, now) == key \in DOMAIN table /\ IsBlocked(table[key], now)

DropIdle(table, now) == Restrict(table, {k \in DOMAIN table : ~IsIdle(table[k], now)})

\* mutant of FailureRecorded: the block starts one failure late
FailureRecordedLate(state, now) ==
  LET pruned == PruneWindow(state, now)
      failures == IF Len(pruned.failures) < MaxFailures + 1
                    THEN Append(pruned.failures, now) ELSE pruned.failures
  IN [failures |-> failures,
      blocked_until |-> IF Len(failures) > MaxFailures THEN now + Block ELSE pruned.blocked_until]

\* mutant of FailureRecorded: a block may be shortened
FailureRecordedShorter(state, now) ==
  LET pruned == PruneWindow(state, now)
      failures == IF Len(pruned.failures) < MaxFailures + 1
                    THEN Append(pruned.failures, now) ELSE pruned.failures
  IN [failures |-> failures,
      blocked_until |-> IF Len(failures) >= MaxFailures THEN now + Block ELSE pruned.blocked_until]

\* The part of record_failure behind map.get_mut: prune, push unless the
\* vector is full, block at the threshold, never shorten a block.
FailureRecorded(state, now) ==
  LET pruned == PruneWindow(state, now)
      failures == IF Len(pruned.failures) < MaxFailures + 1
                    THEN Append(pruned.failures, now) ELSE pruned.failures
      until == IF Len(failures) >= MaxFailures /\ pruned.blocked_until <= now + Block
                 THEN now + Block ELSE pruned.blocked_until
  IN [failures |-> failures, blocked_until |-> until]

RecordFailure(table, key, now) ==
  LET swept == IF Cardinality(DOMAIN table) >= MaxTrackedKeys
                 THEN DropIdle(table, now) ELSE table
      state == IF key \in DOMAIN swept THEN swept[key] ELSE AttemptStateNew
      full  == key \notin DOMAIN swept /\ Cardinality(DOMAIN swept) >= MaxTrackedKeys
  IN IF full THEN swept
     ELSE [k \in DOMAIN swept \cup {key} |->
             IF k = key THEN FailureRecorded(state, now) ELSE swept[k]]

RecordSuccess(table, key) == Restrict(table, DOMAIN table \ {key})
=============================================================================
