-------------------------- MODULE HysteresisArithmetic --------------------------
(***************************************************************************)
(* EffectiveDownHysteresisThreshold as the code runs it: a loop over       *)
(* unsigned integers of Width bits, shown equal to the closed form that    *)
(* CircuitBreaker, and so every other module, uses.                        *)
(***************************************************************************)
EXTENDS SovereigntyFSM

CONSTANTS
    Width,       \* bits of the integer type (64 in the code)
    MaxAttempts  \* bound on failedRecoveryAttempts

ASSUME WidthAssumption == Width \in Nat \ {0} /\ MaxAttempts \in Nat

\* Mutant: the loop doubles without looking at the cap.
LoopBodyUncapped(effective, max) ==
    [effective |-> (effective * 2) % PowerOf2[Width], returned |-> FALSE]

\* One round of the loop: return the cap, or double.
LoopBody(effective, max) ==
    IF effective >= max
    THEN [effective |-> max, returned |-> TRUE]
    ELSE [effective |-> (effective * 2) % PowerOf2[Width], returned |-> FALSE]

\* The locals after i rounds of a call with DownHysteresisThreshold = down and
\* MaxDownHysteresisThreshold = max.
Loop(down, max, attempts) ==
    LET after[i \in Nat] ==
          IF i = 0 THEN [effective |-> down, returned |-> FALSE]
          ELSE IF after[i - 1].returned THEN after[i - 1]
          ELSE LoopBody(after[i - 1].effective, max)
    IN  after[attempts]

AfterLoop(effective, max) == IF effective > max THEN max ELSE effective

EffectiveThresholdLoop(down, max, attempts) ==
    LET l == Loop(down, max, attempts)
    IN  IF l.returned THEN l.effective ELSE AfterLoop(l.effective, max)

-----------------------------------------------------------------------------
\* For every number of failed attempts still ahead, and however close to the width
\* its operands are, the loop returns the closed form (circuit_breaker.go:25-37).
\* Params.Validate asks for down <= max; doubling a value below max cannot wrap
\* when max <= 2^(Width-1).
LoopMatchesClosedForm ==
    \A max \in 0 .. PowerOf2[Width - 1],
       attempts \in fsm.failedRecoveryAttempts .. MaxAttempts :
      \A down \in 0 .. max :
        EffectiveThresholdLoop(down, max, attempts)
          = CappedDoubling(down, max, attempts)
=============================================================================
