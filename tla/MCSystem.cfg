SPECIFICATION FairSpec
CONSTANT Setups <- MCSetups
INVARIANTS NoWildJump OnlyButtonWakes ClockRuns
PROPERTIES PressWakes
