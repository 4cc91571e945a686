SPECIFICATION Spec
CONSTANTS
    Inputs <- MCInputs
    Leftovers <- MCLeftovers
INVARIANT DeviatesExactly
INVARIANT ImmediatesAreRight
CHECK_DEADLOCK FALSE
