CONSTANT
    Events = {e1, e2, e3}
SPECIFICATION DrainSpec
SYMMETRY Interchangeable
CHECK_DEADLOCK FALSE
PROPERTY
    QuarantinedAwaitTriage
