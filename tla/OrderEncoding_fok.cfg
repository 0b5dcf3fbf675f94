\* Every CreateOrder under every setting.
SPECIFICATION Spec
INVARIANT DocumentedFillOrKill
CHECK_DEADLOCK FALSE
