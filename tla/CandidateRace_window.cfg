SPECIFICATION Spec
INVARIANTS
    ReturnedConnectionOpen
