\* Two replicas, a registration and a change of settings, and one fault.
CONSTANTS
    r1 = r1
    r2 = r2
    o1 = o1
    o2 = o2
    Replica = {r1, r2}
    OperationID = {o1, o2}
    Stamped = {o1}
    None = None
    MaxFaults = 1
SPECIFICATION Spec
SYMMETRY ReplicaSymmetry
INVARIANTS TypeOK MachinesAgree WrittenByPrimary
PROPERTIES ImplementsLedger
CHECK_DEADLOCK FALSE
