\* The threads may block each other for good
CONSTANT MaxAsked = 3
SPECIFICATION Spec
INVARIANTS WaitsForPost
CHECK_DEADLOCK FALSE
