CONSTANT Drives <- AllDrives
SPECIFICATION Spec
INVARIANTS ReadsAsProven ProbeComplete ModeRestored
CHECK_DEADLOCK FALSE
