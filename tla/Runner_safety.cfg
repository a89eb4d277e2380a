SPECIFICATION Spec
CONSTANTS
    Jobs = {j1, j2}
SYMMETRY JobSymmetry
INVARIANTS CounterExact CounterExitIdle PipelineOrder RecordingFlagged
CHECK_DEADLOCK FALSE
