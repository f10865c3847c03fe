SPECIFICATION Spec
CONSTANTS
    HaltPolls = 3
    ResetPolls = 3
    RunPolls = 3
INVARIANT RunningIsReported
