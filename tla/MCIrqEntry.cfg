SPECIFICATION Spec
CONSTANTS
  Code = {a1, a2}
  MaxDepth = 2
INVARIANTS TypeOK FrameIsComplete
PROPERTY Resumes
\* _error is an endless loop.
CHECK_DEADLOCK FALSE
