SPECIFICATION Spec
CONSTANTS
  Code = {a1, a2}
  MaxDepth = 2
PROPERTY RestoresR0ToR12
\* _error is an endless loop.
CHECK_DEADLOCK FALSE
