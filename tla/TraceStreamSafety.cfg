\* Two requests: one may still be on its way down while the next comes up.
SPECIFICATION Spec
CONSTANTS
  MaxConns = 2
  MaxLines = 1
  Window = 1
  Socket = 1
PROPERTY NeverReconnectsIntoError
\* The requests are used up: nothing need happen any more.
CHECK_DEADLOCK FALSE
