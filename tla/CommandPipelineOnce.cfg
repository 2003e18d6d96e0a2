\* One command that is retried.
CONSTANTS
  Commands = {c1}
  Invalid = {}
  Pipelines <- RetryOnly
  RetryCount = 1
  None = None
SPECIFICATION Spec
INVARIANT OncePerCommand
CHECK_DEADLOCK FALSE
