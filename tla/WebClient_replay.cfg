SPECIFICATION FlakySpec
CONSTANTS
  Loops = {}
  Form = form
  Captures = {x1}
  MaxAttempts = 2
  MaxReloads = 1
PROPERTY QueuedCapturesArrive
CHECK_DEADLOCK FALSE
