\* Three bytes in four cells: every combination of positions, split and whole.
CONSTANTS
  BUFFER_SIZE = 3
  Bytes = {0, 1}
SPECIFICATION Spec
INVARIANTS InBounds NoOverwrite
PROPERTIES QueueSpec
