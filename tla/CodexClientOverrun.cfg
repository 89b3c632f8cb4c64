CONSTANT Scenes <- LateScenes
SPECIFICATION Spec
CHECK_DEADLOCK FALSE
PROPERTIES
  RefusedOnlyWhileRunning
