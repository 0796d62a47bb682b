CONSTANTS
  NumTargets = 1
  MaxWaits = 2
SPECIFICATION Spec
CHECK_DEADLOCK FALSE
INVARIANT HeartbeatMeansSilence
