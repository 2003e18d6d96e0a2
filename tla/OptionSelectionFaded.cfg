\* Pages fade out and in.
CONSTANTS
  Setups <- Fading
SPECIFICATION Spec
PROPERTY UserSelectsWhatIsShown
