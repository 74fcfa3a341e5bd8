SPECIFICATION Spec
CONSTANTS
  N = 2
  Kinds = {"shell", "system", "screen", "plain"}
  Labels = {x, y}
  MayAsk = FALSE
INVARIANT TimerStops
