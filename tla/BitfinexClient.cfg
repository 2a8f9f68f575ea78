SPECIFICATION Spec
CONSTANTS
  taker = taker
  maker = maker
  block = block
  Orders = {taker, maker, block}
  Taking = {taker}
  Reducing = {taker}
  Size <- MCSize
  Scenes <- MCScenes
  MaxMishaps = 1
CHECK_DEADLOCK FALSE
INVARIANTS EngineTruth NothingSentBlind OpenIsWatched
