SPECIFICATION Spec
CONSTANTS
  taker = taker
  maker = maker
  block = block
  Orders = {taker, maker, block}
  Taking = {taker}
  Reducing = {taker}
  Size <- MCSize
  Scenes <- MCBlock
  MaxMishaps = 1
INVARIANTS FilledOnce
CHECK_DEADLOCK FALSE
