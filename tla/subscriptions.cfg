SPECIFICATION Spec
CONSTANTS
  f = f
  g = g
  x = x
  y = y
  All = All
  Kinds = {"messages", "annotations", "presence"}
  Listeners = {f, g}
  Coroutines = {g}
  Names = {x, y}
  Subscribable = {x}
  Habits = {"within"}
  MaxRegistrations = 3
  MaxEmitted = 3
INVARIANTS NobodyIsPassedOver NobodyIsCalledAfterwards
