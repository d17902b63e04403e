\* Two callers, two documents, four kinds of listeners, one failing statement.
SPECIFICATION Spec
CONSTANTS
  a = a
  b = b
  k = k
  m = m
  raiser = raiser
  copy = copy
  task = task
  once = once
  Keys = {k, m}
  Threads = {a, b}
  Listeners = {raiser, copy, task, once}
  Work <- WorkOf
  Kind <- KindOf
  Pattern <- PatternOf
  First <- FirstOf
  MaxCalls = 3
  MaxTime = 2
  MaxFaults = 1
INVARIANTS MirrorAgrees
PROPERTIES ExpireMeansGone EveryChangeHeard
