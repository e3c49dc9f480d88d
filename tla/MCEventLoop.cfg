CONSTANTS
  t1 = t1
  t2 = t2
  f1 = f1
  f2 = f2
  c1 = c1
  Threads = {t1, t2}
  Functors = {f1, f2}
  Channels = {c1}
SPECIFICATION PromptSpec
INVARIANT NoLostWakeup
PROPERTIES QueuedFunctorRuns QuitStopsLoop ImplementsTaskQueue
