\* Three spend calls against a queue of two, with the fairness of the runtime.
SPECIFICATION QueueFairSpec
CONSTANTS
  Requests = {r1, r2, r3}
  Limit = 2
PROPERTIES
  ImplementsStore
  EveryOperationFinishes
  EveryCallAnswered
