SPECIFICATION Spec
CONSTANTS
  Node = {n1, n2}
  Kinds = {"kafka", "kinesis", "postgres"}
  FailKinds = {"kafka", "kinesis", "postgres"}
  MaxEvents = 2
  MaxConsumers = 2
  Budgets <- TwoEvents
  None = None
PROPERTIES WrittenBeforeMark
CHECK_DEADLOCK FALSE
