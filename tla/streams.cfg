SPECIFICATION FairSpec
CONSTANTS
  Node = {n1, n2}
  Kinds = {"kafka", "kinesis", "postgres"}
  FailKinds = {"kafka", "kinesis", "postgres"}
  MaxEvents = 2
  MaxConsumers = 2
  Budgets <- Share
  None = None
INVARIANTS OneConsumer
PROPERTIES Delivers Consumed
CHECK_DEADLOCK FALSE
