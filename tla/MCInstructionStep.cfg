SPECIFICATION Spec
CONSTANTS
  MaxDepth = 3
  MaxWork = 1
  Places = 2
  Latency <- MCLatency
  SelfTarget = FALSE
INVARIANTS WorkIsOwn ReturnsToInterrupted ResumesWhereDue
PROPERTIES IrqTaken
