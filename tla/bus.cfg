SPECIFICATION Spec
CONSTANTS
  Tasks = {"t1", "t2"}
  MemWords = 3
  Values = {0, 1}
  NumBlocks = 2
  BlockWords = 2
  Zero = 0
  Blank = 1
  Chars = {"a", "b"}
  RxChunk = 2
  PtySize = 2
  MaxTyped = 4
  MaxSent = 3
  Programs = {"tasks", "driver", "console"}
INVARIANTS TypeOK ScSound ReceivedInOrder SentInOrder
PROPERTIES BlocksReadBack TypedArrives
CHECK_DEADLOCK FALSE
