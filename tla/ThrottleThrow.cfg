\* Three topics in a map of two.
SPECIFICATION Spec
CONSTANTS
  Topic = {t1, t2, t3}
  Interval = 2
  MaxTopics = 2
  MaxValue = 3
INVARIANT NoTopicIsDeaf
CHECK_DEADLOCK FALSE
