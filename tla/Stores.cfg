SPECIFICATION MCSpec
CONSTANTS
  t1 = t1
  t2 = t2
  t3 = t3
  NULL = NULL
  v1 = v1
  v2 = v2
  Kinds = {"stl", "plugin", "bloom", "prefix"}
  Thread = {t1, t2, t3}
  Vector = {v1, v2}
  MaxCalls = 4
  BloomVector <- Ring
  Bit <- Ring
  HashValues <- RingHash
  hash_functions = 2
  bitlen = 3
  VECTOR_WIDTH = 8
  Bits = 16
  Markings <- SomeMarkings
  MaxDiffering = 2
INVARIANTS
  MarkingsCounted
  AnswerBacked
  WordsLocated
  WordsRebuilt
PROPERTIES
  ImplementsVectorStore
  BloomImplementsVectorStore
  TreeImplementsVectorStore
  PluginCallsReturn
CHECK_DEADLOCK FALSE
