SPECIFICATION Spec
CONSTANTS
  Machines = {"pages"}
  s1 = s1
  s2 = s2
  s3 = s3
  n1 = n1
  n2 = n2
  n3 = n3
  v1 = v1
  v2 = v2
  c1 = c1
  c3 = c3
  sku = sku
  num = num
  the = the
  u1 = u1
  u2 = u2
  u3 = u3
  u4 = u4
  Sigs = {s1, s2, s3}
  NsOf <- SigSpaces
  Vecs = {v1, v2}
  Sim <- Likeness
  Threshold = 8
  Sizes = {1, 2, 4}
  MaxEntries = 2
  MaxBytes = 3
  NoOwner = NoOwner
  Unlimited = Unlimited
  Clients = {1, 2}
  Backends = {"dynamodb", "redis"}
  CacheKeys = {c1, c3}
  SpaceOf <- KeySpaces
  MaxPuts = 2
  MaxInvalidations = 2
  Nil = Nil
  Callers = {1, 2}
  One = 2
  Rate = 1
  Capacity = 3
  LastTick = 5
  Loops = {1, 2}
  Texts = {u1, u2}
  LongestBatch = 3
  StoreLimits = {0, 1, NoLimit}
  MaxEmbeds = 3
  NoLimit = NoLimit
  Missing = Missing
  DocIds = {1, 2}
  DocTexts <- SomeTexts
  Questions <- SomeQuestions
  WordParts = {the, sku, num}
  StopWords = {the}
  Idf <- IdfTable
  Tags = {1, 2, NoTag}
  NoTag = NoTag
  Filters <- SomeFilters
  NoDoc = NoDoc
  NoIdf = NoIdf
  RrfK = 1
  LongestList = 3
  NoVector = NoVector
  Askers = {1, 2}
  Workers = 2
  Query = u1
  Setups <- SomeSetups
  Outputs <- SomeOutputs
  KeyOf <- Keyed
  Blank = 0
  Found <- Results
  MaxAsks = 2
  MaxTop = 2
  Unknown = Unknown
  Failed = Failed
  NoCase = NoCase
  AnyRelation = AnyRelation
  NoPath = NoPath
  Corpora <- SomeCorpora
  NoText = u4
  BatchSize = 2
  MaxRuns = 3
  NoChunk = NoChunk
  Unit = 10000
  Discount <- Logs
  Matches = 3
  ServicePage = 2
  TopKs = {0, 2, 4, 8}
  MaxTopK = 7
  PageSizes = {0, 2, NoSize}
  NoSize = NoSize
  KeyLimit = 2
  TokenField = "nextToken"
  MaxAttempts = 2
  LastText = 2
  Exported = {1, 2}
  ListPage = 2
  ImportBatch = 2
  IndexDim = 2
  Dims = {1, 2}
  LastVersion = 2
  MaxImports = 2
  AsyncDocs = {1, 2}
  Batches <- SomeBatches
  MaxTasks = 2
  Attempts = 2
  Searchers = {1}
  NoAnswers = NoAnswers
  Namespaces = {n1, n2, n3}
  Docs = {1, 2, 3}
  Copies = {v1}
  MaxVectors = 2
  Policy = "lru"
  None = None
INVARIANTS
  WholeAnswer
CHECK_DEADLOCK FALSE
