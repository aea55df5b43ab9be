CONSTANTS
  Sections <- MCSections
  ParagraphCosts = {1, 2}
  SentenceCosts = {1, 2}
  HeadCost = 1
  TailRoom = 4
  Budget = 9
  Books <- MCBooks
  CharCount <- MCCharCount
  FetchChunk = 2
  MaxBatch = 4
  Backs = {0, 1, 2}
  Documents <- MCDocuments
  BodyOrders <- MCBodyOrders
  Depths = {1, 2, 9}
  PageSizes = {1, 2, 3}
  Word = word
  Cjk = cjk
  Terms <- MCTerms
  Contents <- MCContents
  Limits = {1, 2}
  FlushFactor = 1
  FlushExtra = 0
  ThreadCounts = {1, 2}
  Texts <- MCTexts
  ItemLimits = {1, 2}
  CharLimits = {2, 3}
  Windows = {0, 1}
  DocVersions <- MCVersions
  MetaKeys <- MCKeys
  Widths = {1, 5}
  Parsed <- MCParsed
  BlockMaps <- MCMaps
  MaxOffset = 35
  Ingests <- MCIngests
  ChunkChars = 4
  ChunkBytes = 80
  VarintBase = 8
  MaxKey = 2
SPECIFICATION MCSpec
CHECK_DEADLOCK FALSE
INVARIANTS
  ChunksPartition
  ChunksWithinBudget
  PagesMatchStream
  PositionsInvertStream
  ReassemblesLayout
  AnswersRun
  WalkIsExact
  BudgetHonoured
  MarksRight
  ScopeListedOnce
  PageForestExact
  RowsNestBack
  BoundaryExact
  SearchIsExact
  UnitPagesExact
  TextPagesExact
  ContextExact
  ReadersAgree
  SegmentationExact
  StoreRebuilds
PROPERTIES
  WalkEnds
