SPECIFICATION MCSpec
CONSTANTS
  Size = 2
  LFCR = FALSE
  Messages <- MCMessages
  MaxMessages = 4
  Options <- MCOptions
  Hardware <- MCHardware
  CpiTexts <- MCCpiTexts
  CpmbTexts <- MCCpmbTexts
  Operators <- MCOperators
  OpNames <- MCOpNames
  Lists <- MCLists
  MaxReady = 2
  MaxNames = 1
  Texts <- MCTexts
  Numbers <- MCNumbers
  PackSize = 141
  ADDR_MAXLEN = 32
  DATA_MAXLEN = 164
  CBM_SIZE = 88
  Pdus <- MCPdus
  Broadcasts <- MCBroadcasts
  Events <- MCEvents
  TypedLines <- MCTypedLines
  MaxEvents = 2
  MaxLines = 2
  Day = 4
  LongWord = 100
  TableSize = 4
  Reports <- MCReports
  Axial <- MCAxial
  CN_THRESHOLD = 38
  SAMPLES_NEEDED = 1
  BAD_SAMPLES_ALLOWED = 1
  Updates = 4
  MaxFiles = 5
  Reads = 3
  TestTime = 2
  MaxSeconds = 3
  MaxTests = 2
  MaxSentences = 3
  MaxSamples = 2
  Heard <- MCHeard
  GPS_TEST_TIME = 2
  TouchSamples = 2
  Voltages <- MCVoltages
  VoltageReads = 2
  gta02_revision = 6
  MaxTestlets = 2
  Ring = 26
  CMDQ_LOOP = 2
  Images <- MCImages
  MaxCalls = 5
INVARIANT LinesDelivered
 
INVARIANT ParsedAsWritten
INVARIANT TextKept
 
INVARIANT GpsResultTrue
INVARIANT MotionTrue
 
INVARIANT PictureAsAsked
CHECK_DEADLOCK FALSE
