SPECIFICATION ServicesSpec
CONSTANTS
  NoOne = NoOne
  Callers = {c1, c2}
  Parts = {"share", "exports", "transcripts", "history", "reminders", "expiries", "digest", "feed", "tickets", "transparency"}
  MaxExports = 4
  Links = {l1, l2, l3}
  Stamps = {1, 2, 3}
  Windows <- MCWindows
  Ranges <- MCRanges
  ExportLimit = 1
  LinkLife = 1
  LastDay = 1
  MaxBlindChecks = 1
  Sessions = {n1}
  ResumeDays = 1
  FinalDay = 3
  Sweepers = {c1, c2}
  BatchSize = 1
  RetentionDays = 1
  TranscriptDays = 2
  MaxRows = 2
  Mailers = {c1, c2}
  Owners = 2
  PromoDays = 2
  SoonDays = 1
  MinGap = 1
  MaxPromos = 1
  MaxFaults = 1
  LastNotice = 5
  Streams = {c1, c2}
  FeedTenants = {t1, t2}
  Buffer = 1
  TicketLife = 2
  Second = 2
  MaxTickets = 2
  MaxEvents = 3
  LastTick = 8
  Tenants = {t1}
  EventIDs = {}
  Times = {0}
  Data = {d1, d2}
  GenesisHash <- MCGenesis
  Publishers = {c1, c2}
  MaxRecords = 3
SYMMETRY MCSymmetry
CHECK_DEADLOCK FALSE
INVARIANTS ShareIsConfined KeptUntilDue MailIsBounded FeedDelivers PublishedIsTrue
