CONSTANTS
  Accounts = {a1, u1}
  Founders = {a1}
  Guests = {h1, h2}
  Desks = {k1, k2}
  MaxAccountRequests = 2
  Sessions = {x1, x2}
  Clients = {k1, k2}
  Recoveries = {h1, h2}
  MaxPasswords = 2
  MaxChanges = 1
  f1 = f1
  f2 = f2
  f3 = f3
  Files = {f1, f2, f3}
  Titles = {"t1", "t2"}
  TitleOf <- MCTitleOf
  AuthorOf <- MCAuthorOf
  Unknown = "none"
  Importers = {k1, k2}
  Maintainers = {k1, k2}
  MaxJobs = 2
  MaxPapers = 2
  Works = {x1, x2}
  Batches = {1, 2}
  Clerks = {k1, k2}
  MaxShelf = 4
  Homes = {h1, h2}
  Categories = {g0, g1}
  Default = g0
  DocTitles = {x1, x2}
  Archivists = {k1, k2}
  MaxDocuments = 2
  CodeHomes = {h1, h2}
  Archives = {x1, x2}
  NoArchive = nosum
  Labels = {x1, x2}
  NoLabel = nolabel
  Coders = {k1, k2}
  MaxArtifacts = 2
  MaxCodeVersions = 2
  Uses = {x1, x2}
  Visitors = {k1, k2}
  MaxStock = 2
  MaxLedger = 3
  MaxEvents = 5
  ExportLimit = 2
  MaxTries = 2
SPECIFICATION MCSpec
CONSTRAINT OneThingAtATime
INVARIANTS
  RecordsAgree OldSessionsEnd ExportsAreTrue
PROPERTIES
  AccountsStayUsable OnlyOverlapsSpoilPapers
  OnlyEarlyChecksSpoilShelves OnlyEditsAndLateRequestsUpsetStock
SYMMETRY Symmetry
CHECK_DEADLOCK FALSE
