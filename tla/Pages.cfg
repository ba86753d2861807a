SPECIFICATION Spec
CONSTANTS
  Empty = Empty
  iva = iva
  ivan = ivan
  Short = {Empty}
  Long = {ivan}
  Text <- MCText
  Completions <- MCCompletions
  NoText = NoText
  name = name
  Column = {name}
  ann = ann
  bob = bob
  eve = eve
  Ranking <- MCRanking
  Matching <- MCMatching
  Flag = {"disabled"}
  Flagged <- MCFlagged
  Admin = FALSE
  here = here
  there = there
  Domain = {here, there}
  DomainOf <- MCDomainOf
  Offered = {here}
  FirstDomain = here
  NoDomain = NoDomain
  PageSize = 1
  Start = Start
  MaxRows = 2
  MaxMore = 1
  Soap = Soap
  Docflow = Docflow
  ost = ost
  OSTicket = {ost}
  purchase = purchase
  odd = odd
  ringing = ringing
  blank = blank
  letter = letter
  bare = bare
  scan = scan
  Item = {purchase, odd, ringing, blank, letter, bare, scan}
  Target = {scan}
  Holder <- MCHolder
  Blank = {blank}
  Unfit = {bare}
  Unreadable = {odd}
  Visitor = {v1, v2}
  Tab = {t1, t2}
  Request = {r1, r2}
  Place = {phonebook}
  FirstPage = phonebook
  Allowed = {phonebook}
  Lost = Lost
  Auth = Auth
  None = None
  FormField = {lastName, birthday}
  NameField = {lastName}
  Listed = {lastName}
  Birthday = birthday
  Word = {noWord, word}
  noWord = noWord
  Call = {c1, c2}
  MaxCalls = 2
  PageQuery = PageQuery
  NoProfile = NoProfile
  File = {f1, f2}
  Fetch = {q1, q2, q3}
  NoFile = NoFile
  Colleague = {ann, bob, eve}
  Chief <- MCChief
  Hidden = {eve}
  NoOne = NoOne
INVARIANTS
  PageTypes
  ListIsOne
  SuggestionsFit
  WhoIsShown
  NothingVanishes
  SavedAsShown
  FileArrives
  CardIsAsked
CHECK_DEADLOCK FALSE
SYMMETRY Interchangeable
