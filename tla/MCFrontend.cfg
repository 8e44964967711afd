SPECIFICATION FrontendSpec
CONSTANTS
  k1 = k1
  k2 = k2
  Calls = {k1, k2}
  May <- OneOfEach
  Currencies = {usd, eur}
  Retries = 1
  Tabs = {t1, t2}
  App = app
  PhoneRequests = {r1, r2}
  MaxStarts = 3
  Products = {p, q}
  MaxQuestions = 4
  Given = {0, 14, 15, 25, 35, 44, 50}
  MaxReviews = 7
  MaxEntries = 3
INVARIANTS
  ReadYourWrites
  OneShopper
  AnswerFits
  PercentsAddUp
  DecodeIsExact
  RequestArrives
PROPERTY
  ScreenCatchesUp
CHECK_DEADLOCK FALSE
