\* Two windows, two reports, and no bound on restarts.
SPECIFICATION FairSpec
CONSTANTS
  browse = browse
  buy = buy
  other = other
  ad = ad
  catalog = catalog
  payment = payment
  None = None
  Journeys = {browse, buy}
  Default <- MCDefault
  Services = {ad, catalog, payment}
  Weight <- MCWeight
  Configured <- MCConfigured
  Reports <- MCReports
  Windows <- MCWindows
  ProfileThreshold <- MCThresholds
  Full = 4
  EndpointThreshold = 2
  AggregateThreshold = 3
  CrossProfileThreshold = 4
  Mode = "warn"
  MaxWindows = 2
INVARIANTS
  VerdictIsBacked
  MirrorsAgree
PROPERTIES
  RemovalIsReported
  OutageShows
