CONSTANTS
  job1 = job1  job2 = job2  home = home  rent = rent  None = None
  JobSeq <- MCJobSeq  Providers <- MCProviders  Offers <- MCOffers  Time <- MCTime
  Policies <- MCPolicies  Cap <- MCCap  Span <- MCSpan
  AllowPaid = TRUE  MaxAttempts = 2  Backoff = 1  Avoidance = 1
  MaxNow = 1  MaxUpsets = 2
SPECIFICATION Spec
INVARIANTS LedgerExact BudgetKept PlanSound
PROPERTIES PlacedRightly
