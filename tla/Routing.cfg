CONSTANTS
    Providers = {"openai", "gemini"}
    Rules <- MCRules
    Pricing <- MCPricing
    Configured = {"openai", "gemini"}
    Candidates <- MCCandidates
    RawAb <- MCRawAb
    BudgetModel = "gpt-4o-mini"
    MaxAttempts = 2
    FailureThreshold = 2
    Latencies = {1, 2000}
    MaxSamples = 1
SPECIFICATION RoutingSpec
INVARIANTS
    RoutedAsAsked
    UnavailableMeansOutage
    SamplesHonest
PROPERTIES
    RoutingEnds
