CONSTANTS
    Providers = {"openai", "anthropic", "gemini", "ollama", "mock"}
    Pieces = 2
    MaxTries = 2
    MaxAttempts = 2
CHECK_DEADLOCK FALSE
SPECIFICATION StreamSpec
INVARIANTS
    DeliveredIsPrefix
    DoneMeansKept
    UsageBilled
PROPERTIES
    CallEnds
