CONSTANTS
    Runners = {r1, r2}
    Replayers = {c1}
    Prompts = 2
    MaxAttempts = 2
    MaxStalls = 1
    MaxEntries = 2
    None = None
CHECK_DEADLOCK FALSE
SPECIFICATION FairSpec
INVARIANTS
    PromptBilledOnce
    CompletedIsBilled
PROPERTIES
    EntryEnds
