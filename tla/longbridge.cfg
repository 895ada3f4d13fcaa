SPECIFICATION FairMCPSpec
CONSTANTS
    Threads = {"admin", "agent1", "agent2"}
    Agents = {"agent1", "agent2"}
    MaxTokens = 2
    MaxLinks = 1
    MaxOps = 3
    MaxFaults = 1
    MaxRetries = 1
    Nobody = "nobody"
INVARIANTS TokensAgree
PROPERTIES CallEnds
CHECK_DEADLOCK FALSE
