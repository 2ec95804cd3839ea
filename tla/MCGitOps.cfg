SPECIFICATION ProposalSpec
CONSTANTS
    Proposals = {"scale", "limit", "image"}
    Files = {"values", "deploy"}
    FileOf <- ChangedFile
    MaxFaults = 3
INVARIANT StrangersAreTroubled
PROPERTY ProposedOrStuck
CHECK_DEADLOCK FALSE
