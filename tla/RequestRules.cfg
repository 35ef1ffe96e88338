\* Every rule asked once about each of its inputs.
SPECIFICATION Spec
CONSTANTS
    Outbound <- OutboundInputs
    Guarded <- GuardedInputs
    Patches <- PatchInputs
    JsonEdits <- JsonInputs
    Ranges <- RangeInputs
    Literals <- LiteralInputs
    Accepts <- AcceptInputs
    Conditionals <- ConditionalInputs
    Listings <- ListingInputs
    Paths <- PathInputs
    Bodies <- BodyInputs
    AclQuestions <- AclInputs
    AclStores <- StoreInputs
    Proofs <- ProofInputs
    Tokens <- TokenInputs
    Messages <- MessageInputs
    Settings_ <- SettingsInputs
INVARIANTS
    OutboundVerdictSound GuardsAgree PatchDialectsAgree AnswersFaithful 
    AclVerdictsSound CredentialsBindRequest ConfigLayered
CHECK_DEADLOCK FALSE
