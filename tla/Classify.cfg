CONSTANTS
    Hops <- MCHops
    MaxTTL = 7
    MaxResponding = 3
    Addresses <- MCAddresses
    NoAddress = NoAddress
    class <- MCclass
    City <- MCCity
    ASN <- MCASN
    SampleLists <- MCSampleLists
    Outputs <- MCOutputs
    Configs = {{"city", "asn"}, {"city"}, {"asn"}}
SPECIFICATION ProbeSpec
INVARIANTS
    ProbeTypeOK
    PromotedOnEvidence
    FiveSilentHopsBlock
    DeltaFitsVerdict
PROPERTIES
    SilenceIsHarmless
    PromotionOutlastsTrace
CHECK_DEADLOCK FALSE
