SPECIFICATION AssemblySpec
CONSTANTS
    Customs = {custom}
    Providers = {openai, anthropic}
    Unknown = Unknown
    ApiKeys = {openai}
    NoConfig = NoConfig
    MaxConfigs = 3
CHECK_DEADLOCK FALSE
INVARIANTS
    AssemblyTypeOK
    AssemblyAsDefined
