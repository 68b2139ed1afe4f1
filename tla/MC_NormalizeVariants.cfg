SPECIFICATION Spec
CONSTANTS
    Tags <- TheTags
    MaxEvents = 6
    Texts <- TheTexts
    Writings <- TheWritings
    Allowlist <- TheAllowlist
    HostNames <- TheHostNames
    Dumps <- TheDumps
    Prefixed <- ThePrefixed
    Models <- TheModels
    MaxRuns = 2
    MaxMigrations = 4
INVARIANTS
    VariantsMeetBeforeMarks
