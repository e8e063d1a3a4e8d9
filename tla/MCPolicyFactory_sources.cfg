CONSTANTS
    Entries <- MCEntries
    InlineName = "inline.rego"
SPECIFICATION Spec
INVARIANT TypeOK
INVARIANT FactoryOutcome
