\* main's startup with every step able to fail and SIGINT at any time,
\* the factory call run by the PolicyFactory model.
CONSTANTS
    Entries <- MCEntries
    InlineName = "inline.rego"
SPECIFICATION ProxySpec
INVARIANT ProxyTypeOK
INVARIANT FactoryOutcomeInMain
INVARIANT StartupFailureReported
