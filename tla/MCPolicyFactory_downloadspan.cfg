CONSTANTS
    Entries <- MCEntries
    InlineName = "inline.rego"
SPECIFICATION Spec
INVARIANT DownloadSpanErrorIsItsOwn
