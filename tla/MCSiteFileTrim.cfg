\* The remarks of ParseLine.
SPECIFICATION SiteSpec
CONSTANTS
  Documents <- MCDocuments
  FieldNames <- MCFieldNames
  Values <- MCValues
  Tables <- NoTable
  TargetWidths <- Widths
  DefaultTarget = 3
  LayoutsOf <- MCLayoutsOf
  Devices <- Screens
INVARIANT TrimsOutsideQuotes
