SPECIFICATION Spec
CONSTANTS
  Endpoints <- MCEndpoints
  Schemas <- MCSchemas
  Base <- MCBase
  Static <- MCStatic
  Route <- MCRoute
  Category <- MCCategory
  ByTool <- MCByTool
  ByCategory <- MCByCategory
  Expose <- MCExpose
  MaxHits = 2
  Values <- MCValues
  Params <- MCParams
  Required <- MCRequired
  SelectorKeys <- MCSelectors
  Writes <- MCWrites
  Default <- MCDefault
  RenameName <- MCRename
  ByAddress = "renameAt"
  ImportPath = "import"
  ImportArgs <- MCImportArgs
  Paged <- MCPaged
  Listing = "listing"
  Tolerance = 1
  MaxRows = 5
  Limits <- MCLimits
  Cap = 3
  Bulk <- MCBulk
  Answers <- MCAnswers
  NoCall = NoCall
INVARIANT RedirectGoesByAddress
