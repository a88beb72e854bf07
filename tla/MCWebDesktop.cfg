\* The part in use has its own number of asks.
CONSTANTS
  Budget <- MCBudget
  Order <- MCOrder
  Payloads <- MCPayloads
  TabIds = {t1, t2}
  Texts = {"x", "y"}
  MaxWrites = 2
  RowsOf <- MCRowsOf
  Home = "r"
  Queries <- MCQueries
  Samples <- MCSamples
  Searches <- MCSearches
  Views <- MCViews
  Histories <- MCHistories
  MaxDrawn = 3
  RangeOf <- MCRangeOf
  MaxPoints = 6
  Near = 1
  APP_IDS <- MCAppIds
  DOCK_HIDDEN_IDS = {"domains"}
  OldOrders <- MCOldOrders
  Folders <- MCFolders
  Grids <- MCGrids
  Stored <- MCStored
  BuiltIn = {"crescent", "valley"}
  Default <- MCDefault
  Images = {"i", "j"}
  Levels = {5, None}
  LevelRange <- MCRange
  MaxOps = 3
  None = None
SPECIFICATION Spec
INVARIANTS TerminalInv EditorInv SelectionInv TabsChartsInv DockInv ShortcutsInv SettingsInv
PROPERTY SessionSettles
CHECK_DEADLOCK FALSE
