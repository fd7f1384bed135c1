SPECIFICATION Spec
CONSTANTS
  me = me
  ann = ann
  bob = bob
  Bob = Bob
  None = None
  NoFile = NoFile
  Me = me
  Partners = {bob}
  Names = {bob, Bob}
  Fold <- MCFold
  Lists <- MCLists
  Kits <- MCKits
  MaxLog = 3
  MaxTimers = 2
  MaxQueue = 2
  Themes <- MCThemes
  Profiles <- MCProfiles
  Day = 4
  Evening = 3
  Morning = 1
  Quiets <- MCQuiets
  Others <- MCOthers
  General = general
  Rooms = {general, lab}
INVARIANTS ActsOnWhatIsShown UnreadIsTrue ReceiptIsComing
PROPERTIES SaidWhereShown SettingsSurvive
CHECK_DEADLOCK FALSE
