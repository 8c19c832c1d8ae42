CONSTANTS
  n1 = n1
  n2 = n2
  n3 = n3
  Proc = {p1, p2}
  Entry = {picture}
  Text = {text}
  Name <- Names
  None = None
  Place <- Places
  FileSize <- Sizes
  Asked <- Paths
  AskedSize <- BufferSizes
  NoEntry = NoEntry
  x = x
  y = y
  z = z
  zip = zip
  folder = folder
  lua = lua
  Module = {zip, folder}
  Zipped = {zip}
  DllName = {x, y, z}
  Worlds <- MCWorlds
  LuaName = {lua}
  Exports <- LuaModules
  Installable <- SameName
  NoVer = NoVer
  MaxChanges = 1
SPECIFICATION MCSpec
INVARIANTS DescriptorsReadTheirEntry ListsTheTree ReadsTheFile StoredAndBoundAreLive
PROPERTIES UnpackedOnce LibrariesStay LoadsReturn
INVARIANTS SecureModulesVerified OpenModulesAreExtensions
PROPERTIES HandlesStay RejectionsStay
