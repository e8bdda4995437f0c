CONSTANTS
  Table <- MCTable
  ModuleOf <- MCModuleOf
  TypeOf <- MCTypeOf
  Default <- MCDefault
  Texts <- MCTexts
  Size = 32
  MaxU8 = 255
  MaxU32 = 2000000000
  Gpios = {4, 5}
  Printed = 10
  Wide = 100000
  Infinite = 100000000
  CommMode = "comm_mode"
  Modes = {0, 1}
  MaxSaves = 2
SPECIFICATION SettingsSpec
PROPERTIES SavedIsRead DiffForetellsBoot
