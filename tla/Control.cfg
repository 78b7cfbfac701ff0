SPECIFICATION FairSpec
CONSTANTS
  Disk = {1, 2}
  Ext = {3}
  Label = {1, 2, 3}
  Flaky = {}
  Cmds <- MCCmds
  Before <- MCBefore
  Rare <- MCRare
  MaxInputs = 3
  QueueMax = 1
CHECK_DEADLOCK FALSE
INVARIANTS
  DefaultDrive
  FilesAccounted
  LifeSound
PROPERTIES
  ControlProgress
