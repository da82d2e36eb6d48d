SPECIFICATION Spec
CONSTANTS
  None = None
  Words <- MCWords
  west = west
  chip = chip
  elf = elf
  BoardFiles <- MCBoardFiles
  AppTrees <- MCAppTrees
  Configs <- MCConfigs
  Selections <- MCSelections
  MaxPlans = 2
INVARIANT DirPerCombination
