\* Two ticks of a battle in which anybody may die at any time.
SPECIFICATION FairSpec
CONSTANTS
  Ship = {1, 2, 3, 4, 5}
  Base = {6, 7, 8}
  TeamOf <- MCTeamOf
  Dummy = {2, 3, 5}
  NumFriends = 2
  NumEnemies = 3
  NumFriendFacilities = 2
  NumEnemyFacilities = 1
  Ticks = 2
INVARIANTS
  TypeOK
  SomebodyToFind
  SeesWhatLives
  EvenRepeats
  InputsKeepMeaning
  InputsAreFresh
PROPERTIES
  BattleEnds
