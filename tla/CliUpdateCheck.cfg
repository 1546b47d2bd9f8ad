SPECIFICATION FairSpec
CONSTANTS
  MaxVersion = 4
  Interval = 2
  Sound <- SoundVersions
  Usable <- UsableVersions
  Updaters <- OneUpdater
  Limit <- Disturbed
  u1 = u1
INVARIANTS
  LinksNeverDangle
  SettledIsSound
PROPERTIES
  
  UpdateArrives
