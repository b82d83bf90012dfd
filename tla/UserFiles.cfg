SPECIFICATION FairSpec

CONSTANTS
  Modes = {"htpasswd", "emails"}
  Texts <- ThreeTexts
  EditKinds = {"write", "replace", "remove", "rename"}
  MaxEdits = 3

INVARIANTS
  KeepsLastGood

PROPERTIES
  EventuallyLoaded
  NoRollback

CHECK_DEADLOCK FALSE
