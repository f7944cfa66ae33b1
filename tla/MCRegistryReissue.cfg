SPECIFICATION Spec
CONSTANTS
  Bindings = {1}
  Terminal = "open"
  NoIntent = NoIntent
PROPERTIES AcceptedNeverReissued
