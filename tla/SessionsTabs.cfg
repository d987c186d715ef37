\* One browser with two tabs logging in, one Keycloak session after another.
SPECIFICATION NumberedSpec
CONSTANTS
  Browsers = {b1}
  Flows = {21, 22}
  Sids = {11, 12}
  Ids = {1, 2}
  NoSid = NoSid
  NoId = NoId
  NoSession = NoSession
  NoState = NoState
  NoBrowser = NoBrowser
  MaxAge = 1
  StateAge = 1
INVARIANTS
  TypeOK
  IndexSound
  IndexComplete
PROPERTIES
  LogoutReaches
  EndedStaysEnded
  RevocationCatchesUp
