\* The cleanup of an expired session cuts its successor off from logout.
SPECIFICATION StayingUsers
CONSTANTS
  Browsers = {b1}
  Flows = {f1}
  Sids = {s1}
  Ids = {i1, i2}
  NoSid = NoSid
  NoId = NoId
  NoSession = NoSession
  NoState = NoState
  NoBrowser = NoBrowser
  MaxAge = 1
  StateAge = 1
PROPERTIES
  LogoutSignsOut
