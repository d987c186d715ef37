\* Requests of a team, with n8n reset under them.
SPECIFICATION FairSpec
CONSTANTS
  Teams = {t1}
  Requests = {r1, r2}
  NoTeam = NoTeam
  NoCookie = NoCookie
  TTL = 2
  MaxResets = 2
INVARIANTS
  TypeOK
  AtMostOnce
  RetryIsCurrent
PROPERTIES
  OnlyResetsSpoil
  StaleCookieLeaves
