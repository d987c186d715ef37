----------------------------- MODULE CachedSecret -----------------------------
(***************************************************************************)
(* What a cache of a secret that somebody else rotates promises: it shows  *)
(* a version the secret has had, and while the process lives it never goes *)
(* back to an older one.                                                   *)
(***************************************************************************)
EXTENDS Naturals

CONSTANT None   \* nothing is shown

VARIABLES
  current,   \* the newest version
  shown      \* the version the cache shows

svars == <<current, shown>>

CacheInit == current = 0 /\ shown = None

Rotated == current' = current + 1 /\ UNCHANGED shown

Refreshed ==
  /\ shown' \in 0 .. current
  /\ shown # None => shown' >= shown
  /\ UNCHANGED current

Forgotten == shown' = None /\ UNCHANGED current

CacheSpec == CacheInit /\ [][Rotated \/ Refreshed \/ Forgotten]_svars
================================================================================
