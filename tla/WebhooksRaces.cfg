SPECIFICATION Spec
CONSTANTS
  Endpoints = {x1, x2}
  Subscribed = {x1}
  Wildcards = {x2}
  EventIds = {e1}
  MaxAttempts = 2
  Services = {d1}
  Retriers = {t1, t2}
  Admins = {a1}
  MaxPosts = 4
  MaxCrashes = 1
  None = None
INVARIANTS
  AttemptsWerePosts
  DeadLetterEarned
  PendingHasOwner
PROPERTIES
  RetriesWithinMax
