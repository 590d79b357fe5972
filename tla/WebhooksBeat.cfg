SPECIFICATION Spec
CONSTANTS
  Endpoints = {x1}
  Subscribed = {x1}
  Wildcards = {}
  EventIds = {e1}
  MaxAttempts = 3
  Services = {d1}
  Retriers = {t1}
  Admins = {}
  MaxPosts = 4
  MaxCrashes = 0
  None = None
PROPERTIES
  DueIsRetried
