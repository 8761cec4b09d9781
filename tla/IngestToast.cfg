CONSTANTS
  Me = me
  MaxInbox = 1
  MaxSettles = 2
  Users = {me}
  Feeds = {f1}
  Outcomes = {"unchanged"}
  MaxRuns = 2
  Cooldown = 0
  Ttl = 0
SPECIFICATION ToastSpec
INVARIANTS
  TabTypeOK
PROPERTY ButtonReleased
