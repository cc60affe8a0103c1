SPECIFICATION Spec
CONSTANTS
  Events = {e1, e2, e3, x1}
  Foreign = {x1}
  Publishers = {p1, p2}
  Followers = {f1}
  PageSize = 1
  MaxAdvance = 2
PROPERTIES ImplementsFeed EveryRowIsFollowed
