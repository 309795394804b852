SPECIFICATION PagesSpec
CONSTANTS
  Users = {u1, u2}
  Saves = {s1, s2, s3}
  noName = noName
  name = name
  noAvatar = noAvatar
  avatar = avatar
  utc = utc
  UTC = utc
  NoZone = NoZone
  NoForm = NoForm
  NoUser = NoUser
  DisplayNames <- TwoNames
  Zones <- OneZone
  Avatars <- TwoAvatars
  Default <- NewUser
  Creators = {c1, c2, c3}
  ChannelNames = {n1, n2}
  NoName = NoName
SYMMETRY Symmetry
ACTION_CONSTRAINT OneForm
CHECK_DEADLOCK FALSE
INVARIANTS
  VersionsAreSaves
  SavedPageIsCurrent
  MakersAreToldTruth
