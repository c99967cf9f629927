SPECIFICATION RoomAlone
CONSTANTS
  Host = Host
  Saved = {g1}
  Joins = {j1, j2}
  Invitations = {i1, i2, i3}
  None = None
  MaxPartyMembers = 3
  MaxEpoch = 4
  MaxLeases = 1
  MaxIntents = 1
  a = a
  b = b
  ta = ta
  tb = tb
  DmMembers = {a, b}
  DmHost = a
  DmTurns = {ta, tb}
  Author <- Sends
  Manifest = 1
  MaxRoomEpoch = 1
  MaxResets = 1
  MaxProcess = 1
  MaxWorld = 1
  NoTurn = NoTurn
  r1 = r1
  r2 = r2
  HostRequests = {r1, r2}
  Table <- OneTable
  Nothing = Nothing
  MaxPorts = 3
  GuestTurns = {g1t, g2t}
  NoGuestTurn = NoGuestTurn
  MaxQuestions = 2
  MaxUpsets = 1
  PageSize = 2
  MaxChanges = 5
  MaxOnWire = 2
  Joiners = {p1, p2}
  Drafts = {d1, d2, d3}
  Heroes = {h1, h2}
  Approvals = {c1a, c2a}
  MaxDrafts = 2
  PartyLimit = 3
  NoDraft = NoDraft
  MaxCampaign = 3
SYMMETRY Alike
INVARIANTS InviteAdmitsSavedPlayer
CHECK_DEADLOCK FALSE
