SPECIFICATION Campaign
CONSTANTS
  h1 = h1
  h2 = h2
  n1 = n1
  Heroes = {h1, h2}
  Npcs = {n1}
  MaxHp = 2
  Cells = {0, 1, 2}
  Speed = 1
  StopRound = 2
  Root = h1
  Requests = {r1}
  Callers = {c1, c2}
  Orders <- HeroFirst
  Posts <- Apart3
  Seeds <- Dice
  Streaks <- SaveDice
  Naps = {1}
  Scene = 1
  Hour = 2
  LongRest = 3
  RestGap = 4
  MaxSaves = 6
  MaxClock = 4
  MaxFights = 1
  MaxRev = 3
  None = None
  MaxManifest = 3
  MaxSteps = 2
  MaxQuestions = 1
  k1 = k1
  Codes = {k1, k2}
  MaxLetters = 4
  Fights = {f}
  Guests = {g}
  MaxTale = 1
  MaxRevision = 1
  MaxStarts = 2
  MaxGeneration = 4
  ModelFiles <- OnOffer
  Pinned = {"weights"}
  Folder = "folder"
  Chunks <- Sizes
  MaxTransfers = 2
  Leon = Leon
  Tales <- Evening
  Sheets = {Leon, mira}
  SourceRevision = 3
  MaxPending = 1
  MaxFiles = 1
  MaxOps = 2
  MaxWorlds = 3
  Wishes <- Tastes
  Screens = {s1, s2}
  NoKey = "none"
  MaxSettings = 1
  Launches = {l1, l2}
  MaxKeys = 2
  Series = {"turn", "ready"}
  ScopeOf <- TopicScope
  Scopes = {"camp", "den"}
  MaxSeries = 2
  MaxOutbox = 1
  MaxRounds = 2
  MaxToasts = 2
  Plans <- Talks
  Drafts = {"calm", "grim", "lie"}
  Faithful = {"calm", "grim"}
  NoTale = "untold"
  TurnRounds = 3
  MaxAsked = 3
  MaxTurns = 4
  Pictures = {p1, p2}
  NoPicture = nopic
  MaxAssets = 2
  MaxRestores = 1
INVARIANTS WoundsAgree FightGoesOn AnswersAgree CommandsAsGiven OnceInItsTime ChildrenOwned CompletedMeansPublished StoryMovesOnce UpdatesAreWhole OneKey NotifiedOnce DialogueFaithful PicturesStay
PROPERTY TimeAndDeath
CHECK_DEADLOCK FALSE
