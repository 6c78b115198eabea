SPECIFICATION FairReaperSpec
CONSTANTS
    p1 = p1
    p2 = p2
    p3 = p3
    Pids <- MCTwoPids
    Spawners = {smb}
    Capturers = {drive1, drive2}
    Bare = {}
    Main = Main
    Nobody = Nobody
INVARIANTS
  NoStatusLost
  CallbacksAreTheirs
  DeathIsNoticed
PROPERTIES
  DeathIsHeard
  ActionEnds
