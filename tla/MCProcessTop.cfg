SPECIFICATION Spec
CONSTANTS
  Pids = {1, 2, 3, 4, 5}
  Threads = {5}
  OwnPid = 3
  Names = {"a", "b", "c"}
  NameOf <- MCNameOf
  TOP_N = 2
  Mem = {1, 2}
  Shares = {0, 1}
INVARIANTS TypeOK NothingLargerLeftOut RankingIsFull RepresentativeIsBusy
