SPECIFICATION FairSpec
CONSTANTS
  c1 = c1
  Chats = {c1}
  Tomos = {t1, t2}
  NoTomo = NoTomo
  Updates = {1, 2}
  ChatOf <- OneChat
  Workers = {w1}
  Scheduler = sched
  MaxAttempts = 2
  MaxFrames = 0
  MaxGenerations = 6
  MaxAutomations = 1
  MaxRestarts = 1
PROPERTY EveryMessageSettles
