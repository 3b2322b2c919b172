\* One page, two texts, at most two rows and two requests at the server.
SPECIFICATION PSpec
CONSTANTS
  clean = clean
  rude = rude
  o1 = o1
  f1 = f1
  l1 = l1
  Calls = {c1, c2}
  Links = {l1}
  Owners = {o1}
  Prints = {f1}
  Bodies = {clean, rude}
  OwnerOf <- MCOwnerOf
  TextOf <- MCTextOf
  MaxMsgs = 2
  Tabs = {t1}
  PrintAt <- MCPrintAt
  LinkAt <- MCLinkAt
  NoText = NoText
  NoCallYet = NoCallYet
INVARIANTS
  FlaggedWasSeen
  SuccessIsTrue
  OnePageSendsOnce
