CONSTANTS
  sub1 = sub1
  sub2 = sub2
  ann = ann
  home = home
  shop = shop
  Identities = {sub1, sub2}
  Managed = {ann}
  External = {home}
  ProviderOf <- McProviderOf
  Calls = {1, 2}
  NoRow = NoRow
  NoBox = NoBox
  Asks <- McAsks
  Changing = {ann}
  Batch = 1
  MaxPass = 2
  MaxUid = 2
  MaxFaults = 1
SPECIFICATION BindingsSpec
INVARIANTS ShownIsOpened DeletedAreForgotten NothingSkipped
PROPERTIES HandedOver
