CONSTANTS
  Browsers = {b1, b2}
  Subjects = {ann, bob}
  Boxes = {n1}
  Doors = {webmail}
  Webmail = webmail
  Requests = {r1, r2}
  MaxFlows = 3
  MaxBegun = 4
  Window = 2
  MaxFails = 2
  PerHour = 1
  NoOne = NoOne
SPECIFICATION Spec
SYMMETRY Symmetry
INVARIANTS SessionIsOwnFlow LinkIsOwn GuessesBounded SignUpsBounded RegisteredItself
