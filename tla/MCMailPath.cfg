SPECIFICATION Spec
CONSTANTS
  Rests = {"", "x", "verb", "header"}
  Nothing = ""
  Verb = "verb"
  Header = "header"
  Lines <- DotLines
  Rcpts = {bob}
  BadRcpts = {bad}
  MaxRcpts = 1
  MaxData = 2
  MaxTyped = 3
  MaxOutbox = 1
  MaxUnread = 2
INVARIANTS
  SessionOK
  BodyIsWhole
