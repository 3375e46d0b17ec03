SPECIFICATION Spec
CONSTANTS
  Openers = {o1, o2}
  Mails = {m1, m2}
  Passwords = {p1, p2}
  None = None
  Plain = Plain
  Legacy = Legacy
  MaxIds = 3
SYMMETRY Symmetry
INVARIANTS
  AtRestTypeOK
  EncryptedIsReadable
  IdentityKept
