SPECIFICATION FairSpec
CONSTANTS
  Consumers = {c1, c2}
  Creators = {r1}
  Reconcilers = {x1}
  NoUser = NoUser
  m1 = m1
  m2 = m2
  m3 = m3
  e1 = e1
  e2 = e2
  e3 = e3
  u1 = u1
  u2 = u2
  r1 = r1
  Users = {u1, u2}
  Messages <- Mails
  Events <- EventIds
  NoMessage = NoMessage
  Malformed = {m3}
  EventOf <- EventsOfMails
  UserOf <- UsersOfMails
  RoleOf <- RolesOfMails
  WantedBy <- Wanted
  MaxLosses = 1
  MaxDatabaseErrors = 1
INVARIANTS
  TypeOK
  RecordedHasWallet
  AckedHasWallet
PROPERTIES
  PublishedIsProvisioned
CHECK_DEADLOCK FALSE
