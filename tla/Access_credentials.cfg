SPECIFICATION FairSpec
CONSTANTS
  ann = ann
  User = {ann}
  Org = {acme}
  Repo = {r1, r2}
  Token = {t}
  Whitelist = {{r1, r2}}
  Session = {s1, s2}
  SessionUser <- OneUser
  Handler = {h1, h2}
  TTL = 1
  MaxChanges = 1
  MaxFaults = 1
INVARIANTS HonouredMembershipWasClaimed HeldTokensStayConfined
PROPERTIES DeletedUsersTokensGo MembersGetMirrored
CHECK_DEADLOCK FALSE
