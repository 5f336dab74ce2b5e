SPECIFICATION Spec
CONSTANTS
  a = a  b = b  n = n  c1 = c1  c2 = c2  sh = sh  ldap = ldap  p = p  q = q
  None = None  Local = Local
  Users = {a, b, n}
  Clients = {c1, c2, sh}
  Shells = {sh}
  Directories = {ldap}
  Passwords = {p, q}
  Forms <- MCForms
  TokenIds = {t1, t2}
  Initial <- MCInitial
  SwitchedOn = TRUE
  FixedSecret = FALSE
  Failures = TRUE
  MaxRequests = 5
SYMMETRY Symmetric
INVARIANTS AdministratorRemains SessionFollowsCredential SuspensionRetiresTokens
CHECK_DEADLOCK FALSE
