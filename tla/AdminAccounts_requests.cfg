\* Two admins at once on an account of each kind, and a change of password.
SPECIFICATION AccountsSpec
CONSTANTS
    r1 = r1  r2 = r2  u1 = u1  a1 = a1
    e1 = e1  e2 = e2  c1 = c1  c2 = c2  p1 = p1  p2 = p2
    None = None
    Requests = {r1, r2}
    Local = {u1}
    Ad = {a1}
    Emails = {e1}
    Companies = {c1, c2}
    Passwords = {p1, p2}
    Forms <- MCForms
    MaxAccounts = 1
PROPERTIES PasswordOnlyByRequest DeletedStaysDeleted ListsSettle
CHECK_DEADLOCK FALSE
