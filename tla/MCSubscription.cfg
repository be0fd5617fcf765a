SPECIFICATION Spec
CONSTANTS
  Provider = {p1, p2}
  Request = {r1, r2}
  Save = {s1, s2}
  Login = {l1, l2}
  MaxToken = 3
  None = None
SYMMETRY Symmetry
INVARIANTS TypeOK OneSignInOneProvider RenewedOnce StaysRenewable
