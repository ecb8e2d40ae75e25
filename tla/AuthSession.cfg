\* The system browser and the app, two processes, one handoff token, one restart; sign-ins
\* begin with the deep link of the app, directly or by way of /login.
SPECIFICATION Spec
CONSTANTS
    Agents = {browser, app}
    Users = {u1, u2}
    Tokens = {t1}
    Instances = {i1, i2}
    None = None
    Asked = {"app"}
    MobileAuthTtl = 1
    MaxClock = 2
    MaxRestarts = 1
SYMMETRY Symmetric
INVARIANTS SetupIsShared TokenIsOfTheSession UnpresentedIsRedeemable
PROPERTIES RedeemsAsIssued
CHECK_DEADLOCK FALSE
