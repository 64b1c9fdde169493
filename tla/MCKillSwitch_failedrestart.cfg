SPECIFICATION Spec
CONSTANTS
    auth = auth
    billing = billing
    pages = pages
    me = me
    invoices = invoices
    plans = plans
    home = home
    requireAuth = requireAuth
    audit = audit
    NoOne = NoOne
    Nobody = Nobody
    Starter = Starter
    Middlewares = {requireAuth, audit}
    Events = {"closed", "initialized"}
    Script <- AppScript
    Services = {auth, billing}
    Owners = {auth, billing, Nobody}
    Routes = {me, invoices, plans}
    Order <- TwoInOrder
    Admins = {adm1}
    Emitters = {adm1}
    MayFailInit = {billing}
    EarlyKill = FALSE
    MaxRestarts = 1
INVARIANT ClosedRoutesUnavailable
CHECK_DEADLOCK FALSE
