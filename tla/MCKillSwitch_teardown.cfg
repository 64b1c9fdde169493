SPECIFICATION Spec
CONSTANTS
    auth = auth
    billing = billing
    pages = pages
    me = me
    invoices = invoices
    plans = plans
    home = home
    requireAuth = requireAuth
    audit = audit
    NoOne = NoOne
    Nobody = Nobody
    Starter = Starter
    Middlewares = {requireAuth, audit}
    Events = {"closed", "initialized"}
    Script <- AppScript
    Services = {auth, billing, pages}
    Owners = {auth, billing, pages, Nobody}
    Routes = {me, invoices, plans, home}
    Order <- ThreeInOrder
    Admins = {adm1, adm2}
    Emitters = {adm1, adm2}
    MayFailInit = {pages}
    EarlyKill = FALSE
    MaxRestarts = 2
INVARIANT NothingIsExposed
INVARIANT ActiveRoutesServe
INVARIANT BooksHold
CHECK_DEADLOCK FALSE
