\* Two syncers with the same credentials and different namespaces.
CONSTANTS
    x = x  y = y  shared = shared  ns1 = ns1  ns2 = ns2
    Syncers = {x, y}
    CredSets = {default, shared}
    CredOf <- OneSet
    NsOf <- TwoNs
    Namespaces = {ns1, ns2}
    NoNs = NoNs  Root = Root
    AppRole = {default, shared}
    DefaultSet = default
    Clients = {k0, k1, k2}
    DefaultClient = k0
    NoClient = NoClient  NoFile = NoFile
    MaxRetries = 0
    MaxExpiries = 0
SPECIFICATION Spec
CHECK_DEADLOCK FALSE
INVARIANT ReadsOwnNamespace
