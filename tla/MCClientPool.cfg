\* Two syncers race for the pool; one names a namespace, the other none.
\* Two attempts per fetch; two tokens expire.
CONSTANTS
    x = x  y = y  shared = shared  ns1 = ns1  ns2 = ns2
    Syncers = {x, y}
    CredSets = {default, shared}
    CredOf <- OneSet
    NsOf <- OneNs
    Namespaces = {ns1, ns2}
    NoNs = NoNs  Root = Root
    AppRole = {default, shared}
    DefaultSet = default
    Clients = {k0, k1, k2}
    DefaultClient = k0
    NoClient = NoClient  NoFile = NoFile
    MaxRetries = 1
    MaxExpiries = 2
SPECIFICATION FairSpec
CHECK_DEADLOCK FALSE
INVARIANTS PoolTypeOK RightCredentials NamespaceOfSharers
PROPERTY LoginsCease
