\* One syncer with the default credentials, whose token comes to its end.
CONSTANTS
    x = x  y = y  shared = shared  ns1 = ns1  ns2 = ns2
    Syncers = {x}
    CredSets = {default, shared}
    CredOf <- DefaultOnly
    NsOf <- OneNs
    Namespaces = {ns1, ns2}
    NoNs = NoNs  Root = Root
    AppRole = {default, shared}
    DefaultSet = default
    Clients = {k0, k1, k2}
    DefaultClient = k0
    NoClient = NoClient  NoFile = NoFile
    MaxRetries = 0
    MaxExpiries = 1
SPECIFICATION FairSpec
PROPERTY TokensRenewed
