SPECIFICATION DnsSpec
CONSTANTS
    DefaultAddr = "any"
    DnsNames = {"ads", "host"}
    DnsAddrs = {"any", "lan"}
    Queries = {q1, q2}
    ListedName = "ads"
    DnsReloads = 1
    DnsQueries = 2
CHECK_DEADLOCK FALSE
PROPERTY
    QueryAnswered
