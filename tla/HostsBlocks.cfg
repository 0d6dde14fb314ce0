\* The hosts file with a block of another feature up to a blank line.
SPECIFICATION HostsSpec
CONSTANTS
    HostNames = {"n1", "n2", "n3"}
    HostAddresses = {"a", "b", "six"}
    Mappings <- MCMappings
    Requests <- MCRequests
    Addresses6 = {"six"}
    MaxLines = 3
PROPERTY OtherBlocksKept
CHECK_DEADLOCK FALSE
