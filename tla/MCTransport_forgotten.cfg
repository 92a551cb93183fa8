SPECIFICATION TransportSpec
CONSTANTS
    Names = {wg0, wg1}
    Startable = {wg0, wg1}
    AutoConnect = {wg0, wg1}
    AutoReconnect = {wg0}
    MaxDelay = 3
    Clients = {c1, c2, c3}
    MaxConnections = 2
PROPERTY
    FailedReconnectRetried
