\* Two messages, in chunks, in buffers that end anywhere.
SPECIFICATION Spec
CONSTANTS
    client = client
    proxy = proxy
    Nobody = Nobody
    Hosts = {client, proxy}
    Heads <- MCHeads
    MaxMessages = 2
    MaxChunks = 2
INVARIANTS
    TypeOK
    RequestsAreWhole
    ContinueFits
    RemoteIsFarthestBelieved
CHECK_DEADLOCK FALSE
