SPECIFICATION FairSpec
CONSTANTS Adapters = {a1}
 MaxBoots = 1
 MaxRestarts = 2
 MaxPreAck = 1
 Tunnels = {}
 Planes = {"proxy"}
PROPERTY StopNotBlocked
