SPECIFICATION Spec
CONSTANTS
    n1 = n1
    n2 = n2
    Nodes = {n1, n2}
    Manifests <- MCManifests
INVARIANTS TypeOK LoadedAsInstalled ReloadedStaysValid NetworkAuthStaysApart RunningPluginAccepted
CHECK_DEADLOCK FALSE
