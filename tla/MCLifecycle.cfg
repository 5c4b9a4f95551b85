SPECIFICATION Spec
CONSTANTS
    p1 = p1
    p2 = p2
    p3 = p3
    Plugins = {p1, p2, p3}
    t1 = t1
    t2 = t2
    Tasks = {t1, t2}
    Subscribers = {p1, p3}
    Capabilities <- MCCapabilities
    Requires <- MCRequires
    MaxUses = 4
    Quirks = {}
    None = None
INVARIANTS LiveIsTracked DependencyOrder SubscriptionsMatch StoppedMeansReleased
PROPERTY RunsOnReadyHarness
