\* A client behind up to two proxies, two requests in flight and a sweep.
SPECIFICATION GateSpec
CONSTANTS
  c1 = c1
  c2 = c2
  p1 = p1
  p2 = p2
  Addrs <- AllAddresses
  Hosts = {c1, c2, p1, p2}
  Clients = {c1}
  Proxies = {p1, p2}
  Garbage = Garbage
  Texts <- SomeTexts
  MaxHops = 2
  MaxRoute = 2
  Handlers = {h1, h2}
  Capacity = 4
  Cost = 2
  MaxTime = 5
SYMMETRY SameHandlers
INVARIANT RateBound
INVARIANT Attributed
