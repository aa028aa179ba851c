\* Databases of every version, two requests and up to four faults.
SPECIFICATION Spec
CONSTANTS
  Keys = {k1, k2, k3, k4, k5}
  Requests = {r1, r2}
  MaxFaults = 4
  None = None
INVARIANT SchemaComplete
INVARIANT OneKey
PROPERTY ServesAgain
