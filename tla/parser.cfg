\* A buffer that holds a short request with two headers.
CONSTANTS Limit = 23
          MaxExtra = 1
          Locations <- MCLocations
SPECIFICATION Spec
INVARIANTS LineSound Refusals PathServed HeadersRight ForwardedBytes
\* A refused or finished request ends its connection.
CHECK_DEADLOCK FALSE
