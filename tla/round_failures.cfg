\* Two servers that fail in every way; two requests in progress.
CONSTANTS nelts = 2
          Weight <- TwoWeights
          max_fails = 1
          Requests = {r1, r2}
          Outcomes = {"OK", "AGAIN", "ERROR"}
          None = None
SPECIFICATION Spec
INVARIANT SmoothShares
PROPERTY Answered
