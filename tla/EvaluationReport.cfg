SPECIFICATION EvalSpec
CONSTANTS
  None = None
  Bundles <- MCBundles
  FlawSets <- MCFlawSets
  Reviews <- MCReviews
INVARIANT OwnReportVerifies
CHECK_DEADLOCK FALSE
