SPECIFICATION FairSpec
CONSTANTS
  Creators = {c1, c2}
  Listings = {l1}
  None = None
  Limit = 2
  MaxItems = 5
INVARIANTS NumberedWithoutGaps ListingComplete
PROPERTIES NothingBelowCeiling ListingEnds
