CONSTANTS
  png = png
  jpeg = jpeg
  zip = zip
  image = image
  Unset = Unset
  MaxSafe = 40
  MaxInt = 100
  Other = Other
  Malformed = Malformed
  Types = {png, jpeg, zip}
  Keys = {png, jpeg, zip, image}
  GroupOf <- MCGroupOf
  RuleSets <- MCRuleSets
  Batches <- MCBatches
  SetupsFor <- MCSetupsFor
  Day = 3
  MaxDuration = 12
  MaxDate = 30
  MinimumPartSize = 2
  MaximumParts = 4
  DefaultPartSize = 3
  DefaultThreshold = 4
  MaximumUploadExpiry = 5
  DefaultUploadExpiry = 3
  DefaultTtl = 4
  Horizon = 20

SPECIFICATION PrepareSpec

INVARIANTS
  VerdictIsRight
  SdksAgree
  SweepIsRight
  PartsCover
  PlansAgree

CHECK_DEADLOCK FALSE
