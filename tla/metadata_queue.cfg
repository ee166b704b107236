CONSTANTS
  Times = {1, 2}
  Sizes = {1}
  Formats = {f1, f2}
  NoFormat = NoFormat
  Offered <- MCOffered
  CapacityIncrement = 2
  MaxIndex = 3
  MaxBytes = 3
VIEW MCView
SPECIFICATION Spec
INVARIANTS TypeOK UpstreamFieldsAgree SamplesDisjoint
PROPERTY ImplementsSampleList
