SPECIFICATION ModelsSpec
CONSTANTS
  None = None
  SchemaPrefix = SchemaPrefix
  Parts = {"shared"}
  DottedNames <- MCDotted
  Calls <- KeyCalls
  CollectionOrders <- MCOrders
  Bases <- MCBases
  Entities <- MCEntities
  Catalogues <- MCCatalogues
  Requested = {"order", "customer"}
  Null = Null
INVARIANT CollectionsDoNotCollide
CHECK_DEADLOCK FALSE
