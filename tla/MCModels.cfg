SPECIFICATION ModelsSpec
CONSTANTS
  None = None
  SchemaPrefix = SchemaPrefix
  Parts = {"keys", "aliases", "shared", "names", "reader", "recipe", "import"}
  DottedNames <- MCDotted
  Calls <- KeyCalls
  CollectionOrders <- MCOrders
  Bases <- MCBases
  Entities <- MCEntities
  Catalogues <- MCCatalogues
  Requested = {"order", "customer"}
  Null = Null
INVARIANTS ImplementationsAgree AliasesEnd ProjectionKeepsTables RoundTrip
           RebuildsTheTree ImportIsFaithful
CHECK_DEADLOCK FALSE
