SPECIFICATION SearchSpec
CHECK_DEADLOCK FALSE
CONSTANTS
  Sources = {"s1", "s2"}
  Articles = {1, 2, 3}
  SourceOf <- ArticleSources
  Domains = {"d1", "d2", "d3"}
  Tongues = {"en", "de"}
  Oversample = 2
  MaxChanges = 2
PROPERTY ExcludedStayOut
