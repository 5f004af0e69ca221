CONSTANTS
    IntegerValues = {7}
    StringNumbers = {0, 1, 2, 3, 4, 5, 6}
    Spelling <- MCSpelling
    SizeOf <- MCSizeOf
    Roots <- MCRoots
    MaxCounted = 2
SPECIFICATION Spec
INVARIANTS
    CallsFollowTree
    AnalyzerAddsUp
    JsonMeansQuotable
    YamlMeansIndented
    XmlMeansNamed
PROPERTIES
    TraversalEnds
CHECK_DEADLOCK FALSE
