SPECIFICATION Spec
CONSTANTS
    Scenarios <- MCScenarios
    Requests <- MCRequests
    Past <- MCPast
    SessionOf <- MCSessionOf
INVARIANTS
    InputsCommitted
    ProductsReadable
    ContextsUsable
CHECK_DEADLOCK FALSE
