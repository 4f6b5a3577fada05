\* No middleware: the route is looked up before anything promotes the request.
SPECIFICATION Spec
CONSTANTS
    Sends <- Sent
    Stacks <- MCNoMiddleware
    Views <- MCViews
PROPERTIES
    ResolverMatchStays
CHECK_DEADLOCK FALSE
