\* Requests by GET and HEAD, with and without a charset and a session cookie.
SPECIFICATION Spec
CONSTANTS
    Sends <- Sent
    Stacks <- MCStacks
    Views <- MCViews
INVARIANTS
    GETFollowsEncoding
    BodyDecodes
    StrongTagNamesBody
    SessionToldToClient
PROPERTIES
    PromotionKeeps
    LogoutStands
CHECK_DEADLOCK FALSE
