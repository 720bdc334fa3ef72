SPECIFICATION Spec
CONSTANTS
    None = None
    NoUrl = NoUrl
    Urls <- MCUrls
    HeaderNames <- Names
    SelfOrigin <- Origin
    Manifests <- MCManifests
    Calls <- MCCalls
    Responses <- MCResponses
INVARIANT CompleteResponsesResolve
CHECK_DEADLOCK FALSE
