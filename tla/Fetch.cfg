SPECIFICATION FairSpec
CONSTANTS
    None = None
    NoUrl = NoUrl
    Urls <- MCUrls
    HeaderNames <- Names
    SelfOrigin <- Origin
    Manifests <- MCManifests
    Calls <- MCCalls
    Responses <- MCResponses
INVARIANTS TypeOK EndsAreHonest RenamesAgree HttpsOnlyHolds RedirectsStayInside
PROPERTIES SubstitutionIsReplaceN FetchSettles CancelFreesBody
CHECK_DEADLOCK FALSE
