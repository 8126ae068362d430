---- MODULE BaseGrammar ----
(* The AVPs that the extractor of every request, and of every answer, of the *)
(* four applications registers.                                              *)
RequestAvps == {"SessionId", "Drmp", "AuthSessionState", "OriginHost",
    "OriginRealm", "DestinationHost", "DestinationRealm", "SupportedFeatures",
    "ProxyInfo", "RouteRecord"}

AnswerAvps == {"SessionId", "Drmp", "ResultCode", "ExperimentalResult",
    "AuthSessionState", "OriginHost", "OriginRealm", "SupportedFeatures"}
====
