---- MODULE S6tGrammar ----
(* The AVP grammar that the extractors of S6t know.  A class of
   include/s6t.h and src/s6t.cpp is named by its AVP
   (or by its command, for a root).  The Members tables give the AVPs whose
   extractor the constructor registers with add(); the Kinds tables give the
   members the class declares as lists (many: FDExtractorAvpList or an
   FDExtractorList that creates the class of the same AVP) and as extractors
   of a grouped AVP (grouped).  Every other member is a single
   FDExtractorAvp. *)
EXTENDS BaseGrammar, TLC

S6tMembers1 == [
  ServiceResult |-> {"VendorId", "ServiceResultCode"},
  ServiceReport |-> {"ServiceResult", "NodeType"},
  MonitoringEventConfigStatus |-> {"ServiceReport", "ScefReferenceId",
      "ScefId"},
  ProxyInfo |-> {"ProxyHost", "ProxyState"},
  ExperimentalResult |-> {"VendorId", "ExperimentalResultCode"},
  UserCsgInformation |-> {"CsgId", "CsgAccessMode", "CsgMembershipIndication"},
  MmeLocationInformation |-> {"EUtranCellGlobalIdentity",
      "TrackingAreaIdentity", "GeographicalInformation",
      "GeodeticInformation", "CurrentLocationRetrieved",
      "AgeOfLocationInformation", "UserCsgInformation", "EnodebId",
      "ExtendedEnodebId", "DestinationHost"},
  AeseErrorReport |-> {"ServiceResult"},
  RestrictedPlmnList |-> {"VisitedPlmnId"},
  ScheduledCommunicationTime |-> {"DayOfWeekMask", "TimeOfDayStart",
      "TimeOfDayEnd"}]

S6tMembers2 == [
  CommunicationPatternSet |-> {"PeriodicCommunicationIndicator",
      "CommunicationDurationTime", "PeriodicTime",
      "ScheduledCommunicationTime", "StationaryIndication",
      "ReferenceIdValidityTime"},
  SupportedServices |-> {"SupportedMonitoringEvents", "NodeType"},
  UserIdentifier |-> {"UserName", "Msisdn", "ExternalIdentifier",
      "TypeOfExternalIdentifier"},
  SgsnLocationInformation |-> {"CellGlobalIdentity", "ServiceAreaIdentity",
      "RoutingAreaIdentity", "GeographicalInformation", "GeodeticInformation",
      "CurrentLocationRetrieved", "AgeOfLocationInformation",
      "UserCsgInformation"},
  EpsLocationInformation |-> {"MmeLocationInformation",
      "SgsnLocationInformation"},
  GroupMonitoringEventReportItem |-> {"UserIdentifier", "VisitedPlmnId",
      "RoamingInformation", "ReachabilityInformation",
      "MaximumUeAvailabilityTime", "EpsLocationInformation", "MonitoringType",
      "ServiceReport", "S6tHssCause"},
  GroupMonitoringEventReport |-> {"ScefReferenceId", "ScefId",
      "GroupMonitoringEventReportItem"},
  AllowedPlmnList |-> {"VisitedPlmnId"},
  EnhancedCoverageRestriction |-> {"RestrictedPlmnList", "AllowedPlmnList"}]

S6tMembers3 == [
  NiddAuthorizationUpdate |-> {"Msisdn", "UserName", "ExternalIdentifier",
      "GrantedValidityTime"},
  UeReachabilityConfiguration |-> {"ReachabilityType", "MaximumLatency",
      "MaximumResponseTime"},
  LocationInformationConfiguration |-> {"MonteLocationType", "Accuracy"},
  OcOlr |-> {"OcSequenceNumber", "OcReportType", "OcReductionPercentage",
      "OcValidityDuration"},
  SupportedFeatures |-> {"VendorId", "FeatureListId", "FeatureList"},
  NiddAuthorizationResponse |-> {"Msisdn", "UserName", "ExternalIdentifier",
      "GrantedValidityTime"},
  AeseCommunicationPatternConfigStatus |-> {"ScefReferenceId", "ScefId",
      "AeseErrorReport"},
  EnhancedCoverageRestrictionData |-> {"EnhancedCoverageRestriction",
      "VisitedPlmnId"},
  MonitoringEventConfiguration |-> {"ScefReferenceId", "ScefId",
      "MonitoringType", "ScefReferenceIdForDeletion",
      "MaximumNumberOfReports", "MonitoringDuration", "ChargedParty",
      "MaximumDetectionTime", "UeReachabilityConfiguration",
      "LocationInformationConfiguration", "AssociationType",
      "DlBufferingSuggestedPacketCount"}]

S6tMembers4 == [
  Load |-> {"LoadType", "LoadValue", "Sourceid"},
  OcSupportedFeatures |-> {"OcFeatureVector"},
  MonitoringEventReport |-> {"ScefReferenceId", "ScefId", "VisitedPlmnId",
      "RoamingInformation", "ImeiChange", "ReachabilityInformation",
      "MaximumUeAvailabilityTime", "EpsLocationInformation", "MonitoringType",
      "EventHandling", "ServiceReport", "LossOfConnectivityReason"},
  AeseCommunicationPattern |-> {"ScefReferenceId", "ScefId",
      "ScefReferenceIdForDeletion", "CommunicationPatternSet"},
  NiddAuthorizationRequest |-> {"ServiceSelection", "RequestedValidityTime"},
  FailedAvp |-> {}]

S6tMembers5 == [
  ConfigurationInformationRequest |-> RequestAvps \cup {"UserIdentifier",
      "OcSupportedFeatures", "MonitoringEventConfiguration", "CirFlags",
      "AeseCommunicationPattern", "EnhancedCoverageRestriction",
      "GroupReportingGuardTimer"},
  ConfigurationInformationAnswer |-> AnswerAvps \cup {"OcSupportedFeatures",
      "OcOlr", "Load", "UserIdentifier", "MonitoringEventReport",
      "MonitoringEventConfigStatus", "AeseCommunicationPatternConfigStatus",
      "SupportedServices", "S6tHssCause", "EnhancedCoverageRestrictionData",
      "CiaFlags", "FailedAvp", "ProxyInfo", "RouteRecord"}]

S6tMembers6 == [
  ReportingInformationRequest |-> RequestAvps \cup {"UserIdentifier",
      "MonitoringEventReport", "GroupMonitoringEventReport", "RirFlags",
      "SupportedServices"},
  ReportingInformationAnswer |-> AnswerAvps \cup {"FailedAvp", "ProxyInfo",
      "RouteRecord"},
  NiddInformationRequest |-> RequestAvps \cup {"UserIdentifier",
      "OcSupportedFeatures", "NiddAuthorizationRequest",
      "NiddAuthorizationUpdate"},
  NiddInformationAnswer |-> AnswerAvps \cup {"OcSupportedFeatures", "OcOlr",
      "Load", "UserIdentifier", "NiddAuthorizationResponse", "FailedAvp",
      "ProxyInfo", "RouteRecord"}]

S6tMembers == S6tMembers1 @@ S6tMembers2 @@ S6tMembers3 @@ S6tMembers4 @@
    S6tMembers5 @@ S6tMembers6

S6tKinds1 == [
  ServiceReport |-> [many |-> {}, grouped |-> {"ServiceResult"}],
  MonitoringEventConfigStatus |-> [many |-> {"ServiceReport"}, grouped |->
      {"ServiceReport"}],
  MmeLocationInformation |-> [many |-> {}, grouped |-> {"UserCsgInformation"}],
  AeseErrorReport |-> [many |-> {}, grouped |-> {"ServiceResult"}],
  RestrictedPlmnList |-> [many |-> {"VisitedPlmnId"}, grouped |-> {}],
  CommunicationPatternSet |-> [many |-> {"ScheduledCommunicationTime"},
      grouped |-> {"ScheduledCommunicationTime"}]]

S6tKinds2 == [
  SgsnLocationInformation |-> [many |-> {}, grouped |->
      {"UserCsgInformation"}],
  EpsLocationInformation |-> [many |-> {}, grouped |->
      {"MmeLocationInformation", "SgsnLocationInformation"}],
  GroupMonitoringEventReportItem |-> [many |-> {"ServiceReport"}, grouped |->
      {"UserIdentifier", "EpsLocationInformation", "ServiceReport"}],
  GroupMonitoringEventReport |-> [many |-> {"GroupMonitoringEventReportItem"},
      grouped |-> {"GroupMonitoringEventReportItem"}],
  AllowedPlmnList |-> [many |-> {"VisitedPlmnId"}, grouped |-> {}],
  EnhancedCoverageRestriction |-> [many |-> {}, grouped |->
      {"RestrictedPlmnList", "AllowedPlmnList"}]]

S6tKinds3 == [
  AeseCommunicationPatternConfigStatus |-> [many |-> {}, grouped |->
      {"AeseErrorReport"}],
  EnhancedCoverageRestrictionData |-> [many |-> {}, grouped |->
      {"EnhancedCoverageRestriction"}],
  MonitoringEventConfiguration |-> [many |-> {"ScefReferenceIdForDeletion"},
      grouped |-> {"UeReachabilityConfiguration",
      "LocationInformationConfiguration"}],
  MonitoringEventReport |-> [many |-> {"ServiceReport"}, grouped |->
      {"EpsLocationInformation", "ServiceReport"}],
  AeseCommunicationPattern |-> [many |-> {"ScefReferenceIdForDeletion",
      "CommunicationPatternSet"}, grouped |-> {"CommunicationPatternSet"}]]

S6tKinds4 == [
  ConfigurationInformationRequest |-> [many |-> {"SupportedFeatures",
      "MonitoringEventConfiguration", "AeseCommunicationPattern", "ProxyInfo",
      "RouteRecord"}, grouped |-> {"UserIdentifier", "OcSupportedFeatures",
      "SupportedFeatures", "MonitoringEventConfiguration",
      "AeseCommunicationPattern", "EnhancedCoverageRestriction", "ProxyInfo"}]]

S6tKinds5 == [
  ConfigurationInformationAnswer |-> [many |-> {"Load", "SupportedFeatures",
      "MonitoringEventReport", "MonitoringEventConfigStatus",
      "AeseCommunicationPatternConfigStatus", "SupportedServices",
      "ProxyInfo", "RouteRecord"}, grouped |-> {"ExperimentalResult",
      "OcSupportedFeatures", "OcOlr", "Load", "SupportedFeatures",
      "UserIdentifier", "MonitoringEventReport",
      "MonitoringEventConfigStatus", "AeseCommunicationPatternConfigStatus",
      "SupportedServices", "EnhancedCoverageRestrictionData", "FailedAvp",
      "ProxyInfo"}],
  ReportingInformationRequest |-> [many |-> {"SupportedFeatures",
      "MonitoringEventReport", "GroupMonitoringEventReport",
      "SupportedServices", "ProxyInfo", "RouteRecord"}, grouped |->
      {"SupportedFeatures", "UserIdentifier", "MonitoringEventReport",
      "GroupMonitoringEventReport", "SupportedServices", "ProxyInfo"}],
  ReportingInformationAnswer |-> [many |-> {"SupportedFeatures", "ProxyInfo",
      "RouteRecord"}, grouped |-> {"ExperimentalResult", "SupportedFeatures",
      "FailedAvp", "ProxyInfo"}],
  NiddInformationRequest |-> [many |-> {"SupportedFeatures", "ProxyInfo",
      "RouteRecord"}, grouped |-> {"UserIdentifier", "OcSupportedFeatures",
      "SupportedFeatures", "NiddAuthorizationRequest",
      "NiddAuthorizationUpdate", "ProxyInfo"}]]

S6tKinds6 == [
  NiddInformationAnswer |-> [many |-> {"Load", "SupportedFeatures",
      "ProxyInfo", "RouteRecord"}, grouped |-> {"ExperimentalResult",
      "OcSupportedFeatures", "OcOlr", "Load", "SupportedFeatures",
      "UserIdentifier", "NiddAuthorizationResponse", "FailedAvp",
      "ProxyInfo"}]]

S6tKinds == S6tKinds1 @@ S6tKinds2 @@ S6tKinds3 @@ S6tKinds4 @@ S6tKinds5 @@
    S6tKinds6

====
