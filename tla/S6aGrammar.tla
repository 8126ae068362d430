---- MODULE S6aGrammar ----
(* The AVP grammar that the extractors of S6a/S6d know.  A class of
   include/s6as6d.h and src/s6as6d.cpp is named by its AVP
   (or by its command, for a root).  The Members tables give the AVPs whose
   extractor the constructor registers with add(); the Kinds tables give the
   members the class declares as lists (many: FDExtractorAvpList or an
   FDExtractorList that creates the class of the same AVP) and as extractors
   of a grouped AVP (grouped).  Every other member is a single
   FDExtractorAvp. *)
EXTENDS BaseGrammar, TLC

S6aMembers1 == [
  MmeUserState |-> {"UserState"},
  SgsnUserState |-> {"UserState"},
  EpsUserState |-> {"MmeUserState", "SgsnUserState"},
  EUtranVector |-> {"ItemNumber", "Rand", "Xres", "Autn", "Kasme"},
  VendorSpecificApplicationId |-> {"VendorId", "AuthApplicationId",
      "AcctApplicationId"},
  Ambr |-> {"MaxRequestedBandwidthUl", "MaxRequestedBandwidthDl"},
  PdpContext |-> {"ContextIdentifier", "PdpType", "PdpAddress",
      "QosSubscribed", "VplmnDynamicAddressAllowed", "ServiceSelection",
      "3gppChargingCharacteristics", "ExtPdpType", "ExtPdpAddress", "Ambr",
      "ApnOiReplacement", "SiptoPermission", "LipaPermission",
      "RestorationPriority", "SiptoLocalNetworkPermission",
      "NonIpDataDeliveryMechanism", "ScefId"},
  GprsSubscriptionData |-> {"CompleteDataListIncludedIndicator", "PdpContext"},
  ServiceResult |-> {"VendorId", "ServiceResultCode"},
  ServiceReport |-> {"ServiceResult", "NodeType"}]

S6aMembers2 == [
  MonitoringEventConfigStatus |-> {"ServiceReport", "ScefReferenceId",
      "ScefId"},
  ExperimentalResult |-> {"VendorId", "ExperimentalResultCode"},
  EdrxCycleLength |-> {"RatType", "EdrxCycleLengthValue"},
  ExternalClient |-> {"ClientIdentity", "GmlcRestriction",
      "NotificationToUeUser"},
  ServiceType |-> {"Servicetypeidentity", "GmlcRestriction",
      "NotificationToUeUser"},
  LcsPrivacyexception |-> {"SsCode", "SsStatus", "NotificationToUeUser",
      "ExternalClient", "PlmnClient", "ServiceType"},
  V2xSubscriptionData |-> {"V2xPermission", "UePc5Ambr"},
  AdjacentAccessRestrictionData |-> {"VisitedPlmnId", "AccessRestrictionData"},
  GeranVector |-> {"ItemNumber", "Rand", "Sres", "Kc"},
  UserCsgInformation |-> {"CsgId", "CsgAccessMode", "CsgMembershipIndication"}]

S6aMembers3 == [
  MmeLocationInformation |-> {"EUtranCellGlobalIdentity",
      "TrackingAreaIdentity", "GeographicalInformation",
      "GeodeticInformation", "CurrentLocationRetrieved",
      "AgeOfLocationInformation", "UserCsgInformation", "EnodebId",
      "ExtendedEnodebId"},
  SgsnLocationInformation |-> {"CellGlobalIdentity", "LocationAreaIdentity",
      "ServiceAreaIdentity", "RoutingAreaIdentity", "GeographicalInformation",
      "GeodeticInformation", "CurrentLocationRetrieved",
      "AgeOfLocationInformation", "UserCsgInformation"},
  EpsLocationInformation |-> {"MmeLocationInformation",
      "SgsnLocationInformation"},
  AdjacentPlmns |-> {"VisitedPlmnId"},
  AreaScope |-> {"CellGlobalIdentity", "EUtranCellGlobalIdentity",
      "RoutingAreaIdentity", "LocationAreaIdentity", "TrackingAreaIdentity"},
  CallBarringInfo |-> {"SsCode", "SsStatus"},
  MoLr |-> {"SsCode", "SsStatus"},
  Mip6AgentInfo |-> {"MipHomeAgentAddress", "MipHomeAgentHost",
      "Mip6HomeLinkPrefix"},
  SpecificApnInfo |-> {"ServiceSelection", "Mip6AgentInfo",
      "VisitedNetworkIdentifier"}]

S6aMembers4 == [
  ActiveApn |-> {"ContextIdentifier", "ServiceSelection", "Mip6AgentInfo",
      "VisitedNetworkIdentifier", "SpecificApnInfo"},
  WlanOffloadability |-> {"WlanOffloadabilityEutran",
      "WlanOffloadabilityUtran"},
  ScheduledCommunicationTime |-> {"DayOfWeekMask", "TimeOfDayStart",
      "TimeOfDayEnd"},
  CommunicationPatternSet |-> {"PeriodicCommunicationIndicator",
      "CommunicationDurationTime", "PeriodicTime",
      "ScheduledCommunicationTime", "StationaryIndication",
      "ReferenceIdValidityTime"},
  EquivalentPlmnList |-> {"VisitedPlmnId"},
  SupportedServices |-> {"SupportedMonitoringEvents"},
  ProxyInfo |-> {"ProxyHost", "ProxyState"},
  UtranVector |-> {"ItemNumber", "Rand", "Xres", "Autn", "ConfidentialityKey",
      "IntegrityKey"},
  UeReachabilityConfiguration |-> {"ReachabilityType", "MaximumResponseTime"},
  AllocationRetentionPriority |-> {"PriorityLevel", "PreEmptionCapability",
      "PreEmptionVulnerability"},
  EpsSubscribedQosProfile |-> {"QosClassIdentifier",
      "AllocationRetentionPriority"}]

S6aMembers5 == [
  ApnConfiguration |-> {"ContextIdentifier", "ServedPartyIpAddress",
      "PdnType", "ServiceSelection", "EpsSubscribedQosProfile",
      "VplmnDynamicAddressAllowed", "Mip6AgentInfo",
      "VisitedNetworkIdentifier", "PdnGwAllocationType",
      "3gppChargingCharacteristics", "Ambr", "SpecificApnInfo",
      "ApnOiReplacement", "SiptoPermission", "LipaPermission",
      "RestorationPriority", "SiptoLocalNetworkPermission",
      "WlanOffloadability", "NonIpPdnTypeIndicator",
      "NonIpDataDeliveryMechanism", "ScefId", "ScefRealm",
      "PreferredDataMode", "PdnConnectionContinuity"},
  LocalTimeZone |-> {"TimeZone", "DaylightSavingTime"},
  AuthenticationInfo |-> {"EUtranVector", "UtranVector", "GeranVector"},
  ImsiGroupId |-> {"GroupServiceId", "GroupPlmnId", "LocalGroupId"},
  LcsInfo |-> {"GmlcNumber", "LcsPrivacyexception", "MoLr"},
  TeleserviceList |-> {"TsCode"}]

S6aMembers6 == [
  ApnConfigurationProfile |-> {"ContextIdentifier",
      "AdditionalContextIdentifier", "AllApnConfigurationsIncludedIndicator",
      "ApnConfiguration"},
  MdtConfiguration |-> {"JobType", "AreaScope", "ListOfMeasurements",
      "ReportingTrigger", "ReportInterval", "ReportAmount",
      "EventThresholdRsrp", "EventThresholdRsrq", "LoggingInterval",
      "LoggingDuration", "MeasurementPeriodLte", "MeasurementPeriodUmts",
      "CollectionPeriodRrmLte", "CollectionPeriodRrmUmts",
      "PositioningMethod", "MeasurementQuantity", "EventThresholdEvent1f",
      "EventThresholdEvent1i", "MdtAllowedPlmnId"},
  TraceData |-> {"TraceReference", "TraceDepth", "TraceNeTypeList",
      "TraceInterfaceList", "TraceEventList", "OmcId",
      "TraceCollectionEntity", "MdtConfiguration"},
  CsgSubscriptionData |-> {"CsgId", "ExpirationDate", "ServiceSelection",
      "VisitedPlmnId"},
  ProseSubscriptionData |-> {"ProsePermission"}]

S6aMembers7 == [
  AeseCommunicationPattern |-> {"ScefReferenceId", "ScefId",
      "ScefReferenceIdForDeletion", "CommunicationPatternSet"},
  LocationInformationConfiguration |-> {"MonteLocationType", "Accuracy"},
  MonitoringEventConfiguration |-> {"ScefReferenceId", "ScefId",
      "MonitoringType", "ScefReferenceIdForDeletion",
      "MaximumNumberOfReports", "MonitoringDuration", "ChargedParty",
      "UeReachabilityConfiguration", "LocationInformationConfiguration",
      "ScefRealm"},
  EmergencyInfo |-> {"Mip6AgentInfo"}]

S6aMembers8 == [
  SubscriptionData |-> {"SubscriberStatus", "Msisdn", "AMsisdn", "StnSr",
      "IcsIndicator", "NetworkAccessMode", "OperatorDeterminedBarring",
      "HplmnOdb", "RegionalSubscriptionZoneCode", "AccessRestrictionData",
      "ApnOiReplacement", "LcsInfo", "TeleserviceList", "CallBarringInfo",
      "3gppChargingCharacteristics", "Ambr", "ApnConfigurationProfile",
      "RatFrequencySelectionPriorityId", "TraceData", "GprsSubscriptionData",
      "CsgSubscriptionData", "RoamingRestrictedDueToUnsupportedFeature",
      "SubscribedPeriodicRauTauTimer", "MpsPriority", "VplmnLipaAllowed",
      "RelayNodeIndicator", "MdtUserConsent", "SubscribedVsrvcc",
      "ProseSubscriptionData", "SubscriptionDataFlags",
      "AdjacentAccessRestrictionData", "DlBufferingSuggestedPacketCount",
      "ImsiGroupId", "UeUsageType", "AeseCommunicationPattern",
      "MonitoringEventConfiguration", "EmergencyInfo", "V2xSubscriptionData",
      "EdrxCycleLength"},
  OcOlr |-> {"OcSequenceNumber", "OcReportType", "OcReductionPercentage",
      "OcValidityDuration"},
  RequestedUtranGeranAuthenticationInfo |-> {"NumberOfRequestedVectors",
      "ImmediateResponsePreferred", "ReSynchronizationInfo"},
  SubscriptionDataDeletion |-> {"DsrFlags", "ScefId", "ContextIdentifier",
      "TraceReference", "TsCode", "SsCode"},
  Load |-> {"LoadType", "LoadValue", "Sourceid"}]

S6aMembers9 == [
  OcSupportedFeatures |-> {"OcFeatureVector"},
  TerminalInformation |-> {"Imei", "3gpp2Meid", "SoftwareVersion"},
  RequestedEutranAuthenticationInfo |-> {"NumberOfRequestedVectors",
      "ImmediateResponsePreferred", "ReSynchronizationInfo"},
  MonitoringEventReport |-> {"ScefReferenceId", "ScefId",
      "ReachabilityInformation", "EpsLocationInformation", "MonitoringType"},
  SupportedFeatures |-> {"VendorId", "FeatureListId", "FeatureList"},
  FailedAvp |-> {}]

S6aMembers10 == [
  UpdateLocationRequest |-> RequestAvps \cup {"VendorSpecificApplicationId",
      "UserName", "OcSupportedFeatures", "TerminalInformation", "RatType",
      "UlrFlags", "UeSrvccCapability", "VisitedPlmnId", "SgsnNumber",
      "HomogeneousSupportOfImsVoiceOverPsSessions", "GmlcAddress",
      "ActiveApn", "EquivalentPlmnList", "MmeNumberForMtSms",
      "SmsRegisterRequest", "SgsMmeIdentity", "CoupledNodeDiameterId",
      "AdjacentPlmns", "SupportedServices"},
  UpdateLocationAnswer |-> AnswerAvps \cup {"VendorSpecificApplicationId",
      "ErrorDiagnostic", "OcSupportedFeatures", "OcOlr", "Load", "UlaFlags",
      "SubscriptionData", "ResetId", "FailedAvp", "ProxyInfo", "RouteRecord"},
  CancelLocationRequest |-> RequestAvps \cup {"VendorSpecificApplicationId",
      "UserName", "CancellationType", "ClrFlags"}]

S6aMembers11 == [
  CancelLocationAnswer |-> AnswerAvps \cup {"VendorSpecificApplicationId",
      "FailedAvp", "ProxyInfo", "RouteRecord"},
  AuthenticationInformationRequest |-> RequestAvps \cup
      {"VendorSpecificApplicationId", "UserName", "OcSupportedFeatures",
      "RequestedEutranAuthenticationInfo",
      "RequestedUtranGeranAuthenticationInfo", "VisitedPlmnId", "AirFlags"},
  AuthenticationInformationAnswer |-> AnswerAvps \cup
      {"VendorSpecificApplicationId", "ErrorDiagnostic",
      "OcSupportedFeatures", "OcOlr", "Load", "AuthenticationInfo",
      "UeUsageType", "FailedAvp", "ProxyInfo", "RouteRecord"}]

S6aMembers12 == [
  InsertSubscriberDataRequest |-> RequestAvps \cup
      {"VendorSpecificApplicationId", "UserName", "SubscriptionData",
      "IdrFlags", "ResetId"},
  InsertSubscriberDataAnswer |-> AnswerAvps \cup
      {"VendorSpecificApplicationId", "ImsVoiceOverPsSessionsSupported",
      "LastUeActivityTime", "RatType", "IdaFlags", "EpsUserState",
      "EpsLocationInformation", "LocalTimeZone", "SupportedServices",
      "MonitoringEventReport", "MonitoringEventConfigStatus", "FailedAvp",
      "ProxyInfo", "RouteRecord"},
  DeleteSubscriberDataRequest |-> RequestAvps \cup
      {"VendorSpecificApplicationId", "UserName", "DsrFlags", "ScefId",
      "ContextIdentifier", "TraceReference", "TsCode", "SsCode"}]

S6aMembers13 == [
  DeleteSubscriberDataAnswer |-> AnswerAvps \cup
      {"VendorSpecificApplicationId", "DsaFlags", "FailedAvp", "ProxyInfo",
      "RouteRecord"},
  PurgeUeRequest |-> RequestAvps \cup {"VendorSpecificApplicationId",
      "UserName", "OcSupportedFeatures", "PurFlags", "EpsLocationInformation"},
  PurgeUeAnswer |-> AnswerAvps \cup {"VendorSpecificApplicationId",
      "OcSupportedFeatures", "OcOlr", "Load", "PuaFlags", "FailedAvp",
      "ProxyInfo", "RouteRecord"},
  ResetRequest |-> RequestAvps \cup {"VendorSpecificApplicationId", "UserId",
      "ResetId", "SubscriptionData", "SubscriptionDataDeletion"}]

S6aMembers14 == [
  ResetAnswer |-> AnswerAvps \cup {"VendorSpecificApplicationId", "FailedAvp",
      "ProxyInfo", "RouteRecord"}]

S6aMembers == S6aMembers1 @@ S6aMembers2 @@ S6aMembers3 @@ S6aMembers4 @@
    S6aMembers5 @@ S6aMembers6 @@ S6aMembers7 @@ S6aMembers8 @@ S6aMembers9 @@
    S6aMembers10 @@ S6aMembers11 @@ S6aMembers12 @@ S6aMembers13 @@
    S6aMembers14

S6aKinds1 == [
  EpsUserState |-> [many |-> {}, grouped |-> {"MmeUserState",
      "SgsnUserState"}],
  PdpContext |-> [many |-> {}, grouped |-> {"Ambr"}],
  GprsSubscriptionData |-> [many |-> {"PdpContext"}, grouped |->
      {"PdpContext"}],
  ServiceReport |-> [many |-> {}, grouped |-> {"ServiceResult"}],
  MonitoringEventConfigStatus |-> [many |-> {"ServiceReport"}, grouped |->
      {"ServiceReport"}]]

S6aKinds2 == [
  LcsPrivacyexception |-> [many |-> {"ExternalClient", "PlmnClient",
      "ServiceType"}, grouped |-> {"ExternalClient", "ServiceType"}],
  MmeLocationInformation |-> [many |-> {}, grouped |-> {"UserCsgInformation"}]]

S6aKinds3 == [
  SgsnLocationInformation |-> [many |-> {}, grouped |->
      {"UserCsgInformation"}],
  EpsLocationInformation |-> [many |-> {}, grouped |->
      {"MmeLocationInformation", "SgsnLocationInformation"}],
  AdjacentPlmns |-> [many |-> {"VisitedPlmnId"}, grouped |-> {}],
  AreaScope |-> [many |-> {"CellGlobalIdentity", "EUtranCellGlobalIdentity",
      "RoutingAreaIdentity", "LocationAreaIdentity", "TrackingAreaIdentity"},
      grouped |-> {}],
  Mip6AgentInfo |-> [many |-> {"MipHomeAgentAddress"}, grouped |-> {}],
  SpecificApnInfo |-> [many |-> {}, grouped |-> {"Mip6AgentInfo"}],
  ActiveApn |-> [many |-> {"SpecificApnInfo"}, grouped |-> {"Mip6AgentInfo",
      "SpecificApnInfo"}]]

S6aKinds4 == [
  CommunicationPatternSet |-> [many |-> {"ScheduledCommunicationTime"},
      grouped |-> {"ScheduledCommunicationTime"}],
  EquivalentPlmnList |-> [many |-> {"VisitedPlmnId"}, grouped |-> {}],
  EpsSubscribedQosProfile |-> [many |-> {}, grouped |->
      {"AllocationRetentionPriority"}],
  ApnConfiguration |-> [many |-> {"ServedPartyIpAddress", "SpecificApnInfo"},
      grouped |-> {"EpsSubscribedQosProfile", "Mip6AgentInfo", "Ambr",
      "SpecificApnInfo", "WlanOffloadability"}]]

S6aKinds5 == [
  AuthenticationInfo |-> [many |-> {"EUtranVector", "UtranVector",
      "GeranVector"}, grouped |-> {"EUtranVector", "UtranVector",
      "GeranVector"}],
  LcsInfo |-> [many |-> {"GmlcNumber", "LcsPrivacyexception", "MoLr"}, grouped
      |-> {"LcsPrivacyexception", "MoLr"}],
  TeleserviceList |-> [many |-> {"TsCode"}, grouped |-> {}],
  ApnConfigurationProfile |-> [many |-> {"ApnConfiguration"}, grouped |->
      {"ApnConfiguration"}]]

S6aKinds6 == [
  MdtConfiguration |-> [many |-> {"MdtAllowedPlmnId"}, grouped |->
      {"AreaScope"}],
  TraceData |-> [many |-> {}, grouped |-> {"MdtConfiguration"}],
  CsgSubscriptionData |-> [many |-> {"ServiceSelection"}, grouped |-> {}],
  AeseCommunicationPattern |-> [many |-> {"ScefReferenceIdForDeletion",
      "CommunicationPatternSet"}, grouped |-> {"CommunicationPatternSet"}]]

S6aKinds7 == [
  MonitoringEventConfiguration |-> [many |-> {"ScefReferenceIdForDeletion"},
      grouped |-> {"UeReachabilityConfiguration",
      "LocationInformationConfiguration"}],
  EmergencyInfo |-> [many |-> {}, grouped |-> {"Mip6AgentInfo"}],
  SubscriptionData |-> [many |-> {"RegionalSubscriptionZoneCode",
      "CallBarringInfo", "CsgSubscriptionData",
      "AdjacentAccessRestrictionData", "ImsiGroupId",
      "AeseCommunicationPattern", "MonitoringEventConfiguration",
      "EdrxCycleLength"}, grouped |-> {"LcsInfo", "TeleserviceList",
      "CallBarringInfo", "Ambr", "ApnConfigurationProfile", "TraceData",
      "GprsSubscriptionData", "CsgSubscriptionData", "ProseSubscriptionData",
      "AdjacentAccessRestrictionData", "ImsiGroupId",
      "AeseCommunicationPattern", "MonitoringEventConfiguration",
      "EmergencyInfo", "V2xSubscriptionData", "EdrxCycleLength"}]]

S6aKinds8 == [
  SubscriptionDataDeletion |-> [many |-> {"ContextIdentifier", "TsCode",
      "SsCode"}, grouped |-> {}],
  MonitoringEventReport |-> [many |-> {}, grouped |->
      {"EpsLocationInformation"}]]

S6aKinds9 == [
  UpdateLocationRequest |-> [many |-> {"SupportedFeatures", "ActiveApn",
      "ProxyInfo", "RouteRecord"}, grouped |-> {"VendorSpecificApplicationId",
      "OcSupportedFeatures", "SupportedFeatures", "TerminalInformation",
      "ActiveApn", "EquivalentPlmnList", "AdjacentPlmns", "SupportedServices",
      "ProxyInfo"}],
  UpdateLocationAnswer |-> [many |-> {"Load", "SupportedFeatures", "ResetId",
      "ProxyInfo", "RouteRecord"}, grouped |-> {"VendorSpecificApplicationId",
      "ExperimentalResult", "OcSupportedFeatures", "OcOlr", "Load",
      "SupportedFeatures", "SubscriptionData", "FailedAvp", "ProxyInfo"}],
  CancelLocationRequest |-> [many |-> {"SupportedFeatures", "ProxyInfo",
      "RouteRecord"}, grouped |-> {"VendorSpecificApplicationId",
      "SupportedFeatures", "ProxyInfo"}],
  CancelLocationAnswer |-> [many |-> {"SupportedFeatures", "ProxyInfo",
      "RouteRecord"}, grouped |-> {"VendorSpecificApplicationId",
      "SupportedFeatures", "ExperimentalResult", "FailedAvp", "ProxyInfo"}],
  AuthenticationInformationRequest |-> [many |-> {"SupportedFeatures",
      "ProxyInfo", "RouteRecord"}, grouped |-> {"VendorSpecificApplicationId",
      "OcSupportedFeatures", "SupportedFeatures",
      "RequestedEutranAuthenticationInfo",
      "RequestedUtranGeranAuthenticationInfo", "ProxyInfo"}]]

S6aKinds10 == [
  AuthenticationInformationAnswer |-> [many |-> {"Load", "SupportedFeatures",
      "ProxyInfo", "RouteRecord"}, grouped |-> {"VendorSpecificApplicationId",
      "ExperimentalResult", "OcSupportedFeatures", "OcOlr", "Load",
      "SupportedFeatures", "AuthenticationInfo", "FailedAvp", "ProxyInfo"}],
  InsertSubscriberDataRequest |-> [many |-> {"SupportedFeatures", "ResetId",
      "ProxyInfo", "RouteRecord"}, grouped |-> {"VendorSpecificApplicationId",
      "SupportedFeatures", "SubscriptionData", "ProxyInfo"}],
  InsertSubscriberDataAnswer |-> [many |-> {"SupportedFeatures",
      "MonitoringEventReport", "MonitoringEventConfigStatus", "ProxyInfo",
      "RouteRecord"}, grouped |-> {"VendorSpecificApplicationId",
      "SupportedFeatures", "ExperimentalResult", "EpsUserState",
      "EpsLocationInformation", "LocalTimeZone", "SupportedServices",
      "MonitoringEventReport", "MonitoringEventConfigStatus", "FailedAvp",
      "ProxyInfo"}],
  DeleteSubscriberDataRequest |-> [many |-> {"SupportedFeatures",
      "ContextIdentifier", "TsCode", "SsCode", "ProxyInfo", "RouteRecord"},
      grouped |-> {"VendorSpecificApplicationId", "SupportedFeatures",
      "ProxyInfo"}]]

S6aKinds11 == [
  DeleteSubscriberDataAnswer |-> [many |-> {"SupportedFeatures", "ProxyInfo",
      "RouteRecord"}, grouped |-> {"VendorSpecificApplicationId",
      "SupportedFeatures", "ExperimentalResult", "FailedAvp", "ProxyInfo"}],
  PurgeUeRequest |-> [many |-> {"SupportedFeatures", "ProxyInfo",
      "RouteRecord"}, grouped |-> {"VendorSpecificApplicationId",
      "OcSupportedFeatures", "SupportedFeatures", "EpsLocationInformation",
      "ProxyInfo"}],
  PurgeUeAnswer |-> [many |-> {"SupportedFeatures", "Load", "ProxyInfo",
      "RouteRecord"}, grouped |-> {"VendorSpecificApplicationId",
      "SupportedFeatures", "ExperimentalResult", "OcSupportedFeatures",
      "OcOlr", "Load", "FailedAvp", "ProxyInfo"}],
  ResetRequest |-> [many |-> {"SupportedFeatures", "UserId", "ResetId",
      "ProxyInfo", "RouteRecord"}, grouped |-> {"VendorSpecificApplicationId",
      "SupportedFeatures", "SubscriptionData", "SubscriptionDataDeletion",
      "ProxyInfo"}],
  ResetAnswer |-> [many |-> {"SupportedFeatures", "ProxyInfo", "RouteRecord"},
      grouped |-> {"VendorSpecificApplicationId", "SupportedFeatures",
      "ExperimentalResult", "FailedAvp", "ProxyInfo"}]]

S6aKinds == S6aKinds1 @@ S6aKinds2 @@ S6aKinds3 @@ S6aKinds4 @@ S6aKinds5 @@
    S6aKinds6 @@ S6aKinds7 @@ S6aKinds8 @@ S6aKinds9 @@ S6aKinds10 @@
    S6aKinds11

====
