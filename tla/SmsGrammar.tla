---- MODULE SmsGrammar ----
(* The AVP grammar that the extractors of S6c and SGd know.  A class of
   include/s6c.h, src/s6c.cpp and smsrouter sgd.h, sgd.cpp is named by its AVP
   (or by its command, for a root).  The Members tables give the AVPs whose
   extractor the constructor registers with add(); the Kinds tables give the
   members the class declares as lists (many: FDExtractorAvpList or an
   FDExtractorList that creates the class of the same AVP) and as extractors
   of a grouped AVP (grouped).  Every other member is a single
   FDExtractorAvp. *)
EXTENDS BaseGrammar, TLC

S6cMembers1 == [
  SgsnSmDeliveryOutcome |-> {"SmDeliveryCause", "AbsentUserDiagnosticSm"},
  ProxyInfo |-> {"ProxyHost", "ProxyState"},
  VendorSpecificApplicationId |-> {"VendorId", "AuthApplicationId",
      "AcctApplicationId"},
  UserIdentifier |-> {"UserName", "Msisdn", "ExternalIdentifier"},
  ServingNode |-> {"SgsnName", "SgsnRealm", "SgsnNumber", "MmeName",
      "MmeRealm", "MmeNumberForMtSms", "MscNumber", "IpSmGwNumber",
      "IpSmGwName", "IpSmGwRealm"},
  MmeSmDeliveryOutcome |-> {"SmDeliveryCause", "AbsentUserDiagnosticSm"},
  MscSmDeliveryOutcome |-> {"SmDeliveryCause", "AbsentUserDiagnosticSm"},
  IpSmGwSmDeliveryOutcome |-> {"SmDeliveryCause", "AbsentUserDiagnosticSm"},
  SmDeliveryOutcome |-> {"MmeSmDeliveryOutcome", "MscSmDeliveryOutcome",
      "SgsnSmDeliveryOutcome", "IpSmGwSmDeliveryOutcome"},
  ExperimentalResult |-> {"VendorId", "ExperimentalResultCode"},
  FailedAvp |-> {}]

S6cMembers2 == [
  AdditionalServingNode |-> {"SgsnName", "SgsnRealm", "SgsnNumber", "MmeName",
      "MmeRealm", "MmeNumberForMtSms", "MscNumber"},
  SmsmiCorrelationId |-> {"HssId", "OriginatingSipUri", "DestinationSipUri"},
  SupportedFeatures |-> {"VendorId", "FeatureListId", "FeatureList"},
  SendRoutingInfoForSmRequest |-> RequestAvps \cup
      {"VendorSpecificApplicationId", "Msisdn", "UserName",
      "SmsmiCorrelationId", "ScAddress", "SmRpMti", "SmRpSmea", "SrrFlags",
      "SmDeliveryNotIntended"}]

S6cMembers3 == [
  SendRoutingInfoForSmAnswer |-> AnswerAvps \cup
      {"VendorSpecificApplicationId", "UserName", "ServingNode",
      "AdditionalServingNode", "Lmsi", "UserIdentifier", "MwdStatus",
      "MmeAbsentUserDiagnosticSm", "MscAbsentUserDiagnosticSm",
      "SgsnAbsentUserDiagnosticSm", "FailedAvp", "ProxyInfo", "RouteRecord"},
  AlertServiceCentreRequest |-> RequestAvps \cup
      {"VendorSpecificApplicationId", "ScAddress", "UserIdentifier",
      "SmsmiCorrelationId", "MaximumUeAvailabilityTime", "SmsGmscAlertEvent",
      "ServingNode"},
  AlertServiceCentreAnswer |-> AnswerAvps \cup {"VendorSpecificApplicationId",
      "FailedAvp", "ProxyInfo", "RouteRecord"}]

S6cMembers4 == [
  ReportSmDeliveryStatusRequest |-> RequestAvps \cup
      {"VendorSpecificApplicationId", "UserIdentifier", "SmsmiCorrelationId",
      "ScAddress", "SmDeliveryOutcome", "RdrFlags"},
  ReportSmDeliveryStatusAnswer |-> AnswerAvps \cup
      {"VendorSpecificApplicationId", "UserIdentifier", "FailedAvp",
      "ProxyInfo", "RouteRecord"}]

S6cMembers == S6cMembers1 @@ S6cMembers2 @@ S6cMembers3 @@ S6cMembers4

S6cKinds1 == [
  SmDeliveryOutcome |-> [many |-> {}, grouped |-> {"MmeSmDeliveryOutcome",
      "MscSmDeliveryOutcome", "SgsnSmDeliveryOutcome",
      "IpSmGwSmDeliveryOutcome"}]]

S6cKinds2 == [
  SendRoutingInfoForSmRequest |-> [many |-> {"SupportedFeatures", "ProxyInfo",
      "RouteRecord"}, grouped |-> {"VendorSpecificApplicationId",
      "SmsmiCorrelationId", "SupportedFeatures", "ProxyInfo"}],
  SendRoutingInfoForSmAnswer |-> [many |-> {"SupportedFeatures", "ProxyInfo",
      "RouteRecord"}, grouped |-> {"VendorSpecificApplicationId",
      "ExperimentalResult", "SupportedFeatures", "ServingNode",
      "AdditionalServingNode", "UserIdentifier", "FailedAvp", "ProxyInfo"}],
  AlertServiceCentreRequest |-> [many |-> {"SupportedFeatures", "ProxyInfo",
      "RouteRecord"}, grouped |-> {"VendorSpecificApplicationId",
      "UserIdentifier", "SmsmiCorrelationId", "ServingNode",
      "SupportedFeatures", "ProxyInfo"}],
  AlertServiceCentreAnswer |-> [many |-> {"SupportedFeatures", "ProxyInfo",
      "RouteRecord"}, grouped |-> {"VendorSpecificApplicationId",
      "ExperimentalResult", "SupportedFeatures", "FailedAvp", "ProxyInfo"}]]

S6cKinds3 == [
  ReportSmDeliveryStatusRequest |-> [many |-> {"SupportedFeatures",
      "ProxyInfo", "RouteRecord"}, grouped |-> {"VendorSpecificApplicationId",
      "SupportedFeatures", "UserIdentifier", "SmsmiCorrelationId",
      "SmDeliveryOutcome", "ProxyInfo"}],
  ReportSmDeliveryStatusAnswer |-> [many |-> {"SupportedFeatures",
      "ProxyInfo", "RouteRecord"}, grouped |-> {"VendorSpecificApplicationId",
      "ExperimentalResult", "SupportedFeatures", "UserIdentifier",
      "FailedAvp", "ProxyInfo"}]]

S6cKinds == S6cKinds1 @@ S6cKinds2 @@ S6cKinds3

SGdMembers1 == [
  SgsnSmDeliveryOutcome |-> {"SmDeliveryCause", "AbsentUserDiagnosticSm"},
  ProxyInfo |-> {"ProxyHost", "ProxyState"},
  VendorSpecificApplicationId |-> {"VendorId", "AuthApplicationId",
      "AcctApplicationId"},
  UserIdentifier |-> {"UserName", "Msisdn", "ExternalIdentifier"},
  MmeSmDeliveryOutcome |-> {"SmDeliveryCause", "AbsentUserDiagnosticSm"},
  MscSmDeliveryOutcome |-> {"SmDeliveryCause", "AbsentUserDiagnosticSm"},
  IpSmGwSmDeliveryOutcome |-> {"SmDeliveryCause", "AbsentUserDiagnosticSm"},
  SmDeliveryOutcome |-> {"MmeSmDeliveryOutcome", "MscSmDeliveryOutcome",
      "SgsnSmDeliveryOutcome", "IpSmGwSmDeliveryOutcome"},
  ExperimentalResult |-> {"VendorId", "ExperimentalResultCode"},
  SmsmiCorrelationId |-> {"HssId", "OriginatingSipUri", "DestinationSipUri"},
  ServingNode |-> {"SgsnName", "SgsnRealm", "SgsnNumber", "MmeName",
      "MmeRealm", "MmeNumberForMtSms", "MscNumber", "IpSmGwNumber",
      "IpSmGwName", "IpSmGwRealm"},
  FailedAvp |-> {}]

SGdMembers2 == [
  SupportedFeatures |-> {"VendorId", "FeatureListId", "FeatureList"},
  MoForwardShortMessageRequest |-> RequestAvps \cup
      {"VendorSpecificApplicationId", "ScAddress", "OfrFlags",
      "UserIdentifier", "SmRpUi", "SmsmiCorrelationId", "SmDeliveryOutcome"},
  MoForwardShortMessageAnswer |-> AnswerAvps \cup
      {"VendorSpecificApplicationId"},
  MtForwardShortMessageRequest |-> RequestAvps \cup
      {"VendorSpecificApplicationId", "UserName", "SmsmiCorrelationId",
      "ScAddress", "SmRpUi", "MmeNumberForMtSms", "SgsnNumber", "TfrFlags",
      "SmDeliveryTimer", "SmDeliveryStartTime", "MaximumRetransmissionTime",
      "SmsGmscAddress"}]

SGdMembers3 == [
  MtForwardShortMessageAnswer |-> AnswerAvps \cup
      {"VendorSpecificApplicationId", "AbsentUserDiagnosticSm"},
  AlertServiceCentreRequest |-> RequestAvps \cup
      {"VendorSpecificApplicationId", "ScAddress", "UserIdentifier",
      "SmsmiCorrelationId", "MaximumUeAvailabilityTime", "SmsGmscAlertEvent",
      "ServingNode"},
  AlertServiceCentreAnswer |-> AnswerAvps \cup {"VendorSpecificApplicationId",
      "FailedAvp", "ProxyInfo", "RouteRecord"}]

SGdMembers == SGdMembers1 @@ SGdMembers2 @@ SGdMembers3

SGdKinds1 == [
  SmDeliveryOutcome |-> [many |-> {}, grouped |-> {"MmeSmDeliveryOutcome",
      "MscSmDeliveryOutcome", "SgsnSmDeliveryOutcome",
      "IpSmGwSmDeliveryOutcome"}]]

SGdKinds2 == [
  MoForwardShortMessageRequest |-> [many |-> {"SupportedFeatures",
      "ProxyInfo", "RouteRecord"}, grouped |-> {"VendorSpecificApplicationId",
      "SupportedFeatures", "UserIdentifier", "SmsmiCorrelationId",
      "SmDeliveryOutcome", "ProxyInfo"}],
  MoForwardShortMessageAnswer |-> [many |-> {"SupportedFeatures"}, grouped |->
      {"VendorSpecificApplicationId", "ExperimentalResult",
      "SupportedFeatures"}],
  MtForwardShortMessageRequest |-> [many |-> {"SupportedFeatures",
      "ProxyInfo", "RouteRecord"}, grouped |-> {"VendorSpecificApplicationId",
      "SupportedFeatures", "SmsmiCorrelationId", "ProxyInfo"}],
  MtForwardShortMessageAnswer |-> [many |-> {"SupportedFeatures"}, grouped |->
      {"VendorSpecificApplicationId", "ExperimentalResult",
      "SupportedFeatures"}],
  AlertServiceCentreRequest |-> [many |-> {"SupportedFeatures", "ProxyInfo",
      "RouteRecord"}, grouped |-> {"VendorSpecificApplicationId",
      "UserIdentifier", "SmsmiCorrelationId", "ServingNode",
      "SupportedFeatures", "ProxyInfo"}],
  AlertServiceCentreAnswer |-> [many |-> {"SupportedFeatures", "ProxyInfo",
      "RouteRecord"}, grouped |-> {"VendorSpecificApplicationId",
      "ExperimentalResult", "SupportedFeatures", "FailedAvp", "ProxyInfo"}]]

SGdKinds == SGdKinds1 @@ SGdKinds2

====
