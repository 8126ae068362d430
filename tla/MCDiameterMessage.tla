---- MODULE MCDiameterMessage ----
(* DiameterMessage with the conversions of FDJson. *)
EXTENDS DiameterMessage

Json == INSTANCE FDJson

JsonOf(types, name, avps) == Json!GetJSON(types, name, avps)
AvpsOf(types, members) == Json!ExpandDocument(types, members)
====
