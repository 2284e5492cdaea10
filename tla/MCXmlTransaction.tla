---------------------------- MODULE MCXmlTransaction ----------------------------
(***************************************************************************)
(* A small instance of XmlTransaction: calls in a row with one proxy, one  *)
(* reply object and now and then the same request object, while the        *)
(* merchantID of the configuration is added or changed between them.       *)
(***************************************************************************)
EXTENDS XmlTransaction

XmlText == [k \in TextKeys |-> IF k = "keysDirectory" THEN "short" ELSE "absent"]
\* None, one, one that a password refuses after it was put into the object; no key directory.
XmlTexts == {XmlText, [XmlText EXCEPT !["merchantID"] = "short"],
             [XmlText EXCEPT !["merchantID"] = "short", !["password"] = "over"],
             [XmlText EXCEPT !["merchantID"] = "short", !["keysDirectory"] = "absent"]}
XmlFlags == {[k \in FlagKeys |-> IF k \in {"enableLog", "useSignAndEncrypted"} THEN "true" ELSE "absent"]}
XmlTextEdits == {<<"merchantID", "full">>, <<"password", "short">>}
XmlFlagEdits == {}
XmlRequests == [empty : {FALSE}, merchantID : {"absent"}, loggable : BOOLEAN]
================================================================================
