----------------------------- MODULE MCTransaction -----------------------------
(***************************************************************************)
(* Small instances of Transaction.  The configurations are those that      *)
(* differ from a working one in a bounded number of keys.                  *)
(***************************************************************************)
EXTENDS Transaction

\* As in resources/cybs.ini: an identifier and a key directory; log in the default place.
PlainText == [k \in TextKeys |-> IF k \in {"keysDirectory", "merchantID"} THEN "short" ELSE "absent"]
PlainFlags == [k \in FlagKeys |-> "absent"]

NoEdits == {}

\* Calls in a row on one proxy: settings added, changed, made too long between them.
WorkingTexts == {[PlainText EXCEPT !["serverURL"] = "short"], [PlainText EXCEPT !["proxyServer"] = "short"]}
\* One text that is always refused: absent, too long, or too long to be joined to a path.
OddTexts == {[PlainText EXCEPT ![k] = s] : k \in {"keysDirectory", "merchantID"}, s \in {"absent", "over"}}
            \union {[PlainText EXCEPT ![k] = "over"] :
                      k \in {"sslCertFile", "password", "proxyPassword", "serverURL"}}
            \union {[PlainText EXCEPT !["keyFilename"] = "full"], [k \in TextKeys |-> "absent"]}
ReuseTexts == WorkingTexts \union OddTexts
ReuseFlags == {[PlainFlags EXCEPT !["enableLog"] = "true", !["useSignAndEncrypted"] = "true"],
               [PlainFlags EXCEPT !["sendToProduction"] = "true", !["sendToAkamai"] = "1"]}
ReuseTextEdits == {"proxyServer"} \X {"short", "over"} \union {<<"proxyUsername", "over">>}
ReuseFlagEdits == {<<"enableLog", "true">>}
ReuseRequests == [empty : {FALSE}, merchantID : {"absent"}, loggable : BOOLEAN]

OneRequest == [empty : {FALSE}, merchantID : {"absent"}, loggable : {TRUE}]
PlainTexts == {PlainText}
SignAndEncrypt == {[PlainFlags EXCEPT !["useSignAndEncrypted"] = "true"]}
PlainFlagsOnly == {PlainFlags}
================================================================================
