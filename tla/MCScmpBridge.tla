------------------------------ MODULE MCScmpBridge ------------------------------
(***************************************************************************)
(* Small tables, messages, files and replies for ScmpBridge, with the odd  *)
(* cases among them.                                                       *)
(***************************************************************************)
EXTENDS ScmpBridge

F(n, v) == [name |-> n, value |-> v]
Auth == F(<<"ics_applications">>, <<"ics_auth">>)

\* As in the files of the sample: a comment, two names for one meaning, a name without one,
\* a name that the client stamps over, and an "=" too many.
SampleRequestTable == << <<"#", "x", "=", "y">>, <<"bill_city", "=", "city">>, << >>,
                         <<"ship_city", "=", "city">>, <<"currency", "=">>, <<"mid", "=", "merchantID">>,
                         <<"offer", "-score", "=", "threshold">>, <<"client_library", "=", "clientLibrary">> >>
SampleAppTable == << <<"ics_auth", "=", "ccAuth_run">>, <<"ics_bill", "=", "ccCapture_run">>,
                     <<"ics_pin", "=", "=", "pinReversal_run">> >>
SampleResponseTable == << <<"decision", "=", "ics_rcode">>, <<"code", "=", "ics_rflag">>,
                          <<"reason", "=", "ics_rflag">> >>

BillTo(city) == F(<<"bill_city">>, city)
SampleMessages ==
  { << Auth, BillTo(<<"x">>), F(<<"ship_city">>, <<"y">>) >>,
    << F(<<"offer", "0">>, <<"amount", ":", "4.59", "^", "other", ":", "1", "^", "quantity">>),
       F(<<"offer", "0">>, <<"^", "amount", ":", "1", ":", "2", "^">>), Auth >>,
    << BillTo(<<"x", "\n", "city", "=", "y">>), Auth, F(<<"unknown">>, <<"z">>) >>,
    << F(<<"mid">>, <<"m2">>), BillTo(<< >>), Auth >>,
    << F(<<"client_library">>, <<"C">>), F(<<"ics_applications">>, <<"ics_pin">>), BillTo(<<"x">>) >>,
    << F(<<"currency">>, <<"USD">>) >> }

Line(name, value) == <<name, "=">> \o value
Keys(dir) == <<Line("keysDirectory", dir), Line("merchantID", <<"m1">>)>>
LogIn(dir) == <<Line("enableLog", <<"true">>), Line("logDirectory", dir)>>
\* Plain and odd: comments, space, a line said twice, an empty value, a blank line, a log;
\* directories that just fit, that do not, and a blank one;
\* paths that overrun their buffer: of the log at the limit, of the certificates behind a log, of the key.
SampleInis ==
  { Keys(<<"k">>), Keys(<<" ", "d", "/", "k", "\r">>), Keys(<<"d", "/", "e", "/">> \o <<"k">>), Keys(<<" ">>), << >>,
    << Line("#keys", <<"x">>) >> \o Keys(<<"k">>) \o <<Line("keysDirectory", <<"d", " ">>), Line("merchantID", << >>)>>,
    << <<" ", "#", "enableLog", "=", "x">> >> \o LogIn(<<"l", "/", "o">>) \o Keys(<<"k">>),
    LogIn(<<"l", "/", "o", "/", "g">>) \o Keys(<<"k">>), LogIn(<<"l", "/", "o">>) \o Keys(<<"d", "/">>),
    Keys(<<"d", "/", "k", "/">>),
    << Line("enableLog", <<"true">>) >> \o Keys(<<"d", "/", "k">>) \o << Line("keyFilename", <<"f">>), Line("sslCertFile", <<"c">>) >>,
    Keys(<<"k">>) \o << << >>, Line("serverURL", <<"u">>) >> }

SampleReplies == { << "decision", "=", "ACCEPT", "\n", "code", "=", "1", "\n", "reason", "=", "2", "\n" >>,
                   << "\n", "code", "=", "1", "\n", "code", "=", "2", "=", "3", "\n", "text" >>,
                   << "decision", "=", "\n", "decision", "=", "REJECT" >> }
NoneOrOneMissing == { {}, {"request"}, {"applications"}, {"response"} }
NoneMissing == { {} }

\* What the stack may leave in szDest.
Stacks == { [i \in 1..CYBS_MAX_PATH |-> NUL],
            [i \in 1..CYBS_MAX_PATH |-> IF i < CYBS_MAX_PATH THEN "?" ELSE NUL],
            [i \in 1..CYBS_MAX_PATH |-> "?"] }

PlainMessage == { << Auth >> }
SlashInis == { Keys(<<"k", "/">>) }
BundleMessages == { << F(<<"ics_applications">>, <<"ics_auth", ",", "ics_bill">>) >> }
OneReply == { << "decision", "=", "ACCEPT", "\n" >> }
PlainInis == { Keys(<<"k">>) }
================================================================================
