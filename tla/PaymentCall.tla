------------------------------ MODULE PaymentCall ------------------------------
(***************************************************************************)
(* What one merchant may rely on when it calls runTransaction: the fate of *)
(* each call, whether its request left the client, whether the payment was *)
(* executed, and whose reply the merchant's result map holds.  Calls are    *)
(* made one after the other.  Nothing is said of configuration, keys, logs  *)
(* or transport.  Transaction and XmlTransaction implement this            *)
(* specification.                                                          *)
(***************************************************************************)
EXTENDS Integers

CONSTANTS Calls,                \* the calls, numbered from 1 in call order
          ClearsReply           \* the reply held is cleared before an answer is read

VARIABLES fate,                 \* what has become of each call
          dispatched,           \* calls whose request has left the client
          executed,             \* calls the payment service has executed
          held                  \* call whose reply the merchant holds, 0 for none

vars == <<fate, dispatched, executed, held>>

Ended == {"rejected", "answered", "acknowledged", "failed", "thrown"}

TypeOK == /\ fate \in [Calls -> {"none", "open"} \union Ended]
          /\ dispatched \subseteq Calls
          /\ executed \subseteq Calls
          /\ held \in Calls \union {0}

Init == /\ fate = [n \in Calls |-> "none"]
        /\ dispatched = {}
        /\ executed = {}
        /\ held = 0

\* A call starts when every earlier one has come to its end.
Begin(n) ==
  /\ fate[n] = "none"
  /\ \A m \in Calls : IF m < n THEN fate[m] \in Ended ELSE fate[m] = "none"
  /\ fate' = [fate EXCEPT ![n] = "open"]
  /\ UNCHANGED <<dispatched, executed, held>>

\* The end of a call that had to give up before its request left the client.
Reject(n) ==
  /\ fate[n] = "open" /\ n \notin dispatched
  /\ fate' = [fate EXCEPT ![n] = "rejected"]
  /\ UNCHANGED <<dispatched, executed, held>>

\* The request leaves the client, once; the call may fail in the same step.
Dispatch(n) ==
  /\ fate[n] = "open" /\ n \notin dispatched
  /\ dispatched' = dispatched \union {n}
  /\ UNCHANGED <<fate, executed, held>>

\* The service executes a dispatched request, once, even after the call has ended.
Execute(n) ==
  /\ n \in dispatched /\ n \notin executed
  /\ executed' = executed \union {n}
  /\ UNCHANGED <<fate, dispatched, held>>

\* A reply is handed over only for a payment that was executed; the call may
\* still end in an exception after the reply has been handed over.
Answer(n) ==
  /\ fate[n] = "open" /\ n \in executed
  /\ \E end \in {"answered", "thrown"} : fate' = [fate EXCEPT ![n] = end]
  /\ held' = n
  /\ UNCHANGED <<dispatched, executed>>

\* What is held is cleared, and all or some of the answer is read into it.
Read(n) ==
  /\ ClearsReply
  /\ fate[n] = "open" /\ n \in dispatched
  /\ held' \in {0} \union ({n} \intersect executed)
  /\ UNCHANGED <<fate, dispatched, executed>>

\* A success without a reply: what is held is left as it was.
Acknowledge(n) ==
  /\ fate[n] = "open" /\ n \in dispatched
  /\ \E end \in {"acknowledged", "thrown"} : fate' = [fate EXCEPT ![n] = end]
  /\ UNCHANGED <<dispatched, executed, held>>

\* A failure says nothing of whether the payment was, or will be, executed.
Fail(n) ==
  /\ fate[n] = "open"
  /\ fate' = [fate EXCEPT ![n] = "failed"]
  /\ UNCHANGED <<dispatched, executed, held>>

\* An exception before the request was dispatched.
Throw(n) ==
  /\ fate[n] = "open" /\ n \notin dispatched
  /\ fate' = [fate EXCEPT ![n] = "thrown"]
  /\ UNCHANGED <<dispatched, executed, held>>

Next == \E n \in Calls :
          \/ Begin(n) \/ Reject(n) \/ Dispatch(n) \/ Execute(n)
          \/ Read(n) \/ Answer(n) \/ Acknowledge(n) \/ Fail(n) \/ Throw(n)

Spec == Init /\ [][Next]_vars
================================================================================
