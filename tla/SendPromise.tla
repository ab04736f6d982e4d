------------------------------ MODULE SendPromise ------------------------------
(***************************************************************************)
(* What BundleDriver.sendMessage promises, with no collector, list or      *)
(* thread in sight: a call is answered once, and when the answer is a      *)
(* verdict of a handler (the transaction id, "filter failed", "message     *)
(* null", or the handler's exception) then a handler had reached that      *)
(* verdict for the transaction the call sent.                              *)
(***************************************************************************)
CONSTANTS Calls, TxIds, TxOf, Verdicts, Errors

VARIABLES
  answer,   \* call -> "idle", "waiting", or how it was answered
  verdicts  \* transaction id -> the verdicts reached for it so far

vars == <<answer, verdicts>>

Init ==
  /\ answer = [c \in Calls |-> "idle"]
  /\ verdicts = [t \in TxIds |-> {}]

\* A call starts to send.
Begin(c) ==
  /\ answer[c] = "idle"
  /\ answer' = [answer EXCEPT ![c] = "waiting"]
  /\ UNCHANGED verdicts

\* A handler reaches a verdict for a transaction.
Conclude(t) ==
  /\ \E v \in Verdicts : verdicts' = [verdicts EXCEPT ![t] = @ \cup {v}]
  /\ UNCHANGED answer

\* A waiting call is told a verdict reached for its transaction.
Reply(c) ==
  /\ answer[c] = "waiting"
  /\ \E v \in verdicts[TxOf[c]] : answer' = [answer EXCEPT ![c] = v]
  /\ UNCHANGED verdicts

\* The call fails, before or after it has sent anything.
Fail(c) ==
  /\ answer[c] \in {"idle", "waiting"}
  /\ \E e \in Errors : answer' = [answer EXCEPT ![c] = e]
  /\ UNCHANGED verdicts

Next == \/ \E c \in Calls : Begin(c) \/ Reply(c) \/ Fail(c)
        \/ \E t \in TxIds : Conclude(t)

Spec == Init /\ [][Next]_vars

\* A waiting call does not wait forever.
Fairness == \A c \in Calls :
              WF_vars(answer[c] = "waiting" /\ (Reply(c) \/ Fail(c)))

FairSpec == Spec /\ Fairness

================================================================================
