---------------------------- MODULE CaseLifecycle ----------------------------
(***************************************************************************)
(* What an investigation promises its user, with no coordinator, slot,     *)
(* thread or restart in sight: a case moves along                          *)
(*     absent -> pending -> running -> done | failed | cancelled |         *)
(*     interrupted                                                         *)
(* and never back; it can be deleted for good; and its viewer hears one    *)
(* verdict, "done" only when the summary is on disk.                       *)
(*                                                                         *)
(* Investigation.tla is shown to implement this specification.             *)
(***************************************************************************)

CONSTANT Case          \* investigation ids

VARIABLES
  status,              \* the stored status of each case
  told                 \* the verdict its event stream carried, if any

lifecycleVars == <<status, told>>

Settled == {"done", "failed", "cancelled", "interrupted"}

LifecycleInit ==
  /\ status = [c \in Case |-> "absent"]
  /\ told = [c \in Case |-> "none"]

Move(c, from, to) ==
  /\ status[c] \in from
  /\ status' = [status EXCEPT ![c] = to]

Open(c)   == Move(c, {"absent"}, "pending") /\ UNCHANGED told
Claim(c)  == Move(c, {"pending"}, "running") /\ UNCHANGED told
Delete(c) == Move(c, Settled \union {"pending", "running"}, "gone") /\ UNCHANGED told

(* A running case settles; a viewer that is told anything is told the      *)
(* verdict being recorded.                                                 *)
Settle(c) ==
  \/ /\ Move(c, {"running"}, "done")
     /\ told[c] = "none"
     /\ told' = [told EXCEPT ![c] = "done"]
  \/ /\ Move(c, {"running"}, "failed")
     /\ told[c] = "none"
     /\ told' = [told EXCEPT ![c] = "fatal"]

(* A verdict that reaches the viewer while the stored row does not change: *)
(* the row is already deleted, or the failure could not be recorded.       *)
Tell(c) ==
  /\ told[c] = "none"
  /\ \/ /\ status[c] = "gone"
        /\ \E v \in {"done", "fatal"} : told' = [told EXCEPT ![c] = v]
     \/ /\ status[c] = "running"
        /\ told' = [told EXCEPT ![c] = "fatal"]
  /\ UNCHANGED status

(* The process stops or restarts: any number of unfinished cases are       *)
(* closed at once.                                                         *)
CloseUnfinished ==
  \E S \in SUBSET Case, verdict \in {"cancelled", "interrupted"} :
    /\ \A c \in S : \/ status[c] = "running"
                    \/ status[c] = "pending" /\ verdict = "interrupted"
    /\ status' = [c \in Case |-> IF c \in S THEN verdict ELSE status[c]]
    /\ UNCHANGED told

LifecycleNext ==
  \/ \E c \in Case : Open(c) \/ Claim(c) \/ Delete(c) \/ Settle(c) \/ Tell(c)
  \/ CloseUnfinished

LifecycleSpec == LifecycleInit /\ [][LifecycleNext]_lifecycleVars
=============================================================================
