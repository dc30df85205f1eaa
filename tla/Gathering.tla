------------------------------ MODULE Gathering ------------------------------
(***************************************************************************)
(* What a run of the pipeline promises, with no stage, thread, task or     *)
(* queue in sight: accounts become known and are filed, in any order and   *)
(* at any distance; when all that is known is filed the run sums up, and   *)
(* from then on nothing is added; it returns or fails only with its sum,   *)
(* and may be cancelled at any time, once.                                 *)
(*                                                                         *)
(* Pipeline.tla is shown to implement this specification.                  *)
(***************************************************************************)

CONSTANT Account       \* <<engine, row>>: the engine found that row's account

VARIABLES
  known,               \* accounts some engine has reported
  filed,               \* accounts the rows hold
  summed,              \* the run has summed up
  basis,               \* the accounts it summed up
  outcome              \* "running", or how it ended

gatheringVars == <<known, filed, summed, basis, outcome>>

GatheringInit ==
  /\ known = {} /\ filed = {} /\ basis = {}
  /\ summed = FALSE /\ outcome = "running"

(* An account becomes known, and is filed at once or later. *)
Discover(a) ==
  /\ ~summed /\ a \notin known
  /\ known' = known \union {a}
  /\ filed' \in {filed, filed \union {a}}
  /\ UNCHANGED <<summed, basis, outcome>>

File(a) ==
  /\ ~summed /\ a \in known /\ a \notin filed
  /\ filed' = filed \union {a}
  /\ UNCHANGED <<known, summed, basis, outcome>>

Sum ==
  /\ ~summed /\ outcome = "running" /\ filed = known
  /\ summed' = TRUE /\ basis' = filed
  /\ UNCHANGED <<known, filed, outcome>>

Finish ==
  /\ outcome = "running"
  /\ outcome' \in {"returned", "failed", "cancelled"}
  /\ outcome' # "cancelled" => summed
  /\ UNCHANGED <<known, filed, summed, basis>>

GatheringNext == Sum \/ Finish \/ \E a \in Account : Discover(a) \/ File(a)

GatheringSpec == GatheringInit /\ [][GatheringNext]_gatheringVars
=============================================================================
