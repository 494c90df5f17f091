--------------------------- MODULE ReconcilerPair --------------------------
(* Two processes of the service at once, each with its reconciler: a rolling *)
(* update, where the older one is stopped sooner or later, or two replicas,  *)
(* where it is not.  Nothing elects a leader, so each pass works from its    *)
(* own snapshots beside the other one's writes.                              *)
EXTENDS EgressServer

VARIABLES older,   \* the pass of each process
          newer,
          stopped  \* the older process is gone

Older == INSTANCE Reconciler WITH pass <- older

Newer == INSTANCE Reconciler WITH pass <- newer

pairVars == <<allVars, older, newer, stopped>>

PairInit ==
  /\ Older!ReconcilerInit
  /\ Newer!ReconcilerInit
  /\ stopped = FALSE

---------------------------------------------------------------------------

OlderPass ==
  /\ ~stopped
  /\ Older!PassStep \/ Older!PassFails
  /\ UNCHANGED <<newer, stopped>>

NewerPass == Newer!PassStep /\ UNCHANGED <<older, stopped>>

NewerPassFails == Newer!PassFails /\ UNCHANGED <<older, stopped>>

(* Calls are those of either process.                                        *)
Handlers ==
  /\ \E p \in Callers : CallStep(p)
  /\ UNCHANGED <<older, newer, stopped>>

(* The older process stops amid its pass; its calls are abandoned by         *)
(* CallFails.                                                                *)
OlderStops ==
  /\ ~stopped
  /\ stopped' = TRUE
  /\ Older!PassEnds
  /\ UNCHANGED <<allVars, newer>>

---------------------------------------------------------------------------

PairNext == Handlers \/ OlderPass \/ NewerPass \/ NewerPassFails \/ OlderStops

(* The newer process takes its passes; the older one may stop, stand still   *)
(* or go on for ever.                                                        *)
PairSpec == PairInit /\ [][PairNext]_pairVars /\ WF_pairVars(NewerPass)

---------------------------------------------------------------------------
(* Properties.                                                               *)

(* The passes settle: once calls and failures cease neither undoes for ever  *)
(* what the other did, whatever snapshot the older one still held, and       *)
(* OpenZiti is in line with the tables for good.                             *)
PairConverges == <>[]Newer!InSync

=============================================================================
