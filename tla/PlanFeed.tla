------------------------------- MODULE PlanFeed -------------------------------
(***************************************************************************)
(* What the probing of clusters promises the rest of Search: every record   *)
(* is scanned at most once; a scanned record is planned to be read, held    *)
(* back, or dropped; what is held back is planned or dropped later; and a   *)
(* record is planned at most once.  ReadPlanner implements it with the      *)
(* frontiers, the deferral and the budget of overlap_scheduler.cpp.  The    *)
(* module OverlapScheduler leaves the plans open as far as Feed and FeedEnd *)
(* do, so the plans ReadPlanner makes are among those it considers.         *)
(***************************************************************************)
EXTENDS Integers

CONSTANT Records

VARIABLES
  phase,     \* "feed" while clusters are probed, "rest" otherwise
  unprobed,  \* records not scanned yet
  held,      \* deferred, or in the budget heap and not yet emitted
  planned    \* records planned to be read in this query

feedVars == <<phase, unprobed, held, planned>>

FeedInit == phase = "rest" /\ held = {} /\ unprobed \subseteq Records /\ planned = {}

FeedStart ==
  /\ phase = "rest"
  /\ phase' = "feed"
  /\ unprobed' = Records
  /\ held' = {} /\ planned' = {}

(* Records C are scanned, P planned, H held back. *)
Feed(C, P, H) ==
  /\ phase = "feed"
  /\ P \subseteq C \cup held
  /\ H \subseteq (C \cup held) \ P
  /\ unprobed' = unprobed \ C
  /\ held' = H
  /\ planned' = planned \cup P
  /\ UNCHANGED phase

(* The end of the probing: nothing stays held back. *)
FeedEnd(P) ==
  /\ phase = "feed"
  /\ P \subseteq held
  /\ phase' = "rest"
  /\ held' = {}
  /\ planned' = planned \cup P
  /\ UNCHANGED unprobed

FeedNext ==
  \/ FeedStart
  \/ \E C \in SUBSET unprobed :
       \E P \in SUBSET (C \cup held) :
         \E H \in SUBSET (C \cup held) : Feed(C, P, H)
  \/ \E P \in SUBSET held : FeedEnd(P)

FeedSpec == FeedInit /\ [][FeedNext]_feedVars
=============================================================================
