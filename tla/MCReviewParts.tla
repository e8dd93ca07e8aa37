---------------------------- MODULE MCReviewParts ----------------------------
(* Two parts of ReviewComments for TLC in one run: a behaviour is one of the *)
(* review API alone, or one beside the unlocked writer, in which there are   *)
(* no groups and no mode for them, no readiness checks of their own and one  *)
(* configuration less.  Nobody votes in either: no reference is in a vote.   *)
EXTENDS MCReviewComments

VARIABLE part

Part ==
  /\ UNCHANGED part
  /\ \A i \in DOMAIN comments' : comments'[i].votes = NoVotes
  /\ IF part = "review"
       THEN UNCHANGED saves
       ELSE /\ DOMAIN config'.groups = {} /\ config'.feature.mode # "GROUP"
            /\ config'.version < MaxVersion
            /\ \A m \in Managers : requests'[m] # None => requests'[m].kind = "configure"

PartInit == ReadyInit /\ part \in {"review", "writer"}
PartSpec ==
  /\ PartInit
  /\ [][Next /\ Part]_<<vars, part>>

\* The properties say nothing after a change has been undone.
NotOverwritten == ~overwritten
=============================================================================
