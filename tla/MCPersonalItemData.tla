------------------------- MODULE MCPersonalItemData -------------------------
(* PersonalItemData for TLC in one run: in a behaviour either the network   *)
(* may fail, rows may go and the page is left to sign in, or other tabs and *)
(* refreshes change the token, with edits of one row.  Who signs in first   *)
(* is i1: identities are alike.                                             *)
EXTENDS PersonalItemData

CONSTANTS
  i1, i2, r1, r2,
  MaxChanges      \* bound: changes of the token

BothIdentities == {i1, i2}
BothRows == {r1, r2}

VARIABLES part, changes

Part ==
  /\ part' = part
  /\ IF part = "network"
       THEN /\ events' = <<>> /\ crossed' = {}
            /\ page # None /\ page' # None => token' \in {token, None}
       ELSE /\ catalogue' = catalogue
            /\ ~(\E empty \in BOOLEAN : Edit(r2, empty)) /\ ~Edit(r1, TRUE)
            /\ ~(LoadFails /\ page.as # None)
            /\ ~(SaveFails /\ request.state # "refused")

Changes ==
  /\ changes' = changes + (IF token' = token THEN 0 ELSE 1)
  /\ changes' <= MaxChanges
  /\ changes = 0 => token' # i2

PartInit == Init /\ part \in {"network", "tokens"} /\ changes = 0
PartSpec ==
  /\ PartInit
  /\ [][Next /\ Part /\ Changes]_<<vars, part, changes>>
  /\ Fairness
=============================================================================
