---------------------------- MODULE FeatureCache -----------------------------
(***************************************************************************)
(* What the feature repository promises the code that evaluates toggles:   *)
(* a cache of the server's data that only moves forward, announces itself  *)
(* as ready when it holds data of the server and not before.  A restart    *)
(* may serve any earlier data, without being ready.                        *)
(* Repository implements it.                                               *)
(***************************************************************************)
EXTENDS Naturals

CONSTANT MaxRevision

VARIABLES
  published,  \* latest revision on the server
  served,     \* revision the cache serves
  loaded,     \* the served revision was fetched since the last start
  ready,      \* users have been told so
  closing     \* the cache was asked to stop

cacheVars == <<published, served, loaded, ready, closing>>

Init ==
  /\ published = 1
  /\ served \in 0 .. published
  /\ ~loaded /\ ~ready /\ ~closing

Publish ==
  /\ published < MaxRevision
  /\ published' = published + 1
  /\ UNCHANGED <<served, loaded, ready, closing>>

Refresh ==
  /\ served' \in served .. published
  /\ served' # 0
  /\ loaded' = TRUE
  /\ UNCHANGED <<published, ready, closing>>

Announce ==
  /\ loaded
  /\ ready' = TRUE
  /\ UNCHANGED <<published, served, loaded, closing>>

Stop ==
  /\ closing' = TRUE
  /\ UNCHANGED <<published, served, loaded, ready>>

Restart ==
  /\ served' \in 0 .. published
  /\ loaded' = FALSE /\ ready' = FALSE /\ closing' = FALSE
  /\ UNCHANGED published

Next == Publish \/ Refresh \/ Announce \/ Stop \/ Restart

Spec == Init /\ [][Next]_cacheVars
==============================================================================
