------------------------- MODULE MCViewerConnection -------------------------
(* TLC instances of ViewerConnection. *)
EXTENDS ViewerConnection
CONSTANTS m1, m2, m3
MCModels == {m1, m2, m3}

\* A user who sends more than one event does not change the colours meanwhile, on a
\* screen that stays as it is.
OneThingAtATime ==
  events' < MaxEvents - 1 => selections' = MaxSelections /\ changes' = MaxChanges
\* A third colour model is chosen only after the second, by a user who does nothing else.
ThirdAlone ==
  /\ selections = MaxSelections => pendingColorModel' # m3
  /\ m3 \in {pendingColorModel', colorModel'} => events' = MaxEvents /\ changes' = MaxChanges
MCNext == Next /\ OneThingAtATime /\ ThirdAlone
MCSpec == Init /\ [][MCNext]_vars /\ Fairness
=============================================================================
