--------------------------- MODULE MCAlertOutbox ---------------------------
EXTENDS AlertOutbox

\* The notices 1 and 2 share the mandatory lane, or have a lane each.
Pairs == {<<"mandatory", "mandatory">>, <<"mandatory", "optional">>}
=============================================================================
