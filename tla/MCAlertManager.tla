--------------------------- MODULE MCAlertManager ---------------------------
(***************************************************************************)
(* Values for the constants of AlertManager: a manager that alerts on the  *)
(* first missing document, one that is more patient, and one disabled; a   *)
(* collection of two thousand documents and one of a thousand.             *)
(***************************************************************************)
EXTENDS AlertManager, TLC

CONSTANTS n1, n2

Both(missing, different) ==
    [kind \in Kinds |-> IF kind = "missing" THEN missing ELSE different]

Config(enabled, threshold, stuck, channels) ==
    [Enabled |-> enabled, Threshold |-> threshold, StuckMinutes |-> stuck, Channels |-> channels]

SomeConfigs ==
    {Config(TRUE, Both(0, 1), 1, {}), Config(TRUE, Both(3, 9), 2, {"slack"}),
     Config(FALSE, Both(0, 0), 1, {"email"})}

(* A thousand documents in order, or two missing and one different.        *)
SomeFindings == {Both(0, 0), Both(2, 1)}

Sizes == n1 :> 2 @@ n2 :> 1
=============================================================================
