---- MODULE MCClientUpdate ----
(* Two deployments of one package and updates with two others: transfers    *)
(* share a part file, updaters overlap, one package is not valid and one is *)
(* of another version than it says.                                         *)
EXTENDS ClientUpdate, TLC

CONSTANTS a1, a2, a3, a4, sound, other, bad

AllActions  == {a1, a2, a3, a4}
AllPackages == {sound, other, bad}
ThePackages   == (a1 :> sound) @@ (a2 :> sound) @@ (a3 :> other) @@ (a4 :> bad)
TheOperations == (a1 :> "UPDATE_CLIENT") @@ (a2 :> "DEPLOY_PACKAGE") @@ (a3 :> "UPDATE_CLIENT") @@ (a4 :> "UPDATE_CLIENT")
TheContents   == (sound :> "sound") @@ (other :> "mislabelled") @@ (bad :> "invalid")
====
