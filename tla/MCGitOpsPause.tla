--------------------------- MODULE MCGitOpsPause ---------------------------
(* An Application and a Flux object for GitOpsPause.tla.                   *)
EXTENDS GitOpsPause, TLC

CONSTANTS shop, infra

MCEngineOf == (shop :> "Application") @@ (infra :> "Kustomization")
AppEngine == (shop :> "Application")
MCSettingsOf == [o \in {shop, infra} |-> {"paused", "auto"}]
AppSettings == (shop :> {"paused", "auto", "tuned"})

Policy(k, n, f, ts) == [kind |-> k, name |-> n, freeze |-> f, targets |-> ts]

(* A freeze and two maintenance policies, one of the same name; they share *)
(* the Flux object.                                                        *)
Sharing == {Policy("ChangeFreeze", "a", {1}, {shop, infra}),
            Policy("MaintenanceWindow", "b", {1}, {infra}),
            Policy("MaintenanceWindow", "a", {2}, {infra})}
Alone == {Policy("ChangeFreeze", "a", {1}, {shop})}
(* Two freezes, the second beginning when the first ends.                  *)
BackToBack == {Policy("ChangeFreeze", "a", {1}, {shop}),
               Policy("ChangeFreeze", "b", {2}, {shop})}
=============================================================================
