---------------------------- MODULE MCInstaller ----------------------------
(* A cluster of one or two masters and a worker for Installer. *)
EXTENDS Installer

CONSTANTS m1, m2, w

SecretsAndHelm == <<PullSecrets, Helm>>

MetricsOnly == <<MetricServer>>

Deployments == {"deployment"}

Times(requests, answers, stale, uncached, masters, restarts, relapses) ==
    [k \in Faults |-> CASE k = "request" -> requests [] k = "answer" -> answers
                        [] k = "stale" -> stale [] k = "cache" -> uncached
                        [] k = "master" -> masters [] k = "restart" -> restarts
                        [] k = "relapse" -> relapses]

Mishaps == Times(1, 0, 1, 1, 1, 1, 1)
OneRequest == Times(1, 0, 0, 0, 0, 0, 0)
Races == Times(0, 1, 0, 0, 0, 0, 0)
NoMishap == Times(0, 0, 0, 0, 0, 0, 0)
OneMaster == Times(0, 0, 0, 0, 1, 0, 0)
=============================================================================
