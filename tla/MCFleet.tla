------------------------------- MODULE MCFleet -------------------------------
(***************************************************************************)
(* Small instances, for TLC, of the modules about honeypots: their rows, the *)
(* SSH identity and the onboarding that make them reachable, their tags,     *)
(* packages, update rollouts, configuration and watched files, the wizard    *)
(* that turns a machine into one, the tunnel they are reached through,       *)
(* the reference data that says where their visitors and their network cards *)
(* come from (the GeoIP database and the list of manufacturers, two tables), *)
(* the terminals opened on them, and the history kept of them.               *)
(* The columns they use are disjoint, so a behaviour moves one of them: the  *)
(* others stay where they begin.                                             *)
(***************************************************************************)
EXTENDS HoneypotRecord, SshAccess, HoneypotTags, Packages, UpdateRollout, CanaryConfig,
        WatchedFiles, Initialize, Vpn, ReferenceData, Terminals, Retention

VARIABLE part  \* the one of them that moves

fleetVars == <<recordVars, sshVars, tagVars, packageVars, rolloutVars, configVars, watchVars,
               initializeVars, vpnVars, referenceVars, terminalVars, retentionVars, part>>

-----------------------------------------------------------------------------
\* The instances and their bounds

\* Three honeypots in a rolling batch with a reboot, and the retry of the second.
RetriedRuns == 1..4
BatchOfRun == <<1, 1, 1, 2>>
TargetOfRun == <<1, 2, 3, 2>>
ThreeTargets == 1..3
RollingReboot == [rolling : {TRUE}, reboot : {TRUE}]
AnyPoint == {"enqueueing", "updating", "updated", "rebooting", "continuing",
             "stopping", "reaping", "reaped"}

ASSUME FleetAssumption ==
    /\ RecordConstants /\ SshConstants /\ TagsConstants /\ PackagesConstants
    /\ RolloutConstants /\ ConfigConstants /\ WatchConstants /\ InitializeConstants
    /\ VpnConstants /\ ReferenceConstants /\ TerminalConstants /\ RetentionConstants

-----------------------------------------------------------------------------
FleetInit ==
    /\ RecordInit /\ SshInit /\ TagsInit /\ PackagesInit /\ RolloutInit
    /\ ConfigInit /\ WatchInit /\ InitializeInit /\ VpnInit
    /\ ReferenceInit /\ TerminalInit /\ RetentionInit
    /\ part \in {"record", "ssh", "tags", "packages", "rollout",
                 "config", "files", "initialize", "vpn", "geoip", "list", "terminals", "history"}
    \* The names of the addresses and of the machines do not matter.
    /\ row.address = "a" /\ host["a"] = "a"
    /\ part # "record" => column = "log" /\ host["b"] = "b"
    /\ part # "initialize" => answering = "d"
    /\ part # "terminals" => ~recordingOn
    /\ part # "history" => table = "runs" /\ keep = 0

\* All the parts but p stay as they are.
Only(p) ==
    /\ part = p /\ UNCHANGED part
    /\ IF p = "record" THEN TRUE ELSE UNCHANGED recordVars
    /\ IF p = "ssh" THEN TRUE ELSE UNCHANGED sshVars
    /\ IF p = "tags" THEN TRUE ELSE UNCHANGED tagVars
    /\ IF p = "packages" THEN TRUE ELSE UNCHANGED packageVars
    /\ IF p = "rollout" THEN TRUE ELSE UNCHANGED rolloutVars
    /\ IF p = "config" THEN TRUE ELSE UNCHANGED configVars
    /\ IF p = "files" THEN TRUE ELSE UNCHANGED watchVars
    /\ IF p = "initialize" THEN TRUE ELSE UNCHANGED initializeVars
    /\ IF p = "vpn" THEN TRUE ELSE UNCHANGED vpnVars
    /\ IF p \in {"geoip", "list"} THEN TRUE ELSE UNCHANGED referenceVars
    /\ IF p = "terminals" THEN TRUE ELSE UNCHANGED terminalVars
    /\ IF p = "history" THEN TRUE ELSE UNCHANGED retentionVars

\* Update runs, and packages, differ by their names only: the first run comes
\* first, and the one hold is of the first package. Nothing reads a run that no
\* rollback goes back to, so only the others are purged.
FirstPlace ==
    /\ \A r, later \in Updates :
          r < later /\ updateRun'[r].status = "none" => updateRun'[later].status = "none"
    /\ \A t \in HoldTasks : hold'[t].name \subseteq {"a"}
    /\ \A s \in Updates :
          updateRun'[s].status = "purged" => \E r \in Updates : updateRun[r].of = s

FleetNext ==
    \/ Only("record") /\ RecordNext
    \/ Only("ssh") /\ SshNext
    \/ Only("tags") /\ TagsNext
    \/ Only("packages") /\ PackagesNext /\ FirstPlace
    \/ Only("rollout") /\ RolloutNext
    \/ Only("config") /\ ConfigNext
    \/ Only("files") /\ WatchNext
    \/ Only("initialize") /\ InitializeNext
    \/ Only("vpn") /\ VpnNext
    \/ Only("geoip") /\ (GeoNext \/ NewEdition \/ Tick)
    \/ Only("list") /\ (ListNext \/ NewEdition \/ Tick)
    \/ Only("terminals") /\ TerminalNext
    \/ Only("history") /\ RetentionNext

FleetSpec == FleetInit /\ [][FleetNext]_fleetVars

=============================================================================
