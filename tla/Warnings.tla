------------------------------ MODULE Warnings ------------------------------
(***************************************************************************)
(* CheckProjectWarnings (pkg/client/compose/warnings.go): for each service *)
(* name of project.ServiceNames(), checkServiceWarnings runs the fixed     *)
(* catalogue of unsupported-key checks (and checkDeployWarnings when the   *)
(* service has a deploy block), sorts that service's warnings by key and   *)
(* appends them to the result.                                             *)
(*                                                                         *)
(* A service's configuration is abstracted to what the checks read: the    *)
(* set of catalogue keys whose field is set (non-nil, non-empty, non-zero  *)
(* or true, as each check tests), and the fields with their own rules:     *)
(* depends_on, networks, network_mode, attach and the deploy block.        *)
(* Warning messages are left out: no check reads them.                     *)
(***************************************************************************)
EXTENDS Naturals, SequencesExt

CONSTANTS
    Services,      \* service names in the project
    NameOrder,     \* Services listed in byte order of their names
    ProjectName,   \* project.Name, the default network's name
    NetworkNames,  \* network names a service may attach to
    NetworkModes,  \* network_mode values a service may have
    SetChoices,    \* the plain catalogue keys an input may set
    DeployChoices, \* the deploy blocks an input may have (NoDeploy: none)
    Unset,         \* the empty string "" of an unset string field
    NoAttach,      \* attach not given (nil *bool)
    NoDeploy,      \* no deploy block (nil *DeployConfig)
    NoUpdate       \* no update_config (nil *UpdateConfig)

(***************************************************************************)
(* The catalogue of checkServiceWarnings, in the order of its if blocks,   *)
(* split at the places the README's map refers to.                         *)
(***************************************************************************)
CatalogueCore ==
    <<"build", "container_name", "depends_on", "networks", "network_mode",
      "restart", "secrets", "profiles", "links", "external_links",
      "volumes_from">>

CatalogueHost ==
    <<"develop", "hostname", "dns", "dns_opt", "dns_search", "extra_hosts",
      "security_opt", "platform", "working_dir", "tmpfs", "read_only",
      "shm_size", "cpuset", "memswap_limit", "pid", "ipc", "uts",
      "userns_mode">>

CatalogueRuntime ==
    <<"cgroup_parent", "cgroup", "isolation", "runtime", "stop_signal",
      "stop_grace_period", "mac_address", "tty", "stdin_open",
      "oom_kill_disable", "oom_score_adj", "pids_limit", "storage_opt",
      "device_cgroup_rules", "credential_spec", "group_add",
      "blkio_config", "cpu_count", "cpu_percent", "cpu_period",
      "cpu_quota", "cpu_rt_period", "cpu_rt_runtime", "cpu_shares",
      "mem_swappiness">>

CatalogueMisc ==
    <<"domainname", "attach", "labels", "annotations", "extends",
      "post_start", "pre_stop", "provider", "models", "volume_driver",
      "use_api_socket", "net">>

ServiceCatalogue == CatalogueCore \o CatalogueHost \o CatalogueRuntime \o CatalogueMisc

(* checkDeployWarnings: the deploy block's own keys, then update_config's. *)
DeployCatalogue ==
    <<"deploy.labels", "deploy.rollback_config", "deploy.restart_policy",
      "deploy.endpoint_mode", "deploy.placement">>

UpdateCatalogue ==
    <<"deploy.update_config.parallelism", "deploy.update_config.delay",
      "deploy.update_config.failure_action", "deploy.update_config.monitor",
      "deploy.update_config.max_failure_ratio">>

(***************************************************************************)
(* Every key of the catalogue in ascending byte order, the order in which  *)
(* Go's < compares strings ('.' < '_' < letters): the order the            *)
(* slices.SortFunc comparator of checkServiceWarnings puts keys in.        *)
(***************************************************************************)
SortedKeys ==
    <<"annotations", "attach", "blkio_config", "build", "cgroup",
      "cgroup_parent", "container_name", "cpu_count", "cpu_percent",
      "cpu_period", "cpu_quota", "cpu_rt_period", "cpu_rt_runtime",
      "cpu_shares", "cpuset", "credential_spec", "depends_on",
      "deploy.endpoint_mode", "deploy.labels", "deploy.placement",
      "deploy.restart_policy", "deploy.rollback_config",
      "deploy.update_config.delay", "deploy.update_config.failure_action",
      "deploy.update_config.max_failure_ratio",
      "deploy.update_config.monitor", "deploy.update_config.parallelism",
      "develop", "device_cgroup_rules", "dns", "dns_opt", "dns_search",
      "domainname", "extends", "external_links", "extra_hosts",
      "group_add", "hostname", "ipc", "isolation", "labels", "links",
      "mac_address", "mem_swappiness", "memswap_limit", "models", "net",
      "network_mode", "networks", "oom_kill_disable", "oom_score_adj",
      "pid", "pids_limit", "platform", "post_start", "pre_stop",
      "profiles", "provider", "read_only", "restart", "runtime", "secrets",
      "security_opt", "shm_size", "stdin_open", "stop_grace_period",
      "stop_signal", "storage_opt", "tmpfs", "tty", "use_api_socket",
      "userns_mode", "uts", "volume_driver", "volumes_from", "working_dir">>


Keys == Range(SortedKeys)

KeyRank(k) == CHOOSE r \in 1..Len(SortedKeys) : SortedKeys[r] = k

(* Keys with a rule of their own; every other key warns when its field is set. *)
RuledKeys == {"depends_on", "networks", "network_mode", "attach"}

PlainKeys == Range(ServiceCatalogue) \ RuledKeys

DeployPlainKeys == Range(DeployCatalogue) \ {"deploy.placement"}

UpdateKeys == Range(UpdateCatalogue)

ASSUME WarningsAssumption ==
    /\ Range(ServiceCatalogue \o DeployCatalogue \o UpdateCatalogue) = Keys
    /\ Len(SortedKeys) = Len(ServiceCatalogue) + Len(DeployCatalogue)
                          + Len(UpdateCatalogue)
    /\ NameOrder \in [1..Len(NameOrder) -> Services]
    /\ Range(NameOrder) = Services /\ Len(NameOrder) = Cardinality(Services)
    /\ SetChoices \subseteq PlainKeys
    /\ {ProjectName, "default"} \subseteq NetworkNames
    /\ {Unset, "default"} \subseteq NetworkModes

-----------------------------------------------------------------------------
(***************************************************************************)
(* A deploy block: its plain keys that are set, placement.constraints      *)
(* ("nil", "empty" or "some": a nil, empty or non-empty slice), whether    *)
(* placement.preferences is non-empty, and update_config (NoUpdate or the *)
(* set of its keys whose field is set).                                    *)
(***************************************************************************)
Deploy == [set : SUBSET DeployPlainKeys, constraints : {"nil", "empty", "some"},
           preferences : BOOLEAN, update : {NoUpdate} \cup SUBSET UpdateKeys]

(***************************************************************************)
(* A service's configuration.  dependsOn holds where its depends_on        *)
(* entries come from: "explicit" (written by the user) and "links" (added  *)
(* by compose-go for each links entry, so present exactly when links is    *)
(* set).                                                                   *)
(***************************************************************************)
Config == [set : SUBSET SetChoices, dependsOn : SUBSET {"explicit", "links"},
           networks : SUBSET NetworkNames, networkMode : NetworkModes,
           attach : {NoAttach, TRUE, FALSE}, deploy : DeployChoices]

LoadedConfigs == {c \in Config : ("links" \in c.dependsOn) <=> ("links" \in c.set)}

Warning == [Service : Services, Key : Keys]

VARIABLES
    declared,  \* the services in the order the compose file lists them
    config,    \* project.Services: name -> configuration
    idx,       \* position in project.ServiceNames() of the next service
    warnings   \* the []Warning built so far

wvars == <<declared, config, idx, warnings>>

-----------------------------------------------------------------------------
(* project.ServiceNames(): the service names sorted (compose-go sorts      *)
(* them; TestCheckProjectWarnings_ServiceOrder asserts the sorted order).  *)
ServiceNames == NameOrder

(* Mutant: the literal "default" network is taken as user-defined.        *)
HasUserDefinedNetworksNoDefault(c) ==
    /\ c.networks # {}
    /\ \E n \in c.networks : n # ProjectName

(* hasUserDefinedNetworks                                                  *)
HasUserDefinedNetworks(c) ==
    /\ c.networks # {}
    /\ \E n \in c.networks : n # ProjectName /\ n # "default"

(* The condition of the if block of key k in checkServiceWarnings.         *)
ServiceCheck(c, k) ==
    CASE k = "depends_on"   -> c.dependsOn # {} /\ "links" \notin c.set
      [] k = "networks"     -> c.networks # {} /\ HasUserDefinedNetworks(c)
      [] k = "network_mode" -> c.networkMode # Unset /\ c.networkMode # "default"
      [] k = "attach"       -> c.attach # NoAttach /\ c.attach = FALSE
      [] OTHER              -> k \in c.set

(* The condition of the if block of key k in checkDeployWarnings.          *)
DeployCheck(d, k) ==
    CASE k = "deploy.placement" -> d.constraints # "nil" \/ d.preferences
      [] k \in UpdateKeys       -> d.update # NoUpdate /\ k \in d.update
      [] OTHER                  -> k \in d.set

(* The warnings of one service, in the order the checks append them.       *)
KeysToWarnings(name, ks) == [n \in 1..Len(ks) |-> [Service |-> name, Key |-> ks[n]]]

checkDeployWarnings(name, d) ==
    KeysToWarnings(name, SelectSeq(DeployCatalogue \o UpdateCatalogue,
                                   LAMBDA k : DeployCheck(d, k)))

Unsorted(name) ==
    LET c == config[name] IN
    KeysToWarnings(name, SelectSeq(ServiceCatalogue, LAMBDA k : ServiceCheck(c, k)))
    \o (IF c.deploy # NoDeploy THEN checkDeployWarnings(name, c.deploy) ELSE <<>>)

(* slices.SortFunc by key (not stable; keys are compared with < and >).   *)
SortByKey(ws) == SortSeq(ws, LAMBDA a, b : KeyRank(a.Key) < KeyRank(b.Key))

(* Mutant: the slices.SortFunc call is left out.                          *)
checkServiceWarningsUnsorted(name) == Unsorted(name)

checkServiceWarnings(name) == SortByKey(Unsorted(name))

-----------------------------------------------------------------------------
WTypeOK ==
    /\ declared \in [1..Len(NameOrder) -> Services]
    /\ config \in [Services -> LoadedConfigs]
    /\ idx \in 1..(Len(NameOrder) + 1)
    /\ warnings \in Seq(Warning)

WInit ==
    /\ declared \in {s \in [1..Len(NameOrder) -> Services] : Range(s) = Services}
    /\ config \in [Services -> LoadedConfigs]
    /\ idx = 1
    /\ warnings = <<>>

(* One iteration of the loop of CheckProjectWarnings.                      *)
CheckService ==
    /\ idx <= Len(ServiceNames)
    /\ warnings' = warnings \o checkServiceWarnings(ServiceNames[idx])
    /\ idx' = idx + 1
    /\ UNCHANGED <<declared, config>>

WNext == CheckService

WSpec == WInit /\ [][WNext]_wvars

-----------------------------------------------------------------------------
(***************************************************************************)
(* What section 4.1 of the spec says each check flags, stated from the     *)
(* spec's words: depends_on unless its only content came from links, a     *)
(* network other than the project's own and "default", a network_mode      *)
(* other than empty and "default", attach=false, placement when its        *)
(* constraints or its preferences are non-empty, every other key when set. *)
(***************************************************************************)
SpecWarns(c, k) ==
    CASE k = "depends_on"       -> "explicit" \in c.dependsOn
      [] k = "networks"         -> \E n \in c.networks : n \notin {ProjectName, "default"}
      [] k = "network_mode"     -> c.networkMode \notin {Unset, "default"}
      [] k = "attach"           -> c.attach = FALSE
      [] k = "deploy.placement" -> c.deploy # NoDeploy /\
                                   (c.deploy.constraints = "some" \/ c.deploy.preferences)
      [] k \in UpdateKeys       -> c.deploy # NoDeploy /\ c.deploy.update # NoUpdate
                                   /\ k \in c.deploy.update
      [] k \in DeployPlainKeys  -> c.deploy # NoDeploy /\ k \in c.deploy.set
      [] OTHER                  -> k \in c.set

SpecKeys(c) == {k \in Keys : SpecWarns(c, k)}

WarnedKeys(s) == {warnings[n].Key : n \in {m \in DOMAIN warnings : warnings[m].Service = s}}

Processed(s) == \E p \in 1..(idx - 1) : ServiceNames[p] = s

NamePos(s) == CHOOSE p \in 1..Len(ServiceNames) : ServiceNames[p] = s

DeclaredPos(s) == CHOOSE p \in DOMAIN declared : declared[p] = s

(***************************************************************************)
(* The scan reports, for every service it has visited and no other, the    *)
(* keys section 4.1 says are unsupported in that service's configuration:  *)
(* the catalogue checks of checkServiceWarnings and checkDeployWarnings,   *)
(* the user-defined-network test of hasUserDefinedNetworks included.  The *)
(* two keys whose rule the code states differently (depends_on and         *)
(* deploy.placement) have properties of their own below.                   *)
(***************************************************************************)
WarningsMatchSpec ==
    \A s \in Services :
        WarnedKeys(s) \ {"depends_on", "deploy.placement"} =
            IF Processed(s) THEN SpecKeys(config[s]) \ {"depends_on", "deploy.placement"}
            ELSE {}

(***************************************************************************)
(* The output of CheckProjectWarnings is ordered: warnings of different    *)
(* services come in the order of the loop over project.ServiceNames(), and *)
(* within one service the keys strictly increase (checkServiceWarnings     *)
(* sorts them, and no key is reported twice for a service).                *)
(***************************************************************************)
OutputOrdered ==
    \A k, l \in DOMAIN warnings :
        k < l =>
          IF warnings[k].Service = warnings[l].Service
          THEN KeyRank(warnings[k].Key) < KeyRank(warnings[l].Key)
          ELSE NamePos(warnings[k].Service) < NamePos(warnings[l].Service)

(***************************************************************************)
(* Spec section 4.1 and its test list: depends_on is warned exactly when   *)
(* some of its entries were written by the user, not when it was only      *)
(* auto-populated from links.  The check at warnings.go:78 instead drops   *)
(* the warning whenever links is non-empty.                                *)
(***************************************************************************)
DependsOnWarnedPerSpec ==
    \A s \in Services : Processed(s) =>
        (("depends_on" \in WarnedKeys(s)) <=> SpecWarns(config[s], "depends_on"))

(***************************************************************************)
(* Spec section 4.1: deploy.placement is warned when its constraints or    *)
(* its preferences are non-empty.  The check at warnings.go:643 tests the  *)
(* constraints slice against nil instead.                                  *)
(***************************************************************************)
PlacementWarnedPerSpec ==
    \A s \in Services : Processed(s) =>
        (("deploy.placement" \in WarnedKeys(s)) <=> SpecWarns(config[s], "deploy.placement"))

(***************************************************************************)
(* Spec sections 3 and 4.1: warnings of different services follow the      *)
(* project's declared service order.  CheckProjectWarnings iterates        *)
(* project.ServiceNames(), which is sorted by name.                        *)
(***************************************************************************)
WarningsFollowDeclaredOrder ==
    \A k, l \in DOMAIN warnings :
        k < l /\ warnings[k].Service # warnings[l].Service =>
            DeclaredPos(warnings[k].Service) < DeclaredPos(warnings[l].Service)
=============================================================================
