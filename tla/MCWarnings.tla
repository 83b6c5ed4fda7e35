---------------------------- MODULE MCWarnings ----------------------------
EXTENDS Warnings

CONSTANTS proj, backend    \* the project name and a user-defined network

MCNameOrder1 == <<"web">>
MCNameOrder3 == <<"api", "db", "web">>   \* byte order of the names

(* Deploy blocks: with and without plain keys, every shape of placement,  *)
(* and update_config absent, empty, and with a few fields set.             *)
MCDeployChoices ==
    {NoDeploy} \cup
    [set : {{}, {"deploy.endpoint_mode"}}, constraints : {"nil", "empty", "some"},
     preferences : BOOLEAN,
     update : {NoUpdate, {}, {"deploy.update_config.delay",
                              "deploy.update_config.parallelism"}}]

(* Small configurations for the runs over several services.               *)
MCOrderConfigs ==
    LET base == [set |-> {}, dependsOn |-> {}, networks |-> {},
                 networkMode |-> Unset, attach |-> NoAttach, deploy |-> NoDeploy]
    IN  {base,
         [base EXCEPT !.set = {"restart", "net"}],
         [base EXCEPT !.networks = {backend}, !.attach = FALSE],
         [base EXCEPT !.networks = {proj, "default"}],
         [base EXCEPT !.set = {"links"}, !.dependsOn = {"links"}]}
=============================================================================
