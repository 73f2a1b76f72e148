----------------------------- MODULE Deployment -----------------------------
(***************************************************************************)
(* The proxy and its set-up scripts together: what a proxy that is started *)
(* at any moment of ResolverSetup learns from the files (the constructors  *)
(* in dns/src/main.cpp).                                                   *)
(***************************************************************************)
EXTENDS ResolverSetup, ConfigLoader

CONSTANTS ConfigFiles,     \* what microDNS.conf may be
          NameserverLists  \* what the original RUN_RESOLV_CONF may be

ASSUME FilesAssumption == ConfigFiles \subseteq Seq(Seq(STRING)) /\ NameserverLists \subseteq Seq(Seq(STRING))

VARIABLE proxy  \* off, failed, blind (it runs without nameservers) or serving

SnapshotKey == <<"BACKUP_FILE_RUN">>

(* For the parameters QueryReceiver asks for: address, port and domain.    *)
DomainKey == <<"BASE_DOMAIN">>
Needed == {SnapshotKey, DomainKey}

(* What the proxy makes of its files when the snapshot is whole.  getParam *)
(* throws for a parameter that is not there, and main does not catch it.   *)
(* The scripts keep the snapshot under the name that they read themselves. *)
Reading ==
    [file \in ConfigFiles \X NameserverLists |->
        LET params == Load(file[1])
        IN IF ~(Needed \subseteq DOMAIN params) THEN "failed"
           ELSE IF params[SnapshotKey] = Source(file[1])[SnapshotKey] /\ Nameservers(file[2]) # {}
             THEN "serving" ELSE "blind"]

(* No nameserver is read from what is left of an unfinished copy.          *)
Started(file) ==
    IF Reading[file] = "failed" \/ backup["run"] = "original" THEN Reading[file] ELSE "blind"

StartProxy(config, listed) ==
    /\ proxy = "off"
    /\ proxy' = Started(<<config, listed>>)
    /\ UNCHANGED vars

StopProxy ==
    /\ proxy # "off" /\ proxy' = "off"
    /\ UNCHANGED vars

DeploymentInit == Init /\ proxy = "off"

DeploymentNext ==
    \/ Next /\ UNCHANGED proxy
    \/ \E config \in ConfigFiles, listed \in NameserverLists : StartProxy(config, listed)
    \/ StopProxy

DeploymentSpec ==
    /\ DeploymentInit /\ [][DeploymentNext]_<<vars, proxy>>
    /\ WF_vars(ScriptStep) /\ WF_vars(removing /\ Call("teardown"))
-----------------------------------------------------------------------------
(* The shell and the loader understand the same: no key comes twice, and   *)
(* quotation marks are double ones around the whole value.  What the proxy *)
(* needs is there.                                                         *)
WellQuoted(val) ==
    \/ Marks(val) = {}
    \/ Len(val) >= 2 /\ Marks(val) = {1, Len(val)} /\ Head(val) = Quote /\ Last(val) = Quote

Plain(config) ==
    /\ \A i, j \in Settings(config) : i # j => Key(config[i]) # Key(config[j])
    /\ \A i \in Settings(config) : WellQuoted(Value(config[i]))
    /\ Needed \subseteq Keys(config)

(* As systemd-resolved writes it.                                          *)
NamesServer(listed) == \E ip \in Addresses : <<"nameserver", " ", ip>> \in ToSet(listed)

Usable == {file \in ConfigFiles \X NameserverLists : Plain(file[1]) /\ NamesServer(file[2])}

(* A proxy that is started while the resolver leads to it knows a          *)
(* nameserver, if the list names one and microDNS.conf reads the same for  *)
(* the shell and the loader, when none of the four things of Reasons has   *)
(* happened since the snapshot was last taken.  Whatever happened before   *)
(* is repaired by a setup that takes it, and whatever else went wrong      *)
(* since does no harm.  After one of the four the proxy may start without  *)
(* nameservers and says nothing (config.cpp:46).                           *)
StartsServing ==
    [][reasons = {} /\ conf["resolv"] = "managed" =>
          \A file \in Usable : StartProxy(file[1], file[2]) => proxy' = "serving"]_<<vars, proxy>>
=============================================================================
