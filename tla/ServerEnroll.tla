---------------------------- MODULE ServerEnroll ----------------------------
(***************************************************************************)
(* The enroll-server workflow for one server: the workflow itself          *)
(* (main/enroll_server.py, ironic_node.py, bmc_credentials.py,             *)
(* bmc_bios.py), the Ironic node it drives, and the inspection hooks that  *)
(* run inside Ironic (port_bios_name_hook.py, after out-of-band            *)
(* inspection, and inspect_hook_update_baremetal_ports.py, after agent     *)
(* inspection).  What three parties write has to fit together in the end:  *)
(* the boot device in the BIOS, which changes on a reset only, the port    *)
(* flags, which the hooks set, and the boot interface of the node.         *)
(* Technicians move cables at any time; a run that fails or dies is        *)
(* started again from the top.                                             *)
(***************************************************************************)
EXTENDS Naturals, FiniteSets

CONSTANTS
  Nics,         \* network interfaces of the server
  NoNic,        \* none of them
  Switches,     \* switches they may be cabled to
  NoSwitch,     \* not cabled, or no LLDP heard
  Cablings,     \* the ways the server may be cabled
  CategoryOf,   \* switch_name_vlan_group_mapping: the category of a switch,
                \* or NoSwitch when its suffix is not mapped
  RackOf,       \* the rack a switch is in, as <<data center, rack>>
  RankOf        \* place of a switch in _natural_sorted_switch_names

ASSUME ServerAssumption ==
  /\ NoNic \notin Nics /\ NoSwitch \notin Switches
  /\ Cablings \subseteq [Nics -> Switches \cup {NoSwitch}]

VARIABLES
  server,   \* the Ironic node: [state, boot, inspect, traits]
  nics,     \* its ports: [pxe, net, cat, bios]
  cable,    \* where each NIC is plugged in
  bios,     \* HttpDev1Interface: [cur, pend, queued]; NoNic: some other device
  bmc,      \* the password of the BMC: "production", "factory" or an "old" one
  run       \* the workflow run: [pc, pxe, raid, old]

serverVars == <<server, nics, cable, bios, bmc, run>>

ENROLLABLE_STATES == {"clean failed", "inspect failed", "enroll", "manageable"}
Steady == "http-ipxe"

IdleRun == [pc |-> "idle", pxe |-> NoNic, raid |-> FALSE, old |-> FALSE]

\* create_ironic_node.
NewServer == [state |-> "enroll", boot |-> Steady, inspect |-> "redfish", traits |-> {}]

ServerInit(password) ==
  /\ server = [NewServer EXCEPT !.state = "absent"]
  /\ nics = [n \in Nics |-> [pxe |-> FALSE, net |-> "none", cat |-> NoSwitch, bios |-> FALSE]]
  /\ cable = [n \in Nics |-> NoSwitch]
  /\ bios = [cur |-> NoNic, pend |-> NoNic, queued |-> FALSE]
  /\ bmc = password
  /\ run = IdleRun

RunAt(pc) == run.pc = pc
RunGoto(pc) == run' = [run EXCEPT !.pc = pc]
EndRun == run' = IdleRun

-----------------------------------------------------------------------------
\* set_bmc_password: the production password, else the old one, if it is given, or
\* a factory one, which is replaced.  The login with the new one may still fail.
SetBmcPassword ==
  /\ RunAt("login")
  /\ \/ /\ bmc # "old" \/ run.old
        /\ bmc' = "production"
        /\ run' = [run EXCEPT !.pc = "find", !.old = FALSE] \/ EndRun
     \/ UNCHANGED bmc /\ EndRun
  /\ UNCHANGED <<server, nics, cable, bios>>

\* ironic_node.create_or_update, up to the transition: a node that is busy or in
\* use is refused.
FindServer ==
  /\ RunAt("find")
  /\ \/ /\ server.state = "absent"
        /\ server' = NewServer
        /\ RunGoto("manage")
     \/ /\ server.state \in ENROLLABLE_STATES
        /\ RunGoto(IF server.state = "manageable" THEN "update" ELSE "manage")
        /\ UNCHANGED server
     \/ server.state \notin ENROLLABLE_STATES \cup {"absent"} /\ EndRun /\ UNCHANGED server
  /\ UNCHANGED <<nics, cable, bios, bmc>>

\* Verification of a new node clears the BMC's job queue.
ManageServer ==
  /\ RunAt("manage")
  /\ server' = [server EXCEPT !.state = "manageable"]
  /\ bios' = IF server.state = "enroll" THEN [bios EXCEPT !.pend = NoNic, !.queued = FALSE]
             ELSE bios
  /\ RunGoto("update")
  /\ UNCHANGED <<nics, cable, bmc>>

\* update_ironic_node (a created node has it all already).
UpdateServer ==
  /\ RunAt("update")
  /\ server' = [server EXCEPT !.boot = Steady, !.inspect = "redfish"]
  /\ RunGoto("outOfBand")
  /\ UNCHANGED <<nics, cable, bios, bmc>>

\* ironic_node.transition: request, then wait for the expected state, or one that
\* says it failed.  Ironic goes on when nobody waits any more.
Request(pc, verbing, inspect, wait) ==
  /\ RunAt(pc)
  /\ server.state = "manageable"
  /\ server' = [server EXCEPT !.state = verbing, !.inspect = inspect]
  /\ RunGoto(wait)

Await(pc, expected, next) ==
  /\ RunAt(pc)
  /\ \/ server.state = expected /\ RunGoto(next)
     \/ server.state \in {"inspect failed", "clean failed"} /\ EndRun
  /\ UNCHANGED <<server, nics, cable, bios, bmc>>

\* inspect_out_of_band, before the agent inspection and after a new RAID layout:
\* the inspect interface goes back to the default first.
InspectOutOfBand ==
  /\ \/ Request("outOfBand", "inspecting", "redfish", "outOfBandWait")
     \/ Request("outOfBandAgain", "inspecting", "redfish", "outOfBandAgainWait")
  /\ UNCHANGED <<nics, cable, bios, bmc>>

\* pxe_enabled_bios_name: the first such port, in whatever order they are listed.
BootNics == {n \in Nics : nics[n].pxe /\ nics[n].bios /\ nics[n].net # "enrol"}

SelectPxe(n) == IF BootNics = {} THEN n = NoNic ELSE n \in BootNics

\* required_change_for_bios_setting: what is pending counts before what is active.
RequiredChange(n) ==
  n # NoNic /\ n # (IF bios.pend # NoNic THEN bios.pend ELSE bios.cur)

\* update_dell_bios_settings: settings that differ, this one or another, are
\* patched for the next reset.  A patch that meets a queued job is refused, and
\* patch_bios_settings ignores that.
UpdateBios(n) ==
  \/ RequiredChange(n) /\ bios' = [bios EXCEPT !.pend = n, !.queued = TRUE]
  \/ ~RequiredChange(n) /\ bios' = [bios EXCEPT !.queued = TRUE]
  \/ (~RequiredChange(n) \/ bios.queued) /\ UNCHANGED bios

\* enroll: BIOS settings for the PXE interface that is known so far.
PrepareBios ==
  /\ RunAt("prepare")
  /\ \E n \in Nics \cup {NoNic} :
       /\ SelectPxe(n) /\ UpdateBios(n)
       /\ run' = [run EXCEPT !.pc = "boot", !.pxe = n]
  /\ UNCHANGED <<server, nics, cable, bmc>>

\* agent_inspection: through virtual media when no PXE interface is known yet.
SetBootInterface ==
  /\ RunAt("boot")
  /\ server' = [server EXCEPT !.boot = IF run.pxe = NoNic THEN "virtual-media" ELSE Steady]
  /\ run' = [run EXCEPT !.pc = "agent", !.pxe = NoNic]
  /\ UNCHANGED <<nics, cable, bios, bmc>>

InspectAgent ==
  /\ Request("agent", "inspecting", "agent", "agentWait")
  /\ UNCHANGED <<nics, cable, bios, bmc>>

\* Faulty variant: the boot interface stays as it was for the inspection.
KeepBootInterface ==
  /\ RunAt("reset")
  /\ RunGoto("select")
  /\ UNCHANGED <<server, nics, cable, bios, bmc>>

ResetBootInterface ==
  /\ RunAt("reset")
  /\ server' = [server EXCEPT !.boot = Steady]
  /\ RunGoto("select")
  /\ UNCHANGED <<nics, cable, bios, bmc>>

\* The PXE interface the agent inspection has found goes into the BIOS; without
\* one the run fails.
ConfigureBoot ==
  /\ RunAt("select")
  /\ \E n \in Nics \cup {NoNic} :
       /\ SelectPxe(n)
       /\ \/ n = NoNic /\ EndRun /\ UNCHANGED bios
          \/ /\ n # NoNic /\ UpdateBios(n)
             /\ RunGoto(IF run.raid THEN "raid" ELSE "firmware")
  /\ UNCHANGED <<server, nics, cable, bmc>>

\* configure_raid, when the server has RAID hardware.
ConfigureRaid ==
  /\ \/ Request("raid", "cleaning", server.inspect, "raidWait")
     \/ RunAt("raid") /\ RunGoto("outOfBandAgain") /\ UNCHANGED server
  /\ UNCHANGED <<nics, cable, bios, bmc>>

\* apply_firmware_updates, when asked for: one runbook after the other.
ApplyFirmwareUpdates ==
  /\ \/ Request("firmware", "cleaning", server.inspect, "firmwareWait")
     \/ RunAt("firmware") /\ RunGoto("provide") /\ UNCHANGED server
  /\ UNCHANGED <<nics, cable, bios, bmc>>

ProvideServer ==
  /\ Request("provide", "providing", server.inspect, "provideWait")
  /\ UNCHANGED <<nics, cable, bios, bmc>>

AwaitServer ==
  \/ Await("outOfBandWait", "manageable", "prepare")
  \/ Await("agentWait", "manageable", "reset")
  \/ Await("raidWait", "manageable", "outOfBandAgain")
  \/ Await("outOfBandAgainWait", "manageable", "firmware")
  \/ Await("firmwareWait", "manageable", "firmware")
  \/ Await("provideWait", "available", "idle")

\* The run dies, or a wait times out (NODE_STATE_TIMEOUT_SECS).
CrashRun ==
  /\ ~RunAt("idle")
  /\ EndRun
  /\ UNCHANGED <<server, nics, cable, bios, bmc>>

-----------------------------------------------------------------------------
\* What Ironic does (external) and the hooks it calls.

\* port_bios_name_hook, after Ironic's own hook has created the missing ports and
\* flagged those for PXE, or all of them: the flag of a port without a physical
\* network is cleared; if none is left, one port gets placeholder data.
PortBiosNameHook ==
  \E all \in BOOLEAN :
    LET cleared == [n \in Nics |-> [nics[n] EXCEPT !.bios = TRUE,
                                   !.pxe = (all \/ @) /\ nics[n].net # "none"]]
    IN IF \E n \in Nics : cleared[n].pxe THEN nics' = cleared
       ELSE \E n \in Nics : nics' = [cleared EXCEPT ![n].pxe = TRUE, ![n].net = "enrol"]

\* vlan_group_names: one data center, no more than two racks, known suffixes,
\* exactly two network switches.
Heard == {cable[n] : n \in Nics} \ {NoSwitch}
NetworkSwitches == {s \in Heard : CategoryOf[s] = "network"}
TopologyOK ==
  /\ Cardinality({RackOf[s][1] : s \in Heard}) <= 1
  /\ Cardinality({RackOf[s][2] : s \in Heard}) <= 2
  /\ \A s \in Heard : CategoryOf[s] # NoSwitch
  /\ Cardinality(NetworkSwitches) = 2

\* _set_port_attributes and _clear_port_attributes: the ports on the first of the
\* two network switches are for PXE.
InspectedPort(n) ==
  [pxe |-> cable[n] \in NetworkSwitches
            /\ \A s \in NetworkSwitches : RankOf[cable[n]] <= RankOf[s],
   net |-> IF cable[n] \in NetworkSwitches THEN "network" ELSE "none",
   cat |-> IF cable[n] = NoSwitch THEN NoSwitch ELSE CategoryOf[cable[n]],
   bios |-> nics[n].bios]

\* inspect_hook_update_baremetal_ports: without LLDP data it changes nothing, and
\* a port that cannot be saved is skipped with a warning.
UpdateBaremetalPorts(lossy) ==
  \E kept \in SUBSET Nics :
    /\ lossy \/ kept = {}
    /\ nics' = IF Heard = {} THEN nics
               ELSE [n \in Nics |-> IF n \in kept THEN nics[n] ELSE InspectedPort(n)]

\* _set_node_traits: CUSTOM_<category>_SWITCH for every category heard.
NodeTraits == IF Heard = {} THEN server.traits ELSE {CategoryOf[s] : s \in Heard}

\* A reset of the server applies what is pending.
Reset == bios' = [cur |-> IF bios.pend # NoNic THEN bios.pend ELSE bios.cur,
                  pend |-> NoNic, queued |-> FALSE]

\* The agent runs after a reset into its ramdisk (there is no fast track); an
\* inspection may fail for any reason, and does when the hook raises TopologyError.
FinishServerInspect(lossy) ==
  /\ server.state = "inspecting"
  /\ \/ /\ server.inspect = "redfish" /\ PortBiosNameHook /\ UNCHANGED bios
        /\ server' = [server EXCEPT !.state = "manageable"]
     \/ /\ server.inspect = "agent" /\ Reset
        /\ TopologyOK \/ Heard = {}
        /\ UpdateBaremetalPorts(lossy)
        /\ server' = [server EXCEPT !.state = "manageable", !.traits = NodeTraits]
     \/ /\ server' = [server EXCEPT !.state = "inspect failed"]
        /\ UNCHANGED bios \/ (server.inspect = "agent" /\ Reset)
        /\ UNCHANGED nics
  /\ UNCHANGED <<cable, bmc, run>>

\* Cleaning, manual or automated on the way to available, boots the ramdisk, too.
FinishServerClean ==
  /\ server.state \in {"cleaning", "providing"}
  /\ \/ /\ Reset
        /\ server' = [server EXCEPT !.state =
              IF server.state = "providing" THEN "available" ELSE "manageable"]
     \/ /\ UNCHANGED bios \/ Reset
        /\ server' = [server EXCEPT !.state = "clean failed"]
  /\ UNCHANGED <<nics, cable, bmc, run>>

\* Operators start the workflow, with the old password or without, and take a
\* server out of the pool; technicians move cables.
StartRun ==
  /\ RunAt("idle")
  /\ \E raid, old \in BOOLEAN :
       run' = [IdleRun EXCEPT !.pc = "login", !.raid = raid, !.old = old]
  /\ UNCHANGED <<server, nics, cable, bios, bmc>>

Retire ==
  /\ server.state = "available"
  /\ server' = [server EXCEPT !.state = "manageable"]
  /\ UNCHANGED <<nics, cable, bios, bmc, run>>

Recable ==
  /\ cable' \in Cablings \ {cable}
  /\ UNCHANGED <<server, nics, bios, bmc, run>>

ServerStep(lossy) ==
  \/ StartRun \/ SetBmcPassword \/ FindServer \/ ManageServer \/ UpdateServer
  \/ InspectOutOfBand \/ PrepareBios \/ SetBootInterface \/ InspectAgent
  \/ ResetBootInterface \/ ConfigureBoot \/ ConfigureRaid \/ ApplyFirmwareUpdates
  \/ ProvideServer
  \/ AwaitServer \/ CrashRun
  \/ FinishServerInspect(lossy) \/ FinishServerClean \/ Retire \/ Recable

-----------------------------------------------------------------------------
\* The boot interface is the steady one and the boot device of the BIOS is a PXE
\* port on a real network.
BootsFromPxePort ==
  server.boot = Steady /\ bios.cur \in BootNics /\ nics[bios.cur].net = "network"

\* No port has the placeholder, and the traits name what the ports lead to.
PortsAreReal ==
  /\ \A n \in Nics : nics[n].net # "enrol"
  /\ server.traits = {nics[n].cat : n \in Nics} \ {NoSwitch}
=============================================================================
