---------------------------- MODULE CanaryConfig -----------------------------
(***************************************************************************)
(* Editing one honeypot's opencanary.conf (routes/honeypots_config.py,       *)
(* api_v1_honeypot_tabs.py, ssh/opencanary_config.py): a save reads the file *)
(* over SSH, merges the form into it, writes the whole of it to a fixed path *)
(* in /tmp, a script beside it, runs the script, removes both, and has the   *)
(* honeypot's module tags follow. Nothing keeps two saves apart. With a      *)
(* read-only root (ssh/readonly.py) the machine forgets it all at a reboot.  *)
(***************************************************************************)
EXTENDS FiniteSets, Naturals

CONSTANTS
    Modules, Samba,  \* OpenCanary's modules; the one that needs smbd as well
    Saves,           \* saves under way at once
    MaxSaves,        \* bounds the saves
    MaxEvents        \* bounds the hand edits, switches and reboots

ConfigConstants == MaxSaves \in Nat /\ MaxEvents \in Nat

VARIABLES
    live,         \* what the running machine has: the file, and whether smbd runs
    disk,         \* what it will have after a reboot
    overlay,      \* the read-only root: as booted, and for the next boot
    tmp,          \* /tmp/.honeypotshelf-opencanary.conf: its content, if any
    applyScript,  \* /tmp/.honeypotshelf-opencanary-apply.sh: smbd on or off, if any
    save,         \* save[q]: the request, its task and the command it runs
    moduleTags,   \* the module tags of the honeypot
    events, saves,
    mixed         \* history: something went between the file, smbd and the tags,
                  \* and no save has gone through undisturbed since

configVars == <<live, disk, overlay, tmp, applyScript, save, moduleTags, events, saves, mixed>>
machine == <<live, disk, overlay, tmp, applyScript>>

\* The modules switched on; the keys the editor does not manage are left out.
Conf == SUBSET Modules
System == [conf : Conf, samba : BOOLEAN]
SaveSteps == {"idle", "read", "conf", "script", "run", "restart", "services", "clean", "report"}
\* The form of the web page names every module, a PATCH only some.
ModuleChange == [asked : SUBSET Modules, on : SUBSET Modules]
Save == [pc : SaveSteps, change : ModuleChange, new : Conf, does : BOOLEAN, ok : BOOLEAN,
         awaited : BOOLEAN, alone : BOOLEAN]
NoSave == [pc |-> "idle", change |-> [asked |-> {}, on |-> {}], new |-> {},
           does |-> FALSE, ok |-> FALSE, awaited |-> FALSE, alone |-> FALSE]

ConfigTypeOK ==
    /\ live \in System /\ disk \in System
    /\ overlay \in [booted : BOOLEAN, next : BOOLEAN]
    /\ tmp \subseteq Conf /\ applyScript \subseteq BOOLEAN
    /\ save \in [Saves -> Save]
    /\ moduleTags \subseteq Modules
    /\ events \in 0..MaxEvents /\ saves \in 0..MaxSaves
    /\ mixed \in BOOLEAN

ConfigInit ==
    /\ live = [conf |-> {}, samba |-> FALSE] /\ disk = live
    /\ overlay = [booted |-> FALSE, next |-> FALSE]
    /\ tmp = {} /\ applyScript = {}
    /\ save = [q \in Saves |-> NoSave]
    /\ moduleTags = {}
    /\ events = 0 /\ saves = 0
    /\ mixed = TRUE

-----------------------------------------------------------------------------
\* A save

SaveAt(q, pc) == save[q].pc = pc
SavesBusy == {q \in Saves : save[q].pc # "idle"}

Submit(q, asked, on) ==
    /\ SaveAt(q, "idle") /\ saves < MaxSaves
    /\ saves' = saves + 1
    /\ save' = [x \in Saves |->
          IF x = q THEN [NoSave EXCEPT !.pc = "read", !.change = [asked |-> asked, on |-> on],
                                       !.awaited = TRUE, !.alone = SavesBusy = {}]
          ELSE [save[x] EXCEPT !.alone = FALSE]]
    /\ UNCHANGED <<machine, moduleTags, events, mixed>>

SaveForm(q, on) == Submit(q, Modules, on)
SaveApi(q, asked, on) == asked # {} /\ on \subseteq asked /\ Submit(q, asked, on)

Merged(conf, change) == (conf \ change.asked) \cup change.on

ReadConfig(q) ==
    /\ SaveAt(q, "read")
    /\ save' = [save EXCEPT ![q].new = Merged(live.conf, save[q].change), ![q].pc = "conf"]
    /\ UNCHANGED <<machine, moduleTags, events, saves, mixed>>

WriteConf(q) ==
    /\ SaveAt(q, "conf")
    /\ tmp' = {save[q].new}
    /\ save' = [save EXCEPT ![q].pc = "script"]
    /\ UNCHANGED <<live, disk, overlay, applyScript, moduleTags, events, saves, mixed>>

\* Mutant of SambaWanted: smbd keeps what it has.
SambaKept(conf) == live.samba

SambaWanted(conf) == Samba \in conf

WriteScript(q) ==
    /\ SaveAt(q, "script")
    /\ applyScript' = {SambaWanted(save[q].new)}
    /\ save' = [save EXCEPT ![q].pc = "run"]
    /\ UNCHANGED <<live, disk, overlay, tmp, moduleTags, events, saves, mixed>>

Persists(system) ==
    /\ live' = system
    /\ disk' = IF overlay.booted THEN disk ELSE system

\* The script moves what is at the path by now; "set -e" ends it when nothing
\* is, and there may be no script either.
RunScript(q) ==
    /\ SaveAt(q, "run")
    /\ \/ /\ applyScript = {} \/ tmp = {}
          /\ save' = [save EXCEPT ![q].pc = "clean"]
          /\ UNCHANGED <<live, disk, tmp, mixed>>
       \/ \E conf \in tmp, samba \in applyScript :
          /\ Persists([live EXCEPT !.conf = conf])
          /\ tmp' = {}
          /\ save' = [save EXCEPT ![q].pc = "restart", ![q].does = samba]
          /\ mixed' = TRUE
    /\ UNCHANGED <<overlay, applyScript, moduleTags, events, saves>>

\* When OpenCanary does not start the script ends; run again without sudo it
\* finds nothing to move.
RestartCanary(q, ok) ==
    /\ SaveAt(q, "restart")
    /\ save' = [save EXCEPT ![q].pc = IF ok THEN "services" ELSE "clean"]
    /\ UNCHANGED <<machine, moduleTags, events, saves, mixed>>

\* Whether systemctl succeeds nobody is told.
ToggleServices(q, ok) ==
    /\ SaveAt(q, "services")
    /\ Persists([live EXCEPT !.samba = IF ok THEN save[q].does ELSE @])
    /\ save' = [save EXCEPT ![q].pc = "clean", ![q].ok = TRUE, ![q].alone = @ /\ ok]
    /\ UNCHANGED <<overlay, tmp, applyScript, moduleTags, events, saves, mixed>>

Clean(q) ==
    /\ SaveAt(q, "clean")
    /\ tmp' = {} /\ applyScript' = {}
    /\ save' = [save EXCEPT ![q].pc = "report"]
    /\ UNCHANGED <<live, disk, overlay, moduleTags, events, saves, mixed>>

\* The answer comes back, to a request that still waits or to nobody.
SaveEnds(q) ==
    /\ SaveAt(q, "report")
    /\ IF save[q].ok /\ save[q].awaited
       THEN /\ moduleTags' = save[q].new
            /\ mixed' = (mixed /\ ~save[q].alone)
       ELSE UNCHANGED <<moduleTags, mixed>>
    /\ save' = [save EXCEPT ![q] = NoSave]
    /\ UNCHANGED <<machine, events, saves>>

\* The request has waited long enough; its task goes on.
GiveUp(q) ==
    /\ save[q].awaited /\ save[q].pc \notin {"idle", "read"}
    /\ save' = [save EXCEPT ![q].awaited = FALSE]
    /\ UNCHANGED <<machine, moduleTags, events, saves, mixed>>

\* No connection, an unreadable file, a connection or a worker lost half-way.
SaveFails(q) ==
    /\ save[q].pc # "idle"
    /\ save' = [save EXCEPT ![q] = NoSave]
    /\ UNCHANGED <<machine, moduleTags, events, saves, mixed>>

-----------------------------------------------------------------------------
\* The machine

Event == events < MaxEvents /\ events' = events + 1

\* In the terminal.
EditByHand(on) ==
    /\ Event
    /\ Persists([live EXCEPT !.conf = on])
    /\ mixed' = TRUE
    /\ save' = [q \in Saves |-> [save[q] EXCEPT !.alone = FALSE]]
    /\ UNCHANGED <<overlay, tmp, applyScript, moduleTags, saves>>

SetReadonly(enable) ==
    /\ Event
    /\ overlay' = [overlay EXCEPT !.next = enable]
    /\ UNCHANGED <<live, disk, tmp, applyScript, save, moduleTags, saves, mixed>>

Reboot ==
    /\ Event
    /\ live' = disk
    /\ overlay' = [overlay EXCEPT !.booted = overlay.next]
    /\ tmp' = {} /\ applyScript' = {}
    /\ save' = [q \in Saves |->
          IF SaveAt(q, "report") THEN [save[q] EXCEPT !.alone = FALSE] ELSE NoSave]
    /\ mixed' = (mixed \/ live # disk)
    /\ UNCHANGED <<disk, moduleTags, saves>>

-----------------------------------------------------------------------------
ConfigNext ==
    \/ \E q \in Saves :
          \/ \E on \in SUBSET Modules :
                SaveForm(q, on) \/ \E asked \in SUBSET Modules : SaveApi(q, asked, on)
          \/ ReadConfig(q) \/ WriteConf(q) \/ WriteScript(q) \/ RunScript(q)
          \/ \E ok \in BOOLEAN : RestartCanary(q, ok) \/ ToggleServices(q, ok)
          \/ Clean(q) \/ SaveEnds(q) \/ GiveUp(q) \/ SaveFails(q)
    \/ \E on \in SUBSET Modules : EditByHand(on)
    \/ \E enable \in BOOLEAN : SetReadonly(enable)
    \/ Reboot

ConfigSpec == ConfigInit /\ [][ConfigNext]_configVars

-----------------------------------------------------------------------------
\* One save that meets no other puts everything right, whatever saves crossed,
\* were cut short or given up before it: from then on the module tags and smbd
\* agree with the file, until the next save moves a file or somebody edits it
\* by hand (routes/honeypots_config.py:175-205).
SaveSettles ==
    ~mixed => moduleTags = live.conf /\ live.samba = (Samba \in live.conf)

=============================================================================
