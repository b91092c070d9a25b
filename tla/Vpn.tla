-------------------------------- MODULE Vpn ---------------------------------
(***************************************************************************)
(* The tunnel the application itself manages its honeypots through: NetBird  *)
(* or WireGuard, one at a time (Settings -> VPN in routes/settings.py,       *)
(* services/netbird.py, services/wireguard.py, the control server of the     *)
(* sidecar, and the reconnection at start-up in main.py).                    *)
(*                                                                         *)
(* A handler reads the settings row once, talks to the sidecar, and writes   *)
(* the provider only when it differs from what it has read. The control      *)
(* server serves WireGuard requests side by side and finishes one whose      *)
(* client has given up waiting; a NetBird client that is killed for taking   *)
(* too long leaves its command with the daemon.                              *)
(***************************************************************************)
EXTENDS FiniteSets, Naturals

CONSTANTS Webs, Configs, NoConfig, NoHandler,
          MaxArrivals  \* bound: handlers that start in a behaviour

VARIABLES
    provider,  \* app_settings.vpn_provider, committed
    saved,     \* the stored WireGuard configuration, or NoConfig
    setupKey,  \* a NetBird setup key is stored
    netbird,   \* [up, registered] of the NetBird daemon
    lateCommand,  \* the one it still works on, its client killed, or "none"
    wg,        \* the configuration the interface runs, or NoConfig: down
    wgFile,    \* wg0.conf
    web,       \* handlers in progress
    server,    \* their sessions with the control server
    vpnArrivals,
    odd        \* history: what a plain sequence of requests does not have

vpnVars == <<provider, saved, setupKey, netbird, lateCommand, wg, wgFile, web, server,
             vpnArrivals, odd>>

Providers == {"none", "netbird", "wireguard"}
Ops == {"nb_connect", "nb_disconnect", "nb_restart",
        "wg_connect", "wg_disconnect", "wg_restart", "startup_nb", "startup_wg"}
Oddities == {"overlap", "restart", "timeout", "unreachable", "stays"}

SidecarSession == {"none", "down", "write", "up", "only_down", "ok", "failed"}
HandlerRow ==
    [op : Ops, config : Configs \cup {NoConfig}, copy : Providers,
     step : {"call", "call_again", "deactivate", "save"}]

\* No configuration and no handler are neither a configuration nor a handler.
VpnConstants == NoConfig \notin Configs /\ NoHandler \notin HandlerRow /\ MaxArrivals \in Nat

VpnTypeOK ==
    /\ provider \in Providers
    /\ saved \in Configs \cup {NoConfig}
    /\ setupKey \in BOOLEAN
    /\ netbird \in [up : BOOLEAN, registered : BOOLEAN]
    /\ lateCommand \in {"none", "up", "down"}
    /\ wg \in Configs \cup {NoConfig} /\ wgFile \in Configs \cup {NoConfig}
    /\ web \in [Webs -> HandlerRow \cup {NoHandler}]
    /\ server \in [Webs -> SidecarSession]
    /\ vpnArrivals \in 0..MaxArrivals
    /\ odd \subseteq Oddities

VpnInit ==
    /\ provider = "none" /\ saved = NoConfig /\ setupKey = FALSE
    /\ netbird = [up |-> FALSE, registered |-> FALSE]
    /\ lateCommand = "none"
    /\ wg = NoConfig /\ wgFile = NoConfig
    /\ web = [w \in Webs |-> NoHandler]
    /\ server = [w \in Webs |-> "none"]
    /\ vpnArrivals = 0
    /\ odd = {}

sidecar == <<netbird, lateCommand, wg, wgFile>>
settings == <<provider, saved, setupKey>>

-----------------------------------------------------------------------------
\* Handlers

Handles(w, op) == web[w] # NoHandler /\ web[w].op = op
IsWg(op) == op \in {"wg_connect", "wg_disconnect", "wg_restart", "startup_wg"}
VpnBusy == {w \in Webs : web[w] # NoHandler \/ server[w] # "none"}

\* What the first session with the control server has to do.
FirstCall(op) ==
    CASE op \in {"wg_connect", "startup_wg"} -> "down"
      [] op \in {"wg_disconnect", "wg_restart"} -> "only_down"
      [] OTHER -> "none"

Starts(w, op, config) ==
    /\ web[w] = NoHandler /\ server[w] = "none"
    /\ vpnArrivals < MaxArrivals
    /\ vpnArrivals' = vpnArrivals + 1
    /\ web' = [web EXCEPT ![w] = [op |-> op, config |-> config, copy |-> provider, step |-> "call"]]
    /\ server' = [server EXCEPT ![w] = FirstCall(op)]
    /\ odd' = odd \cup (IF VpnBusy # {} THEN {"overlap"} ELSE {})
                  \cup (IF op \in {"nb_restart", "wg_restart"} THEN {"restart"} ELSE {})
    /\ UNCHANGED <<settings, sidecar>>

\* A posted key or configuration is stored when the handler commits.
ConnectNetbird(w) == Starts(w, "nb_connect", NoConfig)
ConnectWireguard(w, posted) ==
    \E config \in {posted, saved} \ {NoConfig} : Starts(w, "wg_connect", config)
DisconnectNetbird(w) == Starts(w, "nb_disconnect", NoConfig)
DisconnectWireguard(w) == Starts(w, "wg_disconnect", NoConfig)
RestartNetbird(w) == setupKey /\ Starts(w, "nb_restart", NoConfig)
RestartWireguard(w) == saved # NoConfig /\ Starts(w, "wg_restart", saved)

\* The web application starts: whichever was active is joined again.
Startup(w) ==
    \/ provider = "netbird" /\ setupKey /\ ~netbird.up /\ Starts(w, "startup_nb", NoConfig)
    \/ provider = "wireguard" /\ saved # NoConfig /\ Starts(w, "startup_wg", saved)

\* SQLAlchemy writes an attribute only when it differs from what was loaded.
Stored(w, p) == IF p = web[w].copy THEN provider ELSE p

\* Whatever was posted is committed, with or without a connection.
CommitsPosted(w) ==
    /\ setupKey' = (setupKey \/ web[w].op = "nb_connect")
    /\ saved' = IF web[w].op = "wg_connect" THEN web[w].config ELSE saved

GivesUp(w) ==
    /\ web' = [web EXCEPT ![w] = NoHandler]
    /\ CommitsPosted(w)
    /\ UNCHANGED provider

\* A start-up connection changes no setting; a new connection first takes
\* the other provider down, a restart does not.
AfterConnecting(op) == IF op \in {"nb_connect", "wg_connect"} THEN "deactivate" ELSE "save"

-----------------------------------------------------------------------------
\* NetBird: one command of its own client per call

\* A restart goes on where its own "down" took too long; it may come yet.
NetbirdUp(w) ==
    /\ web[w] # NoHandler /\ web[w].step = "call"
    /\ web[w].op \in {"nb_connect", "nb_restart", "startup_nb"}
    /\ netbird' = [up |-> TRUE, registered |-> TRUE]
    /\ \/ UNCHANGED lateCommand
       \/ web[w].op = "nb_restart" /\ lateCommand' = "down"
    /\ web' = [web EXCEPT ![w].step = AfterConnecting(web[w].op)]
    /\ UNCHANGED <<settings, wg, wgFile, server, vpnArrivals, odd>>

\* A restart has taken the tunnel down before it failed to bring it up.
NetbirdGivesUp(w) ==
    /\ web[w] # NoHandler /\ web[w].step = "call" /\ ~IsWg(web[w].op)
    /\ netbird' \in {netbird} \cup
          (IF web[w].op = "nb_restart" THEN {[netbird EXCEPT !.up = FALSE]} ELSE {})
    /\ GivesUp(w)
    /\ UNCHANGED <<wg, wgFile, server, vpnArrivals>>

NetbirdFails(w) == NetbirdGivesUp(w) /\ UNCHANGED <<lateCommand, odd>>

\* netbird_command_timeout_seconds: the client is killed, its daemon is not.
NetbirdTimesOut(w) ==
    /\ NetbirdGivesUp(w)
    /\ lateCommand' = IF web[w].op = "nb_disconnect" THEN "down" ELSE "up"
    /\ odd' = odd \cup {"timeout"}

NetbirdDown(w) ==
    /\ Handles(w, "nb_disconnect") /\ web[w].step = "call"
    /\ netbird' = [netbird EXCEPT !.up = FALSE]
    /\ web' = [web EXCEPT ![w].step = "save"]
    /\ UNCHANGED <<settings, lateCommand, wg, wgFile, server, vpnArrivals, odd>>

\* The daemon carries out what nobody waits for any more.
DaemonCatchesUp ==
    /\ lateCommand # "none"
    /\ netbird' = IF lateCommand = "up" THEN [up |-> TRUE, registered |-> TRUE]
                  ELSE [netbird EXCEPT !.up = FALSE]
    /\ lateCommand' = "none"
    /\ UNCHANGED <<settings, wg, wgFile, web, server, vpnArrivals, odd>>

-----------------------------------------------------------------------------
\* The control server: a session per request, one command at a time

\* wg-quick down: an interface that is not there is down. It may fail on one
\* that is, before or after it took it down (a PreDown or PostDown of the
\* configuration): a connection goes on regardless, a disconnection answers so.
ServerDowns(w, ok) ==
    /\ server[w] \in {"down", "only_down"}
    /\ ok \/ wg # NoConfig
    /\ IF ok THEN wg' = NoConfig ELSE wg' \in {wg, NoConfig}
    /\ server' = [server EXCEPT ![w] =
          IF @ = "down" THEN "write" ELSE IF ok THEN "ok" ELSE "failed"]
    /\ odd' = IF wg' = NoConfig THEN odd ELSE odd \cup {"stays"}
    /\ UNCHANGED <<settings, netbird, lateCommand, wgFile, web, vpnArrivals>>

\* Sessions hold their configuration in the request line they have read; a
\* handler that gave up leaves it in its row until the session ends.
ServerWrites(w, config) ==
    /\ server[w] = "write"
    /\ web[w] # NoHandler => config = web[w].config
    /\ wgFile' = config
    /\ server' = [server EXCEPT ![w] = "up"]
    /\ UNCHANGED <<settings, netbird, lateCommand, wg, web, vpnArrivals, odd>>

\* wg-quick refuses an interface that is there already, and may fail anyhow.
ServerUps(w, ok) ==
    /\ server[w] = "up"
    /\ ok => wg = NoConfig
    /\ wg' = IF ok THEN wgFile ELSE wg
    /\ server' = [server EXCEPT ![w] = IF ok THEN "ok" ELSE "failed"]
    /\ UNCHANGED <<settings, netbird, lateCommand, wgFile, web, vpnArrivals, odd>>

\* The answer of a session nobody waits for any more goes nowhere.
Dropped(w) ==
    /\ web[w] = NoHandler /\ server[w] \in {"ok", "failed"}
    /\ server' = [server EXCEPT ![w] = "none"]
    /\ UNCHANGED <<settings, sidecar, web, vpnArrivals, odd>>

\* A restart goes on to connect whatever its disconnect answered.
Answers(w) ==
    /\ web[w] # NoHandler /\ server[w] \in {"ok", "failed"} /\ IsWg(web[w].op)
    /\ IF web[w].op = "wg_restart" /\ web[w].step = "call"
       THEN /\ web' = [web EXCEPT ![w].step = "call_again"]
            /\ server' = [server EXCEPT ![w] = "down"]
            /\ UNCHANGED settings
       ELSE /\ server' = [server EXCEPT ![w] = "none"]
            /\ IF server[w] = "ok"
               THEN web' = [web EXCEPT ![w].step = AfterConnecting(web[w].op)] /\ UNCHANGED settings
               ELSE GivesUp(w)
    /\ UNCHANGED <<sidecar, vpnArrivals, odd>>

\* vpn_command_timeout_seconds: the session goes on by itself. (A control
\* socket nobody answers on is a session that never gets anywhere.) A restart
\* goes on to connect all the same; the wg-quick down it left behind is taken
\* for the one its second session begins with.
TimesOut(w) ==
    /\ web[w] # NoHandler /\ web[w].step \in {"call", "call_again"}
    /\ server[w] \notin {"none", "ok", "failed"}
    /\ IF web[w].op = "wg_restart" /\ web[w].step = "call"
       THEN /\ web' = [web EXCEPT ![w].step = "call_again"]
            /\ server' = [server EXCEPT ![w] = "down"]
            /\ UNCHANGED settings
       ELSE GivesUp(w) /\ UNCHANGED server
    /\ odd' = odd \cup {"timeout"}
    /\ UNCHANGED <<sidecar, vpnArrivals>>

-----------------------------------------------------------------------------
\* Switching over

\* Mutant of Other: nothing is taken down.
OtherStays(w) == "none"

\* The provider to take down: the one the row named when it was read.
Other(w) ==
    CASE web[w].copy = "netbird" /\ web[w].op = "wg_connect" -> "netbird"
      [] web[w].copy = "wireguard" /\ web[w].op = "nb_connect" -> "wireguard"
      [] OTHER -> "none"

\* Best effort: whatever the other provider answers, the switch goes on. When
\* it cannot be reached, takes too long or refuses, it may be down, be left as
\* it is, or still come down later.
Deactivates(w, reached) ==
    /\ web[w] # NoHandler /\ web[w].step = "deactivate"
    /\ IF reached
       THEN /\ netbird' = IF Other(w) = "netbird" THEN [netbird EXCEPT !.up = FALSE] ELSE netbird
            /\ wg' = IF Other(w) = "wireguard" THEN NoConfig ELSE wg
            /\ UNCHANGED <<lateCommand, server, odd>>
       ELSE /\ netbird' = netbird
            /\ wg' \in {wg} \cup (IF Other(w) = "wireguard" THEN {NoConfig} ELSE {})
            /\ lateCommand' \in {lateCommand} \cup (IF Other(w) = "netbird" THEN {"down"} ELSE {})
            /\ server' \in {server} \cup
                  (IF Other(w) = "wireguard" THEN {[server EXCEPT ![w] = "only_down"]} ELSE {})
            /\ odd' = odd \cup {"unreachable"}
    /\ web' = [web EXCEPT ![w].step = "save"]
    /\ UNCHANGED <<settings, wgFile, vpnArrivals>>

SavesProvider(w) ==
    /\ web[w] # NoHandler /\ web[w].step = "save"
    /\ provider' = CASE web[w].op \in {"nb_connect", "nb_restart"} -> Stored(w, "netbird")
                     [] web[w].op \in {"wg_connect", "wg_restart"} -> Stored(w, "wireguard")
                     [] web[w].op = "nb_disconnect" /\ web[w].copy = "netbird" -> "none"
                     [] web[w].op = "wg_disconnect" /\ web[w].copy = "wireguard" -> "none"
                     [] OTHER -> provider
    /\ CommitsPosted(w)
    /\ web' = [web EXCEPT ![w] = NoHandler]
    /\ UNCHANGED <<sidecar, server, vpnArrivals, odd>>

-----------------------------------------------------------------------------
\* The sidecar restarts without its sessions; NetBird's registration and
\* wg0.conf are on volumes.
SidecarRestarts ==
    /\ \A w \in Webs : server[w] = "none"
    /\ netbird.up \/ lateCommand # "none" \/ wg # NoConfig
    /\ netbird' = [netbird EXCEPT !.up = FALSE]
    /\ lateCommand' = "none"
    /\ wg' = NoConfig
    /\ UNCHANGED <<settings, wgFile, web, server, vpnArrivals, odd>>

VpnNext ==
    \/ \E w \in Webs :
          \/ ConnectNetbird(w) \/ DisconnectNetbird(w) \/ RestartNetbird(w)
          \/ DisconnectWireguard(w) \/ RestartWireguard(w) \/ Startup(w)
          \/ \E config \in Configs : ConnectWireguard(w, config) \/ ServerWrites(w, config)
          \/ NetbirdUp(w) \/ NetbirdFails(w) \/ NetbirdTimesOut(w) \/ NetbirdDown(w)
          \/ Dropped(w) \/ Answers(w) \/ TimesOut(w) \/ SavesProvider(w)
          \/ \E yes \in BOOLEAN : ServerDowns(w, yes) \/ ServerUps(w, yes) \/ Deactivates(w, yes)
    \/ DaemonCatchesUp
    \/ SidecarRestarts

VpnSpec == VpnInit /\ [][VpnNext]_vpnVars

-----------------------------------------------------------------------------
\* When nothing is going on, a tunnel that is up is the one vpn_provider names.
NamesTheTunnel ==
    VpnBusy = {} => /\ netbird.up => provider = "netbird"
                    /\ wg # NoConfig => provider = "wireguard"

\* And it runs the stored configuration.
RunsTheStored == VpnBusy = {} /\ wg # NoConfig => wg = saved

\* After requests made one after the other whose calls all answer, restarts and
\* failed switches aside, the tunnel that is up is the one the settings name. It
\* runs the stored configuration too, as long as no wg-quick down has failed and
\* left the old interface: wg_up ignores that, cannot bring up the new one, and
\* the handler stores it all the same (settings.py:1168-1183, 1340-1369,
\* vpn_control_server.py:73-85).
TunnelIsTheOneNamed ==
    /\ odd \subseteq {"stays"} => NamesTheTunnel
    /\ odd = {} => RunsTheStored

=============================================================================
