------------------------------- MODULE Extensions -------------------------------
(***************************************************************************)
(* A plugin, whose row says whether it is enabled, which every process       *)
(* mirrors in its plugin manager; and the themes, of which one is active.    *)
(* Services write the row and then call the manager of their own process; a  *)
(* change of configuration, which is left out itself, writes the whole row   *)
(* as it was read.                                                           *)
(***************************************************************************)
EXTENDS Integers, FiniteSets

CONSTANTS
    Managers,       \* server processes, each with its plugin manager
    Operators,      \* requests at work at the same time
    Themes,
    MaxSwitches,    \* bound: requests begun
    MaxBreaks       \* bound: statements that fail

ASSUME ExtensionBounds == {MaxSwitches, MaxBreaks} \subseteq Nat

VARIABLES
    plugin,      \* the row: there or not, enabled or not
    mirror,      \* mirror[i]: what process i has of it
    active,      \* the themes whose row is active
    switch,       \* switch[c]: what request c does
    switches, breaks,
    settled,     \* history: the enabling that was answered last
    disputed,    \* history: a save overlapped an enabling, or an enabling another
    strayed,     \* history: processes whose mirror others, or failures, made untrue
    chosen,      \* history: the theme whose activation was answered last, in a set
    mingled,     \* history: requests on themes overlapped, or failed half way
    crowded      \* history: requests at work that overlapped another of their kind

extensionHistory == <<settled, disputed, strayed, chosen, mingled, crowded>>
extensionVars    == <<plugin, mirror, active, switch, switches, breaks, extensionHistory>>

NoSwitch == [step |-> "idle"]
Switching   == [step : {"update", "sync"}, at : Managers, on : BOOLEAN]
Configuring == [step : {"save", "reload"}, at : Managers, on : BOOLEAN]
Theming     == [step : {"deactivate", "activate"}, theme : Themes]
Styling     == [step : {"style"}, theme : Themes, active : BOOLEAN]

ExtensionsTypeOK ==
    /\ plugin \in [there : BOOLEAN, on : BOOLEAN]
    /\ mirror \in [Managers -> [up : BOOLEAN, on : BOOLEAN]]
    /\ active \subseteq Themes
    /\ \A c \in Operators : switch[c] = NoSwitch
                            \/ switch[c] \in Switching \cup Configuring \cup Theming \cup Styling
    /\ switches \in 0 .. MaxSwitches /\ breaks \in 0 .. MaxBreaks
    /\ settled \in BOOLEAN /\ disputed \in BOOLEAN /\ strayed \subseteq Managers
    /\ chosen \subseteq Themes /\ mingled \in BOOLEAN
    /\ crowded \subseteq Operators

(* No row yet; without a row a plugin is enabled.                            *)
ExtensionsInit ==
    /\ plugin = [there |-> FALSE, on |-> TRUE]
    /\ mirror = [i \in Managers |-> [up |-> FALSE, on |-> TRUE]]
    /\ active = {}
    /\ switch = [c \in Operators |-> NoSwitch]
    /\ switches = 0 /\ breaks = 0
    /\ settled = TRUE /\ disputed = FALSE /\ strayed = {} /\ chosen = {} /\ mingled = FALSE
    /\ crowded = {}

---------------------------------------------------------------------------------
Break == breaks < MaxBreaks /\ breaks' = breaks + 1

PluginSteps == {"update", "sync", "save", "reload"}
ThemeSteps  == {"deactivate", "activate", "style"}

AtWork(steps, c) == {d \in Operators \ {c} : switch[d].step \in steps}

BeginSwitch(c, o, steps) ==
    /\ switch[c] = NoSwitch /\ switches < MaxSwitches
    /\ switches' = switches + 1
    /\ switch' = [switch EXCEPT ![c] = o]
    /\ crowded' = IF AtWork(steps, c) = {} THEN crowded ELSE crowded \cup AtWork(steps, c) \cup {c}

BeginPlugin(c, o) ==
    /\ BeginSwitch(c, o, PluginSteps)
    /\ disputed' = (disputed \/ AtWork(PluginSteps, c) # {})
    /\ UNCHANGED <<plugin, mirror, active, breaks, settled, strayed, chosen, mingled>>

BeginTheme(c, o) ==
    /\ BeginSwitch(c, o, ThemeSteps)
    /\ mingled' = (mingled \/ AtWork(ThemeSteps, c) # {})
    /\ UNCHANGED <<plugin, mirror, active, breaks, settled, disputed, strayed, chosen>>

Done(c) ==
    /\ switch' = [switch EXCEPT ![c] = NoSwitch]
    /\ crowded' = crowded \ {c}

(* The mirrors of other processes hear of no change.                         *)
OthersOf(i) == {j \in Managers \ {i} : mirror[j].up}

---------------------------------------------------------------------------------
(* A process starts: it takes over the row, or the defaults when that fails  *)
(* or there is none, and inserts a row if there is none.                     *)
loadDBState == plugin.there => plugin.on

Register(i) ==
    /\ ~mirror[i].up
    /\ \/ /\ mirror' = [mirror EXCEPT ![i] = [up |-> TRUE, on |-> loadDBState]]
          /\ UNCHANGED <<breaks, strayed>>
       \/ /\ Break
          /\ mirror' = [mirror EXCEPT ![i] = [up |-> TRUE, on |-> TRUE]]
          /\ strayed' = strayed \cup {i}
    /\ plugin' = IF plugin.there THEN plugin
                 ELSE [there |-> TRUE, on |-> mirror'[i].on]
    /\ UNCHANGED <<active, switch, switches, settled, disputed, chosen, mingled, crowded>>

(* Enabling and disabling: the row is found and updated, then the manager    *)
(* sets its flag and, under its lock, the row once more, whatever comes.     *)
FindPlugin(c, i, on) ==
    /\ mirror[i].up /\ plugin.there
    /\ BeginPlugin(c, [step |-> "update", at |-> i, on |-> on])

UpdateEnabled(c) ==
    /\ switch[c].step = "update"
    /\ plugin' = [plugin EXCEPT !.on = switch[c].on]
    /\ switch' = [switch EXCEPT ![c].step = "sync"]
    /\ strayed' = strayed \cup OthersOf(switch[c].at)
    /\ UNCHANGED <<mirror, active, switches, breaks, settled, disputed, chosen, mingled, crowded>>

Enable(c) ==
    /\ switch[c].step = "sync"
    /\ LET i == switch[c].at
       IN  /\ mirror' = [mirror EXCEPT ![i].on = switch[c].on]
           /\ \/ /\ plugin' = [plugin EXCEPT !.on = switch[c].on]
                 /\ strayed' = (strayed \ {i}) \cup OthersOf(i)
                 /\ UNCHANGED breaks
              \/ /\ Break
                 /\ strayed' = strayed \cup Managers
                 /\ UNCHANGED plugin
    /\ disputed' = (disputed /\ c \in crowded)
    /\ settled' = switch[c].on
    /\ Done(c)
    /\ UNCHANGED <<active, switches, chosen, mingled>>

(* A new configuration is saved with the flag that was read with the row.    *)
FindForConfig(c, i) ==
    /\ mirror[i].up /\ plugin.there
    /\ BeginPlugin(c, [step |-> "save", at |-> i, on |-> plugin.on])

SavePlugin(c) ==
    /\ switch[c].step = "save"
    /\ plugin' = [plugin EXCEPT !.on = switch[c].on]
    /\ switch' = [switch EXCEPT ![c].step = "reload"]
    /\ strayed' = strayed \cup OthersOf(switch[c].at)
    /\ UNCHANGED <<mirror, active, switches, breaks, settled, disputed, chosen, mingled, crowded>>

(* For the mutant: only the configuration is taken over.                     *)
KeptFlag(i) == mirror[i].on

ReloadedFlag(i) == loadDBState

(* A row that cannot be read counts as one that is not there.                *)
Reload(c) ==
    /\ switch[c].step = "reload"
    /\ LET i == switch[c].at
       IN  \/ /\ mirror' = [mirror EXCEPT ![i].on = ReloadedFlag(i)]
              /\ strayed' = strayed \ {i}
              /\ UNCHANGED breaks
           \/ /\ Break
              /\ mirror' = [mirror EXCEPT ![i].on = TRUE]
              /\ strayed' = strayed \cup {i}
    /\ Done(c)
    /\ UNCHANGED <<plugin, active, switches, settled, disputed, chosen, mingled>>

---------------------------------------------------------------------------------
(* Activating a theme: all others are made inactive, then it is made active. *)
FindTheme(c, t) == BeginTheme(c, [step |-> "deactivate", theme |-> t])

(* For the mutant: the others stay as they are.                              *)
KeepOthers(t) == active

ExceptTheme(t) == active \cap {t}

DeactivateAllExcept(c) ==
    /\ switch[c].step = "deactivate"
    /\ active' = ExceptTheme(switch[c].theme)
    /\ switch' = [switch EXCEPT ![c].step = "activate"]
    /\ UNCHANGED <<plugin, mirror, switches, breaks, extensionHistory>>

UpdateActive(c) ==
    /\ switch[c].step = "activate"
    /\ active' = active \cup {switch[c].theme}
    /\ chosen' = {switch[c].theme}
    /\ mingled' = (mingled /\ c \in crowded)
    /\ Done(c)
    /\ UNCHANGED <<plugin, mirror, switches, breaks, settled, disputed, strayed>>

(* A theme's configuration is saved with the flag that was read.             *)
FindForStyle(c, t) ==
    BeginTheme(c, [step |-> "style", theme |-> t, active |-> t \in active])

SaveTheme(c) ==
    /\ switch[c].step = "style"
    /\ active' = IF switch[c].active THEN active \cup {switch[c].theme} ELSE active \ {switch[c].theme}
    /\ Done(c)
    /\ UNCHANGED <<plugin, mirror, switches, breaks, settled, disputed, strayed, chosen, mingled>>

(* A statement fails, which ends the request as it is.                       *)
SwitchFails(c) ==
    /\ switch[c].step \in {"update", "save", "deactivate", "activate", "style"} /\ Break
    /\ mingled' = (mingled \/ switch[c].step = "activate")
    /\ Done(c)
    /\ UNCHANGED <<plugin, mirror, active, switches, settled, disputed, strayed, chosen>>

(* A process ends with its requests.                                         *)
Ends(i) ==
    /\ mirror[i].up /\ Break
    /\ mirror' = [mirror EXCEPT ![i] = [up |-> FALSE, on |-> TRUE]]
    /\ switch' = [c \in Operators |-> IF switch[c].step \in PluginSteps /\ switch[c].at = i
                                     THEN NoSwitch ELSE switch[c]]
    /\ crowded' = {c \in crowded : switch'[c] # NoSwitch}
    /\ strayed' = strayed \ {i}
    /\ disputed' = (disputed \/ switch' # switch)
    /\ UNCHANGED <<plugin, active, switches, settled, chosen, mingled>>

ExtensionsNext ==
    \/ \E i \in Managers : Register(i) \/ Ends(i)
    \/ \E c \in Operators :
          \/ \E i \in Managers, on \in BOOLEAN : FindPlugin(c, i, on)
          \/ \E i \in Managers : FindForConfig(c, i)
          \/ \E t \in Themes : FindTheme(c, t) \/ FindForStyle(c, t)
          \/ UpdateEnabled(c) \/ Enable(c) \/ SavePlugin(c) \/ Reload(c)
          \/ DeactivateAllExcept(c) \/ UpdateActive(c) \/ SaveTheme(c) \/ SwitchFails(c)

ExtensionsSpec == ExtensionsInit /\ [][ExtensionsNext]_extensionVars

---------------------------------------------------------------------------------
(* With no request on plugins at work, a process has the plugin enabled as   *)
(* its row says, unless another process, or a failure, came between.         *)
MirrorIsTrue ==
    (\A c \in Operators : switch[c].step \notin PluginSteps) =>
        \A i \in Managers \ strayed : mirror[i].up => mirror[i].on = plugin.on

(* A plugin is enabled or not as it was last answered, unless requests on it *)
(* overlapped since: a configuration saved late restores the flag it read.   *)
EnabledAsAnswered ==
    (\A c \in Operators : switch[c].step \notin PluginSteps) /\ ~disputed => plugin.on = settled

(* The theme that was activated last is the active one, alone, unless        *)
(* requests on themes overlapped or failed between their two statements.     *)
OneThemeActive ==
    (\A c \in Operators : switch[c].step \notin ThemeSteps) /\ ~mingled => active = chosen

ExtensionsHold == MirrorIsTrue /\ EnabledAsAnswered /\ OneThemeActive
=================================================================================
