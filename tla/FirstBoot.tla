------------------------------- MODULE FirstBoot -------------------------------
(***************************************************************************)
(* What moonmachine-setup and moonmachine-performance-default leave on the *)
(* disk, over many boots, image updates and the user's own changes.  A     *)
(* service may fail after any step, by an error of the next one or by its  *)
(* thirty-second limit: the boot goes on without it.  Power may be lost    *)
(* after any step, too.                                                    *)
(*                                                                         *)
(* Both services end before somebody can log in (Before=display-manager):  *)
(* the user acts only while neither runs.                                  *)
(***************************************************************************)
CONSTANT Versions  \* of MoonDeck that images bundle

ASSUME BootAssumption == Versions \cap {"none", "partial", "user"} = {}

VARIABLES
  bundle,    \* the version in /usr/share/moonmachine
  at,        \* the next step of moonmachine-setup; "up": it has ended; "off":
             \* there is no power
  existing,  \* existing_loader
  conf,      \* Moonlight.conf: "none", "partial" (not written, or still
  settings,  \* root's) or "whole"; MoonDeck's settings.json
  brew,      \* ~/homebrew without the plugin: "none", "partial", "whole" or
             \* "user", made by somebody else
  unit,      \* plugin_loader.service: "none", "partial", "ours" (its path is
             \* this homebrew) or "other"
  enabled,   \* the loader is labelled and enabled
  plugin, staging, backup,  \* "none", "partial", a version or "user"
  marker,    \* "none", "partial" or the version whose digest it holds
  tune,      \* the next step of moonmachine-performance-default, the same
  profile,   \* "stock", "streaming" or "user"
  stamp,     \* performance-default-v1 exists
  \* history
  fresh,     \* Decky is there by nobody's hand but the setup's
  installed, \* the setup has put the plugin there and nobody touched it since
  cut,       \* the gaps (below) in which a service has been cut off
  whole,     \* no service of the last boot has been cut off
  chosen     \* the user has chosen a profile

setup   == <<at, existing>>
files   == <<conf, settings>>
loader  == <<brew, unit, enabled>>
deck    == <<plugin, staging, backup, marker>>
perf    == <<tune, profile, stamp>>
history == <<fresh, installed, cut, whole, chosen>>
vars    == <<bundle, setup, files, loader, deck, perf, history>>

LoaderSteps == {"unit", "write unit", "plugin", "clean", "copy", "copied",
                "discard", "retire", "install", "mark", "write mark",
                "settings", "write settings", "own", "enable"}

Steps == LoaderSteps \cup {"conf", "write conf", "loader", "services"}

TuneSteps == {"stamp", "select", "write stamp"}

(* The steps before which a cut-off leaves what no later boot completes.   *)
Gaps ==
  (IF at \in LoaderSteps /\ ~existing THEN {"loader"} ELSE {}) \cup
  (IF at \in {"mark", "write mark"} THEN {"marker"} ELSE {}) \cup
  (IF at \in {"write conf", "write settings"} THEN {"seed"} ELSE {})

(* The machine runs and neither service does.                              *)
Up == at = "up" /\ tune = "up"

(* A step of the setup that goes on to another one.                        *)
Step(s, t) == at = s /\ at' = t
-----------------------------------------------------------------------------
(* seed_streaming *)
SeedConf ==
  /\ \/ conf # "none" /\ Step("conf", "loader") /\ UNCHANGED conf
     \/ conf = "none" /\ Step("conf", "write conf") /\ conf' = "partial"
     \/ Step("write conf", "loader") /\ conf' = "whole"
  /\ UNCHANGED <<bundle, existing, settings, loader, deck, perf, history>>

(* seed: an installation that is not the setup's own is left alone.        *)
FindLoader ==
  /\ \/ unit = "none" /\ brew # "none" /\ Step("loader", "up")
     \/ unit = "none" /\ brew = "none" /\ Step("loader", "services")
     \/ unit = "ours" /\ Step("loader", "plugin")
     \/ unit \in {"partial", "other"} /\ Step("loader", "up")
  /\ existing' = (unit # "none")
  /\ UNCHANGED <<bundle, files, loader, deck, perf, history>>

InstallLoader ==
  /\ \/ Step("services", "unit") /\ brew' = "partial" /\ UNCHANGED unit
     \/ Step("unit", "write unit") /\ unit' = "partial" /\ UNCHANGED brew
     \/ Step("write unit", "plugin") /\ unit' = "ours" /\ UNCHANGED brew
  /\ UNCHANGED <<bundle, existing, enabled, files, deck, perf, history>>

(* Mutants of Managed: the marker is believed without a look at the files; *)
(* the files are compared with the image's and not with the marker.        *)
MarkerBelieved == plugin # "none" /\ marker \in Versions

BundleCompared == plugin # "none" /\ plugin = bundle

Managed == plugin # "none" /\ plugin = marker

CheckPlugin ==
  /\ IF plugin = "none" \/ (Managed /\ marker # bundle)
     THEN Step("plugin", "clean") ELSE Step("plugin", "settings")
  /\ UNCHANGED <<bundle, existing, files, loader, deck, perf, history>>

(* Mutant of Replace: the copy is made where the plugin is.                *)
CopyInPlace ==
  /\ \/ Step("clean", "copy") /\ plugin' = "none"
     \/ Step("copy", "copied") /\ plugin' = "partial"
     \/ Step("copied", "mark") /\ plugin' = bundle
  /\ installed' = (installed \/ at = "copied")
  /\ UNCHANGED <<bundle, existing, files, loader, staging, backup, marker,
                 perf, fresh, cut, whole, chosen>>

(* rmtree of a whole directory leaves a part of it first; when it is cut   *)
(* off there, that part stays until the next replacement.                  *)
Replace ==
  /\ \/ Step("clean", "clean") /\ staging \in Versions
        /\ staging' = "partial" /\ UNCHANGED <<plugin, backup>>
     \/ Step("clean", "copy") /\ staging \notin Versions
        /\ staging' = "none" /\ UNCHANGED <<plugin, backup>>
     \/ Step("copy", "copied") /\ staging' = "partial"
        /\ UNCHANGED <<plugin, backup>>
     \/ Step("copied", "discard") /\ staging' = bundle
        /\ UNCHANGED <<plugin, backup>>
     \/ Step("discard", "discard") /\ backup \in Versions
        /\ backup' = "partial" /\ UNCHANGED <<plugin, staging>>
     \/ Step("discard", "retire") /\ backup \notin Versions
        /\ backup' = "none" /\ UNCHANGED <<plugin, staging>>
     \/ Step("retire", "install") /\ plugin # "none"
        /\ backup' = plugin /\ plugin' = "none" /\ UNCHANGED staging
     \/ Step("retire", "install") /\ plugin = "none"
        /\ UNCHANGED <<plugin, staging, backup>>
     \/ Step("install", "mark") /\ plugin' = staging /\ staging' = "none"
        /\ UNCHANGED backup
  /\ installed' = (installed \/ at = "install")
  /\ cut' = (IF at = "install" THEN cut \ {"marker"} ELSE cut)
  /\ UNCHANGED <<bundle, existing, files, loader, marker, perf, fresh, whole,
                 chosen>>

(* write_text truncates the marker first.                                  *)
Mark ==
  /\ \/ Step("mark", "write mark") /\ marker' = "partial"
     \/ Step("write mark", "settings") /\ marker' = bundle
  /\ UNCHANGED <<bundle, existing, files, loader, plugin, staging, backup,
                 perf, history>>

SeedSettings ==
  /\ \/ settings # "none" /\ Step("settings", "own") /\ UNCHANGED settings
     \/ settings = "none" /\ Step("settings", "write settings")
        /\ settings' = "partial"
     \/ Step("write settings", "own") /\ settings' = "whole"
  /\ UNCHANGED <<bundle, existing, conf, loader, deck, perf, history>>

(* Mutant of EnableLoader: seed returns the opposite.                      *)
EnableNever ==
  /\ \/ existing /\ Step("own", "enable") /\ UNCHANGED <<brew, enabled>>
     \/ ~existing /\ Step("own", "up") /\ brew' = "whole" /\ UNCHANGED enabled
     \/ Step("enable", "up") /\ enabled' = TRUE /\ UNCHANGED brew
  /\ UNCHANGED <<bundle, existing, files, unit, deck, perf, history>>

(* The end of seed, and main.                                              *)
EnableLoader ==
  /\ \/ existing /\ Step("own", "up") /\ UNCHANGED <<brew, enabled>>
     \/ ~existing /\ Step("own", "enable") /\ brew' = "whole"
        /\ UNCHANGED enabled
     \/ Step("enable", "up") /\ enabled' = TRUE /\ UNCHANGED brew
  /\ UNCHANGED <<bundle, existing, files, unit, deck, perf, history>>

(* Mutant of ApplyDefault: the stamp is not looked at.                     *)
ApplyAlways ==
  /\ \/ tune = "stamp" /\ tune' = "select" /\ UNCHANGED <<profile, stamp>>
     \/ tune = "select" /\ tune' = "write stamp"
        /\ profile' = "streaming" /\ UNCHANGED stamp
     \/ tune = "write stamp" /\ tune' = "up"
        /\ stamp' = TRUE /\ UNCHANGED profile
  /\ UNCHANGED <<bundle, setup, files, loader, deck, history>>

(* apply_default; the unit's conditions come to the same as its first line. *)
ApplyDefault ==
  /\ \/ tune = "stamp" /\ tune' = (IF stamp THEN "up" ELSE "select")
        /\ UNCHANGED <<profile, stamp>>
     \/ tune = "select" /\ tune' = "write stamp"
        /\ profile' = "streaming" /\ UNCHANGED stamp
     \/ tune = "write stamp" /\ tune' = "up"
        /\ stamp' = TRUE /\ UNCHANGED profile
  /\ UNCHANGED <<bundle, setup, files, loader, deck, history>>
-----------------------------------------------------------------------------
(* One service ends early, the other and the boot go on.                   *)
Fail ==
  /\ \/ /\ at \in Steps
        /\ at' = "up" /\ cut' = cut \cup Gaps
        /\ UNCHANGED tune
     \/ /\ tune \in TuneSteps
        /\ tune' = "up" /\ cut' = cut \cup {"profile"}
        /\ UNCHANGED at
  /\ whole' = FALSE
  /\ UNCHANGED <<bundle, existing, files, loader, deck, profile, stamp, fresh,
                 installed, chosen>>

(* While Up, it makes no difference: that is the next boot.                *)
PowerLoss ==
  /\ at # "off" /\ ~Up
  /\ at' = "off" /\ tune' = "off"
  /\ cut' = cut \cup Gaps /\ whole' = FALSE
  /\ UNCHANGED <<bundle, existing, files, loader, deck, profile, stamp, fresh,
                 installed, chosen>>

(* Perhaps of another image.                                               *)
Boot ==
  /\ Up \/ at = "off"
  /\ bundle' \in Versions
  /\ at' = "conf" /\ tune' = "stamp" /\ whole' = TRUE
  /\ UNCHANGED <<existing, files, loader, deck, profile, stamp, fresh,
                 installed, cut, chosen>>

UserEdits ==
  /\ Up
  /\ \/ conf' = "whole" /\ UNCHANGED settings
     \/ settings' = "whole" /\ UNCHANGED conf
  /\ UNCHANGED <<bundle, setup, loader, deck, perf, history>>

(* The user, or Decky for the user, replaces or removes the plugin.        *)
UserChangesPlugin ==
  /\ Up /\ brew # "none"
  /\ plugin' \in {"user", "none"}
  /\ installed' = FALSE
  /\ UNCHANGED <<bundle, setup, files, loader, staging, backup, marker, perf,
                 fresh, cut, whole, chosen>>

(* Uninstalling Decky removes its unit and may leave homebrew behind.      *)
UserRemovesLoader ==
  /\ Up /\ unit # "none"
  /\ unit' = "none" /\ enabled' = FALSE
  /\ \/ brew' = brew /\ UNCHANGED <<deck, fresh, installed>>
     \/ /\ brew' = "none" /\ fresh' = TRUE /\ installed' = FALSE
        /\ plugin' = "none" /\ staging' = "none"
        /\ backup' = "none" /\ marker' = "none"
  /\ UNCHANGED <<bundle, setup, files, perf, cut, whole, chosen>>

UserChoosesProfile ==
  /\ Up
  /\ profile' = "user" /\ chosen' = TRUE
  /\ UNCHANGED <<bundle, setup, files, loader, deck, tune, stamp, fresh,
                 installed, cut, whole>>
-----------------------------------------------------------------------------
Init ==
  /\ bundle \in Versions
  /\ at = "off" /\ existing = FALSE
  /\ conf \in {"none", "whole"} /\ settings \in {"none", "whole"}
  /\ fresh \in BOOLEAN
  /\ \/ fresh /\ brew = "none" /\ unit = "none" /\ plugin = "none"
     \/ ~fresh /\ brew = "user" /\ unit \in {"none", "ours", "other"}
        /\ plugin \in {"none", "user"}
  /\ enabled = FALSE
  /\ staging = "none" /\ backup = "none" /\ marker = "none"
  /\ tune = "off" /\ profile = "stock" /\ stamp = FALSE
  /\ installed = FALSE /\ cut = {} /\ whole = FALSE /\ chosen = FALSE

Setup ==
  \/ SeedConf \/ FindLoader \/ InstallLoader \/ CheckPlugin \/ Replace \/ Mark
  \/ SeedSettings \/ EnableLoader

User ==
  UserEdits \/ UserChangesPlugin \/ UserRemovesLoader \/ UserChoosesProfile

Next == Setup \/ ApplyDefault \/ Fail \/ PowerLoss \/ Boot \/ User

Spec == Init /\ [][Next]_vars
-----------------------------------------------------------------------------
(* Every variable has its type; what is retired is a version the setup has *)
(* installed, or what a cut-off removal has left of one, never what the    *)
(* user has put there.                                                     *)
TypeOK ==
  /\ bundle \in Versions
  /\ at \in Steps \cup {"up", "off"} /\ existing \in BOOLEAN
  /\ conf \in {"none", "partial", "whole"}
  /\ settings \in {"none", "partial", "whole"}
  /\ brew \in {"none", "partial", "whole", "user"}
  /\ unit \in {"none", "partial", "ours", "other"}
  /\ enabled \in BOOLEAN
  /\ plugin \in Versions \cup {"none", "user"}
  /\ staging \in Versions \cup {"none", "partial"}
  /\ backup \in Versions \cup {"none", "partial"}
  /\ marker \in Versions \cup {"none", "partial"}
  /\ tune \in TuneSteps \cup {"up", "off"}
  /\ profile \in {"stock", "streaming", "user"} /\ stamp \in BOOLEAN
  /\ fresh \in BOOLEAN /\ installed \in BOOLEAN
  /\ cut \subseteq {"loader", "marker", "seed", "profile"}
  /\ whole \in BOOLEAN /\ chosen \in BOOLEAN

(* No step of a service, cut off or not, over any number of boots and      *)
(* images, changes a configuration that is there, be it the user's or one  *)
(* with this machine's client identity, a plugin the user has installed or *)
(* changed, or somebody else's Decky.                                      *)
UserContentSafe ==
  [][~Up => /\ conf = "whole" => conf' = "whole"
            /\ settings = "whole" => settings' = "whole"
            /\ plugin = "user" => plugin' = "user"
            /\ brew = "user" => brew' = "user"
            /\ unit = "other" => unit' = "other"]_vars

(* A boot that is not cut off leaves the plugin that the setup installed   *)
(* in place, however many boots before it were cut off, and at the image's *)
(* version, unless one was cut off between the plugin's rename and its     *)
(* marker.                                                                 *)
PluginCurrent ==
  Up /\ whole /\ installed /\ unit = "ours" =>
    /\ plugin \in Versions
    /\ "marker" \notin cut => plugin = bundle

(* A boot that is not cut off leaves Decky ready and the configurations    *)
(* whole, however many boots before it were cut off, unless one was after  *)
(* homebrew was made and before Decky was enabled, or while a              *)
(* configuration was written.                                              *)
CompletedLater ==
  Up /\ whole =>
    /\ fresh /\ unit # "none" /\ "loader" \notin cut =>
         brew = "whole" /\ unit = "ours" /\ enabled
    /\ "seed" \notin cut => conf # "partial" /\ settings # "partial"

(* A profile the user has chosen stays, whenever power is lost; only a     *)
(* failure of the service that selects the default can cost it.            *)
ChoiceKept == chosen /\ "profile" \notin cut => profile = "user"

(* apps/README.md:46-47: "MoonDeck installations created by the image also *)
(* update at boot", and so does one that a cut-off boot has created.       *)
ManagedUpdates == Up /\ whole /\ installed /\ unit = "ours" => plugin = bundle
=============================================================================
