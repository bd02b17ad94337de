--------------------------- MODULE FirstBootProofs ---------------------------
(***************************************************************************)
(* Proofs about FirstBoot, for any set of versions: its types, that the    *)
(* services leave alone what is the user's, and what a boot that is not    *)
(* cut off has achieved, whatever happened to the boots before it.         *)
(***************************************************************************)
EXTENDS FirstBoot, TLAPS

(* Where the setup may be with what it has found.                          *)
Found ==
  /\ at = "services" => brew = "none" /\ unit = "none"
  /\ at = "unit" => unit = "none"
  /\ at = "write unit" => unit = "partial"
  /\ at \in LoaderSteps \ {"unit", "write unit"} => unit = "ours"
  /\ at \in {"services", "unit", "write unit", "enable"} => ~existing
  /\ at \in LoaderSteps /\ ~existing => brew # "user"
  /\ at = "enable" => brew = "whole"
  /\ at \in {"clean", "copy", "copied", "discard", "retire", "install"} =>
       plugin # "user"

(* The marker belongs to the plugin, but between the two of them.          *)
Marked ==
  /\ at \in {"discard", "retire", "install"} => staging = bundle
  /\ at \in {"mark", "write mark"} => plugin = bundle
  /\ installed => plugin # "user"
  /\ installed /\ "marker" \notin cut /\ at \notin {"mark", "write mark"}
       /\ plugin # "none" => marker = plugin
  /\ whole /\ at \in {"settings", "write settings", "own", "enable", "up"}
       /\ installed /\ unit = "ours" =>
       plugin # "none" /\ ("marker" \notin cut => plugin = bundle)

(* The loader is complete but while it is being installed.                 *)
Complete ==
  /\ fresh /\ unit # "none" /\ "loader" \notin cut
       /\ ~(at \in LoaderSteps /\ ~existing) =>
       brew = "whole" /\ unit = "ours" /\ enabled
  /\ "seed" \notin cut /\ at # "write conf" => conf # "partial"
  /\ "seed" \notin cut /\ at # "write settings" => settings # "partial"

(* When the selection has ended without a failure, the stamp is there.     *)
Stamped ==
  /\ tune = "select" => ~stamp
  /\ tune = "up" /\ "profile" \notin cut => stamp
  /\ chosen /\ "profile" \notin cut => stamp /\ profile = "user"

BootInv == TypeOK /\ Found /\ Marked /\ Complete /\ Stamped
-----------------------------------------------------------------------------
(* TypeOK in parts: truth values, steps, files and the plugin.             *)
Flags ==
  /\ existing \in BOOLEAN /\ enabled \in BOOLEAN /\ stamp \in BOOLEAN
  /\ fresh \in BOOLEAN /\ installed \in BOOLEAN
  /\ whole \in BOOLEAN /\ chosen \in BOOLEAN

Places ==
  /\ at \in Steps \cup {"up", "off"}
  /\ tune \in TuneSteps \cup {"up", "off"}
  /\ cut \subseteq {"loader", "marker", "seed", "profile"}

Files ==
  /\ conf \in {"none", "partial", "whole"}
  /\ settings \in {"none", "partial", "whole"}
  /\ brew \in {"none", "partial", "whole", "user"}
  /\ unit \in {"none", "partial", "ours", "other"}
  /\ profile \in {"stock", "streaming", "user"}

Deck ==
  /\ bundle \in Versions
  /\ plugin \in Versions \cup {"none", "user"}
  /\ staging \in Versions \cup {"none", "partial"}
  /\ backup \in Versions \cup {"none", "partial"}
  /\ marker \in Versions \cup {"none", "partial"}

(* Truth values stay truth values.                                         *)
LEMMA FlagsStep ==
  ASSUME Flags, [Next]_vars
  PROVE  Flags'
<1>1. CASE SeedConf
  BY Zenon, <1>1 DEF SeedConf, Flags, setup, files, loader, deck, perf,
      history, Step
<1>2. CASE FindLoader
  BY Zenon, <1>2 DEF FindLoader, Flags, setup, files, loader, deck, perf,
      history, Step
<1>3. CASE InstallLoader
  BY Zenon, <1>3 DEF InstallLoader, Flags, setup, files, loader, deck, perf,
      history, Step
<1>4. CASE CheckPlugin
  BY Zenon, <1>4 DEF CheckPlugin, Flags, setup, files, loader, deck, perf,
      history, Step
<1>5. CASE Replace
  BY Zenon, <1>5 DEF Replace, Flags, setup, files, loader, deck, perf,
      history, Step
<1>6. CASE Mark
  BY Zenon, <1>6 DEF Mark, Flags, setup, files, loader, deck, perf, history,
      Step
<1>7. CASE SeedSettings
  BY Zenon, <1>7 DEF SeedSettings, Flags, setup, files, loader, deck, perf,
      history, Step
<1>8. CASE EnableLoader
  BY Zenon, <1>8 DEF EnableLoader, Flags, setup, files, loader, deck, perf,
      history, Step
<1>9. CASE ApplyDefault
  BY Zenon, <1>9 DEF ApplyDefault, Flags, setup, files, loader, deck, perf,
      history
<1>10. CASE Fail
  BY Zenon, <1>10 DEF Fail, Flags, setup, files, loader, deck, perf, history
<1>11. CASE PowerLoss
  BY Zenon, <1>11 DEF PowerLoss, Flags, setup, files, loader, deck, perf,
      history
<1>12. CASE Boot
  BY Zenon, <1>12 DEF Boot, Flags, setup, files, loader, deck, perf, history
<1>13. CASE UserEdits
  BY Zenon, <1>13 DEF UserEdits, Flags, setup, files, loader, deck, perf,
      history
<1>14. CASE UserChangesPlugin
  BY Zenon, <1>14 DEF UserChangesPlugin, Flags, setup, files, loader, deck,
      perf, history
<1>15. CASE UserRemovesLoader
  BY Zenon, <1>15 DEF UserRemovesLoader, Flags, setup, files, loader, deck,
      perf, history
<1>16. CASE UserChoosesProfile
  BY Zenon, <1>16 DEF UserChoosesProfile, Flags, setup, files, loader, deck,
      perf, history
<1>17. CASE UNCHANGED vars
  BY Zenon, <1>17 DEF vars, Flags, setup, files, loader, deck, perf, history,
      Up
<1> QED BY <1>1, <1>2, <1>3, <1>4, <1>5, <1>6, <1>7, <1>8, <1>9, <1>10, <1>11,
    <1>12, <1>13, <1>14, <1>15, <1>16, <1>17 DEF Next, Setup, User

(* Every step leads to a step, and a cut-off to a gap.                     *)
LEMMA PlacesStep ==
  ASSUME Places, [Next]_vars
  PROVE  Places'
<1>1. CASE SeedConf
  BY <1>1 DEF SeedConf, Places, Steps, LoaderSteps, TuneSteps, setup, files,
      loader, deck, perf, history, Step
<1>2. CASE FindLoader
  BY <1>2 DEF FindLoader, Places, Steps, LoaderSteps, TuneSteps, setup, files,
      loader, deck, perf, history, Step
<1>3. CASE InstallLoader
  BY <1>3 DEF InstallLoader, Places, Steps, LoaderSteps, TuneSteps, setup,
      files, loader, deck, perf, history, Step
<1>4. CASE CheckPlugin
  BY <1>4 DEF CheckPlugin, Places, Steps, LoaderSteps, TuneSteps, setup,
      files, loader, deck, perf, history, Step
<1>5. CASE Replace
  BY <1>5 DEF Replace, Places, Steps, LoaderSteps, TuneSteps, setup, files,
      loader, deck, perf, history, Step
<1>6. CASE Mark
  BY <1>6 DEF Mark, Places, Steps, LoaderSteps, TuneSteps, setup, files,
      loader, deck, perf, history, Step
<1>7. CASE SeedSettings
  BY <1>7 DEF SeedSettings, Places, Steps, LoaderSteps, TuneSteps, setup,
      files, loader, deck, perf, history, Step
<1>8. CASE EnableLoader
  BY <1>8 DEF EnableLoader, Places, Steps, LoaderSteps, TuneSteps, setup,
      files, loader, deck, perf, history, Step
<1>9. CASE ApplyDefault
  BY <1>9 DEF ApplyDefault, Places, Steps, LoaderSteps, TuneSteps, setup,
      files, loader, deck, perf, history
<1>10. CASE Fail
  BY <1>10 DEF Fail, Places, Steps, LoaderSteps, TuneSteps, setup, files,
      loader, deck, perf, history, Gaps
<1>11. CASE PowerLoss
  BY <1>11 DEF PowerLoss, Places, Steps, LoaderSteps, TuneSteps, setup, files,
      loader, deck, perf, history, Gaps, Up
<1>12. CASE Boot
  BY <1>12 DEF Boot, Places, Steps, LoaderSteps, TuneSteps, setup, files,
      loader, deck, perf, history, Up
<1>13. CASE UserEdits
  BY <1>13 DEF UserEdits, Places, Steps, LoaderSteps, TuneSteps, setup, files,
      loader, deck, perf, history, Up
<1>14. CASE UserChangesPlugin
  BY <1>14 DEF UserChangesPlugin, Places, Steps, LoaderSteps, TuneSteps,
      setup, files, loader, deck, perf, history, Up
<1>15. CASE UserRemovesLoader
  BY <1>15 DEF UserRemovesLoader, Places, Steps, LoaderSteps, TuneSteps,
      setup, files, loader, deck, perf, history, Up
<1>16. CASE UserChoosesProfile
  BY <1>16 DEF UserChoosesProfile, Places, Steps, LoaderSteps, TuneSteps,
      setup, files, loader, deck, perf, history, Up
<1>17. CASE UNCHANGED vars
  BY <1>17 DEF vars, Places, Steps, LoaderSteps, TuneSteps, setup, files,
      loader, deck, perf, history, Up
<1> QED BY <1>1, <1>2, <1>3, <1>4, <1>5, <1>6, <1>7, <1>8, <1>9, <1>10, <1>11,
    <1>12, <1>13, <1>14, <1>15, <1>16, <1>17 DEF Next, Setup, User

(* The files have no other contents.                                       *)
LEMMA FilesStep ==
  ASSUME Files, [Next]_vars
  PROVE  Files'
<1>1. CASE SeedConf
  BY <1>1 DEF SeedConf, Files, setup, files, loader, deck, perf, history, Step
<1>2. CASE FindLoader
  BY <1>2 DEF FindLoader, Files, setup, files, loader, deck, perf, history,
      Step
<1>3. CASE InstallLoader
  BY <1>3 DEF InstallLoader, Files, setup, files, loader, deck, perf, history,
      Step
<1>4. CASE CheckPlugin
  BY <1>4 DEF CheckPlugin, Files, setup, files, loader, deck, perf, history,
      Step
<1>5. CASE Replace
  BY <1>5 DEF Replace, Files, setup, files, loader, deck, perf, history, Step
<1>6. CASE Mark
  BY <1>6 DEF Mark, Files, setup, files, loader, deck, perf, history, Step
<1>7. CASE SeedSettings
  BY <1>7 DEF SeedSettings, Files, setup, files, loader, deck, perf, history,
      Step
<1>8. CASE EnableLoader
  BY <1>8 DEF EnableLoader, Files, setup, files, loader, deck, perf, history,
      Step
<1>9. CASE ApplyDefault
  BY <1>9 DEF ApplyDefault, Files, setup, files, loader, deck, perf, history
<1>10. CASE Fail
  BY <1>10 DEF Fail, Files, setup, files, loader, deck, perf, history
<1>11. CASE PowerLoss
  BY <1>11 DEF PowerLoss, Files, setup, files, loader, deck, perf, history, Up
<1>12. CASE Boot
  BY <1>12 DEF Boot, Files, setup, files, loader, deck, perf, history, Up
<1>13. CASE UserEdits
  BY <1>13 DEF UserEdits, Files, setup, files, loader, deck, perf, history, Up
<1>14. CASE UserChangesPlugin
  BY <1>14 DEF UserChangesPlugin, Files, setup, files, loader, deck, perf,
      history, Up
<1>15. CASE UserRemovesLoader
  BY <1>15 DEF UserRemovesLoader, Files, setup, files, loader, deck, perf,
      history, Up
<1>16. CASE UserChoosesProfile
  BY <1>16 DEF UserChoosesProfile, Files, setup, files, loader, deck, perf,
      history, Up
<1>17. CASE UNCHANGED vars
  BY <1>17 DEF vars, Files, setup, files, loader, deck, perf, history, Up
<1> QED BY <1>1, <1>2, <1>3, <1>4, <1>5, <1>6, <1>7, <1>8, <1>9, <1>10, <1>11,
    <1>12, <1>13, <1>14, <1>15, <1>16, <1>17 DEF Next, Setup, User

(* A plugin that is retired is a version, as nobody else's is.             *)
LEMMA DeckStep ==
  ASSUME Deck, at = "retire" => plugin # "user",
         at = "install" => staging = bundle, [Next]_vars
  PROVE  Deck'
<1>1. CASE SeedConf
  BY <1>1 DEF SeedConf, Deck, setup, files, loader, deck, perf, history, Step
<1>2. CASE FindLoader
  BY <1>2 DEF FindLoader, Deck, setup, files, loader, deck, perf, history,
      Step
<1>3. CASE InstallLoader
  BY <1>3 DEF InstallLoader, Deck, setup, files, loader, deck, perf, history,
      Step
<1>4. CASE CheckPlugin
  BY <1>4 DEF CheckPlugin, Deck, setup, files, loader, deck, perf, history,
      Step
<1>5. CASE Replace
  BY <1>5 DEF Replace, Deck, setup, files, loader, deck, perf, history, Step
<1>6. CASE Mark
  BY <1>6 DEF Mark, Deck, setup, files, loader, deck, perf, history, Step
<1>7. CASE SeedSettings
  BY <1>7 DEF SeedSettings, Deck, setup, files, loader, deck, perf, history,
      Step
<1>8. CASE EnableLoader
  BY <1>8 DEF EnableLoader, Deck, setup, files, loader, deck, perf, history,
      Step
<1>9. CASE ApplyDefault
  BY <1>9 DEF ApplyDefault, Deck, setup, files, loader, deck, perf, history
<1>10. CASE Fail
  BY <1>10 DEF Fail, Deck, setup, files, loader, deck, perf, history
<1>11. CASE PowerLoss
  BY <1>11 DEF PowerLoss, Deck, setup, files, loader, deck, perf, history, Up
<1>12. CASE Boot
  BY <1>12 DEF Boot, Deck, setup, files, loader, deck, perf, history, Up
<1>13. CASE UserEdits
  BY <1>13 DEF UserEdits, Deck, setup, files, loader, deck, perf, history, Up
<1>14. CASE UserChangesPlugin
  BY <1>14 DEF UserChangesPlugin, Deck, setup, files, loader, deck, perf,
      history, Up
<1>15. CASE UserRemovesLoader
  BY <1>15 DEF UserRemovesLoader, Deck, setup, files, loader, deck, perf,
      history, Up
<1>16. CASE UserChoosesProfile
  BY <1>16 DEF UserChoosesProfile, Deck, setup, files, loader, deck, perf,
      history, Up
<1>17. CASE UNCHANGED vars
  BY <1>17 DEF vars, Deck, setup, files, loader, deck, perf, history, Up
<1> QED BY <1>1, <1>2, <1>3, <1>4, <1>5, <1>6, <1>7, <1>8, <1>9, <1>10, <1>11,
    <1>12, <1>13, <1>14, <1>15, <1>16, <1>17 DEF Next, Setup, User

(* All parts together.                                                     *)
LEMMA TypeStep ==
  ASSUME TypeOK, Found, Marked, [Next]_vars
  PROVE  TypeOK'
<1>1. Flags /\ Places /\ Files /\ Deck
  BY DEF TypeOK, Flags, Places, Files, Deck
<1>2. (at = "retire" => plugin # "user") /\ (at = "install" => staging = bundle)
  BY DEF Found, Marked
<1>3. Flags' /\ Places' /\ Files' /\ Deck'
  BY <1>1, <1>2, FlagsStep, PlacesStep, FilesStep, DeckStep
<1> QED BY <1>3 DEF TypeOK, Flags, Places, Files, Deck

(* Nothing but the setup changes what the setup has found.                 *)
LEMMA FoundStep ==
  ASSUME TypeOK, Found, [Next]_vars
  PROVE  Found'
<1>1. CASE SeedConf
  BY BootAssumption, <1>1 DEF SeedConf, Found, TypeOK, LoaderSteps, Steps,
      setup, files, loader, deck, perf, history, Step
<1>2. CASE FindLoader
  BY BootAssumption, <1>2 DEF FindLoader, Found, TypeOK, LoaderSteps, Steps,
      setup, files, loader, deck, perf, history, Step
<1>3. CASE InstallLoader
  BY BootAssumption, <1>3 DEF InstallLoader, Found, TypeOK, LoaderSteps,
      Steps, setup, files, loader, deck, perf, history, Step
<1>4. CASE CheckPlugin
  BY BootAssumption, <1>4 DEF CheckPlugin, Found, TypeOK, LoaderSteps, Steps,
      setup, files, loader, deck, perf, history, Step, Managed
<1>5. CASE Replace
  BY BootAssumption, <1>5 DEF Replace, Found, TypeOK, LoaderSteps, Steps,
      setup, files, loader, deck, perf, history, Step
<1>6. CASE Mark
  BY BootAssumption, <1>6 DEF Mark, Found, TypeOK, LoaderSteps, Steps, setup,
      files, loader, deck, perf, history, Step
<1>7. CASE SeedSettings
  BY BootAssumption, <1>7 DEF SeedSettings, Found, TypeOK, LoaderSteps, Steps,
      setup, files, loader, deck, perf, history, Step
<1>8. CASE EnableLoader
  BY BootAssumption, <1>8 DEF EnableLoader, Found, TypeOK, LoaderSteps, Steps,
      setup, files, loader, deck, perf, history, Step
<1>9. CASE ApplyDefault
  BY BootAssumption, <1>9 DEF ApplyDefault, Found, TypeOK, LoaderSteps, Steps,
      setup, files, loader, deck, perf, history
<1>10. CASE Fail
  BY BootAssumption, <1>10 DEF Fail, Found, TypeOK, LoaderSteps, Steps, setup,
      files, loader, deck, perf, history, Gaps, TuneSteps
<1>11. CASE PowerLoss
  BY BootAssumption, <1>11 DEF PowerLoss, Found, TypeOK, LoaderSteps, Steps,
      setup, files, loader, deck, perf, history, Gaps, Up
<1>12. CASE Boot
  BY BootAssumption, <1>12 DEF Boot, Found, TypeOK, LoaderSteps, Steps, setup,
      files, loader, deck, perf, history, Up
<1>13. CASE UserEdits
  BY BootAssumption, <1>13 DEF UserEdits, Found, TypeOK, LoaderSteps, Steps,
      setup, files, loader, deck, perf, history, Up
<1>14. CASE UserChangesPlugin
  BY BootAssumption, <1>14 DEF UserChangesPlugin, Found, TypeOK, LoaderSteps,
      Steps, setup, files, loader, deck, perf, history, Up
<1>15. CASE UserRemovesLoader
  BY BootAssumption, <1>15 DEF UserRemovesLoader, Found, TypeOK, LoaderSteps,
      Steps, setup, files, loader, deck, perf, history, Up
<1>16. CASE UserChoosesProfile
  BY BootAssumption, <1>16 DEF UserChoosesProfile, Found, TypeOK, LoaderSteps,
      Steps, setup, files, loader, deck, perf, history, Up
<1>17. CASE UNCHANGED vars
  BY BootAssumption, <1>17 DEF vars, Found, TypeOK, LoaderSteps, Steps, setup,
      files, loader, deck, perf, history, Up
<1> QED BY <1>1, <1>2, <1>3, <1>4, <1>5, <1>6, <1>7, <1>8, <1>9, <1>10, <1>11,
    <1>12, <1>13, <1>14, <1>15, <1>16, <1>17 DEF Next, Setup, User

(* The marker follows the plugin.                                          *)
LEMMA MarkedStep ==
  ASSUME TypeOK, Found, Marked, [Next]_vars
  PROVE  Marked'
<1>1. CASE SeedConf
  BY BootAssumption, <1>1 DEF SeedConf, Found, Marked, TypeOK, LoaderSteps,
      Steps, setup, files, loader, deck, perf, history, Step
<1>2. CASE FindLoader
  BY BootAssumption, <1>2 DEF FindLoader, Found, Marked, TypeOK, LoaderSteps,
      Steps, setup, files, loader, deck, perf, history, Step
<1>3. CASE InstallLoader
  BY BootAssumption, <1>3 DEF InstallLoader, Found, Marked, TypeOK,
      LoaderSteps, Steps, setup, files, loader, deck, perf, history, Step
<1>4. CASE CheckPlugin
  BY BootAssumption, <1>4 DEF CheckPlugin, Found, Marked, TypeOK, LoaderSteps,
      Steps, setup, files, loader, deck, perf, history, Step, Managed
<1>5. CASE Replace
  BY BootAssumption, <1>5 DEF Replace, Found, Marked, TypeOK, LoaderSteps,
      Steps, setup, files, loader, deck, perf, history, Step
<1>6. CASE Mark
  BY BootAssumption, <1>6 DEF Mark, Found, Marked, TypeOK, LoaderSteps, Steps,
      setup, files, loader, deck, perf, history, Step
<1>7. CASE SeedSettings
  BY BootAssumption, <1>7 DEF SeedSettings, Found, Marked, TypeOK,
      LoaderSteps, Steps, setup, files, loader, deck, perf, history, Step
<1>8. CASE EnableLoader
  BY BootAssumption, <1>8 DEF EnableLoader, Found, Marked, TypeOK,
      LoaderSteps, Steps, setup, files, loader, deck, perf, history, Step
<1>9. CASE ApplyDefault
  BY BootAssumption, <1>9 DEF ApplyDefault, Found, Marked, TypeOK,
      LoaderSteps, Steps, setup, files, loader, deck, perf, history
<1>10. CASE Fail
  BY BootAssumption, <1>10 DEF Fail, Found, Marked, TypeOK, LoaderSteps,
      Steps, setup, files, loader, deck, perf, history, Gaps, TuneSteps
<1>11. CASE PowerLoss
  BY BootAssumption, <1>11 DEF PowerLoss, Found, Marked, TypeOK, LoaderSteps,
      Steps, setup, files, loader, deck, perf, history, Gaps, Up
<1>12. CASE Boot
  BY BootAssumption, <1>12 DEF Boot, Found, Marked, TypeOK, LoaderSteps,
      Steps, setup, files, loader, deck, perf, history, Up
<1>13. CASE UserEdits
  BY BootAssumption, <1>13 DEF UserEdits, Found, Marked, TypeOK, LoaderSteps,
      Steps, setup, files, loader, deck, perf, history, Up
<1>14. CASE UserChangesPlugin
  BY BootAssumption, <1>14 DEF UserChangesPlugin, Found, Marked, TypeOK,
      LoaderSteps, Steps, setup, files, loader, deck, perf, history, Up
<1>15. CASE UserRemovesLoader
  BY BootAssumption, <1>15 DEF UserRemovesLoader, Found, Marked, TypeOK,
      LoaderSteps, Steps, setup, files, loader, deck, perf, history, Up
<1>16. CASE UserChoosesProfile
  BY BootAssumption, <1>16 DEF UserChoosesProfile, Found, Marked, TypeOK,
      LoaderSteps, Steps, setup, files, loader, deck, perf, history, Up
<1>17. CASE UNCHANGED vars
  BY BootAssumption, <1>17 DEF vars, Found, Marked, TypeOK, LoaderSteps,
      Steps, setup, files, loader, deck, perf, history, Up
<1> QED BY <1>1, <1>2, <1>3, <1>4, <1>5, <1>6, <1>7, <1>8, <1>9, <1>10, <1>11,
    <1>12, <1>13, <1>14, <1>15, <1>16, <1>17 DEF Next, Setup, User

(* An installation that is not cut off is completed.                       *)
LEMMA CompleteStep ==
  ASSUME TypeOK, Found, Complete, [Next]_vars
  PROVE  Complete'
<1>1. CASE SeedConf
  BY <1>1 DEF SeedConf, Found, Complete, TypeOK, LoaderSteps, Steps, setup,
      files, loader, deck, perf, history, Step
<1>2. CASE FindLoader
  BY <1>2 DEF FindLoader, Found, Complete, TypeOK, LoaderSteps, Steps, setup,
      files, loader, deck, perf, history, Step
<1>3. CASE InstallLoader
  BY <1>3 DEF InstallLoader, Found, Complete, TypeOK, LoaderSteps, Steps,
      setup, files, loader, deck, perf, history, Step
<1>4. CASE CheckPlugin
  BY <1>4 DEF CheckPlugin, Found, Complete, TypeOK, LoaderSteps, Steps, setup,
      files, loader, deck, perf, history, Step, Managed
<1>5. CASE Replace
  BY <1>5 DEF Replace, Found, Complete, TypeOK, LoaderSteps, Steps, setup,
      files, loader, deck, perf, history, Step
<1>6. CASE Mark
  BY <1>6 DEF Mark, Found, Complete, TypeOK, LoaderSteps, Steps, setup, files,
      loader, deck, perf, history, Step
<1>7. CASE SeedSettings
  BY <1>7 DEF SeedSettings, Found, Complete, TypeOK, LoaderSteps, Steps,
      setup, files, loader, deck, perf, history, Step
<1>8. CASE EnableLoader
  BY <1>8 DEF EnableLoader, Found, Complete, TypeOK, LoaderSteps, Steps,
      setup, files, loader, deck, perf, history, Step
<1>9. CASE ApplyDefault
  BY <1>9 DEF ApplyDefault, Found, Complete, TypeOK, LoaderSteps, Steps,
      setup, files, loader, deck, perf, history
<1>10. CASE Fail
  BY <1>10 DEF Fail, Found, Complete, TypeOK, LoaderSteps, Steps, setup,
      files, loader, deck, perf, history, Gaps, TuneSteps
<1>11. CASE PowerLoss
  BY <1>11 DEF PowerLoss, Found, Complete, TypeOK, LoaderSteps, Steps, setup,
      files, loader, deck, perf, history, Gaps, Up
<1>12. CASE Boot
  BY <1>12 DEF Boot, Found, Complete, TypeOK, LoaderSteps, Steps, setup,
      files, loader, deck, perf, history, Up
<1>13. CASE UserEdits
  BY <1>13 DEF UserEdits, Found, Complete, TypeOK, LoaderSteps, Steps, setup,
      files, loader, deck, perf, history, Up
<1>14. CASE UserChangesPlugin
  BY <1>14 DEF UserChangesPlugin, Found, Complete, TypeOK, LoaderSteps, Steps,
      setup, files, loader, deck, perf, history, Up
<1>15. CASE UserRemovesLoader
  BY <1>15 DEF UserRemovesLoader, Found, Complete, TypeOK, LoaderSteps, Steps,
      setup, files, loader, deck, perf, history, Up
<1>16. CASE UserChoosesProfile
  BY <1>16 DEF UserChoosesProfile, Found, Complete, TypeOK, LoaderSteps,
      Steps, setup, files, loader, deck, perf, history, Up
<1>17. CASE UNCHANGED vars
  BY <1>17 DEF vars, Found, Complete, TypeOK, LoaderSteps, Steps, setup,
      files, loader, deck, perf, history, Up
<1> QED BY <1>1, <1>2, <1>3, <1>4, <1>5, <1>6, <1>7, <1>8, <1>9, <1>10, <1>11,
    <1>12, <1>13, <1>14, <1>15, <1>16, <1>17 DEF Next, Setup, User

(* The user chooses only when the services have ended.                     *)
LEMMA StampedStep ==
  ASSUME TypeOK, Stamped, [Next]_vars
  PROVE  Stamped'
<1>1. CASE SeedConf
  BY <1>1 DEF SeedConf, Stamped, TypeOK, TuneSteps, setup, files, loader,
      deck, perf, history, Step
<1>2. CASE FindLoader
  BY <1>2 DEF FindLoader, Stamped, TypeOK, TuneSteps, setup, files, loader,
      deck, perf, history, Step
<1>3. CASE InstallLoader
  BY <1>3 DEF InstallLoader, Stamped, TypeOK, TuneSteps, setup, files, loader,
      deck, perf, history, Step
<1>4. CASE CheckPlugin
  BY <1>4 DEF CheckPlugin, Stamped, TypeOK, TuneSteps, setup, files, loader,
      deck, perf, history, Step, Managed
<1>5. CASE Replace
  BY <1>5 DEF Replace, Stamped, TypeOK, TuneSteps, setup, files, loader, deck,
      perf, history, Step
<1>6. CASE Mark
  BY <1>6 DEF Mark, Stamped, TypeOK, TuneSteps, setup, files, loader, deck,
      perf, history, Step
<1>7. CASE SeedSettings
  BY <1>7 DEF SeedSettings, Stamped, TypeOK, TuneSteps, setup, files, loader,
      deck, perf, history, Step
<1>8. CASE EnableLoader
  BY <1>8 DEF EnableLoader, Stamped, TypeOK, TuneSteps, setup, files, loader,
      deck, perf, history, Step
<1>9. CASE ApplyDefault
  <2>1. CASE tune = "write stamp"
    <3>1. stamp'
      BY <1>9, <2>1, Zenon DEF ApplyDefault
    <3>2. tune' = "up" /\ cut' = cut /\ chosen' = chosen /\ profile' = profile
      BY <1>9, <2>1 DEF ApplyDefault, history
    <3> QED BY <3>1, <3>2 DEF Stamped, TypeOK
  <2>2. CASE tune = "select"
    <3>1. ~(chosen /\ "profile" \notin cut)
      BY <2>2 DEF Stamped
    <3>2. tune' = "write stamp" /\ chosen' = chosen /\ cut' = cut
      BY <1>9, <2>2 DEF ApplyDefault, history
    <3> QED BY <3>1, <3>2 DEF Stamped
  <2>3. CASE tune = "stamp"
    <3>1. UNCHANGED <<stamp, profile, chosen, cut>>
      BY <1>9, <2>3 DEF ApplyDefault, history
    <3>2. IF stamp THEN tune' = "up" ELSE tune' = "select"
      BY <1>9, <2>3 DEF ApplyDefault
    <3> QED BY <3>1, <3>2 DEF Stamped
  <2> QED BY <1>9, <2>1, <2>2, <2>3 DEF ApplyDefault
<1>10. CASE Fail
  BY <1>10 DEF Fail, Stamped, TypeOK, TuneSteps, setup, files, loader, deck,
      perf, history, Gaps
<1>11. CASE PowerLoss
  BY <1>11 DEF PowerLoss, Stamped, TypeOK, TuneSteps, setup, files, loader,
      deck, perf, history, Gaps, Up
<1>12. CASE Boot
  BY <1>12 DEF Boot, Stamped, TypeOK, TuneSteps, setup, files, loader, deck,
      perf, history, Up
<1>13. CASE UserEdits
  BY <1>13 DEF UserEdits, Stamped, TypeOK, TuneSteps, setup, files, loader,
      deck, perf, history, Up
<1>14. CASE UserChangesPlugin
  BY <1>14 DEF UserChangesPlugin, Stamped, TypeOK, TuneSteps, setup, files,
      loader, deck, perf, history, Up
<1>15. CASE UserRemovesLoader
  BY <1>15 DEF UserRemovesLoader, Stamped, TypeOK, TuneSteps, setup, files,
      loader, deck, perf, history, Up
<1>16. CASE UserChoosesProfile
  BY <1>16 DEF UserChoosesProfile, Stamped, TypeOK, TuneSteps, setup, files,
      loader, deck, perf, history, Up
<1>17. CASE UNCHANGED vars
  BY <1>17 DEF vars, Stamped, TypeOK, TuneSteps, setup, files, loader, deck,
      perf, history, Up
<1> QED BY <1>1, <1>2, <1>3, <1>4, <1>5, <1>6, <1>7, <1>8, <1>9, <1>10, <1>11,
    <1>12, <1>13, <1>14, <1>15, <1>16, <1>17 DEF Next, Setup, User

(* BootInv holds at first, and every step keeps it.                        *)
LEMMA BootInvHolds == Spec => []BootInv
<1>1. Init => BootInv
  BY BootAssumption
     DEF Init, BootInv, TypeOK, Found, Marked, Complete, Stamped, LoaderSteps,
         Steps, TuneSteps
<1>2. BootInv /\ [Next]_vars => BootInv'
  BY TypeStep, FoundStep, MarkedStep, CompleteStep, StampedStep DEF BootInv
<1> QED BY <1>1, <1>2, PTL DEF Spec
-----------------------------------------------------------------------------
(* Every variable has its type, over any number of boots and cut-offs.     *)
THEOREM TypeCorrect == Spec => []TypeOK
<1>1. BootInv => TypeOK
  BY DEF BootInv
<1> QED BY BootInvHolds, <1>1, PTL

(* No step of moonmachine-setup changes what the user has edited or        *)
(* installed, wherever earlier boots were cut off.                         *)
THEOREM ContentSafe == Spec => UserContentSafe
<1> DEFINE Safe == /\ conf = "whole" => conf' = "whole"
                   /\ settings = "whole" => settings' = "whole"
                   /\ plugin = "user" => plugin' = "user"
                   /\ brew = "user" => brew' = "user"
                   /\ unit = "other" => unit' = "other"
<1>1. ASSUME BootInv, [Next]_vars, ~Up
      PROVE  Safe
  <2>1. CASE SeedConf
    BY <1>1, <2>1 DEF SeedConf, BootInv, Found, LoaderSteps, setup, files,
        loader, deck, perf, history, Step
  <2>2. CASE FindLoader
    BY <1>1, <2>2 DEF FindLoader, BootInv, Found, LoaderSteps, setup, files,
        loader, deck, perf, history, Step
  <2>3. CASE InstallLoader
    BY <1>1, <2>3 DEF InstallLoader, BootInv, Found, LoaderSteps, setup,
        files, loader, deck, perf, history, Step
  <2>4. CASE CheckPlugin
    BY <1>1, <2>4 DEF CheckPlugin, BootInv, Found, LoaderSteps, setup, files,
        loader, deck, perf, history, Step
  <2>5. CASE Replace
    BY <1>1, <2>5 DEF Replace, BootInv, Found, LoaderSteps, setup, files,
        loader, deck, perf, history, Step
  <2>6. CASE Mark
    BY <1>1, <2>6 DEF Mark, BootInv, Found, LoaderSteps, setup, files, loader,
        deck, perf, history, Step
  <2>7. CASE SeedSettings
    BY <1>1, <2>7 DEF SeedSettings, BootInv, Found, LoaderSteps, setup, files,
        loader, deck, perf, history, Step
  <2>8. CASE EnableLoader
    BY <1>1, <2>8 DEF EnableLoader, BootInv, Found, LoaderSteps, setup, files,
        loader, deck, perf, history, Step
  <2>9. CASE ApplyDefault
    BY <1>1, <2>9 DEF ApplyDefault, BootInv, Found, LoaderSteps, setup, files,
        loader, deck, perf, history
  <2>10. CASE Fail
    BY <1>1, <2>10 DEF Fail, BootInv, Found, LoaderSteps, setup, files,
        loader, deck, perf, history
  <2>11. CASE PowerLoss
    BY <1>1, <2>11 DEF PowerLoss, BootInv, Found, LoaderSteps, setup, files,
        loader, deck, perf, history
  <2>12. CASE Boot
    BY <1>1, <2>12 DEF Boot, BootInv, Found, LoaderSteps, setup, files,
        loader, deck, perf, history, Up
  <2>13. CASE UserEdits
    BY <1>1, <2>13 DEF UserEdits, BootInv, Found, LoaderSteps, setup, files,
        loader, deck, perf, history, Up
  <2>14. CASE UserChangesPlugin
    BY <1>1, <2>14 DEF UserChangesPlugin, BootInv, Found, LoaderSteps, setup,
        files, loader, deck, perf, history, Up
  <2>15. CASE UserRemovesLoader
    BY <1>1, <2>15 DEF UserRemovesLoader, BootInv, Found, LoaderSteps, setup,
        files, loader, deck, perf, history, Up
  <2>16. CASE UserChoosesProfile
    BY <1>1, <2>16 DEF UserChoosesProfile, BootInv, Found, LoaderSteps, setup,
        files, loader, deck, perf, history, Up
  <2>17. CASE UNCHANGED vars
    BY <2>17 DEF vars, setup, files, loader, deck, perf, history
  <2> QED BY <1>1, <2>1, <2>2, <2>3, <2>4, <2>5, <2>6, <2>7, <2>8, <2>9,
      <2>10, <2>11, <2>12, <2>13, <2>14, <2>15, <2>16, <2>17 DEF Next, Setup,
      User
<1>2. BootInv /\ [Next]_vars => [~Up => Safe]_vars
  BY <1>1
<1> QED BY BootInvHolds, <1>2, PTL DEF Spec, UserContentSafe

(* After a boot that is not cut off, the plugin that the setup installed   *)
(* is in place, and current unless its marker was once lost.               *)
THEOREM PluginUpdated == Spec => []PluginCurrent
<1>1. BootInv => PluginCurrent
  BY DEF BootInv, TypeOK, Marked, PluginCurrent, Up
<1> QED BY BootInvHolds, <1>1, PTL

(* Such a boot leaves the loader and the configurations complete, but for  *)
(* the cut-offs that it names.                                             *)
THEOREM BootCompletes == Spec => []CompletedLater
<1>1. BootInv => CompletedLater
  BY DEF BootInv, Complete, CompletedLater, Up, LoaderSteps
<1> QED BY BootInvHolds, <1>1, PTL

(* The user's choice of a profile survives every loss of power.            *)
THEOREM ChoiceSurvives == Spec => []ChoiceKept
<1>1. BootInv => ChoiceKept
  BY DEF BootInv, Stamped, ChoiceKept
<1> QED BY BootInvHolds, <1>1, PTL
=============================================================================
