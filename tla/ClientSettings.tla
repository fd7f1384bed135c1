--------------------------- MODULE ClientSettings ---------------------------
(* The client's settings: the notification manager, the theme and the clock, *)
(* as the commands change them, and the two files they are kept in.          *)
(* config.json is written by every command and read by a start from flags    *)
(* that name no other file; profiles.json holds a theme for each profile and *)
(* starts the rest. The result of writing either is ignored.                 *)
EXTENDS Integers, Sequences, FiniteSets

CONSTANTS Themes,      \* ListAllThemes
          Profiles,    \* profiles.json: who each profile connects as
          Day,         \* 24 in the code
          Evening, Morning,  \* the hours :quiet-off sets, 22 and 8 in the code
          Quiets,      \* bound: the hours given to :quiet
          Others,      \* bound: what the files named by -config hold
          NoFile

Hours == 0..(Day - 1)
Looks == {Themes[i] : i \in DOMAIN Themes}
Levels == {"info", "mention", "dm", "urgent"}
Modes == {"none", "bell", "desktop", "both"}

(* Config, what the commands and the start read and write of it.             *)
Notifications ==
    [mode : Modes \cup {""}, bell : BOOLEAN, mentionOnly : BOOLEAN,
     desktop : BOOLEAN, onMention : BOOLEAN, onDM : BOOLEAN, onAll : BOOLEAN,
     quiet : BOOLEAN, from : Hours, to : Hours]
Configs == [theme : Looks, clock24 : BOOLEAN, notify : Notifications]

ASSUME SettingsAssumption ==
    /\ Themes \in Seq(Looks) \ {<<>>} /\ Profiles \in Seq({Profiles[p] : p \in DOMAIN Profiles})
    /\ Day \in Nat \ {0} /\ {Evening, Morning} \subseteq Hours /\ Quiets \subseteq Hours \X Hours
    /\ NoFile \notin Configs /\ Others \subseteq Configs

VARIABLES supported,   \* desktopSupported
          nc,          \* the notification manager's configuration
          cfg,         \* m.cfg
          cfgFile,     \* config.json
          themeOf,     \* the themes in profiles.json
          start,       \* what the program was started from, of Starts
          saved,       \* history: the last of this start's changes is in config.json
          lapsed       \* history: this start's theme is not in profiles.json

settingVars == <<supported, nc, cfg, cfgFile, themeOf, start, saved, lapsed>>

(* A profile, the flags, or flags with -config.                              *)
Flags == 0
Named == -1
Starts == DOMAIN Profiles \cup {Flags, Named}

-----------------------------------------------------------------------------
(* What is heard.                                                            *)

(* isQuietHours                                                              *)
IsQuiet(n, h) ==
    n.quiet /\ IF n.from > n.to THEN h >= n.from \/ h < n.to ELSE h >= n.from /\ h < n.to

(* shouldNotifyBell, without the least interval between two bells            *)
Bell(n, level) ==
    n.bell /\ (level = "info" => ~n.mentionOnly)

(* shouldNotifyDesktop, likewise                                             *)
Desktop(n, level) ==
    /\ n.desktop /\ supported
    /\ level = "dm" => n.onDM
    /\ level = "mention" => n.onMention
    /\ level = "info" => n.onAll

(* Notify                                                                    *)
Heard(n, level, h) ==
    IF IsQuiet(n, h) \/ n.focus THEN {}
    ELSE {way \in {"bell", "desktop"} :
            IF way = "bell" THEN Bell(n, level) ELSE Desktop(n, level)}

-----------------------------------------------------------------------------
(* From the configuration and back.                                          *)

(* DefaultNotificationConfig. BellOnDM never changes.                        *)
Default == [mode |-> "bell", bell |-> TRUE, mentionOnly |-> FALSE,
            desktop |-> FALSE, onMention |-> TRUE, onDM |-> TRUE, onAll |-> FALSE,
            quiet |-> FALSE, from |-> Evening, to |-> Morning, focus |-> FALSE]

(* The notification fields of a Config that nothing has set.                 *)
Unset == [mode |-> "", bell |-> FALSE, mentionOnly |-> FALSE,
          desktop |-> FALSE, onMention |-> FALSE, onDM |-> FALSE, onAll |-> FALSE,
          quiet |-> FALSE, from |-> 0, to |-> 0]

(* configToNotificationConfig: a bell that is off is taken for unset.        *)
FromCfg(c) ==
    [Default EXCEPT !.mode = IF c.mode = "" THEN "bell" ELSE c.mode,
                    !.mentionOnly = c.mentionOnly,
                    !.desktop = c.desktop, !.onMention = c.onMention,
                    !.onDM = c.onDM, !.onAll = c.onAll,
                    !.quiet = c.quiet, !.from = c.from, !.to = c.to]

(* Mutant: onAll is not written back.                                        *)
ToCfgForgets(n) == [f \in DOMAIN Unset |-> IF f = "onAll" THEN Unset[f] ELSE n[f]]

(* notificationConfigToConfig                                                *)
ToCfg(n) == [f \in DOMAIN Unset |-> n[f]]

-----------------------------------------------------------------------------
(* Starting.                                                                 *)

(* The zero Config, with the default loadConfigFromFlags gives the theme.    *)
Blank == [theme |-> Themes[1], clock24 |-> FALSE, notify |-> Unset]

(* loadConfigFromFlags: a file that is named is read in place of config.json *)
(* and never written; one that cannot be read leaves the zero Config.        *)
FlagConfigs(how) ==
    IF how = Named THEN Others \cup {Blank} ELSE {IF cfgFile = NoFile THEN Blank ELSE cfgFile}

(* profileToConfig                                                           *)
ProfileConfig(p) == [theme |-> themeOf[p], clock24 |-> TRUE, notify |-> Unset]

(* initializeClient                                                          *)
StartSettings(how) ==
    \E c \in IF how \in {Flags, Named} THEN FlagConfigs(how) ELSE {ProfileConfig(how)} :
       /\ start' = how /\ cfg' = c /\ nc' = FromCfg(c.notify)
       /\ saved' = FALSE /\ lapsed' = FALSE
       /\ UNCHANGED <<supported, cfgFile, themeOf>>

InitSettings ==
    /\ supported \in BOOLEAN /\ cfgFile = NoFile
    /\ themeOf = [p \in DOMAIN Profiles |-> Themes[1]]
    /\ start = Flags /\ cfg = Blank /\ nc = FromCfg(Unset)
    /\ saved = FALSE /\ lapsed = FALSE

-----------------------------------------------------------------------------
(* The commands.                                                             *)

(* SaveConfig empties the file and writes it; when the writing fails there   *)
(* is nothing to read. (A file that cannot even be opened is not modelled.)  *)
Save(c) ==
    /\ cfg' = c
    /\ \/ cfgFile' = c /\ saved' = TRUE
       \/ cfgFile' = NoFile /\ saved' = FALSE

(* Every notification command ends by saving what the manager holds.         *)
Keep(n) == /\ nc' = n
           /\ Save([cfg EXCEPT !.notify = ToCfg(n)])
           /\ UNCHANGED <<supported, themeOf, start, lapsed>>

ToggleBell == Keep([nc EXCEPT !.bell = ~@])
ToggleMention == Keep([nc EXCEPT !.mentionOnly = ~@])

(* :notify-desktop and Alt+N                                                 *)
ToggleDesktop == supported /\ Keep([nc EXCEPT !.desktop = ~@])

(* SetMode                                                                   *)
InMode(n, mode) ==
    LET desk == mode \in {"desktop", "both"}
    IN [n EXCEPT !.mode = mode, !.bell = mode \in {"bell", "both"}, !.desktop = desk,
                 !.onAll = @ \/ desk]

(* :notify-mode. Without support "both" is the bell; "desktop" changes       *)
(* nothing and is saved.                                                     *)
NotifyMode(mode) ==
    Keep(IF supported \/ mode \in {"none", "bell"} THEN InMode(nc, mode)
         ELSE IF mode = "both" THEN InMode(nc, "bell") ELSE nc)

(* :quiet, SetQuietHours                                                     *)
Quiet(q) == Keep([nc EXCEPT !.quiet = TRUE, !.from = q[1], !.to = q[2]])

QuietOff == Keep([nc EXCEPT !.quiet = FALSE, !.from = Evening, !.to = Morning])

(* :focus; off is either :focus-off or the end of its time. Not saved.       *)
Focus(on) == /\ nc.focus # on /\ nc' = [nc EXCEPT !.focus = on]
             /\ UNCHANGED <<supported, cfg, cfgFile, themeOf, start, saved, lapsed>>

(* getCurrentProfileName: the first profile that connects as the one in use. *)
(* A start from flags connects as the first profile does.                    *)
First(p) == CHOOSE i \in DOMAIN Profiles :
               /\ Profiles[i] = Profiles[p]
               /\ \A j \in 1..(i - 1) : Profiles[j] # Profiles[p]

(* :theme and, with its updateProfileTheme, Ctrl+T. A failed SaveProfiles is *)
(* taken to leave the file.                                                  *)
SetTheme(t) ==
    /\ Save([cfg EXCEPT !.theme = t])
    /\ \/ /\ themeOf' = [themeOf EXCEPT ![First(IF start > 0 THEN start ELSE 1)] = t]
          /\ lapsed' = FALSE
       \/ themeOf' = themeOf /\ lapsed' = TRUE
    /\ UNCHANGED <<supported, nc, start>>

(* Ctrl+T                                                                    *)
CycleTheme ==
    LET i == CHOOSE j \in DOMAIN Themes : Themes[j] = cfg.theme
    IN SetTheme(Themes[(i % Len(Themes)) + 1])

(* :time and Alt+T; m.twentyFourHour is cfg.clock24.                         *)
ToggleClock == /\ Save([cfg EXCEPT !.clock24 = ~@])
               /\ UNCHANGED <<supported, nc, themeOf, start, lapsed>>

SoundNext ==
    \/ ToggleBell \/ ToggleMention \/ ToggleDesktop \/ QuietOff
    \/ \E mode \in Modes : NotifyMode(mode)
    \/ \E q \in Quiets : Quiet(q)
    \/ \E on \in BOOLEAN : Focus(on)

LookNext ==
    \/ \E t \in DOMAIN Themes : SetTheme(Themes[t])
    \/ CycleTheme \/ ToggleClock

SettingsNext == SoundNext \/ LookNext

-----------------------------------------------------------------------------
(* A program whose last change was saved and that is started again from it   *)
(* rings as before, for every kind of message at every hour, and looks as    *)
(* before: the manager's record, its mirror in the configuration and the     *)
(* file never drift apart, whatever commands came in between and whatever    *)
(* file the program had been started from, and a profile that alone connects *)
(* as it does keeps its theme. The code holds this with the bell on, for a   *)
(* bell that is off is not restored; focus mode is meant to end with the     *)
(* program; and a start with -config reads a file no command writes.         *)
Alone(p) == \A q \in DOMAIN Profiles \ {p} : Profiles[q] # Profiles[p]

Survives ==
    \A how \in Starts : StartSettings(how) =>
        /\ saved /\ how = Flags =>
            /\ cfg' = cfg
            /\ nc.bell /\ ~nc.focus =>
                \A level \in Levels, h \in Hours : Heard(nc', level, h) = Heard(nc, level, h)
        /\ how > 0 /\ how = start /\ Alone(how) /\ ~lapsed => cfg'.theme = cfg.theme

SettingsSurvive == [][Survives]_settingVars
=============================================================================
