------------------------------- MODULE Config -------------------------------
(***************************************************************************)
(* Reading krexo.conf: config_parse of src/common/lib/config.c, the        *)
(* built-in entry that stage2_main uses when there is no file, and its     *)
(* question whether a background image was given.                          *)
(*                                                                         *)
(* A file is its non-empty lines: headers ":name", settings KEY=value and  *)
(* others, which have no effect (comments, unknown keys, lines that begin  *)
(* with a tab).  krexo_config_t is a local of the caller, and config_parse *)
(* leaves some of its fields as it found them: Undefined.                  *)
(***************************************************************************)
EXTENDS Integers, Sequences, FiniteSets

CONSTANTS
  MaxEntries,  \* MAX_CONFIG_ENTRIES, 8
  Files,       \* contents of krexo.conf
  Undefined,   \* a field nobody wrote
  Default,     \* a value that config_parse sets before it reads
  BuiltIn      \* the name and the path of the entry used without a file

GlobalKeys ==
  {"BACKGROUND_COLOR", "MENU_BG", "MENU_BORDER", "MENU_TITLE", "MENU_TEXT",
   "MENU_TEXT_SEL", "MENU_SEL_BG", "MENU_ACCENT", "MENU_HELP", "TIMEOUT",
   "BACKGROUND_IMAGE"}
EntryKeys == {"KERNEL_PATH", "CMDLINE"}

ASSUME ConfigAssumption ==
  /\ MaxEntries \in Nat \ {0}
  /\ \A f \in Files : f \in Seq([kind : {"header"}, name : STRING]
       \cup [kind : {"setting"}, key : GlobalKeys \cup EntryKeys, value : STRING]
       \cup [kind : {"other"}])

VARIABLES
  pc,        \* parse, image, menu
  present,   \* was krexo.conf found?
  file,      \* its lines
  line,      \* the line at hand
  count, entries, settings,   \* krexo_config_t
  current,   \* the entry that settings go to, 0 is NULL
  image      \* background_image_path[0] was not 0

vars == <<pc, present, file, line, count, entries, settings, current, image>>

NewEntry == [field \in {"name"} \cup EntryKeys |-> Undefined]

Init ==
  /\ pc = "open" /\ present \in BOOLEAN
  /\ file \in IF present THEN Files ELSE {<<>>}
  /\ line = 1 /\ count = 0 /\ current = 0
  /\ entries = [e \in 1 .. MaxEntries |-> NewEntry]
  /\ settings = [k \in GlobalKeys |-> Undefined]
  /\ image = FALSE

-----------------------------------------------------------------------------

\* config_parse sets every setting but the path of the background image.
BeginParse ==
  /\ pc = "open" /\ present
  /\ pc' = "parse"
  /\ count' = 0 /\ current' = 0
  /\ settings' = [k \in GlobalKeys |->
                    IF k = "BACKGROUND_IMAGE" THEN settings[k] ELSE Default]
  /\ UNCHANGED <<present, file, line, entries, image>>

\* Without a file only the count, the name and the kernel are set.
UseBuiltIn ==
  /\ pc = "open" /\ ~present
  /\ pc' = "image"
  /\ count' = 1
  /\ entries' = [entries EXCEPT ![1].name = BuiltIn, ![1].KERNEL_PATH = BuiltIn]
  /\ UNCHANGED <<present, file, line, settings, current, image>>

AtLine(kind) == pc = "parse" /\ line <= Len(file) /\ file[line].kind = kind

\* Mutant: a header keeps the settings going to the first entry.
OpenedFirst == 1

\* The entry that the settings behind a header go to.
Opened == count + 1

Header ==
  /\ AtLine("header") /\ count < MaxEntries
  /\ count' = count + 1 /\ current' = Opened
  /\ entries' = [entries EXCEPT ![count + 1].name = file[line].name]
  /\ line' = line + 1
  /\ UNCHANGED <<pc, present, file, settings, image>>

\* The list is full: the line is passed over, current stays.
HeaderFull ==
  /\ AtLine("header") /\ count >= MaxEntries
  /\ line' = line + 1
  /\ UNCHANGED <<pc, present, file, count, entries, settings, current, image>>

\* Mutant: a theme line is only seen before the first entry.
SetAtTop(key, value) ==
  IF current = 0 THEN [settings EXCEPT ![key] = value] ELSE settings

Set(key, value) == [settings EXCEPT ![key] = value]

\* Settings of the menu count wherever they stand, the last one wins.
GlobalSetting ==
  /\ AtLine("setting") /\ file[line].key \in GlobalKeys
  /\ settings' = Set(file[line].key, file[line].value)
  /\ line' = line + 1
  /\ UNCHANGED <<pc, present, file, count, entries, current, image>>

EntrySetting ==
  /\ AtLine("setting") /\ file[line].key \in EntryKeys
  /\ entries' = IF current = 0 THEN entries
                ELSE [entries EXCEPT ![current] =
                        [@ EXCEPT ![file[line].key] = file[line].value]]
  /\ line' = line + 1
  /\ UNCHANGED <<pc, present, file, count, settings, current, image>>

Ignore ==
  /\ AtLine("other")
  /\ line' = line + 1
  /\ UNCHANGED <<pc, present, file, count, entries, settings, current, image>>

EndParse ==
  /\ pc = "parse" /\ line > Len(file)
  /\ pc' = "image"
  /\ UNCHANGED <<present, file, line, count, entries, settings, current, image>>

\* A path nobody wrote is whatever the stack has there.
LookForImage ==
  /\ pc = "image"
  /\ pc' = "menu"
  /\ image' \in IF settings["BACKGROUND_IMAGE"] = Undefined THEN BOOLEAN
                ELSE {TRUE}
  /\ UNCHANGED <<present, file, line, count, entries, settings, current>>

Done == pc = "menu" /\ UNCHANGED vars

Next ==
  \/ BeginParse \/ UseBuiltIn \/ Header \/ HeaderFull \/ GlobalSetting
  \/ EntrySetting \/ Ignore \/ EndParse \/ LookForImage \/ Done

Spec == Init /\ [][Next]_vars

-----------------------------------------------------------------------------
(* Properties *)

\* The lines read so far, and among them the headers.
Read == 1 .. line - 1
Headers == {k \in Read : file[k].kind = "header"}

\* Line k begins the e-th section of the file.
Begins(k, e) ==
  k \in Headers /\ Cardinality({j \in Headers : j <= k}) = e

\* The lines of the e-th section.
Section(e) ==
  {k \in Read : Cardinality({j \in Headers : j <= k}) = e}

\* The value that the last line with the key gives among some lines.
LastValue(key, lines, none) ==
  LET at == {k \in lines : file[k].kind = "setting" /\ file[k].key = key}
  IN IF at = {} THEN none
     ELSE file[CHOOSE k \in at : \A j \in at : j <= k].value

IsSection(e) ==
  /\ \E k \in Section(e) : Begins(k, e) /\ entries[e].name = file[k].name
  /\ \A key \in EntryKeys :
       entries[e][key] = LastValue(key, Section(e), Undefined)

\* At every line each entry of the list is the section of its own number: its
\* name, and the last kernel and command line given under that name and under
\* no other.  When the file has more sections than the list has room for, this
\* still holds for all entries but the last.
EntriesAreSections ==
  present => \A e \in 1 .. count :
    e < MaxEntries \/ Cardinality(Headers) <= MaxEntries => IsSection(e)

\* The menu's settings are the last ones of the whole file, no matter under
\* which entry they stand, and otherwise the defaults.
SettingsAreLast ==
  pc # "open" /\ present => \A key \in GlobalKeys :
    settings[key] = LastValue(key, Read,
                      IF key = "BACKGROUND_IMAGE" THEN Undefined ELSE Default)
=============================================================================
