---------------------------- MODULE ConfigProofs ----------------------------
(***************************************************************************)
(* Proofs about the configuration parser, for every file, every number of  *)
(* lines and sections, and any room in the list of entries.                *)
(*                                                                         *)
(* The lines read so far grow by one at every step.  Three lemmas say what *)
(* that does to the headers, to the sections and to the last value of a    *)
(* key; the invariant adds to the two properties that settings go to the   *)
(* last entry, how many entries there are, and that the others are empty.  *)
(***************************************************************************)
EXTENDS Config, TLAPS, FiniteSetTheorems

Fields == {"name"} \cup EntryKeys
Values == STRING \cup {Undefined, Default, BuiltIn}

\* What a line has, by its kind.
LEMMA LineTypes ==
  ASSUME NEW f \in Files, NEW k \in 1 .. Len(f)
  PROVE  /\ f[k].kind \in {"header", "setting", "other"}
         /\ f[k].kind = "header" => f[k].name \in STRING
         /\ f[k].kind = "setting" =>
              f[k].key \in GlobalKeys \cup EntryKeys /\ f[k].value \in STRING
<1> DEFINE H == [kind : {"header"}, name : STRING]
           S == [kind : {"setting"}, key : GlobalKeys \cup EntryKeys,
                 value : STRING]
           O == [kind : {"other"}]
<1>1. f[k] \in H \cup S \cup O
  BY ConfigAssumption
<1>2. CASE f[k] \in H
  BY <1>2
<1>3. CASE f[k] \in S
  BY <1>3
<1>4. CASE f[k] \in O
  BY <1>4
<1> QED
  BY <1>1, <1>2, <1>3, <1>4

TypeInv ==
  /\ pc \in {"open", "parse", "image", "menu"}
  /\ present \in BOOLEAN
  /\ present => file \in Files
  /\ line \in Nat \ {0}
  /\ count \in 0 .. MaxEntries /\ current \in 0 .. MaxEntries
  /\ entries \in [1 .. MaxEntries -> [Fields -> Values]]
  /\ settings \in [GlobalKeys -> Values]
  /\ pc = "open" =>
       /\ line = 1 /\ count = 0
       /\ entries = [e \in 1 .. MaxEntries |-> NewEntry]
       /\ settings = [k \in GlobalKeys |-> Undefined]
  /\ pc = "parse" => present

LEMMA TypeInvariant == Spec => []TypeInv
<1> USE ConfigAssumption
<1>1. Init => TypeInv
  <2> SUFFICES ASSUME Init PROVE TypeInv
    OBVIOUS
  <2>1. NewEntry \in [Fields -> Values]
    BY DEF NewEntry, Fields, Values
  <2> QED
    BY <2>1 DEF Init, TypeInv, Values
<1>2. ASSUME TypeInv, [Next]_vars
      PROVE  TypeInv'
  <2> USE <1>2
  <2>1. CASE BeginParse
    <3>1. settings' \in [GlobalKeys -> Values]
      BY <2>1 DEF BeginParse, TypeInv, Values
    <3> QED
      BY <2>1, <3>1 DEF BeginParse, TypeInv
  <2>2. CASE UseBuiltIn
    <3>1. entries' \in [1 .. MaxEntries -> [Fields -> Values]]
      BY <2>2 DEF UseBuiltIn, TypeInv, Fields, EntryKeys, Values
    <3> QED
      BY <2>2, <3>1 DEF UseBuiltIn, TypeInv
  <2>3. CASE Header
    <3>1. file[line].name \in Values
      BY SMTT(30), <2>3, LineTypes DEF Header, AtLine, TypeInv, Values
    <3>2. entries' \in [1 .. MaxEntries -> [Fields -> Values]]
      BY <2>3, <3>1 DEF Header, TypeInv, Fields
    <3> QED
      BY <2>3, <3>2 DEF Header, Opened, AtLine, TypeInv
  <2>4. CASE GlobalSetting
    <3>1. file[line].value \in Values
      BY <2>4, LineTypes DEF GlobalSetting, AtLine, TypeInv, Values
    <3>2. settings' \in [GlobalKeys -> Values]
      BY <2>4, <3>1 DEF GlobalSetting, Set, TypeInv
    <3> QED
      BY <2>4, <3>2 DEF GlobalSetting, AtLine, TypeInv
  <2>5. CASE EntrySetting
    <3>1. file[line].value \in Values /\ file[line].key \in Fields
      BY <2>5, LineTypes DEF EntrySetting, AtLine, TypeInv, Values, Fields
    <3>2. entries' \in [1 .. MaxEntries -> [Fields -> Values]]
      BY <2>5, <3>1 DEF EntrySetting, TypeInv
    <3> QED
      BY <2>5, <3>2 DEF EntrySetting, AtLine, TypeInv
  <2>6. CASE HeaderFull \/ Ignore
    BY <2>6 DEF HeaderFull, Ignore, AtLine, TypeInv
  <2>7. CASE EndParse \/ LookForImage
    <3>1. /\ pc' \in {"image", "menu"}
          /\ UNCHANGED <<present, file, line, count, entries, settings, current>>
      BY <2>7 DEF EndParse, LookForImage
    <3> QED
      BY <3>1 DEF TypeInv
  <2>8. CASE UNCHANGED vars
    BY <2>8 DEF vars, TypeInv
  <2> QED
    BY <2>1, <2>2, <2>3, <2>4, <2>5, <2>6, <2>7, <2>8 DEF Next, Done
<1> QED
  BY <1>1, <1>2, PTL DEF Spec

-----------------------------------------------------------------------------
(* One more line. *)

Sets(k, key) == file[k].kind = "setting" /\ file[k].key = key
LastOf(S) == CHOOSE k \in S : \A j \in S : j <= k

\* The last value of a key among some lines and a later one.
LEMMA LastValueAdd ==
  ASSUME NEW lines \in SUBSET Nat, NEW n \in Nat, \A k \in lines : k < n,
         NEW key, NEW none
  PROVE  LastValue(key, lines \cup {n}, none) =
           IF Sets(n, key) THEN file[n].value ELSE LastValue(key, lines, none)
<1> DEFINE at == {k \in lines : Sets(k, key)}
           more == {k \in lines \cup {n} : Sets(k, key)}
<1>1. /\ LastValue(key, lines, none) =
           IF at = {} THEN none ELSE file[LastOf(at)].value
      /\ LastValue(key, lines \cup {n}, none) =
           IF more = {} THEN none ELSE file[LastOf(more)].value
  BY DEF LastValue, LastOf, Sets
<1>2. CASE Sets(n, key)
  <2>1. n \in more /\ \A j \in more : j \in Nat /\ j <= n
    BY <1>2
  <2> HIDE DEF more
  <2>2. \A k \in more : (\A j \in more : j <= k) => k = n
    BY <2>1
  <2>3. LastOf(more) = n
    BY <2>1, <2>2 DEF LastOf
  <2> QED
    BY <1>1, <1>2, <2>1, <2>3
<1>3. CASE ~Sets(n, key)
  <2>1. more = at
    BY <1>3
  <2> QED
    BY <1>1, <1>3, <2>1
<1> QED
  BY <1>2, <1>3

\* The files' lines do not change, and a step reads one line or none.
LEMMA StepReads ==
  ASSUME TypeInv, [Next]_vars
  PROVE  /\ file' = file /\ present' = present
         /\ line' \in {line, line + 1}
         /\ line' = line \/ (pc = "parse" /\ pc' = pc)
  BY DEF Next, BeginParse, UseBuiltIn, Header, HeaderFull, GlobalSetting,
         EntrySetting, Ignore, EndParse, LookForImage, Done, vars, AtLine

LEMMA ReadGrows ==
  ASSUME TypeInv, line' = line + 1
  PROVE  /\ Read' = Read \cup {line}
         /\ Read \in SUBSET Nat /\ line \in Nat
         /\ \A k \in Read : k < line
  BY DEF TypeInv, Read

\* SettingsAreLast, the hazard of settings that count wherever they stand: for
\* every file, each of the menu's settings is what the last of its lines says.
THEOREM SettingsAreTheLast == Spec => []SettingsAreLast
<1>1. Init => SettingsAreLast
  BY DEF Init, SettingsAreLast
<1>2. ASSUME TypeInv, SettingsAreLast, [Next]_vars
      PROVE  SettingsAreLast'
  <2> USE <1>2
  <2>1. file' = file /\ present' = present
    BY StepReads
  <2>2. CASE BeginParse
    <3>1. Read' = {}
      BY <2>2 DEF BeginParse, TypeInv, Read
    <3>2. \A key, none : LastValue(key, {}, none)' = none
      BY DEF LastValue
    <3>3. \A key \in GlobalKeys :
            settings'[key] = IF key = "BACKGROUND_IMAGE" THEN Undefined
                             ELSE Default
      BY <2>2 DEF BeginParse, TypeInv
    <3> QED
      BY <3>1, <3>2, <3>3 DEF SettingsAreLast
  <2>3. CASE /\ line' = line + 1 /\ pc = "parse" /\ pc' = pc /\ present
             /\ \A key \in GlobalKeys : settings'[key] =
                  IF Sets(line, key) THEN file[line].value ELSE settings[key]
    <3>1. ASSUME NEW key \in GlobalKeys, NEW none
          PROVE  LastValue(key, Read, none)' =
                   IF Sets(line, key) THEN file[line].value
                   ELSE LastValue(key, Read, none)
      <4>1. Read' = Read \cup {line}
        BY <2>3, ReadGrows
      <4>2. LastValue(key, Read, none)' = LastValue(key, Read \cup {line}, none)
        BY <2>1, <4>1 DEF LastValue
      <4>3. Read \in SUBSET Nat /\ line \in Nat /\ \A k \in Read : k < line
        BY <2>3, ReadGrows
      <4>4. LastValue(key, Read \cup {line}, none) =
              IF Sets(line, key) THEN file[line].value
              ELSE LastValue(key, Read, none)
        BY <4>3, LastValueAdd
      <4> QED
        BY <4>2, <4>4
    <3> QED
      BY <2>1, <2>3, <3>1 DEF SettingsAreLast
  <2>4. CASE GlobalSetting
    BY <2>4, <2>3 DEF GlobalSetting, Set, Sets, AtLine, TypeInv
  <2>5. CASE EntrySetting
    <3>1. file[line].key \notin GlobalKeys
      BY <2>5 DEF EntrySetting, EntryKeys, GlobalKeys
    <3> QED
      BY <2>5, <2>3, <3>1 DEF EntrySetting, Sets, AtLine, TypeInv
  <2>6. CASE Header \/ HeaderFull \/ Ignore
    BY <2>6, <2>3 DEF Header, HeaderFull, Ignore, Sets, AtLine, TypeInv
  <2>7. CASE EndParse \/ LookForImage \/ UNCHANGED vars
    <3>1. UNCHANGED <<line, settings>> /\ (pc = "open" => pc' = "open")
      BY <2>7 DEF EndParse, LookForImage, vars
    <3>2. \A key, none : LastValue(key, Read, none)' = LastValue(key, Read, none)
      BY <2>1, <3>1 DEF Read, LastValue
    <3> QED
      BY <2>1, <3>1, <3>2 DEF SettingsAreLast
  <2>8. CASE UseBuiltIn
    BY <2>1, <2>8 DEF UseBuiltIn, SettingsAreLast
  <2> QED
    BY <2>2, <2>4, <2>5, <2>6, <2>7, <2>8 DEF Next, Done
<1> QED
  BY <1>1, <1>2, TypeInvariant, PTL DEF Spec

-----------------------------------------------------------------------------
(* Headers and sections. *)

Number(k) == Cardinality({j \in Headers : j <= k})
Total == Cardinality(Headers)

LEMMA HeaderFacts ==
  ASSUME TypeInv
  PROVE  /\ IsFiniteSet(Headers) /\ Total \in Nat
         /\ Headers \subseteq Read /\ Read \subseteq Nat
         /\ \A k \in Read : Number(k) \in Nat /\ Number(k) <= Total
<1>1. IsFiniteSet(Read) /\ Read \subseteq Nat
  BY FS_Interval DEF Read, TypeInv
<1>2. Headers \subseteq Read
  BY DEF Headers
<1>3. IsFiniteSet(Headers)
  BY <1>1, <1>2, FS_Subset
<1>4. \A S \in SUBSET Headers : Cardinality(S) \in Nat /\ Cardinality(S) <= Total
  BY <1>3, FS_Subset, FS_CardinalityType DEF Total
<1>5. Total \in Nat
  BY <1>4 DEF Total
<1>6. \A k \in Read : {j \in Headers : j <= k} \in SUBSET Headers
  OBVIOUS
<1> QED
  BY <1>1, <1>2, <1>3, <1>4, <1>5, <1>6 DEF Number

\* What a line does to the numbers of the headers and to the sections.
LEMMA SectionsGrow ==
  ASSUME TypeInv, file' = file, line' = line + 1, NEW n, n = line
  PROVE  /\ Headers' = IF file[line].kind = "header" THEN Headers \cup {line}
                       ELSE Headers
         /\ Total' = IF file[line].kind = "header" THEN Total + 1 ELSE Total
         /\ \A k \in Read : Number(k)' = Number(k)
         /\ Number(n)' = Total'
         /\ \A e : Section(e)' = IF e = Total' THEN Section(e) \cup {line}
                                 ELSE Section(e)
<1>1. /\ Read' = Read \cup {line} /\ line \in Nat /\ Read \subseteq Nat
      /\ \A k \in Read : k < line
  BY ReadGrows
<1>2. IsFiniteSet(Headers) /\ Headers \subseteq Read /\ line \notin Headers
  BY <1>1, HeaderFacts
<1>3. Headers' = IF file[line].kind = "header" THEN Headers \cup {line}
                 ELSE Headers
  BY <1>1 DEF Headers
<1>4. Total' = IF file[line].kind = "header" THEN Total + 1 ELSE Total
  BY <1>2, <1>3, FS_AddElement DEF Total
<1>5. ASSUME NEW k \in Read
      PROVE  Number(k)' = Number(k)
  <2>1. {j \in Headers' : j <= k} = {j \in Headers : j <= k}
    BY <1>1, <1>3
  <2> QED
    BY <2>1 DEF Number
<1>6. Number(n)' = Total'
  <2>1. \A j \in Headers' : j \in Nat /\ j <= n
    BY <1>1, <1>2, <1>3
  <2>2. {j \in Headers' : j <= n} = Headers'
    BY <2>1
  <2> QED
    BY <2>2 DEF Number, Total
<1>7. ASSUME NEW e
      PROVE  Section(e)' = IF e = Total' THEN Section(e) \cup {line}
                           ELSE Section(e)
  <2>1. /\ Section(e) = {k \in Read : Number(k) = e}
        /\ Section(e)' = {k \in Read \cup {n} : Number(k)' = e}
    BY <1>1 DEF Section, Number
  <2> QED
    BY <1>5, <1>6, <2>1
<1> QED
  BY <1>3, <1>4, <1>5, <1>6, <1>7

\* A section that a line does not belong to stays what it is.
LEMMA OtherSection ==
  ASSUME TypeInv, file' = file, line' = line + 1, NEW e, IsSection(e),
         e # Total', entries'[e] = entries[e]
  PROVE  IsSection(e)'
<1>1. Section(e)' = Section(e)
  BY SectionsGrow
<1>2. \A key : LastValue(key, Section(e), Undefined)' =
                 LastValue(key, Section(e), Undefined)
  BY <1>1 DEF LastValue
<1>3. ASSUME NEW k \in Section(e), Begins(k, e)
      PROVE  Begins(k, e)'
  <2>1. k \in Read /\ k \in Headers /\ Number(k) = e
    BY <1>3 DEF Section, Begins, Number
  <2>2. k \in Headers' /\ Number(k)' = e
    BY <2>1, SectionsGrow
  <2> QED
    BY <2>2 DEF Begins, Number
<1> QED
  BY <1>1, <1>2, <1>3 DEF IsSection

\* A header opens the section of the next number.
LEMMA OpenedSection ==
  ASSUME TypeInv, file' = file, line' = line + 1,
         file[line].kind = "header", NEW e, e = Total', NEW n, n = line,
         entries'[e].name = file[line].name,
         \A key \in EntryKeys : entries'[e][key] = Undefined
  PROVE  IsSection(e)'
<1>1. Section(e) = {}
  <2>1. \A k \in Read : Number(k) \in Nat /\ Number(k) <= Total
    BY HeaderFacts
  <2>2. e = Total + 1 /\ Total \in Nat
    BY SectionsGrow, HeaderFacts
  <2> QED
    BY <2>1, <2>2 DEF Section, Number
<1>2. Section(e)' = {n}
  BY <1>1, SectionsGrow
<1>3. Begins(n, e)'
  <2>1. n \in Headers' /\ Number(n)' = e
    BY SectionsGrow
  <2> QED
    BY <2>1 DEF Begins, Number
<1>4. \A key : LastValue(key, {n}, Undefined)' = Undefined
  BY DEF LastValue
<1> QED
  BY <1>2, <1>3, <1>4 DEF IsSection

\* Any other line belongs to the last section.
LEMMA LastSection ==
  ASSUME TypeInv, file' = file, line' = line + 1,
         file[line].kind # "header", NEW e, e = Total', IsSection(e),
         entries'[e].name = entries[e].name,
         \A key \in EntryKeys : entries'[e][key] =
           IF Sets(line, key) THEN file[line].value ELSE entries[e][key]
  PROVE  IsSection(e)'
<1>1. Section(e)' = Section(e) \cup {line}
  BY SectionsGrow
<1>2. /\ Section(e) \in SUBSET Nat /\ line \in Nat
      /\ \A k \in Section(e) : k < line
  BY ReadGrows DEF Section
<1>3. ASSUME NEW key
      PROVE  LastValue(key, Section(e), Undefined)' =
               IF Sets(line, key) THEN file[line].value
               ELSE LastValue(key, Section(e), Undefined)
  <2>1. LastValue(key, Section(e), Undefined)' =
          LastValue(key, Section(e) \cup {line}, Undefined)
    BY <1>1 DEF LastValue
  <2>2. LastValue(key, Section(e) \cup {line}, Undefined) =
          IF Sets(line, key) THEN file[line].value
          ELSE LastValue(key, Section(e), Undefined)
    <3> DEFINE S == Section(e)
    <3>1. S \in SUBSET Nat /\ line \in Nat /\ \A k \in S : k < line
      BY <1>2
    <3> HIDE DEF S
    <3>2. LastValue(key, S \cup {line}, Undefined) =
            IF Sets(line, key) THEN file[line].value
            ELSE LastValue(key, S, Undefined)
      BY <3>1, LastValueAdd
    <3> QED
      BY <3>2 DEF S
  <2> QED
    BY <2>1, <2>2
<1>4. ASSUME NEW k \in Section(e), Begins(k, e)
      PROVE  Begins(k, e)'
  <2>1. k \in Read /\ k \in Headers /\ Number(k) = e
    BY <1>4 DEF Section, Begins, Number
  <2>2. k \in Headers' /\ Number(k)' = e
    BY <2>1, SectionsGrow
  <2> QED
    BY <2>2 DEF Begins, Number
<1>5. \E k \in Section(e)' :
        Begins(k, e)' /\ entries'[e].name = file'[k].name
  BY <1>1, <1>4 DEF IsSection
<1>6. \A key \in EntryKeys :
        entries'[e][key] = LastValue(key, Section(e), Undefined)'
  BY <1>3 DEF IsSection
<1> QED
  BY <1>5, <1>6 DEF IsSection

-----------------------------------------------------------------------------
(* The list of entries. *)

\* Settings go to the last entry, there is one for each header as long as
\* there is room, and the rest of the list is as it was.
ListInv ==
  present /\ pc # "open" =>
    /\ current = count
    /\ count = IF Total <= MaxEntries THEN Total ELSE MaxEntries
    /\ \A e \in count + 1 .. MaxEntries : entries[e] = NewEntry

LEMMA SectionStep ==
  ASSUME TypeInv, ListInv, EntriesAreSections, [Next]_vars
  PROVE  ListInv' /\ EntriesAreSections'
<1> USE ConfigAssumption
<1>1. file' = file /\ present' = present
  BY StepReads
<1>2. /\ MaxEntries \in Nat \ {0} /\ count \in Nat /\ Total \in Nat
      /\ count <= MaxEntries
  BY HeaderFacts DEF TypeInv
<1>3. CASE ~present
  BY <1>1, <1>3 DEF ListInv, EntriesAreSections
<1>4. CASE BeginParse
  <2>1. Total' = 0
    <3>1. Headers' = {}
      BY <1>4 DEF BeginParse, TypeInv, Headers, Read
    <3> QED
      BY <3>1, FS_EmptySet DEF Total
  <2>2. /\ count' = 0 /\ current' = 0
        /\ \A e \in 1 .. MaxEntries : entries'[e] = NewEntry
    BY <1>4 DEF BeginParse, TypeInv
  <2> QED
    BY <1>2, <2>1, <2>2 DEF ListInv, EntriesAreSections
<1>5. CASE UseBuiltIn
  BY <1>3, <1>5 DEF UseBuiltIn
<1>6. CASE Header /\ present
  <2>1. /\ pc = "parse" /\ pc' = pc /\ line' = line + 1 /\ count < MaxEntries
        /\ file[line].kind = "header" /\ count' = count + 1
        /\ current' = count + 1
        /\ entries' = [entries EXCEPT ![count + 1].name = file[line].name]
    BY <1>6 DEF Header, Opened, AtLine
  <2>2. count = Total /\ Total' = Total + 1
    BY <1>1, <1>2, <1>6, <2>1, SectionsGrow DEF ListInv
  <2>3. /\ \A e \in 1 .. MaxEntries : e # count + 1 => entries'[e] = entries[e]
        /\ entries'[count + 1].name = file[line].name
        /\ \A key \in EntryKeys : entries'[count + 1][key] = Undefined
    <3>1. count + 1 \in 1 .. MaxEntries
      BY <1>2, <2>1
    <3>2. entries[count + 1] = NewEntry
      BY <1>2, <1>6, <2>1, <3>1 DEF ListInv
    <3> QED
      BY <2>1, <3>1, <3>2 DEF TypeInv, NewEntry, EntryKeys, Fields
  <2>4. ListInv'
    BY <1>2, <1>6, <2>1, <2>2, <2>3 DEF ListInv
  <2>5. ASSUME NEW e \in 1 .. count'
        PROVE  IsSection(e)'
    <3>1. CASE e = count + 1
      BY <1>1, <1>2, <2>1, <2>2, <2>3, <3>1, OpenedSection
    <3>2. CASE e # count + 1
      <4>1. e \in 1 .. count /\ e # Total'
        BY <1>2, <2>1, <2>2, <3>2
      <4>2. IsSection(e) /\ entries'[e] = entries[e]
        BY <1>2, <1>6, <2>1, <2>2, <2>3, <3>2, <4>1 DEF EntriesAreSections
      <4> QED
        BY <1>1, <2>1, <4>1, <4>2, OtherSection
    <3> QED
      BY <3>1, <3>2
  <2> QED
    BY <2>4, <2>5 DEF EntriesAreSections
<1>7. CASE HeaderFull /\ present
  <2>1. /\ pc = "parse" /\ pc' = pc /\ line' = line + 1 /\ count >= MaxEntries
        /\ file[line].kind = "header"
        /\ UNCHANGED <<count, current, entries>>
    BY <1>7 DEF HeaderFull, AtLine
  <2>2. Total' = Total + 1 /\ Total' > MaxEntries /\ count = MaxEntries
    BY <1>1, <1>2, <1>7, <2>1, SectionsGrow DEF ListInv
  <2>3. ListInv'
    BY <1>2, <1>7, <2>1, <2>2 DEF ListInv
  <2>4. ASSUME NEW e \in 1 .. count', e < MaxEntries \/ Total' <= MaxEntries
        PROVE  IsSection(e)'
    <3>1. e < MaxEntries /\ e # Total' /\ e \in 1 .. count
      BY <1>2, <2>1, <2>2, <2>4
    <3>2. IsSection(e)
      BY <1>7, <3>1 DEF EntriesAreSections
    <3> QED
      BY <1>1, <2>1, <3>1, <3>2, OtherSection
  <2> QED
    BY <2>3, <2>4 DEF EntriesAreSections, Total
<1>8. CASE (GlobalSetting \/ EntrySetting \/ Ignore) /\ present
  <2>1. /\ pc = "parse" /\ pc' = pc /\ line' = line + 1
        /\ file[line].kind # "header"
        /\ UNCHANGED <<count, current>>
    BY <1>8 DEF GlobalSetting, EntrySetting, Ignore, AtLine
  <2>2. Total' = Total /\ current = count
    BY <1>1, <1>8, <2>1, SectionsGrow DEF ListInv
  <2>3. \A e \in 1 .. MaxEntries :
          IF e = count
            THEN /\ entries'[e].name = entries[e].name
                 /\ \A key \in EntryKeys : entries'[e][key] =
                      IF Sets(line, key) THEN file[line].value
                      ELSE entries[e][key]
            ELSE entries'[e] = entries[e]
    <3>1. CASE EntrySetting
      <4>1. file[line].key \in EntryKeys /\ file[line].kind = "setting"
        BY <3>1 DEF EntrySetting, AtLine
      <4>2. CASE count = 0
        BY <2>2, <3>1, <4>2 DEF EntrySetting
      <4>3. CASE count # 0
        <5>1. entries' = [entries EXCEPT ![count] =
                            [@ EXCEPT ![file[line].key] = file[line].value]]
          BY <2>2, <3>1, <4>3 DEF EntrySetting
        <5> QED
          BY <1>2, <4>1, <5>1 DEF TypeInv, Sets, EntryKeys, Fields
      <4> QED
        BY <4>2, <4>3
    <3>2. CASE GlobalSetting \/ Ignore
      <4>1. entries' = entries /\ \A key \in EntryKeys : ~Sets(line, key)
        BY <3>2 DEF GlobalSetting, Ignore, AtLine, Sets, EntryKeys, GlobalKeys
      <4> QED
        BY <4>1
    <3> QED
      BY <1>8, <3>1, <3>2
  <2>4. ListInv'
    BY <1>2, <1>8, <2>1, <2>2, <2>3 DEF ListInv
  <2>5. ASSUME NEW e \in 1 .. count', e < MaxEntries \/ Total' <= MaxEntries
        PROVE  IsSection(e)'
    <3>1. e \in 1 .. count /\ e \in 1 .. MaxEntries
      BY <1>2, <2>1, <2>5
    <3>2. IsSection(e)
      BY <1>8, <2>2, <2>5, <3>1 DEF EntriesAreSections, Total
    <3>3. CASE e = Total'
      <4>1. e = count
        BY <1>2, <1>8, <2>1, <2>2, <3>1, <3>3 DEF ListInv
      <4> QED
        BY <1>1, <2>1, <2>3, <3>1, <3>2, <3>3, <4>1, LastSection
    <3>4. CASE e # Total'
      <4>1. e # count
        BY <1>2, <1>8, <2>1, <2>2, <2>5, <3>1, <3>4 DEF ListInv
      <4> QED
        BY <1>1, <2>1, <2>3, <3>1, <3>2, <3>4, <4>1, OtherSection
    <3> QED
      BY <3>3, <3>4
  <2> QED
    BY <2>4, <2>5 DEF EntriesAreSections, Total
<1>9. CASE EndParse \/ LookForImage \/ UNCHANGED vars
  <2>1. /\ UNCHANGED <<line, count, entries, current>>
        /\ pc = "open" => pc' = "open"
    BY <1>9 DEF EndParse, LookForImage, vars
  <2>2. Headers' = Headers /\ \A e : IsSection(e)' <=> IsSection(e)
    BY <1>1, <2>1 DEF Headers, Read, IsSection, Begins, Section, LastValue
  <2> QED
    BY <1>1, <2>1, <2>2 DEF ListInv, EntriesAreSections, Total
<1> QED
  BY <1>3, <1>4, <1>5, <1>6, <1>7, <1>8, <1>9 DEF Next, Done

\* EntriesAreSections, the hazard of settings that land in another entry: for
\* every file and any room, entry e of the menu is the e-th section, with its
\* name and the last kernel and command line given there; only the last entry
\* of a full list may have taken settings of a section without room.
THEOREM SectionsBecomeEntries == Spec => []EntriesAreSections
<1>1. Init => ListInv /\ EntriesAreSections
  BY DEF Init, ListInv, EntriesAreSections
<1> QED
  BY <1>1, SectionStep, TypeInvariant, PTL DEF Spec
=============================================================================
