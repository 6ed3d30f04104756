---------------------------- MODULE ManageProofs ----------------------------
(***************************************************************************)
(* Safety of the interactive manager, for every set of mods, versions and  *)
(* dependencies and any number of edits, background tasks and faults.      *)
(***************************************************************************)
EXTENDS Manage, TLAPS

Fields == {"source", "version", "env", "description", "categories"}

FieldValues(f) ==
  IF f = "source" THEN Sources ELSE IF f = "version" THEN Versions ELSE Values

Edited(r, f, v) == [r EXCEPT ![f] = v]

EditedAt(T, m, f, v) == [T EXCEPT ![m][f] = v]

\* What TypeOK says of the records in memory and on disk.
DataOK ==
  /\ DOMAIN mods \subseteq Mods
  /\ mods \in [DOMAIN mods -> Records]
  /\ DOMAIN disk \subseteq Items
  /\ disk \in [DOMAIN disk -> Records]
  /\ edits \in 0..MaxEdits
  /\ spoiled \subseteq Mods
  /\ agreed \subseteq Items

\* The mods whose entry nothing but their own dialogs may touch.
Kempt == DOMAIN mods \ (spoiled \cup agreed)

\* A fetch that is outstanding is the only one, and is the one the version
\* dialog waits for.
FetchInv ==
  /\ pending = "FetchVersions" => mode = "EditVersion"
  /\ loading => mode = "EditVersion"
  /\ \A t \in tasks : t.op = "FetchVersions" =>
       /\ loading
       /\ t.mod = selected
       /\ \A u \in tasks : u.op = "FetchVersions" => u = t

\* What an install adds has no dependencies yet, and what it saves without
\* another question is not the entry of a mod on the list, unless the user let
\* it be replaced.
AddInv(a) ==
  /\ a.prompt # "update" => a.record.deps = {}
  /\ a.prompt = "none" => a.slug \notin Kempt

InstallInv == \A t \in tasks : \A a \in t.adding : AddInv(a)

IInv ==
  TypeOK /\ SelectionLive /\ ShownIsSaved /\ FetchInv /\ VersionsBelong /\ InstallInv

-----------------------------------------------------------------------------
(* Records *)

\* Editing one field of a record leaves a record, and the other fields.
LEMMA EditedRecord ==
  ASSUME NEW r \in Records, NEW f \in Fields, NEW v \in FieldValues(f)
  PROVE  /\ Edited(r, f, v) \in Records
         /\ Edited(r, f, v).deps = r.deps
         /\ \A g \in Fields : Edited(r, f, v)[g] = IF g = f THEN v ELSE r[g]
<1>1. CASE f = "version"
  BY <1>1 DEF Records, FieldValues, Fields, Edited
<1>2. CASE f = "env"
  BY <1>2 DEF Records, FieldValues, Fields, Edited
<1>3. CASE f = "description"
  BY <1>3 DEF Records, FieldValues, Fields, Edited
<1>4. CASE f = "categories"
  BY <1>4 DEF Records, FieldValues, Fields, Edited
<1>5. CASE f = "source"
  BY <1>5 DEF Records, FieldValues, Fields, Edited
<1>6. QED BY <1>1, <1>2, <1>3, <1>4, <1>5 DEF Fields

\* The fields of a record have values of their kind.
LEMMA RecordFields ==
  ASSUME NEW r \in Records
  PROVE  /\ \A f \in Fields : r[f] \in FieldValues(f)
         /\ r.source = r["source"]
         /\ r.version = r["version"]
         /\ r.categories = r["categories"]
         /\ r.deps \subseteq Edges
BY DEF Records, Fields, FieldValues

\* Editing one field of one record of a table.
LEMMA EditedTable ==
  ASSUME NEW T, T \in [DOMAIN T -> Records],
         NEW m \in DOMAIN T, NEW f \in Fields, NEW v \in FieldValues(f)
  PROVE  /\ DOMAIN EditedAt(T, m, f, v) = DOMAIN T
         /\ EditedAt(T, m, f, v) \in [DOMAIN T -> Records]
         /\ \A n \in DOMAIN T :
              /\ EditedAt(T, m, f, v)[n].deps = T[n].deps
              /\ \A g \in Fields : EditedAt(T, m, f, v)[n][g] =
                   IF n = m /\ g = f THEN v ELSE T[n][g]
<1>1. EditedAt(T, m, f, v) = [T EXCEPT ![m] = Edited(T[m], f, v)]
  BY DEF Edited, EditedAt
<1>2. T[m] \in Records
  OBVIOUS
<1>3. /\ Edited(T[m], f, v) \in Records
      /\ Edited(T[m], f, v).deps = T[m].deps
      /\ \A g \in Fields :
           Edited(T[m], f, v)[g] = IF g = f THEN v ELSE T[m][g]
  BY <1>2, EditedRecord
<1>4. QED BY <1>1, <1>3

\* What saving one field of the selected mod does to memory and disk.
LEMMA SaveStep ==
  ASSUME DataOK, ShownIsSaved, ManageAssumption, selected \in DOMAIN mods,
         NEW f \in Fields, NEW v \in FieldValues(f), Save(f, v)
  PROVE  /\ DataOK'
         /\ DOMAIN mods' = DOMAIN mods
         /\ DOMAIN disk' = DOMAIN disk
         /\ spoiled \subseteq spoiled'
         /\ UNCHANGED agreed
         /\ \A m \in DOMAIN disk : disk'[m].deps = disk[m].deps
         /\ \A m \in DOMAIN disk, g \in Fields :
              m # selected \/ g # f => disk'[m][g] = disk[m][g]
         /\ \A m \in Kempt', g \in Fields :
              mods'[m][g] = disk'[m][g]
                \/ (mods'[m][g] = mods[m][g] /\ disk'[m][g] = disk[m][g])
<1>1. /\ DOMAIN mods' = DOMAIN mods
      /\ mods' \in [DOMAIN mods -> Records]
      /\ \A n \in DOMAIN mods, g \in Fields : mods'[n][g] =
           IF n = selected /\ g = f THEN v ELSE mods[n][g]
  <2>1. mods \in [DOMAIN mods -> Records] /\ mods' = EditedAt(mods, selected, f, v)
    BY DEF Save, DataOK, EditedAt
  <2>2. QED BY <2>1, EditedTable
<1>2. CASE /\ selected \in DOMAIN disk
           /\ disk' = [disk EXCEPT ![selected][f] = v]
           /\ UNCHANGED spoiled
  <2>1. /\ DOMAIN disk' = DOMAIN disk
        /\ disk' \in [DOMAIN disk -> Records]
        /\ \A n \in DOMAIN disk :
             /\ disk'[n].deps = disk[n].deps
             /\ \A g \in Fields : disk'[n][g] =
                  IF n = selected /\ g = f THEN v ELSE disk[n][g]
    <3>1. disk \in [DOMAIN disk -> Records] /\ disk' = EditedAt(disk, selected, f, v)
      BY <1>2 DEF DataOK, EditedAt
    <3>2. selected \in DOMAIN disk
      BY <1>2
    <3>3. QED BY <3>1, <3>2, EditedTable
  <2>2. DataOK'
    BY <1>1, <1>2, <2>1 DEF DataOK, Save, ManageAssumption
  <2>3. \A m \in Kempt : m \in DOMAIN disk
    BY DEF ShownIsSaved, Kempt
  <2>4. QED BY <1>1, <1>2, <2>1, <2>2, <2>3 DEF Kempt, Save
<1>3. CASE disk' = disk /\ Fault
  <2>1. spoiled' = spoiled \cup {selected}
    BY <1>3 DEF Fault
  <2>2. DataOK'
    BY <1>1, <1>3, <2>1 DEF DataOK, Save, ManageAssumption
  <2>3. QED BY <1>1, <1>3, <2>1, <2>2 DEF Kempt, Save
<1>4. QED BY <1>2, <1>3 DEF Save

ScreenOK ==
  /\ selected \in Mods \cup {NoItem}
  /\ mode \in {"List", "Detail", "EditEnv", "EditVersion", "EditDescription",
               "EditCategories", "DepTree", "InstallDeps", "InstallProgress",
               "RemoveConfirm", "UpdateCheck"}
  /\ versions \subseteq Mods \X Versions
  /\ update \in (Mods \X Versions) \cup {NoUpdate}
  /\ {loading, installing, on} \subseteq BOOLEAN
  /\ pending \in Ops \cup {NoOp}
  /\ marked \subseteq Ids(missing)
  /\ missing \subseteq Edges
  /\ tasks \subseteq Tasks
  /\ spawned \in 0..MaxTasks

LEMMA TypeParts == TypeOK <=> DataOK /\ ScreenOK
BY DEF TypeOK, DataOK, ScreenOK

\* What no step does to the records.
DataStep ==
  /\ DataOK'
  /\ ShownIsSaved'
  /\ spoiled \subseteq spoiled' /\ agreed \subseteq agreed'
  /\ DOMAIN mods' \subseteq DOMAIN mods
  /\ \A m \in (DOMAIN disk \cap DOMAIN disk') \ agreed' :
       disk'[m].deps \subseteq disk[m].deps
  /\ \A m \in ((DOMAIN mods \ spoiled) \cap DOMAIN disk \cap DOMAIN disk') \ agreed' :
       /\ disk'[m].source = disk[m].source
       /\ disk'[m].version # disk[m].version =>
            m = selected /\ mode \in {"EditVersion", "UpdateCheck"}

LEMMA DataRests ==
  ASSUME TypeOK, ShownIsSaved, UNCHANGED data,
         (UNCHANGED <<selected, mode>>) \/ mode # "EditCategories"
  PROVE  DataStep
BY DEF TypeOK, DataOK, ShownIsSaved, DataStep, data

LEMMA DataSaved ==
  ASSUME TypeOK, ShownIsSaved, ManageAssumption, selected \in DOMAIN mods,
         mode # "EditCategories",
         NEW f \in Fields, NEW v \in FieldValues(f), Save(f, v),
         f # "source", f = "version" => mode \in {"EditVersion", "UpdateCheck"}
  PROVE  DataStep
<1>1. DataOK
  BY TypeParts
<1>2. /\ DataOK'
      /\ DOMAIN mods' = DOMAIN mods
      /\ DOMAIN disk' = DOMAIN disk
      /\ spoiled \subseteq spoiled' /\ UNCHANGED agreed
      /\ \A m \in DOMAIN disk : disk'[m].deps = disk[m].deps
      /\ \A m \in DOMAIN disk, g \in Fields :
           m # selected \/ g # f => disk'[m][g] = disk[m][g]
      /\ \A m \in Kempt', g \in Fields :
           mods'[m][g] = disk'[m][g]
             \/ (mods'[m][g] = mods[m][g] /\ disk'[m][g] = disk[m][g])
  BY <1>1, SaveStep
<1>3. \A m \in Kempt :
        m \in DOMAIN disk /\ \A g \in Fields : mods[m][g] = disk[m][g]
  BY RecordFields, <1>1 DEF ShownIsSaved, Fields, DataOK, Kempt
<1>4. \A m \in Kempt' :
        m \in DOMAIN disk' /\ \A g \in Fields : mods'[m][g] = disk'[m][g]
  BY <1>2, <1>3 DEF Kempt
<1>5. ShownIsSaved'
  <2>1. \A m \in Kempt' :
          mods'[m].categories = mods'[m]["categories"]
            /\ disk'[m].categories = disk'[m]["categories"]
    BY <1>2, <1>4, RecordFields DEF DataOK, Kempt
  <2>2. QED BY <1>4, <2>1 DEF ShownIsSaved, Fields, Kempt
<1>6. \A m \in DOMAIN disk' : disk'[m].version = disk'[m]["version"]
                            /\ disk[m].version = disk[m]["version"]
                            /\ disk'[m].source = disk'[m]["source"]
                            /\ disk[m].source = disk[m]["source"]
  BY <1>1, <1>2, RecordFields DEF DataOK
<1>7. \A m \in DOMAIN disk' :
        /\ disk'[m].source = disk[m].source
        /\ disk'[m].version # disk[m].version => m = selected /\ f = "version"
  BY <1>2, <1>6 DEF Fields
<1>8. QED BY <1>2, <1>5, <1>7 DEF DataStep

\* Categories are edited in memory while their dialog is open.
LEMMA DataToggled ==
  ASSUME TypeOK, SelectionLive, ShownIsSaved, ManageAssumption, ToggleCategory
  PROVE  DataStep
<1>1. DataOK /\ selected \in DOMAIN mods
  BY TypeParts DEF ToggleCategory, In, SelectionLive
<1>2. PICK x \in Values : mods' = EditedAt(mods, selected, "categories", x)
  BY DEF ToggleCategory, EditedAt
<1>3. x \in FieldValues("categories") /\ "categories" \in Fields
  BY DEF FieldValues, Fields
<1>4. /\ DOMAIN mods' = DOMAIN mods
      /\ mods' \in [DOMAIN mods -> Records]
      /\ \A n \in DOMAIN mods :
           /\ mods'[n].deps = mods[n].deps
           /\ \A g \in Fields : mods'[n][g] =
                IF n = selected /\ g = "categories" THEN x ELSE mods[n][g]
  <2>1. mods \in [DOMAIN mods -> Records]
    BY <1>1 DEF DataOK
  <2>2. QED BY <1>1, <1>2, <1>3, <2>1, EditedTable
<1>5. UNCHANGED <<disk, spoiled, agreed, selected, mode>> /\ mode = "EditCategories"
  BY DEF ToggleCategory, In
<1>6. DataOK'
  BY <1>1, <1>4, <1>5 DEF DataOK, ToggleCategory, ManageAssumption
<1>7. \A m \in DOMAIN mods : mods'[m].categories = mods'[m]["categories"]
                           /\ mods[m].categories = mods[m]["categories"]
  BY <1>1, <1>4, RecordFields DEF DataOK
<1>8. ShownIsSaved'
  BY <1>4, <1>5, <1>7 DEF ShownIsSaved, Fields
<1>9. QED BY <1>4, <1>5, <1>6, <1>8 DEF DataStep

\* Closing that dialog writes them to the entry.
LEMMA DataCategories ==
  ASSUME TypeOK, SelectionLive, ShownIsSaved, ManageAssumption, ConfirmCategories
  PROVE  DataStep
<1>1. DataOK /\ selected \in DOMAIN mods
  BY TypeParts DEF ConfirmCategories, In, SelectionLive
<1>2. /\ UNCHANGED <<mods, agreed, edits, selected>>
      /\ mode = "EditCategories"
      /\ mode' = "Detail"
  BY DEF ConfirmCategories, In, Goto
<1> DEFINE x == mods[selected].categories
<1>3. /\ x \in FieldValues("categories")
      /\ "categories" \in Fields
      /\ \A m \in DOMAIN mods : mods[m].categories = mods[m]["categories"]
  BY <1>1, RecordFields DEF DataOK, Fields
<1>4. CASE /\ selected \in DOMAIN disk
           /\ disk' = [disk EXCEPT ![selected].categories = x]
           /\ UNCHANGED spoiled
  <2>1. disk' = EditedAt(disk, selected, "categories", x)
    BY <1>4 DEF EditedAt
  <2>2. disk \in [DOMAIN disk -> Records] /\ selected \in DOMAIN disk
    BY <1>1, <1>4 DEF DataOK
  <2> HIDE DEF x
  <2>3. /\ DOMAIN disk' = DOMAIN disk
        /\ disk' \in [DOMAIN disk -> Records]
        /\ \A n \in DOMAIN disk :
             /\ disk'[n].deps = disk[n].deps
             /\ \A g \in Fields : disk'[n][g] =
                  IF n = selected /\ g = "categories" THEN x ELSE disk[n][g]
    BY <1>3, <2>1, <2>2, EditedTable
  <2>4. DataOK'
    BY <1>1, <1>2, <1>4, <2>3 DEF DataOK
  <2>5. \A m \in DOMAIN disk : /\ disk'[m].categories = disk'[m]["categories"]
                             /\ disk[m].categories = disk[m]["categories"]
                             /\ disk'[m].version = disk'[m]["version"]
                             /\ disk[m].version = disk[m]["version"]
                             /\ disk'[m].source = disk'[m]["source"]
                             /\ disk[m].source = disk[m]["source"]
    BY <1>1, <2>3, RecordFields DEF DataOK
  <2>6. ShownIsSaved'
    <3>1. x = mods[selected]["categories"]
      BY <1>1, <1>3 DEF x
    <3>2. QED BY <1>2, <1>3, <1>4, <2>3, <2>5, <3>1 DEF ShownIsSaved, Fields
  <2>7. \A m \in DOMAIN disk :
          disk'[m].version = disk[m].version /\ disk'[m].source = disk[m].source
    BY <2>3, <2>5 DEF Fields
  <2>8. QED BY <1>2, <1>4, <2>3, <2>4, <2>6, <2>7 DEF DataStep
<1>5. CASE disk' = disk /\ Fault
  <2>1. spoiled' = spoiled \cup {selected}
    BY <1>5 DEF Fault
  <2>2. DataOK' /\ ShownIsSaved'
    BY <1>1, <1>2, <1>5, <2>1 DEF DataOK, ShownIsSaved
  <2>3. QED BY <1>2, <1>5, <2>1, <2>2 DEF DataStep
<1>6. QED BY <1>4, <1>5 DEF ConfirmCategories

\* A removal takes the mod off the list and the disk, or spoils it.
LEMMA DataRemoved ==
  ASSUME TypeOK, SelectionLive, ShownIsSaved, ManageAssumption, ConfirmRemove
  PROVE  DataStep
<1>1. DataOK /\ selected \in DOMAIN mods /\ UNCHANGED <<agreed, edits>>
  BY TypeParts DEF ConfirmRemove, In, SelectionLive
<1>2. mode = "RemoveConfirm" /\ mode' # "EditCategories"
  BY DEF ConfirmRemove, In, Goto
<1>3. ASSUME NEW cleaned \in SUBSET (DOMAIN disk \ {selected}),
             disk' = [m \in DOMAIN disk \ {selected} |->
               IF m \in cleaned THEN [disk[m] EXCEPT !.deps = Kept(@)]
                                ELSE disk[m]],
             mods' = [m \in DOMAIN mods \ {selected} |-> mods[m]],
             UNCHANGED spoiled
      PROVE  DataStep
  <2>1. \A r \in Records :
          LET e == [r EXCEPT !.deps = Kept(@)]
          IN  /\ e \in Records
              /\ e.deps \subseteq r.deps
              /\ e.source = r.source /\ e.version = r.version /\ e.env = r.env
              /\ e.description = r.description /\ e.categories = r.categories
    <3>1. \A S : Kept(S) \subseteq S
      BY DEF Kept
    <3>2. QED BY <3>1 DEF Records
  <2>2. /\ DOMAIN disk' = DOMAIN disk \ {selected}
        /\ DOMAIN mods' = DOMAIN mods \ {selected}
        /\ \A m \in DOMAIN mods' : mods'[m] = mods[m]
    BY <1>3
  <2>3. \A m \in DOMAIN disk' :
          /\ disk'[m] \in Records
          /\ disk'[m].deps \subseteq disk[m].deps
          /\ disk'[m].source = disk[m].source
          /\ disk'[m].version = disk[m].version /\ disk'[m].env = disk[m].env
          /\ disk'[m].description = disk[m].description
          /\ disk'[m].categories = disk[m].categories
    BY <1>1, <1>3, <2>1, <2>2 DEF DataOK
  <2>4. \A m \in DOMAIN disk \cup DOMAIN mods,
           f \in {"source", "version", "env", "description"} :
          /\ m \in DOMAIN disk => disk[m][f] = IF f = "version" THEN disk[m].version
               ELSE IF f = "source" THEN disk[m].source
               ELSE IF f = "env" THEN disk[m].env ELSE disk[m].description
          /\ m \in DOMAIN disk' => disk'[m][f] = IF f = "version" THEN disk'[m].version
               ELSE IF f = "source" THEN disk'[m].source
               ELSE IF f = "env" THEN disk'[m].env ELSE disk'[m].description
    BY <1>1, <2>2, <2>3 DEF DataOK, Records
  <2>5. ShownIsSaved'
    BY <1>1, <1>2, <1>3, <2>2, <2>3, <2>4 DEF ShownIsSaved
  <2>6. DataOK'
    <3>1. disk' \in [DOMAIN disk' -> Records]
      BY <1>3, <2>2, <2>3
    <3>2. mods' \in [DOMAIN mods' -> Records]
      BY <1>1, <1>3, <2>2 DEF DataOK
    <3>3. QED BY <1>1, <1>3, <2>2, <3>1, <3>2 DEF DataOK
  <2>7. QED BY <1>1, <1>3, <2>2, <2>3, <2>5, <2>6 DEF DataStep
<1>4. ASSUME disk' = disk \/ disk' = [m \in DOMAIN disk \ {selected} |-> disk[m]],
             spoiled' = spoiled \cup {selected}, UNCHANGED mods
      PROVE  DataStep
  <2>1. /\ DOMAIN disk' \subseteq DOMAIN disk
        /\ DOMAIN disk \subseteq DOMAIN disk' \cup {selected}
        /\ \A m \in DOMAIN disk' : disk'[m] = disk[m]
        /\ disk' \in [DOMAIN disk' -> Records]
    BY <1>1, <1>4 DEF DataOK
  <2>2. ShownIsSaved'
    BY <1>1, <1>2, <1>4, <2>1 DEF ShownIsSaved
  <2>3. DataOK'
    BY <1>1, <1>4, <2>1 DEF DataOK
  <2>4. QED BY <1>1, <1>4, <2>1, <2>2, <2>3 DEF DataStep
<1>5. QED BY <1>3, <1>4 DEF ConfirmRemove, Fault

\* An install touches one entry: a mod's on the list only after a yes.
LEMMA DataInstalled ==
  ASSUME TypeOK, ShownIsSaved, InstallInv, ManageAssumption,
         NEW t \in tasks, NEW a \in t.adding, Answer(t, a) \/ EndAdd(t, a)
  PROVE  DataStep
<1> DEFINE d == a.slug
<1>1. DataOK /\ UNCHANGED <<mods, spoiled, edits, selected, mode>>
  BY TypeParts DEF Answer, EndAdd
<1>2. d \in Items /\ a.record \in Records
  BY DEF TypeOK, Tasks, Adds
<1>3. /\ agreed \subseteq agreed' /\ agreed' \subseteq Items
      /\ disk' # disk => d \in agreed' \/ (d \notin Kempt /\ UNCHANGED agreed
                                             /\ a.record.deps = {})
      /\ \/ disk' = disk \/ disk' = Stored(d, a.record)
         \/ d \in agreed' /\ disk' = [m \in DOMAIN disk \ {d} |-> disk[m]]
  <2>1. agreed \subseteq Items
    BY <1>1 DEF DataOK
  <2>2. CASE Answer(t, a)
    BY <1>2, <2>1, <2>2 DEF Answer
  <2>3. CASE EndAdd(t, a)
    BY <2>1, <2>3 DEF EndAdd, InstallInv, AddInv
  <2>4. QED BY <2>2, <2>3
<1> DEFINE Local == /\ DOMAIN disk' \subseteq Items
                    /\ disk' \in [DOMAIN disk' -> Records]
                    /\ \A m \in DOMAIN disk \ {d} : m \in DOMAIN disk' /\ disk'[m] = disk[m]
                    /\ \A m \in DOMAIN disk' \ {d} : m \in DOMAIN disk
                    /\ disk' = disk \/ d \notin DOMAIN disk' \/ disk'[d] = a.record
<1>4. Local
  <2>1. CASE disk' = disk
    BY <1>1, <2>1 DEF DataOK
  <2>2. CASE disk' = Stored(d, a.record)
    BY <1>1, <1>2, <2>2 DEF DataOK, Stored
  <2>3. CASE disk' = [m \in DOMAIN disk \ {d} |-> disk[m]]
    BY <1>1, <2>3 DEF DataOK
  <2>4. QED BY <1>3, <2>1, <2>2, <2>3
<1> HIDE DEF d
<1>5. DataOK'
  BY <1>1, <1>3, <1>4 DEF DataOK
<1>6. \A m \in Kempt' : m \in DOMAIN disk /\ m \in DOMAIN disk' /\ disk'[m] = disk[m]
  <2>1. Kempt' \subseteq Kempt
    BY <1>1, <1>3 DEF Kempt
  <2>2. \A m \in Kempt : m \in DOMAIN disk
    BY DEF ShownIsSaved, Kempt
  <2>3. disk' # disk => d \notin Kempt'
    BY <1>3, <2>1 DEF Kempt
  <2>4. QED BY <1>4, <2>1, <2>2, <2>3
<1>7. ShownIsSaved'
  BY <1>1, <1>3, <1>6 DEF ShownIsSaved, Kempt
<1>8. \A m \in (DOMAIN disk \cap DOMAIN disk') \ agreed' :
        disk'[m].deps \subseteq disk[m].deps
  <2>1. \A m \in (DOMAIN disk \cap DOMAIN disk') \ agreed' :
          disk'[m] = disk[m] \/ (disk'[m] = a.record /\ a.record.deps = {})
    BY <1>3, <1>4
  <2>2. QED BY <2>1
<1>9. \A m \in ((DOMAIN mods \ spoiled) \cap DOMAIN disk \cap DOMAIN disk') \ agreed' :
        disk'[m] = disk[m]
  BY <1>1, <1>6 DEF Kempt
<1> HIDE DEF Local
<1>10. QED BY <1>1, <1>3, <1>5, <1>7, <1>8, <1>9 DEF DataStep

LEMMA NextData ==
  ASSUME TypeOK, SelectionLive, ShownIsSaved, InstallInv, ManageAssumption, Next
  PROVE  DataStep
<1>1. mode # "List" => selected \in DOMAIN mods
  BY DEF SelectionLive
<1>2. CASE ConfirmText
  <2>1. /\ "env" \in Fields /\ "description" \in Fields
        /\ FieldValues("env") = Values /\ FieldValues("description") = Values
    BY DEF Fields, FieldValues
  <2>2. mode # "EditCategories" /\ selected \in DOMAIN mods
    BY <1>1, <1>2 DEF ConfirmText, In
  <2>3. PICK f \in {"env", "description"}, x \in Values : Save(f, x)
    BY <1>2 DEF ConfirmText
  <2>4. f \in Fields /\ x \in FieldValues(f) /\ f # "version" /\ f # "source"
    BY <2>1, <2>3
  <2>5. QED BY <2>2, <2>3, <2>4, DataSaved
<1>3. CASE ToggleCategory
  BY <1>3, DataToggled
<1>4. CASE ConfirmCategories
  BY <1>4, DataCategories
<1>5. CASE ConfirmVersion
  <2>1. mode = "EditVersion" /\ selected \in DOMAIN mods
    BY <1>1, <1>5 DEF ConfirmVersion, In
  <2>2. CASE versions = {} /\ UNCHANGED data
    BY <2>1, <2>2, DataRests
  <2>3. ASSUME NEW p \in versions, Save("version", p[2])
        PROVE  DataStep
    <3>1. p[2] \in FieldValues("version") /\ "version" \in Fields /\ "version" # "source"
      BY <2>3 DEF FieldValues, Fields, TypeOK
    <3>2. QED BY <2>1, <2>3, <3>1, DataSaved
  <2>4. QED BY <1>5, <2>2, <2>3 DEF ConfirmVersion
<1>6. CASE ApplyUpdate
  <2>1. mode = "UpdateCheck" /\ selected \in DOMAIN mods /\ Save("version", update[2])
    BY <1>1, <1>6 DEF ApplyUpdate, In
  <2>2. update[2] \in FieldValues("version") /\ "version" \in Fields /\ "version" # "source"
    BY <1>6 DEF ApplyUpdate, FieldValues, Fields, TypeOK
  <2>3. QED BY <2>1, <2>2, DataSaved
<1>7. CASE ConfirmRemove
  BY <1>7, DataRemoved
<1>8. CASE \/ Select \/ ToDetail \/ ToList \/ Quit
           \/ \E place \in {"EditEnv", "EditDescription", "EditCategories",
                            "RemoveConfirm"} : OpenPlain(place)
           \/ OpenVersions \/ OpenUpdate \/ OpenTree \/ OpenInstall
           \/ Close \/ CloseTree \/ CloseVersions \/ CloseUpdate \/ LeaveUpdate
           \/ CloseInstall \/ ToggleMark \/ Install
  <2>1. UNCHANGED data /\ mode # "EditCategories"
    BY <1>8 DEF Select, ToDetail, ToList, Quit, OpenPlain, OpenVersions,
      OpenUpdate, OpenTree, OpenInstall, Close, CloseTree, CloseVersions,
      CloseUpdate, LeaveUpdate, CloseInstall, ToggleMark, Install, In
  <2>2. QED BY <2>1, DataRests
<1>9. ASSUME NEW t \in tasks, Progress(t) \/ \E a \in t.adding : Answer(t, a)
      PROVE  DataStep
  <2>1. CASE \E a \in t.adding : Answer(t, a) \/ EndAdd(t, a)
    BY <2>1, DataInstalled
  <2>2. CASE \/ HearVersions(t) \/ HearUpdate(t) \/ HearInstall(t)
             \/ \E e \in t.todo : BeginAdd(t, e)
    <3>1. UNCHANGED data /\ (UNCHANGED <<selected, mode>> \/ mode # "EditCategories")
      BY <2>2 DEF HearVersions, HearUpdate, HearInstall, Take, BeginAdd
    <3>2. QED BY <3>1, DataRests
  <2>3. QED BY <1>9, <2>1, <2>2 DEF Progress
<1>10. QED BY <1>2, <1>3, <1>4, <1>5, <1>6, <1>7, <1>8, <1>9 DEF Next, Key

-----------------------------------------------------------------------------
(* The screens and the tasks *)

\* A task that is spawned.
LEMMA Spawned ==
  ASSUME TypeOK, SelectionLive, ManageAssumption, selected # NoItem,
         NEW op \in Ops, NEW ready \in BOOLEAN, NEW todo \in SUBSET Edges,
         Spawn(op, ready, todo)
  PROVE  /\ tasks' \subseteq Tasks
         /\ spawned' \in 0..MaxTasks
         /\ \A t \in tasks' : t \in tasks \/
              (pending' = op /\ t.op = op /\ t.mod = selected /\ t.adding = {}
                 /\ tasks' = tasks \cup {t})
<1>1. selected \in DOMAIN mods /\ selected \in Mods /\ mods[selected].version \in Versions
  BY DEF SelectionLive, TypeOK, Records
<1>2. CASE UNCHANGED work
  BY <1>2 DEF work, TypeOK
<1>3. CASE pending' = op /\ ready
  <2> DEFINE t == [id |-> spawned', op |-> op, mod |-> selected,
                   current |-> mods[selected].version,
                   asked |-> Ids(todo), todo |-> todo, adding |-> {},
                   failed |-> FALSE]
  <2>1. spawned < MaxTasks /\ spawned' = spawned + 1 /\ tasks' = tasks \cup {t}
    BY <1>3 DEF Spawn
  <2>2. spawned' \in 1..MaxTasks
    BY <2>1 DEF TypeOK, ManageAssumption
  <2>3. t \in Tasks
    <3>1. Ids(todo) \subseteq Items
      BY DEF Ids, Edges
    <3>2. QED BY <1>1, <2>2, <3>1 DEF Tasks
  <2>4. t.op = op /\ t.mod = selected /\ t.adding = {}
    OBVIOUS
  <2> HIDE DEF t
  <2>5. tasks \subseteq Tasks /\ spawned' \in 0..MaxTasks
    BY <2>2 DEF TypeOK
  <2>6. QED BY <1>3, <2>1, <2>3, <2>4, <2>5
<1>4. QED BY <1>2, <1>3 DEF Spawn

ScreenStep ==
  ScreenOK' /\ SelectionLive' /\ FetchInv' /\ VersionsBelong' /\ InstallInv'

\* Keys that leave the records, the tasks and the dependency lists alone.
LEMMA ScreenPlain ==
  ASSUME IInv, ManageAssumption,
         \/ Select \/ ToDetail \/ ToList
         \/ \E place \in {"EditEnv", "EditDescription", "EditCategories",
                          "RemoveConfirm"} : OpenPlain(place)
         \/ Close \/ CloseVersions \/ CloseUpdate \/ LeaveUpdate \/ CloseInstall
  PROVE  ScreenStep
<1>1. UNCHANGED <<data, install, work, on>>
  BY DEF Select, ToDetail, ToList, OpenPlain, Close, CloseVersions, CloseUpdate,
    LeaveUpdate, CloseInstall
<1>2. /\ ScreenOK /\ SelectionLive /\ FetchInv /\ VersionsBelong /\ InstallInv
      /\ selected' \in DOMAIN mods \cup {NoItem}
      /\ DOMAIN mods \subseteq Mods
  BY TypeParts DEF IInv, Select, ToDetail, ToList, OpenPlain, Close, CloseVersions,
    CloseUpdate, LeaveUpdate, CloseInstall, SelectionLive, TypeOK
<1>3. InstallInv'
  BY <1>1, <1>2 DEF InstallInv, AddInv, Kempt, data, work
<1>4. CASE Select
  BY <1>1, <1>2, <1>3, <1>4 DEF Select, In, ScreenStep, ScreenOK, SelectionLive, FetchInv,
    VersionsBelong, data, install, work, dialog
<1>5. CASE ToDetail \/ ToList
  BY <1>1, <1>2, <1>3, <1>5 DEF ToDetail, ToList, In, Goto, ScreenStep, ScreenOK,
    SelectionLive, FetchInv, VersionsBelong, data, install, work, dialog
<1>6. CASE \E place \in {"EditEnv", "EditDescription", "EditCategories",
                        "RemoveConfirm"} : OpenPlain(place)
  BY <1>1, <1>2, <1>3, <1>6 DEF OpenPlain, In, Goto, ScreenStep, ScreenOK,
    SelectionLive, FetchInv, VersionsBelong, data, install, work, dialog
<1>7. CASE Close \/ CloseInstall
  BY <1>1, <1>2, <1>3, <1>7 DEF Close, CloseInstall, In, Goto, ScreenStep, ScreenOK,
    SelectionLive, FetchInv, VersionsBelong, data, install, work, dialog
<1>8. CASE CloseVersions
  <2>1. /\ UNCHANGED <<data, selected, update, install, work, on>>
        /\ mode = "EditVersion" /\ ~loading /\ mode' = "Detail"
        /\ versions' = {} /\ loading' = FALSE /\ pending' = NoOp
    BY <1>8 DEF CloseVersions, In, Goto
  <2>2. QED BY <1>2, <1>3, <2>1 DEF ScreenStep, ScreenOK, SelectionLive, FetchInv,
    VersionsBelong, data, install, work, ManageAssumption, Ops
<1>9. CASE CloseUpdate \/ LeaveUpdate
  <2>1. /\ UNCHANGED <<data, selected, versions, loading, install, work, on>>
        /\ mode = "UpdateCheck" /\ mode' = "Detail"
        /\ update' \in {update, NoUpdate} /\ pending' \in {pending, NoOp}
    BY <1>9 DEF CloseUpdate, LeaveUpdate, In, Goto, dialog
  <2>2. QED BY <1>2, <1>3, <2>1 DEF ScreenStep, ScreenOK, SelectionLive, FetchInv,
    VersionsBelong, data, install, work, ManageAssumption, Ops
<1>10. QED BY <1>4, <1>5, <1>6, <1>7, <1>8, <1>9

\* Keys that save, or that remove.
LEMMA ScreenSaves ==
  ASSUME IInv, ManageAssumption, DataStep,
         ConfirmText \/ ToggleCategory \/ ConfirmCategories \/ ConfirmVersion
           \/ ApplyUpdate \/ ConfirmRemove
  PROVE  ScreenStep
<1>1. UNCHANGED <<install, work, on>>
  BY DEF ConfirmText, ToggleCategory, ConfirmCategories, ConfirmVersion,
    ApplyUpdate, ConfirmRemove
<1>2. /\ ScreenOK /\ SelectionLive /\ FetchInv /\ VersionsBelong /\ InstallInv
      /\ DOMAIN mods' \subseteq DOMAIN mods
      /\ spoiled \subseteq spoiled' /\ agreed \subseteq agreed'
      /\ DOMAIN mods \subseteq Mods
  BY TypeParts DEF IInv, DataStep, TypeOK
<1>3. InstallInv'
  BY <1>1, <1>2 DEF InstallInv, AddInv, Kempt, work
<1>4. CASE ConfirmText
  <2>1. DOMAIN mods' = DOMAIN mods
    BY <1>4 DEF ConfirmText, Save
  <2>2. UNCHANGED <<selected, dialog, pending, install, work, on>> /\ mode' = "Detail"
          /\ mode \in {"EditEnv", "EditDescription"}
    BY <1>4 DEF ConfirmText, In, Goto
  <2>3. QED BY <1>2, <1>3, <2>1, <2>2 DEF ScreenStep, ScreenOK, SelectionLive, FetchInv,
    VersionsBelong, install, work, dialog
<1>5. CASE ToggleCategory \/ ConfirmCategories
  <2>1. DOMAIN mods' = DOMAIN mods
    BY <1>5 DEF ToggleCategory, ConfirmCategories
  <2>2. UNCHANGED <<selected, dialog, pending, install, work, on>>
          /\ mode = "EditCategories" /\ mode' \in {"EditCategories", "Detail"}
    BY <1>5 DEF ToggleCategory, ConfirmCategories, In, Goto
  <2>3. QED BY <1>2, <1>3, <2>1, <2>2 DEF ScreenStep, ScreenOK, SelectionLive, FetchInv,
    VersionsBelong, install, work, dialog
<1>6. CASE ConfirmVersion
  <2>1. DOMAIN mods' = DOMAIN mods
    BY <1>6 DEF ConfirmVersion, Save, data
  <2>2. /\ UNCHANGED <<selected, update, install, work, on>> /\ mode' = "Detail"
        /\ versions' = {} /\ loading' = FALSE /\ pending' = NoOp
        /\ mode = "EditVersion" /\ ~loading
    BY <1>6 DEF ConfirmVersion, In, Goto
  <2>3. QED BY <1>2, <1>3, <2>1, <2>2 DEF ScreenStep, ScreenOK, SelectionLive, FetchInv,
    VersionsBelong, install, work, ManageAssumption, Ops
<1>7. CASE ApplyUpdate
  <2>1. DOMAIN mods' = DOMAIN mods
    BY <1>7 DEF ApplyUpdate, Save
  <2>2. /\ UNCHANGED <<selected, versions, loading, install, work, on>>
        /\ mode' = "Detail" /\ update' = NoUpdate /\ pending' = NoOp
        /\ mode = "UpdateCheck"
    BY <1>7 DEF ApplyUpdate, In, Goto
  <2>3. QED BY <1>2, <1>3, <2>1, <2>2 DEF ScreenStep, ScreenOK, SelectionLive, FetchInv,
    VersionsBelong, install, work, ManageAssumption, Ops
<1>8. CASE ConfirmRemove
  <2>1. /\ UNCHANGED <<dialog, pending, install, work, on>>
        /\ mode = "RemoveConfirm"
        /\ \/ selected' \in DOMAIN mods' \cup {NoItem} /\ mode' = "List"
           \/ UNCHANGED <<mods, selected>> /\ mode' = "Detail"
    BY <1>8 DEF ConfirmRemove, In, Goto
  <2>2. QED BY <1>2, <1>3, <2>1 DEF ScreenStep, ScreenOK, SelectionLive, FetchInv,
    VersionsBelong, install, work, dialog
<1>9. QED BY <1>4, <1>5, <1>6, <1>7, <1>8

\* Keys that open a dialog with a task behind it.
LEMMA ScreenAsks ==
  ASSUME IInv, ManageAssumption, OpenVersions \/ OpenUpdate
  PROVE  ScreenStep
<1>1. /\ TypeOK /\ ScreenOK /\ SelectionLive /\ FetchInv /\ InstallInv
      /\ DOMAIN mods \subseteq Mods
  BY TypeParts DEF IInv, TypeOK
<1>2. /\ UNCHANGED <<data, selected, install, on>>
      /\ mode = "Detail" /\ selected # NoItem
      /\ ~loading /\ pending # "FetchVersions"
      /\ \A t \in tasks : t.op # "FetchVersions"
  BY <1>1 DEF OpenVersions, OpenUpdate, In, SelectionLive, FetchInv
<1>3. (selected \in Provided) \in BOOLEAN /\ {} \in SUBSET Edges
  OBVIOUS
<1>4. CASE OpenVersions
  <2>1. /\ tasks' \subseteq Tasks
        /\ spawned' \in 0..MaxTasks
        /\ \A t \in tasks' : t \in tasks \/
             (pending' = "FetchVersions" /\ t.op = "FetchVersions" /\ t.mod = selected
                /\ t.adding = {} /\ tasks' = tasks \cup {t})
    BY <1>1, <1>2, <1>3, <1>4, Spawned DEF OpenVersions, Ops
  <2>2. /\ UNCHANGED update
        /\ \/ /\ versions' = {} /\ loading' = TRUE
              /\ pending' = "FetchVersions" /\ mode' = "EditVersion"
           \/ UNCHANGED <<versions, loading, pending, mode>>
    BY <1>4 DEF OpenVersions, Goto
  <2>3. ScreenOK' /\ SelectionLive' /\ VersionsBelong'
    BY <1>1, <1>2, <2>1, <2>2 DEF ScreenOK, SelectionLive, VersionsBelong, data, install, Ops
  <2>4. FetchInv'
    BY <1>1, <1>2, <2>1, <2>2 DEF FetchInv
  <2>5. InstallInv'
    BY <1>1, <1>2, <2>1 DEF InstallInv, AddInv, Kempt, data
  <2>6. QED BY <2>3, <2>4, <2>5 DEF ScreenStep
<1>5. CASE OpenUpdate
  <2>1. /\ tasks' \subseteq Tasks
        /\ spawned' \in 0..MaxTasks
        /\ \A t \in tasks' : t \in tasks \/
             (pending' = "CheckUpdate" /\ t.op = "CheckUpdate" /\ t.mod = selected
                /\ t.adding = {} /\ tasks' = tasks \cup {t})
    BY <1>1, <1>2, <1>3, <1>5, Spawned DEF OpenUpdate, Ops
  <2>2. /\ UNCHANGED <<versions, loading>>
        /\ \/ update' = NoUpdate /\ pending' = "CheckUpdate" /\ mode' = "UpdateCheck"
           \/ UNCHANGED <<update, pending, mode>>
    BY <1>5 DEF OpenUpdate, Goto
  <2>3. ScreenOK' /\ SelectionLive' /\ VersionsBelong'
    BY <1>1, <1>2, <2>1, <2>2 DEF ScreenOK, SelectionLive, VersionsBelong, data, install, Ops
  <2>4. FetchInv'
    BY <1>1, <1>2, <2>1, <2>2 DEF FetchInv
  <2>5. InstallInv'
    BY <1>1, <1>2, <2>1 DEF InstallInv, AddInv, Kempt, data
  <2>6. QED BY <2>3, <2>4, <2>5 DEF ScreenStep
<1>6. QED BY <1>4, <1>5

\* What a dependency tree shows is a set of dependencies.
LEMMA TreeType ==
  ASSUME TypeOK, ManageAssumption, NEW m \in DOMAIN mods
  PROVE  Tree(m) \subseteq Edges
<1> DEFINE Nodes == Edges \X SUBSET Items
<1>1. ASSUME NEW N \in SUBSET Nodes
      PROVE  WithDeps(N) \in SUBSET Nodes
  <2>1. ASSUME NEW n \in N, Installed(n[1]), NEW d \in disk[n[1][1]].deps
        PROVE  <<d, n[2] \cup {d[1]}>> \in Nodes
    <3>1. n[2] \in SUBSET Items /\ n[1][1] \in DOMAIN disk
      BY <1>1, <2>1 DEF Installed
    <3>2. disk[n[1][1]] \in Records
      BY <3>1 DEF TypeOK
    <3>3. d \in Edges
      BY <2>1, <3>2 DEF Records
    <3>4. QED BY <3>1, <3>3 DEF Edges
  <2> HIDE DEF Nodes
  <2>2. QED BY <1>1, <2>1 DEF WithDeps
<1>2. {<<<<m, mods[m].source>>, {m}>>} \in SUBSET Nodes
  <2>1. m \in Items /\ mods[m] \in Records
    BY DEF TypeOK, ManageAssumption
  <2>2. mods[m].source \in Sources
    BY <2>1 DEF Records
  <2>3. QED BY <2>1, <2>2 DEF Edges
<1>3. \A N \in SUBSET Nodes : Ids(N) \subseteq Edges
  BY DEF Ids
<1> HIDE DEF Nodes
<1>4. QED BY <1>1, <1>2, <1>3 DEF Tree

\* Keys of the dependency screens, and the end of the program.
LEMMA ScreenDeps ==
  ASSUME IInv, ManageAssumption,
         OpenTree \/ CloseTree \/ OpenInstall \/ ToggleMark \/ Quit
  PROVE  ScreenStep
<1>1. /\ TypeOK /\ ScreenOK /\ SelectionLive /\ FetchInv /\ VersionsBelong
      /\ InstallInv /\ ShownIsSaved /\ DOMAIN mods \subseteq Mods
      /\ UNCHANGED <<data, selected, dialog, pending, spawned>>
  BY TypeParts DEF IInv, TypeOK, OpenTree, CloseTree, OpenInstall, ToggleMark, Quit, work
<1>2. CASE OpenTree
  <2>1. selected \in DOMAIN mods
    BY <1>1, <1>2 DEF OpenTree, In, SelectionLive
  <2>2. missing' \subseteq Edges
    BY <1>1, <1>2, <2>1, TreeType DEF OpenTree
  <2>3. /\ UNCHANGED <<installing, tasks, on>> /\ marked' = {}
        /\ mode = "Detail" /\ mode' = "DepTree"
    BY <1>2 DEF OpenTree, In, Goto, work
  <2>4. InstallInv'
    BY <1>1, <2>3 DEF InstallInv, AddInv, Kempt, data
  <2>5. QED BY <1>1, <2>2, <2>3, <2>4 DEF ScreenStep, ScreenOK, SelectionLive, FetchInv,
    VersionsBelong, data, dialog
<1>3. CASE CloseTree \/ OpenInstall \/ ToggleMark
  <2>1. /\ UNCHANGED <<installing, tasks, on>>
        /\ missing' \subseteq missing /\ marked' \subseteq Ids(missing')
        /\ mode \in {"DepTree", "InstallDeps"}
        /\ mode' \in {"Detail", "DepTree", "InstallDeps"}
    BY <1>1, <1>3 DEF CloseTree, OpenInstall, ToggleMark, In, Goto, work, ScreenOK
  <2>2. InstallInv'
    BY <1>1, <2>1 DEF InstallInv, AddInv, Kempt, data
  <2>3. QED BY <1>1, <2>1, <2>2 DEF ScreenStep, ScreenOK, SelectionLive, FetchInv,
    VersionsBelong, data, dialog
<1>4. CASE Quit
  <2>1. tasks' = {} /\ on' = FALSE /\ UNCHANGED <<mode, install>>
    BY <1>4 DEF Quit
  <2>2. InstallInv'
    BY <2>1 DEF InstallInv
  <2>3. QED BY <1>1, <2>1, <2>2 DEF ScreenStep, ScreenOK, SelectionLive, FetchInv,
    VersionsBelong, data, dialog, install
<1>5. QED BY <1>2, <1>3, <1>4

\* An install that is started waits for nothing yet.
LEMMA ScreenInstall ==
  ASSUME IInv, ManageAssumption, Install
  PROVE  ScreenStep
<1>1. /\ TypeOK /\ ScreenOK /\ SelectionLive /\ FetchInv /\ InstallInv
      /\ DOMAIN mods \subseteq Mods
  BY TypeParts DEF IInv, TypeOK
<1>2. /\ UNCHANGED <<data, selected, dialog, missing, marked, on>>
      /\ mode = "InstallDeps" /\ selected # NoItem
      /\ installing' = TRUE /\ pending' = "InstallDeps" /\ mode' = "InstallProgress"
  BY <1>1 DEF Install, In, Goto, SelectionLive
<1>3. {e \in missing : e[1] \in marked} \in SUBSET Edges
  BY <1>1 DEF TypeOK
<1>4. /\ tasks' \subseteq Tasks
      /\ spawned' \in 0..MaxTasks
      /\ \A t \in tasks' : t \in tasks \/
           (pending' = "InstallDeps" /\ t.op = "InstallDeps" /\ t.mod = selected
              /\ t.adding = {} /\ tasks' = tasks \cup {t})
  BY <1>1, <1>2, <1>3, Spawned DEF Install, Ops
<1>5. ScreenOK' /\ SelectionLive' /\ VersionsBelong'
  BY <1>1, <1>2, <1>4 DEF ScreenOK, SelectionLive, VersionsBelong, data, dialog, Ops
<1>6. FetchInv'
  BY <1>1, <1>2, <1>4 DEF FetchInv, dialog
<1>7. InstallInv'
  BY <1>1, <1>2, <1>4 DEF InstallInv, AddInv, Kempt, data
<1>8. QED BY <1>5, <1>6, <1>7 DEF ScreenStep

\* What becomes of a task that adds: it never comes to save, without another
\* question, over the entry of a mod on the list.
LEMMA AddStep ==
  ASSUME TypeOK, ShownIsSaved, InstallInv, ManageAssumption, NEW t \in tasks,
         \/ \E e \in t.todo : BeginAdd(t, e)
         \/ \E a \in t.adding : Answer(t, a) \/ EndAdd(t, a)
  PROVE  \E u : /\ Becomes(t, u)
                /\ u \in Tasks /\ u.op = t.op /\ u.mod = t.mod
                /\ \A a \in u.adding : AddInv(a)'
<1> DEFINE Good(u) == /\ u \in Tasks /\ u.op = t.op /\ u.mod = t.mod
                      /\ \A a \in u.adding : AddInv(a)'
<1>1. t \in Tasks /\ disk \in [DOMAIN disk -> Records] /\ DOMAIN disk \subseteq Items
  BY DEF TypeOK
<1>2. Kempt \subseteq DOMAIN disk
  BY DEF ShownIsSaved, Kempt
<1>3. \A S \in SUBSET t.todo, A \in SUBSET Adds, b \in BOOLEAN :
        LET u == [t EXCEPT !.todo = S, !.adding = A, !.failed = b]
        IN  u \in Tasks /\ u.op = t.op /\ u.mod = t.mod /\ u.adding = A
  BY <1>1 DEF Tasks
<1>4. ASSUME NEW e \in t.todo, BeginAdd(t, e)
      PROVE  \E u : Becomes(t, u) /\ Good(u)
  <2> DEFINE Now(A, b) == [t EXCEPT !.todo = @ \ {e}, !.adding = A, !.failed = b]
  <2>1. UNCHANGED data /\ t.adding = {} /\ e \in Edges /\ t.failed \in BOOLEAN
    BY <1>1, <1>4 DEF BeginAdd, Tasks
  <2>2. \A A \in SUBSET Adds, b \in BOOLEAN :
          Now(A, b) \in Tasks /\ Now(A, b).op = t.op /\ Now(A, b).mod = t.mod
            /\ Now(A, b).adding = A
    BY <1>1 DEF Tasks
  <2>3. \A A : [t EXCEPT !.todo = @ \ {e}, !.adding = A] = Now(A, t.failed)
    BY <1>1 DEF Tasks
  <2>4. [t EXCEPT !.todo = @ \ {e}] = Now({}, t.failed)
    BY <1>1, <2>1 DEF Tasks
  <2>5. [t EXCEPT !.todo = @ \ {e}, !.failed = TRUE] = Now({}, TRUE)
    BY <1>1, <2>1 DEF Tasks
  <2> HIDE DEF Now
  <2>6. Good(Now({}, t.failed)) /\ Good(Now({}, TRUE))
    BY <2>1, <2>2
  <2>7. ASSUME NEW s \in Finds[e[2]], NEW v \in VersionsOf[s]
        PROVE  /\ s \in Sources /\ SlugOf[s] \in Items
               /\ Fresh(s, v) \in Records /\ Fresh(s, v).deps = {}
    <3>1. e[2] \in Sources
      BY <2>1 DEF Edges
    <3>2. s \in Sources
      BY <3>1 DEF ManageAssumption
    <3>3. v \in Versions /\ Default \in Values
      BY <3>2 DEF ManageAssumption
    <3>4. QED BY <3>2, <3>3 DEF ManageAssumption, Fresh, Records
  <2>8. ASSUME NEW s \in Finds[e[2]], NEW r \in Records,
               NEW p \in {"none", "update", "replace"}, SlugOf[s] \in Items,
               p # "update" => r.deps = {}, p = "none" => SlugOf[s] \notin DOMAIN disk
        PROVE  Good(Now({[slug |-> SlugOf[s], record |-> r, prompt |-> p]}, t.failed))
    <3> DEFINE w == [slug |-> SlugOf[s], record |-> r, prompt |-> p]
    <3>1. w \in Adds /\ w.slug = SlugOf[s] /\ w.record = r /\ w.prompt = p
      BY <2>8 DEF Adds
    <3>2. AddInv(w)'
      <4>1. UNCHANGED Kempt
        BY <2>1 DEF Kempt, data
      <4>2. QED BY <1>2, <2>8, <3>1, <4>1 DEF AddInv
    <3> HIDE DEF w
    <3>3. Good(Now({w}, t.failed))
      BY <2>1, <2>2, <3>1, <3>2 DEF AddInv
    <3>4. QED BY <3>3 DEF w
  <2> DEFINE Waits(s, r, p) ==
        Becomes(t, Now({[slug |-> SlugOf[s], record |-> r, prompt |-> p]}, t.failed))
  <2>9. \/ \E s \in Finds[e[2]] :
             \/ /\ SlugOf[s] \notin DOMAIN disk
                /\ \E v \in VersionsOf[s] : Waits(s, Fresh(s, v), "none")
             \/ \E v \in VersionsOf[s] : Waits(s, Fresh(s, v), "replace")
             \/ /\ SlugOf[s] \in DOMAIN disk
                /\ \E v \in VersionsOf[disk[SlugOf[s]].source] :
                     Waits(s, [disk[SlugOf[s]] EXCEPT !.version = v], "update")
        \/ Becomes(t, Now({}, t.failed)) \/ Becomes(t, Now({}, TRUE))
    <3> DEFINE Begins(s, r, p) ==
          Becomes(t, [t EXCEPT !.todo = @ \ {e},
            !.adding = {[slug |-> SlugOf[s], record |-> r, prompt |-> p]}])
    <3>1. \A s, r, p : Begins(s, r, p) => Waits(s, r, p)
      BY <2>3
    <3>2. \/ \E s \in Finds[e[2]] :
                \/ /\ SlugOf[s] \notin DOMAIN disk
                   /\ \E v \in VersionsOf[s] : Begins(s, Fresh(s, v), "none")
                \/ \E v \in VersionsOf[s] : Begins(s, Fresh(s, v), "replace")
                \/ /\ SlugOf[s] \in DOMAIN disk
                   /\ \E v \in VersionsOf[disk[SlugOf[s]].source] :
                        Begins(s, [disk[SlugOf[s]] EXCEPT !.version = v], "update")
                \/ Becomes(t, [t EXCEPT !.todo = @ \ {e}])
          \/ Becomes(t, [t EXCEPT !.todo = @ \ {e}, !.failed = TRUE])
      BY <1>4 DEF BeginAdd
    <3> HIDE DEF Begins, Waits
    <3>3. QED BY <2>4, <2>5, <3>1, <3>2
  <2> HIDE DEF Good
  <2>10. CASE Becomes(t, Now({}, t.failed)) \/ Becomes(t, Now({}, TRUE))
    BY <2>6, <2>10
  <2>11. ASSUME NEW s \in Finds[e[2]], NEW v \in VersionsOf[s],
                \/ SlugOf[s] \notin DOMAIN disk /\ Waits(s, Fresh(s, v), "none")
                \/ Waits(s, Fresh(s, v), "replace")
         PROVE  \E u : Becomes(t, u) /\ Good(u)
    BY <2>7, <2>8, <2>11
  <2>12. ASSUME NEW s \in Finds[e[2]], SlugOf[s] \in DOMAIN disk,
                NEW v \in VersionsOf[disk[SlugOf[s]].source],
                Waits(s, [disk[SlugOf[s]] EXCEPT !.version = v], "update")
         PROVE  \E u : Becomes(t, u) /\ Good(u)
    <3>1. disk[SlugOf[s]] \in Records /\ SlugOf[s] \in Items
      BY <1>1, <2>12
    <3>2. v \in Versions
      BY <2>12, <3>1 DEF Records, ManageAssumption
    <3>3. [disk[SlugOf[s]] EXCEPT !.version = v] \in Records
      BY <3>1, <3>2 DEF Records
    <3>4. QED BY <2>8, <2>12, <3>1, <3>3
  <2>13. QED BY <2>9, <2>10, <2>11, <2>12
<1>5. ASSUME NEW a \in t.adding, Answer(t, a) \/ EndAdd(t, a)
      PROVE  \E u : Becomes(t, u) /\ Good(u)
  <2> DEFINE Now(A, b) == [t EXCEPT !.adding = A, !.failed = b]
  <2>1. a \in Adds /\ a.slug \in Items /\ t.failed \in BOOLEAN
    BY <1>1 DEF Tasks, Adds
  <2>2. \A A \in SUBSET Adds, b \in BOOLEAN :
          Now(A, b) \in Tasks /\ Now(A, b).op = t.op /\ Now(A, b).mod = t.mod
            /\ Now(A, b).adding = A
    BY <1>1 DEF Tasks
  <2>3. \A A : [t EXCEPT !.adding = A] = Now(A, t.failed)
    BY <1>1 DEF Tasks
  <2>4. \A b \in BOOLEAN : [t EXCEPT !.adding = {}, !.failed = @ \/ b] = Now({}, t.failed \/ b)
    BY <1>1 DEF Tasks
  <2> HIDE DEF Now
  <2>5. \A b \in BOOLEAN : Good(Now({}, b))
    BY <2>2
  <2>6. CASE Becomes(t, [t EXCEPT !.adding = {[a EXCEPT !.prompt = "none"]}])
               /\ a.prompt = "replace" /\ a.slug \in agreed'
    <3> DEFINE w == [a EXCEPT !.prompt = "none"]
    <3>1. w \in Adds /\ w.slug = a.slug /\ w.record = a.record
      BY <2>1 DEF Adds
    <3>2. a.record.deps = {}
      BY <2>6 DEF InstallInv, AddInv
    <3>3. AddInv(w)'
      BY <2>6, <3>1, <3>2 DEF AddInv, Kempt
    <3> HIDE DEF w
    <3>4. Good(Now({w}, t.failed))
      BY <2>1, <2>2, <3>1, <3>3 DEF AddInv
    <3>5. Becomes(t, Now({w}, t.failed))
      BY <2>3, <2>6 DEF w
    <3>6. QED BY <3>4, <3>5
  <2>7. CASE \/ Becomes(t, [t EXCEPT !.adding = {}])
             \/ \E b \in BOOLEAN : Becomes(t, [t EXCEPT !.adding = {}, !.failed = @ \/ b])
    <3>1. PICK b \in BOOLEAN : Becomes(t, Now({}, b))
      BY <2>1, <2>3, <2>4, <2>7
    <3>2. QED BY <2>5, <3>1
  <2>8. QED
    <3>1. CASE Answer(t, a)
      BY <2>6, <2>7, <3>1 DEF Answer
    <3>2. CASE EndAdd(t, a)
      <4>1. \E b \in BOOLEAN : Becomes(t, [t EXCEPT !.adding = {}, !.failed = @ \/ b])
        BY <3>2 DEF EndAdd
      <4>2. QED BY <2>7, <4>1
    <3>3. QED BY <1>5, <3>1, <3>2
<1>6. QED BY <1>4, <1>5

\* A task that goes on, or whose result is taken.
LEMMA ScreenProgress ==
  ASSUME IInv, ManageAssumption, DataStep, NEW t \in tasks,
         Progress(t) \/ \E a \in t.adding : Answer(t, a)
  PROVE  ScreenStep
<1>1. /\ TypeOK /\ ScreenOK /\ SelectionLive /\ FetchInv /\ VersionsBelong
      /\ InstallInv /\ DOMAIN mods \subseteq Mods
      /\ t \in Tasks /\ t.mod \in Mods /\ VersionsOf[Start[t.mod].source] \subseteq Versions
  <2>1. t \in Tasks /\ t.mod \in Mods
    BY DEF IInv, TypeOK, Tasks
  <2>2. Start[t.mod].source \in Sources
    BY <2>1 DEF ManageAssumption, Records
  <2>3. VersionsOf[Start[t.mod].source] \subseteq Versions
    BY <2>2 DEF ManageAssumption
  <2>4. QED BY <2>1, <2>3, TypeParts DEF IInv, TypeOK
<1>2. CASE HearVersions(t)
  <2>1. /\ t.op = "FetchVersions" /\ tasks' = tasks \ {t}
        /\ UNCHANGED <<data, selected, on, spawned, update, install>>
    BY <1>2 DEF HearVersions, Take
  <2>2. /\ mode = "EditVersion" /\ loading /\ t.mod = selected
        /\ \A u \in tasks' : u.op # "FetchVersions"
    BY <1>1, <2>1 DEF FetchInv
  <2>3. /\ loading' = FALSE
        /\ \/ /\ \E vs \in SUBSET VersionsOf[Start[t.mod].source] : versions' = {t.mod} \X vs
              /\ UNCHANGED <<pending, mode>>
           \/ pending' = NoOp /\ mode' = "Detail" /\ UNCHANGED versions
    BY <1>2, <2>2 DEF HearVersions
  <2> DEFINE Own ==
        /\ versions' \subseteq Mods \X Versions
        /\ mode' = "EditVersion" => \A p \in versions' : p[1] = selected
  <2>4. Own
    <3>1. CASE UNCHANGED versions /\ mode' = "Detail"
      BY <1>1, <3>1 DEF TypeOK
    <3>2. ASSUME NEW vs \in SUBSET VersionsOf[Start[t.mod].source], versions' = {t.mod} \X vs
          PROVE  Own
      BY <1>1, <2>2, <3>2
    <3>3. QED BY <2>3, <3>1, <3>2
  <2>5. /\ mode' \in {"EditVersion", "Detail"} /\ pending' \in {pending, NoOp}
        /\ pending' = "FetchVersions" => mode' = "EditVersion"
    BY <2>2, <2>3 DEF ManageAssumption, Ops
  <2>6. ScreenOK' /\ SelectionLive' /\ VersionsBelong'
    BY <1>1, <2>1, <2>2, <2>3, <2>4, <2>5 DEF ScreenOK, SelectionLive, VersionsBelong, data,
      install
  <2>7. FetchInv'
    BY <2>2, <2>3, <2>5 DEF FetchInv
  <2>8. InstallInv'
    BY <1>1, <2>1 DEF InstallInv, AddInv, Kempt, data
  <2>9. QED BY <2>6, <2>7, <2>8 DEF ScreenStep
<1>3. CASE HearUpdate(t)
  <2>1. /\ t.op = "CheckUpdate" /\ tasks' = tasks \ {t}
        /\ UNCHANGED <<data, selected, on, spawned, versions, loading, missing, marked, mode>>
        /\ pending' \in {pending, NoOp}
        /\ installing' \in {installing, FALSE}
        /\ \/ update' \in {update, NoUpdate}
           \/ \E v \in VersionsOf[Start[t.mod].source] : update' = <<t.mod, v>>
    BY <1>3 DEF HearUpdate, Take
  <2>2. update' \in (Mods \X Versions) \cup {NoUpdate}
    BY <1>1, <2>1 DEF TypeOK
  <2>3. pending' = "FetchVersions" => pending = "FetchVersions"
    BY <2>1 DEF ManageAssumption, Ops
  <2>4. ScreenOK'
    BY <1>1, <2>1, <2>2 DEF ScreenOK
  <2>5. QED BY <1>1, <2>1, <2>3, <2>4 DEF ScreenStep, SelectionLive, FetchInv,
    VersionsBelong, InstallInv, AddInv, Kempt, data
<1>4. CASE HearInstall(t)
  <2>1. /\ tasks' = tasks \ {t}
        /\ UNCHANGED <<data, selected, on, spawned, dialog, missing, mode>>
        /\ pending' \in {pending, NoOp}
        /\ installing' \in {installing, FALSE}
        /\ marked' \subseteq marked
    BY <1>4 DEF HearInstall, Take
  <2>2. pending' = "FetchVersions" => pending = "FetchVersions"
    BY <2>1 DEF ManageAssumption, Ops
  <2>3. ScreenOK'
    BY <1>1, <2>1 DEF ScreenOK, dialog
  <2>4. QED BY <1>1, <2>1, <2>2, <2>3 DEF ScreenStep, SelectionLive, FetchInv,
    VersionsBelong, InstallInv, AddInv, Kempt, data, dialog
<1>5. CASE \/ \E e \in t.todo : BeginAdd(t, e)
           \/ \E a \in t.adding : Answer(t, a) \/ EndAdd(t, a)
  <2>1. UNCHANGED <<mods, spoiled, selected, mode, dialog, pending, install, spawned, on>>
    BY <1>5 DEF BeginAdd, Answer, EndAdd, data
  <2>2. PICK u : /\ tasks' = (tasks \ {t}) \cup {u}
                 /\ u \in Tasks /\ u.op = t.op /\ u.mod = t.mod
                 /\ \A a \in u.adding : AddInv(a)'
    <3>1. \E u : /\ Becomes(t, u)
                  /\ u \in Tasks /\ u.op = t.op /\ u.mod = t.mod
                  /\ \A a \in u.adding : AddInv(a)'
      BY <1>5, AddStep DEF IInv
    <3>2. QED BY <3>1 DEF Becomes
  <2>3. ScreenOK' /\ SelectionLive' /\ VersionsBelong'
    BY <1>1, <2>1, <2>2 DEF ScreenOK, SelectionLive, VersionsBelong, dialog, install
  <2>4. FetchInv'
    BY <1>1, <2>1, <2>2 DEF FetchInv, dialog
  <2>5. InstallInv'
    <3>1. Kempt' \subseteq Kempt
      BY DEF DataStep, Kempt
    <3>2. \A v \in tasks : \A a \in v.adding : AddInv(a)'
      BY <1>1, <3>1 DEF InstallInv, AddInv
    <3>3. QED BY <2>2, <3>2 DEF InstallInv
  <2>6. QED BY <2>3, <2>4, <2>5 DEF ScreenStep
<1>6. QED BY <1>2, <1>3, <1>4, <1>5 DEF Progress

-----------------------------------------------------------------------------
(* Theorems *)

LEMMA InitIInv == ManageAssumption /\ Init => IInv
<1> SUFFICES ASSUME ManageAssumption, Init PROVE IInv
  OBVIOUS
<1>1. TypeOK
  <2>1. DOMAIN Start = Mods /\ Start \in [Mods -> Records] /\ Mods \subseteq Items
    BY DEF Mods, ManageAssumption
  <2>2. DataOK
    BY <2>1 DEF Init, DataOK, ManageAssumption
  <2>3. ScreenOK
    <3>1. {loading, installing, on} \subseteq BOOLEAN
      BY DEF Init
    <3>2. spawned \in 0..MaxTasks
      BY DEF Init, ManageAssumption
    <3>3. QED BY <3>1, <3>2 DEF Init, ScreenOK
  <2>4. QED BY <2>2, <2>3, TypeParts
<1>2. SelectionLive /\ FetchInv /\ VersionsBelong /\ InstallInv
  BY DEF Init, SelectionLive, FetchInv, VersionsBelong, InstallInv, Mods, ManageAssumption, Ops
<1>3. ShownIsSaved
  BY DEF Init, ShownIsSaved
<1>4. QED BY <1>1, <1>2, <1>3 DEF IInv

LEMMA NextIInv ==
  ASSUME ManageAssumption, IInv, Next
  PROVE  IInv' /\ DataStep
<1>1. DataStep
  BY NextData DEF IInv
<1>2. ScreenStep
  BY <1>1, ScreenPlain, ScreenSaves, ScreenAsks, ScreenDeps, ScreenInstall, ScreenProgress
    DEF Next, Key
<1>3. TypeOK'
  <2>1. DataOK' /\ ScreenOK'
    BY <1>1, <1>2 DEF DataStep, ScreenStep
  <2>2. QED BY <2>1 DEF TypeOK, DataOK, ScreenOK
<1>4. QED BY <1>1, <1>2, <1>3 DEF IInv, DataStep, ScreenStep

LEMMA StutterIInv == IInv /\ UNCHANGED vars => IInv'
BY DEF IInv, TypeOK, SelectionLive, ShownIsSaved, FetchInv, VersionsBelong, InstallInv, AddInv, Kempt,
  vars, data, dialog, install, work

THEOREM SpecIInv == Spec => []IInv
<1>1. Init => IInv
  BY InitIInv, ManageAssumption
<1>2. IInv /\ [Next]_vars => IInv'
  BY NextIInv, StutterIInv, ManageAssumption
<1>3. QED BY <1>1, <1>2, PTL DEF Spec

\* Every variable has its type.
THEOREM Typing == Spec => []TypeOK
<1>1. IInv => TypeOK
  BY DEF IInv
<1>2. QED BY <1>1, SpecIInv, PTL

\* The selection never points past the list.
THEOREM SelectionIsLive == Spec => []SelectionLive
<1>1. IInv => SelectionLive
  BY DEF IInv
<1>2. QED BY <1>1, SpecIInv, PTL

\* The version dialog never offers another mod's versions.
THEOREM VersionsAlwaysBelong == Spec => []VersionsBelong
<1>1. IInv => VersionsBelong
  BY DEF IInv
<1>2. QED BY <1>1, SpecIInv, PTL

\* What is shown of a mod is what is stored, short of disk failures and of the
\* installs the user let update or replace its entry.
THEOREM AlwaysShownAsSaved == Spec => []ShownIsSaved
<1>1. IInv => ShownIsSaved
  BY DEF IInv
<1>2. QED BY <1>1, SpecIInv, PTL

\* The stored version and source of a mod change in that mod's own dialogs, or
\* after the user's yes to an install that asked.
THEOREM VersionsByChoice == Spec => VersionOnlyByChoice
<1>1. IInv /\ [Next]_vars =>
        [\A m \in ((DOMAIN mods \ spoiled) \cap DOMAIN disk \cap DOMAIN disk') \ agreed' :
           /\ disk'[m].source = disk[m].source
           /\ disk'[m].version # disk[m].version =>
                m = selected /\ mode \in {"EditVersion", "UpdateCheck"}]_vars
  BY NextIInv, ManageAssumption DEF DataStep
<1>2. QED BY <1>1, SpecIInv, PTL DEF Spec, VersionOnlyByChoice

\* No entry gets a dependency back, but by an update the user let an install make.
THEOREM DepsGoForGood == Spec => DepsNeverReturn
<1>1. IInv /\ [Next]_vars =>
        [\A m \in (DOMAIN disk \cap DOMAIN disk') \ agreed' :
           disk'[m].deps \subseteq disk[m].deps]_vars
  BY NextIInv, ManageAssumption DEF DataStep
<1>2. QED BY <1>1, SpecIInv, PTL DEF Spec, DepsNeverReturn
=============================================================================
