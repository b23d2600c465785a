------------------------------ MODULE CfgFile ------------------------------
(***************************************************************************)
(* The configuration file of ctcpsvr/cfgfile.cpp as one program sees it:   *)
(* cfg_init reads the file into a table of entries, cfg_find looks an item *)
(* up, cfg_write and the ini_ functions edit the table, cfg_commit writes  *)
(* it back and cfg_done drops it.                                          *)
(*                                                                         *)
(* A line of the file is the entry it shows and how it is written: a       *)
(* section, a pair, a bare text or a remark; indented or not; a remark     *)
(* that starts with '#' or with ';'.  Blank lines, alignment and the text  *)
(* of values are layout.  Of a remark only what the code asks matters: a   *)
(* "block" remark starts with a space or another comment mark, "code" with *)
(* anything else.  A quoted key is told from a plain one because cfg_find  *)
(* takes the quotes away and cfg_write does not.                           *)
(***************************************************************************)
EXTENDS Naturals, SequencesExt

CONSTANTS
  Section, Key, Value,
  NULL,
  InitialFiles,   (* the files a run starts from                           *)
  Chunk,          (* entries in the first allocation, 4096/sizeof(entry)   *)
  MaxEntries      (* bound: no call makes the table longer than this       *)

Mark  == {"plain", "quoted", "hash"}
Id    == [key : Key, mark : Mark]
Joint == [id : Id, value : Value]
Note  == {"block", "code"}

(* A key comes with the text right of its '='.                             *)
Entry == {e \in [section : Section \cup {NULL}, id : Id \cup {NULL},
                 value : Value \cup Joint \cup {NULL}, note : Note \cup {NULL}] :
            e.id # NULL => e.value \in Value}
Line  == [entry : Entry, indent : BOOLEAN, hash : BOOLEAN]
Faults == {"overrun", "underrun", "walk", "null"}

(* What cfg_find may answer for each section and key.                      *)
Views == [Section -> [Key -> Value \cup {NULL}]]

ASSUME NullAssumption ==
  /\ NULL \notin Section \cup Key \cup Value \cup Joint \cup Id \cup Note \cup Faults
  /\ NULL \notin Seq(Entry) /\ NULL \notin Views
ASSUME JointAssumption == Value \cap Joint = {}
ASSUME ChunkAssumption == Chunk \in Nat /\ MaxEntries \in Nat
ASSUME FilesAssumption == \A f \in InitialFiles : f \in Seq(Line)

VARIABLES
  file,           (* the lines on disk                                     *)
  table,          (* pconfig->entries, NULL when no file is open           *)
  max,            (* pconfig->maxEntries                                   *)
  dirty,          (* pconfig->dirty                                        *)
  fault           (* the bad memory access that ended the last program     *)

vars == <<file, table, max, dirty, fault>>

NoEntry       == [section |-> NULL, id |-> NULL, value |-> NULL, note |-> NULL]
SectionOf(s)  == [NoEntry EXCEPT !.section = s]
Plain(k)      == [key |-> k, mark |-> "plain"]
Pair(k, v)    == [NoEntry EXCEPT !.id = Plain(k), !.value = v]
-----------------------------------------------------------------------------
(* Reading and writing the file.                                           *)

(* A '#' remark and an unindented text hold no '=', and are skipped.       *)
Read(line) == ~line.hash /\ (line.indent \/ line.entry.id # NULL \/ line.entry.value = NULL)

(* An indented line, pair or text, continues the line above with its text. *)
ParseLine(line) ==
  LET e == line.entry
  IN  IF line.indent /\ e.id # NULL
      THEN [e EXCEPT !.id = NULL, !.value = [id |-> e.id, value |-> e.value]]
      ELSE e

(* The entries of the first n lines, for each n.                           *)
Loaded(f) ==
  LET E[n \in 0..Len(f)] ==
        IF n = 0 THEN <<>>
        ELSE IF Read(f[n]) THEN Append(E[n - 1], ParseLine(f[n])) ELSE E[n - 1]
  IN  E

Parse(f) == Loaded(f)[Len(f)]

(* Nothing is indented, so a continuation that holds '=' becomes a pair;   *)
(* a remark is written with ';'.                                           *)
OutputEntry(e) ==
  [indent |-> FALSE, hash |-> FALSE,
   entry  |-> IF e.value \in Joint
              THEN [e EXCEPT !.id = e.value.id, !.value = e.value.value]
              ELSE e]

Output(t) == [i \in DOMAIN t |-> OutputEntry(t[i])]

(* maxEntries after _cfg_poolalloc made room for n entries.                *)
Room(n, m) ==
  IF n <= m THEN m ELSE IF m = 0 THEN 1 + Chunk ELSE 1 + m + m \div 2

Capacity[n \in Nat] == IF n = 0 THEN 0 ELSE Room(n, Capacity[n - 1])
-----------------------------------------------------------------------------
(* Looking up.                                                             *)

SectionAt(t, s) == SelectInSeq(t, LAMBDA e : e.section = s)

(* The first section after position p, or the position after the end.      *)
NextSection(t, p) ==
  Min({i \in p + 1..Len(t) : t[i].section # NULL} \cup {Len(t) + 1})

Body(t, p) == p + 1..NextSection(t, p) - 1

FirstIn(D) == IF D = {} THEN 0 ELSE Min(D)

(* The value cfg_find leaves in pconfig->value, NULL when it finds none:   *)
(* it searches the first section of that name and takes quotes away.       *)
Find(t, s, k) ==
  LET p == SectionAt(t, s)
      i == FirstIn({j \in Body(t, p) : /\ t[j].id # NULL
                                       /\ t[j].id.key = k
                                       /\ t[j].id.mark # "hash"})
  IN  IF p = 0 \/ i = 0 THEN NULL ELSE t[i].value

Visible(t) == SelectSeq(t, LAMBDA e : e.section # NULL \/ e.value # NULL)

(* cfg_find without a section: the first entry it sees only starts the     *)
(* search, which ends at the first section.                                *)
IniFind(t, k) ==
  LET v == Visible(t)
      i == FirstIn({j \in Body(v, 1) : /\ v[j].id # NULL
                                       /\ v[j].id.key = k
                                       /\ v[j].id.mark # "hash"})
  IN  IF i = 0 THEN NULL ELSE v[i].value

(* Mutant: the search of cfg_write does not stop at the next section.      *)
KeyAt_AnySection(t, p, k) == FirstIn({j \in p + 1..Len(t) : t[j].id = Plain(k)})

(* Where cfg_write finds key k of the section at p: the quotes count.      *)
KeyAt(t, p, k) == FirstIn({j \in Body(t, p) : t[j].id = Plain(k)})

IsBlock(e) == e = [NoEntry EXCEPT !.note = "block"]

(* The first of the block remarks right above position p.                  *)
NotesAbove(t, p) == Min({i \in 1..p : \A j \in i..p - 1 : IsBlock(t[j])})
-----------------------------------------------------------------------------
(* The calls.                                                              *)

Init ==
  /\ file \in InitialFiles
  /\ table = NULL
  /\ max = 0
  /\ dirty = FALSE
  /\ fault = NULL

(* cfg_init: the file is read, a new one having been created empty.  A null *)
(* or stray read kills the program and leaves the file as it is; a write    *)
(* outside the table (Insert) may also go unnoticed and be committed, so    *)
(* that nothing is known of the file any more: the model ends with it.      *)
Open ==
  /\ fault # "overrun"
  /\ table = NULL
  /\ table' = Parse(file)
  /\ max' = Capacity[Len(Parse(file))]
  /\ dirty' = FALSE
  /\ fault' = NULL
  /\ UNCHANGED file

Drop(f) ==
  /\ table # NULL
  /\ table' = NULL
  /\ max' = 0
  /\ dirty' = FALSE
  /\ fault' = f
  /\ UNCHANGED file

Done == Drop(NULL)

(* A bad access ends the program, and with it the table; after an          *)
(* "overrun" this stands for whatever the build does.                      *)
Crash(f) == Drop(f)

Commit ==
  /\ table # NULL
  /\ dirty
  /\ file' = Output(table)
  /\ dirty' = FALSE
  /\ UNCHANGED <<table, max, fault>>

(* Mutant: a change that does not mark the table.                          *)
Changed_Clean(t) ==
  /\ Len(t) <= MaxEntries
  /\ table' = t
  /\ UNCHANGED <<file, dirty, fault>>

Changed(t) ==
  /\ Len(t) <= MaxEntries
  /\ table' = t
  /\ dirty' = TRUE
  /\ UNCHANGED <<file, fault>>

(* cfg_write(section, id, value) when there is no such section.            *)
AddSection(s, k, v) ==
  /\ table # NULL
  /\ SectionAt(table, s) = 0
  /\ Changed(table \o <<SectionOf(s), Pair(k, v)>>)
  /\ max' = Room(Len(table) + 2, Room(Len(table) + 1, max))

Update(s, k, v) ==
  /\ table # NULL
  /\ LET p == SectionAt(table, s)
         i == KeyAt(table, p, k)
     IN  p # 0 /\ i # 0 /\ Changed([table EXCEPT ![i].value = v])
  /\ UNCHANGED max

(* The key is new in a section that is not the last.  The pointer into the *)
(* table stays on the old block when the table must grow, and the entries  *)
(* moved reach one past the new length.  cfg_write may die of it or return *)
(* 0 with entries and heap damaged: no state after it is claimed anything  *)
(* of.                                                                     *)
Insert(s, k, v) ==
  /\ table # NULL
  /\ LET p == SectionAt(table, s)
         n == NextSection(table, p)
     IN  /\ p # 0
         /\ KeyAt(table, p, k) = 0
         /\ n <= Len(table)
         /\ \/ /\ Len(table) + 1 < max
               /\ Changed(InsertAt(table, n, Pair(k, v)))
               /\ UNCHANGED max
            \/ /\ Len(table) + 1 >= max
               /\ Crash("overrun")

(* Mutant: the entry is stored without making room for it.                 *)
AppendKey_NoRoom(s, k, v) ==
  /\ table # NULL
  /\ LET p == SectionAt(table, s)
     IN  /\ p # 0
         /\ KeyAt(table, p, k) = 0
         /\ NextSection(table, p) = Len(table) + 1
  /\ Changed(Append(table, Pair(k, v)))
  /\ UNCHANGED max

AppendKey(s, k, v) ==
  /\ table # NULL
  /\ LET p == SectionAt(table, s)
     IN  /\ p # 0
         /\ KeyAt(table, p, k) = 0
         /\ NextSection(table, p) = Len(table) + 1
  /\ Changed(Append(table, Pair(k, v)))
  /\ max' = Room(Len(table) + 1, max)

Set(s, k, v) ==
  AddSection(s, k, v) \/ Update(s, k, v) \/ Insert(s, k, v) \/ AppendKey(s, k, v)

(* Mutant: the last of the entries stays behind.                           *)
Delete_OneShort(a, b) ==
  /\ Changed(SubSeq(table, 1, a - 1) \o SubSeq(table, b - 1, Len(table)))
  /\ UNCHANGED max

(* The entries a..b-1 go, with what they own.                              *)
Delete(a, b) ==
  /\ Changed(SubSeq(table, 1, a - 1) \o SubSeq(table, b, Len(table)))
  /\ UNCHANGED max

(* cfg_write(section, id, NULL): the key and the block remarks above it.   *)
RemoveKey(s, k) ==
  /\ table # NULL
  /\ LET p == SectionAt(table, s)
         i == KeyAt(table, p, k)
     IN  p # 0 /\ i # 0 /\ Delete(NotesAbove(table, i), i + 1)

(* cfg_write(section, NULL, NULL): the block remarks above the section go, *)
(* those above the next one stay.  With nothing else above, the search for *)
(* remarks reads the entry before the first.                               *)
RemoveSection(s) ==
  /\ table # NULL
  /\ LET p == SectionAt(table, s)
         a == NotesAbove(table, p)
     IN  /\ p # 0
         /\ \/ Delete(a, NotesAbove(table, NextSection(table, p)))
            \/ a = 1 /\ Crash("underrun")

(* ini_setstr: cfg_write without a section updates the first such key of   *)
(* the file; a new key is looked for beyond the end of the table.          *)
IniSet(k, v) ==
  /\ table # NULL
  /\ LET i == SelectInSeq(table, LAMBDA e : e.id = Plain(k))
     IN  \/ /\ i # 0
            /\ Changed([table EXCEPT ![i].value = v])
            /\ UNCHANGED max
         \/ /\ i = 0
            /\ Crash("walk")

(* ini_getstr compares the name of a section that comes first with a null  *)
(* pointer.                                                                *)
IniGetFails ==
  /\ table # NULL
  /\ Visible(table) # <<>>
  /\ Visible(table)[1].section # NULL
  /\ Crash("null")

(* Cfg_GetKeys compares the section of a pair that has none.               *)
GetKeysFails ==
  /\ table # NULL
  /\ \E i \in Body(table, 0) : table[i].id # NULL
  /\ Crash("null")

Next ==
  \/ Open
  \/ Done
  \/ Commit
  \/ \E s \in Section, k \in Key, v \in Value : Set(s, k, v)
  \/ \E s \in Section, k \in Key : RemoveKey(s, k)
  \/ \E s \in Section : RemoveSection(s)
  \/ \E k \in Key, v \in Value : IniSet(k, v)
  \/ IniGetFails
  \/ GetKeysFails

Spec == Init /\ [][Next]_vars
-----------------------------------------------------------------------------
(* Properties.                                                             *)

(* The types of the state, the entries within the allocation.              *)
TypeOK ==
  /\ file \in Seq(Line)
  /\ table = NULL \/ table \in Seq(Entry)
  /\ max \in Nat
  /\ dirty \in BOOLEAN
  /\ fault \in Faults \cup {NULL}
  /\ table # NULL => Len(table) <= max

(* The settings that cfg_find sees in a table.                             *)
Lookup[t \in Seq(Entry)] == [s \in Section |-> [k \in Key |-> Find(t, s, k)]]

Promise == INSTANCE Settings WITH
  saved <- Lookup[Parse(file)],
  draft <- IF table = NULL THEN NULL ELSE Lookup[table]

(* Seen through cfg_find, the table of cfgfile.cpp is a map: a call        *)
(* changes one item or drops one section, whatever the order of lines and  *)
(* remarks, and a commit makes the edited map the one that the next        *)
(* cfg_init reads.                                                         *)
ImplementsSettings == Promise!Spec

(* The call, unless it ends the program, makes m of the settings.          *)
Makes(m) == table' # NULL => Lookup[table'] = m

(* The change is the one that was asked for: the item that the next        *)
(* cfg_find of the same section and key sees, and no other, although       *)
(* cfg_write searches the table by itself (cfgfile.cpp:864-1057).          *)
EditsReachTheirItem ==
  [][\A s \in Section :
       /\ RemoveSection(s) => Makes(Promise!RemoveSection(Lookup[table], s))
       /\ \A k \in Key :
            /\ RemoveKey(s, k) => Makes(Promise!Set(Lookup[table], s, k, NULL))
            /\ \A v \in Value : Set(s, k, v) => Makes(Promise!Set(Lookup[table], s, k, v))]_vars

(* A table that has no changes reads back from the file as it is: the      *)
(* entries, their order and their remarks (_cfg_parse undoes _cfg_output). *)
SavedIsRead == table # NULL /\ ~dirty => Parse(file) = table
=============================================================================
