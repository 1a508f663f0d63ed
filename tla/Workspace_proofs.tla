--------------------------- MODULE Workspace_proofs ---------------------------
(***************************************************************************)
(* What holds of the node cache however many launches share a workspace    *)
(* and whatever is saved, cleared, imported or restarted between: a copy   *)
(* that is not behind is the file, and every entry is under its own key.   *)
(***************************************************************************)
EXTENDS Workspace, FiniteSetTheorems, TLAPS

\* The launches, the copies and the budgets keep their shape.
LaunchShape ==
  DOMAIN launched = Runs /\ \A i \in Runs : DOMAIN launched[i] = DOMAIN Off
CopyShape ==
  /\ DOMAIN copies = Caches
  /\ \A c \in Caches :
       /\ DOMAIN copies[c] = {"loaded", "entries", "stale"}
       /\ copies[c].loaded \in BOOLEAN /\ copies[c].stale \in BOOLEAN
LeftShape == left \in [Kinds -> Nat]
IndexShape == index = [k \in DOMAIN index |-> index[k]]
Shaped == LaunchShape /\ CopyShape /\ LeftShape /\ IndexShape

\* A copy that is not behind the file is the file.
Fresh == \A c \in Caches : copies[c].loaded /\ ~copies[c].stale => copies[c].entries = index

\* Every entry is under the key of the request it was made for.
UnderItsKey(entries) ==
  \A k \in DOMAIN entries : k = CacheKey(entries[k].made.def, entries[k].made.ins)
Keyed == UnderItsKey(index) /\ \A c \in Caches : UnderItsKey(copies[c].entries)

\* A node that was served asked for what the entry was made for.
Served ==
  \A i \in Runs : launched[i].phase = "served" =>
    CacheKey(launched[i].made.def, launched[i].made.ins) = Key(i)

CacheInv == Shaped /\ Fresh /\ Keyed /\ Served

-----------------------------------------------------------------------------
(* What the operations of a Cache do to the copies and to the file.        *)

\* An operation that spends leaves the other budgets alone.
LEMMA SpendType ==
  ASSUME LeftShape, NEW kind \in Kinds, Spend(kind)
  PROVE  LeftShape' /\ \A k \in Kinds : k # kind => left'[k] = left[k]
BY DEF LeftShape, Spend

\* The entries a Cache works on are under their keys, and are the file's
\* when its copy is not behind.
LEMMA LoadedEntries ==
  ASSUME CopyShape, Fresh, Keyed, NEW c \in Caches
  PROVE  /\ UnderItsKey(Loaded(c).entries)
         /\ ~copies[c].stale => Loaded(c).entries = index
         /\ DOMAIN Loaded(c) = {"loaded", "entries", "stale"}
         /\ Loaded(c).loaded = TRUE /\ Loaded(c).stale \in BOOLEAN
         /\ ~Loaded(c).stale => Loaded(c).entries = index
BY DEF CopyShape, Fresh, Keyed, Loaded

\* A save: its copy is the file, every other loaded copy is behind.
LEMMA SavedCopies ==
  ASSUME CopyShape, NEW c \in Caches, NEW entries, Saved(c, entries),
         entries = [k \in DOMAIN entries |-> entries[k]]
  PROVE  CopyShape' /\ IndexShape' /\ Fresh'
BY DEF CopyShape, IndexShape, Fresh, Saved

\* A save of entries under their keys keeps every entry under its key.
LEMMA SavedKeys ==
  ASSUME CopyShape, Keyed, NEW c \in Caches, NEW entries, Saved(c, entries),
         UnderItsKey(entries)
  PROVE  Keyed'
<1>1. UnderItsKey(index)'
  BY DEF Saved, UnderItsKey
<1>2. ASSUME NEW x \in Caches PROVE UnderItsKey(copies[x].entries)'
  <2>1. copies'[x].entries \in {entries, copies[x].entries}
    BY DEF Saved, CopyShape
  <2> QED
    BY <2>1 DEF UnderItsKey, Keyed
<1> QED
  BY <1>1, <1>2 DEF Keyed

\* A copy that is read from the file, or was read before.
LEMMA LoadedCopies ==
  ASSUME CopyShape, IndexShape, Fresh, Keyed, NEW c \in Caches,
         index' = index, copies' = [copies EXCEPT ![c] = Loaded(c)]
  PROVE  CopyShape' /\ IndexShape' /\ Fresh' /\ Keyed'
<1>1. \A x \in Caches : copies'[x] = IF x = c THEN Loaded(c) ELSE copies[x]
  BY DEF CopyShape
<1>2. CopyShape' /\ IndexShape' /\ Fresh'
  BY <1>1, LoadedEntries DEF CopyShape, IndexShape, Fresh
<1>3. UnderItsKey(index)' /\ \A x \in Caches : UnderItsKey(copies[x].entries)'
  <2>1. UnderItsKey(index)'
    BY DEF Keyed, UnderItsKey
  <2>2. ASSUME NEW x \in Caches PROVE UnderItsKey(copies[x].entries)'
    <3>1. CASE x = c
      <4>1. copies'[x].entries = Loaded(c).entries
        BY <1>1, <3>1
      <4> QED
        BY <4>1, LoadedEntries DEF UnderItsKey
    <3>2. CASE x # c
      <4>1. copies'[x].entries = copies[x].entries
        BY <1>1, <3>2
      <4> QED
        BY <4>1 DEF UnderItsKey, Keyed
    <3> QED
      BY <3>1, <3>2
  <2> QED
    BY <2>1, <2>2
<1> QED
  BY <1>2, <1>3 DEF Keyed

\* A copy that is forgotten.
LEMMA UnloadedCopies ==
  ASSUME CopyShape, IndexShape, Fresh, Keyed, NEW c \in Caches,
         index' = index, copies' = [copies EXCEPT ![c] = Unloaded]
  PROVE  CopyShape' /\ IndexShape' /\ Fresh' /\ Keyed'
<1>1. \A x \in Caches : copies'[x] = IF x = c THEN Unloaded ELSE copies[x]
  BY DEF CopyShape
<1>2. CopyShape' /\ IndexShape' /\ Fresh'
  BY <1>1 DEF CopyShape, IndexShape, Fresh, Unloaded
<1>3. UnderItsKey(Unloaded.entries)
  BY DEF UnderItsKey, Unloaded, Empty
<1>4. Keyed'
  BY <1>1, <1>3 DEF Keyed, UnderItsKey
<1> QED
  BY <1>2, <1>4

\* Neither the file nor a copy changes.
LEMMA SameCopies ==
  ASSUME CopyShape, IndexShape, Fresh, Keyed, index' = index, copies' = copies
  PROVE  CopyShape' /\ IndexShape' /\ Fresh' /\ Keyed'
BY DEF CopyShape, IndexShape, Fresh, Keyed, UnderItsKey

\* No launch changes.
LEMMA SameLaunches ==
  ASSUME LaunchShape, Served, launched' = launched
  PROVE  LaunchShape' /\ Served'
BY DEF LaunchShape, Served, Key

\* Nothing was ever cached.
LEMMA EmptyIndex == Empty = [k \in DOMAIN Empty |-> Empty[k]] /\ UnderItsKey(Empty)
BY DEF Empty, UnderItsKey

\* An entry is put under the key of its own request.
LEMMA WithEntryKeys ==
  ASSUME NEW entries, UnderItsKey(entries), NEW key, NEW entry,
         key = CacheKey(entry.made.def, entry.made.ins)
  PROVE  /\ UnderItsKey(WithEntry(entries, key, entry))
         /\ WithEntry(entries, key, entry)
              = [k \in DOMAIN WithEntry(entries, key, entry) |-> WithEntry(entries, key, entry)[k]]
<1> DEFINE new == WithEntry(entries, key, entry)
<1>1. DOMAIN new = DOMAIN entries \cup {key}
  BY DEF WithEntry
<1>2. \A k \in DOMAIN new : new[k] = IF k = key THEN entry ELSE entries[k]
  BY DEF WithEntry
<1>3. new = [k \in DOMAIN new |-> new[k]]
  BY DEF WithEntry
<1>4. UnderItsKey(new)
  <2> SUFFICES ASSUME NEW k \in DOMAIN new
               PROVE  k = CacheKey(new[k].made.def, new[k].made.ins)
    BY DEF UnderItsKey
  <2>1. CASE k = key
    BY <1>2, <2>1
  <2>2. CASE k # key
    BY <1>1, <1>2, <2>2 DEF UnderItsKey
  <2> QED
    BY <2>1, <2>2
<1> QED
  BY <1>3, <1>4

\* Removing entries leaves the others under their keys.
LEMMA WithoutKeys ==
  ASSUME NEW entries, UnderItsKey(entries), NEW keys
  PROVE  /\ UnderItsKey(Without(entries, keys))
         /\ Without(entries, keys)
              = [k \in DOMAIN Without(entries, keys) |-> Without(entries, keys)[k]]
BY DEF Without, UnderItsKey

-----------------------------------------------------------------------------
(* The invariant.                                                          *)

\* An empty workspace: no entry, no copy, no launch.
LEMMA CacheInit == Init => CacheInv
<1> SUFFICES ASSUME Init PROVE CacheInv
  OBVIOUS
<1>1. LeftShape
  BY ScenariosAssumption DEF Init, LibInit, LeftShape
<1>2. LaunchShape /\ \A i \in Runs : launched[i].phase = "off"
  BY DEF Init, LaunchShape, Off
<1>3. CopyShape /\ Fresh
  BY DEF Init, CopyShape, Fresh, Unloaded
<1>4. IndexShape /\ Keyed
  BY EmptyIndex DEF Init, IndexShape, Keyed, Unloaded
<1> QED
  BY <1>1, <1>2, <1>3, <1>4 DEF CacheInv, Shaped, Served

\* Saves, edits, exports and imports do not reach the cache.
LEMMA LibraryStep == ASSUME CacheInv, LibNext, UNCHANGED shared PROVE CacheInv'
<1> USE DEF CacheInv, Shaped
<1>1. LeftShape'
  <2>1. LeftShape /\ {"save", "edit", "export", "import"} \subseteq Kinds
    BY DEF Kinds
  <2>2. CASE \E r \in Savers, d \in Dirs, b \in menu.bodies : SaveScan(r, d, b)
    BY <2>1, <2>2, SpendType DEF SaveScan
  <2>3. CASE \E r \in Savers : SaveWrite(r)
    BY <2>1, <2>3 DEF SaveWrite, LeftShape
  <2>4. CASE \E d \in Dirs : Export(d) \/ \E v \in ScanVersions(d) : EditWorkflow(d, v)
    BY <2>1, <2>4, SpendType DEF Export, EditWorkflow
  <2>5. CASE BeginImport \/ EndImport
    BY <2>1, <2>5, SpendType DEF BeginImport, EndImport, LeftShape
  <2> QED
    BY <2>2, <2>3, <2>4, <2>5 DEF LibNext
<1> QED
  BY <1>1, SameCopies, SameLaunches DEF shared

\* The caches are cleared, the settings are put, the server starts again.
LEMMA ServiceStep ==
  ASSUME CacheInv,
         OpenForClear \/ ClearAll \/ ClearByCommand \/ RestartServer
           \/ \E mode \in menu.modes : PutSettings(mode)
  PROVE  CacheInv'
<1> USE DEF CacheInv, Shaped
<1>1. Server \in Caches /\ {"open", "clear", "restart", "settings"} \subseteq Kinds
  BY DEF Caches, Kinds
<1>2. CASE OpenForClear
  BY <1>1, <1>2, SpendType, LoadedCopies, SameLaunches DEF OpenForClear
<1>3. CASE ClearAll
  BY <1>1, <1>3, SpendType, EmptyIndex, SavedCopies, SavedKeys, SameLaunches DEF ClearAll
<1>4. CASE ClearByCommand
  <2>1. \A c \in Caches : /\ copies'[c].loaded = copies[c].loaded
                          /\ copies'[c].entries = copies[c].entries
                          /\ copies'[c].stale = copies[c].loaded
    BY <1>4 DEF ClearByCommand, CopyShape
  <2>2. CopyShape' /\ Fresh'
    BY <1>4, <2>1 DEF ClearByCommand, CopyShape, Fresh
  <2>3. IndexShape' /\ Keyed'
    BY <1>4, <2>1, EmptyIndex DEF ClearByCommand, IndexShape, Keyed, UnderItsKey
  <2>4. LeftShape'
    BY <1>1, <1>4, SpendType DEF ClearByCommand
  <2> QED
    BY <1>4, <2>2, <2>3, <2>4, SameLaunches DEF ClearByCommand
<1>5. CASE RestartServer
  BY <1>1, <1>5, SpendType, UnloadedCopies, SameLaunches DEF RestartServer
<1>6. CASE \E mode \in menu.modes : PutSettings(mode)
  BY <1>1, <1>6, SpendType, SameCopies, SameLaunches DEF PutSettings
<1> QED
  BY <1>2, <1>3, <1>4, <1>5, <1>6

\* What one execution recorded is removed from the server's copy.
LEMMA ClearExecutionStep ==
  ASSUME CacheInv, NEW i \in Runs, ClearExecution(i) PROVE CacheInv'
<1> USE DEF CacheInv, Shaped
<1> DEFINE mine == Loaded(Server).entries
<1>1. Server \in Caches /\ "clear" \in Kinds
  BY DEF Caches, Kinds
<1>2. LeftShape'
  BY <1>1, SpendType DEF ClearExecution
<1>3. CASE launched[i].keys \cap DOMAIN mine = {}
  BY <1>1, <1>2, <1>3, LoadedCopies, SameLaunches DEF ClearExecution, Delete
<1>4. CASE launched[i].keys \cap DOMAIN mine # {}
  <2>1. Saved(Server, Without(mine, launched[i].keys))
    BY <1>4 DEF ClearExecution, Delete
  <2>2. UnderItsKey(mine)
    BY <1>1, LoadedEntries
  <2> QED
    BY <1>1, <1>2, <2>1, <2>2, WithoutKeys, SavedCopies, SavedKeys, SameLaunches
       DEF ClearExecution
<1> QED
  BY <1>3, <1>4

\* A launch that changes and was not served by the step leaves the others be.
LEMMA OneLaunch ==
  ASSUME LaunchShape, Served, NEW i \in Runs, NEW new,
         launched' = [launched EXCEPT ![i] = new], DOMAIN new = DOMAIN Off,
         new.phase # "served"
  PROVE  LaunchShape' /\ Served'
<1>1. \A j \in Runs : launched'[j] = IF j = i THEN new ELSE launched[j]
  BY DEF LaunchShape
<1>2. LaunchShape'
  BY <1>1 DEF LaunchShape
<1>3. Served'
  BY <1>1 DEF Served, Key
<1> QED
  BY <1>2, <1>3

\* An idle launch is a launch.
LEMMA IdleLaunch ==
  ASSUME NEW l PROVE DOMAIN Idle(l) = DOMAIN Off /\ Idle(l).phase = "idle"
BY DEF Idle, Off

\* A launch starts with no copy of the index.
LEMMA LaunchStep ==
  ASSUME CacheInv, NEW i \in Runs, NEW d \in Dirs, NEW asked, Launch(i, d, asked)
  PROVE  CacheInv'
<1> USE DEF CacheInv, Shaped
<1>1. i \in Caches /\ "launch" \in Kinds
  BY DEF Caches, Kinds
<1>2. PICK w : launched' = [launched EXCEPT ![i] =
        [Off EXCEPT !.phase = "idle", !.def = w, !.mode = EffectiveCache(asked)]]
  BY DEF Launch
<1> DEFINE new == [Off EXCEPT !.phase = "idle", !.def = w, !.mode = EffectiveCache(asked)]
<1>3. DOMAIN new = DOMAIN Off /\ new.phase # "served"
  BY DEF Off
<1>4. LaunchShape' /\ Served'
  <2>1. launched' = [launched EXCEPT ![i] = new]
    BY <1>2
  <2> HIDE DEF new
  <2> QED
    BY <1>3, <2>1, OneLaunch
<1> QED
  BY <1>1, <1>4, SpendType, UnloadedCopies DEF Launch

\* A node that begins is served from an entry under its own key, or is run.
LEMMA BeginNodeStep ==
  ASSUME CacheInv, NEW i \in Runs, NEW ins, BeginNode(i, ins) PROVE CacheInv'
<1> USE DEF CacheInv, Shaped
<1> DEFINE key == CacheKey(launched[i].def, ins)
           mine == Loaded(i)
           keyed == launched[i].mode # "off"
           hit == keyed /\ key \in DOMAIN mine.entries /\ mine.entries[key].art \in store
           new == [launched[i] EXCEPT
                     !.ins = ins, !.keys = IF keyed THEN @ \cup {key} ELSE @,
                     !.phase = IF hit THEN "served" ELSE "running",
                     !.art = IF hit THEN mine.entries[key].art ELSE NoArtifact,
                     !.made = IF hit THEN mine.entries[key].made ELSE Off.made]
<1>1. i \in Caches /\ "node" \in Kinds
  BY DEF Caches, Kinds
<1>2. LeftShape'
  BY <1>1, SpendType DEF BeginNode
<1>3. CopyShape' /\ IndexShape' /\ Fresh' /\ Keyed'
  BY <1>1, LoadedCopies, SameCopies DEF BeginNode
<1>4. launched' = [launched EXCEPT ![i] = new]
  BY DEF BeginNode
<1>5. DOMAIN launched[i] = DOMAIN Off
  BY DEF LaunchShape
<1>6. /\ DOMAIN new = DOMAIN Off /\ new.ins = ins /\ new.def = launched[i].def
      /\ new.phase = (IF hit THEN "served" ELSE "running")
      /\ hit => new.made = mine.entries[key].made
  BY <1>5 DEF Off
<1>7. hit => CacheKey(new.made.def, new.made.ins) = CacheKey(new.def, new.ins)
  <2>1. UnderItsKey(mine.entries)
    BY <1>1, LoadedEntries
  <2>2. hit => key = CacheKey(mine.entries[key].made.def, mine.entries[key].made.ins)
    BY <2>1 DEF UnderItsKey
  <2> QED
    BY <1>6, <2>2
<1> HIDE DEF new, hit
<1>8. \A j \in Runs : launched'[j] = IF j = i THEN new ELSE launched[j]
  BY <1>4 DEF LaunchShape
<1>9. LaunchShape'
  BY <1>4, <1>6, <1>8 DEF LaunchShape
<1>10. Served'
  BY <1>6, <1>7, <1>8 DEF Served, Key
<1> QED
  BY <1>2, <1>3, <1>9, <1>10

\* An artifact is checked, refused or committed.
LEMMA ArtifactStep ==
  ASSUME CacheInv, NEW i \in Runs, NEW a,
         CheckArtifact(i, a) \/ RefuseArtifact(i, a) \/ CommitArtifact(i)
  PROVE  CacheInv'
<1> USE DEF CacheInv, Shaped
<1>1. DOMAIN launched = Runs /\ DOMAIN launched[i] = DOMAIN Off
  BY DEF LaunchShape
<1>2. LeftShape' /\ CopyShape' /\ IndexShape' /\ Fresh' /\ Keyed'
  BY SameCopies DEF CheckArtifact, RefuseArtifact, CommitArtifact, LeftShape
<1>3. CASE CheckArtifact(i, a)
  <2> DEFINE new == [launched[i] EXCEPT !.phase = "checked", !.art = a]
  <2>1. launched' = [launched EXCEPT ![i] = new]
    BY <1>3, <1>1 DEF CheckArtifact
  <2>2. DOMAIN new = DOMAIN Off /\ new.phase # "served"
    BY <1>1 DEF Off
  <2> HIDE DEF new
  <2> QED
    BY <1>2, <2>1, <2>2, OneLaunch
<1>4. CASE RefuseArtifact(i, a)
  BY <1>2, <1>4, IdleLaunch, OneLaunch DEF RefuseArtifact
<1>5. CASE CommitArtifact(i)
  <2> DEFINE new == [launched[i] EXCEPT !.phase = "stored"]
  <2>1. launched' = [launched EXCEPT ![i] = new]
    BY <1>5, <1>1 DEF CommitArtifact
  <2>2. DOMAIN new = DOMAIN Off /\ new.phase # "served"
    BY <1>1 DEF Off
  <2> HIDE DEF new
  <2> QED
    BY <1>2, <2>1, <2>2, OneLaunch
<1> QED
  BY <1>3, <1>4, <1>5

\* A node ends, recorded or not; a launch goes on, or returns.
LEMMA EndStep ==
  ASSUME CacheInv, NEW i \in Runs, EndNode(i) \/ Continue(i) \/ Return(i)
  PROVE  CacheInv'
<1> USE DEF CacheInv, Shaped
<1>1. i \in Caches
  BY DEF Caches
<1>2. LeftShape'
  BY DEF EndNode, Continue, Return, LeftShape
<1>3. CASE EndNode(i)
  <2> DEFINE mine == Loaded(i).entries
             after == WithEntry(mine, Key(i), Entry(i))
  <2>1. LaunchShape' /\ Served'
    BY <1>3, IdleLaunch, OneLaunch DEF EndNode
  <2>2. CASE launched[i].mode = "on"
    <3>1. Saved(i, after)
      BY <1>3, <2>2 DEF EndNode, Put
    <3>2. UnderItsKey(mine)
      BY <1>1, LoadedEntries
    <3>3. Key(i) = CacheKey(Entry(i).made.def, Entry(i).made.ins)
      BY DEF Key, Entry
    <3>4. UnderItsKey(after) /\ after = [k \in DOMAIN after |-> after[k]]
      BY <3>2, <3>3, WithEntryKeys
    <3> HIDE DEF after
    <3> QED
      BY <1>1, <1>2, <2>1, <3>1, <3>4, SavedCopies, SavedKeys
  <2>3. CASE launched[i].mode # "on"
    BY <1>2, <1>3, <2>1, <2>3, SameCopies DEF EndNode
  <2> QED
    BY <2>2, <2>3
<1>4. CASE Continue(i)
  BY <1>2, <1>4, IdleLaunch, OneLaunch, SameCopies DEF Continue
<1>5. CASE Return(i)
  <2> DEFINE new == [Off EXCEPT !.keys = launched[i].keys]
  <2>1. launched' = [launched EXCEPT ![i] = new]
    BY <1>5 DEF Return
  <2>2. DOMAIN new = DOMAIN Off /\ new.phase # "served"
    BY DEF Off
  <2> HIDE DEF new
  <2> QED
    BY <1>1, <1>2, <1>5, <2>1, <2>2, OneLaunch, UnloadedCopies DEF Return
<1> QED
  BY <1>3, <1>4, <1>5

\* Every step keeps the invariant.
LEMMA CacheStep == CacheInv /\ [Next \/ UNCHANGED vars]_vars => CacheInv'
<1> SUFFICES ASSUME CacheInv, [Next \/ UNCHANGED vars]_vars PROVE CacheInv'
  OBVIOUS
<1>1. CASE UNCHANGED vars
  BY <1>1, SameCopies, SameLaunches DEF vars, CacheInv, Shaped, LeftShape
<1>2. CASE LibNext /\ UNCHANGED shared
  BY <1>2, LibraryStep
<1>3. CASE OpenForClear \/ ClearAll \/ ClearByCommand \/ RestartServer
             \/ \E mode \in menu.modes : PutSettings(mode)
  BY <1>3, ServiceStep
<1>4. ASSUME NEW i \in Runs, ClearExecution(i) PROVE CacheInv'
  BY <1>4, ClearExecutionStep
<1>5. ASSUME NEW i \in Runs, NEW d \in Dirs, NEW asked \in menu.asked, Launch(i, d, asked)
      PROVE  CacheInv'
  BY <1>5, LaunchStep
<1>6. ASSUME NEW i \in Runs, NEW ins \in menu.ins, BeginNode(i, ins) PROVE CacheInv'
  BY <1>6, BeginNodeStep
<1>7. ASSUME NEW i \in Runs, NEW a \in menu.arts, CheckArtifact(i, a) \/ RefuseArtifact(i, a)
      PROVE  CacheInv'
  BY <1>7, ArtifactStep
<1>8. ASSUME NEW i \in Runs, CommitArtifact(i) PROVE CacheInv'
  BY <1>8, ArtifactStep
<1>9. ASSUME NEW i \in Runs, EndNode(i) \/ Continue(i) \/ Return(i) PROVE CacheInv'
  BY <1>9, EndStep
<1> QED
  BY <1>1, <1>2, <1>3, <1>4, <1>5, <1>6, <1>7, <1>8, <1>9 DEF Next

\* Whatever happens to the workspace (core/cache), a copy that is not behind
\* is the file and every entry, also of a copy that is, is under its own key.
THEOREM CacheInvariant == Spec => []CacheInv
<1> QED
  BY CacheInit, CacheStep, PTL DEF Spec

-----------------------------------------------------------------------------
(* What follows.                                                           *)

\* Requests with one key are the same request (cache/key.go:25).
LEMMA KeyDecides ==
  ASSUME NEW l, CacheKey(l.made.def, l.made.ins) = CacheKey(l.def, l.ins)
  PROVE  SameRequest(l)
BY DEF CacheKey, SameRequest

\* A node served from the cache (cache/store.go:49, cache/key.go:25) gets what
\* a run of the same version and contract put out for the same inputs,
\* whatever the copies and the file went through.
THEOREM HitsMatch == Spec => []ServedRight
<1>1. CacheInv => ServedRight
  BY KeyDecides DEF CacheInv, Served, ServedRight, Key
<1> QED
  BY <1>1, CacheInvariant, PTL

\* A launch that was ready to record and is idle has recorded.
LEMMA OnlyEndNodeRecords ==
  ASSUME CacheInv, Next, NEW i \in Runs, Recorded(i)
  PROVE  EndNode(i)
<1> USE DEF Recorded
<1>1. DOMAIN launched = Runs
  BY DEF CacheInv, Shaped, LaunchShape
<1>2. launched[i].phase = "stored" /\ launched'[i].phase = "idle" /\ launched' # launched
  OBVIOUS
<1>3. ~(LibNext /\ UNCHANGED shared)
  BY <1>2 DEF shared
<1>4. ~(OpenForClear \/ ClearAll \/ ClearByCommand \/ RestartServer)
  BY <1>2 DEF OpenForClear, ClearAll, ClearByCommand, RestartServer
<1>5. ~\E mode \in menu.modes : PutSettings(mode)
  BY <1>2 DEF PutSettings
<1>6. ASSUME NEW j \in Runs PROVE ~ClearExecution(j)
  BY <1>2 DEF ClearExecution
<1>7. ASSUME NEW j \in Runs, NEW d \in Dirs, NEW asked \in menu.asked PROVE ~Launch(j, d, asked)
  <2>1. CASE j = i
    BY <1>2, <2>1 DEF Launch
  <2>2. CASE j # i
    BY <1>1, <1>2, <2>2 DEF Launch
  <2> QED
    BY <2>1, <2>2
<1>8. ASSUME NEW j \in Runs, NEW ins \in menu.ins PROVE ~BeginNode(j, ins)
  <2>1. CASE j = i
    BY <1>2, <2>1 DEF BeginNode
  <2>2. CASE j # i
    BY <1>1, <1>2, <2>2 DEF BeginNode
  <2> QED
    BY <2>1, <2>2
<1>9. ASSUME NEW j \in Runs, NEW a \in menu.arts
      PROVE  ~CheckArtifact(j, a) /\ ~RefuseArtifact(j, a)
  <2>1. CASE j = i
    BY <1>2, <2>1 DEF CheckArtifact, RefuseArtifact
  <2>2. CASE j # i
    BY <1>1, <1>2, <2>2 DEF CheckArtifact, RefuseArtifact
  <2> QED
    BY <2>1, <2>2
<1>10. ASSUME NEW j \in Runs, CommitArtifact(j) \/ EndNode(j) \/ Continue(j) \/ Return(j)
       PROVE  EndNode(i)
  <2>1. CASE j = i
    <3>1. ~CommitArtifact(i) /\ ~Continue(i)
      BY <1>2 DEF CommitArtifact, Continue
    <3>2. ~Return(i)
      BY <1>1, <1>2 DEF Return, Off
    <3> QED
      BY <1>10, <2>1, <3>1, <3>2
  <2>2. CASE j # i
    BY <1>1, <1>2, <1>10, <2>2 DEF CommitArtifact, EndNode, Continue, Return
  <2> QED
    BY <2>1, <2>2
<1> QED
  BY <1>3, <1>4, <1>5, <1>6, <1>7, <1>8, <1>9, <1>10 DEF Next

\* Only the three ways to clear use up a clear.
LEMMA OnlyClearsClear ==
  ASSUME CacheInv, Next, left'["clear"] < left["clear"]
  PROVE  ClearAll \/ ClearByCommand \/ \E i \in Runs : ClearExecution(i)
<1>1. LeftShape /\ Kinds = {"save", "edit", "export", "import", "launch", "node", "clear",
                            "open", "settings", "restart"}
  BY DEF CacheInv, Shaped, Kinds
<1>2. left' # left
  BY <1>1 DEF LeftShape
<1>3. ASSUME NEW kind \in Kinds, Spend(kind) PROVE kind = "clear"
  <2>1. left["clear"] \in Nat /\ (kind # "clear" => left'["clear"] = left["clear"])
    BY <1>1, <1>3, SpendType DEF LeftShape
  <2> QED
    BY <2>1
<1>4. ~(LibNext /\ UNCHANGED shared)
  BY <1>1, <1>2, <1>3
     DEF LibNext, SaveScan, SaveWrite, Export, EditWorkflow, BeginImport, EndImport
<1>5. ~OpenForClear /\ ~RestartServer /\ ~\E mode \in menu.modes : PutSettings(mode)
  BY <1>1, <1>3 DEF OpenForClear, RestartServer, PutSettings
<1>6. ASSUME NEW i \in Runs
      PROVE  /\ \A d \in Dirs, asked \in menu.asked : ~Launch(i, d, asked)
             /\ \A ins \in menu.ins : ~BeginNode(i, ins)
             /\ \A a \in menu.arts : ~CheckArtifact(i, a) /\ ~RefuseArtifact(i, a)
             /\ ~CommitArtifact(i) /\ ~EndNode(i) /\ ~Continue(i) /\ ~Return(i)
  BY <1>1, <1>2, <1>3
     DEF Launch, BeginNode, CheckArtifact, RefuseArtifact, CommitArtifact, EndNode,
         Continue, Return
<1> QED
  BY <1>4, <1>5, <1>6 DEF Next

\* What a save of the index changes is what its caller meant (cache/store.go:61,
\* inspect.go:54) as long as the caller's copy is not behind the file, for any
\* number of launches, clears and restarts.
THEOREM SavesExact == Spec => SavesAreExact
<1>1. CacheInv /\ [Next \/ UNCHANGED vars]_vars => [SaveAdds /\ ClearTakes]_vars
  <2> SUFFICES ASSUME CacheInv, Next PROVE SaveAdds /\ ClearTakes
    BY DEF vars
  <2>1. CopyShape /\ Fresh /\ Keyed /\ IndexShape
    BY DEF CacheInv, Shaped
  <2>2. SaveAdds
    <3> SUFFICES ASSUME NEW i \in Runs, Recorded(i), ~copies[i].stale
                 PROVE  index' = WithEntry(index, Key(i), Entry(i))
      BY DEF SaveAdds
    <3>1. EndNode(i) /\ launched[i].mode = "on"
      BY OnlyEndNodeRecords DEF Recorded
    <3>2. index' = WithEntry(Loaded(i).entries, Key(i), Entry(i))
      BY <3>1 DEF EndNode, Put, Saved
    <3>3. Loaded(i).entries = index
      BY <2>1, LoadedEntries DEF Caches
    <3> QED
      BY <3>2, <3>3
  <2>3. ClearTakes
    <3> SUFFICES ASSUME left'.clear < left.clear, ~copies[Server].stale
                 PROVE  \/ index' = Empty
                        \/ \E i \in Runs : /\ launched[i].keys # {}
                                           /\ index' = Without(index, launched[i].keys)
      BY DEF ClearTakes
    <3>1. CASE ClearAll \/ ClearByCommand
      BY <3>1 DEF ClearAll, ClearByCommand, Saved
    <3>2. ASSUME NEW i \in Runs, ClearExecution(i)
          PROVE  launched[i].keys # {} /\ index' = Without(index, launched[i].keys)
      <4>1. Loaded(Server).entries = index
        BY <2>1, LoadedEntries DEF Caches
      <4>2. CASE launched[i].keys \cap DOMAIN index = {}
        <5>1. index' = index /\ launched[i].keys # {}
          BY <3>2, <4>1, <4>2 DEF ClearExecution, Delete
        <5>2. DOMAIN index \ launched[i].keys = DOMAIN index
          BY <4>2
        <5>3. Without(index, launched[i].keys) = index
          BY <2>1, <5>2 DEF Without, IndexShape
        <5> QED
          BY <5>1, <5>3
      <4>3. CASE launched[i].keys \cap DOMAIN index # {}
        BY <3>2, <4>1, <4>3 DEF ClearExecution, Delete, Saved
      <4> QED
        BY <4>2, <4>3
    <3> QED
      BY <3>1, <3>2, OnlyClearsClear
  <2> QED
    BY <2>2, <2>3
<1> QED
  BY <1>1, CacheInvariant, PTL DEF Spec, SavesAreExact

-----------------------------------------------------------------------------
(* Versions are ordered, and a save mints one past all it found.           *)

Place(a, b, c, d) == 200 * a + 20 * b + 2 * c + d
Rank(v) == Place(v.major, v.minor, v.patch, IF v.pre = "none" THEN 0 ELSE 1)

Top == 2000
Ranks == 0..(Top - 1)

PlacesDecide(a1, a2, a3, a4, b1, b2, b3, b4) ==
  /\ Place(a1, a2, a3, a4) \in Ranks
  /\ Place(a1, a2, a3, a4) = Place(b1, b2, b3, b4)
       => a1 = b1 /\ a2 = b2 /\ a3 = b3 /\ a4 = b4
  /\ Place(a1, a2, a3, a4) < Place(b1, b2, b3, b4)
       <=> \/ a1 < b1
           \/ a1 = b1 /\ a2 < b2
           \/ a1 = b1 /\ a2 = b2 /\ a3 < b3
           \/ a1 = b1 /\ a2 = b2 /\ a3 = b3 /\ a4 < b4

LEMMA Places ==
  ASSUME NEW a1 \in Digit, NEW a2 \in Digit, NEW a3 \in Digit, NEW a4 \in 0..1,
         NEW b1 \in Digit, NEW b2 \in Digit, NEW b3 \in Digit, NEW b4 \in 0..1
  PROVE  PlacesDecide(a1, a2, a3, a4, b1, b2, b3, b4)
BY DEF PlacesDecide, Place, Ranks, Top, Digit

\* The arithmetic of ranks, for whatever the provers know to be in their range.
LEMMA RankSums ==
  ASSUME NEW r \in Ranks, NEW q \in Ranks
  PROVE  /\ r <= q <=> ~(q < r)
         /\ r <= q <=> Top - q <= Top - r
         /\ r <= q => r < q + 2
         /\ Top - r \in Nat
BY DEF Ranks, Top

LEMMA RankBack == ASSUME NEW r \in Ranks, NEW q \in Ranks, r < q PROVE ~(q < r)
BY DEF Ranks, Top

LEMMA RankMiddle ==
  ASSUME NEW r \in Ranks, NEW q \in Ranks, NEW p \in Ranks, ~(r < p), r < q
  PROVE  p < q
BY DEF Ranks, Top

LEMMA RankOrders ==
  ASSUME NEW a \in Versions, NEW b \in Versions
  PROVE  /\ Rank(a) \in Ranks /\ (SemverLess(a, b) <=> Rank(a) < Rank(b))
         /\ Rank(a) = Rank(b) => a = b
<1> DEFINE Last4(v) == IF v.pre = "none" THEN 0 ELSE 1
<1>1. /\ a.major \in Digit /\ a.minor \in Digit /\ a.patch \in Digit /\ a.pre \in {"none", "beta"}
      /\ b.major \in Digit /\ b.minor \in Digit /\ b.patch \in Digit /\ b.pre \in {"none", "beta"}
  BY DEF Versions
<1>2. /\ Last4(a) \in 0..1 /\ Last4(b) \in 0..1 /\ (Last4(a) = Last4(b) <=> a.pre = b.pre)
      /\ Last4(a) < Last4(b) <=> a.pre = "none" /\ b.pre # "none"
  BY <1>1
<1>3. a = b <=> /\ a.major = b.major /\ a.minor = b.minor
                /\ a.patch = b.patch /\ a.pre = b.pre
  BY DEF Versions
<1>4. a = [b EXCEPT !.pre = "none"] <=>
        a.major = b.major /\ a.minor = b.minor /\ a.patch = b.patch /\ a.pre = "none"
  BY DEF Versions
<1>5. /\ Rank(a) = Place(a.major, a.minor, a.patch, Last4(a))
      /\ Rank(b) = Place(b.major, b.minor, b.patch, Last4(b))
  BY DEF Rank
<1>6. SemverLess(a, b) <=>
        \/ a.major < b.major
        \/ a.major = b.major /\ a.minor < b.minor
        \/ a.major = b.major /\ a.minor = b.minor /\ a.patch < b.patch
        \/ a.major = b.major /\ a.minor = b.minor /\ a.patch = b.patch /\ Last4(a) < Last4(b)
  BY <1>2, <1>4 DEF SemverLess
<1> HIDE DEF Last4
<1>7. /\ Rank(a) \in Ranks
      /\ Rank(a) = Rank(b) => a.major = b.major /\ a.minor = b.minor
                                /\ a.patch = b.patch /\ Last4(a) = Last4(b)
      /\ Rank(a) < Rank(b) <=> SemverLess(a, b)
  <2>1. PlacesDecide(a.major, a.minor, a.patch, Last4(a), b.major, b.minor, b.patch, Last4(b))
    BY <1>1, <1>2, Places
  <2> QED
    BY <2>1, <1>5, <1>6 DEF PlacesDecide
<1> QED
  BY <1>2, <1>3, <1>7

Below == { ss \in Nat \X Nat : ss[1] < ss[2] }

LEMMA BelowWellFounded == IsWellFoundedOn(Below, Nat)
BY NatLessThanWellFounded DEF OpToRel, Below

LEMMA SomeLowest ==
  ASSUME NEW T \in SUBSET Nat, T # {}
  PROVE  \E n \in T : \A m \in T : n <= m
<1>1. PICK n \in T : \A m \in T : <<m, n>> \notin Below
  BY BelowWellFounded, WFMin
<1>2. \A m \in T : ~(m < n)
  <2> SUFFICES ASSUME NEW m \in T, m < n PROVE FALSE
    OBVIOUS
  <2>1. <<m, n>> \in Nat \X Nat /\ <<m, n>>[1] = m /\ <<m, n>>[2] = n
    OBVIOUS
  <2>2. <<m, n>> \in Below
    BY <2>1 DEF Below
  <2> QED
    BY <1>1, <2>2
<1> QED
  BY <1>2

\* Of some versions one has the highest rank.
LEMMA Highest ==
  ASSUME NEW vs \in SUBSET Versions, vs # {}
  PROVE  \E v \in vs : \A u \in vs : Rank(u) <= Rank(v)
<1> DEFINE T == { Top - Rank(v) : v \in vs }
<1>1. \A v \in vs : Rank(v) \in Ranks
  BY RankOrders
<1>2. T \in SUBSET Nat /\ T # {}
  <2>1. ASSUME NEW v \in vs PROVE Top - Rank(v) \in Nat
    BY <1>1, RankSums
  <2> QED
    BY <2>1
<1>3. PICK n \in T : \A m \in T : n <= m
  <2> HIDE DEF T
  <2> QED
    BY <1>2, SomeLowest
<1>4. PICK v \in vs : n = Top - Rank(v)
  BY <1>3
<1>5. ASSUME NEW u \in vs PROVE Rank(u) <= Rank(v)
  <2>1. n <= Top - Rank(u)
    BY <1>3
  <2>2. Rank(u) \in Ranks /\ Rank(v) \in Ranks /\ Top - Rank(v) <= Top - Rank(u)
    BY <1>1, <1>4, <2>1
  <2> QED
    BY <2>2, RankSums
<1> QED
  BY <1>4, <1>5

\* What nextPatchVersion mints is higher than every version it found
\* (server.go:797), unless the highest of them does not parse.
LEMMA MintsHigher ==
  ASSUME NEW vs \in SUBSET Versions, vs # {}, Parsed(Latest(vs)), NextPatch(vs) \in Versions
  PROVE  \A u \in vs : SemverLess(u, NextPatch(vs))
<1> DEFINE v == Latest(vs)
<1>1. v \in vs /\ \A u \in vs : ~SemverLess(v, u)
  <2>1. \E x \in vs : \A u \in vs : ~SemverLess(x, u)
    <3>1. PICK x \in vs : \A u \in vs : Rank(u) <= Rank(x)
      BY Highest
    <3>2. ASSUME NEW u \in vs PROVE ~SemverLess(x, u)
      <4>1. Rank(u) <= Rank(x) /\ Rank(u) \in Ranks /\ Rank(x) \in Ranks
        BY <3>1, RankOrders
      <4>2. SemverLess(x, u) <=> Rank(x) < Rank(u)
        BY RankOrders
      <4>3. ~(Rank(x) < Rank(u))
        BY <4>1, RankSums
      <4> QED
        BY <4>2, <4>3
    <3> QED
      BY <3>2
  <2> QED
    BY <2>1 DEF Latest
<1> DEFINE n == NextPatch(vs)
<1>2. n = Version(v.major, v.minor, v.patch + 1) /\ v.pre = "none"
  BY DEF NextPatch, Parsed
<1> HIDE DEF v, n
<1>3. Rank(n) = Rank(v) + 2
  BY <1>1, <1>2 DEF Rank, Place, Version, Versions, Digit
<1>4. ASSUME NEW u \in vs PROVE SemverLess(u, n)
  <2>1. Rank(u) \in Ranks /\ Rank(v) \in Ranks /\ n \in Versions
    BY <1>1, RankOrders DEF n
  <2>2. ~(Rank(v) < Rank(u))
    BY <1>1, RankOrders
  <2>3. Rank(u) < Rank(n)
    <3>1. Rank(u) <= Rank(v)
      BY <2>1, <2>2, RankSums
    <3>2. Rank(u) < Rank(v) + 2
      BY <2>1, <3>1, RankSums
    <3> QED
      BY <1>3, <3>2
  <2> QED
    BY <2>1, <2>3, RankOrders
<1> QED
  BY <1>4 DEF n

LEMMA FirstVersion == First \in Versions
BY DEF First, Version, Versions, Digit

LEMMA PlainIsNoVersion == Plain \notin Versions
<1>1. \A v \in Versions : "pre" \in DOMAIN v
  BY DEF Versions
<1>2. DOMAIN Plain = {}
  BY DEF Plain
<1> QED
  BY <1>1, <1>2


-----------------------------------------------------------------------------
(* The library: every file, template and import is of a definition that    *)
(* was seen, and while nothing excuses a second body the versions only     *)
(* grow, in one directory, by one save at a time.                          *)

RealDefs == [version : Versions, body : Bodies]

MenuShape ==
  /\ menu.bodies \subseteq Bodies /\ menu.ins \subseteq Inputs
  /\ menu.arts \subseteq Artifacts /\ menu.modes \subseteq Modes
PastShape ==
  /\ DOMAIN past = {"bodies", "minted", "overlapped", "unparsed"}
  /\ past.bodies \subseteq RealDefs /\ past.minted \subseteq Dirs
  /\ past.overlapped \in BOOLEAN /\ past.unparsed \in BOOLEAN
DirsShape ==
  /\ DOMAIN dirs = Dirs
  /\ \A d \in Dirs : /\ DOMAIN dirs[d] \subseteq Versions \cup {Plain}
                     /\ \A f \in DOMAIN dirs[d] : dirs[d][f] \in past.bodies
SavingShape ==
  /\ saving \in [Savers -> [dir : Dirs \cup {Nobody}, def : Defs]]
  /\ \A r \in Savers : saving[r].dir # Nobody => saving[r].def \in RealDefs
TemplateShape ==
  /\ template \in Defs /\ (template.body # Nobody => template \in past.bodies)
  /\ importing.step = 1 => importing.def \in past.bodies
LibShape ==
  /\ MenuShape /\ LeftShape /\ PastShape /\ DirsShape /\ SavingShape /\ TemplateShape
  /\ pins \in [Dirs -> Versions]

\* A file of the directory that is not lower than w, and that no import
\* writes over.
Holds(d, w) ==
  \E f \in DOMAIN dirs[d] :
    (d = Imports => f # Plain) /\ ~SemverLess(dirs[d][f].version, w.version)

MintedOnce == past.bodies # {} => past.minted # {}
HighestStays == \A d \in past.minted : \A w \in past.bodies : Holds(d, w)
SaveIsNew ==
  \A r \in Savers : saving[r].dir # Nobody =>
    /\ saving[r].dir \in past.minted
    /\ \A w \in past.bodies : SemverLess(w.version, saving[r].def.version)
OneSave == \A r, q \in Savers : saving[r].dir # Nobody /\ saving[q].dir # Nobody => r = q
OneBody == \A w, x \in past.bodies : w.version = x.version => w = x
Settled == MintedOnce /\ HighestStays /\ SaveIsNew /\ OneSave /\ OneBody

LibInv == LibShape /\ (~Excused => Settled)

\* No version is lower than itself, and the order is transitive.
LEMMA Irreflexive == ASSUME NEW v \in Versions PROVE ~SemverLess(v, v)
<1>1. Rank(v) \in Ranks /\ (SemverLess(v, v) <=> Rank(v) < Rank(v))
  BY RankOrders
<1> QED
  BY <1>1, RankSums

LEMMA NotLower ==
  ASSUME NEW u \in Versions, NEW v \in Versions, NEW w \in Versions,
         ~SemverLess(u, w), SemverLess(u, v)
  PROVE  SemverLess(w, v)
<1>1. Rank(u) \in Ranks /\ Rank(v) \in Ranks /\ Rank(w) \in Ranks
  BY RankOrders
<1>2. ~(Rank(u) < Rank(w)) /\ Rank(u) < Rank(v)
  BY RankOrders
<1>3. Rank(w) < Rank(v)
  BY <1>1, <1>2, RankMiddle
<1> QED
  BY <1>3, RankOrders

LEMMA Asymmetric ==
  ASSUME NEW u \in Versions, NEW v \in Versions, SemverLess(u, v)
  PROVE  ~SemverLess(v, u)
<1>2. /\ Rank(u) \in Ranks /\ Rank(v) \in Ranks
      /\ SemverLess(u, v) <=> Rank(u) < Rank(v)
      /\ SemverLess(v, u) <=> Rank(v) < Rank(u)
  BY RankOrders
<1>3. ~(Rank(v) < Rank(u))
  BY <1>2, RankBack
<1> QED
  BY <1>2, <1>3

\* The start: at most one directory has files, and they agree.
LEMMA LibraryInit == ASSUME NEW s \in Scenarios, LibInit(s) PROVE LibInv
<1>1. DOMAIN s.dirs = Dirs /\ s.left \in [Kinds -> Nat] /\ s.pins \in [Dirs -> Versions]
  BY ScenariosAssumption
<1>2. \A d \in Dirs : \A f \in DOMAIN s.dirs[d] : s.dirs[d][f] \in RealDefs
  BY ScenariosAssumption DEF RealDefs
<1>3. /\ menu = s.menu /\ left = s.left /\ dirs = s.dirs /\ pins = s.pins
      /\ saving = [r \in Savers |-> NotSaving] /\ template = NoDef /\ importing = NotImporting
      /\ past = [bodies |-> UNION { Files(d) : d \in Dirs },
                 minted |-> { d \in Dirs : Files(d) # {} },
                 overlapped |-> FALSE, unparsed |-> FALSE]
  BY DEF LibInit
<1>4. \A w : w \in past.bodies <=> \E d \in Dirs : \E f \in DOMAIN dirs[d] : w = dirs[d][f]
  BY <1>3 DEF Files
<1>5. PastShape
  BY <1>1, <1>2, <1>3, <1>4 DEF PastShape
<1>6. DirsShape
  BY <1>1, <1>3, <1>4, ScenariosAssumption DEF DirsShape
<1>7. NoDef \in Defs /\ NoDef.body = Nobody
  BY FirstVersion DEF NoDef, Def, Defs
<1>8. SavingShape /\ \A r \in Savers : saving[r].dir = Nobody
  BY <1>3, <1>7 DEF SavingShape, NotSaving
<1>9. TemplateShape
  BY <1>3, <1>7 DEF TemplateShape, NotImporting
<1>10. MenuShape
  <2>1. s.menu.bodies \subseteq Bodies
    BY ScenariosAssumption
  <2>2. s.menu.ins \subseteq Inputs /\ s.menu.arts \subseteq Artifacts /\ s.menu.modes \subseteq Modes
    BY OffersAssumption
  <2> QED
    BY <1>3, <2>1, <2>2 DEF MenuShape
<1>11. \A d \in Dirs : d \in past.minted <=> \E f \in DOMAIN dirs[d] : TRUE
  <2>1. past.minted = { d \in Dirs : Files(d) # {} }
    BY <1>3
  <2>2. \A d \in Dirs : Files(d) # {} <=> \E f \in DOMAIN dirs[d] : TRUE
    BY DEF Files
  <2> QED
    BY <2>1, <2>2
<1>12. past.minted \subseteq Dirs
  BY <1>3
<1>13. ASSUME ~Excused PROVE Settled
  <2>1. \A d, e \in past.minted : d = e
    BY <1>13 DEF Excused
  <2>2. \A w \in past.bodies : \E d \in past.minted : \E f \in DOMAIN dirs[d] : w = dirs[d][f]
    BY <1>4, <1>11
  <2>3. MintedOnce
    BY <2>2 DEF MintedOnce
  <2>4. ASSUME NEW d \in past.minted, NEW w \in past.bodies PROVE Holds(d, w)
    <3>1. PICK f \in DOMAIN dirs[d] : w = dirs[d][f]
      BY <2>1, <2>2
    <3>2. d # Imports
      BY <1>3, <3>1, ScenariosAssumption
    <3>3. ~SemverLess(w.version, w.version)
      BY <1>5, Irreflexive DEF PastShape, RealDefs
    <3> QED
      BY <3>1, <3>2, <3>3 DEF Holds
  <2>5. OneBody
    <3> SUFFICES ASSUME NEW w \in past.bodies, NEW x \in past.bodies, w.version = x.version
                 PROVE  w = x
      BY DEF OneBody
    <3>1. PICK d \in past.minted : \E f \in DOMAIN dirs[d] : w = dirs[d][f]
      BY <2>2
    <3>2. PICK f \in DOMAIN dirs[d], g \in DOMAIN dirs[d] : w = dirs[d][f] /\ x = dirs[d][g]
      BY <2>1, <2>2, <3>1
    <3> QED
      BY <1>3, <1>12, <3>2, ScenariosAssumption
  <2> QED
    BY <1>8, <2>3, <2>4, <2>5 DEF Settled, HighestStays, SaveIsNew, OneSave
<1> QED
  BY <1>1, <1>3, <1>5, <1>6, <1>8, <1>9, <1>10, <1>13 DEF LibInv, LibShape, LeftShape


\* What is left of a budget does not matter to the library.
LEMMA LibraryRests ==
  ASSUME LibInv, LeftShape', UNCHANGED libVars
  PROVE  LibInv'
BY DEF LibInv, LibShape, libVars, MenuShape, PastShape, DirsShape, SavingShape,
       TemplateShape, Excused, Settled, MintedOnce, HighestStays, SaveIsNew, OneSave,
       OneBody, Holds

\* What a save scans is versions; its mint is one past them.
LEMMA Scanned ==
  ASSUME LibShape, NEW d \in Dirs
  PROVE  /\ ScanVersions(d) \in SUBSET Versions
         /\ \A f \in DOMAIN dirs[d] : dirs[d][f].version \in ScanVersions(d)
<1>1. \A f \in DOMAIN dirs[d] : dirs[d][f] \in RealDefs
  BY DEF LibShape, DirsShape, PastShape
<1>2. \A f \in DOMAIN dirs[d] : dirs[d][f].version \in Versions
  BY <1>1 DEF RealDefs
<1>3. ScanVersions(d) = { w.version : w \in { dirs[d][f] : f \in DOMAIN dirs[d] } }
  BY DEF ScanVersions, Files
<1> QED
  BY <1>2, <1>3

\* A save is scanned: it mints past all that is in its directory.
LEMMA SaveScanStep ==
  ASSUME LibInv, NEW r \in Savers, NEW d \in Dirs, NEW b \in menu.bodies, SaveScan(r, d, b)
  PROVE  LibInv'
<1> DEFINE vs == ScanVersions(d)
           n == NextPatch(vs)
<1>1. LibShape /\ Nobody \notin Dirs
  BY ImportsAssumption DEF LibInv
<1>2. /\ saving[r].dir = Nobody /\ n \in Versions /\ b \in Bodies
      /\ saving' = [saving EXCEPT ![r] = [dir |-> d, def |-> Def(n, b)]]
      /\ UNCHANGED <<menu, dirs, pins, template, importing>>
  BY <1>1 DEF SaveScan, LibShape, MenuShape
<1>3. /\ past'.bodies = past.bodies /\ past'.minted = past.minted \cup {d}
      /\ past'.overlapped = (past.overlapped \/ \E q \in Savers : saving[q].dir = d)
      /\ past'.unparsed = (past.unparsed \/ (vs # {} /\ ~Parsed(Latest(vs))))
      /\ DOMAIN past' = DOMAIN past
  BY <1>1 DEF SaveScan, LibShape, PastShape
<1> HIDE DEF n
<1>4. LeftShape'
  BY <1>1, SpendType DEF SaveScan, LibShape, Kinds
<1>5. PastShape'
  BY <1>1, <1>3 DEF LibShape, PastShape
<1>6. MenuShape' /\ DirsShape' /\ TemplateShape' /\ pins' \in [Dirs -> Versions]
  BY <1>1, <1>2, <1>3 DEF LibShape, MenuShape, DirsShape, TemplateShape
<1>7. /\ saving'[r].dir = d /\ saving'[r].def = Def(n, b)
      /\ \A q \in Savers : q # r => saving'[q] = saving[q]
      /\ saving'[r] = [dir |-> d, def |-> Def(n, b)]
  BY <1>1, <1>2 DEF LibShape, SavingShape
<1>8. Def(n, b) \in RealDefs /\ Def(n, b) \in Defs /\ Def(n, b).version = n
  BY <1>2 DEF Def, RealDefs, Defs
<1>9. SavingShape'
  <2>1. saving' \in [Savers -> [dir : Dirs \cup {Nobody}, def : Defs]]
    BY <1>1, <1>2, <1>8 DEF LibShape, SavingShape
  <2> QED
    BY <2>1, <1>1, <1>7, <1>8 DEF LibShape, SavingShape
<1>10. ASSUME ~Excused' PROVE Settled'
  <2>1. /\ ~past.overlapped /\ ~past.unparsed /\ \A q \in Savers : saving[q].dir # d
        /\ vs # {} => Parsed(Latest(vs))
        /\ \A x, y \in past.minted \cup {d} : x = y
    BY <1>3, <1>10 DEF Excused
  <2>2. Settled /\ past.minted \subseteq {d}
    BY <2>1 DEF LibInv, Excused
  <2>3. \A q \in Savers : saving[q].dir = Nobody
    BY <2>1, <2>2 DEF Settled, SaveIsNew
  <2>4. past'.minted = {d}
    BY <1>3, <2>2
  <2>5. \A w \in past.bodies : Holds(d, w)
    BY <2>2 DEF Settled, MintedOnce, HighestStays
  <2>6. ASSUME NEW w \in past.bodies PROVE SemverLess(w.version, n)
    <3>1. PICK f \in DOMAIN dirs[d] : ~SemverLess(dirs[d][f].version, w.version)
      BY <2>5 DEF Holds
    <3>2. /\ dirs[d][f].version \in vs /\ vs \in SUBSET Versions
          /\ w.version \in Versions
      BY <1>1, Scanned DEF LibShape, PastShape, RealDefs
    <3>3. SemverLess(dirs[d][f].version, n)
      BY <1>2, <2>1, <3>2, MintsHigher DEF n
    <3> QED
      BY <1>2, <3>1, <3>2, <3>3, NotLower
  <2>7. MintedOnce' /\ HighestStays'
    BY <1>2, <1>3, <2>4, <2>5 DEF MintedOnce, HighestStays, Holds
  <2>8. SaveIsNew' /\ OneSave'
    BY <1>1, <1>3, <1>7, <1>8, <2>3, <2>4, <2>6 DEF SaveIsNew, OneSave
  <2>9. OneBody'
    BY <1>3, <2>2 DEF Settled, OneBody
  <2> QED
    BY <2>7, <2>8, <2>9 DEF Settled
<1> QED
  BY <1>4, <1>5, <1>6, <1>9, <1>10 DEF LibInv, LibShape

\* One file is written; the others of every directory stay.
LEMMA FileWritten ==
  ASSUME DirsShape, NEW d \in Dirs, NEW name \in Versions \cup {Plain}, NEW w,
         dirs' = WithFile(d, name, w)
  PROVE  /\ DOMAIN dirs' = Dirs
         /\ \A e \in Dirs : e # d => dirs'[e] = dirs[e]
         /\ DOMAIN dirs'[d] = DOMAIN dirs[d] \cup {name}
         /\ dirs'[d][name] = w
         /\ \A f \in DOMAIN dirs[d] : f # name => dirs'[d][f] = dirs[d][f]
BY DEF DirsShape, WithFile

LEMMA WrittenShape ==
  ASSUME DirsShape, NEW d \in Dirs, NEW name \in Versions \cup {Plain}, NEW w,
         dirs' = WithFile(d, name, w), past'.bodies = past.bodies \cup {w}
  PROVE  DirsShape'
<1>1. ASSUME NEW e \in Dirs
      PROVE  /\ DOMAIN dirs'[e] \subseteq Versions \cup {Plain}
             /\ \A f \in DOMAIN dirs'[e] : dirs'[e][f] \in past'.bodies
  <2>1. CASE e # d
    <3>1. dirs'[e] = dirs[e]
      BY <2>1, FileWritten
    <3>2. DOMAIN dirs[e] \subseteq Versions \cup {Plain}
      BY DEF DirsShape
    <3>3. \A f \in DOMAIN dirs[e] : dirs[e][f] \in past.bodies
      BY DEF DirsShape
    <3> QED
      BY <3>1, <3>2, <3>3
  <2>2. CASE e = d
    <3>1. DOMAIN dirs[d] \subseteq Versions \cup {Plain}
      BY DEF DirsShape
    <3>2. \A f \in DOMAIN dirs[d] : dirs[d][f] \in past.bodies
      BY DEF DirsShape
    <3> QED
      BY <2>2, <3>1, <3>2, FileWritten
  <2> QED
    BY <2>1, <2>2
<1> QED
  BY <1>1, FileWritten DEF DirsShape

\* A save is written, under the version it minted.
LEMMA SaveWriteStep ==
  ASSUME LibInv, NEW r \in Savers, SaveWrite(r) PROVE LibInv'
<1>1. LibShape
  BY DEF LibInv
<1> PICK d, w : d = saving[r].dir /\ w = saving[r].def
  OBVIOUS
<1>2. /\ d # Nobody /\ dirs' = WithFile(d, w.version, w)
      /\ saving' = [saving EXCEPT ![r] = NotSaving]
      /\ UNCHANGED <<menu, left, pins, template, importing>>
  BY DEF SaveWrite
<1>3. /\ past'.bodies = past.bodies \cup {w} /\ past'.minted = past.minted
      /\ past'.overlapped = past.overlapped /\ past'.unparsed = past.unparsed
      /\ DOMAIN past' = DOMAIN past
  BY <1>1 DEF SaveWrite, LibShape, PastShape
<1>4. d \in Dirs /\ w \in RealDefs
  BY <1>1, <1>2 DEF LibShape, SavingShape
<1>5. w.version \in Versions /\ w.version # Plain
  BY <1>4, PlainIsNoVersion DEF RealDefs
<1>6. PastShape' /\ DirsShape'
  <2>1. DirsShape'
    BY <1>1, <1>2, <1>3, <1>4, <1>5, WrittenShape DEF LibShape
  <2> QED
    BY <1>1, <1>3, <1>4, <2>1 DEF LibShape, PastShape
<1>7. NoDef \in Defs
  BY FirstVersion DEF NoDef, Def, Defs
<1>8. /\ saving'[r].dir = Nobody /\ \A q \in Savers : q # r => saving'[q] = saving[q]
      /\ saving' \in [Savers -> [dir : Dirs \cup {Nobody}, def : Defs]]
  BY <1>1, <1>2, <1>7 DEF LibShape, SavingShape, NotSaving
<1>9. SavingShape'
  BY <1>1, <1>8 DEF LibShape, SavingShape
<1>10. MenuShape' /\ LeftShape' /\ TemplateShape' /\ pins' \in [Dirs -> Versions]
  BY <1>1, <1>2, <1>3 DEF LibShape, MenuShape, LeftShape, TemplateShape
<1>11. ASSUME ~Excused' PROVE Settled'
  <2>1. Settled /\ \A x, y \in past.minted : x = y
    BY <1>3, <1>11 DEF LibInv, Excused
  <2>2. /\ d \in past.minted /\ past.minted = {d}
        /\ \A x \in past.bodies : SemverLess(x.version, w.version)
    BY <1>2, <2>1 DEF Settled, SaveIsNew
  <2>3. \A q \in Savers : saving'[q].dir = Nobody
    BY <1>2, <1>8, <2>1 DEF Settled, OneSave
  <2>4. MintedOnce'
    BY <1>3, <2>2 DEF MintedOnce
  <2>5. ASSUME NEW x \in past'.bodies PROVE Holds(d, x)'
    <3>1. w.version \in DOMAIN dirs'[d] /\ dirs'[d][w.version] = w
      BY <1>1, <1>2, <1>4, <1>5, FileWritten DEF LibShape
    <3>2. ~SemverLess(w.version, x.version)
      <4>1. x.version \in Versions
        BY <1>6 DEF PastShape, RealDefs
      <4>2. CASE x = w
        BY <1>5, <4>2, Irreflexive
      <4>3. CASE x # w
        <5>1. SemverLess(x.version, w.version)
          BY <1>3, <2>2, <4>3
        <5> QED
          BY <1>5, <4>1, <5>1, Asymmetric
      <4> QED
        BY <4>2, <4>3
    <3> QED
      BY <1>5, <3>1, <3>2 DEF Holds
  <2>6. HighestStays'
    BY <1>3, <2>2, <2>5 DEF HighestStays
  <2>7. OneBody'
    <3>1. \A x \in past.bodies : x.version # w.version
      BY <1>5, <2>2, Irreflexive
    <3> QED
      BY <1>3, <2>1, <3>1 DEF OneBody, Settled
  <2> QED
    BY <2>3, <2>4, <2>6, <2>7 DEF Settled, SaveIsNew, OneSave
<1> QED
  BY <1>6, <1>9, <1>10, <1>11 DEF LibInv, LibShape

\* An import is of a definition that was seen, and over no version's file.
LEMMA EndImportStep == ASSUME LibInv, EndImport PROVE LibInv'
<1> DEFINE w == importing.def
<1>1. LibShape /\ Imports \in Dirs
  BY ImportsAssumption DEF LibInv
<1>2. /\ dirs' = WithFile(Imports, Plain, w) /\ importing' = NotImporting
      /\ UNCHANGED <<menu, left, pins, saving, template>>
  BY DEF EndImport
<1>3. w \in past.bodies
  BY <1>1 DEF EndImport, LibShape, TemplateShape
<1>4. /\ past'.bodies = past.bodies \cup {w} /\ past.bodies \cup {w} = past.bodies
      /\ past'.minted = past.minted /\ past'.overlapped = past.overlapped
      /\ past'.unparsed = past.unparsed /\ DOMAIN past' = DOMAIN past
  BY <1>1, <1>3 DEF EndImport, LibShape, PastShape
<1> HIDE DEF w
<1>5. DirsShape'
  BY <1>1, <1>2, <1>4, WrittenShape DEF LibShape
<1>6. MenuShape' /\ LeftShape' /\ PastShape' /\ SavingShape' /\ pins' \in [Dirs -> Versions]
  BY <1>1, <1>2, <1>4 DEF LibShape, MenuShape, LeftShape, PastShape, SavingShape
<1>7. TemplateShape'
  BY <1>1, <1>2, <1>4 DEF LibShape, TemplateShape, NotImporting
<1>8. /\ \A e \in Dirs : e # Imports => dirs'[e] = dirs[e]
      /\ DOMAIN dirs'[Imports] = DOMAIN dirs[Imports] \cup {Plain}
      /\ \A f \in DOMAIN dirs[Imports] : f # Plain => dirs'[Imports][f] = dirs[Imports][f]
  <2>1. DirsShape
    BY <1>1 DEF LibShape
  <2> QED
    BY <1>1, <1>2, <2>1, FileWritten
<1>9. ASSUME ~Excused' PROVE Settled'
  <2>1. Settled
    BY <1>4, <1>9 DEF LibInv, Excused
  <2>2. ASSUME NEW d \in past.minted, NEW x \in past.bodies PROVE Holds(d, x)'
    <3>1. PICK f \in DOMAIN dirs[d] :
               (d = Imports => f # Plain) /\ ~SemverLess(dirs[d][f].version, x.version)
      BY <2>1 DEF Settled, HighestStays, Holds
    <3>2. d \in Dirs
      BY <1>1 DEF LibShape, PastShape
    <3>3. f \in DOMAIN dirs'[d] /\ dirs'[d][f] = dirs[d][f]
      BY <1>8, <3>1, <3>2
    <3> QED
      BY <3>1, <3>3 DEF Holds
  <2> QED
    BY <1>2, <1>4, <2>1, <2>2
       DEF Settled, MintedOnce, HighestStays, SaveIsNew, OneSave, OneBody
<1> QED
  BY <1>5, <1>6, <1>7, <1>9 DEF LibInv, LibShape


\* Edits, exports and the first half of an import write no file.
LEMMA LibraryReads ==
  ASSUME LibInv, NEW d \in Dirs,
         Export(d) \/ BeginImport \/ \E v \in ScanVersions(d) : EditWorkflow(d, v)
  PROVE  LibInv'
<1>1. LibShape /\ Imports \in Dirs
  BY ImportsAssumption DEF LibInv
<1>2. UNCHANGED <<menu, dirs, saving, past>>
  BY DEF Export, BeginImport, EditWorkflow
<1>3. LeftShape'
  BY <1>1, SpendType DEF LibShape, Export, BeginImport, EditWorkflow, Kinds
<1>4. pins' \in [Dirs -> Versions]
  <2>1. CASE Export(d)
    BY <1>1, <2>1 DEF Export, LibShape
  <2>2. CASE BeginImport
    <3>1. template.version \in Versions
      BY <1>1 DEF LibShape, TemplateShape, Defs
    <3> QED
      BY <1>1, <2>2, <3>1 DEF BeginImport, LibShape
  <2>3. CASE \E v \in ScanVersions(d) : EditWorkflow(d, v)
    BY <1>1, <2>3, Scanned DEF EditWorkflow, LibShape
  <2> QED
    BY <2>1, <2>2, <2>3
<1>5. TemplateShape'
  <2>1. CASE Export(d)
    <3>1. PICK w \in Registered(d) : template' = w /\ importing' = importing
      BY <2>1 DEF Export
    <3>2. PICK f \in DOMAIN dirs[d] : w = dirs[d][f]
      BY <3>1 DEF Registered, Registry, Files
    <3>3. w \in past.bodies
      BY <1>1, <3>2 DEF LibShape, DirsShape
    <3>4. w \in Defs
      BY <1>1, <3>3 DEF LibShape, PastShape, RealDefs, Defs
    <3> QED
      BY <1>1, <1>2, <3>1, <3>3, <3>4 DEF LibShape, TemplateShape
  <2>2. CASE BeginImport
    BY <1>1, <1>2, <2>2 DEF BeginImport, LibShape, TemplateShape
  <2>3. CASE \E v \in ScanVersions(d) : EditWorkflow(d, v)
    BY <1>1, <1>2, <2>3 DEF EditWorkflow, LibShape, TemplateShape
  <2> QED
    BY <2>1, <2>2, <2>3
<1>6. MenuShape' /\ PastShape' /\ DirsShape' /\ SavingShape'
  BY <1>1, <1>2 DEF LibShape, MenuShape, PastShape, DirsShape, SavingShape
<1>7. ASSUME ~Excused' PROVE Settled'
  <2>1. Settled
    BY <1>2, <1>7 DEF LibInv, Excused
  <2> QED
    BY <1>2, <2>1
       DEF Settled, MintedOnce, HighestStays, SaveIsNew, OneSave, OneBody, Holds
<1> QED
  BY <1>3, <1>4, <1>5, <1>6, <1>7 DEF LibInv, LibShape

\* The saves and the import at hand are lost with the server.
LEMMA RestartStep == ASSUME LibInv, RestartServer PROVE LibInv'
<1>1. LibShape
  BY DEF LibInv
<1>2. /\ saving' = [r \in Savers |-> NotSaving] /\ importing' = NotImporting
      /\ UNCHANGED <<menu, dirs, pins, template, past>>
  BY DEF RestartServer
<1>3. LeftShape'
  BY <1>1, SpendType DEF LibShape, RestartServer, Kinds
<1>4. NoDef \in Defs
  BY FirstVersion DEF NoDef, Def, Defs
<1>5. SavingShape' /\ \A r \in Savers : saving'[r].dir = Nobody
  BY <1>2, <1>4 DEF SavingShape, NotSaving
<1>6. TemplateShape'
  BY <1>1, <1>2 DEF LibShape, TemplateShape, NotImporting
<1>7. MenuShape' /\ PastShape' /\ DirsShape' /\ pins' \in [Dirs -> Versions]
  BY <1>1, <1>2 DEF LibShape, MenuShape, PastShape, DirsShape
<1>8. ASSUME ~Excused' PROVE Settled'
  <2>1. Settled
    BY <1>2, <1>8 DEF LibInv, Excused
  <2> QED
    BY <1>2, <1>5, <2>1
       DEF Settled, MintedOnce, HighestStays, SaveIsNew, OneSave, OneBody, Holds
<1> QED
  BY <1>3, <1>5, <1>6, <1>7, <1>8 DEF LibInv, LibShape

\* Every step of the workspace keeps the library's invariant.
LEMMA LibraryInvStep == LibInv /\ [Next \/ UNCHANGED vars]_vars => LibInv'
<1> SUFFICES ASSUME LibInv, [Next \/ UNCHANGED vars]_vars PROVE LibInv'
  OBVIOUS
<1>1. LeftShape
  BY DEF LibInv, LibShape
<1>2. ASSUME UNCHANGED libVars, LeftShape' PROVE LibInv'
  BY <1>2, LibraryRests
<1>3. CASE UNCHANGED vars
  BY <1>1, <1>2, <1>3 DEF vars, libVars, LeftShape
<1>4. CASE LibNext /\ UNCHANGED shared
  BY <1>4, SaveScanStep, SaveWriteStep, EndImportStep, LibraryReads, ImportsAssumption DEF LibNext
<1>5. CASE OpenForClear \/ ClearAll \/ ClearByCommand \/ \E mode \in menu.modes : PutSettings(mode)
  BY <1>1, <1>2, <1>5, SpendType DEF OpenForClear, ClearAll, ClearByCommand, PutSettings, Kinds
<1>6. CASE RestartServer
  BY <1>6, RestartStep
<1>7. ASSUME NEW i \in Runs,
             \/ ClearExecution(i) \/ \E d \in Dirs, asked \in menu.asked : Launch(i, d, asked)
             \/ \E ins \in menu.ins : BeginNode(i, ins)
      PROVE  LibInv'
  <2>1. UNCHANGED libVars /\ \E kind \in Kinds : Spend(kind)
    BY <1>7 DEF ClearExecution, Launch, BeginNode, Kinds
  <2> QED
    BY <1>1, <1>2, <2>1, SpendType
<1>8. ASSUME NEW i \in Runs,
             \/ \E a \in menu.arts : CheckArtifact(i, a) \/ RefuseArtifact(i, a)
             \/ CommitArtifact(i) \/ EndNode(i) \/ Continue(i) \/ Return(i)
      PROVE  LibInv'
  <2>1. UNCHANGED libVars /\ left' = left
    BY <1>8 DEF CheckArtifact, RefuseArtifact, CommitArtifact, EndNode, Continue, Return
  <2> QED
    BY <1>1, <1>2, <2>1 DEF LeftShape
<1> QED
  BY <1>3, <1>4, <1>5, <1>6, <1>7, <1>8 DEF Next

\* While nothing excuses a second body, the versions only grow (server.go:797).
THEOREM LibraryInvariant == Spec => []LibInv
<1>1. Init => LibInv
  BY LibraryInit DEF Init
<1> QED
  BY <1>1, LibraryInvStep, PTL DEF Spec

\* A version names one body for ever (server.go:643, 797), across saves, edits,
\* exports, imports and restarts, unless two saves were at once, a pre-release
\* was the latest, or two directories minted versions.
THEOREM OneDefinitionHolds == Spec => []OneDefinition
<1>1. LibInv => OneDefinition
  <2> SUFFICES ASSUME LibInv, ~Excused, NEW w \in past.bodies
               PROVE  BodiesOf(w.version) = {w.body}
    BY DEF OneDefinition
  <2>1. \A x \in past.bodies : x.version = w.version => x = w
    BY DEF LibInv, Settled, OneBody
  <2> QED
    BY <2>1 DEF BodiesOf
<1> QED
  BY <1>1, LibraryInvariant, PTL


-----------------------------------------------------------------------------
(* What is cached and what is run is of definitions that were seen.        *)

Made == [def : past.bodies, ins : Inputs]
IndexOK(f) ==
  /\ DOMAIN f \subseteq Keys
  /\ \A k \in DOMAIN f : f[k] \in [art : Artifacts, made : Made]
LaunchOK(l) ==
  /\ l.phase \in {"off", "idle", "running", "checked", "stored", "served"}
  /\ l.mode \in Modes /\ l.keys \subseteq Keys
  /\ l.art \in Artifacts \cup {NoArtifact} /\ l.def \in Defs /\ l.ins \in Inputs \cup {<<>>}
  /\ l.made.def \in Defs /\ l.made.ins \in Inputs \cup {<<>>}
  /\ l.phase # "off" => l.def \in past.bodies
  /\ l.phase \in {"running", "checked", "stored"} => l.ins \in Inputs
  /\ l.phase \in {"checked", "stored", "served"} => l.art \in Artifacts
  /\ l.phase = "served" => l.made.def \in past.bodies
IndexesOK == IndexOK(index) /\ \A c \in Caches : IndexOK(copies[c].entries)
LaunchesOK == \A i \in Runs : LaunchOK(launched[i])
UseInv ==
  /\ IndexesOK /\ LaunchesOK
  /\ store \subseteq Artifacts /\ settings \in Modes \cup {Unset}

\* What was seen stays seen.
LEMMA PastGrows ==
  ASSUME LibInv, [Next \/ UNCHANGED vars]_vars
  PROVE  past.bodies \subseteq past'.bodies
<1>1. PastShape
  BY DEF LibInv, LibShape
<1>2. past' = past \/ LibNext
  BY DEF Next, OpenForClear, ClearAll, ClearByCommand, RestartServer, PutSettings, ClearExecution,
         Launch, BeginNode, CheckArtifact, RefuseArtifact, CommitArtifact, EndNode, Continue,
         Return, vars, libVars
<1>3. CASE LibNext
  BY <1>1, <1>3 DEF LibNext, SaveScan, SaveWrite, Export, EditWorkflow, BeginImport, EndImport,
                    PastShape
<1> QED
  BY <1>2, <1>3

LEMMA IndexGrows ==
  ASSUME past.bodies \subseteq past'.bodies, NEW CONSTANT f, IndexOK(f) PROVE IndexOK(f)'
BY DEF IndexOK, Made

LEMMA LaunchGrows ==
  ASSUME past.bodies \subseteq past'.bodies, NEW CONSTANT l, LaunchOK(l) PROVE LaunchOK(l)'
BY DEF LaunchOK

\* The indexes after a step: each is one of those before it, or none, or has
\* one entry more, or lacks some.
LEMMA IndexKept ==
  ASSUME NEW f, IndexOK(f), NEW keys PROVE IndexOK(Without(f, keys))
BY DEF IndexOK, Without

LEMMA IndexEntered ==
  ASSUME NEW f, IndexOK(f), NEW key \in Keys, NEW entry \in [art : Artifacts, made : Made]
  PROVE  IndexOK(WithEntry(f, key, entry))
BY DEF IndexOK, WithEntry

LEMMA IndexEmpty == IndexOK(Empty) /\ Unloaded.entries = Empty
BY DEF IndexOK, Empty, Unloaded

LEMMA IndexSaved ==
  ASSUME CopyShape, IndexesOK, past.bodies \subseteq past'.bodies,
         NEW CONSTANT c \in Caches, NEW CONSTANT f, IndexOK(f), Saved(c, f)
  PROVE  IndexesOK'
<1>1. index' = f /\ IndexOK(f)'
  BY IndexGrows DEF Saved
<1>2. ASSUME NEW CONSTANT x \in Caches PROVE IndexOK(copies[x].entries)'
  <2>1. PICK g : g = copies'[x].entries /\ IndexOK(g)
    BY DEF Saved, CopyShape, IndexesOK
  <2>2. IndexOK(g)'
    BY <2>1, IndexGrows
  <2> QED
    BY <2>1, <2>2 DEF IndexOK
<1> QED
  BY <1>1, <1>2 DEF IndexesOK, IndexOK

\* A copy changes to one of the file, or to none; the file stays, or goes.
LEMMA IndexRead ==
  ASSUME CopyShape, IndexesOK, past.bodies \subseteq past'.bodies, index' \in {index, Empty},
         \A c \in Caches : copies'[c].entries \in {copies[c].entries, index, Empty}
  PROVE  IndexesOK'
<1>1. PICK g : g = index' /\ IndexOK(g)
  BY IndexEmpty DEF IndexesOK
<1>2. IndexOK(index)'
  BY <1>1, IndexGrows DEF IndexOK
<1>3. ASSUME NEW CONSTANT x \in Caches PROVE IndexOK(copies[x].entries)'
  <2>1. PICK h : h = copies'[x].entries /\ IndexOK(h)
    BY IndexEmpty DEF IndexesOK
  <2>2. IndexOK(h)'
    BY <2>1, IndexGrows
  <2> QED
    BY <2>1, <2>2 DEF IndexOK
<1> QED
  BY <1>2, <1>3 DEF IndexesOK

\* A Cache's entries are of the file or its own.
LEMMA LoadedOK ==
  ASSUME CopyShape, IndexesOK, NEW c \in Caches
  PROVE  IndexOK(Loaded(c).entries) /\ Loaded(c).entries \in {copies[c].entries, index}
BY DEF CopyShape, IndexesOK, Loaded

\* Only one launch changes.
LEMMA LaunchChanges ==
  ASSUME LaunchShape, LaunchesOK, past.bodies \subseteq past'.bodies, NEW CONSTANT i \in Runs,
         NEW CONSTANT new, launched' = [launched EXCEPT ![i] = new], LaunchOK(new)
  PROVE  LaunchesOK'
<1> SUFFICES ASSUME NEW CONSTANT j \in Runs PROVE LaunchOK(launched[j])'
  BY DEF LaunchesOK
<1>1. PICK l : l = launched'[j] /\ LaunchOK(l)
  BY DEF LaunchShape, LaunchesOK
<1>2. LaunchOK(l)'
  BY <1>1, LaunchGrows
<1> QED
  BY <1>1, <1>2 DEF LaunchOK

LEMMA LaunchesStay ==
  ASSUME LaunchesOK, past.bodies \subseteq past'.bodies, launched' = launched PROVE LaunchesOK'
BY DEF LaunchesOK, LaunchOK

\* The key of a definition that was seen is a key.
LEMMA KeyOfReal ==
  ASSUME NEW def \in RealDefs, NEW ins \in Inputs PROVE CacheKey(def, ins) \in Keys
BY DEF RealDefs, CacheKey, Keys

LEMMA ModeKnown == ASSUME settings \in Modes \cup {Unset}, NEW asked PROVE EffectiveCache(asked) \in Modes
<1>1. "on" \in Modes
  BY DEF Modes
<1> QED
  BY <1>1 DEF EffectiveCache


Steady == LibInv /\ CacheInv /\ UseInv /\ past.bodies \subseteq past'.bodies

\* The start: nothing is cached, stored or run.
LEMMA UseInit == Init => UseInv
<1> SUFFICES ASSUME Init PROVE UseInv
  OBVIOUS
<1>1. IndexesOK
  BY IndexEmpty DEF Init, IndexesOK, Unloaded
<1>2. NoDef \in Defs
  BY FirstVersion DEF NoDef, Def, Defs
<1>3. LaunchOK(Off)
  BY <1>2 DEF LaunchOK, Off, Modes
<1>4. LaunchesOK
  BY <1>3 DEF Init, LaunchesOK
<1> QED
  BY <1>1, <1>4 DEF Init, UseInv

\* Settings, clears, restarts and the library leave the launches alone.
LEMMA UseOfService ==
  ASSUME Steady,
         \/ OpenForClear \/ ClearAll \/ ClearByCommand \/ RestartServer
         \/ \E mode \in menu.modes : PutSettings(mode)
         \/ LibNext /\ UNCHANGED shared
         \/ UNCHANGED vars
  PROVE  UseInv'
<1>1. CopyShape /\ IndexesOK /\ LaunchesOK /\ Server \in Caches /\ past.bodies \subseteq past'.bodies
  BY DEF Steady, CacheInv, Shaped, UseInv, Caches
<1>2. launched' = launched /\ store' = store
  BY DEF OpenForClear, ClearAll, ClearByCommand, RestartServer, PutSettings, shared, vars
<1>3. LaunchesOK'
  BY <1>1, <1>2, LaunchesStay
<1>4. settings' \in Modes \cup {Unset}
  <2>1. settings \in Modes \cup {Unset} /\ menu.modes \subseteq Modes
    BY DEF Steady, UseInv, LibInv, LibShape, MenuShape
  <2> QED
    BY <2>1 DEF OpenForClear, ClearAll, ClearByCommand, RestartServer, PutSettings, shared, vars
<1>5. IndexesOK'
  <2>1. CASE OpenForClear
    <3>1. \A c \in Caches : copies'[c].entries \in {copies[c].entries, index, Empty}
      BY <1>1, <2>1, LoadedOK DEF OpenForClear, CopyShape
    <3> QED
      BY <1>1, <2>1, <3>1, IndexRead DEF OpenForClear
  <2>2. CASE ClearAll
    BY <1>1, <2>2, IndexEmpty, IndexSaved DEF ClearAll
  <2>3. CASE ClearByCommand
    <3>1. \A c \in Caches : copies'[c].entries \in {copies[c].entries, index, Empty}
      BY <1>1, <2>3 DEF ClearByCommand, CopyShape
    <3> QED
      BY <1>1, <2>3, <3>1, IndexRead DEF ClearByCommand
  <2>4. CASE RestartServer
    <3>1. \A c \in Caches : copies'[c].entries \in {copies[c].entries, index, Empty}
      BY <1>1, <2>4, IndexEmpty DEF RestartServer, CopyShape
    <3> QED
      BY <1>1, <2>4, <3>1, IndexRead DEF RestartServer
  <2>5. CASE index' = index /\ copies' = copies
    BY <1>1, <2>5, IndexRead
  <2> QED
    BY <2>1, <2>2, <2>3, <2>4, <2>5 DEF PutSettings, shared, vars
<1> QED
  BY <1>2, <1>3, <1>4, <1>5 DEF Steady, UseInv

LEMMA UseOfClearExecution == ASSUME Steady, NEW i \in Runs, ClearExecution(i) PROVE UseInv'
<1>1. CopyShape /\ IndexesOK /\ LaunchesOK /\ Server \in Caches /\ past.bodies \subseteq past'.bodies
  BY DEF Steady, CacheInv, Shaped, UseInv, Caches
<1>2. launched' = launched /\ store' = store /\ settings' = settings
  BY DEF ClearExecution
<1>3. PICK f : f = Loaded(Server).entries /\ IndexOK(f)
  BY <1>1, LoadedOK
<1>4. IndexesOK'
  <2>1. CASE launched[i].keys \cap DOMAIN f = {}
    <3>1. index' = index /\ copies' = [copies EXCEPT ![Server] = Loaded(Server)]
      BY <1>3, <2>1 DEF ClearExecution, Delete
    <3>2. \A c \in Caches : copies'[c].entries \in {copies[c].entries, index, Empty}
      BY <1>1, <3>1, LoadedOK DEF CopyShape
    <3> QED
      BY <1>1, <3>1, <3>2, IndexRead
  <2>2. CASE launched[i].keys \cap DOMAIN f # {}
    <3>1. PICK g : g = Without(f, launched[i].keys) /\ IndexOK(g)
      BY <1>3, IndexKept
    <3>2. Saved(Server, g)
      BY <1>3, <2>2, <3>1 DEF ClearExecution, Delete
    <3> QED
      BY <1>1, <3>1, <3>2, IndexSaved
  <2> QED
    BY <2>1, <2>2
<1> QED
  BY <1>1, <1>2, <1>4, LaunchesStay DEF Steady, UseInv

LEMMA UseOfLaunch ==
  ASSUME Steady, NEW i \in Runs, NEW d \in Dirs, NEW asked, Launch(i, d, asked)
  PROVE  UseInv'
<1>1. /\ CopyShape /\ LaunchShape /\ IndexesOK /\ LaunchesOK /\ i \in Caches
      /\ past.bodies \subseteq past'.bodies /\ LibShape
  BY DEF Steady, CacheInv, Shaped, UseInv, Caches, LibInv
<1>2. PICK w \in Registered(d) : launched' = [launched EXCEPT ![i] =
        [Off EXCEPT !.phase = "idle", !.def = w, !.mode = EffectiveCache(asked)]]
  BY DEF Launch
<1>3. PICK new : new = [Off EXCEPT !.phase = "idle", !.def = w, !.mode = EffectiveCache(asked)]
  OBVIOUS
<1>4. w \in past.bodies
  BY <1>1, <1>2 DEF Registered, Registry, Files, LibShape, DirsShape
<1>5. w \in Defs
  BY <1>1, <1>4 DEF LibShape, PastShape, RealDefs, Defs
<1>6. EffectiveCache(asked) \in Modes
  BY ModeKnown DEF Steady, UseInv
<1>7. NoDef \in Defs
  BY FirstVersion DEF NoDef, Def, Defs
<1>8. LaunchOK(new)
  <2>1. /\ new.phase = "idle" /\ new.def = w /\ new.mode = EffectiveCache(asked)
        /\ new.ins = <<>> /\ new.art = NoArtifact /\ new.keys = {}
        /\ new.made.def = NoDef /\ new.made.ins = <<>>
    BY <1>3 DEF Off
  <2> QED
    BY <1>4, <1>5, <1>6, <1>7, <2>1 DEF LaunchOK
<1>9. LaunchesOK'
  BY <1>1, <1>2, <1>3, <1>8, LaunchChanges
<1>10. IndexesOK'
  <2>1. \A c \in Caches : copies'[c].entries \in {copies[c].entries, index, Empty}
    BY <1>1, IndexEmpty DEF Launch, CopyShape
  <2> QED
    BY <1>1, <2>1, IndexRead DEF Launch
<1> QED
  BY <1>9, <1>10 DEF Launch, Steady, UseInv

LEMMA UseOfBeginNode ==
  ASSUME Steady, NEW i \in Runs, NEW ins \in menu.ins, BeginNode(i, ins)
  PROVE  UseInv'
<1>1. /\ CopyShape /\ LaunchShape /\ IndexesOK /\ LaunchesOK /\ i \in Caches
      /\ past.bodies \subseteq past'.bodies /\ LibShape /\ ins \in Inputs
  BY DEF Steady, CacheInv, Shaped, UseInv, Caches, LibInv, LibShape, MenuShape
<1>2. PICK f, key, keyed, hit :
        /\ f = Loaded(i).entries /\ key = CacheKey(launched[i].def, ins)
        /\ keyed = (launched[i].mode # "off")
        /\ hit = (keyed /\ key \in DOMAIN f /\ f[key].art \in store)
  OBVIOUS
<1>3. PICK new : new = [launched[i] EXCEPT
                 !.ins = ins, !.keys = IF keyed THEN @ \cup {key} ELSE @,
                 !.phase = IF hit THEN "served" ELSE "running",
                 !.art = IF hit THEN f[key].art ELSE NoArtifact,
                 !.made = IF hit THEN f[key].made ELSE Off.made]
  OBVIOUS
<1>4. launched' = [launched EXCEPT ![i] = new] /\ launched[i].phase = "idle"
  BY <1>2, <1>3 DEF BeginNode
<1>5. /\ DOMAIN launched[i] = DOMAIN Off /\ LaunchOK(launched[i])
      /\ launched[i].def \in past.bodies
  BY <1>1, <1>4 DEF LaunchShape, LaunchesOK, LaunchOK
<1>6. key \in Keys
  BY <1>1, <1>2, <1>5, KeyOfReal DEF LibShape, PastShape
<1>7. /\ new.ins = ins /\ new.keys \subseteq Keys /\ new.phase \in {"served", "running"}
      /\ new.def = launched[i].def /\ new.mode = launched[i].mode
      /\ ~hit => new.phase = "running" /\ new.art = NoArtifact /\ new.made = Off.made
      /\ hit => new.art = f[key].art /\ new.made = f[key].made
  BY <1>3, <1>5, <1>6 DEF LaunchOK, Off
<1>8. hit => f[key].art \in Artifacts /\ f[key].made \in Made
  BY <1>1, <1>2, LoadedOK DEF IndexOK
<1>9. past.bodies \subseteq Defs /\ NoDef \in Defs
  BY <1>1, FirstVersion DEF LibShape, PastShape, RealDefs, Defs, NoDef, Def
<1>10. LaunchOK(new)
  <2>1. CASE hit
    BY <1>1, <1>5, <1>7, <1>8, <1>9, <2>1 DEF LaunchOK, Made
  <2>2. CASE ~hit
    BY <1>1, <1>5, <1>7, <1>9, <2>2 DEF LaunchOK, Off
  <2> QED
    BY <2>1, <2>2
<1>11. LaunchesOK'
  BY <1>1, <1>4, <1>10, LaunchChanges
<1>12. IndexesOK'
  <2>1. copies' = copies \/ copies' = [copies EXCEPT ![i] = Loaded(i)]
    BY DEF BeginNode
  <2>2. \A c \in Caches : copies'[c].entries \in {copies[c].entries, index, Empty}
    BY <1>1, <2>1, LoadedOK DEF CopyShape
  <2> QED
    BY <1>1, <2>2, IndexRead DEF BeginNode
<1> QED
  BY <1>11, <1>12 DEF BeginNode, Steady, UseInv


\* A launch between two nodes, and one that is over.
LEMMA IdleOK ==
  ASSUME NEW l, LaunchOK(l), l.phase # "off" PROVE LaunchOK(Idle(l))
<1>1. NoDef \in Defs
  BY FirstVersion DEF NoDef, Def, Defs
<1> QED
  BY <1>1 DEF LaunchOK, Idle, Off

Over(l) == [Off EXCEPT !.keys = l.keys]

LEMMA OffOK ==
  ASSUME NEW l, LaunchOK(l) PROVE LaunchOK(Over(l))
<1>1. NoDef \in Defs /\ "off" \in Modes
  BY FirstVersion DEF NoDef, Def, Defs, Modes
<1> QED
  BY <1>1 DEF LaunchOK, Over, Off

LEMMA UseOfArtifact ==
  ASSUME Steady, NEW i \in Runs, NEW a \in menu.arts,
         CheckArtifact(i, a) \/ RefuseArtifact(i, a)
  PROVE  UseInv'
<1>1. /\ LaunchShape /\ LaunchesOK /\ past.bodies \subseteq past'.bodies /\ a \in Artifacts
      /\ index' = index /\ copies' = copies /\ settings' = settings
  BY DEF Steady, CacheInv, Shaped, UseInv, LibInv, LibShape, MenuShape,
         CheckArtifact, RefuseArtifact, CommitArtifact
<1>2. IndexesOK'
  BY <1>1, IndexRead DEF Steady, CacheInv, Shaped, UseInv
<1>3. DOMAIN launched[i] = DOMAIN Off /\ LaunchOK(launched[i])
  BY <1>1 DEF LaunchShape, LaunchesOK
<1>4. CASE CheckArtifact(i, a)
  <2>1. PICK new : new = [launched[i] EXCEPT !.phase = "checked", !.art = a]
    OBVIOUS
  <2>2. launched' = [launched EXCEPT ![i] = new] /\ launched[i].phase = "running"
    BY <1>1, <1>4, <2>1 DEF CheckArtifact, LaunchShape
  <2>3. LaunchOK(new)
    BY <1>1, <1>3, <2>1, <2>2 DEF LaunchOK, Off
  <2> QED
    BY <1>1, <1>2, <1>4, <2>2, <2>3, LaunchChanges DEF CheckArtifact, Steady, UseInv
<1>5. CASE RefuseArtifact(i, a)
  <2>1. PICK new : new = Idle(launched[i])
    OBVIOUS
  <2>2. launched' = [launched EXCEPT ![i] = new] /\ launched[i].phase = "running"
    BY <1>1, <1>5, <2>1 DEF RefuseArtifact, LaunchShape
  <2>3. LaunchOK(new)
    BY <1>3, <2>1, <2>2, IdleOK DEF LaunchOK
  <2> QED
    BY <1>1, <1>2, <1>5, <2>2, <2>3, LaunchChanges DEF RefuseArtifact, Steady, UseInv
<1> QED
  BY <1>4, <1>5

LEMMA UseOfCommit == ASSUME Steady, NEW i \in Runs, CommitArtifact(i) PROVE UseInv'
<1>1. /\ LaunchShape /\ LaunchesOK /\ past.bodies \subseteq past'.bodies
      /\ index' = index /\ copies' = copies /\ settings' = settings
  BY DEF Steady, CacheInv, Shaped, UseInv, CommitArtifact
<1>2. IndexesOK'
  BY <1>1, IndexRead DEF Steady, CacheInv, Shaped, UseInv
<1>3. DOMAIN launched[i] = DOMAIN Off /\ LaunchOK(launched[i])
  BY <1>1 DEF LaunchShape, LaunchesOK
<1>4. PICK new : new = [launched[i] EXCEPT !.phase = "stored"]
  OBVIOUS
<1>5. launched' = [launched EXCEPT ![i] = new] /\ launched[i].phase = "checked"
  BY <1>1, <1>4 DEF CommitArtifact, LaunchShape
<1>6. LaunchOK(new)
  BY <1>3, <1>4, <1>5 DEF LaunchOK, Off
<1>7. store' \subseteq Artifacts
  BY <1>3 DEF CommitArtifact, LaunchOK, Steady, UseInv
<1> QED
  BY <1>1, <1>2, <1>5, <1>6, <1>7, LaunchChanges DEF Steady, UseInv

LEMMA UseOfEnd ==
  ASSUME Steady, NEW i \in Runs, EndNode(i) \/ Continue(i) \/ Return(i)
  PROVE  UseInv'
<1>1. /\ CopyShape /\ LaunchShape /\ IndexesOK /\ LaunchesOK /\ i \in Caches /\ LibShape
      /\ past.bodies \subseteq past'.bodies /\ store' = store /\ settings' = settings
  BY DEF Steady, CacheInv, Shaped, UseInv, Caches, LibInv, EndNode, Continue, Return
<1>2. DOMAIN launched[i] = DOMAIN Off /\ LaunchOK(launched[i])
  BY <1>1 DEF LaunchShape, LaunchesOK
<1>3. PICK new : /\ launched' = [launched EXCEPT ![i] = new] /\ launched[i].phase # "off"
                 /\ new \in {Idle(launched[i]), Over(launched[i])}
  BY <1>1 DEF EndNode, Continue, Return, LaunchShape, Over
<1>4. LaunchOK(new)
  BY <1>2, <1>3, IdleOK, OffOK
<1>5. LaunchesOK'
  BY <1>1, <1>3, <1>4, LaunchChanges
<1>6. CASE copies' = [copies EXCEPT ![i] = Unloaded] /\ index' = index
  <2>1. \A c \in Caches : copies'[c].entries \in {copies[c].entries, index, Empty}
    BY <1>1, <1>6, IndexEmpty DEF CopyShape
  <2> QED
    BY <1>1, <1>5, <1>6, <2>1, IndexRead DEF Steady, UseInv
<1>7. CASE copies' = copies /\ index' = index
  BY <1>1, <1>5, <1>7, IndexRead DEF Steady, UseInv
<1>8. CASE EndNode(i) /\ launched[i].mode = "on"
  <2>1. /\ launched[i].phase = "stored" /\ launched[i].def \in past.bodies
        /\ launched[i].ins \in Inputs /\ launched[i].art \in Artifacts
    BY <1>2, <1>8 DEF EndNode, LaunchOK
  <2>2. Key(i) \in Keys
    BY <1>1, <2>1, KeyOfReal DEF Key, LibShape, PastShape
  <2>3. Entry(i) \in [art : Artifacts, made : Made]
    BY <2>1 DEF Entry, Made
  <2>4. PICK f : f = WithEntry(Loaded(i).entries, Key(i), Entry(i)) /\ IndexOK(f)
    BY <1>1, <2>2, <2>3, LoadedOK, IndexEntered
  <2>5. Saved(i, f)
    BY <1>8, <2>4 DEF EndNode, Put
  <2> QED
    BY <1>1, <1>5, <2>4, <2>5, IndexSaved DEF Steady, UseInv
<1> QED
  BY <1>6, <1>7, <1>8 DEF EndNode, Continue, Return

LEMMA UseStep ==
  LibInv /\ CacheInv /\ UseInv /\ [Next \/ UNCHANGED vars]_vars => UseInv'
<1> SUFFICES ASSUME LibInv, CacheInv, UseInv, [Next \/ UNCHANGED vars]_vars PROVE UseInv'
  OBVIOUS
<1>1. Steady
  BY PastGrows DEF Steady
<1>2. ASSUME NEW i \in Runs, CommitArtifact(i) PROVE UseInv'
  BY <1>1, <1>2, UseOfCommit
<1> QED
  BY <1>1, <1>2, UseOfService, UseOfClearExecution, UseOfLaunch, UseOfBeginNode, UseOfArtifact,
     UseOfEnd DEF Next

\* The three parts of the invariant hold of every state: the library's versions
\* (registry.go), the cache's copies (store.go) and what launches took from both.
THEOREM UseInvariant == Spec => [](LibInv /\ CacheInv /\ UseInv)
<1>1. Init => LibInv /\ CacheInv /\ UseInv
  BY LibraryInit, CacheInit, UseInit DEF Init
<1>2. LibInv /\ CacheInv /\ UseInv /\ [Next \/ UNCHANGED vars]_vars
        => (LibInv /\ CacheInv /\ UseInv)'
  BY LibraryInvStep, CacheStep, UseStep
<1> QED
  BY <1>1, <1>2, PTL DEF Spec

\* The shapes of the state (server.go:677, cache/store.go:29, controls.go:360):
\* no launch runs under a mode outside the three, whatever the settings say.
THEOREM TypeCorrect == Spec => []TypeOK
<1>1. LibInv /\ UseInv => TypeOK
  <2> SUFFICES ASSUME LibInv, UseInv PROVE TypeOK
    OBVIOUS
  <2>1. LibShape /\ past.bodies \subseteq Defs /\ Made \subseteq [def : Defs, ins : Inputs]
    BY DEF LibInv, LibShape, PastShape, RealDefs, Defs, Made
  <2>2. \A d \in Dirs : DOMAIN dirs[d] \subseteq Versions \cup {Plain} /\ Files(d) \subseteq Defs
    BY <2>1 DEF LibShape, DirsShape, Files
  <2>3. ASSUME NEW f, IndexOK(f) PROVE IsIndex(f)
    BY <2>1, <2>3 DEF IndexOK, IsIndex, Entries
  <2>4. \A i \in Runs : IsLaunch(launched[i])
    BY DEF UseInv, LaunchesOK, LaunchOK, IsLaunch
  <2> QED
    BY <2>1, <2>2, <2>3, <2>4
       DEF UseInv, IndexesOK, TypeOK, LibShape, LeftShape, SavingShape, TemplateShape
<1> QED
  BY <1>1, UseInvariant, PTL

\* A node served from the cache gets what a run of the very definition it runs
\* put out for the same inputs (cache/key.go:25), unless a version had two
\* bodies: whatever copies were behind, brought back or cleared in between.
THEOREM HitsAreRight == Spec => []HitIsRight
<1>1. LibInv /\ CacheInv /\ UseInv => HitIsRight
  <2> SUFFICES ASSUME LibInv, CacheInv, UseInv PROVE HitIsRight
    OBVIOUS
  <2>1. ServedRight
    BY KeyDecides DEF CacheInv, Served, ServedRight, Key
  <2>2. ASSUME ~Excused, NEW i \in Runs, launched[i].phase = "served"
        PROVE  launched[i].made.def = launched[i].def
    <3>1. launched[i].made.def \in past.bodies /\ launched[i].def \in past.bodies
      BY <2>2 DEF UseInv, LaunchesOK, LaunchOK
    <3>2. launched[i].made.def.version = launched[i].def.version
      BY <2>1, <2>2 DEF ServedRight, SameRequest
    <3> QED
      BY <2>2, <3>1, <3>2 DEF LibInv, Settled, OneBody
  <2> QED
    BY <2>1, <2>2 DEF HitIsRight
<1> QED
  BY <1>1, UseInvariant, PTL


-----------------------------------------------------------------------------
(* The quota: each launch but the one that checks last may hold one more   *)
(* artifact that passed its check.                                         *)

Small == { a \in Artifacts : SizeOf[a] <= MaxArtifact }
Holders == { i \in Runs : launched[i].phase = "checked" }
Held == { launched[i].art : i \in Holders }
Most == Quota + (Cardinality(Runs) - 1) * MaxArtifact
QuotaInv ==
  /\ IsFiniteSet(store) /\ store \cup Held \subseteq Small
  /\ Total(store \cup Held) <= Most

\* What an artifact of each kind comes to.
LEMMA BytesSmall ==
  ASSUME NEW S \in SUBSET Small, IsFiniteSet(S)
  PROVE  /\ IsFiniteSet(Bytes(S)) /\ Total(S) \in Nat
         /\ Total(S) <= Cardinality(S) * MaxArtifact
<1> DEFINE Box == S \X (1..MaxArtifact)
<1>1. MaxArtifact \in Nat /\ SizeOf \in [Artifacts -> Nat]
  BY OffersAssumption
<1>2. IsFiniteSet(1..MaxArtifact) /\ Cardinality(1..MaxArtifact) = MaxArtifact
  BY <1>1, FS_Interval
<1>3. IsFiniteSet(Box) /\ Cardinality(Box) = Cardinality(S) * MaxArtifact
  BY <1>2, FS_Product
<1>4. Bytes(S) \subseteq Box
  <2> SUFFICES ASSUME NEW a \in S, NEW x \in {a} \X (1..SizeOf[a]) PROVE x \in Box
    BY DEF Bytes
  <2>1. SizeOf[a] \in Nat /\ SizeOf[a] <= MaxArtifact
    BY <1>1 DEF Small
  <2>2. 1..SizeOf[a] \subseteq 1..MaxArtifact
    BY <1>1, <2>1
  <2> QED
    BY <2>2
<1>5. IsFiniteSet(Bytes(S)) /\ Cardinality(Bytes(S)) <= Cardinality(Box)
  BY <1>3, <1>4, FS_Subset
<1> QED
  BY <1>3, <1>5, FS_CardinalityType DEF Total

LEMMA BytesOfOne ==
  ASSUME NEW a \in Artifacts PROVE Total({a}) = SizeOf[a]
<1>1. SizeOf[a] \in Nat
  BY OffersAssumption
<1>2. IsFiniteSet(1..SizeOf[a]) /\ Cardinality(1..SizeOf[a]) = SizeOf[a]
  BY <1>1, FS_Interval
<1>3. IsFiniteSet({a}) /\ Cardinality({a}) = 1
  BY FS_Singleton
<1>4. Cardinality({a} \X (1..SizeOf[a])) = SizeOf[a]
  <2> DEFINE N == 1..SizeOf[a]
  <2>1. IsFiniteSet(N) /\ Cardinality(N) = SizeOf[a]
    BY <1>2
  <2> HIDE DEF N
  <2>2. Cardinality({a} \X N) = Cardinality({a}) * Cardinality(N)
    BY <1>3, <2>1, FS_Product
  <2>3. 1 * SizeOf[a] = SizeOf[a]
    <3>1. \A n \in Nat : 1 * n = n
      OBVIOUS
    <3> QED
      BY <1>1, <3>1
  <2>4. Cardinality({a} \X N) = SizeOf[a]
    BY <1>3, <2>1, <2>2, <2>3
  <2> QED
    BY <2>4 DEF N
<1>5. Bytes({a}) = {a} \X (1..SizeOf[a])
  BY DEF Bytes
<1> QED
  BY <1>1, <1>4, <1>5 DEF Total

\* More artifacts are more bytes, and together at most the sum.
LEMMA TotalGrows ==
  ASSUME NEW S \in SUBSET Small, IsFiniteSet(S), NEW T \in SUBSET S
  PROVE  Total(T) <= Total(S)
<1>1. Bytes(T) \subseteq Bytes(S)
  BY DEF Bytes
<1> QED
  BY <1>1, BytesSmall, FS_Subset DEF Total

LEMMA TotalOfBoth ==
  ASSUME NEW S \in SUBSET Small, IsFiniteSet(S), NEW T \in SUBSET Small, IsFiniteSet(T)
  PROVE  Total(S \cup T) <= Total(S) + Total(T)
<1>1. Bytes(S \cup T) = Bytes(S) \cup Bytes(T)
  BY DEF Bytes
<1>2. IsFiniteSet(Bytes(S)) /\ IsFiniteSet(Bytes(T)) /\ Total(S) \in Nat /\ Total(T) \in Nat
  BY BytesSmall
<1>3. Cardinality(Bytes(S) \cup Bytes(T)) =
        Cardinality(Bytes(S)) + Cardinality(Bytes(T)) - Cardinality(Bytes(S) \cap Bytes(T))
  BY <1>2, FS_Union
<1>4. Cardinality(Bytes(S) \cap Bytes(T)) \in Nat
  BY <1>2, FS_Intersection, FS_CardinalityType
<1>5. Total(S \cup T) = Total(S) + Total(T) - Cardinality(Bytes(S) \cap Bytes(T))
  BY <1>1, <1>3 DEF Total
<1> QED
  BY <1>2, <1>4, <1>5

LEMMA TimesMost ==
  ASSUME NEW a \in Nat, NEW b \in Nat, NEW m \in Nat, a <= b PROVE a * m <= b * m
<1>1. PICK k \in Nat : b = a + k
  <2>1. b - a \in Nat /\ b = a + (b - a)
    OBVIOUS
  <2> QED
    BY <2>1
<1>2. b * m = a * m + k * m
  BY <1>1
<1>3. k * m \in Nat /\ a * m \in Nat
  OBVIOUS
<1> QED
  BY <1>2, <1>3

\* The launches that hold an artifact are finitely many, and so is what they hold.
LEMMA HeldOfOthers ==
  ASSUME NEW i \in Runs, i \notin Holders
  PROVE  IsFiniteSet(Held) /\ Cardinality(Held) \in Nat
         /\ Cardinality(Held) <= Cardinality(Runs) - 1
<1> DEFINE f == [j \in Holders |-> launched[j].art]
<1>1. IsFiniteSet(Runs) /\ Holders \subseteq Runs \ {i}
  BY OffersAssumption DEF Holders
<1>2. IsFiniteSet(Runs \ {i}) /\ Cardinality(Runs \ {i}) = Cardinality(Runs) - 1
  BY <1>1, FS_RemoveElement
<1>3. IsFiniteSet(Holders) /\ Cardinality(Holders) <= Cardinality(Runs \ {i})
  BY <1>1, <1>2, FS_Subset
<1>4. f \in Surjection(Holders, Held)
  BY DEF Surjection, Held
<1>5. IsFiniteSet(Held) /\ Cardinality(Held) <= Cardinality(Holders)
  BY <1>3, <1>4, FS_Surjection
<1> QED
  BY <1>1, <1>2, <1>3, <1>5, FS_CardinalityType

LEMMA HeldFinite == IsFiniteSet(Held)
<1> DEFINE f == [j \in Holders |-> launched[j].art]
<1>1. IsFiniteSet(Runs) /\ Holders \subseteq Runs
  BY OffersAssumption DEF Holders
<1>2. IsFiniteSet(Holders)
  BY <1>1, FS_Subset
<1>3. f \in Surjection(Holders, Held)
  BY DEF Surjection, Held
<1> QED
  BY <1>2, <1>3, FS_Surjection


LEMMA MostInt == Most \in Int
<1>1. Cardinality(Runs) \in Nat /\ MaxArtifact \in Nat /\ Quota \in Nat
  BY OffersAssumption, FS_CardinalityType
<1> QED
  BY <1>1 DEF Most

\* What is stored or held afterwards was stored or held before.
LEMMA QuotaShrinks ==
  ASSUME QuotaInv, IsFiniteSet(store'), (store \cup Held)' \subseteq store \cup Held
  PROVE  QuotaInv'
<1>1. IsFiniteSet(store \cup Held) /\ store \cup Held \subseteq Small
  BY HeldFinite, FS_Union DEF QuotaInv
<1>2. IsFiniteSet((store \cup Held)') /\ Total((store \cup Held)') <= Total(store \cup Held)
  BY <1>1, TotalGrows, FS_Subset
<1>3. Total((store \cup Held)') \in Nat /\ Total(store \cup Held) \in Nat /\ Most \in Int
  <2>1. (store \cup Held)' \subseteq Small
    BY <1>1
  <2> QED
    BY <1>1, <1>2, <2>1, BytesSmall, MostInt
<1>4. Total((store \cup Held)') <= Most
  BY <1>2, <1>3 DEF QuotaInv
<1> QED
  BY <1>1, <1>4 DEF QuotaInv, Total, Bytes, Small, Most

\* No launch holds what it did not hold before.
LEMMA HoldsNoMore ==
  ASSUME NEW i \in Runs, launched'[i].phase # "checked",
         \A j \in Runs : j # i => launched'[j] = launched[j]
  PROVE  Held' \subseteq Held
<1>1. \A j \in Holders' : j \in Holders /\ launched'[j].art = launched[j].art
  BY DEF Holders
<1> QED
  BY <1>1 DEF Held

LEMMA SumOfFour ==
  ASSUME NEW t \in Nat, NEW u \in Nat, NEW v \in Nat, NEW h \in Nat, NEW s \in Nat,
         NEW z \in Nat, NEW p \in Nat, NEW r \in Nat, NEW q \in Nat,
         t <= u, u <= v + h, v <= s + z, s + z <= q, h <= p, p <= r
  PROVE  t <= q + r
OBVIOUS

\* A check admits an artifact: the quota counts only what is stored.
LEMMA QuotaOfCheck ==
  ASSUME LaunchShape, QuotaInv, NEW i \in Runs, NEW a \in Artifacts, CheckArtifact(i, a)
  PROVE  QuotaInv'
<1>1. /\ launched[i].phase = "running" /\ store' = store
      /\ SizeOf[a] <= MaxArtifact /\ (a \in store \/ Total(store) + SizeOf[a] <= Quota)
      /\ launched' = [launched EXCEPT ![i].phase = "checked", ![i].art = a]
  BY DEF CheckArtifact, Admits, Fits
<1>2. \A j \in Runs : j # i => launched'[j] = launched[j]
  BY <1>1 DEF LaunchShape
<1>3. /\ DOMAIN launched[i] = DOMAIN Off
      /\ launched'[i].art = a
  BY <1>1 DEF LaunchShape, Off
<1>4. i \notin Holders /\ \A j \in Holders' : j = i \/ (j \in Holders /\ launched'[j] = launched[j])
  BY <1>1, <1>2 DEF Holders
<1>5. Held' \subseteq Held \cup {a}
  BY <1>3, <1>4 DEF Held
<1>6. a \in Small /\ store \subseteq Small /\ Held \subseteq Small /\ {a} \subseteq Small
  BY <1>1 DEF Small, QuotaInv
<1>7. CASE a \in store
  BY <1>1, <1>5, <1>7, QuotaShrinks DEF QuotaInv
<1>8. CASE Total(store) + SizeOf[a] <= Quota
  <2>1. /\ IsFiniteSet(store) /\ IsFiniteSet({a}) /\ IsFiniteSet(store \cup {a})
        /\ IsFiniteSet(Held) /\ Cardinality(Held) \in Nat
        /\ Cardinality(Held) <= Cardinality(Runs) - 1
    BY <1>4, HeldOfOthers, FS_Singleton, FS_Union DEF QuotaInv
  <2>2. MaxArtifact \in Nat /\ Quota \in Nat /\ Cardinality(Runs) - 1 \in Nat
    <3>1. Cardinality(Runs) \in Nat /\ MaxArtifact \in Nat /\ Quota \in Nat
      BY OffersAssumption, FS_CardinalityType
    <3> QED
      BY <2>1, <3>1
  <2>3. Total(store \cup {a}) <= Total(store) + SizeOf[a]
    BY <1>6, <2>1, TotalOfBoth, BytesOfOne
  <2>4. Total((store \cup {a}) \cup Held) <= Total(store \cup {a}) + Total(Held)
    <3>1. store \cup {a} \in SUBSET Small /\ Held \in SUBSET Small
      BY <1>6
    <3> QED
      BY <2>1, <3>1, TotalOfBoth
  <2>5. Total(Held) <= Cardinality(Held) * MaxArtifact
    BY <1>6, <2>1, BytesSmall
  <2>6. Cardinality(Held) * MaxArtifact <= (Cardinality(Runs) - 1) * MaxArtifact
    BY <2>1, <2>2, TimesMost
  <2>7. /\ IsFiniteSet((store \cup {a}) \cup Held)
        /\ Total((store \cup Held)') <= Total((store \cup {a}) \cup Held)
        /\ (store \cup Held)' \subseteq Small
    <3>1. IsFiniteSet((store \cup {a}) \cup Held)
      BY <2>1, FS_Union
    <3>2. (store \cup Held)' \subseteq (store \cup {a}) \cup Held
      BY <1>1, <1>5
    <3>3. (store \cup {a}) \cup Held \subseteq Small
      BY <1>6
    <3> QED
      BY <3>1, <3>2, <3>3, TotalGrows
  <2>8. /\ Total(store) \in Nat /\ SizeOf[a] \in Nat /\ Total(store \cup {a}) \in Nat
        /\ Total(Held) \in Nat /\ Total((store \cup {a}) \cup Held) \in Nat
        /\ Total((store \cup Held)') \in Nat
        /\ Cardinality(Held) * MaxArtifact \in Nat
        /\ (Cardinality(Runs) - 1) * MaxArtifact \in Nat
    <3>1. SizeOf[a] \in Nat
      BY OffersAssumption
    <3>2. /\ store \cup {a} \subseteq Small /\ (store \cup {a}) \cup Held \subseteq Small
          /\ (store \cup Held)' \subseteq (store \cup {a}) \cup Held
      BY <1>1, <1>5, <1>6
    <3>3. IsFiniteSet((store \cup Held)')
      BY <2>7, <3>2, FS_Subset
    <3>4. /\ Total(store) \in Nat /\ Total(store \cup {a}) \in Nat /\ Total(Held) \in Nat
          /\ Total((store \cup {a}) \cup Held) \in Nat /\ Total((store \cup Held)') \in Nat
      BY <1>6, <2>1, <2>7, <3>2, <3>3, BytesSmall
    <3>5. \A x \in Nat, y \in Nat : x * y \in Nat
      OBVIOUS
    <3> QED
      BY <2>1, <2>2, <3>1, <3>4, <3>5
  <2>9. Total((store \cup Held)') <= Most
    BY <1>8, <2>2, <2>3, <2>4, <2>5, <2>6, <2>7, <2>8, SumOfFour DEF Most
  <2> QED
    BY <1>1, <2>1, <2>7, <2>9 DEF QuotaInv, Total, Bytes, Small, Most
<1> QED
  BY <1>1, <1>7, <1>8


\* A commit moves what was held into the store.
LEMMA QuotaOfCommit ==
  ASSUME LaunchShape, QuotaInv, NEW i \in Runs, CommitArtifact(i) PROVE QuotaInv'
<1>1. launched'[i].phase # "checked" /\ \A j \in Runs : j # i => launched'[j] = launched[j]
  BY DEF CommitArtifact, LaunchShape, Off
<1>2. Held' \subseteq Held
  BY <1>1, HoldsNoMore
<1>3. launched[i].art \in Held /\ store' = store \cup {launched[i].art}
  BY DEF CommitArtifact, Held, Holders
<1>4. IsFiniteSet(store')
  BY <1>3, FS_AddElement DEF QuotaInv
<1> QED
  BY <1>2, <1>3, <1>4, QuotaShrinks

\* Every other step of a launch puts it where it holds nothing.
LEMMA QuotaOfLaunch ==
  ASSUME LaunchShape, QuotaInv, NEW i \in Runs,
         \/ \E d \in Dirs, asked \in menu.asked : Launch(i, d, asked)
         \/ \E ins \in menu.ins : BeginNode(i, ins)
         \/ \E a \in menu.arts : RefuseArtifact(i, a)
         \/ EndNode(i) \/ Continue(i) \/ Return(i)
  PROVE  QuotaInv'
<1>1. store' = store
  BY DEF Launch, BeginNode, RefuseArtifact, EndNode, Continue, Return
<1>2. \A j \in Runs : j # i => launched'[j] = launched[j]
  BY DEF LaunchShape, Launch, BeginNode, RefuseArtifact, EndNode, Continue, Return
<1>3. launched'[i].phase # "checked"
  <2>1. CASE \E d \in Dirs, asked \in menu.asked : Launch(i, d, asked)
    BY <2>1 DEF LaunchShape, Launch, Off
  <2>2. CASE \E ins \in menu.ins : BeginNode(i, ins)
    <3>1. PICK ins \in menu.ins : BeginNode(i, ins)
      BY <2>2
    <3>2. PICK f, key, keyed, hit :
            /\ f = Loaded(i).entries /\ key = CacheKey(launched[i].def, ins)
            /\ keyed = (launched[i].mode # "off")
            /\ hit = (keyed /\ key \in DOMAIN f /\ f[key].art \in store)
      OBVIOUS
    <3>3. PICK new : new = [launched[i] EXCEPT
                     !.ins = ins, !.keys = IF keyed THEN @ \cup {key} ELSE @,
                     !.phase = IF hit THEN "served" ELSE "running",
                     !.art = IF hit THEN f[key].art ELSE NoArtifact,
                     !.made = IF hit THEN f[key].made ELSE Off.made]
      OBVIOUS
    <3>4. launched' = [launched EXCEPT ![i] = new]
      BY <3>1, <3>2, <3>3 DEF BeginNode
    <3>5. new.phase # "checked"
      BY <3>3 DEF LaunchShape, Off
    <3> QED
      BY <3>4, <3>5 DEF LaunchShape
  <2>3. CASE (\E a \in menu.arts : RefuseArtifact(i, a)) \/ EndNode(i) \/ Continue(i)
    <3>1. PICK new : new = Idle(launched[i])
      OBVIOUS
    <3>2. launched' = [launched EXCEPT ![i] = new]
      BY <2>3, <3>1 DEF LaunchShape, RefuseArtifact, EndNode, Continue
    <3> QED
      BY <3>1, <3>2, IdleLaunch DEF LaunchShape
  <2>4. CASE Return(i)
    BY <2>4 DEF LaunchShape, Return, Off
  <2> QED
    BY <2>1, <2>2, <2>3, <2>4
<1>4. Held' \subseteq Held
  BY <1>2, <1>3, HoldsNoMore
<1> QED
  BY <1>1, <1>4, QuotaShrinks DEF QuotaInv

LEMMA QuotaStep ==
  LibInv /\ CacheInv /\ QuotaInv /\ [Next \/ UNCHANGED vars]_vars => QuotaInv'
<1> SUFFICES ASSUME LibInv, CacheInv, QuotaInv, [Next \/ UNCHANGED vars]_vars PROVE QuotaInv'
  OBVIOUS
<1>1. LaunchShape /\ menu.arts \subseteq Artifacts
  BY DEF CacheInv, Shaped, LibInv, LibShape, MenuShape
<1>2. ASSUME launched' = launched, store' = store PROVE QuotaInv'
  BY <1>2 DEF QuotaInv, Held, Holders, Total, Bytes, Small, Most
<1>3. CASE \/ UNCHANGED vars \/ OpenForClear \/ ClearAll \/ ClearByCommand \/ RestartServer
           \/ \E mode \in menu.modes : PutSettings(mode)
           \/ \E i \in Runs : ClearExecution(i)
  BY <1>2, <1>3 DEF vars, OpenForClear, ClearAll, ClearByCommand, RestartServer, PutSettings,
                    ClearExecution
<1>4. CASE LibNext /\ UNCHANGED shared
  BY <1>2, <1>4 DEF shared
<1> QED
  BY <1>1, <1>3, <1>4, QuotaOfCheck, QuotaOfCommit, QuotaOfLaunch DEF Next

\* The start: nothing is stored or held.
LEMMA QuotaInit == Init => QuotaInv
<1> SUFFICES ASSUME Init PROVE QuotaInv
  OBVIOUS
<1>1. store = {} /\ Held = {}
  BY DEF Init, Held, Holders, Off
<1>2. IsFiniteSet({}) /\ Total({}) = 0
  BY FS_EmptySet DEF Total, Bytes
<1>3. Cardinality(Runs) - 1 \in Nat /\ MaxArtifact \in Nat /\ Quota \in Nat
  <2>1. IsFiniteSet(Runs) /\ Runs # {} /\ MaxArtifact \in Nat /\ Quota \in Nat
    BY OffersAssumption
  <2>2. Cardinality(Runs) \in Nat /\ Cardinality(Runs) # 0
    BY <2>1, FS_CardinalityType, FS_EmptySet
  <2> QED
    BY <2>1, <2>2
<1>4. (Cardinality(Runs) - 1) * MaxArtifact \in Nat
  <2>1. \A x \in Nat, y \in Nat : x * y \in Nat
    OBVIOUS
  <2> QED
    BY <1>3, <2>1
<1>5. 0 <= Most
  BY <1>3, <1>4 DEF Most
<1> QED
  BY <1>1, <1>2, <1>5 DEF QuotaInv

\* The quota is kept up to one artifact for each launch but one
\* (artifact_store.go:136), for any number of launches, each of which checks
\* under a mutex of its own and commits later: the stored and the checked
\* together stay within it.
THEOREM QuotaHolds == Spec => []QuotaBounded
<1>1. Init => LibInv /\ CacheInv /\ QuotaInv
  BY LibraryInit, CacheInit, QuotaInit DEF Init
<1>2. LibInv /\ CacheInv /\ QuotaInv /\ [Next \/ UNCHANGED vars]_vars
        => (LibInv /\ CacheInv /\ QuotaInv)'
  BY LibraryInvStep, CacheStep, QuotaStep
<1>3. QuotaInv => QuotaBounded
  <2> SUFFICES ASSUME QuotaInv PROVE Total(store) <= Most
    BY DEF QuotaBounded, Most
  <2>1. store \cup Held \in SUBSET Small /\ IsFiniteSet(store \cup Held) /\ IsFiniteSet(store)
    BY HeldFinite, FS_Union DEF QuotaInv
  <2>2. /\ Total(store) <= Total(store \cup Held) /\ Total(store) \in Nat
        /\ Total(store \cup Held) \in Nat
    BY <2>1, TotalGrows, BytesSmall
  <2>3. Total(store \cup Held) <= Most /\ Most \in Int
    BY MostInt DEF QuotaInv
  <2> QED
    BY <2>2, <2>3
<1> QED
  BY <1>1, <1>2, <1>3, PTL DEF Spec

=============================================================================
