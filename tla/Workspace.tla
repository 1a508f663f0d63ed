------------------------------ MODULE Workspace ------------------------------
(***************************************************************************)
(* What the runs of one workspace share: the library, the node cache's     *)
(* index, the artifact store and the settings.  The server and every       *)
(* launch hold a Cache and a Store of their own over the same files; a     *)
(* Cache reads the index once and saves its whole copy.                    *)
(***************************************************************************)
EXTENDS Library

CONSTANTS Runs,         \* concurrent launches
          Server,       \* the server's own Cache
          Inputs,       \* the artifact hashes a node may be given
          Artifacts,    \* what it may put out
          SizeOf,       \* their sizes
          MaxArtifact, Quota,
          ContractOf,   \* the part of a body that the cache key holds
          DefaultCache, \* the server's own mode, or ""
          NoArtifact

VARIABLES index,    \* cache/index.json
          copies,   \* each Cache's own copy
          store,    \* artifacts/
          settings, \* settings.json: the cache mode
          launched  \* each launch: its worker, mode and the node at hand

vars == <<menu, left, dirs, pins, saving, template, importing, past,
          index, copies, store, settings, launched>>
shared == <<index, copies, store, settings, launched>>

Caches == Runs \cup {Server}
Modes == {"on", "off", "readonly"}

ASSUME OffersAssumption ==
  /\ IsFiniteSet(Runs) /\ Runs # {} /\ Server \notin Runs
  /\ SizeOf \in [Artifacts -> Nat] /\ MaxArtifact \in Nat /\ Quota \in Nat
  /\ \A s \in Scenarios : /\ s.menu.ins \subseteq Inputs /\ s.menu.arts \subseteq Artifacts
                        /\ s.menu.modes \subseteq Modes

Unset == ""
Empty == [k \in {} |-> k]
Unloaded == [loaded |-> FALSE, entries |-> Empty, stale |-> FALSE]
Off == [phase |-> "off", def |-> NoDef, mode |-> "off", ins |-> <<>>,
        art |-> NoArtifact, made |-> [def |-> NoDef, ins |-> <<>>], keys |-> {}]
Idle(l) == [Off EXCEPT !.phase = "idle", !.def = l.def, !.mode = l.mode, !.keys = l.keys]

Init ==
  /\ \E s \in Scenarios : LibInit(s)
  /\ index = Empty /\ store = {} /\ settings = Unset
  /\ copies = [c \in Caches |-> Unloaded]
  /\ launched = [i \in Runs |-> Off]

-----------------------------------------------------------------------------
(* The cache.                                                              *)

\* cache.Key: the goal of a worker is not in it, the order of the inputs
\* neither.
Unversioned(def, ins) ==    \* mutant
  [version |-> First, contract |-> ContractOf[def.body], ins |-> ToBag(ins)]
CacheKey(def, ins) ==
  [version |-> def.version, contract |-> ContractOf[def.body], ins |-> ToBag(ins)]

\* ensureLoaded.
Loaded(c) ==
  IF copies[c].loaded THEN copies[c]
  ELSE [loaded |-> TRUE, entries |-> index, stale |-> FALSE]
WithEntry(entries, key, entry) ==
  [k \in DOMAIN entries \cup {key} |-> IF k = key THEN entry ELSE entries[k]]
Without(entries, keys) == [k \in DOMAIN entries \ keys |-> entries[k]]

\* save: the whole copy.  Every other copy that was loaded is behind now.
Saved(c, entries) ==
  /\ index' = entries
  /\ copies' = [x \in Caches |->
       IF x = c THEN [loaded |-> TRUE, entries |-> entries, stale |-> FALSE]
       ELSE [copies[x] EXCEPT !.stale = copies[x].loaded]]

Put(c, key, entry) == Saved(c, WithEntry(Loaded(c).entries, key, entry))

\* Delete: nothing is saved when nothing was removed.
SaveAnyway(c, keys) == Saved(c, Loaded(c).entries)    \* mutant
Delete(c, keys) ==
  IF keys \cap DOMAIN Loaded(c).entries = {}
    THEN index' = index /\ copies' = [copies EXCEPT ![c] = Loaded(c)]
    ELSE Saved(c, Without(Loaded(c).entries, keys))

\* POST /api/cache/clear: everything, or what an execution recorded.
ClearAll ==
  /\ Spend("clear")
  /\ Saved(Server, Empty)
  /\ UNCHANGED <<libVars, store, settings, launched>>

ClearExecution(i) ==
  /\ Spend("clear") /\ launched[i].keys # {}
  /\ Delete(Server, launched[i].keys)
  /\ UNCHANGED <<libVars, store, settings, launched>>

\* A clear reads the file first, if its Cache has not yet; another process
\* may save the index before the clear does.
OpenForClear ==
  /\ Spend("open")
  /\ copies' = [copies EXCEPT ![Server] = Loaded(Server)]
  /\ UNCHANGED <<libVars, index, store, settings, launched>>

\* The server starts again: its copy, the saves and the import at hand go.
RestartServer ==
  /\ Spend("restart")
  /\ copies' = [copies EXCEPT ![Server] = Unloaded]
  /\ saving' = [r \in Savers |-> NotSaving] /\ importing' = NotImporting
  /\ UNCHANGED <<menu, dirs, pins, template, past, index, store, settings, launched>>

\* wee cache clear: a process, and a Cache, of its own.
ClearByCommand ==
  /\ Spend("clear")
  /\ index' = Empty
  /\ copies' = [c \in Caches |-> [copies[c] EXCEPT !.stale = copies[c].loaded]]
  /\ UNCHANGED <<libVars, store, settings, launched>>

-----------------------------------------------------------------------------
(* The runs.                                                               *)

\* handlePutSettings: the whole of them.
PutSettings(mode) ==
  /\ Spend("settings")
  /\ settings' = mode
  /\ UNCHANGED <<libVars, index, copies, store, launched>>

\* effectiveCache: the first of these that is a mode.
AsConfigured(asked) == IF asked \in Modes THEN asked ELSE settings    \* mutant
EffectiveCache(asked) ==
  IF asked \in Modes THEN asked ELSE IF settings \in Modes THEN settings
  ELSE IF DefaultCache \in Modes THEN DefaultCache ELSE "on"

\* A launch reads the directory and gets Caches of its own; it is refused
\* when two files disagree on a version.
Launch(i, d, asked) ==
  /\ Spend("launch") /\ launched[i].phase = "off" /\ Files(d) # {}
  /\ \E w \in Registered(d) :
       launched' = [launched EXCEPT ![i] =
         [Off EXCEPT !.phase = "idle", !.def = w, !.mode = EffectiveCache(asked)]]
  /\ copies' = [copies EXCEPT ![i] = Unloaded]
  /\ UNCHANGED <<libVars, index, store, settings>>

Key(i) == CacheKey(launched[i].def, launched[i].ins)
Entry(i) ==
  [art |-> launched[i].art, made |-> [def |-> launched[i].def, ins |-> launched[i].ins]]

\* A node begins: its key is looked up, and it is served, or must be run.
BeginNode(i, ins) ==
  LET key == CacheKey(launched[i].def, ins)
      mine == Loaded(i)
      keyed == launched[i].mode # "off"
      hit == keyed /\ key \in DOMAIN mine.entries /\ mine.entries[key].art \in store
  IN  /\ Spend("node") /\ launched[i].phase = "idle"
      /\ copies' = IF keyed THEN [copies EXCEPT ![i] = mine] ELSE copies
      /\ launched' = [launched EXCEPT ![i] =
           [launched[i] EXCEPT
              !.ins = ins, !.keys = IF keyed THEN @ \cup {key} ELSE @,
              !.phase = IF hit THEN "served" ELSE "running",
              !.art = IF hit THEN mine.entries[key].art ELSE NoArtifact,
              !.made = IF hit THEN mine.entries[key].made ELSE Off.made]]
      /\ UNCHANGED <<libVars, index, store, settings>>

\* totalBytes: one element for each byte of each file.
Bytes(arts) == UNION { {a} \X (1..SizeOf[a]) : a \in arts }
Total(arts) == Cardinality(Bytes(arts))

\* PutReader up to the rename: the limit, what is stored already, the quota -
\* under the mutex of this launch's Store.
AlreadyFull(a) == Total(store) <= Quota    \* mutant
Fits(a) == Total(store) + SizeOf[a] <= Quota
Admits(a) == SizeOf[a] <= MaxArtifact /\ (a \in store \/ Fits(a))

CheckArtifact(i, a) ==
  /\ launched[i].phase = "running" /\ Admits(a)
  /\ launched' = [launched EXCEPT ![i].phase = "checked", ![i].art = a]
  /\ UNCHANGED <<left, libVars, index, copies, store, settings>>

RefuseArtifact(i, a) ==
  /\ launched[i].phase = "running" /\ ~Admits(a)
  /\ launched' = [launched EXCEPT ![i] = Idle(@)]
  /\ UNCHANGED <<left, libVars, index, copies, store, settings>>

CommitArtifact(i) ==
  /\ launched[i].phase = "checked"
  /\ store' = store \cup {launched[i].art}
  /\ launched' = [launched EXCEPT ![i].phase = "stored"]
  /\ UNCHANGED <<left, libVars, index, copies, settings>>

\* The entry is recorded in mode on only.
EndNode(i) ==
  /\ launched[i].phase = "stored"
  /\ launched' = [launched EXCEPT ![i] = Idle(@)]
  /\ IF launched[i].mode = "on"
       THEN Put(i, Key(i), Entry(i))
       ELSE UNCHANGED <<index, copies>>
  /\ UNCHANGED <<left, libVars, store, settings>>

Continue(i) ==
  /\ launched[i].phase = "served"
  /\ launched' = [launched EXCEPT ![i] = Idle(@)]
  /\ UNCHANGED <<left, libVars, index, copies, store, settings>>

\* The run returns, or its process dies at any point.
Return(i) ==
  /\ launched[i].phase # "off"
  /\ launched' = [launched EXCEPT ![i] = [Off EXCEPT !.keys = launched[i].keys]]
  /\ copies' = [copies EXCEPT ![i] = Unloaded]
  /\ UNCHANGED <<left, libVars, index, store, settings>>

Next ==
  \/ LibNext /\ UNCHANGED shared
  \/ OpenForClear \/ ClearAll \/ ClearByCommand \/ RestartServer
  \/ \E mode \in menu.modes : PutSettings(mode)
  \/ \E i \in Runs :
       \/ ClearExecution(i)
       \/ \E d \in Dirs, asked \in menu.asked : Launch(i, d, asked)
       \/ \E ins \in menu.ins : BeginNode(i, ins)
       \/ \E a \in menu.arts : CheckArtifact(i, a) \/ RefuseArtifact(i, a)
       \/ CommitArtifact(i) \/ EndNode(i) \/ Continue(i) \/ Return(i)

\* Nobody need do anything.
Spec == Init /\ [][Next \/ UNCHANGED vars]_vars

-----------------------------------------------------------------------------
(* Types: a definition is a file's, an entry an artifact's, a mode a known *)
(* one, though a request or the settings may not name any.                 *)
Defs == [version : Versions, body : Bodies \cup {Nobody}]
Keys == [version : Versions, contract : { ContractOf[b] : b \in Bodies },
         ins : { ToBag(ins) : ins \in Inputs }]
Entries == [art : Artifacts, made : [def : Defs, ins : Inputs]]
IsIndex(f) == DOMAIN f \subseteq Keys /\ \A k \in DOMAIN f : f[k] \in Entries
IsLaunch(l) ==
  /\ l.phase \in {"off", "idle", "running", "checked", "stored", "served"}
  /\ l.def \in Defs /\ l.mode \in Modes /\ l.ins \in Inputs \cup {<<>>}
  /\ l.art \in Artifacts \cup {NoArtifact} /\ l.keys \subseteq Keys
  /\ l.made.def \in Defs /\ l.made.ins \in Inputs \cup {<<>>}
  /\ l.phase \in {"checked", "stored", "served"} => l.art \in Artifacts

(* The shapes of the state (server.go:677, cache/store.go:29,              *)
(* controls.go:360): no launch runs under a mode outside the three.        *)
TypeOK ==
  /\ left \in [Kinds -> Nat] /\ settings \in Modes \cup {Unset}
  /\ \A d \in Dirs : DOMAIN dirs[d] \subseteq Versions \cup {Plain}
                   /\ Files(d) \subseteq Defs
  /\ pins \in [Dirs -> Versions] /\ template \in Defs
  /\ saving \in [Savers -> [dir : Dirs \cup {Nobody}, def : Defs]]
  /\ IsIndex(index) /\ \A c \in Caches : IsIndex(copies[c].entries)
  /\ store \subseteq Artifacts /\ \A i \in Runs : IsLaunch(launched[i])

(* A version names one body for ever, across saves, edits, exports and     *)
(* imports, unless one of the three excuses applies (server.go:643, 797):  *)
(* the registry checks the files at hand, never those a write replaced.    *)
OneDefinition == ~Excused => \A w \in past.bodies : BodiesOf(w.version) = {w.body}

(* A node served from the cache gets what a run of the same version and    *)
(* contract put out for the same inputs, in whatever order, and of the     *)
(* very definition it runs unless the version had two (cache/key.go:25):   *)
(* whatever stale copies were written back, or cleared, in between.        *)
SameRequest(l) ==
  /\ l.made.def.version = l.def.version
  /\ ContractOf[l.made.def.body] = ContractOf[l.def.body]
  /\ ToBag(l.made.ins) = ToBag(l.ins)
ServedRight == \A i \in Runs : launched[i].phase = "served" => SameRequest(launched[i])
HitIsRight ==
  /\ ServedRight
  /\ ~Excused => \A i \in Runs :
       launched[i].phase = "served" => launched[i].made.def = launched[i].def

(* The quota is kept up to one artifact for each launch but one: every     *)
(* Store checks under its own mutex and commits after the check            *)
(* (artifact_store.go:136-144).                                            *)
QuotaBounded == Total(store) <= Quota + (Cardinality(Runs) - 1) * MaxArtifact

(* What a save of the index changes is what its caller meant, while the    *)
(* caller's copy is not behind the file: a recorded node adds its entry    *)
(* and takes none away, a clear takes away all, or what one execution      *)
(* recorded (cache/store.go:61, inspect.go:54).  A copy that is behind     *)
(* brings back what was cleared and drops what was added.                  *)
Recorded(i) ==
  launched[i].phase = "stored" /\ launched'[i].phase = "idle" /\ launched[i].mode = "on"
SaveAdds ==
  \A i \in Runs : Recorded(i) /\ ~copies[i].stale => index' = WithEntry(index, Key(i), Entry(i))
ClearTakes ==
  left'.clear < left.clear /\ ~copies[Server].stale =>
    \/ index' = Empty
    \/ \E i \in Runs : launched[i].keys # {} /\ index' = Without(index, launched[i].keys)
SavesAreExact == [][SaveAdds /\ ClearTakes]_vars

=============================================================================
